--------------------------- MODULE PressureProofs ---------------------------
(***************************************************************************)
(* Proofs for the pressure generator: for every GB, the type invariant and *)
(* the two safety invariants of Pressure.  The three are inductive         *)
(* together with one more fact, Chain, that ties the child's state to what *)
(* the pipe shows and to where the caller is.                              *)
(***************************************************************************)
EXTENDS Pressure, TLAPS

(***************************************************************************)
(* The chain from the child to the caller.  Outside apply and the guard    *)
(* there is no child; a child still dirtying has written nothing; a        *)
(* HOLDING in the pipe was written by a child that reached its sleep.      *)
(***************************************************************************)
Chain ==
  /\ app \in {"idle", "err", "dropped"} => gen \in {"none", "reaped"}
  /\ app = "reading" => gen \in {"dirtying", "holding", "zombie"}
  /\ app = "ok" => pipe = "HOLDING"
  /\ gen = "dirtying" => app = "reading" /\ pipe = "open"
  /\ pipe = "HOLDING" => gen \in {"holding", "zombie", "reaped"}
  /\ app = "ok" => gen \in {"holding", "zombie"}

PressureInv == PressureTypeOK /\ Chain

\* The initial state satisfies the inductive invariant.
LEMMA PressureInitInv == PressureInit => PressureInv
  BY GBAssumption
  DEF PressureInit, PressureInv, PressureTypeOK, Chain

\* Every step of the generator, of apply, of the guard's drop and of a dying
\* parent preserves the inductive invariant.
LEMMA PressureStepInv == PressureInv /\ [PressureNext]_pressureVars => PressureInv'
<1> SUFFICES ASSUME PressureInv, [PressureNext]_pressureVars
             PROVE  PressureInv'
  OBVIOUS
<1> USE GBAssumption DEF PressureInv, PressureTypeOK, Chain
<1>1. CASE DirtyChunk
  BY <1>1 DEF DirtyChunk
<1>2. CASE HoldAll
  BY <1>2 DEF HoldAll, PrintHolding
<1>3. CASE HoldPartial
  BY <1>3 DEF HoldPartial, PrintHolding
<1>4. CASE GeneratorDies
  BY <1>4 DEF GeneratorDies
<1>5. CASE SpawnFails
  BY <1>5 DEF SpawnFails
<1>6. CASE Spawn
  BY <1>6 DEF Spawn
<1>7. CASE ReadHolding
  BY <1>7 DEF ReadHolding
<1>8. CASE ReadOther
  BY <1>8 DEF ReadOther
<1>9. CASE DropGuard
  BY <1>9 DEF DropGuard
<1>10. CASE ParentDies
  BY <1>10 DEF ParentDies
<1>11. CASE UNCHANGED pressureVars
  BY <1>11 DEF pressureVars
<1>12. QED
  BY <1>1, <1>2, <1>3, <1>4, <1>5, <1>6, <1>7, <1>8, <1>9, <1>10, <1>11
  DEF PressureNext, Generator, Apply

\* The inductive invariant holds of every behaviour, whatever GB is.
THEOREM PressureInvariant == PressureSpec => []PressureInv
<1>1. PressureInit => PressureInv
  BY PressureInitInv
<1>2. PressureInv /\ [PressureNext]_pressureVars => PressureInv'
  BY PressureStepInv
<1>3. QED
  BY <1>1, <1>2, PTL DEF PressureSpec

\* Type correctness of the generator's protocol (pressure.rs).
THEOREM PressureTypeCorrect == PressureSpec => []PressureTypeOK
<1>1. PressureInv => PressureTypeOK
  BY DEF PressureInv
<1>2. QED
  BY <1>1, PressureInvariant, PTL

\* A failed apply and a dropped guard leave no generator process, for every
\* GB and wherever in its dirtying the child was.
THEOREM GeneratorIsGuarded == PressureSpec => []NoGeneratorWithoutGuard
<1>1. PressureInv => NoGeneratorWithoutGuard
  BY DEF PressureInv, Chain, NoGeneratorWithoutGuard
<1>2. QED
  BY <1>1, PressureInvariant, PTL

\* apply returns a guard only for a child that has reported HOLDING.
THEOREM GuardIsReported == PressureSpec => []GuardAfterReport
<1>1. PressureInv => GuardAfterReport
  BY DEF PressureInv, Chain, GuardAfterReport
<1>2. QED
  BY <1>1, PressureInvariant, PTL
=============================================================================
