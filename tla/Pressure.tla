------------------------------ MODULE Pressure ------------------------------
(***************************************************************************)
(* The memory-pressure generator, crates/ledger/src/pressure.rs.           *)
(*                                                                         *)
(* The tool re-executes itself as a child that dirties GB chunks of one    *)
(* GiB each, prints HOLDING and sleeps until it is killed.  apply() spawns *)
(* the child and blocks on its stdout; what it returns is a guard whose    *)
(* Drop kills and reaps the child.  Two processes, a pipe, and a process   *)
(* that may die at any moment.                                             *)
(*                                                                         *)
(* gen     the child: "none", "dirtying", "holding", "zombie" (exited, not *)
(*         waited for) or "reaped"                                         *)
(* held    chunks the child has dirtied                                    *)
(* pipe    what apply's next read of the child's stdout gives: nothing yet *)
(*         ("open"), the line "HOLDING", or end of file ("eof")            *)
(* app     the caller of apply: "idle", "reading" (inside apply), "ok" (it *)
(*         holds the guard), "err" (apply failed) or "dropped"             *)
(* parent  whether the calling process is still alive                      *)
(***************************************************************************)
EXTENDS Naturals

CONSTANT GB            \* the gb argument of apply

ASSUME GBAssumption == GB \in Nat

VARIABLES gen, held, pipe, app, parent

pressureVars == <<gen, held, pipe, app, parent>>

PressureTypeOK ==
  /\ gen \in {"none", "dirtying", "holding", "zombie", "reaped"}
  /\ held \in 0..GB
  /\ pipe \in {"open", "HOLDING", "eof"}
  /\ app \in {"idle", "reading", "ok", "err", "dropped"}
  /\ parent \in {"alive", "dead"}

PressureInit ==
  /\ gen = "none"
  /\ held = 0
  /\ pipe = "open"
  /\ app = "idle"
  /\ parent = "alive"

-----------------------------------------------------------------------------
(* The child. *)

\* mmap of one chunk succeeds and every page of it is written.
DirtyChunk ==
  /\ gen = "dirtying"
  /\ held < GB
  /\ held' = held + 1
  /\ UNCHANGED <<gen, pipe, app, parent>>

\* println!("HOLDING"): with nobody left to read the pipe the print fails
\* and the child panics; otherwise the line is there for apply to read.
PrintHoldingUnchecked ==
  /\ gen' = "holding"
  /\ pipe' = IF parent = "alive" THEN "HOLDING" ELSE pipe
  /\ UNCHANGED <<held, app, parent>>
PrintHolding ==
  /\ IF parent = "alive"
       THEN gen' = "holding" /\ pipe' = "HOLDING"
       ELSE gen' = "zombie" /\ UNCHANGED pipe
  /\ UNCHANGED <<held, app, parent>>

\* Every chunk is dirtied: leave the loop and report.
HoldAll ==
  /\ gen = "dirtying"
  /\ held = GB
  /\ PrintHolding

\* mmap fails: leave the loop early, "holding what we have", and report.
HoldPartial ==
  /\ gen = "dirtying"
  /\ held < GB
  /\ PrintHolding

\* The child is killed from outside (the system it is starving of memory
\* kills it); its end of the pipe closes.
GeneratorDies ==
  /\ gen \in {"dirtying", "holding"}
  /\ gen' = "zombie"
  /\ pipe' = IF pipe = "open" THEN "eof" ELSE pipe
  /\ UNCHANGED <<held, app, parent>>

-----------------------------------------------------------------------------
(* The caller. *)

\* current_exe or spawn fails: apply returns the error.
SpawnFails ==
  /\ parent = "alive"
  /\ app \in {"idle", "err", "dropped"}
  /\ app' = "err"
  /\ UNCHANGED <<gen, held, pipe, parent>>

\* apply spawns the child and starts reading its stdout.
Spawn ==
  /\ parent = "alive"
  /\ app \in {"idle", "err", "dropped"}
  /\ app' = "reading"
  /\ gen' = "dirtying"
  /\ held' = 0
  /\ pipe' = "open"
  /\ UNCHANGED parent

\* The line read is HOLDING: apply returns the guard.
ReadAnything ==
  /\ parent = "alive" /\ app = "reading" /\ pipe # "open"
  /\ app' = "ok"
  /\ UNCHANGED <<gen, held, pipe, parent>>
ReadHolding ==
  /\ parent = "alive"
  /\ app = "reading"
  /\ pipe = "HOLDING"
  /\ app' = "ok"
  /\ UNCHANGED <<gen, held, pipe, parent>>

\* Anything else (end of file): kill and wait, then return an error.
ReadOtherNoWait ==
  /\ parent = "alive" /\ app = "reading" /\ pipe = "eof"
  /\ app' = "err"
  /\ UNCHANGED <<gen, held, pipe, parent>>
ReadOther ==
  /\ parent = "alive"
  /\ app = "reading"
  /\ pipe = "eof"
  /\ app' = "err"
  /\ gen' = "reaped"
  /\ UNCHANGED <<held, pipe, parent>>

\* Drop of the guard: kill and wait.
DropGuard ==
  /\ parent = "alive"
  /\ app = "ok"
  /\ app' = "dropped"
  /\ gen' = "reaped"
  /\ UNCHANGED <<held, pipe, parent>>

\* The calling process is killed; no destructor runs.
ParentDies ==
  /\ parent = "alive"
  /\ parent' = "dead"
  /\ UNCHANGED <<gen, held, pipe, app>>

-----------------------------------------------------------------------------
Generator == DirtyChunk \/ HoldAll \/ HoldPartial \/ GeneratorDies

Apply == SpawnFails \/ Spawn \/ ReadHolding \/ ReadOther

PressureNext == Generator \/ Apply \/ DropGuard \/ ParentDies

(***************************************************************************)
(* The child makes progress by itself (the scheduler runs it); a caller    *)
(* inside apply returns once the read does, and a guard is dropped in the  *)
(* end.  Nobody is obliged to call apply, die or kill anything.            *)
(***************************************************************************)
PressureFairness ==
  /\ WF_pressureVars(DirtyChunk \/ HoldAll)
  /\ WF_pressureVars(ReadHolding \/ ReadOther)
  /\ WF_pressureVars(DropGuard)

PressureSpec == PressureInit /\ [][PressureNext]_pressureVars /\ PressureFairness

-----------------------------------------------------------------------------
(***************************************************************************)
(* While the caller lives, a generator process exists only inside a call   *)
(* of apply or behind a live guard: a failed apply and a dropped guard     *)
(* both leave it killed and reaped, whatever it was doing at that moment.  *)
(***************************************************************************)
NoGeneratorWithoutGuard ==
  parent = "alive" /\ app \in {"idle", "err", "dropped"}
    => gen \in {"none", "reaped"}

(***************************************************************************)
(* apply hands out a guard only for a child that has reported HOLDING: a   *)
(* child that died first, at any point of its dirtying, makes apply fail.  *)
(***************************************************************************)
GuardAfterReport ==
  app = "ok" => /\ pipe = "HOLDING"
                /\ gen \in {"holding", "zombie"}

(***************************************************************************)
(* A generator orphaned before it reported does not go on to hold the      *)
(* memory for ever: the broken pipe stops it at its print.                 *)
(***************************************************************************)
EarlyOrphanStops ==
  gen = "dirtying" /\ parent = "dead" ~> gen = "zombie"
=============================================================================
