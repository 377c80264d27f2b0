--------------------------- MODULE PageWalkProofs ---------------------------
(***************************************************************************)
(* Proofs about the page walks: for every amount of guest RAM, every       *)
(* sequence of calls and every range, memory and the returned counts are   *)
(* exactly what the calls promise.                                         *)
(***************************************************************************)
EXTENDS PageWalk, FiniteSetTheorems, TLAPS

(***************************************************************************)
(* run_hammer walks all of RAM, and it is at the end of it when it rings:  *)
(* this is what lets the doorbell turn "one ahead" into "one more sweep".  *)
(***************************************************************************)
HammerWalks ==
  /\ call.fn = "hammer" => call.start = 0 /\ call.end = Pages
  /\ phase = "rung" => call.fn = "hammer" /\ cursor = call.end
  /\ call.fn # "hammer" /\ phase = "returned" => cursor = call.end

WalkInv == WalkTypeOK /\ HammerWalks /\ WalkExact /\ VerifyCounts

\* A request of the program is a request, its range is in order, and
\* run_hammer's is all of RAM.
LEMMA RequestsAreRequests ==
  ASSUME NEW c \in Requests
  PROVE  /\ c \in Request
         /\ c.start \in Nat /\ c.end \in Nat /\ c.start <= c.end
         /\ c.end <= Pages
         /\ c.fn = "hammer" => c.start = 0 /\ c.end = Pages
<1>0. /\ c \in [fn : Function, start : 0..Pages, end : 0..Pages,
               value : Values \cup {0}]
      /\ c.start + MinPages <= c.end
      /\ c.fn \in {"read", "hammer"} => c.start = 0 /\ c.end = Pages
  BY Zenon DEF Requests
<1>1. /\ c.fn \in Function /\ c.start \in 0..Pages /\ c.end \in 0..Pages
      /\ c.value \in Nat /\ c.start + MinPages <= c.end
      /\ c.fn \in {"read", "hammer"} => c.start = 0 /\ c.end = Pages
  <2>1. /\ c.fn \in Function /\ c.start \in 0..Pages /\ c.end \in 0..Pages
        /\ c.value \in Values \cup {0}
    BY <1>0, Zenon
  <2>2. c.value \in Nat
    <3>1. 0 \in Nat
      OBVIOUS
    <3>2. QED
      BY <2>1, <3>1, WalkAssumption, Zenon
  <2>3. QED
    BY <1>0, <2>1, <2>2, Zenon
<1>2. c = [fn |-> c.fn, start |-> c.start, end |-> c.end, value |-> c.value]
  BY DEF Requests
<1>3. c \in Request
  BY <1>1, <1>2 DEF Request
<1>4. QED
  BY <1>1, <1>3, WalkAssumption

\* A word stays a word.
LEMMA EffectType ==
  ASSUME NEW c \in Request, NEW p \in Page, NEW v \in Nat
  PROVE  Effect(c, p, v) \in Nat
<1>1. c.fn \in Function /\ c.value \in Nat /\ p \in Nat
  BY WalkAssumption DEF Request, Page
<1>2. QED
  BY <1>1, WalkAssumption DEF Effect, Function

\* Fresh memory and no call.
LEMMA WalkInitInv == WalkInit => WalkInv
<1> SUFFICES ASSUME WalkInit PROVE WalkInv
  OBVIOUS
<1>1. WalkTypeOK
  BY WalkAssumption
  DEF WalkInit, WalkTypeOK, NoRequest, Request, Function, Page
<1>2. HammerWalks /\ VerifyCounts
  BY DEF WalkInit, HammerWalks, VerifyCounts, NoRequest
<1>3. WalkExact
  BY DEF WalkInit, WalkExact, NoRequest, Visited, Page
<1>4. QED
  BY <1>1, <1>2, <1>3 DEF WalkInv

-----------------------------------------------------------------------------
\* A call starts with nothing visited.
LEMMA BeginInv == ASSUME WalkInv, NEW c \in Requests, Begin(c) PROVE WalkInv'
<1>1. /\ c \in Request /\ c.start \in Nat /\ c.end \in Nat
      /\ c.start <= c.end /\ c.end <= Pages
      /\ c.fn = "hammer" => c.start = 0 /\ c.end = Pages
  BY RequestsAreRequests
<1>2. /\ phase' = "walking" /\ call' = c /\ cursor' = c.start /\ count' = 0
      /\ calls' = calls + 1 /\ calls < MaxCalls /\ old' = mem /\ mem' = mem
  BY DEF Begin
<1>3. WalkTypeOK'
  BY <1>1, <1>2, WalkAssumption DEF WalkInv, WalkTypeOK
<1>4. HammerWalks'
  BY <1>1, <1>2 DEF HammerWalks
<1>5. Visited' = {}
  BY <1>1, <1>2 DEF Visited
<1>6. WalkExact'
  <2>1. \A p \in Page : c.fn = "hammer" => Sweeps(p)' = 0
    BY <1>1, <1>2 DEF Sweeps, Page
  <2>2. \A p \in Page : old'[p] \in Nat /\ mem'[p] = old'[p]
    BY <1>2 DEF WalkInv, WalkTypeOK
  <2>3. QED
    BY <1>2, <1>5, <2>1, <2>2 DEF WalkExact
<1>7. VerifyCounts'
  <2>1. {p \in Visited' : old'[p] # call'.value} = {}
    BY <1>5
  <2>2. QED
    BY <1>2, <2>1, FS_EmptySet DEF VerifyCounts
<1>8. QED
  BY <1>3, <1>4, <1>6, <1>7 DEF WalkInv

\* A visit does its page and no other.
LEMMA VisitInv == WalkInv /\ Visit => WalkInv'
<1> SUFFICES ASSUME WalkInv, Visit PROVE WalkInv'
  OBVIOUS
<1>0. PICK k \in Page : k = cursor
  BY WalkAssumption DEF WalkInv, WalkTypeOK, Visit, Request, Page
<1>1. /\ phase = "walking" /\ k < call.end /\ UNCHANGED <<call, phase, calls, old>>
      /\ mem' = [mem EXCEPT ![k] = Effect(call, k, mem[k])]
      /\ count' = IF call.fn = "verify" /\ mem[k] # call.value
                    THEN count + 1 ELSE count
      /\ cursor' = k + 1
  BY <1>0 DEF Visit
<1>2. /\ call \in Request /\ call.start \in Nat /\ call.end \in 0..Pages
      /\ k \in Nat /\ call.start <= k /\ count \in Nat
      /\ mem \in [Page -> Nat] /\ old \in [Page -> Nat]
  BY <1>0, WalkAssumption DEF WalkInv, WalkTypeOK, Request, Page
<1>3. Effect(call, k, mem[k]) \in Nat
  BY <1>2, EffectType
<1>4. WalkTypeOK'
  BY <1>1, <1>2, <1>3, WalkAssumption DEF WalkInv, WalkTypeOK
<1>5. HammerWalks'
  BY <1>1 DEF WalkInv, HammerWalks
<1>6. Visited' = Visited \cup {k} /\ k \notin Visited
  BY <1>0, <1>1, <1>2 DEF Visited
<1>7. mem[k] = IF call.fn = "hammer" THEN old[k] + count ELSE old[k]
  BY <1>0, <1>1, <1>2, <1>6 DEF WalkInv, WalkExact, Sweeps
<1>8. WalkExact'
  <2>1. CASE call.fn = "hammer"
    <3>1. ASSUME NEW p \in Page PROVE mem'[p] = old[p] + Sweeps(p)'
      <4>1. CASE p = k
        <5>1. Effect(call, k, mem[k]) = mem[k] + 1
          BY <2>1 DEF Effect
        <5>2. Sweeps(p)' = count + 1
          BY <1>1, <1>2, <2>1, <4>1 DEF Sweeps
        <5>3. QED
          BY <1>1, <1>2, <1>7, <2>1, <4>1, <5>1, <5>2
      <4>2. CASE p # k
        <5>1. Sweeps(p)' = Sweeps(p)
          BY <1>0, <1>1, <1>2, <2>1, <4>2, WalkAssumption DEF Sweeps, Page
        <5>2. QED
          BY <1>1, <1>2, <2>1, <4>2, <5>1 DEF WalkInv, WalkExact
      <4>3. QED
        BY <4>1, <4>2
    <3>2. QED
      BY <1>1, <2>1, <3>1 DEF WalkExact
  <2>2. CASE call.fn # "hammer"
    <3>1. ASSUME NEW p \in Page
          PROVE mem'[p] = IF p \in Visited' THEN Effect(call, p, old[p])
                                            ELSE old[p]
      <4>1. CASE p = k
        BY <1>1, <1>2, <1>6, <1>7, <2>2, <4>1
      <4>2. CASE p # k
        BY <1>1, <1>2, <1>6, <2>2, <4>2 DEF WalkInv, WalkExact
      <4>3. QED
        BY <4>1, <4>2
    <3>2. \A p \in Page : Effect(call, p, old[p]) = Effect(call', p, old'[p])
      BY <1>1
    <3>3. QED
      BY <1>1, <2>2, <3>1, <3>2 DEF WalkExact
  <2>3. QED
    BY <2>1, <2>2
<1>9. VerifyCounts'
  <2> SUFFICES ASSUME call.fn = "verify"
               PROVE  count' = Cardinality({p \in Visited' : old[p] # call.value})
    BY <1>1 DEF VerifyCounts
  <2> DEFINE Bad == {p \in Visited : old[p] # call.value}
  <2>1. IsFiniteSet(Bad) /\ k \notin Bad /\ count = Cardinality(Bad)
    <3>1. IsFiniteSet(Visited)
      <4>1. call.start \in Int /\ k - 1 \in Int /\ Visited = call.start..k - 1
        BY <1>0, <1>2 DEF Visited
      <4>2. QED
        BY <4>1, FS_Interval
    <3>2. IsFiniteSet(Bad)
      BY <3>1, FS_Subset
    <3>3. QED
      BY <1>6, <3>2 DEF WalkInv, VerifyCounts
  <2>2. mem[k] = old[k]
    BY <1>7
  <2>3. CASE old[k] # call.value
    <3>1. {p \in Visited' : old[p] # call.value} = Bad \cup {k}
      BY <1>6, <2>3
    <3>2. Cardinality(Bad \cup {k}) = Cardinality(Bad) + 1
      BY <2>1, FS_AddElement
    <3>3. QED
      BY <1>1, <2>1, <2>2, <2>3, <3>1, <3>2
  <2>4. CASE old[k] = call.value
    <3>1. {p \in Visited' : old[p] # call.value} = Bad
      BY <1>6, <2>4
    <3>2. QED
      BY <1>1, <2>1, <2>2, <2>4, <3>1
  <2>5. QED
    BY <2>3, <2>4
<1>10. QED
  BY <1>4, <1>5, <1>8, <1>9 DEF WalkInv

\* Ringing, sweeping again, stopping and returning touch no page.
LEMMA BellInv == WalkInv /\ (Return \/ Ring \/ Again \/ Stop) => WalkInv'
<1> SUFFICES ASSUME WalkInv, Return \/ Ring \/ Again \/ Stop PROVE WalkInv'
  OBVIOUS
<1>1. UNCHANGED <<mem, call, calls, old>>
  BY DEF Return, Ring, Again, Stop
<1>2. WalkTypeOK'
  BY <1>1, WalkAssumption
  DEF WalkInv, WalkTypeOK, Request, Return, Ring, Again, Stop
<1>3. HammerWalks'
  BY <1>1 DEF WalkInv, HammerWalks, Return, Ring, Again, Stop
<1>4. CASE call.fn = "hammer"
  <2>1. ASSUME NEW p \in Page PROVE Sweeps(p)' = Sweeps(p)
    BY <1>1, <1>4, WalkAssumption
    DEF WalkInv, WalkTypeOK, HammerWalks, Sweeps, Page, Return, Ring, Again, Stop
  <2>2. WalkExact'
    BY <1>1, <1>4, <2>1 DEF WalkInv, WalkExact
  <2>3. VerifyCounts'
    BY <1>1, <1>4 DEF VerifyCounts
  <2>4. QED
    BY <1>2, <1>3, <2>2, <2>3 DEF WalkInv
<1>5. CASE call.fn # "hammer"
  <2>1. UNCHANGED <<cursor, count>>
    BY <1>5 DEF WalkInv, HammerWalks, Return, Ring, Again, Stop
  <2>2. WalkExact' /\ VerifyCounts'
    BY <1>1, <1>5, <2>1 DEF WalkInv, WalkExact, VerifyCounts, Visited, Effect
  <2>3. QED
    BY <1>2, <1>3, <2>2 DEF WalkInv
<1>6. QED
  BY <1>4, <1>5

\* Every step preserves the inductive invariant.
LEMMA WalkStepInv == WalkInv /\ [WalkNext]_walkVars => WalkInv'
<1> SUFFICES ASSUME WalkInv, [WalkNext]_walkVars PROVE WalkInv'
  OBVIOUS
<1>1. CASE \E c \in Requests : Begin(c)
  BY <1>1, BeginInv
<1>2. CASE Visit
  BY <1>2, VisitInv
<1>3. CASE Return \/ Ring \/ Again \/ Stop
  BY <1>3, BellInv
<1>4. CASE UNCHANGED walkVars
  BY <1>4 DEF walkVars, WalkInv, WalkTypeOK, HammerWalks, WalkExact,
              VerifyCounts, Visited, Sweeps, Effect
<1>5. QED
  BY <1>1, <1>2, <1>3, <1>4 DEF WalkNext

\* The inductive invariant holds of every sequence of calls.
THEOREM WalkInvariant == WalkSpec => []WalkInv
<1>1. WalkInit => WalkInv
  BY WalkInitInv
<1>2. WalkInv /\ [WalkNext]_walkVars => WalkInv'
  BY WalkStepInv
<1>3. QED
  BY <1>1, <1>2, PTL DEF WalkSpec

\* A pass changes exactly the pages it has visited, exactly once per sweep.
THEOREM WalksAreExact == WalkSpec => []WalkExact
<1>1. WalkInv => WalkExact
  BY DEF WalkInv
<1>2. QED
  BY <1>1, WalkInvariant, PTL

\* run_verify_range counts exactly the mismatching pages.
THEOREM VerifyIsExact == WalkSpec => []VerifyCounts
<1>1. WalkInv => VerifyCounts
  BY DEF WalkInv
<1>2. QED
  BY <1>1, WalkInvariant, PTL
=============================================================================
