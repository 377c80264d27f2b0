------------------------------ MODULE PageWalk ------------------------------
(***************************************************************************)
(* What a guest pass promises: the calls of crates/hv-reclaim/src/guest.rs *)
(* (run_touch_range, run_read_pass, run_sweep_range, run_fill_range,       *)
(* run_verify_range, run_hammer) as walks over the pages [start, end), one *)
(* page at a time, each page visited once per sweep.  GuestCode, the       *)
(* instruction-level module, implements this specification.                *)
(*                                                                         *)
(* mem     first word of every page                                        *)
(* call    the call in progress, or the last one                           *)
(* phase   "idle", "walking", "rung" (run_hammer at a doorbell) or         *)
(*         "returned"                                                      *)
(* cursor  the next page to visit                                          *)
(* count   run_verify_range: mismatches so far; run_hammer: sweeps so far  *)
(* calls   calls made                                                      *)
(* old     history: mem when the call began                                *)
(***************************************************************************)
EXTENDS Naturals, FiniteSets

CONSTANTS Pages,      \* pages of guest RAM
          Base,       \* RAM_GPA, in pages
          Values,     \* values callers pass to fill and verify
          MinPages,   \* shortest range callers pass
          MaxCalls,   \* bound on the calls
          MaxSweeps   \* bound on the sweeps of one run_hammer

ASSUME WalkAssumption ==
  /\ Pages \in Nat
  /\ Base \in Nat
  /\ Values \subseteq Nat
  /\ MinPages \in Nat
  /\ MaxCalls \in Nat
  /\ MaxSweeps \in Nat

VARIABLES mem, call, phase, cursor, count, calls, old

walkVars == <<mem, call, phase, cursor, count, calls, old>>

Page == 0..Pages - 1
Function == {"touch", "read", "sweep", "fill", "verify", "hammer"}
Request == [fn : Function, start : 0..Pages, end : 0..Pages, value : Nat]

\* The calls the program makes: whole-RAM read passes and hammers, ranges for
\* the others, a value for fill and verify only.
Requests ==
  {c \in [fn : Function, start : 0..Pages, end : 0..Pages,
          value : Values \cup {0}] :
     /\ c.start + MinPages <= c.end
     /\ c.fn \in {"read", "hammer"} => c.start = 0 /\ c.end = Pages
     /\ c.fn \notin {"fill", "verify"} => c.value = 0}

NoRequest == [fn |-> "read", start |-> 0, end |-> 0, value |-> 0]

WalkTypeOK ==
  /\ mem \in [Page -> Nat]
  /\ call \in Request
  /\ phase \in {"idle", "walking", "rung", "returned"}
  /\ cursor \in call.start..call.end
  /\ count \in Nat
  /\ calls \in 0..MaxCalls
  /\ old \in [Page -> Nat]

\* Fresh anonymous memory.
WalkInit ==
  /\ mem = [p \in Page |-> 0]
  /\ call = NoRequest
  /\ phase = "idle"
  /\ cursor = 0
  /\ count = 0
  /\ calls = 0
  /\ old = mem

-----------------------------------------------------------------------------
\* The word a visit of page p leaves there, from the word v it finds.
Effect(c, p, v) ==
  CASE c.fn = "touch" -> Base + p
    [] c.fn = "fill" -> c.value
    [] c.fn \in {"sweep", "hammer"} -> v + 1
    [] c.fn \in {"read", "verify"} -> v

BeginSkipsFirst(c) ==
  /\ phase \in {"idle", "returned"} /\ calls < MaxCalls
  /\ phase' = "walking" /\ call' = c /\ cursor' = c.start + 1
  /\ count' = 0 /\ calls' = calls + 1 /\ old' = mem /\ UNCHANGED mem
BeginKeepsCount(c) ==
  /\ phase \in {"idle", "returned"} /\ calls < MaxCalls
  /\ phase' = "walking" /\ call' = c /\ cursor' = c.start
  /\ calls' = calls + 1 /\ old' = mem /\ UNCHANGED <<mem, count>>
Begin(c) ==
  /\ phase \in {"idle", "returned"}
  /\ calls < MaxCalls
  /\ phase' = "walking"
  /\ call' = c
  /\ cursor' = c.start
  /\ count' = 0
  /\ calls' = calls + 1
  /\ old' = mem
  /\ UNCHANGED mem
Visit ==
  /\ phase = "walking"
  /\ cursor < call.end
  /\ mem' = [mem EXCEPT ![cursor] = Effect(call, cursor, @)]
  /\ count' = IF call.fn = "verify" /\ mem[cursor] # call.value
                THEN count + 1 ELSE count
  /\ cursor' = cursor + 1
  /\ UNCHANGED <<call, phase, calls, old>>

Return ==
  /\ call.fn # "hammer"
  /\ phase = "walking"
  /\ cursor = call.end
  /\ phase' = "returned"
  /\ UNCHANGED <<mem, call, cursor, count, calls, old>>

\* run_hammer: a sweep is complete and its doorbell rings ...
Ring ==
  /\ call.fn = "hammer"
  /\ phase = "walking"
  /\ cursor = call.end
  /\ phase' = "rung"
  /\ count' = count + 1
  /\ UNCHANGED <<mem, call, cursor, calls, old>>

\* ... keep_going says yes: sweep again from the first page ...
Again ==
  /\ phase = "rung"
  /\ count < MaxSweeps
  /\ phase' = "walking"
  /\ cursor' = call.start
  /\ UNCHANGED <<mem, call, count, calls, old>>

\* ... or no: return the sweeps.
Stop ==
  /\ phase = "rung"
  /\ phase' = "returned"
  /\ UNCHANGED <<mem, call, cursor, count, calls, old>>

WalkNext ==
  \/ \E c \in Requests : Begin(c)
  \/ Visit
  \/ Return
  \/ Ring
  \/ Again
  \/ Stop

WalkSpec == WalkInit /\ [][WalkNext]_walkVars

-----------------------------------------------------------------------------
Visited == call.start..cursor - 1

\* Sweeps of run_hammer that have reached page p.
Sweeps(p) == count + (IF phase = "walking" /\ p < cursor THEN 1 ELSE 0)

(***************************************************************************)
(* At every moment of every call, memory is the memory the call found with *)
(* the call's effect on exactly the pages visited so far and on no other.  *)
(* At the return cursor is end: every page of [start, end), once (for      *)
(* run_hammer once per sweep it returns), nothing outside.                 *)
(***************************************************************************)
WalkExact ==
  \A p \in Page :
    mem[p] = CASE call.fn = "hammer" -> old[p] + Sweeps(p)
               [] OTHER -> IF p \in Visited THEN Effect(call, p, old[p])
                                            ELSE old[p]

(***************************************************************************)
(* run_verify_range returns exactly the number of pages of the range that  *)
(* did not hold the expected value when it was called.                     *)
(***************************************************************************)
VerifyCounts ==
  call.fn = "verify" =>
    count = Cardinality({p \in Visited : old[p] # call.value})
=============================================================================
