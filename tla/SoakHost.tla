------------------------------ MODULE SoakHost ------------------------------
(***************************************************************************)
(* The host side of the soak, crates/hv-reclaim/src/soak.rs: what the      *)
(* workers' reclaims do to the task's address space and to its ledger      *)
(* while the pressure thread of module SoakPressure runs beside them.      *)
(* What the guest finds in the pages is module Soak.                       *)
(*                                                                         *)
(* Each worker sweeps its cold half, reads the ledger, unmaps, releases    *)
(* and remaps the half, reads the ledger again and pushes the difference.  *)
(* The ledger is the task's; a half is one unit of it.                     *)
(*                                                                         *)
(* What the kernel charges is external.  Touching an advised half again is *)
(* charged or not, as the host has room (README.md 170-174); what was not  *)
(* charged then may be charged back later, while the guest writes under    *)
(* pressure (README.md 128-131).                                           *)
(*                                                                         *)
(* mode     --reclaim-mode, "reusable" or "munmap"                         *)
(* at       where a worker is                                              *)
(* cycle    reclaim cycles begun, by all workers                           *)
(* cold     its cold half: "none" (untouched), "charged", "reusable",      *)
(*          "sticky" (touched again after the advice and not charged yet), *)
(*          "hole" (unmapped), "foreign" (the hole was given to another    *)
(*          thread's allocation)                                           *)
(* mapped   whether the half is mapped into the guest                      *)
(* led      its two readings                                               *)
(* own, disturbed   history of its current reclaim: what its own calls     *)
(*          took off the ledger, and whether another worker or the kernel  *)
(*          moved it                                                       *)
(* excess   the deltas pushed, less what the reclaims really released      *)
(***************************************************************************)
EXTENDS SoakPressure, Integers, FiniteSets

CONSTANTS Workers,     \* the soak's vCPU threads
          MaxCycles    \* bound on the reclaim cycles of a run

ASSUME SoakHostAssumption == IsFiniteSet(Workers) /\ MaxCycles \in Nat

VARIABLES mode, at, cycle, cold, mapped, led, own, disturbed, excess

tallyVars == <<own, disturbed, excess>>
hostVars == <<mode, at, cycle, cold, mapped, led, tallyVars>>
soakHostVars == <<soakPressureVars, hostVars>>

NoReadings == [before |-> 0, after |-> 0]

SoakHostInit ==
  /\ SoakPressureInit
  /\ mode \in {"reusable", "munmap"}
  /\ at = [w \in Workers |-> "top"]
  /\ cycle = 0
  /\ cold = [w \in Workers |-> "none"]
  /\ mapped = [w \in Workers |-> TRUE]
  /\ led = [w \in Workers |-> NoReadings]
  /\ own = [w \in Workers |-> 0]
  /\ disturbed = [w \in Workers |-> FALSE]
  /\ excess = 0

FootprintOf(c) == Cardinality({w \in Workers : c[w] = "charged"})

-----------------------------------------------------------------------------
Goes(w, from, to) == at[w] = from /\ at' = [at EXCEPT ![w] = to]

\* The ledger moves while the measurements of some of ws are open.
DisturbThese(ws) ==
  disturbed' = [v \in Workers |->
    disturbed[v] \/ (v \in ws /\ FootprintOf(cold') # FootprintOf(cold)
                     /\ at[v] \in {"read", "unmapped", "munmapped", "released",
                                   "remapped"})]

\* Worker w moves it: it is a measurement of the others that is disturbed.
Disturb(w) == DisturbThese(Workers \ {w})

\* A guest pass writes every page of the half; what was advised stays off the
\* ledger while the host has room to leave it parked.
Written(w) ==
  \E parked \in BOOLEAN :
    cold' = [cold EXCEPT ![w] =
      CASE @ = "none" -> "charged"
        [] @ \in {"reusable", "sticky"} -> IF parked THEN "sticky" ELSE "charged"
        [] OTHER -> @]

\* Before the deadline: another cycle, with its sweep of the cold half.
SweepReadsFirst(w) ==
  /\ Goes(w, "top", "read") /\ cycle < MaxCycles
  /\ cycle' = cycle + 1
  /\ led' = [led EXCEPT ![w].before = FootprintOf(cold)]
  /\ Written(w)
  /\ own' = [own EXCEPT ![w] = 0]
  /\ disturbed' = [disturbed EXCEPT ![w] = FALSE]
  /\ UNCHANGED <<mode, mapped, excess>>
Sweep(w) ==
  /\ Goes(w, "top", "swept")
  /\ cycle < MaxCycles
  /\ cycle' = cycle + 1
  /\ Written(w)
  /\ Disturb(w)
  /\ UNCHANGED <<mode, mapped, led, own, excess>>

ReadBefore(w) ==
  /\ Goes(w, "swept", "read")
  /\ led' = [led EXCEPT ![w].before = FootprintOf(cold)]
  /\ own' = [own EXCEPT ![w] = 0]
  /\ disturbed' = [disturbed EXCEPT ![w] = FALSE]
  /\ UNCHANGED <<mode, cycle, cold, mapped, excess>>

UnmapSkipped(w) ==
  /\ Goes(w, "read", "unmapped")
  /\ UNCHANGED <<mode, cycle, cold, mapped, led, tallyVars>>
Unmap(w) ==
  /\ Goes(w, "read", "unmapped")
  /\ mapped' = [mapped EXCEPT ![w] = FALSE]
  /\ UNCHANGED <<mode, cycle, cold, led, tallyVars>>

\* What leaves the ledger leaves it by this call.
Account(w) ==
  LET gone == FootprintOf(cold) - FootprintOf(cold') IN
  /\ own' = [own EXCEPT ![w] = @ + gone]
  /\ excess' = excess - gone
  /\ Disturb(w)

Madvise(w) ==
  /\ mode = "reusable"
  /\ Goes(w, "unmapped", "released")
  /\ cold' = [cold EXCEPT ![w] = IF @ = "charged" THEN "reusable" ELSE @]
  /\ Account(w)
  /\ UNCHANGED <<mode, cycle, mapped, led>>

Munmap(w) ==
  /\ mode = "munmap"
  /\ Goes(w, "unmapped", "munmapped")
  /\ cold' = [cold EXCEPT ![w] = "hole"]
  /\ Account(w)
  /\ UNCHANGED <<mode, cycle, mapped, led>>

\* MAP_FIXED takes the place back, whoever is there.
MmapFixed(w) ==
  /\ Goes(w, "munmapped", "released")
  /\ cold' = [cold EXCEPT ![w] = "none"]
  /\ UNCHANGED <<mode, cycle, mapped, led, tallyVars>>

Remap(w) ==
  /\ Goes(w, "released", "remapped")
  /\ mapped' = [mapped EXCEPT ![w] = TRUE]
  /\ UNCHANGED <<mode, cycle, cold, led, tallyVars>>

ReadAfter(w) ==
  /\ Goes(w, "remapped", "measured")
  /\ led' = [led EXCEPT ![w].after = FootprintOf(cold)]
  /\ UNCHANGED <<mode, cycle, cold, mapped, tallyVars>>

\* The measurement is over.
Forget(w) ==
  /\ led' = [led EXCEPT ![w] = NoReadings]
  /\ own' = [own EXCEPT ![w] = 0]
  /\ disturbed' = [disturbed EXCEPT ![w] = FALSE]

\* The delta goes on the shared list.
Push(w) ==
  /\ Goes(w, "measured", "pushed")
  /\ excess' = excess + led[w].before - led[w].after
  /\ Forget(w)
  /\ UNCHANGED <<mode, cycle, cold, mapped>>

\* The fill and the two verifies.
Refill(w) ==
  /\ Goes(w, "pushed", "top")
  /\ Written(w)
  /\ Disturb(w)
  /\ UNCHANGED <<mode, cycle, mapped, led, own, excess>>

\* The deadline has passed.
Finish(w) ==
  /\ Goes(w, "top", "ended")
  /\ UNCHANGED <<mode, cycle, cold, mapped, led, tallyVars>>

\* One of the calls fails; the panic ends the worker's thread.
Panic(w) ==
  /\ at[w] \in {"swept", "read", "unmapped", "munmapped", "released", "remapped"}
  /\ at' = [at EXCEPT ![w] = "panicked"]
  /\ Forget(w)
  /\ UNCHANGED <<mode, cycle, cold, mapped, excess>>

-----------------------------------------------------------------------------
\* Another thread of the task maps memory and is given the hole.
ForeignMmap ==
  /\ parent = "alive"
  /\ \E w \in Workers : /\ cold[w] = "hole"
                        /\ cold' = [cold EXCEPT ![w] = "foreign"]
  /\ UNCHANGED <<soakPressureVars, mode, at, cycle, mapped, led, tallyVars>>

\* Under pressure the kernel takes a half that is marked reusable; touched
\* again, it is charged again.
KernelTakes ==
  /\ parent = "alive"
  /\ gen \in {"dirtying", "holding"} /\ held > 0
  /\ \E w \in Workers : /\ cold[w] = "reusable"
                        /\ cold' = [cold EXCEPT ![w] = "none"]
  /\ UNCHANGED <<soakPressureVars, mode, at, cycle, mapped, led, tallyVars>>

\* The scan un-marks a half that the guest has written again, and charges the
\* task for it: every open measurement sees the ledger move, the half's own
\* worker's too.
ChargeBack ==
  /\ parent = "alive"
  /\ \E w \in Workers : /\ cold[w] = "sticky"
                        /\ cold' = [cold EXCEPT ![w] = "charged"]
  /\ DisturbThese(Workers)
  /\ UNCHANGED <<soakPressureVars, mode, at, cycle, mapped, led, own, excess>>

WorkerGoesOn(w) ==
  \/ Sweep(w) \/ ReadBefore(w) \/ Unmap(w) \/ Madvise(w) \/ Munmap(w)
  \/ MmapFixed(w) \/ Remap(w) \/ ReadAfter(w) \/ Push(w) \/ Refill(w)
  \/ Finish(w)

InProcess == parent = "alive" /\ UNCHANGED soakPressureVars

Worker(w) == (WorkerGoesOn(w) \/ Panic(w)) /\ InProcess

AllEnded == \A w \in Workers : at[w] \in {"ended", "panicked"}

\* run, the pressure thread and the generator, as in SoakPressure; the join
\* of the workers returns when all of them have ended.
Beside ==
  /\ \/ PressureThread
     \/ GeneratorStep
     \/ AllEnded /\ WorkersEnd
     \/ ProgressFails
     \/ StopPressure
     \/ PrintVerdict
  /\ UNCHANGED hostVars

SoakHostNext ==
  \/ \E w \in Workers : Worker(w)
  \/ ForeignMmap
  \/ KernelTakes
  \/ ChargeBack
  \/ Beside

(***************************************************************************)
(* Every thread is scheduled, as in SoakPressure; nobody else has to map   *)
(* memory, nothing has to fail and the kernel has to take and to charge    *)
(* back nothing.                                                           *)
(***************************************************************************)
SoakHostFairness ==
  /\ \A w \in Workers :
       WF_soakHostVars(WorkerGoesOn(w) /\ InProcess)
  /\ WF_soakHostVars(PressureThread /\ UNCHANGED hostVars)
  /\ WF_soakHostVars((DirtyChunk \/ HoldAll) /\ Beyond /\ UNCHANGED hostVars)
  /\ WF_soakHostVars(AllEnded /\ WorkersEnd /\ UNCHANGED hostVars)
  /\ WF_soakHostVars(StopPressure /\ UNCHANGED hostVars)
  /\ WF_soakHostVars(PrintVerdict /\ UNCHANGED hostVars)

SoakHostSpec ==
  SoakHostInit /\ [][SoakHostNext]_soakHostVars /\ SoakHostFairness

-----------------------------------------------------------------------------
(***************************************************************************)
(* A delta measured while neither another worker nor the kernel's          *)
(* charge-back moved the ledger is exactly what this reclaim released: the *)
(* readings bracket the reclaim and nothing else the worker does.          *)
(***************************************************************************)
QuietDeltaExact ==
  \A w \in Workers : at[w] = "measured" /\ ~disturbed[w] =>
    led[w].before - led[w].after = own[w]

(***************************************************************************)
(* Guest pages are never backed by a hole or by another thread's memory:   *)
(* while a half is mapped into the guest the soak's own mapping is behind  *)
(* it, although in munmap mode the place is open for a while.              *)
(***************************************************************************)
GuestOwnsItsSlot ==
  \A w \in Workers : mapped[w] => cold[w] \notin {"hole", "foreign"}

(***************************************************************************)
(* The soak ends with its verdict, whatever the workers, the pressure      *)
(* thread and the generator were doing at the deadline, unless a progress  *)
(* line's ledger read has ended the process before.                        *)
(***************************************************************************)
SoakReportsItsEnd == <>(main \in {"printed", "panicked"})

(***************************************************************************)
(* soak.rs 160-161: the sum of the deltas is printed as what was "released *)
(* in total".  With no worker panicked, it is what the reclaims released.  *)
(***************************************************************************)
TotalIsReleased ==
  main = "printed" /\ (\A w \in Workers : at[w] = "ended") => excess = 0
=============================================================================
