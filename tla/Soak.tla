-------------------------------- MODULE Soak --------------------------------
(***************************************************************************)
(* The multi-vCPU integrity soak, crates/hv-reclaim/src/soak.rs: worker,   *)
(* detector_self_test, reclaim, and the end of run that prints the         *)
(* verdict.  Every worker drives one vCPU over its own slot of guest RAM,  *)
(* half hot and half cold, while the others run and while the kernel takes *)
(* pages it was told it may take.                                          *)
(*                                                                         *)
(* Guest RAM is addressed in words of which PageUnits make a page; a pass  *)
(* accesses the first word of every page of its range.                     *)
(*                                                                         *)
(* val        every word                                                   *)
(* stage2     the words mapped into the guest                              *)
(* marked     words madvised and not stored to since: the kernel may take  *)
(*            them                                                         *)
(* at         where worker k is; a pass is named for what it does          *)
(* cur        pages the pass has done                                      *)
(* x4, x5     the mismatch count of a verify; the word a sweep has loaded  *)
(*            (None before the load)                                       *)
(* round      the for loop's index                                         *)
(* hot_sweeps, cycle   worker's locals                                     *)
(* saved      the word the self-test replaced                              *)
(* mode       opts.reclaim_mode                                            *)
(* deadline   whether it has passed                                        *)
(* stats      Stats, the atomics                                           *)
(* verdict    what run printed at its end                                  *)
(* lost, due, back   history: live words the kernel lost; those of them    *)
(*            that a verify still ahead must see; words as handed back     *)
(***************************************************************************)
EXTENDS Integers, FiniteSets

CONSTANTS Vcpus,                \* opts.vcpus
          RamUnits,             \* ram_size
          PageUnits,            \* PAGE
          HOT_SWEEPS_PER_CYCLE,
          StampBase,            \* 2^32
          Garbage,              \* what xor with 0xDEAD_BEEF adds
          Modes,                \* values of opts.reclaim_mode: "reusable", "munmap"
          Faults,               \* kernel faults allowed: "zero", "stale"
          MaxFaults,            \* bound on them
          MaxCycles             \* bound on the cycles before the deadline

ASSUME SoakAssumption ==
  /\ Vcpus \in Nat \ {0}
  /\ PageUnits \in Nat \ {0}
  /\ HOT_SWEEPS_PER_CYCLE \in Nat \ {0}
  /\ Garbage \in Nat \ {0}
  /\ StampBase \in Nat
  /\ MaxCycles \in Nat
  /\ MaxCycles < StampBase
  /\ RamUnits \in Nat
  /\ Modes \subseteq {"reusable", "munmap"}
  /\ MaxFaults \in Nat

VARIABLES val, stage2, marked, at, cur, x4, x5, round, hot_sweeps, cycle,
          saved, mode, deadline, stats, verdict, lost, due, back

memVars == <<val, stage2, marked>>
workerVars == <<at, cur, x4, x5, round, hot_sweeps, cycle>>
historyVars == <<lost, due, back>>
soakVars == <<memVars, workerVars, saved, mode, deadline, stats, verdict,
              historyVars>>

Worker == 0..Vcpus - 1
Unit == 0..RamUnits - 1
None == -1

-----------------------------------------------------------------------------
(* The split of guest RAM. *)

slot == RamUnits \div Vcpus
half == (slot \div 2) - ((slot \div 2) % PageUnits)
HalfPages == half \div PageUnits

HotStart(k) == k * slot
ColdStart(k) == k * slot + half
ColdRange(k) == ColdStart(k)..ColdStart(k) + half - 1

HotWords(k) == {HotStart(k) + j * PageUnits : j \in 0..HalfPages - 1}
ColdWords(k) == {ColdStart(k) + j * PageUnits : j \in 0..HalfPages - 1}

Victim == HotStart(0) + PageUnits

\* run's assertion, with 2 pages for the 16 it asks of each half.
ASSUME SlotAssumption == slot >= 2 * PageUnits * 2

Stamp(k) == k * StampBase + cycle[k]

-----------------------------------------------------------------------------
Sweeping == {"hot0", "hot", "cold"}
Verifying == {"find", "clean", "hotcheck", "check", "recheck"}
OnHot == {"hot0", "find", "clean", "hot", "hotcheck"}
Passes == Sweeping \cup Verifying \cup {"fill"}

Label == Passes \cup {"create", "plant", "loop", "unmap", "release", "refill",
                      "map", "sleep", "done", "panicked"}

SoakTypeOK ==
  /\ val \in [Unit -> Nat]
  /\ stage2 \subseteq Unit
  /\ marked \subseteq Unit
  /\ at \in [Worker -> Label]
  /\ cur \in [Worker -> 0..HalfPages]
  /\ x4 \in [Worker -> 0..HalfPages]
  /\ x5 \in [Worker -> Nat \cup {None}]
  /\ round \in [Worker -> 0..HOT_SWEEPS_PER_CYCLE]
  /\ hot_sweeps \in [Worker -> Nat]
  /\ cycle \in [Worker -> 0..MaxCycles]
  /\ saved \in Nat
  /\ mode \in Modes
  /\ deadline \in BOOLEAN
  /\ stats \in [sweeps : Nat, page_checks : Nat, mismatches : Nat,
                reclaims : Nat]
  /\ verdict \in {"none", "no-corruption", "corruption"}
  /\ lost \subseteq Unit
  /\ due \subseteq lost
  /\ back \in [Unit -> Nat]

SoakInit ==
  /\ val = [a \in Unit |-> 0]
  /\ stage2 = Unit
  /\ marked = {}
  /\ at = [k \in Worker |-> "create"]
  /\ cur = [k \in Worker |-> 0]
  /\ x4 = [k \in Worker |-> 0]
  /\ x5 = [k \in Worker |-> None]
  /\ round = [k \in Worker |-> 0]
  /\ hot_sweeps = [k \in Worker |-> 0]
  /\ cycle = [k \in Worker |-> 0]
  /\ saved = 0
  /\ mode \in Modes
  /\ deadline = FALSE
  /\ stats = [sweeps |-> 0, page_checks |-> 0, mismatches |-> 0,
              reclaims |-> 0]
  /\ verdict = "none"
  /\ lost = {}
  /\ due = {}
  /\ back = val

-----------------------------------------------------------------------------
(* The guest passes, one page access a step. *)

Go(k, label) == at' = [at EXCEPT ![k] = label]
Word(k) == (IF at[k] \in OnHot THEN HotStart(k) ELSE ColdStart(k))
             + cur[k] * PageUnits
InPass(k) == at[k] \in Passes /\ cur[k] < HalfPages
PassDone(k) == cur[k] = HalfPages /\ cur' = [cur EXCEPT ![k] = 0]
Advance(k) == cur' = [cur EXCEPT ![k] = @ + 1]

SweepLoad(k) ==
  /\ InPass(k)
  /\ at[k] \in Sweeping
  /\ x5[k] = None
  /\ x5' = [x5 EXCEPT ![k] = val[Word(k)]]
  /\ UNCHANGED <<memVars, at, cur, x4, round, hot_sweeps, cycle, saved,
                 deadline, stats, verdict, historyVars>>

\* A store makes the page live again.
Store(k, v) ==
  /\ val' = [val EXCEPT ![Word(k)] = v]
  /\ marked' = marked \ {Word(k)}
  /\ Advance(k)

SweepStore(k) ==
  /\ InPass(k)
  /\ at[k] \in Sweeping
  /\ x5[k] # None
  /\ Store(k, x5[k] + 1)
  /\ x5' = [x5 EXCEPT ![k] = None]
  /\ UNCHANGED <<stage2, at, x4, round, hot_sweeps, cycle, saved, deadline,
                 stats, verdict, historyVars>>

Fill(k) ==
  /\ InPass(k)
  /\ at[k] = "fill"
  /\ Store(k, Stamp(k))
  /\ UNCHANGED <<stage2, at, x4, x5, round, hot_sweeps, cycle, saved,
                 deadline, stats, verdict, historyVars>>

Expected(k) == IF at[k] \in OnHot THEN hot_sweeps[k] ELSE Stamp(k)

Verify(k) ==
  /\ InPass(k)
  /\ at[k] \in Verifying
  /\ x4' = [x4 EXCEPT ![k] = IF val[Word(k)] = Expected(k) THEN @ ELSE @ + 1]
  /\ Advance(k)
  /\ UNCHANGED <<memVars, at, x5, round, hot_sweeps, cycle, saved, deadline,
                 stats, verdict, historyVars>>

\* run_verify_range clears x4 before it enters the guest.
KeepX4(k) == UNCHANGED x4
ClearX4(k) == x4' = [x4 EXCEPT ![k] = 0]

-----------------------------------------------------------------------------
(* worker, up to its loop. *)

CreateVcpu(k) ==
  /\ at[k] = "create"
  /\ Go(k, "hot0")
  /\ UNCHANGED <<memVars, cur, x4, x5, round, hot_sweeps, cycle, saved,
                 deadline, stats, verdict, historyVars>>

FirstSwept(k) ==
  /\ at[k] = "hot0"
  /\ PassDone(k)
  /\ hot_sweeps' = [hot_sweeps EXCEPT ![k] = @ + 1]
  /\ Go(k, IF k = 0 THEN "plant" ELSE "loop")
  /\ UNCHANGED <<memVars, x4, x5, round, cycle, saved, deadline, stats,
                 verdict, historyVars>>

\* detector_self_test: corrupt the second hot page from the host ...
Plant(k) ==
  /\ at[k] = "plant"
  /\ saved' = val[Victim]
  /\ val' = [val EXCEPT ![Victim] = @ + Garbage]
  /\ ClearX4(k)
  /\ Go(k, "find")
  /\ UNCHANGED <<stage2, marked, cur, x5, round, hot_sweeps, cycle, deadline,
                 stats, verdict, historyVars>>

\* ... restore it, and require that the guest counted it and nothing else.
Found(k) ==
  /\ at[k] = "find"
  /\ PassDone(k)
  /\ val' = [val EXCEPT ![Victim] = saved]
  /\ ClearX4(k)
  /\ Go(k, IF x4[k] = 1 THEN "clean" ELSE "panicked")
  /\ UNCHANGED <<stage2, marked, x5, round, hot_sweeps, cycle, saved,
                 deadline, stats, verdict, historyVars>>

Cleaned(k) ==
  /\ at[k] = "clean"
  /\ PassDone(k)
  /\ Go(k, IF x4[k] = 0 THEN "loop" ELSE "panicked")
  /\ UNCHANGED <<memVars, x4, x5, round, hot_sweeps, cycle, saved, deadline,
                 stats, verdict, historyVars>>

-----------------------------------------------------------------------------
(* worker, its loop. *)

Loop(k) ==
  /\ at[k] = "loop"
  /\ ~deadline
  /\ cycle[k] < MaxCycles
  /\ round' = [round EXCEPT ![k] = 0]
  /\ Go(k, "hot")
  /\ UNCHANGED <<memVars, cur, x4, x5, hot_sweeps, cycle, saved, deadline,
                 stats, verdict, historyVars>>
Destroy(k) ==
  /\ at[k] = "loop"
  /\ deadline
  /\ Go(k, "done")
  /\ UNCHANGED <<memVars, cur, x4, x5, round, hot_sweeps, cycle, saved,
                 deadline, stats, verdict, historyVars>>

HotSwept(k) ==
  /\ at[k] = "hot"
  /\ PassDone(k)
  /\ hot_sweeps' = [hot_sweeps EXCEPT ![k] = @ + 1]
  /\ stats' = [stats EXCEPT !.sweeps = @ + 1]
  /\ ClearX4(k)
  /\ Go(k, "hotcheck")
  /\ UNCHANGED <<memVars, x5, round, cycle, saved, deadline, verdict,
                 historyVars>>

\* A verify of the loop has returned: count it.
CountChecksOnly(k) == stats' = [stats EXCEPT !.page_checks = @ + HalfPages]
Count(k) ==
  stats' = [stats EXCEPT !.page_checks = @ + HalfPages,
                         !.mismatches = @ + x4[k]]

HotCheckedTooOften(k) ==
  /\ at[k] = "hotcheck" /\ PassDone(k) /\ Count(k)
  /\ round' = [round EXCEPT ![k] = @ + 1]
  /\ IF round[k] < HOT_SWEEPS_PER_CYCLE
       THEN Go(k, "hot") /\ UNCHANGED cycle
       ELSE Go(k, "cold") /\ cycle' = [cycle EXCEPT ![k] = @ + 1]
  /\ UNCHANGED <<memVars, x4, x5, hot_sweeps, saved, deadline, verdict,
                 historyVars>>
HotChecked(k) ==
  /\ at[k] = "hotcheck"
  /\ PassDone(k)
  /\ Count(k)
  /\ round' = [round EXCEPT ![k] = @ + 1]
  /\ IF round[k] + 1 < HOT_SWEEPS_PER_CYCLE
       THEN Go(k, "hot") /\ UNCHANGED cycle
       ELSE Go(k, "cold") /\ cycle' = [cycle EXCEPT ![k] = @ + 1]
  /\ UNCHANGED <<memVars, x4, x5, hot_sweeps, saved, deadline, verdict,
                 historyVars>>

ColdSwept(k) ==
  /\ at[k] = "cold"
  /\ PassDone(k)
  /\ stats' = [stats EXCEPT !.sweeps = @ + 1]
  /\ Go(k, "unmap")
  /\ UNCHANGED <<memVars, x4, x5, round, hot_sweeps, cycle, saved, deadline,
                 verdict, historyVars>>

\* reclaim: hv_vm_unmap refuses a range that is not page-aligned, and check
\* panics on a refusal.
Aligned(k) == ColdStart(k) % PageUnits = 0

Unmap(k) ==
  /\ at[k] = "unmap"
  /\ IF Aligned(k)
       THEN stage2' = stage2 \ ColdRange(k) /\ Go(k, "release")
       ELSE Go(k, "panicked") /\ UNCHANGED stage2
  /\ UNCHANGED <<val, marked, cur, x4, x5, round, hot_sweeps, cycle, saved,
                 deadline, stats, verdict, historyVars>>

HandBack(k) ==
  back' = [a \in Unit |-> IF a \in ColdWords(k) THEN val[a] ELSE back[a]]

\* Reusable: madvise.  The contents stay until the kernel takes the pages.
Madvise(k) ==
  /\ mode = "reusable"
  /\ at[k] = "release"
  /\ marked' = marked \cup ColdWords(k)
  /\ HandBack(k)
  /\ Go(k, "map")
  /\ UNCHANGED <<val, stage2, cur, x4, x5, round, hot_sweeps, cycle, saved,
                 deadline, stats, verdict, lost, due>>

\* Munmap: munmap, then mmap(MAP_FIXED) of zeroed memory.
Munmap(k) ==
  /\ mode = "munmap"
  /\ at[k] = "release"
  /\ HandBack(k)
  /\ Go(k, "refill")
  /\ UNCHANGED <<memVars, cur, x4, x5, round, hot_sweeps, cycle, saved,
                 deadline, stats, verdict, lost, due>>

MmapFixed(k) ==
  /\ at[k] = "refill"
  /\ val' = [a \in Unit |-> IF a \in ColdRange(k) THEN 0 ELSE val[a]]
  /\ Go(k, "map")
  /\ UNCHANGED <<stage2, marked, cur, x4, x5, round, hot_sweeps, cycle, saved,
                 deadline, stats, verdict, historyVars>>

Map(k) ==
  /\ at[k] = "map"
  /\ stage2' = stage2 \cup ColdRange(k)
  /\ stats' = [stats EXCEPT !.reclaims = @ + 1]
  /\ Go(k, "fill")
  /\ UNCHANGED <<val, marked, cur, x4, x5, round, hot_sweeps, cycle, saved,
                 deadline, verdict, historyVars>>

Filled(k) ==
  /\ at[k] = "fill"
  /\ PassDone(k)
  /\ ClearX4(k)
  /\ Go(k, "check")
  /\ UNCHANGED <<memVars, x5, round, hot_sweeps, cycle, saved, deadline,
                 stats, verdict, historyVars>>

Checked(k) ==
  /\ at[k] = "check"
  /\ PassDone(k)
  /\ Count(k)
  /\ Go(k, "sleep")
  /\ UNCHANGED <<memVars, x4, x5, round, hot_sweeps, cycle, saved, deadline,
                 verdict, historyVars>>

Slept(k) ==
  /\ at[k] = "sleep"
  /\ ClearX4(k)
  /\ Go(k, "recheck")
  /\ UNCHANGED <<memVars, cur, x5, round, hot_sweeps, cycle, saved, deadline,
                 stats, verdict, historyVars>>

Rechecked(k) ==
  /\ at[k] = "recheck"
  /\ PassDone(k)
  /\ Count(k)
  /\ Go(k, "loop")
  /\ UNCHANGED <<memVars, x4, x5, round, hot_sweeps, cycle, saved, deadline,
                 verdict, historyVars>>

-----------------------------------------------------------------------------
(* run: time, and the end. *)

DeadlinePasses ==
  /\ ~deadline
  /\ deadline' = TRUE
  /\ UNCHANGED <<memVars, workerVars, saved, mode, stats, verdict, historyVars>>

\* Every join has returned, with a worker's panic ignored.
Verdict ==
  /\ deadline
  /\ verdict = "none"
  /\ \A k \in Worker : at[k] \in {"done", "panicked"}
  /\ verdict' = IF stats.mismatches = 0 THEN "no-corruption"
                                        ELSE "corruption"
  /\ UNCHANGED <<memVars, workerVars, saved, mode, deadline, stats,
                 historyVars>>

-----------------------------------------------------------------------------
(* The kernel, external. *)

\* It takes a page it was told it may take.
Take(a) ==
  /\ a \in marked
  /\ val' = [val EXCEPT ![a] = 0]
  /\ marked' = marked \ {a}
  /\ UNCHANGED <<stage2, workerVars, saved, deadline, stats, verdict,
                 historyVars>>

Loaded(a) == \E k \in Worker :
  at[k] \in Sweeping /\ x5[k] # None /\ Word(k) = a

\* A word lost now is in the range of a verify still ahead: a hot one up to
\* the end of the hot sweep, a cold one from the fill up to the sleep.  The
\* loss does not last if a sweep has already loaded the word, or if it is the
\* self-test's corruption that was lost.
Due(a) ==
  /\ ~Loaded(a)
  /\ \E k \in Worker :
       \/ a \in HotWords(k) /\ at[k] \in {"hot0", "plant", "loop", "hot"}
       \/ a \in ColdWords(k) /\ at[k] \in {"check", "sleep"}

\* The fault the soak looks for: the kernel zeroes a live word.
ZeroLive(a) ==
  /\ "zero" \in Faults
  /\ Cardinality(lost) < MaxFaults
  /\ a \notin marked
  /\ val[a] # 0
  /\ val' = [val EXCEPT ![a] = 0]
  /\ lost' = lost \cup {a}
  /\ due' = IF Due(a) THEN due \cup {a} ELSE due
  /\ UNCHANGED <<stage2, marked, workerVars, saved, deadline, stats, verdict,
                 back>>

\* The other fault the soak names: a page taken back and filled shows what
\* was handed back.  When that is the very word the fill put there, no verify
\* can tell any more.
LeftOver(k, a) ==
  /\ "stale" \in Faults
  /\ Cardinality(lost) < MaxFaults
  /\ at[k] \in {"check", "sleep", "recheck"}
  /\ a \in ColdWords(k)
  /\ val' = [val EXCEPT ![a] = back[a]]
  /\ lost' = lost \cup {a}
  /\ due' = IF back[a] = Stamp(k) THEN due \ {a} ELSE due
  /\ UNCHANGED <<stage2, marked, workerVars, saved, deadline, stats, verdict,
                 back>>

-----------------------------------------------------------------------------
\* An access to a word that is not mapped is an exit the host panics on.
GuestPass(k) ==
  IF InPass(k) /\ Word(k) \notin stage2
    THEN /\ Go(k, "panicked")
         /\ UNCHANGED <<memVars, cur, x4, x5, round, hot_sweeps, cycle, saved,
                        deadline, stats, verdict, historyVars>>
    ELSE SweepLoad(k) \/ SweepStore(k) \/ Fill(k) \/ Verify(k)

SelfTest(k) == Plant(k) \/ Found(k) \/ Cleaned(k)

Reclaim(k) == Unmap(k) \/ Madvise(k) \/ Munmap(k) \/ MmapFixed(k) \/ Map(k)

WorkerStep(k) ==
  /\ UNCHANGED mode
  /\ \/ CreateVcpu(k)
     \/ GuestPass(k)
     \/ FirstSwept(k)
     \/ SelfTest(k)
     \/ Loop(k)
     \/ HotSwept(k)
     \/ HotChecked(k)
     \/ ColdSwept(k)
     \/ Reclaim(k)
     \/ Filled(k)
     \/ Checked(k)
     \/ Slept(k)
     \/ Rechecked(k)
     \/ Destroy(k)

Kernel ==
  /\ UNCHANGED mode
  /\ \/ \E a \in Unit : Take(a) \/ ZeroLive(a)
     \/ \E k \in Worker, a \in Unit : LeftOver(k, a)

SoakNext ==
  \/ \E k \in Worker : WorkerStep(k)
  \/ DeadlinePasses
  \/ Verdict
  \/ Kernel

(***************************************************************************)
(* Every worker is a thread the scheduler runs, time passes, and run goes  *)
(* on once the joins return.  The kernel is never obliged to act.          *)
(***************************************************************************)
SoakFairness ==
  /\ \A k \in Worker : WF_soakVars(WorkerStep(k))
  /\ WF_soakVars(DeadlinePasses)
  /\ WF_soakVars(Verdict)

SoakSpec == SoakInit /\ [][SoakNext]_soakVars /\ SoakFairness

-----------------------------------------------------------------------------
(***************************************************************************)
(* No false alarm: as long as the kernel takes only what it was told it    *)
(* may take, no verify of any worker finds a mismatch, the self-test       *)
(* passes and no worker panics, whatever the other workers reclaim and     *)
(* whenever the kernel takes the marked pages.                             *)
(***************************************************************************)
NoFalseAlarm ==
  lost = {} => /\ stats.mismatches = 0
               /\ \A k \in Worker : at[k] # "panicked"

(***************************************************************************)
(* A hot word lost before or during a hot sweep, other than between its    *)
(* own load and store, and a cold word lost between its fill and the end   *)
(* of the sleep, are counted by the verify that follows, in spite of the   *)
(* sweeps and the other workers in between; unless, for a cold one, the    *)
(* other fault has put the right word back before.                         *)
(***************************************************************************)
LossCounted ==
  \A k \in Worker :
    /\ due \cap HotWords(k) # {} /\ at[k] \notin OnHot \cup
          {"create", "plant", "loop", "done", "panicked"}
         => stats.mismatches > 0
    /\ due \cap ColdWords(k) # {} /\ at[k] \in {"loop", "done"}
         => stats.mismatches > 0

(***************************************************************************)
(* What run's banner says of its workers: each vCPU's cold half is         *)
(* "reclaimed while the other vCPUs run, then re-touched and re-verified", *)
(* so with a kernel that behaves every vCPU is there at the end.           *)
(***************************************************************************)
EveryVcpuSoaks ==
  verdict = "no-corruption" /\ lost = {} =>
    \A k \in Worker : at[k] = "done"

(***************************************************************************)
(* What the comment on the stamp says: "a page left over from the previous *)
(* cycle is as much a failure as a zeroed one", so a word that came back   *)
(* as it was handed back differs from the stamp the verify expects.        *)
(***************************************************************************)
LeftOverDiffers ==
  \A k \in Worker : at[k] \in {"check", "sleep", "recheck"} =>
    \A a \in ColdWords(k) \cap lost : val[a] # Stamp(k)
=============================================================================
