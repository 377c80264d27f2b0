------------------------------- MODULE Hammer -------------------------------
(***************************************************************************)
(* The concurrent-write probe of hv-reclaim, main.rs hammer_check and      *)
(* guest.rs run_hammer, composed with the pressure generator.              *)
(*                                                                         *)
(* Four actors run at once: the vCPU sweeps guest RAM, loading a page's    *)
(* counter and storing it back incremented; a thread sits inside apply and *)
(* sends the guard over a channel; the host closure keep_going runs at     *)
(* every doorbell and decides when to release the pressure and when to     *)
(* stop; and the kernel may throw pages away while there is pressure.      *)
(* The final survey compares every page with base + offset + sweeps.       *)
(*                                                                         *)
(* val[p]     first word of guest page p                                   *)
(* gpc, cur   what the vCPU does next ("ldr", "str", "bell": parked at the *)
(*            doorbell) and on which page (registers PC and X1);           *)
(*            "returned", "surveyed" and "panicked" follow run_hammer      *)
(* x5, x4     the loaded counter; the completed sweeps                     *)
(* chan       the mpsc channel: "empty", "ok" or "err" (a message waits),  *)
(*            "closed" (message taken and sender gone)                     *)
(* guard, hold, rel  the closure's guard, hold_since, released_at; the two *)
(*            instants are "no", "since" or "elapsed"                      *)
(* canary     canary pages the kernel discarded                            *)
(* report     what was printed at the end                                  *)
(* discarded, exposed  history: pages the kernel ever discarded; those it  *)
(*            discarded while the vCPU was not between load and store of   *)
(*            that very page                                               *)
(***************************************************************************)
EXTENDS Pressure, Integers, FiniteSets

CONSTANTS Pages,        \* pages of guest RAM
          Base,         \* RAM_GPA
          CanaryPages,  \* pages of the canary
          MaxSweeps,    \* bound on the sweeps that change nothing in the host
          MaxDiscards   \* bound on kernel discards of guest pages

ASSUME HammerAssumption ==
  /\ Pages \in Nat \ {0}
  /\ Base \in Nat \ {0}
  /\ CanaryPages \in Nat
  /\ MaxSweeps \in Nat
  /\ MaxDiscards \in Nat

VARIABLES val, gpc, cur, x5, x4, chan, guard, hold, rel, canary, report,
          discarded, exposed

guestVars == <<val, gpc, cur, x5, x4>>
closureVars == <<chan, guard, hold, rel>>
historyVars == <<discarded, exposed>>
vars == <<pressureVars, guestVars, closureVars, canary, report, historyVars>>

Page == 0..Pages - 1
Instant == {"no", "since", "elapsed"}
NoReport == [printed |-> FALSE, lost |-> 0, conclusive |-> FALSE]

TypeOK ==
  /\ PressureTypeOK
  /\ val \in [Page -> Nat]
  /\ gpc \in {"ldr", "str", "bell", "returned", "surveyed", "panicked"}
  /\ cur \in Page
  /\ x5 \in Nat
  /\ x4 \in Nat
  /\ chan \in {"empty", "ok", "err", "closed"}
  /\ guard \in BOOLEAN
  /\ hold \in Instant
  /\ rel \in Instant
  /\ canary \in 0..CanaryPages
  /\ report \in [printed : BOOLEAN, lost : 0..Pages, conclusive : BOOLEAN]
  /\ discarded \in SUBSET Page
  /\ exposed \in SUBSET Page

\* Entry of hammer_check: the second touch pass has stored every page's own
\* address, the canary is armed, run_hammer has set the registers.
Init ==
  /\ PressureInit
  /\ val = [p \in Page |-> Base + p]
  /\ gpc = "ldr"
  /\ cur = 0
  /\ x5 = 0
  /\ x4 = 0
  /\ chan = "empty"
  /\ guard = FALSE
  /\ hold = "no"
  /\ rel = "no"
  /\ canary = 0
  /\ report = NoReport
  /\ discarded = {}
  /\ exposed = {}

-----------------------------------------------------------------------------
(* The guest: HAMMER_CODE. *)

Ldr ==
  /\ gpc = "ldr"
  /\ x5' = val[cur]
  /\ gpc' = "str"
  /\ UNCHANGED <<val, cur, x4, pressureVars, closureVars, canary, report,
                 historyVars>>

\* add, str, add, cmp, b.lo; after the last page the sweep is counted and
\* the vCPU parks on the doorbell store.
StrPastEnd ==
  /\ gpc = "str"
  /\ val' = [val EXCEPT ![cur] = x5 + 1]
  /\ IF cur < Pages
       THEN cur' = cur + 1 /\ gpc' = "ldr" /\ UNCHANGED x4
       ELSE cur' = 0 /\ gpc' = "bell" /\ x4' = x4 + 1
  /\ UNCHANGED <<x5, pressureVars, closureVars, canary, report, historyVars>>
StrAbsolute ==
  /\ gpc = "str"
  /\ val' = [val EXCEPT ![cur] = Base + cur + x4 + 1]
  /\ IF cur + 1 < Pages
       THEN cur' = cur + 1 /\ gpc' = "ldr" /\ UNCHANGED x4
       ELSE cur' = 0 /\ gpc' = "bell" /\ x4' = x4 + 1
  /\ UNCHANGED <<x5, pressureVars, closureVars, canary, report, historyVars>>
Str ==
  /\ gpc = "str"
  /\ val' = [val EXCEPT ![cur] = x5 + 1]
  /\ IF cur + 1 < Pages
       THEN cur' = cur + 1 /\ gpc' = "ldr" /\ UNCHANGED x4
       ELSE cur' = 0 /\ gpc' = "bell" /\ x4' = x4 + 1
  /\ UNCHANGED <<x5, pressureVars, closureVars, canary, report, historyVars>>

-----------------------------------------------------------------------------
(* The thread that applies pressure. *)

ApplyThread ==
  /\ app \in {"idle", "reading"}
  /\ Apply
  /\ UNCHANGED <<guestVars, closureVars, canary, report, historyVars>>

\* tx.send of apply's result; the sender is dropped with the thread.
Send ==
  /\ app \in {"ok", "err"}
  /\ chan = "empty"
  /\ chan' = app
  /\ UNCHANGED <<pressureVars, guestVars, guard, hold, rel, canary, report,
                 historyVars>>

ChildStep ==
  /\ Generator
  /\ UNCHANGED <<guestVars, closureVars, canary, report, historyVars>>

-----------------------------------------------------------------------------
(* keep_going, run at the doorbell.  Resuming steps PC past the doorbell   *)
(* store, so the next instruction restarts the sweep at page 0.            *)

Resume == gpc' = "ldr" /\ UNCHANGED <<val, cur, x5, x4>>

\* The guard of the try_recv block.
PollsUntilGuard == ~guard
Polls == ~guard /\ rel = "no"

\* The guard of the release block, after try_recv.
ReleaseDue == rel = "no" /\ hold = "elapsed"

\* try_recv gives the guard: start the hold.
BellReceiveNoHold ==
  /\ gpc = "bell" /\ Polls /\ chan = "ok"
  /\ guard' = TRUE
  /\ chan' = "closed"
  /\ Resume
  /\ UNCHANGED <<pressureVars, hold, rel, canary, report, historyVars>>
BellReceive ==
  /\ gpc = "bell"
  /\ Polls
  /\ chan = "ok"
  /\ guard' = TRUE
  /\ hold' = "since"
  /\ chan' = "closed"
  /\ Resume
  /\ UNCHANGED <<pressureVars, rel, canary, report, historyVars>>

\* try_recv gives apply's error, or finds the sender gone: panic.
BellPanic ==
  /\ gpc = "bell"
  /\ Polls
  /\ chan \in {"err", "closed"}
  /\ gpc' = "panicked"
  /\ chan' = "closed"
  /\ UNCHANGED <<val, cur, x5, x4, pressureVars, guard, hold, rel, canary,
                 report, historyVars>>

\* The hold is over: drop the guard, which kills and reaps the generator.
BellReleaseLeaky ==
  /\ gpc = "bell" /\ ReleaseDue
  /\ rel' = "since"
  /\ Resume
  /\ UNCHANGED <<pressureVars, guard, chan, hold, canary, report, historyVars>>
BellRelease ==
  /\ gpc = "bell"
  /\ ReleaseDue
  /\ DropGuard
  /\ guard' = FALSE
  /\ rel' = "since"
  /\ Resume
  /\ UNCHANGED <<chan, hold, canary, report, historyVars>>

\* Nothing to do in the host: sweep on.
BellIdle ==
  /\ gpc = "bell"
  /\ Polls => chan = "empty"
  /\ ~ReleaseDue
  /\ rel # "elapsed"
  /\ x4 < MaxSweeps
  /\ Resume
  /\ UNCHANGED <<pressureVars, closureVars, canary, report, historyVars>>

\* The tail is over: run_hammer returns the sweeps.
BellStop ==
  /\ gpc = "bell"
  /\ rel = "elapsed"
  /\ gpc' = "returned"
  /\ UNCHANGED <<val, cur, x5, x4, pressureVars, closureVars, canary, report,
                 historyVars>>

HoldElapses ==
  /\ hold = "since"
  /\ hold' = "elapsed"
  /\ UNCHANGED <<pressureVars, guestVars, chan, guard, rel, canary, report,
                 historyVars>>

TailElapses ==
  /\ rel = "since"
  /\ rel' = "elapsed"
  /\ UNCHANGED <<pressureVars, guestVars, chan, guard, hold, canary, report,
                 historyVars>>

-----------------------------------------------------------------------------
(* The surveys. *)

\* What the final survey expects of page p; in the middle of a sweep the
\* pages before the cursor are one ahead.
Behind(p) == IF gpc \in {"ldr", "str"} /\ p < cur THEN 1 ELSE 0
ExpectedPlusOne(p) == Base + p + x4 + Behind(p) + 1
Expected(p) == Base + p + x4 + Behind(p)

\* Verdict::conclusive
Conclusive == canary * 2 >= CanaryPages

Survey ==
  /\ gpc = "returned"
  /\ gpc' = "surveyed"
  /\ report' = [printed |-> TRUE,
                lost |-> Cardinality({p \in Page : val[p] # Expected(p)}),
                conclusive |-> Conclusive]
  /\ UNCHANGED <<val, cur, x5, x4, pressureVars, closureVars, canary,
                 historyVars>>

-----------------------------------------------------------------------------
(* The kernel, external. *)

UnderPressure == gen \in {"dirtying", "holding"} /\ held > 0

\* The failure the probe looks for: a live guest page loses its contents.
DiscardPage(p) ==
  /\ UnderPressure
  /\ Cardinality(discarded) < MaxDiscards
  /\ val' = [val EXCEPT ![p] = 0]
  /\ discarded' = discarded \cup {p}
  /\ exposed' = IF gpc = "str" /\ cur = p THEN exposed ELSE exposed \cup {p}
  /\ UNCHANGED <<gpc, cur, x5, x4, pressureVars, closureVars, canary, report>>

\* A page of the MADV_FREE canary goes, which is what it is there for.
DiscardCanary ==
  /\ UnderPressure
  /\ canary < CanaryPages
  /\ canary' = canary + 1
  /\ UNCHANGED <<pressureVars, guestVars, closureVars, report, historyVars>>

-----------------------------------------------------------------------------
Guest == Ldr \/ Str

KeepGoing == BellReceive \/ BellPanic \/ BellRelease \/ BellIdle \/ BellStop

Kernel == DiscardCanary \/ \E p \in Page : DiscardPage(p)

Next ==
  \/ Guest
  \/ ApplyThread
  \/ Send
  \/ ChildStep
  \/ KeepGoing
  \/ HoldElapses
  \/ TailElapses
  \/ Survey
  \/ Kernel

(***************************************************************************)
(* The vCPU and the closure run on the main thread, apply on its own, the  *)
(* child is a process: all are scheduled.  Time passes.  The kernel owes   *)
(* nothing, and the generator may die.                                     *)
(***************************************************************************)
Fairness ==
  /\ WF_vars(Guest \/ KeepGoing \/ Survey)
  /\ WF_vars(ApplyThread)
  /\ WF_vars(Send)
  /\ WF_vars(ChildStep)
  /\ WF_vars(HoldElapses)
  /\ WF_vars(TailElapses)

Spec == Init /\ [][Next]_vars /\ Fairness

-----------------------------------------------------------------------------
(***************************************************************************)
(* No false alarm: a page the kernel never discarded is at its expected    *)
(* counter at every moment, so a run without discards reports zero lost.   *)
(***************************************************************************)
NoFalseLoss ==
  /\ \A p \in Page \ discarded : val[p] = Expected(p)
  /\ report.printed /\ discarded = {} => report.lost = 0

(***************************************************************************)
(* A page discarded at any moment but between its own load and store never *)
(* catches up with its expected counter, however many sweeps follow, and   *)
(* the final survey counts it.                                             *)
(***************************************************************************)
DiscardVisible ==
  /\ \A p \in exposed : val[p] < Expected(p)
  /\ report.printed => report.lost >= Cardinality(exposed)

(***************************************************************************)
(* The closure panics only when apply itself failed; in particular it      *)
(* never polls the channel again after the guard was taken and released,   *)
(* which would find the sender gone.                                       *)
(***************************************************************************)
PanicOnlyOnApplyError == gpc = "panicked" => app = "err"

(***************************************************************************)
(* Once the tail begins the generator is killed and reaped: pressure never *)
(* outlives the hold and never runs into the surveys.                      *)
(***************************************************************************)
ReleasedBeforeTail == rel # "no" => gen = "reaped" /\ ~guard

(***************************************************************************)
(* The probe ends: pressure that comes up is held, released and surveyed,  *)
(* and pressure that never comes up ends the run with a panic.             *)
(***************************************************************************)
Terminates == <>(gpc \in {"surveyed", "panicked"})
=============================================================================
