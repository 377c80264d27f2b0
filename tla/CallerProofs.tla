---------------------------- MODULE CallerProofs ----------------------------
(***************************************************************************)
(* Proofs for the two callers of the pressure generator that keep its      *)
(* guard while a guest runs.                                               *)
(*                                                                         *)
(* The concurrent-write probe: for every amount of memory, of pressure and *)
(* of discards, and with no bound on the sweeps that change anything, the  *)
(* survey of hammer_check neither invents a loss nor misses one that       *)
(* happened outside a page's own load-store window.                        *)
(*                                                                         *)
(* The host side of the soak: for any number of workers, any number of     *)
(* cycles and bursts of any size, the guest's pages stay backed by the     *)
(* soak's own memory, a delta that neither another worker nor the kernel   *)
(* disturbed is exact, and no generator is left at the verdict.            *)
(***************************************************************************)
EXTENDS Hammer, SoakHost, PressureProofs, FiniteSetTheorems

-----------------------------------------------------------------------------
(* The concurrent-write probe. *)

(***************************************************************************)
(* Counters.  A page never discarded is at its expected counter; a page    *)
(* discarded in the open has counted at most the sweeps; between a load    *)
(* and its store the register says the same of the page in hand.           *)
(***************************************************************************)
Counters ==
  /\ exposed \subseteq discarded
  /\ gpc \in {"bell", "returned"} => cur = 0
  /\ \A p \in Page \ discarded : val[p] = Expected(p)
  /\ \A p \in exposed : val[p] <= x4 + Behind(p)
  /\ gpc = "str" /\ cur \notin discarded => x5 = Base + cur + x4
  /\ gpc = "str" /\ cur \in exposed => x5 <= x4

(***************************************************************************)
(* The guard's way from the apply thread through the channel into the      *)
(* closure and out again: the child is reaped before the tail begins, and  *)
(* the channel is empty of messages and senders only once the guard has    *)
(* been taken (or the closure has panicked on an error).                   *)
(***************************************************************************)
Handover ==
  /\ chan = "empty" => ~guard /\ hold = "no" /\ rel = "no"
  /\ chan = "ok" => app = "ok" /\ ~guard /\ hold = "no" /\ rel = "no"
  /\ chan = "err" => app = "err" /\ ~guard /\ hold = "no" /\ rel = "no"
  /\ chan = "closed" => guard \/ rel # "no" \/ gpc = "panicked"
  /\ guard => app = "ok" /\ chan = "closed" /\ rel = "no"
  /\ hold # "no" => guard \/ rel # "no"
  /\ rel # "no" => app = "dropped" /\ chan = "closed" /\ gen = "reaped" /\ ~guard
  /\ gpc = "panicked" => app = "err" /\ hold = "no" /\ rel = "no"
  /\ gpc \in {"returned", "surveyed"} => rel = "elapsed"

\* What was printed is the survey of memory as it is.
Reported ==
  /\ report.printed => gpc = "surveyed"
  /\ report.printed =>
       report.lost = Cardinality({p \in Page : val[p] # Expected(p)})

HammerInv ==
  TypeOK /\ Chain /\ Counters /\ Handover /\ Reported

-----------------------------------------------------------------------------
\* The pages are finitely many, and so are the ones of any kind of them.
LEMMA PagesFinite ==
  /\ IsFiniteSet(Page)
  /\ \A S \in SUBSET Page : IsFiniteSet(S) /\ Cardinality(S) \in 0..Pages
<1>1. IsFiniteSet(Page) /\ Cardinality(Page) = Pages
  BY HammerAssumption, FS_Interval DEF Page
<1>2. ASSUME NEW S \in SUBSET Page
      PROVE  IsFiniteSet(S) /\ Cardinality(S) \in 0..Pages
  <2>1. IsFiniteSet(S) /\ Cardinality(S) <= Cardinality(Page)
    BY <1>1, FS_Subset
  <2>2. Cardinality(S) \in Nat
    BY <2>1, FS_CardinalityType
  <2>3. QED
    BY <1>1, <2>1, <2>2, HammerAssumption
<1>3. QED
  BY <1>1, <1>2

\* Every step of the probe is a step of the pressure protocol or leaves it
\* alone: the composition adds nothing to what the generator can do.
LEMMA HammerStepIsPressureStep == [Next]_vars => [PressureNext]_pressureVars
  BY DEF Next, vars, PressureNext, Guest, Ldr, Str, ApplyThread, Send,
         ChildStep, KeepGoing, BellReceive, BellPanic, BellRelease,
         BellIdle, BellStop, HoldElapses, TailElapses, Survey, Kernel,
         DiscardPage, DiscardCanary

\* The entry of hammer_check satisfies the inductive invariant.
LEMMA HammerInitInv == Init => HammerInv
<1> SUFFICES ASSUME Init PROVE HammerInv
  OBVIOUS
<1>1. PressureInv
  BY PressureInitInv DEF Init
<1>2. TypeOK
  <2>1. report \in [printed : BOOLEAN, lost : 0..Pages, conclusive : BOOLEAN]
    <3>1. 0 \in 0..Pages
      BY HammerAssumption
    <3>2. QED
      BY <3>1, Zenon DEF Init, NoReport
  <2>2. val \in [Page -> Nat]
    BY HammerAssumption DEF Init, Page
  <2>3. cur \in Page /\ canary \in 0..CanaryPages /\ x4 \in Nat /\ x5 \in Nat
    BY HammerAssumption DEF Init, Page
  <2>4. QED
    BY <1>1, <2>1, <2>2, <2>3, Zenon DEF Init, TypeOK, PressureInv, Instant
<1>3. Counters
  BY HammerAssumption DEF Init, Counters, Expected, Behind, Page
<1>4. Handover /\ Reported
  BY DEF Init, Handover, Reported, NoReport
<1>5. QED
  BY <1>1, <1>2, <1>3, <1>4 DEF HammerInv, PressureInv

-----------------------------------------------------------------------------
(* Steps that leave part of the state alone. *)

\* A step that changes neither the guest nor the history keeps the counters.
LEMMA CountersFrame ==
  Counters /\ UNCHANGED <<guestVars, historyVars>> => Counters'
<1> SUFFICES ASSUME Counters, UNCHANGED <<guestVars, historyVars>>
             PROVE  Counters'
  OBVIOUS
<1>1. UNCHANGED <<val, gpc, cur, x5, x4, discarded, exposed>>
  BY DEF guestVars, historyVars
<1>2. QED
  BY <1>1 DEF Counters, Expected, Behind

\* A step that changes neither the guest nor the report keeps it accurate.
LEMMA ReportedFrame ==
  Reported /\ UNCHANGED <<guestVars, report>> => Reported'
<1> SUFFICES ASSUME Reported, UNCHANGED <<guestVars, report>>
             PROVE  Reported'
  OBVIOUS
<1>1. UNCHANGED <<val, gpc, cur, x5, x4, report>>
  BY DEF guestVars
<1>2. QED
  BY <1>1 DEF Reported, Expected, Behind

\* Until run_hammer returns nothing has been printed.
LEMMA ReportedBefore ==
  ASSUME Reported, gpc # "surveyed", UNCHANGED report
  PROVE  Reported'
  BY DEF Reported

\* Parking at the doorbell, resuming from it and returning from it leave
\* what every page is expected to hold as it is.
LEMMA CountersAtBell ==
  ASSUME TypeOK, Counters,
         gpc \in {"bell", "returned"},
         gpc' \in {"ldr", "bell", "returned", "surveyed", "panicked"},
         UNCHANGED <<val, cur, x5, x4, historyVars>>
  PROVE  Counters'
<1>1. \A p \in Page : Behind(p) = 0 /\ Behind(p)' = 0
  BY DEF Counters, Behind, Page
<1>2. UNCHANGED <<val, cur, x5, x4, discarded, exposed>>
  BY DEF historyVars
<1>3. exposed \subseteq Page
  BY DEF TypeOK
<1>4. QED
  BY <1>1, <1>2, <1>3 DEF Counters, Expected

-----------------------------------------------------------------------------
(* The guest's steps. *)

\* The load puts into the register what the counters say of the page.
LEMMA LdrInv == HammerInv /\ Ldr => HammerInv'
<1> SUFFICES ASSUME HammerInv, Ldr PROVE HammerInv'
  OBVIOUS
<1>1. UNCHANGED <<val, cur, x4, discarded, exposed>>
      /\ gpc = "ldr" /\ gpc' = "str" /\ x5' = val[cur]
  BY DEF Ldr, historyVars
<1>2. TypeOK'
  BY HammerAssumption
  DEF HammerInv, TypeOK, PressureTypeOK, Ldr, pressureVars, closureVars, historyVars
<1>3. Chain'
  BY DEF HammerInv, Chain, Ldr, pressureVars
<1>4. Counters'
  BY <1>1, HammerAssumption DEF HammerInv, TypeOK, Counters, Expected, Behind, Page
<1>5. Handover'
  BY DEF HammerInv, Handover, Ldr, pressureVars, closureVars
<1>6. Reported'
  BY <1>1, ReportedBefore DEF HammerInv, Ldr
<1>7. QED
  BY <1>2, <1>3, <1>4, <1>5, <1>6 DEF HammerInv

\* The store moves the page in hand ahead by one, and the end of a sweep
\* turns being one ahead into the sweep just counted.
LEMMA StrInv == HammerInv /\ Str => HammerInv'
<1> SUFFICES ASSUME HammerInv, Str PROVE HammerInv'
  OBVIOUS
<1>1. /\ gpc = "str" /\ UNCHANGED <<x5, discarded, exposed>>
      /\ val' = [val EXCEPT ![cur] = x5 + 1]
      /\ \/ cur + 1 < Pages /\ cur' = cur + 1 /\ gpc' = "ldr" /\ x4' = x4
         \/ cur + 1 = Pages /\ cur' = 0 /\ gpc' = "bell" /\ x4' = x4 + 1
  BY HammerAssumption DEF HammerInv, TypeOK, Page, Str, historyVars
<1>2. TypeOK'
  BY <1>1, HammerAssumption
  DEF HammerInv, TypeOK, PressureTypeOK, Page, Str, pressureVars, closureVars,
      historyVars
<1>3. Chain'
  BY DEF HammerInv, Chain, Str, pressureVars
<1>4. PICK c \in Page : c = cur
  BY DEF HammerInv, TypeOK
<1>5. \A p \in Page : Behind(p) \in {0, 1} /\ Behind(p)' \in {0, 1}
  BY DEF Behind
<1>6. \A p \in Page : p # c => val'[p] = val[p] /\ x4' + Behind(p)' = x4 + Behind(p)
  BY <1>1, <1>4, HammerAssumption DEF HammerInv, TypeOK, Behind, Page
<1>7. val'[c] = x5 + 1 /\ x4' + Behind(c)' = x4 + 1 /\ Behind(c) = 0
  BY <1>1, <1>4, HammerAssumption DEF HammerInv, TypeOK, Behind, Page
<1>8. Counters'
  <2>1. x4 \in Nat /\ x4' \in Nat /\ x5 \in Nat /\ val \in [Page -> Nat]
        /\ exposed \subseteq Page /\ Base \in Nat /\ Page \subseteq Nat
    BY <1>2, HammerAssumption DEF HammerInv, TypeOK, Page
  <2>2. ASSUME NEW p \in Page \ discarded PROVE val'[p] = Expected(p)'
    <3>1. Expected(p)' = Base + p + (x4' + Behind(p)')
      BY <1>5, <2>1 DEF Expected
    <3>2. Expected(p) = Base + p + (x4 + Behind(p)) /\ val[p] = Expected(p)
      BY <1>5, <2>1 DEF Expected, HammerInv, Counters
    <3>3. CASE p # c
      BY <1>6, <3>1, <3>2, <3>3
    <3>4. CASE p = c
      <4>1. x5 = Base + p + x4
        BY <1>1, <1>4, <3>4 DEF HammerInv, Counters
      <4>2. QED
        BY <1>7, <2>1, <3>1, <3>4, <4>1
    <3>5. QED
      BY <3>3, <3>4
  <2>3. ASSUME NEW p \in exposed PROVE val'[p] <= x4' + Behind(p)'
    <3>1. p \in Page /\ val[p] <= x4 + Behind(p)
      BY <2>1 DEF HammerInv, Counters
    <3>2. CASE p # c
      BY <1>6, <3>1, <3>2
    <3>3. CASE p = c
      <4>1. x5 <= x4
        BY <1>1, <1>4, <3>3 DEF HammerInv, Counters
      <4>2. QED
        BY <1>7, <2>1, <3>3, <4>1
    <3>4. QED
      BY <3>2, <3>3
  <2>4. QED
    BY <1>1, <2>2, <2>3 DEF HammerInv, Counters
<1>9. Handover'
  BY <1>1 DEF HammerInv, Handover, Str, pressureVars, closureVars
<1>10. Reported'
  BY <1>1, ReportedBefore DEF HammerInv, Str
<1>11. QED
  BY <1>2, <1>3, <1>8, <1>9, <1>10 DEF HammerInv

-----------------------------------------------------------------------------
(* The steps of the pressure side. *)

\* apply and the generator change nothing of the probe, and the generator
\* has no step left once it is reaped.
LEMMA PressureSideInv == HammerInv /\ (ApplyThread \/ ChildStep) => HammerInv'
<1> SUFFICES ASSUME HammerInv, ApplyThread \/ ChildStep PROVE HammerInv'
  OBVIOUS
<1>1. UNCHANGED <<guestVars, closureVars, canary, report, historyVars>>
  BY DEF ApplyThread, ChildStep
<1>2. UNCHANGED <<val, gpc, cur, x5, x4, chan, guard, hold, rel, canary,
                  report, discarded, exposed>>
  BY <1>1 DEF guestVars, closureVars, historyVars
<1>3. PressureTypeOK' /\ Chain'
  <2>1. PressureInv
    BY DEF HammerInv, TypeOK, PressureInv
  <2>2. [PressureNext]_pressureVars
    BY DEF ApplyThread, ChildStep, PressureNext
  <2>3. QED
    BY <2>1, <2>2, PressureStepInv DEF PressureInv
<1>4. TypeOK'
  BY <1>2, <1>3 DEF HammerInv, TypeOK
<1>5. Counters' /\ Reported'
  BY <1>1, CountersFrame, ReportedFrame DEF HammerInv
<1>6. Handover'
  <2>1. CASE ApplyThread
    BY <1>2, <2>1 DEF HammerInv, Handover, ApplyThread, Apply, SpawnFails, Spawn,
                      ReadHolding, ReadOther
  <2>2. CASE ChildStep
    BY <1>2, <2>2 DEF HammerInv, Handover, ChildStep, Generator, DirtyChunk,
                      HoldAll, HoldPartial, PrintHolding, GeneratorDies
  <2>3. QED
    BY <2>1, <2>2
<1>7. QED
  BY <1>3, <1>4, <1>5, <1>6 DEF HammerInv

\* The message on its way, and time.
LEMMA ClosureSideInv ==
  HammerInv /\ (Send \/ HoldElapses \/ TailElapses) => HammerInv'
<1> SUFFICES ASSUME HammerInv, Send \/ HoldElapses \/ TailElapses
             PROVE  HammerInv'
  OBVIOUS
<1>1. UNCHANGED <<pressureVars, guestVars, canary, report, historyVars>>
  BY DEF Send, HoldElapses, TailElapses
<1>2. UNCHANGED <<gen, held, pipe, app, parent, val, gpc, cur, x5, x4, canary,
                  report, discarded, exposed>>
  BY <1>1 DEF pressureVars, guestVars, historyVars
<1>3. chan' \in {"empty", "ok", "err", "closed"} /\ guard' \in BOOLEAN
      /\ hold' \in Instant /\ rel' \in Instant
  BY DEF HammerInv, TypeOK, Instant, Send, HoldElapses, TailElapses
<1>4. TypeOK' /\ Chain'
  BY <1>2, <1>3 DEF HammerInv, TypeOK, PressureTypeOK, Chain
<1>5. Counters' /\ Reported'
  BY <1>1, CountersFrame, ReportedFrame DEF HammerInv
<1>6. Handover'
  <2>1. CASE Send
    BY <1>2, <2>1 DEF HammerInv, TypeOK, Handover, Send
  <2>2. CASE HoldElapses
    BY <1>2, <2>2 DEF HammerInv, TypeOK, Handover, HoldElapses
  <2>3. CASE TailElapses
    BY <1>2, <2>3 DEF HammerInv, TypeOK, Handover, TailElapses
  <2>4. QED
    BY <2>1, <2>2, <2>3
<1>7. QED
  BY <1>4, <1>5, <1>6 DEF HammerInv

\* The closure: whatever it decides, the pages stay as they are, and the
\* guard goes from the channel to the closure to the drop.
LEMMA KeepGoingInv == HammerInv /\ KeepGoing => HammerInv'
<1> SUFFICES ASSUME HammerInv, KeepGoing PROVE HammerInv'
  OBVIOUS
<1>1. /\ gpc = "bell" /\ gpc' \in {"ldr", "returned", "panicked"}
      /\ UNCHANGED <<val, cur, x5, x4, canary, report, historyVars>>
  BY DEF KeepGoing, BellReceive, BellPanic, BellRelease, BellIdle, BellStop,
         Resume
<1>2. PressureTypeOK' /\ Chain'
  <2>1. PressureInv
    BY DEF HammerInv, TypeOK, PressureInv
  <2>2. [PressureNext]_pressureVars
    BY DEF KeepGoing, BellReceive, BellPanic, BellRelease, BellIdle, BellStop,
           PressureNext
  <2>3. QED
    BY <2>1, <2>2, PressureStepInv DEF PressureInv
<1>3. chan' \in {"empty", "ok", "err", "closed"} /\ guard' \in BOOLEAN
      /\ hold' \in Instant /\ rel' \in Instant
  BY DEF HammerInv, TypeOK, Instant, KeepGoing, BellReceive, BellPanic,
         BellRelease, BellIdle, BellStop, closureVars
<1>4. TypeOK'
  BY <1>1, <1>2, <1>3 DEF HammerInv, TypeOK, historyVars
<1>5. Counters'
  BY <1>1, CountersAtBell DEF HammerInv
<1>6. Reported'
  BY <1>1, ReportedBefore DEF HammerInv
<1>7. Handover'
  <2>1. CASE BellReceive
    BY <2>1 DEF HammerInv, TypeOK, Handover, BellReceive, Polls, Resume,
                pressureVars
  <2>2. CASE BellPanic
    BY <2>2 DEF HammerInv, TypeOK, Handover, BellPanic, Polls, pressureVars
  <2>3. CASE BellRelease
    BY <2>3 DEF HammerInv, TypeOK, Handover, BellRelease, ReleaseDue,
                DropGuard, Resume
  <2>4. CASE BellIdle
    BY <2>4 DEF HammerInv, TypeOK, Handover, BellIdle, Resume, pressureVars,
                closureVars
  <2>5. CASE BellStop
    BY <2>5 DEF HammerInv, TypeOK, Handover, BellStop, pressureVars,
                closureVars
  <2>6. QED
    BY <2>1, <2>2, <2>3, <2>4, <2>5 DEF KeepGoing
<1>8. QED
  BY <1>2, <1>4, <1>5, <1>6, <1>7 DEF HammerInv

-----------------------------------------------------------------------------
(* The survey and the kernel. *)

\* The survey reports memory as it is and changes nothing else.
LEMMA SurveyInv == HammerInv /\ Survey => HammerInv'
<1> SUFFICES ASSUME HammerInv, Survey PROVE HammerInv'
  OBVIOUS
<1> DEFINE Lost == {p \in Page : val[p] # Expected(p)}
<1>1. /\ gpc = "returned" /\ gpc' = "surveyed"
      /\ UNCHANGED <<val, cur, x5, x4, pressureVars, closureVars, canary,
                     historyVars>>
  BY DEF Survey
<1>2. report' = [printed |-> TRUE, lost |-> Cardinality(Lost),
                 conclusive |-> Conclusive]
  BY DEF Survey
<1>3. Cardinality(Lost) \in 0..Pages
  BY PagesFinite
<1>4. Conclusive \in BOOLEAN
  BY DEF Conclusive
<1> HIDE DEF Lost
<1>5. report' \in [printed : BOOLEAN, lost : 0..Pages, conclusive : BOOLEAN]
  BY <1>2, <1>3, <1>4, Zenon
<1>6. TypeOK' /\ Chain'
  BY <1>1, <1>5 DEF HammerInv, TypeOK, PressureTypeOK, Chain, pressureVars,
                    closureVars, historyVars
<1>7. Counters'
  BY <1>1, CountersAtBell DEF HammerInv
<1>8. Handover'
  BY <1>1 DEF HammerInv, Handover, pressureVars, closureVars
<1>9. Reported'
  <2>1. Lost = {p \in Page : val'[p] # Expected(p)'}
    BY <1>1 DEF Lost, Expected, Behind
  <2>2. report'.lost = Cardinality(Lost)
    BY <1>2
  <2>3. QED
    BY <1>1, <2>1, <2>2 DEF Reported
<1>10. QED
  BY <1>6, <1>7, <1>8, <1>9 DEF HammerInv

\* A discard happens only under pressure, hence before the tail; it zeroes
\* the page, and a page discarded in the open has counted no sweep yet.
LEMMA DiscardPageInv ==
  ASSUME HammerInv, NEW p \in Page, DiscardPage(p)
  PROVE  HammerInv'
<1>1. /\ UNCHANGED <<gpc, cur, x5, x4, pressureVars, closureVars, canary, report>>
      /\ val' = [val EXCEPT ![p] = 0]
      /\ discarded' = discarded \cup {p}
      /\ exposed' = IF gpc = "str" /\ cur = p THEN exposed ELSE exposed \cup {p}
      /\ gen \in {"dirtying", "holding"}
  BY DEF DiscardPage, UnderPressure
<1>2. TypeOK' /\ Chain'
  BY <1>1 DEF HammerInv, TypeOK, PressureTypeOK, Chain, pressureVars, closureVars
<1>3. \A q \in Page : Behind(q)' = Behind(q) /\ Behind(q) \in {0, 1}
  BY <1>1 DEF Behind
<1>4. Counters'
  <2>1. \A q \in Page \ discarded' : val'[q] = Expected(q)'
    BY <1>1, <1>3 DEF HammerInv, TypeOK, Counters, Expected
  <2>2. ASSUME NEW q \in exposed' PROVE val'[q] <= x4' + Behind(q)'
    <3>1. q \in Page /\ x4 \in Nat
      BY <1>1 DEF HammerInv, TypeOK
    <3>2. CASE q = p
      BY <1>1, <1>3, <3>1, <3>2 DEF HammerInv, TypeOK
    <3>3. CASE q # p
      BY <1>1, <1>3, <3>1, <3>3 DEF HammerInv, TypeOK, Counters
    <3>4. QED
      BY <3>2, <3>3
  <2>3. QED
    BY <1>1, <2>1, <2>2 DEF HammerInv, Counters
<1>5. Handover'
  BY <1>1 DEF HammerInv, Handover, pressureVars, closureVars
<1>6. Reported'
  <2>1. gpc # "surveyed"
    BY <1>1 DEF HammerInv, Handover
  <2>2. QED
    BY <1>1, <2>1, ReportedBefore DEF HammerInv
<1>7. QED
  BY <1>2, <1>4, <1>5, <1>6 DEF HammerInv

\* A canary page is no page of the guest.
LEMMA DiscardCanaryInv == HammerInv /\ DiscardCanary => HammerInv'
<1> SUFFICES ASSUME HammerInv, DiscardCanary PROVE HammerInv'
  OBVIOUS
<1>1. UNCHANGED <<pressureVars, guestVars, closureVars, report, historyVars>>
      /\ canary' \in 0..CanaryPages
  BY HammerAssumption DEF HammerInv, TypeOK, DiscardCanary
<1>2. TypeOK' /\ Chain' /\ Handover'
  BY <1>1 DEF HammerInv, TypeOK, PressureTypeOK, Chain, Handover, pressureVars,
              guestVars, closureVars, historyVars
<1>3. Counters' /\ Reported'
  BY <1>1, CountersFrame, ReportedFrame DEF HammerInv
<1>4. QED
  BY <1>2, <1>3 DEF HammerInv

-----------------------------------------------------------------------------
\* Every step preserves the inductive invariant.
LEMMA HammerStepInv == HammerInv /\ [Next]_vars => HammerInv'
<1> SUFFICES ASSUME HammerInv, [Next]_vars PROVE HammerInv'
  OBVIOUS
<1>1. CASE Guest
  BY <1>1, LdrInv, StrInv DEF Guest
<1>2. CASE ApplyThread \/ ChildStep
  BY <1>2, PressureSideInv
<1>3. CASE Send \/ HoldElapses \/ TailElapses
  BY <1>3, ClosureSideInv
<1>4. CASE KeepGoing
  BY <1>4, KeepGoingInv
<1>5. CASE Survey
  BY <1>5, SurveyInv
<1>6. CASE Kernel
  BY <1>6, DiscardCanaryInv, DiscardPageInv DEF Kernel
<1>7. CASE UNCHANGED vars
  <2>1. UNCHANGED <<pressureVars, guestVars, closureVars, canary, report,
                    historyVars>>
    BY <1>7 DEF vars
  <2>2. TypeOK' /\ Chain' /\ Handover'
    BY <2>1 DEF HammerInv, TypeOK, PressureTypeOK, Chain, Handover,
                pressureVars, guestVars, closureVars, historyVars
  <2>3. Counters' /\ Reported'
    BY <2>1, CountersFrame, ReportedFrame DEF HammerInv
  <2>4. QED
    BY <2>2, <2>3 DEF HammerInv
<1>8. QED
  BY <1>1, <1>2, <1>3, <1>4, <1>5, <1>6, <1>7 DEF Next

\* The inductive invariant holds of every behaviour of the probe.
THEOREM HammerInvariant == Spec => []HammerInv
<1>1. Init => HammerInv
  BY HammerInitInv
<1>2. HammerInv /\ [Next]_vars => HammerInv'
  BY HammerStepInv
<1>3. QED
  BY <1>1, <1>2, PTL DEF Spec

\* Type correctness of the probe.
THEOREM HammerTypeCorrect == Spec => []TypeOK
<1>1. HammerInv => TypeOK
  BY DEF HammerInv
<1>2. QED
  BY <1>1, HammerInvariant, PTL

\* hammer_check never invents a loss: a page the kernel left alone is at
\* base + offset + sweeps, whatever the sweeps race with.
THEOREM SurveyIsSound == Spec => []NoFalseLoss
<1>1. HammerInv => NoFalseLoss
  <2> SUFFICES ASSUME HammerInv PROVE NoFalseLoss
    OBVIOUS
  <2>1. \A p \in Page \ discarded : val[p] = Expected(p)
    BY DEF HammerInv, Counters
  <2>2. ASSUME report.printed, discarded = {} PROVE report.lost = 0
    <3>1. {p \in Page : val[p] # Expected(p)} = {}
      BY <2>1, <2>2
    <3>2. QED
      BY <2>2, <3>1, FS_EmptySet DEF HammerInv, Reported
  <2>3. QED
    BY <2>1, <2>2 DEF NoFalseLoss
<1>2. QED
  BY <1>1, HammerInvariant, PTL

\* hammer_check never misses a discard that fell outside the page's own
\* load-store window, however many sweeps follow it.
THEOREM SurveyIsComplete == Spec => []DiscardVisible
<1>1. HammerInv => DiscardVisible
  <2> SUFFICES ASSUME HammerInv PROVE DiscardVisible
    OBVIOUS
  <2>1. exposed \subseteq Page
    BY DEF HammerInv, TypeOK
  <2>2. ASSUME NEW p \in exposed PROVE val[p] < Expected(p)
    <3>1. p \in Nat /\ val[p] \in Nat /\ x4 \in Nat /\ Behind(p) \in {0, 1}
      BY <2>1, HammerAssumption DEF HammerInv, TypeOK, Page, Behind
    <3>2. val[p] <= x4 + Behind(p)
      BY DEF HammerInv, Counters
    <3>3. QED
      BY <3>1, <3>2, HammerAssumption DEF Expected
  <2>3. ASSUME report.printed PROVE report.lost >= Cardinality(exposed)
    <3> DEFINE Lost == {p \in Page : val[p] # Expected(p)}
    <3>1. exposed \subseteq Lost
      <4>1. ASSUME NEW p \in exposed PROVE val[p] # Expected(p)
        <5>1. val[p] < Expected(p) /\ val[p] \in Nat /\ Expected(p) \in Nat
          BY <2>1, <2>2, HammerAssumption
          DEF HammerInv, TypeOK, Page, Expected, Behind
        <5>2. QED
          BY <5>1
      <4>2. QED
        BY <2>1, <4>1
    <3>2. IsFiniteSet(Lost) /\ Cardinality(Lost) \in Nat
      BY PagesFinite, FS_CardinalityType
    <3>3. Cardinality(exposed) <= Cardinality(Lost) /\ Cardinality(exposed) \in Nat
      BY <3>1, <3>2, FS_Subset, FS_CardinalityType
    <3>4. report.lost = Cardinality(Lost)
      BY <2>3 DEF HammerInv, Reported
    <3>5. QED
      BY <3>2, <3>3, <3>4
  <2>4. QED
    BY <2>2, <2>3 DEF DiscardVisible
<1>2. QED
  BY <1>1, HammerInvariant, PTL

\* The closure panics only on an error of apply.
THEOREM ClosurePanics == Spec => []PanicOnlyOnApplyError
<1>1. HammerInv => PanicOnlyOnApplyError
  BY DEF HammerInv, Handover, PanicOnlyOnApplyError
<1>2. QED
  BY <1>1, HammerInvariant, PTL

\* No pressure outlives the hold.
THEOREM PressureIsReleased == Spec => []ReleasedBeforeTail
<1>1. HammerInv => ReleasedBeforeTail
  BY DEF HammerInv, Handover, ReleasedBeforeTail
<1>2. QED
  BY <1>1, HammerInvariant, PTL

-----------------------------------------------------------------------------
(* The pressure thread alone: for every size of the bursts and any number  *)
(* of them, no generator runs in a pause or after the verdict.             *)

(***************************************************************************)
(* Where the thread is says whether a guard exists: only between a         *)
(* successful apply and the release that follows.                          *)
(***************************************************************************)
ThreadOwnsGuard ==
  /\ thread \in {"top", "off", "ended"} => app \in {"idle", "err", "dropped"}
  /\ thread = "apply" => app \in {"idle", "reading", "err", "dropped"}
  /\ thread = "on" => app \in {"ok", "err"}
  /\ main = "printed" => thread = "ended"

SoakPressureInv == SoakPressureTypeOK /\ Chain /\ ThreadOwnsGuard

\* The start of run.
LEMMA SoakPressureInitInv == SoakPressureInit => SoakPressureInv
<1> SUFFICES ASSUME SoakPressureInit PROVE SoakPressureInv
  OBVIOUS
<1>1. PressureInv
  BY PressureInitInv DEF SoakPressureInit
<1>2. QED
  BY <1>1 DEF SoakPressureInit, SoakPressureInv, SoakPressureTypeOK,
              PressureInv, ThreadOwnsGuard, PressureInit

\* Every step of the thread, of the generator and of run preserves it.
LEMMA SoakPressureStepInv ==
  SoakPressureInv /\ [SoakPressureNext]_soakPressureVars => SoakPressureInv'
<1> SUFFICES ASSUME SoakPressureInv, [SoakPressureNext]_soakPressureVars
             PROVE  SoakPressureInv'
  OBVIOUS
<1>1. PressureTypeOK' /\ Chain'
  <2>1. PressureInv
    BY DEF SoakPressureInv, SoakPressureTypeOK, PressureInv
  <2>2. [PressureNext]_pressureVars
    BY DEF SoakPressureNext, soakPressureVars, PressureThread, Enter, ApplyStep,
           Release, Pause, GeneratorStep, WorkersEnd, ProgressFails,
           StopPressure, PrintVerdict, PressureNext
  <2>3. QED
    BY <2>1, <2>2, PressureStepInv DEF PressureInv
<1> USE <1>1 DEF SoakPressureInv, SoakPressureTypeOK, ThreadOwnsGuard, runVars,
                 pressureVars
<1>2. CASE Enter
  BY <1>2 DEF Enter
<1>3. CASE ApplyStep
  BY <1>3 DEF ApplyStep, Apply, SpawnFails, Spawn, ReadHolding, ReadOther
<1>4. CASE Release
  BY <1>4 DEF Release, DropGuard
<1>5. CASE Pause
  BY <1>5 DEF Pause
<1>6. CASE GeneratorStep
  BY <1>6 DEF GeneratorStep, Beyond, Generator, DirtyChunk, HoldAll, HoldPartial,
              PrintHolding, GeneratorDies
<1>7. CASE WorkersEnd
  BY <1>7 DEF WorkersEnd
<1>8. CASE ProgressFails
  BY <1>8 DEF ProgressFails, ParentDies
<1>9. CASE StopPressure
  BY <1>9 DEF StopPressure
<1>10. CASE PrintVerdict
  BY <1>10 DEF PrintVerdict
<1>11. CASE UNCHANGED soakPressureVars
  BY <1>11 DEF soakPressureVars
<1>12. QED
  BY <1>2, <1>3, <1>4, <1>5, <1>6, <1>7, <1>8, <1>9, <1>10, <1>11
  DEF SoakPressureNext, PressureThread

\* The inductive invariant holds of every soak.
THEOREM SoakPressureInvariant == SoakPressureSpec => []SoakPressureInv
<1>1. SoakPressureInit => SoakPressureInv
  BY SoakPressureInitInv
<1>2. SoakPressureInv /\ [SoakPressureNext]_soakPressureVars => SoakPressureInv'
  BY SoakPressureStepInv
<1>3. QED
  BY <1>1, <1>2, PTL DEF SoakPressureSpec

\* No generator is left when run prints its verdict.
THEOREM VerdictIsQuiet == SoakPressureSpec => []NoPressureAfterVerdict
<1>1. SoakPressureInv => NoPressureAfterVerdict
  BY DEF SoakPressureInv, Chain, ThreadOwnsGuard, NoPressureAfterVerdict
<1>2. QED
  BY <1>1, SoakPressureInvariant, PTL

\* No generator holds memory in the pauses between the bursts.
THEOREM PausesAreQuiet == SoakPressureSpec => []PauseIsQuiet
<1>1. SoakPressureInv => PauseIsQuiet
  BY DEF SoakPressureInv, Chain, ThreadOwnsGuard, PauseIsQuiet
<1>2. QED
  BY <1>1, SoakPressureInvariant, PTL

-----------------------------------------------------------------------------
(* The workers' host calls beside it. *)

HostTypes ==
  /\ mode \in {"reusable", "munmap"}
  /\ at \in [Workers -> {"top", "swept", "read", "unmapped", "munmapped",
                         "released", "remapped", "measured", "pushed", "ended",
                         "panicked"}]
  /\ cycle \in Nat
  /\ cold \in [Workers -> {"none", "charged", "reusable", "sticky", "hole",
                           "foreign"}]
  /\ mapped \in [Workers -> BOOLEAN]
  /\ led \in [Workers -> [before : Int, after : Int]]
  /\ own \in [Workers -> Int]
  /\ disturbed \in [Workers -> BOOLEAN]
  /\ excess \in Int

(***************************************************************************)
(* Where the place of a half is open, or somebody else's, its worker       *)
(* stands between munmap and MAP_FIXED, or has panicked there, and in      *)
(* either case has unmapped the half from the guest before.                *)
(***************************************************************************)
OpenPlaces ==
  \A w \in Workers :
    /\ at[w] \in {"unmapped", "munmapped", "released"} => ~mapped[w]
    /\ cold[w] \in {"hole", "foreign"} =>
         at[w] \in {"munmapped", "panicked"} /\ ~mapped[w]
    /\ at[w] = "munmapped" => cold[w] \in {"hole", "foreign"}

Measuring == {"read", "unmapped", "munmapped", "released", "remapped"}

(***************************************************************************)
(* While a worker measures, the ledger has lost since its first reading    *)
(* what its own calls released, unless another worker or the kernel moved  *)
(* it.                                                                     *)
(***************************************************************************)
OpenDeltas ==
  \A w \in Workers :
    /\ at[w] \in Measuring /\ ~disturbed[w] =>
         led[w].before - FootprintOf(cold) = own[w]
    /\ at[w] = "measured" /\ ~disturbed[w] =>
         led[w].before - led[w].after = own[w]

SoakHostInv == SoakPressureInv /\ HostTypes /\ OpenPlaces /\ OpenDeltas

-----------------------------------------------------------------------------
\* The footprint is a number, and depends on the charged halves only.
LEMMA FootprintType ==
  ASSUME NEW c PROVE FootprintOf(c) \in Nat
<1>1. IsFiniteSet({w \in Workers : c[w] = "charged"})
  BY SoakHostAssumption, FS_Subset
<1>2. QED
  BY <1>1, FS_CardinalityType DEF FootprintOf

\* Two states with the same halves charged have the same footprint.
LEMMA FootprintSame ==
  ASSUME NEW c, NEW d,
         \A w \in Workers : c[w] = "charged" <=> d[w] = "charged"
  PROVE  FootprintOf(c) = FootprintOf(d)
<1>1. {w \in Workers : c[w] = "charged"} = {w \in Workers : d[w] = "charged"}
  OBVIOUS
<1>2. QED
  BY <1>1 DEF FootprintOf

\* The workers start with nothing measured and nothing unmapped.
LEMMA SoakHostInitInv == SoakHostInit => SoakHostInv
<1> SUFFICES ASSUME SoakHostInit PROVE SoakHostInv
  OBVIOUS
<1>1. SoakPressureInv
  BY SoakPressureInitInv DEF SoakHostInit
<1>2. HostTypes
  BY DEF SoakHostInit, HostTypes, NoReadings
<1>3. OpenPlaces /\ OpenDeltas
  BY DEF SoakHostInit, OpenPlaces, OpenDeltas, Measuring
<1>4. QED
  BY <1>1, <1>2, <1>3 DEF SoakHostInv

-----------------------------------------------------------------------------
(***************************************************************************)
(* A step of a worker, of another thread or of the kernel leaves what      *)
(* SoakPressure speaks of alone, every other one is a step of it: its      *)
(* inductive invariant carries over.                                       *)
(***************************************************************************)
LEMMA SoakHostStepIsSoakPressureStep ==
  [SoakHostNext]_soakHostVars => [SoakPressureNext]_soakPressureVars
<1> SUFFICES ASSUME [SoakHostNext]_soakHostVars
             PROVE  [SoakPressureNext]_soakPressureVars
  OBVIOUS
<1>1. CASE \E w \in Workers : Worker(w)
  BY <1>1 DEF Worker, InProcess
<1>2. CASE ForeignMmap
  BY <1>2 DEF ForeignMmap
<1>3. CASE KernelTakes \/ ChargeBack
  BY <1>3 DEF KernelTakes, ChargeBack
<1>4. CASE Beside
  BY <1>4 DEF Beside, SoakPressureNext
<1>5. CASE UNCHANGED soakHostVars
  BY <1>5 DEF soakHostVars
<1>6. QED
  BY <1>1, <1>2, <1>3, <1>4, <1>5 DEF SoakHostNext

\* The types, at every step of a worker.
LEMMA WorkerTypes ==
  ASSUME HostTypes, NEW w \in Workers, WorkerGoesOn(w) \/ Panic(w)
  PROVE  HostTypes'
<1> USE DEF HostTypes, Goes, NoReadings
<1>0. FootprintOf(cold) \in Nat /\ FootprintOf(cold') \in Nat
  BY FootprintType
<1>1. CASE Sweep(w)
  BY <1>1, SoakHostAssumption DEF Sweep, Written, Disturb, DisturbThese
<1>2. CASE ReadBefore(w)
  BY <1>0, <1>2 DEF ReadBefore
<1>3. CASE Unmap(w)
  BY <1>3 DEF Unmap, tallyVars
<1>4. CASE Madvise(w)
  BY <1>0, <1>4 DEF Madvise, Account, Disturb, DisturbThese
<1>5. CASE Munmap(w)
  BY <1>0, <1>5 DEF Munmap, Account, Disturb, DisturbThese
<1>6. CASE MmapFixed(w)
  BY <1>6 DEF MmapFixed, tallyVars
<1>7. CASE Remap(w)
  BY <1>7 DEF Remap, tallyVars
<1>8. CASE ReadAfter(w)
  BY <1>0, <1>8 DEF ReadAfter, tallyVars
<1>9. CASE Push(w)
  BY <1>9 DEF Push, Forget
<1>10. CASE Refill(w)
  BY <1>10 DEF Refill, Written, Disturb, DisturbThese
<1>11. CASE Finish(w)
  BY <1>11 DEF Finish, tallyVars
<1>12. CASE Panic(w)
  BY <1>12 DEF Panic, Forget
<1>13. QED
  BY <1>1, <1>2, <1>3, <1>4, <1>5, <1>6, <1>7, <1>8, <1>9, <1>10, <1>11, <1>12
  DEF WorkerGoesOn

\* Open places, at every step of a worker.
LEMMA WorkerPlaces ==
  ASSUME HostTypes, OpenPlaces, NEW w \in Workers, WorkerGoesOn(w) \/ Panic(w)
  PROVE  OpenPlaces'
<1> USE DEF HostTypes, OpenPlaces, Goes
<1>1. CASE Sweep(w)
  BY <1>1 DEF Sweep, Written
<1>2. CASE ReadBefore(w)
  BY <1>2 DEF ReadBefore
<1>3. CASE Unmap(w)
  BY <1>3 DEF Unmap
<1>4. CASE Madvise(w)
  BY <1>4 DEF Madvise
<1>5. CASE Munmap(w)
  BY <1>5 DEF Munmap
<1>6. CASE MmapFixed(w)
  BY <1>6 DEF MmapFixed
<1>7. CASE Remap(w)
  BY <1>7 DEF Remap
<1>8. CASE ReadAfter(w)
  BY <1>8 DEF ReadAfter
<1>9. CASE Push(w)
  BY <1>9 DEF Push
<1>10. CASE Refill(w)
  BY <1>10 DEF Refill, Written
<1>11. CASE Finish(w)
  BY <1>11 DEF Finish
<1>12. CASE Panic(w)
  BY <1>12 DEF Panic
<1>13. QED
  BY <1>1, <1>2, <1>3, <1>4, <1>5, <1>6, <1>7, <1>8, <1>9, <1>10, <1>11, <1>12
  DEF WorkerGoesOn

(***************************************************************************)
(* A step of one worker, seen by another: at, led and own of the other are *)
(* as they were, and if the ledger moved while the other measures, the     *)
(* other is disturbed.                                                     *)
(***************************************************************************)
LEMMA OthersUndisturbed ==
  ASSUME HostTypes, OpenPlaces, NEW w \in Workers, WorkerGoesOn(w) \/ Panic(w),
         NEW v \in Workers, v # w
  PROVE  /\ at'[v] = at[v] /\ led'[v] = led[v] /\ own'[v] = own[v]
         /\ ~disturbed'[v] =>
              /\ ~disturbed[v]
              /\ at[v] \in Measuring => FootprintOf(cold') = FootprintOf(cold)
<1> USE DEF HostTypes, Goes, Measuring
<1>1. CASE Sweep(w)
  BY <1>1 DEF Sweep, Disturb, DisturbThese
<1>2. CASE ReadBefore(w)
  BY <1>2 DEF ReadBefore
<1>3. CASE Unmap(w)
  BY <1>3 DEF Unmap, tallyVars
<1>4. CASE Madvise(w)
  BY <1>4 DEF Madvise, Account, Disturb, DisturbThese
<1>5. CASE Munmap(w)
  BY <1>5 DEF Munmap, Account, Disturb, DisturbThese
<1>6. CASE MmapFixed(w)
  <2>1. \A u \in Workers : cold'[u] = "charged" <=> cold[u] = "charged"
    BY <1>6 DEF MmapFixed, OpenPlaces
  <2>2. FootprintOf(cold') = FootprintOf(cold)
    BY <2>1, FootprintSame
  <2>3. QED
    BY <1>6, <2>2 DEF MmapFixed, tallyVars
<1>7. CASE Remap(w)
  BY <1>7 DEF Remap, tallyVars
<1>8. CASE ReadAfter(w)
  BY <1>8 DEF ReadAfter, tallyVars
<1>9. CASE Push(w)
  BY <1>9 DEF Push, Forget
<1>10. CASE Refill(w)
  BY <1>10 DEF Refill, Disturb, DisturbThese
<1>11. CASE Finish(w)
  BY <1>11 DEF Finish, tallyVars
<1>12. CASE Panic(w)
  BY <1>12 DEF Panic, Forget
<1>13. QED
  BY <1>1, <1>2, <1>3, <1>4, <1>5, <1>6, <1>7, <1>8, <1>9, <1>10, <1>11, <1>12
  DEF WorkerGoesOn

OpenDelta(w) ==
  /\ at[w] \in Measuring /\ ~disturbed[w] =>
       led[w].before - FootprintOf(cold) = own[w]
  /\ at[w] = "measured" /\ ~disturbed[w] =>
       led[w].before - led[w].after = own[w]

\* A worker's own step: its calls between the readings are accounted for.
LEMMA OwnDelta ==
  ASSUME HostTypes, OpenPlaces, NEW w \in Workers, OpenDelta(w),
         WorkerGoesOn(w) \/ Panic(w)
  PROVE  OpenDelta(w)'
<1> USE DEF HostTypes, Goes, Measuring, OpenDelta
<1>0. FootprintOf(cold) \in Nat /\ FootprintOf(cold') \in Nat
  BY FootprintType
<1>1. CASE Sweep(w)
  BY <1>1 DEF Sweep
<1>2. CASE ReadBefore(w)
  BY <1>0, <1>2 DEF ReadBefore
<1>3. CASE Unmap(w)
  BY <1>3 DEF Unmap, tallyVars
<1>4. CASE Madvise(w)
  BY <1>0, <1>4 DEF Madvise, Account, Disturb, DisturbThese
<1>5. CASE Munmap(w)
  BY <1>0, <1>5 DEF Munmap, Account, Disturb, DisturbThese
<1>6. CASE MmapFixed(w)
  <2>1. \A u \in Workers : cold'[u] = "charged" <=> cold[u] = "charged"
    BY <1>6 DEF MmapFixed, OpenPlaces
  <2>2. FootprintOf(cold') = FootprintOf(cold)
    BY <2>1, FootprintSame
  <2>3. QED
    BY <1>6, <2>2 DEF MmapFixed, tallyVars
<1>7. CASE Remap(w)
  BY <1>7 DEF Remap, tallyVars
<1>8. CASE ReadAfter(w)
  BY <1>0, <1>8 DEF ReadAfter, tallyVars
<1>9. CASE Push(w)
  BY <1>9 DEF Push
<1>10. CASE Refill(w)
  BY <1>10 DEF Refill
<1>11. CASE Finish(w)
  BY <1>11 DEF Finish
<1>12. CASE Panic(w)
  BY <1>12 DEF Panic
<1>13. QED
  BY <1>1, <1>2, <1>3, <1>4, <1>5, <1>6, <1>7, <1>8, <1>9, <1>10, <1>11, <1>12
  DEF WorkerGoesOn

\* Every step of the composed soak preserves the invariant.
LEMMA SoakHostStepInv ==
  SoakHostInv /\ [SoakHostNext]_soakHostVars => SoakHostInv'
<1> SUFFICES ASSUME SoakHostInv, [SoakHostNext]_soakHostVars
             PROVE  SoakHostInv'
  OBVIOUS
<1>1. SoakPressureInv'
  BY SoakHostStepIsSoakPressureStep, SoakPressureStepInv DEF SoakHostInv
<1>2. OpenDeltas <=> \A w \in Workers : OpenDelta(w)
  BY DEF OpenDeltas, OpenDelta
<1>3. ASSUME NEW w \in Workers, Worker(w)
      PROVE  HostTypes' /\ OpenPlaces' /\ OpenDeltas'
  <2>1. WorkerGoesOn(w) \/ Panic(w)
    BY <1>3 DEF Worker
  <2>2. HostTypes' /\ OpenPlaces'
    BY <2>1, WorkerTypes, WorkerPlaces DEF SoakHostInv
  <2>3. ASSUME NEW v \in Workers, v # w PROVE OpenDelta(v)'
    BY <1>2, <2>1, <2>3, OthersUndisturbed
    DEF SoakHostInv, OpenDelta, Measuring
  <2>4. OpenDelta(w)'
    BY <1>2, <2>1, OwnDelta DEF SoakHostInv
  <2>5. QED
    BY <2>2, <2>3, <2>4 DEF OpenDeltas, OpenDelta
<1>4. ASSUME ForeignMmap \/ KernelTakes
      PROVE  HostTypes' /\ OpenPlaces' /\ OpenDeltas'
  <2>1. \A w \in Workers : cold'[w] = "charged" <=> cold[w] = "charged"
    BY <1>4 DEF ForeignMmap, KernelTakes, SoakHostInv, HostTypes
  <2>2. FootprintOf(cold') = FootprintOf(cold)
    BY <2>1, FootprintSame
  <2>3. HostTypes' /\ OpenPlaces'
    BY <1>4 DEF ForeignMmap, KernelTakes, SoakHostInv, HostTypes, OpenPlaces,
                tallyVars
  <2>4. OpenDeltas'
    BY <1>4, <2>2 DEF ForeignMmap, KernelTakes, SoakHostInv, OpenDeltas,
                      Measuring, tallyVars
  <2>5. QED
    BY <2>3, <2>4
<1>5. ASSUME ChargeBack
      PROVE  HostTypes' /\ OpenPlaces' /\ OpenDeltas'
  <2>1. HostTypes' /\ OpenPlaces'
    BY <1>5 DEF ChargeBack, DisturbThese, SoakHostInv, HostTypes, OpenPlaces
  <2>2. ASSUME NEW w \in Workers PROVE OpenDelta(w)'
    <3>1. /\ at'[w] = at[w] /\ led'[w] = led[w] /\ own'[w] = own[w]
          /\ ~disturbed'[w] =>
               /\ ~disturbed[w]
               /\ at[w] \in Measuring => FootprintOf(cold') = FootprintOf(cold)
      BY <1>5 DEF ChargeBack, DisturbThese, Measuring
    <3>2. QED
      BY <1>2, <3>1 DEF SoakHostInv, OpenDelta, Measuring
  <2>3. QED
    BY <2>1, <2>2 DEF OpenDeltas, OpenDelta
<1>6. ASSUME UNCHANGED hostVars
      PROVE  HostTypes' /\ OpenPlaces' /\ OpenDeltas'
  <2>1. FootprintOf(cold') = FootprintOf(cold)
    BY <1>6 DEF hostVars
  <2>2. QED
    BY <1>6, <2>1 DEF hostVars, tallyVars, SoakHostInv, HostTypes, OpenPlaces,
                      OpenDeltas
<1>7. QED
  BY <1>1, <1>3, <1>4, <1>5, <1>6
  DEF SoakHostNext, Beside, soakHostVars, SoakHostInv

-----------------------------------------------------------------------------
\* The inductive invariant holds of every soak.
THEOREM SoakHostInvariant == SoakHostSpec => []SoakHostInv
<1>1. SoakHostInit => SoakHostInv
  BY SoakHostInitInv
<1>2. SoakHostInv /\ [SoakHostNext]_soakHostVars => SoakHostInv'
  BY SoakHostStepInv
<1>3. QED
  BY <1>1, <1>2, PTL DEF SoakHostSpec

\* No guest page of any worker is ever backed by a hole or by memory of
\* another thread (soak.rs, reclaim).
THEOREM GuestPagesAreOwned == SoakHostSpec => []GuestOwnsItsSlot
<1>1. SoakHostInv => GuestOwnsItsSlot
  BY DEF SoakHostInv, OpenPlaces, GuestOwnsItsSlot
<1>2. QED
  BY <1>1, SoakHostInvariant, PTL

\* A delta that neither another worker nor a charge-back of the kernel
\* disturbed is what the reclaim released, for any number of workers.
THEOREM QuietDeltasAreExact == SoakHostSpec => []QuietDeltaExact
<1>1. SoakHostInv => QuietDeltaExact
  BY DEF SoakHostInv, OpenDeltas, QuietDeltaExact
<1>2. QED
  BY <1>1, SoakHostInvariant, PTL

\* With any number of workers reclaiming beside the bursts, no generator is
\* left when the verdict is printed.
THEOREM SoakVerdictIsQuiet == SoakHostSpec => []NoPressureAfterVerdict
<1>1. SoakHostInv => NoPressureAfterVerdict
  BY DEF SoakHostInv, SoakPressureInv, Chain, ThreadOwnsGuard,
         NoPressureAfterVerdict
<1>2. QED
  BY <1>1, SoakHostInvariant, PTL
=============================================================================
