----------------------------- MODULE SoakProofs -----------------------------
(***************************************************************************)
(* Proofs for the soak's workers.  Slots do not overlap, so what a worker  *)
(* finds in its pages is settled by its own passes, by the marks it has    *)
(* set itself and by the faults; a word that was lost stays behind the     *)
(* sweeps until a verify counts it.                                        *)
(***************************************************************************)
EXTENDS Soak, TLAPS

\* The j-th word of a worker's hot and of its cold half.
Pages == 0..HalfPages - 1
Hot(k, j) == HotStart(k) + j * PageUnits
Cold(k, j) == ColdStart(k) + j * PageUnits

-----------------------------------------------------------------------------
(* The inductive invariant. *)

Away == {"release", "refill", "map"}
Rechecking == {"check", "sleep", "recheck"}
AfterHot == {"cold", "unmap", "fill"} \cup Away \cup Rechecking

\* A worker's registers and locals, where it is.
Local(k) ==
  /\ at[k] \notin Passes \cup {"panicked"} => cur[k] = 0
  /\ x5[k] # None => at[k] \in Sweeping /\ cur[k] < HalfPages
  /\ at[k] \in Verifying => x4[k] <= cur[k]
  /\ at[k] \in {"plant", "find", "clean"} => k = 0
  /\ at[k] \in {"hot", "hotcheck"} =>
       round[k] < HOT_SWEEPS_PER_CYCLE /\ cycle[k] < MaxCycles
  /\ at[k] \in {"create", "hot0"} <=> hot_sweeps[k] = 0
  /\ at[k] \in AfterHot => cycle[k] >= 1

\* Its words in the guest's tables, and the marks on them.
Mapped(k) ==
  \A j \in Pages :
    /\ Hot(k, j) \in stage2 /\ Hot(k, j) \notin marked
    /\ at[k] \notin Away => Cold(k, j) \in stage2
    /\ Cold(k, j) \in marked => at[k] = "map" \/ (at[k] = "fill" /\ cur[k] <= j)

(***************************************************************************)
(* A hot word is never ahead of the sweeps, it is behind when a loss is    *)
(* due, and it is exactly there when nothing was lost.  During the         *)
(* self-test the victim's own word is the saved one.                       *)
(***************************************************************************)
Goal(k, j) ==
  hot_sweeps[k] + IF at[k] \in {"hot0", "hot"} /\ j < cur[k] THEN 1 ELSE 0
Own(k, j) == IF at[k] = "find" /\ j = 1 THEN saved ELSE val[Hot(k, j)]
Holding(k, j) == at[k] \in {"hot0", "hot"} /\ x5[k] # None /\ j = cur[k]

HotRight(k) ==
  \A j \in Pages :
    /\ Own(k, j) <= Goal(k, j)
    /\ Holding(k, j) => x5[k] <= hot_sweeps[k]
    /\ Hot(k, j) \in due =>
         /\ Own(k, j) < Goal(k, j)
         /\ Holding(k, j) => x5[k] < hot_sweeps[k]
    /\ lost = {} =>
         /\ Own(k, j) = Goal(k, j)
         /\ Holding(k, j) => x5[k] = hot_sweeps[k]
         /\ at[k] = "find" /\ j = 1 => val[Hot(k, j)] = saved + Garbage

\* A cold word has its stamp from the fill on, unless it was lost.
ColdRight(k) ==
  \A j \in Pages :
    /\ lost = {} /\ (at[k] \in Rechecking \/ (at[k] = "fill" /\ j < cur[k])) =>
         val[Cold(k, j)] = Stamp(k)
    /\ Cold(k, j) \in due =>
         stats.mismatches > 0 \/ (at[k] \in Rechecking /\ val[Cold(k, j)] # Stamp(k))

\* What a verify has counted.
Counted(k) ==
  /\ lost = {} =>
       /\ at[k] \in Verifying \ {"find"} => x4[k] = 0
       /\ at[k] = "find" => x4[k] = IF cur[k] > 1 THEN 1 ELSE 0
  /\ \A j \in Pages :
       /\ Hot(k, j) \in due /\ at[k] \in AfterHot => stats.mismatches > 0
       /\ Hot(k, j) \in due /\ at[k] = "hotcheck" /\ j < cur[k] => x4[k] > 0
       /\ Cold(k, j) \in due /\ at[k] = "recheck" /\ j < cur[k] =>
            x4[k] > 0 \/ stats.mismatches > 0

\* A worker panics only on a loss, or at a slot that is not whole pages.
Survives(k) == lost = {} /\ Aligned(k) => at[k] # "panicked"

WorkerInv(k) ==
  Local(k) /\ Mapped(k) /\ HotRight(k) /\ ColdRight(k) /\ Counted(k) /\ Survives(k)

Clean == lost = {} => stats.mismatches = 0

SoakInv == SoakTypeOK /\ Clean /\ \A k \in Worker : WorkerInv(k)

-----------------------------------------------------------------------------
(* The split of guest RAM. *)

\* Division, with a remainder.
LEMMA DivMod ==
  ASSUME NEW a \in Nat, NEW b \in Nat, b > 0
  PROVE  /\ a \div b \in Nat /\ a % b \in Nat /\ a % b < b
         /\ a = b * (a \div b) + (a % b)
OBVIOUS

\* Products keep the order.
LEMMA TimesMonotone ==
  ASSUME NEW a \in Nat, NEW b \in Nat, NEW c \in Nat, a <= b
  PROVE  a * c <= b * c /\ a * c \in Nat
OBVIOUS

\* The halves are whole pages, at least two each, and fit into the slot.
LEMMA Layout ==
  /\ slot \in Nat /\ half \in Nat /\ HalfPages \in Nat
  /\ HalfPages >= 2
  /\ HalfPages * PageUnits = half
  /\ half + half <= slot
  /\ Vcpus * slot <= RamUnits
<1> USE SoakAssumption
<1> DEFINE P == PageUnits
           q == slot \div 2
<1>1. slot \in Nat /\ Vcpus * slot <= RamUnits
  BY DivMod DEF slot
<1>2. q \in Nat /\ q + q <= slot
  BY <1>1
<1>3. q >= 2 * P
  BY <1>1, SlotAssumption
<1> HIDE DEF q
<1>4. /\ q \div P \in Nat /\ q % P \in Nat /\ q % P < P
      /\ q = P * (q \div P) + (q % P)
  BY <1>2, DivMod
<1>5. half = P * (q \div P)
  BY <1>2, <1>4 DEF half, q
<1>6. half \in Nat /\ half + half <= slot
  BY <1>1, <1>2, <1>4, <1>5
<1>7. /\ HalfPages \in Nat /\ half % P \in Nat /\ half % P < P
      /\ half = P * HalfPages + (half % P)
  BY <1>6, DivMod DEF HalfPages
<1>8. HalfPages = q \div P
  <2> DEFINE a == HalfPages
             b == q \div P
             r == half % P
  <2>1. a \in Nat /\ b \in Nat /\ r \in Nat /\ r < P /\ P * b = P * a + r
    BY <1>4, <1>5, <1>7
  <2> HIDE DEF a, b, r
  <2>2. ~(a < b)
    <3>1. ASSUME a < b PROVE FALSE
      <4>1. (a + 1) * P <= b * P
        BY <2>1, <3>1, TimesMonotone
      <4>2. QED
        BY <2>1, <4>1
    <3>2. QED
      BY <3>1
  <2>3. ~(b < a)
    <3>1. ASSUME b < a PROVE FALSE
      <4>1. (b + 1) * P <= a * P
        BY <2>1, <3>1, TimesMonotone
      <4>2. QED
        BY <2>1, <4>1
    <3>2. QED
      BY <3>1
  <2>4. a = b
    BY <2>1, <2>2, <2>3
  <2>5. QED
    BY <2>4 DEF a, b
<1>9. HalfPages >= 2
  <2>1. ASSUME q \div P < 2 PROVE FALSE
    <3>1. (q \div P) * P <= 1 * P
      BY <1>4, <2>1, TimesMonotone
    <3>2. QED
      BY <1>3, <1>4, <3>1
  <2>2. QED
    BY <1>4, <1>8, <2>1
<1>10. HalfPages * P = half
  BY <1>4, <1>5, <1>8
<1>11. QED
  BY <1>1, <1>6, <1>7, <1>9, <1>10

\* Where a page begins in its half.
LEMMA PageOffset ==
  ASSUME NEW i \in Pages, NEW j \in Pages
  PROVE  /\ i * PageUnits \in Nat
         /\ i * PageUnits < half
         /\ i * PageUnits = j * PageUnits => i = j
<1> USE SoakAssumption
<1>1. i \in Nat /\ j \in Nat /\ i + 1 <= HalfPages /\ HalfPages \in Nat
  BY Layout DEF Pages
<1>2. (i + 1) * PageUnits <= HalfPages * PageUnits /\ i * PageUnits \in Nat
  BY <1>1, TimesMonotone
<1>3. i * PageUnits < half
  BY <1>1, <1>2, Layout
<1>4. ASSUME NEW a \in Nat, NEW b \in Nat, a < b
      PROVE  a * PageUnits # b * PageUnits
  <2>1. (a + 1) * PageUnits <= b * PageUnits
    BY <1>4, TimesMonotone
  <2>2. QED
    BY <2>1
<1>5. QED
  BY <1>1, <1>2, <1>3, <1>4

\* The slots follow one another and end in guest RAM.
LEMMA SlotOffset ==
  ASSUME NEW k \in Worker, NEW l \in Worker
  PROVE  /\ k * slot \in Nat
         /\ k * slot + slot <= RamUnits
         /\ k < l => k * slot + slot <= l * slot
         /\ k = l \/ k < l \/ l < k
<1> USE SoakAssumption
<1>1. k \in Nat /\ l \in Nat /\ k + 1 <= Vcpus /\ slot \in Nat
  BY Layout DEF Worker
<1>2. (k + 1) * slot <= Vcpus * slot /\ k * slot \in Nat
  BY <1>1, TimesMonotone
<1>3. (k + 1) * slot = k * slot + slot
  BY <1>1
<1>4. ASSUME k < l PROVE (k + 1) * slot <= l * slot
  BY <1>1, <1>4, TimesMonotone
<1>5. Vcpus * slot \in Nat /\ Vcpus * slot <= RamUnits
  BY <1>1, Layout
<1>6. QED
  BY <1>1, <1>2, <1>3, <1>4, <1>5

\* No two words of the soak are one, and a cold half holds its own words only.
LEMMA Geometry ==
  ASSUME NEW k \in Worker, NEW l \in Worker, NEW i \in Pages, NEW j \in Pages
  PROVE  /\ Hot(k, i) \in Unit /\ Cold(k, i) \in Unit
         /\ Hot(k, i) = Hot(l, j) => k = l /\ i = j
         /\ Cold(k, i) = Cold(l, j) => k = l /\ i = j
         /\ Hot(k, i) # Cold(l, j)
         /\ Cold(k, i) \in ColdRange(l) <=> k = l
         /\ Hot(k, i) \notin ColdRange(l)
<1> DEFINE S == slot
           H == half
           a == i * PageUnits
           b == j * PageUnits
           c == k * slot
           d == l * slot
<1>1. S \in Nat /\ H \in Nat /\ H + H <= S /\ RamUnits \in Nat
  BY Layout, SoakAssumption
<1>2. /\ a \in Nat /\ b \in Nat /\ a < H /\ b < H
      /\ a = b => i = j
  BY PageOffset
<1>3. /\ c \in Nat /\ d \in Nat
      /\ c + S <= RamUnits
      /\ k < l => c + S <= d
      /\ l < k => d + S <= c
      /\ k = l => c = d
      /\ k = l \/ k < l \/ l < k
  BY SlotOffset
<1>4. /\ Hot(k, i) = c + a /\ Hot(l, j) = d + b
      /\ Cold(k, i) = c + H + a /\ Cold(l, j) = d + H + b
      /\ ColdRange(l) = (d + H)..(d + H + H - 1)
  BY DEF Hot, Cold, HotStart, ColdStart, ColdRange
<1> HIDE DEF S, H, a, b, c, d
<1>5. Hot(k, i) \in Unit /\ Cold(k, i) \in Unit
  BY <1>1, <1>2, <1>3, <1>4 DEF Unit
<1>6. /\ Hot(k, i) = Hot(l, j) => k = l /\ i = j
      /\ Cold(k, i) = Cold(l, j) => k = l /\ i = j
      /\ Hot(k, i) # Cold(l, j)
  BY <1>1, <1>2, <1>3, <1>4
<1>7. /\ Cold(k, i) \in ColdRange(l) <=> k = l
      /\ Hot(k, i) \notin ColdRange(l)
  BY <1>1, <1>2, <1>3, <1>4
<1>8. QED
  BY <1>5, <1>6, <1>7

\* The words as the model names them.
LEMMA Words ==
  ASSUME NEW k \in Worker
  PROVE  /\ \A a : a \in HotWords(k) <=> \E j \in Pages : a = Hot(k, j)
         /\ \A a : a \in ColdWords(k) <=> \E j \in Pages : a = Cold(k, j)
         /\ Word(k) = IF at[k] \in OnHot THEN Hot(k, cur[k]) ELSE Cold(k, cur[k])
         /\ Victim = Hot(0, 1)
         /\ 1 \in Pages /\ 0 \in Worker
<1>1. /\ \A a : a \in HotWords(k) <=> \E j \in Pages : a = Hot(k, j)
      /\ \A a : a \in ColdWords(k) <=> \E j \in Pages : a = Cold(k, j)
  BY DEF HotWords, ColdWords, Hot, Cold, Pages
<1>2. Word(k) = IF at[k] \in OnHot THEN Hot(k, cur[k]) ELSE Cold(k, cur[k])
  BY DEF Word, Hot, Cold
<1>3. Victim = Hot(0, 1)
  BY SoakAssumption DEF Victim, Hot
<1>4. 1 \in Pages /\ 0 \in Worker
  BY Layout, SoakAssumption DEF Pages, Worker
<1>5. QED
  BY <1>1, <1>2, <1>3, <1>4

-----------------------------------------------------------------------------
(* Steps that leave a worker alone. *)

\* What a step of somebody else leaves as it is, for worker k.
SameLocals(k) ==
  /\ at'[k] = at[k] /\ cur'[k] = cur[k] /\ x4'[k] = x4[k] /\ x5'[k] = x5[k]
  /\ round'[k] = round[k] /\ hot_sweeps'[k] = hot_sweeps[k] /\ cycle'[k] = cycle[k]
  /\ at[k] = "find" => saved' = saved
SameWords(k) ==
  \A j \in Pages :
    /\ val'[Hot(k, j)] = val[Hot(k, j)] /\ val'[Cold(k, j)] = val[Cold(k, j)]
    /\ Hot(k, j) \in due' => Hot(k, j) \in due
    /\ Cold(k, j) \in due' => Cold(k, j) \in due
SameMaps(k) ==
  \A j \in Pages :
    /\ Hot(k, j) \in stage2 => Hot(k, j) \in stage2'
    /\ Cold(k, j) \in stage2 => Cold(k, j) \in stage2'
    /\ Hot(k, j) \in marked' => Hot(k, j) \in marked
    /\ Cold(k, j) \in marked' => Cold(k, j) \in marked
NotLess ==
  /\ stats.mismatches \in Nat /\ stats'.mismatches \in Nat
  /\ stats'.mismatches >= stats.mismatches
  /\ lost' = {} => lost = {}

\* A worker whose registers, words and tables are left alone keeps its invariant.
LEMMA Untouched ==
  ASSUME NEW k \in Worker, WorkerInv(k), SameLocals(k), SameWords(k), SameMaps(k), NotLess
  PROVE  WorkerInv(k)'
<1> USE DEF SameLocals
<1>1. Local(k)'
  BY DEF WorkerInv, Local
<1>2. Mapped(k)'
  BY DEF WorkerInv, Mapped, SameMaps
<1>3. \A j \in Pages : /\ Own(k, j)' = Own(k, j)
                       /\ Goal(k, j)' = Goal(k, j)
                       /\ Holding(k, j)' <=> Holding(k, j)
  BY DEF Own, Goal, Holding, SameWords
<1>4. HotRight(k)'
  BY <1>3 DEF WorkerInv, HotRight, SameWords, NotLess
<1>5. Stamp(k)' = Stamp(k)
  BY DEF Stamp
<1>6. ColdRight(k)'
  BY <1>5 DEF WorkerInv, ColdRight, SameWords, NotLess
<1>7. Counted(k)'
  BY DEF WorkerInv, Counted, SameWords, NotLess
<1>8. Survives(k)'
  BY DEF WorkerInv, Survives, NotLess, Aligned
<1>9. QED
  BY <1>1, <1>2, <1>4, <1>6, <1>7, <1>8 DEF WorkerInv

\* A pass accesses a word of its worker, and finds it mapped.
LEMMA PassWord ==
  ASSUME SoakTypeOK, NEW k \in Worker, WorkerInv(k), InPass(k)
  PROVE  /\ cur[k] \in Pages
         /\ Word(k) \in stage2 /\ Word(k) \in Unit
<1>1. cur[k] \in Pages
  BY Layout DEF SoakTypeOK, InPass, Pages
<1>2. Hot(k, cur[k]) \in stage2 /\ Cold(k, cur[k]) \in stage2
  BY <1>1 DEF WorkerInv, Mapped, InPass, Away, Passes, Sweeping, Verifying
<1>3. QED
  BY <1>1, <1>2, Geometry, Words

\* The steps of a worker: those that touch no memory, and the others.
Registers(k) ==
  \/ CreateVcpu(k) \/ SweepLoad(k) \/ Verify(k) \/ FirstSwept(k) \/ Cleaned(k)
  \/ Loop(k) \/ HotSwept(k) \/ HotChecked(k) \/ ColdSwept(k) \/ Munmap(k)
  \/ Filled(k) \/ Checked(k) \/ Slept(k) \/ Rechecked(k) \/ Destroy(k)

\* A pass never meets a word that is not mapped, so these are all of them.
LEMMA WorkerSteps ==
  ASSUME SoakTypeOK, NEW k \in Worker, WorkerInv(k), WorkerStep(k)
  PROVE  \/ Registers(k)
         \/ SweepStore(k) \/ Fill(k) \/ Plant(k) \/ Found(k) \/ Unmap(k)
         \/ Madvise(k) \/ MmapFixed(k) \/ Map(k)
<1>1. GuestPass(k) => SweepLoad(k) \/ SweepStore(k) \/ Fill(k) \/ Verify(k)
  BY PassWord DEF GuestPass
<1>2. QED
  BY <1>1 DEF WorkerStep, SelfTest, Reclaim, Registers

\* The verifies of the loop add what they counted, and nothing takes away.
LEMMA NeverLess ==
  ASSUME SoakTypeOK, [SoakNext]_soakVars
  PROVE  NotLess
<1>1. stats.mismatches \in Nat /\ \A k \in Worker : x4[k] \in Nat
  BY Layout DEF SoakTypeOK
<1> USE DEF NotLess
<1>2. ASSUME NEW k \in Worker, WorkerStep(k) PROVE NotLess
  <2>1. lost' = lost
    BY <1>2
    DEF WorkerStep, CreateVcpu, GuestPass, SweepLoad, SweepStore, Fill, Verify, FirstSwept,
        SelfTest, Plant, Found, Cleaned, Loop, HotSwept, HotChecked, ColdSwept, Reclaim,
        Unmap, Madvise, Munmap, MmapFixed, Map, Filled, Checked, Slept, Rechecked,
        Destroy, historyVars
  <2>2. \/ stats'.mismatches = stats.mismatches
        \/ stats'.mismatches = stats.mismatches + x4[k]
    <3>1. \/ stats' = stats
          \/ stats' = [stats EXCEPT !.sweeps = @ + 1]
          \/ stats' = [stats EXCEPT !.reclaims = @ + 1]
          \/ Count(k)
      BY <1>2
      DEF WorkerStep, CreateVcpu, GuestPass, SweepLoad, SweepStore, Fill, Verify,
          FirstSwept, SelfTest, Plant, Found, Cleaned, Loop, HotSwept, HotChecked,
          ColdSwept, Reclaim, Unmap, Madvise, Munmap, MmapFixed, Map, Filled, Checked,
          Slept, Rechecked, Destroy
    <3>2. QED
      BY <3>1 DEF Count, SoakTypeOK
  <2>3. QED
    BY <1>1, <1>2, <2>1, <2>2
<1>3. CASE DeadlinePasses \/ Verdict \/ UNCHANGED soakVars
  BY <1>1, <1>3 DEF DeadlinePasses, Verdict, soakVars, historyVars
<1>4. CASE Kernel
  <2>1. stats' = stats
    BY <1>4 DEF Kernel, Take, ZeroLive, LeftOver
  <2>2. lost \subseteq lost'
    BY <1>4 DEF Kernel, Take, ZeroLive, LeftOver, historyVars
  <2>3. QED
    BY <1>1, <2>1, <2>2
<1>5. QED
  BY <1>2, <1>3, <1>4 DEF SoakNext

\* A worker's step leaves the other workers alone.
LEMMA OthersAlone ==
  ASSUME SoakTypeOK, NEW w \in Worker, WorkerInv(w), WorkerStep(w),
         NEW k \in Worker, k # w, WorkerInv(k)
  PROVE  SameLocals(k) /\ SameWords(k) /\ SameMaps(k)
<1>0. /\ at \in [Worker -> Label] /\ val \in [Unit -> Nat]
      /\ DOMAIN at = Worker /\ DOMAIN cur = Worker /\ DOMAIN x4 = Worker
      /\ DOMAIN x5 = Worker /\ DOMAIN round = Worker
      /\ DOMAIN hot_sweeps = Worker /\ DOMAIN cycle = Worker
  BY DEF SoakTypeOK
<1>1. /\ at'[k] = at[k] /\ cur'[k] = cur[k] /\ x4'[k] = x4[k] /\ x5'[k] = x5[k]
      /\ round'[k] = round[k] /\ hot_sweeps'[k] = hot_sweeps[k] /\ cycle'[k] = cycle[k]
  BY <1>0, WorkerSteps
  DEF Registers, CreateVcpu, SweepLoad, SweepStore, Fill, Verify, FirstSwept, Plant,
      Found, Cleaned, Loop, HotSwept, HotChecked, ColdSwept, Unmap, Madvise, Munmap,
      MmapFixed, Map, Filled, Checked, Slept, Rechecked, Destroy, Go, PassDone, Advance,
      Store, ClearX4
<1>2. due' = due
  BY WorkerSteps
  DEF Registers, CreateVcpu, SweepLoad, SweepStore, Fill, Verify, FirstSwept, Plant,
      Found, Cleaned, Loop, HotSwept, HotChecked, ColdSwept, Unmap, Madvise, Munmap,
      MmapFixed, Map, Filled, Checked, Slept, Rechecked, Destroy, historyVars
<1>3. CASE Registers(w)
  <2>1. UNCHANGED <<val, stage2, marked, saved>>
    BY <1>3
    DEF Registers, CreateVcpu, SweepLoad, Verify, FirstSwept, Cleaned, Loop, HotSwept,
        HotChecked, ColdSwept, Munmap, Filled, Checked, Slept, Rechecked, Destroy, memVars
  <2>2. QED
    BY <1>1, <1>2, <2>1 DEF SameLocals, SameWords, SameMaps
<1>4. CASE SweepStore(w) \/ Fill(w)
  <2>1. /\ UNCHANGED <<stage2, saved>> /\ marked' \subseteq marked
        /\ \E v : val' = [val EXCEPT ![Word(w)] = v]
        /\ InPass(w)
    BY <1>4 DEF SweepStore, Fill, Store
  <2>2. \A j \in Pages : Hot(k, j) # Word(w) /\ Cold(k, j) # Word(w)
    BY <2>1, PassWord, Words, Geometry
  <2>3. \A j \in Pages : /\ val'[Hot(k, j)] = val[Hot(k, j)]
                         /\ val'[Cold(k, j)] = val[Cold(k, j)]
    BY <1>0, <2>1, <2>2, Geometry
  <2>4. QED
    BY <1>1, <1>2, <2>1, <2>3 DEF SameLocals, SameWords, SameMaps
<1>5. CASE Plant(w) \/ Found(w)
  <2>1. /\ UNCHANGED <<stage2, marked>>
        /\ \E v : val' = [val EXCEPT ![Victim] = v]
        /\ w = 0
    BY <1>5 DEF Plant, Found, WorkerInv, Local
  <2>2. \A j \in Pages : Hot(k, j) # Victim /\ Cold(k, j) # Victim
    BY <2>1, Words, Geometry
  <2>3. \A j \in Pages : /\ val'[Hot(k, j)] = val[Hot(k, j)]
                         /\ val'[Cold(k, j)] = val[Cold(k, j)]
    BY <1>0, <2>1, <2>2, Geometry
  <2>4. at[k] # "find"
    BY <2>1 DEF WorkerInv, Local
  <2>5. QED
    BY <1>1, <1>2, <2>1, <2>3, <2>4 DEF SameLocals, SameWords, SameMaps
<1>6. CASE Unmap(w) \/ Madvise(w) \/ MmapFixed(w) \/ Map(w)
  <2>1. \A j \in Pages : /\ Hot(k, j) \notin ColdRange(w) /\ Cold(k, j) \notin ColdRange(w)
                         /\ Hot(k, j) \notin ColdWords(w) /\ Cold(k, j) \notin ColdWords(w)
                         /\ Hot(k, j) \in Unit /\ Cold(k, j) \in Unit
    BY Words, Geometry
  <2>2. saved' = saved
    BY <1>6 DEF Unmap, Madvise, MmapFixed, Map
  <2>3. SameWords(k)
    BY <1>0, <1>2, <1>6, <2>1 DEF Unmap, Madvise, MmapFixed, Map, SameWords
  <2>4. SameMaps(k)
    BY <1>0, <1>6, <2>1 DEF Unmap, Madvise, MmapFixed, Map, SameMaps
  <2>5. QED
    BY <1>1, <2>2, <2>3, <2>4 DEF SameLocals
<1>7. QED
  BY <1>3, <1>4, <1>5, <1>6, WorkerSteps

-----------------------------------------------------------------------------
(* A worker's own step. *)

\* The types of what a worker's step works on.
LEMMA OwnTypes ==
  ASSUME SoakTypeOK, NEW k \in Worker
  PROVE  /\ at \in [Worker -> Label] /\ cur \in [Worker -> Nat] /\ x4 \in [Worker -> Nat]
         /\ x5 \in [Worker -> Nat \cup {None}] /\ round \in [Worker -> Nat]
         /\ hot_sweeps \in [Worker -> Nat] /\ cycle \in [Worker -> Nat]
         /\ val \in [Unit -> Nat] /\ saved \in Nat
         /\ cur[k] <= HalfPages /\ cycle[k] <= MaxCycles
         /\ Stamp(k) \in Nat
         /\ stats \in [sweeps : Nat, page_checks : Nat, mismatches : Nat, reclaims : Nat]
<1>1. k * StampBase \in Nat
  BY SoakAssumption DEF Worker
<1>2. QED
  BY <1>1, Layout, SoakAssumption DEF SoakTypeOK, Stamp

\* A worker's registers and locals follow its way through the loop.
LEMMA LocalStep ==
  ASSUME SoakTypeOK, NEW k \in Worker, WorkerInv(k), WorkerStep(k)
  PROVE  Local(k)'
<1>0. /\ at \in [Worker -> Label] /\ cur \in [Worker -> Nat] /\ x4 \in [Worker -> Nat]
      /\ x5 \in [Worker -> Nat \cup {None}] /\ round \in [Worker -> Nat]
      /\ hot_sweeps \in [Worker -> Nat] /\ cycle \in [Worker -> Nat]
      /\ HalfPages \in Nat /\ HalfPages >= 2
      /\ HOT_SWEEPS_PER_CYCLE \in Nat /\ HOT_SWEEPS_PER_CYCLE > 0 /\ MaxCycles \in Nat
      /\ Local(k)
  BY OwnTypes, Layout, SoakAssumption DEF WorkerInv
<1>1. cur[k] <= HalfPages
  BY OwnTypes
<1> USE DEF Local, Go, PassDone, Advance, ClearX4, Passes, Sweeping, Verifying, AfterHot,
            Away, Rechecking
<1>2. CASE CreateVcpu(k) \/ FirstSwept(k) \/ Cleaned(k) \/ Loop(k) \/ Destroy(k)
  BY <1>0, <1>2 DEF CreateVcpu, FirstSwept, Cleaned, Loop, Destroy
<1>3. CASE SweepLoad(k) \/ SweepStore(k) \/ Verify(k) \/ Fill(k)
  BY <1>0, <1>1, <1>3 DEF SweepLoad, SweepStore, Verify, Fill, Store, InPass, None
<1>4. CASE HotSwept(k) \/ HotChecked(k) \/ ColdSwept(k)
  BY <1>0, <1>4 DEF HotSwept, HotChecked, ColdSwept
<1>5. CASE Munmap(k) \/ Filled(k) \/ Checked(k) \/ Slept(k) \/ Rechecked(k)
  BY <1>0, <1>5 DEF Munmap, Filled, Checked, Slept, Rechecked
<1>6. CASE Plant(k) \/ Found(k)
  BY <1>0, <1>6 DEF Plant, Found
<1>7. CASE Unmap(k) \/ Madvise(k) \/ MmapFixed(k) \/ Map(k)
  BY <1>0, <1>7 DEF Unmap, Madvise, MmapFixed, Map
<1>8. QED
  BY <1>2, <1>3, <1>4, <1>5, <1>6, <1>7, WorkerSteps DEF Registers

\* The tables and the marks of its own words.
LEMMA MappedStep ==
  ASSUME SoakTypeOK, NEW k \in Worker, WorkerInv(k), WorkerStep(k)
  PROVE  Mapped(k)'
<1>0. /\ at \in [Worker -> Label] /\ cur \in [Worker -> Nat]
      /\ HalfPages \in Nat /\ HalfPages >= 2
      /\ Local(k) /\ Mapped(k)
  BY OwnTypes, Layout, SoakAssumption DEF WorkerInv
<1>1. \A j \in Pages :
        /\ Hot(k, j) \notin ColdRange(k) /\ Cold(k, j) \in ColdRange(k)
        /\ Hot(k, j) \notin ColdWords(k) /\ Cold(k, j) \in ColdWords(k)
        /\ j \in Nat /\ j < HalfPages
  BY Geometry, Words, Layout DEF Pages
<1> USE DEF Mapped, Go, PassDone, Advance, Away
<1>2. CASE Registers(k) \/ Plant(k) \/ Found(k)
  <2>1. UNCHANGED <<stage2, marked>>
    BY <1>2
    DEF Registers, CreateVcpu, SweepLoad, Verify, FirstSwept, Cleaned, Loop, HotSwept,
        HotChecked, ColdSwept, Munmap, Filled, Checked, Slept, Rechecked, Destroy, memVars,
        Plant, Found
  <2>2. \/ at'[k] \notin {"map", "fill"} /\ at[k] \notin Away \cup {"fill"}
        \/ at[k] = "release" /\ at'[k] = "refill"
        \/ at[k] = "fill" /\ at'[k] = "check" /\ cur[k] = HalfPages
    BY <1>0, <1>2
    DEF Registers, CreateVcpu, SweepLoad, Verify, FirstSwept, Cleaned, Loop, HotSwept,
        HotChecked, ColdSwept, Munmap, Filled, Checked, Slept, Rechecked, Destroy, Plant,
        Found, Sweeping, Verifying
  <2>3. QED
    BY <1>0, <1>1, <2>1, <2>2
<1>3. CASE SweepStore(k)
  BY <1>0, <1>3 DEF SweepStore, Store, Sweeping
<1>4. CASE Fill(k)
  <2>1. Word(k) = Cold(k, cur[k])
    BY <1>4, Words DEF Fill, OnHot
  <2>2. /\ UNCHANGED <<stage2, at>> /\ cur'[k] = cur[k] + 1 /\ at[k] = "fill"
        /\ marked' = marked \ {Cold(k, cur[k])}
    BY <1>0, <1>4, <2>1 DEF Fill, Store
  <2>3. QED
    BY <1>0, <1>1, <2>2
<1>5. CASE Unmap(k)
  BY <1>0, <1>1, <1>5 DEF Unmap
<1>6. CASE Madvise(k) \/ MmapFixed(k)
  BY <1>0, <1>1, <1>6 DEF Madvise, MmapFixed
<1>7. CASE Map(k)
  <2>1. cur[k] = 0
    BY <1>0, <1>7 DEF Map, Local, Passes, Sweeping, Verifying
  <2>2. QED
    BY <1>0, <1>1, <1>7, <2>1 DEF Map
<1>8. QED
  BY <1>2, <1>3, <1>4, <1>5, <1>6, <1>7, WorkerSteps

\* No worker's step changes what was lost.
LEMMA NothingLost ==
  ASSUME SoakTypeOK, NEW k \in Worker, WorkerInv(k), WorkerStep(k)
  PROVE  lost' = lost /\ due' = due
BY WorkerSteps
DEF Registers, CreateVcpu, SweepLoad, SweepStore, Fill, Verify, FirstSwept, Plant,
    Found, Cleaned, Loop, HotSwept, HotChecked, ColdSwept, Unmap, Madvise, Munmap,
    MmapFixed, Map, Filled, Checked, Slept, Rechecked, Destroy, historyVars

\* Every sweep takes every hot word one further, and the self-test leaves the
\* victim as it was.
LEMMA HotStep ==
  ASSUME SoakTypeOK, NEW k \in Worker, WorkerInv(k), WorkerStep(k)
  PROVE  HotRight(k)'
<1>0. /\ at \in [Worker -> Label] /\ cur \in [Worker -> Nat]
      /\ x5 \in [Worker -> Nat \cup {None}] /\ hot_sweeps \in [Worker -> Nat]
      /\ val \in [Unit -> Nat] /\ saved \in Nat
      /\ cur[k] <= HalfPages /\ HalfPages \in Nat /\ Garbage \in Nat
      /\ Local(k) /\ HotRight(k)
      /\ lost' = lost /\ due' = due
  BY OwnTypes, Layout, SoakAssumption, NothingLost DEF WorkerInv
<1>1. \A j \in Pages :
        /\ Hot(k, j) \in Unit /\ Hot(k, j) \notin ColdRange(k)
        /\ j \in Nat /\ j < HalfPages
        /\ \A i \in Pages : Hot(k, i) # Cold(k, j) /\ (Hot(k, i) = Hot(k, j) => i = j)
  BY Geometry, Layout DEF Pages
<1>2. ASSUME /\ hot_sweeps' = hot_sweeps
             /\ \A j \in Pages : val'[Hot(k, j)] = val[Hot(k, j)]
             /\ saved' = saved
             /\ at'[k] = "find" <=> at[k] = "find"
             /\ at'[k] \in {"hot0", "hot"} =>
                  \/ at[k] = at'[k] /\ cur'[k] = cur[k] /\ x5'[k] = x5[k]
                  \/ at[k] \notin {"hot0", "hot"} /\ cur'[k] = 0 /\ x5'[k] = None
             /\ at[k] \in {"hot0", "hot"} => at'[k] = at[k]
      PROVE  HotRight(k)'
  <2>1. \A j \in Pages : Goal(k, j)' = Goal(k, j)
    BY <1>0, <1>1, <1>2 DEF Goal
  <2>2. \A j \in Pages : Own(k, j)' = Own(k, j)
    BY <1>2 DEF Own
  <2>3. \A j \in Pages : Holding(k, j)' => Holding(k, j) /\ x5'[k] = x5[k]
    BY <1>2 DEF Holding
  <2>4. QED
    BY <1>0, <1>2, <2>1, <2>2, <2>3 DEF HotRight
<1> USE DEF Go, PassDone, Advance
<1>3. CASE CreateVcpu(k) \/ Loop(k) \/ HotChecked(k)
  <2>1. x5[k] = None /\ cur'[k] = 0
    BY <1>0, <1>3 DEF CreateVcpu, Loop, HotChecked, Local, Sweeping, Passes, Verifying
  <2>2. QED
    BY <1>0, <1>2, <1>3, <2>1 DEF CreateVcpu, Loop, HotChecked, memVars
<1>4. CASE \/ Cleaned(k) \/ Destroy(k) \/ Verify(k) \/ ColdSwept(k) \/ Munmap(k)
           \/ Filled(k) \/ Checked(k) \/ Slept(k) \/ Rechecked(k)
           \/ Unmap(k) \/ Madvise(k) \/ Map(k)
  <2>1. /\ UNCHANGED <<hot_sweeps, val, saved>>
        /\ at[k] \notin {"hot0", "hot"} /\ at'[k] \notin {"hot0", "hot"}
        /\ at'[k] = "find" <=> at[k] = "find"
    BY <1>0, <1>4
    DEF Cleaned, Destroy, Verify, ColdSwept, Munmap, Filled, Checked, Slept, Rechecked,
        Unmap, Madvise, Map, memVars, Verifying
  <2>2. QED
    BY <1>2, <2>1
<1>5. CASE Fill(k) \/ MmapFixed(k) \/ (SweepStore(k) /\ at[k] = "cold")
           \/ (SweepLoad(k) /\ at[k] = "cold")
  <2>1. /\ UNCHANGED <<hot_sweeps, saved>>
        /\ at[k] \in {"fill", "refill", "cold"} /\ at'[k] \in {"fill", "map", "cold"}
    BY <1>0, <1>5 DEF Fill, MmapFixed, SweepStore, SweepLoad
  <2>2. Fill(k) \/ SweepStore(k) => cur[k] \in Pages
    BY PassWord DEF Fill, SweepStore
  <2>3. Word(k) = Cold(k, cur[k])
    BY <2>1, Words DEF OnHot
  <2>4. \A j \in Pages : val'[Hot(k, j)] = val[Hot(k, j)]
    <3>1. CASE Fill(k) \/ SweepStore(k)
      BY <1>0, <1>1, <2>2, <2>3, <3>1 DEF Fill, SweepStore, Store
    <3>2. CASE MmapFixed(k)
      BY <1>1, <3>2 DEF MmapFixed
    <3>3. CASE SweepLoad(k)
      BY <3>3 DEF SweepLoad, memVars
    <3>4. QED
      BY <1>5, <3>1, <3>2, <3>3
  <2>5. QED
    BY <1>2, <2>1, <2>4
<1>6. CASE SweepLoad(k) /\ at[k] # "cold"
  <2>1. /\ UNCHANGED <<val, at, cur, hot_sweeps, saved>>
        /\ at[k] \in {"hot0", "hot"}
        /\ x5'[k] = val[Hot(k, cur[k])]
    BY <1>0, <1>6, Words DEF SweepLoad, memVars, Sweeping, OnHot
  <2>2. \A j \in Pages :
          /\ Goal(k, j)' = Goal(k, j) /\ Own(k, j)' = Own(k, j)
          /\ Holding(k, j)' => x5'[k] = Own(k, j) /\ Goal(k, j) = hot_sweeps[k]
    BY <1>0, <1>1, <2>1 DEF Goal, Own, Holding
  <2>3. QED
    BY <1>0, <2>1, <2>2 DEF HotRight
<1>7. CASE SweepStore(k) /\ at[k] # "cold"
  <2>1. PICK c \in Pages : c = cur[k]
    BY <1>7, PassWord DEF SweepStore
  <2>2. /\ UNCHANGED <<at, hot_sweeps, saved>>
        /\ at[k] \in {"hot0", "hot"}
        /\ cur'[k] = c + 1 /\ x5'[k] = None /\ x5[k] # None
        /\ val' = [val EXCEPT ![Hot(k, c)] = x5[k] + 1]
    BY <1>0, <1>7, <2>1, Words DEF SweepStore, Store, Sweeping, OnHot
  <2>3. Holding(k, c)
    BY <2>1, <2>2 DEF Holding
  <2>4. /\ Goal(k, c)' = hot_sweeps[k] + 1
        /\ Own(k, c)' = x5[k] + 1
    BY <1>0, <1>1, <2>1, <2>2 DEF Goal, Own
  <2>5. \A j \in Pages : j # c =>
          Goal(k, j)' = Goal(k, j) /\ Own(k, j)' = Own(k, j)
    BY <1>0, <1>1, <2>1, <2>2 DEF Goal, Own
  <2>6. \A j \in Pages : ~Holding(k, j)'
    BY <2>2 DEF Holding
  <2>7. x5[k] \in Nat
    BY <1>0, <2>2
  <2>8. at'[k] # "find"
    BY <2>2
  <2>9. QED
    BY <1>0, <2>1, <2>2, <2>3, <2>4, <2>5, <2>6, <2>7, <2>8 DEF HotRight
<1>8. CASE FirstSwept(k) \/ HotSwept(k)
  <2>1. /\ UNCHANGED <<val, saved>>
        /\ at[k] \in {"hot0", "hot"} /\ at'[k] \in {"plant", "loop", "hotcheck"}
        /\ cur[k] = HalfPages /\ hot_sweeps'[k] = hot_sweeps[k] + 1
    BY <1>0, <1>8 DEF FirstSwept, HotSwept, memVars
  <2>2. \A j \in Pages : /\ Goal(k, j)' = Goal(k, j) /\ Own(k, j)' = Own(k, j)
                         /\ ~Holding(k, j)'
    BY <1>0, <1>1, <2>1 DEF Goal, Own, Holding
  <2>3. QED
    BY <1>0, <2>1, <2>2 DEF HotRight
<1>9. CASE Plant(k) \/ Found(k)
  <2>1. /\ UNCHANGED hot_sweeps /\ k = 0
        /\ at[k] \in {"plant", "find"} /\ at'[k] \in {"find", "clean", "panicked"}
        /\ Victim = Hot(k, 1) /\ 1 \in Pages
    BY <1>0, <1>9, Words DEF Plant, Found, Local
  <2>2. \A j \in Pages : Own(k, j)' = Own(k, j)
    <3>1. CASE Plant(k)
      BY <1>0, <1>1, <2>1, <3>1 DEF Plant, Own
    <3>2. CASE Found(k)
      BY <1>0, <1>1, <2>1, <3>2 DEF Found, Own
    <3>3. QED
      BY <1>9, <3>1, <3>2
  <2>3. \A j \in Pages : Goal(k, j)' = Goal(k, j) /\ ~Holding(k, j)'
    BY <2>1 DEF Goal, Holding
  <2>4. at'[k] = "find" => val'[Hot(k, 1)] = saved' + Garbage
    BY <1>0, <1>1, <1>9, <2>1 DEF Plant, Found
  <2>5. QED
    BY <1>0, <2>1, <2>2, <2>3, <2>4 DEF HotRight
<1>10. QED
  BY <1>3, <1>4, <1>5, <1>6, <1>7, <1>8, <1>9, WorkerSteps DEF Registers

\* What the loop's verifies add to the counter.
LEMMA CountAdds ==
  ASSUME SoakTypeOK, NEW k \in Worker, Count(k)
  PROVE  stats'.mismatches = stats.mismatches + x4[k]
BY DEF SoakTypeOK, Count

\* The fill puts the stamp into every cold word, and what was lost behind it
\* is counted before the next sweep.
LEMMA ColdStep ==
  ASSUME SoakTypeOK, NEW k \in Worker, WorkerInv(k), WorkerStep(k), NotLess
  PROVE  ColdRight(k)'
<1>0. /\ at \in [Worker -> Label] /\ cur \in [Worker -> Nat] /\ cycle \in [Worker -> Nat]
      /\ x4 \in [Worker -> Nat] /\ val \in [Unit -> Nat]
      /\ cur[k] <= HalfPages /\ HalfPages \in Nat
      /\ Local(k) /\ ColdRight(k) /\ Counted(k)
      /\ lost' = lost /\ due' = due
  BY OwnTypes, Layout, NothingLost DEF WorkerInv
<1>1. \A j \in Pages :
        /\ Cold(k, j) \in Unit
        /\ j \in Nat /\ j < HalfPages
        /\ \A i \in Pages : Cold(k, i) = Cold(k, j) => i = j
  BY Geometry, Layout DEF Pages
<1>2. cycle' = cycle => Stamp(k)' = Stamp(k)
  BY DEF Stamp
<1> USE DEF Go, PassDone, Advance, Rechecking, NotLess
<1>3. CASE at[k] \notin Rechecking \cup {"fill"} /\ at'[k] \notin Rechecking
           /\ (at'[k] = "fill" => cur'[k] = 0)
  BY <1>0, <1>1, <1>3 DEF ColdRight
<1>4. CASE Fill(k)
  <2>1. PICK c \in Pages : c = cur[k]
    BY <1>4, PassWord DEF Fill
  <2>2. /\ UNCHANGED <<at, cycle>> /\ at[k] = "fill" /\ cur'[k] = c + 1
        /\ val' = [val EXCEPT ![Cold(k, c)] = Stamp(k)]
    BY <1>0, <1>4, <2>1, Words DEF Fill, Store, OnHot
  <2>3. \A j \in Pages : val'[Cold(k, j)] = IF j = c THEN Stamp(k) ELSE val[Cold(k, j)]
    BY <1>0, <1>1, <2>2
  <2>4. QED
    BY <1>0, <1>1, <1>2, <2>1, <2>2, <2>3 DEF ColdRight
<1>5. CASE Filled(k) \/ Checked(k) \/ Slept(k) \/ (Verify(k) /\ at[k] \in Rechecking)
  <2>1. /\ UNCHANGED <<val, cycle>>
        /\ at'[k] \in Rechecking
        /\ at[k] \in Rechecking \/ (at[k] = "fill" /\ cur[k] = HalfPages)
    BY <1>0, <1>5 DEF Filled, Checked, Slept, Verify, memVars
  <2>2. QED
    BY <1>0, <1>1, <1>2, <2>1 DEF ColdRight
<1>6. CASE Rechecked(k)
  <2>1. /\ at[k] = "recheck" /\ at'[k] = "loop" /\ cur[k] = HalfPages
        /\ stats'.mismatches = stats.mismatches + x4[k]
    BY <1>0, <1>6, CountAdds DEF Rechecked
  <2>2. \A j \in Pages : Cold(k, j) \in due => stats'.mismatches > 0
    BY <1>0, <1>1, <2>1 DEF Counted
  <2>3. QED
    BY <1>0, <2>1, <2>2 DEF ColdRight
<1>7. CASE \/ CreateVcpu(k) \/ SweepLoad(k) \/ SweepStore(k) \/ FirstSwept(k) \/ Cleaned(k)
           \/ Loop(k) \/ HotSwept(k) \/ HotChecked(k) \/ ColdSwept(k) \/ Munmap(k)
           \/ Destroy(k) \/ (Verify(k) /\ at[k] \notin Rechecking)
  <2>1. /\ at[k] \notin Rechecking \cup {"fill"}
        /\ at'[k] \notin Rechecking \cup {"fill"}
    BY <1>0, <1>7
    DEF CreateVcpu, SweepLoad, SweepStore, FirstSwept, Cleaned, Loop, HotSwept, HotChecked,
        ColdSwept, Munmap, Destroy, Verify, Sweeping, Verifying
  <2>2. QED
    BY <1>3, <2>1
<1>8. CASE Plant(k) \/ Found(k) \/ Unmap(k) \/ Madvise(k) \/ MmapFixed(k) \/ Map(k)
  <2>1. /\ at[k] \notin Rechecking \cup {"fill"}
        /\ at'[k] \notin Rechecking
        /\ at'[k] = "fill" => cur'[k] = 0
    BY <1>0, <1>8
    DEF Plant, Found, Unmap, Madvise, MmapFixed, Map, Local, Passes, Sweeping, Verifying
  <2>2. QED
    BY <1>3, <2>1
<1>9. QED
  BY <1>4, <1>5, <1>6, <1>7, <1>8, WorkerSteps DEF Registers

\* A verify counts every word that is behind, and no other.
LEMMA CountedStep ==
  ASSUME SoakTypeOK, NEW k \in Worker, WorkerInv(k), WorkerStep(k), NotLess
  PROVE  Counted(k)'
<1>0. /\ at \in [Worker -> Label] /\ cur \in [Worker -> Nat]
      /\ x4 \in [Worker -> Nat] /\ val \in [Unit -> Nat]
      /\ hot_sweeps \in [Worker -> Nat] /\ saved \in Nat
      /\ cur[k] <= HalfPages /\ HalfPages \in Nat /\ HalfPages >= 2
      /\ Garbage \in Nat /\ Garbage > 0
      /\ Local(k) /\ HotRight(k) /\ ColdRight(k) /\ Counted(k)
      /\ lost' = lost /\ due' = due
  BY OwnTypes, Layout, NothingLost, SoakAssumption DEF WorkerInv
<1>1. \A j \in Pages : j \in Nat /\ j < HalfPages /\ Hot(k, j) \in Unit
  BY Geometry, Layout DEF Pages
<1> USE DEF Go, PassDone, Advance, ClearX4, NotLess
<1>2. CASE Verify(k)
  <2>1. PICK c \in Pages : c = cur[k]
    BY <1>2, PassWord DEF Verify
  <2>2. /\ UNCHANGED <<at, stats>> /\ at[k] \in Verifying
        /\ cur'[k] = c + 1
        /\ x4'[k] = IF val[Word(k)] = Expected(k) THEN x4[k] ELSE x4[k] + 1
    BY <1>0, <1>2, <2>1 DEF Verify
  <2>3. /\ at[k] \in {"find", "clean", "hotcheck"} =>
             /\ x4'[k] = IF val[Hot(k, c)] = hot_sweeps[k] THEN x4[k] ELSE x4[k] + 1
             /\ Goal(k, c) = hot_sweeps[k]
        /\ at[k] \in {"check", "recheck"} =>
             x4'[k] = IF val[Cold(k, c)] = Stamp(k) THEN x4[k] ELSE x4[k] + 1
    BY <1>0, <2>1, <2>2, Words DEF Expected, OnHot, Goal
  <2>4. /\ at[k] \in {"clean", "hotcheck"} => Own(k, c) = val[Hot(k, c)]
        /\ at[k] = "find" => Own(k, c) = IF c = 1 THEN saved ELSE val[Hot(k, c)]
    BY DEF Own
  <2>5. ASSUME lost = {}
        PROVE  /\ at[k] \in Verifying \ {"find"} => x4'[k] = 0
               /\ at[k] = "find" => x4'[k] = IF c + 1 > 1 THEN 1 ELSE 0
    <3>1. CASE at[k] \in {"clean", "hotcheck"}
      BY <1>0, <2>1, <2>3, <2>4, <2>5, <3>1 DEF HotRight, Counted, Verifying
    <3>2. CASE at[k] \in {"check", "recheck"}
      BY <1>0, <2>1, <2>3, <2>5, <3>2 DEF ColdRight, Counted, Verifying, Rechecking
    <3>3. CASE at[k] = "find"
      <4>1. /\ c # 1 => val[Hot(k, c)] = hot_sweeps[k]
            /\ c = 1 => val[Hot(k, c)] = hot_sweeps[k] + Garbage
        BY <1>0, <2>1, <2>3, <2>4, <2>5, <3>3 DEF HotRight
      <4>2. x4[k] = IF c > 1 THEN 1 ELSE 0
        BY <1>0, <2>1, <2>5, <3>3 DEF Counted
      <4>3. QED
        BY <1>0, <1>1, <2>1, <2>3, <3>3, <4>1, <4>2
    <3>4. QED
      BY <2>2, <3>1, <3>2, <3>3 DEF Verifying
  <2>6. Hot(k, c) \in due /\ at[k] = "hotcheck" => x4'[k] > 0
    <3>1. Hot(k, c) \in due /\ at[k] = "hotcheck" => val[Hot(k, c)] < hot_sweeps[k]
      BY <1>0, <2>3, <2>4 DEF HotRight
    <3>2. val[Hot(k, c)] \in Nat /\ hot_sweeps[k] \in Nat /\ x4[k] \in Nat
      BY <1>0, <1>1
    <3>3. at[k] = "hotcheck" /\ val[Hot(k, c)] # hot_sweeps[k] => x4'[k] = x4[k] + 1
      BY <2>3
    <3>4. QED
      BY <3>1, <3>2, <3>3
  <2>7. Cold(k, c) \in due /\ at[k] = "recheck" => x4'[k] > 0 \/ stats.mismatches > 0
    BY <1>0, <2>3 DEF ColdRight
  <2>8. x4[k] \in Nat /\ x4'[k] \in Nat /\ x4'[k] >= x4[k]
    BY <1>0, <2>2
  <2>9. ASSUME NEW j \in Pages
        PROVE  /\ Hot(k, j) \in due /\ at[k] \in AfterHot => stats.mismatches > 0
               /\ Hot(k, j) \in due /\ at[k] = "hotcheck" /\ j < c + 1 => x4'[k] > 0
               /\ Cold(k, j) \in due /\ at[k] = "recheck" /\ j < c + 1 =>
                    x4'[k] > 0 \/ stats.mismatches > 0
    <3>1. CASE j = c
      BY <1>0, <2>6, <2>7, <3>1 DEF Counted
    <3>2. CASE j # c
      BY <1>0, <1>1, <2>1, <2>8, <3>2 DEF Counted
    <3>3. QED
      BY <3>1, <3>2
  <2>10. QED
    BY <1>0, <2>1, <2>2, <2>5, <2>9 DEF Counted
<1>3. CASE HotChecked(k)
  <2>1. /\ at[k] = "hotcheck" /\ at'[k] \in {"hot", "cold"} /\ cur[k] = HalfPages
        /\ stats'.mismatches = stats.mismatches + x4[k]
    BY <1>0, <1>3, CountAdds DEF HotChecked
  <2>2. \A j \in Pages : Hot(k, j) \in due => stats'.mismatches > 0
    BY <1>0, <1>1, <2>1 DEF Counted
  <2>3. QED
    BY <1>0, <2>1, <2>2 DEF Counted, Verifying
<1>4. CASE Plant(k) \/ Found(k) \/ HotSwept(k) \/ Filled(k) \/ Slept(k)
  <2>1. /\ cur'[k] = 0
        /\ at'[k] \in Verifying => x4'[k] = 0
    BY <1>0, <1>4
    DEF Plant, Found, HotSwept, Filled, Slept, Local, Passes, Sweeping, Verifying
  <2>2. at'[k] \in AfterHot => at[k] \in AfterHot
    BY <1>0, <1>4
    DEF Plant, Found, HotSwept, Filled, Slept, AfterHot, Rechecking, Away
  <2>3. QED
    BY <1>0, <1>1, <2>1, <2>2 DEF Counted, Verifying
<1>5. CASE \/ CreateVcpu(k) \/ FirstSwept(k) \/ Cleaned(k) \/ Loop(k) \/ ColdSwept(k)
           \/ Munmap(k) \/ Checked(k) \/ Rechecked(k) \/ Destroy(k)
           \/ SweepLoad(k) \/ SweepStore(k) \/ Fill(k)
           \/ Unmap(k) \/ Madvise(k) \/ MmapFixed(k) \/ Map(k)
  <2>1. /\ at'[k] \notin Verifying
        /\ at'[k] \in AfterHot => at[k] \in AfterHot
    BY <1>0, <1>5
    DEF CreateVcpu, FirstSwept, Cleaned, Loop, ColdSwept, Munmap, Checked, Rechecked,
        Destroy, SweepLoad, SweepStore, Fill, Unmap, Madvise, MmapFixed, Map, Sweeping,
        Verifying, AfterHot, Rechecking, Away
  <2>2. QED
    BY <1>0, <2>1 DEF Counted, Verifying
<1>6. QED
  BY <1>2, <1>3, <1>4, <1>5, WorkerSteps DEF Registers

\* The self-test fails, and a worker panics, only for a reason.
LEMMA SurvivesStep ==
  ASSUME SoakTypeOK, NEW k \in Worker, WorkerInv(k), WorkerStep(k)
  PROVE  Survives(k)'
<1>0. /\ at \in [Worker -> Label] /\ cur \in [Worker -> Nat]
      /\ HalfPages \in Nat /\ HalfPages >= 2
      /\ Counted(k) /\ Survives(k)
      /\ lost' = lost
  BY OwnTypes, Layout, NothingLost DEF WorkerInv
<1>1. ASSUME lost = {}, Aligned(k), at[k] # "panicked" PROVE at'[k] # "panicked"
  <2>1. CASE Found(k)
    BY <1>0, <1>1, <2>1 DEF Found, Counted, PassDone, Go
  <2>2. CASE Cleaned(k)
    BY <1>0, <1>1, <2>2 DEF Cleaned, Counted, Go, Verifying
  <2>3. CASE \/ CreateVcpu(k) \/ FirstSwept(k) \/ Loop(k) \/ ColdSwept(k) \/ Munmap(k)
             \/ Checked(k) \/ Rechecked(k) \/ Destroy(k) \/ SweepLoad(k) \/ SweepStore(k)
             \/ Fill(k) \/ Verify(k) \/ Plant(k) \/ HotSwept(k) \/ HotChecked(k)
             \/ Filled(k) \/ Slept(k) \/ Unmap(k) \/ Madvise(k) \/ MmapFixed(k) \/ Map(k)
    BY <1>0, <1>1, <2>3
    DEF CreateVcpu, FirstSwept, Loop, ColdSwept, Munmap, Checked, Rechecked, Destroy,
        SweepLoad, SweepStore, Fill, Verify, Plant, HotSwept, HotChecked, Filled, Slept,
        Unmap, Madvise, MmapFixed, Map, Go
  <2>4. QED
    BY <2>1, <2>2, <2>3, WorkerSteps DEF Registers
<1>2. QED
  BY <1>0, <1>1 DEF Survives, Aligned

-----------------------------------------------------------------------------
(* The kernel. *)

\* The kernel moves no worker.
LEMMA KernelLeaves ==
  ASSUME Kernel, NEW k \in Worker
  PROVE  SameLocals(k) /\ stage2' = stage2
BY DEF Kernel, Take, ZeroLive, LeftOver, workerVars, SameLocals

\* It takes a page it was told it may take: never one that a pass looks at.
LEMMA TakeStep ==
  ASSUME SoakTypeOK, Kernel, NotLess, NEW a \in Unit, Take(a), NEW k \in Worker, WorkerInv(k)
  PROVE  WorkerInv(k)'
<1>0. /\ val \in [Unit -> Nat] /\ val' = [val EXCEPT ![a] = 0] /\ a \in marked
      /\ UNCHANGED <<stage2, lost, due, stats>> /\ marked' \subseteq marked
  BY DEF SoakTypeOK, Take, historyVars
<1>1. SameLocals(k) /\ SameMaps(k)
  BY <1>0, KernelLeaves DEF SameMaps
<1>2. \A j \in Pages : Hot(k, j) # a
  BY <1>0 DEF WorkerInv, Mapped
<1>3. CASE \A j \in Pages : Cold(k, j) # a
  <2>1. SameWords(k)
    BY <1>0, <1>2, <1>3, Geometry DEF SameWords
  <2>2. QED
    BY <1>1, <2>1, Untouched
<1>4. CASE \E j \in Pages : Cold(k, j) = a
  <2>1. PICK c \in Pages : Cold(k, c) = a
    BY <1>4
  <2>2. at[k] = "map" \/ (at[k] = "fill" /\ cur[k] <= c)
    BY <1>0, <2>1 DEF WorkerInv, Mapped
  <2>3. \A j \in Pages : /\ val'[Hot(k, j)] = val[Hot(k, j)]
                         /\ j # c => val'[Cold(k, j)] = val[Cold(k, j)]
    BY <1>0, <1>2, <2>1, Geometry
  <2>4. ColdRight(k)'
    <3>1. cur[k] \in Nat /\ c \in Nat /\ at'[k] = at[k] /\ cur'[k] = cur[k]
      BY <1>1, OwnTypes, Layout DEF SameLocals, Pages
    <3>2. Stamp(k)' = Stamp(k)
      BY <1>1 DEF SameLocals, Stamp
    <3>3. QED
      BY <1>0, <2>2, <2>3, <3>1, <3>2 DEF WorkerInv, ColdRight, Rechecking
  <2>5. \A j \in Pages : /\ Own(k, j)' = Own(k, j)
                         /\ Goal(k, j)' = Goal(k, j)
                         /\ Holding(k, j)' <=> Holding(k, j)
    BY <1>1, <2>2, <2>3 DEF SameLocals, Own, Goal, Holding
  <2>6. HotRight(k)'
    BY <1>0, <1>1, <2>3, <2>5 DEF SameLocals, WorkerInv, HotRight
  <2>7. Local(k)' /\ Counted(k)' /\ Survives(k)'
    BY <1>0, <1>1 DEF SameLocals, WorkerInv, Local, Counted, Survives, Aligned
  <2>8. Mapped(k)'
    BY <1>1 DEF SameLocals, SameMaps, WorkerInv, Mapped
  <2>9. QED
    BY <2>4, <2>6, <2>7, <2>8 DEF WorkerInv
<1>5. QED
  BY <1>3, <1>4

\* A fault at a word of somebody else.
LEMMA FaultElsewhere ==
  ASSUME SoakTypeOK, Kernel, NotLess, NEW a \in Unit, NEW v, NEW k \in Worker, WorkerInv(k),
         val' = [val EXCEPT ![a] = v], due' \subseteq due \cup {a},
         UNCHANGED <<stage2, marked>>,
         \A j \in Pages : Hot(k, j) # a /\ Cold(k, j) # a
  PROVE  WorkerInv(k)'
<1>1. SameLocals(k) /\ SameMaps(k)
  BY KernelLeaves DEF SameMaps
<1>2. SameWords(k)
  BY Geometry DEF SoakTypeOK, SameWords
<1>3. QED
  BY <1>1, <1>2, Untouched

\* A fault at a cold word: the verify ahead sees it, or nobody asks it to.
LEMMA ColdFault ==
  ASSUME SoakTypeOK, Kernel, NotLess, NEW k \in Worker, WorkerInv(k), NEW c \in Pages, NEW v,
         val' = [val EXCEPT ![Cold(k, c)] = v], lost' # {},
         UNCHANGED <<stage2, marked, stats>>,
         due' \subseteq due \cup {Cold(k, c)},
         Cold(k, c) \in due' =>
           /\ Cold(k, c) \in due \/ at[k] \in {"check", "sleep"}
           /\ at[k] \in Rechecking => v # Stamp(k)
  PROVE  WorkerInv(k)'
<1>1. SameLocals(k) /\ SameMaps(k)
  BY KernelLeaves DEF SameMaps
<1>2. \A j \in Pages :
        /\ val'[Hot(k, j)] = val[Hot(k, j)]
        /\ val'[Cold(k, j)] = IF j = c THEN v ELSE val[Cold(k, j)]
        /\ Hot(k, j) \in due' => Hot(k, j) \in due
        /\ j # c /\ Cold(k, j) \in due' => Cold(k, j) \in due
  BY Geometry DEF SoakTypeOK
<1>3. Stamp(k)' = Stamp(k)
  BY <1>1 DEF SameLocals, Stamp
<1>4. ColdRight(k)'
  <2>1. ASSUME NEW j \in Pages, Cold(k, j) \in due'
        PROVE  stats.mismatches > 0
                 \/ (at[k] \in Rechecking /\ val'[Cold(k, j)] # Stamp(k))
    <3>1. CASE j = c
      BY <1>2, <2>1, <3>1 DEF WorkerInv, ColdRight, Rechecking
    <3>2. CASE j # c
      BY <1>2, <2>1, <3>2 DEF WorkerInv, ColdRight
    <3>3. QED
      BY <3>1, <3>2
  <2>2. QED
    BY <1>1, <1>3, <2>1 DEF SameLocals, ColdRight
<1>5. \A j \in Pages : /\ Own(k, j)' = Own(k, j)
                       /\ Goal(k, j)' = Goal(k, j)
                       /\ Holding(k, j)' <=> Holding(k, j)
  BY <1>1, <1>2 DEF SameLocals, Own, Goal, Holding
<1>6. HotRight(k)'
  BY <1>1, <1>2, <1>5 DEF SameLocals, WorkerInv, HotRight
<1>7. Counted(k)'
  BY <1>1, <1>2 DEF SameLocals, WorkerInv, Counted
<1>8. Local(k)' /\ Survives(k)' /\ Mapped(k)'
  BY <1>1 DEF SameLocals, SameMaps, WorkerInv, Local, Survives, Mapped
<1>9. QED
  BY <1>4, <1>6, <1>7, <1>8 DEF WorkerInv

\* A hot word lost: it is behind from now on, if the loss is due.
LEMMA HotFault ==
  ASSUME SoakTypeOK, Kernel, NotLess, NEW k \in Worker, WorkerInv(k), NEW c \in Pages,
         val' = [val EXCEPT ![Hot(k, c)] = 0], lost' # {}, val[Hot(k, c)] # 0,
         UNCHANGED <<stage2, marked, stats>>,
         due' \subseteq due \cup {Hot(k, c)},
         Hot(k, c) \in due' =>
           \/ Hot(k, c) \in due
           \/ at[k] \in {"hot0", "plant", "loop", "hot"} /\ ~Holding(k, c)
  PROVE  WorkerInv(k)'
<1>1. SameLocals(k) /\ SameMaps(k)
  BY KernelLeaves DEF SameMaps
<1>2. \A j \in Pages :
        /\ val'[Hot(k, j)] = IF j = c THEN 0 ELSE val[Hot(k, j)]
        /\ val'[Cold(k, j)] = val[Cold(k, j)]
        /\ j # c /\ Hot(k, j) \in due' => Hot(k, j) \in due
        /\ Cold(k, j) \in due' => Cold(k, j) \in due
  BY Geometry DEF SoakTypeOK
<1>3. Stamp(k)' = Stamp(k)
  BY <1>1 DEF SameLocals, Stamp
<1>4. ColdRight(k)'
  BY <1>1, <1>2, <1>3 DEF SameLocals, WorkerInv, ColdRight
<1>5. \A j \in Pages : /\ j # c => Own(k, j)' = Own(k, j)
                       /\ Goal(k, j)' = Goal(k, j)
                       /\ Holding(k, j)' <=> Holding(k, j)
  BY <1>1, <1>2 DEF SameLocals, Own, Goal, Holding
<1>6. /\ Own(k, c) \in Nat /\ Goal(k, c) \in Nat
      /\ Own(k, c)' \in {0, Own(k, c)}
      /\ at[k] # "find" => Own(k, c) # 0 /\ Own(k, c)' = 0
  BY <1>1, <1>2, OwnTypes, Geometry DEF SameLocals, Own, Goal
<1>7. HotRight(k)'
  <2>1. ASSUME NEW j \in Pages
        PROVE  /\ Own(k, j)' <= Goal(k, j)
               /\ Hot(k, j) \in due' =>
                    /\ Own(k, j)' < Goal(k, j)
                    /\ Holding(k, j) => x5[k] < hot_sweeps[k]
    <3>1. CASE j # c
      BY <1>2, <1>5, <3>1 DEF WorkerInv, HotRight
    <3>2. CASE j = c
      BY <1>6, <3>2 DEF WorkerInv, HotRight
    <3>3. QED
      BY <3>1, <3>2
  <2>2. QED
    BY <1>1, <1>5, <2>1 DEF SameLocals, WorkerInv, HotRight
<1>8. Counted(k)'
  <2>1. ASSUME NEW j \in Pages, Hot(k, j) \in due'
        PROVE  Hot(k, j) \in due \/ at[k] \notin AfterHot \cup {"hotcheck"}
    <3>1. CASE j = c
      BY <2>1, <3>1 DEF AfterHot, Away, Rechecking
    <3>2. CASE j # c
      BY <1>2, <2>1, <3>2
    <3>3. QED
      BY <3>1, <3>2
  <2>2. QED
    BY <1>1, <1>2, <2>1 DEF SameLocals, WorkerInv, Counted
<1>9. Local(k)' /\ Survives(k)' /\ Mapped(k)'
  BY <1>1 DEF SameLocals, SameMaps, WorkerInv, Local, Survives, Mapped
<1>10. QED
  BY <1>4, <1>7, <1>8, <1>9 DEF WorkerInv

\* Every step of the kernel, faults included, keeps the invariant of a worker.
LEMMA KernelStep ==
  ASSUME SoakTypeOK, Kernel, NotLess, NEW k \in Worker, WorkerInv(k)
  PROVE  WorkerInv(k)'
<1>1. ASSUME NEW a \in Unit, Take(a) PROVE WorkerInv(k)'
  BY <1>1, TakeStep
<1>2. ASSUME NEW a \in Unit, ZeroLive(a) PROVE WorkerInv(k)'
  <2>0. /\ val' = [val EXCEPT ![a] = 0] /\ lost' # {} /\ val[a] # 0
        /\ UNCHANGED <<stage2, marked, stats>>
        /\ due' \subseteq due \cup {a}
        /\ a \in due' => a \in due \/ Due(a)
    BY <1>2 DEF ZeroLive
  <2>1. CASE \E c \in Pages : Hot(k, c) = a
    <3>1. PICK c \in Pages : Hot(k, c) = a
      BY <2>1
    <3>2. Due(a) => at[k] \in {"hot0", "plant", "loop", "hot"} /\ ~Holding(k, c)
      <4>1. Due(a) => at[k] \in {"hot0", "plant", "loop", "hot"}
        BY <3>1, Words, Geometry DEF Due
      <4>2. Holding(k, c) => Loaded(a)
        BY <3>1, Words DEF Holding, Loaded, Sweeping, OnHot
      <4>3. QED
        BY <4>1, <4>2 DEF Due
    <3>3. QED
      BY <2>0, <3>1, <3>2, HotFault
  <2>2. CASE \E c \in Pages : Cold(k, c) = a
    <3>1. PICK c \in Pages : Cold(k, c) = a
      BY <2>2
    <3>2. Due(a) => at[k] \in {"check", "sleep"}
      BY <3>1, Words, Geometry DEF Due
    <3>3. at[k] \in Rechecking => 0 # Stamp(k)
      <4>1. at[k] \in Rechecking => cycle[k] >= 1
        BY DEF WorkerInv, Local, AfterHot
      <4>2. k * StampBase \in Nat /\ cycle[k] \in Nat
        BY OwnTypes, SoakAssumption DEF Worker
      <4>3. QED
        BY <4>1, <4>2 DEF Stamp
    <3>4. QED
      BY <2>0, <3>1, <3>2, <3>3, ColdFault
  <2>3. CASE \A c \in Pages : Hot(k, c) # a /\ Cold(k, c) # a
    BY <2>0, <2>3, FaultElsewhere
  <2>4. QED
    BY <2>1, <2>2, <2>3
<1>3. ASSUME NEW w \in Worker, NEW a \in Unit, LeftOver(w, a) PROVE WorkerInv(k)'
  <2>0. /\ val' = [val EXCEPT ![a] = back[a]] /\ lost' # {}
        /\ UNCHANGED <<stage2, marked, stats>>
        /\ due' = IF back[a] = Stamp(w) THEN due \ {a} ELSE due
    BY <1>3 DEF LeftOver
  <2>1. PICK c \in Pages : a = Cold(w, c)
    BY <1>3, Words DEF LeftOver
  <2>2. CASE k = w
    BY <2>0, <2>1, <2>2, ColdFault
  <2>3. CASE k # w
    <3>1. \A j \in Pages : Hot(k, j) # a /\ Cold(k, j) # a
      BY <2>1, <2>3, Geometry
    <3>2. QED
      BY <2>0, <3>1, FaultElsewhere
  <2>4. QED
    BY <2>2, <2>3
<1>4. QED
  BY <1>1, <1>2, <1>3 DEF Kernel

-----------------------------------------------------------------------------
(* All of it together. *)

\* A step of a worker keeps the types: a verify counts no more pages than it
\* has looked at, and no loop runs past its bound.
LEMMA WorkerTypes ==
  ASSUME SoakTypeOK, NEW k \in Worker, WorkerInv(k), WorkerStep(k)
  PROVE  SoakTypeOK'
<1>0. /\ at \in [Worker -> Label] /\ cur \in [Worker -> 0..HalfPages]
      /\ x4 \in [Worker -> 0..HalfPages] /\ x5 \in [Worker -> Nat \cup {None}]
      /\ round \in [Worker -> 0..HOT_SWEEPS_PER_CYCLE]
      /\ hot_sweeps \in [Worker -> Nat] /\ cycle \in [Worker -> 0..MaxCycles]
      /\ HalfPages \in Nat /\ HOT_SWEEPS_PER_CYCLE \in Nat /\ MaxCycles \in Nat
      /\ val \in [Unit -> Nat] /\ saved \in Nat /\ Stamp(k) \in Nat /\ Garbage \in Nat
      /\ back \in [Unit -> Nat] /\ Local(k)
  BY OwnTypes, Layout, SoakAssumption DEF SoakTypeOK, WorkerInv
<1>1. at' \in [Worker -> Label]
  <2>1. PICK l \in Label : at' = [at EXCEPT ![k] = l] \/ at' = at
    BY WorkerSteps
    DEF Registers, CreateVcpu, SweepLoad, SweepStore, Fill, Verify, FirstSwept, Plant,
        Found, Cleaned, Loop, HotSwept, HotChecked, ColdSwept, Unmap, Madvise, Munmap,
        MmapFixed, Map, Filled, Checked, Slept, Rechecked, Destroy, Go, Label, Passes,
        Sweeping, Verifying
  <2>2. QED
    BY <1>0, <2>1
<1>2. cur' \in [Worker -> 0..HalfPages]
  <2>1. \/ cur' = cur \/ cur' = [cur EXCEPT ![k] = 0]
        \/ cur[k] < HalfPages /\ cur' = [cur EXCEPT ![k] = @ + 1]
    BY WorkerSteps
    DEF Registers, CreateVcpu, SweepLoad, SweepStore, Fill, Verify, FirstSwept, Plant,
        Found, Cleaned, Loop, HotSwept, HotChecked, ColdSwept, Unmap, Madvise, Munmap,
        MmapFixed, Map, Filled, Checked, Slept, Rechecked, Destroy, PassDone, Advance,
        Store, InPass
  <2>2. QED
    BY <1>0, <2>1
<1>3. x4' \in [Worker -> 0..HalfPages]
  <2>1. x4' = x4 \/ x4' = [x4 EXCEPT ![k] = 0] \/ Verify(k)
    BY WorkerSteps
    DEF Registers, CreateVcpu, SweepLoad, SweepStore, Fill, FirstSwept, Plant,
        Found, Cleaned, Loop, HotSwept, HotChecked, ColdSwept, Unmap, Madvise, Munmap,
        MmapFixed, Map, Filled, Checked, Slept, Rechecked, Destroy, ClearX4
  <2>2. at[k] \in Verifying /\ cur[k] < HalfPages => x4[k] + 1 \in 0..HalfPages
    BY <1>0 DEF Local
  <2>3. CASE Verify(k)
    BY <1>0, <2>2, <2>3 DEF Verify, InPass
  <2>4. QED
    BY <1>0, <2>1, <2>3
<1>4. x5' \in [Worker -> Nat \cup {None}]
  <2>1. InPass(k) => val[Word(k)] \in Nat
    BY <1>0, PassWord
  <2>2. x5' = x5 \/ x5' = [x5 EXCEPT ![k] = None] \/ \E v \in Nat : x5' = [x5 EXCEPT ![k] = v]
    BY <2>1, WorkerSteps
    DEF Registers, CreateVcpu, SweepLoad, SweepStore, Fill, Verify, FirstSwept, Plant,
        Found, Cleaned, Loop, HotSwept, HotChecked, ColdSwept, Unmap, Madvise, Munmap,
        MmapFixed, Map, Filled, Checked, Slept, Rechecked, Destroy
  <2>3. QED
    BY <1>0, <2>2
<1>5. round' \in [Worker -> 0..HOT_SWEEPS_PER_CYCLE]
  <2>1. \/ round' = round \/ round' = [round EXCEPT ![k] = 0]
        \/ at[k] = "hotcheck" /\ round' = [round EXCEPT ![k] = @ + 1]
    BY WorkerSteps
    DEF Registers, CreateVcpu, SweepLoad, SweepStore, Fill, Verify, FirstSwept, Plant,
        Found, Cleaned, Loop, HotSwept, HotChecked, ColdSwept, Unmap, Madvise, Munmap,
        MmapFixed, Map, Filled, Checked, Slept, Rechecked, Destroy
  <2>2. QED
    BY <1>0, <2>1 DEF Local
<1>6. hot_sweeps' \in [Worker -> Nat]
  <2>1. hot_sweeps' = hot_sweeps \/ hot_sweeps' = [hot_sweeps EXCEPT ![k] = @ + 1]
    BY WorkerSteps
    DEF Registers, CreateVcpu, SweepLoad, SweepStore, Fill, Verify, FirstSwept, Plant,
        Found, Cleaned, Loop, HotSwept, HotChecked, ColdSwept, Unmap, Madvise, Munmap,
        MmapFixed, Map, Filled, Checked, Slept, Rechecked, Destroy
  <2>2. QED
    BY <1>0, <2>1
<1>7. cycle' \in [Worker -> 0..MaxCycles]
  <2>1. \/ cycle' = cycle
        \/ at[k] = "hotcheck" /\ cycle' = [cycle EXCEPT ![k] = @ + 1]
    BY WorkerSteps
    DEF Registers, CreateVcpu, SweepLoad, SweepStore, Fill, Verify, FirstSwept, Plant,
        Found, Cleaned, Loop, HotSwept, HotChecked, ColdSwept, Unmap, Madvise, Munmap,
        MmapFixed, Map, Filled, Checked, Slept, Rechecked, Destroy
  <2>2. QED
    BY <1>0, <2>1 DEF Local
<1>8. val' \in [Unit -> Nat] /\ saved' \in Nat
  <2>1. Victim \in Unit
    BY Words, Geometry
  <2>2. InPass(k) => Word(k) \in Unit
    BY PassWord
  <2>3. \/ val' = val
        \/ \E a \in Unit, v \in Nat : val' = [val EXCEPT ![a] = v]
        \/ MmapFixed(k)
    <3>1. CASE SweepStore(k)
      <4>1. x5[k] + 1 \in Nat
        BY <1>0, <3>1 DEF SweepStore
      <4>2. QED
        BY <2>2, <3>1, <4>1 DEF SweepStore, Store
    <3>2. CASE Fill(k)
      BY <1>0, <2>2, <3>2 DEF Fill, Store
    <3>3. CASE Plant(k) \/ Found(k)
      BY <1>0, <2>1, <3>3 DEF Plant, Found
    <3>4. CASE Registers(k) \/ Unmap(k) \/ Madvise(k) \/ Map(k)
      BY <3>4
      DEF Registers, CreateVcpu, SweepLoad, Verify, FirstSwept, Cleaned, Loop, HotSwept,
          HotChecked, ColdSwept, Unmap, Madvise, Munmap, Map, Filled, Checked, Slept,
          Rechecked, Destroy, memVars
    <3>5. QED
      BY <3>1, <3>2, <3>3, <3>4, WorkerSteps
  <2>4. val' \in [Unit -> Nat]
    BY <1>0, <2>3 DEF MmapFixed
  <2>5. saved' = saved \/ saved' = val[Victim]
    BY WorkerSteps
    DEF Registers, CreateVcpu, SweepLoad, SweepStore, Fill, Verify, FirstSwept, Plant,
        Found, Cleaned, Loop, HotSwept, HotChecked, ColdSwept, Unmap, Madvise, Munmap,
        MmapFixed, Map, Filled, Checked, Slept, Rechecked, Destroy
  <2>6. QED
    BY <1>0, <2>1, <2>4, <2>5
<1>9. stage2' \subseteq Unit /\ marked' \subseteq Unit
  <2>1. ColdWords(k) \subseteq Unit
    BY Words, Geometry
  <2>2. ColdRange(k) \subseteq Unit
    BY Layout, SlotOffset, SoakAssumption DEF ColdRange, ColdStart, Unit
  <2>3. stage2' \subseteq stage2 \cup ColdRange(k) /\ marked' \subseteq marked \cup ColdWords(k)
    BY WorkerSteps
    DEF Registers, CreateVcpu, SweepLoad, SweepStore, Fill, Verify, FirstSwept, Plant,
        Found, Cleaned, Loop, HotSwept, HotChecked, ColdSwept, Unmap, Madvise, Munmap,
        MmapFixed, Map, Filled, Checked, Slept, Rechecked, Destroy, Store, memVars
  <2>4. QED
    BY <2>1, <2>2, <2>3 DEF SoakTypeOK
<1>10. UNCHANGED <<mode, deadline, verdict, lost, due>>
  BY WorkerSteps
  DEF WorkerStep, Registers, CreateVcpu, SweepLoad, SweepStore, Fill, Verify, FirstSwept,
      Plant, Found, Cleaned, Loop, HotSwept, HotChecked, ColdSwept, Unmap, Madvise, Munmap,
      MmapFixed, Map, Filled, Checked, Slept, Rechecked, Destroy, historyVars
<1>11. back' \in [Unit -> Nat]
  <2>1. back' = back \/ HandBack(k)
    BY WorkerSteps
    DEF Registers, CreateVcpu, SweepLoad, SweepStore, Fill, Verify, FirstSwept, Plant,
        Found, Cleaned, Loop, HotSwept, HotChecked, ColdSwept, Unmap, Madvise, Munmap,
        MmapFixed, Map, Filled, Checked, Slept, Rechecked, Destroy, historyVars
  <2>2. QED
    BY <1>0, <2>1 DEF HandBack
<1>12. stats' \in [sweeps : Nat, page_checks : Nat, mismatches : Nat, reclaims : Nat]
  <2>1. \/ stats' = stats
        \/ stats' = [stats EXCEPT !.sweeps = @ + 1]
        \/ stats' = [stats EXCEPT !.reclaims = @ + 1]
        \/ Count(k)
    BY WorkerSteps
    DEF Registers, CreateVcpu, SweepLoad, SweepStore, Fill, Verify, FirstSwept, Plant,
        Found, Cleaned, Loop, HotSwept, HotChecked, ColdSwept, Unmap, Madvise, Munmap,
        MmapFixed, Map, Filled, Checked, Slept, Rechecked, Destroy
  <2>2. QED
    <3>1. /\ stats \in [sweeps : Nat, page_checks : Nat, mismatches : Nat, reclaims : Nat]
          /\ x4[k] \in Nat
      BY OwnTypes
    <3>2. CASE Count(k)
      <4>1. stats.page_checks + HalfPages \in Nat /\ stats.mismatches + x4[k] \in Nat
        BY <1>0, <3>1
      <4>2. PICK m \in Nat, n \in Nat :
              stats' = [stats EXCEPT !.page_checks = m, !.mismatches = n]
        BY <3>2, <4>1 DEF Count
      <4>3. QED
        BY <3>1, <4>2
    <3>3. CASE stats' = stats
      BY <3>1, <3>3
    <3>4. CASE stats' = [stats EXCEPT !.sweeps = @ + 1]
      BY <3>1, <3>4
    <3>5. CASE stats' = [stats EXCEPT !.reclaims = @ + 1]
      BY <3>1, <3>5
    <3>6. QED
      BY <2>1, <3>2, <3>3, <3>4, <3>5
<1>13. QED
  BY <1>1, <1>2, <1>3, <1>4, <1>5, <1>6, <1>7, <1>8, <1>9, <1>10, <1>11, <1>12, Zenon
  DEF SoakTypeOK

\* So does a step of anybody else.
LEMMA OtherTypes ==
  ASSUME SoakTypeOK, DeadlinePasses \/ Verdict \/ Kernel \/ UNCHANGED soakVars
  PROVE  SoakTypeOK'
<1>1. CASE DeadlinePasses
  BY <1>1 DEF SoakTypeOK, DeadlinePasses, memVars, workerVars, historyVars
<1>2. CASE Verdict
  BY <1>2 DEF SoakTypeOK, Verdict, memVars, workerVars, historyVars
<1>3. CASE UNCHANGED soakVars
  BY <1>3 DEF SoakTypeOK, soakVars, memVars, workerVars, historyVars
<1>4. CASE Kernel
  <2>1. PICK a \in Unit : Take(a) \/ ZeroLive(a) \/ \E k \in Worker : LeftOver(k, a)
    BY <1>4 DEF Kernel
  <2>2. UNCHANGED <<stage2, workerVars, saved, mode, deadline, stats, verdict, back>>
    BY <1>4 DEF Kernel, Take, ZeroLive, LeftOver, historyVars
  <2>3. \E v \in Nat : val' = [val EXCEPT ![a] = v]
    BY <2>1 DEF SoakTypeOK, Take, ZeroLive, LeftOver
  <2>4. val' \in [Unit -> Nat]
    BY <2>3 DEF SoakTypeOK
  <2>5. marked' \subseteq Unit /\ lost' \subseteq Unit /\ due' \subseteq lost'
    BY <2>1 DEF SoakTypeOK, Take, ZeroLive, LeftOver, historyVars
  <2>6. QED
    BY <2>2, <2>4, <2>5, Zenon DEF SoakTypeOK, workerVars
<1>5. QED
  BY <1>1, <1>2, <1>3, <1>4

\* A verify of the loop counts nothing as long as nothing was lost.
LEMMA CleanStep ==
  ASSUME SoakInv, [SoakNext]_soakVars
  PROVE  Clean'
<1>0. SoakTypeOK /\ Clean /\ (\A k \in Worker : WorkerInv(k)) /\ NotLess
  BY NeverLess DEF SoakInv
<1>1. ASSUME NEW k \in Worker, WorkerStep(k) PROVE Clean'
  <2>1. \/ stats'.mismatches = stats.mismatches
        \/ Count(k) /\ at[k] \in Verifying \ {"find"}
    <3>1. CASE HotChecked(k) \/ Checked(k) \/ Rechecked(k)
      BY <3>1 DEF HotChecked, Checked, Rechecked, Verifying
    <3>2. CASE \/ SweepStore(k) \/ Fill(k) \/ Plant(k) \/ Found(k) \/ Unmap(k)
               \/ Madvise(k) \/ MmapFixed(k) \/ Map(k)
               \/ CreateVcpu(k) \/ SweepLoad(k) \/ Verify(k) \/ FirstSwept(k) \/ Cleaned(k)
               \/ Loop(k) \/ HotSwept(k) \/ ColdSwept(k) \/ Munmap(k)
               \/ Filled(k) \/ Slept(k) \/ Destroy(k)
      <4>1. \/ stats' = stats
            \/ stats' = [stats EXCEPT !.sweeps = @ + 1]
            \/ stats' = [stats EXCEPT !.reclaims = @ + 1]
        BY <3>2
        DEF CreateVcpu, SweepLoad, SweepStore, Fill, Verify, FirstSwept, Plant, Found,
            Cleaned, Loop, HotSwept, ColdSwept, Unmap, Madvise, Munmap, MmapFixed, Map,
            Filled, Slept, Destroy
      <4>2. QED
        BY <1>0, <4>1 DEF SoakTypeOK
    <3>3. QED
      BY <1>0, <1>1, <3>1, <3>2, WorkerSteps DEF Registers
  <2>2. lost' = lost
    BY <1>0, <1>1, NothingLost
  <2>3. Counted(k) /\ stats.mismatches \in Nat
    BY <1>0 DEF WorkerInv, NotLess
  <2>4. CASE stats'.mismatches = stats.mismatches
    BY <1>0, <2>2, <2>4 DEF Clean
  <2>5. CASE Count(k) /\ at[k] \in Verifying \ {"find"}
    BY <1>0, <2>2, <2>3, <2>5, CountAdds DEF Clean, Counted
  <2>6. QED
    BY <2>1, <2>4, <2>5
<1>2. CASE DeadlinePasses \/ Verdict \/ Kernel \/ UNCHANGED soakVars
  <2>1. stats' = stats
    BY <1>2
    DEF DeadlinePasses, Verdict, Kernel, Take, ZeroLive, LeftOver, soakVars
  <2>2. QED
    BY <1>0, <2>1 DEF Clean, NotLess
<1>3. QED
  BY <1>1, <1>2 DEF SoakNext

\* A step of a worker keeps its own invariant.
LEMMA OwnStep ==
  ASSUME SoakTypeOK, NotLess, NEW k \in Worker, WorkerInv(k), WorkerStep(k)
  PROVE  WorkerInv(k)'
BY LocalStep, MappedStep, HotStep, ColdStep, CountedStep, SurvivesStep DEF WorkerInv

\* Time and the verdict leave every worker alone.
LEMMA TimeStep ==
  ASSUME NotLess, DeadlinePasses \/ Verdict \/ UNCHANGED soakVars, NEW k \in Worker, WorkerInv(k)
  PROVE  WorkerInv(k)'
<1>1. UNCHANGED <<val, stage2, marked, at, cur, x4, x5, round, hot_sweeps, cycle, saved, due>>
  BY DEF DeadlinePasses, Verdict, soakVars, memVars, workerVars, historyVars
<1>2. SameLocals(k) /\ SameWords(k) /\ SameMaps(k)
  BY <1>1 DEF SameLocals, SameWords, SameMaps
<1>3. QED
  BY <1>2, Untouched

\* The invariant holds when the workers are started.
LEMMA SoakInitially == SoakInit => SoakInv
<1> SUFFICES ASSUME SoakInit PROVE SoakInv
  OBVIOUS
<1>0. HalfPages \in Nat /\ HalfPages >= 2 /\ HOT_SWEEPS_PER_CYCLE \in Nat /\ MaxCycles \in Nat
  BY Layout, SoakAssumption
<1>1. SoakTypeOK
  <2>1. /\ "create" \in Label
        /\ 0 \in 0..HalfPages /\ 0 \in 0..HOT_SWEEPS_PER_CYCLE /\ 0 \in 0..MaxCycles
    BY <1>0 DEF Label
  <2>2. /\ at \in [Worker -> Label] /\ cur \in [Worker -> 0..HalfPages]
        /\ x4 \in [Worker -> 0..HalfPages] /\ x5 \in [Worker -> Nat \cup {None}]
        /\ round \in [Worker -> 0..HOT_SWEEPS_PER_CYCLE]
        /\ hot_sweeps \in [Worker -> Nat] /\ cycle \in [Worker -> 0..MaxCycles]
    BY <2>1 DEF SoakInit
  <2>3. val \in [Unit -> Nat] /\ back \in [Unit -> Nat] /\ saved \in Nat
    BY DEF SoakInit
  <2>4. /\ stage2 \subseteq Unit /\ marked \subseteq Unit /\ lost \subseteq Unit
        /\ due \subseteq lost /\ mode \in Modes
        /\ verdict \in {"none", "no-corruption", "corruption"}
    BY DEF SoakInit
  <2>5. stats \in [sweeps : Nat, page_checks : Nat, mismatches : Nat, reclaims : Nat]
    BY DEF SoakInit
  <2>6. deadline \in BOOLEAN
    BY DEF SoakInit
  <2>7. QED
    BY <2>2, <2>3, <2>4, <2>5, <2>6, Zenon DEF SoakTypeOK
<1>2. Clean
  BY DEF SoakInit, Clean
<1>3. ASSUME NEW k \in Worker PROVE WorkerInv(k)
  <2>0. /\ at[k] = "create" /\ cur[k] = 0 /\ x4[k] = 0 /\ x5[k] = None
        /\ hot_sweeps[k] = 0 /\ cycle[k] = 0 /\ lost = {} /\ due = {} /\ marked = {}
        /\ stage2 = Unit /\ \A a \in Unit : val[a] = 0
    BY DEF SoakInit
  <2>1. Local(k)
    BY <2>0 DEF Local, AfterHot, Away, Rechecking, Verifying
  <2>2. Mapped(k)
    BY <2>0, Geometry DEF Mapped
  <2>3. HotRight(k)
    BY <2>0, Geometry DEF HotRight, Own, Goal, Holding
  <2>4. ColdRight(k) /\ Counted(k) /\ Survives(k)
    BY <2>0 DEF ColdRight, Counted, Survives, Rechecking, Verifying
  <2>5. QED
    BY <2>1, <2>2, <2>3, <2>4 DEF WorkerInv
<1>4. QED
  BY <1>1, <1>2, <1>3 DEF SoakInv

\* The invariant is inductive.
LEMMA SoakStep == SoakInv /\ [SoakNext]_soakVars => SoakInv'
<1> SUFFICES ASSUME SoakInv, [SoakNext]_soakVars PROVE SoakInv'
  OBVIOUS
<1>0. SoakTypeOK /\ (\A k \in Worker : WorkerInv(k)) /\ NotLess
  BY NeverLess DEF SoakInv
<1>1. Clean'
  BY CleanStep
<1>2. SoakTypeOK'
  BY <1>0, WorkerTypes, OtherTypes DEF SoakNext
<1>3. ASSUME NEW k \in Worker PROVE WorkerInv(k)'
  <2>1. ASSUME NEW w \in Worker, WorkerStep(w) PROVE WorkerInv(k)'
    <3>1. CASE k = w
      BY <1>0, <2>1, <3>1, OwnStep
    <3>2. CASE k # w
      <4>1. SameLocals(k) /\ SameWords(k) /\ SameMaps(k)
        BY <1>0, <2>1, <3>2, OthersAlone
      <4>2. QED
        BY <1>0, <4>1, Untouched
    <3>3. QED
      BY <3>1, <3>2
  <2>2. CASE DeadlinePasses \/ Verdict \/ UNCHANGED soakVars
    BY <1>0, <2>2, TimeStep
  <2>3. CASE Kernel
    BY <1>0, <2>3, KernelStep
  <2>4. QED
    BY <2>1, <2>2, <2>3 DEF SoakNext
<1>4. QED
  BY <1>1, <1>2, <1>3 DEF SoakInv

(***************************************************************************)
(* The invariant holds throughout, with any number of vCPUs, sweeps,       *)
(* cycles and kernel faults, and whatever the size of guest RAM.           *)
(***************************************************************************)
THEOREM SoakInvariant == SoakSpec => []SoakInv
BY SoakInitially, SoakStep, PTL DEF SoakSpec

\* Type correctness: registers, locals and statistics stay in their range.
THEOREM SoakTypes == SoakSpec => []SoakTypeOK
<1>1. SoakInv => SoakTypeOK
  BY DEF SoakInv
<1>2. QED
  BY <1>1, SoakInvariant, PTL

(***************************************************************************)
(* No mismatch is ever counted while the kernel takes only what it was     *)
(* told it may take, at any size of guest RAM: a slot that is not whole    *)
(* pages stops its worker at the unmap, and never shows as corruption.     *)
(***************************************************************************)
THEOREM NothingCounted == SoakSpec => [](lost = {} => stats.mismatches = 0)
<1>1. SoakInv => (lost = {} => stats.mismatches = 0)
  BY DEF SoakInv, Clean
<1>2. QED
  BY <1>1, SoakInvariant, PTL

(***************************************************************************)
(* No false alarm: when every cold half begins on a page, which is what    *)
(* hv_vm_unmap asks, neither is a mismatch counted nor does a worker panic *)
(* before the kernel has lost a live word.                                 *)
(***************************************************************************)
THEOREM SoakNoFalseAlarm ==
  ASSUME \A k \in Worker : Aligned(k)
  PROVE  SoakSpec => []NoFalseAlarm
<1>1. SoakInv => NoFalseAlarm
  BY DEF SoakInv, Clean, NoFalseAlarm, WorkerInv, Survives
<1>2. QED
  BY <1>1, SoakInvariant, PTL

(***************************************************************************)
(* The soak does find what it looks for: a loss that a verify still ahead  *)
(* must see has been counted once that verify has returned, in spite of    *)
(* the sweeps, the fills and the other workers in between.                 *)
(***************************************************************************)
THEOREM SoakLossCounted == SoakSpec => []LossCounted
<1>1. SoakInv => LossCounted
  <2> SUFFICES ASSUME SoakInv PROVE LossCounted
    OBVIOUS
  <2>0. SoakTypeOK /\ \A k \in Worker : WorkerInv(k)
    BY DEF SoakInv
  <2>1. ASSUME NEW k \in Worker, due \cap HotWords(k) # {},
               at[k] \notin OnHot \cup {"create", "plant", "loop", "done", "panicked"}
        PROVE  stats.mismatches > 0
    <3>1. PICK j \in Pages : Hot(k, j) \in due
      BY <2>1, Words
    <3>2. at[k] \in AfterHot
      BY <2>0, <2>1
      DEF SoakTypeOK, Label, Passes, Sweeping, Verifying, OnHot, AfterHot, Away, Rechecking
    <3>3. QED
      BY <2>0, <3>1, <3>2 DEF WorkerInv, Counted
  <2>2. ASSUME NEW k \in Worker, due \cap ColdWords(k) # {}, at[k] \in {"loop", "done"}
        PROVE  stats.mismatches > 0
    <3>1. PICK j \in Pages : Cold(k, j) \in due
      BY <2>2, Words
    <3>2. QED
      BY <2>0, <2>2, <3>1 DEF WorkerInv, ColdRight, Rechecking
  <2>3. QED
    BY <2>1, <2>2 DEF LossCounted
<1>2. QED
  BY <1>1, SoakInvariant, PTL

=============================================================================
