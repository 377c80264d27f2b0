---------------------------- MODULE ToolsProofs ----------------------------
(***************************************************************************)
(* Proofs for the measurement tools: for every size of the RAM, every      *)
(* valid command line and any number of cycles, extents and services.      *)
(*                                                                         *)
(* 1. What is known of the machine between two calls (Known), and what     *)
(*    each call makes of it (Effect); programs whose calls fit (Runs).     *)
(* 2. What is known is true of the machine (Matches): every step keeps it, *)
(*    so ToolsInv is inductive.                                            *)
(* 3. Every tool is a program whose calls fit, so ToolsInv holds at the    *)
(*    start.                                                               *)
(* 4. The theorems.                                                        *)
(***************************************************************************)
EXTENDS ReclaimTools, PressureProofs, FiniteSetTheorems, SequenceTheorems

-----------------------------------------------------------------------------
(* Induction, by the least counterexample. *)

\* A set of naturals that is not empty has a least element.
LEMMA Least ==
  ASSUME NEW T, T \subseteq Nat, T # {}
  PROVE  \E x \in T : \A y \in T : x <= y
<1> DEFINE R == {ss \in Nat \X Nat : ss[1] < ss[2]}
<1>1. IsWellFoundedOn(R, Nat)
  BY NatLessThanWellFounded, Zenon DEF OpToRel
<1>2. \A y \in Nat, x \in Nat : y < x => <<y, x>> \in R
  OBVIOUS
<1> HIDE DEF R
<1>3. PICK x \in T : \A y \in T : ~(<<y, x>> \in R)
  BY <1>1, WFMin
<1>4. ASSUME NEW y \in T PROVE x <= y
  <2>1. ~(y < x)
    BY <1>2, <1>3
  <2>2. QED
    BY <2>1
<1>5. QED
  BY <1>4

\* What the recursive function in Repeat is.
Built(f, n, part) ==
  f = [i \in 0..n |-> IF i = 0 THEN <<>> ELSE f[i - 1] \o part[i]]

\* Such a function exists.
LEMMA Builds ==
  ASSUME NEW part, NEW n \in Nat
  PROVE  \E f : Built(f, n, part)
<1> DEFINE T == {k \in Nat : ~\E f : Built(f, k, part)}
<1> SUFFICES ASSUME T # {} PROVE FALSE
  OBVIOUS
<1>1. PICK k \in T : \A y \in T : k <= y
  BY Least
<1>2. k # 0
  <2>1. Built([i \in 0..0 |-> <<>>], 0, part)
    BY DEF Built
  <2>2. QED
    BY <2>1
<1>3. PICK f : Built(f, k - 1, part)
  BY <1>1, <1>2
<1> DEFINE g == [i \in 0..k |-> IF i = k THEN f[k - 1] \o part[k] ELSE f[i]]
<1>4. \A i \in 0..k : g[i] = IF i = 0 THEN <<>> ELSE g[i - 1] \o part[i]
  <2> TAKE i \in 0..k
  <2>1. f = [j \in 0..k - 1 |-> IF j = 0 THEN <<>> ELSE f[j - 1] \o part[j]]
    BY <1>3 DEF Built
  <2>2. CASE i = k
    BY <1>1, <1>2, <2>2
  <2>3. CASE i # k
    BY <1>1, <1>2, <2>1, <2>3
  <2>4. QED
    BY <2>2, <2>3
<1>5. Built(g, k, part)
  BY <1>4 DEF Built
<1>6. QED
  BY <1>1, <1>5

\* So Repeat is its last value.
LEMMA RepeatDef ==
  ASSUME NEW part, NEW n \in Nat
  PROVE  \E f : Built(f, n, part) /\ Repeat(n, part) = f[n]
<1> DEFINE f == CHOOSE h : h = [i \in 0..n |-> IF i = 0 THEN <<>> ELSE h[i - 1] \o part[i]]
<1>1. f = [i \in 0..n |-> IF i = 0 THEN <<>> ELSE f[i - 1] \o part[i]]
  BY Builds DEF Built
<1>2. Repeat(n, part) = f[n]
  BY DEF Repeat
<1>3. QED
  BY <1>1, <1>2 DEF Built

-----------------------------------------------------------------------------
(***************************************************************************)
(* What is known of the machine between two calls, whatever mappings the   *)
(* kernel chose and whatever it may do on its own:                         *)
(*                                                                         *)
(* ram    the guest's RAM: the pointers that hold it; per page its state,  *)
(*        where "freed" is charged or reusable and "any" is anything but a *)
(*        hole; whether the page is pinned; which pages the guest is       *)
(*        shown; whose marker a page has unless it is gone                 *)
(* can    whether there is a canary, and its marked pages                  *)
(* press  before any pressure ("calm"), about to apply ("braced"), under   *)
(*        the guard ("guard"), or past it ("over")                         *)
(* sampling   the sampling thread                                          *)
(* sur    the survey under way and the pages it has read                   *)
(* regs   the readings: nothing ("zero"), all of the RAM ("full"), "any"   *)
(* n      rows recorded                                                    *)
(* goal   of a fleet run: the pages up at the last MARK, those of the      *)
(*        service that starts or stops next, and the direction             *)
(***************************************************************************)
Kinds == {"hole", "none", "charged", "reusable", "sticky", "freed", "any"}

Is(h, k) ==
  \/ h = k
  \/ k = "freed" /\ h \in {"charged", "reusable"}
  \/ k = "any" /\ h # "hole"

RamKnown ==
  [names : SUBSET {"main", "local"}, kind : [Page -> Kinds],
   pin : [Page -> {"yes", "no", "any"}], shown : SUBSET Page,
   ink : [Page -> {"any", "host", "guest"}]]

CanKnown == [up : {"yes", "no"}, ink : SUBSET Page]
SurKnown == [of : {"none", "ram", "canary"}, k : 0..Pages]
GoalKnown == [upset : SUBSET Page, next : SUBSET Page, trend : {"rising", "falling"}]

Known ==
  [ram : RamKnown, can : CanKnown, press : {"calm", "braced", "guard", "over"},
   sampling : {"off", "on", "ended"}, sur : SurKnown,
   regs : [Reading -> {"zero", "full", "any"}], n : Nat, goal : GoalKnown]

\* The calls.
Ops == {"mmap", "mmap fixed", "munmap", "madvise", "hv_vm_map", "hv_vm_unmap",
        "hv_vm_destroy", "host store", "guest store", "guest load", "read", "let",
        "let pointer", "record", "survey", "peek", "report", "apply", "drop guard",
        "spawn sampler", "mark", "stop sampler", "join sampler"}

Args == {"", "dontneed", "free", "reusable", "host", "guest", "rising", "falling"}

Calls == [op : Ops, of : Pointer \cup Reading, pages : SUBSET Page,
          arg : Args \cup Pointer \cup Reading]

\* The pages surely charged, and those that may be.
Charged(r) == {p \in Page : r.kind[p] = "charged"}
Maybe(r) == {p \in Page : r.kind[p] \in {"charged", "freed", "any"}}

\* In a fleet run the charge stays between the last MARK and the next.
OnGoal(o, a) ==
  o.tool = "fleet" =>
    /\ a.can.up = "no"
    /\ a.goal.trend = "rising" =>
         /\ a.goal.upset \subseteq Charged(a.ram)
         /\ Maybe(a.ram) \subseteq a.goal.upset \cup a.goal.next
    /\ a.goal.trend = "falling" =>
         /\ a.goal.upset \ a.goal.next \subseteq Charged(a.ram)
         /\ Maybe(a.ram) \subseteq a.goal.upset

-----------------------------------------------------------------------------
(* What the calls make of the RAM. *)

Fresh(r, of) ==
  [names |-> {of}, kind |-> [p \in Page |-> "none"], pin |-> [p \in Page |-> "no"],
   shown |-> {}, ink |-> [p \in Page |-> "any"]]

Refreshed(r, ps) ==
  [r EXCEPT !.kind = [p \in Page |-> IF p \in ps THEN "none" ELSE r.kind[p]],
            !.ink = [p \in Page |-> IF p \in ps THEN "any" ELSE r.ink[p]]]

Dropped(r, ps) ==
  [r EXCEPT !.kind = [p \in Page |-> IF p \in ps THEN "hole" ELSE r.kind[p]],
            !.pin = [p \in Page |-> IF p \in ps THEN "no" ELSE r.pin[p]],
            !.ink = [p \in Page |-> IF p \in ps THEN "any" ELSE r.ink[p]]]

Shown(r, ps) == [r EXCEPT !.shown = @ \cup ps]

HiddenKind(k, pin) == IF k = "charged" /\ pin # "no" THEN "freed" ELSE k

Hidden(r, ps) ==
  [r EXCEPT !.shown = @ \ ps,
            !.kind = [p \in Page |-> IF p \in ps THEN HiddenKind(r.kind[p], r.pin[p])
                                     ELSE r.kind[p]],
            !.pin = [p \in Page |-> IF p \in ps THEN "no" ELSE r.pin[p]]]

Unshown(r) == [r EXCEPT !.shown = {}, !.pin = [p \in Page |-> "no"]]

TouchedKind(k) ==
  CASE k = "none" -> "charged"
    [] k \in {"reusable", "sticky", "freed"} -> "any"
    [] OTHER -> k

Touched(r, ps) ==
  [r EXCEPT !.kind = [p \in Page |-> IF p \in ps THEN TouchedKind(r.kind[p])
                                     ELSE r.kind[p]]]

Marked(r, ps, who) ==
  [Touched(r, ps) EXCEPT !.ink = [p \in Page |-> IF p \in ps THEN who ELSE r.ink[p]]]

Stored(r, ps) ==
  [Marked(r, ps, "guest") EXCEPT
     !.pin = [p \in Page |-> IF p \in ps THEN "yes" ELSE r.pin[p]]]

Loaded(r, ps) ==
  [r EXCEPT !.kind = [p \in Page |-> IF p \in ps THEN "any" ELSE r.kind[p]],
            !.pin = [p \in Page |-> IF p \in ps THEN "any" ELSE r.pin[p]]]

AdvisedKind(k, pin, shown, arg) ==
  IF arg # "reusable" \/ k \notin {"charged", "freed"} THEN k
  ELSE IF pin = "no" \/ ~shown THEN "reusable"
  ELSE IF pin = "yes" THEN k
  ELSE "freed"

Advised(r, ps, arg) ==
  [r EXCEPT !.kind = [p \in Page |->
     IF p \in ps THEN AdvisedKind(r.kind[p], r.pin[p], p \in r.shown, arg)
     ELSE r.kind[p]]]

\* Once there is pressure the kernel may take what it likes.
Braced(r) ==
  [r EXCEPT !.kind = [p \in Page |-> IF r.kind[p] = "hole" THEN "hole" ELSE "any"]]

-----------------------------------------------------------------------------
(* What is known after a call c, if a was known before it: b. *)

Change(a, b, r) == b = [a EXCEPT !.ram = r]

AfterMmap(c, a, b) ==
  /\ c.pages = Page
  /\ IF c.of = "canary"
       THEN /\ a.can.up = "no"
            /\ a.ram.names = {} \/ \A p \in Page : a.ram.kind[p] # "hole"
            /\ b = [a EXCEPT !.can = [up |-> "yes", ink |-> {}]]
       ELSE /\ c.of \in {"main", "local"}
            /\ a.press = "calm"
            /\ a.ram.shown = {}
            /\ \A p \in Page : a.ram.kind[p] = "hole" /\ a.ram.pin[p] = "no"
            /\ Change(a, b, Fresh(a.ram, c.of))

AfterMmapFixed(c, a, b) ==
  /\ c.of \in a.ram.names
  /\ a.press = "calm"
  /\ Change(a, b, Refreshed(a.ram, c.pages))

AfterMunmap(c, a, b) ==
  IF c.of = "canary"
    THEN /\ a.can.up = "yes"
         /\ c.pages = Page
         /\ b = [a EXCEPT !.can = [up |-> "no", ink |-> {}]]
    ELSE /\ c.of \in a.ram.names
         /\ c.pages \cap a.ram.shown = {}
         /\ Change(a, b, Dropped(a.ram, c.pages))

AfterMadvise(c, a, b) ==
  IF c.of = "canary"
    THEN /\ a.can.up = "yes"
         /\ a.press = "calm"
         /\ b = [a EXCEPT !.ram = Braced(a.ram), !.press = "braced"]
    ELSE /\ c.of \in a.ram.names
         /\ Change(a, b, Advised(a.ram, c.pages, c.arg))

AfterHvMap(c, a, b) ==
  /\ c.of \in a.ram.names
  /\ c.pages \cap a.ram.shown = {}
  /\ \A p \in c.pages : a.ram.kind[p] # "hole"
  /\ Change(a, b, Shown(a.ram, c.pages))

AfterHvUnmap(c, a, b) ==
  /\ c.of \in a.ram.names
  /\ c.pages \subseteq a.ram.shown
  /\ Change(a, b, Hidden(a.ram, c.pages))

AfterHvDestroy(c, a, b) == c.of \in a.ram.names /\ Change(a, b, Unshown(a.ram))

AfterHostStore(c, a, b) ==
  \E q \in Page :
    /\ c.pages = {q}
    /\ IF c.of = "canary"
         THEN /\ a.can.up = "yes"
              /\ b = [a EXCEPT !.can = [up |-> "yes", ink |-> a.can.ink \cup {q}]]
         ELSE /\ c.of \in a.ram.names
              /\ a.ram.kind[q] # "hole"
              /\ Change(a, b, Marked(a.ram, {q}, "host"))

AfterGuestStore(c, a, b) ==
  \E q \in a.ram.shown : c.pages = {q} /\ Change(a, b, Stored(a.ram, {q}))

AfterGuestLoad(c, a, b) ==
  \E q \in a.ram.shown : c.pages = {q} /\ Change(a, b, Loaded(a.ram, {q}))

\* A reading says something where the charge is known.
Reads(a, v) ==
  /\ v = "zero" => a.can.up = "no" /\ Maybe(a.ram) = {}
  /\ v = "full" => a.can.up = "no" /\ Charged(a.ram) = Page

AfterRead(c, a, b) ==
  /\ c.of \in Reading
  /\ \E v \in {"zero", "full", "any"} :
       Reads(a, v) /\ b = [a EXCEPT !.regs = [a.regs EXCEPT ![c.of] = v]]

AfterLet(c, a, b) ==
  /\ c.of \in Reading /\ c.arg \in Reading
  /\ b = [a EXCEPT !.regs = [a.regs EXCEPT ![c.of] = a.regs[c.arg]]]

AfterLetPointer(c, a, b) ==
  /\ c.of \in {"main", "local"} /\ c.arg \in a.ram.names
  /\ Change(a, b, [a.ram EXCEPT !.names = a.ram.names \cup {c.of}])

\* FullyReclaimed and NotReclaimed of the i-th row.
FullRow(o, i) ==
  \/ o.tool = "time" /\ o.mode = "munmap"
  \/ /\ o.tool = "time" /\ o.mode = "reusable" /\ o.advice = "reusable"
     /\ o.steady => i = 1
  \/ /\ o.tool = "plain" /\ o.advice = "reusable" /\ o.touch # "read"
     /\ o.naive => o.touch = "host"
  \/ o.tool = "calibrate" /\ i = 6

NotRow(o, i) ==
  \/ o.tool = "plain" /\ o.naive /\ o.touch = "guest"
  \/ o.tool = "calibrate" /\ i # 6

RowFits(o, i, c, regs) ==
  /\ o.tool = "time" => c.of = "reclaimed"
  /\ c.of = "dirtied" /\ o.touch # "read" => regs[c.of] = "full" /\ regs[c.arg] = "zero"
  /\ c.of = "reclaimed" /\ FullRow(o, i) => regs[c.of] = "zero" /\ regs[c.arg] = "full"
  /\ c.of = "reclaimed" /\ NotRow(o, i) => regs[c.of] = regs[c.arg] /\ regs[c.arg] # "any"

AfterRecord(o, c, a, b) ==
  /\ c.of \in Reading /\ c.arg \in Reading
  /\ RowFits(o, a.n + 1, c, a.regs)
  /\ b = [a EXCEPT !.n = a.n + 1]

Surveyed(c) == IF c.of = "canary" THEN "canary" ELSE "ram"

AfterSurvey(c, a, b) ==
  /\ IF c.of = "canary" THEN a.can.up = "yes" ELSE c.of \in a.ram.names
  /\ b = [a EXCEPT !.sur = [of |-> Surveyed(c), k |-> 0]]

AfterPeek(c, a, b) ==
  /\ a.sur.of = Surveyed(c) /\ a.sur.k < Pages /\ c.pages = {a.sur.k}
  /\ IF c.of = "canary"
       THEN /\ a.can.up = "yes" /\ a.can.ink = Page /\ c.arg = "host"
            /\ b = [a EXCEPT !.sur = [of |-> "canary", k |-> a.sur.k + 1]]
       ELSE /\ c.of \in a.ram.names
            /\ c.arg # "any"
            /\ \A p \in Page : a.ram.ink[p] = c.arg
            /\ b = [a EXCEPT !.ram = Touched(a.ram, {a.sur.k}),
                             !.sur = [of |-> "ram", k |-> a.sur.k + 1]]

AfterReport(c, a, b) ==
  /\ a.sur.of = Surveyed(c) /\ a.sur.k = Pages
  /\ IF c.of = "canary" THEN a.can.up = "yes" ELSE c.of \in a.ram.names
  /\ b = [a EXCEPT !.sur = [of |-> "none", k |-> 0]]

AfterApply(c, a, b) == a.press = "braced" /\ b = [a EXCEPT !.press = "guard"]

AfterDrop(c, a, b) == a.press = "guard" /\ b = [a EXCEPT !.press = "over"]

AfterSpawn(c, a, b) == a.sampling = "off" /\ b = [a EXCEPT !.sampling = "on"]

AfterJoin(c, a, b) == a.sampling = "on" /\ b = [a EXCEPT !.sampling = "ended"]

AfterMark(o, c, a, b) ==
  /\ a.can.up = "no"
  /\ Charged(a.ram) = c.pages /\ Maybe(a.ram) = c.pages
  /\ c.arg \in {"rising", "falling"}
  /\ \E next \in SUBSET Page :
       /\ Cardinality(next) <= o.region
       /\ b = [a EXCEPT !.goal = [upset |-> c.pages, next |-> next, trend |-> c.arg]]

Effect(o, c, a, b) ==
  /\ c.op \in Ops
  /\ OnGoal(o, b)
  /\ c.op \notin {"peek", "report"} => a.sur.of = "none"
  /\ c.op = "mmap" => AfterMmap(c, a, b)
  /\ c.op = "mmap fixed" => AfterMmapFixed(c, a, b)
  /\ c.op = "munmap" => AfterMunmap(c, a, b)
  /\ c.op = "madvise" => AfterMadvise(c, a, b)
  /\ c.op = "hv_vm_map" => AfterHvMap(c, a, b)
  /\ c.op = "hv_vm_unmap" => AfterHvUnmap(c, a, b)
  /\ c.op = "hv_vm_destroy" => AfterHvDestroy(c, a, b)
  /\ c.op = "host store" => AfterHostStore(c, a, b)
  /\ c.op = "guest store" => AfterGuestStore(c, a, b)
  /\ c.op = "guest load" => AfterGuestLoad(c, a, b)
  /\ c.op = "read" => AfterRead(c, a, b)
  /\ c.op = "let" => AfterLet(c, a, b)
  /\ c.op = "let pointer" => AfterLetPointer(c, a, b)
  /\ c.op = "record" => AfterRecord(o, c, a, b)
  /\ c.op = "survey" => AfterSurvey(c, a, b)
  /\ c.op = "peek" => AfterPeek(c, a, b)
  /\ c.op = "report" => AfterReport(c, a, b)
  /\ c.op = "apply" => AfterApply(c, a, b)
  /\ c.op = "drop guard" => AfterDrop(c, a, b)
  /\ c.op = "spawn sampler" => AfterSpawn(c, a, b)
  /\ c.op = "mark" => AfterMark(o, c, a, b)
  /\ c.op = "stop sampler" => b = a
  /\ c.op = "join sampler" => AfterJoin(c, a, b)

\* A program fits: there is something known at every point of it.
Takes(o, p, a, b) ==
  \E f \in [0..Len(p) -> Known] :
    /\ f[0] = a /\ f[Len(p)] = b
    /\ \A i \in 1..Len(p) : Effect(o, p[i], f[i - 1], f[i])

-----------------------------------------------------------------------------
(* Programs that fit, put together. *)

Runs(o, p, a, b) == p \in Seq(Calls) /\ a \in Known /\ b \in Known /\ Takes(o, p, a, b)

\* A list with a fact for every place.
LEMMA RunsList ==
  ASSUME NEW o, NEW n \in Nat, NEW p \in [1..n -> Calls], NEW f \in [0..n -> Known],
         \A i \in 1..n : Effect(o, p[i], f[i - 1], f[i])
  PROVE  Runs(o, p, f[0], f[n])
<1>1. p \in Seq(Calls) /\ Len(p) = n
  BY LenProperties
<1>2. QED
  BY <1>1 DEF Runs, Takes

\* No call at all.
LEMMA RunsNothing == \A o, a : a \in Known => Runs(o, <<>>, a, a)
<1> SUFFICES ASSUME NEW o, NEW a \in Known PROVE Runs(o, <<>>, a, a)
  OBVIOUS
<1> DEFINE f == [i \in 0..0 |-> a]
<1>1. f \in [0..0 -> Known] /\ f[0] = a /\ <<>> \in [1..0 -> Calls]
  OBVIOUS
<1> HIDE DEF f
<1>2. Runs(o, <<>>, f[0], f[0])
  BY <1>1, RunsList
<1>3. QED
  BY <1>1, <1>2

\* One call.
LEMMA RunsOne ==
  ASSUME NEW o, NEW c \in Calls, NEW a \in Known, NEW b \in Known, Effect(o, c, a, b)
  PROVE  Runs(o, <<c>>, a, b)
<1> DEFINE f == [i \in 0..1 |-> IF i = 0 THEN a ELSE b]
<1>1. f \in [0..1 -> Known] /\ f[0] = a /\ f[1] = b
  OBVIOUS
<1>2. <<c>> \in [1..1 -> Calls] /\ <<c>>[1] = c
  OBVIOUS
<1> HIDE DEF f
<1>3. \A i \in 1..1 : Effect(o, <<c>>[i], f[i - 1], f[i])
  BY <1>1, <1>2
<1>4. Runs(o, <<c>>, f[0], f[1])
  BY <1>1, <1>2, <1>3, RunsList
<1>5. QED
  BY <1>1, <1>4

\* One program and then another.
LEMMA RunsBoth ==
  ASSUME NEW o, NEW p, NEW q, NEW a, NEW b, NEW c,
         Runs(o, p, a, b), Runs(o, q, b, c)
  PROVE  Runs(o, p \o q, a, c)
<1>0. p \in Seq(Calls) /\ q \in Seq(Calls) /\ a \in Known /\ b \in Known /\ c \in Known
  BY DEF Runs
<1>1. PICK f \in [0..Len(p) -> Known] :
        /\ f[0] = a /\ f[Len(p)] = b
        /\ \A i \in 1..Len(p) : Effect(o, p[i], f[i - 1], f[i])
  BY DEF Runs, Takes
<1>2. PICK g \in [0..Len(q) -> Known] :
        /\ g[0] = b /\ g[Len(q)] = c
        /\ \A i \in 1..Len(q) : Effect(o, q[i], g[i - 1], g[i])
  BY DEF Runs, Takes
<1> DEFINE h == [i \in 0..Len(p \o q) |-> IF i <= Len(p) THEN f[i] ELSE g[i - Len(p)]]
<1>3. Len(p \o q) = Len(p) + Len(q) /\ Len(p) \in Nat /\ Len(q) \in Nat
  BY <1>0
<1>4. h \in [0..Len(p \o q) -> Known]
  BY <1>3
<1>5. h[0] = a /\ h[Len(p \o q)] = c
  BY <1>1, <1>2, <1>3
<1>6. ASSUME NEW i \in 1..Len(p \o q) PROVE Effect(o, (p \o q)[i], h[i - 1], h[i])
  <2>1. CASE i <= Len(p)
    <3>1. (p \o q)[i] = p[i] /\ h[i - 1] = f[i - 1] /\ h[i] = f[i] /\ i \in 1..Len(p)
      BY <1>0, <1>3, <2>1
    <3>2. QED
      BY <1>1, <3>1
  <2>2. CASE i > Len(p)
    <3> DEFINE j == i - Len(p)
    <3>1. (p \o q)[i] = q[j] /\ h[i - 1] = g[j - 1] /\ h[i] = g[j] /\ j \in 1..Len(q)
      <4>1. j \in 1..Len(q) /\ i \in 1..Len(p) + Len(q)
        BY <1>3, <2>2
      <4>2. (p \o q)[i] = q[j]
        BY <1>0, <1>3, <2>2, <4>1
      <4>3. h[i] = g[j]
        BY <1>3, <2>2, <4>1
      <4>4. h[i - 1] = g[j - 1]
        <5>1. CASE j = 1
          BY <1>1, <1>2, <1>3, <2>2, <4>1, <5>1
        <5>2. CASE j # 1
          BY <1>3, <2>2, <4>1, <5>2
        <5>3. QED
          BY <5>1, <5>2
      <4>5. QED
        BY <4>1, <4>2, <4>3, <4>4
    <3>2. QED
      BY <1>2, <3>1
  <2>3. QED
    BY <1>3, <2>1, <2>2
<1>7. p \o q \in Seq(Calls)
  BY <1>0
<1>8. QED
  BY <1>0, <1>4, <1>5, <1>6, <1>7 DEF Runs, Takes

\* The first call of a program that fits, and what is left of it.
LEMMA RunsHead ==
  ASSUME NEW o, NEW p, NEW a, NEW e, Runs(o, p, a, e), p # <<>>
  PROVE  /\ Head(p) \in Calls
         /\ \E b \in Known : Effect(o, Head(p), a, b) /\ Runs(o, Tail(p), b, e)
<1>0. p \in Seq(Calls) /\ a \in Known /\ e \in Known
  BY DEF Runs
<1>1. PICK f \in [0..Len(p) -> Known] :
        /\ f[0] = a /\ f[Len(p)] = e
        /\ \A i \in 1..Len(p) : Effect(o, p[i], f[i - 1], f[i])
  BY DEF Runs, Takes
<1>2. /\ Len(p) \in Nat \ {0} /\ Head(p) = p[1] /\ p[1] \in Calls
      /\ Tail(p) \in Seq(Calls) /\ Len(Tail(p)) = Len(p) - 1
      /\ \A i \in 1..Len(p) - 1 : Tail(p)[i] = p[i + 1]
  BY <1>0
<1> DEFINE g == [i \in 0..Len(Tail(p)) |-> f[i + 1]]
<1>3. g \in [0..Len(Tail(p)) -> Known] /\ g[0] = f[1] /\ g[Len(Tail(p))] = e
  BY <1>1, <1>2
<1>4. \A i \in 1..Len(Tail(p)) : Effect(o, Tail(p)[i], g[i - 1], g[i])
  <2> TAKE i \in 1..Len(Tail(p))
  <2>1. g[i - 1] = f[i] /\ g[i] = f[i + 1] /\ Tail(p)[i] = p[i + 1] /\ i + 1 \in 1..Len(p)
    BY <1>2
  <2>2. Effect(o, p[i + 1], f[(i + 1) - 1], f[i + 1])
    BY <1>1, <2>1
  <2>3. (i + 1) - 1 = i
    OBVIOUS
  <2>4. QED
    BY <2>1, <2>2, <2>3
<1>5. Effect(o, p[1], f[1 - 1], f[1]) /\ 1 - 1 = 0 /\ f[1] \in Known
  BY <1>1, <1>2
<1>6. Runs(o, Tail(p), f[1], e)
  BY <1>0, <1>2, <1>3, <1>4, <1>5 DEF Runs, Takes
<1>7. QED
  BY <1>1, <1>2, <1>5, <1>6

\* Part after part, each with what is known before and after it.
LEMMA RunsRepeat ==
  ASSUME NEW o, NEW n \in Nat, NEW part, NEW s,
         s[0] \in Known,
         \A i \in 1..n : Runs(o, part[i], s[i - 1], s[i])
  PROVE  Runs(o, Repeat(n, part), s[0], s[n])
<1>1. PICK f : Built(f, n, part) /\ Repeat(n, part) = f[n]
  BY RepeatDef
<1>2. \A i \in 0..n : f[i] = IF i = 0 THEN <<>> ELSE f[i - 1] \o part[i]
  BY <1>1 DEF Built
<1> DEFINE T == {i \in 0..n : ~Runs(o, f[i], s[0], s[i])}
<1>3. CASE T = {}
  <2>1. n \in 0..n
    OBVIOUS
  <2>2. QED
    BY <1>1, <1>3, <2>1
<1>4. CASE T # {}
  <2>1. PICK k \in T : \A y \in T : k <= y
    <3>1. T \subseteq Nat
      OBVIOUS
    <3> HIDE DEF T
    <3>2. QED
      BY <1>4, <3>1, Least
  <2>2. k \in 0..n /\ ~Runs(o, f[k], s[0], s[k])
    BY <2>1
  <2>3. k # 0
    BY <1>2, <2>2, RunsNothing
  <2>4. k - 1 \in 0..n /\ k \in 1..n /\ ~(k <= k - 1)
    BY <2>2, <2>3
  <2>5. Runs(o, f[k - 1], s[0], s[k - 1])
    BY <2>1, <2>4
  <2>6. f[k] = f[k - 1] \o part[k] /\ Runs(o, part[k], s[k - 1], s[k])
    BY <1>2, <2>2, <2>3, <2>4
  <2>7. Runs(o, f[k], s[0], s[k])
    BY <2>5, <2>6, RunsBoth
  <2>8. QED
    BY <2>2, <2>7
<1>5. QED
  BY <1>3, <1>4

-----------------------------------------------------------------------------
(***************************************************************************)
(* What is known is true of the machine.  m is the mapping that is the     *)
(* RAM and c the one that is the canary, 0 if there is none.               *)
(***************************************************************************)
MapsMatch(a, m, c) ==
  /\ m \in 0..MaxMaps /\ c \in 0..MaxMaps
  /\ m = c => m = 0
  /\ m = 0 => a.ram.names = {}
  /\ m # 0 => a.ram.names # {}
  /\ a.can.up = "yes" => c # 0
  /\ a.can.up = "no" => c = 0 /\ a.can.ink = {}
  /\ \A x \in a.ram.names : env[x] = m
  /\ c # 0 => env["canary"] = c
  /\ \A k \in Mapping, p \in Page : k # m /\ k # c => host[k][p] = "hole"

KindsMatch(a, m, c) ==
  /\ m = 0 => \A p \in Page : a.ram.kind[p] = "hole"
  /\ m # 0 => \A p \in Page : Is(host[m][p], a.ram.kind[p])
  /\ c # 0 => \A p \in Page : host[c][p] # "hole"
  /\ a.press # "calm" => \A p \in Page : a.ram.kind[p] \in {"hole", "any"}

ShownMatch(a, m) ==
  /\ \A p \in a.ram.shown : stage2[p] = m /\ a.ram.kind[p] # "hole"
  /\ \A p \in Page \ a.ram.shown : stage2[p] = 0

PinsMatch(a, m) ==
  /\ \A x \in pinned : x[1] = m
  /\ \A p \in Page : a.ram.pin[p] = "yes" => <<m, p>> \in pinned
  /\ \A p \in Page : a.ram.pin[p] = "no" => <<m, p>> \notin pinned

\* A page has the marker, or the kernel has taken it.
Inked(k, p, who) ==
  \/ val[k][p] = who /\ <<k, p>> \notin gone
  \/ val[k][p] = "zero" /\ <<k, p>> \in gone

InksMatch(a, m, c) ==
  /\ \A p \in Page : a.ram.ink[p] # "any" => m # 0 /\ Inked(m, p, a.ram.ink[p])
  /\ \A p \in a.can.ink : Inked(c, p, "host")

PressMatch(a) ==
  /\ a.press = "calm" => app = "idle" /\ held = 0
  /\ a.press = "braced" => app \in {"idle", "reading"}
  /\ a.press = "guard" => app = "ok"
  /\ a.press = "over" => app = "dropped"
  /\ app = "reading" => todo # <<>> /\ Head(todo).op = "apply"

Lost(k, lo, hi) == gone \cap ({k} \X (lo..hi - 1))

(***************************************************************************)
(* A survey has counted no page that is not gone, and misses none of those *)
(* gone when it began but the ones it has yet to read.                     *)
(***************************************************************************)
SurveyMatch(a, m, c) ==
  LET s == IF a.sur.of = "canary" THEN c ELSE m IN
  a.sur.of # "none" =>
    /\ tally <= Cardinality(Lost(s, 0, a.sur.k))
    /\ from <= tally + Cardinality(Lost(s, a.sur.k, Pages))

BookMatch(a) ==
  /\ \A r \in Reading : a.regs[r] = "zero" => reg[r] = 0
  /\ \A r \in Reading : a.regs[r] = "full" => reg[r] = Pages
  /\ a.n = Len(rows)

SamplerMatch(a) ==
  /\ a.sampling = "off" => sampler = "off"
  /\ a.sampling = "on" => sampler \in {"idle", "read", "ended"}
  /\ a.sampling = "ended" => sampler = "ended"

GoalMatch(a) ==
  /\ OnGoal(opts, a)
  /\ opts.tool = "fleet" =>
       /\ up = [pages |-> Cardinality(a.goal.upset), trend |-> a.goal.trend]
       /\ Cardinality(a.goal.next) <= opts.region

Matches(a, m, c) ==
  /\ MapsMatch(a, m, c) /\ KindsMatch(a, m, c) /\ ShownMatch(a, m) /\ PinsMatch(a, m)
  /\ InksMatch(a, m, c) /\ PressMatch(a) /\ SurveyMatch(a, m, c) /\ BookMatch(a)
  /\ SamplerMatch(a) /\ GoalMatch(a)

\* What a tool leaves when it has ended.
Final(e) ==
  /\ \A p \in Page : e.ram.kind[p] = "hole"
  /\ e.ram.shown = {}
  /\ e.can.up = "no"
  /\ e.press \in {"calm", "over"}
  /\ e.sampling \in {"off", "ended"}

-----------------------------------------------------------------------------
(* The inductive invariant. *)

RowsRight ==
  /\ rows \in Seq([after : Reading, before : Reading, delta : Int])
  /\ opts.tool = "time" => \A i \in DOMAIN rows : rows[i].after = "reclaimed"
  /\ RowsValid

\* The values a SAMPLE may have between the last MARK and the next.
Between(u) ==
  IF u.trend = "rising" THEN u.pages..(u.pages + opts.region)
                        ELSE (u.pages - opts.region)..u.pages

SamplesRight ==
  opts.tool = "fleet" =>
    /\ sampler = "read" /\ since >= 1 => seen \in Between(up)
    /\ since = 2 => sample \in Between(up)

Following ==
  \E a \in Known, e \in Known, m \in 0..MaxMaps, c \in 0..MaxMaps :
    Runs(opts, todo, a, e) /\ Final(e) /\ Matches(a, m, c)

ToolsInv ==
  /\ ToolsTypeOK /\ PressureInv
  /\ loads \in [charge : BOOLEAN, pin : BOOLEAN]
  /\ Stage2Backed /\ NothingLeft /\ RowsRight /\ SurveysHonest /\ SamplesRight
  /\ status # "refused"
  /\ status = "running" => Following
  /\ status # "running" => todo = <<>>

(***************************************************************************)
(* The invariant without what only some calls touch: the types of the      *)
(* machine, and what is known of it.                                       *)
(***************************************************************************)
Here(a, b, m, c) ==
  /\ MachineTypeOK /\ Running /\ todo # <<>>
  /\ It \in Calls /\ a \in Known /\ b \in Known
  /\ Matches(a, m, c) /\ Effect(opts, It, a, b)

-----------------------------------------------------------------------------
(* Each call leads from what is known before it to what is known after.    *)

\* The parts that a call of the address space leaves alone.
LEMMA Rest ==
  ASSUME NEW a, NEW b, NEW m, NEW c, Here(a, b, m, c),
         It.op \notin {"apply", "drop guard", "survey", "peek", "report"},
         a.sur = b.sur, b.press = a.press, b.regs = a.regs, b.n = a.n,
         b.sampling = a.sampling, b.goal = a.goal,
         UNCHANGED <<reg, rows, surveyVars, sampleVars, pressureVars, opts>>
  PROVE  /\ app # "reading" /\ a.sur.of = "none"
         /\ todo' = Tail(todo) => PressMatch(b)'
         /\ \A x, y : SurveyMatch(b, x, y)'
         /\ BookMatch(b)' /\ SamplerMatch(b)' /\ GoalMatch(b)'
<1>1. Matches(a, m, c) /\ Effect(opts, It, a, b)
  BY DEF Here
<1>2. a.sur.of = "none" /\ OnGoal(opts, b)
  BY <1>1 DEF Effect
<1>3. app # "reading"
  BY <1>1 DEF Matches, PressMatch, It
<1>4. todo' = Tail(todo) => PressMatch(b)'
  BY <1>1, <1>3 DEF Matches, PressMatch, pressureVars
<1>5. \A x, y : SurveyMatch(b, x, y)'
  BY <1>2 DEF SurveyMatch
<1>6. BookMatch(b)'
  BY <1>1 DEF Matches, BookMatch
<1>7. SamplerMatch(b)'
  BY <1>1 DEF Matches, SamplerMatch, sampleVars
<1>8. GoalMatch(b)'
  <2>1. OnGoal(opts, b)'
    BY <1>2 DEF OnGoal, Charged, Maybe
  <2>2. QED
    BY <1>1, <2>1 DEF Matches, GoalMatch, sampleVars
<1>9. QED
  BY <1>2, <1>3, <1>4, <1>5, <1>6, <1>7, <1>8

Lands(b) ==
  /\ MachineTypeOK
  /\ \E m \in 0..MaxMaps, c \in 0..MaxMaps : Matches(b, m, c)

\* mmap, of the RAM or of a canary.
LEMMA MmapLands ==
  ASSUME NEW a, NEW b, NEW m, NEW c, Here(a, b, m, c), Mmap, UNCHANGED fixedVars
  PROVE  Lands(b)' /\ Step
<1>1. PICK k \in Mapping :
       /\ \A p \in Page : host[k][p] = "hole"
       /\ host' = [host EXCEPT ![k] = [p \in Page |-> IF p \in It.pages THEN "none" ELSE host[k][p]]]
       /\ val' = [val EXCEPT ![k] = [p \in Page |-> IF p \in It.pages THEN "zero" ELSE val[k][p]]]
       /\ env' = [env EXCEPT ![It.of] = k]
  BY DEF Mmap, OnPages
<1>2. /\ It.op = "mmap" /\ It.pages = Page /\ Step
      /\ UNCHANGED <<stage2, pinned, loose, gone, reg, rows, surveyVars,
                     sampleVars, pressureVars, opts>>
      /\ a \in Known /\ b \in Known /\ AfterMmap(It, a, b)
  BY DEF Mmap, Now, Here, It, Effect, fixedVars, AfterMmap
<1>3. MapsMatch(a, m, c) /\ KindsMatch(a, m, c) /\ ShownMatch(a, m) /\ PinsMatch(a, m) /\ InksMatch(a, m, c)
  BY DEF Here, Matches
<1>4. MachineTypeOK
  BY DEF Here
<1>5. /\ host' \in [Mapping -> [Page -> {"hole", "none", "charged", "reusable", "sticky"}]]
      /\ \A p \in Page : host'[k][p] = "none" /\ val'[k][p] = "zero"
      /\ \A j \in Mapping, p \in Page : j # k => host'[j][p] = host[j][p] /\ val'[j][p] = val[j][p]
  BY <1>1, <1>2, <1>4 DEF MachineTypeOK
<1>6. CASE It.of = "canary"
  <2>1. /\ a.can.up = "no" /\ b.can = [up |-> "yes", ink |-> {}]
        /\ a.ram.names = {} \/ \A p \in Page : a.ram.kind[p] # "hole"
        /\ b.ram = a.ram /\ b.sur = a.sur /\ b.press = a.press /\ b.regs = a.regs
        /\ b.n = a.n /\ b.sampling = a.sampling /\ b.goal = a.goal
    BY <1>2, <1>6 DEF AfterMmap, Known
  <2>2. k # m
    <3>1. 0 \in Page /\ k # 0
      BY MachineAssumption DEF Page, Mapping
    <3>2. ASSUME m # 0, \A p \in Page : a.ram.kind[p] # "hole" PROVE host[m][0] # "hole"
      BY <1>3, <3>1, <3>2 DEF KindsMatch, Is
    <3>3. QED
      BY <1>1, <1>3, <2>1, <3>1, <3>2 DEF MapsMatch
  <2>3. MachineTypeOK'
    BY <1>1, <1>2, <1>4, <1>5, <1>6 DEF MachineTypeOK, Pointer, Mapping, surveyVars, sampleVars, Step
  <2>4. MapsMatch(b, m, k)'
    <3>1. k \in 0..MaxMaps /\ k # 0 /\ c = 0
      BY <1>3, <2>1 DEF Mapping, MapsMatch
    <3>2. a.ram.names \subseteq {"main", "local"}
      BY <1>2 DEF Known, RamKnown
    <3>3. env' \in [Pointer -> 0..MaxMaps] /\ env'["canary"] = k
          /\ \A x \in a.ram.names : env'[x] = env[x]
      BY <1>1, <1>4, <1>6, <3>1, <3>2 DEF MachineTypeOK, Pointer
    <3>4. \A j \in Mapping, p \in Page : j # m /\ j # k => host'[j][p] = "hole"
      BY <1>3, <1>5, <3>1 DEF MapsMatch, Mapping
    <3>5. QED
      BY <1>3, <2>1, <2>2, <3>1, <3>3, <3>4 DEF MapsMatch
  <2>5. KindsMatch(b, m, k)'
    BY <1>1, <1>2, <1>3, <1>5, <2>1, <2>2 DEF KindsMatch, MapsMatch, Mapping
  <2>6. ShownMatch(b, m)' /\ PinsMatch(b, m)'
    BY <1>2, <1>3, <2>1 DEF ShownMatch, PinsMatch
  <2>7. InksMatch(b, m, k)'
    BY <1>2, <1>3, <1>5, <2>1, <2>2 DEF InksMatch, Inked, MapsMatch, Mapping
  <2>8. QED
    BY <1>2, <1>3, <1>1, <2>1, <2>3, <2>4, <2>5, <2>6, <2>7, Rest
    DEF Lands, Matches, MapsMatch, Mapping, Step
<1>7. CASE It.of # "canary"
  <2>1. /\ It.of \in {"main", "local"} /\ a.press = "calm" /\ a.ram.shown = {}
        /\ \A p \in Page : a.ram.kind[p] = "hole" /\ a.ram.pin[p] = "no"
        /\ b.ram = Fresh(a.ram, It.of)
        /\ b.can = a.can /\ b.sur = a.sur /\ b.press = a.press /\ b.regs = a.regs
        /\ b.n = a.n /\ b.sampling = a.sampling /\ b.goal = a.goal
    BY <1>2, <1>7 DEF AfterMmap, Change, Known
  <2>2. k # c
    BY <1>1, <1>3, MachineAssumption DEF KindsMatch, Page, Mapping
  <2>3. MachineTypeOK'
    BY <1>1, <1>2, <1>4, <1>5, <2>1 DEF MachineTypeOK, Pointer, Mapping, surveyVars, sampleVars, Step
  <2>4. MapsMatch(b, k, c)'
    <3>1. \A j \in Mapping, p \in Page : j # k /\ j # c => host'[j][p] = "hole"
      <4> TAKE j \in Mapping, p \in Page
      <4>1. CASE j = m
        BY <1>3, <1>5, <2>1, <4>1 DEF KindsMatch, Is, Mapping
      <4>2. CASE j # m
        BY <1>3, <1>5, <4>2 DEF MapsMatch
      <4>3. QED
        BY <4>1, <4>2
    <3>2. QED
      BY <1>1, <1>3, <1>4, <2>1, <2>2, <3>1
      DEF MapsMatch, Mapping, MachineTypeOK, Pointer, Fresh
  <2>5. KindsMatch(b, k, c)'
    BY <1>3, <1>5, <2>1, <2>2 DEF KindsMatch, MapsMatch, Mapping, Fresh, Is
  <2>6. ShownMatch(b, k)'
    BY <1>2, <1>3, <2>1 DEF ShownMatch, Fresh
  <2>7. PinsMatch(b, k)'
    <3>1. pinned = {}
      <4>1. pinned \subseteq Mapping \X Page
        BY <1>4 DEF MachineTypeOK
      <4>2. QED
        BY <1>3, <2>1, <4>1 DEF PinsMatch
    <3>2. QED
      BY <1>2, <2>1, <3>1 DEF PinsMatch, Fresh
  <2>8. InksMatch(b, k, c)'
    <3>1. a.can.ink \subseteq Page /\ (a.can.ink # {} => c \in Mapping)
      BY <1>2, <1>3 DEF Known, CanKnown, MapsMatch, Mapping
    <3>2. \A p \in a.can.ink : Inked(c, p, "host")'
      BY <1>2, <1>3, <1>5, <2>2, <3>1 DEF InksMatch, Inked
    <3>3. QED
      BY <2>1, <3>2 DEF InksMatch, Fresh
  <2>9. QED
    BY <1>2, <1>3, <1>1, <2>1, <2>3, <2>4, <2>5, <2>6, <2>7, <2>8, Rest
    DEF Lands, Matches, MapsMatch, Mapping, Step
<1>8. QED
  BY <1>6, <1>7

\* What holds before a call, spelled out.
LEMMA Facts ==
  ASSUME NEW a, NEW b, NEW m, NEW c, Here(a, b, m, c)
  PROVE  /\ MachineTypeOK /\ Running /\ It \in Calls /\ It.pages \subseteq Page
         /\ a \in Known /\ b \in Known
         /\ MapsMatch(a, m, c) /\ KindsMatch(a, m, c) /\ ShownMatch(a, m)
         /\ PinsMatch(a, m) /\ InksMatch(a, m, c)
         /\ a.ram.names \subseteq {"main", "local"}
         /\ a.ram.names # {} => m \in Mapping /\ \A x \in a.ram.names : env[x] = m
         /\ a.ram.kind \in [Page -> Kinds] /\ a.ram.pin \in [Page -> {"yes", "no", "any"}]
         /\ a.ram.shown \subseteq Page /\ a.can.ink \subseteq Page
         /\ a.ram.shown # {} => m \in Mapping
         /\ a.can.up = "yes" => c \in Mapping /\ env["canary"] = c
         /\ c # 0 => a.can.up = "yes"
         /\ a.can.ink # {} => a.can.up = "yes"
         /\ m # c \/ m = 0
<1>1. a \in Known /\ b \in Known /\ It \in Calls /\ Matches(a, m, c) /\ MachineTypeOK /\ Running
  BY DEF Here
<1>2. MapsMatch(a, m, c) /\ KindsMatch(a, m, c) /\ ShownMatch(a, m) /\ PinsMatch(a, m) /\ InksMatch(a, m, c)
  BY <1>1 DEF Matches
<1>3. /\ a.ram.names \subseteq {"main", "local"} /\ a.ram.shown \subseteq Page
      /\ a.can.ink \subseteq Page /\ a.can.up \in {"yes", "no"}
      /\ a.ram.kind \in [Page -> Kinds] /\ a.ram.pin \in [Page -> {"yes", "no", "any"}]
      /\ It.pages \subseteq Page
  BY <1>1 DEF Known, RamKnown, CanKnown, Calls
<1>4. a.ram.shown # {} => m \in Mapping
  BY <1>2, <1>3 DEF ShownMatch, KindsMatch, MapsMatch, Mapping
<1>5. QED
  BY <1>1, <1>2, <1>3, <1>4 DEF MapsMatch, Mapping

\* A change of the RAM leaves the rest of what is known alone.
LEMMA Changed ==
  ASSUME NEW a \in Known, NEW b, NEW r, Change(a, b, r)
  PROVE  /\ b.ram = r /\ b.can = a.can /\ b.sur = a.sur /\ b.press = a.press
         /\ b.regs = a.regs /\ b.n = a.n /\ b.sampling = a.sampling /\ b.goal = a.goal
  BY DEF Change, Known

AddressOps == {"mmap", "mmap fixed", "munmap", "madvise", "hv_vm_map", "hv_vm_unmap",
               "hv_vm_destroy", "host store", "guest store", "guest load"}

\* A call that is about the RAM alone.
LEMMA RamLands ==
  ASSUME NEW a, NEW b, NEW m, NEW c, Here(a, b, m, c), It.op \in AddressOps,
         m \in Mapping, Change(a, b, b.ram), b.ram.names = a.ram.names,
         MachineTypeOK',
         \A j \in Mapping : j # m => host'[j] = host[j] /\ val'[j] = val[j],
         \A j \in Mapping, p \in Page : j # m => (<<j, p>> \in gone' <=> <<j, p>> \in gone),
         \A p \in Page : Is(host'[m][p], b.ram.kind[p]),
         a.press # "calm" => \A p \in Page : b.ram.kind[p] \in {"hole", "any"},
         ShownMatch(b, m)', PinsMatch(b, m)',
         \A p \in Page : b.ram.ink[p] # "any" => Inked(m, p, b.ram.ink[p])',
         UNCHANGED <<env, reg, rows, surveyVars, sampleVars, pressureVars, opts>>,
         todo' = Tail(todo)
  PROVE  Lands(b)'
<1>1. a \in Known /\ MapsMatch(a, m, c) /\ KindsMatch(a, m, c) /\ InksMatch(a, m, c)
      /\ m # c /\ m # 0 /\ a.can.ink \subseteq Page
      /\ (c # 0 => c \in Mapping) /\ (a.can.ink # {} => c \in Mapping)
  BY Facts DEF Mapping
<1>2. /\ b.can = a.can /\ b.sur = a.sur /\ b.press = a.press
      /\ b.regs = a.regs /\ b.n = a.n /\ b.sampling = a.sampling /\ b.goal = a.goal
  BY <1>1, Changed
<1>3. MapsMatch(b, m, c)'
  <2>1. \A j \in Mapping, p \in Page : j # m /\ j # c => host'[j][p] = "hole"
    BY <1>1 DEF MapsMatch
  <2>2. QED
    BY <1>1, <1>2, <2>1 DEF MapsMatch
<1>4. KindsMatch(b, m, c)'
  BY <1>1, <1>2 DEF KindsMatch
<1>5. InksMatch(b, m, c)'
  <2>1. \A p \in a.can.ink : Inked(c, p, "host")'
    BY <1>1 DEF InksMatch, Inked
  <2>2. QED
    BY <1>1, <1>2, <2>1 DEF InksMatch
<1>6. /\ PressMatch(b)' /\ SurveyMatch(b, m, c)' /\ BookMatch(b)'
      /\ SamplerMatch(b)' /\ GoalMatch(b)'
  BY <1>2, Rest DEF AddressOps
<1>7. Matches(b, m, c)' /\ m \in 0..MaxMaps /\ c \in 0..MaxMaps
  BY <1>1, <1>3, <1>4, <1>5, <1>6 DEF Matches, MapsMatch
<1>8. QED
  BY <1>7 DEF Lands

\* mmap(MAP_FIXED) over an extent of the RAM.
LEMMA MmapFixedLands ==
  ASSUME NEW a, NEW b, NEW m, NEW c, Here(a, b, m, c), MmapFixed, UNCHANGED fixedVars
  PROVE  Lands(b)' /\ Step
<1>1. It.op = "mmap fixed" /\ AfterMmapFixed(It, a, b)
  BY DEF MmapFixed, Now, Here, It, Effect
<1>2. It.of \in a.ram.names /\ a.press = "calm" /\ Change(a, b, Refreshed(a.ram, It.pages))
  BY <1>1 DEF AfterMmapFixed
<1>3. Map = m /\ m \in Mapping /\ MachineTypeOK /\ KindsMatch(a, m, c) /\ ShownMatch(a, m)
      /\ PinsMatch(a, m) /\ InksMatch(a, m, c) /\ a \in Known /\ m # 0 /\ It.pages \subseteq Page
      /\ a.ram.shown \subseteq Page
  BY <1>2, Facts DEF Map, Mapping
<1>4. /\ host' = [host EXCEPT ![m] = [p \in Page |-> IF p \in It.pages THEN "none" ELSE host[m][p]]]
      /\ val' = [val EXCEPT ![m] = [p \in Page |-> IF p \in It.pages THEN "zero" ELSE val[m][p]]]
      /\ Step
      /\ UNCHANGED <<stage2, pinned, loose, gone, env, reg, rows, surveyVars,
                     sampleVars, pressureVars, opts>>
  BY <1>3 DEF MmapFixed, OnPages, bookVars, fixedVars
<1>5. MachineTypeOK'
  BY <1>3, <1>4 DEF MachineTypeOK, surveyVars, sampleVars, Step
<1>6. /\ \A p \in Page : host'[m][p] = IF p \in It.pages THEN "none" ELSE host[m][p]
      /\ \A p \in Page : val'[m][p] = IF p \in It.pages THEN "zero" ELSE val[m][p]
      /\ \A j \in Mapping : j # m => host'[j] = host[j] /\ val'[j] = val[j]
  BY <1>3, <1>4 DEF MachineTypeOK
<1> DEFINE r == Refreshed(a.ram, It.pages)
<1>7. /\ r.names = a.ram.names /\ r.shown = a.ram.shown /\ r.pin = a.ram.pin
      /\ \A p \in Page : r.kind[p] = IF p \in It.pages THEN "none" ELSE a.ram.kind[p]
      /\ \A p \in Page : r.ink[p] = IF p \in It.pages THEN "any" ELSE a.ram.ink[p]
  BY <1>3 DEF Refreshed, Known, RamKnown
<1> HIDE DEF r
<1>8. b.ram = r
  BY <1>2, <1>3, Changed DEF r
<1>9. \A p \in Page : Is(host'[m][p], b.ram.kind[p])
  BY <1>3, <1>6, <1>7, <1>8 DEF KindsMatch, Is
<1>10. ShownMatch(b, m)'
  BY <1>3, <1>4, <1>7, <1>8 DEF ShownMatch
<1>11. PinsMatch(b, m)'
  BY <1>3, <1>4, <1>7, <1>8 DEF PinsMatch
<1>12. \A p \in Page : b.ram.ink[p] # "any" => Inked(m, p, b.ram.ink[p])'
  BY <1>3, <1>4, <1>6, <1>7, <1>8 DEF InksMatch, Inked
<1>13. Change(a, b, b.ram) /\ b.ram.names = a.ram.names
  BY <1>2, <1>7, <1>8 DEF r
<1>14. QED
  BY <1>1, <1>2, <1>3, <1>4, <1>5, <1>6, <1>9, <1>10, <1>11, <1>12, <1>13, RamLands
  DEF Step, AddressOps

CanChange(a, b) == b = [a EXCEPT !.can = b.can]

\* A call that is about the canary alone.
LEMMA CanLands ==
  ASSUME NEW a, NEW b, NEW m, NEW c, NEW d \in {c, 0}, Here(a, b, m, c), It.op \in AddressOps,
         a.can.up = "yes", CanChange(a, b),
         d = 0 => b.can.up # "yes" /\ b.can.ink = {},
         d # 0 => b.can.up = "yes",
         MachineTypeOK',
         \A j \in Mapping : j # c => host'[j] = host[j] /\ val'[j] = val[j],
         \A j \in Mapping, p \in Page : j # c => (<<j, p>> \in gone' <=> <<j, p>> \in gone),
         d = 0 => \A p \in Page : host'[c][p] = "hole",
         d # 0 => \A p \in Page : host'[c][p] # "hole",
         \A p \in b.can.ink : Inked(d, p, "host")',
         pinned' = pinned \ ({c} \X Page),
         UNCHANGED <<stage2, env, reg, rows, surveyVars, sampleVars, pressureVars, opts>>,
         todo' = Tail(todo)
  PROVE  Lands(b)'
<1>1. a \in Known /\ MapsMatch(a, m, c) /\ KindsMatch(a, m, c) /\ InksMatch(a, m, c)
      /\ ShownMatch(a, m) /\ PinsMatch(a, m) /\ a.ram.names \subseteq {"main", "local"}
      /\ m # c /\ c \in Mapping /\ c # 0 /\ (m # 0 => m \in Mapping)
  BY Facts DEF Mapping, MapsMatch
<1>2. /\ b.ram = a.ram /\ b.sur = a.sur /\ b.press = a.press
      /\ b.regs = a.regs /\ b.n = a.n /\ b.sampling = a.sampling /\ b.goal = a.goal
  BY <1>1 DEF Known, CanChange
<1>3. MapsMatch(b, m, d)'
  <2>1. \A j \in Mapping, p \in Page : j # m /\ j # d => host'[j][p] = "hole"
    BY <1>1 DEF MapsMatch
  <2>2. /\ m \in 0..MaxMaps /\ d \in 0..MaxMaps /\ (m = d => m = 0)
        /\ (m = 0 => b.ram.names = {}) /\ (m # 0 => b.ram.names # {})
        /\ \A x \in b.ram.names : env'[x] = m
        /\ (d # 0 => env'["canary"] = d)
    BY <1>1, <1>2, MachineAssumption DEF MapsMatch
  <2>3. QED
    BY <1>1, <2>1, <2>2 DEF MapsMatch
<1>4. KindsMatch(b, m, d)'
  BY <1>1, <1>2 DEF KindsMatch
<1>5. InksMatch(b, m, d)'
  <2>1. \A p \in Page : b.ram.ink[p] # "any" => m # 0 /\ Inked(m, p, b.ram.ink[p])'
    BY <1>1, <1>2 DEF InksMatch, Inked
  <2>2. QED
    BY <2>1 DEF InksMatch
<1>6. /\ PressMatch(b)' /\ SurveyMatch(b, m, d)' /\ BookMatch(b)'
      /\ SamplerMatch(b)' /\ GoalMatch(b)'
  BY <1>2, Rest DEF AddressOps
<1>7. ShownMatch(b, m)' /\ PinsMatch(b, m)'
  BY <1>1, <1>2 DEF ShownMatch, PinsMatch
<1>8. Matches(b, m, d)' /\ m \in 0..MaxMaps /\ d \in 0..MaxMaps
  BY <1>3, <1>4, <1>5, <1>6, <1>7 DEF Matches, MapsMatch
<1>9. QED
  BY <1>8 DEF Lands

\* munmap, of pages of the RAM that the guest is not shown, or of a canary.
LEMMA MunmapLands ==
  ASSUME NEW a, NEW b, NEW m, NEW c, Here(a, b, m, c), Munmap, UNCHANGED fixedVars
  PROVE  Lands(b)' /\ Step
<1>1. It.op = "munmap" /\ AfterMunmap(It, a, b)
  BY DEF Munmap, Now, Here, It, Effect
<1>2. MachineTypeOK /\ KindsMatch(a, m, c) /\ ShownMatch(a, m) /\ PinsMatch(a, m)
      /\ InksMatch(a, m, c) /\ a \in Known /\ b \in Known /\ It.pages \subseteq Page
      /\ a.ram.shown \subseteq Page
  BY Facts
<1>3. /\ host' = [host EXCEPT ![Map] = [p \in Page |-> IF p \in It.pages THEN "hole" ELSE host[Map][p]]]
      /\ pinned' = pinned \ ({Map} \X It.pages)
      /\ loose' = loose \ ({Map} \X It.pages)
      /\ gone' = gone \ ({Map} \X It.pages)
      /\ Step
      /\ UNCHANGED <<val, stage2, env, reg, rows, surveyVars, sampleVars, pressureVars, opts>>
  BY DEF Munmap, OnPages, Their, bookVars, fixedVars
<1>4. ASSUME Map \in Mapping PROVE MachineTypeOK'
  BY <1>2, <1>3, <1>4 DEF MachineTypeOK, surveyVars, sampleVars, Step
<1>5. CASE It.of = "canary"
  <2>1. a.can.up = "yes" /\ It.pages = Page /\ b = [a EXCEPT !.can = [up |-> "no", ink |-> {}]]
    BY <1>1, <1>5 DEF AfterMunmap
  <2>2. Map = c /\ c \in Mapping
    BY <1>5, <2>1, Facts DEF Map
  <2>3. b.can = [up |-> "no", ink |-> {}]
    BY <1>2, <2>1 DEF Known
  <2>4. \A p \in Page : host'[c][p] = "hole"
    BY <1>2, <1>3, <2>1, <2>2 DEF MachineTypeOK
  <2>5. \A j \in Mapping : j # c => host'[j] = host[j] /\ val'[j] = val[j]
    BY <1>2, <1>3, <2>2 DEF MachineTypeOK
  <2>6. \A j \in Mapping, p \in Page : j # c => (<<j, p>> \in gone' <=> <<j, p>> \in gone)
    BY <1>3, <2>2
  <2>7. CanChange(a, b) /\ b.can.up # "yes" /\ b.can.ink = {}
    BY <2>1, <2>3 DEF CanChange
  <2>8. MachineTypeOK' /\ pinned' = pinned \ ({c} \X Page) /\ 0 \in {c, 0}
    BY <1>3, <1>4, <2>1, <2>2
  <2>9. It.op \in AddressOps /\ todo' = Tail(todo)
    BY <1>1, <1>3 DEF Step, AddressOps
  <2>10. \A p \in b.can.ink : Inked(0, p, "host")'
    BY <2>7
  <2>11. UNCHANGED <<stage2, env, reg, rows, surveyVars, sampleVars, pressureVars, opts>>
    BY <1>3
  <2>12. Lands(b)'
    BY <2>1, <2>4, <2>5, <2>6, <2>7, <2>8, <2>9, <2>10, <2>11, CanLands
  <2>13. QED
    BY <1>3, <2>12
<1>6. CASE It.of # "canary"
  <2>1. It.of \in a.ram.names /\ It.pages \cap a.ram.shown = {} /\ Change(a, b, Dropped(a.ram, It.pages))
    BY <1>1, <1>6 DEF AfterMunmap
  <2>2. Map = m /\ m \in Mapping
    BY <2>1, Facts DEF Map
  <2>3. /\ \A p \in Page : host'[m][p] = IF p \in It.pages THEN "hole" ELSE host[m][p]
        /\ \A j \in Mapping : j # m => host'[j] = host[j] /\ val'[j] = val[j]
    BY <1>2, <1>3, <2>2 DEF MachineTypeOK
  <2>4. \A j \in Mapping, p \in Page : j # m => (<<j, p>> \in gone' <=> <<j, p>> \in gone)
    BY <1>3, <2>2
  <2> DEFINE r == Dropped(a.ram, It.pages)
  <2>5. /\ r.names = a.ram.names /\ r.shown = a.ram.shown
        /\ \A p \in Page : r.kind[p] = IF p \in It.pages THEN "hole" ELSE a.ram.kind[p]
        /\ \A p \in Page : r.pin[p] = IF p \in It.pages THEN "no" ELSE a.ram.pin[p]
        /\ \A p \in Page : r.ink[p] = IF p \in It.pages THEN "any" ELSE a.ram.ink[p]
    BY <1>2 DEF Dropped, Known, RamKnown
  <2> HIDE DEF r
  <2>6. b.ram = r
    BY <1>2, <2>1, Changed DEF r
  <2>7. Change(a, b, b.ram)
    BY <2>1, <2>6 DEF r
  <2>8. \A p \in Page : Is(host'[m][p], b.ram.kind[p])
    BY <1>2, <2>2, <2>3, <2>5, <2>6 DEF KindsMatch, Is, Mapping
  <2>9. a.press # "calm" => \A p \in Page : b.ram.kind[p] \in {"hole", "any"}
    BY <1>2, <2>5, <2>6 DEF KindsMatch
  <2>10. ShownMatch(b, m)'
    BY <1>2, <1>3, <2>1, <2>5, <2>6 DEF ShownMatch
  <2>11. PinsMatch(b, m)'
    BY <1>2, <1>3, <2>2, <2>5, <2>6 DEF PinsMatch
  <2>12. \A p \in Page : b.ram.ink[p] # "any" => Inked(m, p, b.ram.ink[p])'
    BY <1>2, <1>3, <2>2, <2>3, <2>5, <2>6 DEF InksMatch, Inked
  <2>13. QED
    BY <1>1, <1>3, <1>4, <2>2, <2>3, <2>4, <2>5, <2>6, <2>7, <2>8, <2>9, <2>10, <2>11,
       <2>12, RamLands DEF Step, AddressOps
<1>7. QED
  BY <1>5, <1>6

\* Advice on the RAM: only what is charged and not pinned heeds it.
LEMMA MadviseRamLands ==
  ASSUME NEW a, NEW b, NEW m, NEW c, Here(a, b, m, c), Madvise, UNCHANGED fixedVars,
         It.of # "canary"
  PROVE  Lands(b)' /\ Step
<1>1. It.op = "madvise" /\ AfterMadvise(It, a, b)
  BY DEF Madvise, Now, Here, It, Effect
<1>2. It.of \in a.ram.names /\ Change(a, b, Advised(a.ram, It.pages, It.arg))
  BY <1>1 DEF AfterMadvise
<1>3. Map = m /\ m \in Mapping /\ MachineTypeOK /\ KindsMatch(a, m, c) /\ ShownMatch(a, m)
      /\ PinsMatch(a, m) /\ InksMatch(a, m, c) /\ a \in Known /\ m # 0 /\ It.pages \subseteq Page
      /\ a.ram.shown \subseteq Page /\ a.ram.pin \in [Page -> {"yes", "no", "any"}]
  BY <1>2, Facts DEF Map, Mapping
<1> DEFINE heeding == {p \in It.pages : host[m][p] = "charged" /\ ~(<<m, p>> \in pinned /\ stage2[p] = m)}
<1>4. /\ host' = [host EXCEPT ![m] = [p \in Page |-> IF p \in It.pages
                   THEN IF It.arg = "reusable" /\ p \in heeding THEN "reusable" ELSE host[m][p]
                   ELSE host[m][p]]]
      /\ loose' = IF It.arg = "dontneed" THEN loose ELSE loose \cup ({m} \X heeding)
      /\ Step
      /\ UNCHANGED <<val, stage2, pinned, gone, env, reg, rows, surveyVars,
                     sampleVars, pressureVars, opts>>
  BY <1>3 DEF Madvise, OnPages, Heeds, Their, bookVars, fixedVars
<1>5. MachineTypeOK'
  <2>1. host' \in [Mapping -> [Page -> {"hole", "none", "charged", "reusable", "sticky"}]]
    BY <1>3, <1>4 DEF MachineTypeOK
  <2>2. loose' \subseteq Mapping \X Page
    BY <1>3, <1>4 DEF MachineTypeOK
  <2>3. QED
    BY <1>3, <1>4, <2>1, <2>2 DEF MachineTypeOK, surveyVars, sampleVars, Step
<1>6. /\ \A p \in Page : host'[m][p] = IF p \in It.pages /\ It.arg = "reusable" /\ p \in heeding
                                         THEN "reusable" ELSE host[m][p]
      /\ \A j \in Mapping : j # m => host'[j] = host[j] /\ val'[j] = val[j]
  BY <1>3, <1>4 DEF MachineTypeOK
<1> DEFINE r == Advised(a.ram, It.pages, It.arg)
<1>7. /\ r.names = a.ram.names /\ r.shown = a.ram.shown /\ r.pin = a.ram.pin /\ r.ink = a.ram.ink
      /\ \A p \in Page : r.kind[p] = IF p \in It.pages
           THEN AdvisedKind(a.ram.kind[p], a.ram.pin[p], p \in a.ram.shown, It.arg)
           ELSE a.ram.kind[p]
  BY <1>3 DEF Advised, Known, RamKnown
<1> HIDE DEF r
<1>8. b.ram = r
  BY <1>2, <1>3, Changed DEF r
<1>9. ASSUME NEW p \in Page PROVE Is(host'[m][p], b.ram.kind[p])
  <2>1. Is(host[m][p], a.ram.kind[p])
    BY <1>3 DEF KindsMatch
  <2>2. CASE p \notin It.pages \/ It.arg # "reusable"
    BY <1>6, <1>7, <1>8, <2>1, <2>2 DEF AdvisedKind
  <2>3. CASE p \in It.pages /\ It.arg = "reusable"
    <3>1. a.ram.pin[p] = "no" => <<m, p>> \notin pinned
      BY <1>3 DEF PinsMatch
    <3>2. a.ram.pin[p] = "yes" => <<m, p>> \in pinned
      BY <1>3 DEF PinsMatch
    <3>3. (p \in a.ram.shown => stage2[p] = m) /\ (p \notin a.ram.shown => stage2[p] # m)
      BY <1>3 DEF ShownMatch
    <3>4. p \in heeding <=> host[m][p] = "charged" /\ ~(<<m, p>> \in pinned /\ stage2[p] = m)
      BY <2>3
    <3>5. a.ram.pin[p] \in {"yes", "no", "any"}
      BY <1>3
    <3> HIDE DEF heeding
    <3>6. b.ram.kind[p] = AdvisedKind(a.ram.kind[p], a.ram.pin[p], p \in a.ram.shown, "reusable")
      BY <1>7, <1>8, <2>3
    <3>7. host'[m][p] = IF p \in heeding THEN "reusable" ELSE host[m][p]
      BY <1>6, <2>3
    <3>8. CASE a.ram.kind[p] \notin {"charged", "freed"}
      <4>1. b.ram.kind[p] = a.ram.kind[p]
        BY <3>6, <3>8 DEF AdvisedKind
      <4>2. QED
        BY <2>1, <3>4, <3>7, <3>8, <4>1 DEF Is
    <3>9. CASE a.ram.kind[p] \in {"charged", "freed"}
      <4>1. CASE a.ram.pin[p] = "no" \/ p \notin a.ram.shown
        <5>1. b.ram.kind[p] = "reusable"
          BY <3>6, <3>9, <4>1 DEF AdvisedKind
        <5>2. ~(<<m, p>> \in pinned /\ stage2[p] = m)
          BY <3>1, <3>3, <4>1
        <5>3. host[m][p] \in {"charged", "reusable"}
          <6>1. host[m][p] \in {"hole", "none", "charged", "reusable", "sticky"}
            BY <1>3 DEF MachineTypeOK
          <6>2. QED
            BY <2>1, <3>9, <6>1 DEF Is
        <5>4. host'[m][p] = "reusable"
          BY <3>4, <3>7, <5>2, <5>3
        <5>5. QED
          BY <5>1, <5>4 DEF Is
      <4>2. CASE a.ram.pin[p] = "yes" /\ p \in a.ram.shown
        <5>1. b.ram.kind[p] = a.ram.kind[p]
          BY <3>6, <3>9, <4>2 DEF AdvisedKind
        <5>2. QED
          BY <2>1, <3>2, <3>3, <3>4, <3>7, <4>2, <5>1
      <4>3. CASE a.ram.pin[p] = "any" /\ p \in a.ram.shown
        <5>1. b.ram.kind[p] = "freed"
          BY <3>6, <3>9, <4>3 DEF AdvisedKind
        <5>2. QED
          BY <2>1, <3>7, <3>9, <5>1 DEF Is
      <4>4. QED
        BY <3>5, <4>1, <4>2, <4>3
    <3>10. QED
      BY <3>8, <3>9
  <2>4. QED
    BY <2>2, <2>3
<1>10. \A p \in Page : (b.ram.kind[p] = "hole" <=> a.ram.kind[p] = "hole")
                       /\ (a.ram.kind[p] = "any" => b.ram.kind[p] = "any")
  BY <1>7, <1>8 DEF AdvisedKind
<1>11. a.press # "calm" => \A p \in Page : b.ram.kind[p] \in {"hole", "any"}
  BY <1>3, <1>10 DEF KindsMatch
<1>12. ShownMatch(b, m)'
  BY <1>3, <1>4, <1>7, <1>8, <1>10 DEF ShownMatch
<1>13. PinsMatch(b, m)'
  BY <1>3, <1>4, <1>7, <1>8 DEF PinsMatch
<1>14. \A p \in Page : b.ram.ink[p] # "any" => Inked(m, p, b.ram.ink[p])'
  BY <1>3, <1>4, <1>7, <1>8 DEF InksMatch, Inked
<1>15. Change(a, b, b.ram) /\ b.ram.names = a.ram.names
  BY <1>2, <1>7, <1>8 DEF r
<1>16. QED
  BY <1>1, <1>3, <1>4, <1>5, <1>6, <1>9, <1>11, <1>12, <1>13, <1>14, <1>15, RamLands
  DEF Step, AddressOps

\* Advice on the canary: from here on the kernel may take what it likes.
LEMMA MadviseCanLands ==
  ASSUME NEW a, NEW b, NEW m, NEW c, Here(a, b, m, c), Madvise, UNCHANGED fixedVars,
         It.of = "canary"
  PROVE  Lands(b)' /\ Step
<1>1. It.op = "madvise" /\ AfterMadvise(It, a, b) /\ OnGoal(opts, b) /\ a.sur.of = "none"
      /\ Head(todo).op = "madvise"
  BY DEF Madvise, Now, Here, It, Effect
<1>2. a.can.up = "yes" /\ a.press = "calm" /\ b = [a EXCEPT !.ram = Braced(a.ram), !.press = "braced"]
  BY <1>1 DEF AfterMadvise
<1>3. /\ Map = c /\ c \in Mapping /\ MachineTypeOK /\ KindsMatch(a, m, c) /\ ShownMatch(a, m)
      /\ PinsMatch(a, m) /\ InksMatch(a, m, c) /\ MapsMatch(a, m, c) /\ a \in Known /\ c # 0
      /\ m # c /\ (m # 0 => m \in Mapping) /\ It.pages \subseteq Page
      /\ a.ram.shown \subseteq Page /\ a.can.ink \subseteq Page
  BY <1>2, Facts DEF Map, Mapping, MapsMatch
<1> DEFINE heeding == {p \in It.pages : host[c][p] = "charged" /\ ~(<<c, p>> \in pinned /\ stage2[p] = c)}
<1>4. /\ host' = [host EXCEPT ![c] = [p \in Page |-> IF p \in It.pages
                   THEN IF It.arg = "reusable" /\ p \in heeding THEN "reusable" ELSE host[c][p]
                   ELSE host[c][p]]]
      /\ loose' = IF It.arg = "dontneed" THEN loose ELSE loose \cup ({c} \X heeding)
      /\ Step
      /\ UNCHANGED <<val, stage2, pinned, gone, env, reg, rows, surveyVars,
                     sampleVars, pressureVars, opts>>
  BY <1>3 DEF Madvise, OnPages, Heeds, Their, bookVars, fixedVars
<1>5. MachineTypeOK'
  <2>1. host' \in [Mapping -> [Page -> {"hole", "none", "charged", "reusable", "sticky"}]]
    BY <1>3, <1>4 DEF MachineTypeOK
  <2>2. loose' \subseteq Mapping \X Page
    BY <1>3, <1>4 DEF MachineTypeOK
  <2>3. QED
    BY <1>3, <1>4, <2>1, <2>2 DEF MachineTypeOK, surveyVars, sampleVars, Step
<1>6. /\ \A p \in Page : host'[c][p] = "hole" <=> host[c][p] = "hole"
      /\ \A j \in Mapping : j # c => host'[j] = host[j]
  BY <1>3, <1>4 DEF MachineTypeOK
<1>7. /\ b.can = a.can /\ b.sur = a.sur /\ b.press = "braced"
      /\ b.regs = a.regs /\ b.n = a.n /\ b.sampling = a.sampling /\ b.goal = a.goal
      /\ b.ram.names = a.ram.names /\ b.ram.shown = a.ram.shown /\ b.ram.pin = a.ram.pin
      /\ b.ram.ink = a.ram.ink
      /\ \A p \in Page : b.ram.kind[p] = IF a.ram.kind[p] = "hole" THEN "hole" ELSE "any"
  BY <1>2, <1>3 DEF Known, RamKnown, Braced
<1>8. MapsMatch(b, m, c)'
  <2>1. \A j \in Mapping, p \in Page : j # m /\ j # c => host'[j][p] = "hole"
    BY <1>3, <1>6 DEF MapsMatch
  <2>2. QED
    BY <1>3, <1>4, <1>7, <2>1 DEF MapsMatch
<1>9. KindsMatch(b, m, c)'
  BY <1>3, <1>6, <1>7 DEF KindsMatch, Is
<1>10. ShownMatch(b, m)'
  BY <1>3, <1>4, <1>7 DEF ShownMatch
<1>11. PinsMatch(b, m)'
  BY <1>3, <1>4, <1>7 DEF PinsMatch
<1>12. InksMatch(b, m, c)'
  BY <1>3, <1>4, <1>7 DEF InksMatch, Inked
<1>13. PressMatch(b)'
  <2>1. PressMatch(a)
    BY DEF Here, Matches
  <2>2. QED
    BY <1>1, <1>2, <1>4, <1>7, <2>1 DEF PressMatch, pressureVars
<1>14. SurveyMatch(b, m, c)'
  BY <1>1, <1>7 DEF SurveyMatch
<1>15. BookMatch(b)' /\ SamplerMatch(b)'
  BY <1>4, <1>7 DEF Here, Matches, BookMatch, SamplerMatch, sampleVars
<1>16. GoalMatch(b)'
  <2>1. OnGoal(opts, b)'
    BY <1>1, <1>4 DEF OnGoal, Charged, Maybe
  <2>2. QED
    BY <1>4, <1>7, <2>1 DEF Here, Matches, GoalMatch, sampleVars
<1>17. QED
  BY <1>3, <1>4, <1>5, <1>8, <1>9, <1>10, <1>11, <1>12, <1>13, <1>14, <1>15, <1>16
  DEF Lands, Matches, MapsMatch

\* hv_vm_map finds its pages unmapped.
LEMMA HvMapLands ==
  ASSUME NEW a, NEW b, NEW m, NEW c, Here(a, b, m, c), HvMap, UNCHANGED fixedVars
  PROVE  Lands(b)' /\ Step
<1>1. It.op = "hv_vm_map" /\ AfterHvMap(It, a, b)
  BY DEF HvMap, Now, Here, It, Effect
<1>2. It.of \in a.ram.names /\ It.pages \cap a.ram.shown = {}
      /\ (\A p \in It.pages : a.ram.kind[p] # "hole") /\ Change(a, b, Shown(a.ram, It.pages))
  BY <1>1 DEF AfterHvMap
<1>3. Map = m /\ m \in Mapping /\ MachineTypeOK /\ KindsMatch(a, m, c) /\ ShownMatch(a, m)
      /\ PinsMatch(a, m) /\ InksMatch(a, m, c) /\ a \in Known /\ m # 0 /\ It.pages \subseteq Page
      /\ a.ram.shown \subseteq Page
  BY <1>2, Facts DEF Map, Mapping
<1>4. \A p \in It.pages : stage2[p] = 0
  BY <1>2, <1>3 DEF ShownMatch
<1>5. /\ stage2' = [p \in Page |-> IF p \in It.pages THEN m ELSE stage2[p]]
      /\ Step
      /\ UNCHANGED <<host, val, pinned, loose, gone, env, reg, rows, surveyVars,
                     sampleVars, pressureVars, opts>>
  BY <1>3, <1>4 DEF HvMap, bookVars, fixedVars
<1>6. MachineTypeOK'
  BY <1>3, <1>5 DEF MachineTypeOK, surveyVars, sampleVars, Step, Mapping
<1> DEFINE r == Shown(a.ram, It.pages)
<1>7. /\ r.names = a.ram.names /\ r.shown = a.ram.shown \cup It.pages
      /\ r.kind = a.ram.kind /\ r.pin = a.ram.pin /\ r.ink = a.ram.ink
  BY <1>3 DEF Shown, Known, RamKnown
<1> HIDE DEF r
<1>8. b.ram = r
  BY <1>2, <1>3, Changed DEF r
<1>9. \A p \in Page : Is(host'[m][p], b.ram.kind[p])
  BY <1>3, <1>5, <1>7, <1>8 DEF KindsMatch
<1>10. a.press # "calm" => \A p \in Page : b.ram.kind[p] \in {"hole", "any"}
  BY <1>3, <1>7, <1>8 DEF KindsMatch
<1>11. ShownMatch(b, m)'
  BY <1>2, <1>3, <1>5, <1>7, <1>8 DEF ShownMatch
<1>12. PinsMatch(b, m)'
  BY <1>3, <1>5, <1>7, <1>8 DEF PinsMatch
<1>13. \A p \in Page : b.ram.ink[p] # "any" => Inked(m, p, b.ram.ink[p])'
  BY <1>3, <1>5, <1>7, <1>8 DEF InksMatch, Inked
<1>14. Change(a, b, b.ram) /\ b.ram.names = a.ram.names
  BY <1>2, <1>7, <1>8 DEF r
<1>15. QED
  BY <1>1, <1>3, <1>5, <1>6, <1>9, <1>10, <1>11, <1>12, <1>13, <1>14, RamLands
  DEF Step, AddressOps

\* hv_vm_unmap finds its pages mapped.
LEMMA HvUnmapLands ==
  ASSUME NEW a, NEW b, NEW m, NEW c, Here(a, b, m, c), HvUnmap, UNCHANGED fixedVars
  PROVE  Lands(b)' /\ Step
<1>1. It.op = "hv_vm_unmap" /\ AfterHvUnmap(It, a, b)
  BY DEF HvUnmap, Now, Here, It, Effect
<1>2. It.of \in a.ram.names /\ It.pages \subseteq a.ram.shown /\ Change(a, b, Hidden(a.ram, It.pages))
  BY <1>1 DEF AfterHvUnmap
<1>3. m \in Mapping /\ MachineTypeOK /\ KindsMatch(a, m, c) /\ ShownMatch(a, m)
      /\ PinsMatch(a, m) /\ InksMatch(a, m, c) /\ a \in Known /\ m # 0 /\ It.pages \subseteq Page
      /\ a.ram.shown \subseteq Page /\ a.ram.pin \in [Page -> {"yes", "no", "any"}]
  BY <1>2, Facts DEF Mapping
<1>4. \A p \in It.pages : stage2[p] = m
  BY <1>2, <1>3 DEF ShownMatch
<1>5. PICK early \in BOOLEAN :
         host' = [k \in Mapping |-> [p \in Page |->
                   IF /\ early /\ p \in It.pages /\ k = stage2[p]
                      /\ <<k, p>> \in pinned /\ host[k][p] = "charged"
                     THEN "reusable" ELSE host[k][p]]]
  BY <1>3, <1>4 DEF HvUnmap
<1>6. /\ stage2' = [p \in Page |-> IF p \in It.pages THEN 0 ELSE stage2[p]]
      /\ pinned' = {x \in pinned : x[2] \notin It.pages}
      /\ Step
      /\ UNCHANGED <<val, loose, gone, env, reg, rows, surveyVars, sampleVars, pressureVars, opts>>
  BY <1>3, <1>4 DEF HvUnmap, bookVars, fixedVars
<1>7. MachineTypeOK'
  <2>1. host' \in [Mapping -> [Page -> {"hole", "none", "charged", "reusable", "sticky"}]]
    BY <1>3, <1>5 DEF MachineTypeOK
  <2>2. stage2' \in [Page -> 0..MaxMaps] /\ pinned' \subseteq Mapping \X Page
    BY <1>3, <1>6, MachineAssumption DEF MachineTypeOK
  <2>3. QED
    BY <1>3, <1>6, <2>1, <2>2 DEF MachineTypeOK, surveyVars, sampleVars, Step
<1>8. \A j \in Mapping : j # m => host'[j] = host[j]
  <2> TAKE j \in Mapping
  <2> HAVE j # m
  <2>1. \A p \in Page : host'[j][p] = host[j][p]
    BY <1>4, <1>5
  <2>2. host'[j] \in [Page -> {"hole", "none", "charged", "reusable", "sticky"}]
        /\ host[j] \in [Page -> {"hole", "none", "charged", "reusable", "sticky"}]
    BY <1>3, <1>7 DEF MachineTypeOK
  <2>3. QED
    BY <2>1, <2>2
<1>9. \A p \in Page :
        \/ host'[m][p] = host[m][p]
        \/ /\ host'[m][p] = "reusable" /\ host[m][p] = "charged"
           /\ p \in It.pages /\ <<m, p>> \in pinned
  BY <1>3, <1>5
<1> DEFINE r == Hidden(a.ram, It.pages)
<1>10. /\ r.names = a.ram.names /\ r.shown = a.ram.shown \ It.pages /\ r.ink = a.ram.ink
       /\ \A p \in Page : r.kind[p] = IF p \in It.pages THEN HiddenKind(a.ram.kind[p], a.ram.pin[p])
                                       ELSE a.ram.kind[p]
       /\ \A p \in Page : r.pin[p] = IF p \in It.pages THEN "no" ELSE a.ram.pin[p]
  BY <1>3 DEF Hidden, Known, RamKnown
<1> HIDE DEF r
<1>11. b.ram = r
  BY <1>2, <1>3, Changed DEF r
<1>12. ASSUME NEW p \in Page PROVE Is(host'[m][p], b.ram.kind[p])
  <2>1. Is(host[m][p], a.ram.kind[p]) /\ (a.ram.pin[p] = "no" => <<m, p>> \notin pinned)
    BY <1>3 DEF KindsMatch, PinsMatch
  <2>2. CASE host'[m][p] = host[m][p]
    BY <1>10, <1>11, <2>1, <2>2 DEF Is, HiddenKind
  <2>3. CASE host'[m][p] = "reusable" /\ host[m][p] = "charged" /\ p \in It.pages /\ <<m, p>> \in pinned
    BY <1>10, <1>11, <2>1, <2>3 DEF Is, HiddenKind
  <2>4. QED
    BY <1>9, <2>2, <2>3
<1>13. \A p \in Page : /\ a.ram.kind[p] # "hole" => b.ram.kind[p] # "hole"
                       /\ a.ram.kind[p] \in {"hole", "any"} => b.ram.kind[p] = a.ram.kind[p]
  BY <1>10, <1>11 DEF HiddenKind
<1>14. a.press # "calm" => \A p \in Page : b.ram.kind[p] \in {"hole", "any"}
  BY <1>3, <1>13 DEF KindsMatch
<1>15. ShownMatch(b, m)'
  BY <1>2, <1>3, <1>6, <1>10, <1>11, <1>13 DEF ShownMatch
<1>16. PinsMatch(b, m)'
  BY <1>3, <1>6, <1>10, <1>11 DEF PinsMatch
<1>17. \A p \in Page : b.ram.ink[p] # "any" => Inked(m, p, b.ram.ink[p])'
  BY <1>3, <1>6, <1>10, <1>11 DEF InksMatch, Inked
<1>18. Change(a, b, b.ram) /\ b.ram.names = a.ram.names
  BY <1>2, <1>10, <1>11 DEF r
<1>19. QED
  BY <1>1, <1>3, <1>6, <1>7, <1>8, <1>12, <1>14, <1>15, <1>16, <1>17, <1>18, RamLands
  DEF Step, AddressOps

\* hv_vm_destroy takes the whole stage-2 mapping down.
LEMMA HvDestroyLands ==
  ASSUME NEW a, NEW b, NEW m, NEW c, Here(a, b, m, c), HvDestroy, UNCHANGED fixedVars
  PROVE  Lands(b)' /\ Step
<1>1. It.op = "hv_vm_destroy" /\ AfterHvDestroy(It, a, b)
  BY DEF HvDestroy, Now, Here, It, Effect
<1>2. It.of \in a.ram.names /\ Change(a, b, Unshown(a.ram))
  BY <1>1 DEF AfterHvDestroy
<1>3. m \in Mapping /\ MachineTypeOK /\ KindsMatch(a, m, c) /\ ShownMatch(a, m)
      /\ InksMatch(a, m, c) /\ a \in Known /\ m # 0 /\ a.ram.shown \subseteq Page
  BY <1>2, Facts DEF Mapping
<1>4. /\ stage2' = [p \in Page |-> 0] /\ pinned' = {} /\ Step
      /\ UNCHANGED <<host, val, loose, gone, env, reg, rows, surveyVars,
                     sampleVars, pressureVars, opts>>
  BY DEF HvDestroy, bookVars, fixedVars
<1>5. MachineTypeOK'
  BY <1>3, <1>4, MachineAssumption DEF MachineTypeOK, surveyVars, sampleVars, Step
<1>6. /\ b.ram.names = a.ram.names /\ b.ram.shown = {} /\ b.ram.kind = a.ram.kind
      /\ b.ram.ink = a.ram.ink /\ b.ram.pin = [p \in Page |-> "no"]
      /\ Change(a, b, b.ram)
  <2>1. b.ram = Unshown(a.ram)
    BY <1>2, <1>3, Changed
  <2>2. QED
    BY <1>2, <1>3, <2>1 DEF Unshown, Known, RamKnown
<1>7. \A p \in Page : Is(host'[m][p], b.ram.kind[p])
  BY <1>3, <1>4, <1>6 DEF KindsMatch
<1>8. a.press # "calm" => \A p \in Page : b.ram.kind[p] \in {"hole", "any"}
  BY <1>3, <1>6 DEF KindsMatch
<1>9. ShownMatch(b, m)' /\ PinsMatch(b, m)'
  BY <1>4, <1>6 DEF ShownMatch, PinsMatch
<1>10. \A p \in Page : b.ram.ink[p] # "any" => Inked(m, p, b.ram.ink[p])'
  BY <1>3, <1>4, <1>6 DEF InksMatch, Inked
<1>11. QED
  BY <1>1, <1>3, <1>4, <1>5, <1>6, <1>7, <1>8, <1>9, <1>10, RamLands
  DEF Step, AddressOps

\* What charging a page makes of what is known of it.
Recharged(h, parked) ==
  CASE h = "none" -> "charged"
    [] h \in {"reusable", "sticky"} -> IF parked THEN "sticky" ELSE "charged"
    [] OTHER -> h

LEMMA TouchedIs ==
  \A h, k, parked : h # "hole" /\ h # "freed" /\ Is(h, k) => Is(Recharged(h, parked), TouchedKind(k))
<1> SUFFICES ASSUME NEW h, NEW k, NEW parked, h # "hole", h # "freed", Is(h, k)
             PROVE  Is(Recharged(h, parked), TouchedKind(k))
  OBVIOUS
<1>1. CASE k = "any" \/ k = "freed"
  BY <1>1 DEF Is, TouchedKind, Recharged
<1>2. CASE k # "any" /\ k # "freed" /\ h = k
  BY <1>2 DEF Is, TouchedKind, Recharged
<1>3. QED
  BY <1>1, <1>2 DEF Is

\* Charging one page of a mapping.
LEMMA ChargeOne ==
  ASSUME NEW k \in Mapping, NEW q \in Page, MachineTypeOK, Charge(k, q)
  PROVE  /\ host' \in [Mapping -> [Page -> {"hole", "none", "charged", "reusable", "sticky"}]]
         /\ \A j \in Mapping : j # k => host'[j] = host[j]
         /\ \A p \in Page : p # q => host'[k][p] = host[k][p]
         /\ host[k][q] = "hole" <=> host'[k][q] = "hole"
         /\ \A r : Is(host[k][q], r) /\ host[k][q] # "hole" => Is(host'[k][q], TouchedKind(r))
<1>1. host \in [Mapping -> [Page -> {"hole", "none", "charged", "reusable", "sticky"}]]
  BY DEF MachineTypeOK
<1>0. PICK parked \in BOOLEAN : host' = [host EXCEPT ![k][q] = Recharged(host[k][q], parked)]
  BY <1>1 DEF Charge, Recharged
<1> DEFINE new == Recharged(host[k][q], parked)
<1>2. new \in {"hole", "none", "charged", "reusable", "sticky"}
      /\ (host[k][q] = "hole" <=> new = "hole") /\ host[k][q] # "freed"
  BY <1>1 DEF Recharged
<1>3. host' = [host EXCEPT ![k] = [host[k] EXCEPT ![q] = new]]
  BY <1>0, <1>1
<1>4. host'[k] = [host[k] EXCEPT ![q] = new] /\ host[k] \in [Page -> {"hole", "none", "charged", "reusable", "sticky"}]
  BY <1>1, <1>3
<1>5. host'[k][q] = new
  BY <1>4
<1>6. \A p \in Page : p # q => host'[k][p] = host[k][p]
  BY <1>4
<1>7. host' \in [Mapping -> [Page -> {"hole", "none", "charged", "reusable", "sticky"}]]
      /\ \A j \in Mapping : j # k => host'[j] = host[j]
  <2> HIDE DEF new
  <2>1. QED
    BY <1>1, <1>2, <1>3
<1>8. \A r : Is(host[k][q], r) /\ host[k][q] # "hole" => Is(host'[k][q], TouchedKind(r))
  BY <1>2, <1>5, TouchedIs
<1>9. QED
  BY <1>2, <1>5, <1>6, <1>7, <1>8

\* Writing one page of a mapping.
LEMMA WriteOne ==
  ASSUME NEW k \in Mapping, NEW q \in Page, NEW who \in {"host", "guest"}, MachineTypeOK,
         Write(k, q, who)
  PROVE  /\ Charge(k, q)
         /\ val' \in [Mapping -> [Page -> {"zero", "host", "guest"}]]
         /\ loose' \subseteq Mapping \X Page /\ gone' \subseteq Mapping \X Page
         /\ \A j \in Mapping : j # k => val'[j] = val[j]
         /\ \A j \in Mapping, p \in Page : j # k => (<<j, p>> \in gone' <=> <<j, p>> \in gone)
         /\ Inked(k, q, who)'
         /\ \A p \in Page, w \in {"host", "guest"} : p # q /\ Inked(k, p, w) => Inked(k, p, w)'
<1>1. /\ val \in [Mapping -> [Page -> {"zero", "host", "guest"}]]
      /\ val' = [val EXCEPT ![k][q] = who] /\ loose' = loose \ {<<k, q>>} /\ gone' = gone \ {<<k, q>>}
      /\ Charge(k, q) /\ loose \subseteq Mapping \X Page /\ gone \subseteq Mapping \X Page
  BY DEF MachineTypeOK, Write
<1>2. /\ val' \in [Mapping -> [Page -> {"zero", "host", "guest"}]]
      /\ \A j \in Mapping : j # k => val'[j] = val[j]
      /\ val'[k][q] = who
      /\ \A p \in Page : p # q => val'[k][p] = val[k][p]
  BY <1>1
<1>3. Inked(k, q, who)'
  BY <1>1, <1>2 DEF Inked
<1>4. \A p \in Page, w \in {"host", "guest"} : p # q /\ Inked(k, p, w) => Inked(k, p, w)'
  BY <1>1, <1>2 DEF Inked
<1>5. QED
  BY <1>1, <1>2, <1>3, <1>4

\* A store of the host, into the RAM or into the canary.
LEMMA HostStoreLands ==
  ASSUME NEW a, NEW b, NEW m, NEW c, Here(a, b, m, c), HostStore, UNCHANGED fixedVars
  PROVE  Lands(b)' /\ Step
<1>1. It.op = "host store" /\ AfterHostStore(It, a, b)
  BY DEF HostStore, Now, Here, It, Effect
<1>2. PICK q \in Page :
        /\ It.pages = {q}
        /\ IF It.of = "canary"
             THEN /\ a.can.up = "yes"
                  /\ b = [a EXCEPT !.can = [up |-> "yes", ink |-> a.can.ink \cup {q}]]
             ELSE /\ It.of \in a.ram.names
                  /\ a.ram.kind[q] # "hole"
                  /\ Change(a, b, Marked(a.ram, {q}, "host"))
  BY <1>1 DEF AfterHostStore
<1>3. MachineTypeOK /\ KindsMatch(a, m, c) /\ ShownMatch(a, m) /\ PinsMatch(a, m)
      /\ InksMatch(a, m, c) /\ a \in Known /\ b \in Known
      /\ a.ram.shown \subseteq Page /\ a.can.ink \subseteq Page
  BY Facts
<1>4. /\ Write(Map, q, "host") /\ Step
      /\ UNCHANGED <<stage2, pinned, env, reg, rows, surveyVars, sampleVars, pressureVars, opts>>
  BY <1>2 DEF HostStore, bookVars, fixedVars
<1>5. ASSUME Map \in Mapping PROVE MachineTypeOK'
  <2>1. host' \in [Mapping -> [Page -> {"hole", "none", "charged", "reusable", "sticky"}]]
    BY <1>3, <1>4, <1>5, WriteOne, ChargeOne
  <2>2. /\ val' \in [Mapping -> [Page -> {"zero", "host", "guest"}]]
        /\ loose' \subseteq Mapping \X Page /\ gone' \subseteq Mapping \X Page
    BY <1>3, <1>4, <1>5, WriteOne
  <2>3. QED
    BY <1>3, <1>4, <2>1, <2>2 DEF MachineTypeOK, surveyVars, sampleVars, Step
<1>6. CASE It.of = "canary"
  <2>1. a.can.up = "yes" /\ b = [a EXCEPT !.can = [up |-> "yes", ink |-> a.can.ink \cup {q}]]
    BY <1>2, <1>6
  <2>2. Map = c /\ c \in Mapping /\ c # 0 /\ m # c
    BY <1>6, <2>1, Facts DEF Map, Mapping
  <2>3. b.can = [up |-> "yes", ink |-> a.can.ink \cup {q}]
    BY <1>3, <2>1 DEF Known
  <2>4. CanChange(a, b) /\ a.can.up = "yes" /\ b.can.up = "yes" /\ b.can.ink = a.can.ink \cup {q}
    BY <2>1, <2>3 DEF CanChange
  <2>5. /\ \A j \in Mapping : j # c => host'[j] = host[j] /\ val'[j] = val[j]
        /\ \A j \in Mapping, p \in Page : j # c => (<<j, p>> \in gone' <=> <<j, p>> \in gone)
    BY <1>3, <1>4, <2>2, WriteOne, ChargeOne
  <2>6. \A p \in Page : host'[c][p] # "hole"
    <3>1. \A p \in Page : host[c][p] # "hole"
      BY <1>3, <2>2 DEF KindsMatch
    <3>2. QED
      BY <1>3, <1>4, <2>2, <3>1, WriteOne, ChargeOne
  <2>7. \A p \in b.can.ink : Inked(c, p, "host")'
    <3> TAKE p \in b.can.ink
    <3>1. CASE p = q
      BY <1>3, <1>4, <2>2, <3>1, WriteOne
    <3>2. CASE p # q
      <4>1. p \in a.can.ink /\ p \in Page /\ Inked(c, p, "host")
        BY <1>3, <2>4, <3>2 DEF InksMatch
      <4>2. QED
        BY <1>3, <1>4, <2>2, <3>2, <4>1, WriteOne
    <3>3. QED
      BY <3>1, <3>2
  <2>8. pinned' = pinned \ ({c} \X Page)
    BY <1>3, <1>4, <2>2 DEF PinsMatch
  <2>9. c \in {c, 0} /\ MachineTypeOK' /\ It.op \in AddressOps /\ todo' = Tail(todo)
    BY <1>1, <1>4, <1>5, <2>2 DEF AddressOps, Step
  <2>10. UNCHANGED <<stage2, env, reg, rows, surveyVars, sampleVars, pressureVars, opts>>
    BY <1>4
  <2>11. Lands(b)'
    BY <2>2, <2>4, <2>5, <2>6, <2>7, <2>8, <2>9, <2>10, CanLands
  <2>12. QED
    BY <1>4, <2>11
<1>7. CASE It.of # "canary"
  <2>1. It.of \in a.ram.names /\ a.ram.kind[q] # "hole" /\ Change(a, b, Marked(a.ram, {q}, "host"))
    BY <1>2, <1>7
  <2>2. Map = m /\ m \in Mapping /\ m # 0
    BY <2>1, Facts DEF Map, Mapping
  <2> DEFINE r == Marked(a.ram, {q}, "host")
  <2>3. /\ r.names = a.ram.names /\ r.shown = a.ram.shown /\ r.pin = a.ram.pin
        /\ \A p \in Page : r.kind[p] = IF p = q THEN TouchedKind(a.ram.kind[p]) ELSE a.ram.kind[p]
        /\ \A p \in Page : r.ink[p] = IF p = q THEN "host" ELSE a.ram.ink[p]
    BY <1>3 DEF Marked, Touched, Known, RamKnown
  <2> HIDE DEF r
  <2>4. b.ram = r /\ b.ram.names = a.ram.names
    BY <1>3, <2>1, <2>3, Changed DEF r
  <2>5. Change(a, b, b.ram)
    BY <2>1, <2>4 DEF r
  <2>6. Charge(m, q) /\ host[m][q] # "hole" /\ Is(host[m][q], a.ram.kind[q])
    BY <1>3, <1>4, <2>1, <2>2, WriteOne DEF KindsMatch, Is
  <2>7. /\ \A j \in Mapping : j # m => host'[j] = host[j] /\ val'[j] = val[j]
        /\ \A j \in Mapping, p \in Page : j # m => (<<j, p>> \in gone' <=> <<j, p>> \in gone)
    BY <1>3, <1>4, <2>2, <2>6, WriteOne, ChargeOne
  <2>8. \A p \in Page : Is(host'[m][p], b.ram.kind[p])
    <3>1. Is(host'[m][q], TouchedKind(a.ram.kind[q]))
      BY <1>3, <2>2, <2>6, ChargeOne
    <3>2. \A p \in Page : p # q => host'[m][p] = host[m][p]
      BY <1>3, <2>2, <2>6, ChargeOne
    <3>3. QED
      BY <1>3, <2>2, <2>3, <2>4, <3>1, <3>2 DEF KindsMatch
  <2>9. a.press # "calm" => \A p \in Page : b.ram.kind[p] \in {"hole", "any"}
    BY <1>3, <2>3, <2>4 DEF KindsMatch, TouchedKind
  <2>10. ShownMatch(b, m)'
    BY <1>3, <1>4, <2>3, <2>4 DEF ShownMatch, TouchedKind
  <2>11. PinsMatch(b, m)'
    BY <1>3, <1>4, <2>3, <2>4 DEF PinsMatch
  <2>12. \A p \in Page : b.ram.ink[p] # "any" => Inked(m, p, b.ram.ink[p])'
    <3> TAKE p \in Page
    <3>1. CASE p = q
      BY <1>3, <1>4, <2>2, <2>3, <2>4, <3>1, WriteOne
    <3>2. CASE p # q
      <4>1. a.ram.ink[p] \in {"any", "host", "guest"} /\ b.ram.ink[p] = a.ram.ink[p]
        BY <1>3, <2>3, <2>4, <3>2 DEF Known, RamKnown
      <4>2. a.ram.ink[p] # "any" => Inked(m, p, a.ram.ink[p])
        BY <1>3 DEF InksMatch
      <4>3. a.ram.ink[p] # "any" => Inked(m, p, a.ram.ink[p])'
        BY <1>3, <1>4, <2>2, <3>2, <4>1, <4>2, WriteOne
      <4>4. QED
        BY <4>1, <4>3
    <3>3. QED
      BY <3>1, <3>2
  <2>13. QED
    BY <1>1, <1>4, <1>5, <2>2, <2>4, <2>5, <2>7, <2>8, <2>9, <2>10, <2>11, <2>12, RamLands
    DEF Step, AddressOps
<1>8. QED
  BY <1>6, <1>7

\* A store of the guest, into a page it is shown.
LEMMA GuestStoreLands ==
  ASSUME NEW a, NEW b, NEW m, NEW c, Here(a, b, m, c), GuestStore, UNCHANGED fixedVars
  PROVE  Lands(b)' /\ Step
<1>1. It.op = "guest store" /\ AfterGuestStore(It, a, b)
  BY DEF GuestStore, Now, Here, It, Effect
<1>2. PICK q \in a.ram.shown : It.pages = {q} /\ Change(a, b, Stored(a.ram, {q}))
  BY <1>1 DEF AfterGuestStore
<1>3. MachineTypeOK /\ KindsMatch(a, m, c) /\ ShownMatch(a, m) /\ PinsMatch(a, m)
      /\ InksMatch(a, m, c) /\ a \in Known /\ b \in Known
      /\ a.ram.shown \subseteq Page /\ q \in Page /\ m \in Mapping /\ m # 0
  BY <1>2, Facts DEF Mapping
<1>4. stage2[q] = m /\ a.ram.kind[q] # "hole"
  BY <1>2, <1>3 DEF ShownMatch
<1>5. /\ Write(m, q, "guest") /\ pinned' = pinned \cup {<<m, q>>} /\ Step
      /\ UNCHANGED <<stage2, env, reg, rows, surveyVars, sampleVars, pressureVars, opts>>
  BY <1>2, <1>3, <1>4 DEF GuestStore, bookVars, fixedVars
<1>6. Charge(m, q) /\ host[m][q] # "hole" /\ Is(host[m][q], a.ram.kind[q])
  BY <1>3, <1>4, <1>5, WriteOne DEF KindsMatch, Is
<1>7. MachineTypeOK'
  <2>1. host' \in [Mapping -> [Page -> {"hole", "none", "charged", "reusable", "sticky"}]]
    BY <1>3, <1>6, ChargeOne
  <2>2. /\ val' \in [Mapping -> [Page -> {"zero", "host", "guest"}]]
        /\ loose' \subseteq Mapping \X Page /\ gone' \subseteq Mapping \X Page
    BY <1>3, <1>5, WriteOne
  <2>3. pinned' \subseteq Mapping \X Page
    BY <1>3, <1>5 DEF MachineTypeOK
  <2>4. QED
    BY <1>3, <1>5, <2>1, <2>2, <2>3 DEF MachineTypeOK, surveyVars, sampleVars, Step
<1> DEFINE r == Stored(a.ram, {q})
<1>8. /\ r.names = a.ram.names /\ r.shown = a.ram.shown
      /\ \A p \in Page : r.pin[p] = IF p = q THEN "yes" ELSE a.ram.pin[p]
      /\ \A p \in Page : r.kind[p] = IF p = q THEN TouchedKind(a.ram.kind[p]) ELSE a.ram.kind[p]
      /\ \A p \in Page : r.ink[p] = IF p = q THEN "guest" ELSE a.ram.ink[p]
  BY <1>3 DEF Stored, Marked, Touched, Known, RamKnown
<1> HIDE DEF r
<1>9. b.ram = r /\ b.ram.names = a.ram.names
  BY <1>2, <1>3, <1>8, Changed DEF r
<1>10. Change(a, b, b.ram)
  BY <1>2, <1>9 DEF r
<1>11. /\ \A j \in Mapping : j # m => host'[j] = host[j] /\ val'[j] = val[j]
       /\ \A j \in Mapping, p \in Page : j # m => (<<j, p>> \in gone' <=> <<j, p>> \in gone)
  BY <1>3, <1>5, <1>6, WriteOne, ChargeOne
<1>12. \A p \in Page : Is(host'[m][p], b.ram.kind[p])
  <2>1. Is(host'[m][q], TouchedKind(a.ram.kind[q]))
    BY <1>3, <1>6, ChargeOne
  <2>2. \A p \in Page : p # q => host'[m][p] = host[m][p]
    BY <1>3, <1>6, ChargeOne
  <2>3. QED
    BY <1>3, <1>8, <1>9, <2>1, <2>2 DEF KindsMatch
<1>13. a.press # "calm" => \A p \in Page : b.ram.kind[p] \in {"hole", "any"}
  BY <1>3, <1>8, <1>9 DEF KindsMatch, TouchedKind
<1>14. ShownMatch(b, m)'
  BY <1>3, <1>5, <1>8, <1>9 DEF ShownMatch, TouchedKind
<1>15. PinsMatch(b, m)'
  BY <1>3, <1>5, <1>8, <1>9 DEF PinsMatch
<1>16. \A p \in Page : b.ram.ink[p] # "any" => Inked(m, p, b.ram.ink[p])'
  <2> TAKE p \in Page
  <2>1. CASE p = q
    BY <1>3, <1>5, <1>8, <1>9, <2>1, WriteOne
  <2>2. CASE p # q
    <3>1. a.ram.ink[p] \in {"any", "host", "guest"} /\ b.ram.ink[p] = a.ram.ink[p]
      BY <1>3, <1>8, <1>9, <2>2 DEF Known, RamKnown
    <3>2. a.ram.ink[p] # "any" => Inked(m, p, a.ram.ink[p])
      BY <1>3 DEF InksMatch
    <3>3. a.ram.ink[p] # "any" => Inked(m, p, a.ram.ink[p])'
      BY <1>3, <1>5, <2>2, <3>1, <3>2, WriteOne
    <3>4. QED
      BY <3>1, <3>3
  <2>3. QED
    BY <2>1, <2>2
<1>17. QED
  BY <1>1, <1>3, <1>5, <1>7, <1>9, <1>10, <1>11, <1>12, <1>13, <1>14, <1>15, <1>16, RamLands
  DEF Step, AddressOps

\* A load of the guest, which may charge and pin the page it is shown, or not.
LEMMA GuestLoadLands ==
  ASSUME NEW a, NEW b, NEW m, NEW c, Here(a, b, m, c), GuestLoad, UNCHANGED fixedVars
  PROVE  Lands(b)' /\ Step
<1>1. It.op = "guest load" /\ AfterGuestLoad(It, a, b)
  BY DEF GuestLoad, Now, Here, It, Effect
<1>2. PICK q \in a.ram.shown : It.pages = {q} /\ Change(a, b, Loaded(a.ram, {q}))
  BY <1>1 DEF AfterGuestLoad
<1>3. MachineTypeOK /\ KindsMatch(a, m, c) /\ ShownMatch(a, m) /\ PinsMatch(a, m)
      /\ InksMatch(a, m, c) /\ a \in Known /\ b \in Known
      /\ a.ram.shown \subseteq Page /\ q \in Page /\ m \in Mapping /\ m # 0
  BY <1>2, Facts DEF Mapping
<1>4. stage2[q] = m /\ a.ram.kind[q] # "hole"
  BY <1>2, <1>3 DEF ShownMatch
<1>5. /\ Charge(m, q) \/ host' = host
      /\ pinned' = pinned \cup {<<m, q>>} \/ pinned' = pinned
      /\ Step
      /\ UNCHANGED <<val, stage2, loose, gone, env, reg, rows, surveyVars, sampleVars, pressureVars, opts>>
  BY <1>2, <1>3, <1>4 DEF GuestLoad, bookVars, fixedVars
<1>6. host[m][q] # "hole"
  BY <1>3, <1>4 DEF KindsMatch, Is
<1>7. /\ host' \in [Mapping -> [Page -> {"hole", "none", "charged", "reusable", "sticky"}]]
      /\ \A j \in Mapping : j # m => host'[j] = host[j]
      /\ \A p \in Page : p # q => host'[m][p] = host[m][p]
      /\ host'[m][q] # "hole"
  <2>1. CASE Charge(m, q)
    BY <1>3, <1>6, <2>1, ChargeOne
  <2>2. CASE host' = host
    BY <1>3, <1>6, <2>2 DEF MachineTypeOK
  <2>3. QED
    BY <1>5, <2>1, <2>2
<1>8. MachineTypeOK'
  <2>1. pinned' \subseteq Mapping \X Page
    BY <1>3, <1>5 DEF MachineTypeOK
  <2>2. QED
    BY <1>3, <1>5, <1>7, <2>1 DEF MachineTypeOK, surveyVars, sampleVars, Step
<1> DEFINE r == Loaded(a.ram, {q})
<1>9. /\ r.names = a.ram.names /\ r.shown = a.ram.shown /\ r.ink = a.ram.ink
      /\ \A p \in Page : r.pin[p] = IF p = q THEN "any" ELSE a.ram.pin[p]
      /\ \A p \in Page : r.kind[p] = IF p = q THEN "any" ELSE a.ram.kind[p]
  BY <1>3 DEF Loaded, Known, RamKnown
<1> HIDE DEF r
<1>10. b.ram = r /\ b.ram.names = a.ram.names
  BY <1>2, <1>3, <1>9, Changed DEF r
<1>11. Change(a, b, b.ram)
  BY <1>2, <1>10 DEF r
<1>12. \A p \in Page : Is(host'[m][p], b.ram.kind[p])
  BY <1>3, <1>7, <1>9, <1>10 DEF KindsMatch, Is
<1>13. a.press # "calm" => \A p \in Page : b.ram.kind[p] \in {"hole", "any"}
  BY <1>3, <1>9, <1>10 DEF KindsMatch
<1>14. ShownMatch(b, m)'
  BY <1>3, <1>5, <1>9, <1>10 DEF ShownMatch
<1>15. PinsMatch(b, m)'
  BY <1>3, <1>5, <1>9, <1>10 DEF PinsMatch
<1>16. \A p \in Page : b.ram.ink[p] # "any" => Inked(m, p, b.ram.ink[p])'
  BY <1>3, <1>5, <1>9, <1>10 DEF InksMatch, Inked
<1>17. \A j \in Mapping : j # m => host'[j] = host[j] /\ val'[j] = val[j]
  BY <1>5, <1>7
<1>18. QED
  BY <1>1, <1>3, <1>5, <1>8, <1>10, <1>11, <1>12, <1>13, <1>14, <1>15, <1>16, <1>17, RamLands
  DEF Step, AddressOps

-----------------------------------------------------------------------------
(* The footprint. *)

\* There are finitely many pages, and Pages of them.
LEMMA PageCount ==
  /\ IsFiniteSet(Page) /\ Cardinality(Page) = Pages /\ 0 \in Page /\ Page \subseteq Nat
  /\ IsFiniteSet(Mapping) /\ IsFiniteSet(Mapping \X Page)
<1>1. IsFiniteSet(Page) /\ Cardinality(Page) = Pages
  BY FS_Interval, MachineAssumption DEF Page
<1>2. IsFiniteSet(Mapping)
  BY FS_Interval, MachineAssumption DEF Mapping
<1>3. IsFiniteSet(Mapping \X Page)
  BY <1>1, <1>2, FS_Product
<1>4. 0 \in Page /\ Page \subseteq Nat
  BY MachineAssumption DEF Page
<1>5. QED
  BY <1>1, <1>2, <1>3, <1>4

\* Pages of one mapping are counted by their numbers.
LEMMA OfOne ==
  ASSUME NEW k, NEW S \in SUBSET Page
  PROVE  IsFiniteSet(S) /\ IsFiniteSet({k} \X S) /\ Cardinality({k} \X S) = Cardinality(S)
         /\ Cardinality(S) \in Nat /\ Cardinality(S) <= Pages
<1>1. IsFiniteSet(S) /\ Cardinality(S) \in Nat /\ Cardinality(S) <= Pages
  BY PageCount, FS_Subset, FS_CardinalityType
<1>2. IsFiniteSet({k}) /\ Cardinality({k}) = 1
  BY FS_Singleton
<1>3. IsFiniteSet({k} \X S) /\ Cardinality({k} \X S) = 1 * Cardinality(S)
  BY <1>1, <1>2, FS_Product
<1>4. QED
  BY <1>1, <1>3

\* The footprint is a number of pages.
LEMMA FootprintType == Footprint \in Nat
<1> DEFINE F == {x \in Mapping \X Page : host[x[1]][x[2]] = "charged"}
<1>1. IsFiniteSet(F)
  <2>1. F \subseteq Mapping \X Page
    OBVIOUS
  <2> HIDE DEF F
  <2>2. QED
    BY <2>1, PageCount, FS_Subset
<1>2. QED
  BY <1>1, FS_CardinalityType DEF Footprint

\* Without a canary it is between what is surely charged and what may be.
LEMMA FootprintBetween ==
  ASSUME NEW a \in Known, NEW m, NEW c, MachineTypeOK, MapsMatch(a, m, c), KindsMatch(a, m, c),
         a.can.up = "no"
  PROVE  /\ Footprint \in Nat
         /\ IsFiniteSet(Charged(a.ram)) /\ IsFiniteSet(Maybe(a.ram))
         /\ Charged(a.ram) \subseteq Maybe(a.ram)
         /\ Cardinality(Charged(a.ram)) \in Nat /\ Cardinality(Maybe(a.ram)) \in Nat
         /\ Cardinality(Charged(a.ram)) <= Footprint
         /\ Footprint <= Cardinality(Maybe(a.ram))
<1> DEFINE S == {p \in Page : m # 0 /\ host[m][p] = "charged"}
           F == {x \in Mapping \X Page : host[x[1]][x[2]] = "charged"}
<1>1. c = 0 /\ m \in 0..MaxMaps
  BY DEF MapsMatch
<1>2. F = {m} \X S
  <2>1. ASSUME NEW x \in F PROVE x \in {m} \X S
    <3>1. x[1] \in Mapping /\ x[2] \in Page /\ x = <<x[1], x[2]>> /\ host[x[1]][x[2]] = "charged"
      OBVIOUS
    <3>2. x[1] = m
      BY <1>1, <3>1 DEF MapsMatch, Mapping
    <3>3. QED
      BY <3>1, <3>2 DEF Mapping
  <2>2. ASSUME NEW x \in {m} \X S PROVE x \in F
    BY <1>1, <2>2 DEF Mapping
  <2>3. QED
    BY <2>1, <2>2
<1>3. S \subseteq Page /\ Charged(a.ram) \subseteq S /\ S \subseteq Maybe(a.ram)
      /\ Maybe(a.ram) \subseteq Page /\ Charged(a.ram) \subseteq Page
  <2>1. S \subseteq Maybe(a.ram)
    BY DEF KindsMatch, Is, Maybe
  <2>2. Charged(a.ram) \subseteq S
    BY DEF KindsMatch, Is, Charged
  <2>3. QED
    BY <2>1, <2>2 DEF Maybe, Charged
<1>4. Footprint = Cardinality(F)
  BY DEF Footprint
<1> HIDE DEF S, F
<1>5. Footprint = Cardinality(S)
  BY <1>2, <1>3, <1>4, OfOne
<1>6. Cardinality(Charged(a.ram)) <= Cardinality(S) /\ Cardinality(S) <= Cardinality(Maybe(a.ram))
  BY <1>3, OfOne, FS_Subset
<1>7. QED
  BY <1>3, <1>5, <1>6, OfOne

-----------------------------------------------------------------------------
(* Calls that leave the memory alone. *)

\* The parts about the memory.
LEMMA Still ==
  ASSUME NEW a, NEW b, NEW m, NEW c, Here(a, b, m, c),
         b.ram = a.ram, b.can = a.can, b.press = a.press \/ a.press # "calm",
         UNCHANGED <<memVars, env>>
  PROVE  MapsMatch(b, m, c)' /\ KindsMatch(b, m, c)' /\ ShownMatch(b, m)' /\ PinsMatch(b, m)'
         /\ InksMatch(b, m, c)'
<1>1. MapsMatch(a, m, c) /\ KindsMatch(a, m, c) /\ ShownMatch(a, m) /\ PinsMatch(a, m)
      /\ InksMatch(a, m, c)
  BY Facts
<1>2. UNCHANGED <<host, val, stage2, pinned, gone, env>>
  BY DEF memVars
<1>3. MapsMatch(b, m, c)'
  BY <1>1, <1>2 DEF MapsMatch
<1>4. KindsMatch(b, m, c)'
  BY <1>1, <1>2 DEF KindsMatch
<1>5. ShownMatch(b, m)' /\ PinsMatch(b, m)'
  BY <1>1, <1>2 DEF ShownMatch, PinsMatch
<1>6. InksMatch(b, m, c)'
  BY <1>1, <1>2 DEF InksMatch, Inked
<1>7. QED
  BY <1>3, <1>4, <1>5, <1>6

\* The parts about the pressure, the surveys, the readings, the sampler and
\* the goal, each where the call does not touch it.
LEMMA Others ==
  ASSUME NEW a, NEW b, NEW m, NEW c, Here(a, b, m, c), opts' = opts
  PROVE  /\ OnGoal(opts, b)'
         /\ It.op \notin {"peek", "report"} => a.sur.of = "none"
         /\ It.op \notin {"apply", "drop guard"} /\ b.press = a.press
              /\ todo' = Tail(todo) /\ UNCHANGED pressureVars => PressMatch(b)'
         /\ b.sur.of = "none" => SurveyMatch(b, m, c)'
         /\ b.regs = a.regs /\ b.n = a.n /\ UNCHANGED <<reg, rows>> => BookMatch(b)'
         /\ b.sampling = a.sampling /\ sampler' = sampler => SamplerMatch(b)'
         /\ b.goal = a.goal /\ up' = up => GoalMatch(b)'
<1>1. Matches(a, m, c) /\ Effect(opts, It, a, b)
  BY DEF Here
<1>2. OnGoal(opts, b)'
  <2>1. OnGoal(opts, b)
    BY <1>1 DEF Effect
  <2>2. QED
    BY <2>1 DEF OnGoal, Charged, Maybe
<1>3. It.op \notin {"peek", "report"} => a.sur.of = "none"
  BY <1>1 DEF Effect
<1>4. ASSUME It.op \notin {"apply", "drop guard"}, b.press = a.press, UNCHANGED pressureVars
      PROVE  PressMatch(b)'
  BY <1>1, <1>4 DEF Matches, PressMatch, pressureVars, It
<1>5. b.sur.of = "none" => SurveyMatch(b, m, c)'
  BY DEF SurveyMatch
<1>6. b.regs = a.regs /\ b.n = a.n /\ UNCHANGED <<reg, rows>> => BookMatch(b)'
  BY <1>1 DEF Matches, BookMatch
<1>7. b.sampling = a.sampling /\ sampler' = sampler => SamplerMatch(b)'
  BY <1>1 DEF Matches, SamplerMatch
<1>8. b.goal = a.goal /\ up' = up => GoalMatch(b)'
  BY <1>1, <1>2 DEF Matches, GoalMatch
<1>9. QED
  BY <1>2, <1>3, <1>4, <1>5, <1>6, <1>7, <1>8

\* What lands when every part does.
LEMMA AllLand ==
  ASSUME NEW b, NEW m, NEW c, MachineTypeOK',
         MapsMatch(b, m, c)', KindsMatch(b, m, c)', ShownMatch(b, m)', PinsMatch(b, m)',
         InksMatch(b, m, c)', PressMatch(b)', SurveyMatch(b, m, c)', BookMatch(b)',
         SamplerMatch(b)', GoalMatch(b)'
  PROVE  Lands(b)'
<1>1. Matches(b, m, c)' /\ m \in 0..MaxMaps /\ c \in 0..MaxMaps
  BY DEF Matches, MapsMatch
<1>2. QED
  BY <1>1 DEF Lands

\* Ledger::read.
LEMMA ReadLands ==
  ASSUME NEW a, NEW b, NEW m, NEW c, Here(a, b, m, c), ReadLedger, UNCHANGED fixedVars
  PROVE  Lands(b)' /\ Step
<1>1. It.op = "read" /\ AfterRead(It, a, b)
  BY DEF ReadLedger, Now, Here, It, Effect
<1>2. PICK v \in {"zero", "full", "any"} :
        Reads(a, v) /\ b = [a EXCEPT !.regs = [a.regs EXCEPT ![It.of] = v]]
  BY <1>1 DEF AfterRead
<1>3. It.of \in Reading
  BY <1>1 DEF AfterRead
<1>4. MachineTypeOK /\ a \in Known /\ MapsMatch(a, m, c) /\ KindsMatch(a, m, c)
  BY Facts
<1>5. /\ reg' = [reg EXCEPT ![It.of] = Footprint] /\ Step
      /\ UNCHANGED <<memVars, env>> /\ UNCHANGED rows /\ UNCHANGED surveyVars
      /\ UNCHANGED sampleVars /\ UNCHANGED pressureVars /\ UNCHANGED opts
  BY DEF ReadLedger, fixedVars
<1>6. /\ b.ram = a.ram /\ b.can = a.can /\ b.sur = a.sur /\ b.press = a.press /\ b.n = a.n
      /\ b.sampling = a.sampling /\ b.goal = a.goal /\ b.regs = [a.regs EXCEPT ![It.of] = v]
      /\ a.regs \in [Reading -> {"zero", "full", "any"}]
  BY <1>2, <1>4 DEF Known
<1>7. MachineTypeOK'
  <2>1. reg' \in [Reading -> Nat]
    BY <1>3, <1>4, <1>5, FootprintType DEF MachineTypeOK
  <2>2. QED
    BY <1>4, <1>5, <2>1 DEF MachineTypeOK, memVars, surveyVars, sampleVars, Step
<1>8. /\ v = "zero" => Footprint = 0
      /\ v = "full" => Footprint = Pages
  <2>1. v = "zero" => Cardinality(Maybe(a.ram)) = 0 /\ a.can.up = "no"
    BY <1>2, FS_EmptySet DEF Reads
  <2>2. v = "full" => Cardinality(Charged(a.ram)) = Pages /\ a.can.up = "no"
    BY <1>2, PageCount DEF Reads
  <2>3. Cardinality(Maybe(a.ram)) <= Pages
    BY OfOne DEF Maybe
  <2>4. QED
    BY <1>4, <2>1, <2>2, <2>3, FootprintBetween, MachineAssumption
<1>9. BookMatch(b)'
  <2>1. BookMatch(a)
    BY DEF Here, Matches
  <2>2. \A x \in Reading : reg'[x] = IF x = It.of THEN Footprint ELSE reg[x]
    BY <1>4, <1>5 DEF MachineTypeOK
  <2>3. \A x \in Reading : b.regs[x] = IF x = It.of THEN v ELSE a.regs[x]
    BY <1>6
  <2>4. QED
    BY <1>5, <1>6, <1>8, <2>1, <2>2, <2>3 DEF BookMatch
<1>10. UNCHANGED <<sampler, up>>
  BY <1>5 DEF sampleVars
<1>11. MapsMatch(b, m, c)' /\ KindsMatch(b, m, c)' /\ ShownMatch(b, m)' /\ PinsMatch(b, m)'
       /\ InksMatch(b, m, c)'
  BY <1>5, <1>6, Still
<1>12. PressMatch(b)' /\ SurveyMatch(b, m, c)' /\ SamplerMatch(b)' /\ GoalMatch(b)'
  BY <1>1, <1>5, <1>6, <1>10, Others DEF Step
<1>13. QED
  BY <1>5, <1>7, <1>9, <1>11, <1>12, AllLand

\* A reading that is kept under another name.
LEMMA LetLands ==
  ASSUME NEW a, NEW b, NEW m, NEW c, Here(a, b, m, c), LetReading, UNCHANGED fixedVars
  PROVE  Lands(b)' /\ Step
<1>1. It.op = "let" /\ AfterLet(It, a, b)
  BY DEF LetReading, Now, Here, It, Effect
<1>2. /\ It.of \in Reading /\ It.arg \in Reading
      /\ b = [a EXCEPT !.regs = [a.regs EXCEPT ![It.of] = a.regs[It.arg]]]
  BY <1>1 DEF AfterLet
<1>3. MachineTypeOK /\ a \in Known
  BY Facts
<1>4. /\ reg' = [reg EXCEPT ![It.of] = reg[It.arg]] /\ Step
      /\ UNCHANGED <<memVars, env>> /\ UNCHANGED rows /\ UNCHANGED surveyVars
      /\ UNCHANGED sampleVars /\ UNCHANGED pressureVars /\ UNCHANGED opts
  BY DEF LetReading, fixedVars
<1>5. /\ b.ram = a.ram /\ b.can = a.can /\ b.sur = a.sur /\ b.press = a.press /\ b.n = a.n
      /\ b.sampling = a.sampling /\ b.goal = a.goal
      /\ b.regs = [a.regs EXCEPT ![It.of] = a.regs[It.arg]]
      /\ a.regs \in [Reading -> {"zero", "full", "any"}]
  BY <1>2, <1>3 DEF Known
<1>6. MachineTypeOK'
  <2>1. reg' \in [Reading -> Nat]
    BY <1>2, <1>3, <1>4 DEF MachineTypeOK
  <2>2. QED
    BY <1>3, <1>4, <2>1 DEF MachineTypeOK, memVars, surveyVars, sampleVars, Step
<1>7. BookMatch(b)'
  <2>1. BookMatch(a)
    BY DEF Here, Matches
  <2>2. \A x \in Reading : reg'[x] = IF x = It.of THEN reg[It.arg] ELSE reg[x]
    BY <1>3, <1>4 DEF MachineTypeOK
  <2>3. \A x \in Reading : b.regs[x] = IF x = It.of THEN a.regs[It.arg] ELSE a.regs[x]
    BY <1>5
  <2>4. QED
    BY <1>2, <1>4, <1>5, <2>1, <2>2, <2>3 DEF BookMatch
<1>8. UNCHANGED <<sampler, up>>
  BY <1>4 DEF sampleVars
<1>9. MapsMatch(b, m, c)' /\ KindsMatch(b, m, c)' /\ ShownMatch(b, m)' /\ PinsMatch(b, m)'
       /\ InksMatch(b, m, c)'
  BY <1>4, <1>5, Still
<1>10. PressMatch(b)' /\ SurveyMatch(b, m, c)' /\ SamplerMatch(b)' /\ GoalMatch(b)'
  BY <1>1, <1>4, <1>5, <1>8, Others DEF Step
<1>11. QED
  BY <1>4, <1>6, <1>7, <1>9, <1>10, AllLand

\* A pointer that is given the RAM of another.
LEMMA LetPointerLands ==
  ASSUME NEW a, NEW b, NEW m, NEW c, Here(a, b, m, c), LetPointer, UNCHANGED fixedVars
  PROVE  Lands(b)' /\ Step
<1>1. It.op = "let pointer" /\ AfterLetPointer(It, a, b)
  BY DEF LetPointer, Now, Here, It, Effect
<1>2. /\ It.of \in {"main", "local"} /\ It.arg \in a.ram.names
      /\ Change(a, b, [a.ram EXCEPT !.names = a.ram.names \cup {It.of}])
  BY <1>1 DEF AfterLetPointer
<1>3. MachineTypeOK /\ a \in Known /\ MapsMatch(a, m, c) /\ KindsMatch(a, m, c)
      /\ ShownMatch(a, m) /\ PinsMatch(a, m) /\ InksMatch(a, m, c) /\ m # 0
      /\ a.ram.names \subseteq {"main", "local"} /\ env[It.arg] = m /\ m \in Mapping
  BY <1>2, Facts DEF Mapping
<1>4. /\ env' = [env EXCEPT ![It.of] = m] /\ Step
      /\ UNCHANGED memVars /\ UNCHANGED <<reg, rows>> /\ UNCHANGED surveyVars
      /\ UNCHANGED sampleVars /\ UNCHANGED pressureVars /\ UNCHANGED opts
  BY <1>3 DEF LetPointer, fixedVars
<1>5. /\ b.can = a.can /\ b.sur = a.sur /\ b.press = a.press /\ b.n = a.n /\ b.regs = a.regs
      /\ b.sampling = a.sampling /\ b.goal = a.goal
      /\ b.ram = [a.ram EXCEPT !.names = a.ram.names \cup {It.of}]
  BY <1>2, <1>3, Changed
<1>6. /\ b.ram.names = a.ram.names \cup {It.of} /\ b.ram.kind = a.ram.kind
      /\ b.ram.pin = a.ram.pin /\ b.ram.shown = a.ram.shown /\ b.ram.ink = a.ram.ink
  BY <1>3, <1>5 DEF Known, RamKnown
<1>7. MachineTypeOK'
  <2>1. env' \in [Pointer -> 0..MaxMaps]
    <3>1. env \in [Pointer -> 0..MaxMaps] /\ m \in 0..MaxMaps
      BY <1>3 DEF MachineTypeOK, Mapping
    <3>2. QED
      BY <1>4, <3>1
  <2>2. QED
    BY <1>3, <1>4, <2>1 DEF MachineTypeOK, memVars, surveyVars, sampleVars, Step
<1>8. UNCHANGED <<host, val, stage2, pinned, gone>>
  BY <1>4 DEF memVars
<1>9. MapsMatch(b, m, c)'
  <2>1. /\ \A x \in b.ram.names : env'[x] = m
        /\ env'["canary"] = env["canary"]
    BY <1>2, <1>3, <1>4, <1>6 DEF MachineTypeOK, Pointer, MapsMatch
  <2>2. QED
    BY <1>3, <1>5, <1>6, <1>8, <2>1 DEF MapsMatch
<1>10. KindsMatch(b, m, c)' /\ ShownMatch(b, m)' /\ PinsMatch(b, m)'
  BY <1>3, <1>5, <1>6, <1>8 DEF KindsMatch, ShownMatch, PinsMatch
<1>11. InksMatch(b, m, c)'
  BY <1>3, <1>5, <1>6, <1>8 DEF InksMatch, Inked
<1>12. UNCHANGED <<sampler, up>>
  BY <1>4 DEF sampleVars
<1>13. PressMatch(b)' /\ SurveyMatch(b, m, c)' /\ SamplerMatch(b)' /\ GoalMatch(b)' /\ BookMatch(b)'
  BY <1>1, <1>4, <1>5, <1>12, Others DEF Step
<1>14. QED
  BY <1>4, <1>7, <1>9, <1>10, <1>11, <1>13, AllLand

\* A delta that is recorded.
LEMMA RecordLands ==
  ASSUME NEW a, NEW b, NEW m, NEW c, Here(a, b, m, c), Record, UNCHANGED fixedVars,
         rows \in Seq([after : Reading, before : Reading, delta : Int])
  PROVE  Lands(b)' /\ Step
<1>1. It.op = "record" /\ AfterRecord(opts, It, a, b)
  BY DEF Record, Now, Here, It, Effect
<1>2. It.of \in Reading /\ It.arg \in Reading /\ b = [a EXCEPT !.n = a.n + 1]
  BY <1>1 DEF AfterRecord
<1>3. MachineTypeOK /\ a \in Known /\ BookMatch(a)
  BY Facts DEF Here, Matches
<1>4. /\ rows' = Append(rows, [after |-> It.of, before |-> It.arg, delta |-> reg[It.of] - reg[It.arg]])
      /\ Step /\ UNCHANGED <<memVars, env>> /\ UNCHANGED reg /\ UNCHANGED surveyVars
      /\ UNCHANGED sampleVars /\ UNCHANGED pressureVars /\ UNCHANGED opts
  BY DEF Record, fixedVars
<1>5. /\ b.ram = a.ram /\ b.can = a.can /\ b.sur = a.sur /\ b.press = a.press /\ b.n = a.n + 1
      /\ b.sampling = a.sampling /\ b.goal = a.goal /\ b.regs = a.regs
  BY <1>2, <1>3 DEF Known
<1>6. MachineTypeOK'
  BY <1>3, <1>4 DEF MachineTypeOK, memVars, surveyVars, sampleVars, Step
<1>7. Len(rows') = Len(rows) + 1
  <2>1. [after |-> It.of, before |-> It.arg, delta |-> reg[It.of] - reg[It.arg]]
          \in [after : Reading, before : Reading, delta : Int]
    BY <1>2, <1>3 DEF MachineTypeOK
  <2>2. QED
    BY <1>4, <2>1
<1>8. BookMatch(b)'
  BY <1>3, <1>4, <1>5, <1>7 DEF BookMatch
<1>9. UNCHANGED <<sampler, up>>
  BY <1>4 DEF sampleVars
<1>10. MapsMatch(b, m, c)' /\ KindsMatch(b, m, c)' /\ ShownMatch(b, m)' /\ PinsMatch(b, m)'
       /\ InksMatch(b, m, c)'
  BY <1>4, <1>5, Still
<1>11. PressMatch(b)' /\ SurveyMatch(b, m, c)' /\ SamplerMatch(b)' /\ GoalMatch(b)'
  BY <1>1, <1>4, <1>5, <1>9, Others DEF Step
<1>12. QED
  BY <1>4, <1>6, <1>8, <1>10, <1>11, AllLand

\* The rows stay right: a row that is recorded is what the code says of it.
LEMMA RecordRows ==
  ASSUME NEW a, NEW b, NEW m, NEW c, Here(a, b, m, c), Record, UNCHANGED fixedVars, RowsRight
  PROVE  RowsRight'
<1> DEFINE Row == [after : Reading, before : Reading, delta : Int]
           new == [after |-> It.of, before |-> It.arg, delta |-> reg[It.of] - reg[It.arg]]
<1>0. PICK n : n = Len(rows)
  OBVIOUS
<1>1. It.op = "record" /\ AfterRecord(opts, It, a, b)
  BY DEF Record, Now, Here, It, Effect
<1>2. It.of \in Reading /\ It.arg \in Reading /\ RowFits(opts, a.n + 1, It, a.regs)
  BY <1>1 DEF AfterRecord
<1>3. MachineTypeOK /\ a \in Known /\ BookMatch(a) /\ a.regs \in [Reading -> {"zero", "full", "any"}]
  BY Facts DEF Here, Matches, Known
<1>4. rows' = Append(rows, new) /\ opts' = opts
  BY DEF Record, fixedVars
<1>5. rows \in Seq(Row) /\ new \in Row /\ n \in Nat /\ a.n = n
  BY <1>0, <1>2, <1>3 DEF RowsRight, MachineTypeOK, BookMatch
<1>6. /\ rows' \in Seq(Row) /\ DOMAIN rows = 1..n /\ DOMAIN rows' = 1..n + 1
      /\ (\A i \in 1..n : rows'[i] = rows[i]) /\ rows'[n + 1] = new
  BY <1>0, <1>4, <1>5
<1>7. new.after = It.of /\ new.delta = reg[It.of] - reg[It.arg]
  OBVIOUS
<1> HIDE DEF new
<1>8. opts.tool = "time" => \A i \in DOMAIN rows' : rows'[i].after = "reclaimed"
  <2>1. opts.tool = "time" => It.of = "reclaimed" /\ \A i \in 1..n : rows[i].after = "reclaimed"
    BY <1>2, <1>6 DEF RowFits, RowsRight
  <2>2. QED
    BY <1>5, <1>6, <1>7, <2>1
<1>9. \A i \in 1..n : First(i)' <=> First(i)
  <2> TAKE i \in 1..n
  <2>1. rows'[i].after = rows[i].after /\ i <= n + 1
    BY <1>5, <1>6
  <2>2. PICK x : x = rows[i].after
    OBVIOUS
  <2>3. \A j : j \in RowsOf(x) => j \in RowsOf(x)'
    BY <1>5, <1>6 DEF RowsOf
  <2>4. \A j : j \in RowsOf(x)' => j \in RowsOf(x) \/ j = n + 1
    BY <1>5, <1>6 DEF RowsOf
  <2>5. First(i) <=> \A j \in RowsOf(x) : i <= j
    BY <2>2 DEF First
  <2>6. First(i)' <=> \A j \in RowsOf(x)' : i <= j
    BY <2>1, <2>2 DEF First
  <2>7. QED
    BY <2>1, <2>3, <2>4, <2>5, <2>6
<1>10. opts.tool = "time" => (First(n + 1)' <=> n + 1 = 1)
  <2> HAVE opts.tool = "time"
  <2>1. rows'[n + 1].after = "reclaimed" /\ n + 1 \in 1..n + 1
    BY <1>5, <1>6, <1>8
  <2>2. RowsOf("reclaimed")' = 1..n + 1
    BY <1>6, <1>8 DEF RowsOf
  <2>3. First(n + 1)' <=> \A j \in 1..n + 1 : n + 1 <= j
    BY <2>1, <2>2 DEF First
  <2>4. QED
    BY <1>5, <2>3
<1>11. ASSUME NEW i \in 1..n
       PROVE  /\ (FullyReclaimed(i)' <=> FullyReclaimed(i))
              /\ (NotReclaimed(i)' <=> NotReclaimed(i))
  BY <1>4, <1>9 DEF FullyReclaimed, NotReclaimed
<1>12. /\ FullyReclaimed(n + 1)' => FullRow(opts, n + 1)
       /\ NotReclaimed(n + 1)' => NotRow(opts, n + 1)
  <2>1. FullyReclaimed(n + 1)' => FullRow(opts, n + 1)
    BY <1>4, <1>10 DEF FullyReclaimed, FullRow
  <2>2. NotReclaimed(n + 1)' => NotRow(opts, n + 1)
    BY <1>4, <1>10 DEF NotReclaimed, NotRow
  <2>3. QED
    BY <2>1, <2>2
<1>13. /\ It.of = "dirtied" /\ opts.touch # "read" => new.delta = Pages
       /\ It.of = "reclaimed" /\ FullRow(opts, n + 1) => new.delta = -Pages
       /\ It.of = "reclaimed" /\ NotRow(opts, n + 1) => new.delta = 0
  <2>1. /\ \A r \in Reading : a.regs[r] = "zero" => reg[r] = 0
        /\ \A r \in Reading : a.regs[r] = "full" => reg[r] = Pages
    BY <1>3 DEF BookMatch
  <2>2. a.regs[It.of] \in {"zero", "full", "any"} /\ a.regs[It.arg] \in {"zero", "full", "any"}
    BY <1>2, <1>3
  <2>3. RowFits(opts, n + 1, It, a.regs)
    BY <1>2, <1>5
  <2>4. QED
    BY <1>2, <1>7, <2>1, <2>2, <2>3, MachineAssumption DEF RowFits
<1>14. RowsValid'
  <2>1. ASSUME opts.touch # "read", NEW i \in 1..n + 1, rows'[i].after = "dirtied"
        PROVE  rows'[i].delta = Pages
    <3>1. CASE i = n + 1
      BY <1>6, <1>7, <1>13, <2>1, <3>1
    <3>2. CASE i # n + 1
      <4>1. i \in 1..n /\ rows'[i] = rows[i]
        BY <1>5, <1>6, <3>2
      <4>2. QED
        BY <1>6, <2>1, <4>1 DEF RowsRight, RowsValid, RowsOf
    <3>3. QED
      BY <3>1, <3>2
  <2>2. ASSUME NEW i \in 1..n + 1, rows'[i].after = "reclaimed"
        PROVE  (FullyReclaimed(i)' => rows'[i].delta = -Pages)
               /\ (NotReclaimed(i)' => rows'[i].delta = 0)
    <3>1. CASE i = n + 1
      BY <1>6, <1>7, <1>12, <1>13, <2>2, <3>1
    <3>2. CASE i # n + 1
      <4>1. i \in 1..n /\ rows'[i] = rows[i]
        BY <1>5, <1>6, <3>2
      <4>2. i \in RowsOf("reclaimed")
        BY <1>6, <2>2, <4>1 DEF RowsOf
      <4>3. /\ FullyReclaimed(i) => rows[i].delta = -Pages
            /\ NotReclaimed(i) => rows[i].delta = 0
        BY <4>2 DEF RowsRight, RowsValid
      <4>4. QED
        BY <1>11, <4>1, <4>3
    <3>3. QED
      BY <3>1, <3>2
  <2>3. opts'.touch # "read" => \A i \in RowsOf("dirtied")' : rows'[i].delta = Pages
    BY <1>4, <1>6, <2>1 DEF RowsOf
  <2>4. \A i \in RowsOf("reclaimed")' : i \in 1..n + 1 /\ rows'[i].after = "reclaimed"
    BY <1>6 DEF RowsOf
  <2>5. QED
    BY <2>2, <2>3, <2>4 DEF RowsValid
<1>15. QED
  BY <1>4, <1>6, <1>8, <1>14 DEF RowsRight

-----------------------------------------------------------------------------
(* Surveys. *)

\* The pages of a mapping that are gone, counted in stretches.
LEMMA LostCount ==
  ASSUME NEW s, NEW k \in 0..Pages
  PROVE  /\ IsFiniteSet(Lost(s, 0, k)) /\ IsFiniteSet(Lost(s, k, Pages))
         /\ Cardinality(Lost(s, 0, k)) \in 0..k
         /\ Cardinality(Lost(s, k, Pages)) \in Nat
         /\ Lost(s, 0, 0) = {} /\ Cardinality(Lost(s, 0, 0)) = 0
         /\ Lost(s, Pages, Pages) = {} /\ Cardinality(Lost(s, Pages, Pages)) = 0
         /\ Lost(s, 0, Pages) = gone \cap ({s} \X Page)
         /\ k < Pages =>
              /\ Cardinality(Lost(s, 0, k + 1)) =
                   Cardinality(Lost(s, 0, k)) + (IF <<s, k>> \in gone THEN 1 ELSE 0)
              /\ Cardinality(Lost(s, k, Pages)) =
                   Cardinality(Lost(s, k + 1, Pages)) + (IF <<s, k>> \in gone THEN 1 ELSE 0)
<1>0. Pages \in Nat /\ k \in Nat /\ k <= Pages
  BY MachineAssumption
<1>1. ASSUME NEW lo \in 0..Pages, NEW hi \in 0..Pages
      PROVE  IsFiniteSet(Lost(s, lo, hi)) /\ Cardinality(Lost(s, lo, hi)) \in Nat
             /\ Cardinality(Lost(s, lo, hi)) <= Cardinality(lo..hi - 1)
  <2>1. lo..hi - 1 \in SUBSET Page
    BY <1>0 DEF Page
  <2>2. IsFiniteSet({s} \X (lo..hi - 1)) /\ Cardinality({s} \X (lo..hi - 1)) = Cardinality(lo..hi - 1)
    BY <2>1, OfOne
  <2>3. Lost(s, lo, hi) \in SUBSET ({s} \X (lo..hi - 1))
    BY DEF Lost
  <2>4. QED
    BY <2>2, <2>3, FS_Subset, FS_CardinalityType
<1>2. 0 \in 0..Pages /\ Pages \in 0..Pages
  BY <1>0
<1>3. Cardinality(0..k - 1) = k
  BY <1>0, FS_Interval
<1>4. /\ IsFiniteSet(Lost(s, 0, k)) /\ IsFiniteSet(Lost(s, k, Pages))
      /\ Cardinality(Lost(s, 0, k)) \in 0..k /\ Cardinality(Lost(s, k, Pages)) \in Nat
  BY <1>0, <1>1, <1>2, <1>3
<1>5. Lost(s, 0, 0) = {} /\ Lost(s, Pages, Pages) = {} /\ Lost(s, 0, Pages) = gone \cap ({s} \X Page)
  BY <1>0 DEF Lost, Page
<1>6. ASSUME k < Pages
      PROVE  /\ Cardinality(Lost(s, 0, k + 1)) =
                   Cardinality(Lost(s, 0, k)) + (IF <<s, k>> \in gone THEN 1 ELSE 0)
             /\ Cardinality(Lost(s, k, Pages)) =
                   Cardinality(Lost(s, k + 1, Pages)) + (IF <<s, k>> \in gone THEN 1 ELSE 0)
  <2>0. k + 1 \in 0..Pages
    BY <1>0, <1>6
  <2>1. <<s, k>> \notin Lost(s, 0, k) /\ <<s, k>> \notin Lost(s, k + 1, Pages)
    BY <1>0 DEF Lost
  <2>2. CASE <<s, k>> \in gone
    <3>1. Lost(s, 0, k + 1) = Lost(s, 0, k) \cup {<<s, k>>}
      BY <1>0, <1>6, <2>2 DEF Lost
    <3>2. Lost(s, k, Pages) = Lost(s, k + 1, Pages) \cup {<<s, k>>}
      BY <1>0, <1>6, <2>2 DEF Lost
    <3>3. IsFiniteSet(Lost(s, k + 1, Pages))
      BY <1>1, <1>2, <2>0
    <3>4. Cardinality(Lost(s, 0, k + 1)) = Cardinality(Lost(s, 0, k)) + 1
      BY <1>4, <2>1, <3>1, FS_AddElement
    <3>5. Cardinality(Lost(s, k, Pages)) = Cardinality(Lost(s, k + 1, Pages)) + 1
      BY <2>1, <3>2, <3>3, FS_AddElement
    <3>6. QED
      BY <2>2, <3>4, <3>5
  <2>3. CASE <<s, k>> \notin gone
    <3>1. Lost(s, 0, k + 1) = Lost(s, 0, k)
      BY <1>0, <1>6, <2>3 DEF Lost
    <3>2. Lost(s, k, Pages) = Lost(s, k + 1, Pages)
      BY <1>0, <1>6, <2>3 DEF Lost
    <3>3. Cardinality(Lost(s, k + 1, Pages)) \in Nat
      BY <1>1, <1>2, <2>0
    <3>4. QED
      BY <1>4, <2>3, <3>1, <3>2, <3>3
  <2>4. QED
    BY <2>2, <2>3
<1>7. QED
  BY <1>4, <1>5, <1>6, FS_EmptySet

\* The mapping a survey is about.
Target(of, m, c) == IF of = "canary" THEN c ELSE m

\* A survey begins.
LEMMA SurveyLands ==
  ASSUME NEW a, NEW b, NEW m, NEW c, Here(a, b, m, c), BeginSurvey, UNCHANGED fixedVars
  PROVE  Lands(b)' /\ Step
<1>1. It.op = "survey" /\ AfterSurvey(It, a, b)
  BY DEF BeginSurvey, Now, Here, It, Effect
<1>2. /\ IF It.of = "canary" THEN a.can.up = "yes" ELSE It.of \in a.ram.names
      /\ b = [a EXCEPT !.sur = [of |-> Surveyed(It), k |-> 0]]
  BY <1>1 DEF AfterSurvey
<1>3. MachineTypeOK /\ a \in Known /\ Map = Target(It.of, m, c)
  BY <1>2, Facts DEF Map, Target
<1>4. /\ tally' = 0 /\ from' = Cardinality(gone \cap ({Map} \X Page)) /\ reports' = reports
      /\ Step /\ UNCHANGED <<memVars, env>> /\ UNCHANGED <<reg, rows>>
      /\ UNCHANGED sampleVars /\ UNCHANGED pressureVars /\ UNCHANGED opts
  BY DEF BeginSurvey, bookVars, fixedVars, Their
<1>5. /\ b.ram = a.ram /\ b.can = a.can /\ b.press = a.press /\ b.n = a.n
      /\ b.sampling = a.sampling /\ b.goal = a.goal /\ b.regs = a.regs
      /\ b.sur = [of |-> Surveyed(It), k |-> 0]
  BY <1>2, <1>3 DEF Known
<1>6. from' = Cardinality(Lost(Map, 0, Pages)) /\ from' \in 0..Pages
      /\ Cardinality(Lost(Map, 0, 0)) = 0
  <2>1. 0 \in 0..Pages /\ Pages \in 0..Pages
    BY MachineAssumption
  <2>2. QED
    BY <1>4, <2>1, LostCount
<1>7. MachineTypeOK'
  BY <1>3, <1>4, <1>6, MachineAssumption DEF MachineTypeOK, memVars, sampleVars, Step
<1>8. SurveyMatch(b, m, c)'
  <2>1. \A lo, hi, x : Lost(x, lo, hi)' = Lost(x, lo, hi)
    BY <1>4 DEF Lost, memVars
  <2>2. Map = IF b.sur.of = "canary" THEN c ELSE m
    BY <1>3, <1>5 DEF Surveyed, Target
  <2>3. b.sur.k = 0
    BY <1>5
  <2>4. PICK s : s = Map
    OBVIOUS
  <2>5. /\ tally' <= Cardinality(Lost(s, 0, 0)')
        /\ from' <= tally' + Cardinality(Lost(s, 0, Pages)')
    BY <1>4, <1>6, <2>1, <2>4
  <2>6. QED
    BY <2>2, <2>3, <2>4, <2>5 DEF SurveyMatch
<1>9. UNCHANGED <<sampler, up>>
  BY <1>4 DEF sampleVars
<1>10. MapsMatch(b, m, c)' /\ KindsMatch(b, m, c)' /\ ShownMatch(b, m)' /\ PinsMatch(b, m)'
       /\ InksMatch(b, m, c)'
  BY <1>4, <1>5, Still
<1>11. PressMatch(b)' /\ BookMatch(b)' /\ SamplerMatch(b)' /\ GoalMatch(b)'
  BY <1>1, <1>4, <1>5, <1>9, Others DEF Step
<1>12. QED
  BY <1>4, <1>7, <1>8, <1>10, <1>11, AllLand

\* A survey ends.
LEMMA ReportLands ==
  ASSUME NEW a, NEW b, NEW m, NEW c, Here(a, b, m, c), Report, UNCHANGED fixedVars, SurveysHonest
  PROVE  Lands(b)' /\ Step /\ SurveysHonest'
<1>1. It.op = "report" /\ AfterReport(It, a, b)
  BY DEF Report, Now, Here, It, Effect
<1>2. /\ a.sur.of = Surveyed(It) /\ a.sur.k = Pages
      /\ IF It.of = "canary" THEN a.can.up = "yes" ELSE It.of \in a.ram.names
      /\ b = [a EXCEPT !.sur = [of |-> "none", k |-> 0]]
  BY <1>1 DEF AfterReport
<1>3. MachineTypeOK /\ a \in Known /\ Map = Target(It.of, m, c) /\ SurveyMatch(a, m, c)
  BY <1>2, Facts DEF Map, Target, Here, Matches
<1> DEFINE to == Cardinality(gone \cap ({Map} \X Page))
           new == [of |-> It.of, discarded |-> tally, conclusive |-> conclusive(tally),
                   from |-> from, to |-> to]
<1>4. /\ reports' = reports \cup {new} /\ UNCHANGED <<tally, from>>
      /\ Step /\ UNCHANGED <<memVars, env>> /\ UNCHANGED <<reg, rows>>
      /\ UNCHANGED sampleVars /\ UNCHANGED pressureVars /\ UNCHANGED opts
  BY DEF Report, bookVars, fixedVars, Their
<1>5. /\ b.ram = a.ram /\ b.can = a.can /\ b.press = a.press /\ b.n = a.n
      /\ b.sampling = a.sampling /\ b.goal = a.goal /\ b.regs = a.regs
      /\ b.sur.of = "none"
  BY <1>2, <1>3 DEF Known
<1>6. MachineTypeOK'
  BY <1>3, <1>4 DEF MachineTypeOK, memVars, sampleVars, Step
<1>7. from <= tally /\ tally <= to /\ from \in Nat /\ tally \in Nat /\ to \in Nat
  <2>1. Map = (IF a.sur.of = "canary" THEN c ELSE m) /\ a.sur.of # "none"
    BY <1>2, <1>3 DEF Surveyed, Target
  <2>2. /\ tally <= Cardinality(Lost(Map, 0, Pages))
        /\ from <= tally + Cardinality(Lost(Map, Pages, Pages))
    BY <1>2, <1>3, <2>1 DEF SurveyMatch
  <2>3. Pages \in 0..Pages
    BY MachineAssumption
  <2>4. to \in 0..Pages /\ to = Cardinality(Lost(Map, 0, Pages)) /\ Cardinality(Lost(Map, Pages, Pages)) = 0
    BY <2>3, LostCount
  <2>5. from \in Nat /\ tally \in Nat /\ to \in Nat
    BY <1>3, <2>4, MachineAssumption DEF MachineTypeOK
  <2>6. QED
    BY <2>2, <2>4, <2>5
<1> HIDE DEF to
<1>8. SurveyBounds(new) /\ CanaryHonest(new)
  <2>1. new.discarded = tally /\ new.from = from /\ new.to = to
    OBVIOUS
  <2>2. CASE tally * 2 >= Pages
    <3>1. new.conclusive = TRUE
      BY <2>2 DEF conclusive
    <3> HIDE DEF new
    <3>2. 2 * to >= Pages
      BY <1>7, <2>2, MachineAssumption
    <3>3. QED
      BY <1>7, <2>1, <3>1, <3>2 DEF SurveyBounds, CanaryHonest
  <2>3. CASE ~(tally * 2 >= Pages)
    <3>0. new.conclusive = conclusive(tally)
      OBVIOUS
    <3> HIDE DEF new
    <3>1. ~new.conclusive
      BY <2>3, <3>0 DEF conclusive
    <3>2. 2 * from < Pages
      BY <1>7, <2>3, MachineAssumption
    <3>3. QED
      BY <1>7, <2>1, <3>1, <3>2 DEF SurveyBounds, CanaryHonest
  <2>4. QED
    BY <2>2, <2>3
<1>9. SurveysHonest'
  <2> HIDE DEF new
  <2>1. ASSUME NEW r \in reports' PROVE SurveyBounds(r) /\ (r.of = "canary" => CanaryHonest(r))
    BY <1>4, <1>8, <2>1 DEF SurveysHonest
  <2>2. QED
    BY <2>1 DEF SurveysHonest, SurveyBounds, CanaryHonest
<1>10. UNCHANGED <<sampler, up>>
  BY <1>4 DEF sampleVars
<1>11. MapsMatch(b, m, c)' /\ KindsMatch(b, m, c)' /\ ShownMatch(b, m)' /\ PinsMatch(b, m)'
       /\ InksMatch(b, m, c)'
  BY <1>4, <1>5, Still
<1>12. PressMatch(b)' /\ BookMatch(b)' /\ SamplerMatch(b)' /\ GoalMatch(b)' /\ SurveyMatch(b, m, c)'
  BY <1>1, <1>4, <1>5, <1>10, Others DEF Step
<1>13. QED
  BY <1>4, <1>6, <1>9, <1>11, <1>12, AllLand

\* A survey reads one page: it counts it if, and only if, it is gone.
LEMMA PeekCounts ==
  ASSUME NEW a, NEW b, NEW m, NEW c, NEW s, NEW k \in 0..Pages, k < Pages,
         MachineTypeOK, SurveyMatch(a, m, c),
         a.sur.of # "none", s = IF a.sur.of = "canary" THEN c ELSE m,
         a.sur.k = k, b.sur = [of |-> a.sur.of, k |-> k + 1],
         tally' = IF <<s, k>> \in gone THEN tally + 1 ELSE tally,
         UNCHANGED <<from, gone>>
  PROVE  SurveyMatch(b, m, c)' /\ tally' \in 0..Pages
<1>1. /\ tally <= Cardinality(Lost(s, 0, k))
      /\ from <= tally + Cardinality(Lost(s, k, Pages))
  BY DEF SurveyMatch
<1>2. Pages \in Nat /\ k \in Nat /\ tally \in Nat /\ from \in Nat /\ k + 1 \in 0..Pages
  BY MachineAssumption DEF MachineTypeOK
<1>3. /\ Cardinality(Lost(s, 0, k)) \in Nat /\ Cardinality(Lost(s, k + 1, Pages)) \in Nat
      /\ Cardinality(Lost(s, 0, k + 1)) \in 0..k + 1
      /\ Cardinality(Lost(s, 0, k + 1)) =
           Cardinality(Lost(s, 0, k)) + (IF <<s, k>> \in gone THEN 1 ELSE 0)
      /\ Cardinality(Lost(s, k, Pages)) =
           Cardinality(Lost(s, k + 1, Pages)) + (IF <<s, k>> \in gone THEN 1 ELSE 0)
  <2>1. Cardinality(Lost(s, 0, k)) \in 0..k
    BY LostCount
  <2>2. Cardinality(Lost(s, k + 1, Pages)) \in Nat /\ Cardinality(Lost(s, 0, k + 1)) \in 0..k + 1
    BY <1>2, LostCount
  <2>3. /\ Cardinality(Lost(s, 0, k + 1)) =
             Cardinality(Lost(s, 0, k)) + (IF <<s, k>> \in gone THEN 1 ELSE 0)
        /\ Cardinality(Lost(s, k, Pages)) =
             Cardinality(Lost(s, k + 1, Pages)) + (IF <<s, k>> \in gone THEN 1 ELSE 0)
    BY LostCount
  <2>4. QED
    BY <1>2, <2>1, <2>2, <2>3
<1>4. /\ tally' <= Cardinality(Lost(s, 0, k + 1))
      /\ from' <= tally' + Cardinality(Lost(s, k + 1, Pages))
      /\ tally' \in Nat
  BY <1>1, <1>2, <1>3
<1>5. \A lo, hi, x : Lost(x, lo, hi)' = Lost(x, lo, hi)
  BY DEF Lost
<1>6. b.sur.of = a.sur.of /\ b.sur.k = k + 1
  OBVIOUS
<1>7. SurveyMatch(b, m, c)'
  BY <1>4, <1>5, <1>6 DEF SurveyMatch
<1>8. QED
  BY <1>2, <1>3, <1>4, <1>7

\* A peek at a page of the canary or of the RAM.
LEMMA PeekLands ==
  ASSUME NEW a, NEW b, NEW m, NEW c, Here(a, b, m, c), Peek, UNCHANGED fixedVars
  PROVE  Lands(b)' /\ Step
<1>1. It.op = "peek" /\ AfterPeek(It, a, b)
  BY DEF Peek, Now, Here, It, Effect
<1>2. PICK k : k = a.sur.k
  OBVIOUS
<1>3. /\ a.sur.of = Surveyed(It) /\ k < Pages /\ It.pages = {k}
      /\ IF It.of = "canary"
           THEN /\ a.can.up = "yes" /\ a.can.ink = Page /\ It.arg = "host"
                /\ b = [a EXCEPT !.sur = [of |-> "canary", k |-> k + 1]]
           ELSE /\ It.of \in a.ram.names
                /\ It.arg # "any"
                /\ \A p \in Page : a.ram.ink[p] = It.arg
                /\ b = [a EXCEPT !.ram = Touched(a.ram, {k}), !.sur = [of |-> "ram", k |-> k + 1]]
  BY <1>1, <1>2 DEF AfterPeek
<1>4. /\ MachineTypeOK /\ a \in Known /\ Map = Target(It.of, m, c) /\ SurveyMatch(a, m, c)
      /\ MapsMatch(a, m, c) /\ KindsMatch(a, m, c) /\ ShownMatch(a, m) /\ PinsMatch(a, m)
      /\ InksMatch(a, m, c) /\ Map \in Mapping /\ m # c /\ a.ram.shown \subseteq Page
  <2>1. a.sur.of # "none"
    BY <1>3 DEF Surveyed
  <2>2. MachineTypeOK /\ a \in Known /\ SurveyMatch(a, m, c)
    BY Facts DEF Here, Matches
  <2>3. CASE It.of = "canary"
    BY <1>3, <2>2, <2>3, Facts DEF Map, Target, Mapping
  <2>4. CASE It.of # "canary"
    BY <1>3, <2>2, <2>4, Facts DEF Map, Target, Mapping
  <2>5. QED
    BY <2>3, <2>4
<1>5. k \in 0..Pages /\ k \in Page
  BY <1>2, <1>3, <1>4, MachineAssumption DEF Known, SurKnown, Page
<1>6. /\ tally' = (IF val[Map][k] = It.arg THEN tally ELSE tally + 1) /\ Charge(Map, k) /\ Step
      /\ UNCHANGED <<val, stage2, pinned, loose, gone, from, reports, env>>
      /\ UNCHANGED <<reg, rows>> /\ UNCHANGED sampleVars /\ UNCHANGED pressureVars /\ UNCHANGED opts
  BY <1>3 DEF Peek, bookVars, fixedVars
<1>7. PICK s : s = Map
  OBVIOUS
<1>8. Inked(s, k, It.arg) /\ It.arg \in {"host", "guest"}
  <2>1. CASE It.of = "canary"
    BY <1>3, <1>4, <1>5, <1>7, <2>1 DEF InksMatch, Target
  <2>2. CASE It.of # "canary"
    <3>1. a.ram.ink[k] = It.arg /\ It.arg # "any" /\ It.arg \in {"any", "host", "guest"}
      BY <1>3, <1>4, <1>5, <2>2 DEF Known, RamKnown
    <3>2. QED
      BY <1>4, <1>5, <1>7, <2>2, <3>1 DEF InksMatch, Target
  <2>3. QED
    BY <2>1, <2>2
<1>9. tally' = IF <<s, k>> \in gone THEN tally + 1 ELSE tally
  BY <1>6, <1>7, <1>8 DEF Inked
<1>10. /\ b.can = a.can /\ b.press = a.press /\ b.n = a.n
       /\ b.sampling = a.sampling /\ b.goal = a.goal /\ b.regs = a.regs
       /\ b.sur = [of |-> a.sur.of, k |-> k + 1]
       /\ b.ram = IF It.of = "canary" THEN a.ram ELSE Touched(a.ram, {k})
  <2>1. CASE It.of = "canary"
    BY <1>3, <1>4, <2>1 DEF Known, Surveyed
  <2>2. CASE It.of # "canary"
    BY <1>3, <1>4, <2>2 DEF Known, Surveyed
  <2>3. QED
    BY <2>1, <2>2
<1>11. SurveyMatch(b, m, c)' /\ tally' \in 0..Pages
  <2>1. a.sur.of # "none" /\ s = IF a.sur.of = "canary" THEN c ELSE m
    BY <1>3, <1>4, <1>7 DEF Surveyed, Target
  <2>2. UNCHANGED <<from, gone>>
    BY <1>6
  <2>3. QED
    BY <1>2, <1>3, <1>4, <1>5, <1>9, <1>10, <2>1, <2>2, PeekCounts
<1>12. /\ host' \in [Mapping -> [Page -> {"hole", "none", "charged", "reusable", "sticky"}]]
       /\ \A j \in Mapping : j # s => host'[j] = host[j]
       /\ \A p \in Page : p # k => host'[s][p] = host[s][p]
       /\ host[s][k] # "hole" => host'[s][k] # "hole"
       /\ \A r : Is(host[s][k], r) /\ host[s][k] # "hole" => Is(host'[s][k], TouchedKind(r))
       /\ s \in Mapping
  BY <1>4, <1>5, <1>6, <1>7, ChargeOne
<1>13. MachineTypeOK'
  BY <1>4, <1>6, <1>11, <1>12 DEF MachineTypeOK, sampleVars, Step
<1>14. UNCHANGED <<sampler, up>>
  BY <1>6 DEF sampleVars
<1>15. PressMatch(b)' /\ BookMatch(b)' /\ SamplerMatch(b)' /\ GoalMatch(b)'
  BY <1>1, <1>6, <1>10, <1>14, Others DEF Step
<1>16. CASE It.of = "canary"
  <2>1. s = c /\ c # 0 /\ (m # 0 => m \in Mapping) /\ b.ram = a.ram
    BY <1>4, <1>7, <1>10, <1>12, <1>16 DEF Target, Mapping, MapsMatch
  <2>2. MapsMatch(b, m, c)'
    <3>1. \A j \in Mapping, p \in Page : j # m /\ j # c => host'[j][p] = "hole"
      BY <1>4, <1>12, <2>1 DEF MapsMatch
    <3>2. QED
      BY <1>4, <1>6, <1>10, <2>1, <3>1 DEF MapsMatch
  <2>3. KindsMatch(b, m, c)'
    BY <1>4, <1>10, <1>12, <2>1 DEF KindsMatch
  <2>4. ShownMatch(b, m)' /\ PinsMatch(b, m)'
    BY <1>4, <1>6, <2>1 DEF ShownMatch, PinsMatch
  <2>5. InksMatch(b, m, c)'
    BY <1>4, <1>6, <1>10, <2>1 DEF InksMatch, Inked
  <2>6. QED
    BY <1>6, <1>11, <1>13, <1>15, <2>2, <2>3, <2>4, <2>5, AllLand
<1>17. CASE It.of # "canary"
  <2>1. s = m /\ m # 0 /\ (c # 0 => c \in Mapping) /\ b.ram = Touched(a.ram, {k})
    BY <1>4, <1>7, <1>10, <1>12, <1>17 DEF Target, Mapping, MapsMatch
  <2>2. /\ b.ram.names = a.ram.names /\ b.ram.shown = a.ram.shown /\ b.ram.pin = a.ram.pin
        /\ b.ram.ink = a.ram.ink
        /\ \A p \in Page : b.ram.kind[p] = IF p = k THEN TouchedKind(a.ram.kind[p]) ELSE a.ram.kind[p]
    BY <1>4, <2>1 DEF Touched, Known, RamKnown
  <2>3. MapsMatch(b, m, c)'
    <3>1. \A j \in Mapping, p \in Page : j # m /\ j # c => host'[j][p] = "hole"
      BY <1>4, <1>12, <2>1 DEF MapsMatch
    <3>2. QED
      BY <1>4, <1>6, <1>10, <2>1, <2>2, <3>1 DEF MapsMatch
  <2>4. KindsMatch(b, m, c)'
    <3>1. Is(host'[m][k], b.ram.kind[k])
      <4>1. CASE a.ram.kind[k] = "hole"
        <5>1. host[m][k] = "hole" /\ b.ram.kind[k] = "hole"
          BY <1>4, <1>5, <2>1, <2>2, <4>1 DEF KindsMatch, Is, TouchedKind
        <5>2. host'[m][k] = "hole"
          BY <1>4, <1>5, <1>6, <1>7, <2>1, <5>1, ChargeOne
        <5>3. QED
          BY <5>1, <5>2 DEF Is
      <4>2. CASE a.ram.kind[k] # "hole"
        <5>1. Is(host[m][k], a.ram.kind[k]) /\ host[m][k] # "hole"
          BY <1>4, <1>5, <2>1, <4>2 DEF KindsMatch, Is
        <5>2. QED
          BY <1>5, <1>12, <2>1, <2>2, <5>1
      <4>3. QED
        BY <4>1, <4>2
    <3>2. \A p \in Page : Is(host'[m][p], b.ram.kind[p])
      BY <1>4, <1>12, <2>1, <2>2, <3>1 DEF KindsMatch
    <3>3. a.press # "calm" => \A p \in Page : b.ram.kind[p] \in {"hole", "any"}
      BY <1>4, <2>2 DEF KindsMatch, TouchedKind
    <3>4. QED
      BY <1>4, <1>10, <1>12, <2>1, <3>2, <3>3 DEF KindsMatch
  <2>5. ShownMatch(b, m)'
    BY <1>4, <1>6, <2>2 DEF ShownMatch, TouchedKind
  <2>6. PinsMatch(b, m)'
    BY <1>4, <1>6, <2>2 DEF PinsMatch
  <2>7. InksMatch(b, m, c)'
    BY <1>4, <1>6, <1>10, <2>2 DEF InksMatch, Inked
  <2>8. QED
    BY <1>6, <1>11, <1>13, <1>15, <2>3, <2>4, <2>5, <2>6, <2>7, AllLand
<1>18. QED
  BY <1>16, <1>17

-----------------------------------------------------------------------------
(* Pressure, the sampler and the marks. *)

\* apply spawns, goes on reading, returns a guard, or panics.
LEMMA ApplyLands ==
  ASSUME NEW a, NEW b, NEW m, NEW c, Here(a, b, m, c), ApplyCall, UNCHANGED fixedVars
  PROVE  \/ Lands(b)' /\ Step
         \/ Lands(a)' /\ UNCHANGED <<todo, status>>
         \/ MachineTypeOK' /\ todo' = <<>> /\ status' = "panicked"
<1>1. It.op = "apply" /\ AfterApply(It, a, b) /\ Head(todo).op = "apply"
  BY DEF ApplyCall, Now, Here, It, Effect
<1>2. a.press = "braced" /\ b = [a EXCEPT !.press = "guard"]
  BY <1>1 DEF AfterApply
<1>3. MachineTypeOK /\ a \in Known /\ PressMatch(a) /\ Matches(a, m, c) /\ todo # <<>>
  BY Facts DEF Here, Matches
<1>4. /\ UNCHANGED <<memVars, env>> /\ UNCHANGED <<reg, rows>> /\ UNCHANGED surveyVars
      /\ UNCHANGED sampleVars /\ UNCHANGED opts /\ Apply
  BY DEF ApplyCall, bookVars, fixedVars
<1>5. UNCHANGED <<sampler, up>>
  BY <1>4 DEF sampleVars
<1>6. CASE app' = "ok" /\ Step
  <2>1. /\ b.ram = a.ram /\ b.can = a.can /\ b.press = "guard" /\ b.n = a.n /\ b.sur = a.sur
        /\ b.sampling = a.sampling /\ b.goal = a.goal /\ b.regs = a.regs
    BY <1>2, <1>3 DEF Known
  <2>2. PressMatch(b)'
    BY <1>6, <2>1 DEF PressMatch
  <2>3. MachineTypeOK'
    BY <1>3, <1>4, <1>6 DEF MachineTypeOK, memVars, surveyVars, sampleVars, Step
  <2>4. MapsMatch(b, m, c)' /\ KindsMatch(b, m, c)' /\ ShownMatch(b, m)' /\ PinsMatch(b, m)'
        /\ InksMatch(b, m, c)'
    BY <1>2, <1>4, <2>1, Still
  <2>5. BookMatch(b)' /\ SamplerMatch(b)' /\ GoalMatch(b)' /\ SurveyMatch(b, m, c)'
    BY <1>1, <1>4, <1>5, <2>1, Others
  <2>6. QED
    BY <1>6, <2>2, <2>3, <2>4, <2>5, AllLand
<1>7. CASE app' = "reading" /\ UNCHANGED <<todo, status>>
  <2>1. PressMatch(a)'
    BY <1>1, <1>2, <1>3, <1>7 DEF PressMatch
  <2>2. MachineTypeOK'
    BY <1>3, <1>4, <1>7 DEF MachineTypeOK, memVars, surveyVars, sampleVars
  <2>3. UNCHANGED <<host, val, stage2, pinned, gone, env, reg, rows, tally, from, sampler, up, opts>>
    BY <1>4, <1>5 DEF memVars, surveyVars
  <2>4. MapsMatch(a, m, c)' /\ KindsMatch(a, m, c)' /\ ShownMatch(a, m)' /\ PinsMatch(a, m)'
    BY <1>3, <2>3 DEF Matches, MapsMatch, KindsMatch, ShownMatch, PinsMatch
  <2>5. InksMatch(a, m, c)'
    BY <1>3, <2>3 DEF Matches, InksMatch, Inked
  <2>6. BookMatch(a)' /\ SamplerMatch(a)'
    BY <1>3, <2>3 DEF Matches, BookMatch, SamplerMatch
  <2>7. GoalMatch(a)'
    BY <1>3, <2>3 DEF Matches, GoalMatch, OnGoal, Charged, Maybe
  <2>8. SurveyMatch(a, m, c)'
    BY <1>3, <2>3 DEF Matches, SurveyMatch, Lost
  <2>9. QED
    BY <1>7, <2>1, <2>2, <2>4, <2>5, <2>6, <2>7, <2>8, AllLand
<1>8. CASE app' = "err" /\ Refuse("panicked")
  BY <1>3, <1>4, <1>8 DEF MachineTypeOK, memVars, surveyVars, sampleVars, Refuse
<1>9. QED
  BY <1>6, <1>7, <1>8 DEF ApplyCall

\* The guard is dropped.
LEMMA DropLands ==
  ASSUME NEW a, NEW b, NEW m, NEW c, Here(a, b, m, c), DropCall, UNCHANGED fixedVars
  PROVE  Lands(b)' /\ Step
<1>1. It.op = "drop guard" /\ AfterDrop(It, a, b)
  BY DEF DropCall, Now, Here, It, Effect
<1>2. a.press = "guard" /\ b = [a EXCEPT !.press = "over"]
  BY <1>1 DEF AfterDrop
<1>3. MachineTypeOK /\ a \in Known
  BY Facts
<1>4. /\ UNCHANGED <<memVars, env>> /\ UNCHANGED <<reg, rows>> /\ UNCHANGED surveyVars
      /\ UNCHANGED sampleVars /\ UNCHANGED opts /\ app' = "dropped" /\ Step
  BY DEF DropCall, DropGuard, bookVars, fixedVars
<1>5. UNCHANGED <<sampler, up>>
  BY <1>4 DEF sampleVars
<1>6. /\ b.ram = a.ram /\ b.can = a.can /\ b.press = "over" /\ b.n = a.n /\ b.sur = a.sur
      /\ b.sampling = a.sampling /\ b.goal = a.goal /\ b.regs = a.regs
  BY <1>2, <1>3 DEF Known
<1>7. PressMatch(b)'
  BY <1>4, <1>6 DEF PressMatch
<1>8. MachineTypeOK'
  BY <1>3, <1>4 DEF MachineTypeOK, memVars, surveyVars, sampleVars, Step
<1>9. MapsMatch(b, m, c)' /\ KindsMatch(b, m, c)' /\ ShownMatch(b, m)' /\ PinsMatch(b, m)'
      /\ InksMatch(b, m, c)'
  BY <1>2, <1>4, <1>6, Still
<1>10. BookMatch(b)' /\ SamplerMatch(b)' /\ GoalMatch(b)' /\ SurveyMatch(b, m, c)'
  BY <1>1, <1>4, <1>5, <1>6, Others
<1>11. QED
  BY <1>4, <1>7, <1>8, <1>9, <1>10, AllLand

\* The sampling thread starts, is told to stop, and is joined.
LEMMA SamplerLands ==
  ASSUME NEW a, NEW b, NEW m, NEW c, Here(a, b, m, c), SpawnSampler \/ StopSampler \/ JoinSampler,
         UNCHANGED fixedVars
  PROVE  Lands(b)' /\ Step
<1>1. /\ It.op \in {"spawn sampler", "stop sampler", "join sampler"}
      /\ It.op = "spawn sampler" => AfterSpawn(It, a, b) /\ sampler' = "idle"
      /\ It.op = "stop sampler" => b = a /\ sampler' = sampler
      /\ It.op = "join sampler" => AfterJoin(It, a, b) /\ sampler' = "ended"
  <2>1. Effect(opts, It, a, b)
    BY DEF Here
  <2>2. QED
    BY <2>1 DEF SpawnSampler, StopSampler, JoinSampler, Now, It, Effect, sampleVars
<1>2. MachineTypeOK /\ a \in Known /\ SamplerMatch(a)
  BY Facts DEF Here, Matches
<1>3. /\ UNCHANGED <<memVars, env>> /\ UNCHANGED <<reg, rows>> /\ UNCHANGED surveyVars
      /\ UNCHANGED <<seen, sample, since, up>> /\ UNCHANGED pressureVars /\ UNCHANGED opts /\ Step
  BY DEF SpawnSampler, StopSampler, JoinSampler, bookVars, fixedVars, sampleVars
<1>4. /\ b.ram = a.ram /\ b.can = a.can /\ b.press = a.press /\ b.n = a.n /\ b.sur = a.sur
      /\ b.goal = a.goal /\ b.regs = a.regs
  BY <1>1, <1>2 DEF Known, AfterSpawn, AfterJoin
<1>5. SamplerMatch(b)' /\ sampler' \in {"off", "idle", "read", "ended"}
  <2>1. CASE It.op = "spawn sampler"
    <3>1. b.sampling = "on"
      BY <1>1, <1>2, <2>1 DEF Known, AfterSpawn
    <3>2. QED
      BY <1>1, <2>1, <3>1 DEF SamplerMatch
  <2>2. CASE It.op = "stop sampler"
    <3>1. sampler' = sampler /\ b = a /\ sampler \in {"off", "idle", "read", "ended"}
      BY <1>1, <1>2, <2>2 DEF MachineTypeOK
    <3>2. SamplerMatch(a)'
      BY <1>2, <3>1 DEF SamplerMatch
    <3>3. QED
      BY <3>1, <3>2, Zenon
  <2>3. CASE It.op = "join sampler"
    <3>1. b.sampling = "ended"
      BY <1>1, <1>2, <2>3 DEF Known, AfterJoin
    <3>2. QED
      BY <1>1, <2>3, <3>1 DEF SamplerMatch
  <2>4. QED
    BY <1>1, <2>1, <2>2, <2>3
<1>6. MachineTypeOK'
  BY <1>2, <1>3, <1>5 DEF MachineTypeOK, memVars, surveyVars, Step
<1>7. MapsMatch(b, m, c)' /\ KindsMatch(b, m, c)' /\ ShownMatch(b, m)' /\ PinsMatch(b, m)'
      /\ InksMatch(b, m, c)'
  BY <1>3, <1>4, Still
<1>8. up' = up
  BY <1>3
<1>9. BookMatch(b)' /\ PressMatch(b)' /\ GoalMatch(b)' /\ SurveyMatch(b, m, c)'
  BY <1>1, <1>3, <1>4, <1>8, Others DEF Step
<1>10. QED
  BY <1>3, <1>5, <1>6, <1>7, <1>9, AllLand

\* A MARK sets the goal.
LEMMA MarkLands ==
  ASSUME NEW a, NEW b, NEW m, NEW c, Here(a, b, m, c), Mark, UNCHANGED fixedVars
  PROVE  Lands(b)' /\ Step /\ Footprint = Cardinality(It.pages)
<1>1. It.op = "mark" /\ AfterMark(opts, It, a, b)
  BY DEF Mark, Now, Here, It, Effect
<1>2. PICK next \in SUBSET Page :
        /\ Cardinality(next) <= opts.region
        /\ b = [a EXCEPT !.goal = [upset |-> It.pages, next |-> next, trend |-> It.arg]]
  BY <1>1 DEF AfterMark
<1>3. a.can.up = "no" /\ Charged(a.ram) = It.pages /\ Maybe(a.ram) = It.pages
  BY <1>1 DEF AfterMark
<1>4. MachineTypeOK /\ a \in Known /\ MapsMatch(a, m, c) /\ KindsMatch(a, m, c)
  BY Facts
<1>5. /\ UNCHANGED <<memVars, env>> /\ UNCHANGED <<reg, rows>> /\ UNCHANGED surveyVars
      /\ UNCHANGED <<sampler, seen, sample>> /\ UNCHANGED pressureVars /\ UNCHANGED opts /\ Step
      /\ since' = 0 /\ up' = [pages |-> Cardinality(It.pages), trend |-> It.arg]
  BY DEF Mark, bookVars, fixedVars
<1>6. /\ b.ram = a.ram /\ b.can = a.can /\ b.press = a.press /\ b.n = a.n /\ b.sur = a.sur
      /\ b.sampling = a.sampling /\ b.regs = a.regs
      /\ b.goal = [upset |-> It.pages, next |-> next, trend |-> It.arg]
  BY <1>2, <1>4 DEF Known
<1>7. MachineTypeOK'
  BY <1>4, <1>5 DEF MachineTypeOK, memVars, surveyVars, Step
<1>8. MapsMatch(b, m, c)' /\ KindsMatch(b, m, c)' /\ ShownMatch(b, m)' /\ PinsMatch(b, m)'
      /\ InksMatch(b, m, c)'
  BY <1>5, <1>6, Still
<1>9. sampler' = sampler
  BY <1>5
<1>10. BookMatch(b)' /\ PressMatch(b)' /\ SamplerMatch(b)' /\ SurveyMatch(b, m, c)' /\ OnGoal(opts, b)'
  BY <1>1, <1>5, <1>6, <1>9, Others DEF Step
<1>11. GoalMatch(b)'
  <2>1. up' = [pages |-> Cardinality(b.goal.upset), trend |-> b.goal.trend]
        /\ Cardinality(b.goal.next) <= opts'.region
    BY <1>2, <1>5, <1>6
  <2>2. QED
    BY <1>10, <2>1 DEF GoalMatch
<1>12. Footprint = Cardinality(It.pages)
  <2>1. Cardinality(It.pages) <= Footprint /\ Footprint <= Cardinality(It.pages)
        /\ Footprint \in Nat /\ Cardinality(It.pages) \in Nat
    BY <1>3, <1>4, FootprintBetween
  <2>2. QED
    BY <2>1
<1>13. QED
  BY <1>5, <1>7, <1>8, <1>10, <1>11, <1>12, AllLand

-----------------------------------------------------------------------------
(* What the others do between two calls. *)

\* What is known stays known while nothing of the machine changes.
LEMMA Waiting ==
  ASSUME NEW a, NEW m, NEW c, Matches(a, m, c),
         UNCHANGED <<host, val, stage2, pinned, gone, env, reg, rows, tally, from, up, opts>>
  PROVE  MapsMatch(a, m, c)' /\ KindsMatch(a, m, c)' /\ ShownMatch(a, m)' /\ PinsMatch(a, m)'
         /\ InksMatch(a, m, c)' /\ BookMatch(a)' /\ GoalMatch(a)' /\ SurveyMatch(a, m, c)'
<1>1. MapsMatch(a, m, c)' /\ KindsMatch(a, m, c)' /\ ShownMatch(a, m)' /\ PinsMatch(a, m)'
  BY DEF Matches, MapsMatch, KindsMatch, ShownMatch, PinsMatch
<1>2. InksMatch(a, m, c)'
  BY DEF Matches, InksMatch, Inked
<1>3. BookMatch(a)'
  BY DEF Matches, BookMatch
<1>4. GoalMatch(a)'
  BY DEF Matches, GoalMatch, OnGoal, Charged, Maybe
<1>5. SurveyMatch(a, m, c)'
  BY DEF Matches, SurveyMatch, Lost
<1>6. QED
  BY <1>1, <1>2, <1>3, <1>4, <1>5

\* The kernel takes a page of the RAM or of the canary, under pressure.
LEMMA KernelLands ==
  ASSUME NEW a \in Known, NEW m, NEW c, MachineTypeOK, Matches(a, m, c), KernelTakes, opts' = opts
  PROVE  Lands(a)'
<1>1. PICK x \in Mapping \X Page :
        /\ x \notin gone
        /\ host[x[1]][x[2]] \notin {"hole", "none"}
        /\ val' = [val EXCEPT ![x[1]][x[2]] = "zero"]
        /\ gone' = gone \cup {x}
        /\ host' = [host EXCEPT ![x[1]][x[2]] = "none"]
  BY DEF KernelTakes
<1>2. /\ held > 0 /\ UNCHANGED <<stage2, pinned, loose, env, reg, rows, todo, status>>
      /\ UNCHANGED surveyVars /\ UNCHANGED sampleVars /\ UNCHANGED pressureVars
  BY DEF KernelTakes, bookVars
<1>3. PICK k \in Mapping, q \in Page : x = <<k, q>>
  BY <1>1
<1>4. /\ host \in [Mapping -> [Page -> {"hole", "none", "charged", "reusable", "sticky"}]]
      /\ val \in [Mapping -> [Page -> {"zero", "host", "guest"}]]
      /\ gone \subseteq Mapping \X Page
  BY DEF MachineTypeOK
<1>5. /\ val' = [val EXCEPT ![k][q] = "zero"] /\ host' = [host EXCEPT ![k][q] = "none"]
      /\ <<k, q>> \notin gone /\ gone' = gone \cup {<<k, q>>} /\ host[k][q] # "hole"
  BY <1>1, <1>3
<1>6. /\ host' \in [Mapping -> [Page -> {"hole", "none", "charged", "reusable", "sticky"}]]
      /\ host'[k][q] = "none"
      /\ \A j \in Mapping, p \in Page : j # k \/ p # q => host'[j][p] = host[j][p]
  BY <1>4, <1>5
<1>7. /\ val' \in [Mapping -> [Page -> {"zero", "host", "guest"}]]
      /\ val'[k][q] = "zero"
      /\ \A j \in Mapping, p \in Page : j # k \/ p # q => val'[j][p] = val[j][p]
  BY <1>4, <1>5
<1>8. MachineTypeOK'
  <2>1. gone' \subseteq Mapping \X Page
    BY <1>4, <1>5
  <2>2. QED
    BY <1>2, <1>6, <1>7, <2>1 DEF MachineTypeOK, surveyVars, sampleVars
<1>9. MapsMatch(a, m, c) /\ KindsMatch(a, m, c) /\ PressMatch(a) /\ InksMatch(a, m, c)
      /\ ShownMatch(a, m) /\ PinsMatch(a, m) /\ BookMatch(a) /\ SamplerMatch(a) /\ GoalMatch(a)
      /\ SurveyMatch(a, m, c)
  BY DEF Matches
<1>10. a.press # "calm"
  BY <1>2, <1>9 DEF PressMatch
<1>11. /\ k = m \/ k = c
       /\ (m # 0 => m \in Mapping) /\ (c # 0 => c \in Mapping)
       /\ a.can.ink \subseteq Page /\ (a.can.ink # {} => c \in Mapping)
  BY <1>5, <1>9 DEF MapsMatch, Mapping, Known, CanKnown
<1>12. MapsMatch(a, m, c)'
  <2>1. \A j \in Mapping, p \in Page : j # m /\ j # c => host'[j][p] = "hole"
    BY <1>6, <1>9, <1>11 DEF MapsMatch
  <2>2. QED
    BY <1>2, <1>9, <2>1 DEF MapsMatch
<1>13. KindsMatch(a, m, c)'
  <2>1. ASSUME m # 0, NEW p \in Page PROVE Is(host'[m][p], a.ram.kind[p])
    <3>1. m \in Mapping /\ Is(host[m][p], a.ram.kind[p]) /\ a.ram.kind[p] \in {"hole", "any"}
      BY <1>9, <1>10, <1>11, <2>1 DEF KindsMatch
    <3>2. CASE m = k /\ p = q
      BY <1>5, <1>6, <3>1, <3>2 DEF Is
    <3>3. CASE ~(m = k /\ p = q)
      BY <1>6, <3>1, <3>3
    <3>4. QED
      BY <3>2, <3>3
  <2>2. ASSUME c # 0, NEW p \in Page PROVE host'[c][p] # "hole"
    BY <1>6, <1>9, <1>11, <2>2 DEF KindsMatch
  <2>3. QED
    BY <1>9, <2>1, <2>2 DEF KindsMatch
<1>14. \A j \in Mapping, p \in Page, w \in {"host", "guest"} : Inked(j, p, w) => Inked(j, p, w)'
  <2> TAKE j \in Mapping, p \in Page, w \in {"host", "guest"}
  <2>1. CASE j = k /\ p = q
    BY <1>5, <1>7, <2>1 DEF Inked
  <2>2. CASE ~(j = k /\ p = q)
    BY <1>5, <1>7, <2>2 DEF Inked
  <2>3. QED
    BY <2>1, <2>2
<1>15. InksMatch(a, m, c)'
  <2>1. ASSUME NEW p \in Page, a.ram.ink[p] # "any" PROVE m # 0 /\ Inked(m, p, a.ram.ink[p])'
    <3>1. a.ram.ink[p] \in {"host", "guest"}
      BY <2>1 DEF Known, RamKnown
    <3>2. m # 0 /\ Inked(m, p, a.ram.ink[p])
      BY <1>9, <2>1 DEF InksMatch
    <3>3. QED
      BY <1>11, <1>14, <3>1, <3>2
  <2>2. \A p \in a.can.ink : Inked(c, p, "host")'
    BY <1>9, <1>11, <1>14 DEF InksMatch
  <2>3. QED
    BY <2>1, <2>2 DEF InksMatch
<1>16. SurveyMatch(a, m, c)'
  <2>1. ASSUME a.sur.of # "none",
               NEW s, s = IF a.sur.of = "canary" THEN c ELSE m
        PROVE  /\ tally <= Cardinality(Lost(s, 0, a.sur.k)')
               /\ from <= tally + Cardinality(Lost(s, a.sur.k, Pages)')
    <3>0. PICK j : j = a.sur.k
      OBVIOUS
    <3>1. j \in 0..Pages /\ tally \in Nat /\ from \in Nat
      BY <3>0, MachineAssumption DEF Known, SurKnown, MachineTypeOK
    <3>2. ASSUME NEW lo \in 0..Pages, NEW hi \in 0..Pages
          PROVE  /\ Cardinality(Lost(s, lo, hi)') \in Nat
                 /\ Cardinality(Lost(s, lo, hi)) <= Cardinality(Lost(s, lo, hi)')
      <4>1. lo..hi - 1 \in SUBSET Page
        BY MachineAssumption DEF Page
      <4>2. IsFiniteSet({s} \X (lo..hi - 1))
        BY <4>1, OfOne
      <4>3. Lost(s, lo, hi)' \in SUBSET ({s} \X (lo..hi - 1))
        BY DEF Lost
      <4>4. Lost(s, lo, hi) \in SUBSET Lost(s, lo, hi)'
        BY <1>5 DEF Lost
      <4>5. IsFiniteSet(Lost(s, lo, hi)')
        BY <4>2, <4>3, FS_Subset
      <4>6. QED
        BY <4>4, <4>5, FS_Subset, FS_CardinalityType
    <3>3. 0 \in 0..Pages /\ Pages \in 0..Pages
      BY MachineAssumption
    <3>4. /\ Cardinality(Lost(s, 0, j)') \in Nat
          /\ Cardinality(Lost(s, 0, j)) <= Cardinality(Lost(s, 0, j)')
          /\ Cardinality(Lost(s, j, Pages)') \in Nat
          /\ Cardinality(Lost(s, j, Pages)) <= Cardinality(Lost(s, j, Pages)')
      BY <3>1, <3>2, <3>3
    <3>5. Cardinality(Lost(s, 0, j)) \in 0..j /\ Cardinality(Lost(s, j, Pages)) \in Nat
      BY <3>1, LostCount
    <3>6. /\ tally <= Cardinality(Lost(s, 0, j))
          /\ from <= tally + Cardinality(Lost(s, j, Pages))
      BY <1>9, <2>1, <3>0 DEF SurveyMatch
    <3>7. /\ tally <= Cardinality(Lost(s, 0, j)')
          /\ from <= tally + Cardinality(Lost(s, j, Pages)')
      BY <3>1, <3>4, <3>5, <3>6
    <3>8. QED
      BY <3>0, <3>7
  <2>2. tally' = tally /\ from' = from
    BY <1>2 DEF surveyVars
  <2>3. QED
    BY <2>1, <2>2 DEF SurveyMatch
<1>17. ShownMatch(a, m)' /\ PinsMatch(a, m)'
  BY <1>2, <1>9 DEF ShownMatch, PinsMatch
<1>18. BookMatch(a)' /\ SamplerMatch(a)' /\ PressMatch(a)'
  BY <1>2, <1>9 DEF BookMatch, SamplerMatch, PressMatch, sampleVars, pressureVars
<1>19. GoalMatch(a)'
  BY <1>2, <1>9 DEF GoalMatch, OnGoal, Charged, Maybe, sampleVars
<1>20. QED
  BY <1>8, <1>12, <1>13, <1>15, <1>16, <1>17, <1>18, <1>19, AllLand

\* A reading between two MARKs is between what they say.
LEMMA ReadingBetween ==
  ASSUME NEW a \in Known, NEW m, NEW c, MachineTypeOK, Matches(a, m, c), opts.tool = "fleet",
         opts.region \in Nat
  PROVE  Footprint \in Between(up)
<1>1. MapsMatch(a, m, c) /\ KindsMatch(a, m, c) /\ GoalMatch(a)
  BY DEF Matches
<1>2. PICK U, N : U = a.goal.upset /\ N = a.goal.next
  OBVIOUS
<1>3. /\ U \in SUBSET Page /\ N \in SUBSET Page /\ a.goal.trend \in {"rising", "falling"}
  BY <1>2 DEF Known, GoalKnown
<1>4. /\ a.can.up = "no" /\ up = [pages |-> Cardinality(U), trend |-> a.goal.trend]
      /\ Cardinality(N) <= opts.region
      /\ a.goal.trend = "rising" => U \subseteq Charged(a.ram) /\ Maybe(a.ram) \subseteq U \cup N
      /\ a.goal.trend = "falling" => U \ N \subseteq Charged(a.ram) /\ Maybe(a.ram) \subseteq U
  BY <1>1, <1>2 DEF GoalMatch, OnGoal
<1>5. /\ Footprint \in Nat
      /\ IsFiniteSet(Charged(a.ram)) /\ IsFiniteSet(Maybe(a.ram))
      /\ Cardinality(Charged(a.ram)) \in Nat /\ Cardinality(Maybe(a.ram)) \in Nat
      /\ Cardinality(Charged(a.ram)) <= Footprint
      /\ Footprint <= Cardinality(Maybe(a.ram))
  BY <1>1, <1>4, FootprintBetween
<1>6. /\ IsFiniteSet(U) /\ IsFiniteSet(N) /\ Cardinality(U) \in Nat /\ Cardinality(N) \in Nat
  BY <1>3, OfOne
<1>7. IsFiniteSet(U \cap N) /\ Cardinality(U \cap N) \in Nat /\ Cardinality(U \cap N) <= Cardinality(N)
  <2>1. U \cap N \in SUBSET N
    OBVIOUS
  <2>2. QED
    BY <1>6, <2>1, FS_Subset, FS_CardinalityType
<1>8. CASE a.goal.trend = "rising"
  <2>1. Cardinality(U) <= Cardinality(Charged(a.ram))
    BY <1>4, <1>5, <1>8, FS_Subset
  <2>2. IsFiniteSet(U \cup N)
        /\ Cardinality(U \cup N) = Cardinality(U) + Cardinality(N) - Cardinality(U \cap N)
    BY <1>6, FS_Union
  <2>3. Cardinality(Maybe(a.ram)) <= Cardinality(U \cup N)
    BY <1>4, <1>8, <2>2, FS_Subset
  <2>4. Footprint \in Cardinality(U)..(Cardinality(U) + opts.region)
    BY <1>4, <1>5, <1>6, <1>7, <2>1, <2>2, <2>3
  <2>5. QED
    BY <1>4, <1>8, <2>4 DEF Between
<1>9. CASE a.goal.trend = "falling"
  <2>1. Cardinality(Maybe(a.ram)) <= Cardinality(U)
    BY <1>4, <1>6, <1>9, FS_Subset
  <2>2. Cardinality(U \ N) = Cardinality(U) - Cardinality(U \cap N)
    BY <1>6, FS_Difference
  <2>3. Cardinality(U \ N) <= Cardinality(Charged(a.ram))
    BY <1>4, <1>5, <1>9, FS_Subset
  <2>4. Footprint \in (Cardinality(U) - opts.region)..Cardinality(U)
    BY <1>4, <1>5, <1>6, <1>7, <2>1, <2>2, <2>3
  <2>5. QED
    BY <1>4, <1>9, <2>4 DEF Between
<1>10. QED
  BY <1>3, <1>8, <1>9

\* The sampling thread reads, prints or fails.
LEMMA SamplingLands ==
  ASSUME NEW a \in Known, NEW m, NEW c, MachineTypeOK, Matches(a, m, c), Sampler,
         UNCHANGED fixedVars, SamplesRight, opts.region \in Nat
  PROVE  Lands(a)' /\ UNCHANGED <<todo, status>> /\ SamplesRight'
<1>1. /\ UNCHANGED <<memVars, env>> /\ UNCHANGED <<reg, rows>> /\ UNCHANGED surveyVars
      /\ UNCHANGED <<up, todo, status>> /\ UNCHANGED pressureVars /\ UNCHANGED opts
      /\ sampler \in {"idle", "read"} /\ sampler' \in {"read", "idle", "ended"}
      /\ since' \in {since, IF since = 2 THEN 2 ELSE since + 1}
  BY DEF Sampler, SampleRead, SamplePrint, SampleFails, bookVars, fixedVars
<1>2. UNCHANGED <<host, val, stage2, pinned, loose, gone, env, reg, rows, tally, from, up, opts>>
  BY <1>1 DEF memVars, surveyVars
<1>3. since \in 0..2 /\ since' \in 0..2
  BY <1>1 DEF MachineTypeOK
<1>4. MachineTypeOK'
  BY <1>1, <1>2, <1>3 DEF MachineTypeOK
<1>5. SamplerMatch(a)'
  <2>1. SamplerMatch(a) /\ a.sampling \in {"off", "on", "ended"}
    BY DEF Matches, Known
  <2>2. a.sampling = "on"
    BY <1>1, <2>1 DEF SamplerMatch
  <2>3. QED
    BY <1>1, <2>2 DEF SamplerMatch
<1>6. PressMatch(a)'
  BY <1>1 DEF Matches, PressMatch, pressureVars
<1>7. Lands(a)'
  BY <1>2, <1>4, <1>5, <1>6, Waiting, AllLand
<1>8. SamplesRight'
  <2>1. Between(up)' = Between(up)
    BY <1>2 DEF Between
  <2>2. CASE SampleRead
    <3>1. /\ sampler' = "read" /\ seen' = Footprint /\ UNCHANGED <<sample, since, up, opts>>
      BY <1>2, <2>2 DEF SampleRead
    <3>2. opts.tool = "fleet" => Footprint \in Between(up)
      BY ReadingBetween
    <3>3. QED
      BY <2>1, <3>1, <3>2 DEF SamplesRight
  <2>3. CASE SamplePrint
    <3>1. /\ sampler = "read" /\ sampler' = "idle" /\ sample' = seen /\ UNCHANGED <<seen, up, opts>>
          /\ since' = IF since = 2 THEN 2 ELSE since + 1
      BY <1>2, <2>3 DEF SamplePrint
    <3>2. since' = 2 => since >= 1
      BY <1>3, <3>1
    <3>3. QED
      BY <2>1, <3>1, <3>2 DEF SamplesRight
  <2>4. CASE SampleFails
    <3>1. /\ sampler' = "ended" /\ UNCHANGED <<seen, sample, since, up, opts>>
      BY <1>2, <2>4 DEF SampleFails
    <3>2. QED
      BY <2>1, <3>1 DEF SamplesRight
  <2>5. QED
    BY <2>2, <2>3, <2>4 DEF Sampler
<1>9. QED
  BY <1>1, <1>7, <1>8

\* The generator goes on, or the tool is killed.
LEMMA BackgroundLands ==
  ASSUME NEW a \in Known, NEW m, NEW c, MachineTypeOK, Matches(a, m, c), Background,
         UNCHANGED fixedVars, PressureInv
  PROVE  Lands(a)'
<1>1. UNCHANGED <<memVars, bookVars, surveyVars, sampleVars, todo, status, opts>>
  BY DEF Background, others, fixedVars
<1>2. UNCHANGED <<host, val, stage2, pinned, loose, gone, env, reg, rows, tally, from, up, opts,
                  sampler, since, todo, status>>
  BY <1>1 DEF memVars, bookVars, surveyVars, sampleVars
<1>3. app' = app /\ (held' = held \/ gen = "dirtying")
  BY DEF Background, Generator, DirtyChunk, HoldAll, HoldPartial, GeneratorDies, PrintHolding, ParentDies
<1>4. PressMatch(a)'
  <2>1. PressMatch(a) /\ (app = "idle" => gen # "dirtying")
    BY DEF Matches, PressureInv, Chain
  <2>2. QED
    BY <1>2, <1>3, <2>1 DEF PressMatch
<1>5. MachineTypeOK'
  BY <1>2 DEF MachineTypeOK
<1>6. SamplerMatch(a)'
  BY <1>2 DEF Matches, SamplerMatch
<1>7. QED
  BY <1>2, <1>4, <1>5, <1>6, Waiting, AllLand

-----------------------------------------------------------------------------
(* The invariant. *)

\* The rows, the reports and the samples stay right where they are not touched.
LEMMA Kept ==
  /\ RowsRight /\ UNCHANGED <<rows, opts>> => RowsRight'
  /\ SurveysHonest /\ UNCHANGED reports => SurveysHonest'
  /\ SamplesRight /\ UNCHANGED <<sampler, seen, sample, since, up, opts>> => SamplesRight'
  /\ SamplesRight /\ UNCHANGED <<sample, since, up, opts>> /\ sampler' # "read" => SamplesRight'
<1>1. RowsRight /\ UNCHANGED <<rows, opts>> => RowsRight'
  BY DEF RowsRight, RowsValid, RowsOf, FullyReclaimed, NotReclaimed, First
<1>2. SurveysHonest /\ UNCHANGED reports => SurveysHonest'
  BY DEF SurveysHonest, SurveyBounds, CanaryHonest
<1>3. SamplesRight /\ UNCHANGED <<sampler, seen, sample, since, up, opts>> => SamplesRight'
  BY DEF SamplesRight, Between
<1>4. SamplesRight /\ UNCHANGED <<sample, since, up, opts>> /\ sampler' # "read" => SamplesRight'
  BY DEF SamplesRight, Between
<1>5. QED
  BY <1>1, <1>2, <1>3, <1>4

\* A step of the main thread lands, waits or ends in a panic.
LEMMA MainLands ==
  ASSUME NEW a, NEW b, NEW m, NEW c, Here(a, b, m, c), MainStep, UNCHANGED fixedVars,
         RowsRight, SurveysHonest, SamplesRight
  PROVE  /\ \/ Lands(b)' /\ Step
            \/ Lands(a)' /\ UNCHANGED <<todo, status>>
            \/ MachineTypeOK' /\ todo' = <<>> /\ status' = "panicked" /\ UNCHANGED memVars
         /\ RowsRight' /\ SurveysHonest' /\ SamplesRight'
<1>1. UNCHANGED opts
  BY DEF fixedVars
<1> DEFINE Quiet == UNCHANGED <<rows, reports, sampler, seen, sample, since, up>>
<1>2. Quiet => RowsRight' /\ SurveysHonest' /\ SamplesRight'
  BY <1>1, Kept
<1>3. CASE Mmap
  <2>1. Quiet
    BY <1>3 DEF Mmap, surveyVars, sampleVars
  <2>2. QED
    BY <1>2, <1>3, <2>1, MmapLands
<1>4. CASE MmapFixed
  <2>1. Quiet
    BY <1>4 DEF MmapFixed, bookVars, surveyVars, sampleVars
  <2>2. QED
    BY <1>2, <1>4, <2>1, MmapFixedLands
<1>5. CASE Munmap
  <2>1. Quiet
    BY <1>5 DEF Munmap, bookVars, surveyVars, sampleVars
  <2>2. QED
    BY <1>2, <1>5, <2>1, MunmapLands
<1>6. CASE Madvise
  <2>1. Quiet
    BY <1>6 DEF Madvise, bookVars, surveyVars, sampleVars
  <2>2. QED
    BY <1>2, <1>6, <2>1, MadviseRamLands, MadviseCanLands
<1>7. CASE HvMap
  <2>1. Quiet
    BY <1>7 DEF HvMap, bookVars, surveyVars, sampleVars
  <2>2. QED
    BY <1>2, <1>7, <2>1, HvMapLands
<1>8. CASE HvUnmap
  <2>1. Quiet
    BY <1>8 DEF HvUnmap, bookVars, surveyVars, sampleVars
  <2>2. QED
    BY <1>2, <1>8, <2>1, HvUnmapLands
<1>9. CASE HvDestroy
  <2>1. Quiet
    BY <1>9 DEF HvDestroy, bookVars, surveyVars, sampleVars
  <2>2. QED
    BY <1>2, <1>9, <2>1, HvDestroyLands
<1>10. CASE HostStore
  <2>1. Quiet
    BY <1>10 DEF HostStore, bookVars, surveyVars, sampleVars
  <2>2. QED
    BY <1>2, <1>10, <2>1, HostStoreLands
<1>11. CASE GuestStore
  <2>1. Quiet
    BY <1>11 DEF GuestStore, bookVars, surveyVars, sampleVars
  <2>2. QED
    BY <1>2, <1>11, <2>1, GuestStoreLands
<1>12. CASE GuestLoad
  <2>1. Quiet
    BY <1>12 DEF GuestLoad, bookVars, surveyVars, sampleVars
  <2>2. QED
    BY <1>2, <1>12, <2>1, GuestLoadLands
<1>13. CASE ReadLedger
  <2>1. Quiet
    BY <1>13 DEF ReadLedger, surveyVars, sampleVars
  <2>2. QED
    BY <1>2, <1>13, <2>1, ReadLands
<1>14. CASE LetReading
  <2>1. Quiet
    BY <1>14 DEF LetReading, surveyVars, sampleVars
  <2>2. QED
    BY <1>2, <1>14, <2>1, LetLands
<1>15. CASE LetPointer
  <2>1. Quiet
    BY <1>15 DEF LetPointer, surveyVars, sampleVars
  <2>2. QED
    BY <1>2, <1>15, <2>1, LetPointerLands
<1>16. CASE Record
  <2>1. UNCHANGED <<reports, sampler, seen, sample, since, up>>
    BY <1>16 DEF Record, surveyVars, sampleVars
  <2>2. SurveysHonest' /\ SamplesRight'
    BY <1>1, <2>1, Kept
  <2>3. rows \in Seq([after : Reading, before : Reading, delta : Int])
    BY DEF RowsRight
  <2>4. QED
    BY <1>16, <2>2, <2>3, RecordLands, RecordRows
<1>17. CASE BeginSurvey
  <2>1. Quiet
    BY <1>17 DEF BeginSurvey, bookVars, surveyVars, sampleVars
  <2>2. QED
    BY <1>2, <1>17, <2>1, SurveyLands
<1>18. CASE Peek
  <2>1. Quiet
    BY <1>18 DEF Peek, bookVars, surveyVars, sampleVars
  <2>2. QED
    BY <1>2, <1>18, <2>1, PeekLands
<1>19. CASE Report
  <2>1. UNCHANGED <<rows, sampler, seen, sample, since, up>>
    BY <1>19 DEF Report, bookVars, sampleVars
  <2>2. RowsRight' /\ SamplesRight'
    BY <1>1, <2>1, Kept
  <2>3. QED
    BY <1>19, <2>2, ReportLands
<1>20. CASE ApplyCall
  <2>1. Quiet /\ UNCHANGED memVars
    BY <1>20 DEF ApplyCall, bookVars, surveyVars, sampleVars
  <2>2. QED
    BY <1>2, <1>20, <2>1, ApplyLands
<1>21. CASE DropCall
  <2>1. Quiet
    BY <1>21 DEF DropCall, bookVars, surveyVars, sampleVars
  <2>2. QED
    BY <1>2, <1>21, <2>1, DropLands
<1>22. CASE SpawnSampler \/ StopSampler \/ JoinSampler
  <2>1. UNCHANGED <<rows, reports, seen, sample, since, up>> /\ (sampler' # "read" \/ sampler' = sampler)
    BY <1>22 DEF SpawnSampler, StopSampler, JoinSampler, bookVars, surveyVars, sampleVars
  <2>2. RowsRight' /\ SurveysHonest' /\ SamplesRight'
    BY <1>1, <2>1, Kept
  <2>3. QED
    BY <1>22, <2>2, SamplerLands
<1>23. CASE Mark
  <2>1. UNCHANGED <<rows, reports, sampler, seen, sample>> /\ since' = 0
    BY <1>23 DEF Mark, bookVars, surveyVars
  <2>2. RowsRight' /\ SurveysHonest'
    BY <1>1, <2>1, Kept
  <2>3. SamplesRight'
    BY <2>1 DEF SamplesRight
  <2>4. QED
    BY <1>23, <2>2, <2>3, MarkLands
<1>24. ~Exit
  BY DEF Exit, Here
<1>25. QED
  BY <1>3, <1>4, <1>5, <1>6, <1>7, <1>8, <1>9, <1>10, <1>11, <1>12, <1>13, <1>14, <1>15, <1>16,
     <1>17, <1>18, <1>19, <1>20, <1>21, <1>22, <1>23, <1>24 DEF MainStep

\* What is known at the end of a program says that nothing is left.
LEMMA Ended ==
  ASSUME NEW a, NEW m, NEW c, Matches(a, m, c), Final(a), Chain
  PROVE  /\ \A k \in Mapping, p \in Page : host[k][p] = "hole"
         /\ \A p \in Page : stage2[p] = 0
         /\ gen \in {"none", "reaped"}
         /\ sampler \in {"off", "ended"}
<1>1. MapsMatch(a, m, c) /\ KindsMatch(a, m, c) /\ ShownMatch(a, m) /\ PressMatch(a) /\ SamplerMatch(a)
  BY DEF Matches
<1>2. ASSUME NEW k \in Mapping, NEW p \in Page PROVE host[k][p] = "hole"
  <2>1. c = 0 /\ k # 0
    BY <1>1 DEF Final, MapsMatch, Mapping
  <2>2. CASE k = m
    BY <1>1, <2>1, <2>2 DEF Final, KindsMatch, Is
  <2>3. CASE k # m
    BY <1>1, <2>1, <2>3 DEF MapsMatch
  <2>4. QED
    BY <2>2, <2>3
<1>3. \A p \in Page : stage2[p] = 0
  BY <1>1 DEF Final, ShownMatch
<1>4. gen \in {"none", "reaped"}
  BY <1>1 DEF Final, PressMatch, Chain
<1>5. sampler \in {"off", "ended"}
  BY <1>1 DEF Final, SamplerMatch
<1>6. QED
  BY <1>2, <1>3, <1>4, <1>5

\* A program that has come to its end.
LEMMA RunsOut ==
  ASSUME NEW o, NEW a, NEW e, Runs(o, <<>>, a, e)
  PROVE  a = e
  BY DEF Runs, Takes

\* Every step is one of the pressure generator's, or leaves it alone.
LEMMA PressureGoesOn ==
  ASSUME PressureInv, [ToolsNext]_vars
  PROVE  PressureInv'
<1>1. [PressureNext]_pressureVars
  <2>1. CASE UNCHANGED vars
    BY <2>1 DEF vars, machineVars
  <2>2. CASE ApplyCall
    BY <2>2 DEF ApplyCall, PressureNext
  <2>3. CASE DropCall
    BY <2>3 DEF DropCall, PressureNext
  <2>4. CASE Background
    BY <2>4 DEF Background, PressureNext
  <2>5. CASE MainStep /\ ~ApplyCall /\ ~DropCall
    BY <2>5 DEF MainStep, Mmap, MmapFixed, Munmap, Madvise, HvMap, HvUnmap, HvDestroy, HostStore,
       GuestStore, GuestLoad, ReadLedger, LetReading, LetPointer, Record, BeginSurvey, Peek, Report,
       SpawnSampler, Mark, StopSampler, JoinSampler, Exit
  <2>6. CASE Sampler \/ CallFails \/ KernelTakes
    BY <2>6 DEF Sampler, SampleRead, SamplePrint, SampleFails, CallFails, KernelTakes
  <2>7. QED
    BY <2>1, <2>2, <2>3, <2>4, <2>5, <2>6 DEF ToolsNext
<1>2. QED
  BY <1>1, PressureStepInv

\* The invariant is kept while nothing of the machine changes.
LEMMA InvStutter ==
  ASSUME ToolsInv, UNCHANGED vars
  PROVE  ToolsInv'
<1>1. PressureInv'
  BY PressureGoesOn DEF ToolsInv
<1>2. UNCHANGED <<host, val, stage2, pinned, loose, gone, env, reg, rows, tally, from, reports,
                  sampler, seen, sample, since, up, todo, status, opts, loads>>
      /\ UNCHANGED pressureVars
  BY DEF vars, machineVars, memVars, bookVars, surveyVars, sampleVars, fixedVars
<1>3. MachineTypeOK' /\ opts' \in ValidOptions
  BY <1>2 DEF ToolsInv, ToolsTypeOK, MachineTypeOK
<1>4. RowsRight' /\ SurveysHonest' /\ SamplesRight'
  BY <1>2, Kept DEF ToolsInv
<1>5. Stage2Backed' /\ NothingLeft'
  BY <1>2 DEF ToolsInv, Stage2Backed, NothingLeft, pressureVars
<1>6. status = "running" => Following'
  <2> HAVE status = "running"
  <2>1. PICK a \in Known, e \in Known, m \in 0..MaxMaps, c \in 0..MaxMaps :
          Runs(opts, todo, a, e) /\ Final(e) /\ Matches(a, m, c)
    BY DEF ToolsInv, Following
  <2>2. PressMatch(a)' /\ SamplerMatch(a)'
    BY <1>2, <2>1 DEF Matches, PressMatch, SamplerMatch, pressureVars
  <2>3. Matches(a, m, c)'
    BY <1>2, <2>1, <2>2, Waiting DEF Matches
  <2>4. QED
    BY <1>2, <2>1, <2>3 DEF Following
<1>7. QED
  BY <1>1, <1>2, <1>3, <1>4, <1>5, <1>6 DEF ToolsInv, ToolsTypeOK, PressureInv

\* Where a step lands, the invariant holds again.
LEMMA InvAgain ==
  ASSUME NEW b \in Known, NEW e \in Known, NEW p, Lands(b)', Runs(opts, p, b, e), Final(e),
         todo' = p, opts' = opts, loads' = loads, status' = "running", ToolsInv,
         PressureInv', RowsRight', SurveysHonest', SamplesRight'
  PROVE  ToolsInv'
<1>1. PICK m \in 0..MaxMaps, c \in 0..MaxMaps : Matches(b, m, c)'
  BY DEF Lands
<1>2. Runs(opts, todo, b, e)'
  BY DEF Runs, Takes
<1>3. Following'
  BY <1>1, <1>2 DEF Following, Final
<1>4. Stage2Backed'
  <2>1. ShownMatch(b, m)' /\ KindsMatch(b, m, c)'
    BY <1>1 DEF Matches
  <2>2. ASSUME NEW q \in Page, stage2'[q] # 0 PROVE host'[stage2'[q]][q] # "hole"
    <3>1. q \in b.ram.shown /\ stage2'[q] = m /\ b.ram.kind[q] # "hole"
      BY <2>1, <2>2 DEF ShownMatch
    <3>2. Is(host'[m][q], b.ram.kind[q])
      BY <2>1, <2>2, <3>1 DEF KindsMatch
    <3>3. QED
      BY <3>1, <3>2 DEF Is
  <2>3. QED
    BY <2>2 DEF Stage2Backed
<1>5. QED
  BY <1>3, <1>4 DEF ToolsInv, ToolsTypeOK, PressureInv, Lands, NothingLeft

\* Every step keeps the invariant.
LEMMA ToolsStepInv ==
  ASSUME ToolsInv, [ToolsNext]_vars
  PROVE  ToolsInv'
<1>1. CASE UNCHANGED vars
  BY <1>1, InvStutter
<1>2. CASE ToolsNext
  <2>0. PressureInv' /\ UNCHANGED fixedVars /\ opts' = opts /\ loads' = loads
    BY <1>2, PressureGoesOn DEF ToolsInv, ToolsNext, fixedVars
  <2>1. CASE status # "running"
    <3>1. Generator /\ UNCHANGED others
      BY <1>2, <2>1 DEF ToolsNext, MainStep, Sampler, CallFails, KernelTakes, Background, Running, Now,
         Mmap, MmapFixed, Munmap, Madvise, HvMap, HvUnmap, HvDestroy, HostStore,
         GuestStore, GuestLoad, ReadLedger, LetReading, LetPointer, Record, BeginSurvey, Peek, Report,
         SpawnSampler, Mark, StopSampler, JoinSampler, Exit, ApplyCall, DropCall,
         SampleRead, SamplePrint, SampleFails
    <3>2. UNCHANGED <<host, val, stage2, pinned, loose, gone, env, reg, rows, tally, from, reports,
                      sampler, seen, sample, since, up, todo, status>>
      BY <3>1 DEF others, memVars, bookVars, surveyVars, sampleVars
    <3>3. MachineTypeOK'
      BY <3>2 DEF ToolsInv, ToolsTypeOK, MachineTypeOK
    <3>4. RowsRight' /\ SurveysHonest' /\ SamplesRight'
      BY <2>0, <3>2, Kept DEF ToolsInv
    <3>5. Stage2Backed'
      BY <3>2 DEF ToolsInv, Stage2Backed
    <3>6. status # "done"
      BY <3>1 DEF ToolsInv, NothingLeft, Generator, DirtyChunk, HoldAll, HoldPartial, GeneratorDies
    <3>7. QED
      BY <2>0, <2>1, <3>2, <3>3, <3>4, <3>5, <3>6
      DEF ToolsInv, ToolsTypeOK, PressureInv, NothingLeft
  <2>2. CASE status = "running"
    <3>1. PICK a \in Known, e \in Known, m \in 0..MaxMaps, c \in 0..MaxMaps :
            Runs(opts, todo, a, e) /\ Final(e) /\ Matches(a, m, c)
      BY <2>2 DEF ToolsInv, Following
    <3>2. MachineTypeOK /\ RowsRight /\ SurveysHonest /\ SamplesRight /\ PressureInv
          /\ opts.region \in Nat
      <4>1. opts.region \in 1..Pages
        BY DEF ToolsInv, ToolsTypeOK, ValidOptions, Options
      <4>2. QED
        BY <4>1, MachineAssumption DEF ToolsInv, ToolsTypeOK
    <3>3. PICK p : p = todo
      OBVIOUS
    <3>4. CASE MainStep /\ todo # <<>>
      <4>1. PICK b \in Known : Effect(opts, Head(todo), a, b) /\ Runs(opts, Tail(todo), b, e)
        BY <3>1, <3>4, RunsHead
      <4>2. Head(todo) \in Calls
        BY <3>1, <3>4, RunsHead
      <4>3. Running
        BY <2>2, <3>4 DEF MainStep, Running, Now,
         Mmap, MmapFixed, Munmap, Madvise, HvMap, HvUnmap, HvDestroy, HostStore,
         GuestStore, GuestLoad, ReadLedger, LetReading, LetPointer, Record, BeginSurvey, Peek, Report,
         SpawnSampler, Mark, StopSampler, JoinSampler, Exit, ApplyCall, DropCall
      <4>4. Here(a, b, m, c)
        BY <3>1, <3>2, <3>4, <4>1, <4>2, <4>3 DEF Here, It
      <4>5. /\ \/ Lands(b)' /\ Step
               \/ Lands(a)' /\ UNCHANGED <<todo, status>>
               \/ MachineTypeOK' /\ todo' = <<>> /\ status' = "panicked" /\ UNCHANGED memVars
            /\ RowsRight' /\ SurveysHonest' /\ SamplesRight'
        BY <2>0, <3>2, <3>4, <4>4, MainLands
      <4>6. PICK t : t = Tail(todo)
        OBVIOUS
      <4>7. CASE Lands(b)' /\ Step
        BY <2>0, <2>2, <3>1, <4>1, <4>5, <4>6, <4>7, InvAgain DEF Step
      <4>8. CASE Lands(a)' /\ UNCHANGED <<todo, status>>
        BY <2>0, <2>2, <3>1, <3>3, <4>5, <4>8, InvAgain
      <4>9. CASE MachineTypeOK' /\ todo' = <<>> /\ status' = "panicked" /\ UNCHANGED memVars
        BY <2>0, <4>5, <4>9
        DEF ToolsInv, ToolsTypeOK, PressureInv, NothingLeft, Stage2Backed, memVars
      <4>10. QED
        BY <4>5, <4>7, <4>8, <4>9
    <3>5. CASE MainStep /\ todo = <<>>
      <4>1. /\ status' = "done" /\ UNCHANGED <<todo, gen>>
            /\ UNCHANGED <<memVars, bookVars, surveyVars, sampleVars>>
        BY <3>5 DEF MainStep, Now, Mmap, MmapFixed, Munmap, Madvise, HvMap, HvUnmap, HvDestroy, HostStore,
         GuestStore, GuestLoad, ReadLedger, LetReading, LetPointer, Record, BeginSurvey, Peek, Report,
         SpawnSampler, Mark, StopSampler, JoinSampler, Exit, ApplyCall, DropCall, pressureVars
      <4>2. UNCHANGED <<host, val, stage2, pinned, loose, gone, env, reg, rows, tally, from, reports,
                        sampler, seen, sample, since, up>>
        BY <4>1 DEF memVars, bookVars, surveyVars, sampleVars
      <4>3. a = e
        BY <3>1, <3>5, RunsOut
      <4>4. /\ \A k \in Mapping, q \in Page : host[k][q] = "hole"
            /\ \A q \in Page : stage2[q] = 0
            /\ gen \in {"none", "reaped"}
            /\ sampler \in {"off", "ended"}
        BY <3>1, <3>2, <4>3, Ended DEF PressureInv
      <4>5. NothingLeft' /\ Stage2Backed' /\ MachineTypeOK'
        BY <3>2, <4>1, <4>2, <4>4 DEF NothingLeft, Stage2Backed, MachineTypeOK
      <4>6. RowsRight' /\ SurveysHonest' /\ SamplesRight'
        BY <2>0, <3>2, <4>2, Kept
      <4>7. QED
        BY <2>0, <3>5, <4>1, <4>5, <4>6 DEF ToolsInv, ToolsTypeOK, PressureInv
    <3>6. CASE Sampler
      BY <2>0, <2>2, <3>1, <3>2, <3>3, <3>6, SamplingLands, InvAgain, Kept
      DEF Sampler, SampleRead, SamplePrint, SampleFails, bookVars, surveyVars
    <3>7. CASE CallFails
      <4>1. todo' = <<>> /\ status' = "panicked"
            /\ UNCHANGED <<memVars, bookVars, surveyVars, sampleVars>>
        BY <3>7 DEF CallFails, Refuse
      <4>2. UNCHANGED <<host, val, stage2, pinned, loose, gone, env, reg, rows, tally, from, reports,
                        sampler, seen, sample, since, up>>
        BY <4>1 DEF memVars, bookVars, surveyVars, sampleVars
      <4>3. Stage2Backed' /\ MachineTypeOK'
        BY <3>2, <4>1, <4>2 DEF ToolsInv, Stage2Backed, MachineTypeOK
      <4>4. RowsRight' /\ SurveysHonest' /\ SamplesRight'
        BY <2>0, <3>2, <4>2, Kept
      <4>5. QED
        BY <2>0, <4>1, <4>3, <4>4 DEF ToolsInv, ToolsTypeOK, PressureInv, NothingLeft
    <3>8. CASE KernelTakes
      <4>1. UNCHANGED <<rows, reports, sampler, seen, sample, since, up, todo, status>>
        BY <3>8 DEF KernelTakes, bookVars, surveyVars, sampleVars
      <4>2. RowsRight' /\ SurveysHonest' /\ SamplesRight'
        BY <2>0, <3>2, <4>1, Kept
      <4>3. Lands(a)'
        BY <2>0, <3>1, <3>2, <3>8, KernelLands
      <4>4. QED
        BY <2>0, <2>2, <3>1, <3>3, <4>1, <4>2, <4>3, InvAgain
    <3>9. CASE Background
      <4>1. UNCHANGED <<rows, reports, sampler, seen, sample, since, up, todo, status>>
        BY <3>9 DEF Background, others, bookVars, surveyVars, sampleVars
      <4>2. RowsRight' /\ SurveysHonest' /\ SamplesRight'
        BY <2>0, <3>2, <4>1, Kept
      <4>3. Lands(a)'
        BY <2>0, <3>1, <3>2, <3>9, BackgroundLands
      <4>4. QED
        BY <2>0, <2>2, <3>1, <3>3, <4>1, <4>2, <4>3, InvAgain
    <3>10. QED
      BY <1>2, <3>4, <3>5, <3>6, <3>7, <3>8, <3>9 DEF ToolsNext
  <2>3. QED
    BY <2>1, <2>2
<1>3. QED
  BY <1>1, <1>2

-----------------------------------------------------------------------------
(***************************************************************************)
(* Every tool, for every valid command line, is a program whose calls fit  *)
(* together.                                                               *)
(***************************************************************************)

-----------------------------------------------------------------------------
(* Descriptions of the RAM, and what is known with another one. *)

All(x) == [p \in Page |-> x]

Ram(names, k, pin, shown, ink) ==
  [names |-> names, kind |-> All(k), pin |-> All(pin), shown |-> shown, ink |-> All(ink)]

With(a, r) == [a EXCEPT !.ram = r]

\* What With gives is known, and differs in the RAM only.
LEMMA WithIs ==
  ASSUME NEW a \in Known, NEW r \in RamKnown
  PROVE  /\ With(a, r) \in Known /\ With(a, r).ram = r
         /\ With(a, r).can = a.can /\ With(a, r).press = a.press
         /\ With(a, r).sampling = a.sampling /\ With(a, r).sur = a.sur
         /\ With(a, r).regs = a.regs /\ With(a, r).n = a.n /\ With(a, r).goal = a.goal
         /\ With(a, a.ram) = a /\ a.ram \in RamKnown
         /\ \A q : With(With(a, r), q) = With(a, q)
  BY DEF With, Known

\* A uniform description is one.
LEMMA RamIs ==
  ASSUME NEW names \in SUBSET {"main", "local"}, NEW k \in Kinds, NEW pin \in {"yes", "no", "any"},
         NEW shown \in SUBSET Page, NEW ink \in {"any", "host", "guest"}
  PROVE  Ram(names, k, pin, shown, ink) \in RamKnown
  BY DEF Ram, RamKnown, All

\* Descriptions that agree are the same.
LEMMA SameRam ==
  ASSUME NEW r \in RamKnown, NEW q \in RamKnown, r.names = q.names, r.shown = q.shown,
         \A p \in Page : r.kind[p] = q.kind[p] /\ r.pin[p] = q.pin[p] /\ r.ink[p] = q.ink[p]
  PROVE  r = q
<1>1. r.kind = q.kind /\ r.pin = q.pin /\ r.ink = q.ink
  BY DEF RamKnown
<1>2. QED
  BY <1>1 DEF RamKnown

\* What the calls make of a description is one, page by page.
LEMMA EffectsOfCalls ==
  ASSUME NEW r \in RamKnown, NEW ps \in SUBSET Page
  PROVE  /\ Refreshed(r, ps) \in RamKnown /\ Dropped(r, ps) \in RamKnown
         /\ Shown(r, ps) \in RamKnown /\ Hidden(r, ps) \in RamKnown /\ Unshown(r) \in RamKnown
         /\ Touched(r, ps) \in RamKnown /\ Stored(r, ps) \in RamKnown /\ Loaded(r, ps) \in RamKnown
         /\ Marked(r, ps, "host") \in RamKnown
         /\ \A arg : Advised(r, ps, arg) \in RamKnown
         /\ Braced(r) \in RamKnown
<1>1. /\ \A k \in Kinds : \A pin : HiddenKind(k, pin) \in Kinds
      /\ \A k \in Kinds : TouchedKind(k) \in Kinds
      /\ \A k \in Kinds : \A pin, s, arg : AdvisedKind(k, pin, s, arg) \in Kinds
  BY DEF Kinds, HiddenKind, TouchedKind, AdvisedKind
<1>2. /\ r.kind \in [Page -> Kinds] /\ r.pin \in [Page -> {"yes", "no", "any"}]
      /\ r.ink \in [Page -> {"any", "host", "guest"}] /\ r.shown \in SUBSET Page
  BY DEF RamKnown
<1>3. "hole" \in Kinds /\ "none" \in Kinds /\ "any" \in Kinds
  BY DEF Kinds
<1>4. Refreshed(r, ps) \in RamKnown /\ Dropped(r, ps) \in RamKnown
  BY <1>2, <1>3 DEF RamKnown, Refreshed, Dropped
<1>5. Shown(r, ps) \in RamKnown /\ Unshown(r) \in RamKnown
  BY <1>2, <1>3 DEF RamKnown, Shown, Unshown
<1>6. Hidden(r, ps) \in RamKnown
  BY <1>1, <1>2, <1>3 DEF RamKnown, Hidden
<1>7. Touched(r, ps) \in RamKnown
  BY <1>1, <1>2 DEF RamKnown, Touched
<1>8. Marked(r, ps, "host") \in RamKnown
  BY <1>1, <1>2 DEF RamKnown, Touched, Marked
<1>9. Stored(r, ps) \in RamKnown
  BY <1>1, <1>2 DEF RamKnown, Touched, Marked, Stored
<1>10. Loaded(r, ps) \in RamKnown /\ Braced(r) \in RamKnown
  BY <1>2, <1>3 DEF RamKnown, Loaded, Braced
<1>11. \A arg : Advised(r, ps, arg) \in RamKnown
  BY <1>1, <1>2 DEF RamKnown, Advised
<1>12. QED
  BY <1>4, <1>5, <1>6, <1>7, <1>8, <1>9, <1>10, <1>11

-----------------------------------------------------------------------------
(* One call. *)

\* What a call is.
LEMMA CallIs ==
  ASSUME NEW op \in Ops, NEW of \in Pointer \cup Reading, NEW ps \in SUBSET Page,
         NEW arg \in Args \cup Pointer \cup Reading
  PROVE  /\ Call(op, of, ps, arg) \in Calls
         /\ Call(op, of, ps, arg).op = op /\ Call(op, of, ps, arg).of = of
         /\ Call(op, of, ps, arg).pages = ps /\ Call(op, of, ps, arg).arg = arg
  BY DEF Call, Calls

\* A call that is given nothing else.
LEMMA DoIs ==
  ASSUME NEW op \in Ops, NEW of \in Pointer \cup Reading, NEW ps \in SUBSET Page
  PROVE  \E c \in Calls : Do(op, of, ps) = <<c>> /\ c.op = op /\ c.of = of /\ c.pages = ps
<1>1. PICK x : x = ""
  OBVIOUS
<1>2. x \in Args \cup Pointer \cup Reading
  BY <1>1 DEF Args
<1>3. Do(op, of, ps) = <<Call(op, of, ps, x)>>
  BY <1>1 DEF Do
<1>4. QED
  BY <1>2, <1>3, CallIs

\* The pointers to the RAM.
LEMMA NamesAre ==
  ASSUME NEW r \in RamKnown, NEW of \in r.names
  PROVE  of \in Pointer \cup Reading /\ of # "canary"
<1>1. of \in {"main", "local"}
  BY DEF RamKnown
<1>2. QED
  BY <1>1 DEF Pointer

\* A call that changes what is known of the RAM only.
LEMMA RamCall ==
  ASSUME NEW o, NEW a \in Known, NEW r \in RamKnown, NEW q \in RamKnown, NEW c \in Calls,
         Effect(o, c, With(a, r), With(a, q))
  PROVE  Runs(o, <<c>>, With(a, r), With(a, q))
  BY WithIs, RunsOne

\* With is a change of the RAM.
LEMMA WithChange == \A a, r, q : Change(With(a, r), With(a, q), q)
  BY DEF Change, With

\* hv_vm_map.
LEMMA MapRuns ==
  ASSUME NEW o, NEW a \in Known, NEW r \in RamKnown, NEW of \in r.names, NEW ps \in SUBSET Page,
         a.sur.of = "none", ps \cap r.shown = {}, \A p \in ps : r.kind[p] # "hole",
         OnGoal(o, With(a, Shown(r, ps)))
  PROVE  Runs(o, Do("hv_vm_map", of, ps), With(a, r), With(a, Shown(r, ps)))
<1>1. Shown(r, ps) \in RamKnown /\ of # "canary"
  BY EffectsOfCalls, NamesAre
<1>2. PICK c \in Calls : Do("hv_vm_map", of, ps) = <<c>> /\ c.op = "hv_vm_map" /\ c.of = of /\ c.pages = ps
  <2>1. "hv_vm_map" \in Ops /\ ps \in SUBSET Page
    BY DEF Ops
  <2>2. QED
    BY <2>1, DoIs, NamesAre
<1>3. With(a, r).ram = r /\ With(a, r).press = a.press /\ With(a, r).sur = a.sur
      /\ Change(With(a, r), With(a, Shown(r, ps)), Shown(r, ps))
  BY WithIs, WithChange
<1>4. AfterHvMap(c, With(a, r), With(a, Shown(r, ps)))
  BY <1>1, <1>2, <1>3 DEF AfterHvMap
<1>5. Effect(o, c, With(a, r), With(a, Shown(r, ps)))
  BY <1>2, <1>3, <1>4 DEF Effect, Ops
<1>6. QED
  BY <1>1, <1>2, <1>5, RamCall

\* hv_vm_unmap.
LEMMA UnmapRuns ==
  ASSUME NEW o, NEW a \in Known, NEW r \in RamKnown, NEW of \in r.names, NEW ps \in SUBSET Page,
         a.sur.of = "none", ps \subseteq r.shown,
         OnGoal(o, With(a, Hidden(r, ps)))
  PROVE  Runs(o, Do("hv_vm_unmap", of, ps), With(a, r), With(a, Hidden(r, ps)))
<1>1. Hidden(r, ps) \in RamKnown /\ of # "canary"
  BY EffectsOfCalls, NamesAre
<1>2. PICK c \in Calls : Do("hv_vm_unmap", of, ps) = <<c>> /\ c.op = "hv_vm_unmap" /\ c.of = of /\ c.pages = ps
  <2>1. "hv_vm_unmap" \in Ops /\ ps \in SUBSET Page
    BY DEF Ops
  <2>2. QED
    BY <2>1, DoIs, NamesAre
<1>3. With(a, r).ram = r /\ With(a, r).press = a.press /\ With(a, r).sur = a.sur
      /\ Change(With(a, r), With(a, Hidden(r, ps)), Hidden(r, ps))
  BY WithIs, WithChange
<1>4. AfterHvUnmap(c, With(a, r), With(a, Hidden(r, ps)))
  BY <1>1, <1>2, <1>3 DEF AfterHvUnmap
<1>5. Effect(o, c, With(a, r), With(a, Hidden(r, ps)))
  BY <1>2, <1>3, <1>4 DEF Effect, Ops
<1>6. QED
  BY <1>1, <1>2, <1>5, RamCall

\* munmap of RAM the guest is not shown.
LEMMA MunmapRuns ==
  ASSUME NEW o, NEW a \in Known, NEW r \in RamKnown, NEW of \in r.names, NEW ps \in SUBSET Page,
         a.sur.of = "none", ps \cap r.shown = {},
         OnGoal(o, With(a, Dropped(r, ps)))
  PROVE  Runs(o, Do("munmap", of, ps), With(a, r), With(a, Dropped(r, ps)))
<1>1. Dropped(r, ps) \in RamKnown /\ of # "canary"
  BY EffectsOfCalls, NamesAre
<1>2. PICK c \in Calls : Do("munmap", of, ps) = <<c>> /\ c.op = "munmap" /\ c.of = of /\ c.pages = ps
  <2>1. "munmap" \in Ops /\ ps \in SUBSET Page
    BY DEF Ops
  <2>2. QED
    BY <2>1, DoIs, NamesAre
<1>3. With(a, r).ram = r /\ With(a, r).press = a.press /\ With(a, r).sur = a.sur
      /\ Change(With(a, r), With(a, Dropped(r, ps)), Dropped(r, ps))
  BY WithIs, WithChange
<1>4. AfterMunmap(c, With(a, r), With(a, Dropped(r, ps)))
  BY <1>1, <1>2, <1>3 DEF AfterMunmap
<1>5. Effect(o, c, With(a, r), With(a, Dropped(r, ps)))
  BY <1>2, <1>3, <1>4 DEF Effect, Ops
<1>6. QED
  BY <1>1, <1>2, <1>5, RamCall

\* mmap at the same place.
LEMMA FixedRuns ==
  ASSUME NEW o, NEW a \in Known, NEW r \in RamKnown, NEW of \in r.names, NEW ps \in SUBSET Page,
         a.sur.of = "none", a.press = "calm",
         OnGoal(o, With(a, Refreshed(r, ps)))
  PROVE  Runs(o, Do("mmap fixed", of, ps), With(a, r), With(a, Refreshed(r, ps)))
<1>1. Refreshed(r, ps) \in RamKnown /\ of # "canary"
  BY EffectsOfCalls, NamesAre
<1>2. PICK c \in Calls : Do("mmap fixed", of, ps) = <<c>> /\ c.op = "mmap fixed" /\ c.of = of /\ c.pages = ps
  <2>1. PICK op \in Ops : op = "mmap fixed"
    BY DEF Ops
  <2>2. \E c \in Calls : Do(op, of, ps) = <<c>> /\ c.op = op /\ c.of = of /\ c.pages = ps
    BY DoIs, NamesAre
  <2>3. QED
    BY <2>1, <2>2
<1>3. With(a, r).ram = r /\ With(a, r).press = a.press /\ With(a, r).sur = a.sur
      /\ Change(With(a, r), With(a, Refreshed(r, ps)), Refreshed(r, ps))
  BY WithIs, WithChange
<1>4. AfterMmapFixed(c, With(a, r), With(a, Refreshed(r, ps)))
  BY <1>1, <1>2, <1>3 DEF AfterMmapFixed
<1>5. Effect(o, c, With(a, r), With(a, Refreshed(r, ps)))
  BY <1>2, <1>3, <1>4 DEF Effect, Ops
<1>6. QED
  BY <1>1, <1>2, <1>5, RamCall

\* madvise of the RAM.
LEMMA AdviseRuns ==
  ASSUME NEW o, NEW a \in Known, NEW r \in RamKnown, NEW of \in r.names, NEW ps \in SUBSET Page, NEW advice \in {"dontneed", "free", "reusable"},
         a.sur.of = "none", 
         OnGoal(o, With(a, Advised(r, ps, advice)))
  PROVE  Runs(o, madvise(of, ps, advice), With(a, r), With(a, Advised(r, ps, advice)))
<1>1. Advised(r, ps, advice) \in RamKnown /\ of # "canary"
  BY EffectsOfCalls, NamesAre
<1>2. PICK c \in Calls : madvise(of, ps, advice) = <<c>> /\ c.op = "madvise" /\ c.of = of /\ c.pages = ps
                          /\ c.arg = advice
  <2>1. "madvise" \in Ops /\ ps \in SUBSET Page /\ advice \in Args
    BY DEF Ops, Args
  <2>2. QED
    BY <2>1, CallIs, NamesAre DEF madvise
<1>3. With(a, r).ram = r /\ With(a, r).press = a.press /\ With(a, r).sur = a.sur
      /\ Change(With(a, r), With(a, Advised(r, ps, advice)), Advised(r, ps, advice))
  BY WithIs, WithChange
<1>4. AfterMadvise(c, With(a, r), With(a, Advised(r, ps, advice)))
  BY <1>1, <1>2, <1>3 DEF AfterMadvise
<1>5. Effect(o, c, With(a, r), With(a, Advised(r, ps, advice)))
  BY <1>2, <1>3, <1>4 DEF Effect, Ops
<1>6. QED
  BY <1>1, <1>2, <1>5, RamCall

\* hv_vm_destroy.
LEMMA DestroyRuns ==
  ASSUME NEW o, NEW a \in Known, NEW r \in RamKnown, NEW of \in r.names, 
         a.sur.of = "none", 
         OnGoal(o, With(a, Unshown(r)))
  PROVE  Runs(o, Do("hv_vm_destroy", of, {}), With(a, r), With(a, Unshown(r)))
<1>1. Unshown(r) \in RamKnown /\ of # "canary"
  BY EffectsOfCalls, NamesAre
<1>2. PICK c \in Calls : Do("hv_vm_destroy", of, {}) = <<c>> /\ c.op = "hv_vm_destroy" /\ c.of = of /\ c.pages = {}
  <2>1. "hv_vm_destroy" \in Ops /\ {} \in SUBSET Page
    BY DEF Ops
  <2>2. QED
    BY <2>1, DoIs, NamesAre
<1>3. With(a, r).ram = r /\ With(a, r).press = a.press /\ With(a, r).sur = a.sur
      /\ Change(With(a, r), With(a, Unshown(r)), Unshown(r))
  BY WithIs, WithChange
<1>4. AfterHvDestroy(c, With(a, r), With(a, Unshown(r)))
  BY <1>1, <1>2, <1>3 DEF AfterHvDestroy
<1>5. Effect(o, c, With(a, r), With(a, Unshown(r)))
  BY <1>2, <1>3, <1>4 DEF Effect, Ops
<1>6. QED
  BY <1>1, <1>2, <1>5, RamCall
\* mmap of the RAM, when there is none.
LEMMA MmapRuns ==
  ASSUME NEW o, NEW a \in Known, NEW r \in RamKnown, NEW of \in {"main", "local"},
         a.sur.of = "none", a.press = "calm", r.shown = {},
         \A p \in Page : r.kind[p] = "hole" /\ r.pin[p] = "no",
         OnGoal(o, With(a, Ram({of}, "none", "no", {}, "any")))
  PROVE  Runs(o, Do("mmap", of, Page), With(a, r), With(a, Ram({of}, "none", "no", {}, "any")))
<1> DEFINE q == Ram({of}, "none", "no", {}, "any")
<1>1. q \in RamKnown /\ q = Fresh(r, of)
  <2>1. q \in RamKnown
    BY RamIs DEF Kinds
  <2>2. q = Fresh(r, of)
    BY DEF Ram, All, Fresh
  <2>3. QED
    BY <2>1, <2>2
<1> HIDE DEF q
<1>2. PICK c \in Calls : Do("mmap", of, Page) = <<c>> /\ c.op = "mmap" /\ c.of = of /\ c.pages = Page
  <2>1. "mmap" \in Ops /\ Page \in SUBSET Page /\ of \in Pointer \cup Reading
    BY DEF Ops, Pointer
  <2>2. QED
    BY <2>1, DoIs
<1>3. With(a, r).ram = r /\ With(a, r).press = a.press /\ With(a, r).sur = a.sur
      /\ Change(With(a, r), With(a, q), q)
  BY WithIs, WithChange
<1>4. AfterMmap(c, With(a, r), With(a, q))
  BY <1>1, <1>2, <1>3 DEF AfterMmap
<1>5. Effect(o, c, With(a, r), With(a, q))
  BY <1>2, <1>3, <1>4 DEF Effect, Ops, q
<1>6. QED
  BY <1>1, <1>2, <1>5, RamCall DEF q

-----------------------------------------------------------------------------
(* The effects on the RAM, page by page. *)

\* The parts of a description.
LEMMA Parts ==
  ASSUME NEW r \in RamKnown
  PROVE  /\ r.names \in SUBSET {"main", "local"} /\ r.kind \in [Page -> Kinds]
         /\ r.pin \in [Page -> {"yes", "no", "any"}] /\ r.shown \in SUBSET Page
         /\ r.ink \in [Page -> {"any", "host", "guest"}]
         /\ r = [names |-> r.names, kind |-> r.kind, pin |-> r.pin, shown |-> r.shown, ink |-> r.ink]
  BY DEF RamKnown

\* What Refreshed does.
LEMMA RefreshedDoes ==
  ASSUME NEW r \in RamKnown, NEW ps \in SUBSET Page
  PROVE  /\ Refreshed(r, ps) \in RamKnown
         /\ Refreshed(r, ps).names = r.names /\ Refreshed(r, ps).shown = r.shown
         /\ \A p \in Page : Refreshed(r, ps).kind[p] = IF p \in ps THEN "none" ELSE r.kind[p]
         /\ \A p \in Page : Refreshed(r, ps).pin[p] = r.pin[p]
         /\ \A p \in Page : Refreshed(r, ps).ink[p] = IF p \in ps THEN "any" ELSE r.ink[p]
<1>1. Refreshed(r, ps) \in RamKnown
  BY EffectsOfCalls
<1>2. Refreshed(r, ps).names = r.names /\ Refreshed(r, ps).shown = r.shown
  BY DEF Refreshed, RamKnown
<1>3. \A p \in Page : Refreshed(r, ps).kind[p] = IF p \in ps THEN "none" ELSE r.kind[p]
  BY DEF Refreshed, RamKnown
<1>4. \A p \in Page : Refreshed(r, ps).pin[p] = r.pin[p]
  BY DEF Refreshed, RamKnown
<1>5. \A p \in Page : Refreshed(r, ps).ink[p] = IF p \in ps THEN "any" ELSE r.ink[p]
  BY DEF Refreshed, RamKnown
<1>6. QED
  BY <1>1, <1>2, <1>3, <1>4, <1>5

\* What Dropped does.
LEMMA DroppedDoes ==
  ASSUME NEW r \in RamKnown, NEW ps \in SUBSET Page
  PROVE  /\ Dropped(r, ps) \in RamKnown
         /\ Dropped(r, ps).names = r.names /\ Dropped(r, ps).shown = r.shown
         /\ \A p \in Page : Dropped(r, ps).kind[p] = IF p \in ps THEN "hole" ELSE r.kind[p]
         /\ \A p \in Page : Dropped(r, ps).pin[p] = IF p \in ps THEN "no" ELSE r.pin[p]
         /\ \A p \in Page : Dropped(r, ps).ink[p] = IF p \in ps THEN "any" ELSE r.ink[p]
<1>1. Dropped(r, ps) \in RamKnown
  BY EffectsOfCalls
<1>2. Dropped(r, ps).names = r.names /\ Dropped(r, ps).shown = r.shown
  BY DEF Dropped, RamKnown
<1>3. \A p \in Page : Dropped(r, ps).kind[p] = IF p \in ps THEN "hole" ELSE r.kind[p]
  BY DEF Dropped, RamKnown
<1>4. \A p \in Page : Dropped(r, ps).pin[p] = IF p \in ps THEN "no" ELSE r.pin[p]
  BY DEF Dropped, RamKnown
<1>5. \A p \in Page : Dropped(r, ps).ink[p] = IF p \in ps THEN "any" ELSE r.ink[p]
  BY DEF Dropped, RamKnown
<1>6. QED
  BY <1>1, <1>2, <1>3, <1>4, <1>5

\* What Shown does.
LEMMA ShownDoes ==
  ASSUME NEW r \in RamKnown, NEW ps \in SUBSET Page
  PROVE  /\ Shown(r, ps) \in RamKnown
         /\ Shown(r, ps).names = r.names /\ Shown(r, ps).shown = r.shown \cup ps
         /\ \A p \in Page : Shown(r, ps).kind[p] = r.kind[p]
         /\ \A p \in Page : Shown(r, ps).pin[p] = r.pin[p]
         /\ \A p \in Page : Shown(r, ps).ink[p] = r.ink[p]
<1>1. Shown(r, ps) \in RamKnown
  BY EffectsOfCalls
<1>2. Shown(r, ps).names = r.names /\ Shown(r, ps).shown = r.shown \cup ps
  BY DEF Shown, RamKnown
<1>3. \A p \in Page : Shown(r, ps).kind[p] = r.kind[p]
  BY DEF Shown, RamKnown
<1>4. \A p \in Page : Shown(r, ps).pin[p] = r.pin[p]
  BY DEF Shown, RamKnown
<1>5. \A p \in Page : Shown(r, ps).ink[p] = r.ink[p]
  BY DEF Shown, RamKnown
<1>6. QED
  BY <1>1, <1>2, <1>3, <1>4, <1>5

\* What Hidden does.
LEMMA HiddenDoes ==
  ASSUME NEW r \in RamKnown, NEW ps \in SUBSET Page
  PROVE  /\ Hidden(r, ps) \in RamKnown
         /\ Hidden(r, ps).names = r.names /\ Hidden(r, ps).shown = r.shown \ ps
         /\ \A p \in Page : Hidden(r, ps).kind[p] = IF p \in ps THEN HiddenKind(r.kind[p], r.pin[p]) ELSE r.kind[p]
         /\ \A p \in Page : Hidden(r, ps).pin[p] = IF p \in ps THEN "no" ELSE r.pin[p]
         /\ \A p \in Page : Hidden(r, ps).ink[p] = r.ink[p]
<1>1. Hidden(r, ps) \in RamKnown
  BY EffectsOfCalls
<1>2. Hidden(r, ps).names = r.names /\ Hidden(r, ps).shown = r.shown \ ps
  BY DEF Hidden, RamKnown
<1>3. \A p \in Page : Hidden(r, ps).kind[p] = IF p \in ps THEN HiddenKind(r.kind[p], r.pin[p]) ELSE r.kind[p]
  BY DEF Hidden, RamKnown
<1>4. \A p \in Page : Hidden(r, ps).pin[p] = IF p \in ps THEN "no" ELSE r.pin[p]
  BY DEF Hidden, RamKnown
<1>5. \A p \in Page : Hidden(r, ps).ink[p] = r.ink[p]
  BY DEF Hidden, RamKnown
<1>6. QED
  BY <1>1, <1>2, <1>3, <1>4, <1>5

\* What Unshown does.
LEMMA UnshownDoes ==
  ASSUME NEW r \in RamKnown, NEW ps \in SUBSET Page
  PROVE  /\ Unshown(r) \in RamKnown
         /\ Unshown(r).names = r.names /\ Unshown(r).shown = {}
         /\ \A p \in Page : Unshown(r).kind[p] = r.kind[p]
         /\ \A p \in Page : Unshown(r).pin[p] = "no"
         /\ \A p \in Page : Unshown(r).ink[p] = r.ink[p]
<1>1. Unshown(r) \in RamKnown
  BY EffectsOfCalls
<1>2. Unshown(r).names = r.names /\ Unshown(r).shown = {}
  BY DEF Unshown, RamKnown
<1>3. \A p \in Page : Unshown(r).kind[p] = r.kind[p]
  BY DEF Unshown, RamKnown
<1>4. \A p \in Page : Unshown(r).pin[p] = "no"
  BY DEF Unshown, RamKnown
<1>5. \A p \in Page : Unshown(r).ink[p] = r.ink[p]
  BY DEF Unshown, RamKnown
<1>6. QED
  BY <1>1, <1>2, <1>3, <1>4, <1>5

\* What Touched does.
LEMMA TouchedDoes ==
  ASSUME NEW r \in RamKnown, NEW ps \in SUBSET Page
  PROVE  /\ Touched(r, ps) \in RamKnown
         /\ Touched(r, ps).names = r.names /\ Touched(r, ps).shown = r.shown
         /\ \A p \in Page : Touched(r, ps).kind[p] = IF p \in ps THEN TouchedKind(r.kind[p]) ELSE r.kind[p]
         /\ \A p \in Page : Touched(r, ps).pin[p] = r.pin[p]
         /\ \A p \in Page : Touched(r, ps).ink[p] = r.ink[p]
<1>1. Touched(r, ps) \in RamKnown
  BY EffectsOfCalls
<1>2. Touched(r, ps).names = r.names /\ Touched(r, ps).shown = r.shown
  BY DEF Touched, RamKnown
<1>3. \A p \in Page : Touched(r, ps).kind[p] = IF p \in ps THEN TouchedKind(r.kind[p]) ELSE r.kind[p]
  BY DEF Touched, RamKnown
<1>4. \A p \in Page : Touched(r, ps).pin[p] = r.pin[p]
  BY DEF Touched, RamKnown
<1>5. \A p \in Page : Touched(r, ps).ink[p] = r.ink[p]
  BY DEF Touched, RamKnown
<1>6. QED
  BY <1>1, <1>2, <1>3, <1>4, <1>5

\* What Marked does.
LEMMA MarkedDoes ==
  ASSUME NEW r \in RamKnown, NEW ps \in SUBSET Page
  PROVE  /\ Marked(r, ps, "host") \in RamKnown
         /\ Marked(r, ps, "host").names = r.names /\ Marked(r, ps, "host").shown = r.shown
         /\ \A p \in Page : Marked(r, ps, "host").kind[p] = IF p \in ps THEN TouchedKind(r.kind[p]) ELSE r.kind[p]
         /\ \A p \in Page : Marked(r, ps, "host").pin[p] = r.pin[p]
         /\ \A p \in Page : Marked(r, ps, "host").ink[p] = IF p \in ps THEN "host" ELSE r.ink[p]
<1>1. Marked(r, ps, "host") \in RamKnown
  BY EffectsOfCalls
<1>2. Marked(r, ps, "host").names = r.names /\ Marked(r, ps, "host").shown = r.shown
  BY DEF Marked, Touched, RamKnown
<1>3. \A p \in Page : Marked(r, ps, "host").kind[p] = IF p \in ps THEN TouchedKind(r.kind[p]) ELSE r.kind[p]
  BY DEF Marked, Touched, RamKnown
<1>4. \A p \in Page : Marked(r, ps, "host").pin[p] = r.pin[p]
  BY DEF Marked, Touched, RamKnown
<1>5. \A p \in Page : Marked(r, ps, "host").ink[p] = IF p \in ps THEN "host" ELSE r.ink[p]
  BY DEF Marked, Touched, RamKnown
<1>6. QED
  BY <1>1, <1>2, <1>3, <1>4, <1>5

\* What Stored does.
LEMMA StoredDoes ==
  ASSUME NEW r \in RamKnown, NEW ps \in SUBSET Page
  PROVE  /\ Stored(r, ps) \in RamKnown
         /\ Stored(r, ps).names = r.names /\ Stored(r, ps).shown = r.shown
         /\ \A p \in Page : Stored(r, ps).kind[p] = IF p \in ps THEN TouchedKind(r.kind[p]) ELSE r.kind[p]
         /\ \A p \in Page : Stored(r, ps).pin[p] = IF p \in ps THEN "yes" ELSE r.pin[p]
         /\ \A p \in Page : Stored(r, ps).ink[p] = IF p \in ps THEN "guest" ELSE r.ink[p]
<1>1. Stored(r, ps) \in RamKnown
  BY EffectsOfCalls
<1>2. Stored(r, ps).names = r.names /\ Stored(r, ps).shown = r.shown
  BY DEF Stored, Marked, Touched, RamKnown
<1>3. \A p \in Page : Stored(r, ps).kind[p] = IF p \in ps THEN TouchedKind(r.kind[p]) ELSE r.kind[p]
  BY DEF Stored, Marked, Touched, RamKnown
<1>4. \A p \in Page : Stored(r, ps).pin[p] = IF p \in ps THEN "yes" ELSE r.pin[p]
  BY DEF Stored, Marked, Touched, RamKnown
<1>5. \A p \in Page : Stored(r, ps).ink[p] = IF p \in ps THEN "guest" ELSE r.ink[p]
  BY DEF Stored, Marked, Touched, RamKnown
<1>6. QED
  BY <1>1, <1>2, <1>3, <1>4, <1>5

\* What Loaded does.
LEMMA LoadedDoes ==
  ASSUME NEW r \in RamKnown, NEW ps \in SUBSET Page
  PROVE  /\ Loaded(r, ps) \in RamKnown
         /\ Loaded(r, ps).names = r.names /\ Loaded(r, ps).shown = r.shown
         /\ \A p \in Page : Loaded(r, ps).kind[p] = IF p \in ps THEN "any" ELSE r.kind[p]
         /\ \A p \in Page : Loaded(r, ps).pin[p] = IF p \in ps THEN "any" ELSE r.pin[p]
         /\ \A p \in Page : Loaded(r, ps).ink[p] = r.ink[p]
<1>1. Loaded(r, ps) \in RamKnown
  BY EffectsOfCalls
<1>2. Loaded(r, ps).names = r.names /\ Loaded(r, ps).shown = r.shown
  BY DEF Loaded, RamKnown
<1>3. \A p \in Page : Loaded(r, ps).kind[p] = IF p \in ps THEN "any" ELSE r.kind[p]
  BY DEF Loaded, RamKnown
<1>4. \A p \in Page : Loaded(r, ps).pin[p] = IF p \in ps THEN "any" ELSE r.pin[p]
  BY DEF Loaded, RamKnown
<1>5. \A p \in Page : Loaded(r, ps).ink[p] = r.ink[p]
  BY DEF Loaded, RamKnown
<1>6. QED
  BY <1>1, <1>2, <1>3, <1>4, <1>5

\* What Braced does.
LEMMA BracedDoes ==
  ASSUME NEW r \in RamKnown, NEW ps \in SUBSET Page
  PROVE  /\ Braced(r) \in RamKnown
         /\ Braced(r).names = r.names /\ Braced(r).shown = r.shown
         /\ \A p \in Page : Braced(r).kind[p] = IF r.kind[p] = "hole" THEN "hole" ELSE "any"
         /\ \A p \in Page : Braced(r).pin[p] = r.pin[p]
         /\ \A p \in Page : Braced(r).ink[p] = r.ink[p]
<1>1. Braced(r) \in RamKnown
  BY EffectsOfCalls
<1>2. Braced(r).names = r.names /\ Braced(r).shown = r.shown
  BY DEF Braced, RamKnown
<1>3. \A p \in Page : Braced(r).kind[p] = IF r.kind[p] = "hole" THEN "hole" ELSE "any"
  BY DEF Braced, RamKnown
<1>4. \A p \in Page : Braced(r).pin[p] = r.pin[p]
  BY DEF Braced, RamKnown
<1>5. \A p \in Page : Braced(r).ink[p] = r.ink[p]
  BY DEF Braced, RamKnown
<1>6. QED
  BY <1>1, <1>2, <1>3, <1>4, <1>5

\* What Advised does.
LEMMA AdvisedDoes ==
  ASSUME NEW r \in RamKnown, NEW ps \in SUBSET Page, NEW arg
  PROVE  /\ Advised(r, ps, arg) \in RamKnown
         /\ Advised(r, ps, arg).names = r.names /\ Advised(r, ps, arg).shown = r.shown
         /\ \A p \in Page : Advised(r, ps, arg).kind[p] = IF p \in ps THEN AdvisedKind(r.kind[p], r.pin[p], p \in r.shown, arg)
                                                       ELSE r.kind[p]
         /\ \A p \in Page : Advised(r, ps, arg).pin[p] = r.pin[p]
         /\ \A p \in Page : Advised(r, ps, arg).ink[p] = r.ink[p]
<1>1. Advised(r, ps, arg) \in RamKnown
  BY EffectsOfCalls
<1>2. Advised(r, ps, arg).names = r.names /\ Advised(r, ps, arg).shown = r.shown
  BY DEF Advised, RamKnown
<1>3. \A p \in Page : Advised(r, ps, arg).kind[p] = IF p \in ps THEN AdvisedKind(r.kind[p], r.pin[p], p \in r.shown, arg)
                                                       ELSE r.kind[p]
  BY DEF Advised, RamKnown
<1>4. \A p \in Page : Advised(r, ps, arg).pin[p] = r.pin[p]
  BY DEF Advised, RamKnown
<1>5. \A p \in Page : Advised(r, ps, arg).ink[p] = r.ink[p]
  BY DEF Advised, RamKnown
<1>6. QED
  BY <1>1, <1>2, <1>3, <1>4, <1>5

\* What a uniform description says.
LEMMA RamSays ==
  ASSUME NEW names, NEW k, NEW pin, NEW shown, NEW ink
  PROVE  /\ Ram(names, k, pin, shown, ink).names = names
         /\ Ram(names, k, pin, shown, ink).shown = shown
         /\ \A p \in Page : Ram(names, k, pin, shown, ink).kind[p] = k
         /\ \A p \in Page : Ram(names, k, pin, shown, ink).pin[p] = pin
         /\ \A p \in Page : Ram(names, k, pin, shown, ink).ink[p] = ink
  BY DEF Ram, All

\* Kinds stay kinds.
LEMMA KindsStay ==
  /\ \A k \in Kinds : \A pin : HiddenKind(k, pin) \in Kinds
  /\ \A k \in Kinds : TouchedKind(k) \in Kinds
  /\ \A k \in Kinds : \A pin, s, arg : AdvisedKind(k, pin, s, arg) \in Kinds
  /\ "hole" \in Kinds /\ "none" \in Kinds /\ "any" \in Kinds /\ "charged" \in Kinds
  /\ "reusable" \in Kinds /\ "sticky" \in Kinds /\ "freed" \in Kinds
  BY DEF Kinds, HiddenKind, TouchedKind, AdvisedKind

-----------------------------------------------------------------------------
(* Calls on all of the RAM. *)

\* Shown on a uniform description.
LEMMA ShownAll ==
  ASSUME NEW names \in SUBSET {"main", "local"}, NEW k \in Kinds, NEW pin \in {"yes", "no", "any"},
         NEW shown \in SUBSET Page, NEW ink \in {"any", "host", "guest"}
  PROVE  Shown(Ram(names, k, pin, {}, ink), Page) = Ram(names, k, pin, Page, ink)
<1>1. PICK r \in RamKnown : r = Ram(names, k, pin, {}, ink)
  BY RamIs
<1>2. r.names = names /\ r.shown = {} /\ \A p \in Page : r.kind[p] = k /\ r.pin[p] = pin /\ r.ink[p] = ink
  BY <1>1, RamSays
<1>3. PICK q \in RamKnown : q = Ram(names, k, pin, Page, ink)
  BY RamIs, KindsStay
<1>4. q.names = r.names /\ q.shown = Page
      /\ \A p \in Page : q.kind[p] = k /\ q.pin[p] = pin /\ q.ink[p] = ink
  BY <1>2, <1>3, RamSays
<1>5. Page \in SUBSET Page
  OBVIOUS
<1>6. PICK t \in RamKnown : t = Shown(r, Page)
  BY <1>5, ShownDoes
<1>7. t.names = q.names /\ t.shown = q.shown
  <2>1. t.names = r.names /\ t.shown = r.shown \cup Page
    BY <1>5, <1>6, ShownDoes
  <2>2. r.shown \cup Page = Page
    BY <1>2
  <2>3. QED
    BY <1>4, <2>1, <2>2
<1>8. \A p \in Page : t.kind[p] = q.kind[p]
  BY <1>2, <1>4, <1>5, <1>6, ShownDoes
<1>9. \A p \in Page : t.pin[p] = q.pin[p]
  BY <1>2, <1>4, <1>5, <1>6, ShownDoes
<1>10. \A p \in Page : t.ink[p] = q.ink[p]
  BY <1>2, <1>4, <1>5, <1>6, ShownDoes
<1>11. t = q
  BY <1>7, <1>8, <1>9, <1>10, SameRam
<1>12. QED
  BY <1>1, <1>3, <1>6, <1>11

\* Hidden on a uniform description.
LEMMA HiddenAll ==
  ASSUME NEW names \in SUBSET {"main", "local"}, NEW k \in Kinds, NEW pin \in {"yes", "no", "any"},
         NEW shown \in SUBSET Page, NEW ink \in {"any", "host", "guest"}
  PROVE  Hidden(Ram(names, k, pin, Page, ink), Page) = Ram(names, HiddenKind(k, pin), "no", {}, ink)
<1>1. PICK r \in RamKnown : r = Ram(names, k, pin, Page, ink)
  BY RamIs
<1>2. r.names = names /\ r.shown = Page /\ \A p \in Page : r.kind[p] = k /\ r.pin[p] = pin /\ r.ink[p] = ink
  BY <1>1, RamSays
<1>3. PICK q \in RamKnown : q = Ram(names, HiddenKind(k, pin), "no", {}, ink)
  BY RamIs, KindsStay
<1>4. q.names = r.names /\ q.shown = {}
      /\ \A p \in Page : q.kind[p] = HiddenKind(k, pin) /\ q.pin[p] = "no" /\ q.ink[p] = ink
  BY <1>2, <1>3, RamSays
<1>5. Page \in SUBSET Page
  OBVIOUS
<1>6. PICK t \in RamKnown : t = Hidden(r, Page)
  BY <1>5, HiddenDoes
<1>7. t.names = q.names /\ t.shown = q.shown
  BY <1>2, <1>4, <1>5, <1>6, HiddenDoes
<1>8. \A p \in Page : t.kind[p] = q.kind[p]
  BY <1>2, <1>4, <1>5, <1>6, HiddenDoes
<1>9. \A p \in Page : t.pin[p] = q.pin[p]
  BY <1>2, <1>4, <1>5, <1>6, HiddenDoes
<1>10. \A p \in Page : t.ink[p] = q.ink[p]
  BY <1>2, <1>4, <1>5, <1>6, HiddenDoes
<1>11. t = q
  BY <1>7, <1>8, <1>9, <1>10, SameRam
<1>12. QED
  BY <1>1, <1>3, <1>6, <1>11

\* Unshown on a uniform description.
LEMMA UnshownAll ==
  ASSUME NEW names \in SUBSET {"main", "local"}, NEW k \in Kinds, NEW pin \in {"yes", "no", "any"},
         NEW shown \in SUBSET Page, NEW ink \in {"any", "host", "guest"}
  PROVE  Unshown(Ram(names, k, pin, shown, ink)) = Ram(names, k, "no", {}, ink)
<1>1. PICK r \in RamKnown : r = Ram(names, k, pin, shown, ink)
  BY RamIs
<1>2. r.names = names /\ r.shown = shown /\ \A p \in Page : r.kind[p] = k /\ r.pin[p] = pin /\ r.ink[p] = ink
  BY <1>1, RamSays
<1>3. PICK q \in RamKnown : q = Ram(names, k, "no", {}, ink)
  BY RamIs, KindsStay
<1>4. q.names = r.names /\ q.shown = {}
      /\ \A p \in Page : q.kind[p] = k /\ q.pin[p] = "no" /\ q.ink[p] = ink
  BY <1>2, <1>3, RamSays
<1>5. Page \in SUBSET Page
  OBVIOUS
<1>6. PICK t \in RamKnown : t = Unshown(r)
  BY <1>5, UnshownDoes
<1>7. t.names = q.names /\ t.shown = q.shown
  BY <1>2, <1>4, <1>5, <1>6, UnshownDoes
<1>8. \A p \in Page : t.kind[p] = q.kind[p]
  BY <1>2, <1>4, <1>5, <1>6, UnshownDoes
<1>9. \A p \in Page : t.pin[p] = q.pin[p]
  BY <1>2, <1>4, <1>5, <1>6, UnshownDoes
<1>10. \A p \in Page : t.ink[p] = q.ink[p]
  BY <1>2, <1>4, <1>5, <1>6, UnshownDoes
<1>11. t = q
  BY <1>7, <1>8, <1>9, <1>10, SameRam
<1>12. QED
  BY <1>1, <1>3, <1>6, <1>11

\* Dropped on a uniform description.
LEMMA DroppedAll ==
  ASSUME NEW names \in SUBSET {"main", "local"}, NEW k \in Kinds, NEW pin \in {"yes", "no", "any"},
         NEW shown \in SUBSET Page, NEW ink \in {"any", "host", "guest"}
  PROVE  Dropped(Ram(names, k, pin, shown, ink), Page) = Ram(names, "hole", "no", shown, "any")
<1>1. PICK r \in RamKnown : r = Ram(names, k, pin, shown, ink)
  BY RamIs
<1>2. r.names = names /\ r.shown = shown /\ \A p \in Page : r.kind[p] = k /\ r.pin[p] = pin /\ r.ink[p] = ink
  BY <1>1, RamSays
<1>3. PICK q \in RamKnown : q = Ram(names, "hole", "no", shown, "any")
  BY RamIs, KindsStay
<1>4. q.names = r.names /\ q.shown = shown
      /\ \A p \in Page : q.kind[p] = "hole" /\ q.pin[p] = "no" /\ q.ink[p] = "any"
  BY <1>2, <1>3, RamSays
<1>5. Page \in SUBSET Page
  OBVIOUS
<1>6. PICK t \in RamKnown : t = Dropped(r, Page)
  BY <1>5, DroppedDoes
<1>7. t.names = q.names /\ t.shown = q.shown
  BY <1>2, <1>4, <1>5, <1>6, DroppedDoes
<1>8. \A p \in Page : t.kind[p] = q.kind[p]
  BY <1>2, <1>4, <1>5, <1>6, DroppedDoes
<1>9. \A p \in Page : t.pin[p] = q.pin[p]
  BY <1>2, <1>4, <1>5, <1>6, DroppedDoes
<1>10. \A p \in Page : t.ink[p] = q.ink[p]
  BY <1>2, <1>4, <1>5, <1>6, DroppedDoes
<1>11. t = q
  BY <1>7, <1>8, <1>9, <1>10, SameRam
<1>12. QED
  BY <1>1, <1>3, <1>6, <1>11

\* Touched on a uniform description.
LEMMA TouchedAll ==
  ASSUME NEW names \in SUBSET {"main", "local"}, NEW k \in Kinds, NEW pin \in {"yes", "no", "any"},
         NEW shown \in SUBSET Page, NEW ink \in {"any", "host", "guest"}
  PROVE  Touched(Ram(names, k, pin, shown, ink), Page) = Ram(names, TouchedKind(k), pin, shown, ink)
<1>1. PICK r \in RamKnown : r = Ram(names, k, pin, shown, ink)
  BY RamIs
<1>2. r.names = names /\ r.shown = shown /\ \A p \in Page : r.kind[p] = k /\ r.pin[p] = pin /\ r.ink[p] = ink
  BY <1>1, RamSays
<1>3. PICK q \in RamKnown : q = Ram(names, TouchedKind(k), pin, shown, ink)
  BY RamIs, KindsStay
<1>4. q.names = r.names /\ q.shown = shown
      /\ \A p \in Page : q.kind[p] = TouchedKind(k) /\ q.pin[p] = pin /\ q.ink[p] = ink
  BY <1>2, <1>3, RamSays
<1>5. Page \in SUBSET Page
  OBVIOUS
<1>6. PICK t \in RamKnown : t = Touched(r, Page)
  BY <1>5, TouchedDoes
<1>7. t.names = q.names /\ t.shown = q.shown
  BY <1>2, <1>4, <1>5, <1>6, TouchedDoes
<1>8. \A p \in Page : t.kind[p] = q.kind[p]
  BY <1>2, <1>4, <1>5, <1>6, TouchedDoes
<1>9. \A p \in Page : t.pin[p] = q.pin[p]
  BY <1>2, <1>4, <1>5, <1>6, TouchedDoes
<1>10. \A p \in Page : t.ink[p] = q.ink[p]
  BY <1>2, <1>4, <1>5, <1>6, TouchedDoes
<1>11. t = q
  BY <1>7, <1>8, <1>9, <1>10, SameRam
<1>12. QED
  BY <1>1, <1>3, <1>6, <1>11

\* Marked on a uniform description.
LEMMA MarkedAll ==
  ASSUME NEW names \in SUBSET {"main", "local"}, NEW k \in Kinds, NEW pin \in {"yes", "no", "any"},
         NEW shown \in SUBSET Page, NEW ink \in {"any", "host", "guest"}
  PROVE  Marked(Ram(names, k, pin, shown, ink), Page, "host") = Ram(names, TouchedKind(k), pin, shown, "host")
<1>1. PICK r \in RamKnown : r = Ram(names, k, pin, shown, ink)
  BY RamIs
<1>2. r.names = names /\ r.shown = shown /\ \A p \in Page : r.kind[p] = k /\ r.pin[p] = pin /\ r.ink[p] = ink
  BY <1>1, RamSays
<1>3. PICK q \in RamKnown : q = Ram(names, TouchedKind(k), pin, shown, "host")
  BY RamIs, KindsStay
<1>4. q.names = r.names /\ q.shown = shown
      /\ \A p \in Page : q.kind[p] = TouchedKind(k) /\ q.pin[p] = pin /\ q.ink[p] = "host"
  BY <1>2, <1>3, RamSays
<1>5. Page \in SUBSET Page
  OBVIOUS
<1>6. PICK t \in RamKnown : t = Marked(r, Page, "host")
  BY <1>5, MarkedDoes
<1>7. t.names = q.names /\ t.shown = q.shown
  BY <1>2, <1>4, <1>5, <1>6, MarkedDoes
<1>8. \A p \in Page : t.kind[p] = q.kind[p]
  BY <1>2, <1>4, <1>5, <1>6, MarkedDoes
<1>9. \A p \in Page : t.pin[p] = q.pin[p]
  BY <1>2, <1>4, <1>5, <1>6, MarkedDoes
<1>10. \A p \in Page : t.ink[p] = q.ink[p]
  BY <1>2, <1>4, <1>5, <1>6, MarkedDoes
<1>11. t = q
  BY <1>7, <1>8, <1>9, <1>10, SameRam
<1>12. QED
  BY <1>1, <1>3, <1>6, <1>11

\* Stored on a uniform description.
LEMMA StoredAll ==
  ASSUME NEW names \in SUBSET {"main", "local"}, NEW k \in Kinds, NEW pin \in {"yes", "no", "any"},
         NEW shown \in SUBSET Page, NEW ink \in {"any", "host", "guest"}
  PROVE  Stored(Ram(names, k, pin, shown, ink), Page) = Ram(names, TouchedKind(k), "yes", shown, "guest")
<1>1. PICK r \in RamKnown : r = Ram(names, k, pin, shown, ink)
  BY RamIs
<1>2. r.names = names /\ r.shown = shown /\ \A p \in Page : r.kind[p] = k /\ r.pin[p] = pin /\ r.ink[p] = ink
  BY <1>1, RamSays
<1>3. PICK q \in RamKnown : q = Ram(names, TouchedKind(k), "yes", shown, "guest")
  BY RamIs, KindsStay
<1>4. q.names = r.names /\ q.shown = shown
      /\ \A p \in Page : q.kind[p] = TouchedKind(k) /\ q.pin[p] = "yes" /\ q.ink[p] = "guest"
  BY <1>2, <1>3, RamSays
<1>5. Page \in SUBSET Page
  OBVIOUS
<1>6. PICK t \in RamKnown : t = Stored(r, Page)
  BY <1>5, StoredDoes
<1>7. t.names = q.names /\ t.shown = q.shown
  BY <1>2, <1>4, <1>5, <1>6, StoredDoes
<1>8. \A p \in Page : t.kind[p] = q.kind[p]
  BY <1>2, <1>4, <1>5, <1>6, StoredDoes
<1>9. \A p \in Page : t.pin[p] = q.pin[p]
  BY <1>2, <1>4, <1>5, <1>6, StoredDoes
<1>10. \A p \in Page : t.ink[p] = q.ink[p]
  BY <1>2, <1>4, <1>5, <1>6, StoredDoes
<1>11. t = q
  BY <1>7, <1>8, <1>9, <1>10, SameRam
<1>12. QED
  BY <1>1, <1>3, <1>6, <1>11

\* Loaded on a uniform description.
LEMMA LoadedAll ==
  ASSUME NEW names \in SUBSET {"main", "local"}, NEW k \in Kinds, NEW pin \in {"yes", "no", "any"},
         NEW shown \in SUBSET Page, NEW ink \in {"any", "host", "guest"}
  PROVE  Loaded(Ram(names, k, pin, shown, ink), Page) = Ram(names, "any", "any", shown, ink)
<1>1. PICK r \in RamKnown : r = Ram(names, k, pin, shown, ink)
  BY RamIs
<1>2. r.names = names /\ r.shown = shown /\ \A p \in Page : r.kind[p] = k /\ r.pin[p] = pin /\ r.ink[p] = ink
  BY <1>1, RamSays
<1>3. PICK q \in RamKnown : q = Ram(names, "any", "any", shown, ink)
  BY RamIs, KindsStay
<1>4. q.names = r.names /\ q.shown = shown
      /\ \A p \in Page : q.kind[p] = "any" /\ q.pin[p] = "any" /\ q.ink[p] = ink
  BY <1>2, <1>3, RamSays
<1>5. Page \in SUBSET Page
  OBVIOUS
<1>6. PICK t \in RamKnown : t = Loaded(r, Page)
  BY <1>5, LoadedDoes
<1>7. t.names = q.names /\ t.shown = q.shown
  BY <1>2, <1>4, <1>5, <1>6, LoadedDoes
<1>8. \A p \in Page : t.kind[p] = q.kind[p]
  BY <1>2, <1>4, <1>5, <1>6, LoadedDoes
<1>9. \A p \in Page : t.pin[p] = q.pin[p]
  BY <1>2, <1>4, <1>5, <1>6, LoadedDoes
<1>10. \A p \in Page : t.ink[p] = q.ink[p]
  BY <1>2, <1>4, <1>5, <1>6, LoadedDoes
<1>11. t = q
  BY <1>7, <1>8, <1>9, <1>10, SameRam
<1>12. QED
  BY <1>1, <1>3, <1>6, <1>11

\* Braced on a uniform description.
LEMMA BracedAll ==
  ASSUME NEW names \in SUBSET {"main", "local"}, NEW k \in Kinds, NEW pin \in {"yes", "no", "any"},
         NEW shown \in SUBSET Page, NEW ink \in {"any", "host", "guest"}
  PROVE  Braced(Ram(names, k, pin, shown, ink)) = Ram(names, IF k = "hole" THEN "hole" ELSE "any", pin, shown, ink)
<1>1. PICK r \in RamKnown : r = Ram(names, k, pin, shown, ink)
  BY RamIs
<1>2. r.names = names /\ r.shown = shown /\ \A p \in Page : r.kind[p] = k /\ r.pin[p] = pin /\ r.ink[p] = ink
  BY <1>1, RamSays
<1>3. PICK j \in Kinds : j = IF k = "hole" THEN "hole" ELSE "any"
  BY KindsStay
<1>4. PICK q \in RamKnown : q = Ram(names, j, pin, shown, ink)
  BY RamIs, KindsStay
<1>5. q.names = r.names /\ q.shown = shown
      /\ \A p \in Page : q.kind[p] = j /\ q.pin[p] = pin /\ q.ink[p] = ink
  BY <1>2, <1>4, RamSays
<1>6. Page \in SUBSET Page
  OBVIOUS
<1>7. PICK t \in RamKnown : t = Braced(r)
  BY <1>6, BracedDoes
<1>8. t.names = q.names /\ t.shown = q.shown
  BY <1>2, <1>3, <1>5, <1>6, <1>7, BracedDoes
<1>9. \A p \in Page : t.kind[p] = q.kind[p]
  BY <1>2, <1>3, <1>5, <1>6, <1>7, BracedDoes
<1>10. \A p \in Page : t.pin[p] = q.pin[p]
  BY <1>2, <1>3, <1>5, <1>6, <1>7, BracedDoes
<1>11. \A p \in Page : t.ink[p] = q.ink[p]
  BY <1>2, <1>3, <1>5, <1>6, <1>7, BracedDoes
<1>12. t = q
  BY <1>8, <1>9, <1>10, <1>11, SameRam
<1>13. QED
  BY <1>1, <1>3, <1>4, <1>7, <1>12

\* The kind of an advised page that the guest is shown, and of one it is not.
InView(k, pin, arg) == AdvisedKind(k, pin, TRUE, arg)
Aside(k, pin, arg) == AdvisedKind(k, pin, FALSE, arg)

\* They are kinds, and no advice makes a hole.
LEMMA AdvisedStays ==
  ASSUME NEW k \in Kinds, NEW pin, NEW arg
  PROVE  /\ InView(k, pin, arg) \in Kinds /\ Aside(k, pin, arg) \in Kinds
         /\ k # "hole" => InView(k, pin, arg) # "hole" /\ Aside(k, pin, arg) # "hole"
  BY DEF Kinds, InView, Aside, AdvisedKind

\* Advised on a uniform description.
LEMMA AdvisedShownAll ==
  ASSUME NEW names \in SUBSET {"main", "local"}, NEW k \in Kinds, NEW pin \in {"yes", "no", "any"},
         NEW ink \in {"any", "host", "guest"}, NEW arg, NEW j \in Kinds,
         j = InView(k, pin, arg)
  PROVE  Advised(Ram(names, k, pin, Page, ink), Page, arg) = Ram(names, j, pin, Page, ink)
<1>1. PICK r \in RamKnown : r = Ram(names, k, pin, Page, ink)
  BY RamIs
<1>2. r.names = names /\ r.shown = Page /\ \A p \in Page : r.kind[p] = k /\ r.pin[p] = pin /\ r.ink[p] = ink
  BY <1>1, RamSays
<1>3. j = InView(k, pin, arg)
  OBVIOUS
<1>4. PICK q \in RamKnown : q = Ram(names, j, pin, Page, ink)
  BY RamIs, KindsStay
<1>5. q.names = r.names /\ q.shown = Page
      /\ \A p \in Page : q.kind[p] = j /\ q.pin[p] = pin /\ q.ink[p] = ink
  BY <1>2, <1>4, RamSays
<1>6. Page \in SUBSET Page
  OBVIOUS
<1>7. PICK t \in RamKnown : t = Advised(r, Page, arg)
  BY <1>6, AdvisedDoes
<1>8. t.names = q.names /\ t.shown = q.shown
  BY <1>2, <1>3, <1>5, <1>6, <1>7, AdvisedDoes
<1>9. \A p \in Page : t.kind[p] = q.kind[p]
  BY <1>2, <1>3, <1>5, <1>7 DEF Advised, RamKnown, AdvisedKind, InView, Aside
<1>10. \A p \in Page : t.pin[p] = q.pin[p]
  BY <1>2, <1>5, <1>7 DEF Advised, RamKnown
<1>11. \A p \in Page : t.ink[p] = q.ink[p]
  BY <1>2, <1>5, <1>7 DEF Advised, RamKnown
<1>12. t = q
  BY <1>8, <1>9, <1>10, <1>11, SameRam
<1>13. QED
  BY <1>1, <1>3, <1>4, <1>7, <1>12

\* Advised on a uniform description.
LEMMA AdvisedHiddenAll ==
  ASSUME NEW names \in SUBSET {"main", "local"}, NEW k \in Kinds, NEW pin \in {"yes", "no", "any"},
         NEW ink \in {"any", "host", "guest"}, NEW arg, NEW j \in Kinds,
         j = Aside(k, pin, arg)
  PROVE  Advised(Ram(names, k, pin, {}, ink), Page, arg) = Ram(names, j, pin, {}, ink)
<1>1. PICK r \in RamKnown : r = Ram(names, k, pin, {}, ink)
  BY RamIs
<1>2. r.names = names /\ r.shown = {} /\ \A p \in Page : r.kind[p] = k /\ r.pin[p] = pin /\ r.ink[p] = ink
  BY <1>1, RamSays
<1>3. j = Aside(k, pin, arg)
  OBVIOUS
<1>4. PICK q \in RamKnown : q = Ram(names, j, pin, {}, ink)
  BY RamIs, KindsStay
<1>5. q.names = r.names /\ q.shown = {}
      /\ \A p \in Page : q.kind[p] = j /\ q.pin[p] = pin /\ q.ink[p] = ink
  BY <1>2, <1>4, RamSays
<1>6. Page \in SUBSET Page
  OBVIOUS
<1>7. PICK t \in RamKnown : t = Advised(r, Page, arg)
  BY <1>6, AdvisedDoes
<1>8. t.names = q.names /\ t.shown = q.shown
  BY <1>2, <1>3, <1>5, <1>6, <1>7, AdvisedDoes
<1>9. \A p \in Page : t.kind[p] = q.kind[p]
  BY <1>2, <1>3, <1>5, <1>7 DEF Advised, RamKnown, AdvisedKind, InView, Aside
<1>10. \A p \in Page : t.pin[p] = q.pin[p]
  BY <1>2, <1>5, <1>7 DEF Advised, RamKnown
<1>11. \A p \in Page : t.ink[p] = q.ink[p]
  BY <1>2, <1>5, <1>7 DEF Advised, RamKnown
<1>12. t = q
  BY <1>8, <1>9, <1>10, <1>11, SameRam
<1>13. QED
  BY <1>1, <1>3, <1>4, <1>7, <1>12

-----------------------------------------------------------------------------
(* Page by page. *)

\* A call for each page of a span.
LEMMA PageLoop ==
  ASSUME NEW o, NEW op \in Ops, NEW of \in Pointer \cup Reading,
         NEW arg \in Args \cup Pointer \cup Reading,
         NEW lo \in 0..Pages, NEW hi \in lo..Pages, NEW f \in [lo..hi -> Known],
         \A q \in lo..hi - 1, c \in Calls :
           c.op = op /\ c.of = of /\ c.pages = {q} /\ c.arg = arg => Effect(o, c, f[q], f[q + 1])
  PROVE  Runs(o, EachPage(op, of, lo, hi, arg), f[lo], f[hi])
<1>0. lo \in Nat /\ hi \in Nat /\ lo <= hi /\ hi <= Pages /\ Pages \in Nat
  BY MachineAssumption
<1>1. PICK n \in Nat : n = hi - lo
  BY <1>0
<1>2. PICK p : p = EachPage(op, of, lo, hi, arg)
  OBVIOUS
<1>3. p = [i \in 1..n |-> Call(op, of, {lo + i - 1}, arg)]
  BY <1>1, <1>2 DEF EachPage
<1>4. \A i \in 1..n : lo + i - 1 \in lo..hi - 1 /\ lo + i - 1 \in Page
  BY <1>0, <1>1 DEF Page
<1>5. \A i \in 1..n : {lo + i - 1} \in SUBSET Page
  BY <1>4
<1>6. ASSUME NEW i \in 1..n
      PROVE  p[i] \in Calls /\ p[i].op = op /\ p[i].of = of /\ p[i].pages = {lo + i - 1} /\ p[i].arg = arg
  <2>1. PICK ps \in SUBSET Page : ps = {lo + i - 1}
    BY <1>5
  <2>2. p[i] = Call(op, of, ps, arg)
    BY <1>3, <2>1
  <2>3. QED
    BY <2>1, <2>2, CallIs
<1>7. p \in [1..n -> Calls]
  BY <1>3, <1>6
<1>8. PICK g : g = [i \in 0..n |-> f[lo + i]]
  OBVIOUS
<1>9. g \in [0..n -> Known] /\ g[0] = f[lo] /\ g[n] = f[hi]
  BY <1>0, <1>1, <1>8
<1>10. ASSUME NEW i \in 1..n PROVE Effect(o, p[i], g[i - 1], g[i])
  <2>1. PICK q \in lo..hi - 1 : q = lo + i - 1
    BY <1>4
  <2>2. Effect(o, p[i], f[q], f[q + 1])
    BY <1>6, <2>1
  <2>3. g[i - 1] = f[q] /\ g[i] = f[q + 1]
    BY <1>0, <1>1, <1>8, <2>1
  <2>4. QED
    BY <2>2, <2>3
<1>11. Runs(o, p, g[0], g[n])
  BY <1>7, <1>9, <1>10, RunsList
<1>12. QED
  BY <1>2, <1>9, <1>11

\* Spans, page by page.
LEMMA Spans ==
  ASSUME NEW lo \in 0..Pages, NEW hi \in lo..Pages
  PROVE  /\ Span(lo, lo) = {} /\ Span(lo, hi) \in SUBSET Page
         /\ hi < Pages => Span(lo, hi + 1) = Span(lo, hi) \cup {hi} /\ hi \notin Span(lo, hi)
         /\ Span(0, Pages) = Page
<1>0. lo \in Nat /\ hi \in Nat /\ lo <= hi /\ hi <= Pages /\ Pages \in Nat
  BY MachineAssumption
<1>1. QED
  BY <1>0 DEF Span, Page

\* Touched page after page.
LEMMA TouchedMore ==
  ASSUME NEW r \in RamKnown, NEW ps \in SUBSET Page, NEW q \in Page, q \notin ps
  PROVE  /\ Touched(r, {}) = r
         /\ Touched(Touched(r, ps), {q}) = Touched(r, ps \cup {q})
<1>1. {} \in SUBSET Page /\ {q} \in SUBSET Page /\ ps \cup {q} \in SUBSET Page
  OBVIOUS
<1>2. PICK t \in RamKnown : t = Touched(r, {})
  BY <1>1, TouchedDoes
<1>3. t = r
  <2>1. t.names = r.names /\ t.shown = r.shown
    BY <1>1, <1>2, TouchedDoes
  <2>2. \A p \in Page : t.kind[p] = r.kind[p] /\ t.pin[p] = r.pin[p] /\ t.ink[p] = r.ink[p]
    BY <1>1, <1>2, TouchedDoes
  <2>3. QED
    BY <2>1, <2>2, SameRam
<1>4. PICK s \in RamKnown : s = Touched(r, ps)
  BY TouchedDoes
<1>5. PICK u \in RamKnown : u = Touched(s, {q})
  BY <1>1, TouchedDoes
<1>6. PICK v \in RamKnown : v = Touched(r, ps \cup {q})
  BY <1>1, TouchedDoes
<1>7. u.names = v.names /\ u.shown = v.shown
  <2>1. s.names = r.names /\ s.shown = r.shown
    BY <1>4, TouchedDoes
  <2>2. u.names = s.names /\ u.shown = s.shown
    BY <1>1, <1>5, TouchedDoes
  <2>3. v.names = r.names /\ v.shown = r.shown
    BY <1>1, <1>6, TouchedDoes
  <2>4. QED
    BY <2>1, <2>2, <2>3
<1>8. ASSUME NEW p \in Page PROVE u.kind[p] = v.kind[p] /\ u.pin[p] = v.pin[p] /\ u.ink[p] = v.ink[p]
  <2>1. u.kind[p] = v.kind[p]
    BY <1>1, <1>4, <1>5, <1>6, TouchedDoes
  <2>2. u.pin[p] = v.pin[p]
    BY <1>1, <1>4, <1>5, <1>6, TouchedDoes
  <2>3. u.ink[p] = v.ink[p]
    BY <1>1, <1>4, <1>5, <1>6, TouchedDoes
  <2>4. QED
    BY <2>1, <2>2, <2>3
<1>9. u = v
  BY <1>7, <1>8, SameRam
<1>10. QED
  BY <1>2, <1>3, <1>4, <1>5, <1>6, <1>9


\* Marked page after page.
LEMMA MarkedMore ==
  ASSUME NEW r \in RamKnown, NEW ps \in SUBSET Page, NEW q \in Page, q \notin ps
  PROVE  /\ Marked(r, {}, "host") = r
         /\ Marked(Marked(r, ps, "host"), {q}, "host") = Marked(r, ps \cup {q}, "host")
<1>1. {} \in SUBSET Page /\ {q} \in SUBSET Page /\ ps \cup {q} \in SUBSET Page
  OBVIOUS
<1>2. PICK t \in RamKnown : t = Marked(r, {}, "host")
  BY <1>1, MarkedDoes
<1>3. t = r
  <2>1. t.names = r.names /\ t.shown = r.shown
    BY <1>1, <1>2, MarkedDoes
  <2>2. \A p \in Page : t.kind[p] = r.kind[p] /\ t.pin[p] = r.pin[p] /\ t.ink[p] = r.ink[p]
    BY <1>1, <1>2, MarkedDoes
  <2>3. QED
    BY <2>1, <2>2, SameRam
<1>4. PICK s \in RamKnown : s = Marked(r, ps, "host")
  BY MarkedDoes
<1>5. PICK u \in RamKnown : u = Marked(s, {q}, "host")
  BY <1>1, MarkedDoes
<1>6. PICK v \in RamKnown : v = Marked(r, ps \cup {q}, "host")
  BY <1>1, MarkedDoes
<1>7. u.names = v.names /\ u.shown = v.shown
  <2>1. s.names = r.names /\ s.shown = r.shown
    BY <1>4, MarkedDoes
  <2>2. u.names = s.names /\ u.shown = s.shown
    BY <1>1, <1>5, MarkedDoes
  <2>3. v.names = r.names /\ v.shown = r.shown
    BY <1>1, <1>6, MarkedDoes
  <2>4. QED
    BY <2>1, <2>2, <2>3
<1>8. ASSUME NEW p \in Page PROVE u.kind[p] = v.kind[p] /\ u.pin[p] = v.pin[p] /\ u.ink[p] = v.ink[p]
  <2>1. u.kind[p] = v.kind[p]
    BY <1>1, <1>4, <1>5, <1>6, MarkedDoes
  <2>2. u.pin[p] = v.pin[p]
    BY <1>1, <1>4, <1>5, <1>6, MarkedDoes
  <2>3. u.ink[p] = v.ink[p]
    BY <1>1, <1>4, <1>5, <1>6, MarkedDoes
  <2>4. QED
    BY <2>1, <2>2, <2>3
<1>9. u = v
  BY <1>7, <1>8, SameRam
<1>10. QED
  BY <1>2, <1>3, <1>4, <1>5, <1>6, <1>9


\* Stored page after page.
LEMMA StoredMore ==
  ASSUME NEW r \in RamKnown, NEW ps \in SUBSET Page, NEW q \in Page, q \notin ps
  PROVE  /\ Stored(r, {}) = r
         /\ Stored(Stored(r, ps), {q}) = Stored(r, ps \cup {q})
<1>1. {} \in SUBSET Page /\ {q} \in SUBSET Page /\ ps \cup {q} \in SUBSET Page
  OBVIOUS
<1>2. PICK t \in RamKnown : t = Stored(r, {})
  BY <1>1, StoredDoes
<1>3. t = r
  <2>1. t.names = r.names /\ t.shown = r.shown
    BY <1>1, <1>2, StoredDoes
  <2>2. \A p \in Page : t.kind[p] = r.kind[p] /\ t.pin[p] = r.pin[p] /\ t.ink[p] = r.ink[p]
    BY <1>1, <1>2, StoredDoes
  <2>3. QED
    BY <2>1, <2>2, SameRam
<1>4. PICK s \in RamKnown : s = Stored(r, ps)
  BY StoredDoes
<1>5. PICK u \in RamKnown : u = Stored(s, {q})
  BY <1>1, StoredDoes
<1>6. PICK v \in RamKnown : v = Stored(r, ps \cup {q})
  BY <1>1, StoredDoes
<1>7. u.names = v.names /\ u.shown = v.shown
  <2>1. s.names = r.names /\ s.shown = r.shown
    BY <1>4, StoredDoes
  <2>2. u.names = s.names /\ u.shown = s.shown
    BY <1>1, <1>5, StoredDoes
  <2>3. v.names = r.names /\ v.shown = r.shown
    BY <1>1, <1>6, StoredDoes
  <2>4. QED
    BY <2>1, <2>2, <2>3
<1>8. ASSUME NEW p \in Page PROVE u.kind[p] = v.kind[p] /\ u.pin[p] = v.pin[p] /\ u.ink[p] = v.ink[p]
  <2>1. u.kind[p] = v.kind[p]
    BY <1>1, <1>4, <1>5, <1>6, StoredDoes
  <2>2. u.pin[p] = v.pin[p]
    BY <1>1, <1>4, <1>5, <1>6, StoredDoes
  <2>3. u.ink[p] = v.ink[p]
    BY <1>1, <1>4, <1>5, <1>6, StoredDoes
  <2>4. QED
    BY <2>1, <2>2, <2>3
<1>9. u = v
  BY <1>7, <1>8, SameRam
<1>10. QED
  BY <1>2, <1>3, <1>4, <1>5, <1>6, <1>9


\* Loaded page after page.
LEMMA LoadedMore ==
  ASSUME NEW r \in RamKnown, NEW ps \in SUBSET Page, NEW q \in Page, q \notin ps
  PROVE  /\ Loaded(r, {}) = r
         /\ Loaded(Loaded(r, ps), {q}) = Loaded(r, ps \cup {q})
<1>1. {} \in SUBSET Page /\ {q} \in SUBSET Page /\ ps \cup {q} \in SUBSET Page
  OBVIOUS
<1>2. PICK t \in RamKnown : t = Loaded(r, {})
  BY <1>1, LoadedDoes
<1>3. t = r
  <2>1. t.names = r.names /\ t.shown = r.shown
    BY <1>1, <1>2, LoadedDoes
  <2>2. \A p \in Page : t.kind[p] = r.kind[p] /\ t.pin[p] = r.pin[p] /\ t.ink[p] = r.ink[p]
    BY <1>1, <1>2, LoadedDoes
  <2>3. QED
    BY <2>1, <2>2, SameRam
<1>4. PICK s \in RamKnown : s = Loaded(r, ps)
  BY LoadedDoes
<1>5. PICK u \in RamKnown : u = Loaded(s, {q})
  BY <1>1, LoadedDoes
<1>6. PICK v \in RamKnown : v = Loaded(r, ps \cup {q})
  BY <1>1, LoadedDoes
<1>7. u.names = v.names /\ u.shown = v.shown
  <2>1. s.names = r.names /\ s.shown = r.shown
    BY <1>4, LoadedDoes
  <2>2. u.names = s.names /\ u.shown = s.shown
    BY <1>1, <1>5, LoadedDoes
  <2>3. v.names = r.names /\ v.shown = r.shown
    BY <1>1, <1>6, LoadedDoes
  <2>4. QED
    BY <2>1, <2>2, <2>3
<1>8. ASSUME NEW p \in Page PROVE u.kind[p] = v.kind[p] /\ u.pin[p] = v.pin[p] /\ u.ink[p] = v.ink[p]
  <2>1. u.kind[p] = v.kind[p]
    BY <1>1, <1>4, <1>5, <1>6, LoadedDoes
  <2>2. u.pin[p] = v.pin[p]
    BY <1>1, <1>4, <1>5, <1>6, LoadedDoes
  <2>3. u.ink[p] = v.ink[p]
    BY <1>1, <1>4, <1>5, <1>6, LoadedDoes
  <2>4. QED
    BY <2>1, <2>2, <2>3
<1>9. u = v
  BY <1>7, <1>8, SameRam
<1>10. QED
  BY <1>2, <1>3, <1>4, <1>5, <1>6, <1>9

\* Guest stores.
LEMMA StoreRange ==
  ASSUME NEW o, NEW a \in Known, NEW r \in RamKnown, NEW lo \in 0..Pages, NEW hi \in lo..Pages,
         a.sur.of = "none", Span(lo, hi) \subseteq r.shown,
         \A k \in lo..hi : OnGoal(o, With(a, Stored(r, Span(lo, k))))
  PROVE  Runs(o, EachPage("guest store", "main", lo, hi, ""), With(a, r), With(a, Stored(r, Span(lo, hi))))
<1>0. lo \in Nat /\ hi \in Nat /\ lo <= hi /\ hi <= Pages /\ Pages \in Nat
  BY MachineAssumption
<1>1. PICK op \in Ops : op = "guest store"
  BY DEF Ops
<1>2. PICK of \in Pointer \cup Reading : of = "main"
  BY DEF Pointer
<1>3. PICK arg \in Args \cup Pointer \cup Reading : arg = ""
  BY DEF Args
<1>4. \A k \in lo..hi : Span(lo, k) \in SUBSET Page
  BY <1>0, Spans
<1>5. \A k \in lo..hi : Stored(r, Span(lo, k)) \in RamKnown
  BY <1>4, StoredDoes
<1>6. PICK f : f = [k \in lo..hi |-> With(a, Stored(r, Span(lo, k)))]
  OBVIOUS
<1>7. f \in [lo..hi -> Known]
  BY <1>5, <1>6, WithIs
<1>8. f[lo] = With(a, r) /\ f[hi] = With(a, Stored(r, Span(lo, hi)))
  <2>1. 0 \in Page /\ Span(lo, lo) = {} /\ {} \in SUBSET Page /\ 0 \notin {}
    BY <1>0, MachineAssumption, Spans DEF Page
  <2>2. Stored(r, Span(lo, lo)) = r
    BY <2>1, StoredMore
  <2>3. QED
    BY <1>0, <1>6, <2>2
<1>9. ASSUME NEW q \in lo..hi - 1, NEW c \in Calls, c.op = op, c.of = of, c.pages = {q}, c.arg = arg
      PROVE  Effect(o, c, f[q], f[q + 1])
  <2>1. q \in lo..hi /\ q + 1 \in lo..hi /\ q \in Page /\ q < Pages /\ q \in Span(lo, hi) /\ q \in lo..Pages
    BY <1>0 DEF Page, Span
  <2>2. PICK s \in RamKnown : s = Stored(r, Span(lo, q))
    BY <1>5, <2>1
  <2>3. PICK t \in RamKnown : t = Stored(r, Span(lo, q + 1))
    BY <1>5, <2>1
  <2>4. Span(lo, q + 1) = Span(lo, q) \cup {q} /\ q \notin Span(lo, q) /\ Span(lo, q) \in SUBSET Page
    BY <1>4, <2>1, Spans
  <2>5. t = Stored(s, {q})
    BY <2>1, <2>2, <2>3, <2>4, StoredMore
  <2>6. f[q] = With(a, s) /\ f[q + 1] = With(a, t)
    BY <1>6, <2>1, <2>2, <2>3
  <2>7. With(a, s).ram = s /\ With(a, s).sur = a.sur /\ Change(With(a, s), With(a, t), t)
    BY WithIs, WithChange
  <2>8. s.names = r.names /\ s.shown = r.shown /\ s.kind[q] = r.kind[q]
    BY <2>1, <2>2, <2>4, StoredDoes
  <2>9. AfterGuestStore(c, With(a, s), With(a, t))
    BY <1>2, <1>9, <2>1, <2>5, <2>7, <2>8 DEF AfterGuestStore
  <2>10. OnGoal(o, With(a, t))
    BY <2>1, <2>3
  <2>11. Effect(o, c, With(a, s), With(a, t))
    BY <1>1, <1>9, <2>7, <2>9, <2>10 DEF Effect, Ops
  <2>12. QED
    BY <2>6, <2>11
<1>10. Runs(o, EachPage(op, of, lo, hi, arg), f[lo], f[hi])
  BY <1>7, <1>9, PageLoop
<1>11. QED
  BY <1>1, <1>2, <1>3, <1>8, <1>10


\* Guest loads.
LEMMA LoadRange ==
  ASSUME NEW o, NEW a \in Known, NEW r \in RamKnown, NEW lo \in 0..Pages, NEW hi \in lo..Pages,
         a.sur.of = "none", Span(lo, hi) \subseteq r.shown,
         \A k \in lo..hi : OnGoal(o, With(a, Loaded(r, Span(lo, k))))
  PROVE  Runs(o, EachPage("guest load", "main", lo, hi, ""), With(a, r), With(a, Loaded(r, Span(lo, hi))))
<1>0. lo \in Nat /\ hi \in Nat /\ lo <= hi /\ hi <= Pages /\ Pages \in Nat
  BY MachineAssumption
<1>1. PICK op \in Ops : op = "guest load"
  BY DEF Ops
<1>2. PICK of \in Pointer \cup Reading : of = "main"
  BY DEF Pointer
<1>3. PICK arg \in Args \cup Pointer \cup Reading : arg = ""
  BY DEF Args
<1>4. \A k \in lo..hi : Span(lo, k) \in SUBSET Page
  BY <1>0, Spans
<1>5. \A k \in lo..hi : Loaded(r, Span(lo, k)) \in RamKnown
  BY <1>4, LoadedDoes
<1>6. PICK f : f = [k \in lo..hi |-> With(a, Loaded(r, Span(lo, k)))]
  OBVIOUS
<1>7. f \in [lo..hi -> Known]
  BY <1>5, <1>6, WithIs
<1>8. f[lo] = With(a, r) /\ f[hi] = With(a, Loaded(r, Span(lo, hi)))
  <2>1. 0 \in Page /\ Span(lo, lo) = {} /\ {} \in SUBSET Page /\ 0 \notin {}
    BY <1>0, MachineAssumption, Spans DEF Page
  <2>2. Loaded(r, Span(lo, lo)) = r
    BY <2>1, LoadedMore
  <2>3. QED
    BY <1>0, <1>6, <2>2
<1>9. ASSUME NEW q \in lo..hi - 1, NEW c \in Calls, c.op = op, c.of = of, c.pages = {q}, c.arg = arg
      PROVE  Effect(o, c, f[q], f[q + 1])
  <2>1. q \in lo..hi /\ q + 1 \in lo..hi /\ q \in Page /\ q < Pages /\ q \in Span(lo, hi) /\ q \in lo..Pages
    BY <1>0 DEF Page, Span
  <2>2. PICK s \in RamKnown : s = Loaded(r, Span(lo, q))
    BY <1>5, <2>1
  <2>3. PICK t \in RamKnown : t = Loaded(r, Span(lo, q + 1))
    BY <1>5, <2>1
  <2>4. Span(lo, q + 1) = Span(lo, q) \cup {q} /\ q \notin Span(lo, q) /\ Span(lo, q) \in SUBSET Page
    BY <1>4, <2>1, Spans
  <2>5. t = Loaded(s, {q})
    BY <2>1, <2>2, <2>3, <2>4, LoadedMore
  <2>6. f[q] = With(a, s) /\ f[q + 1] = With(a, t)
    BY <1>6, <2>1, <2>2, <2>3
  <2>7. With(a, s).ram = s /\ With(a, s).sur = a.sur /\ Change(With(a, s), With(a, t), t)
    BY WithIs, WithChange
  <2>8. s.names = r.names /\ s.shown = r.shown /\ s.kind[q] = r.kind[q]
    BY <2>1, <2>2, <2>4, LoadedDoes
  <2>9. AfterGuestLoad(c, With(a, s), With(a, t))
    BY <1>2, <1>9, <2>1, <2>5, <2>7, <2>8 DEF AfterGuestLoad
  <2>10. OnGoal(o, With(a, t))
    BY <2>1, <2>3
  <2>11. Effect(o, c, With(a, s), With(a, t))
    BY <1>1, <1>9, <2>7, <2>9, <2>10 DEF Effect, Ops
  <2>12. QED
    BY <2>6, <2>11
<1>10. Runs(o, EachPage(op, of, lo, hi, arg), f[lo], f[hi])
  BY <1>7, <1>9, PageLoop
<1>11. QED
  BY <1>1, <1>2, <1>3, <1>8, <1>10


\* Host stores to the RAM.
LEMMA FillRange ==
  ASSUME NEW o, NEW a \in Known, NEW r \in RamKnown, NEW who \in r.names,
         NEW lo \in 0..Pages, NEW hi \in lo..Pages,
         a.sur.of = "none", \A p \in Span(lo, hi) : r.kind[p] # "hole",
         \A k \in lo..hi : OnGoal(o, With(a, Marked(r, Span(lo, k), "host")))
  PROVE  Runs(o, EachPage("host store", who, lo, hi, ""), With(a, r), With(a, Marked(r, Span(lo, hi), "host")))
<1>0. lo \in Nat /\ hi \in Nat /\ lo <= hi /\ hi <= Pages /\ Pages \in Nat
  BY MachineAssumption
<1>1. PICK op \in Ops : op = "host store"
  BY DEF Ops
<1>2. PICK of \in Pointer \cup Reading : of = who /\ of # "canary"
  BY NamesAre
<1>3. PICK arg \in Args \cup Pointer \cup Reading : arg = ""
  BY DEF Args
<1>4. \A k \in lo..hi : Span(lo, k) \in SUBSET Page
  BY <1>0, Spans
<1>5. \A k \in lo..hi : Marked(r, Span(lo, k), "host") \in RamKnown
  BY <1>4, MarkedDoes
<1>6. PICK f : f = [k \in lo..hi |-> With(a, Marked(r, Span(lo, k), "host"))]
  OBVIOUS
<1>7. f \in [lo..hi -> Known]
  BY <1>5, <1>6, WithIs
<1>8. f[lo] = With(a, r) /\ f[hi] = With(a, Marked(r, Span(lo, hi), "host"))
  <2>1. 0 \in Page /\ Span(lo, lo) = {} /\ {} \in SUBSET Page /\ 0 \notin {}
    BY <1>0, MachineAssumption, Spans DEF Page
  <2>2. Marked(r, Span(lo, lo), "host") = r
    BY <2>1, MarkedMore
  <2>3. QED
    BY <1>0, <1>6, <2>2
<1>9. ASSUME NEW q \in lo..hi - 1, NEW c \in Calls, c.op = op, c.of = of, c.pages = {q}, c.arg = arg
      PROVE  Effect(o, c, f[q], f[q + 1])
  <2>1. q \in lo..hi /\ q + 1 \in lo..hi /\ q \in Page /\ q < Pages /\ q \in Span(lo, hi) /\ q \in lo..Pages
    BY <1>0 DEF Page, Span
  <2>2. PICK s \in RamKnown : s = Marked(r, Span(lo, q), "host")
    BY <1>5, <2>1
  <2>3. PICK t \in RamKnown : t = Marked(r, Span(lo, q + 1), "host")
    BY <1>5, <2>1
  <2>4. Span(lo, q + 1) = Span(lo, q) \cup {q} /\ q \notin Span(lo, q) /\ Span(lo, q) \in SUBSET Page
    BY <1>4, <2>1, Spans
  <2>5. t = Marked(s, {q}, "host")
    BY <2>1, <2>2, <2>3, <2>4, MarkedMore
  <2>6. f[q] = With(a, s) /\ f[q + 1] = With(a, t)
    BY <1>6, <2>1, <2>2, <2>3
  <2>7. With(a, s).ram = s /\ With(a, s).sur = a.sur /\ Change(With(a, s), With(a, t), t)
    BY WithIs, WithChange
  <2>8. s.names = r.names /\ s.shown = r.shown /\ s.kind[q] = r.kind[q]
    BY <2>1, <2>2, <2>4, MarkedDoes
  <2>9. AfterHostStore(c, With(a, s), With(a, t))
    BY <1>2, <1>9, <2>1, <2>5, <2>7, <2>8 DEF AfterHostStore
  <2>10. OnGoal(o, With(a, t))
    BY <2>1, <2>3
  <2>11. Effect(o, c, With(a, s), With(a, t))
    BY <1>1, <1>9, <2>7, <2>9, <2>10 DEF Effect, Ops
  <2>12. QED
    BY <2>6, <2>11
<1>10. Runs(o, EachPage(op, of, lo, hi, arg), f[lo], f[hi])
  BY <1>7, <1>9, PageLoop
<1>11. QED
  BY <1>1, <1>2, <1>3, <1>8, <1>10

-----------------------------------------------------------------------------
(* The other calls, of a tool that is not the fleet simulation. *)

NoCan == [up |-> "no", ink |-> {}]
Can(ps) == [up |-> "yes", ink |-> ps]

\* Between two calls, outside surveys: the RAM, the canary, the pressure.
Stands(a, r, can, press) ==
  /\ a \in Known /\ a.ram = r /\ a.can = can /\ a.press = press
  /\ a.sur.of = "none" /\ a.sampling = "off"

Keeps(a, b) == b.regs = a.regs /\ b.n = a.n

\* A reading has been taken.
Sets(a, b, x, v) == b.n = a.n /\ \A y \in Reading : b.regs[y] = IF y = x THEN v ELSE a.regs[y]

\* Another RAM.
LEMMA StandsWith ==
  ASSUME NEW a, NEW r, NEW can, NEW press, Stands(a, r, can, press), NEW q \in RamKnown
  PROVE  /\ Stands(With(a, q), q, can, press) /\ Keeps(a, With(a, q))
         /\ With(a, r) = a /\ a \in Known /\ r \in RamKnown /\ a.sur.of = "none"
  BY WithIs DEF Stands, Keeps

\* Ledger::read.
LEMMA ReadRuns ==
  ASSUME NEW o, o.tool # "fleet", NEW a, NEW r, NEW can, NEW press, Stands(a, r, can, press),
         NEW x \in Reading, NEW v \in {"zero", "full", "any"},
         v = "zero" => can.up = "no" /\ Maybe(r) = {},
         v = "full" => can.up = "no" /\ Charged(r) = Page
  PROVE  \E b : /\ Stands(b, r, can, press) /\ Runs(o, read(x), a, b)
                /\ Sets(a, b, x, v)
<1>1. PICK b : b = [a EXCEPT !.regs = [a.regs EXCEPT ![x] = v]]
  OBVIOUS
<1>2. a.regs \in [Reading -> {"zero", "full", "any"}] /\ a \in Known
  BY DEF Stands, Known
<1>3. b \in Known /\ b.regs = [a.regs EXCEPT ![x] = v]
  BY <1>1, <1>2 DEF Known
<1>4. Stands(b, r, can, press) /\ b.n = a.n
  BY <1>1, <1>2, <1>3 DEF Stands, Known
<1>5. PICK c \in Calls : read(x) = <<c>> /\ c.op = "read" /\ c.of = x
  <2>1. "read" \in Ops /\ {} \in SUBSET Page
    BY DEF Ops
  <2>2. QED
    BY <2>1, DoIs DEF read
<1>6. Reads(a, v)
  BY DEF Reads, Stands
<1>7. AfterRead(c, a, b)
  BY <1>1, <1>5, <1>6 DEF AfterRead
<1>8. Effect(o, c, a, b)
  BY <1>5, <1>7 DEF Effect, Ops, OnGoal, Stands
<1>9. Sets(a, b, x, v)
  BY <1>2, <1>3, <1>4 DEF Sets
<1>10. Runs(o, read(x), a, b)
  BY <1>2, <1>3, <1>5, <1>8, RunsOne
<1>11. QED
  BY <1>4, <1>9, <1>10

\* A copy of a reading.
LEMMA LetRuns ==
  ASSUME NEW o, o.tool # "fleet", NEW a, NEW r, NEW can, NEW press, Stands(a, r, can, press),
         NEW x \in Reading, NEW y \in Reading
  PROVE  \E b : /\ Stands(b, r, can, press) /\ Runs(o, let(x, y), a, b)
                /\ Sets(a, b, x, a.regs[y])
<1>1. PICK b : b = [a EXCEPT !.regs = [a.regs EXCEPT ![x] = a.regs[y]]]
  OBVIOUS
<1>2. a.regs \in [Reading -> {"zero", "full", "any"}] /\ a \in Known
  BY DEF Stands, Known
<1>3. b \in Known /\ b.regs = [a.regs EXCEPT ![x] = a.regs[y]]
  BY <1>1, <1>2 DEF Known
<1>4. Stands(b, r, can, press) /\ b.n = a.n
  BY <1>1, <1>2, <1>3 DEF Stands, Known
<1>5. PICK c \in Calls : let(x, y) = <<c>> /\ c.op = "let" /\ c.of = x /\ c.arg = y
  <2>1. "let" \in Ops /\ {} \in SUBSET Page
    BY DEF Ops
  <2>2. QED
    BY <2>1, CallIs DEF let
<1>6. AfterLet(c, a, b)
  BY <1>1, <1>5 DEF AfterLet
<1>7. Effect(o, c, a, b)
  BY <1>5, <1>6 DEF Effect, Ops, OnGoal, Stands
<1>8. Sets(a, b, x, a.regs[y])
  BY <1>2, <1>3, <1>4 DEF Sets
<1>9. Runs(o, let(x, y), a, b)
  BY <1>2, <1>3, <1>5, <1>7, RunsOne
<1>10. QED
  BY <1>4, <1>8, <1>9

\* A row.
LEMMA RecordRuns ==
  ASSUME NEW o, o.tool # "fleet", NEW a, NEW r, NEW can, NEW press, Stands(a, r, can, press),
         NEW x \in Reading, NEW y \in Reading,
         \A c \in Calls : c.of = x /\ c.arg = y => RowFits(o, a.n + 1, c, a.regs)
  PROVE  \E b : /\ Stands(b, r, can, press) /\ Runs(o, delta_mib(x, y), a, b)
                /\ b.regs = a.regs /\ b.n = a.n + 1
<1>1. PICK b : b = [a EXCEPT !.n = a.n + 1]
  OBVIOUS
<1>2. a \in Known /\ a.n \in Nat
  BY DEF Stands, Known
<1>3. b \in Known
  BY <1>1, <1>2 DEF Known
<1>4. Stands(b, r, can, press) /\ b.n = a.n + 1 /\ b.regs = a.regs
  BY <1>1, <1>2, <1>3 DEF Stands, Known
<1>5. PICK c \in Calls : delta_mib(x, y) = <<c>> /\ c.op = "record" /\ c.of = x /\ c.arg = y
  <2>1. "record" \in Ops /\ {} \in SUBSET Page
    BY DEF Ops
  <2>2. QED
    BY <2>1, CallIs DEF delta_mib
<1>6. RowFits(o, a.n + 1, c, a.regs)
  BY <1>5
<1>7. AfterRecord(o, c, a, b)
  BY <1>1, <1>5, <1>6 DEF AfterRecord
<1>8. Effect(o, c, a, b)
  BY <1>5, <1>7 DEF Effect, Ops, OnGoal, Stands
<1>9. QED
  BY <1>2, <1>3, <1>4, <1>5, <1>8, RunsOne

\* A pointer to the RAM is copied.
LEMMA PointerRuns ==
  ASSUME NEW o, o.tool # "fleet", NEW a, NEW r, NEW can, NEW press, Stands(a, r, can, press),
         NEW x \in {"main", "local"}, NEW y \in r.names, NEW q \in RamKnown,
         q = [r EXCEPT !.names = r.names \cup {x}]
  PROVE  /\ Stands(With(a, q), q, can, press) /\ Keeps(a, With(a, q))
         /\ Runs(o, <<Call("let pointer", x, {}, y)>>, a, With(a, q))
<1>1. Stands(With(a, q), q, can, press) /\ Keeps(a, With(a, q)) /\ With(a, r) = a /\ a \in Known
      /\ r \in RamKnown
  BY StandsWith
<1>2. PICK c \in Calls : <<Call("let pointer", x, {}, y)>> = <<c>> /\ c.op = "let pointer" /\ c.of = x /\ c.arg = y
  <2>1. PICK op \in Ops : op = "let pointer"
    BY DEF Ops
  <2>2. {} \in SUBSET Page /\ x \in Pointer \cup Reading /\ y \in Args \cup Pointer \cup Reading
    BY <1>1, NamesAre DEF Pointer
  <2>3. \E c \in Calls : <<Call(op, x, {}, y)>> = <<c>> /\ c.op = op /\ c.of = x /\ c.arg = y
    BY <2>2, CallIs
  <2>4. QED
    BY <2>1, <2>3
<1>3. Change(a, With(a, q), q)
  BY DEF Change, With
<1>4. AfterLetPointer(c, a, With(a, q))
  BY <1>2, <1>3 DEF AfterLetPointer, Stands
<1>5. Effect(o, c, a, With(a, q))
  BY <1>2, <1>4 DEF Effect, Ops, OnGoal, Stands
<1>6. QED
  BY <1>1, <1>2, <1>5, RunsOne DEF Stands

\* What is known with another canary, and with another survey.
Canned(a, can) == [a EXCEPT !.can = can]

\* Canned changes the canary only.
LEMMA CannedIs ==
  ASSUME NEW a, NEW r, NEW can, NEW press, Stands(a, r, can, press), NEW other \in CanKnown
  PROVE  /\ Stands(Canned(a, other), r, other, press) /\ Keeps(a, Canned(a, other))
         /\ Canned(a, can) = a /\ a \in Known /\ Canned(a, other) \in Known
         /\ Canned(a, other).sur.of = "none" /\ Canned(a, other).can = other
         /\ \A x : Canned(Canned(a, other), x) = Canned(a, x)
<1>1. a \in Known
  BY DEF Stands
<1>2. Canned(a, other) \in Known
  BY <1>1 DEF Canned, Known
<1>3. QED
  BY <1>1, <1>2 DEF Stands, Keeps, Canned, Known

\* mmap of the canary.
LEMMA CanaryMmapRuns ==
  ASSUME NEW o, o.tool # "fleet", NEW a, NEW r, NEW press, Stands(a, r, NoCan, press),
         r.names = {} \/ \A p \in Page : r.kind[p] # "hole"
  PROVE  \E b : Stands(b, r, Can({}), press) /\ Keeps(a, b) /\ Runs(o, Do("mmap", "canary", Page), a, b)
<1>1. PICK b : b = Canned(a, Can({}))
  OBVIOUS
<1>2. Stands(b, r, Can({}), press) /\ Keeps(a, b) /\ a \in Known /\ b \in Known
  <2>1. Can({}) \in CanKnown
    BY DEF Can, CanKnown
  <2>2. QED
    BY <1>1, <2>1, CannedIs
<1>3. PICK c \in Calls : Do("mmap", "canary", Page) = <<c>> /\ c.op = "mmap" /\ c.of = "canary" /\ c.pages = Page
  <2>1. "mmap" \in Ops /\ Page \in SUBSET Page /\ "canary" \in Pointer \cup Reading
    BY DEF Ops, Pointer
  <2>2. QED
    BY <2>1, DoIs
<1>4. AfterMmap(c, a, b)
  BY <1>1, <1>3 DEF AfterMmap, Stands, NoCan, Can, Canned
<1>5. Effect(o, c, a, b)
  BY <1>3, <1>4 DEF Effect, Ops, OnGoal, Stands
<1>6. QED
  BY <1>2, <1>3, <1>5, RunsOne

\* munmap of the canary.
LEMMA DisarmRuns ==
  ASSUME NEW o, o.tool # "fleet", NEW a, NEW r, NEW ps, NEW press, Stands(a, r, Can(ps), press)
  PROVE  \E b : Stands(b, r, NoCan, press) /\ Keeps(a, b) /\ Runs(o, disarm, a, b)
<1>1. PICK b : b = Canned(a, NoCan)
  OBVIOUS
<1>2. Stands(b, r, NoCan, press) /\ Keeps(a, b) /\ a \in Known /\ b \in Known
  <2>1. NoCan \in CanKnown
    BY DEF NoCan, CanKnown
  <2>2. QED
    BY <1>1, <2>1, CannedIs
<1>3. PICK c \in Calls : disarm = <<c>> /\ c.op = "munmap" /\ c.of = "canary" /\ c.pages = Page
  <2>1. "munmap" \in Ops /\ Page \in SUBSET Page /\ "canary" \in Pointer \cup Reading
    BY DEF Ops, Pointer
  <2>2. QED
    BY <2>1, DoIs DEF disarm
<1>4. AfterMunmap(c, a, b)
  BY <1>1, <1>3 DEF AfterMunmap, Stands, NoCan, Can, Canned
<1>5. Effect(o, c, a, b)
  BY <1>3, <1>4 DEF Effect, Ops, OnGoal, Stands
<1>6. QED
  BY <1>2, <1>3, <1>5, RunsOne

\* The canary is filled.
LEMMA CanaryFillRuns ==
  ASSUME NEW o, o.tool # "fleet", NEW a, NEW r, NEW press, Stands(a, r, Can({}), press)
  PROVE  \E b : Stands(b, r, Can(Page), press) /\ Keeps(a, b) /\ Runs(o, fill("canary"), a, b)
<1>0. Pages \in Nat /\ 0 \in 0..Pages
  BY MachineAssumption
<1>1. PICK op \in Ops : op = "host store"
  BY DEF Ops
<1>2. PICK of \in Pointer \cup Reading : of = "canary"
  BY DEF Pointer
<1>3. PICK arg \in Args \cup Pointer \cup Reading : arg = ""
  BY DEF Args
<1>4. \A k \in 0..Pages : Span(0, k) \in SUBSET Page
  BY <1>0, Spans
<1>5. \A k \in 0..Pages : Can(Span(0, k)) \in CanKnown
  BY <1>4 DEF Can, CanKnown
<1>6. PICK f : f = [k \in 0..Pages |-> Canned(a, Can(Span(0, k)))]
  OBVIOUS
<1>7. f \in [0..Pages -> Known]
  <2>1. \A k \in 0..Pages : Canned(a, Can(Span(0, k))) \in Known
    BY <1>5, CannedIs
  <2>2. QED
    BY <1>6, <2>1
<1>8. f[0] = a /\ f[Pages] = Canned(a, Can(Page))
  <2>1. Span(0, 0) = {} /\ Span(0, Pages) = Page
    BY <1>0, Spans
  <2>2. Canned(a, Can({})) = a
    <3>1. Can({}) \in CanKnown
      BY DEF Can, CanKnown
    <3>2. QED
      BY <3>1, CannedIs
  <2>3. QED
    BY <1>0, <1>6, <2>1, <2>2
<1>9. ASSUME NEW q \in 0..Pages - 1, NEW c \in Calls, c.op = op, c.of = of, c.pages = {q}, c.arg = arg
      PROVE  Effect(o, c, f[q], f[q + 1])
  <2>1. q \in 0..Pages /\ q + 1 \in 0..Pages /\ q \in Page /\ q < Pages
    BY <1>0 DEF Page
  <2>2. Span(0, q + 1) = Span(0, q) \cup {q}
    BY <1>0, <2>1, Spans
  <2>3. PICK s \in Known : s = f[q] /\ s.can = Can(Span(0, q)) /\ s.sur.of = "none"
                           /\ f[q + 1] = Canned(s, Can(Span(0, q) \cup {q}))
    <3>1. Can(Span(0, q)) \in CanKnown
      BY <1>5, <2>1
    <3>2. f[q] = Canned(a, Can(Span(0, q))) /\ f[q + 1] = Canned(a, Can(Span(0, q) \cup {q}))
      BY <1>6, <2>1, <2>2
    <3>3. QED
      BY <3>1, <3>2, CannedIs
  <2>4. AfterHostStore(c, s, f[q + 1])
    <3>1. s.can.up = "yes" /\ s.can.ink = Span(0, q)
      BY <2>3 DEF Can
    <3>2. f[q + 1] = [s EXCEPT !.can = [up |-> "yes", ink |-> s.can.ink \cup {q}]]
      BY <2>3, <3>1 DEF Canned, Can
    <3>3. QED
      BY <1>2, <1>9, <2>1, <3>1, <3>2 DEF AfterHostStore
  <2>5. QED
    BY <1>1, <1>9, <2>3, <2>4 DEF Effect, Ops, OnGoal
<1>10. Runs(o, EachPage(op, of, 0, Pages, arg), f[0], f[Pages])
  <2>1. Pages \in 0..Pages
    BY <1>0
  <2>2. QED
    BY <1>0, <1>7, <1>9, <2>1, PageLoop
<1>11. PICK b : b = Canned(a, Can(Page))
  OBVIOUS
<1>12. Stands(b, r, Can(Page), press) /\ Keeps(a, b)
  <2>1. Can(Page) \in CanKnown
    BY DEF Can, CanKnown
  <2>2. QED
    BY <1>11, <2>1, CannedIs
<1>13. QED
  BY <1>1, <1>2, <1>3, <1>8, <1>10, <1>11, <1>12 DEF fill

\* The canary is advised: from here on there may be pressure.
LEMMA CanaryFreeRuns ==
  ASSUME NEW o, o.tool # "fleet", NEW a, NEW r, NEW ps, Stands(a, r, Can(ps), "calm")
  PROVE  \E b : /\ Stands(b, Braced(r), Can(ps), "braced") /\ Keeps(a, b)
                /\ Runs(o, madvise("canary", Page, "free"), a, b)
<1>1. PICK b : b = [a EXCEPT !.ram = Braced(a.ram), !.press = "braced"]
  OBVIOUS
<1>2. a \in Known /\ a.ram = r /\ r \in RamKnown
  BY DEF Stands, Known
<1>3. Braced(r) \in RamKnown
  BY <1>2, EffectsOfCalls
<1>4. b \in Known
  BY <1>1, <1>2, <1>3 DEF Known
<1>5. Stands(b, Braced(r), Can(ps), "braced") /\ Keeps(a, b)
  BY <1>1, <1>2, <1>4 DEF Stands, Keeps, Known
<1>6. PICK c \in Calls : madvise("canary", Page, "free") = <<c>> /\ c.op = "madvise" /\ c.of = "canary"
  <2>1. "madvise" \in Ops /\ Page \in SUBSET Page /\ "canary" \in Pointer \cup Reading
        /\ "free" \in Args \cup Pointer \cup Reading
    BY DEF Ops, Pointer, Args
  <2>2. QED
    BY <2>1, CallIs DEF madvise
<1>7. AfterMadvise(c, a, b)
  BY <1>1, <1>6 DEF AfterMadvise, Stands, Can
<1>8. Effect(o, c, a, b)
  BY <1>6, <1>7 DEF Effect, Ops, OnGoal, Stands
<1>9. QED
  BY <1>2, <1>4, <1>5, <1>6, <1>8, RunsOne

\* apply, and the guard dropped.
LEMMA PressureRuns ==
  ASSUME NEW o, o.tool # "fleet", NEW a, NEW r, NEW can, Stands(a, r, can, "braced")
  PROVE  \E s, b : /\ Stands(b, r, can, "over") /\ Keeps(a, b)
                   /\ Runs(o, apply, a, s) /\ Runs(o, drop_guard, s, b)
<1>1. PICK s : s = [a EXCEPT !.press = "guard"]
  OBVIOUS
<1>2. PICK b : b = [s EXCEPT !.press = "over"]
  OBVIOUS
<1>3. a \in Known
  BY DEF Stands
<1>4. s \in Known
  BY <1>1, <1>3 DEF Known
<1>5. b \in Known
  BY <1>2, <1>4 DEF Known
<1>6. Stands(s, r, can, "guard") /\ Keeps(a, s)
  BY <1>1, <1>3, <1>4 DEF Stands, Keeps, Known
<1>7. Stands(b, r, can, "over") /\ Keeps(s, b)
  BY <1>2, <1>4, <1>5, <1>6 DEF Stands, Keeps, Known
<1>8. Runs(o, apply, a, s)
  <2>1. PICK c \in Calls : apply = <<c>> /\ c.op = "apply"
    <3>1. "apply" \in Ops /\ {} \in SUBSET Page /\ "main" \in Pointer \cup Reading
      BY DEF Ops, Pointer
    <3>2. QED
      BY <3>1, DoIs DEF apply
  <2>2. AfterApply(c, a, s)
    BY <1>1 DEF AfterApply, Stands
  <2>3. Effect(o, c, a, s)
    BY <2>1, <2>2 DEF Effect, Ops, OnGoal, Stands
  <2>4. QED
    BY <1>3, <1>4, <2>1, <2>3, RunsOne
<1>9. Runs(o, drop_guard, s, b)
  <2>1. PICK c \in Calls : drop_guard = <<c>> /\ c.op = "drop guard"
    <3>1. PICK op \in Ops : op = "drop guard"
      BY DEF Ops
    <3>2. {} \in SUBSET Page /\ "main" \in Pointer \cup Reading /\ drop_guard = Do(op, "main", {})
      BY <3>1 DEF Pointer, drop_guard
    <3>3. PICK c \in Calls : Do(op, "main", {}) = <<c>> /\ c.op = op
      BY <3>2, DoIs
    <3>4. QED
      BY <3>1, <3>2, <3>3
  <2>2. AfterDrop(c, s, b)
    BY <1>2, <1>6 DEF AfterDrop, Stands
  <2>3. Effect(o, c, s, b)
    BY <1>6, <2>1, <2>2 DEF Effect, Ops, OnGoal, Stands
  <2>4. QED
    BY <1>4, <1>5, <2>1, <2>3, RunsOne
<1>10. QED
  BY <1>6, <1>7, <1>8, <1>9 DEF Keeps

\* What is known within a survey.
Surveying(a, r, of, k) == [a EXCEPT !.ram = r, !.sur = [of |-> of, k |-> k]]

\* Surveying changes the RAM and the survey only.
LEMMA SurveyingIs ==
  ASSUME NEW a, NEW r, NEW can, NEW press, Stands(a, r, can, press), NEW q \in RamKnown,
         NEW of \in {"none", "ram", "canary"}, NEW k \in 0..Pages
  PROVE  /\ Surveying(a, q, of, k) \in Known /\ Keeps(a, Surveying(a, q, of, k))
         /\ Surveying(a, q, of, k).sur.of = of /\ Surveying(a, q, of, k).sur.k = k
         /\ Surveying(a, q, of, k).ram = q /\ Surveying(a, q, of, k).can = can
         /\ of = "none" => Stands(Surveying(a, q, of, k), q, can, press)
         /\ r \in RamKnown /\ a \in Known /\ a.sur.of = "none"
<1>1. a \in Known /\ a.ram = r /\ a.can = can /\ a.sur.of = "none" /\ r \in RamKnown
  BY DEF Stands, Known
<1>2. Surveying(a, q, of, k) \in Known
  BY <1>1 DEF Surveying, Known, SurKnown
<1>3. /\ Keeps(a, Surveying(a, q, of, k))
      /\ Surveying(a, q, of, k).sur.of = of /\ Surveying(a, q, of, k).sur.k = k
      /\ Surveying(a, q, of, k).ram = q /\ Surveying(a, q, of, k).can = can
  BY <1>1 DEF Surveying, Known, Keeps
<1>4. of = "none" => Stands(Surveying(a, q, of, k), q, can, press)
  BY <1>1, <1>2, <1>3 DEF Stands, Surveying, Known
<1>5. QED
  BY <1>1, <1>2, <1>3, <1>4

OnSurvey(a, of, k) == [a EXCEPT !.sur = [of |-> of, k |-> k]]

\* Going on with a survey.
LEMMA SurveyingOn ==
  ASSUME NEW a \in Known, NEW q, NEW of, NEW k, NEW t, NEW x, NEW j
  PROVE  /\ OnSurvey(a, of, k) = Surveying(a, a.ram, of, k)
         /\ OnSurvey(Surveying(a, q, of, k), x, j) = Surveying(a, q, x, j)
         /\ Surveying(Surveying(a, q, of, k), t, x, j) = Surveying(a, t, x, j)
<1>1. OnSurvey(a, of, k) = Surveying(a, a.ram, of, k)
  BY DEF OnSurvey, Surveying, Known
<1>2. OnSurvey(Surveying(a, q, of, k), x, j) = Surveying(a, q, x, j)
  BY DEF OnSurvey, Surveying, Known
<1>3. Surveying(Surveying(a, q, of, k), t, x, j) = Surveying(a, t, x, j)
  BY DEF Surveying, Known
<1>4. QED
  BY <1>1, <1>2, <1>3

\* A survey of the canary.
LEMMA CanarySurveyRuns ==
  ASSUME NEW o, o.tool # "fleet", NEW a, NEW r, NEW press, Stands(a, r, Can(Page), press)
  PROVE  \E b : /\ Stands(b, r, Can(Page), press) /\ Keeps(a, b)
                /\ Runs(o, survey("canary", "host"), a, b)
<1>0. Pages \in Nat /\ 0 \in 0..Pages /\ Pages \in 0..Pages
  BY MachineAssumption
<1>1. PICK f : f = [k \in 0..Pages |-> Surveying(a, r, "canary", k)]
  OBVIOUS
<1>2. PICK b : b = Surveying(a, r, "none", 0)
  OBVIOUS
<1>3. r \in RamKnown /\ a \in Known /\ a.sur.of = "none"
  BY DEF Stands, Known
<1>4. Stands(b, r, Can(Page), press) /\ Keeps(a, b) /\ b \in Known
  BY <1>0, <1>2, <1>3, SurveyingIs
<1>5. \A k \in 0..Pages : /\ f[k] = Surveying(a, r, "canary", k) /\ f[k] \in Known
                          /\ f[k].sur.of = "canary" /\ f[k].sur.k = k /\ f[k].can = Can(Page)
  BY <1>1, <1>3, SurveyingIs
<1>6. f \in [0..Pages -> Known]
  BY <1>1, <1>5
<1>7. PICK who \in Pointer \cup Reading : who = "canary"
  BY DEF Pointer
<1>8. Runs(o, Do("survey", "canary", {}), a, f[0])
  <2>1. PICK c \in Calls : Do("survey", who, {}) = <<c>> /\ c.op = "survey" /\ c.of = who
    <3>1. "survey" \in Ops /\ {} \in SUBSET Page
      BY DEF Ops
    <3>2. QED
      BY <3>1, DoIs
  <2>2. f[0] = OnSurvey(a, "canary", 0)
    <3>1. a.ram = r
      BY DEF Stands
    <3>2. QED
      BY <1>0, <1>3, <1>5, <3>1, SurveyingOn
  <2>3. AfterSurvey(c, a, f[0])
    BY <1>7, <2>1, <2>2 DEF OnSurvey, AfterSurvey, Surveyed, Stands, Can
  <2>4. Effect(o, c, a, f[0])
    BY <1>3, <2>1, <2>3 DEF Effect, Ops, OnGoal
  <2>5. QED
    BY <1>0, <1>3, <1>5, <1>7, <2>1, <2>4, RunsOne
<1>9. Runs(o, EachPage("peek", "canary", 0, Pages, "host"), f[0], f[Pages])
  <2>1. "peek" \in Ops /\ "host" \in Args \cup Pointer \cup Reading
    BY DEF Ops, Args
  <2>2. ASSUME NEW q \in 0..Pages - 1, NEW c \in Calls, c.op = "peek", c.of = who, c.pages = {q},
               c.arg = "host"
        PROVE  Effect(o, c, f[q], f[q + 1])
    <3>1. q \in 0..Pages /\ q + 1 \in 0..Pages /\ q < Pages
      BY <1>0
    <3>2. f[q + 1] = OnSurvey(f[q], "canary", q + 1)
      BY <1>3, <1>5, <3>1, SurveyingOn
    <3>3. AfterPeek(c, f[q], f[q + 1])
      <4>1. /\ f[q].sur.of = "canary" /\ f[q].sur.k = q /\ f[q].can.up = "yes"
            /\ f[q].can.ink = Page
        BY <1>5, <3>1 DEF Can
      <4>2. QED
        BY <1>7, <2>2, <3>1, <3>2, <4>1 DEF OnSurvey, AfterPeek, Surveyed
    <3>4. QED
      BY <2>2, <3>3 DEF Effect, Ops, OnGoal
  <2>3. Runs(o, EachPage("peek", who, 0, Pages, "host"), f[0], f[Pages])
    BY <1>0, <1>6, <2>1, <2>2, PageLoop
  <2>4. QED
    BY <1>7, <2>3
<1>10. Runs(o, Do("report", "canary", {}), f[Pages], b)
  <2>1. PICK c \in Calls : Do("report", who, {}) = <<c>> /\ c.op = "report" /\ c.of = who
    <3>1. "report" \in Ops /\ {} \in SUBSET Page
      BY DEF Ops
    <3>2. QED
      BY <3>1, DoIs
  <2>2. b = OnSurvey(f[Pages], "none", 0)
    BY <1>0, <1>2, <1>3, <1>5, SurveyingOn
  <2>3. AfterReport(c, f[Pages], b)
    BY <1>0, <1>5, <1>7, <2>1, <2>2 DEF OnSurvey, AfterReport, Surveyed, Can
  <2>4. Effect(o, c, f[Pages], b)
    BY <2>1, <2>3 DEF Effect, Ops, OnGoal
  <2>5. QED
    BY <1>0, <1>4, <1>5, <1>7, <2>1, <2>4, RunsOne
<1>11. QED
  BY <1>4, <1>8, <1>9, <1>10, RunsBoth DEF survey

\* A survey of the RAM.
LEMMA RamSurveyRuns ==
  ASSUME NEW o, o.tool # "fleet", NEW a, NEW r, NEW can, NEW press, Stands(a, r, can, press),
         NEW of \in r.names, NEW want \in {"host", "guest"}, \A p \in Page : r.ink[p] = want
  PROVE  \E b : /\ Stands(b, Touched(r, Page), can, press) /\ Keeps(a, b)
                /\ Runs(o, survey(of, want), a, b)
<1>1. Pages \in Nat /\ 0 \in 0..Pages /\ Pages \in 0..Pages
  BY MachineAssumption
<1>2. PICK f : f = [k \in 0..Pages |-> Surveying(a, Touched(r, Span(0, k)), "ram", k)]
  OBVIOUS
<1>3. PICK b : b = Surveying(a, Touched(r, Page), "none", 0)
  OBVIOUS
<1>4. r \in RamKnown /\ a \in Known /\ a.sur.of = "none" /\ a.ram = r
  BY DEF Stands, Known
<1>5. of \in Pointer \cup Reading /\ of # "canary"
  BY <1>4, NamesAre
<1>6. \A k \in 0..Pages : Span(0, k) \in SUBSET Page
  BY <1>1, Spans
<1>7. Page \in SUBSET Page /\ Span(0, 0) = {} /\ Span(0, Pages) = Page
  BY <1>1, Spans
<1>8. \A k \in 0..Pages : Touched(r, Span(0, k)) \in RamKnown
  BY <1>4, <1>6, TouchedDoes
<1>9. Touched(r, Page) \in RamKnown
  BY <1>4, <1>7, TouchedDoes
<1>10. Stands(b, Touched(r, Page), can, press) /\ Keeps(a, b) /\ b \in Known
  BY <1>1, <1>3, <1>9, SurveyingIs
<1>11. \A k \in 0..Pages : /\ f[k] = Surveying(a, Touched(r, Span(0, k)), "ram", k) /\ f[k] \in Known
                          /\ f[k].sur.of = "ram" /\ f[k].sur.k = k /\ f[k].ram = Touched(r, Span(0, k))
  BY <1>2, <1>8, SurveyingIs
<1>12. \A k \in 0..Pages : of \in f[k].ram.names /\ \A p \in Page : f[k].ram.ink[p] = want
  BY <1>4, <1>11, <1>6, TouchedDoes
<1>13. f \in [0..Pages -> Known]
  BY <1>2, <1>11
<1>14. Runs(o, Do("survey", of, {}), a, f[0])
  <2>1. PICK c \in Calls : Do("survey", of, {}) = <<c>> /\ c.op = "survey" /\ c.of = of
    <3>1. "survey" \in Ops /\ {} \in SUBSET Page
      BY DEF Ops
    <3>2. QED
      BY <1>5, <3>1, DoIs
  <2>2. f[0] = OnSurvey(a, "ram", 0)
    <3>1. Touched(r, Span(0, 0)) = a.ram
      <4>1. 0 \in Page /\ 0 \notin {} /\ {} \in SUBSET Page
        BY MachineAssumption DEF Page
      <4>2. QED
        BY <1>4, <1>7, <4>1, TouchedMore
    <3>2. QED
      BY <1>1, <1>4, <1>11, <3>1, SurveyingOn
  <2>3. AfterSurvey(c, a, f[0])
    BY <1>4, <1>5, <2>1, <2>2 DEF OnSurvey, AfterSurvey, Surveyed
  <2>4. Effect(o, c, a, f[0])
    BY <1>4, <2>1, <2>3 DEF Effect, Ops, OnGoal
  <2>5. QED
    BY <1>1, <1>4, <1>11, <2>1, <2>4, RunsOne
<1>15. Runs(o, EachPage("peek", of, 0, Pages, want), f[0], f[Pages])
  <2>1. "peek" \in Ops /\ want \in Args \cup Pointer \cup Reading
    BY DEF Ops, Args
  <2>2. ASSUME NEW q \in 0..Pages - 1, NEW c \in Calls, c.op = "peek", c.of = of, c.pages = {q},
               c.arg = want
        PROVE  Effect(o, c, f[q], f[q + 1])
    <3>1. q \in 0..Pages /\ q + 1 \in 0..Pages /\ q < Pages /\ q \in Page
      BY <1>1 DEF Page
    <3>2. Span(0, q + 1) = Span(0, q) \cup {q} /\ q \notin Span(0, q) /\ Span(0, q) \in SUBSET Page
      BY <1>1, <3>1, Spans
    <3>3. Touched(r, Span(0, q + 1)) = Touched(f[q].ram, {q})
      BY <1>4, <1>11, <3>1, <3>2, TouchedMore
    <3>4. f[q + 1] = Surveying(f[q], Touched(f[q].ram, {q}), "ram", q + 1)
      BY <1>4, <1>11, <3>1, <3>3, SurveyingOn
    <3>5. AfterPeek(c, f[q], f[q + 1])
      <4>1. /\ f[q].sur.of = "ram" /\ f[q].sur.k = q /\ of \in f[q].ram.names
            /\ \A p \in Page : f[q].ram.ink[p] = want
        BY <1>11, <1>12, <3>1
      <4>2. QED
        BY <1>5, <2>2, <3>1, <3>4, <4>1 DEF OnSurvey, Surveying, AfterPeek, Surveyed
    <3>6. QED
      BY <2>2, <3>5 DEF Effect, Ops, OnGoal
  <2>3. QED
    BY <1>1, <1>13, <1>5, <2>1, <2>2, PageLoop
<1>16. Runs(o, Do("report", of, {}), f[Pages], b)
  <2>1. PICK c \in Calls : Do("report", of, {}) = <<c>> /\ c.op = "report" /\ c.of = of
    <3>1. "report" \in Ops /\ {} \in SUBSET Page
      BY DEF Ops
    <3>2. QED
      BY <1>5, <3>1, DoIs
  <2>2. b = OnSurvey(f[Pages], "none", 0)
    BY <1>1, <1>3, <1>4, <1>11, <1>7, SurveyingOn
  <2>3. AfterReport(c, f[Pages], b)
    BY <1>1, <1>11, <1>5, <1>12, <2>1, <2>2 DEF OnSurvey, AfterReport, Surveyed
  <2>4. Effect(o, c, f[Pages], b)
    BY <2>1, <2>3 DEF Effect, Ops, OnGoal
  <2>5. QED
    BY <1>1, <1>10, <1>11, <2>1, <2>4, RunsOne
<1>17. QED
  BY <1>10, <1>14, <1>15, <1>16, RunsBoth DEF survey

-----------------------------------------------------------------------------
(* Setting up, resetting and taking down. *)

\* Nothing can be charged, and nothing has been started: a fleet run is on its goal.
LEMMA Uncharged ==
  ASSUME NEW o, NEW a \in Known, NEW r \in RamKnown,
         o.tool = "fleet" => a.can.up = "no" /\ a.goal.upset = {},
         \A p \in Page : r.kind[p] \notin {"charged", "freed", "any"}
  PROVE  OnGoal(o, With(a, r))
<1>1. Maybe(r) = {}
  BY DEF Maybe
<1>2. With(a, r).ram = r /\ With(a, r).can = a.can /\ With(a, r).goal = a.goal
  BY WithIs
<1>3. QED
  BY <1>1, <1>2 DEF OnGoal

\* setup.
LEMMA SetupRuns ==
  ASSUME NEW o, NEW a \in Known, NEW names \in SUBSET {"main", "local"}, NEW ink \in {"any", "host", "guest"},
         a.sur.of = "none", a.press = "calm",
         o.tool = "fleet" => a.can.up = "no" /\ a.goal.upset = {}
  PROVE  Runs(o, setup, With(a, Ram(names, "hole", "no", {}, ink)),
                        With(a, Ram({"main"}, "none", "no", Page, "any")))
<1>1. PICK r \in RamKnown : r = Ram(names, "hole", "no", {}, ink)
  BY RamIs, KindsStay
<1>2. PICK s \in RamKnown : s = Ram({"main"}, "none", "no", {}, "any")
  BY RamIs, KindsStay
<1>3. PICK t \in RamKnown : t = Ram({"main"}, "none", "no", Page, "any")
  BY RamIs, KindsStay
<1>4. r.shown = {} /\ \A p \in Page : r.kind[p] = "hole" /\ r.pin[p] = "no"
  BY <1>1, RamSays
<1>5. s.shown = {} /\ s.names = {"main"} /\ \A p \in Page : s.kind[p] = "none"
  BY <1>2, RamSays
<1>6. \A p \in Page : t.kind[p] = "none"
  BY <1>3, RamSays
<1>7. OnGoal(o, With(a, s)) /\ OnGoal(o, With(a, t))
  BY <1>5, <1>6, Uncharged
<1>8. Runs(o, Do("mmap", "main", Page), With(a, r), With(a, s))
  BY <1>2, <1>4, <1>7, MmapRuns
<1>9. t = Shown(s, Page)
  BY <1>2, <1>3, ShownAll, KindsStay
<1>10. Page \in SUBSET Page /\ Page \cap s.shown = {} /\ "main" \in s.names
  BY <1>5
<1>11. Runs(o, Do("hv_vm_map", "main", Page), With(a, s), With(a, t))
  BY <1>5, <1>7, <1>9, <1>10, MapRuns
<1>12. QED
  BY <1>1, <1>3, <1>8, <1>11, RunsBoth DEF setup

\* teardown.
LEMMA TeardownRuns ==
  ASSUME NEW o, NEW a \in Known, NEW r \in RamKnown, "main" \in r.names, a.sur.of = "none",
         OnGoal(o, With(a, Unshown(r))),
         o.tool = "fleet" => a.can.up = "no" /\ a.goal.upset = {}
  PROVE  Runs(o, teardown, With(a, r), With(a, Ram(r.names, "hole", "no", {}, "any")))
<1>1. PICK s \in RamKnown : s = Unshown(r)
  BY EffectsOfCalls
<1>2. s.shown = {} /\ s.names = r.names
  BY <1>1, UnshownDoes
<1>3. Page \in SUBSET Page /\ Page \cap s.shown = {} /\ "main" \in s.names
  BY <1>2
<1>4. PICK t \in RamKnown : t = Dropped(s, Page)
  BY <1>3, EffectsOfCalls
<1>5. PICK u \in RamKnown : u = Ram(r.names, "hole", "no", {}, "any")
  BY Parts, RamIs, KindsStay
<1>6. t = u
  <2>1. /\ t.names = s.names /\ t.shown = s.shown
        /\ \A p \in Page : t.kind[p] = "hole" /\ t.pin[p] = "no" /\ t.ink[p] = "any"
    BY <1>3, <1>4, DroppedDoes
  <2>2. /\ u.names = r.names /\ u.shown = {}
        /\ \A p \in Page : u.kind[p] = "hole" /\ u.pin[p] = "no" /\ u.ink[p] = "any"
    BY <1>5, RamSays
  <2>3. t.names = u.names /\ t.shown = u.shown
    BY <1>2, <2>1, <2>2
  <2>4. \A p \in Page : t.kind[p] = u.kind[p] /\ t.pin[p] = u.pin[p] /\ t.ink[p] = u.ink[p]
    BY <2>1, <2>2
  <2>5. QED
    BY <2>3, <2>4, SameRam
<1>7. OnGoal(o, With(a, t))
  <2>1. \A p \in Page : t.kind[p] = "hole"
    BY <1>3, <1>4, DroppedDoes
  <2>2. QED
    BY <2>1, Uncharged
<1>8. Runs(o, Do("hv_vm_destroy", "main", {}), With(a, r), With(a, s))
  BY <1>1, DestroyRuns
<1>9. Runs(o, Do("munmap", "main", Page), With(a, s), With(a, t))
  BY <1>3, <1>4, <1>7, MunmapRuns
<1>10. QED
  BY <1>5, <1>6, <1>8, <1>9, RunsBoth DEF teardown

\* The reset between two cycles.
LEMMA ResetRuns ==
  ASSUME NEW o, o.tool # "fleet", NEW a \in Known, NEW names \in SUBSET {"main", "local"},
         NEW of \in names, NEW k \in Kinds, NEW pin \in {"yes", "no", "any"},
         NEW ink \in {"any", "host", "guest"}, a.sur.of = "none", a.press = "calm"
  PROVE  Runs(o, reset(of), With(a, Ram(names, k, pin, Page, ink)),
                            With(a, Ram({of}, "none", "no", Page, "any")))
<1>0. \A x : OnGoal(o, x)
  BY DEF OnGoal
<1>1. PICK r \in RamKnown : r = Ram(names, k, pin, Page, ink)
  BY RamIs
<1>2. PICK s \in RamKnown : s = Ram(names, HiddenKind(k, pin), "no", {}, ink)
  BY RamIs, KindsStay
<1>3. PICK t \in RamKnown : t = Ram(names, "hole", "no", {}, "any")
  BY RamIs, KindsStay
<1>4. PICK u \in RamKnown : u = Ram({of}, "none", "no", {}, "any")
  BY RamIs, KindsStay
<1>5. PICK v \in RamKnown : v = Ram({of}, "none", "no", Page, "any")
  BY RamIs, KindsStay
<1>6. Page \in SUBSET Page /\ of \in {"main", "local"} /\ {} \in SUBSET Page
  OBVIOUS
<1>7. s = Hidden(r, Page)
  BY <1>1, <1>2, <1>6, HiddenAll
<1>8. t = Dropped(s, Page)
  BY <1>2, <1>3, <1>6, DroppedAll, KindsStay
<1>9. v = Shown(u, Page)
  BY <1>4, <1>5, <1>6, ShownAll, KindsStay
<1>10. of \in r.names /\ Page \subseteq r.shown
  BY <1>1, RamSays
<1>11. of \in s.names /\ Page \cap s.shown = {}
  BY <1>2, RamSays
<1>12. t.shown = {} /\ \A p \in Page : t.kind[p] = "hole" /\ t.pin[p] = "no"
  BY <1>3, RamSays
<1>13. of \in u.names /\ Page \cap u.shown = {} /\ \A p \in Page : u.kind[p] # "hole"
  BY <1>4, RamSays
<1>14. Runs(o, Do("hv_vm_unmap", of, Page), With(a, r), With(a, s))
  BY <1>0, <1>6, <1>7, <1>10, UnmapRuns
<1>15. Runs(o, Do("munmap", of, Page), With(a, s), With(a, t))
  BY <1>0, <1>6, <1>8, <1>11, MunmapRuns
<1>16. Runs(o, Do("mmap", of, Page), With(a, t), With(a, u))
  BY <1>0, <1>4, <1>6, <1>12, MmapRuns
<1>17. Runs(o, Do("hv_vm_map", of, Page), With(a, u), With(a, v))
  BY <1>0, <1>6, <1>9, <1>13, MapRuns
<1>18. QED
  BY <1>1, <1>5, <1>14, <1>15, <1>16, <1>17, RunsBoth DEF reset

-----------------------------------------------------------------------------
(* Passes over all of the RAM, and repetition. *)

\* Part after part, where each can start from all that the one before may leave.
LEMMA RunsLoop ==
  ASSUME NEW o, NEW n \in Nat, NEW part, NEW P, NEW a \in P[0], a \in Known,
         \A i \in 1..n : \A x \in P[i - 1] : \E y \in P[i] : Runs(o, part[i], x, y)
  PROVE  \E y \in P[n] : Runs(o, Repeat(n, part), a, y)
<1>1. PICK f : Built(f, n, part) /\ Repeat(n, part) = f[n]
  BY RepeatDef
<1>2. \A i \in 0..n : f[i] = IF i = 0 THEN <<>> ELSE f[i - 1] \o part[i]
  BY <1>1 DEF Built
<1> DEFINE T == {i \in 0..n : ~\E y \in P[i] : Runs(o, f[i], a, y)}
<1>3. CASE T = {}
  <2>1. n \in 0..n
    OBVIOUS
  <2>2. QED
    BY <1>1, <1>3, <2>1
<1>4. CASE T # {}
  <2>1. PICK k \in T : \A y \in T : k <= y
    <3>1. T \subseteq Nat
      OBVIOUS
    <3> HIDE DEF T
    <3>2. QED
      BY <1>4, <3>1, Least
  <2>2. k \in 0..n /\ ~\E y \in P[k] : Runs(o, f[k], a, y)
    BY <2>1
  <2>3. k # 0
    BY <1>2, <2>2, RunsNothing
  <2>4. k - 1 \in 0..n /\ k \in 1..n /\ ~(k <= k - 1)
    BY <2>2, <2>3
  <2>5. PICK x \in P[k - 1] : Runs(o, f[k - 1], a, x)
    BY <2>1, <2>4
  <2>6. PICK y \in P[k] : Runs(o, part[k], x, y)
    BY <2>4
  <2>7. f[k] = f[k - 1] \o part[k]
    BY <1>2, <2>2, <2>3
  <2>8. Runs(o, f[k], a, y)
    BY <2>5, <2>6, <2>7, RunsBoth
  <2>9. QED
    BY <2>2, <2>8
<1>5. QED
  BY <1>3, <1>4

\* run_touch_pass.
LEMMA TouchPassRuns ==
  ASSUME NEW o, o.tool # "fleet", NEW a \in Known, NEW names \in SUBSET {"main", "local"}, NEW k \in Kinds,
         NEW pin \in {"yes", "no", "any"}, NEW ink \in {"any", "host", "guest"}, a.sur.of = "none"
  PROVE  Runs(o, run_touch_pass, With(a, Ram(names, k, pin, Page, ink)),
                                 With(a, Ram(names, TouchedKind(k), "yes", Page, "guest")))
<1>0. 0 \in 0..Pages /\ Pages \in 0..Pages /\ Page \in SUBSET Page
  BY MachineAssumption
<1>1. PICK r \in RamKnown : r = Ram(names, k, pin, Page, ink)
  BY <1>0, RamIs
<1>2. r.shown = Page
  BY <1>1, RamSays
<1>3. Span(0, Pages) = Page
  BY <1>0, Spans
<1>4. \A x : OnGoal(o, x)
  BY DEF OnGoal
<1>5. Runs(o, run_touch_pass, With(a, r), With(a, Stored(r, Span(0, Pages))))
  BY <1>0, <1>2, <1>3, <1>4, StoreRange DEF run_touch_pass, run_touch_range
<1>6. Stored(r, Page) = Ram(names, TouchedKind(k), "yes", Page, "guest")
  BY <1>0, <1>1, StoredAll
<1>7. QED
  BY <1>1, <1>3, <1>5, <1>6

\* run_read_pass.
LEMMA ReadPassRuns ==
  ASSUME NEW o, o.tool # "fleet", NEW a \in Known, NEW names \in SUBSET {"main", "local"}, NEW k \in Kinds,
         NEW pin \in {"yes", "no", "any"}, NEW ink \in {"any", "host", "guest"}, a.sur.of = "none"
  PROVE  Runs(o, run_read_pass, With(a, Ram(names, k, pin, Page, ink)),
                                With(a, Ram(names, "any", "any", Page, ink)))
<1>0. 0 \in 0..Pages /\ Pages \in 0..Pages /\ Page \in SUBSET Page
  BY MachineAssumption
<1>1. PICK r \in RamKnown : r = Ram(names, k, pin, Page, ink)
  BY <1>0, RamIs
<1>2. r.shown = Page
  BY <1>1, RamSays
<1>3. Span(0, Pages) = Page
  BY <1>0, Spans
<1>4. \A x : OnGoal(o, x)
  BY DEF OnGoal
<1>5. Runs(o, run_read_pass, With(a, r), With(a, Loaded(r, Span(0, Pages))))
  BY <1>0, <1>2, <1>3, <1>4, LoadRange DEF run_read_pass
<1>6. Loaded(r, Page) = Ram(names, "any", "any", Page, ink)
  <2>1. Loaded(Ram(names, k, pin, Page, ink), Page) = Ram(names, "any", "any", Page, ink)
    BY Page \in SUBSET Page, LoadedAll, SMTT(30)
  <2>2. QED
    BY <1>1, <2>1
<1>7. QED
  BY <1>1, <1>3, <1>5, <1>6

\* The host fills the RAM.
LEMMA FillPassRuns ==
  ASSUME NEW o, o.tool # "fleet", NEW a \in Known, NEW names \in SUBSET {"main", "local"}, NEW of \in names,
         NEW k \in Kinds, k # "hole", NEW shown \in SUBSET Page,
         NEW pin \in {"yes", "no", "any"}, NEW ink \in {"any", "host", "guest"}, a.sur.of = "none"
  PROVE  Runs(o, fill(of), With(a, Ram(names, k, pin, shown, ink)),
                           With(a, Ram(names, TouchedKind(k), pin, shown, "host")))
<1>0. 0 \in 0..Pages /\ Pages \in 0..Pages /\ Page \in SUBSET Page
  BY MachineAssumption
<1>1. PICK r \in RamKnown : r = Ram(names, k, pin, shown, ink)
  BY <1>0, RamIs
<1>2. of \in r.names /\ \A p \in Page : r.kind[p] # "hole"
  BY <1>1, RamSays
<1>3. Span(0, Pages) = Page
  BY <1>0, Spans
<1>4. \A x : OnGoal(o, x)
  BY DEF OnGoal
<1>5. Runs(o, fill(of), With(a, r), With(a, Marked(r, Span(0, Pages), "host")))
  BY <1>0, <1>2, <1>3, <1>4, FillRange DEF fill
<1>6. Marked(r, Page, "host") = Ram(names, TouchedKind(k), pin, shown, "host")
  BY <1>0, <1>1, MarkedAll
<1>7. QED
  BY <1>1, <1>3, <1>5, <1>6

\* What a uniform RAM is charged.
LEMMA ChargeOfAll ==
  ASSUME NEW names, NEW k, NEW pin, NEW shown, NEW ink
  PROVE  /\ k = "charged" => Charged(Ram(names, k, pin, shown, ink)) = Page
         /\ k \notin {"charged", "freed", "any"} => Maybe(Ram(names, k, pin, shown, ink)) = {}
<1>1. \A p \in Page : Ram(names, k, pin, shown, ink).kind[p] = k
  BY RamSays
<1>2. k = "charged" => Charged(Ram(names, k, pin, shown, ink)) = Page
  BY <1>1 DEF Charged
<1>3. k \notin {"charged", "freed", "any"} => Maybe(Ram(names, k, pin, shown, ink)) = {}
  BY <1>1 DEF Maybe
<1>4. QED
  BY <1>2, <1>3

-----------------------------------------------------------------------------
(* hv-reclaim's plain run. *)

\* What reclaim leaves.
ReclaimedKind(k, pin) ==
  IF opts.naive THEN InView(k, pin, opts.advice)
  ELSE Aside(HiddenKind(k, pin), "no", opts.advice)

ReclaimedPin(pin) == IF opts.naive THEN pin ELSE "no"

\* The options of a valid command line.
LEMMA OptionsAre ==
  ASSUME opts \in ValidOptions
  PROVE  /\ opts.tool \in {"plain", "time", "fleet", "calibrate", "discard", "vz"}
         /\ opts.advice \in {"dontneed", "free", "reusable"} /\ opts.naive \in BOOLEAN
         /\ opts.touch \in {"guest", "host", "read"} /\ opts.pressure_check \in BOOLEAN
         /\ opts.repeat \in 1..MaxRepeat /\ opts.mode \in {"reusable", "munmap"}
         /\ opts.steady \in BOOLEAN /\ opts.extent \in 1..Pages
         /\ opts.services \in 0..MaxServices /\ opts.region \in 1..Pages /\ parse_args(opts)
  BY DEF ValidOptions, Options

\* reclaim.
LEMMA ReclaimRuns ==
  ASSUME opts \in ValidOptions, opts.tool # "fleet", NEW a \in Known, NEW k \in Kinds, k # "hole",
         NEW pin \in {"yes", "no", "any"}, NEW ink \in {"any", "host", "guest"}, a.sur.of = "none"
  PROVE  Runs(opts, reclaim, With(a, Ram({"main"}, k, pin, Page, ink)),
                With(a, Ram({"main"}, ReclaimedKind(k, pin), ReclaimedPin(pin), Page, ink)))
<1>0. \A x : OnGoal(opts, x)
  BY DEF OnGoal
<1>1. Page \in SUBSET Page /\ {} \in SUBSET Page /\ opts.advice \in {"dontneed", "free", "reusable"}
      /\ {"main"} \in SUBSET {"main", "local"}
  BY OptionsAre
<1>2. PICK r \in RamKnown : r = Ram({"main"}, k, pin, Page, ink)
  BY <1>1, RamIs
<1>3. "main" \in r.names /\ Page \subseteq r.shown
  BY <1>2, RamSays
<1>4. CASE opts.naive
  <2>1. PICK j \in Kinds : j = InView(k, pin, opts.advice)
    BY AdvisedStays
  <2>2. Advised(r, Page, opts.advice) = Ram({"main"}, j, pin, Page, ink)
    <3>1. Advised(Ram({"main"}, k, pin, Page, ink), Page, opts.advice) = Ram({"main"}, j, pin, Page, ink)
      BY <1>1, <2>1, AdvisedShownAll
    <3>2. QED
      BY <1>2, <3>1
  <2>3. Runs(opts, madvise("main", Page, opts.advice), With(a, r), With(a, Advised(r, Page, opts.advice)))
    BY <1>0, <1>1, <1>3, AdviseRuns
  <2>4. reclaim = madvise("main", Page, opts.advice)
    BY <1>4 DEF reclaim
  <2>5. j = ReclaimedKind(k, pin) /\ pin = ReclaimedPin(pin)
    BY <1>4, <2>1 DEF ReclaimedKind, ReclaimedPin
  <2>6. QED
    BY <1>2, <2>2, <2>3, <2>4, <2>5
<1>5. CASE ~opts.naive
  <2>1. PICK h \in Kinds : h = HiddenKind(k, pin) /\ h # "hole"
    BY KindsStay DEF HiddenKind
  <2>2. PICK j \in Kinds : j = Aside(h, "no", opts.advice) /\ j # "hole"
    BY <2>1, AdvisedStays
  <2>3. PICK s \in RamKnown : s = Ram({"main"}, h, "no", {}, ink)
    BY <1>1, RamIs
  <2>4. PICK t \in RamKnown : t = Ram({"main"}, j, "no", {}, ink)
    BY <1>1, RamIs
  <2>5. PICK u \in RamKnown : u = Ram({"main"}, j, "no", Page, ink)
    BY <1>1, RamIs
  <2>6. s = Hidden(r, Page)
    BY <1>1, <1>2, <2>1, <2>3, HiddenAll
  <2>7. t = Advised(s, Page, opts.advice)
    <3>1. Advised(Ram({"main"}, h, "no", {}, ink), Page, opts.advice) = Ram({"main"}, j, "no", {}, ink)
      BY <1>1, <2>2, AdvisedHiddenAll
    <3>2. QED
      BY <2>3, <2>4, <3>1
  <2>8. u = Shown(t, Page)
    BY <1>1, <2>4, <2>5, ShownAll
  <2>9. "main" \in s.names
    BY <2>3, RamSays
  <2>10. "main" \in t.names /\ Page \cap t.shown = {} /\ \A p \in Page : t.kind[p] # "hole"
    <3>1. t.names = {"main"} /\ t.shown = {} /\ \A p \in Page : t.kind[p] = j
      BY <2>4, RamSays
    <3>2. QED
      BY <2>2, <3>1
  <2>11. Runs(opts, Do("hv_vm_unmap", "main", Page), With(a, r), With(a, s))
    BY <1>0, <1>1, <1>3, <2>6, UnmapRuns
  <2>12. Runs(opts, madvise("main", Page, opts.advice), With(a, s), With(a, t))
    BY <1>0, <1>1, <2>7, <2>9, AdviseRuns
  <2>13. Runs(opts, Do("hv_vm_map", "main", Page), With(a, t), With(a, u))
    BY <1>0, <1>1, <2>8, <2>10, MapRuns
  <2>14. j = ReclaimedKind(k, pin) /\ "no" = ReclaimedPin(pin)
    BY <1>5, <2>1, <2>2 DEF ReclaimedKind, ReclaimedPin
  <2>15. Runs(opts, reclaim, With(a, r), With(a, u))
    BY <1>5, <2>11, <2>12, <2>13, RunsBoth DEF reclaim
  <2>16. QED
    BY <1>2, <2>5, <2>14, <2>15
<1>6. QED
  BY <1>4, <1>5

\* What dirtying the RAM leaves.
TouchKind == IF opts.touch = "read" THEN "any" ELSE "charged"
TouchPin == CASE opts.touch = "host" -> "no" [] opts.touch = "guest" -> "yes" [] opts.touch = "read" -> "any"
TouchInk == IF opts.touch = "read" THEN "any" ELSE opts.touch

\* touch, of fresh memory.
LEMMA TouchRuns ==
  ASSUME opts \in ValidOptions, opts.tool # "fleet", NEW a \in Known, a.sur.of = "none"
  PROVE  Runs(opts, touch, With(a, Ram({"main"}, "none", "no", Page, "any")),
                           With(a, Ram({"main"}, TouchKind, TouchPin, Page, TouchInk)))
<1>1. Page \in SUBSET Page /\ {"main"} \in SUBSET {"main", "local"} /\ "main" \in {"main"}
      /\ TouchedKind("none") = "charged" /\ "none" # "hole"
  BY DEF TouchedKind
<1>2. CASE opts.touch = "host"
  <2>1. Runs(opts, fill("main"), With(a, Ram({"main"}, "none", "no", Page, "any")),
                                 With(a, Ram({"main"}, TouchedKind("none"), "no", Page, "host")))
    BY <1>1, FillPassRuns, KindsStay
  <2>2. QED
    BY <1>1, <1>2, <2>1 DEF touch, TouchKind, TouchPin, TouchInk
<1>3. CASE opts.touch = "read"
  <2>1. Runs(opts, run_read_pass, With(a, Ram({"main"}, "none", "no", Page, "any")),
                                  With(a, Ram({"main"}, "any", "any", Page, "any")))
    BY <1>1, ReadPassRuns, KindsStay
  <2>2. QED
    BY <1>1, <1>3, <2>1 DEF touch, TouchKind, TouchPin, TouchInk
<1>4. CASE opts.touch = "guest"
  <2>1. Runs(opts, run_touch_pass, With(a, Ram({"main"}, "none", "no", Page, "any")),
                                   With(a, Ram({"main"}, TouchedKind("none"), "yes", Page, "guest")))
    BY <1>1, TouchPassRuns, KindsStay
  <2>2. QED
    BY <1>1, <1>4, <2>1 DEF touch, TouchKind, TouchPin, TouchInk
<1>5. QED
  BY <1>2, <1>3, <1>4, OptionsAre

\* A program that changes what is known of the RAM only.
LEMMA RamStep ==
  ASSUME NEW o, NEW p, NEW a, NEW r, NEW can, NEW press, Stands(a, r, can, press),
         NEW q \in RamKnown, Runs(o, p, With(a, r), With(a, q))
  PROVE  \E b : Stands(b, q, can, press) /\ Keeps(a, b) /\ Runs(o, p, a, b)
<1>1. Stands(With(a, q), q, can, press) /\ Keeps(a, With(a, q)) /\ With(a, r) = a
  BY StandsWith
<1>2. QED
  BY <1>1

\* What a reading is of a uniform RAM, when there is no canary.
ReadingOf(k) ==
  CASE k = "charged" -> "full"
    [] k \in {"freed", "any"} -> "any"
    [] OTHER -> "zero"

\* Ledger::read, of a uniform RAM.
LEMMA ReadAllRuns ==
  ASSUME NEW o, o.tool # "fleet", NEW a, NEW names, NEW k, NEW pin, NEW shown, NEW ink, NEW press,
         Stands(a, Ram(names, k, pin, shown, ink), NoCan, press), NEW x \in Reading
  PROVE  \E b : /\ Stands(b, Ram(names, k, pin, shown, ink), NoCan, press) /\ Runs(o, read(x), a, b)
                /\ Sets(a, b, x, ReadingOf(k))
<1>1. PICK v \in {"zero", "full", "any"} : v = ReadingOf(k)
  BY DEF ReadingOf
<1>2. PICK r : r = Ram(names, k, pin, shown, ink)
  OBVIOUS
<1>3. v = "zero" => NoCan.up = "no" /\ Maybe(r) = {}
  <2>1. v = "zero" => k \notin {"charged", "freed", "any"}
    BY <1>1 DEF ReadingOf
  <2>2. QED
    BY <1>2, <2>1, ChargeOfAll DEF NoCan
<1>4. v = "full" => NoCan.up = "no" /\ Charged(r) = Page
  <2>1. v = "full" => k = "charged"
    BY <1>1 DEF ReadingOf
  <2>2. QED
    BY <1>2, <2>1, ChargeOfAll DEF NoCan
<1>5. \E b : /\ Stands(b, r, NoCan, press) /\ Runs(o, read(x), a, b)
             /\ Sets(a, b, x, v)
  <2>1. Stands(a, r, NoCan, press)
    BY <1>2
  <2>2. QED
    BY <1>3, <1>4, <2>1, ReadRuns
<1>6. QED
  BY <1>1, <1>2, <1>5

\* What is left of dirtied RAM, kind by kind.
LEMMA ReclaimedAre ==
  ASSUME opts \in ValidOptions
  PROVE  /\ TouchKind \in Kinds /\ TouchKind # "hole" /\ TouchPin \in {"yes", "no", "any"}
         /\ TouchInk \in {"any", "host", "guest"}
         /\ ReclaimedKind(TouchKind, TouchPin) \in Kinds
         /\ ReclaimedKind(TouchKind, TouchPin) # "hole"
         /\ ReclaimedPin(TouchPin) \in {"yes", "no", "any"}
         /\ opts.touch # "read" => ReadingOf(TouchKind) = "full"
         /\ opts.tool = "plain" => \A i :
              /\ FullRow(opts, i) => opts.touch # "read" /\ ReadingOf(ReclaimedKind(TouchKind, TouchPin)) = "zero"
              /\ NotRow(opts, i) => opts.touch # "read" /\ ReadingOf(ReclaimedKind(TouchKind, TouchPin)) = "full"
<1>1. /\ TouchKind \in Kinds /\ TouchKind # "hole" /\ TouchPin \in {"yes", "no", "any"}
      /\ TouchInk \in {"any", "host", "guest"} /\ ReclaimedPin(TouchPin) \in {"yes", "no", "any"}
  BY OptionsAre, KindsStay DEF TouchKind, TouchPin, TouchInk, ReclaimedPin
<1>2. HiddenKind(TouchKind, TouchPin) \in Kinds /\ HiddenKind(TouchKind, TouchPin) # "hole"
  BY <1>1, KindsStay DEF HiddenKind
<1>3. ReclaimedKind(TouchKind, TouchPin) \in Kinds /\ ReclaimedKind(TouchKind, TouchPin) # "hole"
  BY <1>1, <1>2, AdvisedStays DEF ReclaimedKind
<1>4. opts.touch # "read" => ReadingOf(TouchKind) = "full"
  BY DEF ReadingOf, TouchKind
<1>5. ASSUME opts.tool = "plain", NEW i, FullRow(opts, i)
      PROVE  opts.touch # "read" /\ ReadingOf(ReclaimedKind(TouchKind, TouchPin)) = "zero"
  <2>1. opts.advice = "reusable" /\ opts.touch # "read" /\ (opts.naive => opts.touch = "host")
    BY <1>5 DEF FullRow
  <2>2. ReclaimedKind(TouchKind, TouchPin) = "reusable"
    BY <2>1, OptionsAre DEF ReclaimedKind, InView, Aside, AdvisedKind, HiddenKind, TouchKind, TouchPin
  <2>3. QED
    BY <2>1, <2>2 DEF ReadingOf
<1>6. ASSUME opts.tool = "plain", NEW i, NotRow(opts, i)
      PROVE  opts.touch # "read" /\ ReadingOf(ReclaimedKind(TouchKind, TouchPin)) = "full"
  <2>1. opts.naive /\ opts.touch = "guest"
    BY <1>6 DEF NotRow
  <2>2. ReclaimedKind(TouchKind, TouchPin) = "charged"
    BY <2>1 DEF ReclaimedKind, InView, Aside, AdvisedKind, HiddenKind, TouchKind, TouchPin
  <2>3. QED
    BY <2>1, <2>2 DEF ReadingOf
<1>7. QED
  BY <1>1, <1>3, <1>4, <1>5, <1>6

\* Before a cycle of a plain run: fresh memory, or what the cycle before left.
BeforeCycle(i) ==
  {a \in Known :
     IF i = 0 THEN Stands(a, Ram({"main"}, "none", "no", Page, "any"), NoCan, "calm")
                   /\ a.regs["last"] = "zero"
     ELSE \E k \in Kinds \ {"hole"}, pin \in {"yes", "no", "any"}, ink \in {"any", "host", "guest"} :
            Stands(a, Ram({"main"}, k, pin, Page, ink), NoCan, "calm")}

\* A cycle starts from fresh memory.
LEMMA CycleStarts ==
  ASSUME opts \in ValidOptions, opts.tool # "fleet", NEW i \in Nat \ {0}, NEW a \in BeforeCycle(i - 1)
  PROVE  \E b : /\ Stands(b, Ram({"main"}, "none", "no", Page, "any"), NoCan, "calm")
                /\ b.regs["last"] = "zero"
                /\ Runs(opts, IF i > 1 THEN reset("main") \o read("last") ELSE <<>>, a, b)
<1>1. CASE i = 1
  <2>1. a \in Known /\ i - 1 = 0 /\ ~(i > 1)
    BY <1>1 DEF BeforeCycle
  <2>2. Runs(opts, <<>>, a, a)
    BY <2>1, RunsNothing
  <2>3. Stands(a, Ram({"main"}, "none", "no", Page, "any"), NoCan, "calm") /\ a.regs["last"] = "zero"
    BY <2>1 DEF BeforeCycle
  <2>4. QED
    BY <2>1, <2>2, <2>3
<1>2. CASE i # 1
  <2>1. i - 1 # 0 /\ i > 1
    BY <1>2
  <2>2. PICK k \in Kinds \ {"hole"}, pin \in {"yes", "no", "any"}, ink \in {"any", "host", "guest"} :
          Stands(a, Ram({"main"}, k, pin, Page, ink), NoCan, "calm")
    BY <2>1 DEF BeforeCycle
  <2>3. a \in Known /\ a.sur.of = "none" /\ a.press = "calm"
    BY <2>2 DEF Stands
  <2>4. {"main"} \in SUBSET {"main", "local"} /\ "main" \in {"main"} /\ Page \in SUBSET Page
    OBVIOUS
  <2>5. PICK q \in RamKnown : q = Ram({"main"}, "none", "no", Page, "any")
    BY <2>4, RamIs, KindsStay
  <2>6. Runs(opts, reset("main"), With(a, Ram({"main"}, k, pin, Page, ink)), With(a, q))
    BY <2>3, <2>4, <2>5, ResetRuns
  <2>7. PICK s : /\ Stands(s, q, NoCan, "calm") /\ Runs(opts, reset("main"), a, s)
    BY <2>2, <2>6, RamStep
  <2>8. PICK b : /\ Stands(b, q, NoCan, "calm") /\ Runs(opts, read("last"), s, b)
                 /\ Sets(s, b, "last", ReadingOf("none"))
    <3>1. "last" \in Reading
      BY DEF Reading
    <3>2. QED
      BY <2>5, <2>7, <3>1, ReadAllRuns
  <2>9. b.regs["last"] = "zero"
    BY <2>8 DEF Sets, Reading, ReadingOf
  <2>10. Runs(opts, reset("main") \o read("last"), a, b)
    BY <2>7, <2>8, RunsBoth
  <2>11. QED
    BY <2>1, <2>5, <2>8, <2>9, <2>10
<1>3. QED
  BY <1>1, <1>2

\* A cycle of a plain run: its rows fit.
LEMMA CycleRuns ==
  ASSUME opts \in ValidOptions, opts.tool = "plain", NEW i \in Nat \ {0}, NEW a \in BeforeCycle(i - 1)
  PROVE  \E b \in BeforeCycle(i) : Runs(opts, cycle(i), a, b)
<1>0. /\ "last" \in Reading /\ "before" \in Reading /\ "dirtied" \in Reading /\ "reclaimed" \in Reading
      /\ opts.tool # "fleet" /\ opts.tool # "time" /\ {"main"} \in SUBSET {"main", "local"} /\ Page \in SUBSET Page
  BY DEF Reading
<1>1. PICK pre : pre = IF i > 1 THEN reset("main") \o read("last") ELSE <<>>
  OBVIOUS
<1>2. PICK k1 \in Kinds, p1 \in {"yes", "no", "any"}, ink \in {"any", "host", "guest"} :
        k1 = TouchKind /\ p1 = TouchPin /\ ink = TouchInk /\ k1 # "hole"
  BY ReclaimedAre
<1>3. PICK k2 \in Kinds, p2 \in {"yes", "no", "any"} :
        k2 = ReclaimedKind(k1, p1) /\ p2 = ReclaimedPin(p1) /\ k2 # "hole"
  BY <1>2, ReclaimedAre
<1>4. PICK v1, v2 : v1 = ReadingOf(k1) /\ v2 = ReadingOf(k2)
  OBVIOUS
<1>5. PICK r0 \in RamKnown : r0 = Ram({"main"}, "none", "no", Page, "any")
  BY <1>0, RamIs, KindsStay
<1>6. PICK r1 \in RamKnown : r1 = Ram({"main"}, k1, p1, Page, ink)
  BY <1>0, RamIs
<1>7. PICK r2 \in RamKnown : r2 = Ram({"main"}, k2, p2, Page, ink)
  BY <1>0, RamIs
<1>8. PICK b0 : Stands(b0, r0, NoCan, "calm") /\ b0.regs["last"] = "zero" /\ Runs(opts, pre, a, b0)
  BY <1>0, <1>1, <1>5, CycleStarts
<1>9. PICK b1 : Stands(b1, r0, NoCan, "calm") /\ Runs(opts, let("before", "last"), b0, b1)
                /\ Sets(b0, b1, "before", b0.regs["last"])
  BY <1>0, <1>8, LetRuns
<1>10. PICK b2 : Stands(b2, r1, NoCan, "calm") /\ Runs(opts, touch, b1, b2) /\ Keeps(b1, b2)
  <2>1. b1 \in Known /\ b1.sur.of = "none"
    BY <1>9 DEF Stands
  <2>2. Runs(opts, touch, With(b1, r0), With(b1, r1))
    BY <1>0, <1>2, <1>5, <1>6, <2>1, TouchRuns
  <2>3. QED
    BY <1>9, <2>2, RamStep
<1>11. PICK b3 : Stands(b3, r1, NoCan, "calm") /\ Runs(opts, read("dirtied"), b2, b3)
                 /\ Sets(b2, b3, "dirtied", v1)
  BY <1>0, <1>4, <1>6, <1>10, ReadAllRuns
<1>12. PICK b4 : Stands(b4, r2, NoCan, "calm") /\ Runs(opts, reclaim, b3, b4) /\ Keeps(b3, b4)
  <2>1. b3 \in Known /\ b3.sur.of = "none"
    BY <1>11 DEF Stands
  <2>2. Runs(opts, reclaim, With(b3, r1), With(b3, r2))
    BY <1>0, <1>2, <1>3, <1>6, <1>7, <2>1, ReclaimRuns
  <2>3. QED
    BY <1>11, <2>2, RamStep
<1>13. PICK b5 : Stands(b5, r2, NoCan, "calm") /\ Runs(opts, read("reclaimed"), b4, b5)
                 /\ Sets(b4, b5, "reclaimed", v2)
  BY <1>0, <1>4, <1>7, <1>12, ReadAllRuns
<1>14. b5.regs["before"] = "zero" /\ b5.regs["dirtied"] = v1 /\ b5.regs["reclaimed"] = v2
  BY <1>8, <1>9, <1>10, <1>11, <1>12, <1>13 DEF Sets, Keeps, Reading
<1>15. \A n, c : c.of = "dirtied" /\ c.arg = "before" => RowFits(opts, n, c, b5.regs)
  <2>1. opts.touch # "read" => v1 = "full"
    BY <1>2, <1>4, ReclaimedAre
  <2>2. QED
    BY <1>0, <1>14, <2>1 DEF RowFits
<1>16. \A n, c : c.of = "reclaimed" /\ c.arg = "dirtied" => RowFits(opts, n, c, b5.regs)
  <2>1. opts.touch # "read" => v1 = "full"
    BY <1>2, <1>4, ReclaimedAre
  <2>2. \A n : (FullRow(opts, n) => opts.touch # "read" /\ v2 = "zero")
               /\ (NotRow(opts, n) => opts.touch # "read" /\ v2 = "full")
    BY <1>2, <1>3, <1>4, ReclaimedAre
  <2>3. QED
    BY <1>0, <1>14, <2>1, <2>2 DEF RowFits
<1>17. PICK b6 : Stands(b6, r2, NoCan, "calm") /\ Runs(opts, delta_mib("dirtied", "before"), b5, b6)
                 /\ b6.regs = b5.regs
  BY <1>0, <1>13, <1>15, RecordRuns
<1>18. PICK b7 : Stands(b7, r2, NoCan, "calm") /\ Runs(opts, delta_mib("reclaimed", "dirtied"), b6, b7)
  BY <1>0, <1>16, <1>17, RecordRuns
<1>19. PICK b8 : Stands(b8, r2, NoCan, "calm") /\ Runs(opts, let("last", "reclaimed"), b7, b8)
  BY <1>0, <1>18, LetRuns
<1>20. b8 \in BeforeCycle(i)
  BY <1>3, <1>7, <1>19 DEF BeforeCycle, Stands
<1>21. PICK h : h = pre \o let("before", "last") \o touch \o read("dirtied")
  OBVIOUS
<1>22. Runs(opts, h, a, b3)
  BY <1>8, <1>9, <1>10, <1>11, <1>21, RunsBoth
<1>23. PICK g : g = h \o reclaim \o read("reclaimed")
  OBVIOUS
<1>24. Runs(opts, g, a, b5)
  BY <1>12, <1>13, <1>22, <1>23, RunsBoth
<1>25. Runs(opts, g \o delta_mib("dirtied", "before") \o delta_mib("reclaimed", "dirtied")
                    \o let("last", "reclaimed"), a, b8)
  BY <1>17, <1>18, <1>19, <1>24, RunsBoth
<1>26. cycle(i) = g \o delta_mib("dirtied", "before") \o delta_mib("reclaimed", "dirtied")
                    \o let("last", "reclaimed")
  BY <1>1, <1>21, <1>23 DEF cycle
<1>27. QED
  BY <1>20, <1>25, <1>26

\* All the cycles.
LEMMA CyclesRun ==
  ASSUME opts \in ValidOptions, opts.tool = "plain", NEW a,
         Stands(a, Ram({"main"}, "none", "no", Page, "any"), NoCan, "calm"), a.regs["last"] = "zero"
  PROVE  \E b \in Known, k \in Kinds \ {"hole"}, pin \in {"yes", "no", "any"}, ink \in {"any", "host", "guest"} :
           /\ Stands(b, Ram({"main"}, k, pin, Page, ink), NoCan, "calm")
           /\ Runs(opts, Repeat(opts.repeat, [i \in 1..opts.repeat |-> cycle(i)]), a, b)
<1>1. opts.repeat \in Nat /\ opts.repeat # 0
  BY OptionsAre, RepeatAssumption
<1>2. PICK n \in Nat : n = opts.repeat /\ n # 0
  BY <1>1
<1>3. PICK P : P = [i \in 0..n |-> BeforeCycle(i)]
  OBVIOUS
<1>4. PICK part : part = [i \in 1..n |-> cycle(i)]
  OBVIOUS
<1>5. a \in P[0] /\ a \in Known
  BY <1>2, <1>3 DEF BeforeCycle, Stands
<1>6. ASSUME NEW i \in 1..n, NEW x \in P[i - 1] PROVE \E y \in P[i] : Runs(opts, part[i], x, y)
  <2>1. x \in BeforeCycle(i - 1) /\ i \in Nat \ {0} /\ P[i] = BeforeCycle(i) /\ part[i] = cycle(i)
    BY <1>2, <1>3, <1>4
  <2>2. QED
    BY <2>1, CycleRuns
<1>7. PICK b \in P[n] : Runs(opts, Repeat(n, part), a, b)
  BY <1>5, <1>6, RunsLoop
<1>8. b \in BeforeCycle(n)
  BY <1>2, <1>3
<1>9. b \in Known /\ \E k \in Kinds \ {"hole"}, pin \in {"yes", "no", "any"}, ink \in {"any", "host", "guest"} :
        Stands(b, Ram({"main"}, k, pin, Page, ink), NoCan, "calm")
  BY <1>2, <1>8 DEF BeforeCycle
<1>10. QED
  BY <1>2, <1>4, <1>7, <1>9

\* Canary::arm.
LEMMA ArmRuns ==
  ASSUME NEW o, o.tool # "fleet", NEW a, NEW names \in SUBSET {"main", "local"}, NEW k \in Kinds,
         NEW pin \in {"yes", "no", "any"}, NEW shown \in SUBSET Page, NEW ink \in {"any", "host", "guest"},
         Stands(a, Ram(names, k, pin, shown, ink), NoCan, "calm"), names = {} \/ k # "hole",
         NEW j, j = IF k = "hole" THEN "hole" ELSE "any"
  PROVE  \E b : /\ Stands(b, Ram(names, j, pin, shown, ink), Can(Page), "braced") /\ Keeps(a, b)
                /\ Runs(o, arm, a, b)
<1>1. PICK r \in RamKnown : r = Ram(names, k, pin, shown, ink)
  BY RamIs
<1>2. r.names = names /\ \A p \in Page : r.kind[p] = k
  BY <1>1, RamSays
<1>3. r.names = {} \/ \A p \in Page : r.kind[p] # "hole"
  BY <1>2
<1>4. PICK s : Stands(s, r, Can({}), "calm") /\ Keeps(a, s) /\ Runs(o, Do("mmap", "canary", Page), a, s)
  BY <1>1, <1>3, CanaryMmapRuns
<1>5. PICK t : Stands(t, r, Can(Page), "calm") /\ Keeps(s, t) /\ Runs(o, fill("canary"), s, t)
  BY <1>4, CanaryFillRuns
<1>6. PICK b : Stands(b, Braced(r), Can(Page), "braced") /\ Keeps(t, b)
               /\ Runs(o, madvise("canary", Page, "free"), t, b)
  BY <1>5, CanaryFreeRuns
<1>7. Braced(r) = Ram(names, j, pin, shown, ink)
  <2>1. Braced(Ram(names, k, pin, shown, ink))
          = Ram(names, IF k = "hole" THEN "hole" ELSE "any", pin, shown, ink)
    BY BracedAll
  <2>2. QED
    BY <1>1, <2>1
<1>8. Runs(o, arm, a, b)
  BY <1>4, <1>5, <1>6, RunsBoth DEF arm
<1>9. QED
  BY <1>4, <1>5, <1>6, <1>7, <1>8 DEF Keeps

\* parked_pressure_check, of RAM the guest has marked.
LEMMA ParkedRuns ==
  ASSUME NEW o, o.tool # "fleet", NEW a, NEW k \in Kinds, k # "hole",
         Stands(a, Ram({"main"}, k, "yes", Page, "guest"), NoCan, "calm")
  PROVE  \E b : /\ Stands(b, Ram({"main"}, "any", "yes", Page, "guest"), NoCan, "over")
                /\ Runs(o, parked_pressure_check, a, b)
<1>0. "last" \in Reading /\ {"main"} \in SUBSET {"main", "local"} /\ Page \in SUBSET Page
  BY DEF Reading
<1>1. PICK r \in RamKnown : r = Ram({"main"}, "any", "yes", Page, "guest")
  BY <1>0, RamIs, KindsStay
<1>2. PICK b1 : Stands(b1, r, Can(Page), "braced") /\ Runs(o, arm, a, b1)
  BY <1>0, <1>1, ArmRuns
<1>3. PICK s, b2 : Stands(b2, r, Can(Page), "over") /\ Runs(o, apply, b1, s) /\ Runs(o, drop_guard, s, b2)
  BY <1>2, PressureRuns
<1>4. PICK b3 : Stands(b3, r, Can(Page), "over") /\ Runs(o, read("last"), b2, b3)
  <2>1. PICK v \in {"zero", "full", "any"} : v = "any"
    OBVIOUS
  <2>2. QED
    BY <1>0, <1>3, <2>1, ReadRuns
<1>5. PICK b4 : Stands(b4, r, Can(Page), "over") /\ Runs(o, survey("canary", "host"), b3, b4)
  BY <1>4, CanarySurveyRuns
<1>6. Touched(r, Page) = r
  <2>1. TouchedKind("any") = "any"
    BY DEF TouchedKind
  <2>2. Touched(Ram({"main"}, "any", "yes", Page, "guest"), Page)
          = Ram({"main"}, TouchedKind("any"), "yes", Page, "guest")
    BY <1>0, TouchedAll, KindsStay
  <2>3. QED
    BY <1>1, <2>1, <2>2
<1>7. PICK b5 : Stands(b5, r, Can(Page), "over") /\ Runs(o, survey("main", "guest"), b4, b5)
  <2>1. r.names = {"main"} /\ \A p \in Page : r.ink[p] = "guest"
    BY <1>1, RamSays
  <2>2. "main" \in r.names
    BY <2>1
  <2>3. QED
    BY <1>5, <1>6, <2>1, <2>2, RamSurveyRuns
<1>8. PICK b : Stands(b, r, NoCan, "over") /\ Runs(o, disarm, b5, b)
  BY <1>7, DisarmRuns
<1>9. PICK h : h = arm \o apply \o drop_guard \o read("last")
  OBVIOUS
<1>10. Runs(o, h, a, b3)
  BY <1>2, <1>3, <1>4, <1>9, RunsBoth
<1>11. Runs(o, h \o survey("canary", "host") \o survey("main", "guest") \o disarm, a, b)
  BY <1>5, <1>7, <1>8, <1>10, RunsBoth
<1>12. QED
  BY <1>1, <1>8, <1>9, <1>11 DEF parked_pressure_check

\* Pass 2.
LEMMA Pass2Runs ==
  ASSUME opts \in ValidOptions, opts.tool = "plain", NEW a, NEW k \in Kinds, k # "hole",
         NEW pin \in {"yes", "no", "any"}, NEW ink \in {"any", "host", "guest"},
         Stands(a, Ram({"main"}, k, pin, Page, ink), NoCan, "calm")
  PROVE  \E b \in Known, r \in RamKnown, press \in {"calm", "over"} :
           Stands(b, r, NoCan, press) /\ r.names = {"main"} /\ Runs(opts, pass2, a, b)
<1>0. /\ "last" \in Reading /\ "retouched" \in Reading /\ {"main"} \in SUBSET {"main", "local"}
      /\ Page \in SUBSET Page /\ opts.tool # "fleet" /\ opts.tool # "time"
  BY DEF Reading
<1>1. PICK r \in RamKnown : r = Ram({"main"}, k, pin, Page, ink)
  BY <1>0, RamIs
<1>2. a \in Known /\ a.sur.of = "none"
  BY DEF Stands
<1>3. CASE opts.touch = "host" \/ opts.repeat > 1
  <2>1. pass2 = <<>> /\ Runs(opts, <<>>, a, a)
    BY <1>2, <1>3, RunsNothing DEF pass2
  <2>2. r.names = {"main"}
    BY <1>1, RamSays
  <2>3. QED
    BY <1>1, <1>2, <2>1, <2>2
<1>4. CASE ~(opts.touch = "host" \/ opts.repeat > 1)
  <2>1. PICK j \in Kinds : j = TouchedKind(k) /\ j # "hole"
    BY KindsStay DEF TouchedKind
  <2>2. PICK q \in RamKnown : q = Ram({"main"}, j, "yes", Page, "guest")
    BY <1>0, <2>1, RamIs
  <2>3. q.names = {"main"}
    BY <2>2, RamSays
  <2>4. PICK b1 : Stands(b1, q, NoCan, "calm") /\ Runs(opts, run_touch_pass, a, b1)
    <3>1. Runs(opts, run_touch_pass, With(a, r), With(a, q))
      BY <1>0, <1>1, <1>2, <2>1, <2>2, TouchPassRuns
    <3>2. QED
      BY <1>1, <3>1, RamStep
  <2>5. PICK b2 : Stands(b2, q, NoCan, "calm") /\ Runs(opts, read("retouched"), b1, b2)
    <3>1. PICK v \in {"zero", "full", "any"} : v = "any"
      OBVIOUS
    <3>2. QED
      BY <1>0, <2>4, <3>1, ReadRuns
  <2>6. \A n, c : c.of = "retouched" /\ c.arg = "last" => RowFits(opts, n, c, b2.regs)
    BY <1>0 DEF RowFits
  <2>7. PICK b3 : Stands(b3, q, NoCan, "calm") /\ Runs(opts, delta_mib("retouched", "last"), b2, b3)
    BY <1>0, <2>5, <2>6, RecordRuns
  <2>8. PICK u \in RamKnown, press \in {"calm", "over"}, b \in Known :
          /\ Stands(b, u, NoCan, press) /\ u.names = {"main"}
          /\ Runs(opts, IF opts.pressure_check THEN parked_pressure_check ELSE <<>>, b3, b)
    <3>1. CASE opts.pressure_check
      <4>1. PICK b : /\ Stands(b, Ram({"main"}, "any", "yes", Page, "guest"), NoCan, "over")
                     /\ Runs(opts, parked_pressure_check, b3, b)
        BY <1>0, <2>1, <2>2, <2>7, ParkedRuns
      <4>2. PICK u \in RamKnown : u = Ram({"main"}, "any", "yes", Page, "guest")
        BY <1>0, RamIs, KindsStay
      <4>3. u.names = {"main"}
        BY <4>2, RamSays
      <4>4. b \in Known
        BY <4>1 DEF Stands
      <4>5. QED
        BY <3>1, <4>1, <4>2, <4>3, <4>4
    <3>2. CASE ~opts.pressure_check
      <4>1. b3 \in Known
        BY <2>7 DEF Stands
      <4>2. Runs(opts, <<>>, b3, b3)
        BY <4>1, RunsNothing
      <4>3. QED
        BY <2>3, <2>7, <3>2, <4>1, <4>2
    <3>3. QED
      BY <3>1, <3>2
  <2>9. PICK h : h = IF opts.pressure_check THEN parked_pressure_check ELSE <<>>
    OBVIOUS
  <2>10. pass2 = run_touch_pass \o read("retouched") \o delta_mib("retouched", "last") \o h
    BY <1>4, <2>9 DEF pass2
  <2>11. Runs(opts, pass2, a, b)
    BY <2>4, <2>5, <2>7, <2>8, <2>9, <2>10, RunsBoth
  <2>12. QED
    BY <2>8, <2>11
<1>5. QED
  BY <1>3, <1>4

\* Before anything is allocated, and after everything is given back.
Empty(a, names, press) == Stands(a, Ram(names, "hole", "no", {}, "any"), NoCan, press)

\* A tool that has given everything back leaves nothing.
LEMMA EmptyIsFinal ==
  ASSUME NEW e, NEW names, NEW press \in {"calm", "over"}, Empty(e, names, press)
  PROVE  e \in Known /\ Final(e)
<1>1. PICK r : r = Ram(names, "hole", "no", {}, "any")
  OBVIOUS
<1>2. r.shown = {} /\ \A p \in Page : r.kind[p] = "hole"
  BY <1>1, RamSays
<1>3. e \in Known /\ e.ram = r /\ e.can = NoCan /\ e.press = press /\ e.sampling = "off"
  BY <1>1 DEF Empty, Stands
<1>4. QED
  BY <1>2, <1>3 DEF Final, NoCan

\* teardown, of a tool that is not the fleet simulation.
LEMMA TearsDown ==
  ASSUME NEW o, o.tool # "fleet", NEW a, NEW r \in RamKnown, NEW press,
         Stands(a, r, NoCan, press), "main" \in r.names
  PROVE  \E b : Empty(b, r.names, press) /\ Runs(o, teardown, a, b)
<1>1. a \in Known /\ a.sur.of = "none"
  BY DEF Stands
<1>2. \A x : OnGoal(o, x)
  BY DEF OnGoal
<1>3. PICK q \in RamKnown : q = Ram(r.names, "hole", "no", {}, "any")
  BY Parts, RamIs, KindsStay
<1>4. Runs(o, teardown, With(a, r), With(a, q))
  BY <1>1, <1>2, <1>3, TeardownRuns
<1>5. \E b : Stands(b, q, NoCan, press) /\ Runs(o, teardown, a, b)
  BY <1>4, RamStep
<1>6. QED
  BY <1>3, <1>5 DEF Empty

\* hv-reclaim's plain run.
LEMMA PlainRuns ==
  ASSUME opts \in ValidOptions, opts.tool = "plain", NEW a, Empty(a, {}, "calm")
  PROVE  \E e \in Known : Runs(opts, plain_run, a, e) /\ Final(e)
<1>0. /\ "last" \in Reading /\ {"main"} \in SUBSET {"main", "local"} /\ {} \in SUBSET {"main", "local"}
      /\ Page \in SUBSET Page /\ {} \in SUBSET Page /\ opts.tool # "fleet"
  BY DEF Reading
<1>1. PICK r0 \in RamKnown : r0 = Ram({}, "hole", "no", {}, "any")
  BY <1>0, RamIs, KindsStay
<1>2. PICK r1 \in RamKnown : r1 = Ram({"main"}, "none", "no", Page, "any")
  BY <1>0, RamIs, KindsStay
<1>3. Stands(a, r0, NoCan, "calm")
  BY <1>1 DEF Empty
<1>4. PICK b1 : Stands(b1, r0, NoCan, "calm") /\ Runs(opts, read("last"), a, b1)
  BY <1>0, <1>1, <1>3, ReadAllRuns
<1>5. PICK b2 : Stands(b2, r1, NoCan, "calm") /\ Runs(opts, setup, b1, b2)
  <2>1. b1 \in Known /\ b1.sur.of = "none" /\ b1.press = "calm"
    BY <1>4 DEF Stands
  <2>2. Runs(opts, setup, With(b1, r0), With(b1, r1))
    BY <1>0, <1>1, <1>2, <2>1, SetupRuns
  <2>3. QED
    BY <1>4, <2>2, RamStep
<1>6. PICK b3 : /\ Stands(b3, r1, NoCan, "calm") /\ Runs(opts, read("last"), b2, b3)
                /\ Sets(b2, b3, "last", ReadingOf("none"))
  BY <1>0, <1>2, <1>5, ReadAllRuns
<1>7. b3.regs["last"] = "zero"
  BY <1>6 DEF Sets, Reading, ReadingOf
<1>8. PICK p : p = Repeat(opts.repeat, [i \in 1..opts.repeat |-> cycle(i)])
  OBVIOUS
<1>9. PICK b4 \in Known, k \in Kinds \ {"hole"}, pin \in {"yes", "no", "any"}, ink \in {"any", "host", "guest"} :
        Stands(b4, Ram({"main"}, k, pin, Page, ink), NoCan, "calm") /\ Runs(opts, p, b3, b4)
  BY <1>2, <1>6, <1>7, <1>8, CyclesRun
<1>10. PICK b5 \in Known, r \in RamKnown, press \in {"calm", "over"} :
         Stands(b5, r, NoCan, press) /\ r.names = {"main"} /\ Runs(opts, pass2, b4, b5)
  BY <1>9, Pass2Runs
<1>11. PICK e : Empty(e, r.names, press) /\ Runs(opts, teardown, b5, e)
  <2>1. "main" \in r.names
    BY <1>10
  <2>2. QED
    BY <1>0, <1>10, <2>1, TearsDown
<1>12. PICK h : h = read("last") \o setup \o read("last") \o p
  OBVIOUS
<1>13. Runs(opts, h, a, b4)
  BY <1>4, <1>5, <1>6, <1>9, <1>12, RunsBoth
<1>14. Runs(opts, h \o pass2 \o teardown, a, e)
  BY <1>10, <1>11, <1>13, RunsBoth
<1>15. plain_run = h \o pass2 \o teardown
  BY <1>8, <1>12 DEF plain_run
<1>16. e \in Known /\ Final(e)
  BY <1>11, EmptyIsFinal
<1>17. QED
  BY <1>14, <1>15, <1>16

-----------------------------------------------------------------------------
(* The tools without a guest. *)

\* The pressure phase of vz-ratchet.
LEMMA VzRuns ==
  ASSUME NEW o, o.tool # "fleet", NEW a, Empty(a, {}, "calm")
  PROVE  \E e \in Known : Runs(o, vz_pressure, a, e) /\ Final(e)
<1>0. {} \in SUBSET {"main", "local"} /\ {} \in SUBSET Page
  OBVIOUS
<1>1. PICK r \in RamKnown : r = Ram({}, "hole", "no", {}, "any")
  BY <1>0, RamIs, KindsStay
<1>2. PICK b1 : Stands(b1, r, Can(Page), "braced") /\ Runs(o, arm, a, b1)
  <2>1. Stands(a, Ram({}, "hole", "no", {}, "any"), NoCan, "calm")
    BY DEF Empty
  <2>2. QED
    BY <1>0, <1>1, <2>1, ArmRuns, KindsStay
<1>3. PICK s, b2 : Stands(b2, r, Can(Page), "over") /\ Runs(o, apply, b1, s) /\ Runs(o, drop_guard, s, b2)
  BY <1>2, PressureRuns
<1>4. PICK b3 : Stands(b3, r, Can(Page), "over") /\ Runs(o, survey("canary", "host"), b2, b3)
  BY <1>3, CanarySurveyRuns
<1>5. PICK e : Stands(e, r, NoCan, "over") /\ Runs(o, disarm, b3, e)
  BY <1>4, DisarmRuns
<1>6. PICK h : h = arm \o apply \o drop_guard
  OBVIOUS
<1>7. Runs(o, h, a, b2)
  BY <1>2, <1>3, <1>6, RunsBoth
<1>8. Runs(o, h \o survey("canary", "host") \o disarm, a, e)
  BY <1>4, <1>5, <1>7, RunsBoth
<1>9. vz_pressure = h \o survey("canary", "host") \o disarm
  BY <1>6 DEF vz_pressure
<1>10. Empty(e, {}, "over")
  BY <1>1, <1>5 DEF Empty
<1>11. e \in Known /\ Final(e)
  BY <1>10, EmptyIsFinal
<1>12. QED
  BY <1>8, <1>9, <1>11

\* mmap of a buffer, when there is none.
LEMMA BufferRuns ==
  ASSUME NEW o, o.tool # "fleet", NEW a, NEW names \in SUBSET {"main", "local"}, NEW can,
         Stands(a, Ram(names, "hole", "no", {}, "any"), can, "calm")
  PROVE  \E b : /\ Stands(b, Ram({"main"}, "none", "no", {}, "any"), can, "calm") /\ Keeps(a, b)
                /\ Runs(o, Do("mmap", "main", Page), a, b)
<1>0. "main" \in {"main", "local"} /\ {"main"} \in SUBSET {"main", "local"} /\ {} \in SUBSET Page
  OBVIOUS
<1>1. PICK r \in RamKnown : r = Ram(names, "hole", "no", {}, "any")
  BY <1>0, RamIs, KindsStay
<1>2. PICK q \in RamKnown : q = Ram({"main"}, "none", "no", {}, "any")
  BY <1>0, RamIs, KindsStay
<1>3. r.shown = {} /\ \A p \in Page : r.kind[p] = "hole" /\ r.pin[p] = "no"
  BY <1>1, RamSays
<1>4. \A x : OnGoal(o, x)
  BY DEF OnGoal
<1>5. a \in Known /\ a.sur.of = "none" /\ a.press = "calm"
  BY DEF Stands
<1>6. Runs(o, Do("mmap", "main", Page), With(a, r), With(a, q))
  BY <1>0, <1>2, <1>3, <1>4, <1>5, MmapRuns
<1>7. Stands(a, r, can, "calm")
  BY <1>1
<1>8. \E b : Stands(b, q, can, "calm") /\ Keeps(a, b) /\ Runs(o, Do("mmap", "main", Page), a, b)
  BY <1>6, <1>7, RamStep
<1>9. QED
  BY <1>2, <1>8

\* munmap of a buffer.
LEMMA ReleaseRuns ==
  ASSUME NEW o, o.tool # "fleet", NEW a, NEW k \in Kinds, NEW ink \in {"any", "host", "guest"}, NEW press,
         Stands(a, Ram({"main"}, k, "no", {}, ink), NoCan, press)
  PROVE  \E b : Empty(b, {"main"}, press) /\ Keeps(a, b) /\ Runs(o, Do("munmap", "main", Page), a, b)
<1>0. Page \in SUBSET Page /\ {"main"} \in SUBSET {"main", "local"} /\ {} \in SUBSET Page
  OBVIOUS
<1>1. PICK r \in RamKnown : r = Ram({"main"}, k, "no", {}, ink)
  BY <1>0, RamIs
<1>2. PICK q \in RamKnown : q = Ram({"main"}, "hole", "no", {}, "any")
  BY <1>0, RamIs, KindsStay
<1>3. r.shown = {} /\ r.names = {"main"}
  BY <1>1, RamSays
<1>4. "main" \in r.names /\ Page \cap r.shown = {}
  BY <1>3
<1>5. \A x : OnGoal(o, x)
  BY DEF OnGoal
<1>6. a \in Known /\ a.sur.of = "none"
  BY DEF Stands
<1>7. Dropped(r, Page) = q
  BY <1>0, <1>1, <1>2, DroppedAll
<1>8. Runs(o, Do("munmap", "main", Page), With(a, r), With(a, q))
  BY <1>0, <1>4, <1>5, <1>6, <1>7, MunmapRuns
<1>9. \E b : Stands(b, q, NoCan, press) /\ Keeps(a, b) /\ Runs(o, Do("munmap", "main", Page), a, b)
  BY <1>1, <1>8, RamStep
<1>10. QED
  BY <1>2, <1>9 DEF Empty

\* A buffer the guest does not have is filled.
LEMMA BufferFillRuns ==
  ASSUME NEW o, o.tool # "fleet", NEW a, NEW can, NEW press,
         Stands(a, Ram({"main"}, "none", "no", {}, "any"), can, press)
  PROVE  \E b : /\ Stands(b, Ram({"main"}, "charged", "no", {}, "host"), can, press) /\ Keeps(a, b)
                /\ Runs(o, fill("main"), a, b)
<1>0. "main" \in {"main"} /\ {"main"} \in SUBSET {"main", "local"} /\ {} \in SUBSET Page
      /\ TouchedKind("none") = "charged"
  BY DEF TouchedKind
<1>1. PICK r \in RamKnown : r = Ram({"main"}, "none", "no", {}, "any")
  BY <1>0, RamIs, KindsStay
<1>2. PICK q \in RamKnown : q = Ram({"main"}, "charged", "no", {}, "host")
  BY <1>0, RamIs, KindsStay
<1>3. a \in Known /\ a.sur.of = "none"
  BY DEF Stands
<1>4. Runs(o, fill("main"), With(a, Ram({"main"}, "none", "no", {}, "any")),
                            With(a, Ram({"main"}, TouchedKind("none"), "no", {}, "host")))
  BY <1>0, <1>3, FillPassRuns, KindsStay
<1>5. Runs(o, fill("main"), With(a, r), With(a, q))
  BY <1>0, <1>1, <1>2, <1>4
<1>6. \E b : Stands(b, q, can, press) /\ Keeps(a, b) /\ Runs(o, fill("main"), a, b)
  BY <1>1, <1>5, RamStep
<1>7. QED
  BY <1>2, <1>6

\* pressure-discard.
LEMMA DiscardRuns ==
  ASSUME NEW o, o.tool # "fleet", NEW a, Empty(a, {}, "calm")
  PROVE  \E e \in Known : Runs(o, pressure_discard, a, e) /\ Final(e)
<1>0. /\ {} \in SUBSET {"main", "local"} /\ {"main"} \in SUBSET {"main", "local"}
      /\ {} \in SUBSET Page /\ Page \in SUBSET Page /\ "before" \in Reading /\ "last" \in Reading
  BY DEF Reading
<1>1. PICK r0 \in RamKnown : r0 = Ram({}, "hole", "no", {}, "any")
  BY <1>0, RamIs, KindsStay
<1>2. PICK r1 \in RamKnown : r1 = Ram({"main"}, "none", "no", {}, "any")
  BY <1>0, RamIs, KindsStay
<1>3. PICK r2 \in RamKnown : r2 = Ram({"main"}, "charged", "no", {}, "host")
  BY <1>0, RamIs, KindsStay
<1>4. PICK r3 \in RamKnown : r3 = Ram({"main"}, "any", "no", {}, "host")
  BY <1>0, RamIs, KindsStay
<1>5. PICK v \in {"zero", "full", "any"} : v = "any"
  OBVIOUS
<1>6. PICK b1 : Stands(b1, r0, Can({}), "calm") /\ Runs(o, Do("mmap", "canary", Page), a, b1)
  <2>1. Stands(a, r0, NoCan, "calm")
    BY <1>1 DEF Empty
  <2>2. r0.names = {}
    BY <1>1, RamSays
  <2>3. QED
    BY <2>1, <2>2, CanaryMmapRuns
<1>7. PICK b2 : Stands(b2, r1, Can({}), "calm") /\ Runs(o, Do("mmap", "main", Page), b1, b2)
  BY <1>0, <1>1, <1>2, <1>6, BufferRuns
<1>8. PICK b3 : Stands(b3, r1, Can(Page), "calm") /\ Runs(o, fill("canary"), b2, b3)
  BY <1>7, CanaryFillRuns
<1>9. PICK b4 : Stands(b4, r2, Can(Page), "calm") /\ Runs(o, fill("main"), b3, b4)
  BY <1>2, <1>3, <1>8, BufferFillRuns
<1>10. PICK b5 : Stands(b5, r3, Can(Page), "braced") /\ Runs(o, madvise("canary", Page, "free"), b4, b5)
  <2>1. Braced(Ram({"main"}, "charged", "no", {}, "host"))
          = Ram({"main"}, IF "charged" = "hole" THEN "hole" ELSE "any", "no", {}, "host")
    BY <1>0, BracedAll, KindsStay
  <2>2. Braced(r2) = r3
    BY <1>3, <1>4, <2>1
  <2>3. QED
    BY <1>9, <2>2, CanaryFreeRuns
<1>11. PICK b6 : Stands(b6, r3, Can(Page), "braced") /\ Runs(o, read("before"), b5, b6)
  BY <1>0, <1>5, <1>10, ReadRuns
<1>12. PICK s, b7 : Stands(b7, r3, Can(Page), "over") /\ Runs(o, apply, b6, s) /\ Runs(o, drop_guard, s, b7)
  BY <1>11, PressureRuns
<1>13. PICK b8 : Stands(b8, r3, Can(Page), "over") /\ Runs(o, read("last"), b7, b8)
  BY <1>0, <1>5, <1>12, ReadRuns
<1>14. PICK b9 : Stands(b9, r3, Can(Page), "over") /\ Runs(o, survey("canary", "host"), b8, b9)
  BY <1>13, CanarySurveyRuns
<1>15. PICK b10 : Stands(b10, r3, Can(Page), "over") /\ Runs(o, survey("main", "host"), b9, b10)
  <2>1. TouchedKind("any") = "any"
    BY DEF TouchedKind
  <2>2. Touched(Ram({"main"}, "any", "no", {}, "host"), Page) = Ram({"main"}, TouchedKind("any"), "no", {}, "host")
    BY <1>0, TouchedAll, KindsStay
  <2>3. Touched(r3, Page) = r3
    BY <1>4, <2>1, <2>2
  <2>4. r3.names = {"main"} /\ \A p \in Page : r3.ink[p] = "host"
    BY <1>4, RamSays
  <2>5. "main" \in r3.names
    BY <2>4
  <2>6. QED
    BY <1>14, <2>3, <2>4, <2>5, RamSurveyRuns
<1>16. PICK b11 : Stands(b11, r3, NoCan, "over") /\ Runs(o, disarm, b10, b11)
  BY <1>15, DisarmRuns
<1>17. PICK e : Empty(e, {"main"}, "over") /\ Runs(o, Do("munmap", "main", Page), b11, e)
  BY <1>4, <1>16, ReleaseRuns, KindsStay
<1>18. PICK h : h = Do("mmap", "canary", Page) \o Do("mmap", "main", Page) \o fill("canary") \o fill("main")
  OBVIOUS
<1>19. Runs(o, h, a, b4)
  BY <1>6, <1>7, <1>8, <1>9, <1>18, RunsBoth
<1>20. PICK g : g = h \o madvise("canary", Page, "free") \o read("before") \o apply \o drop_guard
  OBVIOUS
<1>21. Runs(o, g, a, b7)
  BY <1>10, <1>11, <1>12, <1>19, <1>20, RunsBoth
<1>22. PICK f : f = g \o read("last") \o survey("canary", "host") \o survey("main", "host")
  OBVIOUS
<1>23. Runs(o, f, a, b10)
  BY <1>13, <1>14, <1>15, <1>21, <1>22, RunsBoth
<1>24. Runs(o, f \o disarm \o Do("munmap", "main", Page), a, e)
  BY <1>16, <1>17, <1>23, RunsBoth
<1>25. pressure_discard = f \o disarm \o Do("munmap", "main", Page)
  BY <1>18, <1>20, <1>22 DEF pressure_discard
<1>26. e \in Known /\ Final(e)
  BY <1>17, EmptyIsFinal
<1>27. QED
  BY <1>24, <1>25, <1>26

\* One advice of calibrate-madvise: its rows fit, the last of the three only moves the footprint.
LEMMA CalibrateRuns ==
  ASSUME opts.tool = "calibrate", NEW a, NEW names \in SUBSET {"main", "local"}, Empty(a, names, "calm"),
         NEW advice \in {"dontneed", "free", "reusable"}, NEW n \in Nat, a.n = n,
         advice = "reusable" <=> n + 2 = 6
  PROVE  \E b : Empty(b, {"main"}, "calm") /\ b.n = n + 2 /\ Runs(opts, calibrate(advice), a, b)
<1>0. /\ {"main"} \in SUBSET {"main", "local"} /\ {} \in SUBSET Page /\ Page \in SUBSET Page
      /\ "before" \in Reading /\ "dirtied" \in Reading /\ "reclaimed" \in Reading
      /\ opts.tool # "fleet" /\ opts.tool # "time" /\ opts.tool # "plain"
  BY DEF Reading
<1>1. PICK r0 \in RamKnown : r0 = Ram(names, "hole", "no", {}, "any")
  BY <1>0, RamIs, KindsStay
<1>2. PICK r1 \in RamKnown : r1 = Ram({"main"}, "none", "no", {}, "any")
  BY <1>0, RamIs, KindsStay
<1>3. PICK r2 \in RamKnown : r2 = Ram({"main"}, "charged", "no", {}, "host")
  BY <1>0, RamIs, KindsStay
<1>4. PICK k \in Kinds : k = Aside("charged", "no", advice)
  BY AdvisedStays, KindsStay
<1>5. PICK r3 \in RamKnown : r3 = Ram({"main"}, k, "no", {}, "host")
  BY <1>0, RamIs
<1>6. PICK v : v = ReadingOf(k)
  OBVIOUS
<1>7. (advice = "reusable" => v = "zero") /\ (advice # "reusable" => v = "full")
  BY <1>4, <1>6 DEF ReadingOf, Aside, AdvisedKind
<1>8. PICK b1 : Stands(b1, r0, NoCan, "calm") /\ Runs(opts, read("before"), a, b1)
                /\ Sets(a, b1, "before", ReadingOf("hole"))
  BY <1>0, <1>1, ReadAllRuns DEF Empty
<1>9. PICK b2 : Stands(b2, r1, NoCan, "calm") /\ Keeps(b1, b2) /\ Runs(opts, Do("mmap", "main", Page), b1, b2)
  BY <1>0, <1>1, <1>2, <1>8, BufferRuns
<1>10. PICK b3 : Stands(b3, r2, NoCan, "calm") /\ Keeps(b2, b3) /\ Runs(opts, fill("main"), b2, b3)
  BY <1>0, <1>2, <1>3, <1>9, BufferFillRuns
<1>11. PICK b4 : Stands(b4, r2, NoCan, "calm") /\ Runs(opts, read("dirtied"), b3, b4)
                 /\ Sets(b3, b4, "dirtied", ReadingOf("charged"))
  BY <1>0, <1>3, <1>10, ReadAllRuns
<1>12. PICK b5 : Stands(b5, r3, NoCan, "calm") /\ Keeps(b4, b5) /\ Runs(opts, madvise("main", Page, advice), b4, b5)
  <2>1. Advised(Ram({"main"}, "charged", "no", {}, "host"), Page, advice) = Ram({"main"}, k, "no", {}, "host")
    BY <1>0, <1>4, AdvisedHiddenAll, KindsStay
  <2>2. Advised(r2, Page, advice) = r3
    BY <1>3, <1>5, <2>1
  <2>3. b4 \in Known /\ b4.sur.of = "none"
    BY <1>11 DEF Stands
  <2>4. r2.names = {"main"}
    BY <1>3, RamSays
  <2>5. "main" \in r2.names
    BY <2>4
  <2>6. \A x : OnGoal(opts, x)
    BY <1>0 DEF OnGoal
  <2>7. Runs(opts, madvise("main", Page, advice), With(b4, r2), With(b4, r3))
    BY <1>0, <2>2, <2>3, <2>5, <2>6, AdviseRuns
  <2>8. QED
    BY <1>11, <2>7, RamStep
<1>13. PICK b6 : Stands(b6, r3, NoCan, "calm") /\ Runs(opts, read("reclaimed"), b5, b6)
                 /\ Sets(b5, b6, "reclaimed", v)
  BY <1>0, <1>5, <1>6, <1>12, ReadAllRuns
<1>14. b6.regs["before"] = "zero" /\ b6.regs["dirtied"] = "full" /\ b6.regs["reclaimed"] = v /\ b6.n = n
  BY <1>8, <1>9, <1>10, <1>11, <1>12, <1>13 DEF Sets, Keeps, Reading, ReadingOf
<1>15. \A c, i : c.of = "dirtied" /\ c.arg = "before" => RowFits(opts, i, c, b6.regs)
  BY <1>0, <1>14 DEF RowFits
<1>16. \A c : c.of = "reclaimed" /\ c.arg = "dirtied" => RowFits(opts, n + 2, c, b6.regs)
  <2>1. (FullRow(opts, n + 2) => n + 2 = 6) /\ (NotRow(opts, n + 2) => n + 2 # 6)
    BY <1>0 DEF FullRow, NotRow
  <2>2. (FullRow(opts, n + 2) => v = "zero") /\ (NotRow(opts, n + 2) => v = "full")
    BY <1>7, <2>1
  <2>3. QED
    BY <1>0, <1>14, <2>2 DEF RowFits
<1>17. PICK b7 : /\ Stands(b7, r3, NoCan, "calm") /\ Runs(opts, delta_mib("dirtied", "before"), b6, b7)
                 /\ b7.regs = b6.regs /\ b7.n = b6.n + 1
  BY <1>0, <1>13, <1>15, RecordRuns
<1>18. b7.n = n + 1 /\ b7.n + 1 = n + 2
  BY <1>14, <1>17
<1>19. PICK b8 : /\ Stands(b8, r3, NoCan, "calm") /\ Runs(opts, delta_mib("reclaimed", "dirtied"), b7, b8)
                 /\ b8.n = n + 2
  BY <1>0, <1>16, <1>17, <1>18, RecordRuns
<1>20. PICK b : /\ Empty(b, {"main"}, "calm") /\ Keeps(b8, b) /\ Runs(opts, Do("munmap", "main", Page), b8, b)
  BY <1>0, <1>5, <1>19, ReleaseRuns
<1>21. PICK h : h = read("before") \o Do("mmap", "main", Page) \o fill("main") \o read("dirtied")
  OBVIOUS
<1>22. Runs(opts, h, a, b4)
  BY <1>8, <1>9, <1>10, <1>11, <1>21, RunsBoth
<1>23. PICK g : g = h \o madvise("main", Page, advice) \o read("reclaimed")
  OBVIOUS
<1>24. Runs(opts, g, a, b6)
  BY <1>12, <1>13, <1>22, <1>23, RunsBoth
<1>25. Runs(opts, g \o delta_mib("dirtied", "before") \o delta_mib("reclaimed", "dirtied")
                    \o Do("munmap", "main", Page), a, b)
  BY <1>17, <1>19, <1>20, <1>24, RunsBoth
<1>26. calibrate(advice) = g \o delta_mib("dirtied", "before") \o delta_mib("reclaimed", "dirtied")
                             \o Do("munmap", "main", Page)
  BY <1>21, <1>23 DEF calibrate
<1>27. QED
  BY <1>19, <1>20, <1>25, <1>26 DEF Keeps

\* calibrate-madvise.
LEMMA CalibrateMadviseRuns ==
  ASSUME opts.tool = "calibrate", NEW a, Empty(a, {}, "calm"), a.n = 0
  PROVE  \E e \in Known : Runs(opts, calibrate_madvise, a, e) /\ Final(e)
<1>0. {} \in SUBSET {"main", "local"} /\ {"main"} \in SUBSET {"main", "local"}
  OBVIOUS
<1>1. PICK b1 : Empty(b1, {"main"}, "calm") /\ b1.n = 2 /\ Runs(opts, calibrate("dontneed"), a, b1)
  BY <1>0, CalibrateRuns
<1>2. PICK b2 : Empty(b2, {"main"}, "calm") /\ b2.n = 4 /\ Runs(opts, calibrate("free"), b1, b2)
  BY <1>0, <1>1, CalibrateRuns
<1>3. PICK e : Empty(e, {"main"}, "calm") /\ Runs(opts, calibrate("reusable"), b2, e)
  BY <1>0, <1>2, CalibrateRuns
<1>4. Runs(opts, calibrate_madvise, a, e)
  BY <1>1, <1>2, <1>3, RunsBoth DEF calibrate_madvise
<1>5. QED
  BY <1>3, <1>4, EmptyIsFinal

-----------------------------------------------------------------------------
(* --time-reclaim. *)

\* Multiples keep the order.
LEMMA Multiples ==
  ASSUME NEW x \in Nat, NEW i \in Nat, NEW n \in Nat, i <= n
  PROVE  i * x \in Nat /\ n * x \in Nat /\ i * x <= n * x /\ (i + 1) * x = i * x + x
<1>1. PICK d \in Nat : n = i + d
  <2>1. n - i \in Nat /\ n = i + (n - i)
    OBVIOUS
  <2>2. QED
    BY <2>1
<1>2. d * x \in Nat /\ i * x \in Nat
  OBVIOUS
<1>3. n * x = i * x + d * x
  BY <1>1
<1>4. (i + 1) * x = i * x + x
  OBVIOUS
<1>5. QED
  BY <1>2, <1>3, <1>4

\* The next span of a multiple.
LEMMA NextSpan ==
  ASSUME NEW x \in Nat, NEW n \in Nat, n * x <= Pages, NEW i \in 1..n
  PROVE  /\ (i - 1) * x \in 0..Pages /\ i * x \in (i - 1) * x..Pages /\ i * x \in 0..Pages
         /\ i * x = (i - 1) * x + x
         /\ Span(0, (i - 1) * x) \in SUBSET Page /\ Span((i - 1) * x, i * x) \in SUBSET Page
         /\ Span(0, i * x) = Span(0, (i - 1) * x) \cup Span((i - 1) * x, i * x)
         /\ Span(0, (i - 1) * x) \cap Span((i - 1) * x, i * x) = {}
<1>1. PICK j \in Nat : j = i - 1 /\ i = j + 1 /\ j <= n /\ i \in Nat /\ i <= n
  <2>1. i - 1 \in Nat /\ i - 1 <= n /\ i \in Nat /\ i <= n /\ i = (i - 1) + 1
    OBVIOUS
  <2>2. QED
    BY <2>1
<1>2. j * x \in Nat /\ i * x = j * x + x
  BY <1>1, Multiples
<1>3. i * x <= n * x /\ n * x \in Nat /\ i * x \in Nat
  BY <1>1, Multiples
<1>4. PICK lo \in Nat, hi \in Nat : lo = j * x /\ hi = i * x /\ hi = lo + x /\ hi <= Pages
  BY <1>2, <1>3, MachineAssumption
<1>5. lo \in 0..Pages /\ hi \in lo..Pages /\ hi \in 0..Pages
  BY <1>4, MachineAssumption
<1>6. /\ Span(0, lo) \in SUBSET Page /\ Span(lo, hi) \in SUBSET Page
      /\ Span(0, hi) = Span(0, lo) \cup Span(lo, hi)
      /\ Span(0, lo) \cap Span(lo, hi) = {}
  BY <1>4, MachineAssumption DEF Span, Page
<1>7. QED
  BY <1>1, <1>4, <1>5, <1>6

\* RAM of which the extents in ps are reclaimed.
Ext(names, k, after, ink, ps) ==
  [names |-> names, kind |-> [p \in Page |-> IF p \in ps THEN after ELSE k],
   pin |-> [p \in Page |-> IF p \in ps THEN "no" ELSE "yes"], shown |-> Page,
   ink |-> [p \in Page |-> IF p \in ps THEN ink ELSE "guest"]]

\* It is a description of RAM.
LEMMA ExtIs ==
  ASSUME NEW names \in SUBSET {"main", "local"}, NEW k \in Kinds, NEW after \in Kinds,
         NEW ink \in {"any", "host", "guest"}, NEW ps \in SUBSET Page
  PROVE  Ext(names, k, after, ink, ps) \in RamKnown
  BY DEF Ext, RamKnown

\* What it says.
LEMMA ExtSays ==
  ASSUME NEW names, NEW k, NEW after, NEW ink, NEW ps
  PROVE  /\ Ext(names, k, after, ink, ps).names = names /\ Ext(names, k, after, ink, ps).shown = Page
         /\ \A p \in Page : Ext(names, k, after, ink, ps).kind[p] = IF p \in ps THEN after ELSE k
         /\ \A p \in Page : Ext(names, k, after, ink, ps).pin[p] = IF p \in ps THEN "no" ELSE "yes"
         /\ \A p \in Page : Ext(names, k, after, ink, ps).ink[p] = IF p \in ps THEN ink ELSE "guest"
  BY DEF Ext

\* It is uniform before the first extent and after the last.
LEMMA ExtEnds ==
  ASSUME NEW names, NEW k, NEW after, NEW ink
  PROVE  /\ Ext(names, k, after, ink, {}) = Ram(names, k, "yes", Page, "guest")
         /\ Ext(names, k, after, ink, Page) = Ram(names, after, "no", Page, ink)
<1>1. Ext(names, k, after, ink, {}) = Ram(names, k, "yes", Page, "guest")
  BY DEF Ext, Ram, All
<1>2. Ext(names, k, after, ink, Page) = Ram(names, after, "no", Page, ink)
  BY DEF Ext, Ram, All
<1>3. QED
  BY <1>1, <1>2

\* What reclaiming an extent of pinned pages leaves.
ExtentKind(k) ==
  IF opts.mode = "reusable" THEN Aside(HiddenKind(k, "yes"), "no", opts.advice) ELSE "none"

ExtentInk == IF opts.mode = "reusable" THEN "guest" ELSE "any"

\* t is r with an extent reclaimed that the guest is not shown yet.
Turned(r, t, qs, after, ink) ==
  /\ t.names = r.names /\ t.shown = r.shown \ qs
  /\ \A p \in Page : t.kind[p] = IF p \in qs THEN after ELSE r.kind[p]
  /\ \A p \in Page : t.pin[p] = IF p \in qs THEN "no" ELSE r.pin[p]
  /\ \A p \in Page : t.ink[p] = IF p \in qs THEN ink ELSE r.ink[p]

\* The RAM, extent by extent.
LEMMA ExtentLeaves ==
  ASSUME NEW names \in SUBSET {"main", "local"}, NEW k \in Kinds, NEW after \in Kinds,
         NEW ink \in {"any", "host", "guest"},
         NEW ps \in SUBSET Page, NEW qs \in SUBSET Page, ps \cap qs = {},
         NEW r \in RamKnown, r = Ext(names, k, after, ink, ps),
         NEW t \in RamKnown, Turned(r, t, qs, after, ink)
  PROVE  Shown(t, qs) = Ext(names, k, after, ink, ps \cup qs)
<1>0. PICK xs \in SUBSET Page : xs = ps \cup qs
  OBVIOUS
<1>1. PICK u \in RamKnown : u = Shown(t, qs)
  BY ShownDoes
<1>2. PICK w \in RamKnown : w = Ext(names, k, after, ink, xs)
  BY ExtIs
<1>3. /\ w.names = names /\ w.shown = Page
      /\ \A p \in Page : w.kind[p] = IF p \in xs THEN after ELSE k
      /\ \A p \in Page : w.pin[p] = IF p \in xs THEN "no" ELSE "yes"
      /\ \A p \in Page : w.ink[p] = IF p \in xs THEN ink ELSE "guest"
  BY <1>2, ExtSays
<1>4. /\ r.names = names /\ r.shown = Page
      /\ \A p \in Page : r.kind[p] = IF p \in ps THEN after ELSE k
      /\ \A p \in Page : r.pin[p] = IF p \in ps THEN "no" ELSE "yes"
      /\ \A p \in Page : r.ink[p] = IF p \in ps THEN ink ELSE "guest"
  BY ExtSays
<1>5. u.names = t.names /\ u.shown = t.shown \cup qs
  BY <1>1, ShownDoes
<1>6. \A p \in Page : u.kind[p] = t.kind[p] /\ u.pin[p] = t.pin[p] /\ u.ink[p] = t.ink[p]
  BY <1>1, ShownDoes
<1>7. u.names = w.names /\ u.shown = w.shown
  BY <1>3, <1>4, <1>5 DEF Turned
<1>8. \A p \in Page : u.kind[p] = w.kind[p] /\ u.pin[p] = w.pin[p] /\ u.ink[p] = w.ink[p]
  BY <1>0, <1>3, <1>4, <1>6 DEF Turned
<1>9. u = w
  BY <1>7, <1>8, SameRam
<1>10. QED
  BY <1>0, <1>1, <1>2, <1>9

\* One extent: unmap, advise or replace, map.
LEMMA ExtentRuns ==
  ASSUME opts \in ValidOptions, opts.tool # "fleet", NEW a \in Known, a.sur.of = "none", a.press = "calm",
         NEW names \in SUBSET {"main", "local"}, "local" \in names, NEW k \in Kinds, k # "hole",
         NEW after \in Kinds, after = ExtentKind(k), NEW ink \in {"any", "host", "guest"}, ink = ExtentInk,
         NEW ps \in SUBSET Page, NEW qs \in SUBSET Page, ps \cap qs = {}
  PROVE  Runs(opts, reclaim_extent(qs), With(a, Ext(names, k, after, ink, ps)),
                                        With(a, Ext(names, k, after, ink, ps \cup qs)))
<1>0. \A x : OnGoal(opts, x)
  BY DEF OnGoal
<1>1. PICK r \in RamKnown : r = Ext(names, k, after, ink, ps)
  BY ExtIs
<1>2. /\ r.names = names /\ r.shown = Page
      /\ \A p \in Page : r.kind[p] = IF p \in ps THEN after ELSE k
      /\ \A p \in Page : r.pin[p] = IF p \in ps THEN "no" ELSE "yes"
      /\ \A p \in Page : r.ink[p] = IF p \in ps THEN ink ELSE "guest"
  BY <1>1, ExtSays
<1>3. "local" \in r.names /\ qs \subseteq r.shown
  BY <1>2
<1>4. \A p \in qs : r.kind[p] = k /\ r.pin[p] = "yes" /\ r.ink[p] = "guest"
  BY <1>2
<1>5. PICK s \in RamKnown : s = Hidden(r, qs)
  BY HiddenDoes
<1>6. /\ s.names = r.names /\ s.shown = r.shown \ qs
      /\ \A p \in Page : s.kind[p] = IF p \in qs THEN HiddenKind(r.kind[p], r.pin[p]) ELSE r.kind[p]
      /\ \A p \in Page : s.pin[p] = IF p \in qs THEN "no" ELSE r.pin[p]
      /\ \A p \in Page : s.ink[p] = r.ink[p]
  BY <1>5, HiddenDoes
<1>7. Runs(opts, Do("hv_vm_unmap", "local", qs), With(a, r), With(a, s))
  BY <1>0, <1>3, <1>5, UnmapRuns
<1>8. "local" \in s.names /\ qs \cap s.shown = {}
  BY <1>3, <1>6
<1>9. PICK mid : mid = IF opts.mode = "reusable" THEN madvise("local", qs, opts.advice)
                       ELSE Do("munmap", "local", qs) \o Do("mmap fixed", "local", qs)
  OBVIOUS
<1>10. PICK t \in RamKnown :
         Runs(opts, mid, With(a, s), With(a, t)) /\ Turned(r, t, qs, after, ink)
  <2>1. CASE opts.mode = "reusable"
    <3>1. PICK t \in RamKnown : t = Advised(s, qs, opts.advice)
      BY AdvisedDoes
    <3>2. opts.advice \in {"dontneed", "free", "reusable"}
      BY OptionsAre
    <3>3. Runs(opts, madvise("local", qs, opts.advice), With(a, s), With(a, t))
      BY <1>0, <1>8, <3>1, <3>2, AdviseRuns
    <3>4. t.names = s.names /\ t.shown = s.shown /\ \A p \in Page : t.pin[p] = s.pin[p] /\ t.ink[p] = s.ink[p]
      BY <3>1 DEF Advised, RamKnown
    <3>5. \A p \in Page : t.kind[p] = IF p \in qs THEN after ELSE r.kind[p]
      <4> TAKE p \in Page
      <4>1. CASE p \in qs
        <5>1. s.kind[p] = HiddenKind(k, "yes") /\ s.pin[p] = "no" /\ p \notin s.shown
          BY <1>4, <1>6, <4>1
        <5>2. t.kind[p] = Aside(s.kind[p], s.pin[p], opts.advice)
          BY <3>1, <4>1, <5>1 DEF Advised, RamKnown, Aside, AdvisedKind
        <5>3. after = Aside(HiddenKind(k, "yes"), "no", opts.advice)
          BY <2>1 DEF ExtentKind
        <5>4. QED
          BY <4>1, <5>1, <5>2, <5>3
      <4>2. CASE p \notin qs
        <5>1. t.kind[p] = s.kind[p]
          BY <3>1, <4>2 DEF Advised, RamKnown
        <5>2. QED
          BY <1>6, <4>2, <5>1
      <4>3. QED
        BY <4>1, <4>2
    <3>6. ink = "guest"
      BY <2>1 DEF ExtentInk
    <3>7. \A p \in Page : t.ink[p] = IF p \in qs THEN ink ELSE r.ink[p]
      BY <1>4, <1>6, <3>4, <3>6
    <3>8. \A p \in Page : t.pin[p] = IF p \in qs THEN "no" ELSE r.pin[p]
      BY <1>6, <3>4
    <3>9. Turned(r, t, qs, after, ink)
      BY <1>6, <3>4, <3>5, <3>7, <3>8 DEF Turned
    <3>10. QED
      BY <1>9, <2>1, <3>3, <3>9
  <2>2. CASE opts.mode # "reusable"
    <3>1. PICK d \in RamKnown : d = Dropped(s, qs)
      BY DroppedDoes
    <3>2. PICK t \in RamKnown : t = Refreshed(d, qs)
      BY RefreshedDoes
    <3>3. /\ d.names = s.names /\ d.shown = s.shown
          /\ \A p \in Page : d.kind[p] = IF p \in qs THEN "hole" ELSE s.kind[p]
          /\ \A p \in Page : d.pin[p] = IF p \in qs THEN "no" ELSE s.pin[p]
          /\ \A p \in Page : d.ink[p] = IF p \in qs THEN "any" ELSE s.ink[p]
      BY <3>1, DroppedDoes
    <3>4. /\ t.names = d.names /\ t.shown = d.shown
          /\ \A p \in Page : t.kind[p] = IF p \in qs THEN "none" ELSE d.kind[p]
          /\ \A p \in Page : t.pin[p] = d.pin[p]
          /\ \A p \in Page : t.ink[p] = IF p \in qs THEN "any" ELSE d.ink[p]
      BY <3>2, RefreshedDoes
    <3>5. Runs(opts, Do("munmap", "local", qs), With(a, s), With(a, d))
      BY <1>0, <1>8, <3>1, MunmapRuns
    <3>6. "local" \in d.names
      BY <1>8, <3>3
    <3>7. Runs(opts, Do("mmap fixed", "local", qs), With(a, d), With(a, t))
      BY <1>0, <3>2, <3>6, FixedRuns
    <3>8. Runs(opts, mid, With(a, s), With(a, t))
      BY <1>9, <2>2, <3>5, <3>7, RunsBoth
    <3>9. after = "none" /\ ink = "any"
      BY <2>2 DEF ExtentKind, ExtentInk
    <3>10. t.names = r.names /\ t.shown = r.shown \ qs
      BY <1>6, <3>3, <3>4
    <3>11. \A p \in Page : t.kind[p] = IF p \in qs THEN after ELSE r.kind[p]
      BY <1>6, <3>3, <3>4, <3>9
    <3>12. \A p \in Page : t.pin[p] = IF p \in qs THEN "no" ELSE r.pin[p]
      BY <1>6, <3>3, <3>4
    <3>13. \A p \in Page : t.ink[p] = IF p \in qs THEN ink ELSE r.ink[p]
      BY <1>6, <3>3, <3>4, <3>9
    <3>14. Turned(r, t, qs, after, ink)
      BY <3>10, <3>11, <3>12, <3>13 DEF Turned
    <3>15. QED
      BY <3>8, <3>14
  <2>3. QED
    BY <2>1, <2>2
<1>11. "local" \in t.names /\ qs \cap t.shown = {}
  BY <1>3, <1>10 DEF Turned
<1>12. \A p \in qs : t.kind[p] # "hole"
  <2>1. after # "hole"
    <3>1. HiddenKind(k, "yes") \in Kinds /\ HiddenKind(k, "yes") # "hole"
      BY KindsStay DEF HiddenKind
    <3>2. QED
      BY <3>1, AdvisedStays DEF ExtentKind
  <2>2. QED
    BY <1>10, <2>1 DEF Turned
<1>13. Runs(opts, Do("hv_vm_map", "local", qs), With(a, t), With(a, Shown(t, qs)))
  BY <1>0, <1>11, <1>12, MapRuns
<1>14. Shown(t, qs) = Ext(names, k, after, ink, ps \cup qs)
  BY <1>1, <1>10, ExtentLeaves
<1>15. reclaim_extent(qs) = Do("hv_vm_unmap", "local", qs) \o mid \o Do("hv_vm_map", "local", qs)
  BY <1>9 DEF reclaim_extent
<1>16. QED
  BY <1>1, <1>7, <1>10, <1>13, <1>14, <1>15, RunsBoth

\* Division without a remainder.
LEMMA Divides ==
  ASSUME NEW n \in Nat, NEW x \in Nat, x > 0, n % x = 0
  PROVE  n \div x \in Nat /\ (n \div x) * x = n
  BY SMT

\* All the extents: they cover the RAM, whatever the extent.
LEMMA ExtentsRun ==
  ASSUME opts \in ValidOptions, opts.tool # "fleet", NEW a,
         NEW names \in SUBSET {"main", "local"}, "local" \in names, NEW k \in Kinds, k # "hole",
         NEW after \in Kinds, after = ExtentKind(k), NEW ink \in {"any", "host", "guest"}, ink = ExtentInk,
         Stands(a, Ram(names, k, "yes", Page, "guest"), NoCan, "calm")
  PROVE  \E b : /\ Stands(b, Ram(names, after, "no", Page, ink), NoCan, "calm") /\ Keeps(a, b)
                /\ Runs(opts, reclaim_extents, a, b)
<1>1. PICK x \in Nat : x = opts.extent /\ x # 0 /\ Pages % x = 0 /\ Pages \in Nat
  BY OptionsAre, MachineAssumption DEF parse_args
<1>2. PICK n \in Nat : n = Pages \div x /\ n * x = Pages
  <2>1. x > 0
    BY <1>1
  <2>2. QED
    BY <1>1, <2>1, Divides
<1>3. PICK P : P = [j \in 0..n |-> {b \in Known : /\ Stands(b, Ext(names, k, after, ink, Span(0, j * x)), NoCan, "calm")
                                                  /\ Keeps(a, b)}]
  OBVIOUS
<1>4. PICK part : part = [j \in 1..n |-> reclaim_extent(Span((j - 1) * x, j * x))]
  OBVIOUS
<1>5. a \in P[0] /\ a \in Known
  <2>1. 0 \in 0..n /\ 0 * x = 0 /\ Span(0, 0) = {}
    BY DEF Span
  <2>2. Ext(names, k, after, ink, {}) = Ram(names, k, "yes", Page, "guest")
    BY ExtEnds
  <2>3. Ext(names, k, after, ink, Span(0, 0 * x)) = Ram(names, k, "yes", Page, "guest")
    BY <2>1, <2>2
  <2>4. a \in Known /\ Keeps(a, a)
    BY DEF Stands, Keeps
  <2>5. QED
    BY <1>3, <2>1, <2>3, <2>4
<1>6. ASSUME NEW i \in 1..n, NEW y \in P[i - 1] PROVE \E z \in P[i] : Runs(opts, part[i], y, z)
  <2>1. i - 1 \in 0..n /\ i \in 0..n
    OBVIOUS
  <2>2. PICK ps \in SUBSET Page, qs \in SUBSET Page, us \in SUBSET Page :
          /\ ps = Span(0, (i - 1) * x) /\ qs = Span((i - 1) * x, i * x) /\ us = Span(0, i * x)
          /\ us = ps \cup qs /\ ps \cap qs = {}
    <3>1. n * x <= Pages
      BY <1>1, <1>2
    <3>2. /\ Span(0, (i - 1) * x) \in SUBSET Page /\ Span((i - 1) * x, i * x) \in SUBSET Page
          /\ Span(0, i * x) = Span(0, (i - 1) * x) \cup Span((i - 1) * x, i * x)
          /\ Span(0, (i - 1) * x) \cap Span((i - 1) * x, i * x) = {}
      BY <3>1, NextSpan
    <3>3. QED
      BY <3>2
  <2>3. y \in Known /\ Stands(y, Ext(names, k, after, ink, ps), NoCan, "calm") /\ Keeps(a, y)
    BY <1>3, <2>1, <2>2
  <2>4. y.sur.of = "none" /\ y.press = "calm"
    BY <2>3 DEF Stands
  <2>5. Runs(opts, reclaim_extent(qs), With(y, Ext(names, k, after, ink, ps)), With(y, Ext(names, k, after, ink, ps \cup qs)))
    BY <2>2, <2>3, <2>4, ExtentRuns
  <2>6. PICK q \in RamKnown : q = Ext(names, k, after, ink, us)
    BY ExtIs
  <2>7. Runs(opts, reclaim_extent(qs), With(y, Ext(names, k, after, ink, ps)), With(y, q))
    BY <2>2, <2>5, <2>6
  <2>8. PICK z : Stands(z, q, NoCan, "calm") /\ Keeps(y, z) /\ Runs(opts, reclaim_extent(qs), y, z)
    BY <2>3, <2>7, RamStep
  <2>9. z \in Known /\ Keeps(a, z)
    BY <2>3, <2>8 DEF Stands, Keeps
  <2>10. z \in P[i]
    BY <1>3, <2>1, <2>2, <2>6, <2>8, <2>9
  <2>11. part[i] = reclaim_extent(qs)
    BY <1>4, <2>2
  <2>12. QED
    BY <2>8, <2>10, <2>11
<1>7. PICK b \in P[n] : Runs(opts, Repeat(n, part), a, b)
  BY <1>5, <1>6, RunsLoop
<1>8. Stands(b, Ext(names, k, after, ink, Span(0, n * x)), NoCan, "calm") /\ Keeps(a, b)
  <2>1. n \in 0..n
    OBVIOUS
  <2>2. QED
    BY <1>3, <1>7, <2>1
<1>9. Ext(names, k, after, ink, Span(0, n * x)) = Ram(names, after, "no", Page, ink)
  <2>1. Span(0, n * x) = Page
    BY <1>1, <1>2 DEF Span, Page
  <2>2. Ext(names, k, after, ink, Page) = Ram(names, after, "no", Page, ink)
    BY ExtEnds
  <2>3. QED
    BY <2>1, <2>2
<1>10. reclaim_extents = Repeat(n, part)
  BY <1>1, <1>2, <1>4 DEF reclaim_extents
<1>11. QED
  BY <1>7, <1>8, <1>9, <1>10

\* Before a timed cycle: fresh memory, or RAM the guest has touched again.
BeforeTiming(i) ==
  {a \in Known : a.n = i /\ \E names \in SUBSET {"main", "local"} : "local" \in names /\
     IF i = 0 THEN Stands(a, Ram(names, "none", "no", Page, "any"), NoCan, "calm")
     ELSE \E k \in Kinds \ {"hole"} :
            /\ Stands(a, Ram(names, k, "yes", Page, "guest"), NoCan, "calm")
            /\ opts.mode = "munmap" => k = "charged"}

\* A timed cycle starts from fresh memory, or in the steady state from what the last one left.
LEMMA TimingStarts ==
  ASSUME opts \in ValidOptions, opts.tool # "fleet", NEW i \in Nat \ {0}, NEW a \in BeforeTiming(i - 1)
  PROVE  \E b \in Known, names \in SUBSET {"main", "local"}, k \in Kinds \ {"hole"},
            pin \in {"yes", "no", "any"}, ink \in {"any", "host", "guest"} :
           /\ Stands(b, Ram(names, k, pin, Page, ink), NoCan, "calm") /\ "local" \in names /\ b.n = i - 1
           /\ Runs(opts, IF i > 1 /\ ~opts.steady THEN reset("local") ELSE <<>>, a, b)
           /\ i = 1 \/ ~opts.steady => k = "none"
           /\ ~(i = 1 \/ ~opts.steady) /\ opts.mode = "munmap" => k = "charged"
<1>0. a \in Known /\ a.n = i - 1
  BY DEF BeforeTiming
<1>1. Runs(opts, <<>>, a, a) /\ "none" \in Kinds \ {"hole"}
  BY <1>0, RunsNothing, KindsStay
<1>2. CASE i = 1
  <2>1. i - 1 = 0 /\ ~(i > 1)
    BY <1>2
  <2>2. PICK names \in SUBSET {"main", "local"} :
          "local" \in names /\ Stands(a, Ram(names, "none", "no", Page, "any"), NoCan, "calm")
    BY <2>1 DEF BeforeTiming
  <2>3. QED
    BY <1>0, <1>1, <1>2, <2>1, <2>2
<1>3. CASE i # 1
  <2>1. i - 1 # 0 /\ i > 1
    BY <1>3
  <2>2. PICK names \in SUBSET {"main", "local"}, k \in Kinds \ {"hole"} :
          /\ "local" \in names /\ Stands(a, Ram(names, k, "yes", Page, "guest"), NoCan, "calm")
          /\ opts.mode = "munmap" => k = "charged"
    BY <2>1 DEF BeforeTiming
  <2>3. CASE opts.steady
    BY <1>0, <1>1, <1>3, <2>2, <2>3
  <2>4. CASE ~opts.steady
    <3>1. a.sur.of = "none" /\ a.press = "calm"
      BY <2>2 DEF Stands
    <3>2. {"local"} \in SUBSET {"main", "local"} /\ Page \in SUBSET Page
      OBVIOUS
    <3>3. PICK q \in RamKnown : q = Ram({"local"}, "none", "no", Page, "any")
      BY <3>2, RamIs, KindsStay
    <3>4. Runs(opts, reset("local"), With(a, Ram(names, k, "yes", Page, "guest")), With(a, q))
      BY <1>0, <2>2, <3>1, <3>3, ResetRuns
    <3>5. PICK b : Stands(b, q, NoCan, "calm") /\ Keeps(a, b) /\ Runs(opts, reset("local"), a, b)
      BY <2>2, <3>4, RamStep
    <3>6. b \in Known /\ b.n = i - 1
      BY <1>0, <3>5 DEF Stands, Keeps
    <3>7. "local" \in {"local"}
      OBVIOUS
    <3>8. QED
      BY <1>1, <2>1, <2>4, <3>2, <3>3, <3>5, <3>6, <3>7
  <2>5. QED
    BY <2>3, <2>4
<1>4. QED
  BY <1>2, <1>3

\* A timed cycle: its row fits.
LEMMA TimingCycleRuns ==
  ASSUME opts \in ValidOptions, opts.tool = "time", NEW i \in Nat \ {0}, NEW a \in BeforeTiming(i - 1)
  PROVE  \E b \in BeforeTiming(i) : Runs(opts, timing_cycle(i), a, b)
<1>0. /\ "dirtied" \in Reading /\ "reclaimed" \in Reading /\ Page \in SUBSET Page
      /\ opts.tool # "fleet" /\ opts.tool # "plain" /\ opts.tool # "calibrate"
  BY DEF Reading
<1>1. PICK pre : pre = IF i > 1 /\ ~opts.steady THEN reset("local") ELSE <<>>
  OBVIOUS
<1>2. PICK b0 \in Known, names \in SUBSET {"main", "local"}, k \in Kinds \ {"hole"},
           pin \in {"yes", "no", "any"}, ink0 \in {"any", "host", "guest"} :
        /\ Stands(b0, Ram(names, k, pin, Page, ink0), NoCan, "calm") /\ "local" \in names /\ b0.n = i - 1
        /\ Runs(opts, pre, a, b0)
        /\ i = 1 \/ ~opts.steady => k = "none"
        /\ ~(i = 1 \/ ~opts.steady) /\ opts.mode = "munmap" => k = "charged"
  BY <1>0, <1>1, TimingStarts
<1>3. PICK kb \in Kinds : kb = TouchedKind(k) /\ kb # "hole"
  BY <1>2, KindsStay DEF TouchedKind
<1>4. PICK kc \in Kinds : kc = ExtentKind(kb) /\ kc # "hole"
  <2>1. HiddenKind(kb, "yes") \in Kinds /\ HiddenKind(kb, "yes") # "hole"
    BY <1>3, KindsStay DEF HiddenKind
  <2>2. QED
    BY <2>1, AdvisedStays, KindsStay DEF ExtentKind
<1>5. PICK kd \in Kinds : kd = TouchedKind(kc) /\ kd # "hole"
  BY <1>4, KindsStay DEF TouchedKind
<1>6. PICK ink \in {"any", "host", "guest"} : ink = ExtentInk
  BY DEF ExtentInk
<1>7. /\ FullRow(opts, i) => ReadingOf(kb) = "full" /\ ReadingOf(kc) = "zero"
      /\ ~NotRow(opts, i)
      /\ opts.mode = "munmap" => kd = "charged"
  <2>1. CASE opts.mode = "munmap"
    <3>1. kb = "charged"
      BY <1>2, <1>3, <2>1 DEF TouchedKind
    <3>2. kc = "none" /\ kd = "charged"
      BY <1>4, <1>5, <2>1 DEF ExtentKind, TouchedKind
    <3>3. ~NotRow(opts, i)
      BY <1>0, <2>1 DEF NotRow
    <3>4. QED
      BY <2>1, <3>1, <3>2, <3>3 DEF ReadingOf
  <2>2. CASE opts.mode = "reusable" /\ opts.advice = "reusable" /\ (i = 1 \/ ~opts.steady)
    <3>1. kb = "charged"
      BY <1>2, <1>3, <2>2 DEF TouchedKind
    <3>2. kc = "reusable"
      BY <1>4, <2>2, <3>1 DEF ExtentKind, HiddenKind, Aside, AdvisedKind
    <3>3. ~NotRow(opts, i)
      BY <1>0, <2>2 DEF NotRow
    <3>4. QED
      BY <2>2, <3>1, <3>2, <3>3 DEF ReadingOf
  <2>3. CASE opts.mode = "reusable" /\ opts.advice = "reusable" /\ ~(i = 1 \/ ~opts.steady)
    BY <1>0, <2>3 DEF FullRow, NotRow
  <2>4. CASE opts.mode = "reusable" /\ opts.advice # "reusable"
    BY <1>0, <2>4 DEF FullRow, NotRow
  <2>5. QED
    BY <2>1, <2>2, <2>3, <2>4, OptionsAre
<1>8. PICK r0 \in RamKnown : r0 = Ram(names, k, pin, Page, ink0)
  BY <1>0, <1>2, RamIs
<1>9. PICK r1 \in RamKnown : r1 = Ram(names, kb, "yes", Page, "guest")
  BY <1>0, <1>2, RamIs
<1>10. PICK r2 \in RamKnown : r2 = Ram(names, kc, "no", Page, ink)
  BY <1>0, <1>2, RamIs
<1>11. PICK r3 \in RamKnown : r3 = Ram(names, kd, "yes", Page, "guest")
  BY <1>0, <1>2, RamIs
<1>12. PICK b1 : Stands(b1, r1, NoCan, "calm") /\ Keeps(b0, b1) /\ Runs(opts, run_touch_pass, b0, b1)
  <2>1. b0.sur.of = "none"
    BY <1>2 DEF Stands
  <2>2. Runs(opts, run_touch_pass, With(b0, r0), With(b0, r1))
    BY <1>0, <1>2, <1>3, <1>8, <1>9, <2>1, TouchPassRuns
  <2>3. QED
    BY <1>2, <1>8, <2>2, RamStep
<1>13. PICK b2 : Stands(b2, r1, NoCan, "calm") /\ Sets(b1, b2, "dirtied", ReadingOf(kb))
                 /\ Runs(opts, read("dirtied"), b1, b2)
  BY <1>0, <1>9, <1>12, ReadAllRuns
<1>14. PICK b3 : Stands(b3, r2, NoCan, "calm") /\ Keeps(b2, b3) /\ Runs(opts, reclaim_extents, b2, b3)
  BY <1>0, <1>2, <1>3, <1>4, <1>6, <1>9, <1>10, <1>13, ExtentsRun
<1>15. PICK b4 : Stands(b4, r2, NoCan, "calm") /\ Sets(b3, b4, "reclaimed", ReadingOf(kc))
                 /\ Runs(opts, read("reclaimed"), b3, b4)
  BY <1>0, <1>10, <1>14, ReadAllRuns
<1>16. PICK b5 : Stands(b5, r3, NoCan, "calm") /\ Keeps(b4, b5) /\ Runs(opts, run_touch_pass, b4, b5)
  <2>1. b4 \in Known /\ b4.sur.of = "none"
    BY <1>15 DEF Stands
  <2>2. Runs(opts, run_touch_pass, With(b4, r2), With(b4, r3))
    BY <1>0, <1>2, <1>5, <1>10, <1>11, <2>1, TouchPassRuns
  <2>3. QED
    BY <1>15, <2>2, RamStep
<1>17. b5.regs["dirtied"] = ReadingOf(kb) /\ b5.regs["reclaimed"] = ReadingOf(kc) /\ b5.n + 1 = i
  BY <1>2, <1>12, <1>13, <1>14, <1>15, <1>16 DEF Sets, Keeps, Reading
<1>18. \A c : c.of = "reclaimed" /\ c.arg = "dirtied" => RowFits(opts, i, c, b5.regs)
  BY <1>7, <1>17 DEF RowFits
<1>19. PICK b : /\ Stands(b, r3, NoCan, "calm") /\ Runs(opts, delta_mib("reclaimed", "dirtied"), b5, b)
                /\ b.n = i
  BY <1>0, <1>16, <1>17, <1>18, RecordRuns
<1>20. b \in BeforeTiming(i)
  <2>1. b \in Known /\ i # 0 /\ kd \in Kinds \ {"hole"}
    BY <1>5, <1>19 DEF Stands
  <2>2. QED
    BY <1>2, <1>7, <1>11, <1>19, <2>1 DEF BeforeTiming
<1>21. PICK h : h = pre \o run_touch_pass \o read("dirtied") \o reclaim_extents
  OBVIOUS
<1>22. Runs(opts, h, a, b3)
  BY <1>2, <1>12, <1>13, <1>14, <1>21, RunsBoth
<1>23. Runs(opts, h \o read("reclaimed") \o run_touch_pass \o delta_mib("reclaimed", "dirtied"), a, b)
  BY <1>15, <1>16, <1>19, <1>22, RunsBoth
<1>24. timing_cycle(i) = h \o read("reclaimed") \o run_touch_pass \o delta_mib("reclaimed", "dirtied")
  BY <1>1, <1>21 DEF timing_cycle
<1>25. QED
  BY <1>20, <1>23, <1>24

\* Another pointer to uniform RAM.
LEMMA NameRuns ==
  ASSUME NEW o, o.tool # "fleet", NEW a, NEW names \in SUBSET {"main", "local"}, NEW k \in Kinds,
         NEW pin \in {"yes", "no", "any"}, NEW ink \in {"any", "host", "guest"},
         Stands(a, Ram(names, k, pin, Page, ink), NoCan, "calm"),
         NEW x \in {"main", "local"}, NEW y \in names
  PROVE  \E b : /\ Stands(b, Ram(names \cup {x}, k, pin, Page, ink), NoCan, "calm") /\ Keeps(a, b)
                /\ Runs(o, <<Call("let pointer", x, {}, y)>>, a, b)
<1>0. names \cup {x} \in SUBSET {"main", "local"} /\ Page \in SUBSET Page
  OBVIOUS
<1>1. PICK r \in RamKnown : r = Ram(names, k, pin, Page, ink)
  BY <1>0, RamIs
<1>2. PICK q \in RamKnown : q = Ram(names \cup {x}, k, pin, Page, ink)
  BY <1>0, RamIs
<1>3. r.names = names
  BY <1>1, RamSays
<1>4. q = [r EXCEPT !.names = r.names \cup {x}]
  BY <1>1, <1>2 DEF Ram
<1>5. y \in r.names /\ Stands(a, r, NoCan, "calm")
  BY <1>1, <1>3
<1>6. /\ Stands(With(a, q), q, NoCan, "calm") /\ Keeps(a, With(a, q))
      /\ Runs(o, <<Call("let pointer", x, {}, y)>>, a, With(a, q))
  BY <1>4, <1>5, PointerRuns
<1>7. QED
  BY <1>2, <1>6

\* hv-reclaim --time-reclaim.
LEMMA TimingRuns ==
  ASSUME opts \in ValidOptions, opts.tool = "time", NEW a, Empty(a, {}, "calm"), a.n = 0
  PROVE  \E e \in Known : Runs(opts, setup \o timing_run \o teardown, a, e) /\ Final(e)
<1>1. /\ {"main"} \in SUBSET {"main", "local"} /\ {} \in SUBSET {"main", "local"}
      /\ Page \in SUBSET Page /\ {} \in SUBSET Page /\ opts.tool # "fleet"
  OBVIOUS
<1>2. PICK r0 \in RamKnown : r0 = Ram({}, "hole", "no", {}, "any")
  BY <1>1, RamIs, KindsStay
<1>3. PICK r1 \in RamKnown : r1 = Ram({"main"}, "none", "no", Page, "any")
  BY <1>1, RamIs, KindsStay
<1>4. PICK b1 : Stands(b1, r1, NoCan, "calm") /\ Keeps(a, b1) /\ Runs(opts, setup, a, b1)
  <2>1. a \in Known /\ a.sur.of = "none" /\ a.press = "calm" /\ Stands(a, r0, NoCan, "calm")
    BY <1>2 DEF Empty, Stands
  <2>2. Runs(opts, setup, With(a, r0), With(a, r1))
    BY <1>1, <1>2, <1>3, <2>1, SetupRuns
  <2>3. QED
    BY <2>1, <2>2, RamStep
<1>5. {"main"} \cup {"local"} \in SUBSET {"main", "local"} /\ "local" \in {"main"} \cup {"local"}
  BY Zenon
<1>6. PICK N \in SUBSET {"main", "local"} : N = {"main"} \cup {"local"} /\ "local" \in N
  BY <1>5, Zenon
<1>7. PICK b2 : /\ Stands(b2, Ram(N, "none", "no", Page, "any"), NoCan, "calm") /\ Keeps(b1, b2)
                /\ Runs(opts, <<Call("let pointer", "local", {}, "main")>>, b1, b2)
  <2>1. "local" \in {"main", "local"} /\ "main" \in {"main"}
    OBVIOUS
  <2>2. Stands(b1, Ram({"main"}, "none", "no", Page, "any"), NoCan, "calm")
    BY <1>3, <1>4
  <2>3. \E b : /\ Stands(b, Ram({"main"} \cup {"local"}, "none", "no", Page, "any"), NoCan, "calm") /\ Keeps(b1, b)
               /\ Runs(opts, <<Call("let pointer", "local", {}, "main")>>, b1, b)
    BY <1>1, <2>1, <2>2, NameRuns, KindsStay
  <2>4. QED
    BY <1>6, <2>3
<1>8. PICK n \in Nat : n = opts.repeat /\ n # 0
  BY OptionsAre, RepeatAssumption
<1>9. PICK b3 \in BeforeTiming(n) : Runs(opts, timing_cycles, b2, b3)
  <2>1. PICK P : P = [i \in 0..n |-> BeforeTiming(i)]
    OBVIOUS
  <2>2. PICK part : part = [i \in 1..n |-> timing_cycle(i)]
    OBVIOUS
  <2>3. b2 \in P[0] /\ b2 \in Known
    <3>1. b2 \in Known /\ b2.n = 0
      BY <1>4, <1>7 DEF Stands, Keeps
    <3>2. b2 \in BeforeTiming(0)
      BY <1>6, <1>7, <3>1 DEF BeforeTiming
    <3>3. 0 \in 0..n
      OBVIOUS
    <3>4. QED
      BY <2>1, <3>1, <3>2, <3>3
  <2>4. ASSUME NEW i \in 1..n, NEW x \in P[i - 1] PROVE \E y \in P[i] : Runs(opts, part[i], x, y)
    <3>1. x \in BeforeTiming(i - 1) /\ i \in Nat \ {0} /\ P[i] = BeforeTiming(i) /\ part[i] = timing_cycle(i)
      BY <2>1, <2>2
    <3>2. QED
      BY <3>1, TimingCycleRuns
  <2>5. PICK b \in P[n] : Runs(opts, Repeat(n, part), b2, b)
    BY <2>3, <2>4, RunsLoop
  <2>6. b \in BeforeTiming(n)
    BY <2>1
  <2>7. timing_cycles = Repeat(n, part)
    BY <1>8, <2>2 DEF timing_cycles
  <2>8. QED
    BY <2>5, <2>6, <2>7
<1>10. PICK M \in SUBSET {"main", "local"}, k \in Kinds :
        "local" \in M /\ Stands(b3, Ram(M, k, "yes", Page, "guest"), NoCan, "calm")
  BY <1>8, <1>9 DEF BeforeTiming
<1>11. PICK b4 : /\ Stands(b4, Ram(M \cup {"main"}, k, "yes", Page, "guest"), NoCan, "calm")
                /\ Runs(opts, <<Call("let pointer", "main", {}, "local")>>, b3, b4)
  <2>1. "main" \in {"main", "local"}
    OBVIOUS
  <2>2. QED
    BY <1>1, <1>10, <2>1, NameRuns
<1>12. PICK r \in RamKnown : r = Ram(M \cup {"main"}, k, "yes", Page, "guest")
  <2>1. M \cup {"main"} \in SUBSET {"main", "local"}
    OBVIOUS
  <2>2. QED
    BY <1>1, <2>1, RamIs
<1>13. r.names = M \cup {"main"}
  BY <1>12, RamSays
<1>14. "main" \in r.names
  BY <1>13
<1>15. PICK e : Empty(e, r.names, "calm") /\ Runs(opts, teardown, b4, e)
  BY <1>1, <1>11, <1>12, <1>14, TearsDown
<1>16. Runs(opts, timing_run, b1, b4)
  BY <1>7, <1>9, <1>11, RunsBoth DEF timing_run
<1>17. Runs(opts, setup \o timing_run \o teardown, a, e)
  BY <1>4, <1>15, <1>16, RunsBoth
<1>18. QED
  BY <1>15, <1>17, EmptyIsFinal

-----------------------------------------------------------------------------
(* --fleet-sim. *)

\* RAM in which the pages of us are up and those of ds are down again.
Fl(us, ds) ==
  [names |-> {"main"},
   kind |-> [p \in Page |-> IF p \in us THEN "charged" ELSE IF p \in ds THEN "reusable" ELSE "none"],
   pin |-> [p \in Page |-> IF p \in us THEN "yes" ELSE "no"], shown |-> Page,
   ink |-> [p \in Page |-> IF p \in us \cup ds THEN "guest" ELSE "any"]]

\* It is a description of RAM.
LEMMA FlIs ==
  ASSUME NEW us \in SUBSET Page, NEW ds \in SUBSET Page
  PROVE  Fl(us, ds) \in RamKnown
<1>1. {"main"} \in SUBSET {"main", "local"} /\ Page \in SUBSET Page
  OBVIOUS
<1>2. QED
  BY <1>1 DEF Fl, RamKnown, Kinds

\* What it says.
LEMMA FlSays ==
  ASSUME NEW us, NEW ds
  PROVE  /\ Fl(us, ds).names = {"main"} /\ Fl(us, ds).shown = Page
         /\ \A p \in Page : Fl(us, ds).kind[p] = IF p \in us THEN "charged" ELSE IF p \in ds THEN "reusable" ELSE "none"
         /\ \A p \in Page : Fl(us, ds).pin[p] = IF p \in us THEN "yes" ELSE "no"
         /\ \A p \in Page : Fl(us, ds).ink[p] = IF p \in us \cup ds THEN "guest" ELSE "any"
  BY DEF Fl

\* Fresh RAM, before the first service.
LEMMA FlFresh == Fl({}, {}) = Ram({"main"}, "none", "no", Page, "any")
  BY DEF Fl, Ram, All

\* Just the services that are up are charged.
LEMMA FlCharge ==
  ASSUME NEW us \in SUBSET Page, NEW ds \in SUBSET Page, NEW r, r = Fl(us, ds)
  PROVE  Charged(r) = us /\ Maybe(r) = us
<1>1. \A p \in Page : r.kind[p] = IF p \in us THEN "charged" ELSE IF p \in ds THEN "reusable" ELSE "none"
  BY FlSays
<1>2. QED
  BY <1>1 DEF Charged, Maybe

\* Between two calls of the fleet simulation.
FleetAt(a, r, sampling) ==
  /\ a \in Known /\ a.ram = r /\ a.can = NoCan /\ a.press = "calm"
  /\ a.sur.of = "none" /\ a.sampling = sampling

AtGoal(a, us, next, trend) == a.goal = [upset |-> us, next |-> next, trend |-> trend]

\* A call that changes the RAM only.
LEMMA FleetStep ==
  ASSUME NEW o, NEW p, NEW a, NEW r \in RamKnown, NEW s, FleetAt(a, r, s), NEW q \in RamKnown,
         Runs(o, p, With(a, r), With(a, q))
  PROVE  \E b : FleetAt(b, q, s) /\ b.goal = a.goal /\ Runs(o, p, a, b)
<1>1. a \in Known /\ a.ram = r
  BY DEF FleetAt
<1>2. With(a, r) = a
  BY <1>1, WithIs
<1>3. FleetAt(With(a, q), q, s) /\ With(a, q).goal = a.goal
  BY <1>1, WithIs DEF FleetAt
<1>4. QED
  BY <1>2, <1>3

\* A MARK: what is up now, and what may start or stop next.
LEMMA MarkRuns ==
  ASSUME NEW o, NEW a, NEW r \in RamKnown, NEW s, FleetAt(a, r, s), NEW us \in SUBSET Page,
         Charged(r) = us, Maybe(r) = us, NEW next \in SUBSET Page, Cardinality(next) <= o.region,
         NEW trend \in {"rising", "falling"}
  PROVE  \E b : FleetAt(b, r, s) /\ AtGoal(b, us, next, trend) /\ Runs(o, mark(us, trend), a, b)
<1>1. PICK g \in GoalKnown : g = [upset |-> us, next |-> next, trend |-> trend]
  BY DEF GoalKnown
<1>2. a \in Known
  BY DEF FleetAt
<1>3. PICK b : b = [a EXCEPT !.goal = g]
  OBVIOUS
<1>4. b \in Known /\ b.goal = g /\ b.ram = a.ram /\ b.can = a.can /\ b.press = a.press
      /\ b.sur = a.sur /\ b.sampling = a.sampling
  BY <1>1, <1>2, <1>3 DEF Known
<1>5. FleetAt(b, r, s) /\ AtGoal(b, us, next, trend)
  BY <1>1, <1>4 DEF FleetAt, AtGoal
<1>6. PICK c \in Calls : mark(us, trend) = <<c>> /\ c.op = "mark" /\ c.pages = us /\ c.arg = trend
  <2>1. "mark" \in Ops /\ "main" \in Pointer \cup Reading /\ trend \in Args \cup Pointer \cup Reading
    BY DEF Ops, Pointer, Args
  <2>2. QED
    BY <2>1, CallIs DEF mark
<1>7. AfterMark(o, c, a, b)
  <2>1. a.can.up = "no" /\ a.ram = r
    BY DEF FleetAt, NoCan
  <2>2. b = [a EXCEPT !.goal = [upset |-> c.pages, next |-> next, trend |-> c.arg]]
    BY <1>1, <1>3, <1>6
  <2>3. QED
    BY <1>6, <2>1, <2>2 DEF AfterMark
<1>8. OnGoal(o, b)
  <2>1. b.can.up = "no" /\ b.ram = r /\ b.goal.upset = us /\ b.goal.next = next
    BY <1>1, <1>4 DEF FleetAt, NoCan
  <2>2. QED
    BY <2>1 DEF OnGoal
<1>9. Effect(o, c, a, b)
  BY <1>6, <1>7, <1>8 DEF Effect, Ops, FleetAt
<1>10. Runs(o, mark(us, trend), a, b)
  BY <1>2, <1>4, <1>6, <1>9, RunsOne
<1>11. QED
  BY <1>5, <1>10

\* A call about nothing but itself.
LEMMA DoMain == \A op \in Ops : \E c \in Calls : Do(op, "main", {}) = <<c>> /\ c.op = op
<1>1. "main" \in Pointer \cup Reading /\ {} \in SUBSET Page
  BY DEF Pointer
<1>2. QED
  BY <1>1, DoIs

\* The sampling thread is started and joined; the stop flag only is set between.
LEMMA SamplerRuns ==
  ASSUME NEW o, NEW a, NEW r \in RamKnown, NEW s \in {"off", "on", "ended"}, FleetAt(a, r, s), OnGoal(o, a),
         NEW op \in {"spawn sampler", "stop sampler", "join sampler"}, NEW t \in {"off", "on", "ended"},
         op = "spawn sampler" => s = "off" /\ t = "on",
         op = "stop sampler" => t = s,
         op = "join sampler" => s = "on" /\ t = "ended"
  PROVE  \E b : FleetAt(b, r, t) /\ b.goal = a.goal /\ Runs(o, Do(op, "main", {}), a, b)
<1>1. PICK b : b = [a EXCEPT !.sampling = t]
  OBVIOUS
<1>2. a \in Known /\ a.sampling = s
  BY DEF FleetAt
<1>3. b \in Known /\ b.goal = a.goal /\ b.ram = a.ram /\ b.can = a.can /\ b.press = a.press
      /\ b.sur = a.sur /\ b.sampling = t
  BY <1>1, <1>2 DEF Known
<1>4. FleetAt(b, r, t)
  BY <1>3 DEF FleetAt
<1>5. OnGoal(o, b)
  BY <1>3 DEF OnGoal
<1>6. op \in Ops /\ "main" \in Pointer \cup Reading /\ {} \in SUBSET Page
  BY DEF Ops, Pointer
<1>7. PICK c \in Calls : Do(op, "main", {}) = <<c>> /\ c.op = op
  BY <1>6, DoMain
<1>8. t = s => b = a
  BY <1>1, <1>2 DEF Known
<1>9. a.sur.of = "none"
  BY DEF FleetAt
<1>10. Effect(o, c, a, b)
  <2>1. CASE op = "spawn sampler"
    BY <1>1, <1>2, <1>5, <1>7, <1>9, <2>1 DEF Effect, Ops, AfterSpawn
  <2>2. CASE op = "stop sampler"
    BY <1>5, <1>7, <1>8, <1>9, <2>2 DEF Effect, Ops
  <2>3. CASE op = "join sampler"
    BY <1>1, <1>2, <1>5, <1>7, <1>9, <2>3 DEF Effect, Ops, AfterJoin
  <2>4. QED
    BY <2>1, <2>2, <2>3
<1>11. Runs(o, Do(op, "main", {}), a, b)
  BY <1>2, <1>3, <1>7, <1>10, RunsOne
<1>12. QED
  BY <1>3, <1>4, <1>11

\* Guest stores into the pages of a service.
LEMMA FlStored ==
  ASSUME NEW us \in SUBSET Page, NEW qs \in SUBSET Page, us \cap qs = {}
  PROVE  Stored(Fl(us, {}), qs) = Fl(us \cup qs, {})
<1>1. PICK r \in RamKnown : r = Fl(us, {})
  BY FlIs
<1>2. PICK ws \in SUBSET Page : ws = us \cup qs
  OBVIOUS
<1>3. PICK w \in RamKnown : w = Fl(ws, {})
  BY FlIs
<1>4. PICK t \in RamKnown : t = Stored(r, qs)
  BY StoredDoes
<1>5. /\ r.names = {"main"} /\ r.shown = Page
      /\ \A p \in Page : r.kind[p] = IF p \in us THEN "charged" ELSE "none"
      /\ \A p \in Page : r.pin[p] = IF p \in us THEN "yes" ELSE "no"
      /\ \A p \in Page : r.ink[p] = IF p \in us THEN "guest" ELSE "any"
  BY <1>1, FlSays
<1>6. /\ w.names = {"main"} /\ w.shown = Page
      /\ \A p \in Page : w.kind[p] = IF p \in ws THEN "charged" ELSE "none"
      /\ \A p \in Page : w.pin[p] = IF p \in ws THEN "yes" ELSE "no"
      /\ \A p \in Page : w.ink[p] = IF p \in ws THEN "guest" ELSE "any"
  BY <1>3, FlSays
<1>7. /\ t.names = r.names /\ t.shown = r.shown
      /\ \A p \in Page : t.kind[p] = IF p \in qs THEN TouchedKind(r.kind[p]) ELSE r.kind[p]
      /\ \A p \in Page : t.pin[p] = IF p \in qs THEN "yes" ELSE r.pin[p]
      /\ \A p \in Page : t.ink[p] = IF p \in qs THEN "guest" ELSE r.ink[p]
  BY <1>4, StoredDoes
<1>8. \A p \in Page : t.kind[p] = w.kind[p]
  BY <1>2, <1>5, <1>6, <1>7 DEF TouchedKind
<1>9. \A p \in Page : t.pin[p] = w.pin[p] /\ t.ink[p] = w.ink[p]
  BY <1>2, <1>5, <1>6, <1>7
<1>10. t.names = w.names /\ t.shown = w.shown
  BY <1>5, <1>6, <1>7
<1>11. t = w
  BY <1>8, <1>9, <1>10, SameRam
<1>12. QED
  BY <1>1, <1>2, <1>3, <1>4, <1>11

\* While services start, no more is charged than the next MARK will say.
LEMMA FlRises ==
  ASSUME NEW o, NEW a \in Known, a.can = NoCan, NEW us, NEW next, AtGoal(a, us, next, "rising"),
         NEW vs \in SUBSET Page, us \subseteq vs, vs \subseteq us \cup next
  PROVE  OnGoal(o, With(a, Fl(vs, {})))
<1>1. PICK r \in RamKnown : r = Fl(vs, {})
  BY FlIs
<1>2. Charged(r) = vs /\ Maybe(r) = vs
  BY <1>1, FlCharge
<1>3. With(a, r).ram = r /\ With(a, r).can = NoCan /\ With(a, r).goal = a.goal
  BY WithIs
<1>4. a.goal.upset = us /\ a.goal.next = next /\ a.goal.trend = "rising"
  BY DEF AtGoal
<1>5. OnGoal(o, With(a, r))
  BY <1>2, <1>3, <1>4 DEF OnGoal, NoCan
<1>6. QED
  BY <1>1, <1>5

\* A service starts: the guest touches its region.
LEMMA StartRuns ==
  ASSUME NEW o, NEW a, NEW us \in SUBSET Page, NEW lo \in 0..Pages, NEW hi \in lo..Pages,
         us \cap Span(lo, hi) = {}, FleetAt(a, Fl(us, {}), "on"), AtGoal(a, us, Span(lo, hi), "rising")
  PROVE  \E b : /\ FleetAt(b, Fl(us \cup Span(lo, hi), {}), "on") /\ b.goal = a.goal
                /\ Runs(o, run_touch_range(lo, hi), a, b)
<1>1. PICK r \in RamKnown : r = Fl(us, {})
  BY FlIs
<1>2. a \in Known /\ a.can = NoCan /\ a.sur.of = "none"
  BY DEF FleetAt
<1>3. Span(lo, hi) \in SUBSET Page
  BY Spans
<1>4. Span(lo, hi) \subseteq r.shown
  BY <1>1, <1>3, FlSays
<1>5. ASSUME NEW k \in lo..hi PROVE OnGoal(o, With(a, Stored(r, Span(lo, k))))
  <2>1. Span(lo, k) \subseteq Span(lo, hi)
    BY MachineAssumption DEF Span
  <2>2. PICK qs \in SUBSET Page : qs = Span(lo, k) /\ us \cap qs = {} /\ qs \subseteq Span(lo, hi)
    BY <1>3, <2>1
  <2>3. PICK vs \in SUBSET Page : vs = us \cup qs /\ us \subseteq vs /\ vs \subseteq us \cup Span(lo, hi)
    BY <2>2
  <2>4. Stored(r, qs) = Fl(vs, {})
    BY <1>1, <2>2, <2>3, FlStored
  <2>5. OnGoal(o, With(a, Fl(vs, {})))
    BY <1>2, <2>3, FlRises
  <2>6. QED
    BY <2>2, <2>4, <2>5
<1>6. Runs(o, run_touch_range(lo, hi), With(a, r), With(a, Stored(r, Span(lo, hi))))
  BY <1>2, <1>4, <1>5, StoreRange DEF run_touch_range
<1>7. PICK q \in RamKnown : q = Fl(us \cup Span(lo, hi), {}) /\ q = Stored(r, Span(lo, hi))
  BY <1>1, <1>3, FlIs, FlStored
<1>8. Runs(o, run_touch_range(lo, hi), With(a, r), With(a, q))
  BY <1>6, <1>7
<1>9. FleetAt(a, r, "on")
  BY <1>1
<1>10. \E b : FleetAt(b, q, "on") /\ b.goal = a.goal /\ Runs(o, run_touch_range(lo, hi), a, b)
  BY <1>8, <1>9, FleetStep
<1>11. QED
  BY <1>7, <1>10

\* While a service stops, no less is charged than the next MARK will say.
LEMMA FlFalls ==
  ASSUME NEW o, NEW a \in Known, a.can = NoCan, NEW us, NEW next, AtGoal(a, us, next, "falling"),
         NEW r \in RamKnown, us \ next \subseteq Charged(r), Maybe(r) \subseteq us
  PROVE  OnGoal(o, With(a, r))
<1>1. With(a, r).ram = r /\ With(a, r).can = NoCan /\ With(a, r).goal = a.goal
  BY WithIs
<1>2. a.goal.upset = us /\ a.goal.next = next /\ a.goal.trend = "falling"
  BY DEF AtGoal
<1>3. QED
  BY <1>1, <1>2 DEF OnGoal, NoCan

\* A service stops: its region is unmapped, given back and mapped again.
LEMMA StopRuns ==
  ASSUME NEW o, NEW a, NEW us \in SUBSET Page, NEW ds \in SUBSET Page, NEW qs \in SUBSET Page,
         us \cap ds = {}, qs \subseteq us, FleetAt(a, Fl(us, ds), "on"), AtGoal(a, us, qs, "falling")
  PROVE  \E b : /\ FleetAt(b, Fl(us \ qs, ds \cup qs), "on") /\ b.goal = a.goal
                /\ Runs(o, Do("hv_vm_unmap", "main", qs) \o madvise("main", qs, "reusable")
                             \o Do("hv_vm_map", "main", qs), a, b)
<1>1. PICK r \in RamKnown : r = Fl(us, ds)
  BY FlIs
<1>2. /\ r.names = {"main"} /\ r.shown = Page
      /\ \A p \in Page : r.kind[p] = IF p \in us THEN "charged" ELSE IF p \in ds THEN "reusable" ELSE "none"
      /\ \A p \in Page : r.pin[p] = IF p \in us THEN "yes" ELSE "no"
      /\ \A p \in Page : r.ink[p] = IF p \in us \cup ds THEN "guest" ELSE "any"
  BY <1>1, FlSays
<1>3. PICK s \in RamKnown : s = Hidden(r, qs)
  BY HiddenDoes
<1>4. /\ s.names = r.names /\ s.shown = r.shown \ qs
      /\ \A p \in Page : s.kind[p] = IF p \in qs THEN HiddenKind(r.kind[p], r.pin[p]) ELSE r.kind[p]
      /\ \A p \in Page : s.pin[p] = IF p \in qs THEN "no" ELSE r.pin[p]
      /\ \A p \in Page : s.ink[p] = r.ink[p]
  BY <1>3, HiddenDoes
<1>5. \A p \in Page : s.kind[p] = IF p \in qs THEN "freed" ELSE r.kind[p]
  BY <1>2, <1>4 DEF HiddenKind
<1>6. PICK t \in RamKnown : t = Advised(s, qs, "reusable")
  BY AdvisedDoes
<1>7. t.names = s.names /\ t.shown = s.shown /\ \A p \in Page : t.pin[p] = s.pin[p] /\ t.ink[p] = s.ink[p]
  BY <1>6 DEF Advised, RamKnown
<1>8. \A p \in Page : t.kind[p] = IF p \in qs THEN "reusable" ELSE r.kind[p]
  <2> TAKE p \in Page
  <2>1. CASE p \in qs
    <3>1. s.kind[p] = "freed" /\ s.pin[p] = "no"
      BY <1>4, <1>5, <2>1
    <3>2. QED
      BY <1>6, <2>1, <3>1 DEF Advised, RamKnown, AdvisedKind
  <2>2. CASE p \notin qs
    <3>1. t.kind[p] = s.kind[p]
      BY <1>6, <2>2 DEF Advised, RamKnown
    <3>2. QED
      BY <1>5, <2>2, <3>1
  <2>3. QED
    BY <2>1, <2>2
<1>9. PICK u \in RamKnown : u = Shown(t, qs)
  BY ShownDoes
<1>10. u.names = t.names /\ u.shown = t.shown \cup qs
       /\ \A p \in Page : u.kind[p] = t.kind[p] /\ u.pin[p] = t.pin[p] /\ u.ink[p] = t.ink[p]
  BY <1>9, ShownDoes
<1>11. PICK vs \in SUBSET Page, es \in SUBSET Page : vs = us \ qs /\ es = ds \cup qs
  OBVIOUS
<1>12. PICK w \in RamKnown : w = Fl(vs, es)
  BY FlIs
<1>13. /\ w.names = {"main"} /\ w.shown = Page
       /\ \A p \in Page : w.kind[p] = IF p \in vs THEN "charged" ELSE IF p \in es THEN "reusable" ELSE "none"
       /\ \A p \in Page : w.pin[p] = IF p \in vs THEN "yes" ELSE "no"
       /\ \A p \in Page : w.ink[p] = IF p \in vs \cup es THEN "guest" ELSE "any"
  BY <1>12, FlSays
<1>14. u = w
  <2>1. u.names = w.names
    BY <1>2, <1>4, <1>7, <1>10, <1>13
  <2>2. u.shown = w.shown
    BY <1>2, <1>4, <1>7, <1>10, <1>13
  <2>3. \A p \in Page : u.kind[p] = w.kind[p]
    BY <1>2, <1>8, <1>10, <1>11, <1>13
  <2>4. \A p \in Page : u.pin[p] = w.pin[p]
    BY <1>2, <1>4, <1>7, <1>10, <1>11, <1>13
  <2>5. \A p \in Page : u.ink[p] = w.ink[p]
    BY <1>2, <1>4, <1>7, <1>10, <1>11, <1>13
  <2>6. QED
    BY <2>1, <2>2, <2>3, <2>4, <2>5, SameRam
<1>15. a \in Known /\ a.can = NoCan /\ a.sur.of = "none" /\ FleetAt(a, r, "on")
  BY <1>1 DEF FleetAt
<1>16. OnGoal(o, With(a, s))
  <2>1. us \ qs \subseteq Charged(s) /\ Maybe(s) \subseteq us
    BY <1>2, <1>5 DEF Charged, Maybe
  <2>2. QED
    BY <1>15, <2>1, FlFalls
<1>17. OnGoal(o, With(a, t))
  <2>1. us \ qs \subseteq Charged(t) /\ Maybe(t) \subseteq us
    BY <1>2, <1>8 DEF Charged, Maybe
  <2>2. QED
    BY <1>15, <2>1, FlFalls
<1>18. OnGoal(o, With(a, u))
  <2>1. us \ qs \subseteq Charged(u) /\ Maybe(u) \subseteq us
    BY <1>2, <1>8, <1>10 DEF Charged, Maybe
  <2>2. QED
    BY <1>15, <2>1, FlFalls
<1>19. "main" \in r.names /\ qs \subseteq r.shown
  BY <1>2
<1>20. "main" \in s.names
  BY <1>4, <1>19
<1>21. "main" \in t.names /\ qs \cap t.shown = {}
  BY <1>4, <1>7, <1>20
<1>22. \A p \in qs : t.kind[p] # "hole"
  BY <1>8
<1>23. Runs(o, Do("hv_vm_unmap", "main", qs), With(a, r), With(a, s))
  BY <1>3, <1>15, <1>16, <1>19, UnmapRuns
<1>24. Runs(o, madvise("main", qs, "reusable"), With(a, s), With(a, t))
  BY <1>6, <1>15, <1>17, <1>20, AdviseRuns
<1>25. Runs(o, Do("hv_vm_map", "main", qs), With(a, t), With(a, u))
  BY <1>9, <1>15, <1>18, <1>21, <1>22, MapRuns
<1>26. PICK h : h = Do("hv_vm_unmap", "main", qs) \o madvise("main", qs, "reusable") \o Do("hv_vm_map", "main", qs)
  OBVIOUS
<1>27. Runs(o, h, With(a, r), With(a, u))
  BY <1>23, <1>24, <1>25, <1>26, RunsBoth
<1>28. \E b : FleetAt(b, u, "on") /\ b.goal = a.goal /\ Runs(o, h, a, b)
  BY <1>15, <1>27, FleetStep
<1>29. QED
  BY <1>11, <1>12, <1>14, <1>26, <1>28

\* The region of the service after the i-th, if there is one.
NextRegion(i, n, x) == IF i < n THEN Span(i * x, (i + 1) * x) ELSE {}

\* It is no more than a region.
LEMMA NextRegionIs ==
  ASSUME NEW x \in Nat, NEW n \in Nat, n * x <= Pages, NEW i \in 0..n
  PROVE  NextRegion(i, n, x) \in SUBSET Page /\ Cardinality(NextRegion(i, n, x)) <= x
<1>1. CASE i < n
  <2>1. PICK j \in 1..n : j = i + 1 /\ i = j - 1
    <3>1. i + 1 \in 1..n /\ i = (i + 1) - 1
      BY <1>1
    <3>2. QED
      BY <3>1
  <2>2. j * x = (j - 1) * x + x /\ Span((j - 1) * x, j * x) \in SUBSET Page /\ (j - 1) * x \in 0..Pages
    BY NextSpan
  <2>3. PICK lo \in Nat : lo = i * x /\ (i + 1) * x = lo + x
    BY <2>1, <2>2, MachineAssumption
  <2>4. NextRegion(i, n, x) = lo..(lo + x - 1) /\ NextRegion(i, n, x) \in SUBSET Page
    BY <1>1, <2>1, <2>2, <2>3 DEF NextRegion, Span
  <2>5. lo \in Int /\ lo + x - 1 \in Int
    OBVIOUS
  <2>6. Cardinality(lo..(lo + x - 1)) = IF lo > lo + x - 1 THEN 0 ELSE (lo + x - 1) - lo + 1
    BY <2>5, FS_Interval
  <2>7. Cardinality(lo..(lo + x - 1)) <= x
    BY <2>6
  <2>8. QED
    BY <2>4, <2>7
<1>2. CASE ~(i < n)
  <2>1. NextRegion(i, n, x) = {} /\ Cardinality({}) = 0
    BY <1>2, FS_EmptySet DEF NextRegion
  <2>2. QED
    BY <2>1
<1>3. QED
  BY <1>1, <1>2

\* The ends of the i-th region, and of all of them.
LEMMA RegionEnds ==
  ASSUME NEW x \in Nat, NEW n \in Nat, n * x <= Pages, NEW i \in 1..n
  PROVE  \E lo \in Nat, hi \in Nat, m \in Nat :
           /\ lo = (i - 1) * x /\ hi = i * x /\ m = n * x
           /\ lo <= hi /\ hi <= m /\ m <= Pages
<1>1. (i - 1) * x \in 0..Pages /\ i * x \in (i - 1) * x..Pages
  BY NextSpan
<1>2. i * x <= n * x /\ n * x \in Nat
  <2>1. i \in Nat /\ i <= n
    OBVIOUS
  <2>2. QED
    BY <2>1, Multiples
<1>3. QED
  BY <1>1, <1>2, MachineAssumption

\* A fleet run after i of its n services have started.
Started(i, n, x) ==
  {a \in Known : /\ FleetAt(a, Fl(Span(0, i * x), {}), "on")
                 /\ AtGoal(a, Span(0, i * x), NextRegion(i, n, x), "rising")}

\* After i of them have stopped.
Ebbed(i, n, x) ==
  {a \in Known : /\ FleetAt(a, Fl(Span(i * x, n * x), Span(0, i * x)), "on")
                 /\ AtGoal(a, Span(i * x, n * x), NextRegion(i, n, x), "falling")}

\* The i-th service starts.
LEMMA FleetStarts ==
  ASSUME NEW x \in Nat, x = opts.region, NEW n \in Nat, n * x <= Pages, NEW i \in 1..n,
         NEW a \in Started(i - 1, n, x)
  PROVE  \E b \in Started(i, n, x) : Runs(opts, fleet_start(i), a, b)
<1>1. PICK o : o = opts
  OBVIOUS
<1>2. PICK lo \in 0..Pages : lo = (i - 1) * x
  BY NextSpan
<1>3. PICK hi \in lo..Pages : hi = i * x
  BY <1>2, NextSpan
<1>4. PICK us \in SUBSET Page, qs \in SUBSET Page, vs \in SUBSET Page :
        /\ us = Span(0, lo) /\ qs = Span(lo, hi) /\ vs = Span(0, hi) /\ vs = us \cup qs /\ us \cap qs = {}
  <2>1. /\ Span(0, (i - 1) * x) \in SUBSET Page /\ Span((i - 1) * x, i * x) \in SUBSET Page
        /\ Span(0, i * x) = Span(0, (i - 1) * x) \cup Span((i - 1) * x, i * x)
        /\ Span(0, (i - 1) * x) \cap Span((i - 1) * x, i * x) = {}
    BY NextSpan
  <2>2. QED
    BY <1>2, <1>3, <2>1
<1>5. NextRegion(i - 1, n, x) = Span(lo, hi)
  <2>1. i - 1 < n /\ (i - 1) + 1 = i
    OBVIOUS
  <2>2. QED
    BY <1>2, <1>3, <2>1 DEF NextRegion
<1>6. FleetAt(a, Fl(us, {}), "on") /\ AtGoal(a, us, Span(lo, hi), "rising")
  BY <1>2, <1>4, <1>5 DEF Started
<1>7. us \cap Span(lo, hi) = {}
  BY <1>4
<1>8. PICK b : FleetAt(b, Fl(us \cup Span(lo, hi), {}), "on") /\ Runs(o, run_touch_range(lo, hi), a, b)
  BY <1>6, <1>7, StartRuns
<1>9. PICK r \in RamKnown : r = Fl(vs, {}) /\ FleetAt(b, r, "on")
  BY <1>4, <1>8, FlIs
<1>10. Charged(r) = vs /\ Maybe(r) = vs
  BY <1>9, FlCharge
<1>11. PICK next \in SUBSET Page : next = NextRegion(i, n, x) /\ Cardinality(next) <= o.region
  <2>1. i \in 0..n
    OBVIOUS
  <2>2. QED
    BY <1>1, <2>1, NextRegionIs
<1>12. PICK c : FleetAt(c, r, "on") /\ AtGoal(c, vs, next, "rising") /\ Runs(o, mark(vs, "rising"), b, c)
  BY <1>9, <1>10, <1>11, MarkRuns
<1>13. c \in Started(i, n, x)
  <2>1. c \in Known
    BY <1>12 DEF FleetAt
  <2>2. QED
    BY <1>3, <1>4, <1>9, <1>11, <1>12, <2>1 DEF Started
<1>14. fleet_start(i) = run_touch_range(lo, hi) \o mark(vs, "rising")
  BY <1>2, <1>3, <1>4 DEF fleet_start
<1>15. Runs(o, fleet_start(i), a, c)
  BY <1>8, <1>12, <1>14, RunsBoth
<1>16. QED
  BY <1>1, <1>13, <1>15

\* The i-th service stops.
LEMMA FleetStops ==
  ASSUME NEW x \in Nat, x = opts.region, NEW n \in Nat, n = opts.services, n * x <= Pages, NEW i \in 1..n,
         NEW a \in Ebbed(i - 1, n, x)
  PROVE  \E b \in Ebbed(i, n, x) : Runs(opts, fleet_stop(i), a, b)
<1>1. PICK o : o = opts
  OBVIOUS
<1>2. PICK us \in SUBSET Page, ds \in SUBSET Page, qs \in SUBSET Page, vs \in SUBSET Page, es \in SUBSET Page :
        /\ us = Span((i - 1) * x, n * x) /\ ds = Span(0, (i - 1) * x) /\ qs = Span((i - 1) * x, i * x)
        /\ vs = Span(i * x, n * x) /\ es = Span(0, i * x)
        /\ vs = us \ qs /\ es = ds \cup qs /\ us \cap ds = {} /\ qs \subseteq us
  <2>1. PICK lo \in Nat, hi \in Nat, m \in Nat :
          /\ lo = (i - 1) * x /\ hi = i * x /\ m = n * x
          /\ lo <= hi /\ hi <= m /\ m <= Pages
    BY RegionEnds
  <2>2. /\ Span(lo, m) \in SUBSET Page /\ Span(hi, m) \in SUBSET Page /\ Span(lo, hi) \in SUBSET Page
        /\ Span(0, lo) \in SUBSET Page /\ Span(0, hi) \in SUBSET Page
    BY <2>1, MachineAssumption DEF Span, Page
  <2>3. /\ Span(hi, m) = Span(lo, m) \ Span(lo, hi) /\ Span(lo, hi) \subseteq Span(lo, m)
        /\ Span(lo, m) \cap Span(0, lo) = {} /\ Span(0, hi) = Span(0, lo) \cup Span(lo, hi)
    BY <2>1, MachineAssumption DEF Span, Page
  <2>4. QED
    BY <2>1, <2>2, <2>3
<1>3. NextRegion(i - 1, n, x) = qs
  <2>1. i - 1 < n /\ (i - 1) + 1 = i
    OBVIOUS
  <2>2. QED
    BY <1>2, <2>1 DEF NextRegion
<1>4. FleetAt(a, Fl(us, ds), "on") /\ AtGoal(a, us, qs, "falling")
  BY <1>2, <1>3 DEF Ebbed
<1>5. PICK h : h = Do("hv_vm_unmap", "main", qs) \o madvise("main", qs, "reusable") \o Do("hv_vm_map", "main", qs)
  OBVIOUS
<1>6. PICK b : FleetAt(b, Fl(us \ qs, ds \cup qs), "on") /\ Runs(o, h, a, b)
  BY <1>2, <1>4, <1>5, StopRuns
<1>7. PICK r \in RamKnown : r = Fl(vs, es) /\ FleetAt(b, r, "on")
  BY <1>2, <1>6, FlIs
<1>8. Charged(r) = vs /\ Maybe(r) = vs
  BY <1>7, FlCharge
<1>9. PICK next \in SUBSET Page : next = NextRegion(i, n, x) /\ Cardinality(next) <= o.region
  <2>1. i \in 0..n
    OBVIOUS
  <2>2. QED
    BY <1>1, <2>1, NextRegionIs
<1>10. PICK c : FleetAt(c, r, "on") /\ AtGoal(c, vs, next, "falling") /\ Runs(o, mark(vs, "falling"), b, c)
  BY <1>7, <1>8, <1>9, MarkRuns
<1>11. c \in Ebbed(i, n, x)
  <2>1. c \in Known
    BY <1>10 DEF FleetAt
  <2>2. QED
    BY <1>2, <1>7, <1>9, <1>10, <2>1 DEF Ebbed
<1>12. fleet_stop(i) = h \o mark(vs, "falling")
  BY <1>2, <1>5 DEF fleet_stop
<1>13. Runs(o, fleet_stop(i), a, c)
  BY <1>6, <1>10, <1>12, RunsBoth
<1>14. QED
  BY <1>1, <1>11, <1>13

\* Nothing is charged: the run is on its goal.
LEMMA FlIdle ==
  ASSUME NEW o, NEW a, NEW ds \in SUBSET Page, NEW s, FleetAt(a, Fl({}, ds), s), a.goal.upset = {}
  PROVE  OnGoal(o, a) /\ OnGoal(o, With(a, Unshown(Fl({}, ds))))
<1>1. PICK r \in RamKnown : r = Fl({}, ds)
  <2>1. {} \in SUBSET Page
    OBVIOUS
  <2>2. QED
    BY <2>1, FlIs
<1>2. \A p \in Page : r.kind[p] = IF p \in {} THEN "charged" ELSE IF p \in ds THEN "reusable" ELSE "none"
  BY <1>1, FlSays
<1>3. \A p \in Page : r.kind[p] \notin {"charged", "freed", "any"}
  BY <1>2
<1>4. PICK u \in RamKnown : u = Unshown(r)
  BY UnshownDoes
<1>5. \A p \in Page : u.kind[p] = r.kind[p]
  BY <1>4, UnshownDoes
<1>6. \A p \in Page : u.kind[p] \notin {"charged", "freed", "any"}
  BY <1>3, <1>5
<1>7. a \in Known /\ a.can.up = "no" /\ a.ram = r
  BY <1>1 DEF FleetAt, NoCan
<1>8. OnGoal(o, With(a, r)) /\ OnGoal(o, With(a, u))
  BY <1>3, <1>6, <1>7, Uncharged
<1>9. With(a, r) = a
  BY <1>7, WithIs
<1>10. QED
  BY <1>1, <1>4, <1>8, <1>9

\* All the services start.
LEMMA AllStart ==
  ASSUME NEW x \in Nat, x = opts.region, NEW n \in Nat, n = opts.services, n * x <= Pages,
         NEW a \in Started(0, n, x)
  PROVE  \E b \in Started(n, n, x) :
           Runs(opts, Repeat(opts.services, [i \in 1..opts.services |-> fleet_start(i)]), a, b)
<1>1. PICK P : P = [i \in 0..n |-> Started(i, n, x)]
  OBVIOUS
<1>2. PICK part : part = [i \in 1..n |-> fleet_start(i)]
  OBVIOUS
<1>3. a \in P[0] /\ a \in Known
  <2>1. 0 \in 0..n
    OBVIOUS
  <2>2. QED
    BY <1>1, <2>1 DEF Started
<1>4. ASSUME NEW i \in 1..n, NEW y \in P[i - 1] PROVE \E z \in P[i] : Runs(opts, part[i], y, z)
  <2>1. y \in Started(i - 1, n, x) /\ P[i] = Started(i, n, x) /\ part[i] = fleet_start(i)
    BY <1>1, <1>2
  <2>2. QED
    BY <2>1, FleetStarts
<1>5. PICK b \in P[n] : Runs(opts, Repeat(n, part), a, b)
  BY <1>3, <1>4, RunsLoop
<1>6. b \in Started(n, n, x)
  BY <1>1
<1>7. QED
  BY <1>2, <1>5, <1>6

\* All of them stop.
LEMMA AllStop ==
  ASSUME NEW x \in Nat, x = opts.region, NEW n \in Nat, n = opts.services, n * x <= Pages,
         NEW a \in Ebbed(0, n, x)
  PROVE  \E b \in Ebbed(n, n, x) :
           Runs(opts, Repeat(opts.services, [i \in 1..opts.services |-> fleet_stop(i)]), a, b)
<1>1. PICK P : P = [i \in 0..n |-> Ebbed(i, n, x)]
  OBVIOUS
<1>2. PICK part : part = [i \in 1..n |-> fleet_stop(i)]
  OBVIOUS
<1>3. a \in P[0] /\ a \in Known
  <2>1. 0 \in 0..n
    OBVIOUS
  <2>2. QED
    BY <1>1, <2>1 DEF Ebbed
<1>4. ASSUME NEW i \in 1..n, NEW y \in P[i - 1] PROVE \E z \in P[i] : Runs(opts, part[i], y, z)
  <2>1. y \in Ebbed(i - 1, n, x) /\ P[i] = Ebbed(i, n, x) /\ part[i] = fleet_stop(i)
    BY <1>1, <1>2
  <2>2. \E z \in Ebbed(i, n, x) : Runs(opts, fleet_stop(i), y, z)
    BY <2>1, FleetStops, Zenon
  <2>3. QED
    BY <2>1, <2>2
<1>5. PICK b \in P[n] : Runs(opts, Repeat(n, part), a, b)
  BY <1>3, <1>4, RunsLoop
<1>6. b \in Ebbed(n, n, x)
  BY <1>1
<1>7. QED
  BY <1>2, <1>5, <1>6

\* hv-reclaim --fleet-sim.
LEMMA FleetRuns ==
  ASSUME opts \in ValidOptions, opts.tool = "fleet", NEW a, Empty(a, {}, "calm"), a.goal.upset = {}
  PROVE  \E e \in Known : Runs(opts, setup \o fleet_sim_run \o teardown, a, e) /\ Final(e)
<1>1. PICK o : o = opts
  OBVIOUS
<1>2. PICK x \in Nat : x = opts.region
  BY OptionsAre, MachineAssumption
<1>3. PICK n \in Nat : n = opts.services
  BY OptionsAre, RepeatAssumption
<1>4. n * x <= Pages
  BY <1>2, <1>3, OptionsAre DEF parse_args
<1>5. /\ {"main"} \in SUBSET {"main", "local"} /\ {} \in SUBSET {"main", "local"}
      /\ Page \in SUBSET Page /\ {} \in SUBSET Page
  OBVIOUS
<1>6. PICK r0 \in RamKnown : r0 = Ram({}, "hole", "no", {}, "any")
  BY <1>5, RamIs, KindsStay
<1>7. PICK r1 \in RamKnown : r1 = Fl({}, {})
  BY <1>5, FlIs
<1>8. PICK b1 : FleetAt(b1, r1, "off") /\ b1.goal = a.goal /\ Runs(o, setup, a, b1)
  <2>1. FleetAt(a, r0, "off") /\ a \in Known /\ a.sur.of = "none" /\ a.press = "calm" /\ a.can.up = "no"
    BY <1>6 DEF Empty, Stands, FleetAt, NoCan
  <2>2. r1 = Ram({"main"}, "none", "no", Page, "any")
    BY <1>7, FlFresh
  <2>3. "any" \in {"any", "host", "guest"}
    OBVIOUS
  <2>4. Runs(o, setup, With(a, r0), With(a, r1))
    BY <1>5, <1>6, <2>1, <2>2, <2>3, SetupRuns
  <2>5. QED
    BY <2>1, <2>4, FleetStep
<1>9. PICK b2 : FleetAt(b2, r1, "on") /\ Runs(o, Do("spawn sampler", "main", {}), b1, b2)
  <2>1. OnGoal(o, b1)
    BY <1>5, <1>7, <1>8, FlIdle
  <2>2. QED
    BY <1>8, <2>1, SamplerRuns
<1>10. PICK b3 \in Started(0, n, x) : Runs(o, mark({}, "rising"), b2, b3)
  <2>1. PICK next \in SUBSET Page : next = NextRegion(0, n, x) /\ Cardinality(next) <= o.region
    <3>1. 0 \in 0..n
      OBVIOUS
    <3>2. QED
      BY <1>1, <1>2, <1>4, <3>1, NextRegionIs
  <2>2. Charged(r1) = {} /\ Maybe(r1) = {}
    BY <1>5, <1>7, FlCharge
  <2>3. PICK b : FleetAt(b, r1, "on") /\ AtGoal(b, {}, next, "rising") /\ Runs(o, mark({}, "rising"), b2, b)
    BY <1>5, <1>9, <2>1, <2>2, MarkRuns
  <2>4. 0 * x = 0 /\ Span(0, 0) = {} /\ b \in Known
    BY <2>3 DEF Span, FleetAt
  <2>5. b \in Started(0, n, x)
    BY <1>7, <2>1, <2>3, <2>4 DEF Started
  <2>6. QED
    BY <2>3, <2>5
<1>11. PICK starts : starts = Repeat(opts.services, [i \in 1..opts.services |-> fleet_start(i)])
  OBVIOUS
<1>12. PICK b4 \in Started(n, n, x) : Runs(o, starts, b3, b4)
  BY <1>1, <1>2, <1>3, <1>4, <1>11, AllStart
<1>13. PICK us \in SUBSET Page : us = Span(0, n * x)
  <2>1. n * x \in 0..Pages /\ 0 \in 0..Pages
    BY <1>4, MachineAssumption
  <2>2. QED
    BY <2>1, Spans
<1>14. PICK b5 \in Ebbed(0, n, x) : Runs(o, mark(us, "falling"), b4, b5)
  <2>1. PICK next \in SUBSET Page : next = NextRegion(0, n, x) /\ Cardinality(next) <= o.region
    <3>1. 0 \in 0..n
      OBVIOUS
    <3>2. QED
      BY <1>1, <1>2, <1>4, <3>1, NextRegionIs
  <2>2. PICK r \in RamKnown : r = Fl(us, {}) /\ FleetAt(b4, r, "on")
    BY <1>5, <1>12, <1>13, FlIs DEF Started
  <2>3. Charged(r) = us /\ Maybe(r) = us
    BY <1>5, <2>2, FlCharge
  <2>4. PICK b : FleetAt(b, r, "on") /\ AtGoal(b, us, next, "falling") /\ Runs(o, mark(us, "falling"), b4, b)
    BY <2>1, <2>2, <2>3, MarkRuns
  <2>5. 0 * x = 0 /\ Span(0, 0) = {} /\ b \in Known
    BY <2>4 DEF Span, FleetAt
  <2>6. b \in Ebbed(0, n, x)
    BY <1>13, <2>1, <2>2, <2>4, <2>5 DEF Ebbed
  <2>7. QED
    BY <2>4, <2>6
<1>15. PICK stops : stops = Repeat(opts.services, [i \in 1..opts.services |-> fleet_stop(i)])
  OBVIOUS
<1>16. PICK b6 \in Ebbed(n, n, x) : Runs(o, stops, b5, b6)
  BY <1>1, <1>2, <1>3, <1>4, <1>14, <1>15, AllStop
<1>17. PICK r \in RamKnown : r = Fl({}, us) /\ FleetAt(b6, r, "on")
  <2>1. n * x \in Nat
    OBVIOUS
  <2>2. Span(n * x, n * x) = {}
    BY <2>1 DEF Span
  <2>3. QED
    BY <1>5, <1>13, <1>16, <2>2, FlIs DEF Ebbed
<1>18. Charged(r) = {} /\ Maybe(r) = {}
  BY <1>5, <1>17, FlCharge
<1>19. Cardinality({}) <= o.region
  BY <1>1, <1>2, FS_EmptySet
<1>20. PICK b7 : FleetAt(b7, r, "on") /\ AtGoal(b7, {}, {}, "falling") /\ Runs(o, mark({}, "falling"), b6, b7)
  BY <1>5, <1>17, <1>18, <1>19, MarkRuns
<1>21. PICK b8 : FleetAt(b8, r, "on") /\ AtGoal(b8, {}, {}, "falling") /\ Runs(o, mark({}, "falling"), b7, b8)
  BY <1>5, <1>18, <1>19, <1>20, MarkRuns
<1>22. b8.goal.upset = {}
  BY <1>21 DEF AtGoal
<1>23. PICK b9 : FleetAt(b9, r, "on") /\ b9.goal = b8.goal /\ Runs(o, Do("stop sampler", "main", {}), b8, b9)
  <2>1. OnGoal(o, b8)
    BY <1>17, <1>21, <1>22, FlIdle
  <2>2. QED
    BY <1>21, <2>1, SamplerRuns
<1>24. PICK b10 : FleetAt(b10, r, "ended") /\ b10.goal = b9.goal /\ Runs(o, Do("join sampler", "main", {}), b9, b10)
  <2>1. OnGoal(o, b9)
    BY <1>17, <1>22, <1>23, FlIdle
  <2>2. QED
    BY <1>23, <2>1, SamplerRuns
<1>25. PICK e : FleetAt(e, Ram({"main"}, "hole", "no", {}, "any"), "ended") /\ Runs(o, teardown, b10, e)
  <2>1. OnGoal(o, With(b10, Unshown(r)))
    BY <1>17, <1>22, <1>23, <1>24, FlIdle
  <2>2. /\ b10 \in Known /\ b10.sur.of = "none" /\ b10.can.up = "no"
        /\ b10.goal.upset = {}
    <3>1. b10 \in Known /\ b10.sur.of = "none" /\ b10.can = NoCan
      BY <1>24 DEF FleetAt
    <3>2. b10.goal.upset = {}
      BY <1>22, <1>23, <1>24
    <3>3. QED
      BY <3>1, <3>2 DEF NoCan
  <2>3. r.names = {"main"}
    BY <1>17, FlSays
  <2>4. PICK q \in RamKnown : q = Ram({"main"}, "hole", "no", {}, "any")
    BY <1>5, RamIs, KindsStay
  <2>5. Runs(o, teardown, With(b10, r), With(b10, q))
    BY <2>1, <2>2, <2>3, <2>4, TeardownRuns
  <2>6. QED
    BY <1>24, <2>4, <2>5, FleetStep
<1>26. e \in Known /\ Final(e)
  <2>1. PICK q : q = Ram({"main"}, "hole", "no", {}, "any")
    OBVIOUS
  <2>2. q.shown = {} /\ \A p \in Page : q.kind[p] = "hole"
    BY <2>1, RamSays
  <2>3. e \in Known /\ e.ram = q /\ e.can = NoCan /\ e.press = "calm" /\ e.sampling = "ended"
    BY <1>25, <2>1 DEF FleetAt
  <2>4. QED
    BY <2>2, <2>3 DEF Final, NoCan
<1>27. PICK h1 : h1 = Do("spawn sampler", "main", {}) \o mark({}, "rising") \o starts
  OBVIOUS
<1>28. Runs(o, h1, b1, b4)
  BY <1>9, <1>10, <1>12, <1>27, RunsBoth
<1>29. PICK h2 : h2 = h1 \o mark(us, "falling") \o stops
  OBVIOUS
<1>30. Runs(o, h2, b1, b6)
  BY <1>14, <1>16, <1>28, <1>29, RunsBoth
<1>31. PICK h3 : h3 = h2 \o mark({}, "falling") \o mark({}, "falling")
  OBVIOUS
<1>32. Runs(o, h3, b1, b8)
  BY <1>20, <1>21, <1>30, <1>31, RunsBoth
<1>33. PICK h4 : h4 = h3 \o Do("stop sampler", "main", {}) \o Do("join sampler", "main", {})
  OBVIOUS
<1>34. Runs(o, h4, b1, b10)
  BY <1>23, <1>24, <1>32, <1>33, RunsBoth
<1>35. fleet_sim_run = h4
  BY <1>2, <1>3, <1>11, <1>13, <1>15, <1>27, <1>29, <1>31, <1>33 DEF fleet_sim_run
<1>36. Runs(o, setup \o fleet_sim_run \o teardown, a, e)
  BY <1>8, <1>25, <1>34, <1>35, RunsBoth
<1>37. QED
  BY <1>1, <1>26, <1>36

-----------------------------------------------------------------------------
(* The invariant of the tools. *)

\* What is known before the first call.
Start ==
  [ram |-> Ram({}, "hole", "no", {}, "any"), can |-> NoCan, press |-> "calm", sampling |-> "off",
   sur |-> [of |-> "none", k |-> 0], regs |-> [r \in Reading |-> "zero"], n |-> 0,
   goal |-> [upset |-> {}, next |-> {}, trend |-> "rising"]]

\* It is something known, of a machine with nothing on it.
LEMMA StartIs ==
  /\ Start \in Known /\ Empty(Start, {}, "calm") /\ Start.n = 0
  /\ Start.goal = [upset |-> {}, next |-> {}, trend |-> "rising"]
  /\ Start.regs \in [Reading -> {"zero"}]
<1>1. {} \in SUBSET {"main", "local"} /\ {} \in SUBSET Page /\ 0 \in 0..Pages
  BY MachineAssumption
<1>2. PICK r \in RamKnown : r = Ram({}, "hole", "no", {}, "any")
  BY <1>1, RamIs, KindsStay
<1>3. NoCan \in CanKnown
  BY <1>1 DEF NoCan, CanKnown
<1>4. [of |-> "none", k |-> 0] \in SurKnown
  BY <1>1 DEF SurKnown
<1>5. PICK g \in GoalKnown : g = [upset |-> {}, next |-> {}, trend |-> "rising"]
  BY <1>1 DEF GoalKnown
<1>6. PICK q \in [Reading -> {"zero"}] : q = [r2 \in Reading |-> "zero"]
  OBVIOUS
<1>7. q \in [Reading -> {"zero", "full", "any"}]
  BY <1>6
<1>8. Start = [ram |-> r, can |-> NoCan, press |-> "calm", sampling |-> "off",
               sur |-> [of |-> "none", k |-> 0], regs |-> q, n |-> 0, goal |-> g]
  BY <1>2, <1>5, <1>6 DEF Start
<1>9. Start \in Known
  BY <1>3, <1>4, <1>7, <1>8 DEF Known
<1>10. Start.ram = r /\ Start.can = NoCan /\ Start.press = "calm" /\ Start.sampling = "off"
       /\ Start.sur.of = "none" /\ Start.n = 0 /\ Start.goal = g /\ Start.regs = q
  BY <1>8
<1>11. Empty(Start, {}, "calm")
  BY <1>2, <1>9, <1>10 DEF Empty, Stands
<1>12. QED
  BY <1>5, <1>6, <1>9, <1>10, <1>11

\* Every program fits, whatever the command line.
LEMMA ProgramRuns ==
  ASSUME opts \in ValidOptions
  PROVE  \E e \in Known : Runs(opts, Program, Start, e) /\ Final(e)
<1>1. PICK a : a = Start
  OBVIOUS
<1>2. Empty(a, {}, "calm") /\ a.n = 0 /\ a.goal.upset = {}
  BY <1>1, StartIs
<1>3. CASE opts.tool = "plain"
  <2>1. Program = plain_run
    BY <1>3 DEF Program
  <2>2. QED
    BY <1>1, <1>2, <1>3, <2>1, PlainRuns
<1>4. CASE opts.tool = "time"
  <2>1. Program = setup \o timing_run \o teardown
    BY <1>4 DEF Program
  <2>2. QED
    BY <1>1, <1>2, <1>4, <2>1, TimingRuns
<1>5. CASE opts.tool = "fleet"
  <2>1. Program = setup \o fleet_sim_run \o teardown
    BY <1>5 DEF Program
  <2>2. QED
    BY <1>1, <1>2, <1>5, <2>1, FleetRuns
<1>6. CASE opts.tool = "calibrate"
  <2>1. Program = calibrate_madvise
    BY <1>6 DEF Program
  <2>2. QED
    BY <1>1, <1>2, <1>6, <2>1, CalibrateMadviseRuns
<1>7. CASE opts.tool = "discard"
  <2>1. Program = pressure_discard
    BY <1>7 DEF Program
  <2>2. QED
    BY <1>1, <1>2, <1>7, <2>1, DiscardRuns
<1>8. CASE opts.tool = "vz"
  <2>1. Program = vz_pressure
    BY <1>8 DEF Program
  <2>2. QED
    BY <1>1, <1>2, <1>8, <2>1, VzRuns
<1>9. QED
  BY <1>3, <1>4, <1>5, <1>6, <1>7, <1>8, OptionsAre

\* What is known at the start is true of the machine there.
LEMMA StartMatches ==
  ASSUME ToolsInit
  PROVE  Matches(Start, 0, 0)
<1>1. PICK a \in Known : a = Start
  BY StartIs
<1>2. PICK r : r = Ram({}, "hole", "no", {}, "any")
  OBVIOUS
<1>3. r.names = {} /\ r.shown = {} /\ \A p \in Page : r.kind[p] = "hole" /\ r.pin[p] = "no" /\ r.ink[p] = "any"
  BY <1>2, RamSays
<1>4. a.ram = r /\ a.can = NoCan /\ a.press = "calm" /\ a.sampling = "off" /\ a.sur.of = "none" /\ a.n = 0
      /\ a.goal = [upset |-> {}, next |-> {}, trend |-> "rising"] /\ a.regs \in [Reading -> {"zero"}]
  BY <1>1, <1>2, StartIs DEF Empty, Stands
<1>5. MachineInit /\ PressureInit
  BY DEF ToolsInit, MachineInit
<1>6. MapsMatch(a, 0, 0)
  <2>1. a.ram.names = {} /\ a.can.up = "no" /\ a.can.ink = {}
    BY <1>3, <1>4 DEF NoCan
  <2>2. \A k \in Mapping, p \in Page : host[k][p] = "hole"
    BY <1>5 DEF MachineInit
  <2>3. 0 \in 0..MaxMaps
    BY MachineAssumption
  <2>4. QED
    BY <2>1, <2>2, <2>3 DEF MapsMatch
<1>7. KindsMatch(a, 0, 0)
  BY <1>3, <1>4 DEF KindsMatch
<1>8. ShownMatch(a, 0)
  BY <1>3, <1>4, <1>5 DEF ShownMatch, MachineInit
<1>9. PinsMatch(a, 0)
  BY <1>3, <1>4, <1>5 DEF PinsMatch, MachineInit
<1>10. InksMatch(a, 0, 0)
  BY <1>3, <1>4 DEF InksMatch, NoCan
<1>11. PressMatch(a)
  BY <1>4, <1>5 DEF PressMatch, PressureInit
<1>12. SurveyMatch(a, 0, 0)
  BY <1>4 DEF SurveyMatch
<1>13. BookMatch(a)
  <2>1. \A x \in Reading : a.regs[x] = "zero" /\ reg[x] = 0
    BY <1>4, <1>5 DEF MachineInit
  <2>2. a.n = Len(rows)
    BY <1>4, <1>5 DEF MachineInit
  <2>3. QED
    BY <2>1, <2>2 DEF BookMatch
<1>14. SamplerMatch(a)
  BY <1>4, <1>5 DEF SamplerMatch, MachineInit
<1>15. GoalMatch(a)
  <2>1. a.goal.upset = {} /\ a.goal.next = {} /\ a.goal.trend = "rising"
    BY <1>4
  <2>2. Maybe(r) = {}
    BY <1>3 DEF Maybe
  <2>3. OnGoal(opts, a)
    BY <1>4, <2>1, <2>2 DEF OnGoal, NoCan
  <2>4. opts.region \in Nat
    BY OptionsAre, MachineAssumption DEF ToolsInit
  <2>5. up = [pages |-> 0, trend |-> "rising"] /\ Cardinality({}) = 0
    BY <1>5, FS_EmptySet DEF MachineInit
  <2>6. QED
    BY <2>1, <2>3, <2>4, <2>5 DEF GoalMatch
<1>16. Matches(a, 0, 0)
  BY <1>6, <1>7, <1>8, <1>9, <1>10, <1>11, <1>12, <1>13, <1>14, <1>15 DEF Matches
<1>17. QED
  BY <1>1, <1>16

\* The machine has its types at the start.
LEMMA MachineStarts ==
  ASSUME MachineInit
  PROVE  MachineTypeOK
<1>1. 0 \in 0..MaxMaps /\ 0 \in 0..Pages
  BY MachineAssumption
<1>2. /\ host \in [Mapping -> [Page -> {"hole", "none", "charged", "reusable", "sticky"}]]
      /\ val \in [Mapping -> [Page -> {"zero", "host", "guest"}]]
      /\ stage2 \in [Page -> 0..MaxMaps]
  BY <1>1 DEF MachineInit
<1>3. /\ {pinned, loose, gone} \subseteq SUBSET (Mapping \X Page)
      /\ env \in [Pointer -> 0..MaxMaps] /\ reg \in [Reading -> Nat]
  BY <1>1 DEF MachineInit
<1>4. /\ tally \in 0..Pages /\ from \in 0..Pages /\ sampler \in {"off", "idle", "read", "ended"}
      /\ since \in 0..2 /\ status \in {"running", "done", "panicked", "refused"}
  BY <1>1 DEF MachineInit
<1>5. QED
  BY <1>2, <1>3, <1>4 DEF MachineTypeOK

\* The invariant holds at the start.
LEMMA ToolsInitInv == ToolsInit => ToolsInv
<1> SUFFICES ASSUME ToolsInit PROVE ToolsInv
  OBVIOUS
<1>1. /\ opts \in ValidOptions /\ MachineInit /\ PressureInit /\ todo = Program /\ status = "running"
      /\ loads \in [charge : BOOLEAN, pin : BOOLEAN]
  BY DEF ToolsInit, MachineInit
<1>2. PressureInv
  BY <1>1, PressureInitInv
<1>3. ToolsTypeOK
  BY <1>1, <1>2, MachineStarts DEF ToolsTypeOK, PressureInv
<1>4. Stage2Backed /\ NothingLeft
  BY <1>1 DEF Stage2Backed, NothingLeft, MachineInit
<1>5. RowsRight
  <2>1. rows = <<>>
    BY <1>1 DEF MachineInit
  <2>2. rows \in Seq([after : Reading, before : Reading, delta : Int]) /\ DOMAIN rows = {}
    BY <2>1
  <2>3. RowsValid
    BY <2>2 DEF RowsValid, RowsOf
  <2>4. QED
    BY <2>2, <2>3 DEF RowsRight
<1>6. SurveysHonest
  BY <1>1 DEF SurveysHonest, MachineInit
<1>7. SamplesRight
  BY <1>1 DEF SamplesRight, MachineInit
<1>8. Following
  <2>1. PICK e \in Known : Runs(opts, Program, Start, e) /\ Final(e)
    BY <1>1, ProgramRuns
  <2>2. 0 \in 0..MaxMaps
    BY MachineAssumption
  <2>3. Start \in Known /\ Matches(Start, 0, 0)
    BY StartIs, StartMatches
  <2>4. QED
    BY <1>1, <2>1, <2>2, <2>3 DEF Following
<1>9. QED
  BY <1>1, <1>2, <1>3, <1>4, <1>5, <1>6, <1>7, <1>8 DEF ToolsInv

(***************************************************************************)
(* Every tool, for every valid command line, every number of pages,        *)
(* cycles, services and extents, and whatever the kernel, the generator,   *)
(* the sampling thread and failing calls do: the machine is at every point *)
(* as the program of the tool needs it to be.                              *)
(***************************************************************************)
THEOREM ToolsInvariant == ToolsSpec => []ToolsInv
<1>1. ToolsInit => ToolsInv
  BY ToolsInitInv
<1>2. ToolsInv /\ [ToolsNext]_vars => ToolsInv'
  BY ToolsStepInv
<1>3. QED
  BY <1>1, <1>2, PTL DEF ToolsSpec

\* The variables of the tools, of the machine and of the generator keep their types.
THEOREM ToolsTypeCorrect == ToolsSpec => []ToolsTypeOK
<1>1. ToolsInv => ToolsTypeOK
  BY DEF ToolsInv
<1>2. QED
  BY <1>1, ToolsInvariant, PTL

(***************************************************************************)
(* The calls of main.rs, timing.rs and fleet_sim.rs fit together: no guest *)
(* page is ever mapped onto memory that has been given back, and check and *)
(* run_to_doorbell never panic over the tool's own order of map, unmap and *)
(* touch, for every extent that divides the RAM and every region.          *)
(***************************************************************************)
THEOREM ToolsMappingsFit == ToolsSpec => []MappingsFit
<1>1. ToolsInv => MappingsFit
  BY DEF ToolsInv, MappingsFit
<1>2. QED
  BY <1>1, ToolsInvariant, PTL

\* A tool that ends leaves no mapping, no stage-2 entry, no generator and no
\* sampling thread: teardown, Canary's Drop, the guard's Drop and the join
\* reach everything that the program made.
THEOREM ToolsLeaveNothing == ToolsSpec => []NothingLeft
<1>1. ToolsInv => NothingLeft
  BY DEF ToolsInv
<1>2. QED
  BY <1>1, ToolsInvariant, PTL

\* The deltas that hv-reclaim, --time-reclaim and calibrate-madvise report are
\* all of the RAM, or nothing of it, just where the code says so.
THEOREM ToolsRowsValid == ToolsSpec => []RowsValid
<1>1. ToolsInv => RowsValid
  BY DEF ToolsInv, RowsRight
<1>2. QED
  BY <1>1, ToolsInvariant, PTL

\* At the next call, if it is a MARK, the footprint is what the MARK will say.
LEMMA MarksTrue ==
  ASSUME ToolsInv
  PROVE  FootprintTracksFleet
<1> SUFFICES ASSUME todo # <<>>, It.op = "mark" PROVE Footprint = Cardinality(It.pages)
  BY DEF FootprintTracksFleet
<1>1. Following /\ MachineTypeOK
  BY DEF ToolsInv, ToolsTypeOK
<1>2. PICK a \in Known, e \in Known, m \in 0..MaxMaps, c \in 0..MaxMaps :
        Runs(opts, todo, a, e) /\ Matches(a, m, c)
  BY <1>1 DEF Following
<1>3. PICK b \in Known : Effect(opts, Head(todo), a, b)
  BY <1>2, RunsHead
<1>4. AfterMark(opts, It, a, b)
  BY <1>3 DEF Effect, It
<1>5. a.can.up = "no" /\ Charged(a.ram) = It.pages /\ Maybe(a.ram) = It.pages
  BY <1>4 DEF AfterMark
<1>6. MapsMatch(a, m, c) /\ KindsMatch(a, m, c)
  BY <1>2 DEF Matches
<1>7. Cardinality(It.pages) <= Footprint /\ Footprint <= Cardinality(It.pages)
      /\ Footprint \in Nat /\ Cardinality(It.pages) \in Nat
  BY <1>1, <1>5, <1>6, FootprintBetween
<1>8. QED
  BY <1>7

(***************************************************************************)
(* The trace of --fleet-sim: at every MARK the task is charged for just    *)
(* the regions of the services that are up, and the second SAMPLE after it *)
(* is of that, up to the one service that starts or stops next, although   *)
(* the sampling thread reads first and prints later.                       *)
(***************************************************************************)
THEOREM ToolsTraceTracksFleet == ToolsSpec => []TraceTracksFleet
<1>1. ToolsInv => TraceTracksFleet
  <2> SUFFICES ASSUME ToolsInv PROVE TraceTracksFleet
    OBVIOUS
  <2>1. SecondSampleTracks
    BY DEF ToolsInv, SamplesRight, SecondSampleTracks, Between
  <2>2. QED
    BY <2>1, MarksTrue DEF TraceTracksFleet
<1>2. QED
  BY <1>1, ToolsInvariant, PTL

\* A survey counts at least the pages gone when it began and at most those gone
\* when it ended, and so Verdict::conclusive is right in both directions, although
\* the kernel goes on taking pages while the survey reads.
THEOREM ToolsSurveysHonest == ToolsSpec => []SurveysHonest
<1>1. ToolsInv => SurveysHonest
  BY DEF ToolsInv
<1>2. QED
  BY <1>1, ToolsInvariant, PTL

\* In the tools too, a generator runs only between apply and the guard's drop, or
\* as an orphan of a tool that was killed.
THEOREM ToolsGeneratorGuarded == ToolsSpec => []NoGeneratorWithoutGuard
<1>1. ToolsInv => NoGeneratorWithoutGuard
  BY DEF ToolsInv, PressureInv, Chain, NoGeneratorWithoutGuard
<1>2. QED
  BY <1>1, ToolsInvariant, PTL

\* And apply gives no guard before the generator has reported.
THEOREM ToolsGuardReported == ToolsSpec => []GuardAfterReport
<1>1. ToolsInv => GuardAfterReport
  BY DEF ToolsInv, PressureInv, Chain, GuardAfterReport
<1>2. QED
  BY <1>1, ToolsInvariant, PTL
=============================================================================
