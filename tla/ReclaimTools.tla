---------------------------- MODULE ReclaimTools ----------------------------
(***************************************************************************)
(* The measurement tools as programs of the HostMachine: hv-reclaim's      *)
(* plain run with the parked probe, its --time-reclaim and --fleet-sim     *)
(* modes, calibrate-madvise, pressure-discard, and the pressure phase of   *)
(* vz-ratchet.  Each function of the code is an operator that gives the    *)
(* calls it makes, in order; opts picks the tool and its command line.     *)
(***************************************************************************)
EXTENDS HostMachine

CONSTANTS MaxRepeat,     \* bound on --repeat
          MaxServices    \* bound on the services of --fleet-sim

ASSUME RepeatAssumption == MaxRepeat \in Nat \ {0} /\ MaxServices \in Nat

VARIABLE opts

fixedVars == <<opts, loads>>
vars == <<machineVars, fixedVars>>

(***************************************************************************)
(* The command lines parse_args and the modes' own asserts let through, in *)
(* pages instead of GiB.  touch is what dirties the RAM: the guest, the    *)
(* host (--host-touch) or guest loads (--guest-read).  An option the tool  *)
(* does not look at has its default here.                                  *)
(***************************************************************************)
Options ==
  [tool : {"plain", "time", "fleet", "calibrate", "discard", "vz"},
   advice : {"reusable", "free", "dontneed"}, naive : BOOLEAN,
   touch : {"guest", "host", "read"}, pressure_check : BOOLEAN,
   repeat : 1..MaxRepeat, mode : {"reusable", "munmap"}, steady : BOOLEAN,
   extent : 1..Pages, services : 0..MaxServices, region : 1..Pages]

parse_args(o) ==
  LET plain == o.tool = "plain"
      time == o.tool = "time"
      fleet == o.tool = "fleet" IN
  /\ o.repeat > 1 => (plain \/ time) /\ ~o.pressure_check
  /\ ~plain => ~o.naive /\ o.touch = "guest" /\ ~o.pressure_check
  /\ ~time => o.extent = Pages /\ ~o.steady /\ o.mode = "reusable"
  /\ ~(plain \/ time) => o.advice = "reusable"
  /\ Pages % o.extent = 0
  /\ IF fleet THEN o.services * o.region <= Pages
              ELSE o.services = 0 /\ o.region = 1

ValidOptions == {o \in Options : parse_args(o)}

-----------------------------------------------------------------------------
(* Building programs. *)

\* part[1] to part[n], one after the other.
Repeat(n, part) ==
  LET upTo[i \in 0..n] == IF i = 0 THEN <<>> ELSE upTo[i - 1] \o part[i]
  IN  upTo[n]

Do(op, of, pages) == <<Call(op, of, pages, "")>>

Span(lo, hi) == lo..(hi - 1)

EachPage(op, of, lo, hi, arg) ==
  [i \in 1..(hi - lo) |-> Call(op, of, {lo + i - 1}, arg)]

read(r) == Do("read", r, {})
let(r, other) == <<Call("let", r, {}, other)>>
delta_mib(after, before) == <<Call("record", after, {}, before)>>
madvise(of, pages, advice) == <<Call("madvise", of, pages, advice)>>

run_touch_range(lo, hi) == EachPage("guest store", "main", lo, hi, "")
run_touch_pass == run_touch_range(0, Pages)
run_read_pass == EachPage("guest load", "main", 0, Pages, "")
fill(of) == EachPage("host store", of, 0, Pages, "")

survey(of, want) ==
  Do("survey", of, {}) \o EachPage("peek", of, 0, Pages, want)
    \o Do("report", of, {})

-----------------------------------------------------------------------------
(* hv-reclaim. *)

setup == Do("mmap", "main", Page) \o Do("hv_vm_map", "main", Page)

teardown == Do("hv_vm_destroy", "main", {}) \o Do("munmap", "main", Page)

\* unmap, advise, remap, or the advice alone under --naive.
reclaim ==
  IF opts.naive
    THEN madvise("main", Page, opts.advice)
    ELSE Do("hv_vm_unmap", "main", Page) \o madvise("main", Page, opts.advice)
           \o Do("hv_vm_map", "main", Page)

\* The reset between two cycles: fresh memory behind the same guest pages.
resetMunmapFirst(ram) ==
  Do("munmap", ram, Page) \o Do("hv_vm_unmap", ram, Page)
    \o Do("mmap", ram, Page) \o Do("hv_vm_map", ram, Page)
reset(ram) ==
  Do("hv_vm_unmap", ram, Page) \o Do("munmap", ram, Page)
    \o Do("mmap", ram, Page) \o Do("hv_vm_map", ram, Page)

touch == CASE opts.touch = "host" -> fill("main")
           [] opts.touch = "read" -> run_read_pass
           [] opts.touch = "guest" -> run_touch_pass

cycleNoReread(i) ==
  (IF i > 1 THEN reset("main") ELSE <<>>)
    \o let("before", "last") \o touch \o read("dirtied")
    \o reclaim \o read("reclaimed")
    \o delta_mib("dirtied", "before") \o delta_mib("reclaimed", "dirtied")
    \o let("last", "reclaimed")
cycle(i) ==
  (IF i > 1 THEN reset("main") \o read("last") ELSE <<>>)
    \o let("before", "last") \o touch \o read("dirtied")
    \o reclaim \o read("reclaimed")
    \o delta_mib("dirtied", "before") \o delta_mib("reclaimed", "dirtied")
    \o let("last", "reclaimed")

\* Canary::arm, and its Drop.
arm == Do("mmap", "canary", Page) \o fill("canary")
         \o madvise("canary", Page, "free")

disarm == Do("munmap", "canary", Page)

apply == Do("apply", "main", {})
drop_guard == Do("drop guard", "main", {})
parked_pressure_check ==
  arm \o apply \o drop_guard \o read("last") \o survey("canary", "host")
    \o survey("main", "guest") \o disarm

\* Pass 2, with the guest only, and the probe that follows it.
pass2 ==
  IF opts.touch = "host" \/ opts.repeat > 1 THEN <<>>
  ELSE run_touch_pass \o read("retouched") \o delta_mib("retouched", "last")
         \o IF opts.pressure_check THEN parked_pressure_check ELSE <<>>

\* The baseline row is read before anything is mapped.
plain_run ==
  read("last") \o setup \o read("last") \o Repeat(opts.repeat, [i \in 1..opts.repeat |-> cycle(i)]) \o pass2 \o teardown

-----------------------------------------------------------------------------
(* --time-reclaim.  run has a ram of its own, which it gives back to main. *)
reclaim_extent(ps) ==
  Do("hv_vm_unmap", "local", ps)
    \o (IF opts.mode = "reusable"
          THEN madvise("local", ps, opts.advice)
          ELSE Do("munmap", "local", ps) \o Do("mmap fixed", "local", ps))
    \o Do("hv_vm_map", "local", ps)

reclaim_extents ==
  LET extents == Pages \div opts.extent IN
  Repeat(extents, [i \in 1..extents |->
                     reclaim_extent(Span((i - 1) * opts.extent, i * opts.extent))])

timing_cycle(i) ==
  (IF i > 1 /\ ~opts.steady THEN reset("local") ELSE <<>>)
    \o run_touch_pass \o read("dirtied") \o reclaim_extents
    \o read("reclaimed") \o run_touch_pass \o delta_mib("reclaimed", "dirtied")

timing_cycles ==
  Repeat(opts.repeat, [i \in 1..opts.repeat |-> timing_cycle(i)])

timing_run_keeps ==
  <<Call("let pointer", "local", {}, "main")>>
    \o timing_cycles
timing_run ==
  <<Call("let pointer", "local", {}, "main")>>
    \o timing_cycles
    \o <<Call("let pointer", "main", {}, "local")>>

-----------------------------------------------------------------------------
(* --fleet-sim. *)

mark(pages, trend) == <<Call("mark", "main", pages, trend)>>

fleet_start(i) ==
  run_touch_range((i - 1) * opts.region, i * opts.region)
    \o mark(Span(0, i * opts.region), "rising")
fleet_stop(i) ==
  LET ps == Span((i - 1) * opts.region, i * opts.region) IN
  Do("hv_vm_unmap", "main", ps) \o madvise("main", ps, "reusable")
    \o Do("hv_vm_map", "main", ps)
    \o mark(Span(i * opts.region, opts.services * opts.region), "falling")

fleet_sim_run ==
  Do("spawn sampler", "main", {}) \o mark({}, "rising")
    \o Repeat(opts.services, [i \in 1..opts.services |-> fleet_start(i)])
    \o mark(Span(0, opts.services * opts.region), "falling")
    \o Repeat(opts.services, [i \in 1..opts.services |-> fleet_stop(i)])
    \o mark({}, "falling") \o mark({}, "falling")
    \o Do("stop sampler", "main", {}) \o Do("join sampler", "main", {})

-----------------------------------------------------------------------------
(* The other tools. *)

calibrate(advice) ==
  read("before") \o Do("mmap", "main", Page) \o fill("main")
    \o read("dirtied") \o madvise("main", Page, advice)
    \o read("reclaimed") \o delta_mib("dirtied", "before")
    \o delta_mib("reclaimed", "dirtied") \o Do("munmap", "main", Page)

calibrate_madvise ==
  calibrate("dontneed") \o calibrate("free") \o calibrate("reusable")

\* Buffer A is marked, as a canary is; buffer B stays dirty.
pressure_discard ==
  Do("mmap", "canary", Page) \o Do("mmap", "main", Page) \o fill("canary")
    \o fill("main") \o madvise("canary", Page, "free") \o read("before")
    \o apply \o drop_guard \o read("last")
    \o survey("canary", "host") \o survey("main", "host")
    \o disarm \o Do("munmap", "main", Page)

vz_pressure == arm \o apply \o drop_guard \o survey("canary", "host") \o disarm

Program ==
  CASE opts.tool = "plain" -> plain_run
    [] opts.tool = "time" -> setup \o timing_run \o teardown
    [] opts.tool = "fleet" -> setup \o fleet_sim_run \o teardown
    [] opts.tool = "calibrate" -> calibrate_madvise
    [] opts.tool = "discard" -> pressure_discard
    [] opts.tool = "vz" -> vz_pressure

-----------------------------------------------------------------------------
ToolsInit ==
  /\ opts \in ValidOptions
  /\ MachineInit
  /\ todo = Program
  /\ loads \in [charge : BOOLEAN, pin : BOOLEAN]
  /\ opts.touch # "read" => loads = [charge |-> FALSE, pin |-> FALSE]

MainStep ==
  \/ Mmap \/ MmapFixed \/ Munmap \/ Madvise
  \/ HvMap \/ HvUnmap \/ HvDestroy
  \/ HostStore \/ GuestStore \/ GuestLoad
  \/ ReadLedger \/ LetReading \/ LetPointer \/ Record
  \/ BeginSurvey \/ Peek \/ Report
  \/ ApplyCall \/ DropCall
  \/ SpawnSampler \/ Mark \/ StopSampler \/ JoinSampler
  \/ Exit

Sampler == SampleRead \/ SamplePrint \/ SampleFails

others == <<memVars, bookVars, surveyVars, sampleVars, todo, status>>

\* The generator goes on by itself, and the tool may be killed.  A kill when
\* there is no generator ends the tool as a failed call does.
Background ==
  /\ \/ Generator
     \/ status = "running" /\ gen \in {"dirtying", "holding"} /\ ParentDies
  /\ UNCHANGED others

ToolsNext ==
  /\ MainStep \/ Sampler \/ CallFails \/ KernelTakes \/ Background
  /\ UNCHANGED fixedVars

(***************************************************************************)
(* The scheduler runs the main thread and the sampling thread, and the     *)
(* generator while it dirties memory.  Nothing has to fail, die or be      *)
(* taken.                                                                  *)
(***************************************************************************)
ToolsFairness ==
  /\ WF_vars(MainStep /\ UNCHANGED fixedVars)
  /\ WF_vars(SamplePrint /\ UNCHANGED fixedVars)
  /\ WF_vars((DirtyChunk \/ HoldAll) /\ UNCHANGED <<others, fixedVars>>)

ToolsSpec == ToolsInit /\ [][ToolsNext]_vars /\ ToolsFairness

-----------------------------------------------------------------------------
(* Type correctness. *)
ToolsTypeOK == MachineTypeOK /\ PressureTypeOK /\ opts \in ValidOptions

Stage2Backed ==
  \A p \in Page : stage2[p] # 0 => host[stage2[p]][p] # "hole"

(***************************************************************************)
(* The calls of a tool fit together, whatever the extents, regions, cycles *)
(* and resets.  A guest page is never mapped onto host memory that is not  *)
(* there: every munmap of guest RAM comes after its stage-2 mapping has    *)
(* gone.  And no tool panics over its own bookkeeping: hv_vm_map finds its *)
(* pages unmapped, hv_vm_unmap finds them mapped, and the guest finds      *)
(* every page it touches.                                                  *)
(***************************************************************************)
MappingsFit == Stage2Backed /\ status # "refused"

(***************************************************************************)
(* A tool that ends has given everything back: no mapping is left, though  *)
(* resets and --time-reclaim replace the RAM main allocated, no stage-2    *)
(* entry, no generator, no sampling thread.                                *)
(***************************************************************************)
NothingLeft ==
  status = "done" =>
    /\ \A m \in Mapping, p \in Page : host[m][p] = "hole"
    /\ \A p \in Page : stage2[p] = 0
    /\ gen \in {"none", "reaped"}
    /\ sampler \in {"off", "ended"}

RowsOf(r) == {i \in DOMAIN rows : rows[i].after = r}

First(i) == \A j \in RowsOf(rows[i].after) : i <= j

FullyReclaimed(i) ==
  \/ opts.tool = "time" /\ opts.mode = "munmap"
  \/ /\ opts.tool = "time" /\ opts.mode = "reusable"
     /\ opts.advice = "reusable"
     /\ opts.steady => First(i)
  \/ /\ opts.tool = "plain" /\ opts.advice = "reusable" /\ opts.touch # "read"
     /\ opts.naive => opts.touch = "host"
  \/ opts.tool = "calibrate" /\ i = 6

NotReclaimed(i) ==
  \/ opts.tool = "plain" /\ opts.naive /\ opts.touch = "guest"
  \/ opts.tool = "calibrate" /\ i # 6

(***************************************************************************)
(* The deltas mean what the code says of them.  Dirtying fresh memory      *)
(* raises the footprint by all of it, in every cycle and for every advice  *)
(* ("each cycle gets FRESH anonymous memory").  The reclaim lowers it by   *)
(* all of it when MADV_FREE_REUSABLE follows the unmap, in every fresh     *)
(* cycle and whatever the extents, and in munmap mode; naively advised     *)
(* guest pages do not move it.  Of the steady state only the first cycle   *)
(* is meant: what a later one measures depends on how much of the RAM the  *)
(* host charged when it was touched again.                                 *)
(***************************************************************************)
RowsValid ==
  /\ opts.touch # "read" =>
       \A i \in RowsOf("dirtied") : rows[i].delta = Pages
  /\ \A i \in RowsOf("reclaimed") :
       /\ FullyReclaimed(i) => rows[i].delta = -Pages
       /\ NotReclaimed(i) => rows[i].delta = 0

FootprintTracksFleet ==
  todo # <<>> /\ It.op = "mark" => Footprint = Cardinality(It.pages)

SecondSampleTracks ==
  since = 2 /\ opts.tool = "fleet" =>
    sample \in IF up.trend = "rising"
                 THEN up.pages..(up.pages + opts.region)
                 ELSE (up.pages - opts.region)..up.pages

(***************************************************************************)
(* The trace of --fleet-sim can be read off.  At every MARK the task is    *)
(* charged for exactly the regions of the services that are up; and while  *)
(* a SAMPLE may have been taken before the MARK printed above it, the      *)
(* second SAMPLE after a MARK is of what the MARK says, up to the one      *)
(* service that starts or stops next.                                      *)
(***************************************************************************)
TraceTracksFleet == FootprintTracksFleet /\ SecondSampleTracks

SurveyBounds(r) == r.from <= r.discarded /\ r.discarded <= r.to

CanaryHonest(r) ==
  IF r.conclusive THEN 2 * r.to >= Pages ELSE 2 * r.from < Pages

(***************************************************************************)
(* Surveys are honest.  A survey counts the pages that are gone: at least  *)
(* those gone when it began and at most those gone when it ended, although *)
(* the kernel goes on while it reads page by page.  So a run the canary    *)
(* calls conclusive lost at least half of the canary to pressure, and one  *)
(* it calls inconclusive had lost less than half when the survey began.    *)
(***************************************************************************)
SurveysHonest ==
  \A r \in reports :
    SurveyBounds(r) /\ (r.of = "canary" => CanaryHonest(r))

(***************************************************************************)
(* Every tool ends, unless it is killed: no wait of the main thread, for   *)
(* the generator's report or for the sampling thread, is for ever.         *)
(***************************************************************************)
ToolEnds == <>(status # "running" \/ parent = "dead")
=============================================================================
