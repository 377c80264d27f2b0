---------------------------- MODULE HostMachine ----------------------------
(***************************************************************************)
(* The machine under the measurement tools: the address space of one task, *)
(* the stage-2 mapping of its VM, the footprint the kernel charges it      *)
(* with, and the system calls the tools make, each one step.  A tool is a  *)
(* list of these steps (module ReclaimTools) that the main thread works    *)
(* off while a pressure generator, a sampling thread and the kernel act on *)
(* their own.                                                              *)
(*                                                                         *)
(* What the kernel charges is external: it is what the tools measure.  It  *)
(* is modelled from the comments of the code that measured it (main.rs     *)
(* 14-29 and 414-419, timing.rs 22-29, alloc_shape.rs 51-62) and, where    *)
(* touching an advised page again may or may not be charged, from what the *)
(* README measured on two machines (README.md 170-174).                    *)
(*                                                                         *)
(* host      per mapping and page: "hole" (not mapped), "none" (never      *)
(*           touched), "charged" (in the footprint), "reusable" (advised)  *)
(*           or "sticky" (touched again after that and not charged yet)    *)
(* val       what a page reads: "zero", or who wrote its marker last       *)
(* stage2    the mapping behind each guest page, 0 if there is none        *)
(* pinned    pages dirty in the stage-2 tables                             *)
(* loose     pages the kernel was told it may take                         *)
(* gone      history: pages it took, or lost, since they were last written *)
(* env       the tool's pointers, 0 before they are set                    *)
(* reg       its ledger readings                                           *)
(* rows      the deltas it has recorded, each with its two readings        *)
(* tally, from, reports   the survey it is in: pages that differ so far,   *)
(*           pages gone when it began; what the surveys reported           *)
(* sampler, seen, sample, since, up   the sampling thread, the footprint   *)
(*           it has read and not printed, the last one printed, lines      *)
(*           printed since the last MARK (up to 2), pages of the services  *)
(*           up at that MARK and which way the run goes from there         *)
(* loads     what a guest load does on this machine, fixed                 *)
(* todo, status   the rest of the program; "refused" is a panic over a     *)
(*           call that the tool's own calls made impossible                *)
(***************************************************************************)
EXTENDS Pressure, Integers, Sequences, FiniteSets

CONSTANTS Pages,       \* size of a mapping
          MaxMaps,     \* mappings a task can have at a time
          MaxFaults    \* bound on the live pages the kernel loses

ASSUME MachineAssumption ==
  /\ Pages \in Nat \ {0}
  /\ MaxMaps \in Nat \ {0}
  /\ MaxFaults \in Nat

VARIABLES host, val, stage2, pinned, loose, gone, env, reg, rows,
          tally, from, reports, sampler, seen, sample, since, up, todo, status,
          loads

memVars == <<host, val, stage2, pinned, loose, gone>>
bookVars == <<env, reg, rows>>
surveyVars == <<tally, from, reports>>
sampleVars == <<sampler, seen, sample, since, up>>
machineVars == <<memVars, bookVars, surveyVars, sampleVars, todo, status,
                 pressureVars>>

Page == 0..Pages - 1
Mapping == 1..MaxMaps
Pointer == {"main", "local", "canary"}
Reading == {"last", "before", "dirtied", "reclaimed", "retouched"}

MachineTypeOK ==
  /\ host \in [Mapping -> [Page ->
                {"hole", "none", "charged", "reusable", "sticky"}]]
  /\ val \in [Mapping -> [Page -> {"zero", "host", "guest"}]]
  /\ stage2 \in [Page -> 0..MaxMaps]
  /\ {pinned, loose, gone} \subseteq SUBSET (Mapping \X Page)
  /\ env \in [Pointer -> 0..MaxMaps]
  /\ reg \in [Reading -> Nat]
  /\ tally \in 0..Pages
  /\ from \in 0..Pages
  /\ sampler \in {"off", "idle", "read", "ended"}
  /\ since \in 0..2
  /\ status \in {"running", "done", "panicked", "refused"}

MachineInit ==
  /\ PressureInit
  /\ host = [m \in Mapping |-> [p \in Page |-> "hole"]]
  /\ val = [m \in Mapping |-> [p \in Page |-> "zero"]]
  /\ stage2 = [p \in Page |-> 0]
  /\ pinned = {} /\ loose = {} /\ gone = {}
  /\ env = [x \in Pointer |-> 0]
  /\ reg = [r \in Reading |-> 0]
  /\ rows = <<>>
  /\ tally = 0 /\ from = 0 /\ reports = {}
  /\ sampler = "off" /\ seen = 0 /\ sample = 0 /\ since = 0
  /\ up = [pages |-> 0, trend |-> "rising"]
  /\ status = "running"

\* Ledger::read: phys_footprint, of the whole task, in pages.
Footprint ==
  Cardinality({x \in Mapping \X Page : host[x[1]][x[2]] = "charged"})

-----------------------------------------------------------------------------
(* A step of a program: a call, the pointer and the pages it is about, and *)
(* what else it is given.                                                  *)

Call(op, of, pages, arg) == [op |-> op, of |-> of, pages |-> pages, arg |-> arg]

Running == status = "running" /\ parent = "alive"

Now(op) == Running /\ todo # <<>> /\ Head(todo).op = op

Step == todo' = Tail(todo) /\ UNCHANGED status

Refuse(s) == status' = s /\ todo' = <<>>

It == Head(todo)
Map == env[It.of]
Their(ps) == {Map} \X ps

OnPages(f, m, g(_)) ==
  [f EXCEPT ![m] = [p \in Page |-> IF p \in It.pages THEN g(p) ELSE f[m][p]]]

-----------------------------------------------------------------------------
(* The address space. *)

\* mmap_anon: a mapping of its own, anywhere.
Mmap ==
  /\ Now("mmap")
  /\ \E m \in Mapping :
       /\ \A p \in Page : host[m][p] = "hole"
       /\ host' = OnPages(host, m, LAMBDA p : "none")
       /\ val' = OnPages(val, m, LAMBDA p : "zero")
       /\ env' = [env EXCEPT ![It.of] = m]
  /\ Step
  /\ UNCHANGED <<stage2, pinned, loose, gone, reg, rows, surveyVars,
                 sampleVars, pressureVars>>

\* mmap(MAP_FIXED): fresh pages at the same place.
MmapFixed ==
  /\ Now("mmap fixed")
  /\ host' = OnPages(host, Map, LAMBDA p : "none")
  /\ val' = OnPages(val, Map, LAMBDA p : "zero")
  /\ Step
  /\ UNCHANGED <<stage2, pinned, loose, gone, bookVars, surveyVars, sampleVars,
                 pressureVars>>

Munmap ==
  /\ Now("munmap")
  /\ host' = OnPages(host, Map, LAMBDA p : "hole")
  /\ pinned' = pinned \ Their(It.pages)
  /\ loose' = loose \ Their(It.pages)
  /\ gone' = gone \ Their(It.pages)
  /\ Step
  /\ UNCHANGED <<val, stage2, bookVars, surveyVars, sampleVars, pressureVars>>

\* madvise.  Only MADV_FREE_REUSABLE moves the ledger, and not for a page the
\* guest has dirtied and that is still mapped into the guest; MADV_FREE lets
\* the kernel take a page all the same; MADV_DONTNEED does nothing.
Heeds(p) ==
  /\ host[Map][p] = "charged"
  /\ ~(<<Map, p>> \in pinned /\ stage2[p] = Map)

Madvise ==
  /\ Now("madvise")
  /\ LET heeding == {p \in It.pages : Heeds(p)} IN
     /\ host' = OnPages(host, Map, LAMBDA p :
                  IF It.arg = "reusable" /\ p \in heeding
                    THEN "reusable" ELSE host[Map][p])
     /\ loose' = IF It.arg = "dontneed" THEN loose
                 ELSE loose \cup Their(heeding)
  /\ Step
  /\ UNCHANGED <<val, stage2, pinned, gone, bookVars, surveyVars, sampleVars,
                 pressureVars>>

-----------------------------------------------------------------------------
(* The VM.  hv_vm_map refuses guest pages that are mapped, hv_vm_unmap     *)
(* ones that are not, and check panics on a refusal.                       *)

HvMap ==
  /\ Now("hv_vm_map")
  /\ IF \A p \in It.pages : stage2[p] = 0
       THEN stage2' = [p \in Page |-> IF p \in It.pages THEN Map ELSE stage2[p]]
            /\ Step
       ELSE Refuse("refused") /\ UNCHANGED stage2
  /\ UNCHANGED <<host, val, pinned, loose, gone, bookVars, surveyVars,
                 sampleVars, pressureVars>>

\* Whether tearing the mapping down already takes the guest's dirty pages
\* off the ledger, or only makes the advice work, is left open.
HvUnmap ==
  /\ Now("hv_vm_unmap")
  /\ IF \A p \in It.pages : stage2[p] # 0
       THEN /\ stage2' = [p \in Page |-> IF p \in It.pages THEN 0 ELSE stage2[p]]
            /\ \E early \in BOOLEAN :
                 host' = [m \in Mapping |-> [p \in Page |->
                   IF /\ early /\ p \in It.pages /\ m = stage2[p]
                      /\ <<m, p>> \in pinned /\ host[m][p] = "charged"
                     THEN "reusable" ELSE host[m][p]]]
            /\ pinned' = {x \in pinned : x[2] \notin It.pages}
            /\ Step
       ELSE Refuse("refused") /\ UNCHANGED <<stage2, host, pinned>>
  /\ UNCHANGED <<val, loose, gone, bookVars, surveyVars, sampleVars,
                 pressureVars>>

HvDestroy ==
  /\ Now("hv_vm_destroy")
  /\ stage2' = [p \in Page |-> 0]
  /\ pinned' = {}
  /\ Step
  /\ UNCHANGED <<host, val, loose, gone, bookVars, surveyVars, sampleVars,
                 pressureVars>>

-----------------------------------------------------------------------------
(* Touching pages. *)

\* A page touched again after the advice stays off the ledger only while the
\* host has room to leave it parked; otherwise the touch is charged.
Charge(m, p) ==
  \E parked \in BOOLEAN :
    host' = [host EXCEPT ![m][p] =
      CASE @ = "none" -> "charged"
        [] @ \in {"reusable", "sticky"} -> IF parked THEN "sticky" ELSE "charged"
        [] OTHER -> @]

Write(m, p, who) ==
  /\ Charge(m, p)
  /\ val' = [val EXCEPT ![m][p] = who]
  /\ loose' = loose \ {<<m, p>>}
  /\ gone' = gone \ {<<m, p>>}

HostStore ==
  /\ Now("host store")
  /\ \A p \in It.pages : Write(Map, p, "host")
  /\ Step
  /\ UNCHANGED <<stage2, pinned, bookVars, surveyVars, sampleVars,
                 pressureVars>>

\* A guest access to a page without a stage-2 mapping is an exit that
\* run_to_doorbell panics on.
GuestStore ==
  /\ Now("guest store")
  /\ \A p \in It.pages :
       IF stage2[p] # 0
         THEN /\ Write(stage2[p], p, "guest")
              /\ pinned' = pinned \cup {<<stage2[p], p>>}
              /\ Step
         ELSE Refuse("refused") /\ UNCHANGED <<host, val, loose, gone, pinned>>
  /\ UNCHANGED <<stage2, bookVars, surveyVars, sampleVars, pressureVars>>

\* Whether a load charges or pins a page is what --guest-read is to find out.
GuestLoad ==
  /\ Now("guest load")
  /\ \A p \in It.pages :
       IF stage2[p] # 0
         THEN /\ IF loads.charge THEN Charge(stage2[p], p) ELSE UNCHANGED host
              /\ pinned' = IF loads.pin THEN pinned \cup {<<stage2[p], p>>}
                           ELSE pinned
              /\ Step
         ELSE Refuse("refused") /\ UNCHANGED <<host, pinned>>
  /\ UNCHANGED <<val, stage2, loose, gone, bookVars, surveyVars, sampleVars,
                 pressureVars>>

-----------------------------------------------------------------------------
(* The tool's own variables. *)

ReadLedgerNet ==
  /\ Now("read")
  /\ reg' = [reg EXCEPT ![It.of] = Footprint - 1]
  /\ Step
  /\ UNCHANGED <<memVars, env, rows, surveyVars, sampleVars, pressureVars>>
ReadLedger ==
  /\ Now("read")
  /\ reg' = [reg EXCEPT ![It.of] = Footprint]
  /\ Step
  /\ UNCHANGED <<memVars, env, rows, surveyVars, sampleVars, pressureVars>>

LetReading ==
  /\ Now("let")
  /\ reg' = [reg EXCEPT ![It.of] = reg[It.arg]]
  /\ Step
  /\ UNCHANGED <<memVars, env, rows, surveyVars, sampleVars, pressureVars>>

LetPointer ==
  /\ Now("let pointer")
  /\ env' = [env EXCEPT ![It.of] = env[It.arg]]
  /\ Step
  /\ UNCHANGED <<memVars, reg, rows, surveyVars, sampleVars, pressureVars>>

\* delta_mib of two readings, printed or pushed.
Record ==
  /\ Now("record")
  /\ rows' = Append(rows, [after |-> It.of, before |-> It.arg,
                           delta |-> reg[It.of] - reg[It.arg]])
  /\ Step
  /\ UNCHANGED <<memVars, env, reg, surveyVars, sampleVars, pressureVars>>

-----------------------------------------------------------------------------
(* Surveys read a mapping page by page while the kernel goes on.           *)

BeginSurvey ==
  /\ Now("survey")
  /\ tally' = 0
  /\ from' = Cardinality(gone \cap Their(Page))
  /\ Step
  /\ UNCHANGED <<memVars, bookVars, reports, sampleVars, pressureVars>>

Peek ==
  /\ Now("peek")
  /\ \A p \in It.pages :
       /\ tally' = IF val[Map][p] = It.arg THEN tally ELSE tally + 1
       /\ Charge(Map, p)
  /\ Step
  /\ UNCHANGED <<val, stage2, pinned, loose, gone, bookVars, from, reports,
                 sampleVars, pressureVars>>

\* Verdict::conclusive.
conclusiveStrict(discarded) == discarded * 2 > Pages
conclusive(discarded) == discarded * 2 >= Pages

Report ==
  /\ Now("report")
  /\ reports' = reports \cup
       {[of |-> It.of, discarded |-> tally, conclusive |-> conclusive(tally),
         from |-> from, to |-> Cardinality(gone \cap Their(Page))]}
  /\ Step
  /\ UNCHANGED <<memVars, bookVars, tally, from, sampleVars, pressureVars>>

-----------------------------------------------------------------------------
(* Pressure: apply blocks until it has a guard, and its error is a panic   *)
(* of the caller (expect).                                                 *)

ApplyCall ==
  /\ Now("apply")
  /\ Apply
  /\ \/ app' = "ok" /\ Step
     \/ app' = "err" /\ Refuse("panicked")
     \/ app' = "reading" /\ UNCHANGED <<todo, status>>
  /\ UNCHANGED <<memVars, bookVars, surveyVars, sampleVars>>

DropCall ==
  /\ Now("drop guard")
  /\ DropGuard
  /\ Step
  /\ UNCHANGED <<memVars, bookVars, surveyVars, sampleVars>>

-----------------------------------------------------------------------------
(* The trace of a fleet run: the main thread marks, another samples.       *)

SpawnSampler ==
  /\ Now("spawn sampler")
  /\ sampler' = "idle"
  /\ Step
  /\ UNCHANGED <<memVars, bookVars, surveyVars, seen, sample, since, up,
                 pressureVars>>

Mark ==
  /\ Now("mark")
  /\ since' = 0
  /\ up' = [pages |-> Cardinality(It.pages), trend |-> It.arg]
  /\ Step
  /\ UNCHANGED <<memVars, bookVars, surveyVars, sampler, seen, sample,
                 pressureVars>>

\* stop.store: what follows in the program is the join.
StopSampler ==
  /\ Now("stop sampler")
  /\ Step
  /\ UNCHANGED <<memVars, bookVars, surveyVars, sampleVars, pressureVars>>

StoppedNever == FALSE
Stopped == Now("join sampler")

\* The stop flag is up and the thread has seen it, or it has panicked: join
\* returns, and what it returns is ignored.
JoinSampler ==
  /\ Now("join sampler")
  /\ sampler \in {"idle", "ended"}
  /\ sampler' = "ended"
  /\ Step
  /\ UNCHANGED <<memVars, bookVars, surveyVars, seen, sample, since, up,
                 pressureVars>>

\* The sampling thread reads the ledger first and prints afterwards.
SampleReadHoisted ==
  /\ Running /\ ~Stopped /\ sampler = "idle"
  /\ sampler' = "read"
  /\ seen' = IF seen = 0 THEN Footprint ELSE seen
  /\ UNCHANGED <<memVars, bookVars, surveyVars, sample, since, up, todo, status,
                 pressureVars>>
SampleRead ==
  /\ Running /\ ~Stopped
  /\ sampler = "idle"
  /\ sampler' = "read"
  /\ seen' = Footprint
  /\ UNCHANGED <<memVars, bookVars, surveyVars, sample, since, up, todo, status,
                 pressureVars>>

SampleFails ==
  /\ Running /\ ~Stopped
  /\ sampler = "idle"
  /\ sampler' = "ended"
  /\ UNCHANGED <<memVars, bookVars, surveyVars, seen, sample, since, up, todo,
                 status, pressureVars>>

SamplePrint ==
  /\ Running
  /\ sampler = "read"
  /\ sampler' = "idle"
  /\ sample' = seen
  /\ since' = IF since = 2 THEN 2 ELSE since + 1
  /\ UNCHANGED <<memVars, bookVars, surveyVars, seen, up, todo, status,
                 pressureVars>>

-----------------------------------------------------------------------------
\* A call that may fail fails, and the tool panics.
CallFails ==
  /\ Running
  /\ todo # <<>>
  /\ It.op \in {"mmap", "mmap fixed", "madvise", "hv_vm_map", "hv_vm_unmap",
                "read"}
  /\ Refuse("panicked")
  /\ UNCHANGED <<memVars, bookVars, surveyVars, sampleVars, pressureVars>>

Exit ==
  /\ Running
  /\ todo = <<>>
  /\ status' = "done"
  /\ UNCHANGED <<memVars, bookVars, surveyVars, sampleVars, todo, pressureVars>>

\* Once the generator has dirtied memory, and in the aftermath, the kernel
\* takes a page it was told it may take, or, bounded, loses one it was not.
KernelTakes ==
  /\ Running
  /\ held > 0
  /\ \E x \in Mapping \X Page :
       /\ x \notin gone
       /\ host[x[1]][x[2]] \notin {"hole", "none"}
       /\ x \in loose \/ Cardinality(gone \ loose) < MaxFaults
       /\ val' = [val EXCEPT ![x[1]][x[2]] = "zero"]
       /\ gone' = gone \cup {x}
       /\ host' = [host EXCEPT ![x[1]][x[2]] = "none"]
  /\ UNCHANGED <<stage2, pinned, loose, bookVars, surveyVars, sampleVars,
                 todo, status, pressureVars>>
=============================================================================
