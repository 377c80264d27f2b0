----------------------------- MODULE AllocShape -----------------------------
(***************************************************************************)
(* hv-reclaim --alloc-shape, crates/hv-reclaim/src/alloc_shape.rs.         *)
(*                                                                         *)
(* The parent re-executes itself once for each of 18 cells (3 allocation   *)
(* shapes, 2 touchers, 3 sequences), reads one CELL line from each child   *)
(* and draws three verdicts from the rows.  A child measures its own task: *)
(* the ledger when idle, when the RAM is touched, and after the sequence.  *)
(* It may die at any point; with no line the parent panics.                *)
(*                                                                         *)
(* The kernel is what is being measured: for each shape and toucher it     *)
(* behaves in one of the ways of Behaviours, settled when the first child  *)
(* asks.  Amounts are in units of the least charge that counts (64 MiB).   *)
(* The advice's return code and the reusable counter, which the verdicts   *)
(* do not depend on, are left out.                                         *)
(*                                                                         *)
(* kernel   per shape and toucher, the behaviour, or "unsettled"           *)
(* child    where the child of the current cell is                         *)
(* fp       its footprint                                                  *)
(* led      its three ledger readings                                      *)
(* line     its CELL line, if it has printed one                           *)
(* rows     what the parent has collected                                  *)
(* reported history: cells whose child printed a line                      *)
(* parent   "running", "panicked" or "done", and the verdict it printed    *)
(***************************************************************************)
EXTENDS Naturals, Integers, Sequences

CONSTANTS Charged,      \* units a cell is charged for RAM it touches
          Behaviours    \* what the kernel may do with a shape

ASSUME AllocAssumption ==
  /\ Charged \in Nat /\ Charged > 2
  /\ Behaviours \subseteq {"refused", "uncharged", "declined", "advice", "unmap"}

VARIABLES kernel, child, fp, led, line, rows, reported, parent, verdict

vars == <<kernel, child, fp, led, line, rows, reported, parent, verdict>>
cellVars == <<fp, led, line>>
parentVars == <<rows, reported, parent, verdict>>

Shapes == <<"private", "shared", "hvalloc">>
Touchers == <<"host", "guest">>
Sequences3 == <<"inplace", "unmap", "unmaponly">>

Cells == 18

\* The i-th cell of the three nested loops.
Cell(i) == [shape |-> Shapes[((i - 1) \div 6) + 1],
            toucher |-> Touchers[(((i - 1) \div 3) % 2) + 1],
            sequence |-> Sequences3[((i - 1) % 3) + 1]]

Current == Cell(Len(rows) + 1)
Column(c) == <<c.shape, c.toucher>>
Columns == {Column(Cell(i)) : i \in 1..Cells}

Floor == 1              \* what a task is charged before it allocates anything
NoLine == [status |-> "none", delta |-> 0, before |-> 0, idle |-> 0]
NoVerdict == [one |-> "none", two |-> "none", three |-> "none"]

AllocTypeOK ==
  /\ kernel \in [Columns -> Behaviours \cup {"unsettled"}]
  /\ child \in {"none", "started", "allocated", "touched", "unmapped", "advised",
                "remapped", "printed", "exited"}
  /\ fp \in 0..(Floor + Charged)
  /\ led \in [{"idle", "before", "after"} -> 0..(Floor + Charged)]
  /\ Len(rows) \in 0..Cells
  /\ reported \subseteq 1..Cells
  /\ parent \in {"running", "panicked", "done"}

AllocInit ==
  /\ kernel = [c \in Columns |-> "unsettled"]
  /\ child = "none"
  /\ fp = 0
  /\ led = [r \in {"idle", "before", "after"} |-> 0]
  /\ line = NoLine
  /\ rows = <<>>
  /\ reported = {}
  /\ parent = "running"
  /\ verdict = NoVerdict

-----------------------------------------------------------------------------
(* The child of one cell. *)

At(pc) == parent = "running" /\ child = pc

\* Command::output: a new task; its first act is to read its ledger.
SpawnCell ==
  /\ At("none") /\ Len(rows) < Cells
  /\ \E b \in Behaviours :
       kernel' = IF kernel[Column(Current)] = "unsettled"
                   THEN [kernel EXCEPT ![Column(Current)] = b] ELSE kernel
  /\ child' = "started"
  /\ fp' = Floor
  /\ led' = [led EXCEPT !.idle = Floor]
  /\ line' = NoLine
  /\ UNCHANGED parentVars

Behaviour == kernel[Column(Current)]

Say(status, delta, before, idle) ==
  /\ line' = [status |-> status, delta |-> delta, before |-> before, idle |-> idle]
  /\ reported' = reported \cup {Len(rows) + 1}

\* The allocator refuses the shape, which is a result: the line says so.
AllocFails ==
  /\ At("started") /\ Behaviour = "refused"
  /\ Say("alloc-failed", 0, 0, 0)
  /\ child' = "printed"
  /\ UNCHANGED <<kernel, fp, led, rows, parent, verdict>>

Allocate ==
  /\ At("started") /\ Behaviour # "refused"
  /\ child' = "allocated"
  /\ UNCHANGED <<kernel, cellVars, parentVars>>

\* The VM is made, the RAM mapped and touched by the host or the guest; then
\* the ledger is read.
TouchCodeToo ==
  /\ At("allocated")
  /\ fp' = IF Behaviour = "uncharged" THEN fp ELSE fp + Charged + 1
  /\ led' = [led EXCEPT !.before = fp']
  /\ child' = "touched"
  /\ UNCHANGED <<kernel, line, parentVars>>
Touch ==
  /\ At("allocated")
  /\ fp' = IF Behaviour = "uncharged" THEN fp ELSE fp + Charged
  /\ led' = [led EXCEPT !.before = fp']
  /\ child' = "touched"
  /\ UNCHANGED <<kernel, line, parentVars>>

\* hv_vm_unmap, unless the sequence is in place.
Unmap ==
  /\ At("touched")
  /\ fp' = IF Current.sequence # "inplace" /\ Behaviour = "unmap"
             THEN Floor ELSE fp
  /\ child' = "unmapped"
  /\ UNCHANGED <<kernel, led, line, parentVars>>

\* madvise, unless the sequence is unmap only.  "advice" releases just half,
\* "declined" a little.
Advise ==
  /\ At("unmapped")
  /\ fp' = IF Current.sequence = "unmaponly" THEN fp
           ELSE CASE Behaviour = "advice" -> fp - ((Charged + 1) \div 2)
                  [] Behaviour = "declined" -> fp - 1
                  [] OTHER -> fp
  /\ child' = "advised"
  /\ UNCHANGED <<kernel, led, line, parentVars>>

\* The range is mapped again if it was unmapped, and the ledger read.
Remap ==
  /\ At("advised")
  /\ led' = [led EXCEPT !.after = fp]
  /\ child' = "remapped"
  /\ UNCHANGED <<kernel, fp, line, parentVars>>

PrintCell ==
  /\ At("remapped")
  /\ Say("measured", led.after - led.before, led.before, led.idle)
  /\ child' = "printed"
  /\ UNCHANGED <<kernel, fp, led, rows, parent, verdict>>

\* The VM is destroyed, the RAM released, the process exits.
CellExit ==
  /\ At("printed")
  /\ child' = "exited"
  /\ fp' = 0
  /\ UNCHANGED <<kernel, led, line, parentVars>>

\* A check or an assert fails, or the process is killed, before or after the
\* line.
CellDies ==
  /\ parent = "running"
  /\ child \notin {"none", "exited"}
  /\ child' = "exited"
  /\ fp' = 0
  /\ UNCHANGED <<kernel, led, line, parentVars>>

-----------------------------------------------------------------------------
(* The parent. *)

\* output() has returned and there is a CELL line: push the row.
CollectDefault ==
  /\ At("exited")
  /\ rows' = Append(rows, line)
  /\ child' = "none"
  /\ UNCHANGED <<kernel, cellVars, reported, parent, verdict>>
Collect ==
  /\ At("exited")
  /\ line # NoLine
  /\ rows' = Append(rows, line)
  /\ child' = "none"
  /\ UNCHANGED <<kernel, cellVars, reported, parent, verdict>>

NoResult ==
  /\ At("exited")
  /\ line = NoLine
  /\ parent' = "panicked"
  /\ UNCHANGED <<kernel, child, cellVars, rows, reported, verdict>>

charged(r) == r.before - r.idle

released(r) == charged(r) >= 1 /\ r.delta * 2 <= -charged(r)

ReleasedAnyhow(shape, toucher, sequence) ==
  \E i \in DOMAIN rows :
    Cell(i).shape = shape /\ Cell(i).toucher = toucher /\ released(rows[i])
Released(shape, toucher, sequence) ==
  \E i \in DOMAIN rows :
    Cell(i) = [shape |-> shape, toucher |-> toucher, sequence |-> sequence]
      /\ released(rows[i])

\* All rows are there: the table and the verdicts.
PrintVerdict ==
  /\ At("none") /\ Len(rows) = Cells
  /\ verdict' =
       [one |-> IF \E i \in 1..3 : Released(Shapes[i], "guest", "inplace")
                  THEN "shape is the precondition" ELSE "shape is not it",
        two |-> IF \E i \in 1..2, j \in 1..3 :
                     Released("hvalloc", Touchers[i], Sequences3[j])
                  THEN "can be released" ELSE "charged and released by nothing",
        three |-> IF /\ Released("private", "guest", "unmaponly")
                     /\ Released("private", "guest", "unmap")
                     /\ ~Released("private", "host", "unmaponly")
                    THEN "the advice is a no-op" ELSE "none"]
  /\ parent' = "done"
  /\ UNCHANGED <<kernel, child, cellVars, rows, reported>>

-----------------------------------------------------------------------------
CellStep == \/ AllocFails \/ Allocate \/ Touch \/ Unmap \/ Advise \/ Remap
            \/ PrintCell \/ CellExit

ParentStep == SpawnCell \/ Collect \/ NoResult \/ PrintVerdict

AllocNext == CellStep \/ CellDies \/ ParentStep

(***************************************************************************)
(* Both processes run; nothing has to die.                                 *)
(***************************************************************************)
AllocSpec == AllocInit /\ [][AllocNext]_vars
               /\ WF_vars(CellStep) /\ WF_vars(ParentStep)

-----------------------------------------------------------------------------
\* What the kernel really does to the memory of a cell.
Gives(c) ==
  CASE kernel[Column(c)] = "advice" -> c.sequence # "unmaponly"
    [] kernel[Column(c)] = "unmap" -> c.sequence # "inplace"
    [] OTHER -> FALSE

GivesTo(toucher, sequence, shape) ==
  Gives([shape |-> shape, toucher |-> toucher, sequence |-> sequence])

NoSilentGap ==
  /\ \A i \in DOMAIN rows : i \in reported
  /\ parent = "done" => Len(rows) = Cells

(***************************************************************************)
(* Every row measures its own cell, whatever the cells before it did and   *)
(* wherever children died.  The charge is what this shape and toucher were *)
(* charged, and the row counts as released exactly when the kernel         *)
(* released at least half in that cell.  No row, and so no verdict, rests  *)
(* on a cell that never reported: where a child died silently there is a   *)
(* panic instead, and the verdicts come after all the cells.               *)
(***************************************************************************)
RowsMeasureTheirCell ==
  /\ NoSilentGap
  /\ \A i \in DOMAIN rows :
       /\ rows[i].status = "measured" =>
            /\ charged(rows[i]) = IF kernel[Column(Cell(i))] = "uncharged"
                                    THEN 0 ELSE Charged
            /\ released(rows[i]) = Gives(Cell(i))
       /\ rows[i].status = "alloc-failed" => kernel[Column(Cell(i))] = "refused"

(***************************************************************************)
(* A release a verdict credits has happened: verdict 1 finds the shape a   *)
(* precondition only if in-place advice released guest pages of some       *)
(* shape, verdict 2 finds hv_vm_allocate memory releasable only if some    *)
(* sequence released some, verdict 3 finds the advice idle only if the     *)
(* unmap alone releases guest pages.                                       *)
(***************************************************************************)
CreditedReleasesHappened ==
  /\ verdict.one = "shape is the precondition" =>
       \E i \in 1..3 : GivesTo("guest", "inplace", Shapes[i])
  /\ verdict.two = "can be released" =>
       \E i \in 1..2, j \in 1..3 : GivesTo(Touchers[i], Sequences3[j], "hvalloc")
  /\ verdict.three = "the advice is a no-op" =>
       GivesTo("guest", "unmaponly", "private")

(***************************************************************************)
(* alloc_shape.rs 378-381: a cell that was never charged says nothing      *)
(* about releasing, "a different claim entirely from 'charged and cannot   *)
(* be released.'"  So the claim that hv_vm_allocate memory is charged and  *)
(* released by nothing rests on a cell that was charged.                   *)
(***************************************************************************)
ChargedClaimIsCharged ==
  verdict.two = "charged and released by nothing" =>
    \E i \in 1..Cells : Cell(i).shape = "hvalloc" /\ charged(rows[i]) >= 1
=============================================================================
