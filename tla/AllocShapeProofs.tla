-------------------------- MODULE AllocShapeProofs --------------------------
(***************************************************************************)
(* Proofs for the allocation-shape matrix: whatever the charge and however *)
(* the kernel treats each shape and toucher, every row is its own cell's   *)
(* and a verdict credits only releases that happened.                      *)
(***************************************************************************)
EXTENDS AllocShape, TLAPS

Result == [status : {"none", "alloc-failed", "measured"},
           delta : Int, before : Int, idle : Int]

Types ==
  /\ AllocTypeOK
  /\ line \in Result
  /\ rows \in Seq(Result)

Kinds == {"uncharged", "declined", "advice", "unmap"}
Orders == {"inplace", "unmap", "unmaponly"}

(***************************************************************************)
(* What a child measures follows from how the kernel treats its column, k, *)
(* and from the sequence of its cell, q.                                   *)
(***************************************************************************)
Charge(k) == IF k = "uncharged" THEN 0 ELSE Charged

AfterUnmap(k, q) ==
  IF q # "inplace" /\ k = "unmap" THEN Floor ELSE Floor + Charge(k)

Advised(k, q) ==
  IF q = "unmaponly" THEN 0
  ELSE IF k = "advice" THEN (Charged + 1) \div 2
  ELSE IF k = "declined" THEN 1 ELSE 0

AfterAdvice(k, q) == AfterUnmap(k, q) - Advised(k, q)

GivesBack(k, q) ==
  (k = "advice" /\ q # "unmaponly") \/ (k = "unmap" /\ q # "inplace")

Alive == {"started", "allocated", "touched", "unmapped", "advised", "remapped"}

ChildMeasures ==
  LET k == Behaviour
      q == Current.sequence
  IN
  /\ child # "none" => Len(rows) < Cells /\ k # "unsettled"
  /\ child \in Alive => line = NoLine /\ led["idle"] = Floor
  /\ child \in Alive \ {"started"} => k # "refused"
  /\ child \in {"started", "allocated"} => fp = Floor
  /\ child = "touched" => fp = Floor + Charge(k)
  /\ child = "unmapped" => fp = AfterUnmap(k, q)
  /\ child = "advised" => fp = AfterAdvice(k, q)
  /\ child \in {"touched", "unmapped", "advised", "remapped"} =>
       led["before"] = Floor + Charge(k)
  /\ child = "remapped" => led["after"] = AfterAdvice(k, q)

\* A result that is right for a cell.
Right(r, k, q) ==
  /\ k # "unsettled"
  /\ r.status \in {"alloc-failed", "measured"}
  /\ r.status = "measured" =>
       /\ charged(r) = Charge(k)
       /\ released(r) <=> GivesBack(k, q)
  /\ r.status = "alloc-failed" => k = "refused" /\ ~released(r)

LinesRight ==
  /\ child \in {"printed", "exited"} /\ line # NoLine =>
       /\ Right(line, Behaviour, Current.sequence)
       /\ Len(rows) + 1 \in reported
  /\ \A i \in 1..Len(rows) :
       /\ Right(rows[i], kernel[Column(Cell(i))], Cell(i).sequence)
       /\ i \in reported

VerdictRight ==
  /\ parent = "done" => Len(rows) = Cells
  /\ parent # "done" => verdict = NoVerdict
  /\ CreditedReleasesHappened

AllocInv == Types /\ ChildMeasures /\ LinesRight /\ VerdictRight

-----------------------------------------------------------------------------
\* The i-th of the three nested loops is a cell of the matrix.
LEMMA CellType ==
  ASSUME NEW i \in 1..Cells
  PROVE  /\ Column(Cell(i)) \in Columns
         /\ Cell(i).sequence \in {"inplace", "unmap", "unmaponly"}
<1>1. ((i - 1) % 3) + 1 \in 1..3
  BY DEF Cells
<1>2. QED
  BY <1>1 DEF Columns, Cell, Sequences3

(***************************************************************************)
(* The arithmetic of the verdicts: at least half of the charge is gone     *)
(* exactly when the kernel gave the cell's memory back.                    *)
(***************************************************************************)
LEMMA HalfIsGone ==
  ASSUME NEW k \in Kinds, NEW q \in Orders
  PROVE  LET d == AfterAdvice(k, q) - (Floor + Charge(k)) IN
         (Charge(k) >= 1 /\ d * 2 <= -Charge(k)) <=> GivesBack(k, q)
<1> USE AllocAssumption
    DEF Kinds, Orders, Charge, AfterAdvice, AfterUnmap, Advised, GivesBack, Floor
<1>1. CASE k = "uncharged"
  BY <1>1
<1>2. CASE k = "declined"
  BY <1>2
<1>3. CASE k = "advice"
  BY <1>3
<1>4. CASE k = "unmap"
  BY <1>4
<1>5. QED
  BY <1>1, <1>2, <1>3, <1>4

\* What the kernel gives back, as the properties say it.
LEMMA GivesIsGivesBack ==
  ASSUME NEW c
  PROVE  Gives(c) = GivesBack(kernel[Column(c)], c.sequence)
<1>1. CASE kernel[Column(c)] = "advice"
  BY <1>1 DEF Gives, GivesBack
<1>2. CASE kernel[Column(c)] = "unmap"
  BY <1>2 DEF Gives, GivesBack
<1>3. CASE kernel[Column(c)] \notin {"advice", "unmap"}
  BY <1>3 DEF Gives, GivesBack
<1>4. QED
  BY <1>1, <1>2, <1>3

\* The advice never takes more than is charged.
LEMMA AmountsFit ==
  ASSUME NEW k \in Kinds, NEW q \in Orders
  PROVE  /\ Floor + Charge(k) \in 0..(Floor + Charged)
         /\ AfterUnmap(k, q) \in 0..(Floor + Charged)
         /\ AfterAdvice(k, q) \in 0..(Floor + Charged)
<1> USE AllocAssumption
    DEF Kinds, Orders, Charge, AfterAdvice, AfterUnmap, Advised, Floor
<1>1. CASE k = "uncharged"
  BY <1>1
<1>2. CASE k = "declined"
  BY <1>2
<1>3. CASE k = "advice"
  BY <1>3
<1>4. CASE k = "unmap"
  BY <1>4
<1>5. QED
  BY <1>1, <1>2, <1>3, <1>4

\* The next cell is one of the matrix.
LEMMA NextCell ==
  ASSUME Types, Len(rows) < Cells
  PROVE  Len(rows) + 1 \in 1..Cells
<1>1. Len(rows) \in 0..Cells
  BY DEF Types, AllocTypeOK
<1>2. QED
  BY <1>1 DEF Cells

\* What the current child meets: a column of the matrix that is settled, and
\* one of the three sequences.
LEMMA CurrentCell ==
  ASSUME Types, Len(rows) < Cells
  PROVE  /\ Column(Current) \in Columns
         /\ Behaviour \in Behaviours \cup {"unsettled"}
         /\ Current.sequence \in Orders
<1>1. Len(rows) + 1 \in 1..Cells
  BY NextCell
<1>2. /\ Column(Cell(Len(rows) + 1)) \in Columns
      /\ Cell(Len(rows) + 1).sequence \in Orders
  BY <1>1, CellType DEF Orders
<1>3. Behaviour \in Behaviours \cup {"unsettled"}
  BY <1>2 DEF Types, AllocTypeOK, Behaviour, Current
<1>4. QED
  BY <1>2, <1>3 DEF Current

\* The kernel of a child that got its memory.
LEMMA CurrentKind ==
  ASSUME AllocInv, child \in Alive \ {"started"}
  PROVE  Behaviour \in Kinds /\ Current.sequence \in Orders
<1>1. /\ Len(rows) < Cells
      /\ Behaviour # "unsettled"
      /\ Behaviour # "refused"
  BY DEF AllocInv, ChildMeasures, Alive
<1>2. QED
  BY <1>1, CurrentCell, AllocAssumption DEF AllocInv, Kinds

\* Reading and changing the footprint, action by action.
LEMMA TouchCharges ==
  ASSUME AllocInv, Touch
  PROVE  fp' = Floor + Charge(Behaviour)
BY AllocAssumption DEF AllocInv, Touch, At, ChildMeasures, Charge, Floor

\* hv_vm_unmap leaves what the kernel charges for after an unmap.
LEMMA UnmapTakes ==
  ASSUME AllocInv, Unmap
  PROVE  fp' = AfterUnmap(Behaviour, Current.sequence)
BY DEF AllocInv, Unmap, At, ChildMeasures, AfterUnmap

\* madvise then leaves what the kernel charges for after the advice.
LEMMA AdviseTakes ==
  ASSUME AllocInv, Advise
  PROVE  fp' = AfterAdvice(Behaviour, Current.sequence)
<1>1. Behaviour \in Kinds /\ Current.sequence \in Orders
  BY CurrentKind DEF Advise, At, Alive
<1>2. fp = AfterUnmap(Behaviour, Current.sequence)
  BY DEF AllocInv, Advise, At, ChildMeasures
<1>3. fp \in Int
  BY <1>1, <1>2, AmountsFit, AllocAssumption DEF Floor
<1>4. fp' = fp - Advised(Behaviour, Current.sequence)
  <2>1. CASE Current.sequence = "unmaponly"
    BY <1>3, <2>1 DEF Advise, Advised
  <2>2. CASE Current.sequence # "unmaponly" /\ Behaviour = "advice"
    BY <2>2 DEF Advise, Advised
  <2>3. CASE Current.sequence # "unmaponly" /\ Behaviour = "declined"
    BY <2>3 DEF Advise, Advised
  <2>4. CASE /\ Current.sequence # "unmaponly"
             /\ Behaviour \notin {"advice", "declined"}
    BY <1>3, <2>4 DEF Advise, Advised
  <2>5. QED
    BY <2>1, <2>2, <2>3, <2>4
<1>5. QED
  BY <1>2, <1>4 DEF AfterAdvice

-----------------------------------------------------------------------------
\* Every step keeps the types, and the amounts in range.
LEMMA TypesStep ==
  ASSUME AllocInv, [AllocNext]_vars
  PROVE  Types'
<1> USE DEF Types, AllocTypeOK
<1>0. Types /\ ChildMeasures
  BY DEF AllocInv
<1>1. CASE SpawnCell
  <2>1. Column(Current) \in Columns
    BY <1>0, <1>1, CurrentCell DEF SpawnCell
  <2>2. kernel' \in [Columns -> Behaviours \cup {"unsettled"}]
    BY <1>0, <1>1, <2>1 DEF SpawnCell
  <2>3. Floor \in 0..(Floor + Charged)
    BY AllocAssumption DEF Floor
  <2>4. led' \in [{"idle", "before", "after"} -> 0..(Floor + Charged)]
    BY <1>0, <1>1, <2>3 DEF SpawnCell
  <2>5. line' \in Result
    BY <1>1 DEF SpawnCell, NoLine, Result
  <2>6. QED
    BY <1>0, <1>1, <2>2, <2>3, <2>4, <2>5 DEF SpawnCell, parentVars
<1>2. CASE AllocFails
  <2>1. Len(rows) + 1 \in 1..Cells
    BY <1>0, <1>2, NextCell DEF AllocFails, At, ChildMeasures
  <2>2. line' \in Result
    BY <1>2 DEF AllocFails, Say, Result
  <2>3. QED
    BY <1>0, <1>2, <2>1, <2>2 DEF AllocFails, Say
<1>3. CASE Allocate
  BY <1>0, <1>3 DEF Allocate, cellVars, parentVars
<1>4. CASE Touch
  <2>1. fp' = Floor + Charge(Behaviour)
    BY <1>4, TouchCharges
  <2>2. fp' \in 0..(Floor + Charged)
    BY <1>4, <2>1, CurrentKind, AmountsFit DEF Touch, At, Alive
  <2>3. QED
    BY <1>0, <1>4, <2>2 DEF Touch, parentVars
<1>5. CASE Unmap
  BY <1>0, <1>5, AllocAssumption DEF Unmap, parentVars, Floor
<1>6. CASE Advise
  <2>1. Behaviour \in Kinds /\ Current.sequence \in Orders
    BY <1>6, CurrentKind DEF Advise, At, Alive
  <2>3. fp' = AfterAdvice(Behaviour, Current.sequence)
    BY <1>6, AdviseTakes
  <2>4. fp' \in 0..(Floor + Charged)
    BY <2>1, <2>3, AmountsFit
  <2>5. QED
    BY <1>0, <1>6, <2>4 DEF Advise, parentVars
<1>7. CASE Remap
  BY <1>0, <1>7 DEF Remap, parentVars
<1>8. CASE PrintCell
  <2>1. Len(rows) + 1 \in 1..Cells
    BY <1>0, <1>8, NextCell DEF PrintCell, At, ChildMeasures
  <2>2. led["idle"] \in Int /\ led["before"] \in Int /\ led["after"] \in Int
    BY <1>0, AllocAssumption DEF Floor
  <2>3. line' \in Result
    BY <1>8, <2>2 DEF PrintCell, Say, Result
  <2>4. QED
    BY <1>0, <1>8, <2>1, <2>3 DEF PrintCell, Say
<1>9. CASE CellExit
  BY <1>0, <1>9, AllocAssumption DEF CellExit, parentVars, Floor
<1>10. CASE CellDies
  BY <1>0, <1>10, AllocAssumption DEF CellDies, parentVars, Floor
<1>11. CASE Collect
  <2>1. Len(rows) < Cells
    BY <1>0, <1>11 DEF Collect, At, ChildMeasures
  <2>2. rows' \in Seq(Result) /\ Len(rows') = Len(rows) + 1
    BY <1>0, <1>11 DEF Collect
  <2>3. Len(rows) + 1 \in 1..Cells
    BY <1>0, <2>1, NextCell
  <2>4. Len(rows') \in 0..Cells
    BY <2>2, <2>3 DEF Cells
  <2>5. QED
    BY <1>0, <1>11, <2>2, <2>4 DEF Collect, cellVars
<1>12. CASE NoResult
  BY <1>0, <1>12 DEF NoResult, cellVars
<1>13. CASE PrintVerdict
  BY <1>0, <1>13 DEF PrintVerdict, cellVars
<1>14. CASE UNCHANGED vars
  BY <1>0, <1>14 DEF vars
<1>15. QED
  BY <1>1, <1>2, <1>3, <1>4, <1>5, <1>6, <1>7, <1>8, <1>9, <1>10, <1>11, <1>12,
     <1>13, <1>14 DEF AllocNext, CellStep, ParentStep

\* Where no row is added and the kernel stays as it is, the child's cell does.
LEMMA SameCell ==
  ASSUME UNCHANGED <<kernel, rows>>
  PROVE  /\ Behaviour' = Behaviour
         /\ Current' = Current
BY DEF Behaviour, Current

\* Every step keeps what the child has measured so far right.
LEMMA ChildStep ==
  ASSUME AllocInv, [AllocNext]_vars
  PROVE  ChildMeasures'
<1>0. Types /\ ChildMeasures
  BY DEF AllocInv
<1>1. CASE SpawnCell
  <2>1. Column(Current) \in Columns
    BY <1>0, <1>1, CurrentCell DEF SpawnCell
  <2>2. "unsettled" \notin Behaviours
    BY AllocAssumption
  <2>3. kernel'[Column(Current)] # "unsettled"
    BY <1>0, <1>1, <2>1, <2>2 DEF SpawnCell, Types, AllocTypeOK
  <2>4. Behaviour' # "unsettled" /\ Len(rows') < Cells
    BY <1>1, <2>3 DEF SpawnCell, parentVars, Behaviour, Current
  <2>5. led'["idle"] = Floor
    BY <1>0, <1>1 DEF SpawnCell, Types, AllocTypeOK
  <2>6. QED
    BY <1>1, <2>4, <2>5 DEF SpawnCell, ChildMeasures, Alive
<1>2. CASE AllocFails
  BY <1>0, <1>2, SameCell DEF AllocFails, At, ChildMeasures, Alive
<1>3. CASE Allocate
  BY <1>0, <1>3, SameCell
  DEF Allocate, At, ChildMeasures, Alive, cellVars, parentVars
<1>4. CASE Touch
  <2>1. fp' = Floor + Charge(Behaviour)
    BY <1>4, TouchCharges
  <2>2. led'["before"] = fp' /\ led'["idle"] = led["idle"]
    BY <1>0, <1>4 DEF Touch, Types, AllocTypeOK
  <2>3. QED
    BY <1>0, <1>4, <2>1, <2>2, SameCell
    DEF Touch, At, ChildMeasures, Alive, parentVars
<1>5. CASE Unmap
  BY <1>0, <1>5, UnmapTakes, SameCell
  DEF Unmap, At, ChildMeasures, Alive, parentVars
<1>6. CASE Advise
  <2>1. fp' = AfterAdvice(Behaviour, Current.sequence)
    BY <1>6, AdviseTakes
  <2>2. QED
    BY <1>0, <1>6, <2>1, SameCell DEF Advise, At, ChildMeasures, Alive, parentVars
<1>7. CASE Remap
  <2>1. /\ led'["after"] = fp
        /\ led'["before"] = led["before"]
        /\ led'["idle"] = led["idle"]
    BY <1>0, <1>7 DEF Remap, Types, AllocTypeOK
  <2>2. QED
    BY <1>0, <1>7, <2>1, SameCell DEF Remap, At, ChildMeasures, Alive, parentVars
<1>8. CASE PrintCell
  BY <1>0, <1>8, SameCell DEF PrintCell, At, ChildMeasures, Alive
<1>9. CASE CellExit
  BY <1>0, <1>9, SameCell DEF CellExit, At, ChildMeasures, Alive, parentVars
<1>10. CASE CellDies
  BY <1>0, <1>10, SameCell DEF CellDies, ChildMeasures, Alive, parentVars
<1>11. CASE Collect
  BY <1>11 DEF Collect, ChildMeasures, Alive
<1>12. CASE NoResult
  BY <1>0, <1>12, SameCell DEF NoResult, At, ChildMeasures, Alive, cellVars
<1>13. CASE PrintVerdict
  BY <1>0, <1>13, SameCell DEF PrintVerdict, At, ChildMeasures, Alive, cellVars
<1>14. CASE UNCHANGED vars
  BY <1>0, <1>14, SameCell DEF vars, ChildMeasures
<1>15. QED
  BY <1>1, <1>2, <1>3, <1>4, <1>5, <1>6, <1>7, <1>8, <1>9, <1>10, <1>11, <1>12,
     <1>13, <1>14 DEF AllocNext, CellStep, ParentStep

\* A column that has been settled stays as it is.
LEMMA SettledStays ==
  ASSUME AllocInv, [AllocNext]_vars, NEW i \in 1..Cells,
         kernel[Column(Cell(i))] # "unsettled"
  PROVE  kernel'[Column(Cell(i))] = kernel[Column(Cell(i))]
<1>1. CASE SpawnCell
  <2>1. Column(Cell(i)) \in Columns
    BY CellType
  <2>2. DOMAIN kernel = Columns
    BY DEF AllocInv, Types, AllocTypeOK
  <2>3. PICK b : kernel' = IF kernel[Column(Current)] = "unsettled"
                             THEN [kernel EXCEPT ![Column(Current)] = b]
                             ELSE kernel
    BY <1>1 DEF SpawnCell
  <2>4. QED
    BY <2>1, <2>2, <2>3
<1>2. CASE UNCHANGED kernel
  BY <1>2
<1>3. QED
  BY <1>1, <1>2
  DEF AllocNext, CellStep, ParentStep, vars, AllocFails, Allocate, Touch, Unmap,
      Advise, Remap, PrintCell, CellExit, CellDies, Collect, NoResult, PrintVerdict

\* A row belongs to a cell of the matrix.
LEMMA RowsFit ==
  ASSUME Types
  PROVE  \A i \in 1..Len(rows) : i \in 1..Cells
<1>1. Len(rows) \in 0..Cells
  BY DEF Types, AllocTypeOK
<1>2. \A n \in 0..Cells : \A i \in 1..n : i \in 1..Cells
  BY DEF Cells
<1>3. QED
  BY <1>1, <1>2, Zenon

\* The rows that are there stay right.
LEMMA OldRowsRight ==
  ASSUME AllocInv, [AllocNext]_vars
  PROVE  \A i \in 1..Len(rows) :
           Right(rows[i], kernel'[Column(Cell(i))], Cell(i).sequence)
<1> SUFFICES ASSUME NEW i \in 1..Len(rows)
             PROVE  Right(rows[i], kernel'[Column(Cell(i))], Cell(i).sequence)
  OBVIOUS
<1>1. i \in 1..Cells
  BY RowsFit DEF AllocInv
<1>2. Right(rows[i], kernel[Column(Cell(i))], Cell(i).sequence)
  BY DEF AllocInv, LinesRight
<1>3. kernel'[Column(Cell(i))] = kernel[Column(Cell(i))]
  BY <1>1, <1>2, SettledStays DEF Right
<1>4. QED
  BY <1>2, <1>3

\* The line of a child that got to the end is right.
LEMMA PrintedIsRight ==
  ASSUME AllocInv, PrintCell
  PROVE  Right(line', Behaviour, Current.sequence)
<1> DEFINE k == Behaviour
           q == Current.sequence
<1>1. k \in Kinds /\ q \in Orders
  BY CurrentKind DEF PrintCell, At, Alive
<1>2. /\ led["idle"] = Floor
      /\ led["before"] = Floor + Charge(k)
      /\ led["after"] = AfterAdvice(k, q)
  BY DEF AllocInv, PrintCell, At, ChildMeasures, Alive
<1>3. /\ line'.status = "measured"
      /\ line'.delta = AfterAdvice(k, q) - (Floor + Charge(k))
      /\ line'.before = Floor + Charge(k)
      /\ line'.idle = Floor
  BY <1>2 DEF PrintCell, Say
<1>4. Charge(k) \in Int
  BY AllocAssumption DEF Charge
<1> HIDE DEF k, q
<1>5. charged(line') = Charge(k)
  BY <1>3, <1>4 DEF charged, Floor
<1>6. released(line') <=> GivesBack(k, q)
  BY <1>1, <1>3, <1>5, HalfIsGone DEF released
<1>7. Right(line', k, q)
  BY <1>1, <1>3, <1>5, <1>6 DEF Right, Kinds
<1>8. QED
  BY <1>7 DEF k, q

\* Every step keeps the child's line and the parent's rows right.
LEMMA LinesStep ==
  ASSUME AllocInv, [AllocNext]_vars
  PROVE  LinesRight'
<1>0. Types /\ ChildMeasures /\ LinesRight
  BY DEF AllocInv
<1>1. \A i \in 1..Len(rows) :
        /\ Right(rows[i], kernel'[Column(Cell(i))], Cell(i).sequence)
        /\ i \in reported
  BY <1>0, OldRowsRight DEF LinesRight
<1>2. CASE SpawnCell
  BY <1>1, <1>2 DEF SpawnCell, LinesRight, parentVars
<1>3. CASE AllocFails
  <2>1. Right(line', Behaviour, Current.sequence)
    BY <1>3 DEF AllocFails, Say, Right, released, charged
  <2>2. QED
    BY <1>1, <1>3, <2>1, SameCell DEF AllocFails, Say, LinesRight
<1>4. CASE Allocate \/ Touch \/ Unmap \/ Advise \/ Remap
  <2>1. child' \notin {"printed", "exited"} /\ rows' = rows /\ reported' = reported
    BY <1>4 DEF Allocate, Touch, Unmap, Advise, Remap, parentVars
  <2>2. QED
    BY <1>1, <2>1 DEF LinesRight
<1>5. CASE PrintCell
  <2>1. Right(line', Behaviour, Current.sequence)
    BY <1>5, PrintedIsRight
  <2>2. QED
    BY <1>1, <1>5, <2>1, SameCell DEF PrintCell, Say, LinesRight
<1>6. CASE CellExit
  BY <1>0, <1>1, <1>6, SameCell DEF CellExit, At, LinesRight, parentVars
<1>7. CASE CellDies
  <2>1. child \notin {"printed", "exited"} => line = NoLine
    BY <1>0, <1>7 DEF CellDies, ChildMeasures, Alive, Types, AllocTypeOK
  <2>2. QED
    BY <1>0, <1>1, <1>7, <2>1, SameCell DEF CellDies, LinesRight, parentVars
<1>8. CASE Collect
  <2>1. Right(line, Behaviour, Current.sequence) /\ Len(rows) + 1 \in reported
    BY <1>0, <1>8 DEF Collect, At, LinesRight
  <2>2. /\ Len(rows) \in Nat
        /\ Len(rows') = Len(rows) + 1
        /\ rows'[Len(rows) + 1] = line
        /\ \A i \in 1..Len(rows) : rows'[i] = rows[i]
    BY <1>0, <1>8 DEF Collect, Types
  <2>3. /\ kernel' = kernel
        /\ reported' = reported
        /\ child' = "none"
    BY <1>8 DEF Collect
  <2>4. ASSUME NEW i \in 1..Len(rows')
        PROVE  /\ Right(rows'[i], kernel'[Column(Cell(i))], Cell(i).sequence)
               /\ i \in reported'
    <3>1. CASE i \in 1..Len(rows)
      BY <1>1, <2>2, <2>3, <3>1
    <3>2. CASE i = Len(rows) + 1
      BY <2>1, <2>2, <2>3, <3>2 DEF Behaviour, Current
    <3>3. QED
      BY <2>2, <3>1, <3>2
  <2>5. QED
    BY <2>3, <2>4 DEF LinesRight
<1>9. CASE NoResult
  BY <1>0, <1>1, <1>9 DEF NoResult, LinesRight, cellVars
<1>10. CASE PrintVerdict
  BY <1>0, <1>1, <1>10 DEF PrintVerdict, At, LinesRight, cellVars
<1>11. CASE UNCHANGED vars
  BY <1>0, <1>1, <1>11, SameCell DEF vars, LinesRight
<1>12. QED
  BY <1>2, <1>3, <1>4, <1>5, <1>6, <1>7, <1>8, <1>9, <1>10, <1>11
  DEF AllocNext, CellStep, ParentStep

\* A release the verdicts find in the rows is one of the kernel's.
LEMMA ReleasedGives ==
  ASSUME AllocInv, NEW shape, NEW toucher, NEW sequence,
         Released(shape, toucher, sequence)
  PROVE  GivesTo(toucher, sequence, shape)
<1>1. PICK i \in DOMAIN rows :
        /\ Cell(i) = [shape |-> shape, toucher |-> toucher, sequence |-> sequence]
        /\ released(rows[i])
  BY DEF Released
<1>2. i \in 1..Len(rows)
  BY <1>1 DEF AllocInv, Types
<1>3. Right(rows[i], kernel[Column(Cell(i))], Cell(i).sequence)
  BY <1>2 DEF AllocInv, LinesRight
<1>4. GivesBack(kernel[Column(Cell(i))], Cell(i).sequence)
  BY <1>1, <1>3 DEF Right
<1>5. Gives(Cell(i))
  BY <1>4, GivesIsGivesBack
<1>6. QED
  BY <1>1, <1>5 DEF GivesTo

\* No verdict credits anything while there is none.
LEMMA NothingCredited ==
  ASSUME verdict = NoVerdict
  PROVE  CreditedReleasesHappened
BY DEF CreditedReleasesHappened, NoVerdict

\* Every step keeps the verdicts to releases that happened.
LEMMA VerdictStep ==
  ASSUME AllocInv, [AllocNext]_vars
  PROVE  VerdictRight'
<1>0. VerdictRight
  BY DEF AllocInv
<1>1. CASE PrintVerdict
  <2>1. /\ kernel' = kernel
        /\ parent' = "done"
        /\ Len(rows') = Cells
    BY <1>1 DEF PrintVerdict
  <2>2. verdict'.one = "shape is the precondition" =>
          \E i \in 1..3 : GivesTo("guest", "inplace", Shapes[i])
    <3>1. verdict'.one = "shape is the precondition" =>
            \E i \in 1..3 : Released(Shapes[i], "guest", "inplace")
      BY <1>1 DEF PrintVerdict
    <3>2. QED
      BY <3>1, ReleasedGives
  <2>3. verdict'.two = "can be released" =>
          \E i \in 1..2, j \in 1..3 : GivesTo(Touchers[i], Sequences3[j], "hvalloc")
    <3>1. verdict'.two = "can be released" =>
            \E i \in 1..2, j \in 1..3 :
              Released("hvalloc", Touchers[i], Sequences3[j])
      BY <1>1 DEF PrintVerdict
    <3>2. QED
      BY <3>1, ReleasedGives
  <2>4. verdict'.three = "the advice is a no-op" =>
          GivesTo("guest", "unmaponly", "private")
    <3>1. verdict'.three = "the advice is a no-op" =>
            Released("private", "guest", "unmaponly")
      BY <1>1 DEF PrintVerdict
    <3>2. QED
      BY <3>1, ReleasedGives
  <2>5. CreditedReleasesHappened'
    BY <2>1, <2>2, <2>3, <2>4 DEF CreditedReleasesHappened, GivesTo, Gives
  <2>6. QED
    BY <2>1, <2>5 DEF VerdictRight
<1>2. CASE parent = "running" /\ parent' # "done" /\ verdict' = verdict
  <2>1. verdict' = NoVerdict
    BY <1>0, <1>2 DEF VerdictRight
  <2>2. CreditedReleasesHappened'
    BY <2>1 DEF CreditedReleasesHappened, NoVerdict
  <2>3. QED
    BY <1>2, <2>1, <2>2 DEF VerdictRight
<1>3. CASE UNCHANGED vars
  BY <1>0, <1>3
  DEF vars, VerdictRight, CreditedReleasesHappened, GivesTo, Gives
<1>4. CASE \/ SpawnCell \/ AllocFails \/ Allocate \/ Touch \/ Unmap \/ Advise
           \/ Remap \/ PrintCell \/ CellExit \/ CellDies \/ Collect \/ NoResult
  BY <1>2, <1>4
  DEF SpawnCell, AllocFails, Allocate, Touch, Unmap, Advise, Remap, PrintCell,
      CellExit, CellDies, Collect, NoResult, At, parentVars
<1>5. QED
  BY <1>1, <1>3, <1>4 DEF AllocNext, CellStep, ParentStep

-----------------------------------------------------------------------------
\* The invariant holds before the first child.
LEMMA AllocInitInv ==
  ASSUME AllocInit
  PROVE  AllocInv
<1>1. Types
  BY AllocAssumption DEF AllocInit, Types, AllocTypeOK, Cells, NoLine, Result, Floor
<1>2. ChildMeasures
  BY DEF AllocInit, ChildMeasures, Alive
<1>3. LinesRight
  BY DEF AllocInit, LinesRight
<1>4. VerdictRight
  BY NothingCredited DEF AllocInit, VerdictRight
<1>5. QED
  BY <1>1, <1>2, <1>3, <1>4 DEF AllocInv

(***************************************************************************)
(* What a child has measured so far, and every line and row printed from   *)
(* it, is a function of how the kernel treats its column and of its        *)
(* sequence, at every point of alloc_shape.rs and wherever children die.   *)
(***************************************************************************)
THEOREM AllocInvariant == AllocSpec => []AllocInv
<1>1. AllocInit => AllocInv
  BY AllocInitInv
<1>2. AllocInv /\ [AllocNext]_vars => AllocInv'
  BY TypesStep, ChildStep, LinesStep, VerdictStep DEF AllocInv
<1>3. QED
  BY <1>1, <1>2, PTL DEF AllocSpec

(***************************************************************************)
(* The types of the allocation-shape matrix: in particular a child's       *)
(* footprint never falls below nothing, whatever the sequence takes away.  *)
(***************************************************************************)
THEOREM AllocTypesHold == AllocSpec => []AllocTypeOK
<1>1. AllocInv => AllocTypeOK
  BY DEF AllocInv, Types
<1>2. QED
  BY <1>1, AllocInvariant, PTL

(***************************************************************************)
(* Every row the parent of alloc_shape.rs collects measures its own cell,  *)
(* for every charge and every way the kernel may treat the shapes.         *)
(***************************************************************************)
THEOREM EveryRowMeasuresItsCell == AllocSpec => []RowsMeasureTheirCell
<1>1. AllocInv => RowsMeasureTheirCell
  <2> SUFFICES ASSUME AllocInv
               PROVE  RowsMeasureTheirCell
    OBVIOUS
  <2>1. DOMAIN rows = 1..Len(rows)
    BY DEF AllocInv, Types
  <2>2. NoSilentGap
    BY <2>1 DEF AllocInv, LinesRight, VerdictRight, NoSilentGap
  <2>3. ASSUME NEW i \in DOMAIN rows, rows[i].status = "measured"
        PROVE  /\ charged(rows[i]) = IF kernel[Column(Cell(i))] = "uncharged"
                                       THEN 0 ELSE Charged
               /\ released(rows[i]) = Gives(Cell(i))
    <3>1. Right(rows[i], kernel[Column(Cell(i))], Cell(i).sequence)
      BY <2>1, <2>3 DEF AllocInv, LinesRight
    <3>2. charged(rows[i]) = Charge(kernel[Column(Cell(i))])
      BY <2>3, <3>1 DEF Right
    <3>3. released(rows[i]) <=> GivesBack(kernel[Column(Cell(i))], Cell(i).sequence)
      BY <2>3, <3>1 DEF Right
    <3>4. released(rows[i]) = GivesBack(kernel[Column(Cell(i))], Cell(i).sequence)
      BY <3>3 DEF released, GivesBack
    <3>5. QED
      BY <3>2, <3>4, GivesIsGivesBack DEF Charge
  <2>4. ASSUME NEW i \in DOMAIN rows, rows[i].status = "alloc-failed"
        PROVE  kernel[Column(Cell(i))] = "refused"
    BY <2>1, <2>4 DEF AllocInv, LinesRight, Right
  <2>5. QED
    BY <2>2, <2>3, <2>4 DEF RowsMeasureTheirCell
<1>2. QED
  BY <1>1, AllocInvariant, PTL

(***************************************************************************)
(* The three verdicts of alloc_shape.rs credit no release that did not     *)
(* happen, for every charge and every way the kernel may treat the shapes. *)
(***************************************************************************)
THEOREM VerdictsCreditReleases == AllocSpec => []CreditedReleasesHappened
<1>1. AllocInv => CreditedReleasesHappened
  BY DEF AllocInv, VerdictRight
<1>2. QED
  BY <1>1, AllocInvariant, PTL
=============================================================================
