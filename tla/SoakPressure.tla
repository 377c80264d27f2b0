---------------------------- MODULE SoakPressure ----------------------------
(***************************************************************************)
(* The pressure thread of the soak and the end of run,                     *)
(* crates/hv-reclaim/src/soak.rs, composed with the pressure generator.    *)
(*                                                                         *)
(* The thread applies pressure in bursts until a shared flag stops it; run *)
(* prints progress until the deadline, joins the workers, raises the flag, *)
(* joins the thread and prints the verdict.  A ledger read of the progress *)
(* line may panic: that ends the process, without the guard's destructor.  *)
(* The workers themselves are module Soak; here they only end.             *)
(*                                                                         *)
(* thread   "top" (the while condition), "apply", "on" (the burst's wait), *)
(*          "off" (the pause's wait) or "ended"                            *)
(* stop     the shared flag                                                *)
(* workers  "running" or "ended" (done or panicked; join ignores which)    *)
(* main     "joining workers" (the progress lines included), "joining      *)
(*          pressure", "printed" or "panicked"                             *)
(***************************************************************************)
EXTENDS Pressure

VARIABLES thread, stop, workers, main

runVars == <<workers, main, stop>>
soakPressureVars == <<pressureVars, thread, runVars>>

SoakPressureTypeOK ==
  /\ PressureTypeOK
  /\ thread \in {"top", "apply", "on", "off", "ended"}
  /\ stop \in BOOLEAN
  /\ workers \in {"running", "ended"}
  /\ main \in {"joining workers", "joining pressure", "printed", "panicked"}

SoakPressureInit ==
  /\ PressureInit
  /\ thread = "top"
  /\ stop = FALSE
  /\ workers = "running"
  /\ main = "joining workers"

-----------------------------------------------------------------------------
(* The pressure thread. *)

EnterAlways ==
  /\ parent = "alive" /\ thread = "top" /\ thread' = "apply"
  /\ UNCHANGED <<pressureVars, runVars>>
Enter ==
  /\ parent = "alive"
  /\ thread = "top"
  /\ thread' = IF stop THEN "ended" ELSE "apply"
  /\ UNCHANGED <<pressureVars, runVars>>

\* apply, up to its return with a guard or an error; the result is kept, not
\* looked at.
ApplyStep ==
  /\ thread = "apply"
  /\ Apply
  /\ thread' = IF app' \in {"ok", "err"} THEN "on" ELSE "apply"
  /\ UNCHANGED runVars

\* PRESSURE_ON is over or the flag is up: drop the guard, if there is one.
Release ==
  /\ parent = "alive"
  /\ thread = "on"
  /\ thread' = "off"
  /\ IF app = "ok" THEN DropGuard ELSE UNCHANGED pressureVars
  /\ UNCHANGED <<runVars>>

\* PRESSURE_OFF is over or the flag is up.
Pause ==
  /\ parent = "alive"
  /\ thread = "off"
  /\ thread' = "top"
  /\ UNCHANGED <<pressureVars, runVars>>

Beyond == UNCHANGED <<thread, runVars>>

GeneratorStep == Generator /\ Beyond

-----------------------------------------------------------------------------
(* run. *)

WorkersEnd ==
  /\ parent = "alive"
  /\ workers = "running"
  /\ workers' = "ended"
  /\ UNCHANGED <<pressureVars, thread, main, stop>>

\* The ledger read of a progress line fails: its panic is run's, and main's.
ProgressFails ==
  /\ main = "joining workers"
  /\ main' = "panicked"
  /\ ParentDies
  /\ UNCHANGED <<thread, stop, workers>>

\* The workers are joined; raise the flag.
StopPressure ==
  /\ main = "joining workers"
  /\ workers = "ended"
  /\ stop' = TRUE
  /\ main' = "joining pressure"
  /\ UNCHANGED <<pressureVars, thread, workers>>

\* The thread is joined; print the verdict.
PrintVerdictUnjoined ==
  /\ main = "joining pressure" /\ main' = "printed"
  /\ UNCHANGED <<pressureVars, thread, stop, workers>>
PrintVerdict ==
  /\ main = "joining pressure"
  /\ thread = "ended"
  /\ main' = "printed"
  /\ UNCHANGED <<pressureVars, thread, stop, workers>>

-----------------------------------------------------------------------------
PressureThread == Enter \/ ApplyStep \/ Release \/ Pause

SoakPressureNext ==
  \/ PressureThread
  \/ GeneratorStep
  \/ WorkersEnd
  \/ ProgressFails
  \/ StopPressure
  \/ PrintVerdict

(***************************************************************************)
(* The thread's waits end (by time or by the flag), the generator goes on  *)
(* dirtying and reports, workers end after the deadline, run's joins       *)
(* return.  Nothing has to fail and nobody has to kill the generator.      *)
(***************************************************************************)
SoakPressureFairness ==
  /\ WF_soakPressureVars(PressureThread)
  /\ WF_soakPressureVars((DirtyChunk \/ HoldAll) /\ Beyond)
  /\ WF_soakPressureVars(WorkersEnd)
  /\ WF_soakPressureVars(StopPressure)
  /\ WF_soakPressureVars(PrintVerdict)

SoakPressureSpec ==
  SoakPressureInit /\ [][SoakPressureNext]_soakPressureVars
    /\ SoakPressureFairness

-----------------------------------------------------------------------------
(***************************************************************************)
(* The soak leaves no generator behind and none runs while the verdict is  *)
(* printed: whatever the thread was doing when the flag went up (spawning, *)
(* waiting for HOLDING, holding), the child is killed and reaped first.    *)
(***************************************************************************)
NoPressureAfterVerdict == main = "printed" => gen \in {"none", "reaped"}

(***************************************************************************)
(* At most one generator at a time, and it exists only in a burst: in the  *)
(* pauses, which let the machine recover, no child holds memory.           *)
(***************************************************************************)
PauseIsQuiet == thread \in {"top", "off", "ended"} => gen \in {"none", "reaped"}
=============================================================================
