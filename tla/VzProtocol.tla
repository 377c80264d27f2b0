----------------------------- MODULE VzProtocol -----------------------------
(***************************************************************************)
(* The line protocol of vz-ratchet: the driver (crates/vz-ratchet/src,     *)
(* main.rs, fleet.rs, harness.rs), the Swift harness that owns the VM      *)
(* (harness/vz-ratchet.swift) and PID 1 of the guest                       *)
(* (guest-init/src/main.rs).                                               *)
(*                                                                         *)
(* Three processes talk through pipes.  The driver writes a command and    *)
(* waits for a line with a prefix, dropping every other line; the harness  *)
(* forwards guest commands, answers balloon commands and copies the        *)
(* guest's serial output; the guest executes commands one at a time.  The  *)
(* kernel's log shares the output with the guest's replies, which a        *)
(* formatted write to an unbuffered file puts there in three pieces:       *)
(* "RATCHET ", the reply and the newline.                                  *)
(*                                                                         *)
(* run       "fleet" (with --fleet) or "touch"                             *)
(* dpc, step, sent   the driver: where it is, the step of its script, the  *)
(*           commands it has sent; "killed" is a death without unwinding   *)
(* helper    whose XPC helper the driver samples: "ours" or of another VM, *)
(*           "old" (there before ours) or "other" (started meanwhile)      *)
(* others    another VM has been started meanwhile                         *)
(* polls, low        readings of MemAvailable since the balloon; whether   *)
(*           the last one was under half of the first                      *)
(* sampler   the sampling thread of a fleet run                            *)
(* harness   "up", "exited" or "crashed" (the VM is gone with it)          *)
(* started   HARNESS started has been written                              *)
(* cmds, eof, mainq  the harness's stdin, its end of file, its main queue  *)
(* serial    the guest's input                                             *)
(* guest     "off", "idle", "busy" (a reply to write) or "dead"            *)
(* reply, pieces     the reply and how many of its pieces are written      *)
(* partial   what of the reply the output's unfinished line holds:         *)
(*           "none", "prefix" or "body"                                    *)
(* lines     complete lines the driver has not read                        *)
(* fleet, held       how many children the guest has; whether it holds the *)
(*           memory it was told to touch                                   *)
(* balloon   "idle", "target" (set by the host) or "inflated" (the guest   *)
(*           has given up the pages)                                       *)
(* noise     kernel log lines so far                                       *)
(* upset     history: something outside the protocol went wrong            *)
(***************************************************************************)
EXTENDS Naturals, Sequences

CONSTANTS Services,   \* --services
          MaxPolls,   \* bound on the readings of MemAvailable
          MaxNoise,   \* bound on kernel log lines
          Disturb     \* what may go wrong: "nostart" (the VM does not start),
                      \* "early" (READY before started), "noboot" (PID 1
                      \* panics on its way up), "nohelper" (ours shows up
                      \* too late), "unfit" (a fleet larger than the
                      \* guest was asked for), "othervm" (another VM starts),
                      \* "klog" (kernel log lines), "oom" (mmap or fork
                      \* fails in the guest), "slow" (a timeout before a
                      \* late reply), "crash" (of the harness), "kill" (of
                      \* the driver), "nopressure" (no pressure generator)

ASSUME VzAssumption ==
  /\ Services \in Nat
  /\ MaxPolls \in Nat \ {0}
  /\ MaxNoise \in Nat

VARIABLES run, dpc, step, sent, polls, low, sampler, helper, others, harness,
          started, cmds, eof, mainq, serial, guest, reply, pieces, partial,
          lines, fleet, held, balloon, noise, upset

subject == <<run, helper, others>>
driverVars == <<subject, dpc, step, sent, polls, low, sampler>>
harnessVars == <<harness, started, cmds, eof, mainq>>
guestVars == <<serial, guest, reply, pieces, fleet, held, balloon>>
outVars == <<partial, lines, noise, upset>>
vzVars == <<driverVars, harnessVars, guestVars, outVars>>

-----------------------------------------------------------------------------
(* The driver's script: what it sends and the prefix it then waits for.    *)

Step(cmd, want) == [cmd |-> cmd, want |-> want]

TouchScript ==
  <<Step("touch", "TOUCHED"), Step("free", "FREED"), Step("mem", "MEM"),
    Step("balloon", "balloon-target"), Step("mem", "MEM")>>

FleetScriptOneStopMore ==
  [i \in 1..Services |-> Step("fleet-start", "FLEET-STARTED")]
    \o [i \in 1..Services + 1 |-> Step("fleet-stop-one", "FLEET-STOPPED")]
    \o <<Step("balloon", "balloon-target")>>
FleetScriptOneStartMore ==
  [i \in 1..Services + 1 |-> Step("fleet-start", "FLEET-STARTED")]
    \o [i \in 1..Services |-> Step("fleet-stop-one", "FLEET-STOPPED")]
    \o <<Step("balloon", "balloon-target")>>
FleetScript ==
  [i \in 1..Services |-> Step("fleet-start", "FLEET-STARTED")]
    \o [i \in 1..Services |-> Step("fleet-stop-one", "FLEET-STOPPED")]
    \o <<Step("balloon", "balloon-target")>>

Script == IF run = "fleet" THEN FleetScript ELSE TouchScript

\* The last step of the touch run, the MemAvailable poll, is a loop.
Polling == run = "touch" /\ step = Len(Script)

Waiting == dpc \in {"wait-started", "wait-ready", "wait"}

Want ==
  CASE dpc = "wait-started" -> "started"
    [] dpc = "wait-ready" -> "READY"
    [] dpc = "wait" -> Script[step].want
    [] OTHER -> "nothing"

Line(tag, id, arg) == [tag |-> tag, id |-> id, arg |-> arg]

Over == {"ended", "panicked", "killed"}

Garbled == 2   \* the argument of a reply with something else behind it

VzTypeOK ==
  /\ run \in {"fleet", "touch"}
  /\ dpc \in {"wait-started", "wait-ready", "find-helper", "sample", "send",
              "wait", "pressure", "stop-sampler", "quit", "reap"} \cup Over
  /\ step \in 1..Len(Script) + 1
  /\ sent \in 0..Len(Script) + MaxPolls
  /\ polls \in 0..MaxPolls
  /\ low \in BOOLEAN
  /\ sampler \in {"off", "on", "ended", "panicked"}
  /\ helper \in {"none", "old", "ours", "other"}
  /\ harness \in {"up", "exited", "crashed"}
  /\ {others, started, eof, held, upset} \subseteq BOOLEAN
  /\ guest \in {"off", "idle", "busy", "dead"}
  /\ pieces \in 0..2
  /\ partial \in {"none", "prefix", "body"}
  /\ fleet \in 0..Services
  /\ balloon \in {"idle", "target", "inflated"}
  /\ noise \in 0..MaxNoise

VzInit ==
  /\ run \in {"fleet", "touch"}
  /\ dpc = "wait-started" /\ step = 1 /\ sent = 0
  /\ polls = 0 /\ low = FALSE
  /\ sampler = "off" /\ helper = "none" /\ others = FALSE
  /\ harness = "up" /\ started = FALSE
  /\ cmds = <<>> /\ eof = FALSE /\ mainq = <<>>
  /\ serial = <<>> /\ guest = "off" /\ reply = Line("none", 0, 0)
  /\ pieces = 0 /\ fleet = 0 /\ held = FALSE /\ balloon = "idle"
  /\ partial = "none" /\ lines = <<>> /\ noise = 0
  /\ upset = FALSE

-----------------------------------------------------------------------------
(* The driver. *)

\* A panic unwinds through Harness::drop: kill and wait.  foreign: nothing
\* the protocol itself did led to it.
Unwind(foreign) ==
  /\ dpc' = "panicked"
  /\ harness' = "exited"
  /\ upset' = (upset \/ foreign)
  /\ UNCHANGED <<subject, step, sent, polls, low, sampler, started, cmds, eof,
                 mainq, guestVars, partial, lines, noise>>

\* Harness::send; with the harness gone the write fails and expect panics.
Send ==
  /\ dpc = "send"
  /\ IF harness # "up"
       THEN Unwind(FALSE)
       ELSE /\ cmds' = Append(cmds, [cmd |-> Script[step].cmd, id |-> sent + 1])
            /\ sent' = sent + 1
            /\ dpc' = "wait"
            /\ UNCHANGED <<subject, step, polls, low, sampler, harness, started,
                           eof, mainq, guestVars, outVars>>

\* Where the driver goes from a step of its script: the touch run prints a
\* row after touch and after free.
AfterStep ==
  CASE run = "touch" -> IF step <= 2 THEN "sample" ELSE "send"
    [] run = "fleet" -> IF step < Len(Script) THEN "send" ELSE "stop-sampler"

\* What the driver does after the line it waited for.
AfterMatch(line) ==
  CASE dpc = "wait-started" ->
         dpc' = "wait-ready" /\ UNCHANGED <<step, polls, low>>
    [] dpc = "wait-ready" ->
         dpc' = "find-helper" /\ UNCHANGED <<step, polls, low>>
    [] dpc = "wait" /\ Polling ->
         /\ polls' = polls + 1
         /\ low' = (line.arg = 1)
         /\ \/ ~low' /\ polls' < MaxPolls /\ dpc' = "send" /\ UNCHANGED step
            \/ (low' \/ polls' = MaxPolls) /\ dpc' = "sample" /\ step' = step + 1
    [] dpc = "wait" /\ ~Polling ->
         /\ step' = step + 1
         /\ dpc' = AfterStep
         /\ UNCHANGED <<polls, low>>

\* guest_mem_available_kib: what follows the prefix is no number.
Unparsable(line) == line.tag = "MEM" /\ line.arg = Garbled

WaitMatchAnyLine ==
  /\ Waiting /\ lines # <<>> /\ ~Unparsable(Head(lines))
  /\ dpc = "wait" \/ Head(lines).tag = Want
  /\ lines' = Tail(lines) /\ AfterMatch(Head(lines))
  /\ UNCHANGED <<subject, sent, sampler, harnessVars, guestVars, partial, noise,
                 upset>>

\* Harness::wait reads a line: the one it waits for, or one it drops.
WaitMatch ==
  /\ Waiting
  /\ lines # <<>>
  /\ Head(lines).tag = Want
  /\ ~Unparsable(Head(lines))
  /\ lines' = Tail(lines)
  /\ AfterMatch(Head(lines))
  /\ UNCHANGED <<subject, sent, sampler, harnessVars, guestVars, partial, noise,
                 upset>>

WaitUnparsable ==
  /\ dpc = "wait"
  /\ lines # <<>>
  /\ Head(lines).tag = Want
  /\ Unparsable(Head(lines))
  /\ Unwind(FALSE)

WaitSkip ==
  /\ Waiting
  /\ lines # <<>>
  /\ Head(lines).tag # Want
  /\ lines' = Tail(lines)
  /\ UNCHANGED <<driverVars, harnessVars, guestVars, partial, noise, upset>>

\* Nothing is on its way to the driver any more.
Quiet ==
  /\ started /\ guest \in {"idle", "dead"}
  /\ cmds = <<>> /\ mainq = <<>> /\ (serial = <<>> \/ guest = "dead")

WaitTimeoutRetriesMem ==
  /\ Waiting /\ lines = <<>> /\ harness = "up"
  /\ Quiet \/ "slow" \in Disturb
  /\ IF dpc = "wait" /\ Want = "MEM" /\ sent < Len(Script)
       THEN /\ dpc' = "send"
            /\ UNCHANGED <<subject, step, sent, polls, low, sampler, harnessVars,
                           guestVars, outVars>>
       ELSE Unwind(~Quiet)
WaitTimeoutIgnored ==
  Waiting /\ lines = <<>> /\ harness = "up" /\ Quiet /\ UNCHANGED vzVars

\* The timeouts are long: one expires on a reply that never comes, or, if
\* the machine is slow, on one that is late.
WaitTimeout ==
  /\ Waiting
  /\ lines = <<>>
  /\ harness = "up"
  /\ Quiet \/ "slow" \in Disturb
  /\ Unwind(~Quiet)

WaitDisconnected ==
  /\ Waiting
  /\ lines = <<>>
  /\ harness # "up"
  /\ Unwind(FALSE)

\* The helpers there before Harness::spawn, and the ones there now; ours goes
\* with its VM.
pre_existing == {"old"}

running_helpers ==
  pre_existing \cup (IF harness = "up" THEN {"ours"} ELSE {})
               \cup (IF others THEN {"other"} ELSE {})

\* find_new_helper, then the start of the run: a fleet run asserts that the
\* fleet fits the guest and spawns its sampler, a touch run samples its
\* baseline.
FindHelper ==
  /\ dpc = "find-helper"
  /\ \/ /\ \E h \in running_helpers \ pre_existing : helper' = h
        /\ dpc' = IF run = "fleet" THEN "send" ELSE "sample"
        /\ sampler' = IF run = "fleet" THEN "on" ELSE "off"
        /\ UNCHANGED <<run, others, step, sent, polls, low, harnessVars,
                       guestVars, outVars>>
     \/ running_helpers \ pre_existing = {} /\ Unwind(FALSE)
     \/ "nohelper" \in Disturb /\ Unwind(TRUE)
     \/ run = "fleet" /\ "unfit" \in Disturb /\ Unwind(TRUE)

\* Somebody starts a VM of their own between the two looks at the helpers.
OtherVm ==
  /\ "othervm" \in Disturb
  /\ ~others
  /\ dpc \in {"wait-started", "wait-ready", "find-helper"}
  /\ others' = TRUE
  /\ UNCHANGED <<run, helper, dpc, step, sent, polls, low, sampler, harnessVars,
                 guestVars, outVars>>

\* helper::sample and a row; a helper that is gone panics the driver.
SampleRow ==
  /\ dpc = "sample"
  /\ IF helper \notin running_helpers
       THEN Unwind(FALSE)
       ELSE /\ dpc' = IF step <= Len(Script) THEN "send" ELSE "pressure"
            /\ UNCHANGED <<subject, step, sent, polls, low, sampler, harnessVars,
                           guestVars, outVars>>

\* The last part of the touch run: nothing without --pressure-gb, else the
\* generator, a sample and the canary's verdict.
UnderPressure ==
  /\ dpc = "pressure"
  /\ \/ /\ dpc' = "quit"
        /\ UNCHANGED <<subject, step, sent, polls, low, sampler, harnessVars,
                       guestVars, outVars>>
     \/ helper \notin running_helpers /\ Unwind(FALSE)
     \/ "nopressure" \in Disturb /\ Unwind(TRUE)

\* fleet::run: stop the sampler and join it, before the VM goes.
StopSampler ==
  /\ dpc = "stop-sampler"
  /\ dpc' = "quit"
  /\ sampler' = IF sampler = "on" THEN "ended" ELSE sampler
  /\ UNCHANGED <<subject, step, sent, polls, low, harnessVars, guestVars, outVars>>

\* Harness::quit: send quit ...
Quit ==
  /\ dpc = "quit"
  /\ IF harness # "up"
       THEN Unwind(FALSE)
       ELSE /\ cmds' = Append(cmds, [cmd |-> "quit", id |-> 0])
            /\ dpc' = "reap"
            /\ UNCHANGED <<subject, step, sent, polls, low, sampler, harness,
                           started, eof, mainq, guestVars, outVars>>

ReapUnwaited ==
  /\ dpc = "reap" /\ dpc' = "ended"
  /\ UNCHANGED <<subject, step, sent, polls, low, sampler, harnessVars, guestVars,
                 outVars>>

\* ... and wait for the child.
Reap ==
  /\ dpc = "reap"
  /\ harness # "up"
  /\ dpc' = "ended"
  /\ UNCHANGED <<subject, step, sent, polls, low, sampler, harnessVars, guestVars,
                 outVars>>

\* The driver is killed: nothing unwinds, its end of the pipe closes.
DriverKilled ==
  /\ "kill" \in Disturb
  /\ dpc \notin Over
  /\ dpc' = "killed"
  /\ eof' = TRUE
  /\ UNCHANGED <<subject, step, sent, polls, low, sampler, harness, started, cmds,
                 mainq, guestVars, outVars>>

\* The sampler reads the helper's ledger, and panics when that is gone.
Sample ==
  /\ sampler = "on"
  /\ helper \notin running_helpers
  /\ dpc # "killed"
  /\ sampler' = "panicked"
  /\ UNCHANGED <<subject, dpc, step, sent, polls, low, harnessVars, guestVars,
                 outVars>>

-----------------------------------------------------------------------------
(* The output.  A complete line of somebody else goes behind what the      *)
(* guest has written of a reply: behind the prefix it makes a line nobody  *)
(* waits for, behind the body it makes the reply with a tail.              *)

Emit(tag, id) ==
  /\ lines' = Append(lines,
               CASE partial = "none" -> Line(tag, id, 0)
                 [] partial = "prefix" -> Line("junk", 0, 0)
                 [] partial = "body" -> [reply EXCEPT !.arg = Garbled])
  /\ partial' = "none"
  /\ upset' = (upset \/ partial # "none")

-----------------------------------------------------------------------------
(* The harness. *)

EmitStarted ==
  /\ harness = "up"
  /\ ~started
  /\ started' = TRUE
  /\ Emit("started", 0)
  /\ UNCHANGED <<driverVars, harness, cmds, eof, mainq, guestVars, noise>>

\* The configuration is refused or vm.start fails: a line, and exit(1).
StartFailed ==
  /\ "nostart" \in Disturb
  /\ harness = "up"
  /\ ~started
  /\ guest = "off"
  /\ harness' = "exited"
  /\ lines' = Append(lines, Line("start-failed", 0, 0))
  /\ upset' = TRUE
  /\ UNCHANGED <<driverVars, started, cmds, eof, mainq, guestVars, partial,
                 noise>>

HarnessCrashed ==
  /\ "crash" \in Disturb
  /\ harness = "up"
  /\ harness' = "crashed"
  /\ upset' = TRUE
  /\ UNCHANGED <<driverVars, started, cmds, eof, mainq, guestVars, partial,
                 lines, noise>>

ReadStdinToTheEnd ==
  /\ harness = "up" /\ cmds # <<>>
  /\ mainq' = Append(mainq, Head(cmds)) /\ cmds' = Tail(cmds)
  /\ UNCHANGED <<driverVars, harness, started, eof, guestVars, outVars>>

\* The stdin thread hands every line, and in the end the end of file, to
\* the main queue.
ReadStdin ==
  /\ harness = "up"
  /\ \/ /\ cmds # <<>>
        /\ mainq' = Append(mainq, Head(cmds))
        /\ cmds' = Tail(cmds)
        /\ UNCHANGED eof
     \/ /\ cmds = <<>>
        /\ eof
        /\ mainq' = Append(mainq, [cmd |-> "quit", id |-> 0])
        /\ eof' = FALSE
        /\ UNCHANGED cmds
  /\ UNCHANGED <<driverVars, harness, started, guestVars, outVars>>

HandleSilently ==
  /\ harness = "up" /\ mainq # <<>> /\ mainq' = Tail(mainq)
  /\ LET c == Head(mainq) IN
     /\ harness' = IF c.cmd = "quit" THEN "exited" ELSE "up"
     /\ balloon' = IF c.cmd = "balloon" THEN "target" ELSE balloon
     /\ serial' = IF c.cmd \in {"quit", "balloon"} THEN serial ELSE Append(serial, c)
  /\ UNCHANGED <<driverVars, started, cmds, eof, guest, reply, pieces, fleet,
                 held, outVars>>
Handle ==
  /\ harness = "up"
  /\ mainq # <<>>
  /\ mainq' = Tail(mainq)
  /\ LET c == Head(mainq) IN
     \/ /\ c.cmd = "quit"
        /\ harness' = "exited"
        /\ UNCHANGED <<serial, balloon, partial, lines, upset>>
     \/ /\ c.cmd = "balloon"
        /\ balloon' = "target"
        /\ Emit("balloon-target", c.id)
        /\ UNCHANGED <<harness, serial>>
     \/ /\ c.cmd \notin {"quit", "balloon"}
        /\ serial' = Append(serial, c)
        /\ UNCHANGED <<harness, balloon, partial, lines, upset>>
  /\ UNCHANGED <<driverVars, started, cmds, eof, guest, reply, pieces, fleet,
                 held, noise>>

-----------------------------------------------------------------------------
(* The guest. *)

\* PID 1 has the console open and writes READY, in one piece.
Boot ==
  /\ harness = "up"
  /\ guest = "off"
  /\ started \/ "early" \in Disturb
  /\ guest' = "idle"
  /\ lines' = Append(lines, Line("READY", 0, 0))
  /\ upset' = (upset \/ ~started)
  /\ UNCHANGED <<driverVars, harnessVars, serial, reply, pieces, fleet, held,
                 balloon, partial, noise>>

\* A file system that cannot be mounted, or a console that never appears.
BootFails ==
  /\ "noboot" \in Disturb
  /\ harness = "up"
  /\ guest = "off"
  /\ started
  /\ guest' = "dead"
  /\ upset' = TRUE
  /\ UNCHANGED <<driverVars, harnessVars, serial, reply, pieces, fleet, held,
                 balloon, partial, lines, noise>>

Reply(tag, id, arg) == guest' = "busy" /\ reply' = Line(tag, id, arg)

\* PID 1 panics: no reply, and no further command.
Die == guest' = "dead" /\ upset' = TRUE /\ UNCHANGED <<reply, fleet, held>>

\* One command: touch and free memory, read MemAvailable (1: under half of
\* the first reading, which takes an inflated balloon), fork one child, kill
\* and reap one.
GuestCommand ==
  /\ harness = "up"
  /\ guest = "idle"
  /\ serial # <<>>
  /\ serial' = Tail(serial)
  /\ LET c == Head(serial) IN
     \/ /\ c.cmd = "touch"
        /\ Reply("TOUCHED", c.id, 0)
        /\ held' = TRUE
        /\ UNCHANGED <<fleet, upset>>
     \/ /\ c.cmd = "free"
        /\ Reply("FREED", c.id, 0)
        /\ held' = FALSE
        /\ UNCHANGED <<fleet, upset>>
     \/ /\ c.cmd = "mem"
        /\ \E under \in IF balloon = "inflated" THEN {0, 1} ELSE {0} :
             Reply("MEM", c.id, under)
        /\ UNCHANGED <<fleet, held, upset>>
     \/ /\ c.cmd = "fleet-start"
        /\ fleet' = fleet + 1
        /\ Reply("FLEET-STARTED", c.id, fleet')
        /\ UNCHANGED <<held, upset>>
     \/ /\ c.cmd = "fleet-stop-one"
        /\ IF fleet = 0   \* drain(..1) panics
             THEN Die
             ELSE /\ fleet' = fleet - 1
                  /\ Reply("FLEET-STOPPED", c.id, fleet')
                  /\ UNCHANGED <<held, upset>>
     \/ /\ c.cmd \in {"touch", "fleet-start"}
        /\ "oom" \in Disturb   \* mmap or fork fails
        /\ Die
  /\ UNCHANGED <<driverVars, harnessVars, pieces, balloon, partial, lines, noise>>

\* The first two pieces of a reply.
ReplyPiece ==
  /\ harness = "up"
  /\ guest = "busy"
  /\ pieces < 2
  /\ pieces' = pieces + 1
  /\ partial' = CASE pieces = 0 -> "prefix"
                  [] pieces = 1 /\ partial = "prefix" -> "body"
                  [] OTHER -> "none"
  /\ UNCHANGED <<driverVars, harnessVars, serial, guest, reply, fleet, held,
                 balloon, lines, noise, upset>>

\* The newline ends the reply, or what a log line has left of it.
ReplyEnd ==
  /\ harness = "up"
  /\ guest = "busy"
  /\ pieces = 2
  /\ guest' = "idle"
  /\ pieces' = 0
  /\ lines' = Append(lines, IF partial = "body" THEN reply ELSE Line("junk", 0, 0))
  /\ partial' = "none"
  /\ UNCHANGED <<driverVars, harnessVars, serial, reply, fleet, held, balloon,
                 noise, upset>>

KernelLog ==
  /\ "klog" \in Disturb
  /\ harness = "up"
  /\ noise < MaxNoise
  /\ noise' = noise + 1
  /\ Emit("junk", 0)
  /\ UNCHANGED <<driverVars, harnessVars, guestVars>>

\* The guest's balloon driver gives up the pages, some time after the target
\* was set.
Inflate ==
  /\ harness = "up"
  /\ balloon = "target"
  /\ balloon' = "inflated"
  /\ UNCHANGED <<driverVars, harnessVars, serial, guest, reply, pieces, fleet,
                 held, outVars>>

-----------------------------------------------------------------------------
Driver ==
  \/ Send
  \/ WaitMatch
  \/ WaitUnparsable
  \/ WaitSkip
  \/ WaitTimeout
  \/ WaitDisconnected
  \/ FindHelper
  \/ SampleRow
  \/ UnderPressure
  \/ StopSampler
  \/ Quit
  \/ Reap

HarnessStep == EmitStarted \/ StartFailed \/ ReadStdin \/ Handle

GuestStep == Boot \/ BootFails \/ GuestCommand \/ ReplyPiece \/ ReplyEnd

VzNext ==
  \/ Driver
  \/ DriverKilled
  \/ OtherVm
  \/ Sample
  \/ HarnessCrashed
  \/ HarnessStep
  \/ GuestStep
  \/ KernelLog
  \/ Inflate

(***************************************************************************)
(* The three processes are scheduled; the stdin thread and the main queue  *)
(* of the harness do not starve each other.  Nothing obliges the kernel to *)
(* log, the balloon to inflate or anyone to be killed.                     *)
(***************************************************************************)
VzFairness ==
  /\ WF_vzVars(Driver)
  /\ WF_vzVars(EmitStarted)
  /\ WF_vzVars(ReadStdin)
  /\ WF_vzVars(Handle)
  /\ WF_vzVars(GuestStep)

VzSpec == VzInit /\ [][VzNext]_vzVars /\ VzFairness

-----------------------------------------------------------------------------
(***************************************************************************)
(* The line a wait accepts is the answer to the command just sent, never   *)
(* one left over from an earlier command or poll: prefixes repeat, and the *)
(* driver looks at nothing else.                                           *)
(***************************************************************************)
RepliesMatch ==
  dpc = "wait" /\ lines # <<>> /\ Head(lines).tag = Want
    => Head(lines).id = sent

(***************************************************************************)
(* The VM never outlives its driver: quit and every panic, at whatever     *)
(* point of the protocol, leave the harness reaped.                        *)
(***************************************************************************)
NoVmLeft == dpc \in {"ended", "panicked"} => harness # "up"

(***************************************************************************)
(* A driver killed without unwinding takes its VM with it all the same:    *)
(* the harness reads the end of its stdin and exits.                       *)
(***************************************************************************)
OrphanVmExits == dpc = "killed" ~> harness # "up"

(***************************************************************************)
(* A run of the driver ends, whatever lines get lost.                      *)
(***************************************************************************)
DriverEnds == <>(dpc \in Over)

(***************************************************************************)
(* No stop-one reaches a guest without services, where drain(..1) would    *)
(* panic PID 1 and the guest's kernel with it: whatever replies were late  *)
(* or lost, the driver stops no more services than the guest has started.  *)
(***************************************************************************)
StopFindsService ==
  serial # <<>> /\ guest = "idle" /\ Head(serial).cmd = "fleet-stop-one"
    => fleet > 0

\* How many services a fleet run has after n steps of its script.
Running(n) == IF n <= Services THEN n
              ELSE IF n <= 2 * Services THEN 2 * Services - n ELSE 0

(***************************************************************************)
(* What the driver reports is what the guest has done, for all it never    *)
(* looks at a reply beyond its prefix: the row after touch is sampled with *)
(* the memory held, the row after free with none, the row after the        *)
(* balloon with the balloon inflated unless the polling deadline passed,   *)
(* and the i-th MARK of a start or a stop with i children forked or reaped.*)
(***************************************************************************)
RowsMeasureGuest ==
  /\ dpc = "sample" =>
       /\ step = 2 => held
       /\ step = 3 => ~held
       /\ step = Len(Script) + 1 => balloon = "inflated" \/ polls = MaxPolls
  /\ run = "fleet" /\ dpc \in {"send", "stop-sampler"} =>
       fleet = Running(step - 1)

(***************************************************************************)
(* Left to itself the protocol never loses a line, in either run: unless   *)
(* something outside it goes wrong (a line of the kernel's log inside a    *)
(* reply, a guest without memory or too small for the fleet asked for,     *)
(* READY before started, a crash, a helper or a reply that comes too       *)
(* late), no wait times out, no reply fails to parse and no sample misses  *)
(* its helper, in the driver or in the thread that samples until it is     *)
(* joined.  Log lines between replies do no harm.                          *)
(***************************************************************************)
NoLostReply == ~upset => dpc # "panicked" /\ sampler # "panicked"
=============================================================================
