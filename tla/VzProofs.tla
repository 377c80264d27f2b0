------------------------------ MODULE VzProofs ------------------------------
(***************************************************************************)
(* Proofs for the line protocol of vz-ratchet.                             *)
(*                                                                         *)
(* The driver never has more than one command under way.  That command, or *)
(* its reply, is in exactly one place: the harness's stdin, its main       *)
(* queue, the guest's input, the guest's hands or the driver's unread      *)
(* lines; or it has been lost, which takes something outside the protocol. *)
(* What the guest has done is settled by where the command is.             *)
(***************************************************************************)
EXTENDS VzProtocol, SequenceTheorems, TLAPS

ReplyTags == {"TOUCHED", "FREED", "MEM", "FLEET-STARTED", "FLEET-STOPPED",
              "balloon-target"}
Commands == {"touch", "free", "mem", "fleet-start", "fleet-stop-one", "balloon"}

CommandRecord == [cmd : Commands \cup {"quit"}, id : Nat]
LineRecord ==
  [tag : ReplyTags \cup {"none", "junk", "started", "start-failed", "READY"},
   id : Nat, arg : Nat]

\* The command of this step, the commands that end the harness, and the
\* lines that answer this step.
Token == [cmd |-> Script[step].cmd, id |-> sent]
QuitCommand == [cmd |-> "quit", id |-> 0]
Answers ==
  {l \in LineRecord :
     /\ l.tag = Script[step].want
     /\ l.id = sent
     /\ l.tag = "MEM" /\ l.arg = 1 => balloon = "inflated"
     /\ l.tag = "MEM" /\ l.arg = Garbled => upset}

-----------------------------------------------------------------------------
(* What queues of commands and of lines hold. *)

Quits(q) == \A i \in 1..Len(q) : q[i] = QuitCommand
NoQuit(q) == \A i \in 1..Len(q) : q[i].cmd # "quit"
Holds(q, t) == Len(q) > 0 /\ q[1] = t /\ \A i \in 2..Len(q) : q[i] = QuitCommand

NoReply(s) == \A i \in 1..Len(s) : s[i].tag \notin ReplyTags
OneReply(s, A) ==
  \E k \in 1..Len(s) :
    s[k] \in A /\ \A i \in 1..Len(s) : i # k => s[i].tag \notin ReplyTags

Has(s, tag) == \E i \in 1..Len(s) : s[i].tag = tag
Boots(s) ==
  \E i, j \in 1..Len(s) : i < j /\ s[i].tag = "started" /\ s[j].tag = "READY"

-----------------------------------------------------------------------------
(* The inductive invariant. *)

Starting == {"wait-started", "wait-ready", "find-helper"}
Leaving == {"reap", "ended", "killed"}
Closing == {"pressure", "stop-sampler", "quit", "reap", "ended"}

DriverTypes ==
  /\ run \in {"fleet", "touch"}
  /\ dpc \in {"wait-started", "wait-ready", "find-helper", "sample", "send", "wait",
              "pressure", "stop-sampler", "quit", "reap"} \cup Over
  /\ step \in Nat /\ 1 <= step /\ step <= Len(Script) + 1
  /\ sent \in Nat
  /\ polls \in Nat /\ polls <= MaxPolls
  /\ low \in BOOLEAN
  /\ sampler \in {"off", "on", "ended", "panicked"}
  /\ helper \in {"none", "old", "ours", "other"}
  /\ others \in BOOLEAN

HarnessTypes ==
  /\ harness \in {"up", "exited", "crashed"}
  /\ started \in BOOLEAN /\ eof \in BOOLEAN
  /\ cmds \in Seq(CommandRecord) /\ mainq \in Seq(CommandRecord)

GuestTypes ==
  /\ serial \in Seq(CommandRecord)
  /\ guest \in {"off", "idle", "busy", "dead"}
  /\ reply \in LineRecord
  /\ pieces \in 0..2
  /\ held \in BOOLEAN
  /\ balloon \in {"idle", "target", "inflated"}

OutTypes ==
  /\ partial \in {"none", "prefix", "body"}
  /\ lines \in Seq(LineRecord)
  /\ noise \in 0..MaxNoise
  /\ upset \in BOOLEAN

FleetType == fleet \in 0..Services

Types == DriverTypes /\ HarnessTypes /\ GuestTypes /\ OutTypes /\ FleetType

\* The driver's own variables, where it is.
Place ==
  /\ dpc \in Starting => step = 1 /\ sampler = "off"
  /\ dpc \in {"send", "wait"} => step <= Len(Script)
  /\ dpc \notin Starting \cup Over => helper # "none"
  /\ dpc \in {"sample", "pressure"} => run = "touch"
  /\ dpc = "stop-sampler" => run = "fleet"
  /\ step <= Len(Script) => polls < MaxPolls
  /\ sent <= step + polls
  /\ dpc \notin {"wait", "killed", "panicked"} \/ step > Len(Script) =>
       sent <= step - 1 + polls

\* The helper and the thread that samples it.
Helpers ==
  /\ helper \in {"none", "ours"} \cup (IF others THEN {"other"} ELSE {})
  /\ sampler = "on" =>
       run = "fleet" /\ helper # "none" /\ dpc \notin {"quit", "reap", "ended"}

\* Who may end the harness.
Lives ==
  /\ NoVmLeft
  /\ harness # "up" => upset \/ dpc \in Leaving \cup {"panicked"}
  /\ NoLostReply
  /\ eof => dpc = "killed"
  /\ dpc \notin Leaving => NoQuit(cmds) /\ NoQuit(mainq)
  /\ guest = "dead" => upset

\* What of a boot is on its way.
Booting ==
  ~upset =>
    /\ guest # "off" => started
    /\ dpc = "wait-started" /\ started => Has(lines, "started")
    /\ dpc = "wait-started" /\ guest # "off" => Boots(lines)
    /\ dpc = "wait-ready" /\ guest # "off" => Has(lines, "READY")

\* The reply being written is whole so far.
Live ==
  /\ guest = "busy"
  /\ \/ pieces = 0
     \/ pieces = 1 /\ partial = "prefix"
     \/ pieces = 2 /\ partial = "body"

Pieces ==
  /\ guest # "busy" => pieces = 0
  /\ pieces = 0 => partial = "none"
  /\ partial = "prefix" => pieces = 1
  /\ partial = "body" => pieces = 2

\* The services before and after the command of this step.
NotYet == run = "fleet" => fleet = Running(step - 1)
Done ==
  /\ run = "fleet" => fleet = Running(step)
  /\ run = "touch" => /\ step = 1 => held
                      /\ step = 2 => ~held

UnderWay == dpc \in {"wait", "killed", "panicked"} /\ step <= Len(Script)

\* The places a command may be in.
Nowhere ==
  /\ Quits(cmds) /\ Quits(mainq) /\ serial = <<>> /\ ~Live /\ NoReply(lines)
  /\ dpc = "wait" => upset
  /\ dpc \notin {"wait", "killed", "panicked"} => NotYet /\ RowsMeasureGuest
InStdin ==
  /\ UnderWay /\ NotYet
  /\ Holds(cmds, Token) /\ mainq = <<>> /\ serial = <<>> /\ ~Live /\ NoReply(lines)
InQueue ==
  /\ UnderWay /\ NotYet
  /\ Quits(cmds) /\ Holds(mainq, Token) /\ serial = <<>> /\ ~Live /\ NoReply(lines)
InSerial ==
  /\ UnderWay /\ NotYet /\ Token.cmd # "balloon"
  /\ Quits(cmds) /\ Quits(mainq) /\ serial = <<Token>> /\ ~Live /\ NoReply(lines)
InGuest ==
  /\ UnderWay /\ Done
  /\ Quits(cmds) /\ Quits(mainq) /\ serial = <<>> /\ NoReply(lines)
  /\ Live /\ reply \in Answers
InLines ==
  /\ UnderWay /\ Done
  /\ Quits(cmds) /\ Quits(mainq) /\ serial = <<>> /\ ~Live
  /\ OneReply(lines, Answers)

OnePlace == Nowhere \/ InStdin \/ InQueue \/ InSerial \/ InGuest \/ InLines

VzInv == Types /\ Place /\ Helpers /\ Lives /\ Booting /\ Pieces /\ OnePlace

-----------------------------------------------------------------------------
(* Queues of commands. *)

\* The sequences of one or two elements that the queues start from.
LEMMA ShortQueues ==
  ASSUME NEW t
  PROVE  /\ Append(<<>>, t) = <<t>>
         /\ <<t>> # <<>>
         /\ Head(<<t>>) = t
         /\ Tail(<<t>>) = <<>>
OBVIOUS

\* Sending a command or an end of file to a queue.
LEMMA QueueGrows ==
  ASSUME NEW q \in Seq(CommandRecord), NEW t
  PROVE  /\ q = <<>> => Quits(q) /\ NoQuit(q)
         /\ q = <<>> => Holds(Append(q, t), t)
         /\ Quits(q) => Quits(Append(q, QuitCommand))
         /\ Holds(q, t) => Holds(Append(q, QuitCommand), t)
BY DEF Quits, NoQuit, Holds

\* Taking the first one out.
LEMMA QueueShrinks ==
  ASSUME NEW q \in Seq(CommandRecord), NEW t, q # <<>>
  PROVE  /\ Quits(q) => Head(q) = QuitCommand /\ Quits(Tail(q))
         /\ Holds(q, t) => Head(q) = t /\ Quits(Tail(q))
         /\ NoQuit(q) => Head(q).cmd # "quit" /\ NoQuit(Tail(q))
<1>1. /\ Tail(q) \in Seq(CommandRecord)
      /\ Len(Tail(q)) = Len(q) - 1
      /\ \A i \in 1..Len(Tail(q)) : Tail(q)[i] = q[i + 1]
      /\ Head(q) = q[1]
      /\ Len(q) \in Nat /\ Len(q) > 0
  OBVIOUS
<1>2. QED
  BY <1>1 DEF Quits, Holds, NoQuit

\* A queue that holds no end of the harness, and nothing else, is empty.
LEMMA QueueEmpty ==
  ASSUME NEW q \in Seq(CommandRecord), NoQuit(q)
  PROVE  /\ Quits(q) => q = <<>>
         /\ \A t \in CommandRecord : t.cmd # "quit" => NoQuit(Append(q, t))
<1>1. Quits(q) => q = <<>>
  <2>1. Len(q) \in Nat /\ (Len(q) = 0 => q = <<>>)
    OBVIOUS
  <2>2. Len(q) > 0 => ~Quits(q)
    BY <2>1 DEF Quits, NoQuit, QuitCommand
  <2>3. QED
    BY <2>1, <2>2
<1>2. ASSUME NEW t \in CommandRecord, t.cmd # "quit"
      PROVE  NoQuit(Append(q, t))
  <2>1. /\ Len(q) \in Nat
        /\ Len(Append(q, t)) = Len(q) + 1
        /\ Append(q, t)[Len(q) + 1] = t
        /\ \A i \in 1..Len(q) : Append(q, t)[i] = q[i]
    OBVIOUS
  <2>2. QED
    BY <1>2, <2>1 DEF NoQuit
<1>3. QED
  BY <1>1, <1>2

\* A queue that holds a command is not empty.
LEMMA HoldsSomething ==
  ASSUME NEW t
  PROVE  ~Holds(<<>>, t)
BY DEF Holds

-----------------------------------------------------------------------------
(* Lines. *)

\* A line arrives.
LEMMA LinesGrow ==
  ASSUME NEW s \in Seq(LineRecord), NEW l \in LineRecord, NEW A
  PROVE  /\ NoReply(s) /\ l.tag \notin ReplyTags => NoReply(Append(s, l))
         /\ OneReply(s, A) /\ l.tag \notin ReplyTags => OneReply(Append(s, l), A)
         /\ NoReply(s) /\ l \in A => OneReply(Append(s, l), A)
         /\ \A tag : Has(s, tag) \/ l.tag = tag => Has(Append(s, l), tag)
         /\ Boots(s) => Boots(Append(s, l))
         /\ Has(s, "started") /\ l.tag = "READY" => Boots(Append(s, l))
<1> DEFINE a == Append(s, l)
<1>1. /\ Len(s) \in Nat
      /\ Len(a) = Len(s) + 1
      /\ a[Len(s) + 1] = l
      /\ \A i \in 1..Len(s) : a[i] = s[i]
  OBVIOUS
<1> HIDE DEF a
<1>2. \A i \in 1..Len(a) : i \in 1..Len(s) \/ i = Len(s) + 1
  BY <1>1
<1>3. \A i \in 1..Len(s) : i \in 1..Len(a) /\ i < Len(s) + 1
  BY <1>1
<1>4. Len(s) + 1 \in 1..Len(a)
  BY <1>1
<1>5. NoReply(s) /\ l.tag \notin ReplyTags => NoReply(a)
  BY <1>1, <1>2 DEF NoReply
<1>6. OneReply(s, A) /\ l.tag \notin ReplyTags => OneReply(a, A)
  BY <1>1, <1>2, <1>3 DEF OneReply
<1>7. NoReply(s) /\ l \in A => OneReply(a, A)
  BY <1>1, <1>2, <1>4 DEF OneReply, NoReply
<1>8. \A tag : Has(s, tag) \/ l.tag = tag => Has(a, tag)
  BY <1>1, <1>3, <1>4 DEF Has
<1>9. Boots(s) => Boots(a)
  BY <1>1, <1>3 DEF Boots
<1>10. Has(s, "started") /\ l.tag = "READY" => Boots(a)
  BY <1>1, <1>3, <1>4 DEF Has, Boots
<1>11. QED
  BY <1>5, <1>6, <1>7, <1>8, <1>9, <1>10 DEF a

\* The driver reads a line.
LEMMA LinesShrink ==
  ASSUME NEW s \in Seq(LineRecord), s # <<>>, NEW A
  PROVE  /\ Head(s) \in LineRecord /\ Tail(s) \in Seq(LineRecord)
         /\ NoReply(s) => Head(s).tag \notin ReplyTags /\ NoReply(Tail(s))
         /\ OneReply(s, A) /\ Head(s).tag \notin ReplyTags /\ (\A l \in A : l.tag \in ReplyTags)
              => OneReply(Tail(s), A)
         /\ OneReply(s, A) /\ Head(s).tag \in ReplyTags
              => Head(s) \in A /\ NoReply(Tail(s))
         /\ \A tag : Has(s, tag) /\ Head(s).tag # tag => Has(Tail(s), tag)
         /\ Boots(s) /\ Head(s).tag # "started" => Boots(Tail(s))
         /\ Boots(s) => Has(Tail(s), "READY")
<1> DEFINE a == Tail(s)
           h == Head(s)
<1>1. /\ Len(s) \in Nat /\ Len(s) > 0
      /\ a \in Seq(LineRecord)
      /\ Len(a) = Len(s) - 1
      /\ \A i \in 1..Len(a) : a[i] = s[i + 1]
      /\ h = s[1] /\ h \in LineRecord
  OBVIOUS
<1> HIDE DEF a, h
<1>2. \A i \in 1..Len(a) : i + 1 \in 1..Len(s)
  BY <1>1
<1>3. \A i \in 1..Len(s) : i # 1 => i - 1 \in 1..Len(a) /\ a[i - 1] = s[i]
  BY <1>1
<1>4. 1 \in 1..Len(s)
  BY <1>1
<1>5. NoReply(s) => h.tag \notin ReplyTags /\ NoReply(a)
  BY <1>1, <1>2, <1>4 DEF NoReply
<1>6. ASSUME OneReply(s, A), h.tag \notin ReplyTags, \A l \in A : l.tag \in ReplyTags
      PROVE  OneReply(a, A)
  <2>1. PICK k \in 1..Len(s) :
          s[k] \in A /\ \A i \in 1..Len(s) : i # k => s[i].tag \notin ReplyTags
    BY <1>6 DEF OneReply
  <2>2. k # 1
    BY <1>1, <1>6, <2>1
  <2>3. k - 1 \in 1..Len(a) /\ a[k - 1] \in A
    BY <1>3, <2>1, <2>2
  <2>4. \A i \in 1..Len(a) : i # k - 1 => a[i].tag \notin ReplyTags
    BY <1>1, <1>2, <2>1
  <2>5. QED
    BY <2>3, <2>4 DEF OneReply
<1>7. ASSUME OneReply(s, A), h.tag \in ReplyTags
      PROVE  h \in A /\ NoReply(a)
  <2>1. PICK k \in 1..Len(s) :
          s[k] \in A /\ \A i \in 1..Len(s) : i # k => s[i].tag \notin ReplyTags
    BY <1>7 DEF OneReply
  <2>2. k = 1
    BY <1>1, <1>4, <1>7, <2>1
  <2>3. QED
    BY <1>1, <1>2, <2>1, <2>2 DEF NoReply
<1>8. \A tag : Has(s, tag) /\ h.tag # tag => Has(a, tag)
  BY <1>1, <1>3 DEF Has
<1>9. ASSUME Boots(s)
      PROVE  Has(a, "READY") /\ (h.tag # "started" => Boots(a))
  <2>1. PICK i \in 1..Len(s), j \in 1..Len(s) :
          i < j /\ s[i].tag = "started" /\ s[j].tag = "READY"
    BY <1>9 DEF Boots
  <2>2. j # 1
    BY <2>1
  <2>3. Has(a, "READY")
    BY <1>3, <2>1, <2>2 DEF Has
  <2>4. ASSUME h.tag # "started"
        PROVE  Boots(a)
    <3>1. i # 1
      BY <1>1, <2>1, <2>4
    <3>2. i - 1 < j - 1
      BY <2>1
    <3>3. QED
      BY <1>3, <2>1, <2>2, <3>1, <3>2 DEF Boots
  <2>5. QED
    BY <2>3, <2>4
<1>10. QED
  BY <1>1, <1>5, <1>6, <1>7, <1>8, <1>9 DEF a, h

\* An unread reply is a line, and the ones that may answer only get more.
LEMMA ReplyIsThere ==
  ASSUME NEW A, NEW B, A \subseteq B
  PROVE  /\ NoReply(<<>>)
         /\ ~OneReply(<<>>, A)
         /\ \A tag : ~Has(<<>>, tag)
         /\ \A s : OneReply(s, A) => OneReply(s, B)
BY DEF OneReply, NoReply, Has

-----------------------------------------------------------------------------
(* The scripts. *)

\* The same step once for every service.
LEMMA OncePerService ==
  ASSUME NEW S, NEW x \in S
  PROVE  LET s == [i \in 1..Services |-> x] IN
         /\ s \in Seq(S) /\ Len(s) = Services
         /\ \A i \in 1..Services : s[i] = x
BY VzAssumption

\* fleet.rs: as many starts as services, as many stops, and the balloon.
LEMMA FleetSteps ==
  /\ Len(FleetScript) = 2 * Services + 1
  /\ \A n \in 1..(2 * Services + 1) :
       FleetScript[n] =
         IF n <= Services THEN Step("fleet-start", "FLEET-STARTED")
         ELSE IF n <= 2 * Services THEN Step("fleet-stop-one", "FLEET-STOPPED")
         ELSE Step("balloon", "balloon-target")
<1> DEFINE A == [i \in 1..Services |-> Step("fleet-start", "FLEET-STARTED")]
           B == [i \in 1..Services |-> Step("fleet-stop-one", "FLEET-STOPPED")]
           C == <<Step("balloon", "balloon-target")>>
           S == {Step("fleet-start", "FLEET-STARTED"),
                 Step("fleet-stop-one", "FLEET-STOPPED"),
                 Step("balloon", "balloon-target")}
<1>1. /\ Step("fleet-start", "FLEET-STARTED") \in S
      /\ Step("fleet-stop-one", "FLEET-STOPPED") \in S
      /\ Step("balloon", "balloon-target") \in S
  OBVIOUS
<1>2. /\ A \in Seq(S) /\ Len(A) = Services
      /\ \A i \in 1..Services : A[i] = Step("fleet-start", "FLEET-STARTED")
  BY <1>1, OncePerService
<1>3. /\ B \in Seq(S) /\ Len(B) = Services
      /\ \A i \in 1..Services : B[i] = Step("fleet-stop-one", "FLEET-STOPPED")
  BY <1>1, OncePerService
<1>4. C \in Seq(S) /\ Len(C) = 1 /\ C[1] = Step("balloon", "balloon-target")
  BY <1>1
<1>5. FleetScript = (A \o B) \o C
  BY DEF FleetScript
<1> HIDE DEF A, B, C, S
<1>6. /\ A \o B \in Seq(S)
      /\ Len(A \o B) = 2 * Services
      /\ \A i \in 1..(2 * Services) :
           (A \o B)[i] = IF i <= Services THEN A[i] ELSE B[i - Services]
  BY VzAssumption, <1>2, <1>3, ConcatProperties
<1> DEFINE D == A \o B
<1>7. D \in Seq(S) /\ Len(D) = 2 * Services
  BY <1>6
<1> HIDE DEF D
<1>8. /\ Len(D \o C) = 2 * Services + 1
      /\ \A i \in 1..(2 * Services + 1) :
           (D \o C)[i] = IF i <= 2 * Services THEN D[i] ELSE C[i - 2 * Services]
  <2>1. /\ Len(D \o C) = Len(D) + Len(C)
        /\ \A i \in 1..(Len(D) + Len(C)) :
             (D \o C)[i] = IF i <= Len(D) THEN D[i] ELSE C[i - Len(D)]
    BY <1>4, <1>7, ConcatProperties
  <2>2. QED
    BY VzAssumption, <1>4, <1>7, <2>1
<1>9. ASSUME NEW n \in 1..(2 * Services + 1)
      PROVE  FleetScript[n] =
               IF n <= Services THEN Step("fleet-start", "FLEET-STARTED")
               ELSE IF n <= 2 * Services THEN Step("fleet-stop-one", "FLEET-STOPPED")
               ELSE Step("balloon", "balloon-target")
  <2>1. CASE n <= Services
    BY VzAssumption, <1>2, <1>5, <1>6, <1>8, <2>1 DEF D
  <2>2. CASE n > Services /\ n <= 2 * Services
    BY VzAssumption, <1>3, <1>5, <1>6, <1>8, <2>2 DEF D
  <2>3. CASE n = 2 * Services + 1
    BY VzAssumption, <1>4, <1>5, <1>8, <2>3 DEF D
  <2>4. QED
    BY VzAssumption, <2>1, <2>2, <2>3
<1>10. QED
  BY <1>5, <1>8, <1>9 DEF D

\* What a script says at step n, of either run.
ScriptSays(n) ==
  LET s == Script[n] IN
  /\ s.cmd \in Commands /\ s.want \in ReplyTags
  /\ s.cmd = "touch" => run = "touch" /\ n = 1 /\ s.want = "TOUCHED"
  /\ s.cmd = "free" => run = "touch" /\ n = 2 /\ s.want = "FREED"
  /\ s.cmd = "mem" => run = "touch" /\ n > 2 /\ s.want = "MEM"
  /\ s.cmd = "fleet-start" =>
       run = "fleet" /\ n <= Services /\ s.want = "FLEET-STARTED"
  /\ s.cmd = "fleet-stop-one" =>
       /\ run = "fleet" /\ n > Services /\ n <= 2 * Services
       /\ s.want = "FLEET-STOPPED"
  /\ s.cmd = "balloon" =>
       /\ s.want = "balloon-target"
       /\ run = "fleet" => n = 2 * Services + 1
       /\ run = "touch" => n = 4
  /\ run = "touch" /\ n = 5 => s.want = "MEM"

\* Both scripts ask for what they wait for.
LEMMA ScriptSteps ==
  ASSUME run \in {"fleet", "touch"}
  PROVE  /\ Len(Script) \in Nat /\ Len(Script) >= 1
         /\ run = "touch" => Len(Script) = 5
         /\ run = "fleet" => Len(Script) = 2 * Services + 1
         /\ \A n \in 1..Len(Script) : ScriptSays(n)
<1>1. CASE run = "touch"
  <2>1. Script = TouchScript /\ Len(TouchScript) = 5
    BY <1>1 DEF Script, TouchScript
  <2>2. ASSUME NEW n \in 1..5
        PROVE  ScriptSays(n)
    <3>1. n \in {1, 2, 3, 4, 5}
      OBVIOUS
    <3>2. QED
      BY <1>1, <2>1, <3>1
      DEF ScriptSays, TouchScript, Step, Commands, ReplyTags
  <2>3. QED
    BY <1>1, <2>1, <2>2
<1>2. CASE run = "fleet"
  <2>1. Script = FleetScript /\ Len(FleetScript) = 2 * Services + 1
    BY <1>2, FleetSteps DEF Script
  <2>2. ASSUME NEW n \in 1..(2 * Services + 1)
        PROVE  ScriptSays(n)
    <3>1. Script[n] =
            IF n <= Services THEN Step("fleet-start", "FLEET-STARTED")
            ELSE IF n <= 2 * Services THEN Step("fleet-stop-one", "FLEET-STOPPED")
            ELSE Step("balloon", "balloon-target")
      BY <2>1, FleetSteps
    <3>2. QED
      BY VzAssumption, <1>2, <3>1 DEF ScriptSays, Step, Commands, ReplyTags
  <2>3. QED
    BY VzAssumption, <1>2, <2>1, <2>2
<1>3. QED
  BY <1>1, <1>2

-----------------------------------------------------------------------------
(* Who changes what. *)

\* The script is the run's.
LEMMA SameScript ==
  ASSUME run' = run
  PROVE  Script' = Script
BY DEF Script

\* The command under way depends on the run, the step and the count.
LEMMA SameToken ==
  ASSUME UNCHANGED <<run, step, sent>>
  PROVE  Token' = Token
BY SameScript DEF Token

\* Harness, guest, kernel and balloon leave the driver's variables alone.
LEMMA OthersLeaveDriver ==
  ASSUME HarnessCrashed \/ HarnessStep \/ GuestStep \/ KernelLog \/ Inflate
  PROVE  UNCHANGED driverVars
BY DEF HarnessCrashed, HarnessStep, GuestStep, KernelLog, Inflate, EmitStarted,
       StartFailed, ReadStdin, Handle, Boot, BootFails, GuestCommand, ReplyPiece,
       ReplyEnd

\* The driver, its sampler and other VMs leave the guest's variables alone.
LEMMA DriverLeavesGuest ==
  ASSUME Driver \/ DriverKilled \/ OtherVm \/ Sample
  PROVE  UNCHANGED <<guestVars, partial, noise, started, mainq>>
BY DEF Driver, DriverKilled, OtherVm, Sample, Send, WaitMatch, WaitUnparsable,
       WaitSkip, WaitTimeout, WaitDisconnected, FindHelper, SampleRow,
       UnderPressure, StopSampler, Quit, Reap, Unwind, harnessVars, outVars

(* The steps of the driver in which nothing panics. *)
Sends ==
  /\ dpc = "send" /\ harness = "up"
  /\ cmds' = Append(cmds, [cmd |-> Script[step].cmd, id |-> sent + 1])
  /\ sent' = sent + 1
  /\ dpc' = "wait"
  /\ UNCHANGED <<subject, step, polls, low, sampler, harness, started, eof, mainq,
                 guestVars, outVars>>
Finds ==
  /\ dpc = "find-helper"
  /\ helper' \in running_helpers \ pre_existing
  /\ dpc' = IF run = "fleet" THEN "send" ELSE "sample"
  /\ sampler' = IF run = "fleet" THEN "on" ELSE "off"
  /\ UNCHANGED <<run, others, step, sent, polls, low, harnessVars, guestVars,
                 outVars>>
Goes ==
  /\ \/ dpc = "sample" /\ dpc' = IF step <= Len(Script) THEN "send" ELSE "pressure"
     \/ dpc = "pressure" /\ dpc' = "quit"
     \/ dpc = "reap" /\ harness # "up" /\ dpc' = "ended"
  /\ UNCHANGED <<subject, step, sent, polls, low, sampler, harnessVars, guestVars,
                 outVars>>
SendsQuit ==
  /\ dpc = "quit" /\ harness = "up"
  /\ cmds' = Append(cmds, [cmd |-> "quit", id |-> 0])
  /\ dpc' = "reap"
  /\ UNCHANGED <<subject, step, sent, polls, low, sampler, harness, started, eof,
                 mainq, guestVars, outVars>>

\* What a step of the driver may be.
LEMMA DriverSteps ==
  ASSUME Driver
  PROVE  \/ Unwind(TRUE) \/ Unwind(FALSE) \/ Sends \/ WaitMatch \/ WaitSkip \/ Finds
         \/ Goes \/ StopSampler \/ SendsQuit
<1>1. CASE Send
  BY <1>1 DEF Send, Sends
<1>2. CASE WaitTimeout
  <2>1. CASE Quiet
    <3>1. (~Quiet) = FALSE
      BY <2>1
    <3>2. QED
      BY <1>2, <3>1 DEF WaitTimeout
  <2>2. CASE ~Quiet
    <3>1. (~Quiet) = TRUE
      BY <2>2
    <3>2. QED
      BY <1>2, <3>1 DEF WaitTimeout
  <2>3. QED
    BY <2>1, <2>2
<1>3. CASE FindHelper
  BY <1>3 DEF FindHelper, Finds
<1>4. CASE SampleRow \/ UnderPressure \/ Reap
  BY <1>4 DEF SampleRow, UnderPressure, Reap, Goes
<1>5. CASE Quit
  BY <1>5 DEF Quit, SendsQuit
<1>6. CASE WaitUnparsable \/ WaitDisconnected
  BY <1>6 DEF WaitUnparsable, WaitDisconnected
<1>7. QED
  BY <1>1, <1>2, <1>3, <1>4, <1>5, <1>6 DEF Driver

-----------------------------------------------------------------------------
(* The driver. *)

\* Every step keeps the driver's variables where the driver is.
LEMMA DriverStep ==
  ASSUME VzInv, [VzNext]_vzVars
  PROVE  DriverTypes' /\ Place'
<1> DEFINE L == Len(Script)
<1>0. DriverTypes /\ Place
  BY DEF VzInv, Types
<1>1. /\ L \in Nat /\ L >= 1
      /\ run = "touch" => L = 5
  BY <1>0, ScriptSteps DEF DriverTypes
<1>2. run' = run => L' = L
  BY SameScript
<1> HIDE DEF L
<1> USE VzAssumption
<1>3. CASE Unwind(TRUE) \/ Unwind(FALSE)
  BY <1>0, <1>1, <1>2, <1>3
  DEF Unwind, DriverTypes, Place, subject, L, Starting, Over
<1>4. CASE Sends
  BY <1>0, <1>1, <1>2, <1>4 DEF Sends, DriverTypes, Place, subject, L, Starting, Over
<1>5. CASE WaitMatch
  <2>1. PICK line : AfterMatch(line)
    BY <1>5 DEF WaitMatch
  <2>2. UNCHANGED <<run, helper, others, sent, sampler>>
    BY <1>5 DEF WaitMatch, subject
  <2>3. CASE dpc \in {"wait-started", "wait-ready"}
    BY <1>0, <1>1, <1>2, <2>1, <2>2, <2>3
    DEF AfterMatch, DriverTypes, Place, L, Starting, Over
  <2>4. CASE dpc = "wait" /\ Polling
    <3>1. /\ polls' = polls + 1 /\ low' \in BOOLEAN
          /\ \/ polls' < MaxPolls /\ dpc' = "send" /\ step' = step
             \/ dpc' = "sample" /\ step' = step + 1
      BY <2>1, <2>4 DEF AfterMatch
    <3>2. run = "touch" /\ step = L /\ helper # "none"
      BY <1>0, <2>4 DEF Polling, L, Place, Starting, Over
    <3>3. DriverTypes'
      BY <1>0, <1>1, <1>2, <2>2, <3>1, <3>2 DEF DriverTypes, Place, L
    <3>4. Place'
      BY <1>0, <1>1, <1>2, <2>2, <2>4, <3>1, <3>2
      DEF DriverTypes, Place, L, Starting, Over
    <3>5. QED
      BY <3>3, <3>4
  <2>5. CASE dpc = "wait" /\ ~Polling
    <3>1. step' = step + 1 /\ dpc' = AfterStep /\ UNCHANGED <<polls, low>>
      BY <2>1, <2>5 DEF AfterMatch
    <3>2. /\ step <= L
          /\ run = "touch" => dpc' = IF step <= 2 THEN "sample" ELSE "send"
          /\ run = "touch" => step < L
          /\ run = "fleet" => dpc' = IF step < L THEN "send" ELSE "stop-sampler"
          /\ helper # "none"
      BY <1>0, <1>1, <2>5, <3>1
      DEF AfterStep, Polling, DriverTypes, Place, L, Starting, Over
    <3>3. DriverTypes'
      BY <1>0, <1>1, <1>2, <2>2, <3>1, <3>2 DEF DriverTypes, Place, L
    <3>4. Place'
      BY <1>0, <1>1, <1>2, <2>2, <2>5, <3>1, <3>2
      DEF DriverTypes, Place, L, Starting, Over
    <3>5. QED
      BY <3>3, <3>4
  <2>6. QED
    BY <1>5, <2>3, <2>4, <2>5 DEF WaitMatch, Waiting
<1>6. CASE Finds
  <2>1. helper' \in {"ours", "other"}
    BY <1>6 DEF Finds, running_helpers, pre_existing
  <2>2. QED
    BY <1>0, <1>1, <1>2, <1>6, <2>1 DEF Finds, DriverTypes, Place, L, Starting, Over
<1>7. CASE Goes
  BY <1>0, <1>1, <1>2, <1>7 DEF Goes, DriverTypes, Place, subject, L, Starting, Over
<1>8. CASE StopSampler \/ SendsQuit \/ DriverKilled
  BY <1>0, <1>1, <1>2, <1>8
  DEF StopSampler, SendsQuit, DriverKilled, DriverTypes, Place, subject, L, Starting,
      Over
<1>9. CASE OtherVm \/ Sample
  BY <1>0, <1>1, <1>2, <1>9
  DEF OtherVm, Sample, DriverTypes, Place, subject, L, Starting, Over
<1>10. CASE UNCHANGED driverVars
  BY <1>0, <1>1, <1>2, <1>10 DEF driverVars, DriverTypes, Place, subject, L
<1>11. CASE WaitSkip
  BY <1>10, <1>11 DEF WaitSkip
<1>12. CASE Driver
  BY <1>3, <1>4, <1>5, <1>6, <1>7, <1>8, <1>11, <1>12, DriverSteps
<1>13. CASE HarnessCrashed \/ HarnessStep \/ GuestStep \/ KernelLog \/ Inflate
  BY <1>10, <1>13, OthersLeaveDriver
<1>14. CASE UNCHANGED vzVars
  BY <1>10, <1>14 DEF vzVars
<1>15. QED
  BY <1>8, <1>9, <1>12, <1>13, <1>14 DEF VzNext

\* Every step keeps the helper that is sampled ours or a newer one, and the
\* sampler within the run.
LEMMA HelpersStep ==
  ASSUME VzInv, [VzNext]_vzVars
  PROVE  Helpers'
<1>0. DriverTypes /\ Place /\ Helpers
  BY DEF VzInv, Types
<1> USE DEF Helpers
<1>1. CASE \/ Unwind(TRUE) \/ Unwind(FALSE) \/ Sends \/ Goes \/ StopSampler \/ SendsQuit
           \/ DriverKilled
  BY <1>0, <1>1
  DEF Unwind, Sends, Goes, StopSampler, SendsQuit, DriverKilled, subject, Place
<1>2. CASE WaitMatch
  <2>1. dpc' \in {"wait-ready", "find-helper", "send", "sample", "stop-sampler"}
    <3>1. PICK line : AfterMatch(line)
      BY <1>2 DEF WaitMatch
    <3>2. AfterStep \in {"send", "sample", "stop-sampler"}
      BY <1>0 DEF AfterStep, DriverTypes
    <3>3. QED
      BY <1>2, <3>1, <3>2 DEF AfterMatch, WaitMatch, Waiting
  <2>2. QED
    BY <1>0, <1>2, <2>1 DEF WaitMatch, subject
<1>3. CASE Finds
  <2>1. helper' \in {"ours"} \cup (IF others THEN {"other"} ELSE {})
    BY <1>3 DEF Finds, running_helpers, pre_existing
  <2>2. QED
    BY <1>0, <1>3, <2>1 DEF Finds
<1>4. CASE OtherVm
  BY <1>0, <1>4 DEF OtherVm
<1>5. CASE Sample
  BY <1>0, <1>5 DEF Sample, subject
<1>6. CASE UNCHANGED driverVars
  BY <1>0, <1>6 DEF driverVars, subject
<1>7. CASE Driver
  BY <1>1, <1>2, <1>3, <1>6, <1>7, DriverSteps DEF WaitSkip
<1>8. CASE HarnessCrashed \/ HarnessStep \/ GuestStep \/ KernelLog \/ Inflate
  BY <1>6, <1>8, OthersLeaveDriver
<1>9. CASE UNCHANGED vzVars
  BY <1>6, <1>9 DEF vzVars
<1>10. QED
  BY <1>1, <1>4, <1>5, <1>7, <1>8, <1>9 DEF VzNext

-----------------------------------------------------------------------------
(* The harness and the guest. *)

\* What somebody else's line becomes in the output.
LEMMA EmitAppends ==
  ASSUME Types, NEW tag, NEW id \in Nat, Emit(tag, id),
         Line(tag, id, 0) \in LineRecord
  PROVE  \E l \in LineRecord :
           /\ lines' = Append(lines, l)
           /\ partial = "none" => l = Line(tag, id, 0)
           /\ partial = "prefix" => l = Line("junk", 0, 0)
           /\ partial = "body" => l = [reply EXCEPT !.arg = Garbled]
<1>1. reply \in LineRecord /\ partial \in {"none", "prefix", "body"}
  BY DEF Types, GuestTypes, OutTypes
<1>2. [reply EXCEPT !.arg = Garbled] \in LineRecord
  BY <1>1 DEF LineRecord, Garbled
<1>3. Line("junk", 0, 0) \in LineRecord
  BY DEF Line, LineRecord
<1>4. CASE partial = "none"
  BY <1>4 DEF Emit
<1>5. CASE partial = "prefix"
  BY <1>3, <1>5 DEF Emit
<1>6. CASE partial = "body"
  BY <1>2, <1>6 DEF Emit
<1>7. QED
  BY <1>1, <1>4, <1>5, <1>6

\* The lines the harness and the kernel write.
LEMMA LinesWritten ==
  ASSUME NEW id \in Nat
  PROVE  /\ Line("started", 0, 0) \in LineRecord
         /\ Line("start-failed", 0, 0) \in LineRecord
         /\ Line("READY", 0, 0) \in LineRecord
         /\ Line("junk", 0, 0) \in LineRecord
         /\ Line("balloon-target", id, 0) \in LineRecord
BY DEF Line, LineRecord, ReplyTags

\* The head of a queue is a command.
LEMMA HeadIsCommand ==
  ASSUME NEW q \in Seq(CommandRecord), q # <<>>
  PROVE  /\ Head(q) \in CommandRecord /\ Head(q).id \in Nat
         /\ Tail(q) \in Seq(CommandRecord)
         /\ \A p \in Seq(CommandRecord) : Append(p, Head(q)) \in Seq(CommandRecord)
<1>1. Head(q) \in CommandRecord /\ Tail(q) \in Seq(CommandRecord)
  OBVIOUS
<1>2. Head(q).id \in Nat
  BY <1>1 DEF CommandRecord
<1>3. QED
  BY <1>1, <1>2

\* Every step keeps the harness's variables what they are.
LEMMA HarnessTypesStep ==
  ASSUME VzInv, [VzNext]_vzVars
  PROVE  HarnessTypes'
<1>0. DriverTypes /\ HarnessTypes /\ Place
  BY DEF VzInv, Types
<1> USE DEF HarnessTypes
<1>1. CASE Unwind(TRUE) \/ Unwind(FALSE)
  BY <1>0, <1>1 DEF Unwind
<1>2. CASE Sends
  <2>1. step \in 1..Len(Script)
    BY <1>0, <1>2 DEF Sends, DriverTypes, Place
  <2>2. Script[step].cmd \in Commands
    BY <1>0, <2>1, ScriptSteps DEF DriverTypes, ScriptSays
  <2>3. [cmd |-> Script[step].cmd, id |-> sent + 1] \in CommandRecord
    BY <1>0, <2>2 DEF CommandRecord, DriverTypes
  <2>4. QED
    BY <1>0, <1>2, <2>3 DEF Sends
<1>3. CASE SendsQuit
  <2>1. [cmd |-> "quit", id |-> 0] \in CommandRecord
    BY DEF CommandRecord
  <2>2. QED
    BY <1>0, <1>3, <2>1 DEF SendsQuit
<1>4. CASE DriverKilled
  BY <1>0, <1>4 DEF DriverKilled
<1>5. CASE EmitStarted \/ StartFailed \/ HarnessCrashed
  BY <1>0, <1>5 DEF EmitStarted, StartFailed, HarnessCrashed
<1>6. CASE ReadStdin
  <2>1. [cmd |-> "quit", id |-> 0] \in CommandRecord
    BY DEF CommandRecord
  <2>2. CASE cmds # <<>>
    BY <1>0, <1>6, <2>2, HeadIsCommand DEF ReadStdin
  <2>3. CASE cmds = <<>>
    <3>1. Append(mainq, [cmd |-> "quit", id |-> 0]) \in Seq(CommandRecord)
      BY <1>0, <2>1
    <3>2. QED
      BY <1>0, <1>6, <2>3, <3>1 DEF ReadStdin
  <2>4. QED
    BY <2>2, <2>3
<1>7. CASE Handle
  BY <1>0, <1>7, HeadIsCommand DEF Handle
<1>8. CASE UNCHANGED harnessVars
  BY <1>0, <1>8 DEF harnessVars
<1>9. CASE Driver
  BY <1>1, <1>2, <1>3, <1>8, <1>9, DriverSteps
  DEF WaitMatch, WaitSkip, Finds, Goes, StopSampler
<1>10. CASE OtherVm \/ Sample \/ GuestStep \/ KernelLog \/ Inflate \/ UNCHANGED vzVars
  BY <1>8, <1>10
  DEF OtherVm, Sample, GuestStep, Boot, BootFails, GuestCommand, ReplyPiece, ReplyEnd,
      KernelLog, Inflate, vzVars
<1>11. QED
  BY <1>4, <1>5, <1>6, <1>7, <1>9, <1>10 DEF VzNext, HarnessStep

\* A guest that has input has the command of this step, not executed yet.
LEMMA GuestReadsToken ==
  ASSUME VzInv, serial # <<>>
  PROVE  InSerial /\ Head(serial) = Token /\ Tail(serial) = <<>>
<1>1. InSerial
  BY DEF VzInv, OnePlace, Nowhere, InStdin, InQueue, InGuest, InLines
<1>2. QED
  BY <1>1, ShortQueues DEF InSerial

\* What a step of the script is, seen from where the command is.
LEMMA UnderWayStep ==
  ASSUME VzInv, UnderWay
  PROVE  /\ ScriptSays(step)
         /\ step \in Nat /\ 1 <= step
         /\ sent \in Nat
         /\ Token \in CommandRecord /\ Token.cmd = Script[step].cmd /\ Token.id = sent
         /\ Token.cmd \in Commands /\ Token.cmd # "quit"
<1>1. DriverTypes
  BY DEF VzInv, Types
<1>2. step \in 1..Len(Script)
  BY <1>1, ScriptSteps DEF DriverTypes, UnderWay
<1>3. ScriptSays(step)
  BY <1>1, <1>2, ScriptSteps DEF DriverTypes
<1>4. Token.cmd = Script[step].cmd /\ Token.id = sent
  BY DEF Token
<1>5. Token.cmd \in Commands
  BY <1>3, <1>4 DEF ScriptSays
<1>6. Token \in CommandRecord
  BY <1>1, <1>5 DEF Token, CommandRecord, DriverTypes
<1>7. QED
  BY <1>1, <1>3, <1>4, <1>5, <1>6 DEF DriverTypes, Commands

\* The guest executes the command of this step, or PID 1 dies.
Executed ==
  /\ guest' = "busy"
  /\ reply' \in Answers'
  /\ Done'
  /\ fleet' \in 0..Services
  /\ held' \in BOOLEAN
  /\ upset' = upset
Died == guest' = "dead" /\ upset' /\ UNCHANGED <<reply, fleet, held>>

\* A command is answered, whatever it is, with the line the driver waits for.
LEMMA GuestExecutes ==
  ASSUME VzInv, GuestCommand
  PROVE  Executed \/ Died
<1>0. /\ InSerial /\ Head(serial) = Token /\ UnderWay /\ NotYet
      /\ Token.cmd = Script[step].cmd /\ Token.id = sent
      /\ ScriptSays(step)
      /\ step \in Nat /\ 1 <= step /\ sent \in Nat
  BY GuestReadsToken, UnderWayStep DEF GuestCommand, InSerial
<1>1. UNCHANGED <<run, step, sent, balloon>> /\ Script' = Script
  BY SameScript DEF GuestCommand, driverVars, subject
<1>2. fleet \in 0..Services /\ held \in BOOLEAN
  BY DEF VzInv, Types, GuestTypes, FleetType
<1> DEFINE cmd == Token.cmd
<1>3. ASSUME NEW tag \in ReplyTags, NEW arg \in Nat, Reply(tag, sent, arg),
             tag = Script[step].want,
             tag = "MEM" => arg \in {0, 1},
             tag = "MEM" /\ arg = 1 => balloon = "inflated"
      PROVE  guest' = "busy" /\ reply' \in Answers'
  <2>1. reply' = Line(tag, sent, arg) /\ guest' = "busy"
    BY <1>3 DEF Reply
  <2>2. Line(tag, sent, arg) \in LineRecord
    BY <1>0, <1>3 DEF Line, LineRecord
  <2>3. QED
    BY <1>1, <1>3, <2>1, <2>2 DEF Answers, Line, Garbled
<1>4. CASE cmd = "touch"
  <2>1. run = "touch" /\ step = 1 /\ Script[step].want = "TOUCHED"
    BY <1>0, <1>4 DEF ScriptSays
  <2>2. CASE Reply("TOUCHED", sent, 0) /\ held' = TRUE /\ UNCHANGED <<fleet, upset>>
    <3>1. guest' = "busy" /\ reply' \in Answers'
      BY <1>3, <2>1, <2>2 DEF ReplyTags
    <3>2. QED
      BY <1>1, <1>2, <2>1, <2>2, <3>1 DEF Executed, Done
  <2>3. CASE Die
    BY <2>3 DEF Die, Died
  <2>4. QED
    BY <1>0, <1>4, <2>2, <2>3 DEF GuestCommand
<1>5. CASE cmd = "free"
  <2>1. run = "touch" /\ step = 2 /\ Script[step].want = "FREED"
    BY <1>0, <1>5 DEF ScriptSays
  <2>2. Reply("FREED", sent, 0) /\ held' = FALSE /\ UNCHANGED <<fleet, upset>>
    BY <1>0, <1>5 DEF GuestCommand
  <2>3. guest' = "busy" /\ reply' \in Answers'
    BY <1>3, <2>1, <2>2 DEF ReplyTags
  <2>4. ~held' /\ held' \in BOOLEAN
    BY <2>2
  <2>5. Done'
    BY <1>1, <2>1, <2>4 DEF Done
  <2>6. QED
    BY <1>2, <2>2, <2>3, <2>4, <2>5 DEF Executed
<1>6. CASE cmd = "mem"
  <2>1. run = "touch" /\ step > 2 /\ Script[step].want = "MEM"
    BY <1>0, <1>6 DEF ScriptSays
  <2>2. PICK under \in IF balloon = "inflated" THEN {0, 1} ELSE {0} :
          Reply("MEM", sent, under)
    BY <1>0, <1>6 DEF GuestCommand
  <2>3. UNCHANGED <<fleet, held, upset>>
    BY <1>0, <1>6 DEF GuestCommand
  <2>4. guest' = "busy" /\ reply' \in Answers'
    <3>1. under \in {0, 1} /\ (under = 1 => balloon = "inflated")
      BY <2>2
    <3>2. under \in Nat
      BY <3>1
    <3>3. QED
      BY <1>3, <2>1, <2>2, <3>1, <3>2 DEF ReplyTags
  <2>5. QED
    BY <1>0, <1>1, <1>2, <2>1, <2>3, <2>4 DEF Executed, Done
<1>7. CASE cmd = "fleet-start"
  <2>1. run = "fleet" /\ step <= Services /\ Script[step].want = "FLEET-STARTED"
    BY <1>0, <1>7 DEF ScriptSays
  <2>2. fleet = step - 1
    BY <1>0, <2>1, VzAssumption DEF NotYet, Running
  <2>3. CASE fleet' = fleet + 1 /\ Reply("FLEET-STARTED", sent, fleet')
               /\ UNCHANGED <<held, upset>>
    <3>1. fleet' = step /\ fleet' \in 0..Services /\ fleet' \in Nat
      BY <1>0, <2>1, <2>2, <2>3, VzAssumption
    <3>2. guest' = "busy" /\ reply' \in Answers'
      BY <1>3, <2>1, <2>3, <3>1 DEF ReplyTags
    <3>3. QED
      BY <1>1, <1>2, <2>1, <2>3, <3>1, <3>2 DEF Executed, Done, Running
  <2>4. CASE Die
    BY <2>4 DEF Die, Died
  <2>5. QED
    BY <1>0, <1>7, <2>3, <2>4 DEF GuestCommand
<1>8. CASE cmd = "fleet-stop-one"
  <2>1. /\ run = "fleet" /\ step > Services /\ step <= 2 * Services
        /\ Script[step].want = "FLEET-STOPPED"
    BY <1>0, <1>8 DEF ScriptSays
  <2>2. fleet = 2 * Services - step + 1 /\ fleet # 0
    BY <1>0, <2>1, VzAssumption DEF NotYet, Running
  <2>3. fleet' = fleet - 1 /\ Reply("FLEET-STOPPED", sent, fleet')
          /\ UNCHANGED <<held, upset>>
    BY <1>0, <1>8, <2>2 DEF GuestCommand
  <2>4. fleet' = 2 * Services - step /\ fleet' \in 0..Services /\ fleet' \in Nat
    BY <1>0, <2>1, <2>2, <2>3, VzAssumption
  <2>5. guest' = "busy" /\ reply' \in Answers'
    BY <1>3, <2>1, <2>3, <2>4 DEF ReplyTags
  <2>6. fleet' = Running(step)
    BY <1>0, <2>1, <2>4, VzAssumption DEF Running
  <2>7. QED
    BY <1>1, <1>2, <2>1, <2>3, <2>4, <2>5, <2>6 DEF Executed, Done, Running
<1>9. QED
  BY <1>0, <1>4, <1>5, <1>6, <1>7, <1>8 DEF InSerial, ScriptSays, Commands

\* Every step keeps the guest's variables what they are.
LEMMA GuestTypesStep ==
  ASSUME VzInv, [VzNext]_vzVars
  PROVE  GuestTypes' /\ FleetType' /\ Pieces'
<1>0. HarnessTypes /\ GuestTypes /\ OutTypes /\ FleetType /\ Pieces
  BY DEF VzInv, Types
<1> USE DEF GuestTypes, FleetType, Pieces
<1>1. CASE Handle
  <2>1. /\ serial' = serial \/ serial' = Append(serial, Head(mainq))
        /\ balloon' \in {balloon, "target"}
        /\ partial' \in {partial, "none"}
        /\ UNCHANGED <<guest, reply, pieces, fleet, held>>
    BY <1>1 DEF Handle, Emit
  <2>2. serial' \in Seq(CommandRecord)
    BY <1>0, <1>1, <2>1, HeadIsCommand DEF Handle, HarnessTypes
  <2>3. QED
    BY <1>0, <2>1, <2>2
<1>2. CASE Boot \/ BootFails
  BY <1>0, <1>2 DEF Boot, BootFails
<1>3. CASE GuestCommand
  <2>1. UNCHANGED <<pieces, balloon, partial>> /\ serial' = Tail(serial)
    BY <1>3 DEF GuestCommand
  <2>2. serial' \in Seq(CommandRecord)
    BY <1>0, <1>3, <2>1, HeadIsCommand DEF GuestCommand
  <2>3. guest # "busy"
    BY <1>3 DEF GuestCommand
  <2>4. CASE Executed
    <3>1. reply' \in LineRecord
      BY <2>4 DEF Executed, Answers
    <3>2. QED
      BY <1>0, <2>1, <2>2, <2>3, <2>4, <3>1 DEF Executed
  <2>5. CASE Died
    BY <1>0, <2>1, <2>2, <2>3, <2>5 DEF Died
  <2>6. QED
    BY <1>3, <2>4, <2>5, GuestExecutes
<1>4. CASE ReplyPiece
  <2>1. /\ guest = "busy" /\ pieces \in {0, 1} /\ pieces' = pieces + 1
        /\ UNCHANGED <<serial, guest, reply, fleet, held, balloon>>
    BY <1>0, <1>4 DEF ReplyPiece
  <2>2. CASE pieces = 0
    <3>1. partial' = "prefix"
      BY <1>4, <2>2 DEF ReplyPiece
    <3>2. QED
      BY <1>0, <2>1, <2>2, <3>1
  <2>3. CASE pieces = 1
    <3>1. partial' \in {"none", "body"}
      BY <1>4, <2>3 DEF ReplyPiece
    <3>2. QED
      BY <1>0, <2>1, <2>3, <3>1
  <2>4. QED
    BY <2>1, <2>2, <2>3
<1>5. CASE ReplyEnd
  BY <1>0, <1>5 DEF ReplyEnd
<1>6. CASE Inflate
  BY <1>0, <1>6 DEF Inflate, outVars
<1>7. CASE UNCHANGED guestVars /\ partial' \in {partial, "none"}
  BY <1>0, <1>7 DEF guestVars
<1>8. CASE EmitStarted \/ StartFailed \/ HarnessCrashed \/ ReadStdin \/ KernelLog
  BY <1>7, <1>8
  DEF EmitStarted, StartFailed, HarnessCrashed, ReadStdin, KernelLog, Emit, outVars
<1>9. CASE Driver \/ DriverKilled \/ OtherVm \/ Sample
  BY <1>7, <1>9, DriverLeavesGuest
<1>10. CASE UNCHANGED vzVars
  BY <1>7, <1>10 DEF vzVars, outVars
<1>11. QED
  BY <1>1, <1>2, <1>3, <1>4, <1>5, <1>6, <1>8, <1>9, <1>10
  DEF VzNext, HarnessStep, GuestStep

\* Every step keeps the output what it is.
LEMMA OutTypesStep ==
  ASSUME VzInv, [VzNext]_vzVars
  PROVE  OutTypes'
<1>0. Types
  BY DEF VzInv
<1>1. HarnessTypes /\ GuestTypes /\ OutTypes
  BY <1>0 DEF Types
<1> USE VzAssumption DEF OutTypes
<1>2. \A l \in LineRecord : Append(lines, l) \in Seq(LineRecord)
  BY <1>1
<1>3. CASE Unwind(TRUE) \/ Unwind(FALSE)
  BY <1>1, <1>3 DEF Unwind
<1>4. CASE WaitMatch \/ WaitSkip
  <2>1. Tail(lines) \in Seq(LineRecord)
    BY <1>1, <1>4, LinesShrink DEF WaitMatch, WaitSkip
  <2>2. QED
    BY <1>1, <1>4, <2>1 DEF WaitMatch, WaitSkip
<1>5. ASSUME NEW tag, NEW id \in Nat, Emit(tag, id), Line(tag, id, 0) \in LineRecord
      PROVE  lines' \in Seq(LineRecord) /\ partial' = "none" /\ upset' \in BOOLEAN
  <2>1. lines' \in Seq(LineRecord)
    BY <1>0, <1>2, <1>5, EmitAppends
  <2>2. QED
    BY <1>1, <1>5, <2>1 DEF Emit
<1>6. CASE EmitStarted
  <2>1. Emit("started", 0) /\ noise' = noise
    BY <1>6 DEF EmitStarted
  <2>2. QED
    BY <1>1, <1>5, <2>1, LinesWritten
<1>7. CASE KernelLog
  <2>1. Emit("junk", 0) /\ noise < MaxNoise /\ noise' = noise + 1
    BY <1>7 DEF KernelLog
  <2>2. QED
    BY <1>1, <1>5, <2>1, LinesWritten
<1>8. CASE Handle
  <2>1. Head(mainq).id \in Nat
    BY <1>1, <1>8, HeadIsCommand DEF Handle, HarnessTypes
  <2>2. CASE Emit("balloon-target", Head(mainq).id)
    BY <1>1, <1>5, <1>8, <2>1, <2>2, LinesWritten DEF Handle
  <2>3. CASE UNCHANGED <<partial, lines, upset>>
    BY <1>1, <1>8, <2>3 DEF Handle
  <2>4. QED
    BY <1>8, <2>2, <2>3 DEF Handle
<1>9. CASE StartFailed \/ HarnessCrashed \/ Boot \/ BootFails
  BY <1>1, <1>2, <1>9, LinesWritten DEF StartFailed, HarnessCrashed, Boot, BootFails
<1>10. CASE GuestCommand
  <2>1. upset' \in BOOLEAN
    BY <1>1, <1>10 DEF GuestCommand, Die
  <2>2. QED
    BY <1>1, <1>10, <2>1 DEF GuestCommand
<1>11. CASE ReplyPiece
  BY <1>1, <1>11 DEF ReplyPiece
<1>12. CASE ReplyEnd
  <2>1. lines' \in Seq(LineRecord)
    BY <1>1, <1>2, <1>12, LinesWritten DEF ReplyEnd, GuestTypes
  <2>2. QED
    BY <1>1, <1>12, <2>1 DEF ReplyEnd
<1>13. CASE UNCHANGED outVars
  BY <1>1, <1>13 DEF outVars
<1>14. CASE Driver
  BY <1>3, <1>4, <1>13, <1>14, DriverSteps
  DEF Sends, Finds, Goes, StopSampler, SendsQuit
<1>15. CASE \/ DriverKilled \/ OtherVm \/ Sample \/ ReadStdin \/ Inflate
            \/ UNCHANGED vzVars
  BY <1>13, <1>15 DEF DriverKilled, OtherVm, Sample, ReadStdin, Inflate, vzVars
<1>16. QED
  BY <1>6, <1>7, <1>8, <1>9, <1>10, <1>11, <1>12, <1>14, <1>15
  DEF VzNext, HarnessStep, GuestStep

-----------------------------------------------------------------------------
(* Who may panic, and who may end the harness. *)

\* The helper that is sampled is gone only with the harness.
LEMMA HelperGone ==
  ASSUME VzInv, helper # "none", helper \notin running_helpers
  PROVE  harness # "up"
BY DEF VzInv, Helpers, running_helpers

\* Where nothing is on its way any more a wait has lost something.
LEMMA QuietMeansLost ==
  ASSUME VzInv, Waiting, lines = <<>>, Quiet
  PROVE  upset
<1>1. \A t : ~Holds(<<>>, t)
  BY HoldsSomething
<1>2. \A A : ~OneReply(<<>>, A)
  BY ReplyIsThere
<1>3. \A tag : ~Has(<<>>, tag)
  BY ReplyIsThere
<1>4. CASE dpc = "wait"
  <2>1. ~InStdin /\ ~InQueue
    BY <1>1 DEF Quiet, InStdin, InQueue
  <2>2. InSerial => upset
    <3>1. <<Token>> # <<>>
      BY ShortQueues
    <3>2. QED
      BY <3>1 DEF Quiet, InSerial, VzInv, Lives
  <2>3. ~InGuest /\ ~InLines
    BY <1>2 DEF Quiet, InGuest, InLines, Live
  <2>4. QED
    BY <1>4, <2>1, <2>2, <2>3 DEF VzInv, OnePlace, Nowhere
<1>5. CASE dpc = "wait-started"
  BY <1>3, <1>5 DEF VzInv, Booting, Quiet
<1>6. CASE dpc = "wait-ready"
  BY <1>3, <1>6 DEF VzInv, Booting, Quiet
<1>7. QED
  BY <1>4, <1>5, <1>6 DEF Waiting

\* A reply that does not parse has a line of the kernel's log in it.
LEMMA UnparsableMeansUpset ==
  ASSUME VzInv, dpc = "wait", lines # <<>>, Unparsable(Head(lines))
  PROVE  upset
<1>1. lines \in Seq(LineRecord)
  BY DEF VzInv, Types, OutTypes
<1>2. Head(lines).tag \in ReplyTags
  BY DEF Unparsable, ReplyTags
<1>3. ~NoReply(lines)
  BY <1>1, <1>2, LinesShrink
<1>4. OneReply(lines, Answers)
  BY <1>3 DEF VzInv, OnePlace, Nowhere, InStdin, InQueue, InSerial, InGuest, InLines
<1>5. Head(lines) \in Answers
  BY <1>1, <1>2, <1>4, LinesShrink
<1>6. QED
  BY <1>5 DEF Answers, Unparsable

(***************************************************************************)
(* The driver panics only where something outside the protocol went wrong, *)
(* and never once it has sent its quit.                                    *)
(***************************************************************************)
LEMMA PanicMeansUpset ==
  ASSUME VzInv, Driver, dpc' = "panicked"
  PROVE  /\ upset' = TRUE
         /\ dpc \notin Leaving \cup {"panicked"}
         /\ Unwind(TRUE) \/ Unwind(FALSE)
<1>0. upset \in BOOLEAN
  BY DEF VzInv, Types, OutTypes
<1>1. harness # "up" /\ dpc \notin Leaving \cup {"panicked"} => upset
  BY DEF VzInv, Lives
<1>2. ASSUME upset, Unwind(FALSE)
      PROVE  upset' = TRUE
  BY <1>0, <1>2 DEF Unwind
<1>3. Unwind(TRUE) => upset' = TRUE
  BY <1>0 DEF Unwind
<1>4. CASE Send
  BY <1>1, <1>2, <1>4 DEF Send, Leaving
<1>5. CASE WaitUnparsable
  BY <1>2, <1>5, UnparsableMeansUpset DEF WaitUnparsable, Leaving
<1>6. CASE WaitTimeout
  <2>1. dpc \notin Leaving \cup {"panicked"}
    BY <1>6 DEF WaitTimeout, Waiting, Leaving
  <2>2. CASE Quiet
    <3>1. (~Quiet) = FALSE
      BY <2>2
    <3>2. Unwind(FALSE)
      BY <1>6, <3>1 DEF WaitTimeout
    <3>3. QED
      BY <1>2, <1>6, <2>1, <2>2, <3>2, QuietMeansLost DEF WaitTimeout
  <2>3. CASE ~Quiet
    <3>1. (~Quiet) = TRUE
      BY <2>3
    <3>2. QED
      BY <1>3, <1>6, <2>1, <3>1 DEF WaitTimeout
  <2>4. QED
    BY <2>2, <2>3
<1>7. CASE WaitDisconnected
  BY <1>1, <1>2, <1>7 DEF WaitDisconnected, Waiting, Leaving
<1>8. CASE FindHelper
  <2>1. running_helpers \ pre_existing = {} => harness # "up"
    BY DEF running_helpers, pre_existing
  <2>2. QED
    BY <1>1, <1>2, <1>3, <1>8, <2>1 DEF FindHelper, Leaving
<1>9. CASE SampleRow \/ UnderPressure
  <2>1. dpc \in {"sample", "pressure"} /\ helper # "none"
    BY <1>9 DEF SampleRow, UnderPressure, VzInv, Place, Starting, Over
  <2>2. \/ Unwind(TRUE)
        \/ Unwind(FALSE) /\ helper \notin running_helpers
    BY <1>9 DEF SampleRow, UnderPressure
  <2>3. QED
    BY <1>1, <1>2, <1>3, <2>1, <2>2, HelperGone DEF Leaving
<1>10. CASE Quit
  BY <1>1, <1>2, <1>10 DEF Quit, Leaving
<1>11. CASE WaitSkip
  <2>1. dpc' = dpc
    BY <1>11 DEF WaitSkip, driverVars
  <2>2. QED
    BY <1>11, <2>1 DEF WaitSkip, Waiting
<1>12. CASE WaitMatch
  <2>1. PICK line : AfterMatch(line)
    BY <1>12 DEF WaitMatch
  <2>2. AfterStep # "panicked"
    BY DEF AfterStep, VzInv, Types, DriverTypes
  <2>3. QED
    BY <1>12, <2>1, <2>2 DEF AfterMatch, WaitMatch, Waiting
<1>13. CASE StopSampler \/ Reap
  BY <1>13 DEF StopSampler, Reap
<1>14. QED
  BY <1>4, <1>5, <1>6, <1>7, <1>8, <1>9, <1>10, <1>11, <1>12, <1>13 DEF Driver

\* What has gone wrong stays so.
LEMMA UpsetStays ==
  ASSUME VzInv, [VzNext]_vzVars, upset
  PROVE  upset'
<1>0. upset \in BOOLEAN
  BY DEF VzInv, Types, OutTypes
<1>1. CASE upset' = upset
  BY <1>1
<1>2. CASE Unwind(TRUE) \/ Unwind(FALSE)
  BY <1>2 DEF Unwind
<1>3. CASE Driver
  BY <1>1, <1>2, <1>3, DriverSteps
  DEF Sends, WaitMatch, WaitSkip, Finds, Goes, StopSampler, SendsQuit, outVars
<1>4. CASE EmitStarted \/ KernelLog \/ Handle
  BY <1>4 DEF EmitStarted, KernelLog, Handle, Emit
<1>5. CASE StartFailed \/ HarnessCrashed \/ Boot \/ BootFails \/ GuestCommand
  BY <1>5 DEF StartFailed, HarnessCrashed, Boot, BootFails, GuestCommand, Die
<1>6. CASE \/ DriverKilled \/ OtherVm \/ Sample \/ ReadStdin \/ ReplyPiece \/ ReplyEnd
           \/ Inflate \/ UNCHANGED vzVars
  BY <1>1, <1>6
  DEF DriverKilled, OtherVm, Sample, ReadStdin, ReplyPiece, ReplyEnd, Inflate, vzVars,
      outVars
<1>7. QED
  BY <1>3, <1>4, <1>5, <1>6 DEF VzNext, HarnessStep, GuestStep

\* Where a line takes the driver.
LEMMA MatchGoes ==
  ASSUME VzInv, WaitMatch
  PROVE  /\ dpc \in {"wait-started", "wait-ready", "wait"}
         /\ dpc' \in {"wait-ready", "find-helper", "send", "sample", "stop-sampler"}
         /\ dpc' = "wait-ready" => dpc = "wait-started"
         /\ dpc' = "find-helper" => dpc = "wait-ready"
<1>1. PICK line : AfterMatch(line)
  BY DEF WaitMatch
<1>2. AfterStep \in {"send", "sample", "stop-sampler"}
  BY DEF AfterStep, VzInv, Types, DriverTypes
<1>3. QED
  BY <1>1, <1>2 DEF AfterMatch, WaitMatch, Waiting

\* Every step keeps the ends of the driver and of the harness in order.
LEMMA LivesStep ==
  ASSUME VzInv, [VzNext]_vzVars
  PROVE  Lives'
<1>0. Types /\ Lives /\ Place /\ Helpers
  BY DEF VzInv
<1>1. HarnessTypes /\ cmds \in Seq(CommandRecord) /\ mainq \in Seq(CommandRecord)
  BY <1>0 DEF Types, HarnessTypes
<1>2. upset => upset'
  BY UpsetStays
<1> USE DEF Lives, NoVmLeft, NoLostReply, Leaving
<1>3. CASE Driver /\ dpc' = "panicked"
  <2>1. /\ upset' = TRUE
        /\ dpc \notin Leaving \cup {"panicked"}
        /\ Unwind(TRUE) \/ Unwind(FALSE)
    BY <1>3, PanicMeansUpset
  <2>2. harness' = "exited" /\ UNCHANGED <<sampler, cmds, eof, mainq, guest>>
    BY <2>1 DEF Unwind, guestVars
  <2>3. QED
    BY <1>0, <1>3, <2>1, <2>2
<1>4. CASE Sends
  <2>1. Script[step].cmd \in Commands
    <3>1. step \in 1..Len(Script)
      BY <1>0, <1>4, ScriptSteps DEF Sends, Place, Types, DriverTypes
    <3>2. QED
      BY <1>0, <3>1, ScriptSteps DEF Types, DriverTypes, ScriptSays
  <2>2. LET c == [cmd |-> Script[step].cmd, id |-> sent + 1] IN
        c \in CommandRecord /\ c.cmd # "quit"
    BY <1>0, <2>1 DEF CommandRecord, Commands, Types, DriverTypes
  <2>3. NoQuit(cmds')
    BY <1>0, <1>1, <1>4, <2>2, QueueEmpty DEF Sends
  <2>4. QED
    BY <1>0, <1>4, <2>3 DEF Sends, guestVars, outVars
<1>5. CASE WaitMatch
  BY <1>0, <1>5, MatchGoes DEF WaitMatch, harnessVars, guestVars
<1>6. CASE Finds \/ Goes \/ StopSampler
  BY <1>0, <1>6 DEF Finds, Goes, StopSampler, harnessVars, guestVars, outVars
<1>7. CASE SendsQuit \/ DriverKilled
  BY <1>0, <1>7 DEF SendsQuit, DriverKilled, Over, guestVars, outVars
<1>8. CASE OtherVm
  BY <1>0, <1>8 DEF OtherVm, harnessVars, guestVars, outVars
<1>9. CASE Sample
  <2>1. upset
    BY <1>0, <1>9, HelperGone DEF Sample, Helpers
  <2>2. QED
    BY <1>0, <1>9, <2>1 DEF Sample, harnessVars, guestVars, outVars
<1>10. CASE UNCHANGED <<dpc, sampler, harness, cmds, mainq, eof, guest>>
  BY <1>0, <1>2, <1>10
<1>11. CASE Driver
  BY <1>3, <1>4, <1>5, <1>6, <1>7, <1>10, <1>11, DriverSteps
  DEF Unwind, WaitSkip, driverVars, harnessVars, guestVars
<1>12. CASE EmitStarted \/ ReplyPiece \/ KernelLog \/ Inflate \/ UNCHANGED vzVars
  BY <1>10, <1>12
  DEF EmitStarted, ReplyPiece, KernelLog, Inflate, vzVars, driverVars, harnessVars,
      guestVars
<1>13. CASE StartFailed \/ HarnessCrashed
  BY <1>0, <1>13 DEF StartFailed, HarnessCrashed, driverVars, guestVars
<1>14. CASE ReadStdin
  <2>0. UNCHANGED <<dpc, sampler, harness, guest, upset>>
    BY <1>14 DEF ReadStdin, driverVars, guestVars, outVars
  <2>1. CASE cmds # <<>>
    <3>1. /\ mainq' = Append(mainq, Head(cmds)) /\ cmds' = Tail(cmds)
          /\ eof' = eof
      BY <1>14, <2>1 DEF ReadStdin
    <3>2. NoQuit(cmds) => Head(cmds).cmd # "quit" /\ NoQuit(cmds')
      BY <1>1, <2>1, <3>1, QueueShrinks
    <3>3. Head(cmds) \in CommandRecord
      BY <1>1, <2>1, HeadIsCommand
    <3>4. NoQuit(mainq) /\ Head(cmds).cmd # "quit" => NoQuit(mainq')
      BY <1>1, <3>1, <3>3, QueueEmpty
    <3>5. QED
      BY <1>0, <2>0, <3>1, <3>2, <3>4
  <2>2. CASE cmds = <<>>
    <3>1. eof /\ ~eof'
      BY <1>14, <2>2 DEF ReadStdin
    <3>2. QED
      BY <1>0, <2>0, <3>1
  <2>3. QED
    BY <2>1, <2>2
<1>15. CASE Handle
  <2>1. /\ NoQuit(mainq) => Head(mainq).cmd # "quit" /\ NoQuit(Tail(mainq))
    BY <1>1, <1>15, QueueShrinks DEF Handle
  <2>2. /\ UNCHANGED <<dpc, sampler, cmds, eof, guest>>
        /\ mainq' = Tail(mainq)
        /\ harness = "up"
        /\ harness' = "up" \/ Head(mainq).cmd = "quit"
    BY <1>15 DEF Handle, driverVars
  <2>3. QED
    BY <1>0, <1>2, <2>1, <2>2
<1>16. CASE Boot \/ BootFails \/ ReplyEnd
  BY <1>0, <1>2, <1>16 DEF Boot, BootFails, ReplyEnd, driverVars, harnessVars
<1>17. CASE GuestCommand
  <2>1. UNCHANGED <<dpc, sampler, harness, cmds, mainq, eof>>
    BY <1>17 DEF GuestCommand, driverVars, harnessVars
  <2>2. guest' = "dead" => upset'
    BY <1>17, GuestExecutes DEF Executed, Died
  <2>3. QED
    BY <1>0, <1>2, <2>1, <2>2
<1>18. QED
  BY <1>7, <1>8, <1>9, <1>11, <1>12, <1>13, <1>14, <1>15, <1>16, <1>17
  DEF VzNext, HarnessStep, GuestStep

-----------------------------------------------------------------------------
(* The boot. *)

\* Every step keeps the lines of the boot on their way, in their order.
LEMMA BootingStep ==
  ASSUME VzInv, [VzNext]_vzVars
  PROVE  Booting'
<1>0. Types /\ Booting
  BY DEF VzInv
<1>1. HarnessTypes /\ GuestTypes /\ lines \in Seq(LineRecord)
  BY <1>0 DEF Types, OutTypes
<1>2. upset => upset'
  BY UpsetStays
<1> USE DEF Booting
<1>3. CASE /\ dpc' \notin {"wait-started", "wait-ready"}
           /\ UNCHANGED <<guest, started>>
  BY <1>0, <1>2, <1>3
<1>4. CASE /\ UNCHANGED <<dpc, started>>
           /\ guest' = "off" <=> guest = "off"
           /\ lines' = lines \/ \E l \in LineRecord : lines' = Append(lines, l)
  <2>1. /\ \A tag : Has(lines, tag) => Has(lines', tag)
        /\ Boots(lines) => Boots(lines')
    BY <1>1, <1>4, LinesGrow
  <2>2. QED
    BY <1>0, <1>2, <1>4, <2>1
<1>5. CASE Unwind(TRUE) \/ Unwind(FALSE)
  BY <1>3, <1>5 DEF Unwind, guestVars
<1>6. CASE Sends \/ Finds \/ Goes \/ StopSampler \/ SendsQuit \/ DriverKilled
  BY <1>3, <1>6
  DEF Sends, Finds, Goes, StopSampler, SendsQuit, DriverKilled, guestVars, harnessVars
<1>7. CASE WaitMatch
  <2>1. /\ lines # <<>> /\ lines' = Tail(lines)
        /\ UNCHANGED <<guest, started>>
    BY <1>7 DEF WaitMatch, guestVars, harnessVars
  <2>2. Boots(lines) => Has(lines', "READY")
    BY <1>1, <2>1, LinesShrink
  <2>3. QED
    BY <1>0, <1>2, <1>7, <2>1, <2>2, MatchGoes
<1>8. CASE WaitSkip
  <2>1. /\ lines # <<>> /\ lines' = Tail(lines)
        /\ Head(lines).tag # Want
        /\ UNCHANGED <<guest, started, dpc>>
    BY <1>8 DEF WaitSkip, guestVars, harnessVars, driverVars
  <2>2. /\ Has(lines, "started") /\ Head(lines).tag # "started" => Has(lines', "started")
        /\ Has(lines, "READY") /\ Head(lines).tag # "READY" => Has(lines', "READY")
        /\ Boots(lines) /\ Head(lines).tag # "started" => Boots(lines')
    BY <1>1, <2>1, LinesShrink
  <2>3. /\ dpc = "wait-started" => Want = "started"
        /\ dpc = "wait-ready" => Want = "READY"
    BY DEF Want
  <2>4. QED
    BY <1>0, <1>2, <2>1, <2>2, <2>3
<1>9. CASE OtherVm \/ Sample \/ ReadStdin \/ ReplyPiece \/ Inflate \/ UNCHANGED vzVars
  BY <1>4, <1>9
  DEF OtherVm, Sample, ReadStdin, ReplyPiece, Inflate, vzVars, driverVars, harnessVars,
      guestVars, outVars
<1>10. CASE EmitStarted
  <2>1. Emit("started", 0) /\ ~started /\ started' /\ UNCHANGED <<dpc, guest>>
    BY <1>10 DEF EmitStarted, driverVars, guestVars
  <2>2. ~upset' => partial = "none"
    BY <2>1 DEF Emit
  <2>3. partial = "none" => Has(lines', "started")
    <3>1. partial = "none" => lines' = Append(lines, Line("started", 0, 0))
      BY <1>0, <2>1, EmitAppends, LinesWritten
    <3>2. QED
      BY <1>1, <3>1, LinesGrow, LinesWritten DEF Line
  <2>4. QED
    BY <1>0, <1>2, <2>1, <2>2, <2>3
<1>11. CASE StartFailed \/ HarnessCrashed \/ BootFails
  BY <1>11 DEF StartFailed, HarnessCrashed, BootFails
<1>12. CASE KernelLog
  <2>1. Emit("junk", 0) /\ UNCHANGED <<dpc, guest, started>>
    BY <1>12 DEF KernelLog, driverVars, guestVars, harnessVars
  <2>2. QED
    BY <1>0, <1>4, <2>1, EmitAppends, LinesWritten
<1>13. CASE Handle
  <2>1. UNCHANGED <<dpc, guest, started>>
    BY <1>13 DEF Handle, driverVars
  <2>2. Head(mainq).id \in Nat
    BY <1>1, <1>13, HeadIsCommand DEF Handle, HarnessTypes
  <2>3. CASE Emit("balloon-target", Head(mainq).id)
    BY <1>0, <1>4, <2>1, <2>2, <2>3, EmitAppends, LinesWritten
  <2>4. CASE lines' = lines
    BY <1>4, <2>1, <2>4
  <2>5. QED
    BY <1>13, <2>3, <2>4 DEF Handle
<1>14. CASE Boot
  <2>1. /\ lines' = Append(lines, Line("READY", 0, 0))
        /\ UNCHANGED <<dpc, started>>
        /\ ~upset' => started
    BY <1>14 DEF Boot, driverVars, harnessVars
  <2>2. /\ Has(lines', "READY")
        /\ Has(lines, "started") => Boots(lines')
        /\ Has(lines, "started") => Has(lines', "started")
    BY <1>1, <2>1, LinesGrow, LinesWritten DEF Line
  <2>3. QED
    BY <1>0, <1>2, <2>1, <2>2
<1>15. CASE GuestCommand
  <2>1. guest = "idle" /\ guest' \in {"busy", "dead"} /\ UNCHANGED <<dpc, started, lines>>
    BY <1>15, GuestExecutes
    DEF GuestCommand, Executed, Died, driverVars, harnessVars
  <2>2. QED
    BY <1>4, <2>1
<1>16. CASE ReplyEnd
  <2>1. guest = "busy" /\ guest' = "idle" /\ UNCHANGED <<dpc, started>>
    BY <1>16 DEF ReplyEnd, driverVars, harnessVars
  <2>2. \E l \in LineRecord : lines' = Append(lines, l)
    BY <1>1, <1>16, LinesWritten DEF ReplyEnd, GuestTypes
  <2>3. QED
    BY <1>4, <2>1, <2>2
<1>17. CASE Driver
  BY <1>5, <1>6, <1>7, <1>8, <1>17, DriverSteps
<1>18. QED
  BY <1>6, <1>9, <1>10, <1>11, <1>12, <1>13, <1>14, <1>15, <1>16, <1>17
  DEF VzNext, HarnessStep, GuestStep

-----------------------------------------------------------------------------
(* The place of the command. *)

\* The lines that may answer a step only get more.
LEMMA AnswersGrow ==
  ASSUME UNCHANGED <<run, step, sent>>,
         balloon = "inflated" => balloon' = "inflated",
         upset => upset'
  PROVE  Answers \subseteq Answers'
BY SameScript DEF Answers

\* A step that moves no command and writes no reply.
LEMMA PlaceKept ==
  ASSUME VzInv,
         UNCHANGED <<run, step, sent, polls, cmds, mainq, serial, fleet, held, reply>>,
         dpc' = dpc \/ dpc' \in {"killed", "panicked"},
         balloon' = balloon \/ balloon' = "inflated",
         upset => upset',
         Live' <=> Live,
         \/ lines' = lines
         \/ \E l \in LineRecord :
              l.tag \notin ReplyTags /\ lines' = Append(lines, l)
  PROVE  OnePlace'
<1>0. lines \in Seq(LineRecord)
  BY DEF VzInv, Types, OutTypes
<1>1. Script' = Script /\ Token' = Token
  BY SameScript, SameToken
<1>2. Answers \subseteq Answers'
  BY AnswersGrow
<1>3. NoReply(lines) => NoReply(lines')
  BY <1>0, LinesGrow
<1>4. OneReply(lines, Answers) => OneReply(lines', Answers')
  BY <1>0, <1>2, LinesGrow, ReplyIsThere
<1>5. UnderWay => UnderWay'
  BY <1>1 DEF UnderWay
<1>6. /\ NotYet => NotYet'
      /\ Done => Done'
  BY DEF NotYet, Done
<1>7. RowsMeasureGuest => RowsMeasureGuest'
  BY <1>1 DEF RowsMeasureGuest
<1>8. CASE Nowhere
  BY <1>3, <1>6, <1>7, <1>8 DEF Nowhere, OnePlace
<1>9. CASE InStdin \/ InQueue \/ InSerial
  BY <1>1, <1>3, <1>5, <1>6, <1>9 DEF InStdin, InQueue, InSerial, OnePlace
<1>10. CASE InGuest
  BY <1>2, <1>3, <1>5, <1>6, <1>10 DEF InGuest, OnePlace
<1>11. CASE InLines
  BY <1>4, <1>5, <1>6, <1>11 DEF InLines, OnePlace
<1>12. QED
  BY <1>8, <1>9, <1>10, <1>11 DEF VzInv, OnePlace

\* The driver sends the command of its step.
LEMMA SendsPlace ==
  ASSUME VzInv, Sends
  PROVE  OnePlace'
<1>1. dpc = "send" /\ Nowhere /\ NotYet
  BY DEF Sends, VzInv, OnePlace, Nowhere, InStdin, InQueue, InSerial, InGuest, InLines,
         UnderWay
<1>2. cmds \in Seq(CommandRecord) /\ mainq \in Seq(CommandRecord)
  BY DEF VzInv, Types, HarnessTypes
<1>3. NoQuit(cmds) /\ NoQuit(mainq)
  BY <1>1 DEF VzInv, Lives, Leaving
<1>4. cmds = <<>> /\ mainq = <<>>
  BY <1>1, <1>2, <1>3, QueueEmpty DEF Nowhere
<1>5. Script' = Script
  BY SameScript DEF Sends, subject
<1>6. cmds' = Append(cmds, Token')
  BY <1>5 DEF Sends, Token
<1>7. Holds(cmds', Token')
  BY <1>2, <1>4, <1>6, QueueGrows
<1>8. UnderWay'
  BY <1>1, <1>5 DEF UnderWay, Sends, VzInv, Place
<1>9. /\ UNCHANGED <<mainq, serial, lines>>
      /\ Live' <=> Live
      /\ NotYet'
  BY <1>1 DEF Sends, subject, guestVars, outVars, Live, NotYet
<1>10. InStdin'
  BY <1>1, <1>4, <1>7, <1>8, <1>9 DEF InStdin, Nowhere
<1>11. QED
  BY <1>10 DEF OnePlace

\* The driver reads the line it waits for.
LEMMA MatchPlace ==
  ASSUME VzInv, WaitMatch
  PROVE  OnePlace'
<1>0. /\ lines \in Seq(LineRecord) /\ lines # <<>>
      /\ lines' = Tail(lines)
      /\ Head(lines).tag = Want
      /\ AfterMatch(Head(lines))
      /\ UNCHANGED <<run, sent, cmds, mainq, serial, fleet, held, balloon>>
      /\ Live' <=> Live
      /\ Script' = Script
  BY SameScript
  DEF VzInv, Types, OutTypes, WaitMatch, subject, harnessVars, guestVars, Live
<1>1. CASE dpc \in {"wait-started", "wait-ready"}
  <2>1. Nowhere /\ NotYet
    BY <1>1 DEF VzInv, OnePlace, Nowhere, InStdin, InQueue, InSerial, InGuest, InLines,
                UnderWay
  <2>2. NoReply(lines')
    BY <1>0, <2>1, LinesShrink DEF Nowhere
  <2>3. dpc' \in {"wait-ready", "find-helper"} /\ step' = step
    BY <1>0, <1>1 DEF AfterMatch
  <2>4. NotYet' /\ RowsMeasureGuest'
    BY <1>0, <2>1, <2>3 DEF NotYet, RowsMeasureGuest
  <2>5. QED
    BY <1>0, <2>1, <2>2, <2>3, <2>4 DEF Nowhere, OnePlace
<1>2. CASE dpc = "wait"
  <2>1. UnderWay
    BY <1>2 DEF VzInv, Place, UnderWay
  <2>2. ScriptSays(step) /\ step \in Nat /\ 1 <= step
    BY <2>1, UnderWayStep
  <2>3. Head(lines).tag = Script[step].want /\ Head(lines).tag \in ReplyTags
    BY <1>0, <1>2, <2>2 DEF Want, ScriptSays
  <2>4. InLines
    <3>1. ~NoReply(lines)
      BY <1>0, <2>3, LinesShrink
    <3>2. QED
      BY <3>1 DEF VzInv, OnePlace, Nowhere, InStdin, InQueue, InSerial, InGuest
  <2>5. Head(lines) \in Answers /\ NoReply(lines')
    BY <1>0, <2>3, <2>4, LinesShrink DEF InLines
  <2>6. run \in {"fleet", "touch"} /\ (run = "touch" => Len(Script) = 5)
    BY ScriptSteps DEF VzInv, Types, DriverTypes
  <2>7. dpc' \in {"send", "sample", "stop-sampler"}
    BY <1>2, MatchGoes
  <2>8. CASE Polling
    <3>1. run = "touch" /\ step = 5 /\ Script[step].want = "MEM"
      BY <2>2, <2>6, <2>8 DEF Polling, ScriptSays
    <3>2. Head(lines).arg = 1 => balloon = "inflated"
      BY <2>3, <2>5, <3>1 DEF Answers
    <3>3. /\ low' = (Head(lines).arg = 1)
          /\ dpc' = "sample" => (low' \/ polls' = MaxPolls) /\ step' = step + 1
      BY <1>0, <1>2, <2>8 DEF AfterMatch
    <3>4. dpc' = "sample" => Head(lines).arg = 1 \/ polls' = MaxPolls
      BY <3>3
    <3>5. dpc' = "sample" => step' = 6
      BY <3>1, <3>3
    <3>6. run' = "touch"
      BY <1>0, <3>1
    <3>7. NotYet'
      BY <3>6 DEF NotYet
    <3>8. dpc' = "sample" => balloon' = "inflated" \/ polls' = MaxPolls
      BY <1>0, <3>2, <3>4
    <3>9. RowsMeasureGuest'
      BY <3>5, <3>6, <3>8 DEF RowsMeasureGuest
    <3>10. QED
      BY <1>0, <2>4, <2>5, <2>7, <3>7, <3>9 DEF Nowhere, InLines, OnePlace
  <2>9. CASE ~Polling
    <3>1. step' = step + 1 /\ dpc' = AfterStep
      BY <1>0, <1>2, <2>9 DEF AfterMatch
    <3>2. step' - 1 = step
      BY <2>2, <3>1
    <3>3. run = "fleet" => fleet' = Running(step' - 1)
      BY <1>0, <2>4, <3>2 DEF InLines, Done
    <3>4. dpc' = "sample" => run = "touch" /\ step <= 2
      BY <2>6, <3>1 DEF AfterStep
    <3>5. dpc' = "sample" => step \in {1, 2} /\ Len(Script') = 5
      BY <1>0, <2>2, <2>6, <3>4
    <3>6. run = "touch" => (step = 1 => held') /\ (step = 2 => ~held')
      BY <1>0, <2>4 DEF InLines, Done
    <3>7. NotYet'
      BY <1>0, <3>3 DEF NotYet
    <3>8. RowsMeasureGuest'
      <4>1. dpc' = "sample" => (step' = 2 => held') /\ (step' = 3 => ~held')
        BY <3>1, <3>4, <3>5, <3>6
      <4>2. dpc' = "sample" => step' # Len(Script') + 1
        BY <3>1, <3>5
      <4>3. QED
        BY <1>0, <3>3, <4>1, <4>2 DEF RowsMeasureGuest
    <3>9. QED
      BY <1>0, <2>4, <2>5, <2>7, <3>7, <3>8 DEF Nowhere, InLines, OnePlace
  <2>10. QED
    BY <2>8, <2>9
<1>3. QED
  BY <1>1, <1>2, MatchGoes

\* Between commands nothing is under way.
LEMMA Between ==
  ASSUME VzInv, dpc \notin {"wait", "killed", "panicked"}
  PROVE  Nowhere /\ NotYet /\ RowsMeasureGuest
BY DEF VzInv, OnePlace, Nowhere, InStdin, InQueue, InSerial, InGuest, InLines, UnderWay

\* The driver drops a line: never the reply to its command.
LEMMA SkipPlace ==
  ASSUME VzInv, WaitSkip
  PROVE  OnePlace'
<1>0. /\ lines \in Seq(LineRecord) /\ lines # <<>>
      /\ lines' = Tail(lines)
      /\ Head(lines).tag # Want
      /\ dpc \in {"wait-started", "wait-ready", "wait"}
      /\ UNCHANGED <<run, dpc, step, sent, polls, cmds, mainq, serial, guest, reply,
                     pieces, partial, fleet, held, balloon, upset>>
  BY DEF VzInv, Types, OutTypes, WaitSkip, Waiting, driverVars, subject, harnessVars,
         guestVars
<1>1. /\ Script' = Script /\ Token' = Token
      /\ Live' <=> Live
      /\ UnderWay' <=> UnderWay
      /\ NotYet => NotYet'
      /\ Done => Done'
  BY <1>0, SameScript, SameToken DEF Live, UnderWay, NotYet, Done
<1>2. NoReply(lines) => NoReply(lines')
  BY <1>0, LinesShrink
<1>3. CASE Nowhere
  <2>1. RowsMeasureGuest'
    BY <1>0 DEF RowsMeasureGuest
  <2>2. QED
    BY <1>0, <1>1, <1>2, <1>3, <2>1 DEF Nowhere, OnePlace
<1>4. CASE InStdin \/ InQueue \/ InSerial
  BY <1>0, <1>1, <1>2, <1>4 DEF InStdin, InQueue, InSerial, OnePlace
<1>5. Answers \subseteq Answers'
  BY <1>0, AnswersGrow
<1>6. CASE InGuest
  BY <1>0, <1>1, <1>2, <1>5, <1>6 DEF InGuest, OnePlace
<1>7. CASE InLines
  <2>1. Script[step].want \in ReplyTags /\ dpc = "wait"
    BY <1>0, <1>7, UnderWayStep DEF InLines, UnderWay, ScriptSays
  <2>2. Head(lines).tag \notin ReplyTags
    <3>1. Head(lines).tag \in ReplyTags => Head(lines) \in Answers
      BY <1>0, <1>7, LinesShrink DEF InLines
    <3>2. QED
      BY <1>0, <2>1, <3>1 DEF Answers, Want
  <2>3. \A l \in Answers : l.tag \in ReplyTags
    BY <2>1 DEF Answers
  <2>4. OneReply(lines', Answers)
    BY <1>0, <1>7, <2>2, <2>3, LinesShrink DEF InLines
  <2>5. OneReply(lines', Answers')
    BY <1>5, <2>4, ReplyIsThere
  <2>6. QED
    BY <1>0, <1>1, <1>7, <2>5 DEF InLines, OnePlace
<1>8. QED
  BY <1>3, <1>4, <1>6, <1>7 DEF VzInv, OnePlace

\* The driver goes on between two commands.
LEMMA BetweenPlace ==
  ASSUME VzInv, Finds \/ Goes \/ StopSampler \/ SendsQuit
  PROVE  OnePlace'
<1>0. /\ Nowhere /\ NotYet
      /\ dpc \in {"find-helper", "sample", "pressure", "reap", "stop-sampler", "quit"}
  BY Between DEF Finds, Goes, StopSampler, SendsQuit
<1>1. /\ dpc' \in {"send", "sample", "pressure", "quit", "ended", "reap"}
      /\ dpc' = "sample" => dpc = "find-helper"
      /\ UNCHANGED <<run, step, polls, mainq, serial, guest, pieces, partial, fleet,
                     held, balloon, lines>>
  BY DEF Finds, Goes, StopSampler, SendsQuit, subject, harnessVars, guestVars, outVars
<1>2. Script' = Script
  BY <1>1, SameScript
<1>3. Quits(cmds')
  <2>1. cmds \in Seq(CommandRecord)
    BY DEF VzInv, Types, HarnessTypes
  <2>2. cmds' = cmds \/ cmds' = Append(cmds, QuitCommand)
    BY DEF Finds, Goes, StopSampler, SendsQuit, harnessVars, QuitCommand
  <2>3. QED
    BY <1>0, <2>1, <2>2, QueueGrows DEF Nowhere
<1>4. NotYet' /\ (Live' <=> Live)
  BY <1>0, <1>1 DEF NotYet, Live
<1>5. RowsMeasureGuest'
  <2>1. Len(Script) \in Nat /\ Len(Script) >= 1
    BY ScriptSteps DEF VzInv, Types, DriverTypes
  <2>2. dpc' = "sample" => step' = 1
    BY <1>1 DEF VzInv, Place, Starting
  <2>3. QED
    BY <1>1, <1>2, <1>4, <2>1, <2>2 DEF NotYet, RowsMeasureGuest
<1>6. Nowhere'
  BY <1>0, <1>1, <1>3, <1>4, <1>5 DEF Nowhere
<1>7. QED
  BY <1>6 DEF OnePlace

\* A death of the driver or of the VM, the boot and the balloon move nothing.
LEMMA OthersPlace ==
  ASSUME VzInv,
         \/ Unwind(TRUE) \/ Unwind(FALSE) \/ DriverKilled \/ OtherVm \/ Sample
         \/ StartFailed \/ HarnessCrashed \/ Boot \/ BootFails \/ Inflate
         \/ UNCHANGED vzVars
  PROVE  OnePlace'
<1>0. upset \in BOOLEAN
  BY DEF VzInv, Types, OutTypes
<1>1. CASE \/ Unwind(TRUE) \/ Unwind(FALSE) \/ DriverKilled \/ OtherVm \/ Sample
           \/ HarnessCrashed \/ Inflate \/ UNCHANGED vzVars
  <2>1. /\ UNCHANGED <<run, step, sent, polls, cmds, mainq, serial, fleet, held, reply,
                       lines, guest, pieces, partial>>
        /\ dpc' = dpc \/ dpc' \in {"killed", "panicked"}
        /\ balloon' = balloon \/ balloon' = "inflated"
    BY <1>1 DEF Unwind, DriverKilled, OtherVm, Sample, HarnessCrashed, Inflate, vzVars,
                driverVars, subject, harnessVars, guestVars, outVars
  <2>2. upset => upset'
    BY <1>0, <1>1 DEF Unwind, DriverKilled, OtherVm, Sample, HarnessCrashed, Inflate,
                      vzVars, outVars
  <2>3. Live' <=> Live
    BY <2>1 DEF Live
  <2>4. QED
    BY <2>1, <2>2, <2>3, PlaceKept
<1>2. CASE StartFailed \/ Boot \/ BootFails
  <2>1. /\ UNCHANGED <<run, step, sent, polls, cmds, mainq, serial, fleet, held, reply,
                       dpc, balloon>>
        /\ guest = "off" /\ guest' # "busy"
    BY <1>2 DEF StartFailed, Boot, BootFails, driverVars, subject, harnessVars, guestVars
  <2>2. upset => upset'
    BY <1>0, <1>2 DEF StartFailed, Boot, BootFails
  <2>3. Live' <=> Live
    BY <2>1 DEF Live
  <2>4. \/ lines' = lines
        \/ \E l \in LineRecord :
             l.tag \notin ReplyTags /\ lines' = Append(lines, l)
    <3>1. /\ Line("start-failed", 0, 0).tag \notin ReplyTags
          /\ Line("READY", 0, 0).tag \notin ReplyTags
      BY DEF Line, ReplyTags
    <3>2. \/ lines' = lines
          \/ lines' = Append(lines, Line("start-failed", 0, 0))
          \/ lines' = Append(lines, Line("READY", 0, 0))
      BY <1>2 DEF StartFailed, Boot, BootFails
    <3>3. QED
      BY <3>1, <3>2, LinesWritten
  <2>5. QED
    BY <2>1, <2>2, <2>3, <2>4, PlaceKept
<1>3. QED
  BY <1>1, <1>2

\* A line of somebody else: between replies it does no harm, behind the
\* prefix it loses the reply, behind the body it ends it.
LEMMA EmitPlace ==
  ASSUME VzInv, EmitStarted \/ KernelLog
  PROVE  OnePlace'
<1>0. /\ Types /\ Pieces /\ lines \in Seq(LineRecord)
      /\ upset \in BOOLEAN /\ reply \in LineRecord
      /\ partial \in {"none", "prefix", "body"}
  BY DEF VzInv, Types, OutTypes, GuestTypes
<1>1. /\ UNCHANGED <<run, dpc, step, sent, polls, cmds, mainq, serial, guest, reply,
                     pieces, fleet, held, balloon>>
      /\ Emit("started", 0) \/ Emit("junk", 0)
  BY DEF EmitStarted, KernelLog, driverVars, subject, harnessVars, guestVars
<1>2. PICK l \in LineRecord :
        /\ lines' = Append(lines, l)
        /\ partial = "none" => l \in {Line("started", 0, 0), Line("junk", 0, 0)}
        /\ partial = "prefix" => l = Line("junk", 0, 0)
        /\ partial = "body" => l = [reply EXCEPT !.arg = Garbled]
  BY <1>0, <1>1, EmitAppends, LinesWritten
<1>3. partial' = "none" /\ (upset => upset') /\ (partial # "none" => upset')
  BY <1>0, <1>1 DEF Emit
<1>4. partial # "body" => l.tag \notin ReplyTags
  BY <1>0, <1>2 DEF Line, ReplyTags
<1>5. CASE partial = "none"
  <2>1. Live' <=> Live
    BY <1>1, <1>3, <1>5 DEF Live
  <2>2. QED
    BY <1>1, <1>2, <1>3, <1>4, <1>5, <2>1, PlaceKept
<1>6. CASE partial # "none"
  <2>1. Live /\ ~Live'
    BY <1>0, <1>1, <1>3, <1>6 DEF Pieces, Live
  <2>2. InGuest
    BY <2>1 DEF VzInv, OnePlace, Nowhere, InStdin, InQueue, InSerial, InLines
  <2>3. UnderWay' /\ Done'
    BY <1>1, <2>2, SameScript DEF InGuest, UnderWay, Done
  <2>4. CASE partial = "prefix"
    <3>1. NoReply(lines')
      BY <1>0, <1>2, <1>4, <2>2, <2>4, LinesGrow DEF InGuest
    <3>2. dpc' \in {"wait", "killed", "panicked"}
      BY <2>3 DEF UnderWay
    <3>3. Nowhere'
      BY <1>1, <1>3, <1>6, <2>1, <2>2, <3>1, <3>2 DEF Nowhere, InGuest
    <3>4. QED
      BY <3>3 DEF OnePlace
  <2>5. CASE partial = "body"
    <3>1. reply \in Answers
      BY <2>2 DEF InGuest
    <3>2. l.tag = reply.tag /\ l.id = reply.id /\ l.arg = Garbled
      BY <1>0, <1>2, <2>5 DEF LineRecord
    <3>3. l \in Answers'
      BY <1>1, <1>2, <1>3, <1>6, <3>1, <3>2, SameScript DEF Answers, Garbled
    <3>4. OneReply(lines', Answers')
      BY <1>0, <1>2, <2>2, <3>3, LinesGrow DEF InGuest
    <3>5. InLines'
      BY <1>1, <2>1, <2>2, <2>3, <3>4 DEF InGuest, InLines
    <3>6. QED
      BY <3>5 DEF OnePlace
  <2>6. QED
    BY <1>0, <1>6, <2>4, <2>5
<1>7. QED
  BY <1>5, <1>6

\* The stdin thread moves the command, or an end of the harness, on.
LEMMA ReadPlace ==
  ASSUME VzInv, ReadStdin
  PROVE  OnePlace'
<1>0. cmds \in Seq(CommandRecord) /\ mainq \in Seq(CommandRecord)
  BY DEF VzInv, Types, HarnessTypes
<1>1. UNCHANGED <<run, dpc, step, sent, polls, serial, guest, reply, pieces, partial,
                  lines, fleet, held, balloon, upset>>
  BY DEF ReadStdin, driverVars, subject, guestVars, outVars
<1>2. /\ Script' = Script /\ Token' = Token
      /\ Live' <=> Live
      /\ UnderWay' <=> UnderWay
      /\ NotYet => NotYet'
      /\ Done => Done'
      /\ Answers' = Answers
  BY <1>1, SameScript, SameToken DEF Live, UnderWay, NotYet, Done, Answers
<1>3. \/ /\ cmds # <<>>
         /\ mainq' = Append(mainq, Head(cmds)) /\ cmds' = Tail(cmds)
      \/ /\ cmds = <<>>
         /\ mainq' = Append(mainq, QuitCommand) /\ cmds' = cmds
  BY DEF ReadStdin, QuitCommand
<1>4. CASE Quits(cmds)
  <2>1. Quits(cmds') /\ mainq' = Append(mainq, QuitCommand)
    BY <1>0, <1>3, <1>4, QueueShrinks
  <2>2. Quits(mainq) => Quits(mainq')
    BY <1>0, <2>1, QueueGrows
  <2>3. CASE Nowhere
    <3>1. RowsMeasureGuest => RowsMeasureGuest'
      BY <1>1, <1>2 DEF RowsMeasureGuest
    <3>2. QED
      BY <1>1, <1>2, <2>1, <2>2, <2>3, <3>1 DEF Nowhere, OnePlace
  <2>4. CASE InQueue
    <3>1. Holds(mainq', Token')
      BY <1>0, <1>2, <2>1, <2>4, QueueGrows DEF InQueue
    <3>2. QED
      BY <1>1, <1>2, <2>1, <2>4, <3>1 DEF InQueue, OnePlace
  <2>5. CASE InSerial \/ InGuest \/ InLines
    BY <1>1, <1>2, <2>1, <2>2, <2>5 DEF InSerial, InGuest, InLines, OnePlace
  <2>6. ~InStdin
    <3>0. Holds(cmds, Token) => cmds # <<>>
      BY HoldsSomething
    <3>1. Holds(cmds, Token) => Head(cmds) = Token
      BY <1>0, <3>0, QueueShrinks
    <3>2. cmds # <<>> => Head(cmds) = QuitCommand
      BY <1>0, <1>4, QueueShrinks
    <3>3. UnderWay => Token.cmd # QuitCommand.cmd
      BY UnderWayStep DEF QuitCommand
    <3>4. QED
      BY <3>0, <3>1, <3>2, <3>3 DEF InStdin
  <2>7. QED
    BY <2>3, <2>4, <2>5, <2>6 DEF VzInv, OnePlace
<1>5. CASE InStdin
  <2>1. cmds # <<>>
    BY <1>5, HoldsSomething DEF InStdin
  <2>2. Head(cmds) = Token /\ Quits(Tail(cmds))
    BY <1>0, <1>5, <2>1, QueueShrinks DEF InStdin
  <2>3. Holds(mainq', Token') /\ Quits(cmds')
    BY <1>0, <1>2, <1>3, <1>5, <2>1, <2>2, QueueGrows DEF InStdin
  <2>4. InQueue'
    BY <1>1, <1>2, <1>5, <2>3 DEF InStdin, InQueue
  <2>5. QED
    BY <2>4 DEF OnePlace
<1>6. QED
  BY <1>4, <1>5 DEF VzInv, OnePlace, Nowhere, InQueue, InSerial, InGuest, InLines

\* The main queue of the harness forwards the command or answers it.
LEMMA HandlePlace ==
  ASSUME VzInv, Handle
  PROVE  OnePlace'
<1>0. /\ Types /\ Pieces /\ lines \in Seq(LineRecord)
      /\ mainq \in Seq(CommandRecord) /\ mainq # <<>>
      /\ mainq' = Tail(mainq)
  BY DEF VzInv, Types, OutTypes, HarnessTypes, Handle
<1>1. /\ UNCHANGED <<run, dpc, step, sent, polls, cmds, guest, reply, pieces, fleet,
                     held>>
  BY DEF Handle, driverVars, subject
<1>2. /\ Script' = Script /\ Token' = Token
      /\ UnderWay' <=> UnderWay
      /\ NotYet => NotYet'
      /\ Done => Done'
  BY <1>1, SameScript, SameToken DEF UnderWay, NotYet, Done
<1>3. CASE Quits(mainq)
  <2>1. Head(mainq) = QuitCommand /\ Quits(mainq')
    BY <1>0, <1>3, QueueShrinks
  <2>2. UNCHANGED <<serial, balloon, partial, lines, upset>>
    BY <2>1 DEF Handle, QuitCommand
  <2>3. (Live' <=> Live) /\ Answers' = Answers
    BY <1>1, <1>2, <2>2 DEF Live, Answers
  <2>4. CASE Nowhere
    <3>1. RowsMeasureGuest => RowsMeasureGuest'
      BY <1>1, <1>2, <2>2 DEF RowsMeasureGuest
    <3>2. QED
      BY <1>1, <1>2, <2>1, <2>2, <2>3, <2>4, <3>1 DEF Nowhere, OnePlace
  <2>5. CASE InSerial \/ InGuest \/ InLines
    BY <1>1, <1>2, <2>1, <2>2, <2>3, <2>5 DEF InSerial, InGuest, InLines, OnePlace
  <2>6. ~InStdin
    BY <1>0 DEF InStdin
  <2>7. ~InQueue
    <3>1. InQueue => Head(mainq) = Token
      BY <1>0, QueueShrinks DEF InQueue
    <3>2. UnderWay => Token.cmd # QuitCommand.cmd
      BY UnderWayStep DEF QuitCommand
    <3>3. QED
      BY <2>1, <3>1, <3>2 DEF InQueue
  <2>8. QED
    BY <2>4, <2>5, <2>6, <2>7 DEF VzInv, OnePlace
<1>4. CASE InQueue
  <2>1. Head(mainq) = Token /\ Quits(mainq')
    BY <1>0, <1>4, QueueShrinks DEF InQueue
  <2>2. /\ ScriptSays(step) /\ step \in Nat /\ sent \in Nat
        /\ Token.cmd = Script[step].cmd /\ Token.id = sent
        /\ Token.cmd \in Commands /\ Token.cmd # "quit"
    BY <1>4, UnderWayStep DEF InQueue
  <2>3. CASE Token.cmd = "balloon"
    <3>1. UNCHANGED serial /\ Emit("balloon-target", sent)
      BY <2>1, <2>2, <2>3 DEF Handle
    <3>2. partial = "none"
      BY <1>0, <1>4 DEF InQueue, Live, Pieces, Types, OutTypes
    <3>3. lines' = Append(lines, Line("balloon-target", sent, 0))
      BY <1>0, <2>2, <3>1, <3>2, EmitAppends, LinesWritten
    <3>4. Script[step].want = "balloon-target"
      BY <2>2, <2>3 DEF ScriptSays
    <3>5. Line("balloon-target", sent, 0) \in Answers'
      <4>1. Line("balloon-target", sent, 0) \in LineRecord
        BY <2>2, LinesWritten
      <4>2. QED
        BY <1>1, <1>2, <3>4, <4>1 DEF Answers, Line
    <3>6. OneReply(lines', Answers')
      BY <1>0, <1>4, <2>2, <3>3, <3>5, LinesGrow, LinesWritten DEF InQueue
    <3>7. Done'
      <4>1. /\ run = "fleet" => step = 2 * Services + 1
            /\ run = "touch" => step = 4
        BY <2>2, <2>3 DEF ScriptSays
      <4>2. run = "fleet" => Running(step) = Running(step - 1)
        BY <4>1, VzAssumption DEF Running
      <4>3. QED
        BY <1>1, <1>4, <4>1, <4>2 DEF InQueue, NotYet, Done
    <3>8. ~Live'
      BY <1>0, <1>1, <1>4, <3>1, <3>2 DEF InQueue, Live, Emit
    <3>9. InLines'
      BY <1>1, <1>2, <1>4, <2>1, <3>1, <3>6, <3>7, <3>8 DEF InQueue, InLines
    <3>10. QED
      BY <3>9 DEF OnePlace
  <2>4. CASE Token.cmd # "balloon"
    <3>1. serial' = Append(serial, Token) /\ UNCHANGED <<partial, lines>>
      BY <2>1, <2>2, <2>4 DEF Handle
    <3>2. serial' = <<Token'>>
      BY <1>2, <1>4, <3>1, ShortQueues DEF InQueue
    <3>3. Live' <=> Live
      BY <1>1, <3>1 DEF Live
    <3>4. InSerial'
      BY <1>1, <1>2, <1>4, <2>1, <2>4, <3>1, <3>2, <3>3 DEF InQueue, InSerial
    <3>5. QED
      BY <3>4 DEF OnePlace
  <2>5. QED
    BY <2>3, <2>4
<1>5. ~InStdin
  BY <1>0 DEF InStdin
<1>6. QED
  BY <1>3, <1>4, <1>5 DEF VzInv, OnePlace, Nowhere, InSerial, InGuest, InLines

\* The guest takes the command: it has a reply to write, or the command is
\* lost with PID 1.
LEMMA CommandPlace ==
  ASSUME VzInv, GuestCommand
  PROVE  OnePlace'
<1>0. InSerial /\ UnderWay /\ Pieces
  BY GuestReadsToken DEF VzInv, GuestCommand, InSerial
<1>1. /\ UNCHANGED <<run, dpc, step, sent, cmds, mainq, pieces, partial, lines>>
      /\ guest = "idle"
      /\ serial' = <<>>
  BY GuestReadsToken DEF GuestCommand, driverVars, subject, harnessVars
<1>2. UnderWay'
  BY <1>0, <1>1, SameScript DEF UnderWay
<1>3. CASE Executed
  <2>1. Live'
    BY <1>0, <1>1, <1>3 DEF Executed, Live, Pieces
  <2>2. InGuest'
    BY <1>0, <1>1, <1>2, <1>3, <2>1 DEF InSerial, InGuest, Executed
  <2>3. QED
    BY <2>2 DEF OnePlace
<1>4. CASE Died
  <2>1. ~Live' /\ dpc' \in {"wait", "killed", "panicked"}
    BY <1>2, <1>4 DEF Died, Live, UnderWay
  <2>2. Nowhere'
    BY <1>0, <1>1, <1>4, <2>1 DEF InSerial, Nowhere, Died
  <2>3. QED
    BY <2>2 DEF OnePlace
<1>5. QED
  BY <1>3, <1>4, GuestExecutes

\* The guest writes its reply, piece by piece: what has lost a piece to a
\* log line ends as a line nobody waits for.
LEMMA ReplyPlace ==
  ASSUME VzInv, ReplyPiece \/ ReplyEnd
  PROVE  OnePlace'
<1>0. /\ Pieces /\ lines \in Seq(LineRecord) /\ reply \in LineRecord
      /\ pieces \in 0..2 /\ partial \in {"none", "prefix", "body"}
  BY DEF VzInv, Types, OutTypes, GuestTypes
<1>1. /\ UNCHANGED <<run, dpc, step, sent, polls, cmds, mainq, serial, reply, fleet,
                     held, balloon, upset>>
      /\ guest = "busy"
  BY DEF ReplyPiece, ReplyEnd, driverVars, subject, harnessVars
<1>2. CASE ReplyPiece
  <2>1. /\ UNCHANGED <<guest, lines>> /\ pieces' = pieces + 1
        /\ pieces \in {0, 1}
        /\ partial' = CASE pieces = 0 -> "prefix"
                       [] pieces = 1 /\ partial = "prefix" -> "body"
                       [] OTHER -> "none"
    BY <1>0, <1>2 DEF ReplyPiece
  <2>2. CASE pieces = 0
    BY <1>1, <2>1, <2>2, PlaceKept DEF Live
  <2>3. CASE pieces = 1
    <3>1. pieces' = 2 /\ partial' = IF partial = "prefix" THEN "body" ELSE "none"
      BY <2>1, <2>3
    <3>2. Live' <=> Live
      BY <1>1, <2>1, <2>3, <3>1 DEF Live
    <3>3. QED
      BY <1>1, <2>1, <3>2, PlaceKept
  <2>4. QED
    BY <2>1, <2>2, <2>3
<1>3. CASE ReplyEnd
  <2>1. /\ guest' = "idle" /\ pieces = 2
        /\ lines' = Append(lines,
                      IF partial = "body" THEN reply ELSE Line("junk", 0, 0))
    BY <1>3 DEF ReplyEnd
  <2>2. ~Live'
    BY <2>1 DEF Live
  <2>3. CASE partial = "body"
    <3>1. Live
      BY <1>1, <2>1, <2>3 DEF Live
    <3>2. InGuest
      BY <3>1 DEF VzInv, OnePlace, Nowhere, InStdin, InQueue, InSerial, InLines
    <3>3. UnderWay' /\ Done'
      BY <1>1, <3>2, SameScript DEF InGuest, UnderWay, Done
    <3>4. reply \in Answers'
      BY <1>1, <3>2, AnswersGrow DEF InGuest
    <3>5. OneReply(lines', Answers')
      BY <1>0, <2>1, <2>3, <3>2, <3>4, LinesGrow DEF InGuest
    <3>6. InLines'
      BY <1>1, <2>2, <3>2, <3>3, <3>5 DEF InGuest, InLines
    <3>7. QED
      BY <3>6 DEF OnePlace
  <2>4. CASE partial # "body"
    <3>1. ~Live
      BY <2>1, <2>4 DEF Live
    <3>2. Line("junk", 0, 0) \in LineRecord /\ Line("junk", 0, 0).tag \notin ReplyTags
      BY LinesWritten DEF Line, ReplyTags
    <3>3. lines' = Append(lines, Line("junk", 0, 0))
      BY <2>1, <2>4
    <3>4. QED
      BY <1>1, <2>2, <3>1, <3>2, <3>3, PlaceKept
  <2>5. QED
    BY <2>3, <2>4
<1>4. QED
  BY <1>2, <1>3

\* Every step leaves the command in one place, or loses it for a reason.
LEMMA OnePlaceStep ==
  ASSUME VzInv, [VzNext]_vzVars
  PROVE  OnePlace'
<1>1. CASE Driver
  BY <1>1, DriverSteps, SendsPlace, MatchPlace, SkipPlace, BetweenPlace, OthersPlace
<1>2. CASE \/ DriverKilled \/ OtherVm \/ Sample \/ HarnessCrashed \/ StartFailed
           \/ Boot \/ BootFails \/ Inflate \/ UNCHANGED vzVars
  BY <1>2, OthersPlace
<1>3. CASE EmitStarted \/ KernelLog
  BY <1>3, EmitPlace
<1>4. CASE ReadStdin \/ Handle
  BY <1>4, ReadPlace, HandlePlace
<1>5. CASE GuestCommand \/ ReplyPiece \/ ReplyEnd
  BY <1>5, CommandPlace, ReplyPlace
<1>6. QED
  BY <1>1, <1>2, <1>3, <1>4, <1>5 DEF VzNext, HarnessStep, GuestStep

-----------------------------------------------------------------------------
(* The theorems. *)

\* The driver has spawned the harness and waits for its first line.
LEMMA VzInitially == VzInit => VzInv
<1> SUFFICES ASSUME VzInit PROVE VzInv
  OBVIOUS
<1>1. Len(Script) \in Nat /\ Len(Script) >= 1
  BY ScriptSteps DEF VzInit
<1>a. low \in BOOLEAN /\ others \in BOOLEAN /\ started \in BOOLEAN /\ eof \in BOOLEAN
  BY Zenon DEF VzInit
<1>b. held \in BOOLEAN /\ upset \in BOOLEAN
  BY Zenon DEF VzInit
<1>2. DriverTypes
  <2>1. step \in Nat /\ 1 <= step /\ step <= Len(Script) + 1
    BY <1>1 DEF VzInit
  <2>2. sent \in Nat /\ polls \in Nat /\ polls <= MaxPolls
    BY VzAssumption DEF VzInit
  <2>3. QED
    BY <1>a, <2>1, <2>2, Zenon DEF VzInit, DriverTypes
<1>3. HarnessTypes
  <2>1. <<>> \in Seq(CommandRecord)
    OBVIOUS
  <2>2. QED
    BY <1>a, <2>1, Zenon DEF VzInit, HarnessTypes
<1>4. GuestTypes
  <2>1. reply \in LineRecord
    BY DEF VzInit, Line, LineRecord
  <2>2. <<>> \in Seq(CommandRecord)
    OBVIOUS
  <2>3. pieces \in 0..2
    BY DEF VzInit
  <2>4. QED
    BY <1>b, <2>1, <2>2, <2>3, Zenon DEF VzInit, GuestTypes
<1>5. OutTypes /\ FleetType
  <2>1. <<>> \in Seq(LineRecord)
    OBVIOUS
  <2>2. noise \in 0..MaxNoise /\ fleet \in 0..Services
    BY VzAssumption DEF VzInit
  <2>3. QED
    BY <1>b, <2>1, <2>2, Zenon DEF VzInit, OutTypes, FleetType
<1>6. Place
  BY <1>1, VzAssumption DEF VzInit, Place, Starting, Over
<1>7. Helpers /\ Pieces
  BY DEF VzInit, Helpers, Pieces
<1>8. Lives
  BY <1>3, QueueGrows DEF VzInit, HarnessTypes, Lives, NoVmLeft, NoLostReply, Leaving
<1>9. Booting
  BY DEF VzInit, Booting
<1>10. Nowhere
  <2>1. Quits(cmds) /\ Quits(mainq)
    <3>1. cmds = <<>> /\ mainq = <<>>
      BY DEF VzInit
    <3>2. QED
      BY <1>3, <3>1, QueueGrows DEF HarnessTypes
  <2>2. NoReply(lines)
    <3>1. NoReply(<<>>)
      BY ReplyIsThere
    <3>2. QED
      BY <3>1 DEF VzInit
  <2>3. NotYet
    BY VzAssumption DEF VzInit, NotYet, Running
  <2>4. RowsMeasureGuest
    BY DEF VzInit, RowsMeasureGuest
  <2>5. QED
    BY <2>1, <2>2, <2>3, <2>4 DEF VzInit, Nowhere, Live
<1>11. QED
  BY <1>2, <1>3, <1>4, <1>5, <1>6, <1>7, <1>8, <1>9, <1>10 DEF VzInv, Types, OnePlace

\* For any number of services, any deadline of the polling and whatever goes
\* wrong, the command of the driver, or its reply, is in one place of the
\* pipeline or has been lost for a reason outside the protocol, and what the
\* guest has done is what that place says.
THEOREM VzInvariant == VzSpec => []VzInv
<1>1. VzInit => VzInv
  BY VzInitially
<1>2. VzInv /\ [VzNext]_vzVars => VzInv'
  <2> SUFFICES ASSUME VzInv, [VzNext]_vzVars PROVE VzInv'
    OBVIOUS
  <2>1. Types' /\ Pieces'
    BY DriverStep, HarnessTypesStep, GuestTypesStep, OutTypesStep DEF Types
  <2>2. Place' /\ Helpers' /\ Lives' /\ Booting' /\ OnePlace'
    BY DriverStep, HelpersStep, LivesStep, BootingStep, OnePlaceStep
  <2>3. QED
    BY <2>1, <2>2 DEF VzInv
<1>3. QED
  BY <1>1, <1>2, PTL DEF VzSpec

\* Every variable keeps its type: the driver sends at most one command for
\* every step of its script and every reading of MemAvailable, and the guest
\* has never more children than --services.
THEOREM VzTypesHold == VzSpec => []VzTypeOK
<1>1. VzInv => VzTypeOK
  <2> SUFFICES ASSUME VzInv PROVE VzTypeOK
    OBVIOUS
  <2>0. /\ DriverTypes /\ HarnessTypes /\ GuestTypes /\ OutTypes /\ FleetType /\ Place
    BY DEF VzInv, Types
  <2>1. Len(Script) \in Nat
    BY <2>0, ScriptSteps DEF DriverTypes
  <2>2. step \in 1..Len(Script) + 1 /\ polls \in 0..MaxPolls
    BY <2>0, <2>1, VzAssumption DEF DriverTypes
  <2>3. sent \in 0..Len(Script) + MaxPolls
    <3>1. CASE step <= Len(Script)
      BY <2>0, <2>1, <3>1, VzAssumption DEF DriverTypes, Place
    <3>2. CASE step > Len(Script)
      BY <2>0, <2>1, <3>2, VzAssumption DEF DriverTypes, Place
    <3>3. QED
      BY <2>0, <2>1, <3>1, <3>2 DEF DriverTypes
  <2>4. {others, started, eof, held, upset} \subseteq BOOLEAN
    BY <2>0 DEF DriverTypes, HarnessTypes, GuestTypes, OutTypes
  <2>5. QED
    BY <2>0, <2>2, <2>3, <2>4
    DEF VzTypeOK, DriverTypes, HarnessTypes, GuestTypes, OutTypes, FleetType
<1>2. QED
  BY <1>1, VzInvariant, PTL

\* The line that a wait accepts answers the command just sent: the prefixes
\* repeat and Harness::wait looks at nothing else, but at most one reply is
\* ever unread, and it is of this step.
THEOREM RepliesNeverCross == VzSpec => []RepliesMatch
<1>1. VzInv => RepliesMatch
  <2> SUFFICES ASSUME VzInv, dpc = "wait", lines # <<>>, Head(lines).tag = Want
               PROVE  Head(lines).id = sent
    BY DEF RepliesMatch
  <2>1. lines \in Seq(LineRecord)
    BY DEF VzInv, Types, OutTypes
  <2>2. UnderWay
    BY DEF VzInv, Place, UnderWay
  <2>3. Head(lines).tag \in ReplyTags
    BY <2>2, UnderWayStep DEF Want, ScriptSays
  <2>4. ~NoReply(lines)
    BY <2>1, <2>3, LinesShrink
  <2>5. OneReply(lines, Answers)
    BY <2>4 DEF VzInv, OnePlace, Nowhere, InStdin, InQueue, InSerial, InGuest, InLines
  <2>6. Head(lines) \in Answers
    BY <2>1, <2>3, <2>5, LinesShrink
  <2>7. QED
    BY <2>6 DEF Answers
<1>2. QED
  BY <1>1, VzInvariant, PTL

\* fleet-stop-one never reaches a guest without services: when the guest
\* reads a command, it has done all the steps before it and not this one.
THEOREM StopsFindServices == VzSpec => []StopFindsService
<1>1. VzInv => StopFindsService
  <2> SUFFICES ASSUME VzInv, serial # <<>>, Head(serial).cmd = "fleet-stop-one"
               PROVE  fleet > 0
    BY DEF StopFindsService
  <2>1. InSerial /\ Token.cmd = "fleet-stop-one"
    BY GuestReadsToken
  <2>2. /\ run = "fleet" /\ step \in Nat
        /\ step > Services /\ step <= 2 * Services
    BY <2>1, UnderWayStep DEF InSerial, ScriptSays
  <2>3. fleet = Running(step - 1)
    BY <2>1, <2>2 DEF InSerial, NotYet
  <2>4. QED
    BY <2>2, <2>3, VzAssumption DEF Running
<1>2. QED
  BY <1>1, VzInvariant, PTL

\* The rows of a run are taken when the guest is in the state they report.
THEOREM RowsAreOfTheGuest == VzSpec => []RowsMeasureGuest
<1>1. VzInv => RowsMeasureGuest
  <2>1. VzInv /\ dpc \notin {"wait", "killed", "panicked"} => RowsMeasureGuest
    BY Between
  <2>2. dpc \in {"wait", "killed", "panicked"} => RowsMeasureGuest
    BY DEF RowsMeasureGuest
  <2>3. QED
    BY <2>1, <2>2
<1>2. QED
  BY <1>1, VzInvariant, PTL

\* No driver that ended or panicked leaves its VM behind.
THEOREM VmGoesWithDriver == VzSpec => []NoVmLeft
BY VzInvariant, PTL DEF VzInv, Lives

\* Unless something outside the protocol goes wrong, no wait times out, no
\* reply fails to parse and no sample misses its helper.
THEOREM NoReplyIsLost == VzSpec => []NoLostReply
BY VzInvariant, PTL DEF VzInv, Lives

=============================================================================
