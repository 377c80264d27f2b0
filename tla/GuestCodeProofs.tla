--------------------------- MODULE GuestCodeProofs ---------------------------
(***************************************************************************)
(* Proofs for the guest programs: instruction by instruction they          *)
(* implement the page walks, for every amount of guest RAM, every sequence *)
(* of calls, every range of at least a page and every way the runs are     *)
(* canceled; and no instruction ever exits at anything but the doorbell.   *)
(***************************************************************************)
EXTENDS GuestCode, TLAPS

-----------------------------------------------------------------------------
(* The inductive invariant. *)

Short == {"touch", "read", "fill"}
Hammers == {"sweep", "hammer"}

\* x1 is at a page of the range; it has gone past one.
Here == Base + call.start <= reg.x1 /\ reg.x1 < Base + call.end
Past == Base + call.start < reg.x1 /\ reg.x1 <= Base + call.end
AtEnd == reg.x1 = Base + call.end
Compared == flags.lo <=> reg.x1 < reg.x2
Found == mem[reg.x1 - Base]

\* What the registers hold at each instruction of a program.
InShort ==
  \/ At_(0) /\ Here
  \/ At_(1) /\ Here
  \/ At_(2) /\ Past
  \/ At_(3) /\ Past /\ Compared
  \/ At_(4) /\ AtEnd

InHammer ==
  \/ At_(0)
  \/ At_(1) /\ Here
  \/ At_(2) /\ Here /\ reg.x5 = Found
  \/ At_(3) /\ Here /\ reg.x5 = Found + 1
  \/ At_(4) /\ Here
  \/ At_(5) /\ Past
  \/ At_(6) /\ Past /\ Compared
  \/ At_(7) /\ AtEnd
  \/ At_(8) /\ AtEnd
  \/ At_(9) /\ call.fn = "hammer"

InVerify ==
  \/ At_(0) /\ Here
  \/ At_(1) /\ Here /\ reg.x6 = Found
  \/ At_(2) /\ Here /\ reg.x6 = Found /\ (flags.eq <=> reg.x6 = reg.x5)
  \/ At_(3) /\ Here /\ reg.x6 = Found /\ reg.x6 # reg.x5
  \/ At_(4) /\ Here
  \/ At_(5) /\ Past
  \/ At_(6) /\ Past /\ Compared
  \/ At_(7) /\ AtEnd

AtBell ==
  \/ call.fn \in Short /\ At_(4)
  \/ call.fn \in Hammers /\ At_(8)
  \/ call.fn = "verify" /\ At_(7)

GuestTypes ==
  /\ mem \in [Page -> Nat]
  /\ reg \in [Register -> Nat]
  /\ host \in {"idle", "running", "returned"}
  /\ exit \in {"none", "canceled", "doorbell"}

InCall ==
  /\ call \in Walk!Requests /\ call.start < call.end
  /\ reg.x2 = Base + call.end
  /\ reg.x3 = Doorbell
  /\ call.fn \in Short => InShort
  /\ call.fn \in Hammers => InHammer /\ reg.x6 = Base + call.start
  /\ call.fn = "verify" => InVerify
  /\ call.fn \in {"fill", "verify"} => reg.x5 = call.value
  /\ exit = "doorbell" => AtBell
  /\ host = "returned" => exit = "doorbell"

GuestInv ==
  /\ GuestTypes
  /\ host = "idle" => call = Walk!NoRequest
  /\ host # "idle" => InCall

-----------------------------------------------------------------------------
(* The code page. *)

\* What the code page holds where a program begins.
LEMMA CodePage ==
  /\ \A i \in 0..6 : write_code_page[TOUCH_OFF + i] = TOUCH_CODE[i + 1]
  /\ \A i \in 0..9 : write_code_page[HAMMER_OFF + i] = HAMMER_CODE[i + 1]
  /\ \A i \in 0..6 : write_code_page[READ_OFF + i] = READ_CODE[i + 1]
  /\ \A i \in 0..9 : write_code_page[VERIFY_OFF + i] = VERIFY_CODE[i + 1]
  /\ \A i \in 0..6 : write_code_page[FILL_OFF + i] = FILL_CODE[i + 1]
<1>1. /\ Len(TOUCH_CODE) = 7 /\ Len(HAMMER_CODE) = 10 /\ Len(READ_CODE) = 7
      /\ Len(VERIFY_CODE) = 10 /\ Len(FILL_CODE) = 7
  BY DEF TOUCH_CODE, HAMMER_CODE, READ_CODE, VERIFY_CODE, FILL_CODE
<1> DEFINE touch == Place(<<>>, TOUCH_OFF, TOUCH_CODE)
           hammer == Place(touch, HAMMER_OFF, HAMMER_CODE)
           read == Place(hammer, READ_OFF, READ_CODE)
           verify == Place(read, VERIFY_OFF, VERIFY_CODE)
<1>2. \A w \in 0..6 : w \in DOMAIN touch /\ touch[w] = TOUCH_CODE[w + 1]
  BY <1>1 DEF Place, TOUCH_OFF
<1> HIDE DEF touch
<1>3. /\ \A w \in 0..6 : w \in DOMAIN hammer /\ hammer[w] = TOUCH_CODE[w + 1]
      /\ \A w \in 32..41 : w \in DOMAIN hammer /\ hammer[w] = HAMMER_CODE[w - 31]
  BY <1>1, <1>2 DEF Place, HAMMER_OFF
<1> HIDE DEF hammer
<1>4. /\ \A w \in 0..6 : w \in DOMAIN read /\ read[w] = TOUCH_CODE[w + 1]
      /\ \A w \in 32..41 : w \in DOMAIN read /\ read[w] = HAMMER_CODE[w - 31]
      /\ \A w \in 64..70 : w \in DOMAIN read /\ read[w] = READ_CODE[w - 63]
  BY <1>1, <1>3 DEF Place, READ_OFF
<1> HIDE DEF read
<1>5. /\ \A w \in 0..6 : w \in DOMAIN verify /\ verify[w] = TOUCH_CODE[w + 1]
      /\ \A w \in 32..41 : w \in DOMAIN verify /\ verify[w] = HAMMER_CODE[w - 31]
      /\ \A w \in 64..70 : w \in DOMAIN verify /\ verify[w] = READ_CODE[w - 63]
      /\ \A w \in 96..105 : w \in DOMAIN verify /\ verify[w] = VERIFY_CODE[w - 95]
  BY <1>1, <1>4 DEF Place, VERIFY_OFF
<1> HIDE DEF verify
<1>6. write_code_page = Place(verify, FILL_OFF, FILL_CODE)
  BY DEF write_code_page, verify, read, hammer, touch
<1>7. /\ \A w \in 0..6 : write_code_page[w] = TOUCH_CODE[w + 1]
      /\ \A w \in 32..41 : write_code_page[w] = HAMMER_CODE[w - 31]
      /\ \A w \in 64..70 : write_code_page[w] = READ_CODE[w - 63]
      /\ \A w \in 96..105 : write_code_page[w] = VERIFY_CODE[w - 95]
      /\ \A w \in 128..134 : write_code_page[w] = FILL_CODE[w - 127]
  BY <1>1, <1>5, <1>6 DEF Place, FILL_OFF
<1>8. /\ \A i \in 0..6 : write_code_page[0 + i] = TOUCH_CODE[i + 1]
      /\ \A i \in 0..9 : write_code_page[32 + i] = HAMMER_CODE[i + 1]
      /\ \A i \in 0..6 : write_code_page[64 + i] = READ_CODE[i + 1]
      /\ \A i \in 0..9 : write_code_page[96 + i] = VERIFY_CODE[i + 1]
      /\ \A i \in 0..6 : write_code_page[128 + i] = FILL_CODE[i + 1]
  <2>1. \A i \in 0..6 : 0 + i \in 0..6 /\ 64 + i \in 64..70 /\ 128 + i \in 128..134
                        /\ (0 + i) + 1 = i + 1 /\ (64 + i) - 63 = i + 1
                        /\ (128 + i) - 127 = i + 1
    OBVIOUS
  <2>2. \A i \in 0..9 : 32 + i \in 32..41 /\ 96 + i \in 96..105
                        /\ (32 + i) - 31 = i + 1 /\ (96 + i) - 95 = i + 1
    OBVIOUS
  <2>3. QED
    BY <1>7, <2>1, <2>2
<1>9. QED
  BY <1>8 DEF TOUCH_OFF, HAMMER_OFF, READ_OFF, VERIFY_OFF, FILL_OFF

\* The three programs that only visit: they differ in the access.
LEMMA ShortCode ==
  ASSUME NEW fn \in Short, NEW e, e = Entry(fn)
  PROVE  /\ e \in Nat
         /\ fn = "touch" => write_code_page[e] = Str("x1", "x1")
         /\ fn = "read" => write_code_page[e] = Ldr("x5", "x1")
         /\ fn = "fill" => write_code_page[e] = Str("x5", "x1")
         /\ write_code_page[e + 1] = NextPage
         /\ write_code_page[e + 2] = Cmp("x1", "x2")
         /\ write_code_page[e + 3] = Blo(-3)
         /\ write_code_page[e + 4] = Str("xzr", "x3")
<1>1. CASE fn = "touch"
  <2>1. e = 0 /\ TOUCH_OFF = 0
    BY <1>1 DEF Entry, TOUCH_OFF
  <2>2. \A i \in 0..6 : write_code_page[e + i] = TOUCH_CODE[i + 1]
    BY <2>1, CodePage
  <2>3. QED
    BY <1>1, <2>1, <2>2 DEF TOUCH_CODE
<1>2. CASE fn = "read"
  <2>1. e = 64 /\ READ_OFF = 64
    BY <1>2 DEF Entry, READ_OFF
  <2>2. \A i \in 0..6 : write_code_page[e + i] = READ_CODE[i + 1]
    BY <2>1, CodePage
  <2>3. QED
    BY <1>2, <2>1, <2>2 DEF READ_CODE
<1>3. CASE fn = "fill"
  <2>1. e = 128 /\ FILL_OFF = 128
    BY <1>3 DEF Entry, FILL_OFF
  <2>2. \A i \in 0..6 : write_code_page[e + i] = FILL_CODE[i + 1]
    BY <2>1, CodePage
  <2>3. QED
    BY <1>3, <2>1, <2>2 DEF FILL_CODE
<1>4. QED
  BY <1>1, <1>2, <1>3 DEF Short

\* The sweep.
LEMMA HammerCode ==
  ASSUME NEW fn \in Hammers, NEW e, e = Entry(fn)
  PROVE  /\ e \in Nat
         /\ write_code_page[e] = Mov("x1", "x6")
         /\ write_code_page[e + 1] = Ldr("x5", "x1")
         /\ write_code_page[e + 2] = Add("x5", 1)
         /\ write_code_page[e + 3] = Str("x5", "x1")
         /\ write_code_page[e + 4] = NextPage
         /\ write_code_page[e + 5] = Cmp("x1", "x2")
         /\ write_code_page[e + 6] = Blo(-5)
         /\ write_code_page[e + 7] = Add("x4", 1)
         /\ write_code_page[e + 8] = Str("x4", "x3")
         /\ write_code_page[e + 9] = B(-9)
<1>1. e = 32 /\ HAMMER_OFF = 32
  BY DEF Entry, HAMMER_OFF, Hammers
<1>2. \A i \in 0..9 : write_code_page[e + i] = HAMMER_CODE[i + 1]
  BY <1>1, CodePage
<1>3. QED
  BY <1>1, <1>2 DEF HAMMER_CODE

\* The verify.
LEMMA VerifyCode ==
  ASSUME NEW e, e = Entry("verify")
  PROVE  /\ e \in Nat
         /\ write_code_page[e] = Ldr("x6", "x1")
         /\ write_code_page[e + 1] = Cmp("x6", "x5")
         /\ write_code_page[e + 2] = Beq(2)
         /\ write_code_page[e + 3] = Add("x4", 1)
         /\ write_code_page[e + 4] = NextPage
         /\ write_code_page[e + 5] = Cmp("x1", "x2")
         /\ write_code_page[e + 6] = Blo(-6)
         /\ write_code_page[e + 7] = Str("x4", "x3")
<1>1. e = 96 /\ VERIFY_OFF = 96
  BY DEF Entry, VERIFY_OFF
<1>2. \A i \in 0..9 : write_code_page[e + i] = VERIFY_CODE[i + 1]
  BY <1>1, CodePage
<1>3. QED
  BY <1>1, <1>2 DEF VERIFY_CODE

-----------------------------------------------------------------------------
(* What an instruction does. *)

\* The state around an instruction that does not exit.
Runs == host = "running" /\ exit = "none" /\ UNCHANGED <<exit, host, call, calls, old>>

\* The instruction is the one at pc.
LEMMA DoAdd ==
  ASSUME NEW d, NEW i, Exec, write_code_page[pc] = Add(d, i)
  PROVE  Runs /\ reg' = [reg EXCEPT ![d] = @ + i] /\ pc' = pc + 1 /\ UNCHANGED <<mem, flags>>
<1>1. I.op = "add" /\ I.a = d /\ I.k = i
  BY DEF I, Add, Insn
<1>2. ExecAdd
  BY <1>1 DEF I, Exec, ExecStr, ExecLdr, ExecMov, ExecCmp, ExecBranch, Fetch
<1>3. QED
  BY <1>1, <1>2 DEF ExecAdd, Fetch, Done, callVars, Runs

\* A move.
LEMMA DoMov ==
  ASSUME NEW d, NEW n, n # "xzr", Exec, write_code_page[pc] = Mov(d, n)
  PROVE  Runs /\ reg' = [reg EXCEPT ![d] = reg[n]] /\ pc' = pc + 1 /\ UNCHANGED <<mem, flags>>
<1>1. I.op = "mov" /\ I.a = d /\ I.b = n
  BY DEF I, Mov, Insn
<1>2. ExecMov
  BY <1>1 DEF I, Exec, ExecStr, ExecLdr, ExecAdd, ExecCmp, ExecBranch, Fetch
<1>3. QED
  BY <1>1, <1>2 DEF ExecMov, Fetch, Done, callVars, Runs, Reg

\* A comparison.
LEMMA DoCmp ==
  ASSUME NEW n, NEW m, n # "xzr", m # "xzr", Exec, write_code_page[pc] = Cmp(n, m)
  PROVE  /\ Runs /\ pc' = pc + 1 /\ UNCHANGED <<mem, reg>>
         /\ flags'.lo <=> reg[n] < reg[m]
         /\ flags'.eq <=> reg[n] = reg[m]
<1>1. I.op = "cmp" /\ I.a = n /\ I.b = m
  BY DEF I, Cmp, Insn
<1>2. ExecCmp
  BY <1>1 DEF I, Exec, ExecStr, ExecLdr, ExecAdd, ExecMov, ExecBranch, Fetch
<1>3. /\ Runs /\ pc' = pc + 1 /\ UNCHANGED <<mem, reg>>
      /\ flags' = [lo |-> reg[n] < reg[m], eq |-> reg[n] = reg[m]]
  BY <1>1, <1>2 DEF ExecCmp, Fetch, Done, callVars, Runs, Reg
<1>4. (flags'.lo <=> reg[n] < reg[m]) /\ (flags'.eq <=> reg[n] = reg[m])
  BY <1>3, Zenon
<1>5. QED
  BY <1>3, <1>4

\* The branches.
LEMMA DoBlo ==
  ASSUME NEW i, Exec, write_code_page[pc] = Blo(i)
  PROVE  Runs /\ pc' = pc + (IF flags.lo THEN i ELSE 1) /\ UNCHANGED <<mem, reg, flags>>
<1>1. I.op = "b.lo" /\ I.k = i
  BY DEF I, Blo, Insn
<1>2. ExecBranch
  BY <1>1 DEF I, Exec, ExecStr, ExecLdr, ExecAdd, ExecMov, ExecCmp, Fetch
<1>3. QED
  BY <1>1, <1>2 DEF I, ExecBranch, Fetch, Done, callVars, Runs

\* Branch if equal.
LEMMA DoBeq ==
  ASSUME NEW i, Exec, write_code_page[pc] = Beq(i)
  PROVE  Runs /\ pc' = pc + (IF flags.eq THEN i ELSE 1) /\ UNCHANGED <<mem, reg, flags>>
<1>1. I.op = "b.eq" /\ I.k = i
  BY DEF I, Beq, Insn
<1>2. ExecBranch
  BY <1>1 DEF I, Exec, ExecStr, ExecLdr, ExecAdd, ExecMov, ExecCmp, Fetch
<1>3. QED
  BY <1>1, <1>2 DEF I, ExecBranch, Fetch, Done, callVars, Runs

\* Branch always.
LEMMA DoB ==
  ASSUME NEW i, Exec, write_code_page[pc] = B(i)
  PROVE  Runs /\ pc' = pc + i /\ UNCHANGED <<mem, reg, flags>>
<1>1. I.op = "b" /\ I.k = i
  BY DEF I, B, Insn
<1>2. ExecBranch
  BY <1>1 DEF I, Exec, ExecStr, ExecLdr, ExecAdd, ExecMov, ExecCmp, Fetch
<1>3. QED
  BY <1>1, <1>2 DEF I, ExecBranch, Fetch, Done, callVars, Runs

\* A load from guest RAM.
LEMMA DoLdr ==
  ASSUME NEW t, NEW n, n # "xzr", Exec, write_code_page[pc] = Ldr(t, n), InRam(reg[n])
  PROVE  /\ Runs /\ pc' = pc + 1 /\ UNCHANGED <<mem, flags>>
         /\ reg' = [reg EXCEPT ![t] = mem[reg[n] - Base]]
<1>1. I.op = "ldr" /\ I.a = t /\ I.b = n
  BY DEF I, Ldr, Insn
<1>2. ExecLdr
  BY <1>1 DEF I, Exec, ExecStr, ExecMov, ExecAdd, ExecCmp, ExecBranch, Fetch
<1>3. QED
  BY <1>1, <1>2 DEF ExecLdr, Fetch, Done, callVars, Runs, Reg

\* A store to guest RAM.
LEMMA DoStr ==
  ASSUME NEW t, NEW n, t # "xzr", n # "xzr", Exec, write_code_page[pc] = Str(t, n),
         InRam(reg[n])
  PROVE  /\ Runs /\ pc' = pc + 1 /\ UNCHANGED <<reg, flags>>
         /\ mem' = [mem EXCEPT ![reg[n] - Base] = reg[t]]
<1>1. I.op = "str" /\ I.a = t /\ I.b = n
  BY DEF I, Str, Insn
<1>2. ExecStr
  BY <1>1 DEF I, Exec, ExecLdr, ExecMov, ExecAdd, ExecCmp, ExecBranch, Fetch
<1>3. QED
  BY <1>1, <1>2 DEF ExecStr, Fetch, Done, callVars, Runs, Reg

\* A store to the doorbell, which is no page of guest RAM.
LEMMA DoRing ==
  ASSUME NEW t, NEW n, n # "xzr", Exec, write_code_page[pc] = Str(t, n), reg[n] = Doorbell
  PROVE  /\ host = "running" /\ exit = "none" /\ exit' = "doorbell"
         /\ UNCHANGED <<mem, pc, reg, flags, host, call, calls, old>>
<1>1. I.op = "str" /\ I.b = n
  BY DEF I, Str, Insn
<1>2. ExecStr
  BY <1>1 DEF I, Exec, ExecLdr, ExecMov, ExecAdd, ExecCmp, ExecBranch, Fetch
<1>3. ~InRam(Doorbell)
  BY DoorbellAssumption, GuestAssumption DEF InRam, Page, Walk!Page
<1>4. QED
  BY <1>1, <1>2, <1>3 DEF ExecStr, Fetch, Abort, cpuVars, callVars, Reg

-----------------------------------------------------------------------------
(* Every instruction keeps the invariant, and is a visit or invisible. *)

\* A request and its range.
LEMMA RequestFacts ==
  ASSUME NEW c \in Walk!Requests
  PROVE  /\ c.fn \in Short \cup Hammers \cup {"verify"}
         /\ c.start \in Nat /\ c.end \in Nat /\ c.end <= Pages /\ c.value \in Nat
         /\ c.start + MinPages <= c.end
         /\ c.fn = "hammer" => c.start = 0 /\ c.end = Pages
<1>1. /\ c \in [fn : Walk!Function, start : 0..Pages, end : 0..Pages,
               value : Values \cup {0}]
      /\ c.start + MinPages <= c.end
      /\ c.fn \in {"read", "hammer"} => c.start = 0 /\ c.end = Pages
  BY Zenon DEF Walk!Requests
<1>2. /\ c.fn \in Walk!Function /\ c.start \in 0..Pages /\ c.end \in 0..Pages
      /\ c.value \in Values \cup {0}
  BY <1>1, Zenon
<1>3. c.value \in Nat
  <2>1. 0 \in Nat
    OBVIOUS
  <2>2. QED
    BY <1>2, <2>1, GuestAssumption, Zenon
<1>4. c.fn \in Short \cup Hammers \cup {"verify"}
  BY <1>2 DEF Walk!Function, Short, Hammers
<1>5. QED
  BY <1>1, <1>2, <1>3, <1>4, GuestAssumption

\* What the walk sees does not change.
Invisible == UNCHANGED <<mem, call, calls, old, PhaseOf, CursorOf, CountOf>>

\* The facts a step starts from.
LEMMA InCallFacts ==
  ASSUME GuestInv, host # "idle"
  PROVE  /\ mem \in [Page -> Nat] /\ reg \in [Register -> Nat]
         /\ reg.x1 \in Nat /\ reg.x2 \in Nat /\ reg.x3 \in Nat /\ reg.x4 \in Nat
         /\ reg.x5 \in Nat /\ reg.x6 \in Nat
         /\ InCall /\ Base \in Nat
         /\ call.fn \in Short \cup Hammers \cup {"verify"}
         /\ call.start \in Nat /\ call.end \in Nat /\ call.end <= Pages
         /\ call.value \in Nat
         /\ call.start < call.end
         /\ Here => reg.x1 - Base \in Page /\ reg.x1 - Base >= call.start
                      /\ reg.x1 - Base < call.end /\ InRam(reg.x1)
<1>1. /\ mem \in [Page -> Nat] /\ reg \in [Register -> Nat] /\ InCall
  BY DEF GuestInv, GuestTypes
<1>2. /\ call.fn \in Short \cup Hammers \cup {"verify"}
      /\ call.start \in Nat /\ call.end \in Nat /\ call.end <= Pages
      /\ call.value \in Nat
      /\ call.start < call.end
  BY <1>1, RequestFacts DEF InCall
<1>3. /\ reg.x1 \in Nat /\ reg.x2 \in Nat /\ reg.x3 \in Nat /\ reg.x4 \in Nat
      /\ reg.x5 \in Nat /\ reg.x6 \in Nat
  BY <1>1 DEF Register
<1>4. Here => reg.x1 - Base \in Page /\ reg.x1 - Base >= call.start
                /\ reg.x1 - Base < call.end /\ InRam(reg.x1)
  <2>1. Base \in Nat /\ Pages \in Nat
    BY GuestAssumption
  <2>2. QED
    BY <1>2, <1>3, <2>1 DEF Here, Page, Walk!Page, InRam
<1>5. QED
  BY <1>1, <1>2, <1>3, <1>4, GuestAssumption

\* touch, read and fill.
LEMMA ShortStep ==
  ASSUME GuestInv, host = "running", Exec, call.fn \in Short
  PROVE  GuestInv' /\ (Walk!Visit \/ Invisible)
<1> DEFINE e == Entry(call.fn)
           p == reg.x1 - Base
<1>0. /\ mem \in [Page -> Nat] /\ reg \in [Register -> Nat]
      /\ reg.x1 \in Nat /\ reg.x5 \in Nat
      /\ InCall /\ Base \in Nat
      /\ call.start \in Nat /\ call.end \in Nat /\ call.value \in Nat
      /\ Here => p \in Page /\ p >= call.start /\ p < call.end /\ InRam(reg.x1)
  BY InCallFacts
<1>1. /\ e \in Nat
      /\ call.fn = "touch" => write_code_page[e] = Str("x1", "x1")
      /\ call.fn = "read" => write_code_page[e] = Ldr("x5", "x1")
      /\ call.fn = "fill" => write_code_page[e] = Str("x5", "x1")
      /\ write_code_page[e + 1] = NextPage
      /\ write_code_page[e + 2] = Cmp("x1", "x2")
      /\ write_code_page[e + 3] = Blo(-3)
      /\ write_code_page[e + 4] = Str("xzr", "x3")
  BY ShortCode
<1>2. /\ InShort /\ reg.x2 = Base + call.end /\ reg.x3 = Doorbell
      /\ call.fn = "fill" => reg.x5 = call.value
  BY <1>0 DEF InCall
<1>3. /\ call.fn \notin Hammers /\ call.fn # "verify" /\ call.fn # "hammer"
      /\ call.fn \in {"touch", "read", "fill"}
  BY DEF Short, Hammers
<1> HIDE DEF e
<1>4. CASE At_(0) /\ Here
  <2>0. pc = e /\ p \in Page
    BY <1>0, <1>1, <1>4 DEF At_, e
  <2>1. /\ Runs /\ pc' = e + 1 /\ reg'.x1 = reg.x1 /\ reg' \in [Register -> Nat]
        /\ reg'.x2 = reg.x2 /\ reg'.x3 = reg.x3
        /\ call.fn = "fill" => reg'.x5 = reg.x5
        /\ mem' = [mem EXCEPT ![p] = Walk!Effect(call, p, mem[p])]
    <3>1. CASE call.fn = "touch"
      <4>1. Runs /\ pc' = pc + 1 /\ reg' = reg /\ mem' = [mem EXCEPT ![p] = reg["x1"]]
        BY <1>0, <1>1, <1>4, <2>0, <3>1, DoStr
      <4>2. Walk!Effect(call, p, mem[p]) = reg["x1"]
        BY <1>0, <3>1 DEF Walk!Effect
      <4>3. QED
        BY <1>0, <2>0, <3>1, <4>1, <4>2
    <3>2. CASE call.fn = "fill"
      <4>1. Runs /\ pc' = pc + 1 /\ reg' = reg /\ mem' = [mem EXCEPT ![p] = reg["x5"]]
        BY <1>0, <1>1, <1>4, <2>0, <3>2, DoStr
      <4>2. QED
        BY <1>0, <1>2, <2>0, <3>2, <4>1 DEF Walk!Effect
    <3>3. CASE call.fn = "read"
      <4>1. /\ Runs /\ pc' = pc + 1 /\ mem' = mem
            /\ reg' = [reg EXCEPT !["x5"] = mem[p]]
        BY <1>0, <1>1, <1>4, <2>0, <3>3, DoLdr
      <4>2. QED
        BY <1>0, <2>0, <3>3, <4>1 DEF Walk!Effect, Register
    <3>4. QED
      BY <1>3, <3>1, <3>2, <3>3
  <2>2. mem' \in [Page -> Nat]
    BY <1>0, <1>3, <2>0, <2>1, GuestAssumption DEF Walk!Effect
  <2>3. InShort'
    BY <1>4, <2>1 DEF InShort, At_, e, Here, Runs
  <2>4. GuestInv'
    BY <1>0, <1>2, <1>3, <2>1, <2>2, <2>3 DEF GuestInv, GuestTypes, InCall, Runs
  <2>5. /\ CursorOf = p /\ CursorOf' = p + 1
        /\ PhaseOf = "walking" /\ PhaseOf' = "walking" /\ CountOf = 0 /\ CountOf' = 0
    BY <1>0, <1>1, <1>3, <2>0, <2>1
    DEF CursorOf, PhaseOf, CountOf, Restarting, AccessDone, At_, Hammers, Runs, e
  <2>6. Walk!Visit
    BY <1>0, <1>3, <1>4, <2>1, <2>5 DEF Walk!Visit, Runs
  <2>7. QED
    BY <2>4, <2>6
<1>5. CASE At_(1) /\ Here
  <2>0. pc = e + 1
    BY <1>5 DEF At_, e
  <2>1. Runs /\ reg' = [reg EXCEPT !["x1"] = @ + 1] /\ pc' = pc + 1 /\ mem' = mem
    BY <1>1, <2>0, DoAdd DEF NextPage
  <2>2. /\ reg' \in [Register -> Nat] /\ reg'.x1 = reg.x1 + 1
        /\ reg'.x2 = reg.x2 /\ reg'.x3 = reg.x3 /\ reg'.x5 = reg.x5
    BY <1>0, <2>1 DEF Register
  <2>3. InShort'
    BY <1>0, <1>1, <1>5, <2>0, <2>1, <2>2 DEF InShort, At_, e, Here, Past, Runs
  <2>4. GuestInv'
    BY <1>0, <1>2, <1>3, <2>1, <2>2, <2>3 DEF GuestInv, GuestTypes, InCall, Runs
  <2>5. Invisible
    BY <1>0, <1>1, <1>3, <2>0, <2>1, <2>2
    DEF Invisible, CursorOf, PhaseOf, CountOf, Restarting, AccessDone, At_, Runs, e
  <2>6. QED
    BY <2>4, <2>5
<1>6. CASE At_(2) /\ Past
  <2>0. pc = e + 2
    BY <1>6 DEF At_, e
  <2>1. /\ Runs /\ pc' = pc + 1 /\ mem' = mem /\ reg' = reg
        /\ flags'.lo <=> reg["x1"] < reg["x2"]
    BY <1>1, <2>0, DoCmp
  <2>2. InShort'
    BY <1>0, <1>1, <1>6, <2>0, <2>1 DEF InShort, At_, e, Past, Compared, Runs
  <2>3. GuestInv'
    BY <1>0, <1>2, <1>3, <2>1, <2>2 DEF GuestInv, GuestTypes, InCall, Runs
  <2>4. Invisible
    BY <1>0, <1>1, <1>3, <2>0, <2>1
    DEF Invisible, CursorOf, PhaseOf, CountOf, Restarting, AccessDone, At_, Runs, e
  <2>5. QED
    BY <2>3, <2>4
<1>7. CASE At_(3) /\ Past /\ Compared
  <2>0. pc = e + 3
    BY <1>7 DEF At_, e
  <2>1. /\ Runs /\ mem' = mem /\ reg' = reg
        /\ pc' = IF reg.x1 < reg.x2 THEN e ELSE e + 4
    BY <1>1, <1>7, <2>0, DoBlo DEF Compared
  <2>2. InShort'
    BY <1>0, <1>1, <1>2, <1>7, <2>0, <2>1 DEF InShort, At_, e, Past, Here, AtEnd, Runs
  <2>3. GuestInv'
    BY <1>0, <1>2, <1>3, <2>1, <2>2 DEF GuestInv, GuestTypes, InCall, Runs
  <2>4. Invisible
    BY <1>0, <1>1, <1>3, <2>0, <2>1
    DEF Invisible, CursorOf, PhaseOf, CountOf, Restarting, AccessDone, At_, Runs, e
  <2>5. QED
    BY <2>3, <2>4
<1>8. CASE At_(4) /\ AtEnd
  <2>0. pc = e + 4
    BY <1>8 DEF At_, e
  <2>1. /\ host = "running" /\ exit = "none" /\ exit' = "doorbell"
        /\ UNCHANGED <<mem, pc, reg, flags, host, call, calls, old>>
    BY <1>1, <1>2, <2>0, DoRing
  <2>2. InShort' /\ AtBell'
    BY <1>8, <2>1 DEF InShort, AtBell, At_, AtEnd
  <2>3. GuestInv'
    BY <1>0, <1>2, <1>3, <2>1, <2>2 DEF GuestInv, GuestTypes, InCall
  <2>4. Invisible
    BY <2>1 DEF Invisible, CursorOf, PhaseOf, CountOf, Restarting, AccessDone, At_
  <2>5. QED
    BY <2>3, <2>4
<1>9. QED
  BY <1>2, <1>4, <1>5, <1>6, <1>7, <1>8 DEF InShort

\* A sweep, of a range or of run_hammer: load, add and store make one visit,
\* and x4 counts the sweep just before the doorbell.
LEMMA HammerStep ==
  ASSUME GuestInv, host = "running", Exec, call.fn \in Hammers
  PROVE  GuestInv' /\ (Walk!Visit \/ Walk!Ring \/ Invisible)
<1> DEFINE e == Entry(call.fn)
           p == reg.x1 - Base
<1>0. /\ mem \in [Page -> Nat] /\ reg \in [Register -> Nat]
      /\ reg.x1 \in Nat /\ reg.x4 \in Nat /\ reg.x5 \in Nat /\ reg.x6 \in Nat
      /\ InCall /\ Base \in Nat
      /\ call.start \in Nat /\ call.end \in Nat /\ call.start < call.end
      /\ Here => p \in Page /\ p >= call.start /\ p < call.end /\ InRam(reg.x1)
  BY InCallFacts
<1>1. /\ e \in Nat
      /\ write_code_page[e] = Mov("x1", "x6")
      /\ write_code_page[e + 1] = Ldr("x5", "x1")
      /\ write_code_page[e + 2] = Add("x5", 1)
      /\ write_code_page[e + 3] = Str("x5", "x1")
      /\ write_code_page[e + 4] = NextPage
      /\ write_code_page[e + 5] = Cmp("x1", "x2")
      /\ write_code_page[e + 6] = Blo(-5)
      /\ write_code_page[e + 7] = Add("x4", 1)
      /\ write_code_page[e + 8] = Str("x4", "x3")
      /\ write_code_page[e + 9] = B(-9)
  BY HammerCode
<1>2. InHammer /\ reg.x2 = Base + call.end /\ reg.x3 = Doorbell /\ reg.x6 = Base + call.start
  BY <1>0 DEF InCall
<1>3. /\ call.fn \notin Short /\ call.fn # "verify" /\ call.fn # "fill"
      /\ call.fn \notin {"touch", "fill", "read"} /\ call.fn \in {"sweep", "hammer"}
  BY DEF Short, Hammers
<1> HIDE DEF e
<1>4. CASE At_(0)
  <2>0. pc = e
    BY <1>1, <1>4 DEF At_, e
  <2>1. Runs /\ reg' = [reg EXCEPT !["x1"] = reg["x6"]] /\ pc' = pc + 1 /\ mem' = mem
    BY <1>1, <2>0, DoMov
  <2>2. /\ reg' \in [Register -> Nat] /\ reg'.x1 = Base + call.start
        /\ reg'.x2 = reg.x2 /\ reg'.x3 = reg.x3 /\ reg'.x4 = reg.x4 /\ reg'.x6 = reg.x6
    BY <1>0, <1>2, <2>1 DEF Register
  <2>3. InHammer'
    BY <1>0, <1>1, <2>0, <2>1, <2>2 DEF InHammer, At_, e, Here, Runs
  <2>4. GuestInv'
    BY <1>0, <1>2, <1>3, <2>1, <2>2, <2>3 DEF GuestInv, GuestTypes, InCall, Runs
  <2>5. Invisible
    BY <1>0, <1>1, <1>2, <1>3, <2>0, <2>1, <2>2
    DEF Invisible, CursorOf, PhaseOf, CountOf, Restarting, AccessDone, At_, Runs, e
  <2>6. QED
    BY <2>4, <2>5
<1>5. CASE At_(1) /\ Here
  <2>0. pc = e + 1
    BY <1>5 DEF At_, e
  <2>1. Runs /\ reg' = [reg EXCEPT !["x5"] = mem[p]] /\ pc' = pc + 1 /\ mem' = mem
    BY <1>0, <1>1, <1>5, <2>0, DoLdr
  <2>2. /\ reg' \in [Register -> Nat] /\ reg'.x1 = reg.x1 /\ reg'.x5 = mem[p]
        /\ reg'.x2 = reg.x2 /\ reg'.x3 = reg.x3 /\ reg'.x4 = reg.x4 /\ reg'.x6 = reg.x6
    BY <1>0, <1>5, <2>1 DEF Register
  <2>3. InHammer'
    BY <1>0, <1>1, <1>5, <2>0, <2>1, <2>2 DEF InHammer, At_, e, Here, Found, Runs
  <2>4. GuestInv'
    BY <1>0, <1>2, <1>3, <2>1, <2>2, <2>3 DEF GuestInv, GuestTypes, InCall, Runs
  <2>5. Invisible
    BY <1>0, <1>1, <1>2, <1>3, <2>0, <2>1, <2>2
    DEF Invisible, CursorOf, PhaseOf, CountOf, Restarting, AccessDone, At_, Runs, e
  <2>6. QED
    BY <2>4, <2>5
<1>6. CASE At_(2) /\ Here /\ reg.x5 = Found
  <2>0. pc = e + 2
    BY <1>6 DEF At_, e
  <2>1. Runs /\ reg' = [reg EXCEPT !["x5"] = @ + 1] /\ pc' = pc + 1 /\ mem' = mem
    BY <1>1, <2>0, DoAdd
  <2>2. /\ reg' \in [Register -> Nat] /\ reg'.x1 = reg.x1 /\ reg'.x5 = reg.x5 + 1
        /\ reg'.x2 = reg.x2 /\ reg'.x3 = reg.x3 /\ reg'.x4 = reg.x4 /\ reg'.x6 = reg.x6
    BY <1>0, <2>1 DEF Register
  <2>3. InHammer'
    BY <1>0, <1>1, <1>6, <2>0, <2>1, <2>2 DEF InHammer, At_, e, Here, Found, Runs
  <2>4. GuestInv'
    BY <1>0, <1>2, <1>3, <2>1, <2>2, <2>3 DEF GuestInv, GuestTypes, InCall, Runs
  <2>5. Invisible
    BY <1>0, <1>1, <1>2, <1>3, <2>0, <2>1, <2>2
    DEF Invisible, CursorOf, PhaseOf, CountOf, Restarting, AccessDone, At_, Runs, e
  <2>6. QED
    BY <2>4, <2>5
<1>7. CASE At_(3) /\ Here /\ reg.x5 = Found + 1
  <2>0. pc = e + 3
    BY <1>7 DEF At_, e
  <2>1. Runs /\ reg' = reg /\ pc' = pc + 1 /\ mem' = [mem EXCEPT ![p] = reg["x5"]]
    BY <1>0, <1>1, <1>7, <2>0, DoStr
  <2>2. mem' \in [Page -> Nat]
    BY <1>0, <2>1
  <2>3. InHammer'
    BY <1>0, <1>1, <1>7, <2>0, <2>1 DEF InHammer, At_, e, Here, Runs
  <2>4. GuestInv'
    BY <1>0, <1>2, <1>3, <2>1, <2>2, <2>3 DEF GuestInv, GuestTypes, InCall, Runs
  <2>5. /\ CursorOf = p /\ CursorOf' = p + 1
        /\ PhaseOf = "walking" /\ PhaseOf' = "walking" /\ CountOf' = CountOf
    BY <1>0, <1>1, <1>3, <2>0, <2>1
    DEF CursorOf, PhaseOf, CountOf, Restarting, AccessDone, At_, Runs, e
  <2>6. Walk!Effect(call, p, mem[p]) = reg["x5"]
    BY <1>3, <1>7 DEF Walk!Effect, Found
  <2>7. Walk!Visit
    BY <1>0, <1>3, <1>7, <2>1, <2>5, <2>6 DEF Walk!Visit, Runs
  <2>8. QED
    BY <2>4, <2>7
<1>8. CASE At_(4) /\ Here
  <2>0. pc = e + 4
    BY <1>8 DEF At_, e
  <2>1. Runs /\ reg' = [reg EXCEPT !["x1"] = @ + 1] /\ pc' = pc + 1 /\ mem' = mem
    BY <1>1, <2>0, DoAdd DEF NextPage
  <2>2. /\ reg' \in [Register -> Nat] /\ reg'.x1 = reg.x1 + 1
        /\ reg'.x2 = reg.x2 /\ reg'.x3 = reg.x3 /\ reg'.x4 = reg.x4
        /\ reg'.x5 = reg.x5 /\ reg'.x6 = reg.x6
    BY <1>0, <2>1 DEF Register
  <2>3. InHammer'
    BY <1>0, <1>1, <1>8, <2>0, <2>1, <2>2 DEF InHammer, At_, e, Here, Past, Runs
  <2>4. GuestInv'
    BY <1>0, <1>2, <1>3, <2>1, <2>2, <2>3 DEF GuestInv, GuestTypes, InCall, Runs
  <2>5. Invisible
    BY <1>0, <1>1, <1>2, <1>3, <2>0, <2>1, <2>2
    DEF Invisible, CursorOf, PhaseOf, CountOf, Restarting, AccessDone, At_, Runs, e
  <2>6. QED
    BY <2>4, <2>5
<1>9. CASE At_(5) /\ Past
  <2>0. pc = e + 5
    BY <1>9 DEF At_, e
  <2>1. /\ Runs /\ pc' = pc + 1 /\ mem' = mem /\ reg' = reg
        /\ flags'.lo <=> reg["x1"] < reg["x2"]
    BY <1>1, <2>0, DoCmp
  <2>2. InHammer'
    BY <1>0, <1>1, <1>9, <2>0, <2>1 DEF InHammer, At_, e, Past, Compared, Runs
  <2>3. GuestInv'
    BY <1>0, <1>2, <1>3, <2>1, <2>2 DEF GuestInv, GuestTypes, InCall, Runs
  <2>4. Invisible
    BY <1>0, <1>1, <1>2, <1>3, <2>0, <2>1
    DEF Invisible, CursorOf, PhaseOf, CountOf, Restarting, AccessDone, At_, Runs, e
  <2>5. QED
    BY <2>3, <2>4
<1>10. CASE At_(6) /\ Past /\ Compared
  <2>0. pc = e + 6
    BY <1>10 DEF At_, e
  <2>1. /\ Runs /\ mem' = mem /\ reg' = reg
        /\ pc' = IF reg.x1 < reg.x2 THEN e + 1 ELSE e + 7
    BY <1>1, <1>10, <2>0, DoBlo DEF Compared
  <2>2. InHammer'
    BY <1>0, <1>1, <1>2, <1>10, <2>0, <2>1 DEF InHammer, At_, e, Past, Here, AtEnd, Runs
  <2>3. GuestInv'
    BY <1>0, <1>2, <1>3, <2>1, <2>2 DEF GuestInv, GuestTypes, InCall, Runs
  <2>4. Invisible
    BY <1>0, <1>1, <1>2, <1>3, <2>0, <2>1
    DEF Invisible, CursorOf, PhaseOf, CountOf, Restarting, AccessDone, At_, Runs, e
  <2>5. QED
    BY <2>3, <2>4
<1>11. CASE At_(7) /\ AtEnd
  <2>0. pc = e + 7
    BY <1>11 DEF At_, e
  <2>1. Runs /\ reg' = [reg EXCEPT !["x4"] = @ + 1] /\ pc' = pc + 1 /\ mem' = mem
    BY <1>1, <2>0, DoAdd
  <2>2. /\ reg' \in [Register -> Nat] /\ reg'.x1 = reg.x1 /\ reg'.x4 = reg.x4 + 1
        /\ reg'.x2 = reg.x2 /\ reg'.x3 = reg.x3 /\ reg'.x6 = reg.x6
    BY <1>0, <2>1 DEF Register
  <2>3. InHammer'
    BY <1>0, <1>1, <1>11, <2>0, <2>1, <2>2 DEF InHammer, At_, e, AtEnd, Runs
  <2>4. GuestInv'
    BY <1>0, <1>2, <1>3, <2>1, <2>2, <2>3 DEF GuestInv, GuestTypes, InCall, Runs
  <2>5. CASE call.fn = "sweep"
    <3>1. Invisible
      BY <1>0, <1>1, <2>0, <2>1, <2>2, <2>5
      DEF Invisible, CursorOf, PhaseOf, CountOf, Restarting, AccessDone, At_, Runs, e
    <3>2. QED
      BY <2>4, <3>1
  <2>6. CASE call.fn = "hammer"
    <3>1. /\ CursorOf = call.end /\ CursorOf' = call.end
          /\ PhaseOf = "walking" /\ PhaseOf' = "rung"
          /\ CountOf = reg.x4 /\ CountOf' = reg.x4 + 1
      BY <1>0, <1>1, <1>11, <2>0, <2>1, <2>2, <2>6
      DEF CursorOf, PhaseOf, CountOf, Restarting, AccessDone, At_, AtEnd, Runs, e
    <3>2. Walk!Ring
      BY <2>1, <2>6, <3>1 DEF Walk!Ring, Runs
    <3>3. QED
      BY <2>4, <3>2
  <2>7. QED
    BY <1>3, <2>5, <2>6
<1>12. CASE At_(8) /\ AtEnd
  <2>0. pc = e + 8
    BY <1>12 DEF At_, e
  <2>1. /\ host = "running" /\ exit = "none" /\ exit' = "doorbell"
        /\ UNCHANGED <<mem, pc, reg, flags, host, call, calls, old>>
    BY <1>1, <1>2, <2>0, DoRing
  <2>2. InHammer' /\ AtBell'
    BY <1>12, <2>1 DEF InHammer, AtBell, At_, AtEnd
  <2>3. GuestInv'
    BY <1>0, <1>2, <1>3, <2>1, <2>2 DEF GuestInv, GuestTypes, InCall
  <2>4. Invisible
    BY <2>1 DEF Invisible, CursorOf, PhaseOf, CountOf, Restarting, AccessDone, At_
  <2>5. QED
    BY <2>3, <2>4
<1>13. CASE At_(9) /\ call.fn = "hammer"
  <2>0. pc = e + 9
    BY <1>13 DEF At_, e
  <2>1. Runs /\ pc' = e /\ reg' = reg /\ mem' = mem
    BY <1>1, <2>0, DoB
  <2>2. InHammer'
    BY <1>1, <2>1 DEF InHammer, At_, e, Runs
  <2>3. GuestInv'
    BY <1>0, <1>2, <1>3, <2>1, <2>2 DEF GuestInv, GuestTypes, InCall, Runs
  <2>4. Invisible
    BY <1>0, <1>1, <1>2, <1>3, <2>0, <2>1
    DEF Invisible, CursorOf, PhaseOf, CountOf, Restarting, AccessDone, At_, Runs, e
  <2>5. QED
    BY <2>3, <2>4
<1>14. QED
  BY <1>2, <1>4, <1>5, <1>6, <1>7, <1>8, <1>9, <1>10, <1>11, <1>12, <1>13 DEF InHammer

\* A verify: the word is compared, x4 counts it when it differs, and the page
\* counts as visited from there.
LEMMA VerifyStep ==
  ASSUME GuestInv, host = "running", Exec, call.fn = "verify"
  PROVE  GuestInv' /\ (Walk!Visit \/ Invisible)
<1> DEFINE e == Entry(call.fn)
           p == reg.x1 - Base
<1>0. /\ mem \in [Page -> Nat] /\ reg \in [Register -> Nat]
      /\ reg.x1 \in Nat /\ reg.x4 \in Nat /\ reg.x5 \in Nat /\ reg.x6 \in Nat
      /\ InCall /\ Base \in Nat
      /\ call.start \in Nat /\ call.end \in Nat /\ call.start < call.end
      /\ Here => p \in Page /\ p >= call.start /\ p < call.end /\ InRam(reg.x1)
  BY InCallFacts
<1>1. /\ e \in Nat
      /\ write_code_page[e] = Ldr("x6", "x1")
      /\ write_code_page[e + 1] = Cmp("x6", "x5")
      /\ write_code_page[e + 2] = Beq(2)
      /\ write_code_page[e + 3] = Add("x4", 1)
      /\ write_code_page[e + 4] = NextPage
      /\ write_code_page[e + 5] = Cmp("x1", "x2")
      /\ write_code_page[e + 6] = Blo(-6)
      /\ write_code_page[e + 7] = Str("x4", "x3")
  BY VerifyCode
<1>2. InVerify /\ reg.x2 = Base + call.end /\ reg.x3 = Doorbell /\ reg.x5 = call.value
  BY <1>0 DEF InCall
<1>3. /\ call.fn \notin Short /\ call.fn \notin Hammers
      /\ call.fn \notin {"touch", "fill", "read"} /\ call.fn \notin {"sweep", "hammer"}
      /\ call.fn \in {"fill", "verify"} /\ call.fn \in {"verify", "hammer"}
  BY DEF Short, Hammers
<1> HIDE DEF e
<1>4. CASE At_(0) /\ Here
  <2>0. pc = e
    BY <1>1, <1>4 DEF At_, e
  <2>1. Runs /\ reg' = [reg EXCEPT !["x6"] = mem[p]] /\ pc' = pc + 1 /\ mem' = mem
    BY <1>0, <1>1, <1>4, <2>0, DoLdr
  <2>2. /\ reg' \in [Register -> Nat] /\ reg'.x1 = reg.x1 /\ reg'.x6 = mem[p]
        /\ reg'.x2 = reg.x2 /\ reg'.x3 = reg.x3 /\ reg'.x4 = reg.x4 /\ reg'.x5 = reg.x5
    BY <1>0, <1>4, <2>1 DEF Register
  <2>3. InVerify'
    BY <1>0, <1>1, <1>4, <2>0, <2>1, <2>2 DEF InVerify, At_, e, Here, Found, Runs
  <2>4. GuestInv'
    BY <1>0, <1>2, <1>3, <2>1, <2>2, <2>3 DEF GuestInv, GuestTypes, InCall, Runs
  <2>5. Invisible
    BY <1>0, <1>1, <1>2, <1>3, <2>0, <2>1, <2>2
    DEF Invisible, CursorOf, PhaseOf, CountOf, Restarting, AccessDone, At_, Runs, e
  <2>6. QED
    BY <2>4, <2>5
<1>5. CASE At_(1) /\ Here /\ reg.x6 = Found
  <2>0. pc = e + 1
    BY <1>5 DEF At_, e
  <2>1. /\ Runs /\ pc' = pc + 1 /\ mem' = mem /\ reg' = reg
        /\ flags'.eq <=> reg["x6"] = reg["x5"]
    BY <1>1, <2>0, DoCmp
  <2>2. InVerify'
    BY <1>0, <1>1, <1>5, <2>0, <2>1 DEF InVerify, At_, e, Here, Found, Runs
  <2>3. GuestInv'
    BY <1>0, <1>2, <1>3, <2>1, <2>2 DEF GuestInv, GuestTypes, InCall, Runs
  <2>4. Invisible
    BY <1>0, <1>1, <1>2, <1>3, <2>0, <2>1
    DEF Invisible, CursorOf, PhaseOf, CountOf, Restarting, AccessDone, At_, Runs, e
  <2>5. QED
    BY <2>3, <2>4
<1>6. CASE At_(2) /\ Here /\ reg.x6 = Found /\ (flags.eq <=> reg.x6 = reg.x5)
  <2>0. pc = e + 2
    BY <1>6 DEF At_, e
  <2>1. /\ Runs /\ mem' = mem /\ reg' = reg
        /\ pc' = IF reg.x6 = reg.x5 THEN e + 4 ELSE e + 3
    BY <1>1, <1>6, <2>0, DoBeq
  <2>2. InVerify'
    BY <1>0, <1>1, <1>6, <2>0, <2>1 DEF InVerify, At_, e, Here, Found, Runs
  <2>3. GuestInv'
    BY <1>0, <1>2, <1>3, <2>1, <2>2 DEF GuestInv, GuestTypes, InCall, Runs
  <2>4. CASE reg.x6 = reg.x5
    <3>1. /\ CursorOf = p /\ CursorOf' = p + 1
          /\ PhaseOf = "walking" /\ PhaseOf' = "walking" /\ CountOf' = CountOf
      BY <1>0, <1>1, <1>3, <2>0, <2>1, <2>4
      DEF CursorOf, PhaseOf, CountOf, Restarting, AccessDone, At_, Runs, e
    <3>2. Walk!Effect(call, p, mem[p]) = mem[p] /\ mem[p] = call.value
      BY <1>2, <1>3, <1>6, <2>4 DEF Walk!Effect, Found
    <3>3. Walk!Visit
      BY <1>0, <1>6, <2>1, <3>1, <3>2 DEF Walk!Visit, Runs
    <3>4. QED
      BY <2>3, <3>3
  <2>5. CASE reg.x6 # reg.x5
    <3>1. Invisible
      BY <1>0, <1>1, <1>3, <2>0, <2>1, <2>5
      DEF Invisible, CursorOf, PhaseOf, CountOf, Restarting, AccessDone, At_, Runs, e
    <3>2. QED
      BY <2>3, <3>1
  <2>6. QED
    BY <2>4, <2>5
<1>7. CASE At_(3) /\ Here /\ reg.x6 = Found /\ reg.x6 # reg.x5
  <2>0. pc = e + 3
    BY <1>7 DEF At_, e
  <2>1. Runs /\ reg' = [reg EXCEPT !["x4"] = @ + 1] /\ pc' = pc + 1 /\ mem' = mem
    BY <1>1, <2>0, DoAdd
  <2>2. /\ reg' \in [Register -> Nat] /\ reg'.x1 = reg.x1 /\ reg'.x4 = reg.x4 + 1
        /\ reg'.x2 = reg.x2 /\ reg'.x3 = reg.x3 /\ reg'.x5 = reg.x5 /\ reg'.x6 = reg.x6
    BY <1>0, <2>1 DEF Register
  <2>3. InVerify'
    BY <1>0, <1>1, <1>7, <2>0, <2>1, <2>2 DEF InVerify, At_, e, Here, Runs
  <2>4. GuestInv'
    BY <1>0, <1>2, <1>3, <2>1, <2>2, <2>3 DEF GuestInv, GuestTypes, InCall, Runs
  <2>5. /\ CursorOf = p /\ CursorOf' = p + 1
        /\ PhaseOf = "walking" /\ PhaseOf' = "walking"
        /\ CountOf = reg.x4 /\ CountOf' = reg.x4 + 1
    BY <1>0, <1>1, <1>3, <2>0, <2>1, <2>2
    DEF CursorOf, PhaseOf, CountOf, Restarting, AccessDone, At_, Runs, e
  <2>6. Walk!Effect(call, p, mem[p]) = mem[p] /\ mem[p] # call.value
    BY <1>2, <1>3, <1>7 DEF Walk!Effect, Found
  <2>7. Walk!Visit
    BY <1>0, <1>7, <2>1, <2>5, <2>6 DEF Walk!Visit, Runs
  <2>8. QED
    BY <2>4, <2>7
<1>8. CASE At_(4) /\ Here
  <2>0. pc = e + 4
    BY <1>8 DEF At_, e
  <2>1. Runs /\ reg' = [reg EXCEPT !["x1"] = @ + 1] /\ pc' = pc + 1 /\ mem' = mem
    BY <1>1, <2>0, DoAdd DEF NextPage
  <2>2. /\ reg' \in [Register -> Nat] /\ reg'.x1 = reg.x1 + 1
        /\ reg'.x2 = reg.x2 /\ reg'.x3 = reg.x3 /\ reg'.x4 = reg.x4
        /\ reg'.x5 = reg.x5 /\ reg'.x6 = reg.x6
    BY <1>0, <2>1 DEF Register
  <2>3. InVerify'
    BY <1>0, <1>1, <1>8, <2>0, <2>1, <2>2 DEF InVerify, At_, e, Here, Past, Runs
  <2>4. GuestInv'
    BY <1>0, <1>2, <1>3, <2>1, <2>2, <2>3 DEF GuestInv, GuestTypes, InCall, Runs
  <2>5. Invisible
    BY <1>0, <1>1, <1>2, <1>3, <2>0, <2>1, <2>2
    DEF Invisible, CursorOf, PhaseOf, CountOf, Restarting, AccessDone, At_, Runs, e
  <2>6. QED
    BY <2>4, <2>5
<1>9. CASE At_(5) /\ Past
  <2>0. pc = e + 5
    BY <1>9 DEF At_, e
  <2>1. /\ Runs /\ pc' = pc + 1 /\ mem' = mem /\ reg' = reg
        /\ flags'.lo <=> reg["x1"] < reg["x2"]
    BY <1>1, <2>0, DoCmp
  <2>2. InVerify'
    BY <1>0, <1>1, <1>9, <2>0, <2>1 DEF InVerify, At_, e, Past, Compared, Runs
  <2>3. GuestInv'
    BY <1>0, <1>2, <1>3, <2>1, <2>2 DEF GuestInv, GuestTypes, InCall, Runs
  <2>4. Invisible
    BY <1>0, <1>1, <1>2, <1>3, <2>0, <2>1
    DEF Invisible, CursorOf, PhaseOf, CountOf, Restarting, AccessDone, At_, Runs, e
  <2>5. QED
    BY <2>3, <2>4
<1>10. CASE At_(6) /\ Past /\ Compared
  <2>0. pc = e + 6
    BY <1>10 DEF At_, e
  <2>1. /\ Runs /\ mem' = mem /\ reg' = reg
        /\ pc' = IF reg.x1 < reg.x2 THEN e ELSE e + 7
    BY <1>1, <1>10, <2>0, DoBlo DEF Compared
  <2>2. InVerify'
    BY <1>0, <1>1, <1>2, <1>10, <2>0, <2>1 DEF InVerify, At_, e, Past, Here, AtEnd, Runs
  <2>3. GuestInv'
    BY <1>0, <1>2, <1>3, <2>1, <2>2 DEF GuestInv, GuestTypes, InCall, Runs
  <2>4. Invisible
    BY <1>0, <1>1, <1>2, <1>3, <2>0, <2>1
    DEF Invisible, CursorOf, PhaseOf, CountOf, Restarting, AccessDone, At_, Runs, e
  <2>5. QED
    BY <2>3, <2>4
<1>11. CASE At_(7) /\ AtEnd
  <2>0. pc = e + 7
    BY <1>11 DEF At_, e
  <2>1. /\ host = "running" /\ exit = "none" /\ exit' = "doorbell"
        /\ UNCHANGED <<mem, pc, reg, flags, host, call, calls, old>>
    BY <1>1, <1>2, <2>0, DoRing
  <2>2. InVerify' /\ AtBell'
    BY <1>11, <2>1 DEF InVerify, AtBell, At_, AtEnd
  <2>3. GuestInv'
    BY <1>0, <1>2, <1>3, <2>1, <2>2 DEF GuestInv, GuestTypes, InCall
  <2>4. Invisible
    BY <2>1 DEF Invisible, CursorOf, PhaseOf, CountOf, Restarting, AccessDone, At_
  <2>5. QED
    BY <2>3, <2>4
<1>12. QED
  BY <1>2, <1>4, <1>5, <1>6, <1>7, <1>8, <1>9, <1>10, <1>11 DEF InVerify

-----------------------------------------------------------------------------
(* The host's steps. *)

\* run_pass sets three registers and the program counter.
LEMMA RunPass ==
  ASSUME NEW c \in Walk!Requests, NEW entry, NEW r \in [Register -> Nat],
         run_pass(c, entry, r)
  PROVE  /\ pc' = entry /\ reg' \in [Register -> Nat]
         /\ reg'.x1 = Base + c.start /\ reg'.x2 = Base + c.end /\ reg'.x3 = Doorbell
         /\ reg'.x4 = r.x4 /\ reg'.x5 = r.x5 /\ reg'.x6 = r.x6
<1>1. Base + c.start \in Nat /\ Base + c.end \in Nat /\ Doorbell \in Nat
  BY RequestFacts, GuestAssumption, DoorbellAssumption
<1>2. QED
  BY <1>1 DEF run_pass, Register

\* The four registers run_hammer loads.
HammerRegs(f, a, b, d) == [f EXCEPT !.x2 = a, !.x3 = b, !.x4 = 0, !.x6 = d]

\* They hold what run_hammer loaded, and all six are still registers.
LEMMA HammerLoads ==
  ASSUME NEW f \in [Register -> Nat], NEW a \in Nat, NEW b \in Nat, NEW d \in Nat,
         NEW g, g = HammerRegs(f, a, b, d)
  PROVE  /\ g \in [Register -> Nat]
         /\ g.x2 = a /\ g.x3 = b /\ g.x4 = 0 /\ g.x6 = d
BY DEF Register, HammerRegs

\* A call sets the registers its program needs, whatever the last one left.
LEMMA BeginStep ==
  ASSUME GuestInv, MinPages > 0, NEW c \in Walk!Requests, BeginCall(c)
  PROVE  GuestInv' /\ Walk!Begin(c)
<1>0. /\ mem \in [Page -> Nat] /\ reg \in [Register -> Nat]
      /\ Base \in Nat /\ MinPages \in Nat /\ Pages \in Nat /\ Doorbell \in Nat
  BY GuestAssumption, DoorbellAssumption DEF GuestInv, GuestTypes
<1>1. /\ c.fn \in Short \cup Hammers \cup {"verify"}
      /\ c.start \in Nat /\ c.end \in Nat /\ c.value \in Nat
      /\ c.start + MinPages <= c.end
      /\ c.fn = "hammer" => c.start = 0 /\ c.end = Pages
  BY RequestFacts
<1>2. /\ host \in {"idle", "returned"} /\ calls < MaxCalls
      /\ exit' = "none" /\ host' = "running" /\ call' = c /\ calls' = calls + 1
      /\ old' = mem /\ mem' = mem
  BY DEF BeginCall
<1>3. /\ pc' = Entry(c.fn) /\ Entry(c.fn) \in Nat
      /\ reg' \in [Register -> Nat]
      /\ reg'.x2 = Base + c.end /\ reg'.x3 = Doorbell
      /\ c.fn # "hammer" => reg'.x1 = Base + c.start
      /\ c.fn \in {"verify", "hammer"} => reg'.x4 = 0
      /\ c.fn \in {"fill", "verify"} => reg'.x5 = c.value
      /\ c.fn \in Hammers => reg'.x6 = Base + c.start
  <2>0. /\ Entry("touch") = TOUCH_OFF /\ Entry("read") = READ_OFF /\ Entry("fill") = FILL_OFF
        /\ Entry("sweep") = HAMMER_OFF /\ Entry("hammer") = HAMMER_OFF
        /\ Entry("verify") = VERIFY_OFF
        /\ TOUCH_OFF \in Nat /\ READ_OFF \in Nat /\ FILL_OFF \in Nat
        /\ HAMMER_OFF \in Nat /\ VERIFY_OFF \in Nat
    BY DEF Entry, TOUCH_OFF, READ_OFF, HAMMER_OFF, FILL_OFF, VERIFY_OFF
  <2>1. CASE run_touch_range(c)
    <3>1. c.fn = "touch" /\ run_pass(c, TOUCH_OFF, reg)
      BY <2>1 DEF run_touch_range
    <3>2. reg \in [Register -> Nat]
      BY <1>0, <1>1 DEF Register
    <3>3. QED
      BY <1>1, <2>0, <3>1, <3>2, RunPass DEF Hammers
  <2>2. CASE run_read_pass(c)
    <3>1. c.fn = "read" /\ run_pass(c, READ_OFF, reg)
      BY <2>2 DEF run_read_pass
    <3>2. reg \in [Register -> Nat]
      BY <1>0, <1>1 DEF Register
    <3>3. QED
      BY <1>1, <2>0, <3>1, <3>2, RunPass DEF Hammers
  <2>3. CASE run_sweep_range(c)
    <3>1. c.fn = "sweep" /\ run_pass(c, HAMMER_OFF, [reg EXCEPT !.x6 = Base + c.start])
      BY <2>3 DEF run_sweep_range
    <3>2. [reg EXCEPT !.x6 = Base + c.start] \in [Register -> Nat] /\ [reg EXCEPT !.x6 = Base + c.start].x6 = Base + c.start
      BY <1>0, <1>1 DEF Register
    <3>3. QED
      BY <1>1, <2>0, <3>1, <3>2, RunPass DEF Hammers
  <2>4. CASE run_fill_range(c)
    <3>1. c.fn = "fill" /\ run_pass(c, FILL_OFF, [reg EXCEPT !.x5 = c.value])
      BY <2>4 DEF run_fill_range
    <3>2. [reg EXCEPT !.x5 = c.value] \in [Register -> Nat] /\ [reg EXCEPT !.x5 = c.value].x5 = c.value
      BY <1>0, <1>1 DEF Register
    <3>3. QED
      BY <1>1, <2>0, <3>1, <3>2, RunPass DEF Hammers
  <2>5. CASE run_verify_range(c)
    <3> DEFINE r == [reg EXCEPT !.x4 = 0, !.x5 = c.value]
    <3>1. c.fn = "verify" /\ run_pass(c, VERIFY_OFF, r)
      BY <2>5 DEF run_verify_range
    <3>2. r \in [Register -> Nat] /\ r.x4 = 0 /\ r.x5 = c.value
      BY <1>0, <1>1 DEF Register
    <3> HIDE DEF r
    <3>3. QED
      BY <1>1, <2>0, <3>1, <3>2, RunPass DEF Hammers
  <2>6. CASE run_hammer(c)
    <3>1. c.fn = "hammer" /\ pc' = HAMMER_OFF
      BY <2>6 DEF run_hammer
    <3>2. reg' = HammerRegs(reg, Base + Pages, Doorbell, Base)
      BY <2>6, Zenon DEF run_hammer, HammerRegs
    <3>3. /\ reg' \in [Register -> Nat] /\ reg'.x2 = Base + Pages /\ reg'.x3 = Doorbell
          /\ reg'.x4 = 0 /\ reg'.x6 = Base
      <4>1. Base + Pages \in Nat
        BY <1>0
      <4>2. QED
        BY <1>0, <3>2, <4>1, HammerLoads
    <3>4. QED
      BY <1>0, <1>1, <2>0, <3>1, <3>3
  <2>7. QED
    BY <2>1, <2>2, <2>3, <2>4, <2>5, <2>6 DEF BeginCall
<1>4. /\ c.fn \in Short => InShort'
      /\ c.fn \in Hammers => InHammer'
      /\ c.fn = "verify" => InVerify'
  BY <1>0, <1>1, <1>2, <1>3 DEF InShort, InHammer, InVerify, At_, Here, Short
<1>5. c.start < c.end
  BY <1>0, <1>1
<1>6. GuestInv'
  BY <1>0, <1>2, <1>3, <1>4, <1>5 DEF GuestInv, GuestTypes, InCall
<1>7. CursorOf' = c.start /\ PhaseOf' = "walking" /\ CountOf' = 0
  BY <1>0, <1>1, <1>2, <1>3
  DEF CursorOf, PhaseOf, CountOf, Restarting, AccessDone, At_, Short, Hammers
<1>8. PhaseOf \in {"idle", "returned"}
  BY <1>2 DEF PhaseOf
<1>9. Walk!Begin(c)
  BY <1>2, <1>7, <1>8 DEF Walk!Begin
<1>10. QED
  BY <1>6, <1>9

\* A canceled run and its re-entry change nothing the walk sees.
LEMMA CancelStep ==
  ASSUME GuestInv, Canceled \/ ReEnter
  PROVE  GuestInv' /\ Invisible
<1>1. /\ host = "running" /\ exit' \in {"none", "canceled"}
      /\ UNCHANGED <<mem, pc, reg, flags, host, call, calls, old>>
  BY DEF Canceled, ReEnter, cpuVars, callVars
<1>2. GuestInv'
  BY <1>1
  DEF GuestInv, GuestTypes, InCall, InShort, InHammer, InVerify, At_, Here, Past, AtEnd,
      Compared, Found
<1>3. Invisible
  BY <1>1 DEF Invisible, CursorOf, PhaseOf, CountOf, Restarting, AccessDone, At_
<1>4. QED
  BY <1>2, <1>3

\* The doorbell rings at the end of the range: the call returns.
LEMMA ReturnStep ==
  ASSUME GuestInv, DoorbellReturn
  PROVE  GuestInv' /\ (Walk!Return \/ Walk!Stop)
<1>1. /\ host = "running" /\ exit = "doorbell" /\ host' = "returned"
      /\ UNCHANGED <<mem, pc, reg, flags, exit, call, calls, old>>
  BY DEF DoorbellReturn, cpuVars
<1>2. GuestInv'
  BY <1>1
  DEF GuestInv, GuestTypes, InCall, InShort, InHammer, InVerify, AtBell, At_, Here, Past,
      AtEnd, Compared, Found
<1>3. /\ InCall /\ AtBell /\ reg.x1 \in Nat /\ Base \in Nat /\ call.end \in Nat
      /\ call.fn \in Short \cup Hammers \cup {"verify"}
  BY <1>1, InCallFacts DEF InCall
<1> DEFINE e == Entry(call.fn)
<1>4. e \in Nat
  BY <1>3, ShortCode, HammerCode, VerifyCode
<1> HIDE DEF e
<1>5. /\ CursorOf = call.end /\ CursorOf' = CursorOf /\ CountOf' = CountOf
      /\ PhaseOf = (IF call.fn = "hammer" THEN "rung" ELSE "walking")
      /\ PhaseOf' = "returned"
  <2>1. CASE call.fn \in Short
    <3>1. pc = e + 4 /\ AtEnd
      BY <1>3, <1>4, <2>1 DEF AtBell, InCall, InShort, At_, e, Short, Hammers
    <3>2. QED
      BY <1>1, <1>3, <1>4, <2>1, <3>1
      DEF CursorOf, PhaseOf, CountOf, Restarting, AccessDone, At_, AtEnd, Short, e
  <2>2. CASE call.fn \in Hammers
    <3>1. pc = e + 8 /\ AtEnd
      BY <1>3, <1>4, <2>2 DEF AtBell, InCall, InHammer, At_, e, Short, Hammers
    <3>2. QED
      BY <1>1, <1>3, <1>4, <2>2, <3>1
      DEF CursorOf, PhaseOf, CountOf, Restarting, AccessDone, At_, AtEnd, Hammers, e
  <2>3. CASE call.fn = "verify"
    <3>1. pc = e + 7 /\ AtEnd
      BY <1>3, <1>4, <2>3 DEF AtBell, InCall, InVerify, At_, e, Short, Hammers
    <3>2. QED
      BY <1>1, <1>3, <1>4, <2>3, <3>1
      DEF CursorOf, PhaseOf, CountOf, Restarting, AccessDone, At_, AtEnd, e
  <2>4. QED
    BY <1>3, <2>1, <2>2, <2>3
<1>6. Walk!Return \/ Walk!Stop
  BY <1>1, <1>5 DEF Walk!Return, Walk!Stop
<1>7. QED
  BY <1>2, <1>6

\* run_hammer goes on: the host steps over the doorbell, to the branch back.
LEMMA ResumeStep ==
  ASSUME GuestInv, DoorbellResume
  PROVE  GuestInv' /\ Walk!Again
<1>1. /\ host = "running" /\ exit = "doorbell" /\ call.fn = "hammer" /\ reg.x4 < MaxSweeps
      /\ pc' = pc + 1 /\ exit' = "none"
      /\ UNCHANGED <<mem, reg, flags, host, call, calls, old>>
  BY DEF DoorbellResume, Resume, callVars
<1>2. InCall /\ AtBell
  BY <1>1, InCallFacts DEF InCall
<1> DEFINE e == Entry(call.fn)
<1>3. e \in Nat
  BY <1>1, HammerCode DEF Hammers
<1>4. pc = e + 8
  BY <1>1, <1>2 DEF AtBell, At_, Short, Hammers
<1> HIDE DEF e
<1>5. InHammer'
  BY <1>1, <1>3, <1>4 DEF InHammer, At_, e
<1>6. GuestInv'
  BY <1>1, <1>2, <1>5 DEF GuestInv, GuestTypes, InCall, Short
<1>7. /\ PhaseOf = "rung" /\ PhaseOf' = "walking" /\ CursorOf' = call.start
      /\ CountOf = reg.x4 /\ CountOf' = reg.x4
  BY <1>1, <1>3, <1>4 DEF CursorOf, PhaseOf, CountOf, Restarting, At_, e
<1>8. Walk!Again
  BY <1>1, <1>7 DEF Walk!Again
<1>9. QED
  BY <1>6, <1>8

-----------------------------------------------------------------------------
(* The refinement. *)

\* Before the first call, as the walk begins.
LEMMA GuestInitially == GuestInit => GuestInv /\ Walk!WalkInit
<1> SUFFICES ASSUME GuestInit PROVE GuestInv /\ Walk!WalkInit
  OBVIOUS
<1>1. GuestInv
  BY DEF GuestInit, GuestInv, GuestTypes
<1>2. CursorOf = 0 /\ PhaseOf = "idle" /\ CountOf = 0
  BY DEF GuestInit, CursorOf, PhaseOf, CountOf, Walk!NoRequest
<1>3. Walk!WalkInit
  BY <1>2 DEF GuestInit, Walk!WalkInit, Page
<1>4. QED
  BY <1>1, <1>3

\* Every step of the guest and of its host is a step of the walk, or one the
\* walk does not see.
LEMMA GuestStep ==
  ASSUME MinPages > 0
  PROVE  GuestInv /\ [GuestNext]_guestVars => GuestInv' /\ [Walk!WalkNext]_(Walk!walkVars)
<1> SUFFICES ASSUME GuestInv, [GuestNext]_guestVars
             PROVE  GuestInv' /\ [Walk!WalkNext]_(Walk!walkVars)
  OBVIOUS
<1>0. Invisible => UNCHANGED Walk!walkVars
  BY DEF Invisible, Walk!walkVars
<1>1. CASE \E c \in Walk!Requests : BeginCall(c)
  BY <1>1, BeginStep DEF Walk!WalkNext
<1>2. CASE Exec
  <2>1. host = "running"
    BY <1>2 DEF Exec, ExecStr, ExecLdr, ExecMov, ExecAdd, ExecCmp, ExecBranch, Fetch
  <2>2. call.fn \in Short \cup Hammers \cup {"verify"}
    BY <2>1, InCallFacts
  <2>3. GuestInv' /\ (Walk!Visit \/ Walk!Ring \/ Invisible)
    BY <1>2, <2>1, <2>2, ShortStep, HammerStep, VerifyStep
  <2>4. QED
    BY <1>0, <2>3 DEF Walk!WalkNext
<1>3. CASE Canceled \/ ReEnter
  BY <1>0, <1>3, CancelStep
<1>4. CASE DoorbellReturn
  BY <1>4, ReturnStep DEF Walk!WalkNext
<1>5. CASE DoorbellResume
  BY <1>5, ResumeStep DEF Walk!WalkNext
<1>6. CASE UNCHANGED guestVars
  <2>1. UNCHANGED <<mem, pc, reg, flags, exit, host, call, calls, old>>
    BY <1>6 DEF guestVars, cpuVars, callVars
  <2>2. GuestInv'
    BY <2>1
    DEF GuestInv, GuestTypes, InCall, InShort, InHammer, InVerify, AtBell, At_, Here, Past,
        AtEnd, Compared, Found
  <2>3. Invisible
    BY <2>1 DEF Invisible, CursorOf, PhaseOf, CountOf, Restarting, AccessDone, At_
  <2>4. QED
    BY <1>0, <2>2, <2>3
<1>7. QED
  BY <1>1, <1>2, <1>3, <1>4, <1>5, <1>6 DEF GuestNext

(***************************************************************************)
(* What the registers and flags hold at every instruction of every         *)
(* program, for any range of at least a page: a do-while loop visits its   *)
(* first page without looking.                                             *)
(***************************************************************************)
THEOREM GuestInvariant == ASSUME MinPages > 0 PROVE GuestSpec => []GuestInv
<1>1. GuestInit => GuestInv
  BY GuestInitially
<1>2. GuestInv /\ [GuestNext]_guestVars => GuestInv'
  BY GuestStep
<1>3. QED
  BY <1>1, <1>2, PTL DEF GuestSpec

(***************************************************************************)
(* The guest programs implement the page walks, with runs canceled at any  *)
(* instruction and registers left over from any earlier call.              *)
(***************************************************************************)
THEOREM GuestImplementsWalk == ASSUME MinPages > 0 PROVE GuestSpec => ImplementsPageWalk
<1>1. GuestInit => Walk!WalkInit
  BY GuestInitially
<1>2. GuestInv /\ [GuestNext]_guestVars => [Walk!WalkNext]_(Walk!walkVars)
  BY GuestStep
<1>3. QED
  BY <1>1, <1>2, GuestInvariant, PTL DEF GuestSpec, ImplementsPageWalk, Walk!WalkSpec

(***************************************************************************)
(* No run ends on anything but a cancel or the doorbell: run_to_doorbell   *)
(* never panics over an exit, and no program reaches its halt loop.        *)
(***************************************************************************)
THEOREM OnlyTheDoorbell ==
  ASSUME MinPages > 0
  PROVE  GuestSpec => [](exit # "panic" /\ (host = "running" => I.op # "wfi"))
<1>1. GuestInv => exit # "panic"
  BY DEF GuestInv, GuestTypes
<1>2. GuestInv /\ host = "running" => I.op # "wfi"
  <2> SUFFICES ASSUME GuestInv, host = "running" PROVE I.op # "wfi"
    OBVIOUS
  <2> DEFINE e == Entry(call.fn)
  <2>0. InCall /\ call.fn \in Short \cup Hammers \cup {"verify"}
    BY InCallFacts
  <2>9. /\ \A t, n : /\ Str(t, n).op # "wfi" /\ Ldr(t, n).op # "wfi"
                     /\ Mov(t, n).op # "wfi" /\ Cmp(t, n).op # "wfi" /\ Add(t, n).op # "wfi"
        /\ \A n : Blo(n).op # "wfi" /\ Beq(n).op # "wfi" /\ B(n).op # "wfi"
        /\ NextPage.op # "wfi"
    BY DEF Insn, Str, Ldr, Mov, Cmp, Add, NextPage, Blo, Beq, B
  <2> HIDE DEF e
  <2>1. CASE call.fn \in Short
    <3>1. pc \in {e, e + 1, e + 2, e + 3, e + 4}
      BY <2>0, <2>1, ShortCode DEF InCall, InShort, At_, e
    <3>2. QED
      BY <2>1, <2>9, <3>1, ShortCode DEF Short, I, e
  <2>2. CASE call.fn \in Hammers
    <3>1. pc \in {e, e + 1, e + 2, e + 3, e + 4, e + 5, e + 6, e + 7, e + 8, e + 9}
      BY <2>0, <2>2, HammerCode DEF InCall, InHammer, At_, e
    <3>2. QED
      BY <2>2, <2>9, <3>1, HammerCode DEF I, e
  <2>3. CASE call.fn = "verify"
    <3>1. pc \in {e, e + 1, e + 2, e + 3, e + 4, e + 5, e + 6, e + 7}
      BY <2>0, <2>3, VerifyCode DEF InCall, InVerify, At_, e
    <3>2. QED
      BY <2>3, <2>9, <3>1, VerifyCode DEF I, e
  <2>4. QED
    BY <2>0, <2>1, <2>2, <2>3
<1>3. QED
  BY <1>1, <1>2, GuestInvariant, PTL
-----------------------------------------------------------------------------
(* What is proved of the page walks holds of the guest programs. *)

WalkResults == INSTANCE PageWalkProofs
                 WITH cursor <- CursorOf, phase <- PhaseOf, count <- CountOf

\* The walks of that instance are the walks that the programs implement.
LEMMA SameWalks ==
  /\ Walk!WalkInit <=> WalkResults!WalkInit
  /\ [Walk!WalkNext]_(Walk!walkVars) <=> [WalkResults!WalkNext]_(WalkResults!walkVars)
  /\ Walk!WalkExact <=> WalkResults!WalkExact
  /\ Walk!VerifyCounts <=> WalkResults!VerifyCounts
<1>1. /\ Walk!Page = WalkResults!Page
      /\ Walk!Requests = WalkResults!Requests
      /\ Walk!NoRequest = WalkResults!NoRequest
      /\ Walk!walkVars = WalkResults!walkVars
      /\ UNCHANGED Walk!walkVars <=> UNCHANGED WalkResults!walkVars
  BY DEF Walk!Page, WalkResults!Page, Walk!Requests, WalkResults!Requests,
     Walk!Function, WalkResults!Function, Walk!NoRequest,
     WalkResults!NoRequest, Walk!walkVars, WalkResults!walkVars
<1>2. \A c : Walk!Begin(c) <=> WalkResults!Begin(c)
  BY Zenon DEF Walk!Begin, WalkResults!Begin
<1>3. Walk!Visit <=> WalkResults!Visit
  BY Zenon DEF Walk!Visit, WalkResults!Visit, Walk!Effect, WalkResults!Effect
<1>4. /\ Walk!Return <=> WalkResults!Return
      /\ Walk!Ring <=> WalkResults!Ring
      /\ Walk!Again <=> WalkResults!Again
      /\ Walk!Stop <=> WalkResults!Stop
  BY Zenon DEF Walk!Return, WalkResults!Return, Walk!Ring, WalkResults!Ring,
     Walk!Again, WalkResults!Again, Walk!Stop, WalkResults!Stop
<1>5. Walk!WalkInit <=> WalkResults!WalkInit
  BY <1>1, Zenon DEF Walk!WalkInit, WalkResults!WalkInit
<1>6. [Walk!WalkNext]_(Walk!walkVars) <=> [WalkResults!WalkNext]_(WalkResults!walkVars)
  BY <1>1, <1>2, <1>3, <1>4, Zenon DEF Walk!WalkNext, WalkResults!WalkNext
<1>7. Walk!WalkExact <=> WalkResults!WalkExact
  BY Zenon DEF Walk!WalkExact, WalkResults!WalkExact, Walk!Page,
     WalkResults!Page, Walk!Sweeps, WalkResults!Sweeps, Walk!Visited,
     WalkResults!Visited, Walk!Effect, WalkResults!Effect
<1>8. Walk!VerifyCounts <=> WalkResults!VerifyCounts
  BY Zenon DEF Walk!VerifyCounts, WalkResults!VerifyCounts, Walk!Visited,
     WalkResults!Visited, Walk!Cardinality, WalkResults!Cardinality
<1>9. QED
  BY <1>5, <1>6, <1>7, <1>8

(***************************************************************************)
(* At every instruction a pass has had its effect on exactly the pages its *)
(* registers say it has visited, and run_verify_range has counted exactly  *)
(* the pages that differ, whatever ran before and wherever a run was       *)
(* canceled.                                                               *)
(***************************************************************************)
THEOREM GuestPassesAreExact ==
  ASSUME MinPages > 0
  PROVE  GuestSpec => [](Walk!WalkExact /\ Walk!VerifyCounts)
<1>1. GuestInit => WalkResults!WalkInv
  BY GuestInitially, WalkResults!WalkInitInv, SameWalks, GuestAssumption
<1>2. GuestInv /\ WalkResults!WalkInv /\ [GuestNext]_guestVars => WalkResults!WalkInv'
  BY GuestStep, WalkResults!WalkStepInv, SameWalks, GuestAssumption
<1>3. WalkResults!WalkInv => Walk!WalkExact /\ Walk!VerifyCounts
  BY SameWalks DEF WalkResults!WalkInv
<1>4. QED
  BY <1>1, <1>2, <1>3, GuestInvariant, PTL DEF GuestSpec
=============================================================================
