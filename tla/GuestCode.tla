------------------------------ MODULE GuestCode ------------------------------
(***************************************************************************)
(* The guest programs of crates/hv-reclaim/src/guest.rs, instruction by    *)
(* instruction, and the host loops that drive them.                        *)
(*                                                                         *)
(* One vCPU runs a sequence of calls.  A call sets some registers and      *)
(* leaves the others as the last program left them; hv_vcpu_run executes   *)
(* until an exit: the doorbell store, a canceled run, or any other data    *)
(* abort, on which the host panics.  Addresses are counted in 16 KiB pages *)
(* and code in instructions.                                               *)
(*                                                                         *)
(* mem      first word of every page of guest RAM                          *)
(* pc, reg  index into the code page; registers x1 .. x6                   *)
(* flags    what the last cmp found: unsigned lower, equal                 *)
(* exit     "none" (guest code runs), "canceled", "doorbell", "panic"      *)
(* host     "idle", "running" (inside a call) or "returned"                *)
(* call, calls, old   as in PageWalk                                       *)
(***************************************************************************)
EXTENDS Integers, Sequences

CONSTANTS Pages, Base, Values, MinPages, MaxCalls, MaxSweeps,
          Doorbell    \* DOORBELL_GPA, outside guest RAM

ASSUME GuestAssumption ==
  /\ Pages \in Nat
  /\ Base \in Nat
  /\ Values \subseteq Nat
  /\ MinPages \in Nat
  /\ MaxCalls \in Nat
  /\ MaxSweeps \in Nat

ASSUME DoorbellAssumption == Doorbell \in Nat /\ Doorbell \notin Base..Base + Pages - 1

VARIABLES mem, pc, reg, flags, exit, host, call, calls, old

cpuVars == <<mem, pc, reg, flags>>
callVars == <<host, call, calls, old>>
guestVars == <<cpuVars, exit, callVars>>

-----------------------------------------------------------------------------
(* The programs.  Branch offsets are the signed immediates of the encoded  *)
(* words, counted in instructions from the branch itself.                  *)

Insn(op, a, b) == [op |-> op, a |-> a, b |-> b, k |-> 0]
Str(t, n) == Insn("str", t, n)          \* str t, [n]
Ldr(t, n) == Insn("ldr", t, n)          \* ldr t, [n]
Mov(d, n) == Insn("mov", d, n)
Cmp(n, m) == Insn("cmp", n, m)
Add(d, i) == [Insn("add", d, d) EXCEPT !.k = i]
NextPage == Add("x1", 1)                \* add x1, x1, #4, lsl #12
Blo(i) == [Insn("b.lo", "", "") EXCEPT !.k = i]
Beq(i) == [Insn("b.eq", "", "") EXCEPT !.k = i]
B(i) == [Insn("b", "", "") EXCEPT !.k = i]
Wfi == Insn("wfi", "", "")

TOUCH_CODE ==
  <<Str("x1", "x1"), NextPage, Cmp("x1", "x2"), Blo(-3),
    Str("xzr", "x3"), Wfi, B(-1)>>
HAMMER_CODE ==
  <<Mov("x1", "x6"), Ldr("x5", "x1"), Add("x5", 1), Str("x5", "x1"),
    NextPage, Cmp("x1", "x2"), Blo(-5), Add("x4", 1), Str("x4", "x3"), B(-9)>>

READ_CODE ==
  <<Ldr("x5", "x1"), NextPage, Cmp("x1", "x2"), Blo(-3),
    Str("xzr", "x3"), Wfi, B(-1)>>

VERIFY_CODE ==
  <<Ldr("x6", "x1"), Cmp("x6", "x5"), Beq(2), Add("x4", 1), NextPage,
    Cmp("x1", "x2"), Blo(-6), Str("x4", "x3"), Wfi, B(-1)>>

FILL_CODE ==
  <<Str("x5", "x1"), NextPage, Cmp("x1", "x2"), Blo(-3),
    Str("xzr", "x3"), Wfi, B(-1)>>

TOUCH_OFF == 0
HAMMER_OFF == 32      \* 0x80
READ_OFF == 64        \* 0x100
VERIFY_OFF == 96      \* 0x180
FILL_OFF == 128       \* 0x200

\* write_code_page: a program written later overwrites what it overlaps.
Place(page, off, code) ==
  [w \in DOMAIN page \cup off..off + Len(code) - 1 |->
     IF w \in off..off + Len(code) - 1 THEN code[w - off + 1] ELSE page[w]]
write_code_page ==
  LET touch == Place(<<>>, TOUCH_OFF, TOUCH_CODE)
      hammer == Place(touch, HAMMER_OFF, HAMMER_CODE)
      read == Place(hammer, READ_OFF, READ_CODE)
      verify == Place(read, VERIFY_OFF, VERIFY_CODE)
  IN  Place(verify, FILL_OFF, FILL_CODE)

Entry(fn) ==
  CASE fn = "touch" -> TOUCH_OFF
    [] fn = "read" -> READ_OFF
    [] fn \in {"sweep", "hammer"} -> HAMMER_OFF
    [] fn = "verify" -> VERIFY_OFF
    [] fn = "fill" -> FILL_OFF

-----------------------------------------------------------------------------
(* The refinement mapping.  A page counts as visited from the instruction  *)
(* after its access up to the page step; run_hammer's cursor is already    *)
(* back at the first page when the host has stepped PC past the doorbell.  *)

At_(i) == pc = Entry(call.fn) + i

AccessDone ==
  CASE call.fn \in {"touch", "fill", "read"} -> At_(1)
    [] OTHER -> At_(4)

Restarting == call.fn \in {"sweep", "hammer"} /\ (At_(9) \/ At_(0))

CursorOf ==
  CASE host = "idle" -> 0
    [] host # "idle" /\ Restarting -> call.start
    [] OTHER -> reg.x1 - Base + (IF AccessDone THEN 1 ELSE 0)

PhaseOf ==
  IF host = "running" /\ call.fn = "hammer" /\ At_(8) THEN "rung"
  ELSE IF host = "running" THEN "walking" ELSE host

CountOf == IF call.fn \in {"verify", "hammer"} THEN reg.x4 ELSE 0

Walk == INSTANCE PageWalk
          WITH cursor <- CursorOf, phase <- PhaseOf, count <- CountOf

Page == Walk!Page

-----------------------------------------------------------------------------
Register == {"x1", "x2", "x3", "x4", "x5", "x6"}

GuestInit ==
  /\ mem = [p \in Page |-> 0]
  /\ pc = 0
  /\ reg = [r \in Register |-> 0]
  /\ flags = [lo |-> FALSE, eq |-> FALSE]
  /\ exit = "none"
  /\ host = "idle"
  /\ call = Walk!NoRequest
  /\ calls = 0
  /\ old = mem

-----------------------------------------------------------------------------
(* The host: entry of a call. *)

\* run_pass, with the registers r its caller has already set.
run_pass(c, entry, r) ==
  /\ pc' = entry
  /\ reg' = [r EXCEPT !.x1 = Base + c.start, !.x2 = Base + c.end,
                      !.x3 = Doorbell]

run_touch_range(c) == c.fn = "touch" /\ run_pass(c, TOUCH_OFF, reg)

run_read_pass(c) == c.fn = "read" /\ run_pass(c, READ_OFF, reg)

run_sweep_range(c) ==
  /\ c.fn = "sweep"
  /\ run_pass(c, HAMMER_OFF, [reg EXCEPT !.x6 = Base + c.start])

run_fill_range(c) ==
  /\ c.fn = "fill"
  /\ run_pass(c, FILL_OFF, [reg EXCEPT !.x5 = c.value])

run_verify_range_stale(c) ==
  /\ c.fn = "verify"
  /\ run_pass(c, VERIFY_OFF, [reg EXCEPT !.x5 = c.value])
run_verify_range(c) ==
  /\ c.fn = "verify"
  /\ run_pass(c, VERIFY_OFF, [reg EXCEPT !.x4 = 0, !.x5 = c.value])

run_hammer(c) ==
  /\ c.fn = "hammer"
  /\ pc' = HAMMER_OFF
  /\ reg' = [reg EXCEPT !.x2 = Base + Pages, !.x3 = Doorbell, !.x4 = 0,
                        !.x6 = Base]

BeginCall(c) ==
  /\ host \in {"idle", "returned"}
  /\ calls < MaxCalls
  /\ \/ run_touch_range(c)
     \/ run_read_pass(c)
     \/ run_sweep_range(c)
     \/ run_fill_range(c)
     \/ run_verify_range(c)
     \/ run_hammer(c)
  /\ exit' = "none"
  /\ host' = "running"
  /\ call' = c
  /\ calls' = calls + 1
  /\ old' = mem
  /\ UNCHANGED <<mem, flags>>

-----------------------------------------------------------------------------
(* The vCPU. *)

Fetch(op) ==
  /\ host = "running"
  /\ exit = "none"
  /\ write_code_page[pc].op = op

I == write_code_page[pc]
Reg(r) == IF r = "xzr" THEN 0 ELSE reg[r]
InRam(a) == a - Base \in Page

\* A data abort leaves PC at the access: the doorbell, or anything else.
Abort(a) ==
  /\ exit' = IF a = Doorbell THEN "doorbell" ELSE "panic"
  /\ UNCHANGED <<cpuVars, callVars>>

Done == UNCHANGED <<exit, callVars>>

ExecStr ==
  /\ Fetch("str")
  /\ IF InRam(Reg(I.b))
       THEN /\ mem' = [mem EXCEPT ![Reg(I.b) - Base] = Reg(I.a)]
            /\ pc' = pc + 1
            /\ UNCHANGED <<reg, flags>>
            /\ Done
       ELSE Abort(Reg(I.b))

ExecLdr ==
  /\ Fetch("ldr")
  /\ IF InRam(Reg(I.b))
       THEN /\ reg' = [reg EXCEPT ![I.a] = mem[Reg(I.b) - Base]]
            /\ pc' = pc + 1
            /\ UNCHANGED <<mem, flags>>
            /\ Done
       ELSE Abort(Reg(I.b))

ExecMov ==
  /\ Fetch("mov")
  /\ reg' = [reg EXCEPT ![I.a] = Reg(I.b)]
  /\ pc' = pc + 1
  /\ UNCHANGED <<mem, flags>>
  /\ Done

ExecAdd ==
  /\ Fetch("add")
  /\ reg' = [reg EXCEPT ![I.a] = @ + I.k]
  /\ pc' = pc + 1
  /\ UNCHANGED <<mem, flags>>
  /\ Done

ExecCmp ==
  /\ Fetch("cmp")
  /\ flags' = [lo |-> Reg(I.a) < Reg(I.b), eq |-> Reg(I.a) = Reg(I.b)]
  /\ pc' = pc + 1
  /\ UNCHANGED <<mem, reg>>
  /\ Done

ExecBranch ==
  /\ \/ Fetch("b.lo") /\ pc' = pc + (IF flags.lo THEN I.k ELSE 1)
     \/ Fetch("b.eq") /\ pc' = pc + (IF flags.eq THEN I.k ELSE 1)
     \/ Fetch("b") /\ pc' = pc + I.k
  /\ UNCHANGED <<mem, reg, flags>>
  /\ Done

Exec == ExecStr \/ ExecLdr \/ ExecMov \/ ExecAdd \/ ExecCmp \/ ExecBranch

-----------------------------------------------------------------------------
(* The host: exits. *)

\* hv_vcpu_run may return with the run canceled at any instruction ...
Canceled ==
  /\ host = "running"
  /\ exit = "none"
  /\ exit' = "canceled"
  /\ UNCHANGED <<cpuVars, callVars>>

\* ... and the loop just re-enters.
ReEnter ==
  /\ host = "running"
  /\ exit = "canceled"
  /\ exit' = "none"
  /\ UNCHANGED <<cpuVars, callVars>>

\* The doorbell ends a pass, and run_hammer when keep_going says no.
DoorbellReturn ==
  /\ host = "running"
  /\ exit = "doorbell"
  /\ host' = "returned"
  /\ UNCHANGED <<cpuVars, exit, call, calls, old>>

\* keep_going says yes: step PC past the doorbell store and re-enter.
ResumeAtDoorbell == UNCHANGED pc
Resume == pc' = pc + 1

DoorbellResume ==
  /\ host = "running"
  /\ exit = "doorbell"
  /\ call.fn = "hammer"
  /\ reg.x4 < MaxSweeps
  /\ Resume
  /\ exit' = "none"
  /\ UNCHANGED <<mem, reg, flags, callVars>>

GuestNext ==
  \/ \E c \in Walk!Requests : BeginCall(c)
  \/ Exec
  \/ Canceled
  \/ ReEnter
  \/ DoorbellReturn
  \/ DoorbellResume

(***************************************************************************)
(* The vCPU executes between canceled runs (each re-entry runs guest code  *)
(* unless it is canceled at once, and nothing in the program cancels runs  *)
(* for ever), the host handles every exit, keep_going says no in the end.  *)
(***************************************************************************)
GuestFairness ==
  /\ SF_guestVars(Exec)
  /\ WF_guestVars(ReEnter)
  /\ WF_guestVars(DoorbellReturn \/ DoorbellResume)

GuestSpec == GuestInit /\ [][GuestNext]_guestVars /\ GuestFairness

-----------------------------------------------------------------------------
(***************************************************************************)
(* The programs and their host loops implement the page walks: with runs   *)
(* canceled anywhere and registers left over from any earlier call, every  *)
(* page of the range is visited once per sweep, no other page is touched,  *)
(* and the value returned is the walk's.                                   *)
(***************************************************************************)
ImplementsPageWalk == Walk!WalkSpec

(***************************************************************************)
(* Every call returns: the loop branches reach the doorbell, and neither   *)
(* an unexpected exit nor the halt loop is ever reached.                   *)
(***************************************************************************)
CallReturns == host = "running" ~> host = "returned"
=============================================================================
