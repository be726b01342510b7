------------------------------ MODULE CpuLoop ------------------------------
(***************************************************************************)
(* The CPU thread's main loop of src/src/cpu/cpu.c (cpu_loop, cpu_do_wait, *)
(* cpu_do_stop, cpu_state_change, cpu_mem_fail, cpu_do_clear) with the     *)
(* control of cpu_do_cycle, and the two kinds of threads that act on it:   *)
(* the operator (ectl: requests state changes through cpu_state_change)   *)
(* and the I/O threads (int_set: raise a channel interrupt).               *)
(*                                                                         *)
(* cpu_state is a bit set, as in the code: cpu_do_stop masks it and        *)
(* cpu_do_wait leaves WAIT with "cpu_state &= ~WAIT", which yields RUN, so *)
(* RUN is the empty set and every other state one bit.                     *)
(*                                                                         *)
(* The loop reads the state without the mutex and then acts on what it     *)
(* read, so a read and the work it selects are two steps.  An instruction  *)
(* is abstracted to the kind of control it exercises; registers and       *)
(* memory are left out, a memory access is "faults or not".               *)
(***************************************************************************)
EXTENDS Integers, FiniteSets

CONSTANTS SpeedReal,   \* cpu:speed_real
          NomemStop,   \* cpu:stop_on_nomem
          Instrs,      \* instruction kinds the program may execute
          OpRequests,  \* <<to, from>> requests the operator may make
          NONE

Bits == {"STOP", "WAIT", "CLM", "CLO", "OFF", "CYCLE", "BIN"}
RUN == {}
STOP == {"STOP"}
WAIT == {"WAIT"}
CLM == {"CLM"}
CLO == {"CLO"}
OFF == {"OFF"}
CYCLE == {"CYCLE"}
BIN == {"BIN"}
ANY == Bits
States == {RUN, STOP, WAIT, CLM, CLO, OFF, CYCLE, BIN}

\* Interrupt sources the model distinguishes, by service priority.
Prio == [NOMEM |-> 3, ILLEGAL |-> 2, CHAN |-> 1]
Sources == DOMAIN Prio

InstrKinds == {"NORM", "SETP", "MD", "HLT", "MCL", "ILL", "NEF",
               "FETCHFAULT", "ARGFAULT", "EXECFAULT"}

ASSUME /\ SpeedReal \in BOOLEAN /\ NomemStop \in BOOLEAN
       /\ Instrs \subseteq InstrKinds
       /\ OpRequests \subseteq (States \ {WAIT}) \X (States \cup {ANY})

VARIABLES cpu_state,  \* cpu_state
          pc,         \* where the CPU thread is in cpu_loop
          seen,       \* the state cpu_loop read at the top of the loop
          p,          \* p: skip the next instruction
          mc,         \* mc: modification counter
          rp,         \* pending interrupt sources (rp != 0)
          rALARM,     \* rALARM
          opPending   \* ghost: the operator's last accepted request, until
                      \* the CPU thread reads the state

vars == <<cpu_state, pc, seen, p, mc, rp, rALARM, opPending>>

-----------------------------------------------------------------------------
\* cpu_state_change(to, from) applied to state s.
CasOn(s, to, from) == IF from = ANY \/ s = from THEN to ELSE s

\* pthread_cond_broadcast(&cpu_wake_cond): a CPU thread blocked in
\* cpu_do_stop or cpu_do_wait wakes and rechecks its condition.
Wake(q) == CASE q = "stopwait" -> "stopwoken"
             [] q = "waiting"  -> "woken"
             [] OTHER          -> q

\* The CPU thread's registers as one record, so the steps of a cycle compose.
Regs == [p |-> p, mc |-> mc, rp |-> rp, st |-> cpu_state, alarm |-> rALARM]

\* cpu_mem_fail: NO_MEM; outside the user block also ALARM and, with
\* stop_on_nomem, STOP from ANY state.
MemFail(r, barnb) ==
    [r EXCEPT !.rp = @ \cup {"NOMEM"},
              !.alarm = @ \/ ~barnb,
              !.st = IF ~barnb /\ NomemStop THEN CasOn(@, STOP, ANY) ELSE @]

\* The "ineffective:" exit of cpu_do_cycle.
Ineffective(r) == [r EXCEPT !.p = FALSE, !.mc = 0]

\* op_77_md
MdOp(r) ==
    IF r.mc >= 3 THEN [r EXCEPT !.rp = @ \cup {"ILLEGAL"}, !.mc = 0]
    ELSE [r EXCEPT !.mc = @ + 1]

\* Mutant: HLT entering WAIT from any state.
HltOp_any(r) == [r EXCEPT !.st = CasOn(@, WAIT, ANY)]

\* op_73_hlt: WAIT from RUN.
HltOp(r) == [r EXCEPT !.st = CasOn(@, WAIT, RUN)]

\* op_73_mcl: CLM from RUN.
MclOp(r) == [r EXCEPT !.st = CasOn(@, CLM, RUN)]

\* The handler runs (op->fun()); then mc = 0 unless it was MD.  SETP is a
\* test that sets p (BB, IB, ...), HLT is op_73_hlt, MCL op_73_mcl,
\* EXECFAULT a handler whose memory access faults, NORM any other one.
Execute(i, barnb, r) ==
    LET e == CASE i = "SETP"      -> [r EXCEPT !.p = TRUE]
               [] i = "MD"        -> MdOp(r)
               [] i = "HLT"       -> HltOp(r)
               [] i = "MCL"       -> MclOp(r)
               [] i = "EXECFAULT" -> MemFail(r, barnb)
               [] OTHER           -> r
    IN  IF i = "MD" THEN e ELSE [e EXCEPT !.mc = 0]

\* cpu_do_cycle on registers r: fetch (may fault), skip when p is set or
\* a conditional jump's condition fails (NEF), illegal and 4th-MD checks,
\* argument fetch (may fault), execute.
DoCycle(i, barnb, r) ==
    CASE i = "FETCHFAULT"            -> Ineffective(MemFail(r, barnb))
      [] r.p \/ i = "NEF"            -> Ineffective(r)
      [] i = "ILL" \/ (i = "MD" /\ r.mc = 3) ->
                                        Ineffective([r EXCEPT !.rp = @ \cup {"ILLEGAL"}])
      [] i = "ARGFAULT"              -> Ineffective(MemFail(r, barnb))
      [] OTHER                       -> Execute(i, barnb, r)

\* int_serve (interrupts.c, from the spec): take the highest-priority
\* pending source and switch context; the switch's memory accesses are
\* outside the user block and may fault.
Top(s) == CHOOSE x \in s : \A y \in s : Prio[y] <= Prio[x]
Serve(r, fault) ==
    LET r1 == [r EXCEPT !.rp = @ \ {Top(@)}]
    IN  IF fault THEN MemFail(r1, FALSE) ELSE r1

\* An interrupt is deliverable: rp && !p && !mc.
Deliverable(r) == r.rp # {} /\ ~r.p /\ r.mc = 0

SetRegs(r) ==
    /\ p' = r.p /\ mc' = r.mc /\ rp' = r.rp /\ cpu_state' = r.st /\ rALARM' = r.alarm

-----------------------------------------------------------------------------
(* The CPU thread.                                                         *)

\* state = atom_load_acquire(&cpu_state)
Read ==
    /\ pc = "top"
    /\ pc' = "act"
    /\ seen' = cpu_state
    /\ opPending' = NONE
    /\ UNCHANGED <<cpu_state, p, mc, rp, rALARM>>

\* case CYCLE (falls through) and case RUN: serve a deliverable interrupt,
\* else one cycle and, if a breakpoint hits, STOP from RUN.
RunTick ==
    /\ pc = "act" /\ seen \in {CYCLE, RUN}
    /\ LET r0 == [Regs EXCEPT !.st = IF seen = CYCLE THEN CasOn(@, STOP, CYCLE) ELSE @]
       IN  \/ /\ Deliverable(r0)
              /\ \E fault \in BOOLEAN : SetRegs(Serve(r0, fault))
           \/ /\ ~Deliverable(r0)
              /\ \E i \in Instrs, barnb, brk \in BOOLEAN :
                    LET r1 == DoCycle(i, barnb, r0)
                    IN  SetRegs([r1 EXCEPT !.st = IF brk THEN CasOn(@, STOP, RUN) ELSE @])
    /\ pc' = "top"
    /\ UNCHANGED <<seen, opPending>>

\* case OFF: leave the loop.
OffExit ==
    /\ pc = "act" /\ seen = OFF
    /\ pc' = "exited"
    /\ UNCHANGED <<cpu_state, seen, p, mc, rp, rALARM, opPending>>

\* case CLM / CLO: cpu_do_clear (int_clear_all; CLO also clears rALARM and
\* mc), then RUN from CLM or STOP from CLO.
Clear ==
    /\ pc = "act" /\ seen \in {CLM, CLO}
    /\ rp' = {}
    /\ rALARM' = (rALARM /\ seen = CLM)
    /\ mc' = IF seen = CLO THEN 0 ELSE mc
    /\ cpu_state' = IF seen = CLM THEN CasOn(cpu_state, RUN, CLM) ELSE CasOn(cpu_state, STOP, CLO)
    /\ pc' = "top"
    /\ UNCHANGED <<seen, p, opPending>>

\* case BIN: one cpu_do_bin step; at the end marker STOP from BIN.  A word
\* written to a missing segment faults like any access.
BinStep ==
    /\ pc = "act" /\ seen = BIN
    /\ \E done, fault, barnb \in BOOLEAN :
          SetRegs(IF done THEN [Regs EXCEPT !.st = CasOn(@, STOP, BIN)]
                  ELSE IF fault THEN MemFail(Regs, barnb) ELSE Regs)
    /\ pc' = "top"
    /\ UNCHANGED <<seen, opPending>>

\* Mutant: cpu_do_stop blocking while any of the masked bits is set.
StopBlocks_anyBit(s) == s \cap {"STOP", "OFF", "CLO", "CLM", "CYCLE", "BIN"} # {}

\* cpu_do_stop's loop condition.
StopBlocks(s) == s \cap {"STOP", "OFF", "CLO", "CLM", "CYCLE", "BIN"} = STOP

\* case STOP: cpu_do_stop, entered or rechecked after a broadcast.
DoStop ==
    /\ \/ pc = "act" /\ seen = STOP
       \/ pc = "stopwoken"
    /\ pc' = IF StopBlocks(cpu_state) THEN "stopwait" ELSE "top"
    /\ UNCHANGED <<cpu_state, seen, p, mc, rp, rALARM, opPending>>

\* Mutant: cpu_do_wait blocking on the state alone.
WaitBlocks_noRp(s) == s = WAIT

\* cpu_do_wait's loop condition.
WaitBlocks(s) == s = WAIT /\ ~Deliverable(Regs)

\* Mutant: leaving WAIT with an exclusive or instead of clearing the bit.
ClearWaitBit_xor(s) == IF "WAIT" \in s THEN s \ {"WAIT"} ELSE s \cup {"WAIT"}

\* cpu_state &= ~ECTL_STATE_WAIT
ClearWaitBit(s) == s \ {"WAIT"}

\* case WAIT.  speed_real: RUN from WAIT if an interrupt is deliverable,
\* else sleep a granule.  Otherwise cpu_do_wait: under the mutex wait
\* while WAIT and nothing deliverable, then clear the WAIT bit.
DoWait ==
    /\ \/ pc = "act" /\ seen = WAIT
       \/ pc = "woken"
    /\ IF SpeedReal
       THEN /\ cpu_state' = IF Deliverable(Regs) THEN CasOn(cpu_state, RUN, WAIT) ELSE cpu_state
            /\ pc' = "top"
       ELSE IF WaitBlocks(cpu_state)
            THEN pc' = "waiting" /\ UNCHANGED cpu_state
            ELSE pc' = "top" /\ cpu_state' = ClearWaitBit(cpu_state)
    /\ UNCHANGED <<seen, p, mc, rp, rALARM, opPending>>

CpuStep == Read \/ RunTick \/ OffExit \/ Clear \/ BinStep \/ DoStop \/ DoWait

-----------------------------------------------------------------------------
(* The other threads.                                                      *)

\* The operator: cpu_state_change(to, from) under the mutex, broadcast on
\* success (ectl, from the spec).
OpRequest(to, from) ==
    /\ from = ANY \/ cpu_state = from
    /\ cpu_state' = to
    /\ pc' = Wake(pc)
    /\ opPending' = to
    /\ UNCHANGED <<seen, p, mc, rp, rALARM>>

\* int_set from an I/O thread (interrupts.c, from the spec): set the pending
\* bit and wake a CPU waiting in WAIT.
IntSet ==
    /\ "CHAN" \notin rp
    /\ rp' = rp \cup {"CHAN"}
    /\ pc' = Wake(pc)
    /\ UNCHANGED <<cpu_state, seen, p, mc, rALARM, opPending>>

\* cpu_loop starts with STOP from ANY.
Init ==
    /\ cpu_state = STOP
    /\ pc = "top"
    /\ seen = STOP
    /\ p = FALSE
    /\ mc = 0
    /\ rp = {}
    /\ rALARM = FALSE
    /\ opPending = NONE

Next ==
    \/ CpuStep
    \/ \E r \in OpRequests : OpRequest(r[1], r[2])
    \/ IntSet

\* The CPU thread runs whenever it is not blocked; the operator and the
\* devices act when they please.
Spec == Init /\ [][Next]_vars /\ WF_vars(CpuStep)

-----------------------------------------------------------------------------
TypeOK ==
    /\ cpu_state \in States
    /\ pc \in {"top", "act", "stopwait", "stopwoken", "waiting", "woken", "exited"}
    /\ seen \in States
    /\ p \in BOOLEAN
    /\ mc \in 0..3
    /\ rp \subseteq Sources
    /\ rALARM \in BOOLEAN
    /\ opPending \in States \cup {NONE}

(* A STOP or OFF the operator requested is never undone by the CPU thread  *)
(* before cpu_loop has read it: the loop's own state changes are compare-  *)
(* and-set from the state it read (cpu_state_change(to, from)), so a       *)
(* request made between its read and its action wins.                     *)
OperatorStopKept == opPending \in {STOP, OFF} => cpu_state = opPending

(* A CPU waiting in WAIT (HLT) with a deliverable interrupt leaves WAIT:   *)
(* cpu_do_wait rechecks rp under the mutex before it sleeps, and int_set   *)
(* wakes it, so an interrupt arriving around HLT is not lost.              *)
WaitWakes == (cpu_state = WAIT /\ Deliverable(Regs)) ~> (cpu_state # WAIT)

(* An OFF request ends cpu_loop unless the operator replaces it: a CPU     *)
(* blocked in cpu_do_stop or cpu_do_wait is woken and leaves its loop.     *)
OffHonoured == (cpu_state = OFF) ~> (pc = "exited" \/ cpu_state # OFF)
=============================================================================
