--------------------------------- MODULE MX ---------------------------------
(***************************************************************************)
(* The intelligent I/O channel (MULTIX) of src/src/io/mx/mx.c, seen from   *)
(* the three kinds of threads that touch it:                               *)
(*  - the CPU thread, calling mx_cmd() (general and line commands, and the *)
(*    channel commands INTSPEC and RESET) and serving the channel's CPU    *)
(*    interrupt;                                                           *)
(*  - the channel's event thread __mx_evproc(), popping the event queue or *)
(*    timing out while the channel initialises;                            *)
(*  - the per-line protocol threads, consuming their command queue.        *)
(* The event queue and the interrupt queue are elst lists, used through    *)
(* the operators of ElstQueue.  Each C function that runs under one lock,  *)
(* or runs on one thread without a state read another thread can change in *)
(* between that matters here, is one step; mx_reset() is two steps because *)
(* the event thread can run between its state store and its event insert.  *)
(*                                                                         *)
(* Data is abstracted: a command is its name, its logical line and a       *)
(* ghost call number; an interrupt is its name, line, the number of the    *)
(* command it answers and a ghost enqueue number; the configuration in     *)
(* memory is one of a few decoded SETCFG descriptors, checked by the       *)
(* operators of MXConfig; memory accesses may fault or not.                *)
(***************************************************************************)
EXTENDS Integers, Sequences, FiniteSets, MXConfig

CONSTANTS LogLines,   \* logical line numbers the CPU addresses
          CpuCmds,    \* general/line commands the CPU issues
          Configs,    \* SETCFG descriptors the CPU's memory may hold
          EvCap,      \* capacity of the event queue (1024 in mx_create)
          IntCap,     \* capacity of the interrupt queue (1024 in mx_create)
          MaxCalls    \* bound on CPU calls (commands, resets, polls)
\* NONE (MXConfig) also stands for MX_IRQ_INIEA, the empty intspec.

UNINITIALIZED == "UNINITIALIZED"
INITIALIZED == "INITIALIZED"
CONFIGURED == "CONFIGURED"
QUIT == "QUIT"
States == {UNINITIALIZED, INITIALIZED, CONFIGURED, QUIT}

AsyncCmds == {"TRANSMIT", "ATTACH", "DETACH", "ABORT"}
LineCmds == AsyncCmds \cup {"STATUS"}

ASSUME /\ LogLines \subseteq Lines
       /\ CpuCmds \subseteq LineCmds \cup {"SETCFG", "REQUEUE", "TEST", "ERR_0"}
       /\ \A p \in DOMAIN Protos : Protos[p].cmds \subseteq AsyncCmds
       /\ EvCap \in Nat \ {0} /\ IntCap \in Nat \ {0} /\ MaxCalls \in Nat

\* The event type is also its priority in the event queue (event.h):
\* QUIT > RESET > INT_PUSH > CMD.
EvPrio == [QUIT |-> 3, RESET |-> 2, INT_PUSH |-> 1, CMD |-> 0]

Event == [type : DOMAIN EvPrio, cmd : CpuCmds \cup {"none"}, line : LogLines, id : 0..MaxCalls]

\* Interrupt names: the fixed ones of irq.h, and the per-command noline,
\* reject and completion ones.
Irq(name) == <<name, "none">>
IrqNoline(c) == <<"noline", c>>
IrqReject(c) == <<"reject", c>>
IrqDone(c) == <<"done", c>>
Intr == [irq : STRING \X STRING, line : LogLines, cid : 0..MaxCalls, seq : Nat]

VARIABLES state,      \* multix->state
          eventq,     \* multix->eventq
          timeout,    \* __mx_evproc's timeout: TRUE while waiting for init
          intq,       \* multix->intq
          intspec,    \* multix->intspec
          cpuInt,     \* the channel's interrupt pending at the CPU
          plines,     \* multix->plines: direction, used, type
          llines,     \* multix->llines: slot -> bound line and protocol
          lstatus,    \* lline->status: the async commands in progress
          devq,       \* lline->devq: commands handed to the line thread
          cpuPc,      \* "reset" between mx_reset's two steps
          evPc,       \* "reset" while the event thread runs a popped RESET
          nextId,     \* ghost: number of CPU calls so far
          resetMark,  \* ghost: call number of the latest mx_reset
          nInt,       \* ghost: number of interrupts enqueued so far
          lastRead,   \* ghost: enqueue number of the last intspec read
          silentDrops,\* ghost: commands discarded unanswered although
                      \* accepted after the latest mx_reset
          accepted,   \* ghost: commands mx_cmd answered OK (REQUEUE aside:
                      \* it is answered by the interrupt it re-pushes)
          answered,   \* ghost: calls an interrupt enqueued for answers
          dropped     \* ghost: commands a reset or SETCFG threw away

vars == <<state, eventq, timeout, intq, intspec, cpuInt, plines, llines, lstatus, devq,
          cpuPc, evPc, nextId, resetMark, nInt, lastRead, silentDrops, accepted, answered,
          dropped>>

EQ == INSTANCE ElstQueue WITH q <- eventq, ret <- NONE, Capacity <- EvCap,
                              Ptrs <- Event, Prios <- {0, 1, 2, 3}, NULL <- NONE
IQ == INSTANCE ElstQueue WITH q <- intq, ret <- NONE, Capacity <- IntCap,
                              Ptrs <- Intr, Prios <- {0}, NULL <- NONE

-----------------------------------------------------------------------------
(* Helpers of the event thread.                                            *)

\* mx_mem_mget / mx_mem_mput: while UNINITIALIZED the access is "LOST" and
\* reported as a success; otherwise the memory access may fault.
MemOk(st, ok) == st = UNINITIALIZED \/ ok

\* Mutant: a push that latches but never calls mx_int_set.
IntPush_noSet(q, sp, st) ==
    LET latch == sp = NONE /\ q # <<>>
    IN  /\ intq' = IF latch THEN Tail(q) ELSE q
        /\ intspec' = IF latch THEN Head(q).ptr ELSE sp
        /\ cpuInt' = cpuInt

\* mx_int_push on interrupt queue q and latch sp, then mx_int_set with the
\* channel state st: latch the head if the latch is empty and raise the
\* CPU interrupt, unless the channel is UNINITIALIZED ("LOST interrupt").
IntPush(q, sp, st) ==
    LET latch == sp = NONE /\ q # <<>>
    IN  /\ intq' = IF latch THEN Tail(q) ELSE q
        /\ intspec' = IF latch THEN Head(q).ptr ELSE sp
        /\ cpuInt' = (cpuInt \/ (latch /\ st # UNINITIALIZED))

\* mx_int_enqueue: append (dropped when the queue is full), then push.
IntEnqueue(irq, line, cid, st) ==
    LET x == [irq |-> irq, line |-> line, cid |-> cid, seq |-> nInt]
    IN  /\ IntPush(IQ!PutResult(intq, Append(intq, [prio |-> 0, ptr |-> x])), intspec, st)
        /\ nInt' = nInt + 1
        /\ answered' = IF IQ!IsFull(intq) THEN answered ELSE answered \cup {cid}

\* Record commands thrown away unanswered that were accepted after the
\* latest reset request.
Drop(ids) == /\ silentDrops' = silentDrops \cup {i \in ids : i > resetMark}
             /\ dropped' = dropped \cup ids

DevqIds == UNION {{devq[l][k].ptr.id : k \in DOMAIN devq[l]} : l \in LogLines}

\* mx_lines_deinit: stop the line threads (their queued commands die with
\* them) and forget the logical lines.
LinesDeinit ==
    /\ llines' = NoBinding
    /\ plines' = FreshLines
    /\ lstatus' = [l \in LogLines |-> {}]
    /\ devq' = [l \in LogLines |-> <<>>]

\* mx_conf_check: the channel is initialised and the line configured.
ConfOk(l) == state # UNINITIALIZED /\ llines[l] # NONE

\* mx_line_cmd_allowed (line.c, from the spec): the line's status permits
\* the command when that command is not already in progress.
CmdAllowed(l, c) == c \notin lstatus[l]

\* The command has a function in the bound protocol's table (cmd->fun).
HasFun(l, c) == c \in Protos[llines[l].proto].cmds

-----------------------------------------------------------------------------
(* Command handlers of the event thread; each leaves eventq, timeout and   *)
(* cpuPc to its caller.                                                    *)

\* Mutant: a STATUS whose status-word write faults answers nothing.
CmdStatus_noFault(ev) ==
    /\ IF ~ConfOk(ev.line)
       THEN IntEnqueue(IrqNoline("STATUS"), ev.line, ev.id, state)
       ELSE \E ok \in BOOLEAN :
              IF MemOk(state, ok) THEN IntEnqueue(Irq("ISTRE"), ev.line, ev.id, state)
              ELSE UNCHANGED <<intq, intspec, cpuInt, nInt, answered>>
    /\ UNCHANGED <<state, plines, llines, lstatus, devq, silentDrops, dropped>>

\* mx_cmd_status: conf check, then under the status lock write the status
\* word to memory and answer ISTRE, or INPAO when the write faults.
CmdStatus(ev) ==
    /\ IF ~ConfOk(ev.line)
       THEN IntEnqueue(IrqNoline("STATUS"), ev.line, ev.id, state)
       ELSE \E ok \in BOOLEAN :
              IntEnqueue(Irq(IF MemOk(state, ok) THEN "ISTRE" ELSE "INPAO"), ev.line, ev.id, state)
    /\ UNCHANGED <<state, plines, llines, lstatus, devq, silentDrops, dropped>>

\* Mutant: a dispatch that skips the "no protocol function" test.
CmdDispatch_noProtoCheck(ev) ==
    \/ /\ ~ConfOk(ev.line)
       /\ IntEnqueue(IrqNoline(ev.cmd), ev.line, ev.id, state)
       /\ UNCHANGED <<state, plines, llines, lstatus, devq, silentDrops, dropped>>
    \/ /\ ConfOk(ev.line) /\ ~CmdAllowed(ev.line, ev.cmd)
       /\ IntEnqueue(IrqReject(ev.cmd), ev.line, ev.id, state)
       /\ UNCHANGED <<state, plines, llines, lstatus, devq, silentDrops, dropped>>
    \/ /\ ConfOk(ev.line) /\ CmdAllowed(ev.line, ev.cmd)
       /\ lstatus' = [lstatus EXCEPT ![ev.line] = @ \cup {ev.cmd}]
       /\ devq' = [devq EXCEPT ![ev.line] = Append(@, [prio |-> 0, ptr |-> ev])]
       /\ UNCHANGED <<state, plines, llines, intq, intspec, cpuInt, nInt, silentDrops, answered, dropped>>

\* mx_cmd_dispatch: noline, reject (no protocol function, or the line state
\* forbids it), or mark the command in progress and hand it to the line.
CmdDispatch(ev) ==
    \/ /\ ~ConfOk(ev.line)
       /\ IntEnqueue(IrqNoline(ev.cmd), ev.line, ev.id, state)
       /\ UNCHANGED <<state, plines, llines, lstatus, devq, silentDrops, dropped>>
    \/ /\ ConfOk(ev.line)
       /\ (~HasFun(ev.line, ev.cmd) \/ ~CmdAllowed(ev.line, ev.cmd))
       /\ IntEnqueue(IrqReject(ev.cmd), ev.line, ev.id, state)
       /\ UNCHANGED <<state, plines, llines, lstatus, devq, silentDrops, dropped>>
    \/ /\ ConfOk(ev.line)
       /\ HasFun(ev.line, ev.cmd) /\ CmdAllowed(ev.line, ev.cmd)
       /\ lstatus' = [lstatus EXCEPT ![ev.line] = @ \cup {ev.cmd}]
       /\ devq' = [devq EXCEPT ![ev.line] = Append(@, [prio |-> 0, ptr |-> ev])]
       /\ UNCHANGED <<state, plines, llines, intq, intspec, cpuInt, nInt, silentDrops, answered, dropped>>

\* mx_cmd_setcfg.  On INKON the error word goes to addr+1 (INKOT when that
\* write faults) and the lines are deinitialised unless
\* ret_err != MX_SC_E_CONFSET is false; ret_err is (err << 8) | line, so
\* with MX_SC_E_CONFSET # 0 the lines are deinitialised on CONFSET too.
SetcfgFail(ev, okw) ==
    /\ LinesDeinit
    /\ Drop(DevqIds)
    /\ IntEnqueue(Irq(IF MemOk(state, okw) THEN "INKON" ELSE "INKOT"), 0, ev.id, state)
    /\ UNCHANGED state

\* mx_cmd_setcfg: CONFSET on a configured channel; INKOT when the
\* descriptor cannot be read; otherwise the checks of Setcfg on the words
\* read (while UNINITIALIZED mx_mem_mget reads nothing and the buffer holds
\* what it happened to hold: any of Configs as well).  On success the
\* bound lines' queues are cleared (elst_clear in mx_line_conf_log), the
\* channel is CONFIGURED and answers IUKON.
CmdSetcfg(ev) ==
    \E okr, okw \in BOOLEAN, cfg \in Configs :
        LET r == Setcfg(cfg, plines, llines)
            bound == {l \in LogLines : l < Len(cfg.logs)}
        IN  \/ /\ state = CONFIGURED
               /\ SetcfgFail(ev, okw)
            \/ /\ state # CONFIGURED
               /\ ~MemOk(state, okr)
               /\ IntEnqueue(Irq("INKOT"), 0, ev.id, state)
               /\ UNCHANGED <<state, plines, llines, lstatus, devq, silentDrops, dropped>>
            \/ /\ state # CONFIGURED
               /\ MemOk(state, okr)
               /\ r.err # "OK"
               /\ SetcfgFail(ev, okw)
            \/ /\ state # CONFIGURED
               /\ MemOk(state, okr)
               /\ r.err = "OK"
               /\ state' = CONFIGURED
               /\ plines' = r.pl
               /\ llines' = r.ll
               /\ devq' = [l \in LogLines |-> IF l \in bound THEN <<>> ELSE devq[l]]
               /\ Drop(UNION {{devq[l][k].ptr.id : k \in DOMAIN devq[l]} : l \in bound})
               /\ IntEnqueue(Irq("IUKON"), 0, ev.id, CONFIGURED)
               /\ UNCHANGED lstatus

\* Mutant: a requeue that appends the latch behind the queue.
CmdRequeue_append ==
    /\ IF intspec # NONE
       THEN IntPush(IQ!PutResult(intq, Append(intq, [prio |-> 0, ptr |-> intspec])), NONE, state)
       ELSE IntPush(intq, intspec, state)
    /\ UNCHANGED <<state, plines, llines, lstatus, devq, nInt, silentDrops, answered, dropped>>

\* mx_cmd_requeue: put the latched intspec back at the head of the queue
\* (lost if the queue is full), then push.
CmdRequeue ==
    /\ IF intspec # NONE
       THEN IntPush(IQ!PutResult(intq, <<[prio |-> 0, ptr |-> intspec]>> \o intq), NONE, state)
       ELSE IntPush(intq, intspec, state)
    /\ UNCHANGED <<state, plines, llines, lstatus, devq, nInt, silentDrops, answered, dropped>>

\* The answer-only commands: TEST (IWYTE) and ERR_0 (IEPS0).
CmdAnswer(ev, name) ==
    /\ IntEnqueue(Irq(name), 0, ev.id, state)
    /\ UNCHANGED <<state, plines, llines, lstatus, devq, silentDrops, dropped>>

-----------------------------------------------------------------------------
(* The event thread, __mx_evproc.                                          *)

\* elst_wait_pop timed out while initialising: ready, IWYZE.  The list is
\* normally empty then, but pthread_cond_timedwait may report ETIMEDOUT
\* after an insert has signalled, and wait_pop then returns NULL with the
\* event left queued; so the timeout is not guarded by an empty queue.
EvTimeout ==
    /\ evPc = "idle" /\ timeout
    /\ timeout' = FALSE
    /\ state' = INITIALIZED
    /\ IntEnqueue(Irq("IWYZE"), 0, 0, INITIALIZED)
    /\ UNCHANGED <<eventq, plines, llines, lstatus, devq, cpuPc, evPc, nextId, resetMark, lastRead,
                   silentDrops, dropped, accepted>>

\* MX_EV_RESET, as popped: deinit the lines (their queued commands die).
\* The event queue is cleared only after mx_lines_deinit has joined the
\* line threads, and other threads may insert meanwhile.
EvResetPop ==
    LET ev == Head(eventq).ptr
    IN  /\ evPc = "idle" /\ eventq # <<>> /\ ev.type = "RESET"
        /\ eventq' = Tail(eventq)
        /\ evPc' = "reset"
        /\ LinesDeinit
        /\ Drop(DevqIds)
        /\ UNCHANGED <<state, timeout, intq, intspec, cpuInt, cpuPc, nextId, resetMark, nInt,
                       lastRead, answered, accepted>>

\* ... then elst_clear(eventq) and mx_int_reset (latch and interrupt queue
\* emptied), and wait for init again.
EvResetClear ==
    /\ evPc = "reset"
    /\ evPc' = "idle"
    /\ eventq' = <<>>
    /\ intq' = <<>>
    /\ intspec' = NONE
    /\ timeout' = TRUE
    /\ Drop({eventq[k].ptr.id : k \in {k \in DOMAIN eventq : eventq[k].ptr.type = "CMD"}})
    /\ UNCHANGED <<state, cpuInt, plines, llines, lstatus, devq, cpuPc, nextId, resetMark, nInt, lastRead,
                   answered, accepted>>

\* MX_EV_INT_PUSH: push, or ignore it while initialising.
EvIntPush ==
    LET ev == Head(eventq).ptr
    IN  /\ evPc = "idle" /\ eventq # <<>> /\ ev.type = "INT_PUSH"
        /\ eventq' = Tail(eventq)
        /\ IF timeout THEN UNCHANGED <<intq, intspec, cpuInt>>
                      ELSE IntPush(intq, intspec, state)
        /\ UNCHANGED <<state, timeout, plines, llines, lstatus, devq, cpuPc, evPc, nextId, resetMark,
                       nInt, lastRead, silentDrops, answered, dropped, accepted>>

\* MX_EV_CMD while initialising: ignored.
EvCmdIgnored ==
    LET ev == Head(eventq).ptr
    IN  /\ evPc = "idle" /\ eventq # <<>> /\ ev.type = "CMD" /\ timeout
        /\ eventq' = Tail(eventq)
        /\ Drop({ev.id})
        /\ UNCHANGED <<state, timeout, intq, intspec, cpuInt, plines, llines, lstatus, devq, cpuPc,
                       evPc, nextId, resetMark, nInt, lastRead, answered, accepted>>

\* MX_EV_CMD: the command switch of the event loop.
EvCmd ==
    LET ev == Head(eventq).ptr
    IN  /\ evPc = "idle" /\ eventq # <<>> /\ ev.type = "CMD" /\ ~timeout
        /\ eventq' = Tail(eventq)
        /\ CASE ev.cmd = "REQUEUE"   -> CmdRequeue
             [] ev.cmd = "STATUS"    -> CmdStatus(ev)
             [] ev.cmd \in AsyncCmds -> CmdDispatch(ev)
             [] ev.cmd = "SETCFG"    -> CmdSetcfg(ev)
             [] ev.cmd = "TEST"      -> CmdAnswer(ev, "IWYTE")
             [] ev.cmd = "ERR_0"     -> CmdAnswer(ev, "IEPS0")
        /\ UNCHANGED <<timeout, cpuPc, evPc, nextId, resetMark, lastRead, accepted>>

-----------------------------------------------------------------------------
(* A protocol thread (mx_line_thread, line.c: from the spec): take the     *)
(* next command, clear its state bits and answer its completion.           *)
LineWork(l) ==
    LET ev == Head(devq[l]).ptr
    IN  /\ devq[l] # <<>>
        /\ devq' = [devq EXCEPT ![l] = Tail(@)]
        /\ lstatus' = [lstatus EXCEPT ![l] = @ \ {ev.cmd}]
        /\ IntEnqueue(IrqDone(ev.cmd), l, ev.id, state)
        /\ UNCHANGED <<state, eventq, timeout, plines, llines, cpuPc, evPc, nextId, resetMark, lastRead,
                       silentDrops, dropped, accepted>>

-----------------------------------------------------------------------------
(* The CPU thread.                                                         *)

\* Mutant: mx_event refusing events while UNINITIALIZED instead of QUIT.
EventInserted_uninit(ev) ==
    IF state = UNINITIALIZED \/ EQ!IsFull(eventq) THEN eventq
    ELSE EQ!Inserted(eventq, ev, EvPrio[ev.type])

\* mx_event: insert with the type as priority; EN when QUIT or full.
EventInserted(ev) ==
    IF state = QUIT \/ EQ!IsFull(eventq) THEN eventq
    ELSE EQ!Inserted(eventq, ev, EvPrio[ev.type])

NoEvent(type) == [type |-> type, cmd |-> "none", line |-> 0, id |-> 0]

\* mx_cmd, general or line command: EN while UNINITIALIZED, else mx_event.
CpuCmd(c, l) ==
    /\ cpuPc = "idle" /\ nextId < MaxCalls
    /\ nextId' = nextId + 1
    /\ eventq' = IF state = UNINITIALIZED THEN eventq
                 ELSE EventInserted([type |-> "CMD", cmd |-> c, line |-> l, id |-> nextId + 1])
    /\ accepted' = IF eventq' # eventq /\ c # "REQUEUE" THEN accepted \cup {nextId + 1}
                   ELSE accepted
    /\ UNCHANGED <<state, timeout, intq, intspec, cpuInt, plines, llines, lstatus, devq, cpuPc,
                   evPc, resetMark, nInt, lastRead, silentDrops, answered, dropped>>

\* Mutant: INTSPEC that reads the latch but queues no INT_PUSH.
Intspec_noPush ==
    /\ intspec' = NONE
    /\ lastRead' = IF intspec = NONE THEN lastRead ELSE intspec.seq
    /\ eventq' = eventq

\* mx_cmd INTSPEC: mx_int_get_spec (read and empty the latch), then
\* mx_event(INT_PUSH).
Intspec ==
    /\ intspec' = NONE
    /\ lastRead' = IF intspec = NONE THEN lastRead ELSE intspec.seq
    /\ eventq' = EventInserted(NoEvent("INT_PUSH"))

\* The CPU serves the channel interrupt: its handler issues INTSPEC.
CpuServe ==
    /\ cpuPc = "idle" /\ cpuInt
    /\ cpuInt' = FALSE
    /\ Intspec
    /\ UNCHANGED <<state, timeout, intq, plines, llines, lstatus, devq, cpuPc, evPc, nextId,
                   resetMark, nInt, silentDrops, answered, dropped, accepted>>

\* INTSPEC without an interrupt (a polling program).
CpuPoll ==
    /\ cpuPc = "idle" /\ nextId < MaxCalls
    /\ nextId' = nextId + 1
    /\ Intspec
    /\ UNCHANGED <<state, timeout, intq, cpuInt, plines, llines, lstatus, devq, cpuPc, evPc,
                   resetMark, nInt, silentDrops, answered, dropped, accepted>>

\* mx_reset, first half: ignored when QUIT, else UNINITIALIZED at once.
CpuResetBegin ==
    /\ cpuPc = "idle" /\ nextId < MaxCalls /\ state # QUIT
    /\ nextId' = nextId + 1
    /\ resetMark' = nextId + 1
    /\ state' = UNINITIALIZED
    /\ cpuPc' = "reset"
    /\ UNCHANGED <<eventq, timeout, intq, intspec, cpuInt, plines, llines, lstatus, devq, evPc,
                   nInt, lastRead, silentDrops, answered, dropped, accepted>>

\* mx_reset, second half: mx_event(RESET), its result ignored.
CpuResetEvent ==
    /\ cpuPc = "reset"
    /\ cpuPc' = "idle"
    /\ eventq' = EventInserted([NoEvent("RESET") EXCEPT !.id = resetMark])
    /\ UNCHANGED <<state, timeout, intq, intspec, cpuInt, plines, llines, lstatus, devq, evPc,
                   nextId, resetMark, nInt, lastRead, silentDrops, answered, dropped, accepted>>

-----------------------------------------------------------------------------
(* mx_create: UNINITIALIZED, empty queues and latch, no lines; the event   *)
(* thread starts waiting for the init timeout.                             *)
Init ==
    /\ state = UNINITIALIZED
    /\ eventq = <<>>
    /\ timeout = TRUE
    /\ intq = <<>>
    /\ intspec = NONE
    /\ cpuInt = FALSE
    /\ plines = FreshLines
    /\ llines = NoBinding
    /\ lstatus = [l \in LogLines |-> {}]
    /\ devq = [l \in LogLines |-> <<>>]
    /\ cpuPc = "idle"
    /\ evPc = "idle"
    /\ nextId = 0
    /\ resetMark = 0
    /\ nInt = 0
    /\ lastRead = -1
    /\ silentDrops = {}
    /\ accepted = {}
    /\ answered = {}
    /\ dropped = {}

CmdLines(c) == IF c \in LineCmds THEN LogLines ELSE {0}

CpuNext ==
    \/ \E c \in CpuCmds : \E l \in CmdLines(c) : CpuCmd(c, l)
    \/ CpuServe \/ CpuPoll \/ CpuResetBegin \/ CpuResetEvent

EvNext == EvTimeout \/ EvResetPop \/ EvResetClear \/ EvIntPush \/ EvCmdIgnored \/ EvCmd

Next == CpuNext \/ EvNext \/ \E l \in LogLines : LineWork(l)

(* The event thread and the line threads are always scheduled again while  *)
(* they have work; the CPU finishes mx_reset and serves a raised channel   *)
(* interrupt; it issues further commands only if it chooses to.            *)
Fairness ==
    /\ WF_vars(EvNext)
    /\ \A l \in LogLines : WF_vars(LineWork(l))
    /\ WF_vars(CpuResetEvent)
    /\ WF_vars(CpuServe)

Spec == Init /\ [][Next]_vars /\ Fairness

-----------------------------------------------------------------------------
TypeOK ==
    /\ state \in States
    /\ eventq \in Seq([prio : {0, 1, 2, 3}, ptr : Event]) /\ Len(eventq) <= EvCap
    /\ timeout \in BOOLEAN
    /\ intq \in Seq([prio : {0}, ptr : Intr]) /\ Len(intq) <= IntCap
    /\ intspec \in Intr \cup {NONE}
    /\ cpuInt \in BOOLEAN
    /\ plines \in [Lines -> [dir : 0..7, used : BOOLEAN, type : 0..15]]
    /\ llines \in [Lines -> [phy : Lines, proto : DOMAIN Protos] \cup {NONE}]
    /\ lstatus \in [LogLines -> SUBSET UNION {Protos[p].cmds : p \in DOMAIN Protos}]
    /\ devq \in [LogLines -> Seq([prio : {0}, ptr : Event])]
    /\ cpuPc \in {"idle", "reset"}
    /\ evPc \in {"idle", "reset"}
    /\ silentDrops \subseteq 1..MaxCalls
    /\ accepted \subseteq 1..MaxCalls /\ answered \subseteq 0..MaxCalls
    /\ dropped \subseteq 1..MaxCalls

ResetPending == cpuPc = "reset" \/ evPc = "reset" \/ \E k \in DOMAIN eventq : eventq[k].ptr.type = "RESET"

(* A specification latched in intspec is announced to the CPU: the channel *)
(* interrupt is pending, unless a reset the CPU requested is about to      *)
(* discard the latch.  (mx_int_push latches, mx_int_set raises the line    *)
(* or drops it as "LOST" when the channel is UNINITIALIZED.)               *)
LatchAnnounced == (intspec # NONE /\ ~cpuInt) => ResetPending

(* The CPU reads interrupt specifications in the order they were enqueued  *)
(* (mx_int_enqueue appends, mx_cmd_requeue puts the latch back in front).  *)
ReadsInOrder == [][lastRead' # lastRead => lastRead' > lastRead]_lastRead

(* Every interrupt enqueued is eventually read by the CPU or discarded by  *)
(* a reset: none stays in the queue or the latch for ever (INTSPEC queues  *)
(* an INT_PUSH event that pushes the next one).                            *)
InterruptsDrain == (intspec # NONE \/ intq # <<>>) ~> (intspec = NONE /\ intq = <<>>)

(* A command the channel acknowledged with OK after the CPU's latest reset *)
(* request is never discarded without an answer: the spec says commands    *)
(* in the reset window are answered EN at the CPU interface.               *)
NoSilentDrop == silentDrops = {}

(* A CONFIGURED channel has its logical lines: only a successful SETCFG    *)
(* makes it CONFIGURED, and line commands on it are served.                *)
ConfiguredHasLines == state = CONFIGURED => llines # NoBinding

(* After mx_reset returns, the channel is either waiting for its init      *)
(* timeout or has the RESET event queued that will start it.               *)
ResetQueued == (cpuPc = "idle" /\ state = UNINITIALIZED) => (timeout \/ ResetPending)

(* Every command the channel accepted (mx_cmd answered OK) is eventually   *)
(* answered by an interrupt, unless a reset or a failed SETCFG throws it   *)
(* away: each handler and the line thread end in mx_int_enqueue, and the   *)
(* answer must reach the interrupt queue.  The CPU makes at most MaxCalls  *)
(* calls and the three sets only grow, so this is "every accepted command  *)
(* is eventually answered or thrown away" stated once for all commands.    *)
CommandsAnswered == <>[](accepted \subseteq answered \cup dropped)
=============================================================================
