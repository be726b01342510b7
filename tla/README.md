# TLA+ models of em400

Model-checked specifications of the concurrent parts of em400, the MERA-400
emulator whose sources are in `src/`. The models are in this directory:

- one module per component;
- one `MC_*` module that sets each one up for TLC;
- one `.cfg` per run.

`PROJECT.json` lists the components, the runs and what each run shows, the
mutants that prove each property can fail, and the source lines each
definition translates (`map`). It also lists the findings and the hazards.

## The system and how its parts interact

| part | source | state | runs on |
|---|---|---|---|
| bounded priority list `elst` | `src/src/utils/elst.c` | an array of `capacity+2` items: item 0 heads the used ring, item 1 the free ring, `hwm` is the next fresh item, and `count` | any thread; every operation takes the list mutex |
| MULTIX channel | `src/src/io/mx/mx.c` | `state` (UNINITIALIZED / INITIALIZED / CONFIGURED / QUIT), the physical lines `plines` (direction, used, type) and the logical slots `llines` bound to them, the event queue, the interrupt queue and its one-entry latch `intspec`, the logical lines with their `status` and command queue `devq` | the CPU thread (`mx_cmd`, `mx_reset`), the channel's event thread (`__mx_evproc`), one protocol thread per configured line |
| tape protocol | `src/src/io/mx/proto_tape.c` | none | a table: no direction, magnetic-tape lines only, and no command functions, so the channel rejects every async command on a tape line |
| CPU | `src/src/cpu/cpu.c`, `src/src/cpu/instructions.c` | registers, `cpu_state` (under a mutex and condition variable), the modification counter `mc`, the skip flag `P`, the interrupt-pending `rp` and mask `rm`, and with `speed_real` the throttle deadline `cpu_timer` and `cpu_time_cumulative` | the CPU thread; other threads only raise interrupts |
| interrupt controller, memory, I/O dispatcher, clock | only declarations in `src/em400/include` | | |

The parts interact as follows:

- The CPU talks to the channel through `mx_cmd`.
  - A general or line command is answered EN while the channel is
    UNINITIALIZED. Otherwise it becomes a CMD event in the event queue.
  - INTSPEC reads and empties the latch, then queues an INT_PUSH event.
  - RESET stores UNINITIALIZED, then queues a RESET event.
- The event queue is an `elst` ordered by event type: QUIT > RESET > INT_PUSH > CMD.
- The event thread pops one event at a time.
  - While it waits for the roughly 150 ms init timeout, it ignores CMD and
    INT_PUSH events.
  - When the timeout expires, the channel becomes INITIALIZED and sends IWYZE.
- Commands end in an interrupt through `mx_int_enqueue`. That function
  appends to the interrupt queue, then `mx_int_push` moves the head into the
  empty latch and raises the CPU's channel interrupt. The interrupt is
  "LOST" while the channel is UNINITIALIZED.
- An async command is handed to the line's protocol thread. That thread
  answers it later.
- At exit, `mx_shutdown` stores UNINITIALIZED, queues QUIT and joins the
  event thread, which leaves its loop when it pops QUIT. It then stops the
  line threads.
- Context switches (`cpu_ctx_switch`) save IC, R0 and SR on the system stack
  in block 0. They are used by EXL and by interrupt entries.

## Modules

### `ElstQueue`: the abstract list

This module states what `elst` promises over a plain sequence of `[prio, ptr]` items.

- **Puts.** Append and prepend put priority 0 at the tail or the head. Insert
  goes after every item whose priority is greater than or equal to its own,
  so equal priorities stay FIFO. A put on a full list fails with -2 and
  changes nothing.
- **Pop.** A pop returns the head, or NULL when the list is empty.
- **Clear.** A clear empties the list.

`MX` uses these operators for its event and interrupt queues.

### `Elst`: the array-backed list

This module translates `elst.c` operation by operation.

- **State.** The link function `d`, `prio`, `ptr`, `count`, `hwm`, and `ret`
  (the value returned).
- **Helpers.** `Unlink` and `Link` are `__unlink` and `__link`.
  `IsFull`, `FreeFromHwm` and `GetFree` are `__get_free`; `Put` is `__put`.
- **Insert walk.** `InsertWalk` is the insert walk and is RECURSIVE.
- **Pop and clear.** `PopLinks` and `ClearLinks` are `elst_nlock_pop` and
  `elst_nlock_clear`.

Each public operation runs under the list mutex, so it is one action.
`elst_wait_pop` on a non-empty list is `Pop_`. Its blocking and timeout
appear in `MX` as the event thread's `EvTimeout`.

`UsedSeq` walks the used ring into a sequence. `Abs == INSTANCE ElstQueue
WITH q <- UsedSeq` is the refinement mapping.

### `MX`: the channel

Each C function that runs under one lock is one action. So is each function
that runs on one thread and reads no state another thread changes in between.

**CPU thread**

- `CpuCmd(c, l)` is a general or line command through `mx_cmd` and `mx_event`.
- `CpuServe` is the CPU taking the channel interrupt. Its handler issues INTSPEC.
- `CpuPoll` is INTSPEC without an interrupt.
- `CpuResetBegin` and `CpuResetEvent` are the two halves of `mx_reset`. The
  event thread can run between its state store and its event insert.
- `Intspec` is `mx_int_get_spec` plus the INT_PUSH insert.

**Event thread**

- `EvTimeout` is `wait_pop` returning NULL while the init timeout runs.
  `pthread_cond_timedwait` may return ETIMEDOUT after an insert, so this step
  is not guarded by an empty queue.
- `EvResetPop`, `EvResetClear`, `EvIntPush`, `EvCmdIgnored` and `EvCmd` are
  the cases of the event switch. A RESET takes two steps.
  - `EvResetPop` pops it and runs `mx_lines_deinit`, which joins the line
    threads. `evPc = "reset"` marks the window this opens.
  - `EvResetClear` runs `elst_clear` on the event queue and `mx_int_reset`.
  Other threads insert events in between.
- `EvCmd` dispatches to the handlers:
  - `CmdRequeue` is `mx_cmd_requeue`.
  - `CmdStatus` is `mx_cmd_status`.
  - `CmdDispatch` is `mx_cmd_dispatch`.
  - `CmdSetcfg` and `SetcfgFail` are `mx_cmd_setcfg` and its `fail:` path.
  - `CmdAnswer` is `mx_cmd_test` and ERR_0.

### `MXConfig`: SETCFG's checks and the line tables

`MXConfig` holds the part of `mx_cmd_setcfg` that works on the descriptor,
as operators that `MX`'s `CmdSetcfg` applies to `plines` and `llines`.

- A descriptor is decoded: a sequence of physical descriptors
  `[count, type, dir, used]` and a sequence of logical ones `[phy, proto]`.
  The header's counts are the lengths. The bit-field decoding is left out.
- `ConfPhy` and `LegalDirs` are `mx_line_conf_phy`: DEVTYPE, then the
  directions a USART, 8255 or other line may have.
- `PhyLines`, `Written` and `SetcfgPhy` are the physical-line loop. It
  expands the descriptors line by line and stops at the first refused line
  or at line `MX_LINE_CNT` (NUMLINES). Lines before the stop are written.
- `GroupErr` is the walk over every 4-line group: at most one tape group,
  and four lines of one type. It covers lines the descriptor left zeroed.
- `ConfLog` is `mx_line_conf_log`. The checks run in the code's order:
  PHY_UNUSED, PHY_USED (any slot bound to the line), PROTO_MISSING,
  DIR_MISMATCH, PROTO_MISMATCH. Then the slot is bound.
  `SetcfgLogs` is the loop, stopping at the first error.
- `Setcfg` is the whole check: counts, physical lines, groups, logical
  lines. It returns the error and `plines` and `llines` as the code leaves
  them.
- `TapeProto` is `mx_drv_tape`. `FreshLines` and `NoBinding` are the
  zeroed tables of `mx_create` and `mx_lines_deinit`.

The numeric values of the `MX_DIR_*` and `MX_PHY_*` constants are in
`mx.h`, which is not in this tree. They are constants of the module. MC_MX
gives them the values of em400's `mx.h`: directions are bit sets
(NONE 0, INPUT 2, OUTPUT 4, HALF 6, FULL 7), and types number
USART async 0, 8255 1, USART sync 2, tape 4, with 6 types in all.
`mx_proto_get` is not in this tree either. `Protos` maps protocol numbers to
their tables. MC_MX has the tape table and one terminal-like table with
TRANSMIT, standing in for the protocols this tree lacks.

### `MXShutdown`: shutting the channel down

`MXShutdown` extends `MX` with `mx_shutdown`. The caller, `io.c`, is not in
this tree. The model assumes the emulator shuts the channel down on the CPU's
thread after the CPU loop has returned, so the CPU makes no calls after
`ShutdownBegin`. The event thread and the line threads keep running.

- `ShutdownBegin` stores UNINITIALIZED in the state (the code never stores
  QUIT).
- `ShutdownEvent` is `mx_event(QUIT)`. Its result is ignored.
- `EvQuit` is the event thread popping QUIT and leaving its loop (`evQuit`).
- `ShutdownJoin` is `pthread_join` returning, then `mx_lines_deinit`. What
  follows only frees memory.

Fairness is that of `MX`, plus weak fairness on the two later steps of
`mx_shutdown`. Nothing forces a shutdown to happen.

**Line threads** (in `MX`)

- `LineWork(l)` is the protocol thread, modelled from the spec because
  `line.c` is not in this tree. It takes the next command, clears its status
  bit and answers a completion interrupt.

**Helpers**

- `IntPush` and `IntEnqueue` are `mx_int_push` with `mx_int_set`, and
  `mx_int_enqueue`.
- `MemOk` is the "LOST" rule of `mx_mem_mget` and `mx_mem_mput`: while
  UNINITIALIZED, an access succeeds without touching memory.
- `LinesDeinit` is `mx_lines_deinit`. A line thread gets QUIT at the
  highest priority, so the commands still in its `devq` die unanswered.

**How the data is abstracted**

- A command is its name, its logical line and a ghost call number.
- An interrupt is a name, a line, the number of the call it answers and a ghost
  enqueue number `seq`.
- The configuration in memory is one of the decoded descriptors `Configs`.
  A read while UNINITIALIZED reads nothing and leaves whatever the buffer
  held, so any of them is possible. A memory access may fault or not.
- `CmdSetcfg` applies `Setcfg` to the current `plines` and `llines`. On
  success it stores CONFIGURED, clears the queues of the slots it bound
  (`elst_clear` in `mx_line_conf_log`) and answers IUKON. A slot still
  bound from before a reset makes PHY_USED fail, as in the code.
- `CmdDispatch` rejects a command that has no function in the bound
  protocol's table (`HasFun`).

**Ghost variables**

- `nextId` counts the CPU's calls.
- `resetMark` is the call number of the latest `mx_reset`.
- `nInt` counts the interrupts enqueued.
- `lastRead` is the `seq` of the last interrupt the CPU read.
- `silentDrops` holds the commands thrown away unanswered although the
  channel accepted them after the latest reset.
- `accepted`, `answered` and `dropped` record three sets of commands:
  - those `mx_cmd` answered OK;
  - those for which an interrupt reached the interrupt queue;
  - those a reset or a failed SETCFG threw away.

**Fairness**

- Weak fairness on the event thread and on each line thread. They are
  threads blocked only on their queues, so they run whenever they have work.
- Weak fairness on `CpuResetEvent`, because `mx_reset` returns.
- Weak fairness on `CpuServe`. This assumes the CPU program unmasks the
  channel interrupt and reads INTSPEC in its handler, which is how MERA-400
  programs drive the channel.
- The CPU is never obliged to issue commands or to poll.

### `CpuLoop`: the CPU thread

This module translates `cpu_loop` in `cpu.c` and the functions it calls, with
the threads that act on the CPU from outside.

- **State.** `cpu_state` is a bit set, as in the code. `cpu_do_stop` masks it,
  and `cpu_do_wait` leaves WAIT with `&= ~WAIT`, which yields RUN. So RUN is
  the empty set and each other state is one bit.
- **Registers.** Only the ones the control depends on: the skip flag `p`, the
  modification counter `mc`, the pending interrupt sources `rp` (NOMEM,
  ILLEGAL, CHAN) and `rALARM`.
- **The read.** `cpu_loop` reads `cpu_state` without the mutex, then acts on
  what it read. `Read` and the work it selects are two steps. `seen` holds
  the value read and `pc` where the thread is.
- **The cases of the switch.**
  - `RunTick` is RUN and CYCLE. It serves an interrupt, or runs one
    `cpu_do_cycle` (`DoCycle`), and then CYCLE's compare-and-set back to STOP.
  - `OffExit` is OFF; the loop returns.
  - `Clear` is CLM and CLO through `cpu_do_clear`.
  - `BinStep` is BIN: the loader ends, or faults and stops.
  - `DoStop` is `cpu_do_stop`'s wait, and `DoWait` is `cpu_do_wait`'s.
    `StopBlocks` and `WaitBlocks` are their loop conditions. `Wake` is the
    condition-variable broadcast of `cpu_state_change`.
- **The instruction cycle.** `DoCycle` keeps the control of `cpu_do_cycle`:
  - a fetch fault;
  - the skip when `p` is set;
  - an illegal instruction, and a fourth MD (`MdOp`);
  - an argument fault, then execution;
  - `mc` and `p` reset after an effective instruction (`Ineffective`).

  An instruction is one of the kinds in `InstrKinds`. HLT and MCL are
  `HltOp` and `MclOp`, the compare-and-sets from RUN of `op_73_hlt` and
  `op_73_mcl`. `MemFail` is `cpu_mem_fail`: it raises NOMEM and, with
  `stop_on_nomem`, changes the state to STOP from ANY.
- **Other threads.** `OpRequest(to, from)` is the operator's
  `cpu_state_change` through `ectl`. `IntSet` is a device raising the channel
  interrupt. Neither is in `src/`; both are modelled from the spec. `int_set`
  is assumed to set the pending bit and wake a CPU waiting in WAIT, which is
  what `cpu_do_wait`'s wait requires.
- **Ghost.** `opPending` is the operator's last accepted request, until the
  CPU thread next reads the state.
- **Fairness.** Weak fairness on the CPU thread only. It is a thread that
  blocks only in `cpu_do_stop` and `cpu_do_wait`. The operator and the
  devices are never obliged to act.

### `CtxSwitch`: process context save and restore

This module translates `cpu_ctx_switch` and `cpu_ctx_restore` in `cpu.c`,
with the instructions that use them: EXL, LIP and SP in `instructions.c`.

- **State.** `ic`, `r0`, `sr`, `ar`, and memory as a function per block over
  its mapped addresses. An access anywhere else faults through `MemFail`
  (`cpu_mem_fail`), which raises NO_MEM and, on the `barnb = false` path,
  rALARM.
- **SR.** SR is one word: RM in bits 15..6, Q in bit 5, BS in bit 4, NB in
  bits 3..0. `SR_READ` and `SR_WRITE` are not in this tree. The layout is the
  one `op_77_mb` and `op_77_im` decode.
- **The switch.** `CtxSwitch` is `cpu_ctx_switch`. It reads the stack
  pointer into AR and stores IC, R0, SR and the argument word by word. It
  then stores the advanced pointer and enters the new context. A fault at
  any store returns at once. `Reach` counts the accesses made before the
  first fault.
- **The restore.** `CtxRestore` is `cpu_ctx_restore`: IC, R0 and SR read
  from AR, stopping at the first fault.
- **Instructions.**
  - `Exl(a)` takes the handler address from word 96 of block 0.
  - `Serve(l)` is the interrupt entry of `int_serve`, modelled from the spec.
  - `Lip(t, barnb)` is LIP. The cycle has just set AR to LIP's short
    argument. `op_73_lip` calls `cpu_ctx_restore()` without its `barnb`
    argument, so `barnb` is a free choice.
  - `Sp(a)` is SP. Its three words go to a local array first, so a fault
    leaves the registers alone.
  - `Instr(a, v)` is any other instruction: its argument ends up in AR, and
    it may change R0.
- **Ghost.** `frames` holds the contexts saved by completed switches and not
  yet returned from.

### `Alu`: word operations of the instruction handlers

These handlers compute on 16-bit words themselves instead of through
`alu.c`, which is not in this tree. Each one is an operator returning what
the handler writes.

- `ShiftLeft` and `ShiftRight` are `shift_left` and `shift_right`, with the
  SL*/SV* and SR* callers as parameters.
- `Shc` is SHC.
- The skip conditions: `Bb`, `Bc`, `Bn`, `Bm`, `Bs`, `Blc`, `Brc`.
- `Ls` and `Is` are LS and IS.
- The counting instructions: `Trb`, `Irb`, `Drb`, `Ib`.
- The logic instructions: `OpOr`, `OpNr`, `OpEr`, `OpXr` with Z (`LogicR`),
  and the memory forms OM/NM/EM/XM (`LogicM`). A memory form writes the word
  back and sets Z only when `cpu_mem_put` succeeds.
- `OpNgl`, `Zlb`, `Zrb`, `Sxu`, `Sxl`.
- `cpu_do_cycle`'s argument preparation (`ArgPrep`: pre-mod, B-mod,
  `ar = ac`, ZC17) and one effective cycle of the MD chain (`Cycle`). A 4th MD
  is illegal and resets MC. Any instruction other than MD clears MC.
  `RunCycles` folds `Cycle` over a sequence of cycles (`FoldLeft`). D-mod
  is `Transfers`' `DMod`; the skip is control, which `CpuLoop` models.

C's `uint16_t` arithmetic is kept (`Wrap`). `MC_Alu` states reference
definitions without shifts and masks: a word as the set of its one bits, its
signed value, and rotation as repeated one-bit rotation (`RotR`, RECURSIVE).
It checks every operator against them.

### `Timekeeping`: real-speed throttling

`cpu_timekeeping` (`cpu.c`) runs after every turn of `cpu_loop` when
`speed_real` is set. The throttle state is a record: the absolute deadline
`cpu_timer` (`sec`, `nsec`), the time run since the last sleep
`cpu_time_cumulative` (`cum`), and a count of sleeps.

- `Timekeeping(st, cpu_time)` is the whole function. A negative time (an OU
  cycle) is negated and marks the turn as not sleeping. The time is scaled
  by `cpu_delay_factor` (`Scale`, truncating as the int-to-float-to-int
  conversion does) and added to `cum`. When the turn may sleep and `cum`
  reached `throttle_granularity`, the deadline moves on by `cum`, the
  nanoseconds are carried into seconds (`Normalise`, the `while` loop), `cum`
  is reset and the CPU sleeps.
- `Throttle` folds it over the turns (`FoldLeft`).
- `Resync` is the STOP -> RUN branch of `cpu_loop`: the deadline is read
  from the clock and `cum` is dropped.

The sleep (`clock_nanosleep`) and `buzzer_update` are I/O and are left out.
`cpu_delay_factor` is `1.0f/speed_factor`; the run uses speed factor 2, for
which the float is exact.

### `Transfers`: load, store and jump handlers

The handlers that move words between registers, IC and memory, as operators
on a CPU record (`r`, `ic`, `q`, `nb`, `mem`, `nomem`): `Tw`, `Lws`, `Rw`,
`Pw`, `Rws`, `Rz`, `Ri`, `Rj`, `Jump74`, `Lj`, the multi-register forms
`Load75` (LD..TL) and `Store76` (RD..PL) over the table `Multi`, and
`cpu_do_cycle`'s D-mod fetch (`DMod`). Memory is a function over the mapped
`<<block, address>>` cells; an access elsewhere faults and raises the
no-memory interrupt.

The accessors the handlers call (`cpu_mem_get`, `cpu_mem_put`,
`cpu_mem_mget`, `cpu_mem_mput`) and `REG_RESTRICT_WRITE` are not in this
tree. `MemGet`, `MemPut`, `Mget` and `Mput` follow the spec's `read_word`,
`write_word`, `read_block` and `write_block`: a block transfer stops at the
first fault and moves only the words before it. A register write is a plain
write.

## Runs

| run | cfg | result | what it shows |
|---|---|---|---|
| `elst_refines_queue` | `MC_Elst.cfg` | pass, 9,579 states | capacity 3, priorities {0,1,2}, two payloads. The two rings stay well formed and cover exactly the items handed out (`ListsWellFormed`). `hwm` never passes the allocation (`HwmInBounds`). Each operation changes the queued sequence and returns what `ElstQueue` says (`ImplementsElstQueue`, refinement). |
| `mx_channel` | `MC_MX.cfg` | pass, ~173,000 states | see the notes below |
| `mx_reset_window` | `MC_MX_NoSilentDrop.cfg` | violation | finding: see the notes below |
| `mx_setcfg_twice` | `MC_MX_ConfiguredHasLines.cfg` | violation | finding: see the notes below |
| `mx_reset_lost` | `MC_MX_ResetQueued.cfg` | violation | finding: see the notes below |
| `cpu_loop` | `MC_CpuLoop.cfg` | pass, ~5,600 states | see the notes below |
| `cpu_nomem_stop` | `MC_CpuLoop_Nomem.cfg` | violation | finding: see the notes below |
| `mx_shutdown` | `MC_MXShutdown.cfg` | pass, ~194,000 states | see the notes below |
| `mx_shutdown_reset` | `MC_MXShutdown_Returns.cfg` | violation | finding: see the notes below |
| `ctx_switch` | `MC_CtxSwitch.cfg` | pass, ~113,000 states | see the notes below |
| `ctx_return` | `MC_CtxSwitch_Return.cfg` | violation | finding: see the notes below |
| `alu_words` | `MC_Alu.cfg` | pass, 70,304 states (about 1.5 min) | see the notes below |

**`mx_channel`** uses four physical lines (one 4-line group), one logical
slot the CPU addresses, and up to 4 CPU calls. (The violation runs and the
shutdown runs address two slots, so two line threads answer concurrently
there; with two slots this run's liveness check takes three times as
long.) The memory holds
one of two descriptors: a terminal group bound to slot 0, and the terminal
protocol on a tape line (refused with DIR_MISMATCH: the terminal protocol
needs the input direction, which a tape line, with no direction, lacks). The terminal
protocol implements TRANSMIT; ATTACH has no function and is rejected. It
checks six properties:

- `LatchAnnounced`: a latched interrupt is pending at the CPU unless a
  requested reset will discard it.
- `ReadsInOrder`: the CPU reads interrupts in enqueue order, across REQUEUE.
- `InterruptsDrain`: every interrupt is eventually read or discarded by a
  reset.
- `CommandsAnswered`: every command the channel accepted is eventually
  answered by an interrupt in the interrupt queue, unless a reset or a
  failed SETCFG throws it away. This covers every handler, every
  memory-fault path and the line thread. It holds only while the interrupt
  queue has room. `mx_int_enqueue` drops an answer on a full queue (1024
  entries in the code) without telling anyone. With a one-entry queue the
  property fails within a dozen steps.
- `SetcfgValidates`: on an eight-line channel (an instance of `MXConfig`)
  as `mx_create` leaves it, SETCFG
  accepts exactly the descriptors that satisfy the configuration rules, and
  then leaves `plines` and `llines` as the descriptor says. `Sound` states
  the rules without the code's loops: the counts, each descriptor legal,
  whole groups of one type over the lines as the descriptor leaves them
  (unconfigured lines are zeroed USART lines), one tape group at most, and
  each logical line on its own used line under a known protocol that
  accepts its direction and type. It is checked over every descriptor of
  one or two physical entries (from 11, covering every error) and one or
  two logical entries (lines 0 and 4, three protocol numbers), about 5,500
  descriptors. It is evaluated in the states before the CPU's first call.
  The mutant that checks only three lines of each group breaks it.
- `TypeOK`.

**`mx_reset_window`.** In the trace the CPU resets the channel while it is
still in its init wait: `mx_reset` stores UNINITIALIZED and inserts RESET.
`elst_wait_pop` then returns NULL anyway, because on ETIMEDOUT it leaves its
loop without looking at the list again (`elst.c:318-319`). `__mx_evproc`
takes the NULL as the end of initialisation: it stores INITIALIZED and sends
IWYZE with RESET still queued. The CPU's next command sees INITIALIZED, is
answered OK, and is queued behind RESET. RESET is popped first and clears the
event queue, so the command is never answered. The same state is also reached
without the race, when the init timeout expires between `mx_reset`'s store
(`mx.c:822`) and its insert (`mx.c:823`). The spec says commands issued in the
reset window were answered EN.

**`mx_setcfg_twice`.** A second SETCFG deinitialises the lines but leaves the
channel CONFIGURED. The cause is `mx.c:551`: it compares
`ret_err = (CONFSET<<8)|0` with `CONFSET`.

**`mx_reset_lost`.** With a full event queue, the RESET insert fails and is
ignored. The channel then stays UNINITIALIZED with no init timer running. The
model reaches this with a one-item queue; the real queue holds 1024 events.

**`cpu_loop`** runs every instruction kind and seven operator requests
(STOP, RUN, CYCLE, CLM, CLO, BIN, OFF) against the loop, with channel
interrupts raised at any time and `stop_on_nomem` off. It checks:

- `OperatorStopKept`: once the operator has asked for STOP or OFF, the CPU
  thread does not change the state before it has read the request. Every
  change the thread makes is a compare-and-set from the state it read.
- `WaitWakes`: a CPU in WAIT with a deliverable interrupt leaves WAIT. This is
  the lost wake-up of HLT followed by an interrupt.
- `OffHonoured`: once in OFF, the loop ends, unless the operator changed the
  state again first.
- `TypeOK`, which also bounds `mc` by 3.

**`cpu_nomem_stop`.** With `stop_on_nomem`, `cpu_mem_fail` (`cpu.c:137`) does
`cpu_state_change(STOP, ANY)`. In the trace, the CPU is running and
`cpu_loop` reads RUN. The operator then requests OFF, and the faulting
instruction turns OFF into STOP. `cpu_do_stop` waits for a request that
never comes, and the emulator does not exit.

**`mx_shutdown`.** The setup is that of `mx_channel` with three CPU calls. The
shutdown may come at any point after the CPU's last call. The run checks
`QuietShutdownReturns`: if `mx_shutdown` starts with no RESET queued or being
run, and with room in the event queue, it returns.
- QUIT has the highest priority, so it overtakes every queued event.
- Nothing else inserts into the event queue once the CPU has stopped.

**`mx_shutdown_reset`.** This run checks the spec's claim that shutdown
enqueues EV_QUIT, joins the worker and returns (`ShutdownReturns`). It fails
as follows:
1. The CPU resets the channel and stops.
2. The event thread pops the RESET.
3. `mx_shutdown` inserts QUIT.
4. The RESET handler's `elst_clear` discards the QUIT.
5. The event thread waits for init again, times out, stores INITIALIZED and
   raises IWYZE on a channel that is being shut down.
6. `mx_shutdown` blocks in `pthread_join` for ever.

A full event queue would make `mx_event(QUIT)` fail with the same result.

**`ctx_switch`.** A user process (Q = 1, NB = 1) runs over a system stack
that starts six words below 0xFFFF.

- The second frame wraps to address 0.
- The third frame faults at word 4, part-way through.
- Block 1 holds a context for SP. Some arguments point at it; others are
  unmapped.

`SwitchAllOrNothing` is an action property of EXL and interrupt entries.
Either the whole frame is stored at the old stack pointer, the pointer moves
4 words, and the new context has R0 = 0 and Q = 0. Or a store faulted: NO_MEM
is raised and IC, R0, SR and the pointer are unchanged. `TypeOK` also checks
that the address arithmetic stays within 16 bits.

**`ctx_return`.** This run checks the spec's property 8: LIP restores what
the last switch saved. It fails after one EXL and one LIP.

- `op_73_lip` calls `cpu_ctx_restore` alone. That function reads from AR,
  and the LIP cycle has just set AR to LIP's argument (0).
- `cpu_sp_rewind` has no caller, so the stack pointer never moves back.
- As a result, IC, R0 and SR are loaded from words 0..2. Each EXL/LIP pair
  also leaks 4 stack words.

**`alu_words`.** Inputs are three words from a set of 16-bit edge values
(0, 1, 2, 0xFF, 0x100, 0x3FFF, 0x4000, 0x7FFF, 0x8000, 0x8001, 0xAAAA,
0xFFFE, 0xFFFF), every shift count 0..15, and a flag. It checks:

- `ShiftsAgree`: shifts move bits and set Y and V as the bit-set and
  signed-overflow definitions say.
- `ShcRotates`: SHC is t single-bit rotations.
- `BitTestsAgree`: skip conditions, LS and IS as set relations.
- `CountedLoops`: a loop closed by DRB with n in the register runs its body
  exactly n times, and one closed by IRB with -n in the register likewise,
  for n in {1, 2, 255, 256} (`DrbRuns`, `IrbRuns`, RECURSIVE, one level per
  pass). Testing the register before the step would run it once more. The
  n = 0 case (65536 passes) is too deep for the recursion.
- `LogicAgrees`: OR, NR, ER and XR are union, intersection, difference and
  symmetric difference of bit sets, and Z means "no bit left". A memory form
  whose write-back faults leaves both the word and Z unchanged. NGL, ZLB,
  ZRB, SXU and SXL are checked too.
- `ChainSums`: after k <= 3 MDs, each with argument x and B-modified by y,
  an instruction with argument z gets AC = AR = (k(x+y) + z) mod 2^16,
  whatever AR held before. A 4th MD discards the chain. The instruction after
  the chain is never modified. ZC17 is the carry of the instruction's own
  last addition. The spec calls ZC17 "carry-out … from premod/B-mod chain".
  The code keeps only the carry of the last addition in the cycle: a pre-mod
  carry is overwritten by B-mod's. The two can differ, but the spec does not
  settle which one is meant, so this is recorded and not checked as a
  divergence.

It also checks the throttling and the transfer handlers on the same inputs:

- `TimeConserved`: `Resync` then four turns of `Timekeeping`. The turns take
  x, y, z and x ns, and the bits of t make some of them OU turns. The clock
  starts at 0 or 1 us before a whole second, and y ns are left over from
  before the STOP. After every prefix of the turns:
  - the deadline plus `cum` equals the start plus the scaled time of every
    turn, OU turns included, so no time is lost or counted twice;
  - the deadline's nanoseconds stay below one second;
  - every sleep moved the deadline by at least the granularity;
  - `cum` is at the granularity or more only right after an OU turn.

  The granularity is 32768 ns, which two halved 0x8000 turns reach exactly,
  so the `>=` of the code is tested at equality.
- `CallReturns`: LJ S stores IC in the link word and continues at S+1,
  wrapping at 0xFFFF. The return through the link word (D-mod and JUMP)
  comes back to the caller. An unmapped S leaves everything but the
  no-memory interrupt unchanged. RJ returns through the register.
- `RiFill`: up to four RIs store their arguments in consecutive words. The
  register advances by the number of words written, and after a fault it
  points at the word that faulted.
- `StoresReadBack`: a stored word is read back by a load of the same cell
  exactly when the two handlers address the same block. RW, RWS, RZ and LWS
  use Q*NB; PW and TW use NB. The same holds for each multi-register form,
  up to the first unmapped word; a register the load did not reach keeps
  its value.

Memory for these has block 0 at 100..104, and block 1 (NB) at 65534..0 and
100..102, so both a wrap-around and a fault in the middle of a transfer
happen. The transfer properties are evaluated for x, y, z in
{0, 1, 0x8000, 0xFFFF} (`TrSample`).

Properties that do not read the shift count are evaluated only at t = 0
(`AtOneCount`).

Bounds:

- **Elst.** Capacity 3 is the smallest at which a put on a full list, reuse
  of freed items in both rings, and inserts between two items of other
  priorities all happen.
- **MX, number of calls.** Four CPU calls are enough for each of these:
  - SETCFG, an accepted TRANSMIT, a STATUS and a REQUEUE in one run;
  - a reset racing the event thread;
  - two interrupts queued behind a latch.
- **MX, queue sizes.** Both queues hold 8 items, so the pass run never fills
  them. The violation run `mx_reset_lost` shrinks the event queue to exercise
  the full-queue path.
- **MX, lines.** The channel runs have four physical lines, one 4-line
  group: every line of a configured group is there, and a descriptor that
  runs past it fails NUMLINES. `SetcfgValidates` checks SETCFG on an
  instance of `MXConfig` with eight lines (`MX_LINE_CNT` is 32), two 4-line
  groups, the least at which a second tape group, a group left half
  configured and lines the descriptor never names all occur. Logical lines
  0 and 4 reach an unused line, a line already bound and a line of either
  group. Descriptors of up to two entries of each kind reach every error of
  `mx_line_conf_phy` and `mx_line_conf_log`, overflow past the last line,
  and every first-error order between two entries.

- **CtxSwitch.** The stack has room for two frames and two words of a
  third. This is the least that reaches a wrap, a fault part-way through a
  frame, and a nested switch. One interrupt level is enough, because entries
  differ only in vector and mask.
- **Alu.** The edge values include every boundary where a carry, the sign
  bit or a byte boundary changes a result. The shift count takes every value.
  Chains of 0 to 4 MDs cover every value of MC and the illegal 4th MD.
- **CpuLoop.** Nothing is counted: the state space is finite as it stands.
  Every instruction kind and every request is enabled in every state where
  the code allows it.

Deadlock checking is off for the `CpuLoop` runs, because `cpu_loop` returns
on OFF and the thread then takes no more steps.

Deadlock checking is off for the `MX` runs. The CPU stops after its bounded
calls, and the channel then idles in `elst_wait_pop`. That final state is
legal.

## Plan

The modules are built in this order:

1. `ElstQueue`, `Elst`. Done.
2. `MX`. Done, with `mx_shutdown` and the QUIT event in `MXShutdown`.
   `MXConfig`: SETCFG's checks on decoded descriptors and the tape
   protocol's table, used by `MX`. Done.
3. `CpuLoop`: `cpu_loop`'s state machine with the control of
   `cpu_do_cycle`. Done. Still to add:
   - a run with `speed_real` on. The model has its WAIT tick (one step that
     leaves WAIT when an interrupt is deliverable), but no run checks it
     yet. The argument arithmetic is in `Alu` (pre-mod, B-mod) and
     `Transfers` (D-mod).
4. `CtxSwitch`: `cpu_ctx_switch` and `cpu_ctx_restore` with memory faults
   part-way through, plus LIP's undefined `barnb` argument. Done.
   `Alu`: the handlers that compute on words themselves, the logic
   instructions, and the MD chain's argument preparation. Done.
   `Timekeeping` and `Transfers`: real-speed throttling and the
   load/store/jump handlers, checked in `alu_words`. Done.
5. A composition of `CpuLoop` with `MX`, through an interrupt controller
   that has only a pending bit per channel.

## Not modelled

- **The emulator's configuration files, logging, the buzzer, the disassembler,
  individual device drivers.** They are formatting or I/O with no
  concurrency.
- **The sleep itself.** `Timekeeping` models what `cpu_timekeeping`
  computes. The `clock_nanosleep` to the deadline and the buzzer are I/O.
  The overflow of `cpu_time_cumulative` in a long OU-only loop needs 2^31 ns
  of turns, so it is a hazard with no run.
- **The remaining handlers.** The I/O instructions (`io_dispatch`), the byte
  handlers LB/RB/CB (`cpu_mem_get_byte`) and KI/FI (`int_get_nchan`) call
  code that is not in this tree. LW/LWT, RKY, RIC, RPC, LPC, the short JUMP
  and JVS are single assignments. GIU and GIL are empty. `op_73_softint` and
  CRON only raise interrupts through `int_set`, which is not here.
- **The other arithmetic of the instruction handlers.** ADD, SUB, MUL, DIV
  and the floating-point instructions call into `alu.c` and `awp`. Neither
  is in this tree. `Alu` covers the handlers that compute on words
  themselves.
- **The register write path.** `REG_RESTRICT_WRITE` is not in this tree.
  `Alu` and `Transfers` write registers plainly. `op_72_ngl`, the
  multi-register loads and IN/OU write registers without the macro. This is
  listed as a hazard with no property.
- **`cpu_sp_rewind`.** Nothing in this tree calls it, so no model has an
  action for it. See `ctx_return`.
- **The interrupt controller, memory and I/O dispatcher.** Their code is not
  in this tree. `memory.h` and `cnone.h` only declare functions whose
  bodies are elsewhere. Only their interfaces appear.
- **The SETCFG descriptor buffer.** `mx_cmd_setcfg` reads
  `phy + 4*log` words into a 160-word buffer before it checks the counts.
  The model reads the descriptor as a record, so this overrun is a hazard
  with no property.
- **A failing `pthread_create` for a line thread.** The model's line
  worker exists for every bound slot.
- **`elst_create(1024)` in `mx.c`.** It is called with one argument, but
  `elst.c` takes a destructor as well. With the `elst.c` shown here, the
  list's destructor would be undefined when `elst_clear` calls it. This tree
  is a snapshot in which the two files do not match, and the models assume
  the destructor frees the item.
