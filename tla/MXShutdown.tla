----------------------------- MODULE MXShutdown -----------------------------
(***************************************************************************)
(* mx_shutdown() of src/src/io/mx/mx.c and the event thread's QUIT, on top *)
(* of the channel of MX.                                                   *)
(*                                                                         *)
(* The emulator's exit path calls the channel's shutdown (io.c, not in     *)
(* this tree) on the CPU's thread once the CPU loop has returned, so from  *)
(* then on the CPU issues no further calls; the event thread and the line  *)
(* threads keep running until they are told to quit.  mx_shutdown:        *)
(*  1. stores UNINITIALIZED in multix->state (never QUIT);                 *)
(*  2. mx_event(QUIT): inserts a QUIT event at the highest priority, or    *)
(*     fails when the event queue is full;                                 *)
(*  3. pthread_join on the event thread, which leaves its loop when it     *)
(*     pops QUIT;                                                          *)
(*  4. mx_lines_deinit, then frees the queues and the channel.             *)
(***************************************************************************)
EXTENDS MX

VARIABLES sdPc,    \* mx_shutdown: "none", "event" (before mx_event),
                   \* "join" (in pthread_join), "done"
          evQuit   \* __mx_evproc has left its loop (quit = 1)

sdVars == <<sdPc, evQuit>>
allVars == <<vars, sdVars>>

\* Step 1, on the CPU's thread after its last call into the channel.
ShutdownBegin ==
    /\ sdPc = "none" /\ cpuPc = "idle"
    /\ sdPc' = "event"
    /\ state' = UNINITIALIZED
    /\ UNCHANGED <<eventq, timeout, intq, intspec, cpuInt, plines, llines, lstatus, devq, cpuPc,
                   evPc, nextId, resetMark, nInt, lastRead, silentDrops, evQuit, answered, dropped, accepted>>

\* Step 2: mx_event(MX_EV_QUIT), its result ignored.
ShutdownEvent ==
    /\ sdPc = "event"
    /\ sdPc' = "join"
    /\ eventq' = EventInserted(NoEvent("QUIT"))
    /\ UNCHANGED <<state, timeout, intq, intspec, cpuInt, plines, llines, lstatus, devq, cpuPc,
                   evPc, nextId, resetMark, nInt, lastRead, silentDrops, evQuit, answered, dropped, accepted>>

\* The event thread pops QUIT and leaves its loop.
EvQuit ==
    /\ ~evQuit /\ evPc = "idle"
    /\ eventq # <<>> /\ Head(eventq).ptr.type = "QUIT"
    /\ eventq' = Tail(eventq)
    /\ evQuit' = TRUE
    /\ UNCHANGED <<state, timeout, intq, intspec, cpuInt, plines, llines, lstatus, devq, cpuPc,
                   evPc, nextId, resetMark, nInt, lastRead, silentDrops, sdPc, answered, dropped, accepted>>

\* Steps 3 and 4: pthread_join returns once the event thread has quit;
\* mx_lines_deinit stops the line threads.  What follows only frees memory.
ShutdownJoin ==
    /\ sdPc = "join" /\ evQuit
    /\ sdPc' = "done"
    /\ LinesDeinit
    /\ UNCHANGED <<state, eventq, timeout, intq, intspec, cpuInt, cpuPc, evPc, nextId,
                   resetMark, nInt, lastRead, silentDrops, evQuit, answered, dropped, accepted>>

SdInit == Init /\ sdPc = "none" /\ evQuit = FALSE

CpuRuns == sdPc = "none" /\ CpuNext /\ UNCHANGED sdVars
EvRuns == ~evQuit /\ EvNext /\ UNCHANGED sdVars
LineRuns(l) == LineWork(l) /\ UNCHANGED sdVars

SdNext ==
    \/ CpuRuns \/ EvRuns \/ \E l \in LogLines : LineRuns(l)
    \/ ShutdownBegin \/ ShutdownEvent \/ EvQuit \/ ShutdownJoin

(* As in MX, and: mx_shutdown, once called, runs on (it is a plain       *)
(* sequence of calls); the CPU need never shut the channel down.           *)
SdFairness ==
    /\ WF_allVars(EvRuns) /\ WF_allVars(EvQuit)
    /\ \A l \in LogLines : WF_allVars(LineRuns(l))
    /\ WF_allVars(sdPc = "none" /\ CpuResetEvent /\ UNCHANGED sdVars)
    /\ WF_allVars(sdPc = "none" /\ CpuServe /\ UNCHANGED sdVars)
    /\ WF_allVars(ShutdownEvent) /\ WF_allVars(ShutdownJoin)

SdSpec == SdInit /\ [][SdNext]_allVars /\ SdFairness

-----------------------------------------------------------------------------
(* The spec (Cancellation/timeout): shutdown enqueues EV_QUIT at the       *)
(* highest priority and joins the worker, so mx_shutdown returns.          *)
ShutdownReturns == sdPc = "event" ~> sdPc = "done"

(* mx_shutdown returns when it is called with no reset under way (no RESET *)
(* queued or being run by the event thread) and room in the event queue:   *)
(* QUIT then overtakes every queued event and ends the event loop.         *)
QuietShutdownReturns ==
    (sdPc = "event" /\ ~ResetPending /\ ~EQ!IsFull(eventq)) ~> sdPc = "done"
=============================================================================
