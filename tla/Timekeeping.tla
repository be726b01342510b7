----------------------------- MODULE Timekeeping -----------------------------
(***************************************************************************)
(* The CPU's real-speed throttling (src/src/cpu/cpu.c): cpu_timekeeping,   *)
(* called by cpu_loop after every turn with the time the turn took, and    *)
(* the timer resynchronisation when the CPU is started.                    *)
(*                                                                         *)
(* The throttle state is the absolute deadline cpu_timer (seconds and      *)
(* nanoseconds), the time run since the last sleep, cpu_time_cumulative,   *)
(* and a count of the sleeps taken.  The sleep itself (clock_nanosleep to  *)
(* the deadline) and the buzzer are I/O and are left out: a sleep is the   *)
(* deadline moving on and the count going up.  cpu_delay_factor is         *)
(* 1.0f / speed_factor, a constant DelayNum / DelayDen here; the model is  *)
(* exact where the float is (speed factors that are powers of two).        *)
(***************************************************************************)
EXTENDS Integers, SequencesExt

CONSTANTS Granularity,         \* throttle_granularity, in ns
          DelayNum, DelayDen   \* cpu_delay_factor = DelayNum / DelayDen

ASSUME Granularity \in Nat /\ DelayNum \in Nat /\ DelayDen \in Nat \ {0}

NS == 1000000000

\* cpu_time *= cpu_delay_factor: the int is converted to float, scaled and
\* truncated back (towards zero; the time is not negative here).
Scale(t) == (t * DelayNum) \div DelayDen

\* The loop "while (tv_nsec >= 1000000000) { tv_nsec -= ...; tv_sec++; }".
Normalise(sec, nsec) == [sec |-> sec + nsec \div NS, nsec |-> nsec % NS]

\* Mutant: the cumulative time is not reset after the sleep.
Timekeeping_keepCum(st, cpu_time) ==
    LET skip == cpu_time < 0
        cum  == st.cum + Scale(IF skip THEN -cpu_time ELSE cpu_time)
        tm   == Normalise(st.sec, st.nsec + cum)
    IN  IF ~skip /\ cum >= Granularity
        THEN [sec |-> tm.sec, nsec |-> tm.nsec, cum |-> cum, sleeps |-> st.sleeps + 1]
        ELSE [st EXCEPT !.cum = cum]

\* cpu_timekeeping(cpu_time): a negative time (an OU instruction) is counted
\* but never slept on; otherwise, once the cumulative time reaches the
\* granularity, the deadline moves on by all of it and the CPU sleeps.
Timekeeping(st, cpu_time) ==
    LET skip == cpu_time < 0
        cum  == st.cum + Scale(IF skip THEN -cpu_time ELSE cpu_time)
        tm   == Normalise(st.sec, st.nsec + cum)
    IN  IF ~skip /\ cum >= Granularity
        THEN [sec |-> tm.sec, nsec |-> tm.nsec, cum |-> 0, sleeps |-> st.sleeps + 1]
        ELSE [st EXCEPT !.cum = cum]

\* The turns of cpu_loop with speed_real set, one time per turn.
Throttle(st, times) == FoldLeft(Timekeeping, st, times)

\* cpu_loop, STOP -> RUN with speed_real: the deadline is read from the
\* monotonic clock (now) and the cumulative time dropped.
Resync(st, now) == [st EXCEPT !.sec = now.sec, !.nsec = now.nsec, !.cum = 0]
=============================================================================
