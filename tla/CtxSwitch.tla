----------------------------- MODULE CtxSwitch -----------------------------
(***************************************************************************)
(* The process-context save and restore of src/src/cpu/cpu.c              *)
(* (cpu_ctx_switch, cpu_ctx_restore) and the instructions and events that *)
(* use them: EXL (op_71_exl), LIP (op_73_lip), SP (op_77_sp) and the       *)
(* interrupt entry of int_serve, which is not in this tree and is modelled *)
(* from the spec.                                                          *)
(*                                                                         *)
(* All of this runs on the CPU thread, one instruction per step.  Words    *)
(* are 16-bit numbers; memory is a function per block over the addresses  *)
(* that are mapped, and an access anywhere else faults (cpu_mem_fail).     *)
(* SR is the word SR_READ composes: RM in bits 15..6, Q in bit 5, BS in    *)
(* bit 4 and NB in bits 3..0, the layout op_77_mb and op_77_im decode.     *)
(* Between context operations the program only prepares arguments: each   *)
(* cycle sets AR to its argument (cpu_do_cycle: "ar = ac") and may change  *)
(* R0's flags.                                                             *)
(***************************************************************************)
EXTENDS Integers, Sequences, SequencesExt, Bitwise

CONSTANTS STACK_POINTER,  \* the stack pointer word in block 0
          EXL_VECTOR,     \* 96: the EXL handler's address (op_71_exl)
          MASK_9,         \* the RM mask EXL applies
          MappedIn,       \* block -> the addresses mapped in it
          InitMem,        \* block -> address -> initial word
          IntVector,      \* level -> address of its handler's IC (int_serve)
          IntMaskOf,      \* level -> the RM mask its entry applies
          IntBit,         \* level -> its bit in RM
          Args,           \* the arguments (AC) instructions are given
          ShortArgs,      \* LIP's short argument T
          R0s,            \* R0 values the program's instructions produce
          InitIc, InitSr

W == 65536
Word == 0..(W - 1)
\* Mutant: address arithmetic that forgets the 16-bit wrap.
Inc_noWrap(a, k) == a + k

\* uint16_t address arithmetic (ar++, ar += k).
Inc(a, k) == (a + k) % W

Blocks == DOMAIN MappedIn
IsMapped(b, a) == b \in Blocks /\ a \in MappedIn[b]

\* SR_READ / SR_WRITE
SRWord(rm, q, bs, nb) == rm * 64 + q * 32 + bs * 16 + nb
RmOf(sr) == sr \div 64
QOf(sr) == (sr \div 32) % 2
BsOf(sr) == (sr \div 16) % 2
NbOf(sr) == sr % 16

VARIABLES ic, r0, sr, ar, mem,
          nomem,    \* INT_NO_MEM raised (int_set in cpu_mem_fail)
          rALARM,
          frames    \* ghost: <<IC, R0, SR>> of every completed switch not
                    \* yet returned from by LIP

vars == <<ic, r0, sr, ar, mem, nomem, rALARM, frames>>

-----------------------------------------------------------------------------
\* cpu_mem_fail(barnb): NO_MEM always, rALARM only for the barnb=false path.
MemFail(barnb) ==
    /\ nomem' = TRUE
    /\ rALARM' = (rALARM \/ ~barnb)

\* How many of n consecutive accesses from address a in block b succeed
\* before the first fault (the loops of cpu_ctx_switch and cpu_ctx_restore
\* stop at the first failed access).
Reach(b, a, n) ==
    CHOOSE k \in 0..n : /\ \A i \in 0..(k - 1) : IsMapped(b, Inc(a, i))
                        /\ k < n => ~IsMapped(b, Inc(a, k))

\* Block 0 with the words of vec written from address a on, the first k.
Stored(a, vec, k) ==
    [x \in MappedIn[0] |->
        IF \E i \in 0..(k - 1) : Inc(a, i) = x
        THEN vec[CHOOSE i \in 1..k : Inc(a, i - 1) = x]
        ELSE mem[0][x]]

\* Mutant: registers switched before the frame is known to be stored.
CtxSwitch_early(arg, new_ic, int_mask) ==
    LET sp == mem[0][STACK_POINTER]
        vec == <<ic, r0, sr, arg>>
        k == Reach(0, sp, 4)
    IN  /\ ar' = Inc(sp, k)
        /\ ic' = new_ic
        /\ r0' = 0
        /\ sr' = SRWord(RmOf(sr) & int_mask, 0, BsOf(sr), NbOf(sr))
        /\ IF k = 4
           THEN /\ mem' = [mem EXCEPT ![0] = [Stored(sp, vec, 4) EXCEPT ![STACK_POINTER] = Inc(sp, 4)]]
                /\ frames' = Append(frames, <<ic, r0, sr>>)
                /\ UNCHANGED <<nomem, rALARM>>
           ELSE /\ mem' = [mem EXCEPT ![0] = Stored(sp, vec, k)]
                /\ MemFail(FALSE)
                /\ UNCHANGED frames

\* cpu_ctx_switch: read the stack pointer into AR, store IC, R0, SR and the
\* argument from there on, store the advanced pointer back, then enter the
\* new context: R0 = 0, IC = new_ic, Q = 0, RM &= int_mask.  A fault at any
\* access returns at once, with AR advanced past the words already stored.
CtxSwitch(arg, new_ic, int_mask) ==
    LET sp == mem[0][STACK_POINTER]
        vec == <<ic, r0, sr, arg>>
        k == Reach(0, sp, 4)
    IN  /\ ar' = Inc(sp, k)
        /\ IF k = 4
           THEN /\ mem' = [mem EXCEPT ![0] = [Stored(sp, vec, 4) EXCEPT ![STACK_POINTER] = Inc(sp, 4)]]
                /\ ic' = new_ic
                /\ r0' = 0
                /\ sr' = SRWord(RmOf(sr) & int_mask, 0, BsOf(sr), NbOf(sr))
                /\ frames' = Append(frames, <<ic, r0, sr>>)
                /\ UNCHANGED <<nomem, rALARM>>
           ELSE /\ mem' = [mem EXCEPT ![0] = Stored(sp, vec, k)]
                /\ MemFail(FALSE)
                /\ UNCHANGED <<ic, r0, sr, frames>>

\* cpu_ctx_restore(barnb): read IC, R0 and SR from block barnb*NB at AR,
\* AR advancing; a fault returns at once, leaving the words already read in
\* IC and R0 and SR unchanged.  Then SR_WRITE and int_update_mask.
CtxRestore(a, barnb) ==
    LET b == IF barnb THEN NbOf(sr) ELSE 0
        k == Reach(b, a, 3)
        w(i) == mem[b][Inc(a, i)]
    IN  /\ ar' = Inc(a, k)
        /\ ic' = IF k >= 1 THEN w(0) ELSE ic
        /\ r0' = IF k >= 2 THEN w(1) ELSE r0
        /\ sr' = IF k = 3 THEN w(2) ELSE sr
        /\ IF k = 3 THEN UNCHANGED <<nomem, rALARM>> ELSE MemFail(barnb)
        /\ UNCHANGED mem

-----------------------------------------------------------------------------
(* The CPU thread, one cycle per step.                                     *)

\* An instruction of the running program: cpu_do_cycle's argument
\* preparation leaves its argument in AR; it may set R0's flags.
Instr(a, v) ==
    /\ ar' = a
    /\ r0' = v
    /\ UNCHANGED <<ic, sr, mem, nomem, rALARM, frames>>

\* EXL: the handler address from block 0 word 96, then a switch with the
\* argument AC and MASK_9.
Exl(a) ==
    /\ IsMapped(0, EXL_VECTOR)
    /\ CtxSwitch(a, mem[0][EXL_VECTOR], MASK_9)

\* int_serve (from the spec): an unmasked interrupt enters its handler
\* through the same switch, with its specification word (0 here) as the
\* argument.
Serve(l) ==
    /\ (RmOf(sr) & IntBit[l]) # 0
    /\ CtxSwitch(0, mem[0][IntVector[l]], IntMaskOf[l])

\* LIP: a short-argument instruction, so the cycle leaves AR = T; op_73_lip
\* calls cpu_ctx_restore() without the argument its definition takes, so
\* barnb is whatever the call happens to leave there: either value.
Lip(t, barnb) ==
    /\ CtxRestore(t, barnb)
    /\ frames' = IF frames = <<>> THEN frames ELSE Front(frames)

\* SP: three words from [NB:AC]; unless all three are read nothing changes;
\* then IC, R0 and SR_WRITE.  The words go to a local array, so a fault
\* part-way leaves the registers alone.
Sp(a) ==
    LET b == NbOf(sr)
        ok == Reach(b, a, 3) = 3
    IN  /\ ar' = a
        /\ IF ok
           THEN /\ ic' = mem[b][a]
                /\ r0' = mem[b][Inc(a, 1)]
                /\ sr' = mem[b][Inc(a, 2)]
                /\ UNCHANGED <<nomem, rALARM>>
           ELSE /\ MemFail(TRUE)
                /\ UNCHANGED <<ic, r0, sr>>
        /\ UNCHANGED <<mem, frames>>

Init ==
    /\ ic = InitIc
    /\ r0 = 0
    /\ sr = InitSr
    /\ ar = 0
    /\ mem = InitMem
    /\ nomem = FALSE
    /\ rALARM = FALSE
    /\ frames = <<>>

Next ==
    \/ \E a \in Args, v \in R0s : Instr(a, v)
    \/ \E a \in Args : Exl(a) \/ Sp(a)
    \/ \E l \in DOMAIN IntVector : Serve(l)
    \/ \E t \in ShortArgs, b \in BOOLEAN : Lip(t, b)

Spec == Init /\ [][Next]_vars

-----------------------------------------------------------------------------
TypeOK ==
    /\ ic \in Word /\ r0 \in Word /\ sr \in Word /\ ar \in Word
    /\ \A b \in Blocks : mem[b] \in [MappedIn[b] -> Word]
    /\ nomem \in BOOLEAN /\ rALARM \in BOOLEAN
    /\ frames \in Seq(Word \X Word \X Word)

SPWord == mem[0][STACK_POINTER]
FrameIn(m, a) == <<m[0][a], m[0][Inc(a, 1)], m[0][Inc(a, 2)]>>

(* A context switch (EXL or an interrupt entry) is all or nothing for the  *)
(* interrupted program: either the whole frame {IC, R0, SR} is on the      *)
(* stack at the old pointer, the pointer moved past the 4-word frame and   *)
(* the new context is entered with R0 = 0 and Q = 0; or a store faulted,  *)
(* NO_MEM is raised and IC, R0, SR and the stack pointer are untouched, so *)
(* the fault interrupt saves the program's real context.                   *)
SwitchAllOrNothing ==
    [][(\E a \in Args : Exl(a)) \/ (\E l \in DOMAIN IntVector : Serve(l))
       => \/ /\ SPWord' = Inc(SPWord, 4)
             /\ FrameIn(mem', SPWord) = <<ic, r0, sr>>
             /\ r0' = 0 /\ QOf(sr') = 0
          \/ /\ nomem'
             /\ UNCHANGED <<ic, r0, sr>>
             /\ SPWord' = SPWord]_vars

(* Spec, section 8, property 8: LIP after a context switch restores the    *)
(* {IC, R0, SR} that the switch saved (cpu_ctx_restore after               *)
(* cpu_ctx_switch).                                                        *)
ReturnRestores ==
    [][\A t \in ShortArgs, b \in BOOLEAN :
         (Lip(t, b) /\ frames # <<>> /\ Reach(IF b THEN NbOf(sr) ELSE 0, t, 3) = 3)
           => <<ic', r0', sr'>> = Last(frames)]_vars
=============================================================================
