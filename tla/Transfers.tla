----------------------------- MODULE Transfers -----------------------------
(***************************************************************************)
(* The load, store and jump handlers of src/src/cpu/instructions.c that    *)
(* move words between the registers, IC and memory: TW, LWS, RW, PW, RWS,  *)
(* RI, RZ, RJ, LJ, the long JUMP and the multi-register transfers of      *)
(* groups 75 and 76 (LD ... PL); and the                                  *)
(* indirect argument fetch (D-mod) of cpu_do_cycle that a return through  *)
(* a word uses.                                                             *)
(*                                                                         *)
(* A CPU state is a record: the registers r (0..7), IC, Q, NB, memory and  *)
(* the no-memory interrupt.  Memory maps <<block, address>> cells that are *)
(* mapped to their words; an access to any other cell faults.  The word   *)
(* accessors the handlers call (cpu_mem_get, cpu_mem_put, cpu_mem_mget,    *)
(* cpu_mem_mput) are not in this tree and are modelled from the spec's    *)
(* read_word, write_word, read_block and write_block: a fault raises the  *)
(* no-memory interrupt, and a block transfer stops at the first fault and *)
(* returns the count moved.  REG_RESTRICT_WRITE (the user-mode register   *)
(* mask) is not in this tree either; a register write is a plain write.   *)
(***************************************************************************)
EXTENDS Integers, Sequences

\* uint16_t address and IC arithmetic.
U16(a) == a % 65536

\* QNB: the block of a Q*NB access, NB in user mode and block 0 otherwise.
QNB(s) == IF s.q THEN s.nb ELSE 0

Mapped(s, b, a) == <<b, a>> \in DOMAIN s.mem

\* cpu_mem_get / read_word: the word, or a fault raising INT_NO_MEM.
MemGet(s, b, a) ==
    IF Mapped(s, b, a) THEN [ok |-> TRUE, v |-> s.mem[<<b, a>>], s |-> s]
    ELSE [ok |-> FALSE, v |-> 0, s |-> [s EXCEPT !.nomem = TRUE]]

\* cpu_mem_put / write_word.
MemPut(s, b, a, v) ==
    IF Mapped(s, b, a) THEN [ok |-> TRUE, s |-> [s EXCEPT !.mem[<<b, a>>] = v]]
    ELSE [ok |-> FALSE, s |-> [s EXCEPT !.nomem = TRUE]]

\* Words of n consecutive cells from a that are reached before a fault.
Reached(s, b, a, n) ==
    LET ok(k) == \A i \in 0..(k - 1) : Mapped(s, b, U16(a + i))
    IN  CHOOSE k \in 0..n : ok(k) /\ (k < n => ~Mapped(s, b, U16(a + k)))

\* cpu_mem_mget(b, a, r+base, n) / read_block: registers base.. get the
\* words up to the first fault.
Mget(s, b, a, base, n) ==
    LET k == Reached(s, b, a, n)
    IN  [s EXCEPT !.r = [i \in DOMAIN s.r |->
                           IF i \in base..(base + k - 1)
                           THEN s.mem[<<b, U16(a + i - base)>>] ELSE s.r[i]],
                  !.nomem = s.nomem \/ k < n]

\* cpu_mem_mput(b, a, r+base, n) / write_block.
Mput(s, b, a, base, n) ==
    LET k == Reached(s, b, a, n)
    IN  [s EXCEPT !.mem = [c \in DOMAIN s.mem |->
                             IF c[1] = b /\ \E i \in 0..(k - 1) : U16(a + i) = c[2]
                             THEN s.r[base + CHOOSE i \in 0..(k - 1) : U16(a + i) = c[2]]
                             ELSE s.mem[c]],
                  !.nomem = s.nomem \/ k < n]

SetReg(s, i, v) == [s EXCEPT !.r[i] = v]

-----------------------------------------------------------------------------
(* The handlers: s is the state, a is IR_A, ac the prepared argument.      *)

\* op_tw: Rx = [NB:AC]; op_lws: Rx = [Q*NB:IC+AC].
Tw(s, a, ac) == LET g == MemGet(s, s.nb, ac) IN IF g.ok THEN SetReg(s, a, g.v) ELSE g.s
Lws(s, a, ac) ==
    LET g == MemGet(s, QNB(s), U16(s.ic + ac)) IN IF g.ok THEN SetReg(s, a, g.v) ELSE g.s

\* op_rw, op_pw, op_rws, op_77_rz: the register (or 0) to memory.
Rw(s, a, ac) == MemPut(s, QNB(s), ac, s.r[a]).s
Pw(s, a, ac) == MemPut(s, s.nb, ac, s.r[a]).s
Rws(s, a, ac) == MemPut(s, QNB(s), U16(s.ic + ac), s.r[a]).s
Rz(s, ac) == MemPut(s, QNB(s), ac, 0).s

\* Mutant: RI advances the register whether or not the store succeeded.
Ri_alwaysInc(s, a, ac) ==
    LET p == MemPut(s, QNB(s), s.r[a], ac) IN SetReg(p.s, a, U16(s.r[a] + 1))

\* op_ri: [Q*NB:Rx] = AC, then Rx++ only when the store succeeded.
Ri(s, a, ac) ==
    LET p == MemPut(s, QNB(s), s.r[a], ac)
    IN  IF p.ok THEN SetReg(p.s, a, U16(s.r[a] + 1)) ELSE p.s

\* op_rj: Rx = IC, IC = AC.
Rj(s, a, ac) == [SetReg(s, a, s.ic) EXCEPT !.ic = ac]

\* op_74_jump: IC = AC.
Jump74(s, ac) == [s EXCEPT !.ic = ac]

\* Mutant: LJ jumps to the link word itself.
Lj_noSkip(s, ac) ==
    LET p == MemPut(s, QNB(s), ac, s.ic)
    IN  IF p.ok THEN [p.s EXCEPT !.ic = ac] ELSE p.s

\* op_74_lj: [Q*NB:AC] = IC, and only if that succeeded IC = AC + 1.
Lj(s, ac) ==
    LET p == MemPut(s, QNB(s), ac, s.ic)
    IN  IF p.ok THEN [p.s EXCEPT !.ic = U16(ac + 1)] ELSE p.s

\* cpu_do_cycle's D-mod: the argument is the word at [Q*NB:AC]
\* (cpu_mem_read_1(q, ac, &ac)); a fault makes the instruction ineffective.
DMod(s, ac) == MemGet(s, QNB(s), ac)

\* Groups 75 and 76: the register block each moves (first register, count)
\* and whether it addresses Q*NB (LD.., RD..) or NB (TD.., PD..).
Multi == [D |-> <<1, 2>>, F |-> <<1, 3>>, A |-> <<1, 7>>, L |-> <<5, 3>>]

\* Mutant: RL stores from R1 like the other forms.
Store76_rlFromR1(s, m, qnb, ac) ==
    LET b == IF qnb THEN QNB(s) ELSE s.nb
    IN  Mput(s, b, ac, IF m = "L" THEN 1 ELSE Multi[m][1], Multi[m][2])

\* op_76_rd .. op_76_pl.
Store76(s, m, qnb, ac) ==
    Mput(s, IF qnb THEN QNB(s) ELSE s.nb, ac, Multi[m][1], Multi[m][2])

\* op_75_ld .. op_75_tl.
Load75(s, m, qnb, ac) ==
    Mget(s, IF qnb THEN QNB(s) ELSE s.nb, ac, Multi[m][1], Multi[m][2])
=============================================================================
