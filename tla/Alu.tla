-------------------------------- MODULE Alu --------------------------------
(***************************************************************************)
(* The word operations of the instruction handlers in                      *)
(* src/src/cpu/instructions.c that compute on 16-bit words themselves      *)
(* rather than through alu.c (not in this tree): shifts, the SHC rotation, *)
(* the bit tests that set P (skip), the masked load LS, test-and-set IS,   *)
(* and the counting jumps and skips.                                       *)
(*                                                                         *)
(* Each operator is the body of its handler as a function of the values   *)
(* it reads, returning what it writes: a new register or memory word and  *)
(* the flags or P it sets.  The register write (REG_RESTRICT_WRITE) and    *)
(* the memory access are left to the caller.  C's uint16_t arithmetic is   *)
(* kept: every result is taken modulo 2^16.                               *)
(***************************************************************************)
EXTENDS Integers, Bitwise, SequencesExt

W == 65536
Not16(x) == W - 1 - x          \* ~x on a uint16_t
Wrap(x) == (x + W) % W         \* storing an int into a uint16_t

-----------------------------------------------------------------------------
(* 72: shifts.  y and v are the flags Y and V before the instruction.      *)

\* Mutant: V tested on bit 14 of the result instead of the sign bit.
ShiftLeft_bit14(r, in, check_v, v) ==
    LET res == Wrap(r * 2) | in
    IN  [res |-> res,
         v |-> v \/ (check_v /\ ((r ^^ res) & 16384) # 0),
         y |-> (r & 32768) # 0]

\* shift_left(shift_in, check_v): SLZ/SLY/SLX (check_v = 0) and
\* SVZ/SVY/SVX (check_v = 1); V is only ever set, Y gets the bit shifted out.
ShiftLeft(r, in, check_v, v) ==
    LET res == Wrap(r * 2) | in
    IN  [res |-> res,
         v |-> v \/ (check_v /\ ((r ^^ res) & 32768) # 0),
         y |-> (r & 32768) # 0]

\* shift_right(shift_in): SRZ, SRY, SRX; the caller passes the flag << 15.
ShiftRight(r, in) ==
    [res |-> (r \div 2) | in, y |-> (r & 1) # 0]

\* Mutant: the mask of the falling bits built as 1<<t.
Shc_mask(r, t) ==
    IF t = 0 THEN r
    ELSE (r \div 2^t) | Wrap((r & (2^t)) * 2^(16 - t))

\* op_72_shc: rotate right by IR_t; t = 0 returns at once.
Shc(r, t) ==
    IF t = 0 THEN r
    ELSE (r \div 2^t) | Wrap((r & (2^t - 1)) * 2^(16 - t))

-----------------------------------------------------------------------------
(* Bit tests: each is the condition under which the handler sets P.        *)

Bb(r, ac) == (r & ac) = ac                       \* op_bb
Bc(r, ac) == (r & ac) # ac                       \* op_bc
Bn(r, ac) == (r & ac) = 0                        \* op_bn
Bm(data, r) == (data & r) = r                    \* op_bm, on the word read

\* Mutant: the argument compared without the r7 mask.
Bs_unmasked(r, ac, r7) == (r & r7) = ac

Bs(r, ac, r7) == (r & r7) = (ac & r7)            \* op_bs
Blc(r0, ac) == ((r0 \div 256) & ac) # ac         \* op_71_blc
Brc(r0, ac) == (r0 & ac) # ac                    \* op_71_brc

\* op_ls: the bits of AC selected by r7 replace those of the register.
Ls(r, ac, r7) == (r & Not16(r7)) | (ac & r7)

\* op_is on a word read from memory: skip when every bit of the register is
\* already set in it, otherwise write it back with those bits set.
Is(data, r) ==
    IF (data & r) = r THEN [skip |-> TRUE, data |-> data]
    ELSE [skip |-> FALSE, data |-> data | r]

-----------------------------------------------------------------------------
(* Counting: the register (or word) after the step, and the condition for *)
(* the skip or the jump (ic += ac).                                        *)

Trb(r, ac) == LET n == Wrap(r + ac) IN [res |-> n, skip |-> n = 0]   \* op_trb
Irb(r) == LET n == Wrap(r + 1) IN [res |-> n, jump |-> n # 0]        \* op_irb

\* Mutant: the jump decided on the register before the decrement.
Drb_before(r) == LET n == Wrap(r - 1) IN [res |-> n, jump |-> r # 0]

Drb(r) == LET n == Wrap(r - 1) IN [res |-> n, jump |-> n # 0]        \* op_drb
Ib(data) == LET n == Wrap(data + 1) IN [res |-> n, skip |-> n = 0]   \* op_77_ib

-----------------------------------------------------------------------------
(* Logic.  alu_16_set_Z_bool (alu.c, not in this tree) sets Z exactly when *)
(* the word is 0 (spec, section 5).                                        *)

OpOr(r, ac) == r | ac                     \* op_or;  op_om on (data, r)
OpNr(r, ac) == r & ac                     \* op_nr;  op_nm

\* Mutant: ER without the complement of the argument.
OpEr_noNot(r, ac) == r & ac

OpEr(r, ac) == r & Not16(ac)              \* op_er;  op_em: data &= ~r
OpXr(r, ac) == r ^^ ac                    \* op_xr;  op_xm
OpNgl(r) == Not16(r)                      \* op_72_ngl

\* The register forms: the result of the operation and Z.
LogicR(res) == [res |-> res, z |-> res = 0]

\* The memory forms (OM, NM, EM, XM) once cpu_mem_get has read data and the
\* operation on (data, r) has given d: the word is written back and Z set
\* only if cpu_mem_put succeeds; a failed put leaves the word and Z as
\* they were.
LogicM(d, data, putOk, z) ==
    IF putOk THEN [data |-> d, z |-> d = 0] ELSE [data |-> data, z |-> z]

Zlb(r) == r & 255                       \* op_72_zlb
Zrb(r) == r & 65280                     \* op_72_zrb
Sxu(r) == (r & 32768) # 0               \* op_72_sxu: X from bit 15
Sxl(r) == (r & 1) # 0                   \* op_72_sxl: X from bit 0

-----------------------------------------------------------------------------
(* Argument preparation of cpu_do_cycle (src/src/cpu/cpu.c) and the MD    *)
(* modification chain.  A cycle is a record: md (the instruction is MD),  *)
(* arg (AC as fetched: r[IR_C], the second word, T or b) and rb (r[IR_B],  *)
(* or NoB when IR_B = 0 or the argument is not a normal one).  The CPU    *)
(* registers the chain passes on are ac, ar, mc and zc17; ill records that *)
(* the cycle raised INT_ILLEGAL_INSTRUCTION.  D-mod (a memory read) is     *)
(* left out: the chain's arithmetic is about AC before it.                *)

NoB == -1

\* Pre-mod, B-mod, "ar = ac": ac and ar are uint16_t, so every sum is stored
\* modulo 2^16 while zc17 tests the sum in int before the store; B-mod
\* sets zc17 again, over pre-mod's value.
ArgPrep(arg, ar, mc, rb) ==
    LET pre  == IF mc # 0 THEN arg + ar ELSE arg
        z1   == mc # 0 /\ pre > 65535
        a1   == pre % W
        post == IF rb = NoB THEN a1 ELSE a1 + rb
        z2   == IF rb = NoB THEN z1 ELSE post > 65535
    IN  [ac |-> post % W, zc17 |-> z2]

\* Mutant: mc left as it is after an instruction that is not MD.
Cycle_keepMc(st, c) ==
    IF c.md /\ st.mc = 3
    THEN [st EXCEPT !.mc = 0, !.ill = TRUE]
    ELSE LET a == ArgPrep(c.arg, st.ar, st.mc, c.rb)
         IN  [ac |-> a.ac, ar |-> a.ac, zc17 |-> a.zc17,
              mc |-> IF c.md THEN st.mc + 1 ELSE st.mc, ill |-> st.ill]

\* One effective cycle: a 4th MD (mc = 3) raises the illegal-instruction
\* interrupt and goes "ineffective" (mc = 0, nothing prepared); otherwise
\* the argument is prepared, the handler runs (op_77_md: mc++) and mc is
\* cleared unless the instruction was MD.
Cycle(st, c) ==
    IF c.md /\ st.mc = 3
    THEN [st EXCEPT !.mc = 0, !.ill = TRUE]
    ELSE LET a == ArgPrep(c.arg, st.ar, st.mc, c.rb)
         IN  [ac |-> a.ac, ar |-> a.ac, zc17 |-> a.zc17,
              mc |-> IF c.md THEN st.mc + 1 ELSE 0, ill |-> st.ill]

\* The registers after a sequence of cycles.
RunCycles(st, cs) == FoldLeft(Cycle, st, cs)
=============================================================================
