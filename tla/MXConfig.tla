------------------------------ MODULE MXConfig ------------------------------
(***************************************************************************)
(* The line configuration of the MULTIX channel (src/src/io/mx/mx.c):      *)
(* mx_cmd_setcfg checking a SETCFG descriptor and configuring the          *)
(* physical lines (mx_line_conf_phy) and the logical lines                 *)
(* (mx_line_conf_log), and the tape protocol's table                       *)
(* (src/src/io/mx/proto_tape.c).                                           *)
(*                                                                         *)
(* A configuration is the decoded descriptor: a sequence of physical line  *)
(* descriptors (count = low 5 bits + 1, direction, used, type) and a       *)
(* sequence of logical line descriptors (physical line, protocol number).  *)
(* The header's two counts are the lengths of the sequences.  The channel  *)
(* state the configuration works on is plines (physical line -> direction, *)
(* used, type) and llines (logical slot -> the physical line and protocol  *)
(* it is bound to, or NONE), as in struct mx.  Errors are the names of the *)
(* MX_SC_E_* codes.                                                        *)
(*                                                                         *)
(* The numeric values of the line types and directions are those of mx.h, *)
(* which is not in this tree; they are constants of the model.             *)
(***************************************************************************)
EXTENDS Integers, SequencesExt, Bitwise

CONSTANTS LineCnt,          \* MX_LINE_CNT (32)
          DIR_NONE, DIR_INPUT, DIR_OUTPUT, DIR_HALF_DUPLEX, DIR_FULL_DUPLEX,
          PHY_USART_ASYNC, PHY_8255, PHY_USART_SYNC, PHY_MTAPE, PHY_CNT,
          Protos,           \* mx_proto_get: protocol number -> its mx_proto
          NONE

ASSUME /\ LineCnt \in Nat /\ LineCnt % 4 = 0 /\ LineCnt > 0
       /\ PHY_USART_ASYNC = 0   \* the type of a zeroed line (calloc, deinit)
       /\ \A p \in DOMAIN Protos : DOMAIN Protos[p] = {"dir", "types", "cmds"}

Lines == 0..(LineCnt - 1)

\* A physical line of a freshly created or deinitialised channel
\* (mx_create's calloc, mx_lines_deinit).
ZeroLine == [dir |-> 0, used |-> FALSE, type |-> 0]
FreshLines == [k \in Lines |-> ZeroLine]
NoBinding == [s \in Lines |-> NONE]

\* mx_drv_tape: no direction, magnetic tape lines only, and no function for
\* any command (every entry of .cmd has fun = NULL); mx_tape_init accepts
\* any protocol words.
TapeProto == [dir |-> DIR_NONE, types |-> {PHY_MTAPE}, cmds |-> {}]

-----------------------------------------------------------------------------
(* mx_line_conf_phy: the directions a line of the descriptor's type may   *)
(* have; a USART line may have none only when it is unused.               *)
LegalDirs(d) ==
    CASE d.type \in {PHY_USART_SYNC, PHY_USART_ASYNC} ->
            {DIR_OUTPUT, DIR_INPUT, DIR_HALF_DUPLEX, DIR_FULL_DUPLEX}
            \cup (IF d.used THEN {} ELSE {DIR_NONE})
      [] d.type = PHY_8255 -> {DIR_OUTPUT, DIR_INPUT}
      [] OTHER -> {DIR_NONE}

ConfPhy(d) ==
    IF d.type >= PHY_CNT THEN "DEVTYPE"
    ELSE IF d.dir \notin LegalDirs(d) THEN "DIR"
    ELSE "OK"

\* The physical-line loop visits count lines per descriptor, in order.
PhyLines(phys) == FoldLeft(LAMBDA acc, d : acc \o [j \in 1..d.count |-> d], <<>>, phys)

\* plines with the first m lines of the expansion E written.
Written(pl, E, m) ==
    [k \in Lines |-> IF k < m THEN [dir |-> E[k + 1].dir, used |-> E[k + 1].used,
                                   type |-> E[k + 1].type]
                     ELSE pl[k]]

\* The loop "configure physical lines": stop at the first line
\* mx_line_conf_phy refuses, or at line MX_LINE_CNT (NUMLINES).
SetcfgPhy(phys, pl) ==
    LET E   == PhyLines(phys)
        n   == IF Len(E) < LineCnt THEN Len(E) ELSE LineCnt
        bad == {k \in 0..(n - 1) : ConfPhy(E[k + 1]) # "OK"}
    IN  IF bad # {}
        THEN [err |-> ConfPhy(E[Min(bad) + 1]), pl |-> Written(pl, E, Min(bad))]
        ELSE IF Len(E) > LineCnt
        THEN [err |-> "NUMLINES", pl |-> Written(pl, E, LineCnt)]
        ELSE [err |-> "OK", pl |-> Written(pl, E, Len(E))]

\* Mutant: the group walk compares only lines 1..2 with the group's first.
GroupErr_threeLines(pl) ==
    LET tapes(g) == Cardinality({h \in 0..g : pl[4 * h].type = PHY_MTAPE})
        bad(g)   == \/ pl[4 * g].type = PHY_MTAPE /\ tapes(g) > 1
                    \/ \E j \in 1..2 : pl[4 * g + j].type # pl[4 * g].type
    IN  IF \E g \in 0..(LineCnt \div 4 - 1) : bad(g) THEN "PHY_INCOMPLETE" ELSE "OK"

\* "check the completness of physical lines configuration": per 4-line
\* group, at most one magnetic tape group so far, and all four lines of the
\* type of the group's first line.
GroupErr(pl) ==
    LET tapes(g) == Cardinality({h \in 0..g : pl[4 * h].type = PHY_MTAPE})
        bad(g)   == \/ pl[4 * g].type = PHY_MTAPE /\ tapes(g) > 1
                    \/ \E j \in 1..3 : pl[4 * g + j].type # pl[4 * g].type
    IN  IF \E g \in 0..(LineCnt \div 4 - 1) : bad(g) THEN "PHY_INCOMPLETE" ELSE "OK"

\* mx_line_conf_log(multix, phy_n, log_n = i): the physical line must be
\* used and not bound to any logical line, the protocol must exist, its
\* direction bits be set in the line's and the line's type be one it
\* accepts; then the slot is bound.  (proto->init: mx_tape_init returns OK.)
ConfLog(pl, ll, i, ld) ==
    LET p == pl[ld.phy]
        pr == Protos[ld.proto]
    IN  IF ~p.used THEN [err |-> "PHY_UNUSED", ll |-> ll]
        ELSE IF \E s \in Lines : ll[s] # NONE /\ ll[s].phy = ld.phy
             THEN [err |-> "PHY_USED", ll |-> ll]
        ELSE IF ld.proto \notin DOMAIN Protos THEN [err |-> "PROTO_MISSING", ll |-> ll]
        ELSE IF (pr.dir & p.dir) # pr.dir THEN [err |-> "DIR_MISMATCH", ll |-> ll]
        ELSE IF p.type \notin pr.types THEN [err |-> "PROTO_MISMATCH", ll |-> ll]
        ELSE [err |-> "OK", ll |-> [ll EXCEPT ![i] = [phy |-> ld.phy, proto |-> ld.proto]]]

\* The loop "configure logical lines", stopping at the first error.
SetcfgLogs(logs, pl, ll) ==
    FoldLeft(LAMBDA acc, i : IF acc.err # "OK" THEN acc
                             ELSE ConfLog(pl, acc.ll, i - 1, logs[i]),
             [err |-> "OK", ll |-> ll], [i \in DOMAIN logs |-> i])

\* mx_cmd_setcfg after its CONFSET test and the descriptor read: the line
\* counts, the physical lines, the groups, the logical lines; the first
\* error ends it.  Returns the error and plines and llines as left.
Setcfg(cfg, pl, ll) ==
    LET np == Len(cfg.phys)
        nl == Len(cfg.logs)
        ph == SetcfgPhy(cfg.phys, pl)
        lg == SetcfgLogs(cfg.logs, ph.pl, ll)
    IN  IF np = 0 \/ np > LineCnt \/ nl = 0 \/ nl > LineCnt
        THEN [err |-> "NUMLINES", pl |-> pl, ll |-> ll]
        ELSE IF ph.err # "OK" THEN [err |-> ph.err, pl |-> ph.pl, ll |-> ll]
        ELSE IF GroupErr(ph.pl) # "OK" THEN [err |-> GroupErr(ph.pl), pl |-> ph.pl, ll |-> ll]
        ELSE [err |-> lg.err, pl |-> ph.pl, ll |-> lg.ll]
=============================================================================
