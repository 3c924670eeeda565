-------------------------------- MODULE Vfpu --------------------------------
(***************************************************************************)
(* The vector unit of vfpu_interp.c (sr_vfpu_interp) with the prefixes of  *)
(* recomp.c (sr_vread, sr_vwrite): which lanes of the register file a      *)
(* register names, how a prefix changes what the next instruction reads    *)
(* and writes, and when it is used up.                                     *)
(*                                                                         *)
(* A lane holds a number counted in twelfths, so that the eight constants  *)
(* of a prefix are whole.  The instructions that only move, negate, choose *)
(* or set numbers are modelled with their values; sums, products and the   *)
(* tabulated functions give any number of Results to each lane.  The       *)
(* number of instructions run is bounded by MaxRun.                        *)
(***************************************************************************)
EXTENDS Integers, Sequences

CONSTANTS
    MATRICES,           \* 4x4 matrices in the register file (8 in the code)
    Registers,          \* the register numbers games name here
    SPrefixes,          \* source prefixes in use, the identity among them
    DPrefixes,          \* destination prefixes in use
    LaneResults,        \* what the arithmetic may give
    LaneCounts,         \* vector lengths in use, of 1 to 4
    CcBits,             \* condition selectors of vcmov in use, of 0 to 7
    MaxRun

ASSUME VfpuAssumption ==
    /\ MATRICES \in Nat \ {0} /\ LaneResults \subseteq Int
    /\ LaneCounts \subseteq 1 .. 4 /\ CcBits \subseteq 0 .. 7
    /\ Registers \subseteq [mtx : 0 .. MATRICES - 1, col : 0 .. 3, low : 0 .. 1, high : 0 .. 1]

VARIABLES
    vr,                  \* the lanes
    ctrl,               \* s, t and d prefixes; cc
    run,                \* instructions run
    prefixed,           \* history: a prefix has come since the last instruction
    did                 \* history: the last instruction, and the lanes before

vfpuVars == <<vr, ctrl, run, prefixed, did>>

Lanes == 0 .. 16 * MATRICES - 1
One   == 12

(* Prefix fields: which lane, absolute value, constant, negation for each  *)
(* of four lanes; saturation and write mask of the destination.            *)
Identity == [lane |-> <<0, 1, 2, 3>>, abs |-> {}, const |-> {}, neg |-> {}]
NoD      == [sat |-> <<0, 0, 0, 0>>, mask |-> {}]
NoPrefix == [s |-> Identity, t |-> Identity, d |-> NoD, cc |-> {}]

VfpuInit ==
    /\ vr = [l \in Lanes |-> ((l % 5) - 2) * 6]
    /\ ctrl = NoPrefix
    /\ run = 0 /\ prefixed = FALSE
    /\ did = [op |-> "none", d |-> <<>>, s |-> <<>>, bare |-> FALSE, v |-> vr]

(***************************************************************************)
(* vreg_idx and mreg_idx.  A register number names a matrix, a column (or, *)
(* transposed, a row) in it and, by its two top bits, where it starts and  *)
(* whether it is transposed: [mtx, col, low, high].                        *)
(***************************************************************************)
Lane(mtx, col, row) == mtx * 16 + (col % 4) * 4 + (row % 4)

StartRow(reg, size) ==
    CASE size = 1 -> 2 * reg.high + reg.low
      [] size = 3 -> reg.high
      [] OTHER    -> 2 * reg.high

Transposed(reg, size) == size # 1 /\ reg.low = 1

VregIdx(reg, size) ==
    [k \in 1 .. size |->
        LET row == StartRow(reg, size) + k - 1
        IN  IF Transposed(reg, size) THEN Lane(reg.mtx, row, reg.col)
                                     ELSE Lane(reg.mtx, reg.col, row)]

RowsOnly(reg, side, j, i) ==         \* variant: never transposed
    Lane(reg.mtx, reg.col + j, StartRow(reg, side) + i)

MregIdx(reg, side, j, i) ==
    IF Transposed(reg, side) THEN Lane(reg.mtx, StartRow(reg, side) + i, reg.col + j)
                             ELSE Lane(reg.mtx, reg.col + j, StartRow(reg, side) + i)

MatrixLanes(reg, side) ==
    {MregIdx(reg, side, j, i) : j \in 0 .. side - 1, i \in 0 .. side - 1}

(***************************************************************************)
(* sr_vread: each lane is another of the register's lanes, a lane beyond   *)
(* its length reading as 0, or a constant.                                 *)
(***************************************************************************)
Constant == <<0, 12, 24, 6, 36, 4, 3, 2>>
Magnitude12(x) == IF x < 0 THEN -x ELSE x

Read(idx, p) ==
    [k \in DOMAIN idx |->
        LET from == p.lane[k] + 1
            raw == IF k \in p.const THEN Constant[from + (IF k \in p.abs THEN 4 ELSE 0)]
                   ELSE IF from > Len(idx) THEN 0
                   ELSE IF k \in p.abs THEN Magnitude12(vr[idx[from]]) ELSE vr[idx[from]]
        IN  IF k \in p.neg THEN -raw ELSE raw]

(* sr_vwrite: saturated, then stored where the mask lets it.               *)
Clamp12(x, lo, hi) == IF x < lo THEN lo ELSE IF x > hi THEN hi ELSE x
Saturated(x, sat) ==
    CASE sat = 1 -> Clamp12(x, 0, One) [] sat = 3 -> Clamp12(x, -One, One) [] OTHER -> x

Write(idx, val) ==
    [l \in Lanes |->
        LET ks == {k \in DOMAIN idx : idx[k] = l /\ k \notin ctrl.d.mask}
        IN  IF ks = {} THEN vr[l]
            ELSE LET k == CHOOSE k \in ks : \A m \in ks : m <= k
                 IN  Saturated(val[k], ctrl.d.sat[k])]

(* eat_prefix.                                                             *)
Eaten == [NoPrefix EXCEPT !.cc = ctrl.cc]

(***************************************************************************)
(* Instructions.                                                           *)
(***************************************************************************)
Runs(op, d, s) ==
    /\ run < MaxRun /\ run' = run + 1
    /\ did' = [op |-> op, d |-> d, s |-> s, bare |-> ~ prefixed, v |-> vr]

Executed(newV, newCtrl) == vr' = newV /\ ctrl' = newCtrl /\ prefixed' = FALSE

(* vpfxs, vpfxt, vpfxd.                                                    *)
SetsPrefix(c) ==
    /\ Runs("prefix", <<>>, <<>>)
    /\ ctrl' = c /\ prefixed' = TRUE /\ UNCHANGED vr

Prefix ==
    \/ \E p \in SPrefixes : SetsPrefix([ctrl EXCEPT !.s = p]) \/ SetsPrefix([ctrl EXCEPT !.t = p])
    \/ \E p \in DPrefixes : SetsPrefix([ctrl EXCEPT !.d = p])

(* vmov, vabs, vneg, vsat0, vsat1.                                         *)
Unary(op, x) ==
    CASE op = "vmov" -> x [] op = "vabs" -> Magnitude12(x) [] op = "vneg" -> -x
      [] op = "vsat0" -> Clamp12(x, 0, One) [] op = "vsat1" -> Clamp12(x, -One, One)

OneSource == \E op \in {"vmov", "vabs", "vneg", "vsat0", "vsat1"}, n \in LaneCounts, vd, vs \in Registers :
    LET a == Read(VregIdx(vs, n), ctrl.s)
    IN  /\ Runs(op, VregIdx(vd, n), VregIdx(vs, n))
        /\ Executed(Write(VregIdx(vd, n), [k \in 1 .. n |-> Unary(op, a[k])]), Eaten)

(* vmin and vmax of numbers.                                               *)
TwoSources == \E op \in {"vmin", "vmax"}, n \in LaneCounts, vd, vs, vt \in Registers :
    LET a == Read(VregIdx(vs, n), ctrl.s)
        b == Read(VregIdx(vt, n), ctrl.t)
    IN  /\ Runs(op, VregIdx(vd, n), VregIdx(vs, n))
        /\ Executed(Write(VregIdx(vd, n),
                          [k \in 1 .. n |-> IF (op = "vmin") = (a[k] < b[k]) THEN a[k] ELSE b[k]]),
                    Eaten)

(* vadd, vsub, vmul, vdiv, vscl, vcrs, vcrsp, vqmul, vocp, vrot and the    *)
(* tabulated functions, over n lanes; vdot and vhdp give one lane.         *)
Arithmetic == \E n \in LaneCounts, vd, vs \in Registers : \E x \in [1 .. n -> LaneResults] :
    /\ Runs("arithmetic", VregIdx(vd, n), VregIdx(vs, n))
    /\ Executed(Write(VregIdx(vd, n), x), Eaten)

(* viim, vfim, vcst, vidt, vzero, vone: no source.                         *)
SetsNumbers == \E n \in LaneCounts, vd \in Registers, x \in {0, One} :
    /\ Runs("set", VregIdx(vd, n), <<>>)
    /\ Executed(Write(VregIdx(vd, n), [k \in 1 .. n |-> x]), Eaten)

(* vcmp: condition bits of the lanes, bit 4 their disjunction and bit 5    *)
(* their conjunction; other bits stay.  (One comparison stands for all.)   *)
CompareKeepsPrefix(cc) ==            \* variant: the prefix is not used up
    [ctrl EXCEPT !.cc = cc]
CompareDone(cc) == [NoPrefix EXCEPT !.cc = cc]

Compare == \E n \in LaneCounts, vs, vt \in Registers :
    LET a == Read(VregIdx(vs, n), ctrl.s)
        b == Read(VregIdx(vt, n), ctrl.t)
        true == {k - 1 : k \in {k \in 1 .. n : a[k] < b[k]}}
        affected == (0 .. n - 1) \cup {4, 5}
        bits == true \cup (IF true # {} THEN {4} ELSE {})
                     \cup (IF true = 0 .. n - 1 THEN {5} ELSE {})
    IN  /\ Runs("vcmp", <<>>, VregIdx(vs, n))
        /\ Executed(vr, CompareDone((ctrl.cc \ affected) \cup bits))

(* vcmov: by one condition bit, or by each lane's.  The destination is     *)
(* read through the T prefix.                                              *)
ConditionalMove == \E n \in LaneCounts, vd, vs \in Registers, tf \in BOOLEAN, imm \in CcBits :
    LET a == Read(VregIdx(vs, n), ctrl.s)
        d == Read(VregIdx(vd, n), ctrl.t)
        moves(k) == IF imm < 6 THEN (imm \in ctrl.cc) # tf
                    ELSE imm = 6 /\ ((k - 1) \in ctrl.cc) # tf
    IN  /\ Runs("vcmov", VregIdx(vd, n), VregIdx(vs, n))
        /\ Executed(Write(VregIdx(vd, n), [k \in 1 .. n |-> IF moves(k) THEN a[k] ELSE d[k]]), Eaten)

(* vmzero and vmone, vmidt, vmmul: prefixes are not applied, only used up. *)
(* Every product is taken before any lane is stored.                       *)
MatrixOps == {"matrix", "vmidt", "vmmul"}

MatrixDone(op, n, vd, val) ==
    /\ Runs(op, VregIdx(vd, n), <<>>)
    /\ Executed([l \in Lanes |-> IF l \in MatrixLanes(vd, n) THEN val[l] ELSE vr[l]], Eaten)

Matrix == \E n \in LaneCounts, vd \in Registers :
    LET to == MatrixLanes(vd, n)
        diagonal == {MregIdx(vd, n, j, j) : j \in 0 .. n - 1}
    IN  \/ \E x \in {0, One} : MatrixDone("matrix", n, vd, [l \in to |-> x])
        \/ MatrixDone("vmidt", n, vd, [l \in to |-> IF l \in diagonal THEN One ELSE 0])
        \/ \E x \in [to -> LaneResults] : MatrixDone("vmmul", n, vd, x)

(* vtfm: one vector of as many lanes as the matrix has, stored past the    *)
(* prefixes too.                                                           *)
Transform == \E n \in LaneCounts \ {1}, vd \in Registers : \E x \in [1 .. n -> LaneResults] :
    /\ Runs("vtfm", VregIdx(vd, n), <<>>)
    /\ Executed([l \in Lanes |-> IF \E k \in 1 .. n : VregIdx(vd, n)[k] = l
                                 THEN x[CHOOSE k \in 1 .. n : VregIdx(vd, n)[k] = l] ELSE vr[l]],
                Eaten)

(* An instruction not handled here leaves everything, its prefix too.      *)
NotHandled == Runs("other", <<>>, <<>>) /\ UNCHANGED <<vr, ctrl, prefixed>>

(* The bound is reached: the registers start afresh.                       *)
StartAgain ==
    /\ run = MaxRun
    /\ vr' = [l \in Lanes |-> ((l % 5) - 2) * 6]
    /\ ctrl' = NoPrefix /\ run' = 0 /\ prefixed' = FALSE
    /\ did' = [op |-> "none", d |-> <<>>, s |-> <<>>, bare |-> FALSE, v |-> vr']

VfpuNext ==
    \/ Prefix \/ OneSource \/ TwoSources \/ Arithmetic \/ SetsNumbers
    \/ Compare \/ ConditionalMove \/ Matrix \/ Transform \/ NotHandled \/ StartAgain

VfpuSpec == VfpuInit /\ [][VfpuNext]_vfpuVars

(* A prefix changes one instruction: a vmov that no vpfx came before since *)
(* the last instruction copies its source's lanes as they are to its       *)
(* destination's, and no instruction whatever changes a lane outside its   *)
(* destination (eat_prefix on every path that executes, the comparison's   *)
(* included, and sr_vread, sr_vwrite).                                     *)
PrefixUsedOnce ==
    /\ (did.op = "vmov" /\ did.bare) => \A k \in DOMAIN did.d : vr[did.d[k]] = did.v[did.s[k]]
    /\ did.op \notin MatrixOps \cup {"none"} =>
          \A l \in Lanes : vr[l] # did.v[l] => \E k \in DOMAIN did.d : did.d[k] = l

(* A matrix instruction and a vector instruction agree on where a column   *)
(* or a row lies: setting a matrix sets every lane of the register of the  *)
(* same number, and a unit matrix has its one in that register's first     *)
(* lane; they are different lanes, and no lane of another matrix changes   *)
(* (vreg_idx, mreg_idx).                                                   *)
MatrixHasItsVectors ==
    did.op \in MatrixOps =>
        /\ did.op = "matrix" =>
              \A k, m \in DOMAIN did.d : vr[did.d[k]] = vr[did.d[m]] /\ vr[did.d[k]] \in {0, One}
        /\ did.op = "vmidt" =>
              \A k \in DOMAIN did.d : vr[did.d[k]] = IF k = 1 THEN One ELSE 0
        /\ \A k, m \in DOMAIN did.d : did.d[k] = did.d[m] => k = m
        /\ \A l \in Lanes : vr[l] # did.v[l] => l \div 16 = did.d[1] \div 16
=============================================================================
