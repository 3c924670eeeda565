------------------------------ MODULE Allegrex ------------------------------
(***************************************************************************)
(* The arithmetic of the reference interpreter (Execute and FpConvertToW   *)
(* in src/ref/interp.cpp), on registers of WIDTH bits: 32 in the code.     *)
(* The differential tests take its results for the PSP's.                  *)
(*                                                                         *)
(* One instruction at a time: its operands are chosen, then its result is  *)
(* kept beside them.  A float is counted in the least of them, POINT5 of   *)
(* which make 0.5; NaN and the infinities are model values.  A sum of      *)
(* floats is rounded to a float, as the code's is.                         *)
(***************************************************************************)
EXTENDS Integers

CONSTANTS WIDTH, Accs,              \* what HI and LO may hold beforehand
          Floats, POINT5, NaN, PlusInf, MinusInf

ASSUME AllegrexAssumption ==
    /\ WIDTH \in Nat /\ WIDTH >= 4 /\ Accs \subseteq Nat /\ Floats \subseteq Int
    /\ POINT5 \in Nat \ {0}
    \* of two neighbouring floats one has an even significand
    /\ \A f, g \in Floats : (f < g /\ \A h \in Floats : h <= f \/ g <= h) =>
          f % (2 * (g - f)) = 0 \/ g % (2 * (g - f)) = 0
    /\ NaN \notin Floats /\ PlusInf \notin Floats /\ MinusInf \notin Floats \cup {NaN, PlusInf}

VARIABLE ex                          \* the last instruction, with its result
exVars == ex

Pow2[n \in 0 .. WIDTH] == IF n = 0 THEN 1 ELSE 2 * Pow2[n - 1]

Span    == Pow2[WIDTH]
Words32 == 0 .. Span - 1
Signed(x) == IF 2 * x < Span THEN x ELSE x - Span
Word(n) == n % Span

(* C divides towards zero.                                                 *)
Floor(a, b) == a \div b              \* variant: towards minus infinity
Quot(a, b) ==
    IF b < 0 THEN (IF a < 0 THEN (-a) \div (-b) ELSE -(a \div (-b)))
             ELSE (IF a < 0 THEN -((-a) \div b) ELSE a \div b)
Rem(a, b) == a - b * Quot(a, b)

(* HI:LO as one 64-bit integer, and back.                                  *)
AccS(e) == Signed(e.hi) * Span + e.lo
AccU(e) == e.hi * Span + e.lo
HiLo(acc) == [hi |-> Word(acc \div Span), lo |-> Word(acc)]

Multiplied(e) ==
    LET s == Signed(e.rs) * Signed(e.rt)
        u == e.rs * e.rt
    IN  HiLo(CASE e.op = "mult"  -> s [] e.op = "multu" -> u
               [] e.op = "madd"  -> AccS(e) + s [] e.op = "maddu" -> AccU(e) + u
               [] e.op = "msub"  -> AccS(e) - s [] e.op = "msubu" -> AccU(e) - u)

(* div and divu, with the answers PPSSPP gives for a zero divisor and for  *)
(* the one quotient that does not fit.                                     *)
Divided(e) ==
    LET a == Signed(e.rs)
        b == Signed(e.rt)
    IN  IF 2 * e.rs = Span /\ b = -1 THEN [lo |-> e.rs, hi |-> Span - 1]
        ELSE IF b # 0 THEN [lo |-> Word(Quot(a, b)), hi |-> Word(Rem(a, b))]
        ELSE [lo |-> IF a < 0 THEN 1 ELSE Span - 1, hi |-> e.rs]

Half == Pow2[WIDTH \div 2]
DividedU(e) ==
    IF e.rt # 0 THEN [lo |-> e.rs \div e.rt, hi |-> e.rs % e.rt]
    ELSE [lo |-> IF e.rs < Half THEN Half - 1 ELSE Span - 1, hi |-> e.rs]

(* sll, srl, sra and their variable forms, which take the low bits of rs.  *)
Shifted(e) ==
    CASE e.op = "sll" -> Word(e.rt * Pow2[e.sa])
      [] e.op = "srl" -> e.rt \div Pow2[e.sa]
      [] e.op = "sra" -> Word(Signed(e.rt) \div Pow2[e.sa])

(* __builtin_clz, of the word or of its complement.                        *)
Clz(v) == CHOOSE n \in 0 .. WIDTH : v < Pow2[WIDTH - n] /\ (n = WIDTH \/ v >= Pow2[WIDTH - n - 1])

(* ext takes `size' bits from `sa'; ins puts the low bits of rs there,     *)
(* between the bits of rt above the field and those below it.              *)
Masked(v, size) == v % Pow2[size]
Ext(e) == Masked(e.rs \div Pow2[e.sa], e.size)

InsKeepsAbove(e) ==                  \* variant: only the bits below are kept
    Masked(e.rt, e.sa) + Masked(e.rs, e.size) * Pow2[e.sa]
Ins(e) ==
    (e.rt \div Pow2[e.sa + e.size]) * Pow2[e.sa + e.size]
        + Masked(e.rs, e.size) * Pow2[e.sa] + Masked(e.rt, e.sa)

Bit(v, i) == (v \div Pow2[i]) % 2
Logical(e) ==
    CHOOSE v \in Words32 : \A i \in 0 .. WIDTH - 1 :
        LET a == Bit(e.rs, i) = 1
            b == Bit(e.rt, i) = 1
        IN  (Bit(v, i) = 1) = CASE e.op = "and" -> a /\ b [] e.op = "or"  -> a \/ b
                                [] e.op = "xor" -> a # b  [] e.op = "nor" -> ~ (a \/ b)

Compared(e) ==
    LET a == Signed(e.rs)
        b == Signed(e.rt)
    IN  CASE e.op = "slt"  -> IF a < b THEN 1 ELSE 0
          [] e.op = "sltu" -> IF e.rs < e.rt THEN 1 ELSE 0
          [] e.op = "max"  -> Word(IF a > b THEN a ELSE b)
          [] e.op = "min"  -> Word(IF a < b THEN a ELSE b)

Plain(e) ==
    CASE e.op = "addu" -> Word(e.rs + e.rt)
      [] e.op = "subu" -> Word(e.rs - e.rt)
      [] e.op = "clz"  -> Clz(e.rs)
      [] e.op = "clo"  -> Clz(Span - 1 - e.rs)
      [] e.op = "se"   -> Word(IF Masked(e.rt, e.size) >= Pow2[e.size - 1]
                               THEN Masked(e.rt, e.size) - Pow2[e.size] ELSE Masked(e.rt, e.size))

(* FpConvertToW.  Casting a float that does not fit gives the least int;   *)
(* trunc.w.s alone turns that into the greatest for a positive one.        *)
Least    == Span \div 2
Greatest == Least - 1
Cast(n)  == IF -Least <= n /\ n <= Greatest THEN Word(n) ELSE Least
Whole      == 2 * POINT5
Down(x)  == x \div Whole
Up(x)    == -((-x) \div Whole)
Nearest(x) ==
    IF x % Whole # POINT5 THEN Down(x + POINT5)
    ELSE IF Down(x) % 2 = 0 THEN Down(x) ELSE Down(x) + 1

(* A sum in single precision: the nearest float, and of two as near the    *)
(* one with the even significand.                                          *)
Magnitude(n) == IF n < 0 THEN -n ELSE n
NearestFloats(n) == {f \in Floats : \A g \in Floats : Magnitude(n - f) <= Magnitude(n - g)}
Single(n) ==
    CHOOSE f \in NearestFloats(n) :
        \A g \in NearestFloats(n) : f = g \/ f % (2 * Magnitude(g - f)) = 0

Converted(how, x) ==
    IF x \in {NaN, PlusInf} THEN Greatest
    ELSE IF x = MinusInf THEN Least
    ELSE CASE how = "round" -> Cast(Down(Single(x + POINT5)))
           [] how = "trunc" -> IF x < 0 THEN Cast(Up(x))
                               ELSE IF Cast(Down(x)) = Least THEN Greatest ELSE Cast(Down(x))
           [] how = "ceil"  -> Cast(Up(x))
           [] how = "floor" -> Cast(Down(x))
           [] how = "cvt"   -> Cast(Nearest(x))

Instruction(op) == [op |-> op, rs |-> 0, rt |-> 0, sa |-> 0, size |-> 1, hi |-> 0, lo |-> 0,
                    x |-> 0, out |-> 0, newHi |-> 0, newLo |-> 0]

ExInit == ex = Instruction("none")

Gives(e, v) == ex' = [e EXCEPT !.out = v]
GivesHiLo(e, r) == ex' = [e EXCEPT !.newHi = r.hi, !.newLo = r.lo]
Idle == ex.op = "none"

Multiply == Idle /\ \E rs, rt \in Words32, hi, lo \in Accs,
        op \in {"mult", "multu", "madd", "maddu", "msub", "msubu"} :
    \E e \in {[Instruction(op) EXCEPT !.rs = rs, !.rt = rt, !.hi = hi, !.lo = lo]} :
        GivesHiLo(e, Multiplied(e))

Divide == Idle /\ \E rs, rt \in Words32, op \in {"div", "divu"} :
    \E e \in {[Instruction(op) EXCEPT !.rs = rs, !.rt = rt]} :
        GivesHiLo(e, IF op = "div" THEN Divided(e) ELSE DividedU(e))

Binary(ops, Value(_)) == Idle /\ \E rs, rt \in Words32, op \in ops :
    \E e \in {[Instruction(op) EXCEPT !.rs = rs, !.rt = rt]} : Gives(e, Value(e))

Shift == Idle /\ \E rt \in Words32, sa \in 0 .. WIDTH - 1, op \in {"sll", "srl", "sra"} :
    \E e \in {[Instruction(op) EXCEPT !.rt = rt, !.sa = sa]} : Gives(e, Shifted(e))

(* seb and seh extend the sign of a quarter and of a half of the register. *)
Extend == Idle /\ \E rt \in Words32, size \in {WIDTH \div 4, WIDTH \div 2} :
    \E e \in {[Instruction("se") EXCEPT !.rt = rt, !.size = size]} : Gives(e, Plain(e))

Field == Idle /\ \E rs, rt \in Words32, sa \in 0 .. WIDTH - 1, op \in {"ext", "ins"} :
    \E size \in 1 .. WIDTH - sa :
        \E e \in {[Instruction(op) EXCEPT !.rs = rs, !.rt = rt, !.sa = sa, !.size = size]} :
            Gives(e, IF op = "ext" THEN Ext(e) ELSE Ins(e))

Convert == Idle /\ \E x \in Floats \cup {NaN, PlusInf, MinusInf},
        op \in {"round", "trunc", "ceil", "floor", "cvt"} :
    \E e \in {[Instruction(op) EXCEPT !.x = x]} : Gives(e, Converted(op, x))

Retire == ~ Idle /\ ex' = Instruction("none")

ExNext ==
    \/ Multiply \/ Divide \/ Shift \/ Extend \/ Field \/ Convert \/ Retire
    \/ Binary({"and", "or", "xor", "nor"}, Logical)
    \/ Binary({"slt", "sltu", "max", "min"}, Compared)
    \/ Binary({"addu", "subu", "clz", "clo"}, Plain)

ExSpec == ExInit /\ [][ExNext]_exVars

(***************************************************************************)
(* The results are what the instructions are defined to give, whatever the *)
(* operands' signs and sizes.                                              *)
(***************************************************************************)
(* HI:LO receives the exact product, and madd and msub lose nothing but    *)
(* what does not fit the two registers.                                    *)
ProductExact ==
    LET product == IF ex.op \in {"mult", "madd", "msub"} THEN Signed(ex.rs) * Signed(ex.rt)
                                                         ELSE ex.rs * ex.rt
        before == ex.hi * Span + ex.lo
        after == ex.newHi * Span + ex.newLo
    IN  /\ ex.op \in {"mult", "multu"} => (after - product) % (Span * Span) = 0
        /\ ex.op \in {"madd", "maddu"} => (after - before - product) % (Span * Span) = 0
        /\ ex.op \in {"msub", "msubu"} => (after - before + product) % (Span * Span) = 0

(* The dividend is the quotient times the divisor plus the remainder, and  *)
(* the remainder is smaller than the divisor and has the dividend's sign;  *)
(* a division by zero leaves the dividend in HI.                           *)
DivisionExact ==
    /\ (ex.op = "div" /\ ~ (2 * ex.rs = Span /\ ex.rt = Span - 1)) =>
          LET a == Signed(ex.rs)
              b == Signed(ex.rt)
              r == Signed(ex.newHi)
          IN  /\ a = Signed(ex.newLo) * b + r
              /\ b # 0 => Magnitude(r) < Magnitude(b) /\ r * a >= 0
    /\ ex.op = "divu" =>
          /\ ex.rs = ex.newLo * ex.rt + ex.newHi
          /\ ex.rt # 0 => ex.newHi < ex.rt

(* A shift right rounds down, an ins is undone by the ext of the same      *)
(* field and changes no other bit, and a sign extension keeps the value.   *)
BitsInPlace ==
    /\ ex.op = "sra" => LET q == Signed(ex.out) * Pow2[ex.sa]
                        IN  q <= Signed(ex.rt) /\ Signed(ex.rt) < q + Pow2[ex.sa]
    /\ ex.op \in {"ext", "ins"} => \A i \in 0 .. WIDTH - 1 :
          LET inside == ex.sa <= i /\ i < ex.sa + ex.size
          IN  IF ex.op = "ins"
              THEN Bit(ex.out, i) = IF inside THEN Bit(ex.rs, i - ex.sa) ELSE Bit(ex.rt, i)
              ELSE Bit(ex.out, i) = IF i < ex.size THEN Bit(ex.rs, i + ex.sa) ELSE 0
    /\ ex.op = "se" => Signed(ex.out) \in -Pow2[ex.size - 1] .. Pow2[ex.size - 1] - 1
                       /\ ex.out % Pow2[ex.size] = ex.rt % Pow2[ex.size]

(* A conversion is within one of the float, on the side its name says, and *)
(* cvt within a half; one that does not fit gives an end of the range, and *)
(* NaN the greatest int.  round is within a half, and up from a half, only *)
(* if the float half above is a float: otherwise the sum was rounded first *)
(* (0.49999997 goes to 1, 8388609 to 8388610), and up to one is lost.      *)
Allowed(op, x) ==
    CASE op = "cvt"   -> -POINT5 .. POINT5
      [] op = "round" -> IF x + POINT5 \in Floats THEN 1 - POINT5 .. POINT5 ELSE 1 - Whole .. Whole
      [] op = "ceil"  -> 0 .. Whole - 1
      [] op = "floor" -> 1 - Whole .. 0
      [] op = "trunc" -> IF x < 0 THEN 0 .. Whole - 1 ELSE 1 - Whole .. 0

ConversionRounds ==
    ex.op \in {"round", "trunc", "ceil", "floor", "cvt"} =>
        IF ex.x \notin Floats THEN ex.out = (IF ex.x = MinusInf THEN Least ELSE Greatest)
        ELSE \/ ex.out \in {Least, Greatest} /\ Magnitude(ex.x) >= Whole * Greatest
             \/ Whole * Signed(ex.out) - ex.x \in Allowed(ex.op, ex.x)

ArithmeticExact == ProductExact /\ DivisionExact /\ BitsInPlace /\ ConversionRounds
=============================================================================
