--------------------------- MODULE GraphicsProofs ---------------------------
(***************************************************************************)
(* What the parts of the graphics pipeline promise holds for every value   *)
(* of their constants.  They share no state in the model: a display list,  *)
(* the texture cache, the fetch of vertices, the assembly of triangles and *)
(* the writing of a pixel, each with an inductive invariant of its own.    *)
(***************************************************************************)
EXTENDS GeList, TexCache, VertexFormat, GeMesh, PixelPipe, SequenceTheorems, FiniteSetTheorems, TLAPS

-----------------------------------------------------------------------------
(* Display lists, for any size of the guest's address space and any words  *)
(* in the lists.                                                           *)

(* What the registers of the list hold, and what the model keeps of their  *)
(* writers.                                                                *)
Places   == [next : Nat, offset : Nat]
Calls    == [pc : Nat, offset : Nat]
Elements == [addr : Nat, width : Nat]
Meant    == [low : 0 .. SEGMENT - 1, high : Nat, next : Nat, colour : Nat]
Lit      == [Lights -> [Parts -> Int]]

(* The inductive invariant of control.  Every return address on the stack, *)
(* and the offset saved with it, are those of the level the list called    *)
(* from; and the list runs at the level it is in.                          *)
ControlInv ==
    /\ addr \in Nat /\ base \in Nat /\ offset \in Nat
    /\ stack \in Seq(Calls) /\ level \in Seq(Places)
    /\ Len(level) = Len(stack) + 1
    /\ \A i \in 1 .. Len(stack) :
           level[i].next = stack[i].pc /\ level[i].offset = stack[i].offset
    /\ level[Len(level)].offset = offset
    /\ level[Len(level)].next % Space = addr % Space

(* The inductive invariant of the registers.  A register made of two       *)
(* commands' parts is what the last of each said; matrices and lights hold *)
(* at each place the part meant for it.                                    *)
RegisterInv ==
    /\ cursor \in Nat /\ meant \in Meant /\ pair \in Elements /\ light \in Lit
    /\ cursor = meant.next
    /\ matrix = [i \in DOMAIN matrix |-> matrix[i]]
    /\ \A i \in DOMAIN matrix : matrix[i] \in {Unset, i}
    /\ pair.addr = meant.high * SEGMENT + meant.low
    /\ \A l \in Lights, i \in Parts : light[l][i] \in {Unset, 3 * l + i}

(* Addresses, which wrap.                                                  *)
LEMMA SpaceIsPositive == Space \in Nat \ {0}
BY GeListAssumption, SMT DEF Space

LEMMA Wraps ==
    ASSUME NEW x \in Nat
    PROVE  /\ x % Space \in Nat
           /\ (x % Space) % Space = x % Space
BY SpaceIsPositive, SMT

LEMMA RelAddrIs ==
    ASSUME NEW w \in Words, base \in Nat, offset \in Nat
    PROVE  RelAddr(w) \in Nat
<1>1. w \in Nat /\ base * SEGMENT \in Nat
  BY GeListAssumption, SMT
<1>2. offset + base * SEGMENT + w \in Nat
  BY <1>1
<1> QED  BY <1>2, Wraps DEF RelAddr

LEMMA AtIs ==
    ASSUME NEW a \in Nat, NEW o \in Nat
    PROVE  At(a, o) \in Places /\ At(a, o).next = a /\ At(a, o).offset = o
BY DEF At, Places

(* A level of the list, and the ones below it.                             *)
Replaced(s, x) == [s EXCEPT ![Len(s)] = x]

LEMMA ReplacedIs ==
    ASSUME NEW s \in Seq(Places), NEW x \in Places, Len(s) > 0
    PROVE  /\ Replaced(s, x) \in Seq(Places) /\ Len(Replaced(s, x)) = Len(s)
           /\ Replaced(s, x)[Len(s)] = x
           /\ \A i \in 1 .. Len(s) : i < Len(s) => Replaced(s, x)[i] = s[i]
BY DEF Replaced

LEMMA FrontIs ==
    ASSUME NEW T, NEW s \in Seq(T), Len(s) > 0
    PROVE  /\ Front(s) \in Seq(T) /\ Len(Front(s)) = Len(s) - 1
           /\ \A i \in 1 .. Len(s) - 1 : Front(s)[i] = s[i]
<1>1. PICK n \in Nat : n = Len(s) - 1
  OBVIOUS
<1>2. 1 \in 1 .. Len(s) + 1 /\ n \in 1 - 1 .. Len(s)
  BY <1>1
<1>3. Front(s) = SubSeq(s, 1, n)
  BY <1>1 DEF Front
<1>4. \A i \in 1 .. n : s[i] \in T
  BY <1>1
<1>5. /\ SubSeq(s, 1, n) \in Seq(T) /\ Len(SubSeq(s, 1, n)) = n
      /\ \A i \in 1 .. n : SubSeq(s, 1, n)[i] = s[i]
  BY <1>1, <1>4
<1> QED  BY <1>1, <1>3, <1>5

(* A command that goes on to address a with offset o, at the same level.   *)
LEMMA GoesOn ==
    ASSUME ControlInv, NEW a \in Nat, NEW o \in Nat, NEW n \in Nat,
           level' = Replaced(level, At(n, o)), n % Space = a % Space,
           addr' = a, offset' = o, stack' = stack, base' \in Nat
    PROVE  ControlInv'
<1>1. /\ At(n, o) \in Places /\ At(n, o).next = n /\ At(n, o).offset = o
  BY AtIs
<1>2. Len(level) > 0 /\ Len(level) \in Nat /\ Len(stack) \in Nat
  BY DEF ControlInv
<1>3. /\ level' \in Seq(Places) /\ Len(level') = Len(level)
      /\ level'[Len(level)] = At(n, o)
      /\ \A i \in 1 .. Len(level) : i < Len(level) => level'[i] = level[i]
  BY <1>1, <1>2, ReplacedIs DEF ControlInv
<1>4. ASSUME NEW i \in 1 .. Len(stack)  PROVE level'[i] = level[i]
  <2>1. i \in 1 .. Len(level) /\ i < Len(level)
    BY <1>2 DEF ControlInv
  <2> QED  BY <1>3, <2>1
<1> QED  BY <1>1, <1>3, <1>4 DEF ControlInv

LEMMA KeepControlKeeps ==
    ASSUME ControlInv, KeepControl
    PROVE  ControlInv'
<1>1. addr + 1 \in Nat /\ offset \in Nat /\ base \in Nat
  BY DEF ControlInv
<1> QED  BY <1>1, GoesOn DEF KeepControl, Onwards, Replaced, ControlInv

(* Calls and returns.                                                      *)
LEMMA CallKeeps ==
    ASSUME ControlInv, NEW w \in Words, Call(w)
    PROVE  ControlInv'
<1>1. CASE Len(stack) < STACK
  <2> DEFINE a == RelAddr(w)
  <2>1. a \in Nat /\ addr + 1 \in Nat /\ offset \in Nat
    BY RelAddrIs DEF ControlInv
  <2>2. /\ At(a, offset) \in Places /\ At(a, offset).next = a /\ At(a, offset).offset = offset
        /\ At(addr + 1, offset) \in Places /\ At(addr + 1, offset).next = addr + 1
        /\ At(addr + 1, offset).offset = offset
    BY <2>1, AtIs
  <2>3. PICK m \in Places : m = At(addr + 1, offset)
    BY <2>2
  <2>4. PICK t \in Places : t = At(a, offset)
    BY <2>2
  <2>5. PICK c \in Calls : c.pc = addr + 1 /\ c.offset = offset /\ stack' = Append(stack, c)
    BY <1>1, <2>1 DEF Call, Calls
  <2>6. PICK on : on = Replaced(level, m) /\ level' = Append(on, t)
    BY <1>1, <2>3, <2>4 DEF Call, Onwards, Replaced
  <2>7. Len(level) > 0 /\ Len(level) = Len(stack) + 1 /\ Len(stack) \in Nat /\ Len(level) \in Nat
    BY DEF ControlInv
  <2>8. /\ on \in Seq(Places) /\ Len(on) = Len(level) /\ on[Len(level)] = m
        /\ \A i \in 1 .. Len(level) : i < Len(level) => on[i] = level[i]
    BY <2>6, <2>7, ReplacedIs DEF ControlInv
  <2>9. /\ level' \in Seq(Places) /\ Len(level') = Len(level) + 1
        /\ level'[Len(level) + 1] = t
        /\ \A i \in 1 .. Len(level) : level'[i] = on[i]
    BY <2>6, <2>8
  <2>10. /\ stack' \in Seq(Calls) /\ Len(stack') = Len(stack) + 1
         /\ stack'[Len(stack) + 1] = c
         /\ \A i \in 1 .. Len(stack) : stack'[i] = stack[i]
    BY <2>5 DEF ControlInv
  <2>11. ASSUME NEW i \in 1 .. Len(stack')
         PROVE level'[i].next = stack'[i].pc /\ level'[i].offset = stack'[i].offset
    <3>1. CASE i = Len(stack) + 1
      BY <3>1, <2>9, <2>8, <2>10, <2>7, <2>5, <2>3, <2>2
    <3>2. CASE i # Len(stack) + 1
      <4>1. i \in 1 .. Len(stack) /\ i \in 1 .. Len(level) /\ i < Len(level)
        BY <3>2, <2>10, <2>7
      <4>2. level'[i] = level[i] /\ stack'[i] = stack[i]
        BY <4>1, <2>8, <2>9, <2>10
      <4> QED  BY <4>1, <4>2 DEF ControlInv
    <3> QED  BY <3>1, <3>2
  <2>12. /\ addr' = a /\ offset' = offset /\ base' = base /\ base \in Nat
    BY <1>1 DEF Call, ControlInv
  <2> QED  BY <2>1, <2>2, <2>4, <2>7, <2>9, <2>10, <2>11, <2>12 DEF ControlInv
<1>2. CASE ~ (Len(stack) < STACK)
  BY <1>2, KeepControlKeeps DEF Call
<1> QED  BY <1>1, <1>2

LEMMA RetKeeps ==
    ASSUME ControlInv, Ret
    PROVE  ControlInv'
<1>1. CASE stack # <<>>
  <2>1. Len(stack) \in Nat \ {0} /\ Len(level) = Len(stack) + 1 /\ Len(level) \in Nat
    BY <1>1 DEF ControlInv
  <2>2. PICK n \in Nat : n = Len(stack)
    BY <2>1
  <2>3. /\ Front(stack) \in Seq(Calls) /\ Len(Front(stack)) = n - 1
        /\ \A i \in 1 .. n - 1 : Front(stack)[i] = stack[i]
        /\ Front(level) \in Seq(Places) /\ Len(Front(level)) = n
        /\ \A i \in 1 .. n : Front(level)[i] = level[i]
    <3>1. Len(stack) > 0 /\ Len(level) > 0 /\ stack \in Seq(Calls) /\ level \in Seq(Places)
      BY <2>1 DEF ControlInv
    <3>2. Len(level) - 1 = n
      BY <2>1, <2>2
    <3> QED  BY <3>1, <3>2, <2>2, FrontIs
  <2>4. /\ stack' = Front(stack) /\ level' = Front(level) /\ base' = base
        /\ addr' = stack[n].pc % Space /\ offset' = stack[n].offset
    BY <1>1, <2>2 DEF Ret, Resumed, Last
  <2>5. stack[n] \in Calls /\ n \in 1 .. Len(stack)
    BY <2>1, <2>2 DEF ControlInv
  <2>6. stack[n].pc \in Nat /\ stack[n].offset \in Nat
    BY <2>5 DEF Calls
  <2>7. level[n].next = stack[n].pc /\ level[n].offset = stack[n].offset
    BY <2>5 DEF ControlInv
  <2>8. addr' \in Nat /\ level[n].next % Space = addr' % Space
    BY <2>4, <2>6, <2>7, Wraps
  <2>9. n \in 1 .. n /\ base \in Nat
    BY <2>1, <2>2 DEF ControlInv
  <2>10. /\ level' \in Seq(Places) /\ stack' \in Seq(Calls)
         /\ Len(level') = n /\ Len(stack') = n - 1 /\ level'[n] = level[n]
    BY <2>3, <2>4, <2>9
  <2>11. ASSUME NEW i \in 1 .. n - 1
         PROVE  level'[i].next = stack'[i].pc /\ level'[i].offset = stack'[i].offset
    <3>1. i \in 1 .. Len(stack) /\ i \in 1 .. n
      BY <2>2
    <3> QED  BY <3>1, <2>3, <2>4 DEF ControlInv
  <2> QED  BY <2>2, <2>4, <2>6, <2>7, <2>8, <2>9, <2>10, <2>11 DEF ControlInv
<1>2. CASE stack = <<>>
  BY <1>2, KeepControlKeeps DEF Ret
<1> QED  BY <1>1, <1>2

LEMMA ControlKeeps ==
    ASSUME ControlInv, Control
    PROVE  ControlInv'
<1>0. addr + 1 \in Nat /\ addr \in Nat /\ offset \in Nat /\ base \in Nat
  BY DEF ControlInv
<1>1. ASSUME NEW b \in 0 .. Segments - 1, SetBase(b) PROVE ControlInv'
  <2>1. base' \in Nat /\ addr' = addr + 1 /\ offset' = offset /\ stack' = stack
    BY <1>1, GeListAssumption DEF SetBase
  <2>2. level' = Replaced(level, At(addr + 1, offset))
    BY <1>1 DEF SetBase, Onwards, Replaced
  <2> QED  BY <1>0, <2>1, <2>2, GoesOn
<1>2. ASSUME NEW o \in Nat, SetOffset(o) PROVE ControlInv'
  BY <1>0, <1>2, GoesOn DEF SetOffset, Replaced
<1>3. ASSUME NEW w \in Words, Jump(w) PROVE ControlInv'
  <2>1. RelAddr(w) \in Nat
    BY <1>0, RelAddrIs
  <2> QED  BY <1>0, <1>3, <2>1, GoesOn DEF Jump, Replaced
<1>4. ASSUME End \/ (\E on \in BOOLEAN : Signal(on)) PROVE ControlInv'
  BY <1>0, <1>4, GoesOn DEF End, Signal, Onwards, Replaced
<1>5. Words \subseteq Nat
  BY GeListAssumption
<1> QED  BY <1>0, <1>1, <1>2, <1>3, <1>4, <1>5, CallKeeps, RetKeeps, KeepControlKeeps DEF Control, Other

LEMMA EnqueueKeepsControl ==
    ASSUME ControlInv, NEW k \in Kinds, NEW at \in Starts, Enqueue(k, at)
    PROVE  ControlInv'
<1>1. at \in Nat /\ offset \in Nat /\ base \in Nat
  BY GeListAssumption DEF ControlInv
<1>2. PICK p \in Places : p = At(at, offset) /\ p.next = at /\ p.offset = offset
  BY <1>1, AtIs
<1>3. /\ level' = <<p>> /\ stack' = <<>> /\ addr' = at /\ offset' = offset /\ base' = base
  BY <1>2 DEF Enqueue
<1>4. /\ level' \in Seq(Places) /\ Len(level') = 1 /\ level'[1] = p
      /\ stack' \in Seq(Calls) /\ Len(stack') = 0
  BY <1>3
<1> QED  BY <1>1, <1>2, <1>3, <1>4 DEF ControlInv

-----------------------------------------------------------------------------

(* Commands that write no register of these, and the two parts of an       *)
(* address.                                                                *)
KeptRegisters == UNCHANGED <<cursor, matrix, pair, light, meant>>

LEMMA SameRegisters ==
    ASSUME RegisterInv, KeptRegisters
    PROVE  RegisterInv'
BY DEF RegisterInv, KeptRegisters

LEMMA Divides ==
    ASSUME NEW h \in Nat, NEW l \in 0 .. SEGMENT - 1
    PROVE  /\ (h * SEGMENT + l) \div SEGMENT = h /\ (h * SEGMENT + l) % SEGMENT = l
           /\ h * SEGMENT \in Nat /\ h * SEGMENT + l \in Nat
<1>1. SEGMENT \in Nat \ {0} /\ l \in Nat
  BY GeListAssumption
<1> QED  BY <1>1, SMT

AddressOf(a, w) == [addr |-> a, width |-> w]

LEMMA AddressOfIs ==
    ASSUME NEW a \in Nat, NEW w \in Nat
    PROVE  AddressOf(a, w) \in Elements /\ AddressOf(a, w).addr = a
BY DEF AddressOf, Elements

(* What is meant, after each command that says more of it.                 *)
LEMMA MeantLow ==
    ASSUME meant \in Meant, NEW w \in 0 .. SEGMENT - 1, meant' = [meant EXCEPT !.low = w]
    PROVE  /\ meant' \in Meant /\ meant'.low = w
           /\ meant'.high = meant.high /\ meant'.next = meant.next
BY DEF Meant

LEMMA MeantHigh ==
    ASSUME meant \in Meant, NEW s \in Nat, meant' = [meant EXCEPT !.high = s]
    PROVE  /\ meant' \in Meant /\ meant'.high = s
           /\ meant'.low = meant.low /\ meant'.next = meant.next
BY DEF Meant

LEMMA MeantNext ==
    ASSUME meant \in Meant, NEW n \in Nat, meant' = [meant EXCEPT !.next = n]
    PROVE  /\ meant' \in Meant /\ meant'.next = n
           /\ meant'.low = meant.low /\ meant'.high = meant.high
BY DEF Meant

LEMMA MeantColour ==
    ASSUME meant \in Meant, NEW w \in Nat, meant' = [meant EXCEPT !.colour = w]
    PROVE  /\ meant' \in Meant /\ meant'.next = meant.next
           /\ meant'.low = meant.low /\ meant'.high = meant.high
BY DEF Meant

LEMMA AddressLowKeeps ==
    ASSUME RegisterInv, NEW p \in Pairs, NEW w \in Words, AddressLow(p, w)
    PROVE  RegisterInv'
<1>1. w \in 0 .. SEGMENT - 1 /\ w \in Nat
  BY GeListAssumption
<1>2. /\ pair \in Elements /\ pair.addr = meant.high * SEGMENT + meant.low
      /\ meant.high \in Nat /\ meant.low \in 0 .. SEGMENT - 1
  BY DEF RegisterInv, Meant
<1>3. pair.addr \div SEGMENT = meant.high
  BY <1>2, Divides
<1>4. Low(w) = meant.high * SEGMENT + w /\ Low(w) \in Nat
  BY <1>1, <1>2, <1>3, Divides DEF Low
<1>5. pair' = [pair EXCEPT !.addr = Low(w)]
  BY DEF AddressLow
<1>6. pair' \in Elements /\ pair'.addr = Low(w)
  BY <1>2, <1>4, <1>5 DEF Elements
<1>7. /\ meant' \in Meant /\ meant'.low = w
      /\ meant'.high = meant.high /\ meant'.next = meant.next
  BY <1>1, MeantLow DEF AddressLow, RegisterInv
<1>8. cursor' = cursor /\ matrix' = matrix /\ light' = light
  BY DEF AddressLow
<1> QED  BY <1>4, <1>6, <1>7, <1>8 DEF RegisterInv

LEMMA AddressHighKeeps ==
    ASSUME RegisterInv, NEW p \in Pairs, NEW w \in Words, NEW s \in 0 .. Segments - 1,
           AddressHigh(p, s, w)
    PROVE  RegisterInv'
<1>1. w \in Nat /\ s \in Nat
  BY GeListAssumption
<1>2. /\ pair.addr = meant.high * SEGMENT + meant.low
      /\ meant.high \in Nat /\ meant.low \in 0 .. SEGMENT - 1
  BY DEF RegisterInv, Meant
<1>3. High(s) = s * SEGMENT + meant.low /\ High(s) \in Nat
  BY <1>1, <1>2, Divides DEF High
<1>4. PICK x \in Nat : x = IF p = "clut" THEN 0 ELSE w
  BY <1>1
<1>5. pair' = AddressOf(High(s), x)
  BY <1>4 DEF AddressHigh, AddressOf
<1>6. pair' \in Elements /\ pair'.addr = High(s)
  BY <1>3, <1>5, AddressOfIs
<1>7. /\ meant' \in Meant /\ meant'.high = s
      /\ meant'.low = meant.low /\ meant'.next = meant.next
  BY <1>1, MeantHigh DEF AddressHigh, RegisterInv
<1>8. cursor' = cursor /\ matrix' = matrix /\ light' = light
  BY DEF AddressHigh
<1> QED  BY <1>3, <1>6, <1>7, <1>8 DEF RegisterInv

LEMMA MatrixKeeps ==
    ASSUME RegisterInv, NEW m \in Matrices,
           MatrixData(m) \/ \E n \in 0 .. NumberMask[m] : MatrixNumber(m, n)
    PROVE  RegisterInv'
<1>0. NumberMask[m] \in Nat /\ cursor \in Nat /\ cursor = meant.next
  BY GeListAssumption DEF Matrices, RegisterInv
<1>1. ASSUME NEW n \in Nat, meant' = [meant EXCEPT !.next = n], cursor' = n,
             pair' = pair, light' = light,
             matrix' = matrix \/ matrix' = [matrix EXCEPT ![cursor] = cursor]
      PROVE  RegisterInv'
  <2>1. /\ meant' \in Meant /\ meant'.next = n
        /\ meant'.low = meant.low /\ meant'.high = meant.high
    BY <1>1, MeantNext DEF RegisterInv
  <2>2. /\ matrix' = [i \in DOMAIN matrix' |-> matrix'[i]]
        /\ \A i \in DOMAIN matrix' : matrix'[i] \in {Unset, i}
    <3>1. CASE matrix' = matrix
      BY <3>1 DEF RegisterInv
    <3>2. CASE matrix' = [matrix EXCEPT ![cursor] = cursor]
      <4>1. /\ DOMAIN matrix' = DOMAIN matrix
            /\ \A i \in DOMAIN matrix : matrix'[i] = IF i = cursor THEN cursor ELSE matrix[i]
        BY <3>2 DEF RegisterInv
      <4>2. matrix' = [i \in DOMAIN matrix' |-> matrix'[i]]
        BY <3>2 DEF RegisterInv
      <4> QED  BY <4>1, <4>2 DEF RegisterInv
    <3> QED  BY <1>1, <3>1, <3>2
  <2> QED  BY <1>1, <2>1, <2>2 DEF RegisterInv
<1>2. ASSUME NEW n \in 0 .. NumberMask[m], MatrixNumber(m, n) PROVE RegisterInv'
  <2>1. n \in Nat
    BY <1>0
  <2> QED  BY <1>1, <1>2, <2>1 DEF MatrixNumber
<1>3. ASSUME MatrixData(m) PROVE RegisterInv'
  <2>1. cursor + 1 \in Nat /\ meant.next + 1 = cursor + 1
    BY <1>0
  <2>2. meant' = [meant EXCEPT !.next = cursor + 1] /\ cursor' = cursor + 1
    BY <1>3, <2>1 DEF MatrixData, Moved
  <2>3. matrix' = matrix \/ matrix' = [matrix EXCEPT ![cursor] = cursor]
    BY <1>0, <1>3 DEF MatrixData
  <2>4. pair' = pair /\ light' = light
    BY <1>3 DEF MatrixData
  <2> QED  BY <1>1, <2>1, <2>2, <2>3, <2>4
<1> QED  BY <1>2, <1>3

LEMMA LightKeeps ==
    ASSUME RegisterInv, NEW v \in Vectors, NEW l \in Lights, NEW i \in Parts,
           LightWord(v, 3 * l + i)
    PROVE  RegisterInv'
<1>1. l \in Nat /\ i \in 0 .. 2
  BY GeListAssumption DEF Parts
<1>2. LightOf(3 * l + i) = l /\ PartOf(3 * l + i) = i /\ 3 * l + i \in Int
  BY <1>1 DEF LightOf, PartOf
<1>3. PICK k \in Int : k = 3 * l + i
  BY <1>2
<1>4. light' = [light EXCEPT ![l][i] = k]
  BY <1>2, <1>3 DEF LightWord
<1>5. light \in Lit
  BY DEF RegisterInv
<1>6. /\ light' \in Lit
      /\ \A a \in Lights, b \in Parts :
             light'[a][b] = IF a = l /\ b = i THEN k ELSE light[a][b]
  BY <1>4, <1>5 DEF Lit
<1>7. \A a \in Lights, b \in Parts : light'[a][b] \in {Unset, 3 * a + b}
  BY <1>3, <1>6 DEF RegisterInv
<1>8. cursor' = cursor /\ matrix' = matrix /\ pair' = pair /\ meant' = meant
  BY DEF LightWord
<1> QED  BY <1>6, <1>7, <1>8 DEF RegisterInv

LEMMA ColourKeeps ==
    ASSUME RegisterInv, NEW w \in Words, MaterialColour(w)
    PROVE  RegisterInv'
<1>1. w \in Nat
  BY GeListAssumption
<1>2. /\ meant' \in Meant /\ meant'.next = meant.next
      /\ meant'.low = meant.low /\ meant'.high = meant.high
  BY <1>1, MeantColour DEF MaterialColour, RegisterInv
<1>3. cursor' = cursor /\ matrix' = matrix /\ pair' = pair /\ light' = light
  BY DEF MaterialColour
<1> QED  BY <1>2, <1>3 DEF RegisterInv

LEMMA EnqueueKeepsRegisters ==
    ASSUME RegisterInv, NEW k \in Kinds, NEW at \in Starts, Enqueue(k, at)
    PROVE  RegisterInv'
<1>1. cursor' = cursor /\ pair' = pair /\ light' = light /\ meant' = meant
  BY DEF Enqueue
<1>2. matrix' = matrix \/ matrix' = [i \in 0 .. MatrixSize[k] - 1 |-> Unset]
  BY DEF Enqueue
<1>3. /\ matrix' = [i \in DOMAIN matrix' |-> matrix'[i]]
      /\ \A i \in DOMAIN matrix' : matrix'[i] \in {Unset, i}
  <2>1. CASE matrix' = matrix
    BY <2>1 DEF RegisterInv
  <2>2. CASE matrix' = [i \in 0 .. MatrixSize[k] - 1 |-> Unset]
    BY <2>2
  <2> QED  BY <1>2, <2>1, <2>2
<1> QED  BY <1>1, <1>3 DEF RegisterInv

-----------------------------------------------------------------------------

(* Both.                                                                   *)
ListInv == ControlInv /\ RegisterInv

LEMMA ListStarts == ListInit => ListInv
<1> SUFFICES ASSUME ListInit PROVE ListInv
  OBVIOUS
<1>0. 0 \in Nat /\ 0 \in 0 .. SEGMENT - 1
  BY GeListAssumption
<1>1. PICK p \in Places : p = At(0, 0) /\ p.next = 0 /\ p.offset = 0
  BY AtIs
<1>2. level = <<p>> /\ stack = <<>> /\ addr = 0 /\ offset = 0 /\ base = 0
  BY <1>1 DEF ListInit
<1>3. level \in Seq(Places) /\ Len(level) = 1 /\ level[1] = p /\ stack \in Seq(Calls) /\ Len(stack) = 0
  BY <1>2
<1>4. ControlInv
  BY <1>1, <1>2, <1>3 DEF ControlInv
<1>5. /\ meant \in Meant /\ meant.next = 0 /\ meant.low = 0 /\ meant.high = 0
  BY <1>0 DEF ListInit, Meant
<1>6. /\ light \in Lit /\ \A l \in Lights, i \in Parts : light[l][i] = Unset
  BY DEF ListInit, Lit, Unset
<1>7. pair \in Elements /\ pair.addr = 0 /\ cursor = 0
  BY DEF ListInit, Elements
<1>8. matrix = [i \in DOMAIN matrix |-> matrix[i]] /\ DOMAIN matrix = {}
  BY DEF ListInit
<1>9. 0 * SEGMENT + 0 = 0
  BY GeListAssumption
<1>10. RegisterInv
  BY <1>0, <1>5, <1>6, <1>7, <1>8, <1>9 DEF RegisterInv
<1> QED  BY <1>4, <1>10 DEF ListInv

LEMMA ListStep == ListInv /\ [ListNext]_listVars => ListInv'
<1> SUFFICES ASSUME ListInv, [ListNext]_listVars PROVE ListInv'
  OBVIOUS
<1>0. ControlInv /\ RegisterInv
  BY DEF ListInv
<1>1. ASSUME NEW k \in Kinds, NEW at \in Starts, Enqueue(k, at) PROVE ListInv'
  BY <1>0, <1>1, EnqueueKeepsControl, EnqueueKeepsRegisters DEF ListInv
<1>2. ASSUME Control PROVE ListInv'
  BY <1>0, <1>2, ControlKeeps, SameRegisters DEF ListInv, Control, KeepRegisters, KeptRegisters
<1>3. ASSUME GiveUp PROVE ListInv'
  BY <1>0, <1>3, SameRegisters DEF ListInv, GiveUp, KeepRegisters, KeptRegisters, ControlInv
<1>4. ASSUME KeepControl, RegisterInv' PROVE ListInv'
  BY <1>0, <1>4, KeepControlKeeps DEF ListInv
<1>5. ASSUME NEW m \in Matrices,
             MatrixData(m) \/ \E n \in 0 .. NumberMask[m] : MatrixNumber(m, n)
      PROVE  ListInv'
  <2>1. KeepControl
    BY <1>5 DEF MatrixData, MatrixNumber
  <2> QED  BY <1>0, <1>4, <1>5, <2>1, MatrixKeeps
<1>6. ASSUME NEW p \in Pairs, NEW w \in Words,
             AddressLow(p, w) \/ \E s \in 0 .. Segments - 1 : AddressHigh(p, s, w)
      PROVE  ListInv'
  <2>1. KeepControl
    BY <1>6 DEF AddressLow, AddressHigh
  <2> QED  BY <1>0, <1>4, <1>6, <2>1, AddressLowKeeps, AddressHighKeeps
<1>7. ASSUME NEW v \in Vectors, NEW l \in Lights, NEW i \in Parts, LightWord(v, 3 * l + i)
      PROVE  ListInv'
  <2>1. KeepControl
    BY <1>7 DEF LightWord
  <2> QED  BY <1>0, <1>4, <1>7, <2>1, LightKeeps
<1>8. ASSUME NEW w \in Words, MaterialColour(w) PROVE ListInv'
  <2>1. KeepControl
    BY <1>8 DEF MaterialColour
  <2> QED  BY <1>0, <1>4, <1>8, <2>1, ColourKeeps
<1>9. ASSUME UNCHANGED listVars PROVE ListInv'
  BY <1>0, <1>9 DEF listVars, ListInv, ControlInv, RegisterInv
<1> QED  BY <1>1, <1>2, <1>3, <1>5, <1>6, <1>7, <1>8, <1>9 DEF ListNext

(* However lists call, return, jump, stall and are enqueued, each returns  *)
(* to where it was called from, with its own offset; and addresses,        *)
(* matrices and lights are put together from the parts the list meant for  *)
(* them.                                                                   *)
THEOREM ListsRunInPlace == ListSpec => []ListRunsInPlace
<1>1. ListInv => ListRunsInPlace
  BY DEF ListInv, ControlInv, RegisterInv, ListRunsInPlace, LevelsApart, WordsInPlace, Last
<1> QED  BY <1>1, ListStarts, ListStep, PTL DEF ListSpec

-----------------------------------------------------------------------------
(* The texture cache, for any number of textures, images, draws a batch    *)
(* holds and hooks.                                                        *)

(* Textures and their images, the draws of a batch, and the state a hook   *)
(* copies from.                                                            *)
Slots     == Images \cup {White}
Textures  == [key : Keys, holds : Contents, pending : BOOLEAN, image : Images]
Shots     == [image : Slots, holds : SUBSET Contents]
Templates == [for : SUBSET Keys, image : Slots, holds : SUBSET Contents]
States    == [cache : Seq(Textures), batch : Seq(Shots), template : Templates]

(* Some texture of the cache has this image; no two have the same.         *)
Present(c, m) == m = White \/ \E i \in 1 .. Len(c) : c[i].image = m
Distinct(c) == \A i, j \in 1 .. Len(c) : c[i].image = c[j].image => i = j

(* Every draw of the batch, and the copy of the state for the next, names  *)
(* an image that a texture of the cache has, or the white one.             *)
Drawable(g) ==
    /\ g \in States
    /\ Len(g.cache) <= MAX_TEX /\ Distinct(g.cache)
    /\ \A n \in 1 .. Len(g.batch) : Present(g.cache, g.batch[n].image)
    /\ Present(g.cache, g.template.image)

LEMMA StateFields ==
    ASSUME NEW g \in States
    PROVE  /\ g.cache \in Seq(Textures) /\ g.batch \in Seq(Shots) /\ g.template \in Templates
           /\ Len(g.cache) \in Nat /\ Len(g.batch) \in Nat
           /\ \A i \in 1 .. Len(g.cache) : g.cache[i] \in Textures
           /\ \A i \in 1 .. Len(g.batch) : g.batch[i] \in Shots
<1>1. g.cache \in Seq(Textures) /\ g.batch \in Seq(Shots) /\ g.template \in Templates
  BY DEF States
<1> QED  BY <1>1, ElementOfSeq, LenProperties

LEMMA NoStateIs == NoState \in Templates /\ NoState.image = White
BY DEF NoState, Templates, Slots

(* The images are the same, in whatever order.                             *)
LEMMA SameImages ==
    ASSUME NEW g, Drawable(g), NEW h \in States, Len(h.cache) = Len(g.cache), Distinct(h.cache),
           \A m \in Slots : Present(g.cache, m) => Present(h.cache, m),
           h.batch = g.batch, h.template = g.template
    PROVE  Drawable(h)
<1>1. g \in States
  BY DEF Drawable
<1>2. \A n \in 1 .. Len(g.batch) : g.batch[n].image \in Slots
  BY <1>1, StateFields DEF Shots
<1>3. g.template.image \in Slots
  BY <1>1, StateFields DEF Templates
<1> QED  BY <1>2, <1>3 DEF Drawable

(* Submitting a batch.                                                     *)
Idle(e) == [e EXCEPT !.pending = FALSE]

LEMMA IdleIs ==
    ASSUME NEW e \in Textures
    PROVE  Idle(e) \in Textures /\ Idle(e).image = e.image
BY DEF Idle, Textures

LEMMA SubmittedFields ==
    ASSUME NEW g \in States
    PROVE  /\ Submitted(g) \in States /\ Submitted(g).batch = <<>> /\ Submitted(g).template = NoState
           /\ Len(Submitted(g).cache) = Len(g.cache)
           /\ \A i \in 1 .. Len(g.cache) : Submitted(g).cache[i].image = g.cache[i].image
<1> DEFINE c == [i \in DOMAIN g.cache |-> Idle(g.cache[i])]
<1>1. /\ Submitted(g).cache = c /\ Submitted(g).batch = <<>> /\ Submitted(g).template = NoState
  BY DEF Submitted, Idle
<1>2. DOMAIN g.cache = 1 .. Len(g.cache) /\ Len(g.cache) \in Nat
  BY StateFields
<1>3. /\ c \in Seq(Textures) /\ Len(c) = Len(g.cache)
      /\ \A i \in 1 .. Len(g.cache) : c[i] = Idle(g.cache[i])
  <2>1. \A i \in 1 .. Len(g.cache) : Idle(g.cache[i]) \in Textures
    BY StateFields, IdleIs
  <2>2. c = [i \in 1 .. Len(g.cache) |-> Idle(g.cache[i])]
    BY <1>2
  <2> HIDE DEF c
  <2> QED  BY <1>2, <2>1, <2>2
<1>4. <<>> \in Seq(Shots)
  OBVIOUS
<1> HIDE DEF c
<1>5. Submitted(g) = [cache |-> c, batch |-> <<>>, template |-> NoState]
  BY DEF Submitted, Idle, c
<1>6. Submitted(g) \in States
  BY <1>3, <1>4, <1>5, NoStateIs DEF States
<1>7. \A i \in 1 .. Len(g.cache) : c[i].image = g.cache[i].image
  BY <1>3, StateFields, IdleIs
<1> QED  BY <1>1, <1>3, <1>6, <1>7

LEMMA SubmittedDrawable ==
    ASSUME NEW g, Drawable(g)
    PROVE  /\ Drawable(Submitted(g)) /\ Len(Submitted(g).cache) = Len(g.cache)
           /\ Submitted(g).batch = <<>> /\ Submitted(g).template = NoState
           /\ \A i \in 1 .. Len(g.cache) : Submitted(g).cache[i].image = g.cache[i].image
<1>1. g \in States /\ Len(g.cache) \in Nat
  BY StateFields DEF Drawable
<1>2. PICK h : h = Submitted(g)
  OBVIOUS
<1>3. /\ h \in States /\ h.batch = <<>> /\ h.template = NoState
      /\ Len(h.cache) = Len(g.cache)
      /\ \A i \in 1 .. Len(g.cache) : h.cache[i].image = g.cache[i].image
  BY <1>1, <1>2, SubmittedFields
<1>4. Distinct(h.cache)
  BY <1>3 DEF Drawable, Distinct
<1>5. Len(h.batch) = 0 /\ Present(h.cache, h.template.image)
  BY <1>3, NoStateIs DEF Present
<1>6. Drawable(h)
  BY <1>3, <1>4, <1>5 DEF Drawable
<1> QED  BY <1>2, <1>3, <1>6

(* Where the entry at j was before the one at i was moved to the end.      *)
Before(i, n, j) == IF j < i THEN j ELSE IF j < n THEN j + 1 ELSE i

LEMMA RemovedIs ==
    ASSUME NEW T, NEW c \in Seq(T), NEW i \in 1 .. Len(c)
    PROVE  LET d == Append(RemoveAt(c, i), c[i])
           IN  /\ d \in Seq(T) /\ Len(d) = Len(c)
               /\ \A j \in 1 .. Len(c) : d[j] = c[Before(i, Len(c), j)]
<1>1. PICK n \in Nat : n = Len(c) /\ i \in 1 .. n
  OBVIOUS
<1>2. \A j \in 1 .. n : c[j] \in T
  BY <1>1
<1>3. PICK a : a = SubSeq(c, 1, i - 1)
  OBVIOUS
<1>4. PICK b : b = SubSeq(c, i + 1, n)
  OBVIOUS
<1>5. /\ a \in Seq(T) /\ Len(a) = i - 1 /\ \A j \in 1 .. i - 1 : a[j] = c[j]
  <2>1. 1 \in Int /\ i - 1 \in Int /\ \A j \in 1 .. i - 1 : c[j] \in T
    BY <1>1, <1>2
  <2> QED  BY <1>1, <1>3, <2>1, SubSeqProperties
<1>6. /\ b \in Seq(T) /\ Len(b) = n - i /\ \A j \in 1 .. n - i : b[j] = c[i + j]
  <2>1. i + 1 \in Int /\ n \in Int /\ \A j \in i + 1 .. n : c[j] \in T
    BY <1>1, <1>2
  <2>2. /\ b \in Seq(T) /\ Len(b) = IF i + 1 <= n THEN n - (i + 1) + 1 ELSE 0
        /\ \A j \in 1 .. n - (i + 1) + 1 : b[j] = c[i + 1 + j - 1]
    BY <1>4, <2>1, SubSeqProperties
  <2>3. n - (i + 1) + 1 = n - i /\ \A j \in Int : i + 1 + j - 1 = i + j
    BY <1>1
  <2> QED  BY <1>1, <2>2, <2>3
<1>7. PICK r : r = a \o b /\ r = RemoveAt(c, i)
  BY <1>1, <1>3, <1>4 DEF RemoveAt
<1>8. /\ r \in Seq(T) /\ Len(r) = n - 1
      /\ \A j \in 1 .. n - 1 : r[j] = IF j < i THEN c[j] ELSE c[j + 1]
  <2>0. /\ r \in Seq(T) /\ Len(r) = Len(a) + Len(b)
        /\ \A j \in 1 .. Len(a) + Len(b) :
               r[j] = IF j <= Len(a) THEN a[j] ELSE b[j - Len(a)]
    <3>1. a \in Seq(T) /\ b \in Seq(T) /\ r = a \o b
      BY <1>5, <1>6, <1>7
    <3>2. /\ a \o b \in Seq(T) /\ Len(a \o b) = Len(a) + Len(b)
          /\ \A j \in 1 .. Len(a) + Len(b) :
                 (a \o b)[j] = IF j <= Len(a) THEN a[j] ELSE b[j - Len(a)]
      BY <3>1, ConcatProperties, Zenon
    <3> QED  BY <3>1, <3>2, Zenon
  <2>1. /\ r \in Seq(T) /\ Len(r) = n - 1
        /\ \A j \in 1 .. n - 1 : r[j] = IF j <= i - 1 THEN a[j] ELSE b[j - (i - 1)]
    <3>1. Len(a) + Len(b) = n - 1
      BY <1>1, <1>5, <1>6
    <3> QED  BY <1>5, <2>0, <3>1
  <2>2. ASSUME NEW j \in 1 .. n - 1 PROVE r[j] = IF j < i THEN c[j] ELSE c[j + 1]
    <3>1. CASE j < i
      <4>1. j \in 1 .. i - 1
        BY <1>1, <3>1
      <4>2. j <= i - 1
        BY <1>1, <3>1
      <4> QED  BY <1>5, <2>1, <3>1, <4>1, <4>2
    <3>2. CASE ~ (j < i)
      <4>1. j - (i - 1) \in 1 .. n - i /\ i + (j - (i - 1)) = j + 1
        BY <1>1, <3>2
      <4>2. r[j] = b[j - (i - 1)]
        <5>1. ~ (j <= i - 1)
          BY <1>1, <3>2
        <5> QED  BY <2>1, <5>1
      <4> QED  BY <1>6, <3>2, <4>1, <4>2
    <3> QED  BY <3>1, <3>2
  <2> QED  BY <2>1, <2>2
<1>9. PICK d : d = Append(r, c[i])
  OBVIOUS
<1>10. /\ d \in Seq(T) /\ Len(d) = n /\ d[n] = c[i]
       /\ \A j \in 1 .. n - 1 : d[j] = r[j]
  BY <1>1, <1>2, <1>8, <1>9
<1>11. ASSUME NEW j \in 1 .. n PROVE d[j] = c[Before(i, n, j)]
  <2>1. CASE j = n
    BY <1>1, <1>10, <2>1 DEF Before
  <2>2. CASE j # n
    <3>1. j \in 1 .. n - 1 /\ j < n
      BY <1>1, <2>2
    <3> QED  BY <1>8, <1>10, <3>1 DEF Before
  <2> QED  BY <2>1, <2>2
<1> QED  BY <1>1, <1>7, <1>9, <1>10, <1>11

LEMMA UsedDrawable ==
    ASSUME NEW g, Drawable(g), NEW i \in 1 .. Len(g.cache)
    PROVE  /\ Drawable(Used(g, i)) /\ Len(Used(g, i).cache) = Len(g.cache)
           /\ Used(g, i).batch = g.batch /\ Used(g, i).template = g.template
<1>1. PICK d : d = Append(RemoveAt(g.cache, i), g.cache[i])
  OBVIOUS
<1>2. PICK n \in Nat : n = Len(g.cache) /\ g \in States /\ g.cache \in Seq(Textures) /\ i \in 1 .. n
  BY StateFields DEF Drawable
<1>3. /\ d \in Seq(Textures) /\ Len(d) = n
      /\ \A j \in 1 .. n : d[j] = g.cache[Before(i, n, j)]
  BY <1>1, <1>2, RemovedIs
<1>4. PICK h : h = Used(g, i)
  OBVIOUS
<1>5. /\ h \in States /\ h.cache = d /\ h.batch = g.batch /\ h.template = g.template
  <2>1. h = [g EXCEPT !.cache = d]
    BY <1>1, <1>4 DEF Used
  <2> QED  BY <1>2, <1>3, <2>1 DEF States
<1>6. \A j \in 1 .. n : Before(i, n, j) \in 1 .. n
  BY <1>2 DEF Before
<1>7. \A j, k \in 1 .. n : Before(i, n, j) = Before(i, n, k) => j = k
  BY <1>2 DEF Before
<1>8. Distinct(h.cache)
  <2> SUFFICES ASSUME NEW j \in 1 .. n, NEW k \in 1 .. n, d[j].image = d[k].image
               PROVE  j = k
    BY <1>3, <1>5 DEF Distinct
  <2>1. g.cache[Before(i, n, j)].image = g.cache[Before(i, n, k)].image
    BY <1>3
  <2>2. Before(i, n, j) = Before(i, n, k)
    BY <1>2, <1>6, <2>1 DEF Drawable, Distinct
  <2> QED  BY <1>7, <2>2
<1>9. ASSUME NEW m \in Slots, Present(g.cache, m) PROVE Present(h.cache, m)
  <2>1. CASE m = White
    BY <2>1 DEF Present
  <2>2. CASE m # White
    <3>1. PICK k \in 1 .. n : g.cache[k].image = m
      BY <1>2, <1>9, <2>2 DEF Present
    <3>2. PICK j \in 1 .. n : Before(i, n, j) = k
      <4>1. CASE k < i
        BY <1>2, <4>1 DEF Before
      <4>2. CASE k = i
        <5>1. n \in 1 .. n /\ Before(i, n, n) = i
          BY <1>2 DEF Before
        <5> QED  BY <4>2, <5>1
      <4>3. CASE k > i
        <5>1. k - 1 \in 1 .. n /\ Before(i, n, k - 1) = k
          BY <1>2, <4>3 DEF Before
        <5> QED  BY <5>1
      <4> QED  BY <1>2, <4>1, <4>2, <4>3
    <3>3. d[j].image = m
      BY <1>3, <3>1, <3>2
    <3> QED  BY <1>3, <1>5, <3>3 DEF Present
  <2> QED  BY <2>1, <2>2
<1>10. Len(h.cache) = Len(g.cache)
  BY <1>2, <1>3, <1>5
<1>11. Drawable(h)
  BY <1>5, <1>8, <1>9, <1>10, SameImages
<1> QED  BY <1>4, <1>5, <1>10, <1>11

(* Drawing with a texture: uploaded first, if what is in memory differs.   *)
Marked(g, n)   == [g EXCEPT !.cache[n].pending = TRUE]
Changed(g, n, c) == [g EXCEPT !.cache[n].holds = c, !.cache[n].pending = TRUE]
Held(e, c)     == [e EXCEPT !.holds = c, !.pending = TRUE]
PutAt(s, n, e) == [s EXCEPT ![n] = e]

LEMMA HeldIs ==
    ASSUME NEW e \in Textures, NEW c \in Contents
    PROVE  Held(e, c) \in Textures /\ Held(e, c).image = e.image
BY DEF Held, Textures

LEMMA PutAtDrawable ==
    ASSUME NEW g, Drawable(g), NEW n \in 1 .. Len(g.cache), NEW e \in Textures,
           e.image = g.cache[n].image,
           NEW h \in States, h.cache = PutAt(g.cache, n, e), h.batch = g.batch,
           h.template = g.template
    PROVE  Drawable(h) /\ Len(h.cache) = Len(g.cache)
<1>1. g \in States /\ g.cache \in Seq(Textures)
  BY StateFields DEF Drawable
<1>2. /\ Len(h.cache) = Len(g.cache)
      /\ \A i \in 1 .. Len(g.cache) : h.cache[i] = IF i = n THEN e ELSE g.cache[i]
  BY <1>1 DEF PutAt
<1>3. \A i \in 1 .. Len(g.cache) : h.cache[i].image = g.cache[i].image
  BY <1>2
<1>4. Distinct(h.cache)
  BY <1>2, <1>3 DEF Drawable, Distinct
<1>5. \A m \in Slots : Present(g.cache, m) => Present(h.cache, m)
  BY <1>2, <1>3 DEF Present
<1> QED  BY <1>2, <1>4, <1>5, SameImages

LEMMA ChangedFields ==
    ASSUME NEW g \in States, NEW n \in 1 .. Len(g.cache), NEW e, e \in Textures,
           NEW h, h = [g EXCEPT !.cache = PutAt(g.cache, n, e)]
    PROVE  /\ h \in States /\ h.cache = PutAt(g.cache, n, e) /\ h.batch = g.batch
           /\ h.template = g.template
<1>1. g.cache \in Seq(Textures)
  BY StateFields
<1>2. PICK s \in Seq(Textures) : s = PutAt(g.cache, n, e)
  BY <1>1, ExceptSeq DEF PutAt
<1>3. h = [g EXCEPT !.cache = s]
  BY <1>2
<1> QED  BY <1>2, <1>3 DEF States

LEMMA ChangedDrawable ==
    ASSUME NEW g, Drawable(g), NEW n \in 1 .. Len(g.cache), NEW c \in Contents,
           NEW h, h = Marked(g, n) \/ h = Changed(g, n, c)
    PROVE  /\ Drawable(h) /\ Len(h.cache) = Len(g.cache)
<1>1. g \in States /\ g.cache[n] \in Textures /\ g.cache \in Seq(Textures)
  BY StateFields DEF Drawable
<1>2. PICK e \in Textures : /\ e.image = g.cache[n].image
                            /\ h = [g EXCEPT !.cache = PutAt(g.cache, n, e)]
  <2>1. CASE h = Marked(g, n)
    <3>1. g.cache[n].holds \in Contents
      BY <1>1 DEF Textures
    <3>2. [g.cache[n] EXCEPT !.pending = TRUE] = Held(g.cache[n], g.cache[n].holds)
      BY <1>1, <3>1 DEF Held, Textures
    <3>3. h = [g EXCEPT !.cache = PutAt(g.cache, n, [g.cache[n] EXCEPT !.pending = TRUE])]
      BY <1>1, <2>1 DEF Marked, PutAt, States
    <3>4. h = [g EXCEPT !.cache = PutAt(g.cache, n, Held(g.cache[n], g.cache[n].holds))]
      BY <3>2, <3>3
    <3> QED  BY <1>1, <3>1, <3>4, HeldIs
  <2>2. CASE h = Changed(g, n, c)
    <3>1. h = [g EXCEPT !.cache = PutAt(g.cache, n, Held(g.cache[n], c))]
      BY <1>1, <2>2 DEF Changed, PutAt, States, Held
    <3> QED  BY <1>1, <3>1, HeldIs
  <2> QED  BY <2>1, <2>2
<1>3. /\ h \in States /\ h.cache = PutAt(g.cache, n, e) /\ h.batch = g.batch
      /\ h.template = g.template
  BY <1>1, <1>2, ChangedFields
<1> QED  BY <1>2, <1>3, PutAtDrawable

LEMMA RoomDrawable ==
    ASSUME NEW g, Drawable(g)
    PROVE  Drawable(Room(g)) /\ Len(Room(g).cache) < MAX_TEX
<1>0. MAX_TEX \in Nat /\ EVICTED \in 1 .. MAX_TEX /\ Len(g.cache) \in Nat /\ Len(g.cache) <= MAX_TEX
  BY TexCacheAssumption, StateFields DEF Drawable
<1>1. CASE Len(g.cache) < MAX_TEX
  BY <1>1 DEF Room
<1>2. CASE ~ (Len(g.cache) < MAX_TEX)
  <2>1. PICK s : s = Submitted(g)
    OBVIOUS
  <2>2. Drawable(s) /\ Len(s.cache) = MAX_TEX /\ s.batch = <<>> /\ s.template = NoState
    BY <1>0, <1>2, <2>1, SubmittedDrawable
  <2>3. s \in States /\ s.cache \in Seq(Textures)
    BY <2>2, StateFields DEF Drawable
  <2>4. PICK d : d = SubSeq(s.cache, EVICTED + 1, MAX_TEX)
    OBVIOUS
  <2>5. /\ d \in Seq(Textures) /\ Len(d) = MAX_TEX - EVICTED
        /\ \A j \in 1 .. MAX_TEX - EVICTED : d[j] = s.cache[EVICTED + j]
    <3>1. EVICTED + 1 \in Int /\ MAX_TEX \in Int /\ \A j \in EVICTED + 1 .. MAX_TEX : s.cache[j] \in Textures
      BY <1>0, <2>2, <2>3
    <3>2. /\ d \in Seq(Textures)
          /\ Len(d) = IF EVICTED + 1 <= MAX_TEX THEN MAX_TEX - (EVICTED + 1) + 1 ELSE 0
          /\ \A j \in 1 .. MAX_TEX - (EVICTED + 1) + 1 : d[j] = s.cache[EVICTED + 1 + j - 1]
      BY <2>4, <3>1, SubSeqProperties
    <3>3. MAX_TEX - (EVICTED + 1) + 1 = MAX_TEX - EVICTED /\ \A j \in Int : EVICTED + 1 + j - 1 = EVICTED + j
      BY <1>0
    <3>4. Len(d) = MAX_TEX - EVICTED
      BY <1>0, <3>2
    <3>5. ASSUME NEW j \in 1 .. MAX_TEX - EVICTED  PROVE d[j] = s.cache[EVICTED + j]
      <4>1. j \in Int /\ j \in 1 .. MAX_TEX - (EVICTED + 1) + 1
        BY <1>0, <3>3
      <4>2. d[j] = s.cache[EVICTED + 1 + j - 1] /\ EVICTED + 1 + j - 1 = EVICTED + j
        BY <3>2, <3>3, <4>1
      <4> QED  BY <4>2
    <3> QED  BY <3>2, <3>4, <3>5
  <2>6. PICK h : h = Room(g)
    OBVIOUS
  <2>7. h \in States /\ h.cache = d /\ h.batch = <<>> /\ h.template = NoState
    <3>1. h = [s EXCEPT !.cache = d]
      BY <1>2, <2>1, <2>2, <2>4, <2>6 DEF Room
    <3> QED  BY <2>2, <2>3, <2>5, <3>1 DEF States
  <2>8. Distinct(h.cache)
    <3> SUFFICES ASSUME NEW i \in 1 .. MAX_TEX - EVICTED, NEW j \in 1 .. MAX_TEX - EVICTED,
                        d[i].image = d[j].image
                 PROVE  i = j
      BY <2>5, <2>7 DEF Distinct
    <3>1. EVICTED + i \in 1 .. Len(s.cache) /\ EVICTED + j \in 1 .. Len(s.cache)
      BY <1>0, <2>2
    <3>2. s.cache[EVICTED + i].image = s.cache[EVICTED + j].image
      BY <2>5
    <3>3. EVICTED + i = EVICTED + j
      BY <2>2, <3>1, <3>2 DEF Drawable, Distinct
    <3> QED  BY <1>0, <3>3
  <2>9. Len(h.batch) = 0 /\ Present(h.cache, h.template.image)
    BY <2>7, NoStateIs DEF Present
  <2>10. Len(h.cache) < MAX_TEX
    BY <1>0, <2>5, <2>7
  <2>11. Drawable(h)
    BY <1>0, <2>7, <2>8, <2>9, <2>10 DEF Drawable
  <2> QED  BY <2>6, <2>10, <2>11
<1> QED  BY <1>1, <1>2

(* Of one more image than there is room for textures one is free.          *)
LEMMA FreeImageIs ==
    ASSUME NEW g, Drawable(g)
    PROVE  /\ FreeImage(g) \in Images
           /\ \A i \in 1 .. Len(g.cache) : g.cache[i].image # FreeImage(g)
<1>1. PICK n \in Nat : n = Len(g.cache) /\ n <= MAX_TEX /\ MAX_TEX \in Nat /\ DOMAIN g.cache = 1 .. n
  BY TexCacheAssumption, StateFields DEF Drawable
<1>2. \E m \in Images : \A i \in 1 .. n : g.cache[i].image # m
  <2> SUFFICES ASSUME \A m \in Images : \E i \in 1 .. n : g.cache[i].image = m
               PROVE  FALSE
    OBVIOUS
  <2> DEFINE f == [m \in Images |-> CHOOSE i \in 1 .. n : g.cache[i].image = m]
  <2>1. f \in [Images -> 1 .. n] /\ \A m \in Images : g.cache[f[m]].image = m
    OBVIOUS
  <2>2. IsFiniteSet(Images) /\ Cardinality(Images) = MAX_TEX + 1
    <3>1. PICK k \in Int : k = MAX_TEX + 1
      BY <1>1
    <3>2. IsFiniteSet(1 .. k) /\ Cardinality(1 .. k) = IF 1 > k THEN 0 ELSE k - 1 + 1
      BY FS_Interval
    <3> QED  BY <1>1, <3>1, <3>2 DEF Images
  <2>3. IsFiniteSet(1 .. n) /\ Cardinality(1 .. n) = n
    <3>1. IsFiniteSet(1 .. n) /\ Cardinality(1 .. n) = IF 1 > n THEN 0 ELSE n - 1 + 1
      BY FS_Interval
    <3> QED  BY <3>1
  <2>4. Cardinality(1 .. n) < Cardinality(Images)
    BY <1>1, <2>2, <2>3
  <2> HIDE DEF f
  <2>5. PICK x, y \in Images : x # y /\ f[x] = f[y]
    BY <2>1, <2>2, <2>3, <2>4, FS_PigeonHole
  <2> QED  BY <2>1, <2>5
<1>3. PICK m : m = FreeImage(g)
  OBVIOUS
<1>4. m \in Images /\ \A i \in 1 .. n : g.cache[i].image # m
  BY <1>1, <1>2, <1>3 DEF FreeImage
<1> QED  BY <1>1, <1>3, <1>4

(* A texture that is new in the cache.                                     *)
Fresh(k, c, m) == [key |-> k, holds |-> c, pending |-> TRUE, image |-> m]

LEMMA FreshIs ==
    ASSUME NEW k \in Keys, NEW c \in Contents, NEW m \in Images
    PROVE  Fresh(k, c, m) \in Textures /\ Fresh(k, c, m).image = m
BY DEF Fresh, Textures

LEMMA AddedDrawable ==
    ASSUME NEW g, Drawable(g), NEW k \in Keys, mem \in [Keys -> Contents]
    PROVE  Drawable(Added(g, k))
<1>1. PICK r : r = Room(g)
  OBVIOUS
<1>2. Drawable(r) /\ Len(r.cache) < MAX_TEX /\ r \in States
  BY <1>1, RoomDrawable DEF Drawable
<1>3. PICK m \in Images : m = FreeImage(r) /\ \A i \in 1 .. Len(r.cache) : r.cache[i].image # m
  BY <1>2, FreeImageIs
<1>4. PICK e \in Textures : e = Fresh(k, mem[k], m) /\ e.image = m
  BY FreshIs
<1>5. PICK n \in Nat : n = Len(r.cache) /\ r.cache \in Seq(Textures) /\ n < MAX_TEX /\ MAX_TEX \in Nat
  BY <1>2, TexCacheAssumption, StateFields
<1>6. PICK d : d = Append(r.cache, e)
  OBVIOUS
<1>7. /\ d \in Seq(Textures) /\ Len(d) = n + 1 /\ d[n + 1] = e
      /\ \A i \in 1 .. n : d[i] = r.cache[i]
  BY <1>5, <1>6
<1>8. PICK h : h = Added(g, k)
  OBVIOUS
<1>9. h \in States /\ h.cache = d /\ h.batch = r.batch /\ h.template = r.template
  <2>1. h = [r EXCEPT !.cache = d]
    BY <1>1, <1>3, <1>4, <1>6, <1>8 DEF Added, Fresh
  <2> QED  BY <1>2, <1>7, <2>1 DEF States
<1>10. Distinct(h.cache)
  <2> SUFFICES ASSUME NEW i \in 1 .. n + 1, NEW j \in 1 .. n + 1, d[i].image = d[j].image
               PROVE  i = j
    BY <1>7, <1>9 DEF Distinct
  <2>1. \A a \in 1 .. n + 1 : a = n + 1 \/ a \in 1 .. n
    OBVIOUS
  <2>2. \A a \in 1 .. n : d[a].image # m
    BY <1>3, <1>5, <1>7
  <2>3. i \in 1 .. n /\ j \in 1 .. n => r.cache[i].image = r.cache[j].image
    BY <1>7
  <2>4. i \in 1 .. n /\ j \in 1 .. n => i = j
    BY <1>2, <1>5, <2>3 DEF Drawable, Distinct
  <2>5. d[n + 1].image = m
    BY <1>4, <1>7
  <2> QED  BY <2>1, <2>2, <2>4, <2>5
<1>11. \A x \in Slots : Present(r.cache, x) => Present(h.cache, x)
  <2> SUFFICES ASSUME NEW x \in Slots, Present(r.cache, x), x # White
               PROVE  Present(h.cache, x)
    BY DEF Present
  <2>1. PICK i \in 1 .. n : r.cache[i].image = x
    BY <1>5 DEF Present
  <2>2. i \in 1 .. n + 1 /\ d[i].image = x
    BY <1>7, <2>1
  <2> QED  BY <1>7, <1>9, <2>2 DEF Present
<1>12. \A i \in 1 .. Len(r.batch) : r.batch[i].image \in Slots
  BY <1>2, StateFields DEF Shots
<1>13. r.template.image \in Slots
  BY <1>2, StateFields DEF Templates
<1>14. Len(h.cache) <= MAX_TEX
  BY <1>5, <1>7, <1>9
<1> QED  BY <1>2, <1>8, <1>9, <1>10, <1>11, <1>12, <1>13, <1>14 DEF Drawable

LEMMA GotDrawable ==
    ASSUME NEW g, Drawable(g), NEW k \in Keys, NEW uploads \in BOOLEAN,
           mem \in [Keys -> Contents]
    PROVE  Drawable(Got(g, k, uploads))
<1>0. mem[k] \in Contents /\ DOMAIN g.cache = 1 .. Len(g.cache)
  BY StateFields DEF Drawable
<1>1. CASE Holding(g, k) = {}
  BY <1>1, AddedDrawable, RoomDrawable DEF Got
<1>2. CASE Holding(g, k) # {}
  <2>1. PICK i \in 1 .. Len(g.cache) : i = CHOOSE j \in Holding(g, k) : TRUE
    BY <1>0, <1>2 DEF Holding
  <2>1a. Len(g.cache) \in 1 .. Len(g.cache)
    BY <2>1, StateFields DEF Drawable
  <2>2. PICK n : n = Len(g.cache) /\ n \in 1 .. n
    BY <2>1a, Zenon
  <2>3. PICK u : u = Used(g, i) /\ Drawable(u) /\ Len(u.cache) = n
    BY <2>2, UsedDrawable
  <2>4. PICK s : s = Submitted(g) /\ Drawable(s) /\ Len(s.cache) = n
    BY <2>2, SubmittedDrawable
  <2>5. PICK v : v = Used(s, i) /\ Drawable(v) /\ Len(v.cache) = n
    BY <2>2, <2>4, UsedDrawable
  <2>6. Drawable(Marked(u, n)) /\ Drawable(Changed(u, n, mem[k])) /\ Drawable(Changed(v, n, mem[k]))
    BY <1>0, <2>2, <2>3, <2>5, ChangedDrawable
  <2>7. Rewritten(g, i, mem[k]) \in {Changed(u, n, mem[k]), Changed(v, n, mem[k])}
    BY <2>2, <2>3, <2>4, <2>5 DEF Rewritten, Changed
  <2>8. Got(g, k, uploads) \in {Marked(u, n), Rewritten(g, i, mem[k]), v, u}
    BY <1>2, <2>1, <2>2, <2>3, <2>4, <2>5 DEF Got, Marked
  <2> QED  BY <2>3, <2>5, <2>6, <2>7, <2>8
<1> QED  BY <1>1, <1>2

(* The state that the hooks copy.                                          *)
Template(k, m, c) == [for |-> {k}, image |-> m, holds |-> c]

LEMMA BuiltDrawable ==
    ASSUME NEW g, Drawable(g), NEW k \in Keys
    PROVE  Drawable(Built(g, k))
<1>1. g \in States /\ DOMAIN g.cache = 1 .. Len(g.cache)
  BY StateFields DEF Drawable
<1>2. PICK t \in Templates : Present(g.cache, t.image) /\ Built(g, k) = [g EXCEPT !.template = t]
  <2> DEFINE held == {i \in Holding(g, k) : g.cache[i].holds = mem[k]}
  <2>1. \A m \in Slots, c \in SUBSET Contents :
           Template(k, m, c) \in Templates /\ Template(k, m, c).image = m
    BY DEF Template, Templates
  <2>2. CASE held = {}
    <3>1. Built(g, k) = [g EXCEPT !.template = Template(k, White, {})]
      BY <2>2 DEF Built, Template
    <3>2. White \in Slots /\ {} \in SUBSET Contents /\ Present(g.cache, White)
      BY DEF Slots, Present
    <3> QED  BY <2>1, <3>1, <3>2
  <2>3. CASE held # {}
    <3>1. PICK i \in 1 .. Len(g.cache) : i = CHOOSE j \in held : TRUE
      BY <1>1, <2>3 DEF Holding
    <3>2. Built(g, k) = [g EXCEPT !.template = Template(k, g.cache[i].image, {g.cache[i].holds})]
      BY <2>3, <3>1 DEF Built, Template
    <3>3. g.cache[i].image \in Slots /\ {g.cache[i].holds} \in SUBSET Contents
      BY <1>1, StateFields DEF Textures, Slots
    <3>4. Present(g.cache, g.cache[i].image)
      BY DEF Present
    <3> QED  BY <2>1, <3>2, <3>3, <3>4
  <2> QED  BY <2>2, <2>3
<1>3. PICK h : h = Built(g, k)
  OBVIOUS
<1>4. h \in States /\ h.cache = g.cache /\ h.batch = g.batch /\ h.template = t
  BY <1>1, <1>2, <1>3 DEF States
<1> QED  BY <1>2, <1>3, <1>4 DEF Drawable

LEMMA StateOfDrawable ==
    ASSUME NEW g, Drawable(g), NEW k \in Keys, NEW uploads \in BOOLEAN,
           mem \in [Keys -> Contents]
    PROVE  Drawable(StateOf(g, k, uploads))
BY GotDrawable, BuiltDrawable DEF StateOf

(* The copy of the state that a hook appends still names an image that is  *)
(* there, though the batches before it may have been submitted meanwhile.  *)
LEMMA EnsureRoomDrawable ==
    ASSUME NEW g, Drawable(g)
    PROVE  /\ Drawable(EnsureRoom(g))
           /\ \A m \in Slots : Present(g.cache, m) => Present(EnsureRoom(g).cache, m)
<1>1. CASE Len(g.batch) >= MAX_DRAWS
  <2>1. PICK h : h = EnsureRoom(g) /\ h = Submitted(g)
    BY <1>1 DEF EnsureRoom
  <2>2. /\ Drawable(h) /\ Len(h.cache) = Len(g.cache)
        /\ \A i \in 1 .. Len(g.cache) : h.cache[i].image = g.cache[i].image
    BY <2>1, SubmittedDrawable
  <2>3. \A m \in Slots : Present(g.cache, m) => Present(h.cache, m)
    BY <2>2 DEF Present
  <2> QED  BY <2>1, <2>2, <2>3
<1>2. CASE ~ (Len(g.batch) >= MAX_DRAWS)
  BY <1>2 DEF EnsureRoom
<1> QED  BY <1>1, <1>2

(* The inductive invariant.  It needs more than the property, that images  *)
(* are pairwise different and that the copied state too names one that is  *)
(* there: evicting a texture is safe only since every batch that draws it  *)
(* was submitted before.                                                   *)
CacheInv == mem \in [Keys -> Contents] /\ Drawable(Now)

LEMMA DrawKeeps ==
    ASSUME CacheInv, NEW k \in Keys, NEW uploads \in BOOLEAN, Draw(k, uploads)
    PROVE  CacheInv'
<1>1. PICK s : s = StateOf(Now, k, uploads) /\ Drawable(s)
  BY StateOfDrawable DEF CacheInv
<1>2. PICK new : /\ new = EnsureRoom(s) /\ Drawable(new)
                 /\ \A m \in Slots : Present(s.cache, m) => Present(new.cache, m)
  BY <1>1, EnsureRoomDrawable
<1>3. PICK b : b = [image |-> s.template.image, holds |-> s.template.holds]
  OBVIOUS
<1>4. /\ cache' = new.cache /\ template' = new.template /\ batch' = Append(new.batch, b)
      /\ mem' = mem
  BY <1>1, <1>2, <1>3, Zenon DEF Draw
<1>5. s \in States /\ new \in States
  BY <1>1, <1>2 DEF Drawable
<1>6. /\ b \in Shots /\ b.image = s.template.image /\ b.image \in Slots
  BY <1>3, <1>5, StateFields DEF Shots, Templates
<1>7. Present(new.cache, b.image)
  BY <1>1, <1>2, <1>6 DEF Drawable
<1>8. PICK n \in Nat : n = Len(new.batch) /\ new.batch \in Seq(Shots)
  BY <1>5, StateFields
<1>9. /\ batch' \in Seq(Shots) /\ Len(batch') = n + 1 /\ batch'[n + 1] = b
      /\ \A i \in 1 .. n : batch'[i] = new.batch[i]
  BY <1>4, <1>6, <1>8
<1>10. \A i \in 1 .. n + 1 : Present(cache', batch'[i].image)
  <2> SUFFICES ASSUME NEW i \in 1 .. n + 1 PROVE Present(new.cache, batch'[i].image)
    BY <1>4
  <2>1. i = n + 1 \/ i \in 1 .. n
    OBVIOUS
  <2> QED  BY <1>2, <1>7, <1>8, <1>9, <2>1 DEF Drawable
<1>11. PICK h : h = Now'
  OBVIOUS
<1>12. h = [cache |-> cache', batch |-> batch', template |-> template']
  BY <1>11 DEF Now
<1>13. h \in States /\ h.cache = cache' /\ h.batch = batch' /\ h.template = template'
  BY <1>4, <1>5, <1>9, <1>12, StateFields DEF States
<1>14. Drawable(h)
  BY <1>2, <1>4, <1>9, <1>10, <1>13 DEF Drawable
<1> QED  BY <1>4, <1>11, <1>14 DEF CacheInv

LEMMA CacheStep == CacheInv /\ [TexCacheNext]_cacheVars => CacheInv'
<1> SUFFICES ASSUME CacheInv, [TexCacheNext]_cacheVars PROVE CacheInv'
  OBVIOUS
<1>1. ASSUME Submit PROVE CacheInv'
  <2>1. PICK g : g = Now /\ Drawable(g)
    BY DEF CacheInv
  <2>2. PICK h : h = Submitted(g) /\ Drawable(h) /\ h.batch = <<>> /\ h.template = NoState
    BY <2>1, SubmittedDrawable
  <2>3. cache' = h.cache /\ batch' = <<>> /\ template' = NoState /\ mem' = mem
    BY <1>1, <2>1, <2>2 DEF Submit
  <2>4. h \in States
    BY <2>2 DEF Drawable
  <2>5. Now' = [cache |-> h.cache, batch |-> h.batch, template |-> h.template]
    BY <2>2, <2>3 DEF Now
  <2>6. Now' = h
    BY <2>4, <2>5 DEF States
  <2>7. PICK x : x = Now' /\ x = h
    BY <2>6
  <2> QED  BY <2>2, <2>3, <2>7 DEF CacheInv
<1>2. ASSUME NEW k \in Keys, NEW c \in Contents, Rewrite(k, c) PROVE CacheInv'
  <2>1. mem' \in [Keys -> Contents] /\ cache' = cache /\ batch' = batch /\ template' = template
    BY <1>2 DEF Rewrite, CacheInv
  <2>2. Now' = Now
    BY <2>1 DEF Now
  <2>3. PICK x : x = Now' /\ x = Now
    BY <2>2
  <2> QED  BY <2>1, <2>3 DEF CacheInv
<1>3. ASSUME UNCHANGED cacheVars PROVE CacheInv'
  <2>1. mem' = mem /\ cache' = cache /\ batch' = batch /\ template' = template
    BY <1>3 DEF cacheVars
  <2>2. PICK x : x = Now' /\ x = Now
    BY <2>1 DEF Now
  <2> QED  BY <2>1, <2>2 DEF CacheInv
<1> QED  BY <1>1, <1>2, <1>3, DrawKeeps DEF TexCacheNext

LEMMA CacheStarts == TexCacheInit => CacheInv
<1> SUFFICES ASSUME TexCacheInit PROVE CacheInv
  OBVIOUS
<1>1. mem \in [Keys -> Contents]
  <2>1. PICK c \in Contents : c = CHOOSE x \in Contents : TRUE
    BY TexCacheAssumption
  <2> QED  BY <2>1 DEF TexCacheInit
<1>2. PICK g : g = Now
  OBVIOUS
<1>3. g = [cache |-> <<>>, batch |-> <<>>, template |-> NoState]
  BY <1>2 DEF TexCacheInit, Now
<1>4. g \in States /\ g.cache = <<>> /\ g.batch = <<>> /\ g.template = NoState
  <2>1. <<>> \in Seq(Textures) /\ <<>> \in Seq(Shots)
    OBVIOUS
  <2> QED  BY <1>3, <2>1, NoStateIs DEF States
<1>5. Len(g.cache) = 0 /\ Len(g.batch) = 0 /\ MAX_TEX \in Nat
  BY <1>4, TexCacheAssumption
<1>6. Distinct(g.cache) /\ Present(g.cache, g.template.image)
  BY <1>4, <1>5, NoStateIs DEF Distinct, Present
<1>7. Drawable(g)
  BY <1>4, <1>5, <1>6 DEF Drawable
<1> QED  BY <1>1, <1>2, <1>7 DEF CacheInv

(* A texture that a draw not yet submitted names stays in the cache with   *)
(* its image, whatever is evicted, uploaded again or moved to make room.   *)
THEOREM TexturesKeepTheirImages == TexCacheSpec => []PendingHaveTheirImage
<1>1. CacheInv => PendingHaveTheirImage
  <2> SUFFICES ASSUME CacheInv PROVE PendingHaveTheirImage
    OBVIOUS
  <2>1. PICK g : g = Now /\ Drawable(g) /\ g \in States
    BY DEF CacheInv, Drawable
  <2>2. g.cache = cache /\ g.batch = batch
    BY <2>1 DEF Now
  <2>3. DOMAIN cache = 1 .. Len(cache) /\ DOMAIN batch = 1 .. Len(batch)
    BY <2>1, <2>2, StateFields
  <2> QED  BY <2>1, <2>2, <2>3 DEF PendingHaveTheirImage, Drawable, Present, Distinct
<1> QED  BY <1>1, CacheStarts, CacheStep, PTL DEF TexCacheSpec

-----------------------------------------------------------------------------
(* Vertices and indices, for any of the formats a vertex may have and any  *)
(* counts.                                                                 *)

(* The fields of a vertex type, and what their alignment gives.            *)
Types == [wt : 0..3, wc : 0..7, tc : 0..3, col : {0} \cup 4..7, nrm : 0..3,
          pos : 0..3, through : BOOLEAN, idx : 0..3]

LEMMA SizeIs ==
    ASSUME NEW fmt \in 0..3
    PROVE  Size(fmt) \in {0, 1, 2, 4} /\ (Size(fmt) = 0 <=> fmt = 0)
BY DEF Size

LEMMA ColSizeIs ==
    ASSUME NEW fmt \in {0} \cup 4..7
    PROVE  ColSize(fmt) \in {0, 2, 4} /\ (fmt = 7 => ColSize(fmt) = 4)
           /\ (ColSize(fmt) # 0 /\ fmt # 7 => ColSize(fmt) = 2)
BY DEF ColSize

LEMMA AlignIs ==
    ASSUME NEW off \in Nat, NEW a \in {0, 1, 2, 4}
    PROVE  AlignTo(off, a) \in Nat /\ AlignTo(off, a) >= off /\ (a # 0 => AlignTo(off, a) % a = 0)
<1>1. CASE a = 0
  BY <1>1 DEF AlignTo
<1>2. CASE a = 1
  BY <1>2 DEF AlignTo
<1>3. CASE a = 2
  BY <1>3 DEF AlignTo
<1>4. CASE a = 4
  BY <1>4 DEF AlignTo
<1> QED  BY <1>1, <1>2, <1>3, <1>4

(* The widest of some components.                                          *)
LEMMA WidestIs ==
    ASSUME NEW S, S \subseteq {0, 1, 2, 4}, 1 \in S,
           NEW wide, wide = CHOOSE a \in S : \A b \in S : b <= a
    PROVE  wide \in {1, 2, 4} /\ \A b \in S : b <= wide
<1>1. \E a \in S : \A b \in S : b <= a
  <2>1. CASE 4 \in S
    BY <2>1
  <2>2. CASE 4 \notin S /\ 2 \in S
    BY <2>2
  <2>3. CASE 4 \notin S /\ 2 \notin S
    BY <2>3
  <2> QED  BY <2>1, <2>2, <2>3
<1>2. wide \in S /\ \A b \in S : b <= wide
  BY <1>1
<1> QED  BY <1>2

(* The layout of a vertex, its fields in the order w, tc, col, nrm, pos.   *)
LayoutOf(w, tc, col, nrm, pos, stride) ==
    [w |-> w, tc |-> tc, col |-> col, nrm |-> nrm, pos |-> pos, stride |-> stride]

LEMMA LayoutFields ==
    ASSUME NEW w, NEW tc, NEW col, NEW nrm, NEW pos, NEW stride,
           NEW l, l = LayoutOf(w, tc, col, nrm, pos, stride)
    PROVE  l.w = w /\ l.tc = tc /\ l.col = col /\ l.nrm = nrm /\ l.pos = pos /\ l.stride = stride
BY DEF LayoutOf

PosSize(t) == Size(IF t.pos = 0 THEN 3 ELSE t.pos)
WeightsEnd(t) == IF t.wt = 0 THEN 0 ELSE Size(t.wt) * Weights(t)
Aligned(off, size) == size # 0 => off % size = 0

(* The fields follow one another, each aligned to its components, and the  *)
(* vertex is a multiple of every component's size.                         *)
LEMMA LayoutIs ==
    ASSUME NEW t \in Types, NEW l, l = Layout(t)
    PROVE  /\ l.w = 0 /\ l.tc \in Nat /\ l.col \in Nat /\ l.nrm \in Nat /\ l.pos \in Nat
           /\ l.stride \in Nat
           /\ WeightsEnd(t) \in Nat /\ WeightsEnd(t) <= l.tc
           /\ l.tc + 2 * Size(t.tc) <= l.col
           /\ l.col + ColSize(t.col) <= l.nrm /\ l.nrm + 3 * Size(t.nrm) <= l.pos
           /\ l.pos + 3 * PosSize(t) <= l.stride
           /\ Aligned(l.tc, Size(t.tc)) /\ Aligned(l.col, ColSize(t.col))
           /\ Aligned(l.nrm, Size(t.nrm)) /\ Aligned(l.pos, PosSize(t))
           /\ \A s \in {1, Size(t.wt), Size(t.tc), ColSize(t.col), Size(t.nrm), PosSize(t)} :
                  Aligned(l.stride, s)
<1>1. /\ Size(t.wt) \in {0, 1, 2, 4} /\ Size(t.tc) \in {0, 1, 2, 4} /\ Size(t.nrm) \in {0, 1, 2, 4}
      /\ PosSize(t) \in {1, 2, 4} /\ ColSize(t.col) \in {0, 2, 4} /\ Weights(t) \in 1..8
  <2>1. t.wt \in 0..3 /\ t.tc \in 0..3 /\ t.nrm \in 0..3 /\ t.pos \in 0..3 /\ t.wc \in 0..7
        /\ t.col \in {0} \cup 4..7
    BY DEF Types
  <2>2. PosSize(t) \in {1, 2, 4}
    BY <2>1, SizeIs DEF PosSize
  <2> QED  BY <2>1, <2>2, SizeIs, ColSizeIs DEF Weights
<1>2. PICK sw, st, sn, p, sc : /\ sw = Size(t.wt) /\ st = Size(t.tc) /\ sn = Size(t.nrm)
                               /\ p = PosSize(t) /\ sc = ColSize(t.col)
  OBVIOUS
<1>2a. {sw, st, sn, p, sc} \subseteq {0, 1, 2, 4} /\ p # 0
  BY <1>1, <1>2
<1>3. PICK wEnd : wEnd = WeightsEnd(t)
  OBVIOUS
<1>4. wEnd \in Nat
  BY <1>1, <1>2, <1>3 DEF WeightsEnd
<1>5. PICK tOff : tOff = AlignTo(wEnd, st)
  OBVIOUS
<1>6. tOff \in Nat /\ tOff >= wEnd /\ Aligned(tOff, st)
  BY <1>1, <1>2, <1>4, <1>5, AlignIs DEF Aligned
<1>7. PICK cOff : cOff = AlignTo(tOff + 2 * st, sc)
  OBVIOUS
<1>8. cOff \in Nat /\ cOff >= tOff + 2 * st /\ Aligned(cOff, sc)
  <2>1. PICK n \in Nat : n = tOff + 2 * st
    BY <1>1, <1>2, <1>6
  <2>2. sc \in {0, 1, 2, 4}
    BY <1>2a
  <2>3. AlignTo(n, sc) \in Nat /\ AlignTo(n, sc) >= n /\ (sc # 0 => AlignTo(n, sc) % sc = 0)
    BY <2>2, AlignIs
  <2> QED  BY <1>7, <2>1, <2>3 DEF Aligned
<1>9. PICK nOff : nOff = AlignTo(cOff + sc, sn)
  OBVIOUS
<1>10. nOff \in Nat /\ nOff >= cOff + sc /\ Aligned(nOff, sn)
  <2>1. cOff + sc \in Nat
    BY <1>1, <1>2, <1>8
  <2> QED  BY <1>2a, <1>9, <2>1, AlignIs DEF Aligned
<1>11. PICK pOff : pOff = AlignTo(nOff + 3 * sn, p)
  OBVIOUS
<1>12. pOff \in Nat /\ pOff >= nOff + 3 * sn /\ Aligned(pOff, p)
  <2>1. PICK n \in Nat : n = nOff + 3 * sn
    BY <1>1, <1>2, <1>10
  <2>2. p \in {0, 1, 2, 4}
    BY <1>2a
  <2>3. AlignTo(n, p) \in Nat /\ AlignTo(n, p) >= n /\ (p # 0 => AlignTo(n, p) % p = 0)
    BY <2>2, AlignIs
  <2> QED  BY <1>11, <2>1, <2>3 DEF Aligned
<1>13. PICK S : S = {1, sw, st, sc, sn, p}
  OBVIOUS
<1>14. PICK wide : wide = CHOOSE a \in S : \A b \in S : b <= a
  OBVIOUS
<1>15. wide \in {1, 2, 4} /\ \A b \in S : b <= wide
  <2>1. S \subseteq {0, 1, 2, 4} /\ 1 \in S
    BY <1>1, <1>2, <1>13
  <2> QED  BY <1>14, <2>1, WidestIs
<1>16. PICK stride : stride = AlignTo(pOff + 3 * p, wide)
  OBVIOUS
<1>17. stride \in Nat /\ stride >= pOff + 3 * p /\ stride % wide = 0
  <2>1. pOff + 3 * p \in Nat
    BY <1>1, <1>2, <1>12
  <2>2. wide \in {0, 1, 2, 4} /\ wide # 0
    BY <1>15
  <2> QED  BY <1>16, <2>1, <2>2, AlignIs
<1>18. \A s \in S : Aligned(stride, s)
  <2> TAKE s \in S
  <2>1. s \in {0, 1, 2, 4} /\ s <= wide
    BY <1>1, <1>2, <1>13, <1>15
  <2>2. CASE s = 0 \/ s = 1
    BY <1>17, <2>2 DEF Aligned
  <2>3. CASE s = 2 /\ wide = 2
    BY <1>17, <2>3 DEF Aligned
  <2>4. CASE s = 2 /\ wide = 4
    BY <1>17, <2>4 DEF Aligned
  <2>5. CASE s = 4 /\ wide = 4
    BY <1>17, <2>5 DEF Aligned
  <2> QED  BY <1>15, <2>1, <2>2, <2>3, <2>4, <2>5
<1>19. l = LayoutOf(0, tOff, cOff, nOff, pOff, stride)
  BY <1>2, <1>3, <1>5, <1>7, <1>9, <1>11, <1>13, <1>14, <1>16
     DEF Layout, LayoutOf, WeightsEnd, PosSize
<1>20. /\ l.w = 0 /\ l.tc = tOff /\ l.col = cOff /\ l.nrm = nOff /\ l.pos = pOff
       /\ l.stride = stride
  BY <1>19, LayoutFields
<1> QED  BY <1>2, <1>3, <1>4, <1>6, <1>8, <1>10, <1>12, <1>13, <1>17, <1>18, <1>20

-----------------------------------------------------------------------------

(* Reading the fields.                                                     *)
Field(off, size, n) == [off |-> off, size |-> size, n |-> n]

LEMMA FieldIs ==
    ASSUME NEW off, NEW size, NEW n, NEW r, r = Field(off, size, n)
    PROVE  r.off = off /\ r.size = size /\ r.n = n
BY DEF Field

(* A read of a field, between the field's offset and the next field's.     *)
ReadWithin(l, r) ==
    /\ r[2].off \in Nat /\ r[2].size \in {1, 2, 4} /\ r[2].n \in Nat \ {0}
    /\ r[2].size * r[2].n \in Nat
    /\ r[2].off % r[2].size = 0 /\ l.stride % r[2].size = 0
    /\ \/ r[1] = "w" /\ r[2].off + r[2].size * r[2].n <= l.tc
       \/ r[1] = "tc" /\ l.tc <= r[2].off /\ r[2].off + r[2].size * r[2].n <= l.col
       \/ r[1] = "col" /\ l.col <= r[2].off /\ r[2].off + r[2].size * r[2].n <= l.nrm
       \/ r[1] = "nrm" /\ l.nrm <= r[2].off /\ r[2].off + r[2].size * r[2].n <= l.pos
       \/ r[1] = "pos" /\ l.pos <= r[2].off /\ r[2].off + r[2].size * r[2].n <= l.stride

LEMMA ReadIs ==
    ASSUME NEW t \in Types, NEW l, l = Layout(t), NEW r \in Reads(t, l)
    PROVE  ReadWithin(l, r)
<1>1. /\ t.wt \in 0..3 /\ t.tc \in 0..3 /\ t.nrm \in 0..3 /\ t.pos \in 0..3 /\ t.wc \in 0..7
      /\ t.col \in {0} \cup 4..7
  BY DEF Types
<1>2. /\ l.w = 0 /\ l.tc \in Nat /\ l.col \in Nat /\ l.nrm \in Nat /\ l.pos \in Nat
      /\ l.stride \in Nat
      /\ WeightsEnd(t) \in Nat /\ WeightsEnd(t) <= l.tc
      /\ l.tc + 2 * Size(t.tc) <= l.col
      /\ l.col + ColSize(t.col) <= l.nrm /\ l.nrm + 3 * Size(t.nrm) <= l.pos
      /\ l.pos + 3 * PosSize(t) <= l.stride
      /\ Aligned(l.tc, Size(t.tc)) /\ Aligned(l.col, ColSize(t.col))
      /\ Aligned(l.nrm, Size(t.nrm)) /\ Aligned(l.pos, PosSize(t))
      /\ \A s \in {1, Size(t.wt), Size(t.tc), ColSize(t.col), Size(t.nrm), PosSize(t)} :
             Aligned(l.stride, s)
  BY LayoutIs
<1>3. CASE r = <<"pos", ReadPos(t, l)>>
  <2>1. PICK z : z = IF t.pos = 0 THEN 1 ELSE Size(t.pos)
    OBVIOUS
  <2>2. r[1] = "pos" /\ r[2].off = l.pos /\ r[2].size = z /\ r[2].n = 3
    <3>1. ReadPos(t, l) = Field(l.pos, z, 3)
      BY <2>1 DEF ReadPos, Field
    <3> QED  BY <1>3, <3>1, FieldIs
  <2>3. z \in {1, 2, 4} /\ z <= PosSize(t) /\ PosSize(t) \in {1, 2, 4}
        /\ (z = 1 \/ z = PosSize(t))
    BY <1>1, <2>1, SizeIs DEF PosSize
  <2>4. l.pos % z = 0 /\ l.stride % z = 0
    <3>1. l.stride % PosSize(t) = 0 /\ l.pos % PosSize(t) = 0
      BY <1>2, <2>3 DEF Aligned
    <3> QED  BY <1>2, <2>3, <3>1
  <2>5. z * 3 \in Nat /\ l.pos + z * 3 <= l.stride
    BY <1>2, <2>3
  <2> QED  BY <1>2, <2>2, <2>3, <2>4, <2>5 DEF ReadWithin
<1>4. CASE r = <<"tc", ReadTc(t, l)>> /\ t.tc # 0
  <2>1. PICK z : z = Size(t.tc)
    OBVIOUS
  <2>2. r[1] = "tc" /\ r[2].off = l.tc /\ r[2].size = z /\ r[2].n = 2
    <3>1. ReadTc(t, l) = Field(l.tc, z, 2)
      BY <2>1 DEF ReadTc, Field
    <3> QED  BY <1>4, <3>1, FieldIs
  <2>3. z \in {1, 2, 4}
    BY <1>1, <1>4, <2>1, SizeIs
  <2>4. l.tc % z = 0 /\ l.stride % z = 0
    BY <1>2, <2>1, <2>3 DEF Aligned
  <2>5. z * 2 \in Nat /\ l.tc + z * 2 <= l.col
    BY <1>2, <2>1, <2>3
  <2> QED  BY <1>2, <2>2, <2>3, <2>4, <2>5 DEF ReadWithin
<1>5. CASE r = <<"col", ReadColor(t, l)>> /\ ColSize(t.col) # 0
  <2>1. PICK z : z = ColSize(t.col)
    OBVIOUS
  <2>2. z \in {1, 2, 4} /\ z = IF t.col = 7 THEN 4 ELSE 2
    BY <1>1, <1>5, <2>1, ColSizeIs
  <2>3. r[1] = "col" /\ r[2].off = l.col /\ r[2].size = z /\ r[2].n = 1
    <3>1. ReadColor(t, l) = Field(l.col, z, 1)
      BY <2>2 DEF ReadColor, Field
    <3> QED  BY <1>5, <3>1, FieldIs
  <2>4. l.col % z = 0 /\ l.stride % z = 0
    BY <1>2, <2>1, <2>2 DEF Aligned
  <2>5. z * 1 \in Nat /\ l.col + z * 1 <= l.nrm
    BY <1>2, <2>1, <2>2
  <2> QED  BY <1>2, <2>2, <2>3, <2>4, <2>5 DEF ReadWithin
<1>6. CASE r = <<"nrm", ReadNrm(t, l)>> /\ t.nrm # 0
  <2>1. PICK z : z = Size(t.nrm)
    OBVIOUS
  <2>2. r[1] = "nrm" /\ r[2].off = l.nrm /\ r[2].size = z /\ r[2].n = 3
    <3>1. ReadNrm(t, l) = Field(l.nrm, z, 3)
      BY <2>1 DEF ReadNrm, Field
    <3> QED  BY <1>6, <3>1, FieldIs
  <2>3. z \in {1, 2, 4}
    BY <1>1, <1>6, <2>1, SizeIs
  <2>4. l.nrm % z = 0 /\ l.stride % z = 0
    BY <1>2, <2>1, <2>3 DEF Aligned
  <2>5. z * 3 \in Nat /\ l.nrm + z * 3 <= l.pos
    BY <1>2, <2>1, <2>3
  <2> QED  BY <1>2, <2>2, <2>3, <2>4, <2>5 DEF ReadWithin
<1>7. CASE r = <<"w", ReadWeights(t, l)>> /\ t.wt # 0
  <2>1. PICK z : z = Size(t.wt)
    OBVIOUS
  <2>2. PICK c \in Nat \ {0} : c = t.wc + 1
    BY <1>1
  <2>3. r[1] = "w" /\ r[2].off = 0 /\ r[2].size = z /\ r[2].n = c
    <3>1. ReadWeights(t, l) = Field(0, z, c)
      BY <1>2, <2>1, <2>2 DEF ReadWeights, Field
    <3> QED  BY <1>7, <3>1, FieldIs
  <2>4. z \in {1, 2, 4}
    BY <1>1, <1>7, <2>1, SizeIs
  <2>5. 0 % z = 0 /\ l.stride % z = 0
    BY <1>2, <2>1, <2>4 DEF Aligned
  <2>6. z * c \in Nat /\ 0 + z * c <= l.tc
    <3>1. WeightsEnd(t) = z * c
      BY <1>7, <2>1, <2>2 DEF WeightsEnd, Weights
    <3> QED  BY <1>2, <3>1
  <2>7. r[2].size * r[2].n = z * c
    BY <2>3
  <2> QED  BY <2>2, <2>3, <2>4, <2>5, <2>6, <2>7 DEF ReadWithin
<1> QED  BY <1>3, <1>4, <1>5, <1>6, <1>7 DEF Reads

(* Two reads meet in a byte only if they are of the same field, and each   *)
(* is within the vertex.                                                   *)
LEMMA ReadsApart ==
    ASSUME NEW t \in Types, NEW l, l = Layout(t), NEW r \in Reads(t, l), NEW q \in Reads(t, l),
           NEW j \in 0..r[2].size * r[2].n - 1, NEW k \in 0..q[2].size * q[2].n - 1
    PROVE  /\ r[2].off + j \in 0..l.stride - 1
           /\ r[2].off + j = q[2].off + k => r[1] = q[1]
<1>1. /\ l.tc \in Nat /\ l.col \in Nat /\ l.nrm \in Nat /\ l.pos \in Nat /\ l.stride \in Nat
      /\ l.tc <= l.col /\ l.col <= l.nrm /\ l.nrm <= l.pos /\ l.pos <= l.stride
  <2>1. Size(t.tc) \in Nat /\ Size(t.nrm) \in Nat /\ ColSize(t.col) \in Nat /\ PosSize(t) \in Nat
    <3>1. /\ t.tc \in 0..3 /\ t.nrm \in 0..3 /\ t.pos \in 0..3 /\ t.col \in {0} \cup 4..7
      BY DEF Types
    <3> QED  BY <3>1, SizeIs, ColSizeIs DEF PosSize
  <2> QED  BY <2>1, LayoutIs
<1>2. PICK m \in Nat : m = r[2].size * r[2].n
  BY ReadIs DEF ReadWithin
<1>3. PICK n \in Nat : n = q[2].size * q[2].n
  BY ReadIs DEF ReadWithin
<1>4. ReadWithin(l, r) /\ ReadWithin(l, q)
  BY ReadIs
<1>5. PICK a \in Nat, b \in Nat : a = r[2].off /\ b = q[2].off
  BY <1>4 DEF ReadWithin
<1>6. /\ \/ r[1] = "w" /\ a + m <= l.tc
         \/ r[1] = "tc" /\ l.tc <= a /\ a + m <= l.col
         \/ r[1] = "col" /\ l.col <= a /\ a + m <= l.nrm
         \/ r[1] = "nrm" /\ l.nrm <= a /\ a + m <= l.pos
         \/ r[1] = "pos" /\ l.pos <= a /\ a + m <= l.stride
      /\ \/ q[1] = "w" /\ b + n <= l.tc
         \/ q[1] = "tc" /\ l.tc <= b /\ b + n <= l.col
         \/ q[1] = "col" /\ l.col <= b /\ b + n <= l.nrm
         \/ q[1] = "nrm" /\ l.nrm <= b /\ b + n <= l.pos
         \/ q[1] = "pos" /\ l.pos <= b /\ b + n <= l.stride
  BY <1>2, <1>3, <1>4, <1>5 DEF ReadWithin
<1>7. j \in Nat /\ k \in Nat /\ j < m /\ k < n
  BY <1>2, <1>3
<1>8. a + j \in 0..l.stride - 1
  BY <1>1, <1>6, <1>7
<1>9. a + j = b + k => r[1] = q[1]
  BY <1>1, <1>6, <1>7
<1> QED  BY <1>5, <1>8, <1>9

-----------------------------------------------------------------------------

(* Bytes that were read, with the vertex and the field they were read for. *)
ByteAt(at, i, name) == [at |-> at, of |-> <<i, name>>]

LEMMA ByteIs ==
    ASSUME NEW at, NEW i, NEW name, NEW x, x = ByteAt(at, i, name)
    PROVE  x.at = at /\ x.of = <<i, name>> /\ x.of[1] = i
BY DEF ByteAt

LEMMA TimesPlusIs ==
    ASSUME NEW s \in Nat \ {0}, NEW i \in Int, NEW o \in 0..s - 1
    PROVE  (i * s + o) \div s = i
OBVIOUS

(* A byte of the i-th vertex, and a byte of the i-th index.                *)
VertexByte(x, i, l) ==
    \E r \in Reads(vtype, l) : \E k \in 0..r[2].size * r[2].n - 1 :
        x = ByteAt(Base + i * l.stride + (r[2].off + k), i, r[1])
IndexByte(x, i) ==
    \E k \in 0..Size(vtype.idx) - 1 : x = ByteAt(Base + i * Size(vtype.idx) + k, i, "index")

(* The inductive invariant.  Without indices the next vertex is one stride *)
(* further for each drawn so far, and every byte read is of a field of one *)
(* of them; with indices the same of the indices.                          *)
BytesInv ==
    /\ vtype \in Types /\ fetched \in Nat
    /\ vtype.idx = 0 =>
         /\ vaddr = Base + fetched * Layout(vtype).stride
         /\ \A x \in touched : \E i \in 0..fetched - 1 : VertexByte(x, i, Layout(vtype))
    /\ vtype.idx # 0 =>
         /\ iaddr = Base + fetched * Size(vtype.idx)
         /\ \A x \in touched : \E i \in 0..fetched - 1 : IndexByte(x, i)

LEMMA BaseIs == Base \in Nat /\ Base % 4 = 0 /\ VertexTypes \subseteq Types /\ Counts3D \subseteq Nat
BY VertexAssumption DEF Types

LEMMA TypeIs ==
    ASSUME NEW t \in Types
    PROVE  /\ t.idx \in 0..3 /\ Layout(t).stride \in Nat /\ Size(t.idx) \in Nat
           /\ t.idx # 0 => Size(t.idx) \in Nat \ {0} /\ Size(t.idx) = 2 ^ (t.idx - 1)
<1>1. t.idx \in 0..3
  BY DEF Types
<1>2. Layout(t).stride \in Nat
  BY LayoutIs
<1>3. t.idx # 0 => Size(t.idx) = 2 ^ (t.idx - 1)
  <2>1. t.idx = 1 => Size(t.idx) = 2 ^ (t.idx - 1)
    BY DEF Size
  <2>2. t.idx = 2 => Size(t.idx) = 2 ^ (t.idx - 1)
    BY DEF Size
  <2>3. t.idx = 3 => Size(t.idx) = 2 ^ (t.idx - 1)
    BY DEF Size
  <2> QED  BY <1>1, <2>1, <2>2, <2>3
<1> QED  BY <1>1, <1>2, <1>3, SizeIs

LEMMA FreshMesh ==
    ASSUME NEW t \in VertexTypes, vtype' = t, vaddr' = Base, iaddr' = Base, fetched' = 0,
           touched' = {}
    PROVE  BytesInv'
<1>1. t \in Types
  BY BaseIs
<1>2. 0 * Layout(t).stride = 0 /\ 0 * Size(t.idx) = 0
  BY <1>1, TypeIs
<1>3. Base = Base + 0
  BY BaseIs
<1> QED  BY <1>1, <1>2, <1>3 DEF BytesInv

LEMMA BytesInit == VertexInit => BytesInv
<1> SUFFICES ASSUME VertexInit PROVE BytesInv
  OBVIOUS
<1>1. vtype \in VertexTypes
  BY VertexAssumption DEF VertexInit, FirstType
<1>2. vtype \in Types
  BY <1>1, BaseIs
<1>3. 0 * Layout(vtype).stride = 0 /\ 0 * Size(vtype.idx) = 0
  BY <1>2, TypeIs
<1>4. Base = Base + 0
  BY BaseIs
<1> QED  BY <1>2, <1>3, <1>4 DEF BytesInv, VertexInit

LEMMA VerticesDrawn ==
    ASSUME BytesInv, vtype.idx = 0, NEW count \in Counts3D, DrawPrim(count)
    PROVE  BytesInv'
<1>1. PICK l : l = Layout(vtype)
  OBVIOUS
<1>2. PICK d : d = l.stride
  OBVIOUS
<1>3. /\ touched' = touched \cup BytesOf(vtype, count) /\ vaddr' = vaddr + count * d
      /\ fetched' = fetched + count /\ vtype' = vtype
  BY <1>1, <1>2 DEF DrawPrim
<1>4. /\ d \in Nat /\ count \in Nat /\ fetched \in Nat /\ vtype \in Types /\ Base \in Nat
      /\ vaddr = Base + fetched * d
  BY <1>1, <1>2, BaseIs, TypeIs DEF BytesInv
<1>5. vaddr' = Base + fetched' * d
  <2>1. (fetched + count) * d = fetched * d + count * d
    BY <1>4
  <2>2. fetched * d \in Nat /\ count * d \in Nat
    BY <1>4
  <2> QED  BY <1>3, <1>4, <2>1, <2>2
<1>6. ASSUME NEW x \in touched' PROVE \E i \in 0..fetched' - 1 : VertexByte(x, i, l)
  <2>1. CASE x \in touched
    <3>1. PICK i \in 0..fetched - 1 : VertexByte(x, i, l)
      BY <1>1, <2>1 DEF BytesInv
    <3>2. i \in 0..fetched' - 1
      BY <1>3, <1>4
    <3> QED  BY <3>1, <3>2
  <2>2. CASE x \in BytesOf(vtype, count)
    <3>1. PICK i \in 0..count - 1, r \in Reads(vtype, l) :
            \E k \in 0..r[2].size * r[2].n - 1 :
              x = ByteAt(VtxAddr(i, l) + r[2].off + k, fetched + i, r[1])
      BY <1>1, <2>2 DEF BytesOf, ByteAt
    <3>2. PICK k \in 0..r[2].size * r[2].n - 1 :
            x = ByteAt(VtxAddr(i, l) + r[2].off + k, fetched + i, r[1])
      BY <3>1
    <3>3. PICK o \in Nat : o = r[2].off
      BY <1>1, <1>4, ReadIs DEF ReadWithin
    <3>4. PICK j : j = fetched + i
      OBVIOUS
    <3>5. j \in 0..fetched' - 1
      BY <1>3, <1>4, <3>4
    <3>6. j * d = fetched * d + i * d /\ j * d \in Nat /\ fetched * d \in Nat /\ i * d \in Nat
      BY <1>4, <3>4
    <3>7. k \in Nat
      BY <1>1, <1>4, ReadIs DEF ReadWithin
    <3>8. VtxAddr(i, l) = Base + fetched * d + i * d
      BY <1>2, <1>4 DEF VtxAddr
    <3>9. VtxAddr(i, l) + r[2].off + k = Base + j * d + (r[2].off + k)
      BY <1>4, <3>3, <3>6, <3>7, <3>8
    <3>10. x = ByteAt(Base + j * l.stride + (r[2].off + k), j, r[1])
      BY <1>2, <3>2, <3>4, <3>9
    <3>11. VertexByte(x, j, l)
      BY <3>1, <3>2, <3>10 DEF VertexByte
    <3> QED  BY <3>5, <3>11
  <2> QED  BY <1>3, <2>1, <2>2
<1>7. \A x, i : VertexByte(x, i, l)' = VertexByte(x, i, l)
  BY <1>3 DEF VertexByte
<1>8. Layout(vtype)' = l /\ fetched' \in Nat
  BY <1>1, <1>3, <1>4
<1>9. \A x \in touched' : \E i \in 0..fetched' - 1 : VertexByte(x, i, Layout(vtype))'
  BY <1>6, <1>7, <1>8
<1>10. vaddr' = Base + fetched' * Layout(vtype)'.stride
  BY <1>2, <1>5, <1>8
<1> QED  BY <1>3, <1>4, <1>8, <1>9, <1>10 DEF BytesInv

LEMMA IndicesFollowed ==
    ASSUME BytesInv, vtype.idx # 0, NEW count \in Counts3D, DrawPrim(count)
    PROVE  BytesInv'
<1>1. PICK d : d = Size(vtype.idx)
  OBVIOUS
<1>2. /\ count \in Nat /\ fetched \in Nat /\ vtype \in Types /\ Base \in Nat
      /\ d \in Nat \ {0} /\ d = 2 ^ (vtype.idx - 1)
      /\ iaddr = Base + fetched * d
  BY <1>1, BaseIs, TypeIs DEF BytesInv
<1>3. /\ touched' = touched \cup IndexBytes(vtype, count) /\ iaddr' = iaddr + count * d
      /\ fetched' = fetched + count /\ vtype' = vtype
  BY <1>2 DEF DrawPrim
<1>4. iaddr' = Base + fetched' * d
  <2>1. (fetched + count) * d = fetched * d + count * d
    BY <1>2
  <2>2. fetched * d \in Nat /\ count * d \in Nat
    BY <1>2
  <2> QED  BY <1>2, <1>3, <2>1, <2>2
<1>5. ASSUME NEW x \in touched' PROVE \E i \in 0..fetched' - 1 : IndexByte(x, i)
  <2>1. CASE x \in touched
    <3>1. PICK i \in 0..fetched - 1 : IndexByte(x, i)
      BY <2>1 DEF BytesInv
    <3>2. i \in 0..fetched' - 1
      BY <1>2, <1>3
    <3> QED  BY <3>1, <3>2
  <2>2. CASE x \in IndexBytes(vtype, count)
    <3>1. PICK i \in 0..count - 1 : \E k \in 0..d - 1 :
            x = ByteAt(iaddr + i * d + k, fetched + i, "index")
      BY <1>1, <2>2 DEF IndexBytes, ByteAt
    <3>2. PICK k \in 0..d - 1 : x = ByteAt(iaddr + i * d + k, fetched + i, "index")
      BY <3>1
    <3>3. PICK j : j = fetched + i
      OBVIOUS
    <3>4. j \in 0..fetched' - 1
      BY <1>2, <1>3, <3>3
    <3>5. j * d = fetched * d + i * d /\ j * d \in Nat /\ fetched * d \in Nat /\ i * d \in Nat
      BY <1>2, <3>3
    <3>6. iaddr + i * d + k = Base + j * d + k
      BY <1>2, <3>5
    <3>7. IndexByte(x, j)
      BY <1>1, <3>2, <3>3, <3>6 DEF IndexByte
    <3> QED  BY <3>4, <3>7
  <2> QED  BY <1>3, <2>1, <2>2
<1>6. \A x, i : IndexByte(x, i)' = IndexByte(x, i)
  BY <1>3 DEF IndexByte
<1>7. \A x \in touched' : \E i \in 0..fetched' - 1 : IndexByte(x, i)'
  BY <1>5, <1>6
<1>8. fetched' \in Nat /\ Size(vtype'.idx) = d /\ vtype'.idx # 0
  <2>1. fetched' \in Nat
    BY <1>2, <1>3
  <2>2. vtype'.idx = vtype.idx
    BY <1>3
  <2>3. Size(vtype'.idx) = Size(vtype.idx)
    BY <2>2
  <2> QED  BY <1>1, <2>1, <2>2, <2>3
<1> QED  BY <1>2, <1>3, <1>4, <1>7, <1>8 DEF BytesInv

LEMMA BytesStep == BytesInv /\ [VertexNext]_vtxVars => BytesInv'
<1> SUFFICES ASSUME BytesInv, [VertexNext]_vtxVars PROVE BytesInv'
  OBVIOUS
<1>1. ASSUME NEW t \in VertexTypes, VertexType(t) PROVE BytesInv'
  BY <1>1, FreshMesh DEF VertexType
<1>2. ASSUME NEW n \in Counts3D, DrawPrim(n) PROVE BytesInv'
  BY <1>2, VerticesDrawn, IndicesFollowed
<1>3. CASE UNCHANGED vtxVars
  BY <1>3 DEF vtxVars, BytesInv, VertexByte, IndexByte
<1> QED  BY <1>1, <1>2, <1>3 DEF VertexNext

LEMMA BytesApart == BytesInv => OneFieldPerByte
<1> SUFFICES ASSUME BytesInv PROVE OneFieldPerByte
  OBVIOUS
<1>1. PICK l : l = Layout(vtype)
  OBVIOUS
<1>2. /\ vtype \in Types /\ fetched \in Nat /\ Base \in Nat /\ l.stride \in Nat
  BY <1>1, BaseIs, TypeIs DEF BytesInv
<1>3. PICK d : d = IF vtype.idx = 0 THEN l.stride ELSE Size(vtype.idx)
  OBVIOUS
<1>4. ASSUME NEW x \in touched
      PROVE  \E i \in 0..fetched - 1, o \in 0..d - 1 :
                x.at = Base + i * d + o /\ x.of[1] = i
  <2>1. CASE vtype.idx = 0
    <3>1. PICK i \in 0..fetched - 1 : VertexByte(x, i, l)
      BY <1>1, <2>1 DEF BytesInv
    <3>2a. PICK r \in Reads(vtype, l) : \E k \in 0..r[2].size * r[2].n - 1 :
            x = ByteAt(Base + i * l.stride + (r[2].off + k), i, r[1])
      BY <3>1 DEF VertexByte
    <3>2. PICK k \in 0..r[2].size * r[2].n - 1 :
            x = ByteAt(Base + i * l.stride + (r[2].off + k), i, r[1])
      BY <3>2a
    <3>3. r[2].off + k \in 0..l.stride - 1
      BY <1>1, <1>2, ReadsApart
    <3>4. x.at = Base + i * l.stride + (r[2].off + k) /\ x.of[1] = i
      BY <3>2, ByteIs
    <3> QED  BY <1>3, <2>1, <3>3, <3>4
  <2>2. CASE vtype.idx # 0
    <3>1. PICK i \in 0..fetched - 1 : IndexByte(x, i)
      BY <2>2 DEF BytesInv
    <3>2. PICK k \in 0..d - 1 : x = ByteAt(Base + i * d + k, i, "index")
      BY <1>3, <2>2, <3>1 DEF IndexByte
    <3> QED  BY <3>2, ByteIs
  <2> QED  BY <2>1, <2>2
<1>5. ASSUME NEW x \in touched PROVE (x.at - Base) \div d = x.of[1]
  <2>1. PICK i \in 0..fetched - 1, o \in 0..d - 1 : x.at = Base + i * d + o /\ x.of[1] = i
    BY <1>4
  <2>2. d \in Nat
    BY <1>2, <1>3, TypeIs
  <2>3. d \in Nat \ {0} /\ i \in Int /\ i * d \in Int
    BY <1>2, <2>2
  <2>4. x.at - Base = i * d + o
    BY <1>2, <2>1, <2>3
  <2>5. (i * d + o) \div d = i
    BY <2>3, TimesPlusIs
  <2> QED  BY <2>1, <2>4, <2>5
<1>6. ASSUME NEW x \in touched, NEW y \in touched, x.at = y.at PROVE x.of = y.of
  <2>1. x.of[1] = y.of[1]
    BY <1>5, <1>6
  <2>2. CASE vtype.idx = 0
    <3>1. PICK i \in 0..fetched - 1 : VertexByte(x, i, l)
      BY <1>1, <2>2 DEF BytesInv
    <3>2a. PICK r \in Reads(vtype, l) : \E j \in 0..r[2].size * r[2].n - 1 :
            x = ByteAt(Base + i * l.stride + (r[2].off + j), i, r[1])
      BY <3>1 DEF VertexByte
    <3>2. PICK j \in 0..r[2].size * r[2].n - 1 :
            x = ByteAt(Base + i * l.stride + (r[2].off + j), i, r[1])
      BY <3>2a
    <3>3. PICK m \in 0..fetched - 1 : VertexByte(y, m, l)
      BY <1>1, <2>2 DEF BytesInv
    <3>4a. PICK q \in Reads(vtype, l) : \E k \in 0..q[2].size * q[2].n - 1 :
            y = ByteAt(Base + m * l.stride + (q[2].off + k), m, q[1])
      BY <3>3 DEF VertexByte
    <3>4. PICK k \in 0..q[2].size * q[2].n - 1 :
            y = ByteAt(Base + m * l.stride + (q[2].off + k), m, q[1])
      BY <3>4a
    <3>5. /\ x.at = Base + i * l.stride + (r[2].off + j) /\ x.of = <<i, r[1]>> /\ x.of[1] = i
          /\ y.at = Base + m * l.stride + (q[2].off + k) /\ y.of = <<m, q[1]>> /\ y.of[1] = m
      BY <3>2, <3>4, ByteIs
    <3>6. i = m
      BY <2>1, <3>5
    <3>7. r[2].off + j \in Int /\ q[2].off + k \in Int /\ i * l.stride \in Int
      <4>1. r[2].off + j \in 0..l.stride - 1 /\ q[2].off + k \in 0..l.stride - 1
        BY <1>1, <1>2, ReadsApart
      <4> QED  BY <1>2, <4>1
    <3>8. r[2].off + j = q[2].off + k
      <4>1. PICK a, b, e : a = r[2].off + j /\ b = q[2].off + k /\ e = i * l.stride
        OBVIOUS
      <4>2. a \in Int /\ b \in Int /\ e \in Int /\ Base \in Int
        BY <1>2, <3>7, <4>1
      <4>3. Base + e + a = Base + e + b
        BY <1>6, <3>5, <3>6, <4>1
      <4> QED  BY <4>1, <4>2, <4>3
    <3>9. r[1] = q[1]
      BY <1>1, <1>2, <3>8, ReadsApart
    <3> QED  BY <3>5, <3>6, <3>9
  <2>3. CASE vtype.idx # 0
    <3>1. PICK i \in 0..fetched - 1 : IndexByte(x, i)
      BY <2>3 DEF BytesInv
    <3>2. PICK m \in 0..fetched - 1 : IndexByte(y, m)
      BY <2>3 DEF BytesInv
    <3>3. x.of = <<i, "index">> /\ x.of[1] = i /\ y.of = <<m, "index">> /\ y.of[1] = m
      BY <3>1, <3>2, ByteIs DEF IndexByte
    <3> QED  BY <2>1, <3>3
  <2> QED  BY <2>2, <2>3
<1>7. ASSUME NEW r \in Reads(vtype, l)
      PROVE  (Base + r[2].off) % r[2].size = 0 /\ l.stride % r[2].size = 0
  <2>1. ReadWithin(l, r)
    BY <1>1, <1>2, ReadIs
  <2>2. PICK o \in Nat, z \in {1, 2, 4} : o = r[2].off /\ z = r[2].size
    BY <2>1 DEF ReadWithin
  <2>3. o % z = 0 /\ Base % 4 = 0 /\ Base \in Nat
    BY <2>1, <2>2, BaseIs DEF ReadWithin
  <2>4. (Base + o) % z = 0
    <3>1. CASE z = 1
      BY <2>3, <3>1
    <3>2. CASE z = 2
      BY <2>3, <3>2
    <3>3. CASE z = 4
      BY <2>3, <3>3
    <3> QED  BY <2>2, <3>1, <3>2, <3>3
  <2> QED  BY <2>1, <2>2, <2>4 DEF ReadWithin
<1> QED  BY <1>1, <1>3, <1>5, <1>6, <1>7 DEF OneFieldPerByte

(* Whatever the vertex type, no byte of a mesh is read as part of two      *)
(* fields, of two vertices or of two indices.                              *)
THEOREM EachByteHasOneField == VertexSpec => []OneFieldPerByte
<1>1. VertexSpec => []BytesInv
  BY BytesInit, BytesStep, PTL DEF VertexSpec
<1> QED  BY <1>1, BytesApart, PTL

-----------------------------------------------------------------------------
(* Meshes of two triangles with an edge in common, for any grid, any       *)
(* vertices and each way of submitting and culling them.                   *)

(* Points of the grid, and twice the area of the triangle three of them    *)
(* make.                                                                   *)
Points == Int \X Int

LEMMA PointIs ==
    ASSUME NEW a \in Points
    PROVE  \E x, y \in Int : a = <<x, y>> /\ a[1] = x /\ a[2] = y
BY DEF Points

LEMMA CrossIs ==
    ASSUME NEW a \in Points, NEW b \in Points, NEW c \in Points
    PROVE  /\ Cross(a, b, c) \in Int
           /\ Cross(b, c, a) = Cross(a, b, c) /\ Cross(c, a, b) = Cross(a, b, c)
           /\ Cross(b, a, c) = -Cross(a, b, c)
<1>1. PICK ax, ay \in Int : a[1] = ax /\ a[2] = ay
  BY PointIs
<1>2. PICK bx, by \in Int : b[1] = bx /\ b[2] = by
  BY PointIs
<1>3. PICK cx, cy \in Int : c[1] = cx /\ c[2] = cy
  BY PointIs
<1>4. /\ Cross(a, b, c) = (bx - ax) * (cy - ay) - (cx - ax) * (by - ay)
      /\ Cross(b, c, a) = (cx - bx) * (ay - by) - (ax - bx) * (cy - by)
      /\ Cross(c, a, b) = (ax - cx) * (by - cy) - (bx - cx) * (ay - cy)
      /\ Cross(b, a, c) = (ax - bx) * (cy - by) - (cx - bx) * (ay - by)
  BY <1>1, <1>2, <1>3 DEF Cross
<1>5. (bx - ax) * (cy - ay) - (cx - ax) * (by - ay) \in Int
  OBVIOUS
<1>6. (cx - bx) * (ay - by) - (ax - bx) * (cy - by) = (bx - ax) * (cy - ay) - (cx - ax) * (by - ay)
  OBVIOUS
<1>7. (ax - cx) * (by - cy) - (bx - cx) * (ay - cy) = (bx - ax) * (cy - ay) - (cx - ax) * (by - ay)
  OBVIOUS
<1>8. (ax - bx) * (cy - by) - (cx - bx) * (ay - by) = -((bx - ax) * (cy - ay) - (cx - ax) * (by - ay))
  OBVIOUS
<1> QED  BY <1>4, <1>5, <1>6, <1>7, <1>8

(* The point q of the triangle abc, weighted by the areas across.          *)
LEMMA WeightsAre ==
    ASSUME NEW a \in Points, NEW b \in Points, NEW c \in Points, NEW q \in Points,
           NEW k \in {1, 2}
    PROVE  /\ Cross(a, b, c) = Cross(b, c, q) + Cross(c, a, q) + Cross(a, b, q)
           /\ Cross(a, b, c) * q[k] = Cross(b, c, q) * a[k] + Cross(c, a, q) * b[k] + Cross(a, b, q) * c[k]
<1>1. PICK ax, ay \in Int : a[1] = ax /\ a[2] = ay
  BY PointIs
<1>2. PICK bx, by \in Int : b[1] = bx /\ b[2] = by
  BY PointIs
<1>3. PICK cx, cy \in Int : c[1] = cx /\ c[2] = cy
  BY PointIs
<1>4. PICK qx, qy \in Int : q[1] = qx /\ q[2] = qy
  BY PointIs
<1>5. PICK n, u, v, w \in Int :
        /\ n = (bx - ax) * (cy - ay) - (cx - ax) * (by - ay)
        /\ u = (cx - bx) * (qy - by) - (qx - bx) * (cy - by)
        /\ v = (ax - cx) * (qy - cy) - (qx - cx) * (ay - cy)
        /\ w = (bx - ax) * (qy - ay) - (qx - ax) * (by - ay)
  OBVIOUS
<1>6. n = Cross(a, b, c) /\ u = Cross(b, c, q) /\ v = Cross(c, a, q) /\ w = Cross(a, b, q)
  BY <1>1, <1>2, <1>3, <1>4, <1>5 DEF Cross
<1>7. n = u + v + w
  BY <1>5
<1>8. n * qx = u * ax + v * bx + w * cx
  BY <1>5
<1>9. n * qy = u * ay + v * by + w * cy
  BY <1>5
<1>10. CASE k = 1
  BY <1>1, <1>2, <1>3, <1>4, <1>6, <1>7, <1>8, <1>10
<1>11. CASE k = 2
  BY <1>1, <1>2, <1>3, <1>4, <1>6, <1>7, <1>9, <1>11
<1> QED  BY <1>10, <1>11

(* What lies between the coordinates of the corners: so does their         *)
(* weighted mean.                                                          *)
LEMMA Weighted ==
    ASSUME NEW u \in Nat, NEW v \in Nat, NEW w \in Nat, u + v + w > 0,
           NEW x \in Int, NEW y \in Int, NEW z \in Int, NEW t \in Int,
           NEW l \in Int, NEW g \in Int,
           (u + v + w) * t = u * x + v * y + w * z,
           l <= x, l <= y, l <= z, x <= g, y <= g, z <= g
    PROVE  l <= t /\ t <= g
<1>1. PICK n \in Nat : n = u + v + w /\ n > 0
  OBVIOUS
<1>2. l <= t
  <2>1. u * (x - l) >= 0 /\ v * (y - l) >= 0 /\ w * (z - l) >= 0
    OBVIOUS
  <2>2. n * (t - l) = u * (x - l) + v * (y - l) + w * (z - l)
    BY <1>1
  <2>3. n * (t - l) >= 0
    BY <2>1, <2>2
  <2> QED  BY <1>1, <2>3
<1>3. t <= g
  <2>1. u * (g - x) >= 0 /\ v * (g - y) >= 0 /\ w * (g - z) >= 0
    OBVIOUS
  <2>2. n * (g - t) = u * (g - x) + v * (g - y) + w * (g - z)
    BY <1>1
  <2>3. n * (g - t) >= 0
    BY <2>1, <2>2
  <2> QED  BY <1>1, <2>3
<1> QED  BY <1>2, <1>3

LEMMA LeastIs ==
    ASSUME NEW x \in Int, NEW y \in Int, NEW z \in Int, NEW l, l = Least3(x, y, z),
           NEW g, g = Greatest3(x, y, z)
    PROVE  /\ l \in Int /\ l <= x /\ l <= y /\ l <= z
           /\ g \in Int /\ g >= x /\ g >= y /\ g >= z
<1>1. \E m \in {x, y, z} : \A n \in {x, y, z} : m <= n
  <2>1. CASE x <= y /\ x <= z
    BY <2>1
  <2>2. CASE y <= x /\ y <= z
    BY <2>2
  <2>3. CASE z <= x /\ z <= y
    BY <2>3
  <2> QED  BY <2>1, <2>2, <2>3
<1>2. \E m \in {x, y, z} : \A n \in {x, y, z} : m >= n
  <2>1. CASE x >= y /\ x >= z
    BY <2>1
  <2>2. CASE y >= x /\ y >= z
    BY <2>2
  <2>3. CASE z >= x /\ z >= y
    BY <2>3
  <2> QED  BY <2>1, <2>2, <2>3
<1>3. l \in {x, y, z} /\ \A n \in {x, y, z} : l <= n
  BY <1>1 DEF Least3
<1>4. g \in {x, y, z} /\ \A n \in {x, y, z} : g >= n
  BY <1>2 DEF Greatest3
<1> QED  BY <1>3, <1>4

(* A pixel whose centre is between two numbers is between the floor of the *)
(* one and the ceiling of the other.                                       *)
LEMMA RoundedOut ==
    ASSUME NEW S \in Nat \ {0}, NEW h \in Nat, h < S, NEW p \in Int, NEW l \in Int, NEW g \in Int,
           l <= p * S + h, p * S + h <= g
    PROVE  p >= l \div S /\ p <= -((-g) \div S)
<1>1. PICK e, r : e = l \div S /\ r = l % S
  OBVIOUS
<1>2. e \in Int /\ r \in 0..S - 1 /\ l = S * e + r
  BY <1>1
<1>3. p >= e
  <2> SUFFICES ASSUME p + 1 <= e PROVE FALSE
    BY <1>2
  <2>1. S * (p + 1) <= S * e
    BY <1>2
  <2> QED  BY <1>2, <2>1
<1>4. PICK n \in Int : n = -g
  OBVIOUS
<1>5. PICK d, s : d = n \div S /\ s = n % S
  OBVIOUS
<1>6. d \in Int /\ s \in 0..S - 1 /\ n = S * d + s
  BY <1>5
<1>7. p <= -d
  <2> SUFFICES ASSUME d >= 1 - p PROVE FALSE
    BY <1>6
  <2>1. S * d >= S * (1 - p)
    BY <1>6
  <2>2. S * (1 - p) = S - S * p
    OBVIOUS
  <2>3. -g >= S * d
    BY <1>4, <1>6
  <2>4. p * S = S * p /\ S * p \in Int
    OBVIOUS
  <2> QED  BY <1>6, <2>1, <2>2, <2>3, <2>4
<1> QED  BY <1>1, <1>3, <1>4, <1>5, <1>7

(* The centre of a pixel.                                                  *)
LEMMA CentreIs ==
    ASSUME NEW p \in Pixels
    PROVE  /\ Centre(p) \in Points /\ p \in Points
           /\ SUB \div 2 \in Nat /\ SUB \div 2 < SUB
           /\ \A k \in {1, 2} : p[k] \in Int /\ Centre(p)[k] = p[k] * SUB + SUB \div 2
<1>1. SUB \in Nat \ {0} /\ SUB \div 2 \in Nat /\ SUB \div 2 < SUB
  BY MeshAssumption
<1>2. p \in Points
  BY MeshAssumption DEF Pixels, Points
<1>3. PICK x, y \in Int : p[1] = x /\ p[2] = y
  BY <1>2, PointIs
<1>4. x * SUB + SUB \div 2 \in Int /\ y * SUB + SUB \div 2 \in Int
  BY <1>1
<1>5. Centre(p) = <<x * SUB + SUB \div 2, y * SUB + SUB \div 2>>
  BY <1>3 DEF Centre
<1> QED  BY <1>1, <1>2, <1>3, <1>4, <1>5 DEF Points

(* A pixel whose centre is in a triangle is in its box.                    *)
LEMMA BoxHolds ==
    ASSUME NEW a \in Points, NEW b \in Points, NEW c \in Points, NEW p \in Pixels,
           Cross(a, b, c) > 0, Cross(a, b, Centre(p)) >= 0, Cross(b, c, Centre(p)) >= 0,
           Cross(c, a, Centre(p)) >= 0
    PROVE  InBox(a, b, c, p) /\ InBox(a, c, b, p)
<1>1. PICK q \in Points : q = Centre(p)
  BY CentreIs
<1>2. PICK u, v, w \in Nat : u = Cross(b, c, q) /\ v = Cross(c, a, q) /\ w = Cross(a, b, q)
  BY <1>1, CrossIs
<1>3. \A k \in {1, 2} :
        /\ p[k] >= Least3(a[k], b[k], c[k]) \div SUB
        /\ p[k] <= -((-Greatest3(a[k], b[k], c[k])) \div SUB)
        /\ p[k] >= Least3(a[k], c[k], b[k]) \div SUB
        /\ p[k] <= -((-Greatest3(a[k], c[k], b[k])) \div SUB)
  <2> TAKE k \in {1, 2}
  <2>1. PICK x, y, z, t \in Int : x = a[k] /\ y = b[k] /\ z = c[k] /\ t = q[k]
    BY DEF Points
  <2>2. u + v + w > 0 /\ (u + v + w) * t = u * x + v * y + w * z
    BY <1>2, <2>1, WeightsAre
  <2>3. PICK m, o : m = p[k] /\ o = SUB \div 2
    OBVIOUS
  <2>4. m \in Int /\ o \in Nat /\ o < SUB /\ SUB \in Nat \ {0} /\ t = m * SUB + o
    BY <1>1, <2>1, <2>3, CentreIs, MeshAssumption
  <2>5. PICK l, g : l = Least3(x, y, z) /\ g = Greatest3(x, y, z)
    OBVIOUS
  <2>6. l \in Int /\ g \in Int /\ l <= t /\ t <= g
    <3>1. /\ l \in Int /\ l <= x /\ l <= y /\ l <= z
          /\ g \in Int /\ x <= g /\ y <= g /\ z <= g
      BY <2>5, LeastIs
    <3> QED  BY <2>2, <3>1, Weighted
  <2>7. PICK l2, g2 : l2 = Least3(x, z, y) /\ g2 = Greatest3(x, z, y)
    OBVIOUS
  <2>8. l2 \in Int /\ g2 \in Int /\ l2 <= t /\ t <= g2
    <3>1. /\ l2 \in Int /\ l2 <= x /\ l2 <= y /\ l2 <= z
          /\ g2 \in Int /\ x <= g2 /\ y <= g2 /\ z <= g2
      BY <2>7, LeastIs
    <3> QED  BY <2>2, <3>1, Weighted
  <2>9. m >= l \div SUB /\ m <= -((-g) \div SUB)
    BY <2>4, <2>6, RoundedOut
  <2>10. m >= l2 \div SUB /\ m <= -((-g2) \div SUB)
    BY <2>4, <2>8, RoundedOut
  <2> QED  BY <2>1, <2>3, <2>5, <2>7, <2>9, <2>10
<1> QED  BY <1>3 DEF InBox

-----------------------------------------------------------------------------
(* The pixels of a triangle that turns clockwise.                          *)
Region(a, b, c) ==
    {p \in Pixels : /\ OnOrIn(a, b, Centre(p)) /\ OnOrIn(b, c, Centre(p))
                    /\ OnOrIn(c, a, Centre(p))}

(* And of one that turns either way.                                       *)
Face(a, b, c) == IF Cross(a, b, c) > 0 THEN Region(a, b, c) ELSE Region(b, a, c)

LEMMA OnIsNotOut ==
    ASSUME NEW a \in Points, NEW b \in Points, NEW q \in Points, OnOrIn(a, b, q)
    PROVE  Cross(a, b, q) >= 0
<1>1. Cross(a, b, q) \in Int
  BY CrossIs
<1> QED  BY <1>1 DEF OnOrIn

(* raster_tri draws the whole region of a triangle, for the box it looks   *)
(* at holds it.                                                            *)
LEMMA CoveredIs ==
    ASSUME NEW a \in Points, NEW b \in Points, NEW c \in Points, Cross(a, b, c) # 0
    PROVE  Covered(a, b, c) = IF cull = -1 \/ Cross(a, b, c) > 0 THEN Face(a, b, c) ELSE {}
<1>1. /\ Cross(a, b, c) \in Int /\ Cross(b, a, c) = -Cross(a, b, c)
      /\ Cross(a, c, b) = -Cross(a, b, c)
  BY CrossIs
<1>2. CASE Cross(a, b, c) > 0
  <2>1. ASSUME NEW p \in Region(a, b, c) PROVE InBox(a, b, c, p)
    <3>1. p \in Pixels /\ Centre(p) \in Points
      BY CentreIs DEF Region
    <3>2. /\ Cross(a, b, Centre(p)) >= 0 /\ Cross(b, c, Centre(p)) >= 0
          /\ Cross(c, a, Centre(p)) >= 0
      BY <3>1, OnIsNotOut DEF Region
    <3> QED  BY <1>2, <3>1, <3>2, BoxHolds
  <2>2. ~ (Cross(a, b, c) < 0)
    BY <1>1, <1>2
  <2>3. Covered(a, b, c) =
          {p \in Pixels : /\ InBox(a, b, c, p) /\ OnOrIn(a, b, Centre(p))
                          /\ OnOrIn(b, c, Centre(p)) /\ OnOrIn(c, a, Centre(p))}
    BY <1>2, <2>2 DEF Covered
  <2>4. Covered(a, b, c) = Region(a, b, c)
    BY <2>1, <2>3 DEF Region
  <2> QED  BY <1>2, <2>4 DEF Face
<1>3. CASE Cross(a, b, c) < 0
  <2>1. ASSUME NEW p \in Region(b, a, c) PROVE InBox(a, b, c, p)
    <3>1. p \in Pixels /\ Centre(p) \in Points
      BY CentreIs DEF Region
    <3>2. /\ Cross(b, a, Centre(p)) >= 0 /\ Cross(a, c, Centre(p)) >= 0
          /\ Cross(c, b, Centre(p)) >= 0
      BY <3>1, OnIsNotOut DEF Region
    <3>3. Cross(a, c, b) > 0
      BY <1>1, <1>3
    <3> QED  BY <3>1, <3>2, <3>3, BoxHolds
  <2>2. ~ (Cross(a, b, c) > 0)
    BY <1>1, <1>3
  <2>3. CASE cull = -1
    <3>1. Covered(a, b, c) =
            {p \in Pixels : /\ InBox(a, b, c, p) /\ OnOrIn(a, c, Centre(p))
                            /\ OnOrIn(c, b, Centre(p)) /\ OnOrIn(b, a, Centre(p))}
      BY <1>3, <2>2, <2>3 DEF Covered
    <3>2. Covered(a, b, c) = Region(b, a, c)
      BY <2>1, <3>1 DEF Region
    <3> QED  BY <2>2, <2>3, <3>2 DEF Face
  <2>4. CASE cull # -1
    BY <2>2, <2>4 DEF Covered
  <2> QED  BY <2>3, <2>4
<1> QED  BY <1>1, <1>2, <1>3

LEMMA FaceTurns ==
    ASSUME NEW a \in Points, NEW b \in Points, NEW c \in Points, Cross(a, b, c) # 0
    PROVE  Face(b, c, a) = Face(a, b, c) /\ Face(b, a, c) = Face(a, b, c)
<1>1. /\ Cross(a, b, c) \in Int /\ Cross(b, c, a) = Cross(a, b, c)
      /\ Cross(b, a, c) = -Cross(a, b, c)
  BY CrossIs
<1>2. Region(b, c, a) = Region(a, b, c) /\ Region(c, b, a) = Region(b, a, c)
  BY DEF Region
<1>3. CASE Cross(a, b, c) > 0
  <2>1. ~ (Cross(b, a, c) > 0)
    BY <1>1, <1>3
  <2> QED  BY <1>1, <1>2, <1>3, <2>1 DEF Face
<1>4. CASE Cross(a, b, c) < 0
  <2>1. Cross(b, a, c) > 0 /\ ~ (Cross(a, b, c) > 0)
    BY <1>1, <1>4
  <2> QED  BY <1>1, <1>2, <2>1 DEF Face
<1> QED  BY <1>1, <1>3, <1>4

-----------------------------------------------------------------------------
(* A centre on the edge ab, strictly between its ends, is on the inner side*)
(* of the other edges of a triangle on it.                                 *)
LEMMA BetweenEnds ==
    ASSUME NEW dx \in Int, NEW dy \in Int, NEW ex \in Int, NEW ey \in Int,
           NEW gx \in Int, NEW gy \in Int,
           dx * ey - ex * dy = 0, ex * (dx - ex) + ey * (dy - ey) > 0,
           dx * gy - gx * dy > 0
    PROVE  /\ ex * gy - gx * ey > 0
           /\ (dx * gy - gx * dy) - (ex * gy - gx * ey) > 0
<1>1. PICK dd, de, ee, dg, eg \in Int :
        /\ dd = dx * dx + dy * dy /\ de = dx * ex + dy * ey /\ ee = ex * ex + ey * ey
        /\ dg = dx * gy - gx * dy /\ eg = ex * gy - gx * ey
  OBVIOUS
<1>2. ee >= 0 /\ dd >= 0
  BY <1>1
<1>3. de > ee
  BY <1>1
<1>4. PICK c \in Int : c = dx * ey - ex * dy /\ c = 0
  OBVIOUS
<1>5. dd * eg = de * dg - c * (dx * gx + dy * gy)
  BY <1>1, <1>4
<1>6. dd * eg = de * dg
  <2>1. dx * gx + dy * gy \in Int
    OBVIOUS
  <2> QED  BY <1>4, <1>5, <2>1
<1>7. dd * ee = de * de + c * c
  BY <1>1, <1>4
<1>8. dd * ee = de * de
  BY <1>4, <1>7
<1>9. de > 0 /\ dg > 0
  BY <1>1, <1>2, <1>3
<1>10. dd > 0
  <2>1. CASE dd = 0
    <3>1. de * de > 0
      BY <1>9
    <3> QED  BY <1>8, <2>1, <3>1
  <2> QED  BY <1>2, <2>1
<1>11. eg > 0
  <2>1. de * dg > 0
    BY <1>9
  <2> QED  BY <1>6, <1>10, <2>1
<1>12. dd > de
  <2> SUFFICES ASSUME dd <= de PROVE FALSE
    OBVIOUS
  <2>1. dd * ee <= de * ee
    BY <1>2
  <2>2. de * ee < de * de
    BY <1>3, <1>9
  <2>3. dd * ee \in Int /\ de * ee \in Int /\ de * de \in Int
    OBVIOUS
  <2> QED  BY <1>8, <2>1, <2>2, <2>3
<1>13. dg - eg > 0
  <2>1. dd * (dg - eg) = (dd - de) * dg
    BY <1>6
  <2>2. (dd - de) * dg > 0
    BY <1>9, <1>12
  <2> QED  BY <1>10, <2>1, <2>2
<1> QED  BY <1>1, <1>11, <1>13

LEMMA EdgeIsInner ==
    ASSUME NEW a \in Points, NEW b \in Points, NEW f \in Points, NEW q \in Points,
           Between(a, b, q), Cross(a, b, f) > 0
    PROVE  Cross(b, f, q) > 0 /\ Cross(f, a, q) > 0
<1>1. PICK ax, ay \in Int : a[1] = ax /\ a[2] = ay
  BY PointIs
<1>2. PICK bx, by \in Int : b[1] = bx /\ b[2] = by
  BY PointIs
<1>3. PICK fx, fy \in Int : f[1] = fx /\ f[2] = fy
  BY PointIs
<1>4. PICK qx, qy \in Int : q[1] = qx /\ q[2] = qy
  BY PointIs
<1>5. PICK dx, dy, ex, ey, gx, gy \in Int :
        /\ dx = bx - ax /\ dy = by - ay /\ ex = qx - ax /\ ey = qy - ay
        /\ gx = fx - ax /\ gy = fy - ay
  OBVIOUS
<1>6. dx * ey - ex * dy = 0 /\ dx * gy - gx * dy > 0
  BY <1>1, <1>2, <1>3, <1>4, <1>5 DEF Between, Cross
<1>7. (ax - qx) * (bx - qx) + (ay - qy) * (by - qy) < 0
  BY <1>1, <1>2, <1>4 DEF Between
<1>8. ex * (dx - ex) + ey * (dy - ey) > 0
  BY <1>5, <1>7
<1>9. /\ ex * gy - gx * ey > 0
      /\ (dx * gy - gx * dy) - (ex * gy - gx * ey) > 0
  BY <1>6, <1>8, BetweenEnds
<1>10. Cross(f, a, q) = (ax - fx) * (qy - fy) - (qx - fx) * (ay - fy)
  BY <1>1, <1>3, <1>4 DEF Cross
<1>11. (ax - fx) * (qy - fy) - (qx - fx) * (ay - fy) = ex * gy - gx * ey
  BY <1>5
<1>12. Cross(b, f, q) = (fx - bx) * (qy - by) - (qx - bx) * (fy - by)
  BY <1>2, <1>3, <1>4 DEF Cross
<1>13. (fx - bx) * (qy - by) - (qx - bx) * (fy - by)
         = (dx * gy - gx * dy) - (ex * gy - gx * ey) - (dx * ey - ex * dy)
  BY <1>5
<1> QED  BY <1>6, <1>9, <1>10, <1>11, <1>12, <1>13

(* Two triangles on either side of ab, as a centre sees them.              *)
LEMMA EitherSide ==
    ASSUME NEW a \in Points, NEW b \in Points, NEW f \in Points, NEW l \in Points,
           NEW q \in Points, Cross(a, b, f) > 0, Cross(a, b, l) < 0,
           NEW U \in BOOLEAN, U = (OnOrIn(a, b, q) /\ OnOrIn(b, f, q) /\ OnOrIn(f, a, q)),
           NEW V \in BOOLEAN, V = (OnOrIn(b, a, q) /\ OnOrIn(a, l, q) /\ OnOrIn(l, b, q))
    PROVE  /\ ~ (U /\ V)
           /\ Inside(a, b, f, q) => U
           /\ Inside(a, b, l, q) => V
           /\ Between(a, b, q) => U \/ V
           /\ U => Within(a, b, f, q)
           /\ V => Within(a, b, l, q)
<1>1. PICK n, u, v \in Int : n = Cross(a, b, q) /\ u = Cross(b, f, q) /\ v = Cross(f, a, q)
  BY CrossIs
<1>2. PICK x, y \in Int : x = Cross(a, l, q) /\ y = Cross(l, b, q)
  BY CrossIs
<1>3. PICK A, B \in Int : A = Cross(a, b, f) /\ B = Cross(a, b, l) /\ A > 0 /\ B < 0
  BY CrossIs
<1>4. /\ Cross(b, a, q) = -n /\ Cross(b, l, q) = -y /\ Cross(l, a, q) = -x
      /\ Cross(b, a, l) = -B
  BY <1>1, <1>2, <1>3, CrossIs
<1>5. PICK e \in {0, 1} : /\ OnOrIn(a, b, q) <=> n > 0 \/ (n = 0 /\ e = 1)
                          /\ OnOrIn(b, a, q) <=> n < 0 \/ (n = 0 /\ e = 0)
  <2>1. PICK ax, ay \in Int : a[1] = ax /\ a[2] = ay
    BY PointIs
  <2>2. PICK bx, by \in Int : b[1] = bx /\ b[2] = by
    BY PointIs
  <2>3. ax # bx \/ ay # by
    <3> SUFFICES ASSUME ax = bx, ay = by PROVE FALSE
      OBVIOUS
    <3>1. PICK fx, fy \in Int : f[1] = fx /\ f[2] = fy
      BY PointIs
    <3>2. A = (bx - ax) * (fy - ay) - (fx - ax) * (by - ay)
      BY <1>3, <2>1, <2>2, <3>1 DEF Cross
    <3>3. bx - ax = 0 /\ by - ay = 0
      OBVIOUS
    <3>4. A = 0
      BY <3>2, <3>3
    <3> QED  BY <1>3, <3>4
  <2>4. /\ TopLeft(a, b) <=> by < ay \/ (by = ay /\ bx > ax)
        /\ TopLeft(b, a) <=> ay < by \/ (ay = by /\ ax > bx)
    BY <2>1, <2>2 DEF TopLeft
  <2>5. TopLeft(b, a) <=> ~ TopLeft(a, b)
    BY <2>3, <2>4
  <2>6. -n > 0 <=> n < 0
    OBVIOUS
  <2>7. -n = 0 <=> n = 0
    OBVIOUS
  <2>8. /\ OnOrIn(a, b, q) <=> n > 0 \/ (n = 0 /\ TopLeft(a, b))
        /\ OnOrIn(b, a, q) <=> n < 0 \/ (n = 0 /\ TopLeft(b, a))
    BY <1>1, <1>4, <2>6, <2>7 DEF OnOrIn
  <2>9. CASE TopLeft(a, b)
    <3>1. /\ OnOrIn(a, b, q) <=> n > 0 \/ (n = 0 /\ 1 = 1)
          /\ OnOrIn(b, a, q) <=> n < 0 \/ (n = 0 /\ 1 = 0)
      BY <2>5, <2>8, <2>9
    <3> QED  BY <3>1
  <2>10. CASE ~ TopLeft(a, b)
    <3>1. /\ OnOrIn(a, b, q) <=> n > 0 \/ (n = 0 /\ 0 = 1)
          /\ OnOrIn(b, a, q) <=> n < 0 \/ (n = 0 /\ 0 = 0)
      BY <2>5, <2>8, <2>10
    <3> QED  BY <3>1
  <2> QED  BY <2>9, <2>10
<1>6. /\ U <=> OnOrIn(a, b, q) /\ OnOrIn(b, f, q) /\ OnOrIn(f, a, q)
      /\ V <=> OnOrIn(b, a, q) /\ OnOrIn(a, l, q) /\ OnOrIn(l, b, q)
  BY Zenon
<1>7. ~ (OnOrIn(a, b, q) /\ OnOrIn(b, a, q))
  BY <1>5
<1>8. /\ u > 0 => OnOrIn(b, f, q)
      /\ v > 0 => OnOrIn(f, a, q)
      /\ x > 0 => OnOrIn(a, l, q)
      /\ y > 0 => OnOrIn(l, b, q)
      /\ OnOrIn(b, f, q) => u >= 0
      /\ OnOrIn(f, a, q) => v >= 0
      /\ OnOrIn(a, l, q) => x >= 0
      /\ OnOrIn(l, b, q) => y >= 0
  BY <1>1, <1>2 DEF OnOrIn
<1>9. ~ (U /\ V)
  BY <1>6, <1>7, Zenon
<1>10. ASSUME Inside(a, b, f, q) PROVE U
  <2>1. n * A > 0 /\ u * A > 0 /\ v * A > 0
    BY <1>1, <1>3, <1>10 DEF Inside
  <2>2. n > 0 /\ u > 0 /\ v > 0
    BY <1>3, <2>1
  <2>3. OnOrIn(a, b, q) /\ OnOrIn(b, f, q) /\ OnOrIn(f, a, q)
    BY <1>5, <1>8, <2>2
  <2> QED  BY <1>6, <2>3, Zenon
<1>11. ASSUME Inside(a, b, l, q) PROVE V
  <2>1. n * B > 0 /\ (-y) * B > 0 /\ (-x) * B > 0
    BY <1>1, <1>3, <1>4, <1>11 DEF Inside
  <2>2. n < 0 /\ y > 0 /\ x > 0
    BY <1>3, <2>1
  <2>3. OnOrIn(b, a, q) /\ OnOrIn(a, l, q) /\ OnOrIn(l, b, q)
    BY <1>5, <1>8, <2>2
  <2> QED  BY <1>6, <2>3, Zenon
<1>12. ASSUME Between(a, b, q) PROVE U \/ V
  <2>1. n = 0
    BY <1>1, <1>12 DEF Between
  <2>2. u > 0 /\ v > 0
    BY <1>1, <1>3, <1>12, EdgeIsInner
  <2>3. Between(b, a, q)
    <3>1. Cross(b, a, q) = 0
      <4>1. -n = 0 <=> n = 0
        OBVIOUS
      <4> QED  BY <1>4, <2>1, <4>1, Zenon
    <3>2. PICK ax, ay \in Int : a[1] = ax /\ a[2] = ay
      BY PointIs
    <3>3. PICK bx, by \in Int : b[1] = bx /\ b[2] = by
      BY PointIs
    <3>4. PICK qx, qy \in Int : q[1] = qx /\ q[2] = qy
      BY PointIs
    <3>5. (ax - qx) * (bx - qx) + (ay - qy) * (by - qy) < 0
      BY <1>12, <3>2, <3>3, <3>4 DEF Between
    <3>6. (bx - qx) * (ax - qx) + (by - qy) * (ay - qy) < 0
      BY <3>5
    <3> QED  BY <3>1, <3>2, <3>3, <3>4, <3>6 DEF Between
  <2>4. Cross(b, a, l) > 0
    BY <1>3, <1>4
  <2>5. x > 0 /\ y > 0
    BY <1>2, <2>3, <2>4, EdgeIsInner
  <2>6. \/ OnOrIn(a, b, q) /\ OnOrIn(b, f, q) /\ OnOrIn(f, a, q)
        \/ OnOrIn(b, a, q) /\ OnOrIn(a, l, q) /\ OnOrIn(l, b, q)
    BY <1>5, <1>8, <2>1, <2>2, <2>5
  <2> QED  BY <1>6, <2>6, Zenon
<1>13. ASSUME U PROVE Within(a, b, f, q)
  <2>1. OnOrIn(a, b, q) /\ OnOrIn(b, f, q) /\ OnOrIn(f, a, q)
    BY <1>6, <1>13, Zenon
  <2>2. n >= 0 /\ u >= 0 /\ v >= 0
    BY <1>5, <1>8, <2>1
  <2>3. n * A >= 0 /\ u * A >= 0 /\ v * A >= 0
    BY <1>3, <2>2
  <2> QED  BY <1>1, <1>3, <2>3 DEF Within
<1>14. ASSUME V PROVE Within(a, b, l, q)
  <2>1. OnOrIn(b, a, q) /\ OnOrIn(a, l, q) /\ OnOrIn(l, b, q)
    BY <1>6, <1>14, Zenon
  <2>2. n <= 0 /\ y >= 0 /\ x >= 0
    BY <1>5, <1>8, <2>1
  <2>3. n * B >= 0 /\ (-y) * B >= 0 /\ (-x) * B >= 0
    BY <1>3, <2>2
  <2> QED  BY <1>1, <1>3, <1>4, <2>3 DEF Within
<1> QED  BY <1>9, <1>10, <1>11, <1>12, <1>13, <1>14

LEMMA MirrorIs ==
    ASSUME NEW a \in Points, NEW b \in Points, NEW c \in Points, NEW q \in Points
    PROVE  /\ Inside(b, a, c, q) <=> Inside(a, b, c, q)
           /\ Within(b, a, c, q) <=> Within(a, b, c, q)
           /\ Between(b, a, q) <=> Between(a, b, q)
<1>1. PICK n, u, v, A \in Int :
        n = Cross(a, b, q) /\ u = Cross(b, c, q) /\ v = Cross(c, a, q) /\ A = Cross(a, b, c)
  BY CrossIs
<1>2. /\ Cross(b, a, q) = -n /\ Cross(c, b, q) = -u /\ Cross(a, c, q) = -v
      /\ Cross(b, a, c) = -A
  BY <1>1, CrossIs
<1>3. (-n) * (-A) = n * A /\ (-u) * (-A) = u * A /\ (-v) * (-A) = v * A
  OBVIOUS
<1>4. /\ Inside(b, a, c, q) <=> (-n) * (-A) > 0 /\ (-v) * (-A) > 0 /\ (-u) * (-A) > 0
      /\ Inside(a, b, c, q) <=> n * A > 0 /\ u * A > 0 /\ v * A > 0
      /\ Within(b, a, c, q) <=> (-n) * (-A) >= 0 /\ (-v) * (-A) >= 0 /\ (-u) * (-A) >= 0
      /\ Within(a, b, c, q) <=> n * A >= 0 /\ u * A >= 0 /\ v * A >= 0
  BY <1>1, <1>2 DEF Inside, Within
<1>5. Between(b, a, q) <=> Between(a, b, q)
  <2>1. PICK ax, ay \in Int : a[1] = ax /\ a[2] = ay
    BY PointIs
  <2>2. PICK bx, by \in Int : b[1] = bx /\ b[2] = by
    BY PointIs
  <2>3. PICK qx, qy \in Int : q[1] = qx /\ q[2] = qy
    BY PointIs
  <2>4. /\ Between(a, b, q) <=> n = 0 /\ (ax - qx) * (bx - qx) + (ay - qy) * (by - qy) < 0
        /\ Between(b, a, q) <=> -n = 0 /\ (bx - qx) * (ax - qx) + (by - qy) * (ay - qy) < 0
    BY <1>1, <1>2, <2>1, <2>2, <2>3 DEF Between
  <2>5. (bx - qx) * (ax - qx) + (by - qy) * (ay - qy)
          = (ax - qx) * (bx - qx) + (ay - qy) * (by - qy)
    OBVIOUS
  <2> QED  BY <2>4, <2>5
<1> QED  BY <1>3, <1>4, <1>5

(* Two faces with an edge in common, of triangles on either side of it.    *)
LEMMA FacesMeet ==
    ASSUME NEW a \in Points, NEW b \in Points, NEW f \in Points, NEW l \in Points,
           NEW s \in Int, s = Cross(a, b, f), s # 0, s * Cross(a, b, l) < 0,
           NEW p \in Pixels, NEW q, q = Centre(p)
    PROVE  /\ ~ (p \in Face(a, b, f) /\ p \in Face(a, b, l))
           /\ Inside(a, b, f, q) \/ Inside(a, b, l, q) \/ Between(a, b, q)
                => p \in Face(a, b, f) \/ p \in Face(a, b, l)
           /\ p \in Face(a, b, f) => Within(a, b, f, q)
           /\ p \in Face(a, b, l) => Within(a, b, l, q)
<1>1. q \in Points
  BY CentreIs
<1>2. PICK t \in Int : t = Cross(a, b, l)
  BY CrossIs
<1>3. Cross(b, a, f) = -s /\ Cross(b, a, l) = -t
  BY <1>2, CrossIs
<1>4. CASE s > 0
  <2>1. t < 0
    BY <1>2, <1>4
  <2>2. PICK U, V \in BOOLEAN :
          /\ U = (OnOrIn(a, b, q) /\ OnOrIn(b, f, q) /\ OnOrIn(f, a, q))
          /\ V = (OnOrIn(b, a, q) /\ OnOrIn(a, l, q) /\ OnOrIn(l, b, q))
    OBVIOUS
  <2>3. Face(a, b, f) = Region(a, b, f) /\ Face(a, b, l) = Region(b, a, l)
    BY <1>2, <1>4, <2>1 DEF Face
  <2>4. (p \in Face(a, b, f) <=> U) /\ (p \in Face(a, b, l) <=> V)
    BY <2>2, <2>3 DEF Region
  <2>5. /\ ~ (U /\ V)
        /\ Inside(a, b, f, q) => U
        /\ Inside(a, b, l, q) => V
        /\ Between(a, b, q) => U \/ V
        /\ U => Within(a, b, f, q)
        /\ V => Within(a, b, l, q)
    BY <1>1, <1>2, <1>4, <2>1, <2>2, EitherSide
  <2> QED  BY <2>4, <2>5
<1>5. CASE s < 0
  <2>1. t > 0
    BY <1>2, <1>5
  <2>2. PICK U, V \in BOOLEAN :
          /\ U = (OnOrIn(b, a, q) /\ OnOrIn(a, f, q) /\ OnOrIn(f, b, q))
          /\ V = (OnOrIn(a, b, q) /\ OnOrIn(b, l, q) /\ OnOrIn(l, a, q))
    OBVIOUS
  <2>3. Face(a, b, f) = Region(b, a, f) /\ Face(a, b, l) = Region(a, b, l)
    BY <1>2, <1>5, <2>1 DEF Face
  <2>4. (p \in Face(a, b, f) <=> U) /\ (p \in Face(a, b, l) <=> V)
    BY <2>2, <2>3 DEF Region
  <2>5. Cross(b, a, f) > 0 /\ Cross(b, a, l) < 0
    BY <1>3, <1>5, <2>1
  <2>6. /\ ~ (U /\ V)
        /\ Inside(b, a, f, q) => U
        /\ Inside(b, a, l, q) => V
        /\ Between(b, a, q) => U \/ V
        /\ U => Within(b, a, f, q)
        /\ V => Within(b, a, l, q)
    BY <1>1, <2>2, <2>5, EitherSide
  <2>7. /\ Inside(b, a, f, q) <=> Inside(a, b, f, q)
        /\ Inside(b, a, l, q) <=> Inside(a, b, l, q)
        /\ Between(b, a, q) <=> Between(a, b, q)
        /\ Within(b, a, f, q) <=> Within(a, b, f, q)
        /\ Within(b, a, l, q) <=> Within(a, b, l, q)
    BY <1>1, MirrorIs
  <2> QED  BY <2>4, <2>6, <2>7
<1> QED  BY <1>4, <1>5

-----------------------------------------------------------------------------
(* How often a triangle covers a pixel, and the vertices of two.           *)
Once(p, S) == IF p \in S THEN 1 ELSE 0
CoverOf(vs, i) == Covered(Triangle(vs, i)[1], Triangle(vs, i)[2], Triangle(vs, i)[3])
Total(k) == IF k = "list" THEN 6 ELSE 4

FirstOf(vs)  == IF Len(vs) >= 3 THEN CoverOf(vs, 2) ELSE {}
SecondOf(vs) == IF Len(vs) = Total(primKind) THEN CoverOf(vs, Total(primKind) - 1) ELSE {}

(* The inductive invariant: a pixel was covered by the triangles complete  *)
(* so far, and a list's second shares an edge with its first.              *)
MeshInv ==
    /\ verts \in Seq(Corners) /\ Len(verts) <= Total(primKind)
    /\ primKind \in {"none", "list", "strip", "fan"} /\ cull \in {-1, 0, 1}
    /\ primKind = "none" => verts = <<>>
    /\ primKind = "list" /\ Len(verts) >= 4 => verts[4] = verts[3]
    /\ primKind = "list" /\ Len(verts) >= 5 => verts[5] = verts[2]
    /\ hits = [p \in Pixels |-> Once(p, FirstOf(verts)) + Once(p, SecondOf(verts))]

(* It holds in every state.                                                *)
LEMMA MeshStarts == MeshInit => MeshInv
<1> SUFFICES ASSUME MeshInit PROVE MeshInv
  OBVIOUS
<1>1. verts = <<>> /\ Len(verts) = 0 /\ verts \in Seq(Corners) /\ primKind = "none" /\ cull = -1
  BY DEF MeshInit
<1>2. FirstOf(verts) = {} /\ SecondOf(verts) = {}
  BY <1>1 DEF FirstOf, SecondOf, Total
<1>3. hits = [p \in Pixels |-> 0]
  BY DEF MeshInit
<1> QED  BY <1>1, <1>2, <1>3 DEF MeshInv, Once, Total

LEMMA SetPrimKeeps ==
    ASSUME MeshInv, NEW k \in {"list", "strip", "fan"}, NEW c \in {-1, 0, 1}, SetPrim(k, c)
    PROVE  MeshInv'
<1>1. /\ verts = <<>> /\ Len(verts) = 0 /\ verts' = verts /\ hits' = hits
      /\ primKind' = k /\ cull' = c /\ primKind = "none"
  BY DEF SetPrim, MeshInv
<1>2. FirstOf(verts) = {} /\ SecondOf(verts) = {} /\ FirstOf(verts)' = {} /\ SecondOf(verts)' = {}
  BY <1>1 DEF FirstOf, SecondOf, Total
<1>3. hits' = [p \in Pixels |-> Once(p, FirstOf(verts)') + Once(p, SecondOf(verts)')]
  BY <1>1, <1>2 DEF MeshInv
<1> QED  BY <1>1, <1>2, <1>3 DEF MeshInv, Total

LEMMA CoverKept ==
    ASSUME NEW vs, NEW i, primKind' = primKind, cull' = cull
    PROVE  CoverOf(vs, i)' = CoverOf(vs, i)
BY DEF CoverOf, Triangle, Covered, Flip

LEMMA CoverOfFirst ==
    ASSUME NEW vs \in Seq(Corners), Len(vs) >= 3, NEW v \in Corners
    PROVE  CoverOf(Append(vs, v), 2) = CoverOf(vs, 2)
<1>1. PICK n \in Nat : n = Len(vs) /\ n >= 3
  OBVIOUS
<1>2. PICK ws : ws = Append(vs, v)
  OBVIOUS
<1>3. ws[1] = vs[1] /\ ws[2] = vs[2] /\ ws[3] = vs[3]
  BY <1>1, <1>2
<1>4. ws[2 - 1] = vs[2 - 1] /\ ws[2 + 1] = vs[2 + 1]
  BY <1>3
<1>5. Triangle(ws, 2) = Triangle(vs, 2)
  BY <1>3, <1>4, Zenon DEF Triangle
<1> QED  BY <1>2, <1>5 DEF CoverOf

LEMMA VertexKeeps ==
    ASSUME MeshInv, NEW v \in Corners, Vertex(v)
    PROVE  MeshInv'
<1>1. PICK n \in Nat : n = Len(verts) /\ verts \in Seq(Corners)
  BY DEF MeshInv
<1>2. PICK ws : ws = Append(verts, v)
  OBVIOUS
<1>3. /\ ws \in Seq(Corners) /\ Len(ws) = n + 1 /\ ws[n + 1] = v
      /\ \A i \in 1..n : ws[i] = verts[i]
  BY <1>1, <1>2
<1>4. PICK tot \in {4, 6} : tot = Total(primKind) /\ (primKind = "list" <=> tot = 6)
  BY DEF Total
<1>5. /\ verts' = ws /\ primKind' = primKind /\ cull' = cull /\ n < tot /\ primKind # "none"
      /\ primKind = "list" /\ n = 3 => v = verts[3]
      /\ primKind = "list" /\ n = 4 => v = verts[2]
  BY <1>1, <1>2, <1>4 DEF Vertex, Total
<1>6. hits' = IF ~Completes(n) THEN hits
              ELSE [p \in Pixels |-> hits[p] + Once(p, CoverOf(ws, n))]
  BY <1>1, <1>2 DEF Vertex, CoverOf, Once
<1>7. Completes(n) <=> n = 2 \/ n = tot - 1
  BY <1>4, <1>5 DEF Completes
<1>8. PICK F, S : F = FirstOf(verts) /\ S = SecondOf(verts)
  OBVIOUS
<1>9. hits = [p \in Pixels |-> Once(p, F) + Once(p, S)]
  BY <1>8 DEF MeshInv
<1>10. S = {}
  BY <1>1, <1>4, <1>5, <1>8 DEF SecondOf
<1>11. PICK G, T : G = FirstOf(ws)' /\ T = SecondOf(ws)'
  OBVIOUS
<1>12. /\ CoverOf(ws, 2)' = CoverOf(ws, 2) /\ CoverOf(ws, tot - 1)' = CoverOf(ws, tot - 1)
  BY <1>5, CoverKept
<1>13. G = IF n >= 2 THEN CoverOf(ws, 2) ELSE {}
  BY <1>3, <1>11, <1>12 DEF FirstOf
<1>14. T = IF n + 1 = tot THEN CoverOf(ws, tot - 1) ELSE {}
  <2>1. Total(primKind)' = tot
    BY <1>4, <1>5 DEF Total
  <2> QED  BY <1>3, <1>11, <1>12, <2>1 DEF SecondOf
<1>15. n >= 3 => G = F
  <2> SUFFICES ASSUME n >= 3 PROVE G = F
    OBVIOUS
  <2>1. CoverOf(ws, 2) = CoverOf(verts, 2)
    BY <1>1, <1>2, CoverOfFirst
  <2> QED  BY <1>1, <1>8, <1>13, <2>1 DEF FirstOf
<1>16. n < 3 => F = {}
  BY <1>1, <1>8 DEF FirstOf
<1>17. \A p \in Pixels : hits[p] = Once(p, F)
  BY <1>9, <1>10 DEF Once
<1>18. hits' = [p \in Pixels |-> Once(p, G) + Once(p, T)]
  <2>1. CASE n < 2
    <3>1. G = {} /\ T = {} /\ hits' = hits /\ F = {}
      BY <1>4, <1>6, <1>7, <1>13, <1>14, <1>16, <2>1
    <3> QED  BY <1>9, <1>10, <3>1 DEF Once
  <2>2. CASE n = 2
    <3>1. F = {} /\ T = {} /\ G = CoverOf(ws, 2)
      BY <1>4, <1>13, <1>14, <1>16, <2>2
    <3>2. hits' = [p \in Pixels |-> hits[p] + Once(p, G)]
      BY <1>6, <1>7, <2>2, <3>1
    <3>3. \A p \in Pixels : hits[p] + Once(p, G) = Once(p, G) + Once(p, T)
      BY <1>17, <3>1 DEF Once
    <3> QED  BY <3>2, <3>3
  <2>3. CASE n >= 3 /\ n + 1 # tot
    <3>1. G = F /\ T = {} /\ hits' = hits
      BY <1>4, <1>6, <1>7, <1>14, <1>15, <2>3
    <3> QED  BY <1>9, <1>10, <3>1
  <2>4. CASE n >= 3 /\ n + 1 = tot
    <3>1. G = F /\ T = CoverOf(ws, n) /\ Completes(n)
      BY <1>4, <1>7, <1>14, <1>15, <2>4
    <3>2. hits' = [p \in Pixels |-> hits[p] + Once(p, T)]
      BY <1>6, <3>1
    <3>3. \A p \in Pixels : hits[p] + Once(p, T) = Once(p, G) + Once(p, T)
      BY <1>17, <3>1
    <3> QED  BY <3>2, <3>3
  <2> QED  BY <2>1, <2>2, <2>3, <2>4
<1>19. /\ primKind = "list" /\ n + 1 >= 4 => ws[4] = ws[3]
       /\ primKind = "list" /\ n + 1 >= 5 => ws[5] = ws[2]
  <2>1. primKind = "list" /\ n >= 4 => verts[4] = verts[3]
    BY <1>1 DEF MeshInv
  <2>2. primKind = "list" /\ n >= 5 => verts[5] = verts[2]
    BY <1>1 DEF MeshInv
  <2>3. n = 3 => ws[4] = v /\ ws[3] = verts[3]
    BY <1>3
  <2>4. n = 4 => ws[5] = v /\ ws[2] = verts[2]
    BY <1>3
  <2>5. n >= 4 => ws[4] = verts[4] /\ ws[3] = verts[3]
    BY <1>3
  <2>6. n >= 5 => ws[5] = verts[5] /\ ws[2] = verts[2]
    BY <1>3
  <2> QED  BY <1>5, <2>1, <2>2, <2>3, <2>4, <2>5, <2>6
<1>20. Total(primKind)' = tot
  BY <1>4, <1>5 DEF Total
<1>21. primKind \in {"none", "list", "strip", "fan"} /\ cull \in {-1, 0, 1}
  BY DEF MeshInv
<1>22. hits' = [p \in Pixels |-> Once(p, FirstOf(verts)') + Once(p, SecondOf(verts)')]
  <2>1. FirstOf(verts)' = G /\ SecondOf(verts)' = T
    BY <1>5, <1>11 DEF FirstOf, SecondOf
  <2> QED  BY <1>18, <2>1
<1> QED  BY <1>3, <1>5, <1>19, <1>20, <1>21, <1>22 DEF MeshInv

LEMMA MeshStep == MeshInv /\ [MeshNext]_meshVars => MeshInv'
<1> SUFFICES ASSUME MeshInv, [MeshNext]_meshVars PROVE MeshInv'
  OBVIOUS
<1>1. ASSUME NEW k \in {"list", "strip", "fan"}, NEW c \in {-1, 0, 1}, SetPrim(k, c)
      PROVE  MeshInv'
  BY <1>1, SetPrimKeeps
<1>2. ASSUME NEW v \in Corners, Vertex(v) PROVE MeshInv'
  BY <1>2, VertexKeeps
<1>3. CASE UNCHANGED meshVars
  <2>1. primKind' = primKind /\ cull' = cull /\ verts' = verts /\ hits' = hits
    BY <1>3 DEF meshVars
  <2>2. FirstOf(verts)' = FirstOf(verts) /\ SecondOf(verts)' = SecondOf(verts)
    <3>1. PICK vs : vs = verts
      OBVIOUS
    <3>2. FirstOf(vs)' = FirstOf(vs)
      BY <2>1, CoverKept DEF FirstOf
    <3>3. SecondOf(vs)' = SecondOf(vs)
      <4>1. Total(primKind)' = Total(primKind)
        BY <2>1 DEF Total
      <4>2. CoverOf(vs, Total(primKind) - 1)' = CoverOf(vs, Total(primKind) - 1)
        <5>1. PICK n : n = Total(primKind) - 1
          OBVIOUS
        <5>2. CoverOf(vs, n)' = CoverOf(vs, n)
          BY <2>1, CoverKept
        <5>3. n = (Total(primKind) - 1)'
          BY <4>1, <5>1
        <5> QED  BY <5>1, <5>2, <5>3
      <4> QED  BY <4>1, <4>2 DEF SecondOf
    <3>4. FirstOf(verts)' = FirstOf(vs)' /\ SecondOf(verts)' = SecondOf(vs)'
      BY <2>1, <3>1 DEF FirstOf, SecondOf
    <3> QED  BY <3>1, <3>2, <3>3, <3>4
  <2> QED  BY <2>1, <2>2 DEF MeshInv, Total
<1> QED  BY <1>1, <1>2, <1>3 DEF MeshNext

(* However a triangle is submitted, and what is culled of it.              *)
IfSeen(s, F) == IF cull = -1 \/ s > 0 THEN F ELSE {}

LEMMA CoveredEachWay ==
    ASSUME NEW a \in Points, NEW b \in Points, NEW c \in Points, NEW s \in Int,
           s = Cross(a, b, c), s # 0,
           NEW F, F = Face(a, b, c)
    PROVE  /\ Covered(a, b, c) = IfSeen(s, F)
           /\ Covered(b, c, a) = IfSeen(s, F)
           /\ Covered(c, a, b) = IfSeen(s, F)
           /\ Covered(b, a, c) = IfSeen(-s, F)
           /\ Covered(a, c, b) = IfSeen(-s, F)
           /\ Covered(c, b, a) = IfSeen(-s, F)
<1>1. Cross(b, c, a) = s /\ Cross(c, a, b) = s /\ Cross(b, a, c) = -s
  BY CrossIs
<1>2. Cross(c, b, a) = -s /\ Cross(a, c, b) = -s
  <2>1. Cross(c, b, a) = -Cross(b, c, a) /\ Cross(a, c, b) = -Cross(c, a, b)
    BY CrossIs
  <2> QED  BY <1>1, <2>1
<1>3. -s # 0
  OBVIOUS
<1>4. Face(b, c, a) = F /\ Face(b, a, c) = F
  BY FaceTurns
<1>5. Face(c, a, b) = F
  BY <1>1, <1>4, FaceTurns
<1>6. Face(c, b, a) = F
  BY <1>1, <1>4, FaceTurns
<1>7. Face(a, c, b) = F
  BY <1>1, <1>5, FaceTurns
<1>8. Covered(a, b, c) = IfSeen(s, F)
  BY CoveredIs DEF IfSeen
<1>9. Covered(b, c, a) = IfSeen(s, F)
  BY <1>1, <1>4, CoveredIs DEF IfSeen
<1>10. Covered(c, a, b) = IfSeen(s, F)
  BY <1>1, <1>5, CoveredIs DEF IfSeen
<1>11. Covered(b, a, c) = IfSeen(-s, F)
  BY <1>1, <1>3, <1>4, CoveredIs DEF IfSeen
<1>12. Covered(a, c, b) = IfSeen(-s, F)
  BY <1>2, <1>3, <1>7, CoveredIs DEF IfSeen
<1>13. Covered(c, b, a) = IfSeen(-s, F)
  BY <1>2, <1>3, <1>6, CoveredIs DEF IfSeen
<1> QED  BY <1>8, <1>9, <1>10, <1>11, <1>12, <1>13

-----------------------------------------------------------------------------
(* What each of the two triangles covers, whichever way it was submitted.  *)
LEMMA ShownFaces ==
    ASSUME MeshInv, primKind # "none", Whole, Flat,
           NEW a, NEW b, NEW f, NEW l, a = Mesh.edge[1], b = Mesh.edge[2],
           f = Mesh.first, l = Mesh.last
    PROVE  /\ a \in Points /\ b \in Points /\ f \in Points /\ l \in Points
           /\ FirstOf(verts)  = IF Shown THEN Face(a, b, f) ELSE {}
           /\ SecondOf(verts) = IF Shown THEN Face(a, b, l) ELSE {}
<1>1. Len(verts) = Total(primKind) /\ verts \in Seq(Corners)
  BY DEF Whole, MeshInv, Total
<1>2. PICK n \in {4, 6} : n = Total(primKind) /\ (n = 6 <=> primKind = "list")
  BY DEF Total
<1>3. \A i \in 1..n : verts[i] \in Points
  <2>1. \A i \in 1..Len(verts) : verts[i] \in Corners
    BY <1>1, ElementOfSeq
  <2> QED  BY <1>1, <1>2, <2>1, MeshAssumption DEF Points
<1>4. FirstOf(verts) = CoverOf(verts, 2) /\ SecondOf(verts) = CoverOf(verts, n - 1)
  BY <1>1, <1>2 DEF FirstOf, SecondOf
<1>5. primKind \in {"list", "strip", "fan"} /\ cull \in {-1, 0, 1}
  BY DEF MeshInv
<1>6. /\ a \in Points /\ b \in Points /\ f \in Points /\ l \in Points
      /\ \/ FirstOf(verts) = IF cull = 0 THEN Covered(a, f, b) ELSE Covered(f, a, b)
         \/ FirstOf(verts) = IF cull = 0 THEN Covered(f, b, a) ELSE Covered(b, f, a)
      /\ SecondOf(verts) \in {IF cull = 0 THEN Covered(a, b, l) ELSE Covered(b, a, l),
                              IF cull = 1 THEN Covered(b, a, l) ELSE Covered(a, b, l)}
  <2>1. CASE primKind = "list"
    <3>1. a = verts[2] /\ b = verts[3] /\ f = verts[1] /\ l = verts[6] /\ n = 6
      BY <1>1, <1>2, <2>1 DEF Mesh
    <3>2. verts[4] = b /\ verts[5] = a
      BY <1>1, <1>2, <2>1, <3>1 DEF MeshInv
    <3>3. (Flip(2) <=> cull = 0) /\ (Flip(5) <=> cull = 0)
      BY <2>1 DEF Flip
    <3>4. /\ Triangle(verts, 2) = IF cull = 0 THEN <<a, f, b>> ELSE <<f, a, b>>
          /\ Triangle(verts, 5) = IF cull = 0 THEN <<a, b, l>> ELSE <<b, a, l>>
      BY <2>1, <3>1, <3>2, <3>3 DEF Triangle
    <3> QED  BY <1>3, <1>4, <3>1, <3>4 DEF CoverOf
  <2>2. CASE primKind = "strip"
    <3>1. a = verts[2] /\ b = verts[3] /\ f = verts[1] /\ l = verts[4] /\ n = 4
      BY <1>2, <2>2 DEF Mesh
    <3>2. (Flip(2) <=> cull = 0) /\ (Flip(3) <=> cull # 0)
      BY <2>2 DEF Flip
    <3>3. /\ Triangle(verts, 2) = IF cull = 0 THEN <<a, f, b>> ELSE <<f, a, b>>
          /\ Triangle(verts, 3) = IF cull = 1 THEN <<b, a, l>> ELSE <<a, b, l>>
      BY <1>5, <2>2, <3>1, <3>2 DEF Triangle
    <3> QED  BY <1>3, <1>4, <3>1, <3>3 DEF CoverOf
  <2>3. CASE primKind = "fan"
    <3>1. a = verts[3] /\ b = verts[1] /\ f = verts[2] /\ l = verts[4] /\ n = 4
      BY <1>2, <2>3 DEF Mesh
    <3>2. (Flip(2) <=> cull = 0) /\ (Flip(3) <=> cull = 0)
      BY <2>3 DEF Flip
    <3>3. /\ Triangle(verts, 2) = IF cull = 0 THEN <<f, b, a>> ELSE <<b, f, a>>
          /\ Triangle(verts, 3) = IF cull = 0 THEN <<a, b, l>> ELSE <<b, a, l>>
      BY <2>3, <3>1, <3>2 DEF Triangle
    <3> QED  BY <1>3, <1>4, <3>1, <3>3 DEF CoverOf
  <2> QED  BY <1>5, <2>1, <2>2, <2>3
<1>7. PICK s, t \in Int : s = Cross(a, b, f) /\ t = Cross(a, b, l)
  BY <1>6, CrossIs
<1>8. s # 0 /\ t # 0 /\ (s > 0 <=> -t > 0) /\ (-s > 0 <=> t > 0)
  <2>1. s # 0 /\ s * t < 0
    BY <1>7 DEF Flat, Side
  <2>2. s > 0 => t < 0
    BY <2>1
  <2>3. s < 0 => t > 0
    BY <2>1
  <2> QED  BY <2>1, <2>2, <2>3
<1>9. Shown <=> cull = -1 \/ (cull = 1 /\ s > 0) \/ (cull = 0 /\ -s > 0)
  BY <1>7 DEF Shown, Side
<1>10. PICK F, L : F = Face(a, b, f) /\ L = Face(a, b, l)
  OBVIOUS
<1>11. /\ Covered(f, a, b) = IfSeen(s, F)
       /\ Covered(b, f, a) = IfSeen(s, F)
       /\ Covered(a, f, b) = IfSeen(-s, F)
       /\ Covered(f, b, a) = IfSeen(-s, F)
  <2>1. s # 0
    BY <1>8
  <2>2. a \in Points /\ b \in Points /\ f \in Points
    BY <1>6
  <2>3. s = Cross(a, b, f)
    BY <1>7
  <2>4. F = Face(a, b, f)
    BY <1>10
  <2> QED  BY <2>1, <2>2, <2>3, <2>4, CoveredEachWay
<1>12. /\ Covered(a, b, l) = IfSeen(t, L)
       /\ Covered(b, a, l) = IfSeen(-t, L)
  <2>1. t # 0
    BY <1>8
  <2>2. a \in Points /\ b \in Points /\ l \in Points
    BY <1>6
  <2>3. t = Cross(a, b, l)
    BY <1>7
  <2>4. L = Face(a, b, l)
    BY <1>10
  <2> QED  BY <2>1, <2>2, <2>3, <2>4, CoveredEachWay
<1>13. FirstOf(verts) = IF Shown THEN F ELSE {}
  BY <1>5, <1>6, <1>9, <1>11 DEF IfSeen
<1>14. SecondOf(verts) = IF Shown THEN L ELSE {}
  BY <1>5, <1>6, <1>8, <1>9, <1>12 DEF IfSeen
<1> QED  BY <1>6, <1>10, <1>13, <1>14

(* The property, from what each triangle covers and how two faces meet.    *)
LEMMA InvMeansOneSurface == MeshInv => OneSurface
<1> SUFFICES ASSUME MeshInv, primKind # "none", Whole, Flat,
                    NEW a, NEW b, NEW f, NEW l, a = Mesh.edge[1], b = Mesh.edge[2],
                    f = Mesh.first, l = Mesh.last,
                    NEW p \in Pixels, NEW q, q = Centre(p)
             PROVE  /\ hits[p] <= IF Shown THEN 1 ELSE 0
                    /\ Shown /\ (Inside(a, b, f, q) \/ Inside(a, b, l, q) \/ Between(a, b, q))
                         => hits[p] = 1
                    /\ ~Within(a, b, f, q) /\ ~Within(a, b, l, q) => hits[p] = 0
  BY DEF OneSurface
<1>1. /\ a \in Points /\ b \in Points /\ f \in Points /\ l \in Points
      /\ FirstOf(verts)  = IF Shown THEN Face(a, b, f) ELSE {}
      /\ SecondOf(verts) = IF Shown THEN Face(a, b, l) ELSE {}
  BY ShownFaces
<1>2. hits[p] = Once(p, FirstOf(verts)) + Once(p, SecondOf(verts))
  BY DEF MeshInv
<1>3. PICK s \in Int : s = Cross(a, b, f)
  BY <1>1, CrossIs
<1>4. s # 0 /\ s * Cross(a, b, l) < 0
  BY <1>3 DEF Flat, Side
<1>5. /\ ~ (p \in Face(a, b, f) /\ p \in Face(a, b, l))
      /\ Inside(a, b, f, q) \/ Inside(a, b, l, q) \/ Between(a, b, q)
           => p \in Face(a, b, f) \/ p \in Face(a, b, l)
      /\ p \in Face(a, b, f) => Within(a, b, f, q)
      /\ p \in Face(a, b, l) => Within(a, b, l, q)
  BY <1>1, <1>3, <1>4, FacesMeet
<1>6. CASE ~Shown
  <2>1. hits[p] = 0
    BY <1>1, <1>2, <1>6 DEF Once
  <2> QED  BY <1>6, <2>1
<1>7. CASE Shown
  <2>1. hits[p] = Once(p, Face(a, b, f)) + Once(p, Face(a, b, l))
    BY <1>1, <1>2, <1>7
  <2>2. CASE p \in Face(a, b, f)
    <3>1. hits[p] = 1
      BY <1>5, <2>1, <2>2 DEF Once
    <3> QED  BY <1>5, <1>7, <2>2, <3>1
  <2>3. CASE p \in Face(a, b, l)
    <3>1. hits[p] = 1
      BY <1>5, <2>1, <2>3 DEF Once
    <3> QED  BY <1>5, <1>7, <2>3, <3>1
  <2>4. CASE p \notin Face(a, b, f) /\ p \notin Face(a, b, l)
    <3>1. hits[p] = 0
      BY <2>1, <2>4 DEF Once
    <3> QED  BY <1>5, <1>7, <2>4, <3>1
  <2> QED  BY <2>2, <2>3, <2>4
<1> QED  BY <1>6, <1>7

(* Two triangles that share an edge are drawn as one surface, whichever of *)
(* a list, a strip or a fan they are submitted in and whatever is culled,  *)
(* for every grid and all vertices: draw_prim's turning and raster_tri's   *)
(* edge rule together give each pixel of the common edge to exactly one.   *)
THEOREM MeshesAreOneSurface == MeshSpec => []OneSurface
<1>1. MeshInit => MeshInv
  BY MeshStarts
<1>2. MeshInv /\ [MeshNext]_meshVars => MeshInv'
  BY MeshStep
<1>3. MeshInv => OneSurface
  BY InvMeansOneSurface
<1> QED  BY <1>1, <1>2, <1>3, PTL DEF MeshSpec

-----------------------------------------------------------------------------
(* Pixels, for any fragments, registers and contents, in each of the       *)
(* framebuffer's formats.                                                  *)

(* The powers of two up to 256.                                            *)
Power(n) ==
    CASE n = 0 -> 1 [] n = 1 -> 2 [] n = 2 -> 4 [] n = 3 -> 8 [] n = 4 -> 16 [] n = 5 -> 32
      [] n = 6 -> 64 [] n = 7 -> 128 [] n = 8 -> 256

LEMMA Powers ==
    /\ 2 ^ 0 = 1 /\ 2 ^ 1 = 2 /\ 2 ^ 2 = 4 /\ 2 ^ 3 = 8 /\ 2 ^ 4 = 16 /\ 2 ^ 5 = 32
    /\ 2 ^ 6 = 64 /\ 2 ^ 7 = 128 /\ 2 ^ 8 = 256
OBVIOUS

LEMMA PowerOf ==
    ASSUME NEW n \in 0..8
    PROVE  2 ^ n = Power(n)
<1>1. CASE n = 0
  BY <1>1 DEF Power
<1>2. CASE n = 1
  BY <1>2 DEF Power
<1>3. CASE n = 2
  BY <1>3 DEF Power
<1>4. CASE n = 3
  BY <1>4 DEF Power
<1>5. CASE n = 4
  BY <1>5 DEF Power
<1>6. CASE n = 5
  BY <1>6 DEF Power
<1>7. CASE n = 6
  BY <1>7 DEF Power
<1>8. CASE n = 7
  BY <1>8 DEF Power
<1>9. CASE n = 8
  BY <1>9 DEF Power
<1> QED  BY <1>1, <1>2, <1>3, <1>4, <1>5, <1>6, <1>7, <1>8, <1>9

(* The widths of a channel are at most 8: what its powers are and how they *)
(* multiply.                                                               *)
LEMMA PowerIs ==
    ASSUME NEW n \in 0..8
    PROVE  2 ^ n \in Nat \ {0} /\ 2 ^ n * 2 ^ (8 - n) = 256
<1>1. 8 - n \in 0..8
  OBVIOUS
<1>2. 2 ^ n = Power(n) /\ 2 ^ (8 - n) = Power(8 - n)
  BY <1>1, PowerOf
<1>3. Power(n) \in Nat \ {0} /\ Power(n) * Power(8 - n) = 256
  BY DEF Power
<1> QED  BY <1>2, <1>3

LEMMA PowersMultiply ==
    ASSUME NEW a \in 0..8, NEW b \in 0..8, NEW c \in 0..8, a + b = c
    PROVE  2 ^ c = 2 ^ a * 2 ^ b
<1>1. 2 ^ a = Power(a) /\ 2 ^ b = Power(b) /\ 2 ^ c = Power(c)
  BY PowerOf
<1>2. Power(c) = Power(a) * Power(b)
  BY DEF Power
<1> QED  BY <1>1, <1>2

(* Quotients and remainders.                                               *)
LEMMA DivideWith ==
    ASSUME NEW R \in Nat \ {0}, NEW n \in Int
    PROVE  \E q \in Int, r \in 0..R - 1 : n % R = r /\ n \div R = q /\ n = R * q + r
<1>1. PICK q : q = n \div R
  OBVIOUS
<1>2. PICK r : r = n % R
  OBVIOUS
<1>3. q \in Int /\ r \in 0..R - 1 /\ n = R * q + r
  BY <1>1, <1>2
<1> QED  BY <1>1, <1>2, <1>3

LEMMA QuotientIs ==
    ASSUME NEW R \in Nat \ {0}, NEW q \in Int, NEW r \in 0..R - 1
    PROVE  (R * q + r) \div R = q
OBVIOUS

(* Dividing twice.                                                         *)
LEMMA DivideTwice ==
    ASSUME NEW n \in Nat, NEW a \in Nat \ {0}, NEW b \in Nat \ {0}
    PROVE  (n \div a) \div b = n \div (a * b)
<1>1. PICK q \in Int, r \in 0..a - 1 : n \div a = q /\ n = a * q + r
  BY DivideWith
<1>2. PICK s \in Int, t \in 0..b - 1 : q \div b = s /\ q = b * s + t
  BY DivideWith
<1>3. PICK m \in Nat \ {0} : m = a * b
  OBVIOUS
<1>4. n = m * s + (a * t + r)
  BY <1>1, <1>2, <1>3
<1>5. a * t + r \in 0..m - 1
  <2>1. a * t <= a * (b - 1)
    BY <1>2
  <2>2. a * (b - 1) = m - a
    BY <1>3
  <2>3. a * t \in Nat
    BY <1>2
  <2> QED  BY <1>1, <1>3, <2>1, <2>2, <2>3
<1>6. PICK e \in 0..m - 1 : e = a * t + r
  BY <1>5
<1>7. n \div m = s
  BY <1>3, <1>4, <1>6, QuotientIs
<1> QED  BY <1>1, <1>2, <1>3, <1>7

(* The widths of the channels, and that going through 8 bits and back      *)
(* loses nothing.                                                          *)
Widths == {0, 1, 4, 5, 6, 8}
ValuesOf(bits) == 0..2 ^ bits - 1

LEMMA UnpackIs ==
    ASSUME NEW bits \in Widths, NEW v \in ValuesOf(bits)
    PROVE  Unpack(bits, v) \in 0..255 /\ Pack(bits, Unpack(bits, v)) = v
<1>1. CASE bits = 0
  BY <1>1, Powers DEF Unpack, Pack, ValuesOf
<1>2. CASE bits = 1
  BY <1>2, Powers DEF Unpack, Pack, ValuesOf
<1>3. CASE bits = 4
  BY <1>3, Powers DEF Unpack, Pack, ValuesOf
<1>4. CASE bits = 5
  BY <1>4, Powers DEF Unpack, Pack, ValuesOf
<1>5. CASE bits = 6
  BY <1>5, Powers DEF Unpack, Pack, ValuesOf
<1>6. CASE bits = 8
  BY <1>6, Powers DEF Unpack, Pack, ValuesOf
<1> QED  BY <1>1, <1>2, <1>3, <1>4, <1>5, <1>6 DEF Widths

LEMMA PackIs ==
    ASSUME NEW bits \in Widths, NEW x \in 0..255
    PROVE  /\ bits # 0 => Pack(bits, x) = x \div 2 ^ (8 - bits)
           /\ bits = 0 => Pack(bits, x) = 0
           /\ Pack(bits, x) \in ValuesOf(bits)
<1>1. CASE bits = 0
  BY <1>1, Powers DEF Pack, ValuesOf
<1>2. CASE bits = 1
  BY <1>2, Powers DEF Pack, ValuesOf
<1>3. CASE bits = 4
  BY <1>3, Powers DEF Pack, ValuesOf
<1>4. CASE bits = 5
  BY <1>4, Powers DEF Pack, ValuesOf
<1>5. CASE bits = 6
  BY <1>5, Powers DEF Pack, ValuesOf
<1>6. CASE bits = 8
  BY <1>6, Powers DEF Pack, ValuesOf
<1> QED  BY <1>1, <1>2, <1>3, <1>4, <1>5, <1>6 DEF Widths

(* The upper m of 8 bits are the same.                                     *)
SameAbove(m, x, old) == x \div 2 ^ (8 - m) = old \div 2 ^ (8 - m)

(* A mask keeps the upper bits of what was there.                          *)
LEMMA MaskedIs ==
    ASSUME NEW m \in 0..8, NEW new \in Int, NEW old \in 0..255,
           NEW x, x = Masked(m, new, old)
    PROVE  x \in 0..255 /\ SameAbove(m, x, old)
<1>1. PICK h : h = 2 ^ (8 - m)
  OBVIOUS
<1>2. PICK g : g = 2 ^ m
  OBVIOUS
<1>3. h \in Nat \ {0} /\ g \in Nat \ {0} /\ h * g = 256
  <2>1. PICK n : n = 8 - m
    OBVIOUS
  <2>2. n \in 0..8 /\ 8 - n = m
    BY <2>1
  <2>3. 2 ^ n \in Nat \ {0} /\ 2 ^ n * 2 ^ (8 - n) = 256 /\ 2 ^ m \in Nat \ {0}
    BY <2>2, PowerIs
  <2> QED  BY <1>1, <1>2, <2>1, <2>2, <2>3
<1>4. PICK q \in Int, r \in 0..h - 1 : old % h = r /\ old \div h = q /\ old = h * q + r
  BY <1>3, DivideWith
<1>5. PICK s \in 0..h - 1 : new % h = s
  BY <1>3
<1>6. x = h * q + s
  <2>1. x = (new % h) + (old - (old % h))
    BY <1>1 DEF Masked
  <2>2. h * q \in Int
    BY <1>3
  <2> QED  BY <1>4, <1>5, <2>1, <2>2
<1>7. x \div h = q
  BY <1>3, <1>6, QuotientIs
<1>8. x \in 0..255
  <2>1. q >= 0
    BY <1>3, <1>4
  <2>2. q < g
    BY <1>3, <1>4
  <2>3. h * q <= h * (g - 1) /\ h * q >= 0
    BY <1>3, <2>1, <2>2
  <2>4. h * (g - 1) = 256 - h
    BY <1>3
  <2>5. h * q \in Int
    BY <1>3
  <2> QED  BY <1>3, <1>5, <1>6, <2>3, <2>4, <2>5
<1>9. x \div h = old \div h
  BY <1>4, <1>7
<1>10. SameAbove(m, x, old)
  BY <1>1, <1>9, Zenon DEF SameAbove
<1> QED  BY <1>8, <1>10

(* A masked write keeps the upper bits of a channel in every format.       *)
LEMMA MaskKeeps ==
    ASSUME NEW bits \in Widths, NEW v \in ValuesOf(bits), NEW m \in 0..8, NEW new \in Int,
           NEW p, p = Pack(bits, Masked(m, new, Unpack(bits, v)))
    PROVE  p \in ValuesOf(bits) /\ Upper(bits, p, m) = Upper(bits, v, m)
<1>1. PICK old \in 0..255 : old = Unpack(bits, v) /\ Pack(bits, old) = v
  BY UnpackIs
<1>2. PICK x : x = Masked(m, new, old)
  OBVIOUS
<1>2b. x \in 0..255 /\ SameAbove(m, x, old)
  BY <1>2, MaskedIs
<1>2a. x \in 0..255 /\ x \div 2 ^ (8 - m) = old \div 2 ^ (8 - m)
  BY <1>2b, Zenon DEF SameAbove
<1>3. p = Pack(bits, x) /\ p \in ValuesOf(bits)
  BY <1>1, <1>2, <1>2a, PackIs
<1>4. CASE bits = 0
  BY <1>3, <1>4, Powers DEF ValuesOf, Upper
<1>5. CASE bits # 0
  <2>1. bits \in 1..8
    BY <1>5 DEF Widths
  <2>2. PICK k : k = 2 ^ (8 - bits)
    OBVIOUS
  <2>3. k \in Nat \ {0}
    <3>1. 8 - bits \in 0..8
      BY <2>1
    <3> QED  BY <2>2, <3>1, PowerIs
  <2>4. p = x \div k /\ v = old \div k
    BY <1>1, <1>2a, <1>3, <1>5, <2>2, PackIs
  <2>5. CASE m < bits
    <3>1. PICK j : j = 2 ^ (bits - m)
      OBVIOUS
    <3>2. j \in Nat \ {0}
      <4>1. bits - m \in 0..8
        BY <2>1, <2>5
      <4> QED  BY <3>1, <4>1, PowerIs
    <3>3. 2 ^ (8 - m) = k * j
      <4>1. PICK a, b, c : a = 8 - bits /\ b = bits - m /\ c = 8 - m
        OBVIOUS
      <4>2. a \in 0..8 /\ b \in 0..8 /\ c \in 0..8 /\ a + b = c
        BY <2>1, <2>5, <4>1
      <4>3. 2 ^ c = 2 ^ a * 2 ^ b
        BY <4>2, PowersMultiply, Zenon
      <4> QED  BY <2>2, <3>1, <4>1, <4>3, Zenon
    <3>4. p \div j = x \div (k * j) /\ v \div j = old \div (k * j)
      <4>1. x \in Nat /\ old \in Nat
        BY <1>2a
      <4>2. (x \div k) \div j = x \div (k * j) /\ (old \div k) \div j = old \div (k * j)
        BY <2>3, <3>2, <4>1, DivideTwice, Zenon
      <4> QED  BY <2>4, <4>2, Zenon
    <3>5. Upper(bits, p, m) = p \div j /\ Upper(bits, v, m) = v \div j
      BY <2>1, <2>5, <3>1 DEF Upper
    <3> QED  BY <1>2a, <1>3, <3>3, <3>4, <3>5
  <2>6. CASE ~ (m < bits)
    <3>1. PICK h : h = 2 ^ (8 - m)
      OBVIOUS
    <3>2. PICK j : j = 2 ^ (m - bits)
      OBVIOUS
    <3>3. j \in Nat \ {0} /\ h \in Nat \ {0}
      <4>1. m - bits \in 0..8 /\ 8 - m \in 0..8
        BY <2>1, <2>6
      <4> QED  BY <3>1, <3>2, <4>1, PowerIs
    <3>4. k = h * j
      <4>1. PICK a, b, c : a = 8 - m /\ b = m - bits /\ c = 8 - bits
        OBVIOUS
      <4>2. a \in 0..8 /\ b \in 0..8 /\ c \in 0..8 /\ a + b = c
        BY <2>1, <2>6, <4>1
      <4>3. 2 ^ c = 2 ^ a * 2 ^ b
        BY <4>2, PowersMultiply, Zenon
      <4> QED  BY <2>2, <3>1, <3>2, <4>1, <4>3, Zenon
    <3>5. x \div (h * j) = (x \div h) \div j /\ old \div (h * j) = (old \div h) \div j
      <4>1. x \in Nat /\ old \in Nat
        BY <1>2a
      <4> QED  BY <3>3, <4>1, DivideTwice
    <3>6. p = v
      BY <1>2a, <2>4, <3>1, <3>4, <3>5
    <3> QED  BY <1>3, <3>6
  <2> QED  BY <2>5, <2>6
<1> QED  BY <1>4, <1>5

-----------------------------------------------------------------------------
(* Every value on its way is a number.                                     *)
LEMMA ClampIs ==
    ASSUME NEW v \in Int
    PROVE  Clamp8(v) \in 0..255
BY DEF Clamp8

LEMMA TexturedIs ==
    ASSUME NEW f \in Fragments
    PROVE  Textured(f) \in Int /\ TexturedAlpha(f) \in Int /\ f.vc \in 0..255 /\ f.va \in 0..255
<1>1. /\ f.func \in {"none", "modulate", "decal", "blend", "replace", "add"}
      /\ f.rgba \in BOOLEAN /\ f.dbl \in BOOLEAN
      /\ f.vc \in 0..255 /\ f.va \in 0..255 /\ f.tc \in 0..255 /\ f.ta \in 0..255
      /\ f.env \in 0..255
  BY PixelAssumption DEF Byte
<1>2. Twice(f, f.tc) \in Int /\ Twice(f, f.vc + f.tc) \in Int
  <2>1. PICK t, u \in 0..255 : t = f.tc /\ u = f.vc
    BY <1>1, Zenon
  <2>1a. PICK v \in Int : v = f.vc + f.tc
    BY <2>1
  <2>2. Twice(f, t) \in {t, 2 * t} /\ Twice(f, v) \in {v, 2 * v}
    BY DEF Twice
  <2> QED  BY <2>1, <2>1a, <2>2
<1>3. PICK t : t = Twice(f, f.tc)
  OBVIOUS
<1>4. Textured(f) \in Int
  <2>1. CASE f.func = "none"
    BY <1>1, <2>1 DEF Textured
  <2>2. CASE f.func = "modulate"
    <3>1. Textured(f) = ((f.vc + 1) * t) \div 256
      BY <1>3, <2>2 DEF Textured
    <3>2. (f.vc + 1) * t \in Int
      BY <1>1, <1>2, <1>3
    <3> QED  BY <3>1, <3>2
  <2>3. CASE f.func = "decal"
    <3>1. PICK n : n = (f.vc + 1) * (255 - f.ta) + (f.tc + 1) * f.ta
      OBVIOUS
    <3>2. n \in Int
      BY <1>1, <3>1
    <3>3. Textured(f) \in {n \div 128, n \div 256, Twice(f, f.tc)}
      BY <1>1, <2>3, <3>1 DEF Textured
    <3> QED  BY <1>2, <3>2, <3>3
  <2>4. CASE f.func = "blend"
    <3>1. PICK n : n = (255 - f.tc) * f.vc + f.tc * f.env + 255
      OBVIOUS
    <3>2. n \in Int
      BY <1>1, <3>1
    <3>3. Textured(f) \in {n \div 128, n \div 256}
      BY <1>1, <2>4, <3>1 DEF Textured
    <3> QED  BY <3>2, <3>3
  <2>5. CASE f.func = "replace"
    BY <1>2, <2>5 DEF Textured
  <2>6. CASE f.func = "add"
    BY <1>2, <2>6 DEF Textured
  <2> QED  BY <1>1, <2>1, <2>2, <2>3, <2>4, <2>5, <2>6
<1>5. TexturedAlpha(f) \in Int
  <2>1. ((f.va + 1) * f.ta) \div 256 \in Int
    <3>1. PICK va, ta \in 0..255 : va = f.va /\ ta = f.ta
      BY <1>1, Zenon
    <3>2. (va + 1) * ta \in Int
      OBVIOUS
    <3> QED  BY <3>1, <3>2
  <2>2. TexturedAlpha(f) \in {f.va, f.ta, ((f.va + 1) * f.ta) \div 256}
    BY <1>1 DEF TexturedAlpha
  <2> QED  BY <1>1, <2>1, <2>2
<1> QED  BY <1>1, <1>4, <1>5

LEMMA RegsAre ==
    ASSUME NEW d \in PixelRegs
    PROVE  /\ d.clear \in BOOLEAN /\ d.clearColor \in BOOLEAN /\ d.clearAlpha \in BOOLEAN
           /\ d.clearDepth \in BOOLEAN /\ d.zwrite \in BOOLEAN /\ d.blend \in BOOLEAN
           /\ d.fog \in 0..256 /\ d.fogColor \in 0..255 /\ d.eq \in 0..7
           /\ d.sf \in 0..15 /\ d.df \in 0..15 /\ d.fixa \in 0..255 /\ d.fixb \in 0..255
           /\ d.dither \in -8..7 /\ d.mask \in 0..8 /\ d.maskAlpha \in 0..8
<1>1. d \in PixelReg
  BY PixelAssumption
<1> QED  BY <1>1 DEF PixelReg, Byte, Funcs

LEMMA ShadedIs ==
    ASSUME NEW f \in Fragments, NEW d \in PixelRegs
    PROVE  /\ ShadedColor(f, d) \in Int /\ ShadedAlpha(f, d) \in Int
           /\ d.clear => ShadedColor(f, d) \in 0..255 /\ ShadedAlpha(f, d) \in 0..255
<1>1. PICK t, u : t = Clamp8(Textured(f)) /\ u = Clamp8(TexturedAlpha(f))
  OBVIOUS
<1>2. t \in 0..255 /\ u \in 0..255 /\ f.vc \in 0..255 /\ f.va \in 0..255
  BY <1>1, ClampIs, TexturedIs
<1>3. Fogged(d, t) \in Int
  <2>1. d.fog \in Int /\ d.fogColor \in Int
    BY RegsAre
  <2>2. (t - d.fogColor) * d.fog \in Int
    BY <1>2, <2>1
  <2> QED  BY <1>2, <2>1, <2>2 DEF Fogged
<1> QED  BY <1>1, <1>2, <1>3 DEF ShadedColor, ShadedAlpha

LEMMA FactorIs ==
    ASSUME NEW f \in 0..15, NEW other \in Int, NEW sa \in Int, NEW da \in Int, NEW fixed \in Int
    PROVE  FactorOf(f, other, sa, da, fixed) \in Int
<1>1. /\ Clamp8(2 * sa) \in Int /\ Clamp8(255 - 2 * sa) \in Int
      /\ Clamp8(2 * da) \in Int /\ Clamp8(255 - 2 * da) \in Int
  BY ClampIs
<1> QED  BY <1>1 DEF FactorOf

LEMMA BlendIs ==
    ASSUME NEW s \in Int, NEW t \in Int, NEW sf \in Int, NEW df \in Int, NEW eq \in 0..7
    PROVE  BlendChan(s, t, sf, df, eq) \in Int
<1>1. PICK sv, dv : sv = (s * sf) \div 255 /\ dv = (t * df) \div 255
  OBVIOUS
<1>2. sv \in Int /\ dv \in Int
  <2>1. s * sf \in Int /\ t * df \in Int
    OBVIOUS
  <2> QED  BY <1>1, <2>1
<1>3. Clamp8(sv - dv) \in Int /\ Clamp8(dv - sv) \in Int /\ Clamp8(sv + dv) \in Int
  BY <1>2, ClampIs
<1>4. Apart(sv, dv) \in Int
  BY <1>2 DEF Apart
<1> QED  BY <1>1, <1>2, <1>3, <1>4 DEF BlendChan

LEMMA DrawnIs ==
    ASSUME NEW d \in PixelRegs, NEW c \in Int, NEW a \in Int, NEW dc \in Int, NEW da \in Int
    PROVE  /\ Dithered(d, Blended(d, c, a, dc, da)) \in Int
           /\ BlendedAlpha(d, a, da) \in Int
<1>1. PICK e, g : /\ e = FactorOf(d.sf, dc, a, da, d.fixa)
                  /\ g = FactorOf(d.df, c, a, da, d.fixb)
  OBVIOUS
<1>2. e \in Int /\ g \in Int
  <2>1. d.sf \in 0..15 /\ d.df \in 0..15 /\ d.fixa \in Int /\ d.fixb \in Int
    BY RegsAre
  <2> QED  BY <1>1, <2>1, FactorIs
<1>3. Blended(d, c, a, dc, da) \in Int
  <2>1. d.eq \in 0..7
    BY RegsAre
  <2>2. BlendChan(c, dc, e, g, d.eq) \in Int
    BY <1>2, <2>1, BlendIs
  <2> QED  BY <1>1, <2>2 DEF Blended
<1>4. PICK b \in Int : b = Blended(d, c, a, dc, da)
  BY <1>3
<1>5. Dithered(d, b) \in Int
  <2>1. b + d.dither \in Int
    BY RegsAre
  <2>2. Clamp8(b + d.dither) \in Int
    BY <2>1, ClampIs
  <2> QED  BY <2>2 DEF Dithered
<1>6. BlendedAlpha(d, a, da) \in Int
  <2>1. Clamp8(a + da) \in Int
    BY ClampIs
  <2> QED  BY <2>1 DEF BlendedAlpha
<1> QED  BY <1>4, <1>5, <1>6

-----------------------------------------------------------------------------
(* A channel of so many bits that held v holds p, its upper bits kept.     *)
Kept(bits, v, p, keep) == p \in ValuesOf(bits) /\ Upper(bits, p, keep) = Upper(bits, v, keep)

(* The upper bits of colour and alpha that a fragment leaves alone.        *)
KeepC(f, d) == IF f.place # "in" \/ (d.clear /\ ~d.clearColor) THEN 8
               ELSE IF d.clear THEN 0 ELSE d.mask
KeepA(f, d) == IF f.place # "in" \/ (d.clear /\ ~d.clearAlpha) THEN 8
               ELSE IF d.clear THEN 0 ELSE d.maskAlpha

LEMMA UpperNone ==
    ASSUME NEW bits \in Widths, NEW v \in ValuesOf(bits)
    PROVE  Upper(bits, v, 0) = 0
<1>1. CASE bits = 0
  BY <1>1, Powers DEF Upper, ValuesOf
<1>2. CASE bits = 1
  BY <1>2, Powers DEF Upper, ValuesOf
<1>3. CASE bits = 4
  BY <1>3, Powers DEF Upper, ValuesOf
<1>4. CASE bits = 5
  BY <1>4, Powers DEF Upper, ValuesOf
<1>5. CASE bits = 6
  BY <1>5, Powers DEF Upper, ValuesOf
<1>6. CASE bits = 8
  BY <1>6, Powers DEF Upper, ValuesOf
<1> QED  BY <1>1, <1>2, <1>3, <1>4, <1>5, <1>6 DEF Widths

(* What one channel of put_px_rgba does.                                   *)
LEMMA ChannelKept ==
    ASSUME NEW bits \in Widths, NEW v \in ValuesOf(bits), NEW keep,
           NEW w, NEW clear \in BOOLEAN, NEW to \in BOOLEAN,
           NEW c \in Int, clear => c \in 0..255, NEW m \in 0..8, NEW new \in Int,
           w = IF clear THEN (IF to THEN c ELSE Unpack(bits, v))
               ELSE Masked(m, new, Unpack(bits, v)),
           keep = IF clear /\ ~to THEN 8 ELSE IF clear THEN 0 ELSE m
    PROVE  Kept(bits, v, Pack(bits, w), keep)
<1>1. CASE ~clear
  <2>1. PICK p : p = Pack(bits, Masked(m, new, Unpack(bits, v)))
    OBVIOUS
  <2>2. p \in ValuesOf(bits) /\ Upper(bits, p, m) = Upper(bits, v, m)
    BY <2>1, MaskKeeps
  <2>3. Pack(bits, w) = p /\ keep = m
    BY <1>1, <2>1
  <2> QED  BY <2>2, <2>3 DEF Kept
<1>2. CASE clear /\ to
  <2>1. Pack(bits, w) \in ValuesOf(bits)
    BY <1>2, PackIs
  <2>2. keep = 0
    BY <1>2
  <2> QED  BY <2>1, <2>2, UpperNone DEF Kept
<1>3. CASE clear /\ ~to
  <2>1. Pack(bits, w) = v
    BY <1>3, UnpackIs
  <2> QED  BY <2>1 DEF Kept
<1> QED  BY <1>1, <1>2, <1>3

(* 565, 5551, 4444 and 8888: red and blue of 565 are 5 wide, green 6.      *)
FiveFormats == {<<5, 0>>, <<6, 0>>, <<5, 1>>, <<4, 4>>, <<8, 8>>}

(* What put_px_rgba does to both channels.                                 *)
LEMMA FormatWidths ==
    ASSUME format \in FiveFormats
    PROVE  CBits \in Widths /\ ABits \in Widths
BY DEF FiveFormats, Widths, CBits, ABits

LEMMA PutKeeps ==
    ASSUME format \in FiveFormats, pixelWord.c \in ValuesOf(CBits),
           pixelWord.a \in ValuesOf(ABits),
           NEW f \in Fragments, NEW d \in PixelRegs
    PROVE  /\ Kept(CBits, pixelWord.c, PutPx(f, d).c, KeepC(f, d))
           /\ Kept(ABits, pixelWord.a, PutPx(f, d).a, KeepA(f, d))
           /\ f.place # "in" => PutPx(f, d) = pixelWord
<1>1. CASE f.place # "in" \/ (d.clear /\ ~d.clearColor /\ ~d.clearAlpha)
  BY <1>1 DEF PutPx, Kept
<1>2. CASE ~ (f.place # "in" \/ (d.clear /\ ~d.clearColor /\ ~d.clearAlpha))
  <2>1. PICK c, a, dc, da : /\ c = ShadedColor(f, d) /\ a = ShadedAlpha(f, d)
                            /\ dc = Unpack(CBits, pixelWord.c) /\ da = Unpack(ABits, pixelWord.a)
    OBVIOUS
  <2>2. CBits \in Widths /\ ABits \in Widths
    BY FormatWidths
  <2>3. dc \in Int /\ da \in Int
    BY <2>1, <2>2, UnpackIs
  <2>4. c \in Int /\ a \in Int /\ (d.clear => c \in 0..255 /\ a \in 0..255)
    BY <2>1, ShadedIs
  <2>5. PICK new, newA : /\ new = Dithered(d, Blended(d, c, a, dc, da))
                         /\ newA = BlendedAlpha(d, a, da)
    OBVIOUS
  <2>6. new \in Int /\ newA \in Int
    BY <2>3, <2>4, <2>5, DrawnIs
  <2>7. PICK wc, wa : wc = WrittenColor(d, c, a, dc, da) /\ wa = WrittenAlpha(d, a, da)
    OBVIOUS
  <2>8. /\ wc = IF d.clear THEN (IF d.clearColor THEN c ELSE Unpack(CBits, pixelWord.c))
                ELSE Masked(d.mask, new, Unpack(CBits, pixelWord.c))
        /\ wa = IF d.clear THEN (IF d.clearAlpha THEN a ELSE Unpack(ABits, pixelWord.a))
                ELSE Masked(d.maskAlpha, newA, Unpack(ABits, pixelWord.a))
    BY <2>1, <2>5, <2>7 DEF WrittenColor, WrittenAlpha, Composed
  <2>9. PutPx(f, d) = [c |-> Pack(CBits, wc), a |-> Pack(ABits, wa)]
    BY <1>2, <2>1, <2>7 DEF PutPx
  <2>10. /\ PutPx(f, d).c = Pack(CBits, wc) /\ PutPx(f, d).a = Pack(ABits, wa)
    BY <2>9
  <2>11. /\ d.clear \in BOOLEAN /\ d.clearColor \in BOOLEAN /\ d.clearAlpha \in BOOLEAN
         /\ d.mask \in 0..8 /\ d.maskAlpha \in 0..8
    BY RegsAre
  <2>12. /\ KeepC(f, d) = IF d.clear /\ ~d.clearColor THEN 8 ELSE IF d.clear THEN 0 ELSE d.mask
         /\ KeepA(f, d) = IF d.clear /\ ~d.clearAlpha THEN 8 ELSE IF d.clear THEN 0 ELSE d.maskAlpha
    BY <1>2 DEF KeepC, KeepA
  <2>13. Kept(CBits, pixelWord.c, Pack(CBits, wc), KeepC(f, d))
    BY <2>2, <2>4, <2>6, <2>8, <2>11, <2>12, ChannelKept
  <2>14. Kept(ABits, pixelWord.a, Pack(ABits, wa), KeepA(f, d))
    BY <2>2, <2>4, <2>6, <2>8, <2>11, <2>12, ChannelKept
  <2> QED  BY <1>2, <2>10, <2>13, <2>14
<1> QED  BY <1>1, <1>2

-----------------------------------------------------------------------------
(* What the model keeps of the pixel before.                               *)
WasFields == {"word", "depth", "place", "drawn", "keepC", "keepA", "keepZ"}

(* The inductive invariant.  What the pixel held before the fragment is in *)
(* was, and the upper bits the registers keep are the same in both.        *)
PixInv ==
    /\ format \in FiveFormats
    /\ was = [x \in WasFields |-> was[x]]
    /\ Kept(CBits, was.word.c, pixelWord.c, was.keepC)
    /\ Kept(ABits, was.word.a, pixelWord.a, was.keepA)
    /\ was.keepZ => depth = was.depth

LEMMA PixStarts == PixelInit => PixInv
<1> SUFFICES ASSUME PixelInit PROVE PixInv
  OBVIOUS
<1> USE DEF PixelInit
<1>1. format \in FiveFormats /\ CBits = 8 /\ ABits = 8
  BY DEF FiveFormats, CBits, ABits
<1>2. was = [x \in WasFields |-> was[x]]
  BY DEF WasFields
<1>3. pixelWord.c = 0 /\ pixelWord.a = 0 /\ was.word.c = 0 /\ was.word.a = 0
  OBVIOUS
<1>4. 0 \in ValuesOf(8)
  BY Powers DEF ValuesOf
<1> QED  BY <1>1, <1>2, <1>3, <1>4 DEF PixInv, Kept

LEMMA SetPixelKeeps ==
    ASSUME PixInv, NEW fm \in PixelFormats, NEW v \in PixelWords, SetPixel(fm, v)
    PROVE  PixInv'
<1>1. fm \in FiveFormats /\ v \in 0..8
  BY PixelAssumption DEF FiveFormats
<1>2. format' \in FiveFormats /\ CBits' = fm[1] /\ ABits' = fm[2]
  BY <1>1 DEF SetPixel, CBits, ABits
<1>3. /\ pixelWord'.c = ((2 ^ fm[1] - 1) * v) \div 8
      /\ pixelWord'.a = ((2 ^ fm[2] - 1) * (8 - v)) \div 8
  BY DEF SetPixel
<1>4. /\ ((2 ^ fm[1] - 1) * v) \div 8 \in ValuesOf(fm[1])
      /\ ((2 ^ fm[2] - 1) * (8 - v)) \div 8 \in ValuesOf(fm[2])
  <2>1. CASE fm = <<5, 0>>
    BY <1>1, <2>1, Powers DEF ValuesOf
  <2>2. CASE fm = <<6, 0>>
    BY <1>1, <2>2, Powers DEF ValuesOf
  <2>3. CASE fm = <<5, 1>>
    BY <1>1, <2>3, Powers DEF ValuesOf
  <2>4. CASE fm = <<4, 4>>
    BY <1>1, <2>4, Powers DEF ValuesOf
  <2>5. CASE fm = <<8, 8>>
    BY <1>1, <2>5, Powers DEF ValuesOf
  <2> QED  BY <1>1, <2>1, <2>2, <2>3, <2>4, <2>5 DEF FiveFormats
<1>5. /\ was' = [x \in WasFields |-> was'[x]]
      /\ was'.word = pixelWord' /\ was'.depth = depth'
  BY DEF PixInv, SetPixel, WasFields
<1> QED  BY <1>2, <1>3, <1>4, <1>5 DEF PixInv, Kept

LEMMA SettledIs ==
    ASSUME NEW f, NEW d, NEW dropped \in BOOLEAN, NEW s, s = Settled(f, d, dropped)
    PROVE  /\ s = [x \in WasFields |-> s[x]]
           /\ s.word = pixelWord /\ s.depth = depth
           /\ dropped => s.keepC = 8 /\ s.keepA = 8 /\ s.keepZ
           /\ ~dropped => /\ s.keepC = KeepC(f, d) /\ s.keepA = KeepA(f, d)
                          /\ s.keepZ => f.place = "outside" \/ IF Clears(f, d) THEN ~d.clearDepth
                                                               ELSE ~d.zwrite \/ d.ztest = -1
BY DEF Settled, WasFields, KeepC, KeepA

(* A fragment changes the pixel as its registers say, or not at all.       *)
LEMMA FragmentKeeps ==
    ASSUME PixInv, NEW f \in Fragments, NEW d \in PixelRegs, NEW dropped \in BOOLEAN,
           was' = Settled(f, d, dropped), format' = format,
           pixelWord' = IF dropped THEN pixelWord ELSE PutPx(f, d),
           was'.keepZ => depth' = depth
    PROVE  PixInv'
<1>1. format' \in FiveFormats /\ CBits' = CBits /\ ABits' = ABits
  BY DEF PixInv, CBits, ABits
<1>2. PICK s : s = Settled(f, d, dropped)
  OBVIOUS
<1>3. /\ s = [x \in WasFields |-> s[x]] /\ s.word = pixelWord /\ s.depth = depth
      /\ ~dropped => s.keepC = KeepC(f, d) /\ s.keepA = KeepA(f, d)
  BY <1>2, SettledIs
<1>4. pixelWord.c \in ValuesOf(CBits) /\ pixelWord.a \in ValuesOf(ABits)
  BY DEF PixInv, Kept
<1>5. /\ Kept(CBits, pixelWord.c, pixelWord'.c, s.keepC)
      /\ Kept(ABits, pixelWord.a, pixelWord'.a, s.keepA)
  <2>1. CASE dropped
    BY <1>4, <2>1 DEF Kept
  <2>2. CASE ~dropped
    <3>1. /\ Kept(CBits, pixelWord.c, PutPx(f, d).c, KeepC(f, d))
          /\ Kept(ABits, pixelWord.a, PutPx(f, d).a, KeepA(f, d))
      BY <1>4, PutKeeps DEF PixInv
    <3> QED  BY <1>3, <2>2, <3>1
  <2> QED  BY <2>1, <2>2
<1>6. was' = s
  BY <1>2
<1> QED  BY <1>1, <1>3, <1>5, <1>6 DEF PixInv

LEMMA DrawPixelKeeps ==
    ASSUME PixInv, NEW f \in Fragments, NEW d \in PixelRegs, DrawPixel(f, d)
    PROVE  PixInv'
<1>1. PICK dropped \in BOOLEAN : dropped = (~ZRangeOk(f, d) \/ ~AlphaTest(f, d) \/ ~ZTest(f, d))
  OBVIOUS
<1>2. /\ ~Clears(f, d) /\ format' = format /\ was' = Settled(f, d, dropped)
      /\ pixelWord' = IF dropped THEN pixelWord ELSE PutPx(f, d)
      /\ depth' = IF ~ZRangeOk(f, d) \/ ~AlphaTest(f, d) THEN depth ELSE DepthAfter(f, d)
  BY <1>1 DEF DrawPixel
<1>3. ASSUME was'.keepZ PROVE depth' = depth
  <2>1. CASE dropped
    BY <1>1, <1>2, <2>1 DEF DepthAfter
  <2>2. CASE ~dropped
    <3>1. f.place = "outside" \/ ~d.zwrite \/ d.ztest = -1
      BY <1>2, <1>3, <2>2, SettledIs
    <3> QED  BY <1>2, <3>1 DEF DepthAfter, ZTest
  <2> QED  BY <2>1, <2>2
<1> QED  BY <1>2, <1>3, FragmentKeeps

LEMMA ClearKeeps ==
    ASSUME PixInv, NEW f \in Fragments, NEW d \in PixelRegs, Clear(f, d)
    PROVE  PixInv'
<1>1. PICK dropped \in BOOLEAN : dropped = (f.by = "triangle" /\ ~ZRangeOk(f, d))
  OBVIOUS
<1>2. /\ Clears(f, d) /\ format' = format /\ was' = Settled(f, d, dropped)
      /\ pixelWord' = IF dropped THEN pixelWord ELSE PutPx(f, d)
      /\ depth' = IF d.clearDepth /\ f.place # "outside" /\ (f.by = "triangle" => ZRangeOk(f, d))
                  THEN f.z ELSE depth
  BY <1>1 DEF Clear
<1>3. ASSUME was'.keepZ PROVE depth' = depth
  <2>1. CASE dropped
    BY <1>1, <1>2, <2>1
  <2>2. CASE ~dropped
    <3>1. f.place = "outside" \/ ~d.clearDepth
      BY <1>2, <1>3, <2>2, SettledIs
    <3> QED  BY <1>2, <3>1
  <2> QED  BY <2>1, <2>2
<1> QED  BY <1>2, <1>3, FragmentKeeps

LEMMA PixStep == PixInv /\ [PixelNext]_pixVars => PixInv'
<1> SUFFICES ASSUME PixInv, [PixelNext]_pixVars PROVE PixInv'
  OBVIOUS
<1>1. ASSUME NEW fm \in PixelFormats, NEW v \in PixelWords, SetPixel(fm, v) PROVE PixInv'
  BY <1>1, SetPixelKeeps
<1>2. ASSUME NEW f \in Fragments, NEW d \in PixelRegs, DrawPixel(f, d) PROVE PixInv'
  BY <1>2, DrawPixelKeeps
<1>3. ASSUME NEW f \in Fragments, NEW d \in PixelRegs, Clear(f, d) PROVE PixInv'
  BY <1>3, ClearKeeps
<1>4. CASE UNCHANGED pixVars
  BY <1>4 DEF pixVars, PixInv, CBits, ABits
<1> QED  BY <1>1, <1>2, <1>3, <1>4 DEF PixelNext

(* In every format a fragment leaves the bits, the channel, the pixel and  *)
(* the depth it must not touch as they were, and writes within its         *)
(* channels.                                                               *)
THEOREM FragmentsKeepTheRest == PixelSpec => []KeepsTheRest
<1>1. PixelInit => PixInv
  BY PixStarts
<1>2. PixInv => KeepsTheRest
  BY DEF PixInv, Kept, ValuesOf, KeepsTheRest
<1> QED  BY <1>1, <1>2, PixStep, PTL DEF PixelSpec
=============================================================================
