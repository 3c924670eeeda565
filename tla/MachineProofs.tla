--------------------------- MODULE MachineProofs ---------------------------
(***************************************************************************)
(* What the parts of the machine promise holds for every value of their    *)
(* constants: any size of code, memory, table and stack, any number of     *)
(* threads, clients and descriptors.  The parts share no state, and each   *)
(* has an inductive invariant of its own.                                  *)
(***************************************************************************)
EXTENDS Interp, Instructions, Runtime, GuestCalls, GuestMemory, FileIO, IsoFs, Clock,
        SequenceTheorems, FiniteSetTheorems, WellFoundedInduction, TLAPS

(* Numbers and remainders.                                                 *)
LEMMA HasLeast ==
    ASSUME NEW S, S \subseteq Nat, S # {}
    PROVE  \E x \in S : \A y \in S : x <= y
<1> DEFINE R == OpToRel(<, Nat)
<1>1. IsWellFoundedOn(R, Nat)
  BY NatLessThanWellFounded
<1>2. PICK x \in S : \A y \in S : ~ (<<y, x>> \in R)
  BY <1>1, IsWellFoundedOnSubset, WFMin
<1>3. ASSUME NEW y \in S PROVE x <= y
  <2>1. x \in Nat /\ y \in Nat /\ ~ (y < x)
    BY <1>2 DEF OpToRel
  <2> QED  BY <2>1
<1> QED  BY <1>3

(* Remainders, as the code's rounding takes them.                          *)
LEMMA DivMod ==
    ASSUME NEW n \in Nat \ {0}, NEW a \in Nat
    PROVE  /\ a = n * (a \div n) + (a % n)
           /\ a \div n \in Nat /\ a % n \in 0 .. n - 1
BY SMT

-----------------------------------------------------------------------------
(* The reference interpreter, for any code and any memory.                 *)

(* The interpreter's registers and memory, what the model keeps of the     *)
(* instruction before, and its instructions.                               *)
Hart  == [r : [RegNums -> Nat], pc : Nat, next : Nat, slot : BOOLEAN, fpcond : BOOLEAN]
Datum == [0 .. MemSize - 1 -> Nat]
Jumps == Nat \cup {NoJump}
Trail == [pc : Jumps, to : Jumps, annuls : BOOLEAN, due : Jumps]
Insns == [op : {"compute", "branch", "load", "store", "stop"}, to : Nat, taken : BOOLEAN,
          likely : BOOLEAN, a : Nat, size : Nat]

(* The inductive invariant.  After a legal program's step the processor is *)
(* in a delay slot exactly when the instruction executed was a taken       *)
(* branch, and it then goes where that branch leads; and whoever replays   *)
(* the trace has its registers and memory.                                 *)
InterpInv ==
    /\ hart \in Hart /\ mem \in Datum /\ trail \in Trail /\ legal \in BOOLEAN
    /\ legal => /\ hart.slot <=> trail.to # NoJump
                /\ hart.slot => hart.next = trail.to
                /\ hart.pc = NextPc
    /\ TraceReplays

(* What every instruction leaves: the next one is the following one, the   *)
(* one after it, or in a slot the branch's target is waiting.              *)
Follows(i, c) ==
    /\ c \in Hart /\ c.r[0] = hart.r[0]
    /\ i.op = "branch" /\ i.taken => c.pc = hart.pc + 1 /\ c.next = i.to /\ c.slot
    /\ ~ (i.op = "branch" /\ i.taken) =>
           /\ c.next = hart.next /\ c.slot = hart.slot
           /\ c.pc = IF i.likely /\ ~ i.taken THEN hart.pc + 2 ELSE hart.pc + 1

(* Memory changes only where the trace says that the instruction stores.   *)
StoresOnly(i, newMem) ==
    /\ newMem \in Datum
    /\ \A a \in 0 .. MemSize - 1 :
           a \notin Touched(StoreInfo(i).a, StoreInfo(i).size) => newMem[a] = mem[a]

LEMMA SettledFields ==
    ASSUME NEW c \in Hart, NEW b \in BOOLEAN, NEW h, h = Settled(c, b)
    PROVE  /\ h \in Hart /\ h.r = c.r /\ h.next = c.next
           /\ c.slot /\ b => h.pc = c.next /\ ~ h.slot
           /\ ~ (c.slot /\ b) => h.pc = c.pc /\ h.slot = c.slot
BY DEF Settled, Hart

LEMMA EntryFields ==
    ASSUME NEW i \in Insns, NEW pc \in Nat, trail \in Trail, NEW e, e = Entry(i, pc)
    PROVE  /\ e \in Trail /\ e.pc = pc /\ e.due = trail.to
           /\ i.op = "branch" /\ i.taken => e.to = i.to
           /\ ~ (i.op = "branch" /\ i.taken) => e.to = NoJump
           /\ e.annuls <=> i.likely /\ ~ i.taken
BY DEF Entry, Insns, Trail, Jumps

(* The line an instruction adds to the trace carries all that it changed.  *)
LEMMA LineRepeats ==
    ASSUME TraceReplays, hart \in Hart, mem \in Datum, NEW i \in Insns, NEW c, NEW newMem,
           Follows(i, c), StoresOnly(i, newMem)
    PROVE  Applied(Line(hart.r, c.r, StoreInfo(i), newMem)) = [r |-> c.r, mem |-> newMem]
<1> DEFINE T == Touched(StoreInfo(i).a, StoreInfo(i).size)
           L == Line(hart.r, c.r, StoreInfo(i), newMem)
<1>0. /\ hart.r \in [RegNums -> Nat] /\ c.r \in [RegNums -> Nat] /\ c.r[0] = hart.r[0]
      /\ replay.r = hart.r /\ replay.mem = mem /\ newMem \in [0 .. MemSize - 1 -> Nat]
      /\ mem \in [0 .. MemSize - 1 -> Nat]
  BY DEF TraceReplays, Follows, StoresOnly, Hart, Datum
<1>1. [j \in RegNums |-> IF j \in DOMAIN L.r THEN L.r[j] ELSE replay.r[j]] = c.r
  <2>1. ASSUME NEW j \in RegNums
        PROVE (IF j \in DOMAIN L.r THEN L.r[j] ELSE replay.r[j]) = c.r[j]
    BY <1>0 DEF Line
  <2> QED  BY <2>1, <1>0
<1>2. [a \in DOMAIN replay.mem |-> IF a \in DOMAIN L.mem THEN L.mem[a] ELSE replay.mem[a]]
      = newMem
  <2>1. ASSUME NEW a \in 0 .. MemSize - 1
        PROVE (IF a \in DOMAIN L.mem THEN L.mem[a] ELSE replay.mem[a]) = newMem[a]
    BY <1>0 DEF Line, StoresOnly
  <2>2. DOMAIN replay.mem = 0 .. MemSize - 1
    BY <1>0
  <2> QED  BY <2>1, <2>2, <1>0
<1> QED  BY <1>1, <1>2 DEF Applied

(* An instruction that does no more than this keeps the invariant.         *)
LEMMA TurnKeeps ==
    ASSUME InterpInv, NEW i \in Insns, NEW c, NEW newMem, NEW newFault, NEW why,
           Follows(i, c), StoresOnly(i, newMem), Ends(i, c, newMem, newFault, why)
    PROVE  InterpInv'
<1> DEFINE h == Settled(c, hart.slot)
           e == Entry(i, hart.pc)
<1>0. hart \in Hart /\ mem \in Datum /\ trail \in Trail /\ legal \in BOOLEAN /\ TraceReplays
      /\ c \in Hart /\ hart.pc \in Nat /\ hart.slot \in BOOLEAN /\ newMem \in Datum
      /\ hart.next \in Nat
  BY DEF InterpInv, Follows, StoresOnly, Hart
<1>1. hart' = h /\ mem' = newMem /\ trail' = e
      /\ legal' = (legal /\ ~ (hart.slot /\ i.op = "branch"))
      /\ replay' = Applied(Line(hart.r, c.r, StoreInfo(i), newMem))
  BY DEF Ends
<1>2. /\ h \in Hart /\ h.r = c.r /\ h.next = c.next
      /\ c.slot /\ hart.slot => h.pc = c.next /\ ~ h.slot
      /\ ~ (c.slot /\ hart.slot) => h.pc = c.pc /\ h.slot = c.slot
  BY <1>0, SettledFields
<1>3. /\ e \in Trail /\ e.pc = hart.pc /\ e.due = trail.to
      /\ i.op = "branch" /\ i.taken => e.to = i.to
      /\ ~ (i.op = "branch" /\ i.taken) => e.to = NoJump
      /\ e.annuls <=> i.likely /\ ~ i.taken
  BY <1>0, EntryFields
<1> HIDE DEF h, e
<1>4. TraceReplays'
  BY <1>0, <1>1, <1>2, LineRepeats DEF TraceReplays
<1>5. ASSUME legal'
      PROVE  /\ h.slot <=> e.to # NoJump
             /\ h.slot => h.next = e.to
             /\ h.pc = (IF e.due # NoJump THEN e.due ELSE IF e.annuls THEN e.pc + 2 ELSE e.pc + 1)
  <2>1. legal /\ ~ (hart.slot /\ i.op = "branch")
    BY <1>0, <1>1, <1>5
  <2>2. /\ hart.slot <=> trail.to # NoJump
        /\ hart.slot => hart.next = trail.to
    BY <2>1 DEF InterpInv
  <2>3. i.to \in Nat /\ NoJump \notin Nat
    BY DEF Insns, NoJump
  <2>4. CASE i.op = "branch" /\ i.taken
    BY <2>4, <2>1, <2>2, <2>3, <1>2, <1>3 DEF Follows
  <2>5. CASE ~ (i.op = "branch" /\ i.taken) /\ hart.slot
    BY <2>5, <2>1, <2>2, <2>3, <1>2, <1>3 DEF Follows
  <2>6. CASE ~ (i.op = "branch" /\ i.taken) /\ ~ hart.slot
    BY <2>6, <2>1, <2>2, <2>3, <1>2, <1>3 DEF Follows
  <2> QED  BY <2>4, <2>5, <2>6
<1> QED  BY <1>0, <1>1, <1>2, <1>3, <1>4, <1>5 DEF InterpInv, NextPc

(* The instructions, by what they do to the next addresses.                *)
LEMMA StoresNothing ==
    ASSUME mem \in Datum, NEW i \in Insns
    PROVE  StoresOnly(i, mem)
BY DEF StoresOnly

LEMMA RegistersSet ==
    ASSUME NEW r \in [RegNums -> Nat], NEW rd \in RegNums, NEW v \in Nat
    PROVE  SetR(r, rd, v) \in [RegNums -> Nat] /\ SetR(r, rd, v)[0] = r[0]
BY DEF SetR, RegNums

LEMMA AdvanceFollows ==
    ASSUME hart \in Hart, NEW i \in Insns, i.op # "branch", ~ i.likely,
           NEW r \in [RegNums -> Nat], r[0] = hart.r[0]
    PROVE  Follows(i, Advance(r)) /\ Advance(r).r = r
<1>1. /\ Advance(r) \in Hart /\ Advance(r).r = r /\ Advance(r).pc = hart.pc + 1
      /\ Advance(r).next = hart.next /\ Advance(r).slot = hart.slot
  <2>1. hart.pc + 1 \in Nat
    BY DEF Hart
  <2> QED  BY <2>1, Zenon DEF Advance, Hart
<1> QED  BY <1>1 DEF Follows

LEMMA BranchFollows ==
    ASSUME hart \in Hart, NEW i \in Insns, i.op = "branch",
           NEW c, c = IF i.likely THEN Likely(i.to, i.taken) ELSE Branch(i.to, i.taken)
    PROVE  Follows(i, c) /\ c.r = hart.r
<1>0. i.to \in Nat /\ i.likely \in BOOLEAN /\ i.taken \in BOOLEAN
  BY DEF Insns
<1>1. CASE i.taken
  <2>1. c = [hart EXCEPT !.pc = @ + 1, !.next = i.to, !.slot = TRUE]
    BY <1>1, <1>0, Zenon DEF Likely, Branch
  <2>2. c \in Hart /\ c.r = hart.r /\ c.pc = hart.pc + 1 /\ c.next = i.to /\ c.slot
    <3>1. hart.pc + 1 \in Nat
      BY DEF Hart
    <3> QED  BY <2>1, <1>0, <3>1, Zenon DEF Hart
  <2> QED  BY <2>2, <1>1 DEF Follows
<1>2. CASE ~ i.taken
  <2>1. c = [hart EXCEPT !.pc = IF i.likely THEN hart.pc + 2 ELSE hart.pc + 1]
    BY <1>2, <1>0 DEF Likely, Branch, Hart
  <2>2. /\ c \in Hart /\ c.r = hart.r /\ c.next = hart.next /\ c.slot = hart.slot
        /\ c.pc = IF i.likely THEN hart.pc + 2 ELSE hart.pc + 1
    BY <2>1, <1>0 DEF Hart
  <2> QED  BY <2>2, <1>2 DEF Follows
<1> QED  BY <1>1, <1>2, <1>0

LEMMA LinkFollows ==
    ASSUME hart \in Hart, NEW i \in Insns, NEW c, Follows(i, c), c.r = hart.r,
           NEW rd \in RegNums
    PROVE  Follows(i, Linked(c, rd))
<1>1. /\ SetR(hart.r, rd, LinkPc) \in [RegNums -> Nat]
      /\ SetR(hart.r, rd, LinkPc)[0] = hart.r[0]
  <2>1. hart.r \in [RegNums -> Nat] /\ LinkPc \in Nat
    BY DEF Hart, LinkPc
  <2> QED  BY <2>1, RegistersSet
<1>2. /\ Linked(c, rd) \in Hart /\ Linked(c, rd).r = SetR(hart.r, rd, LinkPc)
      /\ Linked(c, rd).pc = c.pc /\ Linked(c, rd).next = c.next /\ Linked(c, rd).slot = c.slot
  <2>1. c \in Hart
    BY DEF Follows
  <2> QED  BY <1>1, <2>1 DEF Hart, Linked
<1> QED  BY <1>1, <1>2 DEF Follows

LEMMA PlainInsns ==
    ASSUME NEW op \in {"compute", "branch", "load", "store", "stop"}, NEW i, i = Instr(op)
    PROVE  i \in Insns /\ i.op = op /\ ~ i.likely
BY DEF Instr, Insns

(* The instructions as their actions write them down.                      *)
BranchOn(to, taken, likely) ==
    [Instr("branch") EXCEPT !.to = to, !.taken = taken, !.likely = likely]
JumpTo(to)     == [Instr("branch") EXCEPT !.to = to, !.taken = TRUE]
StoreTo(a, size) == [Instr("store") EXCEPT !.a = a, !.size = size]

LEMMA BranchInsns ==
    ASSUME NEW to \in Nat, NEW taken \in BOOLEAN, NEW likely \in BOOLEAN
    PROVE  LET i == BranchOn(to, taken, likely)
           IN  /\ i \in Insns /\ i.op = "branch"
               /\ i.to = to /\ i.taken = taken /\ i.likely = likely
BY Zenon DEF BranchOn, Instr, Insns

LEMMA JumpInsns ==
    ASSUME NEW to \in Nat
    PROVE  LET i == JumpTo(to)
           IN  /\ i \in Insns /\ i.op = "branch"
               /\ i.to = to /\ i.taken = TRUE /\ i.likely = FALSE
BY Zenon DEF JumpTo, Instr, Insns

LEMMA StoreInsns ==
    ASSUME NEW a \in Nat, NEW size \in Nat
    PROVE  LET i == StoreTo(a, size)
           IN  i \in Insns /\ i.op = "store" /\ i.a = a /\ i.size = size /\ ~ i.likely
<1>1. 0 \in Nat
  OBVIOUS
<1> QED  BY <1>1, Zenon DEF StoreTo, Instr, Insns

(* One lemma for each way an instruction ends.                             *)
LEMMA StepKeeps ==
    ASSUME InterpInv, NEW i \in Insns, NEW c, Follows(i, c), Steps(i, c)
    PROVE  InterpInv'
BY StoresNothing, TurnKeeps DEF InterpInv, Steps

(* One lemma for each kind of instruction.                                 *)
LEMMA ComputeKeeps ==
    ASSUME InterpInv, Compute \/ CompareFp \/ Break
    PROVE  InterpInv'
<1> DEFINE i == Instr("compute")
<1>0. i \in Insns /\ i.op # "branch" /\ ~ i.likely
  BY PlainInsns
<1>1. hart \in Hart /\ hart.r \in [RegNums -> Nat]
  BY DEF InterpInv, Hart
<1>2. CASE Compute
  <2>1. PICK rd \in RegNums, v \in CpuResults : Steps(i, Advance(SetR(hart.r, rd, v)))
    BY <1>2 DEF Compute
  <2>2. /\ SetR(hart.r, rd, v) \in [RegNums -> Nat]
        /\ SetR(hart.r, rd, v)[0] = hart.r[0]
    BY <1>1, InterpAssumption, RegistersSet
  <2> QED  BY <2>1, <2>2, <1>0, <1>1, AdvanceFollows, StepKeeps
<1>3. CASE CompareFp
  <2>1. PICK b \in BOOLEAN : Steps(i, [Advance(hart.r) EXCEPT !.fpcond = b])
    BY <1>3 DEF CompareFp
  <2> DEFINE c == [Advance(hart.r) EXCEPT !.fpcond = b]
  <2>2. Follows(i, Advance(hart.r))
    BY <1>0, <1>1, AdvanceFollows
  <2>3. /\ c \in Hart /\ c.r = Advance(hart.r).r /\ c.pc = Advance(hart.r).pc
        /\ c.next = Advance(hart.r).next /\ c.slot = Advance(hart.r).slot
    BY <2>2 DEF Follows, Hart
  <2> HIDE DEF c
  <2>4. Follows(i, c)
    BY <2>2, <2>3 DEF Follows
  <2>5. Steps(i, c)
    BY <2>1 DEF c
  <2> QED  BY <2>4, <2>5, <1>0, StepKeeps
<1>4. CASE Break
  <2>1. Steps(i, Advance(hart.r))
    BY <1>4 DEF Break
  <2> QED  BY <2>1, <1>0, <1>1, AdvanceFollows, StepKeeps
<1> QED  BY <1>2, <1>3, <1>4

LEMMA BranchesKeep ==
    ASSUME InterpInv, ConditionalBranch \/ FpBranch \/ Jump \/ JumpRegister
    PROVE  InterpInv'
<1>1. hart \in Hart /\ hart.r \in [RegNums -> Nat] /\ LinkPc \in Nat
  BY DEF InterpInv, Hart, LinkPc
<1>2. Targets \subseteq Nat /\ 0 \in RegNums /\ 31 \in RegNums
  BY InterpAssumption DEF Targets, RegNums
<1>3. CASE ConditionalBranch
  <2>1. PICK to \in Targets, taken \in BOOLEAN, likely \in BOOLEAN, link \in {0, 31} :
            Steps([Instr("branch") EXCEPT !.to = to, !.taken = taken, !.likely = likely],
                  Linked(IF likely THEN Likely(to, taken) ELSE Branch(to, taken), link))
    BY <1>3, Zenon DEF ConditionalBranch
  <2> DEFINE i == BranchOn(to, taken, likely)
             c == IF likely THEN Likely(to, taken) ELSE Branch(to, taken)
  <2>2. /\ i \in Insns /\ i.op = "branch" /\ i.to = to
        /\ i.taken = taken /\ i.likely = likely
    BY <1>2, BranchInsns
  <2>3. c = IF i.likely THEN Likely(i.to, i.taken) ELSE Branch(i.to, i.taken)
    BY <2>2
  <2>4. Steps(i, Linked(c, link))
    BY <2>1 DEF BranchOn
  <2> HIDE DEF i, c
  <2>5. Follows(i, c) /\ c.r = hart.r
    BY <2>2, <2>3, <1>1, BranchFollows
  <2>6. Follows(i, Linked(c, link))
    BY <2>2, <2>5, <1>1, <1>2, LinkFollows
  <2> QED  BY <2>2, <2>4, <2>6, StepKeeps
<1>4. CASE FpBranch
  <2>1. PICK to \in Targets, tf \in BOOLEAN, likely \in BOOLEAN :
            LET taken == hart.fpcond = tf IN
            Steps([Instr("branch") EXCEPT !.to = to, !.taken = taken, !.likely = likely],
                  IF likely THEN Likely(to, taken) ELSE Branch(to, taken))
    BY <1>4, Zenon DEF FpBranch
  <2> DEFINE taken == hart.fpcond = tf
             i == BranchOn(to, taken, likely)
             c == IF likely THEN Likely(to, taken) ELSE Branch(to, taken)
  <2>0. taken \in BOOLEAN
    OBVIOUS
  <2>4. Steps(i, c)
    BY <2>1 DEF BranchOn
  <2> HIDE DEF taken
  <2>2. /\ i \in Insns /\ i.op = "branch" /\ i.to = to
        /\ i.taken = taken /\ i.likely = likely
    BY <1>2, <2>0, BranchInsns
  <2>3. c = IF i.likely THEN Likely(i.to, i.taken) ELSE Branch(i.to, i.taken)
    BY <2>2
  <2> HIDE DEF i, c
  <2>5. Follows(i, c)
    BY <2>2, <2>3, <1>1, BranchFollows
  <2> QED  BY <2>2, <2>4, <2>5, StepKeeps
<1>5. ASSUME NEW to \in Nat, NEW rd \in RegNums,
             Steps([Instr("branch") EXCEPT !.to = to, !.taken = TRUE],
                   Linked(Branch(to, TRUE), rd))
      PROVE  InterpInv'
  <2> DEFINE i == JumpTo(to)
             c == Branch(to, TRUE)
  <2>2. /\ i \in Insns /\ i.op = "branch" /\ i.to = to
        /\ i.taken = TRUE /\ i.likely = FALSE
    BY JumpInsns
  <2>3. c = IF i.likely THEN Likely(i.to, i.taken) ELSE Branch(i.to, i.taken)
    BY <2>2
  <2>4. Steps(i, Linked(c, rd))
    BY <1>5 DEF JumpTo
  <2> HIDE DEF i, c
  <2>5. Follows(i, c) /\ c.r = hart.r
    BY <2>2, <2>3, <1>1, BranchFollows
  <2>6. Follows(i, Linked(c, rd))
    BY <2>2, <2>5, <1>1, LinkFollows
  <2> QED  BY <2>2, <2>4, <2>6, StepKeeps
<1>6. CASE Jump
  BY <1>6, <1>2, <1>5 DEF Jump
<1>7. CASE JumpRegister
  <2>1. PICK rs \in RegNums, rd \in RegNums :
            LET to == SetR(hart.r, rd, LinkPc)[rs]
            IN  Steps([Instr("branch") EXCEPT !.to = to, !.taken = TRUE],
                      Linked(Branch(to, TRUE), rd))
    BY <1>7, Zenon DEF JumpRegister
  <2>2. SetR(hart.r, rd, LinkPc)[rs] \in Nat
    BY <1>1, RegistersSet
  <2> QED  BY <2>1, <2>2, <1>5
<1> QED  BY <1>3, <1>4, <1>6, <1>7

LEMMA AccessesKeep ==
    ASSUME InterpInv, Load \/ Store \/ Stops \/ FetchFaults
    PROVE  InterpInv'
<1>1. hart \in Hart /\ hart.r \in [RegNums -> Nat] /\ mem \in Datum
  BY DEF InterpInv, Hart
<1>2. CASE Load
  <2>1. PICK rd \in RegNums, a \in 0 .. MemSize :
            Ends(Instr("load"), Advance(SetR(hart.r, rd, IF InRam(a, 1) THEN mem[a] ELSE 0)),
                 mem, fault \/ ~ InRam(a, 1), Running)
    BY <1>2, Zenon DEF Load
  <2> DEFINE i == Instr("load")
             v == IF InRam(a, 1) THEN mem[a] ELSE 0
  <2>2. v \in Nat
    BY <1>1, InterpAssumption DEF InRam, Datum
  <2>3. i \in Insns /\ i.op # "branch" /\ ~ i.likely
    BY PlainInsns
  <2>4. Ends(i, Advance(SetR(hart.r, rd, v)), mem, fault \/ ~ InRam(a, 1), Running)
    BY <2>1
  <2> HIDE DEF i, v
  <2>5. SetR(hart.r, rd, v) \in [RegNums -> Nat] /\ SetR(hart.r, rd, v)[0] = hart.r[0]
    BY <1>1, <2>2, RegistersSet
  <2>6. Follows(i, Advance(SetR(hart.r, rd, v)))
    BY <1>1, <2>3, <2>5, AdvanceFollows
  <2>7. StoresOnly(i, mem)
    BY <1>1, <2>3, StoresNothing
  <2> QED  BY <2>3, <2>4, <2>6, <2>7, TurnKeeps
<1>3. CASE Store
  <2>1. PICK a \in 0 .. MemSize, size \in {1, 2}, v \in Bytes :
            Ends([Instr("store") EXCEPT !.a = a, !.size = size], Advance(hart.r),
                 [b \in DOMAIN mem |-> IF b \in Touched(a, size) THEN v ELSE mem[b]],
                 fault \/ ~ InRam(a, size), Running)
    BY <1>3, Zenon DEF Store
  <2> DEFINE i == StoreTo(a, size)
             m == [b \in DOMAIN mem |-> IF b \in Touched(a, size) THEN v ELSE mem[b]]
  <2>2. i \in Insns /\ i.op = "store" /\ i.a = a /\ i.size = size /\ ~ i.likely
    <3>1. a \in Nat /\ size \in Nat
      BY InterpAssumption
    <3> QED  BY <3>1, StoreInsns
  <2>3. Ends(i, Advance(hart.r), m, fault \/ ~ InRam(a, size), Running)
    BY <2>1 DEF StoreTo
  <2>4. /\ m \in Datum
        /\ \A b \in 0 .. MemSize - 1 : b \notin Touched(a, size) => m[b] = mem[b]
    BY <1>1 DEF Datum, Bytes
  <2> HIDE DEF i, m
  <2>5. StoresOnly(i, m)
    BY <2>2, <2>4 DEF StoresOnly, StoreInfo
  <2>6. Follows(i, Advance(hart.r))
    BY <1>1, <2>2, AdvanceFollows
  <2> QED  BY <2>2, <2>3, <2>5, <2>6, TurnKeeps
<1>4. CASE Stops
  <2>1. PICK why \in {"syscall", "unimplemented"} :
            Ends(Instr("stop"), Advance(hart.r), mem, fault, why)
    BY <1>4, Zenon DEF Stops
  <2>2. Instr("stop") \in Insns /\ Instr("stop").op # "branch" /\ ~ Instr("stop").likely
    BY PlainInsns
  <2>3. Follows(Instr("stop"), Advance(hart.r)) /\ StoresOnly(Instr("stop"), mem)
    BY <1>1, <2>2, AdvanceFollows, StoresNothing
  <2> QED  BY <2>1, <2>2, <2>3, TurnKeeps
<1>5. CASE FetchFaults
  BY <1>5 DEF FetchFaults, InterpInv, NextPc, TraceReplays
<1> QED  BY <1>2, <1>3, <1>4, <1>5

(* Initially nothing was executed.                                         *)
LEMMA InterpStarts ==
    ASSUME InterpInit
    PROVE  InterpInv
<1>1. hart \in Hart /\ mem \in Datum /\ trail \in Trail /\ legal \in BOOLEAN
  BY InterpAssumption DEF InterpInit, Hart, Datum, Trail, Jumps, None, NoJump, RegNums
<1>2. /\ hart.slot = FALSE /\ hart.pc = 0
      /\ trail.to = NoJump /\ trail.due = NoJump /\ trail.annuls = FALSE /\ trail.pc = NoJump
  BY DEF InterpInit, None
<1>3. hart.pc = NextPc
  BY <1>2 DEF NextPc, NoJump
<1>4. TraceReplays
  BY DEF InterpInit, TraceReplays
<1> QED  BY <1>1, <1>2, <1>3, <1>4 DEF InterpInv

(* Control flows as the architecture says, delay slots, annulment and      *)
(* links included, and the trace replays to the interpreter's own state.   *)
THEOREM InterpreterIsFaithful == InterpSpec => []InterpreterFaithful
<1>1. InterpInit => InterpInv
  BY InterpStarts
<1>2. InterpInv /\ [InterpNext]_interpVars => InterpInv'
  <2> SUFFICES ASSUME InterpInv, [InterpNext]_interpVars  PROVE InterpInv'
    OBVIOUS
  <2>1. CASE UNCHANGED interpVars
    BY <2>1 DEF interpVars, InterpInv, NextPc, TraceReplays
  <2> QED  BY <2>1, ComputeKeeps, BranchesKeep, AccessesKeep DEF InterpNext
<1>3. InterpInv => InterpreterFaithful
  BY DEF InterpInv, InterpreterFaithful, FlowsAsMips
<1> QED  BY <1>1, <1>2, <1>3, PTL DEF InterpSpec

-----------------------------------------------------------------------------
(* The table of functions, for any capacity and any set of functions.      *)

(* The table, and the positions of a probe sequence.                       *)
Entry0  == [addr : Nat, fn : Bodies \cup {NoBody}]
Indices == 0 .. TableCap - 1

(* The entry at probe n of f holds f's function.                           *)
Holds(f, n) == table[Probe(f)[n]].fn # NoBody /\ table[Probe(f)[n]].addr = f

(* Up to it, every probe meets another address's entry.                    *)
Reached(f, n) ==
    \A m \in Indices : m < n => /\ table[Probe(f)[m]].fn # NoBody
                                /\ table[Probe(f)[m]].addr # f

(* The inductive invariant: wherever an address is met in its own probe    *)
(* sequence, it is with the function last registered, and nothing before   *)
(* it in the sequence is free.  Every registered address is met.           *)
TableInv ==
    /\ table \in [Indices -> Entry0]
    /\ latest \in [Functions -> Bodies \cup {NoBody}]
    /\ \A f \in Functions : \A n \in Indices :
           Holds(f, n) => table[Probe(f)[n]].fn = latest[f] /\ Reached(f, n)
    /\ \A f \in Functions : latest[f] # NoBody => \E n \in Indices : Holds(f, n)

(* A probe sequence meets every position of the table, once.               *)
LEMMA ProbeFields ==
    ASSUME NEW f \in Functions
    PROVE  /\ \A n \in Indices : Probe(f)[n] \in Indices
           /\ \A n, m \in Indices : Probe(f)[n] = Probe(f)[m] => n = m
<1>0. f \in Nat /\ TableCap \in Nat \ {0}
  BY RuntimeAssumption
<1>1. ASSUME NEW n \in Indices
      PROVE  Probe(f)[n] = (f + n) % TableCap /\ (f + n) % TableCap \in Indices
  BY <1>0, <1>1 DEF Probe, Indices
<1>2. ASSUME NEW n \in Indices, NEW m \in Indices, (f + n) % TableCap = (f + m) % TableCap
      PROVE  n = m
  <2>1. n \in Nat /\ m \in Nat /\ n < TableCap /\ m < TableCap
    BY <1>0 DEF Indices
  <2>2. PICK q \in Int : f + n = TableCap * q + ((f + n) % TableCap)
    <3> DEFINE d == (f + n) \div TableCap
    <3>1. f + n \in Nat
      BY <1>0, <2>1
    <3>2. d \in Nat /\ f + n = TableCap * d + ((f + n) % TableCap)
      BY <1>0, <3>1, DivMod
    <3> HIDE DEF d
    <3>3. d \in Int
      BY <3>2
    <3> QED  BY <3>2, <3>3, Zenon
  <2>3. PICK r \in Int : f + m = TableCap * r + ((f + m) % TableCap)
    <3> DEFINE d == (f + m) \div TableCap
    <3>1. f + m \in Nat
      BY <1>0, <2>1
    <3>2. d \in Nat /\ f + m = TableCap * d + ((f + m) % TableCap)
      BY <1>0, <3>1, DivMod
    <3> HIDE DEF d
    <3>3. d \in Int
      BY <3>2
    <3> QED  BY <3>2, <3>3, Zenon
  <2>4. (f + n) % TableCap \in Int
    BY <1>0, <2>1
  <2>5. n - m = TableCap * q - TableCap * r
    <3> DEFINE x == TableCap * q
               y == TableCap * r
               z == (f + n) % TableCap
    <3>1. x \in Int /\ y \in Int /\ z \in Int /\ f + n = x + z /\ f + m = y + z
      BY <1>0, <1>2, <2>2, <2>3, <2>4
    <3> HIDE DEF x, y, z
    <3>2. n - m = x - y
      BY <1>0, <2>1, <3>1
    <3> QED  BY <3>2 DEF x, y
  <2>6. q = r
    <3>1. CASE q < r
      <4>1. TableCap * q + TableCap <= TableCap * r
        BY <1>0, <3>1
      <4>2. TableCap * q \in Int /\ TableCap * r \in Int
        BY <1>0
      <4> QED  BY <1>0, <2>1, <2>5, <4>1, <4>2
    <3>2. CASE r < q
      <4>1. TableCap * r + TableCap <= TableCap * q
        BY <1>0, <3>2
      <4>2. TableCap * q \in Int /\ TableCap * r \in Int
        BY <1>0
      <4> QED  BY <1>0, <2>1, <2>5, <4>1, <4>2
    <3> QED  BY <3>1, <3>2
  <2>7. TableCap * q \in Int
    BY <1>0
  <2> QED  BY <2>1, <2>5, <2>6, <2>7
<1> QED  BY <1>1, <1>2

(* The seat an address takes is the first of its sequence that is free or  *)
(* its own.                                                                *)
LEMMA SeatIsFirst ==
    ASSUME NEW f, Seat(f) # {}, NEW k, k = First(Seat(f))
    PROVE  /\ k \in Indices /\ k \in Seat(f)
           /\ \A m \in Indices : m < k => /\ table[Probe(f)[m]].fn # NoBody
                                          /\ table[Probe(f)[m]].addr # f
<1>1. Seat(f) \subseteq Indices /\ Indices \subseteq Nat
  BY DEF Seat, Indices
<1>2. \E x \in Seat(f) : \A y \in Seat(f) : x <= y
  BY <1>1, HasLeast
<1>3. k \in Seat(f) /\ \A y \in Seat(f) : k <= y
  BY <1>2 DEF First
<1>4. ASSUME NEW m \in Indices, m < k PROVE m \notin Seat(f)
  <2>1. k \in Nat /\ m \in Nat
    BY <1>1, <1>3
  <2> QED  BY <1>3, <1>4, <2>1
<1> QED  BY <1>1, <1>3, <1>4 DEF Seat, Indices

(* A lookup stops at the address looked up.                                *)
LEMMA LookupIsLatest ==
    ASSUME TableInv
    PROVE  LookupFindsLast
<1> SUFFICES ASSUME NEW f \in Functions  PROVE Lookup(f) = latest[f]
  BY DEF LookupFindsLast
<1>1. CASE Seat(f) = {}
  <2>1. \A n \in Indices : ~ Holds(f, n)
    BY <1>1 DEF Seat, Holds, Indices
  <2> QED  BY <1>1, <2>1 DEF TableInv, Lookup
<1>2. CASE Seat(f) # {}
  <2>1. PICK k : k = First(Seat(f))
    OBVIOUS
  <2>2. /\ k \in Indices /\ k \in Seat(f)
        /\ \A m \in Indices : m < k => /\ table[Probe(f)[m]].fn # NoBody
                                       /\ table[Probe(f)[m]].addr # f
    BY <1>2, <2>1, SeatIsFirst
  <2>3. table[Probe(f)[k]].fn = NoBody \/ table[Probe(f)[k]].addr = f
    BY <2>2 DEF Seat
  <2>4. Lookup(f) = table[Probe(f)[k]].fn
    BY <1>2, <2>1 DEF Lookup
  <2>5. CASE Holds(f, k)
    BY <2>2, <2>4, <2>5 DEF TableInv
  <2>6. CASE ~ Holds(f, k)
    <3>1. table[Probe(f)[k]].fn = NoBody
      BY <2>3, <2>6 DEF Holds
    <3>2. ASSUME latest[f] # NoBody  PROVE FALSE
      <4>1. PICK n \in Indices : Holds(f, n)
        BY <3>2 DEF TableInv
      <4>2. Reached(f, n)
        BY <4>1 DEF TableInv
      <4>3. ~ (k < n)
        BY <2>2, <3>1, <4>2 DEF Reached
      <4>4. ~ (n < k)
        BY <2>2, <4>1 DEF Holds
      <4>5. n = k
        BY <2>2, <4>3, <4>4 DEF Indices
      <4> QED  BY <4>1, <4>5, <2>6
    <3> QED  BY <2>4, <3>1, <3>2
  <2> QED  BY <2>5, <2>6
<1> QED  BY <1>1, <1>2

(* Registering fills one seat, which was free or the address's own.        *)
LEMMA RegisterKeeps ==
    ASSUME TableInv, NEW f \in Functions, NEW body \in Bodies, Register(f, body)
    PROVE  TableInv'
<1>1. CASE Seat(f) = {}
  BY <1>1 DEF Register, TableInv, Holds, Reached
<1>2. CASE Seat(f) # {}
  <2>1. PICK k : k = First(Seat(f))
    OBVIOUS
  <2>2. /\ k \in Indices /\ k \in Seat(f)
        /\ \A m \in Indices : m < k => /\ table[Probe(f)[m]].fn # NoBody
                                       /\ table[Probe(f)[m]].addr # f
    BY <1>2, <2>1, SeatIsFirst
  <2>3. table[Probe(f)[k]].fn = NoBody \/ table[Probe(f)[k]].addr = f
    BY <2>2 DEF Seat
  <2>4. PICK e \in Indices : e = Probe(f)[k]
    BY <2>2, ProbeFields
  <2>5. /\ table \in [Indices -> Entry0] /\ latest \in [Functions -> Bodies \cup {NoBody}]
        /\ f \in Nat /\ body # NoBody
    BY RuntimeAssumption DEF TableInv
  <2>6. /\ table' \in [Indices -> Entry0]
        /\ table'[e].addr = f /\ table'[e].fn = body
        /\ \A d \in Indices \ {e} : table'[d] = table[d]
    BY <1>2, <2>1, <2>4, <2>5 DEF Register, Entry0
  <2>7. /\ latest' \in [Functions -> Bodies \cup {NoBody}] /\ latest'[f] = body
        /\ \A g \in Functions \ {f} : latest'[g] = latest[g]
    BY <1>2, <2>5 DEF Register
  <2>8. ASSUME NEW g \in Functions, NEW n \in Indices, Holds(g, n)'
        PROVE  table'[Probe(g)[n]].fn = latest'[g] /\ Reached(g, n)'
    <3>0. /\ Probe(g)[n] \in Indices /\ \A m \in Indices : Probe(g)[m] \in Indices
          /\ table'[Probe(g)[n]].fn # NoBody /\ table'[Probe(g)[n]].addr = g
      BY <2>8, ProbeFields DEF Holds, Probe
    <3>1. CASE g = f
      <4>1. n = k
        <5>1. ASSUME n # k  PROVE FALSE
          <6>1. Probe(f)[n] # e
            BY <5>1, <2>2, <2>4, ProbeFields
          <6>2. Holds(f, n)
            BY <3>0, <3>1, <6>1, <2>6 DEF Holds
          <6>3. Reached(f, n)
            BY <6>2 DEF TableInv
          <6>4. ~ (k < n)
            BY <2>2, <2>3, <6>3 DEF Reached
          <6>5. ~ (n < k)
            BY <2>2, <6>2 DEF Holds
          <6> QED  BY <5>1, <6>4, <6>5, <2>2 DEF Indices
        <5> QED  BY <5>1
      <4>2. ASSUME NEW m \in Indices, m < n
            PROVE  table'[Probe(f)[m]].fn # NoBody /\ table'[Probe(f)[m]].addr # f
        <5>1. Probe(f)[m] # e /\ Probe(f)[m] \in Indices
          BY <4>1, <4>2, <2>2, <2>4, ProbeFields DEF Indices
        <5> QED  BY <5>1, <4>1, <4>2, <2>2, <2>6
      <4> QED  BY <3>1, <4>1, <4>2, <2>4, <2>6, <2>7 DEF Reached, Probe
    <3>2. CASE g # f
      <4>1. Probe(g)[n] # e
        BY <3>0, <3>2, <2>6
      <4>2. Holds(g, n)
        BY <3>0, <4>1, <2>6 DEF Holds
      <4>3. table[Probe(g)[n]].fn = latest[g] /\ Reached(g, n)
        BY <4>2 DEF TableInv
      <4>4. ASSUME NEW m \in Indices, m < n
            PROVE  table'[Probe(g)[m]].fn # NoBody /\ table'[Probe(g)[m]].addr # g
        <5>1. CASE Probe(g)[m] = e
          BY <5>1, <3>2, <2>5, <2>6
        <5>2. CASE Probe(g)[m] # e
          BY <5>2, <3>0, <4>3, <4>4, <2>6 DEF Reached
        <5> QED  BY <5>1, <5>2
      <4> QED  BY <3>0, <3>2, <4>1, <4>3, <4>4, <2>6, <2>7 DEF Reached, Probe
    <3> QED  BY <3>1, <3>2
  <2>9. ASSUME NEW g \in Functions, latest'[g] # NoBody
        PROVE  \E n \in Indices : Holds(g, n)'
    <3>1. CASE g = f
      <4>1. Holds(f, k)'
        BY <2>4, <2>5, <2>6 DEF Holds, Probe
      <4> QED  BY <3>1, <4>1, <2>2
    <3>2. CASE g # f
      <4>1. PICK n \in Indices : Holds(g, n)
        BY <2>9, <3>2, <2>7 DEF TableInv
      <4>2. Probe(g)[n] # e /\ Probe(g)[n] \in Indices
        BY <4>1, <3>2, <2>3, <2>4, ProbeFields DEF Holds
      <4>3. Holds(g, n)'
        BY <4>1, <4>2, <2>6 DEF Holds, Probe
      <4> QED  BY <4>3
    <3> QED  BY <3>1, <3>2
  <2> QED  BY <2>6, <2>7, <2>8, <2>9 DEF TableInv
<1> QED  BY <1>1, <1>2

(* The bytes of the word at a that lie in the aligned word where it ends,  *)
(* and in the one where it begins.                                         *)
Upper(a) == {b \in 0 .. 3 : (a + b) \div 4 = (a + 3) \div 4}
Lower(a) == {b \in 0 .. 3 : (a + b) \div 4 = a \div 4}

(* The order of the accesses, and what the model keeps of them.            *)
MovedSteps == {{}, {"swl"}, {"swr"}, {"swl", "swr"}, {"swl", "swr", "lwl"},
               {"swl", "swr", "lwr"}, {"swl", "swr", "lwl", "lwr"}}
Image == [Places -> ByteValues]
Move  == [steps : MovedSteps, at : 0 .. 4, word : Words4, before : Image]

(* The inductive invariant: what a half of the store wrote is there until  *)
(* the other half and after it, and nothing else changed.                  *)
MoveInv ==
    /\ ram \in Image /\ rt \in Words4 /\ moved \in Move
    /\ moved.steps # {} =>
           \A p \in Places : p - moved.at \notin 0 .. 3 => ram[p] = moved.before[p]
    /\ "swl" \in moved.steps => \A b \in Upper(moved.at) : ram[moved.at + b] = moved.word[b]
    /\ "swr" \in moved.steps => \A b \in Lower(moved.at) : ram[moved.at + b] = moved.word[b]
    /\ "lwl" \in moved.steps => \A b \in Upper(moved.at) : rt[b] = moved.word[b]
    /\ "lwr" \in moved.steps => \A b \in Lower(moved.at) : rt[b] = moved.word[b]

LEMMA HalvesCover ==
    ASSUME NEW a \in 0 .. 4, NEW b \in 0 .. 3
    PROVE  b \in Upper(a) \/ b \in Lower(a)
BY DEF Upper, Lower

(* What each access does to every byte.                                    *)
LEMMA SwlBytes ==
    ASSUME NEW a \in 0 .. 4, NEW w \in Words4, ram \in Image, NEW m, m = Swl(a + 3, w)
    PROVE  /\ m \in Image
           /\ \A b \in Upper(a) : m[a + b] = w[b]
           /\ \A p \in Places : p - a \notin Upper(a) => m[p] = ram[p]
<1> DEFINE u  == 3 - ((a + 3) % 4)
           al == Aligned(a + 3)
           v  == [b \in 0 .. 3 |-> IF b + u <= 3 THEN w[b + u] ELSE al[b]]
<1>1. u \in 0 .. 3 /\ u = 3 - ((a + 3) % 4)
  OBVIOUS
<1>2. \A b \in 0 .. 3 : al[b] = ram[(a + 3) - ((a + 3) % 4) + b]
  BY DEF Aligned
<1>3. \A b \in 0 .. 3 : v[b] = IF b + u <= 3 THEN w[b + u] ELSE al[b]
  OBVIOUS
<1>4. m = [p \in Places |-> IF p \div 4 = (a + 3) \div 4 THEN v[p % 4] ELSE ram[p]]
  BY DEF Swl, Replaced
<1> HIDE DEF u, al, v
<1>5. ASSUME NEW p \in Places
      PROVE  m[p] = IF p - a \in Upper(a) THEN w[p - a] ELSE ram[p]
  <2>0. m[p] = IF p \div 4 = (a + 3) \div 4 THEN v[p % 4] ELSE ram[p]
    BY <1>4
  <2>1. CASE p \div 4 = (a + 3) \div 4 /\ (p % 4) + u <= 3
    <3>1. p % 4 \in 0 .. 3 /\ (p % 4) + u = p - a /\ p - a \in 0 .. 3 /\ a + (p - a) = p
      BY <1>1, <2>1 DEF Places
    <3>2. p - a \in Upper(a)
      BY <3>1, <2>1 DEF Upper
    <3>3. v[p % 4] = w[p - a]
      BY <3>1, <1>3, <2>1
    <3> QED  BY <2>0, <2>1, <3>2, <3>3
  <2>2. CASE p \div 4 = (a + 3) \div 4 /\ ~ ((p % 4) + u <= 3)
    <3>1. p % 4 \in 0 .. 3 /\ (a + 3) - ((a + 3) % 4) + (p % 4) = p /\ p - a \notin 0 .. 3
      BY <1>1, <2>2 DEF Places
    <3>2. v[p % 4] = ram[p]
      BY <3>1, <1>2, <1>3, <2>2
    <3> QED  BY <2>0, <2>2, <3>1, <3>2 DEF Upper
  <2>3. CASE p \div 4 # (a + 3) \div 4
    <3>1. p - a \notin Upper(a)
      BY <2>3 DEF Upper, Places
    <3> QED  BY <2>0, <2>3, <3>1
  <2> QED  BY <2>1, <2>2, <2>3
<1>6. m \in Image
  <2>1. \A p \in Places : m[p] \in ByteValues
    BY <1>5 DEF Image, Words4, Upper
  <2> QED  BY <1>4, <2>1 DEF Image
<1>7. ASSUME NEW b \in Upper(a) PROVE m[a + b] = w[b]
  <2>1. a + b \in Places /\ (a + b) - a = b
    BY DEF Upper, Places
  <2> QED  BY <2>1, <1>5
<1> QED  BY <1>5, <1>6, <1>7

LEMMA SwrBytes ==
    ASSUME NEW a \in 0 .. 4, NEW w \in Words4, ram \in Image, NEW m, m = Swr(a, w)
    PROVE  /\ m \in Image
           /\ \A b \in Lower(a) : m[a + b] = w[b]
           /\ \A p \in Places : p - a \notin Lower(a) => m[p] = ram[p]
<1> DEFINE u  == a % 4
           al == Aligned(a)
           v  == [b \in 0 .. 3 |-> IF b >= u THEN w[b - u] ELSE al[b]]
<1>1. u \in 0 .. 3 /\ u = a % 4
  OBVIOUS
<1>2. \A b \in 0 .. 3 : al[b] = ram[a - (a % 4) + b]
  BY DEF Aligned
<1>3. \A b \in 0 .. 3 : v[b] = IF b >= u THEN w[b - u] ELSE al[b]
  OBVIOUS
<1>4. m = [p \in Places |-> IF p \div 4 = a \div 4 THEN v[p % 4] ELSE ram[p]]
  BY DEF Swr, Replaced
<1> HIDE DEF u, al, v
<1>5. ASSUME NEW p \in Places
      PROVE  m[p] = IF p - a \in Lower(a) THEN w[p - a] ELSE ram[p]
  <2>0. m[p] = IF p \div 4 = a \div 4 THEN v[p % 4] ELSE ram[p]
    BY <1>4
  <2>1. CASE p \div 4 = a \div 4 /\ p % 4 >= u
    <3>1. p % 4 \in 0 .. 3 /\ (p % 4) - u = p - a /\ p - a \in 0 .. 3 /\ a + (p - a) = p
      BY <1>1, <2>1 DEF Places
    <3>2. p - a \in Lower(a)
      BY <3>1, <2>1 DEF Lower
    <3>3. v[p % 4] = w[p - a]
      BY <3>1, <1>3, <2>1
    <3> QED  BY <2>0, <2>1, <3>2, <3>3
  <2>2. CASE p \div 4 = a \div 4 /\ ~ (p % 4 >= u)
    <3>1. p % 4 \in 0 .. 3 /\ a - (a % 4) + (p % 4) = p /\ p - a \notin 0 .. 3
      BY <1>1, <2>2 DEF Places
    <3>2. v[p % 4] = ram[p]
      BY <3>1, <1>2, <1>3, <2>2
    <3> QED  BY <2>0, <2>2, <3>1, <3>2 DEF Lower
  <2>3. CASE p \div 4 # a \div 4
    <3>1. p - a \notin Lower(a)
      BY <2>3 DEF Lower, Places
    <3> QED  BY <2>0, <2>3, <3>1
  <2> QED  BY <2>1, <2>2, <2>3
<1>6. m \in Image
  <2>1. \A p \in Places : m[p] \in ByteValues
    BY <1>5 DEF Image, Words4, Lower
  <2> QED  BY <1>4, <2>1 DEF Image
<1>7. ASSUME NEW b \in Lower(a) PROVE m[a + b] = w[b]
  <2>1. a + b \in Places /\ (a + b) - a = b
    BY DEF Lower, Places
  <2> QED  BY <2>1, <1>5
<1> QED  BY <1>5, <1>6, <1>7

LEMMA LwlBytes ==
    ASSUME NEW a \in 0 .. 4, NEW w \in Words4, ram \in Image, NEW r, r = Lwl(w, a + 3)
    PROVE  /\ r \in Words4
           /\ \A b \in 0 .. 3 : r[b] = IF b \in Upper(a) THEN ram[a + b] ELSE w[b]
<1> DEFINE u == 3 - ((a + 3) % 4)
<1>1. r = [b \in 0 .. 3 |-> IF b >= u THEN Aligned(a + 3)[b - u] ELSE w[b]]
  BY DEF Lwl
<1>2. ASSUME NEW b \in 0 .. 3
      PROVE  r[b] = IF b \in Upper(a) THEN ram[a + b] ELSE w[b]
  <2>1. CASE b >= u
    <3>1. /\ b - u \in 0 .. 3 /\ (a + b) \div 4 = (a + 3) \div 4
          /\ (a + 3) - ((a + 3) % 4) + (b - u) = a + b
      BY <2>1
    <3>2. Aligned(a + 3)[b - u] = ram[a + b]
      BY <3>1 DEF Aligned
    <3> QED  BY <2>1, <3>1, <3>2, <1>1 DEF Upper
  <2>2. CASE ~ (b >= u)
    <3>1. b \notin Upper(a)
      BY <2>2 DEF Upper
    <3> QED  BY <2>2, <3>1, <1>1
  <2> QED  BY <2>1, <2>2
<1> HIDE DEF u
<1>3. \A b \in 0 .. 3 : r[b] \in ByteValues
  BY <1>2 DEF Words4, Image, Upper, Places
<1> QED  BY <1>1, <1>2, <1>3 DEF Words4

LEMMA LwrBytes ==
    ASSUME NEW a \in 0 .. 4, NEW w \in Words4, ram \in Image, NEW r, r = Lwr(w, a)
    PROVE  /\ r \in Words4
           /\ \A b \in 0 .. 3 : r[b] = IF b \in Lower(a) THEN ram[a + b] ELSE w[b]
<1> DEFINE u == a % 4
<1>1. r = [b \in 0 .. 3 |-> IF b + u <= 3 THEN Aligned(a)[b + u] ELSE w[b]]
  BY DEF Lwr
<1>2. ASSUME NEW b \in 0 .. 3
      PROVE  r[b] = IF b \in Lower(a) THEN ram[a + b] ELSE w[b]
  <2>1. CASE b + u <= 3
    <3>1. /\ b + u \in 0 .. 3 /\ (a + b) \div 4 = a \div 4
          /\ a - (a % 4) + (b + u) = a + b
      BY <2>1
    <3>2. Aligned(a)[b + u] = ram[a + b]
      BY <3>1 DEF Aligned
    <3> QED  BY <2>1, <3>1, <3>2, <1>1 DEF Lower
  <2>2. CASE ~ (b + u <= 3)
    <3>1. b \notin Lower(a)
      BY <2>2 DEF Lower
    <3> QED  BY <2>2, <3>1, <1>1
  <2> QED  BY <2>1, <2>2
<1> HIDE DEF u
<1>3. \A b \in 0 .. 3 : r[b] \in ByteValues
  BY <1>2 DEF Words4, Image, Lower, Places
<1> QED  BY <1>1, <1>2, <1>3 DEF Words4

(* The record of a move, when it begins and as it goes on.                 *)
NewMove(steps, a, w, before) == [steps |-> steps, at |-> a, word |-> w, before |-> before]

LEMMA NewMoveFields ==
    ASSUME NEW s \in MovedSteps, NEW a \in 0 .. 4, NEW w \in Words4, NEW b \in Image
    PROVE  LET m == NewMove(s, a, w, b)
           IN  m \in Move /\ m.steps = s /\ m.at = a /\ m.word = w /\ m.before = b
BY DEF NewMove, Move

Stepped(s) == [moved EXCEPT !.steps = s]

LEMMA SteppedFields ==
    ASSUME moved \in Move, NEW s \in MovedSteps
    PROVE  /\ Stepped(s) \in Move /\ Stepped(s).steps = s /\ Stepped(s).at = moved.at
           /\ Stepped(s).word = moved.word /\ Stepped(s).before = moved.before
BY Zenon DEF Stepped, Move

(* The second half of a store leaves what the first wrote.                 *)
LEMMA StoreFirstKeeps ==
    ASSUME MoveInv, NEW a \in 0 .. 4, NEW w \in Words4, NEW swl \in BOOLEAN,
           StoreFirst(a, w, swl)
    PROVE  MoveInv'
<1> DEFINE s == {IF swl THEN "swl" ELSE "swr"}
<1>1. /\ ram' = IF swl THEN Swl(a + 3, w) ELSE Swr(a, w)
      /\ moved' = NewMove(s, a, w, ram) /\ rt' = rt
  BY DEF StoreFirst, NewMove
<1>2. ram \in Image /\ rt \in Words4 /\ s \in MovedSteps
  BY DEF MoveInv, MovedSteps
<1>3. "lwl" \notin s /\ "lwr" \notin s /\ ("swl" \in s <=> swl) /\ ("swr" \in s <=> ~ swl)
  OBVIOUS
<1> HIDE DEF s
<1>4. /\ moved' \in Move /\ moved'.steps = s /\ moved'.at = a /\ moved'.word = w
      /\ moved'.before = ram
  BY <1>1, <1>2, NewMoveFields
<1>5. CASE swl
  <2>1. /\ ram' \in Image /\ \A b \in Upper(a) : ram'[a + b] = w[b]
        /\ \A p \in Places : p - a \notin Upper(a) => ram'[p] = ram[p]
    BY <1>1, <1>2, <1>5, SwlBytes
  <2>2. \A p \in Places : p - a \notin 0 .. 3 => ram'[p] = ram[p]
    BY <2>1 DEF Upper
  <2> QED  BY <1>1, <1>2, <1>3, <1>4, <1>5, <2>1, <2>2 DEF MoveInv
<1>6. CASE ~ swl
  <2>1. /\ ram' \in Image /\ \A b \in Lower(a) : ram'[a + b] = w[b]
        /\ \A p \in Places : p - a \notin Lower(a) => ram'[p] = ram[p]
    BY <1>1, <1>2, <1>6, SwrBytes
  <2>2. \A p \in Places : p - a \notin 0 .. 3 => ram'[p] = ram[p]
    BY <2>1 DEF Lower
  <2> QED  BY <1>1, <1>2, <1>3, <1>4, <1>6, <2>1, <2>2 DEF MoveInv
<1> QED  BY <1>5, <1>6

LEMMA StoreSecondKeeps ==
    ASSUME MoveInv, StoreSecond
    PROVE  MoveInv'
<1> DEFINE a == moved.at
           w == moved.word
<1>0. /\ ram \in Image /\ rt \in Words4 /\ moved \in Move /\ a \in 0 .. 4 /\ w \in Words4
  BY DEF MoveInv, Move
<1>1. /\ ram' = IF "swr" \in moved.steps THEN Swl(a + 3, w) ELSE Swr(a, w)
      /\ moved' = Stepped({"swl", "swr"}) /\ rt' = rt
  BY DEF StoreSecond, Stepped
<1>2. moved.steps = {"swl"} \/ moved.steps = {"swr"}
  <2>1. moved.steps \in MovedSteps /\ Cardinality(moved.steps) = 1
    BY <1>0 DEF StoreSecond, Move
  <2>2. PICK x : moved.steps = {x}
    <3>1. IsFiniteSet(moved.steps)
      <4>1. IsFiniteSet({"swl", "swr", "lwl", "lwr"})
        <5>1. IsFiniteSet({"swl"})
          BY FS_Singleton
        <5>2. IsFiniteSet({"swl"} \cup {"swr"})
          BY <5>1, FS_AddElement
        <5>3. IsFiniteSet({"swl"} \cup {"swr"} \cup {"lwl"})
          BY <5>2, FS_AddElement
        <5>4. IsFiniteSet({"swl"} \cup {"swr"} \cup {"lwl"} \cup {"lwr"})
          BY <5>3, FS_AddElement
        <5>5. {"swl", "swr", "lwl", "lwr"} = {"swl"} \cup {"swr"} \cup {"lwl"} \cup {"lwr"}
          OBVIOUS
        <5> QED  BY <5>4, <5>5
      <4> QED  BY <4>1, <2>1, FS_Subset DEF MovedSteps
    <3> QED  BY <3>1, <2>1, FS_Singleton
  <2>3. "swl" # "swr"
    OBVIOUS
  <2> QED  BY <2>1, <2>2, <2>3 DEF MovedSteps
<1>3. /\ moved' \in Move /\ moved'.steps = {"swl", "swr"} /\ moved'.at = a
      /\ moved'.word = w /\ moved'.before = moved.before
  BY <1>0, <1>1, SteppedFields DEF MovedSteps
<1> HIDE DEF a, w
<1>4. \A p \in Places : p - a \notin 0 .. 3 => ram[p] = moved.before[p]
  BY <1>2 DEF MoveInv, a
<1>5. CASE moved.steps = {"swr"}
  <2>1. \A b \in Lower(a) : ram[a + b] = w[b]
    BY <1>5 DEF MoveInv, a, w
  <2>2. /\ ram' \in Image /\ \A b \in Upper(a) : ram'[a + b] = w[b]
        /\ \A p \in Places : p - a \notin Upper(a) => ram'[p] = ram[p]
    BY <1>0, <1>1, <1>5, SwlBytes
  <2>3. \A p \in Places : p - a \notin 0 .. 3 => ram'[p] = moved.before[p]
    BY <1>4, <2>2 DEF Upper
  <2>4. ASSUME NEW b \in Lower(a) PROVE ram'[a + b] = w[b]
    <3>1. CASE b \in Upper(a)
      BY <3>1, <2>2
    <3>2. CASE b \notin Upper(a)
      <4>1. a + b \in Places /\ (a + b) - a = b
        BY <1>0 DEF Lower, Places
      <4> QED  BY <4>1, <3>2, <2>1, <2>2
    <3> QED  BY <3>1, <3>2
  <2> QED  BY <1>0, <1>1, <1>3, <2>2, <2>3, <2>4 DEF MoveInv
<1>6. CASE moved.steps = {"swl"}
  <2>1. \A b \in Upper(a) : ram[a + b] = w[b]
    BY <1>6 DEF MoveInv, a, w
  <2>2. /\ ram' \in Image /\ \A b \in Lower(a) : ram'[a + b] = w[b]
        /\ \A p \in Places : p - a \notin Lower(a) => ram'[p] = ram[p]
    BY <1>0, <1>1, <1>6, SwrBytes
  <2>3. \A p \in Places : p - a \notin 0 .. 3 => ram'[p] = moved.before[p]
    BY <1>4, <2>2 DEF Lower
  <2>4. ASSUME NEW b \in Upper(a) PROVE ram'[a + b] = w[b]
    <3>1. CASE b \in Lower(a)
      BY <3>1, <2>2
    <3>2. CASE b \notin Lower(a)
      <4>1. a + b \in Places /\ (a + b) - a = b
        BY <1>0 DEF Upper, Places
      <4> QED  BY <4>1, <3>2, <2>1, <2>2
    <3> QED  BY <3>1, <3>2
  <2> QED  BY <1>0, <1>1, <1>3, <2>2, <2>3, <2>4 DEF MoveInv
<1> QED  BY <1>2, <1>5, <1>6

LEMMA LoadOneKeeps ==
    ASSUME MoveInv, NEW lwl \in BOOLEAN, LoadOne(lwl)
    PROVE  MoveInv'
<1> DEFINE a == moved.at
           w == moved.word
           step == IF lwl THEN "lwl" ELSE "lwr"
           s == moved.steps \cup {step}
<1>0. /\ ram \in Image /\ rt \in Words4 /\ moved \in Move /\ a \in 0 .. 4 /\ w \in Words4
      /\ moved.steps \in MovedSteps
  BY DEF MoveInv, Move
<1>1. /\ "swl" \in moved.steps /\ "swr" \in moved.steps /\ step \notin moved.steps
      /\ rt' = IF lwl THEN Lwl(rt, a + 3) ELSE Lwr(rt, a)
      /\ moved' = Stepped(s) /\ ram' = ram
  BY DEF LoadOne, Stepped
<1>2. s \in MovedSteps
  <2>1. moved.steps \in {{"swl", "swr"}, {"swl", "swr", "lwl"}, {"swl", "swr", "lwr"},
                         {"swl", "swr", "lwl", "lwr"}}
    BY <1>0, <1>1 DEF MovedSteps
  <2>2. CASE moved.steps = {"swl", "swr"}
    <3>1. CASE lwl
      <4>1. s = {"swl", "swr", "lwl"}
        BY <2>2, <3>1
      <4> QED  BY <4>1 DEF MovedSteps
    <3>2. CASE ~ lwl
      <4>1. s = {"swl", "swr", "lwr"}
        BY <2>2, <3>2
      <4> QED  BY <4>1 DEF MovedSteps
    <3> QED  BY <3>1, <3>2
  <2>3. CASE moved.steps # {"swl", "swr"}
    <3>1. s = {"swl", "swr", "lwl", "lwr"}
      BY <2>1, <2>3, <1>1
    <3> QED  BY <3>1 DEF MovedSteps
  <2> QED  BY <2>2, <2>3
<1>3. /\ "swl" \in s /\ "swr" \in s
      /\ "lwl" \in s <=> lwl \/ "lwl" \in moved.steps
      /\ "lwr" \in s <=> ~ lwl \/ "lwr" \in moved.steps
  BY <1>1
<1> HIDE DEF s, step
<1>4. /\ moved' \in Move /\ moved'.steps = s /\ moved'.at = a
      /\ moved'.word = w /\ moved'.before = moved.before
  BY <1>0, <1>1, <1>2, SteppedFields
<1> HIDE DEF a, w
<1>5. /\ \A p \in Places : p - a \notin 0 .. 3 => ram[p] = moved.before[p]
      /\ \A b \in Upper(a) : ram[a + b] = w[b]
      /\ \A b \in Lower(a) : ram[a + b] = w[b]
      /\ "lwl" \in moved.steps => \A b \in Upper(a) : rt[b] = w[b]
      /\ "lwr" \in moved.steps => \A b \in Lower(a) : rt[b] = w[b]
  BY <1>1 DEF MoveInv, a, w
<1>6. CASE lwl
  <2>1. /\ rt' \in Words4
        /\ \A b \in 0 .. 3 : rt'[b] = IF b \in Upper(a) THEN ram[a + b] ELSE rt[b]
    BY <1>0, <1>1, <1>6, LwlBytes
  <2>2. \A b \in Upper(a) : rt'[b] = w[b]
    BY <2>1, <1>5 DEF Upper
  <2>3. "lwr" \in s => \A b \in Lower(a) : rt'[b] = w[b]
    BY <2>1, <1>3, <1>5, <1>6 DEF Lower
  <2> QED  BY <1>0, <1>1, <1>4, <1>5, <2>1, <2>2, <2>3 DEF MoveInv
<1>7. CASE ~ lwl
  <2>1. /\ rt' \in Words4
        /\ \A b \in 0 .. 3 : rt'[b] = IF b \in Lower(a) THEN ram[a + b] ELSE rt[b]
    BY <1>0, <1>1, <1>7, LwrBytes
  <2>2. \A b \in Lower(a) : rt'[b] = w[b]
    BY <2>1, <1>5 DEF Lower
  <2>3. "lwl" \in s => \A b \in Upper(a) : rt'[b] = w[b]
    BY <2>1, <1>3, <1>5, <1>7 DEF Upper
  <2> QED  BY <1>0, <1>1, <1>4, <1>5, <2>1, <2>2, <2>3 DEF MoveInv
<1> QED  BY <1>6, <1>7

LEMMA BlankKeeps ==
    ASSUME MoveInv, NEW v \in ByteValues, Elsewhere(v)
    PROVE  MoveInv'
<1>1. /\ ram' = [p \in Places |-> v] /\ rt' = [b \in 0 .. 3 |-> v]
      /\ moved' = NewMove({}, 0, Zero4, [p \in Places |-> 0])
  BY DEF Elsewhere, NewMove
<1>2. /\ [p \in Places |-> 0] \in Image /\ Zero4 \in Words4
      /\ ram' \in Image /\ rt' \in Words4 /\ {} \in MovedSteps
  BY <1>1, RuntimeAssumption DEF Image, Words4, Zero4, MovedSteps
<1>3. moved' \in Move /\ moved'.steps = {}
  BY <1>1, <1>2, NewMoveFields
<1> QED  BY <1>2, <1>3 DEF MoveInv

(* After both halves of a load the register is the word stored.            *)
LEMMA WordIsBack ==
    ASSUME MoveInv
    PROVE  WordComesBack
<1>1. ASSUME "lwl" \in moved.steps, "lwr" \in moved.steps
      PROVE  rt = moved.word
  <2>1. moved.at \in 0 .. 4 /\ moved.word \in Words4 /\ rt \in Words4
    BY DEF MoveInv, Move
  <2>2. ASSUME NEW b \in 0 .. 3 PROVE rt[b] = moved.word[b]
    BY <1>1, <2>1, HalvesCover DEF MoveInv
  <2> QED  BY <2>1, <2>2 DEF Words4
<1>2. {"swl", "swr"} \subseteq moved.steps => moved.steps # {}
  OBVIOUS
<1> QED  BY <1>1, <1>2 DEF MoveInv, WordComesBack

(* Initially nothing is registered or moved.                               *)
LEMMA RuntimeStarts ==
    ASSUME RuntimeInit
    PROVE  MoveInv /\ TableInv
<1>1. MoveInv
  <2>1. /\ ram \in Image /\ rt \in Words4 /\ moved = NewMove({}, 0, Zero4, ram)
        /\ Zero4 \in Words4 /\ {} \in MovedSteps
    BY RuntimeAssumption DEF RuntimeInit, Image, Words4, Zero4, NewMove, MovedSteps
  <2>2. moved \in Move /\ moved.steps = {}
    BY <2>1, NewMoveFields
  <2> QED  BY <2>1, <2>2 DEF MoveInv
<1>2. TableInv
  <2>1. table \in [Indices -> Entry0] /\ \A i \in Indices : table[i].fn = NoBody
    BY DEF RuntimeInit, Indices, Entry0
  <2>2. \A f \in Functions : \A n \in Indices : ~ Holds(f, n)
    BY <2>1, ProbeFields DEF Holds
  <2> QED  BY <2>1, <2>2 DEF RuntimeInit, TableInv
<1> QED  BY <1>1, <1>2

(* Whatever was stored unaligned is read back, with the bytes beside it    *)
(* kept, and an address dispatches to what was last registered for it,     *)
(* whatever else collides with it.                                         *)
THEOREM RuntimeIsFaithful == RuntimeSpec => []RuntimeKeepsFaith
<1> DEFINE Inv == MoveInv /\ TableInv
<1>1. RuntimeInit => Inv
  BY RuntimeStarts
<1>2. Inv /\ [MoveNext \/ TableNext]_rtVars => Inv'
  <2> SUFFICES ASSUME MoveInv, TableInv, [MoveNext \/ TableNext]_rtVars
               PROVE  MoveInv' /\ TableInv'
    OBVIOUS
  <2>1. ASSUME UNCHANGED <<table, latest>>  PROVE TableInv'
    <3>1. \A f \in Functions : \A n \in Indices :
              /\ Holds(f, n)' <=> Holds(f, n)
              /\ Reached(f, n)' <=> Reached(f, n)
      BY <2>1, Zenon DEF Holds, Reached, Probe
    <3>2. /\ table' \in [Indices -> Entry0]
          /\ latest' \in [Functions -> Bodies \cup {NoBody}]
      BY <2>1 DEF TableInv
    <3>3. ASSUME NEW f \in Functions, NEW n \in Indices, Holds(f, n)'
          PROVE  table'[Probe(f)[n]].fn = latest'[f] /\ Reached(f, n)'
      BY <2>1, <3>1, <3>3, Zenon DEF TableInv
    <3>4. ASSUME NEW f \in Functions, latest'[f] # NoBody
          PROVE  \E n \in Indices : Holds(f, n)'
      BY <2>1, <3>1, <3>4, Zenon DEF TableInv
    <3> QED  BY <3>2, <3>3, <3>4, Zenon DEF TableInv
  <2>2. ASSUME UNCHANGED <<ram, rt, moved>>  PROVE MoveInv'
    BY <2>2 DEF MoveInv
  <2>3. CASE MoveNext
    <3>1. UNCHANGED <<table, latest>>
      BY <2>3 DEF MoveNext, StoreFirst, StoreSecond, LoadOne, Elsewhere, Tabled
    <3>2. MoveInv'
      BY <2>3, StoreFirstKeeps, StoreSecondKeeps, LoadOneKeeps, BlankKeeps DEF MoveNext
    <3> QED  BY <2>1, <3>1, <3>2
  <2>4. CASE TableNext
    <3>1. UNCHANGED <<ram, rt, moved>>
      BY <2>4 DEF TableNext, Register, Dispatch
    <3>2. ASSUME NEW f \in Functions, NEW body \in Bodies, Register(f, body)
          PROVE  TableInv'
      BY <3>2, RegisterKeeps
    <3>3. ASSUME NEW f \in Functions, Dispatch(f)  PROVE TableInv'
      BY <3>3, <2>1 DEF Dispatch
    <3>4. TableInv'
      BY <2>4, <3>2, <3>3 DEF TableNext
    <3> QED  BY <2>2, <3>1, <3>4
  <2>5. CASE UNCHANGED rtVars
    BY <2>5, <2>1, <2>2 DEF rtVars
  <2> QED  BY <2>3, <2>4, <2>5
<1>3. Inv => RuntimeKeepsFaith
  BY WordIsBack, LookupIsLatest DEF RuntimeKeepsFaith
<1> QED  BY <1>1, <1>2, <1>3, PTL DEF RuntimeSpec

-----------------------------------------------------------------------------
(* Files, for any descriptors, clients, disc and host files.               *)

(* A client, and a descriptor that is in its file.                         *)
Client == [fd : Fds \cup {0}, open : BOOLEAN, due : Int, overtaken : BOOLEAN]

(* A descriptor whose file has length n.                                   *)
FdSound(f, n) ==
    f.used => /\ f.off <= f.size
              /\ f.host # OnDisc /\ ~ f.stale => f.size = n

(* The inductive invariant: the descriptor of an open file is in use, is   *)
(* nobody else's, and holds the result its client is due; a close has the  *)
(* result 0, and so has its slot, free or not, until another's call.       *)
FileInv ==
    /\ fds \in [Fds -> Fd]
    /\ closed \in [Fds -> {0}]
    /\ len \in [HostFiles -> Missing .. MaxLen]
    /\ cli \in [Clients -> Client]
    /\ DescriptorInFile
    /\ \A c \in Clients : cli[c].open => /\ cli[c].fd \in Fds
                                         /\ fds[cli[c].fd].used
                                         /\ cli[c].due # NoResult => fds[cli[c].fd].res = cli[c].due
    /\ \A c, d \in Clients : cli[c].open /\ cli[d].open /\ cli[c].fd = cli[d].fd => c = d
    /\ \A c \in Clients : ~ cli[c].open /\ cli[c].due # NoResult
                          => /\ cli[c].fd \in Fds /\ cli[c].due = 0
                             /\ ~ cli[c].overtaken => fds[cli[c].fd].res = 0

(* What one call does to a descriptor that is not its own.                 *)
LeftAlone(f, g, n) ==
    /\ g.used = f.used /\ g.host = f.host /\ g.off = f.off /\ g.size = f.size
    /\ g.res = f.res
    /\ f.used /\ g.host # OnDisc /\ ~ g.stale => ~ f.stale /\ n[g.host] = len[g.host]

(* What one client's call does to another client.                          *)
SameClient(d) ==
    /\ cli'[d].fd = cli[d].fd /\ cli'[d].open = cli[d].open /\ cli'[d].due = cli[d].due
    /\ ~ cli'[d].overtaken => ~ cli[d].overtaken

(* A result of a close that others than c wait for is not replaced unawares. *)
ClosersKnow(c, i) ==
    \/ fds'[i].res = fds[i].res
    \/ fds'[i].res = 0
    \/ \A d \in Clients \ {c} : cli[d].fd = i => cli'[d].overtaken

(* A call by client c on descriptor i leaves the descriptors f, the        *)
(* lengths n and the client k.                                             *)
LEMMA FileCallKeeps ==
    ASSUME FileInv, NEW c \in Clients, NEW i \in Fds, NEW k \in Client,
           fds' \in [Fds -> Fd], len' \in [HostFiles -> Missing .. MaxLen],
           closed' \in [Fds -> {0}],
           cli' \in [Clients -> Client], cli'[c] = k,
           \A d \in Clients \ {c} : SameClient(d),
           ClosersKnow(c, i),
           \A d \in Clients \ {c} : cli[d].open => cli[d].fd # i,
           \A j \in Fds \ {i} : LeftAlone(fds[j], fds'[j], len'),
           fds'[i].used => /\ fds'[i].off <= fds'[i].size
                           /\ fds'[i].host # OnDisc /\ ~ fds'[i].stale
                              => fds'[i].size = len'[fds'[i].host],
           k.open => /\ k.fd = i /\ fds'[i].used
                     /\ k.due # NoResult => fds'[i].res = k.due,
           ~ k.open /\ k.due # NoResult => k.fd = i /\ k.due = 0 /\ fds'[i].res = 0
    PROVE  FileInv'
<1>1. DescriptorInFile'
  <2> SUFFICES ASSUME NEW j \in Fds, fds'[j].used
               PROVE  /\ fds'[j].off <= fds'[j].size
                      /\ fds'[j].host # OnDisc /\ ~ fds'[j].stale
                         => fds'[j].size = len'[fds'[j].host]
    BY DEF DescriptorInFile
  <2>1. CASE j = i
    BY <2>1
  <2>2. CASE j # i
    <3>1. LeftAlone(fds[j], fds'[j], len')
      BY <2>2
    <3>2. /\ fds[j].used => /\ fds[j].off <= fds[j].size
                            /\ fds[j].host # OnDisc /\ ~ fds[j].stale
                               => fds[j].size = len[fds[j].host]
      BY DEF FileInv, DescriptorInFile
    <3> QED  BY <3>1, <3>2 DEF LeftAlone
  <2> QED  BY <2>1, <2>2
<1>2. ASSUME NEW d \in Clients, cli'[d].open
      PROVE  /\ cli'[d].fd \in Fds /\ fds'[cli'[d].fd].used
             /\ cli'[d].due # NoResult => fds'[cli'[d].fd].res = cli'[d].due
  <2>1. CASE d = c
    BY <2>1, <1>2
  <2>2. CASE d # c
    <3>0. cli[d].open /\ cli'[d].fd = cli[d].fd /\ cli'[d].due = cli[d].due
      BY <2>2, <1>2 DEF SameClient
    <3>1. PICK j \in Fds : j = cli[d].fd /\ j # i /\ fds[j].used
                           /\ (cli[d].due # NoResult => fds[j].res = cli[d].due)
      BY <3>0, <2>2 DEF FileInv
    <3>2. LeftAlone(fds[j], fds'[j], len')
      BY <3>1
    <3>3. fds'[j].used /\ fds'[j].res = fds[j].res
      BY <3>1, <3>2 DEF LeftAlone
    <3> QED  BY <3>0, <3>1, <3>3
  <2> QED  BY <2>1, <2>2
<1>3. ASSUME NEW d \in Clients, NEW e \in Clients, cli'[d].open, cli'[e].open,
             cli'[d].fd = cli'[e].fd
      PROVE  d = e
  BY <1>3 DEF FileInv, SameClient
<1>4. ASSUME NEW d \in Clients, ~ cli'[d].open, cli'[d].due # NoResult
      PROVE  /\ cli'[d].fd \in Fds /\ cli'[d].due = 0
             /\ ~ cli'[d].overtaken => fds'[cli'[d].fd].res = 0
  <2>1. CASE d = c
    BY <2>1, <1>4
  <2>2. CASE d # c
    <3>1. /\ ~ cli[d].open /\ cli'[d].fd = cli[d].fd /\ cli'[d].due = cli[d].due
          /\ ~ cli'[d].overtaken => ~ cli[d].overtaken
      BY <2>2, <1>4 DEF SameClient
    <3>2. PICK j \in Fds : j = cli[d].fd /\ cli[d].due = 0
                           /\ (~ cli[d].overtaken => fds[j].res = 0)
      BY <3>1, <1>4 DEF FileInv
    <3>3. j # i => fds'[j].res = fds[j].res
      BY <3>2 DEF LeftAlone
    <3>4. j = i /\ ~ cli'[d].overtaken => fds'[j].res = fds[j].res \/ fds'[j].res = 0
      BY <3>2, <2>2 DEF ClosersKnow
    <3> QED  BY <3>1, <3>2, <3>3, <3>4
  <2> QED  BY <2>1, <2>2
<1> QED  BY <1>1, <1>2, <1>3, <1>4 DEF FileInv

(* The slot that is opened is free.                                        *)
LEMMA SlotIsFree ==
    ASSUME Slot # {}, NEW p, NEW fl
    PROVE  OpenSlot(p, fl) \in Fds /\ ~ fds[OpenSlot(p, fl)].used
<1>1. Slot \subseteq Nat
  BY DEF Slot, Fds
<1>2. \E x \in Slot : \A y \in Slot : x <= y
  BY <1>1, HasLeast
<1> QED  BY <1>2 DEF OpenSlot, Lowest, Slot

(* What the operations on descriptors do to each field.                    *)
SetFd(f, i, r) == [f EXCEPT ![i] = r]
Moved(f, o)    == [f EXCEPT !.off = o]

LEMMA SetFdFields ==
    ASSUME NEW f \in [Fds -> Fd], NEW i \in Fds, NEW r \in Fd
    PROVE  /\ SetFd(f, i, r) \in [Fds -> Fd] /\ SetFd(f, i, r)[i] = r
           /\ \A j \in Fds \ {i} : SetFd(f, i, r)[j] = f[j]
BY DEF SetFd

LEMMA FreeFields ==
    ASSUME NEW r \in Int
    PROVE  FreeFd(r) \in Fd /\ ~ FreeFd(r).used /\ FreeFd(r).res = r
<1>1. 0 \in Nat
  OBVIOUS
<1> QED  BY <1>1, Zenon DEF FreeFd, Fd

LEMMA MovedFields ==
    ASSUME NEW f \in Fd, NEW o \in Nat
    PROVE  /\ Moved(f, o) \in Fd /\ Moved(f, o).off = o
           /\ Moved(f, o).used = f.used /\ Moved(f, o).host = f.host
           /\ Moved(f, o).size = f.size /\ Moved(f, o).res = f.res
           /\ Moved(f, o).stale = f.stale
BY Zenon DEF Moved, Fd

LEMMA SetResFields ==
    ASSUME NEW f \in [Fds -> Fd], NEW i \in Fds, NEW r \in Int, NEW async \in BOOLEAN,
           NEW g, g = SetRes(f, i, r, async)
    PROVE  /\ g \in [Fds -> Fd]
           /\ \A j \in Fds \ {i} : g[j] = f[j]
           /\ g[i].used = f[i].used /\ g[i].host = f[i].host /\ g[i].off = f[i].off
           /\ g[i].size = f[i].size /\ g[i].stale = f[i].stale
           /\ async => g[i].res = r
           /\ ~ async => g[i].res = f[i].res
<1> DEFINE x == [f[i] EXCEPT !.res = r]
<1>1. f[i] \in Fd
  OBVIOUS
<1>2. /\ x \in Fd /\ x.used = f[i].used /\ x.host = f[i].host /\ x.off = f[i].off
      /\ x.size = f[i].size /\ x.stale = f[i].stale /\ x.res = r
  BY <1>1, Zenon DEF Fd
<1>3. CASE async
  <2>1. g = [f EXCEPT ![i] = x]
    BY <1>3 DEF SetRes
  <2> HIDE DEF x
  <2> QED  BY <2>1, <1>2, <1>3
<1>4. CASE ~ async
  BY <1>4 DEF SetRes
<1> QED  BY <1>3, <1>4

LEMMA OthersStaleFields ==
    ASSUME NEW f \in [Fds -> Fd], NEW h, NEW i \in Fds, NEW g, g = OthersStale(f, h, i)
    PROVE  /\ g \in [Fds -> Fd] /\ g[i] = f[i]
           /\ \A j \in Fds : /\ g[j].used = f[j].used /\ g[j].host = f[j].host
                             /\ g[j].off = f[j].off /\ g[j].size = f[j].size
                             /\ g[j].res = f[j].res
                             /\ ~ g[j].stale => ~ f[j].stale
                             /\ j # i /\ f[j].used /\ f[j].host = h => g[j].stale
<1>1. ASSUME NEW j \in Fds
      PROVE  /\ g[j] \in Fd
             /\ j = i => g[j] = f[j]
             /\ g[j].used = f[j].used /\ g[j].host = f[j].host
             /\ g[j].off = f[j].off /\ g[j].size = f[j].size
             /\ g[j].res = f[j].res
             /\ ~ g[j].stale => ~ f[j].stale
             /\ j # i /\ f[j].used /\ f[j].host = h => g[j].stale
  <2> DEFINE x == [f[j] EXCEPT !.stale = TRUE]
  <2>1. f[j] \in Fd
    OBVIOUS
  <2>2. /\ x \in Fd /\ x.used = f[j].used /\ x.host = f[j].host /\ x.off = f[j].off
        /\ x.size = f[j].size /\ x.res = f[j].res /\ x.stale
    BY <2>1, Zenon DEF Fd
  <2>3. g[j] = IF j # i /\ f[j].used /\ f[j].host = h THEN x ELSE f[j]
    BY DEF OthersStale
  <2> HIDE DEF x
  <2> QED  BY <2>1, <2>2, <2>3
<1>2. g = [j \in Fds |-> g[j]]
  BY DEF OthersStale
<1> QED  BY <1>1, <1>2

LEMMA SameIsLeftAlone ==
    ASSUME NEW f, NEW n, f.used => f.host = OnDisc \/ n[f.host] = len[f.host]
    PROVE  LeftAlone(f, f, n)
BY DEF LeftAlone

(* Calls that change no other client.                                      *)
LEMMA OpenClient ==
    ASSUME FileInv, NEW c \in Clients, cli[c].open
    PROVE  /\ cli[c].fd \in Fds /\ fds[cli[c].fd].used /\ fds[cli[c].fd] \in Fd
           /\ fds[cli[c].fd].off <= fds[cli[c].fd].size
           /\ \A d \in Clients \ {c} : cli[d].open => cli[d].fd # cli[c].fd
BY DEF FileInv, DescriptorInFile

ClientOf(i, open, due) == [fd |-> i, open |-> open, due |-> due, overtaken |-> FALSE]

LEMMA ClientFields ==
    ASSUME NEW i \in Fds \cup {0}, NEW open \in BOOLEAN, NEW due \in Int
    PROVE  /\ ClientOf(i, open, due) \in Client /\ ClientOf(i, open, due).fd = i
           /\ ClientOf(i, open, due).open = open /\ ClientOf(i, open, due).due = due
BY DEF ClientOf, Client

SetClient(c, k) == [cli EXCEPT ![c] = k]

LEMMA SetClientFields ==
    ASSUME cli \in [Clients -> Client], NEW c \in Clients, NEW k \in Client
    PROVE  /\ SetClient(c, k) \in [Clients -> Client] /\ SetClient(c, k)[c] = k
           /\ \A d \in Clients \ {c} : SetClient(c, k)[d] = cli[d]
BY DEF SetClient

LEMMA SameAsBefore ==
    ASSUME NEW d, cli'[d] = cli[d]
    PROVE  SameClient(d)
BY DEF SameClient

(* An asynchronous call of c's on i, among clients k.                      *)
LEMMA OvertakingFields ==
    ASSUME NEW k \in [Clients -> Client], NEW c \in Clients, NEW i \in Fds,
           NEW async \in BOOLEAN, NEW g, g = Overtaking(k, c, i, async)
    PROVE  /\ g \in [Clients -> Client] /\ g[c] = k[c]
           /\ \A d \in Clients : /\ g[d].fd = k[d].fd /\ g[d].open = k[d].open
                                 /\ g[d].due = k[d].due
                                 /\ ~ g[d].overtaken => ~ k[d].overtaken
                                 /\ async /\ d # c /\ k[d].fd = i => g[d].overtaken
<1>1. ASSUME NEW d \in Clients
      PROVE  /\ g[d] \in Client
             /\ d = c => g[d] = k[d]
             /\ g[d].fd = k[d].fd /\ g[d].open = k[d].open /\ g[d].due = k[d].due
             /\ ~ g[d].overtaken => ~ k[d].overtaken
             /\ async /\ d # c /\ k[d].fd = i => g[d].overtaken
  <2> DEFINE x == [k[d] EXCEPT !.overtaken = TRUE]
  <2>1. k[d] \in Client
    OBVIOUS
  <2>2. /\ x \in Client /\ x.fd = k[d].fd /\ x.open = k[d].open /\ x.due = k[d].due
        /\ x.overtaken
    BY <2>1, Zenon DEF Client
  <2>3. g[d] = IF async /\ d # c /\ k[d].fd = i THEN x ELSE k[d]
    BY DEF Overtaking
  <2> HIDE DEF x
  <2> QED  BY <2>1, <2>2, <2>3
<1>2. g = [d \in Clients |-> g[d]]
  BY DEF Overtaking
<1> QED  BY <1>1, <1>2

(* Closing and waiting.                                                    *)
LEMMA CloseKeeps ==
    ASSUME FileInv, NEW c \in Clients, Close(c) \/ CloseAsync(c)
    PROVE  FileInv'
<1> DEFINE i == cli[c].fd
<1>0. /\ i \in Fds /\ fds \in [Fds -> Fd] /\ fds[i].res \in Int /\ 0 \in Int
      /\ cli \in [Clients -> Client] /\ closed \in [Fds -> {0}]
      /\ len \in [HostFiles -> Missing .. MaxLen] /\ NoResult \in Int
      /\ \A d \in Clients \ {c} : cli[d].open => cli[d].fd # i
  BY OpenClient DEF Close, CloseAsync, FileInv, Fd, NoResult
<1>1. PICK r \in Int, e \in Fds \cup {0}, due \in Int :
          /\ fds' = SetFd(fds, i, FreeFd(r))
          /\ cli' = SetClient(c, ClientOf(e, FALSE, due))
          /\ r = fds[i].res \/ r = 0
          /\ due # NoResult => e = i /\ due = 0 /\ r = 0
          /\ len' = len /\ closed' \in [Fds -> {0}]
  <2>1. CASE Close(c)
    <3>1. /\ fds' = SetFd(fds, i, FreeFd(fds[i].res))
          /\ cli' = SetClient(c, ClientOf(0, FALSE, NoResult))
          /\ len' = len /\ closed' = closed
      BY <2>1 DEF Close, SetFd, SetClient, ClientOf, NoClient
    <3> QED  BY <3>1, <1>0
  <2>2. CASE CloseAsync(c)
    <3>1. /\ fds' = SetFd(fds, i, FreeFd(0))
          /\ cli' = SetClient(c, ClientOf(i, FALSE, 0))
          /\ len' = len /\ closed' = [closed EXCEPT ![i] = 0]
      BY <2>2 DEF CloseAsync, SetFd, SetClient, ClientOf
    <3> QED  BY <3>1, <1>0
  <2> QED  BY <2>1, <2>2
<1>2. /\ fds' \in [Fds -> Fd] /\ ~ fds'[i].used /\ \A j \in Fds \ {i} : fds'[j] = fds[j]
      /\ fds'[i].res = r
  <2>1. PICK x \in Fd : x = FreeFd(r) /\ ~ x.used /\ x.res = r
    BY FreeFields
  <2>2. fds' = SetFd(fds, i, x)
    BY <1>1, <2>1
  <2>3. /\ SetFd(fds, i, x) \in [Fds -> Fd] /\ SetFd(fds, i, x)[i] = x
        /\ \A j \in Fds \ {i} : SetFd(fds, i, x)[j] = fds[j]
    BY <1>0, SetFdFields
  <2> HIDE DEF i
  <2> QED  BY <2>1, <2>2, <2>3
<1>3. PICK k \in Client : k = ClientOf(e, FALSE, due) /\ ~ k.open /\ k.fd = e /\ k.due = due
  <2>1. /\ ClientOf(e, FALSE, due) \in Client /\ ClientOf(e, FALSE, due).fd = e
        /\ ClientOf(e, FALSE, due).open = FALSE /\ ClientOf(e, FALSE, due).due = due
    BY ClientFields
  <2> QED  BY <2>1
<1>4. /\ cli' \in [Clients -> Client] /\ cli'[c] = k
      /\ \A d \in Clients \ {c} : cli'[d] = cli[d]
  <2>1. cli' = SetClient(c, k) /\ cli \in [Clients -> Client]
    BY <1>0, <1>1, <1>3
  <2> QED  BY <2>1, SetClientFields
<1>5. \A j \in Fds \ {i} : LeftAlone(fds[j], fds'[j], len')
  BY <1>1, <1>2 DEF LeftAlone
<1>6. \A d \in Clients \ {c} : SameClient(d)
  BY <1>4, SameAsBefore
<1>7. ClosersKnow(c, i)
  BY <1>1, <1>2 DEF ClosersKnow
<1>8. ~ k.open /\ k.due # NoResult => k.fd = i /\ k.due = 0 /\ fds'[i].res = 0
  BY <1>1, <1>2, <1>3
<1> HIDE DEF i
<1> QED  BY <1>0, <1>1, <1>2, <1>3, <1>4, <1>5, <1>6, <1>7, <1>8, FileCallKeeps

LEMMA WaitKeeps ==
    ASSUME FileInv, NEW c \in Clients, WaitAsync(c)
    PROVE  FileInv'
<1>1. PICK e \in Fds \cup {0} :
          /\ cli' = SetClient(c, ClientOf(e, cli[c].open, NoResult))
          /\ cli[c].open => e = cli[c].fd
  BY DEF WaitAsync, SetClient, ClientOf, FileInv, Client
<1>2. fds' = fds /\ len' = len /\ closed' = closed
  BY DEF WaitAsync
<1>3. cli \in [Clients -> Client] /\ cli[c].open \in BOOLEAN /\ NoResult \in Int
  BY DEF FileInv, Client, NoResult
<1>4. /\ ClientOf(e, cli[c].open, NoResult) \in Client
      /\ ClientOf(e, cli[c].open, NoResult).fd = e
      /\ ClientOf(e, cli[c].open, NoResult).open = cli[c].open
      /\ ClientOf(e, cli[c].open, NoResult).due = NoResult
  BY <1>3, ClientFields
<1>5. /\ cli' \in [Clients -> Client] /\ cli'[c] = ClientOf(e, cli[c].open, NoResult)
      /\ \A d \in Clients \ {c} : cli'[d] = cli[d]
  BY <1>1, <1>3, <1>4, SetClientFields
<1>6. DescriptorInFile'
  BY <1>2 DEF FileInv, DescriptorInFile
<1>7. ASSUME NEW d \in Clients, cli'[d].open
      PROVE  /\ cli[d].open /\ cli'[d].fd = cli[d].fd
             /\ cli'[d].due # NoResult => cli'[d].due = cli[d].due
  <2>1. CASE d = c
    BY <2>1, <1>7, <1>1, <1>4, <1>5
  <2>2. CASE d # c
    BY <2>2, <1>7, <1>5
  <2> QED  BY <2>1, <2>2
<1>8. ASSUME NEW d \in Clients, ~ cli'[d].open, cli'[d].due # NoResult
      PROVE  cli'[d] = cli[d]
  BY <1>4, <1>5, <1>8
<1> QED  BY <1>2, <1>5, <1>6, <1>7, <1>8 DEF FileInv

(* A client keeps its descriptor, and a call that is not waited for leaves *)
(* what it waits for.                                                      *)
LEMMA DueFields ==
    ASSUME FileInv, NEW c \in Clients, NEW r \in Int, NEW async \in BOOLEAN,
           cli[c].fd \in Fds, Due(c, r, async)
    PROVE  /\ cli' \in [Clients -> Client] /\ cli'[c] \in Client
           /\ \A d \in Clients \ {c} : SameClient(d)
           /\ \A d \in Clients \ {c} : async /\ cli[d].fd = cli[c].fd => cli'[d].overtaken
           /\ cli'[c].fd = cli[c].fd /\ cli'[c].open = cli[c].open
           /\ cli'[c].due = IF async THEN r ELSE cli[c].due
<1> DEFINE k == [cli[c] EXCEPT !.due = r]
<1>0. cli \in [Clients -> Client] /\ cli[c] \in Client
  BY DEF FileInv
<1>1. /\ k \in Client /\ k.fd = cli[c].fd /\ k.open = cli[c].open /\ k.due = r
  BY <1>0, Zenon DEF Client
<1>2. PICK x \in Client : x = IF async THEN k ELSE cli[c]
  BY <1>0, <1>1
<1>3. PICK m \in [Clients -> Client] : /\ m[c] = x /\ \A d \in Clients \ {c} : m[d] = cli[d]
                                       /\ cli' = Overtaking(m, c, cli[c].fd, async)
  <2>1. CASE async
    <3>1. cli' = Overtaking(SetClient(c, x), c, cli[c].fd, async)
      BY <1>2, <2>1 DEF Due, SetClient
    <3> QED  BY <3>1, <1>0, SetClientFields
  <2>2. CASE ~ async
    <3>1. cli' = Overtaking(cli, c, cli[c].fd, async) /\ x = cli[c]
      BY <1>2, <2>2 DEF Due
    <3> QED  BY <3>1, <1>0
  <2> QED  BY <2>1, <2>2
<1>4. /\ x.fd = cli[c].fd /\ x.open = cli[c].open
      /\ x.due = IF async THEN r ELSE cli[c].due
  BY <1>1, <1>2
<1> HIDE DEF k
<1>5. /\ cli' \in [Clients -> Client] /\ cli'[c] = m[c]
      /\ \A d \in Clients : /\ cli'[d].fd = m[d].fd /\ cli'[d].open = m[d].open
                            /\ cli'[d].due = m[d].due
                            /\ ~ cli'[d].overtaken => ~ m[d].overtaken
                            /\ async /\ d # c /\ m[d].fd = cli[c].fd => cli'[d].overtaken
  BY <1>3, OvertakingFields
<1> QED  BY <1>3, <1>4, <1>5 DEF SameClient

(* Reading and seeking: the descriptor's offset is all that changes.       *)
LEMMA MoveKeeps ==
    ASSUME FileInv, NEW c \in Clients, cli[c].open, NEW o \in Nat, NEW r \in Int,
           NEW async \in BOOLEAN, o <= fds[cli[c].fd].size,
           fds' = SetRes(SetFd(fds, cli[c].fd, Moved(fds[cli[c].fd], o)), cli[c].fd, r, async),
           Due(c, r, async), UNCHANGED <<closed, len>>
    PROVE  FileInv'
<1> DEFINE i == cli[c].fd
           m == Moved(fds[i], o)
           f == SetFd(fds, i, m)
<1>0. /\ i \in Fds /\ fds[i].used /\ fds[i] \in Fd
      /\ \A d \in Clients \ {c} : cli[d].open => cli[d].fd # i
  BY OpenClient
<1>1. /\ closed' \in [Fds -> {0}] /\ len' \in [HostFiles -> Missing .. MaxLen] /\ len' = len
      /\ fds \in [Fds -> Fd]
  BY DEF FileInv
<1>2. /\ m \in Fd /\ m.off = o /\ m.used = fds[i].used /\ m.host = fds[i].host
      /\ m.size = fds[i].size /\ m.res = fds[i].res /\ m.stale = fds[i].stale
  BY <1>0, MovedFields
<1> HIDE DEF m
<1>3. f \in [Fds -> Fd] /\ f[i] = m /\ \A j \in Fds \ {i} : f[j] = fds[j]
  BY <1>0, <1>1, <1>2, SetFdFields
<1>4. fds' = SetRes(f, i, r, async)
  BY DEF m
<1> HIDE DEF f
<1>5. /\ fds' \in [Fds -> Fd] /\ \A j \in Fds \ {i} : fds'[j] = f[j]
      /\ fds'[i].used = f[i].used /\ fds'[i].host = f[i].host /\ fds'[i].off = f[i].off
      /\ fds'[i].size = f[i].size /\ fds'[i].stale = f[i].stale
      /\ async => fds'[i].res = r
      /\ ~ async => fds'[i].res = f[i].res
  BY <1>0, <1>3, <1>4, SetResFields
<1>6. /\ cli' \in [Clients -> Client] /\ cli'[c] \in Client
      /\ \A d \in Clients \ {c} : SameClient(d)
      /\ \A d \in Clients \ {c} : async /\ cli[d].fd = i => cli'[d].overtaken
      /\ cli'[c].fd = i /\ cli'[c].open = cli[c].open
      /\ cli'[c].due = IF async THEN r ELSE cli[c].due
  <2>1. /\ cli' \in [Clients -> Client] /\ cli'[c] \in Client
        /\ \A d \in Clients \ {c} : SameClient(d)
        /\ \A d \in Clients \ {c} : async /\ cli[d].fd = cli[c].fd => cli'[d].overtaken
        /\ cli'[c].fd = cli[c].fd /\ cli'[c].open = cli[c].open
        /\ cli'[c].due = IF async THEN r ELSE cli[c].due
    BY <1>0, DueFields
  <2> QED  BY <2>1
<1>7. \A j \in Fds \ {i} : LeftAlone(fds[j], fds'[j], len')
  BY <1>1, <1>3, <1>5 DEF LeftAlone
<1>8. /\ fds'[i].used /\ fds'[i].off <= fds'[i].size
      /\ fds'[i].host # OnDisc /\ ~ fds'[i].stale => fds'[i].size = len'[fds'[i].host]
  BY <1>0, <1>1, <1>2, <1>3, <1>5 DEF FileInv, DescriptorInFile
<1>9. cli'[c].due # NoResult => fds'[i].res = cli'[c].due
  BY <1>2, <1>3, <1>5, <1>6 DEF FileInv
<1>10. ClosersKnow(c, i)
  BY <1>2, <1>3, <1>5, <1>6 DEF ClosersKnow
<1> HIDE DEF i
<1> QED  BY <1>0, <1>1, <1>5, <1>6, <1>7, <1>8, <1>9, <1>10, FileCallKeeps

LEMMA ReadKeeps ==
    ASSUME FileInv, NEW c \in Clients, NEW count \in Counts, NEW async \in BOOLEAN,
           IoRead(c, count, async)
    PROVE  FileInv'
<1> DEFINE i == cli[c].fd
           n == ReadCount(fds[i], count)
           o == fds[i].off + n
<1>0. i \in Fds /\ fds[i] \in Fd /\ fds[i].off <= fds[i].size /\ cli[c].open
  BY OpenClient DEF IoRead
<1>1. /\ fds[i].off \in Nat /\ fds[i].size \in Nat /\ count \in Nat
      /\ fds[i].host # OnDisc => len[fds[i].host] \in Int
  <2>1. fds[i].host \in HostFiles \cup {OnDisc}
    BY <1>0 DEF Fd
  <2>2. MaxLen \in Int /\ Missing \in Int
    BY FileAssumption DEF Missing
  <2> QED  BY <1>0, <2>1, <2>2, FileAssumption DEF Fd, FileInv
<1>2. n \in Nat /\ o \in Nat /\ o <= fds[i].size
  BY <1>0, <1>1 DEF ReadCount, Larger
<1>3. /\ fds' = SetRes(SetFd(fds, i, Moved(fds[i], o)), i, n, async)
      /\ Due(c, n, async) /\ UNCHANGED <<closed, len>>
  BY DEF IoRead, SetFd, Moved
<1> HIDE DEF n, o
<1> QED  BY <1>0, <1>2, <1>3, MoveKeeps

LEMMA SeekKeeps ==
    ASSUME FileInv, NEW c \in Clients, NEW w \in {"SET", "CUR", "END"}, NEW dist \in Int,
           NEW async \in BOOLEAN, Lseek(c, w, dist, async)
    PROVE  FileInv'
<1> DEFINE i == cli[c].fd
           b == CASE w = "SET" -> 0 [] w = "CUR" -> fds[i].off [] w = "END" -> fds[i].size
           o == Sought(fds[i], b, dist)
<1>0. i \in Fds /\ fds[i] \in Fd /\ cli[c].open
  BY OpenClient DEF Lseek
<1>1. fds[i].off \in Nat /\ fds[i].size \in Nat
  BY <1>0 DEF Fd
<1>2. b \in Nat
  BY <1>1
<1>3. /\ fds' = SetRes(SetFd(fds, i, Moved(fds[i], o)), i, o, async)
      /\ Due(c, o, async) /\ UNCHANGED <<closed, len>>
  BY DEF Lseek, SetFd, Moved
<1> HIDE DEF b
<1>4. o \in Nat /\ o <= fds[i].size
  BY <1>1, <1>2 DEF Sought, Larger
<1> HIDE DEF o
<1> QED  BY <1>0, <1>3, <1>4, MoveKeeps

(* Writing.                                                                *)
SetLen(h, n) == [len EXCEPT ![h] = n]

LEMMA SetLenFields ==
    ASSUME len \in [HostFiles -> Missing .. MaxLen], NEW h \in HostFiles,
           NEW n \in Missing .. MaxLen
    PROVE  /\ SetLen(h, n) \in [HostFiles -> Missing .. MaxLen] /\ SetLen(h, n)[h] = n
           /\ \A g \in HostFiles \ {h} : SetLen(h, n)[g] = len[g]
BY DEF SetLen

LEMMA WrittenFields ==
    ASSUME NEW f \in Fd, NEW n \in Nat
    PROVE  /\ Written(f, n) \in Fd
           /\ Written(f, n).off = f.off + n /\ Written(f, n).size = Larger(f.size, f.off + n)
           /\ Written(f, n).used = f.used /\ Written(f, n).host = f.host
           /\ Written(f, n).res = f.res
           /\ ~ Written(f, n).stale
              => ~ f.stale /\ ~ (f.append /\ n > 0 /\ f.off # len[f.host])
<1>1. /\ f.off + n \in Nat /\ Larger(f.size, f.off + n) \in Nat
      /\ (f.stale \/ (f.append /\ n > 0 /\ f.off # len[f.host])) \in BOOLEAN
  BY DEF Larger, Fd
<1> QED  BY <1>1, Zenon DEF Written, Fd

(* A file that changes through i: what its other descriptors keep.         *)
LEMMA OthersLeftAlone ==
    ASSUME fds \in [Fds -> Fd], len \in [HostFiles -> Missing .. MaxLen], NEW i \in Fds,
           NEW h \in HostFiles, NEW r \in Fd, NEW m \in Missing .. MaxLen,
           NEW g, g = OthersStale(SetFd(fds, i, r), h, i)
    PROVE  /\ g \in [Fds -> Fd] /\ g[i] = r
           /\ \A j \in Fds \ {i} : LeftAlone(fds[j], g[j], SetLen(h, m))
<1> DEFINE s == SetFd(fds, i, r)
<1>1. s \in [Fds -> Fd] /\ s[i] = r /\ \A j \in Fds \ {i} : s[j] = fds[j]
  BY SetFdFields
<1>2. g = OthersStale(s, h, i)
  OBVIOUS
<1> HIDE DEF s
<1>3. /\ g \in [Fds -> Fd] /\ g[i] = s[i]
      /\ \A j \in Fds : /\ g[j].used = s[j].used /\ g[j].host = s[j].host
                        /\ g[j].off = s[j].off /\ g[j].size = s[j].size
                        /\ g[j].res = s[j].res
                        /\ ~ g[j].stale => ~ s[j].stale
                        /\ j # i /\ s[j].used /\ s[j].host = h => g[j].stale
  BY <1>1, <1>2, OthersStaleFields
<1>4. ASSUME NEW j \in Fds \ {i}
      PROVE LeftAlone(fds[j], g[j], SetLen(h, m))
  <2>1. fds[j].host \in HostFiles \cup {OnDisc}
    BY DEF Fd
  <2>2. ASSUME fds[j].used, g[j].host # OnDisc, ~ g[j].stale
        PROVE  ~ fds[j].stale /\ SetLen(h, m)[g[j].host] = len[g[j].host]
    BY <2>1, <2>2, <1>1, <1>3, SetLenFields
  <2> QED  BY <2>2, <1>1, <1>3 DEF LeftAlone
<1> QED  BY <1>1, <1>3, <1>4

LEMMA WriteKeeps ==
    ASSUME FileInv, NEW c \in Clients, NEW n \in Nat, IoWrite(c, n)
    PROVE  FileInv'
<1> DEFINE i == cli[c].fd
           f == fds[i]
           h == f.host
           end == (IF f.append THEN len[h] ELSE f.off) + n
           w == Written(f, n)
           m == Larger(len[h], end)
<1>0. /\ i \in Fds /\ f.used /\ f \in Fd /\ f.off <= f.size /\ cli[c].open
      /\ \A d \in Clients \ {c} : cli[d].open => cli[d].fd # i
  BY OpenClient DEF IoWrite
<1>1. /\ h # OnDisc /\ end <= MaxLen /\ closed' = closed /\ cli' = cli
      /\ n = 0 => fds' = fds /\ len' = len
      /\ n # 0 => fds' = OthersStale(SetFd(fds, i, w), h, i) /\ len' = SetLen(h, m)
  BY DEF IoWrite, SetFd, SetLen
<1>2. /\ h \in HostFiles /\ len[h] \in Missing .. MaxLen /\ f.off \in Nat /\ f.size \in Nat
      /\ f.append \in BOOLEAN /\ f.stale \in BOOLEAN /\ MaxLen \in Nat
  BY <1>0, <1>1, FileAssumption DEF Fd, FileInv
<1>3. CASE n = 0
  BY <1>1, <1>3 DEF FileInv, DescriptorInFile
<1>4. CASE n # 0
  <2>1. m \in Missing .. MaxLen
    BY <1>1, <1>2 DEF Larger, Missing
  <2>2. /\ w \in Fd /\ w.off = f.off + n /\ w.size = Larger(f.size, f.off + n)
        /\ w.used = f.used /\ w.host = h /\ w.res = f.res
        /\ ~ w.stale => ~ f.stale /\ ~ (f.append /\ n > 0 /\ f.off # len[h])
    BY <1>0, WrittenFields
  <2>3. /\ fds \in [Fds -> Fd] /\ len \in [HostFiles -> Missing .. MaxLen]
        /\ cli \in [Clients -> Client] /\ closed' \in [Fds -> {0}]
    BY <1>1 DEF FileInv
  <2>4. fds' = OthersStale(SetFd(fds, i, w), h, i) /\ len' = SetLen(h, m)
    BY <1>1, <1>4
  <2>5. ~ f.stale => f.size = len[h]
    BY <1>0, <1>1 DEF FileInv, DescriptorInFile
  <2>6. w.off <= w.size /\ (~ w.stale => w.size = m)
    BY <1>0, <1>2, <1>4, <2>2, <2>5 DEF Larger, Missing
  <2>7. cli[c].due # NoResult => f.res = cli[c].due
    BY <1>0 DEF FileInv
  <2> HIDE DEF w, m, h, end
  <2>8. /\ fds' \in [Fds -> Fd] /\ fds'[i] = w
        /\ \A j \in Fds \ {i} : LeftAlone(fds[j], fds'[j], len')
    BY <1>0, <1>2, <2>1, <2>2, <2>3, <2>4, OthersLeftAlone
  <2>9. len' \in [HostFiles -> Missing .. MaxLen] /\ len'[h] = m
    BY <1>2, <2>1, <2>3, <2>4, SetLenFields
  <2>10. cli' \in [Clients -> Client] /\ cli[c] \in Client /\ cli'[c] = cli[c]
         /\ \A d \in Clients \ {c} : SameClient(d)
    BY <1>1, <2>3, SameAsBefore
  <2>11. /\ fds'[i].used /\ fds'[i].off <= fds'[i].size /\ fds'[i].res = f.res
         /\ fds'[i].host # OnDisc /\ ~ fds'[i].stale => fds'[i].size = len'[fds'[i].host]
    BY <1>0, <2>2, <2>6, <2>8, <2>9
  <2> HIDE DEF i, f
  <2>12. cli[c].fd = i
    BY DEF i
  <2>13. ClosersKnow(c, i)
    BY <2>11 DEF ClosersKnow, f
  <2>14. /\ cli[c].open => /\ cli[c].fd = i /\ fds'[i].used
                           /\ cli[c].due # NoResult => fds'[i].res = cli[c].due
         /\ cli[c].open
    BY <1>0, <2>7, <2>11, <2>12
  <2> QED  BY <1>0, <2>3, <2>8, <2>9, <2>10, <2>11, <2>13, <2>14, FileCallKeeps
<1> QED  BY <1>3, <1>4

(* Opening.                                                                *)
LEMMA OpenedFields ==
    ASSUME NEW i \in Fds, fds[i] \in Fd, NEW p \in GuestPaths, NEW fl,
           LenOpened(p, fl) \in Nat
    PROVE  /\ HostFd(p, fl, i) \in Fd /\ HostFd(p, fl, i).used /\ HostFd(p, fl, i).off = 0
           /\ HostFd(p, fl, i).res = fds[i].res
           /\ HostFd(p, fl, i).host = HostName[p]
           /\ HostFd(p, fl, i).size = LenOpened(p, fl)
           /\ InIso(p) => /\ DiscFd(p, i) \in Fd /\ DiscFd(p, i).used /\ DiscFd(p, i).off = 0
                          /\ DiscFd(p, i).res = fds[i].res
                          /\ DiscFd(p, i).host = OnDisc /\ DiscFd(p, i).size \in Nat
<1>1. /\ HostName[p] \in HostFiles /\ 0 \in Nat
      /\ ("APPEND" \in fl /\ "TRUNC" \notin fl) \in BOOLEAN /\ (fl # {}) \in BOOLEAN
  BY DEF HostFiles
<1>2. /\ HostFd(p, fl, i) \in Fd /\ HostFd(p, fl, i).used /\ HostFd(p, fl, i).off = 0
      /\ HostFd(p, fl, i).res = fds[i].res
      /\ HostFd(p, fl, i).host = HostName[p]
      /\ HostFd(p, fl, i).size = LenOpened(p, fl)
  BY <1>1, Zenon DEF HostFd, Fd
<1>3. ASSUME InIso(p)
      PROVE  /\ DiscFd(p, i) \in Fd /\ DiscFd(p, i).used /\ DiscFd(p, i).off = 0
             /\ DiscFd(p, i).res = fds[i].res
             /\ DiscFd(p, i).host = OnDisc /\ DiscFd(p, i).size \in Nat
  <2>1. DiscSize[p] \in Nat
    BY <1>3, FileAssumption DEF InIso
  <2> QED  BY <2>1, <1>1, Zenon DEF DiscFd, Fd
<1> QED  BY <1>2, <1>3

(* A client that has no file takes descriptor i for one with record r; a   *)
(* host file h has length l from then on.                                  *)
TakenFds(i, r, host, h, l) ==
    IF host /\ len[h] # l THEN OthersStale(SetFd(fds, i, r), h, i) ELSE SetFd(fds, i, r)
TakenLen(host, h, l) == IF host THEN SetLen(h, l) ELSE len

LEMMA TakenKeeps ==
    ASSUME FileInv, NEW c \in Clients, ~ cli[c].open, NEW i \in Fds, ~ fds[i].used,
           NEW host \in BOOLEAN, NEW h \in HostFiles, NEW l \in Nat, l <= MaxLen,
           NEW r \in Fd, r.used, r.off = 0, r.res = fds[i].res,
           host => r.host = h /\ r.size = l, ~ host => r.host = OnDisc,
           NEW async \in BOOLEAN, NEW k \in Client, k.open, k.fd = i, k.due # NoResult => async /\ k.due = i,
           NEW g, g = TakenFds(i, r, host, h, l),
           fds' = SetRes(g, i, i, async),
           len' = TakenLen(host, h, l),
           cli' = Overtaking(SetClient(c, k), c, i, async), closed' = closed
    PROVE  FileInv'
<1>1. /\ fds \in [Fds -> Fd] /\ len \in [HostFiles -> Missing .. MaxLen]
      /\ cli \in [Clients -> Client] /\ closed \in [Fds -> {0}]
      /\ l \in Missing .. MaxLen /\ MaxLen \in Nat /\ i \in Int
  BY FileAssumption DEF FileInv, Missing, Fds
<1>2. \A d \in Clients \ {c} : cli[d].open => cli[d].fd # i
  BY DEF FileInv
<1>3. /\ SetFd(fds, i, r) \in [Fds -> Fd] /\ SetFd(fds, i, r)[i] = r
      /\ \A j \in Fds \ {i} : SetFd(fds, i, r)[j] = fds[j]
  BY <1>1, SetFdFields
<1>4. /\ SetLen(h, l) \in [HostFiles -> Missing .. MaxLen] /\ SetLen(h, l)[h] = l
      /\ \A x \in HostFiles \ {h} : SetLen(h, l)[x] = len[x]
  BY <1>1, SetLenFields
<1>5. /\ len' \in [HostFiles -> Missing .. MaxLen]
      /\ host => len'[h] = l
  BY <1>1, <1>4 DEF TakenLen
<1>6. /\ g \in [Fds -> Fd] /\ g[i] = r
      /\ \A j \in Fds \ {i} : LeftAlone(fds[j], g[j], len')
  <2>1. CASE host /\ len[h] # l
    <3>1. g = OthersStale(SetFd(fds, i, r), h, i) /\ len' = SetLen(h, l)
      BY <2>1 DEF TakenFds, TakenLen
    <3> QED  BY <1>1, <3>1, OthersLeftAlone
  <2>2. CASE ~ (host /\ len[h] # l)
    <3>1. \A x \in HostFiles : len'[x] = len[x]
      BY <2>2, <1>4 DEF TakenLen
    <3>2. g = SetFd(fds, i, r)
      BY <2>2 DEF TakenFds
    <3>3. ASSUME NEW j \in Fds \ {i}
          PROVE  LeftAlone(fds[j], g[j], len')
      <4>1. g[j] = fds[j] /\ fds[j].host \in HostFiles \cup {OnDisc}
        BY <3>2, <1>1, <1>3 DEF Fd
      <4> QED  BY <4>1, <3>1 DEF LeftAlone
    <3> QED  BY <3>2, <3>3, <1>3
  <2> QED  BY <2>1, <2>2
<1>7. /\ fds' \in [Fds -> Fd] /\ \A j \in Fds \ {i} : fds'[j] = g[j]
      /\ fds'[i].used = g[i].used /\ fds'[i].host = g[i].host /\ fds'[i].off = g[i].off
      /\ fds'[i].size = g[i].size /\ fds'[i].stale = g[i].stale
      /\ async => fds'[i].res = i
      /\ ~ async => fds'[i].res = g[i].res
  BY <1>1, <1>6, SetResFields
<1>8. /\ cli' \in [Clients -> Client] /\ cli'[c] = k
      /\ \A d \in Clients \ {c} : SameClient(d)
      /\ \A d \in Clients \ {c} : async /\ cli[d].fd = i => cli'[d].overtaken
  <2>1. PICK m \in [Clients -> Client] : /\ m = SetClient(c, k) /\ m[c] = k
                                         /\ \A d \in Clients \ {c} : m[d] = cli[d]
    BY <1>1, SetClientFields
  <2>2. cli' = Overtaking(m, c, i, async)
    BY <2>1
  <2>3. /\ cli' \in [Clients -> Client] /\ cli'[c] = m[c]
        /\ \A d \in Clients : /\ cli'[d].fd = m[d].fd /\ cli'[d].open = m[d].open
                              /\ cli'[d].due = m[d].due
                              /\ ~ cli'[d].overtaken => ~ m[d].overtaken
                              /\ async /\ d # c /\ m[d].fd = i => cli'[d].overtaken
    BY <2>2, OvertakingFields
  <2> QED  BY <2>1, <2>3 DEF SameClient
<1>9. \A j \in Fds \ {i} : LeftAlone(fds[j], fds'[j], len')
  BY <1>6, <1>7
<1>10. /\ fds'[i].used /\ fds'[i].off <= fds'[i].size
       /\ fds'[i].host # OnDisc /\ ~ fds'[i].stale => fds'[i].size = len'[fds'[i].host]
  <2>1. r.size \in Nat
    BY DEF Fd
  <2>2. fds'[i].used /\ fds'[i].off = 0 /\ fds'[i].size = r.size /\ fds'[i].host = r.host
    BY <1>6, <1>7
  <2>3. fds'[i].used /\ fds'[i].off <= fds'[i].size
    BY <2>1, <2>2
  <2>4. fds'[i].host # OnDisc => fds'[i].size = len'[fds'[i].host]
    <3>1. ASSUME host  PROVE fds'[i].size = len'[fds'[i].host]
      <4>1. r.host = h /\ r.size = l /\ len'[h] = l
        BY <3>1, <1>5
      <4>2. fds'[i].host = h /\ fds'[i].size = l
        BY <4>1, <2>2
      <4> QED  BY <4>1, <4>2
    <3>2. ASSUME ~ host  PROVE fds'[i].host = OnDisc
      BY <3>2, <2>2
    <3> QED  BY <3>1, <3>2
  <2> QED  BY <2>3, <2>4
<1>11. k.open => k.fd = i /\ fds'[i].used /\ (k.due # NoResult => fds'[i].res = k.due)
  BY <1>7, <1>10
<1>12. closed' \in [Fds -> {0}]
  BY <1>1
<1>13. fds' \in [Fds -> Fd] /\ len' \in [HostFiles -> Missing .. MaxLen]
  BY <1>5, <1>7
<1>14. ClosersKnow(c, i)
  BY <1>6, <1>7, <1>8 DEF ClosersKnow
<1> QED  BY <1>2, <1>8, <1>9, <1>10, <1>11, <1>12, <1>13, <1>14, FileCallKeeps

LEMMA OpenKeeps ==
    ASSUME FileInv, NEW c \in Clients, NEW p \in GuestPaths, NEW fl,
           NEW granted \in BOOLEAN, NEW async \in BOOLEAN, Open(c, p, fl, granted, async)
    PROVE  FileInv'
<1> DEFINE onHost == "WR" \in fl \/ "CREAT" \in fl \/ ~ InIso(p)
           H == onHost /\ HostOpens(p, fl, granted)
<1>0. /\ fds \in [Fds -> Fd] /\ HostName[p] \in HostFiles
      /\ len[HostName[p]] \in Missing .. MaxLen /\ MaxLen \in Nat /\ ~ cli[c].open
  BY FileAssumption DEF FileInv, HostFiles, Open
<1>1. CASE Slot = {} \/ (~ H /\ ~ InIso(p))
  BY <1>1 DEF Open, fileVars, FileInv, DescriptorInFile
<1>2. CASE ~ (Slot = {} \/ (~ H /\ ~ InIso(p)))
  <2>1. PICK host \in BOOLEAN : host <=> H
    OBVIOUS
  <2>2. PICK i \in Fds : i = OpenSlot(p, fl) /\ ~ fds[i].used
    BY <1>2, SlotIsFree
  <2>3. PICK l \in Nat : l = LenOpened(p, fl) /\ l <= MaxLen
    BY <1>0 DEF LenOpened, Missing
  <2>4. fds[i] \in Fd
    BY <1>0
  <2>5. PICK r \in Fd :
            /\ r = IF host THEN HostFd(p, fl, i) ELSE DiscFd(p, i)
            /\ r.used /\ r.off = 0 /\ r.res = fds[i].res
            /\ host => r.host = HostName[p] /\ r.size = l
            /\ ~ host => r.host = OnDisc
    BY <1>2, <2>1, <2>3, <2>4, OpenedFields
  <2>6. PICK k \in Client :
            /\ k = ClientOf(i, TRUE, IF async THEN i ELSE NoResult)
            /\ k.open /\ k.fd = i /\ (k.due # NoResult => async /\ k.due = i)
    <3>1. PICK due \in Int : due = IF async THEN i ELSE NoResult
      BY DEF NoResult, Fds
    <3>2. /\ ClientOf(i, TRUE, due) \in Client /\ ClientOf(i, TRUE, due).fd = i
          /\ ClientOf(i, TRUE, due).open
          /\ ClientOf(i, TRUE, due).due = due
      BY DEF ClientOf, Client
    <3> QED  BY <3>1, <3>2
  <2>7. /\ fds' = SetRes(TakenFds(i, r, host, HostName[p], l), i, i, async)
        /\ len' = TakenLen(host, HostName[p], l)
        /\ cli' = Overtaking(SetClient(c, k), c, i, async) /\ closed' = closed
    BY <1>2, <2>1, <2>2, <2>3, <2>5, <2>6 DEF Open, SetFd, SetLen, SetClient, ClientOf,
                                                    TakenFds, TakenLen
  <2> HIDE DEF H
  <2>8. /\ k.open /\ k.fd = i /\ (k.due # NoResult => async /\ k.due = i)
        /\ cli' = Overtaking(SetClient(c, k), c, i, async)
    BY <2>6, <2>7
  <2>9. /\ host => r.host = HostName[p] /\ r.size = l
        /\ ~ host => r.host = OnDisc
        /\ r.used /\ r.off = 0 /\ r.res = fds[i].res
    BY <2>5
  <2> QED  BY <1>0, <2>2, <2>3, <2>7, <2>8, <2>9, TakenKeeps
<1> QED  BY <1>1, <1>2

(* Initially no file is open.                                              *)
LEMMA FileStarts ==
    ASSUME FileInit
    PROVE  FileInv
<1>1. fds \in [Fds -> Fd] /\ \A i \in Fds : ~ fds[i].used
  <2>1. FreeFd(0) \in Fd /\ ~ FreeFd(0).used
    <3>1. 0 \in Int
      OBVIOUS
    <3> QED  BY <3>1, FreeFields
  <2> QED  BY <2>1 DEF FileInit
<1>2. cli \in [Clients -> Client] /\ \A c \in Clients : ~ cli[c].open /\ cli[c].due = NoResult
  <2>1. /\ ClientOf(0, FALSE, NoResult) \in Client /\ ~ ClientOf(0, FALSE, NoResult).open
        /\ ClientOf(0, FALSE, NoResult).due = NoResult
    BY DEF ClientOf, Client, NoResult
  <2>2. cli = [c \in Clients |-> ClientOf(0, FALSE, NoResult)]
    BY DEF FileInit, ClientOf, NoClient
  <2> QED  BY <2>1, <2>2
<1>3. closed \in [Fds -> {0}] /\ len \in [HostFiles -> Missing .. MaxLen]
  BY FileAssumption DEF FileInit, Missing
<1> QED  BY <1>1, <1>2, <1>3 DEF FileInv, DescriptorInFile

LEMMA FileStep == FileInv /\ [FileNext]_fileVars => FileInv'
<1> SUFFICES ASSUME FileInv, [FileNext]_fileVars  PROVE FileInv'
  OBVIOUS
<1>1. CASE UNCHANGED fileVars
  BY <1>1 DEF fileVars, FileInv, DescriptorInFile
<1>2. CASE FileNext
  <2>1. PICK c \in Clients :
        \/ \E p \in GuestPaths, fl \in OpenFlags, granted, async \in BOOLEAN :
               Open(c, p, fl, granted, async)
        \/ \E n \in Counts, async \in BOOLEAN : IoRead(c, n, async)
        \/ \E n \in Counts \cup {0} : IoWrite(c, n)
        \/ \E w \in {"SET", "CUR", "END"}, n \in Counts, s \in {-1, 1}, async \in BOOLEAN :
               Lseek(c, w, s * n, async)
        \/ Close(c)
        \/ CloseAsync(c)
        \/ WaitAsync(c)
    BY <1>2, Zenon DEF FileNext
  <2>2. CASE \E p \in GuestPaths, fl \in OpenFlags, granted, async \in BOOLEAN :
                 Open(c, p, fl, granted, async)
    BY <2>2, OpenKeeps
  <2>3. CASE \E n \in Counts, async \in BOOLEAN : IoRead(c, n, async)
    BY <2>3, ReadKeeps
  <2>4. CASE \E n \in Counts \cup {0} : IoWrite(c, n)
    BY <2>4, FileAssumption, WriteKeeps
  <2>5. CASE \E w \in {"SET", "CUR", "END"}, n \in Counts, s \in {-1, 1}, async \in BOOLEAN :
                 Lseek(c, w, s * n, async)
    <3>1. PICK w \in {"SET", "CUR", "END"}, n \in Counts, s \in {-1, 1}, async \in BOOLEAN :
                 Lseek(c, w, s * n, async)
      BY <2>5
    <3>2. s * n \in Int
      BY FileAssumption
    <3> QED  BY <3>1, <3>2, SeekKeeps
  <2> QED  BY <2>1, <2>2, <2>3, <2>4, <2>5, CloseKeeps, WaitKeeps
<1> QED  BY <1>1, <1>2

(* Whatever clients open, read, write, seek and close, an offset lies in   *)
(* its file, so that no count wraps below zero, and a result waited for is *)
(* the client's own.                                                       *)
THEOREM FilesAreServed == FileSpec => []FilesServed
<1>1. FileInit => FileInv
  BY FileStarts
<1>2. FileInv => FilesServed
  <2> SUFFICES ASSUME FileInv, NEW c \in Clients, cli[c].due # NoResult
               PROVE  Answer(cli[c].fd) = cli[c].due \/ (~ cli[c].open /\ cli[c].overtaken)
    BY DEF FileInv, OwnResult, FilesServed
  <2>1. CASE cli[c].open
    BY <2>1 DEF FileInv, Answer
  <2>2. CASE ~ cli[c].open
    <3>1. /\ cli[c].fd \in Fds /\ cli[c].due = 0
          /\ ~ cli[c].overtaken => fds[cli[c].fd].res = 0
          /\ closed[cli[c].fd] = 0
      BY <2>2 DEF FileInv
    <3> QED  BY <2>2, <3>1 DEF Answer
  <2> QED  BY <2>1, <2>2
<1> QED  BY <1>1, <1>2, FileStep, PTL DEF FileSpec

-----------------------------------------------------------------------------
(* Callbacks into the game, for any threads, callback slots and depth:     *)
(* whatever one calls and whichever threads run meanwhile, it returns to   *)
(* its caller's registers.                                                 *)

Activations == [thread : Threads, depth : Nat]

(* The copies on a thread's host stack are those of its activations from   *)
(* the outermost in.                                                       *)
StackInOrder(t) == \A i \in 1 .. Len(frames[t]) : frames[t][i] = Activation(t, i - 1)

(* A thread without the processor finds the registers of its innermost     *)
(* activation in its control block.                                        *)
SavedInnermost == \A t \in Threads \ {runs} : saved[t] = Activation(t, Len(frames[t]))

CallsTypeOK ==
    /\ runs \in Threads
    /\ registers \in Activations
    /\ saved \in [Threads -> Activations]
    /\ frames \in [Threads -> Seq(Activations)]

CallsInv ==
    /\ CallsTypeOK
    /\ EachFindsItsRegisters
    /\ SavedInnermost
    /\ \A t \in Threads : StackInOrder(t)

-----------------------------------------------------------------------------
(* Initially no thread is in a callback.                                   *)
LEMMA CallsInitInv == CallsInit => CallsInv
<1> SUFFICES ASSUME CallsInit PROVE CallsInv
  OBVIOUS
<1>1. runs \in Threads
  BY GuestCallsAssumption DEF CallsInit
<1>2. \A t \in Threads : frames[t] = <<>> /\ Len(frames[t]) = 0
  BY DEF CallsInit
<1>3. CallsTypeOK
  BY <1>1 DEF CallsInit, CallsTypeOK, Activations, Activation
<1>4. EachFindsItsRegisters
  BY <1>1, <1>2 DEF CallsInit, EachFindsItsRegisters
<1>5. SavedInnermost
  BY <1>2 DEF CallsInit, SavedInnermost
<1>6. \A t \in Threads : StackInOrder(t)
  BY <1>2 DEF StackInOrder
<1> QED
  BY <1>3, <1>4, <1>5, <1>6 DEF CallsInv

(* Entering a callback pushes the running thread's registers, which are    *)
(* those of its innermost activation, and loads those of a new one.        *)
LEMMA CallKeeps ==
    CallsInv /\ CallGuest /\ UNCHANGED <<runs, saved>> => CallsInv'
<1> SUFFICES ASSUME CallsInv, CallGuest, UNCHANGED <<runs, saved>> PROVE CallsInv'
  OBVIOUS
<1> DEFINE n == Len(frames[runs])
<1>1. /\ runs \in Threads /\ registers \in Activations
      /\ frames \in [Threads -> Seq(Activations)]
      /\ frames[runs] \in Seq(Activations)
      /\ n \in Nat
  BY DEF CallsInv, CallsTypeOK
<1>2. /\ frames'[runs] = Append(frames[runs], registers)
      /\ \A t \in Threads \ {runs} : frames'[t] = frames[t]
      /\ frames' \in [Threads -> Seq(Activations)]
  BY <1>1 DEF CallGuest
<1>3. Len(frames'[runs]) = n + 1
  BY <1>1, <1>2
<1>4. CallsTypeOK'
  <2>1. registers' \in Activations
    BY <1>1 DEF CallGuest, Activation, Activations
  <2>2. saved \in [Threads -> Activations]
    BY DEF CallsInv, CallsTypeOK
  <2> QED
    BY <1>1, <1>2, <2>1, <2>2 DEF CallsTypeOK
<1>5. EachFindsItsRegisters'
  BY <1>3 DEF CallGuest, EachFindsItsRegisters
<1>6. SavedInnermost'
  BY <1>2 DEF CallsInv, SavedInnermost
<1>7. ASSUME NEW t \in Threads PROVE StackInOrder(t)'
  <2>1. CASE t # runs
    BY <1>2, <2>1 DEF CallsInv, StackInOrder
  <2>2. CASE t = runs
    <3> SUFFICES ASSUME NEW i \in 1 .. n + 1
                 PROVE frames'[runs][i] = Activation(runs, i - 1)
      BY <1>3, <2>2 DEF StackInOrder
    <3>1. CASE i = n + 1
      <4>1. frames'[runs][i] = registers
        BY <1>1, <1>2, <3>1
      <4>2. registers = Activation(runs, n)
        BY DEF CallsInv, EachFindsItsRegisters
      <4> QED
        BY <1>1, <3>1, <4>1, <4>2
    <3>2. CASE i \in 1 .. n
      BY <1>1, <1>2, <3>2 DEF CallsInv, StackInOrder
    <3> QED
      BY <1>1, <3>1, <3>2
  <2> QED
    BY <2>1, <2>2
<1> QED
  BY <1>4, <1>5, <1>6, <1>7 DEF CallsInv

(* What is left of a sequence without its last element.                    *)
LEMMA WithoutLast ==
    ASSUME NEW S, NEW s \in Seq(S), Len(s) \in Nat \ {0}
    PROVE  /\ Len(SubSeq(s, 1, Len(s) - 1)) = Len(s) - 1
           /\ \A i \in 1 .. Len(s) - 1 : SubSeq(s, 1, Len(s) - 1)[i] = s[i]
<1> DEFINE n == Len(s) - 1
           front == SubSeq(s, 1, n)
<1>1. n \in Nat /\ \A i \in 1 .. n : s[i] \in S
  OBVIOUS
<1> HIDE DEF n
<1>2. /\ Len(front) = IF 1 <= n THEN n - 1 + 1 ELSE 0
      /\ \A i \in 1 .. n - 1 + 1 : front[i] = s[1 + i - 1]
  <2>1. 1 \in Int /\ n \in Int
    BY <1>1
  <2> QED
    BY <1>1, <2>1, SubSeqProperties, SMTT(30)
<1> HIDE DEF front
<1>3. Len(front) = n /\ \A i \in 1 .. n : front[i] = s[i]
  BY <1>1, <1>2
<1> QED
  BY <1>3 DEF front, n

(* Returning takes the copy off the top, which the invariant says is the   *)
(* caller's.                                                               *)
LEMMA ReturnKeeps == CallsInv /\ GuestReturns => CallsInv'
<1> SUFFICES ASSUME CallsInv, GuestReturns PROVE CallsInv'
  OBVIOUS
<1> DEFINE n == Len(frames[runs])
<1>1. /\ runs \in Threads
      /\ frames \in [Threads -> Seq(Activations)]
      /\ frames[runs] \in Seq(Activations) /\ frames[runs] # <<>>
      /\ n \in Nat \ {0}
  <2>1. runs \in Threads /\ frames \in [Threads -> Seq(Activations)]
    BY DEF CallsInv, CallsTypeOK
  <2> QED
    BY <2>1 DEF GuestReturns
<1>2. /\ frames'[runs] = SubSeq(frames[runs], 1, n - 1)
      /\ \A t \in Threads \ {runs} : frames'[t] = frames[t]
      /\ frames' \in [Threads -> Seq(Activations)]
  <2>1. SubSeq(frames[runs], 1, n - 1) \in Seq(Activations)
    BY <1>1
  <2>2. frames' = [frames EXCEPT ![runs] = SubSeq(frames[runs], 1, n - 1)]
    BY <1>1 DEF GuestReturns, Front
  <2> QED
    BY <1>1, <2>1, <2>2
<1>3. /\ Len(frames'[runs]) = n - 1
      /\ \A i \in 1 .. n - 1 : frames'[runs][i] = frames[runs][i]
  BY <1>1, <1>2, WithoutLast, Zenon
<1>4. registers' = Activation(runs, n - 1)
  <2>1. registers' = frames[runs][n]
    BY DEF GuestReturns, CallersCopy, Last
  <2>2. n \in 1 .. n
    BY <1>1
  <2> QED
    BY <1>1, <2>1, <2>2 DEF CallsInv, StackInOrder
<1>5. CallsTypeOK'
  <2>1. registers' \in Activations
    BY <1>1, <1>4 DEF Activation, Activations
  <2>2. saved' \in [Threads -> Activations] /\ runs' = runs
    BY DEF CallsInv, CallsTypeOK, GuestReturns
  <2> QED
    BY <1>1, <1>2, <2>1, <2>2 DEF CallsTypeOK
<1>6. EachFindsItsRegisters'
  BY <1>3, <1>4 DEF GuestReturns, EachFindsItsRegisters
<1>7. SavedInnermost'
  BY <1>2 DEF CallsInv, SavedInnermost, GuestReturns
<1>8. ASSUME NEW t \in Threads PROVE StackInOrder(t)'
  <2>1. CASE t # runs
    BY <1>2, <2>1 DEF CallsInv, StackInOrder
  <2>2. CASE t = runs
    BY <1>1, <1>3, <2>2 DEF CallsInv, StackInOrder
  <2> QED
    BY <2>1, <2>2
<1> QED
  BY <1>5, <1>6, <1>7, <1>8 DEF CallsInv

(* A switch exchanges the registers for those in the next thread's control *)
(* block and touches no stack.                                             *)
LEMMA SwitchKeeps ==
    ASSUME NEW u \in Threads
    PROVE  CallsInv /\ Switch(u) => CallsInv'
<1> SUFFICES ASSUME CallsInv, Switch(u) PROVE CallsInv'
  OBVIOUS
<1>1. CallsTypeOK'
  BY DEF CallsInv, CallsTypeOK, Switch
<1>2. EachFindsItsRegisters'
  BY DEF CallsInv, Switch, EachFindsItsRegisters, SavedInnermost
<1>3. SavedInnermost'
  <2> SUFFICES ASSUME NEW t \in Threads, t # u
               PROVE saved'[t] = Activation(t, Len(frames[t]))
    BY DEF Switch, SavedInnermost
  <2>1. CASE t = runs
    BY <2>1 DEF CallsInv, CallsTypeOK, Switch, EachFindsItsRegisters
  <2>2. CASE t # runs
    BY <2>2 DEF CallsInv, CallsTypeOK, Switch, SavedInnermost
  <2> QED
    BY <2>1, <2>2
<1>4. \A t \in Threads : StackInOrder(t)'
  BY DEF CallsInv, Switch, StackInOrder
<1> QED
  BY <1>1, <1>2, <1>3, <1>4 DEF CallsInv

(* Steps that leave the registers and the stacks alone.                    *)
LEMMA UnchangedKeeps ==
    CallsInv /\ UNCHANGED <<registers, runs, saved, frames>> => CallsInv'
BY DEF CallsInv, CallsTypeOK, EachFindsItsRegisters, SavedInnermost, StackInOrder

LEMMA CallsStepInv == CallsInv /\ [CallsNext]_callVars => CallsInv'
<1> SUFFICES ASSUME CallsInv, [CallsNext]_callVars PROVE CallsInv'
  OBVIOUS
<1>1. ASSUME NEW hasFinish \in BOOLEAN, SetCallback(hasFinish) PROVE CallsInv'
  BY <1>1, UnchangedKeeps DEF SetCallback
<1>2. ASSUME NEW c \in 0 .. CBSLOTS, ListEnQueue(c) PROVE CallsInv'
  <2>1. CASE c \in DOMAIN hooks /\ hooks[c]
    BY <1>2, <2>1, CallKeeps DEF ListEnQueue
  <2>2. CASE ~(c \in DOMAIN hooks /\ hooks[c])
    BY <1>2, <2>2, UnchangedKeeps DEF ListEnQueue
  <2> QED
    BY <2>1, <2>2
<1>3. CASE RingbufferPut
  BY <1>3, CallKeeps DEF RingbufferPut
<1>4. CASE GuestReturns
  BY <1>4, ReturnKeeps
<1>5. ASSUME NEW t \in Threads, Switch(t) PROVE CallsInv'
  BY <1>5, SwitchKeeps
<1>6. CASE UNCHANGED callVars
  BY <1>6, UnchangedKeeps DEF callVars
<1> QED
  BY <1>1, <1>2, <1>3, <1>4, <1>5, <1>6 DEF CallsNext

-----------------------------------------------------------------------------
(* Each activation finds its own registers (ge_call_guest and call_guest3  *)
(* keep the caller's copy on the thread's own host stack).                 *)
THEOREM CallbacksKeepRegisters == CallsSpec => []EachFindsItsRegisters
<1>1. CallsInv => EachFindsItsRegisters
  BY DEF CallsInv
<1> QED
  BY CallsInitInv, CallsStepInv, <1>1, PTL DEF CallsSpec

-----------------------------------------------------------------------------
(* The memory of the game, for any sizes, alignments, table of blocks and  *)
(* top of memory.                                                          *)

LEMMA Monotone ==
    ASSUME NEW n \in Nat \ {0}, NEW q \in Int, NEW k \in Int, q <= k
    PROVE  n * q <= n * k
<1>1. n * k = n * q + n * (k - q) /\ k - q \in Nat
  BY SMT
<1>2. n * (k - q) >= 0 /\ n * q \in Int /\ n * k \in Int
  BY <1>1, SMT
<1> QED
  BY <1>1, <1>2, SMT

LEMMA RoundsDown ==
    ASSUME NEW n \in Nat \ {0}, NEW x \in Nat
    PROVE  DownTo(x, n) \in Nat /\ DownTo(x, n) <= x
BY DivMod, SMT DEF DownTo

LEMMA RoundsUp ==
    ASSUME NEW n \in Nat \ {0}, NEW x \in Nat
    PROVE  UpTo(x, n) \in Nat /\ x <= UpTo(x, n)
<1>1. x + n - 1 \in Nat
  BY SMT
<1>2. (x + n - 1) % n \in 0 .. n - 1
  BY <1>1, DivMod
<1>3. UpTo(x, n) = x + n - 1 - ((x + n - 1) % n)
  BY DEF UpTo, DownTo
<1> DEFINE r == (x + n - 1) % n
<1> HIDE DEF r
<1> QED
  BY <1>2, <1>3, SMT DEF r

(* A multiple that is not above a number is not above it rounded down.     *)
LEMMA MultipleBelow ==
    ASSUME NEW n \in Nat \ {0}, NEW x \in Nat, NEW j \in Int, n * j <= x
    PROVE  n * j <= DownTo(x, n)
<1> DEFINE q == x \div n
           r == x % n
<1>1. x = n * q + r /\ q \in Nat /\ r \in 0 .. n - 1
  BY DivMod
<1>2. DownTo(x, n) = x - r
  BY DEF DownTo
<1> HIDE DEF q, r
<1>3. CASE j <= q
  <2>1. n * j <= n * q
    BY <1>1, <1>3, Monotone
  <2>2. n * q \in Int /\ n * j \in Int
    BY <1>1, SMT
  <2> QED
    BY <1>1, <1>2, <2>1, <2>2, SMT
<1>4. CASE q + 1 <= j
  <2>1. n * (q + 1) <= n * j
    BY <1>1, <1>4, Monotone
  <2>2. n * (q + 1) = n * q + n /\ n * q \in Int /\ n * j \in Int
    BY <1>1, SMT
  <2> QED
    BY <1>1, <2>1, <2>2, SMT
<1> QED
  BY <1>1, <1>3, <1>4, SMT

(* Numbers rounded by an alignment are multiples of every divisor of it.   *)
Multiple(x) == \E j \in Int : x = ROOM * j

LEMMA AlignedAreMultiples ==
    ASSUME NEW x \in Nat, x % ALIGN = 0
    PROVE  Multiple(x)
<1>1. ALIGN \in Nat \ {0} /\ ROOM \in Nat \ {0} /\ ALIGN % ROOM = 0
  BY GuestMemoryAssumption
<1> DEFINE m == ALIGN \div ROOM
           k == x \div ALIGN
<1>2. ALIGN = ROOM * m + (ALIGN % ROOM) /\ m \in Nat
  BY <1>1, DivMod
<1>3. x = ALIGN * k + (x % ALIGN) /\ k \in Nat
  BY <1>1, DivMod
<1> HIDE DEF m, k
<1>4. ALIGN = ROOM * m
  BY <1>1, <1>2, SMT
<1>5. x = ALIGN * k
  BY <1>1, <1>3, SMT
<1>6. x = ROOM * (m * k) /\ m * k \in Int
  BY <1>1, <1>2, <1>3, <1>4, <1>5, SMT
<1> QED
  BY <1>6 DEF Multiple

LEMMA UpIsMultiple ==
    ASSUME NEW x \in Nat
    PROVE  Multiple(UpTo(x, ALIGN))
<1>1. ALIGN \in Nat \ {0} /\ ROOM \in Nat \ {0} /\ ALIGN % ROOM = 0
  BY GuestMemoryAssumption
<1> DEFINE y == x + ALIGN - 1
           m == ALIGN \div ROOM
           k == y \div ALIGN
<1>2. ALIGN = ROOM * m + (ALIGN % ROOM) /\ m \in Nat
  BY <1>1, DivMod
<1>3. y \in Nat
  BY <1>1, SMT
<1> HIDE DEF y
<1>4. y = ALIGN * k + (y % ALIGN) /\ k \in Nat /\ y % ALIGN \in 0 .. ALIGN - 1
  BY <1>1, <1>3, DivMod
<1>5. UpTo(x, ALIGN) = y - (y % ALIGN)
  BY DEF UpTo, DownTo, y
<1> HIDE DEF m, k
<1>6. UpTo(x, ALIGN) = ALIGN * k
  <2> DEFINE r == y % ALIGN
             p == ALIGN * k
  <2>1. p \in Int /\ r \in Int /\ y = p + r /\ UpTo(x, ALIGN) = y - r
    BY <1>1, <1>4, <1>5, SMT
  <2> HIDE DEF r, p
  <2>2. UpTo(x, ALIGN) = p
    BY <2>1, SMT
  <2> QED
    BY <2>2 DEF p
<1>7. ALIGN = ROOM * m
  BY <1>1, <1>2, SMT
<1>8. UpTo(x, ALIGN) = ROOM * (m * k) /\ m * k \in Int
  BY <1>1, <1>2, <1>4, <1>6, <1>7, SMT
<1> QED
  BY <1>8 DEF Multiple

LEMMA DifferenceIsMultiple ==
    ASSUME NEW x, NEW y, Multiple(x), Multiple(y)
    PROVE  Multiple(x - y)
<1>1. PICK j \in Int : x = ROOM * j
  BY DEF Multiple
<1>2. PICK k \in Int : y = ROOM * k
  BY DEF Multiple
<1>3. x - y = ROOM * (j - k) /\ j - k \in Int
  BY <1>1, <1>2, GuestMemoryAssumption, SMT
<1> QED
  BY <1>3 DEF Multiple

-----------------------------------------------------------------------------
(* The inductive invariant.  Blocks end below the bump pointer and stacks  *)
(* begin above stackTop; the next of each kind is beyond.                  *)
Block == [uid : Nat, addr : Nat, size : Nat]

MemTypeOK ==
    /\ loadedEnd \in Nat /\ heap \in Nat /\ stackTop \in Nat /\ uid \in Nat
    /\ given \subseteq Block
    /\ \A s \in stacks : s.low \in Nat /\ s.size \in Nat
    /\ blocks \in Seq(Block)

BlocksInPlace ==
    /\ heap = 0 => given = {}
    /\ heap # 0 => loadedEnd <= heap
    /\ \A b \in given : /\ loadedEnd <= b.addr /\ b.addr + b.size <= heap
                        /\ b.uid < uid
    /\ \A b, c \in given : b # c => /\ b.addr + b.size <= c.addr \/ c.addr + c.size <= b.addr
                                    /\ b.uid # c.uid

KeepsControl(s) == Roomy(s) => s.low <= s.sp /\ s.k0 + TLS <= s.low + s.size

StacksInPlace ==
    /\ Multiple(stackTop)
    /\ \A s \in stacks : stackTop <= s.low
    /\ \A s \in stacks : KeepsControl(s)
    /\ \A s, t \in stacks : s # t => s.low + s.size <= t.low \/ t.low + t.size <= s.low

TableLists ==
    /\ Len(blocks) <= MAXBLOCKS
    /\ \A i \in 1 .. Len(blocks) : blocks[i] \in given
    /\ \A b \in given : (\E i \in 1 .. Len(blocks) : blocks[i] = b) \/ Len(blocks) = MAXBLOCKS

MemInv == MemTypeOK /\ BlocksInPlace /\ StacksInPlace /\ TableLists

LEMMA MemoryInitInv == MemoryInit => MemInv
<1> SUFFICES ASSUME MemoryInit PROVE MemInv
  OBVIOUS
<1>1. STACK_TOP \in Nat /\ STACK_TOP % ALIGN = 0 /\ MAXBLOCKS \in Nat
  BY GuestMemoryAssumption
<1>2. Multiple(STACK_TOP)
  BY <1>1, AlignedAreMultiples
<1>3. blocks = <<>> /\ Len(blocks) = 0 /\ given = {} /\ stacks = {}
  BY DEF MemoryInit
<1>4. MemTypeOK
  BY <1>1, <1>3 DEF MemoryInit, MemTypeOK
<1>5. BlocksInPlace /\ StacksInPlace
  BY <1>2, <1>3 DEF MemoryInit, BlocksInPlace, StacksInPlace
<1>6. TableLists
  BY <1>1, <1>3, SMT DEF TableLists
<1> QED
  BY <1>4, <1>5, <1>6 DEF MemInv

LEMMA LoadKeeps ==
    ASSUME MemInv, NEW end \in Segments, LoadSegment(end)
    PROVE  MemInv'
<1>1. end \in Nat
  BY GuestMemoryAssumption
<1>2. given = {} /\ heap = 0 /\ loadedEnd' \in Nat
  BY <1>1 DEF MemInv, BlocksInPlace, LoadSegment, MemTypeOK
<1>3. UNCHANGED <<heap, blocks, uid, stackTop, given, stacks>>
  BY DEF LoadSegment
<1>4. MemTypeOK' /\ TableLists' /\ StacksInPlace'
  BY <1>2, <1>3 DEF MemInv, MemTypeOK, TableLists, StacksInPlace, Multiple, KeepsControl, Roomy
<1>5. BlocksInPlace'
  BY <1>2, <1>3 DEF BlocksInPlace
<1> QED
  BY <1>4, <1>5 DEF MemInv

(* The partition begins above the module, and not at 0.                    *)
LEMMA StartedAboveModule ==
    ASSUME MemInv
    PROVE  /\ Started \in Nat \ {0} /\ loadedEnd <= Started /\ heap <= Started
           /\ \A b \in given : b.addr + b.size <= Started
<1>1. UpTo(loadedEnd, PAGE) \in Nat /\ loadedEnd <= UpTo(loadedEnd, PAGE)
  BY GuestMemoryAssumption, RoundsUp DEF MemInv, MemTypeOK
<1>2. heap = 0 => given = {}
  BY DEF MemInv, BlocksInPlace
<1>3. /\ heap \in Nat /\ loadedEnd \in Nat /\ RAM_BASE \in Nat \ {0}
      /\ heap # 0 => loadedEnd <= heap
  BY GuestMemoryAssumption DEF MemInv, MemTypeOK, BlocksInPlace
<1>4. /\ Started \in Nat \ {0} /\ loadedEnd <= Started /\ heap <= Started
      /\ heap # 0 => Started = heap
  BY <1>1, <1>3, SMT DEF Started
<1>5. \A b \in given : b.addr + b.size <= Started
  BY <1>2, <1>4 DEF MemInv, BlocksInPlace
<1> QED
  BY <1>4, <1>5

LEMMA AllocKeeps ==
    ASSUME MemInv, NEW wanted \in BlockSizes, AllocPartitionMemory(wanted)
    PROVE  MemInv'
<1> DEFINE size == IF wanted = 0 THEN DEFAULT ELSE wanted
           addr == Placed(Started)
           b == [uid |-> uid, addr |-> addr, size |-> size]
<1>1. size \in Nat
  BY GuestMemoryAssumption
<1>2. addr \in Nat /\ Started <= addr
  BY GuestMemoryAssumption, StartedAboveModule, RoundsUp DEF Placed
<1>3. /\ heap' = addr + size /\ uid' = uid + 1
      /\ given' = given \cup {b}
      /\ blocks' = IF Len(blocks) < MAXBLOCKS THEN Append(blocks, b) ELSE blocks
      /\ UNCHANGED <<loadedEnd, stackTop, stacks>>
  BY DEF AllocPartitionMemory
<1>4. Started \in Nat \ {0} /\ loadedEnd <= Started /\ \A c \in given : c.addr + c.size <= Started
  BY StartedAboveModule
<1> HIDE DEF size, addr
<1>5. b \in Block /\ b.uid = uid /\ b.addr = addr /\ b.size = size
  BY <1>1, <1>2 DEF Block, MemInv, MemTypeOK
<1> HIDE DEF b
<1>6. MemTypeOK'
  BY <1>1, <1>2, <1>3, <1>5 DEF MemInv, MemTypeOK
<1>7. \A c \in given : c.addr \in Nat /\ c.size \in Nat /\ c.uid \in Nat /\ c.uid < uid
  BY DEF MemInv, MemTypeOK, Block, BlocksInPlace
<1>8. BlocksInPlace'
  <2>0. uid \in Nat /\ loadedEnd \in Nat
    BY DEF MemInv, MemTypeOK
  <2>1. heap' # 0 /\ loadedEnd' <= heap'
    BY <1>1, <1>2, <1>3, <1>4, <2>0, SMT
  <2>2. ASSUME NEW c \in given'
        PROVE  loadedEnd' <= c.addr /\ c.addr + c.size <= heap' /\ c.uid < uid'
    <3>1. CASE c = b
      BY <1>1, <1>2, <1>3, <1>4, <1>5, <2>0, <3>1, SMT
    <3>2. CASE c \in given
      <4>1. loadedEnd <= c.addr
        BY <3>2 DEF MemInv, BlocksInPlace
      <4> QED
        BY <1>1, <1>2, <1>3, <1>4, <1>7, <2>0, <3>2, <4>1, SMT
    <3> QED
      BY <1>3, <3>1, <3>2
  <2>3. ASSUME NEW c \in given', NEW e \in given', c # e
        PROVE  /\ c.addr + c.size <= e.addr \/ e.addr + e.size <= c.addr
               /\ c.uid # e.uid
    <3>1. CASE c \in given /\ e \in given
      BY <2>3, <3>1 DEF MemInv, BlocksInPlace
    <3>2. ASSUME NEW x \in given PROVE x.addr + x.size <= b.addr /\ x.uid # b.uid
      BY <1>2, <1>4, <1>5, <1>7, <2>0, SMT
    <3> QED
      BY <1>3, <2>3, <3>1, <3>2
  <2> QED
    BY <2>1, <2>2, <2>3 DEF BlocksInPlace
<1>9. StacksInPlace'
  BY <1>3 DEF MemInv, StacksInPlace, Multiple, KeepsControl, Roomy
<1>10. TableLists'
  <2>1. CASE Len(blocks) < MAXBLOCKS
    <3>1. /\ blocks' = Append(blocks, b) /\ Len(blocks') = Len(blocks) + 1
          /\ blocks'[Len(blocks) + 1] = b /\ Len(blocks) \in Nat
          /\ \A i \in 1 .. Len(blocks) : blocks'[i] = blocks[i]
      BY <1>3, <1>5, <2>1 DEF MemInv, MemTypeOK
    <3>2. ASSUME NEW i \in 1 .. Len(blocks') PROVE blocks'[i] \in given'
      <4>1. CASE i \in 1 .. Len(blocks)
        BY <1>3, <3>1, <4>1 DEF MemInv, TableLists
      <4>2. CASE i = Len(blocks) + 1
        BY <1>3, <3>1, <4>2
      <4> QED
        BY <3>1, <4>1, <4>2, SMT
    <3>3. \A c \in given : \E i \in 1 .. Len(blocks) : blocks[i] = c
      BY <2>1, <3>1, GuestMemoryAssumption, SMT DEF MemInv, TableLists
    <3>4. ASSUME NEW c \in given' PROVE \E i \in 1 .. Len(blocks') : blocks'[i] = c
      <4>1. CASE c = b
        <5>1. Len(blocks) + 1 \in 1 .. Len(blocks')
          BY <3>1, SMT
        <5> QED
          BY <3>1, <4>1, <5>1
      <4>2. CASE c \in given
        <5>1. PICK i \in 1 .. Len(blocks) : blocks[i] = c
          BY <3>3, <4>2
        <5>2. i \in 1 .. Len(blocks') /\ blocks'[i] = c
          BY <3>1, <5>1, SMT
        <5> QED
          BY <5>2
      <4> QED
        BY <1>3, <4>1, <4>2
    <3>5. Len(blocks') <= MAXBLOCKS
      BY <2>1, <3>1, GuestMemoryAssumption, SMT
    <3> QED
      BY <3>2, <3>4, <3>5 DEF TableLists
  <2>2. CASE ~(Len(blocks) < MAXBLOCKS)
    <3>1. blocks' = blocks /\ Len(blocks) = MAXBLOCKS
      BY <1>3, <2>2, GuestMemoryAssumption, SMT DEF MemInv, MemTypeOK, TableLists
    <3> QED
      BY <1>3, <3>1 DEF MemInv, TableLists
  <2> QED
    BY <2>1, <2>2
<1> QED
  BY <1>6, <1>8, <1>9, <1>10 DEF MemInv

LEMMA QueryKeeps ==
    ASSUME MemInv, QueryFree
    PROVE  MemInv'
<1>1. /\ heap = 0 /\ heap' = Started
      /\ UNCHANGED <<loadedEnd, blocks, uid, stackTop, given, stacks>>
  BY DEF QueryFree
<1>2. given = {} /\ Started \in Nat /\ loadedEnd <= Started
  BY <1>1, StartedAboveModule DEF MemInv, BlocksInPlace
<1>3. MemTypeOK' /\ StacksInPlace' /\ TableLists'
  BY <1>1, <1>2 DEF MemInv, MemTypeOK, StacksInPlace, TableLists, Multiple, KeepsControl, Roomy
<1>4. BlocksInPlace'
  BY <1>1, <1>2 DEF BlocksInPlace
<1> QED
  BY <1>3, <1>4 DEF MemInv

(* A stack is below the last, and one that is big enough holds the control *)
(* area and room below it for the first frame.                             *)
LEMMA StackHolds ==
    ASSUME MemInv, NEW size \in Nat, NEW low, low = Low(size), low >= 0,
           NEW k0, k0 = ControlArea(DownTo(low + size, ROOM)),
           NEW sp, sp = DownTo(k0 - ROOM, ROOM)
    PROVE  /\ low \in Nat /\ low <= stackTop /\ low + size <= stackTop /\ Multiple(low)
           /\ size >= TLS + ROOM => low <= sp /\ k0 + TLS <= low + size
<1> DEFINE up == UpTo(size, ALIGN)
           top == DownTo(low + size, ROOM)
<1>1. /\ TLS \in Nat /\ ROOM \in Nat \ {0} /\ TLS % ROOM = 0
      /\ stackTop \in Nat
  BY GuestMemoryAssumption DEF MemInv, MemTypeOK
<1>2. up \in Nat /\ size <= up /\ Multiple(up)
  BY GuestMemoryAssumption, RoundsUp, UpIsMultiple
<1>3. low = stackTop - up
  BY DEF Low
<1>4. Multiple(low)
  BY <1>2, <1>3, DifferenceIsMultiple DEF MemInv, StacksInPlace
<1> HIDE DEF up
<1>5. low \in Nat /\ low <= stackTop /\ low + size <= stackTop
  BY <1>1, <1>2, <1>3, SMT
<1>6. ASSUME size >= TLS + ROOM PROVE low <= sp /\ k0 + TLS <= low + size
  <2>1. PICK j \in Int : low = ROOM * j
    BY <1>4 DEF Multiple
  <2>2. PICK q \in Nat : TLS = ROOM * q
    <3>1. TLS = ROOM * (TLS \div ROOM) + (TLS % ROOM) /\ TLS \div ROOM \in Nat
      BY <1>1, DivMod
    <3>2. TLS = ROOM * (TLS \div ROOM)
      BY <1>1, <3>1, SMT
    <3> QED
      BY <3>1, <3>2
  <2>3. /\ low + ROOM = ROOM * (j + 1) /\ j + 1 \in Int
        /\ low + TLS + ROOM = ROOM * (j + q + 1) /\ j + q + 1 \in Int
    BY <1>1, <2>1, <2>2, SMT
  <2>4. low + size \in Nat /\ low + TLS + ROOM <= low + size
    BY <1>1, <1>5, <1>6, SMT
  <2>5. top \in Nat /\ top <= low + size
    BY <1>1, <2>4, RoundsDown
  <2>6. low + TLS + ROOM <= top
    <3>1. ROOM * (j + q + 1) <= low + size
      BY <2>3, <2>4
    <3> QED
      BY <1>1, <2>3, <2>4, <3>1, MultipleBelow
  <2>7. k0 = DownTo(top - TLS, ROOM)
    BY DEF ControlArea
  <2> HIDE DEF top
  <2>8. top - TLS \in Nat /\ low + ROOM <= top - TLS
    BY <1>1, <1>5, <2>5, <2>6, SMT
  <2>9. k0 \in Nat /\ k0 <= top - TLS
    BY <1>1, <2>7, <2>8, RoundsDown
  <2>10. low + ROOM <= k0
    <3>1. ROOM * (j + 1) <= top - TLS
      BY <2>3, <2>8
    <3> QED
      BY <1>1, <2>3, <2>7, <2>8, <3>1, MultipleBelow
  <2>11. k0 - ROOM \in Nat /\ low <= k0 - ROOM
    BY <1>1, <1>5, <2>9, <2>10, SMT
  <2>12. low <= sp
    <3>1. ROOM * j <= k0 - ROOM
      BY <2>1, <2>11
    <3> QED
      BY <1>1, <2>1, <2>11, <3>1, MultipleBelow
  <2>13. k0 + TLS <= low + size
    BY <1>1, <1>5, <2>5, <2>9, SMT
  <2> QED
    BY <2>12, <2>13
<1> QED
  BY <1>4, <1>5, <1>6

LEMMA CreateThreadKeeps ==
    ASSUME MemInv, NEW wanted \in StackSizes, CreateThread(wanted)
    PROVE  MemInv'
<1>1. PICK size : size = IF wanted = 0 THEN DEFAULT_STACK ELSE wanted
  OBVIOUS
<1>2. PICK low : low = Low(size)
  OBVIOUS
<1>3. PICK k0 : k0 = ControlArea(DownTo(low + size, ROOM))
  OBVIOUS
<1>4. PICK sp : sp = DownTo(k0 - ROOM, ROOM)
  OBVIOUS
<1>5. PICK s : s = [uid |-> uid, low |-> low, size |-> size, sp |-> sp, k0 |-> k0]
  OBVIOUS
<1>6. /\ low >= 0 /\ stackTop' = low /\ uid' = uid + 1
      /\ stacks' = stacks \cup {s}
      /\ UNCHANGED <<loadedEnd, heap, blocks, given>>
  BY <1>1, <1>2, <1>3, <1>4, <1>5 DEF CreateThread
<1>7. size \in Nat /\ uid \in Nat /\ stackTop \in Nat
  BY <1>1, GuestMemoryAssumption DEF MemInv, MemTypeOK
<1>8. /\ low \in Nat /\ low <= stackTop /\ low + size <= stackTop /\ Multiple(low)
      /\ size >= TLS + ROOM => low <= sp /\ k0 + TLS <= low + size
  BY <1>2, <1>3, <1>4, <1>6, <1>7, StackHolds
<1>9. s.low = low /\ s.size = size /\ s.sp = sp /\ s.k0 = k0
  BY <1>5
<1>10. KeepsControl(s)
  BY <1>8, <1>9 DEF KeepsControl, Roomy
<1>11. MemTypeOK'
  BY <1>6, <1>7, <1>8, <1>9 DEF MemInv, MemTypeOK
<1>12. BlocksInPlace'
  <2>1. ASSUME NEW b \in given PROVE b.uid < uid + 1
    <3>1. b.uid < uid /\ b.uid \in Nat
      BY DEF MemInv, MemTypeOK, BlocksInPlace, Block
    <3> QED
      BY <1>7, <3>1, SMT
  <2> QED
    BY <1>6, <2>1 DEF MemInv, BlocksInPlace
<1>13. TableLists'
  BY <1>6 DEF MemInv, TableLists
<1>14. StacksInPlace'
  <2>1. ASSUME NEW t \in stacks PROVE low <= t.low /\ low + size <= t.low
    <3>1. t.low \in Nat /\ stackTop <= t.low
      BY DEF MemInv, MemTypeOK, StacksInPlace
    <3> QED
      BY <1>7, <1>8, <3>1, SMT
  <2>2. \A t \in stacks' : low <= t.low
    BY <1>6, <1>8, <1>9, <2>1
  <2>3. \A t, u \in stacks' : t # u => t.low + t.size <= u.low \/ u.low + u.size <= t.low
    <3>1. \A t, u \in stacks : t # u => t.low + t.size <= u.low \/ u.low + u.size <= t.low
      BY DEF MemInv, StacksInPlace
    <3> QED
      BY <1>6, <1>9, <2>1, <3>1, Zenon
  <2>4. \A t \in stacks' : KeepsControl(t)
    BY <1>6, <1>10 DEF MemInv, StacksInPlace
  <2>5. \A t \in stacks' : KeepsControl(t)'
    BY <2>4 DEF KeepsControl, Roomy
  <2> QED
    BY <1>6, <1>8, <2>2, <2>3, <2>5 DEF StacksInPlace, Multiple
<1> QED
  BY <1>11, <1>12, <1>13, <1>14 DEF MemInv

LEMMA MemoryStepInv == MemInv /\ [MemoryNext]_memVars => MemInv'
<1> SUFFICES ASSUME MemInv, [MemoryNext]_memVars PROVE MemInv'
  OBVIOUS
<1>1. CASE UNCHANGED memVars
  BY <1>1 DEF memVars, MemInv, MemTypeOK, BlocksInPlace, StacksInPlace, TableLists, Multiple, KeepsControl, Roomy
<1> QED
  BY <1>1, LoadKeeps, AllocKeeps, QueryKeeps, CreateThreadKeeps DEF MemoryNext

-----------------------------------------------------------------------------
(* Whatever sizes are asked for, blocks share no byte with each other or   *)
(* the module, nor stacks with each other; a stack that is big enough      *)
(* holds its control area; blocks and stacks are apart until their limits  *)
(* cross; and a uid leads to its own block until the table is full.        *)
THEOREM MemoryIsSound == MemorySpec => []GuestMemorySound
<1>1. MemInv => MemoryApart
  <2> SUFFICES ASSUME MemInv PROVE MemoryApart
    OBVIOUS
  <2>1. \A b \in given : /\ b.addr \in Nat /\ b.size \in Nat
                          /\ loadedEnd <= b.addr /\ b.addr + b.size <= heap
    BY DEF MemInv, MemTypeOK, Block, BlocksInPlace
  <2>2. \A s \in stacks : s.low \in Nat /\ s.size \in Nat /\ stackTop <= s.low
    BY DEF MemInv, MemTypeOK, StacksInPlace
  <2>3. heap \in Nat /\ stackTop \in Nat
    BY DEF MemInv, MemTypeOK
  <2>4. \A b \in given : b.addr >= loadedEnd
    BY <2>1 DEF MemInv, MemTypeOK
  <2>5. ASSUME NEW b \in given, NEW c \in given, b # c
        PROVE  Extent(b.addr, b.addr + b.size) \cap Extent(c.addr, c.addr + c.size) = {}
    <3>1. b.addr + b.size <= c.addr \/ c.addr + c.size <= b.addr
      BY <2>5 DEF MemInv, BlocksInPlace
    <3> QED
      BY <2>1, <3>1, SMT DEF Extent
  <2>6. ASSUME NEW s \in stacks, NEW t \in stacks, s # t
        PROVE  Extent(s.low, s.low + s.size) \cap Extent(t.low, t.low + t.size) = {}
    <3>1. s.low + s.size <= t.low \/ t.low + t.size <= s.low
      BY <2>6 DEF MemInv, StacksInPlace
    <3> QED
      BY <2>2, <3>1, SMT DEF Extent
  <2>7. ASSUME heap <= stackTop, NEW b \in given, NEW s \in stacks
        PROVE  Extent(b.addr, b.addr + b.size) \cap Extent(s.low, s.low + s.size) = {}
    BY <2>1, <2>2, <2>3, <2>7, SMT DEF Extent
  <2>8. \A s \in stacks : Roomy(s) => s.low <= s.sp /\ s.k0 + TLS <= s.low + s.size
    BY DEF MemInv, StacksInPlace, KeepsControl
  <2> QED
    BY <2>4, <2>5, <2>6, <2>7, <2>8 DEF MemoryApart
<1>2. MemInv => UidLeadsToBlock
  <2> SUFFICES ASSUME MemInv, NEW b \in given
               PROVE  HeadAddr(b.uid) = b.addr \/ (HeadAddr(b.uid) = 0 /\ Len(blocks) = MAXBLOCKS)
    BY DEF UidLeadsToBlock
  <2> DEFINE at == {i \in DOMAIN blocks : blocks[i].uid = b.uid}
  <2>1. DOMAIN blocks = 1 .. Len(blocks)
    BY DEF MemInv, MemTypeOK
  <2>2. CASE at = {}
    <3>1. HeadAddr(b.uid) = 0
      BY <2>2 DEF HeadAddr
    <3>2. ~ \E i \in 1 .. Len(blocks) : blocks[i] = b
      BY <2>1, <2>2
    <3> QED
      BY <3>1, <3>2 DEF MemInv, TableLists
  <2>3. CASE at # {}
    <3>1. PICK i \in at : HeadAddr(b.uid) = blocks[i].addr
      BY <2>3 DEF HeadAddr
    <3>2. blocks[i] \in given /\ blocks[i].uid = b.uid
      BY <2>1, <3>1 DEF MemInv, TableLists
    <3>3. blocks[i] = b
      BY <3>2 DEF MemInv, BlocksInPlace
    <3> QED
      BY <3>1, <3>3
  <2> QED
    BY <2>2, <2>3
<1>3. MemInv => GuestMemorySound
  BY <1>1, <1>2 DEF GuestMemorySound
<1> QED
  BY <1>3, MemoryInitInv, MemoryStepInv, PTL DEF MemorySpec

-----------------------------------------------------------------------------
(* The clocks of the game, for frames of any length in microseconds and in *)
(* lines.                                                                  *)

ClockTypeOK ==
    /\ vcount \in Nat /\ time \in Nat
    /\ lineFrame \in Int /\ line \in 0 .. LINES - 1
    /\ usec \in Int /\ hcount \in Int

(* What was returned is not ahead of what the next reading starts from:    *)
(* the lines of the frame the line counter belongs to, or those of a later *)
(* frame.                                                                  *)
ClockInv ==
    /\ ClockTypeOK
    /\ usec <= time
    /\ lineFrame <= vcount
    /\ hcount <= vcount * LINES + line
    /\ lineFrame # vcount => hcount <= vcount * LINES

-----------------------------------------------------------------------------
(* A frame later, the lines of the frame before are all passed.            *)
LEMMA NextFrame ==
    ASSUME NEW v \in Nat
    PROVE  (v + 1) * LINES = v * LINES + LINES /\ v * LINES \in Nat
BY ClockAssumption, SMT

LEMMA FrameStarts ==
    ASSUME NEW v \in Nat
    PROVE  v * FRAME \in Nat
BY ClockAssumption, SMT

LEMMA ClockInitInv == ClockInit => ClockInv
<1> SUFFICES ASSUME ClockInit PROVE ClockInv
  OBVIOUS
<1>1. 0 * LINES = 0
  BY ClockAssumption, SMT
<1> QED
  BY <1>1, ClockAssumption, SMT DEF ClockInit, ClockInv, ClockTypeOK

(* A reading of the line stays within the frame, and is not before the     *)
(* last line returned.                                                     *)
LEMMA LineMovesOn ==
    ASSUME ClockInv
    PROVE  /\ NextLine \in 0 .. LINES - 1
           /\ hcount <= vcount * LINES + NextLine
<1>1. vcount * LINES \in Nat
  BY NextFrame DEF ClockInv, ClockTypeOK
<1> DEFINE base == vcount * LINES
<1>2. /\ base \in Nat /\ hcount <= base + line
      /\ lineFrame # vcount => hcount <= base
  BY <1>1 DEF ClockInv
<1> HIDE DEF base
<1>3. /\ NextLine \in 0 .. LINES - 1
      /\ hcount <= base + NextLine
  BY <1>2, ClockAssumption, SMT DEF ClockInv, ClockTypeOK, NextLine
<1> QED
  BY <1>3 DEF base

LEMMA VblankKeeps == ClockInv /\ VblankTick => ClockInv'
<1> SUFFICES ASSUME ClockInv, VblankTick PROVE ClockInv'
  OBVIOUS
<1>1. vcount \in Nat /\ vcount' = vcount + 1
  BY DEF ClockInv, ClockTypeOK, VblankTick
<1> DEFINE base == vcount * LINES
           next == vcount' * LINES
<1>2. base \in Nat /\ next = base + LINES
  BY <1>1, NextFrame
<1>3. hcount <= base + line
  BY DEF ClockInv
<1> HIDE DEF base, next
<1>4. ClockTypeOK'
  BY <1>1 DEF ClockInv, ClockTypeOK, VblankTick
<1>5. usec' <= time' /\ lineFrame' <= vcount'
  BY <1>1, SMT DEF ClockInv, ClockTypeOK, VblankTick
<1>6. hcount' <= next /\ hcount' <= next + line'
  BY <1>2, <1>3, ClockAssumption, SMT DEF ClockInv, ClockTypeOK, VblankTick
<1> QED
  BY <1>4, <1>5, <1>6 DEF ClockInv, next

LEMMA NowKeeps == ClockInv /\ NowUsec => ClockInv' /\ usec' > usec /\ hcount' = hcount
<1> SUFFICES ASSUME ClockInv, NowUsec
             PROVE  ClockInv' /\ usec' > usec /\ hcount' = hcount
  OBVIOUS
<1>1. time \in Nat /\ usec \in Int /\ usec <= time /\ vcount * FRAME \in Nat
  BY FrameStarts DEF ClockInv, ClockTypeOK
<1> DEFINE start == vcount * FRAME
<1>2. start \in Nat /\ time' = IF start > time THEN start ELSE time + 1
  BY <1>1 DEF NowUsec, NextTime
<1> HIDE DEF start
<1>3. time' \in Nat /\ time' > time
  BY <1>1, <1>2, SMT
<1>4. usec' = time'
  BY DEF NowUsec
<1>5. usec' > usec /\ usec' <= time' /\ usec' \in Int
  BY <1>1, <1>3, <1>4, SMT
<1>6. UNCHANGED <<vcount, lineFrame, line, hcount>>
  BY DEF NowUsec
<1> QED
  BY <1>3, <1>5, <1>6 DEF ClockInv, ClockTypeOK

LEMMA CurrentKeeps ==
    ClockInv /\ GetCurrentHcount => ClockInv' /\ usec' = usec /\ hcount' = hcount
<1> SUFFICES ASSUME ClockInv, GetCurrentHcount
             PROVE  ClockInv' /\ usec' = usec /\ hcount' = hcount
  OBVIOUS
<1>1. line' = NextLine /\ lineFrame' = vcount /\ UNCHANGED <<vcount, time, usec, hcount>>
  BY DEF GetCurrentHcount
<1>2. NextLine \in 0 .. LINES - 1 /\ hcount <= vcount * LINES + NextLine
  BY LineMovesOn
<1> QED
  BY <1>1, <1>2 DEF ClockInv, ClockTypeOK

LEMMA AccumulatedKeeps ==
    ClockInv /\ GetAccumulatedHcount => ClockInv' /\ usec' = usec /\ hcount' >= hcount
<1> SUFFICES ASSUME ClockInv, GetAccumulatedHcount
             PROVE  ClockInv' /\ usec' = usec /\ hcount' >= hcount
  OBVIOUS
<1>1. /\ line' = NextLine /\ lineFrame' = vcount /\ UNCHANGED <<vcount, time, usec>>
      /\ hcount' = vcount * LINES + line'
  BY DEF GetAccumulatedHcount
<1>2. NextLine \in 0 .. LINES - 1 /\ hcount <= vcount * LINES + NextLine
  BY LineMovesOn
<1>3. vcount \in Nat /\ vcount * LINES \in Nat /\ hcount \in Int
  BY NextFrame DEF ClockInv, ClockTypeOK
<1> DEFINE base == vcount * LINES
<1>4. /\ base \in Nat /\ hcount' = base + line' /\ hcount <= base + line'
      /\ line' \in 0 .. LINES - 1 /\ hcount \in Int
  BY <1>1, <1>2, <1>3
<1>5. vcount' * LINES = base
  BY <1>1
<1> HIDE DEF base
<1>6. hcount' \in Int /\ hcount' >= hcount /\ hcount' <= base + line'
  <2>1. line' \in Int
    BY <1>4, ClockAssumption, SMT
  <2>2. hcount' \in Int
    BY <1>4, <2>1, SMT
  <2>3. hcount <= hcount'
    BY <1>4, Zenon
  <2>4. hcount' >= hcount /\ hcount' <= hcount'
    <3>1. hcount \in Int
      BY <1>4, Zenon
    <3> QED
      BY <2>2, <2>3, <3>1, SMT
  <2>5. hcount' <= base + line'
    BY <1>4, <2>4, Zenon
  <2> QED
    BY <2>2, <2>4, <2>5
<1>7. ClockTypeOK'
  BY <1>1, <1>4, <1>6 DEF ClockInv, ClockTypeOK
<1>8. usec' <= time' /\ lineFrame' <= vcount' /\ lineFrame' = vcount'
  BY <1>1, <1>3, SMT DEF ClockInv
<1>9. hcount' <= vcount' * LINES + line'
  BY <1>5, <1>6, Zenon
<1> QED
  BY <1>1, <1>6, <1>7, <1>8, <1>9, Zenon DEF ClockInv

LEMMA ClockStep ==
    ClockInv /\ [ClockNext]_clockVars =>
        /\ ClockInv'
        /\ \/ UNCHANGED clockVars
           \/ /\ usec' # usec => usec' > usec
              /\ NowUsec => usec' > usec
              /\ hcount' >= hcount
<1> SUFFICES ASSUME ClockInv, [ClockNext]_clockVars
             PROVE  /\ ClockInv'
                    /\ \/ UNCHANGED clockVars
                       \/ /\ usec' # usec => usec' > usec
                          /\ NowUsec => usec' > usec
                          /\ hcount' >= hcount
  OBVIOUS
<1>1. usec \in Int /\ hcount \in Int /\ hcount >= hcount
  BY SMT DEF ClockInv, ClockTypeOK
<1>2. NowUsec => usec' > usec
  BY NowKeeps
<1>3. CASE VblankTick
  BY <1>1, <1>2, <1>3, VblankKeeps DEF VblankTick
<1>4. CASE NowUsec
  BY <1>1, <1>4, NowKeeps
<1>5. CASE GetCurrentHcount
  BY <1>1, <1>2, <1>5, CurrentKeeps
<1>6. CASE GetAccumulatedHcount
  BY <1>2, <1>6, AccumulatedKeeps
<1>7. CASE UNCHANGED clockVars
  BY <1>7 DEF clockVars, ClockInv, ClockTypeOK
<1> QED
  BY <1>3, <1>4, <1>5, <1>6, <1>7 DEF ClockNext

-----------------------------------------------------------------------------
(* Every reading of the microseconds is later than the one before, and the *)
(* count of lines never goes back (now_usec, h_DispAccumHcount).           *)
THEOREM ClocksMoveOn == ClockSpec => TimeMovesOn
<1>1. ClockInv /\ [ClockNext]_clockVars =>
        [/\ usec' # usec => usec' > usec
         /\ NowUsec => usec' > usec
         /\ hcount' >= hcount]_clockVars
  BY ClockStep
<1>2. ClockInv /\ [ClockNext]_clockVars => ClockInv'
  BY ClockStep
<1> QED
  BY ClockInitInv, <1>1, <1>2, PTL DEF ClockSpec, TimeMovesOn

-----------------------------------------------------------------------------
(* The vector unit, for any registers, prefixes and number of matrices.    *)

(* A prefix that no vpfx set is the identity.                              *)
VfpuInv ==
    /\ prefixed \in BOOLEAN
    /\ ~ prefixed => ctrl.s = Identity /\ ctrl.t = Identity /\ ctrl.d = NoD
    /\ PrefixUsedOnce /\ MatrixHasItsVectors

Turns == 0 .. 6       \* a row or column, before it is taken around

(* Two places of a matrix are different lanes of it.                       *)
LEMMA LaneIs ==
    ASSUME NEW mtx \in 0 .. MATRICES - 1, NEW col \in Turns, NEW row \in Turns
    PROVE  /\ Lane(mtx, col, row) \in Lanes
           /\ Lane(mtx, col, row) \div 16 = mtx
           /\ \A c, r \in Turns : Lane(mtx, c, r) = Lane(mtx, col, row)
                  => (c % 4) = (col % 4) /\ (r % 4) = (row % 4)
<1>1. \A x \in Turns : (x % 4) \in 0 .. 3
  BY DEF Turns
<1>2. MATRICES \in Nat \ {0} /\ mtx \in Nat /\ mtx <= MATRICES - 1
  BY VfpuAssumption
<1>3. PICK c \in 0 .. 3 : c = (col % 4)
  BY <1>1
<1>4. PICK r \in 0 .. 3 : r = (row % 4)
  BY <1>1
<1>5. Lane(mtx, col, row) = mtx * 16 + c * 4 + r
  BY <1>3, <1>4 DEF Lane
<1>6. Lane(mtx, col, row) \in Lanes
  BY <1>2, <1>5 DEF Lanes
<1>7. Lane(mtx, col, row) \div 16 = mtx
  BY <1>2, <1>5
<1>8. ASSUME NEW cc \in Turns, NEW rr \in Turns, Lane(mtx, cc, rr) = Lane(mtx, col, row)
      PROVE  (cc % 4) = (col % 4) /\ (rr % 4) = (row % 4)
  <2>1. PICK x \in 0 .. 3 : x = (cc % 4)
    BY <1>1
  <2>2. PICK y \in 0 .. 3 : y = (rr % 4)
    BY <1>1
  <2>3. mtx * 16 + x * 4 + y = mtx * 16 + c * 4 + r
    BY <1>5, <1>8, <2>1, <2>2 DEF Lane
  <2>4. x = c /\ y = r
    BY <1>2, <2>3
  <2> QED  BY <1>3, <1>4, <2>1, <2>2, <2>4
<1> QED  BY <1>6, <1>7, <1>8

LEMMA RegisterIs ==
    ASSUME NEW reg \in Registers, NEW size \in LaneCounts
    PROVE  /\ reg.mtx \in 0 .. MATRICES - 1 /\ reg.col \in 0 .. 3
           /\ StartRow(reg, size) \in 0 .. 3 /\ size \in 1 .. 4
<1>1. reg \in [mtx : 0 .. MATRICES - 1, col : 0 .. 3, low : 0 .. 1, high : 0 .. 1] /\ size \in 1 .. 4
  BY VfpuAssumption
<1> QED  BY <1>1 DEF StartRow

(* A register's lanes are as many as the instruction's length, all         *)
(* different, of one matrix, and of the first column or row of it.         *)
LEMMA LanesOf ==
    ASSUME NEW reg \in Registers, NEW size \in LaneCounts
    PROVE  /\ DOMAIN VregIdx(reg, size) = 1 .. size /\ 1 \in 1 .. size
           /\ Len(VregIdx(reg, size)) = size
           /\ \A k \in 1 .. size : /\ VregIdx(reg, size)[k] \in Lanes
                                   /\ VregIdx(reg, size)[k] \div 16 = reg.mtx
                                   /\ VregIdx(reg, size)[k] \in MatrixLanes(reg, size)
           /\ \A k, m \in 1 .. size : VregIdx(reg, size)[k] = VregIdx(reg, size)[m] => k = m
<1> DEFINE row(k) == StartRow(reg, size) + k - 1
           idx    == VregIdx(reg, size)
<1>1. reg.mtx \in 0 .. MATRICES - 1 /\ reg.col \in 0 .. 3 /\ StartRow(reg, size) \in 0 .. 3 /\ size \in 1 .. 4
  BY RegisterIs
<1>2. DOMAIN idx = 1 .. size /\ 1 \in 1 .. size
  BY <1>1 DEF VregIdx
<1>3. \A k \in 1 .. size : /\ row(k) \in Turns /\ reg.col \in Turns
                           /\ idx[k] = IF Transposed(reg, size) THEN Lane(reg.mtx, row(k), reg.col)
                                                                ELSE Lane(reg.mtx, reg.col, row(k))
  BY <1>1 DEF VregIdx, Turns
<1>4. \A k \in 1 .. size : idx[k] \in Lanes /\ idx[k] \div 16 = reg.mtx
  BY <1>1, <1>3, LaneIs
<1>5. ASSUME NEW k \in 1 .. size PROVE idx[k] \in MatrixLanes(reg, size)
  <2>1. 0 \in 0 .. size - 1 /\ k - 1 \in 0 .. size - 1
    BY <1>1
  <2>2. StartRow(reg, size) + (k - 1) = row(k) /\ reg.col + 0 = reg.col
    BY <1>1
  <2>3. idx[k] = MregIdx(reg, size, 0, k - 1)
    BY <1>3, <2>2 DEF MregIdx
  <2> QED  BY <2>1, <2>3 DEF MatrixLanes
<1>6. ASSUME NEW k \in 1 .. size, NEW m \in 1 .. size, idx[k] = idx[m] PROVE k = m
  <2>1. (row(k) % 4) = (row(m) % 4)
    <3>1. PICK rk \in Turns : rk = row(k)
      BY <1>3
    <3>2. PICK rm \in Turns : rm = row(m)
      BY <1>3
    <3>3. \/ Lane(reg.mtx, rm, reg.col) = Lane(reg.mtx, rk, reg.col)
          \/ Lane(reg.mtx, reg.col, rm) = Lane(reg.mtx, reg.col, rk)
      BY <1>3, <1>6, <3>1, <3>2
    <3>4. reg.col \in Turns
      BY <1>3
    <3> HIDE DEF row
    <3>5. (rm % 4) = (rk % 4)
      BY <1>1, <3>3, <3>4, LaneIs
    <3> QED  BY <3>1, <3>2, <3>5
  <2>2. PICK s \in 0 .. 3 : s = StartRow(reg, size)
    BY <1>1
  <2>3. k \in 1 .. 4 /\ m \in 1 .. 4 /\ ((s + k - 1) % 4) = ((s + m - 1) % 4)
    BY <1>1, <2>1, <2>2
  <2> QED  BY <2>3
<1>7. Len(idx) = size
  <2>1. idx \in Seq(Lanes)
    BY <1>1, <1>4 DEF VregIdx
  <2> QED  BY <1>1, <1>2, <2>1
<1> QED  BY <1>2, <1>4, <1>5, <1>6, <1>7

(* Every lane of a matrix's instruction is of the register's matrix.       *)
LEMMA OneMatrix ==
    ASSUME NEW reg \in Registers, NEW size \in LaneCounts, NEW l \in MatrixLanes(reg, size)
    PROVE  l \div 16 = reg.mtx
<1>1. reg.mtx \in 0 .. MATRICES - 1 /\ reg.col \in 0 .. 3 /\ StartRow(reg, size) \in 0 .. 3 /\ size \in 1 .. 4
  BY RegisterIs
<1>2. PICK j \in 0 .. size - 1, i \in 0 .. size - 1 : l = MregIdx(reg, size, j, i)
  BY DEF MatrixLanes
<1>3. StartRow(reg, size) + i \in Turns /\ reg.col + j \in Turns
  BY <1>1 DEF Turns
<1>4. CASE Transposed(reg, size)
  BY <1>1, <1>2, <1>3, <1>4, LaneIs DEF MregIdx
<1>5. CASE ~ Transposed(reg, size)
  BY <1>1, <1>2, <1>3, <1>5, LaneIs DEF MregIdx
<1> QED  BY <1>4, <1>5

(* Read without a prefix, a register is its lanes.                         *)
LEMMA BareRead ==
    ASSUME NEW reg \in Registers, NEW size \in LaneCounts, NEW k \in 1 .. size
    PROVE  Read(VregIdx(reg, size), Identity)[k] = vr[VregIdx(reg, size)[k]]
<1> DEFINE idx == VregIdx(reg, size)
<1>1. DOMAIN idx = 1 .. size /\ Len(idx) = size /\ size \in 1 .. 4
  BY LanesOf, RegisterIs
<1> HIDE DEF idx
<1>2. Identity.lane[k] + 1 = k /\ k \notin Identity.const /\ k \notin Identity.abs /\ k \notin Identity.neg
  <2>1. k \in 1 .. 4
    BY <1>1
  <2> QED  BY <2>1 DEF Identity
<1>3. Read(idx, Identity)[k] = vr[idx[Identity.lane[k] + 1]]
  BY <1>1, <1>2 DEF Read
<1> QED  BY <1>2, <1>3 DEF idx

(* Whatever the destination's prefix, only its lanes change.               *)
LEMMA OthersStay ==
    ASSUME NEW idx, NEW val, NEW l \in Lanes, Write(idx, val)[l] # vr[l]
    PROVE  \E k \in DOMAIN idx : idx[k] = l
<1> DEFINE ks == {k \in DOMAIN idx : idx[k] = l /\ k \notin ctrl.d.mask}
<1>1. ks # {}
  BY DEF Write
<1> QED  BY <1>1

(* Without one, each value is stored in its lane.                          *)
LEMMA BareWrite ==
    ASSUME NEW reg \in Registers, NEW size \in LaneCounts, NEW val, NEW k \in 1 .. size, ctrl.d = NoD
    PROVE  Write(VregIdx(reg, size), val)[VregIdx(reg, size)[k]] = val[k]
<1> DEFINE idx == VregIdx(reg, size)
           ks  == {m \in DOMAIN idx : idx[m] = idx[k] /\ m \notin ctrl.d.mask}
<1>1. /\ DOMAIN idx = 1 .. size /\ idx[k] \in Lanes /\ size \in 1 .. 4
      /\ \A m, n \in 1 .. size : idx[m] = idx[n] => m = n
  BY LanesOf, RegisterIs
<1> HIDE DEF idx
<1>2. ks = {k}
  BY <1>1 DEF NoD
<1>3. (CHOOSE m \in ks : \A n \in ks : n <= m) = k
  <2>1. k \in ks /\ \A n \in ks : n <= k
    BY <1>1, <1>2
  <2>2. \A m \in ks : m = k
    BY <1>2
  <2> QED  BY <2>1, <2>2
<1>4. Write(idx, val)[idx[k]] = Saturated(val[k], ctrl.d.sat[k])
  BY <1>1, <1>2, <1>3 DEF Write
<1>5. ctrl.d.sat[k] = 0
  BY <1>1 DEF NoD
<1> QED  BY <1>4, <1>5 DEF Saturated, idx

LEMMA VfpuInitInv == VfpuInit => VfpuInv
<1> SUFFICES ASSUME VfpuInit PROVE VfpuInv
  OBVIOUS
<1>1. ctrl.s = Identity /\ ctrl.t = Identity /\ ctrl.d = NoD
  BY DEF VfpuInit, NoPrefix
<1>2. did.op = "none" /\ prefixed = FALSE
  BY DEF VfpuInit
<1> QED
  BY <1>1, <1>2 DEF VfpuInv, PrefixUsedOnce, MatrixHasItsVectors, MatrixOps

(* What an instruction that uses a prefix up leaves.                       *)
LEMMA ExecutedInv ==
    ASSUME NEW op, NEW n \in LaneCounts, NEW vd \in Registers, NEW s, NEW val,
           op \notin MatrixOps \cup {"vmov", "none"},
           Runs(op, VregIdx(vd, n), s), Executed(Write(VregIdx(vd, n), val), Eaten)
    PROVE  VfpuInv'
<1>1. did' = [op |-> op, d |-> VregIdx(vd, n), s |-> s, bare |-> ~ prefixed, v |-> vr]
  BY DEF Runs
<1>2. vr' = Write(VregIdx(vd, n), val) /\ prefixed' = FALSE /\ ctrl' = Eaten
  BY DEF Executed
<1>3. ctrl'.s = Identity /\ ctrl'.t = Identity /\ ctrl'.d = NoD
  BY <1>2 DEF Eaten, NoPrefix
<1>4. PrefixUsedOnce'
  BY <1>1, <1>2, OthersStay DEF PrefixUsedOnce
<1> QED  BY <1>1, <1>2, <1>3, <1>4 DEF VfpuInv, MatrixHasItsVectors

LEMMA OneSourceInv == VfpuInv /\ OneSource => VfpuInv'
<1> SUFFICES ASSUME VfpuInv, OneSource PROVE VfpuInv'
  OBVIOUS
<1>1. PICK op \in {"vmov", "vabs", "vneg", "vsat0", "vsat1"}, n \in LaneCounts, vd \in Registers, vs \in Registers :
        LET a == Read(VregIdx(vs, n), ctrl.s)
        IN  /\ Runs(op, VregIdx(vd, n), VregIdx(vs, n))
            /\ Executed(Write(VregIdx(vd, n), [k \in 1 .. n |-> Unary(op, a[k])]), Eaten)
  BY DEF OneSource
<1> DEFINE a   == Read(VregIdx(vs, n), ctrl.s)
           val == [k \in 1 .. n |-> Unary(op, a[k])]
<1>2. did' = [op |-> op, d |-> VregIdx(vd, n), s |-> VregIdx(vs, n), bare |-> ~ prefixed, v |-> vr]
  BY <1>1 DEF Runs
<1>3. vr' = Write(VregIdx(vd, n), val) /\ prefixed' = FALSE /\ ctrl' = Eaten
  BY <1>1 DEF Executed
<1>4. CASE op # "vmov"
  BY <1>1, <1>4, ExecutedInv DEF MatrixOps
<1>5. CASE op = "vmov"
  <2>1. ctrl'.s = Identity /\ ctrl'.t = Identity /\ ctrl'.d = NoD
    BY <1>3 DEF Eaten, NoPrefix
  <2>2. ASSUME did'.bare, NEW k \in DOMAIN did'.d PROVE vr'[did'.d[k]] = did'.v[did'.s[k]]
    <3>1. ctrl.s = Identity /\ ctrl.d = NoD
      BY <1>2, <2>2 DEF VfpuInv
    <3>2. k \in 1 .. n
      BY <1>2, <2>2, LanesOf
    <3>3. a[k] = vr[VregIdx(vs, n)[k]]
      BY <3>1, <3>2, BareRead
    <3>4. val[k] = a[k]
      BY <1>5, <3>2 DEF Unary
    <3>5. vr'[VregIdx(vd, n)[k]] = val[k]
      <4> HIDE DEF val
      <4> QED  BY <1>3, <3>1, <3>2, BareWrite
    <3> QED  BY <1>2, <3>3, <3>4, <3>5
  <2>3. ASSUME NEW l \in Lanes, vr'[l] # did'.v[l] PROVE \E k \in DOMAIN did'.d : did'.d[k] = l
    <3> HIDE DEF val
    <3> QED  BY <1>2, <1>3, <2>3, OthersStay
  <2>4. PrefixUsedOnce'
    BY <2>2, <2>3 DEF PrefixUsedOnce
  <2> QED  BY <1>2, <1>3, <1>5, <2>1, <2>4 DEF VfpuInv, MatrixHasItsVectors, MatrixOps
<1> QED  BY <1>4, <1>5

LEMMA OthersInv ==
    VfpuInv /\ (TwoSources \/ Arithmetic \/ SetsNumbers \/ ConditionalMove) => VfpuInv'
<1>1. ASSUME TwoSources PROVE VfpuInv'
  <2>1. PICK op \in {"vmin", "vmax"}, n \in LaneCounts, vd \in Registers, vs \in Registers, vt \in Registers :
          LET a == Read(VregIdx(vs, n), ctrl.s)
              b == Read(VregIdx(vt, n), ctrl.t)
          IN  /\ Runs(op, VregIdx(vd, n), VregIdx(vs, n))
              /\ Executed(Write(VregIdx(vd, n),
                          [k \in 1 .. n |-> IF (op = "vmin") = (a[k] < b[k]) THEN a[k] ELSE b[k]]),
                          Eaten)
    BY <1>1 DEF TwoSources
  <2>2. op \notin MatrixOps \cup {"vmov", "none"}
    BY DEF MatrixOps
  <2> QED  BY <2>1, <2>2, ExecutedInv
<1>2. ASSUME Arithmetic PROVE VfpuInv'
  BY <1>2, ExecutedInv DEF Arithmetic, MatrixOps
<1>3. ASSUME SetsNumbers PROVE VfpuInv'
  BY <1>3, ExecutedInv DEF SetsNumbers, MatrixOps
<1>4. ASSUME ConditionalMove PROVE VfpuInv'
  BY <1>4, ExecutedInv DEF ConditionalMove, MatrixOps
<1> QED  BY <1>1, <1>2, <1>3, <1>4

(* The register's lanes are the matrix's first column or row: the unit     *)
(* matrix has its one in the first of them only.                           *)
LEMMA OnDiagonal ==
    ASSUME NEW reg \in Registers, NEW size \in LaneCounts, NEW k \in 1 .. size
    PROVE  (\E j \in 0 .. size - 1 : VregIdx(reg, size)[k] = MregIdx(reg, size, j, j)) <=> k = 1
<1>1. reg.mtx \in 0 .. MATRICES - 1 /\ reg.col \in 0 .. 3 /\ StartRow(reg, size) \in 0 .. 3 /\ size \in 1 .. 4
  BY RegisterIs
<1>2. PICK c \in 0 .. 3, r \in 0 .. 3 : c = reg.col /\ r = StartRow(reg, size)
  BY <1>1
<1>3. VregIdx(reg, size)[k] = IF Transposed(reg, size) THEN Lane(reg.mtx, r + k - 1, c)
                                                       ELSE Lane(reg.mtx, c, r + k - 1)
  BY <1>1, <1>2 DEF VregIdx
<1>4. \A j \in 0 .. size - 1 :
        MregIdx(reg, size, j, j) = IF Transposed(reg, size) THEN Lane(reg.mtx, r + j, c + j)
                                                            ELSE Lane(reg.mtx, c + j, r + j)
  BY <1>1, <1>2 DEF MregIdx
<1>5. ASSUME NEW j \in 0 .. size - 1, VregIdx(reg, size)[k] = MregIdx(reg, size, j, j) PROVE k = 1
  <2>1. PICK a \in Turns, b \in Turns, d \in Turns : a = r + k - 1 /\ b = r + j /\ d = c + j /\ c \in Turns
    BY <1>1 DEF Turns
  <2>2. \/ Lane(reg.mtx, a, c) = Lane(reg.mtx, b, d)
        \/ Lane(reg.mtx, c, a) = Lane(reg.mtx, d, b)
    BY <1>3, <1>4, <1>5, <2>1
  <2>3. (a % 4) = (b % 4) /\ (c % 4) = (d % 4)
    BY <1>1, <2>1, <2>2, LaneIs
  <2>4. j = 0
    <3>1. j \in 0 .. 3 /\ (c % 4) = ((c + j) % 4)
      BY <1>1, <2>1, <2>3
    <3> QED  BY <3>1
  <2>5. k \in 1 .. 4 /\ ((r + k - 1) % 4) = (r % 4)
    BY <1>1, <2>1, <2>3, <2>4
  <2> QED  BY <2>5
<1>6. ASSUME k = 1 PROVE \E j \in 0 .. size - 1 : VregIdx(reg, size)[k] = MregIdx(reg, size, j, j)
  <2>1. 0 \in 0 .. size - 1 /\ r + k - 1 = r + 0 /\ c = c + 0
    BY <1>1, <1>6
  <2>2. VregIdx(reg, size)[k] = MregIdx(reg, size, 0, 0)
    BY <1>3, <1>4, <2>1
  <2> QED  BY <2>1, <2>2
<1> QED  BY <1>5, <1>6

LEMMA MatrixDoneInv ==
    ASSUME VfpuInv, NEW op \in MatrixOps, NEW n \in LaneCounts, NEW vd \in Registers, NEW val,
           MatrixDone(op, n, vd, val),
           op = "matrix" => \E x \in {0, One} : \A l \in MatrixLanes(vd, n) : val[l] = x,
           op = "vmidt" => \A l \in MatrixLanes(vd, n) :
                              val[l] = IF \E j \in 0 .. n - 1 : l = MregIdx(vd, n, j, j) THEN One ELSE 0
    PROVE  VfpuInv'
<1> DEFINE d == VregIdx(vd, n)
<1>1. op \notin {"vmov", "none"}
  BY DEF MatrixOps
<1>2. did' = [op |-> op, d |-> d, s |-> <<>>, bare |-> ~ prefixed, v |-> vr]
  BY DEF MatrixDone, Runs
<1>3. /\ vr' = [l \in Lanes |-> IF l \in MatrixLanes(vd, n) THEN val[l] ELSE vr[l]]
      /\ prefixed' = FALSE /\ ctrl' = Eaten
  BY DEF MatrixDone, Executed
<1>4. ctrl'.s = Identity /\ ctrl'.t = Identity /\ ctrl'.d = NoD
  BY <1>3 DEF Eaten, NoPrefix
<1>5. /\ DOMAIN d = 1 .. n /\ 1 \in 1 .. n
      /\ \A k \in 1 .. n : d[k] \in Lanes /\ d[k] \div 16 = vd.mtx /\ d[k] \in MatrixLanes(vd, n)
      /\ \A k, m \in 1 .. n : d[k] = d[m] => k = m
  BY LanesOf
<1>6. ASSUME op = "vmidt", NEW k \in 1 .. n PROVE val[d[k]] = IF k = 1 THEN One ELSE 0
  <2>1. (\E j \in 0 .. n - 1 : d[k] = MregIdx(vd, n, j, j)) <=> k = 1
    BY OnDiagonal
  <2> QED  BY <1>5, <1>6, <2>1
<1> HIDE DEF d
<1>7. \A k \in 1 .. n : vr'[d[k]] = val[d[k]]
  BY <1>3, <1>5
<1>8. op = "matrix" => \E x \in {0, One} : \A k \in 1 .. n : vr'[d[k]] = x
  BY <1>5, <1>7
<1>9. ASSUME NEW l \in Lanes, vr'[l] # did'.v[l] PROVE l \div 16 = did'.d[1] \div 16
  <2>1. l \in MatrixLanes(vd, n)
    BY <1>2, <1>3, <1>9
  <2>2. l \div 16 = vd.mtx
    BY <2>1, OneMatrix
  <2> QED  BY <1>2, <1>5, <2>2
<1>10. MatrixHasItsVectors'
  BY <1>2, <1>5, <1>6, <1>7, <1>8, <1>9 DEF MatrixHasItsVectors
<1>11. PrefixUsedOnce'
  BY <1>1, <1>2 DEF PrefixUsedOnce
<1> QED  BY <1>3, <1>4, <1>10, <1>11 DEF VfpuInv

LEMMA MatrixInv == VfpuInv /\ Matrix => VfpuInv'
<1> SUFFICES ASSUME VfpuInv, Matrix PROVE VfpuInv'
  OBVIOUS
<1>1. PICK n \in LaneCounts, vd \in Registers :
        LET to == MatrixLanes(vd, n)
            diagonal == {MregIdx(vd, n, j, j) : j \in 0 .. n - 1}
        IN  \/ \E x \in {0, One} : MatrixDone("matrix", n, vd, [l \in to |-> x])
            \/ MatrixDone("vmidt", n, vd, [l \in to |-> IF l \in diagonal THEN One ELSE 0])
            \/ \E x \in [to -> LaneResults] : MatrixDone("vmmul", n, vd, x)
  BY DEF Matrix
<1>2. {"matrix", "vmidt", "vmmul"} = MatrixOps
  BY DEF MatrixOps
<1> DEFINE to == MatrixLanes(vd, n)
           diagonal == {MregIdx(vd, n, j, j) : j \in 0 .. n - 1}
           unit == [l \in to |-> IF l \in diagonal THEN One ELSE 0]
<1>3. ASSUME NEW x \in {0, One}, MatrixDone("matrix", n, vd, [l \in to |-> x]) PROVE VfpuInv'
  <2> DEFINE val == [l \in to |-> x]
  <2>1. \A l \in MatrixLanes(vd, n) : val[l] = x
    OBVIOUS
  <2> HIDE DEF val
  <2> QED  BY <1>2, <1>3, <2>1, MatrixDoneInv DEF val
<1>4. ASSUME MatrixDone("vmidt", n, vd, unit) PROVE VfpuInv'
  <2>1. \A l \in MatrixLanes(vd, n) :
           unit[l] = IF \E j \in 0 .. n - 1 : l = MregIdx(vd, n, j, j) THEN One ELSE 0
    OBVIOUS
  <2> HIDE DEF unit
  <2> QED  BY <1>2, <1>4, <2>1, MatrixDoneInv
<1>5. ASSUME NEW x, MatrixDone("vmmul", n, vd, x) PROVE VfpuInv'
  BY <1>2, <1>5, MatrixDoneInv
<1> QED  BY <1>1, <1>3, <1>4, <1>5

LEMMA TransformInv == VfpuInv /\ Transform => VfpuInv'
<1> SUFFICES ASSUME VfpuInv, Transform PROVE VfpuInv'
  OBVIOUS
<1>1. PICK n \in LaneCounts, vd \in Registers : \E x \in [1 .. n -> LaneResults] :
        /\ Runs("vtfm", VregIdx(vd, n), <<>>)
        /\ Executed([l \in Lanes |-> IF \E k \in 1 .. n : VregIdx(vd, n)[k] = l
                                     THEN x[CHOOSE k \in 1 .. n : VregIdx(vd, n)[k] = l] ELSE vr[l]],
                    Eaten)
  BY DEF Transform
<1> DEFINE d == VregIdx(vd, n)
<1>2. /\ did' = [op |-> "vtfm", d |-> d, s |-> <<>>, bare |-> ~ prefixed, v |-> vr]
      /\ DOMAIN d = 1 .. n
  BY <1>1, LanesOf DEF Runs
<1>3. \A l \in Lanes : vr'[l] # vr[l] => \E k \in 1 .. n : d[k] = l
  BY <1>1 DEF Executed
<1>4. /\ prefixed' = FALSE
      /\ ctrl'.s = Identity /\ ctrl'.t = Identity /\ ctrl'.d = NoD
  BY <1>1 DEF Executed, Eaten, NoPrefix
<1> HIDE DEF d
<1> QED
  BY <1>2, <1>3, <1>4 DEF VfpuInv, PrefixUsedOnce, MatrixHasItsVectors, MatrixOps

(* Every instruction keeps it.                                             *)
LEMMA VfpuStep == VfpuInv /\ [VfpuNext]_vfpuVars => VfpuInv'
<1> SUFFICES ASSUME VfpuInv, [VfpuNext]_vfpuVars PROVE VfpuInv'
  OBVIOUS
<1>1. CASE Prefix
  <2>1. PICK c : SetsPrefix(c)
    BY <1>1 DEF Prefix
  <2> QED  BY <2>1 DEF SetsPrefix, Runs, VfpuInv, PrefixUsedOnce, MatrixHasItsVectors, MatrixOps
<1>2. CASE OneSource
  BY <1>2, OneSourceInv
<1>3. CASE TwoSources \/ Arithmetic \/ SetsNumbers \/ ConditionalMove
  BY <1>3, OthersInv
<1>4. CASE Compare
  <2>1. PICK cc, d, s : Runs("vcmp", <<>>, s) /\ Executed(vr, CompareDone(cc))
    BY <1>4 DEF Compare
  <2> QED
    BY <2>1 DEF Runs, Executed, CompareDone, NoPrefix, VfpuInv, PrefixUsedOnce, MatrixHasItsVectors, MatrixOps
<1>5. CASE Matrix
  BY <1>5, MatrixInv
<1>9. CASE Transform
  BY <1>9, TransformInv
<1>6. CASE NotHandled
  BY <1>6 DEF NotHandled, Runs, VfpuInv, PrefixUsedOnce, MatrixHasItsVectors, MatrixOps
<1>7. CASE StartAgain
  BY <1>7 DEF StartAgain, VfpuInv, PrefixUsedOnce, MatrixHasItsVectors, MatrixOps, NoPrefix
<1>8. CASE UNCHANGED vfpuVars
  BY <1>8 DEF vfpuVars, VfpuInv, PrefixUsedOnce, MatrixHasItsVectors, MatrixOps
<1> QED
  BY <1>1, <1>2, <1>3, <1>4, <1>5, <1>6, <1>7, <1>8, <1>9 DEF VfpuNext

-----------------------------------------------------------------------------
(* No instruction feels a prefix set for one before it, none changes a     *)
(* lane outside its destination, and a matrix instruction works on the     *)
(* vectors its registers name (vfpu_interp.c 20-47, recomp.c 268-310).     *)
THEOREM LanesAreNamed == VfpuSpec => [](PrefixUsedOnce /\ MatrixHasItsVectors)
<1>1. VfpuInv => PrefixUsedOnce /\ MatrixHasItsVectors
  BY DEF VfpuInv
<1> QED
  BY VfpuInitInv, VfpuStep, <1>1, PTL DEF VfpuSpec

-----------------------------------------------------------------------------
(* The arithmetic of the instructions, for registers of any width.         *)

LEMMA DivModInt ==
    ASSUME NEW n \in Nat \ {0}, NEW a \in Int
    PROVE  /\ a = n * (a \div n) + (a % n)
           /\ a \div n \in Int /\ a % n \in 0 .. n - 1
BY SMT

LEMMA DivModIs ==
    ASSUME NEW n \in Nat \ {0}, NEW q \in Int, NEW r \in 0 .. n - 1, NEW a \in Int, a = n * q + r
    PROVE  a \div n = q /\ (a % n) = r
<1>1. PICK k \in Int : k = a \div n
  BY DivModInt
<1>2. PICK x \in 0 .. n - 1 : x = (a % n)
  BY DivModInt
<1>3. n * k + x = n * q + r
  BY <1>1, <1>2, DivModInt
<1>4. k = q
  <2>1. n * k < n * (q + 1) /\ n * q < n * (k + 1)
    BY <1>3
  <2>2. k < q + 1
    BY <2>1
  <2>3. q < k + 1
    BY <2>1
  <2> QED  BY <2>2, <2>3
<1>5. x = r
  BY <1>3, <1>4
<1> QED  BY <1>1, <1>2, <1>4, <1>5

LEMMA MultipleIs ==
    ASSUME NEW n \in Nat \ {0}, NEW q \in Int, NEW a \in Int, a = n * q
    PROVE  (a % n) = 0
<1>1. 0 \in 0 .. n - 1 /\ a = n * q + 0
  OBVIOUS
<1> QED  BY <1>1, DivModIs

(* The powers of two up to the width.                                      *)
IsPowers(f, n) == f = [i \in 0 .. n |-> IF i = 0 THEN 1 ELSE 2 * f[i - 1]]

LEMMA PowersExist == ASSUME NEW wide \in Nat PROVE \E f : IsPowers(f, wide)
<1> DEFINE Bad == {n \in Nat : ~ \E f : IsPowers(f, n)}
<1>1. SUFFICES ASSUME Bad # {} PROVE FALSE
  OBVIOUS
<1>2. PICK n \in Bad : \A m \in Bad : n <= m
  <2>1. Bad \subseteq Nat
    OBVIOUS
  <2> HIDE DEF Bad
  <2> QED  BY <1>1, <2>1, HasLeast
<1>3. CASE n = 0
  <2> DEFINE f == [i \in 0 .. 0 |-> 1]
  <2>1. IsPowers(f, 0)
    BY DEF IsPowers
  <2> QED  BY <1>2, <1>3, <2>1
<1>4. CASE n # 0
  <2>1. n - 1 \in Nat /\ ~ n <= n - 1
    BY <1>4
  <2>2. PICK g : IsPowers(g, n - 1)
    BY <1>2, <2>1
  <2> DEFINE f == [i \in 0 .. n |-> IF i < n THEN g[i] ELSE 2 * g[n - 1]]
  <2>3. ASSUME NEW i \in 0 .. n
        PROVE  f[i] = IF i = 0 THEN 1 ELSE 2 * f[i - 1]
    <3>1. CASE i < n
      <4>1. i \in 0 .. n - 1
        BY <3>1
      <4>2. g[i] = IF i = 0 THEN 1 ELSE 2 * g[i - 1]
        BY <2>2, <4>1 DEF IsPowers
      <4>3. f[i] = g[i] /\ (i # 0 => f[i - 1] = g[i - 1])
        BY <3>1
      <4> QED  BY <4>2, <4>3
    <3>2. CASE i = n
      <4>1. n - 1 \in 0 .. n /\ n - 1 < n /\ ~ i < n
        BY <1>4, <3>2
      <4>2. f[i] = 2 * g[n - 1] /\ f[n - 1] = g[n - 1]
        BY <4>1
      <4> QED  BY <1>4, <3>2, <4>2
    <3> QED  BY <3>1, <3>2
  <2>4. IsPowers(f, n)
    <3>1. f = [i \in 0 .. n |-> f[i]]
      OBVIOUS
    <3> HIDE DEF f
    <3> QED  BY <2>3, <3>1 DEF IsPowers
  <2> QED  BY <1>2, <2>4
<1> QED  BY <1>3, <1>4

LEMMA PowerIs == /\ Pow2[0] = 1
                 /\ \A i \in 1 .. WIDTH : Pow2[i] = 2 * Pow2[i - 1]
<1>1. WIDTH \in Nat
  BY AllegrexAssumption
<1>2. IsPowers(Pow2, WIDTH)
  <2>1. PICK f : IsPowers(f, WIDTH)
    BY <1>1, PowersExist
  <2> QED  BY <2>1 DEF Pow2, IsPowers
<1>3. \A i \in 0 .. WIDTH : Pow2[i] = IF i = 0 THEN 1 ELSE 2 * Pow2[i - 1]
  BY <1>2 DEF IsPowers
<1>4. 0 \in 0 .. WIDTH /\ \A i \in 1 .. WIDTH : i \in 0 .. WIDTH /\ i # 0
  BY <1>1
<1> QED  BY <1>3, <1>4

LEMMA PowerIsNat == \A i \in 0 .. WIDTH : Pow2[i] \in Nat \ {0}
<1> DEFINE Bad == {i \in 0 .. WIDTH : Pow2[i] \notin Nat \ {0}}
<1>1. SUFFICES ASSUME Bad # {} PROVE FALSE
  OBVIOUS
<1>2. PICK n \in Bad : \A m \in Bad : n <= m
  <2>1. Bad \subseteq Nat
    OBVIOUS
  <2> HIDE DEF Bad
  <2> QED  BY <1>1, <2>1, HasLeast
<1>3. n # 0
  BY <1>2, PowerIs
<1>4. n \in 1 .. WIDTH /\ n - 1 \in 0 .. WIDTH /\ ~ n <= n - 1
  BY <1>3, AllegrexAssumption
<1>5. Pow2[n - 1] \in Nat \ {0} /\ Pow2[n] = 2 * Pow2[n - 1]
  BY <1>2, <1>4, PowerIs
<1> QED  BY <1>2, <1>5

LEMMA PowerSum ==
    ASSUME NEW i \in 0 .. WIDTH, NEW k \in 0 .. WIDTH - i
    PROVE  Pow2[i + k] = Pow2[i] * Pow2[k]
<1> DEFINE Bad == {n \in 0 .. WIDTH - i : Pow2[i + n] # Pow2[i] * Pow2[n]}
<1>1. SUFFICES ASSUME Bad # {} PROVE FALSE
  OBVIOUS
<1>w. WIDTH \in Nat
  BY AllegrexAssumption
<1>2. PICK n \in Bad : \A m \in Bad : n <= m
  <2>1. Bad \subseteq Nat
    OBVIOUS
  <2> HIDE DEF Bad
  <2> QED  BY <1>1, <2>1, HasLeast
<1>3. PICK p \in Nat \ {0} : p = Pow2[i]
  BY PowerIsNat
<1>4. n # 0
  <2>1. ASSUME n = 0 PROVE FALSE
    <3>1. Pow2[n] = 1 /\ i + n = i
      BY <2>1, PowerIs
    <3> QED  BY <1>2, <1>3, <3>1
  <2> QED  BY <2>1
<1>5. /\ n - 1 \in 0 .. WIDTH - i /\ n - 1 \in 0 .. WIDTH /\ ~ n <= n - 1 /\ n \in 1 .. WIDTH
      /\ i + n \in 1 .. WIDTH /\ (i + n) - 1 = i + (n - 1)
  BY <1>w, <1>4
<1>6. Pow2[i + (n - 1)] = p * Pow2[n - 1]
  BY <1>2, <1>3, <1>5
<1>7. Pow2[n] = 2 * Pow2[n - 1] /\ Pow2[i + n] = 2 * Pow2[i + (n - 1)]
  BY <1>5, PowerIs
<1>8. PICK q \in Nat : q = Pow2[n - 1]
  BY <1>5, PowerIsNat
<1>9. Pow2[n] = 2 * q /\ Pow2[i + n] = 2 * (p * q)
  BY <1>6, <1>7, <1>8
<1>10. 2 * (p * q) = p * (2 * q)
  BY <1>3, <1>8
<1> QED  BY <1>2, <1>3, <1>9, <1>10

(* A word and its sign.  Half the span is what the sign bit counts.        *)
LEMMA SpanIs ==
    /\ Span \in Nat \ {0} /\ Least \in Nat /\ Least >= 8 /\ Span = 2 * Least
    /\ Least = Pow2[WIDTH - 1] /\ Words32 = 0 .. Span - 1
<1>1. WIDTH \in Nat /\ WIDTH >= 4
  BY AllegrexAssumption
<1>2. Pow2[1] = 2 /\ Pow2[2] = 4 /\ Pow2[3] = 8
  <2>1. 1 \in 1 .. WIDTH /\ 2 \in 1 .. WIDTH /\ 3 \in 1 .. WIDTH
    BY <1>1
  <2> QED  BY <2>1, PowerIs
<1>3. 3 \in 0 .. WIDTH /\ WIDTH - 4 \in 0 .. WIDTH - 3 /\ 3 + (WIDTH - 4) = WIDTH - 1
  BY <1>1
<1>4. Pow2[WIDTH - 1] = 8 * Pow2[WIDTH - 4]
  BY <1>2, <1>3, PowerSum
<1>5. PICK p \in Nat \ {0} : p = Pow2[WIDTH - 4]
  <2>1. WIDTH - 4 \in 0 .. WIDTH
    BY <1>1
  <2> QED  BY <2>1, PowerIsNat
<1>6. Span = 2 * (8 * p)
  <2>1. WIDTH \in 1 .. WIDTH
    BY <1>1
  <2> QED  BY <1>4, <1>5, <2>1, PowerIs DEF Span
<1>7. Least = 8 * p
  BY <1>5, <1>6 DEF Least
<1> QED  BY <1>4, <1>5, <1>6, <1>7 DEF Words32

LEMMA HalfIs == \E h \in Nat : h >= 8 /\ Least = h /\ Span = 2 * h /\ Words32 = 0 .. 2 * h - 1
BY SpanIs

LEMMA SignedIs ==
    ASSUME NEW v \in Words32
    PROVE  /\ Signed(v) \in -Least .. Least - 1
           /\ Signed(v) = v \/ Signed(v) = v - Span
           /\ 2 * v # Span => Signed(v) # -Least
           /\ Signed(v) = -1 => v = Span - 1
<1>1. PICK h \in Nat : h >= 8 /\ Least = h /\ Span = 2 * h /\ Words32 = 0 .. 2 * h - 1
  BY HalfIs
<1>2. PICK w \in 0 .. 2 * h - 1 : w = v
  BY <1>1
<1>3. Signed(v) = IF w < h THEN w ELSE w - 2 * h
  BY <1>1, <1>2 DEF Signed
<1> QED  BY <1>1, <1>2, <1>3

LEMMA WordIs ==
    ASSUME NEW n \in Int
    PROVE  /\ Word(n) \in Words32
           /\ n \in -Least .. Least - 1 => Signed(Word(n)) = n
           /\ n \in Words32 => Word(n) = n
           /\ n \in -Span .. -1 => Word(n) = n + Span
<1>1. PICK h \in Nat : h >= 8 /\ Least = h /\ Span = 2 * h /\ Words32 = 0 .. 2 * h - 1
  BY HalfIs
<1>2. PICK s \in Nat \ {0} : s = 2 * h
  BY <1>1
<1>3. PICK w \in 0 .. s - 1 : w = (n % s)
  BY DivModInt
<1>4. Word(n) = w
  BY <1>1, <1>2, <1>3 DEF Word
<1>5. ASSUME n \in 0 .. s - 1 PROVE w = n
  <2>1. n = s * 0 + n
    BY <1>5
  <2> QED  BY <1>3, <1>5, <2>1, DivModIs
<1>6. ASSUME n \in -s .. -1 PROVE w = n + s
  <2>1. PICK r \in 0 .. s - 1 : r = n + s
    BY <1>6
  <2>2. PICK m \in Int : m = -1
    OBVIOUS
  <2>3. n = s * m + r
    BY <2>1, <2>2
  <2>4. (n % s) = r
    BY <2>3, DivModIs
  <2> QED  BY <1>3, <2>1, <2>4
<1>7. ASSUME n \in -h .. h - 1 PROVE Signed(w) = n
  <2>1. Signed(w) = IF w < h THEN w ELSE w - s
    BY <1>1, <1>2 DEF Signed
  <2> QED  BY <1>1, <1>2, <1>5, <1>6, <1>7, <2>1
<1>8. w \in Words32
  BY <1>1, <1>2
<1> QED  BY <1>1, <1>2, <1>4, <1>5, <1>6, <1>7, <1>8

(* HI:LO holds an accumulator up to what does not fit the two registers.   *)
LEMMA HiLoIs ==
    ASSUME NEW acc \in Int
    PROVE  /\ HiLo(acc).hi \in Words32 /\ HiLo(acc).lo \in Words32
           /\ \E k \in Int : HiLo(acc).hi * Span + HiLo(acc).lo - acc = (Span * Span) * k
<1>1. PICK s \in Nat \ {0} : s = Span /\ Words32 = 0 .. s - 1
  BY SpanIs
<1>2. PICK q \in Int : q = acc \div s
  BY DivModInt
<1>3. PICK lo \in 0 .. s - 1 : lo = (acc % s)
  BY DivModInt
<1>4. PICK p \in Int : p = q \div s
  BY DivModInt
<1>5. PICK hi \in 0 .. s - 1 : hi = (q % s)
  BY DivModInt
<1>6. acc = s * q + lo /\ q = s * p + hi
  BY <1>2, <1>3, <1>4, <1>5, DivModInt
<1>7. HiLo(acc).hi = hi /\ HiLo(acc).lo = lo
  BY <1>1, <1>2, <1>3, <1>5 DEF HiLo, Word
<1>8. hi * s + lo - acc = (s * s) * (-p)
  <2>1. s * q = s * (s * p) + s * hi
    BY <1>6
  <2>2. s * (s * p) = (s * s) * p
    OBVIOUS
  <2>3. PICK x \in Int : x = (s * s) * p
    OBVIOUS
  <2>4. (s * s) * (-p) = -x
    BY <2>3
  <2>5. PICK y \in Int : y = s * hi
    OBVIOUS
  <2>6. hi * s = y
    BY <2>5
  <2> QED  BY <1>6, <2>1, <2>2, <2>3, <2>4, <2>5, <2>6
<1>9. -p \in Int
  OBVIOUS
<1> QED  BY <1>1, <1>7, <1>8, <1>9

-----------------------------------------------------------------------------
(* Multiplications.                                                        *)
LEMMA MultiplyGives ==
    ASSUME Multiply
    PROVE  \E rs, arg \in Words32, hi, lo \in Accs, op \in {"mult", "multu", "madd", "maddu", "msub", "msubu"} : \E e :
              /\ e.op = op /\ e.rs = rs /\ e.rt = arg /\ e.hi = hi /\ e.lo = lo
              /\ ex'.op = op /\ ex'.rs = rs /\ ex'.rt = arg /\ ex'.hi = hi /\ ex'.lo = lo
              /\ ex'.newHi = Multiplied(e).hi /\ ex'.newLo = Multiplied(e).lo
<1>1. PICK rs \in Words32, arg \in Words32, hi \in Accs, lo \in Accs,
           op \in {"mult", "multu", "madd", "maddu", "msub", "msubu"} :
        \E e \in {[Instruction(op) EXCEPT !.rs = rs, !.rt = arg, !.hi = hi, !.lo = lo]} :
            GivesHiLo(e, Multiplied(e))
  BY DEF Multiply
<1>2. PICK e : /\ e = [Instruction(op) EXCEPT !.rs = rs, !.rt = arg, !.hi = hi, !.lo = lo]
               /\ GivesHiLo(e, Multiplied(e))
  BY <1>1
<1>3. e = [op |-> op, rs |-> rs, rt |-> arg, sa |-> 0, size |-> 1, hi |-> hi, lo |-> lo,
           x |-> 0, out |-> 0, newHi |-> 0, newLo |-> 0]
  BY <1>2 DEF Instruction
<1>4. e.op = op /\ e.rs = rs /\ e.rt = arg /\ e.hi = hi /\ e.lo = lo
  BY <1>3
<1>5. PICK newHi, newLo : newHi = Multiplied(e).hi /\ newLo = Multiplied(e).lo
  OBVIOUS
<1>6. ex' = [e EXCEPT !.newHi = newHi, !.newLo = newLo]
  BY <1>2, <1>5 DEF GivesHiLo
<1>7. ex' = [op |-> op, rs |-> rs, rt |-> arg, sa |-> 0, size |-> 1, hi |-> hi, lo |-> lo,
             x |-> 0, out |-> 0, newHi |-> newHi, newLo |-> newLo]
  BY <1>3, <1>6
<1> QED  BY <1>4, <1>5, <1>7

LEMMA MultiplyExact == Multiply => ArithmeticExact'
<1> SUFFICES ASSUME Multiply PROVE ArithmeticExact'
  OBVIOUS
<1>0. PICK rs \in Words32, arg \in Words32, hi \in Accs, lo \in Accs,
           op \in {"mult", "multu", "madd", "maddu", "msub", "msubu"} : \E e :
        /\ e.op = op /\ e.rs = rs /\ e.rt = arg /\ e.hi = hi /\ e.lo = lo
        /\ ex'.op = op /\ ex'.rs = rs /\ ex'.rt = arg /\ ex'.hi = hi /\ ex'.lo = lo
        /\ ex'.newHi = Multiplied(e).hi /\ ex'.newLo = Multiplied(e).lo
  BY MultiplyGives
<1>1. PICK e :
        /\ rs \in Words32
        /\ arg \in Words32
        /\ hi \in Accs
        /\ lo \in Accs
        /\ op \in {"mult", "multu", "madd", "maddu", "msub", "msubu"}
        /\ e.op = op /\ e.rs = rs /\ e.rt = arg /\ e.hi = hi /\ e.lo = lo
        /\ ex'.op = op /\ ex'.rs = rs /\ ex'.rt = arg /\ ex'.hi = hi /\ ex'.lo = lo
        /\ ex'.newHi = Multiplied(e).hi /\ ex'.newLo = Multiplied(e).lo
  BY <1>0
<1>2. PICK s \in Nat \ {0} : s = Span
  BY SpanIs
<1>3. hi \in Int /\ lo \in Int /\ rs \in Int /\ arg \in Int
  BY SpanIs, AllegrexAssumption
<1>4. PICK product \in Int :
        product = IF op \in {"mult", "madd", "msub"} THEN Signed(rs) * Signed(arg) ELSE rs * arg
  <2>1. Signed(rs) \in Int /\ Signed(arg) \in Int
    BY SignedIs, SpanIs
  <2> QED  BY <1>3, <2>1
<1>5. PICK before \in Int : before = hi * s + lo
  BY <1>3
<1>6. PICK more \in {0, 1} : AccS(e) = before - (s * s) * more
  <2>1. PICK h \in Int : h = hi
    BY <1>3
  <2>2. Signed(hi) = h \/ Signed(hi) = h - s
    BY <1>2, <2>1 DEF Signed
  <2>3. (h - s) * s + lo = h * s + lo - s * s
    BY <1>3
  <2> QED  BY <1>1, <1>2, <1>3, <1>5, <2>1, <2>2, <2>3 DEF AccS
<1>7. AccU(e) = before
  BY <1>1, <1>2, <1>5 DEF AccU
<1> DEFINE acc == IF op \in {"mult", "multu"} THEN product
                  ELSE IF op = "madd" THEN AccS(e) + product
                  ELSE IF op = "maddu" THEN AccU(e) + product
                  ELSE IF op = "msub" THEN AccS(e) - product ELSE AccU(e) - product
           exact == IF op \in {"mult", "multu"} THEN product
                    ELSE IF op \in {"madd", "maddu"} THEN before + product ELSE before - product
<1>8. Multiplied(e) = HiLo(acc)
  BY <1>1, <1>4 DEF Multiplied
<1>9. PICK d \in {0, 1} : acc = exact - (s * s) * d /\ acc \in Int
  BY <1>6, <1>7
<1> HIDE DEF acc, exact
<1>9a. PICK p \in 0 .. s - 1, q \in 0 .. s - 1 : p = HiLo(acc).hi /\ q = HiLo(acc).lo
  <2>1. HiLo(acc).hi \in Words32 /\ HiLo(acc).lo \in Words32 /\ Words32 = 0 .. s - 1
    BY <1>2, <1>9, HiLoIs, SpanIs
  <2> QED  BY <2>1
<1>10. PICK k \in Int : p * s + q - acc = (s * s) * k
  BY <1>2, <1>9, <1>9a, HiLoIs
<1>11. PICK after \in Int : after = p * s + q
  OBVIOUS
<1>12. exact \in Int
  BY DEF exact
<1>13. ((after - exact) % (s * s)) = 0
  <2>1. PICK n \in Nat \ {0} : n = s * s
    OBVIOUS
  <2>2. after - exact = n * k - n * d
    <3>1. PICK a \in Int, x \in Int : a = acc /\ x = exact
      BY <1>9, <1>12
    <3>2. a = x - n * d
      BY <1>9, <2>1, <3>1
    <3>3. after - a = n * k
      BY <1>10, <1>11, <2>1, <3>1
    <3> QED  BY <3>1, <3>2, <3>3
  <2>3. PICK j \in Int : j = k - d
    OBVIOUS
  <2>4. after - exact = n * j
    BY <2>2, <2>3
  <2>5. after - exact \in Int
    BY <1>12
  <2>6. ((after - exact) % n) = 0
    BY <2>4, <2>5, MultipleIs
  <2> QED  BY <2>1, <2>6
<1>14. after = ex'.newHi * Span + ex'.newLo
  BY <1>1, <1>2, <1>8, <1>11, <1>9a
<1>15. before = ex'.hi * Span + ex'.lo
  BY <1>1, <1>2, <1>5
<1>16. product = IF ex'.op \in {"mult", "madd", "msub"} THEN Signed(ex'.rs) * Signed(ex'.rt) ELSE ex'.rs * ex'.rt
  BY <1>1, <1>4
<1>17. ProductExact'
  <2>1. CASE op \in {"mult", "multu"}
    <3>1. ((after - product) % (Span * Span)) = 0
      BY <1>2, <1>13, <2>1 DEF exact
    <3> QED  BY <1>1, <1>14, <1>16, <2>1, <3>1 DEF ProductExact
  <2>2. CASE op \in {"madd", "maddu"}
    <3>1. after - before - product = after - exact
      BY <2>2 DEF exact
    <3>2. ((after - before - product) % (Span * Span)) = 0
      BY <1>2, <1>13, <3>1
    <3> QED  BY <1>1, <1>14, <1>15, <1>16, <2>2, <3>2 DEF ProductExact
  <2>3. CASE op \in {"msub", "msubu"}
    <3>1. after - before + product = after - exact
      BY <2>3 DEF exact
    <3>2. ((after - before + product) % (Span * Span)) = 0
      BY <1>2, <1>13, <3>1
    <3> QED  BY <1>1, <1>14, <1>15, <1>16, <2>3, <3>2 DEF ProductExact
  <2> QED  BY <2>1, <2>2, <2>3
<1> QED
  BY <1>1, <1>17 DEF ArithmeticExact, DivisionExact, BitsInPlace, ConversionRounds

-----------------------------------------------------------------------------
(* Divisions.  C's quotient and remainder, from those of the magnitudes.   *)
LEMMA QuotIs ==
    ASSUME NEW a \in Int, NEW b \in Int \ {0}
    PROVE  \E q, r \in Int :
              /\ Quot(a, b) = q /\ Rem(a, b) = r /\ a = q * b + r
              /\ Magnitude(r) < Magnitude(b) /\ r * a >= 0
              /\ Magnitude(q) <= Magnitude(a)
              /\ Magnitude(q) = Magnitude(a) => a = 0 \/ b = 1 \/ b = -1
              /\ b = 1 => q = a
<1>1. PICK A \in Nat : A = Magnitude(a)
  BY DEF Magnitude
<1>2. PICK B \in Nat \ {0} : B = Magnitude(b)
  BY DEF Magnitude
<1>3. PICK k \in Int : k = A \div B
  BY DivModInt
<1>4. PICK m \in 0 .. B - 1 : m = (A % B)
  BY DivModInt
<1>5. A = B * k + m
  BY <1>3, <1>4, DivModInt
<1>6. k >= 0
  <2>1. ASSUME k < 0 PROVE FALSE
    <3>1. B * k <= B * (-1)
      BY <2>1
    <3> QED  BY <1>4, <1>5, <3>1
  <2> QED  BY <2>1
<1>7. k <= A /\ (k = A => A = 0 \/ B = 1)
  <2>1. k <= B * k
    BY <1>6
  <2>2. B >= 2 => 2 * k <= B * k
    BY <1>6
  <2> QED  BY <1>4, <1>5, <1>6, <2>1, <2>2
<1>8. CASE a >= 0 /\ b > 0
  <2>1. A = a /\ B = b /\ Quot(a, b) = k
    BY <1>1, <1>2, <1>3, <1>8 DEF Magnitude, Quot
  <2>2. Rem(a, b) = m /\ a = k * b + m
    BY <1>5, <2>1 DEF Rem
  <2>3. m * a >= 0
    BY <1>8
  <2>4. b = 1 => m = 0 /\ k = a
    BY <2>1, <2>2
  <2> QED  BY <1>6, <1>7, <1>8, <2>1, <2>2, <2>3, <2>4 DEF Magnitude
<1>9. CASE a >= 0 /\ b < 0
  <2>1. A = a /\ B = -b /\ Quot(a, b) = -k
    BY <1>1, <1>2, <1>3, <1>9 DEF Magnitude, Quot
  <2>2. b * (-k) = B * k /\ (-k) * b = B * k
    BY <2>1
  <2>3. Rem(a, b) = m /\ a = (-k) * b + m
    BY <1>5, <2>1, <2>2 DEF Rem
  <2>4. m * a >= 0
    BY <1>9
  <2> QED  BY <1>6, <1>7, <1>9, <2>1, <2>3, <2>4 DEF Magnitude
<1>10. CASE a < 0 /\ b > 0
  <2>1. A = -a /\ B = b /\ Quot(a, b) = -k
    BY <1>1, <1>2, <1>3, <1>10 DEF Magnitude, Quot
  <2>2. b * (-k) = -(B * k) /\ (-k) * b = -(B * k)
    BY <2>1
  <2>3. Rem(a, b) = -m /\ a = (-k) * b + (-m)
    BY <1>5, <2>1, <2>2 DEF Rem
  <2>4. (-m) * a >= 0
    BY <1>10
  <2>5. b = 1 => m = 0 /\ -k = a
    BY <1>5, <2>1
  <2> QED  BY <1>6, <1>7, <1>10, <2>1, <2>3, <2>4, <2>5 DEF Magnitude
<1>11. CASE a < 0 /\ b < 0
  <2>1. A = -a /\ B = -b /\ Quot(a, b) = k
    BY <1>1, <1>2, <1>3, <1>11 DEF Magnitude, Quot
  <2>2. b * k = -(B * k) /\ k * b = -(B * k)
    BY <2>1
  <2>3. Rem(a, b) = -m /\ a = k * b + (-m)
    BY <1>5, <2>1, <2>2 DEF Rem
  <2>4. (-m) * a >= 0
    BY <1>11
  <2> QED  BY <1>6, <1>7, <1>11, <2>1, <2>3, <2>4 DEF Magnitude
<1> QED  BY <1>8, <1>9, <1>10, <1>11

LEMMA DivideGives ==
    ASSUME Divide
    PROVE  \E rs, arg \in Words32, op \in {"div", "divu"} : \E e :
              /\ e.rs = rs /\ e.rt = arg
              /\ ex'.op = op /\ ex'.rs = rs /\ ex'.rt = arg
              /\ ex'.newHi = (IF op = "div" THEN Divided(e) ELSE DividedU(e)).hi
              /\ ex'.newLo = (IF op = "div" THEN Divided(e) ELSE DividedU(e)).lo
<1>1. PICK rs \in Words32, arg \in Words32, op \in {"div", "divu"} :
        \E e \in {[Instruction(op) EXCEPT !.rs = rs, !.rt = arg]} :
            GivesHiLo(e, IF op = "div" THEN Divided(e) ELSE DividedU(e))
  BY DEF Divide
<1>2. PICK e : /\ e = [Instruction(op) EXCEPT !.rs = rs, !.rt = arg]
               /\ GivesHiLo(e, IF op = "div" THEN Divided(e) ELSE DividedU(e))
  BY <1>1
<1>3. e = [op |-> op, rs |-> rs, rt |-> arg, sa |-> 0, size |-> 1, hi |-> 0, lo |-> 0,
           x |-> 0, out |-> 0, newHi |-> 0, newLo |-> 0]
  BY <1>2 DEF Instruction
<1>4. e.rs = rs /\ e.rt = arg
  BY <1>3
<1>5. PICK r : r = IF op = "div" THEN Divided(e) ELSE DividedU(e)
  OBVIOUS
<1>6. ex' = [e EXCEPT !.newHi = r.hi, !.newLo = r.lo]
  BY <1>2, <1>5 DEF GivesHiLo
<1>7. PICK newHi, newLo : newHi = r.hi /\ newLo = r.lo
  OBVIOUS
<1>8. ex' = [op |-> op, rs |-> rs, rt |-> arg, sa |-> 0, size |-> 1, hi |-> 0, lo |-> 0,
             x |-> 0, out |-> 0, newHi |-> newHi, newLo |-> newLo]
  BY <1>3, <1>6, <1>7
<1> QED  BY <1>4, <1>5, <1>7, <1>8

LEMMA DivideExact == Divide => ArithmeticExact'
<1> SUFFICES ASSUME Divide PROVE ArithmeticExact'
  OBVIOUS
<1>0. PICK rs \in Words32, arg \in Words32, op \in {"div", "divu"} : \E e :
        /\ e.rs = rs /\ e.rt = arg
        /\ ex'.op = op /\ ex'.rs = rs /\ ex'.rt = arg
        /\ ex'.newHi = (IF op = "div" THEN Divided(e) ELSE DividedU(e)).hi
        /\ ex'.newLo = (IF op = "div" THEN Divided(e) ELSE DividedU(e)).lo
  BY DivideGives
<1>1. PICK e :
        /\ rs \in Words32
        /\ arg \in Words32
        /\ op \in {"div", "divu"}
        /\ e.rs = rs /\ e.rt = arg
        /\ ex'.op = op /\ ex'.rs = rs /\ ex'.rt = arg
        /\ ex'.newHi = (IF op = "div" THEN Divided(e) ELSE DividedU(e)).hi
        /\ ex'.newLo = (IF op = "div" THEN Divided(e) ELSE DividedU(e)).lo
  BY <1>0
<1>2. PICK h \in Nat : h >= 8 /\ Least = h /\ Span = 2 * h /\ Words32 = 0 .. 2 * h - 1
  BY HalfIs
<1>3. PICK a \in -h .. h - 1 : a = Signed(rs)
  BY <1>2, SignedIs
<1>4. PICK b \in -h .. h - 1 : b = Signed(arg)
  BY <1>2, SignedIs
<1>5. rs \in Nat /\ arg \in Nat
  BY <1>2
<1>6. ASSUME op = "div", ~ (2 * rs = Span /\ arg = Span - 1)
      PROVE  LET r == Signed(ex'.newHi)
             IN  /\ a = Signed(ex'.newLo) * b + r
                 /\ b # 0 => Magnitude(r) < Magnitude(b) /\ r * a >= 0
  <2>1. ~ (2 * rs = Span /\ b = -1)
    BY <1>4, <1>6, SignedIs
  <2>2. CASE b # 0
    <3>1. PICK q \in Int, r \in Int :
              /\ Quot(a, b) = q /\ Rem(a, b) = r /\ a = q * b + r
              /\ Magnitude(r) < Magnitude(b) /\ r * a >= 0
              /\ Magnitude(q) <= Magnitude(a)
              /\ Magnitude(q) = Magnitude(a) => a = 0 \/ b = 1 \/ b = -1
              /\ b = 1 => q = a
      <4>1. a \in Int /\ b \in Int \ {0}
        BY <2>2
      <4> QED  BY <4>1, QuotIs
    <3>2. ex'.newHi = Word(r) /\ ex'.newLo = Word(q)
      BY <1>1, <1>3, <1>4, <1>6, <2>1, <2>2, <3>1 DEF Divided
    <3>3. r \in -h .. h - 1
      BY <3>1 DEF Magnitude
    <3>4. b = -1 => a # -h
      BY <1>2, <1>3, <2>1, SignedIs
    <3>5. q \in -h .. h - 1
      BY <1>2, <3>1, <3>4 DEF Magnitude
    <3>6. Signed(ex'.newHi) = r /\ Signed(ex'.newLo) = q
      BY <1>2, <3>2, <3>3, <3>5, WordIs
    <3> QED  BY <3>1, <3>6
  <2>3. CASE b = 0
    <3>1. ex'.newHi = rs /\ ex'.newLo \in {1, Span - 1}
      BY <1>1, <1>3, <1>4, <1>6, <2>1, <2>3 DEF Divided
    <3>2. ex'.newLo \in Words32
      BY <1>2, <3>1
    <3>3. Signed(ex'.newLo) \in Int
      BY <1>2, <3>2, SignedIs
    <3>4. Signed(ex'.newLo) * b = 0
      BY <2>3, <3>3
    <3>5. Signed(ex'.newHi) = a
      BY <1>3, <3>1
    <3>6. a = Signed(ex'.newLo) * b + Signed(ex'.newHi)
      BY <3>4, <3>5
    <3> QED  BY <2>3, <3>6
  <2> QED  BY <2>2, <2>3
<1>7. ASSUME op = "divu"
      PROVE  /\ rs = ex'.newLo * arg + ex'.newHi
             /\ arg # 0 => ex'.newHi < arg
  <2>1. CASE arg # 0
    <3>1. ex'.newLo = rs \div arg /\ ex'.newHi = (rs % arg)
      BY <1>1, <1>7, <2>1 DEF DividedU
    <3>6. rs \in Int /\ arg \in Nat \ {0}
      BY <1>5, <2>1
    <3>2. PICK q \in Int : q = rs \div arg
      BY <3>6, DivModInt
    <3>3. PICK r \in 0 .. arg - 1 : r = (rs % arg)
      BY <3>6, DivModInt
    <3>4. rs = arg * q + r
      BY <3>2, <3>3, <3>6, DivModInt
    <3>5. rs = q * arg + r
      BY <1>5, <3>4
    <3> QED  BY <1>5, <3>1, <3>2, <3>3, <3>5
  <2>2. CASE arg = 0
    <3>1. ex'.newHi = rs /\ ex'.newLo \in {Half - 1, Span - 1}
      BY <1>1, <1>7, <2>2 DEF DividedU
    <3>2. Half \in Nat
      <4>1. WIDTH \div 2 \in 0 .. WIDTH
        BY AllegrexAssumption
      <4> QED  BY <4>1, PowerIsNat DEF Half
    <3>3. ex'.newLo \in Int
      BY <1>2, <3>1, <3>2
    <3>4. ex'.newLo * arg = 0
      BY <2>2, <3>3
    <3>5. rs = ex'.newLo * arg + ex'.newHi
      BY <1>5, <3>1, <3>4
    <3> QED  BY <2>2, <3>5
  <2> QED  BY <2>1, <2>2
<1>8. DivisionExact'
  BY <1>1, <1>3, <1>4, <1>6, <1>7 DEF DivisionExact
<1> QED
  BY <1>1, <1>8 DEF ArithmeticExact, ProductExact, BitsInPlace, ConversionRounds

-----------------------------------------------------------------------------
(* Shifts, fields and sign extensions: the bits of a sum of two words, one *)
(* above the other.                                                        *)
LEMMA BitLow ==
    ASSUME NEW a \in Nat, NEW b \in Nat, NEW k \in 0 .. WIDTH, NEW i \in 0 .. k - 1
    PROVE  Bit(a * Pow2[k] + b, i) = Bit(b, i)
<1>1. WIDTH \in Nat
  BY AllegrexAssumption
<1>2. /\ i \in 0 .. WIDTH /\ k - i \in 1 .. WIDTH /\ k - i \in 0 .. WIDTH - i /\ i + (k - i) = k
      /\ k - i - 1 \in 0 .. WIDTH
  BY <1>1
<1>3. PICK p \in Nat \ {0} : p = Pow2[i]
  BY <1>2, PowerIsNat
<1>4. PICK m \in Nat \ {0} : m = Pow2[k - i - 1]
  BY <1>2, PowerIsNat
<1>5. Pow2[k] = p * (2 * m)
  BY <1>2, <1>3, <1>4, PowerIs, PowerSum
<1>6. PICK q \in Nat : q = b \div p
  BY DivMod
<1>7. PICK r \in 0 .. p - 1 : r = (b % p)
  BY DivMod
<1>8. b = p * q + r
  BY <1>6, <1>7, DivMod
<1>9. PICK c \in Int : c = a * m
  OBVIOUS
<1>10. a * Pow2[k] + b = p * (2 * c + q) + r
  <2>1. a * (p * (2 * m)) = p * (2 * c)
    BY <1>9
  <2>2. p * (2 * c + q) = p * (2 * c) + p * q
    OBVIOUS
  <2> QED  BY <1>5, <1>8, <2>1, <2>2
<1>11. PICK v \in Int : v = p * (2 * c + q) + r
  OBVIOUS
<1>12. PICK d \in Int : d = 2 * c + q
  OBVIOUS
<1>13. v \div p = d
  <2>1. v = p * d + r
    BY <1>11, <1>12
  <2> QED  BY <2>1, DivModIs
<1>14. Bit(a * Pow2[k] + b, i) = (d % 2) /\ Bit(b, i) = (q % 2)
  BY <1>3, <1>6, <1>10, <1>11, <1>13 DEF Bit
<1>15. (d % 2) = (q % 2)
  BY <1>12
<1> QED  BY <1>14, <1>15

LEMMA BitHigh ==
    ASSUME NEW a \in Nat, NEW k \in 0 .. WIDTH, NEW b \in 0 .. Pow2[k] - 1, NEW i \in k .. WIDTH
    PROVE  Bit(a * Pow2[k] + b, i) = Bit(a, i - k)
<1>1. WIDTH \in Nat
  BY AllegrexAssumption
<1>2. i - k \in 0 .. WIDTH /\ i - k \in 0 .. WIDTH - k /\ k + (i - k) = i
  BY <1>1
<1>3. PICK p \in Nat \ {0} : p = Pow2[k]
  BY PowerIsNat
<1>4. PICK n \in Nat \ {0} : n = Pow2[i - k]
  BY <1>2, PowerIsNat
<1>5. Pow2[i] = p * n
  BY <1>2, <1>3, <1>4, PowerSum
<1>6. PICK q \in Nat : q = a \div n
  BY DivMod
<1>7. PICK r \in 0 .. n - 1 : r = (a % n)
  BY DivMod
<1>8. a = n * q + r
  BY <1>6, <1>7, DivMod
<1>9. b \in 0 .. p - 1
  BY <1>3
<1>10. PICK c \in Int : c = p * r + b
  BY <1>9
<1>11. PICK d \in Nat \ {0} : d = p * n
  OBVIOUS
<1>12. c \in 0 .. d - 1
  <2>1. p * r <= p * (n - 1)
    BY <1>7
  <2>2. p * (n - 1) = d - p
    BY <1>11
  <2>3. p * r >= 0
    BY <1>7
  <2> QED  BY <1>9, <1>10, <1>11, <2>1, <2>2, <2>3
<1>13. PICK v \in Int : v = a * p + b
  BY <1>9
<1>14. v = d * q + c
  <2>1. a * p = p * (n * q) + p * r
    BY <1>8
  <2>2. p * (n * q) = d * q
    BY <1>11
  <2> QED  BY <1>9, <1>10, <1>13, <2>1, <2>2
<1>15. v \div d = q
  BY <1>12, <1>14, DivModIs
<1> QED  BY <1>3, <1>4, <1>5, <1>6, <1>11, <1>13, <1>15 DEF Bit

(* A word divided in two at a bit.                                         *)
LEMMA Divided2 ==
    ASSUME NEW v \in Words32, NEW k \in 0 .. WIDTH
    PROVE  /\ v \div Pow2[k] \in Nat /\ Masked(v, k) \in 0 .. Pow2[k] - 1
           /\ v = (v \div Pow2[k]) * Pow2[k] + Masked(v, k)
<1>1. PICK p \in Nat \ {0} : p = Pow2[k]
  BY PowerIsNat
<1>2. v \in Nat
  BY HalfIs
<1>3. PICK q \in Nat : q = v \div p
  BY <1>2, DivMod
<1>4. PICK r \in 0 .. p - 1 : r = (v % p)
  BY <1>2, DivMod
<1>5. v = p * q + r
  BY <1>2, <1>3, <1>4, DivMod
<1>6. p * q = q * p
  OBVIOUS
<1> QED  BY <1>1, <1>3, <1>4, <1>5, <1>6 DEF Masked

LEMMA ExtIs ==
    ASSUME NEW rs \in Words32, NEW sa \in 0 .. WIDTH - 1, NEW size \in 1 .. WIDTH - sa, NEW e,
           e.rs = rs, e.sa = sa, e.size = size, NEW i \in 0 .. WIDTH - 1
    PROVE  Bit(Ext(e), i) = IF i < size THEN Bit(rs, i + sa) ELSE 0
<1>1. WIDTH \in Nat /\ sa \in 0 .. WIDTH /\ size \in 0 .. WIDTH
  BY AllegrexAssumption
<1>2. PICK q \in Nat : q = rs \div Pow2[sa]
  BY <1>1, Divided2
<1>3. PICK r \in 0 .. Pow2[sa] - 1 : rs = q * Pow2[sa] + r
  BY <1>1, <1>2, Divided2
<1>4. PICK p \in Nat \ {0} : p = Pow2[size]
  BY <1>1, PowerIsNat
<1>5. PICK f \in 0 .. p - 1 : f = (q % p)
  BY DivMod
<1>6. PICK m \in Nat : m = q \div p
  BY DivMod
<1>7. q = p * m + f
  BY <1>5, <1>6, DivMod
<1>9. Ext(e) = f
  BY <1>2, <1>4, <1>5 DEF Ext, Masked
<1>10. CASE i < size
  <2>1. i + sa \in sa .. WIDTH /\ (i + sa) - sa = i
    BY <1>1, <1>10
  <2>2. Bit(rs, i + sa) = Bit(q, i)
    BY <1>1, <1>3, <2>1, BitHigh
  <2>3. m \in Nat /\ f \in Nat /\ i \in 0 .. size - 1 /\ q = m * p + f
    BY <1>7, <1>10
  <2>4. Bit(q, i) = Bit(f, i)
    BY <1>1, <1>4, <2>3, BitLow
  <2> QED  BY <1>9, <1>10, <2>2, <2>4
<1>11. CASE ~ i < size
  <2>1. i \in size .. WIDTH /\ i - size \in 0 .. WIDTH
    BY <1>1, <1>11
  <2>2. f = 0 * Pow2[size] + f
    BY <1>4
  <2>3. Bit(f, i) = Bit(0, i - size)
    BY <1>1, <1>4, <2>1, <2>2, BitHigh
  <2>4. PICK n \in Nat \ {0} : n = Pow2[i - size]
    BY <2>1, PowerIsNat
  <2>5. 0 \div n = 0
    <3>1. 0 = n * 0 + 0 /\ 0 \in 0 .. n - 1
      OBVIOUS
    <3> QED  BY <3>1, DivModIs
  <2>6. Bit(0, i - size) = 0
    BY <2>4, <2>5 DEF Bit
  <2> QED  BY <1>9, <1>11, <2>3, <2>6
<1> QED  BY <1>10, <1>11

LEMMA InsIs ==
    ASSUME NEW rs \in Words32, NEW arg \in Words32, NEW sa \in 0 .. WIDTH - 1, NEW size \in 1 .. WIDTH - sa,
           NEW e, e.rs = rs, e.rt = arg, e.sa = sa, e.size = size, NEW i \in 0 .. WIDTH - 1
    PROVE  Bit(Ins(e), i) = IF sa <= i /\ i < sa + size THEN Bit(rs, i - sa) ELSE Bit(arg, i)
<1>1. /\ WIDTH \in Nat /\ sa \in 0 .. WIDTH /\ size \in 0 .. WIDTH /\ size \in 0 .. WIDTH - sa
      /\ sa + size \in 0 .. WIDTH
  BY AllegrexAssumption
<1>2. PICK A \in Nat, R \in 0 .. Pow2[sa + size] - 1 :
        A = arg \div Pow2[sa + size] /\ arg = A * Pow2[sa + size] + R
  BY <1>1, Divided2
<1>3. PICK q \in Nat, B \in 0 .. Pow2[sa] - 1 : B = Masked(arg, sa) /\ arg = q * Pow2[sa] + B
  BY <1>1, Divided2
<1>4. PICK k \in Nat, F \in 0 .. Pow2[size] - 1 : F = Masked(rs, size) /\ rs = k * Pow2[size] + F
  BY <1>1, Divided2
<1>5. PICK p \in Nat \ {0} : p = Pow2[sa]
  BY <1>1, PowerIsNat
<1>6. PICK n \in Nat \ {0} : n = Pow2[size]
  BY <1>1, PowerIsNat
<1>7. Pow2[sa + size] = p * n
  BY <1>1, <1>5, <1>6, PowerSum
<1>8. B \in Nat /\ F \in Nat
  BY <1>5, <1>6
<1>9. PICK h \in Nat : h = A * n + F
  BY <1>8
<1>10. Ins(e) = h * p + B
  <2>1. Ins(e) = A * (p * n) + F * p + B
    BY <1>2, <1>3, <1>4, <1>5, <1>7 DEF Ins
  <2>2. h * p = A * (p * n) + F * p
    BY <1>8, <1>9
  <2> QED  BY <2>1, <2>2
<1>11. CASE i < sa
  <2>1. i \in 0 .. sa - 1
    BY <1>11
  <2>2. Bit(h * p + B, i) = Bit(B, i)
    <3>1. Bit(h * Pow2[sa] + B, i) = Bit(B, i)
      BY <1>1, <1>8, <2>1, BitLow
    <3> QED  BY <1>5, <3>1
  <2>3. Bit(arg, i) = Bit(B, i)
    BY <1>1, <1>3, <1>8, <2>1, BitLow
  <2> QED  BY <1>10, <1>11, <2>2, <2>3
<1>12. CASE sa <= i
  <2>1. i \in sa .. WIDTH /\ i - sa \in 0 .. WIDTH
    BY <1>1, <1>12
  <2>2. Bit(h * p + B, i) = Bit(h, i - sa)
    BY <1>1, <1>5, <2>1, BitHigh
  <2>3. CASE i < sa + size
    <3>1. i - sa \in 0 .. size - 1
      BY <1>12, <2>3
    <3>2. Bit(h, i - sa) = Bit(F, i - sa)
      <4>1. Bit(A * Pow2[size] + F, i - sa) = Bit(F, i - sa)
        BY <1>1, <1>8, <3>1, BitLow
      <4> QED  BY <1>6, <1>9, <4>1
    <3>3. Bit(rs, i - sa) = Bit(F, i - sa)
      BY <1>1, <1>4, <1>8, <3>1, BitLow
    <3> QED  BY <1>10, <1>12, <2>2, <2>3, <3>2, <3>3
  <2>4. CASE ~ i < sa + size
    <3>1. /\ i - sa \in size .. WIDTH /\ i \in sa + size .. WIDTH
          /\ (i - sa) - size = i - (sa + size)
      BY <1>1, <2>1, <2>4
    <3>2. Bit(h, i - sa) = Bit(A, (i - sa) - size)
      BY <1>1, <1>6, <1>9, <3>1, BitHigh
    <3>3. Bit(arg, i) = Bit(A, i - (sa + size))
      BY <1>1, <1>2, <3>1, BitHigh
    <3> QED  BY <1>10, <1>12, <2>2, <2>4, <3>1, <3>2, <3>3
  <2> QED  BY <2>3, <2>4
<1> QED  BY <1>11, <1>12

LEMMA SraIs ==
    ASSUME NEW arg \in Words32, NEW sa \in 0 .. WIDTH - 1
    PROVE  LET q == Signed(Word(Signed(arg) \div Pow2[sa])) * Pow2[sa]
           IN  q <= Signed(arg) /\ Signed(arg) < q + Pow2[sa]
<1>1. PICK h \in Nat : h >= 8 /\ Least = h /\ Span = 2 * h /\ Words32 = 0 .. 2 * h - 1
  BY HalfIs
<1>2. PICK a \in -h .. h - 1 : a = Signed(arg)
  BY <1>1, SignedIs
<1>3. PICK p \in Nat \ {0} : p = Pow2[sa]
  <2>1. sa \in 0 .. WIDTH
    BY AllegrexAssumption
  <2> QED  BY <2>1, PowerIsNat
<1>4. a \in Int
  OBVIOUS
<1>5. PICK q \in Int : q = a \div p
  BY <1>4, DivModInt
<1>6. PICK r \in 0 .. p - 1 : r = (a % p)
  BY <1>4, DivModInt
<1>7. a = p * q + r
  BY <1>4, <1>5, <1>6, DivModInt
<1>8. q \in -h .. h - 1
  <2>1. ASSUME q >= h PROVE FALSE
    <3>1. p * q >= p * h /\ p * h >= h
      BY <2>1
    <3> QED  BY <1>7, <3>1
  <2>2. ASSUME q <= -h - 1 PROVE FALSE
    <3>1. p * q <= p * (-h - 1)
      BY <2>2
    <3>2. p * (-h - 1) = -(p * h) - p /\ p * h >= h
      OBVIOUS
    <3> QED  BY <1>6, <1>7, <3>1, <3>2
  <2> QED  BY <2>1, <2>2
<1>9. Signed(Word(q)) = q
  BY <1>1, <1>8, WordIs
<1>10. q * p <= a /\ a < q * p + p
  BY <1>6, <1>7
<1> QED  BY <1>2, <1>3, <1>5, <1>9, <1>10

LEMMA ExtendIs ==
    ASSUME NEW arg \in Words32, NEW size \in 1 .. WIDTH - 1, NEW out,
           out = Word(IF Masked(arg, size) >= Pow2[size - 1]
                      THEN Masked(arg, size) - Pow2[size] ELSE Masked(arg, size))
    PROVE  /\ Signed(out) \in -Pow2[size - 1] .. Pow2[size - 1] - 1
           /\ (out % Pow2[size]) = (arg % Pow2[size])
<1>1. PICK h \in Nat : h >= 8 /\ Least = h /\ Span = 2 * h /\ Words32 = 0 .. 2 * h - 1
  BY HalfIs
<1>2. /\ WIDTH \in Nat /\ size \in 0 .. WIDTH /\ size - 1 \in 0 .. WIDTH /\ size \in 1 .. WIDTH
      /\ WIDTH - size \in 1 .. WIDTH /\ WIDTH - size \in 0 .. WIDTH - size /\ size + (WIDTH - size) = WIDTH
      /\ (WIDTH - size) - 1 \in 0 .. WIDTH
  BY AllegrexAssumption
<1>3. PICK half \in Nat \ {0} : half = Pow2[size - 1]
  BY <1>2, PowerIsNat
<1>4. PICK p \in Nat \ {0} : p = Pow2[size] /\ p = 2 * half
  BY <1>2, <1>3, PowerIs
<1>5. PICK k \in Nat : k >= 2 /\ Pow2[WIDTH - size] = k
  <2>1. PICK j \in Nat \ {0} : j = Pow2[(WIDTH - size) - 1]
    BY <1>2, PowerIsNat
  <2>2. Pow2[WIDTH - size] = 2 * j
    BY <1>2, <2>1, PowerIs
  <2> QED  BY <2>1, <2>2
<1>6. Span = p * k
  BY <1>2, <1>4, <1>5, PowerSum DEF Span
<1>7. p <= h
  <2>1. p * k >= 2 * p
    BY <1>5
  <2> QED  BY <1>1, <1>6, <2>1
<1>8. PICK m \in 0 .. p - 1 : m = Masked(arg, size) /\ m = (arg % p)
  BY <1>2, <1>4, Divided2 DEF Masked
<1>9. CASE m >= half
  <2>1. PICK v \in Int : v = m - p
    OBVIOUS
  <2>2. out = Word(v)
    BY <1>3, <1>4, <1>8, <1>9, <2>1
  <2>3. v \in -half .. -1 /\ v \in -h .. h - 1
    BY <1>4, <1>7, <1>9, <2>1
  <2>4. Signed(out) = v
    BY <1>1, <2>2, <2>3, WordIs
  <2>5. out = v + Span
    BY <1>1, <2>2, <2>3, WordIs
  <2>6. PICK j \in Int : j = k - 1
    OBVIOUS
  <2>7. out = p * j + m
    <3>1. p * j = p * k - p
      BY <2>6
    <3> QED  BY <1>6, <2>1, <2>5, <3>1
  <2>8. PICK w \in Int : w = p * j + m
    OBVIOUS
  <2>9. (out % p) = m
    <3>1. (w % p) = m
      BY <2>8, DivModIs
    <3> QED  BY <2>7, <2>8, <3>1
  <2> QED  BY <1>3, <1>4, <1>8, <2>3, <2>4, <2>9
<1>10. CASE ~ m >= half
  <2>1. out = Word(m)
    BY <1>3, <1>4, <1>8, <1>10
  <2>2. m \in -h .. h - 1 /\ m \in Words32 /\ m \in -half .. half - 1
    BY <1>1, <1>7, <1>10
  <2>3. Signed(out) = m /\ out = m
    BY <1>1, <2>1, <2>2, WordIs
  <2>4. (m % p) = m
    <3>1. m = p * 0 + m
      OBVIOUS
    <3> QED  BY <3>1, DivModIs
  <2> QED  BY <1>3, <1>4, <1>8, <2>2, <2>3, <2>4
<1> QED  BY <1>9, <1>10

LEMMA ShiftExact == Shift => ArithmeticExact'
<1> SUFFICES ASSUME Shift PROVE ArithmeticExact'
  OBVIOUS
<1>0. PICK arg \in Words32, sa \in 0 .. WIDTH - 1, op \in {"sll", "srl", "sra"} : \E e :
        /\ e = [Instruction(op) EXCEPT !.rt = arg, !.sa = sa] /\ Gives(e, Shifted(e))
  BY DEF Shift
<1>1. PICK e :
        /\ arg \in Words32
        /\ sa \in 0 .. WIDTH - 1
        /\ op \in {"sll", "srl", "sra"}
        /\ e = [Instruction(op) EXCEPT !.rt = arg, !.sa = sa] /\ Gives(e, Shifted(e))
  BY <1>0
<1>2. e = [op |-> op, rs |-> 0, rt |-> arg, sa |-> sa, size |-> 1, hi |-> 0, lo |-> 0,
           x |-> 0, out |-> 0, newHi |-> 0, newLo |-> 0]
  BY <1>1 DEF Instruction
<1>3. PICK v : v = Shifted(e)
  OBVIOUS
<1>g. ex' = [e EXCEPT !.out = v]
  BY <1>1, <1>3 DEF Gives
<1>4. ex'.op = op /\ ex'.rt = arg /\ ex'.sa = sa /\ ex'.out = v
  BY <1>2, <1>g
<1>5. op = "sra" => v = Word(Signed(arg) \div Pow2[sa])
  BY <1>2, <1>3 DEF Shifted
<1>6. BitsInPlace'
  BY <1>4, <1>5, SraIs DEF BitsInPlace
<1> QED
  BY <1>4, <1>6 DEF ArithmeticExact, ProductExact, DivisionExact, ConversionRounds

LEMMA ExtendExact == Extend => ArithmeticExact'
<1> SUFFICES ASSUME Extend PROVE ArithmeticExact'
  OBVIOUS
<1>0. PICK arg \in Words32, size \in {WIDTH \div 4, WIDTH \div 2} : \E e :
        /\ e = [Instruction("se") EXCEPT !.rt = arg, !.size = size] /\ Gives(e, Plain(e))
  BY DEF Extend
<1>1. PICK e :
        /\ arg \in Words32
        /\ size \in {WIDTH \div 4, WIDTH \div 2}
        /\ e = [Instruction("se") EXCEPT !.rt = arg, !.size = size] /\ Gives(e, Plain(e))
  BY <1>0
<1>2. e = [op |-> "se", rs |-> 0, rt |-> arg, sa |-> 0, size |-> size, hi |-> 0, lo |-> 0,
           x |-> 0, out |-> 0, newHi |-> 0, newLo |-> 0]
  BY <1>1 DEF Instruction
<1>3. PICK v : v = Plain(e)
  OBVIOUS
<1>g. ex' = [e EXCEPT !.out = v]
  BY <1>1, <1>3 DEF Gives
<1>4. ex'.op = "se" /\ ex'.rt = arg /\ ex'.size = size /\ ex'.out = v
  BY <1>2, <1>g
<1>5. v = Word(IF Masked(arg, size) >= Pow2[size - 1]
               THEN Masked(arg, size) - Pow2[size] ELSE Masked(arg, size))
  BY <1>2, <1>3 DEF Plain
<1>6. size \in 1 .. WIDTH - 1
  BY AllegrexAssumption
<1>7. BitsInPlace'
  BY <1>4, <1>5, <1>6, ExtendIs DEF BitsInPlace
<1> QED
  BY <1>4, <1>7 DEF ArithmeticExact, ProductExact, DivisionExact, ConversionRounds

LEMMA FieldExact == Field => ArithmeticExact'
<1> SUFFICES ASSUME Field PROVE ArithmeticExact'
  OBVIOUS
<1>f. PICK rs \in Words32, arg \in Words32, sa \in 0 .. WIDTH - 1, op \in {"ext", "ins"} :
        \E size \in 1 .. WIDTH - sa :
            \E e \in {[Instruction(op) EXCEPT !.rs = rs, !.rt = arg, !.sa = sa, !.size = size]} :
                Gives(e, IF op = "ext" THEN Ext(e) ELSE Ins(e))
  BY DEF Field
<1>0. PICK size \in 1 .. WIDTH - sa : \E e :
        /\ e = [Instruction(op) EXCEPT !.rs = rs, !.rt = arg, !.sa = sa, !.size = size]
        /\ Gives(e, IF op = "ext" THEN Ext(e) ELSE Ins(e))
  BY <1>f
<1>1. PICK e :
        /\ size \in 1 .. WIDTH - sa
        /\ e = [Instruction(op) EXCEPT !.rs = rs, !.rt = arg, !.sa = sa, !.size = size]
        /\ Gives(e, IF op = "ext" THEN Ext(e) ELSE Ins(e))
  BY <1>0
<1>2. e = [op |-> op, rs |-> rs, rt |-> arg, sa |-> sa, size |-> size, hi |-> 0, lo |-> 0,
           x |-> 0, out |-> 0, newHi |-> 0, newLo |-> 0]
  BY <1>1 DEF Instruction
<1>3. PICK v : v = IF op = "ext" THEN Ext(e) ELSE Ins(e)
  OBVIOUS
<1>g. ex' = [e EXCEPT !.out = v]
  BY <1>1, <1>3 DEF Gives
<1>4. /\ ex'.op = op /\ ex'.rs = rs /\ ex'.rt = arg /\ ex'.sa = sa /\ ex'.size = size
      /\ ex'.out = v
  BY <1>2, <1>g
<1>5. e.rs = rs /\ e.rt = arg /\ e.sa = sa /\ e.size = size
  BY <1>2
<1>6. ASSUME NEW i \in 0 .. WIDTH - 1
      PROVE  IF op = "ins"
             THEN Bit(v, i) = IF sa <= i /\ i < sa + size THEN Bit(rs, i - sa) ELSE Bit(arg, i)
             ELSE Bit(v, i) = IF i < size THEN Bit(rs, i + sa) ELSE 0
  BY <1>3, <1>5, ExtIs, InsIs
<1>7. BitsInPlace'
  BY <1>4, <1>6 DEF BitsInPlace
<1> QED
  BY <1>4, <1>7 DEF ArithmeticExact, ProductExact, DivisionExact, ConversionRounds

-----------------------------------------------------------------------------
(* Conversions.                                                            *)
LEMMA CastIs ==
    ASSUME NEW n \in Int
    PROVE  IF n \in -Least .. Least - 1 THEN Signed(Cast(n)) = n /\ (Cast(n) = Least => n = -Least)
                                        ELSE Cast(n) = Least
<1>1. PICK h \in Nat : h >= 8 /\ Least = h /\ Span = 2 * h /\ Words32 = 0 .. 2 * h - 1
  BY HalfIs
<1>2. ASSUME n \in -h .. h - 1 PROVE Signed(Cast(n)) = n /\ (Cast(n) = h => n = -h)
  <2>1. Cast(n) = Word(n)
    BY <1>1, <1>2 DEF Cast, Greatest
  <2>2. Signed(Word(n)) = n
    BY <1>1, <1>2, WordIs
  <2>3. Signed(h) = -h
    BY <1>1 DEF Signed
  <2> QED  BY <2>1, <2>2, <2>3
<1>3. ASSUME n \notin -h .. h - 1 PROVE Cast(n) = h
  BY <1>1, <1>3 DEF Cast, Greatest
<1> QED  BY <1>1, <1>2, <1>3

(* What rounding to a whole number, and to one that fits, each give.       *)
Within(x, out, low, high) ==
    \/ out \in {Least, Greatest} /\ Magnitude(x) >= Whole * Greatest
    \/ Whole * Signed(out) - x \in low .. high

LEMMA WholeIs == \E o \in Nat \ {0} : \E p \in Nat \ {0} : Whole = o /\ POINT5 = p /\ o = 2 * p
BY AllegrexAssumption DEF Whole

LEMMA CastWithin ==
    ASSUME NEW x \in Int, NEW n \in Int, NEW low \in Int, NEW high \in Int,
           -Whole <= low, high <= Whole, Whole * n - x \in low .. high
    PROVE  Within(x, Cast(n), low, high)
<1>1. PICK h \in Nat : h >= 8 /\ Least = h /\ Span = 2 * h /\ Words32 = 0 .. 2 * h - 1
  BY HalfIs
<1>2. CASE n \in -h .. h - 1
  <2>1. Signed(Cast(n)) = n
    BY <1>1, <1>2, CastIs
  <2> QED  BY <2>1 DEF Within
<1>3. CASE n \notin -h .. h - 1
  <2>1. Cast(n) = h
    BY <1>1, <1>3, CastIs
  <2>2. PICK o \in Nat \ {0} : Whole = o
    BY WholeIs
  <2>3. PICK p \in Int : p = o * n
    OBVIOUS
  <2>4. PICK q \in Int : q = o * (h - 1)
    OBVIOUS
  <2>5. q >= 0
    BY <1>1, <2>4
  <2>6. p >= q + o \/ p <= -q - 2 * o
    <3>1. CASE n >= h
      <4>1. PICK k \in Nat : n = h + k
        BY <3>1
      <4>2. o * n = o * (h - 1) + o + o * k
        BY <4>1
      <4>3. o * k >= 0
        BY <4>1
      <4> QED  BY <2>3, <2>4, <4>2, <4>3
    <3>2. CASE n <= -h - 1
      <4>1. PICK k \in Nat : n = -h - 1 - k
        BY <3>2
      <4>2. o * n = -(o * (h - 1)) - 2 * o - o * k
        BY <4>1
      <4>3. o * k >= 0
        BY <4>1
      <4> QED  BY <2>3, <2>4, <4>2, <4>3
    <3> QED  BY <1>3, <3>1, <3>2
  <2>7. x >= q \/ x <= -q
    BY <2>2, <2>3, <2>6
  <2>8. Magnitude(x) >= q
    BY <2>4, <2>5, <2>7 DEF Magnitude
  <2> QED  BY <1>1, <2>1, <2>2, <2>4, <2>8 DEF Within, Greatest
<1> QED  BY <1>2, <1>3

(* Rounding down, up and to the nearest whole number.                      *)
LEMMA RoundedDown ==
    ASSUME NEW x \in Int
    PROVE  /\ Down(x) \in Int /\ Whole * Down(x) - x \in 1 - Whole .. 0
           /\ x >= 0 => Down(x) >= 0
<1>1. PICK o \in Nat \ {0} : Whole = o
  BY WholeIs
<1>2. PICK d \in Int : d = x \div o
  BY DivModInt
<1>3. PICK r \in 0 .. o - 1 : r = (x % o)
  BY DivModInt
<1>4. x = o * d + r
  BY <1>2, <1>3, DivModInt
<1>5. x >= 0 => d >= 0
  <2> SUFFICES ASSUME d <= -1 PROVE x < 0
    BY <1>2
  <2>1. o * d <= -o
    OBVIOUS
  <2> QED  BY <1>4, <2>1
<1> QED  BY <1>1, <1>2, <1>3, <1>4, <1>5 DEF Down

LEMMA RoundedUp ==
    ASSUME NEW x \in Int
    PROVE  Up(x) \in Int /\ Whole * Up(x) - x \in 0 .. Whole - 1
<1>1. PICK o \in Nat \ {0} : Whole = o
  BY WholeIs
<1>2. PICK d \in Int : d = Down(-x) /\ o * d + x \in 1 - o .. 0
  BY <1>1, RoundedDown
<1>3. Up(x) = -d
  BY <1>2 DEF Up, Down
<1>4. o * (-d) = -(o * d)
  OBVIOUS
<1> QED  BY <1>1, <1>2, <1>3, <1>4

LEMMA NearestIs ==
    ASSUME NEW x \in Int
    PROVE  Nearest(x) \in Int /\ Whole * Nearest(x) - x \in -POINT5 .. POINT5
<1>1. PICK o \in Nat \ {0}, p \in Nat \ {0} : Whole = o /\ POINT5 = p /\ o = 2 * p
  BY WholeIs
<1>2. PICK d \in Int : d = Down(x) /\ o * d - x \in 1 - o .. 0
  BY <1>1, RoundedDown
<1>3. CASE (x % Whole) # POINT5
  <2>1. PICK c \in Int : c = Down(x + p) /\ o * c - (x + p) \in 1 - o .. 0
    BY <1>1, RoundedDown
  <2> QED  BY <1>1, <1>3, <2>1 DEF Nearest
<1>4. CASE (x % Whole) = POINT5
  <2>1. o * d - x = -p
    <3>1. x = o * (x \div o) + (x % o) /\ (x % o) = p
      BY <1>1, <1>4, DivModInt
    <3> QED  BY <1>1, <1>2, <3>1 DEF Down
  <2>2. o * (d + 1) = o * d + o
    OBVIOUS
  <2>3. Nearest(x) \in {d, d + 1}
    BY <1>1, <1>2, <1>4 DEF Nearest
  <2> QED  BY <1>1, <2>1, <2>2, <2>3
<1> QED  BY <1>3, <1>4

(* A sum with a float no further than that from it is rounded at most as   *)
(* far: the float nearest is there to be chosen.                           *)
LEMMA SingleIs ==
    ASSUME NEW x \in Floats, NEW n \in Int
    PROVE  /\ Single(n) \in Floats /\ Single(n) \in Int
           /\ Magnitude(n - Single(n)) <= Magnitude(n - x)
           /\ n \in Floats => Single(n) = n
<1>1. Floats \subseteq Int
  BY AllegrexAssumption
<1> DEFINE Off == {Magnitude(n - f) : f \in Floats}
<1>2. Off \subseteq Nat /\ Off # {}
  BY <1>1 DEF Magnitude
<1>3. PICK f \in Floats : \A g \in Floats : Magnitude(n - f) <= Magnitude(n - g)
  <2>1. PICK d \in Off : \A e \in Off : d <= e
    <3> HIDE DEF Off
    <3> QED  BY <1>2, HasLeast
  <2> QED  BY <2>1
<1>4. f \in NearestFloats(n)
  BY <1>3 DEF NearestFloats
<1>5. \E c \in NearestFloats(n) : \A g \in NearestFloats(n) : c = g \/ (c % (2 * Magnitude(g - c))) = 0
  <2>1. CASE \A g \in NearestFloats(n) : f = g
    BY <1>4, <2>1
  <2>2. CASE \E g \in NearestFloats(n) : f # g
    <3>1. PICK g \in NearestFloats(n) : f # g
      BY <2>2
    <3>2. /\ f \in Int /\ g \in Int /\ g \in Floats
          /\ Magnitude(n - f) = Magnitude(n - g)
          /\ \A c \in NearestFloats(n) : c \in Floats /\ c \in Int /\ Magnitude(n - c) = Magnitude(n - f)
      <4>1. \A c \in NearestFloats(n) : c \in Floats /\ c \in Int
        BY <1>1 DEF NearestFloats
      <4>2. \A c \in NearestFloats(n) : Magnitude(n - c) = Magnitude(n - f)
        <5> TAKE c \in NearestFloats(n)
        <5>1. Magnitude(n - c) <= Magnitude(n - f) /\ Magnitude(n - f) <= Magnitude(n - c)
          BY <1>3, <4>1 DEF NearestFloats
        <5>2. Magnitude(n - c) \in Int /\ Magnitude(n - f) \in Int
          BY <1>1, <4>1 DEF Magnitude
        <5> QED  BY <5>1, <5>2
      <4> QED  BY <1>1, <3>1, <4>1, <4>2
    <3>3. n - f = g - n
      BY <3>1, <3>2 DEF Magnitude
    <3>4. \A c \in NearestFloats(n) : c = f \/ c = g
      BY <3>2, <3>3 DEF Magnitude
    <3>5. \A h \in Floats : IF f < g THEN h <= f \/ g <= h ELSE h <= g \/ f <= h
      <4> TAKE h \in Floats
      <4>1. h \in Int /\ Magnitude(n - f) <= Magnitude(n - h)
        BY <1>1, <1>3
      <4> QED  BY <3>1, <3>2, <3>3, <4>1 DEF Magnitude
    <3>6. CASE f < g
      <4>1. (f % (2 * (g - f))) = 0 \/ (g % (2 * (g - f))) = 0
        BY <3>2, <3>5, <3>6, AllegrexAssumption
      <4>2. Magnitude(g - f) = g - f /\ Magnitude(f - g) = g - f
        BY <3>2, <3>6 DEF Magnitude
      <4> QED  BY <1>4, <3>1, <3>4, <4>1, <4>2
    <3>7. CASE ~ f < g
      <4>0. g < f
        BY <3>1, <3>2, <3>7
      <4>1. (g % (2 * (f - g))) = 0 \/ (f % (2 * (f - g))) = 0
        BY <3>2, <3>5, <4>0, AllegrexAssumption
      <4>2. Magnitude(g - f) = f - g /\ Magnitude(f - g) = f - g
        BY <3>2, <4>0 DEF Magnitude
      <4> QED  BY <1>4, <3>1, <3>4, <4>1, <4>2
    <3> QED  BY <3>6, <3>7
  <2> QED  BY <2>1, <2>2
<1>6. Single(n) \in NearestFloats(n)
  BY <1>5 DEF Single
<1>7. Single(n) \in Floats /\ \A g \in Floats : Magnitude(n - Single(n)) <= Magnitude(n - g)
  BY <1>6 DEF NearestFloats
<1>8. Single(n) \in Int
  BY <1>1, <1>7
<1>9. n \in Floats => Single(n) = n
  BY <1>7, <1>8 DEF Magnitude
<1> QED  BY <1>7, <1>8, <1>9

LEMMA RoundIs ==
    ASSUME NEW x \in Floats
    PROVE  Within(x, Cast(Down(Single(x + POINT5))),
                  IF x + POINT5 \in Floats THEN 1 - POINT5 ELSE 1 - Whole,
                  IF x + POINT5 \in Floats THEN POINT5 ELSE Whole)
<1>1. PICK o \in Nat \ {0}, p \in Nat \ {0} : Whole = o /\ POINT5 = p /\ o = 2 * p
  BY WholeIs
<1>2. x \in Int
  BY AllegrexAssumption
<1>s. PICK sum \in Int : sum = x + POINT5 /\ sum = x + p
  BY <1>1, <1>2
<1>3. PICK y \in Int : /\ y = Single(sum)
                       /\ Magnitude(sum - y) <= Magnitude(sum - x)
                       /\ sum \in Floats => y = sum
  BY SingleIs
<1>4. y \in x .. x + o
  BY <1>1, <1>2, <1>3, <1>s DEF Magnitude
<1>5. PICK n \in Int : n = Down(y) /\ o * n - y \in 1 - o .. 0
  BY <1>1, RoundedDown
<1>6. PICK low \in Int, high \in Int :
        /\ low = IF sum \in Floats THEN 1 - p ELSE 1 - o
        /\ high = IF sum \in Floats THEN p ELSE o
  BY <1>1
<1>7. -o <= low /\ high <= o
  BY <1>1, <1>6
<1>8. o * n - x \in low .. high
  BY <1>1, <1>2, <1>3, <1>s, <1>4, <1>5, <1>6
<1>9. Within(x, Cast(n), low, high)
  BY <1>1, <1>2, <1>7, <1>8, CastWithin
<1>10. Cast(Down(Single(x + POINT5))) = Cast(n)
  BY <1>s, <1>3, <1>5, Zenon
<1>11. /\ low = IF x + POINT5 \in Floats THEN 1 - POINT5 ELSE 1 - Whole
       /\ high = IF x + POINT5 \in Floats THEN POINT5 ELSE Whole
  BY <1>1, <1>s, <1>6
<1> QED  BY <1>9, <1>10, <1>11, Zenon

LEMMA CastUp == ASSUME NEW x \in Int PROVE Within(x, Cast(Up(x)), 0, Whole - 1)
<1>1. PICK o \in Nat \ {0} : Whole = o
  BY WholeIs
<1>2. PICK n \in Int : n = Up(x) /\ o * n - x \in 0 .. o - 1
  BY <1>1, RoundedUp
<1>3. Within(x, Cast(n), 0, o - 1)
  BY <1>1, <1>2, CastWithin
<1> QED  BY <1>1, <1>2, <1>3

LEMMA CastDown == ASSUME NEW x \in Int PROVE Within(x, Cast(Down(x)), 1 - Whole, 0)
<1>1. PICK o \in Nat \ {0} : Whole = o
  BY WholeIs
<1>2. PICK n \in Int : n = Down(x) /\ o * n - x \in 1 - o .. 0
  BY <1>1, RoundedDown
<1>3. Within(x, Cast(n), 1 - o, 0)
  BY <1>1, <1>2, CastWithin
<1> QED  BY <1>1, <1>2, <1>3

LEMMA CastNearest == ASSUME NEW x \in Int PROVE Within(x, Cast(Nearest(x)), -POINT5, POINT5)
<1>1. PICK o \in Nat \ {0}, p \in Nat \ {0} : Whole = o /\ POINT5 = p /\ o = 2 * p
  BY WholeIs
<1>2. PICK n \in Int : n = Nearest(x) /\ o * n - x \in -p .. p
  BY <1>1, NearestIs
<1>3. Within(x, Cast(n), -p, p)
  BY <1>1, <1>2, CastWithin
<1> QED  BY <1>1, <1>2, <1>3

(* trunc.w.s turns the least int of a positive float into the greatest.    *)
LEMMA TruncIs ==
    ASSUME NEW x \in Int, NEW out,
           out = IF x < 0 THEN Cast(Up(x))
                 ELSE IF Cast(Down(x)) = Least THEN Greatest ELSE Cast(Down(x))
    PROVE  IF x < 0 THEN Within(x, out, 0, Whole - 1) ELSE Within(x, out, 1 - Whole, 0)
<1>1. PICK h \in Nat : h >= 8 /\ Least = h /\ Span = 2 * h /\ Words32 = 0 .. 2 * h - 1
  BY HalfIs
<1>2. CASE x < 0
  BY <1>2, CastUp
<1>3. CASE ~ x < 0 /\ Cast(Down(x)) # Least
  BY <1>3, CastDown
<1>4. CASE ~ x < 0 /\ Cast(Down(x)) = Least
  <2>1. PICK o \in Nat \ {0} : Whole = o
    BY WholeIs
  <2>2. PICK n \in Int : n = Down(x) /\ o * n - x \in 1 - o .. 0 /\ n >= 0
    BY <1>4, <2>1, RoundedDown
  <2>3. n >= h
    BY <1>1, <1>4, <2>2, CastIs
  <2>4. o * n >= o * (h - 1)
    BY <2>3
  <2>5. x >= o * (h - 1)
    BY <2>2, <2>4
  <2> QED  BY <1>1, <1>4, <2>1, <2>5 DEF Within, Magnitude, Greatest
<1> QED  BY <1>2, <1>3, <1>4

LEMMA ConvertExact == Convert => ArithmeticExact'
<1> SUFFICES ASSUME Convert PROVE ArithmeticExact'
  OBVIOUS
<1>0. PICK x \in Floats \cup {NaN, PlusInf, MinusInf},
           op \in {"round", "trunc", "ceil", "floor", "cvt"} : \E e :
        /\ e = [Instruction(op) EXCEPT !.x = x] /\ Gives(e, Converted(op, x))
  BY DEF Convert
<1>1. PICK e :
        /\ x \in Floats \cup {NaN, PlusInf, MinusInf}
        /\ op \in {"round", "trunc", "ceil", "floor", "cvt"}
        /\ e = [Instruction(op) EXCEPT !.x = x] /\ Gives(e, Converted(op, x))
  BY <1>0
<1>2. e = [op |-> op, rs |-> 0, rt |-> 0, sa |-> 0, size |-> 1, hi |-> 0, lo |-> 0,
           x |-> x, out |-> 0, newHi |-> 0, newLo |-> 0]
  BY <1>1 DEF Instruction
<1>3. PICK v : v = Converted(op, x)
  OBVIOUS
<1>g. ex' = [e EXCEPT !.out = v]
  BY <1>1, <1>3 DEF Gives
<1>4. ex'.op = op /\ ex'.x = x /\ ex'.out = v
  BY <1>2, <1>g
<1>5. CASE x \notin Floats
  <2>1. v = IF x = MinusInf THEN Least ELSE Greatest
    BY <1>1, <1>3, <1>5, AllegrexAssumption DEF Converted
  <2> QED
    BY <1>4, <1>5, <2>1
       DEF ArithmeticExact, ProductExact, DivisionExact, BitsInPlace, ConversionRounds
<1>6. CASE x \in Floats
  <2>1. x \in Int /\ x \notin {NaN, PlusInf, MinusInf}
    BY <1>6, AllegrexAssumption
  <2>2. /\ op = "round" => v = Cast(Down(Single(x + POINT5)))
        /\ op = "trunc" => v = IF x < 0 THEN Cast(Up(x))
                              ELSE IF Cast(Down(x)) = Least THEN Greatest ELSE Cast(Down(x))
        /\ op = "ceil"  => v = Cast(Up(x))
        /\ op = "floor" => v = Cast(Down(x))
        /\ op = "cvt"   => v = Cast(Nearest(x))
    BY <1>3, <2>1 DEF Converted
  <2> DEFINE Right == \/ v \in {Least, Greatest} /\ Magnitude(x) >= Whole * Greatest
                      \/ Whole * Signed(v) - x \in Allowed(op, x)
  <2>3. op = "round" => Right
    BY <1>6, <2>2, RoundIs DEF Within, Allowed
  <2>4. op = "trunc" => Right
    BY <2>1, <2>2, TruncIs DEF Within, Allowed
  <2>5. op = "ceil" => Right
    BY <2>1, <2>2, CastUp DEF Within, Allowed
  <2>6. op = "floor" => Right
    BY <2>1, <2>2, CastDown DEF Within, Allowed
  <2>7. op = "cvt" => Right
    BY <2>1, <2>2, CastNearest DEF Within, Allowed
  <2>8. ConversionRounds'
    <3>1. Right
      BY <1>1, <2>3, <2>4, <2>5, <2>6, <2>7
    <3> QED  BY <1>4, <1>6, <3>1 DEF ConversionRounds
  <2> QED
    BY <1>1, <1>4, <2>8 DEF ArithmeticExact, ProductExact, DivisionExact, BitsInPlace
<1> QED  BY <1>5, <1>6

LEMMA BinaryExact ==
    ASSUME NEW op \in {"and", "or", "xor", "nor", "slt", "sltu", "max", "min",
                       "addu", "subu", "clz", "clo"},
           NEW rs, NEW arg, NEW v, Gives([Instruction(op) EXCEPT !.rs = rs, !.rt = arg], v)
    PROVE  ArithmeticExact'
<1>1. PICK e : e = [Instruction(op) EXCEPT !.rs = rs, !.rt = arg]
  OBVIOUS
<1>2. e = [op |-> op, rs |-> rs, rt |-> arg, sa |-> 0, size |-> 1, hi |-> 0, lo |-> 0,
           x |-> 0, out |-> 0, newHi |-> 0, newLo |-> 0]
  BY <1>1 DEF Instruction
<1>3. ex' = [e EXCEPT !.out = v]
  BY <1>1 DEF Gives
<1>4. ex'.op = op
  BY <1>2, <1>3
<1> QED
  BY <1>4 DEF ArithmeticExact, ProductExact, DivisionExact, BitsInPlace, ConversionRounds

-----------------------------------------------------------------------------
LEMMA ArithmeticStep == ArithmeticExact /\ [ExNext]_exVars => ArithmeticExact'
<1> SUFFICES ASSUME ArithmeticExact, [ExNext]_exVars PROVE ArithmeticExact'
  OBVIOUS
<1>1. CASE Binary({"and", "or", "xor", "nor"}, Logical)
  <2>1. PICK rs \in Words32, arg \in Words32, op \in {"and", "or", "xor", "nor"} :
          Gives([Instruction(op) EXCEPT !.rs = rs, !.rt = arg], Logical([Instruction(op) EXCEPT !.rs = rs, !.rt = arg]))
    BY <1>1 DEF Binary
  <2> QED  BY <2>1, BinaryExact
<1>2. CASE Binary({"slt", "sltu", "max", "min"}, Compared)
  <2>1. PICK rs \in Words32, arg \in Words32, op \in {"slt", "sltu", "max", "min"} :
          Gives([Instruction(op) EXCEPT !.rs = rs, !.rt = arg], Compared([Instruction(op) EXCEPT !.rs = rs, !.rt = arg]))
    BY <1>2 DEF Binary
  <2> QED  BY <2>1, BinaryExact
<1>3. CASE Binary({"addu", "subu", "clz", "clo"}, Plain)
  <2>1. PICK rs \in Words32, arg \in Words32, op \in {"addu", "subu", "clz", "clo"} :
          Gives([Instruction(op) EXCEPT !.rs = rs, !.rt = arg], Plain([Instruction(op) EXCEPT !.rs = rs, !.rt = arg]))
    BY <1>3 DEF Binary
  <2> QED  BY <2>1, BinaryExact
<1>4. CASE Retire
  <2>1. ex'.op = "none"
    BY <1>4 DEF Retire, Instruction
  <2> QED
    BY <2>1 DEF ArithmeticExact, ProductExact, DivisionExact, BitsInPlace, ConversionRounds
<1>5. CASE UNCHANGED exVars
  BY <1>5 DEF exVars, ArithmeticExact, ProductExact, DivisionExact, BitsInPlace, ConversionRounds
<1> QED
  BY <1>1, <1>2, <1>3, <1>4, <1>5, MultiplyExact, DivideExact, ShiftExact, ExtendExact,
     FieldExact, ConvertExact DEF ExNext

LEMMA ArithmeticInit == ExInit => ArithmeticExact
<1> SUFFICES ASSUME ExInit PROVE ArithmeticExact
  OBVIOUS
<1>1. ex.op = "none"
  BY DEF ExInit, Instruction
<1> QED
  BY <1>1 DEF ArithmeticExact, ProductExact, DivisionExact, BitsInPlace, ConversionRounds

-----------------------------------------------------------------------------
(* Whatever an instruction is given, its results are what they are defined *)
(* to be (interp.cpp 74-93, 145-244, 350-374).                             *)
THEOREM ArithmeticIsExact == ExSpec => []ArithmeticExact
BY ArithmeticInit, ArithmeticStep, PTL DEF ExSpec

(* The integer unit and the vector unit both do, in any order, what their  *)
(* instructions promise (interp.cpp 145-244, vfpu_interp.c 32-47, 149).    *)
THEOREM InstructionsAreExact == ExSpec /\ VfpuSpec => []InstructionsExact
<1>1. (ArithmeticExact /\ (PrefixUsedOnce /\ MatrixHasItsVectors)) => InstructionsExact
  BY DEF InstructionsExact
<1> QED
  BY ArithmeticIsExact, LanesAreNamed, <1>1, PTL

-----------------------------------------------------------------------------
(* The disc, for any image whose directories are well formed.              *)

(* A walk over offsets, from any of them: where it stops and what it then  *)
(* answers, or where it goes on, always forwards.                          *)
IsWalk(f, from, top, halts, val, next) ==
    f = [o \in from .. top |-> IF o \in halts THEN val[o] ELSE f[next[o]]]

LEMMA WalkExists ==
    ASSUME NEW top \in Nat, NEW halts, NEW val, NEW next,
           \A o \in 0 .. top : o \notin halts => next[o] \in o + 1 .. top
    PROVE  \E f : IsWalk(f, 0, top, halts, val, next)
<1> DEFINE Bad == {n \in 0 .. top : ~ \E f : IsWalk(f, top - n, top, halts, val, next)}
<1>1. SUFFICES ASSUME Bad # {} PROVE FALSE
  <2>1. top \in 0 .. top /\ top - top = 0
    OBVIOUS
  <2> QED  BY <1>1, <2>1
<1>2. PICK n \in Bad : \A m \in Bad : n <= m
  <2>1. Bad \subseteq Nat
    OBVIOUS
  <2> HIDE DEF Bad
  <2> QED  BY <1>1, <2>1, HasLeast
<1>3. PICK here \in 0 .. top : here = top - n
  OBVIOUS
<1>4. CASE here = top
  <2>1. top \in halts
    BY <1>4
  <2> DEFINE f == [o \in here .. top |-> val[top]]
  <2>2. IsWalk(f, here, top, halts, val, next)
    BY <1>4, <2>1 DEF IsWalk
  <2> QED  BY <1>2, <1>3, <2>2
<1>5. CASE here # top
  <2>1. n - 1 \in 0 .. top /\ top - (n - 1) = here + 1 /\ ~ n <= n - 1
    BY <1>3, <1>5
  <2>2. PICK g : IsWalk(g, here + 1, top, halts, val, next)
    BY <1>2, <2>1
  <2> DEFINE f == [o \in here .. top |-> IF o # here THEN g[o]
                                         ELSE IF here \in halts THEN val[here] ELSE g[next[here]]]
  <2>3. ASSUME NEW o \in here .. top PROVE f[o] = IF o \in halts THEN val[o] ELSE f[next[o]]
    <3>1. o \in 0 .. top
      OBVIOUS
    <3>2. o \notin halts => next[o] \in o + 1 .. top
      BY <3>1
    <3>3. o \notin halts => f[next[o]] = g[next[o]]
      BY <3>1, <3>2
    <3>4. CASE o = here
      BY <3>3, <3>4
    <3>5. CASE o # here
      <4>1. o \in here + 1 .. top
        BY <3>5
      <4>2. g[o] = IF o \in halts THEN val[o] ELSE g[next[o]]
        BY <2>2, <4>1 DEF IsWalk
      <4> QED  BY <3>3, <3>5, <4>2
    <3> QED  BY <3>4, <3>5
  <2>4. IsWalk(f, here, top, halts, val, next)
    <3>1. f = [o \in here .. top |-> f[o]]
      OBVIOUS
    <3> HIDE DEF f
    <3> QED  BY <2>3, <3>1 DEF IsWalk
  <2> QED  BY <1>2, <1>3, <2>4
<1> QED  BY <1>4, <1>5

(* The walk of dir_find is one.                                            *)
WalkEnds(dir, wanted) ==
    {o \in 0 .. dir.size + SECTOR :
        o >= dir.size \/ (o \in DOMAIN dir.records /\ dir.records[o].name \in wanted)}
Answers(dir) == [o \in 0 .. dir.size + SECTOR |-> IF o >= dir.size THEN dir.size ELSE o]
NextOf(dir) ==
    [o \in 0 .. dir.size + SECTOR |->
        IF o \notin DOMAIN dir.records THEN SectorAfter(o) ELSE o + dir.records[o].length]

Walks(f, dir, wanted) == IsWalk(f, 0, dir.size + SECTOR, WalkEnds(dir, wanted), Answers(dir), NextOf(dir))

LEMMA SectorEnds ==
    ASSUME NEW o \in Nat
    PROVE  /\ SectorAfter(o) \in o + 1 .. o + SECTOR
           /\ \A p \in o .. SectorAfter(o) - 1 : SectorAfter(p) = SectorAfter(o)
           /\ \A p \in o + 1 .. SectorAfter(o) - 1 : (p % SECTOR) # 0
<1>1. SECTOR \in Nat \ {0}
  BY IsoAssumption
<1>2. PICK q \in Nat : q = o \div SECTOR
  BY <1>1
<1>3. PICK r \in 0 .. SECTOR - 1 : r = (o % SECTOR)
  BY <1>1
<1>4. o = SECTOR * q + r
  BY <1>1, <1>2, <1>3
<1>5. SectorAfter(o) = SECTOR * q + SECTOR
  BY <1>1, <1>2 DEF SectorAfter
<1>6. SectorAfter(o) \in o + 1 .. o + SECTOR
  BY <1>1, <1>4, <1>5
<1>7. ASSUME NEW p \in o .. SectorAfter(o) - 1
      PROVE  SectorAfter(p) = SectorAfter(o) /\ (p # o => (p % SECTOR) # 0)
  <2>1. p \in Nat /\ p >= SECTOR * q + r /\ p < SECTOR * q + SECTOR
    BY <1>1, <1>4, <1>5
  <2>2. PICK k \in Nat : k = p \div SECTOR
    BY <1>1, <2>1
  <2>3. PICK x \in 0 .. SECTOR - 1 : x = (p % SECTOR)
    BY <1>1, <2>1
  <2>4. p = SECTOR * k + x
    BY <1>1, <2>1, <2>2, <2>3
  <2>5. k = q
    <3>1. SECTOR * k < SECTOR * (q + 1)
      BY <1>1, <2>1, <2>4
    <3>2. SECTOR * q < SECTOR * (k + 1)
      BY <1>1, <2>1, <2>4
    <3>3. k < q + 1
      BY <1>1, <3>1
    <3>4. q < k + 1
      BY <1>1, <3>2
    <3> QED  BY <3>3, <3>4
  <2>6. SectorAfter(p) = SectorAfter(o)
    BY <1>1, <1>2, <2>2, <2>5 DEF SectorAfter
  <2>7. p # o => x # 0
    BY <1>1, <1>4, <2>1, <2>4, <2>5
  <2> QED  BY <2>3, <2>6, <2>7
<1> QED  BY <1>6, <1>7

LEMMA NextIsOn ==
    ASSUME NEW dir, Directory(dir), NEW wanted, NEW o \in 0 .. dir.size + SECTOR, o \notin WalkEnds(dir, wanted)
    PROVE  /\ NextOf(dir)[o] \in o + 1 .. dir.size + SECTOR
           /\ NextOf(dir)[o] <= SectorAfter(o)
<1>1. SECTOR \in Nat /\ dir.size \in Nat /\ o \in Nat /\ o < dir.size
  BY IsoAssumption DEF WalkEnds, Directory
<1>2. PICK s \in o + 1 .. o + SECTOR : s = SectorAfter(o)
  BY <1>1, SectorEnds
<1>3. CASE o \in DOMAIN dir.records
  <2>1. dir.records[o].length \in 1 .. s - o
    BY <1>2, <1>3 DEF Directory
  <2>2. NextOf(dir)[o] = o + dir.records[o].length
    BY <1>3 DEF NextOf
  <2> QED  BY <1>1, <1>2, <2>1, <2>2
<1>4. CASE o \notin DOMAIN dir.records
  <2>1. NextOf(dir)[o] = s
    BY <1>2, <1>4 DEF NextOf
  <2> QED  BY <1>1, <1>2, <2>1
<1> QED  BY <1>3, <1>4

LEMMA WalkIs ==
    ASSUME NEW dir, Directory(dir), NEW wanted
    PROVE  \E f : Walks(f, dir, wanted) /\ Walk(dir, wanted) = f[0]
<1> DEFINE top  == dir.size + SECTOR
           Eq(f) == f = [o \in 0 .. top |->
                          IF o >= dir.size THEN dir.size
                          ELSE IF o \notin DOMAIN dir.records THEN f[PastPadding(o, dir)]
                          ELSE IF dir.records[o].name \in wanted THEN o
                          ELSE f[o + dir.records[o].length]]
           at == CHOOSE at : Eq(at)
<1>1. top \in Nat /\ dir.size \in Nat
  BY IsoAssumption DEF Directory
<1>2. ASSUME NEW f PROVE Walks(f, dir, wanted) <=> Eq(f)
  <2>1. ASSUME NEW o \in 0 .. top
        PROVE  (IF o \in WalkEnds(dir, wanted) THEN Answers(dir)[o] ELSE f[NextOf(dir)[o]])
                 = (IF o >= dir.size THEN dir.size
                    ELSE IF o \notin DOMAIN dir.records THEN f[PastPadding(o, dir)]
                    ELSE IF dir.records[o].name \in wanted THEN o
                    ELSE f[o + dir.records[o].length])
    BY <1>1 DEF WalkEnds, Answers, NextOf, PastPadding
  <2> QED  BY <2>1 DEF Walks, IsWalk
<1>3. \E f : Eq(f)
  <2>1. \A o \in 0 .. top : o \notin WalkEnds(dir, wanted) => NextOf(dir)[o] \in o + 1 .. top
    BY NextIsOn
  <2>2. \E f : Walks(f, dir, wanted)
    BY <1>1, <2>1, WalkExists DEF Walks
  <2> QED  BY <1>2, <2>2
<1>4. Eq(at)
  BY <1>3
<1>5. Walk(dir, wanted) = at[0]
  BY DEF Walk
<1> QED  BY <1>2, <1>4, <1>5

(* No record lies across an offset: then one begins there, or none does    *)
(* before the end of its sector.                                           *)
Clear(dir, o) == \A q \in DOMAIN dir.records : q < o => q + dir.records[q].length <= o

LEMMA RecordIs ==
    ASSUME NEW dir, Directory(dir), NEW p \in DOMAIN dir.records
    PROVE  p \in Nat /\ p < dir.size /\ dir.size \in Nat /\ dir.records[p].length \in Nat \ {0}
<1>1. dir.size \in Nat /\ p \in 0 .. dir.size - 1
  BY DEF Directory
<1>2. PICK s \in p + 1 .. p + SECTOR : s = SectorAfter(p)
  BY <1>1, SectorEnds
<1>3. dir.records[p].length \in 1 .. s - p /\ SECTOR \in Nat
  BY <1>2, IsoAssumption DEF Directory
<1> QED  BY <1>1, <1>2, <1>3

LEMMA Padding ==
    ASSUME NEW dir, Directory(dir), NEW o \in Nat, Clear(dir, o), o \notin DOMAIN dir.records
    PROVE  \A p \in DOMAIN dir.records : p \notin o .. SectorAfter(o) - 1
<1> DEFINE S == {p \in DOMAIN dir.records : p \in o .. SectorAfter(o) - 1}
<1>1. SUFFICES ASSUME S # {} PROVE FALSE
  BY <1>1
<1>2. S \subseteq Nat
  BY RecordIs
<1>3. PICK p \in S : \A q \in S : p <= q
  <2> HIDE DEF S
  <2> QED  BY <1>1, <1>2, HasLeast
<1>4. p \in o + 1 .. SectorAfter(o) - 1 /\ p \in Nat /\ p \in DOMAIN dir.records
  <2>1. PICK s \in o + 1 .. o + SECTOR : s = SectorAfter(o)
    BY SectorEnds
  <2>2. p \in o .. s - 1 /\ p # o
    BY <2>1
  <2> QED  BY <1>2, <2>1, <2>2
<1>5. (p % SECTOR) # 0
  BY <1>4, SectorEnds
<1>6. PICK q \in DOMAIN dir.records : p = q + dir.records[q].length
  BY <1>4, <1>5 DEF Directory
<1>7. q \in Nat /\ dir.records[q].length \in Nat \ {0}
  BY RecordIs
<1>8. q < p
  BY <1>6, <1>7
<1>9. ~ q < o
  BY <1>4, <1>6 DEF Clear
<1>10. q \in S
  <2>1. PICK s \in o + 1 .. o + SECTOR : s = SectorAfter(o)
    BY SectorEnds
  <2> QED  BY <1>4, <1>7, <1>8, <1>9, <2>1
<1> QED  BY <1>3, <1>4, <1>7, <1>8, <1>10

(* The walk's next offset is clear too, and no record lies between.        *)
LEMMA NextIsClear ==
    ASSUME NEW dir, Directory(dir), NEW wanted, NEW o \in 0 .. dir.size + SECTOR,
           o \notin WalkEnds(dir, wanted), Clear(dir, o)
    PROVE  /\ Clear(dir, NextOf(dir)[o])
           /\ \A p \in DOMAIN dir.records : o < p => NextOf(dir)[o] <= p
<1>1. o \in Nat /\ SECTOR \in Nat /\ dir.size \in Nat
  BY IsoAssumption DEF Directory
<1>2. CASE o \in DOMAIN dir.records
  <2>1. NextOf(dir)[o] = o + dir.records[o].length
    BY <1>2 DEF NextOf
  <2>2. PICK l \in Nat \ {0} : l = dir.records[o].length
    BY <1>2, RecordIs
  <2>3. ASSUME NEW p \in DOMAIN dir.records, o < p PROVE o + l <= p
    <3>1. p \in Nat /\ ~ (o < p /\ p < o + dir.records[o].length)
      BY <1>2, RecordIs DEF Directory
    <3> QED  BY <1>1, <2>2, <2>3, <3>1
  <2>4. ASSUME NEW q \in DOMAIN dir.records, q < o + l PROVE q + dir.records[q].length <= o + l
    <3>1. q \in Nat /\ dir.records[q].length \in Nat
      BY RecordIs
    <3>2. CASE q = o
      BY <1>1, <2>2, <3>2
    <3>3. CASE q < o
      <4>1. q + dir.records[q].length <= o
        BY <3>3 DEF Clear
      <4> QED  BY <1>1, <2>2, <3>1, <4>1
    <3>4. CASE o < q
      BY <1>1, <2>2, <2>3, <2>4, <3>1, <3>4
    <3> QED  BY <1>1, <3>1, <3>2, <3>3, <3>4
  <2> QED  BY <2>1, <2>2, <2>3, <2>4 DEF Clear
<1>3. CASE o \notin DOMAIN dir.records
  <2>1. PICK s \in o + 1 .. o + SECTOR : s = SectorAfter(o)
    BY <1>1, SectorEnds
  <2>2. NextOf(dir)[o] = s
    BY <1>3, <2>1 DEF NextOf
  <2>3. \A p \in DOMAIN dir.records : p \notin o .. s - 1
    BY <1>1, <1>3, <2>1, Padding
  <2>4. ASSUME NEW p \in DOMAIN dir.records, o < p PROVE s <= p
    <3>1. p \in Nat
      BY RecordIs
    <3> QED  BY <1>1, <2>1, <2>3, <2>4, <3>1
  <2>5. ASSUME NEW q \in DOMAIN dir.records, q < s PROVE q + dir.records[q].length <= s
    <3>1. q \in Nat /\ dir.records[q].length \in Nat
      BY RecordIs
    <3>2. q < o
      BY <1>1, <2>1, <2>3, <2>5, <3>1
    <3>3. q + dir.records[q].length <= o
      BY <3>2 DEF Clear
    <3> QED  BY <1>1, <2>1, <3>1, <3>3
  <2> QED  BY <2>2, <2>4, <2>5 DEF Clear
<1> QED  BY <1>2, <1>3

(* dir_find's walk ends at the record of the name, and past the directory  *)
(* when it has none.                                                       *)
LEMMA WalkFinds ==
    ASSUME NEW dir, Directory(dir), NEW name, NEW w \in Named(dir, name)
    PROVE  Walk(dir, {name}) = w
<1>1. PICK f : Walks(f, dir, {name}) /\ Walk(dir, {name}) = f[0]
  BY WalkIs
<1> DEFINE top == dir.size + SECTOR
           Bad == {n \in 0 .. w : Clear(dir, w - n) /\ f[w - n] # w}
<1>2. /\ w \in DOMAIN dir.records /\ dir.records[w].name = name /\ w \in Nat /\ w < dir.size
      /\ dir.size \in Nat /\ SECTOR \in Nat
  BY RecordIs, IsoAssumption DEF Named
<1>3. \A o \in 0 .. top : f[o] = IF o \in WalkEnds(dir, {name}) THEN Answers(dir)[o] ELSE f[NextOf(dir)[o]]
  BY <1>1 DEF Walks, IsWalk
<1>4. Bad = {}
  <2>1. SUFFICES ASSUME Bad # {} PROVE FALSE
    OBVIOUS
  <2>2. PICK n \in Bad : \A m \in Bad : n <= m
    <3>1. Bad \subseteq Nat
      BY <1>2
    <3> HIDE DEF Bad
    <3> QED  BY <2>1, <3>1, HasLeast
  <2>3. PICK o \in 0 .. w : o = w - n
    BY <1>2
  <2>4. o \in 0 .. top /\ o < dir.size /\ Clear(dir, o) /\ f[o] # w
    BY <1>2, <2>2, <2>3
  <2>5. o # w
    <3>1. ASSUME o = w PROVE FALSE
      <4>1. w \in WalkEnds(dir, {name}) /\ Answers(dir)[w] = w
        BY <1>2, <2>4, <3>1 DEF WalkEnds, Answers
      <4> QED  BY <1>3, <2>4, <3>1, <4>1
    <3> QED  BY <3>1
  <2>6. o \notin WalkEnds(dir, {name})
    <3>1. ASSUME o \in DOMAIN dir.records, dir.records[o].name = name PROVE FALSE
      BY <1>2, <2>5, <3>1 DEF Directory
    <3> QED  BY <1>2, <2>4, <3>1 DEF WalkEnds
  <2>7. PICK o2 \in o + 1 .. top : o2 = NextOf(dir)[o]
    BY <2>4, <2>6, NextIsOn
  <2>8. Clear(dir, o2) /\ o2 <= w
    <3>1. o < w
      BY <1>2, <2>5
    <3> QED  BY <1>2, <2>4, <2>6, <2>7, <3>1, NextIsClear
  <2>9. f[o] = f[o2]
    BY <1>3, <2>4, <2>6, <2>7
  <2>10. w - o2 \in 0 .. w /\ w - (w - o2) = o2 /\ ~ n <= w - o2
    BY <1>2, <2>3, <2>7, <2>8
  <2> QED  BY <2>2, <2>4, <2>8, <2>9, <2>10
<1>5. w \in 0 .. w /\ w - w = 0 /\ Clear(dir, 0)
  BY <1>2, RecordIs DEF Clear
<1> QED  BY <1>1, <1>4, <1>5

LEMMA WalkMisses ==
    ASSUME NEW dir, Directory(dir), NEW name, Named(dir, name) = {}
    PROVE  Walk(dir, {name}) \notin DOMAIN dir.records
<1>1. PICK f : Walks(f, dir, {name}) /\ Walk(dir, {name}) = f[0]
  BY WalkIs
<1>2. dir.size \in Nat /\ SECTOR \in Nat /\ \A o \in DOMAIN dir.records : dir.records[o].name # name
  BY IsoAssumption DEF Named, Directory
<1>3. PICK top \in Nat : top = dir.size + SECTOR
  BY <1>2
<1> DEFINE Bad == {n \in 0 .. top : f[top - n] # dir.size}
<1>4. \A o \in 0 .. top : f[o] = IF o \in WalkEnds(dir, {name}) THEN Answers(dir)[o] ELSE f[NextOf(dir)[o]]
  BY <1>1, <1>3 DEF Walks, IsWalk
<1>5. Bad = {}
  <2>1. SUFFICES ASSUME Bad # {} PROVE FALSE
    OBVIOUS
  <2>2. PICK n \in Bad : \A m \in Bad : n <= m
    <3>1. Bad \subseteq Nat
      OBVIOUS
    <3> HIDE DEF Bad
    <3> QED  BY <2>1, <3>1, HasLeast
  <2>3. PICK o \in 0 .. top : o = top - n /\ f[o] # dir.size
    BY <2>2
  <2>4. o \notin WalkEnds(dir, {name})
    <3>1. ASSUME o \in WalkEnds(dir, {name}) PROVE FALSE
      <4>1. o >= dir.size
        BY <1>2, <3>1 DEF WalkEnds
      <4>2. Answers(dir)[o] = dir.size
        BY <1>3, <2>3, <4>1 DEF Answers
      <4> QED  BY <1>4, <2>3, <3>1, <4>2
    <3> QED  BY <3>1
  <2>5. PICK o2 \in o + 1 .. top : o2 = NextOf(dir)[o]
    BY <1>3, <2>4, NextIsOn
  <2>6. f[o2] # dir.size
    BY <1>4, <2>3, <2>4, <2>5
  <2>7. top - o2 \in 0 .. top /\ top - (top - o2) = o2 /\ ~ n <= top - o2
    BY <2>3, <2>5
  <2> QED  BY <2>2, <2>6, <2>7
<1>6. top \in 0 .. top /\ top - top = 0
  OBVIOUS
<1>7. f[0] = dir.size
  BY <1>5, <1>6
<1>8. dir.size \notin DOMAIN dir.records
  BY <1>2, RecordIs
<1> QED  BY <1>1, <1>7, <1>8

-----------------------------------------------------------------------------
(* A name is looked up as the tree has it.                                 *)
LEMMA DirFindIs ==
    ASSUME NEW dir, Directory(dir), NEW name
    PROVE  DirFind(dir, name) =
             IF Named(dir, name) = {} THEN Absent
             ELSE dir.records[CHOOSE o \in Named(dir, name) : TRUE]
<1>1. CASE Named(dir, name) = {}
  BY <1>1, WalkMisses DEF DirFind
<1>2. CASE Named(dir, name) # {}
  <2>1. PICK w : w = CHOOSE o \in Named(dir, name) : TRUE
    OBVIOUS
  <2>2. w \in Named(dir, name)
    BY <1>2, <2>1
  <2>3. Walk(dir, {name}) = w /\ w \in DOMAIN dir.records
    BY <2>2, WalkFinds DEF Named
  <2> QED  BY <1>2, <2>1, <2>3 DEF DirFind
<1> QED  BY <1>1, <1>2

LEMMA DetectIs ==
    ASSUME NEW d \in Discs
    PROVE  Detect(d) = Volume(d)
<1> DEFINE root == d.directories[d.volumes[PVD]]
<1>1. Directory(root)
  BY IsoAssumption
<1> HIDE DEF root
<1>2. CASE Named(root, Wrapper) = {}
  BY <1>1, <1>2, WalkMisses DEF Detect, Volume, root
<1>3. CASE Named(root, Wrapper) # {}
  <2>1. PICK w : w = CHOOSE o \in Named(root, Wrapper) : TRUE
    OBVIOUS
  <2>2. w \in Named(root, Wrapper)
    BY <1>3, <2>1
  <2>3. Walk(root, {Wrapper}) = w /\ w \in DOMAIN root.records
    BY <1>1, <2>2, WalkFinds DEF Named
  <2> QED  BY <1>3, <2>1, <2>3 DEF Detect, Volume, root
<1> QED  BY <1>2, <1>3

(* What the tree leads to: nothing, a file, or one of its directories.     *)
InsideTree(d, tree, at) == at = Absent \/ ~ at.isdir \/ Volume(d) + at.lba \in tree
IsTree(d, tree) ==
    /\ tree \subseteq DOMAIN d.directories
    /\ InsideTree(d, tree, Root(d, Volume(d)))
    /\ \A k \in tree : \A o \in DOMAIN d.directories[k].records :
          InsideTree(d, tree, d.directories[k].records[o])

LEMMA TreeIs == ASSUME NEW d \in Discs PROVE \E tree : IsTree(d, tree)
BY IsoAssumption DEF IsTree, InsideTree, Root

LEMMA ChildIs ==
    ASSUME NEW d \in Discs, NEW tree, IsTree(d, tree), NEW at, InsideTree(d, tree, at), NEW name
    PROVE  Below(d, Volume(d), at, name) = Child(d, at, name) /\ InsideTree(d, tree, Child(d, at, name))
<1>1. CASE at = Absent \/ ~ at.isdir
  BY <1>1 DEF Below, Child, InsideTree
<1>2. CASE ~ (at = Absent \/ ~ at.isdir)
  <2>1. PICK k : k = Volume(d) + at.lba
    OBVIOUS
  <2>2. k \in tree /\ k \in DOMAIN d.directories
    BY <1>2, <2>1 DEF InsideTree, IsTree
  <2> DEFINE dir == d.directories[k]
  <2>3. Directory(dir)
    BY <2>2, IsoAssumption
  <2>4. \A o \in DOMAIN dir.records : InsideTree(d, tree, dir.records[o])
    BY <2>2 DEF IsTree
  <2> HIDE DEF dir
  <2>5. Below(d, Volume(d), at, name) = DirFind(dir, name)
    BY <1>2, <2>1 DEF Below, dir
  <2>6. Child(d, at, name) = IF Named(dir, name) = {} THEN Absent
                             ELSE dir.records[CHOOSE o \in Named(dir, name) : TRUE]
    BY <1>2, <2>1 DEF Child, dir
  <2>7. CASE Named(dir, name) = {}
    <3>1. Child(d, at, name) = Absent
      BY <2>6, <2>7
    <3> QED  BY <2>3, <2>5, <2>6, <3>1, DirFindIs DEF InsideTree
  <2>8. CASE Named(dir, name) # {}
    <3>1. PICK w : w = CHOOSE o \in Named(dir, name) : TRUE
      OBVIOUS
    <3>2. w \in DOMAIN dir.records
      BY <2>8, <3>1 DEF Named
    <3>3. Child(d, at, name) = dir.records[w]
      BY <2>6, <2>8, <3>1
    <3> QED  BY <2>3, <2>4, <2>5, <2>6, <3>2, <3>3, DirFindIs
  <2> QED  BY <2>7, <2>8
<1> QED  BY <1>1, <1>2

(* A path's entries, one for each name, as the code and as the tree has    *)
(* them.                                                                   *)
IsLookup(f, d, path, n) ==
    f = [i \in 0 .. n |-> IF i = 0 THEN Root(d, Volume(d)) ELSE Below(d, Volume(d), f[i - 1], path[i])]
IsPath(f, d, path, n) ==
    f = [i \in 0 .. n |-> IF i = 0 THEN Root(d, Volume(d)) ELSE Child(d, f[i - 1], path[i])]

LEMMA PathExists ==
    ASSUME NEW d, NEW path, NEW depth \in Nat
    PROVE  \E f : IsPath(f, d, path, depth)
<1> DEFINE Bad == {n \in Nat : ~ \E f : IsPath(f, d, path, n)}
<1>1. SUFFICES ASSUME Bad # {} PROVE FALSE
  OBVIOUS
<1>2. PICK n \in Bad : \A m \in Bad : n <= m
  <2>1. Bad \subseteq Nat
    OBVIOUS
  <2> HIDE DEF Bad
  <2> QED  BY <1>1, <2>1, HasLeast
<1>3. CASE n = 0
  <2> DEFINE f == [i \in 0 .. 0 |-> Root(d, Volume(d))]
  <2>1. IsPath(f, d, path, 0)
    BY DEF IsPath
  <2> QED  BY <1>2, <1>3, <2>1
<1>4. CASE n # 0
  <2>1. n - 1 \in Nat /\ ~ n <= n - 1
    BY <1>4
  <2>2. PICK g : IsPath(g, d, path, n - 1)
    BY <1>2, <2>1
  <2> DEFINE f == [i \in 0 .. n |-> IF i < n THEN g[i] ELSE Child(d, g[n - 1], path[n])]
  <2>3. ASSUME NEW i \in 0 .. n
        PROVE  f[i] = IF i = 0 THEN Root(d, Volume(d)) ELSE Child(d, f[i - 1], path[i])
    <3>1. CASE i < n
      <4>1. i \in 0 .. n - 1
        BY <3>1
      <4>2. g[i] = IF i = 0 THEN Root(d, Volume(d)) ELSE Child(d, g[i - 1], path[i])
        BY <2>2, <4>1 DEF IsPath
      <4>3. f[i] = g[i] /\ (i # 0 => f[i - 1] = g[i - 1])
        BY <3>1
      <4> QED  BY <4>2, <4>3
    <3>2. CASE i = n
      <4>1. n - 1 \in 0 .. n /\ n - 1 < n /\ ~ i < n
        BY <1>4, <3>2
      <4>2. f[i] = Child(d, g[n - 1], path[n]) /\ f[n - 1] = g[n - 1]
        BY <4>1
      <4> QED  BY <1>4, <3>2, <4>2
    <3> QED  BY <3>1, <3>2
  <2>4. IsPath(f, d, path, n)
    <3>1. f = [i \in 0 .. n |-> f[i]]
      OBVIOUS
    <3> HIDE DEF f
    <3> QED  BY <2>3, <3>1 DEF IsPath
  <2> QED  BY <1>2, <2>4
<1> QED  BY <1>3, <1>4

LEMMA PathIsLookup ==
    ASSUME NEW d \in Discs, NEW path, NEW depth \in Nat, NEW f, IsPath(f, d, path, depth)
    PROVE  IsLookup(f, d, path, depth)
<1>1. PICK tree : IsTree(d, tree)
  BY TreeIs
<1>2. \A i \in 0 .. depth : f[i] = IF i = 0 THEN Root(d, Volume(d)) ELSE Child(d, f[i - 1], path[i])
  BY DEF IsPath
<1> DEFINE Bad == {i \in 0 .. depth : ~ InsideTree(d, tree, f[i])}
<1>3. Bad = {}
  <2>1. SUFFICES ASSUME Bad # {} PROVE FALSE
    OBVIOUS
  <2>2. PICK i \in Bad : \A m \in Bad : i <= m
    <3>1. Bad \subseteq Nat
      OBVIOUS
    <3> HIDE DEF Bad
    <3> QED  BY <2>1, <3>1, HasLeast
  <2>3. i # 0
    <3>1. f[0] = Root(d, Volume(d))
      BY <1>2
    <3> QED  BY <1>1, <2>2, <3>1 DEF IsTree
  <2>4. i - 1 \in 0 .. depth /\ ~ i <= i - 1
    BY <2>3
  <2>5. InsideTree(d, tree, f[i - 1])
    BY <2>2, <2>4
  <2>6. f[i] = Child(d, f[i - 1], path[i])
    BY <1>2, <2>3
  <2> QED  BY <1>1, <2>2, <2>5, <2>6, ChildIs
<1>4. ASSUME NEW i \in 0 .. depth, i # 0
      PROVE  Child(d, f[i - 1], path[i]) = Below(d, Volume(d), f[i - 1], path[i])
  <2>1. i - 1 \in 0 .. depth
    BY <1>4
  <2>2. InsideTree(d, tree, f[i - 1])
    BY <1>3, <2>1
  <2> QED  BY <1>1, <2>2, ChildIs
<1> QED  BY <1>4 DEF IsPath, IsLookup

LEMMA LookupUnique ==
    ASSUME NEW d, NEW path, NEW depth \in Nat, NEW f, NEW g,
           IsLookup(f, d, path, depth), IsLookup(g, d, path, depth)
    PROVE  f = g
<1>1. \A i \in 0 .. depth :
        /\ f[i] = IF i = 0 THEN Root(d, Volume(d)) ELSE Below(d, Volume(d), f[i - 1], path[i])
        /\ g[i] = IF i = 0 THEN Root(d, Volume(d)) ELSE Below(d, Volume(d), g[i - 1], path[i])
  BY DEF IsLookup
<1> DEFINE Bad == {i \in 0 .. depth : f[i] # g[i]}
<1>2. Bad = {}
  <2>1. SUFFICES ASSUME Bad # {} PROVE FALSE
    OBVIOUS
  <2>2. PICK i \in Bad : \A m \in Bad : i <= m
    <3>1. Bad \subseteq Nat
      OBVIOUS
    <3> HIDE DEF Bad
    <3> QED  BY <2>1, <3>1, HasLeast
  <2>3. i # 0
    BY <1>1, <2>2
  <2>4. i - 1 \in 0 .. depth /\ ~ i <= i - 1
    BY <2>3
  <2>5. f[i - 1] = g[i - 1]
    BY <2>2, <2>4
  <2> QED  BY <1>1, <2>2, <2>3, <2>5
<1>3. f = [i \in 0 .. depth |-> f[i]] /\ g = [i \in 0 .. depth |-> g[i]]
  <2>1. f = [i \in 0 .. depth |-> IF i = 0 THEN Root(d, Volume(d)) ELSE Below(d, Volume(d), f[i - 1], path[i])]
    BY DEF IsLookup
  <2>2. g = [i \in 0 .. depth |-> IF i = 0 THEN Root(d, Volume(d)) ELSE Below(d, Volume(d), g[i - 1], path[i])]
    BY DEF IsLookup
  <2> QED  BY <1>1, <2>1, <2>2
<1> QED  BY <1>2, <1>3

LEMMA LookupIs ==
    ASSUME NEW d \in Discs, NEW path \in Paths
    PROVE  IsoLookup(d, Volume(d), path) = InTree(d, path)
<1>1. PICK depth \in Nat : depth = Len(path)
  BY IsoAssumption
<1> DEFINE p == CHOOSE f : IsPath(f, d, path, Len(path))
           l == CHOOSE f : IsLookup(f, d, path, Len(path))
<1>2. IsPath(p, d, path, depth)
  BY <1>1, PathExists
<1>3. IsLookup(p, d, path, depth)
  <2> HIDE DEF p
  <2> QED  BY <1>2, PathIsLookup
<1>4. IsLookup(l, d, path, depth)
  <2>1. \E f : IsLookup(f, d, path, Len(path))
    BY <1>1, <1>3
  <2> QED  BY <1>1, <2>1
<1>5. p = l
  <2> HIDE DEF p, l
  <2> QED  BY <1>3, <1>4, LookupUnique
<1>6. InTree(d, path) = p[Len(path)]
  BY DEF InTree, IsPath
<1>7. IsoLookup(d, Volume(d), path) = l[Len(path)]
  BY DEF IsoLookup, IsLookup
<1> QED  BY <1>5, <1>6, <1>7

-----------------------------------------------------------------------------
(* The image opened is read through its volume's offset, and the last path *)
(* looked up was found as the tree has it.                                 *)
IsoInv ==
    /\ image \in Discs /\ opened \in BOOLEAN
    /\ opened => offset = Volume(image)
    /\ ~ opened => asked = <<>> /\ raw = Absent
    /\ FoundByName

LEMMA IsoInitInv == IsoInit => IsoInv
<1> SUFFICES ASSUME IsoInit PROVE IsoInv
  OBVIOUS
<1>1. image \in Discs
  <2>1. Discs # {}
    BY IsoAssumption
  <2> QED  BY <2>1 DEF IsoInit
<1> QED  BY <1>1 DEF IsoInit, IsoInv, FoundByName

LEMMA IsoStep == IsoInv /\ [IsoNext]_isoVars => IsoInv'
<1> SUFFICES ASSUME IsoInv, [IsoNext]_isoVars PROVE IsoInv'
  OBVIOUS
<1>1. ASSUME NEW d \in Discs, OpenDisc(d) PROVE IsoInv'
  BY <1>1, DetectIs DEF OpenDisc, IsoInv, FoundByName
<1>2. ASSUME NEW path \in Paths, LookupPath(path) PROVE IsoInv'
  <2>1. IsoLookup(image, offset, path) = InTree(image, path)
    BY <1>2, LookupIs DEF LookupPath, IsoInv
  <2> QED  BY <1>2, <2>1 DEF LookupPath, IsoInv, FoundByName
<1>3. ASSUME NEW sce \in RawPaths, LookupRaw(sce) PROVE IsoInv'
  BY <1>3 DEF LookupRaw, IsoInv, FoundByName
<1>4. CASE UNCHANGED isoVars
  BY <1>4 DEF isoVars, IsoInv, FoundByName
<1> QED  BY <1>1, <1>2, <1>3, <1>4 DEF IsoNext

(* Whatever is on the disc and whichever disc is inside it, a path leads   *)
(* where the tree says, and a raw one to its sector of that disc           *)
(* (iso.c 23-56, 99-164).                                                  *)
THEOREM PathsAreFound == IsoSpec => []FoundByName
<1>1. IsoInv => FoundByName
  BY DEF IsoInv
<1> QED
  BY IsoInitInv, IsoStep, <1>1, PTL DEF IsoSpec
=============================================================================
