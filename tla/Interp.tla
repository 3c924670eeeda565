------------------------------- MODULE Interp -------------------------------
(***************************************************************************)
(* The reference interpreter of src/ref/interp.cpp: how Run and Execute    *)
(* move from one instruction to the next (delay slots, branch-likely,      *)
(* links, stops) and what the trace they leave says, which the             *)
(* differential tests compare with the recompiled code's.                  *)
(*                                                                         *)
(* An address is counted in instructions where it is a program counter and *)
(* in bytes where it is data.  What an instruction computes, and whether a *)
(* branch's condition holds, is left open here; module Allegrex says what  *)
(* the arithmetic gives.  What the program holds at an address is any      *)
(* instruction, at each visit.                                             *)
(***************************************************************************)
EXTENDS Integers

CONSTANTS
    CodeSize,           \* instructions in RAM: fetching beyond is a fault
    MemSize,            \* data bytes in RAM
    CpuResults          \* what the arithmetic may give

ASSUME InterpAssumption ==
    CodeSize \in Nat \ {0} /\ MemSize \in Nat \ {0} /\ CpuResults \subseteq Nat

VARIABLES
    hart,                \* r, pc, next_pc, in_delay_slot, fpcond
    mem, fault,         \* data memory; Memory::fault_, never cleared
    stop,               \* why Run returned
    trail,              \* history: the last instruction and the branch before it
    legal,              \* history: no branch has run in a delay slot
    replay              \* history: the trace's lines applied to the start

interpVars == <<hart, mem, fault, stop, trail, legal, replay>>

Running == "running"
NoJump  == -1
None    == [pc |-> NoJump, to |-> NoJump, annuls |-> FALSE, due |-> NoJump]
RegNums == {0, 1, 31}
Bytes   == {0, 1}
Targets == 0 .. CodeSize

InterpInit ==
    /\ hart = [r |-> [i \in RegNums |-> 0], pc |-> 0, next |-> 0, slot |-> FALSE, fpcond |-> FALSE]
    /\ mem = [a \in 0 .. MemSize - 1 |-> 0]
    /\ fault = FALSE /\ stop = Running /\ trail = None /\ legal = TRUE
    /\ replay = [r |-> hart.r, mem |-> mem]

(* SetR: register 0 discards what is written to it.                        *)
SetR(r, i, v) == IF i = 0 THEN r ELSE [r EXCEPT ![i] = v]

(* The registers with a sequential instruction's result.                   *)
Advance(r) == [hart EXCEPT !.r = r, !.pc = @ + 1]

(* take_branch and skip_likely: a taken branch lets the next instruction   *)
(* (its delay slot) run first; a branch-likely not taken skips it.         *)
Branch(to, taken) ==
    IF taken THEN [hart EXCEPT !.pc = @ + 1, !.next = to, !.slot = TRUE]
             ELSE [hart EXCEPT !.pc = @ + 1]

NoAnnul(to, taken) == Branch(to, taken)  \* variant: the slot runs anyway

Likely(to, taken) ==
    IF taken THEN Branch(to, TRUE) ELSE [hart EXCEPT !.pc = @ + 2]

(* jal, bltzal, bgezal, jalr: the link is the instruction after the slot.  *)
LinkPc == hart.pc + 2

Linked(c, rd) == [c EXCEPT !.r = SetR(hart.r, rd, LinkPc)]

(* The end of a step of Run: a jump that was due when the instruction      *)
(* began is made now.                                                      *)
JumpAtOnce(c, wasSlot) ==            \* variant: without was_in_delay_slot
    IF c.slot THEN [c EXCEPT !.pc = c.next, !.slot = FALSE] ELSE c

Settled(c, wasSlot) ==
    IF c.slot /\ wasSlot THEN [c EXCEPT !.pc = c.next, !.slot = FALSE] ELSE c

(***************************************************************************)
(* Memory: an access outside RAM reads 0 or is dropped, and is a fault.    *)
(***************************************************************************)
InRam(a, size) == a + size <= MemSize
Touched(a, size) == IF InRam(a, size) THEN a .. a + size - 1 ELSE {}

(* StoreInfo: the address and size of a store, 0 for any other             *)
(* instruction.                                                            *)
NarrowStoreInfo(i) ==                \* variant: a word's second half is left out
    IF i.op = "store" THEN [a |-> i.a, size |-> 1] ELSE [a |-> 0, size |-> 0]

StoreInfo(i) ==
    IF i.op = "store" THEN [a |-> i.a, size |-> i.size] ELSE [a |-> 0, size |-> 0]

(* TraceSink: BeginStep keeps the registers, EndStep writes a line with    *)
(* those that changed and with the stored bytes read back.                 *)
Line(old, new, info, newMem) ==
    [r   |-> [i \in {i \in RegNums \ {0} : new[i] # old[i]} |-> new[i]],
     mem |-> [a \in Touched(info.a, info.size) |-> newMem[a]]]

Applied(line) ==
    [r   |-> [i \in RegNums |-> IF i \in DOMAIN line.r THEN line.r[i] ELSE replay.r[i]],
     mem |-> [a \in DOMAIN replay.mem |->
                 IF a \in DOMAIN line.mem THEN line.mem[a] ELSE replay.mem[a]]]

(***************************************************************************)
(* One turn of Run.  The trail keeps where the last instruction was and,   *)
(* if it was a taken branch, where to; and the same of the one before.     *)
(***************************************************************************)
Entry(i, pc) == [pc     |-> pc,
                 to     |-> IF i.op = "branch" /\ i.taken THEN i.to ELSE NoJump,
                 annuls |-> i.likely /\ ~ i.taken,
                 due    |-> trail.to]

Ends(i, c, newMem, newFault, why) ==
    /\ stop = Running /\ hart.pc < CodeSize
    /\ hart' = Settled(c, hart.slot)
    /\ mem' = newMem /\ fault' = newFault
    /\ stop' = IF newFault THEN "fault" ELSE why
    /\ replay' = Applied(Line(hart.r, c.r, StoreInfo(i), newMem))
    /\ trail' = Entry(i, hart.pc)
    /\ legal' = (legal /\ ~ (hart.slot /\ i.op = "branch"))

Instr(op) == [op |-> op, to |-> 0, taken |-> FALSE, likely |-> FALSE, a |-> 0, size |-> 0]

Steps(i, c) == Ends(i, c, mem, fault, Running)

(* Arithmetic, moves, c.cond.s; break is passed over.                      *)
Compute == \E rd \in RegNums, v \in CpuResults :
    Steps(Instr("compute"), Advance(SetR(hart.r, rd, v)))

CompareFp == \E b \in BOOLEAN :
    Steps(Instr("compute"), [Advance(hart.r) EXCEPT !.fpcond = b])

Break == Steps(Instr("compute"), Advance(hart.r))

(* Conditional branches on registers, and bc1f, bc1t, bc1fl, bc1tl on      *)
(* fpcond; bltzal and bgezal link whether or not they are taken.           *)
ConditionalBranch == \E to \in Targets, taken, likely \in BOOLEAN, link \in {0, 31} :
    /\ likely => link = 0
    /\ Steps([Instr("branch") EXCEPT !.to = to, !.taken = taken, !.likely = likely],
             Linked(IF likely THEN Likely(to, taken) ELSE Branch(to, taken), link))

FpBranch == \E to \in Targets, tf, likely \in BOOLEAN : LET taken == hart.fpcond = tf IN
    Steps([Instr("branch") EXCEPT !.to = to, !.taken = taken, !.likely = likely],
          IF likely THEN Likely(to, taken) ELSE Branch(to, taken))

(* j, jal, jr and jalr; jalr links before it reads its target.             *)
Jump == \E to \in Targets, link \in {0, 31} :
    Steps([Instr("branch") EXCEPT !.to = to, !.taken = TRUE], Linked(Branch(to, TRUE), link))

JumpRegister == \E rs \in RegNums, rd \in RegNums :
    LET to == SetR(hart.r, rd, LinkPc)[rs]
    IN  Steps([Instr("branch") EXCEPT !.to = to, !.taken = TRUE], Linked(Branch(to, TRUE), rd))

Load == \E rd \in RegNums, a \in 0 .. MemSize :
    Ends(Instr("load"), Advance(SetR(hart.r, rd, IF InRam(a, 1) THEN mem[a] ELSE 0)),
         mem, fault \/ ~ InRam(a, 1), Running)

Store == \E a \in 0 .. MemSize, size \in {1, 2}, v \in Bytes :
    Ends([Instr("store") EXCEPT !.a = a, !.size = size], Advance(hart.r),
         [b \in DOMAIN mem |-> IF b \in Touched(a, size) THEN v ELSE mem[b]],
         fault \/ ~ InRam(a, size), Running)

(* A syscall ends the run, and so does an instruction not implemented.     *)
Stops == \E why \in {"syscall", "unimplemented"} :
    Ends(Instr("stop"), Advance(hart.r), mem, fault, why)

(* Fetching outside RAM ends the run before anything is traced.            *)
FetchFaults ==
    /\ stop = Running /\ hart.pc >= CodeSize
    /\ fault' = TRUE /\ stop' = "fault"
    /\ UNCHANGED <<hart, mem, trail, legal, replay>>

InterpNext ==
    \/ Compute \/ CompareFp \/ Break
    \/ ConditionalBranch \/ FpBranch \/ Jump \/ JumpRegister
    \/ Load \/ Store \/ Stops \/ FetchFaults

InterpSpec == InterpInit /\ [][InterpNext]_interpVars

(***************************************************************************)
(* The order of execution is MIPS's, in a program with no branch in a      *)
(* delay slot: an instruction follows the one before it, except that a     *)
(* taken branch is followed by its slot and then by its target, and that a *)
(* branch-likely not taken is followed by the instruction after its slot.  *)
(***************************************************************************)
NextPc ==
    IF trail.due # NoJump THEN trail.due
    ELSE IF trail.annuls THEN trail.pc + 2
    ELSE trail.pc + 1

FlowsAsMips == legal => hart.pc = NextPc

(* The trace is complete: whoever applies its lines to the state the run   *)
(* started from has the registers and the memory of the interpreter after  *)
(* every instruction (BeginStep, EndStep and StoreInfo, which reads the    *)
(* address before the instruction runs and the bytes after it).            *)
TraceReplays == replay = [r |-> hart.r, mem |-> mem]

(* The interpreter runs a program as the architecture says, and the trace  *)
(* it leaves is enough to repeat it.                                       *)
InterpreterFaithful == FlowsAsMips /\ TraceReplays
=============================================================================
