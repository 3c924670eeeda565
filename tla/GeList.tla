------------------------------- MODULE GeList -------------------------------
(***************************************************************************)
(* The display-list interpreter of ge.c (ge_run_list_inner): where the     *)
(* next command comes from, and where the words a list carries land in the *)
(* register file.  What a list holds at an address is left open (any       *)
(* command of the kind under study), so that every list is covered.        *)
(*                                                                         *)
(* The address space, the subroutine stack (32 levels in the code), the    *)
(* number of commands one list may take (2^20 in the code) and the sizes   *)
(* of the matrices are constants.  A register's word is represented by the *)
(* place it was meant for.                                                 *)
(***************************************************************************)
EXTENDS Integers, Sequences, SequencesExt

CONSTANTS
    SEGMENT,            \* words an address's data part spans (2^24 in the code)
    Segments,           \* segments of the guest's address space
    STACK,              \* subroutine levels
    GUARD,              \* commands one list may take
    Starts,             \* where a game enqueues lists
    Words,              \* data words
    MatrixSize,         \* matrix -> number of elements
    NumberMask,         \* matrix -> largest value its cursor can be set to
    Lights              \* light sources

ASSUME GeListAssumption ==
    /\ SEGMENT \in Nat \ {0} /\ Segments \in Nat \ {0}
    /\ STACK \in Nat \ {0} /\ GUARD \in Nat
    /\ Starts \subseteq 0 .. SEGMENT - 1 /\ Words \subseteq 0 .. SEGMENT - 1
    /\ \A m \in DOMAIN MatrixSize : MatrixSize[m] \in Nat /\ NumberMask[m] \in Nat
    /\ Lights \subseteq Nat

VARIABLES
    kind, running,      \* the kind of commands the lists under study hold
    addr, base, offset, \* the next command's address; the two bases
    stack,              \* the calls in progress: return address and offset
    signalled,          \* pending_signal
    taken,              \* commands taken so far (guard)
    cursor, matrix,     \* a matrix's write cursor and its words
    pair,               \* a two-command address register
    light, material,    \* lighting registers
    level,              \* history: where each level of calls stands
    meant               \* history: what the list has asked for

listVars == <<kind, running, addr, base, offset, stack, signalled, taken,
              cursor, matrix, pair, light, material, level, meant>>

Unset    == -1
Space    == SEGMENT * Segments
Matrices == DOMAIN MatrixSize
Pairs    == {"fbp", "zbp", "tex", "clut"}
Vectors  == {"pos", "dir", "att", "colour"}
Kinds    == {"control", "material"} \cup Matrices \cup Pairs \cup Vectors
Parts    == 0 .. 2

None     == "none"

At(a, o) == [next |-> a, offset |-> o]

ListInit ==
    /\ kind = None /\ running = FALSE /\ addr = 0 /\ base = 0 /\ offset = 0
    /\ stack = <<>> /\ signalled = FALSE /\ taken = 0
    /\ cursor = 0 /\ matrix = [i \in {} |-> Unset]
    /\ pair = [addr |-> 0, width |-> 0]
    /\ light = [l \in Lights |-> [i \in Parts |-> Unset]]
    /\ material = 0
    /\ level = <<At(0, 0)>>
    /\ meant = [low |-> 0, high |-> 0, next |-> 0, colour |-> 0]

(* ge_rel_addr: the base extends the data, the offset displaces both, and  *)
(* the sum wraps in the address space.                                     *)
RelAddr(data) == (offset + base * SEGMENT + data) % Space

(* ge_run_list: a list is started with the registers the last one left.    *)
Enqueue(k, at) ==
    /\ ~ running /\ kind \in {None, k}
    /\ running' = TRUE /\ kind' = k /\ addr' = at
    /\ stack' = <<>> /\ signalled' = FALSE /\ taken' = 0
    /\ level' = <<At(at, offset)>>
    /\ matrix' = IF kind = None /\ k \in Matrices
                 THEN [i \in 0 .. MatrixSize[k] - 1 |-> Unset] ELSE matrix
    /\ UNCHANGED <<base, offset, cursor, pair, light, material, meant>>

(* One turn of the loop: a command is fetched, and the address has moved   *)
(* past it before the command is looked at.                                *)
Fetch(k) == running /\ kind = k /\ taken < GUARD /\ taken' = taken + 1

KeepRegisters == UNCHANGED <<cursor, matrix, pair, light, material, meant>>
Onwards == [level EXCEPT ![Len(level)] = At(addr + 1, offset)]
KeepControl ==
    /\ addr' = addr + 1
    /\ level' = Onwards
    /\ UNCHANGED <<kind, running, base, offset, stack, signalled>>

(***************************************************************************)
(* Control commands.                                                       *)
(***************************************************************************)
SetBase(b) ==
    /\ base' = b /\ addr' = addr + 1 /\ level' = Onwards
    /\ UNCHANGED <<kind, running, offset, stack, signalled>>

(* OFFSET_ADDR takes its data; ORIGIN the address it stands at itself.     *)
SetOffset(o) ==
    /\ offset' = o /\ addr' = addr + 1
    /\ level' = [level EXCEPT ![Len(level)] = At(addr + 1, o)]
    /\ UNCHANGED <<kind, running, base, stack, signalled>>

Jump(data) ==
    /\ addr' = RelAddr(data)
    /\ level' = [level EXCEPT ![Len(level)] = At(RelAddr(data), offset)]
    /\ UNCHANGED <<kind, running, base, offset, stack, signalled>>

(* A call with the stack full is passed over.                              *)
Call(data) ==
    IF Len(stack) < STACK
    THEN /\ stack' = Append(stack, [pc |-> addr + 1, offset |-> offset])
         /\ addr' = RelAddr(data)
         /\ level' = Append(Onwards, At(RelAddr(data), offset))
         /\ UNCHANGED <<kind, running, base, offset, signalled>>
    ELSE KeepControl

(* A return from the outermost level is passed over.                       *)
ResumedLate == offset                \* variant: the subroutine's offset stays
Resumed == Last(stack).offset

Ret ==
    IF stack # <<>>
    THEN /\ stack' = Front(stack)
         /\ addr' = Last(stack).pc % Space
         /\ offset' = Resumed
         /\ level' = Front(level)
         /\ UNCHANGED <<kind, running, base, signalled>>
    ELSE KeepControl

(* SIGNAL and FINISH tell the END that follows whether it ends the list.   *)
Signal(on) ==
    /\ signalled' = on /\ addr' = addr + 1 /\ level' = Onwards
    /\ UNCHANGED <<kind, running, base, offset, stack>>

End ==
    /\ signalled' = FALSE
    /\ running' = signalled
    /\ addr' = addr + 1 /\ level' = Onwards
    /\ UNCHANGED <<kind, base, offset, stack>>

(* A padding NOP, a bounding-box command, an unknown one.                  *)
Other == KeepControl

Control ==
    /\ Fetch("control") /\ KeepRegisters
    /\ \/ \E b \in 0 .. Segments - 1 : SetBase(b)
       \/ \E w \in Words : SetOffset(w) \/ Jump(w) \/ Call(w)
       \/ SetOffset(addr) \/ Ret \/ End \/ Other
       \/ \E on \in BOOLEAN : Signal(on)

(* The loop gives up after GUARD commands, wherever it is in the list.     *)
GiveUp ==
    /\ running /\ taken = GUARD
    /\ running' = FALSE
    /\ UNCHANGED <<kind, addr, base, offset, stack, signalled, taken, level>>
    /\ KeepRegisters

(***************************************************************************)
(* Register commands.  They move to the next command and change only       *)
(* their register.                                                         *)
(***************************************************************************)
(* A *MATRIXNUMBER sets the cursor to what its data's low bits say, which  *)
(* may be past the end.                                                    *)
MatrixNumber(m, n) ==
    /\ Fetch(m) /\ KeepControl
    /\ cursor' = n
    /\ meant' = [meant EXCEPT !.next = n]
    /\ UNCHANGED <<matrix, pair, light, material>>

MovedRound(m) == (cursor + 1) % MatrixSize[m]   \* variant: the cursor wraps
Moved(m) == cursor + 1

(* A *MATRIXDATA lands while the cursor is in range, and moves the cursor  *)
(* in any case.  The word is the place a list counting from its            *)
(* *MATRIXNUMBER has in mind.  The first conjunct bounds the model.        *)
MatrixData(m) ==
    /\ cursor <= NumberMask[m]
    /\ Fetch(m) /\ KeepControl
    /\ matrix' = IF cursor < MatrixSize[m] THEN [matrix EXCEPT ![cursor] = meant.next] ELSE matrix
    /\ cursor' = Moved(m)
    /\ meant' = [meant EXCEPT !.next = @ + 1]
    /\ UNCHANGED <<pair, light, material>>

(* Addresses that do not fit one command's data: FRAMEBUFPTR and           *)
(* FRAMEBUFWIDTH, ZBUFPTR and ZBUFWIDTH, TEXADDR0 and TEXBUFWIDTH0,        *)
(* CLUTADDR and CLUTADDRUPPER.  The first replaces the low part and keeps  *)
(* the high one; the second does the reverse, its low bits being a width   *)
(* (CLUTADDRUPPER has none).                                               *)
Low(w)  == (pair.addr \div SEGMENT) * SEGMENT + w
HighClears(s) == s * SEGMENT         \* variant: the low part is lost
High(s) == s * SEGMENT + (pair.addr % SEGMENT)

AddressLow(p, w) ==
    /\ Fetch(p) /\ KeepControl
    /\ pair' = [pair EXCEPT !.addr = Low(w)]
    /\ meant' = [meant EXCEPT !.low = w]
    /\ UNCHANGED <<cursor, matrix, light, material>>

AddressHigh(p, s, w) ==
    /\ Fetch(p) /\ KeepControl
    /\ pair' = [addr |-> High(s), width |-> IF p = "clut" THEN 0 ELSE w]
    /\ meant' = [meant EXCEPT !.high = s]
    /\ UNCHANGED <<cursor, matrix, light, material>>

(* LX0.., LDX0.., LKA0..: twelve commands a vector, three a light; LAC0..  *)
(* the same for its ambient, diffuse and specular colours.                 *)
LightOf(k) == k \div 3
PartOf(k)  == k % 3

LightWord(v, k) ==
    /\ Fetch(v) /\ KeepControl
    /\ light' = [light EXCEPT ![LightOf(k)][PartOf(k)] = k]
    /\ UNCHANGED <<cursor, matrix, pair, material, meant>>

(* MATERIALAMBIENT and MATERIALDIFFUSE both set the flat colour: the last  *)
(* of the two decides.                                                     *)
MaterialColour(w) ==
    /\ Fetch("material") /\ KeepControl
    /\ material' = w
    /\ meant' = [meant EXCEPT !.colour = w]
    /\ UNCHANGED <<cursor, matrix, pair, light>>

ListNext ==
    \/ \E k \in Kinds, at \in Starts : Enqueue(k, at)
    \/ Control \/ GiveUp
    \/ \E m \in Matrices :
          \/ \E n \in 0 .. NumberMask[m] : MatrixNumber(m, n)
          \/ MatrixData(m)
    \/ \E p \in Pairs, w \in Words :
          \/ AddressLow(p, w)
          \/ \E s \in 0 .. Segments - 1 : AddressHigh(p, s, w)
    \/ \E v \in Vectors, l \in Lights, i \in Parts : LightWord(v, 3 * l + i)
    \/ \E w \in Words : MaterialColour(w)

ListSpec == ListInit /\ [][ListNext]_listVars

(* A subroutine moves nothing of its caller's: the next command and the    *)
(* offset it displaces addresses by are those the level of calls at work   *)
(* has reached by commands of its own, whatever OFFSET_ADDR and ORIGIN the *)
(* subroutines it called have run, and however often the list has called   *)
(* beyond the stack or returned beyond its start (GE_CALL, GE_RET).        *)
LevelsApart ==
    /\ Len(level) = Len(stack) + 1
    /\ offset = Last(level).offset \/ ~ running
    /\ addr % Space = Last(level).next % Space \/ ~ running

(* Words land where the list meant them: an element of a matrix holds no   *)
(* word sent for another place (a thirteenth word of a 4x3 matrix is       *)
(* discarded and does not come round to its first element); an address set *)
(* by two commands is the last low part and the last high part, in         *)
(* whichever order they came; a light's register holds a word of that      *)
(* light and that component.                                               *)
WordsInPlace ==
    /\ \A i \in DOMAIN matrix : matrix[i] \in {Unset, i}
    /\ pair.addr = meant.high * SEGMENT + meant.low
    /\ \A l \in Lights, i \in Parts : light[l][i] \in {Unset, 3 * l + i}

(* A list runs in place: its calls and its words together.                 *)
ListRunsInPlace == LevelsApart /\ WordsInPlace
=============================================================================
