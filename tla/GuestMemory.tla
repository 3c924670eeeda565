---------------------------- MODULE GuestMemory ----------------------------
(***************************************************************************)
(* Who has which part of the game's memory.  The loader writes the module  *)
(* (sr_load_segment, recomp.c); the user partition grows upward from the   *)
(* module's end and is never given back (hle.c); every thread takes its    *)
(* stack downward from s_stack_top (sched_create_thread, sched.c), with a  *)
(* control area for k0 at the top of it.                                   *)
(*                                                                         *)
(* Addresses count small units.  Nothing in the code stops blocks and      *)
(* stacks from meeting, nor a thread from being created with a stack       *)
(* smaller than its control area; the properties say what holds then too.  *)
(***************************************************************************)
EXTENDS Integers, Sequences, FiniteSets

CONSTANTS
    PAGE,           \* 0x1000, to which the base of the partition is rounded
    ALIGN,          \* 0x100, of blocks and of stacks
    DEFAULT,        \* 16, the size of a block of size 0
    DEFAULT_STACK,  \* 0x40000, the size of a stack of size 0
    RAM_BASE,       \* SR_RAM_BASE, above 0
    STACK_TOP,      \* the first value of s_stack_top
    TLS,            \* 0x800, the control area
    ROOM,           \* 0x10, between it and the first stack pointer
    MAXBLOCKS,      \* size of s_blocks
    MAXTHREADS,     \* size of s_tcb
    WRAP,           \* 2^32, where addresses wrap around
    Segments,       \* ends of segments the loader writes
    BlockSizes, StackSizes

ASSUME GuestMemoryAssumption ==
    /\ {PAGE, ALIGN, ROOM, RAM_BASE} \subseteq Nat \ {0}
    /\ {STACK_TOP, TLS, DEFAULT, DEFAULT_STACK, MAXBLOCKS, MAXTHREADS, WRAP} \subseteq Nat
    /\ PAGE % ALIGN = 0 /\ STACK_TOP % ALIGN = 0
    /\ ALIGN % ROOM = 0 /\ TLS % ROOM = 0
    /\ Segments \subseteq Nat /\ BlockSizes \subseteq Nat /\ StackSizes \subseteq Nat

VARIABLES
    loadedEnd,  \* g_loaded_end
    heap,       \* s_heap, 0 until the partition is first used
    blocks,     \* s_blocks
    uid,        \* s_uid
    stackTop,   \* s_stack_top
    given,      \* every block given out, in the table or not
    stacks      \* what every thread was given

memVars == <<loadedEnd, heap, blocks, uid, stackTop, given, stacks>>

MemoryInit ==
    /\ loadedEnd = 0 /\ heap = 0 /\ blocks = <<>> /\ uid = 1
    /\ stackTop = STACK_TOP
    /\ given = {} /\ stacks = {}

-----------------------------------------------------------------------------
DownTo(x, n) == x - (x % n)
UpTo(x, n) == DownTo(x + n - 1, n)

LoadSegment(end) ==
    /\ heap = 0 /\ stacks = {}
    /\ loadedEnd' = IF end > loadedEnd THEN end ELSE loadedEnd
    /\ UNCHANGED <<heap, blocks, uid, stackTop, given, stacks>>

(* user_partition_init                                                     *)
Started ==
    IF heap # 0 THEN heap
    ELSE IF UpTo(loadedEnd, PAGE) < RAM_BASE THEN RAM_BASE ELSE UpTo(loadedEnd, PAGE)

PlacedBelow(base) == DownTo(base, ALIGN)     \* variant: aligned the wrong way
Placed(base) == UpTo(base, ALIGN)

(* sceKernelAllocPartitionMemory, alloc_block                              *)
AllocPartitionMemory(asked) ==
    LET size == IF asked = 0 THEN DEFAULT ELSE asked
        addr == Placed(Started)
    IN /\ addr + size <= WRAP        \* bound: the partition does not wrap around
       /\ heap' = addr + size
       /\ uid' = uid + 1
       /\ given' = given \cup {[uid |-> uid, addr |-> addr, size |-> size]}
       /\ blocks' = IF Len(blocks) < MAXBLOCKS
                    THEN Append(blocks, [uid |-> uid, addr |-> addr, size |-> size])
                    ELSE blocks
       /\ UNCHANGED <<loadedEnd, stackTop, stacks>>

(* block_addr, for sceKernelGetBlockHeadAddr: 0 for a uid not in the table.*)
HeadAddr(u) ==
    LET at == {i \in DOMAIN blocks : blocks[i].uid = u}
    IN IF at = {} THEN 0 ELSE blocks[CHOOSE i \in at : TRUE].addr

(* sceKernelMaxFreeMemSize and sceKernelTotalFreeMemSize set the partition *)
(* up if nothing has yet; the figures they return are left out.            *)
QueryFree ==
    /\ heap = 0
    /\ heap' = Started
    /\ UNCHANGED <<loadedEnd, blocks, uid, stackTop, given, stacks>>

(* sched_create_thread: the space for a stack, the top of it, and below    *)
(* the top k0 and the first stack pointer.                                 *)
LowAfterTop(size) == stackTop - DownTo(size, ALIGN)     \* variant: the last piece is not counted
Low(size) == stackTop - UpTo(size, ALIGN)

ControlArea(top) == DownTo(top - TLS, ROOM)

CreateThread(asked) ==
    LET size == IF asked = 0 THEN DEFAULT_STACK ELSE asked
        low  == Low(size)
        k0   == ControlArea(DownTo(low + size, ROOM))
        sp   == DownTo(k0 - ROOM, ROOM)
    IN /\ Cardinality(stacks) < MAXTHREADS
       /\ low >= 0 /\ sp >= 0        \* bound: the stacks do not wrap around
       /\ stackTop' = low
       /\ uid' = uid + 1
       /\ stacks' = stacks \cup {[uid |-> uid, low |-> low, size |-> size, sp |-> sp, k0 |-> k0]}
       /\ UNCHANGED <<loadedEnd, heap, blocks, given>>

MemoryNext ==
    \/ \E end \in Segments : LoadSegment(end)
    \/ \E size \in BlockSizes : AllocPartitionMemory(size)
    \/ QueryFree
    \/ \E size \in StackSizes : CreateThread(size)

MemorySpec == MemoryInit /\ [][MemoryNext]_memVars

-----------------------------------------------------------------------------
Extent(from, end) == from .. end - 1

(* A thread's stack is big enough for the control area and a first frame. *)
Roomy(s) == s.size >= TLS + ROOM

(* No two blocks share a byte, and none has one of the module's; no two    *)
(* stacks do, and a stack that is big enough holds its control area and    *)
(* first stack pointer, whatever the sizes asked for.  Blocks and stacks   *)
(* are apart until their limits cross, which nothing in the code prevents  *)
(* or looks at (hle.c 99-106, sched.c 256-285).                            *)
MemoryApart ==
    /\ \A b \in given : b.addr >= loadedEnd
    /\ \A b, c \in given : b # c => Extent(b.addr, b.addr + b.size) \cap Extent(c.addr, c.addr + c.size) = {}
    /\ \A s, t \in stacks : s # t => Extent(s.low, s.low + s.size) \cap Extent(t.low, t.low + t.size) = {}
    /\ \A s \in stacks : Roomy(s) => s.low <= s.sp /\ s.k0 + TLS <= s.low + s.size
    /\ heap <= stackTop =>
          \A b \in given, s \in stacks : Extent(b.addr, b.addr + b.size) \cap Extent(s.low, s.low + s.size) = {}

(* A block's uid leads to its own address, or, once the table is full, to  *)
(* 0: never to another's block, and never to nothing before that.          *)
UidLeadsToBlock ==
    \A b \in given : HeadAddr(b.uid) = b.addr \/ (HeadAddr(b.uid) = 0 /\ Len(blocks) = MAXBLOCKS)

GuestMemorySound == MemoryApart /\ UidLeadsToBlock
=============================================================================
