------------------------------ MODULE Runtime ------------------------------
(***************************************************************************)
(* What recompiled code calls in recomp.c: the unaligned halves of a word  *)
(* load and store (sr_lwl, sr_lwr, sr_swl, sr_swr), and the table that     *)
(* leads from a guest address to the native function (sr_register,         *)
(* sr_lookup, dispatch).                                                   *)
(*                                                                         *)
(* Memory is little-endian bytes, a word a function 0 .. 3 -> byte with    *)
(* its least significant byte at 0.  `moved' is the unaligned word the     *)
(* code is storing and loading back; `latest' is what was registered last  *)
(* for an address.  Both are for the properties.                           *)
(***************************************************************************)
EXTENDS Integers, FiniteSets

CONSTANTS
    ByteValues, \* values of a byte
    TableCap,   \* SR_DISP_CAP
    Functions,  \* guest addresses of functions, in instructions (addr >> 2)
    Bodies,     \* native functions
    NoBody      \* NULL

ASSUME RuntimeAssumption ==
    /\ 0 \in ByteValues
    /\ TableCap \in Nat \ {0}
    /\ Functions \subseteq Nat
    /\ NoBody \notin Bodies

VARIABLES
    ram,        \* two words of guest memory
    rt,        \* the register loaded into
    moved,
    table,      \* s_disp_addr and s_disp_fn
    latest,
    full,       \* sr_register aborted
    answer      \* what the last sr_lookup of an indirect jump returned

rtVars == <<ram, rt, moved, table, latest, full, answer>>

Places == 0 .. 7
Words4 == [0 .. 3 -> ByteValues]
Zero4  == [b \in 0 .. 3 |-> 0]

RuntimeInit ==
    /\ ram = [p \in Places |-> 0]
    /\ rt = Zero4
    /\ moved = [steps |-> {}, at |-> 0, word |-> Zero4, before |-> ram]
    /\ table = [i \in 0 .. TableCap - 1 |-> [addr |-> 0, fn |-> NoBody]]
    /\ latest = [f \in Functions |-> NoBody]
    /\ full = FALSE
    /\ answer = [for |-> 0, fn |-> NoBody]

-----------------------------------------------------------------------------
(* The aligned word an address is in, and memory with that word replaced.  *)
Aligned(a) == [b \in 0 .. 3 |-> ram[a - (a % 4) + b]]
Replaced(a, w) == [p \in Places |-> IF p \div 4 = a \div 4 THEN w[p % 4] ELSE ram[p]]

(* sr_lwl and sr_swl deal in the bytes of the aligned word up to the       *)
(* address, which are the upper ones of the register; sr_lwr and sr_swr in *)
(* those from the address on, the lower ones of the register.              *)
Lwl(v, a) ==
    LET up == 3 - (a % 4)
    IN [b \in 0 .. 3 |-> IF b >= up THEN Aligned(a)[b - up] ELSE v[b]]
Lwr(v, a) ==
    LET down == a % 4
    IN [b \in 0 .. 3 |-> IF b + down <= 3 THEN Aligned(a)[b + down] ELSE v[b]]

SwlMasksHigh(a, v) ==            \* variant: the bytes above are not kept
    LET up == 3 - (a % 4)
    IN Replaced(a, [b \in 0 .. 3 |-> IF b + up <= 3 THEN v[b + up] ELSE 0])
Swl(a, v) ==
    LET up == 3 - (a % 4)
    IN Replaced(a, [b \in 0 .. 3 |-> IF b + up <= 3 THEN v[b + up] ELSE Aligned(a)[b]])
Swr(a, v) ==
    LET down == a % 4
    IN Replaced(a, [b \in 0 .. 3 |-> IF b >= down THEN v[b - down] ELSE Aligned(a)[b]])

Tabled == <<table, latest, full, answer>>

(* The pair of stores a compiler emits for an unaligned word, in either    *)
(* order.                                                                  *)
StoreFirst(a, w, swl) ==
    /\ moved.steps = {}
    /\ ram' = IF swl THEN Swl(a + 3, w) ELSE Swr(a, w)
    /\ moved' = [steps |-> {IF swl THEN "swl" ELSE "swr"}, at |-> a, word |-> w, before |-> ram]
    /\ UNCHANGED <<rt, Tabled>>

StoreSecond ==
    /\ Cardinality(moved.steps) = 1
    /\ ram' = IF "swr" \in moved.steps THEN Swl(moved.at + 3, moved.word) ELSE Swr(moved.at, moved.word)
    /\ moved' = [moved EXCEPT !.steps = {"swl", "swr"}]
    /\ UNCHANGED <<rt, Tabled>>

(* And the pair of loads, into a register left as the last word found it.  *)
LoadOne(lwl) ==
    LET step == IF lwl THEN "lwl" ELSE "lwr"
    IN /\ {"swl", "swr"} \subseteq moved.steps /\ step \notin moved.steps
       /\ rt' = IF lwl THEN Lwl(rt, moved.at + 3) ELSE Lwr(rt, moved.at)
       /\ moved' = [moved EXCEPT !.steps = @ \cup {step}]
       /\ UNCHANGED <<ram, Tabled>>

(* The next word, among bytes and in a register that hold something else.  *)
Elsewhere(v) ==
    /\ Cardinality(moved.steps) = 4
    /\ ram' = [p \in Places |-> v] /\ rt' = [b \in 0 .. 3 |-> v]
    /\ moved' = [steps |-> {}, at |-> 0, word |-> Zero4, before |-> [p \in Places |-> 0]]
    /\ UNCHANGED Tabled

-----------------------------------------------------------------------------
(* The entries an address is looked for in, in the order of the probes.    *)
Probe(f) == [n \in 0 .. TableCap - 1 |-> (f + n) % TableCap]

First(S) == CHOOSE n \in S : \A m \in S : n <= m

SeatByHash(f) == {0}             \* variant: the entry the hash gives, whoever has it

(* The probes at which sr_register may write: a free entry or the          *)
(* address's own.                                                          *)
Seat(f) ==
    {n \in 0 .. TableCap - 1 : \/ table[Probe(f)[n]].fn = NoBody
                               \/ table[Probe(f)[n]].addr = f}

Register(f, body) ==
    /\ ~full
    /\ IF Seat(f) = {}
       THEN full' = TRUE /\ UNCHANGED <<table, latest>>
       ELSE /\ table' = [table EXCEPT ![Probe(f)[First(Seat(f))]] = [addr |-> f, fn |-> body]]
            /\ latest' = [latest EXCEPT ![f] = body]
            /\ UNCHANGED full
    /\ UNCHANGED <<ram, rt, moved, answer>>

(* The search ends at the first entry that is free or the address's.       *)
Lookup(f) ==
    LET seat == Seat(f)
    IN IF seat = {} THEN NoBody ELSE table[Probe(f)[First(seat)]].fn

(* An indirect jump; without a function the program aborts, or under       *)
(* SR_DISPATCH_PERMISSIVE goes on as if the call had returned 0.           *)
Dispatch(f) ==
    /\ ~full
    /\ answer' = [for |-> f, fn |-> Lookup(f)]
    /\ UNCHANGED <<ram, rt, moved, table, latest, full>>

-----------------------------------------------------------------------------
MoveNext ==
    \/ \E a \in 0 .. 4, w \in Words4, swl \in BOOLEAN : StoreFirst(a, w, swl)
    \/ StoreSecond
    \/ \E lwl \in BOOLEAN : LoadOne(lwl)
    \/ \E v \in ByteValues : Elsewhere(v)

TableNext ==
    \/ \E f \in Functions, body \in Bodies : Register(f, body)
    \/ \E f \in Functions : Dispatch(f)

RuntimeSpec == RuntimeInit /\ [][MoveNext \/ TableNext]_rtVars

(* A word stored at any alignment by the two halves, in either order,      *)
(* touches no byte but its four, and the two halves of the load bring it   *)
(* back whatever the register held.                                        *)
WordComesBack ==
    /\ {"swl", "swr"} \subseteq moved.steps =>
          \A p \in Places : p - moved.at \notin 0 .. 3 => ram[p] = moved.before[p]
    /\ {"lwl", "lwr"} \subseteq moved.steps => rt = moved.word

(* However addresses collide in the table, wrap round its end or fill it,  *)
(* every address leads to the function registered for it last, and no      *)
(* other address to any.                                                   *)
LookupFindsLast == \A f \in Functions : Lookup(f) = latest[f]

(* What the recompiled code's helpers give back: a word written in two     *)
(* halves is read back whole, and a call finds the body registered last.   *)
RuntimeKeepsFaith == WordComesBack /\ LookupFindsLast
=============================================================================
