------------------------------ MODULE TexCache ------------------------------
(***************************************************************************)
(* The cache of decoded textures in ge_gpu.c (tex_get), between the memory *)
(* the game rewrites at will and the batches that are drawn later, when    *)
(* submit_pending runs: what a primitive samples must still be in the      *)
(* image it was given when the batch is drawn.                             *)
(*                                                                         *)
(* A key stands for the address, format, size, filter and palette of a     *)
(* texture, and its contents for their hash; keys are taken not to         *)
(* collide, nor the hash to miss a change.  An image has the number of the *)
(* descriptor set made for it, which the pool may give out again.          *)
(***************************************************************************)
EXTENDS Integers, Sequences, SequencesExt

CONSTANTS
    Keys,       \* textures the game draws with
    Contents,   \* what the memory of a texture may hold
    MAX_TEX,    \* capacity of s_tex
    EVICTED,    \* entries evicted at once, MAX_TEX / 4
    MAX_DRAWS   \* bound: primitives until the batch buffer is full

ASSUME TexCacheAssumption ==
    /\ MAX_TEX \in Nat /\ EVICTED \in 1 .. MAX_TEX
    /\ MAX_DRAWS \in Nat \ {0}
    /\ Contents # {}

VARIABLES
    mem,        \* what the memory of each texture holds
    cache,      \* s_tex, least recently used entry first
    batch,      \* primitives waiting to be drawn
    template    \* s_tmpl and the state it was built for, while s_flushgen stands

cacheVars == <<mem, cache, batch, template>>

White == 0                       \* s_white_set
NoState == [for |-> {}, image |-> White, holds |-> {}]
Images == 1 .. MAX_TEX + 1

TexCacheInit ==
    /\ mem = [k \in Keys |-> CHOOSE c \in Contents : TRUE]
    /\ cache = <<>> /\ batch = <<>> /\ template = NoState

-----------------------------------------------------------------------------
(* Operations take the state as a record and return it changed.            *)
Now == [cache |-> cache, batch |-> batch, template |-> template]

(* submit_pending and batches_reset: with no target bound they do nothing, *)
(* which begin_target rules out here.                                      *)
Submitted(g) ==
    [cache |-> [i \in DOMAIN g.cache |-> [g.cache[i] EXCEPT !.pending = FALSE]],
     batch |-> <<>>, template |-> NoState]

Used(g, i) == [g EXCEPT !.cache = Append(RemoveAt(g.cache, i), g.cache[i])]

(* The image's contents are replaced where it is, when the texture's have  *)
(* changed; the entry has become the last one used.                        *)
Rewritten(g, i, c) ==
    LET drawn == IF g.cache[i].pending THEN Submitted(g) ELSE g
    IN [Used(drawn, i) EXCEPT !.cache[Len(g.cache)].holds = c,
                              !.cache[Len(g.cache)].pending = TRUE]

RoomAtOnce(g) ==                 \* variant: entries go with batches still referring to them
    IF Len(g.cache) < MAX_TEX THEN g
    ELSE [g EXCEPT !.cache = SubSeq(g.cache, EVICTED + 1, Len(g.cache))]

(* tex_evict_lru, after the batches that refer to what it frees.           *)
Room(g) ==
    IF Len(g.cache) < MAX_TEX THEN g
    ELSE LET drawn == Submitted(g)
         IN [drawn EXCEPT !.cache = SubSeq(drawn.cache, EVICTED + 1, Len(drawn.cache))]

(* make_descriptor takes a set that is free.                               *)
FreeImage(g) ==
    CHOOSE n \in Images : \A i \in DOMAIN g.cache : g.cache[i].image # n

Added(g, k) ==
    LET r == Room(g)
    IN [r EXCEPT !.cache = Append(r.cache, [key |-> k, holds |-> mem[k], pending |-> TRUE,
                                            image |-> FreeImage(r)])]

(* tex_get.  An upload the device refuses leaves the primitive the white   *)
(* texture, and everything done before it done.                            *)
Holding(g, k) == {i \in DOMAIN g.cache : g.cache[i].key = k}

Got(g, k, uploads) ==
    IF Holding(g, k) = {}
    THEN IF uploads THEN Added(g, k) ELSE Room(g)
    ELSE LET i == CHOOSE j \in Holding(g, k) : TRUE
         IN IF g.cache[i].holds = mem[k]
            THEN [Used(g, i) EXCEPT !.cache[Len(g.cache)].pending = TRUE]
            ELSE IF uploads THEN Rewritten(g, i, mem[k])
            ELSE IF g.cache[i].pending THEN Used(Submitted(g), i) ELSE Used(g, i)

(* What tex_get hands to the state it is called for.                       *)
Built(g, k) ==
    LET held == {i \in Holding(g, k) : g.cache[i].holds = mem[k]}
    IN [g EXCEPT !.template =
           IF held = {} THEN [for |-> {k}, image |-> White, holds |-> {}]
           ELSE LET e == g.cache[CHOOSE i \in held : TRUE]
                IN [for |-> {k}, image |-> e.image, holds |-> {e.holds}]]

(* A primitive's hook.  state_get builds no state again that is like the   *)
(* last one, and so does not look at the memory of its texture; what it    *)
(* returns is a copy, and ensure_room, which comes after it, may submit    *)
(* the batches and clear every pending flag before the copy is appended.   *)
StateOf(g, k, uploads) == IF g.template.for = {k} THEN g ELSE Built(Got(g, k, uploads), k)

EnsureRoom(g) == IF Len(g.batch) >= MAX_DRAWS THEN Submitted(g) ELSE g

Draw(k, uploads) ==
    /\ \E s \in {StateOf(Now, k, uploads)} :
          \E new \in {EnsureRoom(s)} :
             /\ cache' = new.cache /\ template' = new.template
             /\ batch' = Append(new.batch, [image |-> s.template.image, holds |-> s.template.holds])
    /\ UNCHANGED mem

(* A target switch, a readback or the end of the frame.                    *)
Submit ==
    /\ batch # <<>>
    /\ cache' = Submitted(Now).cache
    /\ batch' = <<>> /\ template' = NoState
    /\ UNCHANGED mem

(* The game's own stores and the decoders write textures.                  *)
Rewrite(k, c) ==
    /\ c # mem[k]
    /\ mem' = [mem EXCEPT ![k] = c]
    /\ UNCHANGED <<cache, batch, template>>

TexCacheNext ==
    \/ \E k \in Keys, uploads \in BOOLEAN : Draw(k, uploads)
    \/ Submit
    \/ \E k \in Keys, c \in Contents : Rewrite(k, c)

TexCacheSpec == TexCacheInit /\ [][TexCacheNext]_cacheVars

(* The image of every primitive not yet drawn is still there: no entry is  *)
(* evicted, nor its descriptor handed to another texture, while a batch    *)
(* refers to it; and s_tex never holds more entries than it has room for   *)
(* (ge_gpu.c 716-731, 793-796).                                            *)
PendingHaveTheirImage ==
    /\ \A n \in DOMAIN batch :
           batch[n].image # White =>
               \E i \in DOMAIN cache : cache[i].image = batch[n].image
    /\ \A i, j \in DOMAIN cache : cache[i].image = cache[j].image => i = j
    /\ Len(cache) <= MAX_TEX

(* ge_gpu.c:99, "referenced by not-yet-submitted batches" (pending): an    *)
(* image that a primitive not yet drawn samples is marked so, for tex_get  *)
(* rewrites in place one that is not.                                      *)
ReferencedIsPending ==
    \A n \in DOMAIN batch, i \in DOMAIN cache :
        cache[i].image = batch[n].image => cache[i].pending
=============================================================================
