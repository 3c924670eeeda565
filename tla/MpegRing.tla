------------------------------ MODULE MpegRing ------------------------------
(***************************************************************************)
(* The packet ring of a movie, mpeg.c.  The game builds a ring, creates a  *)
(* context on it, analyses the movie's header, and then feeds the ring and *)
(* takes access units from it.  Feeding calls back into the game, which    *)
(* reads the file; the callback may yield, and until it returns any other  *)
(* thread of the game may call anything below.                             *)
(*                                                                         *)
(* There is one ring, and the game does not rebuild it or feed it again    *)
(* from a second thread while a callback fills it.  A packet is counted,   *)
(* not represented; `unread' counts the packets really fed and not taken   *)
(* since the ring was last emptied, for the properties only.  The context  *)
(* counts packets up to the movie's length, past which it does not look.   *)
(***************************************************************************)
EXTENDS Integers, FiniteSets, FiniteSetsExt

CONSTANTS
    Sizes,      \* sizes of ring the game builds, in packets
    Lengths,    \* lengths of the movies in packets; 0 is a header without one
    Movies,     \* mpeg handles the game uses
    CtxSlots,   \* slots of s_mpeg, 0 .. 7
    NoMovie,    \* RB_mpeg = 0
    MaxRead     \* bound: packets fed to one ring

ASSUME MpegAssumption ==
    /\ Sizes \subseteq Nat \ {0} /\ Lengths \subseteq Nat
    /\ CtxSlots \subseteq Nat /\ IsFiniteSet(CtxSlots)
    /\ NoMovie \notin Movies
    /\ MaxRead \in Nat

VARIABLES
    ringPackets,   \* RB_packets, 0 before the ring is built
    packetsRead,   \* RB_packetsRead
    writePos,      \* RB_packetsWritePos
    packetsAvail,  \* RB_packetsAvail
    ringMovie,     \* RB_mpeg
    ctx,           \* s_mpeg
    fill,          \* the feeding call in progress, with its local variables
    unread

ring == <<ringPackets, packetsRead, writePos, packetsAvail, ringMovie>>
mpegVars == <<ringPackets, packetsRead, writePos, packetsAvail, ringMovie, ctx, fill, unread>>

NoSlot == -1

FreeCtx == [used |-> FALSE, movie |-> NoMovie, onRing |-> FALSE,
            total |-> 0, fed |-> 0, videoEnd |-> FALSE]

NotFilling == [chunk |-> 0]

MpegInit ==
    /\ ringPackets = 0 /\ packetsRead = 0 /\ writePos = 0 /\ packetsAvail = 0
    /\ ringMovie = NoMovie
    /\ ctx = [s \in CtxSlots |-> FreeCtx]
    /\ fill = NotFilling
    /\ unread = 0

Filling == fill # NotFilling

(* mpeg_find: the first context in use with the movie's handle.            *)
FindMpeg(m) ==
    LET found == {s \in CtxSlots : ctx[s].used /\ ctx[s].movie = m}
    IN IF found = {} THEN NoSlot ELSE Min(found)

-----------------------------------------------------------------------------
ConstructRing(n) ==
    /\ ~Filling
    /\ ringPackets' = n /\ packetsRead' = 0 /\ writePos' = 0 /\ packetsAvail' = 0
    /\ ringMovie' = NoMovie
    /\ unread' = 0
    /\ UNCHANGED <<ctx, fill>>

(* The ring is emptied and taken over first, and only then is a context    *)
(* looked for: with none free the call fails and both have happened.       *)
CreateMpeg(m, onRing) ==
    /\ IF onRing THEN packetsAvail' = 0 /\ unread' = 0 /\ ringMovie' = m
                 ELSE UNCHANGED <<packetsAvail, unread, ringMovie>>
    /\ LET free == {s \in CtxSlots : ~ctx[s].used}
       IN IF free = {} THEN UNCHANGED ctx
          ELSE ctx' = [ctx EXCEPT ![Min(free)] =
                          [FreeCtx EXCEPT !.used = TRUE, !.movie = m, !.onRing = onRing]]
    /\ UNCHANGED <<ringPackets, packetsRead, writePos, fill>>

DeleteMpeg(m) ==
    /\ FindMpeg(m) # NoSlot
    /\ ctx' = [ctx EXCEPT ![FindMpeg(m)].used = FALSE]
    /\ UNCHANGED <<ring, fill, unread>>

(* sceMpegQueryStreamOffset analyses the header of a movie of len packets. *)
Analyze(m, len) ==
    /\ FindMpeg(m) # NoSlot
    /\ ctx' = [ctx EXCEPT ![FindMpeg(m)] =
                  [@ EXCEPT !.total = len, !.fed = 0, !.videoEnd = FALSE]]
    /\ UNCHANGED <<ring, fill, unread>>

-----------------------------------------------------------------------------
(* mpeg_ringbuffer_put.  How many packets to ask the game for, of n wanted *)
(* and `offered' announced by the caller.                                  *)
WantedUnchecked(n, offered) == Min({n, offered})   \* variant: the ring's space is not looked at

Wanted(n, offered) == Min({n, offered, ringPackets - packetsAvail})

(* The next contiguous piece of the ring.                                  *)
Chunk(want, pos) == Min({want, ringPackets - pos})

PutBegin(n, offered) ==
    /\ ~Filling
    /\ packetsRead + ringPackets <= MaxRead
    /\ LET want == Wanted(n, offered)
           pos  == IF ringPackets = 0 THEN 0 ELSE writePos % ringPackets
       IN /\ want > 0
          /\ fill' = [avail |-> packetsAvail, want |-> want, added |-> 0, pos |-> pos,
                      slot |-> IF ringMovie = NoMovie THEN NoSlot ELSE FindMpeg(ringMovie),
                      chunk |-> Chunk(want, pos)]
    /\ UNCHANGED <<ring, ctx, unread>>

(* The call ends: what it read of the ring before its callbacks is written *)
(* back now, with the packets it added.                                    *)
Filled(added) == fill.avail + added

PutEnds(added, pos) ==
    /\ IF added = 0 THEN UNCHANGED <<packetsAvail, packetsRead, writePos, ctx, unread>>
       ELSE /\ packetsAvail' = Filled(added)
            /\ packetsRead' = packetsRead + added
            /\ writePos' = pos
            /\ unread' = unread + added
            /\ IF fill.slot = NoSlot THEN UNCHANGED ctx
               ELSE ctx' = [ctx EXCEPT ![fill.slot].fed = Min({@ + added, ctx[fill.slot].total})]
    /\ fill' = NotFilling
    /\ UNCHANGED <<ringPackets, ringMovie>>

(* The callback returns, with the `got' packets it wrote: more than asked  *)
(* for counts as the whole piece, an error (negative) or a short piece     *)
(* ends the call.                                                          *)
NextPosWhole(got) == (fill.pos + fill.chunk) % ringPackets    \* variant: a short piece counts as whole

NextPos(got) == (fill.pos + got) % ringPackets

CallbackReturns(got) ==
    /\ Filling
    /\ got <= fill.chunk
    /\ LET added == fill.added + got
           pos   == NextPos(got)
       IN IF got <= 0 THEN PutEnds(fill.added, fill.pos)
          ELSE IF got < fill.chunk \/ added = fill.want THEN PutEnds(added, pos)
          ELSE /\ fill' = [fill EXCEPT !.added = added, !.pos = pos,
                                       !.chunk = Chunk(fill.want - added, pos)]
               /\ UNCHANGED <<ring, ctx, unread>>

-----------------------------------------------------------------------------
(* mpeg_get_avc_au.  The movie has ended once it was fed whole and the     *)
(* ring is empty.  An access unit is one packet.                           *)
EndsOnceFed(s) == ctx[s].total > 0 /\ ctx[s].fed >= ctx[s].total  \* variant: the ring is not looked at

EndsNow(s) == ctx[s].total > 0 /\ ctx[s].fed >= ctx[s].total /\ packetsAvail = 0

GetAvcAu(m) ==
    LET s == FindMpeg(m)
    IN /\ s # NoSlot /\ ctx[s].onRing
       /\ ctx' = [ctx EXCEPT ![s].videoEnd = @ \/ EndsNow(s)]
       /\ IF packetsRead = 0 \/ packetsAvail = 0 THEN UNCHANGED <<packetsAvail, unread>>
          ELSE packetsAvail' = packetsAvail - 1 /\ unread' = Max({unread - 1, 0})
       /\ UNCHANGED <<ringPackets, packetsRead, writePos, ringMovie, fill>>

-----------------------------------------------------------------------------
MpegNext ==
    \/ \E n \in Sizes : ConstructRing(n)
    \/ \E m \in Movies, onRing \in BOOLEAN : CreateMpeg(m, onRing)
    \/ \E m \in Movies : DeleteMpeg(m) \/ GetAvcAu(m)
    \/ \E m \in Movies, len \in Lengths : Analyze(m, len)
    \/ \E n \in 1 .. ringPackets + 1, offered \in 0 .. ringPackets : PutBegin(n, offered)
    \/ \E got \in -1 .. ringPackets : CallbackReturns(got)

MpegSpec == MpegInit /\ [][MpegNext]_mpegVars

-----------------------------------------------------------------------------
Fill == [avail : Nat, want : Nat \ {0}, added : Nat, pos : Nat,
         slot : CtxSlots \cup {NoSlot}, chunk : Nat \ {0}]

MpegTypeOK ==
    /\ ringPackets \in Sizes \cup {0}
    /\ packetsRead \in 0 .. MaxRead
    /\ ringPackets > 0 => writePos \in 0 .. ringPackets - 1
    /\ packetsAvail \in 0 .. ringPackets
    /\ ringMovie \in Movies \cup {NoMovie}
    /\ ctx \in [CtxSlots -> [used : BOOLEAN, movie : Movies \cup {NoMovie}, onRing : BOOLEAN,
                             total : Lengths \cup {0}, fed : Nat, videoEnd : BOOLEAN]]
    /\ fill \in Fill \cup {NotFilling}
    /\ unread \in 0 .. ringPackets

(* While a callback fills a piece of the ring, that piece and what the     *)
(* call added before it are free: no packet is overwritten before it was   *)
(* taken, although the call decided on the space before its callbacks.     *)
FillsOnlyFree ==
    Filling => /\ unread + fill.added + fill.chunk <= ringPackets
               /\ fill.pos + fill.chunk <= ringPackets

(* The ring is written in order: whatever the callbacks returned, and when *)
(* a piece wrapped round the end, the next packet goes right behind the    *)
(* last.                                                                   *)
WritesInOrder == ringPackets > 0 => writePos = packetsRead % ringPackets

(* The ring is filled where it is free, and in order.                      *)
RingFilledRightly == FillsOnlyFree /\ WritesInOrder

(* A movie ends on a ring with nothing unread in it, and only when as many *)
(* packets as its header announces were counted.                           *)
EndsDrained ==
    [][\A s \in CtxSlots :
          ~ctx[s].videoEnd /\ ctx'[s].videoEnd =>
             unread = 0 /\ ctx[s].fed >= ctx[s].total]_mpegVars

-----------------------------------------------------------------------------
(* mpeg.c:440, "consume one packet": a packet that was taken is not        *)
(* available again.  A packet taken while a callback runs is, for          *)
(* mpeg_ringbuffer_put writes back the count it read before.  The game     *)
(* does nothing but feed the ring and take from it.                        *)
FeedAndTake ==
    \/ ~Filling /\ \E n \in Sizes, m \in Movies : ConstructRing(n) \/ CreateMpeg(m, TRUE)
    \/ \E m \in Movies : GetAvcAu(m)
    \/ \E n \in 1 .. ringPackets + 1, offered \in 0 .. ringPackets : PutBegin(n, offered)
    \/ \E got \in -1 .. ringPackets : CallbackReturns(got)

FeedAndTakeSpec == MpegInit /\ [][FeedAndTake]_mpegVars

TakenOnce == packetsAvail <= unread
=============================================================================
