--------------------------- MODULE PictureProofs ----------------------------
(***************************************************************************)
(* Theorems about what a picture is made of on its way to the screen: the  *)
(* movie ring of sceMpeg, the texels of a texture, and the near plane's    *)
(* clip.  Of the ring, the inductive invariant is MpegInv, to which a      *)
(* filling in progress belongs, and FillBounds, what Begin, each callback  *)
(* and End know of it; of the clip it is ClipInv, that what was drawn is   *)
(* what the primitive at hand is drawn as.                                 *)
(***************************************************************************)
EXTENDS MpegRing, Texels, GeClip, FiniteSetTheorems, FunctionTheorems, SequenceTheorems, TLAPS

(* Remainders, as mpeg_ringbuffer_put takes them.                          *)
LEMMA DivMod ==
    ASSUME NEW n \in Nat \ {0}, NEW a \in Nat
    PROVE  /\ a = n * (a \div n) + (a % n)
           /\ a \div n \in Nat /\ a % n \in 0 .. n - 1
BY SMT

LEMMA Multiples ==
    ASSUME NEW n \in Nat \ {0}, NEW q \in Nat, NEW k \in Nat, q < k
    PROVE  n * q + n <= n * k
<1>1. n * k = n * q + n * (k - q) /\ k - q \in Nat \ {0}
  BY SMT
<1>2. n * (k - q) >= n
  BY <1>1, SMT
<1>3. n * q \in Nat /\ n * k \in Nat /\ n * (k - q) \in Nat
  BY SMT
<1> QED
  BY <1>1, <1>2, <1>3, SMT

LEMMA OneRemainder ==
    ASSUME NEW n \in Nat \ {0}, NEW q \in Nat, NEW k \in Nat,
           NEW r \in 0 .. n - 1, NEW s \in 0 .. n - 1,
           n * q + r = n * k + s
    PROVE  r = s
<1> DEFINE x == n * q
           y == n * k
<1>1. x \in Nat /\ y \in Nat
  BY SMT
<1>2. q < k => x + n <= y
  BY Multiples
<1>3. k < q => y + n <= x
  BY Multiples
<1>4. x + r = y + s
  OBVIOUS
<1>5. q = k => x = y
  OBVIOUS
<1> HIDE DEF x, y
<1> QED
  BY <1>1, <1>2, <1>3, <1>4, <1>5, SMT

(* Advancing a remainder by b is the same as advancing the whole.          *)
LEMMA Advance ==
    ASSUME NEW n \in Nat \ {0}, NEW a \in Nat, NEW b \in Nat
    PROVE  ((a % n) + b) % n = (a + b) % n
<1> DEFINE r == a % n
           q == a \div n
           p == (r + b) \div n
           s == (r + b) % n
           k == (a + b) \div n
           t == (a + b) % n
<1>1. a = n * q + r /\ q \in Nat /\ r \in 0 .. n - 1
  BY DivMod
<1> HIDE DEF r, q
<1>2. r + b \in Nat /\ a + b \in Nat
  BY <1>1, SMT
<1>3. r + b = n * p + s /\ p \in Nat /\ s \in 0 .. n - 1
  BY <1>2, DivMod
<1>4. a + b = n * k + t /\ k \in Nat /\ t \in 0 .. n - 1
  BY <1>2, DivMod
<1> HIDE DEF p, s, k, t
<1>5. n * (q + p) = n * q + n * p /\ n * q \in Nat /\ n * p \in Nat /\ q + p \in Nat
  BY <1>1, <1>3, SMT
<1>6. n * (q + p) + s = n * k + t
  BY <1>1, <1>3, <1>4, <1>5, SMT
<1>7. s = t
  BY <1>3, <1>4, <1>5, <1>6, OneRemainder
<1> QED
  BY <1>7 DEF s, t, r

(* The smallest of two and of three numbers.                               *)
LEMMA MinOfTwo ==
    ASSUME NEW a \in Int, NEW b \in Int
    PROVE  /\ Min({a, b}) \in {a, b}
           /\ Min({a, b}) <= a /\ Min({a, b}) <= b
<1>1. \E x \in {a, b} : \A y \in {a, b} : x <= y
  BY SMT
<1> QED
  BY <1>1, Zenon DEF Min

LEMMA MinOfThree ==
    ASSUME NEW a \in Int, NEW b \in Int, NEW c \in Int
    PROVE  /\ Min({a, b, c}) \in {a, b, c}
           /\ Min({a, b, c}) <= a /\ Min({a, b, c}) <= b /\ Min({a, b, c}) <= c
<1>1. \E x \in {a, b, c} : \A y \in {a, b, c} : x <= y
  BY SMT
<1> QED
  BY <1>1, Zenon DEF Min

-----------------------------------------------------------------------------
(* The inductive invariant.  A feeding call decided on its space when      *)
(* fill.avail packets were unread at most, and the ring has only emptied   *)
(* since; its position is where the packets it has not counted yet lead.   *)
CtxType == [used : BOOLEAN, movie : Movies \cup {NoMovie}, onRing : BOOLEAN,
            total : Int, fed : Int, videoEnd : BOOLEAN]

RingInv ==
    /\ ringPackets \in Nat /\ packetsRead \in Nat /\ writePos \in Nat
    /\ packetsAvail \in 0 .. ringPackets
    /\ unread \in 0 .. packetsAvail
    /\ ringPackets > 0 => writePos = packetsRead % ringPackets

IsFill(f) ==
    f = [avail |-> f.avail, want |-> f.want, added |-> f.added, pos |-> f.pos,
         slot |-> f.slot, chunk |-> f.chunk]

FillBounds ==
    /\ IsFill(fill)
    /\ fill.avail \in Nat /\ fill.want \in Nat /\ fill.added \in Nat
    /\ fill.pos \in Nat /\ fill.chunk \in Nat \ {0}
    /\ ringPackets > 0
    /\ unread <= fill.avail
    /\ fill.avail + fill.want <= ringPackets
    /\ fill.added + fill.chunk <= fill.want
    /\ fill.pos + fill.chunk <= ringPackets
    /\ fill.pos = (packetsRead + fill.added) % ringPackets

FillInv == Filling => FillBounds

MpegInv == RingInv /\ FillInv /\ ctx \in [CtxSlots -> CtxType]

LEMMA FreeCtxType == FreeCtx \in CtxType
BY DEF FreeCtx, CtxType

LEMMA MpegInitInv == MpegInit => MpegInv
<1> SUFFICES ASSUME MpegInit PROVE MpegInv
  OBVIOUS
<1>1. RingInv /\ FillInv
  BY DEF MpegInit, RingInv, FillInv, Filling
<1> QED
  BY <1>1, FreeCtxType DEF MpegInit, MpegInv

(* The ring and the feeding call under way, when a step leaves the call    *)
(* alone and at most takes packets.                                        *)
LEMMA TakingKeeps ==
    ASSUME RingInv, FillInv, UNCHANGED <<ringPackets, packetsRead, writePos, fill>>,
           packetsAvail' \in 0 .. packetsAvail, unread' \in 0 .. unread,
           unread' <= packetsAvail'
    PROVE  RingInv' /\ FillInv'
<1>1. RingInv'
  <2>1. packetsAvail' \in 0 .. ringPackets /\ unread' \in 0 .. packetsAvail'
    BY SMT DEF RingInv
  <2> QED
    BY <2>1 DEF RingInv
<1>2. FillInv'
  <2> SUFFICES ASSUME Filling' PROVE FillBounds'
    BY DEF FillInv
  <2>1. Filling
    BY DEF Filling
  <2>2. unread' <= fill.avail
    BY <2>1, SMT DEF FillInv, FillBounds, RingInv
  <2> QED
    BY <2>1, <2>2 DEF FillInv, FillBounds
<1> QED
  BY <1>1, <1>2

LEMMA ConstructKeeps ==
    ASSUME MpegInv, NEW n \in Sizes, ConstructRing(n)
    PROVE  MpegInv'
<1>1. n \in Nat \ {0} /\ 0 % n = 0
  BY MpegAssumption, SMT
<1>2. RingInv'
  BY <1>1 DEF ConstructRing, RingInv
<1>3. ~Filling'
  BY DEF ConstructRing, Filling
<1> QED
  BY <1>2, <1>3 DEF ConstructRing, MpegInv, FillInv

LEMMA CreateKeeps ==
    ASSUME MpegInv, NEW m \in Movies, NEW onRing \in BOOLEAN, CreateMpeg(m, onRing)
    PROVE  MpegInv' /\ \A s \in CtxSlots : ctx'[s].videoEnd => ctx[s].videoEnd
<1> DEFINE new == [FreeCtx EXCEPT !.used = TRUE, !.movie = m, !.onRing = onRing]
<1>1. new \in CtxType /\ ~new.videoEnd
  <2>1. FreeCtx \in CtxType
    BY FreeCtxType
  <2>2. new \in CtxType
    BY <2>1, Zenon DEF CtxType
  <2>3. ~new.videoEnd
    BY Zenon DEF FreeCtx
  <2> QED
    BY <2>2, <2>3
<1>2. ctx \in [CtxSlots -> CtxType]
  BY DEF MpegInv
<1>3. \/ ctx' = ctx
      \/ \E i : ctx' = [ctx EXCEPT ![i] = new]
  BY Zenon DEF CreateMpeg
<1> HIDE DEF new
<1>4. /\ ctx' \in [CtxSlots -> CtxType]
      /\ \A s \in CtxSlots : ctx'[s].videoEnd => ctx[s].videoEnd
  BY <1>1, <1>2, <1>3
<1>5. RingInv' /\ FillInv'
  <2>1. packetsAvail' \in 0 .. packetsAvail /\ unread' \in 0 .. unread /\ unread' <= packetsAvail'
    BY SMT DEF CreateMpeg, MpegInv, RingInv
  <2> QED
    BY <2>1, TakingKeeps DEF CreateMpeg, MpegInv
<1> QED
  BY <1>4, <1>5 DEF MpegInv

(* Steps that change a context only.                                       *)
LEMMA ContextKeeps ==
    ASSUME MpegInv, UNCHANGED <<ring, fill, unread>>, ctx' \in [CtxSlots -> CtxType]
    PROVE  MpegInv'
<1>1. packetsAvail \in 0 .. packetsAvail /\ unread \in 0 .. unread /\ unread <= packetsAvail
  BY SMT DEF MpegInv, RingInv
<1> QED
  BY <1>1, TakingKeeps DEF ring, MpegInv

LEMMA DeleteKeeps ==
    ASSUME MpegInv, NEW m \in Movies, DeleteMpeg(m)
    PROVE  MpegInv' /\ \A s \in CtxSlots : ctx'[s].videoEnd => ctx[s].videoEnd
<1>1. ctx \in [CtxSlots -> CtxType]
  BY DEF MpegInv
<1>2. PICK i : ctx' = [ctx EXCEPT ![i].used = FALSE]
  BY Zenon DEF DeleteMpeg
<1>3. ctx' \in [CtxSlots -> CtxType]
  BY <1>1, <1>2 DEF CtxType
<1>4. \A s \in CtxSlots : ctx'[s].videoEnd => ctx[s].videoEnd
  BY <1>1, <1>2 DEF CtxType
<1> QED
  BY <1>3, <1>4, ContextKeeps DEF DeleteMpeg

LEMMA AnalyzeKeeps ==
    ASSUME MpegInv, NEW m \in Movies, NEW len \in Lengths, Analyze(m, len)
    PROVE  MpegInv' /\ \A s \in CtxSlots : ctx'[s].videoEnd => ctx[s].videoEnd
<1>1. ctx \in [CtxSlots -> CtxType] /\ len \in Int
  BY MpegAssumption DEF MpegInv
<1>2. PICK i : ctx' = [ctx EXCEPT ![i] = [@ EXCEPT !.total = len, !.fed = 0, !.videoEnd = FALSE]]
  BY Zenon DEF Analyze
<1>3. ctx' \in [CtxSlots -> CtxType]
  <2>1. i \in CtxSlots => [ctx[i] EXCEPT !.total = len, !.fed = 0, !.videoEnd = FALSE] \in CtxType
    <3> SUFFICES ASSUME i \in CtxSlots
                 PROVE  [ctx[i] EXCEPT !.total = len, !.fed = 0, !.videoEnd = FALSE] \in CtxType
      OBVIOUS
    <3>1. ctx[i] \in CtxType /\ 0 \in Int
      BY <1>1
    <3> QED
      BY <1>1, <3>1, Zenon DEF CtxType
  <2> QED
    BY <1>1, <1>2, <2>1
<1>4. \A s \in CtxSlots : ctx'[s].videoEnd => ctx[s].videoEnd
  BY <1>1, <1>2 DEF CtxType
<1> QED
  BY <1>3, <1>4, ContextKeeps DEF Analyze

(* Only here may a movie end.                                              *)
LEMMA GetKeeps ==
    ASSUME MpegInv, NEW m \in Movies, GetAvcAu(m)
    PROVE  /\ MpegInv'
           /\ \A s \in CtxSlots : ~ctx[s].videoEnd /\ ctx'[s].videoEnd =>
                                     unread = 0 /\ ctx[s].fed >= ctx[s].total
<1> DEFINE i == FindMpeg(m)
           ends == ctx[i].videoEnd \/ EndsNow(i)
<1>1. ctx \in [CtxSlots -> CtxType]
  BY DEF MpegInv
<1>2. ctx' = [ctx EXCEPT ![i].videoEnd = @ \/ EndsNow(i)]
  BY Zenon DEF GetAvcAu
<1>3. i \in CtxSlots => ends \in BOOLEAN
  BY <1>1 DEF CtxType, EndsNow
<1>4. ctx' \in [CtxSlots -> CtxType]
  BY <1>1, <1>2, <1>3 DEF CtxType
<1>5. ASSUME NEW s \in CtxSlots, ~ctx[s].videoEnd, ctx'[s].videoEnd
      PROVE  unread = 0 /\ ctx[s].fed >= ctx[s].total
  <2>1. s = i /\ EndsNow(i)
    BY <1>1, <1>2, <1>5 DEF CtxType
  <2>2. packetsAvail = 0 /\ ctx[s].fed >= ctx[s].total
    BY <2>1 DEF EndsNow
  <2> QED
    BY <2>2, SMT DEF MpegInv, RingInv
<1>6. RingInv' /\ FillInv'
  <2>1. /\ \/ packetsAvail' = packetsAvail /\ unread' = unread
           \/ packetsAvail # 0 /\ packetsAvail' = packetsAvail - 1 /\ unread' = Max({unread - 1, 0})
        /\ UNCHANGED <<ringPackets, packetsRead, writePos, fill>>
    BY DEF GetAvcAu
  <2>2. unread \in Int => Max({unread - 1, 0}) = IF unread - 1 >= 0 THEN unread - 1 ELSE 0
    <3> SUFFICES ASSUME unread \in Int
                 PROVE  Max({unread - 1, 0}) = IF unread - 1 >= 0 THEN unread - 1 ELSE 0
      OBVIOUS
    <3>1. \E x \in {unread - 1, 0} : \A y \in {unread - 1, 0} : x >= y
      BY SMT
    <3>2. /\ Max({unread - 1, 0}) \in {unread - 1, 0}
          /\ Max({unread - 1, 0}) >= unread - 1 /\ Max({unread - 1, 0}) >= 0
      BY <3>1, Zenon DEF Max
    <3> QED
      BY <3>2, SMT
  <2>3. packetsAvail' \in 0 .. packetsAvail /\ unread' \in 0 .. unread /\ unread' <= packetsAvail'
    BY <2>1, <2>2, SMT DEF MpegInv, RingInv
  <2> QED
    BY <2>1, <2>3, TakingKeeps DEF MpegInv
<1> QED
  BY <1>4, <1>5, <1>6 DEF MpegInv

-----------------------------------------------------------------------------
(* Feeding.  The call decides on its space, and on the first piece.        *)
LEMMA ChunkIs ==
    ASSUME NEW want \in Nat \ {0}, NEW pos \in Nat, ringPackets \in Nat, pos < ringPackets
    PROVE  /\ Chunk(want, pos) \in Nat \ {0}
           /\ Chunk(want, pos) <= want /\ pos + Chunk(want, pos) <= ringPackets
<1>1. want \in Int /\ ringPackets - pos \in Nat \ {0}
  BY SMT
<1> DEFINE room == ringPackets - pos
<1>2. /\ Chunk(want, pos) \in {want, room}
      /\ Chunk(want, pos) <= want /\ Chunk(want, pos) <= room
  <2>1. Chunk(want, pos) = Min({want, room})
    BY DEF Chunk
  <2>2. want \in Int /\ room \in Int
    BY <1>1
  <2> HIDE DEF room
  <2> QED
    BY <2>1, <2>2, MinOfTwo, Zenon
<1> QED
  BY <1>1, <1>2, SMT

LEMMA BeginKeeps ==
    ASSUME MpegInv, NEW n \in 1 .. ringPackets + 1, NEW offered \in 0 .. ringPackets,
           PutBegin(n, offered)
    PROVE  MpegInv'
<1> DEFINE want == Wanted(n, offered)
           pos == IF ringPackets = 0 THEN 0 ELSE writePos % ringPackets
<1>1. /\ want > 0
      /\ fill'.avail = packetsAvail /\ fill'.want = want /\ fill'.added = 0
      /\ fill'.pos = pos /\ fill'.chunk = Chunk(want, pos)
      /\ UNCHANGED <<ring, ctx, unread>>
  BY DEF PutBegin
<1>0. IsFill(fill')
  BY Zenon DEF PutBegin, IsFill
<1>2. /\ ringPackets \in Nat /\ packetsRead \in Nat /\ writePos \in Nat
      /\ packetsAvail \in 0 .. ringPackets /\ unread \in 0 .. packetsAvail
      /\ n \in Int /\ offered \in Int /\ ringPackets - packetsAvail \in Int
  BY SMT DEF MpegInv, RingInv
<1>3. want \in Nat \ {0} /\ want <= ringPackets - packetsAvail
  <2>1. /\ want \in {n, offered, ringPackets - packetsAvail}
        /\ want <= ringPackets - packetsAvail
    BY <1>2, MinOfThree DEF Wanted
  <2> HIDE DEF want
  <2>2. want \in Int
    BY <1>2, <2>1, SMT
  <2> QED
    BY <1>1, <2>1, <2>2, SMT
<1> HIDE DEF want
<1>4. ringPackets \in Nat \ {0} /\ writePos = packetsRead % ringPackets
  <2>1. ringPackets > 0
    BY <1>2, <1>3, SMT
  <2> QED
    BY <1>2, <2>1 DEF MpegInv, RingInv
<1>5. writePos \in 0 .. ringPackets - 1
  BY <1>2, <1>4, DivMod
<1>6. pos = writePos
  <2>1. writePos % ringPackets = writePos
    BY <1>4, <1>5, SMT
  <2> QED
    BY <1>4, <2>1
<1> HIDE DEF pos
<1>7. /\ Chunk(want, pos) \in Nat \ {0}
      /\ Chunk(want, pos) <= want /\ pos + Chunk(want, pos) <= ringPackets
  BY <1>3, <1>4, <1>5, <1>6, ChunkIs
<1>8. packetsRead + fill'.added = packetsRead
  BY <1>1, <1>2, SMT
<1>9. FillBounds'
  <2>1. /\ fill'.avail \in Nat /\ fill'.want \in Nat /\ fill'.added \in Nat /\ fill'.pos \in Nat
        /\ fill'.chunk \in Nat \ {0}
    BY <1>1, <1>2, <1>3, <1>5, <1>6, <1>7
  <2>2. unread <= fill'.avail /\ fill'.avail + fill'.want <= ringPackets /\ ringPackets > 0
    BY <1>1, <1>2, <1>3, <1>4, SMT
  <2>3. fill'.added + fill'.chunk <= fill'.want /\ fill'.pos + fill'.chunk <= ringPackets
    BY <1>1, <1>7, SMT
  <2>4. fill'.pos = (packetsRead + fill'.added) % ringPackets
    BY <1>1, <1>4, <1>6, <1>8
  <2> QED
    BY <1>0, <1>1, <2>1, <2>2, <2>3, <2>4 DEF ring, FillBounds
<1> QED
  BY <1>1, <1>9 DEF MpegInv, RingInv, FillInv, ring

(* The call ends with `added' packets in all: they lie where the packets   *)
(* counted before it lead.                                                 *)
LEMMA EndKeeps ==
    ASSUME MpegInv, Filling, NEW added \in 0 .. fill.want, NEW pos \in Nat,
           added > 0 => pos = (packetsRead + added) % ringPackets,
           PutEnds(added, pos)
    PROVE  MpegInv' /\ \A s \in CtxSlots : ctx'[s].videoEnd => ctx[s].videoEnd
<1>1. FillBounds /\ RingInv /\ ctx \in [CtxSlots -> CtxType]
  BY DEF MpegInv, FillInv
<1>2. ~Filling' /\ UNCHANGED <<ringPackets, ringMovie>>
  BY DEF PutEnds, Filling
<1>3. CASE added = 0
  <2>1. UNCHANGED <<packetsAvail, packetsRead, writePos, ctx, unread>>
    BY <1>3 DEF PutEnds
  <2> QED
    BY <1>1, <1>2, <2>1 DEF MpegInv, RingInv, FillInv
<1>4. CASE added # 0
  <2>1. /\ packetsAvail' = fill.avail + added
        /\ packetsRead' = packetsRead + added
        /\ writePos' = pos
        /\ unread' = unread + added
    BY <1>4 DEF PutEnds, Filled
  <2>2. added \in Nat \ {0}
    BY <1>1, <1>4, SMT DEF FillBounds
  <2>3. packetsAvail' \in 0 .. ringPackets /\ unread' \in 0 .. packetsAvail'
    BY <1>1, <2>1, <2>2, SMT DEF FillBounds, RingInv
  <2>4. packetsRead' \in Nat /\ writePos' = packetsRead' % ringPackets
    BY <1>1, <2>1, <2>2 DEF RingInv
  <2>5. RingInv'
    BY <1>1, <1>2, <2>1, <2>3, <2>4 DEF RingInv
  <2>6. /\ ctx' \in [CtxSlots -> CtxType]
        /\ \A s \in CtxSlots : ctx'[s].videoEnd => ctx[s].videoEnd
    <3>1. CASE UNCHANGED ctx
      BY <1>1, <3>1
    <3>2. CASE ctx' = [ctx EXCEPT ![fill.slot].fed = Min({@ + added, ctx[fill.slot].total})]
      <4> DEFINE i == fill.slot
                 f == Min({ctx[i].fed + added, ctx[i].total})
      <4>1. i \in CtxSlots => f \in Int
        <5> SUFFICES ASSUME i \in CtxSlots PROVE f \in Int
          OBVIOUS
        <5>1. ctx[i].fed + added \in Int /\ ctx[i].total \in Int
          BY <1>1, <2>2 DEF CtxType
        <5>2. f \in {ctx[i].fed + added, ctx[i].total}
          BY <5>1, MinOfTwo
        <5> QED
          BY <5>1, <5>2
      <4>2. ctx' = [ctx EXCEPT ![i].fed = f]
        BY <3>2
      <4> HIDE DEF f, i
      <4>3. i \in CtxSlots => [ctx[i] EXCEPT !.fed = f] \in CtxType
        <5> SUFFICES ASSUME i \in CtxSlots PROVE [ctx[i] EXCEPT !.fed = f] \in CtxType
          OBVIOUS
        <5>1. ctx[i] \in CtxType
          BY <1>1
        <5> QED
          BY <4>1, <5>1, Zenon DEF CtxType
      <4> QED
        BY <1>1, <4>2, <4>3 DEF CtxType
    <3> QED
      BY <1>4, <3>1, <3>2, Zenon DEF PutEnds
  <2> QED
    BY <1>2, <2>5, <2>6 DEF MpegInv, FillInv
<1> QED
  BY <1>3, <1>4

LEMMA CallbackKeeps ==
    ASSUME MpegInv, NEW got \in -1 .. ringPackets, CallbackReturns(got)
    PROVE  MpegInv' /\ \A s \in CtxSlots : ctx'[s].videoEnd => ctx[s].videoEnd
<1> DEFINE added == fill.added + got
           pos == NextPos(got)
<1>1. Filling /\ FillBounds /\ RingInv
  BY DEF MpegInv, FillInv, CallbackReturns
<1>2. got \in Int /\ got <= fill.chunk
  BY <1>1, SMT DEF RingInv, CallbackReturns
<1>3. CASE got <= 0
  <2>1. PutEnds(fill.added, fill.pos)
    BY <1>3 DEF CallbackReturns
  <2>2. fill.added \in 0 .. fill.want /\ fill.pos \in Nat
    BY <1>1, SMT DEF FillBounds
  <2> QED
    BY <1>1, <2>1, <2>2, EndKeeps DEF FillBounds
<1>4. CASE ~(got <= 0)
  <2>1. got \in Nat \ {0} /\ added \in 0 .. fill.want /\ added \in Nat
    BY <1>1, <1>2, <1>4, SMT DEF FillBounds
  <2>2. pos \in Nat /\ pos < ringPackets /\ pos = (packetsRead + added) % ringPackets
    <3>1. /\ ringPackets \in Nat \ {0} /\ packetsRead + fill.added \in Nat
          /\ (packetsRead + fill.added) + got = packetsRead + added
          /\ fill.pos + got \in Nat
      BY <1>1, <2>1, SMT DEF FillBounds, RingInv
    <3>2. pos = (packetsRead + added) % ringPackets
      <4>1. pos = (((packetsRead + fill.added) % ringPackets) + got) % ringPackets
        BY <1>1, Zenon DEF NextPos, FillBounds
      <4>2. got \in Nat
        BY <2>1
      <4> DEFINE fed == packetsRead + fill.added
      <4>3. fed \in Nat /\ fed + got = packetsRead + added
        BY <3>1
      <4> HIDE DEF fed, added, pos
      <4>4. ((fed % ringPackets) + got) % ringPackets = (fed + got) % ringPackets
        BY <3>1, <4>2, <4>3, Advance
      <4> QED
        BY <4>1, <4>3, <4>4, Zenon DEF fed
    <3>3. pos \in 0 .. ringPackets - 1
      BY <3>1, DivMod DEF NextPos
    <3> QED
      BY <3>1, <3>2, <3>3
  <2>3. CASE got < fill.chunk \/ added = fill.want
    <3>1. PutEnds(added, pos)
      BY <1>4, <2>3 DEF CallbackReturns
    <3> HIDE DEF added, pos
    <3> QED
      BY <1>1, <2>1, <2>2, <3>1, EndKeeps
  <2>4. CASE ~(got < fill.chunk \/ added = fill.want)
    <3>1. /\ fill' = [fill EXCEPT !.added = added, !.pos = pos, !.chunk = Chunk(fill.want - added, pos)]
          /\ UNCHANGED <<ring, ctx, unread>>
      BY <1>4, <2>4 DEF CallbackReturns
    <3>2. fill.want - added \in Nat \ {0}
      BY <1>1, <2>1, <2>4, SMT DEF FillBounds
    <3> HIDE DEF added, pos
    <3> DEFINE chunk == Chunk(fill.want - added, pos)
    <3>3. /\ chunk \in Nat \ {0}
          /\ chunk <= fill.want - added /\ pos + chunk <= ringPackets
      BY <1>1, <2>2, <3>2, ChunkIs DEF RingInv
    <3> HIDE DEF chunk
    <3>4. /\ IsFill(fill')
          /\ fill'.avail = fill.avail /\ fill'.want = fill.want
          /\ fill'.added = added /\ fill'.pos = pos /\ fill'.chunk = chunk
      <4>1. fill' = [avail |-> fill.avail, want |-> fill.want, added |-> added, pos |-> pos,
                     slot |-> fill.slot, chunk |-> chunk]
        BY <1>1, <3>1, Zenon DEF FillBounds, IsFill, chunk
      <4> QED
        BY <4>1, Zenon DEF IsFill
    <3>5. /\ fill'.avail \in Nat /\ fill'.want \in Nat /\ fill'.added \in Nat /\ fill'.pos \in Nat
          /\ fill'.chunk \in Nat \ {0}
      BY <1>1, <2>1, <2>2, <3>3, <3>4 DEF FillBounds
    <3>6. fill'.added + fill'.chunk <= fill'.want
      BY <1>1, <2>1, <3>3, <3>4, SMT DEF FillBounds
    <3>7. FillBounds'
      BY <1>1, <2>2, <3>1, <3>3, <3>4, <3>5, <3>6 DEF FillBounds, ring
    <3> QED
      BY <3>1, <3>7 DEF MpegInv, RingInv, FillInv, ring
  <2> QED
    BY <2>3, <2>4
<1> QED
  BY <1>3, <1>4

-----------------------------------------------------------------------------
LEMMA MpegStep ==
    ASSUME MpegInv, [MpegNext]_mpegVars
    PROVE  /\ MpegInv'
           /\ \A s \in CtxSlots : ~ctx[s].videoEnd /\ ctx'[s].videoEnd =>
                                     unread = 0 /\ ctx[s].fed >= ctx[s].total
<1>1. ASSUME NEW n \in Sizes, ConstructRing(n) PROVE MpegInv' /\ UNCHANGED ctx
  BY <1>1, ConstructKeeps DEF ConstructRing
<1>2. ASSUME NEW m \in Movies, NEW onRing \in BOOLEAN, CreateMpeg(m, onRing)
      PROVE  MpegInv' /\ \A s \in CtxSlots : ctx'[s].videoEnd => ctx[s].videoEnd
  BY <1>2, CreateKeeps
<1>3. ASSUME NEW m \in Movies, DeleteMpeg(m)
      PROVE  MpegInv' /\ \A s \in CtxSlots : ctx'[s].videoEnd => ctx[s].videoEnd
  BY <1>3, DeleteKeeps
<1>4. ASSUME NEW m \in Movies, GetAvcAu(m)
      PROVE  /\ MpegInv'
             /\ \A s \in CtxSlots : ~ctx[s].videoEnd /\ ctx'[s].videoEnd =>
                                       unread = 0 /\ ctx[s].fed >= ctx[s].total
  BY <1>4, GetKeeps
<1>5. ASSUME NEW m \in Movies, NEW len \in Lengths, Analyze(m, len)
      PROVE  MpegInv' /\ \A s \in CtxSlots : ctx'[s].videoEnd => ctx[s].videoEnd
  BY <1>5, AnalyzeKeeps
<1>6. ASSUME NEW n \in 1 .. ringPackets + 1, NEW offered \in 0 .. ringPackets, PutBegin(n, offered)
      PROVE  MpegInv' /\ UNCHANGED ctx
  BY <1>6, BeginKeeps DEF PutBegin
<1>7. ASSUME NEW got \in -1 .. ringPackets, CallbackReturns(got)
      PROVE  MpegInv' /\ \A s \in CtxSlots : ctx'[s].videoEnd => ctx[s].videoEnd
  BY <1>7, CallbackKeeps
<1>8. CASE UNCHANGED mpegVars
  BY <1>8 DEF mpegVars, MpegInv, RingInv, FillInv, FillBounds, Filling
<1> QED
  BY <1>1, <1>2, <1>3, <1>4, <1>5, <1>6, <1>7, <1>8, Zenon DEF MpegNext

(* No packet is overwritten before it is taken, and the packets follow one *)
(* another round the ring (mpeg_ringbuffer_put).                           *)
THEOREM RingIsFilledRightly == MpegSpec => []RingFilledRightly
<1>1. MpegInv => RingFilledRightly
  <2> SUFFICES ASSUME MpegInv PROVE FillsOnlyFree /\ WritesInOrder
    BY DEF RingFilledRightly
  <2>1. FillsOnlyFree
    BY SMT DEF MpegInv, RingInv, FillInv, FillBounds, FillsOnlyFree
  <2>2. WritesInOrder
    BY DEF MpegInv, RingInv, WritesInOrder
  <2> QED
    BY <2>1, <2>2
<1>2. MpegInv /\ [MpegNext]_mpegVars => MpegInv'
  BY MpegStep
<1> QED
  BY MpegInitInv, <1>1, <1>2, PTL DEF MpegSpec

(* A movie ends only when all of it was fed and taken (mpeg_get_avc_au).   *)
THEOREM MovieEndsDrained == MpegSpec => EndsDrained
<1>1. MpegInv /\ [MpegNext]_mpegVars => MpegInv'
  BY MpegStep
<1>2. MpegInv /\ [MpegNext]_mpegVars =>
        [\A s \in CtxSlots :
            ~ctx[s].videoEnd /\ ctx'[s].videoEnd =>
               unread = 0 /\ ctx[s].fed >= ctx[s].total]_mpegVars
  BY MpegStep
<1> QED
  BY MpegInitInv, <1>1, <1>2, PTL DEF MpegSpec, EndsDrained

-----------------------------------------------------------------------------
(* Texels.                                                                 *)

(* A texture's registers, its sizes the powers of two up to 512.           *)
TexSizes == {1, 2, 4, 8, 16, 32, 64, 128, 256, 512}

LEMMA SizesAre ==
    ASSUME NEW s \in {2 ^ k : k \in 0..9}
    PROVE  s \in TexSizes
<1>1. PICK k \in 0..9 : s = 2 ^ k
  OBVIOUS
<1>2. /\ 2 ^ 0 = 1 /\ 2 ^ 1 = 2 /\ 2 ^ 2 = 4 /\ 2 ^ 3 = 8 /\ 2 ^ 4 = 16 /\ 2 ^ 5 = 32
      /\ 2 ^ 6 = 64 /\ 2 ^ 7 = 128 /\ 2 ^ 8 = 256 /\ 2 ^ 9 = 512
  OBVIOUS
<1>3. k = 0 \/ k = 1 \/ k = 2 \/ k = 3 \/ k = 4 \/ k = 5 \/ k = 6 \/ k = 7 \/ k = 8 \/ k = 9
  OBVIOUS
<1> QED  BY <1>1, <1>2, <1>3 DEF TexSizes

LEMMA TextureIs ==
    ASSUME NEW t \in Textures
    PROVE  /\ t.fmt \in 0..5 /\ t.swizzle \in BOOLEAN /\ t.clampU \in BOOLEAN /\ t.clampV \in BOOLEAN
           /\ t.w \in TexSizes /\ t.h \in TexSizes
           /\ Stride(t) \in Nat \ {0} /\ t.w <= Stride(t)
           /\ (Stride(t) * TexelBits(t.fmt)) % 128 = 0
<1>1. /\ t.fmt \in 0..5 /\ t.swizzle \in BOOLEAN /\ t.clampU \in BOOLEAN /\ t.clampV \in BOOLEAN
      /\ t.bufw \in Nat /\ t.w \in {2 ^ k : k \in 0..9} /\ t.h \in {2 ^ k : k \in 0..9}
      /\ t.w <= Stride(t) /\ (Stride(t) * TexelBits(t.fmt)) % 128 = 0
  BY TextureAssumption
<1>2. t.w \in TexSizes /\ t.h \in TexSizes
  BY <1>1, SizesAre
<1>3. Stride(t) \in Nat \ {0}
  BY <1>1, <1>2 DEF Stride, TexSizes
<1> QED  BY <1>1, <1>2, <1>3

-----------------------------------------------------------------------------
LEMMA DivideBy ==
    ASSUME NEW R \in Nat \ {0}, NEW n \in Int
    PROVE  \E q \in Int, r \in 0..R - 1 : n % R = r /\ n = R * q + r
<1>1. PICK q, r : q = n \div R /\ r = n % R
  OBVIOUS
<1>3. q \in Int /\ r \in 0..R - 1 /\ n = R * q + r
  BY <1>1
<1> QED  BY <1>1, <1>3

(* A coordinate is brought into the texture as the GPU brings it.          *)
LEMMA RemainderOf ==
    ASSUME NEW R \in Nat \ {0}, NEW q \in Int, NEW r \in 0..R - 1
    PROVE  (R * q + r) % R = r
OBVIOUS

LEMMA WrappedIs ==
    ASSUME NEW s \in TexSizes, NEW c \in Int
    PROVE  /\ (c % s) % 512 \in 0..s - 1
           /\ \A y \in 0..s - 1 : (c - y) % s = 0 <=> y = (c % s) % 512
           /\ c \in 0..s - 1 => (c % s) % 512 = c
<1>0. s \in Nat \ {0} /\ s <= 512
  BY DEF TexSizes
<1>1. PICK q \in Int, r \in 0..s - 1 : c % s = r /\ c = s * q + r
  BY <1>0, DivideBy
<1>2. (c % s) % 512 = r
  BY <1>0, <1>1
<1>3. ASSUME NEW y \in 0..s - 1 PROVE (c - y) % s = 0 <=> y = r
  <2>1. CASE y <= r
    <3>1. c - y = s * q + (r - y) /\ r - y \in 0..s - 1
      BY <1>0, <1>1, <2>1
    <3>2. (s * q + (r - y)) % s = r - y
      BY <1>0, <3>1, RemainderOf
    <3> QED  BY <1>1, <3>1, <3>2
  <2>2. CASE y > r
    <3>1. PICK p \in Int, m \in 0..s - 1 : p = q - 1 /\ m = r - y + s /\ m # 0
      BY <1>0, <1>1, <2>2
    <3>2. c - y = s * p + m
      BY <1>0, <1>1, <3>1
    <3>3. (s * p + m) % s = m
      BY <1>0, <3>1, RemainderOf
    <3> QED  BY <1>1, <2>2, <3>1, <3>2, <3>3
  <2> QED  BY <1>1, <2>1, <2>2
<1>4. ASSUME c \in 0..s - 1 PROVE r = c
  BY <1>0, <1>1, <1>4
<1> QED  BY <1>1, <1>2, <1>3, <1>4

LEMMA CoordIs ==
    ASSUME NEW s \in TexSizes, NEW c \in Int, NEW clamped \in BOOLEAN
    PROVE  /\ TexCoord(c, s, clamped) \in 0..s - 1
           /\ GpuTexel(c, s, clamped) = TexCoord(c, s, clamped)
           /\ c \in 0..s - 1 => TexCoord(c, s, clamped) = c
<1> DEFINE x == TexCoord(c, s, clamped)
<1>0. s \in Nat \ {0}
  BY DEF TexSizes
<1>1. CASE clamped
  <2>1. x = IF c < 0 THEN 0 ELSE IF c >= s THEN s - 1 ELSE c
    BY <1>1 DEF TexCoord
  <2>2. x \in 0..s - 1 /\ (c \in 0..s - 1 => x = c)
    BY <1>0, <2>1
  <2>3. \A y \in 0..s - 1 : (y = c \/ (c < 0 /\ y = 0) \/ (c >= s /\ y = s - 1)) <=> y = x
    BY <1>0, <2>1
  <2>4. GpuTexel(c, s, clamped) =
            CHOOSE y \in 0..s - 1 : (y = c \/ (c < 0 /\ y = 0) \/ (c >= s /\ y = s - 1))
    BY <1>1 DEF GpuTexel
  <2> HIDE DEF x
  <2>5. GpuTexel(c, s, clamped) = x
    BY <2>2, <2>3, <2>4
  <2> QED  BY <2>2, <2>5 DEF x
<1>2. CASE ~clamped
  <2>1. x = (c % s) % 512
    BY <1>2 DEF TexCoord
  <2>2. 0 \in 0..s - 1
    BY <1>0
  <2>3. x \in 0..s - 1 /\ (c \in 0..s - 1 => x = c)
    BY <2>1, <2>2, WrappedIs
  <2>4. \A y \in 0..s - 1 : (c - y) % s = 0 <=> y = x
    <3> SUFFICES ASSUME NEW y \in 0..s - 1 PROVE (c - y) % s = 0 <=> y = x
      OBVIOUS
    <3>1. (c - y) % s = 0 <=> y = (c % s) % 512
      BY WrappedIs
    <3> QED  BY <2>1, <3>1
  <2>5. GpuTexel(c, s, clamped) = CHOOSE y \in 0..s - 1 : (c - y) % s = 0
    BY <1>2 DEF GpuTexel
  <2> HIDE DEF x
  <2>6. GpuTexel(c, s, clamped) = x
    BY <2>3, <2>4, <2>5, Zenon
  <2> QED  BY <2>3, <2>6 DEF x
<1> QED  BY <1>1, <1>2

-----------------------------------------------------------------------------
(* The place of a texel, in texels: their units follow each other.         *)
TexelIndex(t, u, v) ==
    LET pw == 8 \div UnitsOf(t.fmt)
    IN IF t.swizzle
       THEN pw * ((v % 8) * 4 + (v \div 8) * (((Stride(t) * TexelBits(t.fmt)) \div 32) * 8)
                  + ((u \div pw) % 4) + ((u \div pw) \div 4) * 32) + (u % pw)
       ELSE v * Stride(t) + u

LEMMA WidthsAre ==
    ASSUME NEW f \in 0..5
    PROVE  \/ TexelBits(f) = 4 /\ UnitsOf(f) = 1 /\ f = 4
           \/ TexelBits(f) = 8 /\ UnitsOf(f) = 2 /\ f = 5
           \/ TexelBits(f) = 16 /\ UnitsOf(f) = 4 /\ f \in 0..2
           \/ TexelBits(f) = 32 /\ UnitsOf(f) = 8 /\ f = 3
BY DEF TexelBits, UnitsOf

LEMMA HalvesMultiply ==
    ASSUME NEW v \in Int, NEW x \in Int, NEW k \in Int, NEW y \in Int, y = k * x
    PROVE  k * (v * x) = v * y /\ v * x \in Int
OBVIOUS

LEMMA PlaceIs ==
    ASSUME NEW t \in Textures, NEW u \in Nat, NEW v \in Nat
    PROVE  Place(t, u, v) = UnitsOf(t.fmt) * TexelIndex(t, u, v)
<1> DEFINE S == Stride(t)
<1>0. t.fmt \in 0..5 /\ t.swizzle \in BOOLEAN /\ S \in Nat \ {0} /\ (S * TexelBits(t.fmt)) % 128 = 0
  BY TextureIs
<1> HIDE DEF S
<1>1. CASE ~t.swizzle
  <2>1. TexelOffset(t, u, v) = v * ((S * TexelBits(t.fmt)) \div 8) + (u * TexelBits(t.fmt)) \div 8
    BY <1>1 DEF TexelOffset, S
  <2>2. TexelIndex(t, u, v) = v * S + u
    BY <1>1 DEF TexelIndex, S
  <2>3. v * S \in Int
    BY <1>0
  <2>4. CASE t.fmt = 4
    <3>1. TexelBits(t.fmt) = 4 /\ UnitsOf(t.fmt) = 1
      BY <1>0, <2>4, WidthsAre
    <3>2. S = 2 * ((S * 4) \div 8) /\ (S * 4) \div 8 \in Int
      BY <1>0, <3>1
    <3>3. 2 * (v * ((S * 4) \div 8)) = v * S /\ v * ((S * 4) \div 8) \in Int
      BY <1>0, <3>2, HalvesMultiply
    <3>4. Place(t, u, v) = 2 * TexelOffset(t, u, v) + (u % 2)
      BY <2>4 DEF Place
    <3>5. 2 * ((u * 4) \div 8) + (u % 2) = u /\ (u * 4) \div 8 \in Int
      OBVIOUS
    <3>6. PICK a \in Int, c \in Int : a = v * ((S * 4) \div 8) /\ c = (u * 4) \div 8
      BY <3>3, <3>5
    <3>7. TexelOffset(t, u, v) = a + c /\ 2 * a = v * S /\ 2 * c + (u % 2) = u
      BY <2>1, <3>1, <3>3, <3>5, <3>6
    <3>8. Place(t, u, v) = v * S + u
      <4>1. PICK o \in Int, m \in Int : o = v * S /\ m = u % 2
        BY <2>3
      <4>2. Place(t, u, v) = 2 * (a + c) + m /\ 2 * a = o /\ 2 * c + m = u
        BY <3>4, <3>7, <4>1
      <4> QED  BY <4>1, <4>2
    <3>9. UnitsOf(t.fmt) * TexelIndex(t, u, v) = v * S + u
      BY <2>2, <2>3, <3>1
    <3> QED  BY <3>8, <3>9
  <2>5. CASE t.fmt # 4
    <3> DEFINE n == UnitsOf(t.fmt)
    <3>1. /\ n = 2 \/ n = 4 \/ n = 8
          /\ TexelBits(t.fmt) = 4 * n
      BY <1>0, <2>5, WidthsAre
    <3> HIDE DEF n
    <3>2. PICK b \in {1, 2, 4} : n = 2 * b
      BY <3>1
    <3>3. (S * (8 * b)) \div 8 = S * b /\ (u * (8 * b)) \div 8 = u * b
      BY <1>0, <3>2
    <3>4. b * (v * S) = v * (S * b) /\ v * (S * b) \in Int
      BY <1>0, <3>2
    <3>5. Place(t, u, v) = 2 * (v * (S * b) + u * b)
      <4>1. Place(t, u, v) = 2 * TexelOffset(t, u, v) + 0
        BY <2>5 DEF Place
      <4>2. TexelOffset(t, u, v) = v * (S * b) + u * b
        BY <2>1, <3>1, <3>2, <3>3
      <4>3. PICK a \in Int, c \in Int : a = v * (S * b) /\ c = u * b
        BY <3>2, <3>4
      <4> QED  BY <4>1, <4>2, <4>3
    <3>6. n * (v * S + u) = 2 * (b * (v * S) + u * b)
      BY <2>3, <3>2
    <3> QED  BY <2>2, <3>4, <3>5, <3>6 DEF n
  <2> QED  BY <2>4, <2>5
<1>2. CASE t.swizzle
  <2> DEFINE bits == TexelBits(t.fmt)
             pw == 32 \div bits
             word == (v % TileY) * TileX + TileRowStart(t, v)
                     + ((u \div pw) % TileX) + ((u \div pw) \div TileX) * (TileX * TileY)
             n == UnitsOf(t.fmt)
  <2>1. TexelOffset(t, u, v) = word * 4 + ((u % pw) * bits) \div 8
    BY <1>2 DEF TexelOffset
  <2>2. bits \in {4, 8, 16, 32} /\ pw = 8 \div n /\ bits = 4 * n /\ n \in {1, 2, 4, 8} /\ n * pw = 8
        /\ (bits = 4 <=> t.fmt = 4)
    BY <1>0, WidthsAre
  <2>3. word = (v % 8) * 4 + (v \div 8) * (((S * bits) \div 32) * 8)
               + ((u \div pw) % 4) + ((u \div pw) \div 4) * 32
    BY DEF TileX, TileY, TileRowStart, S
  <2>4. word \in Int
    <3>1. (S * bits) \div 32 \in Int
      BY <1>0, <2>2
    <3>2. (v \div 8) * (((S * bits) \div 32) * 8) \in Int
      BY <3>1
    <3>3. (u \div pw) \in Int
      BY <2>2
    <3> QED  BY <2>3, <3>2, <3>3
  <2>5. TexelIndex(t, u, v) = pw * word + (u % pw)
    BY <1>2, <2>2, <2>3 DEF TexelIndex, S
  <2>6. Place(t, u, v) = 2 * (word * 4 + ((u % pw) * bits) \div 8) + (IF t.fmt = 4 THEN u % 2 ELSE 0)
    BY <2>1 DEF Place
  <2> HIDE DEF bits, pw, word, n
  <2>7. CASE t.fmt = 4
    <3>1. bits = 4 /\ n = 1 /\ pw = 8
      BY <2>2, <2>7
    <3>2. 2 * (((u % 8) * 4) \div 8) + (u % 2) = u % 8
      OBVIOUS
    <3> QED  BY <2>4, <2>5, <2>6, <2>7, <3>1, <3>2 DEF n
  <2>8. CASE t.fmt # 4
    <3>1. bits = 8 \/ bits = 16 \/ bits = 32
      BY <2>2, <2>8
    <3>2. CASE bits = 8
      <4>1. n = 2 /\ pw = 4
        BY <2>2, <3>2
      <4> QED  BY <2>4, <2>5, <2>6, <2>8, <3>2, <4>1 DEF n
    <3>3. CASE bits = 16
      <4>1. n = 4 /\ pw = 2
        BY <2>2, <3>3
      <4> QED  BY <2>4, <2>5, <2>6, <2>8, <3>3, <4>1 DEF n
    <3>4. CASE bits = 32
      <4>1. n = 8 /\ pw = 1
        BY <2>2, <3>4
      <4> QED  BY <2>4, <2>5, <2>6, <2>8, <3>4, <4>1 DEF n
    <3> QED  BY <3>1, <3>2, <3>3, <3>4
  <2> QED  BY <2>7, <2>8
<1> QED  BY <1>0, <1>1, <1>2

-----------------------------------------------------------------------------
(* Numbers written with a mixed radix: the digits are told by the number,  *)
(* and the number is bounded as they are.                                  *)
LEMMA SameDigits ==
    ASSUME NEW R \in Nat \ {0}, NEW q1 \in Int, NEW q2 \in Int, NEW r1 \in 0..R - 1, NEW r2 \in 0..R - 1,
           R * q1 + r1 = R * q2 + r2
    PROVE  q1 = q2 /\ r1 = r2
<1>1. (R * q1 + r1) % R = r1 /\ (R * q2 + r2) % R = r2
  BY RemainderOf
<1>2. r1 = r2
  BY <1>1
<1>3. R * (q1 - q2) = 0
  BY <1>2
<1> QED  BY <1>2, <1>3

LEMMA DigitsBelow ==
    ASSUME NEW R \in Nat \ {0}, NEW Q \in Nat, NEW q \in 0..Q - 1, NEW r \in 0..R - 1
    PROVE  R * q + r \in 0..R * Q - 1
<1>1. PICK k \in Nat : Q = q + 1 + k
  <2>1. Q - (q + 1) \in Nat /\ Q = q + 1 + (Q - (q + 1))
    OBVIOUS
  <2> QED  BY <2>1
<1>2. R * Q = R * q + R + R * k
  BY <1>1
<1>3. R * k \in Nat /\ R * q \in Nat
  BY <1>1
<1> QED  BY <1>2, <1>3

(* The tiles of a row, and the digits of a swizzled texel's place: byte,   *)
(* word, row, and tile.                                                    *)
Tiles(t) == (Stride(t) * TexelBits(t.fmt)) \div 128
TileRows(t) == (t.h + 7) \div 8

LEMMA TilesAre ==
    ASSUME NEW t \in Textures
    PROVE  \E p \in {1, 2, 4, 8} :
               /\ p = 8 \div UnitsOf(t.fmt) /\ Tiles(t) \in Nat \ {0} /\ Stride(t) = p * (4 * Tiles(t))
               /\ (Stride(t) * TexelBits(t.fmt)) \div 32 = 4 * Tiles(t)
<1> DEFINE S == Stride(t)
           K == Tiles(t)
<1>1. S \in Nat \ {0} /\ (S * TexelBits(t.fmt)) % 128 = 0 /\ t.fmt \in 0..5
  BY TextureIs
<1>2. K = (S * TexelBits(t.fmt)) \div 128
  BY DEF Tiles
<1> HIDE DEF S, K
<1>3. CASE TexelBits(t.fmt) = 4 /\ UnitsOf(t.fmt) = 1
  <2>1. K \in Nat \ {0} /\ S = 8 * (4 * K) /\ (S * 4) \div 32 = 4 * K
    BY <1>1, <1>2, <1>3
  <2> QED  BY <1>3, <2>1 DEF S, K
<1>4. CASE TexelBits(t.fmt) = 8 /\ UnitsOf(t.fmt) = 2
  <2>1. K \in Nat \ {0} /\ S = 4 * (4 * K) /\ (S * 8) \div 32 = 4 * K
    BY <1>1, <1>2, <1>4
  <2> QED  BY <1>4, <2>1 DEF S, K
<1>5. CASE TexelBits(t.fmt) = 16 /\ UnitsOf(t.fmt) = 4
  <2>1. K \in Nat \ {0} /\ S = 2 * (4 * K) /\ (S * 16) \div 32 = 4 * K
    BY <1>1, <1>2, <1>5
  <2> QED  BY <1>5, <2>1 DEF S, K
<1>6. CASE TexelBits(t.fmt) = 32 /\ UnitsOf(t.fmt) = 8
  <2>1. K \in Nat \ {0} /\ S = 1 * (4 * K) /\ (S * 32) \div 32 = 4 * K
    BY <1>1, <1>2, <1>6
  <2> QED  BY <1>6, <2>1 DEF S, K
<1> QED  BY <1>1, <1>3, <1>4, <1>5, <1>6, WidthsAre

HasDigits(i, u, v, p, K, E) ==
    \E a \in 0..p - 1, b \in 0..3, c \in 0..K - 1, d \in 0..7, e \in 0..E - 1 :
        /\ u = p * (4 * c + b) + a /\ v = 8 * e + d
        /\ i = p * (32 * (K * e + c) + (4 * d + b)) + a

LEMMA SwizzledIs ==
    ASSUME NEW t \in Textures, t.swizzle, NEW u \in 0..t.w - 1, NEW v \in 0..t.h - 1,
           NEW p \in {1, 2, 4, 8}, p = 8 \div UnitsOf(t.fmt), NEW K, K = Tiles(t), NEW E, E = TileRows(t)
    PROVE  HasDigits(TexelIndex(t, u, v), u, v, p, K, E)
<1> DEFINE x == u \div p
           a == u % p
           b == x % 4
           c == x \div 4
           d == v % 8
           e == v \div 8
<1>1. /\ K \in Nat \ {0} /\ Stride(t) = p * (4 * K)
      /\ (Stride(t) * TexelBits(t.fmt)) \div 32 = 4 * K
  BY TilesAre
<1>2. t.w \in Nat /\ t.h \in Nat \ {0} /\ t.w <= Stride(t)
  BY TextureIs DEF TexSizes
<1>3. TexelIndex(t, u, v) = p * (d * 4 + e * ((4 * K) * 8) + b + c * 32) + a
  BY <1>1 DEF TexelIndex
<1>4. d \in 0..7 /\ e \in 0..E - 1 /\ v = 8 * e + d
  BY <1>2 DEF TileRows
<1> HIDE DEF d, e
<1>5. u \in Nat /\ u < p * (4 * K)
  BY <1>1, <1>2
<1>6. a \in 0..p - 1 /\ x \in Nat /\ u = p * x + a
  BY <1>5
<1>7. x < 4 * K
  <2>1. K \in Nat
    BY <1>1
  <2>2. CASE p = 1
    BY <1>5, <1>6, <2>1, <2>2
  <2>3. CASE p = 2
    BY <1>5, <1>6, <2>1, <2>3
  <2>4. CASE p = 4
    BY <1>5, <1>6, <2>1, <2>4
  <2>5. CASE p = 8
    BY <1>5, <1>6, <2>1, <2>5
  <2> QED  BY <2>2, <2>3, <2>4, <2>5
<1> HIDE DEF x, a
<1>8. b \in 0..3 /\ c \in 0..K - 1 /\ x = 4 * c + b
  BY <1>1, <1>6, <1>7
<1> HIDE DEF b, c
<1>9. PICK m \in Int : m = K * e
  BY <1>1, <1>4
<1>10. e * ((4 * K) * 8) = 32 * m
  BY <1>1, <1>4, <1>9
<1>11. d * 4 + e * ((4 * K) * 8) + b + c * 32 = 32 * (m + c) + (4 * d + b)
  BY <1>4, <1>8, <1>9, <1>10
<1>12. TexelIndex(t, u, v) = p * (32 * (K * e + c) + (4 * d + b)) + a
  BY <1>3, <1>9, <1>11
<1>13. u = p * (4 * c + b) + a
  BY <1>6, <1>8
<1> QED  BY <1>4, <1>6, <1>8, <1>12, <1>13 DEF HasDigits

LEMMA SameIndex ==
    ASSUME NEW t \in Textures, NEW u1 \in 0..t.w - 1, NEW v1 \in 0..t.h - 1,
           NEW u2 \in 0..t.w - 1, NEW v2 \in 0..t.h - 1, TexelIndex(t, u1, v1) = TexelIndex(t, u2, v2)
    PROVE  u1 = u2 /\ v1 = v2
<1>1. CASE ~t.swizzle
  <2>1. PICK S \in Nat \ {0} : S = Stride(t) /\ u1 \in 0..S - 1 /\ u2 \in 0..S - 1
    BY TextureIs DEF TexSizes
  <2>2. v1 \in Int /\ v2 \in Int
    OBVIOUS
  <2>3. S * v1 + u1 = S * v2 + u2
    BY <1>1, <2>1, <2>2 DEF TexelIndex
  <2> QED  BY <2>1, <2>2, <2>3, SameDigits
<1>2. CASE t.swizzle
  <2>1. PICK p \in {1, 2, 4, 8}, K \in Nat \ {0}, E \in Nat :
            p = 8 \div UnitsOf(t.fmt) /\ K = Tiles(t) /\ E = TileRows(t)
    BY TilesAre, TextureIs DEF TexSizes, TileRows
  <2>2. PICK a1 \in 0..p - 1, b1 \in 0..3, c1 \in 0..K - 1, d1 \in 0..7, e1 \in 0..E - 1 :
            /\ u1 = p * (4 * c1 + b1) + a1 /\ v1 = 8 * e1 + d1
            /\ TexelIndex(t, u1, v1) = p * (32 * (K * e1 + c1) + (4 * d1 + b1)) + a1
    <3>1. HasDigits(TexelIndex(t, u1, v1), u1, v1, p, K, E)
      BY <1>2, <2>1, SwizzledIs
    <3> QED  BY <3>1, Zenon DEF HasDigits
  <2>3. PICK a2 \in 0..p - 1, b2 \in 0..3, c2 \in 0..K - 1, d2 \in 0..7, e2 \in 0..E - 1 :
            /\ u2 = p * (4 * c2 + b2) + a2 /\ v2 = 8 * e2 + d2
            /\ TexelIndex(t, u2, v2) = p * (32 * (K * e2 + c2) + (4 * d2 + b2)) + a2
    <3>1. HasDigits(TexelIndex(t, u2, v2), u2, v2, p, K, E)
      BY <1>2, <2>1, SwizzledIs
    <3> QED  BY <3>1, Zenon DEF HasDigits
  <2>4. PICK m1 \in Int, m2 \in Int : m1 = K * e1 + c1 /\ m2 = K * e2 + c2
    OBVIOUS
  <2>5. p * (32 * m1 + (4 * d1 + b1)) + a1 = p * (32 * m2 + (4 * d2 + b2)) + a2
    BY <2>2, <2>3, <2>4
  <2>6. 32 * m1 + (4 * d1 + b1) = 32 * m2 + (4 * d2 + b2) /\ a1 = a2
    <3>1. 32 * m1 + (4 * d1 + b1) \in Int /\ 32 * m2 + (4 * d2 + b2) \in Int /\ p \in Nat \ {0}
      OBVIOUS
    <3> QED  BY <2>5, <3>1, SameDigits
  <2>7. m1 = m2 /\ b1 = b2 /\ d1 = d2
    BY <2>6
  <2>8. K * e1 + c1 = K * e2 + c2 /\ e1 \in Int /\ e2 \in Int
    BY <2>4, <2>7
  <2>9. e1 = e2 /\ c1 = c2
    BY <2>8, SameDigits
  <2> QED  BY <2>2, <2>3, <2>6, <2>7, <2>9
<1> QED  BY <1>1, <1>2, TextureIs

(* The rows a texture takes in memory.                                     *)
RowsOf(t) == IF t.swizzle THEN ((t.h + TileY - 1) \div TileY) * TileY ELSE t.h

LEMMA IndexBelow ==
    ASSUME NEW t \in Textures, NEW u \in 0..t.w - 1, NEW v \in 0..t.h - 1
    PROVE  TexelIndex(t, u, v) \in 0..Stride(t) * RowsOf(t) - 1
<1>1. CASE ~t.swizzle
  <2>1. PICK S \in Nat \ {0} : S = Stride(t) /\ u \in 0..S - 1 /\ t.h \in Nat
    BY TextureIs DEF TexSizes
  <2>2. TexelIndex(t, u, v) = S * v + u
    BY <1>1, <2>1 DEF TexelIndex
  <2>3. S * v + u \in 0..S * t.h - 1
    BY <2>1, DigitsBelow
  <2> QED  BY <1>1, <2>1, <2>2, <2>3 DEF RowsOf
<1>2. CASE t.swizzle
  <2>1. PICK p \in {1, 2, 4, 8}, K \in Nat \ {0} :
            p = 8 \div UnitsOf(t.fmt) /\ K = Tiles(t) /\ Stride(t) = p * (4 * K)
    BY TilesAre
  <2>2. PICK E \in Nat : E = TileRows(t) /\ RowsOf(t) = E * 8
    BY <1>2, TextureIs DEF TexSizes, TileRows, RowsOf, TileY
  <2>3. PICK a \in 0..p - 1, b \in 0..3, c \in 0..K - 1, d \in 0..7, e \in 0..E - 1 :
            /\ u = p * (4 * c + b) + a /\ v = 8 * e + d
            /\ TexelIndex(t, u, v) = p * (32 * (K * e + c) + (4 * d + b)) + a
    <3>1. HasDigits(TexelIndex(t, u, v), u, v, p, K, E)
      BY <1>2, <2>1, <2>2, SwizzledIs
    <3> QED  BY <3>1, Zenon DEF HasDigits
  <2>4. PICK M \in Nat : M = K * E
    OBVIOUS
  <2>5. PICK m \in 0..M - 1 : m = K * e + c
    BY <2>4, DigitsBelow
  <2>6. 32 * m + (4 * d + b) \in 0..32 * M - 1
    OBVIOUS
  <2>7. p * (32 * m + (4 * d + b)) + a \in 0..p * (32 * M) - 1
    <3>1. p \in Nat \ {0} /\ 32 * M \in Nat
      OBVIOUS
    <3> QED  BY <2>6, <3>1, DigitsBelow
  <2>8. (p * (4 * K)) * (E * 8) = p * (32 * M)
    BY <2>4
  <2> QED  BY <2>1, <2>2, <2>3, <2>5, <2>7, <2>8
<1> QED  BY <1>1, <1>2, TextureIs

LEMMA PlacesCount ==
    ASSUME NEW t \in Textures
    PROVE  Cardinality({Place(t, u, v) : u \in 0..t.w - 1, v \in 0..t.h - 1}) = t.w * t.h
<1> DEFINE U == 0..t.w - 1
           V == 0..t.h - 1
           at == {Place(t, u, v) : u \in U, v \in V}
           f == [z \in U \X V |-> Place(t, z[1], z[2])]
<1>1. t.w \in Nat \ {0} /\ t.h \in Nat \ {0}
  BY TextureIs DEF TexSizes
<1>2. /\ IsFiniteSet(U) /\ Cardinality(U) = t.w
      /\ IsFiniteSet(V) /\ Cardinality(V) = t.h
  <2>1. 0 \in Int /\ t.w - 1 \in Int /\ ~(0 > t.w - 1) /\ (t.w - 1) - 0 + 1 = t.w
    BY <1>1
  <2>2. t.h - 1 \in Int /\ ~(0 > t.h - 1) /\ (t.h - 1) - 0 + 1 = t.h
    BY <1>1
  <2>3. IsFiniteSet(U) /\ Cardinality(U) = IF 0 > t.w - 1 THEN 0 ELSE (t.w - 1) - 0 + 1
    BY <2>1, FS_Interval, Zenon
  <2>4. IsFiniteSet(V) /\ Cardinality(V) = IF 0 > t.h - 1 THEN 0 ELSE (t.h - 1) - 0 + 1
    BY <2>1, <2>2, FS_Interval, Zenon
  <2> QED  BY <2>1, <2>2, <2>3, <2>4
<1>3. IsFiniteSet(U \X V) /\ Cardinality(U \X V) = t.w * t.h
  BY <1>2, FS_Product
<1>4. f \in [U \X V -> at]
  OBVIOUS
<1>5. ASSUME NEW y \in U \X V, NEW z \in U \X V, f[y] = f[z] PROVE y = z
  <2>1. y[1] \in U /\ y[2] \in V /\ z[1] \in U /\ z[2] \in V /\ y = <<y[1], y[2]>> /\ z = <<z[1], z[2]>>
    OBVIOUS
  <2>2. Place(t, y[1], y[2]) = Place(t, z[1], z[2])
    BY <1>5
  <2>3. UnitsOf(t.fmt) * TexelIndex(t, y[1], y[2]) = UnitsOf(t.fmt) * TexelIndex(t, z[1], z[2])
    <3>1. y[1] \in Nat /\ y[2] \in Nat /\ z[1] \in Nat /\ z[2] \in Nat
      BY <1>1, <2>1
    <3> QED  BY <2>2, <3>1, PlaceIs
  <2>4. PICK i \in Int, j \in Int : i = TexelIndex(t, y[1], y[2]) /\ j = TexelIndex(t, z[1], z[2])
    BY <2>1, IndexBelow
  <2>5. UnitsOf(t.fmt) \in {1, 2, 4, 8}
    BY TextureIs, WidthsAre
  <2>6. i = j
    BY <2>3, <2>4, <2>5
  <2>7. PICK u1 \in 0..t.w - 1, v1 \in 0..t.h - 1, u2 \in 0..t.w - 1, v2 \in 0..t.h - 1 :
            u1 = y[1] /\ v1 = y[2] /\ u2 = z[1] /\ v2 = z[2]
    BY <2>1
  <2>8. TexelIndex(t, u1, v1) = TexelIndex(t, u2, v2)
    BY <2>4, <2>6, <2>7, Zenon
  <2>9. u1 = u2 /\ v1 = v2
    BY <2>8, SameIndex
  <2> QED  BY <2>1, <2>7, <2>9, Zenon
<1>6. ASSUME NEW p \in at PROVE \E z \in U \X V : f[z] = p
  <2>1. PICK u \in U, v \in V : p = Place(t, u, v)
    OBVIOUS
  <2>2. <<u, v>> \in U \X V /\ f[<<u, v>>] = p
    BY <2>1
  <2> QED  BY <2>2
<1> HIDE DEF U, V, at, f
<1>7. f \in Bijection(U \X V, at)
  BY <1>4, <1>5, <1>6, Fun_IsBij
<1>8. ExistsBijection(U \X V, at)
  BY <1>7 DEF ExistsBijection
<1>9. Cardinality(at) = t.w * t.h
  BY <1>3, <1>8, FS_Bijection
<1> QED  BY <1>9 DEF at, U, V

(* Every texel has a place of its own in the texture's rows.               *)
LEMMA ApartIs ==
    ASSUME texState \in Textures
    PROVE  TexelsApart
<1> DEFINE t == texState
           n == UnitsOf(t.fmt)
           at == {Place(t, u, v) : u \in 0..t.w - 1, v \in 0..t.h - 1}
<1>1. Cardinality(at) = t.w * t.h
  BY PlacesCount
<1>2. ASSUME NEW p \in at PROVE p % n = 0 /\ p \in 0..n * Stride(t) * RowsOf(t) - n
  <2>1. PICK u \in 0..t.w - 1, v \in 0..t.h - 1 : p = Place(t, u, v)
    OBVIOUS
  <2>2. t.w \in Nat /\ t.h \in Nat /\ Stride(t) \in Nat
    BY TextureIs DEF TexSizes
  <2>3. p = n * TexelIndex(t, u, v)
    BY <2>1, <2>2, PlaceIs
  <2>4. n \in {1, 2, 4, 8}
    BY TextureIs, WidthsAre
  <2>5. RowsOf(t) \in Nat
    BY <2>2 DEF RowsOf, TileY
  <2>6. PICK N \in Int : N = Stride(t) * RowsOf(t)
    BY <2>2, <2>5
  <2>7. PICK i \in 0..N - 1 : i = TexelIndex(t, u, v)
    BY <2>6, IndexBelow
  <2>8. n * Stride(t) * RowsOf(t) = n * N
    BY <2>2, <2>4, <2>5, <2>6
  <2>9. p = n * i
    BY <2>3, <2>7
  <2> HIDE DEF n
  <2>10. p % n = 0 /\ p \in 0..n * N - n
    BY <2>4, <2>9
  <2> QED  BY <2>8, <2>10
<1> QED  BY <1>1, <1>2 DEF TexelsApart, RowsOf

-----------------------------------------------------------------------------
(* The decoder reads a texel of the texture where the sampler does.        *)
LEMMA DecodedIs ==
    ASSUME NEW t \in Textures, NEW x \in 0..t.w - 1, NEW y \in 0..t.h - 1
    PROVE  DecodedAt(t, x, y) = Place(t, x, y)
<1>1. t.w \in TexSizes /\ t.h \in TexSizes /\ t.clampU \in BOOLEAN /\ t.clampV \in BOOLEAN
      /\ t.fmt \in 0..5 /\ t.swizzle \in BOOLEAN /\ Stride(t) \in Nat \ {0}
  BY TextureIs
<1>2. x \in Int /\ y \in Int
  BY <1>1 DEF TexSizes
<1>3. TexCoord(x, t.w, t.clampU) = x /\ TexCoord(y, t.h, t.clampV) = y
  BY <1>1, <1>2, CoordIs
<1>4. SampledAt(t, x, y) = Place(t, x, y)
  BY <1>3 DEF SampledAt
<1>5. CASE ~t.swizzle /\ t.fmt <= 3
  <2> DEFINE b == IF t.fmt = 3 THEN 4 ELSE 2
  <2>1. UnitsOf(t.fmt) = 2 * b
    BY <1>1, <1>5, WidthsAre
  <2>2. x \in Nat /\ y \in Nat
    BY <1>1 DEF TexSizes
  <2>3. Place(t, x, y) = (2 * b) * (y * Stride(t) + x)
    BY <1>5, <2>1, <2>2, PlaceIs DEF TexelIndex
  <2>4. DecodedAt(t, x, y) = 2 * (y * Stride(t) * b + x * b)
    BY <1>5 DEF DecodedAt
  <2>5. b \in {2, 4}
    OBVIOUS
  <2> HIDE DEF b
  <2>6. PICK m \in Int : m = y * Stride(t)
    BY <1>1, <1>2
  <2> QED  BY <1>2, <2>3, <2>4, <2>5, <2>6
<1>6. CASE ~(~t.swizzle /\ t.fmt <= 3)
  BY <1>4, <1>6 DEF DecodedAt
<1> QED  BY <1>5, <1>6

LEMMA SampledIs ==
    ASSUME NEW t \in Textures, NEW u \in Int, NEW v \in Int
    PROVE  SampledAt(t, u, v) = DecodedAt(t, GpuTexel(u, t.w, t.clampU), GpuTexel(v, t.h, t.clampV))
<1>1. t.w \in TexSizes /\ t.h \in TexSizes /\ t.clampU \in BOOLEAN /\ t.clampV \in BOOLEAN
  BY TextureIs
<1>2. /\ GpuTexel(u, t.w, t.clampU) \in 0..t.w - 1
      /\ GpuTexel(u, t.w, t.clampU) = TexCoord(u, t.w, t.clampU)
      /\ GpuTexel(v, t.h, t.clampV) \in 0..t.h - 1
      /\ GpuTexel(v, t.h, t.clampV) = TexCoord(v, t.h, t.clampV)
  BY <1>1, CoordIs
<1> QED  BY <1>2, DecodedIs DEF SampledAt

LEMMA AroundIs ==
    ASSUME NEW s \in TexSizes
    PROVE  Around(s) \subseteq Int
<1>1. PICK n \in Int, m \in Int : n = s /\ m = s \div 2
  BY DEF TexSizes
<1>2. Around(s) = {-n - 1, -1, 0, 1, m, n - 1, n, 2 * n + 1}
  BY <1>1 DEF Around
<1> QED  BY <1>2

(* The software sampler and the GPU see the same texels, at any coordinate.*)
LEMMA SameIs ==
    ASSUME texState \in Textures
    PROVE  SameTexels
<1>0. Around(texState.w) \subseteq Int /\ Around(texState.h) \subseteq Int
  BY TextureIs, AroundIs
<1> SUFFICES ASSUME NEW u \in Around(texState.w), NEW v \in Around(texState.h)
             PROVE  /\ SampledAt(texState, u, v) =
                           DecodedAt(texState, GpuTexel(u, texState.w, texState.clampU),
                                     GpuTexel(v, texState.h, texState.clampV))
                    /\ Mixed4(texState, u, v) =
                           {DecodedAt(texState, GpuTexel(u + i, texState.w, texState.clampU),
                                           GpuTexel(v + j, texState.h, texState.clampV)) : i, j \in {0, 1}}
  BY DEF SameTexels
<1>1. u \in Int /\ v \in Int
  BY <1>0
<1>2. \A i, j \in {0, 1} :
          SampledAt(texState, u + i, v + j) =
              DecodedAt(texState, GpuTexel(u + i, texState.w, texState.clampU),
                              GpuTexel(v + j, texState.h, texState.clampV))
  <2> SUFFICES ASSUME NEW i \in {0, 1}, NEW j \in {0, 1}
               PROVE  SampledAt(texState, u + i, v + j) =
                          DecodedAt(texState, GpuTexel(u + i, texState.w, texState.clampU),
                                          GpuTexel(v + j, texState.h, texState.clampV))
    OBVIOUS
  <2>1. u + i \in Int /\ v + j \in Int
    BY <1>1
  <2> QED  BY <2>1, SampledIs
<1>3. Mixed4(texState, u, v) =
          {DecodedAt(texState, GpuTexel(u + i, texState.w, texState.clampU),
                          GpuTexel(v + j, texState.h, texState.clampV)) : i, j \in {0, 1}}
  BY <1>2 DEF Mixed4
<1> QED  BY <1>1, <1>3, SampledIs

(* Whatever texture the game sets: each of its texels has bytes of its own *)
(* inside the texture's rows, and both back ends read the same of them     *)
(* (ge.c 505-582, 616-646).                                                *)
THEOREM TexelsLaidOut == TexelSpec => []TexelsAsLaidOut
<1> DEFINE Inv == texState \in Textures \cup {NoTexture}
<1>1. TexelInit => Inv
  BY DEF TexelInit
<1>2. Inv /\ [TexelNext]_texVars => Inv'
  BY DEF TexelNext, SetTexture, texVars
<1>3. Inv => TexelsAsLaidOut
  BY ApartIs, SameIs DEF TexelsAsLaidOut
<1> QED  BY <1>1, <1>2, <1>3, PTL DEF TexelSpec

-----------------------------------------------------------------------------
(* The near plane.                                                         *)

(* A vertex of the game's, at the i-th place of its primitive.             *)
Corner(v, i) ==
    v.z.n \in Int /\ v.z.d = 1 /\ v.w.n \in Int /\ v.w.d = 1 /\ v.at = [n |-> i, d |-> 1]

(* What a primitive is drawn as, once it is.                               *)
DrawnTriangle ==
    /\ Len(prim) = 3 /\ \A i \in 1..3 : Corner(prim[i], i)
    /\ rasterised = IF Accepted(prim) THEN Triangles(prim, beyond) ELSE <<>>
DrawnLine ==
    /\ Len(prim) = 2
    /\ rasterised = IF Accepted(prim) THEN Line(prim, beyond) ELSE <<>>
DrawnCorners ==
    /\ Len(prim) \in 1..2
    /\ rasterised = Corners2(prim)
ClipInv ==
    (prim = <<>> /\ rasterised = <<>>) \/ DrawnTriangle \/ DrawnLine \/ DrawnCorners

-----------------------------------------------------------------------------
(* How many of the three corners are in a set.                             *)
LEMMA ThreeAre == IsFiniteSet(1..3) /\ Cardinality(1..3) = 3
<1>1. 1 \in Int /\ 3 \in Int /\ ~(1 > 3) /\ 3 - 1 + 1 = 3
  OBVIOUS
<1>2. IsFiniteSet(1..3) /\ Cardinality(1..3) = IF 1 > 3 THEN 0 ELSE 3 - 1 + 1
  BY <1>1, FS_Interval, Zenon
<1> QED  BY <1>1, <1>2

LEMMA CountIs ==
    ASSUME NEW T, T \subseteq 1..3
    PROVE  /\ Cardinality(T) = 0 <=> T = {}
           /\ Cardinality(T) < 3 <=> T # 1..3
<1>1. /\ IsFiniteSet(T) /\ Cardinality(T) <= Cardinality(1..3)
      /\ (Cardinality(T) = Cardinality(1..3) => T = 1..3)
  BY ThreeAre, FS_Subset
<1>2. Cardinality(T) \in Nat
  BY <1>1, FS_CardinalityType
<1>3. Cardinality(T) = 0 <=> T = {}
  BY <1>1, FS_EmptySet
<1> QED  BY <1>1, <1>2, <1>3, ThreeAre

-----------------------------------------------------------------------------
(* Short sequences put together.                                           *)
LEMMA JoinIs ==
    ASSUME NEW S, NEW s \in Seq(S), NEW t \in Seq(S), NEW r \in Seq(S), Len(r) = Len(s) + Len(t),
           \A i \in 1..Len(r) : r[i] = IF i <= Len(s) THEN s[i] ELSE t[i - Len(s)]
    PROVE  s \o t = r
<1>1. /\ s \o t \in Seq(S) /\ Len(s \o t) = Len(r)
      /\ \A i \in 1..Len(s \o t) : (s \o t)[i] = r[i]
  BY ConcatProperties
<1> QED  BY <1>1, SeqEqual

LEMMA Joins ==
    ASSUME NEW x, NEW y, NEW z
    PROVE  /\ <<>> \o <<>> = <<>> /\ <<>> \o <<x>> = <<x>> /\ <<x>> \o <<>> = <<x>>
           /\ <<x, y>> \o <<>> = <<x, y>> /\ <<x, y, z>> \o <<>> = <<x, y, z>>
           /\ <<x>> \o <<y>> = <<x, y>>
           /\ <<x, y>> \o <<z>> = <<x, y, z>> /\ <<x>> \o <<y, z>> = <<x, y, z>>
<1> DEFINE S == {x, y, z}
<1>1. /\ <<>> \in Seq(S) /\ <<x>> \in Seq(S) /\ <<y>> \in Seq(S) /\ <<z>> \in Seq(S)
      /\ <<x, y>> \in Seq(S) /\ <<y, z>> \in Seq(S) /\ <<x, y, z>> \in Seq(S)
  OBVIOUS
<1> HIDE DEF S
<1>2. /\ <<>> \o <<>> = <<>> /\ <<>> \o <<x>> = <<x>> /\ <<x>> \o <<>> = <<x>>
      /\ <<x, y>> \o <<>> = <<x, y>> /\ <<x, y, z>> \o <<>> = <<x, y, z>>
  BY <1>1, ConcatEmptySeq
<1>3. <<x>> \o <<y>> = <<x, y>>
  <2> DEFINE s == <<x>>
             t == <<y>>
             r == <<x, y>>
  <2>1. s \in Seq(S) /\ t \in Seq(S) /\ r \in Seq(S)
    BY <1>1
  <2>2. /\ Len(s) = 1 /\ Len(t) = 1 /\ Len(r) = 2
        /\ r[1] = s[1] /\ r[2] = t[1]
    OBVIOUS
  <2> HIDE DEF s, t, r
  <2>3. /\ Len(r) = Len(s) + Len(t)
        /\ \A i \in 1..Len(r) : r[i] = IF i <= Len(s) THEN s[i] ELSE t[i - Len(s)]
    BY <2>2
  <2>4. s \o t = r
    BY <2>1, <2>3, JoinIs, Zenon
  <2> QED  BY <2>4 DEF s, t, r
<1>4. <<x, y>> \o <<z>> = <<x, y, z>>
  <2> DEFINE s == <<x, y>>
             t == <<z>>
             r == <<x, y, z>>
  <2>1. s \in Seq(S) /\ t \in Seq(S) /\ r \in Seq(S)
    BY <1>1
  <2>2. /\ Len(s) = 2 /\ Len(t) = 1 /\ Len(r) = 3
        /\ r[1] = s[1] /\ r[2] = s[2] /\ r[3] = t[1]
    OBVIOUS
  <2> HIDE DEF s, t, r
  <2>3. /\ Len(r) = Len(s) + Len(t)
        /\ \A i \in 1..Len(r) : r[i] = IF i <= Len(s) THEN s[i] ELSE t[i - Len(s)]
    BY <2>2
  <2>4. s \o t = r
    BY <2>1, <2>3, JoinIs, Zenon
  <2> QED  BY <2>4 DEF s, t, r
<1>5. <<x>> \o <<y, z>> = <<x, y, z>>
  <2> DEFINE s == <<x>>
             t == <<y, z>>
             r == <<x, y, z>>
  <2>1. s \in Seq(S) /\ t \in Seq(S) /\ r \in Seq(S)
    BY <1>1
  <2>2. /\ Len(s) = 1 /\ Len(t) = 2 /\ Len(r) = 3
        /\ r[1] = s[1] /\ r[2] = t[1] /\ r[3] = t[2]
    OBVIOUS
  <2> HIDE DEF s, t, r
  <2>3. /\ Len(r) = Len(s) + Len(t)
        /\ \A i \in 1..Len(r) : r[i] = IF i <= Len(s) THEN s[i] ELSE t[i - Len(s)]
    BY <2>2
  <2>4. s \o t = r
    BY <2>1, <2>3, JoinIs, Zenon
  <2> QED  BY <2>4 DEF s, t, r
<1> QED  BY <1>2, <1>3, <1>4, <1>5

LEMMA FourJoined ==
    \A x, y, z, u : /\ <<x, y>> \o <<z, u>> = <<x, y, z, u>>
                    /\ <<x, y, z>> \o <<u>> = <<x, y, z, u>>
<1> TAKE x, y, z, u
<1> DEFINE S == {x, y, z, u}
<1>1. /\ <<x, y>> \in Seq(S) /\ <<z, u>> \in Seq(S) /\ <<x, y, z>> \in Seq(S) /\ <<u>> \in Seq(S)
      /\ <<x, y, z, u>> \in Seq(S)
  OBVIOUS
<1> HIDE DEF S
<1>2. <<x, y>> \o <<z, u>> = <<x, y, z, u>>
  <2> DEFINE s == <<x, y>>
             t == <<z, u>>
             r == <<x, y, z, u>>
  <2>1. s \in Seq(S) /\ t \in Seq(S) /\ r \in Seq(S)
    BY <1>1
  <2>2. /\ Len(s) = 2 /\ Len(t) = 2 /\ Len(r) = 4
        /\ r[1] = s[1] /\ r[2] = s[2] /\ r[3] = t[1] /\ r[4] = t[2]
    OBVIOUS
  <2> HIDE DEF s, t, r
  <2>3. /\ Len(r) = Len(s) + Len(t)
        /\ \A i \in 1..Len(r) : r[i] = IF i <= Len(s) THEN s[i] ELSE t[i - Len(s)]
    BY <2>2
  <2>4. s \o t = r
    BY <2>1, <2>3, JoinIs, Zenon
  <2> QED  BY <2>4 DEF s, t, r
<1>3. <<x, y, z>> \o <<u>> = <<x, y, z, u>>
  <2> DEFINE s == <<x, y, z>>
             t == <<u>>
             r == <<x, y, z, u>>
  <2>1. s \in Seq(S) /\ t \in Seq(S) /\ r \in Seq(S)
    BY <1>1
  <2>2. /\ Len(s) = 3 /\ Len(t) = 1 /\ Len(r) = 4
        /\ r[1] = s[1] /\ r[2] = s[2] /\ r[3] = s[3] /\ r[4] = t[1]
    OBVIOUS
  <2> HIDE DEF s, t, r
  <2>3. /\ Len(r) = Len(s) + Len(t)
        /\ \A i \in 1..Len(r) : r[i] = IF i <= Len(s) THEN s[i] ELSE t[i - Len(s)]
    BY <2>2
  <2>4. s \o t = r
    BY <2>1, <2>3, JoinIs, Zenon
  <2> QED  BY <2>4 DEF s, t, r
<1> QED  BY <1>2, <1>3

(* A place between the lo-th and the hi-th corner.                         *)
InPlace(x, lo, hi) ==
    x.n \in Int /\ x.d \in Nat \ {0} /\ lo * x.d <= x.n /\ x.n <= hi * x.d

LEMMA PlacesInOrder ==
    ASSUME NEW x, NEW y, NEW a \in Int, NEW b \in Int, NEW c \in Int, NEW d \in Int,
           InPlace(x, a, b), InPlace(y, c, d), b <= c
    PROVE  ~Above(x, y)
<1>1. PICK n \in Int, e \in Nat \ {0} : n = x.n /\ e = x.d /\ n <= b * e
  BY DEF InPlace
<1>2. PICK m \in Int, f \in Nat \ {0} : m = y.n /\ f = y.d /\ c * f <= m
  BY DEF InPlace
<1>3. n * f <= (b * e) * f
  BY <1>1
<1>4. (b * e) * f <= (c * f) * e
  <2>1. (c - b) * (e * f) >= 0
    <3>1. c - b \in Nat /\ e * f \in Nat
      OBVIOUS
    <3> QED  BY <3>1
  <2> QED  BY <2>1
<1>5. (c * f) * e <= m * e
  BY <1>2
<1>6. n * f \in Int /\ (b * e) * f \in Int /\ (c * f) * e \in Int /\ m * e \in Int
  OBVIOUS
<1>7. n * f <= m * e
  BY <1>3, <1>4, <1>5, <1>6
<1> QED  BY <1>1, <1>2, <1>6, <1>7 DEF Above

LEMMA NearZIs ==
    ASSUME NEW v, NEW i, Corner(v, i)
    PROVE  NearZ(v) = v.z.n + v.w.n /\ NearZ(v) \in Int
BY DEF NearZ, Corner

(* The products of a created vertex, by the distances of its two ends.     *)
LEMMA Interpolated ==
    ASSUME NEW az \in Int, NEW aw \in Int, NEW bz \in Int, NEW bw \in Int,
           NEW da \in Int, NEW db \in Int, da = az + aw, db = bz + bw
    PROVE  /\ az * (da - db) + (bz - az) * da \in Int
           /\ aw * (da - db) + (bw - aw) * da \in Int
           /\ (az * (da - db) + (bz - az) * da) + (aw * (da - db) + (bw - aw) * da) = 0
           /\ aw * (da - db) + (bw - aw) * da = bw * da - aw * db
OBVIOUS

LEMMA CreatedIs ==
    ASSUME NEW a, NEW b, NEW i \in Int, NEW j, NEW out, Corner(a, i), Corner(b, j),
           Behind(a) # Behind(b)
    PROVE  /\ ~Behind(Created(a, b, out))
           /\ Created(a, b, out).w = WAcross(a, b)
           /\ Created(a, b, out).at = Ratio(i * (NearZ(a) - NearZ(b)) + NearZ(a), NearZ(a) - NearZ(b))
           /\ InPlace(Created(a, b, out).at, i, i + 1)
           /\ Created(a, b, out).oor = out
<1> DEFINE v == Created(a, b, out)
<1>1. PICK az \in Int, aw \in Int, bz \in Int, bw \in Int :
          az = a.z.n /\ aw = a.w.n /\ bz = b.z.n /\ bw = b.w.n
  BY DEF Corner
<1>2. PICK da \in Int, db \in Int : da = NearZ(a) /\ db = NearZ(b) /\ da = az + aw /\ db = bz + bw
  BY <1>1, NearZIs
<1>3. a.at.n = i
  BY DEF Corner
<1>4. PICK zn \in Int, wn \in Int :
          /\ zn = az * (da - db) + (bz - az) * da /\ wn = aw * (da - db) + (bw - aw) * da
          /\ zn + wn = 0 /\ wn = bw * da - aw * db
  BY <1>2, Interpolated
<1>5. /\ v.z = Ratio(zn, da - db) /\ v.w = Ratio(wn, da - db) /\ v.at = Ratio(i * (da - db) + da, da - db)
      /\ v.oor = out
  BY <1>1, <1>2, <1>3, <1>4 DEF Created
<1>6. v.w = WAcross(a, b)
  BY <1>1, <1>2, <1>4, <1>5 DEF WAcross
<1>7. (da < 0) # (db < 0)
  BY <1>2 DEF Behind
<1> HIDE DEF v
<1>8. CASE da >= 0 /\ db < 0
  <2>1. PICK d \in Nat \ {0} : d = da - db /\ da <= d
    BY <1>8
  <2>2. v.z = [n |-> zn, d |-> d] /\ v.w = [n |-> wn, d |-> d] /\ v.at = [n |-> i * d + da, d |-> d]
    BY <1>5, <2>1 DEF Ratio
  <2>3. NearZ(v) = zn * d + wn * d
    BY <2>2 DEF NearZ
  <2>4. zn * d + wn * d = (zn + wn) * d
    OBVIOUS
  <2>5. NearZ(v) = 0
    BY <1>4, <2>3, <2>4
  <2>6. i * d <= i * d + da /\ i * d + da <= (i + 1) * d /\ i * d + da \in Int
    BY <1>8, <2>1
  <2>7. InPlace(v.at, i, i + 1)
    BY <2>2, <2>6 DEF InPlace
  <2> QED  BY <1>2, <1>5, <1>6, <2>5, <2>7 DEF Behind, v
<1>9. CASE da < 0 /\ db >= 0
  <2>1. PICK d \in Nat \ {0} : d = -(da - db) /\ -da <= d /\ da - db < 0
    BY <1>9
  <2>2. v.z = [n |-> -zn, d |-> d] /\ v.w = [n |-> -wn, d |-> d]
        /\ v.at = [n |-> -(i * (da - db) + da), d |-> d]
    BY <1>5, <2>1 DEF Ratio
  <2>3. NearZ(v) = (-zn) * d + (-wn) * d
    BY <2>2 DEF NearZ
  <2>4. (-zn) * d + (-wn) * d = (-(zn + wn)) * d
    OBVIOUS
  <2>5. NearZ(v) = 0
    BY <1>4, <2>3, <2>4
  <2>6. -(i * (da - db) + da) = i * d + (-da)
    BY <2>1
  <2>7. i * d <= i * d + (-da) /\ i * d + (-da) <= (i + 1) * d /\ i * d + (-da) \in Int
    BY <1>9, <2>1
  <2>8. InPlace(v.at, i, i + 1)
    BY <2>2, <2>6, <2>7 DEF InPlace
  <2> QED  BY <1>2, <1>5, <1>6, <2>5, <2>8 DEF Behind, v
<1> QED  BY <1>7, <1>8, <1>9

-----------------------------------------------------------------------------
(* A vertex of the border of what is in front, at its place.               *)
OnBorder(v, lo, hi) == ~Behind(v) /\ v.at \in Border(prim) /\ InPlace(v.at, lo, hi)

LEMMA KeptIs ==
    ASSUME DrawnTriangle, NEW i \in 1..3, ~Behind(prim[i])
    PROVE  OnBorder(prim[i], i, i)
<1>1. Corner(prim[i], i)
  BY DEF DrawnTriangle
<1>2. [n |-> i, d |-> 1] \in Border(prim)
  BY DEF Border
<1>3. InPlace([n |-> i, d |-> 1], i, i)
  BY DEF InPlace
<1> QED  BY <1>1, <1>2, <1>3 DEF OnBorder, Corner

LEMMA MadeIs ==
    ASSUME DrawnTriangle, NEW i \in 1..3, NEW j \in 1..3, j = (i % 3) + 1, Behind(prim[i]) # Behind(prim[j]),
           NEW out
    PROVE  /\ OnBorder(Created(prim[i], prim[j], out), i, i + 1)
           /\ Created(prim[i], prim[j], out).oor = out
           /\ Created(prim[i], prim[j], out).w = WAcross(prim[i], prim[j])
<1>1. Corner(prim[i], i) /\ Corner(prim[j], j) /\ i \in Int
  BY DEF DrawnTriangle
<1>2. i \in Crossed(prim)
  BY DEF Crossed
<1>3. Ratio(i * (NearZ(prim[i]) - NearZ(prim[j])) + NearZ(prim[i]), NearZ(prim[i]) - NearZ(prim[j]))
          \in Border(prim)
  BY <1>2 DEF Border
<1> QED  BY <1>1, <1>3, CreatedIs DEF OnBorder

(* The triangles drawn of one, what the property says of them.             *)
AsTheBorder(s) ==
    \A k \in 1..Len(s) : Len(s[k]) = 3 /\ OfTheBorder(s[k]) /\ \A i \in 1..3 : InFront(s[k][i])

LEMMA FanIs ==
    ASSUME NEW x, NEW y, NEW z, NEW a \in Int, NEW b \in Int, NEW c \in Int, NEW d \in Int, NEW e \in Int, NEW f \in Int,
           OnBorder(x, a, b), OnBorder(y, c, d), OnBorder(z, e, f), b <= c, d <= e
    PROVE  /\ OfTheBorder(<<x, y, z>>)
           /\ IfWhole(<<x, y, z>>) = <<<<x, y, z>>>> \/ IfWhole(<<x, y, z>>) = <<>>
           /\ AsTheBorder(IfWhole(<<x, y, z>>))
           /\ ~Bad(x) /\ ~Bad(y) /\ ~Bad(z) => IfWhole(<<x, y, z>>) = <<<<x, y, z>>>>
<1> DEFINE t == <<x, y, z>>
<1>1. t[1] = x /\ t[2] = y /\ t[3] = z /\ Len(t) = 3
  OBVIOUS
<1>2. ~Above(x.at, y.at) /\ ~Above(y.at, z.at)
  BY PlacesInOrder DEF OnBorder
<1>3. \A v : OnBorder(v, a, b) \/ OnBorder(v, c, d) \/ OnBorder(v, e, f) => ~Above(v.at, v.at)
  BY DEF OnBorder, InPlace, Above
<1>4. \A i \in 1..3 : i = 1 \/ i = 2 \/ i = 3
  OBVIOUS
<1> HIDE DEF t
<1>5. OfTheBorder(t)
  <2>1. ASSUME NEW i \in 1..3
        PROVE  ~Behind(t[i]) /\ \E q \in Border(prim) : ~Above(q, t[i].at) /\ ~Above(t[i].at, q)
    <3>1. ~Behind(t[i]) /\ t[i].at \in Border(prim) /\ ~Above(t[i].at, t[i].at)
      BY <1>1, <1>3, <1>4 DEF OnBorder
    <3> QED  BY <3>1
  <2> QED  BY <1>1, <1>2, <2>1 DEF OfTheBorder
<1>6. IfWhole(t) = <<t>> \/ IfWhole(t) = <<>>
  BY DEF IfWhole
<1>7. IfWhole(t) = <<t>> => \A i \in 1..3 : InFront(t[i])
  <2>1. <<t>> # <<>>
    OBVIOUS
  <2> QED  BY <2>1 DEF IfWhole, Bad
<1>8. AsTheBorder(IfWhole(t))
  <2>1. CASE IfWhole(t) = <<t>>
    <3>1. \A k \in 1..Len(<<t>>) : <<t>>[k] = t
      OBVIOUS
    <3> QED  BY <1>1, <1>5, <1>7, <2>1, <3>1 DEF AsTheBorder
  <2>2. CASE IfWhole(t) = <<>>
    BY <2>2 DEF AsTheBorder
  <2> QED  BY <1>6, <2>1, <2>2
<1>9. ~Bad(x) /\ ~Bad(y) /\ ~Bad(z) => IfWhole(t) = <<t>>
  BY <1>1, <1>4 DEF IfWhole
<1> QED  BY <1>5, <1>6, <1>8, <1>9 DEF t

-----------------------------------------------------------------------------
(* How many places a border has.                                           *)
LEMMA AtMostFour ==
    ASSUME NEW x, NEW y, NEW z, NEW u
    PROVE  /\ Cardinality({x, y, z}) \in Nat /\ Cardinality({x, y, z}) <= 3
           /\ Cardinality({x, y, z, u}) \in Nat /\ Cardinality({x, y, z, u}) <= 4
<1>1. IsFiniteSet({x}) /\ Cardinality({x}) = 1
  BY FS_Singleton
<1>2. IsFiniteSet({x} \cup {y}) /\ Cardinality({x} \cup {y}) \in 1..2
  BY <1>1, FS_AddElement
<1>3. /\ IsFiniteSet(({x} \cup {y}) \cup {z})
      /\ Cardinality(({x} \cup {y}) \cup {z}) \in 1..3
  BY <1>2, FS_AddElement
<1>4. Cardinality((({x} \cup {y}) \cup {z}) \cup {u}) \in 1..4
  BY <1>3, FS_AddElement
<1>5. {x, y, z} = ({x} \cup {y}) \cup {z} /\ {x, y, z, u} = (({x} \cup {y}) \cup {z}) \cup {u}
  OBVIOUS
<1> QED  BY <1>3, <1>4, <1>5

Kept == {k \in 1..3 : ~Behind(prim[k])}
CrossAt(i) ==
    Ratio(i * (NearZ(prim[i]) - NearZ(prim[(i % 3) + 1])) + NearZ(prim[i]),
          NearZ(prim[i]) - NearZ(prim[(i % 3) + 1]))

LEMMA BorderIs ==
    Border(prim) = {[n |-> i, d |-> 1] : i \in Kept} \cup {CrossAt(i) : i \in Crossed(prim)}
BY DEF Border, Kept, CrossAt

LEMMA BorderOfTwo ==
    ASSUME NEW i, NEW j, NEW k, NEW l, Kept = {i, j}, Crossed(prim) = {k, l}
    PROVE  Cardinality(Border(prim)) \in Nat /\ Cardinality(Border(prim)) <= 4
<1>1. Border(prim) = {[n |-> i, d |-> 1], [n |-> j, d |-> 1], CrossAt(k), CrossAt(l)}
  BY BorderIs
<1> QED  BY <1>1, AtMostFour

LEMMA BorderOfOne ==
    ASSUME NEW i, NEW k, NEW l, Kept = {i}, Crossed(prim) = {k, l}
    PROVE  Cardinality(Border(prim)) \in Nat /\ Cardinality(Border(prim)) <= 3
<1>1. Border(prim) = {[n |-> i, d |-> 1], CrossAt(k), CrossAt(l)}
  BY BorderIs
<1> QED  BY <1>1, AtMostFour

LEMMA BorderOfAll ==
    ASSUME Kept = {1, 2, 3}, Crossed(prim) = {}
    PROVE  Cardinality(Border(prim)) \in Nat /\ Cardinality(Border(prim)) <= 3
<1>1. Border(prim) = {[n |-> 1, d |-> 1], [n |-> 2, d |-> 1], [n |-> 3, d |-> 1]}
  BY BorderIs
<1> QED  BY <1>1, AtMostFour

-----------------------------------------------------------------------------
LEMMA AcceptedIs ==
    ASSUME DrawnTriangle, Accepted(prim)
    PROVE  /\ \A i \in 1..3 : ~prim[i].oor
           /\ \E i \in 1..3 : ~Behind(prim[i])
<1> DEFINE O == {i \in 1..3 : Oor(prim[i])}
           H == {i \in 1..3 : Behind(prim[i])}
<1>1. Len(prim) = 3
  BY DEF DrawnTriangle
<1>2. Cardinality(O) = 0 /\ Cardinality(H) < 3
  BY <1>1 DEF Accepted, Count
<1>3. O = {} /\ H # 1..3
  BY <1>2, CountIs
<1> QED  BY <1>3 DEF Oor

(* A vertex of the border which is drawn if all of it can be.              *)
Part(v, lo, hi) == OnBorder(v, lo, hi) /\ (CanBeProjected(prim) => ~Bad(v))

LEMMA KeptPart ==
    ASSUME DrawnTriangle, Accepted(prim), NEW i \in 1..3, ~Behind(prim[i])
    PROVE  Part(prim[i], i, i)
BY KeptIs, AcceptedIs DEF Part, Bad, CanBeProjected

Crossing(i) == Created(prim[i], prim[(i % 3) + 1], i \in beyond)

LEMMA MadePart ==
    ASSUME DrawnTriangle, NEW i \in 1..3, i \in Crossed(prim)
    PROVE  Part(Crossing(i), i, i + 1)
<1>1. PICK j \in 1..3 : j = (i % 3) + 1
  OBVIOUS
<1>2. Behind(prim[i]) # Behind(prim[j])
  BY <1>1 DEF Crossed
<1>3. /\ OnBorder(Crossing(i), i, i + 1)
      /\ Crossing(i).oor = (i \in beyond)
      /\ Crossing(i).w = WAcross(prim[i], prim[j])
  BY <1>1, <1>2, MadeIs DEF Crossing
<1>4. ASSUME CanBeProjected(prim)
      PROVE  i \notin beyond /\ EPSILON * WAcross(prim[i], prim[j]).n > WAcross(prim[i], prim[j]).d
  BY <1>1, <1>4 DEF CanBeProjected
<1>5. ASSUME CanBeProjected(prim) PROVE ~Bad(Crossing(i))
  BY <1>3, <1>4, <1>5 DEF Bad, InFront
<1> QED  BY <1>3, <1>5 DEF Part

-----------------------------------------------------------------------------
(* Drawn right: what the property says of the triangles of a drawn one.    *)
LEMMA DrawnRight ==
    ASSUME Len(prim) = 3, AsTheBorder(rasterised),
           Accepted(prim) /\ CanBeProjected(prim) => Len(rasterised) >= Cardinality(Border(prim)) - 2
    PROVE  DrawsWhatIsInFront
BY DEF DrawsWhatIsInFront, DrawnOnes, AsTheBorder

LEMMA TwoTogether ==
    ASSUME NEW s, NEW t, NEW x, NEW y, s = <<x>> \/ s = <<>>, t = <<y>> \/ t = <<>>,
           AsTheBorder(s), AsTheBorder(t)
    PROVE  AsTheBorder(s \o t) /\ (s = <<x>> /\ t = <<y>> => Len(s \o t) = 2)
<1>1. CASE s = <<>>
  <2>1. s \o t = t
    BY <1>1
  <2> QED  BY <1>1, <2>1
<1>2. CASE s = <<x>> /\ t = <<>>
  <2>1. s \o t = s
    BY <1>2
  <2> QED  BY <1>2, <2>1
<1>3. CASE s = <<x>> /\ t = <<y>>
  <2>1. s \o t = <<x, y>>
    BY <1>3, Joins
  <2>2. Len(s) = 1 /\ s[1] = x /\ Len(t) = 1 /\ t[1] = y
    BY <1>3
  <2>3. /\ Len(x) = 3 /\ OfTheBorder(x) /\ \A i \in 1..3 : InFront(x[i])
        /\ Len(y) = 3 /\ OfTheBorder(y) /\ \A i \in 1..3 : InFront(y[i])
    BY <2>2 DEF AsTheBorder
  <2>4. \A k \in 1..Len(<<x, y>>) : <<x, y>>[k] = x \/ <<x, y>>[k] = y
    OBVIOUS
  <2> HIDE <1>3
  <2> QED  BY <2>1, <2>3, <2>4 DEF AsTheBorder
<1> QED  BY <1>1, <1>2, <1>3

LEMMA FanOfThree ==
    ASSUME DrawnTriangle, Accepted(prim), Count(prim, Behind) # 0,
           NEW x, NEW y, NEW z, NEW a \in Int, NEW b \in Int, NEW c \in Int, NEW d \in Int, NEW e \in Int, NEW f \in Int,
           Part(x, a, b), Part(y, c, d), Part(z, e, f), b <= c, d <= e,
           Clipped(prim, beyond) = <<x, y, z>>,
           Cardinality(Border(prim)) \in Nat, Cardinality(Border(prim)) <= 3
    PROVE  DrawsWhatIsInFront
<1>1. Triangles(prim, beyond) = IfWhole(<<x, y, z>>) \o <<>>
  <2>1. Len(<<x, y, z>>) = 3 /\ <<x, y, z>>[1] = x /\ <<x, y, z>>[2] = y /\ <<x, y, z>>[3] = z
    OBVIOUS
  <2> QED  BY <2>1 DEF Triangles
<1>2. /\ IfWhole(<<x, y, z>>) = <<<<x, y, z>>>> \/ IfWhole(<<x, y, z>>) = <<>>
      /\ AsTheBorder(IfWhole(<<x, y, z>>))
      /\ ~Bad(x) /\ ~Bad(y) /\ ~Bad(z) => IfWhole(<<x, y, z>>) = <<<<x, y, z>>>>
  BY FanIs DEF Part
<1>3. rasterised = IfWhole(<<x, y, z>>)
  <2>1. rasterised = IfWhole(<<x, y, z>>) \o <<>>
    BY <1>1 DEF DrawnTriangle
  <2> QED  BY <1>2, <2>1
<1>4. CanBeProjected(prim) => Len(rasterised) = 1
  <2>1. Len(<<<<x, y, z>>>>) = 1
    OBVIOUS
  <2> QED  BY <1>2, <1>3, <2>1 DEF Part
<1>5. Len(prim) = 3
  BY DEF DrawnTriangle
<1>6. CanBeProjected(prim) => Len(rasterised) >= Cardinality(Border(prim)) - 2
  <2>1. PICK n \in Int : n = Cardinality(Border(prim)) /\ n <= 3
    OBVIOUS
  <2>2. ASSUME CanBeProjected(prim) PROVE Len(rasterised) >= n - 2
    <3>1. Len(rasterised) = 1
      BY <1>4, <2>2
    <3> QED  BY <2>1, <3>1
  <2> QED  BY <2>1, <2>2
<1> QED  BY <1>2, <1>3, <1>5, <1>6, DrawnRight

LEMMA FanOfFour ==
    ASSUME DrawnTriangle, Accepted(prim), Count(prim, Behind) # 0,
           NEW x, NEW y, NEW z, NEW u,
           NEW a \in Int, NEW b \in Int, NEW c \in Int, NEW d \in Int, NEW e \in Int, NEW f \in Int,
           NEW g \in Int, NEW h \in Int,
           Part(x, a, b), Part(y, c, d), Part(z, e, f), Part(u, g, h), b <= c, c <= d, d <= e, f <= g,
           Clipped(prim, beyond) = <<x, y, z, u>>,
           Cardinality(Border(prim)) \in Nat, Cardinality(Border(prim)) <= 4
    PROVE  DrawsWhatIsInFront
<1> DEFINE s == IfWhole(<<x, y, z>>)
           t == IfWhole(<<x, z, u>>)
<1>1. Triangles(prim, beyond) = s \o t
  <2> DEFINE q == <<x, y, z, u>>
  <2>1. Len(q) = 4 /\ q[1] = x /\ q[2] = y /\ q[3] = z /\ q[4] = u
    OBVIOUS
  <2> QED  BY <2>1 DEF Triangles
<1>2. b <= e
  OBVIOUS
<1>3. /\ s = <<<<x, y, z>>>> \/ s = <<>>
      /\ AsTheBorder(s)
      /\ ~Bad(x) /\ ~Bad(y) /\ ~Bad(z) => s = <<<<x, y, z>>>>
  BY FanIs DEF Part
<1>4. /\ t = <<<<x, z, u>>>> \/ t = <<>>
      /\ AsTheBorder(t)
      /\ ~Bad(x) /\ ~Bad(z) /\ ~Bad(u) => t = <<<<x, z, u>>>>
  BY <1>2, FanIs DEF Part
<1> HIDE DEF s, t
<1>5. AsTheBorder(s \o t) /\ (s = <<<<x, y, z>>>> /\ t = <<<<x, z, u>>>> => Len(s \o t) = 2)
  BY <1>3, <1>4, TwoTogether
<1>6. rasterised = s \o t
  BY <1>1 DEF DrawnTriangle
<1>7. CanBeProjected(prim) => Len(rasterised) = 2
  BY <1>3, <1>4, <1>5, <1>6 DEF Part
<1>8. Len(prim) = 3
  BY DEF DrawnTriangle
<1>9. CanBeProjected(prim) => Len(rasterised) >= Cardinality(Border(prim)) - 2
  <2>1. PICK n \in Int : n = Cardinality(Border(prim)) /\ n <= 4
    OBVIOUS
  <2>2. ASSUME CanBeProjected(prim) PROVE Len(rasterised) >= n - 2
    <3>1. Len(rasterised) = 2
      BY <1>7, <2>2
    <3> QED  BY <2>1, <3>1
  <2> QED  BY <2>1, <2>2
<1> QED  BY <1>5, <1>6, <1>8, <1>9, DrawnRight

-----------------------------------------------------------------------------
LEMMA SideIs ==
    ASSUME NEW i \in 1..3
    PROVE  FromSide(prim, i, beyond) =
               IF Behind(prim[i]) THEN (IF Behind(prim[(i % 3) + 1]) THEN <<>> ELSE <<Crossing(i)>>)
               ELSE (IF Behind(prim[(i % 3) + 1]) THEN <<prim[i], Crossing(i)>> ELSE <<prim[i]>>)
<1>1. PICK A, B : A = prim[i] /\ B = prim[(i % 3) + 1]
  OBVIOUS
<1>2. FromSide(prim, i, beyond) =
          (IF Behind(A) THEN <<>> ELSE <<A>>)
          \o (IF Behind(A) # Behind(B) THEN <<Crossing(i)>> ELSE <<>>)
  BY <1>1 DEF FromSide, KeptFirst, Crossing
<1>3. CASE Behind(A) /\ Behind(B)
  BY <1>1, <1>2, <1>3, Joins
<1>4. CASE Behind(A) /\ ~Behind(B)
  BY <1>1, <1>2, <1>4, Joins
<1>5. CASE ~Behind(A) /\ Behind(B)
  BY <1>1, <1>2, <1>5, Joins
<1>6. CASE ~Behind(A) /\ ~Behind(B)
  <2>1. FromSide(prim, i, beyond) = <<A>> \o <<>>
    <3>1. ~(Behind(A) # Behind(B))
      BY <1>6 DEF Behind
    <3> QED  BY <1>2, <1>6, <3>1, Zenon
  <2>2. FromSide(prim, i, beyond) = <<A>>
    BY <2>1, Joins
  <2> QED  BY <1>1, <1>6, <2>2
<1> QED  BY <1>3, <1>4, <1>5, <1>6

LEMMA SidesAre ==
    ASSUME NEW A, NEW B, NEW C, A = Behind(prim[1]), B = Behind(prim[2]), C = Behind(prim[3])
    PROVE  /\ FromSide(prim, 1, beyond) =
                  IF A THEN (IF B THEN <<>> ELSE <<Crossing(1)>>)
                  ELSE (IF B THEN <<prim[1], Crossing(1)>> ELSE <<prim[1]>>)
           /\ FromSide(prim, 2, beyond) =
                  IF B THEN (IF C THEN <<>> ELSE <<Crossing(2)>>)
                  ELSE (IF C THEN <<prim[2], Crossing(2)>> ELSE <<prim[2]>>)
           /\ FromSide(prim, 3, beyond) =
                  IF C THEN (IF A THEN <<>> ELSE <<Crossing(3)>>)
                  ELSE (IF A THEN <<prim[3], Crossing(3)>> ELSE <<prim[3]>>)
           /\ 1 \in Crossed(prim) <=> (A # B)
           /\ 2 \in Crossed(prim) <=> (B # C)
           /\ 3 \in Crossed(prim) <=> (C # A)
<1>1. (1 % 3) + 1 = 2 /\ (2 % 3) + 1 = 3 /\ (3 % 3) + 1 = 1 /\ 1 \in 1..3 /\ 2 \in 1..3 /\ 3 \in 1..3
  OBVIOUS
<1>2. /\ 1 \in Crossed(prim) <=> (A # B)
      /\ 2 \in Crossed(prim) <=> (B # C)
      /\ 3 \in Crossed(prim) <=> (C # A)
  BY <1>1 DEF Crossed
<1> QED  BY <1>1, <1>2, SideIs

LEMMA BehindAre ==
    /\ \A i \in {1, 2, 3} : i \in Kept <=> ~Behind(prim[i])
    /\ Kept \subseteq {1, 2, 3} /\ Crossed(prim) \subseteq {1, 2, 3}
    /\ 1 \in Crossed(prim) <=> ~(Behind(prim[1]) <=> Behind(prim[2]))
    /\ 2 \in Crossed(prim) <=> ~(Behind(prim[2]) <=> Behind(prim[3]))
    /\ 3 \in Crossed(prim) <=> ~(Behind(prim[3]) <=> Behind(prim[1]))
<1>1. 1..3 = {1, 2, 3} /\ (1 % 3) + 1 = 2 /\ (2 % 3) + 1 = 3 /\ (3 % 3) + 1 = 1
  OBVIOUS
<1>2. \A v, w : (Behind(v) # Behind(w)) <=> ~(Behind(v) <=> Behind(w))
  BY DEF Behind
<1> QED  BY <1>1, <1>2 DEF Kept, Crossed

LEMMA SomeBehind ==
    ASSUME DrawnTriangle, \E i \in {1, 2, 3} : Behind(prim[i])
    PROVE  Count(prim, Behind) # 0
<1>1. Count(prim, Behind) = Cardinality({i \in 1..3 : Behind(prim[i])})
  BY DEF Count, DrawnTriangle
<1>2. {i \in 1..3 : Behind(prim[i])} # {} /\ {i \in 1..3 : Behind(prim[i])} \subseteq 1..3
  OBVIOUS
<1> QED  BY <1>1, <1>2, CountIs

(* What is drawn of a triangle, by which of its corners are behind.        *)
LEMMA NoneBehind ==
    ASSUME DrawnTriangle, Accepted(prim), \A i \in 1..3 : ~Behind(prim[i])
    PROVE  DrawsWhatIsInFront
<1>1. Len(prim) = 3
  BY DEF DrawnTriangle
<1>2. Count(prim, Behind) = 0
  <2>1. {i \in 1..3 : Behind(prim[i])} = {}
    OBVIOUS
  <2> QED  BY <1>1, <2>1, FS_EmptySet DEF Count
<1>3. rasterised = IF \A i \in 1..3 : InFront(prim[i]) THEN <<prim>> ELSE <<>>
  BY <1>2 DEF DrawnTriangle, Triangles
<1>4. Part(prim[1], 1, 1) /\ Part(prim[2], 2, 2) /\ Part(prim[3], 3, 3)
  BY KeptPart
<1>5. OfTheBorder(prim)
  <2>1. \A i \in 1..3 : ~Behind(prim[i]) /\ prim[i].at \in Border(prim) /\ ~Above(prim[i].at, prim[i].at)
    <3>1. \A i \in 1..3 : i = 1 \/ i = 2 \/ i = 3
      OBVIOUS
    <3>2. \A v, k : OnBorder(v, k, k) => ~Behind(v) /\ v.at \in Border(prim) /\ ~Above(v.at, v.at)
      BY DEF OnBorder, InPlace, Above
    <3> QED  BY <1>4, <3>1, <3>2 DEF Part
  <2>2. ~Above(prim[1].at, prim[2].at) /\ ~Above(prim[2].at, prim[3].at)
    <3>1. 1 \in Int /\ 2 \in Int /\ 3 \in Int /\ 1 <= 2 /\ 2 <= 3
      OBVIOUS
    <3> QED  BY <1>4, <3>1, PlacesInOrder DEF Part, OnBorder
  <2> QED  BY <2>1, <2>2 DEF OfTheBorder
<1>6. Kept = {1, 2, 3} /\ Crossed(prim) = {}
  <2>1. Kept = 1..3
    BY DEF Kept
  <2>2. \A i \in 1..3 : (i % 3) + 1 \in 1..3
    OBVIOUS
  <2>3. \A i \in 1..3 : ~(Behind(prim[i]) # Behind(prim[(i % 3) + 1]))
    BY <2>2 DEF Behind
  <2>4. 1..3 = {1, 2, 3}
    OBVIOUS
  <2> QED  BY <2>1, <2>3, <2>4 DEF Crossed
<1>7. PICK n \in Nat : n = Cardinality(Border(prim)) /\ n <= 3
  BY <1>6, BorderOfAll
<1>8. CASE \A i \in 1..3 : InFront(prim[i])
  <2>1. rasterised = <<prim>>
    BY <1>3, <1>8
  <2>2. Len(rasterised) = 1 /\ rasterised[1] = prim
    BY <2>1
  <2>3. AsTheBorder(rasterised)
    BY <1>1, <1>5, <1>8, <2>2 DEF AsTheBorder
  <2>4. Len(rasterised) >= Cardinality(Border(prim)) - 2
    BY <1>7, <2>2
  <2> QED  BY <1>1, <2>3, <2>4, DrawnRight
<1>9. CASE ~(\A i \in 1..3 : InFront(prim[i]))
  <2>1. rasterised = <<>>
    BY <1>3, <1>9
  <2>2. AsTheBorder(rasterised)
    BY <2>1 DEF AsTheBorder
  <2>3. ~CanBeProjected(prim)
    BY <1>9 DEF CanBeProjected
  <2> QED  BY <1>1, <2>2, <2>3, DrawnRight
<1> QED  BY <1>8, <1>9

LEMMA OneBehind1 ==
    ASSUME DrawnTriangle, Accepted(prim), Behind(prim[1]), ~Behind(prim[2]), ~Behind(prim[3])
    PROVE  DrawsWhatIsInFront
<1>1. /\ FromSide(prim, 1, beyond) = <<Crossing(1)>>
      /\ FromSide(prim, 2, beyond) = <<prim[2]>>
      /\ FromSide(prim, 3, beyond) = <<prim[3], Crossing(3)>>
  BY SidesAre
<1>2. Clipped(prim, beyond) = <<Crossing(1), prim[2], prim[3], Crossing(3)>>
  <2>1. <<Crossing(1)>> \o <<prim[2]>> = <<Crossing(1), prim[2]>>
    BY Joins
  <2>2. <<Crossing(1), prim[2]>> \o <<prim[3], Crossing(3)>> = <<Crossing(1), prim[2], prim[3], Crossing(3)>>
    BY FourJoined
  <2> QED  BY <1>1, <2>1, <2>2 DEF Clipped
<1>3. Kept = {2, 3} /\ Crossed(prim) = {1, 3}
  BY BehindAre DEF Kept
<1>4. /\ Part(Crossing(1), 1, 2)
      /\ Part(prim[2], 2, 2)
      /\ Part(prim[3], 3, 3)
      /\ Part(Crossing(3), 3, 4)
  BY <1>3, KeptPart, MadePart
<1>5. Cardinality(Border(prim)) \in Nat /\ Cardinality(Border(prim)) <= 4
  BY <1>3, BorderOfTwo
<1>6. Count(prim, Behind) # 0
  BY SomeBehind
<1>7. 1 \in Int /\ 2 \in Int /\ 3 \in Int /\ 4 \in Int /\ 2 <= 2 /\ 2 <= 3 /\ 3 <= 3
  OBVIOUS
<1> QED  BY <1>2, <1>4, <1>5, <1>6, <1>7, FanOfFour

LEMMA OneBehind2 ==
    ASSUME DrawnTriangle, Accepted(prim), ~Behind(prim[1]), Behind(prim[2]), ~Behind(prim[3])
    PROVE  DrawsWhatIsInFront
<1>1. /\ FromSide(prim, 1, beyond) = <<prim[1], Crossing(1)>>
      /\ FromSide(prim, 2, beyond) = <<Crossing(2)>>
      /\ FromSide(prim, 3, beyond) = <<prim[3]>>
  BY SidesAre
<1>2. Clipped(prim, beyond) = <<prim[1], Crossing(1), Crossing(2), prim[3]>>
  <2>1. <<prim[1], Crossing(1)>> \o <<Crossing(2)>> = <<prim[1], Crossing(1), Crossing(2)>>
    BY Joins
  <2>2. <<prim[1], Crossing(1), Crossing(2)>> \o <<prim[3]>> = <<prim[1], Crossing(1), Crossing(2), prim[3]>>
    BY FourJoined
  <2> QED  BY <1>1, <2>1, <2>2 DEF Clipped
<1>3. Kept = {1, 3} /\ Crossed(prim) = {1, 2}
  BY BehindAre DEF Kept
<1>4. /\ Part(prim[1], 1, 1)
      /\ Part(Crossing(1), 1, 2)
      /\ Part(Crossing(2), 2, 3)
      /\ Part(prim[3], 3, 3)
  BY <1>3, KeptPart, MadePart
<1>5. Cardinality(Border(prim)) \in Nat /\ Cardinality(Border(prim)) <= 4
  BY <1>3, BorderOfTwo
<1>6. Count(prim, Behind) # 0
  BY SomeBehind
<1>7. 1 \in Int /\ 2 \in Int /\ 3 \in Int /\ 1 <= 1 /\ 1 <= 2 /\ 2 <= 2 /\ 3 <= 3
  OBVIOUS
<1> QED  BY <1>2, <1>4, <1>5, <1>6, <1>7, FanOfFour

LEMMA OneBehind3 ==
    ASSUME DrawnTriangle, Accepted(prim), ~Behind(prim[1]), ~Behind(prim[2]), Behind(prim[3])
    PROVE  DrawsWhatIsInFront
<1>1. /\ FromSide(prim, 1, beyond) = <<prim[1]>>
      /\ FromSide(prim, 2, beyond) = <<prim[2], Crossing(2)>>
      /\ FromSide(prim, 3, beyond) = <<Crossing(3)>>
  BY SidesAre
<1>2. Clipped(prim, beyond) = <<prim[1], prim[2], Crossing(2), Crossing(3)>>
  <2>1. <<prim[1]>> \o <<prim[2], Crossing(2)>> = <<prim[1], prim[2], Crossing(2)>>
    BY Joins
  <2>2. <<prim[1], prim[2], Crossing(2)>> \o <<Crossing(3)>> = <<prim[1], prim[2], Crossing(2), Crossing(3)>>
    BY FourJoined
  <2> QED  BY <1>1, <2>1, <2>2 DEF Clipped
<1>3. Kept = {1, 2} /\ Crossed(prim) = {2, 3}
  BY BehindAre DEF Kept
<1>4. /\ Part(prim[1], 1, 1)
      /\ Part(prim[2], 2, 2)
      /\ Part(Crossing(2), 2, 3)
      /\ Part(Crossing(3), 3, 4)
  BY <1>3, KeptPart, MadePart
<1>5. Cardinality(Border(prim)) \in Nat /\ Cardinality(Border(prim)) <= 4
  BY <1>3, BorderOfTwo
<1>6. Count(prim, Behind) # 0
  BY SomeBehind
<1>7. 1 \in Int /\ 2 \in Int /\ 3 \in Int /\ 4 \in Int /\ 1 <= 2 /\ 2 <= 2 /\ 3 <= 3
  OBVIOUS
<1> QED  BY <1>2, <1>4, <1>5, <1>6, <1>7, FanOfFour

LEMMA TwoBehind3 ==
    ASSUME DrawnTriangle, Accepted(prim), Behind(prim[1]), Behind(prim[2]), ~Behind(prim[3])
    PROVE  DrawsWhatIsInFront
<1>1. /\ FromSide(prim, 1, beyond) = <<>>
      /\ FromSide(prim, 2, beyond) = <<Crossing(2)>>
      /\ FromSide(prim, 3, beyond) = <<prim[3], Crossing(3)>>
  BY SidesAre
<1>2. Clipped(prim, beyond) = <<Crossing(2), prim[3], Crossing(3)>>
  <2>1. <<>> \o <<Crossing(2)>> = <<Crossing(2)>>
    BY Joins
  <2>2. <<Crossing(2)>> \o <<prim[3], Crossing(3)>> = <<Crossing(2), prim[3], Crossing(3)>>
    BY Joins
  <2> QED  BY <1>1, <2>1, <2>2 DEF Clipped
<1>3. Kept = {3} /\ Crossed(prim) = {2, 3}
  BY BehindAre DEF Kept
<1>4. /\ Part(Crossing(2), 2, 3)
      /\ Part(prim[3], 3, 3)
      /\ Part(Crossing(3), 3, 4)
  BY <1>3, KeptPart, MadePart
<1>5. Cardinality(Border(prim)) \in Nat /\ Cardinality(Border(prim)) <= 3
  BY <1>3, BorderOfOne
<1>6. Count(prim, Behind) # 0
  BY SomeBehind
<1>7. 2 \in Int /\ 3 \in Int /\ 4 \in Int /\ 3 <= 3
  OBVIOUS
<1> QED  BY <1>2, <1>4, <1>5, <1>6, <1>7, FanOfThree

LEMMA TwoBehind1 ==
    ASSUME DrawnTriangle, Accepted(prim), ~Behind(prim[1]), Behind(prim[2]), Behind(prim[3])
    PROVE  DrawsWhatIsInFront
<1>1. /\ FromSide(prim, 1, beyond) = <<prim[1], Crossing(1)>>
      /\ FromSide(prim, 2, beyond) = <<>>
      /\ FromSide(prim, 3, beyond) = <<Crossing(3)>>
  BY SidesAre
<1>2. Clipped(prim, beyond) = <<prim[1], Crossing(1), Crossing(3)>>
  <2>1. <<prim[1], Crossing(1)>> \o <<>> = <<prim[1], Crossing(1)>>
    BY Joins
  <2>2. <<prim[1], Crossing(1)>> \o <<Crossing(3)>> = <<prim[1], Crossing(1), Crossing(3)>>
    BY Joins
  <2> QED  BY <1>1, <2>1, <2>2 DEF Clipped
<1>3. Kept = {1} /\ Crossed(prim) = {1, 3}
  BY BehindAre DEF Kept
<1>4. /\ Part(prim[1], 1, 1)
      /\ Part(Crossing(1), 1, 2)
      /\ Part(Crossing(3), 3, 4)
  BY <1>3, KeptPart, MadePart
<1>5. Cardinality(Border(prim)) \in Nat /\ Cardinality(Border(prim)) <= 3
  BY <1>3, BorderOfOne
<1>6. Count(prim, Behind) # 0
  BY SomeBehind
<1>7. 1 \in Int /\ 2 \in Int /\ 3 \in Int /\ 4 \in Int /\ 1 <= 1 /\ 2 <= 3
  OBVIOUS
<1> QED  BY <1>2, <1>4, <1>5, <1>6, <1>7, FanOfThree

LEMMA TwoBehind2 ==
    ASSUME DrawnTriangle, Accepted(prim), Behind(prim[1]), ~Behind(prim[2]), Behind(prim[3])
    PROVE  DrawsWhatIsInFront
<1>1. /\ FromSide(prim, 1, beyond) = <<Crossing(1)>>
      /\ FromSide(prim, 2, beyond) = <<prim[2], Crossing(2)>>
      /\ FromSide(prim, 3, beyond) = <<>>
  BY SidesAre
<1>2. Clipped(prim, beyond) = <<Crossing(1), prim[2], Crossing(2)>>
  <2>1. <<Crossing(1)>> \o <<prim[2], Crossing(2)>> = <<Crossing(1), prim[2], Crossing(2)>>
    BY Joins
  <2>2. <<Crossing(1), prim[2], Crossing(2)>> \o <<>> = <<Crossing(1), prim[2], Crossing(2)>>
    BY Joins
  <2> QED  BY <1>1, <2>1, <2>2 DEF Clipped
<1>3. Kept = {2} /\ Crossed(prim) = {1, 2}
  BY BehindAre DEF Kept
<1>4. /\ Part(Crossing(1), 1, 2)
      /\ Part(prim[2], 2, 2)
      /\ Part(Crossing(2), 2, 3)
  BY <1>3, KeptPart, MadePart
<1>5. Cardinality(Border(prim)) \in Nat /\ Cardinality(Border(prim)) <= 3
  BY <1>3, BorderOfOne
<1>6. Count(prim, Behind) # 0
  BY SomeBehind
<1>7. 1 \in Int /\ 2 \in Int /\ 3 \in Int /\ 2 <= 2
  OBVIOUS
<1> QED  BY <1>2, <1>4, <1>5, <1>6, <1>7, FanOfThree


LEMMA TriangleRight == DrawnTriangle => DrawsWhatIsInFront
<1> SUFFICES ASSUME DrawnTriangle PROVE DrawsWhatIsInFront
  OBVIOUS
<1>1. CASE ~Accepted(prim)
  <2>1. rasterised = <<>> /\ Len(prim) = 3
    BY <1>1 DEF DrawnTriangle
  <2>2. AsTheBorder(rasterised)
    BY <2>1 DEF AsTheBorder
  <2> QED  BY <1>1, <2>1, <2>2, DrawnRight
<1>2. CASE Accepted(prim)
  <2>1. \E i \in 1..3 : ~Behind(prim[i])
    BY <1>2, AcceptedIs
  <2>2. \A i \in 1..3 : i = 1 \/ i = 2 \/ i = 3
    OBVIOUS
  <2>3. ~(Behind(prim[1]) /\ Behind(prim[2]) /\ Behind(prim[3]))
    BY <2>1, <2>2
  <2>4. CASE ~Behind(prim[1]) /\ ~Behind(prim[2]) /\ ~Behind(prim[3])
    BY <1>2, <2>2, <2>4, NoneBehind
  <2>5. CASE Behind(prim[1]) /\ ~Behind(prim[2]) /\ ~Behind(prim[3])
    BY <1>2, <2>5, OneBehind1
  <2>6. CASE ~Behind(prim[1]) /\ Behind(prim[2]) /\ ~Behind(prim[3])
    BY <1>2, <2>6, OneBehind2
  <2>7. CASE ~Behind(prim[1]) /\ ~Behind(prim[2]) /\ Behind(prim[3])
    BY <1>2, <2>7, OneBehind3
  <2>8. CASE ~Behind(prim[1]) /\ Behind(prim[2]) /\ Behind(prim[3])
    BY <1>2, <2>8, TwoBehind1
  <2>9. CASE Behind(prim[1]) /\ ~Behind(prim[2]) /\ Behind(prim[3])
    BY <1>2, <2>9, TwoBehind2
  <2>10. CASE Behind(prim[1]) /\ Behind(prim[2]) /\ ~Behind(prim[3])
    BY <1>2, <2>10, TwoBehind3
  <2> QED  BY <2>3, <2>4, <2>5, <2>6, <2>7, <2>8, <2>9, <2>10
<1> QED  BY <1>1, <1>2

(* A line, a point or a sprite: only vertices in front are projected.      *)
LEMMA LineRight == DrawnLine => DrawsWhatIsInFront
<1> SUFFICES ASSUME DrawnLine PROVE DrawsWhatIsInFront
  OBVIOUS
<1>1. Len(prim) # 3
  BY DEF DrawnLine
<1>2. CASE rasterised = <<>>
  BY <1>1, <1>2 DEF DrawsWhatIsInFront, DrawnOnes
<1>3. CASE rasterised # <<>>
  <2>1. PICK a, b : rasterised = <<<<a, b>>>> /\ ~Bad(a) /\ ~Bad(b)
    BY <1>3 DEF DrawnLine, Line
  <2>2. Len(rasterised) = 1 /\ rasterised[1] = <<a, b>>
    BY <2>1
  <2>3. Len(<<a, b>>) = 2 /\ <<a, b>>[1] = a /\ <<a, b>>[2] = b /\ \A i \in 1..2 : i = 1 \/ i = 2
    OBVIOUS
  <2>4. InFront(a) /\ InFront(b)
    BY <2>1 DEF Bad
  <2>5. \A i \in 1..2 : InFront(<<a, b>>[i])
    BY <2>3, <2>4
  <2>6. \A k \in 1..1 : k = 1
    OBVIOUS
  <2>7. DrawnOnes
    BY <2>2, <2>3, <2>5, <2>6 DEF DrawnOnes
  <2> QED  BY <1>1, <2>7 DEF DrawsWhatIsInFront
<1> QED  BY <1>2, <1>3

LEMMA CornersRight == DrawnCorners => DrawsWhatIsInFront
<1> SUFFICES ASSUME DrawnCorners PROVE DrawsWhatIsInFront
  OBVIOUS
<1>1. Len(prim) # 3
  BY DEF DrawnCorners
<1>2. rasterised = <<>> \/ (rasterised = <<prim>> /\ \A i \in 1..Len(prim) : InFront(prim[i]))
  BY DEF DrawnCorners, Corners2, Alone
<1>3. DrawnOnes
  <2>1. CASE rasterised = <<>>
    BY <2>1 DEF DrawnOnes
  <2>2. CASE rasterised = <<prim>> /\ \A i \in 1..Len(prim) : InFront(prim[i])
    <3>1. Len(rasterised) = 1 /\ rasterised[1] = prim /\ \A k \in 1..1 : k = 1
      BY <2>2
    <3> QED  BY <2>2, <3>1 DEF DrawnOnes
  <2> QED  BY <1>2, <2>1, <2>2
<1> QED  BY <1>1, <1>3 DEF DrawsWhatIsInFront

LEMMA InvRight == ClipInv => DrawsWhatIsInFront
<1>1. prim = <<>> /\ rasterised = <<>> => DrawsWhatIsInFront
  BY DEF DrawsWhatIsInFront, DrawnOnes
<1> QED  BY <1>1, TriangleRight, LineRight, CornersRight DEF ClipInv

-----------------------------------------------------------------------------
(* The actions.                                                            *)
LEMMA EnableKeeps ==
    ASSUME ClipInv, ClipEnable
    PROVE  ClipInv'
<1>1. prim = <<>> /\ Len(prim) = 0
  BY DEF ClipEnable
<1>2. rasterised = <<>>
  BY <1>1 DEF ClipInv, DrawnTriangle, DrawnLine, DrawnCorners
<1> QED  BY <1>1, <1>2 DEF ClipInv, ClipEnable

IsVertex(v) ==
    \E z, w \in Int : \E at, oor, ozp, ozn :
        v = [z |-> Whole1(z), w |-> Whole1(w), at |-> at, oor |-> oor, ozp |-> ozp, ozn |-> ozn]

LEMMA CVtxIs ==
    ASSUME NEW z \in Int, NEW w \in Int, NEW out
    PROVE  IsVertex(CVtx(z, w, out)) /\ CVtx(z, w, out).z.n = z /\ CVtx(z, w, out).w.n = w
<1>1. PICK oor, ozp, ozn :
          CVtx(z, w, out) = [z |-> Whole1(z), w |-> Whole1(w), at |-> Whole1(0),
                             oor |-> oor, ozp |-> ozp, ozn |-> ozn]
  BY Zenon DEF CVtx
<1>2. IsVertex(CVtx(z, w, out))
  BY <1>1, Zenon DEF IsVertex
<1>3. CVtx(z, w, out).z = [n |-> z, d |-> 1] /\ CVtx(z, w, out).w = [n |-> w, d |-> 1]
  BY <1>1 DEF Whole1
<1> QED  BY <1>2, <1>3

LEMMA GameVertexIs ==
    ASSUME NEW v \in GameVertices
    PROVE  IsVertex(v) /\ v.z.n \in Int /\ v.w.n \in Int
<1>1. PICK z \in Depths, w \in Ws : \E oor, ozp, ozn :
          v = [z |-> Whole1(z), w |-> Whole1(w), at |-> Whole1(0), oor |-> oor, ozp |-> ozp, ozn |-> ozn]
  BY DEF GameVertices, CVtx
<1>2. PICK oor, ozp, ozn :
          v = [z |-> Whole1(z), w |-> Whole1(w), at |-> Whole1(0), oor |-> oor, ozp |-> ozp, ozn |-> ozn]
  BY <1>1
<1>3. z \in Int /\ w \in Int
  BY <1>1, ClipAssumption
<1>4. IsVertex(v)
  BY <1>2, <1>3, Zenon DEF IsVertex
<1>5. v.z = [n |-> z, d |-> 1] /\ v.w = [n |-> w, d |-> 1]
  BY <1>2 DEF Whole1
<1> QED  BY <1>3, <1>4, <1>5

LEMMA TriangleKeeps ==
    ASSUME NEW p, Len(p) = 3, NEW outside, DrawTriangle(p, outside), \A i \in 1..3 : IsVertex(p[i])
    PROVE  DrawnTriangle'
<1>1. prim' = [i \in 1..3 |-> [p[i] EXCEPT !.at = Whole1(i)]] /\ beyond' = outside /\ depthClip' = depthClip
  BY DEF DrawTriangle, Placed
<1>2. Len(prim') = 3
  BY <1>1
<1>3. ASSUME NEW i \in 1..3 PROVE Corner(prim'[i], i)
  <2>1. prim'[i] = [p[i] EXCEPT !.at = Whole1(i)]
    BY <1>1
  <2>2. PICK z \in Int, w \in Int : \E at, oor, ozp, ozn :
            p[i] = [z |-> Whole1(z), w |-> Whole1(w), at |-> at, oor |-> oor, ozp |-> ozp, ozn |-> ozn]
    BY DEF IsVertex
  <2>3. PICK at, oor, ozp, ozn :
            p[i] = [z |-> Whole1(z), w |-> Whole1(w), at |-> at, oor |-> oor, ozp |-> ozp, ozn |-> ozn]
    BY <2>2
  <2> QED  BY <2>1, <2>2, <2>3 DEF Corner, Whole1
<1>4. rasterised' = IF Accepted(prim') THEN Triangles(prim', beyond') ELSE <<>>
  BY <1>1 DEF DrawTriangle
<1>5. Accepted(prim)' <=> Accepted(prim')
  BY <1>1 DEF Accepted
<1> QED  BY <1>2, <1>3, <1>4, <1>5 DEF DrawnTriangle

LEMMA LineKeeps ==
    ASSUME NEW p, Len(p) = 2, NEW outside, DrawLine(p, outside)
    PROVE  DrawnLine'
<1>1. prim' = [i \in 1..2 |-> [p[i] EXCEPT !.at = Whole1(i)]] /\ beyond' = outside /\ depthClip' = depthClip
  BY DEF DrawLine, Placed
<1>2. Len(prim') = 2
  BY <1>1
<1>3. rasterised' = IF Accepted(prim') THEN Line(prim', beyond') ELSE <<>>
  BY <1>1 DEF DrawLine
<1>4. Accepted(prim)' <=> Accepted(prim')
  BY <1>1 DEF Accepted
<1> QED  BY <1>2, <1>3, <1>4 DEF DrawnLine

LEMMA CornersKeep ==
    ASSUME NEW p, Len(p) \in 1..2, DrawCorners(p)
    PROVE  DrawnCorners'
<1>1. PICK n \in 1..2 : n = Len(p)
  OBVIOUS
<1>2. prim' = [i \in 1..n |-> [p[i] EXCEPT !.at = Whole1(i)]] /\ depthClip' = depthClip
  BY <1>1 DEF DrawCorners, Placed
<1>3. Len(prim') = n
  BY <1>2
<1>4. rasterised' = Corners2(prim')
  BY DEF DrawCorners
<1>5. Corners2(prim)' = Corners2(prim')
  BY <1>2 DEF Corners2, Alone
<1> QED  BY <1>3, <1>4, <1>5 DEF DrawnCorners

LEMMA ClipStep == ClipInv /\ [ClipNext]_clipVars => ClipInv'
<1> SUFFICES ASSUME ClipInv, [ClipNext]_clipVars PROVE ClipInv'
  OBVIOUS
<1>1. CASE UNCHANGED clipVars
  BY <1>1 DEF clipVars, ClipInv, DrawnTriangle, DrawnLine, DrawnCorners, Accepted, Corners2, Alone
<1>2. CASE ClipEnable
  BY <1>2, EnableKeeps
<1>3. ASSUME NEW a \in GameVertices, NEW b \in GameVertices, NEW c \in GameVertices,
             NEW out \in 0..3, NEW outside,
             LET p == <<a, b, c>>
             IN DrawTriangle(IF out = 0 THEN p
                             ELSE [p EXCEPT ![out] = CVtx(p[out].z.n, p[out].w.n, TRUE)], outside)
      PROVE  ClipInv'
  <2>1. PICK p : /\ p = IF out = 0 THEN <<a, b, c>>
                        ELSE [<<a, b, c>> EXCEPT ![out] =
                                  CVtx(<<a, b, c>>[out].z.n, <<a, b, c>>[out].w.n, TRUE)]
                 /\ DrawTriangle(p, outside)
    BY <1>3
  <2>2. <<a, b, c>>[1] = a /\ <<a, b, c>>[2] = b /\ <<a, b, c>>[3] = c /\ Len(<<a, b, c>>) = 3
    OBVIOUS
  <2>3. \A i \in 1..3 : i = 1 \/ i = 2 \/ i = 3
    OBVIOUS
  <2>4. \A i \in 1..3 : <<a, b, c>>[i] \in GameVertices
    BY <2>2, <2>3
  <2>5. \A i \in 1..3 : /\ IsVertex(<<a, b, c>>[i])
                        /\ <<a, b, c>>[i].z.n \in Int /\ <<a, b, c>>[i].w.n \in Int
    BY <2>4, GameVertexIs
  <2>6. CASE out = 0
    <3>1. p = <<a, b, c>>
      BY <2>1, <2>6
    <3> QED  BY <2>1, <2>2, <2>5, <3>1, TriangleKeeps DEF ClipInv
  <2>7. CASE out # 0
    <3>1. out \in 1..3
      BY <2>7
    <3>2. PICK x : x = CVtx(<<a, b, c>>[out].z.n, <<a, b, c>>[out].w.n, TRUE) /\ IsVertex(x)
      <4>1. <<a, b, c>>[out].z.n \in Int /\ <<a, b, c>>[out].w.n \in Int
        BY <2>5, <3>1
      <4> QED  BY <4>1, CVtxIs, Zenon
    <3>3. p = [<<a, b, c>> EXCEPT ![out] = x]
      BY <2>1, <2>7, <3>2
    <3>4. Len(p) = 3 /\ \A i \in 1..3 : p[i] = IF i = out THEN x ELSE <<a, b, c>>[i]
      BY <2>2, <3>1, <3>3
    <3>5. \A i \in 1..3 : IsVertex(p[i])
      BY <2>5, <3>2, <3>4
    <3> QED  BY <2>1, <3>4, <3>5, TriangleKeeps DEF ClipInv
  <2> QED  BY <2>6, <2>7
<1>4. ASSUME NEW a, NEW b, NEW outside, DrawLine(<<a, b>>, outside) PROVE ClipInv'
  <2>1. Len(<<a, b>>) = 2
    OBVIOUS
  <2> QED  BY <1>4, <2>1, LineKeeps DEF ClipInv
<1>5. ASSUME NEW a, NEW b, DrawCorners(<<a>>) \/ DrawCorners(<<a, b>>) PROVE ClipInv'
  <2>1. Len(<<a>>) \in 1..2 /\ Len(<<a, b>>) \in 1..2
    OBVIOUS
  <2> QED  BY <1>5, <2>1, CornersKeep DEF ClipInv
<1> QED  BY <1>1, <1>2, <1>3, <1>4, <1>5, Zenon DEF ClipNext

(* Only what is in front of the camera is projected, and all of it: the    *)
(* property of the near plane's clip, for every depth, w and EPSILON       *)
(* (ge.c 1497-1529, 1920-2035).                                            *)
THEOREM FrontIsDrawn == ClipSpec => []DrawsWhatIsInFront
<1>1. ClipInit => ClipInv
  BY DEF ClipInit, ClipInv
<1> QED  BY <1>1, ClipStep, InvRight, PTL DEF ClipSpec
=============================================================================
