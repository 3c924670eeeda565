------------------------------ MODULE GeTargets ------------------------------
(***************************************************************************)
(* The render targets of ge_gpu.c: which copy of a framebuffer is current. *)
(* The game knows one memory, VRAM.  Here every framebuffer it draws to    *)
(* has a second copy in a GPU image, drawing collects batches that change  *)
(* the image only when they are submitted, and either copy may be newer.   *)
(*                                                                         *)
(* Pixels are not represented.  A framebuffer at an address of Addrs is    *)
(* cut into Parts, the smallest regions written at once, and for each copy *)
(* of a part the model keeps whether it holds the newest pixels, that is   *)
(* those VRAM would hold if there were nothing else.  Framebuffers do not  *)
(* overlap.  A shape is a pixel format and the stride the game uses with   *)
(* it.  Calls into Vulkan succeed.                                         *)
(***************************************************************************)
EXTENDS Integers, Sequences, SequencesExt

CONSTANTS
    Addrs,      \* framebuffer addresses
    Parts,      \* regions of a framebuffer
    Shapes,     \* pixel formats, each with its stride
    Depths,     \* (address, stride) pairs of depth buffers
    Settings,   \* framebuffer, shape and depth buffer the game draws with
    Textures,   \* framebuffer and shape it samples as a texture, or None
    Copies,     \* pairs of pages between which it transfers blocks
    MAX_TGT,    \* size of s_tgts
    MAX_DEP,    \* size of s_deps
    MAX_BATCH,  \* bound: primitives until ensure_room submits
    None        \* NULL

Slots == 1 .. MAX_TGT
Pages == Addrs \X Parts

ASSUME TargetsAssumption ==
    /\ Settings \subseteq [fba : Addrs, shape : Shapes, depth : Depths]
    /\ Textures \subseteq [fba : Addrs, shape : Shapes] \cup {None}
    /\ Copies \subseteq {c \in Pages \X Pages : c[1] # c[2]}
    /\ MAX_TGT \in Nat /\ MAX_TGT > 1
    /\ MAX_DEP \in Nat \ {0} /\ MAX_BATCH \in Nat \ {0}
    /\ None \notin Addrs \cup Shapes \cup Depths \cup Slots

VARIABLES
    vram,       \* for each part of each framebuffer: guest memory holds the newest pixels
    tgt,        \* s_tgts
    deps,       \* s_deps, in use, as the sequence of their keys
    cur,        \* s_cur
    pend,       \* s_batch: number of primitives, parts they draw, images they sample
    tmpl,       \* s_tmpl, while s_snapst still describes it: texture and descriptor
    snap,       \* s_snapimg: its source while the generations agree, whether the pixels do
    spoiled     \* parts whose newest pixels a CPU write next to them discarded

gpu == <<tgt, deps, cur, pend, tmpl, snap>>
vars == <<vram, tgt, deps, cur, pend, tmpl, snap, spoiled>>

(* Of an image, fresh says which parts hold the newest pixels, clean that  *)
(* clean_gen = render_gen, dep is the index of its depth buffer, and fb    *)
(* the key of the one its framebuffer object was made with, if there is    *)
(* one.                                                                    *)
Stale == [p \in Parts |-> FALSE]

Free == [used |-> FALSE, fba |-> None, shape |-> None, fresh |-> Stale,
         valid |-> FALSE, clean |-> FALSE, dep |-> None, fb |-> None]

Nothing == [prims |-> 0, parts |-> {}, sampled |-> {}]
NoSnap == [src |-> None, same |-> FALSE]

(* What was made for an image that was destroyed since.  Other descriptors *)
(* are a target's slot, or None for the snapshot or what was decoded from  *)
(* memory.                                                                 *)
Gone == 0

Init ==
    /\ vram = [q \in Pages |-> TRUE]
    /\ tgt = [s \in Slots |-> Free]
    /\ deps = <<>> /\ cur = None
    /\ pend = Nothing /\ tmpl = None /\ snap = NoSnap
    /\ spoiled = {}

(* Handlers are chains of operations; an operation takes the state as a    *)
(* record and returns it changed.                                          *)
Now == [vram |-> vram, tgt |-> tgt, deps |-> deps, cur |-> cur,
        pend |-> pend, tmpl |-> tmpl, snap |-> snap]

Become(new) ==
    \E g \in {new} :
        /\ vram' = g.vram /\ tgt' = g.tgt /\ deps' = g.deps /\ cur' = g.cur
        /\ pend' = g.pend /\ tmpl' = g.tmpl /\ snap' = g.snap

First(S) == IF S = {} THEN None ELSE CHOOSE s \in S : \A t \in S : s <= t

(* The target at an address; TypeOK says that there is only one.           *)
At(g, fba) == First({s \in Slots : g.tgt[s].used /\ g.tgt[s].fba = fba})

(* The pixels of an image change; render_gen++.                            *)
Painted(g, s, fresh) ==
    [g EXCEPT !.tgt[s].fresh = fresh,
              !.snap.same = g.snap.same /\ g.snap.src # s]

NextGenSameSnap(g, s) ==             \* variant: the snapshot counts as current
    [g EXCEPT !.tgt[s].clean = FALSE]

NextGenClean(g, s) ==                \* variant: the target counts as read back
    [g EXCEPT !.snap = IF g.snap.src = s THEN NoSnap ELSE g.snap]

NextGen(g, s) ==
    [g EXCEPT !.tgt[s].clean = FALSE,
              !.snap = IF g.snap.src = s THEN NoSnap ELSE g.snap]

-----------------------------------------------------------------------------
(* submit_pending.  The batches are drawn into s_cur.                      *)
Reset(g) == [g EXCEPT !.pend = Nothing, !.tmpl = None]

Submit(g) ==
    IF g.pend.prims = 0 THEN Reset(g)
    ELSE IF g.cur = None THEN g
    ELSE LET fresh == [p \in Parts |-> g.tgt[g.cur].fresh[p] \/ p \in g.pend.parts]
             drawn == NextGen(Painted(g, g.cur, fresh), g.cur)
         IN Reset([drawn EXCEPT !.tgt[g.cur].valid = TRUE])

SubmitIfAny(g) == IF g.pend.prims = 0 THEN g ELSE Submit(g)

SubmitIfOn(g, s) == IF s = g.cur THEN SubmitIfAny(g) ELSE g

(* target_readback: image to VRAM.                                         *)
ReadbackUnsubmitted(g, s) ==         \* variant: pending batches are not drawn first
    IF ~g.tgt[s].valid \/ g.tgt[s].clean THEN g
    ELSE [g EXCEPT !.vram = [q \in Pages |-> IF q[1] = g.tgt[s].fba THEN g.tgt[s].fresh[q[2]]
                                             ELSE g.vram[q]],
                   !.tgt[s].clean = TRUE]

Readback(g, s) ==
    IF ~g.tgt[s].valid THEN g
    ELSE LET d == SubmitIfOn(g, s)
             t == d.tgt[s]
         IN IF t.clean THEN d
            ELSE [d EXCEPT !.vram = [q \in Pages |-> IF q[1] = t.fba THEN t.fresh[q[2]]
                                                     ELSE g.vram[q]],
                           !.tgt[s].clean = TRUE]

ReadbackAt(g, fba) ==
    LET s == At(g, fba) IN IF s = None THEN g ELSE Readback(g, s)

(* target_upload: VRAM to image.                                           *)
Upload(g, s) ==
    LET fresh == [p \in Parts |-> g.vram[<<g.tgt[s].fba, p>>]]
    IN [NextGen(Painted(g, s, fresh), s) EXCEPT !.tgt[s].valid = TRUE, !.tgt[s].clean = TRUE]

Destroy(g, s) ==
    [g EXCEPT !.tgt[s] = Free,
              !.snap = IF g.snap.src = s THEN NoSnap ELSE g.snap,
              !.tmpl = IF g.tmpl # None /\ g.tmpl.dset = s
                       THEN [tex |-> g.tmpl.tex, dset |-> Gone] ELSE g.tmpl]

(* depth_acquire.  When all are in use the first is destroyed, and targets *)
(* that hold it drop it with their framebuffer objects.                    *)
DepthAcquireHeld(g, depth) ==        \* variant: the targets keep it
    IF depth \in ToSet(g.deps) THEN g
    ELSE IF Len(g.deps) < MAX_DEP THEN [g EXCEPT !.deps = Append(g.deps, depth)]
    ELSE [g EXCEPT !.deps = [g.deps EXCEPT ![1] = depth],
                   !.tgt = [s \in Slots |->
                              IF g.tgt[s].dep = 1 THEN [g.tgt[s] EXCEPT !.fb = Gone] ELSE g.tgt[s]]]

DepthAcquire(g, depth) ==
    IF depth \in ToSet(g.deps) THEN g
    ELSE IF Len(g.deps) < MAX_DEP THEN [g EXCEPT !.deps = Append(g.deps, depth)]
    ELSE [g EXCEPT !.deps = [g.deps EXCEPT ![1] = depth],
                   !.tgt = [s \in Slots |->
                              IF g.tgt[s].dep = 1 THEN [g.tgt[s] EXCEPT !.dep = None, !.fb = None]
                              ELSE g.tgt[s]]]

(* target_acquire, in its steps: a target of another shape at the address  *)
(* gives way; a free slot is taken, or that of `old', the least recently   *)
(* used target but the current one; the image is filled from VRAM.         *)
GiveUpUnread(g, s) ==                \* variant: its pixels are not kept
    IF g.cur = s THEN Destroy([Submit(g) EXCEPT !.cur = None], s) ELSE Destroy(g, s)

GiveUp(g, s) ==
    LET d == Readback(g, s)
    IN IF d.cur = s THEN Destroy([Submit(d) EXCEPT !.cur = None], s) ELSE Destroy(d, s)

Reinterpret(g, to) ==
    LET s == At(g, to.fba)
    IN IF s # None /\ g.tgt[s].shape # to.shape THEN GiveUp(g, s) ELSE g

Place(g, to, old) ==
    LET free == {s \in Slots : ~g.tgt[s].used}
        s == IF free # {} THEN First(free) ELSE old
        d == IF free # {} THEN g ELSE GiveUp(g, s)
        t == [Free EXCEPT !.used = TRUE, !.fba = to.fba, !.shape = to.shape]
    IN Upload([d EXCEPT !.tgt[s] = t], s)

FillOnce(g, to, old) ==              \* variant: an invalid target is not filled again
    IF At(g, to.fba) = None THEN Place(g, to, old) ELSE g

Fill(g, to, old) ==
    LET s == At(g, to.fba)
    IN IF s = None THEN Place(g, to, old)
       ELSE IF g.tgt[s].valid THEN g
       ELSE Upload(g, s)

Attach(g, to) ==
    LET s == At(g, to.fba)
        d == DepthAcquire(g, to.depth)
        i == CHOOSE n \in DOMAIN d.deps : d.deps[n] = to.depth
        t == d.tgt[s]
    IN [d EXCEPT !.cur = s,
                 !.tgt[s] = IF t.dep = i /\ t.fb # None THEN t
                            ELSE [t EXCEPT !.dep = i, !.fb = to.depth]]

Acquire(g, to, old) == Attach(Fill(Reinterpret(g, to), to, old), to)

(* begin_target.                                                           *)
OnTarget(g, to) ==
    /\ g.cur # None
    /\ LET t == g.tgt[g.cur] IN t.used /\ t.fba = to.fba /\ t.shape = to.shape /\ t.valid

Begin(g, to, old) == IF OnTarget(g, to) THEN g ELSE Acquire(SubmitIfAny(g), to, old)

-----------------------------------------------------------------------------
(* build_state, as far as it binds a texture: a valid target at the        *)
(* texture's address is sampled directly if the shapes agree, by way of a  *)
(* snapshot if it is the current one, and is read back and decoded from    *)
(* memory if they do not.  `full' stands for the other reasons to submit:  *)
(* tex_get must rewrite a texture that pending batches use or make room    *)
(* for one, or the image to sample must change its layout.                 *)
SubmitIf(full, g) == IF full THEN Submit(g) ELSE g

TakeSnapshot(g, s) ==
    IF g.snap.src = s THEN g ELSE [g EXCEPT !.snap = [src |-> s, same |-> TRUE]]

Bind(g, tex, full) ==
    LET s == IF tex = None THEN None ELSE At(g, tex.fba)
        decoded == tex = None \/ s = None \/ ~g.tgt[s].valid \/ g.tgt[s].shape # tex.shape
        bound(d, descriptor) == [d EXCEPT !.tmpl = [tex |-> tex, dset |-> descriptor]]
    IN IF decoded THEN bound(SubmitIf(full, IF s = None THEN g ELSE Readback(g, s)), None)
       ELSE IF s = g.cur THEN bound(TakeSnapshot(SubmitIfAny(g), s), None)
       ELSE bound(SubmitIf(full, g), s)

(* state_get: nothing is built when the state is the one last built for.   *)
(* The framebuffer is not part of that state.                              *)
Reused(g, tex) == g.tmpl # None /\ g.tmpl.tex = tex

Built(g, to, tex, full, old) ==
    IF Reused(g, tex) THEN g
    ELSE Bind(Begin(g, to, old), tex, full)

(* What a descriptor in hand describes after begin_target.                 *)
Survives(g, h, s) == h.tgt[s].fba = g.tgt[s].fba /\ h.tgt[s].shape = g.tgt[s].shape

-----------------------------------------------------------------------------
EnsureRoom(g) == IF g.pend.prims >= MAX_BATCH THEN Submit(g) ELSE g

(* hook_tri, hook_sprite, hook_line, hook_point: a primitive that covers   *)
(* one part, or none.                                                      *)
Draw(to, tex, full, old) ==
    \E built \in {Built(Now, to, tex, full, old)} :
    \E begun \in {Begin(built, to, old)} :
    \E ready \in {EnsureRoom(begun)}, covers \in {{}} \cup {{p} : p \in Parts} :
    LET dset  == built.tmpl.dset
        bound == IF dset \in Slots /\ ~Survives(built, begun, dset) THEN Gone ELSE dset
        drawn == [prims |-> ready.pend.prims + 1, parts |-> ready.pend.parts \cup covers,
                  sampled |-> ready.pend.sampled \cup ({bound} \ {None})]
        page  == {to.fba} \X covers
        fresh == [p \in Parts |-> ready.tgt[ready.cur].fresh[p] /\ p \notin covers]
    IN /\ Become(IF covers = {} THEN begun
                  ELSE [ready EXCEPT !.pend = drawn,
                                     !.vram = [q \in Pages |-> ready.vram[q] /\ q \notin page],
                                     !.tgt[ready.cur].fresh = fresh])
       /\ spoiled' = spoiled \ page

-----------------------------------------------------------------------------
(* hook_vram_dirty: a target at the address is valid no more, and its      *)
(* image is not looked at again.                                           *)
Dirty(g, fba) ==
    LET s == At(g, fba)
    IN IF s = None THEN g
       ELSE IF ~g.tgt[s].valid THEN g
       ELSE [SubmitIfOn(g, s) EXCEPT !.tgt[s].valid = FALSE, !.tgt[s].fresh = Stale]

(* Parts whose newest pixels were only in an image that was valid and is   *)
(* no more.                                                                *)
Discarded(g, h, fba) ==
    LET s == At(g, fba)
    IN IF s = None THEN {}
       ELSE IF ~g.tgt[s].valid THEN {}
       ELSE {q \in {fba} \X Parts : ~h.vram[q]}

(* The processor, a DMA or the movie decoder has written the parts W, and  *)
(* reports a write to the framebuffer.  A movie without a new frame        *)
(* reports one although nothing was written.                               *)
Written(g, fba, W) ==
    [Dirty(g, fba) EXCEPT !.vram = [q \in Pages |-> g.vram[q] \/ q \in {fba} \X W]]

CpuWriteIn(g, fba, W) ==
    \E h \in {Written(g, fba, W)} :
       /\ Become(h)
       /\ spoiled' = (spoiled \ ({fba} \X W)) \cup Discarded(g, h, fba)

CpuWrite(fba, W) == CpuWriteIn(Now, fba, W)

-----------------------------------------------------------------------------
(* ge_block_transfer, from one part to another: on the GPU if both ends    *)
(* are targets, the source is valid and the rectangles fit, else by the    *)
(* processor.                                                              *)
Carried(from, to) == IF from \in spoiled THEN spoiled \cup {to} ELSE spoiled \ {to}

OnGpu(s, d, fits) ==
    /\ fits /\ s # None /\ d # None
    /\ s # d /\ tgt[s].valid /\ tgt[s].shape = tgt[d].shape

Blit(s, d, from, to) ==
    LET seeded == IF tgt[d].valid THEN Now ELSE Upload(Now, d)
        ready  == IF cur \in {s, d} THEN SubmitIfAny(seeded) ELSE seeded
        fresh  == [ready.tgt[d].fresh EXCEPT ![to[2]] = ready.tgt[s].fresh[from[2]]]
    IN [NextGen(Painted(ready, d, fresh), d) EXCEPT !.vram[to] = FALSE]

TransferOnGpu(s, d, from, to) ==
    /\ Become(Blit(s, d, from, to))
    /\ spoiled' = Carried(from, to)

TransferByCpu(from, to) ==
    \E read \in {ReadbackAt(Submit(Now), from[1])} :
    \E copied \in {[Written(read, to[1], {}) EXCEPT !.vram[to] = read.vram[from]]} :
       /\ Become(copied)
       /\ spoiled' = Carried(from, to) \cup (Discarded(read, copied, to[1]) \ {to})

Transfer(from, to, fits) ==
    LET s == At(Now, from[1])
        d == At(Now, to[1])
    IN IF OnGpu(s, d, fits) THEN TransferOnGpu(s, d, from, to)
                            ELSE TransferByCpu(from, to)

(* A transfer to or from memory that is not VRAM.                          *)
TransferOut(fba) == Become(ReadbackAt(Submit(Now), fba)) /\ UNCHANGED spoiled

TransferIn(fba, p) == CpuWriteIn(Submit(Now), fba, {p})

(* A palette is about to be loaded from VRAM.                              *)
LoadClut(fba) == Become(ReadbackAt(Now, fba)) /\ UNCHANGED spoiled

-----------------------------------------------------------------------------
(* gegpu_present: the image if it is valid and of the displayed format,    *)
(* else the caller shows VRAM.                                             *)
Presented(fba, shape) ==
    LET s == At(Now, fba)
    IN IF s = None THEN None
       ELSE IF tgt[s].valid /\ tgt[s].shape = shape THEN s
       ELSE None

Present(fba, shape) ==
    LET s == Presented(fba, shape)
    IN s # None /\ Become(SubmitIfOn(Now, s)) /\ UNCHANGED spoiled

-----------------------------------------------------------------------------
Fullness(tex) ==                     \* what Bind may be told, if it is reached
    IF tex = None \/ pend.prims = 0 \/ Reused(Now, tex) THEN {FALSE} ELSE BOOLEAN

Next ==
    \/ \E to \in Settings, tex \in Textures, old \in Slots \ {cur} :
          \E full \in Fullness(tex) : Draw(to, tex, full, old)
    \/ \E fba \in Addrs, W \in SUBSET Parts : CpuWrite(fba, W)
    \/ \E c \in Copies, fits \in BOOLEAN : Transfer(c[1], c[2], fits)
    \/ \E fba \in Addrs : TransferOut(fba) \/ LoadClut(fba)
    \/ \E fba \in Addrs, p \in Parts : TransferIn(fba, p)
    \/ \E fba \in Addrs, shape \in Shapes : Present(fba, shape)

Spec == Init /\ [][Next]_vars

-----------------------------------------------------------------------------
Target == [used : BOOLEAN, fba : Addrs \cup {None}, shape : Shapes \cup {None},
           fresh : [Parts -> BOOLEAN], valid : BOOLEAN, clean : BOOLEAN,
           dep : (1 .. MAX_DEP) \cup {None}, fb : Depths \cup {None}]

Images == Slots \cup {Gone}

TypeOK ==
    /\ vram \in [Pages -> BOOLEAN]
    /\ tgt \in [Slots -> Target]
    /\ \A s, t \in Slots : tgt[s].used /\ tgt[t].used /\ s # t => tgt[s].fba # tgt[t].fba
    /\ deps \in Seq(Depths) /\ Len(deps) <= MAX_DEP
    /\ cur \in Slots \cup {None}
    /\ pend \in [prims : 0 .. MAX_BATCH, parts : SUBSET Parts, sampled : SUBSET Images]
    /\ tmpl \in [tex : Textures, dset : Images \cup {None}] \cup {None}
    /\ snap \in [src : Slots \cup {None}, same : BOOLEAN]
    /\ spoiled \subseteq Pages

Pending(s, p) == s = cur /\ p \in pend.parts

Excused(s, p) == <<tgt[s].fba, p>> \in spoiled

(* "GPU contents are the truth (newer than VRAM)", ge_gpu.c:118: a valid   *)
(* image, with the batches waiting for it, has the newest pixels           *)
(* everywhere.                                                             *)
ValidIsNewest ==
    \A s \in Slots, p \in Parts :
        tgt[s].valid => tgt[s].fresh[p] \/ Pending(s, p) \/ Excused(s, p)

(* Evicting, reinterpreting, reading back and invalidating targets in any  *)
(* order loses no pixels, but for those a CPU write beside them discards.  *)
NewestKept ==
    \A q \in Pages \ spoiled :
        \/ vram[q]
        \/ \E s \in Slots : /\ tgt[s].valid /\ tgt[s].fba = q[1]
                            /\ tgt[s].fresh[q[2]] \/ Pending(s, q[2])

(* A readback that is left out because the generations agree would have    *)
(* changed nothing.                                                        *)
CleanIsCurrent ==
    \A s \in Slots, p \in Parts :
        tgt[s].valid /\ tgt[s].clean =>
           vram[<<tgt[s].fba, p>>] \/ Pending(s, p) \/ Excused(s, p)

(* Batches wait for a target that is still there, and its framebuffer      *)
(* object was made with the depth buffer that is still there.              *)
PendingCanBeDrawn ==
    pend.prims > 0 =>
       /\ cur # None /\ tgt[cur].used /\ tgt[cur].valid
       /\ tgt[cur].dep \in DOMAIN deps /\ tgt[cur].fb = deps[tgt[cur].dep]

(* A snapshot that is used again without copying is what its target shows. *)
SnapshotIsCurrent == snap.src # None => snap.same

(* What is used again without being copied again is current: a target's    *)
(* pixels in VRAM and the snapshot of a target.                            *)
CopiesAreCurrent == CleanIsCurrent /\ SnapshotIsCurrent

(* What a palette load or a block transfer would be given now is newest.   *)
(* So is what the display would be given, unless it shows a framebuffer in *)
(* another format than it was drawn in.                                    *)
ReadersSeeNewest ==
    \A fba \in Addrs :
        LET read == ReadbackAt(Now, fba)
            s    == At(Now, fba)
            shown(shape) == SubmitIfOn(Now, s).tgt[s].fresh
        IN /\ \A p \in Parts : read.vram[<<fba, p>>] \/ <<fba, p>> \in spoiled
           /\ \A shape \in Shapes, p \in Parts :
                 \/ <<fba, p>> \in spoiled
                 \/ IF Presented(fba, shape) # None THEN shown(shape)[p]
                    ELSE vram[<<fba, p>>] \/ (s # None /\ tgt[s].valid)

-----------------------------------------------------------------------------
(* ge_gpu.c:1000, "feedback loop: sample a snapshot copy": no batch        *)
(* samples the image it is drawn into.                                     *)
FeedbackIsCopied == cur # None => cur \notin pend.sampled
=============================================================================
