-------------------------- MODULE GeTargetsProofs --------------------------
(***************************************************************************)
(* What GeTargets keeps current stays so for every number of framebuffers, *)
(* parts, shapes, targets, depth buffers and primitives in a batch.        *)
(*                                                                         *)
(* The handlers of ge_gpu.c are chains of operations on one state, and the *)
(* invariant, Sound, is stated for a state in the middle of a chain: each  *)
(* operation has a lemma that it keeps Sound, with what its caller relies  *)
(* on next.  Only depth_acquire breaks it, until its caller attaches what  *)
(* it returns, so the two have one lemma together.  An operation's lemma   *)
(* rests on another that says what the operation does to every field.      *)
(***************************************************************************)
EXTENDS GeTargets, WellFoundedInduction, TLAPS

(* The states of the GPU, as the records that operations take and return.  *)
Books == [vram : [Pages -> BOOLEAN], tgt : [Slots -> Target], deps : Seq(Depths),
          cur : Slots \cup {None},
          pend : [prims : 0 .. MAX_BATCH, parts : SUBSET Parts, sampled : SUBSET Images],
          tmpl : [tex : Textures, dset : Images \cup {None}] \cup {None},
          snap : [src : Slots \cup {None}, same : BOOLEAN]]

(* A batch that draws part p waits for target s.                           *)
Waits(g, s, p) == s = g.cur /\ p \in g.pend.parts

(* Targets in use have an address each; only they are valid.               *)
OnePerAddress(g) ==
    /\ \A s \in Slots : g.tgt[s].valid => g.tgt[s].used
    /\ \A s \in Slots : g.tgt[s].used => g.tgt[s].fba # None
    /\ \A s, t \in Slots : g.tgt[s].used /\ g.tgt[t].used /\ s # t => g.tgt[s].fba # g.tgt[t].fba

(* A framebuffer object was made with the depth buffer its target still    *)
(* has.                                                                    *)
DepthsAttached(g) ==
    /\ Len(g.deps) <= MAX_DEP
    /\ \A s \in Slots : g.tgt[s].fb # None =>
          g.tgt[s].dep \in DOMAIN g.deps /\ g.tgt[s].fb = g.deps[g.tgt[s].dep]

(* The current target is in use and has a framebuffer object.              *)
CurrentAttached(g) ==
    g.cur # None => g.tgt[g.cur].used /\ g.tgt[g.cur].fb # None

(* Primitives wait only for a current target that is valid.                *)
BatchHasTarget(g) ==
    /\ g.pend.prims > 0 => g.cur # None /\ g.tgt[g.cur].valid
    /\ g.pend.prims = 0 => g.pend.parts = {}

(* ValidIsNewest, NewestKept, CleanIsCurrent and SnapshotIsCurrent, where  *)
(* lost is spoiled.                                                        *)
Newest(g, lost) ==
    \A s \in Slots, p \in Parts :
       g.tgt[s].valid => g.tgt[s].fresh[p] \/ Waits(g, s, p) \/ <<g.tgt[s].fba, p>> \in lost

Kept(g, lost) ==
    \A q \in Pages \ lost :
       \/ g.vram[q]
       \/ \E s \in Slots : /\ g.tgt[s].valid /\ g.tgt[s].fba = q[1]
                           /\ g.tgt[s].fresh[q[2]] \/ Waits(g, s, q[2])

CleanCurrent(g, lost) ==
    \A s \in Slots, p \in Parts :
       g.tgt[s].valid /\ g.tgt[s].clean =>
          g.vram[<<g.tgt[s].fba, p>>] \/ Waits(g, s, p) \/ <<g.tgt[s].fba, p>> \in lost

SnapCurrent(g) == g.snap.src # None => g.snap.same

(* The inductive invariant.  CleanIsCurrent is needed because a readback   *)
(* of a clean target copies nothing, and NewestKept because an upload      *)
(* takes from memory what a target without an image must find there; the   *)
(* depth buffers are needed for the batches that are submitted when a      *)
(* target is given up.                                                     *)
Sound(g, lost) ==
   /\ g \in Books
   /\ OnePerAddress(g) /\ DepthsAttached(g) /\ CurrentAttached(g) /\ BatchHasTarget(g)
   /\ Newest(g, lost) /\ Kept(g, lost) /\ CleanCurrent(g, lost) /\ SnapCurrent(g)

(* A target whose image was drawn or written to.                           *)
Repainted(t, fresh) == [t EXCEPT !.fresh = fresh, !.clean = FALSE]
Validated(t) == [t EXCEPT !.valid = TRUE]

Redrawn(g, s, fresh) == NextGen(Painted(g, s, fresh), s)

(* No target was acquired, destroyed or invalidated.                       *)
SamePlaces(g, h) ==
    /\ h.deps = g.deps /\ h.cur = g.cur
    /\ \A s \in Slots :
          /\ (h.tgt[s].used <=> g.tgt[s].used) /\ (h.tgt[s].valid <=> g.tgt[s].valid)
          /\ h.tgt[s].fba = g.tgt[s].fba /\ h.tgt[s].shape = g.tgt[s].shape
          /\ h.tgt[s].dep = g.tgt[s].dep /\ h.tgt[s].fb = g.tgt[s].fb

LEMMA SlotIsNotNone == None \notin Slots /\ Slots \subseteq Nat /\ None \notin Addrs /\ None \notin Shapes
  BY TargetsAssumption, SMT DEF Slots

(* Operations field by field.                                              *)
LEMMA BooksParts ==
    ASSUME NEW g \in Books
    PROVE  /\ g.vram \in [Pages -> BOOLEAN] /\ g.tgt \in [Slots -> Target]
           /\ g.deps \in Seq(Depths) /\ g.cur \in Slots \cup {None}
           /\ g.pend \in [prims : 0 .. MAX_BATCH, parts : SUBSET Parts, sampled : SUBSET Images]
           /\ g.tmpl \in [tex : Textures, dset : Images \cup {None}] \cup {None}
           /\ g.snap \in [src : Slots \cup {None}, same : BOOLEAN]
  BY Zenon DEF Books

LEMMA RedrawnFields ==
    ASSUME NEW g \in Books, NEW s \in Slots, NEW fresh \in [Parts -> BOOLEAN]
    PROVE  /\ Redrawn(g, s, fresh) \in Books
           /\ Redrawn(g, s, fresh).tgt[s] = Repainted(g.tgt[s], fresh)
           /\ \A u \in Slots : u # s => Redrawn(g, s, fresh).tgt[u] = g.tgt[u]
           /\ g.snap.src = s => Redrawn(g, s, fresh).snap = NoSnap
           /\ g.snap.src # s => Redrawn(g, s, fresh).snap = g.snap
           /\ Redrawn(g, s, fresh).vram = g.vram /\ Redrawn(g, s, fresh).deps = g.deps
           /\ Redrawn(g, s, fresh).cur = g.cur /\ Redrawn(g, s, fresh).pend = g.pend
           /\ Redrawn(g, s, fresh).tmpl = g.tmpl
<1> DEFINE h == Redrawn(g, s, fresh)
           p == Painted(g, s, fresh)
           one == [g.tgt[s] EXCEPT !.fresh = fresh]
           two == [one EXCEPT !.clean = FALSE]
           sn == [g.snap EXCEPT !.same = g.snap.same /\ g.snap.src # s]
<1>1. /\ g.tgt[s] \in Target /\ g.tgt \in [Slots -> Target]
      /\ g.snap \in [src : Slots \cup {None}, same : BOOLEAN]
  BY BooksParts, SMT
<1>2. one \in Target /\ two \in Target
  BY <1>1, Zenon DEF Target
<1>3. sn.src = g.snap.src /\ sn \in [src : Slots \cup {None}, same : BOOLEAN]
  <2>1. (g.snap.same /\ g.snap.src # s) \in BOOLEAN
    OBVIOUS
  <2> QED
    BY <1>1, <2>1, Zenon
<1>4. sn.same = (g.snap.same /\ g.snap.src # s)
  BY <1>1, Zenon
<1>5. p = [g EXCEPT !.tgt = [g.tgt EXCEPT ![s] = one], !.snap = sn]
  BY Zenon DEF Painted
<1>6. p \in Books
  <2>1. [g.tgt EXCEPT ![s] = one] \in [Slots -> Target]
    BY <1>1, <1>2, SMT
  <2> HIDE DEF p, one, sn
  <2> QED
    BY <2>1, <1>3, <1>5, Zenon DEF Books
<1>7. /\ p.tgt = [g.tgt EXCEPT ![s] = one] /\ p.snap = sn
      /\ p.vram = g.vram /\ p.deps = g.deps /\ p.cur = g.cur
      /\ p.pend = g.pend /\ p.tmpl = g.tmpl
  BY <1>5, Zenon DEF Books
<1>8. h = [p EXCEPT !.tgt = [p.tgt EXCEPT ![s] = [p.tgt[s] EXCEPT !.clean = FALSE]],
                    !.snap = IF p.snap.src = s THEN NoSnap ELSE p.snap]
  BY Zenon DEF NextGen, Redrawn
<1> HIDE DEF p, h
<1>9. h.tgt = [p.tgt EXCEPT ![s] = [p.tgt[s] EXCEPT !.clean = FALSE]]
      /\ h.snap = (IF p.snap.src = s THEN NoSnap ELSE p.snap)
      /\ h.vram = p.vram /\ h.deps = p.deps /\ h.cur = p.cur
      /\ h.pend = p.pend /\ h.tmpl = p.tmpl
  BY <1>6, <1>8, Zenon DEF Books
<1>10. h.tgt = [g.tgt EXCEPT ![s] = two] /\ h.tgt \in [Slots -> Target]
  <2>1. p.tgt[s] = one
    BY <1>1, <1>7, Zenon
  <2>2. h.tgt = [[g.tgt EXCEPT ![s] = one] EXCEPT ![s] = two]
    BY <2>1, <1>7, <1>9, Zenon
  <2> HIDE DEF one, two
  <2> QED BY <2>2, <1>1, <1>2, SMT
<1>11. two = Repainted(g.tgt[s], fresh)
  BY Zenon DEF Repainted
<1> HIDE DEF one, two, sn
<1>12. h.snap = (IF g.snap.src = s THEN NoSnap ELSE sn)
  BY <1>3, <1>7, <1>9, Zenon
<1>13. g.snap.src # s => sn = g.snap
  BY <1>1, <1>3, <1>4, SMT
<1>14. h.snap \in [src : Slots \cup {None}, same : BOOLEAN]
  <2>1. NoSnap \in [src : Slots \cup {None}, same : BOOLEAN]
    BY Zenon DEF NoSnap
  <2> QED
    BY <1>12, <1>3, <2>1, Zenon
<1>15. h \in Books
  BY <1>6, <1>8, <1>9, <1>10, <1>14, Zenon DEF Books
<1>16. h.tgt[s] = Repainted(g.tgt[s], fresh) /\ \A u \in Slots : u # s => h.tgt[u] = g.tgt[u]
  BY <1>1, <1>10, <1>11, SMT
<1>17. (g.snap.src = s => h.snap = NoSnap) /\ (g.snap.src # s => h.snap = g.snap)
  BY <1>12, <1>13
<1> QED BY <1>7, <1>9, <1>15, <1>16, <1>17, Zenon DEF h

LEMMA ResetFields ==
    ASSUME NEW g \in Books
    PROVE  /\ Reset(g) \in Books
           /\ Reset(g).vram = g.vram /\ Reset(g).tgt = g.tgt /\ Reset(g).deps = g.deps
           /\ Reset(g).cur = g.cur /\ Reset(g).snap = g.snap
           /\ Reset(g).pend = Nothing /\ Reset(g).tmpl = None
<1>1. Nothing \in [prims : 0 .. MAX_BATCH, parts : SUBSET Parts, sampled : SUBSET Images]
  <2>1. 0 \in 0 .. MAX_BATCH
    BY TargetsAssumption, SMT
  <2> QED
    BY <2>1, Zenon DEF Nothing
<1>2. Reset(g) \in Books
  BY <1>1, Zenon DEF Reset, Books
<1> QED
  BY <1>2, Zenon DEF Reset, Books

LEMMA RefilledFields ==
    ASSUME NEW t \in Target, NEW fresh \in [Parts -> BOOLEAN],
           NEW r, r = Validated(Repainted(t, fresh))
    PROVE  /\ r \in Target /\ r.fresh = fresh /\ ~r.clean /\ r.valid
           /\ r.used = t.used /\ r.fba = t.fba /\ r.shape = t.shape
           /\ r.dep = t.dep /\ r.fb = t.fb
<1> DEFINE one == Repainted(t, fresh)
<1>1. /\ one \in Target /\ one.fresh = fresh /\ one.clean = FALSE /\ one.used = t.used
      /\ one.fba = t.fba /\ one.shape = t.shape /\ one.dep = t.dep /\ one.fb = t.fb
  BY Zenon DEF Repainted, Target
<1> HIDE DEF one
<1>2. /\ Validated(one) \in Target /\ Validated(one).valid = TRUE
      /\ Validated(one).fresh = one.fresh /\ Validated(one).clean = one.clean
      /\ Validated(one).used = one.used
      /\ Validated(one).fba = one.fba /\ Validated(one).shape = one.shape
      /\ Validated(one).dep = one.dep /\ Validated(one).fb = one.fb
  BY <1>1, Zenon DEF Validated, Target
<1>3. r = Validated(one)
  BY DEF one
<1> QED
  BY <1>1, <1>2, <1>3, Zenon

LEMMA SubmitFields ==
    ASSUME NEW g \in Books, g.pend.prims # 0, g.cur # None,
           NEW fresh, fresh = [p \in Parts |-> g.tgt[g.cur].fresh[p] \/ p \in g.pend.parts]
    PROVE  /\ Submit(g) \in Books /\ fresh \in [Parts -> BOOLEAN]
           /\ Submit(g).tgt[g.cur] = Validated(Repainted(g.tgt[g.cur], fresh))
           /\ \A u \in Slots : u # g.cur => Submit(g).tgt[u] = g.tgt[u]
           /\ g.snap.src = g.cur => Submit(g).snap = NoSnap
           /\ g.snap.src # g.cur => Submit(g).snap = g.snap
           /\ Submit(g).vram = g.vram /\ Submit(g).deps = g.deps /\ Submit(g).cur = g.cur
           /\ Submit(g).pend = Nothing /\ Submit(g).tmpl = None
<1> DEFINE d == Redrawn(g, g.cur, fresh)
           t == Repainted(g.tgt[g.cur], fresh)
           e == [d EXCEPT !.tgt = [d.tgt EXCEPT ![d.cur] = Validated(t)]]
<1>1. g.cur \in Slots /\ g.tgt \in [Slots -> Target] /\ fresh \in [Parts -> BOOLEAN]
  <2>1. g.cur \in Slots /\ g.tgt \in [Slots -> Target]
    BY BooksParts, SMT
  <2>2. \A p \in Parts : (g.tgt[g.cur].fresh[p] \/ p \in g.pend.parts) \in BOOLEAN
    OBVIOUS
  <2> QED
    BY <2>1, <2>2, Zenon
<1>2. t \in Target /\ Validated(t) \in Target
  <2>1. g.tgt[g.cur] \in Target
    BY <1>1
  <2>2. t \in Target
    BY <1>1, <2>1, Zenon DEF Repainted, Target
  <2> HIDE DEF t
  <2> QED
    BY <2>2, Zenon DEF Validated, Target
<1>3. /\ d \in Books
      /\ d.tgt[g.cur] = t
      /\ \A u \in Slots : u # g.cur => d.tgt[u] = g.tgt[u]
      /\ g.snap.src = g.cur => d.snap = NoSnap
      /\ g.snap.src # g.cur => d.snap = g.snap
      /\ d.vram = g.vram /\ d.deps = g.deps /\ d.cur = g.cur
  <2>1. d \in Books /\ d.tgt[g.cur] = t
    BY <1>1, RedrawnFields, Zenon
  <2>2. \A u \in Slots : u # g.cur => d.tgt[u] = g.tgt[u]
    BY <1>1, RedrawnFields, Zenon
  <2>3. (g.snap.src = g.cur => d.snap = NoSnap) /\ (g.snap.src # g.cur => d.snap = g.snap)
    BY <1>1, RedrawnFields, Zenon
  <2>4. d.vram = g.vram /\ d.deps = g.deps
    BY <1>1, RedrawnFields, Zenon
  <2>5. d.cur = g.cur
    BY <1>1, RedrawnFields, Zenon
  <2> HIDE DEF d, t
  <2> QED
    BY <2>1, <2>2, <2>3, <2>4, <2>5, Zenon
<1>4. Submit(g) = Reset([d EXCEPT !.tgt = [d.tgt EXCEPT ![g.cur] = Validated(d.tgt[g.cur])]])
  BY Zenon DEF Submit, Validated, Redrawn
<1> HIDE DEF d
<1>6. Submit(g) = Reset(e)
  BY <1>3, <1>4, Zenon
<1>7. d.tgt \in [Slots -> Target]
  BY <1>3, BooksParts, Zenon
<1>8. e \in Books
  <2>1. [d.tgt EXCEPT ![d.cur] = Validated(t)] \in [Slots -> Target]
    BY <1>1, <1>3, <1>7, <1>2, Zenon
  <2> QED
    BY <2>1, <1>3, Zenon DEF Books
<1>9. /\ e.tgt = [d.tgt EXCEPT ![d.cur] = Validated(t)]
      /\ e.vram = d.vram /\ e.snap = d.snap /\ e.cur = d.cur /\ e.deps = d.deps
  BY <1>3, Zenon DEF Books
<1> HIDE DEF e, t
<1>10. e.tgt[g.cur] = Validated(t) /\ \A u \in Slots : u # g.cur => e.tgt[u] = g.tgt[u]
  BY <1>9, <1>3, <1>1, <1>7, SMT
<1>11. /\ Reset(e) \in Books
       /\ Reset(e).vram = e.vram /\ Reset(e).tgt = e.tgt /\ Reset(e).deps = e.deps
       /\ Reset(e).cur = e.cur /\ Reset(e).snap = e.snap
       /\ Reset(e).pend = Nothing /\ Reset(e).tmpl = None
  BY <1>8, ResetFields, Zenon
<1>12. /\ Submit(g) \in Books /\ Submit(g).pend = Nothing /\ Submit(g).tmpl = None
       /\ Submit(g).vram = g.vram /\ Submit(g).deps = g.deps /\ Submit(g).cur = g.cur
       /\ Submit(g).snap = d.snap /\ Submit(g).tgt = e.tgt
  BY <1>3, <1>6, <1>9, <1>11, Zenon
<1>13. /\ g.snap.src = g.cur => Submit(g).snap = NoSnap
       /\ g.snap.src # g.cur => Submit(g).snap = g.snap
  BY <1>3, <1>12, Zenon
<1>14. /\ Submit(g).tgt[g.cur] = Validated(Repainted(g.tgt[g.cur], fresh))
       /\ \A u \in Slots : u # g.cur => Submit(g).tgt[u] = g.tgt[u]
  BY <1>10, <1>12, Zenon DEF t
<1> QED
  BY <1>1, <1>12, <1>13, <1>14, Zenon

(* Drawing the batches.                                                    *)
LEMMA SubmitSound ==
    ASSUME NEW g, NEW lost, Sound(g, lost)
    PROVE  /\ Sound(Submit(g), lost) /\ SamePlaces(g, Submit(g))
           /\ Submit(g).pend = Nothing /\ Submit(g).tmpl = None /\ Submit(g).vram = g.vram
<1> DEFINE h == Submit(g)
           fresh == [p \in Parts |-> g.tgt[g.cur].fresh[p] \/ p \in g.pend.parts]
<1>0. g \in Books
  BY DEF Sound
<1>1. CASE g.pend.prims = 0
  <2>1. h = Reset(g)
    BY <1>1, Zenon DEF Submit
  <2>2. /\ h \in Books
        /\ h.vram = g.vram /\ h.tgt = g.tgt /\ h.deps = g.deps /\ h.cur = g.cur
        /\ h.snap = g.snap /\ h.pend = Nothing /\ h.tmpl = None
    BY <1>0, <2>1, ResetFields, Zenon
  <2>3. g.pend.parts = {} /\ Nothing.parts = {} /\ Nothing.prims = 0
    BY <1>1, SMT DEF Sound, BatchHasTarget, Nothing
  <2> HIDE DEF h
  <2>4. Newest(h, lost) /\ Kept(h, lost) /\ CleanCurrent(h, lost)
    BY <2>2, <2>3, SMT DEF Sound, Newest, Kept, CleanCurrent, Waits
  <2>5. OnePerAddress(h) /\ DepthsAttached(h) /\ CurrentAttached(h) /\ BatchHasTarget(h) /\ SnapCurrent(h)
    BY <2>2, <2>3, SMT DEF Sound, OnePerAddress, DepthsAttached, CurrentAttached, BatchHasTarget, SnapCurrent
  <2>6. SamePlaces(g, h)
    BY <2>2, SMT DEF SamePlaces
  <2> QED
    BY <2>2, <2>4, <2>5, <2>6 DEF h, Sound
<1>2. CASE g.pend.prims # 0
  <2>1. g.cur # None /\ g.cur \in Slots /\ g.tgt[g.cur].valid /\ g.tgt[g.cur].used
    <3>1. g.pend.prims \in Nat
      BY <1>0, BooksParts, SMT
    <3>2. g.cur \in Slots \cup {None}
      BY <1>0, BooksParts, SMT
    <3> QED BY <1>2, <3>1, <3>2, SMT DEF Sound, BatchHasTarget, CurrentAttached
  <2> DEFINE r == Validated(Repainted(g.tgt[g.cur], fresh))
  <2> HIDE DEF h, fresh, r
  <2>2. /\ h \in Books
        /\ h.tgt[g.cur] = r
        /\ \A u \in Slots : u # g.cur => h.tgt[u] = g.tgt[u]
        /\ g.snap.src = g.cur => h.snap = NoSnap
        /\ g.snap.src # g.cur => h.snap = g.snap
        /\ h.vram = g.vram /\ h.deps = g.deps /\ h.cur = g.cur
        /\ h.pend = Nothing /\ h.tmpl = None /\ fresh \in [Parts -> BOOLEAN]
    BY <1>0, <1>2, <2>1, SubmitFields, Zenon DEF h, fresh, r
  <2>3. Nothing.parts = {} /\ Nothing.prims = 0 /\ NoSnap.src = None
    BY SMT DEF Nothing, NoSnap
  <2>4. g.tgt \in [Slots -> Target] /\ g.tgt[g.cur] \in Target
    BY <1>0, <2>1, BooksParts, SMT
  <2>5. /\ r.fresh = fresh /\ ~r.clean /\ r.valid
        /\ r.used = g.tgt[g.cur].used /\ r.fba = g.tgt[g.cur].fba /\ r.shape = g.tgt[g.cur].shape
        /\ r.dep = g.tgt[g.cur].dep /\ r.fb = g.tgt[g.cur].fb
    <3>1. fresh \in [Parts -> BOOLEAN] /\ g.tgt[g.cur] \in Target
      BY <2>2, <2>4
    <3> HIDE DEF r
    <3>2. r = Validated(Repainted(g.tgt[g.cur], fresh))
      BY DEF r
    <3> QED
      BY <3>1, <3>2, RefilledFields
  <2>7. \A p \in Parts : fresh[p] <=> g.tgt[g.cur].fresh[p] \/ p \in g.pend.parts
    BY Zenon DEF fresh
  <2>a. /\ h.cur = g.cur /\ h.deps = g.deps /\ h.vram = g.vram
        /\ h.pend.prims = 0 /\ h.pend.parts = {}
    BY <2>2, <2>3
  <2>b. /\ \A p \in Parts : h.tgt[g.cur].fresh[p] <=> g.tgt[g.cur].fresh[p] \/ p \in g.pend.parts
        /\ h.tgt[g.cur].valid /\ ~h.tgt[g.cur].clean
        /\ h.tgt[g.cur].used = g.tgt[g.cur].used /\ h.tgt[g.cur].fba = g.tgt[g.cur].fba
        /\ h.tgt[g.cur].shape = g.tgt[g.cur].shape
        /\ h.tgt[g.cur].dep = g.tgt[g.cur].dep /\ h.tgt[g.cur].fb = g.tgt[g.cur].fb
    BY <2>2, <2>5, <2>7, Zenon
  <2>c. \A s \in Slots : s = g.cur \/ h.tgt[s] = g.tgt[s]
    BY <2>2
  <2>8. Newest(h, lost)
    BY <2>1, <2>a, <2>b, <2>c, SMT DEF Sound, Newest, Waits
  <2>9. Kept(h, lost)
    <3> SUFFICES ASSUME NEW q \in Pages \ lost, ~h.vram[q]
                 PROVE  \E s \in Slots : /\ h.tgt[s].valid /\ h.tgt[s].fba = q[1]
                                        /\ h.tgt[s].fresh[q[2]]
      BY Zenon DEF Kept
    <3>1. PICK s \in Slots : /\ g.tgt[s].valid /\ g.tgt[s].fba = q[1]
                             /\ g.tgt[s].fresh[q[2]] \/ Waits(g, s, q[2])
      BY <2>2 DEF Sound, Kept
    <3>2. q[2] \in Parts
      BY DEF Pages
    <3> QED BY <2>a, <2>b, <2>c, <3>1, <3>2, SMT DEF Waits
  <2>10. CleanCurrent(h, lost)
    BY <2>1, <2>a, <2>b, <2>c, SMT DEF Sound, CleanCurrent, Waits
  <2>11. SamePlaces(g, h)
    BY <2>1, <2>a, <2>b, <2>c, Zenon DEF SamePlaces
  <2>d. OnePerAddress(h)
    BY <2>11, SMT DEF Sound, OnePerAddress, SamePlaces
  <2>e. DepthsAttached(h)
    BY <2>11, SMT DEF Sound, DepthsAttached, SamePlaces
  <2>f. CurrentAttached(h)
    BY <2>1, <2>11, SMT DEF Sound, CurrentAttached, SamePlaces
  <2>12. OnePerAddress(h) /\ DepthsAttached(h) /\ CurrentAttached(h)
    BY <2>d, <2>e, <2>f
  <2>13. BatchHasTarget(h) /\ SnapCurrent(h)
    BY <2>1, <2>2, <2>3, <2>a, <2>b, SMT DEF Sound, BatchHasTarget, SnapCurrent
  <2> QED
    BY <2>2, <2>8, <2>9, <2>10, <2>11, <2>12, <2>13 DEF h, Sound
<1> QED
  BY <1>1, <1>2

-----------------------------------------------------------------------------
(* The first of a set of slots, the target at an address, and memory that  *)
(* holds the newest pixels.                                                *)

(* Every set of natural numbers with a member has a least one.             *)
LEMMA HasLeast ==
    ASSUME NEW S, S \subseteq Nat, S # {}
    PROVE  \E m \in S : \A n \in S : m <= n
<1> DEFINE R == OpToRel(<, Nat)
<1>1. IsWellFoundedOn(R, Nat)
  BY NatLessThanWellFounded
<1>2. \A m, n \in Nat : n < m => <<n, m>> \in R
  BY SMT DEF OpToRel
<1> HIDE DEF R
<1>3. PICK m \in S : \A n \in S : ~(<<n, m>> \in R)
  BY <1>1, WFMin, Zenon
<1>4. \A n \in S : ~(n < m)
  BY <1>2, <1>3
<1> QED
  BY <1>4, SMT

(* First finds a slot if there is one.                                     *)
LEMMA FirstIsIn ==
    ASSUME NEW S \in SUBSET Slots
    PROVE  /\ S = {} => First(S) = None
           /\ S # {} => First(S) \in S
<1>1. CASE S = {}
  BY <1>1, Zenon DEF First
<1>2. CASE S # {}
  <2>1. S \subseteq Nat
    BY SMT DEF Slots
  <2>2. \E m \in S : \A n \in S : m <= n
    BY <1>2, <2>1, HasLeast
  <2>3. First(S) = CHOOSE s \in S : \A t \in S : s <= t
    BY <1>2, Zenon DEF First
  <2> QED
    BY <1>2, <2>2, <2>3, Zenon
<1> QED
  BY <1>1, <1>2

(* Slot s holds the target at fba.                                         *)
Holder(g, fba, s) == g.tgt[s].used /\ g.tgt[s].fba = fba

(* At is the slot that holds the target at an address, or None.            *)
LEMMA AtHolds ==
    ASSUME NEW g, NEW fba
    PROVE  \/ At(g, fba) = None /\ \A s \in Slots : ~Holder(g, fba, s)
           \/ At(g, fba) \in Slots /\ At(g, fba) # None /\ Holder(g, fba, At(g, fba))
<1> DEFINE S == {s \in Slots : Holder(g, fba, s)}
<1>1. At(g, fba) = First(S)
  BY Zenon DEF At, Holder
<1>2. S \in SUBSET Slots
  OBVIOUS
<1>3. S = {} => First(S) = None
  BY <1>2, FirstIsIn
<1>4. S # {} => First(S) \in S
  BY <1>2, FirstIsIn
<1>5. None \notin Slots
  BY SlotIsNotNone
<1> QED
  BY <1>1, <1>3, <1>4, <1>5, Zenon

LEMMA AtIsSame ==
    ASSUME NEW g, NEW h, NEW fba,
           \A s \in Slots : Holder(h, fba, s) <=> Holder(g, fba, s)
    PROVE  At(h, fba) = At(g, fba)
<1>1. {s \in Slots : Holder(h, fba, s)} = {s \in Slots : Holder(g, fba, s)}
  OBVIOUS
<1> QED
  BY <1>1, Zenon DEF At, Holder

LEMMA AtIsOnly ==
    ASSUME NEW g, OnePerAddress(g), NEW s \in Slots, g.tgt[s].used
    PROVE  At(g, g.tgt[s].fba) = s
<1>1. Holder(g, g.tgt[s].fba, s)
  BY DEF Holder
<1>2. At(g, g.tgt[s].fba) \in Slots /\ Holder(g, g.tgt[s].fba, At(g, g.tgt[s].fba))
  BY <1>1, AtHolds, Zenon
<1> QED
  BY <1>2, Zenon DEF Holder, OnePerAddress

LEMMA UsedAddress ==
    ASSUME NEW g, NEW lost, Sound(g, lost), NEW s \in Slots, g.tgt[s].used
    PROVE  g.tgt[s].fba \in Addrs
<1>1. g.tgt[s] \in Target
  BY BooksParts, SMT DEF Sound
<1>2. g.tgt[s].fba \in Addrs \cup {None}
  BY <1>1, Zenon DEF Target
<1> QED
  BY <1>2 DEF Sound, OnePerAddress

(* Memory has the newest pixels of a framebuffer, but for those lost.      *)
InMemory(g, lost, fba) == \A p \in Parts : g.vram[<<fba, p>>] \/ <<fba, p>> \in lost

(* An address without a valid image is newest in memory.                   *)
LEMMA InMemoryUnlessValid ==
    ASSUME NEW g, NEW lost, Sound(g, lost), NEW fba \in Addrs,
           \A s \in Slots : g.tgt[s].valid => g.tgt[s].fba # fba
    PROVE  InMemory(g, lost, fba)
<1> SUFFICES ASSUME NEW p \in Parts, <<fba, p>> \notin lost
             PROVE  g.vram[<<fba, p>>]
  BY Zenon DEF InMemory
<1>1. <<fba, p>> \in Pages /\ <<fba, p>>[1] = fba
  BY DEF Pages
<1> QED
  BY <1>1, Zenon DEF Sound, Kept

(* Nothing waits for a target whose batches were submitted.                *)
LEMMA SubmitIfOnSound ==
    ASSUME NEW g, NEW lost, Sound(g, lost), NEW s
    PROVE  /\ Sound(SubmitIfOn(g, s), lost) /\ SamePlaces(g, SubmitIfOn(g, s))
           /\ SubmitIfOn(g, s).vram = g.vram
           /\ SubmitIfOn(g, s).pend = g.pend \/ SubmitIfOn(g, s).pend = Nothing
           /\ s = g.cur => SubmitIfOn(g, s).pend.prims = 0 /\ SubmitIfOn(g, s).pend.parts = {}
           /\ s # g.cur => SubmitIfOn(g, s) = g
<1>1. SamePlaces(g, g)
  BY DEF SamePlaces
<1>2. CASE s = g.cur /\ g.pend.prims # 0
  <2>1. SubmitIfOn(g, s) = Submit(g)
    BY <1>2, Zenon DEF SubmitIfOn, SubmitIfAny
  <2>2. Nothing.prims = 0 /\ Nothing.parts = {}
    BY DEF Nothing
  <2> QED
    BY <1>2, <2>1, <2>2, SubmitSound, Zenon
<1>3. CASE s # g.cur \/ g.pend.prims = 0
  <2>1. SubmitIfOn(g, s) = g
    BY <1>3, Zenon DEF SubmitIfOn, SubmitIfAny
  <2>2. g.pend.prims = 0 => g.pend.parts = {}
    BY DEF Sound, BatchHasTarget
  <2> QED
    BY <1>1, <1>3, <2>1, <2>2, Zenon
<1> QED
  BY <1>2, <1>3

-----------------------------------------------------------------------------
(* target_readback.                                                        *)

Marked(t) == [t EXCEPT !.clean = TRUE]

LEMMA MarkedFields ==
    ASSUME NEW t \in Target
    PROVE  /\ Marked(t) \in Target /\ Marked(t).clean
           /\ Marked(t).fresh = t.fresh /\ (Marked(t).valid <=> t.valid)
           /\ (Marked(t).used <=> t.used) /\ Marked(t).fba = t.fba /\ Marked(t).shape = t.shape
           /\ Marked(t).dep = t.dep /\ Marked(t).fb = t.fb
  BY Zenon DEF Marked, Target

CopyBack(d, s, v) == [d EXCEPT !.vram = v, !.tgt[s].clean = TRUE]

LEMMA CopyBackFields ==
    ASSUME NEW d \in Books, NEW s \in Slots, NEW v \in [Pages -> BOOLEAN],
           NEW h, h = CopyBack(d, s, v)
    PROVE  /\ h \in Books /\ h.vram = v /\ h.tgt[s] = Marked(d.tgt[s])
           /\ \A u \in Slots : u # s => h.tgt[u] = d.tgt[u]
           /\ h.deps = d.deps /\ h.cur = d.cur /\ h.pend = d.pend
           /\ h.tmpl = d.tmpl /\ h.snap = d.snap
<1>1. d.tgt \in [Slots -> Target] /\ d.tgt[s] \in Target
  BY BooksParts, SMT
<1> DEFINE T == [d.tgt EXCEPT ![s] = Marked(d.tgt[s])]
<1>2. T \in [Slots -> Target]
  BY <1>1, MarkedFields, Zenon
<1>3. h = [d EXCEPT !.vram = v, !.tgt = T]
  BY Zenon DEF Marked, CopyBack
<1>5. T[s] = Marked(d.tgt[s]) /\ \A u \in Slots : u # s => T[u] = d.tgt[u]
  BY <1>1, Zenon
<1> HIDE DEF T
<1>4. /\ h \in Books /\ h.vram = v /\ h.tgt = T /\ h.deps = d.deps /\ h.cur = d.cur
      /\ h.pend = d.pend /\ h.tmpl = d.tmpl /\ h.snap = d.snap
  BY <1>2, <1>3, Zenon DEF Books
<1> QED
  BY <1>4, <1>5

(* What was valid is in memory after a readback.                           *)
LEMMA ReadbackSound ==
    ASSUME NEW g, NEW lost, Sound(g, lost), NEW s \in Slots
    PROVE  /\ Sound(Readback(g, s), lost) /\ SamePlaces(g, Readback(g, s))
           /\ g.tgt[s].valid => InMemory(Readback(g, s), lost, g.tgt[s].fba)
           /\ Readback(g, s).pend = g.pend \/ Readback(g, s).pend = Nothing
           /\ s = g.cur /\ g.tgt[s].valid => Readback(g, s).pend.prims = 0 /\ Readback(g, s).pend.parts = {}
           /\ ~g.tgt[s].valid => Readback(g, s) = g
<1> DEFINE d == SubmitIfOn(g, s)
           t == d.tgt[s]
           v == [q \in Pages |-> IF q[1] = t.fba THEN t.fresh[q[2]] ELSE g.vram[q]]
           h == Readback(g, s)
<1>1. CASE ~g.tgt[s].valid
  <2>1. h = g
    BY <1>1, Zenon DEF Readback
  <2>2. SamePlaces(g, g)
    BY DEF SamePlaces
  <2> QED
    BY <1>1, <2>1, <2>2
<1>2. CASE g.tgt[s].valid
  <2>1. /\ Sound(d, lost) /\ SamePlaces(g, d) /\ d.vram = g.vram
        /\ d.pend = g.pend \/ d.pend = Nothing
        /\ s = g.cur => d.pend.prims = 0 /\ d.pend.parts = {}
    BY SubmitIfOnSound, Zenon
  <2>2. d.tgt[s].valid /\ t.fba = g.tgt[s].fba /\ d.cur = g.cur /\ t.used
    BY <1>2, <2>1, SMT DEF SamePlaces, Sound, OnePerAddress
  <2>3. \A p \in Parts : ~Waits(d, s, p)
    BY <2>1, <2>2, SMT DEF Waits
  <2>4. t.fba \in Addrs /\ t \in Target /\ d \in Books
    BY <2>1, <2>2, UsedAddress, BooksParts, SMT DEF Sound
  <2>5. h = IF t.clean THEN d ELSE [d EXCEPT !.vram = v, !.tgt[s].clean = TRUE]
    BY <1>2, Zenon DEF Readback
  <2>6. CASE t.clean
    <3> HIDE DEF d, h
    <3>1. h = d
      BY <2>5, <2>6
    <3>2. InMemory(d, lost, t.fba)
      BY <2>1, <2>2, <2>3, <2>6, Zenon DEF Sound, CleanCurrent, InMemory
    <3> QED
      BY <1>2, <2>1, <2>2, <3>1, <3>2, SMT DEF h
  <2>7. CASE ~t.clean
    <3>1. v \in [Pages -> BOOLEAN]
      <4>1. g.vram \in [Pages -> BOOLEAN]
        BY BooksParts, Zenon DEF Sound
      <4>2. t.fresh \in [Parts -> BOOLEAN]
        BY <2>4, Zenon DEF Target
      <4> QED
        BY <4>1, <4>2, SMT DEF Pages
    <3>a. \A q \in Pages : /\ q[1] = t.fba => (v[q] <=> t.fresh[q[2]])
                           /\ q[1] # t.fba => (v[q] <=> g.vram[q])
      BY Zenon
    <3>b. h = CopyBack(d, s, v) /\ t = d.tgt[s] /\ t \in Target /\ d \in Books
      BY <2>4, <2>5, <2>7, Zenon DEF CopyBack
    <3> HIDE DEF v, d, h, t
    <3>2. /\ h \in Books /\ h.vram = v /\ h.tgt[s] = Marked(t)
          /\ \A u \in Slots : u # s => h.tgt[u] = d.tgt[u]
          /\ h.deps = d.deps /\ h.cur = d.cur /\ h.pend = d.pend
          /\ h.tmpl = d.tmpl /\ h.snap = d.snap
      BY <3>b, <3>1, CopyBackFields
    <3>3. /\ h.tgt[s].clean /\ h.tgt[s].fresh = t.fresh /\ (h.tgt[s].valid <=> t.valid)
          /\ (h.tgt[s].used <=> t.used) /\ h.tgt[s].fba = t.fba /\ h.tgt[s].shape = t.shape
          /\ h.tgt[s].dep = t.dep /\ h.tgt[s].fb = t.fb
      BY <3>b, <3>2, MarkedFields
    <3>4. \A u \in Slots :
             /\ (h.tgt[u].used <=> d.tgt[u].used) /\ (h.tgt[u].valid <=> d.tgt[u].valid)
             /\ h.tgt[u].fba = d.tgt[u].fba /\ h.tgt[u].shape = d.tgt[u].shape
             /\ h.tgt[u].dep = d.tgt[u].dep /\ h.tgt[u].fb = d.tgt[u].fb
             /\ h.tgt[u].fresh = d.tgt[u].fresh
      BY <3>b, <3>2, <3>3, Zenon
    <3>5. /\ \A q \in Pages : q[1] = t.fba => (h.vram[q] <=> t.fresh[q[2]])
          /\ \A q \in Pages : q[1] # t.fba => (h.vram[q] <=> d.vram[q])
      <4>1. h.vram = v /\ d.vram = g.vram
        BY <2>1, <3>2
      <4>2. \A q \in Pages : (h.vram[q] <=> v[q]) /\ (d.vram[q] <=> g.vram[q])
        BY <4>1
      <4> QED
        BY <4>2, <3>a
    <3>6. \A p \in Parts : t.fresh[p] \/ <<t.fba, p>> \in lost
      BY <3>b, <2>1, <2>2, <2>3, Zenon DEF Sound, Newest
    <3>7. \A u \in Slots, p \in Parts : Waits(h, u, p) <=> Waits(d, u, p)
      BY <3>2, Zenon DEF Waits
    <3>8. InMemory(h, lost, t.fba)
      <4> SUFFICES ASSUME NEW p \in Parts PROVE h.vram[<<t.fba, p>>] \/ <<t.fba, p>> \in lost
        BY Zenon DEF InMemory
      <4>1. <<t.fba, p>> \in Pages /\ <<t.fba, p>>[1] = t.fba /\ <<t.fba, p>>[2] = p
        BY <2>4 DEF Pages
      <4> QED
        BY <4>1, <3>5, <3>6, Zenon
    <3>9. Newest(h, lost)
      BY <2>1, <3>4, <3>7, Zenon DEF Sound, Newest
    <3>10. Kept(h, lost)
      <4> SUFFICES ASSUME NEW q \in Pages \ lost, ~h.vram[q]
                   PROVE  \E u \in Slots : /\ h.tgt[u].valid /\ h.tgt[u].fba = q[1]
                                           /\ h.tgt[u].fresh[q[2]] \/ Waits(h, u, q[2])
        BY Zenon DEF Kept
      <4>1. q[1] # t.fba
        <5>1. q = <<q[1], q[2]>> /\ q[2] \in Parts
          BY DEF Pages
        <5> QED
          BY <5>1, <3>8, Zenon DEF InMemory
      <4>2. ~d.vram[q]
        BY <4>1, <3>5
      <4>3. PICK u \in Slots : /\ d.tgt[u].valid /\ d.tgt[u].fba = q[1]
                               /\ d.tgt[u].fresh[q[2]] \/ Waits(d, u, q[2])
        BY <4>2, <2>1, Zenon DEF Sound, Kept
      <4>4. q[2] \in Parts
        BY DEF Pages
      <4> QED
        BY <4>3, <4>4, <3>4, <3>7, Zenon
    <3>11. CleanCurrent(h, lost)
      <4> SUFFICES ASSUME NEW u \in Slots, NEW p \in Parts, h.tgt[u].valid, h.tgt[u].clean
                   PROVE h.vram[<<h.tgt[u].fba, p>>] \/ Waits(h, u, p) \/ <<h.tgt[u].fba, p>> \in lost
        BY Zenon DEF CleanCurrent
      <4>1. CASE u = s
        BY <4>1, <3>8, <3>3, Zenon DEF InMemory
      <4>2. CASE u # s
        <5>1. d.tgt[u].valid /\ d.tgt[u].clean /\ d.tgt[u].used /\ h.tgt[u] = d.tgt[u]
          BY <4>2, <3>2, <2>1, Zenon DEF Sound, OnePerAddress
        <5>2. d.tgt[u].fba # t.fba /\ d.tgt[u].fba \in Addrs
          BY <5>1, <4>2, <2>1, <2>2, <3>b, UsedAddress, Zenon DEF Sound, OnePerAddress
        <5>3. d.vram[<<d.tgt[u].fba, p>>] \/ Waits(d, u, p) \/ <<d.tgt[u].fba, p>> \in lost
          BY <5>1, <2>1, Zenon DEF Sound, CleanCurrent
        <5>4. <<d.tgt[u].fba, p>> \in Pages /\ <<d.tgt[u].fba, p>>[1] = d.tgt[u].fba
          BY <5>2 DEF Pages
        <5> QED
          BY <5>1, <5>2, <5>3, <5>4, <3>5, <3>7, Zenon
      <4> QED
        BY <4>1, <4>2
    <3>12. SamePlaces(d, h)
      BY <3>2, <3>4, Zenon DEF SamePlaces
    <3>13. OnePerAddress(h) /\ DepthsAttached(h)
      BY <3>2, <3>4, <2>1, SMT DEF Sound, OnePerAddress, DepthsAttached
    <3>14. CurrentAttached(h) /\ BatchHasTarget(h) /\ SnapCurrent(h)
      <4>1. d.cur \in Slots \cup {None}
        BY <2>4, BooksParts, Zenon
      <4> QED
        BY <4>1, <3>2, <3>4, <2>1, SMT DEF Sound, CurrentAttached, BatchHasTarget, SnapCurrent
    <3>15. Sound(h, lost)
      BY <3>2, <3>9, <3>10, <3>11, <3>13, <3>14 DEF Sound
    <3>16. SamePlaces(g, h)
      BY <2>1, <3>12, SMT DEF SamePlaces
    <3> QED
      BY <1>2, <2>1, <2>2, <3>2, <3>8, <3>15, <3>16 DEF h
  <2> QED
    BY <2>6, <2>7
<1> QED
  BY <1>1, <1>2

-----------------------------------------------------------------------------
(* A target is written to, and target_upload.                              *)

(* One target changes.  What only its image had is in memory, or is in the *)
(* image still.                                                            *)
LEMMA EditSound ==
    ASSUME NEW g, NEW lost, Sound(g, lost), NEW h \in Books, NEW s \in Slots,
           h.vram = g.vram, h.deps = g.deps, h.cur = g.cur, h.pend = g.pend,
           \A u \in Slots : u # s => h.tgt[u] = g.tgt[u],
           h.tgt[s].valid => h.tgt[s].used,
           h.tgt[s].used => /\ h.tgt[s].fba # None
                            /\ \A u \in Slots : u # s /\ g.tgt[u].used => g.tgt[u].fba # h.tgt[s].fba,
           h.tgt[s].fb # None => h.tgt[s].dep \in DOMAIN g.deps /\ h.tgt[s].fb = g.deps[h.tgt[s].dep],
           s = g.cur => h.tgt[s].used /\ h.tgt[s].fb # None /\ (g.tgt[s].valid => h.tgt[s].valid),
           h.tgt[s].valid => \A p \in Parts :
               h.tgt[s].fresh[p] \/ Waits(g, s, p) \/ <<h.tgt[s].fba, p>> \in lost,
           g.tgt[s].valid =>
              \/ InMemory(g, lost, g.tgt[s].fba)
              \/ /\ h.tgt[s].valid /\ h.tgt[s].fba = g.tgt[s].fba
                 /\ \A p \in Parts : g.tgt[s].fresh[p] => h.tgt[s].fresh[p],
           h.tgt[s].valid /\ h.tgt[s].clean => \A p \in Parts :
               g.vram[<<h.tgt[s].fba, p>>] \/ Waits(g, s, p) \/ <<h.tgt[s].fba, p>> \in lost,
           SnapCurrent(h)
    PROVE  Sound(h, lost)
<1>1. \A u \in Slots, p \in Parts : Waits(h, u, p) <=> Waits(g, u, p)
  BY Zenon DEF Waits
<1>2. OnePerAddress(h)
  BY SMT DEF Sound, OnePerAddress
<1>3. DepthsAttached(h)
  BY SMT DEF Sound, DepthsAttached
<1>4. CurrentAttached(h)
  <2>1. h.cur \in Slots \cup {None}
    BY BooksParts, Zenon
  <2> QED
    BY <2>1, SMT DEF Sound, CurrentAttached
<1>5. BatchHasTarget(h)
  <2>1. h.cur \in Slots \cup {None}
    BY BooksParts, Zenon
  <2> QED
    BY <2>1, SMT DEF Sound, BatchHasTarget
<1>6. Newest(h, lost)
  BY <1>1, Zenon DEF Sound, Newest
<1>7. Kept(h, lost)
  <2> SUFFICES ASSUME NEW q \in Pages \ lost, ~h.vram[q]
               PROVE  \E u \in Slots : /\ h.tgt[u].valid /\ h.tgt[u].fba = q[1]
                                       /\ h.tgt[u].fresh[q[2]] \/ Waits(h, u, q[2])
    BY Zenon DEF Kept
  <2>1. PICK u \in Slots : /\ g.tgt[u].valid /\ g.tgt[u].fba = q[1]
                           /\ g.tgt[u].fresh[q[2]] \/ Waits(g, u, q[2])
    BY Zenon DEF Sound, Kept
  <2>2. q = <<q[1], q[2]>> /\ q[2] \in Parts
    BY DEF Pages
  <2>3. CASE u # s
    BY <1>1, <2>1, <2>2, <2>3, Zenon
  <2>4. CASE u = s
    <3>1. ~InMemory(g, lost, g.tgt[s].fba)
      BY <2>1, <2>2, <2>4, Zenon DEF InMemory
    <3> QED
      BY <1>1, <2>1, <2>2, <2>4, <3>1, Zenon
  <2> QED
    BY <2>3, <2>4
<1>8. CleanCurrent(h, lost)
  BY <1>1, Zenon DEF Sound, CleanCurrent
<1> QED
  BY <1>2, <1>3, <1>4, <1>5, <1>6, <1>7, <1>8 DEF Sound

Loaded(t, fresh) == Marked(Validated(Repainted(t, fresh)))

LEMMA LoadedFields ==
    ASSUME NEW t \in Target, NEW fresh \in [Parts -> BOOLEAN],
           NEW r, r = Loaded(t, fresh)
    PROVE  /\ r \in Target /\ r.fresh = fresh /\ r.clean /\ r.valid
           /\ (r.used <=> t.used) /\ r.fba = t.fba /\ r.shape = t.shape
           /\ r.dep = t.dep /\ r.fb = t.fb
<1> DEFINE one == Validated(Repainted(t, fresh))
<1>1. /\ one \in Target /\ one.fresh = fresh /\ one.valid
      /\ one.used = t.used /\ one.fba = t.fba /\ one.shape = t.shape
      /\ one.dep = t.dep /\ one.fb = t.fb
  <2> HIDE DEF one
  <2>1. one = Validated(Repainted(t, fresh))
    BY DEF one
  <2> QED
    BY <2>1, RefilledFields
<1>2. r = Marked(one)
  BY DEF Loaded
<1> HIDE DEF one
<1> QED
  BY <1>1, <1>2, MarkedFields

SetTarget(d, s, r) == [d EXCEPT !.tgt = [d.tgt EXCEPT ![s] = r]]

LEMMA SetTargetFields ==
    ASSUME NEW d \in Books, NEW s \in Slots, NEW r \in Target, NEW h, h = SetTarget(d, s, r)
    PROVE  /\ h \in Books /\ h.tgt[s] = r
           /\ \A u \in Slots : u # s => h.tgt[u] = d.tgt[u]
           /\ h.vram = d.vram /\ h.deps = d.deps /\ h.cur = d.cur /\ h.pend = d.pend
           /\ h.tmpl = d.tmpl /\ h.snap = d.snap
<1> DEFINE T == [d.tgt EXCEPT ![s] = r]
<1>1. d.tgt \in [Slots -> Target]
  BY BooksParts, SMT
<1>2. T \in [Slots -> Target]
  BY <1>1, Zenon
<1>3. T[s] = r /\ \A u \in Slots : u # s => T[u] = d.tgt[u]
  BY <1>1, Zenon
<1>4. h = [d EXCEPT !.tgt = T]
  BY Zenon DEF SetTarget
<1> HIDE DEF T
<1>5. /\ h \in Books /\ h.vram = d.vram /\ h.tgt = T /\ h.deps = d.deps /\ h.cur = d.cur
      /\ h.pend = d.pend /\ h.tmpl = d.tmpl /\ h.snap = d.snap
  BY <1>2, <1>4, Zenon DEF Books
<1> QED
  BY <1>3, <1>5

LEMMA UploadFields ==
    ASSUME NEW g \in Books, NEW s \in Slots, g.tgt[s].fba \in Addrs,
           NEW fresh, fresh = [p \in Parts |-> g.vram[<<g.tgt[s].fba, p>>]]
    PROVE  /\ Upload(g, s) \in Books /\ fresh \in [Parts -> BOOLEAN]
           /\ Upload(g, s).tgt[s] = Loaded(g.tgt[s], fresh)
           /\ \A u \in Slots : u # s => Upload(g, s).tgt[u] = g.tgt[u]
           /\ Upload(g, s).snap = NoSnap \/ Upload(g, s).snap = g.snap
           /\ Upload(g, s).vram = g.vram /\ Upload(g, s).deps = g.deps
           /\ Upload(g, s).cur = g.cur /\ Upload(g, s).pend = g.pend
           /\ Upload(g, s).tmpl = g.tmpl
<1> DEFINE d == Redrawn(g, s, fresh)
           r == Loaded(g.tgt[s], fresh)
           h == Upload(g, s)
<1>1. fresh \in [Parts -> BOOLEAN]
  <2>1. g.vram \in [Pages -> BOOLEAN]
    BY BooksParts, Zenon
  <2> QED
    BY <2>1, SMT DEF Pages
<1>2. g.tgt \in [Slots -> Target] /\ g.tgt[s] \in Target
  BY BooksParts, SMT
<1>3. r \in Target
  <2> HIDE DEF r
  <2>1. r = Loaded(g.tgt[s], fresh)
    BY DEF r
  <2> QED
    BY <1>1, <1>2, <2>1, LoadedFields
<1>4. /\ d \in Books /\ d.tgt[s] = Repainted(g.tgt[s], fresh)
      /\ \A u \in Slots : u # s => d.tgt[u] = g.tgt[u]
      /\ g.snap.src = s => d.snap = NoSnap
      /\ g.snap.src # s => d.snap = g.snap
      /\ d.vram = g.vram /\ d.deps = g.deps /\ d.cur = g.cur /\ d.pend = g.pend
      /\ d.tmpl = g.tmpl
  <2>1. d \in Books /\ d.tgt[s] = Repainted(g.tgt[s], fresh)
    BY <1>1, RedrawnFields, Zenon
  <2>2. \A u \in Slots : u # s => d.tgt[u] = g.tgt[u]
    BY <1>1, RedrawnFields, Zenon
  <2>3. (g.snap.src = s => d.snap = NoSnap) /\ (g.snap.src # s => d.snap = g.snap)
    BY <1>1, RedrawnFields, Zenon
  <2>4. d.vram = g.vram /\ d.deps = g.deps /\ d.cur = g.cur /\ d.pend = g.pend /\ d.tmpl = g.tmpl
    BY <1>1, RedrawnFields, Zenon
  <2> HIDE DEF d
  <2> QED
    BY <2>1, <2>2, <2>3, <2>4, Zenon
<1>5. h = [d EXCEPT !.tgt[s].valid = TRUE, !.tgt[s].clean = TRUE]
  BY Zenon DEF Upload, Redrawn
<1> HIDE DEF d, h
<1>6. h = SetTarget(d, s, r)
  <2>1. h = [d EXCEPT !.tgt = [d.tgt EXCEPT ![s] = Marked(Validated(d.tgt[s]))]]
    BY <1>5, Zenon DEF Marked, Validated
  <2> QED
    BY <1>4, <2>1, Zenon DEF SetTarget, Loaded
<1> HIDE DEF r
<1>7. /\ h \in Books /\ h.tgt[s] = r
      /\ \A u \in Slots : u # s => h.tgt[u] = d.tgt[u]
      /\ h.vram = d.vram /\ h.deps = d.deps /\ h.cur = d.cur /\ h.pend = d.pend
      /\ h.tmpl = d.tmpl /\ h.snap = d.snap
  BY <1>3, <1>4, <1>6, SetTargetFields
<1> QED
  BY <1>1, <1>4, <1>7 DEF h, r

(* A target can be filled from memory that has the newest pixels.          *)
LEMMA UploadSound ==
    ASSUME NEW g, NEW lost, Sound(g, lost), NEW s \in Slots, g.tgt[s].used,
           InMemory(g, lost, g.tgt[s].fba)
    PROVE  /\ Sound(Upload(g, s), lost)
           /\ Upload(g, s).tgt[s].used /\ Upload(g, s).tgt[s].valid
           /\ Upload(g, s).tgt[s].fba = g.tgt[s].fba /\ Upload(g, s).tgt[s].shape = g.tgt[s].shape
           /\ \A u \in Slots : u # s => Upload(g, s).tgt[u] = g.tgt[u]
           /\ Upload(g, s).vram = g.vram /\ Upload(g, s).deps = g.deps
           /\ Upload(g, s).cur = g.cur /\ Upload(g, s).pend = g.pend
           /\ Upload(g, s).tmpl = g.tmpl
<1> DEFINE fresh == [p \in Parts |-> g.vram[<<g.tgt[s].fba, p>>]]
           h == Upload(g, s)
<1>1. g.tgt[s].fba \in Addrs /\ g \in Books /\ g.tgt[s] \in Target
  BY UsedAddress, BooksParts, SMT DEF Sound
<1>2. \A p \in Parts : fresh[p] <=> g.vram[<<g.tgt[s].fba, p>>]
  BY Zenon
<1>a. fresh = [p \in Parts |-> g.vram[<<g.tgt[s].fba, p>>]]
  OBVIOUS
<1> HIDE DEF h, fresh
<1>3. /\ h \in Books /\ fresh \in [Parts -> BOOLEAN]
      /\ h.tgt[s] = Loaded(g.tgt[s], fresh)
      /\ \A u \in Slots : u # s => h.tgt[u] = g.tgt[u]
      /\ h.snap = NoSnap \/ h.snap = g.snap
      /\ h.vram = g.vram /\ h.deps = g.deps
      /\ h.cur = g.cur /\ h.pend = g.pend
      /\ h.tmpl = g.tmpl
  BY <1>1, <1>a, UploadFields DEF h
<1>4. /\ h.tgt[s].fresh = fresh /\ h.tgt[s].clean /\ h.tgt[s].valid
      /\ (h.tgt[s].used <=> g.tgt[s].used) /\ h.tgt[s].fba = g.tgt[s].fba
      /\ h.tgt[s].shape = g.tgt[s].shape
      /\ h.tgt[s].dep = g.tgt[s].dep /\ h.tgt[s].fb = g.tgt[s].fb
  BY <1>1, <1>3, LoadedFields
<1>5. SnapCurrent(h)
  <2>1. NoSnap.src = None
    BY DEF NoSnap
  <2> QED
    BY <1>3, <2>1 DEF Sound, SnapCurrent
<1>6. \A p \in Parts : h.tgt[s].fresh[p] <=> g.vram[<<g.tgt[s].fba, p>>]
  BY <1>2, <1>4, Zenon
<1>7. \A p \in Parts : h.tgt[s].fresh[p] \/ <<h.tgt[s].fba, p>> \in lost
  BY <1>4, <1>6, Zenon DEF InMemory
<1>8. \A p \in Parts : g.vram[<<h.tgt[s].fba, p>>] \/ <<h.tgt[s].fba, p>> \in lost
  BY <1>4, Zenon DEF InMemory
<1>9. g.tgt[s].fba # None /\ \A u \in Slots : u # s /\ g.tgt[u].used => g.tgt[u].fba # g.tgt[s].fba
  BY Zenon DEF Sound, OnePerAddress
<1>10. g.tgt[s].fb # None => g.tgt[s].dep \in DOMAIN g.deps /\ g.tgt[s].fb = g.deps[g.tgt[s].dep]
  BY DEF Sound, DepthsAttached
<1>11. s = g.cur => g.tgt[s].fb # None
  BY SlotIsNotNone DEF Sound, CurrentAttached
<1>12. Sound(h, lost)
  BY <1>3, <1>4, <1>5, <1>7, <1>8, <1>9, <1>10, <1>11, EditSound
<1> QED
  BY <1>3, <1>4, <1>12 DEF h

-----------------------------------------------------------------------------
(* A target is destroyed or given up.                                      *)

LEMMA FreeFields ==
    /\ Free \in Target /\ ~Free.used /\ ~Free.valid /\ ~Free.clean /\ Free.fb = None /\ Free.dep = None
<1>1. Stale \in [Parts -> BOOLEAN]
  BY Zenon DEF Stale
<1> HIDE DEF Stale
<1>2. Free \in Target
  BY <1>1, Zenon DEF Free, Target
<1> QED
  BY <1>2, Zenon DEF Free

LEMMA DestroyFields ==
    ASSUME NEW g \in Books, NEW s \in Slots, NEW h, h = Destroy(g, s)
    PROVE  /\ h \in Books /\ h.tgt[s] = Free
           /\ \A u \in Slots : u # s => h.tgt[u] = g.tgt[u]
           /\ h.snap = NoSnap \/ h.snap = g.snap
           /\ h.vram = g.vram /\ h.deps = g.deps /\ h.cur = g.cur /\ h.pend = g.pend
           /\ g.tmpl = None => h.tmpl = None
<1> DEFINE T == [g.tgt EXCEPT ![s] = Free]
           sn == IF g.snap.src = s THEN NoSnap ELSE g.snap
           tm == IF g.tmpl # None /\ g.tmpl.dset = s
                       THEN [tex |-> g.tmpl.tex, dset |-> Gone] ELSE g.tmpl
<1>1. /\ g.tgt \in [Slots -> Target]
      /\ g.snap \in [src : Slots \cup {None}, same : BOOLEAN]
      /\ g.tmpl \in [tex : Textures, dset : Images \cup {None}] \cup {None}
  BY BooksParts, SMT
<1>2. T \in [Slots -> Target]
  BY <1>1, FreeFields, Zenon
<1>3. T[s] = Free /\ \A u \in Slots : u # s => T[u] = g.tgt[u]
  BY <1>1, Zenon
<1>4. sn \in [src : Slots \cup {None}, same : BOOLEAN]
  <2>1. NoSnap \in [src : Slots \cup {None}, same : BOOLEAN]
    BY Zenon DEF NoSnap
  <2> QED
    BY <1>1, <2>1, Zenon
<1>5. tm \in [tex : Textures, dset : Images \cup {None}] \cup {None}
  <2>1. CASE g.tmpl # None /\ g.tmpl.dset = s
    <3>1. g.tmpl.tex \in Textures
      BY <1>1, <2>1, Zenon
    <3>2. Gone \in Images \cup {None}
      BY Zenon DEF Images
    <3> QED
      BY <2>1, <3>1, <3>2, Zenon
  <2>2. CASE ~(g.tmpl # None /\ g.tmpl.dset = s)
    BY <1>1, <2>2, Zenon
  <2> QED
    BY <2>1, <2>2
<1>6. (sn = NoSnap \/ sn = g.snap) /\ (g.tmpl = None => tm = None)
  BY Zenon
<1>7. h = [g EXCEPT !.tgt = T, !.snap = sn, !.tmpl = tm]
  BY Zenon DEF Destroy
<1> HIDE DEF T, sn, tm
<1>8. /\ h \in Books /\ h.tgt = T /\ h.snap = sn /\ h.tmpl = tm
      /\ h.vram = g.vram /\ h.deps = g.deps /\ h.cur = g.cur /\ h.pend = g.pend
  BY <1>2, <1>4, <1>5, <1>7, Zenon DEF Books
<1> QED
  BY <1>3, <1>6, <1>8

(* A target can be destroyed if memory has its pixels.                     *)
LEMMA DestroySound ==
    ASSUME NEW g, NEW lost, Sound(g, lost), NEW s \in Slots, g.cur # s,
           g.tgt[s].valid => InMemory(g, lost, g.tgt[s].fba),
           NEW h, h = Destroy(g, s)
    PROVE  /\ Sound(h, lost) /\ h.tgt[s] = Free
           /\ \A u \in Slots : u # s => h.tgt[u] = g.tgt[u]
           /\ h.vram = g.vram /\ h.deps = g.deps /\ h.cur = g.cur /\ h.pend = g.pend
           /\ g.tmpl = None => h.tmpl = None
<1>1. /\ h \in Books /\ h.tgt[s] = Free
      /\ \A u \in Slots : u # s => h.tgt[u] = g.tgt[u]
      /\ h.snap = NoSnap \/ h.snap = g.snap
      /\ h.vram = g.vram /\ h.deps = g.deps /\ h.cur = g.cur /\ h.pend = g.pend
      /\ g.tmpl = None => h.tmpl = None
  <2>1. g \in Books
    BY DEF Sound
  <2> QED
    BY <2>1, DestroyFields
<1>2. SnapCurrent(h)
  <2>1. NoSnap.src = None
    BY DEF NoSnap
  <2> QED
    BY <1>1, <2>1 DEF Sound, SnapCurrent
<1>3. ~h.tgt[s].used /\ ~h.tgt[s].valid /\ h.tgt[s].fb = None
  BY <1>1, FreeFields
<1>4. Sound(h, lost)
  BY <1>1, <1>2, <1>3, EditSound
<1> QED
  BY <1>1, <1>4

(* The current target is given up once nothing waits for it.               *)
Unset(g) == [g EXCEPT !.cur = None]

LEMMA UnsetSound ==
    ASSUME NEW g, NEW lost, Sound(g, lost), g.pend.prims = 0, NEW h, h = Unset(g)
    PROVE  /\ Sound(h, lost) /\ h.cur = None
           /\ h.vram = g.vram /\ h.deps = g.deps /\ h.tgt = g.tgt /\ h.pend = g.pend
           /\ h.tmpl = g.tmpl /\ h.snap = g.snap
<1>1. g \in Books /\ g.pend.parts = {}
  BY DEF Sound, BatchHasTarget
<1>2. /\ h \in Books /\ h.cur = None
      /\ h.vram = g.vram /\ h.deps = g.deps /\ h.tgt = g.tgt /\ h.pend = g.pend
      /\ h.tmpl = g.tmpl /\ h.snap = g.snap
  <2>1. None \in Slots \cup {None}
    OBVIOUS
  <2> QED
    BY <1>1, <2>1, Zenon DEF Unset, Books
<1>3. \A u, p : ~Waits(h, u, p) /\ ~Waits(g, u, p)
  BY <1>1, <1>2 DEF Waits
<1>4. Newest(h, lost) /\ Kept(h, lost) /\ CleanCurrent(h, lost)
  BY <1>2, <1>3, Zenon DEF Sound, Newest, Kept, CleanCurrent
<1>5. OnePerAddress(h) /\ DepthsAttached(h)
  BY <1>2, SMT DEF Sound, OnePerAddress, DepthsAttached
<1>6. CurrentAttached(h) /\ BatchHasTarget(h) /\ SnapCurrent(h)
  BY <1>1, <1>2, SMT DEF Sound, CurrentAttached, BatchHasTarget, SnapCurrent
<1> QED
  BY <1>2, <1>4, <1>5, <1>6 DEF Sound

(* Giving up a target reads it back before it is destroyed.                *)
LEMMA GiveUpSound ==
    ASSUME NEW g, NEW lost, Sound(g, lost), NEW s \in Slots, NEW h, h = GiveUp(g, s)
    PROVE  /\ Sound(h, lost) /\ ~h.tgt[s].used /\ h.tgt[s] = Free
           /\ \A u \in Slots : u # s =>
                /\ (h.tgt[u].used <=> g.tgt[u].used) /\ h.tgt[u].fba = g.tgt[u].fba
                /\ h.tgt[u].shape = g.tgt[u].shape /\ (h.tgt[u].valid <=> g.tgt[u].valid)
           /\ h.cur # s /\ (h.cur = g.cur \/ h.cur = None)
           /\ h.pend = g.pend \/ h.pend = Nothing
           /\ g.pend = Nothing => h.pend = Nothing
<1> DEFINE d == Readback(g, s)
           e == Submit(d)
           f == Unset(e)
<1>1. /\ Sound(d, lost) /\ SamePlaces(g, d)
      /\ g.tgt[s].valid => InMemory(d, lost, g.tgt[s].fba)
      /\ d.pend = g.pend \/ d.pend = Nothing
  BY ReadbackSound
<1>2. h = IF d.cur = s THEN Destroy(f, s) ELSE Destroy(d, s)
  BY Zenon DEF GiveUp, Unset
<1>3. d.tgt[s].valid => InMemory(d, lost, d.tgt[s].fba)
  BY <1>1, SMT DEF SamePlaces
<1>4. ~Free.used /\ Nothing.prims = 0
  BY FreeFields DEF Nothing
<1>5. CASE d.cur # s
  <2> HIDE DEF d, e, f
  <2>1. h = Destroy(d, s)
    BY <1>2, <1>5, Zenon
  <2>2. /\ Sound(h, lost) /\ h.tgt[s] = Free
        /\ \A u \in Slots : u # s => h.tgt[u] = d.tgt[u]
        /\ h.cur = d.cur /\ h.pend = d.pend
    BY <1>1, <1>3, <1>5, <2>1, DestroySound
  <2> QED
    BY <1>1, <1>4, <1>5, <2>2 DEF SamePlaces
<1>6. CASE d.cur = s
  <2>1. /\ Sound(e, lost) /\ SamePlaces(d, e) /\ e.pend = Nothing /\ e.vram = d.vram
    BY <1>1, SubmitSound
  <2> HIDE DEF d, e
  <2>2. /\ Sound(f, lost) /\ f.cur = None /\ f.vram = e.vram /\ f.tgt = e.tgt /\ f.pend = e.pend
    BY <1>4, <2>1, UnsetSound
  <2> HIDE DEF f
  <2>3. f.tgt[s].valid => InMemory(f, lost, f.tgt[s].fba)
    BY <1>3, <2>1, <2>2, SMT DEF SamePlaces, InMemory
  <2>4. h = Destroy(f, s)
    BY <1>2, <1>6, Zenon
  <2>5. /\ Sound(h, lost) /\ h.tgt[s] = Free
        /\ \A u \in Slots : u # s => h.tgt[u] = f.tgt[u]
        /\ h.cur = f.cur /\ h.pend = f.pend
    BY <2>2, <2>3, <2>4, SlotIsNotNone, DestroySound
  <2> QED
    BY <1>1, <1>4, <2>1, <2>2, <2>5, SlotIsNotNone DEF SamePlaces
<1> QED
  BY <1>5, <1>6

-----------------------------------------------------------------------------
(* target_acquire: a target of another shape gives way, a slot is taken,   *)
(* the image is filled.                                                    *)

(* No primitive was added to the batch.                                    *)
Quieter(g, h) == h.pend = g.pend \/ h.pend = Nothing

(* A target that fits the setting, if there is one at its address.         *)
Fits(g, to) == \A s \in Slots : Holder(g, to.fba, s) => g.tgt[s].shape = to.shape

(* There is a valid target that fits.                                      *)
Filled(g, to) ==
    \E s \in Slots : Holder(g, to.fba, s) /\ g.tgt[s].shape = to.shape /\ g.tgt[s].valid

(* A target in the way is read back and destroyed.                         *)
LEMMA ReinterpretSound ==
    ASSUME NEW g, NEW lost, Sound(g, lost), NEW to, NEW h, h = Reinterpret(g, to)
    PROVE  Sound(h, lost) /\ Quieter(g, h) /\ Fits(h, to)
<1> DEFINE s == At(g, to.fba)
<1>1. \/ s = None /\ \A u \in Slots : ~Holder(g, to.fba, u)
      \/ s \in Slots /\ s # None /\ Holder(g, to.fba, s)
  BY AtHolds
<1>2. h = IF s # None /\ g.tgt[s].shape # to.shape THEN GiveUp(g, s) ELSE g
  BY Zenon DEF Reinterpret
<1> HIDE DEF s
<1>3. CASE s = None
  BY <1>1, <1>2, <1>3, SlotIsNotNone, Zenon DEF Fits, Quieter
<1>4. CASE s \in Slots /\ s # None /\ Holder(g, to.fba, s)
  <2>1. \A u \in Slots : Holder(g, to.fba, u) => u = s
    BY <1>4, Zenon DEF Sound, OnePerAddress, Holder
  <2>2. CASE g.tgt[s].shape = to.shape
    BY <1>2, <2>1, <2>2, Zenon DEF Fits, Quieter
  <2>3. CASE g.tgt[s].shape # to.shape
    <3>1. h = GiveUp(g, s)
      BY <1>2, <1>4, <2>3, Zenon
    <3>2. /\ Sound(h, lost) /\ ~h.tgt[s].used
          /\ \A u \in Slots : u # s =>
                (h.tgt[u].used <=> g.tgt[u].used) /\ h.tgt[u].fba = g.tgt[u].fba
          /\ h.pend = g.pend \/ h.pend = Nothing
      BY <1>4, <3>1, GiveUpSound
    <3>3. \A u \in Slots : ~Holder(h, to.fba, u)
      BY <2>1, <3>2 DEF Holder
    <3> QED
      BY <3>2, <3>3, Zenon DEF Fits, Quieter
  <2> QED
    BY <2>2, <2>3
<1> QED
  BY <1>1, <1>3, <1>4

Fresh(to) == [Free EXCEPT !.used = TRUE, !.fba = to.fba, !.shape = to.shape]

LEMMA FreshFields ==
    ASSUME NEW to, to.fba \in Addrs, to.shape \in Shapes, NEW t, t = Fresh(to)
    PROVE  /\ t \in Target /\ t.used /\ t.fba = to.fba /\ t.shape = to.shape
           /\ ~t.valid /\ ~t.clean /\ t.fb = None
<1>1. Free \in Target /\ ~Free.valid /\ ~Free.clean /\ Free.fb = None
  BY FreeFields
<1> QED
  BY <1>1, Zenon DEF Fresh, Target

(* A slot is found, if need be one whose target is given up, and filled.   *)
LEMMA PlaceSound ==
    ASSUME NEW g, NEW lost, Sound(g, lost), NEW to, to.fba \in Addrs, to.shape \in Shapes,
           NEW old \in Slots, \A u \in Slots : ~Holder(g, to.fba, u),
           NEW h, h = Place(g, to, old)
    PROVE  Sound(h, lost) /\ Quieter(g, h) /\ Filled(h, to)
<1> DEFINE free == {u \in Slots : ~g.tgt[u].used}
           s == IF free # {} THEN First(free) ELSE old
           d == IF free # {} THEN g ELSE GiveUp(g, s)
           t == Fresh(to)
           e == SetTarget(d, s, t)
<1>1. free # {} => First(free) \in free
  <2>1. free \in SUBSET Slots
    OBVIOUS
  <2> QED
    BY <2>1, FirstIsIn
<1>2. s \in Slots
  BY <1>1
<1>3. /\ Sound(d, lost) /\ ~d.tgt[s].used /\ d.cur # s /\ Quieter(g, d)
      /\ \A u \in Slots : ~Holder(d, to.fba, u)
  <2>1. CASE free # {}
    <3>1. d = g /\ s = First(free) /\ ~g.tgt[s].used
      BY <1>1, <2>1
    <3> HIDE DEF d, s
    <3>2. g.cur # s
      BY <1>2, <3>1, SlotIsNotNone DEF Sound, CurrentAttached
    <3> QED
      BY <3>1, <3>2 DEF Quieter
  <2>2. CASE free = {}
    <3>1. d = GiveUp(g, s)
      BY <2>2
    <3> HIDE DEF d, s
    <3>2. /\ Sound(d, lost) /\ ~d.tgt[s].used
          /\ \A u \in Slots : u # s =>
                (d.tgt[u].used <=> g.tgt[u].used) /\ d.tgt[u].fba = g.tgt[u].fba
          /\ d.pend = g.pend \/ d.pend = Nothing
          /\ d.cur # s
      <4>1. Sound(d, lost)
        BY <1>2, <3>1, GiveUpSound, SMT
      <4>2. ~d.tgt[s].used
        BY <1>2, <3>1, GiveUpSound, SMT
      <4>3. \A u \in Slots : u # s =>
                (d.tgt[u].used <=> g.tgt[u].used) /\ d.tgt[u].fba = g.tgt[u].fba
        BY <1>2, <3>1, GiveUpSound, SMT
      <4>4. d.pend = g.pend \/ d.pend = Nothing
        BY <1>2, <3>1, GiveUpSound, SMT
      <4>5. d.cur # s
        BY <1>2, <3>1, GiveUpSound, SMT
      <4> QED
        BY <4>1, <4>2, <4>3, <4>4, <4>5, Zenon
    <3> QED
      BY <3>2 DEF Holder, Quieter
  <2> QED
    BY <2>1, <2>2
<1>4. h = Upload(e, s)
  BY Zenon DEF Place, Fresh, SetTarget
<1>5. /\ t \in Target /\ t.used /\ t.fba = to.fba /\ t.shape = to.shape
      /\ ~t.valid /\ ~t.clean /\ t.fb = None
  <2> HIDE DEF t
  <2>1. t = Fresh(to)
    BY DEF t
  <2> QED
    BY <2>1, FreshFields
<1> HIDE DEF free, s, d, t
<1>6. /\ e \in Books /\ e.tgt[s] = t
      /\ \A u \in Slots : u # s => e.tgt[u] = d.tgt[u]
      /\ e.vram = d.vram /\ e.deps = d.deps /\ e.cur = d.cur /\ e.pend = d.pend
      /\ e.snap = d.snap
  <2>1. d \in Books
    BY <1>3 DEF Sound
  <2> HIDE DEF e
  <2>2. e = SetTarget(d, s, t)
    BY DEF e
  <2> QED
    BY <1>2, <1>5, <2>1, <2>2, SetTargetFields
<1> HIDE DEF e
<1>7. Sound(e, lost)
  <2>1. SnapCurrent(e) /\ ~d.tgt[s].valid
    BY <1>2, <1>3, <1>6 DEF Sound, SnapCurrent, OnePerAddress
  <2>2. to.fba # None /\ \A u \in Slots : u # s /\ d.tgt[u].used => d.tgt[u].fba # to.fba
    BY <1>3, SlotIsNotNone DEF Holder
  <2> QED
    BY <1>2, <1>3, <1>5, <1>6, <2>1, <2>2, EditSound
<1>8. InMemory(e, lost, to.fba)
  <2>1. \A u \in Slots : e.tgt[u].valid => e.tgt[u].fba # to.fba
    BY <1>3, <1>5, <1>6 DEF Sound, OnePerAddress, Holder
  <2> QED
    BY <1>7, <2>1, InMemoryUnlessValid
<1>9. /\ Sound(h, lost) /\ h.tgt[s].used /\ h.tgt[s].valid
      /\ h.tgt[s].fba = e.tgt[s].fba /\ h.tgt[s].shape = e.tgt[s].shape
      /\ h.pend = e.pend
  <2>1. e.tgt[s].used /\ e.tgt[s].fba = to.fba
    BY <1>5, <1>6
  <2> QED
    BY <1>2, <1>4, <1>7, <1>8, <2>1, UploadSound
<1>10. Filled(h, to)
  BY <1>2, <1>5, <1>6, <1>9, Zenon DEF Filled, Holder
<1> QED
  BY <1>3, <1>6, <1>9, <1>10 DEF Quieter

(* However the target is found, its image is valid then.                   *)
LEMMA FillSound ==
    ASSUME NEW g, NEW lost, Sound(g, lost), NEW to, to.fba \in Addrs, to.shape \in Shapes,
           NEW old \in Slots, Fits(g, to), NEW h, h = Fill(g, to, old)
    PROVE  Sound(h, lost) /\ Quieter(g, h) /\ Filled(h, to)
<1> DEFINE s == At(g, to.fba)
<1>1. \/ s = None /\ \A u \in Slots : ~Holder(g, to.fba, u)
      \/ s \in Slots /\ s # None /\ Holder(g, to.fba, s)
  BY AtHolds
<1>2. h = IF s = None THEN Place(g, to, old)
          ELSE IF g.tgt[s].valid THEN g
          ELSE Upload(g, s)
  BY Zenon DEF Fill
<1> HIDE DEF s
<1>3. CASE s = None
  <2>1. h = Place(g, to, old)
    BY <1>2, <1>3, Zenon
  <2> QED
    BY <1>1, <1>3, <2>1, SlotIsNotNone, PlaceSound
<1>4. CASE s \in Slots /\ s # None /\ Holder(g, to.fba, s)
  <2>1. g.tgt[s].shape = to.shape
    BY <1>4 DEF Fits
  <2>2. CASE g.tgt[s].valid
    BY <1>2, <1>4, <2>1, <2>2, Zenon DEF Filled, Quieter
  <2>3. CASE ~g.tgt[s].valid
    <3>1. h = Upload(g, s)
      BY <1>2, <1>4, <2>3, Zenon
    <3>2. \A u \in Slots : g.tgt[u].valid => g.tgt[u].fba # to.fba
      BY <1>4, <2>3 DEF Sound, OnePerAddress, Holder
    <3>3. InMemory(g, lost, g.tgt[s].fba) /\ g.tgt[s].used
      BY <1>4, <3>2, InMemoryUnlessValid DEF Holder
    <3>4. /\ Sound(h, lost) /\ h.tgt[s].used /\ h.tgt[s].valid
          /\ h.tgt[s].fba = g.tgt[s].fba /\ h.tgt[s].shape = g.tgt[s].shape
          /\ h.pend = g.pend
      BY <1>4, <3>1, <3>3, UploadSound
    <3>5. Filled(h, to)
      BY <1>4, <2>1, <3>4, Zenon DEF Filled, Holder
    <3> QED
      BY <3>4, <3>5 DEF Quieter
  <2> QED
    BY <2>2, <2>3
<1> QED
  BY <1>1, <1>3, <1>4

-----------------------------------------------------------------------------
(* target_acquire: the depth buffer; and begin_target.                     *)

(* Two targets that differ at most in their depth buffer.                  *)
SameImage(t, r) ==
    /\ (t.used <=> r.used) /\ t.fba = r.fba /\ t.shape = r.shape
    /\ t.fresh = r.fresh /\ (t.valid <=> r.valid) /\ (t.clean <=> r.clean)

Dropped(t) == [t EXCEPT !.dep = None, !.fb = None]

LEMMA DroppedFields ==
    ASSUME NEW t \in Target, NEW r, r = Dropped(t)
    PROVE  r \in Target /\ SameImage(r, t) /\ r.dep = None /\ r.fb = None
  BY Zenon DEF Dropped, Target, SameImage

Given(t, i, depth) == [t EXCEPT !.dep = i, !.fb = depth]

LEMMA GivenFields ==
    ASSUME NEW t \in Target, NEW i \in 1 .. MAX_DEP, NEW depth \in Depths,
           NEW r, r = Given(t, i, depth)
    PROVE  r \in Target /\ SameImage(r, t) /\ r.dep = i /\ r.fb = depth
  BY Zenon DEF Given, Target, SameImage

(* depth_acquire returns the depth buffer asked for, and targets that had  *)
(* the one it destroyed have no framebuffer object.                        *)
LEMMA DepthAcquireFields ==
    ASSUME NEW g \in Books, DepthsAttached(g), NEW depth \in Depths,
           NEW d, d = DepthAcquire(g, depth)
    PROVE  /\ d \in Books /\ DepthsAttached(d)
           /\ \E n \in DOMAIN d.deps : d.deps[n] = depth
           /\ \A u \in Slots : SameImage(d.tgt[u], g.tgt[u])
           /\ d.vram = g.vram /\ d.cur = g.cur /\ d.pend = g.pend
           /\ d.tmpl = g.tmpl /\ d.snap = g.snap
<1>1. g.deps \in Seq(Depths) /\ Len(g.deps) <= MAX_DEP /\ g.tgt \in [Slots -> Target]
  BY BooksParts, SMT DEF DepthsAttached
<1>2. ToSet(g.deps) = {g.deps[n] : n \in DOMAIN g.deps}
  BY Zenon DEF ToSet
<1>3. CASE depth \in ToSet(g.deps)
  <2>1. d = g
    BY <1>3, Zenon DEF DepthAcquire
  <2> QED
    BY <1>2, <1>3, <2>1, Zenon DEF SameImage
<1>4. CASE depth \notin ToSet(g.deps) /\ Len(g.deps) < MAX_DEP
  <2> DEFINE D == Append(g.deps, depth)
  <2>1. d = [g EXCEPT !.deps = D]
    BY <1>4, Zenon DEF DepthAcquire
  <2>2. /\ D \in Seq(Depths) /\ Len(D) = Len(g.deps) + 1 /\ D[Len(D)] = depth
        /\ \A n \in DOMAIN g.deps : D[n] = g.deps[n] /\ n \in DOMAIN D
        /\ Len(D) \in DOMAIN D
    BY <1>1, SMT
  <2> HIDE DEF D
  <2>3. /\ d \in Books /\ d.deps = D /\ d.tgt = g.tgt
        /\ d.vram = g.vram /\ d.cur = g.cur /\ d.pend = g.pend
        /\ d.tmpl = g.tmpl /\ d.snap = g.snap
    BY <2>1, <2>2, Zenon DEF Books
  <2>4. Len(D) <= MAX_DEP
    BY <1>1, <1>4, <2>2, TargetsAssumption, SMT
  <2>5. DepthsAttached(d)
    BY <2>2, <2>3, <2>4, SMT DEF DepthsAttached
  <2> QED
    BY <2>2, <2>3, <2>5 DEF SameImage
<1>5. CASE depth \notin ToSet(g.deps) /\ ~(Len(g.deps) < MAX_DEP)
  <2> DEFINE D == [g.deps EXCEPT ![1] = depth]
             T == [s \in Slots |->
                      IF g.tgt[s].dep = 1 THEN [g.tgt[s] EXCEPT !.dep = None, !.fb = None]
                      ELSE g.tgt[s]]
  <2>1. d = [g EXCEPT !.deps = D, !.tgt = T]
    BY <1>5, Zenon DEF DepthAcquire
  <2>2. /\ D \in Seq(Depths) /\ Len(D) = Len(g.deps) /\ DOMAIN D = DOMAIN g.deps
        /\ 1 \in DOMAIN D /\ D[1] = depth
        /\ \A n \in DOMAIN g.deps : n # 1 => D[n] = g.deps[n]
    BY <1>1, <1>5, TargetsAssumption, SMT
  <2>3. ASSUME NEW u \in Slots
        PROVE  /\ T[u] \in Target /\ SameImage(T[u], g.tgt[u])
               /\ g.tgt[u].dep = 1 => T[u].fb = None
               /\ g.tgt[u].dep # 1 => T[u] = g.tgt[u]
    <3>0. g.tgt[u] \in Target
      BY <1>1
    <3>1. CASE g.tgt[u].dep = 1
      <4>1. T[u] = Dropped(g.tgt[u])
        BY <3>1, Zenon DEF Dropped
      <4> HIDE DEF T
      <4> QED
        BY <3>0, <3>1, <4>1, DroppedFields
    <3>2. CASE g.tgt[u].dep # 1
      <4>1. T[u] = g.tgt[u]
        BY <3>2, Zenon
      <4> HIDE DEF T
      <4> QED
        BY <3>0, <3>2, <4>1, Zenon DEF SameImage
    <3> QED
      BY <3>1, <3>2
  <2>4. T \in [Slots -> Target]
    <3>1. T = [s \in Slots |-> T[s]]
      BY Zenon
    <3> HIDE DEF T
    <3> QED
      BY <2>3, <3>1, Zenon
  <2> HIDE DEF D, T
  <2>5. /\ d \in Books /\ d.deps = D /\ d.tgt = T
        /\ d.vram = g.vram /\ d.cur = g.cur /\ d.pend = g.pend
        /\ d.tmpl = g.tmpl /\ d.snap = g.snap
    BY <2>1, <2>2, <2>4, Zenon DEF Books
  <2>6. DepthsAttached(d)
    <3>1. ASSUME NEW u \in Slots, d.tgt[u].fb # None
          PROVE  d.tgt[u].dep \in DOMAIN d.deps /\ d.tgt[u].fb = d.deps[d.tgt[u].dep]
      <4>1. g.tgt[u].dep # 1 /\ T[u] = g.tgt[u]
        BY <2>3, <2>5, <3>1
      <4>2. g.tgt[u].dep \in DOMAIN g.deps /\ g.tgt[u].fb = g.deps[g.tgt[u].dep]
        BY <2>5, <3>1, <4>1 DEF DepthsAttached
      <4> QED
        BY <2>2, <2>5, <4>1, <4>2
    <3> QED
      BY <1>1, <2>2, <2>5, <3>1 DEF DepthsAttached
  <2> QED
    BY <2>2, <2>3, <2>5, <2>6
<1> QED
  BY <1>3, <1>4, <1>5

AttachTo(d, s, r) == [d EXCEPT !.cur = s, !.tgt = [d.tgt EXCEPT ![s] = r]]

LEMMA AttachToFields ==
    ASSUME NEW d \in Books, NEW s \in Slots, NEW r \in Target, NEW h, h = AttachTo(d, s, r)
    PROVE  /\ h \in Books /\ h.tgt[s] = r /\ h.cur = s
           /\ \A u \in Slots : u # s => h.tgt[u] = d.tgt[u]
           /\ h.vram = d.vram /\ h.deps = d.deps /\ h.pend = d.pend
           /\ h.tmpl = d.tmpl /\ h.snap = d.snap
<1> DEFINE T == [d.tgt EXCEPT ![s] = r]
<1>1. d.tgt \in [Slots -> Target]
  BY BooksParts, SMT
<1>2. T \in [Slots -> Target]
  BY <1>1, Zenon
<1>3. T[s] = r /\ \A u \in Slots : u # s => T[u] = d.tgt[u]
  BY <1>1, Zenon
<1>4. h = [d EXCEPT !.cur = s, !.tgt = T]
  BY Zenon DEF AttachTo
<1> HIDE DEF T
<1>6. s \in Slots \cup {None}
  OBVIOUS
<1>5. /\ h \in Books /\ h.vram = d.vram /\ h.tgt = T /\ h.deps = d.deps /\ h.cur = s
      /\ h.pend = d.pend /\ h.tmpl = d.tmpl /\ h.snap = d.snap
  BY <1>2, <1>4, <1>6, Zenon DEF Books
<1> QED
  BY <1>3, <1>5

(* Nothing waits for a target, so another may become the current one.      *)
LEMMA SwitchSound ==
    ASSUME NEW g, NEW lost, Sound(g, lost), g.pend.prims = 0, NEW h \in Books,
           \A u \in Slots : SameImage(h.tgt[u], g.tgt[u]),
           h.vram = g.vram, h.pend = g.pend, h.snap = g.snap,
           DepthsAttached(h), CurrentAttached(h)
    PROVE  Sound(h, lost)
<1>1. \A u, p : ~Waits(g, u, p) /\ ~Waits(h, u, p)
  BY DEF Sound, BatchHasTarget, Waits
<1>2. Newest(h, lost)
  BY <1>1, SMT DEF Sound, Newest, SameImage
<1>3. Kept(h, lost)
  <2> SUFFICES ASSUME NEW q \in Pages \ lost, ~h.vram[q]
               PROVE  \E u \in Slots : h.tgt[u].valid /\ h.tgt[u].fba = q[1] /\ h.tgt[u].fresh[q[2]]
    BY Zenon DEF Kept
  <2>1. PICK u \in Slots : g.tgt[u].valid /\ g.tgt[u].fba = q[1] /\ g.tgt[u].fresh[q[2]]
    BY <1>1, Zenon DEF Sound, Kept
  <2> QED
    BY <2>1 DEF SameImage
<1>4. CleanCurrent(h, lost)
  BY <1>1, SMT DEF Sound, CleanCurrent, SameImage
<1>5. OnePerAddress(h)
  BY SMT DEF Sound, OnePerAddress, SameImage
<1>6. BatchHasTarget(h) /\ SnapCurrent(h)
  BY SMT DEF Sound, BatchHasTarget, SnapCurrent
<1> QED
  BY <1>2, <1>3, <1>4, <1>5, <1>6 DEF Sound

(* The target becomes the current one, with the depth buffer found.        *)
LEMMA AttachSound ==
    ASSUME NEW g, NEW lost, Sound(g, lost), g.pend.prims = 0, NEW to, to.depth \in Depths,
           Filled(g, to), NEW h, h = Attach(g, to)
    PROVE  Sound(h, lost) /\ OnTarget(h, to) /\ h.pend = g.pend
<1> DEFINE s == At(g, to.fba)
           d == DepthAcquire(g, to.depth)
           i == CHOOSE n \in DOMAIN d.deps : d.deps[n] = to.depth
           t == d.tgt[s]
           r == IF t.dep = i /\ t.fb # None THEN t ELSE Given(t, i, to.depth)
<1>1. s \in Slots /\ Holder(g, to.fba, s) /\ g.tgt[s].shape = to.shape /\ g.tgt[s].valid
  <2>1. PICK u \in Slots : Holder(g, to.fba, u) /\ g.tgt[u].shape = to.shape /\ g.tgt[u].valid
    BY DEF Filled
  <2>2. s \in Slots /\ Holder(g, to.fba, s)
    BY <2>1, AtHolds
  <2>3. s = u
    BY <2>1, <2>2, Zenon DEF Sound, OnePerAddress, Holder
  <2> QED
    BY <2>1, <2>2, <2>3
<1>2. h = AttachTo(d, s, r)
  BY Zenon DEF Attach, AttachTo, Given
<1>3. /\ d \in Books /\ DepthsAttached(d)
      /\ \E n \in DOMAIN d.deps : d.deps[n] = to.depth
      /\ \A u \in Slots : SameImage(d.tgt[u], g.tgt[u])
      /\ d.vram = g.vram /\ d.cur = g.cur /\ d.pend = g.pend
      /\ d.tmpl = g.tmpl /\ d.snap = g.snap
  <2>1. g \in Books /\ DepthsAttached(g)
    BY DEF Sound
  <2> HIDE DEF d
  <2>2. d = DepthAcquire(g, to.depth)
    BY DEF d
  <2> QED
    BY <2>1, <2>2, DepthAcquireFields
<1> HIDE DEF s, d
<1>4. i \in DOMAIN d.deps /\ d.deps[i] = to.depth
  BY <1>3, Zenon
<1> HIDE DEF i
<1>5. i \in 1 .. MAX_DEP
  <2>1. d.deps \in Seq(Depths) /\ Len(d.deps) <= MAX_DEP
    BY <1>3, BooksParts, SMT DEF DepthsAttached
  <2> QED
    BY <1>4, <2>1, TargetsAssumption, SMT
<1>6. t \in Target
  BY <1>1, <1>3, BooksParts, SMT
<1>7. r \in Target /\ SameImage(r, t) /\ r.dep = i /\ r.fb = to.depth
  <2> DEFINE e == Given(t, i, to.depth)
  <2>1. e \in Target /\ SameImage(e, t) /\ e.dep = i /\ e.fb = to.depth
    <3> HIDE DEF e, t
    <3>1. e = Given(t, i, to.depth)
      BY DEF e
    <3> QED
      BY <1>5, <1>6, <3>1, GivenFields
  <2>2. CASE t.dep = i /\ t.fb # None
    <3>1. r = t
      BY <2>2
    <3>2. t.fb = to.depth
      BY <1>1, <1>3, <1>4, <2>2 DEF DepthsAttached
    <3> HIDE DEF r
    <3> QED
      BY <1>6, <2>2, <3>1, <3>2, Zenon DEF SameImage
  <2>3. CASE ~(t.dep = i /\ t.fb # None)
    <3>1. r = e
      BY <2>3
    <3> HIDE DEF r, e
    <3> QED
      BY <2>1, <3>1
  <2> QED
    BY <2>2, <2>3
<1>a. t = d.tgt[s]
  OBVIOUS
<1> HIDE DEF r, t
<1>8. /\ h \in Books /\ h.tgt[s] = r /\ h.cur = s
      /\ \A u \in Slots : u # s => h.tgt[u] = d.tgt[u]
      /\ h.vram = d.vram /\ h.deps = d.deps /\ h.pend = d.pend
      /\ h.tmpl = d.tmpl /\ h.snap = d.snap
  BY <1>1, <1>2, <1>3, <1>7, AttachToFields
<1>9. \A u \in Slots : SameImage(h.tgt[u], g.tgt[u])
  <2>1. ASSUME NEW u \in Slots PROVE SameImage(h.tgt[u], d.tgt[u])
    BY <1>7, <1>8, <1>a DEF SameImage
  <2> QED
    BY <1>3, <2>1 DEF SameImage
<1>10. DepthsAttached(h)
  BY <1>3, <1>4, <1>7, <1>8 DEF DepthsAttached
<1>11. h.tgt[s].used /\ h.tgt[s].fba = to.fba /\ h.tgt[s].shape = to.shape /\ h.tgt[s].valid
  BY <1>1, <1>9 DEF SameImage, Holder
<1>12. CurrentAttached(h)
  <2>1. to.depth # None
    BY TargetsAssumption
  <2> QED
    BY <1>7, <1>8, <1>11, <2>1 DEF CurrentAttached
<1>13. Sound(h, lost)
  BY <1>3, <1>8, <1>9, <1>10, <1>12, SwitchSound
<1>14. OnTarget(h, to)
  BY <1>1, <1>8, <1>11, SlotIsNotNone, Zenon DEF OnTarget
<1> QED
  BY <1>3, <1>8, <1>13, <1>14

(* After target_acquire the current target is the one asked for.           *)
LEMMA AcquireSound ==
    ASSUME NEW g, NEW lost, Sound(g, lost), g.pend.prims = 0, NEW to \in Settings,
           NEW old \in Slots, NEW h, h = Acquire(g, to, old)
    PROVE  Sound(h, lost) /\ OnTarget(h, to) /\ Quieter(g, h)
<1> DEFINE d == Reinterpret(g, to)
           e == Fill(d, to, old)
<1>1. to.fba \in Addrs /\ to.shape \in Shapes /\ to.depth \in Depths
  BY TargetsAssumption, Zenon
<1>2. Sound(d, lost) /\ Quieter(g, d) /\ Fits(d, to)
  BY ReinterpretSound
<1> HIDE DEF d
<1>3. Sound(e, lost) /\ Quieter(d, e) /\ Filled(e, to)
  BY <1>1, <1>2, FillSound
<1> HIDE DEF e
<1>4. e.pend.prims = 0
  BY <1>2, <1>3 DEF Quieter, Nothing
<1>5. h = Attach(e, to)
  BY Zenon DEF Acquire, d, e
<1> QED
  BY <1>1, <1>2, <1>3, <1>4, <1>5, AttachSound DEF Quieter

LEMMA SubmitIfAnySound ==
    ASSUME NEW g, NEW lost, Sound(g, lost), NEW h, h = SubmitIfAny(g)
    PROVE  /\ Sound(h, lost) /\ SamePlaces(g, h) /\ Quieter(g, h)
           /\ h.pend.prims = 0 /\ h.vram = g.vram
<1>1. CASE g.pend.prims = 0
  BY <1>1, Zenon DEF SubmitIfAny, SamePlaces, Quieter
<1>2. CASE g.pend.prims # 0
  <2>1. h = Submit(g) /\ Nothing.prims = 0
    BY <1>2, Zenon DEF SubmitIfAny, Nothing
  <2> QED
    BY <2>1, SubmitSound DEF Quieter
<1> QED
  BY <1>1, <1>2

(* And after begin_target.                                                 *)
LEMMA BeginSound ==
    ASSUME NEW g, NEW lost, Sound(g, lost), NEW to \in Settings,
           NEW old \in Slots, NEW h, h = Begin(g, to, old)
    PROVE  Sound(h, lost) /\ OnTarget(h, to) /\ Quieter(g, h)
<1>1. CASE OnTarget(g, to)
  BY <1>1, Zenon DEF Begin, Quieter
<1>2. CASE ~OnTarget(g, to)
  <2> DEFINE d == SubmitIfAny(g)
  <2>1. Sound(d, lost) /\ d.pend.prims = 0 /\ Quieter(g, d)
    BY SubmitIfAnySound
  <2> HIDE DEF d
  <2>2. h = Acquire(d, to, old)
    BY <1>2, Zenon DEF Begin, d
  <2> QED
    BY <2>1, <2>2, AcquireSound DEF Quieter
<1> QED
  BY <1>1, <1>2

-----------------------------------------------------------------------------
(* build_state binds a texture.                                            *)

SnapOf(g, s) == [g EXCEPT !.snap = [src |-> s, same |-> TRUE]]

LEMMA TakeSnapshotSound ==
    ASSUME NEW g, NEW lost, Sound(g, lost), NEW s \in Slots, NEW h, h = TakeSnapshot(g, s)
    PROVE  Sound(h, lost) /\ h.pend = g.pend
<1>1. CASE g.snap.src = s
  BY <1>1, Zenon DEF TakeSnapshot
<1>2. CASE g.snap.src # s
  <2> DEFINE sn == [src |-> s, same |-> TRUE]
  <2>1. g \in Books
    BY DEF Sound
  <2>2. sn \in [src : Slots \cup {None}, same : BOOLEAN] /\ sn.same
    BY Zenon
  <2>3. h = [g EXCEPT !.snap = sn]
    BY <1>2, Zenon DEF TakeSnapshot
  <2> HIDE DEF sn
  <2>4. /\ h \in Books /\ h.snap = sn /\ h.vram = g.vram /\ h.tgt = g.tgt /\ h.deps = g.deps
        /\ h.cur = g.cur /\ h.pend = g.pend
    BY <2>1, <2>2, <2>3, Zenon DEF Books
  <2>5. \A u, p : Waits(h, u, p) <=> Waits(g, u, p)
    BY <2>4 DEF Waits
  <2>6. Newest(h, lost) /\ Kept(h, lost) /\ CleanCurrent(h, lost)
    BY <2>4, <2>5, Zenon DEF Sound, Newest, Kept, CleanCurrent
  <2>7. OnePerAddress(h) /\ DepthsAttached(h) /\ CurrentAttached(h)
    BY <2>4, SMT DEF Sound, OnePerAddress, DepthsAttached, CurrentAttached
  <2>8. BatchHasTarget(h) /\ SnapCurrent(h)
    BY <2>2, <2>4, SMT DEF Sound, BatchHasTarget, SnapCurrent
  <2> QED
    BY <2>4, <2>6, <2>7, <2>8 DEF Sound
<1> QED
  BY <1>1, <1>2

Bound(g, tex, dset) == [g EXCEPT !.tmpl = [tex |-> tex, dset |-> dset]]

LEMMA BoundSound ==
    ASSUME NEW g, NEW lost, Sound(g, lost), NEW tex \in Textures, NEW dset \in Images \cup {None},
           NEW h, h = Bound(g, tex, dset)
    PROVE  /\ Sound(h, lost) /\ h.pend = g.pend
           /\ h.tmpl \in [tex : Textures, dset : Images \cup {None}]
<1> DEFINE tm == [tex |-> tex, dset |-> dset]
<1>1. g \in Books
  BY DEF Sound
<1>2. tm \in [tex : Textures, dset : Images \cup {None}]
  BY Zenon
<1>3. h = [g EXCEPT !.tmpl = tm]
  BY Zenon DEF Bound
<1> HIDE DEF tm
<1>4. /\ h \in Books /\ h.tmpl = tm /\ h.snap = g.snap /\ h.vram = g.vram /\ h.tgt = g.tgt
      /\ h.deps = g.deps /\ h.cur = g.cur /\ h.pend = g.pend
  BY <1>1, <1>2, <1>3, Zenon DEF Books
<1>5. \A u, p : Waits(h, u, p) <=> Waits(g, u, p)
  BY <1>4 DEF Waits
<1>6. Newest(h, lost) /\ Kept(h, lost) /\ CleanCurrent(h, lost)
  BY <1>4, <1>5, Zenon DEF Sound, Newest, Kept, CleanCurrent
<1>7. OnePerAddress(h) /\ DepthsAttached(h) /\ CurrentAttached(h)
  BY <1>4, SMT DEF Sound, OnePerAddress, DepthsAttached, CurrentAttached
<1>8. BatchHasTarget(h) /\ SnapCurrent(h)
  BY <1>4, SMT DEF Sound, BatchHasTarget, SnapCurrent
<1> QED
  BY <1>2, <1>4, <1>6, <1>7, <1>8 DEF Sound

LEMMA SubmitIfSound ==
    ASSUME NEW g, NEW lost, Sound(g, lost), NEW full \in BOOLEAN, NEW h, h = SubmitIf(full, g)
    PROVE  Sound(h, lost)
  BY SubmitSound, Zenon DEF SubmitIf

(* A texture is bound, to a target, to its snapshot or to what was         *)
(* decoded.                                                                *)
LEMMA BindSound ==
    ASSUME NEW g, NEW lost, Sound(g, lost), NEW tex \in Textures, NEW full \in BOOLEAN,
           NEW h, h = Bind(g, tex, full)
    PROVE  Sound(h, lost) /\ h.tmpl \in [tex : Textures, dset : Images \cup {None}]
<1> DEFINE s == IF tex = None THEN None ELSE At(g, tex.fba)
           decoded == tex = None \/ s = None \/ ~g.tgt[s].valid \/ g.tgt[s].shape # tex.shape
           r == IF s = None THEN g ELSE Readback(g, s)
<1>1. s = None \/ s \in Slots
  BY AtHolds
<1>2. h = IF decoded THEN Bound(SubmitIf(full, r), tex, None)
          ELSE IF s = g.cur THEN Bound(TakeSnapshot(SubmitIfAny(g), s), tex, None)
          ELSE Bound(SubmitIf(full, g), tex, s)
  BY Zenon DEF Bind, Bound
<1>a. decoded \/ s # None
  OBVIOUS
<1>b. r = IF s = None THEN g ELSE Readback(g, s)
  OBVIOUS
<1> HIDE DEF s, decoded, r
<1>3. CASE decoded
  <2> DEFINE d == SubmitIf(full, r)
  <2>1. Sound(r, lost)
    BY <1>1, <1>b, ReadbackSound, Zenon
  <2>2. Sound(d, lost)
    BY <2>1, SubmitIfSound
  <2> HIDE DEF d
  <2>3. h = Bound(d, tex, None)
    BY <1>2, <1>3, Zenon DEF d
  <2> QED
    BY <2>2, <2>3, BoundSound
<1>4. CASE ~decoded /\ s = g.cur
  <2> DEFINE d == SubmitIfAny(g)
             e == TakeSnapshot(d, s)
  <2>1. s \in Slots
    BY <1>1, <1>4, <1>a
  <2>2. Sound(d, lost)
    BY SubmitIfAnySound
  <2> HIDE DEF d
  <2>3. Sound(e, lost)
    BY <2>1, <2>2, TakeSnapshotSound
  <2> HIDE DEF e
  <2>4. h = Bound(e, tex, None)
    BY <1>2, <1>4, Zenon DEF d, e
  <2> QED
    BY <2>3, <2>4, BoundSound
<1>5. CASE ~decoded /\ s # g.cur
  <2> DEFINE d == SubmitIf(full, g)
  <2>1. s \in Images \cup {None}
    BY <1>1 DEF Images
  <2>2. Sound(d, lost)
    BY SubmitIfSound
  <2> HIDE DEF d
  <2>3. h = Bound(d, tex, s)
    BY <1>2, <1>5, Zenon DEF d
  <2> QED
    BY <2>1, <2>2, <2>3, BoundSound
<1> QED
  BY <1>3, <1>4, <1>5

LEMMA BuiltSound ==
    ASSUME NEW g, NEW lost, Sound(g, lost), NEW to \in Settings, NEW tex \in Textures,
           NEW full \in BOOLEAN, NEW old \in Slots, NEW h, h = Built(g, to, tex, full, old)
    PROVE  Sound(h, lost) /\ h.tmpl \in [tex : Textures, dset : Images \cup {None}]
<1>1. CASE Reused(g, tex)
  <2>1. h = g
    BY <1>1, Zenon DEF Built
  <2>2. g.tmpl \in [tex : Textures, dset : Images \cup {None}]
    BY <1>1, BooksParts, Zenon DEF Sound, Reused
  <2> QED
    BY <2>1, <2>2
<1>2. CASE ~Reused(g, tex)
  <2> DEFINE d == Begin(g, to, old)
  <2>1. Sound(d, lost)
    BY BeginSound
  <2> HIDE DEF d
  <2>2. h = Bind(d, tex, full)
    BY <1>2, Zenon DEF Built, d
  <2> QED
    BY <2>1, <2>2, BindSound
<1> QED
  BY <1>1, <1>2

(* There is room for one more primitive.                                   *)
LEMMA EnsureRoomSound ==
    ASSUME NEW g, NEW lost, Sound(g, lost), NEW to, OnTarget(g, to), NEW h, h = EnsureRoom(g)
    PROVE  Sound(h, lost) /\ OnTarget(h, to) /\ h.pend.prims + 1 \in 0 .. MAX_BATCH
<1>1. g.pend.prims \in 0 .. MAX_BATCH /\ MAX_BATCH \in Nat \ {0}
  BY BooksParts, TargetsAssumption, SMT DEF Sound
<1>2. CASE g.pend.prims >= MAX_BATCH
  <2>1. h = Submit(g)
    BY <1>2, Zenon DEF EnsureRoom
  <2>2. Sound(h, lost) /\ SamePlaces(g, h) /\ h.pend = Nothing
    BY <2>1, SubmitSound
  <2>3. OnTarget(h, to)
    <3>1. g.cur \in Slots
      BY BooksParts, Zenon DEF Sound, OnTarget
    <3> QED
      BY <2>2, <3>1, SMT DEF OnTarget, SamePlaces
  <2>4. h.pend.prims = 0
    BY <2>2 DEF Nothing
  <2> QED
    BY <1>1, <2>2, <2>3, <2>4
<1>3. CASE ~(g.pend.prims >= MAX_BATCH)
  <2>1. h = g
    BY <1>3, Zenon DEF EnsureRoom
  <2> QED
    BY <1>1, <1>3, <2>1, SMT
<1> QED
  BY <1>2, <1>3

-----------------------------------------------------------------------------
(* The hooks that draw.                                                    *)

WithFresh(t, fresh) == [t EXCEPT !.fresh = fresh]

LEMMA WithFreshFields ==
    ASSUME NEW t \in Target, NEW fresh \in [Parts -> BOOLEAN], NEW r, r = WithFresh(t, fresh)
    PROVE  /\ r \in Target /\ r.fresh = fresh
           /\ (r.used <=> t.used) /\ r.fba = t.fba /\ r.shape = t.shape
           /\ (r.valid <=> t.valid) /\ (r.clean <=> t.clean) /\ r.dep = t.dep /\ r.fb = t.fb
  BY Zenon DEF WithFresh, Target

DrawnWith(g, pn, v, fresh) ==
    [g EXCEPT !.pend = pn, !.vram = v, !.tgt = [g.tgt EXCEPT ![g.cur] = WithFresh(g.tgt[g.cur], fresh)]]

LEMMA DrawnFields ==
    ASSUME NEW g \in Books, g.cur \in Slots, NEW fresh \in [Parts -> BOOLEAN],
           NEW v \in [Pages -> BOOLEAN],
           NEW pn \in [prims : 0 .. MAX_BATCH, parts : SUBSET Parts, sampled : SUBSET Images],
           NEW h, h = DrawnWith(g, pn, v, fresh)
    PROVE  /\ h \in Books /\ h.tgt[g.cur] = WithFresh(g.tgt[g.cur], fresh)
           /\ \A u \in Slots : u # g.cur => h.tgt[u] = g.tgt[u]
           /\ h.vram = v /\ h.deps = g.deps /\ h.cur = g.cur /\ h.pend = pn
           /\ h.tmpl = g.tmpl /\ h.snap = g.snap
<1> DEFINE r == WithFresh(g.tgt[g.cur], fresh)
           T == [g.tgt EXCEPT ![g.cur] = r]
<1>1. g.tgt \in [Slots -> Target] /\ g.tgt[g.cur] \in Target
  BY BooksParts, SMT
<1>0. r \in Target
  <2> HIDE DEF r
  <2>1. r = WithFresh(g.tgt[g.cur], fresh)
    BY DEF r
  <2> QED
    BY <1>1, <2>1, WithFreshFields
<1>4. h = [g EXCEPT !.pend = pn, !.vram = v, !.tgt = T]
  BY Zenon DEF DrawnWith
<1> HIDE DEF r
<1>2. T \in [Slots -> Target]
  BY <1>0, <1>1, Zenon
<1>3. T[g.cur] = r /\ \A u \in Slots : u # g.cur => T[u] = g.tgt[u]
  BY <1>1, Zenon
<1> HIDE DEF T
<1>5. /\ h \in Books /\ h.vram = v /\ h.tgt = T /\ h.deps = g.deps /\ h.cur = g.cur
      /\ h.pend = pn /\ h.tmpl = g.tmpl /\ h.snap = g.snap
  BY <1>2, <1>4, Zenon DEF Books
<1> QED
  BY <1>3, <1>5 DEF r

Page(to, covers) == {to.fba} \X covers

LEMMA PageMembers ==
    ASSUME NEW to, NEW covers, NEW q
    PROVE  /\ q \in Page(to, covers) => q[1] = to.fba /\ q[2] \in covers /\ q = <<to.fba, q[2]>>
           /\ \A p : <<to.fba, p>> \in Page(to, covers) <=> p \in covers
  BY DEF Page

PendWith(g, covers, seen) ==
    [prims |-> g.pend.prims + 1, parts |-> g.pend.parts \cup covers, sampled |-> seen]
VramWith(g, to, covers) == [q \in Pages |-> g.vram[q] /\ q \notin Page(to, covers)]
FreshWith(g, covers) == [p \in Parts |-> g.tgt[g.cur].fresh[p] /\ p \notin covers]

Drawn(g, to, covers, seen) ==
    DrawnWith(g, PendWith(g, covers, seen), VramWith(g, to, covers), FreshWith(g, covers))

(* A primitive that covers some parts of the current target.               *)
LEMMA DrawnSound ==
    ASSUME NEW g, NEW lost, Sound(g, lost), NEW to, OnTarget(g, to), g.pend.prims + 1 \in 0 .. MAX_BATCH,
           NEW covers \in SUBSET Parts, NEW seen \in SUBSET Images,
           NEW h, h = Drawn(g, to, covers, seen)
    PROVE  Sound(h, lost \ Page(to, covers))
<1> DEFINE page == Page(to, covers)
           c == g.cur
           pn == PendWith(g, covers, seen)
           fresh == FreshWith(g, covers)
           v == VramWith(g, to, covers)
<1>1. c \in Slots /\ g \in Books
  BY BooksParts, Zenon DEF Sound, OnTarget
<1>2. g.tgt[c].used /\ g.tgt[c].fba = to.fba /\ g.tgt[c].valid /\ g.tgt[c] \in Target
  BY <1>1, BooksParts, SMT DEF OnTarget
<1>3. fresh \in [Parts -> BOOLEAN] /\ \A p \in Parts : fresh[p] <=> g.tgt[c].fresh[p] /\ p \notin covers
  <2>1. \A p \in Parts : (g.tgt[g.cur].fresh[p] /\ p \notin covers) \in BOOLEAN
    OBVIOUS
  <2>2. \A p \in Parts : fresh[p] <=> g.tgt[c].fresh[p] /\ p \notin covers
    BY Zenon DEF FreshWith
  <2> QED
    BY <2>1, <2>2, Zenon DEF FreshWith
<1>4. v \in [Pages -> BOOLEAN] /\ \A q \in Pages : v[q] <=> g.vram[q] /\ q \notin page
  <2>1. \A q \in Pages : (g.vram[q] /\ q \notin page) \in BOOLEAN
    OBVIOUS
  <2>2. \A q \in Pages : v[q] <=> g.vram[q] /\ q \notin page
    BY Zenon DEF VramWith
  <2> QED
    BY <2>1, <2>2, Zenon DEF VramWith
<1>5. /\ pn \in [prims : 0 .. MAX_BATCH, parts : SUBSET Parts, sampled : SUBSET Images]
      /\ pn.parts = g.pend.parts \cup covers /\ pn.prims = g.pend.prims + 1
  <2>1. g.pend.parts \in SUBSET Parts
    BY <1>1, BooksParts, SMT
  <2>2. (g.pend.parts \cup covers) \in SUBSET Parts
    BY <2>1
  <2> QED
    BY <2>2, Zenon DEF PendWith
<1>b. c = g.cur /\ h = DrawnWith(g, pn, v, fresh)
  BY DEF Drawn
<1> HIDE DEF c, pn, fresh, v
<1>6. /\ h \in Books /\ h.tgt[c] = WithFresh(g.tgt[c], fresh)
      /\ \A u \in Slots : u # c => h.tgt[u] = g.tgt[u]
      /\ h.vram = v /\ h.deps = g.deps /\ h.cur = c /\ h.pend = pn
      /\ h.snap = g.snap
  BY <1>1, <1>3, <1>4, <1>5, <1>b, DrawnFields
<1>7. /\ h.tgt[c].fresh = fresh
      /\ (h.tgt[c].used <=> g.tgt[c].used) /\ h.tgt[c].fba = g.tgt[c].fba
      /\ (h.tgt[c].valid <=> g.tgt[c].valid) /\ (h.tgt[c].clean <=> g.tgt[c].clean)
      /\ h.tgt[c].dep = g.tgt[c].dep /\ h.tgt[c].fb = g.tgt[c].fb
  BY <1>2, <1>3, <1>6, WithFreshFields
<1>8. \A u \in Slots :
         /\ (h.tgt[u].used <=> g.tgt[u].used) /\ h.tgt[u].fba = g.tgt[u].fba
         /\ (h.tgt[u].valid <=> g.tgt[u].valid) /\ (h.tgt[u].clean <=> g.tgt[u].clean)
         /\ h.tgt[u].dep = g.tgt[u].dep /\ h.tgt[u].fb = g.tgt[u].fb
  BY <1>6, <1>7
<1>9. \A u \in Slots : g.tgt[u].used /\ u # c => g.tgt[u].fba # to.fba
  BY <1>1, <1>2, Zenon DEF Sound, OnePerAddress
<1>10. \A q : q \in page => q[1] = to.fba /\ q[2] \in covers /\ q = <<to.fba, q[2]>>
  BY PageMembers
<1>11. \A p : <<to.fba, p>> \in page <=> p \in covers
  BY PageMembers
<1>12. \A u \in Slots, p \in Parts : Waits(h, u, p) <=> Waits(g, u, p) \/ (u = c /\ p \in covers)
  BY <1>b, <1>5, <1>6 DEF Waits
<1> HIDE DEF page
<1>13. Newest(h, lost \ page)
  <2> SUFFICES ASSUME NEW u \in Slots, NEW p \in Parts, g.tgt[u].valid
               PROVE  h.tgt[u].fresh[p] \/ Waits(h, u, p) \/ <<h.tgt[u].fba, p>> \in lost \ page
    BY <1>8, Zenon DEF Newest
  <2>1. g.tgt[u].fresh[p] \/ Waits(g, u, p) \/ <<g.tgt[u].fba, p>> \in lost
    BY Zenon DEF Sound, Newest
  <2>2. CASE u = c
    <3>1. h.tgt[c].fresh[p] <=> g.tgt[c].fresh[p] /\ p \notin covers
      BY <1>3, <1>7
    <3> QED
      BY <1>2, <1>8, <1>11, <1>12, <2>1, <2>2, <3>1
  <2>3. CASE u # c
    <3>1. g.tgt[u].used
      BY DEF Sound, OnePerAddress
    <3>2. <<g.tgt[u].fba, p>> \notin page
      BY <1>9, <1>10, <2>3, <3>1
    <3> QED
      BY <1>6, <1>12, <2>1, <2>3, <3>2
  <2> QED
    BY <2>2, <2>3
<1>14. Kept(h, lost \ page)
  <2> SUFFICES ASSUME NEW q \in Pages \ (lost \ page), ~h.vram[q]
               PROVE  \E u \in Slots : /\ h.tgt[u].valid /\ h.tgt[u].fba = q[1]
                                       /\ h.tgt[u].fresh[q[2]] \/ Waits(h, u, q[2])
    BY Zenon DEF Kept
  <2>1. q = <<q[1], q[2]>> /\ q[2] \in Parts
    BY DEF Pages
  <2>2. CASE q \in page
    <3>1. Waits(h, c, q[2])
      BY <1>1, <1>10, <1>12, <2>1, <2>2
    <3> QED
      BY <1>1, <1>2, <1>8, <1>10, <2>2, <3>1, Zenon
  <2>3. CASE q \notin page
    <3>1. ~g.vram[q]
      BY <1>4, <1>6, <2>3
    <3>2. PICK u \in Slots : /\ g.tgt[u].valid /\ g.tgt[u].fba = q[1]
                             /\ g.tgt[u].fresh[q[2]] \/ Waits(g, u, q[2])
      BY <2>3, <3>1, Zenon DEF Sound, Kept
    <3>3. u = c => q[2] \notin covers
      BY <1>2, <1>11, <2>1, <2>3, <3>2
    <3>4. h.tgt[u].fresh[q[2]] \/ Waits(h, u, q[2])
      <4>1. CASE u = c
        <5>1. h.tgt[c].fresh[q[2]] <=> g.tgt[c].fresh[q[2]] /\ q[2] \notin covers
          BY <1>3, <1>7, <2>1
        <5> QED
          BY <1>12, <2>1, <3>2, <3>3, <4>1, <5>1
      <4>2. CASE u # c
        BY <1>6, <1>12, <2>1, <3>2, <4>2
      <4> QED
        BY <4>1, <4>2
    <3> QED
      BY <1>8, <3>2, <3>4, Zenon
  <2> QED
    BY <2>2, <2>3
<1>15. CleanCurrent(h, lost \ page)
  <2> SUFFICES ASSUME NEW u \in Slots, NEW p \in Parts, g.tgt[u].valid, g.tgt[u].clean
               PROVE  h.vram[<<h.tgt[u].fba, p>>] \/ Waits(h, u, p) \/ <<h.tgt[u].fba, p>> \in lost \ page
    BY <1>8, Zenon DEF CleanCurrent
  <2>1. g.vram[<<g.tgt[u].fba, p>>] \/ Waits(g, u, p) \/ <<g.tgt[u].fba, p>> \in lost
    BY Zenon DEF Sound, CleanCurrent
  <2>2. g.tgt[u].used /\ g.tgt[u].fba \in Addrs
    <3>1. g.tgt[u].used
      BY DEF Sound, OnePerAddress
    <3> QED
      BY <3>1, UsedAddress
  <2>3. <<g.tgt[u].fba, p>> \in Pages
    BY <2>2 DEF Pages
  <2>4. <<g.tgt[u].fba, p>> \in page => u = c /\ p \in covers
    BY <1>9, <1>10, <2>2
  <2>5. h.vram[<<g.tgt[u].fba, p>>] <=> g.vram[<<g.tgt[u].fba, p>>] /\ <<g.tgt[u].fba, p>> \notin page
    BY <1>4, <1>6, <2>3
  <2> QED
    BY <1>8, <1>12, <2>1, <2>4, <2>5
<1>16. OnePerAddress(h) /\ DepthsAttached(h)
  BY <1>6, <1>8, SMT DEF Sound, OnePerAddress, DepthsAttached
<1>17. CurrentAttached(h) /\ SnapCurrent(h)
  BY <1>1, <1>b, <1>6, <1>8, SMT DEF Sound, CurrentAttached, SnapCurrent
<1>18. BatchHasTarget(h)
  <2>1. g.pend.prims \in Nat
    BY <1>1, BooksParts, SMT
  <2> QED
    BY <1>1, <1>2, <1>5, <1>6, <1>8, <2>1, SlotIsNotNone, SMT DEF BatchHasTarget
<1> QED
  BY <1>6, <1>13, <1>14, <1>15, <1>16, <1>17, <1>18 DEF Sound, page

(* The state an operation returned is the next one.                        *)
LEMMA BecomeIsNow ==
    ASSUME NEW h \in Books, Become(h)
    PROVE  Now' = h
<1>1. /\ vram' = h.vram /\ tgt' = h.tgt /\ deps' = h.deps /\ cur' = h.cur
      /\ pend' = h.pend /\ tmpl' = h.tmpl /\ snap' = h.snap
  BY Zenon DEF Become
<1>2. h = [vram |-> h.vram, tgt |-> h.tgt, deps |-> h.deps, cur |-> h.cur,
           pend |-> h.pend, tmpl |-> h.tmpl, snap |-> h.snap]
  BY Zenon DEF Books
<1> QED
  BY <1>1, <1>2, Zenon DEF Now

(* The last step of a hook that draws.                                     *)
DrawOne(to, built, begun, ready, covers) ==
    LET dset  == built.tmpl.dset
        bound == IF dset \in Slots /\ ~Survives(built, begun, dset) THEN Gone ELSE dset
        drawn == [prims |-> ready.pend.prims + 1, parts |-> ready.pend.parts \cup covers,
                  sampled |-> ready.pend.sampled \cup ({bound} \ {None})]
        page  == {to.fba} \X covers
        fresh == [p \in Parts |-> ready.tgt[ready.cur].fresh[p] /\ p \notin covers]
    IN /\ Become(IF covers = {} THEN begun
                  ELSE [ready EXCEPT !.pend = drawn,
                                     !.vram = [q \in Pages |-> ready.vram[q] /\ q \notin page],
                                     !.tgt[ready.cur].fresh = fresh])
       /\ spoiled' = spoiled \ page

(* hook_tri, hook_sprite, hook_line, hook_point.                           *)
LEMMA DrawSound ==
    ASSUME Sound(Now, spoiled), spoiled \subseteq Pages,
           NEW to \in Settings, NEW tex \in Textures, NEW full \in BOOLEAN, NEW old \in Slots,
           Draw(to, tex, full, old)
    PROVE  Sound(Now', spoiled') /\ spoiled' \subseteq Pages
<1>1. \E built \in {Built(Now, to, tex, full, old)} :
      \E begun \in {Begin(built, to, old)} :
      \E ready \in {EnsureRoom(begun)}, covers \in {{}} \cup {{p} : p \in Parts} :
         DrawOne(to, built, begun, ready, covers)
  BY Zenon DEF Draw, DrawOne
<1>2. PICK built, begun, ready, covers :
         /\ built = Built(Now, to, tex, full, old) /\ begun = Begin(built, to, old)
         /\ ready = EnsureRoom(begun) /\ covers \in {{}} \cup {{p} : p \in Parts}
         /\ DrawOne(to, built, begun, ready, covers)
  BY <1>1, Zenon
<1>3. Sound(built, spoiled) /\ built.tmpl \in [tex : Textures, dset : Images \cup {None}]
  BY <1>2, BuiltSound
<1>4. Sound(begun, spoiled) /\ OnTarget(begun, to)
  BY <1>2, <1>3, BeginSound
<1>5. Sound(ready, spoiled) /\ OnTarget(ready, to) /\ ready.pend.prims + 1 \in 0 .. MAX_BATCH
  BY <1>2, <1>4, EnsureRoomSound
<1> DEFINE dset == built.tmpl.dset
           bound == IF dset \in Slots /\ ~Survives(built, begun, dset) THEN Gone ELSE dset
           seen == ready.pend.sampled \cup ({bound} \ {None})
           h == Drawn(ready, to, covers, seen)
<1>6. seen \in SUBSET Images
  <2>1. ready.pend.sampled \in SUBSET Images
    BY <1>5, BooksParts, SMT DEF Sound
  <2>2. dset \in Images \cup {None}
    BY <1>3, Zenon
  <2> HIDE DEF dset
  <2>3. bound \in Images \cup {None}
    BY <2>2, Zenon DEF Images
  <2> HIDE DEF bound
  <2> QED
    BY <2>1, <2>3
<1> DEFINE fresh == [p \in Parts |-> ready.tgt[ready.cur].fresh[p] /\ p \notin covers]
           e == [ready EXCEPT !.pend = [prims |-> ready.pend.prims + 1,
                                        parts |-> ready.pend.parts \cup covers, sampled |-> seen],
                              !.vram = [q \in Pages |-> ready.vram[q] /\ q \notin {to.fba} \X covers],
                              !.tgt[ready.cur].fresh = fresh]
<1>7. /\ Become(IF covers = {} THEN begun ELSE h)
      /\ spoiled' = spoiled \ Page(to, covers)
  <2>1. /\ Become(IF covers = {} THEN begun ELSE e)
        /\ spoiled' = spoiled \ ({to.fba} \X covers)
    BY <1>2 DEF DrawOne
  <2>2. e = h
    <3> HIDE DEF seen
    <3> QED
      BY Zenon DEF Drawn, DrawnWith, WithFresh, PendWith, VramWith, FreshWith, Page
  <2> HIDE DEF e, h
  <2> QED
    BY <2>1, <2>2, Zenon DEF Page
<1> HIDE DEF seen
<1>8. CASE covers = {}
  <2>1. spoiled' = spoiled
    BY <1>7, <1>8 DEF Page
  <2>2. Become(begun) /\ begun \in Books
    BY <1>4, <1>7, <1>8, Zenon DEF Sound
  <2> QED
    BY <1>4, <2>1, <2>2, BecomeIsNow
<1>9. CASE covers # {}
  <2>1. covers \in SUBSET Parts
    BY <1>2
  <2>2. Become(h)
    BY <1>7, <1>9, Zenon
  <2> HIDE DEF h
  <2>3. Sound(h, spoiled \ Page(to, covers))
    BY <1>5, <1>6, <2>1, DrawnSound DEF h
  <2>4. Now' = h
    BY <2>2, <2>3, BecomeIsNow DEF Sound
  <2> QED
    BY <1>7, <2>3, <2>4
<1> QED
  BY <1>8, <1>9

-----------------------------------------------------------------------------
(* Memory is written, and its image is not looked at again.                *)

(* The framebuffer at fba is only in memory from now on.                   *)
ForgottenAt(e, h, fba) ==
    /\ h.deps = e.deps /\ h.cur = e.cur /\ h.pend = e.pend /\ h.snap = e.snap
    /\ \A u \in Slots :
         /\ (h.tgt[u].used <=> e.tgt[u].used) /\ h.tgt[u].fba = e.tgt[u].fba
         /\ h.tgt[u].dep = e.tgt[u].dep /\ h.tgt[u].fb = e.tgt[u].fb
         /\ e.tgt[u].used /\ e.tgt[u].fba = fba => ~h.tgt[u].valid
         /\ ~(e.tgt[u].used /\ e.tgt[u].fba = fba) => h.tgt[u] = e.tgt[u]
    /\ e.pend.prims > 0 => e.tgt[e.cur].fba # fba

LEMMA ForgottenSound ==
    ASSUME NEW e, NEW lost, Sound(e, lost), NEW fba \in Addrs, NEW h \in Books,
           ForgottenAt(e, h, fba), NEW L,
           \A q \in Pages : q[1] # fba => (q \in lost <=> q \in L) /\ (h.vram[q] <=> e.vram[q]),
           \A q \in Pages : q[1] = fba => h.vram[q] \/ q \in L
    PROVE  Sound(h, L)
<1>1. \A u \in Slots, p \in Parts : Waits(h, u, p) <=> Waits(e, u, p)
  BY DEF Waits, ForgottenAt
<1>2. \A u \in Slots : h.tgt[u].valid =>
         e.tgt[u].valid /\ e.tgt[u].used /\ h.tgt[u] = e.tgt[u] /\ e.tgt[u].fba # fba
  BY DEF ForgottenAt, Sound, OnePerAddress
<1>3. ASSUME NEW u \in Slots, h.tgt[u].valid, NEW p \in Parts
      PROVE  /\ <<e.tgt[u].fba, p>> \in lost <=> <<e.tgt[u].fba, p>> \in L
             /\ h.vram[<<e.tgt[u].fba, p>>] <=> e.vram[<<e.tgt[u].fba, p>>]
  <2>1. e.tgt[u].fba \in Addrs /\ e.tgt[u].fba # fba
    BY <1>2, <1>3, UsedAddress
  <2>2. <<e.tgt[u].fba, p>> \in Pages /\ <<e.tgt[u].fba, p>>[1] = e.tgt[u].fba
    BY <2>1 DEF Pages
  <2> QED
    BY <2>1, <2>2
<1>4. Newest(h, L)
  <2> SUFFICES ASSUME NEW u \in Slots, NEW p \in Parts, h.tgt[u].valid
               PROVE  h.tgt[u].fresh[p] \/ Waits(h, u, p) \/ <<h.tgt[u].fba, p>> \in L
    BY Zenon DEF Newest
  <2>1. e.tgt[u].fresh[p] \/ Waits(e, u, p) \/ <<e.tgt[u].fba, p>> \in lost
    BY <1>2, Zenon DEF Sound, Newest
  <2> QED
    BY <1>1, <1>2, <1>3, <2>1
<1>5. Kept(h, L)
  <2> SUFFICES ASSUME NEW q \in Pages \ L, ~h.vram[q]
               PROVE  \E u \in Slots : /\ h.tgt[u].valid /\ h.tgt[u].fba = q[1]
                                       /\ h.tgt[u].fresh[q[2]] \/ Waits(h, u, q[2])
    BY Zenon DEF Kept
  <2>1. q[1] # fba /\ q \notin lost /\ ~e.vram[q] /\ q[2] \in Parts
    BY DEF Pages
  <2>2. PICK u \in Slots : /\ e.tgt[u].valid /\ e.tgt[u].fba = q[1]
                           /\ e.tgt[u].fresh[q[2]] \/ Waits(e, u, q[2])
    BY <2>1, Zenon DEF Sound, Kept
  <2>3. h.tgt[u] = e.tgt[u]
    BY <2>1, <2>2 DEF ForgottenAt
  <2> QED
    BY <1>1, <2>1, <2>2, <2>3, Zenon
<1>6. CleanCurrent(h, L)
  <2> SUFFICES ASSUME NEW u \in Slots, NEW p \in Parts, h.tgt[u].valid, h.tgt[u].clean
               PROVE  h.vram[<<h.tgt[u].fba, p>>] \/ Waits(h, u, p) \/ <<h.tgt[u].fba, p>> \in L
    BY Zenon DEF CleanCurrent
  <2>1. e.vram[<<e.tgt[u].fba, p>>] \/ Waits(e, u, p) \/ <<e.tgt[u].fba, p>> \in lost
    BY <1>2, Zenon DEF Sound, CleanCurrent
  <2> QED
    BY <1>1, <1>2, <1>3, <2>1
<1>7. OnePerAddress(h) /\ DepthsAttached(h) /\ SnapCurrent(h)
  BY SMT DEF Sound, OnePerAddress, DepthsAttached, SnapCurrent, ForgottenAt
<1>8. h.cur \in Slots \cup {None}
  BY BooksParts, Zenon
<1>9. CurrentAttached(h)
  BY <1>8, SMT DEF Sound, CurrentAttached, ForgottenAt
<1>10. BatchHasTarget(h)
  BY <1>8, SMT DEF Sound, BatchHasTarget, ForgottenAt
<1> QED
  BY <1>4, <1>5, <1>6, <1>7, <1>9, <1>10 DEF Sound

Invalid(t) == [t EXCEPT !.valid = FALSE, !.fresh = Stale]

LEMMA InvalidFields ==
    ASSUME NEW t \in Target, NEW r, r = Invalid(t)
    PROVE  /\ r \in Target /\ ~r.valid /\ (r.used <=> t.used) /\ r.fba = t.fba
           /\ r.dep = t.dep /\ r.fb = t.fb
<1>1. Stale \in [Parts -> BOOLEAN]
  BY Zenon DEF Stale
<1> HIDE DEF Stale
<1> QED
  BY <1>1, Zenon DEF Invalid, Target

(* hook_vram_dirty.                                                        *)
LEMMA DirtyForgets ==
    ASSUME NEW g, NEW lost, Sound(g, lost), NEW fba \in Addrs, NEW d, d = Dirty(g, fba)
    PROVE  /\ d \in Books /\ d.vram = g.vram
           /\ \E e : Sound(e, lost) /\ e.vram = g.vram /\ ForgottenAt(e, d, fba)
<1> DEFINE s == At(g, fba)
           e == SubmitIfOn(g, s)
<1>1. \/ s = None /\ \A u \in Slots : ~Holder(g, fba, u)
      \/ s \in Slots /\ s # None /\ Holder(g, fba, s)
  BY AtHolds
<1>2. d = IF s = None THEN g ELSE IF ~g.tgt[s].valid THEN g
          ELSE SetTarget(e, s, Invalid(e.tgt[s]))
  BY Zenon DEF Dirty, SetTarget, Invalid
<1>3. /\ Sound(e, lost) /\ SamePlaces(g, e) /\ e.vram = g.vram
      /\ s = g.cur => e.pend.prims = 0
  BY SubmitIfOnSound
<1>4. g \in Books /\ e \in Books /\ g.pend.prims \in Nat /\ e.pend.prims \in Nat
  BY <1>3, BooksParts, SMT DEF Sound
<1> HIDE DEF s, e
<1>5. CASE s = None \/ ~g.tgt[s].valid
  <2>1. d = g
    BY <1>2, <1>5, Zenon
  <2>2. \A u \in Slots : g.tgt[u].used /\ g.tgt[u].fba = fba => ~g.tgt[u].valid
    BY <1>1, <1>5 DEF Holder, Sound, OnePerAddress
  <2>3. g.pend.prims > 0 => g.tgt[g.cur].fba # fba
    <3> SUFFICES ASSUME g.pend.prims > 0 PROVE g.tgt[g.cur].fba # fba
      OBVIOUS
    <3>1. g.cur \in Slots /\ g.tgt[g.cur].valid
      BY <1>4, BooksParts, SMT DEF Sound, BatchHasTarget
    <3> QED
      BY <2>2, <3>1 DEF Sound, OnePerAddress
  <2>4. ForgottenAt(g, d, fba)
    BY <2>1, <2>2, <2>3 DEF ForgottenAt
  <2> QED
    BY <1>4, <2>1, <2>4
<1>6. CASE s # None /\ g.tgt[s].valid
  <2>1. s \in Slots /\ Holder(g, fba, s) /\ d = SetTarget(e, s, Invalid(e.tgt[s]))
    BY <1>1, <1>2, <1>6
  <2>2. e.tgt[s] \in Target /\ e.tgt[s].used /\ e.tgt[s].fba = fba
    BY <1>3, <1>4, <2>1, BooksParts, SMT DEF SamePlaces, Holder
  <2> DEFINE r == Invalid(e.tgt[s])
  <2>3. /\ r \in Target /\ ~r.valid /\ (r.used <=> e.tgt[s].used) /\ r.fba = e.tgt[s].fba
        /\ r.dep = e.tgt[s].dep /\ r.fb = e.tgt[s].fb
    <3> HIDE DEF r
    <3>1. r = Invalid(e.tgt[s])
      BY DEF r
    <3> QED
      BY <2>2, <3>1, InvalidFields
  <2> HIDE DEF r
  <2>4. /\ d \in Books /\ d.tgt[s] = r
        /\ \A u \in Slots : u # s => d.tgt[u] = e.tgt[u]
        /\ d.vram = e.vram /\ d.deps = e.deps /\ d.cur = e.cur /\ d.pend = e.pend
        /\ d.snap = e.snap
    <3>1. d = SetTarget(e, s, r)
      BY <2>1 DEF r
    <3> QED
      BY <1>4, <2>1, <2>3, <3>1, SetTargetFields
  <2>5. e.pend.prims > 0 => e.tgt[e.cur].fba # fba
    <3> SUFFICES ASSUME e.pend.prims > 0 PROVE e.tgt[e.cur].fba # fba
      OBVIOUS
    <3>1. e.cur \in Slots /\ e.tgt[e.cur].used /\ e.cur # s
      BY <1>3, <1>4, BooksParts, SMT DEF Sound, BatchHasTarget, OnePerAddress, SamePlaces
    <3> QED
      BY <1>3, <2>1, <2>2, <3>1 DEF Sound, OnePerAddress
  <2>6. \A u \in Slots : u # s /\ e.tgt[u].used => e.tgt[u].fba # fba
    BY <1>3, <2>1, <2>2, Zenon DEF Sound, OnePerAddress
  <2>7. ForgottenAt(e, d, fba)
    BY <2>2, <2>3, <2>4, <2>5, <2>6 DEF ForgottenAt
  <2> QED
    BY <1>3, <2>4, <2>7
<1> QED
  BY <1>5, <1>6

SetVram(d, v) == [d EXCEPT !.vram = v]

LEMMA SetVramFields ==
    ASSUME NEW d \in Books, NEW v \in [Pages -> BOOLEAN], NEW h, h = SetVram(d, v)
    PROVE  /\ h \in Books /\ h.vram = v /\ h.tgt = d.tgt /\ h.deps = d.deps /\ h.cur = d.cur
           /\ h.pend = d.pend /\ h.tmpl = d.tmpl /\ h.snap = d.snap
  BY Zenon DEF SetVram, Books

(* Memory at fba gets other contents, v, and what was only in the image    *)
(* is lost.                                                                *)
LEMMA OverwrittenSound ==
    ASSUME NEW g, NEW lost, Sound(g, lost), NEW fba \in Addrs, NEW v \in [Pages -> BOOLEAN],
           NEW h, h = SetVram(Dirty(g, fba), v), NEW L,
           \A q \in Pages : q[1] # fba => (q \in lost <=> q \in L) /\ (v[q] <=> g.vram[q]),
           \A q \in Pages : q[1] = fba => v[q] \/ q \in L
    PROVE  Sound(h, L)
<1> DEFINE d == Dirty(g, fba)
<1>1. d \in Books /\ d.vram = g.vram /\ \E e : Sound(e, lost) /\ e.vram = g.vram /\ ForgottenAt(e, d, fba)
  BY DirtyForgets
<1> HIDE DEF d
<1>2. PICK e : Sound(e, lost) /\ e.vram = g.vram /\ ForgottenAt(e, d, fba)
  BY <1>1
<1>3. /\ h \in Books /\ h.vram = v /\ h.tgt = d.tgt /\ h.deps = d.deps /\ h.cur = d.cur
      /\ h.pend = d.pend /\ h.tmpl = d.tmpl /\ h.snap = d.snap
  <2>1. h = SetVram(d, v)
    BY DEF d
  <2> QED
    BY <1>1, <2>1, SetVramFields
<1>4. ForgottenAt(e, h, fba)
  BY <1>2, <1>3 DEF ForgottenAt
<1> QED
  BY <1>2, <1>3, <1>4, ForgottenSound

(* Either memory had the newest pixels or what it lacks counts as lost.    *)
LEMMA DiscardedIs ==
    ASSUME NEW g, NEW lost, Sound(g, lost), NEW h, NEW fba \in Addrs
    PROVE  \/ InMemory(g, lost, fba) /\ Discarded(g, h, fba) = {}
           \/ Discarded(g, h, fba) = {q \in {fba} \X Parts : ~h.vram[q]}
<1> DEFINE s == At(g, fba)
<1>1. \/ s = None /\ \A u \in Slots : ~Holder(g, fba, u)
      \/ s \in Slots /\ s # None /\ Holder(g, fba, s)
  BY AtHolds
<1>2. Discarded(g, h, fba) = IF s = None THEN {} ELSE IF ~g.tgt[s].valid THEN {}
                             ELSE {q \in {fba} \X Parts : ~h.vram[q]}
  BY Zenon DEF Discarded
<1> HIDE DEF s
<1>3. CASE s = None \/ ~g.tgt[s].valid
  <2>1. \A u \in Slots : g.tgt[u].valid => g.tgt[u].fba # fba
    BY <1>1, <1>3 DEF Holder, Sound, OnePerAddress
  <2>2. InMemory(g, lost, fba)
    BY <2>1, InMemoryUnlessValid
  <2> QED
    BY <1>2, <1>3, <2>2, Zenon
<1>4. CASE ~(s = None \/ ~g.tgt[s].valid)
  BY <1>2, <1>4, Zenon
<1> QED
  BY <1>3, <1>4

(* The processor writes, or a block arrives from other memory.             *)
LEMMA CpuWriteInSound ==
    ASSUME NEW g, Sound(g, spoiled), spoiled \subseteq Pages, NEW fba \in Addrs, NEW W \in SUBSET Parts,
           CpuWriteIn(g, fba, W)
    PROVE  Sound(Now', spoiled') /\ spoiled' \subseteq Pages
<1> DEFINE page == {fba} \X W
           v == [q \in Pages |-> g.vram[q] \/ q \in page]
           h == Written(g, fba, W)
           D == Discarded(g, h, fba)
<1>1. Become(h) /\ spoiled' = (spoiled \ page) \cup D
  BY Zenon DEF CpuWriteIn
<1>2. v \in [Pages -> BOOLEAN] /\ \A q \in Pages : v[q] <=> g.vram[q] \/ q \in page
  <2>1. \A q \in Pages : (g.vram[q] \/ q \in page) \in BOOLEAN
    OBVIOUS
  <2>2. \A q \in Pages : v[q] <=> g.vram[q] \/ q \in page
    BY Zenon
  <2> QED
    BY <2>1, <2>2, Zenon
<1>3. DOMAIN v = Pages /\ g.vram \in [Pages -> BOOLEAN] /\ g \in Books
  BY BooksParts, Zenon DEF Sound
<1>4. h = SetVram(Dirty(g, fba), v)
  BY Zenon DEF Written, SetVram
<1>5. \A q : q \in page <=> q[1] = fba /\ q[2] \in W /\ q = <<fba, q[2]>>
  OBVIOUS
<1>6. \/ InMemory(g, spoiled, fba) /\ D = {}
      \/ D = {q \in {fba} \X Parts : ~h.vram[q]}
  BY DiscardedIs
<1>a. D = Discarded(g, h, fba)
  OBVIOUS
<1> HIDE DEF page, v, h, D
<1>7. h.vram = v /\ h \in Books
  <2> DEFINE d == Dirty(g, fba)
  <2>1. d \in Books
    BY DirtyForgets
  <2> HIDE DEF d
  <2>2. h = SetVram(d, v)
    BY <1>4 DEF d
  <2> QED
    BY <1>2, <2>1, <2>2, SetVramFields
<1>8. D \subseteq Pages /\ \A q \in D : q[1] = fba
  BY <1>6 DEF Pages
<1>9. ASSUME NEW q \in Pages, q[1] # fba
      PROVE  (q \in spoiled <=> q \in spoiled') /\ (v[q] <=> g.vram[q])
  BY <1>1, <1>2, <1>5, <1>8, <1>9
<1>10. ASSUME NEW q \in Pages, q[1] = fba
       PROVE  v[q] \/ q \in spoiled'
  <2>1. q = <<fba, q[2]>> /\ q[2] \in Parts
    BY <1>10 DEF Pages
  <2>2. CASE InMemory(g, spoiled, fba)
    <3>1. g.vram[q] \/ q \in spoiled
      BY <2>1, <2>2, Zenon DEF InMemory
    <3> QED
      BY <1>1, <1>2, <3>1
  <2>3. CASE D = {r \in {fba} \X Parts : ~h.vram[r]}
    <3>1. q \in {fba} \X Parts
      BY <2>1
    <3> QED
      BY <1>1, <1>7, <2>3, <3>1
  <2> QED
    BY <1>6, <2>2, <2>3
<1>11. Sound(h, spoiled')
  BY <1>2, <1>4, <1>9, <1>10, OverwrittenSound
<1> QED
  BY <1>1, <1>7, <1>8, <1>11, BecomeIsNow

(* Whoever reads a framebuffer from memory finds the newest pixels there.  *)
LEMMA ReadbackAtSound ==
    ASSUME NEW g, NEW lost, Sound(g, lost), NEW fba \in Addrs, NEW h, h = ReadbackAt(g, fba)
    PROVE  /\ Sound(h, lost) /\ SamePlaces(g, h) /\ InMemory(h, lost, fba)
           /\ At(g, fba) # None /\ At(g, fba) = g.cur => h.pend.prims = 0 \/ ~g.tgt[g.cur].valid
<1> DEFINE s == At(g, fba)
<1>1. \/ s = None /\ \A u \in Slots : ~Holder(g, fba, u)
      \/ s \in Slots /\ s # None /\ Holder(g, fba, s)
  BY AtHolds
<1>2. h = IF s = None THEN g ELSE Readback(g, s)
  BY Zenon DEF ReadbackAt
<1>3. SamePlaces(g, g)
  BY DEF SamePlaces
<1>a. s = At(g, fba)
  OBVIOUS
<1> HIDE DEF s
<1>4. CASE s = None
  <2>1. h = g
    BY <1>2, <1>4, Zenon
  <2>2. \A u \in Slots : g.tgt[u].valid => g.tgt[u].fba # fba
    BY <1>1, <1>4, SlotIsNotNone DEF Holder, Sound, OnePerAddress
  <2> QED
    BY <1>3, <1>4, <1>a, <2>1, <2>2, InMemoryUnlessValid
<1>5. CASE s # None
  <2>1. h = Readback(g, s) /\ s \in Slots /\ Holder(g, fba, s)
    BY <1>1, <1>2, <1>5
  <2>2. /\ Sound(h, lost) /\ SamePlaces(g, h)
        /\ g.tgt[s].valid => InMemory(h, lost, g.tgt[s].fba)
        /\ s = g.cur /\ g.tgt[s].valid => h.pend.prims = 0
        /\ ~g.tgt[s].valid => h = g
    BY <2>1, ReadbackSound
  <2>3. CASE g.tgt[s].valid
    BY <1>a, <2>1, <2>2, <2>3 DEF Holder
  <2>4. CASE ~g.tgt[s].valid
    <3>1. \A u \in Slots : g.tgt[u].valid => g.tgt[u].fba # fba
      BY <2>1, <2>4 DEF Holder, Sound, OnePerAddress
    <3>2. InMemory(g, lost, fba)
      BY <3>1, InMemoryUnlessValid
    <3> QED
      BY <1>3, <1>a, <2>2, <2>4, <3>2
  <2> QED
    BY <2>3, <2>4
<1> QED
  BY <1>4, <1>5

-----------------------------------------------------------------------------
(* ge_block_transfer.                                                      *)

(* What was lost where a block comes from is lost where it goes.           *)
LEMMA CarriedIs ==
    ASSUME NEW from, NEW to \in Pages, spoiled \subseteq Pages
    PROVE  /\ Carried(from, to) \subseteq Pages
           /\ \A q : q # to => (q \in Carried(from, to) <=> q \in spoiled)
           /\ to \in Carried(from, to) <=> from \in spoiled
  BY Zenon DEF Carried

(* A block is moved by the processor.                                      *)
LEMMA TransferByCpuSound ==
    ASSUME Sound(Now, spoiled), spoiled \subseteq Pages, NEW from \in Pages, NEW to \in Pages,
           TransferByCpu(from, to)
    PROVE  Sound(Now', spoiled') /\ spoiled' \subseteq Pages
<1> DEFINE read == ReadbackAt(Submit(Now), from[1])
           w == [q \in Pages |-> read.vram[q] \/ q \in {to[1]} \X {}]
           v == [w EXCEPT ![to] = read.vram[from]]
           copied == [Written(read, to[1], {}) EXCEPT !.vram[to] = read.vram[from]]
           D == Discarded(read, copied, to[1])
           C == Carried(from, to)
<1>1. Become(copied) /\ spoiled' = C \cup (D \ {to})
  BY Zenon DEF TransferByCpu
<1>2. from = <<from[1], from[2]>> /\ to = <<to[1], to[2]>> /\ from[1] \in Addrs /\ to[1] \in Addrs
      /\ from[2] \in Parts
  BY DEF Pages
<1>3. Sound(read, spoiled) /\ InMemory(read, spoiled, from[1])
  <2> DEFINE d == Submit(Now)
  <2>1. Sound(d, spoiled)
    BY SubmitSound
  <2> HIDE DEF d
  <2>2. read = ReadbackAt(d, from[1])
    BY DEF d
  <2> QED
    BY <1>2, <2>1, <2>2, ReadbackAtSound
<1> HIDE DEF read
<1>4. /\ v \in [Pages -> BOOLEAN] /\ (v[to] <=> read.vram[from])
      /\ \A q \in Pages : q # to => (v[q] <=> read.vram[q])
  <2>1. read.vram \in [Pages -> BOOLEAN]
    BY <1>3, BooksParts, Zenon DEF Sound
  <2>2. w \in [Pages -> BOOLEAN] /\ \A q \in Pages : w[q] <=> read.vram[q]
    <3>1. \A q \in Pages : (read.vram[q] \/ q \in {to[1]} \X {}) \in BOOLEAN
      OBVIOUS
    <3>2. \A q \in Pages : w[q] <=> read.vram[q]
      BY Zenon
    <3> QED
      BY <3>1, <3>2, Zenon
  <2> HIDE DEF w
  <2> QED
    BY <2>1, <2>2, SMT
<1>5. copied = SetVram(Dirty(read, to[1]), v)
  <2> DEFINE d == Dirty(read, to[1])
  <2>1. d \in Books
    BY <1>2, <1>3, DirtyForgets
  <2> HIDE DEF d
  <2>2. copied = [[d EXCEPT !.vram = w] EXCEPT !.vram = [[d EXCEPT !.vram = w].vram EXCEPT ![to] = read.vram[from]]]
    BY Zenon DEF Written, d
  <2>3. [d EXCEPT !.vram = w].vram = w
    BY <2>1, Zenon DEF Books
  <2>4. copied = [[d EXCEPT !.vram = w] EXCEPT !.vram = v]
    BY <2>2, <2>3, Zenon
  <2> HIDE DEF v, w
  <2>5. copied = [d EXCEPT !.vram = v]
    BY <2>1, <2>4, Zenon DEF Books
  <2> QED
    BY <2>5, Zenon DEF SetVram, d
<1>6. copied \in Books /\ copied.vram = v
  <2> DEFINE d == Dirty(read, to[1])
  <2>1. d \in Books
    BY <1>2, <1>3, DirtyForgets
  <2> HIDE DEF d, v, copied
  <2>2. copied = SetVram(d, v)
    BY <1>5 DEF d
  <2> QED
    BY <1>4, <2>1, <2>2, SetVramFields
<1> HIDE DEF copied
<1>7. \/ InMemory(read, spoiled, to[1]) /\ D = {}
      \/ D = {q \in {to[1]} \X Parts : ~copied.vram[q]}
  BY <1>2, <1>3, DiscardedIs
<1>8. /\ C \subseteq Pages
      /\ \A q : q # to => (q \in C <=> q \in spoiled)
      /\ to \in C <=> from \in spoiled
  BY CarriedIs
<1> HIDE DEF v, copied, D, C
<1>9. D \subseteq Pages /\ \A q \in D : q[1] = to[1]
  BY <1>2, <1>7 DEF Pages
<1>10. ASSUME NEW q \in Pages, q[1] # to[1]
       PROVE  (q \in spoiled <=> q \in spoiled') /\ (v[q] <=> read.vram[q])
  BY <1>1, <1>4, <1>8, <1>9, <1>10
<1>11. ASSUME NEW q \in Pages, q[1] = to[1]
       PROVE  v[q] \/ q \in spoiled'
  <2>1. q = <<to[1], q[2]>> /\ q[2] \in Parts
    BY <1>11 DEF Pages
  <2>2. CASE q = to
    <3>1. read.vram[from] \/ from \in spoiled
      BY <1>2, <1>3, Zenon DEF InMemory
    <3> QED
      BY <1>1, <1>4, <1>8, <2>2, <3>1
  <2>3. CASE q # to /\ InMemory(read, spoiled, to[1])
    <3>1. read.vram[q] \/ q \in spoiled
      BY <2>1, <2>3, Zenon DEF InMemory
    <3> QED
      BY <1>1, <1>4, <1>8, <2>3, <3>1
  <2>4. CASE q # to /\ D = {r \in {to[1]} \X Parts : ~copied.vram[r]}
    <3>1. q \in {to[1]} \X Parts
      BY <2>1
    <3> QED
      BY <1>1, <1>6, <2>4, <3>1
  <2> QED
    BY <1>7, <2>2, <2>3, <2>4
<1>12. Sound(copied, spoiled')
  BY <1>2, <1>3, <1>4, <1>5, <1>10, <1>11, OverwrittenSound
<1> QED
  BY <1>1, <1>6, <1>8, <1>9, <1>12, BecomeIsNow

BlitDrawn(ready, s, d, from, to) ==
    LET e == Redrawn(ready, d, [ready.tgt[d].fresh EXCEPT ![to[2]] = ready.tgt[s].fresh[from[2]]])
    IN SetVram(e, [e.vram EXCEPT ![to] = FALSE])

(* A block is moved from image to image.                                   *)
LEMMA BlitDrawnSound ==
    ASSUME NEW g, Sound(g, spoiled), spoiled \subseteq Pages,
           NEW from \in Pages, NEW to \in Pages, NEW s \in Slots, NEW d \in Slots, s # d,
           g.tgt[s].valid, g.tgt[d].valid, g.tgt[s].fba = from[1], g.tgt[d].fba = to[1],
           \A p : ~Waits(g, s, p) /\ ~Waits(g, d, p),
           NEW h, h = BlitDrawn(g, s, d, from, to)
    PROVE  Sound(h, Carried(from, to))
<1> DEFINE fresh == [g.tgt[d].fresh EXCEPT ![to[2]] = g.tgt[s].fresh[from[2]]]
           v == [g.vram EXCEPT ![to] = FALSE]
           e == Redrawn(g, d, fresh)
           C == Carried(from, to)
           r == Repainted(g.tgt[d], fresh)
<1>1. from = <<from[1], from[2]>> /\ to = <<to[1], to[2]>> /\ from[2] \in Parts /\ to[2] \in Parts
  BY DEF Pages
<1>2. g \in Books /\ g.tgt[d] \in Target /\ g.tgt[s] \in Target /\ g.vram \in [Pages -> BOOLEAN]
  BY BooksParts, SMT DEF Sound
<1>3. g.tgt[d].fresh \in [Parts -> BOOLEAN] /\ g.tgt[s].fresh \in [Parts -> BOOLEAN]
  BY <1>2, Zenon DEF Target
<1>4. /\ fresh \in [Parts -> BOOLEAN] /\ (fresh[to[2]] <=> g.tgt[s].fresh[from[2]])
      /\ \A p \in Parts : p # to[2] => (fresh[p] <=> g.tgt[d].fresh[p])
  BY <1>1, <1>3, SMT
<1>5. v \in [Pages -> BOOLEAN] /\ ~v[to] /\ \A q \in Pages : q # to => (v[q] <=> g.vram[q])
  BY <1>2, SMT
<1>6. h = SetVram(e, [e.vram EXCEPT ![to] = FALSE])
  BY Zenon DEF BlitDrawn
<1>7. /\ C \subseteq Pages
      /\ \A q : q # to => (q \in C <=> q \in spoiled)
      /\ to \in C <=> from \in spoiled
  BY CarriedIs
<1> HIDE DEF fresh, C
<1>8. /\ e \in Books /\ e.tgt[d] = r
      /\ \A u \in Slots : u # d => e.tgt[u] = g.tgt[u]
      /\ g.snap.src = d => e.snap = NoSnap
      /\ g.snap.src # d => e.snap = g.snap
      /\ e.vram = g.vram /\ e.deps = g.deps /\ e.cur = g.cur /\ e.pend = g.pend
      /\ e.tmpl = g.tmpl
  BY <1>2, <1>4, RedrawnFields
<1>a. h = SetVram(e, v)
  BY <1>6, <1>8, Zenon
<1>9. /\ r.fresh = fresh /\ ~r.clean /\ (r.used <=> g.tgt[d].used) /\ (r.valid <=> g.tgt[d].valid)
      /\ r.fba = g.tgt[d].fba /\ r.dep = g.tgt[d].dep /\ r.fb = g.tgt[d].fb
  BY <1>2, <1>4, Zenon DEF Repainted, Target
<1> HIDE DEF e, r, v
<1>10. /\ h \in Books /\ h.vram = v /\ h.tgt = e.tgt /\ h.deps = e.deps /\ h.cur = e.cur
       /\ h.pend = e.pend /\ h.tmpl = e.tmpl /\ h.snap = e.snap
  BY <1>5, <1>a, <1>8, SetVramFields
<1>11. \A u \in Slots : u = d \/ h.tgt[u] = g.tgt[u]
  BY <1>8, <1>10
<1>12. /\ \A p \in Parts : h.tgt[d].fresh[p] <=> fresh[p]
       /\ ~h.tgt[d].clean /\ (h.tgt[d].used <=> g.tgt[d].used) /\ h.tgt[d].valid
       /\ h.tgt[d].fba = to[1] /\ h.tgt[d].dep = g.tgt[d].dep /\ h.tgt[d].fb = g.tgt[d].fb
  BY <1>8, <1>9, <1>10
<1>13. \A u \in Slots, p \in Parts : Waits(h, u, p) <=> Waits(g, u, p)
  BY <1>8, <1>10 DEF Waits
<1>14. g.tgt[s].fresh[from[2]] \/ from \in spoiled
  BY <1>1, Zenon DEF Sound, Newest
<1>15. \A u \in Slots : g.tgt[u].valid => g.tgt[u].used
  BY DEF Sound, OnePerAddress
<1>16. \A u \in Slots : u # d /\ g.tgt[u].valid => g.tgt[u].fba # to[1]
  BY <1>15, Zenon DEF Sound, OnePerAddress
<1>17. Newest(h, C)
  <2> SUFFICES ASSUME NEW u \in Slots, NEW p \in Parts, h.tgt[u].valid
               PROVE  h.tgt[u].fresh[p] \/ Waits(h, u, p) \/ <<h.tgt[u].fba, p>> \in C
    BY Zenon DEF Newest
  <2>1. CASE u # d
    <3>1. h.tgt[u] = g.tgt[u] /\ g.tgt[u].fba # to[1]
      BY <1>11, <1>16, <2>1
    <3>2. g.tgt[u].fresh[p] \/ Waits(g, u, p) \/ <<g.tgt[u].fba, p>> \in spoiled
      BY <3>1, Zenon DEF Sound, Newest
    <3>3. <<g.tgt[u].fba, p>> # to
      BY <3>1, <1>1
    <3> QED
      BY <1>7, <1>13, <3>1, <3>2, <3>3
  <2>2. CASE u = d /\ p = to[2]
    BY <1>1, <1>4, <1>7, <1>12, <1>14, <2>2
  <2>3. CASE u = d /\ p # to[2]
    <3>1. g.tgt[d].fresh[p] \/ Waits(g, d, p) \/ <<g.tgt[d].fba, p>> \in spoiled
      BY Zenon DEF Sound, Newest
    <3>2. <<to[1], p>> # to
      BY <1>1, <2>3
    <3> QED
      BY <1>4, <1>7, <1>12, <2>3, <3>1, <3>2
  <2> QED
    BY <2>1, <2>2, <2>3
<1>18. Kept(h, C)
  <2> SUFFICES ASSUME NEW q \in Pages \ C, ~h.vram[q]
               PROVE  \E u \in Slots : /\ h.tgt[u].valid /\ h.tgt[u].fba = q[1]
                                       /\ h.tgt[u].fresh[q[2]] \/ Waits(h, u, q[2])
    BY Zenon DEF Kept
  <2>0. q = <<q[1], q[2]>> /\ q[2] \in Parts
    BY DEF Pages
  <2>1. CASE q = to
    <3>1. h.tgt[d].fresh[to[2]]
      BY <1>1, <1>4, <1>7, <1>12, <1>14, <2>1
    <3> QED
      BY <1>12, <2>1, <3>1
  <2>2. CASE q # to
    <3>1. q \notin spoiled /\ ~g.vram[q]
      BY <1>5, <1>7, <1>10, <2>2
    <3>2. PICK u \in Slots : /\ g.tgt[u].valid /\ g.tgt[u].fba = q[1]
                             /\ g.tgt[u].fresh[q[2]] \/ Waits(g, u, q[2])
      BY <3>1, Zenon DEF Sound, Kept
    <3>3. CASE u # d
      BY <1>11, <1>13, <2>0, <3>2, <3>3
    <3>4. CASE u = d
      <4>1. q[2] # to[2]
        BY <1>1, <2>0, <2>2, <3>2, <3>4
      <4> QED
        BY <1>4, <1>12, <1>13, <2>0, <3>2, <3>4, <4>1
    <3> QED
      BY <3>3, <3>4
  <2> QED
    BY <2>1, <2>2
<1>19. CleanCurrent(h, C)
  <2> SUFFICES ASSUME NEW u \in Slots, NEW p \in Parts, h.tgt[u].valid, h.tgt[u].clean
               PROVE  h.vram[<<h.tgt[u].fba, p>>] \/ Waits(h, u, p) \/ <<h.tgt[u].fba, p>> \in C
    BY Zenon DEF CleanCurrent
  <2>1. u # d /\ h.tgt[u] = g.tgt[u]
    BY <1>11, <1>12
  <2>2. g.vram[<<g.tgt[u].fba, p>>] \/ Waits(g, u, p) \/ <<g.tgt[u].fba, p>> \in spoiled
    BY <2>1, Zenon DEF Sound, CleanCurrent
  <2>3. g.tgt[u].fba # to[1] /\ g.tgt[u].fba \in Addrs
    BY <1>15, <1>16, <2>1, UsedAddress
  <2>4. <<g.tgt[u].fba, p>> # to /\ <<g.tgt[u].fba, p>> \in Pages
    BY <1>1, <2>3 DEF Pages
  <2> QED
    BY <1>5, <1>7, <1>10, <1>13, <2>1, <2>2, <2>4
<1>20. OnePerAddress(h)
  BY <1>11, <1>12, SMT DEF Sound, OnePerAddress
<1>21. DepthsAttached(h)
  BY <1>8, <1>10, <1>11, <1>12, SMT DEF Sound, DepthsAttached
<1>22. h.cur \in Slots \cup {None}
  BY <1>10, BooksParts, Zenon
<1>23. CurrentAttached(h)
  BY <1>8, <1>10, <1>11, <1>12, <1>22, SMT DEF Sound, CurrentAttached
<1>24. BatchHasTarget(h)
  BY <1>8, <1>10, <1>11, <1>12, <1>22, SMT DEF Sound, BatchHasTarget
<1>25. SnapCurrent(h)
  <2>1. NoSnap.src = None
    BY DEF NoSnap
  <2> QED
    BY <1>8, <1>10, <2>1 DEF Sound, SnapCurrent
<1> QED
  BY <1>10, <1>17, <1>18, <1>19, <1>20, <1>21, <1>23, <1>24, <1>25 DEF Sound, C

LEMMA TransferOnGpuSound ==
    ASSUME Sound(Now, spoiled), spoiled \subseteq Pages, NEW from \in Pages, NEW to \in Pages,
           NEW fits, OnGpu(At(Now, from[1]), At(Now, to[1]), fits),
           TransferOnGpu(At(Now, from[1]), At(Now, to[1]), from, to)
    PROVE  Sound(Now', spoiled') /\ spoiled' \subseteq Pages
<1> DEFINE s == At(Now, from[1])
           d == At(Now, to[1])
           g == Now
           seeded == IF tgt[d].valid THEN g ELSE Upload(g, d)
           ready == IF cur \in {s, d} THEN SubmitIfAny(seeded) ELSE seeded
           h == BlitDrawn(ready, s, d, from, to)
<1>0. g.tgt = tgt /\ g.cur = cur /\ g \in Books
  <2>1. g \in Books
    BY DEF Sound
  <2> QED
    BY <2>1, Zenon DEF Now
<1>1. Become(h) /\ spoiled' = Carried(from, to)
  <2>1. Blit(s, d, from, to) = h
    <3> HIDE DEF s, d
    <3> DEFINE fresh == [ready.tgt[d].fresh EXCEPT ![to[2]] = ready.tgt[s].fresh[from[2]]]
               e == Redrawn(ready, d, fresh)
    <3>1. Blit(s, d, from, to) = [e EXCEPT !.vram[to] = FALSE]
      BY Zenon DEF Blit, Redrawn
    <3>2. [e EXCEPT !.vram[to] = FALSE] = SetVram(e, [e.vram EXCEPT ![to] = FALSE])
      <4> HIDE DEF e
      <4> QED
        BY Zenon DEF SetVram
    <3> QED
      BY <3>1, <3>2, Zenon DEF BlitDrawn
  <2> HIDE DEF h
  <2> QED
    BY <2>1, Zenon DEF TransferOnGpu
<1>2. s # d /\ s # None /\ d # None /\ tgt[s].valid
  BY DEF OnGpu
<1>3. s \in Slots /\ Holder(g, from[1], s)
  BY <1>2, AtHolds
<1>4. d \in Slots /\ Holder(g, to[1], d)
  BY <1>2, AtHolds
<1>a. Sound(g, spoiled)
  OBVIOUS
<1> HIDE DEF s, d, g
<1>5. /\ Sound(seeded, spoiled) /\ seeded.tgt[d].valid /\ seeded.tgt[d].fba = to[1]
      /\ seeded.tgt[s].valid /\ seeded.tgt[s].fba = from[1] /\ seeded.cur = cur
  <2>1. CASE tgt[d].valid
    <3>1. seeded = g
      BY <2>1
    <3> HIDE DEF seeded
    <3> QED
      BY <1>0, <1>2, <1>3, <1>4, <1>a, <2>1, <3>1 DEF Holder
  <2>2. CASE ~tgt[d].valid
    <3>1. seeded = Upload(g, d)
      BY <2>2
    <3> HIDE DEF seeded
    <3>2. \A u \in Slots : g.tgt[u].valid => g.tgt[u].fba # to[1]
      BY <1>0, <1>4, <1>a, <2>2 DEF Holder, Sound, OnePerAddress
    <3>3. InMemory(g, spoiled, g.tgt[d].fba) /\ g.tgt[d].used
      <4>1. to[1] \in Addrs
        BY DEF Pages
      <4> QED
        BY <1>4, <1>a, <3>2, <4>1, InMemoryUnlessValid DEF Holder
    <3>4. /\ Sound(seeded, spoiled) /\ seeded.tgt[d].valid
          /\ seeded.tgt[d].fba = g.tgt[d].fba
          /\ \A u \in Slots : u # d => seeded.tgt[u] = g.tgt[u]
          /\ seeded.cur = g.cur
      BY <1>4, <1>a, <3>1, <3>3, UploadSound
    <3> QED
      BY <1>0, <1>2, <1>3, <1>4, <3>4 DEF Holder
  <2> QED
    BY <2>1, <2>2
<1>b. seeded = seeded
  OBVIOUS
<1> HIDE DEF seeded
<1>6. /\ Sound(ready, spoiled) /\ ready.tgt[d].valid /\ ready.tgt[d].fba = to[1]
      /\ ready.tgt[s].valid /\ ready.tgt[s].fba = from[1]
      /\ \A p : ~Waits(ready, s, p) /\ ~Waits(ready, d, p)
  <2>1. CASE cur \in {s, d}
    <3>1. ready = SubmitIfAny(seeded)
      BY <2>1
    <3> HIDE DEF ready
    <3>2. Sound(ready, spoiled) /\ SamePlaces(seeded, ready) /\ ready.pend.prims = 0
      BY <1>5, <3>1, SubmitIfAnySound
    <3>3. ready.pend.parts = {}
      BY <3>2 DEF Sound, BatchHasTarget
    <3> QED
      BY <1>3, <1>4, <1>5, <3>2, <3>3 DEF SamePlaces, Waits
  <2>2. CASE cur \notin {s, d}
    <3>1. ready = seeded
      BY <2>2
    <3> HIDE DEF ready
    <3> QED
      BY <1>5, <2>2, <3>1 DEF Waits
  <2> QED
    BY <2>1, <2>2
<1> HIDE DEF ready, h
<1>7. Sound(h, spoiled') /\ spoiled' \subseteq Pages
  <2>1. h = BlitDrawn(ready, s, d, from, to)
    BY DEF h
  <2>2. spoiled' \subseteq Pages
    BY <1>1, CarriedIs
  <2> QED
    BY <1>1, <1>2, <1>3, <1>4, <1>6, <2>1, <2>2, BlitDrawnSound
<1> QED
  BY <1>1, <1>7, BecomeIsNow DEF Sound

-----------------------------------------------------------------------------
(* The invariant of the specification.                                     *)

IInv == Sound(Now, spoiled) /\ spoiled \subseteq Pages

LEMMA NowFields ==
    /\ Now.vram = vram /\ Now.tgt = tgt /\ Now.deps = deps /\ Now.cur = cur
    /\ Now.pend = pend /\ Now.tmpl = tmpl /\ Now.snap = snap
  BY DEF Now

LEMMA InitSound == Init => IInv
<1> SUFFICES ASSUME Init PROVE IInv
  OBVIOUS
<1> USE DEF Init
<1>1. vram \in [Pages -> BOOLEAN] /\ \A q \in Pages : vram[q]
  BY Zenon
<1>2. tgt \in [Slots -> Target] /\ \A s \in Slots : tgt[s] = Free
  BY FreeFields, Zenon
<1>3. /\ pend \in [prims : 0 .. MAX_BATCH, parts : SUBSET Parts, sampled : SUBSET Images]
      /\ pend.prims = 0 /\ pend.parts = {}
  <2>1. 0 \in 0 .. MAX_BATCH
    BY TargetsAssumption, SMT
  <2> QED
    BY <2>1, Zenon DEF Nothing
<1>4. snap \in [src : Slots \cup {None}, same : BOOLEAN] /\ snap.src = None
  BY Zenon DEF NoSnap
<1>5. deps \in Seq(Depths) /\ Len(deps) = 0
  BY SMT
<1>6. Now \in Books
  BY <1>1, <1>2, <1>3, <1>4, <1>5, Zenon DEF Books, Now
<1>7. cur = None /\ spoiled = {}
  OBVIOUS
<1>8. \A s \in Slots : ~tgt[s].used /\ ~tgt[s].valid /\ tgt[s].fb = None
  BY <1>2, FreeFields
<1> HIDE DEF Init
<1>9. OnePerAddress(Now) /\ CurrentAttached(Now)
  BY <1>7, <1>8, NowFields DEF OnePerAddress, CurrentAttached
<1>10. DepthsAttached(Now)
  BY <1>5, <1>8, NowFields, TargetsAssumption, SMT DEF DepthsAttached
<1>11. BatchHasTarget(Now) /\ SnapCurrent(Now)
  BY <1>3, <1>4, NowFields, SMT DEF BatchHasTarget, SnapCurrent
<1>12. Newest(Now, spoiled) /\ CleanCurrent(Now, spoiled)
  BY <1>8, NowFields DEF Newest, CleanCurrent
<1>13. Kept(Now, spoiled)
  BY <1>1, NowFields DEF Kept
<1> QED
  BY <1>6, <1>7, <1>9, <1>10, <1>11, <1>12, <1>13 DEF IInv, Sound

LEMMA BecomeSound ==
    ASSUME NEW h, Sound(h, spoiled), spoiled \subseteq Pages, Become(h), UNCHANGED spoiled
    PROVE  IInv'
<1>1. Now' = h
  BY BecomeIsNow DEF Sound
<1> QED
  BY <1>1 DEF IInv

LEMMA SpoiledAsItIs == ASSUME NEW h, Sound(h, spoiled) PROVE h \in Books
  BY DEF Sound

LEMMA NextSound == IInv /\ [Next]_vars => IInv'
<1> SUFFICES ASSUME IInv, [Next]_vars PROVE IInv'
  OBVIOUS
<1>0. Sound(Now, spoiled) /\ spoiled \subseteq Pages
  BY DEF IInv
<1>s. Sound(Submit(Now), spoiled)
  BY <1>0, SubmitSound
<1>1. ASSUME NEW to \in Settings, NEW tex \in Textures, NEW old \in Slots \ {cur},
             NEW full \in Fullness(tex), Draw(to, tex, full, old)
      PROVE  IInv'
  <2>1. full \in BOOLEAN
    BY Zenon DEF Fullness
  <2> QED
    BY <1>0, <1>1, <2>1, DrawSound DEF IInv
<1>2. ASSUME NEW fba \in Addrs, NEW W \in SUBSET Parts, CpuWrite(fba, W)
      PROVE  IInv'
  BY <1>0, <1>2, CpuWriteInSound DEF IInv, CpuWrite
<1>3. ASSUME NEW c \in Copies, NEW fits \in BOOLEAN, Transfer(c[1], c[2], fits)
      PROVE  IInv'
  <2>1. c[1] \in Pages /\ c[2] \in Pages
    BY TargetsAssumption
  <2>2. CASE OnGpu(At(Now, c[1][1]), At(Now, c[2][1]), fits)
    <3>1. TransferOnGpu(At(Now, c[1][1]), At(Now, c[2][1]), c[1], c[2])
      BY <1>3, <2>2, Zenon DEF Transfer
    <3> QED
      BY <1>0, <2>1, <2>2, <3>1, TransferOnGpuSound DEF IInv
  <2>3. CASE ~OnGpu(At(Now, c[1][1]), At(Now, c[2][1]), fits)
    <3>1. TransferByCpu(c[1], c[2])
      BY <1>3, <2>3, Zenon DEF Transfer
    <3> QED
      BY <1>0, <2>1, <3>1, TransferByCpuSound DEF IInv
  <2> QED
    BY <2>2, <2>3
<1>4. ASSUME NEW fba \in Addrs, TransferOut(fba)
      PROVE  IInv'
  <2> DEFINE g == Submit(Now)
             h == ReadbackAt(g, fba)
  <2> HIDE DEF g
  <2>1. Sound(h, spoiled)
    BY <1>s, ReadbackAtSound DEF g
  <2>2. Become(h) /\ UNCHANGED spoiled
    BY <1>4, Zenon DEF TransferOut, g
  <2> HIDE DEF h
  <2> QED
    BY <1>0, <2>1, <2>2, BecomeSound
<1>5. ASSUME NEW fba \in Addrs, LoadClut(fba)
      PROVE  IInv'
  <2> DEFINE g == Now
             h == ReadbackAt(g, fba)
  <2> HIDE DEF g
  <2>1. Sound(h, spoiled)
    BY <1>0, ReadbackAtSound DEF g
  <2>2. Become(h) /\ UNCHANGED spoiled
    BY <1>5, Zenon DEF LoadClut, g
  <2> HIDE DEF h
  <2> QED
    BY <1>0, <2>1, <2>2, BecomeSound
<1>6. ASSUME NEW fba \in Addrs, NEW p \in Parts, TransferIn(fba, p)
      PROVE  IInv'
  <2> DEFINE g == Submit(Now)
  <2>1. CpuWriteIn(g, fba, {p})
    BY <1>6 DEF TransferIn
  <2> HIDE DEF g
  <2> QED
    BY <1>0, <1>s, <2>1, CpuWriteInSound DEF IInv, g
<1>7. ASSUME NEW fba \in Addrs, NEW shape \in Shapes, Present(fba, shape)
      PROVE  IInv'
  <2> DEFINE s == Presented(fba, shape)
             g == Now
             h == SubmitIfOn(g, s)
  <2>2. Become(h) /\ UNCHANGED spoiled
    BY <1>7, Zenon DEF Present
  <2> HIDE DEF s, g
  <2>1. Sound(h, spoiled)
    BY <1>0, SubmitIfOnSound DEF g
  <2> HIDE DEF h
  <2> QED
    BY <1>0, <2>1, <2>2, BecomeSound
<1>8. CASE UNCHANGED vars
  BY <1>8, Zenon DEF vars, gpu, IInv, Now
<1> QED
  BY <1>1, <1>2, <1>3, <1>4, <1>5, <1>6, <1>7, <1>8 DEF Next

(* Between two calls of the game the invariant holds, for every instance.  *)
THEOREM GpuCachesAreSound == Spec => []IInv
<1>1. Init => IInv
  BY InitSound
<1>2. IInv /\ [Next]_vars => IInv'
  BY NextSound
<1> QED
  BY <1>1, <1>2, PTL DEF Spec

-----------------------------------------------------------------------------
(* What follows for every state.                                           *)

LEMMA SoundNow ==
    ASSUME IInv
    PROVE  /\ Now \in Books /\ OnePerAddress(Now) /\ DepthsAttached(Now)
           /\ CurrentAttached(Now) /\ BatchHasTarget(Now)
           /\ Newest(Now, spoiled) /\ Kept(Now, spoiled) /\ CleanCurrent(Now, spoiled)
           /\ SnapCurrent(Now) /\ spoiled \subseteq Pages
  BY DEF IInv, Sound

LEMMA PendingIs ==
    ASSUME NEW s, NEW p
    PROVE  Waits(Now, s, p) <=> Pending(s, p)
  BY NowFields DEF Waits, Pending

(* The type invariant; in particular no two targets have one address.      *)
THEOREM TypeCorrect == Spec => []TypeOK
<1>1. IInv => TypeOK
  <2> SUFFICES ASSUME IInv PROVE TypeOK
    OBVIOUS
  <2>1. /\ vram \in [Pages -> BOOLEAN] /\ tgt \in [Slots -> Target] /\ deps \in Seq(Depths)
        /\ cur \in Slots \cup {None}
        /\ pend \in [prims : 0 .. MAX_BATCH, parts : SUBSET Parts, sampled : SUBSET Images]
        /\ tmpl \in [tex : Textures, dset : Images \cup {None}] \cup {None}
        /\ snap \in [src : Slots \cup {None}, same : BOOLEAN]
    BY SoundNow, BooksParts, NowFields
  <2>2. \A s, t \in Slots : tgt[s].used /\ tgt[t].used /\ s # t => tgt[s].fba # tgt[t].fba
    BY SoundNow, NowFields DEF OnePerAddress
  <2>3. Len(deps) <= MAX_DEP /\ spoiled \subseteq Pages
    BY SoundNow, NowFields DEF DepthsAttached
  <2> QED
    BY <2>1, <2>2, <2>3 DEF TypeOK
<1> QED
  BY <1>1, GpuCachesAreSound, PTL

(* A valid image, with the batches that wait for it, is newest.            *)
THEOREM ImagesAreNewest == Spec => []ValidIsNewest
<1>1. IInv => ValidIsNewest
  BY SoundNow, PendingIs, NowFields DEF Newest, ValidIsNewest, Excused
<1> QED
  BY <1>1, GpuCachesAreSound, PTL

(* Evicting, reinterpreting, reading back and invalidating targets in any  *)
(* order loses no pixels, but for those a CPU write beside them discards.  *)
THEOREM NothingIsLost == Spec => []NewestKept
<1>1. IInv => NewestKept
  BY SoundNow, PendingIs, NowFields DEF Kept, NewestKept
<1> QED
  BY <1>1, GpuCachesAreSound, PTL

(* A target that counts as read back is what memory holds, and a snapshot  *)
(* that is used again is what its target shows.                            *)
THEOREM CopiesStayCurrent == Spec => []CopiesAreCurrent
<1>1. IInv => CopiesAreCurrent
  BY SoundNow, PendingIs, NowFields
     DEF CleanCurrent, SnapCurrent, CopiesAreCurrent, CleanIsCurrent, SnapshotIsCurrent, Excused
<1> QED
  BY <1>1, GpuCachesAreSound, PTL

(* Batches wait for a target that is still there, with its depth buffer.   *)
THEOREM BatchesCanBeDrawn == Spec => []PendingCanBeDrawn
<1>1. IInv => PendingCanBeDrawn
  <2> SUFFICES ASSUME IInv, pend.prims > 0
               PROVE  /\ cur # None /\ tgt[cur].used /\ tgt[cur].valid
                      /\ tgt[cur].dep \in DOMAIN deps /\ tgt[cur].fb = deps[tgt[cur].dep]
    BY DEF PendingCanBeDrawn
  <2>1. cur # None /\ tgt[cur].valid
    BY SoundNow, NowFields DEF BatchHasTarget
  <2>2. cur \in Slots
    BY <2>1, SoundNow, BooksParts, NowFields
  <2> QED
    BY <2>1, <2>2, SoundNow, NowFields DEF CurrentAttached, DepthsAttached
<1> QED
  BY <1>1, GpuCachesAreSound, PTL

(* Palette loads, block transfers and the display are given the newest     *)
(* pixels.                                                                 *)
THEOREM ReadersAreServed == Spec => []ReadersSeeNewest
<1>1. IInv => ReadersSeeNewest
  <2> SUFFICES ASSUME IInv, NEW fba \in Addrs
               PROVE  /\ \A p \in Parts : ReadbackAt(Now, fba).vram[<<fba, p>>] \/ <<fba, p>> \in spoiled
                      /\ \A shape \in Shapes, p \in Parts :
                            \/ <<fba, p>> \in spoiled
                            \/ IF Presented(fba, shape) # None
                               THEN SubmitIfOn(Now, At(Now, fba)).tgt[At(Now, fba)].fresh[p]
                               ELSE vram[<<fba, p>>] \/ (At(Now, fba) # None /\ tgt[At(Now, fba)].valid)
    BY Zenon DEF ReadersSeeNewest
  <2>1. Sound(Now, spoiled)
    BY DEF IInv
  <2>2. InMemory(ReadbackAt(Now, fba), spoiled, fba)
    BY <2>1, ReadbackAtSound
  <2> DEFINE s == At(Now, fba)
             d == SubmitIfOn(Now, s)
  <2>3. \/ s = None /\ \A u \in Slots : ~Holder(Now, fba, u)
        \/ s \in Slots /\ s # None /\ Holder(Now, fba, s)
    BY AtHolds
  <2>4. \A shape : Presented(fba, shape) # None => s # None /\ tgt[s].valid
    BY Zenon DEF Presented
  <2>5. Sound(d, spoiled) /\ SamePlaces(Now, d) /\ (s = cur => d.pend.parts = {}) /\ (s # cur => d = Now)
    BY <2>1, SubmitIfOnSound, NowFields
  <2> HIDE DEF s, d
  <2>6. ASSUME NEW p \in Parts, s # None, tgt[s].valid
        PROVE  d.tgt[s].fresh[p] \/ <<fba, p>> \in spoiled
    <3>1. s \in Slots /\ tgt[s].fba = fba
      BY <2>3, <2>6, NowFields DEF Holder
    <3>2. d.tgt[s].valid /\ d.tgt[s].fba = fba /\ d.cur = cur
      BY <2>5, <2>6, <3>1, NowFields DEF SamePlaces
    <3>3. ~Waits(d, s, p)
      BY <2>5, <3>2 DEF Waits
    <3> QED
      BY <2>5, <3>1, <3>2, <3>3, Zenon DEF Sound, Newest
  <2>7. ASSUME NEW p \in Parts, s = None \/ ~tgt[s].valid
        PROVE  vram[<<fba, p>>] \/ <<fba, p>> \in spoiled
    <3>1. \A u \in Slots : Now.tgt[u].valid => Now.tgt[u].fba # fba
      BY <2>3, <2>7, SoundNow, NowFields DEF Holder, OnePerAddress
    <3>2. InMemory(Now, spoiled, fba)
      BY <2>1, <3>1, InMemoryUnlessValid
    <3> QED
      BY <3>2, NowFields, Zenon DEF InMemory
  <2>8. ASSUME NEW shape \in Shapes, NEW p \in Parts
        PROVE  \/ <<fba, p>> \in spoiled
               \/ IF Presented(fba, shape) # None THEN d.tgt[s].fresh[p]
                  ELSE vram[<<fba, p>>] \/ (s # None /\ tgt[s].valid)
    BY <2>4, <2>6, <2>7, Zenon
  <2> QED
    BY <2>2, <2>8, Zenon DEF InMemory, d, s
<1> QED
  BY <1>1, GpuCachesAreSound, PTL
=============================================================================
