------------------------------- MODULE GeClip -------------------------------
(***************************************************************************)
(* Which primitives of transform mode are drawn (ge.c 1410-1529,           *)
(* 1854-2058): whole ones that leave the screen's grid or the depth range  *)
(* are dropped, those that cross the near plane z = -w are clipped to it,  *)
(* and only what is in front of the camera is projected.                   *)
(*                                                                         *)
(* A vertex is its clip-space depth and w, and whether it lands outside    *)
(* the grid; x, y and the attributes are left out.                         *)
(***************************************************************************)
EXTENDS Integers, Sequences, FiniteSets

CONSTANTS Depths, Ws,   \* clip-space z and w of the game's vertices
          EPSILON       \* NEAR_W is one EPSILON-th

ASSUME ClipAssumption == Depths \subseteq Int /\ Ws \subseteq Int /\ EPSILON \in Nat \ {0}

VARIABLES prim,      \* the vertices of the primitive
          depthClip, \* ge.depth_clip
          beyond,    \* the sides or ends whose created vertices leave the grid
          rasterised      \* the vertices projected, a sequence per triangle or line
clipVars == <<prim, depthClip, beyond, rasterised>>

(* Numbers are n / d with d > 0.                                           *)
Ratio(n, d) == IF d < 0 THEN [n |-> -n, d |-> -d] ELSE [n |-> n, d |-> d]
Whole1(n)   == [n |-> n, d |-> 1]
Above(x, y) == x.n * y.d > y.n * x.d

(* transform_vtx_clip.  A w of zero makes z/w infinite, or no number, which*)
(* no comparison holds for.                                                *)
CVtx(z, w, out) ==
    [z |-> Whole1(z), w |-> Whole1(w), at |-> Whole1(0),
     oor |-> out /\ (depthClip => z > -w),
     ozp |-> IF w = 0 THEN z > 0 ELSE Above(Ratio(z, w), Whole1(1)),
     ozn |-> IF w = 0 THEN z < 0 ELSE Above(Whole1(-1), Ratio(z, w))]

\* clip_d_nearz, up to the positive factor of the denominators
NearZ(v) == v.z.n * v.w.d + v.w.n * v.z.d
Behind(v) == NearZ(v) < 0

InFront(v) == EPSILON * v.w.n > v.w.d       \* cw > NEAR_W

(* clip_lerp_cvtx, between two of the game's vertices, at t = da/(da - db) *)
(* of the way from a to b; `at' is the place on the primitive's border,    *)
(* for the properties only.  A created vertex is checked again             *)
(* (clip_vtx_out_of_range), with any outcome.                              *)
Created(a, b, outside) ==
    LET da == NearZ(a)
        db == NearZ(b)
        d  == da - db
    IN [z |-> Ratio(a.z.n * d + (b.z.n - a.z.n) * da, d),
        w |-> Ratio(a.w.n * d + (b.w.n - a.w.n) * da, d),
        at |-> Ratio(a.at.n * d + da, d), oor |-> outside, ozp |-> FALSE, ozn |-> FALSE]

\* variant: the created vertex goes before the one that is kept
CreatedFirst(kept, made) == made \o kept
KeptFirst(kept, made) == kept \o made

(* clip_poly_near: what each side gives, in turn.  `outside' tells which of*)
(* the created vertices are out of range.                                  *)
FromSide(p, i, outside) ==
    LET A == p[i]
        B == p[(i % 3) + 1]
    IN KeptFirst(IF Behind(A) THEN <<>> ELSE <<A>>,
                 IF Behind(A) # Behind(B) THEN <<Created(A, B, i \in outside)>> ELSE <<>>)

Clipped(p, outside) == FromSide(p, 1, outside) \o FromSide(p, 2, outside) \o FromSide(p, 3, outside)

Count(p, Test(_)) == Cardinality({i \in 1..Len(p) : Test(p[i])})
Oor(v) == v.oor
Ozp(v) == v.ozp
Ozn(v) == v.ozn
WNegative(v) == v.w.n < 0

(* The decision of draw_prim on a triangle or line, and by the first line  *)
(* of each conjunct the reason it is dropped for.                          *)
Accepted(p) ==
    /\ Count(p, Oor) = 0
    /\ Count(p, WNegative) < Len(p)
    /\ depthClip \/ Count(p, Ozp) + Count(p, Ozn) = 0
    /\ Count(p, Ozp) < Len(p) /\ Count(p, Ozn) < Len(p)
    /\ Count(p, Behind) < Len(p)

Bad(v) == ~InFront(v) \/ v.oor

(* The triangles drawn of an accepted one: itself, or of the fan of what   *)
(* the clip leaves, three corners or four, those that can be projected.    *)
IfWhole(t) == IF \A i \in 1..3 : ~Bad(t[i]) THEN <<t>> ELSE <<>>

Triangles(p, outside) ==
    IF Count(p, Behind) = 0
    THEN IF \A i \in 1..3 : InFront(p[i]) THEN <<p>> ELSE <<>>
    ELSE LET c == Clipped(p, outside)
         IN IfWhole(<<c[1], c[2], c[3]>>)
            \o (IF Len(c) > 3 THEN IfWhole(<<c[1], c[3], c[4]>>) ELSE <<>>)

(* The line drawn: an end behind the plane is moved to it.                 *)
Line(p, outside) ==
    LET a == IF Behind(p[1]) THEN Created(p[1], p[2], 1 \in outside) ELSE p[1]
        b == IF Behind(p[2]) THEN Created(p[2], p[1], 2 \in outside) ELSE p[2]
    IN IF Bad(a) \/ Bad(b) THEN <<>> ELSE <<<<a, b>>>>

(* transform_vtx_3d: a point is drawn or not, and so is each corner of a   *)
(* sprite.                                                                 *)
Alone(v) == InFront(v) /\ ~v.oor /\ (depthClip \/ ~(v.ozp \/ v.ozn))
Corners2(p) == IF \A i \in 1..Len(p) : Alone(p[i]) THEN <<p>> ELSE <<>>

ClipInit == prim = <<>> /\ depthClip = FALSE /\ beyond = {} /\ rasterised = <<>>

(* CLIPENABLE.                                                             *)
ClipEnable == prim = <<>> /\ ~depthClip /\ depthClip' = TRUE /\ UNCHANGED <<prim, beyond, rasterised>>

Placed(p) == [i \in 1..Len(p) |-> [p[i] EXCEPT !.at = Whole1(i)]]

GameVertices == {CVtx(z, w, FALSE) : z \in Depths, w \in Ws}

(* A PRIM of one primitive, one of whose vertices may be outside the grid. *)
DrawTriangle(p, outside) ==
    /\ prim = <<>>
    /\ prim' = Placed(p) /\ beyond' = outside
    /\ rasterised' = IF Accepted(prim') THEN Triangles(prim', outside) ELSE <<>>
    /\ UNCHANGED depthClip
DrawLine(p, outside) ==
    /\ prim = <<>>
    /\ prim' = Placed(p) /\ beyond' = outside
    /\ rasterised' = IF Accepted(prim') THEN Line(prim', outside) ELSE <<>>
    /\ UNCHANGED depthClip
DrawCorners(p) ==
    /\ prim = <<>>
    /\ prim' = Placed(p)
    /\ rasterised' = Corners2(prim')
    /\ UNCHANGED <<depthClip, beyond>>

ClipNext ==
    \/ ClipEnable
    \/ \E a, b, c \in GameVertices, out \in 0..3, outside \in {{}, {1}, {2, 3}} :
           LET p == <<a, b, c>>
           IN DrawTriangle(IF out = 0 THEN p
                           ELSE [p EXCEPT ![out] = CVtx(p[out].z.n, p[out].w.n, TRUE)], outside)
    \/ \E a, b \in GameVertices, outside \in {{}, {1}, {2}} : DrawLine(<<a, b>>, outside)
    \/ \E a, b \in GameVertices : DrawCorners(<<a>>) \/ DrawCorners(<<a, b>>)

ClipSpec == ClipInit /\ [][ClipNext]_clipVars

-----------------------------------------------------------------------------
(* The border of what is left of a triangle in front of the near plane, as *)
(* places in order: a corner that is not behind it, and wherever a side    *)
(* crosses it.                                                             *)
Crossed(p) == {i \in 1..3 : Behind(p[i]) # Behind(p[(i % 3) + 1])}

Border(p) ==
    {[n |-> i, d |-> 1] : i \in {k \in 1..3 : ~Behind(p[k])}}
    \cup {LET da == NearZ(p[i])
              db == NearZ(p[(i % 3) + 1])
          IN Ratio(i * (da - db) + da, da - db) : i \in Crossed(p)}

(* Whether all of that border can be projected: w is large enough at its   *)
(* corners and where it crosses, the mean of the two ends' by their        *)
(* distances to the plane, and no crossing leaves the grid.                *)
WAcross(a, b) == Ratio(b.w.n * NearZ(a) - a.w.n * NearZ(b), NearZ(a) - NearZ(b))
CanBeProjected(p) ==
    /\ \A i \in 1..3 : ~Behind(p[i]) => InFront(p[i])
    /\ \A i \in Crossed(p) : LET w == WAcross(p[i], p[(i % 3) + 1])
                             IN i \notin beyond /\ EPSILON * w.n > w.d

(* Only vertices in front of the camera are projected: the division by w   *)
(* never meets a w of zero or below.  What is drawn of a triangle is what  *)
(* it has in front of the near plane: every vertex is a corner or crossing *)
(* of its border, and the triangles of the fan follow the border round, so *)
(* that they face as the triangle does; and nothing is left out of one     *)
(* whose border can be projected (ge.c 1497-1529, 1920-2035).              *)
DrawnOnes ==
    \A k \in 1..Len(rasterised) : \A i \in 1..Len(rasterised[k]) : InFront(rasterised[k][i])

OfTheBorder(t) ==
    /\ \A i \in 1..3 : /\ ~Behind(t[i])
                       /\ \E x \in Border(prim) : ~Above(x, t[i].at) /\ ~Above(t[i].at, x)
    /\ ~Above(t[1].at, t[2].at) /\ ~Above(t[2].at, t[3].at)

DrawsWhatIsInFront ==
    /\ DrawnOnes
    /\ Len(prim) = 3 =>
        /\ \A k \in 1..Len(rasterised) : Len(rasterised[k]) = 3 /\ OfTheBorder(rasterised[k])
        /\ Accepted(prim) /\ CanBeProjected(prim) => Len(rasterised) >= Cardinality(Border(prim)) - 2
=============================================================================
