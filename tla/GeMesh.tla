------------------------------- MODULE GeMesh -------------------------------
(***************************************************************************)
(* How draw_prim makes triangles of a list, strip or fan of vertices, and  *)
(* raster_tri decides which are seen and which pixels each covers (ge.c    *)
(* 945-1029, 1701-1718, 1920-1940).  Attributes and colours are left out,  *)
(* and so is clear mode, in which nothing is culled.                       *)
(* Vertices are on the grid raster_tri snaps them to, SUB to a pixel.      *)
(***************************************************************************)
EXTENDS Integers, Sequences, FiniteSets

CONSTANTS SUB,       \* grid units in a pixel (16)
          Corners,   \* grid points the vertices are at
          Scissor    \* the pixels drawing is cut to: [x1, y1, x2, y2]

ASSUME MeshAssumption ==
    /\ SUB \in Nat \ {0} /\ SUB % 2 = 0
    /\ Corners \subseteq Int \X Int
    /\ {Scissor.x1, Scissor.y1, Scissor.x2, Scissor.y2} \subseteq Nat

VARIABLES primKind,    \* of the PRIM: "none" before it, "list", "strip" or "fan"
          cull,    \* ge.cull, -1 when culling is off
          verts,   \* the vertices submitted
          hits     \* per pixel, how many triangles covered it
meshVars == <<primKind, cull, verts, hits>>

Pixels == (Scissor.x1..Scissor.x2) \X (Scissor.y1..Scissor.y2)
Centre(p) == <<p[1] * SUB + SUB \div 2, p[2] * SUB + SUB \div 2>>

\* Twice the area of abc: positive when it turns clockwise on a screen whose y goes down.
Cross(a, b, c) == (b[1] - a[1]) * (c[2] - a[2]) - (c[1] - a[1]) * (b[2] - a[2])

\* variant: every edge keeps the centres that are on it
AnyEdge(a, b) == TRUE

\* The bias of raster_tri: a centre on an edge belongs to it on top and left edges only.
TopLeft(a, b) == b[2] < a[2] \/ (b[2] = a[2] /\ b[1] > a[1])

OnOrIn(a, b, q) == Cross(a, b, q) > 0 \/ (Cross(a, b, q) = 0 /\ TopLeft(a, b))

Least3(x, y, z)    == CHOOSE m \in {x, y, z} : \A n \in {x, y, z} : m <= n
Greatest3(x, y, z) == CHOOSE m \in {x, y, z} : \A n \in {x, y, z} : m >= n

\* The pixels between the floor and the ceiling of the corners' coordinates.
InBox(a, b, c, p) ==
    \A k \in {1, 2} :
        /\ p[k] >= Least3(a[k], b[k], c[k]) \div SUB
        /\ p[k] <= -((-Greatest3(a[k], b[k], c[k])) \div SUB)

(* raster_tri: the pixels it draws of triangle abc, which it turns round   *)
(* when its area is negative.                                              *)
Covered(a, b, c) ==
    LET seen == cull = -1 \/ Cross(a, b, c) > 0
        y == IF Cross(a, b, c) < 0 THEN c ELSE b
        z == IF Cross(a, b, c) < 0 THEN b ELSE c
    IN IF Cross(a, b, c) = 0 \/ ~seen THEN {}
       ELSE {p \in Pixels : /\ InBox(a, b, c, p)
                            /\ OnOrIn(a, y, Centre(p)) /\ OnOrIn(y, z, Centre(p))
                            /\ OnOrIn(z, a, Centre(p))}

\* variant: the triangles of a strip are not turned in turn
FlipByModeOnly(i) == cull = 0

Flip(i) == (cull = 0) # (primKind = "strip" /\ i % 2 = 1)

(* The triangle vertex i completes (vertices are counted from 0), in the   *)
(* order it is submitted in: draw_prim turns it round for the culling mode *)
(* and for every other triangle of a strip.                                *)
Completes(i) == IF primKind = "list" THEN i % 3 = 2 ELSE i >= 2
Triangle(vs, i) ==
    LET a == IF primKind = "fan" THEN vs[1] ELSE vs[i - 1]
        b == vs[i]
        c == vs[i + 1]
    IN IF cull # -1 /\ Flip(i) THEN <<b, a, c>> ELSE <<a, b, c>>

MeshInit == primKind = "none" /\ cull = -1 /\ verts = <<>> /\ hits = [p \in Pixels |-> 0]

(* CULL and CULLFACEENABLE, and the type of the PRIM.                      *)
SetPrim(k, c) ==
    /\ primKind = "none"
    /\ primKind' = k /\ cull' = c
    /\ UNCHANGED <<verts, hits>>

(* A turn of draw_prim's loop.  A list repeats two vertices of its first   *)
(* triangle in its second, as the game would for two that share an edge.   *)
Vertex(v) ==
    /\ primKind # "none"
    /\ Len(verts) < IF primKind = "list" THEN 6 ELSE 4      \* bound: two triangles
    /\ primKind = "list" /\ Len(verts) = 3 => v = verts[3]
    /\ primKind = "list" /\ Len(verts) = 4 => v = verts[2]
    /\ verts' = Append(verts, v)
    /\ LET i == Len(verts)
       IN hits' = IF ~Completes(i) THEN hits
                  ELSE LET t == Triangle(verts', i)
                           C == Covered(t[1], t[2], t[3])
                       IN [p \in Pixels |-> hits[p] + IF p \in C THEN 1 ELSE 0]
    /\ UNCHANGED <<primKind, cull>>

MeshNext ==
    \/ \E k \in {"list", "strip", "fan"}, c \in {-1, 0, 1} : SetPrim(k, c)
    \/ \E v \in Corners : Vertex(v)

MeshSpec == MeshInit /\ [][MeshNext]_meshVars

-----------------------------------------------------------------------------
(* What the pixels should be, from the mesh alone.                         *)

\* The last vertex and the first stand across the edge the two triangles share.
Mesh == IF primKind = "list" /\ Len(verts) = 6
        THEN [first |-> verts[1], edge |-> <<verts[2], verts[3]>>, last |-> verts[6]]
        ELSE IF primKind = "strip" THEN [first |-> verts[1], edge |-> <<verts[2], verts[3]>>, last |-> verts[4]]
        ELSE [first |-> verts[2], edge |-> <<verts[3], verts[1]>>, last |-> verts[4]]
Whole == Len(verts) = IF primKind = "list" THEN 6 ELSE 4

\* Both triangles have an area, and lie on either side of their edge.
Side == Cross(Mesh.edge[1], Mesh.edge[2], Mesh.first)
Flat == Side # 0 /\ Side * Cross(Mesh.edge[1], Mesh.edge[2], Mesh.last) < 0

Shown == cull = -1 \/ (cull = 1 /\ Side > 0) \/ (cull = 0 /\ Side < 0)

Inside(a, b, c, q) ==
    /\ Cross(a, b, q) * Cross(a, b, c) > 0
    /\ Cross(b, c, q) * Cross(a, b, c) > 0
    /\ Cross(c, a, q) * Cross(a, b, c) > 0
Within(a, b, c, q) ==
    /\ Cross(a, b, q) * Cross(a, b, c) >= 0
    /\ Cross(b, c, q) * Cross(a, b, c) >= 0
    /\ Cross(c, a, q) * Cross(a, b, c) >= 0
Between(a, b, q) ==
    /\ Cross(a, b, q) = 0
    /\ (a[1] - q[1]) * (b[1] - q[1]) + (a[2] - q[2]) * (b[2] - q[2]) < 0

(* Two triangles with an edge in common are drawn as one surface, whichever*)
(* way the game submits them: both or, when they face away, neither; no    *)
(* pixel twice; no pixel of the surface's inside left out, those on the    *)
(* common edge included; and none off it (ge.c 971-975, "Integer edges     *)
(* give each edge pixel to exactly one triangle", and 1930-1936).          *)
OneSurface ==
    primKind # "none" /\ Whole /\ Flat =>
        LET a == Mesh.edge[1]
            b == Mesh.edge[2]
        IN \A p \in Pixels :
               LET q == Centre(p)
               IN /\ hits[p] <= IF Shown THEN 1 ELSE 0
                  /\ Shown /\ (Inside(a, b, Mesh.first, q) \/ Inside(a, b, Mesh.last, q)
                               \/ Between(a, b, q)) => hits[p] = 1
                  /\ ~Within(a, b, Mesh.first, q) /\ ~Within(a, b, Mesh.last, q) => hits[p] = 0
=============================================================================
