----------------------------- MODULE MCGraphics -----------------------------
(***************************************************************************)
(* What a game's pictures go through, each part on its own: the display    *)
(* list, the vertices it names, the triangles and lines they become, the   *)
(* pixels of those, the textures, decoded and cached, and the ring a movie *)
(* is read through.  A behaviour has one of them at work, chosen at the    *)
(* start, and the others idle.                                             *)
(***************************************************************************)
EXTENDS GeList, VertexFormat, GeClip, GeMesh, PixelPipe, Texels, TexCache, MpegRing

VARIABLE part

MCMatrixSize == [m \in {"world", "proj"} |-> IF m = "world" THEN 3 ELSE 4]
MCNumberMask == [m \in {"world", "proj"} |-> 5]

MCVertexTypes ==
    [wt : 0..3, wc : {0, 2}, tc : 0..3, col : {0, 4, 7}, nrm : {0, 1, 3},
     pos : 0..3, through : BOOLEAN, idx : {0, 1, 3}]

MCDepths  == {-2, 0, 1}
MCWs      == {-1, 1, 2}
MCCorners == ({0, 1, 5} \X {0, 3, 4}) \ {<<0, 3>>, <<5, 0>>}
MCScissor == [x1 |-> 0, y1 |-> 0, x2 |-> 2, y2 |-> 2]

MCTextures ==
    {t \in [fmt : 0..5, swizzle : BOOLEAN, bufw : {0, 8, 16, 32}, w : {1, 8, 16},
            h : {1, 4, 8, 16}, clampU : BOOLEAN, clampV : BOOLEAN] :
        (Stride(t) * TexelBits(t.fmt)) % 128 = 0 /\ t.w <= Stride(t)}

-----------------------------------------------------------------------------
(* Pixel settings: blending with dither and masks, the tests, clear mode.  *)
PlainRegs ==
    [clear |-> FALSE, clearColor |-> FALSE, clearAlpha |-> FALSE, clearDepth |-> FALSE,
     atest |-> -1, ref |-> 128, fog |-> 256, fogColor |-> 80, ztest |-> -1, zwrite |-> TRUE,
     minz |-> 0, maxz |-> 2, blend |-> FALSE, eq |-> 0, sf |-> 0, df |-> 0, fixa |-> 100,
     fixb |-> 200, dither |-> 0, mask |-> 0, maskAlpha |-> 0]

BlendRegs ==
    {[PlainRegs EXCEPT !.blend = TRUE, !.eq = e, !.sf = s, !.df = x, !.dither = q,
                       !.mask = m, !.maskAlpha = m - (m % 8), !.fog = (q + 8) * 10] :
        e \in 0..5, s \in {0, 2, 6}, x \in {1, 3, 10}, q \in {-8, 7}, m \in {0, 4, 8}}

TestRegs ==
    {[PlainRegs EXCEPT !.atest = p[1], !.ztest = p[2], !.zwrite = r, !.minz = s] :
        p \in {x \in (-1..7) \X (-1..7) : x[1] = -1 \/ x[2] = -1}, r \in BOOLEAN, s \in {0, 2}}

ClearRegs ==
    {[PlainRegs EXCEPT !.clear = TRUE, !.clearColor = p, !.clearAlpha = q,
                       !.clearDepth = r, !.minz = s, !.ztest = e, !.zwrite = w] :
        p, q, r, w \in BOOLEAN, s \in {0, 2}, e \in {-1, 5, 6}}

MCPixelRegs == BlendRegs \cup TestRegs \cup ClearRegs

MCTextured ==
    {[func |-> f[1], rgba |-> f[2], dbl |-> f[3], vc |-> x[1], va |-> x[2], tc |-> x[3],
      ta |-> x[4], env |-> 255, z |-> 2, persp |-> TRUE, by |-> "triangle", place |-> "in"] :
        f \in {<<"modulate", TRUE, TRUE>>, <<"modulate", FALSE, FALSE>>, <<"decal", TRUE, FALSE>>,
               <<"blend", TRUE, FALSE>>, <<"replace", TRUE, FALSE>>, <<"add", TRUE, TRUE>>},
        x \in {<<255, 255, 255, 128>>, <<0, 128, 255, 255>>, <<128, 0, 200, 255>>}}

MCUntextured ==
    {[func |-> "none", rgba |-> TRUE, dbl |-> FALSE, vc |-> 130, va |-> 255, tc |-> 0,
      ta |-> 0, env |-> 0, z |-> z, persp |-> p, by |-> b, place |-> w] :
        z \in 0..2, p \in BOOLEAN, b \in {"triangle", "line", "sprite"},
        w \in {"in", "scissored", "outside"}}

MCFragments    == MCTextured \cup MCUntextured
MCPixelFormats == {<<5, 0>>, <<6, 0>>, <<5, 1>>, <<4, 4>>, <<8, 8>>}

-----------------------------------------------------------------------------
GraphicsInit ==
    /\ part \in {"list", "vertices", "clipping", "mesh", "pixels", "texels", "cache", "movie"}
    /\ ListInit /\ VertexInit /\ ClipInit /\ MeshInit /\ PixelInit /\ TexelInit /\ TexCacheInit
    /\ MpegInit

ListRuns      == part = "list"     /\ ListNext     /\ UNCHANGED <<part, vtxVars, clipVars, meshVars, pixVars, texVars, cacheVars, mpegVars>>
VerticesRead  == part = "vertices" /\ VertexNext   /\ UNCHANGED <<part, listVars, clipVars, meshVars, pixVars, texVars, cacheVars, mpegVars>>
Clipping      == part = "clipping" /\ ClipNext     /\ UNCHANGED <<part, listVars, vtxVars, meshVars, pixVars, texVars, cacheVars, mpegVars>>
MeshDrawn     == part = "mesh"     /\ MeshNext     /\ UNCHANGED <<part, listVars, vtxVars, clipVars, pixVars, texVars, cacheVars, mpegVars>>
PixelsWritten == part = "pixels"   /\ PixelNext    /\ UNCHANGED <<part, listVars, vtxVars, clipVars, meshVars, texVars, cacheVars, mpegVars>>
TexelsSampled == part = "texels"   /\ TexelNext    /\ UNCHANGED <<part, listVars, vtxVars, clipVars, meshVars, pixVars, cacheVars, mpegVars>>
CacheUsed     == part = "cache"    /\ TexCacheNext /\ UNCHANGED <<part, listVars, vtxVars, clipVars, meshVars, pixVars, texVars, mpegVars>>
MovieFed      == part = "movie"    /\ MpegNext     /\ UNCHANGED <<part, listVars, vtxVars, clipVars, meshVars, pixVars, texVars, cacheVars>>

GraphicsNext ==
    \/ ListRuns \/ VerticesRead \/ Clipping \/ MeshDrawn
    \/ PixelsWritten \/ TexelsSampled \/ CacheUsed \/ MovieFed

GraphicsSpec ==
    GraphicsInit
        /\ [][GraphicsNext]_<<part, listVars, vtxVars, clipVars, meshVars, pixVars, texVars,
                              cacheVars, mpegVars>>
=============================================================================
