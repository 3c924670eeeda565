------------------------------- MODULE Texels -------------------------------
(***************************************************************************)
(* Where the texels of a texture are (ge.c 505-582, 616-646): the          *)
(* sampler of the software rasteriser, which turns a coordinate into a     *)
(* texel and a texel into bytes, and the decoder that hands a whole        *)
(* texture to the GPU, with its quick way for linear direct colours.       *)
(* Colours are left out: what is kept of a texel is its place.             *)
(***************************************************************************)
EXTENDS Integers, FiniteSets

CONSTANTS Textures   \* states of the texture registers

\* Bits of a texel per format: 5650, 5551, 4444, 8888, CLUT4, CLUT8.
TexelBits(fmt) == CASE fmt \in 0..2 -> 16 [] fmt = 3 -> 32 [] fmt = 4 -> 4 [] fmt = 5 -> 8

(* Texels from one row to the next: without a width of the buffer, as many *)
(* as the texture is wide.                                                 *)
Stride(t) == IF t.bufw = 0 THEN t.w ELSE t.bufw

(* The console has textures of at most 512 texels each way, a power of two *)
(* each, in rows of 16 bytes or a multiple.                                *)
ASSUME TextureAssumption ==
    /\ Textures \subseteq [fmt : 0..5, swizzle : BOOLEAN, bufw : Nat, w : {2 ^ k : k \in 0..9},
                           h : {2 ^ k : k \in 0..9}, clampU : BOOLEAN, clampV : BOOLEAN]
    /\ \A t \in Textures : (Stride(t) * TexelBits(t.fmt)) % 128 = 0 /\ t.w <= Stride(t)

(* Units of half a byte: the place of a CLUT4 texel is one of them.        *)
UnitsOf(fmt) == TexelBits(fmt) \div 4

VARIABLES texState      \* the texture being sampled
texVars == texState

TileX == 4     \* words in a row of a tile
TileY == 8     \* rows of a tile

\* variant: the tiles of a row follow those of the row above at once
TileRow(t, v) == (v \div TileY) * ((Stride(t) * TexelBits(t.fmt)) \div 32)

TileRowStart(t, v) == (v \div TileY) * (((Stride(t) * TexelBits(t.fmt)) \div 32) * TileY)

(* texel_offset, in bytes.                                                 *)
TexelOffset(t, u, v) ==
    LET bits == TexelBits(t.fmt)
        perWord == 32 \div bits
        word == (v % TileY) * TileX + TileRowStart(t, v)
                + ((u \div perWord) % TileX) + ((u \div perWord) \div TileX) * (TileX * TileY)
    IN IF ~t.swizzle THEN v * ((Stride(t) * bits) \div 8) + (u * bits) \div 8
       ELSE word * 4 + ((u % perWord) * bits) \div 8

(* The first unit of a texel: of a byte of CLUT4 the low half is the even  *)
(* texel.                                                                  *)
Place(t, u, v) == 2 * TexelOffset(t, u, v) + IF t.fmt = 4 THEN u % 2 ELSE 0

(* tex_coord.  For a size of two to the k, `& (size - 1)' is the remainder,*)
(* below zero too.                                                         *)
TexCoord(c, size, clamped) ==
    IF clamped THEN (IF c < 0 THEN 0 ELSE IF c >= size THEN size - 1 ELSE c)
    ELSE (c % size) % 512

(* sample_tex.                                                             *)
SampledAt(t, u, v) ==
    Place(t, TexCoord(u, t.w, t.clampU), TexCoord(v, t.h, t.clampV))

(* The four texels sample_tex_f mixes for a coordinate between c and c + 1.*)
Mixed4(t, u, v) == {SampledAt(t, u + i, v + j) : i, j \in {0, 1}}

(* ge_decode_tex_rgba: where the texel it stores for (u, v) is read.       *)
DecodedAt(t, u, v) ==
    IF ~t.swizzle /\ t.fmt <= 3
    THEN 2 * (v * Stride(t) * (IF t.fmt = 3 THEN 4 ELSE 2) + u * (IF t.fmt = 3 THEN 4 ELSE 2))
    ELSE SampledAt(t, u, v)

(* The registers before a list has set any.                                *)
NoTexture == [fmt |-> 0, swizzle |-> FALSE, bufw |-> 0, w |-> 0, h |-> 0, clampU |-> FALSE, clampV |-> FALSE]

TexelInit == texState = NoTexture

(* TEXFORMAT, TEXMODE, TEXBUFWIDTH0, TEXSIZE0, TEXWRAP: another texture.   *)
SetTexture(t) == texState' = t
TexelNext == /\ texState = NoTexture             \* bound: one change of texture
             /\ \E t \in Textures : SetTexture(t)

TexelSpec == TexelInit /\ [][TexelNext]_texVars

-----------------------------------------------------------------------------
(* The GPU's sampler, modelled from the modes ge_gpu.c creates it with:    *)
(* repeat, or clamp to the edge, over the texture it was given.            *)
GpuTexel(c, size, clamped) ==
    IF clamped THEN CHOOSE x \in 0..size - 1 : (x = c \/ (c < 0 /\ x = 0) \/ (c >= size /\ x = size - 1))
    ELSE CHOOSE x \in 0..size - 1 : (c - x) % size = 0

Around(size) == {-size - 1, -1, 0, 1, size \div 2, size - 1, size, 2 * size + 1}

(* Every texel has bytes of its own inside the texture's rows, swizzled or *)
(* not (a whole number of tiles high when swizzled), so none is lost or    *)
(* seen twice (ge.c 505-519).                                              *)
TexelsApart ==
    LET n    == UnitsOf(texState.fmt)
        rows == IF texState.swizzle THEN ((texState.h + TileY - 1) \div TileY) * TileY ELSE texState.h
        at   == {Place(texState, u, v) : u \in 0..texState.w - 1, v \in 0..texState.h - 1}
    IN /\ Cardinality(at) = texState.w * texState.h
       /\ \A p \in at : p % n = 0 /\ p \in 0..n * Stride(texState) * rows - n

(* The picture is the same from both back ends: whatever the coordinate,   *)
(* the software sampler reads the bytes the GPU's texel was decoded from,  *)
(* on the quick way too (ge.c 612-616 "through the exact sampler path").   *)
SameTexels ==
    \A u \in Around(texState.w), v \in Around(texState.h) :
        /\ SampledAt(texState, u, v) =
               DecodedAt(texState, GpuTexel(u, texState.w, texState.clampU), GpuTexel(v, texState.h, texState.clampV))
        /\ Mixed4(texState, u, v) =
               {DecodedAt(texState, GpuTexel(u + i, texState.w, texState.clampU),
                               GpuTexel(v + j, texState.h, texState.clampV)) : i, j \in {0, 1}}

(* A texture's layout and its sampling, once a list has set one.           *)
TexelsAsLaidOut == texState # NoTexture => TexelsApart /\ SameTexels
=============================================================================
