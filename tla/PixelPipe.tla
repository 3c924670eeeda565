----------------------------- MODULE PixelPipe ------------------------------
(***************************************************************************)
(* What the software rasteriser does with one pixel (ge.c 104-181,         *)
(* 328-336, 648-830, 832-945): the fragment's colour, the alpha, depth     *)
(* range and depth tests, blending, dithering and masks, and the word in   *)
(* the framebuffer.  Red, green and blue are treated alike: a colour is    *)
(* one of them and alpha, each 8 bits wide on its way and as wide as its   *)
(* format in memory.                                                       *)
(***************************************************************************)
EXTENDS Integers

CONSTANTS
    PixelFormats,   \* <<bits of a colour, bits of alpha>>
    Fragments,      \* what may be drawn: vertex and texel colours
    PixelRegs,      \* values of the registers a fragment meets
    PixelWords,     \* what a pixel may hold, as parts of 8 of its largest value
    DepthFar        \* depths are 0..DepthFar (0xFFFF)

Byte == 0..255
Funcs == 0..7

\* mask: the upper bits that are kept, 0 for none and 8 for all
PixelReg ==
    [clear : BOOLEAN, clearColor : BOOLEAN, clearAlpha : BOOLEAN, clearDepth : BOOLEAN,
     atest : Funcs \cup {-1}, ref : Byte, fog : 0..256, fogColor : Byte,
     ztest : Funcs \cup {-1}, zwrite : BOOLEAN, minz : 0..DepthFar, maxz : 0..DepthFar,
     blend : BOOLEAN, eq : Funcs, sf : 0..15, df : 0..15, fixa : Byte, fixb : Byte,
     dither : -8..7, mask : 0..8, maskAlpha : 0..8]

ASSUME PixelAssumption ==
    /\ PixelFormats \subseteq {<<5, 0>>, <<6, 0>>, <<5, 1>>, <<4, 4>>, <<8, 8>>}
    /\ PixelRegs \subseteq PixelReg
    /\ Fragments \subseteq [func : {"none", "modulate", "decal", "blend", "replace", "add"},
                            rgba : BOOLEAN, dbl : BOOLEAN, vc : Byte, va : Byte, tc : Byte,
                            ta : Byte, env : Byte, z : 0..DepthFar, persp : BOOLEAN,
                            by : {"triangle", "line", "sprite"},
                            place : {"in", "scissored", "outside"}]
    /\ PixelWords \subseteq 0..8
    \* "line" stands for points too

VARIABLES
    format,       \* ge.fbfmt
    pixelWord,    \* the pixel in the framebuffer
    depth,        \* its entry of s_zbuf
    was           \* for the properties only: what was there before the last fragment,
                  \* and what of it the registers said to keep
pixVars == <<format, pixelWord, depth, was>>

CBits == format[1]
ABits == format[2]

Clamp8(v) == IF v < 0 THEN 0 ELSE IF v > 255 THEN 255 ELSE v

(* unpack_color and pack_fb, for one channel of so many bits.              *)
Unpack(bits, v) ==
    CASE bits = 0 -> 255 [] bits = 1 -> 255 * v [] bits = 4 -> 17 * v
      [] bits \in {5, 6} -> (v * 255) \div (2 ^ bits - 1) [] bits = 8 -> v
Pack(bits, v) ==
    CASE bits = 0 -> 0 [] bits = 1 -> v \div 128 [] OTHER -> (v % 256) \div 2 ^ (8 - bits)

Compare(func, x, y) ==
    CASE func = 0 -> FALSE  [] func \in {-1, 1} -> TRUE
      [] func = 2 -> x = y  [] func = 3 -> x # y [] func = 4 -> x < y
      [] func = 5 -> x <= y [] func = 6 -> x > y [] func = 7 -> x >= y

-----------------------------------------------------------------------------
(* shade: the fragment's colour from vertex and texel, then fog.           *)

Twice(f, v) == IF f.dbl THEN 2 * v ELSE v

Textured(f) ==
    CASE f.func = "none"     -> f.vc
      [] f.func = "modulate" -> ((f.vc + 1) * Twice(f, f.tc)) \div 256
      [] f.func = "decal" /\ f.rgba  ->
             ((f.vc + 1) * (255 - f.ta) + (f.tc + 1) * f.ta) \div (IF f.dbl THEN 128 ELSE 256)
      [] f.func = "decal" /\ ~f.rgba -> Twice(f, f.tc)
      [] f.func = "blend"    ->
             ((255 - f.tc) * f.vc + f.tc * f.env + 255) \div (IF f.dbl THEN 128 ELSE 256)
      [] f.func = "replace"  -> Twice(f, f.tc)
      [] f.func = "add"      -> Twice(f, f.vc + f.tc)

TexturedAlpha(f) ==
    CASE f.func \in {"none", "decal"} \/ ~f.rgba -> f.va
      [] f.func = "replace" -> f.ta
      [] OTHER -> ((f.va + 1) * f.ta) \div 256

Fogged(d, c) == IF d.fog < 256 THEN d.fogColor + (((c - d.fogColor) * d.fog) \div 256) ELSE c

ShadedColor(f, d) ==
    IF d.clear THEN f.vc ELSE Fogged(d, Clamp8(Textured(f)))
ShadedAlpha(f, d) == IF d.clear THEN f.va ELSE Clamp8(TexturedAlpha(f))

AlphaTest(f, d) == d.clear \/ Compare(d.atest, ShadedAlpha(f, d), d.ref)

-----------------------------------------------------------------------------
(* put_px_rgba: what is written over dc and da.                            *)

\* factor_component: `other' is the colour of the other side.
FactorOf(f, other, sa, da, fixed) ==
    CASE f = 0 -> other           [] f = 1 -> 255 - other
      [] f = 2 -> sa              [] f = 3 -> 255 - sa
      [] f = 4 -> da              [] f = 5 -> 255 - da
      [] f = 6 -> Clamp8(2 * sa)  [] f = 7 -> Clamp8(255 - 2 * sa)
      [] f = 8 -> Clamp8(2 * da)  [] f = 9 -> Clamp8(255 - 2 * da)
      [] OTHER -> fixed

Apart(a, b) == IF a < b THEN b - a ELSE a - b

\* blend_chan
BlendChan(s, d, sf, df, eq) ==
    LET sv == (s * sf) \div 255
        dv == (d * df) \div 255
    IN CASE eq = 1 -> Clamp8(sv - dv) [] eq = 2 -> Clamp8(dv - sv)
         [] eq = 3 -> IF sv < dv THEN sv ELSE dv
         [] eq = 4 -> IF sv > dv THEN sv ELSE dv
         [] eq = 5 -> Apart(sv, dv)
         [] OTHER -> Clamp8(sv + dv)

Blended(d, c, a, dc, da) ==
    IF ~d.blend THEN c
    ELSE BlendChan(c, dc, FactorOf(d.sf, dc, a, da, d.fixa), FactorOf(d.df, c, a, da, d.fixb), d.eq)
BlendedAlpha(d, a, da) == IF d.blend THEN Clamp8(a + da) ELSE a

Dithered(d, c) == IF CBits = 8 THEN c ELSE Clamp8(c + d.dither)

\* The upper m bits of what was there.
Masked(m, new, old) == LET k == 2 ^ (8 - m) IN (new % k) + (old - (old % k))

\* variant: dithered after the mask
DitheredLast(d, c, a, dc, da) == Dithered(d, Masked(d.mask, Blended(d, c, a, dc, da), dc))

Composed(d, c, a, dc, da) == Masked(d.mask, Dithered(d, Blended(d, c, a, dc, da)), dc)

WrittenColor(d, c, a, dc, da) ==
    IF d.clear THEN (IF d.clearColor THEN c ELSE dc) ELSE Composed(d, c, a, dc, da)
WrittenAlpha(d, a, da) ==
    IF d.clear THEN (IF d.clearAlpha THEN a ELSE da)
    ELSE Masked(d.maskAlpha, BlendedAlpha(d, a, da), da)

PutPx(f, d) ==
    LET c  == ShadedColor(f, d)
        a  == ShadedAlpha(f, d)
        dc == Unpack(CBits, pixelWord.c)
        da == Unpack(ABits, pixelWord.a)
    IN IF f.place # "in" \/ (d.clear /\ ~d.clearColor /\ ~d.clearAlpha) THEN pixelWord
       ELSE [c |-> Pack(CBits, WrittenColor(d, c, a, dc, da)), a |-> Pack(ABits, WrittenAlpha(d, a, da))]

-----------------------------------------------------------------------------
(* Depth.                                                                  *)

ZRangeOk(f, d) == ~f.persp \/ (d.minz <= f.z /\ f.z <= d.maxz)

\* In through mode the list must have enabled the test (thru_ztest).
ZTest(f, d) == f.place # "outside" /\ Compare(d.ztest, f.z, depth)

\* ztest_px and put_px_rgba_z: the test writes the depth before the scissor is looked at.
DepthAfter(f, d) ==
    IF d.ztest # -1 /\ d.zwrite /\ ZTest(f, d) THEN f.z ELSE depth

\* Bounds of a triangle are cut to the scissor; lines, points and sprites are not.
Reaches(f) == f.by = "triangle" => f.place = "in"

\* Clear mode bypasses the tests for triangles and sprites only.
Clears(f, d) == d.clear /\ f.by # "line"

PixelInit ==
    /\ format = <<8, 8>>
    /\ pixelWord = [c |-> 0, a |-> 0]
    /\ depth = 0
    /\ was = [word |-> [c |-> 0, a |-> 0], depth |-> 0, place |-> "in", drawn |-> FALSE,
              keepC |-> 0, keepA |-> 0,
              keepZ |-> FALSE]

(* FRAMEBUFPIXFORMAT, and a pixel some earlier drawing left.               *)
SetPixel(fm, v) ==
    /\ ~was.drawn /\ was.word.c = 0
    /\ format' = fm
    /\ pixelWord' = [c |-> ((2 ^ fm[1] - 1) * v) \div 8, a |-> ((2 ^ fm[2] - 1) * (8 - v)) \div 8]
    /\ depth' = DepthFar \div 2
    /\ was' = [was EXCEPT !.word = pixelWord', !.depth = depth']

Settled(f, d, dropped) ==
    [word |-> pixelWord, depth |-> depth, place |-> f.place, drawn |-> TRUE,
     keepC |-> IF dropped \/ f.place # "in" \/ (d.clear /\ ~d.clearColor) THEN 8
               ELSE IF d.clear THEN 0 ELSE d.mask,
     keepA |-> IF dropped \/ f.place # "in" \/ (d.clear /\ ~d.clearAlpha) THEN 8
               ELSE IF d.clear THEN 0 ELSE d.maskAlpha,
     keepZ |-> dropped \/ f.place = "outside" \/ IF Clears(f, d) THEN ~d.clearDepth
                                                 ELSE ~d.zwrite \/ d.ztest = -1]

(* A fragment: a pixel of raster_tri, draw_line_vtx, draw_point_vtx or     *)
(* fill_sprite.  Lines and points come here in clear mode too: they are    *)
(* tested, and write depth, as if they were not clearing.                  *)
DrawPixel(f, d) ==
    /\ ~Clears(f, d) /\ Reaches(f)
    /\ ~was.drawn                 \* bound: one fragment
    /\ LET dropped == ~ZRangeOk(f, d) \/ ~AlphaTest(f, d) \/ ~ZTest(f, d)
       IN /\ pixelWord' = IF dropped THEN pixelWord ELSE PutPx(f, d)
          /\ depth' = IF ~ZRangeOk(f, d) \/ ~AlphaTest(f, d) THEN depth ELSE DepthAfter(f, d)
          /\ was' = Settled(f, d, dropped)
    /\ UNCHANGED format

(* A pixel of a clear, which neither tests nor blends: of a triangle, in   *)
(* put_px_rgba of a sprite, or in fill_rect_clear_fast when both colour    *)
(* and alpha are cleared.  The depth of a sprite is cleared beyond the     *)
(* scissor; what it writes off the screen is left out.                     *)
Clear(f, d) ==
    /\ Clears(f, d) /\ Reaches(f)
    /\ ~was.drawn                 \* bound: one fragment
    /\ pixelWord' = IF f.by = "triangle" /\ ~ZRangeOk(f, d) THEN pixelWord ELSE PutPx(f, d)
    /\ depth' = IF d.clearDepth /\ f.place # "outside" /\ (f.by = "triangle" => ZRangeOk(f, d))
                THEN f.z ELSE depth
    /\ was' = Settled(f, d, f.by = "triangle" /\ ~ZRangeOk(f, d))
    /\ UNCHANGED format

PixelNext ==
    \/ \E fm \in PixelFormats, v \in PixelWords : SetPixel(fm, v)
    \/ \E f \in Fragments, d \in PixelRegs : DrawPixel(f, d) \/ Clear(f, d)

PixelSpec == PixelInit /\ [][PixelNext]_pixVars

-----------------------------------------------------------------------------
(* The upper n of 8 bits of a channel of so many.                          *)
Upper(bits, v, n) == IF n >= bits THEN v ELSE v \div 2 ^ (bits - n)

(* A fragment leaves what it must not touch as it was, to the bit and in   *)
(* every format, although it goes through 8 bits and back: the masked bits *)
(* of colour and alpha, the channel a clear leaves out, the pixel and its  *)
(* depth when a test rejects it; and what it writes is within its channel, *)
(* so that none runs over into the next (ge.c 146-168, 705-780, 832-930).  *)
(* The depth is kept where a clear of triangles or sprites keeps it; lines *)
(* and points look at the test and its write mask alone, in a clear too,   *)
(* so that a clear of them may write a depth it was to keep (ge.c 1139,    *)
(* 1158).                                                                  *)
KeepsTheRest ==
    /\ pixelWord.c \in 0..2 ^ CBits - 1 /\ pixelWord.a \in 0..2 ^ ABits - 1
    /\ Upper(CBits, pixelWord.c, was.keepC) = Upper(CBits, was.word.c, was.keepC)
    /\ Upper(ABits, pixelWord.a, was.keepA) = Upper(ABits, was.word.a, was.keepA)
    /\ was.keepZ => depth = was.depth

(* ge.c 2196, "the scissor (which the game also sets) bounds all writes".  *)
ScissorBoundsAllWrites ==
    was.place = "scissored" => pixelWord = was.word /\ depth = was.depth
=============================================================================
