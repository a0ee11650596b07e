----------------------------- MODULE Luminance -----------------------------
(***************************************************************************)
(* RGB_Normalizer and RGB_To_XYZ: from 8-bit channels to the luminance BW  *)
(* in millionths, in integers whose divisions truncate.  The code          *)
(* multiplies before it divides; its largest product, 1000000 * 587, fits  *)
(* the 32 bits of an int.                                                  *)
(***************************************************************************)
EXTENDS Integers

Channel == 0 .. 255

NormalizeDivideFirst(c) == (c \div 255) * 1000000
Normalize(c) == (c * 1000000) \div 255

Weighted(c, weight) == (c * weight) \div 1000

ToBWLessBlue(r, g, b) == Weighted(r, 299) + Weighted(g, 587) - Weighted(b, 114)
ToBW(r, g, b) == Weighted(r, 299) + Weighted(g, 587) + Weighted(b, 114)

LuminanceOf(r, g, b) == ToBW(Normalize(r), Normalize(g), Normalize(b))
============================================================================
