-------------------------------- MODULE Half --------------------------------
(***************************************************************************)
(* The conversions between floats of 32 bits and halves of 16 bits that    *)
(* need no instruction of the processor (half_soft.cc).  Both kinds are    *)
(* given by their bits, as natural numbers, without the sign, which both   *)
(* conversions only shift.  x ^= (y ^ x) & -c is an assignment of y under  *)
(* the condition c, and >> of a natural number is a division.              *)
(***************************************************************************)
EXTENDS Integers

VARIABLE half   \* the half that is converted, all of them one by one

shift == 2 ^ 13
infN == 255 * 2 ^ 23          \* infinity
maxN == 143 * 2 ^ 23 - shift  \* the largest normal half, as a float
minN == 113 * 2 ^ 23          \* the smallest normal half, as a float
infC == infN \div shift
nanN == (infC + 1) * shift
maxC == maxN \div shift
minC == minN \div shift
subC == 1023
norC == 1024
maxD == infC - maxC - 1
minD == minC - subC - 1

\* A mutant of Over: the comparison takes the bound in.
OverOrAt(x, bound, d) == IF x >= bound THEN x + d ELSE x

(* One of the corrections of the exponent: beyond the bound, move by d. *)
Over(x, bound, d) == IF x > bound THEN x + d ELSE x

-----------------------------------------------------------------------------
(* The bits of the float n * 2^-24, for 0 <= n < 2^10 (s.f *= v.si) *)
Scaled(n) ==
  IF n = 0 THEN 0
  ELSE LET k == CHOOSE k \in 0..9 : 2 ^ k <= n /\ n < 2 ^ (k + 1)
       IN  (k + 103) * 2 ^ 23 + (n - 2 ^ k) * 2 ^ (23 - k)

half2float_soft(h) ==
  IF norC > h THEN Scaled(h) ELSE Over(Over(h, subC, minD), maxC, maxD) * shift

(***************************************************************************)
(* The float f times 2^37, as an integer: s.f * v.f, for f < minN.  The    *)
(* code converts this product for every f, beyond the range of an integer  *)
(* too, but uses the result for these only.                                *)
(***************************************************************************)
Magnified(f) ==
  LET e == f \div 2 ^ 23
  IN  IF 113 - e > 24 THEN 0 ELSE (2 ^ 23 + (f % 2 ^ 23)) \div 2 ^ (113 - e)

float2half_soft(f) ==
  LET a == IF minN > f THEN Magnified(f) ELSE f
      b == IF infN > a /\ a > maxN THEN infN ELSE a
      c == IF nanN > b /\ b > infN THEN nanN ELSE b
  IN  Over(Over(c \div shift, maxC, -maxD), subC, -minD)

-----------------------------------------------------------------------------
(***************************************************************************)
(* The conversions of arrays (half.cc), eight elements by an instruction   *)
(* of the processor and the rest through arrays of eight of their own:     *)
(* pairs of an element that is stored and the one it is converted from,    *)
(* None for a zero of these arrays.  Both directions are alike.            *)
(***************************************************************************)
Width == 2 ^ 8   \* of size_t
None == -1

(* The assembler loop of arm/fp16fp32_cvt.S: it tests the rest at its end. *)
Cvt(n) ==
  LET rounds == CHOOSE r \in 1..Width : (n - 8 * r) % Width = 0 /\ \A q \in 1..(r - 1) : (n - 8 * q) % Width # 0
  IN  0..(8 * rounds - 1)

\* A mutant of Eights: the loop is entered without the test for no eights.
EightsUnguarded(build, n8) ==
  IF build = "x86" THEN {j \in 0..n8 : j < n8} ELSE Cvt(n8)

(* The elements of whole eights *)
Eights(build, n8) ==
  IF build = "x86" \/ n8 = 0 THEN {j \in 0..n8 : j < n8} ELSE Cvt(n8)

ConvertArray(build, count) ==
  LET n8 == (count \div 8) * 8
      tmp == [k \in 0..7 |-> IF n8 + k < count THEN n8 + k ELSE None]
  IN  {<<j, j>> : j \in Eights(build, n8)} \cup {<<j, tmp[j - n8]>> : j \in {i \in n8..count : i < count}}

-----------------------------------------------------------------------------
halfInf == 31 * 1024
halfMax == halfInf - 1

Init == half \in 0..(2 ^ 15 - 1)

(* The definitions of the two formats: mantissa * 2 ^ exponent *)
HalfMantissa(h) == IF h < 1024 THEN h ELSE 1024 + (h % 1024)
HalfExponent(h) == IF h < 1024 THEN -24 ELSE h \div 1024 - 25
FloatMantissa(f) == 2 ^ 23 + (f % 2 ^ 23)
FloatExponent(f) == f \div 2 ^ 23 - 150

SameValue(h, f) ==
  LET d == HalfExponent(h) - FloatExponent(f)
  IN  d \in 0..24 /\ FloatMantissa(f) = HalfMantissa(h) * 2 ^ d

\* Floats from f on and before g, those next to the ends and to the middle.
Between(f, g) ==
  LET middle == f + (g - f) \div 2
  IN  {x \in {f, f + 1, middle - 1, middle, middle + 1, g - 1} : f <= x /\ x < g}

(***************************************************************************)
(* Each finite half becomes the float of the same value, infinity becomes  *)
(* infinity and NaN becomes NaN.  A float becomes the next half towards 0, *)
(* but infinity beyond the largest half, so that a half which is converted *)
(* back and forth comes out as it was.  And of an array every element is   *)
(* converted, and no other.  half_soft.cc:54-85, half.cc:71-175.           *)
(***************************************************************************)
HalvesRight ==
  LET f == half2float_soft(half)
      next == half2float_soft(half + 1)
  IN  /\ half <= halfMax => IF half = 0 THEN f = 0 ELSE SameValue(half, f)
      /\ half = halfInf => f = infN
      /\ half > halfInf => f > infN /\ float2half_soft(f) = half
      /\ half < halfMax => \A x \in Between(f, next) : float2half_soft(x) = half
      /\ half = halfMax =>
           /\ float2half_soft(f) = half
           /\ \A x \in Between(f + 1, infN + 1) : float2half_soft(x) = halfInf
      /\ \A x \in Between(infN + 1, 2 ^ 30 + (2 ^ 30 - 1)) :
           float2half_soft(x) \in (halfInf + 1)..(2 ^ 15 - 1)
      /\ half <= 32 => \A build \in {"x86", "arm"} :
           ConvertArray(build, half) = {<<j, j>> : j \in {i \in 0..half : i < half}}
=============================================================================
