----------------------------- MODULE MCValConv -----------------------------
(***************************************************************************)
(* Source values for ValConv: the edges of every scaled width (0, the      *)
(* largest value, one past it, the most negative value and one below), of  *)
(* the exact-integer ranges of float32 (16) and float64 (64), fractions,   *)
(* a float32 rounding case (17), complex values with and without an        *)
(* imaginary part, and an exact, a lower-case and an unknown enum label.   *)
(***************************************************************************)
EXTENDS ValConv

MCUintSrc == {0, 1, 3, 4, 7, 8, 15, 16, 17, 31, 32, 63, 64, 65, 127}
MCIntSrc == {-64, -17, -16, -5, -4, -1, 0, 3, 4, 16, 17, 63}
MCFloatSrc == {-3, -2, 0, 1, 2, 6, 8, 32, 34, 128, 252, 256}
MCComplexSrc == {<<2, 0>>, <<34, 0>>, <<-2, 0>>, <<1, 0>>, <<2, 1>>}
MCStringSrc == {"Equifax", "transunion", "Bogus"}
====
