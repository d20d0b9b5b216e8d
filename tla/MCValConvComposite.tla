------------------------- MODULE MCValConvComposite -------------------------
(***************************************************************************)
(* Two struct fields and one name that is not a field, so that every value *)
(* has entries that are true, false, missing and unknown to the struct.    *)
(* Lists of up to three strings over two non-zero strings and the zero    *)
(* string, into an array of two: a list longer than the array, and a slice *)
(* grown from nil past its capacity twice (capacity 2, then 6).            *)
(***************************************************************************)
EXTENDS ValConvComposite

MCNames == {"X", "Y", "W"}
MCFields == <<"X", "Y">>
MCElems == {"", "a", "b"}
MCArrayLen == 2
MCMaxLen == 3
====
