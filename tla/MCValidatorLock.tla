--------------------------- MODULE MCValidatorLock ---------------------------
(***************************************************************************)
(* Three goroutines, each overriding, test-setting or getting the          *)
(* validator, with two validators to pass; so two overrides, an override   *)
(* racing a test setter, and readers racing writers all occur.             *)
(***************************************************************************)
EXTENDS ValidatorLock

CONSTANTS p1, p2, p3, f1, f2, Dflt

MCProcs == {p1, p2, p3}
MCFns == {f1, f2}
====
