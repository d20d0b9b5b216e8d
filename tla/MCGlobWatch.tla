---------------------------- MODULE MCGlobWatch -----------------------------
(***************************************************************************)
(* One entity with two values, two updates after its first state, three   *)
(* WatchGlob calls and one Change in flight.                               *)
(***************************************************************************)
EXTENDS GlobWatch

MCValues == {"v1", "v2"}
====
