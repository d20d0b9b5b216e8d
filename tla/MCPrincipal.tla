---------------------------- MODULE MCPrincipal -----------------------------
(***************************************************************************)
(* Model-checking instance of Principal: two principals, the first of      *)
(* which verifies, two extensions and three caveats: an Expiry caveat     *)
(* that validates, one that has expired, and a third-party caveat whose    *)
(* discharge validates.                                                    *)
(***************************************************************************)
EXTENDS Principal

MCCaveats == {[id |-> "Expiry", ok |-> TRUE],
              [id |-> "Expiry", ok |-> FALSE],
              [id |-> "TP",     ok |-> TRUE]}
MCExts == {1, 2}
=============================================================================
