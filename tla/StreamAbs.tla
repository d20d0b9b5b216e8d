------------------------------ MODULE StreamAbs ------------------------------
(***************************************************************************)
(* What a result stream promises its reader, whatever the RPC underneath:  *)
(* the items of the server's stream are handed out one at a time, in       *)
(* order, each at most once, and once the stream is closed (by its end, an *)
(* error or Cancel) it stays closed and hands out nothing more.            *)
(***************************************************************************)
EXTENDS Naturals

CONSTANT MaxItems   \* items the server may send

VARIABLES
  delivered,        \* items handed to the reader so far (a prefix)
  closed            \* the stream has stopped for good

Init == delivered = 0 /\ closed = FALSE

Deliver == /\ ~closed
           /\ delivered < MaxItems
           /\ delivered' = delivered + 1
           /\ UNCHANGED closed

Close == /\ ~closed
         /\ closed' = TRUE
         /\ UNCHANGED delivered

Spec == Init /\ [][Deliver \/ Close]_<<delivered, closed>>
=============================================================================
