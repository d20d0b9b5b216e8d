---------------------------- MODULE MCWatchCodec ----------------------------
(***************************************************************************)
(* Every Change over two names, three States, the three Values and two      *)
(* ResumeMarkers, sent by VDLWrite; and every wire of up to two fields    *)
(* another encoder of a compatible or an incompatible type can send: a     *)
(* name, an explicit empty name, a State in and one out of int32 range, a *)
(* Value, a ResumeMarker, Continued, and a field Change has not. The      *)
(* receiving variable holds the zero Change or a Change with every field  *)
(* set. int32 is scaled to -8..7.                                          *)
(***************************************************************************)
EXTENDS WatchCodec

MCInt32Half == 8

MCChanges ==
  [Name : {"", "n"}, State : {-1, 0, 1}, Value : {"nil", "zero", "v"},
   ResumeMarker : {<<>>, <<1>>}, Continued : BOOLEAN]

MCOlds ==
  {[Name |-> "", State |-> 0, Value |-> "nil", ResumeMarker |-> <<>>, Continued |-> FALSE],
   [Name |-> "m", State |-> 2, Value |-> "v", ResumeMarker |-> <<2>>, Continued |-> TRUE]}

\* One field of a peer's value, the others at their reset value.
PeerEntry(f, v) == Entry(f, [Reset EXCEPT ![f] = v])

PeerEntries ==
  {PeerEntry("Name", v) : v \in {"", "p"}}
  \cup {PeerEntry("State", v) : v \in {3, MCInt32Half}}
  \cup {PeerEntry("Value", "v"), PeerEntry("ResumeMarker", <<5>>),
        PeerEntry("Continued", TRUE), Entry(Unknown, Reset)}

MCPeerWires ==
  [type : {"compatible", "incompatible"},
   fields : {<<>>} \cup {<<e>> : e \in PeerEntries}
            \cup {<<e1, e2>> : e1, e2 \in PeerEntries}]
====
