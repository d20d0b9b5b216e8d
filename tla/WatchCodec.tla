----------------------------- MODULE WatchCodec -----------------------------
(***************************************************************************)
(* The generated codec of watch.Change (src/services/watch/watch.vdl.go):  *)
(* Change.VDLWrite encodes a Change field by field, leaving out the fields *)
(* with a zero value, and Change.VDLRead decodes a struct value into a     *)
(* Change variable that may already hold one.                              *)
(*                                                                         *)
(* The value on the wire is a struct type and the sequence of fields the   *)
(* writer sent: one VDLWrite of a Change, or a value of another type some  *)
(* other encoder wrote (its fields in any order, a field twice, fields a   *)
(* Change has not). The vdl.Encoder and vdl.Decoder are not in the tree:   *)
(* each of their calls may return an error, which the generated code       *)
(* returns at once, and DecodeInt(32) refuses a value out of int32 range.  *)
(* A wire entry is a field name and a Change holding that field's value.   *)
(***************************************************************************)
EXTENDS Integers, Sequences

CONSTANTS
  Changes,    \* the Changes a program sends
  Olds,       \* the Changes the receiving variable holds beforehand
  PeerWires,  \* the field sequences other encoders send
  Unknown,    \* a field name Change does not have
  Int32Half   \* 2^31, scaled down: TLC's own integers are 32 bits wide

\* The fields of Change, in the order VDLWrite writes them.
Fields == <<"Name", "State", "Value", "ResumeMarker", "Continued">>
FieldSet == {Fields[i] : i \in DOMAIN Fields}

\* A Value is a nil *vom.RawBytes, the RawBytes of the zero any value, or
\* one that holds a value; "new" is the new(vom.RawBytes) VDLRead stores
\* before it decodes into it.
Raws == {"nil", "zero", "v", "new"}

\* The values DecodeInt(32) accepts.
Int32 == -Int32Half..(Int32Half - 1)

VARIABLES
  sent,   \* the Change VDLWrite encodes
  wire,   \* the struct type and the fields written so far
  wpc,    \* the writer: Start, the next field's index, End, Done, Failed
  x,      \* the receiving Change variable
  old,    \* x before VDLRead
  rpc     \* the reader: Start, the wire index next, Done, Failed

vars == <<sent, wire, wpc, x, old, rpc>>

\* The labels of wpc and rpc around the field indices.
Start == 0
End == Len(Fields) + 1
Done == -2
Failed == -1

IsChange(c) ==
  /\ DOMAIN c = FieldSet
  /\ c.Name \in STRING /\ c.State \in Int /\ c.Value \in Raws
  /\ c.ResumeMarker \in Seq(Nat) /\ c.Continued \in BOOLEAN

TypeOK ==
  /\ IsChange(sent) /\ IsChange(x) /\ IsChange(old)
  /\ x.State \in Int32
  /\ wire.type \in {"Change", "compatible", "incompatible"}
  /\ \A i \in DOMAIN wire.fields : wire.fields[i].f \in FieldSet \cup {Unknown}
  /\ wpc \in {Start, End, Done, Failed} \cup DOMAIN Fields
  /\ rpc \in {Start, Done, Failed} \cup 1..(Len(wire.fields) + 1)

\* An entry of the wire: field f, with its value in c.
Entry(f, c) == [f |-> f, c |-> c]

Init ==
  \/ /\ sent \in Changes
     /\ wire = [type |-> "Change", fields |-> <<>>]
     /\ wpc = Start
  \/ /\ sent \in Changes
     /\ wire \in PeerWires
     /\ wpc = Done
  /\ x \in Olds
  /\ old = x
  /\ rpc = Start
-----------------------------------------------------------------------------
\* Mutant: a State is written only when it is positive.
IsZeroFieldUnsigned(f, c) ==
  CASE f = "Name" -> c.Name = ""
    [] f = "State" -> c.State <= 0
    [] f = "Value" -> c.Value \in {"nil", "zero"}
    [] f = "ResumeMarker" -> c.ResumeMarker = <<>>
    [] f = "Continued" -> ~c.Continued

\* The value VDLIsZero and VDLWrite test a field for: a nil Value and the
\* RawBytes of the zero value alike, an empty ResumeMarker.
IsZeroField(f, c) ==
  CASE f = "Name" -> c.Name = ""
    [] f = "State" -> c.State = 0
    [] f = "Value" -> c.Value \in {"nil", "zero"}
    [] f = "ResumeMarker" -> c.ResumeMarker = <<>>
    [] f = "Continued" -> ~c.Continued

\* VDLWrite's StartValue of the Change type.
WriteStart ==
  /\ wpc = Start
  /\ wpc' \in {1, Failed}
  /\ UNCHANGED <<sent, wire, x, old, rpc>>

\* VDLWrite, for one field: a zero field is left out; otherwise NextField,
\* StartValue, Encode*, FinishValue (or the ResumeMarker's and the
\* RawBytes' own VDLWrite), any of which may return an error.
WriteField ==
  /\ wpc \in DOMAIN Fields
  /\ LET f == Fields[wpc] IN
     \/ /\ IsZeroField(f, sent)
        /\ wpc' = IF wpc = Len(Fields) THEN End ELSE wpc + 1
        /\ UNCHANGED wire
     \/ /\ ~IsZeroField(f, sent)
        /\ wire' = [wire EXCEPT !.fields = Append(@, Entry(f, sent))]
        /\ wpc' = IF wpc = Len(Fields) THEN End ELSE wpc + 1
     \/ /\ ~IsZeroField(f, sent)
        /\ wpc' = Failed
        /\ UNCHANGED wire
  /\ UNCHANGED <<sent, x, old, rpc>>

\* VDLWrite's NextField("") and FinishValue.
WriteEnd ==
  /\ wpc = End
  /\ wpc' \in {Done, Failed}
  /\ UNCHANGED <<sent, wire, x, old, rpc>>

\* What VDLRead first stores in x: the zero Change with the RawBytes of the
\* zero any value.
Reset == [Name |-> "", State |-> 0, Value |-> "zero", ResumeMarker |-> <<>>,
          Continued |-> FALSE]

\* Mutant: *x is not reset before the fields are decoded.
ReadStartNoReset ==
  /\ rpc = Start /\ wpc = Done
  /\ rpc' \in IF wire.type = "incompatible" THEN {Failed} ELSE {1, Failed}
  /\ UNCHANGED <<sent, wire, wpc, x, old>>

\* Change.VDLRead, once the value has been written: *x is reset, then
\* dec.StartValue may fail, and a top-level value of a type not compatible
\* with Change is refused.
ReadStart ==
  /\ rpc = Start /\ wpc = Done
  /\ x' = Reset
  /\ \/ rpc' = Failed
     \/ /\ wire.type = "incompatible"
        /\ rpc' = Failed
     \/ /\ wire.type # "incompatible"
        /\ rpc' = 1
  /\ UNCHANGED <<sent, wire, wpc, old>>

\* Mutant: State is decoded as an int64.
DecodesInt64(e) == TRUE

\* A field's decoder: DecodeInt(32) refuses a value out of int32 range.
Decodes(e) == e.f = "State" => e.c.State \in Int32

\* VDLRead, one turn of its loop: NextField, then the field's StartValue,
\* Decode* and FinishValue (or the ResumeMarker's VDLRead, or a
\* new(vom.RawBytes) and its VDLRead), or SkipValue for an unknown field;
\* each call may fail, and a failure returns at once.
ReadField ==
  /\ rpc \in DOMAIN wire.fields
  /\ LET e == wire.fields[rpc] IN
     \/ /\ e.f \in FieldSet /\ Decodes(e)
        /\ x' = [x EXCEPT ![e.f] = e.c[e.f]]
        /\ rpc' = rpc + 1
     \/ /\ e.f = Unknown
        /\ rpc' = rpc + 1
        /\ UNCHANGED x
     \/ /\ ~Decodes(e)
        /\ rpc' = Failed
        /\ UNCHANGED x
     \/ /\ rpc' = Failed
        /\ x' \in {x, [x EXCEPT !.Value = IF e.f = "Value" THEN "new" ELSE @]}
  /\ UNCHANGED <<sent, wire, wpc, old>>

\* VDLRead's last NextField, which returns "", and FinishValue.
ReadEnd ==
  /\ rpc = Len(wire.fields) + 1
  /\ rpc' \in {Done, Failed}
  /\ UNCHANGED <<sent, wire, wpc, x, old>>

Next == WriteStart \/ WriteField \/ WriteEnd \/ ReadStart \/ ReadField \/ ReadEnd

Spec == Init /\ [][Next]_vars
-----------------------------------------------------------------------------
\* The value a decoder must produce from a wire: each field of Change the
\* last value the wire gives it, the reset value where the wire has none.
RECURSIVE LastWins(_, _)
LastWins(c, fs) ==
  IF fs = <<>> THEN c
  ELSE LastWins(IF Head(fs).f \in FieldSet
                THEN [c EXCEPT ![Head(fs).f] = Head(fs).c[Head(fs).f]] ELSE c,
                Tail(fs))

\* A read that returns no error leaves in the receiving variable what the
\* wire says, field by field, the last occurrence winning and the fields
\* it does not give zero, whatever the variable held before; and only a
\* wire whose every State fits an int32 is read without error (Change.VDLRead
\* resets *x, skips unknown fields, and decodes State with DecodeInt(32)).
ReadAsLastWins ==
  rpc = Done =>
    /\ \A i \in DOMAIN wire.fields : wire.fields[i].c.State \in Int32
    /\ x = LastWins(Reset, wire.fields)

\* A Change VDLWrite encoded without error and VDLRead decoded without
\* error is the Change sent, a nil Value read back as the RawBytes of the
\* zero any value: leaving out zero fields loses nothing.
RoundTrip ==
  rpc = Done /\ wire.type = "Change" =>
    x = [sent EXCEPT !.Value = IF @ = "nil" THEN "zero" ELSE @]
====
