----------------------------- MODULE GlobWatch ------------------------------
(***************************************************************************)
(* A watcher of one entity through the GlobWatcher stubs of watch.vdl.go   *)
(* (src/services/watch), composed with the codecs the RPC runs them        *)
(* through: WatchGlob encodes a GlobRequest (GlobRequest.VDLWrite) that    *)
(* the server decodes (GlobRequest.VDLRead); every Change the service      *)
(* Sends is encoded by Change.VDLWrite and decoded into the client call's  *)
(* valRecv by Change.VDLRead, whose wire-level behaviour WatchCodec        *)
(* models and this module takes from it.                                   *)
(*                                                                         *)
(* The service behind the server stub is not in the tree; it behaves as    *)
(* the package comment promises (Initial State, ResumeMarker, Ordering and *)
(* Reliability). The watcher is the client the same comment describes: it  *)
(* applies every Change it takes from Value to its view of the entity and, *)
(* when the stream stops, watches again from the ResumeMarker of the last  *)
(* Change it took, or from the start after ErrUnknownResumeMarker.         *)
(*                                                                         *)
(* The store's history of the entity is a sequence of states; position k's *)
(* ResumeMarker is the byte string <<k>>. The ipc.Call's Recv, Finish and  *)
(* the connection follow the comments of the stubs, as in StreamCall.      *)
(***************************************************************************)
EXTENDS Integers, Sequences, SequencesExt

CONSTANTS
  Values,      \* the service data the entity may hold
  Gone,        \* the entity does not exist
  MaxUpdates,  \* updates the store may apply after the first state
  MaxCalls,    \* WatchGlob calls the watcher makes before it gives up
  MaxBuf       \* Changes in flight before Send blocks

\* The Change codec of WatchCodec, used for its operators only.
Codec == INSTANCE WatchCodec WITH Changes <- {}, Olds <- {}, PeerWires <- {},
           Unknown <- "unknown", Int32Half <- 2^8, sent <- {}, wire <- {},
           wpc <- 0, x <- {}, old <- {}, rpc <- 0

\* The values of Change.State.
Exists == 0
DoesNotExist == 1

VARIABLES
  hist,     \* the entity's states in the store, position 1 the first
  oldest,   \* the first position the service can still resume from
  cpc,      \* the watcher: "watch", "advance", "value", "err", "finish"
  calls,    \* WatchGlob calls made
  valRecv,  \* the client call's valRecv
  errRecv,  \* the client call's errRecv
  view,     \* the watcher's view of the entity
  last,     \* the ResumeMarker of the last Change the watcher took
  reqWire,  \* the GlobRequest as GlobRequest.VDLWrite encoded it
  srv,      \* the server: "idle", "accept", "open", "eof", "failed"
  srvErr,   \* the error the service returned
  out,      \* the initial-state group the service has still to Send
  spos,     \* the next position of the history the service Sends
  chan      \* the Changes Sent and not yet received

vars == <<hist, oldest, cpc, calls, valRecv, errRecv, view, last, reqWire,
          srv, srvErr, out, spos, chan>>

States == Values \cup {Gone}
Positions == 1..(MaxUpdates + 1)
Markers == {<<>>} \cup {<<k>> : k \in Positions}

Change(name, state, value, marker, cont) ==
  [Name |-> name, State |-> state, Value |-> value, ResumeMarker |-> marker,
   Continued |-> cont]

\* Change{}, which Advance stores before Recv decodes into it.
ZeroChange == Change("", 0, "nil", <<>>, FALSE)
-----------------------------------------------------------------------------
\* The fields of GlobRequest, in the order VDLWrite writes them.
ReqFields == <<"Pattern", "ResumeMarker">>

\* ResumeMarker.VDLIsZero: len(x) == 0.
MarkerIsZero(m) == Len(m) = 0

\* GlobRequest's zero tests: an empty Pattern, a zero ResumeMarker.
ReqIsZeroField(f, r) ==
  CASE f = "Pattern" -> r.Pattern = ""
    [] f = "ResumeMarker" -> MarkerIsZero(r.ResumeMarker)

\* GlobRequest.VDLWrite: the fields that are not zero, in order, the
\* ResumeMarker through its own VDLWrite as bytes.
WriteRequest(r) ==
  LET fs == SelectSeq(ReqFields, LAMBDA f : ~ReqIsZeroField(f, r))
  IN [i \in DOMAIN fs |-> [f |-> fs[i], v |-> r[fs[i]]]]

\* GlobRequest.VDLRead: *x = GlobRequest{}, then each field as it comes.
ReadRequest(w) ==
  FoldLeft(LAMBDA r, e : [r EXCEPT ![e.f] = e.v],
           [Pattern |-> "", ResumeMarker |-> <<>>], w)

\* Change.VDLWrite's wire for c, and what Change.VDLRead makes of it: read
\* to the end, or stopped by an error after any number of fields.
WriteChange(c) ==
  LET fs == SelectSeq(Codec!Fields, LAMBDA f : ~Codec!IsZeroField(f, c))
  IN [i \in DOMAIN fs |-> Codec!Entry(fs[i], c)]

Decoded(c) == Codec!LastWins(Codec!Reset, WriteChange(c))

PartlyDecoded(c) ==
  {Codec!LastWins(Codec!Reset, SubSeq(WriteChange(c), 1, k)) :
     k \in 0..Len(WriteChange(c))}
-----------------------------------------------------------------------------
\* The Change the service sends for the entity at position k.
EntityChange(k, cont) ==
  IF hist[k] = Gone THEN Change("e", DoesNotExist, "nil", <<k>>, cont)
  ELSE Change("e", Exists, hist[k], <<k>>, cont)

\* Initial State, case (1): the first atomic group holds the entity's
\* current state (or, if it does not exist, possibly nothing for it) and a
\* message for the root entity "", which ends the group.
InitialGroups(p) ==
  LET root == Change("", Exists, "nil", <<p>>, FALSE) IN
  {<<EntityChange(p, TRUE), root>>} \cup (IF hist[p] = Gone THEN {<<root>>} ELSE {})

TypeOK ==
  /\ hist \in Seq(States) /\ Len(hist) \in Positions
  /\ oldest \in 1..Len(hist)
  /\ cpc \in {"watch", "advance", "value", "err", "finish"}
  /\ calls \in 0..MaxCalls
  /\ errRecv \in {"nil", "EOF", "StreamErr", "DecodeErr"}
  /\ view \in States /\ last \in Markers
  /\ srv \in {"idle", "accept", "open", "eof", "failed"}
  /\ srvErr \in {"nil", "UnknownResumeMarker", "DecodeErr"}
  /\ spos \in 1..(Len(hist) + 1)
  /\ Len(chan) <= MaxBuf

Init ==
  /\ hist \in {<<s>> : s \in States} /\ oldest = 1
  /\ cpc = "watch" /\ calls = 0
  /\ valRecv = ZeroChange /\ errRecv = "nil"
  /\ view = Gone /\ last = <<>>
  /\ reqWire = <<>> /\ srv = "idle" /\ srvErr = "nil"
  /\ out = <<>> /\ spos = 1 /\ chan = <<>>
-----------------------------------------------------------------------------
\* The store applies an update to the entity.
Update ==
  /\ Len(hist) <= MaxUpdates
  /\ \E s \in States : hist' = Append(hist, s)
  /\ UNCHANGED <<oldest, cpc, calls, valRecv, errRecv, view, last, reqWire,
                 srv, srvErr, out, spos, chan>>

\* The service drops history it can no longer resume from.
Compact ==
  /\ oldest < Len(hist)
  /\ oldest' = oldest + 1
  /\ UNCHANGED <<hist, cpc, calls, valRecv, errRecv, view, last, reqWire,
                 srv, srvErr, out, spos, chan>>
-----------------------------------------------------------------------------
\* The watcher calls WatchGlob(ctx, GlobRequest{Pattern: "*", ResumeMarker:
\* last}): StartCall encodes the request and may fail, which the stub
\* returns; the watcher then watches again.
WatchGlob ==
  /\ cpc = "watch" /\ calls < MaxCalls
  /\ calls' = calls + 1
  /\ \/ /\ reqWire' = WriteRequest([Pattern |-> "*", ResumeMarker |-> last])
        /\ srv' = "accept" /\ srvErr' = "nil" /\ cpc' = "advance"
     \/ UNCHANGED <<reqWire, srv, srvErr, cpc>>
  /\ UNCHANGED <<hist, oldest, valRecv, errRecv, view, last, out, spos, chan>>

\* Mutant: Advance reports a decode error of Recv as an item.
AdvanceDecodeErrTrue ==
  /\ cpc = "advance"
  /\ \/ /\ chan # <<>>
        /\ \/ valRecv' = Decoded(Head(chan))
           \/ valRecv' \in PartlyDecoded(Head(chan))
        /\ errRecv' = "nil" /\ chan' = Tail(chan) /\ cpc' = "value"
     \/ /\ chan = <<>> /\ srv \in {"eof", "failed"}
        /\ valRecv' = ZeroChange /\ chan' = chan /\ cpc' = "err"
        /\ errRecv' = IF srv = "eof" THEN "EOF" ELSE "StreamErr"
  /\ UNCHANGED <<hist, oldest, calls, view, last, reqWire, srv, srvErr, out, spos>>

\* implGlobWatcherWatchGlobClientCallRecv.Advance: c.c.valRecv = Change{};
\* c.c.errRecv = c.c.Recv(&c.c.valRecv); return c.c.errRecv == nil. Recv
\* decodes the next Change in flight, possibly failing part-way; with none
\* in flight it returns io.EOF once the service returned, the stream's error
\* once it broke, and otherwise blocks.
Advance ==
  /\ cpc = "advance"
  /\ \/ /\ chan # <<>>
        /\ valRecv' = Decoded(Head(chan))
        /\ errRecv' = "nil" /\ chan' = Tail(chan) /\ cpc' = "value"
     \/ /\ chan # <<>>
        /\ valRecv' \in PartlyDecoded(Head(chan))
        /\ errRecv' = "DecodeErr" /\ chan' = Tail(chan) /\ cpc' = "err"
     \/ /\ chan = <<>> /\ srv \in {"eof", "failed"}
        /\ valRecv' = ZeroChange /\ chan' = chan /\ cpc' = "err"
        /\ errRecv' = IF srv = "eof" THEN "EOF" ELSE "StreamErr"
  /\ UNCHANGED <<hist, oldest, calls, view, last, reqWire, srv, srvErr, out, spos>>

\* Value returns c.c.valRecv; the watcher applies it: a Change for the
\* entity sets its view, and a non-empty ResumeMarker is remembered.
Value ==
  /\ cpc = "value"
  /\ view' = IF valRecv.Name = "e"
             THEN IF valRecv.State = Exists THEN valRecv.Value ELSE Gone
             ELSE view
  /\ last' = IF valRecv.ResumeMarker # <<>> THEN valRecv.ResumeMarker ELSE last
  /\ cpc' = "advance"
  /\ UNCHANGED <<hist, oldest, calls, valRecv, errRecv, reqWire, srv, srvErr,
                 out, spos, chan>>

\* The stub's Err: io.EOF is reported as nil.
StubErr(e) == IF e = "EOF" THEN "nil" ELSE e

\* Once Advance returned false the watcher asks Err: on nil the service
\* returned, and it calls Finish; on an error it cancels the call's
\* context, which ends the service and drops what is in flight, and
\* watches again (Finish is not needed once a method returned an error).
Err ==
  /\ cpc = "err"
  /\ \/ /\ StubErr(errRecv) = "nil"
        /\ cpc' = "finish"
        /\ UNCHANGED <<srv, out, chan>>
     \/ /\ StubErr(errRecv) # "nil"
        /\ cpc' = "watch" /\ srv' = "idle" /\ out' = <<>> /\ chan' = <<>>
  /\ UNCHANGED <<hist, oldest, calls, valRecv, errRecv, view, last, reqWire,
                 srvErr, spos>>

\* implGlobWatcherWatchGlobClientCall.Finish returns the call's Finish, the
\* service's error. After ErrUnknownResumeMarker the watcher starts over:
\* it forgets its view and marker and asks for the initial state.
Finish ==
  /\ cpc = "finish" /\ srv = "eof"
  /\ cpc' = "watch" /\ srv' = "idle"
  /\ IF srvErr = "UnknownResumeMarker"
     THEN view' = Gone /\ last' = <<>>
     ELSE UNCHANGED <<view, last>>
  /\ UNCHANGED <<hist, oldest, calls, valRecv, errRecv, reqWire, srvErr, out,
                 spos, chan>>
-----------------------------------------------------------------------------
\* Resuming from R: the stream goes on after R, or from an earlier position
\* still held ("the system may deliver changes from before the
\* ResumeMarker as well").
ResumeFrom(k) == k + 1

\* The server decodes the argument (GlobRequest.VDLRead), which may fail
\* and fails the call, and the server stub hands it to the service's
\* WatchGlob: with an empty ResumeMarker it queues the initial-state group
\* and goes on after the current position; with a marker it still holds it
\* resumes; with one it dropped it returns ErrUnknownResumeMarker.
Accept ==
  /\ srv = "accept"
  /\ LET m == ReadRequest(reqWire).ResumeMarker IN
     \/ /\ srv' = "eof" /\ srvErr' = "DecodeErr"
        /\ UNCHANGED <<out, spos>>
     \/ /\ m = <<>>
        /\ out' \in InitialGroups(Len(hist)) /\ spos' = Len(hist) + 1
        /\ srv' = "open" /\ UNCHANGED srvErr
     \/ /\ m # <<>> /\ m[1] >= oldest
        /\ \E k \in oldest..m[1] : spos' = ResumeFrom(k)
        /\ out' = <<>> /\ srv' = "open" /\ UNCHANGED srvErr
     \/ /\ m # <<>> /\ m[1] < oldest
        /\ srv' = "eof" /\ srvErr' = "UnknownResumeMarker"
        /\ UNCHANGED <<out, spos>>
  /\ UNCHANGED <<hist, oldest, cpc, calls, valRecv, errRecv, view, last,
                 reqWire, chan>>

\* Mutant: Send does not wait for buffer space.
SendUnbounded ==
  /\ srv = "open" /\ Len(chan) <= MaxBuf
  /\ \/ /\ out # <<>>
        /\ chan' = Append(chan, Head(out)) /\ out' = Tail(out)
        /\ UNCHANGED spos
     \/ /\ out = <<>> /\ spos <= Len(hist)
        /\ chan' = Append(chan, EntityChange(spos, FALSE)) /\ spos' = spos + 1
        /\ UNCHANGED out
  /\ UNCHANGED <<hist, oldest, cpc, calls, valRecv, errRecv, view, last,
                 reqWire, srv, srvErr>>

\* The service Sends, through the server stub's Send, which blocks while
\* MaxBuf Changes are in flight: the rest of the initial-state group, then
\* each later state of the entity in order, with its ResumeMarker.
Send ==
  /\ srv = "open" /\ Len(chan) < MaxBuf
  /\ \/ /\ out # <<>>
        /\ chan' = Append(chan, Head(out)) /\ out' = Tail(out)
        /\ UNCHANGED spos
     \/ /\ out = <<>> /\ spos <= Len(hist)
        /\ chan' = Append(chan, EntityChange(spos, FALSE)) /\ spos' = spos + 1
        /\ UNCHANGED out
  /\ UNCHANGED <<hist, oldest, cpc, calls, valRecv, errRecv, view, last,
                 reqWire, srv, srvErr>>

\* The connection breaks: what is in flight is lost, Send fails and the
\* service returns.
Break ==
  /\ srv = "open"
  /\ srv' = "failed" /\ chan' = <<>>
  /\ UNCHANGED <<hist, oldest, cpc, calls, valRecv, errRecv, view, last,
                 reqWire, srvErr, out, spos>>

Watcher == WatchGlob \/ Advance \/ Value \/ Err \/ Finish

Server == Accept \/ Send

Next == Watcher \/ Server \/ Break \/ Update \/ Compact

\* Only safety is checked: the watcher and the service are not in the tree,
\* so nothing justifies a fairness assumption about them.
Spec == Init /\ [][Next]_vars
-----------------------------------------------------------------------------
\* The watcher's view of the entity is the store's state at the
\* ResumeMarker of the last Change it took: a Change Value hands out after
\* Advance returned true is whole (a decode error part-way through
\* Change.VDLRead leaves valRecv half reset and must make Advance false),
\* and a stream resumed after a broken connection, or restarted after
\* ErrUnknownResumeMarker, never leaves the view behind its marker.
ViewMatchesMarker == last # <<>> => view = hist[last[1]]
====
