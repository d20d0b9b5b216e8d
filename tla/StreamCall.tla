----------------------------- MODULE StreamCall -----------------------------
(***************************************************************************)
(* A streaming RPC through its generated stubs, as logreader.vdl.go        *)
(* (src/services/mgmt/logreader) generates them for LogFile.ReadLog: the   *)
(* client stub starts the call, the caller loops on the receive stream's   *)
(* Advance and Value, asks Err, and calls Finish; another goroutine may    *)
(* Cancel the call at any time; the server stub hands the service a stream *)
(* whose Send it uses for every entry before it returns (reply, err).      *)
(*                                                                         *)
(* The ipc.Call underneath is not in the tree; its Recv, Send, Finish and  *)
(* Cancel follow the contract in the comments of LogFileReadLogCall and    *)
(* LogFileServiceReadLogStream. An entry is its position in the server's   *)
(* stream, 0 the zero LogEntry{}. The stream is a sent counter and the     *)
(* client's receive index; Send blocks while MaxBuf entries are unread.    *)
(***************************************************************************)
EXTENDS Naturals, Sequences

CONSTANTS
  MaxItems,   \* entries the service may send
  MaxBuf,     \* entries in flight before Send blocks
  Replies,    \* the int64 replies ReadLog may return
  Zero        \* the zero reply, one of Replies

VARIABLES
  call,       \* StartCall's outcome: "pending", "ok" or "failed"
  cpc,        \* the caller: "start", "advance", "value", "err", "finish", "done"
  val,        \* the stream iterator's val
  recvErr,    \* the stream iterator's err
  got,        \* the entries the caller took from Value, in order
  seenErr,    \* what the caller's Err() returned
  reply,      \* Finish's reply
  finErr,     \* Finish's err (or ReadLog's, if StartCall failed)
  canceled,   \* call.Cancel() has been called
  sent,       \* entries the service has sent
  recvPos,    \* entries the client call has received
  srvEnd,     \* the server: "open", "eof" (returned) or "failed" (stream broke)
  srvReply,   \* what the service returned
  srvErr

vars == <<call, cpc, val, recvErr, got, seenErr, reply, finErr, canceled,
          sent, recvPos, srvEnd, srvReply, srvErr>>

Errors == {"nil", "EOF", "Canceled", "StreamErr", "AppErr", "StartErr"}

TypeOK ==
  /\ call \in {"pending", "ok", "failed"}
  /\ cpc \in {"start", "advance", "value", "err", "finish", "done"}
  /\ val \in 0..MaxItems
  /\ recvErr \in Errors /\ seenErr \in Errors /\ finErr \in Errors
  /\ got \in Seq(0..MaxItems)
  /\ reply \in Replies /\ srvReply \in Replies
  /\ canceled \in BOOLEAN
  /\ sent \in 0..MaxItems /\ recvPos \in 0..sent
  /\ srvEnd \in {"open", "eof", "failed"}
  /\ srvErr \in {"nil", "AppErr", "Canceled"}

Init ==
  /\ call = "pending" /\ cpc = "start"
  /\ val = 0 /\ recvErr = "nil" /\ got = <<>> /\ seenErr = "nil"
  /\ reply = Zero /\ finErr = "nil" /\ canceled = FALSE
  /\ sent = 0 /\ recvPos = 0 /\ srvEnd = "open"
  /\ srvReply = Zero /\ srvErr = "nil"

(***************************************************************************)
(* The ipc.Call. Recv returns the next entry in flight, io.EOF once the    *)
(* server returned, the stream's error once it broke, or a cancellation    *)
(* error once the call is cancelled (which may also win over an entry in   *)
(* flight); with none of these it blocks. Finish blocks until the server   *)
(* is done and then returns its (reply, err), or returns at once, with     *)
(* either outcome, once cancelled; its own error leaves reply zero.        *)
(***************************************************************************)
RecvOutcomes ==
  LET inFlight == recvPos < sent IN
     (IF inFlight THEN {"item"} ELSE {})
  \cup (IF canceled THEN {"Canceled"} ELSE {})
  \cup (IF ~inFlight /\ srvEnd = "eof" THEN {"EOF"} ELSE {})
  \cup (IF ~inFlight /\ srvEnd = "failed" THEN {"StreamErr"} ELSE {})

FinishOutcomes ==
  (IF canceled THEN {[ierr |-> "Canceled", reply |-> Zero, err |-> "nil"]} ELSE {})
  \cup (IF srvEnd = "eof"
        THEN {[ierr |-> "nil", reply |-> srvReply, err |-> srvErr]} ELSE {})
  \cup (IF srvEnd = "failed"
        THEN {[ierr |-> "StreamErr", reply |-> Zero, err |-> "nil"]} ELSE {})
-----------------------------------------------------------------------------
\* clientStubLogFile.ReadLog: StartCall; on its error return it, else the
\* call with its stream iterator.
ReadLog ==
  /\ cpc = "start"
  /\ \/ /\ call' = "ok" /\ cpc' = "advance"
        /\ UNCHANGED finErr
     \/ /\ call' = "failed" /\ cpc' = "done"
        /\ finErr' = "StartErr"
  /\ UNCHANGED <<val, recvErr, got, seenErr, reply, canceled, sent, recvPos,
                 srvEnd, srvReply, srvErr>>

\* Mutant: Advance returns true on io.EOF too.
AdvanceEOFTrue ==
  /\ cpc = "advance"
  /\ Len(got) <= MaxItems
  /\ \E out \in RecvOutcomes :
       /\ recvErr' = IF out = "item" THEN "nil" ELSE out
       /\ val' = IF out = "item" THEN recvPos + 1 ELSE 0
       /\ recvPos' = IF out = "item" THEN recvPos + 1 ELSE recvPos
       /\ cpc' = IF out \in {"item", "EOF"} THEN "value" ELSE "err"
  /\ UNCHANGED <<call, got, seenErr, reply, finErr, canceled, sent, srvEnd,
                 srvReply, srvErr>>

\* Mutant: Advance returns Recv's verdict without keeping its error.
AdvanceNoErr ==
  /\ cpc = "advance"
  /\ Len(got) <= MaxItems
  /\ \E out \in RecvOutcomes :
       /\ val' = IF out = "item" THEN recvPos + 1 ELSE 0
       /\ recvPos' = IF out = "item" THEN recvPos + 1 ELSE recvPos
       /\ cpc' = IF out = "item" THEN "value" ELSE "err"
  /\ UNCHANGED <<call, recvErr, got, seenErr, reply, finErr, canceled, sent,
                 srvEnd, srvReply, srvErr>>

\* Mutant: every return of Recv counts as an entry received.
AdvanceCountsAll ==
  /\ cpc = "advance"
  /\ Len(got) <= MaxItems
  /\ \E out \in RecvOutcomes :
       /\ recvErr' = IF out = "item" THEN "nil" ELSE out
       /\ val' = IF out = "item" THEN recvPos + 1 ELSE 0
       /\ recvPos' = recvPos + 1
       /\ cpc' = IF out = "item" THEN "value" ELSE "err"
  /\ UNCHANGED <<call, got, seenErr, reply, finErr, canceled, sent, srvEnd,
                 srvReply, srvErr>>

\* implLogFileReadLogStreamIterator.Advance: c.val = LogEntry{};
\* c.err = c.clientCall.Recv(&c.val); return c.err == nil. Blocks in Recv.
\* (Len(got) <= MaxItems bounds the caller's loop; it never binds.)
Advance ==
  /\ cpc = "advance"
  /\ Len(got) <= MaxItems
  /\ \E out \in RecvOutcomes :
       /\ recvErr' = IF out = "item" THEN "nil" ELSE out
       /\ val' = IF out = "item" THEN recvPos + 1 ELSE 0
       /\ recvPos' = IF out = "item" THEN recvPos + 1 ELSE recvPos
       /\ cpc' = IF out = "item" THEN "value" ELSE "err"
  /\ UNCHANGED <<call, got, seenErr, reply, finErr, canceled, sent, srvEnd,
                 srvReply, srvErr>>

\* Value returns c.val; the caller takes it and advances again.
Value ==
  /\ cpc = "value"
  /\ got' = Append(got, val)
  /\ cpc' = "advance"
  /\ UNCHANGED <<call, val, recvErr, seenErr, reply, finErr, canceled, sent,
                 recvPos, srvEnd, srvReply, srvErr>>

\* The iterator's Err: io.EOF is reported as nil.
StubErr(e) == IF e = "EOF" THEN "nil" ELSE e

\* The caller asks Err once Advance returned false.
Err ==
  /\ cpc = "err"
  /\ seenErr' = StubErr(recvErr)
  /\ cpc' = "finish"
  /\ UNCHANGED <<call, val, recvErr, got, reply, finErr, canceled, sent,
                 recvPos, srvEnd, srvReply, srvErr>>

\* implLogFileReadLogCall.Finish: if ierr := c.clientCall.Finish(&reply,
\* &err); ierr != nil { err = ierr }. Blocks in the call's Finish.
Finish ==
  /\ cpc = "finish"
  /\ \E o \in FinishOutcomes :
       /\ reply' = o.reply
       /\ finErr' = IF o.ierr # "nil" THEN o.ierr ELSE o.err
  /\ cpc' = "done"
  /\ UNCHANGED <<call, val, recvErr, got, seenErr, canceled, sent, recvPos,
                 srvEnd, srvReply, srvErr>>

\* implLogFileReadLogCall.Cancel, from any goroutine, once the call exists.
Cancel ==
  /\ call = "ok" /\ ~canceled
  /\ canceled' = TRUE
  /\ UNCHANGED <<call, cpc, val, recvErr, got, seenErr, reply, finErr, sent,
                 recvPos, srvEnd, srvReply, srvErr>>

\* The service sends its next entry through the server stub's Send
\* (s.serverCall.Send(item)), which blocks while MaxBuf entries are unread
\* and returns an error once the client cancelled; the service returns
\* that error.
Send ==
  \/ /\ ~canceled /\ sent - recvPos < MaxBuf /\ sent < MaxItems
     /\ sent' = sent + 1
     /\ UNCHANGED <<srvEnd, srvReply, srvErr>>
  \/ /\ canceled /\ sent < MaxItems
     /\ srvEnd' = "eof" /\ srvErr' = "Canceled"
     /\ \E r \in Replies : srvReply' = r
     /\ UNCHANGED sent

\* ServerStubLogFile.ReadLog returns what the service returned: the
\* entries asked for are sent, or the log ended.
Return ==
  /\ \E r \in Replies, e \in {"nil", "AppErr"} :
       srvEnd' = "eof" /\ srvReply' = r /\ srvErr' = e
  /\ UNCHANGED sent

\* The connection breaks.
Break ==
  /\ srvEnd' = "failed"
  /\ UNCHANGED <<sent, srvReply, srvErr>>

Server ==
  /\ call = "ok" /\ srvEnd = "open"
  /\ Send \/ Return \/ Break
  /\ UNCHANGED <<call, cpc, val, recvErr, got, seenErr, reply, finErr,
                 canceled, recvPos>>

Client == ReadLog \/ Advance \/ Value \/ Err \/ Finish

Next == Client \/ Cancel \/ Server

(***************************************************************************)
(* Fairness: the caller's goroutine keeps running; ReadLog with Follow     *)
(* false returns once it has sent the entries asked for or reached the end *)
(* of the log, so the server is fair too. Cancel is up to the caller and   *)
(* gets no fairness.                                                       *)
(***************************************************************************)
Spec == Init /\ [][Next]_vars /\ WF_vars(Client) /\ WF_vars(Server)
-----------------------------------------------------------------------------
\* A caller whose Err() and Finish() both returned nil got every entry the
\* service sent, once each and in order, and Finish's reply is the one the
\* service returned: io.EOF reported as nil by Err must mean the stream
\* really ended, even when Cancel races the last Recv and Finish.
CleanMeansComplete ==
  cpc = "done" /\ seenErr = "nil" /\ finErr = "nil" =>
    /\ got = [i \in 1..sent |-> i]
    /\ srvEnd = "eof" /\ srvErr = "nil"
    /\ reply = srvReply

\* The generated stream implements the abstract stream: Value hands out
\* entries one at a time, and once Advance returned false the caller's
\* loop gets nothing more.
Abs == INSTANCE StreamAbs WITH delivered <- Len(got),
                               closed <- cpc \in {"err", "finish", "done"}

StreamCallRefinement == Abs!Spec

\* The caller's ReadLog, Advance loop and Finish all return when the
\* service returns or the stream breaks, whether or not Cancel is called.
ClientReturns == <>(cpc = "done")
====
