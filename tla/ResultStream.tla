---------------------------- MODULE ResultStream ----------------------------
(***************************************************************************)
(* The syncbase query result stream (src/syncbase/result_stream.go) over   *)
(* the generated client call of a streaming RPC (the RecvStream/Finish     *)
(* code every *.vdl.go stub has, e.g. src/services/watch/watch.vdl.go).    *)
(*                                                                         *)
(* Actors: the reader goroutine calling Advance, a second goroutine that   *)
(* may call Cancel once, and the server feeding the RPC stream. Every      *)
(* resultStream method runs under rs.mu; Advance holds it while blocked in *)
(* Recv and in Finish, so Advance is split at those two blocking calls:    *)
(* pc = "recv" and pc = "finish" are the states where the reader holds mu. *)
(* Cancel runs whole once it has the lock.                                 *)
(*                                                                         *)
(* An item is its position in the server's stream; curr is the position   *)
(* of the staged item (0 for nil). An error is "nil", "Canceled",          *)
(* "StreamErr" (the stream broke) or "AppErr" (the server method failed).  *)
(***************************************************************************)
EXTENDS Naturals

CONSTANTS
  MaxItems,    \* items the server may send
  MaxFinish    \* cap on the count of Finish calls (the code makes at most 1)

VARIABLES
  pc,          \* the reader: "idle", or in Advance blocked in "recv" / "finish"
  lastAdvance, \* what the reader's last Advance returned
  curr,        \* rs.curr
  err,         \* rs.err
  finished,    \* rs.finished
  finishCalls, \* calls made to call.Finish()
  canceller,   \* the other goroutine: "idle", "wait" (in Cancel, on mu), "done"
  ctxCanceled, \* the RPC's context has been cancelled (rs.cancel())
  recvPos,     \* items received by the client call
  sent,        \* items the server has sent
  srvEnd,      \* the server's stream: "open", "eof" or "failed"
  srvResult    \* what the server method returned, once "eof"

vars == <<pc, lastAdvance, curr, err, finished, finishCalls, canceller,
          ctxCanceled, recvPos, sent, srvEnd, srvResult>>

Errors == {"nil", "Canceled", "StreamErr", "AppErr"}

TypeOK ==
  /\ pc \in {"idle", "recv", "finish"}
  /\ lastAdvance \in BOOLEAN
  /\ curr \in 0..MaxItems
  /\ err \in Errors
  /\ finished \in BOOLEAN
  /\ finishCalls \in 0..MaxFinish
  /\ canceller \in {"idle", "wait", "done"}
  /\ ctxCanceled \in BOOLEAN
  /\ recvPos \in 0..sent
  /\ sent \in 0..MaxItems
  /\ srvEnd \in {"open", "eof", "failed"}
  /\ srvResult \in {"nil", "AppErr"}

\* newResultStream: nothing staged, no error, not finished.
Init ==
  /\ pc = "idle"
  /\ lastAdvance = TRUE
  /\ curr = 0
  /\ err = "nil"
  /\ finished = FALSE
  /\ finishCalls = 0
  /\ canceller = "idle"
  /\ ctxCanceled = FALSE
  /\ recvPos = 0
  /\ sent = 0
  /\ srvEnd = "open"
  /\ srvResult = "nil"

\* The reader holds rs.mu while blocked inside Advance.
Locked == pc \in {"recv", "finish"}

(***************************************************************************)
(* The RPC client call (rpc.ClientCall, not in the tree; its contract is   *)
(* the comment on the generated ClientCall interfaces). Recv returns the   *)
(* next queued item, io.EOF once the server has ended, the stream error    *)
(* once it broke, or a cancellation error once the context is cancelled    *)
(* (which may also win over a queued item); with nothing to return it      *)
(* blocks. Finish blocks until the server is done, or returns at once,     *)
(* with either outcome, if the call was cancelled.                         *)
(***************************************************************************)
RecvOutcomes ==
  LET queued == recvPos < sent IN
     (IF queued THEN {"item"} ELSE {})
  \cup (IF ctxCanceled THEN {"Canceled"} ELSE {})
  \cup (IF ~queued /\ srvEnd = "eof" THEN {"EOF"} ELSE {})
  \cup (IF ~queued /\ srvEnd = "failed" THEN {"StreamErr"} ELSE {})

FinishOutcomes ==
  (IF ctxCanceled THEN {"Canceled"} ELSE {})
  \cup (IF srvEnd = "eof" THEN {srvResult} ELSE {})

\* Mutant: the stub's Err returns the receive error as it is.
StubErrRaw(out) == out

\* The generated RecvStream().Err(): io.EOF is reported as nil.
StubErr(out) == IF out = "EOF" THEN "nil" ELSE out

-----------------------------------------------------------------------------
\* Mutant: Advance without its early return on a closed stream.
AdvanceUnguarded ==
  /\ pc = "idle"
  /\ pc' = "recv"
  /\ UNCHANGED <<lastAdvance, curr, err, finished, finishCalls, canceller,
                 ctxCanceled, recvPos, sent, srvEnd, srvResult>>

\* Mutant: the early return checks rs.err but not rs.finished.
AdvanceErrOnly ==
  /\ pc = "idle"
  /\ \/ /\ err # "nil"
        /\ lastAdvance' = FALSE
        /\ UNCHANGED pc
     \/ /\ err = "nil"
        /\ pc' = "recv"
        /\ UNCHANGED lastAdvance
  /\ UNCHANGED <<curr, err, finished, finishCalls, canceller,
                 ctxCanceled, recvPos, sent, srvEnd, srvResult>>

\* func (rs *resultStream) Advance() bool, up to its call to Recv: with an
\* error or after Finish it returns false at once.
Advance ==
  /\ pc = "idle"
  /\ \/ /\ err # "nil" \/ finished
        /\ lastAdvance' = FALSE
        /\ UNCHANGED pc
     \/ /\ err = "nil" /\ ~finished
        /\ pc' = "recv"
        /\ UNCHANGED lastAdvance
  /\ UNCHANGED <<curr, err, finished, finishCalls, canceller,
                 ctxCanceled, recvPos, sent, srvEnd, srvResult>>

\* Advance, once RecvStream().Advance() returns: an item is staged and
\* Advance returns true; a stream error is kept and Advance returns false;
\* io.EOF goes on to Finish, still under the lock.
AdvanceRecv ==
  /\ pc = "recv"
  /\ \E out \in RecvOutcomes :
       \/ /\ out = "item"
          /\ recvPos' = recvPos + 1
          /\ curr' = recvPos + 1
          /\ lastAdvance' = TRUE
          /\ pc' = "idle"
          /\ UNCHANGED err
       \/ /\ out # "item" /\ StubErr(out) # "nil"
          /\ err' = StubErr(out)
          /\ lastAdvance' = FALSE
          /\ pc' = "idle"
          /\ UNCHANGED <<recvPos, curr>>
       \/ /\ out # "item" /\ StubErr(out) = "nil"
          /\ pc' = "finish"
          /\ UNCHANGED <<recvPos, curr, err, lastAdvance>>
  /\ UNCHANGED <<finished, finishCalls, canceller, ctxCanceled, sent, srvEnd, srvResult>>

\* Mutant: rs.finished is never set.
AdvanceFinishNoFlag ==
  /\ pc = "finish"
  /\ \E r \in FinishOutcomes :
       /\ err' = r
       /\ ctxCanceled' = TRUE
       /\ finishCalls' = IF finishCalls < MaxFinish THEN finishCalls + 1 ELSE MaxFinish
       /\ lastAdvance' = FALSE
       /\ pc' = "idle"
  /\ UNCHANGED <<finished, curr, canceller, recvPos, sent, srvEnd, srvResult>>

\* Advance after io.EOF: rs.err = call.Finish(); rs.cancel(); rs.finished = true.
AdvanceFinish ==
  /\ pc = "finish"
  /\ \E r \in FinishOutcomes :
       /\ err' = r
       /\ ctxCanceled' = TRUE
       /\ finished' = TRUE
       /\ finishCalls' = IF finishCalls < MaxFinish THEN finishCalls + 1 ELSE MaxFinish
       /\ lastAdvance' = FALSE
       /\ pc' = "idle"
  /\ UNCHANGED <<curr, canceller, recvPos, sent, srvEnd, srvResult>>

\* Another goroutine calls Cancel and waits for rs.mu.
CallCancel ==
  /\ canceller = "idle"
  /\ canceller' = "wait"
  /\ UNCHANGED <<pc, lastAdvance, curr, err, finished, finishCalls,
                 ctxCanceled, recvPos, sent, srvEnd, srvResult>>

\* func (rs *resultStream) Cancel(), once it has the lock.
Cancel ==
  /\ canceller = "wait"
  /\ ~Locked
  /\ ctxCanceled' = TRUE
  /\ err' = "Canceled"
  /\ canceller' = "done"
  /\ UNCHANGED <<pc, lastAdvance, curr, finished, finishCalls, recvPos, sent, srvEnd, srvResult>>

\* The server sends an item, ends its method with a result, or the stream breaks.
ServerSend ==
  /\ srvEnd = "open"
  /\ sent < MaxItems
  /\ sent' = sent + 1
  /\ UNCHANGED <<srvEnd, srvResult>>

ServerEnd ==
  /\ srvEnd = "open"
  /\ \E r \in {"nil", "AppErr"} : srvEnd' = "eof" /\ srvResult' = r
  /\ UNCHANGED sent

ServerFail ==
  /\ srvEnd = "open"
  /\ srvEnd' = "failed"
  /\ UNCHANGED <<sent, srvResult>>

Server == (ServerSend \/ ServerEnd \/ ServerFail)
          /\ UNCHANGED <<pc, lastAdvance, curr, err, finished, finishCalls,
                         canceller, ctxCanceled, recvPos>>

Next ==
  \/ Advance
  \/ AdvanceRecv
  \/ AdvanceFinish
  \/ CallCancel
  \/ Cancel
  \/ Server

(***************************************************************************)
(* Fairness. The reader is the loop `for rs.Advance() { ... }`: it calls   *)
(* Advance again while the last call returned true, and a running          *)
(* goroutine keeps being scheduled (weak fairness). Cancel waits on a      *)
(* sync.Mutex, whose starvation mode hands the lock to a waiter that keeps *)
(* losing it, so Cancel gets strong fairness. The server is fair only in   *)
(* FairSpec: a query's stream is finite and the server does answer; in     *)
(* Spec it may stall, as a slow or partitioned server does.                *)
(***************************************************************************)
ReaderLoop == lastAdvance /\ Advance

ClientFairness ==
  /\ WF_vars(ReaderLoop)
  /\ WF_vars(AdvanceRecv)
  /\ WF_vars(AdvanceFinish)
  /\ SF_vars(Cancel)

Spec == Init /\ [][Next]_vars /\ ClientFairness

FairSpec == Spec /\ WF_vars(Server)
-----------------------------------------------------------------------------
(***************************************************************************)
(* Properties.                                                             *)
(***************************************************************************)
\* The stream is closed once it holds an error or has been finished.
Closed == err # "nil" \/ finished

\* resultStream implements the abstract stream: Advance hands out the
\* server's items in order, each once, and nothing after the stream closed
\* (by its end, an error or Cancel); a closed stream never reopens.
Abs == INSTANCE StreamAbs WITH delivered <- recvPos, closed <- Closed

StreamRefinement == Abs!Spec

\* The generated ClientCall says "Finish should be called at most once":
\* however the reader keeps calling Advance after the end, and whatever
\* Finish returned, Advance calls it only once.
FinishAtMostOnce == finishCalls <= 1

\* The reader's loop `for rs.Advance() {}` ends, with the stream closed,
\* whether the server ends, fails or the stream is cancelled.
ReaderLoopEnds == <>[](Closed /\ ~lastAdvance)

\* A goroutine calling Cancel returns from it, whatever the server does
\* (the TODO on Cancel asks for it to be non-blocking). Checked under Spec,
\* where the server may stall, by ResultStream_CancelReturns.cfg.
CancelReturns == canceller = "wait" ~> canceller = "done"

\* rs.err "is the first error encountered during streaming": once the
\* stream broke or the server method failed, Err keeps reporting that error.
StreamErrorKept == [][(err \in {"StreamErr", "AppErr"}) => (err' = err)]_vars
=============================================================================
