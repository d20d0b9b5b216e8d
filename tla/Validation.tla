----------------------------- MODULE Validation -----------------------------
(***************************************************************************)
(* The validation pipeline of src/security/blessings.go: which names of a  *)
(* Blessings a principal accepts, in the call mode (RemoteBlessingNames,   *)
(* with its batch call to the injected caveat validator) and in the        *)
(* signing mode (SigningBlessingNames), and the SigningBlessings subset.   *)
(*                                                                         *)
(* The BlessingRoots implementation is not in the source tree (only its    *)
(* interface in model.go); a principal's roots are a set of [key, pattern] *)
(* and a pattern is matched, as the interface and the spec describe, by    *)
(* the names it is a prefix of.                                            *)
(*                                                                         *)
(* An error is a string: "Unrecognized" for a Recognized failure,          *)
(* "MisconfiguredRoots", "InvalidSigningBlessingCaveat", or the id of the  *)
(* caveat whose Validate failed. "nil" is the nil error.                   *)
(***************************************************************************)
EXTENDS Blessings

Root == [key : Keys, pattern : Seq(Exts)]

\* BlessingPattern.MatchedBy (external): a pattern matches its extensions.
MatchedBy(pattern, name) == IsPrefix(pattern, name)

\* BlessingRoots.Recognized(root, blessing) == nil
Recognized(roots, key, name) ==
  \E r \in roots : r.key = key /\ MatchedBy(r.pattern, name)

\* Mutant: the chain's subject key looked up instead of its root key.
RootErrSubjectKey(roots, chain) ==
  IF Recognized(roots, Last(chain).key, ClaimedName(chain)) THEN "nil" ELSE "Unrecognized"

RootErr(roots, chain) ==
  IF Recognized(roots, chain[1].key, ClaimedName(chain)) THEN "nil" ELSE "Unrecognized"

\* The first caveat of a sequence whose Validate fails, else nil.
FirstFailure(cavs) ==
  LET bad == SelectSeq(cavs, LAMBDA c : ~c.ok)
  IN IF bad = <<>> THEN "nil" ELSE bad[1].id

\* func defaultCaveatValidation(ctx, call, chains [][]Caveat) []error
DefaultCaveatValidation(sets) == [i \in 1..Len(sets) |-> FirstFailure(sets[i])]

\* Mutant: every caveat kind accepted for signing.
IsSigningAnyCaveat(cav) == TRUE

\* func isSigningBlessingCaveat(cav Caveat) bool
IsSigningBlessingCaveat(cav) == cav.id \in {"Expiry", "Const"}

\* func validateCaveatsForSigning(ctx, call, chain []Certificate) error:
\* the caveats in order, a non-signing one failing before it is validated.
RECURSIVE SigningErr(_)
SigningErr(cavs) ==
  IF cavs = <<>> THEN "nil"
  ELSE IF ~IsSigningBlessingCaveat(Head(cavs)) THEN "InvalidSigningBlessingCaveat"
  ELSE IF ~Head(cavs).ok THEN Head(cavs).id
  ELSE SigningErr(Tail(cavs))

ValidateCaveatsForSigning(chain) == SigningErr(ChainCaveats(chain))

\* func SigningBlessings(blessings Blessings) Blessings: the chains whose
\* caveats are all signing caveats; only chains and publicKey are set.
SigningBlessings(b) ==
  LET kept == SelectSeq(b.chains,
                LAMBDA ch : \A i \in 1..Len(ChainCaveats(ch)) :
                              IsSigningBlessingCaveat(ChainCaveats(ch)[i]))
  IN [ZeroBlessings EXCEPT !.chains = kept,
                           !.publicKey = IF kept # <<>> THEN b.publicKey ELSE NoKey]

\* The result of a name query: validated names, rejected [name, err] pairs,
\* and whether the call panicked.
NoNames == [validated |-> <<>>, rejected |-> <<>>, panicked |-> FALSE]

Rejection(chain, err) == [name |-> ClaimedName(chain), err |-> err]

\* func SigningBlessingNames(ctx, p Principal, blessings Blessings)
SigningBlessingNames(roots, b) ==
  LET verdict(ch) == IF RootErr(roots, ch) # "nil" THEN RootErr(roots, ch)
                     ELSE ValidateCaveatsForSigning(ch)
      okChains  == SelectSeq(b.chains, LAMBDA ch : verdict(ch) = "nil")
      badChains == SelectSeq(b.chains, LAMBDA ch : verdict(ch) # "nil")
  IN IF IsZero(b) THEN NoNames
     ELSE [validated |-> [i \in 1..Len(okChains) |-> ClaimedName(okChains[i])],
           rejected  |-> [i \in 1..Len(badChains) |-> Rejection(badChains[i], verdict(badChains[i]))],
           panicked  |-> FALSE]

(***************************************************************************)
(* func RemoteBlessingNames(ctx, call Call) ([]string, []RejectedBlessing) *)
(* is split at its call to the injected validator: PendingChains are the   *)
(* chains whose caveat sets are submitted (recognized chains with          *)
(* caveats), and RemoteBlessingNamesWith finishes the function given the   *)
(* validator's results. rootsOK is FALSE when the call has no local        *)
(* principal or roots (errMisconfiguredRoots).                             *)
(***************************************************************************)
RemoteRootErr(rootsOK, roots, chain) ==
  IF ~rootsOK THEN "MisconfiguredRoots" ELSE RootErr(roots, chain)

PendingChains(rootsOK, roots, b) ==
  SelectSeq(b.chains, LAMBDA ch : RemoteRootErr(rootsOK, roots, ch) = "nil"
                                  /\ ChainCaveats(ch) # <<>>)

PendingCaveatSets(rootsOK, roots, b) ==
  LET pend == PendingChains(rootsOK, roots, b)
  IN [i \in 1..Len(pend) |-> ChainCaveats(pend[i])]

\* Mutant: only a batch longer than pendingNames panics (Go's index out of
\* range when ranging over it); a shorter one goes unnoticed.
BatchNotTooLong(pend, results) == Len(results) <= Len(pend)

\* The batch size check after the call to the validator.
BatchSizeOK(pend, results) == Len(results) = Len(pend)

RemoteBlessingNamesWith(rootsOK, roots, b, results) ==
  LET rootBad  == SelectSeq(b.chains, LAMBDA ch : RemoteRootErr(rootsOK, roots, ch) # "nil")
      noCavs   == SelectSeq(b.chains, LAMBDA ch : RemoteRootErr(rootsOK, roots, ch) = "nil"
                                                  /\ ChainCaveats(ch) = <<>>)
      pend     == PendingChains(rootsOK, roots, b)
      okIdx    == SelectSeq([i \in 1..Len(results) |-> i], LAMBDA i : results[i] = "nil")
      badIdx   == SelectSeq([i \in 1..Len(results) |-> i], LAMBDA i : results[i] # "nil")
  IN
  IF IsZero(b) THEN NoNames
  ELSE IF pend # <<>> /\ ~BatchSizeOK(pend, results)
       THEN [NoNames EXCEPT !.panicked = TRUE]
  ELSE [validated |-> [i \in 1..Len(noCavs) |-> ClaimedName(noCavs[i])]
                      \o [i \in 1..Len(okIdx) |-> ClaimedName(pend[okIdx[i]])],
        rejected  |-> [i \in 1..Len(rootBad) |-> Rejection(rootBad[i], RemoteRootErr(rootsOK, roots, rootBad[i]))]
                      \o [i \in 1..Len(badIdx) |-> Rejection(pend[badIdx[i]], results[badIdx[i]])],
        panicked  |-> FALSE]
=============================================================================
