------------------------------ MODULE Blessings ------------------------------
(***************************************************************************)
(* The Blessings value of src/security/blessings.go: certificate chains    *)
(* bound to one public key, their digests and unique ID, the union of      *)
(* several Blessings (with its stable sort of the chains) and the decoding *)
(* of WireBlessings into a Blessings.                                      *)
(*                                                                         *)
(* Abstractions.                                                           *)
(*  - A public key is a model value of Keys; NoKey stands for nil.         *)
(*  - A certificate extension is a small natural: the code orders          *)
(*    extensions with Go's string "<", which the sort depends on, so they  *)
(*    must be ordered values.                                              *)
(*  - A caveat is a record [id, ok]: id is its kind ("Expiry", "Const",    *)
(*    "TP" for a third-party caveat) and ok is what Validate returns       *)
(*    against the call the model considers.                                *)
(*  - A digest is a collision-free hash, so the chain itself stands for    *)
(*    its digest, and the unique ID (a hash of the concatenated digests,   *)
(*    with a hash chosen by the key) is the pair of key and digests.       *)
(*  - A claimed name, the chain's extensions joined by "/", is the         *)
(*    sequence of extensions (the join is injective: no extension holds    *)
(*    the separator).                                                      *)
(***************************************************************************)
EXTENDS Naturals, Sequences, SequencesExt

CONSTANTS
  Keys,     \* public keys of the principals
  NoKey,    \* the nil PublicKey of the zero Blessings
  Exts,     \* certificate extensions (ordered, see above)
  Caveats   \* caveats that certificates may carry

ASSUME NoKey \notin Keys
ASSUME Exts \subseteq Nat

Certificate == [ext : Exts, key : Keys, cavs : Seq(Caveats)]

\* type Blessings struct { chains, publicKey, digests, uniqueID }
ZeroBlessings ==
  [chains |-> <<>>, publicKey |-> NoKey, digests |-> <<>>, uniqueID |-> <<>>]

\* The digest a certificate chain is given by validateCertificateChain.
Digest(chain) == chain

\* func (b Blessings) IsZero() bool
IsZero(b) == b.publicKey = NoKey

\* func (b Blessings) Equivalent(blessings Blessings) bool
Equivalent(b1, b2) == b1.uniqueID = b2.uniqueID

\* func (b *Blessings) init(): hash of the digests, left nil when there are none.
InitUniqueID(b) ==
  IF b.digests = <<>> THEN b
  ELSE [b EXCEPT !.uniqueID = <<b.publicKey, b.digests>>]

\* func claimedName(chain []Certificate) string
ClaimedName(chain) == [i \in 1..Len(chain) |-> chain[i].ext]

\* func (b Blessings) String() string: the claimed names in chain order.
BlessingsString(b) == [i \in 1..Len(b.chains) |-> ClaimedName(b.chains[i])]

\* func (b Blessings) CouldHaveNames(names []string) bool
CouldHaveNames(b, names) ==
  \A n \in names : \E i \in 1..Len(b.chains) : ClaimedName(b.chains[i]) = n

\* func chainCaveats(chain []Certificate) []Caveat
ChainCaveats(chain) == FlattenSeq([i \in 1..Len(chain) |-> chain[i].cavs])

\* func (b Blessings) ThirdPartyCaveats() []Caveat
ThirdPartyCaveats(b) ==
  SelectSeq(FlattenSeq([i \in 1..Len(b.chains) |-> ChainCaveats(b.chains[i])]),
            LAMBDA c : c.id = "TP")

\* func (b Blessings) publicKeyDER() []byte: subject key of the first chain.
PublicKeyDER(b) == Last(b.chains[1]).key

\* The key validateCertificateChain(certchains[0]) returns: the subject key
\* of the last certificate of the first chain.
DecodedKey(wire) == Last(wire[1]).key

\* func wireBlessingsToNative(wire WireBlessings, native *Blessings) error
\* The chains are checked in order: an empty chain is EmptyChain, a chain
\* bound to another key than the first is MultiplePublicKeys. The result is
\* [err, b], err being "ok" or the error returned.
RECURSIVE WireError(_, _)
WireError(wire, i) ==
  IF i > Len(wire) THEN "ok"
  ELSE IF wire[i] = <<>> THEN "EmptyChain"
  ELSE IF Last(wire[i]).key # Last(wire[1]).key THEN "MultiplePublicKeys"
  ELSE WireError(wire, i + 1)

WireBlessingsToNative(wire) ==
  IF wire = <<>> THEN [err |-> "ok", b |-> ZeroBlessings]
  ELSE IF WireError(wire, 1) # "ok" THEN [err |-> WireError(wire, 1), b |-> ZeroBlessings]
  ELSE [err |-> "ok",
        b |-> InitUniqueID([chains    |-> wire,
                            publicKey |-> DecodedKey(wire),
                            digests   |-> [i \in 1..Len(wire) |-> Digest(wire[i])],
                            uniqueID  |-> <<>>])]

\* func MarshalBlessings(b Blessings) WireBlessings
MarshalBlessings(b) == b.chains

\* func (b blessingsSorter) Less(i, j int) bool: shorter chains first, then
\* the extensions compared in order.
RECURSIVE ExtsLess(_, _, _)
ExtsLess(ci, cj, idx) ==
  /\ idx <= Len(ci)
  /\ \/ ci[idx].ext < cj[idx].ext
     \/ /\ ci[idx].ext = cj[idx].ext
        /\ ExtsLess(ci, cj, idx + 1)

\* Mutant: chains ordered by length only.
ChainLessByLength(ci, cj) == Len(ci) < Len(cj)

ChainLess(ci, cj) ==
  \/ Len(ci) < Len(cj)
  \/ Len(ci) = Len(cj) /\ ExtsLess(ci, cj, 1)

\* sort.Stable(blessingsSorter(ret)): a stable sort of the chains, each
\* digest moved with its chain by Swap. Pairs are <<chain, digest>>; an
\* element is inserted after every element not greater than it, which keeps
\* the relative order of equal elements.
RECURSIVE InsertStable(_, _)
InsertStable(x, sorted) ==
  IF sorted = <<>> \/ ChainLess(x[1], Head(sorted)[1])
  THEN <<x>> \o sorted
  ELSE <<Head(sorted)>> \o InsertStable(x, Tail(sorted))

SortStable(pairs) == FoldLeft(LAMBDA s, x : InsertStable(x, s), <<>>, pairs)

\* Mutant: Swap moves the chains but not their digests.
SortChainsOnly(b) ==
  LET pairs  == [i \in 1..Len(b.chains) |-> <<b.chains[i], b.digests[i]>>]
      sorted == SortStable(pairs)
  IN [b EXCEPT !.chains = [i \in 1..Len(sorted) |-> sorted[i][1]]]

SortBlessings(b) ==
  LET pairs  == [i \in 1..Len(b.chains) |-> <<b.chains[i], b.digests[i]>>]
      sorted == SortStable(pairs)
  IN [b EXCEPT !.chains  = [i \in 1..Len(sorted) |-> sorted[i][1]],
               !.digests = [i \in 1..Len(sorted) |-> sorted[i][2]]]

\* func UnionOfBlessings(blessings ...Blessings) (Blessings, error)
\* Only the leading zero values are dropped before the length switch; a zero
\* value further on is skipped inside the loop.
RECURSIVE DropLeadingZero(_)
DropLeadingZero(bs) ==
  IF bs # <<>> /\ IsZero(Head(bs)) THEN DropLeadingZero(Tail(bs)) ELSE bs

UnionOfBlessings(blessings) ==
  LET bs      == DropLeadingZero(blessings)
      nonzero == SelectSeq(bs, LAMBDA b : ~IsZero(b))
  IN
  IF bs = <<>> THEN [err |-> "ok", b |-> ZeroBlessings]
  ELSE IF Len(bs) = 1 THEN [err |-> "ok", b |-> bs[1]]
  ELSE IF \E i \in 2..Len(bs) : ~IsZero(bs[i]) /\ PublicKeyDER(bs[i]) # PublicKeyDER(bs[1])
       THEN [err |-> "InvalidUnion", b |-> ZeroBlessings]
  ELSE LET merged ==
             [chains    |-> FlattenSeq([i \in 1..Len(nonzero) |-> nonzero[i].chains]),
              digests   |-> FlattenSeq([i \in 1..Len(nonzero) |-> nonzero[i].digests]),
              publicKey |-> PublicKeyDER(bs[1]),
              uniqueID  |-> <<>>]
       IN [err |-> "ok", b |-> InitUniqueID(SortBlessings(merged))]

(***************************************************************************)
(* Structural facts every Blessings value should satisfy (blessings.go     *)
(* comments on the struct and on IsZero).                                  *)
(***************************************************************************)
WellFormed(b) ==
  /\ (b.publicKey = NoKey) <=> (b.chains = <<>>)
  /\ \A i \in 1..Len(b.chains) : b.chains[i] # <<>> /\ Last(b.chains[i]).key = b.publicKey
  /\ Len(b.digests) = Len(b.chains)
  /\ \A i \in 1..Len(b.chains) : b.digests[i] = Digest(b.chains[i])
  /\ b.uniqueID = IF b.chains = <<>> THEN <<>> ELSE <<b.publicKey, b.digests>>
=============================================================================
