----------------------------- MODULE Principal ------------------------------
(***************************************************************************)
(* Principals issuing, combining, decoding and validating Blessings.       *)
(*                                                                         *)
(* pool holds every Blessings value built so far (by BlessSelf, Bless,     *)
(* UnionOfBlessings or decoding WireBlessings put together from chains in  *)
(* circulation); roots[p] is principal p's BlessingRoots;                  *)
(* caveatValidation is the process-wide validator of blessings.go with its *)
(* single-override flag. A panic (a second production override, or a      *)
(* validator returning a wrongly sized batch) aborts the process.          *)
(*                                                                         *)
(* The name queries (RemoteBlessingNames, SigningBlessingNames,            *)
(* SigningBlessings) change no state: their results are functions of pool, *)
(* roots and the validator, and the properties state them for every        *)
(* principal, every Blessings in the pool and every batch the validator    *)
(* may return. The one state change a query makes, its panic, is the       *)
(* action RemoteNamesPanic.                                                *)
(*                                                                         *)
(* Bless, BlessSelf and AddToRoots are implemented outside the source tree *)
(* (model.go holds their interface); they are modelled from the interface  *)
(* comments and the spec.                                                  *)
(***************************************************************************)
EXTENDS Validation, FiniteSets

CONSTANTS
  MaxChainLen,  \* longest certificate chain built
  MaxChains,    \* most chains in one Blessings
  MaxPool,      \* most Blessings values built
  Verifiers     \* the principals whose BlessingRoots are modelled

ASSUME Verifiers \subseteq Keys

VARIABLES pool, roots, caveatValidation, caveatValidationOverridden, panicked

vars == <<pool, roots, caveatValidation, caveatValidationOverridden, panicked>>

Validators == {"default", "override"}
\* What an overriding validator may return for one caveat set.
ResultVals == {"nil", "Denied"}

TypeOK ==
  /\ \A b \in pool :
       /\ b.publicKey \in Keys \cup {NoKey}
       /\ b.chains \in Seq(Seq(Certificate))
       /\ b.digests \in Seq(Seq(Certificate))
  /\ roots \in [Verifiers -> SUBSET Root]
  /\ caveatValidation \in Validators
  /\ caveatValidationOverridden \in BOOLEAN
  /\ panicked \in BOOLEAN

Init ==
  /\ pool = {}
  /\ roots = [p \in Verifiers |-> {}]
  /\ caveatValidation = "default"
  /\ caveatValidationOverridden = FALSE
  /\ panicked = FALSE

Built(b) ==
  /\ Len(b.chains) <= MaxChains
  /\ Cardinality(pool \cup {b}) <= MaxPool
  /\ pool' = pool \cup {b}

\* Principal.BlessSelf(name, caveats...): a self-signed one-certificate chain.
BlessSelf(p, e, cavs) ==
  /\ ~panicked
  /\ Built(InitUniqueID([chains    |-> << <<[ext |-> e, key |-> p, cavs |-> cavs]>> >>,
                         publicKey |-> p,
                         digests   |-> << Digest(<<[ext |-> e, key |-> p, cavs |-> cavs]>>) >>,
                         uniqueID  |-> <<>>]))
  /\ UNCHANGED <<roots, caveatValidation, caveatValidationOverridden, panicked>>

\* Principal.Bless(key, with, extension, caveat): one certificate appended to
\* every chain of with, which must be bound to the blessing principal.
BlessedChains(with, key, e, c) ==
  [i \in 1..Len(with.chains) |-> Append(with.chains[i], [ext |-> e, key |-> key, cavs |-> <<c>>])]

Bless(p, key, with, e, c) ==
  /\ ~panicked
  /\ with.publicKey = p
  /\ \A i \in 1..Len(with.chains) : Len(with.chains[i]) < MaxChainLen
  /\ LET chains == BlessedChains(with, key, e, c)
     IN Built(InitUniqueID([chains    |-> chains,
                            publicKey |-> key,
                            digests   |-> [i \in 1..Len(chains) |-> Digest(chains[i])],
                            uniqueID  |-> <<>>]))
  /\ UNCHANGED <<roots, caveatValidation, caveatValidationOverridden, panicked>>

\* UnionOfBlessings(b1, b2); an error leaves nothing built.
Union(b1, b2) ==
  LET r == UnionOfBlessings(<<b1, b2>>) IN
  /\ ~panicked
  /\ r.err = "ok"
  /\ ~IsZero(r.b)
  /\ Built(r.b)
  /\ UNCHANGED <<roots, caveatValidation, caveatValidationOverridden, panicked>>

\* Decoding WireBlessings made of chains in circulation (or an empty chain).
Decode(wire) ==
  LET r == WireBlessingsToNative(wire) IN
  /\ ~panicked
  /\ r.err = "ok"
  /\ ~IsZero(r.b)
  /\ Built(r.b)
  /\ UNCHANGED <<roots, caveatValidation, caveatValidationOverridden, panicked>>

\* Principal.AddToRoots(blessings): each chain's root key becomes an
\* authority on the pattern of its first extension (BlessingRoots.Add).
AddToRoots(p, b) ==
  /\ ~panicked
  /\ roots' = [roots EXCEPT ![p] = @ \cup {[key |-> b.chains[i][1].key,
                                            pattern |-> <<b.chains[i][1].ext>>] :
                                           i \in 1..Len(b.chains)}]
  /\ UNCHANGED <<pool, caveatValidation, caveatValidationOverridden, panicked>>

\* func overrideCaveatValidation(fn): a second call panics.
OverrideCaveatValidation ==
  /\ ~panicked
  /\ IF caveatValidationOverridden
     THEN /\ panicked' = TRUE
          /\ UNCHANGED <<caveatValidation, caveatValidationOverridden>>
     ELSE /\ caveatValidationOverridden' = TRUE
          /\ caveatValidation' = "override"
          /\ UNCHANGED panicked
  /\ UNCHANGED <<pool, roots>>

\* func setCaveatValidationForTest(fn): no single-assignment guard.
SetCaveatValidationForTest(fn) ==
  /\ ~panicked
  /\ caveatValidation' = fn
  /\ UNCHANGED <<pool, roots, caveatValidationOverridden, panicked>>

\* What getCaveatValidation()(ctx, call, sets) may return: the default
\* validator's results, or any batch of any size near Len(sets) for an
\* overriding validator.
ValidatorResults(v, sets) ==
  IF v = "default" THEN {DefaultCaveatValidation(sets)}
  ELSE UNION {[1..n -> ResultVals] : n \in {k \in (Len(sets) - 1)..(Len(sets) + 1) : k >= 0}}

\* The results RemoteBlessingNames(ctx, call) of principal p may produce on
\* the remote blessings b: one per batch the current validator may return.
RemoteOutcomes(p, b, rootsOK) ==
  LET sets == PendingCaveatSets(rootsOK, roots[p], b) IN
  { RemoteBlessingNamesWith(rootsOK, roots[p], b, results) :
      results \in IF sets = <<>> THEN {<<>>} ELSE ValidatorResults(caveatValidation, sets) }

\* RemoteBlessingNames panics on a batch of the wrong size.
RemoteNamesPanic(p, b, rootsOK) ==
  /\ ~panicked
  /\ \E out \in RemoteOutcomes(p, b, rootsOK) : out.panicked
  /\ panicked' = TRUE
  /\ UNCHANGED <<pool, roots, caveatValidation, caveatValidationOverridden>>

\* BlessSelf is given no caveats, Bless exactly the one it requires.
CaveatSeqs == {<<>>}
Chains == UNION {Range(b.chains) : b \in pool}
Wires == UNION {[1..n -> Chains \cup {<<>>}] : n \in 1..MaxChains}

Next ==
  \/ \E p \in Keys, e \in Exts, cavs \in CaveatSeqs : BlessSelf(p, e, cavs)
  \/ \E p, key \in Keys, with \in pool, e \in Exts, c \in Caveats : Bless(p, key, with, e, c)
  \/ \E b1, b2 \in pool \cup {ZeroBlessings} : Union(b1, b2)
  \/ \E wire \in Wires : Decode(wire)
  \/ \E p \in Verifiers, b \in pool : AddToRoots(p, b)
  \/ OverrideCaveatValidation
  \/ \E fn \in Validators : SetCaveatValidationForTest(fn)
  \/ \E p \in Verifiers, b \in pool, rootsOK \in BOOLEAN : RemoteNamesPanic(p, b, rootsOK)

Spec == Init /\ [][Next]_vars

-----------------------------------------------------------------------------
(***************************************************************************)
(* Properties.                                                             *)
(***************************************************************************)
NamesOf(chains) == [i \in 1..Len(chains) |-> ClaimedName(chains[i])]
RejectedNames(out) == [i \in 1..Len(out.rejected) |-> out.rejected[i].name]

\* The values SigningBlessings returns for the Blessings built so far.
SigningPool == {SigningBlessings(b) : b \in pool} \ {ZeroBlessings}

\* Every Blessings value built by BlessSelf, Bless, UnionOfBlessings or
\* decoding keeps the struct's invariants: publicKey nil iff no chains,
\* every chain bound to publicKey, digests[i] the digest of chains[i] (the
\* sort in UnionOfBlessings moves both), uniqueID the hash of the digests.
PoolWellFormed == \A b \in pool : WellFormed(b)

\* UnionOfBlessings sorts the chains "so that there is a consistent
\* ordering, irrespective of the ordering of arguments": for two non-zero
\* Blessings, both argument orders succeed or fail alike and print the same.
UnionNamesOrderIndependent ==
  \A b1, b2 \in pool :
    LET r12 == UnionOfBlessings(<<b1, b2>>)
        r21 == UnionOfBlessings(<<b2, b1>>)
    IN /\ r12.err = r21.err
       /\ BlessingsString(r12.b) = BlessingsString(r21.b)

\* The spec's stronger claim: the UniqueID of a union does not depend on the
\* order of the arguments either.
UnionIDOrderIndependent ==
  \A b1, b2 \in pool :
    UnionOfBlessings(<<b1, b2>>).b.uniqueID = UnionOfBlessings(<<b2, b1>>).b.uniqueID

\* RemoteBlessingNames accounts for every chain exactly once: unless it
\* panics, its validated and rejected names are, as a multiset, the claimed
\* names of the presented blessings, whatever batch the validator returned.
RemoteNamesPartition ==
  \A p \in Verifiers, b \in pool, rootsOK \in BOOLEAN :
    \A out \in RemoteOutcomes(p, b, rootsOK) :
      ~out.panicked =>
        ToBag(out.validated) (+) ToBag(RejectedNames(out)) = ToBag(NamesOf(b.chains))

\* With the default validator, RemoteBlessingNames never panics and validates
\* exactly the names of the chains whose root the local principal
\* recognizes for that name and whose caveats all validate, once per chain.
AcceptableRemote(r, ch) ==
  /\ Recognized(r, ch[1].key, ClaimedName(ch))
  /\ \A i \in 1..Len(ChainCaveats(ch)) : ChainCaveats(ch)[i].ok

DefaultRemoteNamesExact ==
  caveatValidation = "default" =>
    \A p \in Verifiers, b \in pool, rootsOK \in BOOLEAN :
      \A out \in RemoteOutcomes(p, b, rootsOK) :
        /\ ~out.panicked
        /\ ToBag(out.validated) =
             ToBag(NamesOf(SelectSeq(b.chains, LAMBDA ch : rootsOK /\ AcceptableRemote(roots[p], ch))))

\* SigningBlessingNames validates exactly the names of recognized chains
\* whose caveats are all Expiry or Const caveats that validate; a chain with a
\* third-party caveat is rejected even when that caveat would validate.
AcceptableSigning(r, ch) ==
  /\ Recognized(r, ch[1].key, ClaimedName(ch))
  /\ \A i \in 1..Len(ChainCaveats(ch)) :
       ChainCaveats(ch)[i].id \in {"Expiry", "Const"} /\ ChainCaveats(ch)[i].ok

SigningNamesExact ==
  \A p \in Verifiers, b \in pool \cup SigningPool :
    ToBag(SigningBlessingNames(roots[p], b).validated) =
      ToBag(NamesOf(SelectSeq(b.chains, LAMBDA ch : AcceptableSigning(roots[p], ch))))

\* Blessings with the same UniqueID are "interchangeable for any
\* authorization decisions" (UniqueID's comment): two values SigningBlessings
\* returns that are Equivalent carry the same names.
SigningEquivalentSameNames ==
  \A s1, s2 \in SigningPool :
    Equivalent(s1, s2) => ToSet(BlessingsString(s1)) = ToSet(BlessingsString(s2))

\* The spec (4.1) says UnionOfBlessings drops zero inputs and returns a single
\* remaining input unchanged: the union of b and the zero value is b.
UnionDropsZero ==
  \A b \in pool : UnionOfBlessings(<<b, ZeroBlessings>>).b = b
=============================================================================
