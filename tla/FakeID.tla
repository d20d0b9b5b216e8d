------------------------------- MODULE FakeID -------------------------------
(***************************************************************************)
(* The placeholder identity of src/security/fakeid.go: a fakeID is its     *)
(* name, a chain of blessing names joined by "/", and implements PublicID  *)
(* and PrivateID at once. A name is modelled as the sequence of its parts, *)
(* the strings.Split of it on chainSeparator: joining two names with "/"  *)
(* is the concatenation of their parts, and a part is a string of Parts.   *)
(*                                                                         *)
(* The state is the PrivateID in hand and the PublicID last obtained from  *)
(* it: FakePrivateID makes one, Bless makes a PublicID from it, Derive     *)
(* turns a PublicID back into a PrivateID. Match is checked of both.       *)
(***************************************************************************)
EXTENDS Naturals, Sequences

CONSTANTS
  Names,          \* FakePrivateID / FakePublicID names, each as its parts
  BlessingNames,  \* blessing names passed to Bless, each as its parts
  Patterns,       \* the principal patterns Match is asked of, as parts
  MaxLen          \* bound on the number of parts of a name

\* security.AllPrincipals, the pattern every principal matches.
AllPrincipals == "*"

\* Mutant: the prefix is left out.
fakeNameNoPrefix(name) == IF name = <<>> THEN <<"fake">> ELSE name

\* fakeName: "fake", or "fake/" + name for a non-empty name.
fakeName(name) == IF name = <<>> THEN <<"fake">> ELSE <<"fake">> \o name

VARIABLES
  priv,     \* the PrivateID in hand
  pub,      \* the PublicID last blessed by, or taken from, a PrivateID
  blesser   \* the PrivateID that blessed pub, <<>> if pub was not blessed

vars == <<priv, pub, blesser>>

\* The parts a name can be made of.
Parts == UNION {{n[i] : i \in DOMAIN n} : n \in Names \cup BlessingNames} \cup {"fake"}

\* A fake identity's name: a bounded chain of parts whose root is "fake".
IsFakeName(s) ==
  /\ s \in Seq(Parts)
  /\ Len(s) \in 1..MaxLen
  /\ s[1] = "fake"

TypeOK ==
  /\ IsFakeName(priv)
  /\ IsFakeName(pub)
  /\ blesser = <<>> \/ IsFakeName(blesser)
-----------------------------------------------------------------------------
\* Mutant: the last pattern part is compared even after a longer name.
matchesPatternMinOffByOne(name, pattern) ==
  LET nameLen == Len(name)
      patternLen == Len(pattern)
      glob == pattern[patternLen] = AllPrincipals
      min == IF glob /\ nameLen > patternLen THEN patternLen - 1 ELSE nameLen
  IN /\ glob \/ nameLen <= patternLen
     /\ \A i \in 1..min : pattern[i] = name[i]

\* matchesPattern: a pattern ending in AllPrincipals matches on its other
\* parts, any other pattern also bounds the name's length; the loop
\* compares the first min parts.
matchesPattern(name, pattern) ==
  LET nameLen == Len(name)
      patternLen == Len(pattern)
      glob == pattern[patternLen] = AllPrincipals
      min == IF glob /\ nameLen > patternLen - 1 THEN patternLen - 1 ELSE nameLen
  IN /\ glob \/ nameLen <= patternLen
     /\ \A i \in 1..min : pattern[i] = name[i]

\* matchPrincipalPattern, called by fakeID.Match.
matchPrincipalPattern(name, pattern) ==
  pattern = <<AllPrincipals>> \/ matchesPattern(name, pattern)

Match(id, pattern) == matchPrincipalPattern(id, pattern)

\* Mutant: Bless appends the blessing name without the separator.
BlessNoSeparator(id, blessingName) ==
  Append(SubSeq(id, 1, Len(id) - 1), id[Len(id)] \o Head(blessingName))
    \o Tail(blessingName)

\* fakeID.Bless: the blessee is ignored, the result is the blesser's name
\* and the blessing name joined by chainSeparator.
Bless(id, blessingName) == id \o blessingName

Init ==
  \E name \in Names :
    /\ priv = fakeName(name)
    /\ pub = fakeName(name)
    /\ blesser = <<>>

\* FakePrivateID(name) / FakePublicID(name).
NewFakeID ==
  \E name \in Names :
    /\ priv' = fakeName(name)
    /\ pub' = fakeName(name)
    /\ blesser' = <<>>

\* priv.Bless(blessee, blessingName, ...), within the bound on names.
BlessStep ==
  \E blessingName \in BlessingNames :
    /\ Len(priv) + Len(blessingName) <= MaxLen
    /\ pub' = Bless(priv, blessingName)
    /\ blesser' = priv
    /\ UNCHANGED priv

\* priv.Derive(pub): a fakeID PublicID is the PrivateID itself.
Derive ==
  /\ priv' = pub
  /\ UNCHANGED <<pub, blesser>>

Next == NewFakeID \/ BlessStep \/ Derive

Spec == Init /\ [][Next]_vars
-----------------------------------------------------------------------------
\* The matching the comment on matchesPattern documents: p_0/.../p_k
\* matches n_0/.../n_m iff m <= k and p_i = n_i for i in 0..m, and
\* p_0/.../p_k/* iff p_i = n_i for i in 0..min(m, k).
DocMatch(n, p) ==
  IF p[Len(p)] = AllPrincipals
  THEN \A i \in 1..Len(p) - 1 : i <= Len(n) => p[i] = n[i]
  ELSE Len(n) <= Len(p) /\ \A i \in 1..Len(n) : p[i] = n[i]

\* fakeID.Match of every identity in hand, against every pattern, is the
\* documented matching (the length check and the min of matchesPattern).
MatchesAsDocumented ==
  \A id \in {priv, pub}, p \in Patterns : Match(id, p) = DocMatch(id, p)

\* A blessing made by Bless matches the blesser's name followed by
\* AllPrincipals, and the blesser matches the blessing's exact name (a
\* blesser is a prefix of what it blesses).
BlessingMatchesBlesser ==
  blesser # <<>> =>
    /\ Match(pub, Append(blesser, AllPrincipals))
    /\ Match(blesser, pub)
====
