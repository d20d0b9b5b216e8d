------------------------------ MODULE MCFakeID ------------------------------
EXTENDS FakeID

\* FakePrivateID names: empty (the bare "fake"), one part and two parts.
MCNames == {<<>>, <<"a">>, <<"a", "b">>}

\* Blessing names: two distinct parts, the empty name and a name that
\* itself holds the separator.
MCBlessingNames == {<<"a">>, <<"b">>, <<"">>, <<"a", "b">>}

MCMaxLen == 5

\* Every chain of up to MCMaxLen parts over the parts names use, exact
\* and followed by AllPrincipals.
MCChains == UNION {[1..l -> {"fake", "a", "b", ""}] : l \in 1..MCMaxLen}
MCPatterns == MCChains \cup {Append(c, AllPrincipals) : c \in MCChains}
                       \cup {<<AllPrincipals>>}
====
