----------------------------- MODULE MCRegistry -----------------------------
EXTENDS Registry

\* Three goroutines: enough for a RegisterUnknownProtocol to race with a
\* re-registration of its protocol and another registration of its own.
MCProcs == {"g1", "g2", "g3"}
MCProtocols == {"tcp", "ws"}
MCImpls == {"f1", "f2"}
MCLists == {<<>>, <<"tcp4", "tcp6">>}

\* The goroutines run the same code, so any permutation of them is a
\* symmetry of the model.
MCSymmetry == Permutations(MCProcs)
====
