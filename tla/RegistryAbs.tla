----------------------------- MODULE RegistryAbs -----------------------------
(***************************************************************************)
(* What the comments of src/rpc/registry.go promise of the registry: a map *)
(* from protocol to registryEntry, where a RegisterProtocol replaces the   *)
(* protocol's entry, and a RegisterUnknownProtocol of a registered         *)
(* protocol makes naming.UnknownProtocol dial through it with its list of  *)
(* actual protocols, each as one atomic update.                            *)
(***************************************************************************)
EXTENDS TLC

CONSTANTS Protocols, UnknownProtocol, Impls, Lists

VARIABLE registry

Wrapped(k, impl) == [impl |-> impl, actual |-> k]

Init == registry = [k \in {} |-> <<>>]

\* RegisterProtocol(protocol, impl, p...): replace the protocol's entry.
Register(k, e) == registry' = (k :> e) @@ registry

\* RegisterUnknownProtocol(protocol, impl): the unknown protocol takes the
\* wrapped functions and the protocol's current list.
RegisterUnknown(k, impl) ==
  /\ k \in DOMAIN registry
  /\ Register(UnknownProtocol, [d |-> Wrapped(k, impl), p |-> registry[k].p])

Next ==
  \/ \E k \in Protocols, i \in Impls, l \in Lists :
       Register(k, [d |-> [impl |-> i, actual |-> "caller"], p |-> IF l = <<>> THEN <<k>> ELSE l])
  \/ \E k \in Protocols, i \in Impls : RegisterUnknown(k, i)

Spec == Init /\ [][Next]_registry
====
