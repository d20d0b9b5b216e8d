------------------------------ MODULE Registry ------------------------------
(***************************************************************************)
(* The protocol registry of src/rpc/registry.go: a map from protocol name *)
(* to a registryEntry {dialer, resolver, listener, p}, guarded by the      *)
(* sync.RWMutex registryLock, and called by concurrent goroutines.         *)
(*                                                                         *)
(* Each goroutine of Procs makes one call, chosen in Init: RegisterProtocol,*)
(* RegisterUnknownProtocol, RegisteredProtocol or RegisteredProtocols. A   *)
(* call is split at every point where it takes or releases registryLock,  *)
(* and RegisterProtocol's lookup (line 52) and store (line 53) are steps   *)
(* of their own. The dialer, resolver and listener of a call are one model *)
(* value of Impls; the wrapped functions RegisterUnknownProtocol builds    *)
(* are the pair <<protocol, impl>> they call through.                      *)
(*                                                                         *)
(* registryLock follows sync.RWMutex: Lock first excludes other writers and *)
(* new readers, then waits for the readers already inside to leave.        *)
(***************************************************************************)
EXTENDS Naturals, FiniteSets, TLC

CONSTANTS
  Procs,            \* the goroutines calling into the registry
  Protocols,        \* protocol names the calls use
  UnknownProtocol,  \* naming.UnknownProtocol, not one of Protocols
  Impls,            \* the dialer/resolver/listener triples callers pass
  Lists,            \* the p... lists callers pass (<<>> among them)
  Recover           \* TRUE: the caller of a panicking call recovers it

Keys == Protocols \cup {UnknownProtocol}

\* The functions a caller passes, called with the protocol their caller
\* gives; and the wrapped functions that call impl with the protocol k.
Direct(impl) == [impl |-> impl, actual |-> "caller"]
Wrapped(k, impl) == [impl |-> impl, actual |-> k]

Entries == [d : {Direct(i) : i \in Impls} \cup {Wrapped(k, i) : k \in Protocols, i \in Impls},
            p : (Lists \ {<<>>}) \cup {<<k>> : k \in Protocols}]

\* RegisteredProtocol of an absent protocol returns the zero registryEntry.
NoEntry == [d |-> Direct("nil"), p |-> <<>>]

Calls ==
  [op : {"register"}, protocol : Protocols, impl : Impls, p : Lists]
  \cup [op : {"unknown"}, protocol : Protocols, impl : Impls]
  \cup [op : {"lookup"}, protocol : Protocols]
  \cup [op : {"list"}]

VARIABLES
  registry,  \* the map registry
  readers,   \* goroutines holding registryLock for reading
  writer,    \* registryLock is held, or wanted, by a writer
  call,      \* the call each goroutine makes
  pc,        \* where each goroutine is in its call
  key,       \* the protocol its RegisterProtocol stores under
  entry,     \* the registryEntry its RegisterProtocol stores
  present,   \* what its RegisterProtocol found at line 52
  ret        \* what its call returned

vars == <<registry, readers, writer, call, pc, key, entry, present, ret>>

Labels == {"lock", "wait", "present", "store", "unlock",
           "rlock", "get", "runlock", "done", "panicked", "crashed"}

TypeOK ==
  /\ DOMAIN registry \subseteq Keys
  /\ \A k \in DOMAIN registry : registry[k] \in Entries
  /\ readers \in 0..Cardinality(Procs)
  /\ writer \in BOOLEAN
  /\ call \in [Procs -> Calls]
  /\ pc \in [Procs -> Labels]
  /\ key \in [Procs -> Keys]
  /\ \A q \in Procs : entry[q] \in Entries \cup {NoEntry}
  /\ present \in [Procs -> BOOLEAN]
  /\ \A q \in Procs :
       CASE call[q].op \in {"register", "unknown"} -> ret[q] \in BOOLEAN
         [] call[q].op = "lookup" -> ret[q] \in Entries \cup {NoEntry}
         [] call[q].op = "list" -> ret[q] \in SUBSET Keys

\* Mutant: an empty p... is stored as it is.
ArgEntryNoDefault(c) == [d |-> Direct(c.impl), p |-> c.p]

\* RegisterProtocol's arguments: a protocol with no p... is its own list.
ArgEntry(c) == [d |-> Direct(c.impl), p |-> IF c.p = <<>> THEN <<c.protocol>> ELSE c.p]

Init ==
  /\ registry = [k \in {} |-> NoEntry]
  /\ readers = 0
  /\ writer = FALSE
  /\ call \in [Procs -> Calls]
  /\ pc = [q \in Procs |-> IF call[q].op = "register" THEN "lock" ELSE "rlock"]
  /\ key = [q \in Procs |-> IF call[q].op = "register" THEN call[q].protocol
                                                      ELSE UnknownProtocol]
  /\ entry = [q \in Procs |-> IF call[q].op = "register" THEN ArgEntry(call[q])
                                                        ELSE NoEntry]
  /\ present = [q \in Procs |-> FALSE]
  /\ ret = [q \in Procs |-> CASE call[q].op = "lookup" -> NoEntry
                                [] call[q].op = "list" -> {}
                                [] OTHER -> FALSE]
-----------------------------------------------------------------------------
\* Mutant: Lock does not exclude a writer already inside.
LockNoExclusion(q) ==
  /\ pc[q] = "lock"
  /\ writer' = TRUE
  /\ pc' = [pc EXCEPT ![q] = "wait"]
  /\ UNCHANGED <<registry, readers, call, key, entry, present, ret>>

\* registryLock.Lock(), first half: take the writer's side of the lock,
\* which keeps new readers out.
Lock(q) ==
  /\ pc[q] = "lock"
  /\ ~writer
  /\ writer' = TRUE
  /\ pc' = [pc EXCEPT ![q] = "wait"]
  /\ UNCHANGED <<registry, readers, call, key, entry, present, ret>>

\* registryLock.Lock(), second half: wait for the readers inside to leave.
WaitReaders(q) ==
  /\ pc[q] = "wait"
  /\ readers = 0
  /\ pc' = [pc EXCEPT ![q] = "present"]
  /\ UNCHANGED <<registry, readers, writer, call, key, entry, present, ret>>

\* _, present := registry[protocol]
Present(q) ==
  /\ pc[q] = "present"
  /\ present' = [present EXCEPT ![q] = key[q] \in DOMAIN registry]
  /\ pc' = [pc EXCEPT ![q] = "store"]
  /\ UNCHANGED <<registry, readers, writer, call, key, entry, ret>>

\* registry[protocol] = registryEntry{dialer, resolver, listener, p}
Store(q) ==
  /\ pc[q] = "store"
  /\ registry' = (key[q] :> entry[q]) @@ registry
  /\ pc' = [pc EXCEPT ![q] = "unlock"]
  /\ UNCHANGED <<readers, writer, call, key, entry, present, ret>>

\* Mutant: the deferred Unlock is missing.
UnlockNoRelease(q) ==
  /\ pc[q] = "unlock"
  /\ ret' = [ret EXCEPT ![q] = present[q]]
  /\ pc' = [pc EXCEPT ![q] = "done"]
  /\ UNCHANGED <<registry, readers, writer, call, key, entry, present>>

\* The deferred registryLock.Unlock(), and return present.
Unlock(q) ==
  /\ pc[q] = "unlock"
  /\ writer' = FALSE
  /\ ret' = [ret EXCEPT ![q] = present[q]]
  /\ pc' = [pc EXCEPT ![q] = "done"]
  /\ UNCHANGED <<registry, readers, call, key, entry, present>>

\* registryLock.RLock(): no writer holds or wants the lock.
RLock(q) ==
  /\ pc[q] = "rlock"
  /\ ~writer
  /\ readers' = readers + 1
  /\ pc' = [pc EXCEPT ![q] = "get"]
  /\ UNCHANGED <<registry, writer, call, key, entry, present, ret>>

\* A panic ends the program unless its caller recovers it; a recovered
\* panic leaves the goroutine's read lock held (RUnlock is not deferred).
Panic(q) ==
  /\ pc' = IF Recover THEN [pc EXCEPT ![q] = "panicked"]
                      ELSE [r \in Procs |-> IF pc[r] = "done" THEN "done" ELSE "crashed"]
  /\ UNCHANGED <<registry, readers, writer, call, key, entry, present, ret>>

\* RegisterUnknownProtocol under the read lock: panic when the protocol is
\* not registered, else copy its p; the wrapped functions and p become the
\* arguments of the RegisterProtocol(naming.UnknownProtocol, ...) to come.
GetUnknown(q) ==
  /\ pc[q] = "get" /\ call[q].op = "unknown"
  /\ \/ /\ call[q].protocol \notin DOMAIN registry
        /\ Panic(q)
     \/ /\ call[q].protocol \in DOMAIN registry
        /\ key' = [key EXCEPT ![q] = UnknownProtocol]
        /\ entry' = [entry EXCEPT ![q] =
                       [d |-> Wrapped(call[q].protocol, call[q].impl),
                        p |-> registry[call[q].protocol].p]]
        /\ pc' = [pc EXCEPT ![q] = "runlock"]
        /\ UNCHANGED <<registry, readers, writer, call, present, ret>>

\* RegisteredProtocol: e := registry[protocol], the zero entry if absent.
GetEntry(q) ==
  /\ pc[q] = "get" /\ call[q].op = "lookup"
  /\ ret' = [ret EXCEPT ![q] = IF call[q].protocol \in DOMAIN registry
                                 THEN registry[call[q].protocol] ELSE NoEntry]
  /\ pc' = [pc EXCEPT ![q] = "runlock"]
  /\ UNCHANGED <<registry, readers, writer, call, key, entry, present>>

\* RegisteredProtocols: the keys of the registry.
GetKeys(q) ==
  /\ pc[q] = "get" /\ call[q].op = "list"
  /\ ret' = [ret EXCEPT ![q] = DOMAIN registry]
  /\ pc' = [pc EXCEPT ![q] = "runlock"]
  /\ UNCHANGED <<registry, readers, writer, call, key, entry, present>>

\* registryLock.RUnlock(); RegisterUnknownProtocol goes on to call
\* RegisterProtocol, the readers return.
RUnlock(q) ==
  /\ pc[q] = "runlock"
  /\ readers' = readers - 1
  /\ pc' = [pc EXCEPT ![q] = IF call[q].op = "unknown" THEN "lock" ELSE "done"]
  /\ UNCHANGED <<registry, writer, call, key, entry, present, ret>>

Step(q) ==
  \/ Lock(q) \/ WaitReaders(q) \/ Present(q) \/ Store(q) \/ Unlock(q)
  \/ RLock(q) \/ GetUnknown(q) \/ GetEntry(q) \/ GetKeys(q) \/ RUnlock(q)

Next == \E q \in Procs : Step(q)

\* The Go scheduler runs every runnable goroutine.
Spec == Init /\ [][Next]_vars /\ \A q \in Procs : WF_vars(Step(q))
-----------------------------------------------------------------------------
Finished(q) == pc[q] \in {"done", "panicked", "crashed"}

Termination == <>(\A q \in Procs : Finished(q))

\* The registry is a map that RegisterProtocol and RegisterUnknownProtocol
\* update atomically (RegistryAbs).
Abs == INSTANCE RegistryAbs

AtomicRegistry == Abs!Spec
====
