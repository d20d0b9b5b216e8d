---------------------------- MODULE ValidatorLock ----------------------------
(***************************************************************************)
(* The process-wide caveat validator of src/security/blessings.go and its  *)
(* sync.RWMutex caveatValidationMu, under concurrent goroutines.           *)
(*                                                                         *)
(* Each goroutine of Procs makes one call, chosen in Init:                 *)
(* overrideCaveatValidation(fn), setCaveatValidationForTest(fn), or        *)
(* getCaveatValidation() as RemoteBlessingNames makes it before it calls   *)
(* the validator it got. A call is split where it takes or releases the    *)
(* lock, and override's check of caveatValidationOverridden (line 359) and *)
(* its two stores (lines 362-363) are steps of their own. A validator is a *)
(* model value of Fns.                                                     *)
(*                                                                         *)
(* caveatValidationMu follows sync.RWMutex: Lock first excludes other      *)
(* writers and new readers, then waits for the readers inside to leave.    *)
(***************************************************************************)
EXTENDS Naturals, FiniteSets

CONSTANTS
  Procs,     \* the goroutines
  Fns,       \* the validators callers pass
  Default,   \* defaultCaveatValidation, not one of Fns
  Recover    \* TRUE: the caller of a panicking override recovers it

Calls == [op : {"override", "test"}, fn : Fns] \cup [op : {"get"}]

VARIABLES
  validation,  \* caveatValidation
  overridden,  \* caveatValidationOverridden
  readers,     \* goroutines holding caveatValidationMu for reading
  writer,      \* caveatValidationMu is held, or wanted, by a writer
  call,        \* the call each goroutine makes
  pc,          \* where each goroutine is in its call
  got          \* the validator getCaveatValidation returned

vars == <<validation, overridden, readers, writer, call, pc, got>>

Labels == {"lock", "wait", "check", "store", "unlock", "rlock", "read",
           "runlock", "done", "panicked", "crashed"}

TypeOK ==
  /\ validation \in Fns \cup {Default}
  /\ overridden \in BOOLEAN
  /\ readers \in 0..Cardinality(Procs)
  /\ writer \in BOOLEAN
  /\ call \in [Procs -> Calls]
  /\ pc \in [Procs -> Labels]
  /\ got \in [Procs -> Fns \cup {Default}]

\* The package variables' initial values (lines 351-355).
Init ==
  /\ validation = Default
  /\ overridden = FALSE
  /\ readers = 0
  /\ writer = FALSE
  /\ call \in [Procs -> Calls]
  /\ pc = [q \in Procs |-> IF call[q].op = "get" THEN "rlock" ELSE "lock"]
  /\ got = [q \in Procs |-> Default]
-----------------------------------------------------------------------------
\* Mutant: Lock does not exclude a writer already inside.
LockNoExclusion(q) ==
  /\ pc[q] = "lock"
  /\ writer' = TRUE
  /\ pc' = [pc EXCEPT ![q] = "wait"]
  /\ UNCHANGED <<validation, overridden, readers, call, got>>

\* caveatValidationMu.Lock(), first half: take the writer's side, which
\* keeps new readers out.
Lock(q) ==
  /\ pc[q] = "lock"
  /\ ~writer
  /\ writer' = TRUE
  /\ pc' = [pc EXCEPT ![q] = "wait"]
  /\ UNCHANGED <<validation, overridden, readers, call, got>>

\* caveatValidationMu.Lock(), second half: wait for the readers inside.
WaitReaders(q) ==
  /\ pc[q] = "wait"
  /\ readers = 0
  /\ pc' = [pc EXCEPT ![q] = IF call[q].op = "override" THEN "check" ELSE "store"]
  /\ UNCHANGED <<validation, overridden, readers, writer, call, got>>

\* A panic ends the program unless its caller recovers it; a recovered
\* panic leaves caveatValidationMu locked (Unlock is not deferred).
Panic(q) ==
  /\ pc' = IF Recover THEN [pc EXCEPT ![q] = "panicked"]
                      ELSE [r \in Procs |-> IF pc[r] = "done" THEN "done" ELSE "crashed"]
  /\ UNCHANGED <<validation, overridden, readers, writer, call, got>>

\* overrideCaveatValidation: if caveatValidationOverridden, panic.
Check(q) ==
  /\ pc[q] = "check"
  /\ \/ /\ overridden
        /\ Panic(q)
     \/ /\ ~overridden
        /\ pc' = [pc EXCEPT ![q] = "store"]
        /\ UNCHANGED <<validation, overridden, readers, writer, call, got>>

\* overrideCaveatValidation: caveatValidationOverridden = true and
\* caveatValidation = fn; setCaveatValidationForTest: caveatValidation = fn.
Store(q) ==
  /\ pc[q] = "store"
  /\ validation' = call[q].fn
  /\ overridden' = (overridden \/ call[q].op = "override")
  /\ pc' = [pc EXCEPT ![q] = "unlock"]
  /\ UNCHANGED <<readers, writer, call, got>>

\* Mutant: the Unlock is missing.
UnlockNoRelease(q) ==
  /\ pc[q] = "unlock"
  /\ pc' = [pc EXCEPT ![q] = "done"]
  /\ UNCHANGED <<validation, overridden, readers, writer, call, got>>

\* caveatValidationMu.Unlock(), and return.
Unlock(q) ==
  /\ pc[q] = "unlock"
  /\ writer' = FALSE
  /\ pc' = [pc EXCEPT ![q] = "done"]
  /\ UNCHANGED <<validation, overridden, readers, call, got>>

\* getCaveatValidation: caveatValidationMu.RLock().
RLock(q) ==
  /\ pc[q] = "rlock"
  /\ ~writer
  /\ readers' = readers + 1
  /\ pc' = [pc EXCEPT ![q] = "read"]
  /\ UNCHANGED <<validation, overridden, writer, call, got>>

\* fn := caveatValidation
Read(q) ==
  /\ pc[q] = "read"
  /\ got' = [got EXCEPT ![q] = validation]
  /\ pc' = [pc EXCEPT ![q] = "runlock"]
  /\ UNCHANGED <<validation, overridden, readers, writer, call>>

\* Mutant: the read lock is released twice (a deferred and an explicit
\* RUnlock).
RUnlockTwice(q) ==
  /\ pc[q] = "runlock"
  /\ readers' = readers - 2
  /\ pc' = [pc EXCEPT ![q] = "done"]
  /\ UNCHANGED <<validation, overridden, writer, call, got>>

\* caveatValidationMu.RUnlock(), and return fn.
RUnlock(q) ==
  /\ pc[q] = "runlock"
  /\ readers' = readers - 1
  /\ pc' = [pc EXCEPT ![q] = "done"]
  /\ UNCHANGED <<validation, overridden, writer, call, got>>

Step(q) ==
  \/ Lock(q) \/ WaitReaders(q) \/ Check(q) \/ Store(q) \/ Unlock(q)
  \/ RLock(q) \/ Read(q) \/ RUnlock(q)

Next == \E q \in Procs : Step(q)

\* The Go scheduler runs every runnable goroutine.
Spec == Init /\ [][Next]_vars /\ \A q \in Procs : WF_vars(Step(q))
-----------------------------------------------------------------------------
\* At most one overrideCaveatValidation returns: the check at line 359 and
\* the store at line 362 run under one Lock, so of two concurrent overrides
\* one panics, and no validator replaces a production override except
\* through the test setter.
OverrideOnce ==
  Cardinality({q \in Procs : call[q].op = "override" /\ pc[q] = "done"}) <= 1

\* Every call returns, or the program ends in a panic: no goroutine is left
\* waiting on caveatValidationMu.
Finished(q) == pc[q] \in {"done", "panicked", "crashed"}

Termination == <>(\A q \in Procs : Finished(q))
====
