-------------------------- MODULE BruteForcePolicy --------------------------
(***************************************************************************)
(* BruteForcePolicy over InMemoryBruteForceAttemptStore: failures counted  *)
(* per key, the attempts no credential row can count.  The store is a Map  *)
(* in the memory of one replica of the server, so every replica counts for *)
(* itself.  check and recordFailure read it in one step and write it in    *)
(* another; the caller holds what was read.  The optional limiter is not   *)
(* wired.                                                                  *)
(***************************************************************************)
EXTENDS LockoutPolicy

VARIABLE attempts  \* the store of each replica: key -> failedAttempts and lockedUntil

NoAttempts == [failed |-> 0, lockedUntil |-> 0]

AttemptsInit(replicas, keys) == attempts = [r \in replicas |-> [k \in keys |-> NoAttempts]]

\* A mutant: the duration is reckoned from the count before this failure.
LockUntilBefore(n, at) ==
    IF LockDuration(n - 1) = 0 THEN 0 ELSE at + LockDuration(n - 1)

\* lockUntil(failedAttempts), with the thresholds of the lockout: "aligned values
\* make the pair describable in one sentence".
LockUntil(n, at) == IF LockDuration(n) = 0 THEN 0 ELSE at + LockDuration(n)

Refused(r, k, at) == attempts[r][k].lockedUntil > at

\* The window has elapsed: check() forgets the key.
Elapsed(r, k, at) == attempts[r][k].lockedUntil # 0 /\ ~Refused(r, k, at)

Clear(r, k) == attempts' = [attempts EXCEPT ![r][k] = NoAttempts]

\* recordFailure, second half: `read` is the count seen in the first.
WriteFailure(r, k, read, at) ==
    attempts' = [attempts EXCEPT ![r][k] =
                   [failed |-> @.failed + 1, lockedUntil |-> LockUntil(read + 1, at)]]
=============================================================================
