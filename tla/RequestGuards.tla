---------------------------- MODULE RequestGuards ----------------------------
(***************************************************************************)
(* apps/api plugins: the stores a request passes on its way to a handler,  *)
(* the rate limiter's counters, the API keys and the idempotency records,  *)
(* in Redis or, without it, in the memory of the process.  A window and a  *)
(* record end when their time is up, which is a step of its own.           *)
(***************************************************************************)
EXTENDS Naturals, FiniteSets

CONSTANTS Limit,        \* requests allowed per window
          Requests      \* what clients send: [route, caller, key, body]

ASSUME GuardAssumption ==
    /\ Limit \in Nat \ {0}
    /\ \A r \in Requests : DOMAIN r = {"route", "caller", "key", "body"}

VARIABLES redis,    \* whether the plugins were given a Redis client (fixed)
          counter,  \* the counter of each window in Redis: [count, expires]
          local,    \* the counter of each window in memory
          apiKey,   \* the API key row of each caller: [status, lapsed]
          record    \* the idempotency record of each key

guards == <<redis, counter, local, apiKey, record>>

NoKey    == "none"

\* The caller of a request without an API key, and the principal of one that passes as nobody's.
Anonymous == "anonymous"
Callers  == {r.caller : r \in Requests} \ {Anonymous}
Keys     == {r.key : r \in Requests} \ {NoKey}

\* The limiter's key: the URL and the principal, or the address of a caller without a key.
WindowOf(r) == <<r.route, r.caller>>
Windows     == {WindowOf(r) : r \in Requests}

NoCounter == [count |-> 0, expires |-> FALSE]
NoApiKey  == [status |-> "none", lapsed |-> FALSE]
NewApiKey == [status |-> "active", lapsed |-> FALSE]
NoRecord  == [hash |-> << >>]

GuardInit ==
    /\ redis \in BOOLEAN
    /\ counter = [w \in Windows |-> NoCounter]
    /\ local = [w \in Windows |-> 0]
    /\ apiKey \in [Callers -> {NoApiKey, NewApiKey}]
    /\ record = [k \in Keys |-> NoRecord]

\* What is in memory ends with the process.
GuardRestart ==
    /\ local' = [w \in Windows |-> 0]
    /\ record' = IF redis THEN record ELSE [k \in Keys |-> NoRecord]
    /\ UNCHANGED <<redis, counter, apiKey>>

-----------------------------------------------------------------------------
(* RateLimiterStore.consume.  A count past the limit is only ever compared *)
(* with it, so one past the limit stands for all of them.                  *)

Counted(n) == IF n <= Limit THEN n + 1 ELSE n
Allowed(count) == count <= Limit

\* MULTI INCR PTTL EXEC, which leaves a new counter without an expiry.
Increment(w) == counter' = [counter EXCEPT ![w].count = Counted(@)]

\* Mutant of NeedsExpiry: only the request that created the counter arms it.
OnlyFirst(count, expires) == count = 1

NeedsExpiry(count, expires) == count = 1 \/ ~expires

\* PEXPIRE, which does nothing to a counter that is gone.
Arm(w) == counter' = [counter EXCEPT ![w].expires = counter[w].count > 0]

\* The in-memory fallback counts in one step.
CountLocally(w) == local' = [local EXCEPT ![w] = Counted(@)]

\* Redis drops a counter whose time is up; the fallback starts a new one in place of it.
WindowPasses(w) ==
    \/ /\ counter[w].expires
       /\ counter' = [counter EXCEPT ![w] = NoCounter]
       /\ UNCHANGED <<redis, local, apiKey, record>>
    \/ /\ local[w] > 0
       /\ local' = [local EXCEPT ![w] = 0]
       /\ UNCHANGED <<redis, counter, apiKey, record>>

-----------------------------------------------------------------------------
(* API keys                                                                *)

CreateKey(c) ==
    /\ apiKey[c] = NoApiKey
    /\ apiKey' = [apiKey EXCEPT ![c] = NewApiKey]
    /\ UNCHANGED <<redis, counter, local, record>>

Revoke(c) ==
    /\ apiKey[c].status = "active"
    /\ apiKey' = [apiKey EXCEPT ![c].status = "revoked"]
    /\ UNCHANGED <<redis, counter, local, record>>

\* The clock passes expiresAt.
Lapse(c) ==
    /\ apiKey[c].status = "active" /\ ~apiKey[c].lapsed
    /\ apiKey' = [apiKey EXCEPT ![c].lapsed = TRUE]
    /\ UNCHANGED <<redis, counter, local, record>>

\* The row and the clock: nothing ever writes the status "expired".
IsActive(status, lapsed) == status = "active" /\ ~lapsed

-----------------------------------------------------------------------------
(* Idempotency records                                                     *)

\* The fingerprint of a request: method and URL, and the payload.
HashRequest(r) == <<r.route, r.body>>

\* Mutant of WorthKeeping: refusals are not kept.
SuccessOnly(status) == status < 400

WorthKeeping(status) == status < 500

Keep(k, hash, response) == record' = [record EXCEPT ![k] = [hash |-> hash, response |-> response]]

RecordExpires(k) ==
    /\ record[k] # NoRecord
    /\ record' = [record EXCEPT ![k] = NoRecord]
    /\ UNCHANGED <<redis, counter, local, apiKey>>
=============================================================================
