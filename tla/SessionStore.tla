---------------------------- MODULE SessionStore ----------------------------
(***************************************************************************)
(* What the session use cases share: the clock, the sessions and           *)
(* refresh_tokens tables behind PrismaSessionRepository, the deny-list     *)
(* behind RedisRevocationList, and the access tokens JwtTokenSigner gave   *)
(* out.  A table is a function from the ids of its rows to the rows.       *)
(***************************************************************************)
EXTENDS Naturals, FiniteSets

CONSTANTS Users,
          AccessTtl, RefreshTtl, IdleTimeout, AbsoluteLifetime,
          MaxSessions,  \* bound: rows of the sessions table
          MaxTokens,    \* bound: rows of the refresh_tokens table
          MaxTime,      \* bound: ticks of the clock
          MaxFaults     \* bound: failing statements and dying processes

\* What SessionExpiryPolicy.create accepts.
ASSUME PolicyAssumption ==
    /\ {AccessTtl, RefreshTtl, IdleTimeout, AbsoluteLifetime} \subseteq Nat \ {0}
    /\ AccessTtl <= RefreshTtl

ASSUME StoreBounds == {MaxSessions, MaxTokens, MaxTime, MaxFaults} \subseteq Nat

VARIABLES now,
          sessions,
          tokens,
          denied,       \* until when each session id is on the deny-list
          signedUntil,  \* when the last access token of each session expires
          faults

storeVars == <<now, sessions, tokens, denied, signedUntil, faults>>

SessionIds == 1 .. MaxSessions
TokenIds   == 1 .. MaxTokens

\* An undefined Date; the clock starts above it.
Never == 0

StoreInit ==
    /\ now = 1
    /\ sessions = << >>
    /\ tokens = << >>
    /\ denied = [s \in SessionIds |-> Never]
    /\ signedUntil = [s \in SessionIds |-> Never]
    /\ faults = 0

Tick ==
    /\ now < MaxTime
    /\ now' = now + 1
    /\ UNCHANGED <<sessions, tokens, denied, signedUntil, faults>>

-----------------------------------------------------------------------------
(* Session and RefreshToken: every change makes a new copy of the entity.  *)

Open(user, at) ==
    [user |-> user, lastSeen |-> at, expires |-> at + AbsoluteLifetime,
     revokedAt |-> Never]

IsRevoked(session) == session.revokedAt # Never

\* A mutant: whether the session was revoked is not asked.
IsActiveThoughRevoked(session, at) ==
    at < session.expires /\ at < session.lastSeen + IdleTimeout

IsActive(session, at) ==
    /\ ~IsRevoked(session)
    /\ at < session.expires
    /\ at < session.lastSeen + IdleTimeout

Touch(session, at) == [session EXCEPT !.lastSeen = at]

\* Mutants: revoking again moves the time; revoking forgets to set it.
RevokeAgain(session, at) == [session EXCEPT !.revokedAt = at]
RevokeNothing(session, at) == session

Revoke(session, at) ==
    IF IsRevoked(session) THEN session ELSE [session EXCEPT !.revokedAt = at]

\* "replaces" records which token a rotation consumed for this one; Never for
\* the first of a session.  No decision reads it.
IssueRefreshToken(session, at, replaces) ==
    [session |-> session, expires |-> at + RefreshTtl, usedAt |-> Never,
     replaces |-> replaces]

IsUsed(token) == token.usedAt # Never
IsRedeemable(token, at) == ~IsUsed(token) /\ at < token.expires

\* A mutant: rotation leaves the presented token as it was.
MarkNothing(token, at) == token

MarkUsed(token, at) == [token EXCEPT !.usedAt = at]

-----------------------------------------------------------------------------
(* The repository: one statement each.  A save is a full-row upsert.       *)

Upsert(table, id, row) ==
    [x \in DOMAIN table \union {id} |-> IF x = id THEN row ELSE table[x]]

Save(id, session) == sessions' = Upsert(sessions, id, session)
SaveRefreshToken(id, token) == tokens' = Upsert(tokens, id, token)

\* createId: the id is used by nobody; ids are given out in order.
Fresh(ids, table) ==
    { id \in ids : id \notin DOMAIN table /\ \A x \in ids : x < id => x \in DOMAIN table }

\* findActiveByUserId: not revoked, whether or not expired or idle.
ActiveOf(user) ==
    { s \in DOMAIN sessions : sessions[s].user = user /\ ~IsRevoked(sessions[s]) }

\* The rows that ORDER BY last_seen_at ASC may return first.
Oldest(active) ==
    { s \in active : \A r \in active : sessions[s].lastSeen <= sessions[r].lastSeen }

RevokeAllForUser(user, at) ==
    sessions' = [s \in DOMAIN sessions |->
                   IF s \in ActiveOf(user) THEN Revoke(sessions[s], at) ELSE sessions[s]]

-----------------------------------------------------------------------------
(* The deny-list and the access tokens.                                    *)

\* SET key PX: the new expiry replaces the old one, be it earlier or later.
Deny(s, until) == denied' = [denied EXCEPT ![s] = until]

\* sign(): the token expires AccessTtl after the moment of signing.
Sign(s) == signedUntil' = [signedUntil EXCEPT ![s] = now + AccessTtl]

IsDenied(s) == now < denied[s]

\* Some access token of s passes verify() and the deny-list.
Accepted(s) == now < signedUntil[s] /\ ~IsDenied(s)

\* A statement fails or the process dies.
Fault == faults < MaxFaults /\ faults' = faults + 1
=============================================================================
