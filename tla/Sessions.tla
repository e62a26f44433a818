------------------------------ MODULE Sessions ------------------------------
(***************************************************************************)
(* IssueSession, RefreshAccessToken, Logout and LogoutEverywhere on        *)
(* several processes.  No use case runs in a transaction: each await is a  *)
(* step of its own, and what a call has read stays in op[p] while other    *)
(* calls write.  ListActiveSessions only reads.                            *)
(***************************************************************************)
EXTENDS SessionStore, Integers

CONSTANTS Procs,
          MaxConcurrentSessions,  \* 0 disables eviction
          RevocationWindow,       \* DEFAULT_REVOCATION_WINDOW_MS
          MaxCalls                \* bound: calls that arrive

\* A day outlives any access token of the default policy.
ASSUME WindowAssumption ==
    /\ MaxConcurrentSessions \in Nat
    /\ RevocationWindow \in Nat
    /\ MaxCalls \in Nat
    /\ AccessTtl <= RevocationWindow

VARIABLES op,    \* the call each process is in, and the copies it holds
          calls, \* calls that arrived so far
          held,  \* refresh tokens that were returned to a client
          bearers,     \* until when each access token returned for a session lives
          final,       \* sessions ended by a logout no other call overlapped
          superseded,  \* sessions logged out with a token older than their last
          earned       \* evictions a login in its loop still has cause for

clientVars == <<calls, held, bearers>>
ghostVars == <<final, superseded, earned>>
opVars == <<op, clientVars, ghostVars>>
vars == <<storeVars, opVars>>

NoSession == [user |-> "none", lastSeen |-> Never, expires |-> Never, revokedAt |-> Never]
NoToken   == [session |-> 0, expires |-> Never, usedAt |-> Never, replaces |-> 0]

Idle == [pc |-> "idle", user |-> "none", at |-> Never, alone |-> FALSE,
         session |-> 0, row |-> NoSession, token |-> 0, tokenRow |-> NoToken,
         until |-> Never, listed |-> {}, todo |-> {}]

Init ==
    /\ StoreInit
    /\ op = [p \in Procs |-> Idle]
    /\ calls = 0
    /\ held = {}
    /\ bearers = [s \in SessionIds |-> {}]
    /\ final = {}
    /\ superseded = {}
    /\ earned = [p \in Procs |-> 0]

-----------------------------------------------------------------------------
InCallFor(p, user) == op[p].pc # "idle" /\ op[p].user = user

\* A call for a user arrives; calls for that user that are running are no longer
\* alone, nor is it.  ("alone" is read by the ghost "final" only.)
Begin(p, call) ==
    /\ op[p].pc = "idle"
    /\ calls < MaxCalls
    /\ calls' = calls + 1
    /\ op' = [q \in Procs |->
                IF q = p
                THEN [call EXCEPT !.alone = \A r \in Procs : ~InCallFor(r, call.user)]
                ELSE IF InCallFor(q, call.user) THEN [op[q] EXCEPT !.alone = FALSE]
                ELSE op[q]]
    /\ UNCHANGED <<storeVars, held, bearers, final>>

\* A login has cause to evict as many sessions as there are.
Issue(p, user) ==
    /\ Begin(p, [Idle EXCEPT !.pc = IF MaxConcurrentSessions > 0 THEN "list" ELSE "open",
                             !.user = user, !.at = now])
    /\ earned' = [earned EXCEPT ![p] =
                    IF MaxConcurrentSessions > 0 THEN Cardinality(ActiveOf(user)) ELSE 0]
    /\ UNCHANGED superseded

Refresh(p, t) ==
    /\ Begin(p, [Idle EXCEPT !.pc = "findToken", !.token = t,
                             !.user = sessions[tokens[t].session].user])
    /\ UNCHANGED <<superseded, earned>>

\* The caller may give revokeUntil, "normally the access token's own remaining
\* lifetime"; Never is its absence.
Logout(p, s, until) ==
    /\ Begin(p, [Idle EXCEPT !.pc = "logoutFind", !.session = s, !.user = sessions[s].user,
                             !.until = until])
    /\ superseded' = superseded \union
                       (IF until # Never /\ until < signedUntil[s] THEN {s} ELSE {})
    /\ UNCHANGED earned

LogoutEverywhere(p, user) ==
    /\ Begin(p, [Idle EXCEPT !.pc = "everyList", !.user = user, !.at = now])
    /\ UNCHANGED <<superseded, earned>>

\* A finished call; one that logged out alone has ended these sessions for good.
Return(p) == op' = [op EXCEPT ![p] = Idle]
Ended(p, ids) == final' = final \union (IF op[p].alone THEN ids ELSE {})

-----------------------------------------------------------------------------
(* IssueSession: evictOldestUntilUnderLimit, then the new session.         *)

Evicting == {"list", "evict", "evictDeny"}

\* Writing a row that makes a session active gives the logins of its user that are in
\* their loops cause for one more eviction.
Earn(s, row) ==
    earned' = [q \in Procs |->
                 IF /\ op[q].pc \in Evicting /\ op[q].user = row.user
                    /\ s \notin ActiveOf(row.user) /\ ~IsRevoked(row)
                 THEN earned[q] + 1 ELSE earned[q]]

\* A mutant: the new session is not counted.
HasRoomAtLimit(active) == Cardinality(active) <= MaxConcurrentSessions

HasRoom(active) == Cardinality(active) < MaxConcurrentSessions

ListForEviction(p) ==
    /\ op[p].pc = "list"
    /\ LET active == ActiveOf(op[p].user) IN
         \/ /\ HasRoom(active)
            /\ op' = [op EXCEPT ![p].pc = "open"]
            /\ earned' = [earned EXCEPT ![p] = 0]
         \/ /\ ~HasRoom(active)
            /\ \E s \in Oldest(active) :
                 op' = [op EXCEPT ![p].pc = "evict", ![p].session = s,
                                  ![p].row = sessions[s]]
            /\ UNCHANGED earned
    /\ UNCHANGED <<storeVars, clientVars, final, superseded>>

\* The full row is written back from the copy that was read; the copies are not
\* read again.
SaveRevoked(p, from, to) ==
    /\ op[p].pc = from
    /\ Save(op[p].session, Revoke(op[p].row, op[p].at))
    /\ op' = [op EXCEPT ![p].pc = to, ![p].row = NoSession,
                        ![p].token = 0, ![p].tokenRow = NoToken]
    /\ UNCHANGED <<now, tokens, denied, signedUntil, faults, clientVars, final, superseded>>

Evict(p) ==
    /\ SaveRevoked(p, "evict", "evictDeny")
    /\ earned' = [earned EXCEPT ![p] = @ - 1]

\* A mutant: the deny-list entry lapses at once.
AccessTokenExpiryNow(at) == at

AccessTokenExpiryFrom(at) == at + AccessTtl

DenyEvicted(p) ==
    /\ op[p].pc = "evictDeny"
    /\ Deny(op[p].session, AccessTokenExpiryFrom(op[p].at))
    /\ op' = [op EXCEPT ![p].pc = "list", ![p].session = 0]
    /\ UNCHANGED <<now, sessions, tokens, signedUntil, faults, clientVars, ghostVars>>

SaveSession(p) ==
    /\ op[p].pc = "open"
    /\ \E s \in Fresh(SessionIds, sessions) :
         /\ Save(s, Open(op[p].user, op[p].at))
         /\ Earn(s, Open(op[p].user, op[p].at))
         /\ op' = [op EXCEPT ![p].pc = "first", ![p].session = s]
    /\ UNCHANGED <<now, tokens, denied, signedUntil, faults, clientVars, final, superseded>>

SaveFirstToken(p) ==
    /\ op[p].pc = "first"
    /\ \E t \in Fresh(TokenIds, tokens) :
         /\ SaveRefreshToken(t, IssueRefreshToken(op[p].session, op[p].at, Never))
         /\ op' = [op EXCEPT ![p].pc = "sign", ![p].at = Never, ![p].token = t]
    /\ UNCHANGED <<now, sessions, denied, signedUntil, faults, clientVars, ghostVars>>

\* Both IssueSession and RefreshAccessToken end by signing an access token and
\* returning it with the new refresh token.
SignAndReturn(p) ==
    /\ op[p].pc = "sign"
    /\ Sign(op[p].session)
    /\ held' = held \union {op[p].token}
    /\ bearers' = [bearers EXCEPT ![op[p].session] = @ \union {now + AccessTtl}]
    /\ Return(p)
    /\ UNCHANGED <<now, sessions, tokens, denied, faults, calls, final, superseded, earned>>

-----------------------------------------------------------------------------
(* RefreshAccessToken.                                                     *)

FindToken(p) ==
    /\ op[p].pc = "findToken"
    /\ op' = [op EXCEPT ![p].pc = "findSession",
                        ![p].tokenRow = tokens[op[p].token],
                        ![p].session = tokens[op[p].token].session]
    /\ UNCHANGED <<storeVars, clientVars, ghostVars>>

\* The session is read and the time taken; the branch is chosen on both copies.
FindSession(p, to) ==
    /\ op[p].pc = "findSession"
    /\ op' = [op EXCEPT ![p].pc = to, ![p].at = now, ![p].row = sessions[op[p].session]]
    /\ UNCHANGED <<storeVars, clientVars, ghostVars>>

MayRotate(p) ==
    /\ IsRedeemable(op[p].tokenRow, now)
    /\ IsActive(sessions[op[p].session], now)

FindReused(p)  == IsUsed(op[p].tokenRow) /\ FindSession(p, "reuse")
FindCurrent(p) == MayRotate(p) /\ FindSession(p, "mark")

Reject(p) ==
    /\ op[p].pc = "findSession"
    /\ ~IsUsed(op[p].tokenRow)
    /\ ~MayRotate(p)
    /\ Return(p)
    /\ UNCHANGED <<storeVars, clientVars, ghostVars>>

RevokeReused(p) == SaveRevoked(p, "reuse", "reuseDeny") /\ UNCHANGED earned

DenyReused(p) ==
    /\ op[p].pc = "reuseDeny"
    /\ Deny(op[p].session, AccessTokenExpiryFrom(op[p].at))
    /\ Return(p)
    /\ UNCHANGED <<now, sessions, tokens, signedUntil, faults, clientVars, ghostVars>>

MarkTokenUsed(p) ==
    /\ op[p].pc = "mark"
    /\ SaveRefreshToken(op[p].token, MarkUsed(op[p].tokenRow, op[p].at))
    /\ op' = [op EXCEPT ![p].pc = "next", ![p].tokenRow = NoToken]
    /\ UNCHANGED <<now, sessions, denied, signedUntil, faults, clientVars, ghostVars>>

SaveNextToken(p) ==
    /\ op[p].pc = "next"
    /\ \E t \in Fresh(TokenIds, tokens) :
         /\ SaveRefreshToken(t, IssueRefreshToken(op[p].session, op[p].at, op[p].token))
         /\ op' = [op EXCEPT ![p].pc = "touch", ![p].token = t]
    /\ UNCHANGED <<now, sessions, denied, signedUntil, faults, clientVars, ghostVars>>

SaveTouched(p) ==
    /\ op[p].pc = "touch"
    /\ Save(op[p].session, Touch(op[p].row, op[p].at))
    /\ Earn(op[p].session, Touch(op[p].row, op[p].at))
    /\ op' = [op EXCEPT ![p].pc = "sign", ![p].at = Never, ![p].row = NoSession]
    /\ UNCHANGED <<now, tokens, denied, signedUntil, faults, clientVars, final, superseded>>

-----------------------------------------------------------------------------
(* Logout and LogoutEverywhere.                                            *)

LogoutFind(p) ==
    /\ op[p].pc = "logoutFind"
    /\ op' = [op EXCEPT ![p].pc = "logout", ![p].at = now,
                        ![p].row = sessions[op[p].session]]
    /\ UNCHANGED <<storeVars, clientVars, ghostVars>>

LogoutSave(p) == SaveRevoked(p, "logout", "logoutDeny") /\ UNCHANGED earned

\* command.revokeUntil ?? now + DEFAULT_REVOCATION_WINDOW_MS.
RevokeUntil(call) == IF call.until # Never THEN call.until ELSE call.at + RevocationWindow

LogoutDeny(p) ==
    /\ op[p].pc = "logoutDeny"
    /\ Deny(op[p].session, RevokeUntil(op[p]))
    /\ Ended(p, {op[p].session})
    /\ Return(p)
    /\ UNCHANGED <<now, sessions, tokens, signedUntil, faults, clientVars, superseded, earned>>

ListForLogout(p) ==
    /\ op[p].pc = "everyList"
    /\ op' = [op EXCEPT ![p].pc = "everyDeny", ![p].listed = ActiveOf(op[p].user),
                        ![p].todo = ActiveOf(op[p].user)]
    /\ UNCHANGED <<storeVars, clientVars, ghostVars>>

\* Promise.all: the entries are written in any order.
DenyListed(p) ==
    /\ op[p].pc = "everyDeny"
    /\ \E s \in op[p].todo :
         /\ Deny(s, op[p].at + RevocationWindow)
         /\ op' = [op EXCEPT ![p].todo = @ \ {s}]
    /\ UNCHANGED <<now, sessions, tokens, signedUntil, faults, clientVars, ghostVars>>

UpdateAll(p) ==
    /\ op[p].pc = "everyDeny"
    /\ op[p].todo = {}
    /\ RevokeAllForUser(op[p].user, op[p].at)
    /\ Ended(p, op[p].listed)
    /\ Return(p)
    /\ UNCHANGED <<now, tokens, denied, signedUntil, faults, clientVars, superseded, earned>>

-----------------------------------------------------------------------------
\* A statement throws or the process dies: the call ends, and what it had sent to
\* the deny-list may still land.  The statements before stay done.
Fails(p) ==
    /\ op[p].pc # "idle"
    /\ Fault
    /\ Return(p)
    /\ \E landed \in SUBSET op[p].todo :
         denied' = [s \in SessionIds |->
                      IF s \in landed THEN op[p].at + RevocationWindow ELSE denied[s]]
    /\ earned' = [earned EXCEPT ![p] = 0]
    /\ UNCHANGED <<now, sessions, tokens, signedUntil, clientVars, final, superseded>>

\* The ends of the access tokens a client of s can present.
Presentable(s) == { until \in bearers[s] : now < until }

Call(p) ==
    \/ \E user \in Users : Issue(p, user) \/ LogoutEverywhere(p, user)
    \/ \E t \in held : Refresh(p, t)
    \/ \E s \in DOMAIN sessions : \E until \in {Never} \union Presentable(s) :
         Logout(p, s, until)

\* The call in progress goes on.
Continue(p) ==
    \/ ListForEviction(p) \/ Evict(p) \/ DenyEvicted(p)
    \/ SaveSession(p) \/ SaveFirstToken(p) \/ SignAndReturn(p)
    \/ FindToken(p) \/ FindReused(p) \/ FindCurrent(p) \/ Reject(p)
    \/ RevokeReused(p) \/ DenyReused(p)
    \/ MarkTokenUsed(p) \/ SaveNextToken(p) \/ SaveTouched(p)
    \/ LogoutFind(p) \/ LogoutSave(p) \/ LogoutDeny(p)
    \/ ListForLogout(p) \/ DenyListed(p) \/ UpdateAll(p)

Next ==
    \/ \E p \in Procs : Call(p) \/ Continue(p) \/ Fails(p)
    \/ Tick /\ UNCHANGED opVars

Spec == Init /\ [][Next]_vars

-----------------------------------------------------------------------------
SessionRows == [user : Users, lastSeen : Nat, expires : Nat, revokedAt : Nat]
TokenRows   == [session : SessionIds, expires : Nat, usedAt : Nat,
                replaces : TokenIds \union {Never}]

Pcs == {"idle", "list", "evict", "evictDeny", "open", "first", "sign",
        "findToken", "findSession", "reuse", "reuseDeny", "mark", "next", "touch",
        "logoutFind", "logout", "logoutDeny", "everyList", "everyDeny"}

HoldsSession == {"evict", "reuse", "mark", "next", "touch", "logout"}
NamesSession == HoldsSession \union {"evictDeny", "reuseDeny", "logoutDeny", "first", "sign",
                                     "findSession", "logoutFind"}
HoldsToken   == {"findSession", "mark"}
NamesToken   == {"findToken", "findSession", "mark", "next", "touch", "sign"}

StoreTypeOK ==
    /\ now \in Nat \ {0}
    /\ DOMAIN sessions \subseteq SessionIds
    /\ \A s \in DOMAIN sessions : sessions[s] \in SessionRows
    /\ DOMAIN tokens \subseteq TokenIds
    /\ \A t \in DOMAIN tokens : tokens[t] \in TokenRows
    /\ denied \in [SessionIds -> Nat]
    /\ signedUntil \in [SessionIds -> Nat]
    /\ faults \in 0 .. MaxFaults

Calls == [pc : Pcs, user : Users \union {"none"}, at : Nat, alone : BOOLEAN,
          session : SessionIds \union {0}, row : SessionRows \union {NoSession},
          token : TokenIds \union {0}, tokenRow : TokenRows \union {NoToken}, until : Nat,
          listed : SUBSET SessionIds, todo : SUBSET SessionIds]

\* What a call names exists, for rows are never deleted.
NamesExist(c) ==
    /\ c.pc # "idle" => c.user \in Users
    /\ c.pc \in NamesSession => c.session \in DOMAIN sessions
    /\ c.pc \in HoldsSession => c.row \in SessionRows
    /\ c.pc \in NamesToken => c.token \in DOMAIN tokens
    /\ c.pc \in HoldsToken => c.tokenRow \in TokenRows
    /\ c.listed \subseteq DOMAIN sessions
    /\ c.todo \subseteq c.listed

\* Types, and the references between the tables and the calls' copies: a token
\* has a session, a client holds only saved tokens.
TypeOK ==
    /\ StoreTypeOK
    /\ op \in [Procs -> Calls]
    /\ \A p \in Procs : NamesExist(op[p])
    /\ \A t \in DOMAIN tokens : tokens[t].session \in DOMAIN sessions
    /\ calls \in 0 .. MaxCalls
    /\ held \subseteq DOMAIN tokens
    /\ bearers \in [SessionIds -> SUBSET Nat]
    /\ final \subseteq DOMAIN sessions
    /\ superseded \subseteq SessionIds
    /\ earned \in [Procs -> Int]

\* A logout that overlapped no other call of its user is final: whatever refresh,
\* login, eviction or logout follows, overlapping or failing, the row stays
\* revoked; and no access token of the session is accepted, unless some logout was
\* asked to deny the session only as long as a token lives that was not its last.
RevocationIsFinal ==
    \A s \in final : IsRevoked(sessions[s]) /\ (s \notin superseded => ~Accepted(s))

\* "at most N active sessions holds after every step" (issue-session.ts:59).
AtMostMaxConcurrent ==
    MaxConcurrentSessions > 0 =>
        \A user \in Users : Cardinality(ActiveOf(user)) <= MaxConcurrentSessions

\* A refresh token is consumed at most once, and a session has at most one that is
\* not: rotation makes a chain ("single-use per rotation").
RotationIsAChain ==
    \A t, u \in DOMAIN tokens :
        /\ (tokens[t].replaces = tokens[u].replaces /\ tokens[t].replaces # Never) => t = u
        /\ (tokens[t].session = tokens[u].session
              /\ ~IsUsed(tokens[t]) /\ ~IsUsed(tokens[u])) => t = u

\* Whoever revoked a session also closed its access tokens: with no call running
\* and no failure so far, no revoked session has an accepted token, but for those
\* signed after the token whose end a logout was given as revokeUntil.
RevokedIsDenied ==
    (faults = 0 /\ \A p \in Procs : op[p].pc = "idle") =>
        \A s \in DOMAIN sessions \ superseded : IsRevoked(sessions[s]) => ~Accepted(s)

\* "the timestamp always reflects when revocation first happened"
\* (Session.revoke): no write clears or moves it.
RevokedAtIsKept ==
    [][\A s \in DOMAIN sessions :
         IsRevoked(sessions[s]) => sessions'[s].revokedAt = sessions[s].revokedAt]_vars

\* The eviction loop goes round only with cause: it never revokes more sessions than
\* its user had when the login arrived and were opened or brought back since.  So
\* it ends unless other calls of the user bring sessions back for ever.
EvictionsAreEarned == \A p \in Procs : op[p].pc = "evict" => earned[p] > 0
=============================================================================
