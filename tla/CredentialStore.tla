-------------------------- MODULE CredentialStore --------------------------
(***************************************************************************)
(* The tables the credential use cases share -- users, credentials and the *)
(* one-time links of both kinds -- and the entities' own rules: lockout,   *)
(* history, expiry, status transitions.  A password hash is the password   *)
(* it was made from and whether it was made at the raised cost parameters. *)
(***************************************************************************)
EXTENDS LockoutPolicy, Sequences

CONSTANTS Users,          \* a user is its email: an address registers once
          Passwords,
          NoPassword,     \* no password, and the sentinel [DELETED]
          MaxCalls,       \* bound: calls that arrive; each issues at most one link
          MaxTime,        \* bound: the last instant
          HistoryDepth,   \* PasswordHistoryPolicy
          LinkTtl         \* lifetime of a link, in ticks

ASSUME CredentialAssumption ==
    /\ NoPassword \notin Passwords
    /\ {MaxCalls, MaxTime, HistoryDepth} \subseteq Nat
    /\ LinkTtl \in Nat \ {0}

VARIABLES now,
          status,      \* users: "none" while the address is not registered
          credentials, \* rows, by user
          links,       \* rows of both token tables, by number
          signedIn     \* live sessions, as the passwords they were opened with

tables == <<status, credentials, links, signedIn>>

Never == 0
LinkIds == 1 .. MaxCalls

-----------------------------------------------------------------------------
\* findById and findByEmail see no deleted user.
Found(s) == s \notin {"none", "deleted"}

\* ALLOWED_TRANSITIONS
MayBecome(from, to) ==
    \/ from = "pending"   /\ to \in {"active", "deleted"}
    \/ from = "active"    /\ to \in {"suspended", "deleted"}
    \/ from = "suspended" /\ to \in {"active", "deleted"}

CanAuthenticate(s) == s \in {"pending", "active"}

Credential(pw, strong) ==
    [pw |-> pw, strong |-> strong, fails |-> 0, lockedUntil |-> Never, history |-> << >>]

\* The processes start over the tables earlier ones left: each address is free, or
\* registered with or without a password.
StoreInit ==
    /\ now = 1
    /\ status \in [Users -> {"none", "pending", "active"}]
    /\ \E owners \in SUBSET {u \in Users : status[u] # "none"} :
         \E pw \in [owners -> Passwords] :
           credentials = [u \in owners |-> Credential(pw[u], FALSE)]
    /\ links = << >>
    /\ signedIn = [u \in Users |-> {}]

IsLockedAt(c, at) == c.lockedUntil > at

RecordFailedAttempt(c, at) ==
    LET duration == LockDuration(c.fails + 1)
    IN  [c EXCEPT !.fails = @ + 1,
                  !.lockedUntil = IF duration = 0 THEN @ ELSE at + duration]

RecordSuccessfulAttempt(c) == [c EXCEPT !.fails = 0, !.lockedUntil = Never]

WithPasswordHash(c, pw, strong) ==
    [c EXCEPT !.pw = pw, !.strong = strong, !.fails = 0, !.lockedUntil = Never]

\* A mutant: the current password may be chosen again.
IsInHistory(c, pw) == \E i \in DOMAIN c.history : c.history[i] = pw

IsPasswordReused(c, pw) == pw = c.pw \/ \E i \in DOMAIN c.history : c.history[i] = pw

\* A mutant: the new hash is left out of the copy.
RotateHistoryOnly(c, pw, strong) ==
    [c EXCEPT !.fails = 0, !.lockedUntil = Never, !.history = SubSeq(<<c.pw>> \o @, 1, 1)]

RotatePassword(c, pw, strong) ==
    [WithPasswordHash(c, pw, strong) EXCEPT
        !.history = LET all == <<c.pw>> \o @
                    IN  IF Len(all) <= HistoryDepth THEN all
                        ELSE SubSeq(all, 1, HistoryDepth)]

\* A mutant: the hash is kept, the account only unlocked.
UnlockForDeletedUser(c) == RecordSuccessfulAttempt(c)

InvalidateForDeletedUser(c) == Credential(NoPassword, FALSE)

\* save: the whole row, whatever is stored by now.
Save(u, c) ==
    credentials' = [v \in DOMAIN credentials \union {u} |->
                      IF v = u THEN c ELSE credentials[v]]

-----------------------------------------------------------------------------
NewLink(u, purpose, at) ==
    [user |-> u, purpose |-> purpose, expires |-> at + LinkTtl, consumed |-> FALSE]

\* A mutant: a used link may be consumed again.
UnexpiredOnly(link, at) == at < link.expires

\* consume() succeeds.
IsUsableAt(link, at) == ~link.consumed /\ at < link.expires

\* The rows updateMany matches in invalidateOutstandingForUser.
Unconsumed(u, purposes) ==
    { t \in DOMAIN links :
        links[t].user = u /\ links[t].purpose \in purposes /\ ~links[t].consumed }

\* The table with some links marked consumed: save(consumed), updateMany.
Consumed(ids) ==
    [t \in DOMAIN links |-> IF t \in ids THEN [links[t] EXCEPT !.consumed = TRUE] ELSE links[t]]
=============================================================================
