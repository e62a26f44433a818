---------------------------- MODULE Sessions_proof ---------------------------
EXTENDS Sessions, TLAPS, FiniteSetTheorems

USE DEF clientVars, ghostVars

(***************************************************************************)
(* Why a logout that ran alone is final.  Every step works on the sessions *)
(* of one user (Footprint); a call that was alone met no other call of its *)
(* user, so no copy of its sessions was around when it ended; and from     *)
(* then on every copy that is read is a revoked one, which no use case     *)
(* turns back into an active row, signs a token for, or denies for less    *)
(* than the life of a token.                                               *)
(***************************************************************************)

\* Calls that write an active row, sign, or evict.
Reviving == {"evict", "evictDeny", "first", "sign", "mark", "next", "touch"}
Revoking == {"reuse", "reuseDeny", "logout", "logoutDeny"}

\* A call works on the sessions of the user it is for.
Owned(c) ==
    /\ c.pc \in NamesSession => sessions[c.session].user = c.user
    /\ c.pc \in HoldsSession => c.row.user = c.user
    /\ c.pc \in NamesToken => sessions[tokens[c.token].session].user = c.user
    /\ c.pc \in HoldsToken => c.tokenRow.session = tokens[c.token].session
    /\ c.pc = "findSession" => c.tokenRow.session = c.session
    /\ c.pc \in {"mark", "next", "touch"} => tokens[c.token].session = c.session
    /\ c.pc = "mark" => c.tokenRow.session = c.session
    /\ c.pc # "everyDeny" => c.listed = {}
    /\ \A s \in c.listed : sessions[s].user = c.user

\* The entry outlives every access token of the session, or a logout was asked for less.
Shut(s) == s \in superseded \/ signedUntil[s] <= denied[s]

\* So does what a caller asked for.
Covers(c) ==
    c.until # Never => c.session \in superseded \/ signedUntil[c.session] <= c.until

\* A call that names a session logged out for good holds it as revoked, and takes
\* its time late enough to deny every token signed.
KnowsFinal(c) ==
    /\ c.at <= now
    /\ c.pc \in {"logout", "everyList", "everyDeny"} => c.at # Never
    /\ c.pc \in Reviving => c.session \notin final
    /\ c.pc = "everyDeny" => c.listed \intersect final = {}
    /\ c.pc \in {"reuse", "logout"} /\ c.session \in final => IsRevoked(c.row)
    /\ c.pc \in Revoking /\ c.session \in final
          => signedUntil[c.session] <= c.at + AccessTtl
    /\ c.pc \in {"logoutFind", "logout", "logoutDeny"} /\ c.session \in final => Covers(c)

\* What a logout that is still alone has achieved.
LogsOutAlone(c) ==
    c.alone =>
    /\ c.pc \in {"logoutFind", "logout", "logoutDeny"} => Covers(c)
    /\ c.pc \in {"logout", "logoutDeny"} => signedUntil[c.session] <= c.at + AccessTtl
    /\ c.pc = "logoutDeny" => IsRevoked(sessions[c.session])
    /\ c.pc \in {"everyList", "everyDeny"} =>
          \A s \in DOMAIN sessions :
             sessions[s].user = c.user => signedUntil[s] <= c.at + AccessTtl
    /\ c.pc = "everyDeny" =>
          \A s \in c.listed \ c.todo : denied[s] = c.at + RevocationWindow

GhostsTyped == earned \in [Procs -> Int] /\ bearers \in [SessionIds -> SUBSET Nat]

CallOK(c) == Owned(c) /\ KnowsFinal(c) /\ LogsOutAlone(c)

AloneIsAlone ==
    \A p, q \in Procs :
        (p # q /\ op[p].alone /\ op[p].pc # "idle") => ~InCallFor(q, op[p].user)

FinalIsClosed ==
    /\ \A s \in SessionIds : signedUntil[s] <= now + AccessTtl
    /\ \A s \in final : IsRevoked(sessions[s]) /\ Shut(s)

\* The inductive invariant.
IInv ==
    /\ TypeOK
    /\ \A p \in Procs : CallOK(op[p])
    /\ AloneIsAlone
    /\ FinalIsClosed

-----------------------------------------------------------------------------
LEMMA TypeInit == Init => TypeOK
<1> SUFFICES ASSUME Init PROVE TypeOK
  OBVIOUS
<1>1. Idle \in Calls
  BY DEF Idle, Calls, Pcs, Never, NoSession, NoToken
<1>2. StoreTypeOK
  BY StoreBounds DEF Init, StoreInit, StoreTypeOK, Never
<1>3. \A p \in Procs : NamesExist(op[p])
  BY DEF Init, StoreInit, Idle, NamesExist, NamesSession, HoldsSession, NamesToken, HoldsToken
<1> QED
  BY <1>1, <1>2, <1>3, WindowAssumption DEF Init, StoreInit, TypeOK

\* The invariant holds initially.
LEMMA InvInit == Init => IInv
<1> SUFFICES ASSUME Init PROVE IInv
  OBVIOUS
<1>1. \A p \in Procs : CallOK(op[p])
  BY DEF Init, StoreInit, Idle, CallOK, Owned, KnowsFinal, LogsOutAlone, NamesSession,
     HoldsSession, NamesToken, HoldsToken, Reviving, Revoking, Never
<1>2. AloneIsAlone
  BY DEF Init, Idle, AloneIsAlone
<1>3. FinalIsClosed
  BY PolicyAssumption DEF Init, StoreInit, FinalIsClosed, Never
<1> QED
  BY <1>1, <1>2, <1>3, TypeInit DEF IInv

-----------------------------------------------------------------------------
\* What a step of p's call does to the store: it adds rows, writes only sessions of
\* the call's user, and disturbs no session logged out for good.
Footprint(p) ==
    /\ now' = now /\ superseded' = superseded
    /\ \A s \in DOMAIN sessions :
          s \in DOMAIN sessions' /\ sessions'[s].user = sessions[s].user
    /\ \A s \in DOMAIN sessions :
          sessions[s].user # op[p].user =>
             /\ sessions'[s] = sessions[s]
             /\ signedUntil'[s] = signedUntil[s]
             /\ denied'[s] = denied[s]
    /\ \A s \in DOMAIN sessions' \ DOMAIN sessions : sessions'[s].user = op[p].user
    /\ \A t \in DOMAIN tokens :
          t \in DOMAIN tokens' /\ tokens'[t].session = tokens[t].session
    /\ final \subseteq final'
    /\ \A s \in final :
          /\ IsRevoked(sessions'[s])
          /\ signedUntil'[s] = signedUntil[s]
          /\ Shut(s)'
    /\ \A s \in final' \ final :
          /\ s \in DOMAIN sessions
          /\ sessions[s].user = op[p].user
          /\ op[p].alone
          /\ IsRevoked(sessions'[s])
          /\ Shut(s)'

\* Calls other than p's keep their footing, whoever they are for.
LEMMA OthersKeep ==
    ASSUME IInv, TypeOK', NEW p \in Procs, NEW q \in Procs, p # q,
           op[p].pc # "idle", Footprint(p), op'[q] = op[q]
    PROVE  CallOK(op[q])'
<1>1. op[q] \in Calls /\ op[p] \in Calls /\ NamesExist(op[q]) /\ CallOK(op[q])
  BY DEF IInv, TypeOK
<1>2. op[q].pc = "idle" => op[q].pc \notin NamesSession \union NamesToken
  BY DEF NamesSession, HoldsSession, NamesToken
<1>3. op[q].alone /\ op[q].pc # "idle" => op[p].user # op[q].user
  BY DEF IInv, AloneIsAlone, InCallFor
<1>4. op[p].alone /\ op[q].pc # "idle" => op[p].user # op[q].user
  BY DEF IInv, AloneIsAlone, InCallFor
<1>5. Owned(op[q])'
  <2>1. \A t \in DOMAIN tokens : tokens[t].session \in DOMAIN sessions
    BY DEF IInv, TypeOK
  <2>2. HoldsSession \subseteq NamesSession /\ HoldsToken \subseteq NamesToken
    BY DEF HoldsSession, NamesSession, HoldsToken, NamesToken
  <2>3. op[q].pc \in {"mark", "next", "touch"} => op[q].pc \in NamesToken
    BY DEF NamesToken
  <2> QED
    BY <1>1, <2>1, <2>2, <2>3 DEF Owned, CallOK, NamesExist, Footprint
<1>6. op[q].pc \in NamesSession => (op[q].session \in final' => op[q].session \in final)
  <2> SUFFICES ASSUME op[q].pc \in NamesSession, op[q].session \in final' \ final
               PROVE  FALSE
    OBVIOUS
  <2>1. sessions[op[q].session].user = op[p].user /\ op[p].alone
    BY DEF Footprint
  <2>2. sessions[op[q].session].user = op[q].user
    BY <1>1 DEF CallOK, Owned
  <2> QED
    BY <1>2, <1>4, <2>1, <2>2
<1>7. op[q].pc = "everyDeny" =>
         op[q].listed \intersect final' \subseteq op[q].listed \intersect final
  <2> SUFFICES ASSUME NEW s \in op[q].listed, s \in final' \ final, op[q].pc = "everyDeny"
               PROVE  FALSE
    OBVIOUS
  <2>1. sessions[s].user = op[p].user /\ op[p].alone
    BY DEF Footprint
  <2>2. sessions[s].user = op[q].user
    BY <1>1 DEF CallOK, Owned
  <2> QED
    BY <1>4, <2>1, <2>2
<1>8. KnowsFinal(op[q])'
  <2>1. Reviving \union Revoking \subseteq NamesSession
    BY DEF Reviving, Revoking, NamesSession, HoldsSession
  <2>2. /\ op[q].at <= now'
        /\ op[q].pc \in {"logout", "everyList", "everyDeny"} => op[q].at # Never
    BY <1>1 DEF CallOK, KnowsFinal, Footprint
  <2>3. op[q].pc \in Reviving => op[q].session \notin final'
    BY <1>1, <1>6, <2>1 DEF CallOK, KnowsFinal
  <2>4. op[q].pc = "everyDeny" => op[q].listed \intersect final' = {}
    BY <1>1, <1>7 DEF CallOK, KnowsFinal
  <2>5. op[q].pc \in {"reuse", "logout"} /\ op[q].session \in final' => IsRevoked(op[q].row)
    BY <1>1, <1>6, <2>1 DEF CallOK, KnowsFinal, Revoking
  <2>6. op[q].pc \in Revoking /\ op[q].session \in final'
          => signedUntil'[op[q].session] <= op[q].at + AccessTtl
    BY <1>1, <1>6, <2>1 DEF CallOK, KnowsFinal, Footprint
  <2>7. op[q].pc \in {"logoutFind", "logout", "logoutDeny"} /\ op[q].session \in final'
          => Covers(op[q])'
    <3>1. op[q].pc \in {"logoutFind", "logout", "logoutDeny"} => op[q].pc \in NamesSession
      BY DEF NamesSession, HoldsSession
    <3> QED
      BY <1>1, <1>6, <3>1 DEF CallOK, KnowsFinal, Footprint, Covers
  <2> QED
    BY <2>2, <2>3, <2>4, <2>5, <2>6, <2>7 DEF KnowsFinal, IsRevoked
<1>9. LogsOutAlone(op[q])'
  <2> SUFFICES ASSUME op[q].alone, op[q].pc # "idle" PROVE LogsOutAlone(op[q])'
    BY DEF LogsOutAlone
  <2>1. op[q].pc \in {"logoutFind", "logout", "logoutDeny"} =>
           /\ op[q].session \in DOMAIN sessions
           /\ sessions[op[q].session].user # op[p].user
    BY <1>1, <1>3 DEF CallOK, Owned, NamesExist, NamesSession, HoldsSession
  <2>2. op[q].pc \in {"logout", "logoutDeny"} =>
           signedUntil'[op[q].session] <= op[q].at + AccessTtl
    BY <1>1, <2>1 DEF CallOK, LogsOutAlone, Footprint
  <2>3. op[q].pc = "logoutDeny" => IsRevoked(sessions'[op[q].session])
    BY <1>1, <2>1 DEF CallOK, LogsOutAlone, Footprint
  <2>4. ASSUME op[q].pc \in {"everyList", "everyDeny"},
               NEW s \in DOMAIN sessions', sessions'[s].user = op[q].user
        PROVE  signedUntil'[s] <= op[q].at + AccessTtl
    <3>1. s \in DOMAIN sessions
      BY <1>3, <2>4 DEF Footprint
    <3>2. sessions[s].user = op[q].user
      BY <2>4, <3>1 DEF Footprint
    <3>3. signedUntil'[s] = signedUntil[s]
      BY <1>3, <3>1, <3>2 DEF Footprint
    <3> QED
      BY <1>1, <2>4, <3>1, <3>2, <3>3 DEF CallOK, LogsOutAlone
  <2>5. ASSUME op[q].pc = "everyDeny", NEW s \in op[q].listed \ op[q].todo
        PROVE  denied'[s] = op[q].at + RevocationWindow
    <3>1. s \in DOMAIN sessions /\ sessions[s].user = op[q].user
      BY <1>1 DEF CallOK, Owned, NamesExist
    <3>2. denied'[s] = denied[s]
      BY <1>3, <3>1 DEF Footprint
    <3> QED
      BY <1>1, <2>5, <3>2 DEF CallOK, LogsOutAlone
  <2>6. op[q].pc \in {"logoutFind", "logout", "logoutDeny"} => Covers(op[q])'
    BY <1>1, <2>1 DEF CallOK, LogsOutAlone, Footprint, Covers
  <2> QED
    BY <2>2, <2>3, <2>4, <2>5, <2>6 DEF LogsOutAlone, IsRevoked
<1> QED
  BY <1>5, <1>8, <1>9 DEF CallOK

\* A step of p's call, in four parts: types, the rest of the state's references,
\* its footprint, and its own footing.
LEMMA StepKeeps ==
    ASSUME IInv, NEW p \in Procs, op[p].pc # "idle",
           StoreTypeOK', NEW c \in Calls, op' = [op EXCEPT ![p] = c], NamesExist(c)',
           \A t \in DOMAIN tokens' : tokens'[t].session \in DOMAIN sessions',
           calls' = calls, held' \subseteq DOMAIN tokens', GhostsTyped',
           c.pc = "idle" \/ (c.user = op[p].user /\ c.alone = op[p].alone),
           \A s \in SessionIds : signedUntil'[s] <= now + AccessTtl,
           Footprint(p), CallOK(c)'
    PROVE  IInv'
<1>1. op \in [Procs -> Calls] /\ op' \in [Procs -> Calls]
  BY DEF IInv, TypeOK
<1>2. op'[p] = c /\ \A q \in Procs : q # p => op'[q] = op[q]
  BY <1>1
<1>3. ASSUME NEW q \in Procs PROVE NamesExist(op[q])'
  <2>1. CASE q = p
    BY <1>2, <2>1 DEF NamesExist
  <2>2. CASE q # p
    BY <1>2, <2>2 DEF NamesExist, IInv, TypeOK, Footprint
  <2> QED
    BY <2>1, <2>2
<1>4. final' \subseteq DOMAIN sessions'
  BY DEF IInv, TypeOK, Footprint
<1>5. TypeOK'
  BY <1>1, <1>3, <1>4 DEF TypeOK, IInv, Footprint, GhostsTyped
<1>6. ASSUME NEW q \in Procs PROVE CallOK(op[q])'
  <2>1. CASE q = p
    BY <1>2, <2>1 DEF CallOK, Owned, KnowsFinal, LogsOutAlone
  <2>2. CASE q # p
    BY <1>2, <1>5, <2>2, OthersKeep
  <2> QED
    BY <2>1, <2>2
<1>7. AloneIsAlone'
  BY <1>2 DEF IInv, AloneIsAlone, InCallFor
<1>8. FinalIsClosed'
  BY DEF FinalIsClosed, Footprint, IInv
<1> QED
  BY <1>5, <1>6, <1>7, <1>8 DEF IInv

\* A call that leaves the tables alone touches no other call's sessions.
LEMMA NoFootprint ==
    ASSUME IInv, NEW p \in Procs, UNCHANGED <<storeVars, final, superseded>>
    PROVE  Footprint(p)
BY DEF IInv, FinalIsClosed, Footprint, storeVars, TypeOK, Shut

\* Steps that only read, and the end of a call.
LEMMA ReadingKeeps ==
    ASSUME IInv, NEW p \in Procs, op[p].pc # "idle",
           UNCHANGED <<storeVars, calls, held, bearers, final, superseded>>,
           earned' \in [Procs -> Int],
           NEW c \in Calls, op' = [op EXCEPT ![p] = c],
           c.pc = "idle" \/ (c.user = op[p].user /\ c.alone = op[p].alone),
           NamesExist(c), CallOK(c)
    PROVE  IInv'
<1>1. StoreTypeOK' /\ NamesExist(c)' /\ CallOK(c)'
  BY DEF storeVars, IInv, TypeOK, StoreTypeOK, NamesExist, CallOK, Owned, KnowsFinal,
     LogsOutAlone, Covers
<1> QED
  BY <1>1, NoFootprint, StepKeeps DEF storeVars, IInv, TypeOK, FinalIsClosed, GhostsTyped

\* A process between calls owes the invariant nothing.
LEMMA IdleIsFine == Idle \in Calls /\ NamesExist(Idle) /\ (now \in Nat => CallOK(Idle))
BY DEF Idle, Calls, Pcs, Never, NoSession, NoToken, NamesExist, CallOK, Owned, KnowsFinal,
   LogsOutAlone, NamesSession, HoldsSession, NamesToken, HoldsToken, Reviving, Revoking

\* Each action keeps the invariant: first the statements that only read.
LEMMA ListForEvictionKeeps ==
    ASSUME IInv, NEW p \in Procs, ListForEviction(p) PROVE IInv'
<1>1. op[p] \in Calls /\ NamesExist(op[p]) /\ CallOK(op[p]) /\ op[p].pc = "list"
  BY DEF IInv, TypeOK, ListForEviction
<1>0. earned' \in [Procs -> Int] /\ UNCHANGED <<storeVars, calls, held, bearers, final, superseded>>
  <2>1. earned \in [Procs -> Int]
    BY DEF IInv, TypeOK
  <2>2. earned' = earned \/ earned' = [earned EXCEPT ![p] = 0]
    BY DEF ListForEviction
  <2>3. earned' \in [Procs -> Int]
    BY <2>1, <2>2
  <2> QED
    BY <2>3 DEF ListForEviction
<1>2. CASE op' = [op EXCEPT ![p].pc = "open"]
  <2> DEFINE c == [op[p] EXCEPT !.pc = "open"]
  <2>1. c \in Calls /\ NamesExist(c) /\ CallOK(c)
    BY <1>1 DEF Calls, Pcs, NamesExist, CallOK, Owned, KnowsFinal, LogsOutAlone,
       NamesSession, HoldsSession, NamesToken, HoldsToken, Reviving, Revoking
  <2>2. op' = [op EXCEPT ![p] = c] /\ c.user = op[p].user /\ c.alone = op[p].alone
    BY <1>1, <1>2 DEF IInv, TypeOK, Calls
  <2> HIDE DEF c
  <2> QED
    BY <1>0, <1>1, <2>1, <2>2, ReadingKeeps
<1>3. ASSUME NEW s \in Oldest(ActiveOf(op[p].user)),
             op' = [op EXCEPT ![p].pc = "evict", ![p].session = s, ![p].row = sessions[s]]
      PROVE  IInv'
  <2> DEFINE c == [op[p] EXCEPT !.pc = "evict", !.session = s, !.row = sessions[s]]
  <2>1. /\ s \in DOMAIN sessions /\ sessions[s].user = op[p].user
        /\ ~IsRevoked(sessions[s]) /\ sessions[s] \in SessionRows /\ s \in SessionIds
    BY <1>3 DEF Oldest, ActiveOf, IInv, TypeOK, StoreTypeOK
  <2>2. s \notin final
    BY <2>1 DEF IInv, FinalIsClosed
  <2>3. c \in Calls /\ NamesExist(c)
    BY <1>1, <2>1 DEF Calls, Pcs, NamesExist,
       NamesSession, HoldsSession, NamesToken, HoldsToken
  <2>4. CallOK(c)
    BY <1>1, <2>1, <2>2 DEF Calls, CallOK, Owned, KnowsFinal, LogsOutAlone,
       NamesSession, HoldsSession, NamesToken, HoldsToken, Reviving, Revoking
  <2>5. op' = [op EXCEPT ![p] = c] /\ c.user = op[p].user /\ c.alone = op[p].alone
    BY <1>1, <1>3 DEF IInv, TypeOK, Calls
  <2> HIDE DEF c
  <2> QED
    BY <1>0, <1>1, <2>3, <2>4, <2>5, ReadingKeeps
<1> QED
  BY <1>2, <1>3 DEF ListForEviction

LEMMA FindTokenKeeps ==
    ASSUME IInv, NEW p \in Procs, FindToken(p) PROVE IInv'
<1> DEFINE c == [op[p] EXCEPT !.pc = "findSession", !.tokenRow = tokens[op[p].token],
                              !.session = tokens[op[p].token].session]
<1>1. op[p] \in Calls /\ NamesExist(op[p]) /\ CallOK(op[p]) /\ op[p].pc = "findToken"
  BY DEF IInv, TypeOK, FindToken
<1>2. /\ op[p].token \in DOMAIN tokens /\ tokens[op[p].token] \in TokenRows
      /\ tokens[op[p].token].session \in DOMAIN sessions
      /\ tokens[op[p].token].session \in SessionIds
      /\ sessions[tokens[op[p].token].session].user = op[p].user
  BY <1>1 DEF IInv, TypeOK, StoreTypeOK, NamesExist, CallOK, Owned, NamesToken
<1>3. c \in Calls /\ NamesExist(c)
  BY <1>1, <1>2 DEF Calls, Pcs, NamesExist, NamesSession, HoldsSession, NamesToken, HoldsToken
<1>4. CallOK(c)
  BY <1>1, <1>2 DEF Calls, CallOK, Owned, KnowsFinal, LogsOutAlone,
     NamesSession, HoldsSession, NamesToken, HoldsToken, Reviving, Revoking, Never
<1>5. op' = [op EXCEPT ![p] = c] /\ c.user = op[p].user /\ c.alone = op[p].alone
  BY <1>1 DEF FindToken, IInv, TypeOK, Calls
<1> HIDE DEF c
<1> QED
  BY <1>1, <1>3, <1>4, <1>5, ReadingKeeps DEF FindToken, IInv, TypeOK

LEMMA FindReusedKeeps ==
    ASSUME IInv, NEW p \in Procs, FindReused(p) PROVE IInv'
<1> DEFINE c == [op[p] EXCEPT !.pc = "reuse", !.at = now, !.row = sessions[op[p].session]]
<1>1. op[p] \in Calls /\ NamesExist(op[p]) /\ CallOK(op[p]) /\ op[p].pc = "findSession"
  BY DEF IInv, TypeOK, FindReused, FindSession
<1>2. /\ op[p].session \in DOMAIN sessions /\ sessions[op[p].session] \in SessionRows
      /\ op[p].session \in SessionIds /\ now \in Nat \ {0}
      /\ sessions[op[p].session].user = op[p].user
      /\ signedUntil[op[p].session] <= now + AccessTtl
      /\ op[p].session \in final => IsRevoked(sessions[op[p].session])
  BY <1>1 DEF IInv, TypeOK, StoreTypeOK, NamesExist, CallOK, Owned, NamesSession, FinalIsClosed
<1>3. c \in Calls /\ NamesExist(c)
  BY <1>1, <1>2 DEF Calls, Pcs, NamesExist, NamesSession, HoldsSession, NamesToken, HoldsToken
<1>4. CallOK(c)
  BY <1>1, <1>2 DEF Calls, CallOK, Owned, KnowsFinal, LogsOutAlone,
     NamesSession, HoldsSession, NamesToken, HoldsToken, Reviving, Revoking, Never
<1>5. op' = [op EXCEPT ![p] = c] /\ c.user = op[p].user /\ c.alone = op[p].alone
  BY <1>1 DEF FindReused, IInv, TypeOK, Calls, FindSession
<1> HIDE DEF c
<1> QED
  BY <1>1, <1>3, <1>4, <1>5, ReadingKeeps DEF FindReused, FindSession, IInv, TypeOK

LEMMA FindCurrentKeeps ==
    ASSUME IInv, NEW p \in Procs, FindCurrent(p) PROVE IInv'
<1> DEFINE c == [op[p] EXCEPT !.pc = "mark", !.at = now, !.row = sessions[op[p].session]]
<1>1. op[p] \in Calls /\ NamesExist(op[p]) /\ CallOK(op[p]) /\ op[p].pc = "findSession"
  BY DEF IInv, TypeOK, FindCurrent, FindSession
<1>2. /\ op[p].session \in DOMAIN sessions /\ sessions[op[p].session] \in SessionRows
      /\ op[p].session \in SessionIds /\ now \in Nat \ {0}
      /\ sessions[op[p].session].user = op[p].user
      /\ signedUntil[op[p].session] <= now + AccessTtl
      /\ op[p].session \in final => IsRevoked(sessions[op[p].session])
      /\ op[p].session \notin final
  BY <1>1 DEF FindCurrent, MayRotate, IsActive,
      IInv, TypeOK, StoreTypeOK, NamesExist, CallOK, Owned, NamesSession, FinalIsClosed
<1>3. c \in Calls /\ NamesExist(c)
  BY <1>1, <1>2 DEF Calls, Pcs, NamesExist, NamesSession, HoldsSession, NamesToken, HoldsToken
<1>4. CallOK(c)
  BY <1>1, <1>2 DEF Calls, CallOK, Owned, KnowsFinal, LogsOutAlone,
     NamesSession, HoldsSession, NamesToken, HoldsToken, Reviving, Revoking, Never
<1>5. op' = [op EXCEPT ![p] = c] /\ c.user = op[p].user /\ c.alone = op[p].alone
  BY <1>1 DEF FindCurrent, IInv, TypeOK, Calls, FindSession
<1> HIDE DEF c
<1> QED
  BY <1>1, <1>3, <1>4, <1>5, ReadingKeeps DEF FindCurrent, FindSession, IInv, TypeOK

LEMMA LogoutFindKeeps ==
    ASSUME IInv, NEW p \in Procs, LogoutFind(p) PROVE IInv'
<1> DEFINE c == [op[p] EXCEPT !.pc = "logout", !.at = now, !.row = sessions[op[p].session]]
<1>1. op[p] \in Calls /\ NamesExist(op[p]) /\ CallOK(op[p]) /\ op[p].pc = "logoutFind"
  BY DEF IInv, TypeOK, LogoutFind
<1>2. /\ op[p].session \in DOMAIN sessions /\ sessions[op[p].session] \in SessionRows
      /\ op[p].session \in SessionIds /\ now \in Nat \ {0}
      /\ sessions[op[p].session].user = op[p].user
      /\ signedUntil[op[p].session] <= now + AccessTtl
      /\ op[p].session \in final => IsRevoked(sessions[op[p].session])
  BY <1>1 DEF IInv, TypeOK, StoreTypeOK, NamesExist, CallOK, Owned, NamesSession, FinalIsClosed
<1>3. c \in Calls /\ NamesExist(c)
  BY <1>1, <1>2 DEF Calls, Pcs, NamesExist, NamesSession, HoldsSession, NamesToken, HoldsToken
<1>4. CallOK(c)
  BY <1>1, <1>2 DEF Calls, CallOK, Owned, KnowsFinal, LogsOutAlone, Covers,
     NamesSession, HoldsSession, NamesToken, HoldsToken, Reviving, Revoking, Never
<1>5. op' = [op EXCEPT ![p] = c] /\ c.user = op[p].user /\ c.alone = op[p].alone
  BY <1>1 DEF LogoutFind, IInv, TypeOK, Calls
<1> HIDE DEF c
<1> QED
  BY <1>1, <1>3, <1>4, <1>5, ReadingKeeps DEF LogoutFind, IInv, TypeOK

LEMMA ListForLogoutKeeps ==
    ASSUME IInv, NEW p \in Procs, ListForLogout(p) PROVE IInv'
<1> DEFINE c == [op[p] EXCEPT !.pc = "everyDeny", !.listed = ActiveOf(op[p].user),
                              !.todo = ActiveOf(op[p].user)]
<1>1. op[p] \in Calls /\ NamesExist(op[p]) /\ CallOK(op[p]) /\ op[p].pc = "everyList"
  BY DEF IInv, TypeOK, ListForLogout
<1>2. /\ ActiveOf(op[p].user) \subseteq DOMAIN sessions
      /\ ActiveOf(op[p].user) \subseteq SessionIds
      /\ \A s \in ActiveOf(op[p].user) : sessions[s].user = op[p].user
      /\ ActiveOf(op[p].user) \intersect final = {}
  BY DEF ActiveOf, IInv, TypeOK, StoreTypeOK, FinalIsClosed
<1>3. c \in Calls /\ NamesExist(c)
  BY <1>1, <1>2 DEF Calls, Pcs, NamesExist, NamesSession, HoldsSession, NamesToken, HoldsToken
<1>4. CallOK(c)
  BY <1>1, <1>2 DEF Calls, CallOK, Owned, KnowsFinal, LogsOutAlone,
     NamesSession, HoldsSession, NamesToken, HoldsToken, Reviving, Revoking, Never
<1>5. op' = [op EXCEPT ![p] = c] /\ c.user = op[p].user /\ c.alone = op[p].alone
  BY <1>1 DEF ListForLogout, IInv, TypeOK, Calls
<1> HIDE DEF c
<1> QED
  BY <1>1, <1>3, <1>4, <1>5, ReadingKeeps DEF ListForLogout, IInv, TypeOK

LEMMA RejectKeeps ==
    ASSUME IInv, NEW p \in Procs, Reject(p) PROVE IInv'
<1>1. now \in Nat /\ op[p].pc = "findSession" /\ op' = [op EXCEPT ![p] = Idle]
  BY DEF IInv, TypeOK, StoreTypeOK, Reject, Return
<1>2. Idle.pc = "idle"
  BY DEF Idle
<1> QED
  BY <1>1, <1>2, IdleIsFine, ReadingKeeps DEF Reject, IInv, TypeOK

-----------------------------------------------------------------------------
\* Writing a session row of the call's user is harmless when a session logged out
\* for good is written as a revoked row.
LEMMA SaveFootprint ==
    ASSUME IInv, NEW p \in Procs, NEW s \in SessionIds, NEW row \in SessionRows,
           Save(s, row), UNCHANGED <<now, tokens, denied, signedUntil, faults, final, superseded>>,
           row.user = op[p].user,
           s \in DOMAIN sessions => sessions[s].user = op[p].user,
           s \in final => IsRevoked(row)
    PROVE  StoreTypeOK' /\ Footprint(p)
<1>1. /\ DOMAIN sessions' = DOMAIN sessions \union {s}
      /\ sessions'[s] = row
      /\ \A x \in DOMAIN sessions : x # s => sessions'[x] = sessions[x]
  BY DEF Save, Upsert
<1>2. StoreTypeOK'
  BY <1>1 DEF IInv, TypeOK, StoreTypeOK
<1>3. \A x \in final : x \in DOMAIN sessions /\ IsRevoked(sessions'[x])
  BY <1>1 DEF IInv, TypeOK, FinalIsClosed
<1> QED
  BY <1>1, <1>2, <1>3 DEF Footprint, IInv, FinalIsClosed, Shut

\* So is writing a token row, if a row that exists keeps its session.
LEMMA TokenFootprint ==
    ASSUME IInv, NEW p \in Procs, NEW t \in TokenIds, NEW row \in TokenRows,
           SaveRefreshToken(t, row),
           UNCHANGED <<now, sessions, denied, signedUntil, faults, final, superseded>>,
           row.session \in DOMAIN sessions,
           t \in DOMAIN tokens => tokens[t].session = row.session
    PROVE  /\ StoreTypeOK' /\ Footprint(p)
           /\ DOMAIN tokens' = DOMAIN tokens \union {t}
           /\ tokens'[t] = row
           /\ \A x \in DOMAIN tokens' : tokens'[x].session \in DOMAIN sessions'
<1>1. /\ DOMAIN tokens' = DOMAIN tokens \union {t}
      /\ tokens'[t] = row
      /\ \A x \in DOMAIN tokens : x # t => tokens'[x] = tokens[x]
  BY DEF SaveRefreshToken, Upsert
<1>2. StoreTypeOK'
  BY <1>1 DEF IInv, TypeOK, StoreTypeOK
<1>3. \A x \in DOMAIN tokens' : tokens'[x].session \in DOMAIN sessions'
  BY <1>1 DEF IInv, TypeOK
<1> QED
  BY <1>1, <1>2, <1>3 DEF Footprint, IInv, FinalIsClosed, Shut

\* A deny-list entry for a session of the call's user may shorten an earlier one, but
\* not below the life of the tokens of a session logged out for good.
LEMMA DenyFootprint ==
    ASSUME IInv, NEW p \in Procs, NEW s \in DOMAIN sessions, NEW until \in Nat,
           Deny(s, until), UNCHANGED <<now, sessions, tokens, signedUntil, faults, superseded>>,
           sessions[s].user = op[p].user,
           s \in final' => s \in superseded \/ signedUntil[s] <= until,
           final' = final \/ (final' = final \union {s} /\ op[p].alone
                                /\ IsRevoked(sessions[s]))
    PROVE  StoreTypeOK' /\ Footprint(p) /\ denied'[s] = until
<1>1. s \in SessionIds /\ denied \in [SessionIds -> Nat] /\ final \subseteq SessionIds
  BY DEF IInv, TypeOK, StoreTypeOK
<1>2. denied'[s] = until /\ \A x \in SessionIds : x # s => denied'[x] = denied[x]
  BY <1>1 DEF Deny
<1>3. StoreTypeOK'
  BY <1>1 DEF IInv, TypeOK, StoreTypeOK, Deny
<1>4. \A x \in final : IsRevoked(sessions[x]) /\ Shut(x)'
  BY <1>1, <1>2 DEF IInv, FinalIsClosed, Shut
<1>5. DOMAIN sessions \subseteq SessionIds
  BY DEF IInv, TypeOK, StoreTypeOK
<1> QED
  BY <1>1, <1>2, <1>3, <1>4, <1>5 DEF Footprint, Shut

\* Evict, RevokeReused and LogoutSave.
LEMMA SaveRevokedKeeps ==
    ASSUME IInv, NEW p \in Procs, NEW from, NEW to, SaveRevoked(p, from, to),
           <<from, to>> \in {<<"evict", "evictDeny">>, <<"reuse", "reuseDeny">>,
                             <<"logout", "logoutDeny">>},
           earned' \in [Procs -> Int]
    PROVE  IInv'
<1> PICK c : c = [op[p] EXCEPT !.pc = to, !.row = NoSession, !.token = 0,
                               !.tokenRow = NoToken]
  OBVIOUS
<1> DEFINE s == op[p].session
           row == Revoke(op[p].row, op[p].at)
<1>1. /\ op[p] \in Calls /\ NamesExist(op[p]) /\ CallOK(op[p]) /\ op[p].pc = from
      /\ from \in HoldsSession /\ from \in NamesSession /\ to \in NamesSession
      /\ to \notin HoldsSession /\ to \notin NamesToken /\ to \notin HoldsToken
      /\ to \in Pcs
  BY DEF IInv, TypeOK, SaveRevoked, HoldsSession, NamesSession, NamesToken, HoldsToken, Pcs
<1>2. /\ s \in DOMAIN sessions /\ s \in SessionIds /\ op[p].row \in SessionRows
      /\ op[p].at \in Nat /\ op[p].row.user = op[p].user /\ sessions[s].user = op[p].user
  BY <1>1 DEF IInv, TypeOK, StoreTypeOK, NamesExist, CallOK, Owned, Calls
<1>3. /\ row \in SessionRows /\ row.user = op[p].user
      /\ op[p].at # Never => IsRevoked(row)
      /\ IsRevoked(op[p].row) => IsRevoked(row)
  BY <1>2 DEF Revoke, IsRevoked, SessionRows
<1>4. s \in final => IsRevoked(row)
  BY <1>1, <1>3 DEF CallOK, KnowsFinal, Reviving
<1>5. StoreTypeOK' /\ Footprint(p)
  <2> HIDE DEF row
  <2> QED
    BY <1>2, <1>3, <1>4, SaveFootprint DEF SaveRevoked, row
<1>6. sessions'[s] = row /\ DOMAIN sessions' = DOMAIN sessions
  BY <1>2 DEF SaveRevoked, Save, Upsert
<1>7. c \in Calls
  BY <1>1 DEF Calls
<1>8. NamesExist(c)'
  BY <1>1, <1>2, <1>6 DEF NamesExist, Calls, NamesToken, NamesSession
<1>9. Owned(c)' /\ KnowsFinal(c)'
  <2>1. Owned(c)'
    BY <1>1, <1>2, <1>5 DEF Calls, CallOK, Owned, Footprint, NamesExist
  <2>2. /\ c.pc = to /\ c.at = op[p].at /\ c.session = s /\ c.listed = op[p].listed
        /\ c.until = op[p].until
    BY <1>1 DEF Calls
  <2>3. final' = final /\ now' = now /\ signedUntil' = signedUntil /\ superseded' = superseded
    BY DEF SaveRevoked
  <2>4. KnowsFinal(op[p])
    BY <1>1 DEF CallOK
  <2>5. /\ to \in Reviving => from \in Reviving
        /\ to \in Revoking => from \in Revoking
        /\ to \notin {"logout", "logoutFind", "everyList", "everyDeny", "reuse"}
        /\ to = "logoutDeny" => from = "logout"
    BY DEF Reviving, Revoking
  <2>6. KnowsFinal(c)'
    BY <1>1, <2>2, <2>3, <2>4, <2>5 DEF KnowsFinal, Covers
  <2> QED
    BY <2>1, <2>6
<1>10. LogsOutAlone(c)'
  <2>1. from = "logout" => IsRevoked(row)
    BY <1>1, <1>3 DEF CallOK, KnowsFinal
  <2>2. /\ c.pc = to /\ c.at = op[p].at /\ c.session = s /\ c.alone = op[p].alone
        /\ c.until = op[p].until
    BY <1>1 DEF Calls
  <2>3. signedUntil' = signedUntil /\ superseded' = superseded
    BY DEF SaveRevoked
  <2>4. LogsOutAlone(op[p])
    BY <1>1 DEF CallOK
  <2>5. IsRevoked(row) => sessions'[s].revokedAt # Never
    BY <1>6 DEF IsRevoked
  <2>6. to = "logoutDeny" => from = "logout"
    OBVIOUS
  <2>7. to \notin {"logout", "logoutFind", "everyList", "everyDeny"}
    OBVIOUS
  <2> HIDE DEF row
  <2> QED
    BY <1>1, <2>1, <2>2, <2>3, <2>4, <2>5, <2>6, <2>7 DEF LogsOutAlone, IsRevoked, Covers
<1>11. op' = [op EXCEPT ![p] = c] /\ c.user = op[p].user /\ c.alone = op[p].alone
  BY <1>1 DEF SaveRevoked, IInv, TypeOK, Calls
<1>12. op[p].pc # "idle"
  BY <1>1 DEF HoldsSession
<1>13. /\ \A t \in DOMAIN tokens' : tokens'[t].session \in DOMAIN sessions'
       /\ calls' = calls /\ held' \subseteq DOMAIN tokens' /\ GhostsTyped'
       /\ \A x \in SessionIds : signedUntil'[x] <= now + AccessTtl
  BY <1>6 DEF SaveRevoked, GhostsTyped, IInv, TypeOK, FinalIsClosed
<1> QED
  BY <1>5, <1>7, <1>8, <1>9, <1>10, <1>11, <1>12, <1>13, StepKeeps DEF CallOK

LEMMA SaveTouchedKeeps ==
    ASSUME IInv, NEW p \in Procs, SaveTouched(p) PROVE IInv'
<1> PICK c : c = [op[p] EXCEPT !.pc = "sign", !.at = Never, !.row = NoSession]
  OBVIOUS
<1> DEFINE s == op[p].session
           row == Touch(op[p].row, op[p].at)
<1>1. /\ op[p] \in Calls /\ NamesExist(op[p]) /\ CallOK(op[p]) /\ op[p].pc = "touch"
      /\ op \in [Procs -> Calls]
  BY DEF IInv, TypeOK, SaveTouched
<1>2. /\ s \in DOMAIN sessions /\ s \in SessionIds /\ op[p].row \in SessionRows
      /\ op[p].at \in Nat /\ op[p].row.user = op[p].user /\ sessions[s].user = op[p].user
      /\ s \notin final
      /\ op[p].token \in DOMAIN tokens
      /\ sessions[tokens[op[p].token].session].user = op[p].user
      /\ tokens[op[p].token].session \in DOMAIN sessions
  BY <1>1 DEF IInv, TypeOK, StoreTypeOK, NamesExist, CallOK, Owned, KnowsFinal, Calls,
     NamesSession, HoldsSession, NamesToken, Reviving
<1>3. row \in SessionRows /\ row.user = op[p].user
  BY <1>2 DEF Touch, SessionRows
<1>4. StoreTypeOK' /\ Footprint(p)
  <2> HIDE DEF row
  <2> QED
    BY <1>2, <1>3, SaveFootprint DEF SaveTouched, row
<1>5. DOMAIN sessions' = DOMAIN sessions
  BY <1>2 DEF SaveTouched, Save, Upsert
<1>6. c \in Calls
  BY <1>1 DEF Calls, Pcs, Never
<1>7. /\ c.pc = "sign" /\ c.at = Never /\ c.session = s /\ c.token = op[p].token
      /\ c.listed = op[p].listed /\ c.todo = op[p].todo
      /\ c.user = op[p].user /\ c.alone = op[p].alone
  BY <1>1 DEF Calls
<1>8. NamesExist(c)' /\ Owned(c)'
  BY <1>1, <1>2, <1>4, <1>5, <1>7 DEF NamesExist, CallOK, Owned, Footprint, SaveTouched,
     NamesSession, HoldsSession, NamesToken, HoldsToken
<1>9. KnowsFinal(c)' /\ LogsOutAlone(c)'
  BY <1>2, <1>7 DEF KnowsFinal, LogsOutAlone, SaveTouched, Never, Revoking, IInv, TypeOK,
     StoreTypeOK
<1>10. op' = [op EXCEPT ![p] = c]
  BY <1>1 DEF SaveTouched, Calls
<1>11. /\ \A t \in DOMAIN tokens' : tokens'[t].session \in DOMAIN sessions'
       /\ calls' = calls /\ held' \subseteq DOMAIN tokens' /\ GhostsTyped'
       /\ \A x \in SessionIds : signedUntil'[x] <= now + AccessTtl
  BY <1>5 DEF SaveTouched, Earn, GhostsTyped, IInv, TypeOK, FinalIsClosed
<1> QED
  BY <1>1, <1>4, <1>6, <1>7, <1>8, <1>9, <1>10, <1>11, StepKeeps DEF CallOK

LEMMA SaveSessionKeeps ==
    ASSUME IInv, NEW p \in Procs, SaveSession(p) PROVE IInv'
<1>0. PICK s \in Fresh(SessionIds, sessions) :
         /\ Save(s, Open(op[p].user, op[p].at))
         /\ op' = [op EXCEPT ![p].pc = "first", ![p].session = s]
  BY DEF SaveSession
<1> PICK c : c = [op[p] EXCEPT !.pc = "first", !.session = s]
  OBVIOUS
<1> DEFINE row == Open(op[p].user, op[p].at)
<1>1. /\ op[p] \in Calls /\ NamesExist(op[p]) /\ CallOK(op[p]) /\ op[p].pc = "open"
      /\ op \in [Procs -> Calls]
  BY DEF IInv, TypeOK, SaveSession
<1>2. /\ s \in SessionIds /\ s \notin DOMAIN sessions /\ s \notin final
      /\ op[p].user \in Users /\ op[p].at \in Nat
  BY <1>1 DEF Fresh, IInv, TypeOK, NamesExist, Calls
<1>3. row \in SessionRows /\ row.user = op[p].user
  BY <1>2, PolicyAssumption DEF Open, SessionRows, Never
<1>4. StoreTypeOK' /\ Footprint(p)
  <2> HIDE DEF row
  <2> QED
    BY <1>0, <1>2, <1>3, SaveFootprint DEF SaveSession, row
<1>5. DOMAIN sessions' = DOMAIN sessions \union {s} /\ sessions'[s] = row
  BY <1>0 DEF Save, Upsert
<1>6. c \in Calls
  BY <1>1, <1>2 DEF Calls, Pcs
<1>7. /\ c.pc = "first" /\ c.at = op[p].at /\ c.session = s
      /\ c.listed = op[p].listed /\ c.todo = op[p].todo
      /\ c.user = op[p].user /\ c.alone = op[p].alone
  BY <1>1 DEF Calls
<1>8. NamesExist(c)'
  BY <1>1, <1>2, <1>5, <1>7 DEF NamesExist, NamesSession, HoldsSession, NamesToken, HoldsToken
<1>9. Owned(c)'
  <2> HIDE DEF row
  <2> QED
    BY <1>1, <1>3, <1>4, <1>5, <1>7 DEF CallOK, Owned, NamesExist, Footprint,
       HoldsSession, NamesToken, HoldsToken
<1>10. KnowsFinal(c)' /\ LogsOutAlone(c)'
  BY <1>1, <1>2, <1>7 DEF CallOK, KnowsFinal, LogsOutAlone, SaveSession, Revoking
<1>11. op' = [op EXCEPT ![p] = c]
  BY <1>0, <1>1 DEF Calls
<1>12. /\ \A t \in DOMAIN tokens' : tokens'[t].session \in DOMAIN sessions'
       /\ calls' = calls /\ held' \subseteq DOMAIN tokens' /\ GhostsTyped'
       /\ \A x \in SessionIds : signedUntil'[x] <= now + AccessTtl
  BY <1>0, <1>5 DEF SaveSession, Earn, GhostsTyped, IInv, TypeOK, FinalIsClosed
<1> QED
  BY <1>1, <1>4, <1>6, <1>7, <1>8, <1>9, <1>10, <1>11, <1>12, StepKeeps DEF CallOK

LEMMA SaveFirstTokenKeeps ==
    ASSUME IInv, NEW p \in Procs, SaveFirstToken(p) PROVE IInv'
<1>0. PICK t \in Fresh(TokenIds, tokens) :
         /\ SaveRefreshToken(t, IssueRefreshToken(op[p].session, op[p].at, Never))
         /\ op' = [op EXCEPT ![p].pc = "sign", ![p].at = Never, ![p].token = t]
  BY DEF SaveFirstToken
<1> PICK c : c = [op[p] EXCEPT !.pc = "sign", !.at = Never, !.token = t]
  OBVIOUS
<1> DEFINE row == IssueRefreshToken(op[p].session, op[p].at, Never)
<1>1. /\ op[p] \in Calls /\ NamesExist(op[p]) /\ CallOK(op[p]) /\ op[p].pc = "first"
      /\ op \in [Procs -> Calls]
  BY DEF IInv, TypeOK, SaveFirstToken
<1>2. /\ t \in TokenIds /\ t \notin DOMAIN tokens
      /\ op[p].session \in DOMAIN sessions /\ op[p].session \in SessionIds
      /\ op[p].at \in Nat
      /\ sessions[op[p].session].user = op[p].user
  BY <1>0, <1>1 DEF Fresh, IInv, TypeOK, StoreTypeOK, NamesExist, Calls, CallOK, Owned,
     NamesSession
<1>3. row \in TokenRows /\ row.session = op[p].session
  BY <1>2, PolicyAssumption DEF IssueRefreshToken, TokenRows, Never
<1>4. /\ StoreTypeOK' /\ Footprint(p)
      /\ DOMAIN tokens' = DOMAIN tokens \union {t}
      /\ tokens'[t] = row
      /\ \A x \in DOMAIN tokens' : tokens'[x].session \in DOMAIN sessions'
  <2> HIDE DEF row
  <2> QED
    BY <1>0, <1>2, <1>3, TokenFootprint DEF SaveFirstToken, row
<1>5. c \in Calls
  BY <1>1, <1>2 DEF Calls, Pcs, Never, NoToken
<1>6. /\ c.listed = op[p].listed /\ c.todo = op[p].todo /\ c.user = op[p].user
      /\ c.alone = op[p].alone /\ c.session = op[p].session
      /\ c.pc = "sign" /\ c.at = Never /\ c.token = t
  BY <1>1 DEF Calls
<1>7. NamesExist(c)'
  BY <1>1, <1>2, <1>4, <1>6 DEF NamesExist, SaveFirstToken, NamesSession, HoldsSession, NamesToken,
     HoldsToken
<1>8. Owned(c)'
  <2> HIDE DEF row
  <2> QED
    BY <1>1, <1>2, <1>3, <1>4, <1>6 DEF CallOK, Owned, NamesExist, SaveFirstToken,
       NamesSession, HoldsSession, NamesToken, HoldsToken
<1>9. KnowsFinal(c)' /\ LogsOutAlone(c)'
  BY <1>1, <1>2, <1>6 DEF CallOK, KnowsFinal, LogsOutAlone, SaveFirstToken, Reviving, Revoking,
     Never, IInv, TypeOK, StoreTypeOK
<1>10. op' = [op EXCEPT ![p] = c]
  BY <1>0, <1>1 DEF SaveFirstToken, Calls
<1>11. /\ calls' = calls /\ held' \subseteq DOMAIN tokens' /\ GhostsTyped'
       /\ \A x \in SessionIds : signedUntil'[x] <= now + AccessTtl
  BY <1>4 DEF SaveFirstToken, GhostsTyped, IInv, TypeOK, FinalIsClosed
<1> QED
  BY <1>1, <1>4, <1>5, <1>6, <1>7, <1>8, <1>9, <1>10, <1>11, StepKeeps DEF CallOK

LEMMA MarkTokenUsedKeeps ==
    ASSUME IInv, NEW p \in Procs, MarkTokenUsed(p) PROVE IInv'
<1> PICK c : c = [op[p] EXCEPT !.pc = "next", !.tokenRow = NoToken]
  OBVIOUS
<1> DEFINE row == MarkUsed(op[p].tokenRow, op[p].at)
<1>1. /\ op[p] \in Calls /\ NamesExist(op[p]) /\ CallOK(op[p]) /\ op[p].pc = "mark"
      /\ op \in [Procs -> Calls]
  BY DEF IInv, TypeOK, MarkTokenUsed
<1>2. /\ op[p].token \in DOMAIN tokens /\ op[p].token \in TokenIds
      /\ op[p].session \in DOMAIN sessions /\ op[p].tokenRow \in TokenRows
      /\ op[p].tokenRow.session = op[p].session
      /\ tokens[op[p].token].session = op[p].session
      /\ op[p].at \in Nat
      /\ sessions[op[p].session].user = op[p].user
  BY <1>1 DEF IInv, TypeOK, StoreTypeOK, NamesExist, Calls, CallOK, Owned,
     NamesSession, HoldsSession, NamesToken, HoldsToken
<1>3. row \in TokenRows /\ row.session = op[p].session
  BY <1>2 DEF MarkUsed, TokenRows
<1>4. /\ StoreTypeOK' /\ Footprint(p)
      /\ DOMAIN tokens' = DOMAIN tokens \union {op[p].token}
      /\ tokens'[op[p].token] = row
      /\ \A x \in DOMAIN tokens' : tokens'[x].session \in DOMAIN sessions'
  <2> HIDE DEF row
  <2> QED
    BY <1>2, <1>3, TokenFootprint DEF MarkTokenUsed, row
<1>5. c \in Calls
  BY <1>1, <1>2 DEF Calls, Pcs, Never, NoToken
<1>6. /\ c.listed = op[p].listed /\ c.todo = op[p].todo /\ c.user = op[p].user
      /\ c.alone = op[p].alone /\ c.session = op[p].session
      /\ c.pc = "next" /\ c.at = op[p].at /\ c.token = op[p].token /\ c.row = op[p].row
  BY <1>1 DEF Calls
<1>7. NamesExist(c)'
  BY <1>1, <1>2, <1>4, <1>6 DEF NamesExist, MarkTokenUsed, NamesSession, HoldsSession, NamesToken,
     HoldsToken
<1>8. Owned(c)'
  <2> HIDE DEF row
  <2> QED
    BY <1>1, <1>2, <1>3, <1>4, <1>6 DEF CallOK, Owned, NamesExist, MarkTokenUsed,
       NamesSession, HoldsSession, NamesToken, HoldsToken
<1>9. KnowsFinal(c)' /\ LogsOutAlone(c)'
  BY <1>1, <1>2, <1>6 DEF CallOK, KnowsFinal, LogsOutAlone, MarkTokenUsed, Reviving, Revoking,
     Never, IInv, TypeOK, StoreTypeOK
<1>10. op' = [op EXCEPT ![p] = c]
  BY <1>1 DEF MarkTokenUsed, Calls
<1>11. /\ calls' = calls /\ held' \subseteq DOMAIN tokens' /\ GhostsTyped'
       /\ \A x \in SessionIds : signedUntil'[x] <= now + AccessTtl
  BY <1>4 DEF MarkTokenUsed, GhostsTyped, IInv, TypeOK, FinalIsClosed
<1> QED
  BY <1>1, <1>4, <1>5, <1>6, <1>7, <1>8, <1>9, <1>10, <1>11, StepKeeps DEF CallOK

LEMMA SaveNextTokenKeeps ==
    ASSUME IInv, NEW p \in Procs, SaveNextToken(p) PROVE IInv'
<1>0. PICK t \in Fresh(TokenIds, tokens) :
         /\ SaveRefreshToken(t, IssueRefreshToken(op[p].session, op[p].at, op[p].token))
         /\ op' = [op EXCEPT ![p].pc = "touch", ![p].token = t]
  BY DEF SaveNextToken
<1> PICK c : c = [op[p] EXCEPT !.pc = "touch", !.token = t]
  OBVIOUS
<1> DEFINE row == IssueRefreshToken(op[p].session, op[p].at, op[p].token)
<1>1. /\ op[p] \in Calls /\ NamesExist(op[p]) /\ CallOK(op[p]) /\ op[p].pc = "next"
      /\ op \in [Procs -> Calls]
  BY DEF IInv, TypeOK, SaveNextToken
<1>2. /\ t \in TokenIds /\ t \notin DOMAIN tokens
      /\ op[p].session \in DOMAIN sessions /\ op[p].session \in SessionIds
      /\ op[p].at \in Nat /\ op[p].token \in TokenIds
      /\ sessions[op[p].session].user = op[p].user
  BY <1>0, <1>1 DEF Fresh, IInv, TypeOK, StoreTypeOK, NamesExist, Calls, CallOK, Owned,
     NamesSession, HoldsSession, NamesToken
<1>3. row \in TokenRows /\ row.session = op[p].session
  BY <1>2, PolicyAssumption DEF IssueRefreshToken, TokenRows, Never
<1>4. /\ StoreTypeOK' /\ Footprint(p)
      /\ DOMAIN tokens' = DOMAIN tokens \union {t}
      /\ tokens'[t] = row
      /\ \A x \in DOMAIN tokens' : tokens'[x].session \in DOMAIN sessions'
  <2> HIDE DEF row
  <2> QED
    BY <1>0, <1>2, <1>3, TokenFootprint DEF SaveNextToken, row
<1>5. c \in Calls
  BY <1>1, <1>2 DEF Calls, Pcs, Never, NoToken
<1>6. /\ c.listed = op[p].listed /\ c.todo = op[p].todo /\ c.user = op[p].user
      /\ c.alone = op[p].alone /\ c.session = op[p].session
      /\ c.pc = "touch" /\ c.at = op[p].at /\ c.token = t /\ c.row = op[p].row
  BY <1>1 DEF Calls
<1>7. NamesExist(c)'
  BY <1>1, <1>2, <1>4, <1>6 DEF NamesExist, SaveNextToken, NamesSession, HoldsSession, NamesToken,
     HoldsToken
<1>8. Owned(c)'
  <2> HIDE DEF row
  <2> QED
    BY <1>1, <1>2, <1>3, <1>4, <1>6 DEF CallOK, Owned, NamesExist, SaveNextToken,
       NamesSession, HoldsSession, NamesToken, HoldsToken
<1>9. KnowsFinal(c)' /\ LogsOutAlone(c)'
  BY <1>1, <1>2, <1>6 DEF CallOK, KnowsFinal, LogsOutAlone, SaveNextToken, Reviving, Revoking,
     Never, IInv, TypeOK, StoreTypeOK
<1>10. op' = [op EXCEPT ![p] = c]
  BY <1>0, <1>1 DEF SaveNextToken, Calls
<1>11. /\ calls' = calls /\ held' \subseteq DOMAIN tokens' /\ GhostsTyped'
       /\ \A x \in SessionIds : signedUntil'[x] <= now + AccessTtl
  BY <1>4 DEF SaveNextToken, GhostsTyped, IInv, TypeOK, FinalIsClosed
<1> QED
  BY <1>1, <1>4, <1>5, <1>6, <1>7, <1>8, <1>9, <1>10, <1>11, StepKeeps DEF CallOK

LEMMA SignAndReturnKeeps ==
    ASSUME IInv, NEW p \in Procs, SignAndReturn(p) PROVE IInv'
<1> DEFINE s == op[p].session
<1>1. /\ op[p] \in Calls /\ NamesExist(op[p]) /\ CallOK(op[p]) /\ op[p].pc = "sign"
      /\ now \in Nat /\ signedUntil \in [SessionIds -> Nat]
  BY DEF IInv, TypeOK, StoreTypeOK, SignAndReturn
<1>2. /\ s \in DOMAIN sessions /\ s \in SessionIds /\ s \notin final
      /\ sessions[s].user = op[p].user /\ op[p].token \in DOMAIN tokens
  BY <1>1 DEF IInv, TypeOK, StoreTypeOK, NamesExist, CallOK, Owned, KnowsFinal, NamesSession,
     NamesToken, Reviving
<1>3. signedUntil' = [signedUntil EXCEPT ![s] = now + AccessTtl]
  BY DEF SignAndReturn, Sign
<1>4. signedUntil'[s] = now + AccessTtl
      /\ \A x \in SessionIds : x # s => signedUntil'[x] = signedUntil[x]
  BY <1>1, <1>2, <1>3
<1>5. StoreTypeOK'
  <2>1. now + AccessTtl \in Nat
    BY <1>1, PolicyAssumption
  <2>2. signedUntil' \in [SessionIds -> Nat]
    BY <1>1, <1>3, <2>1
  <2> QED
    BY <2>2 DEF IInv, TypeOK, StoreTypeOK, SignAndReturn
<1>6. Footprint(p)
  <2>1. DOMAIN sessions \subseteq SessionIds /\ final \subseteq DOMAIN sessions
    BY DEF IInv, TypeOK, StoreTypeOK
  <2> QED
    BY <1>2, <1>4, <2>1 DEF Footprint, SignAndReturn, IInv, FinalIsClosed, Shut
<1>7. \A x \in SessionIds : signedUntil'[x] <= now + AccessTtl
  BY <1>1, <1>4, PolicyAssumption DEF IInv, FinalIsClosed
<1>8. op' = [op EXCEPT ![p] = Idle] /\ Idle.pc = "idle"
  BY DEF SignAndReturn, Return, Idle
<1>9. /\ Idle \in Calls /\ NamesExist(Idle)' /\ CallOK(Idle)'
  BY <1>1 DEF SignAndReturn, Idle, Calls, Pcs, Never, NoSession, NoToken, NamesExist, CallOK,
     Owned, KnowsFinal, LogsOutAlone, NamesSession, HoldsSession, NamesToken, HoldsToken,
     Reviving, Revoking
<1>10. /\ \A t \in DOMAIN tokens' : tokens'[t].session \in DOMAIN sessions'
       /\ calls' = calls /\ held' \subseteq DOMAIN tokens' /\ GhostsTyped'
  BY <1>1, <1>2, PolicyAssumption DEF SignAndReturn, GhostsTyped, IInv, TypeOK
<1> QED
  BY <1>1, <1>5, <1>6, <1>7, <1>8, <1>9, <1>10, StepKeeps

\* The same, after a step.
LEMMA IdleAfter ==
    ASSUME now' \in Nat
    PROVE  Idle \in Calls /\ NamesExist(Idle)' /\ CallOK(Idle)' /\ Idle.pc = "idle"
BY DEF Idle, Calls, Pcs, Never, NoSession, NoToken, NamesExist, CallOK,
     Owned, KnowsFinal, LogsOutAlone, NamesSession, HoldsSession, NamesToken, HoldsToken,
     Reviving, Revoking

LEMMA DenyEvictedKeeps ==
    ASSUME IInv, NEW p \in Procs, DenyEvicted(p) PROVE IInv'
<1> PICK c : c = [op[p] EXCEPT !.pc = "list", !.session = 0]
  OBVIOUS
<1> DEFINE s == op[p].session
<1>1. /\ op[p] \in Calls /\ NamesExist(op[p]) /\ CallOK(op[p]) /\ op[p].pc = "evictDeny"
      /\ op \in [Procs -> Calls]
  BY DEF IInv, TypeOK, DenyEvicted
<1>2. /\ s \in DOMAIN sessions /\ s \notin final /\ sessions[s].user = op[p].user
      /\ AccessTokenExpiryFrom(op[p].at) \in Nat
  BY <1>1, PolicyAssumption DEF NamesExist, CallOK, Owned, KnowsFinal, NamesSession, Reviving,
     Calls, AccessTokenExpiryFrom
<1>3. StoreTypeOK' /\ Footprint(p)
  BY <1>2, DenyFootprint DEF DenyEvicted
<1>4. c \in Calls
  BY <1>1 DEF Calls, Pcs
<1>5. /\ c.pc = "list" /\ c.at = op[p].at /\ c.listed = op[p].listed
      /\ c.todo = op[p].todo /\ c.user = op[p].user /\ c.alone = op[p].alone
  BY <1>1 DEF Calls
<1>6. NamesExist(c)' /\ CallOK(c)'
  BY <1>1, <1>5 DEF DenyEvicted, NamesExist, CallOK, Owned, KnowsFinal, LogsOutAlone,
     NamesSession, HoldsSession, NamesToken, HoldsToken, Reviving, Revoking
<1>7. op' = [op EXCEPT ![p] = c]
  BY <1>1 DEF DenyEvicted, Calls
<1>8. /\ \A t \in DOMAIN tokens' : tokens'[t].session \in DOMAIN sessions'
      /\ calls' = calls /\ held' \subseteq DOMAIN tokens' /\ GhostsTyped'
      /\ \A x \in SessionIds : signedUntil'[x] <= now + AccessTtl
  BY DEF DenyEvicted, GhostsTyped, IInv, TypeOK, FinalIsClosed
<1> QED
  BY <1>1, <1>3, <1>4, <1>5, <1>6, <1>7, <1>8, StepKeeps

LEMMA DenyReusedKeeps ==
    ASSUME IInv, NEW p \in Procs, DenyReused(p) PROVE IInv'
<1> DEFINE s == op[p].session
<1>1. /\ op[p] \in Calls /\ NamesExist(op[p]) /\ CallOK(op[p]) /\ op[p].pc = "reuseDeny"
      /\ now' \in Nat
  BY DEF IInv, TypeOK, StoreTypeOK, DenyReused
<1>2. /\ s \in DOMAIN sessions /\ sessions[s].user = op[p].user
      /\ AccessTokenExpiryFrom(op[p].at) \in Nat
      /\ s \in final => signedUntil[s] <= AccessTokenExpiryFrom(op[p].at)
  BY <1>1, PolicyAssumption DEF NamesExist, CallOK, Owned, KnowsFinal, NamesSession, Revoking,
     Calls, AccessTokenExpiryFrom
<1>3. StoreTypeOK' /\ Footprint(p)
  BY <1>2, DenyFootprint DEF DenyReused
<1>4. op' = [op EXCEPT ![p] = Idle]
  BY DEF DenyReused, Return
<1>5. /\ \A t \in DOMAIN tokens' : tokens'[t].session \in DOMAIN sessions'
      /\ calls' = calls /\ held' \subseteq DOMAIN tokens' /\ GhostsTyped'
      /\ \A x \in SessionIds : signedUntil'[x] <= now + AccessTtl
  BY DEF DenyReused, GhostsTyped, IInv, TypeOK, FinalIsClosed
<1> QED
  BY <1>1, <1>3, <1>4, <1>5, IdleAfter, StepKeeps

\* The step that makes a session final, if the logout was alone.
LEMMA LogoutDenyKeeps ==
    ASSUME IInv, NEW p \in Procs, LogoutDeny(p) PROVE IInv'
<1> DEFINE s == op[p].session
           until == RevokeUntil(op[p])
<1>1. /\ op[p] \in Calls /\ NamesExist(op[p]) /\ CallOK(op[p]) /\ op[p].pc = "logoutDeny"
      /\ now' \in Nat /\ op[p].at \in Nat /\ op[p].until \in Nat
      /\ signedUntil \in [SessionIds -> Nat] /\ DOMAIN sessions \subseteq SessionIds
  BY DEF IInv, TypeOK, StoreTypeOK, LogoutDeny, Calls
<1>2. /\ s \in DOMAIN sessions /\ sessions[s].user = op[p].user
      /\ s \in final \/ op[p].alone => signedUntil[s] <= op[p].at + AccessTtl
      /\ op[p].alone => IsRevoked(sessions[s])
      /\ s \in final \/ op[p].alone => Covers(op[p])
  BY <1>1 DEF NamesExist, CallOK, Owned, KnowsFinal, LogsOutAlone, NamesSession, Revoking
<1>3. /\ until \in Nat
      /\ s \in final \/ op[p].alone => s \in superseded \/ signedUntil[s] <= until
  BY <1>1, <1>2, PolicyAssumption, WindowAssumption DEF RevokeUntil, Covers, Never
<1>4. final' = final \/ (final' = final \union {s} /\ op[p].alone)
  BY DEF LogoutDeny, Ended
<1>5. StoreTypeOK' /\ Footprint(p)
  <2> HIDE DEF until
  <2> QED
    BY <1>2, <1>3, <1>4, DenyFootprint DEF LogoutDeny, until
<1>6. op' = [op EXCEPT ![p] = Idle]
  BY DEF LogoutDeny, Return
<1>7. /\ \A t \in DOMAIN tokens' : tokens'[t].session \in DOMAIN sessions'
      /\ calls' = calls /\ held' \subseteq DOMAIN tokens' /\ GhostsTyped'
      /\ \A x \in SessionIds : signedUntil'[x] <= now + AccessTtl
  BY DEF LogoutDeny, GhostsTyped, IInv, TypeOK, FinalIsClosed
<1> QED
  BY <1>1, <1>5, <1>6, <1>7, IdleAfter, StepKeeps

LEMMA DenyListedKeeps ==
    ASSUME IInv, NEW p \in Procs, DenyListed(p) PROVE IInv'
<1>0. PICK s \in op[p].todo :
         /\ Deny(s, op[p].at + RevocationWindow)
         /\ op' = [op EXCEPT ![p].todo = @ \ {s}]
  BY DEF DenyListed
<1> PICK c : c = [op[p] EXCEPT !.todo = @ \ {s}]
  OBVIOUS
<1> DEFINE until == op[p].at + RevocationWindow
<1>1. /\ op[p] \in Calls /\ NamesExist(op[p]) /\ CallOK(op[p]) /\ op[p].pc = "everyDeny"
      /\ op \in [Procs -> Calls] /\ denied \in [SessionIds -> Nat]
      /\ DOMAIN sessions \subseteq SessionIds
  BY DEF IInv, TypeOK, StoreTypeOK, DenyListed
<1>2. /\ s \in op[p].listed /\ s \in DOMAIN sessions /\ sessions[s].user = op[p].user
      /\ s \notin final /\ until \in Nat
  BY <1>0, <1>1, WindowAssumption DEF NamesExist, CallOK, Owned, KnowsFinal, Calls
<1>3. StoreTypeOK' /\ Footprint(p) /\ denied'[s] = until
  <2> HIDE DEF until
  <2> QED
    BY <1>0, <1>2, DenyFootprint DEF DenyListed, until
<1>4. c \in Calls
  BY <1>1 DEF Calls
<1>5. /\ c.pc = "everyDeny" /\ c.at = op[p].at /\ c.listed = op[p].listed
      /\ c.todo = op[p].todo \ {s} /\ c.user = op[p].user /\ c.alone = op[p].alone
  BY <1>1 DEF Calls
<1>6. NamesExist(c)' /\ Owned(c)' /\ KnowsFinal(c)'
  BY <1>1, <1>5 DEF DenyListed, NamesExist, CallOK, Owned, KnowsFinal,
     NamesSession, HoldsSession, NamesToken, HoldsToken, Reviving, Revoking
<1>7. LogsOutAlone(c)'
  <2>1. \A x \in SessionIds : x # s => denied'[x] = denied[x]
    BY <1>0, <1>1 DEF Deny
  <2>2. c.listed \subseteq SessionIds
    BY <1>1, <1>5 DEF Calls
  <2>3. LogsOutAlone(op[p])
    BY <1>1 DEF CallOK
  <2> QED
    BY <1>1, <1>3, <1>5, <2>1, <2>2, <2>3 DEF DenyListed, LogsOutAlone
<1>8. op' = [op EXCEPT ![p] = c]
  BY <1>0, <1>1 DEF Calls
<1>9. /\ \A t \in DOMAIN tokens' : tokens'[t].session \in DOMAIN sessions'
      /\ calls' = calls /\ held' \subseteq DOMAIN tokens' /\ GhostsTyped'
      /\ \A x \in SessionIds : signedUntil'[x] <= now + AccessTtl
  BY DEF DenyListed, GhostsTyped, IInv, TypeOK, FinalIsClosed
<1> QED
  BY <1>1, <1>3, <1>4, <1>5, <1>6, <1>7, <1>8, <1>9, StepKeeps DEF CallOK

\* The bulk update makes every listed session final, if the call was alone.
LEMMA UpdateAllKeeps ==
    ASSUME IInv, NEW p \in Procs, UpdateAll(p) PROVE IInv'
<1>1. /\ op[p] \in Calls /\ NamesExist(op[p]) /\ CallOK(op[p]) /\ op[p].pc = "everyDeny"
      /\ op[p].todo = {} /\ op[p].at \in Nat /\ op[p].at # Never
      /\ now' \in Nat /\ signedUntil \in [SessionIds -> Nat]
      /\ DOMAIN sessions \subseteq SessionIds /\ final \subseteq DOMAIN sessions
  BY DEF IInv, TypeOK, StoreTypeOK, UpdateAll, Calls, CallOK, KnowsFinal
<1>2. sessions' = [s \in DOMAIN sessions |->
                     IF s \in ActiveOf(op[p].user) THEN Revoke(sessions[s], op[p].at)
                     ELSE sessions[s]]
  BY DEF UpdateAll, RevokeAllForUser
<1>3. ASSUME NEW s \in DOMAIN sessions
      PROVE  /\ sessions'[s] \in SessionRows /\ sessions'[s].user = sessions[s].user
             /\ sessions[s].user = op[p].user => IsRevoked(sessions'[s])
             /\ sessions[s].user # op[p].user => sessions'[s] = sessions[s]
             /\ IsRevoked(sessions[s]) => IsRevoked(sessions'[s])
  BY <1>1, <1>2, <1>3 DEF IInv, TypeOK, StoreTypeOK, ActiveOf, Revoke, IsRevoked, SessionRows
<1>4. DOMAIN sessions' = DOMAIN sessions
  BY <1>2
<1>5. StoreTypeOK'
  BY <1>3, <1>4 DEF IInv, TypeOK, StoreTypeOK, UpdateAll
<1>6. ASSUME NEW s \in final' \ final
      PROVE  /\ s \in DOMAIN sessions /\ sessions[s].user = op[p].user /\ op[p].alone
             /\ Shut(s)
  <2>1. s \in op[p].listed /\ op[p].alone
    BY DEF UpdateAll, Ended
  <2>2. s \in DOMAIN sessions /\ sessions[s].user = op[p].user
    BY <1>1, <2>1 DEF CallOK, Owned, NamesExist
  <2>3. signedUntil[s] <= op[p].at + AccessTtl /\ denied[s] = op[p].at + RevocationWindow
    BY <1>1, <2>1, <2>2 DEF CallOK, LogsOutAlone
  <2>4. signedUntil[s] \in Nat
    BY <1>1, <2>2
  <2> QED
    BY <1>1, <2>1, <2>2, <2>3, <2>4, WindowAssumption, PolicyAssumption DEF Shut
<1>7. Footprint(p)
  <2>1. final \subseteq final' /\ UNCHANGED <<now, tokens, denied, signedUntil, superseded>>
    BY DEF UpdateAll, Ended
  <2> QED
    BY <1>1, <1>3, <1>4, <1>6, <2>1 DEF Footprint, IInv, FinalIsClosed, Shut
<1>8. op' = [op EXCEPT ![p] = Idle]
  BY DEF UpdateAll, Return
<1>9. /\ \A t \in DOMAIN tokens' : tokens'[t].session \in DOMAIN sessions'
      /\ calls' = calls /\ held' \subseteq DOMAIN tokens' /\ GhostsTyped'
      /\ \A x \in SessionIds : signedUntil'[x] <= now + AccessTtl
  BY <1>4 DEF UpdateAll, GhostsTyped, IInv, TypeOK, FinalIsClosed
<1> QED
  BY <1>1, <1>5, <1>7, <1>8, <1>9, IdleAfter, StepKeeps

LEMMA FailsKeeps ==
    ASSUME IInv, NEW p \in Procs, Fails(p) PROVE IInv'
<1>0. PICK landed \in SUBSET op[p].todo :
         denied' = [s \in SessionIds |->
                      IF s \in landed THEN op[p].at + RevocationWindow ELSE denied[s]]
  BY DEF Fails
<1>1. /\ op[p] \in Calls /\ NamesExist(op[p]) /\ CallOK(op[p]) /\ op[p].pc # "idle"
      /\ now' \in Nat /\ op[p].at \in Nat /\ denied \in [SessionIds -> Nat]
      /\ DOMAIN sessions \subseteq SessionIds /\ final \subseteq DOMAIN sessions
  BY DEF IInv, TypeOK, StoreTypeOK, Fails, Calls
<1>2. StoreTypeOK'
  <2>1. denied' \in [SessionIds -> Nat]
    BY <1>0, <1>1, WindowAssumption
  <2>2. faults' \in 0 .. MaxFaults
    BY StoreBounds DEF IInv, TypeOK, StoreTypeOK, Fails, Fault
  <2> QED
    BY <2>1, <2>2 DEF IInv, TypeOK, StoreTypeOK, Fails
<1>3. Footprint(p)
  <2>1. \A s \in landed : sessions[s].user = op[p].user
    BY <1>1 DEF CallOK, Owned, NamesExist
  <2>2. \A s \in final : s \notin landed
    BY <1>1 DEF CallOK, Owned, KnowsFinal, NamesExist
  <2>3. \A s \in SessionIds : s \notin landed => denied'[s] = denied[s]
    BY <1>0
  <2> QED
    BY <1>1, <2>1, <2>2, <2>3 DEF Footprint, Fails, IInv, FinalIsClosed, Shut
<1>4. op' = [op EXCEPT ![p] = Idle]
  BY DEF Fails, Return
<1>5. /\ \A t \in DOMAIN tokens' : tokens'[t].session \in DOMAIN sessions'
      /\ calls' = calls /\ held' \subseteq DOMAIN tokens' /\ GhostsTyped'
      /\ \A x \in SessionIds : signedUntil'[x] <= now + AccessTtl
  BY DEF Fails, GhostsTyped, IInv, TypeOK, FinalIsClosed
<1> QED
  BY <1>1, <1>2, <1>3, <1>4, <1>5, IdleAfter, StepKeeps

-----------------------------------------------------------------------------
\* A user has finitely many sessions.
LEMMA ActiveIsFinite ==
    ASSUME IInv, NEW u
    PROVE  IsFiniteSet(ActiveOf(u)) /\ Cardinality(ActiveOf(u)) \in Nat
<1>1. ActiveOf(u) \subseteq 1 .. MaxSessions
  BY DEF IInv, TypeOK, StoreTypeOK, SessionIds, ActiveOf
<1>2. IsFiniteSet(1 .. MaxSessions)
  BY FS_Interval, StoreBounds
<1> QED
  BY <1>1, <1>2, FS_Subset, FS_CardinalityType

\* A call that arrives makes the running calls of its user not alone.
LEMMA BeginKeeps ==
    ASSUME IInv, NEW p \in Procs, NEW c \in Calls, Begin(p, c), c.pc # "idle",
           superseded \subseteq superseded', superseded' \subseteq SessionIds,
           earned' \in [Procs -> Int],
           NamesExist(c), Owned(c), KnowsFinal(c)',
           \A a \in BOOLEAN : LogsOutAlone([c EXCEPT !.alone = a])'
    PROVE  IInv'
<1>1. UNCHANGED <<storeVars, held, bearers, final>>
  BY DEF Begin
<1>2. /\ op \in [Procs -> Calls] /\ op[p].pc = "idle" /\ calls' \in 0 .. MaxCalls
  BY WindowAssumption DEF IInv, TypeOK, Begin
<1>3. PICK a \in BOOLEAN : /\ op'[p] = [c EXCEPT !.alone = a]
                           /\ a = \A r \in Procs : ~InCallFor(r, c.user)
  BY DEF Begin
<1>4. ASSUME NEW q \in Procs, q # p
      PROVE  \/ op'[q] = op[q] /\ ~InCallFor(q, c.user)
             \/ op'[q] = [op[q] EXCEPT !.alone = FALSE]
  BY <1>4 DEF Begin
<1>5. ASSUME NEW q \in Procs, q # p
      PROVE  /\ op'[q] \in Calls
             /\ op'[q].pc = op[q].pc /\ op'[q].user = op[q].user /\ op'[q].at = op[q].at
             /\ op'[q].session = op[q].session /\ op'[q].row = op[q].row
             /\ op'[q].token = op[q].token /\ op'[q].tokenRow = op[q].tokenRow
             /\ op'[q].listed = op[q].listed /\ op'[q].todo = op[q].todo
             /\ op'[q].until = op[q].until
             /\ op'[q].alone => op[q].alone /\ ~InCallFor(q, c.user)
  <2>1. op[q] \in Calls
    BY <1>2
  <2>2. CASE op'[q] = op[q] /\ ~InCallFor(q, c.user)
    BY <2>1, <2>2
  <2>3. CASE op'[q] = [op[q] EXCEPT !.alone = FALSE]
    <3>1. op'[q] \in Calls /\ op'[q].alone = FALSE
      BY <2>1, <2>3 DEF Calls
    <3>2. /\ op'[q].pc = op[q].pc /\ op'[q].user = op[q].user /\ op'[q].at = op[q].at
          /\ op'[q].session = op[q].session /\ op'[q].row = op[q].row
          /\ op'[q].token = op[q].token /\ op'[q].tokenRow = op[q].tokenRow
          /\ op'[q].listed = op[q].listed /\ op'[q].todo = op[q].todo
          /\ op'[q].until = op[q].until
      BY <2>1, <2>3 DEF Calls
    <3> QED
      BY <3>1, <3>2
  <2> QED
    BY <1>4, <1>5, <2>2, <2>3
<1>6. /\ op'[p] \in Calls
      /\ op'[p].pc = c.pc /\ op'[p].user = c.user /\ op'[p].at = c.at
      /\ op'[p].session = c.session /\ op'[p].row = c.row
      /\ op'[p].token = c.token /\ op'[p].tokenRow = c.tokenRow
      /\ op'[p].listed = c.listed /\ op'[p].todo = c.todo /\ op'[p].until = c.until
      /\ op'[p].alone => \A r \in Procs : ~InCallFor(r, c.user)
  <2>1. op'[p] \in Calls
    BY <1>3 DEF Calls
  <2>2. /\ op'[p].pc = c.pc /\ op'[p].user = c.user /\ op'[p].at = c.at
        /\ op'[p].session = c.session /\ op'[p].row = c.row
        /\ op'[p].token = c.token /\ op'[p].tokenRow = c.tokenRow
        /\ op'[p].listed = c.listed /\ op'[p].todo = c.todo /\ op'[p].until = c.until
        /\ op'[p].alone = a
    BY <1>3 DEF Calls
  <2> QED
    BY <1>3, <2>1, <2>2
<1>7. op' \in [Procs -> Calls]
  BY <1>5, <1>6 DEF Begin
<1>8. ASSUME NEW q \in Procs PROVE NamesExist(op[q])'
  <2>1. CASE q = p
    BY <1>1, <1>6, <2>1 DEF NamesExist, storeVars
  <2>2. CASE q # p
    BY <1>1, <1>5, <2>2 DEF NamesExist, storeVars, IInv, TypeOK
  <2> QED
    BY <2>1, <2>2
<1>9. TypeOK'
  BY <1>1, <1>2, <1>7, <1>8 DEF IInv, TypeOK, StoreTypeOK, storeVars
<1>10. ASSUME NEW q \in Procs PROVE CallOK(op[q])'
  <2>1. CASE q = p
    <3>1. Owned(op[q])'
      BY <1>1, <1>6, <2>1 DEF Owned, storeVars
    <3>2. KnowsFinal(op[q])'
      <4>1. PICK d : d = op'[p]
        OBVIOUS
      <4>2. /\ d.pc = c.pc /\ d.at = c.at /\ d.session = c.session /\ d.row = c.row
            /\ d.listed = c.listed /\ d.until = c.until
        BY <1>6, <4>1
      <4>3. KnowsFinal(d)'
        BY <4>2 DEF KnowsFinal, Covers
      <4> QED
        BY <2>1, <4>1, <4>3 DEF KnowsFinal, Covers
    <3>3. LogsOutAlone(op[q])'
      <4>1. PICK d : d = [c EXCEPT !.alone = a]
        OBVIOUS
      <4>2. LogsOutAlone(d)'
        BY <4>1
      <4> QED
        BY <1>3, <2>1, <4>1, <4>2 DEF LogsOutAlone, Covers
    <3> QED
      BY <3>1, <3>2, <3>3 DEF CallOK
  <2>2. CASE q # p
    BY <1>1, <1>5, <2>2 DEF CallOK, Owned, KnowsFinal, LogsOutAlone, Covers, storeVars, IInv
  <2> QED
    BY <2>1, <2>2
<1>11. AloneIsAlone'
  <2> SUFFICES ASSUME NEW x \in Procs, NEW q \in Procs, x # q,
                      op'[x].alone, op'[x].pc # "idle"
               PROVE  ~(op'[q].pc # "idle" /\ op'[q].user = op'[x].user)
    BY DEF AloneIsAlone, InCallFor
  <2>1. CASE x = p
    BY <1>5, <1>6, <2>1 DEF InCallFor
  <2>2. CASE q = p
    BY <1>5, <1>6, <2>2 DEF InCallFor
  <2>3. CASE x # p /\ q # p
    BY <1>5, <2>3 DEF IInv, AloneIsAlone, InCallFor
  <2> QED
    BY <2>1, <2>2, <2>3
<1>12. FinalIsClosed'
  BY <1>1 DEF IInv, FinalIsClosed, Shut, storeVars
<1> QED
  BY <1>9, <1>10, <1>11, <1>12 DEF IInv

LEMMA CallKeeps ==
    ASSUME IInv, NEW p \in Procs, Call(p) PROVE IInv'
<1>1. /\ now \in Nat \ {0} /\ \A s \in SessionIds : signedUntil[s] <= now + AccessTtl
      /\ DOMAIN sessions \subseteq SessionIds /\ DOMAIN tokens \subseteq TokenIds
      /\ \A s \in DOMAIN sessions : sessions[s].user \in Users
      /\ \A t \in DOMAIN tokens : tokens[t].session \in DOMAIN sessions
      /\ held \subseteq DOMAIN tokens
  BY DEF IInv, TypeOK, StoreTypeOK, FinalIsClosed, SessionRows
<1>2. ASSUME NEW user \in Users, Issue(p, user) PROVE IInv'
  <2>1. PICK c : c = [Idle EXCEPT !.pc = IF MaxConcurrentSessions > 0 THEN "list" ELSE "open",
                            !.user = user, !.at = now]
    OBVIOUS
  <2>2. /\ Begin(p, c) /\ superseded \subseteq superseded'
        /\ UNCHANGED storeVars /\ final' = final
    BY <1>2, <2>1 DEF Issue, Begin
  <2>3. superseded' \subseteq SessionIds /\ earned' \in [Procs -> Int]
    <3>1. Cardinality(ActiveOf(user)) \in Nat
      BY ActiveIsFinite, FS_CardinalityType
    <3> QED
      BY <1>2, <3>1 DEF Issue, IInv, TypeOK
  <2>4. /\ c.pc \in {"list", "open"} /\ c.user = user /\ c.at = now
        /\ c.session = 0 /\ c.token = 0
        /\ c.tokenRow = NoToken /\ c.row = NoSession
        /\ c.listed = {} /\ c.todo = {} /\ c.alone = FALSE
    BY <2>1 DEF Idle
  <2>5. c \in Calls
    BY <1>1, <1>2, <2>1 DEF Idle, Calls, Pcs, Never, NoSession, NoToken
  <2>6. NamesExist(c)
    BY <1>1, <1>2, <2>4 DEF NamesExist, NamesSession, HoldsSession, NamesToken, HoldsToken
  <2>7. Owned(c)
    BY <1>1, <1>2, <2>4 DEF Owned, NamesSession, HoldsSession, NamesToken, HoldsToken
  <2>9. KnowsFinal(c)'
    BY <1>1, <2>2, <2>4 DEF KnowsFinal, Reviving, Revoking, Never, storeVars
  <2>10. ASSUME NEW a \in BOOLEAN PROVE LogsOutAlone([c EXCEPT !.alone = a])'
    <3>1. PICK d : d = [c EXCEPT !.alone = a]
      OBVIOUS
    <3>2. /\ d.pc = c.pc /\ d.todo = c.todo /\ d.listed = c.listed /\ d.at = c.at
          /\ d.user = c.user /\ d.session = c.session /\ d.until = c.until
      BY <2>5, <3>1 DEF Calls
    <3>3. LogsOutAlone(d)'
      BY <1>1, <2>2, <2>4, <3>2 DEF LogsOutAlone, storeVars
    <3> QED
      BY <3>1, <3>3
  <2> QED
    BY <2>2, <2>3, <2>4, <2>5, <2>6, <2>7, <2>9, <2>10, BeginKeeps
<1>3. ASSUME NEW user \in Users, LogoutEverywhere(p, user) PROVE IInv'
  <2>1. PICK c : c = [Idle EXCEPT !.pc = "everyList", !.user = user, !.at = now]
    OBVIOUS
  <2>2. /\ Begin(p, c) /\ superseded \subseteq superseded'
        /\ UNCHANGED storeVars /\ final' = final
    BY <1>3, <2>1 DEF LogoutEverywhere, Begin
  <2>3. superseded' \subseteq SessionIds /\ earned' \in [Procs -> Int]
    BY <1>3 DEF LogoutEverywhere, IInv, TypeOK
  <2>4. /\ c.pc = "everyList" /\ c.user = user /\ c.at = now
        /\ c.session = 0 /\ c.token = 0
        /\ c.tokenRow = NoToken /\ c.row = NoSession
        /\ c.listed = {} /\ c.todo = {} /\ c.alone = FALSE
    BY <2>1 DEF Idle
  <2>5. c \in Calls
    BY <1>1, <1>3, <2>1 DEF Idle, Calls, Pcs, Never, NoSession, NoToken
  <2>6. NamesExist(c)
    BY <1>1, <1>3, <2>4 DEF NamesExist, NamesSession, HoldsSession, NamesToken, HoldsToken
  <2>7. Owned(c)
    BY <1>1, <1>3, <2>4 DEF Owned, NamesSession, HoldsSession, NamesToken, HoldsToken
  <2>9. KnowsFinal(c)'
    BY <1>1, <2>2, <2>4 DEF KnowsFinal, Reviving, Revoking, Never, storeVars
  <2>10. ASSUME NEW a \in BOOLEAN PROVE LogsOutAlone([c EXCEPT !.alone = a])'
    <3>1. PICK d : d = [c EXCEPT !.alone = a]
      OBVIOUS
    <3>2. /\ d.pc = c.pc /\ d.todo = c.todo /\ d.listed = c.listed /\ d.at = c.at
          /\ d.user = c.user /\ d.session = c.session /\ d.until = c.until
      BY <2>5, <3>1 DEF Calls
    <3>3. LogsOutAlone(d)'
      BY <1>1, <2>2, <2>4, <3>2 DEF LogsOutAlone, storeVars
    <3> QED
      BY <3>1, <3>3
  <2> QED
    BY <2>2, <2>3, <2>4, <2>5, <2>6, <2>7, <2>9, <2>10, BeginKeeps
<1>4. ASSUME NEW t \in held, Refresh(p, t) PROVE IInv'
  <2>1. PICK c : c = [Idle EXCEPT !.pc = "findToken", !.token = t,
                            !.user = sessions[tokens[t].session].user]
    OBVIOUS
  <2>2. /\ Begin(p, c) /\ superseded \subseteq superseded'
        /\ UNCHANGED storeVars /\ final' = final
    BY <1>4, <2>1 DEF Refresh, Begin
  <2>3. superseded' \subseteq SessionIds /\ earned' \in [Procs -> Int]
    BY <1>4 DEF Refresh, IInv, TypeOK
  <2>4. /\ c.pc = "findToken" /\ c.user = sessions[tokens[t].session].user /\ c.at = Never
        /\ c.session = 0 /\ c.token = t
        /\ c.tokenRow = NoToken /\ c.row = NoSession
        /\ c.listed = {} /\ c.todo = {} /\ c.alone = FALSE
    BY <2>1 DEF Idle
  <2>5. c \in Calls
    BY <1>1, <1>4, <2>1 DEF Idle, Calls, Pcs, Never, NoSession, NoToken
  <2>6. NamesExist(c)
    BY <1>1, <1>4, <2>4 DEF NamesExist, NamesSession, HoldsSession, NamesToken, HoldsToken
  <2>7. Owned(c)
    BY <1>1, <1>4, <2>4 DEF Owned, NamesSession, HoldsSession, NamesToken, HoldsToken
  <2>9. KnowsFinal(c)'
    BY <1>1, <2>2, <2>4 DEF KnowsFinal, Reviving, Revoking, Never, storeVars
  <2>10. ASSUME NEW a \in BOOLEAN PROVE LogsOutAlone([c EXCEPT !.alone = a])'
    <3>1. PICK d : d = [c EXCEPT !.alone = a]
      OBVIOUS
    <3>2. /\ d.pc = c.pc /\ d.todo = c.todo /\ d.listed = c.listed /\ d.at = c.at
          /\ d.user = c.user /\ d.session = c.session /\ d.until = c.until
      BY <2>5, <3>1 DEF Calls
    <3>3. LogsOutAlone(d)'
      BY <1>1, <2>2, <2>4, <3>2 DEF LogsOutAlone, storeVars
    <3> QED
      BY <3>1, <3>3
  <2> QED
    BY <2>2, <2>3, <2>4, <2>5, <2>6, <2>7, <2>9, <2>10, BeginKeeps
<1>5. ASSUME NEW s \in DOMAIN sessions, NEW until \in {Never} \union Presentable(s),
             Logout(p, s, until)
      PROVE IInv'
  <2>1. PICK c : c = [Idle EXCEPT !.pc = "logoutFind", !.session = s, !.user = sessions[s].user,
                            !.until = until]
    OBVIOUS
  <2>2. /\ Begin(p, c) /\ superseded \subseteq superseded'
        /\ UNCHANGED storeVars /\ final' = final
    BY <1>5, <2>1 DEF Logout, Begin
  <2>3. superseded' \subseteq SessionIds /\ earned' \in [Procs -> Int]
    BY <1>1, <1>5 DEF Logout, IInv, TypeOK
  <2>4. /\ c.pc = "logoutFind" /\ c.user = sessions[s].user /\ c.at = Never
        /\ c.session = s /\ c.token = 0 /\ c.until = until
        /\ c.tokenRow = NoToken /\ c.row = NoSession
        /\ c.listed = {} /\ c.todo = {} /\ c.alone = FALSE
    BY <2>1 DEF Idle
  <2>5. c \in Calls
    <3>1. until \in Nat
      BY <1>1, <1>5 DEF Presentable, IInv, TypeOK, Never
    <3> QED
      BY <1>1, <1>5, <2>1, <3>1 DEF Idle, Calls, Pcs, Never, NoSession, NoToken
  <2>6. NamesExist(c)
    BY <1>1, <1>5, <2>4 DEF NamesExist, NamesSession, HoldsSession, NamesToken, HoldsToken
  <2>7. Owned(c)
    BY <1>1, <1>5, <2>4 DEF Owned, NamesSession, HoldsSession, NamesToken, HoldsToken
  <2>8. Covers(c)'
    BY <1>1, <1>5, <2>2, <2>4 DEF Logout, Covers, storeVars, IInv, TypeOK, StoreTypeOK, Never,
       Presentable
  <2>9. KnowsFinal(c)'
    BY <1>1, <2>2, <2>4, <2>8 DEF KnowsFinal, Reviving, Revoking, Never, storeVars
  <2>10. ASSUME NEW a \in BOOLEAN PROVE LogsOutAlone([c EXCEPT !.alone = a])'
    <3>1. PICK d : d = [c EXCEPT !.alone = a]
      OBVIOUS
    <3>2. /\ d.pc = c.pc /\ d.todo = c.todo /\ d.listed = c.listed /\ d.at = c.at
          /\ d.user = c.user /\ d.session = c.session /\ d.until = c.until
      BY <2>5, <3>1 DEF Calls
    <3>3. LogsOutAlone(d)'
      BY <1>1, <2>2, <2>4, <3>2, <2>8 DEF LogsOutAlone, storeVars, Covers
    <3> QED
      BY <3>1, <3>3
  <2> QED
    BY <2>2, <2>3, <2>4, <2>5, <2>6, <2>7, <2>9, <2>10, BeginKeeps
<1> QED
  BY <1>2, <1>3, <1>4, <1>5 DEF Call

LEMMA TickKeeps ==
    ASSUME IInv, Tick, UNCHANGED opVars PROVE IInv'
<1>1. now \in Nat /\ now' = now + 1 /\ signedUntil \in [SessionIds -> Nat]
      /\ \A p \in Procs : op[p].at \in Nat
  BY DEF IInv, TypeOK, StoreTypeOK, Tick, Calls
<1>2. UNCHANGED <<sessions, tokens, denied, signedUntil, faults, op, clientVars, ghostVars>>
  BY DEF Tick, opVars
<1>3. TypeOK'
  BY <1>1, <1>2 DEF IInv, TypeOK, StoreTypeOK, NamesExist
<1>4. \A p \in Procs : CallOK(op[p])'
  BY <1>1, <1>2 DEF IInv, CallOK, Owned, KnowsFinal, LogsOutAlone, Covers
<1>5. AloneIsAlone'
  BY <1>2 DEF IInv, AloneIsAlone, InCallFor
<1>6. FinalIsClosed'
  BY <1>1, <1>2, PolicyAssumption DEF IInv, FinalIsClosed, Shut
<1> QED
  BY <1>3, <1>4, <1>5, <1>6 DEF IInv

LEMMA ContinueKeeps ==
    ASSUME IInv, NEW p \in Procs, Continue(p) PROVE IInv'
<1>1. CASE Evict(p) \/ RevokeReused(p) \/ LogoutSave(p)
  <2>1. earned' \in [Procs -> Int]
    BY <1>1 DEF Evict, RevokeReused, LogoutSave, IInv, TypeOK
  <2> QED
    BY <1>1, <2>1, SaveRevokedKeeps DEF Evict, RevokeReused, LogoutSave
<1>2. CASE ListForEviction(p) \/ FindToken(p) \/ FindReused(p) \/ FindCurrent(p)
             \/ Reject(p) \/ LogoutFind(p) \/ ListForLogout(p)
  BY <1>2, ListForEvictionKeeps, FindTokenKeeps, FindReusedKeeps, FindCurrentKeeps,
     RejectKeeps, LogoutFindKeeps, ListForLogoutKeeps
<1>3. CASE SaveSession(p) \/ SaveFirstToken(p) \/ SignAndReturn(p)
             \/ MarkTokenUsed(p) \/ SaveNextToken(p) \/ SaveTouched(p)
  BY <1>3, SaveSessionKeeps, SaveFirstTokenKeeps, SignAndReturnKeeps, MarkTokenUsedKeeps,
     SaveNextTokenKeeps, SaveTouchedKeeps
<1>4. CASE DenyEvicted(p) \/ DenyReused(p) \/ LogoutDeny(p) \/ DenyListed(p) \/ UpdateAll(p)
  BY <1>4, DenyEvictedKeeps, DenyReusedKeeps, LogoutDenyKeeps, DenyListedKeeps,
     UpdateAllKeeps
<1> QED
  BY <1>1, <1>2, <1>3, <1>4 DEF Continue

\* The invariant is inductive: every reachable state of any number of processes,
\* users, sessions, tokens and failures satisfies it.
THEOREM Inductive == Spec => []IInv
<1>1. Init => IInv
  BY InvInit
<1>2. IInv /\ [Next]_vars => IInv'
  <2> SUFFICES ASSUME IInv, [Next]_vars PROVE IInv'
    OBVIOUS
  <2>1. CASE \E p \in Procs : Call(p) \/ Continue(p) \/ Fails(p)
    BY <2>1, CallKeeps, ContinueKeeps, FailsKeeps
  <2>2. CASE Tick /\ UNCHANGED opVars
    BY <2>2, TickKeeps
  <2>3. CASE UNCHANGED vars
    BY <2>3 DEF vars, storeVars, opVars, IInv, TypeOK, StoreTypeOK, NamesExist, CallOK, Owned,
       KnowsFinal, LogsOutAlone, Covers, Shut, AloneIsAlone, InCallFor, FinalIsClosed
  <2> QED
    BY <2>1, <2>2, <2>3 DEF Next
<1> QED
  BY <1>1, <1>2, PTL DEF Spec

\* Rows and calls have their types, a token's session exists, and clients hold only
\* tokens that were saved, whatever interleaves or fails.
THEOREM TypeCorrect == Spec => []TypeOK
<1>1. IInv => TypeOK
  BY DEF IInv
<1> QED
  BY <1>1, Inductive, PTL

\* Logout and LogoutEverywhere are final when no other call of the user overlapped
\* them: the row stays revoked and no access token of the session is accepted again,
\* for any number of concurrent calls, failures and any expiry policy.
THEOREM LogoutIsFinal == Spec => []RevocationIsFinal
<1>1. IInv => RevocationIsFinal
  <2> SUFFICES ASSUME IInv, NEW s \in final
               PROVE  IsRevoked(sessions[s]) /\ (s \notin superseded => ~Accepted(s))
    BY DEF RevocationIsFinal
  <2>1. /\ s \in SessionIds /\ now \in Nat /\ signedUntil[s] \in Nat /\ denied[s] \in Nat
    BY DEF IInv, TypeOK, StoreTypeOK
  <2>2. IsRevoked(sessions[s]) /\ Shut(s)
    BY DEF IInv, FinalIsClosed
  <2> QED
    BY <2>1, <2>2 DEF Accepted, IsDenied, Shut
<1> QED
  BY <1>1, Inductive, PTL
-----------------------------------------------------------------------------
(***************************************************************************)
(* What holds as long as no two calls of one user overlap, while calls of  *)
(* different users still do.  Then the copies a call holds of its user's   *)
(* rows are the stored rows (Current); the time it took is later than the  *)
(* signing of every token it will deny (Latest); a session has no unused   *)
(* token between the two saves of a rotation (Rotating); and a revoked     *)
(* session without a deny-list entry is the one its own call is about to   *)
(* close (RevokedIsClosed).  Field says that a step stays with the rows of *)
(* its user, which keeps the calls of the others undisturbed.              *)
(***************************************************************************)

\* No two calls of one user overlap; those of different users may.
OneCallPerUser ==
    \A p, q \in Procs :
        p # q /\ op[p].pc # "idle" /\ op[q].pc # "idle" => op[p].user # op[q].user

Serving == {"mark", "next", "touch", "first", "sign"}
Ending  == {"list", "evict", "evictDeny", "reuse", "reuseDeny", "logout", "logoutDeny",
            "everyList", "everyDeny"}
Closing == {"evictDeny", "reuseDeny", "logoutDeny"}

\* What a call has read is still so.
Current(c) ==
    /\ c.pc \in HoldsSession => c.row = sessions[c.session]
    /\ c.pc \in Serving => ~IsRevoked(sessions[c.session])
    /\ c.pc \in HoldsToken => c.tokenRow = tokens[c.token]
    /\ c.pc = "mark" => ~IsUsed(c.tokenRow) /\ c.at # Never
    /\ c.pc = "open" /\ MaxConcurrentSessions > 0 => HasRoom(ActiveOf(c.user))

\* No token of the user was signed after the call took its time, or the end to deny until.
Latest(c) ==
    /\ c.pc \in Ending =>
         \A s \in DOMAIN sessions : sessions[s].user = c.user => signedUntil[s] <= c.at + AccessTtl
    /\ c.pc = "everyDeny" =>
         /\ c.listed = ActiveOf(c.user)
         /\ \A s \in c.listed \ c.todo : denied[s] = c.at + RevocationWindow
    /\ c.pc \in {"logoutFind", "logout", "logoutDeny"} => Covers(c)

\* A call about to save a token has left the session without one that is not used.
Rotating(c) ==
    /\ c.pc = "next" =>
         \A t \in DOMAIN tokens :
            tokens[t].session = c.session => IsUsed(tokens[t]) /\ tokens[t].replaces # c.token
    /\ c.pc = "first" => \A t \in DOMAIN tokens : tokens[t].session # c.session

SerialOK(c) == Current(c) /\ Latest(c) /\ Rotating(c)

\* The token that another replaces is a used one of the same session.
ReplacedIsUsed ==
    \A t \in DOMAIN tokens :
        tokens[t].replaces # Never =>
            /\ tokens[t].replaces \in DOMAIN tokens
            /\ IsUsed(tokens[tokens[t].replaces])
            /\ tokens[tokens[t].replaces].session = tokens[t].session

\* Until something fails, a revoked session is closed, or about to be.
RevokedIsClosed ==
    faults = 0 =>
        \A s \in DOMAIN sessions :
            IsRevoked(sessions[s]) =>
               \/ Shut(s)
               \/ \E p \in Procs : op[p].pc \in Closing /\ op[p].session = s

SInv ==
    /\ IInv
    /\ \A p \in Procs : SerialOK(op[p])
    /\ ReplacedIsUsed /\ RotationIsAChain
    /\ AtMostMaxConcurrent
    /\ RevokedIsClosed

-----------------------------------------------------------------------------
\* There are no rows yet.
LEMMA SerialInit == Init => SInv
<1> SUFFICES ASSUME Init PROVE SInv
  OBVIOUS
<1>1. op = [p \in Procs |-> Idle] /\ sessions = << >> /\ tokens = << >> /\ Idle.pc = "idle"
  BY DEF Init, StoreInit, Idle
<1>2. \A p \in Procs : SerialOK(op[p])
  BY <1>1 DEF SerialOK, Current, Latest, Rotating, Serving, Ending, HoldsSession, HoldsToken
<1>3. AtMostMaxConcurrent
  <2>1. \A user \in Users : ActiveOf(user) = {}
    BY <1>1 DEF ActiveOf
  <2> QED
    BY <2>1, FS_EmptySet, WindowAssumption DEF AtMostMaxConcurrent
<1>4. ReplacedIsUsed /\ RotationIsAChain /\ RevokedIsClosed
  BY <1>1 DEF ReplacedIsUsed, RotationIsAChain, RevokedIsClosed
<1> QED
  BY <1>2, <1>3, <1>4, InvInit DEF SInv

\* What a step of p's call leaves alone: the sessions and tokens of other users, and of
\* every token its session, what it replaces and that it was used.
Field(p) ==
    /\ superseded' = superseded
    /\ \A s \in DOMAIN sessions :
         /\ s \in DOMAIN sessions' /\ sessions'[s].user = sessions[s].user
         /\ sessions[s].user # op[p].user =>
              /\ sessions'[s] = sessions[s]
              /\ signedUntil'[s] = signedUntil[s] /\ denied'[s] = denied[s]
    /\ \A s \in DOMAIN sessions' \ DOMAIN sessions : sessions'[s].user = op[p].user
    /\ \A t \in DOMAIN tokens :
         /\ t \in DOMAIN tokens'
         /\ tokens'[t].session = tokens[t].session /\ tokens'[t].replaces = tokens[t].replaces
         /\ IsUsed(tokens[t]) => IsUsed(tokens'[t])
         /\ sessions[tokens[t].session].user # op[p].user => tokens'[t] = tokens[t]
    /\ \A t \in DOMAIN tokens' \ DOMAIN tokens :
         tokens'[t].session \in DOMAIN sessions /\ sessions[tokens'[t].session].user = op[p].user

\* The sets of active sessions of other users stay.
LEMMA OthersActive ==
  ASSUME NEW p \in Procs, Field(p), NEW u, u # op[p].user PROVE ActiveOf(u)' = ActiveOf(u)
BY DEF Field, ActiveOf

\* A call is disturbed by none of another user.
LEMMA OthersStaySerial ==
  ASSUME SInv, OneCallPerUser, NEW p \in Procs, NEW q \in Procs, q # p, op[p].pc # "idle",
         Field(p), op'[q] = op[q]
  PROVE  SerialOK(op[q])'
<1> PICK c : c = op[q]
  OBVIOUS
<1>1. c.pc # "idle" => c.user # op[p].user
  BY DEF OneCallPerUser
<1>2. SerialOK(c) /\ Owned(c) /\ NamesExist(c)
  BY DEF SInv, IInv, TypeOK, CallOK
<1>3. \A t \in DOMAIN tokens : tokens[t].session \in DOMAIN sessions
  BY DEF SInv, IInv, TypeOK
<1>4. CASE c.pc = "idle"
  BY <1>4 DEF SerialOK, Current, Latest, Rotating, Serving, Ending, HoldsSession, HoldsToken
<1>5. CASE c.pc # "idle"
  <2>1. /\ \A s \in DOMAIN sessions : sessions[s].user = c.user =>
             sessions'[s] = sessions[s] /\ signedUntil'[s] = signedUntil[s] /\ denied'[s] = denied[s]
        /\ \A s \in DOMAIN sessions' : sessions'[s].user = c.user => s \in DOMAIN sessions
        /\ \A s \in DOMAIN sessions : sessions'[s].user = sessions[s].user
    BY <1>1, <1>5 DEF Field
  <2>2. /\ \A t \in DOMAIN tokens : sessions[tokens[t].session].user = c.user => tokens'[t] = tokens[t]
        /\ \A t \in DOMAIN tokens : tokens'[t].session = tokens[t].session
        /\ \A t \in DOMAIN tokens' : sessions[tokens'[t].session].user = c.user => t \in DOMAIN tokens
    BY <1>1, <1>3, <1>5 DEF Field
  <2>3. ActiveOf(c.user)' = ActiveOf(c.user)
    BY <1>1, <1>5, OthersActive
  <2>4. Current(c)'
    <3>1. /\ c.pc \in HoldsSession \union Serving =>
                c.session \in DOMAIN sessions /\ sessions[c.session].user = c.user
          /\ c.pc \in HoldsToken => c.token \in DOMAIN tokens /\ sessions[tokens[c.token].session].user = c.user
      BY <1>2 DEF NamesExist, Owned, HoldsSession, NamesSession, Serving, HoldsToken, NamesToken
    <3> QED
      BY <1>2, <2>1, <2>2, <2>3, <3>1 DEF SerialOK, Current, HasRoom
  <2>5. Latest(c)'
    <3>1. c.pc \in {"logoutFind", "logout", "logoutDeny"} =>
             c.session \in DOMAIN sessions /\ sessions[c.session].user = c.user
      BY <1>2 DEF NamesExist, Owned, HoldsSession, NamesSession
    <3>2. superseded' = superseded
      BY DEF Field
    <3> QED
      BY <1>2, <2>1, <2>3, <3>1, <3>2 DEF SerialOK, Latest, Owned, NamesExist, Covers
  <2>6. Rotating(c)'
    <3>1. c.pc \in {"next", "first"} => c.session \in DOMAIN sessions /\ sessions[c.session].user = c.user
      BY <1>2 DEF NamesExist, Owned, HoldsSession, NamesSession
    <3> QED
      BY <1>2, <2>2, <3>1 DEF SerialOK, Rotating
  <2> QED
    BY <2>4, <2>5, <2>6 DEF SerialOK
<1> QED
  BY <1>4, <1>5

\* Whoever is about to close a session of p's user is p.
LEMMA OwnClosed ==
  ASSUME SInv, OneCallPerUser, NEW p \in Procs, op[p].pc # "idle", faults = 0,
         NEW s \in DOMAIN sessions, IsRevoked(sessions[s]), sessions[s].user = op[p].user
  PROVE  Shut(s) \/ (op[p].pc \in Closing /\ op[p].session = s)
<1> SUFFICES ASSUME NEW q \in Procs, op[q].pc \in Closing, op[q].session = s
             PROVE  q = p
  BY DEF SInv, RevokedIsClosed
<1>1. op[q].user = sessions[s].user
  BY DEF SInv, IInv, CallOK, Owned, NamesSession, Closing
<1> QED
  BY <1>1 DEF OneCallPerUser, Closing

\* Closing sessions is for the sessions of the call's user.
LEMMA ClosedFrame ==
  ASSUME SInv, OneCallPerUser, NEW p \in Procs, op[p].pc # "idle", Field(p), DOMAIN op' = Procs,
         \A q \in Procs : q # p => op'[q] = op[q],
         faults' = 0 => faults = 0,
         \A s \in DOMAIN sessions' :
           sessions'[s].user = op[p].user /\ IsRevoked(sessions'[s]) /\ faults' = 0 =>
             Shut(s)' \/ (op'[p].pc \in Closing /\ op'[p].session = s)
  PROVE  RevokedIsClosed'
<1> SUFFICES ASSUME faults' = 0, NEW s \in DOMAIN sessions', IsRevoked(sessions'[s])
             PROVE  \/ Shut(s)'
                    \/ \E q \in Procs : op'[q].pc \in Closing /\ op'[q].session = s
  BY DEF RevokedIsClosed
<1>1. CASE sessions'[s].user = op[p].user
  BY <1>1
<1>2. CASE sessions'[s].user # op[p].user
  <2>1. /\ s \in DOMAIN sessions /\ sessions'[s] = sessions[s]
        /\ signedUntil'[s] = signedUntil[s] /\ denied'[s] = denied[s]
    BY <1>2 DEF Field
  <2>2. CASE Shut(s)
    BY <2>1, <2>2 DEF Shut, Field
  <2>3. ASSUME NEW q \in Procs, op[q].pc \in Closing, op[q].session = s
        PROVE  q # p
    <3>1. op[q].user = sessions[s].user
      BY <2>3 DEF SInv, IInv, CallOK, Owned, NamesSession, Closing
    <3> QED
      BY <1>2, <2>1, <3>1
  <2> QED
    BY <2>1, <2>2, <2>3 DEF SInv, RevokedIsClosed
<1> QED
  BY <1>1, <1>2

\* Fewer active sessions are no more than before.
LEMMA FewerActive ==
  ASSUME SInv, NEW p \in Procs, Field(p), NEW owner, owner = op[p].user,
         ActiveOf(owner)' \subseteq ActiveOf(owner)
  PROVE  AtMostMaxConcurrent'
<1> SUFFICES ASSUME MaxConcurrentSessions > 0, NEW u \in Users
             PROVE  Cardinality(ActiveOf(u)') <= MaxConcurrentSessions
  BY DEF AtMostMaxConcurrent
<1>1. Cardinality(ActiveOf(u)) <= MaxConcurrentSessions
  BY DEF SInv, AtMostMaxConcurrent
<1>2. ActiveOf(u)' \subseteq ActiveOf(u)
  <2>1. CASE u = owner
    BY <2>1
  <2>2. CASE u # owner
    BY <2>2, OthersActive
  <2> QED
    BY <2>1, <2>2
<1>3. /\ IsFiniteSet(ActiveOf(u)) /\ Cardinality(ActiveOf(u)) \in Nat
  BY ActiveIsFinite DEF SInv
<1>4. Cardinality(ActiveOf(u)') \in Nat /\ Cardinality(ActiveOf(u)') <= Cardinality(ActiveOf(u))
  BY <1>2, <1>3, FS_Subset, FS_CardinalityType
<1> QED
  BY <1>1, <1>3, <1>4, WindowAssumption

-----------------------------------------------------------------------------
\* The frame of a step of p's call, which is in c afterwards.
LEMMA SerialStep ==
  ASSUME SInv, OneCallPerUser, IInv', NEW p \in Procs, op[p].pc # "idle", Field(p),
         NEW c, op' = [op EXCEPT ![p] = c], SerialOK(c)',
         faults' = 0 => faults = 0,
         \A s \in DOMAIN sessions' :
           sessions'[s].user = op[p].user /\ IsRevoked(sessions'[s]) /\ faults' = 0 =>
             Shut(s)' \/ (c.pc \in Closing /\ c.session = s),
         ReplacedIsUsed', RotationIsAChain', AtMostMaxConcurrent'
  PROVE  SInv'
<1>1. /\ op'[p] = c /\ DOMAIN op' = Procs
      /\ \A q \in Procs : q # p => op'[q] = op[q]
  BY DEF SInv, IInv, TypeOK
<1>2. RevokedIsClosed'
  BY <1>1, ClosedFrame
<1>3. ASSUME NEW q \in Procs PROVE SerialOK(op[q])'
  <2>1. CASE q = p
    BY <1>1, <2>1 DEF SerialOK, Current, Latest, Rotating, Covers
  <2>2. CASE q # p
    BY <1>1, <2>2, OthersStaySerial
  <2> QED
    BY <2>1, <2>2
<1> QED
  BY <1>2, <1>3 DEF SInv

\* The tokens are as they were.
LEMMA TokensRest ==
  ASSUME SInv, tokens' = tokens PROVE ReplacedIsUsed' /\ RotationIsAChain'
BY DEF SInv, ReplacedIsUsed, RotationIsAChain

\* An idle process owes nothing.
LEMMA IdleIsSerial == SerialOK(Idle) /\ SerialOK(Idle)'
BY DEF SerialOK, Current, Latest, Rotating, Serving, Ending, HoldsSession, HoldsToken, Idle

\* Statements that read, and the end of a call that had nothing to close.
LEMMA ReadingStaysSerial ==
  ASSUME SInv, OneCallPerUser, IInv', NEW p \in Procs, op[p].pc \notin Closing \union {"idle"},
         UNCHANGED storeVars, superseded' = superseded, NEW c, op' = [op EXCEPT ![p] = c], SerialOK(c)
  PROVE  SInv'
<1>1. /\ sessions' = sessions /\ tokens' = tokens /\ signedUntil' = signedUntil /\ denied' = denied
      /\ faults' = faults
  BY DEF storeVars
<1>2. Field(p)
  BY <1>1 DEF Field
<1>3. SerialOK(c)'
  BY <1>1 DEF SerialOK, Current, Latest, Rotating, ActiveOf, HasRoom, Covers
<1>4. AtMostMaxConcurrent' /\ ReplacedIsUsed' /\ RotationIsAChain'
  <2>1. \A u : ActiveOf(u)' = ActiveOf(u)
    BY <1>1 DEF ActiveOf
  <2> QED
    BY <1>1, <1>2, <2>1, FewerActive, TokensRest
<1>5. \A s \in DOMAIN sessions' :
        sessions'[s].user = op[p].user /\ IsRevoked(sessions'[s]) /\ faults' = 0 =>
          Shut(s)'
  BY <1>1, OwnClosed DEF Shut
<1> QED
  BY <1>1, <1>2, <1>3, <1>4, <1>5, SerialStep

\* Each statement that only reads; it sees what no call of the user is changing.
LEMMA ReadsStaySerial ==
  ASSUME SInv, OneCallPerUser, IInv', NEW p \in Procs,
         \/ ListForEviction(p) \/ FindToken(p) \/ FindReused(p) \/ FindCurrent(p) \/ Reject(p)
         \/ LogoutFind(p) \/ ListForLogout(p)
  PROVE  SInv'
<1>1. /\ UNCHANGED storeVars /\ superseded' = superseded
      /\ op[p].pc \in {"list", "findToken", "findSession", "logoutFind", "everyList"}
  BY DEF ListForEviction, FindToken, FindReused, FindCurrent, Reject, LogoutFind, ListForLogout,
         FindSession
<1>2. op[p] \in Calls /\ SerialOK(op[p]) /\ op \in [Procs -> Calls] /\ now \in Nat \ {0}
  BY DEF SInv, IInv, TypeOK, StoreTypeOK
<1>3. \A s \in DOMAIN sessions : signedUntil[s] <= now + AccessTtl
  BY DEF SInv, IInv, TypeOK, StoreTypeOK, FinalIsClosed
<1>4. ASSUME NEW c, op' = [op EXCEPT ![p] = c], SerialOK(c) PROVE SInv'
  BY <1>1, <1>4, ReadingStaysSerial DEF Closing
<1>5. CASE ListForEviction(p)
  <2>1. CASE HasRoom(ActiveOf(op[p].user)) /\ op' = [op EXCEPT ![p].pc = "open"]
    <3> PICK c : c = [op[p] EXCEPT !.pc = "open"]
      OBVIOUS
    <3>1. c.pc = "open" /\ c.user = op[p].user
      BY <1>2 DEF Calls
    <3>2. SerialOK(c)
      BY <2>1, <3>1 DEF SerialOK, Current, Latest, Rotating, Serving, Ending, HoldsSession, HoldsToken
    <3> QED
      BY <1>2, <1>4, <2>1, <3>2
  <2>2. ASSUME NEW s \in Oldest(ActiveOf(op[p].user)),
               op' = [op EXCEPT ![p].pc = "evict", ![p].session = s, ![p].row = sessions[s]]
        PROVE  SInv'
    <3> PICK c : c = [op[p] EXCEPT !.pc = "evict", !.session = s, !.row = sessions[s]]
      OBVIOUS
    <3>1. /\ c.pc = "evict" /\ c.user = op[p].user /\ c.session = s /\ c.row = sessions[s]
          /\ c.at = op[p].at
      BY <1>2 DEF Calls
    <3>2. SerialOK(c)
      BY <1>2, <1>5, <3>1 DEF SerialOK, Current, Latest, Rotating, Serving, Ending, HoldsSession, HoldsToken,
         ListForEviction
    <3> QED
      BY <1>2, <1>4, <2>2, <3>2
  <2> QED
    BY <1>5, <2>1, <2>2 DEF ListForEviction
<1>6. CASE FindToken(p)
  <2> PICK c : c = [op[p] EXCEPT !.pc = "findSession", !.tokenRow = tokens[op[p].token],
                                 !.session = tokens[op[p].token].session]
    OBVIOUS
  <2>1. c.pc = "findSession" /\ c.token = op[p].token /\ c.tokenRow = tokens[op[p].token]
    BY <1>2 DEF Calls
  <2>2. SerialOK(c)
    BY <2>1 DEF SerialOK, Current, Latest, Rotating, Serving, Ending, HoldsSession
  <2>3. op' = [op EXCEPT ![p] = c]
    BY <1>2, <1>6 DEF FindToken
  <2> QED
    BY <1>4, <2>2, <2>3
<1>7. ASSUME NEW to \in {"reuse", "mark", "logout"},
             op' = [op EXCEPT ![p].pc = to, ![p].at = now, ![p].row = sessions[op[p].session]],
             to = "mark" => op[p].pc = "findSession" /\ MayRotate(p),
             to = "logout" => op[p].pc = "logoutFind"
      PROVE  SInv'
  <2> PICK c : c = [op[p] EXCEPT !.pc = to, !.at = now, !.row = sessions[op[p].session]]
    OBVIOUS
  <2>1. /\ c.pc = to /\ c.at = now /\ c.row = sessions[op[p].session] /\ c.session = op[p].session
        /\ c.token = op[p].token /\ c.tokenRow = op[p].tokenRow /\ c.user = op[p].user
        /\ c.until = op[p].until
    BY <1>2 DEF Calls
  <2>2. to = "mark" => /\ ~IsUsed(op[p].tokenRow) /\ ~IsRevoked(sessions[op[p].session])
                       /\ op[p].tokenRow = tokens[op[p].token]
    BY <1>2, <1>7 DEF MayRotate, IsRedeemable, IsActive, SerialOK, Current, HoldsToken
  <2>5. to = "logout" => Covers(c)
    BY <1>2, <1>7, <2>1 DEF SerialOK, Latest, Covers
  <2>3. SerialOK(c)
    BY <1>2, <1>3, <2>1, <2>2, <2>5 DEF SerialOK, Current, Latest, Rotating, Serving, Ending,
       HoldsSession, HoldsToken, Never
  <2>4. op' = [op EXCEPT ![p] = c]
    BY <1>2, <1>7
  <2> QED
    BY <1>4, <2>3, <2>4
<1>8. CASE Reject(p)
  BY <1>4, <1>8, IdleIsSerial DEF Reject, Return
<1>9. CASE ListForLogout(p)
  <2> PICK c : c = [op[p] EXCEPT !.pc = "everyDeny", !.listed = ActiveOf(op[p].user),
                                 !.todo = ActiveOf(op[p].user)]
    OBVIOUS
  <2>1. /\ c.pc = "everyDeny" /\ c.user = op[p].user /\ c.at = op[p].at
        /\ c.listed = ActiveOf(op[p].user) /\ c.todo = ActiveOf(op[p].user)
    BY <1>2 DEF Calls
  <2>2. SerialOK(c)
    BY <1>2, <1>9, <2>1 DEF SerialOK, Current, Latest, Rotating, Serving, Ending, HoldsSession,
       HoldsToken, ListForLogout
  <2>3. op' = [op EXCEPT ![p] = c]
    BY <1>2, <1>9 DEF ListForLogout
  <2> QED
    BY <1>4, <2>2, <2>3
<1>10. CASE FindReused(p) \/ FindCurrent(p) \/ LogoutFind(p)
  BY <1>7, <1>10 DEF FindReused, FindCurrent, FindSession, LogoutFind
<1> QED
  BY <1>5, <1>6, <1>8, <1>9, <1>10
-----------------------------------------------------------------------------
\* Evict, RevokeReused and LogoutSave: the row that was read is still the stored one.
LEMMA RevokingStaysSerial ==
  ASSUME SInv, OneCallPerUser, IInv', NEW p \in Procs, NEW from, NEW to, SaveRevoked(p, from, to),
         <<from, to>> \in {<<"evict", "evictDeny">>, <<"reuse", "reuseDeny">>,
                           <<"logout", "logoutDeny">>}
  PROVE  SInv'
<1> PICK c : c = [op[p] EXCEPT !.pc = to, !.row = NoSession, !.token = 0, !.tokenRow = NoToken]
  OBVIOUS
<1> PICK s : s = op[p].session
  OBVIOUS
<1> PICK u : u = op[p].user
  OBVIOUS
<1> PICK row : row = Revoke(sessions[s], op[p].at)
  OBVIOUS
<1>1. /\ op[p] \in Calls /\ SerialOK(op[p]) /\ Owned(op[p]) /\ NamesExist(op[p]) /\ op[p].pc = from
      /\ op \in [Procs -> Calls]
      /\ from \in HoldsSession /\ from \in NamesSession /\ from \in Ending /\ from \notin Closing
      /\ to \in Ending \intersect Closing /\ to \notin HoldsSession \union HoldsToken \union Serving
      /\ to = "logoutDeny" => from = "logout"
      /\ to \notin {"open", "everyDeny", "next", "first", "mark"} /\ from # "idle"
  BY DEF SInv, IInv, TypeOK, CallOK, SaveRevoked, HoldsSession, NamesSession, HoldsToken, Ending,
         Closing, Serving
<1>2. /\ s \in DOMAIN sessions /\ sessions[s].user = u /\ sessions[s] \in SessionRows
      /\ op[p].row = sessions[s]
  BY <1>1 DEF SInv, IInv, TypeOK, StoreTypeOK, NamesExist, Owned, SerialOK, Current
<1>3. row.user = u /\ (IsRevoked(sessions[s]) => IsRevoked(row))
  BY <1>2 DEF Revoke, SessionRows
<1>4. /\ Save(s, row) /\ UNCHANGED <<tokens, denied, signedUntil, faults, superseded>>
      /\ op' = [op EXCEPT ![p] = c]
  BY <1>1, <1>2 DEF SaveRevoked, Calls
<1>5. /\ Field(p)
      /\ DOMAIN sessions' = DOMAIN sessions /\ sessions'[s] = row
      /\ \A x \in DOMAIN sessions : x # s => sessions'[x] = sessions[x]
  <2>1. /\ DOMAIN sessions' = DOMAIN sessions \union {s} /\ sessions'[s] = row
        /\ \A x \in DOMAIN sessions : x # s => sessions'[x] = sessions[x]
    BY <1>4 DEF Save, Upsert
  <2>2. Field(p)
    BY <1>2, <1>3, <1>4, <2>1 DEF Field
  <2> QED
    BY <1>2, <2>1, <2>2
<1>6. /\ c.pc = to /\ c.user = u /\ c.at = op[p].at /\ c.session = s
      /\ c.until = op[p].until
  BY <1>1 DEF Calls
<1>7. SerialOK(c)'
  <2>1. \A x \in DOMAIN sessions' : sessions'[x].user = u => signedUntil'[x] <= op[p].at + AccessTtl
    BY <1>1, <1>4, <1>5 DEF SerialOK, Latest, Field
  <2>2. Current(c)' /\ Rotating(c)'
    BY <1>1, <1>6 DEF Current, Rotating
  <2>3. Latest(c)'
    <3>1. c.pc \notin {"logoutFind", "logout", "everyDeny"}
      BY <1>1, <1>6 DEF Closing
    <3>2. c.pc = "logoutDeny" => Covers(c)'
      BY <1>1, <1>4, <1>6 DEF SerialOK, Latest, Covers
    <3> QED
      BY <1>1, <1>6, <2>1, <3>1, <3>2 DEF Latest
  <2> QED
    BY <2>2, <2>3 DEF SerialOK
<1>8. ActiveOf(u)' \subseteq ActiveOf(u)
  BY <1>3, <1>5 DEF ActiveOf, Field
<1>9. ASSUME NEW x \in DOMAIN sessions', sessions'[x].user = u, IsRevoked(sessions'[x]), faults' = 0
      PROVE  Shut(x)' \/ (c.pc \in Closing /\ c.session = x)
  <2>1. CASE x = s
    BY <1>1, <1>6, <2>1
  <2>2. CASE x # s
    <3>1. x \in DOMAIN sessions /\ sessions'[x] = sessions[x] /\ op[p].pc \notin Closing
      BY <1>1, <1>5, <2>2
    <3> QED
      BY <1>1, <1>4, <1>9, <3>1, OwnClosed DEF Shut
  <2> QED
    BY <2>1, <2>2
<1>10. AtMostMaxConcurrent' /\ ReplacedIsUsed' /\ RotationIsAChain'
  BY <1>4, <1>5, <1>8, FewerActive, TokensRest
<1>11. op[p].pc # "idle" /\ (faults' = 0 => faults = 0)
  BY <1>1, <1>4
<1> QED
  BY <1>4, <1>5, <1>7, <1>9, <1>10, <1>11, SerialStep

\* Writing the deny-list, for sessions of the call's user.
LEMMA DenyingField ==
  ASSUME SInv, NEW p \in Procs, UNCHANGED <<sessions, tokens, signedUntil, superseded>>,
         \A s \in DOMAIN sessions : sessions[s].user # op[p].user => denied'[s] = denied[s]
  PROVE  Field(p) /\ AtMostMaxConcurrent' /\ ReplacedIsUsed' /\ RotationIsAChain'
<1>1. Field(p)
  BY DEF Field
<1>2. \A u : ActiveOf(u)' = ActiveOf(u)
  BY DEF ActiveOf
<1> QED
  BY <1>1, <1>2, FewerActive, TokensRest

\* DenyEvicted, DenyReused, LogoutDeny: the entry outlives every token of the session.
LEMMA ClosingStaysSerial ==
  ASSUME SInv, OneCallPerUser, IInv', NEW p \in Procs, DenyEvicted(p) \/ DenyReused(p) \/ LogoutDeny(p)
  PROVE  SInv'
<1> PICK s : s = op[p].session
  OBVIOUS
<1> PICK u : u = op[p].user
  OBVIOUS
<1>1. /\ op[p] \in Calls /\ SerialOK(op[p]) /\ Owned(op[p]) /\ NamesExist(op[p])
      /\ op \in [Procs -> Calls] /\ op[p].pc \in Closing \intersect Ending \intersect NamesSession
      /\ op[p].at \in Nat /\ op[p].pc # "idle"
  BY DEF SInv, IInv, TypeOK, CallOK, DenyEvicted, DenyReused, LogoutDeny, Closing, Ending, NamesSession, Calls
<1>2. /\ s \in DOMAIN sessions /\ s \in SessionIds /\ sessions[s].user = u
      /\ signedUntil[s] <= op[p].at + AccessTtl /\ signedUntil[s] \in Nat
      /\ denied \in [SessionIds -> Nat] /\ DOMAIN sessions \subseteq SessionIds
  BY <1>1 DEF SInv, IInv, TypeOK, StoreTypeOK, NamesExist, Owned, SerialOK, Latest
<1>3. PICK until : /\ Deny(s, until) /\ (s \in superseded \/ signedUntil[s] <= until)
                   /\ UNCHANGED <<sessions, tokens, signedUntil, faults, superseded>>
  <2>1. CASE DenyEvicted(p) \/ DenyReused(p)
    BY <1>2, <2>1 DEF DenyEvicted, DenyReused, AccessTokenExpiryFrom
  <2>2. CASE LogoutDeny(p)
    <3>1. signedUntil[s] <= op[p].at + RevocationWindow
      BY <1>1, <1>2, WindowAssumption, PolicyAssumption
    <3>2. Covers(op[p])
      BY <1>1, <2>2 DEF SerialOK, Latest, LogoutDeny
    <3> QED
      BY <2>2, <3>1, <3>2 DEF LogoutDeny, RevokeUntil, Covers
  <2> QED
    BY <2>1, <2>2
<1>4. denied'[s] = until /\ \A x \in DOMAIN sessions : x # s => denied'[x] = denied[x]
  BY <1>2, <1>3 DEF Deny
<1>5. Field(p) /\ AtMostMaxConcurrent' /\ ReplacedIsUsed' /\ RotationIsAChain'
  BY <1>2, <1>3, <1>4, DenyingField
<1>6. PICK c : op' = [op EXCEPT ![p] = c] /\ SerialOK(c)'
  <2>1. CASE DenyEvicted(p)
    <3> PICK c : c = [op[p] EXCEPT !.pc = "list", !.session = 0]
      OBVIOUS
    <3>1. c.pc = "list" /\ c.user = u /\ c.at = op[p].at
      BY <1>1 DEF Calls
    <3>2. \A x \in DOMAIN sessions' : sessions'[x].user = u => signedUntil'[x] <= op[p].at + AccessTtl
      BY <1>1, <1>3 DEF SerialOK, Latest
    <3>3. SerialOK(c)'
      BY <3>1, <3>2 DEF SerialOK, Current, Latest, Rotating, HoldsSession, HoldsToken, Serving
    <3>4. op' = [op EXCEPT ![p] = c]
      BY <1>1, <2>1 DEF DenyEvicted
    <3> QED
      BY <3>3, <3>4
  <2>2. CASE DenyReused(p) \/ LogoutDeny(p)
    BY <2>2, IdleIsSerial DEF DenyReused, LogoutDeny, Return
  <2> QED
    BY <2>1, <2>2
<1>7. ASSUME NEW x \in DOMAIN sessions', sessions'[x].user = u, IsRevoked(sessions'[x]), faults' = 0
      PROVE  Shut(x)'
  <2>1. CASE x = s
    BY <1>3, <1>4, <2>1 DEF Shut
  <2>2. CASE x # s
    BY <1>1, <1>3, <1>4, <1>7, <2>2, OwnClosed DEF Shut
  <2> QED
    BY <2>1, <2>2
<1> QED
  BY <1>1, <1>3, <1>5, <1>6, <1>7, SerialStep

\* LogoutEverywhere denies what it listed, one by one.
LEMMA DenyListedStaysSerial ==
  ASSUME SInv, OneCallPerUser, IInv', NEW p \in Procs, DenyListed(p)
  PROVE  SInv'
<1> PICK u : u = op[p].user
  OBVIOUS
<1>1. /\ op[p] \in Calls /\ SerialOK(op[p]) /\ Owned(op[p]) /\ NamesExist(op[p])
      /\ op \in [Procs -> Calls] /\ op[p].pc = "everyDeny"
      /\ op[p].at \in Nat /\ denied \in [SessionIds -> Nat] /\ DOMAIN sessions \subseteq SessionIds
      /\ op[p].todo \subseteq op[p].listed /\ op[p].listed \subseteq DOMAIN sessions
  BY DEF SInv, IInv, TypeOK, StoreTypeOK, CallOK, DenyListed, Calls, NamesExist
<1>2. PICK s \in op[p].todo : /\ Deny(s, op[p].at + RevocationWindow)
                              /\ op' = [op EXCEPT ![p].todo = @ \ {s}]
                              /\ UNCHANGED <<sessions, tokens, signedUntil, faults, superseded>>
  BY DEF DenyListed
<1> PICK c : c = [op[p] EXCEPT !.todo = @ \ {s}]
  OBVIOUS
<1>3. /\ c.pc = "everyDeny" /\ c.user = u /\ c.at = op[p].at /\ c.listed = op[p].listed
      /\ c.todo = op[p].todo \ {s}
      /\ op' = [op EXCEPT ![p] = c]
  BY <1>1, <1>2 DEF Calls
<1>4. /\ s \in DOMAIN sessions /\ sessions[s].user = u
      /\ signedUntil[s] <= op[p].at + AccessTtl /\ signedUntil[s] \in Nat
  BY <1>1, <1>2 DEF SInv, IInv, TypeOK, StoreTypeOK, Owned, SerialOK, Latest, Ending
<1>5. /\ denied'[s] = op[p].at + RevocationWindow
      /\ \A x \in DOMAIN sessions : x # s => denied'[x] = denied[x]
  BY <1>1, <1>2, <1>4 DEF Deny
<1>6. Field(p) /\ AtMostMaxConcurrent' /\ ReplacedIsUsed' /\ RotationIsAChain'
  BY <1>2, <1>4, <1>5, DenyingField
<1>7. SerialOK(c)'
  <2>1. /\ op[p].listed = ActiveOf(u) /\ ActiveOf(u)' = ActiveOf(u)
        /\ \A x \in op[p].listed \ op[p].todo : denied[x] = op[p].at + RevocationWindow
        /\ \A x \in DOMAIN sessions : sessions[x].user = u => signedUntil[x] <= op[p].at + AccessTtl
    BY <1>1, <1>2 DEF SerialOK, Latest, Ending, ActiveOf
  <2>2. Latest(c)'
    BY <1>1, <1>2, <1>3, <1>5, <2>1 DEF Latest
  <2>3. Current(c)' /\ Rotating(c)'
    BY <1>3 DEF Current, Rotating, HoldsSession, HoldsToken, Serving
  <2> QED
    BY <2>2, <2>3 DEF SerialOK
<1>8. ASSUME NEW x \in DOMAIN sessions', sessions'[x].user = u, IsRevoked(sessions'[x]), faults' = 0
      PROVE  Shut(x)'
  <2>1. CASE x = s
    BY <1>1, <1>2, <1>4, <1>5, <2>1, WindowAssumption, PolicyAssumption DEF Shut
  <2>2. CASE x # s
    BY <1>1, <1>2, <1>5, <1>8, <2>2, OwnClosed DEF Closing, Shut
  <2> QED
    BY <2>1, <2>2
<1> QED
  BY <1>1, <1>2, <1>3, <1>6, <1>7, <1>8, SerialStep

\* What the bulk update of LogoutEverywhere revokes was listed, so it is denied by now.
LEMMA UpdateAllStaysSerial ==
  ASSUME SInv, OneCallPerUser, IInv', NEW p \in Procs, UpdateAll(p)
  PROVE  SInv'
<1> PICK u : u = op[p].user
  OBVIOUS
<1>1. /\ op[p] \in Calls /\ SerialOK(op[p]) /\ op[p].pc = "everyDeny" /\ op[p].todo = {}
      /\ op[p].at \in Nat /\ DOMAIN sessions \subseteq SessionIds
      /\ \A s \in DOMAIN sessions : sessions[s] \in SessionRows
      /\ UNCHANGED <<tokens, denied, signedUntil, faults, superseded>>
      /\ op' = [op EXCEPT ![p] = Idle]
  BY DEF SInv, IInv, TypeOK, StoreTypeOK, UpdateAll, Return, Calls
<1>2. /\ DOMAIN sessions' = DOMAIN sessions
      /\ \A s \in DOMAIN sessions : s \notin ActiveOf(u) => sessions'[s] = sessions[s]
      /\ \A s \in ActiveOf(u) : sessions'[s] = Revoke(sessions[s], op[p].at)
  BY DEF UpdateAll, RevokeAllForUser, ActiveOf
<1>3. \A s \in DOMAIN sessions : sessions'[s].user = sessions[s].user
  <2>1. \A s \in DOMAIN sessions : Revoke(sessions[s], op[p].at).user = sessions[s].user
    BY <1>1 DEF Revoke, SessionRows
  <2> QED
    BY <1>2, <2>1
<1>4. Field(p)
  BY <1>1, <1>2, <1>3 DEF Field, ActiveOf
<1>5. ActiveOf(u)' \subseteq ActiveOf(u)
  BY <1>2, <1>3 DEF ActiveOf
<1>6. ASSUME NEW s \in DOMAIN sessions', sessions'[s].user = u, IsRevoked(sessions'[s]), faults' = 0
      PROVE  Shut(s)'
  <2>1. s \in DOMAIN sessions /\ sessions[s].user = u
    BY <1>2, <1>3, <1>6
  <2>2. CASE s \in ActiveOf(u)
    <3>1. denied[s] = op[p].at + RevocationWindow /\ signedUntil[s] <= op[p].at + AccessTtl
      BY <1>1, <2>1, <2>2 DEF SerialOK, Latest, Ending
    <3>2. signedUntil[s] \in Nat
      BY <1>1, <2>1 DEF SInv, IInv, TypeOK, StoreTypeOK
    <3> QED
      BY <1>1, <3>1, <3>2, WindowAssumption, PolicyAssumption DEF Shut
  <2>3. CASE s \notin ActiveOf(u)
    BY <1>1, <1>2, <1>6, <2>1, <2>3, OwnClosed DEF Closing, Shut
  <2> QED
    BY <2>2, <2>3
<1>7. AtMostMaxConcurrent' /\ ReplacedIsUsed' /\ RotationIsAChain'
  BY <1>1, <1>4, <1>5, FewerActive, TokensRest
<1> QED
  BY <1>1, <1>4, <1>6, <1>7, IdleIsSerial, SerialStep
-----------------------------------------------------------------------------
\* RefreshAccessToken keeps the session active that it read as active.
LEMMA TouchingStaysSerial ==
  ASSUME SInv, OneCallPerUser, IInv', NEW p \in Procs, SaveTouched(p) PROVE SInv'
<1> PICK c : c = [op[p] EXCEPT !.pc = "sign", !.at = Never, !.row = NoSession]
  OBVIOUS
<1> PICK s : s = op[p].session
  OBVIOUS
<1> PICK u : u = op[p].user
  OBVIOUS
<1> PICK row : row = Touch(sessions[s], op[p].at)
  OBVIOUS
<1>1. /\ op[p] \in Calls /\ SerialOK(op[p]) /\ Owned(op[p]) /\ NamesExist(op[p]) /\ op[p].pc = "touch"
      /\ op \in [Procs -> Calls]
  BY DEF SInv, IInv, TypeOK, CallOK, SaveTouched
<1>2. /\ s \in DOMAIN sessions /\ sessions[s].user = u /\ sessions[s] \in SessionRows
      /\ op[p].row = sessions[s] /\ ~IsRevoked(sessions[s])
  BY <1>1 DEF SInv, IInv, TypeOK, StoreTypeOK, NamesExist, Owned, SerialOK, Current, Serving,
     HoldsSession, NamesSession
<1>3. row.user = u /\ ~IsRevoked(row)
  BY <1>2 DEF Touch, SessionRows, IsRevoked
<1>4. /\ Save(s, row) /\ UNCHANGED <<tokens, denied, signedUntil, faults, superseded>>
      /\ op' = [op EXCEPT ![p] = c]
  BY <1>1, <1>2 DEF SaveTouched, Calls
<1>5. /\ DOMAIN sessions' = DOMAIN sessions /\ sessions'[s] = row
      /\ \A x \in DOMAIN sessions : x # s => sessions'[x] = sessions[x]
  <2>1. /\ DOMAIN sessions' = DOMAIN sessions \union {s} /\ sessions'[s] = row
        /\ \A x \in DOMAIN sessions : x # s => sessions'[x] = sessions[x]
    BY <1>4 DEF Save, Upsert
  <2> QED
    BY <1>2, <2>1
<1>6. Field(p)
  BY <1>2, <1>3, <1>4, <1>5 DEF Field
<1>7. c.pc = "sign" /\ c.session = s
  BY <1>1 DEF Calls
<1>8. SerialOK(c)'
  BY <1>3, <1>5, <1>7 DEF SerialOK, Current, Latest, Rotating, HoldsSession, HoldsToken, Ending, IsRevoked
<1>9. ActiveOf(u)' \subseteq ActiveOf(u)
  BY <1>2, <1>5 DEF ActiveOf
<1>10. ASSUME NEW x \in DOMAIN sessions', sessions'[x].user = u, IsRevoked(sessions'[x]), faults' = 0
       PROVE  Shut(x)'
  <2>1. x \in DOMAIN sessions /\ sessions'[x] = sessions[x]
    BY <1>3, <1>5, <1>10
  <2> QED
    BY <1>1, <1>4, <1>10, <2>1, OwnClosed DEF Closing, Shut
<1>11. AtMostMaxConcurrent' /\ ReplacedIsUsed' /\ RotationIsAChain'
  BY <1>4, <1>6, <1>9, FewerActive, TokensRest
<1>12. op[p].pc # "idle" /\ (faults' = 0 => faults = 0)
  BY <1>1, <1>4
<1> QED
  BY <1>4, <1>6, <1>8, <1>10, <1>11, <1>12, SerialStep

\* IssueSession adds a session where there was room for one.
LEMMA OpeningStaysSerial ==
  ASSUME SInv, OneCallPerUser, IInv', NEW p \in Procs, SaveSession(p) PROVE SInv'
<1> PICK u : u = op[p].user
  OBVIOUS
<1> PICK row : row = Open(u, op[p].at)
  OBVIOUS
<1>1. /\ op[p] \in Calls /\ SerialOK(op[p]) /\ NamesExist(op[p]) /\ op[p].pc = "open"
      /\ op \in [Procs -> Calls]
  BY DEF SInv, IInv, TypeOK, SaveSession
<1>2. PICK s : /\ s \notin DOMAIN sessions /\ Save(s, row)
               /\ op' = [op EXCEPT ![p].pc = "first", ![p].session = s]
               /\ UNCHANGED <<tokens, denied, signedUntil, faults, superseded>>
  BY DEF SaveSession, Fresh
<1> PICK c : c = [op[p] EXCEPT !.pc = "first", !.session = s]
  OBVIOUS
<1>3. c.pc = "first" /\ c.session = s /\ op' = [op EXCEPT ![p] = c]
  BY <1>1, <1>2 DEF Calls
<1>4. row.user = u /\ ~IsRevoked(row)
  BY DEF Open, IsRevoked
<1>5. /\ DOMAIN sessions' = DOMAIN sessions \union {s} /\ sessions'[s] = row
      /\ \A x \in DOMAIN sessions : x # s /\ sessions'[x] = sessions[x]
  BY <1>2 DEF Save, Upsert
<1>6. Field(p)
  BY <1>2, <1>4, <1>5 DEF Field
<1>7. \A t \in DOMAIN tokens : tokens[t].session \in DOMAIN sessions
  BY DEF SInv, IInv, TypeOK
<1>8. SerialOK(c)'
  BY <1>2, <1>3, <1>4, <1>5, <1>7 DEF SerialOK, Current, Latest, Rotating, HoldsSession, HoldsToken,
     Ending, IsRevoked
<1>9. ASSUME NEW x \in DOMAIN sessions', sessions'[x].user = u, IsRevoked(sessions'[x]), faults' = 0
      PROVE  Shut(x)'
  <2>1. x \in DOMAIN sessions /\ sessions'[x] = sessions[x]
    BY <1>4, <1>5, <1>9
  <2> QED
    BY <1>1, <1>2, <1>9, <2>1, OwnClosed DEF Closing, Shut
<1>10. AtMostMaxConcurrent'
  <2> SUFFICES ASSUME MaxConcurrentSessions > 0, NEW v \in Users
               PROVE  Cardinality(ActiveOf(v)') <= MaxConcurrentSessions
    BY DEF AtMostMaxConcurrent
  <2>1. CASE v = u
    <3>1. Cardinality(ActiveOf(u)) < MaxConcurrentSessions
      BY <1>1 DEF SerialOK, Current, HasRoom
    <3>2. ActiveOf(u)' = ActiveOf(u) \union {s} /\ s \notin ActiveOf(u)
      BY <1>2, <1>4, <1>5 DEF ActiveOf, IsRevoked
    <3>3. IsFiniteSet(ActiveOf(u)) /\ Cardinality(ActiveOf(u)) \in Nat
      BY ActiveIsFinite DEF SInv
    <3>4. Cardinality(ActiveOf(u)') = Cardinality(ActiveOf(u)) + 1
      BY <3>2, <3>3, FS_AddElement
    <3> QED
      BY <2>1, <3>1, <3>3, <3>4, WindowAssumption
  <2>2. CASE v # u
    <3>1. ActiveOf(v)' = ActiveOf(v)
      BY <1>6, <2>2, OthersActive
    <3> QED
      BY <3>1 DEF SInv, AtMostMaxConcurrent
  <2> QED
    BY <2>1, <2>2
<1>11. ReplacedIsUsed' /\ RotationIsAChain'
  BY <1>2, TokensRest
<1>12. op[p].pc # "idle" /\ (faults' = 0 => faults = 0)
  BY <1>1, <1>2
<1> QED
  BY <1>3, <1>6, <1>8, <1>9, <1>10, <1>11, <1>12, SerialStep

\* Writing a token leaves the sessions as they were.
LEMMA TokenWritten ==
  ASSUME SInv, OneCallPerUser, NEW p \in Procs, op[p].pc \notin Closing \union {"idle"},
         sessions' = sessions, denied' = denied, signedUntil' = signedUntil, faults' = faults, Field(p)
  PROVE  /\ AtMostMaxConcurrent'
         /\ faults' = 0 => faults = 0
         /\ \A x \in DOMAIN sessions' :
              sessions'[x].user = op[p].user /\ IsRevoked(sessions'[x]) /\ faults' = 0 =>
                Shut(x)'
<1>1. \A u : ActiveOf(u)' = ActiveOf(u)
  BY DEF ActiveOf
<1>2. AtMostMaxConcurrent'
  BY <1>1, FewerActive
<1>3. \A x \in DOMAIN sessions' :
        sessions'[x].user = op[p].user /\ IsRevoked(sessions'[x]) /\ faults' = 0 =>
          Shut(x)'
  BY OwnClosed DEF Shut, Field
<1> QED
  BY <1>2, <1>3

\* The first token of a session that has none.
LEMMA FirstTokenStaysSerial ==
  ASSUME SInv, OneCallPerUser, IInv', NEW p \in Procs, SaveFirstToken(p) PROVE SInv'
<1> PICK s : s = op[p].session
  OBVIOUS
<1> PICK row : row = IssueRefreshToken(s, op[p].at, Never)
  OBVIOUS
<1>1. /\ op[p] \in Calls /\ SerialOK(op[p]) /\ Owned(op[p]) /\ NamesExist(op[p]) /\ op[p].pc = "first"
      /\ op \in [Procs -> Calls]
  BY DEF SInv, IInv, TypeOK, CallOK, SaveFirstToken
<1>2. s \in DOMAIN sessions /\ sessions[s].user = op[p].user /\ ~IsRevoked(sessions[s])
  BY <1>1 DEF NamesExist, Owned, SerialOK, Current, Serving, NamesSession
<1>3. PICK t : /\ t \notin DOMAIN tokens /\ SaveRefreshToken(t, row)
               /\ op' = [op EXCEPT ![p].pc = "sign", ![p].at = Never, ![p].token = t]
               /\ UNCHANGED <<sessions, denied, signedUntil, faults, superseded>>
  BY DEF SaveFirstToken, Fresh
<1> PICK c : c = [op[p] EXCEPT !.pc = "sign", !.at = Never, !.token = t]
  OBVIOUS
<1>4. c.pc = "sign" /\ c.session = s /\ op' = [op EXCEPT ![p] = c]
  BY <1>1, <1>3 DEF Calls
<1>5. row.session = s /\ row.replaces = Never /\ ~IsUsed(row)
  BY DEF IssueRefreshToken, IsUsed
<1>6. /\ Field(p) /\ AtMostMaxConcurrent'
      /\ DOMAIN tokens' = DOMAIN tokens \union {t} /\ tokens'[t] = row
      /\ \A x \in DOMAIN tokens : x # t => tokens'[x] = tokens[x]
      /\ faults' = 0 => faults = 0
      /\ \A x \in DOMAIN sessions' :
           sessions'[x].user = op[p].user /\ IsRevoked(sessions'[x]) /\ faults' = 0 =>
             Shut(x)'
  <2>1. op[p].pc \notin Closing \union {"idle"}
    BY <1>1 DEF Closing
  <2>2. /\ DOMAIN tokens' = DOMAIN tokens \union {t} /\ tokens'[t] = row
        /\ \A x \in DOMAIN tokens : x # t => tokens'[x] = tokens[x]
    BY <1>3 DEF SaveRefreshToken, Upsert
  <2>3. sessions' = sessions /\ denied' = denied /\ signedUntil' = signedUntil /\ faults' = faults
    BY <1>3
  <2>4. Field(p)
    BY <1>2, <1>3, <1>5, <2>2, <2>3 DEF Field
  <2> QED
    BY <2>1, <2>2, <2>3, <2>4, TokenWritten
<1>7. SerialOK(c)'
  BY <1>2, <1>3, <1>4 DEF SerialOK, Current, Latest, Rotating, HoldsSession, HoldsToken, Ending, IsRevoked
<1>8. ReplacedIsUsed'
  <2> SUFFICES ASSUME NEW x \in DOMAIN tokens', tokens'[x].replaces # Never
               PROVE  /\ tokens'[x].replaces \in DOMAIN tokens'
                      /\ IsUsed(tokens'[tokens'[x].replaces])
                      /\ tokens'[tokens'[x].replaces].session = tokens'[x].session
    BY DEF ReplacedIsUsed
  <2>1. x \in DOMAIN tokens /\ tokens'[x] = tokens[x]
    BY <1>5, <1>6
  <2>2. tokens[x].replaces \in DOMAIN tokens /\ tokens[x].replaces # t
    BY <1>3, <2>1 DEF SInv, ReplacedIsUsed
  <2> QED
    BY <1>6, <2>1, <2>2 DEF SInv, ReplacedIsUsed
<1>9. RotationIsAChain'
  <2>1. \A x \in DOMAIN tokens : tokens[x].session # s
    BY <1>1 DEF SerialOK, Rotating
  <2> QED
    BY <1>3, <1>5, <1>6, <2>1 DEF SInv, RotationIsAChain, IsUsed
<1>10. op[p].pc # "idle"
  BY <1>1
<1> QED
  BY <1>4, <1>6, <1>7, <1>8, <1>9, <1>10, SerialStep

\* Marking the session's one unused token leaves it without.
LEMMA MarkingStaysSerial ==
  ASSUME SInv, OneCallPerUser, IInv', NEW p \in Procs, MarkTokenUsed(p) PROVE SInv'
<1> PICK s : s = op[p].session
  OBVIOUS
<1> PICK t : t = op[p].token
  OBVIOUS
<1> PICK row : row = MarkUsed(tokens[t], op[p].at)
  OBVIOUS
<1> PICK c : c = [op[p] EXCEPT !.pc = "next", !.tokenRow = NoToken]
  OBVIOUS
<1>1. /\ op[p] \in Calls /\ SerialOK(op[p]) /\ Owned(op[p]) /\ NamesExist(op[p]) /\ op[p].pc = "mark"
      /\ op \in [Procs -> Calls]
  BY DEF SInv, IInv, TypeOK, CallOK, MarkTokenUsed
<1>2. /\ s \in DOMAIN sessions /\ sessions[s].user = op[p].user /\ ~IsRevoked(sessions[s])
      /\ op[p].row = sessions[s]
      /\ t \in DOMAIN tokens /\ tokens[t].session = s /\ op[p].tokenRow = tokens[t]
      /\ ~IsUsed(tokens[t]) /\ op[p].at # Never
      /\ tokens[t] \in TokenRows
  BY <1>1 DEF NamesExist, Owned, SerialOK, Current, Serving, NamesSession, HoldsSession, NamesToken,
     HoldsToken, SInv, IInv, TypeOK, StoreTypeOK
<1>3. row.session = s /\ row.replaces = tokens[t].replaces /\ IsUsed(row)
  BY <1>2 DEF MarkUsed, IsUsed, TokenRows
<1>4. /\ SaveRefreshToken(t, row) /\ UNCHANGED <<sessions, denied, signedUntil, faults, superseded>>
      /\ op' = [op EXCEPT ![p] = c]
  BY <1>1, <1>2 DEF MarkTokenUsed, Calls
<1>5. c.pc = "next" /\ c.session = s /\ c.row = sessions[s] /\ c.token = t
  BY <1>1, <1>2 DEF Calls
<1>6. /\ Field(p) /\ AtMostMaxConcurrent'
      /\ DOMAIN tokens' = DOMAIN tokens \union {t} /\ tokens'[t] = row
      /\ \A x \in DOMAIN tokens : x # t => tokens'[x] = tokens[x]
      /\ faults' = 0 => faults = 0
      /\ \A x \in DOMAIN sessions' :
           sessions'[x].user = op[p].user /\ IsRevoked(sessions'[x]) /\ faults' = 0 =>
             Shut(x)'
  <2>1. op[p].pc \notin Closing \union {"idle"}
    BY <1>1 DEF Closing
  <2>2. /\ DOMAIN tokens' = DOMAIN tokens \union {t} /\ tokens'[t] = row
        /\ \A x \in DOMAIN tokens : x # t => tokens'[x] = tokens[x]
    BY <1>4 DEF SaveRefreshToken, Upsert
  <2>3. sessions' = sessions /\ denied' = denied /\ signedUntil' = signedUntil /\ faults' = faults
    BY <1>4
  <2>4. Field(p)
    BY <1>2, <1>4, <1>3, <2>2, <2>3 DEF Field
  <2> QED
    BY <2>1, <2>2, <2>3, <2>4, TokenWritten
<1>7. \A x \in DOMAIN tokens' :
        /\ x \in DOMAIN tokens
        /\ tokens'[x].session = tokens[x].session /\ tokens'[x].replaces = tokens[x].replaces
        /\ ~IsUsed(tokens'[x]) => x # t /\ ~IsUsed(tokens[x])
        /\ IsUsed(tokens[x]) => IsUsed(tokens'[x])
  BY <1>2, <1>3, <1>6
<1>8. SerialOK(c)'
  <2>1. \A x \in DOMAIN tokens' : tokens'[x].session = s => IsUsed(tokens'[x]) /\ tokens'[x].replaces # t
    <3> SUFFICES ASSUME NEW x \in DOMAIN tokens', tokens'[x].session = s
                 PROVE  IsUsed(tokens'[x]) /\ tokens'[x].replaces # t
      OBVIOUS
    <3>1. IsUsed(tokens'[x])
      BY <1>2, <1>7 DEF SInv, RotationIsAChain
    <3>2. t # Never
      BY <1>2 DEF SInv, IInv, TypeOK, StoreTypeOK, TokenIds, Never
    <3>3. tokens[x].replaces # t
      BY <1>2, <1>7, <3>2 DEF SInv, ReplacedIsUsed
    <3> QED
      BY <1>7, <3>1, <3>3
  <2>2. Current(c)'
    BY <1>2, <1>4, <1>5 DEF Current, HoldsSession, HoldsToken, IsRevoked
  <2> QED
    BY <1>5, <2>1, <2>2 DEF SerialOK, Latest, Rotating, Ending
<1>9. ReplacedIsUsed'
  <2>1. \A x \in DOMAIN tokens : x \in DOMAIN tokens'
    BY <1>6
  <2> QED
    BY <1>7, <2>1 DEF SInv, ReplacedIsUsed
<1>10. RotationIsAChain'
  BY <1>7 DEF SInv, RotationIsAChain
<1>11. op[p].pc # "idle"
  BY <1>1
<1> QED
  BY <1>4, <1>6, <1>8, <1>9, <1>10, <1>11, SerialStep

\* The next token replaces the one just marked, and no other does.
LEMMA NextTokenStaysSerial ==
  ASSUME SInv, OneCallPerUser, IInv', NEW p \in Procs, SaveNextToken(p) PROVE SInv'
<1> PICK s : s = op[p].session
  OBVIOUS
<1> PICK old : old = op[p].token
  OBVIOUS
<1> PICK row : row = IssueRefreshToken(s, op[p].at, old)
  OBVIOUS
<1>1. /\ op[p] \in Calls /\ SerialOK(op[p]) /\ Owned(op[p]) /\ NamesExist(op[p]) /\ op[p].pc = "next"
      /\ op \in [Procs -> Calls]
  BY DEF SInv, IInv, TypeOK, CallOK, SaveNextToken
<1>2. /\ s \in DOMAIN sessions /\ sessions[s].user = op[p].user /\ ~IsRevoked(sessions[s])
      /\ op[p].row = sessions[s]
      /\ old \in DOMAIN tokens /\ tokens[old].session = s
      /\ \A x \in DOMAIN tokens : tokens[x].session = s => IsUsed(tokens[x]) /\ tokens[x].replaces # old
  BY <1>1 DEF NamesExist, Owned, SerialOK, Current, Rotating, Serving, NamesSession, HoldsSession,
     NamesToken
<1>3. PICK t : /\ t \notin DOMAIN tokens /\ SaveRefreshToken(t, row)
               /\ op' = [op EXCEPT ![p].pc = "touch", ![p].token = t]
               /\ UNCHANGED <<sessions, denied, signedUntil, faults, superseded>>
  BY DEF SaveNextToken, Fresh
<1> PICK c : c = [op[p] EXCEPT !.pc = "touch", !.token = t]
  OBVIOUS
<1>4. c.pc = "touch" /\ c.session = s /\ c.row = sessions[s] /\ op' = [op EXCEPT ![p] = c]
  BY <1>1, <1>2, <1>3 DEF Calls
<1>5. row.session = s /\ row.replaces = old /\ ~IsUsed(row)
  BY DEF IssueRefreshToken, IsUsed
<1>6. /\ Field(p) /\ AtMostMaxConcurrent'
      /\ DOMAIN tokens' = DOMAIN tokens \union {t} /\ tokens'[t] = row
      /\ \A x \in DOMAIN tokens : x # t => tokens'[x] = tokens[x]
      /\ faults' = 0 => faults = 0
      /\ \A x \in DOMAIN sessions' :
           sessions'[x].user = op[p].user /\ IsRevoked(sessions'[x]) /\ faults' = 0 =>
             Shut(x)'
  <2>1. op[p].pc \notin Closing \union {"idle"}
    BY <1>1 DEF Closing
  <2>2. /\ DOMAIN tokens' = DOMAIN tokens \union {t} /\ tokens'[t] = row
        /\ \A x \in DOMAIN tokens : x # t => tokens'[x] = tokens[x]
    BY <1>3 DEF SaveRefreshToken, Upsert
  <2>3. sessions' = sessions /\ denied' = denied /\ signedUntil' = signedUntil /\ faults' = faults
    BY <1>3
  <2>4. Field(p)
    BY <1>2, <1>3, <1>5, <2>2, <2>3 DEF Field
  <2> QED
    BY <2>1, <2>2, <2>3, <2>4, TokenWritten
<1>7. SerialOK(c)'
  BY <1>2, <1>3, <1>4 DEF SerialOK, Current, Latest, Rotating, HoldsSession, HoldsToken, Ending, IsRevoked
<1>8. ReplacedIsUsed'
  <2> SUFFICES ASSUME NEW x \in DOMAIN tokens', tokens'[x].replaces # Never
               PROVE  /\ tokens'[x].replaces \in DOMAIN tokens'
                      /\ IsUsed(tokens'[tokens'[x].replaces])
                      /\ tokens'[tokens'[x].replaces].session = tokens'[x].session
    BY DEF ReplacedIsUsed
  <2>1. CASE x = t
    BY <1>2, <1>3, <1>5, <1>6, <2>1
  <2>2. CASE x # t
    <3>1. x \in DOMAIN tokens /\ tokens'[x] = tokens[x]
      BY <1>6, <2>2
    <3>2. tokens[x].replaces \in DOMAIN tokens /\ tokens[x].replaces # t
      BY <1>3, <3>1 DEF SInv, ReplacedIsUsed
    <3> QED
      BY <1>6, <3>1, <3>2 DEF SInv, ReplacedIsUsed
  <2> QED
    BY <2>1, <2>2
<1>9. RotationIsAChain'
  <2>1. \A x \in DOMAIN tokens : tokens[x].replaces # old
    <3> SUFFICES ASSUME NEW x \in DOMAIN tokens, tokens[x].replaces = old PROVE FALSE
      OBVIOUS
    <3>1. old # Never
      BY <1>2 DEF SInv, IInv, TypeOK, StoreTypeOK, TokenIds, Never
    <3>2. tokens[x].session = s
      BY <1>2, <3>1 DEF SInv, ReplacedIsUsed
    <3> QED
      BY <1>2, <3>2
  <2> QED
    BY <1>2, <1>3, <1>5, <1>6, <2>1 DEF SInv, RotationIsAChain, IsUsed
<1>10. op[p].pc # "idle"
  BY <1>1
<1> QED
  BY <1>4, <1>6, <1>7, <1>8, <1>9, <1>10, SerialStep
-----------------------------------------------------------------------------
\* SignAndReturn signs for a session that is not revoked.
LEMMA SigningStaysSerial ==
  ASSUME SInv, OneCallPerUser, IInv', NEW p \in Procs, SignAndReturn(p) PROVE SInv'
<1> PICK s : s = op[p].session
  OBVIOUS
<1> PICK u : u = op[p].user
  OBVIOUS
<1>1. /\ SerialOK(op[p]) /\ Owned(op[p]) /\ NamesExist(op[p]) /\ op[p].pc = "sign"
      /\ signedUntil \in [SessionIds -> Nat] /\ DOMAIN sessions \subseteq SessionIds
  BY DEF SInv, IInv, TypeOK, StoreTypeOK, CallOK, SignAndReturn
<1>2. /\ sessions' = sessions /\ tokens' = tokens /\ denied' = denied /\ faults' = faults
      /\ superseded' = superseded
      /\ Sign(s) /\ op' = [op EXCEPT ![p] = Idle]
  BY DEF SignAndReturn, Return
<1>3. s \in DOMAIN sessions /\ sessions[s].user = u /\ ~IsRevoked(sessions[s])
  BY <1>1 DEF NamesExist, Owned, SerialOK, Current, Serving, NamesSession
<1>4. \A x \in DOMAIN sessions : x # s => signedUntil'[x] = signedUntil[x]
  BY <1>1, <1>2 DEF Sign
<1>5. Field(p)
  BY <1>2, <1>3, <1>4 DEF Field
<1>6. \A v : ActiveOf(v)' = ActiveOf(v)
  BY <1>2 DEF ActiveOf
<1>7. AtMostMaxConcurrent' /\ ReplacedIsUsed' /\ RotationIsAChain'
  BY <1>2, <1>5, <1>6, FewerActive, TokensRest
<1>8. ASSUME NEW x \in DOMAIN sessions', sessions'[x].user = u, IsRevoked(sessions'[x]), faults' = 0
      PROVE  Shut(x)'
  <2>1. x \in DOMAIN sessions /\ x # s
    BY <1>2, <1>3, <1>8
  <2> QED
    BY <1>1, <1>2, <1>4, <1>8, <2>1, OwnClosed DEF Closing, Shut
<1>9. op[p].pc # "idle" /\ (faults' = 0 => faults = 0)
  BY <1>1, <1>2
<1> QED
  BY <1>2, <1>5, <1>7, <1>8, <1>9, IdleIsSerial, SerialStep

\* A failing call ends; what lands on the deny-list is for sessions it listed, its user's.
LEMMA FailingStaysSerial ==
  ASSUME SInv, OneCallPerUser, IInv', NEW p \in Procs, Fails(p) PROVE SInv'
<1>1. /\ op[p].pc # "idle" /\ Owned(op[p]) /\ NamesExist(op[p]) /\ faults \in Nat
      /\ DOMAIN sessions \subseteq SessionIds
  BY StoreBounds DEF SInv, IInv, TypeOK, StoreTypeOK, CallOK, Fails
<1>2. /\ sessions' = sessions /\ tokens' = tokens /\ signedUntil' = signedUntil
      /\ superseded' = superseded
      /\ faults' = faults + 1 /\ op' = [op EXCEPT ![p] = Idle]
  BY DEF Fails, Fault, Return
<1>3. \A s \in DOMAIN sessions : sessions[s].user # op[p].user => denied'[s] = denied[s]
  <2>1. PICK landed \in SUBSET op[p].todo :
          denied' = [s \in SessionIds |->
                       IF s \in landed THEN op[p].at + RevocationWindow ELSE denied[s]]
    BY DEF Fails
  <2>2. \A s \in landed : sessions[s].user = op[p].user
    BY <1>1, <2>1 DEF NamesExist, Owned
  <2> QED
    BY <1>1, <2>1, <2>2
<1>4. Field(p) /\ AtMostMaxConcurrent' /\ ReplacedIsUsed' /\ RotationIsAChain'
  BY <1>2, <1>3, DenyingField
<1>5. faults' # 0
  BY <1>1, <1>2
<1> QED
  BY <1>1, <1>2, <1>4, <1>5, IdleIsSerial, SerialStep

-----------------------------------------------------------------------------
\* The store is as it was, and every call in progress where it was.
LEMMA CallsRest ==
  ASSUME SInv, UNCHANGED <<sessions, tokens, denied, signedUntil, faults>>,
         superseded \subseteq superseded', NEW p \in Procs,
         op[p].pc \notin Closing, SerialOK(op[p])',
         \A q \in Procs : q # p =>
            /\ op'[q].pc = op[q].pc /\ op'[q].user = op[q].user /\ op'[q].at = op[q].at
            /\ op'[q].session = op[q].session /\ op'[q].row = op[q].row
            /\ op'[q].token = op[q].token /\ op'[q].tokenRow = op[q].tokenRow
            /\ op'[q].listed = op[q].listed /\ op'[q].todo = op[q].todo
            /\ op'[q].until = op[q].until,
         IInv'
  PROVE  SInv'
<1>1. /\ sessions' = sessions /\ tokens' = tokens /\ denied' = denied
      /\ signedUntil' = signedUntil /\ faults' = faults
  OBVIOUS
<1>2. ASSUME NEW q \in Procs PROVE SerialOK(op[q])'
  <2>1. CASE q = p
    BY <2>1
  <2>2. CASE q # p
    <3>1. SerialOK(op[q])
      BY DEF SInv
    <3>2. Current(op[q])'
      <4>1. \A u : ActiveOf(u)' = ActiveOf(u)
        BY <1>1 DEF ActiveOf
      <4> QED
        BY <1>1, <2>2, <3>1, <4>1 DEF SerialOK, Current, HasRoom
    <3>3. Latest(op[q])'
      BY <1>1, <2>2, <3>1 DEF SerialOK, Latest, ActiveOf, Covers
    <3>4. Rotating(op[q])'
      BY <1>1, <2>2, <3>1 DEF SerialOK, Rotating
    <3> QED
      BY <3>2, <3>3, <3>4 DEF SerialOK
  <2> QED
    BY <2>1, <2>2
<1>3. RevokedIsClosed'
  <2> SUFFICES ASSUME faults' = 0, NEW s \in DOMAIN sessions', IsRevoked(sessions'[s])
               PROVE  \/ Shut(s)'
                      \/ \E q \in Procs : op'[q].pc \in Closing /\ op'[q].session = s
    BY DEF RevokedIsClosed
  <2>1. \/ Shut(s)
        \/ \E q \in Procs : op[q].pc \in Closing /\ op[q].session = s
    BY <1>1 DEF SInv, RevokedIsClosed
  <2>2. ASSUME NEW q \in Procs, op[q].pc \in Closing, op[q].session = s
        PROVE  op'[q].pc \in Closing /\ op'[q].session = s
    <3>1. q # p
      BY <2>2
    <3> QED
      BY <2>2, <3>1
  <2> QED
    BY <1>1, <2>1, <2>2 DEF Shut
<1>4. AtMostMaxConcurrent'
  <2>1. \A u : ActiveOf(u)' = ActiveOf(u)
    BY <1>1 DEF ActiveOf
  <2> QED
    BY <2>1 DEF SInv, AtMostMaxConcurrent
<1>5. ReplacedIsUsed' /\ RotationIsAChain'
  BY <1>1, TokensRest
<1> QED
  BY <1>2, <1>3, <1>4, <1>5 DEF SInv

\* The clock moves on, or nothing happens.
LEMMA TickingStaysSerial ==
  ASSUME SInv, IInv', UNCHANGED <<sessions, tokens, denied, signedUntil, faults, superseded, op>> PROVE SInv'
<1>1. /\ sessions' = sessions /\ tokens' = tokens /\ denied' = denied
      /\ signedUntil' = signedUntil /\ faults' = faults /\ op' = op
      /\ superseded' = superseded
  OBVIOUS
<1>2. ASSUME NEW q \in Procs PROVE SerialOK(op[q])'
  <2>1. SerialOK(op[q])
    BY DEF SInv
  <2>2. Current(op[q])'
    BY <1>1, <2>1 DEF SerialOK, Current, HasRoom, ActiveOf
  <2>3. Latest(op[q])'
    BY <1>1, <2>1 DEF SerialOK, Latest, ActiveOf, Covers
  <2>4. Rotating(op[q])'
    BY <1>1, <2>1 DEF SerialOK, Rotating
  <2> QED
    BY <2>2, <2>3, <2>4 DEF SerialOK
<1>3. AtMostMaxConcurrent'
  <2>1. \A u : ActiveOf(u)' = ActiveOf(u)
    BY <1>1 DEF ActiveOf
  <2> QED
    BY <2>1 DEF SInv, AtMostMaxConcurrent
<1>4. RevokedIsClosed' /\ ReplacedIsUsed' /\ RotationIsAChain'
  BY <1>1 DEF SInv, RevokedIsClosed, Shut, ReplacedIsUsed, RotationIsAChain
<1> QED
  BY <1>2, <1>3, <1>4 DEF SInv

\* A call that takes its time as it arrives is later than every token signed.
LEMMA BeginningStaysSerial ==
  ASSUME SInv, IInv', NEW p \in Procs, NEW c \in Calls, Begin(p, c),
         c.pc \in {"list", "open", "everyList", "findToken", "logoutFind"},
         superseded \subseteq superseded', c.pc = "logoutFind" => Covers(c)',
         c.pc = "open" => MaxConcurrentSessions = 0,
         c.pc \in {"list", "everyList"} => c.at = now
  PROVE  SInv'
<1>1. /\ op \in [Procs -> Calls] /\ op[p].pc = "idle" /\ DOMAIN sessions \subseteq SessionIds
      /\ \A s \in SessionIds : signedUntil[s] <= now + AccessTtl
  BY DEF SInv, IInv, TypeOK, StoreTypeOK, FinalIsClosed, Begin
<1>2. /\ sessions' = sessions /\ tokens' = tokens /\ denied' = denied
      /\ signedUntil' = signedUntil /\ faults' = faults
  BY DEF Begin, storeVars
<1>3. PICK a \in BOOLEAN : op'[p] = [c EXCEPT !.alone = a]
  BY DEF Begin
<1>4. op'[p].pc = c.pc /\ op'[p].user = c.user /\ op'[p].at = c.at
      /\ op'[p].session = c.session /\ op'[p].until = c.until
  BY <1>3 DEF Calls
<1>5. SerialOK(op[p])'
  <2>1. Current(op[p])'
    BY <1>4, WindowAssumption DEF Current, HoldsSession, HoldsToken, Serving
  <2>2. Latest(op[p])'
    BY <1>1, <1>2, <1>4 DEF Latest, Ending, Covers
  <2>3. Rotating(op[p])'
    BY <1>4 DEF Rotating
  <2> QED
    BY <2>1, <2>2, <2>3 DEF SerialOK
<1>6. ASSUME NEW q \in Procs, q # p
      PROVE  /\ op'[q].pc = op[q].pc /\ op'[q].user = op[q].user /\ op'[q].at = op[q].at
             /\ op'[q].session = op[q].session /\ op'[q].row = op[q].row
             /\ op'[q].token = op[q].token /\ op'[q].tokenRow = op[q].tokenRow
             /\ op'[q].listed = op[q].listed /\ op'[q].todo = op[q].todo
             /\ op'[q].until = op[q].until
  <2>1. op'[q] = op[q] \/ op'[q] = [op[q] EXCEPT !.alone = FALSE]
    BY <1>6 DEF Begin
  <2>2. op[q] \in Calls
    BY <1>1
  <2> QED
    BY <2>1, <2>2 DEF Calls
<1> QED
  BY <1>1, <1>2, <1>5, <1>6, CallsRest DEF Closing

\* The four calls.
LEMMA CallStaysSerial ==
  ASSUME SInv, IInv', NEW p \in Procs, Call(p) PROVE SInv'
<1>1. /\ now \in Nat \ {0} /\ DOMAIN sessions \subseteq SessionIds /\ DOMAIN tokens \subseteq TokenIds
      /\ \A s \in DOMAIN sessions : sessions[s].user \in Users
      /\ \A t \in DOMAIN tokens : tokens[t].session \in DOMAIN sessions
      /\ held \subseteq DOMAIN tokens
  BY DEF SInv, IInv, TypeOK, StoreTypeOK, SessionRows
<1>2. ASSUME NEW user \in Users, Issue(p, user) PROVE SInv'
  <2> DEFINE c == [Idle EXCEPT !.pc = IF MaxConcurrentSessions > 0 THEN "list" ELSE "open",
                               !.user = user, !.at = now]
  <2>1. c \in Calls
    BY <1>1 DEF Idle, Calls, Pcs, Never, NoSession, NoToken
  <2>2. c.pc = (IF MaxConcurrentSessions > 0 THEN "list" ELSE "open") /\ c.at = now
    BY DEF Idle
  <2>3. Begin(p, c) /\ superseded' = superseded
    BY <1>2 DEF Issue
  <2> HIDE DEF c
  <2> QED
    BY <2>1, <2>2, <2>3, BeginningStaysSerial, WindowAssumption
<1>3. ASSUME NEW user \in Users, LogoutEverywhere(p, user) PROVE SInv'
  <2> DEFINE c == [Idle EXCEPT !.pc = "everyList", !.user = user, !.at = now]
  <2>1. c \in Calls /\ c.pc = "everyList" /\ c.at = now
    BY <1>1 DEF Idle, Calls, Pcs, Never, NoSession, NoToken
  <2>2. Begin(p, c) /\ superseded' = superseded
    BY <1>3 DEF LogoutEverywhere
  <2> HIDE DEF c
  <2> QED
    BY <2>1, <2>2, BeginningStaysSerial
<1>4. ASSUME NEW t \in held, Refresh(p, t) PROVE SInv'
  <2> DEFINE c == [Idle EXCEPT !.pc = "findToken", !.token = t,
                               !.user = sessions[tokens[t].session].user]
  <2>1. c \in Calls /\ c.pc = "findToken"
    BY <1>1 DEF Idle, Calls, Pcs, Never, NoSession, NoToken
  <2>2. Begin(p, c) /\ superseded' = superseded
    BY <1>4 DEF Refresh
  <2> HIDE DEF c
  <2> QED
    BY <2>1, <2>2, BeginningStaysSerial
<1>5. ASSUME NEW s \in DOMAIN sessions, NEW until \in {Never} \union Presentable(s),
             Logout(p, s, until)
      PROVE  SInv'
  <2>1. PICK c : c = [Idle EXCEPT !.pc = "logoutFind", !.session = s, !.user = sessions[s].user,
                                  !.until = until]
    OBVIOUS
  <2>2. c \in Calls
    <3>1. until \in Nat
      BY <1>1, <1>5 DEF Presentable, SInv, IInv, TypeOK, Never
    <3> QED
      BY <1>1, <1>5, <2>1, <3>1 DEF Idle, Calls, Pcs, Never, NoSession, NoToken
  <2>3. c.pc = "logoutFind" /\ c.session = s /\ c.until = until
    BY <2>1 DEF Idle
  <2>4. Begin(p, c) /\ superseded \subseteq superseded' /\ signedUntil' = signedUntil
    BY <1>5, <2>1 DEF Logout, Begin, storeVars
  <2>5. Covers(c)'
    <3>1. signedUntil[s] \in Nat /\ until \in Nat
      BY <1>1, <1>5 DEF Presentable, SInv, IInv, TypeOK, StoreTypeOK, Never
    <3> QED
      BY <1>5, <2>3, <2>4, <3>1 DEF Logout, Covers
  <2> QED
    BY <2>2, <2>3, <2>4, <2>5, BeginningStaysSerial
<1> QED
  BY <1>2, <1>3, <1>4, <1>5 DEF Call

\* One step of the call in progress.
LEMMA ContinueStaysSerial ==
  ASSUME SInv, OneCallPerUser, IInv', NEW p \in Procs, Continue(p) PROVE SInv'
<1>1. CASE Evict(p) \/ RevokeReused(p) \/ LogoutSave(p)
  BY <1>1, RevokingStaysSerial DEF Evict, RevokeReused, LogoutSave
<1>2. CASE ListForEviction(p) \/ FindToken(p) \/ FindReused(p) \/ FindCurrent(p)
             \/ Reject(p) \/ LogoutFind(p) \/ ListForLogout(p)
  BY <1>2, ReadsStaySerial
<1>3. CASE SaveSession(p) \/ SaveFirstToken(p) \/ SignAndReturn(p)
             \/ MarkTokenUsed(p) \/ SaveNextToken(p) \/ SaveTouched(p)
  BY <1>3, OpeningStaysSerial, FirstTokenStaysSerial, SigningStaysSerial, MarkingStaysSerial,
     NextTokenStaysSerial, TouchingStaysSerial
<1>4. CASE DenyEvicted(p) \/ DenyReused(p) \/ LogoutDeny(p) \/ DenyListed(p) \/ UpdateAll(p)
  BY <1>4, ClosingStaysSerial, DenyListedStaysSerial, UpdateAllStaysSerial
<1> QED
  BY <1>1, <1>2, <1>3, <1>4 DEF Continue

\* Every step, taken while no two calls of a user overlap.
LEMMA SerialKeeps == ASSUME SInv, OneCallPerUser, IInv', [Next]_vars PROVE SInv'
<1>1. CASE \E p \in Procs : Call(p) \/ Continue(p) \/ Fails(p)
  BY <1>1, CallStaysSerial, ContinueStaysSerial, FailingStaysSerial
<1>2. CASE Tick /\ UNCHANGED opVars
  BY <1>2, TickingStaysSerial DEF Tick, opVars
<1>3. CASE UNCHANGED vars
  BY <1>3, TickingStaysSerial DEF vars, storeVars, opVars
<1> QED
  BY <1>1, <1>2, <1>3 DEF Next

\* The serial invariant is inductive as long as no two calls of a user overlap.
THEOREM SerialInductive == Spec /\ []OneCallPerUser => []SInv
<1>1. Init => SInv
  BY SerialInit
<1>2. SInv /\ OneCallPerUser /\ IInv' /\ [Next]_vars => SInv'
  BY SerialKeeps
<1> QED
  BY <1>1, <1>2, Inductive, PTL DEF Spec

\* The eviction loop keeps its promise, "at most N active sessions holds after every
\* step", whatever the calls of other users do, fails or expires, as long as the calls of
\* one user come one after the other.
THEOREM LimitIsKept == Spec /\ []OneCallPerUser => []AtMostMaxConcurrent
<1>1. SInv => AtMostMaxConcurrent
  BY DEF SInv
<1> QED
  BY <1>1, SerialInductive, PTL

\* Refresh tokens are single-use per rotation when the calls of one user come one after
\* the other, failures in the middle of a rotation included.
THEOREM RotationsAreChains == Spec /\ []OneCallPerUser => []RotationIsAChain
<1>1. SInv => RotationIsAChain
  BY DEF SInv
<1> QED
  BY <1>1, SerialInductive, PTL

\* Every revocation of eviction, reuse detection and logout closes the access tokens of
\* its session, as long as nothing failed and the calls of one user do not overlap.
THEOREM RevocationsDeny == Spec /\ []OneCallPerUser => []RevokedIsDenied
<1>1. SInv => RevokedIsDenied
  <2> SUFFICES ASSUME SInv, faults = 0, \A p \in Procs : op[p].pc = "idle",
                      NEW s \in DOMAIN sessions \ superseded, IsRevoked(sessions[s])
               PROVE  ~Accepted(s)
    BY DEF RevokedIsDenied
  <2>1. Shut(s)
    BY DEF SInv, RevokedIsClosed, Closing
  <2>2. signedUntil[s] \in Nat /\ denied[s] \in Nat /\ now \in Nat
    BY DEF SInv, IInv, TypeOK, StoreTypeOK
  <2> QED
    BY <2>1, <2>2 DEF Accepted, IsDenied, Shut
<1> QED
  BY <1>1, SerialInductive, PTL

\* A write of a session row that was revoked leaves its time: the copy that is written
\* back is the stored row, Revoke returns a revoked session as it is, and a row that is
\* touched was not revoked.
THEOREM RevocationTimeIsKept == Spec /\ []OneCallPerUser => RevokedAtIsKept
<1>1. SInv /\ OneCallPerUser /\ [Next]_vars =>
        [\A s \in DOMAIN sessions :
           IsRevoked(sessions[s]) => sessions'[s].revokedAt = sessions[s].revokedAt]_vars
  <2> SUFFICES ASSUME SInv, Next, NEW s \in DOMAIN sessions, IsRevoked(sessions[s])
               PROVE  sessions'[s].revokedAt = sessions[s].revokedAt
    OBVIOUS
  <2>1. ASSUME NEW p \in Procs, NEW from \in {"evict", "reuse", "logout"}, NEW to,
               SaveRevoked(p, from, to)
        PROVE  sessions'[s] = sessions[s]
    <3>1. op[p].row = sessions[op[p].session]
      BY <2>1 DEF SInv, SerialOK, Current, SaveRevoked, HoldsSession
    <3>2. Save(op[p].session, Revoke(op[p].row, op[p].at))
      BY <2>1 DEF SaveRevoked
    <3>3. CASE s = op[p].session
      BY <3>1, <3>2, <3>3 DEF Save, Upsert, Revoke
    <3>4. CASE s # op[p].session
      BY <3>2, <3>4 DEF Save, Upsert
    <3> QED
      BY <3>3, <3>4
  <2>2. ASSUME NEW p \in Procs, SaveTouched(p) PROVE sessions'[s] = sessions[s]
    <3>1. ~IsRevoked(sessions[op[p].session])
      BY <2>2 DEF SInv, SerialOK, Current, SaveTouched, Serving
    <3> QED
      BY <2>2, <3>1 DEF SaveTouched, Save, Upsert
  <2>3. ASSUME NEW p \in Procs, SaveSession(p) PROVE sessions'[s] = sessions[s]
    BY <2>3 DEF SaveSession, Fresh, Save, Upsert
  <2>4. ASSUME NEW p \in Procs, UpdateAll(p) PROVE sessions'[s] = sessions[s]
    BY <2>4 DEF UpdateAll, RevokeAllForUser, ActiveOf
  <2>5. ASSUME NEW p \in Procs, Call(p) \/ Fails(p) PROVE sessions' = sessions
    BY <2>5 DEF Call, Issue, Refresh, Logout, LogoutEverywhere, Begin, Fails, storeVars
  <2>6. ASSUME NEW p \in Procs,
               \/ ListForEviction(p) \/ DenyEvicted(p) \/ SaveFirstToken(p) \/ SignAndReturn(p)
               \/ FindToken(p) \/ FindReused(p) \/ FindCurrent(p) \/ Reject(p) \/ DenyReused(p)
               \/ MarkTokenUsed(p) \/ SaveNextToken(p) \/ LogoutFind(p) \/ LogoutDeny(p)
               \/ ListForLogout(p) \/ DenyListed(p)
        PROVE  sessions' = sessions
    BY <2>6 DEF ListForEviction, DenyEvicted, SaveFirstToken, SignAndReturn, FindToken, FindReused,
       FindCurrent, FindSession, Reject, DenyReused, MarkTokenUsed, SaveNextToken, LogoutFind, LogoutDeny,
       ListForLogout, DenyListed, storeVars
  <2>7. CASE Tick
    BY <2>7 DEF Tick
  <2>8. ASSUME NEW p \in Procs, Continue(p) PROVE sessions'[s] = sessions[s]
    BY <2>1, <2>2, <2>3, <2>4, <2>6, <2>8 DEF Continue, Evict, RevokeReused, LogoutSave
  <2> QED
    BY <2>5, <2>7, <2>8 DEF Next
<1> QED
  BY <1>1, SerialInductive, PTL DEF Spec, RevokedAtIsKept
-----------------------------------------------------------------------------
(***************************************************************************)
(* The eviction loop goes round only with cause.  What a login may still   *)
(* evict is what is active (Caused): a session written back by another     *)
(* call adds one to both, a revocation takes one off both.                 *)
(***************************************************************************)

\* What a loop may evict it has cause for; what is revoked is revoked at some time.
Caused(p) ==
    /\ op[p].pc \in {"list", "evictDeny"} => Cardinality(ActiveOf(op[p].user)) <= earned[p]
    /\ op[p].pc = "evict" => Cardinality(ActiveOf(op[p].user) \ {op[p].session}) < earned[p]
    /\ op[p].pc \in Evicting \union {"reuse"} => op[p].at # Never

EveryCaused == \A p \in Procs : Caused(p)

\* A call that stands still keeps its cause while sessions end, and while each one that
\* becomes active is counted.
LEMMA StandingStillIsCaused ==
  ASSUME IInv, EveryCaused, NEW q \in Procs, NEW u, u = op[q].user,
         /\ op'[q].pc = op[q].pc /\ op'[q].user = op[q].user
         /\ op'[q].session = op[q].session /\ op'[q].at = op[q].at,
         \/ ActiveOf(u)' \subseteq ActiveOf(u) /\ earned'[q] = earned[q]
         \/ \E s : /\ ActiveOf(u)' = ActiveOf(u) \union {s}
                   /\ earned'[q] = earned[q] + 1
  PROVE  Caused(q)'
<1> PICK x : x = op[q].session
  OBVIOUS
<1>0. u = op'[q].user /\ x = op'[q].session
  OBVIOUS
<1>1. PICK A, B : A = ActiveOf(u) /\ B = ActiveOf(u)'
  OBVIOUS
<1>2. earned[q] \in Int
  BY DEF IInv, TypeOK
<1>3. /\ op[q].pc \in {"list", "evictDeny"} => Cardinality(A) <= earned[q]
      /\ op[q].pc = "evict" => Cardinality(A \ {x}) < earned[q]
      /\ op[q].pc \in Evicting \union {"reuse"} => op[q].at # Never
  BY <1>1 DEF EveryCaused, Caused
<1>4. /\ op[q].pc \in {"list", "evictDeny"} => Cardinality(B) <= earned'[q]
      /\ op[q].pc = "evict" => Cardinality(B \ {x}) < earned'[q]
  <2>1. CASE ActiveOf(u)' \subseteq ActiveOf(u) /\ earned'[q] = earned[q]
    <3>1. B \subseteq A /\ B \ {x} \subseteq A \ {x} /\ earned'[q] = earned[q]
      BY <1>1, <1>0, <2>1
    <3>2. IsFiniteSet(A) /\ IsFiniteSet(A \ {x})
      BY <1>1, ActiveIsFinite, FS_RemoveElement
    <3>3. Cardinality(B) <= Cardinality(A) /\ Cardinality(B \ {x}) <= Cardinality(A \ {x})
      BY <3>1, <3>2, FS_Subset
    <3>4. /\ Cardinality(A) \in Nat /\ Cardinality(A \ {x}) \in Nat
          /\ Cardinality(B) \in Nat /\ Cardinality(B \ {x}) \in Nat
      BY <3>1, <3>2, FS_Subset, FS_CardinalityType
    <3> QED  BY <1>2, <1>3, <3>1, <3>3, <3>4
  <2>2. ASSUME NEW s, ActiveOf(u)' = ActiveOf(u) \union {s},
               earned'[q] = earned[q] + 1
        PROVE  /\ op[q].pc \in {"list", "evictDeny"} => Cardinality(B) <= earned'[q]
               /\ op[q].pc = "evict" => Cardinality(B \ {x}) < earned'[q]
    <3>1. B = A \union {s} /\ B \ {x} \subseteq (A \ {x}) \union {s}
      BY <1>1, <1>0, <2>2
    <3>2. IsFiniteSet(A) /\ IsFiniteSet(A \ {x})
      BY <1>1, ActiveIsFinite, FS_RemoveElement
    <3>3. /\ IsFiniteSet(B) /\ Cardinality(B) <= Cardinality(A) + 1
          /\ Cardinality(A) \in Nat /\ Cardinality(B) \in Nat
      <4>1. /\ IsFiniteSet(A \union {s})
            /\ Cardinality(A \union {s}) = IF s \in A THEN Cardinality(A) ELSE Cardinality(A) + 1
        BY <3>2, FS_AddElement
      <4>2. Cardinality(A) \in Nat /\ Cardinality(A \union {s}) \in Nat
        BY <3>2, <4>1, FS_CardinalityType
      <4> QED  BY <3>1, <4>1, <4>2
    <3>4. /\ Cardinality(B \ {x}) <= Cardinality(A \ {x}) + 1
          /\ Cardinality(A \ {x}) \in Nat /\ Cardinality(B \ {x}) \in Nat
      <4> PICK C : C = A \ {x}
        OBVIOUS
      <4>1. /\ IsFiniteSet(C \union {s})
            /\ Cardinality(C \union {s}) = IF s \in C THEN Cardinality(C) ELSE Cardinality(C) + 1
        BY <3>2, FS_AddElement
      <4>2. Cardinality(C) \in Nat /\ Cardinality(C \union {s}) \in Nat
        BY <3>2, <4>1, FS_CardinalityType
      <4>3. IsFiniteSet(B \ {x}) /\ Cardinality(B \ {x}) <= Cardinality(C \union {s})
        BY <3>1, <4>1, FS_Subset
      <4>4. Cardinality(B \ {x}) \in Nat
        BY <4>3, FS_CardinalityType
      <4> QED  BY <4>1, <4>2, <4>3, <4>4
    <3> QED  BY <1>2, <1>3, <2>2, <3>3, <3>4
  <2> QED  BY <2>1, <2>2
<1>5. Cardinality(ActiveOf(op[q].user))' = Cardinality(B)
      /\ Cardinality(ActiveOf(op[q].user) \ {op[q].session})' = Cardinality(B \ {x})
  BY <1>0, <1>1 DEF ActiveOf
<1> QED  BY <1>0, <1>1, <1>3, <1>4, <1>5 DEF Caused

\* A step of p that writes no session row counts nothing.
LEMMA RestIsCaused ==
  ASSUME IInv, EveryCaused, NEW p \in Procs, sessions' = sessions,
         \A q \in Procs : q # p => /\ op'[q].pc = op[q].pc /\ op'[q].user = op[q].user
                                   /\ op'[q].session = op[q].session /\ op'[q].at = op[q].at
                                   /\ earned'[q] = earned[q],
         Caused(p)'
  PROVE  EveryCaused'
<1> SUFFICES ASSUME NEW q \in Procs, q # p PROVE Caused(q)'
  BY DEF EveryCaused
<1> PICK u : u = op[q].user
  OBVIOUS
<1>1. ActiveOf(u)' \subseteq ActiveOf(u)
  BY DEF ActiveOf
<1> QED  BY <1>1, StandingStillIsCaused

\* A session row that is saved changes what is active of its user by that row.
LEMMA SavedActive ==
  ASSUME IInv, NEW s \in SessionIds, NEW row \in SessionRows, Save(s, row),
         s \in DOMAIN sessions => sessions[s].user = row.user
  PROVE  /\ \A u : u # row.user => ActiveOf(u)' = ActiveOf(u)
         /\ IsRevoked(row) => ActiveOf(row.user)' = ActiveOf(row.user) \ {s}
         /\ ~IsRevoked(row) => ActiveOf(row.user)' = ActiveOf(row.user) \union {s}
<1>1. /\ DOMAIN sessions' = DOMAIN sessions \union {s} /\ sessions'[s] = row
      /\ \A x \in DOMAIN sessions : x # s => sessions'[x] = sessions[x]
  BY DEF Save, Upsert
<1> QED  BY <1>1 DEF ActiveOf

\* A revocation takes one session off what is active.
LEMMA RevokingIsCaused ==
  ASSUME IInv, EveryCaused, NEW p \in Procs, NEW from \in {"evict", "reuse", "logout"}, NEW to,
         SaveRevoked(p, from, to),
         \A q \in Procs : q # p => earned'[q] = earned[q]
  PROVE  /\ \A q \in Procs : q # p => Caused(q)'
         /\ \A u : u = op[p].user => ActiveOf(u)' = ActiveOf(u) \ {op[p].session}
<1>1. op[p].pc = from /\ op[p] \in Calls /\ NamesExist(op[p]) /\ CallOK(op[p]) /\ Caused(p)
  BY DEF SaveRevoked, IInv, TypeOK, EveryCaused
<1>2. op[p].at \in Nat /\ op[p].at # Never
  BY <1>1 DEF Calls, Caused, Evicting, CallOK, KnowsFinal
<1>3. PICK s, row : s = op[p].session /\ row = Revoke(op[p].row, op[p].at)
  OBVIOUS
<1>4. s \in DOMAIN sessions /\ s \in SessionIds /\ sessions[s].user = op[p].user
      /\ op[p].row \in SessionRows /\ op[p].row.user = op[p].user
  BY <1>1, <1>3 DEF NamesExist, CallOK, Owned, HoldsSession, NamesSession, IInv, TypeOK, StoreTypeOK
<1>5. row \in SessionRows /\ row.user = op[p].user /\ IsRevoked(row)
  BY <1>2, <1>3, <1>4 DEF Revoke, IsRevoked, SessionRows
<1>6. Save(s, row) /\ op' = [op EXCEPT ![p].pc = to, ![p].row = NoSession,
                                       ![p].token = 0, ![p].tokenRow = NoToken]
  BY <1>3 DEF SaveRevoked
<1>7. /\ \A u : u # row.user => ActiveOf(u)' = ActiveOf(u)
      /\ ActiveOf(row.user)' = ActiveOf(row.user) \ {s}
  BY <1>4, <1>5, <1>6, SavedActive
<1>8. ASSUME NEW q \in Procs, q # p PROVE Caused(q)'
  <2> PICK u : u = op[q].user
    OBVIOUS
  <2>1. ActiveOf(u)' \subseteq ActiveOf(u)
    BY <1>7
  <2>2. op'[q] = op[q]
    BY <1>6, <1>8 DEF IInv, TypeOK
  <2> QED  BY <1>8, <2>1, <2>2, StandingStillIsCaused
<1> QED  BY <1>3, <1>5, <1>7, <1>8

\* A session that is opened or brought back is counted by the loops of its user.
LEMMA EarningIsCaused ==
  ASSUME IInv, EveryCaused, NEW p \in Procs, NEW s \in SessionIds, NEW row \in SessionRows,
         Save(s, row), Earn(s, row), s \in DOMAIN sessions => sessions[s].user = row.user,
         \A q \in Procs : q # p => op'[q] = op[q],
         op'[p].pc \notin Evicting \union {"reuse"}
  PROVE  EveryCaused'
<1> SUFFICES ASSUME NEW q \in Procs PROVE Caused(q)'
  BY DEF EveryCaused
<1>1. CASE q = p
  BY <1>1 DEF Caused, Evicting
<1>2. CASE q # p
  <2> PICK u : u = op[q].user
    OBVIOUS
  <2>1. /\ \A v : v # row.user => ActiveOf(v)' = ActiveOf(v)
        /\ IsRevoked(row) => ActiveOf(row.user)' = ActiveOf(row.user) \ {s}
        /\ ~IsRevoked(row) => ActiveOf(row.user)' = ActiveOf(row.user) \union {s}
    BY SavedActive
  <2>2. earned'[q] = IF /\ op[q].pc \in Evicting /\ op[q].user = row.user
                        /\ s \notin ActiveOf(row.user) /\ ~IsRevoked(row)
                     THEN earned[q] + 1 ELSE earned[q]
    BY DEF Earn
  <2>3. CASE /\ op[q].pc \in Evicting /\ op[q].user = row.user
             /\ s \notin ActiveOf(row.user) /\ ~IsRevoked(row)
    <3>1. ActiveOf(u)' = ActiveOf(u) \union {s} /\ earned'[q] = earned[q] + 1
      BY <2>1, <2>2, <2>3
    <3> QED  BY <1>2, <3>1, StandingStillIsCaused
  <2>4. CASE op[q].pc \notin Evicting
    BY <1>2, <2>4 DEF Caused, Evicting, EveryCaused
  <2>5. CASE ~(/\ op[q].user = row.user /\ s \notin ActiveOf(row.user) /\ ~IsRevoked(row))
    <3>1. ActiveOf(u)' \subseteq ActiveOf(u) /\ earned'[q] = earned[q]
      BY <2>1, <2>2, <2>5
    <3> QED  BY <1>2, <3>1, StandingStillIsCaused
  <2> QED  BY <2>3, <2>4, <2>5
<1> QED  BY <1>1, <1>2

\* The loop itself: it looks, revokes, and looks again.
LEMMA LoopIsCaused ==
  ASSUME IInv, EveryCaused, NEW p \in Procs, ListForEviction(p) \/ Evict(p) \/ DenyEvicted(p)
  PROVE  EveryCaused'
<1>1. op = [q \in Procs |-> op[q]] /\ op[p] \in Calls /\ earned \in [Procs -> Int] /\ Caused(p)
  BY DEF IInv, TypeOK, EveryCaused
<1>2. PICK u : u = op[p].user
  OBVIOUS
<1>3. IsFiniteSet(ActiveOf(u)) /\ Cardinality(ActiveOf(u)) \in Nat
  BY ActiveIsFinite
<1>4. CASE ListForEviction(p)
  <2>1. /\ sessions' = sessions /\ op[p].pc = "list"
        /\ \A q \in Procs : q # p => op'[q] = op[q] /\ earned'[q] = earned[q]
    BY <1>1, <1>4 DEF ListForEviction, storeVars
  <2>2. CASE op'[p].pc = "open"
    BY <2>1, <2>2, RestIsCaused DEF Caused, Evicting
  <2>3. ASSUME NEW s \in ActiveOf(u), op'[p].pc = "evict", op'[p].user = u, op'[p].session = s,
               op'[p].at = op[p].at, earned'[p] = earned[p]
        PROVE  EveryCaused'
    <3>1. Cardinality(ActiveOf(u)) <= earned[p] /\ op[p].at # Never
      BY <1>1, <1>2, <2>1 DEF Caused, Evicting
    <3>2. Cardinality(ActiveOf(u) \ {s}) = Cardinality(ActiveOf(u)) - 1
      BY <1>3, <2>3, FS_RemoveElement
    <3>3. Cardinality(ActiveOf(u) \ {s}) < earned'[p]
      BY <1>1, <1>3, <2>3, <3>1, <3>2
    <3>4. Cardinality(ActiveOf(op[p].user) \ {op[p].session})' = Cardinality(ActiveOf(u) \ {s})
      BY <2>1, <2>3 DEF ActiveOf
    <3>5. Caused(p)'
      BY <2>3, <3>1, <3>3, <3>4 DEF Caused
    <3> QED  BY <2>1, <3>5, RestIsCaused
  <2>4. \/ op'[p].pc = "open"
        \/ \E s \in ActiveOf(u) : /\ op'[p].pc = "evict" /\ op'[p].user = u /\ op'[p].session = s
                                  /\ op'[p].at = op[p].at /\ earned'[p] = earned[p]
    <3>1. CASE op' = [op EXCEPT ![p].pc = "open"]
      BY <1>1, <3>1 DEF Calls
    <3>2. ASSUME NEW s \in Oldest(ActiveOf(u)), earned' = earned,
                 op' = [op EXCEPT ![p].pc = "evict", ![p].session = s, ![p].row = sessions[s]]
          PROVE  /\ s \in ActiveOf(u) /\ op'[p].pc = "evict" /\ op'[p].user = u
                 /\ op'[p].session = s /\ op'[p].at = op[p].at /\ earned'[p] = earned[p]
      <4>1. s \in ActiveOf(u)
        BY <3>2 DEF Oldest
      <4>2. op'[p] = [op[p] EXCEPT !.pc = "evict", !.session = s, !.row = sessions[s]]
        BY <1>1, <3>2
      <4> QED  BY <1>1, <1>2, <3>2, <4>1, <4>2 DEF Calls
    <3> QED  BY <1>2, <1>4, <3>1, <3>2 DEF ListForEviction
  <2> QED  BY <2>2, <2>3, <2>4
<1>5. CASE Evict(p)
  <2>1. /\ SaveRevoked(p, "evict", "evictDeny") /\ op[p].pc = "evict"
        /\ \A q \in Procs : q # p => earned'[q] = earned[q]
        /\ earned'[p] = earned[p] - 1
    BY <1>1, <1>5 DEF Evict, SaveRevoked
  <2>2. /\ \A q \in Procs : q # p => Caused(q)'
        /\ ActiveOf(u)' = ActiveOf(u) \ {op[p].session}
    BY <1>2, <2>1, RevokingIsCaused
  <2>3. op'[p].pc = "evictDeny" /\ op'[p].user = u /\ op'[p].at = op[p].at
    BY <1>1, <1>2, <2>1 DEF SaveRevoked, Calls
  <2>4. Cardinality(ActiveOf(u) \ {op[p].session}) < earned[p] /\ op[p].at # Never
    BY <1>1, <1>2, <2>1 DEF Caused, Evicting
  <2>5. Cardinality(ActiveOf(u) \ {op[p].session}) \in Nat
    BY <1>3, FS_RemoveElement, FS_CardinalityType
  <2>6. Cardinality(ActiveOf(op[p].user))' = Cardinality(ActiveOf(u)')
    BY <2>3 DEF ActiveOf
  <2>7. Cardinality(ActiveOf(u)') <= earned'[p]
    BY <1>1, <2>1, <2>2, <2>4, <2>5
  <2>8. Caused(p)'
    BY <2>3, <2>4, <2>6, <2>7 DEF Caused
  <2> QED  BY <2>2, <2>8 DEF EveryCaused
<1>6. CASE DenyEvicted(p)
  <2>1. /\ sessions' = sessions /\ op[p].pc = "evictDeny" /\ earned' = earned
        /\ \A q \in Procs : q # p => op'[q] = op[q]
        /\ op'[p].pc = "list" /\ op'[p].user = u /\ op'[p].at = op[p].at
    BY <1>1, <1>2, <1>6 DEF DenyEvicted, Calls
  <2>2. Cardinality(ActiveOf(op[p].user))' = Cardinality(ActiveOf(u))
    BY <2>1 DEF ActiveOf
  <2>3. Caused(p)'
    BY <1>1, <1>2, <2>1, <2>2 DEF Caused, Evicting
  <2> QED  BY <2>1, <2>3, RestIsCaused
<1> QED  BY <1>4, <1>5, <1>6

\* The other statements of a call.
LEMMA ContinuingIsCaused ==
  ASSUME IInv, EveryCaused, NEW p \in Procs, Continue(p)
  PROVE  EveryCaused'
<1>1. op = [q \in Procs |-> op[q]] /\ op[p] \in Calls /\ NamesExist(op[p]) /\ CallOK(op[p])
      /\ now \in Nat \ {0}
  BY DEF IInv, TypeOK, StoreTypeOK
<1>2. CASE \/ SaveFirstToken(p) \/ SignAndReturn(p) \/ FindToken(p) \/ FindReused(p) \/ FindCurrent(p)
           \/ Reject(p) \/ DenyReused(p) \/ MarkTokenUsed(p) \/ SaveNextToken(p) \/ LogoutFind(p)
           \/ LogoutDeny(p) \/ ListForLogout(p) \/ DenyListed(p)
  <2>1. /\ sessions' = sessions /\ earned' = earned
        /\ \A q \in Procs : q # p => op'[q] = op[q]
    BY <1>1, <1>2 DEF SaveFirstToken, SignAndReturn, FindToken, FindReused, FindCurrent, FindSession,
       Reject, DenyReused, MarkTokenUsed, SaveNextToken, LogoutFind, LogoutDeny, ListForLogout,
       DenyListed, Return, storeVars
  <2>2. /\ op'[p].pc \notin Evicting
        /\ op'[p].pc = "reuse" => op'[p].at = now
    <3>1. ASSUME NEW to \in {"reuse", "mark"}, FindSession(p, to)
          PROVE  /\ op'[p].pc \notin Evicting
                 /\ op'[p].pc = "reuse" => op'[p].at = now
      <4>1. op'[p] = [op[p] EXCEPT !.pc = to, !.at = now, !.row = sessions[op[p].session]]
        BY <1>1, <3>1 DEF FindSession
      <4> QED  BY <1>1, <4>1 DEF Calls, Evicting
    <3>2. CASE FindToken(p) \/ LogoutFind(p) \/ ListForLogout(p)
      BY <1>1, <3>2 DEF FindToken, LogoutFind, ListForLogout, Calls, Evicting
    <3>3. CASE SignAndReturn(p) \/ Reject(p) \/ DenyReused(p) \/ LogoutDeny(p)
      BY <1>1, <3>3 DEF SignAndReturn, Reject, DenyReused, LogoutDeny, Return, Idle, Evicting
    <3>4. CASE MarkTokenUsed(p) \/ DenyListed(p)
      BY <1>1, <3>4 DEF MarkTokenUsed, DenyListed, Calls, Evicting
    <3>5. CASE SaveFirstToken(p)
      <4>1. PICK t : op' = [op EXCEPT ![p].pc = "sign", ![p].at = Never, ![p].token = t]
        BY <3>5 DEF SaveFirstToken
      <4>2. op'[p] = [op[p] EXCEPT !.pc = "sign", !.at = Never, !.token = t]
        BY <1>1, <4>1
      <4> QED  BY <1>1, <4>2 DEF Calls, Evicting
    <3>6. CASE SaveNextToken(p)
      <4>1. PICK t : op' = [op EXCEPT ![p].pc = "touch", ![p].token = t]
        BY <3>6 DEF SaveNextToken
      <4>2. op'[p] = [op[p] EXCEPT !.pc = "touch", !.token = t]
        BY <1>1, <4>1
      <4> QED  BY <1>1, <4>2 DEF Calls, Evicting
    <3> QED  BY <1>2, <3>1, <3>2, <3>3, <3>4, <3>5, <3>6 DEF FindReused, FindCurrent
  <2>3. Caused(p)'
    BY <1>1, <2>2 DEF Caused, Evicting, Never
  <2> QED  BY <2>1, <2>3, RestIsCaused
<1>3. CASE SaveSession(p)
  <2>1. PICK s \in Fresh(SessionIds, sessions) :
          /\ Save(s, Open(op[p].user, op[p].at)) /\ Earn(s, Open(op[p].user, op[p].at))
          /\ op' = [op EXCEPT ![p].pc = "first", ![p].session = s]
    BY <1>3 DEF SaveSession
  <2>2. PICK row : row = Open(op[p].user, op[p].at)
    OBVIOUS
  <2>3. row \in SessionRows
    BY <1>1, <1>3, <2>2, PolicyAssumption DEF SaveSession, Open, SessionRows, Calls, NamesExist, Never
  <2>4. s \in SessionIds /\ s \notin DOMAIN sessions
    BY DEF Fresh
  <2>5. /\ \A q \in Procs : q # p => op'[q] = op[q]
        /\ op'[p].pc = "first"
    BY <1>1, <2>1 DEF Calls
  <2>6. Save(s, row) /\ Earn(s, row)
    BY <2>1, <2>2
  <2> QED  BY <2>3, <2>4, <2>5, <2>6, EarningIsCaused DEF Evicting
<1>4. CASE SaveTouched(p)
  <2>1. PICK s, row : s = op[p].session /\ row = Touch(op[p].row, op[p].at)
    OBVIOUS
  <2>2. s \in DOMAIN sessions /\ s \in SessionIds /\ sessions[s].user = op[p].user
        /\ op[p].row \in SessionRows /\ op[p].row.user = op[p].user
    BY <1>1, <1>4, <2>1 DEF SaveTouched, NamesExist, CallOK, Owned, HoldsSession, NamesSession,
       IInv, TypeOK, StoreTypeOK
  <2>3. row \in SessionRows /\ row.user = op[p].user
    BY <1>1, <2>1, <2>2 DEF Touch, SessionRows, Calls
  <2>4. Save(s, row) /\ Earn(s, row)
    BY <1>4, <2>1 DEF SaveTouched
  <2>5. /\ \A q \in Procs : q # p => op'[q] = op[q]
        /\ op'[p].pc = "sign"
    BY <1>1, <1>4 DEF SaveTouched, Calls
  <2> QED  BY <2>2, <2>3, <2>4, <2>5, EarningIsCaused DEF Evicting
<1>5. ASSUME NEW from \in {"reuse", "logout"}, NEW to, to \in {"reuseDeny", "logoutDeny"},
             SaveRevoked(p, from, to), earned' = earned
      PROVE  EveryCaused'
  <2>1. \A q \in Procs : q # p => Caused(q)'
    BY <1>5, RevokingIsCaused
  <2>2. op'[p].pc = to
    BY <1>1, <1>5 DEF SaveRevoked, Calls
  <2>3. Caused(p)'
    BY <1>5, <2>2 DEF Caused, Evicting
  <2> QED  BY <2>1, <2>3 DEF EveryCaused
<1>6. CASE UpdateAll(p)
  <2>1. \A u : ActiveOf(u)' \subseteq ActiveOf(u)
    BY <1>6 DEF UpdateAll, RevokeAllForUser, ActiveOf, Revoke
  <2>2. /\ \A q \in Procs : q # p => op'[q] = op[q]
        /\ op'[p].pc = "idle" /\ earned' = earned
    BY <1>1, <1>6 DEF UpdateAll, Return, Idle
  <2>3. ASSUME NEW q \in Procs, q # p PROVE Caused(q)'
    <3> PICK u : u = op[q].user
      OBVIOUS
    <3> QED  BY <2>1, <2>2, <2>3, StandingStillIsCaused
  <2>4. Caused(p)'
    BY <2>2 DEF Caused, Evicting
  <2> QED  BY <2>3, <2>4 DEF EveryCaused
<1> QED  BY <1>2, <1>3, <1>4, <1>5, <1>6, LoopIsCaused DEF Continue, RevokeReused, LogoutSave

\* Calls that arrive or end.
LEMMA CallsAreCaused ==
  ASSUME IInv, EveryCaused, NEW p \in Procs, Call(p) \/ Fails(p)
  PROVE  EveryCaused'
<1>1. op = [q \in Procs |-> op[q]] /\ (\A q \in Procs : op[q] \in Calls) /\ now \in Nat \ {0}
      /\ earned \in [Procs -> Int]
  BY DEF IInv, TypeOK, StoreTypeOK
<1>2. CASE Fails(p)
  <2>1. /\ sessions' = sessions /\ op'[p].pc = "idle"
        /\ \A q \in Procs : q # p => op'[q] = op[q] /\ earned'[q] = earned[q]
    BY <1>1, <1>2 DEF Fails, Return, Idle
  <2>2. Caused(p)'
    BY <2>1 DEF Caused, Evicting
  <2> QED  BY <2>1, <2>2, RestIsCaused
<1>3. ASSUME NEW c \in Calls, Begin(p, c)
      PROVE  /\ sessions' = sessions
             /\ op'[p].pc = c.pc /\ op'[p].user = c.user /\ op'[p].at = c.at
             /\ \A q \in Procs : q # p =>
                  /\ op'[q].pc = op[q].pc /\ op'[q].user = op[q].user
                  /\ op'[q].session = op[q].session /\ op'[q].at = op[q].at
  BY <1>1, <1>3 DEF Begin, storeVars, Calls
<1>4. ASSUME NEW c \in Calls, Begin(p, c), c.pc \notin Evicting \union {"reuse"},
             \A q \in Procs : q # p => earned'[q] = earned[q]
      PROVE  EveryCaused'
  <2>1. Caused(p)'
    BY <1>3, <1>4 DEF Caused, Evicting
  <2> QED  BY <1>3, <1>4, <2>1, RestIsCaused
<1>5. ASSUME NEW user \in Users, Issue(p, user) PROVE EveryCaused'
  <2>1. PICK c : c = [Idle EXCEPT !.pc = IF MaxConcurrentSessions > 0 THEN "list" ELSE "open",
                                  !.user = user, !.at = now]
    OBVIOUS
  <2>2. c \in Calls /\ c.user = user /\ c.at = now
        /\ c.pc = (IF MaxConcurrentSessions > 0 THEN "list" ELSE "open")
    <3>1. c.user = user /\ c.at = now /\ c.pc = (IF MaxConcurrentSessions > 0 THEN "list" ELSE "open")
      BY <2>1 DEF Idle
    <3>2. PICK k \in {"list", "open"} : k = IF MaxConcurrentSessions > 0 THEN "list" ELSE "open"
      OBVIOUS
    <3>3. c = [Idle EXCEPT !.pc = k, !.user = user, !.at = now]
      BY <2>1, <3>2
    <3>4. c \in Calls
      BY <1>1, <1>5, <3>3, IdleIsFine DEF Calls, Pcs
    <3> QED  BY <3>1, <3>4
  <2>3. Begin(p, c) /\ \A q \in Procs : q # p => earned'[q] = earned[q]
    BY <1>1, <1>5, <2>1 DEF Issue
  <2>4. CASE MaxConcurrentSessions > 0
    <3>1. earned'[p] = Cardinality(ActiveOf(user)) /\ Cardinality(ActiveOf(user)) \in Nat
      BY <1>1, <1>5, <2>4, ActiveIsFinite DEF Issue
    <3>2. op'[p].pc = "list" /\ op'[p].user = user /\ op'[p].at = now /\ sessions' = sessions
      BY <1>3, <2>2, <2>3, <2>4
    <3>3. Cardinality(ActiveOf(op[p].user))' = Cardinality(ActiveOf(user))
      BY <3>2 DEF ActiveOf
    <3>4. Caused(p)'
      BY <1>1, <3>1, <3>2, <3>3 DEF Caused, Never
    <3> QED  BY <1>3, <2>2, <2>3, <3>4, RestIsCaused
  <2>5. CASE ~(MaxConcurrentSessions > 0)
    BY <1>4, <2>2, <2>3, <2>5 DEF Evicting
  <2> QED  BY <2>4, <2>5
<1>6. ASSUME NEW c, Begin(p, c), earned' = earned,
             \/ \E user \in Users : c = [Idle EXCEPT !.pc = "everyList", !.user = user, !.at = now]
             \/ \E t \in held : c = [Idle EXCEPT !.pc = "findToken", !.token = t,
                                     !.user = sessions[tokens[t].session].user]
             \/ \E s \in DOMAIN sessions, until \in Nat :
                  c = [Idle EXCEPT !.pc = "logoutFind", !.session = s, !.user = sessions[s].user,
                                   !.until = until]
      PROVE  EveryCaused'
  <2>1. /\ DOMAIN sessions \subseteq SessionIds /\ DOMAIN tokens \subseteq TokenIds
        /\ \A s \in DOMAIN sessions : sessions[s].user \in Users
        /\ \A t \in held : t \in DOMAIN tokens /\ tokens[t].session \in DOMAIN sessions
    BY DEF IInv, TypeOK, StoreTypeOK, SessionRows
  <2>2. c \in Calls /\ c.pc \in {"everyList", "findToken", "logoutFind"}
    <3>1. ASSUME NEW user \in Users, c = [Idle EXCEPT !.pc = "everyList", !.user = user, !.at = now]
          PROVE  c \in Calls /\ c.pc = "everyList"
      BY <1>1, <3>1, IdleIsFine DEF Calls, Pcs
    <3>2. ASSUME NEW t \in held, c = [Idle EXCEPT !.pc = "findToken", !.token = t,
                                     !.user = sessions[tokens[t].session].user]
          PROVE  c \in Calls /\ c.pc = "findToken"
      BY <2>1, <3>2, IdleIsFine DEF Calls, Pcs
    <3>3. ASSUME NEW s \in DOMAIN sessions, NEW until \in Nat,
                 c = [Idle EXCEPT !.pc = "logoutFind", !.session = s, !.user = sessions[s].user,
                                  !.until = until]
          PROVE  c \in Calls /\ c.pc = "logoutFind"
      BY <2>1, <3>3, IdleIsFine DEF Calls, Pcs
    <3> QED  BY <1>6, <3>1, <3>2, <3>3
  <2> QED  BY <1>4, <1>6, <2>2 DEF Evicting
<1>7. ASSUME NEW user \in Users, LogoutEverywhere(p, user) PROVE EveryCaused'
  BY <1>6, <1>7 DEF LogoutEverywhere
<1>8. ASSUME NEW t \in held, Refresh(p, t) PROVE EveryCaused'
  BY <1>6, <1>8 DEF Refresh
<1>9. ASSUME NEW s \in DOMAIN sessions, NEW until \in {Never} \union Presentable(s), Logout(p, s, until)
      PROVE  EveryCaused'
  <2>1. until \in Nat
    BY <1>9 DEF Presentable, IInv, TypeOK, StoreTypeOK, Never
  <2> QED  BY <1>6, <1>9, <2>1 DEF Logout
<1> QED  BY <1>2, <1>5, <1>7, <1>8, <1>9 DEF Call

\* A login revokes no more sessions in its eviction loop than its user had when it arrived
\* and were opened, or brought back by a refresh, since: the loop of issue-session.ts goes
\* round only with cause, however many calls run beside it.
THEOREM LoopsHaveCause == Spec => []EvictionsAreEarned
<1>1. Init => EveryCaused
  BY DEF Init, Idle, EveryCaused, Caused, Evicting
<1>2. IInv /\ EveryCaused /\ [Next]_vars => EveryCaused'
  <2> SUFFICES ASSUME IInv, EveryCaused, [Next]_vars PROVE EveryCaused'
    OBVIOUS
  <2>1. CASE \E p \in Procs : Call(p) \/ Continue(p) \/ Fails(p)
    BY <2>1, CallsAreCaused, ContinuingIsCaused
  <2>2. CASE UNCHANGED <<sessions, opVars>>
    BY <2>2 DEF opVars, EveryCaused, Caused, ActiveOf
  <2> QED  BY <2>1, <2>2 DEF Next, Tick, vars, storeVars
<1>3. IInv /\ EveryCaused => EvictionsAreEarned
  <2> SUFFICES ASSUME IInv, EveryCaused, NEW p \in Procs, op[p].pc = "evict" PROVE earned[p] > 0
    BY DEF EvictionsAreEarned
  <2>1. Cardinality(ActiveOf(op[p].user) \ {op[p].session}) < earned[p] /\ earned[p] \in Int
    BY DEF EveryCaused, Caused, IInv, TypeOK
  <2>2. Cardinality(ActiveOf(op[p].user) \ {op[p].session}) \in Nat
    BY ActiveIsFinite, FS_RemoveElement, FS_CardinalityType
  <2> QED  BY <2>1, <2>2
<1> QED  BY <1>1, <1>2, <1>3, Inductive, PTL DEF Spec
=============================================================================
