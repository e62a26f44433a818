------------------------------ MODULE Mfa_proof ------------------------------
(***************************************************************************)
(* ProofsAreSingleUse, RecoveryIsFinal and CounterNeverFalls for any users, *)
(* methods, codes, processes, calls and faults, and both kinds of store.   *)
(*                                                                         *)
(* ProofsAreSingleUse has two halves, by the tables that remember a use.   *)
(*   Challenges: one that was redeemed stays used, and no call that may    *)
(*   still redeem it is under way.  For WebAuthn that is because consuming *)
(*   one is a single step; for a login it is because the call that used it *)
(*   overlapped no other of its user.                                      *)
(*   Methods: a TOTP step that was accepted is not above the last step of  *)
(*   the shared object, which no call lowers; a backup code is in neither  *)
(*   the stored set nor any copy of it, since whoever holds a copy is a    *)
(*   call of the method's user.                                            *)
(* On top of that come the calls that overlap no other of their user: such *)
(* a recovery deletes all there is, and no call holds what it deleted; such *)
(* a ceremony knows the counter that is stored.                            *)
(***************************************************************************)
EXTENDS Mfa, SequenceTheorems, TLAPS

CallShape(c) ==
    {"pc", "user", "alone", "id", "row", "code", "codes", "seen"} \subseteq DOMAIN c

\* Calls and challenges are what they look like, and a call that is marked alone is.
Shapes ==
    /\ DOMAIN op = Procs
    /\ \A p \in Procs : CallShape(op[p])
    /\ Len(challenges) \in Nat
    /\ challenges = [c \in 1 .. Len(challenges) |-> challenges[c]]
    /\ \A c \in DOMAIN challenges : {"user", "used"} \subseteq DOMAIN challenges[c]

InCall(p) == op[p].pc # "idle"

AloneIsAlone ==
    \A p, q \in Procs : p # q /\ InCall(p) /\ InCall(q) /\ op[p].alone => op[q].user # op[p].user

-----------------------------------------------------------------------------
(* Challenges                                                              *)

LoginPcs   == {"loginFind", "loginSave", "loginIssue"}
ConsumePcs == {"registerFind", "assertFind", "registerConsume", "assertConsume"}
WonPcs     == {"registerCheck", "registerMethod", "registerSave", "assertRead", "assertRecord", "assertUse"}

Known(c)     == c \in DOMAIN challenges
KnownUsed(c) == c \in DOMAIN challenges /\ challenges[c].used

\* What a call knows of the challenge it was begun with.
Presented(p) ==
    /\ op[p].pc \in LoginPcs => Known(op[p].seen) /\ challenges[op[p].seen].user = op[p].user
    /\ op[p].pc = "loginIssue" => KnownUsed(op[p].seen)
    /\ op[p].pc \in ConsumePcs => Known(op[p].seen)
    /\ op[p].pc \in WonPcs => KnownUsed(op[p].seen)

\* Only one call has consumed a WebAuthn challenge.
WonOnce ==
    \A p, q \in Procs : op[p].pc \in WonPcs /\ op[q].pc \in WonPcs /\ op[p].seen = op[q].seen => p = q

\* A redeemed challenge is used, and nobody is about to redeem it.
RedeemedIsClosed ==
    \A c :
      /\ <<"login", c, 0>> \in spent =>
           KnownUsed(c) /\ \A q \in Procs : op[q].pc \in {"loginSave", "loginIssue"} => op[q].seen # c
      /\ <<"webauthn", c, 0>> \in spent =>
           KnownUsed(c) /\ \A q \in Procs : op[q].pc \in WonPcs => op[q].seen # c

CInv == Shapes /\ AloneIsAlone /\ (\A p \in Procs : Presented(p)) /\ WonOnce /\ RedeemedIsClosed

-----------------------------------------------------------------------------
(* Methods                                                                 *)

MethodShape(m) == {"user", "codes", "lastStep"} \subseteq DOMAIN m /\ m.lastStep \in Nat

OwnerPcs == {"totpFind", "confirmFind", "registerSave"}
RowPcs   == {"confirmRecord", "totpRecord", "backupSave", "assertRecord", "assertUse"}

\* A call works on a method of its user, through a copy of its user's method.
Owns(p) ==
    /\ op[p].code \in Nat
    /\ MethodShape(op[p].row)
    /\ op[p].pc \in OwnerPcs \union RowPcs =>
         op[p].id \in DOMAIN methods /\ methods[op[p].id].user = op[p].user
    /\ op[p].pc \in RowPcs /\ store # "memory" => op[p].row.user = op[p].user

Tables ==
    /\ store \in {"memory", "prisma"}
    /\ present \subseteq DOMAIN methods
    /\ \A i \in DOMAIN methods : MethodShape(methods[i])
    /\ \A d \in DOMAIN credentials :
         /\ {"user", "method", "counter"} \subseteq DOMAIN credentials[d]
         /\ credentials[d].method \in DOMAIN methods
         /\ methods[credentials[d].method].user = credentials[d].user

\* An accepted step is not above the last one the shared object has.
StepsAreBehind ==
    \A i, s : <<"totp", i, s>> \in spent =>
        store = "memory" /\ i \in DOMAIN methods /\ s \in Nat /\ s <= methods[i].lastStep

\* A call cannot store a code c of method i again.
Without(p, i, c) ==
    op[p].id = i =>
      /\ op[p].pc \in RowPcs /\ store # "memory" => c \notin op[p].row.codes
      /\ op[p].pc = "backupSave" => c \notin op[p].codes /\ op[p].code # c

\* An accepted code is in no set that is stored or can be stored again.
CodesAreGone ==
    \A i, c : <<"backup", i, c>> \in spent =>
        /\ i \in DOMAIN methods /\ c \notin methods[i].codes
        /\ \A q \in Procs : Without(q, i, c)

Spliced(p) == op[p].pc = "backupSave" => op[p].code \notin op[p].codes

MInv ==
    /\ Tables
    /\ \A p \in Procs : Owns(p) /\ Spliced(p)
    /\ StepsAreBehind
    /\ CodesAreGone

IInv == CInv /\ MInv /\ twice = {}

-----------------------------------------------------------------------------
\* Nothing was accepted yet, and the methods enrolled before belong to one user (StoreInit).
LEMMA InitHolds == Init => IInv
<1> SUFFICES ASSUME Init PROVE IInv
  OBVIOUS
<1>1. /\ op = [p \in Procs |-> Idle] /\ challenges = << >> /\ spent = {} /\ twice = {}
      /\ present = DOMAIN methods /\ store \in {"memory", "prisma"}
  BY DEF Init, StoreInit
<1>2. CInv
  BY <1>1 DEF CInv, Shapes, CallShape, AloneIsAlone, InCall, Presented, LoginPcs, ConsumePcs, WonPcs,
              WonOnce, RedeemedIsClosed, Idle
<1>3. MethodShape(NoMethod)
  BY DEF MethodShape, NoMethod, Method, NoStep
<1>4. Tables
  <2>1. CASE methods = << >> /\ credentials = << >>
    BY <1>1, <2>1 DEF Tables
  <2>2. ASSUME NEW u \in Users, NEW d \in Devices, NEW counter \in {0, 1},
               methods = << Activated(Method(u, "totp", {})),
                            Activated(Method(u, "backup_codes", Codes)),
                            Activated(Method(u, "webauthn", {})) >>,
               credentials = [k \in {d} |-> Credential(u, 3, counter)]
        PROVE  Tables
    <3>1. \A type, codes : /\ MethodShape(Activated(Method(u, type, codes)))
                           /\ Activated(Method(u, type, codes)).user = u
      BY DEF MethodShape, Method, Activated, NoStep
    <3>2. /\ DOMAIN methods = 1 .. 3
          /\ \A i \in 1 .. 3 : MethodShape(methods[i]) /\ methods[i].user = u
      BY <2>2, <3>1
    <3> QED
      BY <1>1, <2>2, <3>2 DEF Tables, Credential
  <2> QED
    BY <2>1, <2>2 DEF Init, StoreInit
<1>5. MInv
  BY <1>1, <1>3, <1>4 DEF MInv, Owns, Spliced, OwnerPcs, RowPcs, StepsAreBehind, CodesAreGone, Idle
<1> QED
  BY <1>1, <1>2, <1>5 DEF IInv

-----------------------------------------------------------------------------
\* Where nothing is redeemed, no used challenge becomes unused and no call comes upon one, the
\* redeemed challenges stay closed.
LEMMA ClosedStays ==
  ASSUME RedeemedIsClosed, spent' = spent,
         (\A c : KnownUsed(c) => KnownUsed(c)'),
         \A q \in Procs :
           /\ op'[q].pc \in {"loginSave", "loginIssue"} =>
                op[q].pc \in {"loginSave", "loginIssue"} /\ op'[q].seen = op[q].seen
           /\ op'[q].pc \in WonPcs => op[q].pc \in WonPcs /\ op'[q].seen = op[q].seen
  PROVE  RedeemedIsClosed'
<1>1. ASSUME NEW c, <<"login", c, 0>> \in spent'
      PROVE  KnownUsed(c)' /\ \A q \in Procs : op'[q].pc \in {"loginSave", "loginIssue"} => op'[q].seen # c
  <2>1. KnownUsed(c) /\ \A q \in Procs : op[q].pc \in {"loginSave", "loginIssue"} => op[q].seen # c
    BY <1>1 DEF RedeemedIsClosed
  <2> QED
    BY <2>1
<1>2. ASSUME NEW c, <<"webauthn", c, 0>> \in spent'
      PROVE  KnownUsed(c)' /\ \A q \in Procs : op'[q].pc \in WonPcs => op'[q].seen # c
  <2>1. KnownUsed(c) /\ \A q \in Procs : op[q].pc \in WonPcs => op[q].seen # c
    BY <1>2 DEF RedeemedIsClosed
  <2> QED
    BY <2>1
<1> QED
  BY <1>1, <1>2 DEF RedeemedIsClosed

\* A call that arrives presents a challenge that exists, if any, and is noticed by the calls
\* of the same user.
LEMMA BeginKeepsChallenges ==
  ASSUME CInv, NEW p \in Procs, NEW call, Begin(p, call), CallShape(call),
         call.pc \notin WonPcs \union {"loginSave", "loginIssue"},
         call.pc = "loginFind" => Known(call.seen) /\ challenges[call.seen].user = call.user,
         call.pc \in ConsumePcs => Known(call.seen)
  PROVE  CInv'
<1> DEFINE others == {q \in Procs : InCallFor(q, call.user)}
<1>1. /\ op' = [q \in Procs |-> IF q = p THEN [call EXCEPT !.alone = others = {}]
                                ELSE IF q \in others THEN [op[q] EXCEPT !.alone = FALSE]
                                ELSE op[q]]
      /\ challenges' = challenges /\ spent' = spent
      /\ op[p].pc = "idle"
  BY DEF Begin, tables, ghosts
<1>2. /\ CallShape(op'[p]) /\ op'[p].pc = call.pc /\ op'[p].user = call.user
      /\ op'[p].seen = call.seen
      /\ op'[p].alone <=> others = {}
  BY <1>1 DEF CallShape
<1>3. \A q \in Procs : q # p =>
        /\ CallShape(op'[q])
        /\ op'[q].pc = op[q].pc /\ op'[q].user = op[q].user /\ op'[q].seen = op[q].seen
        /\ op'[q].alone => op[q].alone /\ q \notin others
  BY <1>1 DEF CInv, Shapes, CallShape
<1>4. Shapes'
  BY <1>1, <1>2, <1>3 DEF CInv, Shapes
<1>5. AloneIsAlone'
  BY <1>2, <1>3 DEF CInv, AloneIsAlone, InCall, InCallFor
<1>6. \A q \in Procs : Presented(q)'
  BY <1>1, <1>2, <1>3 DEF CInv, Presented, Known, KnownUsed, LoginPcs, WonPcs
<1>7. WonOnce'
  BY <1>2, <1>3 DEF CInv, WonOnce
<1>8. RedeemedIsClosed'
  <2>1. \A q \in Procs : op'[q].pc \in WonPcs \union {"loginSave", "loginIssue"} =>
                            op'[q].pc = op[q].pc /\ op'[q].seen = op[q].seen
    BY <1>2, <1>3
  <2>2. \A c : KnownUsed(c) => KnownUsed(c)'
    BY <1>1 DEF KnownUsed
  <2> QED
    BY <1>1, <2>1, <2>2, ClosedStays DEF CInv
<1> QED
  BY <1>4, <1>5, <1>6, <1>7, <1>8 DEF CInv

\* What one call does to itself.
OwnMove(p) ==
    /\ DOMAIN op' = DOMAIN op
    /\ \A q \in Procs : q # p => op'[q] = op[q]
    /\ CallShape(op'[p])
    /\ op'[p].pc # "idle" =>
         /\ op[p].pc # "idle" /\ op'[p].user = op[p].user /\ op'[p].seen = op[p].seen
         /\ op'[p].alone => op[p].alone

\* A statement that redeems no challenge.
OffChallenges(p) ==
    /\ OwnMove(p)
    /\ challenges' = challenges
    /\ \A c : /\ <<"login", c, 0>> \in spent' => <<"login", c, 0>> \in spent
              /\ <<"webauthn", c, 0>> \in spent' => <<"webauthn", c, 0>> \in spent
    /\ op'[p].pc \notin LoginPcs
    /\ op'[p].pc \in WonPcs => op[p].pc \in WonPcs
    /\ op'[p].pc \in ConsumePcs => op[p].pc \in ConsumePcs

\* A call that moves on stays alone if it was.
LEMMA MoveKeepsAlone == ASSUME CInv, NEW p \in Procs, OwnMove(p) PROVE AloneIsAlone'
  BY DEF CInv, AloneIsAlone, OwnMove, InCall

\* A statement that redeems no challenge leaves them closed.
LEMMA OffChallengesKeeps == ASSUME CInv, NEW p \in Procs, OffChallenges(p) PROVE CInv'
<1>1. Shapes'
  BY DEF CInv, Shapes, OffChallenges, OwnMove
<1>2. AloneIsAlone'
  BY MoveKeepsAlone DEF OffChallenges
<1>3. \A q \in Procs : Presented(q)'
  <2> SUFFICES ASSUME NEW q \in Procs PROVE Presented(q)'
    OBVIOUS
  <2>1. CASE q = p
    BY <2>1 DEF CInv, Presented, OffChallenges, OwnMove, Known, KnownUsed, LoginPcs, ConsumePcs, WonPcs
  <2>2. CASE q # p
    BY <2>2 DEF CInv, Presented, OffChallenges, OwnMove, Known, KnownUsed
  <2> QED
    BY <2>1, <2>2
<1>4. WonOnce'
  BY DEF CInv, WonOnce, OffChallenges, OwnMove, WonPcs
<1>5. RedeemedIsClosed'
  BY DEF CInv, RedeemedIsClosed, OffChallenges, OwnMove, KnownUsed, LoginPcs, WonPcs
<1> QED
  BY <1>1, <1>2, <1>3, <1>4, <1>5 DEF CInv

\* ConsumeMfaChallenge: the read that finds the challenge unused, so unredeemed.
LEMMA LoginFindKeeps == ASSUME CInv, NEW p \in Procs, LoginFind(p) PROVE CInv'
<1>1. CASE Redeemable(op[p].seen, op[p].user, "login")
  <2>1. /\ OwnMove(p) /\ op'[p].pc = "loginSave" /\ op'[p].seen = op[p].seen /\ op'[p].user = op[p].user
        /\ op[p].pc = "loginFind"
        /\ challenges' = challenges /\ spent' = spent
    BY <1>1 DEF LoginFind, OwnMove, Goto, Reads, tables, ghosts, CInv, Shapes, CallShape
  <2>2. ~challenges[op[p].seen].used
    BY <1>1 DEF Redeemable
  <2>3. Shapes' /\ AloneIsAlone'
    BY <2>1, MoveKeepsAlone DEF CInv, Shapes, OwnMove
  <2>4. (\A q \in Procs : Presented(q)') /\ WonOnce'
    BY <2>1 DEF CInv, Presented, WonOnce, OwnMove, Known, KnownUsed, LoginPcs, ConsumePcs, WonPcs
  <2>5. RedeemedIsClosed'
    BY <2>1, <2>2 DEF CInv, RedeemedIsClosed, OwnMove, KnownUsed, WonPcs
  <2> QED
    BY <2>3, <2>4, <2>5 DEF CInv
<1>2. CASE ~Redeemable(op[p].seen, op[p].user, "login")
  <2>1. OffChallenges(p)
    BY <1>2 DEF LoginFind, OffChallenges, OwnMove, Return, Reads, tables, ghosts, CInv, Shapes, CallShape,
                Idle, LoginPcs, ConsumePcs, WonPcs
  <2> QED
    BY <2>1, OffChallengesKeeps
<1> QED
  BY <1>1, <1>2

\* The whole row is written back, whether or not it is used by now.
LEMMA LoginSaveKeeps == ASSUME CInv, NEW p \in Procs, LoginSave(p) PROVE CInv'
<1>1. /\ OwnMove(p) /\ op'[p].pc = "loginIssue" /\ op'[p].seen = op[p].seen /\ op'[p].user = op[p].user
      /\ op[p].pc = "loginSave"
      /\ challenges' = [challenges EXCEPT ![op[p].seen] = [challenges[op[p].seen] EXCEPT !.used = TRUE]]
      /\ spent' = spent
  BY DEF LoginSave, MarkUsed, OwnMove, Goto, ghosts, CInv, Shapes, CallShape
<1>2. Known(op[p].seen) /\ challenges[op[p].seen].user = op[p].user
  BY <1>1 DEF CInv, Presented, LoginPcs
<1>3. /\ DOMAIN challenges' = DOMAIN challenges
      /\ \A c \in DOMAIN challenges :
           /\ {"user", "used"} \subseteq DOMAIN challenges'[c]
           /\ challenges'[c].user = challenges[c].user
           /\ challenges[c].used => challenges'[c].used
           /\ c = op[p].seen => challenges'[c].used
  BY <1>1, <1>2 DEF CInv, Shapes, Known
<1>4. Shapes'
  <2>1. Len(challenges') = Len(challenges)
    BY <1>1, <1>3 DEF CInv, Shapes
  <2> QED
    BY <1>1, <1>3, <2>1 DEF CInv, Shapes, OwnMove
<1>5. AloneIsAlone'
  BY <1>1, MoveKeepsAlone
<1>6. (\A q \in Procs : Presented(q)') /\ WonOnce'
  BY <1>1, <1>2, <1>3 DEF CInv, Presented, WonOnce, OwnMove, Known, KnownUsed, LoginPcs, ConsumePcs, WonPcs
<1>7. RedeemedIsClosed'
  <2>1. \A c : KnownUsed(c) => KnownUsed(c)'
    BY <1>3 DEF KnownUsed
  <2>2. \A q \in Procs :
          /\ op'[q].seen = op[q].seen
          /\ op'[q].pc \in {"loginSave", "loginIssue"} => op[q].pc \in {"loginSave", "loginIssue"}
          /\ op'[q].pc \in WonPcs => op[q].pc \in WonPcs
    BY <1>1 DEF OwnMove, WonPcs
  <2> QED
    BY <1>1, <2>1, <2>2, ClosedStays DEF CInv
<1> QED
  BY <1>4, <1>5, <1>6, <1>7 DEF CInv

\* Whoever redeems a challenge without overlapping another call of the user is the last to do
\* so: the others that could hold it would be calls of the user.
LEMMA LoginIssueKeeps == ASSUME CInv, NEW p \in Procs, LoginIssue(p) PROVE CInv' /\ twice' = twice
<1> DEFINE proof == <<"login", op[p].seen, 0>>
<1>1. /\ OwnMove(p) /\ op'[p].pc = "idle" /\ op[p].pc = "loginIssue"
      /\ challenges' = challenges
      /\ spent' = IF op[p].alone THEN spent \union {proof} ELSE spent
      /\ twice' = IF proof \in spent THEN twice \union {proof} ELSE twice
  BY DEF LoginIssue, Accept, OwnMove, Return, Idle, CInv, Shapes, CallShape
<1>2. /\ KnownUsed(op[p].seen) /\ challenges[op[p].seen].user = op[p].user
      /\ proof \notin spent
  BY <1>1 DEF CInv, Presented, RedeemedIsClosed, LoginPcs
<1>3. Shapes' /\ AloneIsAlone'
  BY <1>1, MoveKeepsAlone DEF CInv, Shapes, OwnMove
<1>4. (\A q \in Procs : Presented(q)') /\ WonOnce'
  BY <1>1 DEF CInv, Presented, WonOnce, OwnMove, Known, KnownUsed, LoginPcs, ConsumePcs, WonPcs
<1>5. ASSUME op[p].alone, NEW q \in Procs, q # p, op[q].pc \in {"loginSave", "loginIssue"}
      PROVE  op[q].seen # op[p].seen
  BY <1>1, <1>2, <1>5 DEF CInv, AloneIsAlone, InCall, Presented, LoginPcs
<1>6. RedeemedIsClosed'
  <2>1. ASSUME NEW c, <<"login", c, 0>> \in spent'
        PROVE  KnownUsed(c)' /\ \A q \in Procs : op'[q].pc \in {"loginSave", "loginIssue"} => op'[q].seen # c
    <3>1. CASE <<"login", c, 0>> \in spent
      BY <1>1, <3>1 DEF CInv, RedeemedIsClosed, OwnMove, KnownUsed
    <3>2. CASE <<"login", c, 0>> \notin spent
      BY <1>1, <1>2, <1>5, <2>1, <3>2 DEF OwnMove, KnownUsed
    <3> QED
      BY <3>1, <3>2
  <2>2. ASSUME NEW c, <<"webauthn", c, 0>> \in spent'
        PROVE  KnownUsed(c)' /\ \A q \in Procs : op'[q].pc \in WonPcs => op'[q].seen # c
    <3>1. <<"webauthn", c, 0>> \in spent
      BY <1>1, <2>2
    <3> QED
      BY <1>1, <3>1 DEF CInv, RedeemedIsClosed, OwnMove, KnownUsed, WonPcs
  <2> QED
    BY <2>1, <2>2 DEF RedeemedIsClosed
<1> QED
  BY <1>1, <1>2, <1>3, <1>4, <1>6 DEF CInv

\* The repository's consume checks and marks in one step, so it lets one call through.
LEMMA CeremonyConsumeKeeps == ASSUME CInv, NEW p \in Procs, CeremonyConsume(p) PROVE CInv'
<1>1. CASE ~Unused(op[p].seen)
  <2>1. OffChallenges(p)
    BY <1>1 DEF CeremonyConsume, OffChallenges, OwnMove, Return, tables, ghosts, CInv, Shapes, CallShape,
                Idle, LoginPcs, ConsumePcs, WonPcs
  <2> QED
    BY <2>1, OffChallengesKeeps
<1>2. CASE Unused(op[p].seen)
  <2>1. /\ OwnMove(p) /\ op'[p].pc \in {"assertRead", "registerCheck"}
        /\ op'[p].seen = op[p].seen /\ op'[p].user = op[p].user
        /\ op[p].pc \in ConsumePcs
        /\ challenges' = [challenges EXCEPT ![op[p].seen] = [challenges[op[p].seen] EXCEPT !.used = TRUE]]
        /\ spent' = spent
    BY <1>2 DEF CeremonyConsume, MarkUsed, OwnMove, Goto, ghosts, CInv, Shapes, CallShape, ConsumePcs
  <2>2. Known(op[p].seen) /\ ~challenges[op[p].seen].used
    BY <1>2, <2>1 DEF CInv, Presented, Unused
  <2>3. /\ DOMAIN challenges' = DOMAIN challenges
        /\ \A c \in DOMAIN challenges :
             /\ {"user", "used"} \subseteq DOMAIN challenges'[c]
             /\ challenges'[c].user = challenges[c].user
             /\ challenges[c].used => challenges'[c].used
             /\ c = op[p].seen => challenges'[c].used
    BY <2>1, <2>2 DEF CInv, Shapes, Known
  <2>4. Shapes'
    <3>1. Len(challenges') = Len(challenges)
      BY <2>1, <2>3 DEF CInv, Shapes
    <3> QED
      BY <2>1, <2>3, <3>1 DEF CInv, Shapes, OwnMove
  <2>5. AloneIsAlone'
    BY <2>1, MoveKeepsAlone
  <2>6. \A q \in Procs : Presented(q)'
    BY <2>1, <2>2, <2>3 DEF CInv, Presented, OwnMove, Known, KnownUsed, LoginPcs, ConsumePcs, WonPcs
  <2>7. \A q \in Procs : op[q].pc \in WonPcs => op[q].seen # op[p].seen
    BY <2>2 DEF CInv, Presented, KnownUsed
  <2>8. WonOnce'
    BY <2>1, <2>7 DEF CInv, WonOnce, OwnMove
  <2>9. RedeemedIsClosed'
    <3>1. \A c : KnownUsed(c) => KnownUsed(c)'
      BY <2>3 DEF KnownUsed
    <3>3. ASSUME NEW c, <<"login", c, 0>> \in spent'
          PROVE  KnownUsed(c)' /\ \A q \in Procs : op'[q].pc \in {"loginSave", "loginIssue"} => op'[q].seen # c
      <4>1. KnownUsed(c) /\ \A q \in Procs : op[q].pc \in {"loginSave", "loginIssue"} => op[q].seen # c
        BY <2>1, <3>3 DEF CInv, RedeemedIsClosed
      <4> QED
        BY <2>1, <3>1, <4>1 DEF OwnMove
    <3>4. ASSUME NEW c, <<"webauthn", c, 0>> \in spent'
          PROVE  KnownUsed(c)' /\ \A q \in Procs : op'[q].pc \in WonPcs => op'[q].seen # c
      <4>1. KnownUsed(c) /\ \A q \in Procs : op[q].pc \in WonPcs => op[q].seen # c
        BY <2>1, <3>4 DEF CInv, RedeemedIsClosed
      <4>2. c # op[p].seen
        BY <2>2, <4>1 DEF KnownUsed
      <4> QED
        BY <2>1, <3>1, <4>1, <4>2 DEF OwnMove
    <3> QED
      BY <3>3, <3>4 DEF RedeemedIsClosed
  <2> QED
    BY <2>4, <2>5, <2>6, <2>8, <2>9 DEF CInv
<1> QED
  BY <1>1, <1>2

\* A WebAuthn challenge is redeemed by the call that consumed it, and by nobody else.
LEMMA RedeemKeeps ==
  ASSUME CInv, NEW p \in Procs, RegisterSave(p) \/ AssertUse(p) PROVE CInv' /\ twice' = twice
<1> DEFINE proof == <<"webauthn", op[p].seen, 0>>
<1>1. /\ OwnMove(p) /\ op'[p].pc = "idle" /\ op[p].pc \in WonPcs
      /\ challenges' = challenges
      /\ spent' = spent \union {proof}
      /\ twice' = IF proof \in spent THEN twice \union {proof} ELSE twice
  BY DEF RegisterSave, AssertUse, Writes, Accept, OwnMove, Return, Idle, CInv, Shapes, CallShape, WonPcs
<1>2. KnownUsed(op[p].seen) /\ proof \notin spent
  BY <1>1 DEF CInv, Presented, RedeemedIsClosed
<1>3. Shapes' /\ AloneIsAlone'
  BY <1>1, MoveKeepsAlone DEF CInv, Shapes, OwnMove
<1>4. (\A q \in Procs : Presented(q)') /\ WonOnce'
  BY <1>1 DEF CInv, Presented, WonOnce, OwnMove, Known, KnownUsed, LoginPcs, ConsumePcs, WonPcs
<1>5. RedeemedIsClosed'
  <2>1. ASSUME NEW c, <<"login", c, 0>> \in spent'
        PROVE  KnownUsed(c)' /\ \A q \in Procs : op'[q].pc \in {"loginSave", "loginIssue"} => op'[q].seen # c
    <3>1. <<"login", c, 0>> \in spent
      BY <1>1, <2>1
    <3> QED
      BY <1>1, <3>1 DEF CInv, RedeemedIsClosed, OwnMove, KnownUsed
  <2>2. ASSUME NEW c, <<"webauthn", c, 0>> \in spent'
        PROVE  KnownUsed(c)' /\ \A q \in Procs : op'[q].pc \in WonPcs => op'[q].seen # c
    <3>1. CASE <<"webauthn", c, 0>> \in spent
      BY <1>1, <3>1 DEF CInv, RedeemedIsClosed, OwnMove, KnownUsed, WonPcs
    <3>2. CASE c = op[p].seen
      BY <1>1, <1>2, <3>2 DEF CInv, WonOnce, OwnMove, KnownUsed, WonPcs
    <3> QED
      BY <1>1, <2>2, <3>1, <3>2
  <2> QED
    BY <2>1, <2>2 DEF RedeemedIsClosed
<1> QED
  BY <1>1, <1>2, <1>3, <1>4, <1>5 DEF CInv

\* A new challenge is not used (MfaChallenge.create, the two issueChallenge operations).
LEMMA IssueKeeps == ASSUME CInv, NEW u \in Users, IssueChallenge(u) PROVE CInv'
<1>1. PICK kind : challenges' = Append(challenges, Challenge(u, kind))
  BY DEF IssueChallenge
<1>2. op' = op /\ spent' = spent
  BY DEF IssueChallenge, ghosts
<1> DEFINE new == Challenge(u, kind)
           n == Len(challenges) + 1
<1>3. {"user", "used"} \subseteq DOMAIN new
  BY DEF Challenge
<1>4. /\ Len(challenges') = n /\ Len(challenges') \in Nat
      /\ challenges' = [c \in 1 .. n |-> challenges'[c]]
      /\ challenges'[n] = new
      /\ DOMAIN challenges = 1 .. Len(challenges)
      /\ \A c \in 1 .. Len(challenges) : challenges'[c] = challenges[c]
  <2> DEFINE S == {challenges[c] : c \in 1 .. Len(challenges)} \union {new}
  <2>1. challenges \in Seq(S) /\ new \in S
    BY DEF CInv, Shapes
  <2>2. /\ Len(challenges) \in Nat /\ DOMAIN challenges = 1 .. Len(challenges)
        /\ challenges = [c \in 1 .. Len(challenges) |-> challenges[c]]
        /\ challenges' = Append(challenges, new)
    BY <1>1 DEF CInv, Shapes
  <2> HIDE DEF S, new
  <2>3. challenges' \in Seq(S)
    <3>1. Append(challenges, new) \in Seq(S)
      BY <2>1, AppendProperties
    <3> QED
      BY <2>2, <3>1
  <2>4. /\ Len(Append(challenges, new)) = Len(challenges) + 1
        /\ \A c \in 1 .. Len(challenges) : Append(challenges, new)[c] = challenges[c]
        /\ Append(challenges, new)[Len(challenges) + 1] = new
    BY <2>1, AppendProperties
  <2>5. /\ Len(challenges') = n /\ challenges'[n] = new
        /\ \A c \in 1 .. Len(challenges) : challenges'[c] = challenges[c]
    BY <2>2, <2>4
  <2>6. challenges' = [c \in 1 .. n |-> challenges'[c]]
    BY <2>3, <2>5
  <2> QED
    BY <2>2, <2>5, <2>6
<1>5. \A c \in DOMAIN challenges : c \in DOMAIN challenges' /\ challenges'[c] = challenges[c]
  BY <1>4
<1> HIDE DEF new
<1>6. Shapes'
  BY <1>2, <1>3, <1>4 DEF CInv, Shapes
<1>7. AloneIsAlone' /\ (\A q \in Procs : Presented(q)') /\ WonOnce'
  BY <1>2, <1>5 DEF CInv, AloneIsAlone, InCall, Presented, Known, KnownUsed, WonOnce
<1>8. RedeemedIsClosed'
  <2>1. \A c : KnownUsed(c) => KnownUsed(c)'
    BY <1>5 DEF KnownUsed
  <2> QED
    BY <1>2, <2>1, ClosedStays DEF CInv
<1> QED
  BY <1>6, <1>7, <1>8 DEF CInv

\* The call goes on holding a method it found: the shared object, or a copy of it.
Found(p, id) ==
    /\ DOMAIN op' = DOMAIN op
    /\ \A q \in Procs : q # p => op'[q] = op[q]
    /\ DOMAIN op'[p] = DOMAIN op[p]
    /\ op'[p].user = op[p].user /\ op'[p].alone = op[p].alone
    /\ op'[p].seen = op[p].seen /\ op'[p].code = op[p].code
    /\ op'[p].id = id
    /\ op'[p].row = IF store = "memory" THEN NoMethod ELSE ToDomain(methods[id])

Finding(p, id) ==
    /\ Found(p, id)
    /\ id \in present
    /\ \/ op[p].pc = "totpFind" /\ op'[p].pc = "totpRecord" /\ id = op[p].id
       \/ op[p].pc = "confirmFind" /\ op'[p].pc = "confirmRecord" /\ id = op[p].id
       \/ /\ op[p].pc = "backupFind" /\ op'[p].pc = "backupSave"
          /\ methods[id].user = op[p].user
          /\ op[p].code \in methods[id].codes
          /\ op'[p].codes = methods[id].codes \ {op[p].code}
       \/ /\ op[p].pc = "assertRead" /\ op'[p].pc = "assertRecord"
          /\ op[p].device \in DOMAIN credentials
          /\ id = credentials[op[p].device].method
          /\ credentials[op[p].device].user = op[p].user

\* The reads that end in a method: findById, or the search among the caller's methods.
LEMMA FindsAreFound ==
  ASSUME CInv, NEW p \in Procs, TotpFind(p) \/ BackupFind(p) \/ AssertRead(p)
  PROVE  Return(p) \/ \E id : Finding(p, id)
<1>0. DOMAIN op = Procs /\ CallShape(op[p])
  BY DEF CInv, Shapes
<1>1. CASE TotpFind(p)
  <2>1. CASE Return(p)
    BY <2>1
  <2>2. CASE ~Return(p)
    <3> DEFINE next == IF op[p].pc = "totpFind" THEN "totpRecord" ELSE "confirmRecord"
               held == Holding(p, next, op[p].id)
    <3>1. /\ op[p].pc \in {"confirmFind", "totpFind"}
          /\ op[p].id \in present
          /\ op' = [held EXCEPT ![p].ok = InDriftWindow(op[p].code, now)]
      BY <1>1, <2>2 DEF TotpFind
    <3>2. Found(p, op[p].id) /\ op'[p].pc = next
      BY <1>0, <3>1 DEF Holding, Found, CallShape
    <3>3. Finding(p, op[p].id)
      BY <3>1, <3>2 DEF Finding
    <3> QED
      BY <3>3
  <2> QED
    BY <2>1, <2>2
<1>2. CASE BackupFind(p)
  <2>1. CASE Return(p)
    BY <2>1
  <2>2. CASE ~Return(p)
    <3>1. PICK id \in ActiveOf(op[p].user, "backup_codes") :
            /\ op[p].code \in methods[id].codes
            /\ op' = [Holding(p, "backupSave", id) EXCEPT
                        ![p].codes = methods[id].codes \ {op[p].code}]
      BY <1>2, <2>2 DEF BackupFind
    <3>2. op[p].pc = "backupFind" /\ id \in present /\ methods[id].user = op[p].user
      BY <1>2, <3>1 DEF BackupFind, ActiveOf, MethodsOf
    <3>3. /\ Found(p, id) /\ op'[p].pc = "backupSave"
          /\ op'[p].codes = methods[id].codes \ {op[p].code}
      BY <1>0, <3>1 DEF Holding, Found, CallShape
    <3>4. Finding(p, id)
      BY <3>1, <3>2, <3>3 DEF Finding
    <3> QED
      BY <3>4
  <2> QED
    BY <2>1, <2>2
<1>3. CASE AssertRead(p)
  <2>1. CASE Return(p)
    BY <2>1
  <2>2. CASE ~Return(p)
    <3> DEFINE d == op[p].device
               id == credentials[d].method
    <3>1. /\ op[p].pc = "assertRead"
          /\ d \in DOMAIN credentials /\ credentials[d].user = op[p].user
          /\ id \in present
          /\ \E valid \in BOOLEAN :
               op' = [Holding(p, "assertRecord", id) EXCEPT
                        ![p].ok = valid, ![p].codes = {credentials[d].counter}]
      BY <1>3, <2>2 DEF AssertRead
    <3>2. PICK valid \in BOOLEAN :
            op' = [Holding(p, "assertRecord", id) EXCEPT
                     ![p].ok = valid, ![p].codes = {credentials[d].counter}]
      BY <3>1
    <3>3. Found(p, id) /\ op'[p].pc = "assertRecord"
      <4> HIDE DEF id
      <4> QED
        BY <1>0, <3>2 DEF Holding, Found, CallShape
    <3>4. Finding(p, id)
      BY <3>1, <3>3 DEF Finding
    <3> QED
      BY <3>4
  <2> QED
    BY <2>1, <2>2
<1> QED
  BY <1>1, <1>2, <1>3

\* Everything else a call does redeems no challenge.
LEMMA RestIsOffChallenges ==
  ASSUME CInv, NEW p \in Procs,
         \/ EnrollSave(p) \/ TotpFind(p) \/ ConfirmRecord(p) \/ TotpAccept(p)
         \/ TotpReject(p) \/ BackupFind(p) \/ BackupSave(p) \/ GenerateFind(p)
         \/ DeleteListed(p) \/ GenerateSave(p) \/ StepUpFind(p) \/ RecordAssertion(p)
         \/ CeremonyFind(p) \/ RegisterCheck(p) \/ RegisterMethod(p) \/ AssertRead(p)
         \/ AssertAccept(p) \/ AssertReject(p) \/ RecoverFind(p) \/ RecoverRevoke(p)
         \/ Fails(p)
  PROVE  OffChallenges(p)
<1>1. CASE TotpFind(p) \/ BackupFind(p) \/ AssertRead(p)
  <2>1. /\ challenges' = challenges /\ spent' = spent
        /\ op[p].pc \in {"totpFind", "confirmFind", "backupFind", "assertRead"}
    BY <1>1 DEF TotpFind, BackupFind, AssertRead, Reads, tables, ghosts
  <2>2. CASE Return(p)
    BY <2>1, <2>2 DEF OffChallenges, OwnMove, Return, CInv, Shapes, CallShape, Idle, LoginPcs, ConsumePcs, WonPcs
  <2>3. ASSUME NEW id, Finding(p, id) PROVE OffChallenges(p)
    BY <2>1, <2>3 DEF OffChallenges, OwnMove, Finding, Found, CInv, Shapes, CallShape, LoginPcs, ConsumePcs, WonPcs
  <2> QED
    BY <1>1, <2>2, <2>3, FindsAreFound
<1> USE DEF OffChallenges, OwnMove, Return, Goto, Holding, Accepted, Accept, Reads, Writes, tables, ghosts,
            CInv, Shapes, CallShape, Idle, LoginPcs, ConsumePcs, WonPcs
<1>2. CASE EnrollSave(p)
  BY <1>2 DEF EnrollSave
<1>3. CASE ConfirmRecord(p)
  BY <1>3 DEF ConfirmRecord
<1>4. CASE TotpAccept(p)
  BY <1>4 DEF TotpAccept
<1>5. CASE TotpReject(p)
  BY <1>5 DEF TotpReject
<1>7. CASE BackupSave(p)
  BY <1>7 DEF BackupSave
<1>8. CASE GenerateFind(p)
  BY <1>8 DEF GenerateFind
<1>9. CASE DeleteListed(p)
  BY <1>9 DEF DeleteListed
<1>10. CASE GenerateSave(p)
  BY <1>10 DEF GenerateSave
<1>11. CASE StepUpFind(p)
  BY <1>11 DEF StepUpFind
<1>12. CASE RecordAssertion(p)
  BY <1>12 DEF RecordAssertion
<1>13. CASE CeremonyFind(p)
  BY <1>13 DEF CeremonyFind
<1>14. CASE RegisterCheck(p)
  BY <1>14 DEF RegisterCheck
<1>15. CASE RegisterMethod(p)
  <2>1. PICK id : op' = [op EXCEPT ![p].pc = "registerSave", ![p].id = id]
    BY <1>15 DEF RegisterMethod
  <2>2. op[p].pc = "registerMethod" /\ challenges' = challenges /\ spent' = spent
    BY <1>15 DEF RegisterMethod
  <2> QED
    BY <2>1, <2>2
<1>17. CASE AssertAccept(p)
  BY <1>17 DEF AssertAccept
<1>18. CASE AssertReject(p)
  BY <1>18 DEF AssertReject
<1>19. CASE RecoverFind(p)
  BY <1>19 DEF RecoverFind
<1>20. CASE RecoverRevoke(p)
  BY <1>20 DEF RecoverRevoke
<1>21. CASE Fails(p)
  BY <1>21 DEF Fails
<1> QED
  BY <1>1, <1>2, <1>3, <1>4, <1>5, <1>7, <1>8, <1>9, <1>10, <1>11, <1>12, <1>13, <1>14, <1>15, <1>17, <1>18, <1>19, <1>20, <1>21

-----------------------------------------------------------------------------
\* What the methods half needs of a call is as it was.
Same(q) ==
    /\ op'[q].pc = op[q].pc /\ op'[q].user = op[q].user /\ op'[q].id = op[q].id
    /\ op'[q].row = op[q].row /\ op'[q].code = op[q].code /\ op'[q].codes = op[q].codes

Others(p) == \A q \in Procs : q # p => Same(q)

\* Methods stay, belong to whom they did, and forget no step while the store keeps it.
Lasts ==
    /\ store' = store
    /\ \A i \in DOMAIN methods :
         /\ i \in DOMAIN methods'
         /\ methods'[i].user = methods[i].user
         /\ store = "memory" => methods[i].lastStep <= methods'[i].lastStep

\* Codes come from where codes could come from before.
CodesComeFrom(p) ==
    \A i \in DOMAIN methods : \A c :
      /\ c \in methods'[i].codes => c \in methods[i].codes \/ ~Without(p, i, c)
      /\ ~Without(p, i, c)' => c \in methods[i].codes \/ ~Without(p, i, c)

\* A use that is remembered is one that shows.
NewProofsShow ==
    /\ \A i, s : <<"totp", i, s>> \in spent' /\ <<"totp", i, s>> \notin spent =>
         store = "memory" /\ i \in DOMAIN methods' /\ s \in Nat /\ s <= methods'[i].lastStep
    /\ \A i, c : <<"backup", i, c>> \in spent' /\ <<"backup", i, c>> \notin spent =>
         i \in DOMAIN methods' /\ c \notin methods'[i].codes /\ \A q \in Procs : Without(q, i, c)'

\* The frame of the methods half: what is left to show of a step of p.
LEMMA MethodsFrame ==
  ASSUME MInv, NEW p \in Procs, Lasts, Tables', Others(p), Owns(p)', Spliced(p)',
         CodesComeFrom(p), NewProofsShow
  PROVE  MInv'
<1>1. \A q \in Procs : Owns(q)' /\ Spliced(q)'
  <2> SUFFICES ASSUME NEW q \in Procs, q # p PROVE Owns(q)' /\ Spliced(q)'
    OBVIOUS
  <2>1. Same(q) /\ Owns(q) /\ Spliced(q)
    BY DEF Others, MInv
  <2> QED
    BY <2>1 DEF Same, Owns, Spliced, Lasts
<1>2. StepsAreBehind'
  <2> SUFFICES ASSUME NEW i, NEW s, <<"totp", i, s>> \in spent'
               PROVE  store' = "memory" /\ i \in DOMAIN methods' /\ s \in Nat /\ s <= methods'[i].lastStep
    BY DEF StepsAreBehind
  <2>1. CASE <<"totp", i, s>> \notin spent
    BY <2>1 DEF NewProofsShow, Lasts
  <2>2. CASE <<"totp", i, s>> \in spent
    <3>1. store = "memory" /\ i \in DOMAIN methods /\ s \in Nat /\ s <= methods[i].lastStep
      BY <2>2 DEF MInv, StepsAreBehind
    <3>2. i \in DOMAIN methods' /\ methods[i].lastStep <= methods'[i].lastStep /\ store' = store
      BY <3>1 DEF Lasts
    <3>3. methods[i].lastStep \in Nat /\ methods'[i].lastStep \in Nat
      BY <3>1, <3>2 DEF MInv, Tables, MethodShape
    <3> QED
      BY <3>1, <3>2, <3>3
  <2> QED
    BY <2>1, <2>2
<1>3. CodesAreGone'
  <2> SUFFICES ASSUME NEW i, NEW c, <<"backup", i, c>> \in spent'
               PROVE  /\ i \in DOMAIN methods' /\ c \notin methods'[i].codes
                      /\ \A q \in Procs : Without(q, i, c)'
    BY DEF CodesAreGone
  <2>1. CASE <<"backup", i, c>> \notin spent
    BY <2>1 DEF NewProofsShow
  <2>2. CASE <<"backup", i, c>> \in spent
    <3>1. i \in DOMAIN methods /\ c \notin methods[i].codes /\ \A q \in Procs : Without(q, i, c)
      BY <2>2 DEF MInv, CodesAreGone
    <3>2. i \in DOMAIN methods' /\ c \notin methods'[i].codes /\ Without(p, i, c)'
      BY <3>1 DEF Lasts, CodesComeFrom
    <3>3. ASSUME NEW q \in Procs, q # p PROVE Without(q, i, c)'
      BY <3>1, <3>3 DEF Others, Same, Without, Lasts
    <3> QED
      BY <3>2, <3>3
  <2> QED
    BY <2>1, <2>2
<1> QED
  BY <1>1, <1>2, <1>3 DEF MInv

\* A call that holds no method.
Resting(p) == op'[p].pc \notin RowPcs \union OwnerPcs /\ op'[p].code \in Nat /\ MethodShape(op'[p].row)

\* A process that holds no copy owes the claims about copies nothing.
LEMMA RestingIsFine ==
  ASSUME NEW p \in Procs, Resting(p)
  PROVE  Owns(p)' /\ Spliced(p)' /\ \A i, c : Without(p, i, c)'
  BY DEF Resting, Owns, Spliced, Without, RowPcs, OwnerPcs

\* Statements that leave the tables alone, or only delete a method.
LEMMA TablesRest ==
  ASSUME MInv, NEW p \in Procs, Others(p), store' = store, methods' = methods,
         credentials' = credentials, present' \subseteq present,
         \A i, c : /\ <<"totp", i, c>> \in spent' => <<"totp", i, c>> \in spent
                   /\ <<"backup", i, c>> \in spent' => <<"backup", i, c>> \in spent,
         Owns(p)', Spliced(p)',
         \A i \in DOMAIN methods : \A c : ~Without(p, i, c)' => c \in methods[i].codes \/ ~Without(p, i, c)
  PROVE  MInv'
<1>1. Lasts
  BY DEF Lasts, MInv, Tables, MethodShape
<1>2. Tables'
  BY DEF MInv, Tables
<1>3. CodesComeFrom(p)
  BY DEF CodesComeFrom
<1>4. NewProofsShow
  BY DEF NewProofsShow
<1> QED
  BY <1>1, <1>2, <1>3, <1>4, MethodsFrame

\* Where the call goes to.
LEMMA GoingOn ==
  ASSUME CInv, NEW p \in Procs, NEW pc, Goto(p, pc)
  PROVE  /\ Others(p) /\ op'[p].pc = pc
         /\ op'[p].user = op[p].user /\ op'[p].id = op[p].id /\ op'[p].row = op[p].row
         /\ op'[p].code = op[p].code /\ op'[p].codes = op[p].codes
  BY DEF CInv, Shapes, CallShape, Goto, Others, Same

\* A call that returns lets go of its copies.
LEMMA Returning == ASSUME CInv, NEW p \in Procs, Return(p) PROVE Others(p) /\ Resting(p)
  BY DEF CInv, Shapes, Return, Others, Same, Resting, RowPcs, OwnerPcs, Idle, MethodShape, NoMethod,
         Method, NoStep

\* Statements after which the call holds no method, and that write none.
LEMMA IdlingKeeps ==
  ASSUME CInv, MInv, NEW p \in Procs,
         \/ GenerateFind(p) \/ DeleteListed(p) \/ RecordAssertion(p)
         \/ LoginFind(p) \/ LoginSave(p) \/ LoginIssue(p)
         \/ CeremonyFind(p) \/ CeremonyConsume(p) \/ RegisterCheck(p)
         \/ RecoverFind(p) \/ RecoverRevoke(p) \/ Fails(p)
  PROVE  MInv'
<1>1. /\ store' = store /\ methods' = methods /\ credentials' = credentials /\ present' \subseteq present
      /\ \A i, c : /\ <<"totp", i, c>> \in spent' => <<"totp", i, c>> \in spent
                   /\ <<"backup", i, c>> \in spent' => <<"backup", i, c>> \in spent
  <2>1. CASE LoginIssue(p)
    BY <2>1 DEF LoginIssue, Accept
  <2>2. CASE ~LoginIssue(p)
    BY <2>2 DEF GenerateFind, DeleteListed, RecordAssertion, LoginFind, LoginSave, CeremonyFind,
           CeremonyConsume, RegisterCheck, RecoverFind, RecoverRevoke, Fails, Reads, Writes, Drop,
           tables, ghosts
  <2> QED
    BY <2>1, <2>2
<1>2. Others(p) /\ Resting(p)
  <2>1. DOMAIN op = Procs /\ CallShape(op[p]) /\ op[p].code \in Nat /\ MethodShape(op[p].row)
    BY DEF CInv, Shapes, MInv, Owns
  <2>2. CASE Return(p)
    BY <2>2, Returning
  <2>3. CASE \E pc : Goto(p, pc) /\ pc \notin RowPcs \union OwnerPcs
    BY <2>1, <2>3, GoingOn DEF Resting
  <2>4. CASE GenerateFind(p)
    BY <2>1, <2>4 DEF GenerateFind, CallShape, Others, Same, Resting, RowPcs, OwnerPcs
  <2>5. CASE DeleteListed(p)
    BY <2>1, <2>2, <2>5 DEF DeleteListed, CallShape, Others, Same, Resting, RowPcs, OwnerPcs
  <2>6. CASE RecoverFind(p)
    BY <2>1, <2>6 DEF RecoverFind, CallShape, Others, Same, Resting, RowPcs, OwnerPcs
  <2>7. \/ Return(p) \/ GenerateFind(p) \/ DeleteListed(p) \/ RecoverFind(p)
        \/ \E pc \in {"loginSave", "loginIssue", "registerConsume", "assertConsume", "assertRead",
                      "registerCheck", "registerMethod"} : Goto(p, pc)
    BY DEF RecordAssertion, LoginFind, LoginSave, LoginIssue, CeremonyFind, CeremonyConsume,
           RegisterCheck, RecoverRevoke, Fails
  <2>8. \A pc \in {"loginSave", "loginIssue", "registerConsume", "assertConsume", "assertRead",
                   "registerCheck", "registerMethod"} : pc \notin RowPcs \union OwnerPcs
    BY DEF RowPcs, OwnerPcs
  <2> QED
    BY <2>2, <2>3, <2>4, <2>5, <2>6, <2>7, <2>8
<1> QED
  BY <1>1, <1>2, RestingIsFine, TablesRest

\* What a call finds is a method of its user, and holds the codes that are stored.
LEMMA FindingKeeps ==
  ASSUME CInv, MInv, NEW p \in Procs, TotpFind(p) \/ BackupFind(p) \/ AssertRead(p)
  PROVE  MInv'
<1>1. /\ store' = store /\ methods' = methods /\ credentials' = credentials /\ present' = present
      /\ spent' = spent
  BY DEF TotpFind, BackupFind, AssertRead, Reads, tables, ghosts
<1>2. CASE Return(p)
  BY <1>1, <1>2, Returning, RestingIsFine, TablesRest
<1>3. ASSUME NEW id, Finding(p, id) PROVE MInv'
  <2>1. /\ id \in DOMAIN methods /\ methods[id].user = op[p].user /\ MethodShape(methods[id])
        /\ op'[p].pc \in RowPcs
    BY <1>3 DEF Finding, MInv, Tables, Owns, OwnerPcs, RowPcs
  <2>2. /\ MethodShape(op'[p].row)
        /\ store # "memory" => /\ op'[p].row.user = methods[id].user
                               /\ op'[p].row.codes = methods[id].codes
    BY <1>3, <2>1 DEF Finding, Found, ToDomain, MethodShape, NoMethod, Method, NoStep
  <2>3. Others(p)
    BY <1>3 DEF Finding, Found, Others, Same
  <2>4. Owns(p)' /\ Spliced(p)'
    BY <1>1, <1>3, <2>1, <2>2 DEF Finding, Found, Owns, Spliced, MInv
  <2>5. \A i \in DOMAIN methods : \A c : ~Without(p, i, c)' => c \in methods[i].codes
    BY <1>1, <1>3, <2>1, <2>2 DEF Finding, Found, Without, RowPcs
  <2> QED
    BY <1>1, <2>3, <2>4, <2>5, TablesRest
<1> QED
  BY <1>2, <1>3, FindsAreFound

\* The step-up works on a method of the caller's own, or not at all.
LEMMA StepUpKeeps == ASSUME CInv, MInv, NEW p \in Procs, StepUpFind(p) PROVE MInv'
<1>1. /\ store' = store /\ methods' = methods /\ credentials' = credentials /\ present' = present
      /\ spent' = spent
  BY DEF StepUpFind, Reads, tables, ghosts
<1>2. CASE Return(p)
  BY <1>1, <1>2, Returning, RestingIsFine, TablesRest
<1>3. CASE ~Return(p)
  <2>1. Goto(p, "totpFind") /\ op[p].id \in present /\ methods[op[p].id].user = op[p].user
    BY <1>3 DEF StepUpFind, ActiveOf, MethodsOf
  <2>2. /\ Others(p) /\ op'[p].pc = "totpFind"
        /\ op'[p].user = op[p].user /\ op'[p].id = op[p].id /\ op'[p].row = op[p].row
        /\ op'[p].code = op[p].code
    BY <2>1, GoingOn
  <2>3. Owns(p)' /\ Spliced(p)' /\ \A i, c : Without(p, i, c)'
    BY <1>1, <2>1, <2>2 DEF MInv, Tables, Owns, Spliced, Without, OwnerPcs, RowPcs
  <2> QED
    BY <1>1, <2>2, <2>3, TablesRest
<1> QED
  BY <1>2, <1>3

-----------------------------------------------------------------------------
\* A credential names a method of its user.
LEMMA CredentialKeeps ==
  ASSUME CInv, MInv, NEW p \in Procs, RegisterSave(p) \/ AssertAccept(p)
  PROVE  MInv'
<1>1. /\ store' = store /\ methods' = methods /\ present' = present
      /\ SaveCredential(op[p].device, Credential(op[p].user, op[p].id, op[p].counter))
      /\ op[p].pc \in {"registerSave", "assertRecord"}
  BY DEF RegisterSave, AssertAccept
<1>2. op[p].id \in DOMAIN methods /\ methods[op[p].id].user = op[p].user
  BY <1>1 DEF MInv, Owns, OwnerPcs, RowPcs
<1>3. Tables'
  <2> DEFINE new == Credential(op[p].user, op[p].id, op[p].counter)
  <2>1. {"user", "method", "counter"} \subseteq DOMAIN new /\ new.user = op[p].user /\ new.method = op[p].id
    BY DEF Credential
  <2> HIDE DEF new
  <2>2. \A d \in DOMAIN credentials' :
          \/ credentials'[d] = new
          \/ d \in DOMAIN credentials /\ credentials'[d] = credentials[d]
    BY <1>1 DEF SaveCredential, new
  <2> QED
    BY <1>1, <1>2, <2>1, <2>2 DEF MInv, Tables
<1>4. Lasts
  BY <1>1 DEF Lasts, MInv, Tables, MethodShape
<1>5. NewProofsShow
  <2>1. \A i, c : /\ <<"totp", i, c>> \in spent' => <<"totp", i, c>> \in spent
                  /\ <<"backup", i, c>> \in spent' => <<"backup", i, c>> \in spent
    BY DEF RegisterSave, AssertAccept, Accept, ghosts
  <2> QED
    BY <2>1 DEF NewProofsShow
<1>6. CASE RegisterSave(p)
  <2>1. Others(p) /\ Resting(p)
    BY <1>6, Returning DEF RegisterSave
  <2> QED
    BY <1>1, <1>3, <1>4, <1>5, <2>1, RestingIsFine, MethodsFrame DEF CodesComeFrom
<1>7. CASE AssertAccept(p)
  <2>1. /\ Others(p) /\ op'[p].pc = "assertUse" /\ op[p].pc = "assertRecord"
        /\ op'[p].user = op[p].user /\ op'[p].id = op[p].id /\ op'[p].row = op[p].row
        /\ op'[p].code = op[p].code
    BY <1>7, GoingOn DEF AssertAccept
  <2>2. Owns(p)' /\ Spliced(p)' /\ CodesComeFrom(p)
    BY <1>1, <2>1 DEF MInv, Owns, Spliced, CodesComeFrom, Without, OwnerPcs, RowPcs
  <2> QED
    BY <1>3, <1>4, <1>5, <2>1, <2>2, MethodsFrame
<1> QED
  BY <1>6, <1>7

\* A method under a new id.
LEMMA CreateKeeps ==
  ASSUME CInv, MInv, NEW p \in Procs, EnrollSave(p) \/ GenerateSave(p) \/ RegisterMethod(p)
  PROVE  MInv'
<1>1. PICK id, m : /\ Create(id, m) /\ MethodShape(m) /\ m.user = op[p].user
                   /\ \/ Return(p)
                      \/ op' = [op EXCEPT ![p].pc = "registerSave", ![p].id = id]
  <2>1. \A type, codes :
          LET m == Method(op[p].user, type, codes) IN
          MethodShape(m) /\ m.user = op[p].user /\ MethodShape(Activated(m)) /\ Activated(m).user = op[p].user
    BY DEF MethodShape, Method, Activated, NoStep
  <2>2. CASE EnrollSave(p)
    <3>1. PICK id \in MethodIds : Create(id, Method(op[p].user, "totp", {}))
      BY <2>2 DEF EnrollSave
    <3> QED
      BY <2>1, <2>2, <3>1 DEF EnrollSave
  <2>3. CASE GenerateSave(p)
    <3>1. PICK id \in MethodIds : Create(id, Activated(Method(op[p].user, "backup_codes", Codes)))
      BY <2>3 DEF GenerateSave
    <3> QED
      BY <2>1, <2>3, <3>1 DEF GenerateSave
  <2>4. CASE RegisterMethod(p)
    <3>1. PICK id \in MethodIds : /\ Create(id, Activated(Method(op[p].user, "webauthn", {})))
                                  /\ op' = [op EXCEPT ![p].pc = "registerSave", ![p].id = id]
      BY <2>4 DEF RegisterMethod
    <3> QED
      BY <2>1, <3>1
  <2> QED
    BY <2>2, <2>3, <2>4
<1>2. store' = store /\ credentials' = credentials /\ spent' = spent
  BY DEF EnrollSave, GenerateSave, RegisterMethod, Writes, ghosts
<1>3. /\ id \notin DOMAIN methods /\ id \in DOMAIN methods' /\ methods'[id] = m
      /\ present' = present \union {id} /\ DOMAIN methods' = DOMAIN methods \union {id}
      /\ \A i \in DOMAIN methods : methods'[i] = methods[i]
  BY <1>1 DEF Create, IsNew
<1>4. Tables'
  BY <1>1, <1>2, <1>3 DEF MInv, Tables
<1>5. Lasts
  BY <1>2, <1>3 DEF Lasts, MInv, Tables, MethodShape
<1>6. NewProofsShow
  BY <1>2 DEF NewProofsShow
<1>7. CASE Return(p)
  BY <1>3, <1>4, <1>5, <1>6, <1>7, Returning, RestingIsFine, MethodsFrame DEF CodesComeFrom
<1>8. CASE op' = [op EXCEPT ![p].pc = "registerSave", ![p].id = id]
  <2>1. /\ Others(p) /\ op'[p].pc = "registerSave" /\ op'[p].id = id
        /\ op'[p].user = op[p].user /\ op'[p].row = op[p].row /\ op'[p].code = op[p].code
    BY <1>8 DEF CInv, Shapes, CallShape, Others, Same
  <2>2. Owns(p)' /\ Spliced(p)' /\ CodesComeFrom(p)
    BY <1>1, <1>2, <1>3, <2>1 DEF MInv, Owns, Spliced, CodesComeFrom, Without, OwnerPcs, RowPcs
  <2> QED
    BY <1>4, <1>5, <1>6, <2>1, <2>2, MethodsFrame
<1> QED
  BY <1>1, <1>7, <1>8

\* A save puts a method in the place of what the call has of it.
LEMMA SaveKeepsTables ==
  ASSUME CInv, MInv, NEW p \in Procs, op[p].pc \in RowPcs, NEW m, MethodShape(m),
         m.user = Current(p).user, store = "memory" => Current(p).lastStep <= m.lastStep,
         Save(op[p].id, m), store' = store, credentials' = credentials
  PROVE  /\ Lasts /\ Tables'
         /\ op[p].id \in DOMAIN methods /\ methods[op[p].id].user = op[p].user
         /\ DOMAIN methods' = DOMAIN methods
         /\ methods'[op[p].id].codes = m.codes
         /\ store = "memory" => methods'[op[p].id].lastStep = m.lastStep
         /\ \A i \in DOMAIN methods : i # op[p].id => methods'[i] = methods[i]
<1>1. /\ op[p].id \in DOMAIN methods /\ methods[op[p].id].user = op[p].user
      /\ m.user = op[p].user
  BY DEF MInv, Owns, Current
<1>2. /\ DOMAIN methods' = DOMAIN methods
      /\ methods'[op[p].id] = ToDomain(m)
      /\ \A i \in DOMAIN methods : i # op[p].id => methods'[i] = methods[i]
      /\ present' = present \union {op[p].id}
  BY <1>1 DEF Save
<1>3. /\ MethodShape(ToDomain(m)) /\ ToDomain(m).user = m.user /\ ToDomain(m).codes = m.codes
      /\ store = "memory" => ToDomain(m).lastStep = m.lastStep
  BY DEF ToDomain, MethodShape, NoStep
<1>4. Tables'
  BY <1>1, <1>2, <1>3 DEF MInv, Tables
<1>5. Lasts
  <2>1. \A i \in DOMAIN methods : methods[i].lastStep \in Nat
    BY DEF MInv, Tables, MethodShape
  <2> QED
    BY <1>1, <1>2, <1>3, <2>1 DEF Lasts, Current
<1> QED
  BY <1>1, <1>2, <1>3, <1>4, <1>5

\* The saves that leave the codes as they were read.
LEMMA SavingKeeps ==
  ASSUME CInv, MInv, NEW p \in Procs,
         ConfirmRecord(p) \/ TotpAccept(p) \/ TotpReject(p) \/ AssertUse(p) \/ AssertReject(p)
  PROVE  MInv'
<1> DEFINE id == op[p].id
           cur == Current(p)
<1>1. /\ store' = store /\ credentials' = credentials
      /\ op[p].pc \in RowPcs \ {"backupSave"}
      /\ op[p].code \in Nat
  BY DEF ConfirmRecord, TotpAccept, TotpReject, AssertUse, AssertReject, Writes, RowPcs, MInv, Owns
<1>2. /\ MethodShape(cur)
      /\ id \in DOMAIN methods /\ cur.user = op[p].user
      /\ cur = IF store = "memory" THEN methods[id] ELSE op[p].row
  BY <1>1 DEF MInv, Owns, Tables, Current
<1>3. Others(p) /\ Resting(p)
  <2>1. Return(p) \/ Goto(p, "assert")
    BY DEF ConfirmRecord, TotpAccept, TotpReject, AssertUse, AssertReject, Accepted
  <2>2. MethodShape(op[p].row)
    BY DEF MInv, Owns
  <2> QED
    BY <1>1, <2>1, <2>2, Returning, GoingOn DEF Resting, RowPcs, OwnerPcs
<1>4. \A i, c : <<"backup", i, c>> \in spent' => <<"backup", i, c>> \in spent
  BY DEF ConfirmRecord, TotpAccept, TotpReject, AssertUse, AssertReject, Accept, ghosts
<1>5. ASSUME NEW m, MethodShape(m), m.user = cur.user, m.codes = cur.codes,
             store = "memory" => cur.lastStep <= m.lastStep,
             \A i, s : <<"totp", i, s>> \in spent' /\ <<"totp", i, s>> \notin spent =>
               store = "memory" /\ i = id /\ s \in Nat /\ s <= m.lastStep,
             Save(id, m)
      PROVE  MInv'
  <2>1. /\ Lasts /\ Tables' /\ id \in DOMAIN methods /\ DOMAIN methods' = DOMAIN methods
        /\ methods'[id].codes = m.codes
        /\ store = "memory" => methods'[id].lastStep = m.lastStep
        /\ \A i \in DOMAIN methods : i # id => methods'[i] = methods[i]
    BY <1>1, <1>5, SaveKeepsTables
  <2>2. CodesComeFrom(p)
    BY <1>1, <1>2, <1>3, <1>5, <2>1, RestingIsFine DEF CodesComeFrom, Without
  <2>3. NewProofsShow
    BY <1>4, <1>5, <2>1 DEF NewProofsShow
  <2> QED
    BY <1>3, <2>1, <2>2, <2>3, RestingIsFine, MethodsFrame
<1> HIDE DEF cur
<1>6. \A at : LET m == RecordFailedAttempt(cur, at) IN
        MethodShape(m) /\ m.user = cur.user /\ m.codes = cur.codes /\ m.lastStep = cur.lastStep
  BY <1>2 DEF RecordFailedAttempt, MethodShape
<1>7. /\ MethodShape(Activated(cur)) /\ Activated(cur).user = cur.user
      /\ Activated(cur).codes = cur.codes /\ Activated(cur).lastStep = cur.lastStep
      /\ MethodShape(RecordUse(cur)) /\ RecordUse(cur).user = cur.user
      /\ RecordUse(cur).codes = cur.codes /\ RecordUse(cur).lastStep = cur.lastStep
  BY <1>2 DEF Activated, RecordUse, MethodShape
<1>8. cur.lastStep \in Nat
  BY <1>2 DEF MethodShape
<1>9. CASE ConfirmRecord(p)
  <2>1. spent' = spent
    BY <1>9 DEF ConfirmRecord, ghosts
  <2>2. CASE op[p].ok /\ cur.status = "active"
    <3>1. methods' = methods /\ present' = present
      BY <1>9, <2>2 DEF ConfirmRecord, cur
    <3> QED
      BY <1>1, <1>3, <2>1, <3>1, RestingIsFine, TablesRest
  <2>3. CASE ~(op[p].ok /\ cur.status = "active")
    <3>1. Save(id, IF op[p].ok THEN Activated(cur) ELSE RecordFailedAttempt(cur, op[p].at))
      BY <1>9, <2>3 DEF ConfirmRecord, cur
    <3> QED
      BY <1>5, <1>6, <1>7, <1>8, <2>1, <3>1
  <2> QED
    BY <2>2, <2>3
<1>10. CASE TotpReject(p) \/ AssertReject(p)
  <2>1. spent' = spent /\ Save(id, RecordFailedAttempt(cur, op[p].at))
    BY <1>10 DEF TotpReject, AssertReject, ghosts, cur
  <2> QED
    BY <1>5, <1>6, <1>8, <2>1
<1>11. CASE AssertUse(p)
  <2>1. /\ Save(id, RecordUse(cur))
        /\ \A i, s : <<"totp", i, s>> \in spent' => <<"totp", i, s>> \in spent
    BY <1>11 DEF AssertUse, Accept, cur
  <2> QED
    BY <1>5, <1>7, <1>8, <2>1
<1>12. CASE TotpAccept(p)
  <2> DEFINE m == RecordTotpUse(cur, op[p].code)
  <2>1. /\ Save(id, m) /\ cur.lastStep < op[p].code
        /\ \A i, s : <<"totp", i, s>> \in spent' /\ <<"totp", i, s>> \notin spent =>
             store = "memory" /\ i = id /\ s = op[p].code
    BY <1>12 DEF TotpAccept, Accept, MayUseStep, cur
  <2>2. MethodShape(m) /\ m.user = cur.user /\ m.codes = cur.codes /\ m.lastStep = op[p].code
    BY <1>1, <1>2 DEF RecordTotpUse, RecordUse, MethodShape
  <2> HIDE DEF m
  <2> QED
    BY <1>1, <1>5, <1>8, <2>1, <2>2
<1> QED
  BY <1>9, <1>10, <1>11, <1>12

\* A backup code used by a call that overlapped no other of its user is in no copy: whoever
\* holds one would be a call of that user.
LEMMA BackupSaveKeeps == ASSUME CInv, MInv, NEW p \in Procs, BackupSave(p) PROVE MInv'
<1> DEFINE id == op[p].id
           m == WithSecret(Current(p), op[p].codes)
<1>1. /\ store' = store /\ credentials' = credentials /\ op[p].pc = "backupSave"
      /\ Save(id, m)
      /\ spent' = IF op[p].alone THEN spent \union {<<"backup", id, op[p].code>>} ELSE spent
  BY DEF BackupSave, Writes, Accept
<1>2. /\ MethodShape(Current(p)) /\ op[p].code \in Nat /\ MethodShape(op[p].row)
      /\ op[p].code \notin op[p].codes
  BY <1>1 DEF MInv, Owns, Tables, Current, Spliced, RowPcs
<1>3. /\ MethodShape(m) /\ m.user = Current(p).user /\ m.codes = op[p].codes
      /\ m.lastStep = Current(p).lastStep /\ m.lastStep \in Nat
  BY <1>2 DEF WithSecret, MethodShape
<1> HIDE DEF m
<1>4. /\ Lasts /\ Tables'
      /\ id \in DOMAIN methods /\ methods[id].user = op[p].user
      /\ DOMAIN methods' = DOMAIN methods
      /\ methods'[id].codes = op[p].codes
      /\ \A i \in DOMAIN methods : i # id => methods'[i] = methods[i]
  BY <1>1, <1>3, SaveKeepsTables DEF RowPcs
<1>5. Others(p) /\ Resting(p)
  <2>1. Return(p) \/ Goto(p, "assert")
    BY DEF BackupSave, Accepted
  <2> QED
    BY <1>2, <2>1, Returning, GoingOn DEF Resting, RowPcs, OwnerPcs
<1>6. CodesComeFrom(p)
  BY <1>1, <1>4, <1>5, RestingIsFine DEF CodesComeFrom, Without
<1>7. NewProofsShow
  <2>1. ASSUME op[p].alone, NEW i, i = id, NEW c, c = op[p].code, NEW q \in Procs
        PROVE  Without(q, i, c)'
    <3>1. CASE q = p
      BY <1>5, <3>1, RestingIsFine
    <3>2. CASE q # p
      <4>1. op[q].pc \in RowPcs => op[q].id # i
        <5> SUFFICES ASSUME op[q].pc \in RowPcs, op[q].id = i PROVE FALSE
          OBVIOUS
        <5>1. op[q].user = op[p].user
          BY <1>4, <2>1 DEF MInv, Owns
        <5>2. InCall(p) /\ InCall(q)
          BY <1>1 DEF InCall, RowPcs
        <5> QED
          BY <2>1, <3>2, <5>1, <5>2 DEF CInv, AloneIsAlone
      <4> QED
        BY <1>5, <3>2, <4>1 DEF Others, Same, Without, RowPcs
    <3> QED
      BY <3>1, <3>2
  <2>2. \A i, c : <<"backup", i, c>> \in spent' /\ <<"backup", i, c>> \notin spent =>
          op[p].alone /\ i = id /\ c = op[p].code
    BY <1>1
  <2>3. \A i, s : <<"totp", i, s>> \in spent' => <<"totp", i, s>> \in spent
    BY <1>1
  <2> QED
    BY <1>2, <1>4, <2>1, <2>2, <2>3 DEF NewProofsShow
<1> QED
  BY <1>4, <1>5, <1>6, <1>7, RestingIsFine, MethodsFrame

-----------------------------------------------------------------------------
\* A call that arrives names a method of its user, if any, and holds none yet.
LEMMA BeginKeepsMethods ==
  ASSUME CInv, MInv, NEW p \in Procs, NEW call, Begin(p, call), CallShape(call),
         call.pc \notin RowPcs, call.code \in Nat, MethodShape(call.row),
         call.pc \in OwnerPcs => call.id \in DOMAIN methods /\ methods[call.id].user = call.user
  PROVE  MInv'
<1> DEFINE others == {q \in Procs : InCallFor(q, call.user)}
<1>1. /\ op' = [q \in Procs |-> IF q = p THEN [call EXCEPT !.alone = others = {}]
                                ELSE IF q \in others THEN [op[q] EXCEPT !.alone = FALSE]
                                ELSE op[q]]
      /\ store' = store /\ methods' = methods /\ credentials' = credentials /\ present' = present
      /\ spent' = spent
  BY DEF Begin, tables, ghosts
<1>2. /\ op'[p].pc = call.pc /\ op'[p].user = call.user /\ op'[p].id = call.id
      /\ op'[p].code = call.code /\ op'[p].row = call.row
  BY <1>1 DEF CallShape
<1>3. Others(p)
  BY <1>1 DEF CInv, Shapes, CallShape, Others, Same
<1>4. Owns(p)' /\ Spliced(p)' /\ \A i, c : Without(p, i, c)'
  BY <1>1, <1>2 DEF Owns, Spliced, Without, RowPcs
<1> QED
  BY <1>1, <1>3, <1>4, TablesRest

\* Each operation that a caller can ask for.
LEMMA ArriveKeeps == ASSUME IInv, NEW p \in Procs, Arrive(p) PROVE IInv'
<1>1. twice' = twice
  BY DEF Arrive, EnrollTotp, ConfirmTotpEnrollment, VerifyTotpChallenge, ConsumeBackupCode,
         GenerateBackupCodes, StepUpTotp, StepUpBackup, ConsumeMfaChallenge, Ceremony,
         RegisterWebAuthnCredential, VerifyWebAuthnAssertion, RecoverMfaAccess, Begin, ghosts
<1>2. ASSUME NEW call, Begin(p, call), CallShape(call),
             call.pc \notin RowPcs \union WonPcs \union {"loginSave", "loginIssue"},
             call.code \in Nat, MethodShape(call.row),
             call.pc \in OwnerPcs => call.id \in DOMAIN methods /\ methods[call.id].user = call.user,
             call.pc = "loginFind" => Known(call.seen) /\ challenges[call.seen].user = call.user,
             call.pc \in ConsumePcs => Known(call.seen)
      PROVE  IInv'
  BY <1>1, <1>2, BeginKeepsChallenges, BeginKeepsMethods DEF IInv
<1>3. MethodShape(NoMethod)
  BY DEF MethodShape, NoMethod, Method, NoStep
<1>4. \A step \in Presentable : step \in Nat
  BY DEF Presentable, NoStep
<1>5. \A code \in Codes : code \in Nat
  BY DEF Codes
<1>6. \A pc, u : /\ CallShape(Call(pc, u)) /\ Call(pc, u).pc = pc /\ Call(pc, u).user = u
                 /\ Call(pc, u).code \in Nat /\ Call(pc, u).row = NoMethod
  BY DEF Call, Idle, CallShape
<1>7. ASSUME NEW u, NEW pc \in {"enrollSave", "generateFind", "recoverFind"}, Begin(p, Call(pc, u))
      PROVE  IInv'
  BY <1>2, <1>3, <1>6, <1>7 DEF RowPcs, OwnerPcs, WonPcs, ConsumePcs
<1>8. ASSUME NEW id \in DOMAIN methods, NEW step \in Presentable,
             NEW pc \in {"confirmFind", "totpFind"}, Begin(p, TotpCall(pc, id, step))
      PROVE  IInv'
  <2> DEFINE call == TotpCall(pc, id, step)
  <2>1. /\ CallShape(call) /\ call.pc = pc /\ call.user = methods[id].user /\ call.id = id
        /\ call.code \in Nat /\ call.row = NoMethod
    BY <1>4 DEF TotpCall, Call, Idle, CallShape
  <2> HIDE DEF call
  <2>2. Begin(p, call)
    BY <1>8 DEF call
  <2> QED
    BY <1>2, <1>3, <2>1, <2>2 DEF RowPcs, WonPcs, ConsumePcs
<1>9. ASSUME NEW u \in Users, NEW id \in DOMAIN methods, NEW step \in Presentable,
             Begin(p, [TotpCall("stepUpFind", id, step) EXCEPT !.user = u, !.stepUp = TRUE])
      PROVE  IInv'
  <2> DEFINE call == [TotpCall("stepUpFind", id, step) EXCEPT !.user = u, !.stepUp = TRUE]
  <2>1. CallShape(call) /\ call.pc = "stepUpFind" /\ call.code \in Nat /\ call.row = NoMethod
    BY <1>4 DEF TotpCall, Call, Idle, CallShape
  <2> HIDE DEF call
  <2>2. Begin(p, call)
    BY <1>9 DEF call
  <2> QED
    BY <1>2, <1>3, <2>1, <2>2 DEF RowPcs, OwnerPcs, WonPcs, ConsumePcs
<1>10. ASSUME NEW id \in DOMAIN methods, NEW code \in Codes, NEW call,
              call \in {BackupCall(id, code), [BackupCall(id, code) EXCEPT !.stepUp = TRUE]},
              Begin(p, call)
       PROVE  IInv'
  <2>1. CallShape(call) /\ call.pc = "backupFind" /\ call.code \in Nat /\ call.row = NoMethod
    BY <1>5, <1>10 DEF BackupCall, Call, Idle, CallShape
  <2> QED
    BY <1>2, <1>3, <1>10, <2>1 DEF RowPcs, OwnerPcs, WonPcs, ConsumePcs
<1>11. ASSUME NEW c \in DOMAIN challenges, Begin(p, [Call("loginFind", challenges[c].user) EXCEPT !.seen = c])
       PROVE  IInv'
  <2> DEFINE call == [Call("loginFind", challenges[c].user) EXCEPT !.seen = c]
  <2>1. /\ CallShape(call) /\ call.pc = "loginFind" /\ call.code \in Nat /\ call.row = NoMethod
        /\ call.user = challenges[c].user /\ call.seen = c
    BY DEF Call, Idle, CallShape
  <2> HIDE DEF call
  <2>2. Begin(p, call)
    BY <1>11 DEF call
  <2> QED
    BY <1>2, <1>3, <2>1, <2>2 DEF RowPcs, OwnerPcs, WonPcs, ConsumePcs, Known
<1>12. ASSUME NEW pc \in {"registerFind", "assertFind"}, NEW kind, Ceremony(p, pc, kind)
       PROVE  IInv'
  <2>1. PICK u \in Users, c \in DOMAIN challenges, d \in Devices, counter \in 0 .. MaxCounter :
          Begin(p, [Call(pc, u) EXCEPT !.seen = c, !.device = d, !.counter = counter])
    BY <1>12 DEF Ceremony
  <2> DEFINE call == [Call(pc, u) EXCEPT !.seen = c, !.device = d, !.counter = counter]
  <2>2. CallShape(call) /\ call.pc = pc /\ call.code \in Nat /\ call.row = NoMethod /\ call.seen = c
    BY DEF Call, Idle, CallShape
  <2> HIDE DEF call
  <2>3. Begin(p, call)
    BY <2>1 DEF call
  <2> QED
    BY <1>2, <1>3, <2>2, <2>3 DEF RowPcs, OwnerPcs, WonPcs, Known
<1> QED
  <2>1. CASE (\E u \in Users : EnrollTotp(p, u) \/ GenerateBackupCodes(p, u) \/ RecoverMfaAccess(p, u))
    BY <1>7, <2>1 DEF EnrollTotp, GenerateBackupCodes, RecoverMfaAccess
  <2>2. CASE ConfirmTotpEnrollment(p) \/ VerifyTotpChallenge(p)
    BY <1>8, <2>2 DEF ConfirmTotpEnrollment, VerifyTotpChallenge
  <2>3. CASE StepUpTotp(p)
    BY <1>9, <2>3 DEF StepUpTotp
  <2>4. CASE ConsumeBackupCode(p) \/ StepUpBackup(p)
    BY <1>10, <2>4 DEF ConsumeBackupCode, StepUpBackup
  <2>5. CASE ConsumeMfaChallenge(p)
    BY <1>11, <2>5 DEF ConsumeMfaChallenge
  <2>6. CASE RegisterWebAuthnCredential(p) \/ VerifyWebAuthnAssertion(p)
    BY <1>12, <2>6 DEF RegisterWebAuthnCredential, VerifyWebAuthnAssertion
  <2> QED
    BY <2>1, <2>2, <2>3, <2>4, <2>5, <2>6 DEF Arrive

\* No step accepts a proof whose use had to be its last.
LEMMA NothingTwice == ASSUME IInv, NEW p \in Procs, Continue(p) PROVE twice' = twice
<1>1. CASE TotpAccept(p)
  <2>1. /\ op[p].pc = "totpRecord" /\ Current(p).lastStep < op[p].code
        /\ twice' = IF <<"totp", op[p].id, op[p].code>> \in spent
                    THEN twice \union {<<"totp", op[p].id, op[p].code>>} ELSE twice
    BY <1>1 DEF TotpAccept, Accept, MayUseStep
  <2>2. ASSUME <<"totp", op[p].id, op[p].code>> \in spent PROVE FALSE
    <3>1. /\ store = "memory" /\ op[p].id \in DOMAIN methods
          /\ op[p].code \in Nat /\ op[p].code <= methods[op[p].id].lastStep
      BY <2>2 DEF IInv, MInv, StepsAreBehind
    <3>2. methods[op[p].id].lastStep \in Nat
      BY <3>1 DEF IInv, MInv, Tables, MethodShape
    <3> QED
      BY <2>1, <3>1, <3>2 DEF Current
  <2> QED
    BY <2>1, <2>2
<1>2. CASE BackupSave(p)
  <2>1. /\ op[p].pc = "backupSave"
        /\ twice' = IF <<"backup", op[p].id, op[p].code>> \in spent
                    THEN twice \union {<<"backup", op[p].id, op[p].code>>} ELSE twice
    BY <1>2 DEF BackupSave, Accept
  <2>2. <<"backup", op[p].id, op[p].code>> \notin spent
    BY <2>1 DEF IInv, MInv, CodesAreGone, Without
  <2> QED
    BY <2>1, <2>2
<1>3. CASE LoginIssue(p)
  BY <1>3, LoginIssueKeeps DEF IInv
<1>4. CASE RegisterSave(p) \/ AssertUse(p)
  BY <1>4, RedeemKeeps DEF IInv
<1> QED
  BY <1>1, <1>2, <1>3, <1>4
  DEF Continue, EnrollSave, TotpFind, ConfirmRecord, TotpReject, BackupFind, GenerateFind, DeleteListed,
      GenerateSave, StepUpFind, RecordAssertion, LoginFind, LoginSave, CeremonyFind, CeremonyConsume,
      RegisterCheck, RegisterMethod, AssertRead, AssertAccept, AssertReject, RecoverFind, RecoverRevoke,
      Reads, Writes, ghosts

\* Every step of the next-state relation, and the stuttering one.
LEMMA NextKeeps == IInv /\ [Next]_vars => IInv'
<1> SUFFICES ASSUME IInv, [Next]_vars PROVE IInv'
  OBVIOUS
<1>1. CInv /\ MInv /\ twice = {}
  BY DEF IInv
<1>2. ASSUME NEW p \in Procs, Arrive(p) PROVE IInv'
  BY <1>2, ArriveKeeps
<1>3. ASSUME NEW p \in Procs, Continue(p) \/ Fails(p) PROVE IInv'
  <2>1. CInv'
    BY <1>1, <1>3, LoginFindKeeps, LoginSaveKeeps, LoginIssueKeeps, CeremonyConsumeKeeps, RedeemKeeps,
       RestIsOffChallenges, OffChallengesKeeps DEF Continue
  <2>2. MInv'
    BY <1>1, <1>3, IdlingKeeps, FindingKeeps, StepUpKeeps, CredentialKeeps, CreateKeeps, SavingKeeps,
       BackupSaveKeeps DEF Continue
  <2>3. twice' = twice
    BY <1>3, NothingTwice DEF Fails, ghosts
  <2> QED
    BY <1>1, <2>1, <2>2, <2>3 DEF IInv
<1>4. ASSUME UNCHANGED <<store, methods, present, credentials, op, spent, twice>> PROVE MInv' /\ twice' = {}
  BY <1>1, <1>4 DEF MInv, Tables, Owns, Spliced, StepsAreBehind, CodesAreGone, Without
<1>5. ASSUME NEW u \in Users, IssueChallenge(u) PROVE IInv'
  <2>1. UNCHANGED <<store, methods, present, credentials, op, spent, twice>>
    BY <1>5 DEF IssueChallenge, ghosts
  <2> QED
    BY <1>1, <1>4, <1>5, <2>1, IssueKeeps DEF IInv
<1>6. CASE Tick \/ UNCHANGED vars
  <2>1. UNCHANGED <<store, methods, present, credentials, challenges, op, spent, twice>>
    BY <1>6 DEF Tick, vars, tables, ghosts
  <2>2. CInv'
    BY <1>1, <2>1 DEF CInv, Shapes, AloneIsAlone, InCall, Presented, Known, KnownUsed, WonOnce, RedeemedIsClosed
  <2> QED
    BY <1>4, <2>1, <2>2 DEF IInv
<1> QED
  BY <1>2, <1>3, <1>5, <1>6 DEF Next

\* A TOTP step, a login challenge, a WebAuthn challenge and a backup code whose use has to be
\* their last are never accepted again, whatever the calls that overlap and whichever of them
\* fail (recordTotpUse, ConsumeBackupCode, ConsumeMfaChallenge, the WebAuthn consume).
THEOREM ProofsStaySingleUse == Spec => []ProofsAreSingleUse
<1>1. IInv => ProofsAreSingleUse
  BY DEF IInv, ProofsAreSingleUse
<1> QED
  BY <1>1, InitHolds, NextKeeps, PTL DEF Spec

-----------------------------------------------------------------------------
(* Recovery and signature counters                                         *)

\* The rest of what a call looks like.
Ceremonial(c) == {"todo", "device", "counter", "ok"} \subseteq DOMAIN c /\ c.counter \in Nat

\* A call does not work on a method that a recovery removed.
OffCleared(p) == op[p].pc \in RowPcs => op[p].id \notin cleared

\* A recovery that overlaps no other call of the user deletes all that is left.
Lists(p) == op[p].pc = "recoverDelete" /\ op[p].alone => MethodsOf(op[p].user) \subseteq op[p].todo

\* What a call that overlaps no other knows of a device of its user.
Fresh(p) ==
    op[p].alone /\ op[p].device \in DOMAIN credentials /\ credentials[op[p].device].user = op[p].user =>
      /\ op[p].pc \notin {"registerMethod", "registerSave"}
      /\ op[p].pc = "assertRecord" => op[p].codes = {credentials[op[p].device].counter}

AInv ==
    /\ \A p \in Procs : Ceremonial(op[p])
    /\ \A d \in DOMAIN credentials : credentials[d].counter \in Nat
    /\ cleared \subseteq DOMAIN methods /\ present \intersect cleared = {}
    /\ \A p \in Procs : OffCleared(p) /\ Lists(p) /\ Fresh(p)

Whole == IInv /\ AInv

\* Nothing was cleared yet, and a call in progress there is none.
LEMMA WholeHoldsAtFirst == Init => Whole
<1> SUFFICES ASSUME Init PROVE Whole
  OBVIOUS
<1>1. op = [p \in Procs |-> Idle] /\ cleared = {}
  BY DEF Init
<1>2. \A d \in DOMAIN credentials : credentials[d].counter \in Nat
  <2>1. CASE credentials = << >>
    BY <2>1
  <2>2. ASSUME NEW u \in Users, NEW d \in Devices, NEW counter \in {0, 1},
               credentials = [k \in {d} |-> Credential(u, 3, counter)]
        PROVE  \A k \in DOMAIN credentials : credentials[k].counter \in Nat
    BY <2>2 DEF Credential
  <2> QED
    BY <2>1, <2>2 DEF Init, StoreInit
<1>3. AInv
  BY <1>1, <1>2 DEF AInv, Ceremonial, OffCleared, Lists, Fresh, RowPcs, Idle
<1> QED
  BY <1>3, InitHolds DEF Whole

\* A step of a call under way: it ends, or goes on for the same user with the same device.
Moves(p) ==
    /\ op[p].pc # "idle"
    /\ \A q \in Procs : q # p => op'[q] = op[q]
    /\ Ceremonial(op'[p])
    /\ op'[p].pc # op[p].pc \/ op[p].pc \in {"generateDelete", "recoverDelete"}
    /\ \/ op'[p].pc = "idle"
       \/ op'[p].user = op[p].user /\ op'[p].alone = op[p].alone /\ op'[p].device = op[p].device

\* A call that returns.
LEMMA ReturnMoves ==
  ASSUME Whole, NEW p \in Procs, InCall(p), Return(p) PROVE Moves(p) /\ op'[p].pc = "idle"
  BY DEF Whole, IInv, CInv, Shapes, InCall, Return, Idle, Moves, Ceremonial

\* A call that goes on to its next statement.
LEMMA GotoMoves ==
  ASSUME Whole, NEW p \in Procs, InCall(p), NEW pc, Goto(p, pc), pc # op[p].pc
  PROVE  /\ Moves(p) /\ op'[p].pc = pc /\ op'[p].id = op[p].id /\ op'[p].todo = op[p].todo
<1>1. DOMAIN op = Procs /\ CallShape(op[p]) /\ Ceremonial(op[p])
  BY DEF Whole, IInv, CInv, Shapes, AInv
<1> QED
  BY <1>1 DEF InCall, Goto, CallShape, Ceremonial, Moves

\* The frame of both: what is left to show of a step of p.
LEMMA AloneFrame ==
  ASSUME Whole, NEW p \in Procs, Moves(p), cleared' = cleared,
         \A i \in DOMAIN methods : i \in DOMAIN methods' /\ methods'[i].user = methods[i].user,
         present' \intersect cleared = {},
         \A i \in present' : i \notin present => methods'[i].user = op[p].user,
         \A d \in DOMAIN credentials' :
           /\ credentials'[d].counter \in Nat
           /\ \/ credentials'[d].user = op[p].user
              \/ d \in DOMAIN credentials /\ credentials'[d] = credentials[d],
         OffCleared(p)', Lists(p)', Fresh(p)'
  PROVE  AInv'
<1>1. \A q \in Procs : Ceremonial(op'[q])
  BY DEF Whole, AInv, Moves
<1>2. ASSUME NEW q \in Procs, q # p PROVE OffCleared(q)' /\ Lists(q)' /\ Fresh(q)'
  <2>1. op'[q] = op[q] /\ OffCleared(q) /\ Lists(q) /\ Fresh(q)
    BY <1>2 DEF Whole, AInv, Moves
  <2>2. op[q].alone /\ op[q].pc # "idle" => op[q].user # op[p].user
    BY <1>2 DEF Whole, IInv, CInv, AloneIsAlone, InCall, Moves
  <2>3. Lists(q)'
    BY <2>1, <2>2 DEF Lists, MethodsOf, Whole, IInv, MInv, Tables
  <2>4. Fresh(q)'
    BY <2>1, <2>2 DEF Fresh
  <2> QED
    BY <2>1, <2>3, <2>4 DEF OffCleared
<1>3. cleared' \subseteq DOMAIN methods' /\ present' \intersect cleared' = {}
  BY DEF Whole, AInv
<1> QED
  BY <1>1, <1>2, <1>3 DEF AInv

\* The statements by which a call begins, goes on reading or ends, and that store no method.
LEMMA QuietKeeps ==
  ASSUME Whole, NEW p \in Procs,
         \/ GenerateFind(p) \/ DeleteListed(p) \/ RecordAssertion(p) \/ StepUpFind(p)
         \/ LoginFind(p) \/ LoginSave(p) \/ LoginIssue(p)
         \/ CeremonyFind(p) \/ CeremonyConsume(p) \/ RegisterCheck(p)
         \/ RecoverFind(p) \/ Fails(p)
  PROVE  AInv'
<1>1. /\ methods' = methods /\ credentials' = credentials /\ present' \subseteq present
      /\ cleared' = cleared /\ InCall(p)
  <2>1. CASE LoginIssue(p)
    BY <2>1 DEF LoginIssue, Accept, InCall
  <2>2. CASE ~LoginIssue(p)
    BY <2>2 DEF GenerateFind, DeleteListed, RecordAssertion, LoginFind, LoginSave, CeremonyFind,
           CeremonyConsume, RegisterCheck, RecoverFind, StepUpFind, Fails, Reads, Writes, Drop,
           tables, ghosts, InCall
  <2> QED
    BY <2>1, <2>2
<1>2. ASSUME Moves(p), OffCleared(p)', Lists(p)', Fresh(p)' PROVE AInv'
  <2>1. present' \intersect cleared = {}
    BY <1>1 DEF Whole, AInv
  <2>2. \A d \in DOMAIN credentials' : credentials'[d].counter \in Nat
    BY <1>1 DEF Whole, AInv
  <2> QED
    BY <1>1, <1>2, <2>1, <2>2, AloneFrame
<1>3. CASE Return(p)
  <2>1. Moves(p) /\ op'[p].pc = "idle"
    BY <1>1, <1>3, ReturnMoves
  <2> QED
    BY <1>2, <2>1 DEF OffCleared, Lists, Fresh, RowPcs
<1>4. ASSUME NEW pc \in {"totpFind", "loginSave", "loginIssue", "registerConsume", "assertConsume",
                         "assertRead", "registerCheck", "registerMethod"},
             Goto(p, pc), pc # op[p].pc, pc = "registerMethod" => op[p].device \notin DOMAIN credentials
      PROVE  AInv'
  <2>1. Moves(p) /\ op'[p].pc = pc
    BY <1>1, <1>4, GotoMoves
  <2>2. OffCleared(p)' /\ Lists(p)'
    BY <2>1 DEF OffCleared, Lists, RowPcs
  <2>3. Fresh(p)'
    BY <1>1, <1>4, <2>1 DEF Fresh, Moves
  <2> QED
    BY <1>2, <2>1, <2>2, <2>3
<1>5. DOMAIN op = Procs /\ CallShape(op[p]) /\ Ceremonial(op[p]) /\ Lists(p)
  BY DEF Whole, IInv, CInv, Shapes, AInv
<1>6. CASE GenerateFind(p) \/ RecoverFind(p)
  <2>1. PICK pc \in {"generateDelete", "recoverDelete"} :
          /\ op' = [op EXCEPT ![p].pc = pc, ![p].todo = IF pc = "recoverDelete" THEN MethodsOf(op[p].user)
                                                        ELSE ActiveOf(op[p].user, "backup_codes")]
          /\ op[p].pc = IF pc = "recoverDelete" THEN "recoverFind" ELSE "generateFind"
          /\ present' = present
    BY <1>6 DEF GenerateFind, RecoverFind, ToClear, Reads, tables
  <2>2. /\ op'[p].pc = pc /\ op'[p].user = op[p].user
        /\ pc = "recoverDelete" => op'[p].todo = MethodsOf(op[p].user)
    BY <1>5, <2>1 DEF CallShape, Ceremonial
  <2>3. Moves(p)
    BY <1>5, <2>1 DEF CallShape, Ceremonial, Moves
  <2>4. OffCleared(p)' /\ Lists(p)' /\ Fresh(p)'
    BY <1>1, <2>1, <2>2 DEF OffCleared, Lists, Fresh, RowPcs, MethodsOf
  <2> QED
    BY <1>2, <2>3, <2>4
<1>7. CASE DeleteListed(p) /\ ~Return(p)
  <2>1. PICK id : /\ op' = [op EXCEPT ![p].todo = @ \ {id}]
                  /\ op[p].pc \in {"generateDelete", "recoverDelete"}
                  /\ present' = present \ {id}
    BY <1>7 DEF DeleteListed, Drop
  <2>2. /\ op'[p].pc = op[p].pc /\ op'[p].user = op[p].user /\ op'[p].alone = op[p].alone
        /\ op'[p].todo = op[p].todo \ {id}
    BY <1>5, <2>1 DEF CallShape, Ceremonial
  <2>3. Moves(p)
    BY <1>5, <2>1 DEF CallShape, Ceremonial, Moves
  <2>4. OffCleared(p)' /\ Fresh(p)'
    BY <2>1, <2>2 DEF OffCleared, Fresh, RowPcs
  <2>5. Lists(p)'
    BY <1>1, <1>5, <2>1, <2>2 DEF Lists, MethodsOf
  <2> QED
    BY <1>2, <2>3, <2>4, <2>5
<1>8. \/ Return(p) \/ GenerateFind(p) \/ (DeleteListed(p) /\ ~Return(p)) \/ RecoverFind(p)
      \/ \E pc \in {"totpFind", "loginSave", "loginIssue", "registerConsume", "assertConsume",
                     "assertRead", "registerCheck", "registerMethod"} :
           /\ Goto(p, pc) /\ pc # op[p].pc
           /\ pc = "registerMethod" => op[p].device \notin DOMAIN credentials
  <2>1. CASE RecordAssertion(p) \/ LoginIssue(p) \/ Fails(p)
    BY <2>1 DEF RecordAssertion, LoginIssue, Fails
  <2>2. CASE StepUpFind(p) \/ LoginFind(p) \/ LoginSave(p)
    BY <2>2 DEF StepUpFind, LoginFind, LoginSave
  <2>3. CASE CeremonyFind(p) \/ CeremonyConsume(p)
    BY <2>3 DEF CeremonyFind, CeremonyConsume
  <2>4. CASE RegisterCheck(p)
    BY <2>4 DEF RegisterCheck
  <2> QED
    BY <2>1, <2>2, <2>3, <2>4
<1> QED
  BY <1>3, <1>4, <1>6, <1>7, <1>8

\* What a call finds has not been cleared, and the counter it read is the stored one.
LEMMA FindingKeepsCleared ==
  ASSUME Whole, NEW p \in Procs, TotpFind(p) \/ BackupFind(p) \/ AssertRead(p)
  PROVE  AInv'
<1>1. /\ methods' = methods /\ credentials' = credentials /\ present' = present
      /\ cleared' = cleared /\ InCall(p)
  BY DEF TotpFind, BackupFind, AssertRead, Reads, tables, ghosts, InCall
<1>2. ASSUME Moves(p), OffCleared(p)', Lists(p)', Fresh(p)' PROVE AInv'
  <2>1. present' \intersect cleared = {} /\ \A d \in DOMAIN credentials' : credentials'[d].counter \in Nat
    BY <1>1 DEF Whole, AInv
  <2> QED
    BY <1>1, <1>2, <2>1, AloneFrame
<1>3. CASE Return(p)
  <2>1. Moves(p) /\ op'[p].pc = "idle"
    BY <1>1, <1>3, ReturnMoves
  <2> QED
    BY <1>2, <2>1 DEF OffCleared, Lists, Fresh, RowPcs
<1>4. DOMAIN op = Procs /\ CallShape(op[p]) /\ Ceremonial(op[p])
  BY DEF Whole, IInv, CInv, Shapes, AInv
<1>5. CASE ~Return(p)
  <2>1. PICK id \in present, pc \in RowPcs :
          /\ DOMAIN op' = DOMAIN op
          /\ \A q \in Procs : q # p => op'[q] = op[q]
          /\ op'[p].pc = pc /\ op'[p].id = id /\ op[p].pc \notin RowPcs
          /\ op'[p].user = op[p].user /\ op'[p].alone = op[p].alone /\ op'[p].device = op[p].device
          /\ Ceremonial(op'[p])
          /\ pc = "assertRecord" => op'[p].codes = {credentials[op[p].device].counter}
    <3>1. CASE TotpFind(p)
      <4>1. PICK pc \in {"totpRecord", "confirmRecord"} :
              /\ op' = [Holding(p, pc, op[p].id) EXCEPT ![p].ok = InDriftWindow(op[p].code, now)]
              /\ op[p].id \in present /\ op[p].pc \in {"confirmFind", "totpFind"}
        BY <1>5, <3>1 DEF TotpFind
      <4> QED
        BY <1>4, <4>1 DEF Holding, CallShape, Ceremonial, RowPcs
    <3>2. CASE BackupFind(p)
      <4>1. PICK id \in present :
              /\ op' = [Holding(p, "backupSave", id) EXCEPT ![p].codes = methods[id].codes \ {op[p].code}]
              /\ op[p].pc = "backupFind"
        BY <1>5, <3>2 DEF BackupFind, ActiveOf, MethodsOf
      <4> QED
        BY <1>4, <4>1 DEF Holding, CallShape, Ceremonial, RowPcs
    <3>3. CASE AssertRead(p)
      <4>1. PICK id \in present, valid \in BOOLEAN :
              /\ op' = [Holding(p, "assertRecord", id) EXCEPT
                          ![p].ok = valid, ![p].codes = {credentials[op[p].device].counter}]
              /\ op[p].pc = "assertRead"
        BY <1>5, <3>3 DEF AssertRead
      <4> QED
        BY <1>4, <4>1 DEF Holding, CallShape, Ceremonial, RowPcs
    <3> QED
      BY <3>1, <3>2, <3>3
  <2>2. Moves(p)
    BY <1>1, <2>1 DEF Moves, InCall
  <2>3. OffCleared(p)'
    BY <1>1, <2>1 DEF OffCleared, Whole, AInv
  <2>4. Lists(p)' /\ Fresh(p)'
    BY <1>1, <2>1 DEF Lists, Fresh, RowPcs
  <2> QED
    BY <1>2, <2>2, <2>3, <2>4
<1> QED
  BY <1>3, <1>5

\* A save puts back a method that no recovery removed.
LEMMA SavingKeepsCleared ==
  ASSUME Whole, NEW p \in Procs,
         \/ ConfirmRecord(p) \/ TotpAccept(p) \/ TotpReject(p) \/ BackupSave(p)
         \/ AssertUse(p) \/ AssertReject(p)
  PROVE  AInv'
<1>1. /\ store' = store /\ credentials' = credentials /\ cleared' = cleared
      /\ op[p].pc \in RowPcs /\ InCall(p)
  BY DEF ConfirmRecord, TotpAccept, TotpReject, BackupSave, AssertUse, AssertReject, Writes, Accept,
         ghosts, RowPcs, InCall
<1>2. op[p].id \notin cleared /\ op[p].id \in DOMAIN methods /\ methods[op[p].id].user = op[p].user
  BY <1>1 DEF Whole, AInv, OffCleared, IInv, MInv, Owns
<1>3. /\ \A i \in DOMAIN methods : i \in DOMAIN methods' /\ methods'[i].user = methods[i].user
      /\ present' \subseteq present \union {op[p].id}
  <2>1. CASE methods' = methods /\ present' = present
    BY <2>1
  <2>2. ASSUME NEW m, Save(op[p].id, m), m.user = Current(p).user PROVE <1>3
    <3>1. m.user = op[p].user
      BY <1>1, <2>2 DEF Whole, IInv, MInv, Owns, Current
    <3>2. ToDomain(m).user = m.user
      <4>1. CASE store = "memory"
        BY <4>1 DEF ToDomain
      <4> QED
        BY <4>1 DEF ToDomain
    <3> QED
      BY <1>2, <2>2, <3>1, <3>2 DEF Save
  <2>3. \A c : /\ Activated(c).user = c.user /\ RecordUse(c).user = c.user
              /\ \A at : RecordFailedAttempt(c, at).user = c.user
              /\ \A step : RecordTotpUse(c, step).user = c.user
              /\ \A codes : WithSecret(c, codes).user = c.user
    BY DEF Activated, RecordUse, RecordFailedAttempt, RecordTotpUse, WithSecret
  <2>4. CASE ConfirmRecord(p)
    BY <2>1, <2>2, <2>3, <2>4 DEF ConfirmRecord
  <2>5. CASE TotpAccept(p) \/ TotpReject(p) \/ AssertReject(p)
    BY <2>2, <2>3, <2>5 DEF TotpAccept, TotpReject, AssertReject
  <2>6. CASE BackupSave(p) \/ AssertUse(p)
    BY <2>2, <2>3, <2>6 DEF BackupSave, AssertUse
  <2> QED
    BY <2>4, <2>5, <2>6
<1>4. /\ present' \intersect cleared = {}
      /\ \A i \in present' : i \notin present => methods'[i].user = op[p].user
      /\ \A d \in DOMAIN credentials' : credentials'[d].counter \in Nat
  BY <1>1, <1>2, <1>3 DEF Whole, AInv
<1>5. Moves(p) /\ op'[p].pc \in {"idle", "assert"}
  <2>1. Return(p) \/ Goto(p, "assert")
    BY DEF ConfirmRecord, TotpAccept, TotpReject, BackupSave, AssertUse, AssertReject, Accepted
  <2> QED
    BY <1>1, <2>1, ReturnMoves, GotoMoves DEF RowPcs
<1>6. OffCleared(p)' /\ Lists(p)' /\ Fresh(p)'
  BY <1>5 DEF OffCleared, Lists, Fresh, RowPcs
<1> QED
  BY <1>1, <1>3, <1>4, <1>5, <1>6, AloneFrame

\* A method under a new id is none that was cleared.
LEMMA CreatingKeepsCleared ==
  ASSUME Whole, NEW p \in Procs, EnrollSave(p) \/ GenerateSave(p) \/ RegisterMethod(p)
  PROVE  AInv'
<1>1. /\ credentials' = credentials /\ cleared' = cleared /\ InCall(p)
      /\ op[p].pc \in {"enrollSave", "generateDelete", "registerMethod"}
  BY DEF EnrollSave, GenerateSave, RegisterMethod, Writes, ghosts, InCall
<1>2. PICK id, m : /\ Create(id, m) /\ m.user = op[p].user
                   /\ \/ Return(p)
                      \/ /\ op' = [op EXCEPT ![p].pc = "registerSave", ![p].id = id]
                         /\ op[p].pc = "registerMethod"
  <2>1. \A type, codes : /\ Method(op[p].user, type, codes).user = op[p].user
                         /\ Activated(Method(op[p].user, type, codes)).user = op[p].user
    BY DEF Method, Activated
  <2> QED
    BY <2>1 DEF EnrollSave, GenerateSave, RegisterMethod
<1>3. /\ id \notin DOMAIN methods /\ methods'[id] = m /\ present' = present \union {id}
      /\ \A i \in DOMAIN methods : i \in DOMAIN methods' /\ methods'[i] = methods[i]
  BY <1>2 DEF Create, IsNew
<1>4. /\ present' \intersect cleared = {}
      /\ \A i \in present' : i \notin present => methods'[i].user = op[p].user
      /\ \A d \in DOMAIN credentials' : credentials'[d].counter \in Nat
  BY <1>1, <1>2, <1>3 DEF Whole, AInv
<1>5. ASSUME Moves(p), OffCleared(p)', Lists(p)', Fresh(p)' PROVE AInv'
  BY <1>1, <1>3, <1>4, <1>5, AloneFrame
<1>6. CASE Return(p)
  BY <1>1, <1>5, <1>6, ReturnMoves DEF OffCleared, Lists, Fresh, RowPcs
<1>7. CASE op' = [op EXCEPT ![p].pc = "registerSave", ![p].id = id] /\ op[p].pc = "registerMethod"
  <2>1. DOMAIN op = Procs /\ CallShape(op[p]) /\ Ceremonial(op[p]) /\ Fresh(p)
    BY DEF Whole, IInv, CInv, Shapes, AInv
  <2>2. op'[p].pc = "registerSave" /\ Moves(p)
    BY <1>7, <2>1 DEF CallShape, Ceremonial, Moves
  <2>3. OffCleared(p)' /\ Lists(p)' /\ Fresh(p)'
    BY <1>1, <1>7, <2>1, <2>2 DEF OffCleared, Lists, Fresh, RowPcs, Moves
  <2> QED
    BY <1>5, <2>2, <2>3
<1> QED
  BY <1>2, <1>6, <1>7

\* A call writes the credential of its device.
LEMMA CredentialKeepsCleared ==
  ASSUME Whole, NEW p \in Procs, RegisterSave(p) \/ AssertAccept(p)
  PROVE  AInv'
<1>1. /\ methods' = methods /\ present' = present /\ cleared' = cleared /\ InCall(p)
      /\ SaveCredential(op[p].device, Credential(op[p].user, op[p].id, op[p].counter))
  BY DEF RegisterSave, AssertAccept, Accept, ghosts, InCall
<1>2. Ceremonial(op[p]) /\ OffCleared(p)
  BY DEF Whole, AInv
<1>3. \A d \in DOMAIN credentials' :
        /\ credentials'[d].counter \in Nat
        /\ \/ credentials'[d].user = op[p].user
           \/ d \in DOMAIN credentials /\ credentials'[d] = credentials[d]
  <2>1. \A d \in DOMAIN credentials : credentials[d].counter \in Nat
    BY DEF Whole, AInv
  <2>2. op[p].counter \in Nat
    BY <1>2 DEF Ceremonial
  <2> DEFINE new == Credential(op[p].user, op[p].id, op[p].counter)
  <2>3. new.user = op[p].user /\ new.counter = op[p].counter
    BY DEF Credential
  <2> HIDE DEF new
  <2>4. \A d \in DOMAIN credentials' :
          \/ credentials'[d] = new
          \/ d \in DOMAIN credentials /\ credentials'[d] = credentials[d]
    BY <1>1 DEF SaveCredential, new
  <2> QED
    BY <2>1, <2>2, <2>3, <2>4
<1>4. Moves(p) /\ OffCleared(p)' /\ op'[p].pc \in {"idle", "assertUse"}
  <2>1. CASE RegisterSave(p)
    BY <1>1, <2>1, ReturnMoves DEF RegisterSave, OffCleared, RowPcs
  <2>2. CASE AssertAccept(p)
    <3>1. op[p].pc = "assertRecord" /\ Goto(p, "assertUse")
      BY <2>2 DEF AssertAccept
    <3>2. Moves(p) /\ op'[p].pc = "assertUse" /\ op'[p].id = op[p].id
      BY <1>1, <3>1, GotoMoves
    <3> QED
      BY <1>1, <1>2, <3>1, <3>2 DEF OffCleared, RowPcs
  <2> QED
    BY <2>1, <2>2
<1>5. Lists(p)' /\ Fresh(p)'
  BY <1>4 DEF Lists, Fresh
<1>6. present' \intersect cleared = {}
  BY <1>1 DEF Whole, AInv
<1> QED
  BY <1>1, <1>3, <1>4, <1>5, <1>6, AloneFrame

\* A recovery that overlapped no call of the user deleted all the methods there were, and
\* nobody holds one: whoever does is a call of that user.
LEMMA RevokingKeepsCleared == ASSUME Whole, NEW p \in Procs, RecoverRevoke(p) PROVE AInv'
<1> DEFINE theirs == {id \in DOMAIN methods : methods[id].user = op[p].user}
<1>1. /\ op[p].pc = "recoverDelete" /\ op[p].todo = {} /\ Return(p) /\ InCall(p)
      /\ UNCHANGED <<methods, present, credentials>>
      /\ cleared' = IF op[p].alone THEN cleared \union theirs ELSE cleared
  BY DEF RecoverRevoke, InCall
<1>2. Moves(p) /\ op'[p].pc = "idle"
  BY <1>1, ReturnMoves
<1>3. op[p].alone => present \intersect theirs = {}
  BY <1>1 DEF Whole, AInv, Lists, MethodsOf
<1>4. cleared' \subseteq DOMAIN methods /\ present \intersect cleared' = {}
  BY <1>1, <1>3 DEF Whole, AInv
<1>5. ASSUME NEW q \in Procs PROVE OffCleared(q)' /\ Lists(q)' /\ Fresh(q)' /\ Ceremonial(op'[q])
  <2>1. CASE q = p
    BY <1>2, <2>1 DEF Moves, OffCleared, Lists, Fresh, RowPcs
  <2>2. CASE q # p
    <3>1. op'[q] = op[q] /\ OffCleared(q) /\ Lists(q) /\ Fresh(q) /\ Ceremonial(op[q])
      BY <1>2, <2>2 DEF Moves, Whole, AInv
    <3>2. op[p].alone /\ op[q].pc \in RowPcs => op[q].id \notin theirs
      <4>1. op[p].alone /\ op[q].pc # "idle" => op[q].user # op[p].user
        BY <1>1, <2>2 DEF Whole, IInv, CInv, AloneIsAlone, InCall
      <4>2. op[q].pc \in RowPcs => methods[op[q].id].user = op[q].user /\ op[q].pc # "idle"
        BY DEF Whole, IInv, MInv, Owns, RowPcs
      <4> QED
        BY <4>1, <4>2
    <3>3. OffCleared(q)'
      BY <1>1, <3>1, <3>2 DEF OffCleared
    <3> QED
      BY <1>1, <3>1, <3>3 DEF Lists, Fresh, MethodsOf
  <2> QED
    BY <2>1, <2>2
<1> QED
  BY <1>1, <1>4, <1>5 DEF Whole, AInv

\* A call that arrives holds nothing yet, and the others of its user learn of it.
LEMMA ArrivingKeepsCleared == ASSUME Whole, NEW p \in Procs, Arrive(p) PROVE AInv'
<1>1. ASSUME NEW call, Begin(p, call), CallShape(call), Ceremonial(call),
             call.pc \in {"enrollSave", "generateFind", "recoverFind", "confirmFind", "totpFind",
                          "stepUpFind", "backupFind", "loginFind", "registerFind", "assertFind"}
      PROVE  AInv'
  <2> DEFINE others == {q \in Procs : InCallFor(q, call.user)}
  <2>1. /\ op' = [q \in Procs |-> IF q = p THEN [call EXCEPT !.alone = others = {}]
                                  ELSE IF q \in others THEN [op[q] EXCEPT !.alone = FALSE]
                                  ELSE op[q]]
        /\ UNCHANGED <<methods, present, credentials, cleared>>
    BY <1>1 DEF Begin, tables, ghosts
  <2>2. op'[p].pc = call.pc /\ Ceremonial(op'[p])
    BY <1>1, <2>1 DEF CallShape, Ceremonial
  <2>3. OffCleared(p)' /\ Lists(p)' /\ Fresh(p)'
    BY <1>1, <2>2 DEF OffCleared, Lists, Fresh, RowPcs
  <2>4. ASSUME NEW q \in Procs, q # p
        PROVE  OffCleared(q)' /\ Lists(q)' /\ Fresh(q)' /\ Ceremonial(op'[q])
    <3>1. CallShape(op[q]) /\ Ceremonial(op[q]) /\ OffCleared(q) /\ Lists(q) /\ Fresh(q)
      BY DEF Whole, IInv, CInv, Shapes, AInv
    <3>2. op'[q] \in {op[q], [op[q] EXCEPT !.alone = FALSE]}
      BY <2>1, <2>4
    <3> HIDE DEF others
    <3>3. /\ op'[q].pc = op[q].pc /\ op'[q].user = op[q].user /\ op'[q].id = op[q].id
          /\ op'[q].todo = op[q].todo /\ op'[q].device = op[q].device /\ op'[q].codes = op[q].codes
          /\ op'[q].alone => op[q].alone
          /\ Ceremonial(op'[q])
      BY <3>1, <3>2 DEF CallShape, Ceremonial
    <3> QED
      BY <2>1, <3>1, <3>3 DEF OffCleared, Lists, Fresh, MethodsOf
  <2> QED
    BY <2>1, <2>2, <2>3, <2>4 DEF Whole, AInv
<1>2. \A pc, u : /\ CallShape(Call(pc, u)) /\ Ceremonial(Call(pc, u)) /\ Call(pc, u).pc = pc
  BY DEF Call, Idle, CallShape, Ceremonial
<1>3. ASSUME NEW id, NEW step, NEW pc, NEW u
      PROVE  LET call == TotpCall(pc, id, step)
                 mine == [call EXCEPT !.user = u, !.stepUp = TRUE]
             IN  /\ CallShape(call) /\ Ceremonial(call) /\ call.pc = pc
                 /\ CallShape(mine) /\ Ceremonial(mine) /\ mine.pc = pc
  BY DEF TotpCall, Call, Idle, CallShape, Ceremonial
<1>4. ASSUME NEW id, NEW code
      PROVE  LET call == BackupCall(id, code)
                 mine == [call EXCEPT !.stepUp = TRUE]
             IN  /\ CallShape(call) /\ Ceremonial(call) /\ call.pc = "backupFind"
                 /\ CallShape(mine) /\ Ceremonial(mine) /\ mine.pc = "backupFind"
  BY DEF BackupCall, Call, Idle, CallShape, Ceremonial
<1>5. ASSUME NEW c, NEW u
      PROVE  LET call == [Call("loginFind", u) EXCEPT !.seen = c] IN
             CallShape(call) /\ Ceremonial(call) /\ call.pc = "loginFind"
  BY DEF Call, Idle, CallShape, Ceremonial
<1>7. CASE \E u \in Users : EnrollTotp(p, u) \/ GenerateBackupCodes(p, u) \/ RecoverMfaAccess(p, u)
  BY <1>1, <1>2, <1>7 DEF EnrollTotp, GenerateBackupCodes, RecoverMfaAccess
<1>8. CASE ConfirmTotpEnrollment(p) \/ VerifyTotpChallenge(p) \/ StepUpTotp(p)
  BY <1>1, <1>3, <1>8 DEF ConfirmTotpEnrollment, VerifyTotpChallenge, StepUpTotp
<1>9. CASE ConsumeBackupCode(p) \/ StepUpBackup(p)
  BY <1>1, <1>4, <1>9 DEF ConsumeBackupCode, StepUpBackup
<1>10. CASE ConsumeMfaChallenge(p)
  BY <1>1, <1>5, <1>10 DEF ConsumeMfaChallenge
<1>11. CASE RegisterWebAuthnCredential(p) \/ VerifyWebAuthnAssertion(p)
  <2>1. \A counter \in 0 .. MaxCounter : counter \in Nat
    OBVIOUS
  <2>2. PICK pc \in {"registerFind", "assertFind"}, u \in Users, c \in DOMAIN challenges, d \in Devices,
             counter \in 0 .. MaxCounter :
          Begin(p, [Call(pc, u) EXCEPT !.seen = c, !.device = d, !.counter = counter])
    BY <1>11 DEF RegisterWebAuthnCredential, VerifyWebAuthnAssertion, Ceremony
  <2> DEFINE call == [Call(pc, u) EXCEPT !.seen = c, !.device = d, !.counter = counter]
  <2>3. CallShape(call) /\ Ceremonial(call) /\ call.pc = pc
    BY <2>1 DEF Call, Idle, CallShape, Ceremonial
  <2>4. Begin(p, call)
    BY <2>2
  <2> HIDE DEF call
  <2> QED
    BY <1>1, <2>3, <2>4
<1> QED
  BY <1>7, <1>8, <1>9, <1>10, <1>11 DEF Arrive

\* Every step, and the stuttering one.
LEMMA WholeStays == Whole /\ [Next]_vars => Whole'
<1> SUFFICES ASSUME Whole, [Next]_vars PROVE Whole'
  OBVIOUS
<1>1. IInv'
  BY NextKeeps DEF Whole
<1>2. ASSUME NEW p \in Procs, Arrive(p) \/ Continue(p) \/ Fails(p) PROVE AInv'
  BY <1>2, ArrivingKeepsCleared, QuietKeeps, FindingKeepsCleared, SavingKeepsCleared,
     CreatingKeepsCleared, CredentialKeepsCleared, RevokingKeepsCleared DEF Continue
<1>3. ASSUME methods' = methods, present' = present, credentials' = credentials, op' = op, cleared' = cleared
      PROVE  AInv'
  <2>1. \A p \in Procs : /\ OffCleared(p)' <=> OffCleared(p)
                         /\ Lists(p)' <=> Lists(p)
                         /\ Fresh(p)' <=> Fresh(p)
    BY <1>3 DEF OffCleared, Lists, Fresh, MethodsOf
  <2> QED
    BY <1>3, <2>1 DEF Whole, AInv
<1>4. CASE Tick \/ UNCHANGED vars
  <2>1. methods' = methods /\ present' = present /\ credentials' = credentials /\ op' = op /\ cleared' = cleared
    BY <1>4 DEF Tick, vars, tables, ghosts
  <2> QED
    BY <1>1, <1>3, <2>1 DEF Whole
<1>5. ASSUME NEW u \in Users, IssueChallenge(u) PROVE AInv'
  BY <1>3, <1>5 DEF IssueChallenge, ghosts
<1> QED
  BY <1>1, <1>2, <1>4, <1>5 DEF Next, Whole

\* A policy that requires a second factor blocks a user who has none (MfaEnforcementPolicy.resolve).
LEMMA RequiredBlocks == Resolve(<<[level |-> "required"]>>, {}).blocked
<1> DEFINE o == <<[level |-> "required"]>>
<1>1. /\ {i \in DOMAIN o : "level" \in DOMAIN o[i]} = {1}
      /\ {i \in DOMAIN o : "allowedMethods" \in DOMAIN o[i]} = {}
      /\ o[1].level = "required"
  OBVIOUS
<1>2. (CHOOSE i \in {1} : \A j \in {1} : i <= j) = 1
  OBVIOUS
<1>3. Inherit(o, "level", "optional") = "required"
  BY <1>1, <1>2 DEF Inherit
<1> QED
  BY <1>3 DEF Resolve

\* No call saves back a method that a recovery removed, and until the user enrols again a
\* policy that requires a second factor blocks the login (RecoverMfaAccess).
THEOREM RecoveriesAreFinal == Spec => []RecoveryIsFinal
<1>1. Whole => RecoveryIsFinal
  <2> SUFFICES ASSUME Whole PROVE RecoveryIsFinal
    OBVIOUS
  <2>1. present \intersect cleared = {} /\ present \subseteq DOMAIN methods
    BY DEF Whole, AInv, IInv, MInv, Tables
  <2>2. ASSUME NEW u \in Users, {id \in DOMAIN methods : methods[id].user = u} \subseteq cleared
        PROVE  {methods[id].type : id \in MethodsOf(u)} = {}
    BY <2>1, <2>2 DEF MethodsOf
  <2> QED
    BY <2>1, <2>2, RequiredBlocks DEF RecoveryIsFinal
<1> QED
  BY <1>1, WholeHoldsAtFirst, WholeStays, PTL DEF Spec

\* While a device keeps its owner, its signature counter falls only by a call that overlapped
\* another of the user (the comparison in VerifyWebAuthnAssertion).
THEOREM CountersNeverFall == Spec => CounterNeverFalls
<1> DEFINE Falls == \A d \in DOMAIN credentials :
         credentials'[d].user = credentials[d].user /\ credentials'[d].counter < credentials[d].counter =>
           \E p \in Procs : op[p].device = d /\ ~op[p].alone /\ op'[p] # op[p]
<1>1. ASSUME Whole, [Next]_vars PROVE [Falls]_vars
  <2>1. \A d \in DOMAIN credentials : credentials[d].counter \in Nat
    BY <1>1 DEF Whole, AInv
  <2>2. CASE credentials' = credentials
    BY <2>1, <2>2
  <2>3. ASSUME NEW p \in Procs, RegisterSave(p) \/ AssertAccept(p) PROVE Falls
    <3> SUFFICES ASSUME NEW d \in DOMAIN credentials, credentials'[d].user = credentials[d].user,
                        credentials'[d].counter < credentials[d].counter
                 PROVE  op[p].device = d /\ ~op[p].alone /\ op'[p] # op[p]
      OBVIOUS
    <3>1. SaveCredential(op[p].device, Credential(op[p].user, op[p].id, op[p].counter))
      BY <2>3 DEF RegisterSave, AssertAccept
    <3>2. op[p].device = d
      BY <2>1, <3>1 DEF SaveCredential
    <3>3. credentials'[d].user = op[p].user /\ credentials'[d].counter = op[p].counter
      BY <3>1, <3>2 DEF SaveCredential, Credential
    <3>4. op'[p] # op[p]
      <4>1. CASE RegisterSave(p)
        <5>1. op[p].pc = "registerSave" /\ Return(p)
          BY <4>1 DEF RegisterSave
        <5> QED
          BY <1>1, <5>1, ReturnMoves DEF InCall
      <4>2. CASE AssertAccept(p)
        <5>1. op[p].pc = "assertRecord" /\ Goto(p, "assertUse")
          BY <4>2 DEF AssertAccept
        <5> QED
          BY <1>1, <5>1, GotoMoves DEF InCall
      <4> QED
        BY <2>3, <4>1, <4>2
    <3>5. ASSUME op[p].alone PROVE FALSE
      <4>1. Fresh(p) /\ op[p].counter \in Nat
        BY <1>1 DEF Whole, AInv, Ceremonial
      <4>2. op[p].pc # "registerSave" /\ (op[p].pc = "assertRecord" => op[p].codes = {credentials[d].counter})
        BY <3>2, <3>3, <3>5, <4>1 DEF Fresh
      <4>3. AssertAccept(p) /\ op[p].codes = {credentials[d].counter}
        BY <2>3, <4>2 DEF RegisterSave, AssertAccept
      <4>4. ReadCounter(p) = credentials[d].counter
        BY <4>3 DEF ReadCounter
      <4>5. credentials[d].counter = 0 \/ op[p].counter > credentials[d].counter
        BY <4>3, <4>4 DEF AssertAccept, Advances
      <4> QED
        BY <2>1, <3>3, <4>1, <4>5
    <3> QED
      BY <3>2, <3>4, <3>5
  <2>4. credentials' = credentials \/ \E p \in Procs : RegisterSave(p) \/ AssertAccept(p)
    <3>1. ASSUME NEW p \in Procs, Arrive(p) \/ Fails(p) PROVE credentials' = credentials
      BY <3>1 DEF Arrive, EnrollTotp, ConfirmTotpEnrollment, VerifyTotpChallenge, ConsumeBackupCode,
         GenerateBackupCodes, StepUpTotp, StepUpBackup, ConsumeMfaChallenge, Ceremony,
         RegisterWebAuthnCredential, VerifyWebAuthnAssertion, RecoverMfaAccess, Begin, Fails, tables
    <3>2. ASSUME NEW p \in Procs, Continue(p), ~(RegisterSave(p) \/ AssertAccept(p))
          PROVE  credentials' = credentials
      BY <3>2
      DEF Continue, EnrollSave, TotpFind, ConfirmRecord, TotpAccept, TotpReject, BackupFind, BackupSave,
          GenerateFind, DeleteListed, GenerateSave, StepUpFind, RecordAssertion, LoginFind, LoginSave,
          LoginIssue, CeremonyFind, CeremonyConsume, RegisterCheck, RegisterMethod, AssertRead,
          AssertUse, AssertReject, RecoverFind, RecoverRevoke, Reads, Writes, tables
    <3>3. CASE Tick \/ UNCHANGED vars \/ \E u \in Users : IssueChallenge(u)
      BY <3>3 DEF Tick, IssueChallenge, vars, tables
    <3> QED
      BY <1>1, <3>1, <3>2, <3>3 DEF Next
  <2> QED
    BY <2>2, <2>3, <2>4
<1> QED
  BY <1>1, WholeHoldsAtFirst, WholeStays, PTL DEF Spec, CounterNeverFalls
=============================================================================
