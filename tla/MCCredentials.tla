---------------------------- MODULE MCCredentials ----------------------------
EXTENDS Credentials

LOCAL INSTANCE TLC

CONSTANTS p1, p2, r1, r2

\* A request of each replica.
MCProcs == {p1, p2}
MCHome == p1 :> r1 @@ p2 :> r2

\* Passwords are only compared with one another.
PasswordSymmetry == Permutations(Passwords)
=============================================================================
