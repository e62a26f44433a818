------------------------------- MODULE MCMfa --------------------------------
EXTENDS Mfa, TLC

\* Users are interchangeable, and so are processes.
MfaSymmetry == Permutations(Users) \union Permutations(Procs)
=============================================================================
