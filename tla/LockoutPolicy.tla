---------------------------- MODULE LockoutPolicy ---------------------------
(***************************************************************************)
(* How long a lock lasts after a number of consecutive failures.  The      *)
(* credentials package and BruteForcePolicy each carry a copy of this      *)
(* arithmetic, with the same default numbers.                              *)
(***************************************************************************)
EXTENDS Naturals

CONSTANTS Threshold,      \* failures that trigger the first lock
          BaseDuration,   \* its length
          BackoffFactor,  \* multiplier for each further failure
          MaxDuration     \* ceiling of one lock

ASSUME LockoutAssumption ==
    {Threshold, BaseDuration, BackoffFactor, MaxDuration} \subseteq Nat \ {0}

\* b ** n
Power(b, n) ==
    LET power[k \in 0 .. n] == IF k = 0 THEN 1 ELSE b * power[k - 1]
    IN  power[n]

\* lockDurationMs, capped before the multiplication.
LockDuration(n) ==
    IF n < Threshold THEN 0
    ELSE LET steps    == n - Threshold
             uncapped == IF steps > 64 THEN MaxDuration
                         ELSE BaseDuration * Power(BackoffFactor, steps)
         IN  IF uncapped <= MaxDuration THEN uncapped ELSE MaxDuration
=============================================================================
