----------------------------- MODULE AuditTrail -----------------------------
(***************************************************************************)
(* What the audit log promises its readers, whatever writes to it: one     *)
(* sequence of commands that only grows at its end, by whole bursts of one *)
(* client's consecutive commands.  A retried burst whose first commit was  *)
(* not acknowledged may appear again; nothing is removed, reordered or cut *)
(* short.                                                                  *)
(***************************************************************************)
EXTENDS Naturals, Sequences

CONSTANTS Clients,   \* whoever issues commands, numbered <<client, n>>
          MaxNumber, \* bound: commands one client issues
          MaxBurst   \* the longest burst one commit adds

VARIABLE trail

TrailInit == trail = << >>

\* One commit: commands from+1 .. from+n of one client, at the end.
Commit(c, from, n) ==
    trail' = trail \o [i \in 1 .. n |-> <<c, from + i>>]

TrailNext ==
    \E c \in Clients, from \in 0 .. MaxNumber, n \in 1 .. MaxBurst : Commit(c, from, n)

TrailSpec == TrailInit /\ [][TrailNext]_trail
=============================================================================
