------------------------------- MODULE MCProc -------------------------------
(***************************************************************************)
(* Small instances of Proc, and what the kill program (apps/kill/kill.c)   *)
(* tells its user about the sys_kill it has just made.                     *)
(***************************************************************************)
EXTENDS Proc

\* kill.c:18-19 prints "%d was killed." after kill(pid): after a sys_kill that
\* killed something no live process has that pid.
KillReported ==
    [][\A n \in 0 .. MAX_SLOTS : SysKill(n) => \A p \in Live' : pid'[p] # n]_vars
=============================================================================
