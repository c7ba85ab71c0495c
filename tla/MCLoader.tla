------------------------------ MODULE MCLoader ------------------------------
(***************************************************************************)
(* A small instance of Loader: two files, the second of which could be     *)
(* mistaken for the first by a wrong offset.                               *)
(***************************************************************************)
EXTENDS Loader

TwoFiles == <<[name |-> "psh", length |-> 5], [name |-> "kill", length |-> 2]>>
=============================================================================
