---------------------------- MODULE MCLifecycle ----------------------------
(* Small instances of Lifecycle for TLC.                                     *)
EXTENDS Lifecycle

CONSTANT p

(* Every instance is a launch of the same profile.                           *)
SameProfile == [i \in Instances |-> p]
=============================================================================
