--------------------------- MODULE ArchivedRemoval ---------------------------
(***************************************************************************)
(* What the log archive promises: Sparky removes a stopped container only  *)
(* after its log is stored. A container may also vanish without Sparky     *)
(* (someone removes it by hand); nothing can be promised about that one.   *)
(***************************************************************************)
CONSTANT Instances

VARIABLES
    container,  \* "exited", "removed" (by Sparky) or "gone" (by someone else)
    logged      \* instances with a stored log

absVars == <<container, logged>>

Init ==
    /\ container = [i \in Instances |-> "exited"]
    /\ logged = {}

(* The central app stores a log of the instance.                             *)
Log(i) ==
    /\ logged' = logged \cup {i}
    /\ UNCHANGED container

(* Sparky removes the container of an instance whose log is stored.          *)
Remove(i) ==
    /\ i \in logged
    /\ container[i] = "exited"
    /\ container' = [container EXCEPT ![i] = "removed"]
    /\ UNCHANGED logged

Vanish(i) ==
    /\ container[i] = "exited"
    /\ container' = [container EXCEPT ![i] = "gone"]
    /\ UNCHANGED logged

Next == \E i \in Instances : Log(i) \/ Remove(i) \/ Vanish(i)

Spec == Init /\ [][Next]_absVars
=============================================================================
