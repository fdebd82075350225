------------------------------- MODULE MCNode -------------------------------
(* A node's containers and its model directory, one subject at a time: the *)
(* subject says which of them moves, so that the state spaces add up       *)
(* instead of multiplying.                                                 *)
EXTENDS StaleContainers, Inventory

VARIABLES
    subject,
    turns    \* BOUND: calls and events that may still begin

vars == <<staleVars, inventoryVars, subject, turns>>

Call(A) == A /\ turns > 0 /\ turns' = turns - 1
Step(A) == A /\ UNCHANGED turns

-----------------------------------------------------------------------------
(* Containers: one in any state, and one left over.                        *)

Containers == {<<"none", "running">>, <<"running", "exited">>, <<"running", "running">>,
               <<"stopping", "running">>, <<"stopped", "exited">>, <<"starting", "absent">>}

\* What the agent was told last: to launch, to unload, or to check.
Told(status) == CASE status = "starting" -> {"load"} [] status = "stopping" -> {"unload"} [] status = "running" -> {"check"} [] OTHER -> {}

\* The left-over one is missing beside some launches.
LeftOvers == {<<"stopped", "exited">>, <<"stopped", "absent">>}

AnyContainer ==
    \E c \in IF subject = "models" THEN {<<"none", "running">>} ELSE Containers, old \in LeftOvers :
        LET at == [i \in Instances |-> IF i = 1 THEN c ELSE old] IN
        /\ old[2] = "absent" => subject = "lives" /\ c[1] = "starting"
        /\ rec = [i \in Instances |-> at[i][1]]
        /\ cont = [i \in Instances |-> at[i][2]]
        /\ active = {i \in Instances : at[i][1] \in {"running", "stopping"}}
        /\ aged = {i \in Instances : at[i][2] = "exited"}
        /\ tasks = {t \in Instances \X Tasks : t[2] \in Told(at[t[1]][1])}

\* Two callers, a connection that drops, and containers that exit or age.
Calling ==
    /\ subject = "callers"
    /\ \/ Call(CallBegins \/ InstanceEvents \/ Connection)
       \/ Step(CallSteps \/ AgentSteps \/ Handlers)

\* One run of the schedule, and the instances' lives meanwhile.
Living ==
    /\ subject = "lives"
    /\ \/ Call(RunScheduled("prune") \/ InstanceEvents \/ Connection)
       \/ Step(InstanceSteps \/ CallSteps \/ AgentSteps \/ Handlers)
    /\ requests' <= 2

-----------------------------------------------------------------------------
(* Models: a safetensors model with a label in its name, two quantizations *)
(* of which the name of one contains the other's, a copy of which only one *)
(* shard is there, and one of two shards.                                  *)

\* The names are model.Q4_K.safetensors, Q4_K_M.gguf, Q4_K.gguf,
\* a-00001-of-00003.gguf, b-00001-of-00004.gguf and b-00003-of-00004.gguf.
MCFormatOf == [f \in ModelFiles |-> IF f = "st" THEN "safetensors" ELSE "gguf"]
MCSetOf == [f \in ModelFiles |-> IF f \in {"b1", "b3"} THEN "b" ELSE f]
MCRank == [f \in ModelFiles |-> CASE f = "st" -> 1 [] f = "Q4_K" -> 2 [] f = "Q4_K_M" -> 3 [] f = "a1" -> 4 [] f = "b1" -> 5 [] OTHER -> 6]
MCLabelOf == [f \in ModelFiles |-> IF f \in {"Q4_K_M", "Q4_K"} THEN f ELSE "UNKNOWN"]
MCLabelsIn == [f \in ModelFiles |-> CASE f = "Q4_K_M" -> {"Q4_K_M", "Q4_K"} [] f \in {"Q4_K", "st"} -> {"Q4_K"}
                                      [] f \in {"a1", "b3"} -> {"00003"} [] OTHER -> {}]

Disks == {{}, {"st", "Q4_K", "Q4_K_M"}, {"st", "a1", "b1", "b3"}}

Modelling ==
    /\ subject = "models"
    /\ Call(InventoryCalls \/ InventoryWorld) \/ Step(InventorySteps)

-----------------------------------------------------------------------------
MCInit ==
    /\ subject \in {"callers", "lives", "models"}
    /\ QuietCleanup /\ AnyContainer
    /\ turns = CASE subject = "models" -> 4 [] subject = "lives" /\ rec[1] = "starting" /\ cont[2] = "exited" -> 2 [] OTHER -> 3
    /\ disk \in IF subject = "models" THEN Disks ELSE {{}}
    /\ InventoryInit

MCNext ==
    /\ \/ (Calling \/ Living) /\ UNCHANGED inventoryVars
       \/ Modelling /\ UNCHANGED staleVars
    /\ UNCHANGED subject

MCSpec == MCInit /\ [][MCNext]_vars
=============================================================================
