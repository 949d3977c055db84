---------------------------- MODULE RestartLedger ----------------------------
(* What the kernel records about restarts, and what it tells of them: the    *)
(* cell generations and restart outcomes of kernel/src/boot/boot.mc, moved   *)
(* by the restart functions of kernel/src/boot/init.mc, and the summaries of *)
(* kernel/src/boot/boot_identity.mc.                                         *)
(*                                                                           *)
(* Three tables describe a service: the topology (its restart mode and       *)
(* authority class), the policy clients can ask for, and the outcome its     *)
(* restart function records.                                                 *)
EXTENDS Naturals

VARIABLES generation,  \* of every service and lane, counted from 1
          outcome      \* the RestartOutcome last recorded for it

ledger == << generation, outcome >>

\* The services by the outcome their restart functions record.
Retained == {"log", "kv", "queue", "file", "timer", "completion"}
Durable  == {"journal", "object_store", "update_store"}
Replaced == {"echo", "transfer", "ticket", "task", "connection", "launcher",
             "display", "lease"}

\* The workflow service is reloaded, and has no outcome field.
Service == Retained \union Durable \union Replaced \union {"workflow"}
Lane    == {"workset", "audit"}
Cell    == Service \union Lane

Outcome == {"None", "OrdinaryReplaced", "RetainedReloaded",
            "CoordinatedRetainedReloaded", "DurableReloaded"}

LedgerInit == /\ generation = [c \in Cell |-> 1]
              /\ outcome = [c \in Cell |-> "None"]

\* The services with restart mode Reload in SERVICE_DESCRIPTORS.
service_restart_reloads_state(s) ==
    s \in {"log", "kv", "queue", "file", "timer", "journal", "workflow",
           "completion", "object_store", "update_store"}

\* The policy that init.restart_policy_for_target answers to clients.
restart_policy(s) ==
    IF s \in {"echo", "transfer", "ticket", "task", "connection", "launcher",
              "display", "lease"} THEN "clear" ELSE "keep"

\* The outcome the restart function of a service records; restart_workflow
\* records none.
restart_outcome(s) == CASE s \in Retained   -> "RetainedReloaded"
                        [] s \in Durable    -> "DurableReloaded"
                        [] s \in Replaced   -> "OrdinaryReplaced"
                        [] s = "workflow"   -> outcome[s]

bootrestart(s) == /\ generation' = [generation EXCEPT ![s] = @ + 1]
                  /\ outcome' = [outcome EXCEPT ![s] = restart_outcome(s)]

\* Mutant of bootrestart_lane: the lane moves on without one of its members.
bootrestart_lane_partly(lane, members) ==
    LET moved == {lane, CHOOSE m \in members : TRUE}
    IN  /\ generation' = [c \in Cell |-> IF c \in moved THEN generation[c] + 1
                                         ELSE generation[c]]
        /\ outcome' = [c \in Cell |-> IF c \in moved
                                      THEN "CoordinatedRetainedReloaded" ELSE outcome[c]]

\* A lane and its members move on together.
bootrestart_lane(lane, members) ==
    LET moved == {lane} \union members
    IN  /\ generation' = [c \in Cell |-> IF c \in moved THEN generation[c] + 1
                                         ELSE generation[c]]
        /\ outcome' = [c \in Cell |-> IF c \in moved
                                      THEN "CoordinatedRetainedReloaded" ELSE outcome[c]]
=============================================================================
