------------------------------- MODULE MCLane -------------------------------
(* LaneKernel for TLC, with three kinds of clients, each within bounds of    *)
(* its own: those that hand over grants, those that fill the lanes, and      *)
(* those that restart everything over small stores.                          *)
EXTENDS LaneKernel

VARIABLE clients    \* which of the three this behaviour has

MCPids        == {1, 2}
MCGranted     == {LOG_ENDPOINT_ID, KV_ENDPOINT_ID, TRANSFER_ENDPOINT_ID}
MCTransfers   == { << TRANSFER_CMD_BIND >>, << TRANSFER_CMD_LOG, 5 >>,
                   << TRANSFER_CMD_KV, 1, 7 >> }

\* A log byte that is not the marker, a kv key overwritten and one too many,
\* two queue values and the queue's peek, a file created, written and read,
\* and echoes that fill the count.
MCMessages ==
    [endpoint : {LOG_ENDPOINT_ID}, payload : {<< 5 >>}]
    \union [endpoint : {KV_ENDPOINT_ID}, payload : {<< 1 >>, << 1, 7 >>, << 2, 7 >>}]
    \union [endpoint : {QUEUE_ENDPOINT_ID},
            payload : {<< >>, << 1 >>, << 2 >>, << CMD_P, CMD_BANG >>}]
    \union [endpoint : {FILE_ENDPOINT_ID},
            payload : {<< FILE_OP_CREATE, 1 >>, << FILE_OP_CREATE, 2 >>,
                       << FILE_OP_WRITE, 1, 7 >>, << FILE_OP_WRITE, 2, 8 >>,
                       << FILE_OP_READ, 1 >>}]
    \union [endpoint : {ECHO_ENDPOINT_ID}, payload : {<< 1 >>, << 1, 2 >>}]

MCRestarts == {"log", "kv", "queue", "file", "echo", "transfer", "lease", "workflow",
               "workset", "audit"}

RestartedOnly(cells, times) ==
    \A c \in Cell : generation[c] <= IF c \in cells THEN times + 1 ELSE 1

\* The states the clients of each kind stay within.
Within ==
    CASE clients = "transfers" ->
             /\ Len(pushed) = 0 /\ Len(log) <= 1
             /\ << echo, file >> = << echo_init, file_init >>
             /\ Len(granted) <= 3
             /\ RestartedOnly({"transfer"}, 1)
      [] clients = "lanes" ->
             /\ << echo, file, transfer >> = << echo_init, file_init, transfer_init >>
             /\ granted = << >>
             /\ RestartedOnly({"log", "kv", "queue", "workset", "audit"}, 3)
      [] clients = "ledger" ->
             /\ Len(pushed) = 0 /\ Len(log) <= 1
             /\ granted = << >>
             /\ RestartedOnly({"file", "echo", "kv", "workset", "lease", "workflow", "audit"}, 1)

LaneInit == Init /\ clients \in {"transfers", "lanes", "ledger"}
LaneNext == Next /\ UNCHANGED clients /\ Within'
LaneSpec == LaneInit /\ [][LaneNext]_<< vars, clients >>
=============================================================================
