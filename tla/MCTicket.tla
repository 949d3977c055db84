------------------------------ MODULE MCTicket ------------------------------
(* The ticket cell and the lease cell with a small byte, so that ids, epochs *)
(* and generations wrap.  One of the two is idle in a behaviour.             *)
EXTENDS TicketCell, LeaseCell

\* A right of each kind.
MCRights ==
    {[kind |-> 67, args |-> << 1, 0, 0 >>], [kind |-> 65, args |-> << 0, 0, 0 >>],
     [kind |-> 87, args |-> << 1, 2, 1 >>],
     [kind |-> 84, args |-> << 1, 1, 0 >>]}

TicketIdle == ticket = ticket_init(0) /\ run = 0 /\ serial = 0 /\ granted = {} /\ spent = {}
LeaseIdle == lease = << >> /\ generation = << >> /\ leaseRun = 0 /\ leaseSerial = 0 /\ issued = {} /\ held = << >>

CellsInit ==
    \/ Init /\ LeaseIdle
    \/ LeaseInit /\ TicketIdle
CellsNext ==
    \/ lease = << >> /\ Next /\ UNCHANGED leaseVars
    \/ lease # << >> /\ LeaseNext /\ UNCHANGED vars
CellsSpec == CellsInit /\ [][CellsNext]_<< vars, leaseVars >>
=============================================================================
