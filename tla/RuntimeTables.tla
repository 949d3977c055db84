--------------------------- MODULE RuntimeTables ---------------------------
(***************************************************************************)
(* The tables the hosted runtime keeps for a program, and the descriptors  *)
(* of the children it starts (runtime/hosted/mc_hosted_runtime.c): the     *)
(* poller's array of registrations, and the descriptor table of a child    *)
(* between fork and exec.                                                  *)
(***************************************************************************)
EXTENDS Integers, FiniteSets, Sequences, SequencesExt

CONSTANTS Files,      \* descriptors a program may register
          Interests,  \* the interest masks it uses: subsets of {"in", "out"}
          States,     \* what poll finds of a file: "in", "out", "hup", "err"
          Pipes,      \* the numberings of the pipe ends a run explores
          MaxEvents   \* largest capacity of the events array

PipeEnd == {"inRead", "inWrite", "outRead", "outWrite", "errRead", "errWrite"}

\* pipe() gives every end a descriptor of its own.
ASSUME TablesAssumption ==
    /\ MaxEvents \in Nat
    /\ \A p \in Pipes : /\ p \in [PipeEnd -> Nat]
                         /\ \A j, k \in PipeEnd : p[j] = p[k] => j = k

VARIABLES
    entries,     \* poller->entries[0 .. len - 1]
    registered,  \* what the program registered: descriptor -> interests
    events,      \* the events the last poller_wait stored
    kid          \* the last child started: what it asked for and what it got

tableVars == <<entries, registered, events, kid>>
pollerVars == <<entries, registered, events>>

NoKid == [shape |-> "none"]

TableInit ==
    /\ entries = <<>> /\ registered = [f \in {} |-> {}] /\ events = <<>>
    /\ kid = NoKid

-----------------------------------------------------------------------------
(* The poller.                                                             *)

\* mc_find_pollfd, as the indices that match.
Find(file) == {i \in DOMAIN entries : entries[i].fd = file}

\* poller_add: EEXIST for a registered file; the array may fail to grow.
poller_add ==
    /\ \E file \in Files, want \in Interests :
        /\ Find(file) = {}
        /\ entries' = Append(entries, [fd |-> file, events |-> want])
        /\ registered' = [f \in DOMAIN registered \cup {file} |->
                             IF f = file THEN want ELSE registered[f]]
    /\ events' = <<>> /\ UNCHANGED kid

poller_set ==
    /\ \E file \in Files, want \in Interests : \E i \in Find(file) :
        /\ entries' = [entries EXCEPT ![i].events = want]
        /\ registered' = [registered EXCEPT ![file] = want]
    /\ events' = <<>> /\ UNCHANGED kid

\* A removal that shortens the array without filling the gap.
WithoutLast(i) == Front(entries)

\* The last entry moves into the gap.
Without(i) ==
    IF i = Len(entries) THEN Front(entries)
    ELSE Front([entries EXCEPT ![i] = Last(entries)])

poller_remove ==
    /\ \E file \in DOMAIN registered :
        /\ IF Find(file) = {} THEN UNCHANGED entries
           ELSE LET i == CHOOSE i \in Find(file) : \A j \in Find(file) : i <= j
                IN  entries' = Without(i)
        /\ registered' = [f \in DOMAIN registered \ {file} |-> registered[f]]
    /\ events' = <<>> /\ UNCHANGED kid

\* poll(): for every entry the kernel reports what it waits for and is
\* ready, and errors and hang-ups whether asked for or not.
Revents(world, e) ==
    (world[e.fd] \cap e.events) \cup (world[e.fd] \cap {"hup", "err"})

Event(world, e) ==
    LET r == Revents(world, e)
    IN  [file |-> e.fd, readable |-> r \cap {"in", "hup"} # {},
         writable |-> "out" \in r, failed |-> "err" \in r]

\* One turn of the loop of poller_wait over the entries.
Emit(world, capacity, emitted, e) ==
    IF Len(emitted) < capacity /\ Revents(world, e) # {}
    THEN Append(emitted, Event(world, e)) ELSE emitted

Report(world, capacity) ==
    LET emitted[n \in 0 .. Len(entries)] ==
            IF n = 0 THEN <<>>
            ELSE Emit(world, capacity, emitted[n - 1], entries[n])
    IN  emitted[Len(entries)]

poller_wait ==
    /\ \E world \in [Files -> States], capacity \in 0 .. MaxEvents :
        events' = [world |-> [f \in DOMAIN registered |-> world[f]], capacity |-> capacity,
                   asked |-> registered, got |-> Report(world, capacity)]
    /\ UNCHANGED <<entries, registered, kid>>

-----------------------------------------------------------------------------
(* mc_prepare_child_stdio: a descriptor table maps open descriptors to     *)
(* what they refer to.                                                     *)

Dup2(fds, from, to) == [f \in DOMAIN fds \cup {to} |->
                           IF f = to THEN fds[from] ELSE fds[f]]
Close(fds, file)    == [f \in DOMAIN fds \ {file} |-> fds[f]]

DupUnlessSame(fds, from, to) ==
    IF from >= 0 /\ from # to THEN Dup2(fds, from, to) ELSE fds

CloseIf(fds, file, cond) ==
    IF file >= 0 /\ cond THEN Close(fds, file) ELSE fds

\* The extra files are not closed.
prepare_child_stdio_keeps(fds, a) ==
    LET d1 == DupUnlessSame(fds, a.stdin, 0)
        d2 == DupUnlessSame(d1, a.stdout, 1)
        d3 == IF a.redirect THEN DupUnlessSame(d2, a.stderr, 2) ELSE d2
        c3 == CloseIf(d3, a.stdin, a.stdin \notin 0 .. 2)
        c4 == CloseIf(c3, a.stdout, a.stdout \notin 0 .. 2)
    IN  CloseIf(c4, a.stderr, a.redirect /\ a.stderr \notin 0 .. 2)

\* The order of the code: the three dup2, the two extra files, the files
\* that were moved to a standard descriptor.
prepare_child_stdio(fds, a) ==
    LET redirect == a.redirect
        d1 == DupUnlessSame(fds, a.stdin, 0)
        d2 == DupUnlessSame(d1, a.stdout, 1)
        d3 == IF redirect THEN DupUnlessSame(d2, a.stderr, 2) ELSE d2
        c1 == CloseIf(d3, a.close0, a.close0 \notin 0 .. 2)
        c2 == CloseIf(c1, a.close1, a.close1 \notin 0 .. 2 /\ a.close1 # a.close0)
        c3 == CloseIf(c2, a.stdin, /\ a.stdin \notin {0, 1}
                                   /\ ~redirect \/ a.stdin # 2)
        c4 == CloseIf(c3, a.stdout, /\ a.stdout # 1 /\ a.stdout # a.stdin
                                    /\ ~redirect \/ a.stdout # 2)
    IN  CloseIf(c4, a.stderr, /\ redirect /\ a.stderr # 2
                              /\ a.stderr # a.stdin /\ a.stderr # a.stdout)

\* stdlib/os.mc: what the three pipe helpers ask for.
Request(shape, p) ==
    LET plain == [redirect |-> shape # "pipe", stdin |-> p.inRead,
                  stdout |-> p.outWrite, stderr |-> -1,
                  close0 |-> p.inWrite, close1 |-> p.outRead]
    IN  CASE shape = "pipe"   -> plain
          [] shape = "merged" -> [plain EXCEPT !.stderr = p.outWrite]
          [] shape = "split"  -> [plain EXCEPT !.stderr = p.errWrite]

Standard == <<"stdin", "stdout", "stderr">>

\* The parent's table: its own standard streams unless a pipe end took the
\* number of a closed one, and the pipe ends.
ParentTable(p) ==
    LET ends == {p[k] : k \in DOMAIN p}
    IN  [f \in 0 .. 2 \cup ends |->
            IF f \in ends THEN CHOOSE k \in DOMAIN p : p[k] = f
            ELSE Standard[f + 1]]

\* __mc_os_spawnv / __mc_os_spawnve: the child's table at exec.
os_spawn ==
    /\ \E p \in Pipes, shape \in {"pipe", "merged", "split"} :
        kid' = [shape |-> shape, pipes |-> p,
                fds |-> prepare_child_stdio(ParentTable(p), Request(shape, p))]
    /\ UNCHANGED pollerVars

TableNext == \/ poller_add \/ poller_set \/ poller_remove \/ poller_wait
             \/ os_spawn

TableSpec == TableInit /\ [][TableNext]_tableVars

-----------------------------------------------------------------------------
(* Properties.                                                             *)

\* After any sequence of poller_add, poller_set and poller_remove,
\* poller_wait reports only registered files that are ready for what they
\* last registered, no file twice, and, with room for all that are due, all
\* of them; it reports nothing only if nothing is due or there is no room.
\* The swap on removal neither loses nor revives a registration.
EventsAreDue ==
    events # <<>> =>
        LET Due(f) == \/ events.world[f] \cap events.asked[f] # {}
                      \/ events.world[f] \cap {"hup", "err"} # {}
            due == {f \in DOMAIN events.asked : Due(f)}
            got == {events.got[i].file : i \in DOMAIN events.got}
        IN  /\ got \subseteq due
            /\ Cardinality(got) = Len(events.got)
            /\ events.capacity >= Cardinality(due) => got = due
            /\ got = {} => due = {} \/ events.capacity = 0

\* A child started by a pipe helper of stdlib/os.mc reads its input pipe
\* and writes its output pipes, and holds no end that would keep its own
\* input from ending or hide that its output has no reader left.  For pipes
\* whose ends are not standard descriptors; the read end of the error pipe
\* is the one end the split helper has no parameter to close.
ChildHoldsItsEndsOnly ==
    kid.shape # "none" /\ (\A k \in DOMAIN kid.pipes : kid.pipes[k] > 2) =>
        LET fds == kid.fds
        IN  /\ fds[0] = "inRead" /\ fds[1] = "outWrite"
            /\ kid.shape = "merged" => fds[2] = "outWrite"
            /\ kid.shape = "split" => fds[2] = "errWrite"
            /\ kid.shape = "pipe" => fds[2] = "stderr"
            /\ \A f \in DOMAIN fds \ 0 .. 2 :
                   \/ fds[f] = "errRead"
                   \/ fds[f] = "errWrite" /\ kid.shape # "split"
=============================================================================
