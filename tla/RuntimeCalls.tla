---------------------------- MODULE RuntimeCalls ----------------------------
(***************************************************************************)
(* The calls of the hosted runtime that acquire something                  *)
(* (runtime/hosted/mc_hosted_runtime.c): memory, files, directories,       *)
(* sockets, processes, threads.  Every call is the sequence of steps of    *)
(* its C function.  A step acquires a resource, releases some, or only     *)
(* checks something; a step that fails releases what its error path        *)
(* releases and returns failure.  Which resources an error path releases is *)
(* written down from the code, step by step.                               *)
(***************************************************************************)
EXTENDS Naturals, Sequences, FiniteSets, SequencesExt

CONSTANTS MaxEntries,   \* the most directory entries or arguments of a call
          Name(_),      \* the copy of the name of the i-th directory entry
          Arg(_),       \* the copy of the i-th argument of a program
          Null          \* no call in progress

\* The resources that a call has one of.
Single ==
    {"buffer", "data", "arena", "run", "pool", "in_use", "c_path", "file",
     "dir", "entries", "joined", "fd", "c_program", "argv", "process",
     "thread", "start", "running", "handle", "poller"}

\* Every copy is an allocation of its own.
ASSUME CopiesAssumption ==
    LET Copied == 1 .. MaxEntries \cup 1 .. 3
    IN  /\ MaxEntries \in Nat
        /\ \A i \in Copied : Name(i) \notin Single /\ Arg(i) \notin Single
        /\ \A i, j \in Copied : Name(i) = Name(j) \/ Arg(i) = Arg(j) => i = j

VARIABLES
    call,      \* the steps of the call in progress, or Null
    pc,        \* the next step
    live,      \* the resources the call has acquired and not released
    returned   \* "running", "ok" or "failed"

callVars == <<call, pc, live, returned>>

-----------------------------------------------------------------------------
(* Steps.  undo: what the error path of the step releases, itself excluded. *)

Get(what, undo) == [op |-> "get", what |-> {what}, undo |-> undo]
Check(undo)     == [op |-> "check", what |-> {}, undo |-> undo]
Put(what)       == [op |-> "put", what |-> what, undo |-> {}]

\* A function: its steps and the resources its result carries.
Body(steps, result) == [steps |-> steps, result |-> result]

-----------------------------------------------------------------------------
(* Memory.  An allocation with a header frees it if the data fails.        *)

mem_buffer_new(undo) ==
    <<Get("buffer", undo), Get("data", undo \cup {"buffer"})>>

mem_arena_init == Body(<<Get("arena", {}),
                         Get("data", {"arena"})>>, {"arena", "data"})

mem_run_init == Body(<<Check({}),          \* the rounded size fits
                       Get("run", {}),
                       Get("data", {"run"})>>, {"run", "data"})

mem_pool_init == Body(<<Get("pool", {}),
                        Check({"pool"}),   \* the product fits
                        Get("data", {"pool"}),
                        Get("in_use", {"data", "pool"})>>,
                      {"pool", "data", "in_use"})

-----------------------------------------------------------------------------
(* Files and directories.                                                  *)

copy_string_to_cstr(undo) == <<Get("c_path", undo)>>

fs_file_size == Body(copy_string_to_cstr({}) \o <<Check({"c_path"}),
                                                  Put({"c_path"})>>, {})
fs_is_dir == fs_file_size

\* fopen; the path is freed before its result is looked at.
Fopen == copy_string_to_cstr({}) \o <<Get("file", {"c_path"}),
                                      Put({"c_path"})>>

\* seek to the end, tell, seek back, allocate, read, close.
fs_read_all_err ==
    Body(Fopen
         \o <<Check({"file"}), Check({"file"}),
              Check({"file"})>>
         \o mem_buffer_new({"file"})
         \o <<Put({"file"}), Check({"buffer", "data"})>>,
         {"buffer", "data"})

fs_write_all == Body(<<Check({})>> \o Fopen
                     \o <<Check({"file"}), Check({"file"}),
                          Put({"file"}), Check({})>>, {})

fs_read_exact == Body(<<Check({})>> \o Fopen
                      \o <<Put({"file"}), Check({}),
                           Check({})>>, {})

Names(n) == {Name(i) : i \in 1 .. n}

\* A slip: the copied name is forgotten when lstat fails.
ListEntryForgetsName(i) ==
    LET undo == {"dir", "c_path"} \cup Names(i - 1)
                \cup IF i = 1 THEN {} ELSE {"entries"}
        grow == IF i = 1 THEN <<Get("entries", undo)>> ELSE <<>>
        rest == undo \cup {"entries"}
    IN  <<Check(undo)>> \o grow
        \o <<Get(Name(i), rest),
             Get("joined", rest \cup {Name(i)}),
             Put({"joined"}), Check(rest)>>

\* One entry: grow the table, copy the name, join the path, lstat it.  An
\* error leaves the loop, which closes the directory, frees the path and
\* then the table with the names stored so far.
ListEntry(i) ==
    LET undo == {"dir", "c_path"} \cup Names(i - 1)
                \cup IF i = 1 THEN {} ELSE {"entries"}
        grow == IF i = 1 THEN <<Get("entries", undo)>> ELSE <<>>
        rest == undo \cup {"entries"}
    IN  <<Check(undo)>>                                \* readdir
        \o grow
        \o <<Get(Name(i), rest),
             Get("joined", rest \cup {Name(i)}),
             Put({"joined"}),
             Check(rest \cup {Name(i)})>>              \* lstat

fs_list_dir_err(n) ==
    LET table == Names(n) \cup IF n = 0 THEN {} ELSE {"entries"}
    IN  Body(copy_string_to_cstr({})
             \o <<Get("dir", {"c_path"})>>
             \o FlattenSeq([i \in 1 .. n |-> ListEntry(i)])
             \o <<Check({"dir", "c_path"} \cup table), \* last readdir
                  Put({"dir", "c_path"})>>
             \o mem_buffer_new(table)
             \o <<Put(table)>>,
             {"buffer", "data"})

\* The variants without out_err take the same steps.
fs_list_dir(n) == fs_list_dir_err(n)
fs_read_all    == fs_read_all_err

-----------------------------------------------------------------------------
(* Sockets, processes, threads.                                            *)

net_tcp_listen == Body(<<Get("fd", {}), Check({"fd"}),
                         Check({"fd"})>>, {"fd"})
net_connect_tcp == Body(<<Get("fd", {}), Check({"fd"})>>, {"fd"})
net_accept == Body(<<Get("fd", {})>>, {"fd"})

Args(n) == {Arg(i) : i \in 1 .. n}

\* mc_copy_string_slice_to_argv: the table, then one string per argument.
copy_strings_to_argv(n, undo) ==
    <<Get("argv", undo)>>
    \o [i \in 1 .. n |-> Get(Arg(i), undo \cup {"argv"} \cup Args(i - 1))]

\* fork: the parent frees what the child had needed for exec.
Fork(n, extra) ==
    <<Get("process", {"argv"} \cup Args(n) \cup extra),
      Put({"argv"} \cup Args(n) \cup extra)>>

os_spawn3 == Body(copy_strings_to_argv(3, {}) \o Fork(3, {}), {"process"})

os_spawnv(n) == Body(<<Check({})>>                        \* argv is empty
                     \o <<Get("c_program", {})>>
                     \o copy_strings_to_argv(n, {"c_program"})
                     \o Fork(n, {"c_program"}), {"process"})
os_spawnve(n) == os_spawnv(n)

sync_thread_spawn == Body(<<Check({}), Get("thread", {}),
                            Get("start", {"thread"}),
                            Get("running", {"start", "thread"}),
                            Put({"start"})>>,    \* freed by the new thread
                          {"thread", "running"})
sync_mutex_init   == Body(<<Get("handle", {}),
                            Check({"handle"})>>, {"handle"})
sync_condvar_init == sync_mutex_init

io_pipe       == Body(<<Get("fd", {})>>, {"fd"})
io_poller_new == Body(<<Get("poller", {})>>, {"poller"})

Calls ==
    {Body(mem_buffer_new({}), {"buffer", "data"}),
     mem_arena_init, mem_run_init, mem_pool_init, fs_file_size, fs_read_all,
     fs_write_all, fs_read_exact, net_tcp_listen, net_connect_tcp, net_accept,
     os_spawn3, sync_thread_spawn, sync_mutex_init, io_pipe, io_poller_new}
    \cup {fs_list_dir(n) : n \in 0 .. MaxEntries}
    \cup {os_spawnv(n) : n \in 1 .. MaxEntries}

-----------------------------------------------------------------------------
(* Running a call.                                                         *)

CallInit == /\ call = Null /\ pc = 0 /\ live = {} /\ returned = "running"

Begin ==
    /\ call = Null
    /\ \E c \in Calls : call' = c
    /\ pc' = 1 /\ live' = {} /\ returned' = "running"

Running == call # Null /\ returned = "running" /\ pc <= Len(call.steps)
Step    == call.steps[pc]

Succeed ==
    /\ Running
    /\ live' = IF Step.op = "put" THEN live \ Step.what ELSE live \cup Step.what
    /\ pc' = pc + 1
    /\ UNCHANGED <<call, returned>>

Fail ==
    /\ Running /\ Step.op # "put"
    /\ live' = live \ Step.undo
    /\ returned' = "failed"
    /\ UNCHANGED <<call, pc>>

Return ==
    /\ call # Null /\ returned = "running" /\ pc > Len(call.steps)
    /\ returned' = "ok"
    /\ UNCHANGED <<call, pc, live>>

CallNext == Begin \/ Succeed \/ Fail \/ Return

CallSpec == CallInit /\ [][CallNext]_callVars

-----------------------------------------------------------------------------
(* Properties.                                                             *)

\* Whichever step of a runtime call fails, nothing stays behind and nothing
\* is released twice: a failed call holds no resource, a successful one
\* exactly what its result carries and the caller can release, and every
\* resource a step or an error path is about to release is still held.
NothingLeaks ==
    /\ returned = "failed" => live = {}
    /\ returned = "ok" => live = call.result
    /\ Running => /\ Step.op = "put" => Step.what \subseteq live
                  /\ Step.undo \subseteq live
=============================================================================
