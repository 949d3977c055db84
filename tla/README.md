# TLA+ verification of Modern C and the Veya kernel

This directory holds TLA+ models of the two programs of the *Modern C*
repository, the compiler with its driver and hosted runtime (`compiler/`,
`runtime/`, C++ and C) and the kernel written in its language (`kernel/src`); the
TLC configurations that check them on small instances; and theorems about them
that TLAPS proves for every value of the constants. `PROJECT.json` is the index:
the lines every definition stands for, the runs, the mutants that show each
property can fail, the findings, the hazards and the theorems.

- [1 Inventory](#1-inventory): the system, part by part
- [2 The modules and the code](#2-the-modules-and-the-code)
- [3 Runs](#3-runs): what is checked, bounds, fairness
- [4 Where code and documentation disagree](#4-where-code-and-documentation-disagree)
- [5 Theorems](#5-theorems)
- [6 What is only model-checked, and what is not modelled](#6-what-is-only-model-checked-and-what-is-not-modelled)
- [7 Plan](#7-plan)

## 1 Inventory

### The system

**The kernel.** One kernel state (`KernelBootState`, `boot/boot.mc`) holds a
*cell* per service: the service's state, its generation and the outcome of its
last restart. `kernel_dispatch.mc` takes one message (an *observation*: endpoint,
payload, handles), runs it to completion against the services and commits the new
states. There are no threads. What interleaves is the clients' messages, restarts
of single services or of a *lane* of services, the outcomes of file writes, and
the kernel's own progress, which is made inside the handling of somebody's
message: the workflow service advances by one step before each message it
handles, and timers tick when a message reaches the timer service or a workflow
advances.

**The compiler.** `mc` reads a `build.toml`, finds the modules of a target and of
the libraries it links, and for each module runs lexer, parser, checker, MIR
lowering, MIR validation and the LLVM back end; clang and libtool are called on
the results. What a module exports is written to an interface file that its
importers load. The build directory keeps objects, interfaces and a state record
per module, which decide what the next command reuses. `mc test` compiles the
tests of a target and runs them as child processes with a time limit. Programs
are linked with the hosted runtime, a C library over the operating system.

### The parts of the kernel, their state and their operations

| Part | State | Operations | Interacts with |
|---|---|---|---|
| ticket service | epoch, next id, table of unused ids | issue, use, restart (next epoch) | lease service, connection workflows |
| timer service | table of (id, state, remaining ticks) | create, cancel, query; every message ticks | workflow (timer 1 is its own by convention) |
| task service | table of (id, state), next id | submit, cancel, complete, query | workflow submits and completes tasks in it |
| completion mailbox | bounded queue of outcomes | fetch, acknowledge; enqueue from workflow | workflow delivery |
| connection service | slots: state, idle budget, request byte, occupancy | open, receive, send, close, execute | workflow runs the request; slot is freed on delivery |
| lease service | table of (id, kind, two bytes, generation) | issue and consume, four kinds | workset generation, tickets, objects, updates |
| object store | name, value, version; artifact file | create, replace, update, conditional update | workflow; every change is written to the file |
| update store | staged bytes, manifest, installed program; files | stage, manifest, apply, clear | workflow, lease |
| journal service | two lanes of four bytes; artifact file | append, clear | the workflow record is written to lane B at each step |
| workflow service | one record: kind, id, state, due, task, generation | schedule, update, apply, cancel, query | all of the above |
| log, kv, queue | buffer; keys; bounded queue with stall flag | append, set/get, push/pop/peek | a kv write leaves a marker in the log; two lanes share kv |
| file, echo | named byte sequences; message counter | create, write, read; echo | - |
| transfer, grants | bound pair of endpoints; grant table | bind, use; issue, redeem one or two | sends on to log and kv |
| restart ledger | generation and outcome of every cell and of two lanes | restart of a service, of the work set (kv, queue), of the audit lane (kv, log) | lifecycle queries |
| launcher, display, apps | selected and running program, cells of a surface | select, launch, input | update store, object store, journal |
| serial shell | frame buffer, pending command | receive, flush | every service |

### The parts of the compiler, their state and their operations

| Part | State | Operations | Interacts with |
|---|---|---|---|
| build file | logical line under construction, current section, entries | read a line, close an array, validate | gives targets and package roots to the build graph |
| build graph | stack of targets, stack of modules, visited sets, order | enter a target, resolve a link, visit a module or an import, finish | order in which modules are compiled |
| incremental builds | interface, object and state record of each module, outputs, the command in progress | check, build, reuse, compile, link; a command may be killed anywhere | host tools, interface files |
| interface files | text of the exports of a module | write, load, compare with what is expected | compiler of the module and of its importers |
| lexer | position in the text, tokens | one token in a step | parser |
| parser | position in the tokens, call stack, tree | one procedure in a step | lexer, checker |
| semantic checker | scopes, types of expressions, constant values | check statements and expressions, fold constants | lowering |
| MIR lowering and validation | blocks, current block, scopes, defers, loops | lower a statement or an expression, validate | checker, back end |
| LLVM back end | - | emit instructions, conversions and run-time checks | LLVM |
| test command | target, case, child process, waiting thread, deadline, verdict | load, compile, start, wait, time out, judge | child processes |
| hosted runtime | resources held by a call, registrations of the poller, descriptors of a child | open, listen, accept, spawn, list, poll ... | the operating system |

### What is hard

In the kernel:

- *The kernel moves only when it is spoken to.* A workflow waits, runs, and is
  reported inside the messages of clients who may not know of it; a full
  mailbox postpones the report; the same message may report one workflow and
  schedule the next.
- *Restarts.* Services restart alone, in any order. Some reload, some start
  empty, some come back with the next epoch; the others keep whatever ids,
  generations and leases they had. The workflow service reloads its record and
  compares it with journal lane B to decide whether to go on.
- *Partial failure.* A step may write up to three artifact files before it
  commits in memory; a failing write leaves the step uncommitted and the files
  partly changed.
- *Shared tables.* Timers, tasks, mailbox, leases and journal lanes are open to
  every client: they are filled, emptied and reused around a running workflow.
- *Bytes.* Ids, epochs, generations, states and outcomes are `u8`; they wrap,
  and the same byte is used for several things (an outcome kept in the task
  field, a slot plus 128 kept in the due field).
- *Authority spent on failure.* Grants and leases are consumed before it is
  known whether the operation they pay for is accepted.

In the compiler and the runtime:

- *What is left on disk decides.* A build reuses objects and interfaces that
  earlier commands left behind: other modes, other selections, failed or killed
  commands, sources edited since or meanwhile.
- *Order.* Interfaces exist before they are loaded, libraries before their users,
  and the walk that finds the order unwinds its own sets by hand.
- *A thread, a child and a deadline.* The waiting thread reaps the child while
  the driver may be about to kill it.
- *Every system call fails somewhere.* A runtime function acquires several
  resources and has an error path behind each.
- *One meaning in four languages.* Checker, MIR, LLVM and the constant evaluator
  each have their own idea of width, sign, conversion and trap; they are tested
  on examples and must agree on all values.
- *Ways out of a scope.* Defers, loops, switches and returns are woven together
  by the lowering, block by block.
- *Hand-written scanners.* Lexer, parser, build file and interface file must read
  back what was written, refuse the rest, and end.

`PROJECT.json` lists these at the lines where they bite, with the properties that
cover them.

### What makes the parts correct

| Part | Property | Definition |
|---|---|---|
| tickets | every ticket presented is judged by its true history; none is lost | `TicketTruth`, `NoTicketLost` |
| leases | an id names its own lease until that is consumed, with the right it was issued for | `LeaseTruth` |
| workflow and mailbox | accepted = begun; one report per end, in order, with the outcome of the record | `ImplementsContract` |
| | no silent end except a requested cancel or a justified restart | `CancelOnlyWhenAsked` |
| | a restart of the service resumes only a workflow of the work set's generation whose journal record is intact; a stale one stays stale | `ResumedOnlyIfCurrent` |
| | every workflow ends | `EveryWorkflowEnds` |
| connections | the slot is held until its request is reported | `SlotHeldUntilReported` |
| tickets, leases, requests | a ticket is spent exactly if the request says so | `TicketSpentIffReported` |
| object store | a version names one value, across failing writes and reloads | `ObjectsMoveOn` |
| update store | what is reported as applied is installed, in memory and on disk | `AppliedIsDurable` |
| grants | redeemed once, by the owner; the table holds exactly the unredeemed ones | `GrantTruth` |
| transfer | the bound pair comes from grants of one process in this generation | `PairFromGrants` |
| queue | first in, first out, through stalls and restarts | `QueueInOrder` |
| kv and log | an accepted write not answered as unmarked has its own marker | `AuditTruth` |
| ledger | generations, outcomes, policies and topology agree | `LedgerAddsUp` |
| incremental builds | a successful build leaves what a build from nothing would | `BuildIsClean` |
| | a module is compiled against the interfaces of the sources parsed now | `FreshInterfaces` |
| build graph | imports come first, no source twice in a link | `InterfacesComeFirst` |
| | a reported cycle is one | `CyclesAreReal` |
| build file | an accepted file means what it says, one thing only | `AcceptedMeansWhatItSays` |
| interface files | what a module exports is what its importers read, or nothing | `LoadsAsWritten` |
| test command | green means all passed; a verdict fits what the child did | `GreenIsEarned`, `VerdictFitsTheChild` |
| | no child or thread is left; a hanging test does not hang the command | `NothingIsLeftBehind`, `LimitedRunsEnd` |
| hosted runtime | no leak and no double release, whichever step fails | `NothingLeaks` |
| | the poller reports what is due; a child holds its own ends only | `EventsAreDue`, `ChildHoldsItsEndsOnly` |
| lexer, parser | accepted text is grouped as the grammar says; the parser ends; literals have their value | `AcceptedAsWritten`, `LookaheadKeepsItsPromise`, `ParseEnds`, `LiteralsMeanWhatTheySay` |
| lowering, validation | the calls of the source, in order, on every way out | `CallsAreThoseOfTheSource`, `ReadsAreDefined` |
| checker to back end | what is accepted compiles and computes what the language says | `AcceptedCompiles`, `RunsAsSpecified`, `ConstantsAgree` |

## 2 The modules and the code

### Tickets

`Bytes` has the `u8` arithmetic, with the width as a constant. `TicketService`
is `ticket_service.mc` as operators on its state. `TicketCell` is the service as
a state machine with clients that keep and replay every ticket they were given.
Because ticket bytes repeat, the ghost variables name a ticket by restart count
and rank; `CountersFresh` is the window in which bytes still tell tickets apart,
and both properties are stated inside it. Outside, after 255 tickets or 256
restarts, the code makes no promise and the model does not invent one.

`LeaseCell` does the same for `LeaseService`: clients keep every lease id, the
services that leases delegate to restart with new generations, and the ghost
sequence `held` says which lease each table entry really is. A client presents the
byte, not the lease: an id kept from an earlier run of the service is judged as
whatever lease of this run has the same byte, and `LeaseTruth` says so.

### The workflow kernel

`TimerService`, `TaskService`, `CompletionMailbox`, `ConnectionService`,
`LeaseService`, `DurableServices` (the object store, the update store and the
journal) and `TicketService` are the services as pure operators, one per function of the
source that changes state, with the source's names. `Workflow` is
`services/workflow/*.mc`: the step (`advance.mc`), the messages (`protocol.mc`)
and the reload at restart (`restart.mc`), as operators on the record `runtime`
of all the service states a step may touch; its codes are the bytes of the
program, collisions included.

`WorkflowKernel` composes them. An action is one message or one restart:

| Action | Code |
|---|---|
| `WorkflowMsg`, `ConnectionExecute`, `ConsumeCompletionLease`, `ConsumeObjectLease` | `dispatch_workflow` and the delegated steps: advance, message, the writes of `persist_workflow_step` in order, commit, free the slot |
| `TimerCreate`, `TimerCancel`, `TimerPoll` | `dispatch_timer` (the tick first) |
| `TaskSubmit`, `TaskCancel`, `TaskComplete`, `CompletionAck` | `dispatch_task`, `dispatch_completion_mailbox` |
| `ConnectionOpen`, `ConnectionReceive`, `ConnectionSend`, `ConnectionClose` | `dispatch_connection` (a slot whose idle budget is used up is marked timed out) |
| `IssueCompletionLease`, `IssueInstallerLease`, `IssueObjectLease`, `IssueTicketLease`, `TicketIssue`, `TicketUse` | `dispatch_lease`, `dispatch_ticket` |
| `ObjectCreate`, `ObjectReplace`, `UpdateStage`, `UpdateManifest`, `UpdateClear`, `JournalAppend`, `JournalClear` | the durable services: write first, commit if the write succeeded |
| `restart_*` | `boot/init.mc` |

A write is external. It succeeds, or fails and leaves one of the contents in
`Faults`: the old one (`"kept"`), the new one (`"written"`), or nothing
(`"torn"`, a file truncated and not written).

`WorkflowContract` is what a client of the workflow and mailbox endpoints may
rely on, in five actions over a record, a queue of reports and the number of
accepted workflows. `Contract` in `WorkflowKernel` is the refinement mapping,
`ImplementsContract` the refinement: timers, tasks, leases, restarts, the
DELIVERING state and the retries disappear. One step of the code may finish one
workflow and accept another, and the contract has an action for that.

### The lane kernel

`LaneServices` is log, kv, queue, echo, file, the grant table and the transfer
service, with the reply or send of `transport/service_effect.mc`; `RestartLedger` is
the generations and outcomes of all cells, with the restart policy and the
topology as the three places in the code that must agree. `LaneKernel` composes them: `Receive` and
`ReceiveTransfer` are one message with the chain of effects it causes
(`execute_effect`, at most 8 deep), `ReceiveHandles` a message with one or two
grants, which are redeemed before the transfer service sees it, `GrantIssue` a
new grant, and the restarts. Ghost variables remember every grant with who
redeemed it and when, what the queue accepted and gave out, and the number of
marked kv writes. In the repository grants are issued by the scenario code only,
so `GrantIssue` is modelled from there.

`MCTicket`, `MCKernel` and `MCLane` hold the messages the kernel runs use.
`Cells_proofs` (tickets and leases), `WorkflowKernel_proofs` and
`LaneKernel_proofs` hold the theorems. `ServiceLemmas` has the facts about
searching and shortening a table that all of them use, `WorkflowLemmas` what each
operation of the compact services, and then a step of the workflow service, does
to the runtime.

### Building

`ProjectFile` reads a `build.toml` line by line; a line is what the tokenizer
makes of it. `BuildGraph` is the walk over targets and modules, its two
recursions written as stacks. `BuildCache` is one build directory over several
commands: parse, check, reuse or compile each module, write interface, object and
state record in the code's order, link; sources change between the steps and a
command may be killed between any two writes or in the middle of one. That the
modules of a command come in import order (`ImportsAssumption`) is what
`InterfacesComeFirst` of `BuildGraph` establishes. `BuildGraph_proofs` and
`BuildCache_proofs` hold the theorems. The three
describe what a command does one after the other, and `MCBuild` lets each
behaviour explore one of them.

`MciText` is the text format of an interface file: escapes, lists, lengths,
types and constants, written and read. `Mci` is the life of one file: written,
cut at any word, loaded a line in a step, compared with the hash and with what the
importer expects. The words of a text are groups of characters the reader cannot
look into; `constant` is two words because the reader of types does look for
`const`. A hash is what was hashed.

### Running

`TestCommand` is `mc test` with the child process, the waiting thread and the
deadline as processes of their own. `RuntimeCalls` has each acquiring function of
the runtime as the list of its steps with what the error path behind each
releases; the environment chooses the step that fails. `RuntimeTables` is the
poller, whose `poll` answers from any state of the descriptors, and the
redirections of a child between fork and exec. `MCHost` composes them;
`Host_proofs` holds the theorems.

### Compiling

`Lexer` and `Parser` are the front end over characters and over tokens. The
parser's call stack is a list of calls still to be made, so that a behaviour of
the model is a run of the parser and termination is a liveness property.
`AcceptedAsWritten` compares the tree with the precedence of the grammar, written
down separately. The parser model was also compared with the compiler itself on
5,210 generated sources: they agree on which are accepted, the nesting limits
apart, which are 3 in the model and 256 in the code.

`SourceLanguage` has the checker's rules for statements, and the meaning of a
statement as the language documents give it: a reference interpreter.
`Lowering` is `FunctionLowerer`, `Mir` the validator and a machine that runs MIR.
A behaviour checks, lowers, validates and runs one function, and the calls it
makes are compared with the interpreter's.

`NumericTypes` has the scalar types as checker, MIR and back end each see them,
and the constant evaluator. `Expressions` takes an expression through checker,
lowering, validation, code generation and execution and compares the result with
`Means`, the arithmetic of the language documents. `MCCode` holds their
programs and puts both side by side; `MCFront` holds the texts.

Definitions named after a definition of the source with a suffix
(`ticket_use_truncates`, `WithoutLast`, `LoadedIsWholeUnhashed`) are *mutants*:
the same operator with a plausible mistake. Nothing uses them; they exist to show
that a property fails when the code is changed so.

## 3 Runs

| Run | States | Shows |
|---|---|---|
| `ticket` | 1.13 million | `TicketTruth`, `NoTicketLost` with five byte values, so that both counters wrap, six restarts, six tickets; `LeaseTruth` with four leases of all kinds through two entries, a restart of the lease service and three of the others |
| `workflow` | 106 thousand | contract, `CancelOnlyWhenAsked`, `ResumedOnlyIfCurrent` and, under fairness, `EveryWorkflowEnds`: two clients' task workflows, another client's task in the same table, lane B overwritten, restarts of workflow, task, mailbox and work set |
| `request` | 240 thousand | contract, `SlotHeldUntilReported`, `TicketSpentIffReported`: requests with and without a leased ticket, closed, timed out or cancelled, direct use of the ticket, restarts of connection, task, mailbox, ticket and lease |
| `durable` | 249 thousand | contract, `ObjectsMoveOn`, `AppliedIsDurable`: objects and updates created, staged, leased and applied through a workflow, failing writes, reloads |
| `lanes` | 267 thousand | `GrantTruth`, `PairFromGrants`, `QueueInOrder`, `AuditTruth`, `LedgerAddsUp`: three grants through two table slots, log, kv and queue at capacity, single and lane restarts |
| `build` | 1.47 million | `BuildIsClean`, `FreshInterfaces`: three targets, three modules, three commands, edits, failing tools and kills; `InterfacesComeFirst`, `CyclesAreReal`: projects of every small shape; `AcceptedMeansWhatItSays`: files of up to four lines after a preamble |
| `host` | 88 thousand | `GreenIsEarned`, `VerdictFitsTheChild`, `NothingIsLeftBehind`, `LimitedRunsEnd`, `NothingLeaks`, `EventsAreDue`, `ChildHoldsItsEndsOnly` |
| `code` | 242 thousand | `ReadsAreDefined`, `CallsAreThoseOfTheSource`, `RunsAsSpecified`, `AcceptedCompiles`, `ConstantsAgree` |
| `front` | 492 thousand | `AcceptedAsWritten`, `LookaheadKeepsItsPromise`, `ParseEnds`, `LiteralsMeanWhatTheySay`, `LoadsAsWritten` |
| `leak_on_schedule`, `parse_ends`, `aliases` | | counterexamples, section 4 |

The kernel runs check for deadlock too: some message can always be handled. The
others describe commands that end.

### Bounds

Every bound is a constant.

*Kernel.* Capacities are 1 or 2 where the code has 4: each table is empty, partly
full and full, and an entry is freed and taken again, which is every case the code
distinguishes. There is one workflow record, so one or two accepted workflows
(`MaxWorkflows`) give a predecessor whose report is pending and a current one. One
or two restarts (`MaxRestarts`) give a restart at every point and a restart after
a restart. The codes keep their bytes (`U8 = 256`), so that codes which collide in
the program collide in the model; wrapping is checked in `ticket`, where a byte
has five values. `MaxPushes`, `MaxWrites` and `MaxGrants` cap ghost sequences at one more than
the capacities. No symmetry is used: the table order is visible.

*Builds.* Three commands and two upsets (`MaxBuilds`, `MaxUpsets`: an edit, a kill
or a tool that fails) give the sequences in which the second command meets what
the first left and the third what both left. Each text differs from another in its
exported types, its exported values or its bodies only, which are the differences
the reuse decisions look at.

*Host.* Up to two targets with two tests and two cases, each of which may pass,
fail, trap or hang; every step of every runtime call may fail; three descriptors,
two events, so that the poller has fewer places than ready files.

*Code.* Functions around a loop, branches in branches, a switch or a condition, with every leaf and every way out in every place; integer types of 2 to 4 bits
in the order of the real ones, so that every value is tried and every width meets
a narrower and a wider one; expressions of one and two operations.

*Texts.* All token strings and texts up to four or five symbols around each
decision of the parser and the lexer, and the larger families of `MCFront`.
Literals are limited to five bits where the code has 63 (`IntBits`), nesting of
types to 4 and of prefixes to 3 where it has 256. Interface files have each form of type and constant, texts
with every character the format uses itself, and are cut at every word.

### Fairness

There is no clock and no scheduler in the kernel, so nothing happens of its own.
`FairSpec` assumes of the clients that somebody polls the workflow endpoint again
as long as a poll has an effect, and that somebody acknowledges reports as long
as there are any (weak fairness of each). Nothing is assumed of restarts, of
other clients or of timers. `EveryWorkflowEnds` is checked with clients that
leave the reserved timer 1 alone: rearming it for ever would postpone a workflow
for ever. Requests are excluded as a restart may leave them with 129 ticks to
wait (section 4), which ends but not within the bounds of a run.

`TestCommand` assumes that the operating system runs the driver and the waiting
thread and that the deadline comes (weak fairness of each); nothing is assumed of
the tests. Compile steps are single steps there: that they end is taken for
granted, although a source on which the parser does not end (`parse_ends`) would
hang the command, and a time limit covers the tests only. The front end assumes that the parser's thread is run.

### Failing writes

`durable` uses writes that fail and leave the old or the new content. With
`"torn"` neither `ObjectsMoveOn` nor `AppliedIsDurable` holds: a service restarted
from a truncated file starts empty, and a later message that changes nothing in
memory does not repair the file. No documentation promises more, so this is
recorded as a hazard and not as a finding.

## 4 Where code and documentation disagree

Three runs end in a counterexample to a statement of the documentation.

- `leak_on_schedule` (`OccupiedIsPending`). `kernel/README.md:190` has occupancy
  kept "until completion delivery actually succeeds". `dispatch_workflow`
  (`kernel_dispatch.mc:490`) frees the slot only if no workflow is active after
  the step; if the message of that step schedules the next workflow, the slot
  stays occupied, and receive, send and execute are refused until it is closed.
- `parse_ends` (`EveryParseEnds`). `docs/plan/archive/phase5_array_to_slice_hang.txt:52`
  speaks of restored "compiler progress". The loops over the members of a struct
  or an enum (`parser_decls.cpp:317`) do not consume a token that starts no
  member: on `enum a { 1 }` the parser reports errors for ever. `ParseEnds`
  excepts that loop at such a token and nothing else (not its closing brace, nor
  the end of the file, where it must stop): on the sources of `front`, whole and
  cut off, it is the only way not to end.
- `aliases` (`AliasesAreTransparent`). `types_spec.txt:78` says that aliases are
  transparent. `LowerTypeInfoImpl` (`backend_types.cpp:164`) keeps the alias's
  name, and signedness is looked up by built-in name, each side with a default of
  its own. A value whose type is an alias of a signed type is widened with zeros
  (`backend_executable_support.cpp:704`), which is the trace of the run. A value
  whose type is an alias of an unsigned type is shifted right and ordered as a
  signed one (`backend_executable_numeric.cpp:779`, `:796`). The other operations
  on integers come out right: the checker gives arithmetic the resolved type
  (`type_utils.cpp:306`) and the MIR converts both operands to it, so division and
  remainder have the sign of the built-in type.

The others were met while modelling and have no run of their own. The model
follows the code; where a property would be violated, its definition names the
case as an exception.

*Kernel.*

- `restart_workflow` turns RUNNING into WAITING without writing lane B, so a second
  restart before the next step cancels the workflow in its own generation
  (`phase231_restart_safe_workflow_service_probe.txt:141` has it cancelled when the
  work set's generation moved).
- `workflow_restart_timer_due` (`core.mc:638`) has no case for a request, whose due
  field holds slot + 128: a resumed request waits 129 turns and more, where the
  same note (line 147) gives one turn of grace.
- A request given up by `workflow_restart_reload` (`restart.mc:56`) keeps the
  request byte where the slot is looked for, so its delivery frees nothing.
- A request whose task was ended by a client, and whose table entry was then
  reused, is reported as FAILED (`advance.mc:189`), which is none of the outcomes
  `kernel/README.md:205` names.
- `boot/boot.mc:69` speaks of "a strict cell/outcome pairing"; the workflow cell
  has no outcome. `identity/service_topology.mc:218` has retained owners carry
  state across restarts; the lease service is one and starts empty.
- Lease ids start again at 1 after a restart of the lease service: an id kept from
  before is honoured if the new lease of that id has the same kind.
- Bytes with two meanings: a cancel that arrives while the record is DELIVERING
  uses the outcome byte as a task id; `TICKET_INVALID` is the code of IDLE; task
  ids start again after a restart and may then name another client's task.

*Builds and interface files.*

- Three kinds of project in which a build that reports success may leave a stale
  program (`BuildIsClean` fails; `PlainProject` excludes them). Without a hosted
  environment, a module that is the entry of one program and an import of another:
  the state record (`builder.cpp:132`) does not say which of the two objects is
  there, and `ShouldReuseModuleObject` (`build_support.cpp:432`) takes it for the
  other. A program of one module whose entry is also the entry of a program of
  several: the merged object is written over the entry's own (`builder.cpp:393`)
  and linked in its place. A module that a library and the target linking it both
  compile: edited in between, it is archived from one text and recorded with the
  other.
- A source edited between the parse of the graph and the hash of its text
  (`builder.cpp:139`) leaves a record of the new text beside an object of the old
  one, which later builds reuse.
- An interface file that was cut short is refused, and every later build of an
  importer fails until it is removed.
- A type whose name begins with `const` or `proc`, `constant` say, is written but
  never loads: the reader of types takes the prefix for the keyword
  (`mci.cpp:825`, `:848`). A type named `range` or `tuple` with arguments loads as
  the built-in one. An array constant comes back with empty field names, so that
  an enum constant with an array in it is equal to itself in its own module and
  not in an importer (`const_eval.cpp:177`).
- Equal file times do not count as older in the relink decision; the freshness
  test of the MIR dump ignores the mode (`driver.cpp:477`); an integer in
  `build.toml` is accumulated without an overflow check (`project.cpp:476`); a
  `[targets.x]` without keys declares nothing.

*Test command and runtime.*

- A program that could not be started or waited for is given exit code 127
  (`ops.cpp:182`), so a run-output case that expects 127 passes without its program
  having run, if what the output file holds from before matches.
- A check-fail case whose expectation file cannot be read passes on any failing
  compile (`driver_test.cpp:650`). `kill` may follow the `waitpid` of the thread
  (`ops.cpp:94`).
- `close` is tried again after EINTR and `poll` restarted with the whole timeout
  (`mc_hosted_runtime.c:764`, `:1102`). With fewer places than ready files the
  first files are reported again and again and later ones never. The split pipe
  helper leaves the read end of the error pipe open in the child
  (`stdlib/os.mc:36`).

*Language.*

- Lookahead promises two sorts of type that `ParseTypeExpr` then refuses, so that
  the source is refused whatever else it might have meant (`MayBeRefused`). Of an
  array length `SkipArrayLengthLookahead` (`parser_expr.cpp:216`) looks at the
  brackets only: `([]a)(b)` and `([1 2]a)(b)` are taken for conversions and then
  lack a length (`parser_decls.cpp:486`). And a type nested to the limit with a
  name at the bottom is within the limit of the lookahead, which does not count
  the name, but not of `ParseTypeExpr` (`parser_decls.cpp:457`).
- The merge block of an `if` may be erased when the then branch reaches it only
  from a later block (`mir_lower_stmt.inc:157`); the validator refuses the
  function. A `panic` that is deferred and followed by `return` or `break` writes
  through an empty optional and the panic is lost. An empty switch case shares
  the next case's body (`statements_spec.txt:72`), and `break` leaves loops only
  (`:85`).
- `xs[:n]` is compiled as `xs[n:]` (`mir_lower.cpp:1843`; `slices_spec.txt:38`).
- The least value divided by -1 is undefined; `u8 << u32` truncates the count; `<`
  on truth values is signed; `-b` of a truth value, an index of another type than
  `usize` and `1 << n` are accepted and refused later. `i8 = 300` is accepted;
  constants are folded at 64 bits; a literal above the largest `int64` silently
  has no value; `t.0.1` is read as a float. Structures are compared byte by byte,
  padding included.

Hazards of the kernel that `PROJECT.json` does not list again, since the same
properties cover them: restarts that drop the transfer pair while its grants stay
spent, tasks left in the table by a resumed workflow, a refused execute that has
already written lane B.

## 5 Theorems

TLAPS checks every leaf of the following; nothing is assumed but the constants'
assumptions, which the modules that declare them name and the runs evaluate. They
say that capacities are positive, that a byte has at least two values, and that the
sets the environment draws from are of the types the code can receive
(`KernelAssumption`, `LaneKernelAssumption`, `RightsAssumption`,
`PlansAssumption`, `TablesAssumption`), that every copy of a string is an
allocation of its own (`CopiesAssumption`), and that a build gets its modules in import
order (`ImportsAssumption`), which is what `BuiltInImportOrder` below says of
`BuildGraph`, from targets that have an entry and link libraries only
(`TargetsAssumption`). No bound is assumed on the number of
clients, messages, restarts or workflows. Where a bound of a run appears in a guard
(`MaxRestarts`, `MaxGrants`), the theorem holds for each of its values.

**Tickets** (`Cells_proofs`). `TypeCorrect`, `TicketsTruthful` and
`TicketsKept`: `TypeOK`, `TicketTruth` and `NoTicketLost` are invariants. Neither
of the last two is inductive: that an unused ticket is honoured now says nothing
about the table after the next issue. The inductive invariant `IInv` adds
*Counters* (until they wrap, epoch and next id are what the ghost counters say,
and no granted ticket comes from the future) and *Table* (while the counters are
fresh the table lists, without repetition, exactly the ids of this run's unspent
tickets). No repetition is what makes removing the first occurrence remove the
ticket; injectivity of `u8` below its width is what makes the bytes of two tickets
differ.

**Leases** (`Cells_proofs`). `LeasesTruthful`: `LeaseTruth` is an invariant.
`LeaseInv` adds that `held` names the entries of the table, each lease once, and
that until the counter wraps each entry has exactly the bytes its lease was issued
with. The proof corrected the property: an earlier formulation told leases of
earlier runs apart by their rank, which wraps as the byte does.

**Workflows** (`WorkflowKernel_proofs`, on `WorkflowLemmas`). The inductive
invariant is `KernelInv`: every table with its bound, in memory and on disk
(`KernelTypes`; in particular an inactive record shows an outcome, and one whose
report is pending keeps it in `task`), and how far the files may be from the
services (`DiskFollows`, below). A lemma for each action reduces its effect to four
cases (`KernelSteps`): a message whose id may be asked for, a step of another
delegated kind, a reload of the workflow service, and steps that leave the workflow
alone (`Quiet`). In the first two the workflow first *advances* (`Advanced`:
settles an outcome in the mailbox or in the record, or goes on executing) and then
a new one begins, or it is cancelled, or nothing follows (`WorkflowMoved`). From
there:

- `TypeCorrect`: every state the kernel commits, and every file it leaves, is one
  its services can represent.
- `ContractImplemented`: `ImplementsContract`, each of these cases as an action of
  `WorkflowContract` or a stutter. The case that needs care is the step that
  reports one workflow and accepts the next.
- `StaleNotResumed` and `SilentOnlyIfCancelled`: `ResumedOnlyIfCurrent` and
  `CancelOnlyWhenAsked`. The first says what a restart of the workflow service may
  resume, not that a workflow under way stops when the work set restarts:
  `restart_retained_workset` moves the generation and leaves the workflow
  executing, and only a later restart of the workflow service gives it up.
- `TicketsSpentAsReported`: `TicketSpentIffReported`. Each advance *earns* its
  outcome (`Earned`): TICKET_USED only by taking the lease's ticket out of its table
  and the lease out of its own, any other outcome only by leaving tickets alone.
- `VersionsMoveOn` and `AppliedStaysInstalled`: `ObjectsMoveOn` and
  `AppliedIsDurable`, provided that no write is cut short. They need
  `DiskFollows`: a failed write may leave the file of objects one version ahead of
  the memory, and the file of updates different in what is installed only while
  the staged update is still to be applied.

Proving `TicketSpentIffReported` corrected it in two ways that no run had shown. An object lease
may be used up in the step that spends a ticket, so the property names the lease
and the ticket of the request instead of counting. And a client's cancel may end,
in the same step, the request whose advance just spent the ticket; the ticket is
then gone without a TICKET_USED, and the property names that case. Two codes are the
same byte (86, OBJECT_CONFLICT and TICKET_USED), so it has to look at the kind of
the workflow.

**Lanes** (`LaneKernel_proofs`). `GrantsTruthful`: `GrantTruth` is inductive
together with the types of `grants`, `granted` and `generation["transfer"]`; the
last is needed because "redeemed" is recorded as the generation, which must not be
0. `LedgerConsistent`: `LedgerAddsUp` for any sequence of single and lane
restarts. The inequality between the lanes and kv is the interesting part: kv
belongs to both lanes, so it counts each of their restarts. `PairHandedOver`,
`QueueKeepsOrder`, `WritesAudited` and `LaneTypes`: `PairFromGrants`,
`QueueInOrder`, `AuditTruth` and `TypeOK`, from `ServicesInv`. A message causes a
chain of effects that goes through several services before the kernel commits
anything, so the facts about queue, log and kv are stated of the runtime in the
middle of a chain (`Sound`) and each service is shown to keep them.

**Test command** (`Host_proofs`). `GreenEarned`, `ChildrenJudged` and
`NothingLeft`: `GreenIsEarned`, `VerdictFitsTheChild` and `NothingIsLeftBehind`, for
every plan of targets, tests and cases. The invariant has two parts: what is green
so far is earned so far (`SoFar`, over the targets and cases already done), and who
has reaped the child, and how it can have ended, in each state of the driver and of
the waiting thread (`Wait`).

**Runtime tables** (`Host_proofs`). `PollerReports`: `EventsAreDue`. The
loop of `poller_wait` is a fold; the lemma about one turn (`EmitNext`) is lifted to
the loop by the least turn at which it could fail. `ChildHolds`:
`ChildHoldsItsEndsOnly`, for every numbering of the pipes above the standard
descriptors, which covers every order in which `dup2` and `close` could meet.

**Runtime calls** (`Host_proofs`). `CallsKeepNothing`: `NothingLeaks`, for listings
of any length and programs with any number of arguments. Each step of a call takes
what is held from one set to the next and undoes exactly that set (`Takes`); that
such steps can be joined (`RunsThen`), also as often as a directory has entries
(`FlattenedRuns`, by induction), gives for each call a run from nothing to its
result (`CallsSound`), and the invariant `CallInv` says how far along it a call in
progress is.

**Builds** (`BuildCache_proofs`). `CompiledAgainstThisCommand`: `FreshInterfaces`,
for every project, any edits and any commands cut short before or during it. The
property looks at one moment, the turn of a module; the invariant `CacheInv` looks at
the whole queue: it is the rest of the list the command began with (`Progress`),
preceded by files of the last module taken, and each module taken has its interface
on the disk or among those files. Files left by earlier commands need no
description: one that is cut or different is written again or ends the command
before anything reads it.

`BuildsAreClean`: `BuildIsClean`, for every project that is a `PlainProject`, that is
outside the three kinds of section 4; the project of the run is one (`PlainAssumption`),
and so are the projects of several targets under `examples`. Here files left by earlier commands do
need a description, for they are what is reused. The invariant `BuildInv` has two
parts. `DiskInv` describes the directory by its own state records, whatever texts
those are of: the object of an unmarked module holds the code its record tells of; an
output does so of each module whose object is not newer, holds the libraries that
are not newer as they are, and the runtime if its object is not newer. It is kept
by every step, a killed command's included, and it is why comparing times decides
correctly (`FileChanged`, `FilesUnchanged`). `Stands` describes the command: what has been
taken from its list is on the disk as a build from an empty directory would make it
(`Clean`, the function that `InterfaceOf` determines, which exists because imports
come first: `CleanExists`), or is among the files still to be written, and those are
in an order that leaves `DiskInv` true in between (`FileFor`: the old object goes
before the new one comes, the record follows). Where the record agrees with
the present sources, `DiskInv` turns it into `Stands`; this is the correctness of
`ShouldReuseModuleObject` (`CompileStands`) and of the decisions to archive and to
link again (`ArchiveKept`, `ProgramKept`). TLC checked `BuildInv` first, on the
project of the run and on a smaller one, and found the three kinds of project above when
a hypothesis was dropped.

**The build graph** (`BuildGraph_proofs`). `CyclesAreImportRings`,
`BuiltInImportOrder` and `BuiltAsInterfacesNeed`: `CyclesAreReal` and
`InterfacesComeFirst`, for every `build.toml` as `LoadProjectFile` hands it over
(`Loaded`), any tree of files and any command line. The invariant `GraphInv` says of
a walk under way that the active calls are a path of imports (`Path`), which is
what closes into a ring when an import meets an active call; that a module has one
call or one node (`Once`); that what is finished imports only what was finished
before or what a library below compiles (`Backwards`); and that an import already
taken by an active call is finished, external, or the call above it (`Waiting`).
Only the entry may be a source of a library below (`Entered`). The returned graph
joins the graphs of the links, so each of them must stand whole in it: the lemmas
on `FlattenSeq` (`Flattened`, `PartPlace`) show this by induction over the list.
For the owners of sources, `OwnerInv` follows through the stack which libraries a
target has linked and will link. It needs that no target lists a library twice
(`LinkedOnce`), which the loader does not enforce: a library listed twice is
resolved twice, and that both walks give the same graph is a fact about two
executions of the same code, which this invariant does not compare. TLC checks projects with
such a list. The proof corrected the property: as first written it exempted a
target's root source from having one owner, but the entry may be a module set that
the root source is only a part of.

## 6 What is only model-checked, and what is not modelled

Only model-checked:

- `SlotHeldUntilReported`. It is false of the unbounded kernel: request ids are
  bytes, and a slot left occupied by a reload (section 4) meets a request of the
  same id after 255 others. The run, with its one or two workflows, shows that it
  holds until ids wrap.
- `EveryWorkflowEnds`, `LimitedRunsEnd`, `ParseEnds`: liveness under fairness, out of
  the prover's reach.
- The interface text, the parser, the lexer, lowering, types and
  expressions: their models, or the references they are compared with, are recursive
  operators over data, which the prover cannot use, and induction over data is out
  of its reach as well.
- `BuildIsClean` where the project is not a `PlainProject`: it is false there
  (section 4).
- `build.toml` (`AcceptedMeansWhatItSays`), which compares the loop over lines with
  a reading of the whole text, by induction over the text; and `InterfacesComeFirst`
  for a target that lists a library twice, as section 5 explains.

Abstracted in the kernel: reply bytes that no property tells apart; the byte layout
of artifact files (a file is its content, with the ways a write can fail); queries,
which change nothing beyond the tick or the step they share with a poll; the count
of refused pushes, of which only whether it is zero matters; the restart of the
timer service, which reloads what was there.

Abstracted in the compiler: `&&` and `||` among expressions, which occur in folded
constants there and are lowered to branches in `Lowering`; spans, diagnostics and their wording; the text of a
source in a build, to what it exports and contains; the host tools; which strings
are valid spellings of a value in `build.toml`; hashes, to what they hash; the
outcome of a system call, to success or failure.

Not modelled: launcher, display and apps, the serial shell, the lifecycle queries,
a reboot of the whole kernel, and the scenarios, which are tests. In the compiler:
generics, aggregates, floats, atomics, procedure values and multiple results in
checker, lowering and back end; visibility of imported names; dumps; the constants
of interface format 2. In the runtime: the buffer pool, plain reads and writes,
strings and time. These are either formatting or tables of cases without
interaction; generics and aggregates are the largest part still worth modelling.

## 7 Plan

Done: tickets, leases, the workflow kernel with its contract, the lane kernel, the
test command, the runtime's tables and its calls, and the build graph, all with
proofs; incremental builds, with proofs about interfaces and about what a successful build
leaves; interface files; lexer, parser, statements and expressions from source to
execution. What remains, in order of importance:

1. `LiteralsMeanWhatTheySay` for the digit loop of the lexer, if it can be written
   without recursion.
2. `Launcher`: select, launch, stop and the launch record against update store
   changes and restarts. Property: a program resumes only if the installed program
   is the one that was launched.
3. `SerialPath`: frame buffer, malformed and closed frames, the stalled reply.
