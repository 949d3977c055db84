---------------------------- MODULE TaskService ----------------------------
(* kernel/src/services/task_service.mc: a bounded table of tasks.  A slot is *)
(* reused as soon as its task has ended, so the answer about a finished task *)
(* is only kept until somebody submits another one.                          *)
EXTENDS Bytes, Sequences, SequencesExt

CONSTANT TASK_CAPACITY  \* 4 in the code

ASSUME TaskAssumption == TASK_CAPACITY \in Nat \ {0}

TASK_STATE_ACTIVE    == 65
TASK_STATE_DONE      == 68
TASK_STATE_CANCELLED == 67
TASK_STATE_FAILED    == 70

TASK_OPCODE_FAILS == 255  \* the opcode of a task that fails when submitted

\* The opcode of a task is answered by queries and used by nothing else.
Task == [id : Byte, state : Byte]

TaskServiceState == [tasks : Seq(Task), next : Byte]

task_init == [tasks |-> << >>, next |-> 1]

\* The index of the first task with this id, 0 if there is none.
task_find(s, id) == SelectInSeq(s.tasks, LAMBDA t : t.id = id)

\* The slot a new task takes: the first one whose task has ended, else a
\* fresh one; TASK_CAPACITY + 1 says that there is none.
task_find_free(s) ==
    LET ended == SelectInSeq(s.tasks, LAMBDA t : t.state # TASK_STATE_ACTIVE)
    IN  IF ended # 0 THEN ended ELSE Len(s.tasks) + 1

\* The answer to an accepted submission carries the task's id and state.
task_submit(s, opcode) ==
    LET slot == task_find_free(s)
        new  == [id    |-> s.next,
                 state |-> IF opcode = TASK_OPCODE_FAILS THEN TASK_STATE_FAILED
                           ELSE TASK_STATE_ACTIVE]
        none == [id |-> 0, state |-> 0]
    IN  IF opcode = 0
        THEN [state |-> s, status |-> "InvalidArgument", task |-> none]
        ELSE IF slot > TASK_CAPACITY
        THEN [state |-> s, status |-> "Exhausted", task |-> none]
        ELSE [state  |-> [next  |-> u8(s.next + 1),
                          tasks |-> IF slot > Len(s.tasks)
                                    THEN Append(s.tasks, new)
                                    ELSE [s.tasks EXCEPT ![slot] = new]],
              status |-> "Ok",
              task   |-> new]

\* What task_query answers about a task: its state, 0 if it is unknown.
task_query(s, id) ==
    LET idx == task_find(s, id)
    IN  IF idx = 0 THEN 0 ELSE s.tasks[idx].state

\* Both ways to end a task need it to be active.
task_end(s, id, state) ==
    LET idx == task_find(s, id)
    IN  IF task_query(s, id) = TASK_STATE_ACTIVE
        THEN [state |-> [s EXCEPT !.tasks[idx].state = state], status |-> "Ok"]
        ELSE [state |-> s, status |-> "InvalidArgument"]

task_cancel(s, id)   == task_end(s, id, TASK_STATE_CANCELLED)
task_complete(s, id) == task_end(s, id, TASK_STATE_DONE)
=============================================================================
