------------------------------ MODULE TaskPool ------------------------------
(***************************************************************************)
(* What the thread pool promises its caller: a bounded FIFO of tasks,      *)
(* every task handed to exactly one idle worker, and a shutdown in which   *)
(* thread_num exit tasks are queued behind the last real one.  No mutex,   *)
(* no condition variable, no ring buffer: BlockQueue implements this.      *)
(***************************************************************************)
EXTENDS Integers, Sequences

CONSTANTS thread_num,   \* number of pool threads (the "thread_num" setting)
          QUEUE_SIZE,   \* capacity of the queue (1024 in head.h)
          MaxTasks      \* bound: tasks the event loop distributes

VARIABLES queue,        \* the tasks submitted and not yet taken
          job,          \* job[w]: the task worker w holds, Idle or Exited
          sent,         \* tasks submitted so far; task n is the n-th one
          pills,        \* exit tasks submitted so far
          done          \* tasks whose cmd_analyse has returned

poolVars == <<queue, job, sent, pills, done>>

Workers == 1..thread_num
Pill    == -1                     \* task_t with state == -1
Tasks   == 1..MaxTasks
Idle    == 0
Exited  == -2

Init == /\ queue = << >>
        /\ job = [w \in Workers |-> Idle]
        /\ sent = 0
        /\ pills = 0
        /\ done = {}

Submit == /\ sent < MaxTasks
          /\ pills = 0
          /\ Len(queue) < QUEUE_SIZE
          /\ queue' = Append(queue, sent + 1)
          /\ sent' = sent + 1
          /\ UNCHANGED <<job, pills, done>>

SubmitPill == /\ pills < thread_num
              /\ Len(queue) < QUEUE_SIZE
              /\ queue' = Append(queue, Pill)
              /\ pills' = pills + 1
              /\ UNCHANGED <<job, sent, done>>

Take(w) == /\ job[w] = Idle
           /\ queue # << >>
           /\ job' = [job EXCEPT ![w] = Head(queue)]
           /\ queue' = Tail(queue)
           /\ UNCHANGED <<sent, pills, done>>

Finish(w) == /\ job[w] \in Tasks
             /\ job' = [job EXCEPT ![w] = Idle]
             /\ done' = done \cup {job[w]}
             /\ UNCHANGED <<queue, sent, pills>>

Exit(w) == /\ job[w] = Pill
           /\ job' = [job EXCEPT ![w] = Exited]
           /\ UNCHANGED <<queue, sent, pills, done>>

Next == \/ Submit
        \/ SubmitPill
        \/ \E w \in Workers : Take(w) \/ Finish(w) \/ Exit(w)

Spec == Init /\ [][Next]_poolVars
=============================================================================
