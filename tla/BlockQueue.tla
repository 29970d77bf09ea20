----------------------------- MODULE BlockQueue -----------------------------
(***************************************************************************)
(* The route server's thread pool (thread_pool.c) over its bounded ring    *)
(* buffer (block_queue.c): one mutex, the condition variables not_empty    *)
(* and not_full, one producer (the event loop) and thread_num consumers.   *)
(*                                                                         *)
(* A task is a number: the n-th task the event loop distributes is n, an   *)
(* exit task (state == -1) is Pill, a slot calloc has zeroed is 0.         *)
(* Everything between lock and unlock is kept as separate steps.  A thread *)
(* that is signalled leaves the wait set and competes for the mutex again, *)
(* so it re-evaluates the "while" around pthread_cond_wait, as it does     *)
(* after a spurious wakeup.                                                *)
(***************************************************************************)
EXTENDS Integers, FiniteSets

CONSTANTS thread_num,    \* number of pool threads (the "thread_num" setting)
          QUEUE_SIZE,    \* capacity of the ring buffer (1024 in head.h)
          MaxTasks,      \* bound: tasks the event loop distributes
          MaxSpurious    \* bound: spurious wakeups of pthread_cond_wait

ASSUME PoolAssumption == /\ thread_num \in Nat \ {0}
                         /\ QUEUE_SIZE \in Nat \ {0}
                         /\ MaxTasks \in Nat
                         /\ MaxSpurious \in Nat

VARIABLES task_queue, front, rear, size,  \* block_queue_t
          mutex,                          \* the thread that holds it, or NoThread
          not_empty, not_full,            \* threads asleep on each condition
          pc,                             \* where each thread is
          new_task,                       \* the task each thread has in hand
          i,                              \* the event loop thread's loop counter
          sent,                           \* tasks put into the buffer so far
          done,                           \* tasks whose cmd_analyse returned
          spurious                        \* spurious wakeups so far

queueVars == <<task_queue, front, rear, size>>
vars == <<task_queue, front, rear, size, mutex, not_empty, not_full,
          pc, new_task, i, sent, done, spurious>>

Workers  == 1..thread_num
Main     == 0
Threads  == 0..thread_num
NoThread == -1
Tasks    == 1..MaxTasks
Pill     == -1
Zeroed   == 0
Slots    == 0..(QUEUE_SIZE - 1)

MainPCs   == {"create", "loop", "lock", "test", "wait", "signal", "unlock",
              "pills", "join", "done"}
WorkerPCs == {"none", "lock", "test", "wait", "signal", "unlock", "run", "exited"}

Goto(t, label) == pc' = [pc EXCEPT ![t] = label]

-----------------------------------------------------------------------------
(* block_queue_create and the start of thread_pool_init *)

Init == /\ task_queue = [s \in Slots |-> Zeroed]
        /\ front = 0
        /\ rear = 0
        /\ size = 0
        /\ mutex = NoThread
        /\ not_empty = {}
        /\ not_full = {}
        /\ pc = [t \in Threads |-> IF t = Main THEN "create" ELSE "none"]
        /\ new_task = [t \in Threads |-> Zeroed]
        /\ i = 0
        /\ sent = 0
        /\ done = {}
        /\ spurious = 0

\* thread_pool_init's loop: pthread_create of thread i + 1.
ThreadCreate ==
    /\ pc[Main] = "create"
    /\ i < thread_num
    /\ Goto(i + 1, "lock")
    /\ i' = i + 1
    /\ UNCHANGED <<queueVars, mutex, not_empty, not_full, new_task, sent, done, spurious>>

ThreadsCreated ==
    /\ pc[Main] = "create"
    /\ i = thread_num
    /\ Goto(Main, "loop")
    /\ UNCHANGED <<queueVars, mutex, not_empty, not_full, new_task, i, sent, done, spurious>>

-----------------------------------------------------------------------------
(* The event loop thread *)

\* A client's command is ready: the event loop calls distribute_task.
Distribute ==
    /\ pc[Main] = "loop"
    /\ sent < MaxTasks
    /\ new_task' = [new_task EXCEPT ![Main] = sent + 1]
    /\ Goto(Main, "lock")
    /\ UNCHANGED <<queueVars, mutex, not_empty, not_full, i, sent, done, spurious>>

\* The exit pipe is readable: the event loop enters thread_pool_exit.
ExitRequested ==
    /\ pc[Main] = "loop"
    /\ Goto(Main, "pills")
    /\ i' = 0
    /\ UNCHANGED <<queueVars, mutex, not_empty, not_full, new_task, sent, done, spurious>>

\* First loop of thread_pool_exit: one exit task per thread.
PillBound == thread_num

PushPill ==
    /\ pc[Main] = "pills"
    /\ i < PillBound
    /\ new_task' = [new_task EXCEPT ![Main] = Pill]
    /\ Goto(Main, "lock")
    /\ UNCHANGED <<queueVars, mutex, not_empty, not_full, i, sent, done, spurious>>

PillsPushed ==
    /\ pc[Main] = "pills"
    /\ i = PillBound
    /\ Goto(Main, "join")
    /\ i' = 0
    /\ UNCHANGED <<queueVars, mutex, not_empty, not_full, new_task, sent, done, spurious>>

\* Mutant: thread_pool_exit does not wait for the threads.
JoinNoWait ==
    /\ pc[Main] = "join"
    /\ i < thread_num
    /\ i' = i + 1
    /\ UNCHANGED <<queueVars, mutex, not_empty, not_full, pc, new_task, sent, done, spurious>>

\* Second loop of thread_pool_exit: pthread_join(pthid[i]).
Join ==
    /\ pc[Main] = "join"
    /\ i < thread_num
    /\ pc[i + 1] = "exited"
    /\ i' = i + 1
    /\ UNCHANGED <<queueVars, mutex, not_empty, not_full, pc, new_task, sent, done, spurious>>

Joined ==
    /\ pc[Main] = "join"
    /\ i = thread_num
    /\ Goto(Main, "done")
    /\ UNCHANGED <<queueVars, mutex, not_empty, not_full, new_task, i, sent, done, spurious>>

-----------------------------------------------------------------------------
(* The mutex and the condition variables *)

Lock(t) ==
    /\ pc[t] = "lock"
    /\ mutex = NoThread
    /\ mutex' = t
    /\ Goto(t, "test")
    /\ UNCHANGED <<queueVars, not_empty, not_full, new_task, i, sent, done, spurious>>

\* pthread_mutex_unlock and the return to the caller: a worker goes on with
\* the task it popped, the event loop to its next event or its next exit task.
Unlock(t) ==
    /\ pc[t] = "unlock"
    /\ mutex' = NoThread
    /\ Goto(t, IF t # Main THEN "run"
               ELSE IF new_task[t] = Pill THEN "pills" ELSE "loop")
    /\ i' = IF t = Main /\ new_task[t] = Pill THEN i + 1 ELSE i
    /\ UNCHANGED <<queueVars, not_empty, not_full, new_task, sent, done, spurious>>

\* POSIX allows pthread_cond_wait to return without a signal.
SpuriousWakeup(t) ==
    /\ spurious < MaxSpurious
    /\ pc[t] = "wait"
    /\ not_empty' = not_empty \ {t}
    /\ not_full' = not_full \ {t}
    /\ Goto(t, "lock")
    /\ spurious' = spurious + 1
    /\ UNCHANGED <<queueVars, mutex, new_task, i, sent, done>>

-----------------------------------------------------------------------------
(* block_queue_push, by the event loop *)

\* Mutant: push tests for one slot too many.
FullOffByOne == size = QUEUE_SIZE + 1

Full  == size = QUEUE_SIZE
Empty == size = 0

\* Mutant: the index wraps one slot early.
AdvanceEarly(s) == IF s + 2 >= QUEUE_SIZE THEN 0 ELSE s + 1

\* The slot after s.
Advance(s) == (s + 1) % QUEUE_SIZE

PushWait ==
    /\ pc[Main] = "test"
    /\ Full
    /\ not_full' = not_full \cup {Main}
    /\ mutex' = NoThread
    /\ Goto(Main, "wait")
    /\ UNCHANGED <<queueVars, not_empty, new_task, i, sent, done, spurious>>

\* Mutant: push forgets to move rear.
PushPutNoAdvance ==
    /\ pc[Main] = "test"
    /\ ~Full
    /\ task_queue' = [task_queue EXCEPT ![rear] = new_task[Main]]
    /\ size' = size + 1
    /\ sent' = IF new_task[Main] = Pill THEN sent ELSE sent + 1
    /\ Goto(Main, "signal")
    /\ UNCHANGED <<front, rear, mutex, not_empty, not_full, new_task, i, done, spurious>>

PushPut ==
    /\ pc[Main] = "test"
    /\ ~Full
    /\ task_queue' = [task_queue EXCEPT ![rear] = new_task[Main]]
    /\ rear' = Advance(rear)
    /\ size' = size + 1
    /\ sent' = IF new_task[Main] = Pill THEN sent ELSE sent + 1
    /\ Goto(Main, "signal")
    /\ UNCHANGED <<front, mutex, not_empty, not_full, new_task, i, done, spurious>>

\* Mutant: push signals only when the ring was empty before.
PushSignalIfWasEmpty ==
    /\ pc[Main] = "signal"
    /\ \/ /\ not_empty = {} \/ size # 1
          /\ Goto(Main, "unlock")
          /\ UNCHANGED not_empty
       \/ \E w \in not_empty :
             /\ size = 1
             /\ not_empty' = not_empty \ {w}
             /\ pc' = [pc EXCEPT ![Main] = "unlock", ![w] = "lock"]
    /\ UNCHANGED <<queueVars, mutex, not_full, new_task, i, sent, done, spurious>>

\* pthread_cond_signal(&q->not_empty) wakes one of the sleeping workers.
PushSignal ==
    /\ pc[Main] = "signal"
    /\ \/ /\ not_empty = {}
          /\ Goto(Main, "unlock")
          /\ UNCHANGED not_empty
       \/ \E w \in not_empty :
             /\ not_empty' = not_empty \ {w}
             /\ pc' = [pc EXCEPT ![Main] = "unlock", ![w] = "lock"]
    /\ UNCHANGED <<queueVars, mutex, not_full, new_task, i, sent, done, spurious>>

-----------------------------------------------------------------------------
(* block_queue_pop and the body of pth_func, by worker w *)

PopWait(w) ==
    /\ pc[w] = "test"
    /\ Empty
    /\ not_empty' = not_empty \cup {w}
    /\ mutex' = NoThread
    /\ Goto(w, "wait")
    /\ UNCHANGED <<queueVars, not_full, new_task, i, sent, done, spurious>>

PopTake(w) ==
    /\ pc[w] = "test"
    /\ ~Empty
    /\ new_task' = [new_task EXCEPT ![w] = task_queue[front]]
    /\ front' = Advance(front)
    /\ size' = size - 1
    /\ Goto(w, "signal")
    /\ UNCHANGED <<task_queue, rear, mutex, not_empty, not_full, i, sent, done, spurious>>

\* Mutant: pop does not signal not_full.
PopSignalMissing(w) ==
    /\ pc[w] = "signal"
    /\ Goto(w, "unlock")
    /\ UNCHANGED <<queueVars, mutex, not_empty, not_full, new_task, i, sent, done, spurious>>

\* pthread_cond_signal(&q->not_full): only the event loop sleeps there.
PopSignal(w) ==
    /\ pc[w] = "signal"
    /\ not_full' = {}
    /\ pc' = [t \in Threads |-> IF t = w THEN "unlock"
                                ELSE IF t \in not_full THEN "lock" ELSE pc[t]]
    /\ UNCHANGED <<queueVars, mutex, not_empty, new_task, i, sent, done, spurious>>

\* Mutant: the worker goes back to the queue without running the task.
ExecuteSkipped(w) ==
    /\ pc[w] = "run"
    /\ new_task[w] # Pill
    /\ Goto(w, "lock")
    /\ UNCHANGED <<queueVars, mutex, not_empty, not_full, new_task, i, sent, done, spurious>>

\* cmd_analyse has returned and the worker goes back to block_queue_pop.
Execute(w) ==
    /\ pc[w] = "run"
    /\ new_task[w] # Pill
    /\ done' = done \cup {new_task[w]}
    /\ Goto(w, "lock")
    /\ UNCHANGED <<queueVars, mutex, not_empty, not_full, new_task, i, sent, spurious>>

\* new_task.state == -1: pthread_exit.
PthreadExit(w) ==
    /\ pc[w] = "run"
    /\ new_task[w] = Pill
    /\ Goto(w, "exited")
    /\ UNCHANGED <<queueVars, mutex, not_empty, not_full, new_task, i, sent, done, spurious>>

-----------------------------------------------------------------------------

MainStep == \/ ThreadCreate \/ ThreadsCreated
            \/ PushPill \/ PillsPushed
            \/ Join \/ Joined
            \/ Lock(Main) \/ PushWait \/ PushPut \/ PushSignal \/ Unlock(Main)

WorkerStep(w) == \/ Lock(w) \/ PopWait(w) \/ PopTake(w) \/ PopSignal(w) \/ Unlock(w)
                 \/ Execute(w) \/ PthreadExit(w)

\* The process has ended in an orderly way.
Terminated == /\ pc[Main] = "done"
              /\ UNCHANGED vars

Next == \/ MainStep
        \/ Distribute
        \/ ExitRequested
        \/ \E w \in Workers : WorkerStep(w)
        \/ \E t \in Threads : SpuriousWakeup(t)
        \/ Terminated

Spec == Init /\ [][Next]_vars

\* Every thread that can run is scheduled; neither a client's command nor an
\* exit request is promised.
Fairness == /\ WF_vars(MainStep)
            /\ \A w \in Workers : WF_vars(WorkerStep(w))

FairSpec == Spec /\ Fairness

-----------------------------------------------------------------------------
(* Properties *)

TypeOK == /\ task_queue \in [Slots -> Tasks \cup {Pill, Zeroed}]
          /\ front \in Slots
          /\ rear \in Slots
          /\ size \in 0..QUEUE_SIZE
          /\ mutex \in Threads \cup {NoThread}
          /\ not_empty \subseteq Workers
          /\ not_full \subseteq {Main}
          /\ pc \in [Threads -> MainPCs \cup WorkerPCs]
          /\ pc[Main] \in MainPCs
          /\ \A w \in Workers : pc[w] \in WorkerPCs
          /\ new_task \in [Threads -> Tasks \cup {Pill, Zeroed}]
          /\ i \in 0..thread_num
          /\ sent \in 0..MaxTasks
          /\ done \subseteq Tasks
          /\ spurious \in 0..MaxSpurious

\* The k-th queued task, counted from the front of the ring.
QueuedAt(k) == task_queue[(front + k - 1) % QUEUE_SIZE]

\* A worker holds the task it popped from block_queue_pop's assignment on.
Holding(w) == pc[w] \in {"signal", "unlock", "run"}

\* Workers on their way to the "while(q->size == 0)" of block_queue_pop.
Seekers == {w \in Workers : pc[w] \in {"lock", "test"}}

\* A thread is inside block_queue_push or block_queue_pop, past the lock and not
\* asleep, exactly when it owns the mutex.
MutexInv == \A t \in Threads : pc[t] \in {"test", "signal", "unlock"} <=> mutex = t

\* The wait sets hold exactly the threads that sleep.
SleepInv == /\ not_empty = {w \in Workers : pc[w] = "wait"}
            /\ not_full = {t \in {Main} : pc[t] = "wait"}

\* The event loop's own progress: threads not created yet have not started, and
\* what it is about to push is the next task or one more exit task.
PushInv ==
    /\ pc[Main] = "create" => \A w \in Workers : w > i => pc[w] = "none"
    /\ pc[Main] \in {"lock", "test", "wait"} =>
          \/ new_task[Main] = Pill
          \/ new_task[Main] = sent + 1 /\ sent < MaxTasks
    /\ pc[Main] \in {"signal", "unlock"} =>
          new_task[Main] = Pill \/ new_task[Main] = sent
    /\ pc[Main] \in {"lock", "test", "wait", "signal", "unlock"} =>
          IF new_task[Main] = Pill THEN i < thread_num ELSE i = thread_num
    /\ pc[Main] = "loop" => i = thread_num

\* front, rear and size agree, and the slots from front on hold real tasks: no
\* worker ever takes a slot nobody filled.
RingInv == /\ rear = (front + size) % QUEUE_SIZE
           /\ \A k \in 1..size : QueuedAt(k) # Zeroed
           /\ \A w \in Workers : Holding(w) => new_task[w] # Zeroed

\* The inductive invariant of the proofs: ring, mutex, wait sets and locals agree
\* at every step of block_queue_push and block_queue_pop.
QueueInv == TypeOK /\ MutexInv /\ SleepInv /\ PushInv /\ RingInv

\* No wakeup is lost: while a worker sleeps on not_empty there are at most as
\* many queued tasks as workers already on their way to take one, counting the
\* signal block_queue_push is about to send.  Signalling one thread per push,
\* with the mutex held, is enough: a task never waits beside a sleeping worker.
WorkConserving ==
    not_empty # {} =>
        size <= Cardinality(Seekers) + (IF pc[Main] = "signal" THEN 1 ELSE 0)

\* The event loop sleeps on not_full only while the ring is full, or while the
\* worker that made room is about to signal it.
ProducerWoken ==
    Main \in not_full => Full \/ \E w \in Workers : pc[w] = "signal"

\* Each distributed task is in exactly one place: one slot between front and
\* rear, one worker's hands, or finished.  Nothing is lost or run twice when the
\* indices wrap around or when workers pop concurrently.
EachTaskOnce ==
    \A n \in 1..sent :
        LET queued == {k \in 1..size : QueuedAt(k) = n}
            held   == {w \in Workers : Holding(w) /\ new_task[w] = n}
        IN  Cardinality(queued) + Cardinality(held)
              + Cardinality(done \cap {n}) = 1

\* thread_pool_exit queues as many exit tasks as threads need: once it starts to
\* join, every thread that has not got one yet finds one in the ring.
PillPerWorker ==
    pc[Main] = "join" =>
        Cardinality({k \in 1..size : QueuedAt(k) = Pill})
          = Cardinality({w \in Workers : ~(Holding(w) /\ new_task[w] = Pill)
                                          /\ pc[w] # "exited"})

\* An orderly exit drops nothing: when thread_pool_exit returns, every task ever
\* distributed has been executed, the ring is empty and every thread is gone.
DrainedAtExit ==
    pc[Main] = "done" => /\ done = 1..sent
                         /\ size = 0
                         /\ \A w \in Workers : pc[w] = "exited"

\* The books of the pool from the first push to the last join: each task is in one
\* place, each thread finds its exit task, and the exit drops nothing.
PoolInv == EachTaskOnce /\ PillPerWorker /\ DrainedAtExit

-----------------------------------------------------------------------------
(* Refinement: the ring, the mutex and the condition variables implement the *)
(* bounded FIFO of TaskPool.                                                 *)

Poisoned ==
    CASE pc[Main] \in {"create", "loop"} -> 0
      [] pc[Main] \in {"join", "done"}   -> thread_num
      [] pc[Main] = "pills"              -> i
      [] pc[Main] \in {"lock", "test", "wait"} ->
            IF new_task[Main] = Pill THEN i ELSE 0
      [] OTHER -> IF new_task[Main] = Pill THEN i + 1 ELSE 0

Pool == INSTANCE TaskPool WITH
          queue <- [k \in 1..size |-> QueuedAt(k)],
          job   <- [w \in Workers |-> IF pc[w] = "exited" THEN -2
                                      ELSE IF Holding(w) THEN new_task[w] ELSE 0],
          pills <- Poisoned

\* block_queue.c and thread_pool.c implement TaskPool: tasks leave in the order
\* they came, each goes to one idle worker, and exit tasks come last.
ImplementsTaskPool == Pool!Spec

-----------------------------------------------------------------------------
(* Liveness *)

\* Every task block_queue_push has queued is eventually executed, provided the
\* handlers return: no worker sleeps for ever on not_empty and the event loop
\* does not sleep for ever on not_full.
TaskEventuallyDone == \A n \in Tasks : (sent >= n) ~> (n \in done)

\* thread_pool_exit returns: each pthread_join finds its thread gone.
ExitCompletes == (pc[Main] = "pills") ~> (pc[Main] = "done")

\* Whatever block_queue_push has accepted is done, and thread_pool_exit returns.
PoolLive == TaskEventuallyDone /\ ExitCompletes
=============================================================================
