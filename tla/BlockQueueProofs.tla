-------------------------- MODULE BlockQueueProofs --------------------------
(***************************************************************************)
(* Proofs about BlockQueue, for every thread_num, QUEUE_SIZE, number of    *)
(* tasks and number of spurious wakeups.                                   *)
(***************************************************************************)
EXTENDS BlockQueue, FiniteSetTheorems, FunctionTheorems, SequenceTheorems, TLAPS

\* Ring arithmetic: one wrap at most.
LEMMA WrapOnce ==
    ASSUME NEW Q \in Nat \ {0}, NEW a \in 0..(Q - 1), NEW b \in 0..Q
    PROVE  (a + b) % Q = IF a + b < Q THEN a + b ELSE a + b - Q
<1>1. CASE a + b < Q
  BY <1>1
<1>2. CASE a + b >= Q
  BY <1>2
<1> QED
  BY <1>1, <1>2

\* The index of the next slot, as block_queue_push and block_queue_pop compute it.
LEMMA AdvanceValue ==
    ASSUME NEW s \in Slots
    PROVE  Advance(s) = IF s = QUEUE_SIZE - 1 THEN 0 ELSE s + 1
<1>1. CASE s = QUEUE_SIZE - 1
  BY <1>1, PoolAssumption DEF Advance, Slots
<1>2. CASE s # QUEUE_SIZE - 1
  BY <1>2, PoolAssumption DEF Advance, Slots
<1> QED
  BY <1>1, <1>2

LEMMA AdvanceInSlots == ASSUME NEW s \in Slots PROVE Advance(s) \in Slots
BY PoolAssumption, AdvanceValue DEF Slots

LEMMA InitInv == Init => QueueInv
<1> SUFFICES ASSUME Init PROVE QueueInv
  OBVIOUS
<1> USE PoolAssumption DEF Init
<1>1. TypeOK
  BY DEF TypeOK, Slots, Threads, Workers, MainPCs, WorkerPCs, Main, Zeroed
<1>2. MutexInv /\ SleepInv /\ PushInv
  BY DEF MutexInv, SleepInv, PushInv, Threads, Workers, Main, NoThread
<1>3. RingInv
  BY WrapOnce DEF RingInv, Workers, Holding, Threads, Main
<1> QED
  BY <1>1, <1>2, <1>3 DEF QueueInv

\* Where the k-th queued task is.
SlotOf(k) == IF front + k - 1 < QUEUE_SIZE THEN front + k - 1
                                           ELSE front + k - 1 - QUEUE_SIZE

LEMMA SlotOfQueued ==
    ASSUME TypeOK, NEW k \in 1..(size + 1)
    PROVE  /\ (front + k - 1) % QUEUE_SIZE = SlotOf(k)
           /\ SlotOf(k) \in Slots
<1>1. /\ QUEUE_SIZE \in Nat \ {0}
      /\ front \in 0..(QUEUE_SIZE - 1)
      /\ k - 1 \in 0..QUEUE_SIZE
      /\ front + k - 1 = front + (k - 1)
  BY PoolAssumption DEF TypeOK, Slots
<1>2. (front + (k - 1)) % QUEUE_SIZE
        = IF front + (k - 1) < QUEUE_SIZE THEN front + (k - 1)
                                          ELSE front + (k - 1) - QUEUE_SIZE
  BY <1>1, WrapOnce
<1> QED
  BY <1>1, <1>2 DEF SlotOf, Slots

LEMMA RearSlot ==
    ASSUME TypeOK, RingInv
    PROVE  rear = SlotOf(size + 1)
<1>1. size + 1 \in 1..(size + 1) /\ front + (size + 1) - 1 = front + size
  BY PoolAssumption DEF TypeOK, Slots
<1> QED
  BY <1>1, SlotOfQueued DEF RingInv

\* block_queue_push appends to the queue.
LEMMA PushedQueue ==
    ASSUME TypeOK, RingInv, PushPut
    PROVE  /\ size \in 0..(QUEUE_SIZE - 1) /\ size' = size + 1
           /\ rear = SlotOf(size + 1)
           /\ \A k \in 1..size' : QueuedAt(k)' = IF k = size' THEN new_task[Main] ELSE QueuedAt(k)
<1> USE PoolAssumption
<1>1. /\ size \in 0..(QUEUE_SIZE - 1) /\ size' = size + 1
      /\ front \in 0..(QUEUE_SIZE - 1) /\ front' = front
      /\ rear = SlotOf(size + 1)
  BY RearSlot DEF PushPut, Full, TypeOK, Slots
<1>2. ASSUME NEW k \in 1..size PROVE QueuedAt(k)' = QueuedAt(k)
  <2>1. k \in 1..(size + 1) /\ SlotOf(k) # rear
    BY <1>1 DEF SlotOf, Slots
  <2>2. (front + k - 1) % QUEUE_SIZE # rear /\ (front + k - 1) % QUEUE_SIZE \in Slots
    BY <2>1, SlotOfQueued
  <2> QED
    BY <2>2 DEF PushPut, QueuedAt, TypeOK
<1>3. ASSUME NEW k, k = size + 1 PROVE QueuedAt(k)' = new_task[Main]
  <2>1. (front + k - 1) % QUEUE_SIZE = rear /\ rear \in Slots
    BY <1>1, <1>3, SlotOfQueued
  <2> QED
    BY <1>1, <2>1 DEF PushPut, QueuedAt, TypeOK, Main
<1>4. \A k \in 1..size' : k = size + 1 \/ k \in 1..size
  BY <1>1
<1>5. size' \notin 1..size
  BY <1>1
<1> QED
  BY <1>1, <1>2, <1>3, <1>4, <1>5

\* block_queue_pop takes the head and the others move up.
LEMMA PoppedQueue ==
    ASSUME TypeOK, NEW w \in Workers, PopTake(w)
    PROVE  /\ size \in 1..QUEUE_SIZE /\ size' = size - 1
           /\ task_queue[front] = QueuedAt(1)
           /\ \A k \in 1..size' : QueuedAt(k)' = QueuedAt(k + 1)
<1> USE PoolAssumption
<1>1. /\ front \in Slots /\ front' = Advance(front) /\ front' \in Slots
      /\ size \in 1..QUEUE_SIZE /\ size' = size - 1
  BY AdvanceInSlots DEF PopTake, Empty, TypeOK
<1>2. task_queue[front] = QueuedAt(1)
  <2>1. (front + 1 - 1) % QUEUE_SIZE = front
    BY <1>1 DEF Slots
  <2> QED
    BY <2>1 DEF QueuedAt
<1>3. ASSUME NEW k \in 1..size' PROVE QueuedAt(k)' = QueuedAt(k + 1)
  <2>1. k \in 0..QUEUE_SIZE /\ k - 1 \in 0..QUEUE_SIZE /\ k + 1 \in 1..(size + 1)
    BY <1>1
  <2>2. (front' + (k - 1)) % QUEUE_SIZE
          = IF front' + (k - 1) < QUEUE_SIZE THEN front' + (k - 1)
                                             ELSE front' + (k - 1) - QUEUE_SIZE
    BY <1>1, <2>1, WrapOnce DEF Slots
  <2>3. (front + (k + 1) - 1) % QUEUE_SIZE = SlotOf(k + 1)
    BY <2>1, SlotOfQueued
  <2>4. (front' + k - 1) % QUEUE_SIZE = (front + (k + 1) - 1) % QUEUE_SIZE
    BY <1>1, <2>1, <2>2, <2>3, AdvanceValue DEF SlotOf, Slots
  <2> QED
    BY <2>4 DEF PopTake, QueuedAt
<1> QED
  BY <1>1, <1>2, <1>3

LEMMA NextInv == QueueInv /\ [Next]_vars => QueueInv'
<1> SUFFICES ASSUME QueueInv, [Next]_vars PROVE QueueInv'
  OBVIOUS
<1> USE PoolAssumption
<1>a. TypeOK /\ MutexInv /\ SleepInv /\ PushInv /\ RingInv
  BY DEF QueueInv
<1> USE <1>a
<1>r. ASSUME UNCHANGED queueVars,
             \A w \in Workers : Holding(w)' => Holding(w) /\ new_task'[w] = new_task[w]
      PROVE  RingInv'
  BY <1>r DEF RingInv, queueVars, QueuedAt
<1>1. CASE ThreadCreate
  <2>1. TypeOK'
    BY <1>1 DEF ThreadCreate, Goto, queueVars, TypeOK, PushInv, Slots, Threads, Workers, MainPCs, WorkerPCs, Main, NoThread, Pill, Zeroed, Tasks
  <2>2. MutexInv'
    BY <1>1 DEF ThreadCreate, Goto, TypeOK, MutexInv, PushInv, Threads, Workers, Main, NoThread
  <2>3. SleepInv'
    BY <1>1 DEF ThreadCreate, Goto, TypeOK, SleepInv, PushInv, Threads, Workers, Main
  <2>4. PushInv'
    BY <1>1 DEF ThreadCreate, Goto, TypeOK, SleepInv, PushInv, Threads, Workers, Main, Pill, Tasks
  <2>5. RingInv'
    BY <1>1, <1>r DEF ThreadCreate, Goto, Holding, TypeOK, Workers, Threads, Main
  <2> QED
    BY <2>1, <2>2, <2>3, <2>4, <2>5 DEF QueueInv
<1>2. CASE ThreadsCreated
  <2>1. TypeOK'
    BY <1>2 DEF ThreadsCreated, Goto, queueVars, TypeOK, PushInv, Slots, Threads, Workers, MainPCs, WorkerPCs, Main, NoThread, Pill, Zeroed, Tasks
  <2>2. MutexInv'
    BY <1>2 DEF ThreadsCreated, Goto, TypeOK, MutexInv, PushInv, Threads, Workers, Main, NoThread
  <2>3. SleepInv'
    BY <1>2 DEF ThreadsCreated, Goto, TypeOK, SleepInv, PushInv, Threads, Workers, Main
  <2>4. PushInv'
    BY <1>2 DEF ThreadsCreated, Goto, TypeOK, SleepInv, PushInv, Threads, Workers, Main, Pill, Tasks
  <2>5. RingInv'
    BY <1>2, <1>r DEF ThreadsCreated, Goto, Holding, TypeOK, Workers, Threads, Main
  <2> QED
    BY <2>1, <2>2, <2>3, <2>4, <2>5 DEF QueueInv
<1>3. CASE PushPill
  <2>1. TypeOK'
    BY <1>3 DEF PushPill, PillBound, Goto, queueVars, TypeOK, PushInv, Slots, Threads, Workers, MainPCs, WorkerPCs, Main, NoThread, Pill, Zeroed, Tasks
  <2>2. MutexInv'
    BY <1>3 DEF PushPill, PillBound, Goto, TypeOK, MutexInv, PushInv, Threads, Workers, Main, NoThread
  <2>3. SleepInv'
    BY <1>3 DEF PushPill, PillBound, Goto, TypeOK, SleepInv, PushInv, Threads, Workers, Main
  <2>4. PushInv'
    BY <1>3 DEF PushPill, PillBound, Goto, TypeOK, SleepInv, PushInv, Threads, Workers, Main, Pill, Tasks
  <2>5. RingInv'
    BY <1>3, <1>r DEF PushPill, PillBound, Goto, Holding, TypeOK, Workers, Threads, Main
  <2> QED
    BY <2>1, <2>2, <2>3, <2>4, <2>5 DEF QueueInv
<1>4. CASE PillsPushed
  <2>1. TypeOK'
    BY <1>4 DEF PillsPushed, PillBound, Goto, queueVars, TypeOK, PushInv, Slots, Threads, Workers, MainPCs, WorkerPCs, Main, NoThread, Pill, Zeroed, Tasks
  <2>2. MutexInv'
    BY <1>4 DEF PillsPushed, PillBound, Goto, TypeOK, MutexInv, PushInv, Threads, Workers, Main, NoThread
  <2>3. SleepInv'
    BY <1>4 DEF PillsPushed, PillBound, Goto, TypeOK, SleepInv, PushInv, Threads, Workers, Main
  <2>4. PushInv'
    BY <1>4 DEF PillsPushed, PillBound, Goto, TypeOK, SleepInv, PushInv, Threads, Workers, Main, Pill, Tasks
  <2>5. RingInv'
    BY <1>4, <1>r DEF PillsPushed, PillBound, Goto, Holding, TypeOK, Workers, Threads, Main
  <2> QED
    BY <2>1, <2>2, <2>3, <2>4, <2>5 DEF QueueInv
<1>5. CASE Join
  <2>1. TypeOK'
    BY <1>5 DEF Join, Goto, queueVars, TypeOK, PushInv, Slots, Threads, Workers, MainPCs, WorkerPCs, Main, NoThread, Pill, Zeroed, Tasks
  <2>2. MutexInv'
    BY <1>5 DEF Join, Goto, TypeOK, MutexInv, PushInv, Threads, Workers, Main, NoThread
  <2>3. SleepInv'
    BY <1>5 DEF Join, Goto, TypeOK, SleepInv, PushInv, Threads, Workers, Main
  <2>4. PushInv'
    BY <1>5 DEF Join, Goto, TypeOK, SleepInv, PushInv, Threads, Workers, Main, Pill, Tasks
  <2>5. RingInv'
    BY <1>5, <1>r DEF Join, Goto, Holding, TypeOK, Workers, Threads, Main
  <2> QED
    BY <2>1, <2>2, <2>3, <2>4, <2>5 DEF QueueInv
<1>6. CASE Joined
  <2>1. TypeOK'
    BY <1>6 DEF Joined, Goto, queueVars, TypeOK, PushInv, Slots, Threads, Workers, MainPCs, WorkerPCs, Main, NoThread, Pill, Zeroed, Tasks
  <2>2. MutexInv'
    BY <1>6 DEF Joined, Goto, TypeOK, MutexInv, PushInv, Threads, Workers, Main, NoThread
  <2>3. SleepInv'
    BY <1>6 DEF Joined, Goto, TypeOK, SleepInv, PushInv, Threads, Workers, Main
  <2>4. PushInv'
    BY <1>6 DEF Joined, Goto, TypeOK, SleepInv, PushInv, Threads, Workers, Main, Pill, Tasks
  <2>5. RingInv'
    BY <1>6, <1>r DEF Joined, Goto, Holding, TypeOK, Workers, Threads, Main
  <2> QED
    BY <2>1, <2>2, <2>3, <2>4, <2>5 DEF QueueInv
<1>7. CASE Lock(Main)
  <2>1. TypeOK'
    BY <1>7 DEF Lock, Goto, queueVars, TypeOK, PushInv, Slots, Threads, Workers, MainPCs, WorkerPCs, Main, NoThread, Pill, Zeroed, Tasks
  <2>2. MutexInv'
    BY <1>7 DEF Lock, Goto, TypeOK, MutexInv, PushInv, Threads, Workers, Main, NoThread
  <2>3. SleepInv'
    BY <1>7 DEF Lock, Goto, TypeOK, SleepInv, PushInv, Threads, Workers, Main
  <2>4. PushInv'
    BY <1>7 DEF Lock, Goto, TypeOK, SleepInv, PushInv, Threads, Workers, Main, Pill, Tasks
  <2>5. RingInv'
    BY <1>7, <1>r DEF Lock, Goto, Holding, TypeOK, Workers, Threads, Main
  <2> QED
    BY <2>1, <2>2, <2>3, <2>4, <2>5 DEF QueueInv
<1>8. CASE PushWait
  <2>1. TypeOK'
    BY <1>8 DEF PushWait, Full, Goto, queueVars, TypeOK, PushInv, Slots, Threads, Workers, MainPCs, WorkerPCs, Main, NoThread, Pill, Zeroed, Tasks
  <2>2. MutexInv'
    BY <1>8 DEF PushWait, Full, Goto, TypeOK, MutexInv, PushInv, Threads, Workers, Main, NoThread
  <2>3. SleepInv'
    BY <1>8 DEF PushWait, Full, Goto, TypeOK, SleepInv, PushInv, Threads, Workers, Main
  <2>4. PushInv'
    BY <1>8 DEF PushWait, Full, Goto, TypeOK, SleepInv, PushInv, Threads, Workers, Main, Pill, Tasks
  <2>5. RingInv'
    BY <1>8, <1>r DEF PushWait, Full, Goto, Holding, TypeOK, Workers, Threads, Main
  <2> QED
    BY <2>1, <2>2, <2>3, <2>4, <2>5 DEF QueueInv
<1>9. CASE PushPut
  <2>0. rear' \in Slots /\ new_task[Main] \in Tasks \cup {Pill}
    BY <1>9, AdvanceInSlots DEF PushPut, TypeOK, PushInv, Tasks, Pill
  <2>1. TypeOK'
    BY <1>9, <2>0 DEF PushPut, Full, Goto, queueVars, TypeOK, PushInv, Slots, Threads, Workers, MainPCs, WorkerPCs, Main, NoThread, Pill, Zeroed, Tasks
  <2>2. MutexInv'
    BY <1>9 DEF PushPut, Goto, TypeOK, MutexInv, PushInv, Threads, Workers, Main, NoThread
  <2>3. SleepInv'
    BY <1>9 DEF PushPut, Goto, TypeOK, SleepInv, PushInv, Threads, Workers, Main
  <2>4. PushInv'
    BY <1>9 DEF PushPut, Goto, TypeOK, SleepInv, PushInv, Threads, Workers, Main, Pill, Tasks
  <2>5. RingInv'
    <3>1. /\ size \in 0..(QUEUE_SIZE - 1) /\ size + 1 \in 0..QUEUE_SIZE
          /\ front \in 0..(QUEUE_SIZE - 1) /\ size' = size + 1
          /\ rear = SlotOf(size + 1)
          /\ \A k \in 1..size' : QueuedAt(k)' = IF k = size' THEN new_task[Main] ELSE QueuedAt(k)
      BY <1>9, PushedQueue DEF TypeOK, Slots
    <3>2. (front + (size + 1)) % QUEUE_SIZE
            = IF front + (size + 1) < QUEUE_SIZE THEN front + (size + 1)
                                                 ELSE front + (size + 1) - QUEUE_SIZE
      BY <3>1, WrapOnce
    <3>3. rear' = (front' + size') % QUEUE_SIZE
      <4>1. rear \in Slots /\ rear' = Advance(rear) /\ front' = front /\ size' = size + 1
        BY <1>9 DEF PushPut, TypeOK
      <4>2. rear' = IF rear = QUEUE_SIZE - 1 THEN 0 ELSE rear + 1
        BY <4>1, AdvanceValue
      <4> QED
        BY <3>1, <3>2, <4>1, <4>2 DEF SlotOf, Slots
    <3>6. \A k \in 1..size' : QueuedAt(k)' # Zeroed
      <4> SUFFICES ASSUME NEW k \in 1..size' PROVE QueuedAt(k)' # Zeroed
        OBVIOUS
      <4>1. k \in 1..size \/ k = size'
        BY <3>1
      <4> QED
        BY <2>0, <3>1, <4>1 DEF RingInv, Pill, Zeroed, Tasks
    <3>7. \A w \in Workers : Holding(w)' => new_task'[w] # Zeroed
      BY <1>9 DEF PushPut, Goto, Holding, RingInv, TypeOK, Workers, Threads, Main
    <3> QED
      BY <3>3, <3>6, <3>7 DEF RingInv
  <2> QED
    BY <2>1, <2>2, <2>3, <2>4, <2>5 DEF QueueInv
<1>10. CASE PushSignal
  <2>1. TypeOK'
    <3>1. CASE not_empty = {} /\ Goto(Main, "unlock") /\ UNCHANGED not_empty
      BY <1>10, <3>1 DEF PushSignal, Goto, queueVars, TypeOK, PushInv, Slots, Threads, Workers, MainPCs, WorkerPCs, Main, NoThread, Pill, Zeroed, Tasks
    <3>2. ASSUME NEW w \in not_empty,
                 not_empty' = not_empty \ {w},
                 pc' = [pc EXCEPT ![Main] = "unlock", ![w] = "lock"]
          PROVE  TypeOK'
      BY <1>10, <3>2 DEF PushSignal, Goto, queueVars, TypeOK, PushInv, Slots, Threads, Workers, MainPCs, WorkerPCs, Main, NoThread, Pill, Zeroed, Tasks
    <3> QED
      BY <1>10, <3>1, <3>2 DEF PushSignal
  <2>2. MutexInv'
    BY <1>10 DEF PushSignal, Goto, TypeOK, MutexInv, PushInv, Threads, Workers, Main, NoThread
  <2>3. SleepInv'
    BY <1>10 DEF PushSignal, Goto, TypeOK, SleepInv, PushInv, Threads, Workers, Main
  <2>4. PushInv'
    BY <1>10 DEF PushSignal, Goto, TypeOK, SleepInv, PushInv, Threads, Workers, Main, Pill, Tasks
  <2>5. RingInv'
    BY <1>10, <1>r DEF PushSignal, Goto, Holding, TypeOK, Workers, Threads, Main
  <2> QED
    BY <2>1, <2>2, <2>3, <2>4, <2>5 DEF QueueInv
<1>11. CASE Unlock(Main)
  <2>1. TypeOK'
    BY <1>11 DEF Unlock, Goto, queueVars, TypeOK, PushInv, Slots, Threads, Workers, MainPCs, WorkerPCs, Main, NoThread, Pill, Zeroed, Tasks
  <2>2. MutexInv'
    BY <1>11 DEF Unlock, Goto, TypeOK, MutexInv, PushInv, Threads, Workers, Main, NoThread
  <2>3. SleepInv'
    BY <1>11 DEF Unlock, Goto, TypeOK, SleepInv, PushInv, Threads, Workers, Main
  <2>4. PushInv'
    BY <1>11 DEF Unlock, Goto, TypeOK, SleepInv, PushInv, Threads, Workers, Main, Pill, Tasks
  <2>5. RingInv'
    BY <1>11, <1>r DEF Unlock, Goto, Holding, TypeOK, Workers, Threads, Main
  <2> QED
    BY <2>1, <2>2, <2>3, <2>4, <2>5 DEF QueueInv
<1>12. CASE Distribute
  <2>1. TypeOK'
    BY <1>12 DEF Distribute, Goto, queueVars, TypeOK, PushInv, Slots, Threads, Workers, MainPCs, WorkerPCs, Main, NoThread, Pill, Zeroed, Tasks
  <2>2. MutexInv'
    BY <1>12 DEF Distribute, Goto, TypeOK, MutexInv, PushInv, Threads, Workers, Main, NoThread
  <2>3. SleepInv'
    BY <1>12 DEF Distribute, Goto, TypeOK, SleepInv, PushInv, Threads, Workers, Main
  <2>4. PushInv'
    BY <1>12 DEF Distribute, Goto, TypeOK, SleepInv, PushInv, Threads, Workers, Main, Pill, Tasks
  <2>5. RingInv'
    BY <1>12, <1>r DEF Distribute, Goto, Holding, TypeOK, Workers, Threads, Main
  <2> QED
    BY <2>1, <2>2, <2>3, <2>4, <2>5 DEF QueueInv
<1>13. CASE ExitRequested
  <2>1. TypeOK'
    BY <1>13 DEF ExitRequested, Goto, queueVars, TypeOK, PushInv, Slots, Threads, Workers, MainPCs, WorkerPCs, Main, NoThread, Pill, Zeroed, Tasks
  <2>2. MutexInv'
    BY <1>13 DEF ExitRequested, Goto, TypeOK, MutexInv, PushInv, Threads, Workers, Main, NoThread
  <2>3. SleepInv'
    BY <1>13 DEF ExitRequested, Goto, TypeOK, SleepInv, PushInv, Threads, Workers, Main
  <2>4. PushInv'
    BY <1>13 DEF ExitRequested, Goto, TypeOK, SleepInv, PushInv, Threads, Workers, Main, Pill, Tasks
  <2>5. RingInv'
    BY <1>13, <1>r DEF ExitRequested, Goto, Holding, TypeOK, Workers, Threads, Main
  <2> QED
    BY <2>1, <2>2, <2>3, <2>4, <2>5 DEF QueueInv
<1>14. ASSUME NEW w \in Workers, Lock(w) PROVE QueueInv'
  <2>1. TypeOK'
    BY <1>14 DEF Lock, Goto, queueVars, TypeOK, PushInv, Slots, Threads, Workers, MainPCs, WorkerPCs, Main, NoThread, Pill, Zeroed, Tasks
  <2>2. MutexInv'
    BY <1>14 DEF Lock, Goto, TypeOK, MutexInv, PushInv, Threads, Workers, Main, NoThread
  <2>3. SleepInv'
    BY <1>14 DEF Lock, Goto, TypeOK, SleepInv, PushInv, Threads, Workers, Main
  <2>4. PushInv'
    BY <1>14 DEF Lock, Goto, TypeOK, SleepInv, PushInv, Threads, Workers, Main, Pill, Tasks
  <2>5. RingInv'
    BY <1>14, <1>r DEF Lock, Goto, Holding, TypeOK, Workers, Threads, Main
  <2> QED
    BY <2>1, <2>2, <2>3, <2>4, <2>5 DEF QueueInv
<1>15. ASSUME NEW w \in Workers, PopWait(w) PROVE QueueInv'
  <2>1. TypeOK'
    BY <1>15 DEF PopWait, Empty, Goto, queueVars, TypeOK, PushInv, Slots, Threads, Workers, MainPCs, WorkerPCs, Main, NoThread, Pill, Zeroed, Tasks
  <2>2. MutexInv'
    BY <1>15 DEF PopWait, Empty, Goto, TypeOK, MutexInv, PushInv, Threads, Workers, Main, NoThread
  <2>3. SleepInv'
    BY <1>15 DEF PopWait, Empty, Goto, TypeOK, SleepInv, PushInv, Threads, Workers, Main
  <2>4. PushInv'
    BY <1>15 DEF PopWait, Empty, Goto, TypeOK, SleepInv, PushInv, Threads, Workers, Main, Pill, Tasks
  <2>5. RingInv'
    BY <1>15, <1>r DEF PopWait, Empty, Goto, Holding, TypeOK, Workers, Threads, Main
  <2> QED
    BY <2>1, <2>2, <2>3, <2>4, <2>5 DEF QueueInv
<1>16. ASSUME NEW w \in Workers, PopTake(w) PROVE QueueInv'
  <2>0. /\ front' \in Slots
        /\ size \in 1..QUEUE_SIZE
        /\ task_queue[front] = QueuedAt(1)
    BY <1>16, PoppedQueue, AdvanceInSlots DEF PopTake, TypeOK
  <2>1. TypeOK'
    BY <1>16, <2>0 DEF PopTake, Goto, queueVars, TypeOK, PushInv, Slots, Threads, Workers, MainPCs, WorkerPCs, Main, NoThread, Pill, Zeroed, Tasks
  <2>2. MutexInv'
    BY <1>16 DEF PopTake, Empty, Goto, TypeOK, MutexInv, PushInv, Threads, Workers, Main, NoThread
  <2>3. SleepInv'
    BY <1>16 DEF PopTake, Empty, Goto, TypeOK, SleepInv, PushInv, Threads, Workers, Main
  <2>4. PushInv'
    BY <1>16 DEF PopTake, Empty, Goto, TypeOK, SleepInv, PushInv, Threads, Workers, Main, Pill, Tasks
  <2>5. RingInv'
    <3>1. rear = SlotOf(size + 1) /\ front \in Slots /\ rear' = rear
      BY <1>16, RearSlot DEF PopTake, TypeOK
    <3>2. front' \in 0..(QUEUE_SIZE - 1) /\ size' \in 0..QUEUE_SIZE
      BY <1>16, <2>0 DEF PopTake, Slots
    <3>3. (front' + size') % QUEUE_SIZE
            = IF front' + size' < QUEUE_SIZE THEN front' + size'
                                             ELSE front' + size' - QUEUE_SIZE
      BY <3>2, WrapOnce
    <3>4. rear' = (front' + size') % QUEUE_SIZE
      BY <1>16, <2>0, <3>1, <3>3, AdvanceValue DEF PopTake, SlotOf, Slots
    <3>5. \A k \in 1..size' : QueuedAt(k)' = QueuedAt(k + 1)
      BY <1>16, PoppedQueue
    <3>6. \A k \in 1..size' : QueuedAt(k)' # Zeroed
      <4> SUFFICES ASSUME NEW k \in 1..size' PROVE QueuedAt(k)' # Zeroed
        OBVIOUS
      <4>1. k + 1 \in 1..size
        BY <1>16, <2>0 DEF PopTake
      <4> QED
        BY <3>5, <4>1 DEF RingInv
    <3>7. \A v \in Workers : Holding(v)' => new_task'[v] # Zeroed
      BY <1>16, <2>0 DEF PopTake, Goto, Holding, RingInv, TypeOK, Workers, Threads
    <3> QED
      BY <3>4, <3>6, <3>7 DEF RingInv
  <2> QED
    BY <2>1, <2>2, <2>3, <2>4, <2>5 DEF QueueInv
<1>17. ASSUME NEW w \in Workers, PopSignal(w) PROVE QueueInv'
  <2>1. TypeOK'
    BY <1>17 DEF PopSignal, Goto, queueVars, TypeOK, PushInv, Slots, Threads, Workers, MainPCs, WorkerPCs, Main, NoThread, Pill, Zeroed, Tasks
  <2>2. MutexInv'
    BY <1>17 DEF PopSignal, Goto, TypeOK, MutexInv, PushInv, Threads, Workers, Main, NoThread
  <2>3. SleepInv'
    BY <1>17 DEF PopSignal, Goto, TypeOK, SleepInv, PushInv, Threads, Workers, Main
  <2>4. PushInv'
    BY <1>17 DEF PopSignal, Goto, TypeOK, SleepInv, PushInv, Threads, Workers, Main, Pill, Tasks
  <2>5. RingInv'
    BY <1>17, <1>r DEF PopSignal, Goto, Holding, TypeOK, Workers, Threads, Main
  <2> QED
    BY <2>1, <2>2, <2>3, <2>4, <2>5 DEF QueueInv
<1>18. ASSUME NEW w \in Workers, Unlock(w) PROVE QueueInv'
  <2>1. TypeOK'
    BY <1>18 DEF Unlock, Goto, queueVars, TypeOK, PushInv, Slots, Threads, Workers, MainPCs, WorkerPCs, Main, NoThread, Pill, Zeroed, Tasks
  <2>2. MutexInv'
    BY <1>18 DEF Unlock, Goto, TypeOK, MutexInv, PushInv, Threads, Workers, Main, NoThread
  <2>3. SleepInv'
    BY <1>18 DEF Unlock, Goto, TypeOK, SleepInv, PushInv, Threads, Workers, Main
  <2>4. PushInv'
    BY <1>18 DEF Unlock, Goto, TypeOK, SleepInv, PushInv, Threads, Workers, Main, Pill, Tasks
  <2>5. RingInv'
    BY <1>18, <1>r DEF Unlock, Goto, Holding, TypeOK, Workers, Threads, Main
  <2> QED
    BY <2>1, <2>2, <2>3, <2>4, <2>5 DEF QueueInv
<1>19. ASSUME NEW w \in Workers, Execute(w) PROVE QueueInv'
  <2>0. new_task[w] \in Tasks
    <3>1. w \in Threads /\ new_task[w] # Zeroed /\ new_task[w] # Pill
      BY <1>19 DEF Execute, RingInv, Holding, Threads, Workers
    <3> QED
      BY <3>1 DEF TypeOK
  <2>1. TypeOK'
    BY <1>19, <2>0 DEF Execute, Goto, queueVars, TypeOK, Threads, Workers, WorkerPCs, Main
  <2>2. MutexInv'
    BY <1>19 DEF Execute, Goto, TypeOK, MutexInv, PushInv, Threads, Workers, Main, NoThread
  <2>3. SleepInv'
    BY <1>19 DEF Execute, Goto, TypeOK, SleepInv, PushInv, Threads, Workers, Main
  <2>4. PushInv'
    BY <1>19 DEF Execute, Goto, TypeOK, SleepInv, PushInv, Threads, Workers, Main, Pill, Tasks
  <2>5. RingInv'
    BY <1>19, <1>r DEF Execute, Goto, Holding, TypeOK, Workers, Threads, Main
  <2> QED
    BY <2>1, <2>2, <2>3, <2>4, <2>5 DEF QueueInv
<1>20. ASSUME NEW w \in Workers, PthreadExit(w) PROVE QueueInv'
  <2>1. TypeOK'
    BY <1>20 DEF PthreadExit, Goto, queueVars, TypeOK, PushInv, Slots, Threads, Workers, MainPCs, WorkerPCs, Main, NoThread, Pill, Zeroed, Tasks
  <2>2. MutexInv'
    BY <1>20 DEF PthreadExit, Goto, TypeOK, MutexInv, PushInv, Threads, Workers, Main, NoThread
  <2>3. SleepInv'
    BY <1>20 DEF PthreadExit, Goto, TypeOK, SleepInv, PushInv, Threads, Workers, Main
  <2>4. PushInv'
    BY <1>20 DEF PthreadExit, Goto, TypeOK, SleepInv, PushInv, Threads, Workers, Main, Pill, Tasks
  <2>5. RingInv'
    BY <1>20, <1>r DEF PthreadExit, Goto, Holding, TypeOK, Workers, Threads, Main
  <2> QED
    BY <2>1, <2>2, <2>3, <2>4, <2>5 DEF QueueInv
<1>21. ASSUME NEW t \in Threads, SpuriousWakeup(t) PROVE QueueInv'
  <2>1. TypeOK'
    BY <1>21 DEF SpuriousWakeup, Goto, queueVars, TypeOK, PushInv, Slots, Threads, Workers, MainPCs, WorkerPCs, Main, NoThread, Pill, Zeroed, Tasks
  <2>2. MutexInv'
    BY <1>21 DEF SpuriousWakeup, Goto, TypeOK, MutexInv, PushInv, Threads, Workers, Main, NoThread
  <2>3. SleepInv'
    BY <1>21 DEF SpuriousWakeup, Goto, TypeOK, SleepInv, PushInv, Threads, Workers, Main
  <2>4. PushInv'
    BY <1>21 DEF SpuriousWakeup, Goto, TypeOK, SleepInv, PushInv, Threads, Workers, Main, Pill, Tasks
  <2>5. RingInv'
    BY <1>21, <1>r DEF SpuriousWakeup, Goto, Holding, TypeOK, Workers, Threads, Main
  <2> QED
    BY <2>1, <2>2, <2>3, <2>4, <2>5 DEF QueueInv
<1>22. CASE UNCHANGED vars
  BY <1>22 DEF vars, QueueInv, TypeOK, MutexInv, SleepInv, PushInv, RingInv, QueuedAt, Holding
<1> QED
  BY <1>1, <1>2, <1>3, <1>4, <1>5, <1>6, <1>7, <1>8, <1>9, <1>10, <1>11, <1>12, <1>13, <1>14, <1>15, <1>16, <1>17, <1>18, <1>19, <1>20, <1>21, <1>22 DEF Next, MainStep, WorkerStep, Terminated

\* Ring indices, mutex, wait sets and local variables agree in every reachable
\* state of block_queue.c and thread_pool.c.
THEOREM QueueCorrect == Spec => []QueueInv
<1>1. Init => QueueInv
  BY InitInv
<1>2. QueueInv /\ [Next]_vars => QueueInv'
  BY NextInv
<1> QED
  BY <1>1, <1>2, PTL DEF Spec

\* Type correctness of the queue and the pool: in particular size never leaves
\* 0..QUEUE_SIZE and no worker executes a slot that was never filled.
THEOREM TypeCorrect == Spec => []TypeOK
<1>1. QueueInv => TypeOK
  BY DEF QueueInv
<1> QED
  BY <1>1, QueueCorrect, PTL

-----------------------------------------------------------------------------
(* Wakeups *)

WakeInv == QueueInv /\ WorkConserving /\ ProducerWoken

\* Counting workers: a set of workers is finite, a larger one counts more, and
\* one worker more or less changes the count by one.
LEMMA WorkerCount ==
    ASSUME NEW S \in SUBSET Workers
    PROVE  /\ Cardinality(S) \in Nat
           /\ \A T \in SUBSET Workers : S \subseteq T => Cardinality(S) <= Cardinality(T)
           /\ \A w \in Workers \ S : Cardinality(S \cup {w}) = Cardinality(S) + 1
           /\ \A w \in S : Cardinality(S \ {w}) = Cardinality(S) - 1
<1>1. IsFiniteSet(Workers)
  BY FS_Interval, PoolAssumption DEF Workers
<1>2. \A T \in SUBSET Workers : IsFiniteSet(T)
  BY <1>1, FS_Subset
<1> QED
  BY <1>2, FS_Subset, FS_CardinalityType, FS_AddElement, FS_RemoveElement

LEMMA NextWake == WakeInv /\ [Next]_vars => WakeInv'
<1> SUFFICES ASSUME WakeInv, [Next]_vars PROVE WakeInv'
  OBVIOUS
<1> USE PoolAssumption
<1>a. TypeOK /\ MutexInv /\ SleepInv /\ PushInv /\ WorkConserving /\ ProducerWoken
  BY DEF WakeInv, QueueInv
<1>b. QueueInv'
  BY NextInv DEF WakeInv
<1>c. /\ Seekers \in SUBSET Workers
      /\ Seekers' \in SUBSET Workers
      /\ Cardinality(Seekers) \in Nat
      /\ Cardinality(Seekers') \in Nat
      /\ Seekers \subseteq Seekers' => Cardinality(Seekers) <= Cardinality(Seekers')
      /\ size \in Nat
  <2>1. Seekers \in SUBSET Workers /\ Seekers' \in SUBSET Workers
    BY DEF Seekers
  <2> QED
    BY <1>a, <2>1, WorkerCount DEF TypeOK
\* A step that neither queues a task nor sends a worker to sleep.
<1>d. ASSUME size' = size,
             not_empty' \subseteq not_empty,
             Seekers \subseteq Seekers',
             pc[Main] = "signal" => pc'[Main] = "signal"
      PROVE  WorkConserving'
  <2>1. CASE not_empty' = {}
    BY <2>1 DEF WorkConserving
  <2>2. CASE not_empty' # {}
    <3>1. not_empty # {} /\ Cardinality(Seekers) <= Cardinality(Seekers')
      BY <1>c, <1>d, <2>2
    <3>2. size <= Cardinality(Seekers) + (IF pc[Main] = "signal" THEN 1 ELSE 0)
      BY <1>a, <3>1 DEF WorkConserving
    <3> QED
      BY <1>c, <1>d, <3>1, <3>2 DEF WorkConserving
  <2> QED
    BY <2>1, <2>2
\* A step that neither makes room nor sends the event loop to sleep.
<1>e. ASSUME size' = size,
             not_full' \subseteq not_full,
             \A w \in Workers : pc[w] = "signal" => pc'[w] = "signal"
      PROVE  ProducerWoken'
  BY <1>a, <1>e DEF ProducerWoken, Full
<1>1. CASE ThreadCreate
  <2>1. WorkConserving'
    BY <1>a, <1>d, <1>1 DEF ThreadCreate, Goto, queueVars, TypeOK, PushInv, SleepInv, Seekers, Threads, Workers, Main
  <2>2. ProducerWoken'
    BY <1>a, <1>e, <1>1 DEF ThreadCreate, Goto, queueVars, TypeOK, PushInv, SleepInv, Seekers, Threads, Workers, Main
  <2> QED
    BY <1>b, <2>1, <2>2 DEF WakeInv
<1>2. CASE ThreadsCreated
  <2>1. WorkConserving'
    BY <1>a, <1>d, <1>2 DEF ThreadsCreated, Goto, queueVars, TypeOK, PushInv, SleepInv, Seekers, Threads, Workers, Main
  <2>2. ProducerWoken'
    BY <1>a, <1>e, <1>2 DEF ThreadsCreated, Goto, queueVars, TypeOK, PushInv, SleepInv, Seekers, Threads, Workers, Main
  <2> QED
    BY <1>b, <2>1, <2>2 DEF WakeInv
<1>3. CASE PushPill
  <2>1. WorkConserving'
    BY <1>a, <1>d, <1>3 DEF PushPill, Goto, queueVars, TypeOK, PushInv, SleepInv, Seekers, Threads, Workers, Main
  <2>2. ProducerWoken'
    BY <1>a, <1>e, <1>3 DEF PushPill, Goto, queueVars, TypeOK, PushInv, SleepInv, Seekers, Threads, Workers, Main
  <2> QED
    BY <1>b, <2>1, <2>2 DEF WakeInv
<1>4. CASE PillsPushed
  <2>1. WorkConserving'
    BY <1>a, <1>d, <1>4 DEF PillsPushed, Goto, queueVars, TypeOK, PushInv, SleepInv, Seekers, Threads, Workers, Main
  <2>2. ProducerWoken'
    BY <1>a, <1>e, <1>4 DEF PillsPushed, Goto, queueVars, TypeOK, PushInv, SleepInv, Seekers, Threads, Workers, Main
  <2> QED
    BY <1>b, <2>1, <2>2 DEF WakeInv
<1>5. CASE Join
  <2>1. WorkConserving'
    BY <1>a, <1>d, <1>5 DEF Join, Goto, queueVars, TypeOK, PushInv, SleepInv, Seekers, Threads, Workers, Main
  <2>2. ProducerWoken'
    BY <1>a, <1>e, <1>5 DEF Join, Goto, queueVars, TypeOK, PushInv, SleepInv, Seekers, Threads, Workers, Main
  <2> QED
    BY <1>b, <2>1, <2>2 DEF WakeInv
<1>6. CASE Joined
  <2>1. WorkConserving'
    BY <1>a, <1>d, <1>6 DEF Joined, Goto, queueVars, TypeOK, PushInv, SleepInv, Seekers, Threads, Workers, Main
  <2>2. ProducerWoken'
    BY <1>a, <1>e, <1>6 DEF Joined, Goto, queueVars, TypeOK, PushInv, SleepInv, Seekers, Threads, Workers, Main
  <2> QED
    BY <1>b, <2>1, <2>2 DEF WakeInv
<1>7. CASE Lock(Main)
  <2>1. WorkConserving'
    BY <1>a, <1>d, <1>7 DEF Lock, Goto, queueVars, TypeOK, PushInv, SleepInv, Seekers, Threads, Workers, Main
  <2>2. ProducerWoken'
    BY <1>a, <1>e, <1>7 DEF Lock, Goto, queueVars, TypeOK, PushInv, SleepInv, Seekers, Threads, Workers, Main
  <2> QED
    BY <1>b, <2>1, <2>2 DEF WakeInv
<1>8. CASE PushWait
  <2>1. WorkConserving'
    BY <1>a, <1>d, <1>8 DEF PushWait, Goto, queueVars, TypeOK, PushInv, SleepInv, Seekers, Threads, Workers, Main
  <2>2. ProducerWoken'
    BY <1>8 DEF PushWait, queueVars, ProducerWoken, Full
  <2> QED
    BY <1>b, <2>1, <2>2 DEF WakeInv
<1>9. CASE PushPut
  <2>1. WorkConserving'
    <3>1. /\ Seekers' = Seekers
          /\ pc[Main] = "test" /\ pc'[Main] = "signal"
          /\ not_empty' = not_empty
          /\ size' = size + 1
      BY <1>a, <1>9 DEF PushPut, Goto, Seekers, TypeOK, Threads, Workers, Main
    <3> QED
      BY <1>a, <1>c, <3>1 DEF WorkConserving
  <2>2. ProducerWoken'
    BY <1>a, <1>9 DEF PushPut, SleepInv, ProducerWoken
  <2> QED
    BY <1>b, <2>1, <2>2 DEF WakeInv
<1>10. CASE PushSignal
  <2>1. WorkConserving'
    <3>1. CASE not_empty = {} /\ UNCHANGED not_empty
      BY <3>1 DEF WorkConserving
    <3>2. ASSUME NEW w \in not_empty,
                 not_empty' = not_empty \ {w},
                 pc' = [pc EXCEPT ![Main] = "unlock", ![w] = "lock"]
          PROVE  WorkConserving'
      <4>1. /\ w \in Workers \ Seekers
            /\ Seekers' = Seekers \cup {w}
            /\ pc'[Main] # "signal"
            /\ size' = size
        BY <1>a, <1>10, <3>2
        DEF PushSignal, queueVars, SleepInv, Seekers, TypeOK, Threads, Workers, Main
      <4>2. Cardinality(Seekers') = Cardinality(Seekers) + 1
        BY <1>c, <4>1, WorkerCount
      <4>3. size <= Cardinality(Seekers) + 1
        BY <1>a, <1>c, <3>2 DEF WorkConserving
      <4> QED
        BY <1>c, <4>1, <4>2, <4>3 DEF WorkConserving
    <3> QED
      BY <1>10, <3>1, <3>2 DEF PushSignal
  <2>2. ProducerWoken'
    BY <1>a, <1>e, <1>10 DEF PushSignal, Goto, queueVars, TypeOK, PushInv, SleepInv, Seekers, Threads, Workers, Main
  <2> QED
    BY <1>b, <2>1, <2>2 DEF WakeInv
<1>11. CASE Unlock(Main)
  <2>1. WorkConserving'
    BY <1>a, <1>d, <1>11 DEF Unlock, Goto, queueVars, TypeOK, PushInv, SleepInv, Seekers, Threads, Workers, Main
  <2>2. ProducerWoken'
    BY <1>a, <1>e, <1>11 DEF Unlock, Goto, queueVars, TypeOK, PushInv, SleepInv, Seekers, Threads, Workers, Main
  <2> QED
    BY <1>b, <2>1, <2>2 DEF WakeInv
<1>12. CASE Distribute
  <2>1. WorkConserving'
    BY <1>a, <1>d, <1>12 DEF Distribute, Goto, queueVars, TypeOK, PushInv, SleepInv, Seekers, Threads, Workers, Main
  <2>2. ProducerWoken'
    BY <1>a, <1>e, <1>12 DEF Distribute, Goto, queueVars, TypeOK, PushInv, SleepInv, Seekers, Threads, Workers, Main
  <2> QED
    BY <1>b, <2>1, <2>2 DEF WakeInv
<1>13. CASE ExitRequested
  <2>1. WorkConserving'
    BY <1>a, <1>d, <1>13 DEF ExitRequested, Goto, queueVars, TypeOK, PushInv, SleepInv, Seekers, Threads, Workers, Main
  <2>2. ProducerWoken'
    BY <1>a, <1>e, <1>13 DEF ExitRequested, Goto, queueVars, TypeOK, PushInv, SleepInv, Seekers, Threads, Workers, Main
  <2> QED
    BY <1>b, <2>1, <2>2 DEF WakeInv
<1>14. ASSUME NEW w \in Workers, Lock(w) PROVE WakeInv'
  <2>1. WorkConserving'
    BY <1>a, <1>d, <1>14 DEF Lock, Goto, queueVars, TypeOK, PushInv, SleepInv, Seekers, Threads, Workers, Main
  <2>2. ProducerWoken'
    BY <1>a, <1>e, <1>14 DEF Lock, Goto, queueVars, TypeOK, PushInv, SleepInv, Seekers, Threads, Workers, Main
  <2> QED
    BY <1>b, <2>1, <2>2 DEF WakeInv
<1>15. ASSUME NEW w \in Workers, PopWait(w) PROVE WakeInv'
  <2>1. WorkConserving'
    BY <1>c, <1>15 DEF PopWait, Empty, queueVars, WorkConserving
  <2>2. ProducerWoken'
    BY <1>a, <1>e, <1>15 DEF PopWait, Goto, queueVars, TypeOK, PushInv, SleepInv, Seekers, Threads, Workers, Main
  <2> QED
    BY <1>b, <2>1, <2>2 DEF WakeInv
<1>16. ASSUME NEW w \in Workers, PopTake(w) PROVE WakeInv'
  <2>1. WorkConserving'
    <3>1. /\ w \in Seekers
          /\ Seekers' = Seekers \ {w}
          /\ pc'[Main] = pc[Main]
          /\ not_empty' = not_empty
          /\ size' = size - 1
      BY <1>a, <1>16 DEF PopTake, Goto, Seekers, TypeOK, Threads, Workers, Main
    <3>2. Cardinality(Seekers') = Cardinality(Seekers) - 1
      BY <1>c, <3>1, WorkerCount
    <3> QED
      BY <1>a, <1>c, <3>1, <3>2 DEF WorkConserving
  <2>2. ProducerWoken'
    BY <1>a, <1>16 DEF PopTake, Goto, ProducerWoken, TypeOK, Threads, Workers
  <2> QED
    BY <1>b, <2>1, <2>2 DEF WakeInv
<1>17. ASSUME NEW w \in Workers, PopSignal(w) PROVE WakeInv'
  <2>1. WorkConserving'
    BY <1>a, <1>d, <1>17 DEF PopSignal, Goto, queueVars, TypeOK, PushInv, SleepInv, Seekers, Threads, Workers, Main
  <2>2. ProducerWoken'
    BY <1>17 DEF PopSignal, ProducerWoken
  <2> QED
    BY <1>b, <2>1, <2>2 DEF WakeInv
<1>18. ASSUME NEW w \in Workers, Unlock(w) PROVE WakeInv'
  <2>1. WorkConserving'
    BY <1>a, <1>d, <1>18 DEF Unlock, Goto, queueVars, TypeOK, PushInv, SleepInv, Seekers, Threads, Workers, Main
  <2>2. ProducerWoken'
    BY <1>a, <1>e, <1>18 DEF Unlock, Goto, queueVars, TypeOK, PushInv, SleepInv, Seekers, Threads, Workers, Main
  <2> QED
    BY <1>b, <2>1, <2>2 DEF WakeInv
<1>19. ASSUME NEW w \in Workers, Execute(w) PROVE WakeInv'
  <2>1. WorkConserving'
    BY <1>a, <1>d, <1>19 DEF Execute, Goto, queueVars, TypeOK, PushInv, SleepInv, Seekers, Threads, Workers, Main
  <2>2. ProducerWoken'
    BY <1>a, <1>e, <1>19 DEF Execute, Goto, queueVars, TypeOK, PushInv, SleepInv, Seekers, Threads, Workers, Main
  <2> QED
    BY <1>b, <2>1, <2>2 DEF WakeInv
<1>20. ASSUME NEW w \in Workers, PthreadExit(w) PROVE WakeInv'
  <2>1. WorkConserving'
    BY <1>a, <1>d, <1>20 DEF PthreadExit, Goto, queueVars, TypeOK, PushInv, SleepInv, Seekers, Threads, Workers, Main
  <2>2. ProducerWoken'
    BY <1>a, <1>e, <1>20 DEF PthreadExit, Goto, queueVars, TypeOK, PushInv, SleepInv, Seekers, Threads, Workers, Main
  <2> QED
    BY <1>b, <2>1, <2>2 DEF WakeInv
<1>21. ASSUME NEW t \in Threads, SpuriousWakeup(t) PROVE WakeInv'
  <2>1. WorkConserving'
    BY <1>a, <1>d, <1>21 DEF SpuriousWakeup, Goto, queueVars, TypeOK, PushInv, SleepInv, Seekers, Threads, Workers, Main
  <2>2. ProducerWoken'
    BY <1>a, <1>e, <1>21 DEF SpuriousWakeup, Goto, queueVars, TypeOK, PushInv, SleepInv, Seekers, Threads, Workers, Main
  <2> QED
    BY <1>b, <2>1, <2>2 DEF WakeInv
<1>22. CASE UNCHANGED vars
  BY <1>a, <1>b, <1>22 DEF vars, WakeInv, WorkConserving, ProducerWoken, Seekers, Full
<1> QED
  BY <1>1, <1>2, <1>3, <1>4, <1>5, <1>6, <1>7, <1>8, <1>9, <1>10, <1>11, <1>12, <1>13, <1>14, <1>15, <1>16, <1>17, <1>18, <1>19, <1>20, <1>21, <1>22 DEF Next, MainStep, WorkerStep, Terminated

LEMMA WakeCorrect == Spec => []WakeInv
<1>1. Init => WakeInv
  BY InitInv DEF Init, WakeInv, WorkConserving, ProducerWoken
<1>2. WakeInv /\ [Next]_vars => WakeInv'
  BY NextWake
<1> QED
  BY <1>1, <1>2, PTL DEF Spec

\* One pthread_cond_signal per push is enough whatever the number of workers and
\* slots: no task waits in the ring beside a worker asleep on not_empty.
THEOREM NoLostWakeup == Spec => []WorkConserving
<1>1. WakeInv => WorkConserving
  BY DEF WakeInv
<1> QED
  BY <1>1, WakeCorrect, PTL

\* The event loop never stays asleep on not_full beside a free slot.
THEOREM ProducerAlwaysWoken == Spec => []ProducerWoken
<1>1. WakeInv => ProducerWoken
  BY DEF WakeInv
<1> QED
  BY <1>1, WakeCorrect, PTL

-----------------------------------------------------------------------------
(* Refinement *)

\* The state of TaskPool the ring and the threads stand for.
Fifo == [k \in 1..size |-> QueuedAt(k)]
Job  == [w \in Workers |-> IF pc[w] = "exited" THEN -2
                           ELSE IF Holding(w) THEN new_task[w] ELSE 0]

\* Sequences given by their elements.
LEMMA AppendIs ==
    ASSUME NEW S, NEW s \in Seq(S), NEW e \in S, NEW t, t = [k \in 1..(Len(s) + 1) |-> t[k]],
           \A k \in 1..(Len(s) + 1) : t[k] = IF k = Len(s) + 1 THEN e ELSE s[k]
    PROVE  t = Append(s, e)
<1>1. /\ Append(s, e) \in Seq(S) /\ Len(Append(s, e)) = Len(s) + 1
      /\ \A k \in 1..(Len(s) + 1) : Append(s, e)[k] = IF k = Len(s) + 1 THEN e ELSE s[k]
  OBVIOUS
<1>2. \A k \in 1..Len(s) : s[k] \in S
  OBVIOUS
<1>3. t \in Seq(S) /\ Len(t) = Len(s) + 1
  BY <1>2
<1> QED
  BY <1>1, <1>3, SeqEqual

LEMMA TailIs ==
    ASSUME NEW S, NEW s \in Seq(S), s # << >>, NEW t, t = [k \in 1..(Len(s) - 1) |-> t[k]],
           \A k \in 1..(Len(s) - 1) : t[k] = s[k + 1]
    PROVE  t = Tail(s)
<1>1. /\ Tail(s) \in Seq(S) /\ Len(Tail(s)) = Len(s) - 1 /\ Len(s) - 1 \in Nat
      /\ \A k \in 1..(Len(s) - 1) : Tail(s)[k] = s[k + 1]
  OBVIOUS
<1>2. \A k \in 1..(Len(s) - 1) : s[k + 1] \in S
  OBVIOUS
<1>3. t \in Seq(S) /\ Len(t) = Len(s) - 1
  BY <1>1, <1>2
<1> QED
  BY <1>1, <1>3, SeqEqual

LEMMA FifoSeq ==
    ASSUME TypeOK, RingInv
    PROVE  /\ Fifo \in Seq(Tasks \cup {Pill})
           /\ Len(Fifo) = size
           /\ \A k \in 1..size : Fifo[k] = QueuedAt(k)
<1>1. size \in Nat
  BY PoolAssumption DEF TypeOK
<1>2. ASSUME NEW k \in 1..size PROVE QueuedAt(k) \in Tasks \cup {Pill}
  <2>1. (front + k - 1) % QUEUE_SIZE \in Slots
    BY <1>1, SlotOfQueued
  <2> QED
    BY <2>1, <1>2 DEF QueuedAt, TypeOK, RingInv
<1> QED
  BY <1>1, <1>2 DEF Fifo

LEMMA PoolStutter ==
    ASSUME UNCHANGED <<queueVars, sent, done>>, Job' = Job, Poisoned' = Poisoned
    PROVE  UNCHANGED Pool!poolVars
BY DEF queueVars, Job, QueuedAt, Pool!poolVars

LEMMA PushIsSubmit ==
    ASSUME QueueInv, PushPut PROVE Pool!Submit \/ Pool!SubmitPill
<1>a. TypeOK /\ RingInv /\ PushInv /\ PushPut
  BY DEF QueueInv
<1>1. /\ size \in 0..(QUEUE_SIZE - 1) /\ size' = size + 1
      /\ \A k \in 1..size' : QueuedAt(k)' = IF k = size' THEN new_task[Main] ELSE QueuedAt(k)
  BY <1>a, PushedQueue
<1>2. new_task[Main] \in Tasks \cup {Pill}
  BY <1>a, PoolAssumption DEF PushPut, TypeOK, PushInv, Tasks, Pill
<1>3. Len(Fifo) = size /\ Fifo \in Seq(Tasks \cup {Pill}) /\ \A k \in 1..size : Fifo[k] = QueuedAt(k)
  BY <1>a, FifoSeq
<1>4. Fifo' = Append(Fifo, new_task[Main])
  <2>1. Fifo' = [k \in 1..(size + 1) |-> Fifo'[k]]
    BY <1>1 DEF Fifo
  <2>2. \A k \in 1..(size + 1) : Fifo'[k] = IF k = size + 1 THEN new_task[Main] ELSE Fifo[k]
    BY <1>1, <1>3 DEF Fifo
  <2> QED
    BY <1>2, <1>3, <2>1, <2>2, AppendIs
<1>5. Job' = Job /\ done' = done
  BY <1>a DEF PushPut, Goto, Job, Holding, TypeOK, Workers, Threads, Main
<1>6. pc[Main] = "test" /\ pc'[Main] = "signal" /\ new_task' = new_task /\ i' = i
  BY <1>a, PoolAssumption DEF PushPut, Goto, TypeOK, Main, Threads
<1>7. CASE new_task[Main] = Pill
  <2>1. Poisoned = i /\ Poisoned' = i + 1 /\ i < thread_num /\ sent' = sent
    BY <1>a, <1>6, <1>7 DEF PushPut, PushInv, Poisoned
  <2>2. Pool!SubmitPill
    <3>1. Len(Fifo) < QUEUE_SIZE /\ Fifo' = Append(Fifo, Pool!Pill) /\ Poisoned < thread_num /\ Poisoned' = Poisoned + 1
      BY PoolAssumption, <1>1, <1>3, <1>4, <1>7, <2>1 DEF Pill, Pool!Pill
    <3> QED
      BY <1>5, <2>1, <3>1, Zenon DEF Fifo, Job, Pool!SubmitPill
  <2> QED
    BY <2>2
<1>8. CASE new_task[Main] # Pill
  <2>1. Poisoned = 0 /\ Poisoned' = 0 /\ sent' = sent + 1 /\ new_task[Main] = sent + 1 /\ sent < MaxTasks
    BY <1>a, <1>6, <1>8 DEF PushPut, PushInv, Poisoned
  <2>2. Pool!Submit
    <3>1. Len(Fifo) < QUEUE_SIZE /\ Fifo' = Append(Fifo, sent + 1) /\ Poisoned' = Poisoned
      BY PoolAssumption, <1>1, <1>3, <1>4, <2>1
    <3> QED
      BY <1>5, <2>1, <3>1, Zenon DEF Fifo, Job, Pool!Submit
  <2> QED
    BY <2>2
<1> QED
  BY <1>7, <1>8

LEMMA PopIsTake ==
    ASSUME QueueInv, NEW w \in Workers, PopTake(w) PROVE Pool!Take(w)
<1>a. TypeOK /\ RingInv /\ PushInv
  BY DEF QueueInv
<1>1. /\ size \in 1..QUEUE_SIZE /\ size' = size - 1
      /\ task_queue[front] = QueuedAt(1)
      /\ \A k \in 1..size' : QueuedAt(k)' = QueuedAt(k + 1)
  BY <1>a, PoppedQueue
<1>3. Len(Fifo) = size /\ Fifo \in Seq(Tasks \cup {Pill}) /\ \A k \in 1..size : Fifo[k] = QueuedAt(k)
  BY <1>a, FifoSeq
<1>4. Fifo' = Tail(Fifo) /\ Fifo # << >> /\ Head(Fifo) = task_queue[front]
  <2>1. Fifo' = [k \in 1..(size - 1) |-> Fifo'[k]]
    BY <1>1 DEF Fifo
  <2>2. \A k \in 1..(size - 1) : Fifo'[k] = Fifo[k + 1]
    BY <1>1, <1>3 DEF Fifo
  <2>3. Fifo # << >> /\ Head(Fifo) = task_queue[front]
    BY <1>1, <1>3
  <2>4. Fifo' = Tail(Fifo)
    BY <1>3, <2>1, <2>2, <2>3, TailIs
  <2> QED
    BY <2>3, <2>4
<1>5. /\ pc[w] = "test" /\ pc' = [pc EXCEPT ![w] = "signal"]
      /\ new_task' = [new_task EXCEPT ![w] = task_queue[front]]
      /\ i' = i /\ sent' = sent /\ done' = done
      /\ w \in Threads /\ w # Main /\ Main \in Threads /\ Workers \subseteq Threads
      /\ pc \in [Threads -> MainPCs \cup WorkerPCs] /\ DOMAIN new_task = Threads
  BY <1>a, PoolAssumption DEF PopTake, Goto, TypeOK, Workers, Threads, Main
<1>6. Job[w] = 0 /\ Job' = [Job EXCEPT ![w] = task_queue[front]]
  BY <1>5 DEF Job, Holding
<1>7. Poisoned' = Poisoned
  BY <1>5 DEF Poisoned
<1> QED
  BY <1>4, <1>5, <1>6, <1>7 DEF Fifo, Job, Pool!Take, Pool!Idle

\* One step of the threads is one step of TaskPool or none.
LEMMA PoolNext ==
    ASSUME QueueInv, [Next]_vars PROVE [Pool!Next]_(Pool!poolVars)
<1>a. TypeOK /\ MutexInv /\ SleepInv /\ PushInv /\ RingInv
  BY DEF QueueInv
<1>t. /\ pc \in [Threads -> MainPCs \cup WorkerPCs] /\ pc[Main] \in MainPCs
      /\ DOMAIN new_task = Threads /\ i \in 0..thread_num
      /\ Main \in Threads /\ Workers \subseteq Threads /\ Main \notin Workers
  BY <1>a, PoolAssumption DEF TypeOK, Threads, Workers, Main
<1>s. ASSUME UNCHANGED <<queueVars, sent, done>>, Job' = Job, Poisoned' = Poisoned
      PROVE  [Pool!Next]_(Pool!poolVars)
  BY <1>s, PoolStutter
<1>1. CASE ThreadCreate
  <2>1. i + 1 \in Workers /\ pc[i + 1] = "none" /\ pc[Main] = "create" /\ pc' = [pc EXCEPT ![i + 1] = "lock"]
    BY <1>1, <1>a, <1>t, PoolAssumption DEF ThreadCreate, Goto, PushInv, Workers
  <2>2. Job' = Job
    BY <1>1, <1>t, <2>1 DEF ThreadCreate, Job, Holding
  <2>3. Poisoned' = Poisoned
    BY <1>t, <2>1 DEF ThreadCreate, Poisoned
  <2> QED
    BY <1>1, <1>s, <2>2, <2>3 DEF ThreadCreate
<1>2. CASE ThreadsCreated \/ ExitRequested
  <2>1. Job' = Job
    BY <1>2, <1>t DEF ThreadsCreated, ExitRequested, Goto, Job, Holding
  <2>2. Poisoned' = Poisoned
    BY <1>2, <1>t DEF ThreadsCreated, ExitRequested, Goto, Poisoned
  <2> QED
    BY <1>2, <1>s, <2>1, <2>2 DEF ThreadsCreated, ExitRequested
<1>3. CASE Distribute
  <2>1. Job' = Job
    BY <1>3, <1>t DEF Distribute, Goto, Job, Holding
  <2>2. sent + 1 # Pill
    BY <1>a DEF TypeOK, Pill
  <2>3. Poisoned' = Poisoned
    BY <1>3, <1>t, <2>2 DEF Distribute, Goto, Poisoned
  <2> QED
    BY <1>3, <1>s, <2>1, <2>3 DEF Distribute
<1>4. CASE PushPill \/ PillsPushed
  <2>1. Job' = Job
    BY <1>4, <1>t DEF PushPill, PillsPushed, Goto, Job, Holding
  <2>2. Poisoned' = Poisoned
    BY <1>4, <1>t DEF PushPill, PillsPushed, PillBound, Goto, Poisoned
  <2> QED
    BY <1>4, <1>s, <2>1, <2>2 DEF PushPill, PillsPushed
<1>5. CASE Join \/ Joined
  <2>1. Job' = Job
    BY <1>5, <1>t DEF Join, Joined, Goto, Job, Holding
  <2>2. Poisoned' = Poisoned
    BY <1>5, <1>t DEF Join, Joined, Goto, Poisoned
  <2> QED
    BY <1>5, <1>s, <2>1, <2>2 DEF Join, Joined
<1>6. CASE Lock(Main) \/ PushWait \/ Unlock(Main)
  <2>1. Job' = Job
    BY <1>6, <1>t DEF Lock, PushWait, Unlock, Goto, Job, Holding
  <2>2. Poisoned' = Poisoned
    BY <1>6, <1>t DEF Lock, PushWait, Unlock, Goto, Poisoned
  <2> QED
    BY <1>6, <1>s, <2>1, <2>2 DEF Lock, PushWait, Unlock
<1>7. CASE PushPut
  BY <1>7, PushIsSubmit DEF Pool!Next
<1>8. CASE PushSignal
  <2>1. \A w \in not_empty : w \in Workers /\ pc[w] = "wait"
    BY <1>a DEF SleepInv
  <2>2. Job' = Job
    BY <1>8, <1>t, <2>1 DEF PushSignal, Goto, Job, Holding
  <2>3. pc[Main] = "signal" /\ pc'[Main] = "unlock" /\ new_task' = new_task /\ i' = i
    BY <1>8, <1>t, <2>1 DEF PushSignal, Goto
  <2>4. Poisoned' = Poisoned
    BY <2>3 DEF Poisoned
  <2> QED
    BY <1>8, <1>s, <2>2, <2>4 DEF PushSignal
<1>9. ASSUME NEW w \in Workers, Lock(w) \/ PopWait(w) \/ Unlock(w) PROVE [Pool!Next]_(Pool!poolVars)
  <2>1. Job' = Job
    BY <1>9, <1>t DEF Lock, PopWait, Unlock, Goto, Job, Holding
  <2>2. pc'[Main] = pc[Main] /\ new_task' = new_task /\ i' = i
    BY <1>9, <1>t DEF Lock, PopWait, Unlock, Goto
  <2>3. Poisoned' = Poisoned
    BY <2>2 DEF Poisoned
  <2> QED
    BY <1>9, <1>s, <2>1, <2>3 DEF Lock, PopWait, Unlock
<1>10. ASSUME NEW w \in Workers, PopTake(w) PROVE [Pool!Next]_(Pool!poolVars)
  BY <1>10, PopIsTake DEF Pool!Next, Pool!Workers, Workers
<1>11. ASSUME NEW w \in Workers, PopSignal(w) PROVE [Pool!Next]_(Pool!poolVars)
  <2>1. \A t \in not_full : t = Main /\ pc[t] = "wait"
    BY <1>a DEF SleepInv
  <2>2. Job' = Job
    BY <1>11, <1>t, <2>1 DEF PopSignal, Job, Holding
  <2>3. /\ new_task' = new_task /\ i' = i
        /\ pc'[Main] = pc[Main] \/ (pc[Main] = "wait" /\ pc'[Main] = "lock")
    BY <1>11, <1>t, <2>1 DEF PopSignal
  <2>4. Poisoned' = Poisoned
    <3>1. CASE pc'[Main] = pc[Main]
      BY <2>3, <3>1 DEF Poisoned
    <3>2. CASE pc[Main] = "wait" /\ pc'[Main] = "lock"
      BY <2>3, <3>2 DEF Poisoned
    <3> QED
      BY <2>3, <3>1, <3>2
  <2> QED
    BY <1>11, <1>s, <2>2, <2>4 DEF PopSignal
<1>12. ASSUME NEW w \in Workers, Execute(w) PROVE [Pool!Next]_(Pool!poolVars)
  <2>1. new_task[w] \in Tasks /\ pc[w] = "run"
    BY <1>12, <1>a, <1>t DEF Execute, RingInv, Holding, TypeOK
  <2>2. Job[w] = new_task[w] /\ Job' = [Job EXCEPT ![w] = 0] /\ done' = done \cup {Job[w]}
    BY <1>12, <1>t DEF Execute, Goto, Job, Holding
  <2>3. pc'[Main] = pc[Main] /\ new_task' = new_task /\ i' = i /\ sent' = sent /\ Fifo' = Fifo
    BY <1>12, <1>t DEF Execute, Goto, queueVars, Fifo, QueuedAt
  <2>4. Poisoned' = Poisoned
    BY <2>3 DEF Poisoned
  <2>5. Pool!Finish(w)
    BY <2>1, <2>2, <2>3, <2>4 DEF Fifo, Job, Pool!Finish, Pool!Tasks, Tasks, Pool!Idle
  <2> QED
    BY <2>5 DEF Pool!Next, Pool!Workers, Workers
<1>13. ASSUME NEW w \in Workers, PthreadExit(w) PROVE [Pool!Next]_(Pool!poolVars)
  <2>1. Job[w] = Pill /\ Job' = [Job EXCEPT ![w] = -2] /\ done' = done
    BY <1>13, <1>t DEF PthreadExit, Goto, Job, Holding
  <2>3. pc'[Main] = pc[Main] /\ new_task' = new_task /\ i' = i /\ sent' = sent /\ Fifo' = Fifo
    BY <1>13, <1>t DEF PthreadExit, Goto, queueVars, Fifo, QueuedAt
  <2>4. Poisoned' = Poisoned
    BY <2>3 DEF Poisoned
  <2>5. Pool!Exit(w)
    BY <2>1, <2>3, <2>4 DEF Fifo, Job, Pool!Exit, Pool!Pill, Pill, Pool!Exited
  <2> QED
    BY <2>5 DEF Pool!Next, Pool!Workers, Workers
<1>14. ASSUME NEW t \in Threads, SpuriousWakeup(t) PROVE [Pool!Next]_(Pool!poolVars)
  <2>1. Job' = Job
    BY <1>14, <1>t DEF SpuriousWakeup, Goto, Job, Holding
  <2>3. /\ new_task' = new_task /\ i' = i
        /\ pc'[Main] = pc[Main] \/ (pc[Main] = "wait" /\ pc'[Main] = "lock")
    BY <1>14, <1>t DEF SpuriousWakeup, Goto
  <2>4. Poisoned' = Poisoned
    <3>1. CASE pc'[Main] = pc[Main]
      BY <2>3, <3>1 DEF Poisoned
    <3>2. CASE pc[Main] = "wait" /\ pc'[Main] = "lock"
      BY <2>3, <3>2 DEF Poisoned
    <3> QED
      BY <2>3, <3>1, <3>2
  <2> QED
    BY <1>14, <1>s, <2>1, <2>4 DEF SpuriousWakeup
<1>15. CASE UNCHANGED vars
  <2>1. Job' = Job /\ Poisoned' = Poisoned
    BY <1>15 DEF vars, Job, Holding, Poisoned
  <2> QED
    BY <1>15, <1>s, <2>1 DEF vars, queueVars
<1> QED
  BY <1>1, <1>2, <1>3, <1>4, <1>5, <1>6, <1>7, <1>8, <1>9, <1>10, <1>11, <1>12, <1>13, <1>14, <1>15
     DEF Next, MainStep, WorkerStep, Terminated

\* block_queue.c and thread_pool.c implement the bounded FIFO of TaskPool, whatever the
\* number of threads and slots and wherever the ring wraps.
THEOREM RefinesTaskPool == Spec => ImplementsTaskPool
<1>1. Init => Pool!Init
  <2> SUFFICES ASSUME Init PROVE Pool!Init
    OBVIOUS
  <2>1. Fifo = << >>
    BY DEF Init, Fifo
  <2>2. Job = [w \in Workers |-> 0]
    BY PoolAssumption DEF Init, Job, Holding, Workers, Threads, Main
  <2>3. Poisoned = 0
    BY PoolAssumption DEF Poisoned, Init, Threads, Main
  <2> QED
    BY <2>1, <2>2, <2>3 DEF Init, Fifo, Job, Workers, Pool!Init, Pool!Workers, Pool!Idle
<1>2. QueueInv /\ [Next]_vars => [Pool!Next]_(Pool!poolVars)
  BY PoolNext
<1> QED
  BY <1>1, <1>2, QueueCorrect, PTL DEF Spec, ImplementsTaskPool, Pool!Spec

-----------------------------------------------------------------------------
(* The books of the pool *)

\* What TaskPool keeps, in the state of the ring and the threads.
PoolType == /\ Fifo \in Seq(Tasks \cup {Pill})
            /\ Job \in [Workers -> Tasks \cup {Pill, Pool!Idle, Pool!Exited}]
            /\ sent \in 0..MaxTasks
            /\ Poisoned \in 0..thread_num

Places == 1..Len(Fifo)

\* Only tasks that were submitted are about.
Submitted == /\ \A k \in Places : Fifo[k] = Pill \/ Fifo[k] \in 1..sent
             /\ \A w \in Workers : Job[w] \in Tasks => Job[w] \in 1..sent
             /\ done \subseteq 1..sent

\* Each of them is queued, held or done, and only once.
Once == /\ \A k, l \in Places : Fifo[k] = Fifo[l] /\ Fifo[k] # Pill => k = l
        /\ \A v, w \in Workers : Job[v] = Job[w] /\ Job[v] \in Tasks => v = w
        /\ \A k \in Places, w \in Workers : Fifo[k] # Pill => Job[w] # Fifo[k]
        /\ \A k \in Places : Fifo[k] \notin done
        /\ \A w \in Workers : Job[w] \notin done
        /\ \A n \in 1..sent : \/ n \in done
                              \/ \E k \in Places : Fifo[k] = n
                              \/ \E w \in Workers : Job[w] = n

\* Exit tasks in the queue, and threads that have had one.
PillPlaces == {k \in Places : Fifo[k] = Pill}
Got        == {w \in Workers : Job[w] \in {Pill, Pool!Exited}}

\* No exit task is lost.
PillCount == Cardinality(PillPlaces) + Cardinality(Got) = Poisoned

\* Nothing real is behind an exit task.
PillsLast == /\ \A k, l \in Places : k < l /\ Fifo[k] = Pill => Fifo[l] = Pill
             /\ Got # {} => \A k \in Places : Fifo[k] = Pill

Books == PoolType /\ Submitted /\ Once /\ PillCount /\ PillsLast
-----------------------------------------------------------------------------

\* Counting places and workers.
LEMMA PlacesFinite ==
    ASSUME NEW n \in Nat, NEW S \in SUBSET (1..n)
    PROVE  IsFiniteSet(S) /\ Cardinality(S) \in Nat
<1>1. IsFiniteSet(1..n)
  BY FS_Interval
<1>2. IsFiniteSet(S)
  BY <1>1, FS_Subset
<1> QED
  BY <1>2, FS_CardinalityType

\* The places behind the head move up by one.
LEMMA ShiftCount ==
    ASSUME NEW n \in Nat, NEW S \in SUBSET (1..n),
           NEW T, T = {k \in 1..(n - 1) : k + 1 \in S}
    PROVE  Cardinality(T) = IF 1 \in S THEN Cardinality(S) - 1 ELSE Cardinality(S)
<1> DEFINE R == S \ {1}
           f == [k \in T |-> k + 1]
<1>1. IsFiniteSet(S) /\ IsFiniteSet(R)
      /\ Cardinality(R) = IF 1 \in S THEN Cardinality(S) - 1 ELSE Cardinality(S)
  BY PlacesFinite, FS_RemoveElement
<1>2. T \in SUBSET (1..n) /\ IsFiniteSet(T)
  <2>1. T \in SUBSET (1..n)
    OBVIOUS
  <2> QED
    BY <2>1, PlacesFinite
<1>3. f \in Bijection(T, R)
  <2>1. f \in [T -> R]
    OBVIOUS
  <2>2. \A a, b \in T : f[a] = f[b] => a = b
    OBVIOUS
  <2>3. \A b \in R : \E a \in T : f[a] = b
    <3> SUFFICES ASSUME NEW b \in R PROVE \E a \in T : f[a] = b
      OBVIOUS
    <3>1. b - 1 \in T /\ (b - 1) + 1 = b
      OBVIOUS
    <3> QED
      BY <3>1
  <2> QED
    BY ONLY <2>1, <2>2, <2>3, Fun_IsBij
<1>4. Cardinality(R) = Cardinality(T)
  BY <1>2, <1>3, FS_Bijection DEF ExistsBijection
<1> QED
  BY <1>1, <1>4

LEMMA BooksInit ==
    ASSUME thread_num \in Nat, MaxTasks \in Nat, Pool!Init PROVE Books
<1>0. Fifo = << >> /\ Job = [w \in Workers |-> Pool!Idle] /\ sent = 0 /\ Poisoned = 0 /\ done = {}
  BY DEF Pool!Init, Pool!Workers, Workers, Fifo, Job
<1>1. PoolType /\ Places = {} /\ Got = {} /\ PillPlaces = {}
  BY <1>0 DEF PoolType, Places, Got, PillPlaces, Workers, Tasks, Pill, Pool!Idle, Pool!Exited
<1>2. Submitted /\ Once /\ PillsLast
  BY <1>0, <1>1 DEF Submitted, Once, PillsLast, Tasks, Pool!Idle
<1>3. PillCount
  BY <1>0, <1>1, FS_EmptySet DEF PillCount
<1> QED
  BY <1>1, <1>2, <1>3 DEF Books

LEMMA BooksNext ==
    ASSUME thread_num \in Nat, MaxTasks \in Nat, Books, [Pool!Next]_(Pool!poolVars) PROVE Books'
<1>a. PoolType /\ Submitted /\ Once /\ PillCount /\ PillsLast
  BY DEF Books
<1>b. /\ Len(Fifo) \in Nat /\ Fifo \in Seq(Tasks \cup {Pill})
      /\ PillPlaces \in SUBSET (1..Len(Fifo)) /\ Got \in SUBSET (1..thread_num)
      /\ \A k \in Places : Fifo[k] \in Tasks \cup {Pill}
      /\ Pill \notin Tasks /\ Pool!Idle \notin Tasks /\ Pool!Exited \notin Tasks
      /\ Pill # Pool!Idle /\ Pool!Exited # Pool!Idle /\ Pill # Pool!Exited
  BY <1>a DEF PoolType, PillPlaces, Places, Got, Workers, Tasks, Pill, Pool!Idle, Pool!Exited
<1>c. /\ IsFiniteSet(PillPlaces) /\ Cardinality(PillPlaces) \in Nat
      /\ IsFiniteSet(Got) /\ Cardinality(Got) \in Nat
  BY <1>b, PlacesFinite
<1>1. CASE Pool!Submit
  <2>1. /\ Fifo' = Append(Fifo, sent + 1) /\ sent' = sent + 1 /\ sent < MaxTasks /\ Poisoned = 0
        /\ Job' = Job /\ Poisoned' = Poisoned /\ done' = done
    BY <1>1 DEF Pool!Submit, Fifo, Job
  <2>2. /\ sent \in Nat /\ sent + 1 \in Tasks
        /\ Len(Fifo') = Len(Fifo) + 1 /\ Fifo'[Len(Fifo) + 1] = sent + 1
        /\ \A k \in 1..Len(Fifo) : Fifo'[k] = Fifo[k]
        /\ Fifo' \in Seq(Tasks \cup {Pill})
    BY <1>a, <1>b, <2>1 DEF PoolType, Tasks
  <2>3. PillPlaces = {} /\ Got = {}
    BY <1>a, <1>c, <2>1, FS_EmptySet DEF PillCount
  <2>4. PoolType'
    BY <1>a, <2>1, <2>2 DEF PoolType, Workers, Tasks
  <2>5. \A k \in Places' : (k \in Places /\ Fifo'[k] = Fifo[k]) \/ (k = Len(Fifo) + 1 /\ Fifo'[k] = sent + 1)
    BY <1>b, <2>2 DEF Places
  <2>6. Places \subseteq Places' /\ Len(Fifo) + 1 \in Places'
    BY <1>b, <2>2 DEF Places
  <2>7. Submitted'
    <3>1. 1..sent \subseteq 1..sent' /\ sent + 1 \in 1..sent'
      BY <2>1, <2>2
    <3>2. \A k \in Places' : Fifo'[k] = Pill \/ Fifo'[k] \in 1..sent'
      BY <1>a, <2>5, <3>1 DEF Submitted
    <3> QED
      BY <1>a, <2>1, <3>1, <3>2 DEF Submitted
  <2>8. Once'
    <3>1. \A k \in Places : Fifo[k] # sent + 1
      BY <1>a, <2>2 DEF Submitted, Pill
    <3>2. \A w \in Workers : Job[w] # sent + 1
      BY <1>a, <2>2 DEF Submitted
    <3>3. sent + 1 \notin done /\ sent + 1 # Pill
      BY <1>a, <2>2 DEF Submitted, Pill
    <3>4. /\ \A k, l \in Places' : Fifo'[k] = Fifo'[l] /\ Fifo'[k] # Pill => k = l
          /\ \A v, w \in Workers : Job'[v] = Job'[w] /\ Job'[v] \in Tasks => v = w
      <4>1. ASSUME NEW k \in Places', NEW l \in Places', Fifo'[k] = Fifo'[l], Fifo'[k] # Pill
            PROVE  k = l
        <5>1. CASE k \in Places /\ l \in Places /\ Fifo'[k] = Fifo[k] /\ Fifo'[l] = Fifo[l]
          BY <1>a, <4>1, <5>1 DEF Once
        <5> QED
          BY <2>5, <3>1, <4>1, <5>1
      <4> QED
        BY <1>a, <2>1, <4>1 DEF Once
    <3>5. /\ \A k \in Places', w \in Workers : Fifo'[k] # Pill => Job'[w] # Fifo'[k]
          /\ \A k \in Places' : Fifo'[k] \notin done'
          /\ \A w \in Workers : Job'[w] \notin done'
      BY <1>a, <2>1, <2>5, <3>2, <3>3, ZenonT(40) DEF Once
    <3>6. \A n \in 1..sent' : \/ n \in done'
                              \/ \E k \in Places' : Fifo'[k] = n
                              \/ \E w \in Workers : Job'[w] = n
      <4> SUFFICES ASSUME NEW n \in 1..sent' PROVE \/ n \in done'
                                                   \/ \E k \in Places' : Fifo'[k] = n
                                                   \/ \E w \in Workers : Job'[w] = n
        OBVIOUS
      <4>1. CASE n = sent + 1
        BY <2>2, <2>6, <4>1
      <4>2. CASE n # sent + 1
        <5>1. n \in 1..sent
          BY <2>1, <2>2, <4>2
        <5> QED
          BY <1>a, <2>1, <2>2, <2>6, <5>1 DEF Once, Places
      <4> QED
        BY <4>1, <4>2
    <3> QED
      BY <3>4, <3>5, <3>6 DEF Once
  <2>9. PillPlaces' = {} /\ Got' = {}
    <3>1. \A k \in Places' : Fifo'[k] # Pill
      BY <2>2, <2>3, <2>5 DEF PillPlaces, Pill
    <3> QED
      BY <2>1, <2>3, <3>1 DEF PillPlaces, Got
  <2>10. PillCount'
    BY <1>a, <2>1, <2>3, <2>9 DEF PillCount
  <2>11. PillsLast'
    BY <2>9 DEF PillsLast, PillPlaces
  <2> QED
    BY <2>4, <2>7, <2>8, <2>10, <2>11 DEF Books
<1>2. CASE Pool!SubmitPill
  <2>1. /\ Fifo' = Append(Fifo, Pill) /\ Poisoned < thread_num
        /\ Job' = Job /\ sent' = sent /\ Poisoned' = Poisoned + 1 /\ done' = done
    BY <1>2 DEF Pool!SubmitPill, Pool!Pill, Pill, Fifo, Job
  <2>2. /\ Len(Fifo') = Len(Fifo) + 1 /\ Fifo'[Len(Fifo) + 1] = Pill
        /\ \A k \in 1..Len(Fifo) : Fifo'[k] = Fifo[k]
        /\ Fifo' \in Seq(Tasks \cup {Pill})
    BY <1>b, <2>1
  <2>4. PoolType'
    BY <1>a, <2>1, <2>2 DEF PoolType, Workers, Tasks
  <2>5. \A k \in Places' : (k \in Places /\ Fifo'[k] = Fifo[k]) \/ (k = Len(Fifo) + 1 /\ Fifo'[k] = Pill)
    BY <1>b, <2>2 DEF Places
  <2>6. Places \subseteq Places' /\ Len(Fifo) + 1 \in Places' /\ Len(Fifo) + 1 \notin Places
    BY <1>b, <2>2 DEF Places
  <2>7. Submitted'
    BY <1>a, <2>1, <2>5 DEF Submitted
  <2>8. Once'
    <3>1. Pill \notin done
      BY <1>a DEF Submitted, PoolType, Pill
    <3>2. /\ \A k, l \in Places' : Fifo'[k] = Fifo'[l] /\ Fifo'[k] # Pill => k = l
          /\ \A v, w \in Workers : Job'[v] = Job'[w] /\ Job'[v] \in Tasks => v = w
      <4>1. ASSUME NEW k \in Places', NEW l \in Places', Fifo'[k] = Fifo'[l], Fifo'[k] # Pill
            PROVE  k = l
        <5>1. k \in Places /\ l \in Places /\ Fifo'[k] = Fifo[k] /\ Fifo'[l] = Fifo[l]
          BY <2>5, <4>1
        <5> QED
          BY <1>a, <4>1, <5>1 DEF Once
      <4> QED
        BY <1>a, <2>1, <4>1 DEF Once
    <3>3. /\ \A k \in Places', w \in Workers : Fifo'[k] # Pill => Job'[w] # Fifo'[k]
          /\ \A k \in Places' : Fifo'[k] \notin done'
          /\ \A w \in Workers : Job'[w] \notin done'
      BY <1>a, <2>1, <2>5, <3>1, ZenonT(40) DEF Once
    <3>4. \A n \in 1..sent' : \/ n \in done'
                              \/ \E k \in Places' : Fifo'[k] = n
                              \/ \E w \in Workers : Job'[w] = n
      BY <1>a, <2>1, <2>2, <2>6 DEF Once, Places
    <3> QED
      BY <3>2, <3>3, <3>4 DEF Once
  <2>9. PillPlaces' = PillPlaces \cup {Len(Fifo) + 1} /\ Got' = Got
    BY <2>1, <2>2, <2>5, <2>6 DEF PillPlaces, Got, Places
  <2>10. Cardinality(PillPlaces') = Cardinality(PillPlaces) + 1
    <3>1. Len(Fifo) + 1 \notin PillPlaces
      BY <2>6 DEF PillPlaces
    <3> QED
      BY <1>c, <2>9, <3>1, FS_AddElement
  <2>11. PillCount'
    BY <1>a, <1>c, <2>1, <2>9, <2>10 DEF PillCount
  <2>12. PillsLast'
    <3>1. \A k, l \in Places' : k < l /\ Fifo'[k] = Pill => Fifo'[l] = Pill
      BY <1>a, <1>b, <2>2, <2>5 DEF PillsLast, Places
    <3> QED
      BY <1>a, <2>5, <2>9, <3>1 DEF PillsLast
  <2> QED
    BY <2>4, <2>7, <2>8, <2>11, <2>12 DEF Books
<1>3. ASSUME NEW w \in Workers, Pool!Take(w) PROVE Books'
  <2>0. /\ Fifo' = Tail(Fifo) /\ Fifo # << >> /\ Job' = [Job EXCEPT ![w] = Head(Fifo)]
        /\ Job[w] = Pool!Idle /\ sent' = sent /\ Poisoned' = Poisoned /\ done' = done
    BY <1>3 DEF Pool!Take, Fifo, Job
  <2>1. /\ Fifo' = Tail(Fifo) /\ Fifo # << >> /\ Job' = [Job EXCEPT ![w] = Fifo[1]]
        /\ Job[w] = Pool!Idle /\ sent' = sent /\ Poisoned' = Poisoned /\ done' = done
    BY <2>0, <1>b
  <2>2. /\ 1 \in Places /\ Fifo[1] \in Tasks \cup {Pill}
        /\ Len(Fifo') = Len(Fifo) - 1
        /\ \A k \in 1..(Len(Fifo) - 1) : Fifo'[k] = Fifo[k + 1]
        /\ Fifo' \in Seq(Tasks \cup {Pill})
    BY <1>b, <2>1 DEF Places
  <2>4. PoolType'
    BY <1>a, <2>1, <2>2 DEF PoolType
  <2>5. \A k \in Places' : k + 1 \in Places /\ k + 1 # 1 /\ Fifo'[k] = Fifo[k + 1]
    BY <1>b, <2>2 DEF Places
  <2>6. \A k \in Places : k # 1 => k - 1 \in Places' /\ Fifo'[k - 1] = Fifo[k]
    BY <1>b, <2>2 DEF Places
  <2>j. \A v \in Workers : Job'[v] = IF v = w THEN Fifo[1] ELSE Job[v]
    BY <1>a, <2>1 DEF PoolType
  <2>7. Submitted'
    BY <1>a, <1>b, <2>1, <2>2, <2>5, <2>j, ZenonT(40) DEF Submitted
  <2>8. Once'
    <3>1. \A k, l \in Places' : Fifo'[k] = Fifo'[l] /\ Fifo'[k] # Pill => k = l
      <4> SUFFICES ASSUME NEW k \in Places', NEW l \in Places', Fifo'[k] = Fifo'[l], Fifo'[k] # Pill
                   PROVE  k = l
        OBVIOUS
      <4>1. k + 1 = l + 1
        BY <1>a, <2>5 DEF Once
      <4> QED
        BY <4>1 DEF Places
    <3>2. \A v, x \in Workers : Job'[v] = Job'[x] /\ Job'[v] \in Tasks => v = x
      BY <1>a, <1>b, <2>2, <2>j DEF Once
    <3>3. \A k \in Places', v \in Workers : Fifo'[k] # Pill => Job'[v] # Fifo'[k]
      BY <1>a, <2>2, <2>5, <2>j DEF Once
    <3>4. /\ \A k \in Places' : Fifo'[k] \notin done'
          /\ \A v \in Workers : Job'[v] \notin done'
      <4>1. \A k \in Places : Fifo[k] \notin done
        BY <1>a DEF Once
      <4>2. \A v \in Workers : Job[v] \notin done
        BY <1>a DEF Once
      <4>3. \A k \in Places' : Fifo'[k] \notin done
        BY <2>5, <4>1
      <4>4. \A v \in Workers : Job'[v] \notin done
        BY <2>2, <2>j, <4>1, <4>2
      <4> QED
        BY <2>1, <4>3, <4>4
    <3>5. ASSUME NEW n \in 1..sent PROVE \/ n \in done
                                         \/ \E k \in Places' : Fifo'[k] = n
                                         \/ \E v \in Workers : Job'[v] = n
      <4>1. CASE n \in done
        BY <4>1
      <4>2. CASE \E k \in Places : Fifo[k] = n
        BY <2>6, <2>j, <4>2
      <4>3. CASE \E v \in Workers : Job[v] = n
        <5>1. n # Pool!Idle
          BY <1>a DEF PoolType, Pool!Idle
        <5> QED
          BY <2>1, <2>j, <4>3, <5>1
      <4> QED
        BY <1>a, <4>1, <4>2, <4>3 DEF Once
    <3> QED
      BY <2>1, <3>1, <3>2, <3>3, <3>4, <3>5 DEF Once
  <2>9. PillPlaces' = {k \in 1..(Len(Fifo) - 1) : k + 1 \in PillPlaces}
    BY <1>b, <2>2, <2>5 DEF PillPlaces, Places
  <2>10. Cardinality(PillPlaces') = IF 1 \in PillPlaces THEN Cardinality(PillPlaces) - 1
                                                        ELSE Cardinality(PillPlaces)
    <3>1. PICK n, S, T : n = Len(Fifo) /\ S = PillPlaces /\ T = PillPlaces'
      OBVIOUS
    <3>2. n \in Nat /\ S \in SUBSET (1..n)
      BY <1>b, <3>1
    <3>3. T = {k \in 1..(n - 1) : k + 1 \in S}
      BY <2>9, <3>1
    <3>4. Cardinality(T) = IF 1 \in S THEN Cardinality(S) - 1 ELSE Cardinality(S)
      BY <3>2, <3>3, ShiftCount
    <3> QED
      BY <3>1, <3>4
  <2>11. 1 \in PillPlaces <=> Fifo[1] = Pill
    BY <2>2 DEF PillPlaces
  <2>12. Got' = IF Fifo[1] = Pill THEN Got \cup {w} ELSE Got
    BY <1>b, <2>1, <2>2, <2>j DEF Got
  <2>13. w \notin Got
    BY <1>b, <2>1 DEF Got
  <2>14. Cardinality(Got') = IF Fifo[1] = Pill THEN Cardinality(Got) + 1 ELSE Cardinality(Got)
    BY <1>c, <2>12, <2>13, FS_AddElement
  <2>15. PillCount'
    BY <1>a, <1>c, <2>1, <2>10, <2>11, <2>14 DEF PillCount
  <2>16. PillsLast'
    <3>1. ASSUME NEW k \in Places', NEW l \in Places', k < l, Fifo'[k] = Pill
          PROVE  Fifo'[l] = Pill
      <4>1. k + 1 \in Places /\ l + 1 \in Places /\ k + 1 < l + 1
        BY <2>5, <3>1 DEF Places
      <4> QED
        BY <1>a, <2>5, <3>1, <4>1 DEF PillsLast
    <3>2. ASSUME Got' # {}, NEW k \in Places' PROVE Fifo'[k] = Pill
      <4>1. CASE Got # {}
        BY <1>a, <2>5, <4>1 DEF PillsLast
      <4>2. CASE Fifo[1] = Pill
        <5>1. 1 < k + 1 /\ k + 1 \in Places
          BY <2>5 DEF Places
        <5> QED
          BY <1>a, <2>2, <2>5, <4>2, <5>1 DEF PillsLast
      <4> QED
        BY <2>12, <3>2, <4>1, <4>2
    <3> QED
      BY <3>1, <3>2 DEF PillsLast
  <2> QED
    BY <2>4, <2>7, <2>8, <2>15, <2>16 DEF Books
<1>4. ASSUME NEW w \in Workers, Pool!Finish(w) \/ Pool!Exit(w) PROVE Books'
  <2>1. /\ Fifo' = Fifo /\ sent' = sent /\ Poisoned' = Poisoned
        /\ \/ Job[w] \in Tasks /\ Job' = [Job EXCEPT ![w] = Pool!Idle] /\ done' = done \cup {Job[w]}
           \/ Job[w] = Pill /\ Job' = [Job EXCEPT ![w] = Pool!Exited] /\ done' = done
    BY <1>4 DEF Pool!Finish, Pool!Exit, Pool!Tasks, Pool!Pill, Tasks, Pill, Fifo, Job
  <2>j. /\ \A v \in Workers : v # w => Job'[v] = Job[v]
        /\ Job'[w] = IF Job[w] \in Tasks THEN Pool!Idle ELSE Pool!Exited
    BY <1>a, <1>b, <2>1 DEF PoolType
  <2>p. Places' = Places
    BY <2>1 DEF Places
  <2>2. PoolType'
    BY <1>a, <2>1 DEF PoolType
  <2>3. Submitted'
    BY <1>a, <1>b, <2>1, <2>j, <2>p DEF Submitted
  <2>4. Once'
    <3>1. /\ \A k, l \in Places : Fifo[k] = Fifo[l] /\ Fifo[k] # Pill => k = l
          /\ \A v, x \in Workers : Job'[v] = Job'[x] /\ Job'[v] \in Tasks => v = x
      BY <1>a, <1>b, <2>1, <2>j DEF Once
    <3>2. \A k \in Places, v \in Workers : Fifo[k] # Pill => Job'[v] # Fifo[k]
      BY <1>a, <1>b, <2>1, <2>j DEF Once
    <3>3. \A k \in Places : Fifo[k] \notin done'
      BY <1>a, <1>b, <2>1 DEF Once
    <3>4. \A v \in Workers : Job'[v] \notin done'
      <4>1. Pool!Idle \notin done /\ Pool!Exited \notin done
        BY <1>a DEF Submitted, PoolType, Pool!Idle, Pool!Exited
      <4> QED
        BY <1>a, <1>b, <2>1, <2>j, <4>1 DEF Once
    <3>5. ASSUME NEW n \in 1..sent PROVE \/ n \in done'
                                         \/ \E k \in Places : Fifo[k] = n
                                         \/ \E v \in Workers : Job'[v] = n
      <4>1. n # Pill
        BY <1>a DEF PoolType, Pill
      <4> QED
        BY <1>a, <2>1, <2>j, <4>1 DEF Once
    <3> QED
      BY <2>1, <2>p, <3>1, <3>2, <3>3, <3>4, <3>5 DEF Once
  <2>5. PillPlaces' = PillPlaces /\ Got' = Got
    BY <1>b, <2>1, <2>j, <2>p DEF PillPlaces, Got
  <2> QED
    BY <1>a, <2>1, <2>2, <2>3, <2>4, <2>5, <2>p DEF Books, PillCount, PillsLast
<1>5. CASE UNCHANGED Pool!poolVars
  <2>0. Fifo' = Fifo /\ Job' = Job /\ sent' = sent /\ Poisoned' = Poisoned /\ done' = done
    BY <1>5 DEF Pool!poolVars, Fifo, Job
  <2>1. Places' = Places /\ PillPlaces' = PillPlaces /\ Got' = Got
    BY <2>0 DEF Places, PillPlaces, Got
  <2> QED
    BY <2>0, <1>a, <2>1 DEF Books, PoolType, Submitted, Once, PillCount, PillsLast
<1> QED
  BY <1>1, <1>2, <1>3, <1>4, <1>5 DEF Pool!Next, Pool!Workers, Workers

\* Whatever implements TaskPool keeps these books: no task is lost or run twice, and exit
\* tasks are handed out one per thread, after everything else.
LEMMA PoolBooks == Pool!Spec => []Books
<1>1. Pool!Init => Books
  BY BooksInit, PoolAssumption
<1>2. Books /\ [Pool!Next]_(Pool!poolVars) => Books'
  BY BooksNext, PoolAssumption
<1> QED
  BY <1>1, <1>2, PTL DEF Pool!Spec

\* The ring, its threads and the event loop keep the books of the pool: each task is in one
\* place, and the exit tasks reach the threads one each, behind the last real task.
THEOREM BooksKept == Spec => []Books
  BY PoolBooks, RefinesTaskPool, PTL DEF ImplementsTaskPool

\* pthread_join returns only for a thread that is gone, and none comes back.
JoinInv == /\ pc[Main] = "join" => \A w \in 1..i : pc[w] = "exited"
           /\ pc[Main] = "done" => \A w \in Workers : pc[w] = "exited"

LEMMA JoinNext ==
    ASSUME QueueInv, JoinInv, [Next]_vars PROVE JoinInv'
<1>a. TypeOK /\ MutexInv /\ SleepInv /\ PushInv /\ RingInv
  BY DEF QueueInv
<1>t. /\ pc \in [Threads -> MainPCs \cup WorkerPCs] /\ i \in 0..thread_num
      /\ Main \in Threads /\ Workers \subseteq Threads /\ Main \notin Workers
      /\ 1..i \subseteq Workers
  BY <1>a, PoolAssumption DEF TypeOK, Threads, Workers, Main
<1>s. ASSUME \/ pc'[Main] \notin {"join", "done"}
             \/ /\ pc'[Main] = pc[Main] /\ i' = i
                /\ \A w \in Workers : pc[w] = "exited" => pc'[w] = "exited"
      PROVE  JoinInv'
  BY <1>s, <1>t DEF JoinInv
<1>1. CASE ThreadCreate
  <2>1. pc'[Main] = "create"
    BY <1>1, <1>t, PoolAssumption DEF ThreadCreate, Goto, Main
  <2> QED
    BY <2>1, <1>s
<1>2. CASE ThreadsCreated \/ ExitRequested \/ Distribute \/ PushPill \/ Lock(Main) \/ PushWait \/ PushPut \/ PushSignal \/ Unlock(Main)
  <2>1. pc'[Main] \notin {"join", "done"}
    <3>1. \A w \in not_empty : w # Main
      BY <1>a, <1>t DEF SleepInv
    <3> QED
      BY <1>2, <1>t, <3>1 DEF ThreadsCreated, ExitRequested, Distribute, PushPill, Lock, PushWait, PushPut, PushSignal, Unlock, Goto
  <2> QED
    BY <2>1, <1>s
<1>3. CASE PillsPushed
  BY <1>3, <1>t DEF PillsPushed, Goto, JoinInv
<1>4. CASE Join
  <2>1. pc' = pc /\ i' = i + 1 /\ pc[i + 1] = "exited" /\ pc[Main] = "join"
    BY <1>4 DEF Join
  <2>2. \A w \in 1..(i + 1) : w \in 1..i \/ w = i + 1
    BY <1>t
  <2> QED
    BY <2>1, <2>2 DEF JoinInv
<1>5. CASE Joined
  BY <1>5, <1>t DEF Joined, Goto, JoinInv, Workers
<1>6. ASSUME NEW w \in Workers, WorkerStep(w) PROVE JoinInv'
  <2>1. pc[w] # "exited" /\ i' = i
    BY <1>6, <1>t DEF WorkerStep, Lock, PopWait, PopTake, PopSignal, Unlock, Execute, PthreadExit
  <2>2. CASE PopSignal(w)
    <3>1. \A t \in not_full : t = Main /\ pc[t] = "wait"
      BY <1>a DEF SleepInv
    <3> QED
      BY <1>s, <1>t, <2>1, <2>2, <3>1 DEF PopSignal
  <2>3. CASE ~PopSignal(w)
    <3>1. PICK l : pc' = [pc EXCEPT ![w] = l]
      BY <1>6, <2>3 DEF WorkerStep, Lock, PopWait, PopTake, Unlock, Execute, PthreadExit, Goto
    <3> QED
      BY <1>s, <1>t, <2>1, <3>1
  <2> QED
    BY <2>2, <2>3
<1>7. ASSUME NEW t \in Threads, SpuriousWakeup(t) PROVE JoinInv'
  BY <1>7, <1>s, <1>t DEF SpuriousWakeup, Goto
<1>8. CASE UNCHANGED vars
  BY <1>8, <1>s DEF vars
<1> QED
  BY <1>1, <1>2, <1>3, <1>4, <1>5, <1>6, <1>7, <1>8 DEF Next, MainStep, Terminated

LEMMA JoinCorrect == Spec => []JoinInv
<1>1. Init => JoinInv
  BY PoolAssumption DEF Init, JoinInv, Threads, Main
<1>2. QueueInv /\ JoinInv /\ [Next]_vars => JoinInv'
  BY JoinNext
<1> QED
  BY <1>1, <1>2, QueueCorrect, PTL DEF Spec

\* PoolInv is TaskPool's bookkeeping, read in the ring's terms.
LEMMA BooksGivePoolInv ==
    ASSUME QueueInv, JoinInv, Books PROVE PoolInv
<1>a. TypeOK /\ RingInv /\ PushInv
  BY DEF QueueInv
<1>b. /\ Submitted /\ Once /\ PillCount /\ PillsLast
  BY DEF Books
<1>c. /\ thread_num \in Nat \ {0} /\ size \in Nat /\ sent \in Nat
      /\ \A k \in 1..size : Fifo[k] = QueuedAt(k) /\ QueuedAt(k) \in Tasks \cup {Pill}
      /\ Len(Fifo) = size
  BY <1>a, FifoSeq, PoolAssumption DEF TypeOK
<1>d. Places = 1..size
  BY <1>c DEF Fifo, Places
<1>e. /\ \A w \in Workers : new_task[w] \in Tasks \cup {Pill, Zeroed}
      /\ \A w \in Workers : Holding(w) => pc[w] # "exited"
  BY <1>a DEF TypeOK, Workers, Threads, Holding
<1>f. \A w \in Workers : /\ Job[w] = IF pc[w] = "exited" THEN -2 ELSE IF Holding(w) THEN new_task[w] ELSE 0
                         /\ \A n \in 1..sent : Job[w] = n <=> Holding(w) /\ new_task[w] = n
                         /\ Job[w] = -1 <=> Holding(w) /\ new_task[w] = Pill
                         /\ Job[w] = -2 <=> pc[w] = "exited"
  BY <1>c, <1>e DEF Job, Tasks, Pill, Zeroed
<1>g. /\ \A n \in 1..sent : n \in Tasks /\ n # -1 /\ n # -2
      /\ done \subseteq 1..sent
  BY <1>a, <1>b, PoolAssumption DEF TypeOK, Tasks, Submitted
<1>o. /\ \A k, l \in 1..size : Fifo[k] = Fifo[l] /\ Fifo[k] # -1 => k = l
      /\ \A v, w \in Workers : Job[v] = Job[w] /\ Job[v] \in Tasks => v = w
      /\ \A k \in 1..size, w \in Workers : Fifo[k] # -1 => Job[w] # Fifo[k]
      /\ \A k \in 1..size : Fifo[k] \notin done
      /\ \A w \in Workers : Job[w] \notin done
      /\ \A n \in 1..sent : \/ n \in done
                            \/ \E k \in 1..size : Fifo[k] = n
                            \/ \E w \in Workers : Job[w] = n
  BY <1>b, <1>d, Zenon DEF Once, Pill, Workers, Tasks, Places, Fifo, Job
<1>p. PillPlaces = {k \in 1..size : QueuedAt(k) = Pill}
  BY <1>c, <1>d DEF PillPlaces, Pill, Fifo
<1>q. Got = {w \in Workers : Job[w] \in {-1, -2}}
  BY DEF Got, Pill, Pool!Exited, Workers, Job
<1>h. /\ IsFiniteSet(Workers) /\ Cardinality(Workers) = thread_num
      /\ IsFiniteSet(Got) /\ Cardinality(Got) \in Nat
      /\ Got \subseteq Workers
      /\ IsFiniteSet(PillPlaces) /\ Cardinality(PillPlaces) \in Nat
  <2>1. IsFiniteSet(Workers) /\ Cardinality(Workers) = thread_num /\ IsFiniteSet(1..size)
    BY <1>c, FS_Interval DEF Workers
  <2>2. Got \subseteq Workers /\ PillPlaces \subseteq 1..size
    BY <1>p, <1>q
  <2> QED
    BY <2>1, <2>2, FS_Subset, FS_CardinalityType
<1>i. Cardinality(PillPlaces) + Cardinality(Got) = Poisoned
  BY <1>b, Zenon DEF PillCount
<1>j. pc[Main] \in {"join", "done"} => Poisoned = thread_num
  BY DEF Poisoned
<1>1. EachTaskOnce
  <2> SUFFICES ASSUME NEW n \in 1..sent
               PROVE  Cardinality({k \in 1..size : QueuedAt(k) = n})
                        + Cardinality({w \in Workers : Holding(w) /\ new_task[w] = n})
                        + Cardinality(done \cap {n}) = 1
    BY Zenon DEF EachTaskOnce
  <2> DEFINE queued == {k \in 1..size : QueuedAt(k) = n}
             held   == {w \in Workers : Holding(w) /\ new_task[w] = n}
  <2>1. \A w \in Workers : w \in held <=> Job[w] = n
    BY <1>f
  <2>2. \A k \in 1..size : k \in queued <=> Fifo[k] = n
    BY <1>c
  <2>3. ASSUME n \in done PROVE Cardinality(queued) + Cardinality(held) + Cardinality(done \cap {n}) = 1
    <3>1. queued = {} /\ held = {} /\ done \cap {n} = {n}
      BY <1>o, <2>1, <2>2, <2>3
    <3>2. Cardinality(queued) = 0 /\ Cardinality(held) = 0 /\ Cardinality(done \cap {n}) = 1
      BY ONLY <3>1, FS_EmptySet, FS_Singleton
    <3> HIDE DEF queued, held
    <3> QED
      BY ONLY <3>2
  <2>4. ASSUME NEW k \in 1..size, Fifo[k] = n PROVE Cardinality(queued) + Cardinality(held) + Cardinality(done \cap {n}) = 1
    <3>1. queued = {k} /\ held = {} /\ done \cap {n} = {}
      BY <1>g, <1>o, <2>1, <2>2, <2>4
    <3>2. Cardinality(queued) = 1 /\ Cardinality(held) = 0 /\ Cardinality(done \cap {n}) = 0
      BY ONLY <3>1, FS_EmptySet, FS_Singleton
    <3> HIDE DEF queued, held
    <3> QED
      BY ONLY <3>2
  <2>5. ASSUME NEW w \in Workers, Job[w] = n PROVE Cardinality(queued) + Cardinality(held) + Cardinality(done \cap {n}) = 1
    <3>1. queued = {} /\ held = {w} /\ done \cap {n} = {}
      BY <1>g, <1>o, <2>1, <2>2, <2>5
    <3>2. Cardinality(queued) = 0 /\ Cardinality(held) = 1 /\ Cardinality(done \cap {n}) = 0
      BY ONLY <3>1, FS_EmptySet, FS_Singleton
    <3> HIDE DEF queued, held
    <3> QED
      BY ONLY <3>2
  <2> QED
    BY <1>o, <2>3, <2>4, <2>5
<1>2. PillPerWorker
  <2> SUFFICES ASSUME pc[Main] = "join"
               PROVE  Cardinality({k \in 1..size : QueuedAt(k) = Pill})
                        = Cardinality({w \in Workers : ~(Holding(w) /\ new_task[w] = Pill) /\ pc[w] # "exited"})
    BY DEF PillPerWorker
  <2>1. {w \in Workers : ~(Holding(w) /\ new_task[w] = Pill) /\ pc[w] # "exited"} = Workers \ Got
    BY <1>f, <1>q
  <2>2. Workers \cap Got = Got
    BY <1>h
  <2>3. Cardinality(Workers \ Got) = thread_num - Cardinality(Got)
    BY <1>h, <2>2, FS_Difference
  <2>4. Cardinality(PillPlaces) = thread_num - Cardinality(Got)
    BY ONLY <1>c, <1>h, <1>i, <1>j, pc[Main] = "join"
  <2> QED
    BY <1>p, <2>1, <2>3, <2>4
<1>3. DrainedAtExit
  <2> SUFFICES ASSUME pc[Main] = "done"
               PROVE  done = 1..sent /\ size = 0 /\ \A w \in Workers : pc[w] = "exited"
    BY DEF DrainedAtExit
  <2>1. \A w \in Workers : pc[w] = "exited" /\ Job[w] = -2
    BY <1>f DEF JoinInv
  <2>2. Got = Workers /\ Got # {}
    BY <1>c, <1>q, <2>1 DEF Workers
  <2>3. PillPlaces = {}
    BY <1>c, <1>h, <1>i, <1>j, <2>2, FS_EmptySet
  <2>4. \A k \in 1..size : Fifo[k] = -1
    BY <1>b, <1>d, <2>2 DEF PillsLast, Pill, Fifo
  <2>5. size = 0
    <3>1. 1 \notin 1..size
      BY <1>c, <1>p, <2>3, <2>4 DEF Pill
    <3> QED
      BY <1>c, <3>1
  <2>6. \A n \in 1..sent : n \in done
    BY <1>g, <1>o, <2>1, <2>5
  <2> QED
    BY <1>g, <2>1, <2>5, <2>6
<1> QED
  BY <1>1, <1>2, <1>3 DEF PoolInv

\* No task is lost or run twice, thread_pool_exit leaves an exit task for every thread,
\* and when it returns every task that was pushed has been executed.
THEOREM PoolCorrect == Spec => []PoolInv
<1>1. QueueInv /\ JoinInv /\ Books => PoolInv
  BY BooksGivePoolInv
<1> QED
  BY <1>1, QueueCorrect, JoinCorrect, BooksKept, PTL
=============================================================================
