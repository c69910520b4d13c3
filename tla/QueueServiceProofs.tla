------------------------- MODULE QueueServiceProofs -------------------------
(***************************************************************************)
(* Proofs about TaskQueue, for every set of tasks and every queue length,   *)
(* and what every operation of QueueService preserves, whichever scheduler  *)
(* drives the queue: the types, the reference to the owner, the suspend     *)
(* counter, the count of scheduler->Post() calls owed, and where each task  *)
(* is.  One lemma per operation and invariant: those about QueueService     *)
(* cite those about TaskQueue, and the proofs about a scheduler cite both.  *)
(***************************************************************************)
EXTENDS QueueService, SequenceTheorems, FiniteSetTheorems, TLAPS

(* A buffer whose slot index + 1 has been moved from.                       *)
LEMMA MovedFromSlot ==
  ASSUME NEW s \in Seq(Task \cup {NoTask}), NEW i \in 0 .. Len(s) - 1
  PROVE  LET r == [s EXCEPT ![i + 1] = NoTask]
         IN /\ r \in Seq(Task \cup {NoTask})
            /\ Len(r) = Len(s)
            /\ \A j \in 1 .. Len(s) : j > i + 1 => r[j] = s[j]
<1>1. i + 1 \in 1 .. Len(s) /\ NoTask \in Task \cup {NoTask}
  OBVIOUS
<1> QED
  BY <1>1, ExceptSeq

(* Every slot of the write buffer holds a task: what TryDequeue meets after *)
(* SwapBuffer.                                                              *)
LEMMA WriteBufferSlots ==
  ASSUME TQTypeOK
  PROVE  /\ m_writeBuffer \in Seq(Task \cup {NoTask})
         /\ \A j \in 1 .. Len(m_writeBuffer) : m_writeBuffer[j] \in Task
         /\ m_writeBuffer # <<>> => Len(m_writeBuffer) > 0
<1>1. m_writeBuffer \in Seq(Task)
  BY DEF TQTypeOK
<1>2. m_writeBuffer \in Seq(Task \cup {NoTask})
  BY <1>1, SeqMonotonic
<1> QED
  BY <1>1, <1>2

(* Enqueue on a well-formed queue leaves it well-formed.                    *)
LEMMA EnqueueType ==
  ASSUME TQTypeOK, NEW t \in Task, Enqueue(t)
  PROVE  TQTypeOK'
<1>1. m_writeBuffer' \in Seq(Task)
  BY DEF TQTypeOK, Enqueue
<1>2. m_strongOwnerPtr' \in BOOLEAN
  BY DEF TQTypeOK, Enqueue
<1>3. /\ m_readBuffer' \in Seq(Task \cup {NoTask})
      /\ m_index' \in 0 .. Len(m_readBuffer')
      /\ \A i \in 1 .. Len(m_readBuffer') : i > m_index' => m_readBuffer'[i] \in Task
  BY DEF TQTypeOK, Enqueue
<1> QED
  BY <1>1, <1>2, <1>3 DEF TQTypeOK

(* TryDequeue on a well-formed queue hands out a task, never the null of a  *)
(* slot it has already moved from, and leaves the queue well-formed.        *)
LEMMA TryDequeueType ==
  ASSUME TQTypeOK, NEW t, TryDequeue(t)
  PROVE  t \in Task /\ TQTypeOK'
<1>1. m_strongOwnerPtr' \in BOOLEAN /\ m_writeBuffer' \in Seq(Task)
  <2>1. m_strongOwnerPtr' \in BOOLEAN
    BY DEF TQTypeOK, TryDequeue
  <2>2. m_writeBuffer' = <<>> \/ m_writeBuffer' = m_writeBuffer
    BY DEF TryDequeue
  <2>3. m_writeBuffer' \in Seq(Task)
    BY <2>2, EmptySeq DEF TQTypeOK
  <2> QED
    BY <2>1, <2>3
<1>2. CASE ReadBufferIsEmpty
  <2>1. /\ m_writeBuffer # <<>> /\ t = m_writeBuffer[1]
        /\ m_readBuffer' = [m_writeBuffer EXCEPT ![0 + 1] = NoTask]
        /\ m_index' = 0 + 1
    BY <1>2 DEF TryDequeue, TakeSlot
  <2>2. 0 \in 0 .. Len(m_writeBuffer) - 1
    BY <2>1, WriteBufferSlots DEF TQTypeOK
  <2>3. /\ m_readBuffer' \in Seq(Task \cup {NoTask})
        /\ Len(m_readBuffer') = Len(m_writeBuffer)
        /\ \A j \in 1 .. Len(m_writeBuffer) : j > 1 => m_readBuffer'[j] = m_writeBuffer[j]
    BY <2>1, <2>2, WriteBufferSlots, MovedFromSlot
  <2> QED
    BY <1>1, <2>1, <2>2, <2>3, WriteBufferSlots DEF TQTypeOK
<1>3. CASE ~ReadBufferIsEmpty
  <2>1. /\ t = m_readBuffer[m_index + 1]
        /\ m_readBuffer' = [m_readBuffer EXCEPT ![m_index + 1] = NoTask]
        /\ m_index' = m_index + 1
    BY <1>3 DEF TryDequeue, TakeSlot
  <2>2. m_index \in 0 .. Len(m_readBuffer) - 1
    BY <1>3 DEF TQTypeOK, ReadBufferIsEmpty
  <2>3. /\ m_readBuffer' \in Seq(Task \cup {NoTask})
        /\ Len(m_readBuffer') = Len(m_readBuffer)
        /\ \A j \in 1 .. Len(m_readBuffer) :
             j > m_index + 1 => m_readBuffer'[j] = m_readBuffer[j]
    BY <2>1, <2>2, MovedFromSlot DEF TQTypeOK
  <2>4. t \in Task
    BY <2>1, <2>2 DEF TQTypeOK
  <2>5. \A i \in 1 .. Len(m_readBuffer') : i > m_index' => m_readBuffer'[i] \in Task
    BY <2>1, <2>2, <2>3 DEF TQTypeOK
  <2>6. m_index' \in 0 .. Len(m_readBuffer')
    BY <2>1, <2>2, <2>3 DEF TQTypeOK
  <2> QED
    BY <1>1, <2>3, <2>4, <2>5, <2>6 DEF TQTypeOK
<1> QED
  BY <1>2, <1>3

(* DequeueAll leaves a well-formed, empty queue.                            *)
LEMMA DequeueAllType ==
  ASSUME TQTypeOK, DequeueAll(Contents)
  PROVE  TQTypeOK' /\ IsEmpty'
<1>1. CASE IsEmpty
  BY <1>1 DEF TQTypeOK, DequeueAll, tqVars, IsEmpty, ReadBufferIsEmpty
<1>2. CASE ~IsEmpty
  <2>1. /\ m_writeBuffer' = <<>> /\ m_strongOwnerPtr' = FALSE
        /\ ReadBufferIsEmpty => UNCHANGED <<m_readBuffer, m_index>>
        /\ ~ReadBufferIsEmpty => m_readBuffer' = <<>> /\ m_index' = 0
    BY <1>2 DEF DequeueAll
  <2>2. m_writeBuffer' \in Seq(Task) /\ m_strongOwnerPtr' \in BOOLEAN
    BY <2>1, EmptySeq
  <2>3. /\ m_readBuffer' \in Seq(Task \cup {NoTask})
        /\ m_index' \in Nat /\ m_index' = Len(m_readBuffer')
    <3>1. CASE ReadBufferIsEmpty
      BY <2>1, <3>1 DEF TQTypeOK, ReadBufferIsEmpty
    <3>2. CASE ~ReadBufferIsEmpty
      BY <2>1, <3>2
    <3> QED
      BY <3>1, <3>2
  <2> QED
    BY <2>1, <2>2, <2>3 DEF TQTypeOK, IsEmpty, ReadBufferIsEmpty
<1> QED
  BY <1>1, <1>2

(* The tasks in the queue, as DequeueAll hands them out.                    *)
LEMMA ContentsType ==
  TQTypeOK => /\ ReadBufferRest \in Seq(Task)
              /\ Len(ReadBufferRest) = Len(m_readBuffer) - m_index
              /\ \A i \in 1 .. Len(ReadBufferRest) :
                   ReadBufferRest[i] = m_readBuffer[m_index + i]
              /\ Contents \in Seq(Task)
<1> HAVE TQTypeOK
<1>1. /\ m_index + 1 \in Int /\ Len(m_readBuffer) \in Int
      /\ \A i \in (m_index + 1) .. Len(m_readBuffer) : m_readBuffer[i] \in Task
  BY DEF TQTypeOK
<1>2. /\ ReadBufferRest \in Seq(Task)
      /\ Len(ReadBufferRest) =
           IF m_index + 1 <= Len(m_readBuffer) THEN Len(m_readBuffer) - (m_index + 1) + 1 ELSE 0
      /\ \A i \in 1 .. Len(m_readBuffer) - (m_index + 1) + 1 :
           ReadBufferRest[i] = m_readBuffer[m_index + 1 + i - 1]
  BY <1>1, SubSeqProperties DEF ReadBufferRest
<1>3. Len(ReadBufferRest) = Len(m_readBuffer) - m_index
  BY <1>2 DEF TQTypeOK
<1>4. \A i \in 1 .. Len(ReadBufferRest) : ReadBufferRest[i] = m_readBuffer[m_index + i]
  BY <1>2, <1>3 DEF TQTypeOK
<1>5. Contents \in Seq(Task)
  BY <1>2 DEF TQTypeOK, Contents
<1> QED
  BY <1>2, <1>3, <1>4, <1>5

(* The same for the state after a step.                                     *)
LEMMA ContentsTypeNext ==
  (TQTypeOK => /\ ReadBufferRest \in Seq(Task)
               /\ Len(ReadBufferRest) = Len(m_readBuffer) - m_index
               /\ \A i \in 1 .. Len(ReadBufferRest) :
                    ReadBufferRest[i] = m_readBuffer[m_index + i]
               /\ Contents \in Seq(Task))'
BY ContentsType, PTL

(* The owner reference under Enqueue: the first task takes it.              *)
LEMMA EnqueueOwner ==
  ASSUME TQTypeOK, OwnerHeldIffPending, NEW t \in Task, Enqueue(t)
  PROVE  OwnerHeldIffPending'
BY DEF TQTypeOK, OwnerHeldIffPending, Enqueue, IsEmpty, ReadBufferIsEmpty

(* Under TryDequeue: the last task releases it.                             *)
LEMMA TryDequeueOwner ==
  ASSUME TQTypeOK, OwnerHeldIffPending, NEW t, TryDequeue(t)
  PROVE  OwnerHeldIffPending'
<1> USE DEF TQTypeOK, OwnerHeldIffPending, TakeSlot, IsEmpty, ReadBufferIsEmpty
<1>1. CASE ReadBufferIsEmpty
  <2>1. Len(m_readBuffer') = Len(m_writeBuffer) /\ m_index' = 1 /\ m_writeBuffer' = <<>>
    BY <1>1 DEF TryDequeue
  <2>2. m_strongOwnerPtr /\ Len(m_writeBuffer) > 0
    BY <1>1 DEF TryDequeue
  <2> QED
    BY <1>1, <2>1, <2>2 DEF TryDequeue
<1>2. CASE ~ReadBufferIsEmpty
  <2>1. /\ m_readBuffer' = [m_readBuffer EXCEPT ![m_index + 1] = NoTask]
        /\ m_index' = m_index + 1
        /\ m_writeBuffer' = m_writeBuffer
        /\ m_strongOwnerPtr' = IF m_index + 1 = Len(m_readBuffer) /\ m_writeBuffer = <<>>
                              THEN FALSE
                              ELSE m_strongOwnerPtr
    BY <1>2, Zenon DEF TryDequeue, TakeSlot
  <2>2. m_strongOwnerPtr /\ Len(m_readBuffer') = Len(m_readBuffer)
    BY <1>2, <2>1
  <2> QED
    BY <1>2, <2>1, <2>2
<1> QED
  BY <1>1, <1>2

(* Under DequeueAll.                                                        *)
LEMMA DequeueAllOwner ==
  ASSUME TQTypeOK, OwnerHeldIffPending, DequeueAll(Contents)
  PROVE  OwnerHeldIffPending'
BY DEF TQTypeOK, OwnerHeldIffPending, DequeueAll, tqVars, IsEmpty, ReadBufferIsEmpty

(* What the operations do to the queue as its users see it.                 *)
LEMMA EnqueueAppends ==
  ASSUME TQTypeOK, NEW t \in Task, Enqueue(t)
  PROVE  Contents' = Append(Contents, t)
<1>1. ReadBufferRest \in Seq(Task) /\ ReadBufferRest' = ReadBufferRest
  BY DEF TQTypeOK, Enqueue, ReadBufferRest
<1>2. \A r, s \in Seq(Task) : r \o Append(s, t) = Append(r \o s, t)
  OBVIOUS
<1> QED
  BY <1>1, <1>2 DEF TQTypeOK, Enqueue, Contents

(* The first task goes and the rest move up.                                *)
LEMMA FirstAndRest ==
  ASSUME NEW S, NEW s \in Seq(S), NEW r \in Seq(S), NEW t \in S,
         Len(s) = Len(r) + 1, s[1] = t, \A i \in 1 .. Len(r) : s[i + 1] = r[i]
  PROVE  s = <<t>> \o r
<1>1. <<t>> \in Seq(S) /\ Len(<<t>>) = 1 /\ <<t>>[1] = t
  OBVIOUS
<1>2. /\ <<t>> \o r \in Seq(S)
      /\ Len(<<t>> \o r) = 1 + Len(r)
      /\ \A i \in 1 .. 1 + Len(r) : (<<t>> \o r)[i] = IF i <= 1 THEN <<t>>[i] ELSE r[i - 1]
  BY <1>1, ConcatProperties
<1>3. \A i \in 1 .. Len(s) : s[i] = (<<t>> \o r)[i]
  <2> SUFFICES ASSUME NEW i \in 1 .. Len(s) PROVE s[i] = (<<t>> \o r)[i]
    OBVIOUS
  <2>1. CASE i = 1
    BY <1>1, <1>2, <2>1
  <2>2. CASE i # 1
    <3>1. i - 1 \in 1 .. Len(r) /\ i = (i - 1) + 1
      BY <2>2
    <3> QED
      BY <1>2, <2>2, <3>1
  <2> QED
    BY <2>1, <2>2
<1> QED
  BY <1>2, <1>3, SeqEqual

(* TryDequeue hands out the first of the tasks in the queue and leaves the  *)
(* others in order.                                                         *)
LEMMA TryDequeueTakesFirst ==
  ASSUME TQTypeOK, NEW t, TryDequeue(t)
  PROVE  Contents = <<t>> \o Contents'
<1>1. t \in Task /\ TQTypeOK'
  BY TryDequeueType
<1>2. /\ ReadBufferRest' \in Seq(Task)
      /\ Len(ReadBufferRest') = Len(m_readBuffer') - m_index'
      /\ \A i \in 1 .. Len(ReadBufferRest') : ReadBufferRest'[i] = m_readBuffer'[m_index' + i]
  BY <1>1, ContentsTypeNext
<1>3. CASE ReadBufferIsEmpty
  <2>1. /\ m_writeBuffer # <<>> /\ t = m_writeBuffer[1] /\ m_writeBuffer' = <<>>
        /\ m_readBuffer' = [m_writeBuffer EXCEPT ![1] = NoTask] /\ m_index' = 1
    BY <1>3 DEF TryDequeue, TakeSlot
  <2>2. ReadBufferRest = <<>> /\ m_writeBuffer \in Seq(Task)
    BY <1>3, ContentsType DEF TQTypeOK, ReadBufferIsEmpty
  <2>3. Contents = m_writeBuffer /\ Contents' = ReadBufferRest'
    BY <1>2, <2>1, <2>2, ConcatEmptySeq DEF Contents
  <2>4. /\ Len(m_writeBuffer) = Len(ReadBufferRest') + 1
        /\ \A i \in 1 .. Len(ReadBufferRest') : m_writeBuffer[i + 1] = ReadBufferRest'[i]
    BY <1>2, <2>1, <2>2
  <2> QED
    BY <1>1, <1>2, <2>1, <2>2, <2>3, <2>4, FirstAndRest
<1>4. CASE ~ReadBufferIsEmpty
  <2>1. /\ t = m_readBuffer[m_index + 1] /\ m_writeBuffer' = m_writeBuffer
        /\ m_readBuffer' = [m_readBuffer EXCEPT ![m_index + 1] = NoTask]
        /\ m_index' = m_index + 1
    BY <1>4 DEF TryDequeue, TakeSlot
  <2>2. /\ ReadBufferRest \in Seq(Task)
        /\ Len(ReadBufferRest) = Len(m_readBuffer) - m_index
        /\ \A i \in 1 .. Len(ReadBufferRest) : ReadBufferRest[i] = m_readBuffer[m_index + i]
    BY ContentsType
  <2>3. m_index \in 0 .. Len(m_readBuffer) - 1 /\ Len(m_readBuffer') = Len(m_readBuffer)
    BY <1>4, <2>1 DEF TQTypeOK, ReadBufferIsEmpty
  <2>4. Len(ReadBufferRest) = Len(ReadBufferRest') + 1 /\ ReadBufferRest[1] = t
    BY <1>2, <2>1, <2>2, <2>3
  <2>5. \A i \in 1 .. Len(ReadBufferRest') : ReadBufferRest[i + 1] = ReadBufferRest'[i]
    BY <1>2, <2>1, <2>2, <2>3, <2>4 DEF TQTypeOK
  <2>6. ReadBufferRest = <<t>> \o ReadBufferRest'
    BY <1>1, <1>2, <2>2, <2>4, <2>5, FirstAndRest
  <2>7. <<t>> \in Seq(Task) /\ m_writeBuffer \in Seq(Task)
    BY <1>1 DEF TQTypeOK
  <2> QED
    BY <1>2, <2>1, <2>6, <2>7, ConcatAssociative DEF Contents
<1> QED
  BY <1>3, <1>4

(* IsEmpty looks at the buffers, Contents at the tasks: they agree.         *)
LEMMA EmptyContents ==
  TQTypeOK => (IsEmpty <=> Contents = <<>>)
<1> HAVE TQTypeOK
<1>1. ReadBufferIsEmpty <=> ReadBufferRest = <<>>
  BY ContentsType DEF TQTypeOK, ReadBufferIsEmpty
<1>2. m_writeBuffer \in Seq(Task)
  BY DEF TQTypeOK
<1> QED
  BY <1>1, <1>2, ContentsType, ConcatEqualIffEmpty DEF IsEmpty, Contents

(* The same for the state after a step.                                     *)
LEMMA EmptyContentsNext ==
  (TQTypeOK => (IsEmpty <=> Contents = <<>>))'
BY EmptyContents, PTL

(* A new queue.                                                             *)
LEMMA InitTypeOwner ==
  TQInit => TQTypeOK /\ OwnerHeldIffPending
<1> HAVE TQInit
<1>1. /\ m_readBuffer \in Seq(Task \cup {NoTask}) /\ Len(m_readBuffer) = 0
      /\ m_writeBuffer \in Seq(Task)
      /\ m_strongOwnerPtr \in BOOLEAN
  BY EmptySeq DEF TQInit
<1>2. /\ m_index \in 0 .. Len(m_readBuffer)
      /\ \A i \in 1 .. Len(m_readBuffer) : i > m_index => m_readBuffer[i] \in Task
  BY <1>1 DEF TQInit
<1>3. OwnerHeldIffPending
  BY <1>1 DEF TQInit, OwnerHeldIffPending, IsEmpty, ReadBufferIsEmpty
<1> QED
  BY <1>1, <1>2, <1>3 DEF TQTypeOK

-----------------------------------------------------------------------------
(* The invariant: both parts are inductive together.                        *)
TQInv == TQTypeOK /\ OwnerHeldIffPending

(* Every operation of the queue keeps both parts of the invariant.          *)
LEMMA TQInvInductive ==
  ASSUME TQInv, [TQNext]_tqVars
  PROVE  TQInv'
<1> USE DEF TQInv
<1>1. ASSUME NEW t \in Task, Enqueue(t) PROVE TQInv'
  BY <1>1, EnqueueType, EnqueueOwner
<1>2. ASSUME NEW t, TryDequeue(t) PROVE TQInv'
  BY <1>2, TryDequeueType, TryDequeueOwner
<1>3. ASSUME DequeueAll(Contents) PROVE TQInv'
  BY <1>3, DequeueAllType, DequeueAllOwner
<1>4. ASSUME UNCHANGED tqVars PROVE TQInv'
  BY <1>4 DEF tqVars, TQTypeOK, OwnerHeldIffPending, IsEmpty, ReadBufferIsEmpty
<1> QED
  BY <1>1, <1>2, <1>3, <1>4 DEF TQNext

(* The buffers stay well-formed: every slot from m_index on holds a task.   *)
THEOREM TaskQueueTypeCorrect == TQSpec => []TQTypeOK
<1>1. TQInit => TQInv
  BY InitTypeOwner DEF TQInv
<1>2. TQInv /\ [TQNext]_tqVars => TQInv'
  BY TQInvInductive
<1>3. TQInv => TQTypeOK
  BY DEF TQInv
<1> QED
  BY <1>1, <1>2, <1>3, PTL DEF TQSpec

(* The owner is referenced exactly while a task is pending, so the queue    *)
(* neither leaks its QueueService nor lets it go under its tasks.           *)
THEOREM OwnerReferenceExact == TQSpec => []OwnerHeldIffPending
<1>1. TQInit => TQInv
  BY InitTypeOwner DEF TQInv
<1>2. TQInv /\ [TQNext]_tqVars => TQInv'
  BY TQInvInductive
<1>3. TQInv => OwnerHeldIffPending
  BY DEF TQInv
<1> QED
  BY <1>1, <1>2, <1>3, PTL DEF TQSpec

(* Swapping the buffers never shows: the queue is a FIFO.                   *)
THEOREM TaskQueueIsFifo == TQSpec => FifoOrder
<1>1. ASSUME TQTypeOK, [TQNext]_tqVars PROVE [FifoStep]_tqVars
  <2>1. ASSUME NEW t \in Task, Enqueue(t) PROVE FifoStep
    BY <1>1, <2>1, EnqueueAppends DEF FifoStep
  <2>2. ASSUME NEW t, TryDequeue(t) PROVE FifoStep
    BY <1>1, <2>2, TryDequeueType, TryDequeueTakesFirst DEF FifoStep
  <2>3. ASSUME DequeueAll(Contents) PROVE FifoStep
    <3>1. Contents' = <<>>
      BY <1>1, <2>3, DequeueAllType, EmptyContentsNext
    <3> QED
      BY <2>3, <3>1 DEF FifoStep
  <2> QED
    BY <1>1, <2>1, <2>2, <2>3 DEF TQNext
<1> QED
  BY <1>1, TaskQueueTypeCorrect, PTL DEF TQSpec, FifoOrder

-----------------------------------------------------------------------------

(* m_suspendCounter counts the suspensions that have not been resumed.      *)
SuspendExact == m_suspendCounter = Cardinality(guards)

(* A thread that is to call scheduler->Post() owes at least one call.       *)
PostsOwed == \A a \in Thread : call[a] \in {"schedule", "submit"} => toSchedule[a] > 0

ServiceInv == ServiceTypeOK /\ OwnerHeldIffPending /\ SuspendExact /\ PostsOwed

(* The empty read and write buffers hold nothing, and Size counts what they *)
(* hold: Resume schedules no post exactly for an empty queue.               *)
LEMMA SizeOfQueue ==
  ASSUME TQTypeOK
  PROVE  Size \in Nat /\ (Size = 0 <=> IsEmpty)
<1>1. /\ Len(m_readBuffer) \in Nat /\ m_index \in 0 .. Len(m_readBuffer)
      /\ Len(m_writeBuffer) \in Nat
      /\ m_writeBuffer = <<>> <=> Len(m_writeBuffer) = 0
  BY DEF TQTypeOK
<1> QED
  BY <1>1 DEF Size, IsEmpty, ReadBufferIsEmpty

(* Operations that leave the TaskQueue alone.                               *)
LEMMA TaskQueueUnchanged ==
  ASSUME TQTypeOK, OwnerHeldIffPending, UNCHANGED tqVars
  PROVE  TQTypeOK' /\ OwnerHeldIffPending' /\ IsEmpty' = IsEmpty
BY DEF tqVars, TQTypeOK, OwnerHeldIffPending, IsEmpty, ReadBufferIsEmpty

(* A new QueueService satisfies the invariant.                              *)
LEMMA ServiceInitInv ==
  ServiceInit => ServiceInv
<1> HAVE ServiceInit
<1> USE DEF ServiceInit
<1>1. TQTypeOK /\ OwnerHeldIffPending
  BY InitTypeOwner
<1>2. SuspendExact
  BY FS_EmptySet DEF SuspendExact
<1>3. PostsOwed
  BY DEF PostsOwed
<1>4. toCancel \in [Thread -> Seq(Task)] /\ deferred \in [Worker -> Seq(Task)]
  BY EmptySeq
<1>5. ServiceTypeOK
  BY <1>1, <1>4 DEF ServiceTypeOK, CallState, Outcome
<1> QED
  BY <1>1, <1>2, <1>3, <1>5 DEF ServiceInv

(* The caller leaves the lock with n posts to make.                         *)
LEMMA OweSchedulerPostsInv ==
  ASSUME ServiceTypeOK, PostsOwed, NEW a \in Thread, NEW n \in Nat, OweSchedulerPosts(a, n)
  PROVE  /\ toSchedule' \in [Thread -> Nat]
         /\ call' \in [Thread -> CallState]
         /\ PostsOwed'
<1>1. toSchedule' \in [Thread -> Nat]
  BY DEF OweSchedulerPosts, ServiceTypeOK
<1>2. call' \in [Thread -> CallState]
  BY DEF OweSchedulerPosts, ServiceTypeOK, CallState
<1>3. PostsOwed'
  BY DEF OweSchedulerPosts, ServiceTypeOK, PostsOwed
<1> QED
  BY <1>1, <1>2, <1>3

(* Post keeps the invariant: the task is enqueued with the owner held, or   *)
(* canceled, and the caller owes a scheduler post only if it enqueued.      *)
LEMMA PostInv ==
  ASSUME ServiceInv, NEW a \in Thread, NEW t \in Task, Post(a, t)
  PROVE  ServiceInv'
<1> USE DEF ServiceInv
<1>1. outcome' \in [Task -> Outcome]
  BY DEF Post, ServiceTypeOK, Outcome
<1>2. SuspendExact'
  BY DEF Post, SuspendExact
<1>3. CASE m_shutdownAction # "none"
  <2>1. UNCHANGED tqVars /\ UNCHANGED <<toSchedule, call>>
    BY <1>3 DEF Post
  <2>2. TQTypeOK' /\ OwnerHeldIffPending'
    BY <2>1, TaskQueueUnchanged DEF ServiceTypeOK
  <2>3. PostsOwed'
    BY <2>1 DEF PostsOwed
  <2> QED
    BY <1>1, <1>2, <2>1, <2>2, <2>3 DEF Post, ServiceTypeOK
<1>4. CASE m_shutdownAction = "none"
  <2>1. Enqueue(t) /\ OweSchedulerPosts(a, IF m_suspendCounter = 0 THEN 1 ELSE 0)
    BY <1>4 DEF Post
  <2>2. TQTypeOK' /\ OwnerHeldIffPending'
    BY <2>1, EnqueueType, EnqueueOwner DEF ServiceTypeOK
  <2>3. toSchedule' \in [Thread -> Nat] /\ call' \in [Thread -> CallState] /\ PostsOwed'
    BY <2>1, OweSchedulerPostsInv
  <2> QED
    BY <1>1, <1>2, <2>2, <2>3 DEF Post, ServiceTypeOK
<1> QED
  BY <1>3, <1>4

(* A task invoked in place changes nothing but its own outcome.             *)
LEMMA InvokeInPlaceInv ==
  ASSUME ServiceInv, NEW w \in Worker, NEW t \in Task, InvokeInPlace(w, t)
  PROVE  ServiceInv'
<1> USE DEF ServiceInv
<1>1. TQTypeOK' /\ OwnerHeldIffPending'
  BY TaskQueueUnchanged DEF ServiceTypeOK, InvokeInPlace
<1>2. outcome' \in [Task -> Outcome]
  BY DEF InvokeInPlace, ServiceTypeOK, Outcome
<1> QED
  BY <1>1, <1>2 DEF InvokeInPlace, ServiceTypeOK, SuspendExact, PostsOwed

(* DeferElsePost keeps the invariant.                                       *)
LEMMA DeferInv ==
  ASSUME ServiceInv, NEW w \in Worker, NEW t \in Task, Defer(w, t)
  PROVE  ServiceInv'
<1> USE DEF ServiceInv
<1>1. TQTypeOK' /\ OwnerHeldIffPending'
  BY TaskQueueUnchanged DEF ServiceTypeOK, Defer
<1>2. outcome' \in [Task -> Outcome]
  BY DEF Defer, ServiceTypeOK, Outcome
<1>3. deferred' \in [Worker -> Seq(Task)]
  <2>1. Append(deferred[w], t) \in Seq(Task)
    BY DEF ServiceTypeOK
  <2> QED
    BY <2>1 DEF Defer, ServiceTypeOK
<1> QED
  BY <1>1, <1>2, <1>3 DEF Defer, ServiceTypeOK, SuspendExact, PostsOwed

(* Suspend keeps the counter equal to the number of guards.                 *)
LEMMA SuspendInv ==
  ASSUME ServiceInv, NEW c \in Client, Suspend(c)
  PROVE  ServiceInv'
<1> USE DEF ServiceInv
<1>1. TQTypeOK' /\ OwnerHeldIffPending'
  BY TaskQueueUnchanged DEF ServiceTypeOK, Suspend
<1>2. IsFiniteSet(guards) /\ c \notin guards
  BY ThreadAssumption, FS_Subset DEF ServiceTypeOK, Suspend
<1>3. SuspendExact'
  BY <1>2, FS_AddElement DEF Suspend, SuspendExact
<1> QED
  BY <1>1, <1>3 DEF Suspend, ServiceTypeOK, PostsOwed

(* Resume keeps the counter equal to the number of guards, so its           *)
(* VerifyElseCrash never fails, and owes one post per pending task.         *)
LEMMA ResumeInv ==
  ASSUME ServiceInv, NEW c \in Client, Resume(c)
  PROVE  ServiceInv'
<1> USE DEF ServiceInv
<1>1. TQTypeOK' /\ OwnerHeldIffPending'
  BY TaskQueueUnchanged DEF ServiceTypeOK, Resume
<1>2. IsFiniteSet(guards) /\ c \in guards
  BY ThreadAssumption, FS_Subset DEF ServiceTypeOK, Resume
<1>3. SuspendExact' /\ m_suspendCounter' \in Nat
  <2>1. Cardinality(guards \ {c}) = Cardinality(guards) - 1 /\ IsFiniteSet(guards \ {c})
    BY <1>2, FS_RemoveElement
  <2>2. Cardinality(guards \ {c}) \in Nat
    BY <2>1, FS_CardinalityType
  <2> QED
    BY <2>1, <2>2 DEF Resume, SuspendExact
<1>4. toSchedule' \in [Thread -> Nat] /\ call' \in [Thread -> CallState] /\ PostsOwed'
  <2>1. c \in Thread /\ (IF m_suspendCounter = 1 THEN Size ELSE 0) \in Nat
    BY SizeOfQueue DEF ServiceTypeOK, Thread
  <2> QED
    BY <2>1, OweSchedulerPostsInv DEF Resume
<1> QED
  BY <1>1, <1>3, <1>4 DEF Resume, ServiceTypeOK

(* The locked section of Shutdown keeps the invariant, with the queue       *)
(* emptied or left alone.                                                   *)
LEMMA BeginShutdownInv ==
  ASSUME ServiceInv, NEW a \in Thread, NEW action \in {"complete", "cancel"},
         NEW next \in {"shutdown", "terminate"}, BeginShutdown(a, action, next)
  PROVE  ServiceInv'
<1> USE DEF ServiceInv
<1>1. call' \in [Thread -> CallState] /\ m_shutdownAction' \in {"none", "complete", "cancel"}
  BY DEF BeginShutdown, ServiceTypeOK, CallState
<1>2. SuspendExact' /\ PostsOwed'
  BY DEF BeginShutdown, ServiceTypeOK, SuspendExact, PostsOwed
<1>3. CASE action = "cancel"
  <2>1. TQTypeOK' /\ OwnerHeldIffPending'
    BY <1>3, DequeueAllType, DequeueAllOwner DEF BeginShutdown, ServiceTypeOK
  <2>2. toCancel' \in [Thread -> Seq(Task)]
    BY <1>3, ContentsType DEF BeginShutdown, ServiceTypeOK
  <2>3. outcome' \in [Task -> Outcome]
    BY <1>3 DEF BeginShutdown, ServiceTypeOK, Outcome
  <2> QED
    BY <1>1, <1>2, <2>1, <2>2, <2>3 DEF BeginShutdown, ServiceTypeOK
<1>4. CASE action # "cancel"
  <2>1. TQTypeOK' /\ OwnerHeldIffPending'
    BY <1>4, TaskQueueUnchanged DEF BeginShutdown, ServiceTypeOK
  <2> QED
    BY <1>1, <1>2, <1>4, <2>1 DEF BeginShutdown, ServiceTypeOK
<1> QED
  BY <1>3, <1>4

(* Canceling one of the tasks that Shutdown took keeps the invariant.       *)
LEMMA CancelTaskInv ==
  ASSUME ServiceInv, NEW a \in Thread, CancelTask(a)
  PROVE  ServiceInv'
<1> USE DEF ServiceInv
<1>1. TQTypeOK' /\ OwnerHeldIffPending'
  BY TaskQueueUnchanged DEF ServiceTypeOK, CancelTask
<1>2. toCancel[a] \in Seq(Task) /\ toCancel[a] # <<>>
  BY DEF ServiceTypeOK, CancelTask
<1>3. Tail(toCancel[a]) \in Seq(Task)
  BY <1>2, HeadTailProperties
<1>4. toCancel' \in [Thread -> Seq(Task)]
  BY <1>3 DEF ServiceTypeOK, CancelTask
<1>5. outcome' \in [Task -> Outcome]
  BY DEF CancelTask, ServiceTypeOK, Outcome
<1> QED
  BY <1>1, <1>4, <1>5 DEF CancelTask, ServiceTypeOK, SuspendExact, PostsOwed

(* TryDequeTask keeps the invariant and starts a real task.                 *)
LEMMA TryDequeTaskInv ==
  ASSUME ServiceInv, NEW w \in Worker, NEW t \in Task, TryDequeTask(w, t)
  PROVE  ServiceInv'
<1> USE DEF ServiceInv
<1>1. TQTypeOK' /\ OwnerHeldIffPending'
  BY TryDequeueType, TryDequeueOwner DEF ServiceTypeOK, TryDequeTask
<1>2. outcome' \in [Task -> Outcome] /\ running' \in [Worker -> Task \cup {NoTask}]
  BY DEF TryDequeTask, ServiceTypeOK, Outcome
<1> QED
  BY <1>1, <1>2 DEF TryDequeTask, ServiceTypeOK, SuspendExact, PostsOwed

(* The end of a task, with or without a deferred one to follow, keeps the   *)
(* invariant.                                                               *)
LEMMA InvokeTaskStepInv ==
  ASSUME ServiceInv, NEW w \in Worker, InvokeTaskStep(w)
  PROVE  ServiceInv'
<1> USE DEF ServiceInv
<1>1. TQTypeOK' /\ OwnerHeldIffPending'
  BY TaskQueueUnchanged DEF ServiceTypeOK, InvokeTaskStep
<1>2. deferred[w] \in Seq(Task)
  BY DEF ServiceTypeOK
<1>3. deferred[w] # <<>> => Head(deferred[w]) \in Task /\ Tail(deferred[w]) \in Seq(Task)
  BY <1>2, HeadTailProperties
<1>4. running' \in [Worker -> Task \cup {NoTask}]
  BY <1>3 DEF InvokeTaskStep, ServiceTypeOK
<1>5. deferred' \in [Worker -> Seq(Task)]
  BY <1>2, <1>3 DEF InvokeTaskStep, ServiceTypeOK
<1>6. outcome' \in [Task -> Outcome]
  BY DEF InvokeTaskStep, ServiceTypeOK, Outcome
<1> QED
  BY <1>1, <1>4, <1>5, <1>6 DEF InvokeTaskStep, ServiceTypeOK, SuspendExact, PostsOwed

-----------------------------------------------------------------------------
(* Where the tasks are *)

(* The sequences F[x], for x in D, hold exactly the tasks whose outcome in  *)
(* o is s, each of them once.                                               *)
Holds(F, D, o, s) ==
  /\ \A x \in D : \A i \in DOMAIN F[x] : o[F[x][i]] = s
  /\ \A x, y \in D : \A i \in DOMAIN F[x], j \in DOMAIN F[y] :
       F[x][i] = F[y][j] => x = y /\ i = j
  /\ \A t \in Task : o[t] = s => \E x \in D : \E i \in DOMAIN F[x] : F[x][i] = t

(* A single sequence as such a family.                                      *)
Only(q) == [x \in {1} |-> q]

(* The started tasks are the running ones, each in one worker.              *)
RunningExact ==
  /\ \A w \in Worker : running[w] # NoTask => outcome[running[w]] = "started"
  /\ \A v, w \in Worker : running[v] = running[w] /\ running[w] # NoTask => v = w
  /\ \A t \in Task : outcome[t] = "started" => \E w \in Worker : running[w] = t

(* Every task that was accepted and has not ended is in exactly one place:  *)
(* the TaskQueue, a worker, the deferred tasks of a running one, or the     *)
(* tasks a thread that is in Shutdown has yet to cancel.                    *)
TaskPlaces ==
  /\ Holds(Only(Contents), {1}, outcome, "queued")
  /\ Holds(deferred, Worker, outcome, "deferred")
  /\ Holds(toCancel, Thread, outcome, "taken")
  /\ RunningExact
  /\ \A w \in Worker : deferred[w] # <<>> => running[w] # NoTask
  /\ \A a \in Thread : toCancel[a] # <<>> => call[a] = "shutdown"

(* Outcomes other than s may change.                                        *)
LEMMA HoldsKept ==
  ASSUME NEW D, NEW F \in [D -> Seq(Task)], NEW o, NEW p, NEW s, Holds(F, D, o, s),
         \A t \in Task : p[t] = s <=> o[t] = s
  PROVE  Holds(F, D, p, s)
<1>1. \A x \in D : \A i \in DOMAIN F[x] : F[x][i] \in Task
  OBVIOUS
<1> QED
  BY <1>1 DEF Holds

(* A task may be added at the end of a sequence.                            *)
LEMMA HoldsAppend ==
  ASSUME NEW D, NEW F \in [D -> Seq(Task)], NEW o, NEW p, NEW s, Holds(F, D, o, s),
         NEW d \in D, NEW t \in Task, o[t] # s,
         \A u \in Task : p[u] = s <=> o[u] = s \/ u = t
  PROVE  Holds([F EXCEPT ![d] = Append(F[d], t)], D, p, s)
<1> DEFINE G == [F EXCEPT ![d] = Append(F[d], t)]
           n == Len(F[d])
<1>1. /\ n \in Nat /\ DOMAIN F[d] = 1 .. n /\ DOMAIN G[d] = 1 .. (n + 1)
      /\ G[d][n + 1] = t /\ \A i \in 1 .. n : G[d][i] = F[d][i]
  OBVIOUS
<1>2. \A x \in D : x # d => G[x] = F[x]
  OBVIOUS
<1>3. \A x \in D : \A i \in DOMAIN F[x] : F[x][i] \in Task /\ o[F[x][i]] = s /\ F[x][i] # t
  BY DEF Holds
<1>4. \A x \in D : \A i \in DOMAIN G[x] :
        \/ i \in DOMAIN F[x] /\ G[x][i] = F[x][i]
        \/ x = d /\ i = n + 1 /\ G[x][i] = t
  BY <1>1, <1>2
<1>5. \A x \in D : \A i \in DOMAIN F[x] : i \in DOMAIN G[x] /\ G[x][i] = F[x][i]
  BY <1>1, <1>2
<1> HIDE DEF G, n
<1>6. \A x \in D : \A i \in DOMAIN G[x] : p[G[x][i]] = s
  BY <1>3, <1>4
<1>7. \A x, y \in D : \A i \in DOMAIN G[x], j \in DOMAIN G[y] :
        G[x][i] = G[y][j] => x = y /\ i = j
  BY <1>3, <1>4 DEF Holds
<1>8. ASSUME NEW u \in Task, p[u] = s PROVE \E x \in D : \E i \in DOMAIN G[x] : G[x][i] = u
  <2>1. CASE u = t
    <3>1. n + 1 \in DOMAIN G[d] /\ G[d][n + 1] = t BY <1>1
    <3> QED BY <2>1, <3>1
  <2>2. CASE u # t
    <3>1. PICK x \in D : \E i \in DOMAIN F[x] : F[x][i] = u BY <1>8, <2>2 DEF Holds
    <3> QED BY <1>5, <3>1
  <2> QED BY <2>1, <2>2
<1> QED
  BY <1>6, <1>7, <1>8 DEF Holds, G

(* The first task of a sequence may be taken away.                          *)
LEMMA HoldsTail ==
  ASSUME NEW D, NEW F \in [D -> Seq(Task)], NEW o, NEW p, NEW s, Holds(F, D, o, s),
         NEW d \in D, F[d] # <<>>,
         \A u \in Task : p[u] = s <=> o[u] = s /\ u # Head(F[d])
  PROVE  Holds([F EXCEPT ![d] = Tail(F[d])], D, p, s)
<1> DEFINE G == [F EXCEPT ![d] = Tail(F[d])]
           n == Len(F[d])
<1>1. /\ n \in Nat /\ n > 0 /\ DOMAIN F[d] = 1 .. n /\ DOMAIN G[d] = 1 .. (n - 1)
      /\ Head(F[d]) = F[d][1]
      /\ \A i \in 1 .. (n - 1) : G[d][i] = F[d][i + 1] /\ i + 1 \in 1 .. n /\ i + 1 # 1
  OBVIOUS
<1>2. \A x \in D : x # d => G[x] = F[x]
  OBVIOUS
<1>3. \A x \in D : \A i \in DOMAIN F[x] : F[x][i] \in Task /\ o[F[x][i]] = s
  BY DEF Holds
<1>4. \A x \in D : \A i \in DOMAIN G[x] :
        \E k \in DOMAIN F[x] : /\ G[x][i] = F[x][k] /\ (x = d => k # 1)
                               /\ k = IF x = d THEN i + 1 ELSE i
  BY <1>1, <1>2
<1>5. \A x \in D : \A i \in DOMAIN F[x] : (x = d /\ i = 1) \/ \E k \in DOMAIN G[x] : G[x][k] = F[x][i]
  <2> SUFFICES ASSUME NEW x \in D, NEW i \in DOMAIN F[x], ~(x = d /\ i = 1)
               PROVE  \E k \in DOMAIN G[x] : G[x][k] = F[x][i]
    OBVIOUS
  <2>1. CASE x = d
    <3>1. i - 1 \in DOMAIN G[x] /\ (i - 1) + 1 = i BY <1>1, <2>1
    <3> QED BY <1>1, <2>1, <3>1
  <2>2. CASE x # d BY <1>2, <2>2
  <2> QED BY <2>1, <2>2
<1>a. \A x \in D : \A i \in DOMAIN G[x] : i \in Int
  BY <1>1, <1>2
<1> HIDE DEF G, n
<1>6. ASSUME NEW x \in D, NEW i \in DOMAIN G[x] PROVE p[G[x][i]] = s
  <2>1. PICK k \in DOMAIN F[x] : G[x][i] = F[x][k] /\ (x = d => k # 1) BY <1>4
  <2>2. 1 \in DOMAIN F[d] BY <1>1
  <2>3. F[x][k] # F[d][1] BY <2>1, <2>2 DEF Holds
  <2> QED BY <1>1, <1>3, <2>1, <2>3
<1>7. ASSUME NEW x \in D, NEW y \in D, NEW i \in DOMAIN G[x], NEW j \in DOMAIN G[y], G[x][i] = G[y][j]
      PROVE  x = y /\ i = j
  <2>1. PICK k \in DOMAIN F[x] : G[x][i] = F[x][k] /\ k = IF x = d THEN i + 1 ELSE i BY <1>4
  <2>2. PICK l \in DOMAIN F[y] : G[y][j] = F[y][l] /\ l = IF y = d THEN j + 1 ELSE j BY <1>4
  <2>a. F[x][k] = F[y][l] BY <1>7, <2>1, <2>2
  <2>3. x = y /\ k = l BY <2>a DEF Holds
  <2> QED BY <1>a, <2>1, <2>2, <2>3
<1>8. ASSUME NEW u \in Task, p[u] = s PROVE \E x \in D : \E i \in DOMAIN G[x] : G[x][i] = u
  <2>1. PICK x \in D : \E i \in DOMAIN F[x] : F[x][i] = u BY <1>8 DEF Holds
  <2>2. PICK i \in DOMAIN F[x] : F[x][i] = u BY <2>1
  <2>3. ~(x = d /\ i = 1) BY <1>1, <1>8, <2>2
  <2> QED BY <1>5, <2>2, <2>3
<1> QED
  BY <1>6, <1>7, <1>8 DEF Holds, G

(* All the queued tasks may be moved to an empty sequence of taken ones.    *)
LEMMA HoldsMoved ==
  ASSUME NEW D, NEW F \in [D -> Seq(Task)], NEW q \in Seq(Task), NEW o, NEW p,
         Holds(F, D, o, "taken"),
         \A i \in DOMAIN q : o[q[i]] = "queued",
         \A i, j \in DOMAIN q : q[i] = q[j] => i = j,
         \A u \in Task : o[u] = "queued" => \E i \in DOMAIN q : q[i] = u,
         NEW d \in D, F[d] = <<>>,
         \A u \in Task : (p[u] = "taken" <=> o[u] \in {"queued", "taken"}) /\ p[u] # "queued"
  PROVE  Holds([F EXCEPT ![d] = q], D, p, "taken")
<1> DEFINE G == [F EXCEPT ![d] = q]
<1>1. /\ \A i \in DOMAIN q : q[i] \in Task /\ o[q[i]] = "queued"
      /\ \A i, j \in DOMAIN q : q[i] = q[j] => i = j
      /\ \A u \in Task : o[u] = "queued" => \E i \in DOMAIN q : q[i] = u
  OBVIOUS
<1>2. \A x \in D : \A i \in DOMAIN F[x] : F[x][i] \in Task /\ o[F[x][i]] = "taken" /\ x # d
  BY DEF Holds
<1>3. G[d] = q /\ \A x \in D : x # d => G[x] = F[x]
  OBVIOUS
<1> HIDE DEF G
<1>4. \A x \in D : \A i \in DOMAIN G[x] : p[G[x][i]] = "taken"
  BY <1>1, <1>2, <1>3
<1>5. ASSUME NEW x \in D, NEW y \in D, NEW i \in DOMAIN G[x], NEW j \in DOMAIN G[y], G[x][i] = G[y][j]
      PROVE  x = y /\ i = j
  <2>1. CASE x = d /\ y = d BY <1>1, <1>3, <1>5, <2>1
  <2>2. CASE x = d /\ y # d
    <3>1. o[G[x][i]] = "queued" BY <1>1, <1>3, <2>2
    <3>2. o[G[y][j]] = "taken" BY <1>2, <1>3, <2>2
    <3> QED BY <1>5, <3>1, <3>2
  <2>3. CASE x # d /\ y = d
    <3>1. o[G[x][i]] = "taken" BY <1>2, <1>3, <2>3
    <3>2. o[G[y][j]] = "queued" BY <1>1, <1>3, <2>3
    <3> QED BY <1>5, <3>1, <3>2
  <2>4. CASE x # d /\ y # d BY <1>3, <1>5, <2>4 DEF Holds
  <2> QED BY <2>1, <2>2, <2>3, <2>4
<1>6. ASSUME NEW u \in Task, p[u] = "taken" PROVE \E x \in D : \E i \in DOMAIN G[x] : G[x][i] = u
  <2>1. CASE o[u] = "queued"
    <3>1. PICK i \in DOMAIN q : q[i] = u BY <1>1, <2>1
    <3> QED BY <1>3, <3>1
  <2>2. CASE o[u] # "queued"
    <3>1. o[u] = "taken" BY <1>6, <2>2
    <3>2. PICK x \in D : \E i \in DOMAIN F[x] : F[x][i] = u BY <3>1 DEF Holds
    <3>3. x # d BY <1>2, <3>2
    <3> QED BY <1>3, <3>2, <3>3
  <2> QED BY <2>1, <2>2
<1> QED
  BY <1>4, <1>5, <1>6 DEF Holds, G

(* Empty sequences hold nothing.                                            *)
LEMMA HoldsNothing ==
  ASSUME NEW D, NEW F, NEW o, NEW s, Holds(F, D, o, s), \A x \in D : F[x] = <<>>
  PROVE  \A t \in Task : o[t] # s
<1>1. \A x \in D : DOMAIN F[x] = {}
  OBVIOUS
<1> QED
  BY <1>1 DEF Holds

(* What the operations need of the types.                                   *)
LEMMA PlaceTypes ==
  ASSUME ServiceTypeOK
  PROVE  /\ TQTypeOK /\ Contents \in Seq(Task) /\ Only(Contents) \in [{1} -> Seq(Task)]
         /\ deferred \in [Worker -> Seq(Task)] /\ toCancel \in [Thread -> Seq(Task)]
         /\ running \in [Worker -> Task \cup {NoTask}] /\ outcome \in [Task -> Outcome]
         /\ call \in [Thread -> CallState]
BY ContentsType DEF ServiceTypeOK, Only

LEMMA SameContents ==
  ASSUME UNCHANGED tqVars
  PROVE  Contents' = Contents
BY DEF tqVars, Contents, ReadBufferRest

(* Steps that move no task.                                                 *)
LEMMA PlacesKept ==
  ASSUME ServiceTypeOK, TaskPlaces, UNCHANGED <<tqVars, running, deferred, toCancel, outcome>>,
         \A a \in Thread : call[a] = "shutdown" => call'[a] = "shutdown" \/ toCancel[a] = <<>>
  PROVE  TaskPlaces'
<1>1. Contents' = Contents
  BY SameContents
<1> QED
  BY <1>1 DEF TaskPlaces, RunningExact, Holds, Only

LEMMA PostPlaces ==
  ASSUME ServiceTypeOK, TaskPlaces, NEW a \in Thread, NEW t \in Task, Post(a, t)
  PROVE  TaskPlaces'
<1> USE PlaceTypes
<1>0. outcome[t] = "new" /\ call[a] = "none" /\ UNCHANGED <<running, deferred, toCancel>>
  BY DEF Post, CanCall
<1>1. \A b \in Thread : toCancel'[b] # <<>> => call'[b] = "shutdown"
  BY <1>0 DEF Post, TaskPlaces, OweSchedulerPosts
<1>2. CASE m_shutdownAction # "none"
  <2>1. outcome' = [outcome EXCEPT ![t] = "canceled"] /\ Contents' = Contents
    BY <1>2, SameContents DEF Post
  <2>2. \A s \in {"queued", "deferred", "taken", "started"} : \A u \in Task : outcome'[u] = s <=> outcome[u] = s
    BY <1>0, <2>1
  <2>3. Holds(Only(Contents), {1}, outcome', "queued")
    BY <2>2, HoldsKept DEF TaskPlaces
  <2>4. Holds(deferred, Worker, outcome', "deferred") /\ Holds(toCancel, Thread, outcome', "taken")
    BY <2>2, HoldsKept DEF TaskPlaces
  <2>5. RunningExact'
    BY <1>0, <2>2 DEF RunningExact, TaskPlaces
  <2> QED
    BY <1>0, <1>1, <2>1, <2>3, <2>4, <2>5 DEF TaskPlaces
<1>3. CASE m_shutdownAction = "none"
  <2>1. outcome' = [outcome EXCEPT ![t] = "queued"] /\ Contents' = Append(Contents, t)
    BY <1>3, EnqueueAppends DEF Post
  <2>2. \A s \in {"deferred", "taken", "started"} : \A u \in Task : outcome'[u] = s <=> outcome[u] = s
    BY <1>0, <2>1
  <2>3. Holds(Only(Contents'), {1}, outcome', "queued")
    <3>1. Only(Contents') = [Only(Contents) EXCEPT ![1] = Append(Only(Contents)[1], t)]
      BY <2>1 DEF Only
    <3>a. Holds(Only(Contents), {1}, outcome, "queued") /\ Only(Contents) \in [{1} -> Seq(Task)]
      BY DEF TaskPlaces
    <3>b. outcome[t] # "queued" /\ 1 \in {1}
      BY <1>0
    <3>2. \A u \in Task : outcome'[u] = "queued" <=> outcome[u] = "queued" \/ u = t
      BY <2>1
    <3> QED
      <4>1. Holds([Only(Contents) EXCEPT ![1] = Append(Only(Contents)[1], t)], {1}, outcome', "queued")
        BY <3>2, <3>a, <3>b, HoldsAppend
      <4> QED
        BY <3>1, <4>1
  <2>4. Holds(deferred, Worker, outcome', "deferred") /\ Holds(toCancel, Thread, outcome', "taken")
    BY <2>2, HoldsKept DEF TaskPlaces
  <2>5. RunningExact'
    BY <1>0, <2>2 DEF RunningExact, TaskPlaces
  <2> QED
    BY <1>0, <1>1, <2>1, <2>3, <2>4, <2>5 DEF TaskPlaces
<1> QED
  BY <1>2, <1>3

LEMMA InvokeInPlacePlaces ==
  ASSUME ServiceTypeOK, TaskPlaces, NEW w \in Worker, NEW t \in Task, InvokeInPlace(w, t)
  PROVE  TaskPlaces'
<1> USE PlaceTypes
<1>1. /\ Contents' = Contents /\ UNCHANGED <<running, deferred, toCancel, call>>
      /\ outcome[t] = "new" /\ outcome' = [outcome EXCEPT ![t] = "invoked"]
  BY SameContents DEF InvokeInPlace
<1>2. \A s \in {"queued", "deferred", "taken", "started"} : \A u \in Task : outcome'[u] = s <=> outcome[u] = s
  BY <1>1
<1>3. /\ Holds(Only(Contents), {1}, outcome', "queued")
      /\ Holds(deferred, Worker, outcome', "deferred") /\ Holds(toCancel, Thread, outcome', "taken")
  BY <1>2, HoldsKept DEF TaskPlaces
<1>4. RunningExact'
  BY <1>1, <1>2 DEF RunningExact, TaskPlaces
<1> QED
  BY <1>1, <1>3, <1>4 DEF TaskPlaces

LEMMA DeferPlaces ==
  ASSUME ServiceTypeOK, TaskPlaces, NEW w \in Worker, NEW t \in Task, Defer(w, t), running[w] # NoTask
  PROVE  TaskPlaces'
<1> USE PlaceTypes
<1>1. /\ Contents' = Contents /\ UNCHANGED <<running, toCancel, call>>
      /\ deferred' = [deferred EXCEPT ![w] = Append(deferred[w], t)]
      /\ outcome[t] = "new" /\ outcome' = [outcome EXCEPT ![t] = "deferred"]
  BY SameContents DEF Defer
<1>2. \A s \in {"queued", "taken", "started"} : \A u \in Task : outcome'[u] = s <=> outcome[u] = s
  BY <1>1
<1>3. /\ Holds(Only(Contents), {1}, outcome', "queued") /\ Holds(toCancel, Thread, outcome', "taken")
  BY <1>2, HoldsKept DEF TaskPlaces
<1>4. Holds(deferred', Worker, outcome', "deferred")
  <2>1. \A u \in Task : outcome'[u] = "deferred" <=> outcome[u] = "deferred" \/ u = t
    BY <1>1
  <2> QED
    BY <1>1, <2>1, HoldsAppend DEF TaskPlaces
<1>5. RunningExact'
  BY <1>1, <1>2 DEF RunningExact, TaskPlaces
<1>6. \A v \in Worker : deferred'[v] # <<>> => running'[v] # NoTask
  BY <1>1 DEF TaskPlaces
<1> QED
  BY <1>1, <1>3, <1>4, <1>5, <1>6 DEF TaskPlaces

(* DequeueAll leaves nothing in the queue.                                  *)
LEMMA DequeueAllEmpties ==
  ASSUME TQTypeOK, DequeueAll(Contents)
  PROVE  Contents' = <<>>
<1>1. TQTypeOK'
  BY DequeueAllType
<1>2. IsEmpty'
  BY DEF DequeueAll, IsEmpty, ReadBufferIsEmpty, tqVars
<1> QED
  BY <1>1, <1>2, EmptyContentsNext

(* Shutdown(Cancel) moves the whole queue to the thread that called it.     *)
LEMMA TakeAllPlaces ==
  ASSUME ServiceTypeOK, TaskPlaces, NEW a \in Thread, toCancel[a] = <<>>, DequeueAll(Contents),
         toCancel' = [toCancel EXCEPT ![a] = Contents],
         outcome' = [t \in Task |-> IF outcome[t] = "queued" THEN "taken" ELSE outcome[t]],
         call' = [call EXCEPT ![a] = "shutdown"], UNCHANGED <<running, deferred>>
  PROVE  TaskPlaces'
<1> USE PlaceTypes
<1>1. Contents' = <<>>
  BY DequeueAllType, DequeueAllEmpties
<1>2. \A s \in {"deferred", "started"} : \A u \in Task : outcome'[u] = s <=> outcome[u] = s
  OBVIOUS
<1>3. Holds(deferred, Worker, outcome', "deferred")
  BY <1>2, HoldsKept DEF TaskPlaces
<1>4. Holds(toCancel', Thread, outcome', "taken") /\ Holds(Only(<<>>), {1}, outcome', "queued")
  <2>1. \A u \in Task : /\ outcome'[u] = "taken" <=> outcome[u] \in {"queued", "taken"}
                          /\ outcome'[u] # "queued"
    OBVIOUS
  <2>2. /\ Holds(toCancel, Thread, outcome, "taken")
        /\ toCancel \in [Thread -> Seq(Task)] /\ Contents \in Seq(Task) /\ "queued" # "taken"
    BY DEF TaskPlaces
  <2>3. /\ \A i \in DOMAIN Contents : outcome[Contents[i]] = "queued"
        /\ \A i, j \in DOMAIN Contents : Contents[i] = Contents[j] => i = j
        /\ \A u \in Task : outcome[u] = "queued" => \E i \in DOMAIN Contents : Contents[i] = u
    BY DEF TaskPlaces, Holds, Only
  <2> QED
    <3>1. Holds([toCancel EXCEPT ![a] = Contents], Thread, outcome', "taken")
      BY <2>1, <2>2, <2>3, HoldsMoved
    <3>2. Holds(Only(<<>>), {1}, outcome', "queued")
      BY <2>1 DEF Holds, Only
    <3> QED
      BY <3>1, <3>2
<1>5. RunningExact'
  BY <1>2 DEF RunningExact, TaskPlaces
<1>6. \A b \in Thread : toCancel'[b] # <<>> => call'[b] = "shutdown"
  BY DEF TaskPlaces
<1> QED
  BY <1>1, <1>3, <1>4, <1>5, <1>6 DEF TaskPlaces

LEMMA BeginShutdownPlaces ==
  ASSUME ServiceTypeOK, TaskPlaces, NEW a \in Thread, NEW action \in {"complete", "cancel"},
         NEW next \in {"shutdown", "terminate"}, BeginShutdown(a, action, next),
         action = "cancel" => next = "shutdown"
  PROVE  TaskPlaces'
<1>0. call[a] = "none" /\ toCancel[a] = <<>> /\ call' = [call EXCEPT ![a] = next]
  BY DEF BeginShutdown, CanCall, TaskPlaces
<1>1. CASE action = "cancel"
  BY <1>0, <1>1, TakeAllPlaces DEF BeginShutdown
<1>2. CASE action # "cancel"
  <2>1. UNCHANGED <<tqVars, running, deferred, toCancel, outcome>>
    BY <1>2 DEF BeginShutdown
  <2> QED
    BY <1>0, <2>1, PlaceTypes, PlacesKept
<1> QED
  BY <1>1, <1>2

LEMMA CancelTaskPlaces ==
  ASSUME ServiceTypeOK, TaskPlaces, NEW a \in Thread, CancelTask(a)
  PROVE  TaskPlaces'
<1> USE PlaceTypes
<1> DEFINE t == Head(toCancel[a])
<1>1. /\ toCancel[a] # <<>> /\ Contents' = Contents /\ UNCHANGED <<running, deferred, call>>
      /\ toCancel' = [toCancel EXCEPT ![a] = Tail(toCancel[a])]
      /\ outcome' = [outcome EXCEPT ![t] = "canceled"]
  BY SameContents DEF CancelTask
<1>2. t \in Task /\ 1 \in DOMAIN toCancel[a] /\ t = toCancel[a][1]
  BY <1>1
<1>3. outcome[t] = "taken"
  BY <1>2 DEF TaskPlaces, Holds
<1> HIDE DEF t
<1>4. \A s \in {"queued", "deferred", "started"} : \A u \in Task : outcome'[u] = s <=> outcome[u] = s
  BY <1>1, <1>2, <1>3
<1>5. Holds(Only(Contents), {1}, outcome', "queued") /\ Holds(deferred, Worker, outcome', "deferred")
  BY <1>4, HoldsKept DEF TaskPlaces
<1>6. Holds(toCancel', Thread, outcome', "taken")
  <2>1. \A u \in Task : outcome'[u] = "taken" <=> outcome[u] = "taken" /\ u # Head(toCancel[a])
    BY <1>1, <1>2, <1>3 DEF t
  <2> QED
    BY <1>1, <2>1, HoldsTail DEF TaskPlaces
<1>7. RunningExact'
  BY <1>1, <1>4 DEF RunningExact, TaskPlaces
<1>8. \A b \in Thread : toCancel'[b] # <<>> => call'[b] = "shutdown"
  BY <1>1 DEF TaskPlaces
<1> QED
  BY <1>1, <1>5, <1>6, <1>7, <1>8 DEF TaskPlaces

(* The first task of the queue starts in a worker that was not running one. *)
LEMMA TryDequeTaskPlaces ==
  ASSUME ServiceTypeOK, TaskPlaces, NEW w \in Worker, NEW t \in Task, TryDequeTask(w, t),
         running[w] = NoTask
  PROVE  TaskPlaces' /\ Contents # <<>> /\ t = Head(Contents) /\ Contents' = Tail(Contents)
                     /\ outcome[t] = "queued"
<1> USE PlaceTypes
<1>1. /\ running' = [running EXCEPT ![w] = t] /\ outcome' = [outcome EXCEPT ![t] = "started"]
      /\ UNCHANGED <<call, toCancel, deferred>>
  BY DEF TryDequeTask
<1>2. Contents # <<>> /\ t = Head(Contents) /\ Contents' = Tail(Contents)
  <2>1. TryDequeue(t) BY DEF TryDequeTask
  <2>2. Contents = <<t>> \o Contents' BY <2>1, TryDequeueTakesFirst
  <2>3. TQTypeOK' BY <2>1, TryDequeueType
  <2>4. Contents' \in Seq(Task) BY <2>3, ContentsTypeNext
  <2> QED BY <2>2, <2>4
<1>3. outcome[t] = "queued"
  <2>1. 1 \in DOMAIN Contents /\ Contents[1] = t BY <1>2
  <2> QED BY <2>1 DEF TaskPlaces, Holds, Only
<1>4. \A s \in {"taken", "deferred"} : \A u \in Task : outcome'[u] = s <=> outcome[u] = s
  BY <1>1, <1>3
<1>5. Holds(toCancel, Thread, outcome', "taken") /\ Holds(deferred, Worker, outcome', "deferred")
  BY <1>4, HoldsKept DEF TaskPlaces
<1>6. Holds(Only(Contents'), {1}, outcome', "queued")
  <2>1. Only(Contents') = [Only(Contents) EXCEPT ![1] = Tail(Only(Contents)[1])] /\ Only(Contents)[1] = Contents
    BY <1>2 DEF Only
  <2>2. \A u \in Task : outcome'[u] = "queued" <=> outcome[u] = "queued" /\ u # Head(Contents)
    BY <1>1, <1>2
  <2>3. /\ Holds(Only(Contents), {1}, outcome, "queued") /\ Only(Contents) \in [{1} -> Seq(Task)]
        /\ 1 \in {1}
    BY DEF TaskPlaces
  <2> QED
    <3>1. Only(Contents)[1] # <<>> /\ \A u \in Task : outcome'[u] = "queued" <=> outcome[u] = "queued" /\ u # Head(Only(Contents)[1])
      BY <1>2, <2>1, <2>2
    <3>2. Holds([Only(Contents) EXCEPT ![1] = Tail(Only(Contents)[1])], {1}, outcome', "queued")
      BY <2>3, <3>1, HoldsTail
    <3> QED
      BY <2>1, <3>2
<1>7. RunningExact'
  <2>1. \A v \in Worker : running[v] # t
    BY <1>3, NoTaskAssumption DEF TaskPlaces, RunningExact
  <2> QED
    BY <1>1, <1>3, <2>1, NoTaskAssumption DEF RunningExact, TaskPlaces
<1>8. \A v \in Worker : deferred'[v] # <<>> => running'[v] # NoTask
  BY <1>1, NoTaskAssumption DEF TaskPlaces
<1> QED
  BY <1>1, <1>2, <1>3, <1>5, <1>6, <1>7, <1>8 DEF TaskPlaces

(* The running task ends and the first deferred one, if any, takes its      *)
(* place.                                                                   *)
LEMMA InvokeTaskStepPlaces ==
  ASSUME ServiceTypeOK, TaskPlaces, NEW w \in Worker, InvokeTaskStep(w)
  PROVE  /\ TaskPlaces' /\ Contents' = Contents
         /\ running[w] \in Task /\ outcome[running[w]] = "started"
         /\ \/ outcome' = [outcome EXCEPT ![running[w]] = "invoked"]
            \/ \E d \in Task : /\ outcome[d] = "deferred"
                               /\ outcome' = [outcome EXCEPT ![running[w]] = "invoked", ![d] = "started"]
<1> USE PlaceTypes
<1> DEFINE t == running[w]
           d == Head(deferred[w])
<1>1. /\ Contents' = Contents /\ UNCHANGED <<toCancel, call>> /\ t # NoTask
  BY SameContents DEF InvokeTaskStep
<1>2. t \in Task /\ outcome[t] = "started"
  BY <1>1 DEF TaskPlaces, RunningExact
<1>3. CASE deferred[w] = <<>>
  <2>1. /\ running' = [running EXCEPT ![w] = NoTask] /\ deferred' = deferred
        /\ outcome' = [outcome EXCEPT ![t] = "invoked"]
    BY <1>2, <1>3, NoTaskAssumption DEF InvokeTaskStep
  <2> HIDE DEF t
  <2>2. \A s \in {"queued", "deferred", "taken"} : \A u \in Task : outcome'[u] = s <=> outcome[u] = s
    BY <1>2, <2>1
  <2>3. /\ Holds(Only(Contents), {1}, outcome', "queued")
        /\ Holds(deferred, Worker, outcome', "deferred") /\ Holds(toCancel, Thread, outcome', "taken")
    BY <2>2, HoldsKept DEF TaskPlaces
  <2>4. RunningExact'
    BY <1>1, <1>2, <2>1 DEF RunningExact, TaskPlaces, t
  <2>5. \A v \in Worker : deferred'[v] # <<>> => running'[v] # NoTask
    BY <1>3, <2>1 DEF TaskPlaces
  <2> QED
    BY <1>1, <1>2, <2>1, <2>3, <2>4, <2>5 DEF TaskPlaces, t
<1>4. CASE deferred[w] # <<>>
  <2>1. d \in Task /\ 1 \in DOMAIN deferred[w] /\ d = deferred[w][1]
    BY <1>4
  <2>2. outcome[d] = "deferred" /\ d # t
    BY <1>2, <2>1 DEF TaskPlaces, Holds
  <2>3. /\ running' = [running EXCEPT ![w] = d]
        /\ deferred' = [deferred EXCEPT ![w] = Tail(deferred[w])]
        /\ outcome' = [u \in Task |-> IF u = t THEN "invoked" ELSE IF u = d THEN "started" ELSE outcome[u]]
    <3>1. \A u \in Task : (CASE u = t -> "invoked" [] u = d -> "started" [] OTHER -> outcome[u])
                           = IF u = t THEN "invoked" ELSE IF u = d THEN "started" ELSE outcome[u]
      BY <2>2
    <3>2. outcome' = [u \in Task |-> CASE u = t -> "invoked" [] u = d -> "started" [] OTHER -> outcome[u]]
      BY <1>4 DEF InvokeTaskStep
    <3> QED
      BY <1>4, <3>1, <3>2 DEF InvokeTaskStep
  <2>4. outcome' = [outcome EXCEPT ![t] = "invoked", ![d] = "started"]
    BY <1>2, <2>1, <2>2, <2>3
  <2> HIDE DEF t, d
  <2>5. \A s \in {"queued", "taken"} : \A u \in Task : outcome'[u] = s <=> outcome[u] = s
    BY <1>2, <2>2, <2>3
  <2>6. Holds(Only(Contents), {1}, outcome', "queued") /\ Holds(toCancel, Thread, outcome', "taken")
    BY <2>5, HoldsKept DEF TaskPlaces
  <2>7. Holds(deferred', Worker, outcome', "deferred")
    <3>1. \A u \in Task : outcome'[u] = "deferred" <=> outcome[u] = "deferred" /\ u # Head(deferred[w])
      BY <1>2, <2>1, <2>2, <2>3 DEF d
    <3> QED
      BY <1>4, <2>3, <3>1, HoldsTail DEF TaskPlaces
  <2>8. RunningExact'
    <3>1. \A v \in Worker : running[v] # d
      BY <2>1, <2>2, NoTaskAssumption DEF TaskPlaces, RunningExact
    <3>2. \A v \in Worker : v # w => running'[v] = running[v] /\ running[v] # t
      BY <1>1, <2>3 DEF TaskPlaces, RunningExact, t
    <3>3. running'[w] = d
      BY <2>3
    <3>4. \A v \in Worker : running'[v] # NoTask => outcome'[running'[v]] = "started"
      BY <2>1, <2>2, <2>3, <3>1, <3>2, <3>3 DEF TaskPlaces, RunningExact
    <3>5. \A u, v \in Worker : running'[u] = running'[v] /\ running'[v] # NoTask => u = v
      <4> SUFFICES ASSUME NEW u \in Worker, NEW v \in Worker, running'[u] = running'[v],
                          running'[v] # NoTask, u # v
                   PROVE  FALSE
        OBVIOUS
      <4>1. CASE u = w BY <3>1, <3>2, <3>3, <4>1
      <4>2. CASE v = w BY <3>1, <3>2, <3>3, <4>2
      <4>3. CASE u # w /\ v # w
        <5>1. running[u] = running[v] /\ running[v] # NoTask BY <3>2, <4>3
        <5> QED BY <5>1 DEF TaskPlaces, RunningExact
      <4> QED BY <4>1, <4>2, <4>3
    <3>6. ASSUME NEW u \in Task, outcome'[u] = "started" PROVE \E v \in Worker : running'[v] = u
      <4>1. CASE u = d BY <3>3, <4>1
      <4>2. CASE u # d
        <5>1. u # t /\ outcome[u] = "started" BY <2>3, <3>6, <4>2
        <5>2. PICK v \in Worker : running[v] = u BY <5>1 DEF TaskPlaces, RunningExact
        <5> QED BY <3>2, <5>1, <5>2 DEF t
      <4> QED BY <4>1, <4>2
    <3> QED
      BY <3>4, <3>5, <3>6 DEF RunningExact
  <2>9. \A v \in Worker : deferred'[v] # <<>> => running'[v] # NoTask
    BY <2>1, <2>3, NoTaskAssumption DEF TaskPlaces
  <2> QED
    BY <1>1, <1>2, <2>1, <2>2, <2>4, <2>6, <2>7, <2>8, <2>9 DEF TaskPlaces, t
<1> QED
  BY <1>3, <1>4

(* In a new queue there is no task.                                         *)
LEMMA ServiceInitPlaces ==
  ASSUME ServiceInit
  PROVE  TaskPlaces
<1>1. Contents = <<>>
  BY EmptyContents, InitTypeOwner, ServiceInitInv DEF ServiceInit, TQInit, IsEmpty, ReadBufferIsEmpty
<1> QED
  BY <1>1 DEF ServiceInit, TaskPlaces, Holds, Only, RunningExact

(* No more tasks are started than workers are running one.                  *)
LEMMA StartedTasksRun ==
  ASSUME ServiceTypeOK, TaskPlaces
  PROVE  LET R == {w \in Worker : running[w] # NoTask}
             S == {t \in Task : outcome[t] = "started"}
         IN  /\ IsFiniteSet(R) /\ Cardinality(R) \in Nat
             /\ IsFiniteSet(S) /\ Cardinality(S) \in Nat /\ Cardinality(S) <= Cardinality(R)
<1> DEFINE R == {w \in Worker : running[w] # NoTask}
           S == {t \in Task : outcome[t] = "started"}
           f == [w \in R |-> running[w]]
<1>1. IsFiniteSet(R)
  BY ThreadAssumption, FS_Subset
<1>2. f \in [R -> S]
  BY PlaceTypes DEF TaskPlaces, RunningExact
<1>3. \A t \in S : \E w \in R : f[w] = t
  BY NoTaskAssumption DEF TaskPlaces, RunningExact
<1>4. f \in Surjection(R, S)
  BY <1>2, <1>3 DEF Surjection
<1> HIDE DEF R, S, f
<1>5. IsFiniteSet(S) /\ Cardinality(S) <= Cardinality(R)
  BY <1>1, <1>4, FS_Surjection
<1> QED
  BY <1>1, <1>5, FS_CardinalityType DEF R, S

-----------------------------------------------------------------------------
(* What the users of the queue see of an operation, in the terms of module  *)
(* DispatchQueue.                                                           *)

LEMMA PostEffect ==
  ASSUME ServiceTypeOK, NEW a \in Thread, NEW t \in Task, Post(a, t)
  PROVE  /\ outcome[t] = "new" /\ UNCHANGED <<m_shutdownAction, m_suspendCounter>>
         /\ IF m_shutdownAction # "none"
            THEN outcome' = [outcome EXCEPT ![t] = "canceled"] /\ Contents' = Contents
            ELSE outcome' = [outcome EXCEPT ![t] = "queued"] /\ Contents' = Append(Contents, t)
BY SameContents, EnqueueAppends DEF Post, ServiceTypeOK

LEMMA InTaskEffect ==
  ASSUME ServiceTypeOK, TaskPlaces, NEW w \in Worker, NEW t \in Task,
         InvokeInPlace(w, t) \/ Defer(w, t), running[w] # NoTask
  PROVE  /\ outcome[t] = "new" /\ UNCHANGED <<m_shutdownAction, m_suspendCounter>>
         /\ Contents' = Contents
         /\ \E s \in {"invoked", "deferred"} : outcome' = [outcome EXCEPT ![t] = s]
         /\ \E r \in Task : outcome[r] = "started"
<1>1. running[w] \in Task /\ outcome[running[w]] = "started"
  BY PlaceTypes DEF TaskPlaces, RunningExact
<1> QED
  BY <1>1, SameContents DEF InvokeInPlace, Defer

LEMMA BeginShutdownEffect ==
  ASSUME ServiceTypeOK, NEW a \in Thread, NEW action \in {"complete", "cancel"},
         NEW next \in {"shutdown", "terminate"}, BeginShutdown(a, action, next)
  PROVE  /\ m_shutdownAction' # "none" /\ UNCHANGED m_suspendCounter
         /\ \/ UNCHANGED <<Contents, outcome>>
            \/ /\ Contents' = <<>>
               /\ outcome' = [t \in Task |-> IF outcome[t] = "queued" THEN "taken" ELSE outcome[t]]
BY SameContents, DequeueAllEmpties DEF BeginShutdown, ServiceTypeOK

LEMMA ResumeEffect ==
  ASSUME ServiceInv, NEW c \in Client, Resume(c)
  PROVE  /\ Contents' = Contents /\ UNCHANGED <<m_shutdownAction, outcome>>
         /\ m_suspendCounter > 0 /\ m_suspendCounter' = m_suspendCounter - 1
<1>1. IsFiniteSet(guards) /\ guards # {} /\ m_suspendCounter = Cardinality(guards)
  BY ThreadAssumption, FS_Subset DEF Resume, ServiceInv, ServiceTypeOK, SuspendExact
<1>2. m_suspendCounter > 0
  BY <1>1, FS_EmptySet, FS_CardinalityType
<1> QED
  BY <1>2, SameContents DEF Resume

LEMMA CancelTaskEffect ==
  ASSUME ServiceTypeOK, TaskPlaces, NEW a \in Thread, CancelTask(a)
  PROVE  /\ Contents' = Contents /\ UNCHANGED <<m_shutdownAction, m_suspendCounter>>
         /\ \E t \in Task : outcome[t] = "taken" /\ outcome' = [outcome EXCEPT ![t] = "canceled"]
<1> DEFINE t == Head(toCancel[a])
<1>1. toCancel[a] \in Seq(Task) /\ toCancel[a] # <<>>
  BY PlaceTypes DEF CancelTask
<1>2. t \in Task /\ 1 \in DOMAIN toCancel[a] /\ t = toCancel[a][1]
  BY <1>1
<1>3. outcome[t] = "taken"
  BY <1>2 DEF TaskPlaces, Holds
<1>4. Contents' = Contents
  BY SameContents DEF CancelTask
<1> QED
  BY <1>2, <1>3, <1>4 DEF CancelTask

-----------------------------------------------------------------------------
(* The methods and the scheduler *)

(* They leave the TaskQueue and the counters of the service alone.          *)
LEMMA ServiceFrame ==
  ASSUME ServiceInv, UNCHANGED tqVars,
         UNCHANGED <<m_suspendCounter, guards, toCancel, running, deferred, outcome>>,
         m_shutdownAction' \in {"none", "complete", "cancel"},
         handles' \subseteq Client, guards \subseteq handles',
         call' \in [Thread -> CallState], toSchedule' \in [Thread -> Nat], PostsOwed'
  PROVE  ServiceInv' /\ HasTasks' = HasTasks /\ IsEmpty' = IsEmpty
<1>1. TQTypeOK' /\ OwnerHeldIffPending' /\ IsEmpty' = IsEmpty
  BY TaskQueueUnchanged DEF ServiceInv, ServiceTypeOK
<1>2. SuspendExact'
  BY DEF ServiceInv, SuspendExact
<1> QED
  BY <1>1, <1>2 DEF ServiceInv, ServiceTypeOK, HasTasks


(* The methods that users of the queue call, up to the end of their lock.   *)
UserMethod(a) ==
  \/ \E t \in Task : Post(a, t)
  \/ a \in Client /\ (Suspend(a) \/ Resume(a))
  \/ a \in Worker /\ \E t \in Task : InvokeInPlace(a, t) \/ Defer(a, t)
  \/ Shutdown(a) \/ AwaitTermination(a)

(* Whatever the method, only its caller's place moves, and if the queue now *)
(* has tasks to run that it had not before, the caller owes a post.         *)
LEMMA UserMethodStep ==
  ASSUME ServiceInv, NEW a \in Thread, UserMethod(a)
  PROVE  /\ ServiceInv' /\ CanCall(a) /\ UNCHANGED <<running, handles>>
         /\ \A b \in Thread : b # a => toSchedule'[b] = toSchedule[b]
         /\ \E x \in {"none", "schedule", "shutdown", "terminate"} :
              /\ call' = [call EXCEPT ![a] = x]
              /\ HasTasks' => HasTasks \/ x = "schedule"
<1> DEFINE Moves(x) == call' = [call EXCEPT ![a] = x] /\ (HasTasks' => HasTasks \/ x = "schedule")
           Goal == /\ ServiceInv' /\ CanCall(a) /\ UNCHANGED <<running, handles>>
                   /\ \A b \in Thread : b # a => toSchedule'[b] = toSchedule[b]
                   /\ \E x \in {"none", "schedule", "shutdown", "terminate"} : Moves(x)
<1>0. call \in [Thread -> CallState] /\ m_suspendCounter \in Nat /\ toSchedule \in [Thread -> Nat]
  BY DEF ServiceInv, ServiceTypeOK
<1>1. ASSUME UNCHANGED tqVars PROVE IsEmpty' = IsEmpty
  BY <1>1, TaskQueueUnchanged DEF ServiceInv, ServiceTypeOK
<1>2. ASSUME NEW t \in Task, Post(a, t) PROVE Goal
  <2>1. /\ ServiceInv' /\ CanCall(a) /\ call[a] = "none" /\ UNCHANGED <<running, handles>>
        /\ \A b \in Thread : b # a => toSchedule'[b] = toSchedule[b]
    BY <1>0, <1>2, PostInv DEF Post, CanCall, OweSchedulerPosts
  <2>2. CASE m_shutdownAction # "none"
    <3>1. Moves("none")
      BY <1>0, <1>1, <1>2, <2>1, <2>2 DEF Post, HasTasks
    <3> QED
      BY <2>1, <3>1
  <2>3. CASE m_shutdownAction = "none" /\ m_suspendCounter = 0
    <3>1. Moves("schedule")
      BY <1>2, <2>3 DEF Post, OweSchedulerPosts
    <3> QED
      BY <2>1, <3>1
  <2>4. CASE m_shutdownAction = "none" /\ m_suspendCounter # 0
    <3>1. Moves("none")
      BY <1>2, <2>4 DEF Post, OweSchedulerPosts, HasTasks
    <3> QED
      BY <2>1, <3>1
  <2> QED
    BY <2>2, <2>3, <2>4
<1>3. ASSUME a \in Client, Suspend(a) PROVE Goal
  <2>1. ServiceInv' /\ CanCall(a) /\ UNCHANGED <<running, handles, toSchedule>>
    BY <1>3, SuspendInv DEF Suspend
  <2>2. Moves("none")
    BY <1>0, <1>3 DEF Suspend, CanCall, HasTasks
  <2> QED
    BY <2>1, <2>2
<1>4. ASSUME a \in Client, Resume(a) PROVE Goal
  <2> DEFINE n == IF m_suspendCounter = 1 THEN Size ELSE 0
             x == IF n > 0 THEN "schedule" ELSE "none"
  <2>1. /\ ServiceInv' /\ CanCall(a) /\ UNCHANGED <<running, handles>>
        /\ \A b \in Thread : b # a => toSchedule'[b] = toSchedule[b]
    BY <1>0, <1>4, ResumeInv DEF Resume, OweSchedulerPosts
  <2>2. m_suspendCounter' = m_suspendCounter - 1 /\ call' = [call EXCEPT ![a] = x] /\ IsEmpty' = IsEmpty
    BY <1>1, <1>4 DEF Resume, OweSchedulerPosts
  <2>3. Size \in Nat /\ (Size = 0 <=> IsEmpty)
    BY SizeOfQueue DEF ServiceInv, ServiceTypeOK
  <2>4. HasTasks' => x = "schedule"
    BY <1>0, <2>2, <2>3 DEF HasTasks
  <2>5. Moves(x) /\ x \in {"none", "schedule", "shutdown", "terminate"}
    BY <2>2, <2>4
  <2> QED
    BY <2>1, <2>5
<1>5. ASSUME a \in Worker, NEW t \in Task, InvokeInPlace(a, t) \/ Defer(a, t) PROVE Goal
  <2>1. ServiceInv' /\ CanCall(a) /\ UNCHANGED <<running, handles, toSchedule>>
    BY <1>5, InvokeInPlaceInv, DeferInv DEF InvokeInPlace, Defer
  <2>2. Moves("none")
    BY <1>0, <1>1, <1>5 DEF InvokeInPlace, Defer, CanCall, HasTasks
  <2> QED
    BY <2>1, <2>2
<1>6. ASSUME Shutdown(a) \/ AwaitTermination(a) PROVE Goal
  <2>1. PICK action \in {"complete", "cancel"}, next \in {"shutdown", "terminate"} :
          BeginShutdown(a, action, next)
    BY <1>6 DEF Shutdown, AwaitTermination
  <2>2. ServiceInv' /\ CanCall(a) /\ UNCHANGED <<running, handles, toSchedule, m_suspendCounter>>
    BY <2>1, BeginShutdownInv DEF BeginShutdown
  <2>3. IsEmpty' \/ IsEmpty' = IsEmpty
    <3>1. CASE action = "cancel"
      BY <2>1, <3>1, DequeueAllType DEF BeginShutdown, ServiceInv, ServiceTypeOK
    <3>2. CASE action # "cancel"
      BY <1>1, <2>1, <3>2 DEF BeginShutdown
    <3> QED
      BY <3>1, <3>2
  <2>4. Moves(next)
    BY <2>1, <2>2, <2>3 DEF BeginShutdown, HasTasks
  <2> QED
    BY <2>2, <2>4
<1> QED
  BY <1>2, <1>3, <1>4, <1>5, <1>6 DEF UserMethod

(* Whatever the method, every accepted task stays in one place.             *)
LEMMA UserMethodPlaces ==
  ASSUME ServiceInv, TaskPlaces, NEW a \in Thread, UserMethod(a)
  PROVE  TaskPlaces'
<1>0. ServiceTypeOK
  BY DEF ServiceInv
<1>1. CanCall(a) /\ (a \in Worker => running[a] # NoTask)
  BY UserMethodStep, ThreadAssumption DEF CanCall, ServiceInv, ServiceTypeOK
<1>2. ASSUME NEW t \in Task, Post(a, t) PROVE TaskPlaces'
  BY <1>0, <1>2, PostPlaces
<1>3. ASSUME Suspend(a) PROVE TaskPlaces'
  BY <1>0, <1>3, PlacesKept DEF Suspend
<1>4. ASSUME Resume(a) PROVE TaskPlaces'
  BY <1>0, <1>1, <1>4, PlaceTypes, PlacesKept DEF Resume, CanCall, OweSchedulerPosts
<1>5. ASSUME a \in Worker, NEW t \in Task, InvokeInPlace(a, t) \/ Defer(a, t) PROVE TaskPlaces'
  BY <1>0, <1>1, <1>5, InvokeInPlacePlaces, DeferPlaces
<1>6. ASSUME Shutdown(a) \/ AwaitTermination(a) PROVE TaskPlaces'
  BY <1>0, <1>6, BeginShutdownPlaces DEF Shutdown, AwaitTermination
<1> QED
  BY <1>2, <1>3, <1>4, <1>5, <1>6 DEF UserMethod

(* Steps of the scheduler that leave the service alone.                     *)
LEMMA ServiceStutter ==
  ASSUME ServiceInv, TaskPlaces, UNCHANGED <<tqVars, serviceVars>>
  PROVE  ServiceInv' /\ TaskPlaces'
<1>1. PostsOwed'
  BY DEF serviceVars, ServiceInv, PostsOwed
<1>2. ServiceInv'
  BY <1>1, ServiceFrame DEF serviceVars, ServiceInv, ServiceTypeOK
<1> QED
  BY <1>2, PlacesKept DEF serviceVars, ServiceInv

=============================================================================
