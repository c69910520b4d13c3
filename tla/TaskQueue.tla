----------------------------- MODULE TaskQueue -----------------------------
(***************************************************************************)
(* Mso::TaskQueue (Mso/src/dispatchQueue/taskQueue.cpp): the two-buffer     *)
(* FIFO inside every dispatch queue.  Posting threads push to m_writeBuffer *)
(* and workers take from m_readBuffer, from position m_index on; when the   *)
(* read buffer is used up the two vectors are swapped.  While it holds a    *)
(* task the TaskQueue keeps a strong reference to the QueueService that     *)
(* owns it (m_strongOwnerPtr), so that pending tasks outlive the handles.   *)
(*                                                                          *)
(* All operations run under QueueService::m_mutex, so each one is a single  *)
(* step.  They are written as actions on the four fields; QueueService uses *)
(* them as parts of its own actions, and TQSpec runs them alone.            *)
(***************************************************************************)
EXTENDS Naturals, Sequences

CONSTANTS Task,      \* the dispatch tasks
          NoTask     \* the null DispatchTask a moved-from slot holds

ASSUME NoTaskAssumption == NoTask \notin Task

VARIABLES m_readBuffer,   \* TaskReadBuffer::m_buffer
          m_index,        \* TaskReadBuffer::m_index: the slots already taken
          m_writeBuffer,  \* TaskQueue::m_writeBuffer
          m_strongOwnerPtr \* whether the strong reference to the owner is held

tqVars == <<m_readBuffer, m_index, m_writeBuffer, m_strongOwnerPtr>>

-----------------------------------------------------------------------------
(* TaskReadBuffer *)

ReadBufferIsEmpty == m_index = Len(m_readBuffer)

(* The slots of the read buffer that still hold a task: what is left of     *)
(* m_buffer after SwapBuffer's erase.                                       *)
ReadBufferRest == SubSeq(m_readBuffer, m_index + 1, Len(m_readBuffer))

(* TaskReadBuffer::TryDequeue on a buffer with a slot left: the slot        *)
(* becomes a null task, the index moves on.                                 *)
TakeSlot(buffer, index) ==
  /\ m_readBuffer' = [buffer EXCEPT ![index + 1] = NoTask]
  /\ m_index' = index + 1

-----------------------------------------------------------------------------
(* TaskQueue *)

IsEmpty == ReadBufferIsEmpty /\ m_writeBuffer = <<>>

Size == (Len(m_readBuffer) - m_index) + Len(m_writeBuffer)

(* The tasks in the queue in the order they were enqueued.                  *)
Contents == ReadBufferRest \o m_writeBuffer

TQInit ==
  /\ m_readBuffer = <<>>
  /\ m_index = 0
  /\ m_writeBuffer = <<>>
  /\ m_strongOwnerPtr = FALSE

Enqueue(task) ==
  /\ m_writeBuffer' = Append(m_writeBuffer, task)
  /\ m_strongOwnerPtr' = IF IsEmpty THEN TRUE ELSE m_strongOwnerPtr
  /\ UNCHANGED <<m_readBuffer, m_index>>

(* Mutant: the buffers are swapped whenever a task was written.             *)
TryDequeueSwapsEarly(task) ==
  /\ m_writeBuffer # <<>> /\ task = m_writeBuffer[1]
  /\ TakeSlot(m_writeBuffer, 0)
  /\ m_writeBuffer' = <<>>
  /\ m_strongOwnerPtr' = IF Len(m_writeBuffer) = 1 THEN FALSE ELSE m_strongOwnerPtr

(* Mutant: the owner is released when the read buffer is used up, whatever  *)
(* the write buffer holds.                                                  *)
TryDequeueReleasesEarly(task) ==
  LET buffer == IF ReadBufferIsEmpty THEN m_writeBuffer ELSE m_readBuffer
      index == IF ReadBufferIsEmpty THEN 0 ELSE m_index
  IN /\ ~IsEmpty /\ task = buffer[index + 1]
     /\ TakeSlot(buffer, index)
     /\ m_writeBuffer' = IF ReadBufferIsEmpty THEN <<>> ELSE m_writeBuffer
     /\ m_strongOwnerPtr' = (m_strongOwnerPtr /\ index + 1 # Len(buffer))

(* TryDequeue returning true with the given task as its out parameter.  It  *)
(* returns false, and changes nothing, exactly when IsEmpty.                *)
TryDequeue(task) ==
  \/ /\ ReadBufferIsEmpty /\ m_writeBuffer # <<>>       \* SwapBuffer first
     /\ task = m_writeBuffer[1]
     /\ TakeSlot(m_writeBuffer, 0)
     /\ m_writeBuffer' = <<>>
     /\ m_strongOwnerPtr' = IF Len(m_writeBuffer) = 1 THEN FALSE ELSE m_strongOwnerPtr
  \/ /\ ~ReadBufferIsEmpty
     /\ task = m_readBuffer[m_index + 1]
     /\ TakeSlot(m_readBuffer, m_index)
     /\ UNCHANGED m_writeBuffer
     /\ m_strongOwnerPtr' = IF m_index + 1 = Len(m_readBuffer) /\ m_writeBuffer = <<>>
                           THEN FALSE
                           ELSE m_strongOwnerPtr

(* DequeueAll with the given sequence as its out parameter.  A read buffer  *)
(* that is used up keeps its null slots and its index.                      *)
DequeueAll(tasks) ==
  /\ tasks = Contents
  /\ IF IsEmpty
     THEN UNCHANGED tqVars
     ELSE /\ IF ReadBufferIsEmpty
             THEN UNCHANGED <<m_readBuffer, m_index>>
             ELSE m_readBuffer' = <<>> /\ m_index' = 0
          /\ m_writeBuffer' = <<>>
          /\ m_strongOwnerPtr' = FALSE

TQNext ==
  \/ \E task \in Task : Enqueue(task)
  \/ \E task \in Task \cup {NoTask} : TryDequeue(task)
  \/ \E tasks \in {Contents} : DequeueAll(tasks)

TQSpec == TQInit /\ [][TQNext]_tqVars

-----------------------------------------------------------------------------
(* Properties *)

(* The fields have their types, the index stays inside the read buffer and  *)
(* the slots behind it are the null tasks TryDequeue moved from.            *)
TQTypeOK ==
  /\ m_readBuffer \in Seq(Task \cup {NoTask})
  /\ m_index \in 0..Len(m_readBuffer)
  /\ m_writeBuffer \in Seq(Task)
  /\ m_strongOwnerPtr \in BOOLEAN
  /\ \A i \in 1..Len(m_readBuffer) : i > m_index => m_readBuffer[i] \in Task

(* "Keep strong reference to the owner when queue is not empty"             *)
(* (taskQueue.h:55): the reference is held exactly while a task is pending. *)
(* Held too long it leaks the QueueService, dropped too early it lets the   *)
(* QueueService be destroyed under its pending tasks.                       *)
OwnerHeldIffPending == m_strongOwnerPtr <=> ~IsEmpty

(* Whatever the swapping does, seen from outside the queue is a FIFO: a     *)
(* step puts one task at the end, hands out exactly the task at the front,  *)
(* or removes them all.                                                     *)
FifoStep ==
  \/ \E task \in Task : Contents' = Append(Contents, task)
  \/ \E task \in Task : TryDequeue(task) /\ Contents = <<task>> \o Contents'
  \/ DequeueAll(Contents) /\ Contents' = <<>>
FifoOrder == [][FifoStep]_tqVars

=============================================================================
