-------------------------- MODULE MCThreadPoolQueue --------------------------
(* Thread-pool queues small enough for TLC.                                 *)
EXTENDS ThreadPoolQueue, TLC

(* Threads and tasks are interchangeable in the safety runs.                *)
Interchangeable == Permutations(Client) \cup Permutations(Worker) \cup Permutations(Task)

=============================================================================
