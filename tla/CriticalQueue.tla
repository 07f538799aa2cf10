---------------------------- MODULE CriticalQueue ----------------------------
(***************************************************************************)
(* What the ring of critical phases promises: a queue of bounded length    *)
(* that loses nothing it has taken and hands it out in order.  A record    *)
(* that finds the queue full is not taken.                                 *)
(***************************************************************************)
EXTENDS Sequences, Naturals

CONSTANTS Records, Capacity

VARIABLES
  queue,   \* the records taken and not yet handed out
  runs     \* how often a processor was restarted

vars == <<queue, runs>>

QueueInit == queue = <<>>

Put ==
  /\ Len(queue) < Capacity
  /\ queue' # <<>> /\ queue'[Len(queue')] \in Records
  /\ SubSeq(queue', 1, Len(queue') - 1) = queue
  /\ UNCHANGED runs

Get == queue # <<>> /\ queue' = Tail(queue) /\ UNCHANGED runs

\* The game alone is restarted, or the console with all it holds.
Restart == runs' # runs /\ queue' \in {queue, <<>>}

QueueSpec == QueueInit /\ [][Put \/ Get \/ Restart]_vars
=============================================================================
