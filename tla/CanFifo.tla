------------------------------ MODULE CanFifo ------------------------------
(***************************************************************************)
(* What a CAN queue between two daemons promises, with no shared memory in *)
(* sight: a bounded first-in first-out buffer of batches.  One process     *)
(* puts, one process gets; a put is refused only when the buffer is full   *)
(* and refusing leaves everything unchanged.                               *)
(*                                                                         *)
(* `accepted` and `delivered` are the histories of the batches that push() *)
(* took and that pop() returned.                                           *)
(***************************************************************************)
EXTENDS Naturals, Sequences

CONSTANTS
  Batches,   \* the CAN batches a producer may push
  Capacity   \* kK230CanQueueSlots

VARIABLES queue, accepted, delivered

fifoVars == <<queue, accepted, delivered>>

Init ==
  /\ queue = << >>
  /\ accepted = << >>
  /\ delivered = << >>

Put(b) ==
  /\ Len(queue) < Capacity
  /\ queue' = Append(queue, b)
  /\ accepted' = Append(accepted, b)
  /\ UNCHANGED delivered

Get ==
  /\ queue # << >>
  /\ queue' = Tail(queue)
  /\ delivered' = Append(delivered, Head(queue))
  /\ UNCHANGED accepted

Next == Get \/ \E b \in Batches : Put(b)

Spec == Init /\ [][Next]_fifoVars
=============================================================================
