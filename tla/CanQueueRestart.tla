-------------------------- MODULE CanQueueRestart --------------------------
(***************************************************************************)
(* A CAN queue whose two ends crash and are restarted by k230_manager.py.  *)
(* The region in /dev/shm outlives both processes.  open() of an existing, *)
(* well-formed region leaves it alone; the producer then calls reset()     *)
(* (pandad for can, can_log and sendcan_log, controlsd for sendcan) while  *)
(* the consumer may be anywhere in pop().                                  *)
(*                                                                         *)
(* `overlap` records whether a step of reset() ever ran while the other    *)
(* process was inside pop(): everything CanQueue promises survives a       *)
(* restart exactly as long as that has not happened.                       *)
(***************************************************************************)
EXTENDS CanQueue

CONSTANT MaxRestarts   \* bound: crashes of the two processes together

ASSUME RestartAssumption == MaxRestarts \in Nat

VARIABLES
  clr,        \* index of the slot reset() clears next
  restarts,   \* crashes so far (bounded by MaxRestarts)
  resetting,  \* a reset() has begun and none has finished since
  overlap     \* a pop() was in progress while resetting

restartVars == <<clr, restarts, resetting, overlap>>
allVars == <<vars, restartVars>>

ResetPlaces == {"down", "reset_read", "reset_write", "reset_clear"}
PopInProgress == cpc # "idle"

RInit == Init /\ clr = 0 /\ restarts = 0
         /\ resetting = FALSE /\ overlap = FALSE

(* The producer dies anywhere, also inside push(). *)
ProducerCrash ==
  /\ restarts < MaxRestarts
  /\ ppc # "down"
  /\ ppc' = "down"
  /\ restarts' = restarts + 1
  /\ UNCHANGED <<sharedVars, pw, pbatch, consVars, accepted, delivered, clr, resetting, overlap>>

(* The new process maps the region and finds a valid header. *)
ProducerReopen ==
  /\ ppc = "down"
  /\ ppc' = "reset_read"
  /\ pw' = 0 /\ pbatch' = Blank /\ clr' = 0
  /\ UNCHANGED <<sharedVars, consVars, accepted, delivered, restarts, resetting, overlap>>

ResetReadSeq ==
  /\ ppc = "reset_read"
  /\ read_seq' = 0
  /\ ppc' = "reset_write"
  /\ resetting' = TRUE
  /\ overlap' = (overlap \/ PopInProgress)
  /\ UNCHANGED <<write_seq, slots, pw, pbatch, consVars, accepted, delivered, clr, restarts>>

ResetWriteSeqForgotten ==
  /\ ppc = "reset_write"
  /\ ppc' = "reset_clear"
  /\ accepted' = << >> /\ delivered' = << >>
  /\ overlap' = (overlap \/ PopInProgress)
  /\ UNCHANGED <<write_seq, read_seq, slots, pw, pbatch, consVars, clr, restarts, resetting>>

(* The generation changes here: what was accepted before is gone. *)
ResetWriteSeq ==
  /\ ppc = "reset_write"
  /\ write_seq' = 0
  /\ ppc' = "reset_clear"
  /\ accepted' = << >> /\ delivered' = << >>
  /\ overlap' = (overlap \/ PopInProgress)
  /\ UNCHANGED <<read_seq, slots, pw, pbatch, consVars, clr, restarts, resetting>>

ResetClearSlot ==
  /\ ppc = "reset_clear"
  /\ slots' = [slots EXCEPT ![clr] = Whole(Blank)]
  /\ clr' = clr + 1
  /\ resetting' = (clr' < SlotCount)
  /\ ppc' = IF resetting' THEN "reset_clear" ELSE "idle"
  /\ overlap' = (overlap \/ PopInProgress)
  /\ UNCHANGED <<write_seq, read_seq, pw, pbatch, consVars, accepted, delivered, restarts>>

Reset == ResetReadSeq \/ ResetWriteSeq \/ ResetClearSlot

(* The consumer dies anywhere in pop() and comes back without a reset. *)
ConsumerCrash ==
  /\ restarts < MaxRestarts
  /\ cpc' = "idle" /\ cr' = 0 /\ cbuf' = Whole(Blank)
  /\ restarts' = restarts + 1
  /\ UNCHANGED <<sharedVars, prodVars, accepted, delivered, clr, resetting, overlap>>

Ordinary ==
  /\ Next
  /\ overlap' = (overlap \/ (resetting /\ cpc' # "idle"))
  /\ UNCHANGED <<clr, restarts, resetting>>

RNext == Ordinary \/ ProducerCrash \/ ProducerReopen \/ Reset \/ ConsumerCrash

RSpec == RInit /\ [][RNext]_allVars

-----------------------------------------------------------------------------
(* Properties *)

RTypeOK ==
  /\ write_seq \in 0 .. MaxSeq /\ read_seq \in 0 .. MaxSeq
  /\ slots \in [0 .. SlotCount - 1 -> Halves]
  /\ ppc \in ProducerPlaces \cup ResetPlaces /\ cpc \in ConsumerPlaces
  /\ pw \in 0 .. MaxSeq /\ cr \in 0 .. MaxSeq /\ cbuf \in Halves
  /\ clr \in 0 .. SlotCount /\ restarts \in 0 .. MaxRestarts /\ resetting \in BOOLEAN
  /\ overlap \in BOOLEAN

(* As long as no reset() met a pop(), a restart of either process at any   *)
(* point keeps the promises of the queue within a generation: order, no    *)
(* torn batch, and nothing of the previous generation after the reset      *)
(* (gtest_can_queue.cc: "producer reset discards the previous              *)
(* generation").                                                           *)
GenerationsStayApart ==
  ~overlap => /\ DeliveredInOrder
              /\ NoSlotRace
              /\ ~resetting => WithinCapacity

(* A crash of the consumer alone never costs a batch that pop() had not    *)
(* returned: what was accepted in this generation and not delivered is     *)
(* still in the ring.                                                      *)
UndeliveredStaysInRing ==
  ~overlap /\ ~resetting =>
    \A i \in Len(delivered) + 1 .. Len(accepted) :
      slots[SlotOf(i - 1)] = Whole(accepted[i])

(* The claim of k7-panda-port.md, under restarts: batches are rejected     *)
(* when the queue is full, and only then.  A pop() that loaded its counter *)
(* before reset() and stores after it leaves read_seq > write_seq, and     *)
(* then every push() is rejected by the unsigned difference although the   *)
(* ring is empty.                                                          *)
RestartRejectsOnlyWhenFull ==
  [][PushReject => write_seq - read_seq = SlotCount]_allVars

-----------------------------------------------------------------------------
(* The inductive invariant: outside reset() a producer that is down or has *)
(* just come back is, to the queue, one that pushes nothing.               *)
Place == IF ppc \in ResetPlaces THEN "idle" ELSE ppc
Standing == INSTANCE CanQueue WITH ppc <- Place

RestartTypeOK ==
  /\ RTypeOK /\ pbatch \in Batches \cup {Blank}
  /\ accepted \in Seq(Batches) /\ delivered \in Seq(Batches \cup {Blank, Torn})

(* What a call took over an older generation keeps its counters in range. *)
CallsStayInRange ==
  /\ ppc \in {"check", "fill_lo", "fill_hi", "commit"} => pw < MaxSeq /\ pbatch \in Batches
  /\ cpc \in {"copy_lo", "copy_hi", "commit"} => cr < MaxSeq

ResetPhases ==
  /\ ppc = "reset_read" => clr = 0
  /\ ppc = "reset_write" => resetting /\ clr = 0 /\ (~overlap => read_seq = 0)
  /\ ppc = "reset_clear" =>
       /\ resetting /\ clr < SlotCount
       /\ ~overlap => write_seq = 0 /\ read_seq = 0 /\ accepted = <<>> /\ delivered = <<>>

GenerationHolds ==
  /\ ~overlap /\ resetting => cpc = "idle" /\ ppc \in ResetPlaces /\ DeliveredInOrder
  /\ ~overlap /\ ~resetting => Standing!QueueInv

RestartInv == RestartTypeOK /\ CallsStayInRange /\ ResetPhases /\ GenerationHolds
=============================================================================
