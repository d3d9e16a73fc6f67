------------------------------ MODULE CanQueue ------------------------------
(***************************************************************************)
(* K230CanQueue (ipc_channels.cc): the single-producer single-consumer     *)
(* ring of CAN batches in /dev/shm that carries can, sendcan and the two   *)
(* log topics between controlsd, pandad and recordd.                       *)
(*                                                                         *)
(* The two ends are different processes.  Every atomic load and store of   *)
(* write_seq / read_seq is a step of its own, and a batch (21 KB, copied   *)
(* by a plain assignment) is copied in two steps, `lo` and `hi`, so that a *)
(* copy that overlaps the other process's copy shows as a torn batch.      *)
(*                                                                         *)
(* The relaxed loads are a process reading the counter only it advances,   *)
(* and each acquire load pairs with the other end's release store, so the  *)
(* interleaving of these steps is all the two processes can observe.       *)
(***************************************************************************)
EXTENDS Naturals, Sequences

CONSTANTS
  Batches,     \* payloads a producer pushes
  Blank,       \* K230CanBatch{}: the all-zero batch, valid = 0
  Torn,        \* a batch whose halves come from two different pushes
  SlotCount,   \* slot_count of the header (kK230CanQueueSlots)
  MaxSeq,      \* bound: pushes accepted in one generation
  SeqModulus   \* 2^64, the width of write_seq and read_seq

ASSUME SlotCountAssumption == SlotCount \in Nat \ {0}
ASSUME MaxSeqAssumption ==
  /\ MaxSeq \in Nat
  /\ SeqModulus \in Nat
  /\ SeqModulus >= MaxSeq + SlotCount
ASSUME BatchAssumption == Blank \notin Batches /\ Torn \notin Batches /\ Blank # Torn

VARIABLES
  write_seq, read_seq,   \* the two atomics of K230CanQueueHeader
  slots,                 \* the ring: index -> the two halves of a batch
  ppc, pw, pbatch,       \* producer: place in push(), its write_seq, its batch
  cpc, cr, cbuf,         \* consumer: place in pop(), its read_seq, *batch
  accepted, delivered    \* history: batches push() took / pop() returned

sharedVars == <<write_seq, read_seq, slots>>
prodVars == <<ppc, pw, pbatch>>
consVars == <<cpc, cr, cbuf>>
vars == <<sharedVars, prodVars, consVars, accepted, delivered>>

Whole(b) == [lo |-> b, hi |-> b]
Contents(buf) == IF buf.lo = buf.hi THEN buf.lo ELSE Torn

(* a - b in uint64_t. *)
UnsignedDiff(a, b) == IF a >= b THEN a - b ELSE (a + SeqModulus) - b

SlotOf(seq) == seq % SlotCount

(* Plausible slips, against which the properties below are tried. *)
FullOneLate(w, r) == UnsignedDiff(w, r) > SlotCount
ReadableOneLate(r, w) == r # w /\ ~(w <= r + 1 \/ w - r > SlotCount)

Full(w, r) == UnsignedDiff(w, r) >= SlotCount
Readable(r, w) == r # w /\ ~(w < r \/ w - r > SlotCount)

Init ==
  /\ write_seq = 0 /\ read_seq = 0
  /\ slots = [i \in 0 .. SlotCount - 1 |-> Whole(Blank)]
  /\ ppc = "idle" /\ pw = 0 /\ pbatch = Blank
  /\ cpc = "idle" /\ cr = 0 /\ cbuf = Whole(Blank)
  /\ accepted = << >> /\ delivered = << >>

-----------------------------------------------------------------------------
(* push() *)

PushStart(b) ==
  /\ ppc = "idle"
  /\ write_seq < MaxSeq
  /\ pw' = write_seq
  /\ pbatch' = b
  /\ ppc' = "check"
  /\ UNCHANGED <<sharedVars, consVars, accepted, delivered>>

PushReject ==
  /\ ppc = "check"
  /\ Full(pw, read_seq)
  /\ ppc' = "idle"
  /\ UNCHANGED <<sharedVars, pw, pbatch, consVars, accepted, delivered>>

PushAdmit ==
  /\ ppc = "check"
  /\ ~Full(pw, read_seq)
  /\ ppc' = "fill_lo"
  /\ UNCHANGED <<sharedVars, pw, pbatch, consVars, accepted, delivered>>

PushFillLo ==
  /\ ppc = "fill_lo"
  /\ slots' = [slots EXCEPT ![SlotOf(pw)] = [lo |-> pbatch, hi |-> slots[SlotOf(pw)].hi]]
  /\ ppc' = "fill_hi"
  /\ UNCHANGED <<write_seq, read_seq, pw, pbatch, consVars, accepted, delivered>>

PushFillHi ==
  /\ ppc = "fill_hi"
  /\ slots' = [slots EXCEPT ![SlotOf(pw)] = [lo |-> slots[SlotOf(pw)].lo, hi |-> pbatch]]
  /\ ppc' = "commit"
  /\ UNCHANGED <<write_seq, read_seq, pw, pbatch, consVars, accepted, delivered>>

PushCommit ==
  /\ ppc = "commit"
  /\ write_seq' = pw + 1
  /\ accepted' = Append(accepted, pbatch)
  /\ ppc' = "idle"
  /\ UNCHANGED <<read_seq, slots, pw, pbatch, consVars, delivered>>

-----------------------------------------------------------------------------
(* pop() *)

PopStart ==
  /\ cpc = "idle"
  /\ cr' = read_seq
  /\ cpc' = "check"
  /\ UNCHANGED <<sharedVars, prodVars, cbuf, accepted, delivered>>

PopNothing ==
  /\ cpc = "check"
  /\ ~Readable(cr, write_seq)
  /\ cpc' = "idle"
  /\ UNCHANGED <<sharedVars, prodVars, cr, cbuf, accepted, delivered>>

PopAdmit ==
  /\ cpc = "check"
  /\ Readable(cr, write_seq)
  /\ cpc' = "copy_lo"
  /\ UNCHANGED <<sharedVars, prodVars, cr, cbuf, accepted, delivered>>

PopCopyLo ==
  /\ cpc = "copy_lo"
  /\ cbuf' = [lo |-> slots[SlotOf(cr)].lo, hi |-> cbuf.hi]
  /\ cpc' = "copy_hi"
  /\ UNCHANGED <<sharedVars, prodVars, cr, accepted, delivered>>

PopCopyHi ==
  /\ cpc = "copy_hi"
  /\ cbuf' = [lo |-> cbuf.lo, hi |-> slots[SlotOf(cr)].hi]
  /\ cpc' = "commit"
  /\ UNCHANGED <<sharedVars, prodVars, cr, accepted, delivered>>

PopCommitToNewest ==
  /\ cpc = "commit"
  /\ read_seq' = write_seq
  /\ delivered' = Append(delivered, Contents(cbuf))
  /\ cpc' = "idle"
  /\ UNCHANGED <<write_seq, slots, prodVars, cr, cbuf, accepted>>

PopCommit ==
  /\ cpc = "commit"
  /\ read_seq' = cr + 1
  /\ delivered' = Append(delivered, Contents(cbuf))
  /\ cpc' = "idle"
  /\ UNCHANGED <<write_seq, slots, prodVars, cr, cbuf, accepted>>

-----------------------------------------------------------------------------

Push == \/ \E b \in Batches : PushStart(b)
        \/ PushReject \/ PushAdmit \/ PushFillLo \/ PushFillHi \/ PushCommit

Pop == PopStart \/ PopNothing \/ PopAdmit \/ PopCopyLo \/ PopCopyHi \/ PopCommit

Next == Push \/ Pop

Spec == Init /\ [][Next]_vars

(***************************************************************************)
(* A push() that began runs to its return, and the consumer calls pop()    *)
(* for ever: controlsd every 10 ms tick, pandad and recordd every turn of  *)
(* their loops.  Nothing obliges the producer to push another batch.       *)
(***************************************************************************)
Fairness ==
  /\ WF_vars(PushReject \/ PushAdmit \/ PushFillLo \/ PushFillHi \/ PushCommit)
  /\ WF_vars(Pop)

FairSpec == Spec /\ Fairness

-----------------------------------------------------------------------------
(* Properties *)

ProducerPlaces == {"idle", "check", "fill_lo", "fill_hi", "commit"}
ConsumerPlaces == {"idle", "check", "copy_lo", "copy_hi", "commit"}
Halves == [lo : Batches \cup {Blank}, hi : Batches \cup {Blank}]

(* The type invariant of the queue and of the two call frames. *)
TypeOK ==
  /\ write_seq \in 0 .. MaxSeq /\ read_seq \in 0 .. MaxSeq
  /\ slots \in [0 .. SlotCount - 1 -> Halves]
  /\ ppc \in ProducerPlaces /\ pw \in 0 .. MaxSeq /\ pbatch \in Batches \cup {Blank}
  /\ cpc \in ConsumerPlaces /\ cr \in 0 .. MaxSeq /\ cbuf \in Halves
  /\ accepted \in Seq(Batches) /\ delivered \in Seq(Batches \cup {Blank, Torn})

(* Never more than SlotCount batches are outstanding and the reader never  *)
(* passes the writer, whatever stale counter values the two calls hold.    *)
WithinCapacity == read_seq <= write_seq /\ write_seq - read_seq <= SlotCount

(* The plain copies of the two processes never touch one slot at the same  *)
(* time: there is no data race on a batch.                                 *)
NoSlotRace ==
  ppc \in {"fill_lo", "fill_hi", "commit"} /\ cpc \in {"copy_lo", "copy_hi"}
    => SlotOf(pw) # SlotOf(cr)

(* Batches come out whole, in the order they went in, none twice and none  *)
(* skipped: gtest_can_queue.cc checks it with both ends in one thread.     *)
DeliveredInOrder ==
  /\ Len(delivered) <= Len(accepted)
  /\ \A i \in 1 .. Len(delivered) : delivered[i] = accepted[i]

(* A batch is refused only when the ring holds SlotCount batches           *)
(* (k7-panda-port.md: "reject new batches instead of overwriting older     *)
(* ones when full").                                                       *)
RejectsOnlyWhenFull ==
  [][PushReject => write_seq - read_seq = SlotCount]_vars

(* The queue implements the bounded FIFO: its abstract contents are read   *)
(* off the ring itself, oldest first.                                      *)
RingContents ==
  [i \in 1 .. write_seq - read_seq |-> Contents(slots[SlotOf(read_seq + i - 1)])]

Fifo == INSTANCE CanFifo WITH Capacity <- SlotCount, queue <- RingContents

ImplementsFifo == Fifo!Spec

(* Every batch push() accepted is eventually returned by pop(): a consumer *)
(* that keeps polling drains the ring.                                     *)
EventuallyDelivered ==
  \A n \in 1 .. MaxSeq : (Len(accepted) >= n) ~> (Len(delivered) >= n)

-----------------------------------------------------------------------------
(* The inductive invariant behind the safety properties. *)

(* What a process inside push() or pop() still knows of the shared counters. *)
CallFrames ==
  /\ ppc # "idle" => pw = write_seq /\ write_seq < MaxSeq /\ pbatch \in Batches
  /\ ppc \in {"fill_lo", "fill_hi", "commit"} => write_seq - read_seq < SlotCount
  /\ cpc # "idle" => cr = read_seq
  /\ cpc \in {"copy_lo", "copy_hi", "commit"} => read_seq < write_seq

Histories == Len(accepted) = write_seq /\ Len(delivered) = read_seq

(* Every batch accepted and not yet delivered lies whole in its slot. *)
RingHoldsUndelivered ==
  \A i \in read_seq .. write_seq - 1 : slots[SlotOf(i)] = Whole(accepted[i + 1])

CopiesInProgress ==
  /\ ppc = "fill_hi" => slots[SlotOf(pw)].lo = pbatch
  /\ ppc = "commit" => slots[SlotOf(pw)] = Whole(pbatch)
  /\ cpc = "copy_hi" => cbuf.lo = accepted[cr + 1]
  /\ cpc = "commit" => cbuf = Whole(accepted[cr + 1])

QueueInv ==
  /\ TypeOK /\ WithinCapacity /\ CallFrames /\ Histories
  /\ RingHoldsUndelivered /\ CopiesInProgress /\ DeliveredInOrder
=============================================================================
