--------------------------- MODULE CanQueueProofs ---------------------------
(***************************************************************************)
(* Proofs about CanQueue for every slot count, every set of batches and    *)
(* every bound: the type invariant, the safety invariants, and the         *)
(* rejection property.                                                     *)
(***************************************************************************)
EXTENDS CanQueue, SequenceTheorems, TLAPS

(* Positions less than SlotCount apart lie in different slots. *)
LEMMA SlotsDistinct ==
  ASSUME NEW i \in Nat, NEW j \in Nat, i < j, j - i < SlotCount
  PROVE  SlotOf(i) # SlotOf(j)
<1> DEFINE m == i % SlotCount
           p == i \div SlotCount
           q == j \div SlotCount
<1>1. SUFFICES ASSUME j % SlotCount = m PROVE FALSE
  BY DEF SlotOf
<1>2. i = SlotCount * p + m /\ p \in Nat /\ m \in 0 .. SlotCount - 1
  BY SlotCountAssumption
<1>3. j = SlotCount * q + m /\ q \in Nat
  BY <1>1, SlotCountAssumption
<1> HIDE DEF m, p, q
<1>4. SlotCount * q = SlotCount * p + (j - i) /\ SlotCount * q \in Nat /\ SlotCount * p \in Nat
  BY <1>2, <1>3, SlotCountAssumption
<1>5. CASE q <= p
  <2>1. SlotCount * q <= SlotCount * p
    BY <1>2, <1>3, <1>5, SlotCountAssumption
  <2> QED BY <2>1, <1>4
<1>6. CASE q >= p + 1
  <2>1. SlotCount * q >= SlotCount * (p + 1)
    BY <1>2, <1>3, <1>6, SlotCountAssumption
  <2>2. SlotCount * (p + 1) = SlotCount * p + SlotCount
    BY <1>2, SlotCountAssumption
  <2> QED BY <2>1, <2>2, <1>2, <1>4, SlotCountAssumption
<1> QED BY <1>2, <1>3, <1>5, <1>6

LEMMA SlotInRing == ASSUME NEW i \in Nat PROVE SlotOf(i) \in 0 .. SlotCount - 1
  BY SlotCountAssumption DEF SlotOf

(* pop()'s test of the counters means what it should on counters that are  *)
(* within capacity, and so does push()'s unsigned difference.              *)
LEMMA CounterTests ==
  ASSUME NEW w \in Nat, NEW r \in Nat, r <= w, w - r <= SlotCount
  PROVE  /\ Full(w, r) <=> w - r = SlotCount
         /\ Readable(r, w) <=> r < w
  BY SlotCountAssumption DEF Full, Readable, UnsignedDiff

LEMMA InitInv == Init => QueueInv
<1> SUFFICES ASSUME Init PROVE QueueInv
  OBVIOUS
<1>1. Whole(Blank) \in Halves
  BY DEF Whole, Halves
<1>2. TypeOK
  BY <1>1, SlotCountAssumption, MaxSeqAssumption
  DEF Init, TypeOK, ProducerPlaces, ConsumerPlaces
<1> QED
  BY <1>2, SlotCountAssumption
  DEF Init, QueueInv, WithinCapacity, CallFrames, Histories, RingHoldsUndelivered,
      CopiesInProgress, DeliveredInOrder

(* The steps that only move a call forward and load a counter. *)
LEMMA LoadSteps ==
  ASSUME QueueInv,
         \/ \E b \in Batches : PushStart(b)
         \/ PushReject \/ PushAdmit \/ PopStart \/ PopNothing \/ PopAdmit
  PROVE  QueueInv'
<1> USE DEF QueueInv, sharedVars, prodVars, consVars
<1>1. write_seq \in Nat /\ read_seq \in Nat /\ pw \in Nat /\ cr \in Nat
  BY MaxSeqAssumption DEF TypeOK
<1>2. TypeOK'
  BY MaxSeqAssumption
  DEF TypeOK, ProducerPlaces, ConsumerPlaces, PushStart, PushReject, PushAdmit,
      PopStart, PopNothing, PopAdmit
<1>3. UNCHANGED <<write_seq, read_seq, slots, accepted, delivered>>
  BY DEF PushStart, PushReject, PushAdmit, PopStart, PopNothing, PopAdmit
<1>4. CallFrames'
  <2>1. CASE (\E b \in Batches : PushStart(b)) \/ PopStart \/ PushReject \/ PopNothing
    BY <2>1, <1>1 DEF CallFrames, PushStart, PushReject, PopStart, PopNothing
  <2>2. CASE PushAdmit
    <3>1. pw = write_seq /\ write_seq - read_seq < SlotCount
      BY <2>2, <1>1, CounterTests, SlotCountAssumption DEF CallFrames, WithinCapacity, PushAdmit
    <3> QED BY <2>2, <3>1 DEF CallFrames, PushAdmit
  <2>3. CASE PopAdmit
    <3>1. cr = read_seq /\ read_seq < write_seq
      BY <2>3, <1>1, CounterTests DEF CallFrames, WithinCapacity, PopAdmit
    <3> QED BY <2>3, <3>1 DEF CallFrames, PopAdmit
  <2> QED BY <2>1, <2>2, <2>3
<1>5. ppc' \in {"idle", "check", "fill_lo"} \/ UNCHANGED prodVars
  BY DEF PushStart, PushReject, PushAdmit, PopStart, PopNothing, PopAdmit
<1>6. cpc' \in {"idle", "check", "copy_lo"} \/ UNCHANGED consVars
  BY DEF PushStart, PushReject, PushAdmit, PopStart, PopNothing, PopAdmit
<1>7. CopiesInProgress'
  BY <1>3, <1>5, <1>6 DEF CopiesInProgress
<1> QED
  BY <1>2, <1>3, <1>4, <1>7
  DEF WithinCapacity, Histories, RingHoldsUndelivered, DeliveredInOrder

(* Filling the admitted slot disturbs no slot that still holds a batch. *)
LEMMA FillSteps ==
  ASSUME QueueInv, PushFillLo \/ PushFillHi
  PROVE  QueueInv'
<1> USE DEF QueueInv, sharedVars, prodVars, consVars
<1>1. /\ write_seq \in Nat /\ read_seq \in Nat /\ pw = write_seq /\ pbatch \in Batches
      /\ write_seq - read_seq < SlotCount
  BY MaxSeqAssumption DEF TypeOK, CallFrames, PushFillLo, PushFillHi
<1>2. SlotOf(pw) \in 0 .. SlotCount - 1 /\ slots[SlotOf(pw)] \in Halves
  BY <1>1, SlotInRing DEF TypeOK
<1>3. ASSUME NEW i \in read_seq .. write_seq - 1 PROVE SlotOf(i) # SlotOf(pw)
  <2>1. i \in Nat /\ pw \in Nat /\ i < pw /\ pw - i < SlotCount
    BY <1>1, SlotCountAssumption
  <2> QED BY <2>1, SlotsDistinct
<1> DEFINE filled == IF ppc = "fill_lo" THEN [lo |-> pbatch, hi |-> slots[SlotOf(pw)].hi]
                     ELSE [lo |-> slots[SlotOf(pw)].lo, hi |-> pbatch]
<1>9. slots' = [slots EXCEPT ![SlotOf(pw)] = filled]
  <2>1. CASE PushFillLo
    BY <2>1, <1>2 DEF PushFillLo, TypeOK
  <2>2. CASE PushFillHi
    BY <2>2, <1>2 DEF PushFillHi, TypeOK
  <2> QED BY <2>1, <2>2
<1>10. filled \in Halves
  BY <1>1, <1>2 DEF Halves
<1>11. slots'[SlotOf(pw)] = filled
  BY <1>2, <1>9 DEF TypeOK
<1> HIDE DEF filled
<1>4. slots' \in [0 .. SlotCount - 1 -> Halves]
  BY <1>2, <1>9, <1>10 DEF TypeOK
<1>5. TypeOK'
  BY <1>4 DEF TypeOK, ProducerPlaces, PushFillLo, PushFillHi
<1>6. RingHoldsUndelivered'
  <2>1. UNCHANGED <<write_seq, read_seq, accepted>>
    BY DEF PushFillLo, PushFillHi
  <2>2. \A i \in read_seq .. write_seq - 1 : slots'[SlotOf(i)] = slots[SlotOf(i)]
    BY <1>1, <1>3, <1>9, SlotInRing DEF TypeOK
  <2> QED BY <2>1, <2>2 DEF RingHoldsUndelivered
<1>7. CallFrames'
  BY DEF CallFrames, PushFillLo, PushFillHi
<1>8. CopiesInProgress'
  <2>1. ppc' = "fill_hi" => slots'[SlotOf(pw)].lo = pbatch
    BY <1>11 DEF filled, PushFillLo, PushFillHi
  <2>2. ppc' = "commit" => slots'[SlotOf(pw)] = Whole(pbatch)
    BY <1>11 DEF filled, PushFillLo, PushFillHi, CopiesInProgress, Whole
  <2>3. UNCHANGED <<pw, pbatch, cpc, cbuf, cr, accepted>>
    BY DEF PushFillLo, PushFillHi
  <2> QED BY <2>1, <2>2, <2>3 DEF CopiesInProgress
<1> QED
  BY <1>5, <1>6, <1>7, <1>8
  DEF WithinCapacity, Histories, DeliveredInOrder, PushFillLo, PushFillHi

(* Publishing the filled slot appends its batch to the accepted ones. *)
LEMMA CommitPush ==
  ASSUME QueueInv, PushCommit
  PROVE  QueueInv'
<1> USE DEF QueueInv, sharedVars, prodVars, consVars, PushCommit
<1>1. /\ write_seq \in Nat /\ read_seq \in Nat /\ pw = write_seq /\ pbatch \in Batches
      /\ write_seq - read_seq < SlotCount /\ write_seq < MaxSeq /\ read_seq <= write_seq
  BY MaxSeqAssumption DEF TypeOK, CallFrames, WithinCapacity
<1>2. accepted \in Seq(Batches) /\ Len(accepted) = write_seq
  BY DEF TypeOK, Histories
<1>3. /\ Len(accepted') = write_seq + 1 /\ accepted' \in Seq(Batches)
      /\ accepted'[write_seq + 1] = pbatch
      /\ \A i \in 1 .. write_seq : accepted'[i] = accepted[i]
  BY <1>1, <1>2
<1>4. TypeOK'
  BY <1>1, <1>3, MaxSeqAssumption DEF TypeOK, ProducerPlaces
<1>5. RingHoldsUndelivered'
  BY <1>1, <1>3 DEF RingHoldsUndelivered, CopiesInProgress
<1>6. CallFrames' /\ WithinCapacity' /\ Histories'
  BY <1>1, <1>3, SlotCountAssumption DEF CallFrames, WithinCapacity, Histories
<1>7. CopiesInProgress'
  BY <1>1, <1>3 DEF CopiesInProgress, CallFrames
<1>8. DeliveredInOrder'
  BY <1>1, <1>2, <1>3 DEF DeliveredInOrder, Histories
<1> QED BY <1>4, <1>5, <1>6, <1>7, <1>8

(* The consumer copies the oldest undelivered batch. *)
LEMMA CopySteps ==
  ASSUME QueueInv, PopCopyLo \/ PopCopyHi
  PROVE  QueueInv'
<1> USE DEF QueueInv, sharedVars, prodVars, consVars
<1>1. /\ write_seq \in Nat /\ read_seq \in Nat /\ cr = read_seq /\ read_seq < write_seq
  BY MaxSeqAssumption DEF TypeOK, CallFrames, PopCopyLo, PopCopyHi
<1>2. slots[SlotOf(cr)] = Whole(accepted[cr + 1]) /\ slots[SlotOf(cr)] \in Halves
  BY <1>1, SlotInRing DEF RingHoldsUndelivered, TypeOK
<1>3. cbuf' \in Halves
  BY <1>2 DEF TypeOK, Halves, PopCopyLo, PopCopyHi
<1>4. TypeOK'
  BY <1>3 DEF TypeOK, ConsumerPlaces, PopCopyLo, PopCopyHi
<1>5. CallFrames'
  BY DEF CallFrames, PopCopyLo, PopCopyHi
<1>6. CopiesInProgress'
  <2>1. UNCHANGED <<slots, ppc, pw, pbatch, cr, accepted>>
    BY DEF PopCopyLo, PopCopyHi
  <2>2. cpc' = "copy_hi" => cbuf'.lo = accepted[cr + 1]
    BY <1>2 DEF PopCopyLo, PopCopyHi, Whole
  <2>3. cpc' = "commit" => cbuf' = Whole(accepted[cr + 1])
    BY <1>2 DEF PopCopyLo, PopCopyHi, Whole, CopiesInProgress
  <2> QED BY <2>1, <2>2, <2>3 DEF CopiesInProgress
<1> QED
  BY <1>4, <1>5, <1>6
  DEF WithinCapacity, Histories, RingHoldsUndelivered, DeliveredInOrder, PopCopyLo, PopCopyHi

(* Releasing the slot delivers exactly the next accepted batch. *)
LEMMA CommitPop ==
  ASSUME QueueInv, PopCommit
  PROVE  QueueInv'
<1> USE DEF QueueInv, sharedVars, prodVars, consVars, PopCommit
<1>1. /\ write_seq \in Nat /\ read_seq \in Nat /\ cr = read_seq /\ read_seq < write_seq
      /\ write_seq - read_seq <= SlotCount
  BY MaxSeqAssumption DEF TypeOK, CallFrames, WithinCapacity
<1>2. Contents(cbuf) = accepted[read_seq + 1] /\ Contents(cbuf) \in Batches
  BY <1>1 DEF CopiesInProgress, Contents, Whole, TypeOK, Histories
<1>3. /\ delivered' \in Seq(Batches \cup {Blank, Torn}) /\ Len(delivered') = read_seq + 1
      /\ delivered'[read_seq + 1] = accepted[read_seq + 1]
      /\ \A i \in 1 .. read_seq : delivered'[i] = delivered[i]
  BY <1>1, <1>2 DEF TypeOK, Histories
<1>4. TypeOK'
  BY <1>1, <1>3, MaxSeqAssumption DEF TypeOK, ConsumerPlaces
<1>5. DeliveredInOrder'
  BY <1>1, <1>3 DEF DeliveredInOrder, Histories
<1>6. CallFrames' /\ WithinCapacity' /\ Histories'
  BY <1>1, <1>3, SlotCountAssumption DEF CallFrames, WithinCapacity, Histories
<1>8. CopiesInProgress'
  BY DEF CopiesInProgress
<1>7. RingHoldsUndelivered'
  BY <1>1 DEF RingHoldsUndelivered
<1> QED BY <1>4, <1>5, <1>6, <1>7, <1>8

LEMMA StepInv == QueueInv /\ [Next]_vars => QueueInv'
<1> SUFFICES ASSUME QueueInv, [Next]_vars PROVE QueueInv'
  OBVIOUS
<1>1. CASE \E b \in Batches : PushStart(b)
  BY <1>1, LoadSteps
<1>2. CASE PushReject \/ PushAdmit \/ PopStart \/ PopNothing \/ PopAdmit
  BY <1>2, LoadSteps
<1>3. CASE PushFillLo \/ PushFillHi
  BY <1>3, FillSteps
<1>4. CASE PushCommit
  BY <1>4, CommitPush
<1>5. CASE PopCopyLo \/ PopCopyHi
  BY <1>5, CopySteps
<1>6. CASE PopCommit
  BY <1>6, CommitPop
<1>7. CASE UNCHANGED vars
  BY <1>7
  DEF vars, sharedVars, prodVars, consVars, QueueInv, TypeOK, WithinCapacity, CallFrames,
      Histories, RingHoldsUndelivered, CopiesInProgress, DeliveredInOrder
<1> QED BY <1>1, <1>2, <1>3, <1>4, <1>5, <1>6, <1>7 DEF Next, Push, Pop

(* push() and pop() of one producer and one consumer, interleaved at every *)
(* atomic access, keep the whole invariant of the ring.                    *)
THEOREM QueueInvariant == Spec => []QueueInv
  BY InitInv, StepInv, PTL DEF Spec

(* Every counter, slot and call frame keeps its type. *)
THEOREM QueueTypeOK == Spec => []TypeOK
<1>1. QueueInv => TypeOK
  BY DEF QueueInv
<1> QED BY <1>1, QueueInvariant, PTL

(* Batches leave the ring whole and in push order, for every ring size.    *)
THEOREM QueueDeliversInOrder == Spec => [](WithinCapacity /\ DeliveredInOrder)
<1>1. QueueInv => WithinCapacity /\ DeliveredInOrder
  BY DEF QueueInv
<1> QED BY <1>1, QueueInvariant, PTL

(* The two plain copies never meet in a slot: push() and pop() are free of *)
(* data races on the batches.                                              *)
THEOREM QueueIsRaceFree == Spec => []NoSlotRace
<1>1. QueueInv => NoSlotRace
  <2> SUFFICES ASSUME QueueInv, ppc \in {"fill_lo", "fill_hi", "commit"},
                      cpc \in {"copy_lo", "copy_hi"}
               PROVE  SlotOf(pw) # SlotOf(cr)
    BY DEF NoSlotRace
  <2>1. /\ write_seq \in Nat /\ read_seq \in Nat /\ pw = write_seq /\ cr = read_seq
        /\ read_seq < write_seq /\ write_seq - read_seq < SlotCount
    BY MaxSeqAssumption DEF QueueInv, TypeOK, CallFrames
  <2> QED BY <2>1, SlotsDistinct
<1> QED BY <1>1, QueueInvariant, PTL

(* push() refuses a batch only when the ring is full, so the unsigned      *)
(* difference never misfires while nobody resets the queue.                *)
THEOREM QueueRejectsOnlyWhenFull == Spec => RejectsOnlyWhenFull
<1>1. QueueInv /\ [Next]_vars => [PushReject => write_seq - read_seq = SlotCount]_vars
  <2> SUFFICES ASSUME QueueInv, PushReject PROVE write_seq - read_seq = SlotCount
    OBVIOUS
  <2>1. /\ write_seq \in Nat /\ read_seq \in Nat /\ pw = write_seq
        /\ read_seq <= write_seq /\ write_seq - read_seq <= SlotCount
    BY MaxSeqAssumption DEF QueueInv, TypeOK, CallFrames, WithinCapacity, PushReject
  <2> QED BY <2>1, CounterTests DEF PushReject
<1> QED BY <1>1, QueueInvariant, PTL DEF Spec, RejectsOnlyWhenFull

-----------------------------------------------------------------------------
(* Refinement of the bounded FIFO. *)

(* What follows the first r elements of a sequence. *)
Backlog(acc, r) == [i \in 1 .. Len(acc) - r |-> acc[r + i]]

(* A backlog is a sequence. *)
LEMMA BacklogSeq ==
  ASSUME NEW S, NEW acc \in Seq(S), NEW r \in 0 .. Len(acc)
  PROVE  Backlog(acc, r) \in Seq(S) /\ Len(Backlog(acc, r)) = Len(acc) - r
<1>1. Len(acc) \in Nat /\ Len(acc) - r \in Nat
  BY LenProperties
<1>2. \A i \in 1 .. Len(acc) - r : acc[r + i] \in S
  BY <1>1, ElementOfSeq
<1>3. Backlog(acc, r) \in [1 .. Len(acc) - r -> S]
  BY <1>2 DEF Backlog
<1>4. Backlog(acc, r) \in Seq(S)
  BY <1>1, <1>3, SeqDef
<1> QED BY <1>1, <1>3, <1>4, LenProperties DEF Backlog

(* Accepting a batch appends it to the backlog. *)
LEMMA BacklogAppend ==
  ASSUME NEW S, NEW acc \in Seq(S), NEW r \in 0 .. Len(acc), NEW b \in S
  PROVE  Backlog(Append(acc, b), r) = Append(Backlog(acc, r), b)
<1> DEFINE n == Len(acc) - r
           L == Backlog(Append(acc, b), r)
           R == Append(Backlog(acc, r), b)
<1>1. /\ Len(acc) \in Nat /\ n \in Nat /\ r \in Nat
      /\ Append(acc, b) \in Seq(S) /\ Len(Append(acc, b)) = Len(acc) + 1
      /\ \A i \in 1 .. Len(acc) : Append(acc, b)[i] = acc[i]
      /\ Append(acc, b)[Len(acc) + 1] = b
  BY LenProperties, AppendProperties
<1>2. Backlog(acc, r) \in Seq(S) /\ Len(Backlog(acc, r)) = n
  BY BacklogSeq
<1>3. L \in Seq(S) /\ Len(L) = n + 1
  <2>1. r \in 0 .. Len(Append(acc, b))
    BY <1>1
  <2>2. L \in Seq(S) /\ Len(L) = Len(Append(acc, b)) - r
    BY <1>1, <2>1, BacklogSeq
  <2> HIDE DEF L
  <2> QED BY <1>1, <2>2
<1>4. /\ R \in Seq(S) /\ Len(R) = n + 1 /\ R[n + 1] = b
      /\ \A i \in 1 .. n : R[i] = Backlog(acc, r)[i]
  BY <1>1, <1>2, AppendProperties
<1>5. ASSUME NEW i \in 1 .. n + 1 PROVE L[i] = R[i]
  <2>1. L[i] = Append(acc, b)[r + i]
    <3>1. i \in 1 .. Len(Append(acc, b)) - r
      BY <1>1
    <3> QED BY <3>1 DEF Backlog
  <2>2. CASE i \in 1 .. n
    BY <1>1, <1>4, <2>1, <2>2 DEF Backlog
  <2>3. CASE i = n + 1
    BY <1>1, <1>4, <2>1, <2>3
  <2>4. i \in 1 .. n \/ i = n + 1
    BY <1>1
  <2> QED BY <2>2, <2>3, <2>4
<1> HIDE DEF n, L, R
<1>6. L = R
  BY <1>1, <1>3, <1>4, <1>5, SeqEqual
<1> QED BY <1>6 DEF L, R

(* Delivering a batch takes the head of the backlog. *)
LEMMA BacklogTail ==
  ASSUME NEW S, NEW acc \in Seq(S), NEW r \in 0 .. Len(acc), r < Len(acc)
  PROVE  /\ Backlog(acc, r) # << >> /\ Head(Backlog(acc, r)) = acc[r + 1]
         /\ Backlog(acc, r + 1) = Tail(Backlog(acc, r))
<1> DEFINE n == Len(acc) - r
           B == Backlog(acc, r)
           L == Backlog(acc, r + 1)
<1>1. Len(acc) \in Nat /\ n \in Nat /\ n >= 1 /\ r \in Nat
  BY LenProperties
<1>2. /\ B \in Seq(S) /\ Len(B) = n
      /\ \A i \in 1 .. n : B[i] = acc[r + i]
  BY BacklogSeq DEF Backlog
<1>3. /\ L \in Seq(S) /\ Len(L) = n - 1
      /\ \A i \in 1 .. n - 1 : L[i] = acc[r + 1 + i]
  <2>1. r + 1 \in 0 .. Len(acc)
    BY <1>1
  <2> QED BY <1>1, <2>1, BacklogSeq DEF Backlog
<1> HIDE DEF B, L
<1>4. B # << >>
  BY <1>1, <1>2, EmptySeq
<1>5. /\ Head(B) = B[1] /\ Tail(B) \in Seq(S) /\ Len(Tail(B)) = n - 1
      /\ \A i \in 1 .. n - 1 : Tail(B)[i] = B[i + 1]
  BY <1>2, <1>4, HeadTailProperties
<1>6. \A i \in 1 .. n - 1 : L[i] = Tail(B)[i]
  BY <1>1, <1>2, <1>3, <1>5
<1>7. L = Tail(B)
  BY <1>3, <1>5, <1>6, SeqEqual
<1> QED BY <1>1, <1>2, <1>4, <1>5, <1>7 DEF B, L

(* The ring read oldest first is the undelivered part of `accepted`. *)
RingIsBacklog == RingContents = Backlog(accepted, read_seq)

(* The invariant makes it so. *)
LEMMA RingContentsIsBacklog == QueueInv => RingIsBacklog
<1> SUFFICES ASSUME QueueInv PROVE RingIsBacklog
  OBVIOUS
<1>1. /\ write_seq \in Nat /\ read_seq \in Nat /\ read_seq <= write_seq
      /\ accepted \in Seq(Batches) /\ Len(accepted) = write_seq
  BY MaxSeqAssumption DEF QueueInv, TypeOK, WithinCapacity, Histories
<1>2. ASSUME NEW i \in 1 .. write_seq - read_seq
      PROVE  /\ Contents(slots[SlotOf(read_seq + i - 1)]) = accepted[read_seq + i]
             /\ accepted[read_seq + i] \in Batches
  <2>1. /\ read_seq + i - 1 \in read_seq .. write_seq - 1
        /\ (read_seq + i - 1) + 1 = read_seq + i /\ read_seq + i \in 1 .. Len(accepted)
    BY <1>1
  <2>2. slots[SlotOf(read_seq + i - 1)] = Whole(accepted[read_seq + i])
    BY <2>1 DEF QueueInv, RingHoldsUndelivered
  <2> QED BY <1>1, <2>1, <2>2 DEF Contents, Whole
<1> QED BY <1>1, <1>2 DEF RingContents, RingIsBacklog, Backlog

(* PushCommit is Put, PopCommit is Get and every other step stutters. *)
LEMMA RefineStep ==
  ASSUME QueueInv, RingIsBacklog, RingIsBacklog', [Next]_vars
  PROVE  [Fifo!Next]_<<RingContents, accepted, delivered>>
<1>1. /\ write_seq \in Nat /\ read_seq \in Nat /\ read_seq <= write_seq
      /\ write_seq - read_seq <= SlotCount
      /\ accepted \in Seq(Batches) /\ Len(accepted) = write_seq
      /\ delivered \in Seq(Batches \cup {Blank, Torn}) /\ Len(delivered) = read_seq
  BY MaxSeqAssumption DEF QueueInv, TypeOK, WithinCapacity, Histories
<1>2. /\ RingContents = Backlog(accepted, read_seq)
      /\ Len(RingContents) = write_seq - read_seq
  <2>1. read_seq \in 0 .. Len(accepted)
    BY <1>1
  <2> QED BY <1>1, <2>1, BacklogSeq DEF RingIsBacklog
<1>3. RingContents' = Backlog(accepted', read_seq')
  BY DEF RingIsBacklog, Backlog
<1>4. CASE PushCommit
  <2>1. /\ write_seq' = write_seq + 1 /\ read_seq' = read_seq /\ pbatch \in Batches
        /\ write_seq - read_seq < SlotCount
        /\ accepted' = Append(accepted, pbatch) /\ delivered' = delivered
    BY <1>4 DEF PushCommit, QueueInv, CallFrames
  <2>2. RingContents' = Backlog(Append(accepted, pbatch), read_seq)
    BY <1>3, <2>1
  <2>3. RingContents' = Append(RingContents, pbatch)
    <3>1. read_seq \in 0 .. Len(accepted)
      BY <1>1
    <3> QED BY <1>1, <1>2, <2>1, <2>2, <3>1, BacklogAppend
  <2> QED BY <1>2, <2>1, <2>3 DEF Fifo!Next, Fifo!Put
<1>5. CASE PopCommit
  <2>1. /\ write_seq' = write_seq /\ read_seq' = read_seq + 1 /\ read_seq < write_seq
        /\ accepted' = accepted /\ delivered' = Append(delivered, accepted[read_seq + 1])
    BY <1>1, <1>5 DEF PopCommit, QueueInv, CallFrames, CopiesInProgress, Contents, Whole
  <2>2. RingContents' = Backlog(accepted, read_seq + 1)
    BY <1>3, <2>1
  <2>3. /\ RingContents # << >> /\ Head(RingContents) = accepted[read_seq + 1]
        /\ RingContents' = Tail(RingContents)
    <3>1. read_seq \in 0 .. Len(accepted) /\ read_seq < Len(accepted)
      BY <1>1, <2>1
    <3>2. /\ Backlog(accepted, read_seq) # << >>
          /\ Head(Backlog(accepted, read_seq)) = accepted[read_seq + 1]
          /\ Backlog(accepted, read_seq + 1) = Tail(Backlog(accepted, read_seq))
      BY <1>1, <3>1, BacklogTail
    <3> QED BY <1>2, <2>2, <3>2
  <2> QED BY <2>1, <2>3 DEF Fifo!Next, Fifo!Get
<1>6. CASE ~PushCommit /\ ~PopCommit
  <2>1. UNCHANGED <<write_seq, read_seq, accepted, delivered>>
    BY <1>6
    DEF Next, Push, Pop, PushStart, PushReject, PushAdmit, PushFillLo, PushFillHi, PopStart,
        PopNothing, PopAdmit, PopCopyLo, PopCopyHi, vars, sharedVars, prodVars, consVars
  <2> QED BY <1>2, <1>3, <2>1
<1> QED BY <1>4, <1>5, <1>6

(* The shared-memory queue implements the bounded FIFO it is used as. *)
THEOREM QueueImplementsFifo == Spec => ImplementsFifo
<1>1. Init => Fifo!Init
  BY DEF Init, Fifo!Init, RingContents
<1>2. QueueInv /\ RingIsBacklog /\ RingIsBacklog' /\ [Next]_vars
      => [Fifo!Next]_<<RingContents, accepted, delivered>>
  BY RefineStep
<1> QED BY <1>1, <1>2, QueueInvariant, RingContentsIsBacklog, PTL DEF Spec, ImplementsFifo, Fifo!Spec, Fifo!fifoVars
=============================================================================
