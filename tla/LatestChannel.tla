--------------------------- MODULE LatestChannel ---------------------------
(***************************************************************************)
(* K230LatestChannel (ipc_channels.cc): the seqlock in /dev/shm through    *)
(* which one process shows its newest state (modelState, pandaState,       *)
(* controlState, roadAiFrame, ...) to the others.                          *)
(*                                                                         *)
(* One publisher and one reader, each step one access to the region.  The  *)
(* payload memcpy is two steps on both sides, so a copy that overlaps a    *)
(* publication shows as halves of different publications.  A payload half  *)
(* is named by the even sequence number its publication ends with.         *)
(*                                                                         *)
(* The publisher may die anywhere; the manager starts it again on the same *)
(* region, whose header is valid, so open() changes nothing.  The reader   *)
(* is poll() of k230_overlayd.cc: read() fills a local candidate and the   *)
(* state is replaced only by a snapshot with a new sequence number.        *)
(* payload_size is left out: every topic has one size, and the size is     *)
(* zero only while seq is 0 or odd.                                        *)
(***************************************************************************)
EXTENDS Naturals

CONSTANTS
  Attempts,   \* tries of one read(): 4
  MaxSeq      \* bound: the sequence number at which publications stop

ASSUME AttemptsAssumption == Attempts \in Nat \ {0}
ASSUME MaxSeqAssumption == MaxSeq \in Nat

VARIABLES
  seq,                       \* the atomic of K230IpcHeader
  payload,                   \* the shared bytes, in two halves
  ppc, base,                 \* publisher: place in publish(), its even seq
  rpc, attempt, before, buf, \* reader: place in read(), its locals, *payload
  last_seq, state            \* reader: sequence number and copy it keeps

pubVars == <<ppc, base>>
readVars == <<rpc, attempt, before, buf>>
kept == <<last_seq, state>>
vars == <<seq, payload, pubVars, readVars, kept>>

Even(n) == n % 2 = 0
Whole(n) == [lo |-> n, hi |-> n]

Init ==
  /\ seq = 0 /\ payload = Whole(0)
  /\ ppc = "idle" /\ base = 0
  /\ rpc = "idle" /\ attempt = 0 /\ before = 0 /\ buf = Whole(0)
  /\ last_seq = 0 /\ state = Whole(0)

-----------------------------------------------------------------------------
(* publish() *)

(* An odd seq left by a publisher that died is rounded up first. *)
PublishOpen ==
  /\ ppc = "idle"
  /\ seq < MaxSeq
  /\ base' = IF Even(seq) THEN seq ELSE seq + 1
  /\ seq' = base' + 1
  /\ ppc' = "copy_lo"
  /\ UNCHANGED <<payload, readVars, kept>>

PublishCopyLo ==
  /\ ppc = "copy_lo"
  /\ payload' = [lo |-> base + 2, hi |-> payload.hi]
  /\ ppc' = "copy_hi"
  /\ UNCHANGED <<seq, base, readVars, kept>>

PublishCopyHi ==
  /\ ppc = "copy_hi"
  /\ payload' = [lo |-> payload.lo, hi |-> base + 2]
  /\ ppc' = "close"
  /\ UNCHANGED <<seq, base, readVars, kept>>

PublishClose ==
  /\ ppc = "close"
  /\ seq' = base + 2
  /\ ppc' = "idle"
  /\ UNCHANGED <<payload, base, readVars, kept>>

(* The publisher dies inside publish() and its successor starts afresh. *)
PublisherRestart ==
  /\ ppc # "idle"
  /\ ppc' = "idle" /\ base' = 0
  /\ UNCHANGED <<seq, payload, readVars, kept>>

-----------------------------------------------------------------------------
(* read() *)

ReadCall ==
  /\ rpc = "idle"
  /\ rpc' = "load" /\ attempt' = 1
  /\ UNCHANGED <<seq, payload, pubVars, before, buf, kept>>

(* Nothing published yet, or a publication is under way: give up. *)
ReadUnavailable ==
  /\ rpc = "load"
  /\ seq = 0 \/ ~Even(seq)
  /\ rpc' = "idle"
  /\ before' = seq
  /\ UNCHANGED <<seq, payload, pubVars, attempt, buf, kept>>

ReadLoad ==
  /\ rpc = "load"
  /\ seq # 0 /\ Even(seq)
  /\ rpc' = "copy_lo"
  /\ before' = seq
  /\ UNCHANGED <<seq, payload, pubVars, attempt, buf, kept>>

ReadCopyLo ==
  /\ rpc = "copy_lo"
  /\ buf' = [lo |-> payload.lo, hi |-> buf.hi]
  /\ rpc' = "copy_hi"
  /\ UNCHANGED <<seq, payload, pubVars, attempt, before, kept>>

ReadCopyHi ==
  /\ rpc = "copy_hi"
  /\ buf' = [lo |-> buf.lo, hi |-> payload.hi]
  /\ rpc' = "check"
  /\ UNCHANGED <<seq, payload, pubVars, attempt, before, kept>>

UndisturbedUnlessOpen == Even(seq)
UndisturbedWhileOpen == seq = before /\ ~Even(seq)

Undisturbed == seq = before /\ Even(seq)

(* read() returns true; poll() keeps a snapshot it has not seen. *)
ReadDone ==
  /\ rpc = "check"
  /\ Undisturbed
  /\ rpc' = "idle"
  /\ last_seq' = seq
  /\ state' = IF seq # last_seq THEN buf ELSE state
  /\ UNCHANGED <<seq, payload, pubVars, attempt, before, buf>>

ReadAgain ==
  /\ rpc = "check"
  /\ ~Undisturbed
  /\ attempt < Attempts
  /\ rpc' = "load" /\ attempt' = attempt + 1
  /\ UNCHANGED <<seq, payload, pubVars, before, buf, kept>>

ReadGiveUp ==
  /\ rpc = "check"
  /\ ~Undisturbed
  /\ attempt = Attempts
  /\ rpc' = "idle"
  /\ UNCHANGED <<seq, payload, pubVars, attempt, before, buf, kept>>

-----------------------------------------------------------------------------

Publish == PublishOpen \/ PublishCopyLo \/ PublishCopyHi \/ PublishClose

Read == \/ ReadCall \/ ReadUnavailable \/ ReadLoad \/ ReadCopyLo \/ ReadCopyHi
        \/ ReadDone \/ ReadAgain \/ ReadGiveUp

Next == Publish \/ PublisherRestart \/ Read

Spec == Init /\ [][Next]_vars

(* The reader polls for ever (overlayd and controlsd every turn of their   *)
(* loops).  Nothing is assumed of the publisher.                           *)
FairSpec == Spec /\ WF_vars(Read)

-----------------------------------------------------------------------------
(* Properties *)

Halves == [lo : Nat, hi : Nat]

(* The type invariant. *)
TypeOK ==
  /\ seq \in Nat /\ payload \in Halves
  /\ ppc \in {"idle", "copy_lo", "copy_hi", "close"} /\ base \in Nat
  /\ rpc \in {"idle", "load", "copy_lo", "copy_hi", "check"}
  /\ attempt \in 0 .. Attempts /\ before \in Nat /\ buf \in Halves
  /\ last_seq \in Nat /\ state \in Halves

(* The state a process keeps is one whole publication, the one its         *)
(* sequence number names, however many publications and deaths of the      *)
(* publisher its reads overlapped.                                         *)
StateIsWhole == state = Whole(last_seq)

(* A process never goes back to an older snapshot, also across restarts of *)
(* the publisher.                                                          *)
NeverBackwards == [][state'.lo >= state.lo /\ state'.hi >= state.hi]_vars

(* A finished publication that is not replaced reaches a polling reader:   *)
(* `Attempts` bounds one call, never the exchange.                         *)
LatestArrives ==
  \A n \in {k \in 1 .. MaxSeq + 1 : Even(k)} : seq = n ~> (last_seq = n \/ seq # n)

-----------------------------------------------------------------------------
(* The inductive invariant behind StateIsWhole. *)

(* While a publication is open seq is odd; a closed one is whole. *)
RegionConsistent ==
  /\ ppc # "idle" => Even(base) /\ seq = base + 1
  /\ ppc = "close" => payload = Whole(base + 2)
  /\ ppc = "copy_hi" => payload.lo = base + 2
  /\ Even(seq) => payload = Whole(seq)

(* What a reader copied is good as long as seq has not moved. *)
CopyConsistent ==
  /\ rpc \in {"copy_lo", "copy_hi", "check"} => Even(before) /\ before <= seq
  /\ rpc = "copy_hi" /\ seq = before => buf.lo = before
  /\ rpc = "check" /\ seq = before => buf = Whole(before)

ChannelInv ==
  /\ TypeOK /\ RegionConsistent /\ CopyConsistent
  /\ StateIsWhole /\ last_seq <= seq
=============================================================================
