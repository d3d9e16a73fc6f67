--------------------------- MODULE FramePipeline ---------------------------
(***************************************************************************)
(* The pictures of the road, from k230_camerad.cc through the ring         *)
(* K230FrameRing (ipc_channels.cc) to k230_modeld.cc, which runs the model *)
(* on them, and k230_recordd.cc, which hands the frames modeld selected to *)
(* the hardware encoder (mvx_v4l2_encoder.cc).                             *)
(*                                                                         *)
(* The ring is a seqlock per slot and is modelled at the grain of single   *)
(* accesses, the 1.4 MB of a picture as two halves.  The two small topics  *)
(* roadAiFrame and recordFrame are latest channels; their own module shows *)
(* that a reader sees them whole, so here they are atomic.  `cap` numbers  *)
(* the captured pictures for good; frame ids restart at 0 with camerad.    *)
(*                                                                         *)
(* Only one timing fact is used: the manager starts a dead camerad again   *)
(* after a second, by when a copy in progress has ended and every          *)
(* frame of the previous run is older than the 100 ms recordd accepts.     *)
(***************************************************************************)
EXTENDS Naturals, Sequences

CONSTANTS
  RingSlots,   \* kK230FrameSlots
  Attempts,    \* kCopyAttempts
  Buffers,     \* raw buffers of the encoder
  MaxFrames,   \* bound: frames of one run of camerad
  MaxRuns      \* bound: starts of camerad

ASSUME PipelineAssumption ==
  /\ RingSlots \in Nat \ {0} /\ Attempts \in Nat \ {0} /\ Buffers \in Nat \ {0}
  /\ MaxFrames \in Nat /\ MaxRuns \in Nat \ {0}

VARIABLES
  ring,             \* slot_seq, slot_frame_id and the picture
  cam, cap, run,    \* camerad: place and frame_id; pictures captured; its starts
  road, rec,        \* roadAiFrame and recordFrame: sequence number and frame
  reader, seen,     \* modeld and recordd: copy_slot_guarded(), last_frame_seq
  modelled,         \* history: <<meta, picture>> the model ran on
  free, raw, done,  \* encoder: free_raw_, queued pictures, buffers to reclaim
  pending, out,     \* encoder: pending_frames_, encoded pictures to dequeue
  streaming,        \* encoder: streaming_
  lost,             \* history: buffers that VIDIOC_STREAMOFF took off the queue
  written           \* history: <<meta, picture>> given to the writer

encoder == <<free, raw, done, pending, out, streaming, lost, written>>
camera == <<cam, cap, run>>
pipeVars == <<ring, camera, road, rec, reader, seen, modelled, encoder>>

Readers == {"modeld", "recordd"}
NoFrame == [id |-> 0, cap |-> 0, run |-> 0]
NoPicture == [lo |-> 0, hi |-> 0]
PictureOf(c) == [lo |-> c, hi |-> c]
PlaceOf(id) == id % RingSlots
Even(n) == n % 2 = 0
NeverWritten == MaxFrames   \* UINT64_MAX, larger than every frame id

PipeInit ==
  /\ ring = [i \in 0 .. RingSlots - 1 |-> [seq |-> 0, id |-> NeverWritten, lo |-> 0, hi |-> 0]]
  /\ cam = [pc |-> "read", id |-> 0] /\ cap = 0 /\ run = 1
  /\ road = [n |-> 0, frame |-> NoFrame] /\ rec = [n |-> 0, frame |-> NoFrame]
  /\ reader = [p \in Readers |-> [pc |-> "idle", frame |-> NoFrame, attempt |-> 0,
                                  before |-> 0, buf |-> NoPicture]]
  /\ seen = [p \in Readers |-> 0]
  /\ modelled = {}
  /\ free = Buffers /\ raw = << >> /\ done = 0
  /\ pending = << >> /\ out = << >> /\ streaming = FALSE /\ lost = 0
  /\ written = << >>

-----------------------------------------------------------------------------
(* camerad: write_slot(), then publish *)

CamGoes(pc) == cam' = [cam EXCEPT !.pc = pc]

WriteOpen ==
  LET s == PlaceOf(cam.id)
      q == ring[s].seq IN
  /\ cam.pc = "read"
  /\ cam.id < MaxFrames
  /\ cap' = cap + 1
  /\ ring' = [ring EXCEPT ![s].seq = IF Even(q) THEN q + 1 ELSE q + 2]
  /\ CamGoes("lo")
  /\ UNCHANGED <<run, road, rec, reader, seen, modelled, encoder>>

WriteLo ==
  /\ cam.pc = "lo"
  /\ ring' = [ring EXCEPT ![PlaceOf(cam.id)].lo = cap]
  /\ CamGoes("hi")
  /\ UNCHANGED <<cap, run, road, rec, reader, seen, modelled, encoder>>

WriteHi ==
  /\ cam.pc = "hi"
  /\ ring' = [ring EXCEPT ![PlaceOf(cam.id)].hi = cap]
  /\ CamGoes("id")
  /\ UNCHANGED <<cap, run, road, rec, reader, seen, modelled, encoder>>

WriteId ==
  /\ cam.pc = "id"
  /\ ring' = [ring EXCEPT ![PlaceOf(cam.id)].id = cam.id]
  /\ CamGoes("close")
  /\ UNCHANGED <<cap, run, road, rec, reader, seen, modelled, encoder>>

WriteClose ==
  /\ cam.pc = "close"
  /\ ring' = [ring EXCEPT ![PlaceOf(cam.id)].seq = ring[PlaceOf(cam.id)].seq + 1]
  /\ CamGoes("publish")
  /\ UNCHANGED <<cap, run, road, rec, reader, seen, modelled, encoder>>

PublishFrame ==
  /\ cam.pc = "publish"
  /\ road' = [n |-> road.n + 1, frame |-> [id |-> cam.id, cap |-> cap, run |-> run]]
  /\ cam' = [pc |-> "read", id |-> cam.id + 1]
  /\ UNCHANGED <<ring, cap, run, rec, reader, seen, modelled, encoder>>

(* camerad dies anywhere; a second later a new one counts from 0 on the    *)
(* same ring.                                                              *)
CameraRestart ==
  /\ run < MaxRuns
  /\ \A p \in Readers : reader[p].pc = "idle"
  /\ run' = run + 1
  /\ cam' = [pc |-> "read", id |-> 0]
  /\ UNCHANGED <<ring, cap, road, rec, reader, seen, modelled, encoder>>

-----------------------------------------------------------------------------
(* copy_slot_guarded(), the same code in modeld and recordd *)

Goes(p, r) == reader' = [reader EXCEPT ![p] = r]

TryAgain(p) ==
  Goes(p, [reader[p] EXCEPT !.pc = IF reader[p].attempt < Attempts THEN "load" ELSE "failed",
                            !.attempt = reader[p].attempt + 1])

CopyLoad(p) ==
  LET r == reader[p]
      q == ring[PlaceOf(r.frame.id)].seq IN
  /\ r.pc = "load"
  /\ IF q = 0 \/ ~Even(q) THEN TryAgain(p)
     ELSE Goes(p, [r EXCEPT !.pc = "id", !.before = q])
  /\ UNCHANGED <<ring, camera, road, rec, seen, modelled, encoder>>

CopyCheckId(p) ==
  LET r == reader[p]
      stored == ring[PlaceOf(r.frame.id)].id IN
  /\ r.pc = "id"
  /\ IF stored > r.frame.id THEN Goes(p, [r EXCEPT !.pc = "failed"])
     ELSE IF stored < r.frame.id THEN TryAgain(p)
     ELSE Goes(p, [r EXCEPT !.pc = "lo"])
  /\ UNCHANGED <<ring, camera, road, rec, seen, modelled, encoder>>

CopyLo(p) ==
  /\ reader[p].pc = "lo"
  /\ Goes(p, [reader[p] EXCEPT !.pc = "hi", !.buf.lo = ring[PlaceOf(reader[p].frame.id)].lo])
  /\ UNCHANGED <<ring, camera, road, rec, seen, modelled, encoder>>

CopyHi(p) ==
  /\ reader[p].pc = "hi"
  /\ Goes(p, [reader[p] EXCEPT !.pc = "check", !.buf.hi = ring[PlaceOf(reader[p].frame.id)].hi])
  /\ UNCHANGED <<ring, camera, road, rec, seen, modelled, encoder>>

Unchanged(p) ==
  LET s == ring[PlaceOf(reader[p].frame.id)] IN
  s.seq = reader[p].before /\ s.id = reader[p].frame.id

CopyCheck(p) ==
  /\ reader[p].pc = "check"
  /\ IF Unchanged(p) THEN Goes(p, [reader[p] EXCEPT !.pc = "copied"]) ELSE TryAgain(p)
  /\ UNCHANGED <<ring, camera, road, rec, seen, modelled, encoder>>

Copy(p) == CopyLoad(p) \/ CopyCheckId(p) \/ CopyLo(p) \/ CopyHi(p) \/ CopyCheck(p)

Copying(f) == [pc |-> "load", frame |-> f, attempt |-> 1, before |-> 0, buf |-> NoPicture]
Idle(p) == [reader[p] EXCEPT !.pc = "idle", !.buf = NoPicture]

-----------------------------------------------------------------------------
(* modeld: run_live() *)

ModelTake ==
  /\ reader["modeld"].pc = "idle"
  /\ road.n # seen["modeld"]
  /\ seen' = [seen EXCEPT !["modeld"] = road.n]
  /\ Goes("modeld", Copying(road.frame))
  /\ UNCHANGED <<ring, camera, road, rec, modelled, encoder>>

ModelSkip ==
  /\ reader["modeld"].pc = "failed"
  /\ Goes("modeld", Idle("modeld"))
  /\ UNCHANGED <<ring, camera, road, rec, seen, modelled, encoder>>

(* The frame goes to the recorder first, then through the model. *)
ModelRun ==
  /\ reader["modeld"].pc = "copied"
  /\ rec' = [n |-> rec.n + 1, frame |-> reader["modeld"].frame]
  /\ modelled' = modelled \cup {<<reader["modeld"].frame, reader["modeld"].buf>>}
  /\ Goes("modeld", Idle("modeld"))
  /\ UNCHANGED <<ring, camera, road, seen, encoder>>

-----------------------------------------------------------------------------
(* recordd and its encoder *)

(* drain(): every encoded picture goes to the writer with the oldest       *)
(* pending frame, every finished buffer is free again.                     *)
Drained == [i \in 1 .. Len(out) |-> <<pending[i], out[i]>>]

Drain ==
  /\ written' = written \o Drained
  /\ pending' = SubSeq(pending, Len(out) + 1, Len(pending))
  /\ out' = << >>
  /\ free' = free + done
  /\ done' = 0

(* A newly selected frame; too old a one is dropped, and so is one that    *)
(* finds no free buffer.                                                   *)
RecordTake ==
  /\ reader["recordd"].pc = "idle"
  /\ rec.n # seen["recordd"]
  /\ seen' = [seen EXCEPT !["recordd"] = rec.n]
  /\ \/ UNCHANGED <<reader, encoder>>
     \/ /\ rec.frame.run = run
        /\ Drain
        /\ reader' = IF free' = 0 THEN reader
                     ELSE [reader EXCEPT !["recordd"] = Copying(rec.frame)]
        /\ UNCHANGED <<raw, streaming, lost>>
  /\ UNCHANGED <<ring, camera, road, rec, modelled>>

RecordSkip ==
  /\ reader["recordd"].pc = "failed"
  /\ Goes("recordd", Idle("recordd"))
  /\ UNCHANGED <<ring, camera, road, rec, seen, modelled, encoder>>

(* start_streaming(): VIDIOC_STREAMON of the raw queue, then of the        *)
(* encoded one.  When the second fails the first is undone, and            *)
(* VIDIOC_STREAMOFF takes every buffer off the raw queue.                  *)
StartStreaming(start, queue) ==
  IF streaming \/ start = "ok" THEN streaming' = TRUE /\ raw' = queue /\ lost' = lost
  ELSE /\ streaming' = FALSE
       /\ raw' = IF start = "encoded refused" THEN << >> ELSE queue
       /\ lost' = IF start = "encoded refused" THEN lost + Len(queue) ELSE lost

(* Metadata only once the stream runs. *)
SubmitWithoutMetadata(queued, start) ==
  /\ IF queued THEN /\ free' = free - 1
                    /\ StartStreaming(start, Append(raw, reader["recordd"].buf))
                    /\ pending' = IF streaming' THEN Append(pending, reader["recordd"].frame)
                                  ELSE pending
     ELSE UNCHANGED <<raw, pending, free, streaming, lost>>
  /\ UNCHANGED <<done, out, written>>

(* submit_frame() after the copy: queueing the buffer may fail, and so may *)
(* starting the stream, which is then tried again with the next frame.     *)
Submit(queued, start) ==
  /\ IF queued THEN /\ pending' = Append(pending, reader["recordd"].frame)
                    /\ free' = free - 1
                    /\ StartStreaming(start, Append(raw, reader["recordd"].buf))
     ELSE UNCHANGED <<raw, pending, free, streaming, lost>>
  /\ UNCHANGED <<done, out, written>>

RecordSubmit ==
  /\ reader["recordd"].pc = "copied"
  /\ \E queued \in BOOLEAN, start \in {"ok", "raw refused", "encoded refused"} :
       Submit(queued, start)
  /\ Goes("recordd", Idle("recordd"))
  /\ UNCHANGED <<ring, camera, road, rec, seen, modelled>>

RecordDrain ==
  /\ reader["recordd"].pc = "idle"
  /\ pending # << >>
  /\ Drain
  /\ UNCHANGED <<ring, camera, road, rec, reader, seen, modelled, raw, streaming, lost>>

(* The hardware encodes what is queued, in order. *)
Encode ==
  /\ streaming /\ raw # << >>
  /\ raw' = Tail(raw) /\ out' = Append(out, Head(raw))
  /\ done' = done + 1
  /\ UNCHANGED <<ring, camera, road, rec, reader, seen, modelled, free, pending, streaming, lost, written>>

-----------------------------------------------------------------------------

Write == WriteOpen \/ WriteLo \/ WriteHi \/ WriteId \/ WriteClose \/ PublishFrame

Model == Copy("modeld") \/ ModelTake \/ ModelSkip \/ ModelRun

Record == Copy("recordd") \/ RecordTake \/ RecordSkip \/ RecordSubmit \/ RecordDrain

PipeNext == Write \/ CameraRestart \/ Model \/ Record \/ Encode

PipeSpec == PipeInit /\ [][PipeNext]_pipeVars

-----------------------------------------------------------------------------
(* Properties *)

Frames == [id : 0 .. MaxFrames, cap : Nat, run : 0 .. MaxRuns]
Pictures == [lo : Nat, hi : Nat]
Slots == [seq : Nat, id : 0 .. MaxFrames, lo : Nat, hi : Nat]
Copies == [pc : {"idle", "load", "id", "lo", "hi", "check", "copied", "failed"}, frame : Frames,
           attempt : 0 .. Attempts + 1, before : Nat, buf : Pictures]

(* The type invariant, and no encoder buffer leaks or is used twice.       *)
PipeTypeOK ==
  /\ ring \in [0 .. RingSlots - 1 -> Slots]
  /\ cam \in [pc : {"read", "lo", "hi", "id", "close", "publish"}, id : 0 .. MaxFrames]
  /\ cap \in Nat /\ run \in 1 .. MaxRuns
  /\ road \in [n : Nat, frame : Frames] /\ rec \in [n : Nat, frame : Frames]
  /\ reader \in [Readers -> Copies] /\ seen \in [Readers -> Nat]
  /\ modelled \subseteq Frames \X Pictures /\ written \in Seq(Frames \X Pictures)
  /\ pending \in Seq(Frames) /\ raw \in Seq(Pictures) /\ out \in Seq(Pictures)
  /\ free \in 0 .. Buffers /\ done \in Nat /\ lost \in Nat /\ streaming \in BOOLEAN
  /\ free + Len(raw) + done + lost = Buffers

(* A copy that succeeds is one whole picture, and the one its metadata     *)
(* names unless camerad was restarted after the frame was published.       *)
CopiedPictureIsWhole ==
  \A p \in Readers :
    reader[p].pc = "copied" =>
      /\ reader[p].buf.lo = reader[p].buf.hi
      /\ reader[p].frame.run = run => reader[p].buf = PictureOf(reader[p].frame.cap)

(* What is recorded is what the model saw: the frame and the very same     *)
(* picture (k230_modeld.cc: "The recorder follows the exact frame selected *)
(* by modeld"), although both copy it from the ring on their own and the   *)
(* encoder returns pictures without their metadata.  After a half failed   *)
(* start of the stream it does not hold: the metadata of the lost picture  *)
(* stays in pending_frames_ and goes with the next one.                    *)
RecordedAsModelled ==
  lost = 0 => \A i \in 1 .. Len(written) : written[i] \in modelled

(* No frame is recorded twice and their order is kept within a run.        *)
RecordedInOrder ==
  \A i, j \in 1 .. Len(written) :
    i < j => written[i][1].cap < written[j][1].cap

(* The inductive invariant.  While camerad writes a slot it is odd, and its *)
(* parts are those of the new picture as far as they are written; a slot   *)
(* that is even holds one picture.                                         *)
RingIsWritten ==
  LET s == ring[PlaceOf(cam.id)] IN
  /\ cam.pc \in {"lo", "hi", "id", "close"} => ~Even(s.seq)
  /\ cam.pc \in {"hi", "id", "close", "publish"} => s.lo = cap
  /\ cam.pc \in {"id", "close", "publish"} => s.hi = cap
  /\ cam.pc \in {"close", "publish"} => s.id = cam.id
  /\ cam.pc # "read" => cam.id < MaxFrames
  /\ \A i \in 0 .. RingSlots - 1 : Even(ring[i].seq) => ring[i].lo = ring[i].hi

(* A frame of this run that is in use stands in its slot until another     *)
(* frame of the run takes it.                                              *)
Stands(f) ==
  LET s == ring[PlaceOf(f.id)] IN
  /\ f.run <= run
  /\ f.run = run => /\ f.id < cam.id
                    /\ s.id = f.id /\ Even(s.seq) => s.lo = f.cap /\ s.hi = f.cap

FramesStand ==
  Stands(road.frame) /\ Stands(rec.frame) /\ \A p \in Readers : Stands(reader[p].frame)

(* What is copied of a slot is still there while its number is the same.   *)
CopyHolds(r) ==
  LET s == ring[PlaceOf(r.frame.id)] IN
  /\ r.pc \in {"id", "lo", "hi", "check"} => Even(r.before) /\ r.before <= s.seq
  /\ r.pc \in {"hi", "check"} /\ s.seq = r.before => r.buf.lo = s.lo
  /\ r.pc = "check" /\ s.seq = r.before => r.buf.hi = s.hi
  /\ r.pc \in {"load", "id", "lo", "hi", "check"} => r.attempt \in 1 .. Attempts

CopiesHold == \A p \in Readers : CopyHolds(reader[p])

(* Frames go from camerad to modeld to recordd in the order of capture.    *)
FlowsInOrder ==
  /\ road.frame.cap <= cap /\ (cam.pc # "read" => road.frame.cap < cap)
  /\ seen["modeld"] <= road.n /\ reader["modeld"].frame.cap <= road.frame.cap
  /\ road.n # seen["modeld"] => reader["modeld"].frame.cap < road.frame.cap
  /\ rec.frame.cap <= reader["modeld"].frame.cap
  /\ reader["modeld"].pc # "idle" => rec.frame.cap < reader["modeld"].frame.cap
  /\ seen["recordd"] <= rec.n /\ reader["recordd"].frame.cap <= rec.frame.cap
  /\ rec.n # seen["recordd"] => reader["recordd"].frame.cap < rec.frame.cap

(* What recordd copies is a frame of this run that the model ran on, and   *)
(* there is a buffer for it.                                               *)
WasModelled(f) == f.run = run /\ <<f, PictureOf(f.cap)>> \in modelled

SelectedIsModelled ==
  /\ rec.frame.run = run => WasModelled(rec.frame)
  /\ reader["recordd"].pc # "idle" => WasModelled(reader["recordd"].frame) /\ free > 0

(* Frames wait in the order they are recorded in.                          *)
Latest(c) ==
  /\ c <= reader["recordd"].frame.cap
  /\ reader["recordd"].pc # "idle" => c < reader["recordd"].frame.cap

WaitInOrder ==
  /\ \A i, j \in 1 .. Len(pending) : i < j => pending[i].cap < pending[j].cap
  /\ \A i \in 1 .. Len(written), j \in 1 .. Len(pending) : written[i][1].cap < pending[j].cap
  /\ \A i \in 1 .. Len(written) : Latest(written[i][1].cap)
  /\ \A i \in 1 .. Len(pending) : Latest(pending[i].cap)

(* The pictures in the encoder are those of the pending frames, unless one *)
(* was lost.                                                               *)
PairsAreKept ==
  /\ Len(pending) = Len(out) + Len(raw) + lost
  /\ lost = 0 => /\ \A i \in 1 .. Len(out) : <<pending[i], out[i]>> \in modelled
                 /\ \A i \in 1 .. Len(raw) : <<pending[Len(out) + i], raw[i]>> \in modelled

PipeInv ==
  /\ PipeTypeOK /\ RingIsWritten /\ FramesStand /\ CopiesHold /\ FlowsInOrder
  /\ SelectedIsModelled /\ WaitInOrder /\ PairsAreKept
  /\ CopiedPictureIsWhole /\ RecordedAsModelled /\ RecordedInOrder
=============================================================================
