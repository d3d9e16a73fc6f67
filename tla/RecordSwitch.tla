---------------------------- MODULE RecordSwitch ---------------------------
(***************************************************************************)
(* recordd's main loop (k230_recordd.cc) between the switch of the         *)
(* recording, a file that the parameter page replaces, the encoder         *)
(* (mvx_v4l2_encoder.cc), which holds pictures and delivers each as a      *)
(* packet some time later, and the writer (recording_writer.cc), whose     *)
(* worker opens and closes the routes behind a queue.                      *)
(*                                                                         *)
(* The encoder codes its pictures in order, every Gop-th as a key picture, *)
(* and says its configuration once, before the first.  Its packets wait    *)
(* until the loop drains it.  A drain is one step here.  What becomes of   *)
(* the files is in Recording.                                              *)
(***************************************************************************)
EXTENDS Naturals, Sequences, SequencesExt

CONSTANTS
  Gop,          \* pictures from one key picture to the next
  RawBuffers,   \* pictures the encoder can hold: kBufferCount
  QueueLimit,   \* kMaximumPendingWrites
  MaxPictures,  \* bound: pictures of a life of recordd
  MaxSwitches,  \* bound: times the file is replaced
  MaxTrouble    \* bound: files that cannot be read, too little space, encoders that
                \* do not open, deadlines of drain_encoder() that pass, restarts

ASSUME SwitchAssumption ==
  /\ {Gop, RawBuffers, QueueLimit} \subseteq Nat \ {0}
  /\ {MaxPictures, MaxSwitches, MaxTrouble} \subseteq Nat

VARIABLES
  setting,   \* recording.json: enabled, and its revision
  recorder,  \* main(): running, config_revision, warmed, requested_enabled_
  coder,     \* the encoder: pictures it holds, how many of them are coded, pictures
             \* so far, and whether the configuration was delivered
  handed,    \* the writer's queue
  film,      \* the worker: codec_config_ is known, and the open route with its packets;
             \* history: recording was switched on again while it was open
  starts,    \* history: sessions so far; the last is that of the pictures taken now
  missing,   \* history: pictures late, that were left in the encoder when a drain gave
             \* up or the worker switched recording off, and lost, at a full queue
  trouble

switchVars == <<setting, recorder, coder, handed, film, starts, missing, trouble>>

NoRevision == MaxSwitches + 1
Complete == [late |-> {}, lost |-> {}]
NoRoute == [session |-> 0, packets |-> <<>>, again |-> FALSE]
NewRecorder == [pc |-> "starts", known |-> NoRevision, warmed |-> FALSE, requested |-> FALSE]
NewCoder == [held |-> <<>>, coded |-> 0, taken |-> 0, configured |-> FALSE]

SwitchInit ==
  /\ setting = [enabled |-> TRUE, revision |-> 0]
  /\ recorder = NewRecorder /\ coder = NewCoder
  /\ handed = <<>> /\ film = [config |-> FALSE, route |-> NoRoute]
  /\ starts = 0 /\ missing = Complete /\ trouble = 0

Trouble == trouble < MaxTrouble /\ trouble' = trouble + 1

(* The parameter page: the whole file is replaced. *)
SettingChanges ==
  /\ setting.revision < MaxSwitches
  /\ setting' = [enabled |-> ~setting.enabled, revision |-> setting.revision + 1]
  /\ UNCHANGED <<recorder, coder, handed, film, starts, missing, trouble>>

-----------------------------------------------------------------------------
(* The encoder *)

(* open(): formats, controls and buffers, all or none; without an encoder  *)
(* recordd ends and is started again.                                      *)
OpenEncoder ==
  /\ recorder.pc = "starts"
  /\ \/ recorder' = [recorder EXCEPT !.pc = "runs"] /\ UNCHANGED trouble
     \/ Trouble /\ UNCHANGED recorder
  /\ coder' = NewCoder
  /\ UNCHANGED <<setting, handed, film, starts, missing>>

PictureIsCoded ==
  /\ coder.coded < Len(coder.held)
  /\ coder' = [coder EXCEPT !.coded = @ + 1]
  /\ UNCHANGED <<setting, recorder, handed, film, starts, missing, trouble>>

(* The packets of the first n pictures, the configuration before the first *)
(* of all; the handler passes pictures on only while recording is on.      *)
Config == [kind |-> "config", picture |-> 0, key |-> FALSE, session |-> 0]
Packet(p) == [kind |-> "picture", picture |-> p.number, key |-> (p.number % Gop) = 1 % Gop, session |-> p.session]
Packets(n) ==
  (IF n > 0 /\ ~coder.configured THEN <<Config>> ELSE <<>>) \o
  (IF recorder.requested THEN [i \in 1 .. n |-> Packet(coder.held[i])] ELSE <<>>)

(* enqueue(): what finds the queue full is lost, unless it has to be kept. *)
Room(packets) == IF Len(handed) + Len(packets) <= QueueLimit THEN Len(packets)
                 ELSE IF Len(handed) < QueueLimit THEN QueueLimit - Len(handed) ELSE 0
Kept(packets) == SubSeq(packets, 1, Room(packets))
LostOf(packets) == {packets[i].picture : i \in Room(packets) + 1 .. Len(packets)}

Without(n) == [coder EXCEPT !.held = SubSeq(@, n + 1, Len(@)), !.coded = IF n < @ THEN @ - n ELSE 0,
                            !.configured = @ \/ n > 0]

-----------------------------------------------------------------------------
(* main() *)

(* submit_frame(): the packets that are ready are drained first; the first *)
(* picture warms the encoder up, and is taken without being asked for.     *)
TakesVideo == ~recorder.warmed \/ recorder.requested
HasFreeBuffer == Len(coder.held) - coder.coded < RawBuffers
Submitted(picture) ==
  [Without(coder.coded) EXCEPT !.held = Append(@, picture), !.taken = picture.number]

SubmitPicture ==
  /\ recorder.pc = "runs" /\ TakesVideo /\ coder.taken < MaxPictures /\ HasFreeBuffer
  /\ coder' = Submitted([number |-> coder.taken + 1, session |-> IF recorder.requested THEN starts ELSE 0])
  /\ handed' = handed \o Kept(Packets(coder.coded))
  /\ missing' = [missing EXCEPT !.lost = @ \cup LostOf(Packets(coder.coded))]
  /\ recorder' = [recorder EXCEPT !.warmed = TRUE]
  /\ UNCHANGED <<setting, film, starts, trouble>>

DrainPackets ==
  /\ recorder.pc = "runs" /\ coder.coded > 0
  /\ handed' = handed \o Kept(Packets(coder.coded)) /\ coder' = Without(coder.coded)
  /\ missing' = [missing EXCEPT !.lost = @ \cup LostOf(Packets(coder.coded))]
  /\ UNCHANGED <<setting, recorder, film, starts, trouble>>

(* drain_encoder(): all pictures, or those coded before the deadline. *)
DrainsUpTo(n, last) ==
  /\ coder' = Without(n)
  /\ handed' = Append(handed \o Kept(Packets(n)), last)
  /\ missing' = [late |-> missing.late \cup {coder.held[i].number : i \in n + 1 .. Len(coder.held)},
                 lost |-> missing.lost \cup LostOf(Packets(n))]

(* set_enabled() and close(); the write names, as a history, the session   *)
(* that starts, or the last picture that the route that ends should have,  *)
(* unless the worker has switched recording off before.                    *)
Asked(kind, opened, last) == [kind |-> kind, picture |-> last, key |-> FALSE, session |-> opened]
LastOf(n) == IF n = Len(coder.held) /\ recorder.requested THEN coder.taken ELSE 0

PollSetting ==
  /\ recorder.pc = "runs" /\ recorder.known # setting.revision
  /\ CASE setting.enabled /\ ~recorder.requested ->
            /\ handed' = Append(handed, Asked("enable", starts + 1, 0)) /\ starts' = starts + 1
            /\ recorder' = [recorder EXCEPT !.known = setting.revision, !.requested = TRUE]
            /\ UNCHANGED <<coder, missing, trouble>>
       [] ~setting.enabled /\ recorder.requested ->
            /\ recorder' = [recorder EXCEPT !.known = setting.revision, !.requested = FALSE]
            /\ \E n \in coder.coded .. Len(coder.held) :
                 /\ DrainsUpTo(n, Asked("disable", 0, LastOf(n)))
                 /\ IF n = Len(coder.held) THEN UNCHANGED trouble ELSE Trouble
            /\ UNCHANGED starts
       [] OTHER ->
            /\ recorder' = [recorder EXCEPT !.known = setting.revision]
            /\ UNCHANGED <<coder, handed, starts, missing, trouble>>
  /\ UNCHANGED <<setting, film>>

(* A file that cannot be parsed: its revision is known and not tried again. *)
SettingIsUnreadable ==
  /\ recorder.pc = "runs" /\ recorder.known # setting.revision /\ Trouble
  /\ recorder' = [recorder EXCEPT !.known = setting.revision]
  /\ UNCHANGED <<setting, coder, handed, film, starts, missing>>

(* The end of main(): the encoder is drained and the writer closed. *)
StopRecorder ==
  /\ recorder.pc = "runs" /\ Trouble
  /\ \E n \in coder.coded .. Len(coder.held) : DrainsUpTo(n, Asked("stop", 0, LastOf(n)))
  /\ recorder' = [recorder EXCEPT !.pc = "joins"]
  /\ UNCHANGED <<setting, film, starts>>

(* The manager starts another one when the worker is done. *)
RecorderRestarts ==
  /\ recorder.pc = "joins" /\ handed = <<>>
  /\ recorder' = NewRecorder /\ coder' = NewCoder /\ missing' = Complete
  /\ film' = [config |-> FALSE, route |-> NoRoute]
  /\ UNCHANGED <<setting, handed, starts, trouble>>

-----------------------------------------------------------------------------
(* The worker *)

AtOnce(reel, packet) == reel.session # 0

(* write_encoded_frame_impl(): the video of a route starts with a key      *)
(* picture, once the configuration is known.                               *)
Takes(reel, packet) ==
  /\ reel.session # 0
  /\ reel.packets = <<>> => packet.key /\ film.config

WorkerTakes(kind) == handed # <<>> /\ Head(handed).kind = kind /\ handed' = Tail(handed)

(* Too little space: the worker switches recording off, with pictures in   *)
(* the encoder.                                                            *)
WorkerSwitchesOff ==
  /\ Trouble /\ recorder' = [recorder EXCEPT !.requested = FALSE]
  /\ missing' = [missing EXCEPT !.late = @ \cup {coder.held[i].number : i \in DOMAIN coder.held}]

(* start_route() does not close the video of a route that is open.         *)
WorkerStarts ==
  LET again == film.route # NoRoute IN
  /\ WorkerTakes("enable")
  /\ \/ /\ film' = [film EXCEPT !.route.session = Head(handed).session, !.route.again = again]
        /\ UNCHANGED <<recorder, missing, trouble>>
     \/ WorkerSwitchesOff /\ film' = [film EXCEPT !.route.again = again]
  /\ UNCHANGED <<setting, coder, starts>>

WorkerEnds ==
  /\ WorkerTakes("disable") \/ WorkerTakes("stop")
  /\ film' = [film EXCEPT !.route = NoRoute]
  /\ UNCHANGED <<setting, recorder, coder, starts, missing, trouble>>

WorkerConfigures ==
  /\ WorkerTakes("config") /\ film' = [film EXCEPT !.config = TRUE]
  /\ UNCHANGED <<setting, recorder, coder, starts, missing, trouble>>

WorkerWrites ==
  /\ WorkerTakes("picture")
  /\ \/ /\ film' = IF Takes(film.route, Head(handed))
                   THEN [film EXCEPT !.route.packets = Append(@, Head(handed))] ELSE film
        /\ UNCHANGED <<recorder, missing, trouble>>
     \/ film.route # NoRoute /\ WorkerSwitchesOff /\ film' = [film EXCEPT !.route = NoRoute]
  /\ UNCHANGED <<setting, coder, starts>>

SwitchNext ==
  \/ SettingChanges \/ OpenEncoder \/ PictureIsCoded
  \/ SubmitPicture \/ DrainPackets \/ PollSetting \/ SettingIsUnreadable
  \/ StopRecorder \/ RecorderRestarts
  \/ WorkerStarts \/ WorkerEnds \/ WorkerConfigures \/ WorkerWrites

SwitchSpec == SwitchInit /\ [][SwitchNext]_switchVars

-----------------------------------------------------------------------------
(* Properties *)

Video == film.route.packets

(* Recording is switched on again while a route is open when a start that  *)
(* failed, or too little space, withdraws the request that opened it: it   *)
(* then goes on with the next session, and the pictures that were in the   *)
(* encoder meanwhile are not in it.  What follows is about the others.     *)
OneSession == ~film.route.again

(* What is recorded can be decoded: it starts with a key picture, after    *)
(* the configuration, and goes on picture by picture but for those that    *)
(* found the queue full.                                                   *)
VideoCanBeDecoded ==
  Video # <<>> =>
    /\ film.config /\ Video[1].key
    /\ \A i \in 2 .. Len(Video) : Video[i - 1].picture < Video[i].picture
    /\ OneSession => Video[1].picture .. Last(Video).picture
                       \subseteq {Video[i].picture : i \in DOMAIN Video} \cup missing.lost

(* A route has the pictures of its own session, in whatever state the      *)
(* switch found the encoder: those of another one are in it only when the  *)
(* drain at the end of that one gave up waiting or space ran out, and that *)
(* of no session when recording was switched on while it was in there.     *)
RoutesKeepToTheirSession ==
  OneSession => \A i \in DOMAIN Video :
    \/ Video[i].session \in {film.route.session, 0}
    \/ Video[i].picture \in missing.late

(* A session is not cut off: when its route is about to be closed, every   *)
(* picture taken since its first one was written, is past the deadline or  *)
(* found the queue full.                                                   *)
NothingIsCutOff ==
  OneSession /\ handed # <<>> /\ Head(handed).kind \in {"disable", "stop"} /\ Video # <<>> =>
    Last(Video).picture + 1 .. Head(handed).picture \subseteq missing.lost

SwitchIsRight == VideoCanBeDecoded /\ RoutesKeepToTheirSession /\ NothingIsCutOff

-----------------------------------------------------------------------------
(* The inductive invariant.  A reel is an open route, m is what is missing. *)

Ends == {"disable", "stop"}
Items == [kind : {"config", "picture", "enable"} \cup Ends, picture : Nat, key : BOOLEAN, session : Nat]

SwitchTypes ==
  /\ setting \in [enabled : BOOLEAN, revision : Nat]
  /\ recorder \in [pc : {"starts", "runs", "joins"}, known : Nat, warmed : BOOLEAN, requested : BOOLEAN]
  /\ coder \in [held : Seq([number : Nat, session : Nat]), coded : Nat, taken : Nat, configured : BOOLEAN]
  /\ coder.coded <= Len(coder.held)
  /\ handed \in Seq(Items)
  /\ film \in [config : BOOLEAN, route : [session : Nat, packets : Seq(Items), again : BOOLEAN]]
  /\ starts \in Nat /\ missing \in [late : SUBSET Nat, lost : SUBSET Nat]

(* The encoder holds the last pictures taken, those it was not asked for   *)
(* and those of the session that is on now or too late.                    *)
LeftEncoder == coder.taken - Len(coder.held)
EncoderInv ==
  /\ LeftEncoder \in Nat
  /\ \A i \in DOMAIN coder.held :
       /\ coder.held[i].number = LeftEncoder + i
       /\ \/ coder.held[i].session = 0 \/ (recorder.requested /\ coder.held[i].session = starts)
          \/ coder.held[i].number \in missing.late
  /\ recorder.pc = "starts" => coder = NewCoder /\ ~recorder.requested

(* What stands at place i of queue q goes to a route of session s. *)
Between(q, i, j, kinds) == \E m \in i + 1 .. j - 1 : q[m].kind \in kinds
LastAsked(q, i, s) ==
  \A e \in 1 .. i - 1 : q[e].kind = "enable" /\ ~Between(q, e, i, {"enable"}) => q[e].session = s
Follows(q, i, s, reel) ==
  LastAsked(q, i, s) /\ (Between(q, 0, i, {"enable"}) \/ reel.again \/ reel.session \in {0, s})

(* The packets queued are of pictures up to the last, in order, after those *)
(* of the route, and each of the session it will be written in.             *)
Pictures(q) == {i \in DOMAIN q : q[i].kind = "picture"}
QueuedUpTo(last, q, reel, m) ==
  \A i \in Pictures(q) :
    /\ q[i].picture <= last
    /\ \A j \in Pictures(q) : i < j => q[i].picture < q[j].picture
    /\ \A k \in DOMAIN reel.packets : reel.packets[k].picture < q[i].picture
    /\ q[i].session = 0 \/ q[i].picture \in m.late \/ Follows(q, i, q[i].session, reel)
HandedInv ==
  /\ QueuedUpTo(LeftEncoder, handed, film.route, missing)
  /\ recorder.requested => Follows(handed, Len(handed) + 1, starts, film.route)
  /\ \A i \in DOMAIN handed : handed[i].kind = "enable" => handed[i].session # 0

(* Up to the last, a session has every picture before place j of queue q,  *)
(* from the packet before, but for the lost ones.                          *)
Borders == {"picture", "enable"} \cup Ends
Whole(last, q, j, reel, m) ==
  /\ \A i \in Pictures(q) : i < j /\ ~Between(q, i, j, Borders) => q[i].picture + 1 .. last \subseteq m.lost
  /\ reel.packets # <<>> /\ ~reel.again /\ ~Between(q, 0, j, Borders) =>
       Last(reel.packets).picture + 1 .. last \subseteq m.lost
NothingMissing ==
  /\ \A j \in Pictures(handed) : Whole(handed[j].picture - 1, handed, j, film.route, missing)
  /\ \A j \in DOMAIN handed :
       handed[j].kind \in Ends => Whole(handed[j].picture, handed, j, film.route, missing)
  /\ recorder.pc = "runs" /\ recorder.requested =>
       Whole(LeftEncoder, handed, Len(handed) + 1, film.route, missing)

FilmInv ==
  /\ film.route.session = 0 => film.route = NoRoute
  /\ \A k \in DOMAIN Video : Video[k].picture <= LeftEncoder

SwitchInv == SwitchTypes /\ EncoderInv /\ HandedInv /\ NothingMissing /\ FilmInv /\ SwitchIsRight
=============================================================================
