----------------------------- MODULE Recording -----------------------------
(***************************************************************************)
(* The recorder behind recordd's main loop (recording_writer.cc): the main *)
(* thread hands writes to a worker through a bounded queue; the worker     *)
(* keeps the open route, its video segment and its event chunk in a tmpfs  *)
(* staging directory; a mover thread carries closed files to the SD card.  *)
(* recordd may die anywhere; a new one finds the staging directory as it   *)
(* was and has the mover recover it.                                       *)
(*                                                                         *)
(* Time is a free choice: whenever a record is written the 60 s of a       *)
(* segment or chunk, or the 5 s of the storage check, may have passed.     *)
(* Packets and records are numbered as they are handed over, and a file is *)
(* its header and those it holds.  road.hevc and frames.bin of a segment   *)
(* are one file, and writing to an open file does not fail.                *)
(*                                                                         *)
(* Faults names the operations that may fail:                              *)
(*   refused    too little free space when a route starts                  *)
(*   directory  creating the staging directory of a route                  *)
(*   chunk      opening an event chunk                                     *)
(*   full       too little free space while a route is written             *)
(*   segment    opening a segment, one of its two files being open already *)
(*   copy       copying a file to the SD card                              *)
(***************************************************************************)
EXTENDS Naturals, Sequences, FiniteSets, Functions

CONSTANTS
  MaxPending,   \* kMaximumPendingWrites
  Faults,       \* the operations that may fail
  MaxSent,      \* bound: packets and records handed over
  MaxSessions,  \* bound: times recording is switched on
  MaxParts,     \* bound: largest index of a segment or chunk
  MaxCrashes    \* bound: deaths of recordd

ASSUME RecordingAssumption ==
  /\ MaxPending \in Nat \ {0}
  /\ Faults \subseteq {"refused", "directory", "chunk", "full", "segment", "copy"}
  /\ MaxSent \in Nat /\ MaxSessions \in Nat /\ MaxParts \in Nat /\ MaxCrashes \in Nat

VARIABLES
  recordd, requested, queue,   \* main thread: its phase; requested_enabled_, queue_
  worker,                      \* worker thread: place in its loop
  route, routes,               \* route_path_ (0 when empty), history: session of each route
  chunk, segment,              \* event_chunk_index_, segment_index_
  events, video,               \* event_file_; video_file_ with index_file_
  staging, sd,                 \* the files of the two directories
  jobs, mover,                 \* StagingMover: queue_, the job being done
  sent, session, closed,       \* history: session of each item, sessions, closed files
  crashes, copy_failed,        \* history
  abandoned,                   \* history: a route started while another was open
  doubled,                     \* history: routes open when recording was switched on again
  reopened                     \* history: segments opened while the mover had their name

main == <<recordd, requested>>
open == <<route, routes, chunk, segment, events, video>>
disk == <<staging, sd>>
move == <<jobs, mover>>
history == <<sent, session, closed, crashes, copy_failed, abandoned, doubled, reopened>>
recVars == <<main, queue, worker, open, disk, move, history>>

NoFile == <<0, "none", 0>>
Empty == [head |-> FALSE, data |-> << >>]
HeadOnly == [Empty EXCEPT !.head = TRUE]
Shut == [file |-> NoFile, rel |-> 0, has |-> Empty]
IsOpen(f) == f.file # NoFile

RecInit ==
  /\ recordd = "running" /\ requested = FALSE /\ queue = << >> /\ worker = "ready"
  /\ route = 0 /\ routes = << >> /\ chunk = 0 /\ segment = 0
  /\ events = Shut /\ video = Shut
  /\ staging = << >> /\ sd = << >>
  /\ jobs = << >> /\ mover = [pc |-> "idle", file |-> NoFile, left |-> {}]
  /\ sent = << >> /\ session = 0 /\ closed = << >> /\ crashes = 0 /\ copy_failed = FALSE
  /\ abandoned = FALSE /\ doubled = {} /\ reopened = {}

-----------------------------------------------------------------------------
(* Main thread *)

Write(kind, n) == [kind |-> kind, n |-> n]
Control == {"enable", "disable", "stop"}

(* Switching on and off, were it dropped like any other write. *)
EnqueueDroppable(w) ==
  queue' = IF Len(queue) >= MaxPending THEN queue ELSE Append(queue, w)

EnqueueUnbounded(w) == queue' = Append(queue, w)

Enqueue(w) ==
  queue' = IF w.kind \notin Control /\ Len(queue) >= MaxPending THEN queue
           ELSE Append(queue, w)

(* set_enabled(); the value recording.json holds already is not applied. *)
SetEnabled(enabled) ==
  /\ recordd = "running"
  /\ requested # enabled
  /\ requested' = enabled
  /\ IF enabled THEN /\ session < MaxSessions
                     /\ session' = session + 1
                     /\ Enqueue(Write("enable", session'))
     ELSE Enqueue(Write("disable", 0)) /\ UNCHANGED session
  /\ UNCHANGED <<recordd, worker, open, disk, move, sent, closed, crashes, copy_failed,
                 abandoned, doubled, reopened>>

(* write_encoded_frame(), write_can() and write_state(). *)
Send(kind) ==
  /\ recordd = "running" /\ requested
  /\ Len(sent) < MaxSent
  /\ sent' = Append(sent, session)
  /\ Enqueue(Write(kind, Len(sent')))
  /\ UNCHANGED <<main, worker, open, disk, move, session, closed, crashes, copy_failed,
                 abandoned, doubled, reopened>>

(* close(): the worker is told to stop and joined, then the mover. *)
Close ==
  /\ recordd = "running"
  /\ recordd' = "closing" /\ requested' = FALSE
  /\ Enqueue(Write("stop", 0))
  /\ UNCHANGED <<worker, open, disk, move, history>>

WorkerJoined ==
  /\ recordd = "closing" /\ worker = "done"
  /\ recordd' = "draining"
  /\ UNCHANGED <<requested, queue, worker, open, disk, move, history>>

MoverJoinedEarly ==
  /\ recordd = "draining" /\ mover.pc = "idle"
  /\ recordd' = "stopped"
  /\ UNCHANGED <<requested, queue, worker, open, disk, move, history>>

MoverJoined ==
  /\ recordd = "draining" /\ mover.pc = "idle" /\ jobs = << >>
  /\ recordd' = "stopped"
  /\ UNCHANGED <<requested, queue, worker, open, disk, move, history>>

-----------------------------------------------------------------------------
(* Worker thread: files *)

(* A file of this name and contents among the others. *)
Put(file, has, files) == [f \in DOMAIN files \cup {file} |-> IF f = file THEN has ELSE files[f]]

Stored(f) == IF f.file \in DOMAIN staging THEN Put(f.file, f.has, staging) ELSE staging

SegmentFile(index) == <<route, "segment", index>>
ChunkFile(index) == <<route, "events", index>>
FileJob(file) == [tree |-> FALSE, route |-> file[1], file |-> file]
TreeJob(r) == [tree |-> TRUE, route |-> r, file |-> NoFile]

Opened(file, rel) == [file |-> file, rel |-> rel, has |-> HeadOnly]

(* One packet with its index record, or one event. *)
Written(f, n) == [f EXCEPT !.has.data = Append(f.has.data, n)]

(* What close_segment() and close_event_chunk() hand to the mover: paths   *)
(* built from the route and index of now.                                  *)
SegmentJob == IF IsOpen(video) THEN <<FileJob(SegmentFile(video.rel))>> ELSE << >>
ChunkJob == IF IsOpen(events) THEN <<FileJob(ChunkFile(chunk))>> ELSE << >>

Closing(f, files) == IF IsOpen(f) THEN Put(f.file, f.has, files) ELSE files

(* close_route(complete) *)
CloseRoute ==
  IF ~IsOpen(events) /\ route = 0
  THEN UNCHANGED <<route, segment, events, video, jobs, closed>>
  ELSE /\ jobs' = jobs \o SegmentJob \o ChunkJob
                       \o (IF route = 0 THEN << >> ELSE <<TreeJob(route)>>)
       /\ closed' = Closing(video, Closing(events, closed))
       /\ video' = Shut /\ events' = Shut /\ route' = 0 /\ segment' = 0

-----------------------------------------------------------------------------
(* Worker thread: one write at a time *)

Next1(kind) == worker = "ready" /\ queue # << >> /\ Head(queue).kind = kind

Taken == queue' = Tail(queue)
SwitchedOnAgain == doubled' = doubled \cup ({route} \ {0})

(* start_route() found too little space, or no staging directory. *)
StartRefused ==
  /\ Next1("enable") /\ Taken /\ SwitchedOnAgain
  /\ worker' = "unrequest"
  /\ \/ "refused" \in Faults /\ UNCHANGED <<route, routes, abandoned>>
     \/ /\ "directory" \in Faults
        /\ routes' = Append(routes, Head(queue).n) /\ route' = Len(routes')
        /\ abandoned' = (abandoned \/ route # 0)
  /\ UNCHANGED <<main, chunk, segment, events, video, disk, move,
                 sent, session, closed, crashes, copy_failed, reopened>>

(* start_route() could not open the first chunk: the route is closed. *)
StartBroken ==
  LET r == Len(routes) + 1 IN
  /\ "chunk" \in Faults
  /\ Next1("enable") /\ Taken /\ SwitchedOnAgain
  /\ worker' = "unrequest"
  /\ routes' = Append(routes, Head(queue).n)
  /\ chunk' = 0 /\ segment' = 0
  /\ jobs' = jobs \o (IF IsOpen(video) THEN <<FileJob(<<r, "segment", video.rel>>)>> ELSE << >>)
                  \o <<TreeJob(r)>>
  /\ closed' = Closing(video, closed)
  /\ video' = Shut /\ events' = Shut /\ route' = 0
  /\ abandoned' = (abandoned \/ route # 0)
  /\ UNCHANGED <<main, disk, mover, sent, session, crashes, copy_failed, reopened>>

(* The worker's requested_enabled_.store(false) after a failed start. *)
Unrequest ==
  /\ worker = "unrequest"
  /\ worker' = "ready" /\ requested' = FALSE
  /\ UNCHANGED <<recordd, queue, open, disk, move, history>>

StartRoute ==
  LET r == Len(routes) + 1
      first == <<r, "events", 0>> IN
  /\ Next1("enable") /\ Taken /\ SwitchedOnAgain
  /\ routes' = Append(routes, Head(queue).n)
  /\ route' = r /\ chunk' = 0 /\ segment' = 0
  /\ events' = Opened(first, 0)
  /\ staging' = Put(first, HeadOnly, staging)
  /\ abandoned' = (abandoned \/ route # 0)
  /\ UNCHANGED <<main, worker, video, sd, move, sent, session, closed, crashes, copy_failed, reopened>>

(* A route ends: switched off, stopped, or out of space while a frame is   *)
(* written, which also withdraws the request.                              *)
EndRoute ==
  /\ \/ Next1("disable") /\ UNCHANGED <<worker, requested>>
     \/ Next1("stop") /\ worker' = "done" /\ UNCHANGED requested
     \/ /\ "full" \in Faults /\ IsOpen(events)
        /\ Next1("key") \/ Next1("delta")
        /\ requested' = FALSE /\ UNCHANGED worker
  /\ Taken
  /\ CloseRoute
  /\ UNCHANGED <<recordd, routes, chunk, disk, mover, sent, session, crashes, copy_failed,
                 abandoned, doubled, reopened>>

(* Records and frames that find no file to go to; a key frame too, until   *)
(* the encoder's codec configuration has come.                             *)
Ignore ==
  /\ \/ Next1("event") /\ ~IsOpen(events)
     \/ Next1("delta") /\ (~IsOpen(events) \/ ~IsOpen(video))
     \/ Next1("key") /\ (~IsOpen(events) \/ ~IsOpen(video))
  /\ Taken
  /\ UNCHANGED <<main, worker, open, disk, move, history>>

AppendFrame ==
  /\ Next1("delta") \/ Next1("key")
  /\ IsOpen(events) /\ IsOpen(video)
  /\ Taken
  /\ video' = Written(video, Head(queue).n)
  /\ staging' = Stored(video')
  /\ UNCHANGED <<main, worker, route, routes, chunk, segment, events, sd, move, history>>

(* What the mover was given, by name, and has not moved yet. *)
WithMover == {job.file : job \in Range(jobs)} \cup mover.left \cup {mover.file}

(* The first segment, or after 60 s the next, starts with a key frame.     *)
OpenSegment ==
  LET index == IF IsOpen(video) THEN segment + 1 ELSE segment
      file == SegmentFile(index) IN
  /\ Next1("key") /\ IsOpen(events)
  /\ index <= MaxParts
  /\ Taken
  /\ segment' = index
  /\ \/ /\ video' = Written(Opened(file, index), Head(queue).n)
        /\ jobs' = jobs \o SegmentJob
        /\ staging' = Put(file, video'.has, staging)
     \/ /\ "segment" \in Faults
        /\ video' = Shut
        /\ jobs' = jobs \o SegmentJob \o <<FileJob(file)>>
        /\ staging' = Put(file, Empty, staging)
  /\ reopened' = reopened \cup ({file} \cap (WithMover \cup {job.file : job \in Range(SegmentJob)}))
  /\ closed' = Closing(video, closed)
  /\ UNCHANGED <<main, worker, route, routes, chunk, events, sd, mover,
                 sent, session, crashes, copy_failed, abandoned, doubled>>

AppendEvent ==
  /\ Next1("event") /\ IsOpen(events)
  /\ Taken
  /\ events' = Written(events, Head(queue).n)
  /\ staging' = Stored(events')
  /\ UNCHANGED <<main, worker, route, routes, chunk, segment, video, sd, move, history>>

(* 60 s of events: the next chunk; when it cannot be opened nothing more   *)
(* is written until the route is closed.                                   *)
OpenChunk ==
  LET file == ChunkFile(chunk + 1) IN
  /\ Next1("event") /\ IsOpen(events)
  /\ chunk < MaxParts
  /\ Taken
  /\ jobs' = jobs \o ChunkJob
  /\ closed' = Closing(events, closed)
  /\ chunk' = chunk + 1
  /\ \/ /\ events' = Written(Opened(file, chunk'), Head(queue).n)
        /\ staging' = Put(file, events'.has, staging)
     \/ "chunk" \in Faults /\ events' = Shut /\ UNCHANGED staging
  /\ UNCHANGED <<main, worker, route, routes, segment, video, sd, mover,
                 sent, session, crashes, copy_failed, abandoned, doubled, reopened>>

Work == \/ StartRefused \/ StartBroken \/ Unrequest \/ StartRoute \/ EndRoute
        \/ Ignore \/ AppendFrame \/ OpenSegment \/ AppendEvent \/ OpenChunk

-----------------------------------------------------------------------------
(* Mover thread *)

Staged(r) == {f \in DOMAIN staging : f[1] = r}

MoverTo(pc) == mover' = [mover EXCEPT !.pc = pc]
MoverLeaves(f, left) == mover' = [pc |-> IF left = {} THEN "idle" ELSE "next", file |-> f, left |-> left]
MoverDone == MoverLeaves(NoFile, mover.left)

(* A single file, or the files of a tree in the order of the directory. *)
MoveTake ==
  /\ mover.pc = "idle" /\ jobs # << >>
  /\ jobs' = Tail(jobs)
  /\ MoverLeaves(NoFile, IF Head(jobs).tree THEN Staged(Head(jobs).route) ELSE {Head(jobs).file})
  /\ UNCHANGED <<main, queue, worker, open, disk, history>>

(* copy_file() truncates the destination, unless there is no source. *)
MoveOpen ==
  /\ mover.pc = "next"
  /\ \E f \in mover.left :
       IF f \in DOMAIN staging
       THEN /\ sd' = Put(f, Empty, sd)
            /\ mover' = [pc |-> "copy", file |-> f, left |-> mover.left \ {f}]
       ELSE /\ MoverLeaves(NoFile, mover.left \ {f})
            /\ UNCHANGED sd
  /\ UNCHANGED <<main, queue, worker, open, staging, jobs, history>>

(* A file of no bytes is not moved: inserting an empty stream buffer fails.*)
MoveCopy ==
  /\ mover.pc = "copy"
  /\ \/ /\ staging[mover.file] # Empty
        /\ sd' = Put(mover.file, staging[mover.file], sd)
        /\ MoverTo("unlink") /\ UNCHANGED copy_failed
     \/ /\ staging[mover.file] = Empty
        /\ MoverDone /\ UNCHANGED <<sd, copy_failed>>
     \/ /\ "copy" \in Faults
        /\ MoverDone /\ copy_failed' = TRUE /\ UNCHANGED sd
  /\ UNCHANGED <<main, queue, worker, open, staging, jobs, sent, session, closed, crashes,
                 abandoned, doubled, reopened>>

MoveUnlink ==
  /\ mover.pc = "unlink"
  /\ staging' = Restrict(staging, DOMAIN staging \ {mover.file})
  /\ MoverDone
  /\ UNCHANGED <<main, queue, worker, open, sd, jobs, history>>

Move == MoveTake \/ MoveOpen \/ MoveCopy \/ MoveUnlink

-----------------------------------------------------------------------------
(* recordd dies: what stdio had not written is lost, and the next recordd  *)
(* has every staged route moved, in the order of the directory.            *)
Cut(has) ==
  {Empty} \cup {[head |-> TRUE, data |-> SubSeq(has.data, 1, k)] : k \in DOMAIN has.data}

Recovery == LET left == {f[1] : f \in DOMAIN staging} IN Bijection(1 .. Cardinality(left), left)

Crash ==
  /\ recordd \in {"running", "closing", "draining"}
  /\ crashes < MaxCrashes
  /\ crashes' = crashes + 1
  /\ \E e \in Cut(events.has), v \in Cut(video.has) :
       staging' = [f \in DOMAIN staging |->
                     IF f = events.file THEN e ELSE IF f = video.file THEN v ELSE staging[f]]
  /\ \E order \in Recovery : jobs' = [i \in DOMAIN order |-> TreeJob(order[i])]
  /\ mover' = [pc |-> "idle", file |-> NoFile, left |-> {}]
  /\ recordd' = "running" /\ requested' = FALSE /\ queue' = << >> /\ worker' = "ready"
  /\ route' = 0 /\ chunk' = 0 /\ segment' = 0
  /\ events' = Shut /\ video' = Shut
  /\ UNCHANGED <<routes, sd, sent, session, closed, copy_failed, abandoned, doubled, reopened>>

RecNext ==
  \/ \E enabled \in BOOLEAN : SetEnabled(enabled)
  \/ \E kind \in {"key", "delta", "event"} : Send(kind)
  \/ Close \/ WorkerJoined \/ MoverJoined
  \/ Work \/ Move \/ Crash

RecSpec == RecInit /\ [][RecNext]_recVars

(* The two threads run, and the main thread waits for them in close(). *)
RecFairSpec ==
  /\ RecSpec
  /\ WF_recVars(Work) /\ WF_recVars(Move) /\ WF_recVars(WorkerJoined) /\ WF_recVars(MoverJoined)

-----------------------------------------------------------------------------
(* Properties *)

Contents == [head : BOOLEAN, data : Seq(1 .. MaxSent)]
Droppable == {i \in DOMAIN queue : queue[i].kind \notin Control}
InOrder(data) == \A i, j \in DOMAIN data : i < j => data[i] < data[j]

(* The type invariant; the packets and records waiting for the worker      *)
(* never exceed kMaximumPendingWrites.                                     *)
RecTypeOK ==
  /\ recordd \in {"running", "closing", "draining", "stopped"} /\ requested \in BOOLEAN
  /\ worker \in {"ready", "unrequest", "done"} /\ Cardinality(Droppable) <= MaxPending
  /\ route \in 0 .. Len(routes)
  /\ chunk \in 0 .. MaxParts /\ segment \in 0 .. MaxParts
  /\ \A f \in DOMAIN staging : staging[f] \in Contents
  /\ \A f \in DOMAIN sd : sd[f] \in Contents

(* A file that was closed is never lost: at any time, through failed       *)
(* copies and deaths of recordd, one of the two directories has all of it. *)
(* Not so a segment whose opening failed half-way and is tried again, or   *)
(* one with the index of a segment of an abandoned route: the mover has a  *)
(* job of its name and may remove the new file.                            *)
ClosedFilesSurvive ==
  \A f \in DOMAIN closed \ reopened :
    \/ f \in DOMAIN staging /\ staging[f] = closed[f]
    \/ f \in DOMAIN sd /\ sd[f] = closed[f]

(* A route holds what was handed over between its own switching on and the *)
(* next switching off, in that order and nothing twice, however far the    *)
(* worker is behind and whatever the queue had to drop.  A route that is   *)
(* open when recording is switched on again goes on with that session.     *)
RoutesHoldTheirSession ==
  \A f \in DOMAIN closed :
    /\ InOrder(closed[f].data)
    /\ f[1] \notin doubled => \A i \in DOMAIN closed[f].data : sent[closed[f].data[i]] = routes[f[1]]

(* close() returns only when every closed file is on the SD card and gone  *)
(* from staging, also those of a recordd that died before (StagingMover:   *)
(* stop() "ends the thread after emptying the queue"); only files without  *)
(* a byte stay behind.                                                     *)
StopSavesClosed ==
  recordd = "stopped" /\ ~copy_failed /\ ~abandoned =>
    /\ \A f \in DOMAIN staging : staging[f] = Empty
    /\ \A f \in DOMAIN closed \ reopened : sd[f] = closed[f]

(* close() does return: neither thread waits for the other, and no full    *)
(* queue keeps the stop from the worker.                                   *)
CloseReturns == recordd = "closing" ~> recordd \in {"stopped", "running"}

(* The test of the writer: after close() the staging directory is empty.   *)
(* A start that fails withdraws a request made since, the next start opens *)
(* a route nobody can switch off, and the one after that abandons it.      *)
StopEmptiesStaging == recordd = "stopped" /\ ~copy_failed => DOMAIN staging = {}

-----------------------------------------------------------------------------
(* The inductive invariant: why it is so, part by part.                    *)

FileNames == Nat \X {"none", "segment", "events"} \X Nat
NamesARoute(f) == f[2] # "none" /\ f[1] \in 1 .. Len(routes)

RecTypes ==
  /\ queue \in Seq([kind : Control \cup {"key", "delta", "event"}, n : Nat])
  /\ sent \in Seq(Nat) /\ Len(sent) <= MaxSent
  /\ session \in Nat /\ routes \in Seq(Nat) /\ doubled \subseteq 1 .. Len(routes)
  /\ {events, video} \subseteq [file : FileNames, rel : Nat, has : Contents]
  /\ jobs \in Seq([tree : BOOLEAN, route : Nat, file : FileNames])
  /\ mover \in [pc : {"idle", "next", "copy", "unlink"}, file : FileNames, left : SUBSET FileNames]
  /\ staging \in [DOMAIN staging -> Contents] /\ sd \in [DOMAIN sd -> Contents]
  /\ closed \in [DOMAIN closed -> Contents] /\ DOMAIN closed \subseteq FileNames
  /\ IsFiniteSet(DOMAIN staging)
  /\ \A f \in DOMAIN staging : f \in FileNames /\ NamesARoute(f)

(* What stands at place i of the queue goes to a route of session s: the   *)
(* last switching on before it, or the route that is open, is of s.        *)
LastEnabled(q, i, s) ==
  \A e \in 1 .. i - 1 :
    q[e].kind = "enable" /\ (\A m \in e + 1 .. i - 1 : q[m].kind # "enable") => q[e].n = s
NoneEnabled(q, i) == \A e \in 1 .. i - 1 : q[e].kind # "enable"
OneSessionOpen == route \notin {0} \cup doubled
Belongs(i, s) ==
  LastEnabled(queue, i, s) /\ (NoneEnabled(queue, i) /\ OneSessionOpen => routes[route] = s)

QueueInv ==
  /\ \A i \in Droppable :
       /\ queue[i].n \in DOMAIN sent
       /\ \A j \in Droppable : i < j => queue[i].n < queue[j].n
       /\ Belongs(i, sent[queue[i].n])
  /\ requested => Belongs(Len(queue) + 1, session)

(* What an open file holds came before what is queued. *)
Holds(f, data) ==
  /\ InOrder(data)
  /\ \A k \in DOMAIN data :
       data[k] \in DOMAIN sent /\ (f[1] \notin doubled => sent[data[k]] = routes[f[1]])
DataOf(g) ==
  /\ g.has.head /\ Holds(g.file, g.has.data)
  /\ \A k \in DOMAIN g.has.data, i \in Droppable : g.has.data[k] < queue[i].n
DataInv == \A g \in {events, video} : IsOpen(g) => DataOf(g)

(* An open file is of the route, unless that was abandoned, and the mover  *)
(* leaves it alone.                                                        *)
FileOf(g) ==
  /\ NamesARoute(g.file) /\ g.file \notin DOMAIN closed
  /\ g.file[1] = route \/ (abandoned /\ g.file[1] \in doubled)
  /\ g.file \notin reopened =>
       g.file \in DOMAIN staging /\ staging[g.file] = g.has /\ g.file \notin WithMover
FilesInv ==
  /\ \A g \in {events, video} : IsOpen(g) => route # 0 /\ FileOf(g)
  /\ IsOpen(events) => events.file[2] = "events" /\ (events.file[1] = route => events.file[3] = chunk)
  /\ IsOpen(video) => video.file[2] = "segment" /\ (video.file[1] = route => video.file[3] = segment)

(* The names of closed files are not used again. *)
NextPart(f) == IF f[2] = "segment" THEN segment ELSE chunk
ClosedOf(f, has) ==
  /\ NamesARoute(f) /\ has.head /\ Holds(f, has.data)
  /\ f[1] = route => f[3] < NextPart(f)
  /\ f \notin reopened => IF f \in DOMAIN staging THEN staging[f] = has
                          ELSE f \in DOMAIN sd /\ sd[f] = has
ClosedInv == \A f \in DOMAIN closed : ClosedOf(f, closed[f])

(* The mover removes only what it has copied. *)
MoverInv ==
  /\ mover.pc = "idle" => mover.left = {}
  /\ mover.pc \in {"idle", "next"} => mover.file = NoFile
  /\ mover.pc \in {"copy", "unlink"} => mover.file \in DOMAIN staging
  /\ mover.pc = "unlink" /\ mover.file \notin reopened =>
       mover.file \in DOMAIN sd /\ sd[mover.file] = staging[mover.file]

(* What the mover was given is not open, nor of the route. *)
JobOf(f) == f # NoFile => NamesARoute(f) /\ (f[1] = route /\ f[2] = "events" => f[3] < chunk)
TreeJobOf(job) ==
  job.tree =>
    /\ job.file = NoFile /\ job.route \in 1 .. Len(routes) \ {route}
    /\ \A g \in {events, video} : IsOpen(g) => job.route # g.file[1]
JobsInv == (\A f \in WithMover : JobOf(f)) /\ \A job \in Range(jobs) : TreeJobOf(job)

(* Whatever is staged will be moved, or is of the route. *)
HasTreeJob(r) == \E job \in Range(jobs) : job.tree /\ job.route = r
CoverInv ==
  ~copy_failed /\ ~abandoned =>
    \A f \in DOMAIN staging : staging[f] = Empty \/ f[1] = route \/ f \in WithMover \/ HasTreeJob(f[1])

PhaseInv ==
  /\ worker = "done" => route = 0
  /\ recordd \in {"draining", "stopped"} => worker = "done"
  /\ recordd = "stopped" => jobs = << >> /\ mover.pc = "idle"

RecInv ==
  RecTypeOK /\ RecTypes /\ QueueInv /\ DataInv /\ FilesInv /\ ClosedInv /\ MoverInv /\ JobsInv
    /\ CoverInv /\ PhaseInv
=============================================================================
