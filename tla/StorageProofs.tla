---------------------------- MODULE StorageProofs ---------------------------
(***************************************************************************)
(* Proofs about Storage and three modules it composes: Recording, the      *)
(* writer with its worker, its mover and the files, RecordSwitch, the main *)
(* loop with the switch and the encoder, and TorqueCache, for every length *)
(* of a queue, number of sessions and pictures, fit, and every fault.      *)
(*                                                                         *)
(* None of the properties is inductive as it stands.  RecInv adds what     *)
(* each file open, closed or waiting holds of the events sent, and who has *)
(* still to move it; SwitchInv adds what the encoder and the queue hold of *)
(* each session; CacheInv the factor in the file.  Every action keeps the  *)
(* one it moves.                                                           *)
(***************************************************************************)
EXTENDS Storage, SequenceTheorems, FiniteSetTheorems, TLAPS

-----------------------------------------------------------------------------
(* Sequences and files                                                     *)

LEMMA RecordingConstants ==
  MaxPending \in Nat \ {0} /\ MaxSent \in Nat /\ MaxSessions \in Nat /\ MaxParts \in Nat /\ MaxCrashes \in Nat
BY RecordingAssumption

LEMMA PutIs ==
  ASSUME NEW file, NEW has, NEW files
  PROVE  /\ DOMAIN Put(file, has, files) = DOMAIN files \cup {file}
         /\ Put(file, has, files)[file] = has
         /\ \A f \in DOMAIN files : f # file => Put(file, has, files)[f] = files[f]
<1>1. DOMAIN Put(file, has, files) = DOMAIN files \cup {file}
  BY DEF Put
<1>2. Put(file, has, files)[file] = has
  BY DEF Put
<1>3. ASSUME NEW f \in DOMAIN files, f # file PROVE Put(file, has, files)[f] = files[f]
  BY <1>3 DEF Put
<1>4. \A f \in DOMAIN files : f # file => Put(file, has, files)[f] = files[f]
  BY <1>3
<1> QED BY <1>1, <1>2, <1>4, Zenon

LEMMA PutType ==
  ASSUME NEW S, NEW file, NEW has \in S, NEW files, files \in [DOMAIN files -> S]
  PROVE  Put(file, has, files) \in [DOMAIN Put(file, has, files) -> S]
<1> DEFINE p == Put(file, has, files)
<1>1. p = [f \in DOMAIN files \cup {file} |-> IF f = file THEN has ELSE files[f]]
  BY DEF Put
<1>2. DOMAIN p = DOMAIN files \cup {file}
  BY PutIs
<1>3. \A f \in DOMAIN files : files[f] \in S
  OBVIOUS
<1>4. \A f \in DOMAIN files \cup {file} : (IF f = file THEN has ELSE files[f]) \in S
  BY <1>3
<1>5. [f \in DOMAIN files \cup {file} |-> IF f = file THEN has ELSE files[f]]
        \in [DOMAIN files \cup {file} -> S]
  BY <1>4, Zenon
<1> QED BY <1>1, <1>2, <1>5

LEMMA ClosingIs ==
  ASSUME NEW g, NEW files
  PROVE  /\ ~IsOpen(g) => Closing(g, files) = files
         /\ IsOpen(g) => Closing(g, files) = Put(g.file, g.has, files)
BY DEF Closing

LEMMA TailIs ==
  ASSUME NEW S, NEW q \in Seq(S), q # << >>
  PROVE  /\ Tail(q) \in Seq(S) /\ Head(q) = q[1] /\ q[1] \in S
         /\ Len(q) \in Nat \ {0} /\ Len(Tail(q)) = Len(q) - 1
         /\ DOMAIN q = 1 .. Len(q) /\ DOMAIN Tail(q) = 1 .. Len(q) - 1
         /\ \A i \in 1 .. Len(q) - 1 : Tail(q)[i] = q[i + 1]
BY HeadTailProperties

LEMMA AppendIs ==
  ASSUME NEW S, NEW q \in Seq(S), NEW w \in S
  PROVE  /\ Append(q, w) \in Seq(S)
         /\ Len(q) \in Nat /\ Len(Append(q, w)) = Len(q) + 1
         /\ DOMAIN q = 1 .. Len(q) /\ DOMAIN Append(q, w) = 1 .. Len(q) + 1
         /\ Append(q, w)[Len(q) + 1] = w
         /\ \A i \in 1 .. Len(q) : Append(q, w)[i] = q[i]
BY AppendProperties

LEMMA FileNamesAre ==
  /\ NoFile \in FileNames /\ NoFile[1] = 0 /\ NoFile[2] = "none"
  /\ \A r \in Nat, kind \in {"none", "segment", "events"}, index \in Nat :
       LET f == <<r, kind, index>> IN
       f \in FileNames /\ f[1] = r /\ f[2] = kind /\ f[3] = index
  /\ \A f \in FileNames : f[1] \in Nat /\ f[3] \in Nat
BY DEF FileNames, NoFile

LEMMA RouteNamesAre ==
  ASSUME route \in Nat, NEW index \in Nat
  PROVE  /\ SegmentFile(index) \in FileNames /\ SegmentFile(index)[1] = route
         /\ SegmentFile(index)[2] = "segment" /\ SegmentFile(index)[3] = index
         /\ ChunkFile(index) \in FileNames /\ ChunkFile(index)[1] = route
         /\ ChunkFile(index)[2] = "events" /\ ChunkFile(index)[3] = index
BY FileNamesAre DEF SegmentFile, ChunkFile

LEMMA ContentsAre ==
  /\ Empty \in Contents /\ HeadOnly \in Contents
  /\ Empty.head = FALSE /\ Empty.data = << >> /\ HeadOnly.head = TRUE /\ HeadOnly.data = << >>
  /\ Shut.file = NoFile /\ ~IsOpen(Shut) /\ Shut \in [file : FileNames, rel : Nat, has : Contents]
<1>1. << >> \in Seq(1 .. MaxSent)
  OBVIOUS
<1> QED BY <1>1, FileNamesAre DEF Empty, HeadOnly, Contents, Shut, IsOpen

LEMMA InOrderEmpty == InOrder(<< >>)
BY DEF InOrder

LEMMA WrittenIs ==
  ASSUME NEW g \in [file : FileNames, rel : Nat, has : Contents], NEW n \in 1 .. MaxSent
  PROVE  /\ Written(g, n) \in [file : FileNames, rel : Nat, has : Contents]
         /\ Written(g, n).file = g.file /\ Written(g, n).has.head = g.has.head
         /\ Written(g, n).has.data = Append(g.has.data, n)
         /\ g.has.data \in Seq(1 .. MaxSent)
<1>1. g.has.data \in Seq(1 .. MaxSent) /\ g.has.head \in BOOLEAN
  BY DEF Contents
<1>2. Append(g.has.data, n) \in Seq(1 .. MaxSent)
  BY <1>1
<1> QED BY <1>1, <1>2 DEF Written, Contents

LEMMA OpenedIs ==
  ASSUME NEW file \in FileNames, NEW rel \in Nat
  PROVE  /\ Opened(file, rel) \in [file : FileNames, rel : Nat, has : Contents]
         /\ Opened(file, rel).file = file /\ Opened(file, rel).has = HeadOnly
BY ContentsAre DEF Opened

-----------------------------------------------------------------------------
(* What is queued                                                          *)

LEMMA LastEnabledTail ==
  ASSUME NEW S, NEW q \in Seq(S), q # << >>, NEW i \in 1 .. Len(q), NEW s, LastEnabled(q, i + 1, s)
  PROVE  /\ LastEnabled(Tail(q), i, s)
         /\ NoneEnabled(Tail(q), i) /\ Head(q).kind # "enable" => NoneEnabled(q, i + 1)
         /\ NoneEnabled(Tail(q), i) /\ Head(q).kind = "enable" => Head(q).n = s
<1>1. Len(q) \in Nat \ {0} /\ Head(q) = q[1] /\ \A j \in 1 .. Len(q) - 1 : Tail(q)[j] = q[j + 1]
  BY TailIs
<1>2. \A e \in 1 .. i - 1 : Tail(q)[e] = q[e + 1]
  BY <1>1
<1>3. LastEnabled(Tail(q), i, s)
  <2> SUFFICES ASSUME NEW e \in 1 .. i - 1, Tail(q)[e].kind = "enable",
                      \A m \in e + 1 .. i - 1 : Tail(q)[m].kind # "enable"
               PROVE  Tail(q)[e].n = s
    BY DEF LastEnabled
  <2>1. e + 1 \in 1 .. (i + 1) - 1 /\ q[e + 1].kind = "enable"
    BY <1>2
  <2>2. ASSUME NEW m \in (e + 1) + 1 .. (i + 1) - 1 PROVE q[m].kind # "enable"
    <3>1. m - 1 \in e + 1 .. i - 1 /\ m - 1 \in 1 .. i - 1 /\ (m - 1) + 1 = m
      OBVIOUS
    <3> QED BY <3>1, <1>2
  <2> QED BY <2>1, <2>2, <1>2 DEF LastEnabled
<1>4. ASSUME NoneEnabled(Tail(q), i), NEW m \in 2 .. i
      PROVE  q[m].kind # "enable"
  <2>1. m - 1 \in 1 .. i - 1 /\ (m - 1) + 1 = m
    OBVIOUS
  <2> QED BY <2>1, <1>2, <1>4 DEF NoneEnabled
<1>5. ASSUME NoneEnabled(Tail(q), i), Head(q).kind # "enable" PROVE NoneEnabled(q, i + 1)
  BY <1>1, <1>4, <1>5 DEF NoneEnabled
<1>6. ASSUME NoneEnabled(Tail(q), i), Head(q).kind = "enable" PROVE Head(q).n = s
  <2>1. 1 \in 1 .. (i + 1) - 1 /\ \A m \in 1 + 1 .. (i + 1) - 1 : q[m].kind # "enable"
    BY <1>4, <1>6
  <2> QED BY <2>1, <1>1, <1>6 DEF LastEnabled
<1> QED BY <1>3, <1>5, <1>6

LEMMA LastEnabledAppend ==
  ASSUME NEW S, NEW q \in Seq(S), NEW w \in S, NEW i \in 1 .. Len(q) + 1, NEW s
  PROVE  /\ LastEnabled(q, i, s) => LastEnabled(Append(q, w), i, s)
         /\ NoneEnabled(Append(q, w), i) => NoneEnabled(q, i)
<1>1. Len(q) \in Nat /\ \A j \in 1 .. Len(q) : Append(q, w)[j] = q[j]
  BY AppendIs
<1>2. \A j \in 1 .. i - 1 : Append(q, w)[j] = q[j]
  BY <1>1
<1> QED BY <1>1, <1>2 DEF LastEnabled, NoneEnabled

LEMMA LastEnabledAfter ==
  ASSUME NEW S, NEW q \in Seq(S), NEW w \in S, NEW s,
         IF w.kind = "enable" THEN w.n = s ELSE LastEnabled(q, Len(q) + 1, s)
  PROVE  /\ LastEnabled(Append(q, w), Len(q) + 2, s)
         /\ NoneEnabled(Append(q, w), Len(q) + 2) => w.kind # "enable" /\ NoneEnabled(q, Len(q) + 1)
<1>1. Len(q) \in Nat /\ Append(q, w)[Len(q) + 1] = w /\ \A j \in 1 .. Len(q) : Append(q, w)[j] = q[j]
  BY AppendIs
<1>2. ASSUME NEW e \in 1 .. Len(q) + 1, Append(q, w)[e].kind = "enable",
             \A m \in e + 1 .. Len(q) + 1 : Append(q, w)[m].kind # "enable"
      PROVE  Append(q, w)[e].n = s
  <2>1. CASE e = Len(q) + 1
    BY <2>1, <1>1, <1>2
  <2>2. CASE e # Len(q) + 1
    <3>1. e \in 1 .. Len(q) /\ Len(q) + 1 \in e + 1 .. Len(q) + 1
      BY <2>2, <1>1
    <3>2. w.kind # "enable" /\ \A m \in e + 1 .. Len(q) : q[m].kind # "enable"
      BY <3>1, <1>1, <1>2
    <3> QED BY <3>1, <3>2, <1>1, <1>2 DEF LastEnabled
  <2> QED BY <2>1, <2>2
<1>3. (Len(q) + 2) - 1 = Len(q) + 1 /\ (Len(q) + 1) - 1 = Len(q)
  BY <1>1
<1>4. LastEnabled(Append(q, w), Len(q) + 2, s)
  BY <1>2, <1>3 DEF LastEnabled
<1>5. NoneEnabled(Append(q, w), Len(q) + 2) => w.kind # "enable" /\ NoneEnabled(q, Len(q) + 1)
  BY <1>1, <1>3 DEF NoneEnabled
<1> QED BY <1>4, <1>5

-----------------------------------------------------------------------------
(* Steps that leave a part alone                                           *)

LEMMA RoutesAre ==
  ASSUME RecTypes, RecTypeOK
  PROVE  route \in Nat /\ route <= Len(routes) /\ Len(routes) \in Nat /\ DOMAIN routes = 1 .. Len(routes)
         /\ chunk \in Nat /\ segment \in Nat /\ Len(sent) \in Nat /\ DOMAIN sent = 1 .. Len(sent)
         /\ Len(queue) \in Nat /\ DOMAIN queue = 1 .. Len(queue) /\ DOMAIN jobs = 1 .. Len(jobs)
BY RecordingConstants DEF RecTypes, RecTypeOK

LEMMA FilesFrame ==
  ASSUME FilesInv, UNCHANGED <<open, staging, mover, jobs, closed, abandoned, reopened>>,
         doubled \subseteq doubled'
  PROVE  FilesInv'
<1>1. /\ events' = events /\ video' = video /\ route' = route /\ chunk' = chunk /\ segment' = segment
      /\ routes' = routes /\ staging' = staging /\ WithMover' = WithMover /\ closed' = closed
      /\ abandoned' = abandoned /\ reopened' = reopened
  BY DEF open, WithMover
<1>2. \A g : FileOf(g) => FileOf(g)'
  BY <1>1 DEF FileOf, NamesARoute
<1>3. ASSUME NEW g \in {events', video'}, IsOpen(g) PROVE route' # 0 /\ FileOf(g)'
  BY <1>1, <1>2, <1>3 DEF FilesInv
<1> QED BY <1>1, <1>3 DEF FilesInv

(* Closed files are looked at by their contents, or by their place.        *)
LEMMA HoldsFrame ==
  ASSUME RecTypes, RecTypeOK, RecTypes',
         Len(routes) <= Len(routes)', \A r \in 1 .. Len(routes) : routes'[r] = routes[r],
         doubled \subseteq doubled',
         Len(sent) <= Len(sent)', \A i \in 1 .. Len(sent) : sent'[i] = sent[i],
         NEW f, f[1] \in 1 .. Len(routes), NEW data, Holds(f, data)
  PROVE  Holds(f, data)'
<1>0. sent \in Seq(Nat) /\ sent' \in Seq(Nat)
  BY DEF RecTypes
<1>1. DOMAIN sent = 1 .. Len(sent) /\ DOMAIN sent' = 1 .. Len(sent)' /\ Len(sent) \in Nat /\ Len(sent)' \in Nat
  BY <1>0, LenProperties
<1>2. DOMAIN sent \subseteq DOMAIN sent'
  BY <1>1
<1>3. \A k \in DOMAIN data : data[k] \in DOMAIN sent => sent'[data[k]] = sent[data[k]]
  BY <1>1
<1> QED BY <1>2, <1>3 DEF Holds

LEMMA ClosedOfIs ==
  ASSUME RecTypes, RecTypeOK, RecTypes',
         Len(routes) <= Len(routes)', \A r \in 1 .. Len(routes) : routes'[r] = routes[r],
         doubled \subseteq doubled',
         Len(sent) <= Len(sent)', \A i \in 1 .. Len(sent) : sent'[i] = sent[i],
         NEW f, NEW has, NamesARoute(f), has.head, Holds(f, has.data),
         f[1] = route' => f[3] < NextPart(f)',
         f \notin reopened' => IF f \in DOMAIN staging' THEN staging'[f] = has
                              ELSE f \in DOMAIN sd' /\ sd'[f] = has
  PROVE  ClosedOf(f, has)'
<1>0. routes' \in Seq(Nat)
  BY DEF RecTypes
<1>1. f[1] \in 1 .. Len(routes) /\ NamesARoute(f)'
  BY <1>0, RoutesAre, LenProperties DEF NamesARoute
<1>2. PICK data : data = has.data
  OBVIOUS
<1>3. Holds(f, data)'
  BY <1>1, <1>2, HoldsFrame
<1>4. Holds(f, has.data)'
  BY <1>2, <1>3 DEF Holds
<1> QED BY <1>1, <1>4 DEF ClosedOf

LEMMA ClosedFrame ==
  ASSUME RecTypes, RecTypeOK, RecTypes', ClosedInv,
         Len(routes) <= Len(routes)', \A r \in 1 .. Len(routes) : routes'[r] = routes[r],
         doubled \subseteq doubled',
         Len(sent) <= Len(sent)', \A i \in 1 .. Len(sent) : sent'[i] = sent[i],
         UNCHANGED <<closed, reopened, staging, sd>>,
         \/ route' \notin 1 .. Len(routes)
         \/ UNCHANGED <<route, chunk, segment>>
  PROVE  ClosedInv'
<1> SUFFICES ASSUME NEW f \in DOMAIN closed'
             PROVE  ClosedOf(f, closed[f])'
  BY DEF ClosedInv
<1>1. PICK has : has = closed[f]
  OBVIOUS
<1>2. ClosedOf(f, has)
  BY <1>1 DEF ClosedInv
<1>3. f[1] = route' => f[3] < NextPart(f)'
  BY <1>2 DEF ClosedOf, NextPart, NamesARoute
<1>4. ClosedOf(f, has)'
  BY <1>2, <1>3, ClosedOfIs DEF ClosedOf
<1> QED BY <1>1, <1>4 DEF ClosedOf

LEMMA JobsFrame ==
  ASSUME JobsInv, UNCHANGED <<mover, jobs, open>>
  PROVE  JobsInv'
BY DEF JobsInv, JobOf, TreeJobOf, WithMover, open, NamesARoute

LEMMA MoverFrame ==
  ASSUME MoverInv, UNCHANGED <<mover, staging, sd, reopened>>
  PROVE  MoverInv'
BY DEF MoverInv

LEMMA CoverFrame ==
  ASSUME CoverInv, UNCHANGED <<mover, jobs, staging, route, copy_failed, abandoned>>
  PROVE  CoverInv'
BY DEF CoverInv, WithMover, HasTreeJob

LEMMA QueueFrame ==
  ASSUME QueueInv, UNCHANGED <<queue, sent, session, route, routes, doubled>>, requested' => requested
  PROVE  QueueInv'
<1>1. Droppable' = Droppable /\ \A i, s : Belongs(i, s)' <=> Belongs(i, s)
  BY DEF Droppable, Belongs, OneSessionOpen
<1>2. PICK q, se, sn : q = queue /\ se = sent /\ sn = session
  OBVIOUS
<1>3. /\ \A i \in Droppable' :
           /\ q[i].n \in DOMAIN se
           /\ \A j \in Droppable' : i < j => q[i].n < q[j].n
           /\ Belongs(i, se[q[i].n])
      /\ requested' => Belongs(Len(q) + 1, sn)
  BY <1>1, <1>2 DEF QueueInv
<1>4. /\ \A i \in Droppable' : Belongs(i, se[q[i].n])'
      /\ requested' => Belongs(Len(q) + 1, sn)'
  BY <1>1, <1>3
<1> QED BY <1>2, <1>3, <1>4 DEF QueueInv, Belongs

LEMMA DataFrame ==
  ASSUME DataInv, UNCHANGED <<queue, sent, routes, doubled, events, video>>
  PROVE  DataInv'
<1>1. \A g : DataOf(g) => DataOf(g)'
  BY DEF DataOf, Holds, Droppable
<1> QED BY <1>1 DEF DataInv

-----------------------------------------------------------------------------
(* The main thread                                                         *)

LEMMA DroppableFinite ==
  ASSUME RecTypes
  PROVE  /\ Droppable \subseteq 1 .. Len(queue) /\ IsFiniteSet(Droppable)
         /\ Cardinality(Droppable) \in Nat /\ Cardinality(Droppable) <= Len(queue) /\ Len(queue) \in Nat
<1>0. queue \in Seq([kind : Control \cup {"key", "delta", "event"}, n : Nat])
  BY DEF RecTypes
<1>1. Len(queue) \in Nat /\ DOMAIN queue = 1 .. Len(queue)
  BY <1>0
<1>2. Droppable \subseteq 1 .. Len(queue)
  BY <1>1 DEF Droppable
<1>3. PICK n \in Nat : n = Len(queue)
  BY <1>1
<1>4. IsFiniteSet(1 .. n) /\ Cardinality(1 .. n) = n
  <2>0. 1 \in Int /\ n \in Int
    BY <1>3
  <2>1. IsFiniteSet(1 .. n) /\ Cardinality(1 .. n) = IF 1 > n THEN 0 ELSE n - 1 + 1
    BY <2>0, FS_Interval, Zenon
  <2> QED BY <2>1, <1>3
<1>5. Droppable \subseteq 1 .. n
  BY <1>2, <1>3
<1>6. IsFiniteSet(Droppable) /\ Cardinality(Droppable) <= n
  BY <1>4, <1>5, FS_Subset
<1>7. Cardinality(Droppable) \in Nat
  BY <1>6, FS_CardinalityType
<1> QED BY <1>1, <1>2, <1>3, <1>6, <1>7

LEMMA EnqueueGrows ==
  ASSUME RecTypes, RecTypeOK, NEW w \in [kind : Control \cup {"key", "delta", "event"}, n : Nat], Enqueue(w)
  PROVE  /\ \/ queue' = queue /\ w.kind \notin Control
            \/ /\ queue' = Append(queue, w)
               /\ Droppable' = Droppable \cup (IF w.kind \in Control THEN {} ELSE {Len(queue) + 1})
         /\ queue' \in Seq([kind : Control \cup {"key", "delta", "event"}, n : Nat])
         /\ Cardinality(Droppable)' <= MaxPending
<1>0. queue \in Seq([kind : Control \cup {"key", "delta", "event"}, n : Nat])
  BY DEF RecTypes
<1>1. CASE queue' = queue /\ w.kind \notin Control
  <2>1. Droppable' = Droppable
    BY <1>1 DEF Droppable
  <2> QED BY <2>1, <1>0, <1>1 DEF RecTypeOK
<1>2. CASE queue' = Append(queue, w) /\ (w.kind \in Control \/ Len(queue) < MaxPending)
  <2>1. queue' \in Seq([kind : Control \cup {"key", "delta", "event"}, n : Nat])
    BY <1>0, <1>2, AppendIs
  <2>2. /\ DOMAIN queue = 1 .. Len(queue) /\ DOMAIN queue' = 1 .. Len(queue) + 1 /\ Len(queue) \in Nat
        /\ queue'[Len(queue) + 1] = w /\ \A i \in 1 .. Len(queue) : queue'[i] = queue[i]
    BY <1>0, <1>2, AppendIs
  <2>3. Droppable' = Droppable \cup (IF w.kind \in Control THEN {} ELSE {Len(queue) + 1})
    <3>1. \A i \in 1 .. Len(queue) : i \in Droppable' <=> i \in Droppable
      BY <2>2 DEF Droppable
    <3>2. Len(queue) + 1 \in Droppable' <=> w.kind \notin Control
      BY <2>2 DEF Droppable
    <3>3. Droppable' \subseteq 1 .. Len(queue) + 1 /\ Droppable \subseteq 1 .. Len(queue)
      BY <2>2 DEF Droppable
    <3>4. ASSUME NEW i \in 1 .. Len(queue) + 1
          PROVE  i \in Droppable' <=> i \in Droppable \cup (IF w.kind \in Control THEN {} ELSE {Len(queue) + 1})
      <4>1. i \in 1 .. Len(queue) \/ i = Len(queue) + 1
        BY <2>2
      <4>2. Len(queue) + 1 \notin Droppable
        BY <3>3, <2>2
      <4> QED BY <4>1, <4>2, <3>1, <3>2
    <3>5. Droppable \cup (IF w.kind \in Control THEN {} ELSE {Len(queue) + 1}) \subseteq 1 .. Len(queue) + 1
      <4>1. Len(queue) + 1 \in 1 .. Len(queue) + 1 /\ Droppable \subseteq 1 .. Len(queue) + 1
        BY <3>3, <2>2
      <4> QED BY <4>1
    <3> QED BY <3>3, <3>4, <3>5
  <2>4. CASE w.kind \in Control
    BY <2>1, <2>3, <2>4, <1>2 DEF RecTypeOK
  <2>5. CASE w.kind \notin Control
    <3>1. Cardinality(Droppable) + 1 <= MaxPending
      BY <1>2, <2>5, DroppableFinite, RecordingConstants
    <3>2. Len(queue) + 1 \notin Droppable
      BY DroppableFinite
    <3>3. Cardinality(Droppable \cup {Len(queue) + 1}) = Cardinality(Droppable) + 1
      BY <3>2, DroppableFinite, FS_AddElement
    <3> QED BY <2>1, <2>3, <2>5, <1>2, <3>1, <3>3
  <2> QED BY <2>4, <2>5
<1> QED BY <1>1, <1>2, DroppableFinite, RecordingConstants DEF Enqueue

LEMMA BelongsGrows ==
  ASSUME RecTypes, NEW w \in [kind : Control \cup {"key", "delta", "event"}, n : Nat],
         queue' = Append(queue, w), UNCHANGED <<route, routes, doubled>>, NEW s
  PROVE  /\ \A i \in 1 .. Len(queue) + 1 : Belongs(i, s) => Belongs(i, s)'
         /\ w.kind = "enable" /\ w.n = s => Belongs(Len(queue) + 1, s)'
         /\ w.kind # "enable" /\ Belongs(Len(queue) + 1, s) => Belongs(Len(queue) + 1, s)'
<1>0. queue \in Seq([kind : Control \cup {"key", "delta", "event"}, n : Nat])
  BY DEF RecTypes
<1>1. ASSUME NEW i \in 1 .. Len(queue) + 1, Belongs(i, s)
      PROVE  LastEnabled(queue', i, s) /\ (NoneEnabled(queue', i) /\ OneSessionOpen' => routes'[route'] = s)
  BY <1>0, <1>1, LastEnabledAppend DEF Belongs, OneSessionOpen
<1>2. \A i \in 1 .. Len(queue) + 1 : Belongs(i, s) => Belongs(i, s)'
  BY <1>1 DEF Belongs
<1>3. ASSUME IF w.kind = "enable" THEN w.n = s ELSE Belongs(Len(queue) + 1, s)
      PROVE  LastEnabled(queue', Len(queue) + 2, s)
             /\ (NoneEnabled(queue', Len(queue) + 2) /\ OneSessionOpen' => routes'[route'] = s)
  BY <1>0, <1>3, LastEnabledAfter DEF Belongs, OneSessionOpen
<1>4. Len(queue') + 1 = Len(queue) + 2
  BY <1>0, AppendIs
<1>5. w.kind = "enable" /\ w.n = s => Belongs(Len(queue) + 1, s)'
  BY <1>3, <1>4 DEF Belongs
<1>6. w.kind # "enable" /\ Belongs(Len(queue) + 1, s) => Belongs(Len(queue) + 1, s)'
  BY <1>3, <1>4 DEF Belongs
<1> QED BY <1>2, <1>5, <1>6

LEMMA ControlQueued ==
  ASSUME RecTypes, RecTypeOK, QueueInv, DataInv,
         NEW w \in [kind : Control, n : Nat], Enqueue(w),
         UNCHANGED <<route, routes, events, video, sent, doubled>>,
         requested' => w.kind = "enable" /\ w.n = session'
  PROVE  QueueInv' /\ DataInv'
<1>1. /\ queue' = Append(queue, w) /\ Droppable' = Droppable
      /\ w \in [kind : Control \cup {"key", "delta", "event"}, n : Nat]
  BY EnqueueGrows
<1>2. /\ Droppable \subseteq 1 .. Len(queue) /\ Len(queue) \in Nat
      /\ \A i \in 1 .. Len(queue) : queue'[i] = queue[i]
  BY <1>1, DroppableFinite, AppendIs DEF RecTypes
<1>3. PICK se, sn : se = sent /\ sn = session'
  OBVIOUS
<1>4. ASSUME NEW i \in Droppable'
      PROVE  /\ queue'[i].n \in DOMAIN sent'
             /\ \A j \in Droppable' : i < j => queue'[i].n < queue'[j].n
             /\ Belongs(i, sent[queue[i].n])'
  <2>1. i \in Droppable /\ i \in 1 .. Len(queue) + 1 /\ queue'[i] = queue[i] /\ \A j \in Droppable : queue'[j] = queue[j]
    BY <1>1, <1>2
  <2>2. PICK s : s = sent[queue[i].n]
    OBVIOUS
  <2>3. Belongs(i, s)
    BY <2>1, <2>2 DEF QueueInv
  <2>4. Belongs(i, s)'
    BY <1>1, <2>1, <2>3, BelongsGrows
  <2>5. Belongs(i, sent[queue[i].n])'
    BY <2>1, <2>2, <2>4 DEF Belongs
  <2> QED BY <1>1, <2>1, <2>5 DEF QueueInv
<1>5. requested' => Belongs(Len(queue) + 1, sn)'
  BY <1>1, <1>3, BelongsGrows
<1>6. requested' => Belongs(Len(queue) + 1, session)'
  BY <1>3, <1>5 DEF Belongs
<1>7. QueueInv'
  BY <1>4, <1>6 DEF QueueInv
<1>8. \A g : DataOf(g) => DataOf(g)'
  BY <1>1, <1>2 DEF DataOf, Holds
<1> QED BY <1>7, <1>8 DEF DataInv

LEMMA SetEnabledKeeps ==
  ASSUME RecInv, NEW enabled \in BOOLEAN, SetEnabled(enabled)
  PROVE  RecInv'
<1>0. /\ RecTypeOK /\ RecTypes /\ QueueInv /\ DataInv /\ FilesInv /\ ClosedInv /\ MoverInv /\ JobsInv
      /\ CoverInv /\ PhaseInv
  BY DEF RecInv
<1>1. UNCHANGED <<recordd, worker, route, routes, chunk, segment, events, video, staging, sd, jobs, mover,
                  sent, closed, crashes, copy_failed, abandoned, doubled, reopened>>
  BY DEF SetEnabled, open, disk, move
<1>2. \E w \in [kind : Control, n : Nat] :
         /\ Enqueue(w) /\ (requested' => w.kind = "enable" /\ w.n = session')
         /\ requested' \in BOOLEAN /\ session' \in Nat
  <2>0. session \in Nat
    BY <1>0 DEF RecTypes
  <2>1. CASE enabled
    <3>1. Write("enable", session') \in [kind : Control, n : Nat] /\ session' \in Nat
          /\ Write("enable", session').kind = "enable" /\ Write("enable", session').n = session'
      BY <2>0, <2>1 DEF SetEnabled, Write, Control
    <3> QED BY <3>1, <2>1 DEF SetEnabled
  <2>2. CASE ~enabled
    <3>1. Write("disable", 0) \in [kind : Control, n : Nat]
      BY DEF Write, Control
    <3> QED BY <3>1, <2>0, <2>2 DEF SetEnabled
  <2> QED BY <2>1, <2>2
<1>3. PICK w \in [kind : Control, n : Nat] : Enqueue(w) /\ (requested' => w.kind = "enable" /\ w.n = session')
  BY <1>2
<1>4. QueueInv' /\ DataInv'
  BY <1>0, <1>1, <1>3, ControlQueued
<1>5. w \in [kind : Control \cup {"key", "delta", "event"}, n : Nat]
  OBVIOUS
<1>6. queue' \in Seq([kind : Control \cup {"key", "delta", "event"}, n : Nat]) /\ Cardinality(Droppable)' <= MaxPending
  BY <1>0, <1>3, <1>5, EnqueueGrows
<1>7. RecTypeOK'
  BY <1>0, <1>1, <1>2, <1>6 DEF RecTypeOK
<1>8. RecTypes'
  BY <1>0, <1>1, <1>2, <1>6 DEF RecTypes, NamesARoute
<1>9. FilesInv' /\ ClosedInv' /\ MoverInv' /\ JobsInv' /\ CoverInv'
  <2>1. FilesInv'
    BY <1>0, <1>1, FilesFrame DEF open
  <2>2. ClosedInv'
    BY <1>0, <1>1, <1>8, ClosedFrame, RoutesAre
  <2>3. MoverInv' /\ JobsInv' /\ CoverInv'
    BY <1>0, <1>1, MoverFrame, JobsFrame, CoverFrame DEF open
  <2> QED BY <2>1, <2>2, <2>3
<1>10. PhaseInv'
  BY <1>0, <1>1 DEF PhaseInv
<1> QED BY <1>4, <1>7, <1>8, <1>9, <1>10 DEF RecInv

LEMMA CloseKeeps ==
  ASSUME RecInv, Close
  PROVE  RecInv'
<1>0. /\ RecTypeOK /\ RecTypes /\ QueueInv /\ DataInv /\ FilesInv /\ ClosedInv /\ MoverInv /\ JobsInv
      /\ CoverInv /\ PhaseInv
  BY DEF RecInv
<1>1. UNCHANGED <<worker, route, routes, chunk, segment, events, video, staging, sd, jobs, mover,
                  sent, session, closed, crashes, copy_failed, abandoned, doubled, reopened>>
      /\ recordd = "running" /\ recordd' = "closing" /\ requested' = FALSE
  BY DEF Close, open, disk, move, history
<1>3. PICK w \in [kind : Control, n : Nat] : Enqueue(w)
  BY DEF Close, Write, Control
<1>4. QueueInv' /\ DataInv'
  BY <1>0, <1>1, <1>3, ControlQueued
<1>5. w \in [kind : Control \cup {"key", "delta", "event"}, n : Nat]
  OBVIOUS
<1>6. queue' \in Seq([kind : Control \cup {"key", "delta", "event"}, n : Nat]) /\ Cardinality(Droppable)' <= MaxPending
  BY <1>0, <1>3, <1>5, EnqueueGrows
<1>7. RecTypeOK'
  BY <1>0, <1>1, <1>6 DEF RecTypeOK
<1>8. RecTypes'
  BY <1>0, <1>1, <1>6 DEF RecTypes, NamesARoute
<1>9. FilesInv' /\ ClosedInv' /\ MoverInv' /\ JobsInv' /\ CoverInv'
  <2>1. FilesInv'
    BY <1>0, <1>1, FilesFrame DEF open
  <2>2. ClosedInv'
    BY <1>0, <1>1, <1>8, ClosedFrame, RoutesAre
  <2>3. MoverInv' /\ JobsInv' /\ CoverInv'
    BY <1>0, <1>1, MoverFrame, JobsFrame, CoverFrame DEF open
  <2> QED BY <2>1, <2>2, <2>3
<1>10. PhaseInv'
  BY <1>0, <1>1 DEF PhaseInv
<1> QED BY <1>4, <1>7, <1>8, <1>9, <1>10 DEF RecInv

LEMMA SendKeeps ==
  ASSUME RecInv, NEW kind \in {"key", "delta", "event"}, Send(kind)
  PROVE  RecInv'
<1>0. /\ RecTypeOK /\ RecTypes /\ QueueInv /\ DataInv /\ FilesInv /\ ClosedInv /\ MoverInv /\ JobsInv
      /\ CoverInv /\ PhaseInv
  BY DEF RecInv
<1>1. UNCHANGED <<recordd, requested, worker, route, routes, chunk, segment, events, video, staging, sd, jobs, mover,
                  session, closed, crashes, copy_failed, abandoned, doubled, reopened>>
      /\ requested /\ Len(sent) < MaxSent
  BY DEF Send, open, disk, move, main
<1>2. /\ sent \in Seq(Nat) /\ session \in Nat /\ Len(sent) \in Nat /\ sent' = Append(sent, session)
      /\ sent' \in Seq(Nat) /\ Len(sent') = Len(sent) + 1 /\ sent'[Len(sent) + 1] = session
      /\ DOMAIN sent = 1 .. Len(sent) /\ DOMAIN sent' = 1 .. Len(sent) + 1
      /\ \A i \in 1 .. Len(sent) : sent'[i] = sent[i]
  BY <1>0, AppendIs DEF Send, RecTypes
<1>3. PICK w \in [kind : {"key", "delta", "event"}, n : Nat] : Enqueue(w) /\ w.n = Len(sent) + 1
  BY <1>2 DEF Send, Write
<1>4. w \in [kind : Control \cup {"key", "delta", "event"}, n : Nat] /\ w.kind \notin Control /\ w.kind # "enable"
  BY DEF Control
<1>5. /\ queue' = queue \/ (queue' = Append(queue, w) /\ Droppable' = Droppable \cup {Len(queue) + 1})
      /\ queue' \in Seq([kind : Control \cup {"key", "delta", "event"}, n : Nat])
      /\ Cardinality(Droppable)' <= MaxPending
  BY <1>0, <1>3, <1>4, EnqueueGrows
<1>6. Droppable \subseteq 1 .. Len(queue) /\ Len(queue) \in Nat
  BY <1>0, DroppableFinite
<1>7. \A i \in Droppable : queue[i].n \in DOMAIN sent
  BY <1>0 DEF QueueInv
<1>8. PICK sn : sn = session
  OBVIOUS
<1>9. QueueInv' /\ DataInv'
  <2>1. CASE queue' = queue
    <3>1. Droppable' = Droppable
      BY <2>1 DEF Droppable
    <3>2. \A i, s : Belongs(i, s) => Belongs(i, s)'
      BY <2>1, <1>1 DEF Belongs, OneSessionOpen
    <3>3. ASSUME NEW i \in Droppable' PROVE Belongs(i, sent[queue[i].n])'
      <4>1. PICK s : s = sent[queue[i].n]
        OBVIOUS
      <4>2. Belongs(i, s)'
        BY <1>0, <3>1, <3>2, <3>3, <4>1 DEF QueueInv
      <4>3. s = sent'[queue'[i].n]
        BY <2>1, <3>1, <4>1, <1>2, <1>7
      <4> QED BY <4>2, <4>3 DEF Belongs
    <3>4. requested' => Belongs(Len(queue) + 1, session)'
      <4>1. PICK m : m = Len(queue) + 1
        OBVIOUS
      <4>2. Belongs(m, sn)'
        BY <1>0, <1>1, <1>8, <4>1, <3>2 DEF QueueInv
      <4> QED BY <4>1, <4>2, <1>1, <1>8, <2>1 DEF Belongs
    <3>5. QueueInv'
      BY <1>0, <1>2, <1>7, <2>1, <3>1, <3>3, <3>4 DEF QueueInv
    <3>6. \A g : DataOf(g) => DataOf(g)'
      BY <1>1, <1>2, <2>1, <3>1 DEF DataOf, Holds
    <3> QED BY <3>5, <3>6, <1>0, <1>1 DEF DataInv
  <2>2. CASE queue' = Append(queue, w) /\ Droppable' = Droppable \cup {Len(queue) + 1}
    <3>0. /\ Len(queue') = Len(queue) + 1 /\ queue'[Len(queue) + 1] = w
          /\ \A i \in 1 .. Len(queue) : queue'[i] = queue[i]
      BY <2>2, <1>0, <1>4, AppendIs DEF RecTypes
    <3>1. \A s : /\ \A i \in 1 .. Len(queue) + 1 : Belongs(i, s) => Belongs(i, s)'
                 /\ Belongs(Len(queue) + 1, s) => Belongs(Len(queue) + 1, s)'
      BY <2>2, <1>0, <1>1, <1>4, BelongsGrows
    <3>2. Belongs(Len(queue) + 1, sn)
      BY <1>0, <1>1, <1>8 DEF QueueInv
    <3>3. ASSUME NEW i \in Droppable'
          PROVE  /\ queue'[i].n \in DOMAIN sent'
                 /\ \A j \in Droppable' : i < j => queue'[i].n < queue'[j].n
                 /\ Belongs(i, sent[queue[i].n])'
      <4>1. CASE i \in Droppable
        <5>1. PICK s : s = sent[queue[i].n]
          OBVIOUS
        <5>2. Belongs(i, s)'
          <6>1. Belongs(i, s)
            BY <1>0, <4>1, <5>1 DEF QueueInv
          <6>2. i \in 1 .. Len(queue) + 1
            BY <1>6, <4>1
          <6> QED BY <3>1, <6>1, <6>2
        <5>3. s = sent'[queue'[i].n]
          BY <3>0, <4>1, <5>1, <1>2, <1>6, <1>7
        <5>4. Belongs(i, sent[queue[i].n])'
          BY <5>2, <5>3 DEF Belongs
        <5>5. queue'[i].n \in DOMAIN sent' /\ queue'[i].n <= Len(sent) /\ queue'[i].n = queue[i].n
          BY <3>0, <4>1, <1>2, <1>6, <1>7
        <5>6. ASSUME NEW j \in Droppable', i < j PROVE queue'[i].n < queue'[j].n
          <6>1. CASE j \in Droppable
            BY <6>1, <5>6, <5>5, <4>1, <3>0, <1>0, <1>6 DEF QueueInv
          <6>2. CASE j = Len(queue) + 1
            <7>1. queue'[j].n = Len(sent) + 1
              BY <6>2, <3>0, <1>3
            <7> QED BY <7>1, <5>5, <1>2
          <6> QED BY <6>1, <6>2, <2>2
        <5> QED BY <5>4, <5>5, <5>6
      <4>2. CASE i = Len(queue) + 1
        <5>1. queue'[i].n = Len(sent) + 1
          BY <4>2, <3>0, <1>3
        <5>2. Belongs(i, sn)'
          BY <4>2, <3>1, <3>2, <1>6
        <5>3. sn = sent'[queue'[i].n]
          BY <5>1, <1>2, <1>8
        <5>4. Belongs(i, sent[queue[i].n])'
          BY <5>2, <5>3 DEF Belongs
        <5>5. \A j \in Droppable' : ~(i < j)
          BY <4>2, <2>2, <1>6
        <5> QED BY <5>1, <5>4, <5>5, <1>2
      <4> QED BY <4>1, <4>2, <2>2
    <3>4. requested' => Belongs(Len(queue) + 1, session)'
      <4>1. Belongs(Len(queue) + 1, sn)'
        BY <3>1, <3>2
      <4> QED BY <4>1, <1>1, <1>8 DEF Belongs
    <3>5. QueueInv'
      BY <3>3, <3>4 DEF QueueInv
    <3>6. ASSUME NEW g, DataOf(g) PROVE DataOf(g)'
      <4>1. Holds(g.file, g.has.data)'
        BY <3>6, <1>1, <1>2 DEF DataOf, Holds
      <4>2. ASSUME NEW k \in DOMAIN g.has.data, NEW i \in Droppable' PROVE g.has.data[k] < queue'[i].n
        <5>1. g.has.data[k] \in DOMAIN sent
          BY <3>6 DEF DataOf, Holds
        <5>2. CASE i \in Droppable
          BY <5>2, <3>0, <3>6, <1>6 DEF DataOf
        <5>3. CASE i = Len(queue) + 1
          BY <5>1, <5>3, <3>0, <1>2, <1>3
        <5> QED BY <5>2, <5>3, <2>2
      <4> QED BY <3>6, <4>1, <4>2 DEF DataOf
    <3>7. ASSUME NEW g \in {events', video'}, IsOpen(g) PROVE DataOf(g)'
      BY <3>6, <3>7, <1>0, <1>1 DEF DataInv
    <3> QED BY <3>5, <3>7 DEF DataInv
  <2> QED BY <2>1, <2>2, <1>5
<1>10. RecTypeOK'
  BY <1>0, <1>1, <1>5 DEF RecTypeOK
<1>11. RecTypes'
  <2>1. Len(sent') <= MaxSent
    BY <1>1, <1>2, RecordingConstants
  <2> QED BY <2>1, <1>0, <1>1, <1>2, <1>5 DEF RecTypes, NamesARoute
<1>12. FilesInv' /\ ClosedInv' /\ MoverInv' /\ JobsInv' /\ CoverInv'
  <2>1. FilesInv'
    BY <1>0, <1>1, FilesFrame DEF open
  <2>2. ClosedInv'
    BY <1>0, <1>1, <1>2, <1>11, ClosedFrame, RoutesAre
  <2>3. MoverInv' /\ JobsInv' /\ CoverInv'
    BY <1>0, <1>1, MoverFrame, JobsFrame, CoverFrame DEF open
  <2> QED BY <2>1, <2>2, <2>3
<1>13. PhaseInv'
  BY <1>0, <1>1 DEF PhaseInv
<1> QED BY <1>9, <1>10, <1>11, <1>12, <1>13 DEF RecInv

LEMMA JoinedKeeps ==
  ASSUME RecInv, WorkerJoined \/ MoverJoined
  PROVE  RecInv'
<1>0. /\ RecTypeOK /\ RecTypes /\ QueueInv /\ DataInv /\ FilesInv /\ ClosedInv /\ MoverInv /\ JobsInv
      /\ CoverInv /\ PhaseInv
  BY DEF RecInv
<1>1. UNCHANGED <<requested, queue, worker, route, routes, chunk, segment, events, video, staging, sd, jobs, mover,
                  sent, session, closed, crashes, copy_failed, abandoned, doubled, reopened>>
  BY DEF WorkerJoined, MoverJoined, open, disk, move, history
<1>2. \/ recordd = "closing" /\ worker = "done" /\ recordd' = "draining"
      \/ recordd = "draining" /\ recordd' = "stopped" /\ mover.pc = "idle" /\ jobs = << >>
  BY DEF WorkerJoined, MoverJoined
<1>3. QueueInv' /\ DataInv'
  BY <1>0, <1>1, QueueFrame, DataFrame
<1>4. RecTypeOK'
  BY <1>0, <1>1, <1>2 DEF RecTypeOK, Droppable
<1>5. RecTypes'
  BY <1>0, <1>1 DEF RecTypes, NamesARoute
<1>6. FilesInv'
  BY <1>0, <1>1, FilesFrame DEF open
<1>7. ClosedInv'
  BY <1>0, <1>1, <1>5, ClosedFrame, RoutesAre
<1>8. MoverInv' /\ JobsInv' /\ CoverInv'
  BY <1>0, <1>1, MoverFrame, JobsFrame, CoverFrame DEF open
<1>9. PhaseInv'
  BY <1>0, <1>1, <1>2 DEF PhaseInv
<1> QED BY <1>3, <1>4, <1>5, <1>6, <1>7, <1>8, <1>9 DEF RecInv

-----------------------------------------------------------------------------
(* The worker takes a write                                                *)

LEMMA TakenIs ==
  ASSUME RecTypes, RecTypeOK, queue # << >>, Taken
  PROVE  /\ queue' \in Seq([kind : Control \cup {"key", "delta", "event"}, n : Nat])
         /\ Len(queue) \in Nat \ {0} /\ Len(queue') = Len(queue) - 1 /\ Head(queue) = queue[1]
         /\ Head(queue) \in [kind : Control \cup {"key", "delta", "event"}, n : Nat]
         /\ \A i \in 1 .. Len(queue) - 1 : queue'[i] = queue[i + 1]
         /\ \A i \in Droppable' : i \in 1 .. Len(queue) - 1 /\ i + 1 \in Droppable /\ queue'[i] = queue[i + 1]
         /\ Head(queue).kind \notin Control => 1 \in Droppable
         /\ Cardinality(Droppable)' <= MaxPending
<1>0. queue \in Seq([kind : Control \cup {"key", "delta", "event"}, n : Nat])
  BY DEF RecTypes
<1>1. /\ queue' \in Seq([kind : Control \cup {"key", "delta", "event"}, n : Nat])
      /\ Len(queue) \in Nat \ {0} /\ Len(queue') = Len(queue) - 1 /\ Head(queue) = queue[1]
      /\ Head(queue) \in [kind : Control \cup {"key", "delta", "event"}, n : Nat]
      /\ DOMAIN queue = 1 .. Len(queue) /\ DOMAIN queue' = 1 .. Len(queue) - 1
      /\ \A i \in 1 .. Len(queue) - 1 : queue'[i] = queue[i + 1]
  <2> DEFINE S == [kind : Control \cup {"key", "delta", "event"}, n : Nat]
  <2>1. queue \in Seq(S) /\ queue' = Tail(queue) /\ queue # << >>
    BY <1>0 DEF Taken
  <2> HIDE DEF S
  <2>2. /\ queue' \in Seq(S) /\ Head(queue) = queue[1] /\ Head(queue) \in S
        /\ Len(queue) \in Nat \ {0} /\ Len(queue') = Len(queue) - 1
        /\ DOMAIN queue = 1 .. Len(queue) /\ DOMAIN queue' = 1 .. Len(queue) - 1
        /\ \A i \in 1 .. Len(queue) - 1 : queue'[i] = queue[i + 1]
    BY <2>1, TailIs
  <2> QED BY <2>2 DEF S
<1>2. \A i \in Droppable' : i \in 1 .. Len(queue) - 1 /\ i + 1 \in Droppable /\ queue'[i] = queue[i + 1]
  BY <1>1 DEF Droppable
<1>3. Head(queue).kind \notin Control => 1 \in Droppable
  BY <1>1 DEF Droppable
<1>4. Cardinality(Droppable)' <= MaxPending
  <2> DEFINE next == [i \in Droppable' |-> i + 1]
  <2>1. next \in Injection(Droppable', Droppable)
    <3>1. next \in [Droppable' -> Droppable]
      BY <1>2
    <3>2. \A a, b \in Droppable' : next[a] = next[b] => a = b
      BY <1>2
    <3> QED BY <3>1, <3>2 DEF Injection, IsInjective
  <2>2. Cardinality(Droppable') <= Cardinality(Droppable) /\ IsFiniteSet(Droppable')
    BY <2>1, DroppableFinite, FS_Injection
  <2>3. Cardinality(Droppable') \in Nat
    BY <2>2, FS_CardinalityType
  <2> QED BY <2>2, <2>3, DroppableFinite, RecordingConstants DEF RecTypeOK
<1> QED BY <1>1, <1>2, <1>3, <1>4

LEMMA QueueTaken ==
  ASSUME RecTypes, RecTypeOK, QueueInv, queue # << >>, Taken, UNCHANGED <<sent, session>>,
         requested' => requested,
         OneSessionOpen' =>
           IF Head(queue).kind = "enable" THEN routes'[route'] = Head(queue).n
           ELSE OneSessionOpen /\ routes'[route'] = routes[route]
  PROVE  QueueInv'
<1>0. queue \in Seq([kind : Control \cup {"key", "delta", "event"}, n : Nat])
  BY DEF RecTypes
<1>1. /\ Len(queue) \in Nat \ {0} /\ Len(queue') = Len(queue) - 1
      /\ \A i \in 1 .. Len(queue) - 1 : queue'[i] = queue[i + 1]
      /\ \A i \in Droppable' : i \in 1 .. Len(queue) - 1 /\ i + 1 \in Droppable /\ queue'[i] = queue[i + 1]
  BY TakenIs
<1>2. ASSUME NEW i \in 1 .. Len(queue), NEW s, Belongs(i + 1, s) PROVE Belongs(i, s)'
  <2>1. /\ LastEnabled(queue', i, s)
        /\ NoneEnabled(queue', i) /\ Head(queue).kind # "enable" => NoneEnabled(queue, i + 1)
        /\ NoneEnabled(queue', i) /\ Head(queue).kind = "enable" => Head(queue).n = s
    BY <1>0, <1>2, LastEnabledTail DEF Taken, Belongs
  <2>2. ASSUME NoneEnabled(queue', i), OneSessionOpen' PROVE routes'[route'] = s
    BY <1>2, <2>1, <2>2 DEF Belongs
  <2> QED BY <2>1, <2>2 DEF Belongs
<1>3. ASSUME NEW i \in Droppable'
      PROVE  /\ queue'[i].n \in DOMAIN sent'
             /\ \A j \in Droppable' : i < j => queue'[i].n < queue'[j].n
             /\ Belongs(i, sent[queue[i].n])'
  <2>1. i \in 1 .. Len(queue) /\ i + 1 \in Droppable /\ queue'[i] = queue[i + 1]
    BY <1>1
  <2>2. PICK s : s = sent[queue[i + 1].n]
    OBVIOUS
  <2>3. Belongs(i + 1, s)
    BY <2>1, <2>2 DEF QueueInv
  <2>4. Belongs(i, s)'
    BY <1>2, <2>1, <2>3
  <2>5. Belongs(i, sent[queue[i].n])'
    BY <2>1, <2>2, <2>4 DEF Belongs
  <2>6. \A j \in Droppable' : i < j => queue'[i].n < queue'[j].n
    <3> TAKE j \in Droppable'
    <3>1. j + 1 \in Droppable /\ queue'[j] = queue[j + 1] /\ j \in 1 .. Len(queue) - 1 /\ i \in 1 .. Len(queue) - 1
      BY <1>1
    <3>2. i < j => i + 1 < j + 1
      BY <3>1
    <3> QED BY <2>1, <3>1, <3>2 DEF QueueInv
  <2> QED BY <2>1, <2>5, <2>6 DEF QueueInv
<1>4. requested' => Belongs(Len(queue) + 1, session)'
  <2>1. PICK m, s : m = Len(queue) /\ s = session
    OBVIOUS
  <2>2. m \in 1 .. Len(queue) /\ (requested' => Belongs(m + 1, s))
    BY <1>1, <2>1 DEF QueueInv
  <2>3. requested' => Belongs(m, s)'
    BY <1>2, <2>2
  <2>4. m = Len(queue') + 1
    BY <1>1, <2>1
  <2> QED BY <2>1, <2>3, <2>4 DEF Belongs
<1> QED BY <1>3, <1>4 DEF QueueInv

(* An open file that stays as it is, and one that takes the head.          *)
LEMMA DataTaken ==
  ASSUME RecTypes, RecTypeOK, RecTypes', queue # << >>, Taken, sent' = sent,
         Len(routes) <= Len(routes)', \A r \in 1 .. Len(routes) : routes'[r] = routes[r],
         doubled \subseteq doubled',
         NEW g, g.file[1] \in 1 .. Len(routes), DataOf(g)
  PROVE  DataOf(g)'
<1>1. PICK f, data : f = g.file /\ data = g.has.data
  OBVIOUS
<1>2. Holds(f, data)'
  BY <1>1, HoldsFrame DEF DataOf
<1>3. Holds(g.file, g.has.data)'
  BY <1>1, <1>2 DEF Holds
<1>4. \A k \in DOMAIN g.has.data, i \in Droppable' : g.has.data[k] < queue'[i].n
  BY TakenIs DEF DataOf
<1> QED BY <1>3, <1>4 DEF DataOf

LEMMA DataWritten ==
  ASSUME RecTypes, RecTypeOK, QueueInv, queue # << >>, Taken, Head(queue).kind \notin Control,
         UNCHANGED <<sent, routes, route, doubled>>,
         NEW g \in [file : FileNames, rel : Nat, has : Contents], NEW n, n = Head(queue).n, DataOf(g),
         g.file[1] \in doubled \/ g.file[1] = route, route # 0
  PROVE  DataOf(Written(g, n))' /\ n \in 1 .. MaxSent
<1>1. /\ 1 \in Droppable /\ Head(queue) = queue[1]
      /\ \A i \in Droppable' : i \in 1 .. Len(queue) - 1 /\ i + 1 \in Droppable /\ queue'[i] = queue[i + 1]
      /\ Len(queue) \in Nat
  BY TakenIs
<1>2. n \in DOMAIN sent /\ \A j \in Droppable : 1 < j => n < queue[j].n
  BY <1>1 DEF QueueInv
<1>3. DOMAIN sent = 1 .. Len(sent) /\ Len(sent) \in Nat /\ Len(sent) <= MaxSent
  BY RoutesAre DEF RecTypes
<1>4. n \in 1 .. MaxSent
  BY <1>2, <1>3, RecordingConstants
<1>5. route \notin doubled => sent[n] = routes[route]
  <2>1. Belongs(1, sent[n])
    BY <1>1 DEF QueueInv
  <2>2. NoneEnabled(queue, 1)
    BY DEF NoneEnabled
  <2> QED BY <2>1, <2>2 DEF Belongs, OneSessionOpen
<1> DEFINE w == Written(g, n)
           d == g.has.data
<1>6. /\ w.file = g.file /\ w.has.head = g.has.head /\ w.has.data = Append(d, n) /\ d \in Seq(1 .. MaxSent)
  BY <1>4, WrittenIs
<1>7. /\ Len(d) \in Nat /\ DOMAIN d = 1 .. Len(d) /\ DOMAIN Append(d, n) = 1 .. Len(d) + 1
      /\ Append(d, n)[Len(d) + 1] = n /\ \A k \in 1 .. Len(d) : Append(d, n)[k] = d[k] /\ d[k] \in Nat
  <2>1. d \in Seq(1 .. MaxSent)
    BY <1>6
  <2> HIDE DEF d, w
  <2>2. \A k \in 1 .. Len(d) : d[k] \in 1 .. MaxSent
    BY <2>1, ElementOfSeq
  <2>3. 1 .. MaxSent \subseteq Nat
    BY RecordingConstants
  <2>4. \A k \in 1 .. Len(d) : Append(d, n)[k] = d[k] /\ d[k] \in Nat
    BY <2>1, <2>2, <2>3, <1>4, AppendIs
  <2> QED BY <2>1, <2>4, <1>4, AppendIs
<1> HIDE DEF w, d
<1>8. InOrder(d) /\ \A k \in DOMAIN d : d[k] \in DOMAIN sent /\ d[k] < n
                        /\ (g.file[1] \notin doubled => sent[d[k]] = routes[g.file[1]])
  BY <1>1 DEF DataOf, Holds, d
<1>9. InOrder(Append(d, n))
  BY <1>7, <1>8 DEF InOrder
<1>10. \A k \in DOMAIN Append(d, n) :
          /\ Append(d, n)[k] \in DOMAIN sent
          /\ g.file[1] \notin doubled => sent[Append(d, n)[k]] = routes[g.file[1]]
  <2> TAKE k \in DOMAIN Append(d, n)
  <2>1. k \in 1 .. Len(d) \/ k = Len(d) + 1
    BY <1>7
  <2> QED BY <2>1, <1>2, <1>5, <1>7, <1>8
<1>11. \A k \in DOMAIN Append(d, n), i \in Droppable' : Append(d, n)[k] < queue'[i].n
  <2> TAKE k \in DOMAIN Append(d, n), i \in Droppable'
  <2>1. n < queue[i + 1].n /\ queue'[i] = queue[i + 1] /\ i + 1 \in Droppable
    <3>1. i \in 1 .. Len(queue) - 1 /\ i + 1 \in Droppable /\ 1 < i + 1
      BY <1>1
    <3> QED BY <3>1, <1>1, <1>2
  <2>2. CASE k \in 1 .. Len(d)
    BY <2>1, <2>2, <1>7 DEF DataOf, d
  <2>3. CASE k = Len(d) + 1
    BY <2>1, <2>3, <1>7
  <2> QED BY <2>2, <2>3, <1>7
<1>12. w.has.head /\ w.file = g.file /\ w.has.data = Append(d, n)
  BY <1>6 DEF DataOf
<1>13. DataOf(w)'
  BY <1>9, <1>10, <1>11, <1>12 DEF DataOf, Holds
<1> QED BY <1>4, <1>13 DEF w

LEMMA DataEmpty == ASSUME NEW g, g.has.head, g.has.data = << >> PROVE DataOf(g)
BY DEF DataOf, Holds, InOrder

-----------------------------------------------------------------------------
(* The worker starts a route                                               *)

LEMMA RangeAppend ==
  ASSUME NEW S, NEW q \in Seq(S), NEW x \in S
  PROVE  Range(Append(q, x)) = Range(q) \cup {x}
<1>1. /\ DOMAIN q = 1 .. Len(q) /\ DOMAIN Append(q, x) = 1 .. Len(q) + 1 /\ Len(q) \in Nat
      /\ Append(q, x)[Len(q) + 1] = x /\ \A i \in 1 .. Len(q) : Append(q, x)[i] = q[i]
  BY AppendIs
<1>2. ASSUME NEW y \in Range(Append(q, x)) PROVE y \in Range(q) \cup {x}
  <2>1. PICK i \in 1 .. Len(q) + 1 : y = Append(q, x)[i]
    BY <1>1, <1>2 DEF Range
  <2>2. i \in 1 .. Len(q) \/ i = Len(q) + 1
    BY <1>1
  <2> QED BY <2>1, <2>2, <1>1 DEF Range
<1>3. ASSUME NEW y \in Range(q) PROVE y \in Range(Append(q, x))
  <2>1. PICK i \in 1 .. Len(q) : y = q[i]
    BY <1>1, <1>3 DEF Range
  <2>2. i \in 1 .. Len(q) + 1
    BY <1>1
  <2> QED BY <2>1, <2>2, <1>1 DEF Range
<1>4. x \in Range(Append(q, x))
  <2>1. Len(q) + 1 \in 1 .. Len(q) + 1
    BY <1>1
  <2> QED BY <2>1, <1>1 DEF Range
<1> QED BY <1>2, <1>3, <1>4

LEMMA RangeConcat ==
  ASSUME NEW S, NEW a \in Seq(S), NEW b \in Seq(S)
  PROVE  a \o b \in Seq(S) /\ Range(a \o b) = Range(a) \cup Range(b)
<1>1. /\ DOMAIN a = 1 .. Len(a) /\ DOMAIN b = 1 .. Len(b) /\ Len(a) \in Nat /\ Len(b) \in Nat
      /\ a \o b \in Seq(S) /\ Len(a \o b) = Len(a) + Len(b) /\ DOMAIN (a \o b) = 1 .. Len(a) + Len(b)
  BY ConcatProperties, LenProperties
<1>2. \A i \in 1 .. Len(a) + Len(b) : (a \o b)[i] = IF i <= Len(a) THEN a[i] ELSE b[i - Len(a)]
  BY ConcatProperties
<1>3. ASSUME NEW y \in Range(a \o b) PROVE y \in Range(a) \cup Range(b)
  <2>1. PICK i \in 1 .. Len(a) + Len(b) : y = (a \o b)[i]
    BY <1>1, <1>3 DEF Range
  <2>2. CASE i <= Len(a)
    <3>1. i \in 1 .. Len(a) /\ y = a[i]
      BY <2>1, <2>2, <1>1, <1>2
    <3> QED BY <3>1, <1>1 DEF Range
  <2>3. CASE ~(i <= Len(a))
    <3>1. i - Len(a) \in 1 .. Len(b) /\ y = b[i - Len(a)]
      BY <2>1, <2>3, <1>1, <1>2
    <3> QED BY <3>1, <1>1 DEF Range
  <2> QED BY <2>2, <2>3
<1>4. ASSUME NEW y \in Range(a) PROVE y \in Range(a \o b)
  <2>1. PICK i \in 1 .. Len(a) : y = a[i]
    BY <1>1, <1>4 DEF Range
  <2>2. i \in 1 .. Len(a) + Len(b) /\ (a \o b)[i] = a[i]
    BY <1>1, <1>2
  <2> QED BY <2>1, <2>2, <1>1 DEF Range
<1>5. ASSUME NEW y \in Range(b) PROVE y \in Range(a \o b)
  <2>1. PICK i \in 1 .. Len(b) : y = b[i]
    BY <1>1, <1>5 DEF Range
  <2>2. i + Len(a) \in 1 .. Len(a) + Len(b) /\ (a \o b)[i + Len(a)] = b[i]
    <3>1. i + Len(a) \in 1 .. Len(a) + Len(b) /\ ~(i + Len(a) <= Len(a)) /\ (i + Len(a)) - Len(a) = i
      BY <1>1
    <3> QED BY <3>1, <1>2
  <2> QED BY <2>1, <2>2, <1>1 DEF Range
<1> QED BY <1>1, <1>3, <1>4, <1>5

LEMMA RangeTail ==
  ASSUME NEW S, NEW q \in Seq(S), q # << >>
  PROVE  Tail(q) \in Seq(S) /\ Range(q) = {Head(q)} \cup Range(Tail(q)) /\ Head(q) \in S
<1>1. /\ Tail(q) \in Seq(S) /\ Head(q) = q[1] /\ q[1] \in S
      /\ Len(q) \in Nat \ {0} /\ DOMAIN q = 1 .. Len(q) /\ DOMAIN Tail(q) = 1 .. Len(q) - 1
      /\ \A i \in 1 .. Len(q) - 1 : Tail(q)[i] = q[i + 1]
  BY TailIs
<1>2. ASSUME NEW y \in Range(q) PROVE y \in {Head(q)} \cup Range(Tail(q))
  <2>1. PICK i \in 1 .. Len(q) : y = q[i]
    BY <1>1, <1>2 DEF Range
  <2>2. CASE i = 1
    BY <2>1, <2>2, <1>1
  <2>3. CASE i # 1
    <3>1. i - 1 \in 1 .. Len(q) - 1 /\ (i - 1) + 1 = i
      BY <2>3, <1>1
    <3>2. Tail(q)[i - 1] = y
      BY <2>1, <3>1, <1>1
    <3> QED BY <3>1, <3>2, <1>1 DEF Range
  <2> QED BY <2>2, <2>3
<1>3. Head(q) \in Range(q)
  <2>1. 1 \in DOMAIN q
    BY <1>1
  <2> QED BY <2>1, <1>1 DEF Range
<1>4. ASSUME NEW y \in Range(Tail(q)) PROVE y \in Range(q)
  <2>1. PICK i \in 1 .. Len(q) - 1 : y = Tail(q)[i]
    BY <1>1, <1>4 DEF Range
  <2>2. i + 1 \in 1 .. Len(q) /\ y = q[i + 1]
    BY <2>1, <1>1
  <2> QED BY <2>1, <2>2, <1>1 DEF Range
<1> QED BY <1>1, <1>2, <1>3, <1>4

LEMMA RangeEmpty == Range(<< >>) = {}
BY DEF Range

LEMMA RangeOne ==
  ASSUME NEW S, NEW x \in S
  PROVE  <<x>> \in Seq(S) /\ Range(<<x>>) = {x}
<1>1. DOMAIN <<x>> = 1 .. 1 /\ <<x>>[1] = x
  OBVIOUS
<1>2. \A i : i \in 1 .. 1 <=> i = 1
  OBVIOUS
<1> QED BY <1>1, <1>2 DEF Range

(* The parts of the invariant that the start of a route leaves alone.      *)
LEMMA NextIs ==
  ASSUME NEW kind, Next1(kind)
  PROVE  worker = "ready" /\ queue # << >> /\ Head(queue).kind = kind
BY DEF Next1

LEMMA RefusedKeeps ==
  ASSUME RecInv, Next1("enable"), Taken, SwitchedOnAgain, worker' = "unrequest",
         UNCHANGED <<route, routes, abandoned>>,
         UNCHANGED <<recordd, requested, chunk, segment, events, video, staging, sd, jobs, mover,
                     sent, session, closed, crashes, copy_failed, reopened>>
  PROVE  RecInv'
<1>0. /\ RecTypeOK /\ RecTypes /\ QueueInv /\ DataInv /\ FilesInv /\ ClosedInv /\ MoverInv /\ JobsInv
      /\ CoverInv /\ PhaseInv
  BY DEF RecInv
<1>1. worker = "ready" /\ queue # << >> /\ Head(queue).kind = "enable"
  BY NextIs
<1>2. doubled \subseteq doubled' /\ doubled' \subseteq 1 .. Len(routes) /\ route \in {0} \cup doubled'
  BY <1>0, RoutesAre DEF SwitchedOnAgain, RecTypes, RecTypeOK
<1>3. RecTypeOK'
  BY <1>0, <1>1, TakenIs DEF RecTypeOK
<1>4. RecTypes'
  BY <1>0, <1>1, <1>2, TakenIs DEF RecTypes, NamesARoute
<1>5. QueueInv'
  BY <1>0, <1>1, <1>2, QueueTaken DEF OneSessionOpen
<1>6. DataInv'
  <2> SUFFICES ASSUME NEW g \in {events', video'}, IsOpen(g) PROVE DataOf(g)'
    BY DEF DataInv
  <2>1. g.file[1] \in 1 .. Len(routes) /\ DataOf(g)
    BY <1>0 DEF DataInv, FilesInv, FileOf, NamesARoute
  <2> QED BY <2>1, <1>0, <1>1, <1>2, <1>4, DataTaken
<1>7. FilesInv'
  BY <1>0, <1>2, FilesFrame DEF open
<1>8. ClosedInv'
  BY <1>0, <1>2, <1>4, ClosedFrame, RoutesAre
<1>9. MoverInv' /\ JobsInv' /\ CoverInv'
  BY <1>0, MoverFrame, JobsFrame, CoverFrame DEF open
<1>10. PhaseInv'
  BY <1>0, <1>1 DEF PhaseInv
<1> QED BY <1>3, <1>4, <1>5, <1>6, <1>7, <1>8, <1>9, <1>10 DEF RecInv

LEMMA DataEmptyNext == ASSUME NEW g, g.has.head, g.has.data = << >> PROVE DataOf(g)'
BY DEF DataOf, Holds, InOrder

(* A new route, under a new name. *)
LEMMA NewRouteIs ==
  ASSUME RecTypes, RecTypeOK, Next1("enable"), SwitchedOnAgain, routes' = Append(routes, Head(queue).n)
  PROVE  /\ routes' \in Seq(Nat) /\ Len(routes') = Len(routes) + 1 /\ Len(routes) \in Nat /\ route \in Nat
         /\ route <= Len(routes)
         /\ \A r \in 1 .. Len(routes) : routes'[r] = routes[r]
         /\ routes'[Len(routes) + 1] = Head(queue).n
         /\ doubled \subseteq doubled' /\ doubled' \subseteq 1 .. Len(routes)
         /\ route # 0 => route \in doubled'
         /\ \A f : NamesARoute(f) => NamesARoute(f)' /\ f[1] # Len(routes) + 1 /\ f[1] # 0
<1>1. routes \in Seq(Nat) /\ Head(queue).n \in Nat
  <2>1. queue \in Seq([kind : Control \cup {"key", "delta", "event"}, n : Nat]) /\ queue # << >>
    BY NextIs DEF RecTypes
  <2>2. Head(queue) \in [kind : Control \cup {"key", "delta", "event"}, n : Nat]
    BY <2>1, HeadTailProperties
  <2> QED BY <2>2 DEF RecTypes
<1>2. /\ routes' \in Seq(Nat) /\ Len(routes') = Len(routes) + 1 /\ Len(routes) \in Nat
      /\ \A r \in 1 .. Len(routes) : routes'[r] = routes[r]
      /\ routes'[Len(routes) + 1] = Head(queue).n
  BY <1>1, AppendIs
<1>3. route \in Nat /\ route <= Len(routes)
  BY RoutesAre
<1>4. doubled \subseteq doubled' /\ doubled' \subseteq 1 .. Len(routes) /\ (route # 0 => route \in doubled')
  BY <1>3, <1>2 DEF SwitchedOnAgain, RecTypes
<1>5. \A f : NamesARoute(f) => NamesARoute(f)' /\ f[1] # Len(routes) + 1 /\ f[1] # 0
  BY <1>2 DEF NamesARoute
<1> QED BY <1>2, <1>3, <1>4, <1>5

LEMMA DirectoryKeeps ==
  ASSUME RecInv, Next1("enable"), Taken, SwitchedOnAgain, worker' = "unrequest",
         routes' = Append(routes, Head(queue).n), route' = Len(routes'), abandoned' = (abandoned \/ route # 0),
         UNCHANGED <<recordd, requested, chunk, segment, events, video, staging, sd, jobs, mover,
                     sent, session, closed, crashes, copy_failed, reopened>>
  PROVE  RecInv'
<1>0. /\ RecTypeOK /\ RecTypes /\ QueueInv /\ DataInv /\ FilesInv /\ ClosedInv /\ MoverInv /\ JobsInv
      /\ CoverInv /\ PhaseInv
  BY DEF RecInv
<1>1. worker = "ready" /\ queue # << >> /\ Head(queue).kind = "enable"
  BY NextIs
<1>2. /\ routes' \in Seq(Nat) /\ Len(routes') = Len(routes) + 1 /\ Len(routes) \in Nat /\ route \in Nat
      /\ route <= Len(routes)
      /\ \A r \in 1 .. Len(routes) : routes'[r] = routes[r]
      /\ routes'[Len(routes) + 1] = Head(queue).n
      /\ doubled \subseteq doubled' /\ doubled' \subseteq 1 .. Len(routes)
      /\ route # 0 => route \in doubled'
      /\ \A f : NamesARoute(f) => NamesARoute(f)' /\ f[1] # Len(routes) + 1 /\ f[1] # 0
  BY <1>0, NewRouteIs
<1>2a. route' = Len(routes) + 1 /\ route' \notin 1 .. Len(routes) /\ route' # 0
  BY <1>2
<1>3. RecTypeOK'
  BY <1>0, <1>1, <1>2, <1>2a, TakenIs DEF RecTypeOK
<1>4. RecTypes'
  <2>1. doubled' \subseteq 1 .. Len(routes')
    BY <1>2
  <2>2. \A f \in DOMAIN staging' : f \in FileNames /\ NamesARoute(f)'
    BY <1>0, <1>2 DEF RecTypes
  <2> QED BY <1>0, <1>1, <1>2, <2>1, <2>2, TakenIs DEF RecTypes
<1>5. QueueInv'
  BY <1>0, <1>1, <1>2, <1>2a, QueueTaken
<1>6. DataInv'
  <2> SUFFICES ASSUME NEW g \in {events', video'}, IsOpen(g) PROVE DataOf(g)'
    BY DEF DataInv
  <2>1. g.file[1] \in 1 .. Len(routes) /\ DataOf(g)
    BY <1>0 DEF DataInv, FilesInv, FileOf, NamesARoute
  <2>2. Len(routes) <= Len(routes)'
    BY <1>2
  <2> QED BY <2>1, <2>2, <1>0, <1>1, <1>2, <1>4, DataTaken
<1>7. FilesInv'
  <2>1. ASSUME NEW g \in {events', video'}, IsOpen(g) PROVE route' # 0 /\ FileOf(g)' /\ g.file[1] # route'
    <3>1. FileOf(g) /\ route # 0
      BY <1>0, <2>1 DEF FilesInv
    <3>2. abandoned' /\ g.file[1] \in doubled'
      BY <3>1, <1>2 DEF FileOf
    <3>3. NamesARoute(g.file)' /\ g.file[1] # route'
      BY <3>1, <1>2, <1>2a DEF FileOf
    <3> QED BY <3>1, <3>2, <3>3, <1>2a DEF FileOf, WithMover
  <2> QED BY <2>1, <1>0 DEF FilesInv
<1>8. ClosedInv'
  <2>1. Len(routes) <= Len(routes)' /\ Len(sent) <= Len(sent)'
    BY <1>2, <1>0, RoutesAre
  <2> QED BY <2>1, <1>0, <1>2, <1>2a, <1>4, ClosedFrame
<1>9. MoverInv'
  BY <1>0, MoverFrame
<1>10. JobsInv'
  <2>1. WithMover' = WithMover
    BY DEF WithMover
  <2>2. ASSUME NEW f \in WithMover' PROVE JobOf(f)'
    <3>1. JobOf(f)
      BY <1>0, <2>1, <2>2 DEF JobsInv
    <3> QED BY <3>1, <1>2, <1>2a DEF JobOf
  <2>3. ASSUME NEW job \in Range(jobs') PROVE TreeJobOf(job)'
    <3>1. TreeJobOf(job)
      BY <1>0, <2>3 DEF JobsInv
    <3> QED BY <3>1, <1>2, <1>2a DEF TreeJobOf
  <2> QED BY <2>2, <2>3 DEF JobsInv
<1>11. CoverInv'
  <2> SUFFICES ASSUME ~copy_failed', ~abandoned', NEW f \in DOMAIN staging'
               PROVE  staging'[f] = Empty \/ f \in WithMover' \/ HasTreeJob(f[1])'
    BY DEF CoverInv
  <2>1. route = 0 /\ ~abandoned /\ ~copy_failed /\ NamesARoute(f)
    BY <1>0 DEF RecTypes
  <2>2. staging[f] = Empty \/ f \in WithMover \/ HasTreeJob(f[1])
    BY <1>0, <1>2, <2>1 DEF CoverInv
  <2> QED BY <2>2 DEF WithMover, HasTreeJob
<1>12. PhaseInv'
  BY <1>0, <1>1 DEF PhaseInv
<1> QED BY <1>3, <1>4, <1>5, <1>6, <1>7, <1>8, <1>9, <1>10, <1>11, <1>12 DEF RecInv

LEMMA StartRouteKeeps ==
  ASSUME RecInv, StartRoute
  PROVE  RecInv'
<1>0. /\ RecTypeOK /\ RecTypes /\ QueueInv /\ DataInv /\ FilesInv /\ ClosedInv /\ MoverInv /\ JobsInv
      /\ CoverInv /\ PhaseInv
  BY DEF RecInv
<1>0a. PICK first : first = <<Len(routes) + 1, "events", 0>>
  OBVIOUS
<1>1. /\ Next1("enable") /\ Taken /\ SwitchedOnAgain /\ routes' = Append(routes, Head(queue).n)
      /\ route' = Len(routes) + 1 /\ chunk' = 0 /\ segment' = 0
      /\ events' = Opened(first, 0) /\ staging' = Put(first, HeadOnly, staging)
      /\ abandoned' = (abandoned \/ route # 0)
      /\ UNCHANGED <<recordd, requested, worker, video, sd, jobs, mover, sent, session, closed, crashes,
                     copy_failed, reopened>>
  BY <1>0a DEF StartRoute, main, move
<1>1a. worker = "ready" /\ queue # << >> /\ Head(queue).kind = "enable"
  BY <1>1, NextIs
<1>2. /\ routes' \in Seq(Nat) /\ Len(routes') = Len(routes) + 1 /\ Len(routes) \in Nat /\ route \in Nat
      /\ route <= Len(routes)
      /\ \A r \in 1 .. Len(routes) : routes'[r] = routes[r]
      /\ routes'[Len(routes) + 1] = Head(queue).n
      /\ doubled \subseteq doubled' /\ doubled' \subseteq 1 .. Len(routes)
      /\ route # 0 => route \in doubled'
      /\ \A f : NamesARoute(f) => NamesARoute(f)' /\ f[1] # Len(routes) + 1 /\ f[1] # 0
  BY <1>0, <1>1, NewRouteIs
<1>2a. route' \notin 1 .. Len(routes) /\ route' # 0 /\ route' \in 1 .. Len(routes')
  BY <1>1, <1>2
<1>2b. first \in FileNames /\ first[1] = Len(routes) + 1 /\ first[2] = "events" /\ first[3] = 0
  BY <1>0a, <1>2, FileNamesAre
<1>2c. /\ first \notin DOMAIN staging /\ first \notin DOMAIN closed /\ (first # video.file \/ ~IsOpen(video))
       /\ first \notin WithMover
  <2>1. ~NamesARoute(first)
    BY <1>2, <1>2b
  <2>2. first # NoFile
    <3>1. Len(routes) + 1 # 0
      BY <1>2
    <3> QED BY <3>1, <1>2b, FileNamesAre
  <2>3. first \notin DOMAIN staging
    BY <2>1, <1>0 DEF RecTypes
  <2>4. first \notin DOMAIN closed
    BY <2>1, <1>0 DEF ClosedInv, ClosedOf
  <2>5. first # video.file \/ ~IsOpen(video)
    BY <2>1, <1>0 DEF FilesInv, FileOf
  <2>6. first \notin WithMover
    BY <2>1, <2>2, <1>0 DEF JobsInv, JobOf
  <2> QED BY <2>3, <2>4, <2>5, <2>6
<1>2d. NamesARoute(first)'
  <2>1. Len(routes) + 1 \in 1 .. Len(routes')
    BY <1>1, <1>2a
  <2>2. first[2] # "none" /\ first[1] \in 1 .. Len(routes')
    <3>1. first[1] = Len(routes) + 1
      BY <1>2b
    <3> QED BY <2>1, <3>1, <1>2b
  <2> QED BY <2>2 DEF NamesARoute
<1>2e. /\ DOMAIN staging' = DOMAIN staging \cup {first} /\ staging'[first] = HeadOnly
       /\ \A f \in DOMAIN staging : f # first => staging'[f] = staging[f]
  <2>1. staging' = Put(first, HeadOnly, staging)
    BY <1>1
  <2>2. LET files == Put(first, HeadOnly, staging) IN
        /\ DOMAIN files = DOMAIN staging \cup {first} /\ files[first] = HeadOnly
        /\ \A f \in DOMAIN staging : f # first => files[f] = staging[f]
    BY DEF Put
  <2> QED BY <2>1, <2>2
<1>2f. /\ events' \in [file : FileNames, rel : Nat, has : Contents]
       /\ events'.file = first /\ events'.has = HeadOnly
  BY <1>1, <1>2b, OpenedIs
<1>3. RecTypeOK'
  <2>1. \A f \in DOMAIN staging' : staging'[f] \in Contents
    BY <1>0, <1>2e, ContentsAre DEF RecTypeOK
  <2> QED BY <2>1, <1>0, <1>1, <1>1a, <1>2, <1>2a, RecordingConstants, TakenIs DEF RecTypeOK
<1>4. RecTypes'
  <2>1. doubled' \subseteq 1 .. Len(routes')
    BY <1>2
  <2>2. \A f \in DOMAIN staging' : f \in FileNames /\ NamesARoute(f)'
    BY <1>0, <1>2, <1>2b, <1>2d, <1>2e DEF RecTypes
  <2>3. staging' \in [DOMAIN staging' -> Contents]
    BY <1>0, <1>1, PutType, ContentsAre DEF RecTypes
  <2>4. IsFiniteSet(DOMAIN staging')
    <3>1. IsFiniteSet(DOMAIN staging) /\ DOMAIN staging' = DOMAIN staging \cup {first}
      BY <1>0, <1>2e DEF RecTypes
    <3> QED BY <3>1, FS_AddElement
  <2> QED BY <1>0, <1>1, <1>1a, <1>2, <1>2f, <2>1, <2>2, <2>3, <2>4, TakenIs DEF RecTypes
<1>5. QueueInv'
  BY <1>0, <1>1, <1>1a, <1>2, <1>2a, QueueTaken
<1>6. DataInv'
  <2>1. ASSUME NEW g, g = events' PROVE DataOf(g)'
    BY <2>1, <1>2f, ContentsAre, DataEmptyNext
  <2>2. ASSUME NEW g, g = video', IsOpen(g) PROVE DataOf(g)'
    <3>1. g.file[1] \in 1 .. Len(routes) /\ DataOf(g)
      BY <1>0, <1>1, <2>2 DEF DataInv, FilesInv, FileOf, NamesARoute
    <3>2. Len(routes) <= Len(routes)'
      BY <1>2
    <3> QED BY <3>1, <3>2, <1>0, <1>1, <1>1a, <1>2, <1>4, DataTaken
  <2> QED BY <2>1, <2>2 DEF DataInv
<1>7. FilesInv'
  <2>0. WithMover' = WithMover
    BY <1>1 DEF WithMover
  <2>1. ASSUME NEW g, g = video', IsOpen(g) PROVE route' # 0 /\ FileOf(g)' /\ g.file[1] # route' /\ g.file[2] = "segment"
    <3>1. FileOf(g) /\ route # 0 /\ g.file[2] = "segment"
      BY <1>0, <1>1, <2>1 DEF FilesInv
    <3>2. abandoned' /\ g.file[1] \in doubled'
      BY <3>1, <1>1, <1>2 DEF FileOf
    <3>3. NamesARoute(g.file)' /\ g.file[1] # route' /\ g.file # first
      BY <3>1, <1>1, <1>2, <1>2b DEF FileOf
    <3>4. g.file \notin reopened' =>
            g.file \in DOMAIN staging' /\ staging'[g.file] = g.has /\ g.file \notin WithMover'
      BY <3>1, <3>3, <2>0, <1>1, <1>2e DEF FileOf
    <3> QED BY <3>1, <3>2, <3>3, <3>4, <1>1, <1>2a DEF FileOf
  <2>2. ASSUME NEW g, g = events' PROVE FileOf(g)'
    BY <2>0, <2>2, <1>1, <1>2b, <1>2c, <1>2d, <1>2e, <1>2f DEF FileOf
  <2>3. events'.file[2] = "events" /\ events'.file[3] = chunk'
    BY <1>1, <1>2b, <1>2f
  <2>4. \A g \in {events', video'} : IsOpen(g) => route' # 0 /\ FileOf(g)'
    BY <2>1, <2>2, <1>2a
  <2>5. IsOpen(video') => video'.file[2] = "segment" /\ video'.file[1] # route'
    BY <2>1
  <2> QED BY <2>3, <2>4, <2>5 DEF FilesInv
<1>8. ClosedInv'
  <2> SUFFICES ASSUME NEW f \in DOMAIN closed' PROVE ClosedOf(f, closed[f])'
    BY DEF ClosedInv
  <2>1. PICK has : has = closed[f]
    OBVIOUS
  <2>2. ClosedOf(f, has) /\ f # first
    BY <1>0, <1>1, <1>2c, <2>1 DEF ClosedInv
  <2>3. Len(routes) <= Len(routes)' /\ Len(sent) <= Len(sent)'
    BY <1>2, <1>0, <1>1, RoutesAre
  <2>4. f[1] # route'
    BY <2>2, <1>2, <1>1 DEF ClosedOf
  <2>5. f \notin reopened' => IF f \in DOMAIN staging' THEN staging'[f] = has
                              ELSE f \in DOMAIN sd' /\ sd'[f] = has
    BY <2>2, <1>1, <1>2e DEF ClosedOf
  <2>6. ClosedOf(f, has)'
    BY <2>2, <2>3, <2>4, <2>5, <1>0, <1>1, <1>2, <1>4, ClosedOfIs DEF ClosedOf
  <2> QED BY <2>1, <2>6, <1>1 DEF ClosedOf
<1>9. MoverInv'
  BY <1>0, <1>1, <1>2c, <1>2e DEF MoverInv
<1>10. JobsInv'
  <2>1. WithMover' = WithMover
    BY <1>1 DEF WithMover
  <2>2. ASSUME NEW f \in WithMover' PROVE JobOf(f)'
    <3>1. JobOf(f)
      BY <1>0, <2>1, <2>2 DEF JobsInv
    <3> QED BY <3>1, <1>1, <1>2, <1>2a DEF JobOf
  <2>3. ASSUME NEW job \in Range(jobs') PROVE TreeJobOf(job)'
    <3>1. TreeJobOf(job)
      BY <1>0, <1>1, <2>3 DEF JobsInv
    <3>2. job.tree => job.route \in 1 .. Len(routes') \ {route'} /\ job.route # first[1]
      BY <3>1, <1>2, <1>2a, <1>2b DEF TreeJobOf
    <3> QED BY <3>1, <3>2, <1>1, <1>2f DEF TreeJobOf
  <2> QED BY <2>2, <2>3 DEF JobsInv
<1>11. CoverInv'
  <2> SUFFICES ASSUME ~copy_failed', ~abandoned', NEW f \in DOMAIN staging'
               PROVE  staging'[f] = Empty \/ f[1] = route' \/ f \in WithMover' \/ HasTreeJob(f[1])'
    BY DEF CoverInv
  <2>1. CASE f = first
    BY <2>1, <1>1, <1>2b
  <2>2. CASE f # first
    <3>1. route = 0 /\ ~abandoned /\ ~copy_failed /\ NamesARoute(f) /\ f \in DOMAIN staging /\ staging'[f] = staging[f]
      BY <2>2, <1>0, <1>1, <1>2e DEF RecTypes
    <3>2. staging[f] = Empty \/ f \in WithMover \/ HasTreeJob(f[1])
      BY <1>0, <1>2, <3>1 DEF CoverInv
    <3> QED BY <3>1, <3>2, <1>1 DEF WithMover, HasTreeJob
  <2> QED BY <2>1, <2>2
<1>12. PhaseInv'
  BY <1>0, <1>1, <1>1a DEF PhaseInv
<1> QED BY <1>3, <1>4, <1>5, <1>6, <1>7, <1>8, <1>9, <1>10, <1>11, <1>12 DEF RecInv

(* Files that are closed, and the jobs that go with them.                  *)
Jobs == [tree : BOOLEAN, route : Nat, file : FileNames]

LEMMA JobsAre ==
  /\ \A file \in FileNames :
       FileJob(file) \in Jobs /\ FileJob(file).file = file /\ FileJob(file).tree = FALSE
  /\ \A r \in Nat :
       /\ TreeJob(r) \in Jobs /\ TreeJob(r).file = NoFile /\ TreeJob(r).tree = TRUE
       /\ TreeJob(r).route = r
<1>1. \A file \in FileNames : file[1] \in Nat
  BY FileNamesAre
<1>2. NoFile \in FileNames
  BY FileNamesAre
<1> QED BY <1>1, <1>2 DEF FileJob, TreeJob, Jobs

LEMMA SegmentJobIs ==
  ASSUME RecTypes, RecTypeOK
  PROVE  /\ SegmentJob \in Seq(Jobs)
         /\ Range(SegmentJob) = IF IsOpen(video) THEN {FileJob(SegmentFile(video.rel))} ELSE {}
<1>1. CASE IsOpen(video)
  <2>1. SegmentFile(video.rel) \in FileNames
    BY RouteNamesAre, RoutesAre DEF RecTypes
  <2>2. FileJob(SegmentFile(video.rel)) \in Jobs
    BY <2>1, JobsAre
  <2> QED BY <1>1, <2>2, RangeOne DEF SegmentJob
<1>2. CASE ~IsOpen(video)
  <2>1. << >> \in Seq(Jobs)
    OBVIOUS
  <2> QED BY <1>2, <2>1, RangeEmpty DEF SegmentJob
<1> QED BY <1>1, <1>2

LEMMA ChunkJobIs ==
  ASSUME RecTypes, RecTypeOK
  PROVE  /\ ChunkJob \in Seq(Jobs)
         /\ Range(ChunkJob) = IF IsOpen(events) THEN {FileJob(ChunkFile(chunk))} ELSE {}
<1>1. CASE IsOpen(events)
  <2>1. ChunkFile(chunk) \in FileNames
    BY RouteNamesAre, RoutesAre
  <2>2. FileJob(ChunkFile(chunk)) \in Jobs
    BY <2>1, JobsAre
  <2> QED BY <1>1, <2>2, RangeOne DEF ChunkJob
<1>2. CASE ~IsOpen(events)
  <2>1. << >> \in Seq(Jobs)
    OBVIOUS
  <2> QED BY <1>2, <2>1, RangeEmpty DEF ChunkJob
<1> QED BY <1>1, <1>2

LEMMA JobsGrow ==
  ASSUME NEW more, Range(jobs') = Range(jobs) \cup more, mover' = mover
  PROVE  /\ WithMover' = WithMover \cup {job.file : job \in more}
         /\ \A r : HasTreeJob(r) => HasTreeJob(r)'
BY DEF WithMover, HasTreeJob

(* What a closed file keeps, and an open one has when it is closed.        *)
Saved(f, has) ==
  /\ NamesARoute(f) /\ has.head /\ Holds(f, has.data)
  /\ f \notin reopened => IF f \in DOMAIN staging THEN staging[f] = has
                          ELSE f \in DOMAIN sd /\ sd[f] = has
AllSaved(files) == \A f \in DOMAIN files : Saved(f, files[f])

LEMMA SavedClosed ==
  ASSUME RecInv
  PROVE  AllSaved(closed)
BY DEF RecInv, ClosedInv, ClosedOf, AllSaved, Saved

LEMMA SavedClosing ==
  ASSUME RecInv, NEW g \in {events, video}, NEW files, AllSaved(files)
  PROVE  AllSaved(Closing(g, files))
<1>1. CASE ~IsOpen(g)
  BY <1>1 DEF Closing
<1>2. CASE IsOpen(g)
  <2>1. FileOf(g) /\ DataOf(g)
    BY <1>2 DEF RecInv, FilesInv, DataInv
  <2>2. Saved(g.file, g.has)
    BY <2>1 DEF FileOf, DataOf, Saved
  <2>3. Closing(g, files) = [f \in DOMAIN files \cup {g.file} |-> IF f = g.file THEN g.has ELSE files[f]]
    BY <1>2 DEF Closing, Put
  <2> QED BY <2>2, <2>3 DEF AllSaved
<1> QED BY <1>1, <1>2

LEMMA ClosingType ==
  ASSUME RecTypes, NEW g \in {events, video}, NEW files, files \in [DOMAIN files -> Contents],
         DOMAIN files \subseteq FileNames
  PROVE  /\ Closing(g, files) \in [DOMAIN Closing(g, files) -> Contents]
         /\ DOMAIN Closing(g, files) \subseteq FileNames
         /\ DOMAIN files \subseteq DOMAIN Closing(g, files)
         /\ \A f \in DOMAIN Closing(g, files) : f \in DOMAIN files \/ (IsOpen(g) /\ f = g.file)
<1>1. g.has \in Contents /\ g.file \in FileNames
  BY DEF RecTypes
<1>2. CASE IsOpen(g)
  BY <1>1, <1>2 DEF Closing, Put
<1>3. CASE ~IsOpen(g)
  BY <1>3 DEF Closing
<1> QED BY <1>2, <1>3

LEMMA ClosedFrom ==
  ASSUME RecTypes, RecTypeOK, RecTypes', NEW files, AllSaved(files), closed' = files,
         Len(routes) <= Len(routes)', \A r \in 1 .. Len(routes) : routes'[r] = routes[r],
         doubled \subseteq doubled', sent' = sent, sd' = sd, reopened \subseteq reopened',
         \A f \in DOMAIN files : f \in DOMAIN staging' <=> f \in DOMAIN staging,
         \A f \in DOMAIN files : f \in DOMAIN staging => staging'[f] = staging[f],
         \A f \in DOMAIN files : f[1] = route' => f[3] < NextPart(f)'
  PROVE  ClosedInv'
<1> SUFFICES ASSUME NEW f \in DOMAIN files PROVE ClosedOf(f, files[f])'
  BY DEF ClosedInv, ClosedOf
<1>1. PICK has : has = files[f]
  OBVIOUS
<1>2. Saved(f, has)
  BY <1>1 DEF AllSaved
<1>3. f \notin reopened' => IF f \in DOMAIN staging' THEN staging'[f] = has
                            ELSE f \in DOMAIN sd' /\ sd'[f] = has
  BY <1>2 DEF Saved
<1>4. Len(sent) <= Len(sent)' /\ \A i \in 1 .. Len(sent) : sent'[i] = sent[i]
  BY RoutesAre
<1>5. ClosedOf(f, has)'
  BY <1>2, <1>3, <1>4, ClosedOfIs DEF Saved
<1> QED BY <1>1, <1>5

LEMMA WithMoverNames ==
  ASSUME RecTypes
  PROVE  WithMover \subseteq FileNames
<1>1. jobs \in Seq(Jobs) /\ mover.left \subseteq FileNames /\ mover.file \in FileNames
  BY DEF RecTypes, Jobs
<1>2. DOMAIN jobs = 1 .. Len(jobs) /\ \A i \in 1 .. Len(jobs) : jobs[i] \in Jobs
  <2> HIDE DEF Jobs
  <2> QED BY <1>1, LenProperties, ElementOfSeq
<1>3. \A job \in Range(jobs) : job.file \in FileNames
  BY <1>2 DEF Range, Jobs
<1> QED BY <1>1, <1>3 DEF WithMover

LEMMA StartBrokenKeeps ==
  ASSUME RecInv, StartBroken
  PROVE  RecInv'
<1>0. /\ RecTypeOK /\ RecTypes /\ QueueInv /\ DataInv /\ FilesInv /\ ClosedInv /\ MoverInv /\ JobsInv
      /\ CoverInv /\ PhaseInv
  BY DEF RecInv
<1>0a. PICK r, left : r = Len(routes) + 1 /\ left = <<r, "segment", video.rel>>
  OBVIOUS
<1> DEFINE part == IF IsOpen(video) THEN <<FileJob(left)>> ELSE << >>
<1>1. /\ Next1("enable") /\ Taken /\ SwitchedOnAgain /\ routes' = Append(routes, Head(queue).n)
      /\ worker' = "unrequest" /\ route' = 0 /\ chunk' = 0 /\ segment' = 0
      /\ events' = Shut /\ video' = Shut
      /\ jobs' = jobs \o part \o <<TreeJob(r)>>
      /\ closed' = Closing(video, closed)
      /\ abandoned' = (abandoned \/ route # 0)
      /\ UNCHANGED <<recordd, requested, staging, sd, mover, sent, session, crashes, copy_failed, reopened>>
  BY <1>0a DEF StartBroken, main, disk
<1>1a. worker = "ready" /\ queue # << >> /\ Head(queue).kind = "enable"
  BY <1>1, NextIs
<1>2. /\ routes' \in Seq(Nat) /\ Len(routes') = Len(routes) + 1 /\ Len(routes) \in Nat /\ route \in Nat
      /\ route <= Len(routes)
      /\ \A i \in 1 .. Len(routes) : routes'[i] = routes[i]
      /\ routes'[Len(routes) + 1] = Head(queue).n
      /\ doubled \subseteq doubled' /\ doubled' \subseteq 1 .. Len(routes)
      /\ route # 0 => route \in doubled'
      /\ \A f : NamesARoute(f) => NamesARoute(f)' /\ f[1] # Len(routes) + 1 /\ f[1] # 0
  BY <1>0, <1>1, NewRouteIs
<1>3. ~IsOpen(events') /\ ~IsOpen(video') /\ Shut \in [file : FileNames, rel : Nat, has : Contents]
  BY <1>1, ContentsAre
<1>4. /\ left \in FileNames /\ left[1] = r /\ left[2] = "segment" /\ r \in Nat \ {0} /\ r \in 1 .. Len(routes')
  <2>1. video.rel \in Nat /\ r \in Nat \ {0} /\ r \in 1 .. Len(routes')
    BY <1>0, <1>0a, <1>2 DEF RecTypes
  <2> QED BY <1>0a, <2>1, FileNamesAre
<1>5. part \in Seq(Jobs) /\ Range(part) = IF IsOpen(video) THEN {FileJob(left)} ELSE {}
  <2>1. CASE IsOpen(video)
    <3>1. FileJob(left) \in Jobs
      BY <1>4, JobsAre
    <3> QED BY <2>1, <3>1, RangeOne
  <2>2. CASE ~IsOpen(video)
    <3>1. << >> \in Seq(Jobs)
      OBVIOUS
    <3> QED BY <2>2, <3>1, RangeEmpty
  <2> QED BY <2>1, <2>2
<1> HIDE DEF part
<1>6. /\ jobs' \in Seq(Jobs)
      /\ Range(jobs') = Range(jobs) \cup ((IF IsOpen(video) THEN {FileJob(left)} ELSE {}) \cup {TreeJob(r)})
  <2>1. jobs \in Seq(Jobs)
    BY <1>0 DEF RecTypes, Jobs
  <2>2. jobs \o part \in Seq(Jobs) /\ Range(jobs \o part) = Range(jobs) \cup Range(part)
    BY <1>5, <2>1, RangeConcat
  <2>3. <<TreeJob(r)>> \in Seq(Jobs) /\ Range(<<TreeJob(r)>>) = {TreeJob(r)}
    <3>1. TreeJob(r) \in Jobs
      BY <1>4, JobsAre
    <3> QED BY <3>1, RangeOne
  <2>4. PICK ab, t : ab = jobs \o part /\ t = <<TreeJob(r)>>
    OBVIOUS
  <2>5. ab \o t \in Seq(Jobs) /\ Range(ab \o t) = Range(ab) \cup Range(t)
    <3>1. ab \in Seq(Jobs) /\ t \in Seq(Jobs)
      BY <2>2, <2>3, <2>4
    <3> QED BY <3>1, RangeConcat
  <2>6. jobs' = ab \o t
    BY <1>1, <2>4
  <2>7. Range(ab) = Range(jobs) \cup Range(part) /\ Range(t) = {TreeJob(r)}
    BY <2>2, <2>3, <2>4
  <2> QED BY <1>5, <2>5, <2>6, <2>7
<1>7. \A f \in WithMover' : f \in WithMover \/ f = left \/ f = NoFile
  <2>1. FileJob(left).file = left /\ TreeJob(r).file = NoFile
    BY <1>4, JobsAre
  <2>2. mover' = mover
    BY <1>1
  <2> QED BY <1>6, <2>1, <2>2 DEF WithMover
<1>8. RecTypeOK'
  <2>1. route' \in 0 .. Len(routes') /\ chunk' \in 0 .. MaxParts /\ segment' \in 0 .. MaxParts
    BY <1>1, <1>2, RecordingConstants
  <2>2. Cardinality(Droppable)' <= MaxPending
    BY <1>0, <1>1, <1>1a, TakenIs
  <2> QED BY <2>1, <2>2, <1>0, <1>1 DEF RecTypeOK
<1>9. RecTypes'
  <2>1. doubled' \subseteq 1 .. Len(routes')
    BY <1>2
  <2>2. \A f \in DOMAIN staging' : f \in FileNames /\ NamesARoute(f)'
    BY <1>0, <1>1, <1>2 DEF RecTypes
  <2>3. closed' \in [DOMAIN closed' -> Contents] /\ DOMAIN closed' \subseteq FileNames
    BY <1>0, <1>1, ClosingType DEF RecTypes
  <2>4. jobs' \in Seq([tree : BOOLEAN, route : Nat, file : FileNames])
    BY <1>6 DEF Jobs
  <2>5. queue' \in Seq([kind : Control \cup {"key", "delta", "event"}, n : Nat])
    BY <1>0, <1>1, <1>1a, TakenIs
  <2>6. {events', video'} \subseteq [file : FileNames, rel : Nat, has : Contents]
    BY <1>1, <1>3
  <2> QED BY <1>0, <1>1, <1>2, <2>1, <2>2, <2>3, <2>4, <2>5, <2>6 DEF RecTypes
<1>10. QueueInv'
  <2>1. ~OneSessionOpen'
    BY <1>1 DEF OneSessionOpen
  <2> QED BY <2>1, <1>0, <1>1, <1>1a, QueueTaken
<1>11. DataInv'
  BY <1>3 DEF DataInv
<1>12. FilesInv'
  BY <1>3 DEF FilesInv
<1>13. ClosedInv'
  <2> DEFINE files == Closing(video, closed)
  <2>1. AllSaved(files) /\ closed' = files
    BY <1>1, SavedClosed, SavedClosing
  <2> HIDE DEF files
  <2>2. \A f \in DOMAIN files : f[1] # route'
    BY <1>1, <1>2, <2>1 DEF AllSaved, Saved
  <2>3. Len(routes) <= Len(routes)'
    BY <1>2
  <2> QED BY <1>0, <1>1, <1>2, <1>9, <2>1, <2>2, <2>3, ClosedFrom
<1>14. MoverInv'
  BY <1>0, <1>1, MoverFrame
<1>15. JobsInv'
  <2>1. ASSUME NEW f \in WithMover' PROVE JobOf(f)'
    <3>1. JobOf(f) \/ f = left \/ f = NoFile
      BY <1>0, <1>7, <2>1 DEF JobsInv
    <3>2. f # NoFile => NamesARoute(f)'
      <4>1. f = left => NamesARoute(f)'
        BY <1>4 DEF NamesARoute
      <4> QED BY <3>1, <4>1, <1>2 DEF JobOf
    <3>3. NamesARoute(f)' => f[1] # route'
      BY <1>1, <1>2 DEF NamesARoute
    <3> QED BY <3>2, <3>3 DEF JobOf
  <2>2. ASSUME NEW job \in Range(jobs') PROVE TreeJobOf(job)'
    <3>1. CASE job \in Range(jobs)
      <4>1. TreeJobOf(job)
        BY <1>0, <3>1 DEF JobsInv
      <4> QED BY <4>1, <1>1, <1>2, <1>3 DEF TreeJobOf
    <3>2. CASE job = FileJob(left)
      BY <3>2, <1>4, JobsAre DEF TreeJobOf
    <3>3. CASE job = TreeJob(r)
      <4>1. job.file = NoFile /\ job.route = r
        BY <3>3, <1>4, JobsAre
      <4> QED BY <4>1, <1>1, <1>3, <1>4 DEF TreeJobOf
    <3> QED BY <3>1, <3>2, <3>3, <2>2, <1>6
  <2> QED BY <2>1, <2>2 DEF JobsInv
<1>16. CoverInv'
  <2> SUFFICES ASSUME ~copy_failed', ~abandoned', NEW f \in DOMAIN staging'
               PROVE  staging'[f] = Empty \/ f \in WithMover' \/ HasTreeJob(f[1])'
    BY DEF CoverInv
  <2>1. route = 0 /\ ~abandoned /\ ~copy_failed /\ NamesARoute(f) /\ f \in DOMAIN staging /\ staging' = staging
    BY <1>0, <1>1 DEF RecTypes
  <2>2. staging[f] = Empty \/ f \in WithMover \/ HasTreeJob(f[1])
    BY <1>0, <1>2, <2>1 DEF CoverInv
  <2>3. f \in WithMover => f \in WithMover'
    BY <1>1, <1>6 DEF WithMover
  <2>4. HasTreeJob(f[1]) => HasTreeJob(f[1])'
    BY <1>6 DEF HasTreeJob
  <2> QED BY <2>1, <2>2, <2>3, <2>4
<1>17. PhaseInv'
  BY <1>0, <1>1, <1>1a DEF PhaseInv
<1> QED BY <1>8, <1>9, <1>10, <1>11, <1>12, <1>13, <1>14, <1>15, <1>16, <1>17 DEF RecInv

LEMMA UnrequestKeeps ==
  ASSUME RecInv, Unrequest
  PROVE  RecInv'
<1>0. /\ RecTypeOK /\ RecTypes /\ QueueInv /\ DataInv /\ FilesInv /\ ClosedInv /\ MoverInv /\ JobsInv
      /\ CoverInv /\ PhaseInv
  BY DEF RecInv
<1>1. /\ worker = "unrequest" /\ worker' = "ready" /\ requested' = FALSE
      /\ UNCHANGED <<recordd, queue, open, disk, move, history>>
  BY DEF Unrequest
<1>2. /\ UNCHANGED <<route, routes, chunk, segment, events, video, staging, sd, jobs, mover>>
      /\ UNCHANGED <<sent, session, closed, crashes, copy_failed, abandoned, doubled, reopened>>
  BY <1>1 DEF open, disk, move, history
<1>3. RecTypeOK'
  BY <1>0, <1>1, <1>2 DEF RecTypeOK, Droppable
<1>4. RecTypes'
  BY <1>0, <1>1, <1>2 DEF RecTypes, NamesARoute
<1>5. QueueInv' /\ DataInv'
  BY <1>0, <1>1, <1>2, QueueFrame, DataFrame
<1>6. FilesInv'
  BY <1>0, <1>1, <1>2, FilesFrame
<1>7. ClosedInv'
  BY <1>0, <1>2 DEF ClosedInv, ClosedOf, NamesARoute, Holds, NextPart
<1>8. MoverInv' /\ JobsInv' /\ CoverInv'
  BY <1>0, <1>1, <1>2, MoverFrame, JobsFrame, CoverFrame
<1>9. PhaseInv'
  BY <1>0, <1>1, <1>2 DEF PhaseInv
<1> QED BY <1>3, <1>4, <1>5, <1>6, <1>7, <1>8, <1>9 DEF RecInv

(* The worker ends a route                                                 *)

LEMMA CloseRouteIs ==
  ASSUME RecTypes, RecTypeOK, FilesInv, CloseRoute, mover' = mover
  PROVE  \/ ~IsOpen(events) /\ ~IsOpen(video) /\ route = 0
            /\ UNCHANGED <<route, segment, events, video, jobs, closed>>
         \/ /\ route \in Nat \ {0} /\ route' = 0 /\ segment' = 0 /\ events' = Shut /\ video' = Shut
            /\ closed' = Closing(video, Closing(events, closed))
            /\ jobs' \in Seq(Jobs) /\ Range(jobs) \subseteq Range(jobs') /\ TreeJob(route) \in Range(jobs')
            /\ \A job \in Range(jobs') :
                 \/ job \in Range(jobs) \/ job = TreeJob(route)
                 \/ ~job.tree /\ job.file \in FileNames /\ job.file[1] = route /\ job.file[2] # "none"
<1>1. CASE ~IsOpen(events) /\ route = 0
  BY <1>1 DEF CloseRoute, FilesInv
<1>2. CASE ~(~IsOpen(events) /\ route = 0)
  <2>1. route \in Nat \ {0}
    BY <1>2, RoutesAre DEF FilesInv
  <2>2. /\ jobs' = jobs \o SegmentJob \o ChunkJob \o <<TreeJob(route)>>
        /\ closed' = Closing(video, Closing(events, closed))
        /\ video' = Shut /\ events' = Shut /\ route' = 0 /\ segment' = 0
    BY <1>2, <2>1 DEF CloseRoute
  <2>3. PICK s, c, t : s = SegmentJob /\ c = ChunkJob /\ t = <<TreeJob(route)>>
    OBVIOUS
  <2>4. s \in Seq(Jobs) /\ c \in Seq(Jobs) /\ t \in Seq(Jobs) /\ jobs \in Seq(Jobs)
    <3>1. TreeJob(route) \in Jobs
      BY <2>1, JobsAre
    <3>2. s \in Seq(Jobs) /\ c \in Seq(Jobs)
      BY <2>3, SegmentJobIs, ChunkJobIs
    <3>3. t \in Seq(Jobs)
      BY <2>3, <3>1, RangeOne
    <3>4. jobs \in Seq(Jobs)
      BY DEF RecTypes, Jobs
    <3> QED BY <3>2, <3>3, <3>4
  <2>5. PICK a : a = jobs \o s
    OBVIOUS
  <2>6. a \in Seq(Jobs) /\ Range(a) = Range(jobs) \cup Range(s)
    BY <2>4, <2>5, RangeConcat
  <2>7. PICK b : b = a \o c
    OBVIOUS
  <2>8. b \in Seq(Jobs) /\ Range(b) = Range(a) \cup Range(c)
    BY <2>4, <2>6, <2>7, RangeConcat
  <2>9. b \o t \in Seq(Jobs) /\ Range(b \o t) = Range(b) \cup Range(t)
    BY <2>4, <2>8, RangeConcat
  <2>10. jobs' = b \o t
    BY <2>2, <2>3, <2>5, <2>7
  <2>11. Range(t) = {TreeJob(route)}
    <3>1. TreeJob(route) \in Jobs
      BY <2>1, JobsAre
    <3> QED BY <2>3, <3>1, RangeOne
  <2>12. \A job \in Range(s) \cup Range(c) :
           ~job.tree /\ job.file \in FileNames /\ job.file[1] = route /\ job.file[2] # "none"
    <3>1. ASSUME NEW job \in Range(s) PROVE job = FileJob(SegmentFile(video.rel))
      BY <2>3, <3>1, SegmentJobIs
    <3>2. ASSUME NEW job \in Range(c) PROVE job = FileJob(ChunkFile(chunk))
      BY <2>3, <3>2, ChunkJobIs
    <3>3. ASSUME NEW file \in FileNames, file[1] = route, file[2] # "none"
          PROVE  /\ ~FileJob(file).tree /\ FileJob(file).file \in FileNames
                 /\ FileJob(file).file[1] = route /\ FileJob(file).file[2] # "none"
      BY <3>3, JobsAre
    <3>4. /\ SegmentFile(video.rel) \in FileNames /\ SegmentFile(video.rel)[1] = route
          /\ SegmentFile(video.rel)[2] # "none"
      BY <2>1, RouteNamesAre DEF RecTypes
    <3>5. /\ ChunkFile(chunk) \in FileNames /\ ChunkFile(chunk)[1] = route
          /\ ChunkFile(chunk)[2] # "none"
      BY <2>1, RouteNamesAre, RoutesAre
    <3> QED BY <3>1, <3>2, <3>3, <3>4, <3>5
  <2> QED BY <2>1, <2>2, <2>6, <2>8, <2>9, <2>10, <2>11, <2>12
<1> QED BY <1>1, <1>2

LEMMA EndRouteKeeps ==
  ASSUME RecInv, EndRoute
  PROVE  RecInv'
<1>0. /\ RecTypeOK /\ RecTypes /\ QueueInv /\ DataInv /\ FilesInv /\ ClosedInv /\ MoverInv /\ JobsInv
      /\ CoverInv /\ PhaseInv
  BY DEF RecInv
<1>1. /\ Taken /\ CloseRoute
      /\ UNCHANGED <<recordd, routes, chunk, staging, sd, mover, sent, session, crashes, copy_failed,
                     abandoned, doubled, reopened>>
  BY DEF EndRoute, disk
<1>1a. /\ worker = "ready" /\ queue # << >> /\ Head(queue).kind # "enable"
       /\ worker' \in {"ready", "done"} /\ requested' \in BOOLEAN /\ (requested' => requested)
  <2>1. CASE Next1("disable") /\ UNCHANGED <<worker, requested>>
    BY <2>1, <1>0, NextIs DEF RecTypeOK
  <2>2. CASE Next1("stop") /\ worker' = "done" /\ UNCHANGED requested
    BY <2>2, <1>0, NextIs DEF RecTypeOK
  <2>3. CASE (Next1("key") \/ Next1("delta")) /\ requested' = FALSE /\ UNCHANGED worker
    <3>1. CASE Next1("key")
      <4>1. worker = "ready" /\ queue # << >> /\ Head(queue).kind = "key"
        BY <3>1, NextIs
      <4>2. worker' \in {"ready", "done"} /\ requested' \in BOOLEAN /\ (requested' => requested)
        BY <2>3, <4>1
      <4> QED BY <4>1, <4>2
    <3>2. CASE Next1("delta")
      <4>1. worker = "ready" /\ queue # << >> /\ Head(queue).kind = "delta"
        BY <3>2, NextIs
      <4>2. worker' \in {"ready", "done"} /\ requested' \in BOOLEAN /\ (requested' => requested)
        BY <2>3, <4>1
      <4> QED BY <4>1, <4>2
    <3> QED BY <2>3, <3>1, <3>2
  <2> QED BY <2>1, <2>2, <2>3 DEF EndRoute
<1>2. /\ route \in Nat /\ route <= Len(routes) /\ Len(routes) \in Nat /\ chunk \in Nat /\ segment \in Nat
      /\ NoFile[1] = 0 /\ ~IsOpen(Shut) /\ Shut \in [file : FileNames, rel : Nat, has : Contents]
  BY <1>0, RoutesAre, ContentsAre, FileNamesAre
<1>3. \/ ~IsOpen(events) /\ ~IsOpen(video) /\ route = 0
         /\ UNCHANGED <<route, segment, events, video, jobs, closed>>
      \/ /\ route \in Nat \ {0} /\ route' = 0 /\ segment' = 0 /\ events' = Shut /\ video' = Shut
         /\ closed' = Closing(video, Closing(events, closed))
         /\ jobs' \in Seq(Jobs) /\ Range(jobs) \subseteq Range(jobs') /\ TreeJob(route) \in Range(jobs')
         /\ \A job \in Range(jobs') :
              \/ job \in Range(jobs) \/ job = TreeJob(route)
              \/ ~job.tree /\ job.file \in FileNames /\ job.file[1] = route /\ job.file[2] # "none"
  <2>1. mover' = mover
    BY <1>1
  <2> QED BY <1>0, <1>1, <2>1, CloseRouteIs
<1>4. route' = 0 /\ ~IsOpen(events') /\ ~IsOpen(video')
  BY <1>2, <1>3
<1>5. RecTypeOK'
  <2>1. route' \in 0 .. Len(routes') /\ chunk' \in 0 .. MaxParts /\ segment' \in 0 .. MaxParts
    BY <1>0, <1>1, <1>2, <1>3, RecordingConstants DEF RecTypeOK
  <2>2. Cardinality(Droppable)' <= MaxPending
    BY <1>0, <1>1, <1>1a, TakenIs
  <2> QED BY <2>1, <2>2, <1>0, <1>1, <1>1a DEF RecTypeOK
<1>6. RecTypes'
  <2>1. closed' \in [DOMAIN closed' -> Contents] /\ DOMAIN closed' \subseteq FileNames
    <3>1. CASE closed' = closed
      BY <3>1, <1>0 DEF RecTypes
    <3>2. CASE closed' = Closing(video, Closing(events, closed))
      <4>1. PICK files : files = Closing(events, closed)
        OBVIOUS
      <4>2. files \in [DOMAIN files -> Contents] /\ DOMAIN files \subseteq FileNames
        BY <1>0, <4>1, ClosingType DEF RecTypes
      <4>3. /\ Closing(video, files) \in [DOMAIN Closing(video, files) -> Contents]
            /\ DOMAIN Closing(video, files) \subseteq FileNames
        BY <1>0, <4>2, ClosingType
      <4> QED BY <3>2, <4>1, <4>3
    <3> QED BY <3>1, <3>2, <1>3
  <2>2. jobs' \in Seq([tree : BOOLEAN, route : Nat, file : FileNames])
    <3>1. jobs' \in Seq(Jobs) \/ jobs' = jobs
      BY <1>3
    <3> QED BY <3>1, <1>0 DEF Jobs, RecTypes
  <2>3. queue' \in Seq([kind : Control \cup {"key", "delta", "event"}, n : Nat])
    BY <1>0, <1>1, <1>1a, TakenIs
  <2>4. {events', video'} \subseteq [file : FileNames, rel : Nat, has : Contents]
    BY <1>0, <1>2, <1>3 DEF RecTypes
  <2>5. \A f \in DOMAIN staging' : f \in FileNames /\ NamesARoute(f)'
    BY <1>0, <1>1 DEF RecTypes, NamesARoute
  <2> QED BY <1>0, <1>1, <2>1, <2>2, <2>3, <2>4, <2>5 DEF RecTypes
<1>7. QueueInv'
  <2>1. ~OneSessionOpen'
    BY <1>4 DEF OneSessionOpen
  <2> QED BY <2>1, <1>0, <1>1, <1>1a, QueueTaken
<1>8. DataInv' /\ FilesInv'
  BY <1>4 DEF DataInv, FilesInv
<1>9. ClosedInv'
  <2>1. AllSaved(closed')
    <3>1. AllSaved(closed)
      BY SavedClosed
    <3>2. AllSaved(Closing(video, Closing(events, closed)))
      <4>1. PICK files : files = Closing(events, closed)
        OBVIOUS
      <4>2. AllSaved(files)
        BY <3>1, <4>1, SavedClosing
      <4>3. AllSaved(Closing(video, files))
        BY <4>2, SavedClosing
      <4> QED BY <4>1, <4>3
    <3> QED BY <3>1, <3>2, <1>3
  <2>2. PICK files : files = closed'
    OBVIOUS
  <2>3. \A f \in DOMAIN files : f[1] # route'
    BY <1>4, <2>1, <2>2 DEF AllSaved, Saved, NamesARoute
  <2>4. Len(routes) <= Len(routes)' /\ \A r \in 1 .. Len(routes) : routes'[r] = routes[r]
    BY <1>1, <1>2
  <2> QED BY <1>0, <1>1, <1>6, <2>1, <2>2, <2>3, <2>4, ClosedFrom
<1>10. MoverInv'
  BY <1>0, <1>1, MoverFrame
<1>10a. /\ Range(jobs) \subseteq Range(jobs')
        /\ \A job \in Range(jobs') :
              \/ job \in Range(jobs) \/ (job = TreeJob(route) /\ route # 0)
              \/ ~job.tree /\ job.file \in FileNames /\ job.file[1] = route /\ job.file[2] # "none" /\ route # 0
  BY <1>3
<1>11. JobsInv'
  <2>1. ASSUME NEW f \in WithMover' PROVE JobOf(f)'
    <3>1. f \in WithMover \/ f = NoFile \/ (f[1] = route /\ f[2] # "none" /\ route # 0)
      <4>1. CASE f \in mover'.left \cup {mover'.file}
        BY <4>1, <1>1 DEF WithMover
      <4>2. CASE \E job \in Range(jobs') : job.file = f
        <5>1. PICK job \in Range(jobs') : job.file = f
          BY <4>2
        <5>2. job \in Range(jobs) => f \in WithMover
          BY <5>1 DEF WithMover
        <5>3. job = TreeJob(route) => f = NoFile
          BY <5>1, <1>2, JobsAre
        <5> QED BY <5>1, <5>2, <5>3, <1>10a
      <4> QED BY <4>1, <4>2, <2>1 DEF WithMover
    <3>2. f # NoFile => NamesARoute(f)
      BY <3>1, <1>0, <1>2 DEF JobsInv, JobOf, NamesARoute
    <3>3. f # NoFile => NamesARoute(f)' /\ f[1] # route'
      BY <3>2, <1>1, <1>4 DEF NamesARoute
    <3> QED BY <3>3 DEF JobOf
  <2>2. ASSUME NEW job \in Range(jobs') PROVE TreeJobOf(job)'
    <3>1. CASE job \in Range(jobs)
      <4>1. TreeJobOf(job)
        BY <1>0, <3>1 DEF JobsInv
      <4> QED BY <4>1, <1>1, <1>2, <1>4 DEF TreeJobOf
    <3>2. CASE job = TreeJob(route) /\ route # 0
      <4>1. job.file = NoFile /\ job.route = route
        BY <3>2, <1>2, JobsAre
      <4> QED BY <4>1, <1>1, <1>2, <1>4, <3>2 DEF TreeJobOf
    <3>3. CASE ~job.tree
      BY <3>3 DEF TreeJobOf
    <3> QED BY <3>1, <3>2, <3>3, <2>2, <1>10a
  <2> QED BY <2>1, <2>2 DEF JobsInv
<1>12. CoverInv'
  <2> SUFFICES ASSUME ~copy_failed', ~abandoned', NEW f \in DOMAIN staging'
               PROVE  staging'[f] = Empty \/ f \in WithMover' \/ HasTreeJob(f[1])'
    BY DEF CoverInv
  <2>1. ~abandoned /\ ~copy_failed /\ f \in DOMAIN staging /\ staging' = staging /\ NamesARoute(f)
    BY <1>0, <1>1 DEF RecTypes
  <2>2. staging[f] = Empty \/ f[1] = route \/ f \in WithMover \/ HasTreeJob(f[1])
    BY <1>0, <2>1 DEF CoverInv
  <2>3. f \in WithMover => f \in WithMover'
    BY <1>1, <1>10a DEF WithMover
  <2>4. HasTreeJob(f[1]) => HasTreeJob(f[1])'
    BY <1>10a DEF HasTreeJob
  <2>5. f[1] = route => HasTreeJob(f[1])'
    <3>1. f[1] = route => route # 0
      BY <2>1, <1>2 DEF NamesARoute
    <3>2. route # 0 => TreeJob(route) \in Range(jobs')
      BY <1>3
    <3>3. TreeJob(route).tree /\ TreeJob(route).route = route
      BY <1>2, JobsAre
    <3> QED BY <3>1, <3>2, <3>3 DEF HasTreeJob
  <2> QED BY <2>1, <2>2, <2>3, <2>4, <2>5
<1>13. PhaseInv'
  BY <1>0, <1>1, <1>1a, <1>4 DEF PhaseInv
<1> QED BY <1>5, <1>6, <1>7, <1>8, <1>9, <1>10, <1>11, <1>12, <1>13 DEF RecInv

(* The worker writes to an open file                                       *)

LEMMA StoredIs ==
  ASSUME NEW g
  PROVE  /\ DOMAIN Stored(g) = DOMAIN staging
         /\ g.file \in DOMAIN staging => Stored(g)[g.file] = g.has
         /\ \A f \in DOMAIN staging : f # g.file => Stored(g)[f] = staging[f]
         /\ \A f \in DOMAIN staging : Stored(g)[f] = IF f = g.file THEN g.has ELSE staging[f]
BY DEF Stored, Put

LEMMA WriteKeeps ==
  ASSUME RecInv, queue # << >>, worker = "ready", Head(queue).kind \notin Control, Taken,
         NEW g, IsOpen(g), NEW h, h = Written(g, Head(queue).n), staging' = Stored(h),
         \/ g = events /\ events' = h /\ video' = video
         \/ g = video /\ video' = h /\ events' = events,
         UNCHANGED <<recordd, requested, worker, route, routes, chunk, segment, sd, jobs, mover,
                     sent, session, closed, crashes, copy_failed, abandoned, doubled, reopened>>
  PROVE  RecInv'
<1>0. /\ RecTypeOK /\ RecTypes /\ QueueInv /\ DataInv /\ FilesInv /\ ClosedInv /\ MoverInv /\ JobsInv
      /\ CoverInv /\ PhaseInv
  BY DEF RecInv
<1>1. PICK n : n = Head(queue).n
  OBVIOUS
<1>2. /\ g \in [file : FileNames, rel : Nat, has : Contents] /\ g \in {events, video}
      /\ FileOf(g) /\ DataOf(g) /\ route # 0
  BY <1>0 DEF RecTypes, FilesInv, DataInv
<1>3. DataOf(h)' /\ n \in 1 .. MaxSent
  <2>1. g.file[1] \in doubled \/ g.file[1] = route
    BY <1>2 DEF FileOf
  <2>2. UNCHANGED <<sent, routes, route, doubled>>
    OBVIOUS
  <2>3. DataOf(Written(g, n))' /\ n \in 1 .. MaxSent
    BY <1>0, <1>1, <1>2, <2>1, <2>2, DataWritten
  <2>4. PICK w : w = Written(g, n)
    OBVIOUS
  <2>5. h = w
    BY <1>1, <2>4
  <2> QED BY <2>3, <2>4, <2>5
<1>4. /\ h \in [file : FileNames, rel : Nat, has : Contents] /\ h.file = g.file /\ IsOpen(h)
      /\ h.has \in Contents
  <2>1. h = Written(g, n)
    BY <1>1
  <2>2. h \in [file : FileNames, rel : Nat, has : Contents] /\ h.file = g.file
    BY <1>2, <1>3, <2>1, WrittenIs
  <2> QED BY <2>2 DEF IsOpen
<1>5. /\ DOMAIN staging' = DOMAIN staging
      /\ \A f \in DOMAIN staging : staging'[f] = IF f = h.file THEN h.has ELSE staging[f]
  BY StoredIs
<1>6. RecTypeOK'
  <2>1. Cardinality(Droppable)' <= MaxPending
    BY <1>0, TakenIs
  <2>2. \A f \in DOMAIN staging' : staging'[f] \in Contents
    BY <1>0, <1>4, <1>5 DEF RecTypeOK
  <2> QED BY <2>1, <2>2, <1>0 DEF RecTypeOK
<1>7. RecTypes'
  <2>1. staging' \in [DOMAIN staging' -> Contents]
    <3>1. staging' = [f \in DOMAIN staging' |-> staging'[f]]
      BY DEF Stored, Put, RecTypes, RecInv
    <3>2. \A f \in DOMAIN staging' : staging'[f] \in Contents
      BY <1>6 DEF RecTypeOK
    <3> QED BY <3>1, <3>2
  <2>2. queue' \in Seq([kind : Control \cup {"key", "delta", "event"}, n : Nat])
    BY <1>0, TakenIs
  <2>3. {events', video'} \subseteq [file : FileNames, rel : Nat, has : Contents]
    BY <1>0, <1>4 DEF RecTypes
  <2>4. \A f \in DOMAIN staging' : f \in FileNames /\ NamesARoute(f)'
    BY <1>0, <1>5 DEF RecTypes, NamesARoute
  <2>5. IsFiniteSet(DOMAIN staging')
    BY <1>0, <1>5 DEF RecTypes
  <2> QED BY <1>0, <2>1, <2>2, <2>3, <2>4, <2>5 DEF RecTypes
<1>8. QueueInv'
  <2>1. Head(queue).kind # "enable"
    BY DEF Control
  <2>2. OneSessionOpen' => OneSessionOpen /\ routes'[route'] = routes[route]
    BY DEF OneSessionOpen
  <2> QED BY <1>0, <2>1, <2>2, QueueTaken
<1>9. DataInv'
  <2> SUFFICES ASSUME NEW o \in {events', video'}, IsOpen(o) PROVE DataOf(o)'
    BY DEF DataInv
  <2>1. CASE o = h
    BY <2>1, <1>3
  <2>2. CASE o \in {events, video}
    <3>1. o.file[1] \in 1 .. Len(routes) /\ DataOf(o)
      BY <1>0, <2>2 DEF DataInv, FilesInv, FileOf, NamesARoute
    <3>2. Len(routes) <= Len(routes)'
      BY <1>0, RoutesAre
    <3>3. \A i \in 1 .. Len(routes) : routes'[i] = routes[i]
      OBVIOUS
    <3> QED BY <3>1, <3>2, <3>3, <1>0, <1>7, DataTaken
  <2> QED BY <2>1, <2>2
<1>10. FilesInv'
  <2>1. WithMover' = WithMover
    BY DEF WithMover
  <2>2. FileOf(h)'
    BY <2>1, <1>2, <1>4, <1>5 DEF FileOf, NamesARoute
  <2>3. ASSUME NEW o \in {events, video}, IsOpen(o), o.file # h.file PROVE FileOf(o)'
    <3>1. FileOf(o)
      BY <1>0, <2>3 DEF FilesInv
    <3> QED BY <2>1, <2>3, <3>1, <1>5 DEF FileOf, NamesARoute
  <2>4. \A o \in {events', video'} : IsOpen(o) => o = h \/ (o \in {events, video} /\ o.file # h.file)
    BY <1>0, <1>4 DEF FilesInv
  <2>5. \A o \in {events', video'} : IsOpen(o) => route' # 0 /\ FileOf(o)'
    BY <1>2, <2>2, <2>3, <2>4
  <2> QED BY <1>0, <1>4, <2>5 DEF FilesInv
<1>11. ClosedInv'
  <2>1. h.file \notin DOMAIN closed
    BY <1>2, <1>4 DEF FileOf
  <2>2. AllSaved(closed)
    BY SavedClosed
  <2>3. PICK files : files = closed
    OBVIOUS
  <2>4. \A f \in DOMAIN files : f[1] = route' => f[3] < NextPart(f)'
    BY <1>0, <2>3 DEF ClosedInv, ClosedOf, NextPart
  <2>5. /\ \A f \in DOMAIN files : f \in DOMAIN staging' <=> f \in DOMAIN staging
        /\ \A f \in DOMAIN files : f \in DOMAIN staging => staging'[f] = staging[f]
    BY <2>1, <2>3, <1>5
  <2>6. Len(routes) <= Len(routes)' /\ \A i \in 1 .. Len(routes) : routes'[i] = routes[i]
    BY <1>0, RoutesAre
  <2> QED BY <1>0, <1>7, <2>2, <2>3, <2>4, <2>5, <2>6, ClosedFrom
<1>12. MoverInv'
  <2>1. mover.pc = "unlink" /\ mover.file \notin reopened => mover.file # h.file
    BY <1>2, <1>4 DEF FileOf, WithMover
  <2> QED BY <2>1, <1>0, <1>5 DEF MoverInv
<1>13. JobsInv'
  <2>1. WithMover' = WithMover
    BY DEF WithMover
  <2>2. \A f \in WithMover' : JobOf(f)'
    BY <1>0, <2>1 DEF JobsInv, JobOf, NamesARoute
  <2>3. ASSUME NEW job \in Range(jobs') PROVE TreeJobOf(job)'
    <3>1. TreeJobOf(job)
      BY <1>0, <2>3 DEF JobsInv
    <3> QED BY <3>1, <1>4 DEF TreeJobOf
  <2> QED BY <2>2, <2>3 DEF JobsInv
<1>14. CoverInv'
  <2> SUFFICES ASSUME ~copy_failed', ~abandoned', NEW f \in DOMAIN staging'
               PROVE  staging'[f] = Empty \/ f[1] = route' \/ f \in WithMover' \/ HasTreeJob(f[1])'
    BY DEF CoverInv
  <2>1. CASE f = h.file
    BY <2>1, <1>2, <1>4 DEF FileOf
  <2>2. CASE f # h.file
    <3>1. staging[f] = Empty \/ f[1] = route \/ f \in WithMover \/ HasTreeJob(f[1])
      BY <1>0, <1>5 DEF CoverInv
    <3> QED BY <2>2, <3>1, <1>5 DEF WithMover, HasTreeJob
  <2> QED BY <2>1, <2>2
<1>15. PhaseInv'
  BY <1>0 DEF PhaseInv
<1> QED BY <1>6, <1>7, <1>8, <1>9, <1>10, <1>11, <1>12, <1>13, <1>14, <1>15 DEF RecInv

LEMMA AppendKeeps ==
  ASSUME RecInv, AppendFrame \/ AppendEvent
  PROVE  RecInv'
<1>1. CASE AppendFrame
  <2>1. queue # << >> /\ worker = "ready" /\ Head(queue).kind \in {"delta", "key"}
    <3>1. Next1("delta") \/ Next1("key")
      BY <1>1 DEF AppendFrame
    <3>2. Next1("delta") => worker = "ready" /\ queue # << >> /\ Head(queue).kind = "delta"
      BY NextIs
    <3>3. Next1("key") => worker = "ready" /\ queue # << >> /\ Head(queue).kind = "key"
      BY NextIs
    <3> QED BY <3>1, <3>2, <3>3
  <2>2. Head(queue).kind \notin Control
    BY <2>1 DEF Control
  <2>3. PICK g, h : g = video /\ h = Written(video, Head(queue).n)
    OBVIOUS
  <2>4. /\ IsOpen(g) /\ Taken /\ video' = h /\ events' = events /\ staging' = Stored(h)
        /\ UNCHANGED <<recordd, requested, worker, route, routes, chunk, segment, sd, jobs, mover,
                       sent, session, closed, crashes, copy_failed, abandoned, doubled, reopened>>
    BY <1>1, <2>3 DEF AppendFrame, main, move, history
  <2>5. h = Written(g, Head(queue).n)
    BY <2>3
  <2> QED BY <2>1, <2>2, <2>3, <2>4, <2>5, WriteKeeps
<1>2. CASE AppendEvent
  <2>1. queue # << >> /\ worker = "ready" /\ Head(queue).kind = "event"
    BY <1>2, NextIs DEF AppendEvent
  <2>2. Head(queue).kind \notin Control
    BY <2>1 DEF Control
  <2>3. PICK g, h : g = events /\ h = Written(events, Head(queue).n)
    OBVIOUS
  <2>4. /\ IsOpen(g) /\ Taken /\ events' = h /\ video' = video /\ staging' = Stored(h)
        /\ UNCHANGED <<recordd, requested, worker, route, routes, chunk, segment, sd, jobs, mover,
                       sent, session, closed, crashes, copy_failed, abandoned, doubled, reopened>>
    BY <1>2, <2>3 DEF AppendEvent, main, move, history
  <2>5. h = Written(g, Head(queue).n)
    BY <2>3
  <2> QED BY <2>1, <2>2, <2>3, <2>4, <2>5, WriteKeeps
<1> QED BY <1>1, <1>2

LEMMA OpenKeeps ==
  ASSUME RecInv, queue # << >>, worker = "ready", Head(queue).kind \notin Control, Taken, IsOpen(events),
         NEW g \in {events, video}, NEW h, NEW file \in FileNames, NEW has,
         file[1] = route, closed' = Closing(g, closed),
         \/ h = Shut /\ staging' = staging
         \/ h = Shut /\ has = Empty /\ staging' = Put(file, has, staging)
         \/ h = Written(Opened(file, file[3]), Head(queue).n) /\ has = h.has /\ staging' = Put(file, has, staging),
         \/ /\ g = events /\ file[2] = "events" /\ events' = h /\ video' = video
            /\ chunk' = chunk + 1 /\ file[3] = chunk' /\ chunk' <= MaxParts /\ segment' = segment
         \/ /\ g = video /\ file[2] = "segment" /\ video' = h /\ events' = events
            /\ segment' = (IF IsOpen(video) THEN segment + 1 ELSE segment) /\ file[3] = segment'
            /\ segment' <= MaxParts /\ chunk' = chunk,
         reopened \subseteq reopened', file \in WithMover => file \in reopened',
         jobs' \in Seq(Jobs), Range(jobs) \subseteq Range(jobs'),
         \A job \in Range(jobs') :
           \/ job \in Range(jobs)
           \/ /\ ~job.tree /\ job.file \in FileNames /\ job.file[1] = route /\ job.file[2] = file[2]
              /\ job.file[2] = "events" => job.file[3] = chunk
              /\ job.file = file => file \in reopened' \/ h = Shut,
         UNCHANGED <<recordd, requested, worker, route, routes, sd, mover,
                     sent, session, crashes, copy_failed, abandoned, doubled>>
  PROVE  RecInv'
<1>0. /\ RecTypeOK /\ RecTypes /\ QueueInv /\ DataInv /\ FilesInv /\ ClosedInv /\ MoverInv /\ JobsInv
      /\ CoverInv /\ PhaseInv
  BY DEF RecInv
<1>1. /\ route \in Nat \ {0} /\ route <= Len(routes) /\ Len(routes) \in Nat /\ chunk \in Nat /\ segment \in Nat
      /\ route \in 1 .. Len(routes) /\ chunk <= MaxParts /\ segment <= MaxParts
      /\ ~IsOpen(Shut) /\ Shut \in [file : FileNames, rel : Nat, has : Contents]
      /\ Empty \in Contents
  <2>1. route # 0
    BY <1>0 DEF FilesInv
  <2>2. /\ route \in Nat /\ route <= Len(routes) /\ Len(routes) \in Nat /\ chunk \in Nat /\ segment \in Nat
    BY <1>0, RoutesAre
  <2>3. chunk <= MaxParts /\ segment <= MaxParts
    BY <1>0, RecordingConstants DEF RecTypeOK
  <2> QED BY <2>1, <2>2, <2>3, ContentsAre
<1>2. /\ file # NoFile /\ file[2] \in {"segment", "events"} /\ file[3] \in Nat /\ NamesARoute(file) /\ NamesARoute(file)'
  <2>1. file[2] \in {"segment", "events"} /\ file[3] \in Nat
    BY <1>1, FileNamesAre
  <2>2. file # NoFile
    BY <1>1, FileNamesAre
  <2> QED BY <2>1, <2>2, <1>1 DEF NamesARoute
<1>3. h # Shut => /\ h \in [file : FileNames, rel : Nat, has : Contents] /\ h.file = file /\ IsOpen(h)
                  /\ DataOf(h)' /\ has = h.has /\ h.has \in Contents /\ staging' = Put(file, has, staging)
  <2> SUFFICES ASSUME h # Shut
               PROVE  /\ h \in [file : FileNames, rel : Nat, has : Contents] /\ h.file = file /\ IsOpen(h)
                      /\ DataOf(h)' /\ h.has \in Contents
    OBVIOUS
  <2>1. PICK b, n : b = Opened(file, file[3]) /\ n = Head(queue).n
    OBVIOUS
  <2>2. h = Written(b, n)
    BY <2>1
  <2>3. b \in [file : FileNames, rel : Nat, has : Contents] /\ b.file = file /\ b.has = HeadOnly
    BY <1>2, <2>1, OpenedIs
  <2>4. DataOf(b)
    BY <2>3, ContentsAre, DataEmpty
  <2>5. b.file[1] \in doubled \/ b.file[1] = route
    BY <2>3
  <2>6. DataOf(Written(b, n))' /\ n \in 1 .. MaxSent
    <3>1. UNCHANGED <<sent, routes, route, doubled>> /\ route # 0
      BY <1>1
    <3> QED BY <1>0, <2>1, <2>3, <2>4, <2>5, <3>1, DataWritten
  <2>7. h \in [file : FileNames, rel : Nat, has : Contents] /\ h.file = file
    BY <2>2, <2>3, <2>6, WrittenIs
  <2>8. DataOf(h)'
    <3>1. PICK w : w = Written(b, n)
      OBVIOUS
    <3> QED BY <2>2, <2>6, <3>1
  <2> QED BY <2>7, <2>8, <1>2 DEF IsOpen
<1>4. /\ h \in [file : FileNames, rel : Nat, has : Contents] /\ (h # Shut <=> IsOpen(h))
      /\ h.has \in Contents
  <2>1. h \in [file : FileNames, rel : Nat, has : Contents] /\ (h # Shut <=> IsOpen(h))
    BY <1>1, <1>3
  <2> QED BY <2>1
<1>5. /\ DOMAIN staging \subseteq DOMAIN staging' /\ DOMAIN staging' \subseteq DOMAIN staging \cup {file}
      /\ \A f \in DOMAIN staging' : f # file => f \in DOMAIN staging /\ staging'[f] = staging[f]
      /\ h # Shut => file \in DOMAIN staging' /\ staging'[file] = h.has
      /\ staging' \in [DOMAIN staging' -> Contents]
  <2>1. CASE staging' = staging /\ h = Shut
    BY <2>1, <1>0 DEF RecTypes
  <2>2. CASE staging' = Put(file, has, staging) /\ has \in Contents /\ (h # Shut => has = h.has)
    <3>1. staging' = [f \in DOMAIN staging \cup {file} |-> IF f = file THEN has ELSE staging[f]]
      BY <2>2 DEF Put
    <3>2. staging \in [DOMAIN staging -> Contents]
      BY <1>0 DEF RecTypes
    <3> QED BY <2>2, <3>1, <3>2
  <2> QED BY <2>1, <2>2, <1>1, <1>3
<1>5a. chunk' \in Nat /\ segment' \in Nat /\ chunk <= chunk' /\ segment <= segment'
       /\ chunk \in Nat /\ segment \in Nat
  <2>1. CASE chunk' = chunk + 1 /\ segment' = segment
    BY <2>1, <1>1
  <2>2. CASE segment' \in {segment, segment + 1} /\ chunk' = chunk
    BY <2>2, <1>1
  <2> QED BY <2>1, <2>2
<1>6. file \notin DOMAIN closed'
  <2>1. g.file = file => ~IsOpen(g)
    BY <1>0, <1>1 DEF FilesInv
  <2>2. file \notin DOMAIN closed
    BY <1>0, <1>1 DEF ClosedInv, ClosedOf, NextPart
  <2> QED BY <1>0, <2>1, <2>2, ClosingType DEF RecTypes
<1>7. /\ \A f \in WithMover' : f \in WithMover \/
           (f[1] = route /\ f[2] = file[2] /\ (f[2] = "events" => f[3] < chunk')
              /\ (f = file => file \in reopened' \/ h = Shut))
      /\ WithMover \subseteq WithMover'
  <2>1. ASSUME NEW f \in WithMover', f \notin WithMover
        PROVE  /\ f[1] = route /\ f[2] = file[2] /\ (f[2] = "events" => f[3] < chunk')
               /\ f = file => file \in reopened' \/ h = Shut
    <3>1. PICK job \in Range(jobs') : job.file = f
      BY <2>1 DEF WithMover
    <3>2. job \notin Range(jobs)
      BY <2>1, <3>1 DEF WithMover
    <3>3. f[2] = "events" => chunk' = chunk + 1
      BY <3>1, <3>2
    <3> QED BY <3>1, <3>2, <3>3, <1>1
  <2>2. WithMover \subseteq WithMover'
    BY DEF WithMover
  <2> QED BY <2>1, <2>2
<1>8. RecTypeOK'
  <2>1. Cardinality(Droppable)' <= MaxPending
    BY <1>0, TakenIs
  <2>2. \A f \in DOMAIN staging' : staging'[f] \in Contents
    BY <1>5
  <2>3. chunk' \in 0 .. MaxParts /\ segment' \in 0 .. MaxParts
    BY <1>1, RecordingConstants
  <2> QED BY <2>1, <2>2, <2>3, <1>0 DEF RecTypeOK
<1>9. RecTypes'
  <2>1. queue' \in Seq([kind : Control \cup {"key", "delta", "event"}, n : Nat])
    BY <1>0, TakenIs
  <2>2. {events', video'} \subseteq [file : FileNames, rel : Nat, has : Contents]
    BY <1>0, <1>4 DEF RecTypes
  <2>3. \A f \in DOMAIN staging' : f \in FileNames /\ NamesARoute(f)'
    BY <1>0, <1>2, <1>5 DEF RecTypes, NamesARoute
  <2>4. IsFiniteSet(DOMAIN staging')
    <3>1. IsFiniteSet(DOMAIN staging \cup {file})
      BY <1>0, FS_AddElement DEF RecTypes
    <3> QED BY <3>1, <1>5, FS_Subset
  <2>5. closed' \in [DOMAIN closed' -> Contents] /\ DOMAIN closed' \subseteq FileNames
    BY <1>0, ClosingType DEF RecTypes
  <2>6. jobs' \in Seq([tree : BOOLEAN, route : Nat, file : FileNames])
    BY DEF Jobs
  <2> QED BY <1>0, <1>5, <2>1, <2>2, <2>3, <2>4, <2>5, <2>6 DEF RecTypes
<1>10. QueueInv'
  <2>1. Head(queue).kind # "enable"
    BY DEF Control
  <2>2. OneSessionOpen' => OneSessionOpen /\ routes'[route'] = routes[route]
    BY DEF OneSessionOpen
  <2> QED BY <1>0, <2>1, <2>2, QueueTaken
<1>10a. \A o \in {events', video'} : IsOpen(o) =>
          o = h \/ (o \in {events, video} /\ o.file[2] # file[2] /\ o.file # file)
  BY <1>0 DEF FilesInv
<1>11. DataInv'
  <2> SUFFICES ASSUME NEW o \in {events', video'}, IsOpen(o) PROVE DataOf(o)'
    BY DEF DataInv
  <2>1. CASE o = h
    BY <2>1, <1>3, <1>4
  <2>2. CASE o \in {events, video}
    <3>1. o.file[1] \in 1 .. Len(routes) /\ DataOf(o)
      BY <1>0, <2>2 DEF DataInv, FilesInv, FileOf, NamesARoute
    <3>2. Len(routes) <= Len(routes)'
      BY <1>0, RoutesAre
    <3>3. \A i \in 1 .. Len(routes) : routes'[i] = routes[i]
      OBVIOUS
    <3> QED BY <3>1, <3>2, <3>3, <1>0, <1>9, DataTaken
  <2> QED BY <2>1, <2>2, <1>10a
<1>12. FilesInv'
  <2>1. IsOpen(h) => FileOf(h)'
    <3>1. ASSUME IsOpen(h), h.file \notin reopened'
          PROVE  h.file \in DOMAIN staging' /\ staging'[h.file] = h.has /\ h.file \notin WithMover'
      BY <3>1, <1>3, <1>4, <1>5, <1>7
    <3> QED BY <3>1, <1>2, <1>3, <1>4, <1>6 DEF FileOf
  <2>2. ASSUME NEW o \in {events, video}, IsOpen(o), o.file[2] # file[2], o.file # file PROVE FileOf(o)'
    <3>1. FileOf(o)
      BY <1>0, <2>2 DEF FilesInv
    <3>2. o.file \notin DOMAIN closed'
      <4>1. o.file # g.file \/ ~IsOpen(g)
        BY <1>0, <2>2 DEF FilesInv
      <4>2. closed \in [DOMAIN closed -> Contents] /\ DOMAIN closed \subseteq FileNames
        BY <1>0 DEF RecTypes
      <4> QED BY <1>0, <3>1, <4>1, <4>2, ClosingType DEF FileOf
    <3>3. o.file \notin reopened' =>
            o.file \in DOMAIN staging' /\ staging'[o.file] = o.has /\ o.file \notin WithMover'
      BY <2>2, <3>1, <1>5, <1>7 DEF FileOf
    <3>4. NamesARoute(o.file)'
      BY <3>1 DEF FileOf, NamesARoute
    <3> QED BY <3>1, <3>2, <3>3, <3>4 DEF FileOf
  <2>3. \A o \in {events', video'} : IsOpen(o) => route' # 0 /\ FileOf(o)'
    BY <1>1, <1>10a, <2>1, <2>2
  <2>4. IsOpen(events') => events'.file[2] = "events" /\ (events'.file[1] = route' => events'.file[3] = chunk')
    BY <1>0, <1>3, <1>4 DEF FilesInv
  <2>5. IsOpen(video') => video'.file[2] = "segment" /\ (video'.file[1] = route' => video'.file[3] = segment')
    BY <1>0, <1>3, <1>4 DEF FilesInv
  <2> QED BY <2>3, <2>4, <2>5 DEF FilesInv
<1>13. ClosedInv'
  <2>1. PICK files : files = Closing(g, closed)
    OBVIOUS
  <2>2. AllSaved(files) /\ closed' = files
    BY <2>1, SavedClosed, SavedClosing
  <2>3. ASSUME NEW f \in DOMAIN files, f[1] = route' PROVE f[3] < NextPart(f)'
    <3>1. CASE f \in DOMAIN closed
      <4>1. f[3] < NextPart(f) /\ NamesARoute(f)
        BY <1>0, <2>3, <3>1 DEF ClosedInv, ClosedOf
      <4>2. NextPart(f) \in Nat /\ NextPart(f)' \in Nat /\ NextPart(f) <= NextPart(f)'
        BY <1>5a DEF NextPart
      <4>3. f[3] \in Nat
        BY <1>0, <3>1, FileNamesAre DEF RecTypes
      <4> QED BY <4>1, <4>2, <4>3
    <3>2. CASE IsOpen(g) /\ f = g.file
      BY <1>0, <1>1, <2>3, <3>2 DEF FilesInv, NextPart
    <3>3. f \in DOMAIN closed \/ (IsOpen(g) /\ f = g.file)
      <4>1. closed \in [DOMAIN closed -> Contents] /\ DOMAIN closed \subseteq FileNames
        BY <1>0 DEF RecTypes
      <4> QED BY <1>0, <2>1, <4>1, ClosingType
    <3> QED BY <3>1, <3>2, <3>3
  <2>4. file \notin DOMAIN files
    BY <1>6, <2>2
  <2>5. /\ \A f \in DOMAIN files : f \in DOMAIN staging' <=> f \in DOMAIN staging
        /\ \A f \in DOMAIN files : f \in DOMAIN staging => staging'[f] = staging[f]
    BY <2>4, <1>5
  <2>6. Len(routes) <= Len(routes)' /\ \A i \in 1 .. Len(routes) : routes'[i] = routes[i]
    BY <1>0, RoutesAre
  <2> QED BY <1>0, <1>9, <2>2, <2>3, <2>5, <2>6, ClosedFrom
<1>14. MoverInv'
  <2>1. mover.pc = "unlink" /\ mover.file \notin reopened' => mover.file # file
    BY DEF WithMover
  <2> QED BY <2>1, <1>0, <1>5 DEF MoverInv
<1>15. JobsInv'
  <2>1. ASSUME NEW f \in WithMover' PROVE JobOf(f)'
    <3>1. CASE f \in WithMover
      <4>1. JobOf(f)
        BY <1>0, <3>1 DEF JobsInv
      <4>2. f[1] = route /\ f[2] = "events" /\ f[3] < chunk => f[3] < chunk'
        <5>1. f[3] \in Nat
          <6>1. f \in FileNames
            BY <1>0, <3>1, WithMoverNames
          <6> QED BY <6>1, FileNamesAre
        <5> QED BY <5>1, <1>1
      <4> QED BY <4>1, <4>2 DEF JobOf, NamesARoute
    <3>2. CASE f[1] = route /\ f[2] = file[2] /\ (f[2] = "events" => f[3] < chunk')
      BY <3>2, <1>1, <1>2 DEF JobOf, NamesARoute
    <3> QED BY <3>1, <3>2, <2>1, <1>7
  <2>2. ASSUME NEW job \in Range(jobs') PROVE TreeJobOf(job)'
    <3>1. CASE job \in Range(jobs)
      <4>1. TreeJobOf(job)
        BY <1>0, <3>1 DEF JobsInv
      <4>2. job.tree => job.route \in 1 .. Len(routes') \ {route'} /\ job.file = NoFile
        BY <4>1 DEF TreeJobOf
      <4>3. ASSUME job.tree, NEW o \in {events', video'}, IsOpen(o) PROVE job.route # o.file[1]
        <5>1. o = h => o.file[1] = route
          BY <4>3, <1>3, <1>4
        <5> QED BY <4>1, <4>2, <4>3, <5>1, <1>10a DEF TreeJobOf
      <4> QED BY <4>2, <4>3 DEF TreeJobOf
    <3>2. CASE ~job.tree
      BY <3>2 DEF TreeJobOf
    <3> QED BY <3>1, <3>2, <2>2
  <2> QED BY <2>1, <2>2 DEF JobsInv
<1>16. CoverInv'
  <2> SUFFICES ASSUME ~copy_failed', ~abandoned', NEW f \in DOMAIN staging'
               PROVE  staging'[f] = Empty \/ f[1] = route' \/ f \in WithMover' \/ HasTreeJob(f[1])'
    BY DEF CoverInv
  <2>1. CASE f = file
    BY <2>1
  <2>2. CASE f # file
    <3>1. f \in DOMAIN staging /\ staging'[f] = staging[f]
      BY <2>2, <1>5
    <3>2. staging[f] = Empty \/ f[1] = route \/ f \in WithMover \/ HasTreeJob(f[1])
      BY <1>0, <3>1 DEF CoverInv
    <3>3. HasTreeJob(f[1]) => HasTreeJob(f[1])'
      BY DEF HasTreeJob
    <3> QED BY <3>1, <3>2, <3>3, <1>7
  <2> QED BY <2>1, <2>2
<1>17. PhaseInv'
  BY <1>0 DEF PhaseInv
<1> QED BY <1>8, <1>9, <1>10, <1>11, <1>12, <1>13, <1>14, <1>15, <1>16, <1>17 DEF RecInv

LEMMA PlainHead ==
  ASSUME NEW kind \in {"key", "delta", "event"}, Next1(kind)
  PROVE  worker = "ready" /\ queue # << >> /\ Head(queue).kind = kind /\ Head(queue).kind \notin Control
BY NextIs DEF Control

LEMMA OpenChunkKeeps ==
  ASSUME RecInv, OpenChunk
  PROVE  RecInv'
<1>0. RecTypes /\ RecTypeOK /\ FilesInv /\ JobsInv
  BY DEF RecInv
<1>1. /\ Next1("event") /\ IsOpen(events) /\ Taken /\ chunk < MaxParts /\ chunk' = chunk + 1
      /\ jobs' = jobs \o ChunkJob /\ closed' = Closing(events, closed)
      /\ UNCHANGED <<recordd, requested, worker, route, routes, segment, video, sd, mover, sent, session,
                     crashes, copy_failed, abandoned, doubled, reopened>>
  BY DEF OpenChunk, main
<1>2. worker = "ready" /\ queue # << >> /\ Head(queue).kind \notin Control
  BY <1>1, PlainHead
<1>3. route \in Nat /\ chunk \in Nat /\ chunk + 1 \in Nat /\ MaxParts \in Nat
  BY <1>0, RoutesAre, RecordingConstants
<1>4. PICK file, h : file = ChunkFile(chunk + 1) /\ h = events'
  OBVIOUS
<1>5. file \in FileNames /\ file[1] = route /\ file[2] = "events" /\ file[3] = chunk + 1
  BY <1>3, <1>4, RouteNamesAre
<1>6. \/ h = Shut /\ staging' = staging
      \/ h = Written(Opened(file, file[3]), Head(queue).n) /\ staging' = Put(file, h.has, staging)
  BY <1>1, <1>4, <1>5 DEF OpenChunk
<1>7. file \notin WithMover
  <2>1. file # NoFile
    BY <1>5, FileNamesAre
  <2> QED BY <2>1, <1>0, <1>3, <1>5 DEF JobsInv, JobOf
<1>8. /\ jobs' \in Seq(Jobs) /\ Range(jobs) \subseteq Range(jobs')
      /\ \A job \in Range(jobs') : job \in Range(jobs) \/ job = FileJob(ChunkFile(chunk))
  <2>1. jobs \in Seq(Jobs)
    BY <1>0 DEF RecTypes, Jobs
  <2>2. ChunkJob \in Seq(Jobs) /\ Range(ChunkJob) = {FileJob(ChunkFile(chunk))}
    BY <1>0, <1>1, ChunkJobIs
  <2>3. PICK c : c = ChunkJob
    OBVIOUS
  <2>4. jobs \o c \in Seq(Jobs) /\ Range(jobs \o c) = Range(jobs) \cup Range(c)
    BY <2>1, <2>2, <2>3, RangeConcat
  <2> QED BY <2>2, <2>3, <2>4, <1>1
<1>9. LET job == FileJob(ChunkFile(chunk)) IN
      ~job.tree /\ job.file \in FileNames /\ job.file[1] = route /\ job.file[2] = "events" /\ job.file[3] = chunk
  BY <1>3, RouteNamesAre, JobsAre
<1>10. \A job \in Range(jobs') :
         \/ job \in Range(jobs)
         \/ /\ ~job.tree /\ job.file \in FileNames /\ job.file[1] = route /\ job.file[2] = file[2]
            /\ job.file[2] = "events" => job.file[3] = chunk
            /\ job.file = file => file \in reopened' \/ h = Shut
  <2>1. ChunkFile(chunk) # file
    <3>1. ChunkFile(chunk)[3] = chunk /\ chunk # chunk + 1
      BY <1>3, RouteNamesAre
    <3> QED BY <3>1, <1>5
  <2>2. FileJob(ChunkFile(chunk)).file # file
    <3>1. ChunkFile(chunk) \in FileNames
      BY <1>3, RouteNamesAre
    <3> QED BY <2>1, <3>1, JobsAre
  <2> QED BY <2>2, <1>5, <1>8, <1>9
<1>11. PICK g, has : g = events /\ has = h.has
  OBVIOUS
<1>12. /\ g \in {events, video} /\ closed' = Closing(g, closed) /\ g = events /\ events' = h /\ video' = video
       /\ chunk' = chunk + 1 /\ file[3] = chunk' /\ chunk' <= MaxParts /\ segment' = segment
  BY <1>1, <1>3, <1>4, <1>5, <1>11
<1>13. \/ h = Shut /\ staging' = staging
       \/ h = Written(Opened(file, file[3]), Head(queue).n) /\ has = h.has /\ staging' = Put(file, has, staging)
  BY <1>6, <1>11
<1>14. reopened' = reopened /\ IsOpen(events) /\ Taken
  BY <1>1
<1>15. UNCHANGED <<recordd, requested, worker, route, routes, sd, mover,
                  sent, session, crashes, copy_failed, abandoned, doubled>>
  BY <1>1
<1> QED BY <1>2, <1>5, <1>7, <1>8, <1>10, <1>12, <1>13, <1>14, <1>15, OpenKeeps

LEMMA OpenSegmentKeeps ==
  ASSUME RecInv, OpenSegment
  PROVE  RecInv'
<1>0. RecTypes /\ RecTypeOK /\ FilesInv /\ JobsInv
  BY DEF RecInv
<1>1. PICK index, file, h : /\ index = (IF IsOpen(video) THEN segment + 1 ELSE segment)
                            /\ file = SegmentFile(index) /\ h = video'
  OBVIOUS
<1>2. /\ Next1("key") /\ IsOpen(events) /\ index <= MaxParts /\ Taken /\ segment' = index
      /\ \/ /\ h = Written(Opened(file, index), Head(queue).n)
            /\ jobs' = jobs \o SegmentJob
            /\ staging' = Put(file, h.has, staging)
         \/ /\ h = Shut
            /\ jobs' = jobs \o SegmentJob \o <<FileJob(file)>>
            /\ staging' = Put(file, Empty, staging)
      /\ reopened' = reopened \cup ({file} \cap (WithMover \cup {job.file : job \in Range(SegmentJob)}))
      /\ closed' = Closing(video, closed)
      /\ UNCHANGED <<recordd, requested, worker, route, routes, chunk, events, sd, mover, sent, session,
                     crashes, copy_failed, abandoned, doubled>>
  BY <1>1 DEF OpenSegment, main
<1>3. worker = "ready" /\ queue # << >> /\ Head(queue).kind \notin Control
  BY <1>2, PlainHead
<1>4. route \in Nat /\ segment \in Nat /\ index \in Nat /\ MaxParts \in Nat /\ video.rel \in Nat
  <2>1. route \in Nat /\ segment \in Nat /\ MaxParts \in Nat
    BY <1>0, RoutesAre, RecordingConstants
  <2>2. video.rel \in Nat
    BY <1>0 DEF RecTypes
  <2> QED BY <1>1, <2>1, <2>2
<1>5. file \in FileNames /\ file[1] = route /\ file[2] = "segment" /\ file[3] = index
  BY <1>1, <1>4, RouteNamesAre
<1>6. PICK s : s = SegmentJob
  OBVIOUS
<1>7. /\ s \in Seq(Jobs) /\ jobs \in Seq(Jobs)
      /\ \A job \in Range(s) : ~job.tree /\ job.file \in FileNames /\ job.file[1] = route /\ job.file[2] = "segment"
  <2>1. s \in Seq(Jobs) /\ \A job \in Range(s) : job = FileJob(SegmentFile(video.rel))
    BY <1>0, <1>6, SegmentJobIs
  <2>2. LET job == FileJob(SegmentFile(video.rel)) IN
        ~job.tree /\ job.file \in FileNames /\ job.file[1] = route /\ job.file[2] = "segment"
    BY <1>4, RouteNamesAre, JobsAre
  <2>3. jobs \in Seq(Jobs)
    BY <1>0 DEF RecTypes, Jobs
  <2> QED BY <2>1, <2>2, <2>3
<1>8. PICK a : a = jobs \o s
  OBVIOUS
<1>9. a \in Seq(Jobs) /\ Range(a) = Range(jobs) \cup Range(s)
  BY <1>7, <1>8, RangeConcat
<1>10. /\ FileJob(file) \in Jobs /\ ~FileJob(file).tree /\ FileJob(file).file = file
  BY <1>5, JobsAre
<1>11. \/ h # Shut /\ jobs' = a
       \/ h = Shut /\ jobs' \in Seq(Jobs) /\ Range(jobs') = Range(a) \cup {FileJob(file)}
  <2>1. CASE h = Written(Opened(file, index), Head(queue).n) /\ h # Shut /\ jobs' = jobs \o SegmentJob
    BY <2>1, <1>6, <1>8
  <2>2. CASE h = Shut /\ jobs' = jobs \o SegmentJob \o <<FileJob(file)>>
    <3>1. PICK t : t = <<FileJob(file)>>
      OBVIOUS
    <3>2. t \in Seq(Jobs) /\ Range(t) = {FileJob(file)}
      BY <3>1, <1>10, RangeOne
    <3>3. a \o t \in Seq(Jobs) /\ Range(a \o t) = Range(a) \cup Range(t)
      BY <1>9, <3>2, RangeConcat
    <3>4. jobs' = a \o t
      BY <2>2, <3>1, <1>6, <1>8
    <3> QED BY <2>2, <3>2, <3>3, <3>4
  <2>3. h = Written(Opened(file, index), Head(queue).n) => h # Shut
    <3>1. Written(Opened(file, index), Head(queue).n).file = file
      BY DEF Written, Opened
    <3>2. file # NoFile /\ Shut.file = NoFile
      BY <1>5, FileNamesAre, ContentsAre
    <3> QED BY <3>1, <3>2
  <2> QED BY <2>1, <2>2, <2>3, <1>2
<1>12. jobs' \in Seq(Jobs) /\ Range(jobs) \subseteq Range(jobs')
  BY <1>9, <1>11
<1>13. \A job \in Range(jobs') :
         \/ job \in Range(jobs)
         \/ /\ ~job.tree /\ job.file \in FileNames /\ job.file[1] = route /\ job.file[2] = file[2]
            /\ job.file[2] = "events" => job.file[3] = chunk
            /\ job.file = file => file \in reopened' \/ h = Shut
  <2> TAKE job \in Range(jobs')
  <2>1. job \in Range(jobs) \/ job \in Range(s) \/ (h = Shut /\ job = FileJob(file))
    BY <1>9, <1>11
  <2>2. CASE job \in Range(s)
    <3>1. job.file = file => file \in reopened'
      BY <1>2, <1>6, <2>2
    <3> QED BY <2>2, <3>1, <1>5, <1>7
  <2>3. CASE h = Shut /\ job = FileJob(file)
    BY <2>3, <1>5, <1>10
  <2> QED BY <2>1, <2>2, <2>3
<1>14. PICK g, has : g = video /\ has = (IF h = Shut THEN Empty ELSE h.has)
  OBVIOUS
<1>15. /\ g \in {events, video} /\ closed' = Closing(g, closed) /\ g = video /\ video' = h /\ events' = events
       /\ segment' = (IF IsOpen(video) THEN segment + 1 ELSE segment)
       /\ file[3] = segment' /\ segment' <= MaxParts /\ chunk' = chunk
  BY <1>1, <1>2, <1>5, <1>14
<1>16. \/ h = Shut /\ has = Empty /\ staging' = Put(file, has, staging)
       \/ h = Written(Opened(file, file[3]), Head(queue).n) /\ has = h.has /\ staging' = Put(file, has, staging)
  <2>1. CASE h = Shut
    <3>1. staging' = Put(file, Empty, staging)
      <4>1. file # NoFile
        BY <1>5, FileNamesAre
      <4>2. Written(Opened(file, index), Head(queue).n).file = file /\ h.file = NoFile
        BY <2>1 DEF Written, Opened, Shut
      <4> QED BY <4>1, <4>2, <1>2
    <3> QED BY <2>1, <3>1, <1>14
  <2>2. CASE h # Shut
    BY <2>2, <1>2, <1>5, <1>14
  <2> QED BY <2>1, <2>2
<1>17. reopened \subseteq reopened' /\ (file \in WithMover => file \in reopened') /\ IsOpen(events) /\ Taken
  BY <1>2
<1>18. UNCHANGED <<recordd, requested, worker, route, routes, sd, mover,
                  sent, session, crashes, copy_failed, abandoned, doubled>>
  BY <1>2
<1> QED BY <1>3, <1>5, <1>12, <1>13, <1>15, <1>16, <1>17, <1>18, OpenKeeps

LEMMA IgnoreKeeps ==
  ASSUME RecInv, Ignore
  PROVE  RecInv'
<1>0. /\ RecTypeOK /\ RecTypes /\ QueueInv /\ DataInv /\ FilesInv /\ ClosedInv /\ MoverInv /\ JobsInv
      /\ CoverInv /\ PhaseInv
  BY DEF RecInv
<1>1. /\ Taken /\ UNCHANGED <<recordd, requested, worker>>
      /\ UNCHANGED <<route, routes, chunk, segment, events, video, staging, sd, jobs, mover>>
      /\ UNCHANGED <<sent, session, closed, crashes, copy_failed, abandoned, doubled, reopened>>
  BY DEF Ignore, main, open, disk, move, history
<1>2. worker = "ready" /\ queue # << >> /\ Head(queue).kind \notin Control
  <2>1. Next1("event") \/ Next1("delta") \/ Next1("key")
    BY DEF Ignore
  <2>2. CASE Next1("event")
    BY <2>2, PlainHead
  <2>3. CASE Next1("delta")
    BY <2>3, PlainHead
  <2>4. CASE Next1("key")
    BY <2>4, PlainHead
  <2> QED BY <2>1, <2>2, <2>3, <2>4
<1>3. RecTypeOK'
  <2>1. Cardinality(Droppable)' <= MaxPending
    BY <1>0, <1>1, <1>2, TakenIs
  <2> QED BY <2>1, <1>0, <1>1 DEF RecTypeOK
<1>4. RecTypes'
  <2>1. queue' \in Seq([kind : Control \cup {"key", "delta", "event"}, n : Nat])
    BY <1>0, <1>1, <1>2, TakenIs
  <2> QED BY <2>1, <1>0, <1>1 DEF RecTypes, NamesARoute
<1>5. QueueInv'
  <2>1. Head(queue).kind # "enable"
    BY <1>2 DEF Control
  <2>2. OneSessionOpen' => OneSessionOpen /\ routes'[route'] = routes[route]
    BY <1>1 DEF OneSessionOpen
  <2> QED BY <1>0, <1>1, <1>2, <2>1, <2>2, QueueTaken
<1>6. DataInv'
  <2> SUFFICES ASSUME NEW o \in {events', video'}, IsOpen(o) PROVE DataOf(o)'
    BY DEF DataInv
  <2>1. o.file[1] \in 1 .. Len(routes) /\ DataOf(o)
    BY <1>0, <1>1 DEF DataInv, FilesInv, FileOf, NamesARoute
  <2>2. Len(routes) <= Len(routes)' /\ \A i \in 1 .. Len(routes) : routes'[i] = routes[i]
    BY <1>0, <1>1, RoutesAre
  <2>3. doubled \subseteq doubled' /\ sent' = sent
    BY <1>1
  <2> QED BY <2>1, <2>2, <2>3, <1>0, <1>1, <1>2, <1>4, DataTaken
<1>7. FilesInv'
  <2>1. UNCHANGED <<open, staging, mover, jobs, closed, abandoned, reopened>> /\ doubled \subseteq doubled'
    BY <1>1 DEF open
  <2> QED BY <1>0, <2>1, FilesFrame
<1>8. ClosedInv'
  BY <1>0, <1>1 DEF ClosedInv, ClosedOf, NamesARoute, Holds, NextPart
<1>9. MoverInv' /\ JobsInv' /\ CoverInv'
  <2>1. UNCHANGED <<mover, jobs, open>>
    BY <1>1 DEF open
  <2> QED BY <1>0, <1>1, <2>1, MoverFrame, JobsFrame, CoverFrame
<1>10. PhaseInv'
  BY <1>0, <1>1 DEF PhaseInv
<1> QED BY <1>3, <1>4, <1>5, <1>6, <1>7, <1>8, <1>9, <1>10 DEF RecInv

LEMMA WorkKeeps ==
  ASSUME RecInv, Work
  PROVE  RecInv'
<1>1. CASE StartRefused
  <2>1. /\ Next1("enable") /\ Taken /\ SwitchedOnAgain /\ worker' = "unrequest"
        /\ UNCHANGED <<recordd, requested, chunk, segment, events, video, staging, sd, jobs, mover,
                       sent, session, closed, crashes, copy_failed, reopened>>
    BY <1>1 DEF StartRefused, main, disk, move
  <2>2. CASE UNCHANGED <<route, routes, abandoned>>
    BY <2>1, <2>2, RefusedKeeps
  <2>3. CASE /\ routes' = Append(routes, Head(queue).n) /\ route' = Len(routes')
             /\ abandoned' = (abandoned \/ route # 0)
    BY <2>1, <2>3, DirectoryKeeps
  <2> QED BY <2>2, <2>3, <1>1 DEF StartRefused
<1>2. CASE AppendFrame \/ AppendEvent
  BY <1>2, AppendKeeps
<1> QED BY <1>1, <1>2, StartBrokenKeeps, UnrequestKeeps, StartRouteKeeps, EndRouteKeeps, IgnoreKeeps,
           OpenSegmentKeeps, OpenChunkKeeps DEF Work

(* The mover, and a death of recordd                                       *)

LEMMA MoverRest ==
  ASSUME RecInv,
         UNCHANGED <<recordd, requested, queue, worker, route, routes, chunk, segment, events, video>>,
         UNCHANGED <<sent, session, closed, crashes, abandoned, doubled, reopened>>
  PROVE  /\ QueueInv' /\ DataInv'
         /\ \A f : NamesARoute(f)' <=> NamesARoute(f)
         /\ RecTypeOK /\ RecTypes /\ FilesInv /\ ClosedInv /\ MoverInv /\ JobsInv /\ CoverInv /\ PhaseInv
<1>0. RecTypeOK /\ RecTypes /\ QueueInv /\ DataInv /\ FilesInv /\ ClosedInv /\ MoverInv /\ JobsInv
      /\ CoverInv /\ PhaseInv
  BY DEF RecInv
<1>1. QueueInv'
  BY <1>0, QueueFrame
<1>2. DataInv'
  BY <1>0, DataFrame
<1>3. \A f : NamesARoute(f)' <=> NamesARoute(f)
  BY DEF NamesARoute
<1> QED BY <1>0, <1>1, <1>2, <1>3

(* What the mover has, once it has less of it. *)
LEMMA MovedKeeps ==
  ASSUME RecInv,
         UNCHANGED <<recordd, requested, queue, worker, route, routes, chunk, segment, events, video>>,
         UNCHANGED <<sent, session, closed, crashes, abandoned, doubled, reopened>>,
         mover' \in [pc : {"idle", "next", "copy", "unlink"}, file : FileNames, left : SUBSET FileNames],
         MoverInv', sd' \in [DOMAIN sd' -> Contents],
         DOMAIN staging' \subseteq DOMAIN staging, \A f \in DOMAIN staging' : staging'[f] = staging[f],
         staging' \in [DOMAIN staging' -> Contents],
         \A f \in DOMAIN staging : f \notin DOMAIN staging' =>
           f \in WithMover /\ (f \notin reopened => f \in DOMAIN sd' /\ sd'[f] = staging[f]),
         \A f \in DOMAIN sd : f \notin DOMAIN staging => f \in DOMAIN sd' /\ sd'[f] = sd[f],
         jobs' \in Seq(Jobs), \A job \in Range(jobs') : TreeJobOf(job),
         \A f \in WithMover' : f \in WithMover \/ f = NoFile \/ (\E r : f \in Staged(r) /\ r # route /\
                                 \A g \in {events, video} : IsOpen(g) => r # g.file[1]),
         ~copy_failed' => ~copy_failed /\ \A f \in DOMAIN staging' :
           (f \in WithMover => f \in WithMover' \/ staging[f] = Empty) /\
           (HasTreeJob(f[1]) => f \in WithMover' \/ HasTreeJob(f[1])'),
         recordd = "stopped" => jobs' = << >> /\ mover'.pc = "idle"
  PROVE  RecInv'
<1>0. /\ QueueInv' /\ DataInv'
      /\ \A f : NamesARoute(f)' <=> NamesARoute(f)
      /\ RecTypeOK /\ RecTypes /\ FilesInv /\ ClosedInv /\ MoverInv /\ JobsInv /\ CoverInv /\ PhaseInv
  BY MoverRest
<1>1. RecTypeOK'
  <2>1. \A f \in DOMAIN staging' : staging'[f] \in Contents
    OBVIOUS
  <2>2. \A f \in DOMAIN sd' : sd'[f] \in Contents
    OBVIOUS
  <2>3. Droppable' = Droppable
    BY DEF Droppable
  <2> QED BY <2>1, <2>2, <2>3, <1>0 DEF RecTypeOK
<1>2. RecTypes'
  <2>1. IsFiniteSet(DOMAIN staging')
    <3>1. IsFiniteSet(DOMAIN staging)
      BY <1>0 DEF RecTypes
    <3> QED BY <3>1, FS_Subset
  <2>2. jobs' \in Seq([tree : BOOLEAN, route : Nat, file : FileNames])
    BY DEF Jobs
  <2>3. \A f \in DOMAIN staging' : f \in FileNames /\ NamesARoute(f)'
    BY <1>0 DEF RecTypes
  <2> QED BY <2>1, <2>2, <2>3, <1>0 DEF RecTypes
<1>3. FilesInv'
  <2>1. ASSUME NEW g \in {events', video'}, IsOpen(g) PROVE route' # 0 /\ FileOf(g)'
    <3>1. FileOf(g) /\ route # 0
      BY <1>0, <2>1 DEF FilesInv
    <3>2. ASSUME g.file \notin reopened
          PROVE  g.file \in DOMAIN staging' /\ staging'[g.file] = g.has /\ g.file \notin WithMover'
      <4>1. g.file \in DOMAIN staging /\ staging[g.file] = g.has /\ g.file \notin WithMover
        BY <3>1, <3>2 DEF FileOf
      <4>2. g.file \notin WithMover'
        BY <4>1, <2>1 DEF Staged, IsOpen
      <4> QED BY <4>1, <4>2
    <3> QED BY <3>1, <3>2, <1>0 DEF FileOf
  <2> QED BY <2>1, <1>0 DEF FilesInv
<1>4. ClosedInv'
  <2> SUFFICES ASSUME NEW f \in DOMAIN closed' PROVE ClosedOf(f, closed[f])'
    BY DEF ClosedInv
  <2>1. PICK has : has = closed[f]
    OBVIOUS
  <2>2. ClosedOf(f, has)
    BY <1>0, <2>1 DEF ClosedInv
  <2>3. f \notin reopened' => IF f \in DOMAIN staging' THEN staging'[f] = has
                              ELSE f \in DOMAIN sd' /\ sd'[f] = has
    BY <2>2 DEF ClosedOf
  <2>4. /\ Len(routes) <= Len(routes)' /\ \A r \in 1 .. Len(routes) : routes'[r] = routes[r]
        /\ Len(sent) <= Len(sent)' /\ \A i \in 1 .. Len(sent) : sent'[i] = sent[i]
    BY <1>0, RoutesAre
  <2>5. f[1] = route' => f[3] < NextPart(f)'
    BY <2>2 DEF ClosedOf, NextPart
  <2>6. ClosedOf(f, has)'
    BY <2>2, <2>3, <2>4, <2>5, <1>0, <1>2, ClosedOfIs DEF ClosedOf
  <2> QED BY <2>1, <2>6 DEF ClosedOf
<1>5. JobsInv'
  <2>1. ASSUME NEW f \in WithMover' PROVE JobOf(f)'
    <3>1. CASE f \in WithMover
      <4>1. JobOf(f)
        BY <1>0, <3>1 DEF JobsInv
      <4> QED BY <4>1, <1>0 DEF JobOf
    <3>2. CASE \E r : f \in Staged(r) /\ r # route
      <4>1. NamesARoute(f) /\ f[1] # route
        BY <1>0, <3>2 DEF Staged, RecTypes
      <4> QED BY <4>1, <1>0 DEF JobOf
    <3>3. CASE f = NoFile
      BY <3>3 DEF JobOf, NoFile
    <3> QED BY <3>1, <3>2, <3>3, <2>1
  <2>2. \A job \in Range(jobs') : TreeJobOf(job)'
    BY DEF TreeJobOf
  <2> QED BY <2>1, <2>2 DEF JobsInv
<1>6. CoverInv'
  <2> SUFFICES ASSUME ~copy_failed', ~abandoned', NEW f \in DOMAIN staging'
               PROVE  staging'[f] = Empty \/ f[1] = route' \/ f \in WithMover' \/ HasTreeJob(f[1])'
    BY DEF CoverInv
  <2>1. staging[f] = Empty \/ f[1] = route \/ f \in WithMover \/ HasTreeJob(f[1])
    BY <1>0 DEF CoverInv
  <2> QED BY <2>1
<1>7. PhaseInv'
  BY <1>0 DEF PhaseInv
<1> QED BY <1>0, <1>1, <1>2, <1>3, <1>4, <1>5, <1>6, <1>7 DEF RecInv

LEMMA LeavesIs ==
  ASSUME NEW f \in FileNames, NEW left \in SUBSET FileNames, MoverLeaves(f, left)
  PROVE  /\ mover' \in [pc : {"idle", "next", "copy", "unlink"}, file : FileNames, left : SUBSET FileNames]
         /\ mover'.file = f /\ mover'.left = left /\ mover'.pc \in {"idle", "next"}
         /\ mover'.pc = "idle" => left = {}
BY DEF MoverLeaves

LEMMA MoveTakeKeeps ==
  ASSUME RecInv, MoveTake
  PROVE  RecInv'
<1>1. /\ mover.pc = "idle" /\ jobs # << >> /\ jobs' = Tail(jobs)
      /\ MoverLeaves(NoFile, IF Head(jobs).tree THEN Staged(Head(jobs).route) ELSE {Head(jobs).file})
      /\ UNCHANGED <<recordd, requested, queue, worker, route, routes, chunk, segment, events, video>>
      /\ UNCHANGED <<staging, sd, sent, session, closed, crashes, copy_failed, abandoned, doubled, reopened>>
  BY DEF MoveTake, main, open, disk, history
<1>2. /\ RecTypeOK /\ RecTypes /\ FilesInv /\ ClosedInv /\ MoverInv /\ JobsInv /\ CoverInv /\ PhaseInv
  BY DEF RecInv
<1>3. jobs \in Seq(Jobs)
  BY <1>2 DEF RecTypes, Jobs
<1>4. /\ Tail(jobs) \in Seq(Jobs) /\ Range(jobs) = {Head(jobs)} \cup Range(Tail(jobs)) /\ Head(jobs) \in Jobs
  BY <1>1, <1>3, RangeTail
<1>5. PICK job, left : /\ job = Head(jobs)
                       /\ left = (IF Head(jobs).tree THEN Staged(Head(jobs).route) ELSE {Head(jobs).file})
  OBVIOUS
<1>6. /\ job \in Jobs /\ Range(jobs) = {job} \cup Range(jobs') /\ jobs' \in Seq(Jobs) /\ TreeJobOf(job)
      /\ left \in SUBSET FileNames /\ MoverLeaves(NoFile, left) /\ NoFile \in FileNames
      /\ job.tree => left = Staged(job.route)
      /\ ~job.tree => left = {job.file}
  <2>1. job \in Jobs /\ Range(jobs) = {job} \cup Range(jobs') /\ jobs' \in Seq(Jobs)
    BY <1>1, <1>4, <1>5
  <2>2. TreeJobOf(job)
    BY <2>1, <1>2 DEF JobsInv
  <2>3. Staged(job.route) \subseteq FileNames /\ job.file \in FileNames
    BY <2>1, <1>2 DEF Staged, RecTypes, Jobs
  <2>4. left \in SUBSET FileNames
    BY <2>3, <1>5
  <2> QED BY <2>1, <2>2, <2>4, <1>1, <1>5, FileNamesAre
<1>7. /\ mover' \in [pc : {"idle", "next", "copy", "unlink"}, file : FileNames, left : SUBSET FileNames]
      /\ mover'.file = NoFile /\ mover'.left = left /\ mover'.pc \in {"idle", "next"}
      /\ mover'.pc = "idle" => left = {}
  BY <1>6, LeavesIs
<1>8. MoverInv'
  BY <1>7 DEF MoverInv
<1>9. \A f \in WithMover' : f \in WithMover \/ (\E r : f \in Staged(r) /\ r # route /\
                                 \A g \in {events, video} : IsOpen(g) => r # g.file[1])
  <2> TAKE f \in WithMover'
  <2>1. CASE f \in left
    <3>1. CASE job.tree
      <4>1. f \in Staged(job.route) /\ job.route # route /\ \A g \in {events, video} : IsOpen(g) => job.route # g.file[1]
        BY <2>1, <3>1, <1>6 DEF TreeJobOf
      <4> QED BY <4>1
    <3>2. CASE ~job.tree
      BY <2>1, <3>2, <1>6 DEF WithMover
    <3> QED BY <3>1, <3>2
  <2>2. CASE f = NoFile
    BY <2>2, <1>1, <1>2 DEF MoverInv, WithMover
  <2>3. CASE \E other \in Range(jobs') : other.file = f
    BY <2>3, <1>6 DEF WithMover
  <2> QED BY <2>1, <2>2, <2>3, <1>7 DEF WithMover
<1>10. \A f \in DOMAIN staging' : (f \in WithMover => f \in WithMover' \/ staging[f] = Empty) /\
           (HasTreeJob(f[1]) => f \in WithMover' \/ HasTreeJob(f[1])')
  <2> TAKE f \in DOMAIN staging'
  <2>0. f \in DOMAIN staging /\ f # NoFile /\ mover.left = {} /\ mover.file = NoFile
    <3>1. f \in DOMAIN staging /\ NamesARoute(f)
      BY <1>1, <1>2 DEF RecTypes
    <3> QED BY <3>1, <1>1, <1>2, FileNamesAre DEF MoverInv, NamesARoute
  <2>1. f \in WithMover => f \in WithMover'
    <3> SUFFICES ASSUME f \in WithMover PROVE f \in WithMover'
      OBVIOUS
    <3>1. PICK other \in Range(jobs) : other.file = f
      BY <2>0 DEF WithMover
    <3>2. CASE other \in Range(jobs')
      BY <3>1, <3>2 DEF WithMover
    <3>3. CASE other = job
      <4>1. ~job.tree
        BY <2>0, <3>1, <3>3, <1>6 DEF TreeJobOf
      <4> QED BY <4>1, <3>1, <3>3, <1>6, <1>7 DEF WithMover
    <3> QED BY <3>2, <3>3, <1>6
  <2>2. HasTreeJob(f[1]) => f \in WithMover' \/ HasTreeJob(f[1])'
    <3> SUFFICES ASSUME HasTreeJob(f[1]) PROVE f \in WithMover' \/ HasTreeJob(f[1])'
      OBVIOUS
    <3>1. PICK other \in Range(jobs) : other.tree /\ other.route = f[1]
      BY DEF HasTreeJob
    <3>2. CASE other \in Range(jobs')
      BY <3>1, <3>2 DEF HasTreeJob
    <3>3. CASE other = job
      <4>1. f \in left
        BY <2>0, <3>1, <3>3, <1>6 DEF Staged
      <4> QED BY <4>1, <1>7 DEF WithMover
    <3> QED BY <3>2, <3>3, <1>6
  <2> QED BY <2>1, <2>2
<1>11. \A other \in Range(jobs') : TreeJobOf(other)
  BY <1>2, <1>6 DEF JobsInv
<1>12. recordd # "stopped"
  BY <1>1, <1>2 DEF PhaseInv
<1>13. sd' \in [DOMAIN sd' -> Contents] /\ staging' \in [DOMAIN staging' -> Contents]
  BY <1>1, <1>2 DEF RecTypes
<1>14. /\ DOMAIN staging' \subseteq DOMAIN staging /\ \A f \in DOMAIN staging' : staging'[f] = staging[f]
       /\ \A f \in DOMAIN sd : f \notin DOMAIN staging => f \in DOMAIN sd' /\ sd'[f] = sd[f]
       /\ DOMAIN staging \subseteq DOMAIN staging'
  BY <1>1
<1>15. ~copy_failed' => ~copy_failed
  BY <1>1
<1> QED BY <1>1, <1>6, <1>7, <1>8, <1>9, <1>10, <1>11, <1>12, <1>13, <1>14, <1>15, MovedKeeps

LEMMA MoveOpenKeeps ==
  ASSUME RecInv, MoveOpen
  PROVE  RecInv'
<1>1. PICK f \in mover.left :
        IF f \in DOMAIN staging
        THEN /\ sd' = Put(f, Empty, sd)
             /\ mover' = [pc |-> "copy", file |-> f, left |-> mover.left \ {f}]
        ELSE MoverLeaves(NoFile, mover.left \ {f}) /\ sd' = sd
  BY DEF MoveOpen
<1>2. /\ mover.pc = "next"
      /\ UNCHANGED <<recordd, requested, queue, worker, route, routes, chunk, segment, events, video>>
      /\ UNCHANGED <<staging, jobs, sent, session, closed, crashes, copy_failed, abandoned, doubled, reopened>>
  BY DEF MoveOpen, main, open, history
<1>3. /\ RecTypeOK /\ RecTypes /\ FilesInv /\ ClosedInv /\ MoverInv /\ JobsInv /\ CoverInv /\ PhaseInv
  BY DEF RecInv
<1>4. /\ f \in FileNames /\ mover.left \ {f} \in SUBSET FileNames /\ NoFile \in FileNames /\ mover.file = NoFile
      /\ f \in WithMover
  BY <1>2, <1>3, FileNamesAre DEF RecTypes, MoverInv, WithMover
<1>5. /\ mover' \in [pc : {"idle", "next", "copy", "unlink"}, file : FileNames, left : SUBSET FileNames]
      /\ mover'.left = mover.left \ {f}
      /\ \/ f \in DOMAIN staging /\ mover'.file = f /\ mover'.pc = "copy"
         \/ /\ f \notin DOMAIN staging /\ mover'.file = NoFile /\ mover'.pc \in {"idle", "next"}
            /\ mover'.pc = "idle" => mover'.left = {}
  <2>1. CASE f \in DOMAIN staging
    BY <2>1, <1>1, <1>4
  <2>2. CASE f \notin DOMAIN staging
    <3>1. MoverLeaves(NoFile, mover.left \ {f})
      BY <2>2, <1>1
    <3> QED BY <2>2, <3>1, <1>4, LeavesIs
  <2> QED BY <2>1, <2>2
<1>6. MoverInv'
  BY <1>2, <1>5 DEF MoverInv
<1>7. /\ \A g \in WithMover' : g \in WithMover
      /\ \A g \in WithMover : g \in WithMover' \/ g \notin DOMAIN staging
  <2>1. ASSUME NEW g \in WithMover' PROVE g \in WithMover
    BY <2>1, <1>2, <1>4, <1>5 DEF WithMover
  <2>2. ASSUME NEW g \in WithMover, g \in DOMAIN staging PROVE g \in WithMover'
    <3>1. g # NoFile
      BY <2>2, <1>3, FileNamesAre DEF RecTypes, NamesARoute
    <3> QED BY <2>2, <3>1, <1>2, <1>4, <1>5 DEF WithMover
  <2> QED BY <2>1, <2>2
<1>8. /\ sd' \in [DOMAIN sd' -> Contents]
      /\ \A g \in DOMAIN sd : g \notin DOMAIN staging => g \in DOMAIN sd' /\ sd'[g] = sd[g]
  <2>1. CASE sd' = sd
    BY <2>1, <1>3 DEF RecTypes
  <2>2. CASE f \in DOMAIN staging /\ sd' = Put(f, Empty, sd)
    <3>1. sd \in [DOMAIN sd -> Contents] /\ Empty \in Contents
      BY <1>3, ContentsAre DEF RecTypes
    <3> QED BY <2>2, <3>1 DEF Put
  <2> QED BY <2>1, <2>2, <1>1
<1>9. /\ staging' \in [DOMAIN staging' -> Contents] /\ jobs' \in Seq(Jobs)
      /\ \A job \in Range(jobs') : TreeJobOf(job)
      /\ recordd # "stopped"
  BY <1>2, <1>3 DEF RecTypes, Jobs, JobsInv, PhaseInv
<1>10. /\ DOMAIN staging' \subseteq DOMAIN staging /\ \A g \in DOMAIN staging' : staging'[g] = staging[g]
       /\ DOMAIN staging \subseteq DOMAIN staging'
       /\ \A g : HasTreeJob(g[1]) => HasTreeJob(g[1])'
       /\ ~copy_failed' => ~copy_failed
  BY <1>2 DEF HasTreeJob
<1> QED BY <1>2, <1>5, <1>6, <1>7, <1>8, <1>9, <1>10, MovedKeeps

LEMMA MoveCopyKeeps ==
  ASSUME RecInv, MoveCopy
  PROVE  RecInv'
<1>1. \/ /\ staging[mover.file] # Empty /\ sd' = Put(mover.file, staging[mover.file], sd)
         /\ MoverTo("unlink") /\ UNCHANGED copy_failed
      \/ staging[mover.file] = Empty /\ MoverDone /\ UNCHANGED <<sd, copy_failed>>
      \/ MoverDone /\ copy_failed' = TRUE /\ UNCHANGED sd
  BY DEF MoveCopy
<1>2. /\ mover.pc = "copy"
      /\ UNCHANGED <<recordd, requested, queue, worker, route, routes, chunk, segment, events, video>>
      /\ UNCHANGED <<staging, jobs, sent, session, closed, crashes, abandoned, doubled, reopened>>
  BY DEF MoveCopy, main, open
<1>3. /\ RecTypeOK /\ RecTypes /\ FilesInv /\ ClosedInv /\ MoverInv /\ JobsInv /\ CoverInv /\ PhaseInv
  BY DEF RecInv
<1>4. PICK f : f = mover.file
  OBVIOUS
<1>5. /\ f \in FileNames /\ mover.left \in SUBSET FileNames /\ NoFile \in FileNames
      /\ f \in DOMAIN staging /\ staging[f] \in Contents
      /\ mover \in [pc : {"idle", "next", "copy", "unlink"}, file : FileNames, left : SUBSET FileNames]
  BY <1>2, <1>3, <1>4, FileNamesAre DEF RecTypes, MoverInv, RecTypeOK
<1>6. \/ /\ mover' = [mover EXCEPT !.pc = "unlink"] /\ sd' = Put(f, staging[f], sd) /\ copy_failed' = copy_failed
      \/ /\ MoverLeaves(NoFile, mover.left) /\ sd' = sd
         /\ (staging[f] = Empty /\ copy_failed' = copy_failed) \/ copy_failed' = TRUE
  BY <1>1, <1>4 DEF MoverTo, MoverDone
<1>7. /\ mover' \in [pc : {"idle", "next", "copy", "unlink"}, file : FileNames, left : SUBSET FileNames]
      /\ mover'.left = mover.left
      /\ \/ mover'.file = f /\ mover'.pc = "unlink" /\ sd' = Put(f, staging[f], sd)
         \/ /\ mover'.file = NoFile /\ mover'.pc \in {"idle", "next"} /\ (mover'.pc = "idle" => mover'.left = {})
            /\ sd' = sd /\ (copy_failed' = TRUE \/ staging[f] = Empty)
  <2>1. CASE mover' = [mover EXCEPT !.pc = "unlink"] /\ sd' = Put(f, staging[f], sd)
    <3>1. /\ mover' \in [pc : {"idle", "next", "copy", "unlink"}, file : FileNames, left : SUBSET FileNames]
          /\ mover'.left = mover.left /\ mover'.file = f /\ mover'.pc = "unlink"
      BY <2>1, <1>4, <1>5
    <3> QED BY <2>1, <3>1
  <2>2. CASE MoverLeaves(NoFile, mover.left) /\ sd' = sd /\ (copy_failed' = TRUE \/ staging[f] = Empty)
    <3>1. /\ mover' \in [pc : {"idle", "next", "copy", "unlink"}, file : FileNames, left : SUBSET FileNames]
          /\ mover'.file = NoFile /\ mover'.left = mover.left /\ mover'.pc \in {"idle", "next"}
          /\ mover'.pc = "idle" => mover.left = {}
      BY <2>2, <1>5, LeavesIs
    <3> QED BY <2>2, <3>1
  <2> QED BY <2>1, <2>2, <1>6
<1>8. sd' = Put(f, staging[f], sd) => f \in DOMAIN sd' /\ sd'[f] = staging[f]
  BY DEF Put
<1>9. MoverInv'
  BY <1>2, <1>4, <1>5, <1>7, <1>8 DEF MoverInv
<1>10. /\ \A g \in WithMover' : g \in WithMover \/ g = NoFile
       /\ \A g \in WithMover : g \in WithMover' \/ g = f
       /\ copy_failed' # TRUE => f \in WithMover' \/ staging[f] = Empty
  <2>2. ASSUME NEW g \in WithMover' PROVE g \in WithMover \/ g = NoFile
    BY <2>2, <1>2, <1>4, <1>7 DEF WithMover
  <2>3. ASSUME NEW g \in WithMover PROVE g \in WithMover' \/ g = f
    BY <2>3, <1>2, <1>4, <1>7 DEF WithMover
  <2>4. copy_failed' # TRUE => f \in WithMover' \/ staging[f] = Empty
    BY <1>7 DEF WithMover
  <2> QED BY <2>2, <2>3, <2>4
<1>11. /\ sd' \in [DOMAIN sd' -> Contents]
       /\ \A g \in DOMAIN sd : g \notin DOMAIN staging => g \in DOMAIN sd' /\ sd'[g] = sd[g]
  <2>1. CASE sd' = sd
    BY <2>1, <1>3 DEF RecTypes
  <2>2. CASE sd' = Put(f, staging[f], sd)
    <3>1. sd \in [DOMAIN sd -> Contents]
      BY <1>3 DEF RecTypes
    <3> QED BY <2>2, <3>1, <1>5 DEF Put
  <2> QED BY <2>1, <2>2, <1>7
<1>12. /\ staging' \in [DOMAIN staging' -> Contents] /\ jobs' \in Seq(Jobs)
       /\ \A job \in Range(jobs') : TreeJobOf(job)
       /\ recordd # "stopped"
  BY <1>2, <1>3 DEF RecTypes, Jobs, JobsInv, PhaseInv
<1>13. /\ DOMAIN staging' \subseteq DOMAIN staging /\ \A g \in DOMAIN staging' : staging'[g] = staging[g]
       /\ DOMAIN staging \subseteq DOMAIN staging'
       /\ \A g : HasTreeJob(g[1]) => HasTreeJob(g[1])'
  BY <1>2 DEF HasTreeJob
<1>14. ~copy_failed' => ~copy_failed
  BY <1>6
<1> QED BY <1>2, <1>7, <1>9, <1>10, <1>11, <1>12, <1>13, <1>14, MovedKeeps

LEMMA MoveUnlinkKeeps ==
  ASSUME RecInv, MoveUnlink
  PROVE  RecInv'
<1>1. PICK f : f = mover.file
  OBVIOUS
<1>2. /\ mover.pc = "unlink" /\ staging' = Restrict(staging, DOMAIN staging \ {f}) /\ MoverLeaves(NoFile, mover.left)
      /\ UNCHANGED <<recordd, requested, queue, worker, route, routes, chunk, segment, events, video>>
      /\ UNCHANGED <<sd, jobs, sent, session, closed, crashes, copy_failed, abandoned, doubled, reopened>>
  BY <1>1 DEF MoveUnlink, main, open, history, MoverDone
<1>3. /\ RecTypeOK /\ RecTypes /\ FilesInv /\ ClosedInv /\ MoverInv /\ JobsInv /\ CoverInv /\ PhaseInv
  BY DEF RecInv
<1>4. /\ f \in FileNames /\ mover.left \in SUBSET FileNames /\ NoFile \in FileNames
      /\ f \in DOMAIN staging /\ f \in WithMover
      /\ f \notin reopened => f \in DOMAIN sd /\ sd[f] = staging[f]
  BY <1>1, <1>2, <1>3, FileNamesAre DEF RecTypes, MoverInv, WithMover
<1>5. /\ mover' \in [pc : {"idle", "next", "copy", "unlink"}, file : FileNames, left : SUBSET FileNames]
      /\ mover'.file = NoFile /\ mover'.left = mover.left /\ mover'.pc \in {"idle", "next"}
      /\ mover'.pc = "idle" => mover.left = {}
  BY <1>2, <1>4, LeavesIs
<1>6. /\ DOMAIN staging' = DOMAIN staging \ {f} /\ \A g \in DOMAIN staging' : staging'[g] = staging[g]
      /\ staging' \in [DOMAIN staging' -> Contents]
  <2>1. staging' = [g \in DOMAIN staging \ {f} |-> staging[g]]
    BY <1>2 DEF Restrict
  <2>2. staging \in [DOMAIN staging -> Contents]
    BY <1>3 DEF RecTypes
  <2> QED BY <2>1, <2>2
<1>7. MoverInv'
  BY <1>5 DEF MoverInv
<1>8. /\ \A g \in WithMover : g \in WithMover' \/ g = f
      /\ \A g \in WithMover' : g \in WithMover \/ g = NoFile
  <2>1. ASSUME NEW g \in WithMover PROVE g \in WithMover' \/ g = f
    BY <2>1, <1>1, <1>2, <1>5 DEF WithMover
  <2>2. ASSUME NEW g \in WithMover' PROVE g \in WithMover \/ g = NoFile
    BY <2>2, <1>1, <1>2, <1>5 DEF WithMover
  <2> QED BY <2>1, <2>2
<1>9. /\ sd' \in [DOMAIN sd' -> Contents] /\ jobs' \in Seq(Jobs)
      /\ \A job \in Range(jobs') : TreeJobOf(job)
      /\ recordd # "stopped"
  BY <1>2, <1>3 DEF RecTypes, Jobs, JobsInv, PhaseInv
<1>10. /\ \A g \in DOMAIN sd : g \notin DOMAIN staging => g \in DOMAIN sd' /\ sd'[g] = sd[g]
       /\ \A g \in DOMAIN staging : g \notin DOMAIN staging' =>
            g \in WithMover /\ (g \notin reopened => g \in DOMAIN sd' /\ sd'[g] = staging[g])
       /\ \A g : HasTreeJob(g[1]) => HasTreeJob(g[1])'
       /\ ~copy_failed' => ~copy_failed
       /\ DOMAIN staging' \subseteq DOMAIN staging
       /\ \A g \in DOMAIN staging' : g \in WithMover => g \in WithMover'
  BY <1>2, <1>4, <1>6, <1>8 DEF HasTreeJob
<1> QED BY <1>2, <1>5, <1>6, <1>7, <1>8, <1>9, <1>10, MovedKeeps

LEMMA CutIs ==
  ASSUME NEW has \in Contents
  PROVE  Cut(has) \subseteq Contents
<1>1. Empty \in Contents
  BY ContentsAre
<1>2. ASSUME NEW k \in DOMAIN has.data
      PROVE  [head |-> TRUE, data |-> SubSeq(has.data, 1, k)] \in Contents
  <2>1. has.data \in Seq(1 .. MaxSent) /\ k \in 1 .. Len(has.data) /\ Len(has.data) \in Nat
    BY <1>2, LenProperties DEF Contents
  <2>2. \A i \in 1 .. k : has.data[i] \in 1 .. MaxSent
    <3>1. \A i \in 1 .. Len(has.data) : has.data[i] \in 1 .. MaxSent
      BY <2>1, ElementOfSeq
    <3>2. 1 .. k \subseteq 1 .. Len(has.data)
      BY <2>1
    <3> QED BY <3>1, <3>2
  <2>3. SubSeq(has.data, 1, k) \in Seq(1 .. MaxSent)
    BY <2>1, <2>2, SubSeqProperties
  <2> QED BY <2>3 DEF Contents
<1> QED BY <1>1, <1>2 DEF Cut

LEMMA CrashKeeps ==
  ASSUME RecInv, Crash
  PROVE  RecInv'
<1>0. /\ RecTypeOK /\ RecTypes /\ QueueInv /\ DataInv /\ FilesInv /\ ClosedInv /\ MoverInv /\ JobsInv
      /\ CoverInv /\ PhaseInv
  BY DEF RecInv
<1>1. /\ mover' = [pc |-> "idle", file |-> NoFile, left |-> {}]
      /\ recordd' = "running" /\ requested' = FALSE /\ queue' = << >> /\ worker' = "ready"
      /\ route' = 0 /\ chunk' = 0 /\ segment' = 0 /\ events' = Shut /\ video' = Shut
      /\ UNCHANGED <<routes, sd, sent, session, closed, copy_failed, abandoned, doubled, reopened>>
  BY DEF Crash
<1>2. PICK e \in Cut(events.has), v \in Cut(video.has) :
        staging' = [f \in DOMAIN staging |->
                      IF f = events.file THEN e ELSE IF f = video.file THEN v ELSE staging[f]]
  BY DEF Crash
<1>3. PICK order \in Recovery : jobs' = [i \in DOMAIN order |-> TreeJob(order[i])]
  BY DEF Crash
<1>4. e \in Contents /\ v \in Contents
  BY <1>0, CutIs DEF RecTypes
<1>5. /\ staging' \in [DOMAIN staging' -> Contents] /\ DOMAIN staging' = DOMAIN staging
      /\ \A f \in DOMAIN staging : f # events.file /\ f # video.file => staging'[f] = staging[f]
  <2>1. staging \in [DOMAIN staging -> Contents]
    BY <1>0 DEF RecTypes
  <2> QED BY <2>1, <1>2, <1>4
<1>6. PICK left : left = {f[1] : f \in DOMAIN staging}
  OBVIOUS
<1>7. /\ left \subseteq Nat /\ left \subseteq 1 .. Len(routes) /\ IsFiniteSet(left)
      /\ Cardinality(left) \in Nat
      /\ DOMAIN order = 1 .. Cardinality(left)
      /\ \A i \in 1 .. Cardinality(left) : order[i] \in left
      /\ \A r \in left : \E i \in 1 .. Cardinality(left) : order[i] = r
  <2>1. left \subseteq 1 .. Len(routes)
    BY <1>0, <1>6 DEF RecTypes, NamesARoute
  <2>2. Len(routes) \in Nat
    BY <1>0, RoutesAre
  <2>3. IsFiniteSet(1 .. Len(routes))
    <3>1. 1 \in Int /\ Len(routes) \in Int
      BY <2>2
    <3> QED BY <3>1, FS_Interval
  <2>4. IsFiniteSet(left)
    BY <2>1, <2>3, FS_Subset
  <2>5. Cardinality(left) \in Nat
    BY <2>4, FS_CardinalityType
  <2>6. order \in Bijection(1 .. Cardinality(left), left)
    BY <1>6 DEF Recovery
  <2>7. order \in [1 .. Cardinality(left) -> left] /\ \A r \in left : \E i \in 1 .. Cardinality(left) : order[i] = r
    BY <2>6 DEF Bijection, Injection, Surjection
  <2> QED BY <2>1, <2>2, <2>4, <2>5, <2>7
<1>8. /\ jobs' \in Seq(Jobs)
      /\ \A job \in Range(jobs') : job.tree /\ job.file = NoFile /\ job.route \in left
      /\ \A r \in left : HasTreeJob(r)'
  <2>1. \A r \in left : /\ TreeJob(r) \in Jobs /\ TreeJob(r).tree /\ TreeJob(r).file = NoFile
                        /\ TreeJob(r).route = r
    BY <1>7, JobsAre
  <2>2. /\ DOMAIN jobs' = 1 .. Cardinality(left)
        /\ \A i \in 1 .. Cardinality(left) : jobs'[i] = TreeJob(order[i])
    BY <1>3, <1>7
  <2>3. jobs' \in Seq(Jobs)
    <3> DEFINE n == Cardinality(left)
    <3>1. jobs' \in [1 .. n -> Jobs]
      BY <1>3, <1>7, <2>1
    <3>2. n \in Nat
      BY <1>7
    <3> HIDE DEF n
    <3> QED BY <3>1, <3>2, SeqDef
  <2>4. \A job \in Range(jobs') : \E i \in 1 .. Cardinality(left) : job = TreeJob(order[i])
    <3> TAKE job \in Range(jobs')
    <3>1. PICK i \in DOMAIN jobs' : job = jobs'[i]
      BY DEF Range
    <3> QED BY <3>1, <2>2
  <2>5. \A job \in Range(jobs') : job.tree /\ job.file = NoFile /\ job.route \in left
    <3> TAKE job \in Range(jobs')
    <3>1. PICK i \in 1 .. Cardinality(left) : job = TreeJob(order[i])
      BY <2>4
    <3>2. order[i] \in left
      BY <1>7
    <3> QED BY <3>1, <3>2, <2>1
  <2>6. ASSUME NEW r \in left PROVE HasTreeJob(r)'
    <3>1. PICK i \in 1 .. Cardinality(left) : order[i] = r
      BY <1>7
    <3>2. jobs'[i] \in Range(jobs') /\ jobs'[i] = TreeJob(r)
      BY <2>2, <3>1 DEF Range
    <3> QED BY <3>2, <2>1 DEF HasTreeJob
  <2> QED BY <2>3, <2>5, <2>6
<1>9. \A f \in WithMover' : f = NoFile
  BY <1>1, <1>8 DEF WithMover
<1>10. ~IsOpen(events') /\ ~IsOpen(video') /\ Shut \in [file : FileNames, rel : Nat, has : Contents]
       /\ NoFile \in FileNames
  BY <1>1, ContentsAre, FileNamesAre
<1>11. Droppable' = {} /\ Cardinality({}) = 0
  <2>1. DOMAIN queue' = {}
    BY <1>1
  <2>2. Cardinality({}) = 0
    BY FS_EmptySet
  <2> QED BY <2>1, <2>2 DEF Droppable
<1>12. RecTypeOK'
  <2>1. Cardinality(Droppable)' <= MaxPending
    BY <1>11, RecordingConstants
  <2>2. route' \in 0 .. Len(routes') /\ chunk' \in 0 .. MaxParts /\ segment' \in 0 .. MaxParts
    <3>1. Len(routes') \in Nat
      BY <1>0, <1>1, RoutesAre
    <3> QED BY <3>1, <1>1, RecordingConstants
  <2>3. \A f \in DOMAIN staging' : staging'[f] \in Contents
    BY <1>5
  <2> QED BY <2>1, <2>2, <2>3, <1>0, <1>1 DEF RecTypeOK
<1>13. RecTypes'
  <2>1. queue' \in Seq([kind : Control \cup {"key", "delta", "event"}, n : Nat])
    BY <1>1
  <2>2. {events', video'} \subseteq [file : FileNames, rel : Nat, has : Contents]
    BY <1>1, <1>10
  <2>3. jobs' \in Seq([tree : BOOLEAN, route : Nat, file : FileNames])
    BY <1>8 DEF Jobs
  <2>4. mover' \in [pc : {"idle", "next", "copy", "unlink"}, file : FileNames, left : SUBSET FileNames]
    BY <1>1, <1>10
  <2>5. \A f \in DOMAIN staging' : f \in FileNames /\ NamesARoute(f)'
    BY <1>0, <1>1, <1>5 DEF RecTypes, NamesARoute
  <2>6. IsFiniteSet(DOMAIN staging')
    BY <1>0, <1>5 DEF RecTypes
  <2> QED BY <2>1, <2>2, <2>3, <2>4, <2>5, <2>6, <1>0, <1>1, <1>5 DEF RecTypes
<1>14. QueueInv'
  BY <1>1, <1>11 DEF QueueInv
<1>15. DataInv' /\ FilesInv'
  BY <1>10 DEF DataInv, FilesInv
<1>16. ClosedInv'
  <2>1. PICK files : files = closed
    OBVIOUS
  <2>2. AllSaved(files) /\ closed' = files
    BY <1>1, <2>1, SavedClosed
  <2>3. \A f \in DOMAIN files : f # events.file /\ f # video.file
    <3>1. ~NamesARoute(NoFile)
      BY FileNamesAre DEF NamesARoute
    <3> QED BY <3>1, <1>0, <2>1, <2>2 DEF AllSaved, Saved, FilesInv, FileOf, IsOpen
  <2>4. /\ \A f \in DOMAIN files : f \in DOMAIN staging' <=> f \in DOMAIN staging
        /\ \A f \in DOMAIN files : f \in DOMAIN staging => staging'[f] = staging[f]
    BY <2>3, <1>5
  <2>5. \A f \in DOMAIN files : f[1] # route'
    BY <1>1, <2>2 DEF AllSaved, Saved, NamesARoute
  <2>6. Len(routes) <= Len(routes)' /\ \A i \in 1 .. Len(routes) : routes'[i] = routes[i]
    BY <1>0, <1>1, RoutesAre
  <2>7. doubled \subseteq doubled' /\ sent' = sent /\ sd' = sd /\ reopened \subseteq reopened'
    BY <1>1
  <2> QED BY <1>0, <1>13, <2>2, <2>4, <2>5, <2>6, <2>7, ClosedFrom
<1>17. MoverInv'
  BY <1>1 DEF MoverInv
<1>18. JobsInv'
  <2>1. \A f \in WithMover' : JobOf(f)'
    BY <1>9 DEF JobOf, NoFile
  <2>2. \A job \in Range(jobs') : TreeJobOf(job)'
    <3> TAKE job \in Range(jobs')
    <3>1. job.file = NoFile /\ job.route \in left
      BY <1>8
    <3>2. job.route \in 1 .. Len(routes') /\ job.route # 0
      <4>1. job.route \in 1 .. Len(routes)
        BY <3>1, <1>7
      <4>2. routes' = routes
        BY <1>1
      <4> QED BY <4>1, <4>2
    <3>3. job.route \in 1 .. Len(routes') \ {route'}
      BY <3>2, <1>1
    <3> QED BY <3>1, <3>3, <1>10 DEF TreeJobOf
  <2> QED BY <2>1, <2>2 DEF JobsInv
<1>19. CoverInv'
  <2>1. \A f \in DOMAIN staging' : HasTreeJob(f[1])'
    BY <1>5, <1>6, <1>8
  <2> QED BY <2>1 DEF CoverInv
<1>20. PhaseInv'
  BY <1>1 DEF PhaseInv
<1> QED BY <1>12, <1>13, <1>14, <1>15, <1>16, <1>17, <1>18, <1>19, <1>20 DEF RecInv

LEMMA MoveKeeps ==
  ASSUME RecInv, Move
  PROVE  RecInv'
BY MoveTakeKeeps, MoveOpenKeeps, MoveCopyKeeps, MoveUnlinkKeeps DEF Move

LEMMA RecordingStarts ==
  ASSUME RecInit
  PROVE  RecInv
<1>1. Shut \in [file : FileNames, rel : Nat, has : Contents] /\ ~IsOpen(Shut) /\ NoFile \in FileNames
      /\ NoFile[2] = "none"
  BY ContentsAre, FileNamesAre
<1>2. ~IsOpen(events) /\ ~IsOpen(video) /\ events = Shut /\ video = Shut
  BY <1>1 DEF RecInit
<1>3. DOMAIN << >> = {} /\ Range(<< >>) = {} /\ Cardinality({}) = 0 /\ IsFiniteSet({})
  BY RangeEmpty, FS_EmptySet
<1>4. Droppable = {}
  BY <1>3 DEF Droppable, RecInit
<1>5. RecTypeOK
  <2>1. Cardinality(Droppable) <= MaxPending
    BY <1>3, <1>4, RecordingConstants
  <2>2. route \in 0 .. Len(routes) /\ chunk \in 0 .. MaxParts /\ segment \in 0 .. MaxParts
    BY RecordingConstants DEF RecInit
  <2> QED BY <2>1, <2>2, <1>3 DEF RecTypeOK, RecInit
<1>6. RecTypes
  <2>1. queue \in Seq([kind : Control \cup {"key", "delta", "event"}, n : Nat])
    BY DEF RecInit
  <2>2. jobs \in Seq([tree : BOOLEAN, route : Nat, file : FileNames])
    BY DEF RecInit
  <2>3. mover \in [pc : {"idle", "next", "copy", "unlink"}, file : FileNames, left : SUBSET FileNames]
    BY <1>1 DEF RecInit
  <2>4. sent \in Seq(Nat) /\ Len(sent) <= MaxSent /\ session \in Nat /\ routes \in Seq(Nat)
    BY RecordingConstants DEF RecInit
  <2>5. /\ staging \in [DOMAIN staging -> Contents] /\ sd \in [DOMAIN sd -> Contents]
        /\ closed \in [DOMAIN closed -> Contents] /\ DOMAIN closed \subseteq FileNames
    <3>1. << >> \in [DOMAIN << >> -> Contents]
      BY <1>3
    <3> QED BY <3>1, <1>3 DEF RecInit
  <2>6. {events, video} \subseteq [file : FileNames, rel : Nat, has : Contents]
    BY <1>1, <1>2
  <2>7. IsFiniteSet(DOMAIN staging) /\ \A f \in DOMAIN staging : f \in FileNames /\ NamesARoute(f)
    BY <1>3 DEF RecInit
  <2>8. doubled \subseteq 1 .. Len(routes)
    BY DEF RecInit
  <2> QED BY <2>1, <2>2, <2>3, <2>4, <2>5, <2>6, <2>7, <2>8 DEF RecTypes
<1>7. QueueInv
  BY <1>4 DEF QueueInv, RecInit
<1>8. DataInv /\ FilesInv
  BY <1>2 DEF DataInv, FilesInv
<1>9. ClosedInv /\ CoverInv
  BY <1>3 DEF ClosedInv, CoverInv, RecInit
<1>10. MoverInv /\ PhaseInv
  BY DEF MoverInv, PhaseInv, RecInit
<1>11. JobsInv
  BY <1>3 DEF JobsInv, JobOf, WithMover, RecInit
<1> QED BY <1>5, <1>6, <1>7, <1>8, <1>9, <1>10, <1>11 DEF RecInv

LEMMA StutterKeeps ==
  ASSUME RecInv, UNCHANGED recVars
  PROVE  RecInv'
<1>0. /\ RecTypeOK /\ RecTypes /\ QueueInv /\ DataInv /\ FilesInv /\ ClosedInv /\ MoverInv /\ JobsInv
      /\ CoverInv /\ PhaseInv
  BY DEF RecInv
<1>1. /\ UNCHANGED <<recordd, requested, queue, worker>>
      /\ UNCHANGED <<route, routes, chunk, segment, events, video, staging, sd, jobs, mover>>
      /\ UNCHANGED <<sent, session, closed, crashes, copy_failed, abandoned, doubled, reopened>>
  BY DEF recVars, main, open, disk, move, history
<1>2. UNCHANGED open
  BY <1>1 DEF open
<1>3. RecTypeOK'
  BY <1>0, <1>1 DEF RecTypeOK, Droppable
<1>4. RecTypes'
  BY <1>0, <1>1 DEF RecTypes, NamesARoute
<1>5. QueueInv' /\ DataInv' /\ FilesInv'
  BY <1>0, <1>1, <1>2, QueueFrame, DataFrame, FilesFrame
<1>6. ClosedInv'
  BY <1>0, <1>1 DEF ClosedInv, ClosedOf, NamesARoute, Holds, NextPart
<1>7. MoverInv' /\ JobsInv' /\ CoverInv'
  BY <1>0, <1>1, <1>2, MoverFrame, JobsFrame, CoverFrame
<1>8. PhaseInv'
  BY <1>0, <1>1 DEF PhaseInv
<1> QED BY <1>3, <1>4, <1>5, <1>6, <1>7, <1>8 DEF RecInv

(* What the recordings are for.                                            *)
LEMMA RecInvSaves ==
  ASSUME RecInv
  PROVE  RecTypeOK /\ ClosedFilesSurvive /\ RoutesHoldTheirSession /\ StopSavesClosed
<1>0. /\ RecTypeOK /\ RecTypes /\ QueueInv /\ DataInv /\ FilesInv /\ ClosedInv /\ MoverInv /\ JobsInv
      /\ CoverInv /\ PhaseInv
  BY DEF RecInv
<1>1. ClosedFilesSurvive
  BY <1>0 DEF ClosedInv, ClosedOf, ClosedFilesSurvive
<1>2. RoutesHoldTheirSession
  BY <1>0 DEF ClosedInv, ClosedOf, Holds, RoutesHoldTheirSession
<1>3. StopSavesClosed
  <2> SUFFICES ASSUME recordd = "stopped", ~copy_failed, ~abandoned
               PROVE  /\ \A f \in DOMAIN staging : staging[f] = Empty
                      /\ \A f \in DOMAIN closed \ reopened : sd[f] = closed[f]
    BY DEF StopSavesClosed
  <2>1. route = 0 /\ jobs = << >> /\ mover.pc = "idle"
    BY <1>0 DEF PhaseInv
  <2>2. mover.left = {} /\ mover.file = NoFile /\ Range(jobs) = {}
    BY <1>0, <2>1, RangeEmpty DEF MoverInv
  <2>3. \A f \in DOMAIN staging : staging[f] = Empty
    <3> TAKE f \in DOMAIN staging
    <3>1. NamesARoute(f) /\ f # NoFile
      <4>1. NamesARoute(f) /\ ~NamesARoute(NoFile)
        BY <1>0, FileNamesAre DEF RecTypes, NamesARoute
      <4> QED BY <4>1
    <3>2. f[1] # route /\ f \notin WithMover /\ ~HasTreeJob(f[1])
      BY <2>1, <2>2, <3>1 DEF NamesARoute, WithMover, HasTreeJob
    <3> QED BY <3>2, <1>0 DEF CoverInv
  <2>4. ASSUME NEW f \in DOMAIN closed \ reopened PROVE sd[f] = closed[f]
    <3>1. /\ closed[f].head
          /\ IF f \in DOMAIN staging THEN staging[f] = closed[f] ELSE f \in DOMAIN sd /\ sd[f] = closed[f]
      BY <1>0 DEF ClosedInv, ClosedOf
    <3>2. closed[f] # Empty
      BY <3>1, ContentsAre
    <3> QED BY <2>3, <3>1, <3>2
  <2> QED BY <2>3, <2>4
<1> QED BY <1>0, <1>1, <1>2, <1>3

-----------------------------------------------------------------------------
(***************************************************************************)
(* The switch.  The queue is seen as positions: q2 prolongs q when a write *)
(* is appended, t drops the head of q when the worker takes one; what is   *)
(* said of a place in the one is said of a place in the other.             *)
(***************************************************************************)

(* The writer's queue, prolonged at its end                                *)
Prolongs(q2, q) ==
  /\ Len(q) \in Nat /\ Len(q2) \in Nat /\ Len(q) <= Len(q2)
  /\ DOMAIN q = 1 .. Len(q) /\ DOMAIN q2 = 1 .. Len(q2)
  /\ \A i \in 1 .. Len(q) : q2[i] = q[i]

LEMMA ConcatIs ==
  ASSUME NEW S, NEW q \in Seq(S), NEW k \in Seq(S)
  PROVE  /\ q \o k \in Seq(S) /\ Prolongs(q \o k, q)
         /\ Len(q) \in Nat /\ Len(k) \in Nat /\ Len(q \o k) = Len(q) + Len(k)
         /\ \A i \in 1 .. Len(k) : (q \o k)[Len(q) + i] = k[i]
         /\ \A p \in Len(q) + 1 .. Len(q) + Len(k) : p - Len(q) \in 1 .. Len(k) /\ (q \o k)[p] = k[p - Len(q)]
<1>1. /\ DOMAIN q = 1 .. Len(q) /\ DOMAIN k = 1 .. Len(k) /\ Len(q) \in Nat /\ Len(k) \in Nat
      /\ q \o k \in Seq(S) /\ Len(q \o k) = Len(q) + Len(k) /\ DOMAIN (q \o k) = 1 .. Len(q) + Len(k)
  BY ConcatProperties, LenProperties
<1>2. \A i \in 1 .. Len(q) + Len(k) : (q \o k)[i] = IF i <= Len(q) THEN q[i] ELSE k[i - Len(q)]
  BY ConcatProperties
<1>3. \A i \in 1 .. Len(q) : (q \o k)[i] = q[i]
  BY <1>1, <1>2
<1>4. \A p \in Len(q) + 1 .. Len(q) + Len(k) : p - Len(q) \in 1 .. Len(k) /\ (q \o k)[p] = k[p - Len(q)]
  <2> TAKE p \in Len(q) + 1 .. Len(q) + Len(k)
  <2>1. p \in 1 .. Len(q) + Len(k) /\ ~(p <= Len(q)) /\ p - Len(q) \in 1 .. Len(k)
    BY <1>1
  <2> QED BY <2>1, <1>2
<1>5. \A i \in 1 .. Len(k) : (q \o k)[Len(q) + i] = k[i]
  <2> TAKE i \in 1 .. Len(k)
  <2>1. Len(q) + i \in Len(q) + 1 .. Len(q) + Len(k) /\ (Len(q) + i) - Len(q) = i
    BY <1>1
  <2> QED BY <2>1, <1>4
<1>6. Len(q) <= Len(q) + Len(k)
  BY <1>1
<1> QED BY <1>1, <1>3, <1>4, <1>5, <1>6 DEF Prolongs

LEMMA AppendProlongs ==
  ASSUME NEW S, NEW q \in Seq(S), NEW w \in S
  PROVE  /\ Append(q, w) \in Seq(S) /\ Prolongs(Append(q, w), q) /\ Len(q) \in Nat
         /\ Len(Append(q, w)) = Len(q) + 1 /\ Append(q, w)[Len(q) + 1] = w
<1>1. /\ Append(q, w) \in Seq(S)
      /\ Len(q) \in Nat /\ Len(Append(q, w)) = Len(q) + 1
      /\ DOMAIN q = 1 .. Len(q) /\ DOMAIN Append(q, w) = 1 .. Len(q) + 1
      /\ Append(q, w)[Len(q) + 1] = w
      /\ \A i \in 1 .. Len(q) : Append(q, w)[i] = q[i]
  BY AppendIs
<1> QED BY <1>1 DEF Prolongs

LEMMA BetweenKept ==
  ASSUME NEW q, NEW q2, Prolongs(q2, q), NEW i \in Nat, NEW j \in Nat, j <= Len(q) + 1, NEW kinds
  PROVE  Between(q2, i, j, kinds) <=> Between(q, i, j, kinds)
<1>1. \A m \in i + 1 .. j - 1 : q2[m] = q[m]
  BY DEF Prolongs
<1> QED BY <1>1 DEF Between

LEMMA FollowsKept ==
  ASSUME NEW q, NEW q2, Prolongs(q2, q), NEW i \in 1 .. Len(q) + 1, NEW s, NEW reel
  PROVE  Follows(q2, i, s, reel) <=> Follows(q, i, s, reel)
<1>1. i \in Nat /\ i <= Len(q) + 1 /\ Len(q) \in Nat
  BY DEF Prolongs
<1>2. Between(q2, 0, i, {"enable"}) <=> Between(q, 0, i, {"enable"})
  BY <1>1, BetweenKept
<1>3. \A e \in 1 .. i - 1 : q2[e] = q[e] /\ (Between(q2, e, i, {"enable"}) <=> Between(q, e, i, {"enable"}))
  <2> TAKE e \in 1 .. i - 1
  <2>1. e \in Nat /\ e \in 1 .. Len(q)
    BY <1>1
  <2> QED BY <2>1, <1>1, BetweenKept DEF Prolongs
<1>4. LastAsked(q2, i, s) <=> LastAsked(q, i, s)
  BY <1>3 DEF LastAsked
<1> QED BY <1>2, <1>4 DEF Follows

LEMMA FollowsAfter ==
  ASSUME NEW q, NEW q2, Prolongs(q2, q), \A p \in Len(q) + 1 .. Len(q2) : q2[p].kind # "enable",
         NEW i \in Len(q) + 1 .. Len(q2) + 1, NEW s, NEW reel, Follows(q, Len(q) + 1, s, reel)
  PROVE  Follows(q2, i, s, reel)
<1>1. Len(q) \in Nat /\ Len(q2) \in Nat /\ i \in Nat
  BY DEF Prolongs
<1>2. ASSUME NEW e \in 0 .. Len(q), Between(q, e, Len(q) + 1, {"enable"}) PROVE Between(q2, e, i, {"enable"})
  <2>1. PICK m \in e + 1 .. Len(q) : q[m].kind = "enable"
    BY <1>1, <1>2 DEF Between
  <2>2. m \in e + 1 .. i - 1 /\ m \in 1 .. Len(q)
    BY <1>1
  <2> QED BY <2>1, <2>2 DEF Between, Prolongs
<1>3. LastAsked(q2, i, s)
  <2> SUFFICES ASSUME NEW e \in 1 .. i - 1, q2[e].kind = "enable", ~Between(q2, e, i, {"enable"})
               PROVE  q2[e].session = s
    BY DEF LastAsked
  <2>1. e \in 1 .. Len(q)
    <3>1. e \notin Len(q) + 1 .. Len(q2)
      OBVIOUS
    <3> QED BY <3>1, <1>1
  <2>2. q2[e] = q[e]
    BY <2>1 DEF Prolongs
  <2>3. e \in 0 .. Len(q) /\ e \in 1 .. (Len(q) + 1) - 1
    BY <2>1, <1>1
  <2> QED BY <2>2, <2>3, <1>2 DEF Follows, LastAsked
<1>4. 0 \in 0 .. Len(q)
  BY <1>1
<1> QED BY <1>2, <1>3, <1>4 DEF Follows

LEMMA WholeKept ==
  ASSUME NEW q, NEW q2, Prolongs(q2, q), NEW j \in 1 .. Len(q) + 1, NEW last, NEW reel, NEW m, NEW m2,
         m.lost \subseteq m2.lost, Whole(last, q, j, reel, m)
  PROVE  Whole(last, q2, j, reel, m2)
<1>1. j \in Nat /\ j <= Len(q) + 1 /\ Len(q) \in Nat
  BY DEF Prolongs
<1>2. ASSUME NEW i \in Pictures(q2), i < j, ~Between(q2, i, j, Borders)
      PROVE  q2[i].picture + 1 .. last \subseteq m2.lost
  <2>1. i \in 1 .. Len(q) /\ i \in Nat
    BY <1>1, <1>2 DEF Pictures, Prolongs
  <2>2. q2[i] = q[i] /\ i \in Pictures(q)
    BY <2>1, <1>2 DEF Pictures, Prolongs
  <2>3. ~Between(q, i, j, Borders)
    BY <1>1, <1>2, <2>1, BetweenKept
  <2> QED BY <2>2, <2>3, <1>2 DEF Whole
<1>3. Between(q2, 0, j, Borders) <=> Between(q, 0, j, Borders)
  BY <1>1, BetweenKept
<1> QED BY <1>2, <1>3 DEF Whole

(* Right behind a border, the packets before it do not matter. *)
LEMMA WholeBehind ==
  ASSUME NEW q, Len(q) \in Nat, DOMAIN q = 1 .. Len(q), NEW j \in 2 .. Len(q) + 1, q[j - 1].kind \in Borders,
         NEW last, NEW reel, NEW m,
         q[j - 1].kind = "picture" => q[j - 1].picture + 1 .. last \subseteq m.lost
  PROVE  Whole(last, q, j, reel, m)
<1>1. \A i \in 0 .. j - 2 : Between(q, i, j, Borders)
  <2> TAKE i \in 0 .. j - 2
  <2>1. j - 1 \in i + 1 .. j - 1
    OBVIOUS
  <2> QED BY <2>1 DEF Between
<1>2. \A i \in Pictures(q) : i < j => i \in 0 .. j - 2 \/ i = j - 1
  BY DEF Pictures
<1>3. 0 \in 0 .. j - 2
  OBVIOUS
<1> QED BY <1>1, <1>2, <1>3 DEF Whole, Pictures

(* The items behind q that are no border do not matter either. *)
LEMMA WholeAfter ==
  ASSUME NEW q, NEW q2, Prolongs(q2, q), NEW j \in Len(q) + 1 .. Len(q2) + 1,
         \A p \in Len(q) + 1 .. j - 1 : q2[p].kind \notin Borders,
         NEW last, NEW reel, NEW m, NEW m2, m.lost \subseteq m2.lost, Whole(last, q, Len(q) + 1, reel, m)
  PROVE  Whole(last, q2, j, reel, m2)
<1>1. Len(q) \in Nat /\ Len(q2) \in Nat /\ Len(q) <= Len(q2) /\ j \in Nat
  BY DEF Prolongs
<1>2. ASSUME NEW i \in 0 .. Len(q), Between(q, i, Len(q) + 1, Borders) PROVE Between(q2, i, j, Borders)
  <2>1. PICK n \in i + 1 .. Len(q) : q[n].kind \in Borders
    BY <1>1, <1>2 DEF Between
  <2>2. n \in i + 1 .. j - 1 /\ n \in 1 .. Len(q)
    BY <1>1
  <2> QED BY <2>1, <2>2 DEF Between, Prolongs
<1>3. ASSUME NEW i \in Pictures(q2), i < j, ~Between(q2, i, j, Borders)
      PROVE  q2[i].picture + 1 .. last \subseteq m2.lost
  <2>1. i \in 1 .. Len(q2) /\ i \notin Len(q) + 1 .. j - 1
    BY <1>3 DEF Pictures, Prolongs, Borders
  <2>2. i \in 1 .. Len(q) /\ i < Len(q) + 1 /\ i \in 0 .. Len(q)
    BY <2>1, <1>1, <1>3
  <2>3. q2[i] = q[i] /\ i \in Pictures(q)
    BY <2>2, <1>3 DEF Pictures, Prolongs
  <2> QED BY <2>2, <2>3, <1>2, <1>3 DEF Whole
<1>4. 0 \in 0 .. Len(q)
  BY <1>1
<1> QED BY <1>2, <1>3, <1>4 DEF Whole

LEMMA WholeMore ==
  ASSUME NEW q, NEW j, NEW last \in Nat, NEW more \in Nat, NEW reel, NEW m, Whole(last, q, j, reel, m),
         last + 1 .. more \subseteq m.lost,
         \A i \in Pictures(q) : q[i].picture \in Nat,
         reel.packets # <<>> => Last(reel.packets).picture \in Nat
  PROVE  Whole(more, q, j, reel, m)
<1>1. \A x \in Nat : x + 1 .. more \subseteq (x + 1 .. last) \cup (last + 1 .. more)
  OBVIOUS
<1>2. \A x \in Nat : x + 1 .. last \subseteq m.lost => x + 1 .. more \subseteq m.lost
  BY <1>1
<1> QED BY <1>2 DEF Whole

(* What the encoder hands over                                             *)
LEMMA SwitchConstants ==
  /\ Gop \in Nat \ {0} /\ RawBuffers \in Nat \ {0} /\ QueueLimit \in Nat \ {0}
  /\ MaxPictures \in Nat /\ MaxSwitches \in Nat /\ MaxTrouble \in Nat
BY SwitchAssumption

LEMMA HeldIs ==
  ASSUME SwitchTypes, EncoderInv
  PROVE  /\ Len(coder.held) \in Nat /\ DOMAIN coder.held = 1 .. Len(coder.held)
         /\ \A i \in 1 .. Len(coder.held) :
              /\ coder.held[i] \in [number : Nat, session : Nat] /\ coder.held[i].number = LeftEncoder + i
              /\ Packet(coder.held[i]) \in Items /\ Packet(coder.held[i]).kind = "picture"
              /\ Packet(coder.held[i]).picture = LeftEncoder + i
              /\ Packet(coder.held[i]).session = coder.held[i].session
         /\ LeftEncoder \in Nat /\ coder.taken = LeftEncoder + Len(coder.held) /\ coder.taken \in Nat
         /\ coder.coded \in 0 .. Len(coder.held)
<1> DEFINE S == [number : Nat, session : Nat]
<1>1. coder.held \in Seq(S) /\ coder.taken \in Nat /\ coder.coded \in Nat /\ coder.coded <= Len(coder.held)
  BY DEF SwitchTypes
<1> HIDE DEF S
<1>2. /\ Len(coder.held) \in Nat /\ DOMAIN coder.held = 1 .. Len(coder.held)
      /\ \A i \in 1 .. Len(coder.held) : coder.held[i] \in S
  BY <1>1, LenProperties, ElementOfSeq
<1>3. LeftEncoder \in Nat /\ coder.taken = LeftEncoder + Len(coder.held)
  BY <1>1, <1>2 DEF EncoderInv, LeftEncoder
<1>4. ASSUME NEW i \in 1 .. Len(coder.held)
      PROVE  /\ coder.held[i] \in [number : Nat, session : Nat] /\ coder.held[i].number = LeftEncoder + i
             /\ Packet(coder.held[i]) \in Items /\ Packet(coder.held[i]).kind = "picture"
             /\ Packet(coder.held[i]).picture = LeftEncoder + i
             /\ Packet(coder.held[i]).session = coder.held[i].session
  <2>1. coder.held[i] \in [number : Nat, session : Nat] /\ coder.held[i].number = LeftEncoder + i
    BY <1>2 DEF S, EncoderInv
  <2>2. PICK p : p = coder.held[i]
    OBVIOUS
  <2>3. Packet(p) \in Items
    BY <2>1, <2>2 DEF Packet, Items
  <2>4. Packet(p).kind = "picture" /\ Packet(p).picture = p.number /\ Packet(p).session = p.session
    BY DEF Packet
  <2> QED BY <2>1, <2>2, <2>3, <2>4
<1> QED BY <1>1, <1>2, <1>3, <1>4

LEMMA RoomIs ==
  ASSUME SwitchTypes, NEW packets \in Seq(Items)
  PROVE  /\ Room(packets) \in 0 .. Len(packets) /\ Len(packets) \in Nat
         /\ Kept(packets) \in Seq(Items) /\ Len(Kept(packets)) = Room(packets)
         /\ \A i \in 1 .. Room(packets) : Kept(packets)[i] = packets[i]
         /\ LostOf(packets) \subseteq Nat
<1>1. Len(packets) \in Nat /\ Len(handed) \in Nat
  BY LenProperties DEF SwitchTypes
<1>2. Room(packets) \in 0 .. Len(packets)
  BY <1>1, SwitchConstants DEF Room
<1>3. PICK n : n = Room(packets)
  OBVIOUS
<1>4. \A i \in 1 .. Len(packets) : packets[i] \in Items
  BY <1>1, ElementOfSeq
<1>5. /\ SubSeq(packets, 1, n) \in Seq(Items) /\ Len(SubSeq(packets, 1, n)) = n
      /\ \A i \in 1 .. n : SubSeq(packets, 1, n)[i] = packets[i]
  <2>1. n \in 0 .. Len(packets) /\ n \in Nat
    BY <1>1, <1>2, <1>3
  <2>2. \A i \in 1 .. n : packets[i] \in Items
    BY <1>1, <1>4, <2>1
  <2>3. SubSeq(packets, 1, n) = [i \in 1 .. n |-> packets[i]]
    BY <1>1, <2>1
  <2>4. SubSeq(packets, 1, n) \in Seq(Items)
    BY <2>1, <2>2, <2>3
  <2>5. Len(SubSeq(packets, 1, n)) = n
    BY <2>1, <2>3
  <2> QED BY <2>3, <2>4, <2>5
<1>6. LostOf(packets) \subseteq Nat
  <2>1. \A i \in Room(packets) + 1 .. Len(packets) : packets[i].picture \in Nat
    BY <1>1, <1>2, <1>4 DEF Items
  <2> QED BY <2>1 DEF LostOf
<1> QED BY <1>1, <1>2, <1>3, <1>5, <1>6 DEF Kept

(* The first c packets are the configuration; the lost ones are the last.  *)
LEMMA KeptIs ==
  ASSUME SwitchTypes, EncoderInv, NEW n \in 0 .. Len(coder.held)
  PROVE  LET K == Kept(Packets(n)) IN
         \E c \in {0, 1} :
           /\ K \in Seq(Items) /\ Len(K) \in Nat
           /\ \A i \in 1 .. Len(K) : i <= c => K[i].kind = "config"
           /\ \A i \in 1 .. Len(K) : i > c =>
                /\ recorder.requested /\ i - c \in 1 .. n /\ K[i].kind = "picture"
                /\ K[i].picture = LeftEncoder + (i - c) /\ K[i].session = coder.held[i - c].session
           /\ recorder.requested =>
                \A m \in 1 .. n : m + c <= Len(K) \/ LeftEncoder + m \in LostOf(Packets(n))
           /\ LostOf(Packets(n)) \subseteq Nat
<1>0. n \in Nat /\ Len(coder.held) \in Nat
  BY HeldIs
<1>1. PICK a, b : /\ a = (IF n > 0 /\ ~coder.configured THEN <<Config>> ELSE <<>>)
                  /\ b = (IF recorder.requested THEN [i \in 1 .. n |-> Packet(coder.held[i])] ELSE <<>>)
  OBVIOUS
<1>2. /\ a \in Seq(Items) /\ Len(a) \in {0, 1} /\ \A i \in 1 .. Len(a) : a[i].kind = "config"
  <2>1. Config \in Items /\ Config.kind = "config"
    BY DEF Config, Items
  <2>2. CASE a = <<>>
    BY <2>2
  <2>3. CASE a = <<Config>>
    <3>1. <<Config>> \in Seq(Items) /\ Len(<<Config>>) = 1 /\ <<Config>>[1] = Config
      BY <2>1
    <3>2. \A i : i \in 1 .. 1 => i = 1
      OBVIOUS
    <3> QED BY <2>1, <2>3, <3>1, <3>2
  <2> QED BY <1>1, <2>2, <2>3
<1>3. /\ b \in Seq(Items) /\ Len(b) \in Nat
      /\ Len(b) = (IF recorder.requested THEN n ELSE 0)
      /\ \A i \in 1 .. Len(b) : b[i] = Packet(coder.held[i])
  <2>1. CASE recorder.requested
    <3>1. b = [i \in 1 .. n |-> Packet(coder.held[i])]
      BY <1>1, <2>1
    <3>2. \A i \in 1 .. n : Packet(coder.held[i]) \in Items
      BY <1>0, HeldIs
    <3>3. b \in Seq(Items) /\ Len(b) = n
      BY <1>0, <3>1, <3>2
    <3> QED BY <1>0, <2>1, <3>1, <3>3
  <2>2. CASE ~recorder.requested
    BY <1>1, <2>2
  <2> QED BY <2>1, <2>2
<1>4. PICK P : P = a \o b
  OBVIOUS
<1>5. Packets(n) = P
  BY <1>1, <1>4 DEF Packets
<1>6. /\ P \in Seq(Items) /\ Len(P) = Len(a) + Len(b) /\ Len(a) \in Nat
      /\ \A i \in 1 .. Len(a) : P[i] = a[i]
      /\ \A i \in 1 .. Len(P) : i > Len(a) => i - Len(a) \in 1 .. Len(b) /\ P[i] = b[i - Len(a)]
  <2>1. /\ P \in Seq(Items) /\ Prolongs(P, a) /\ Len(a) \in Nat /\ Len(b) \in Nat /\ Len(P) = Len(a) + Len(b)
        /\ \A i \in Len(a) + 1 .. Len(a) + Len(b) : i - Len(a) \in 1 .. Len(b) /\ P[i] = b[i - Len(a)]
    BY <1>2, <1>3, <1>4, ConcatIs
  <2>2. \A i \in 1 .. Len(P) : i > Len(a) => i \in Len(a) + 1 .. Len(a) + Len(b)
    BY <2>1
  <2> QED BY <2>1, <2>2 DEF Prolongs
<1>7. /\ Room(P) \in 0 .. Len(P) /\ Len(P) \in Nat
      /\ Kept(P) \in Seq(Items) /\ Len(Kept(P)) = Room(P)
      /\ \A i \in 1 .. Room(P) : Kept(P)[i] = P[i]
      /\ LostOf(P) \subseteq Nat
  BY <1>6, RoomIs
<1>8. PICK K, c : K = Kept(P) /\ c = Len(a)
  OBVIOUS
<1>9. \A i \in 1 .. Len(K) : i <= c => K[i].kind = "config"
  <2> SUFFICES ASSUME NEW i \in 1 .. Len(K), i <= c PROVE K[i].kind = "config"
    OBVIOUS
  <2>1. i \in 1 .. Len(a) /\ K[i] = P[i]
    BY <1>6, <1>7, <1>8
  <2> QED BY <2>1, <1>2, <1>6
<1>10. ASSUME NEW i \in 1 .. Len(K), i > c
       PROVE  /\ recorder.requested /\ i - c \in 1 .. n /\ K[i].kind = "picture"
              /\ K[i].picture = LeftEncoder + (i - c) /\ K[i].session = coder.held[i - c].session
  <2>1. i \in 1 .. Len(P) /\ K[i] = P[i]
    BY <1>6, <1>7, <1>8
  <2>2. i - c \in 1 .. Len(b) /\ K[i] = b[i - c]
    BY <2>1, <1>6, <1>8, <1>10
  <2>3. recorder.requested /\ i - c \in 1 .. n
    BY <2>2, <1>3
  <2>4. K[i] = Packet(coder.held[i - c]) /\ i - c \in 1 .. Len(coder.held)
    BY <2>2, <2>3, <1>0, <1>3
  <2> QED BY <2>3, <2>4, HeldIs
<1>11. ASSUME recorder.requested, NEW m \in 1 .. n
       PROVE  m + c <= Len(K) \/ LeftEncoder + m \in LostOf(P)
  <2> SUFFICES ASSUME ~(m + c <= Len(K)) PROVE LeftEncoder + m \in LostOf(P)
    OBVIOUS
  <2>1. m + c \in Room(P) + 1 .. Len(P) /\ m + c \in 1 .. Len(P) /\ m + c > Len(a) /\ (m + c) - Len(a) = m
    BY <1>0, <1>2, <1>3, <1>6, <1>7, <1>8, <1>11
  <2>2. P[m + c] = Packet(coder.held[m]) /\ m \in 1 .. Len(coder.held)
    <3>1. P[m + c] = b[m] /\ m \in 1 .. Len(b)
      BY <2>1, <1>6
    <3> QED BY <3>1, <1>0, <1>3
  <2>3. P[m + c].picture = LeftEncoder + m
    BY <2>2, HeldIs
  <2> QED BY <2>1, <2>3 DEF LostOf
<1>12. c \in {0, 1} /\ K \in Seq(Items) /\ Len(K) \in Nat /\ LostOf(P) \subseteq Nat
  BY <1>2, <1>7, <1>8
<1> QED BY <1>5, <1>8, <1>9, <1>10, <1>11, <1>12

LEMMA ItemsAre ==
  ASSUME SwitchTypes
  PROVE  /\ Len(handed) \in Nat /\ DOMAIN handed = 1 .. Len(handed)
         /\ \A i \in 1 .. Len(handed) : handed[i] \in Items /\ handed[i].picture \in Nat
         /\ Len(Video) \in Nat /\ DOMAIN Video = 1 .. Len(Video)
         /\ \A i \in 1 .. Len(Video) : Video[i] \in Items /\ Video[i].picture \in Nat
         /\ Video # <<>> => Len(Video) \in 1 .. Len(Video) /\ Last(Video) = Video[Len(Video)]
                            /\ Last(Video).picture \in Nat
<1>1. handed \in Seq(Items) /\ Video \in Seq(Items)
  BY DEF SwitchTypes, Video
<1>2. \A x \in Items : x.picture \in Nat
  BY DEF Items
<1>3. ASSUME NEW q \in Seq(Items)
      PROVE  /\ Len(q) \in Nat /\ DOMAIN q = 1 .. Len(q)
             /\ \A i \in 1 .. Len(q) : q[i] \in Items /\ q[i].picture \in Nat
             /\ q # <<>> => Len(q) \in 1 .. Len(q) /\ Last(q) = q[Len(q)]
  <2>1. Len(q) \in Nat /\ DOMAIN q = 1 .. Len(q) /\ \A i \in 1 .. Len(q) : q[i] \in Items
    BY LenProperties, ElementOfSeq
  <2>2. q # <<>> => Len(q) # 0
    BY EmptySeq
  <2> QED BY <2>1, <2>2, <1>2 DEF Last
<1> QED BY <1>1, <1>3

(* What the queue is once n packets are handed over: each new picture is   *)
(* behind the one before it but for the lost ones, the first of them       *)
(* behind what was queued, and the end of the queue stands at LeftEncoder. *)
LEMMA HandedOver ==
  ASSUME SwitchTypes, EncoderInv, HandedInv, NothingMissing, FilmInv, recorder.pc = "runs",
         NEW n \in 0 .. Len(coder.held), NEW m2, missing.late \subseteq m2.late,
         m2.lost = missing.lost \cup LostOf(Packets(n)),
         NEW q2, q2 = handed \o Kept(Packets(n))
  PROVE  /\ q2 \in Seq(Items) /\ LostOf(Packets(n)) \subseteq Nat
         /\ QueuedUpTo(LeftEncoder + n, q2, film.route, m2)
         /\ \A j \in Pictures(q2) : Whole(q2[j].picture - 1, q2, j, film.route, m2)
         /\ \A j \in DOMAIN q2 : q2[j].kind \in Ends => Whole(q2[j].picture, q2, j, film.route, m2)
         /\ recorder.requested =>
              /\ Whole(LeftEncoder + n, q2, Len(q2) + 1, film.route, m2)
              /\ Follows(q2, Len(q2) + 1, starts, film.route)
         /\ \A i \in DOMAIN q2 : q2[i].kind = "enable" => q2[i].session # 0
<1>0. PICK K, W, L : K = Kept(Packets(n)) /\ W = LeftEncoder /\ L = Len(handed)
  OBVIOUS
<1>1a. PICK c \in {0, 1} :
        /\ Kept(Packets(n)) \in Seq(Items) /\ Len(Kept(Packets(n))) \in Nat
        /\ \A i \in 1 .. Len(Kept(Packets(n))) : i <= c => Kept(Packets(n))[i].kind = "config"
        /\ \A i \in 1 .. Len(Kept(Packets(n))) : i > c =>
             /\ recorder.requested /\ i - c \in 1 .. n /\ Kept(Packets(n))[i].kind = "picture"
             /\ Kept(Packets(n))[i].picture = LeftEncoder + (i - c) /\ Kept(Packets(n))[i].session = coder.held[i - c].session
        /\ recorder.requested => \A m \in 1 .. n : m + c <= Len(Kept(Packets(n))) \/ LeftEncoder + m \in LostOf(Packets(n))
        /\ LostOf(Packets(n)) \subseteq Nat
  BY KeptIs
<1>1. /\ c \in {0, 1}
      /\ K \in Seq(Items) /\ Len(K) \in Nat
      /\ \A i \in 1 .. Len(K) : i <= c => K[i].kind = "config"
      /\ \A i \in 1 .. Len(K) : i > c =>
           /\ recorder.requested /\ i - c \in 1 .. n /\ K[i].kind = "picture"
           /\ K[i].picture = W + (i - c) /\ K[i].session = coder.held[i - c].session
      /\ recorder.requested => \A m \in 1 .. n : m + c <= Len(K) \/ W + m \in LostOf(Packets(n))
      /\ LostOf(Packets(n)) \subseteq Nat
  BY <1>0, <1>1a
<1>2. /\ q2 \in Seq(Items) /\ Prolongs(q2, handed) /\ L \in Nat /\ Len(q2) = L + Len(K)
      /\ \A p \in L + 1 .. L + Len(K) : p - L \in 1 .. Len(K) /\ q2[p] = K[p - L]
  BY <1>0, <1>1, ConcatIs DEF SwitchTypes
<1>3. /\ DOMAIN handed = 1 .. L /\ DOMAIN q2 = 1 .. L + Len(K) /\ \A p \in 1 .. L : q2[p] = handed[p]
  BY <1>0, <1>2 DEF Prolongs
<1>4. W \in Nat /\ n \in Nat /\ Len(coder.held) \in Nat
  BY <1>0, HeldIs
<1>5. \A p \in L + 1 .. L + Len(K) :
        \/ q2[p].kind = "config" /\ p - L <= c
        \/ /\ recorder.requested /\ p - L > c /\ (p - L) - c \in 1 .. n /\ q2[p].kind = "picture"
           /\ q2[p].picture = W + ((p - L) - c) /\ q2[p].session = coder.held[(p - L) - c].session
  <2> TAKE p \in L + 1 .. L + Len(K)
  <2>1. p - L \in 1 .. Len(K) /\ q2[p] = K[p - L]
    BY <1>2
  <2>2. p - L <= c \/ p - L > c
    BY <2>1, <1>1
  <2> QED BY <2>1, <2>2, <1>1
<1>6. \A p \in Pictures(q2) :
        \/ p \in 1 .. L /\ p \in Pictures(handed) /\ q2[p] = handed[p]
        \/ /\ p \in L + 1 .. L + Len(K) /\ (p - L) - c \in 1 .. n
           /\ q2[p].picture = W + ((p - L) - c) /\ q2[p].session = coder.held[(p - L) - c].session
  <2> TAKE p \in Pictures(q2)
  <2>1. p \in 1 .. L \/ p \in L + 1 .. L + Len(K)
    BY <1>1, <1>2, <1>3 DEF Pictures
  <2> QED BY <2>1, <1>3, <1>5 DEF Pictures
<1>7. recorder.requested => \A i \in L + 1 .. Len(q2) + 1 : Follows(q2, i, starts, film.route)
  <2> SUFFICES ASSUME recorder.requested, NEW i \in L + 1 .. Len(q2) + 1 PROVE Follows(q2, i, starts, film.route)
    OBVIOUS
  <2>1. \A p \in L + 1 .. Len(q2) : q2[p].kind # "enable"
    BY <1>2, <1>5
  <2>2. Follows(handed, L + 1, starts, film.route)
    BY <1>0 DEF HandedInv
  <2> QED BY <2>1, <2>2, <1>0, <1>2, FollowsAfter
<1>8. ASSUME NEW i \in Pictures(q2)
      PROVE  /\ q2[i].picture <= W + n
             /\ \A j \in Pictures(q2) : i < j => q2[i].picture < q2[j].picture
             /\ \A k \in DOMAIN Video : Video[k].picture < q2[i].picture
             /\ q2[i].session = 0 \/ q2[i].picture \in m2.late \/ Follows(q2, i, q2[i].session, film.route)
  <2>1. CASE i \in 1 .. L /\ i \in Pictures(handed) /\ q2[i] = handed[i]
    <3>1. /\ handed[i].picture <= W
          /\ \A j \in Pictures(handed) : i < j => handed[i].picture < handed[j].picture
          /\ \A k \in DOMAIN Video : Video[k].picture < handed[i].picture
          /\ handed[i].session = 0 \/ handed[i].picture \in missing.late
               \/ Follows(handed, i, handed[i].session, film.route)
      BY <2>1, <1>0 DEF HandedInv, QueuedUpTo, Video
    <3>2. handed[i].picture \in Nat /\ i \in 1 .. Len(handed) + 1
      BY <2>1, <1>0, <1>2, ItemsAre
    <3>3. \A j \in Pictures(q2) : i < j => q2[i].picture < q2[j].picture
      <4> TAKE j \in Pictures(q2)
      <4>1. CASE j \in Pictures(handed) /\ q2[j] = handed[j]
        BY <4>1, <2>1, <3>1
      <4>2. CASE (j - L) - c \in 1 .. n /\ q2[j].picture = W + ((j - L) - c)
        BY <4>2, <2>1, <3>1, <3>2, <1>4
      <4> QED BY <4>1, <4>2, <1>6
    <3>4. Follows(handed, i, handed[i].session, film.route) => Follows(q2, i, handed[i].session, film.route)
      BY <3>2, <1>2, FollowsKept
    <3>5. q2[i].picture <= W + n
      BY <2>1, <3>1, <3>2, <1>4
    <3> QED BY <2>1, <3>1, <3>3, <3>4, <3>5
  <2>2. CASE /\ i \in L + 1 .. L + Len(K) /\ (i - L) - c \in 1 .. n
             /\ q2[i].picture = W + ((i - L) - c) /\ q2[i].session = coder.held[(i - L) - c].session
    <3>1. PICK x : x = (i - L) - c
      OBVIOUS
    <3>2. /\ x \in 1 .. n /\ x \in 1 .. Len(coder.held) /\ q2[i].picture = W + x
          /\ q2[i].session = coder.held[x].session /\ coder.held[x].number = W + x
      <4>1. x \in 1 .. n /\ q2[i].picture = W + x /\ q2[i].session = coder.held[x].session
        BY <2>2, <3>1
      <4>2. x \in 1 .. Len(coder.held)
        BY <4>1, <1>4
      <4>3. coder.held[x].number = W + x
        BY <4>2, <1>0, HeldIs
      <4> QED BY <4>1, <4>2, <4>3
    <3>3. \A j \in Pictures(q2) : i < j => q2[i].picture < q2[j].picture
      <4> TAKE j \in Pictures(q2)
      <4>1. CASE j \in 1 .. L
        BY <4>1, <2>2, <1>2
      <4>2. CASE j \in L + 1 .. L + Len(K) /\ q2[j].picture = W + ((j - L) - c)
        BY <4>2, <2>2, <1>1, <1>2, <1>4
      <4> QED BY <4>1, <4>2, <1>6
    <3>4. \A k \in DOMAIN Video : Video[k].picture < q2[i].picture
      <4> TAKE k \in DOMAIN Video
      <4>1. Video[k].picture <= W /\ Video[k].picture \in Nat
        BY <1>0, ItemsAre DEF FilmInv
      <4> QED BY <4>1, <3>2, <1>4
    <3>5. x \in DOMAIN coder.held
      BY <3>2, HeldIs
    <3>6. q2[i].session = 0 \/ q2[i].picture \in missing.late \/ (recorder.requested /\ q2[i].session = starts)
      BY <3>2, <3>5 DEF EncoderInv
    <3>7. i \in L + 1 .. Len(q2) + 1
      BY <2>2, <1>1, <1>2
    <3>8. recorder.requested /\ q2[i].session = starts => Follows(q2, i, q2[i].session, film.route)
      BY <3>7, <1>7
    <3>9. q2[i].session = 0 \/ q2[i].picture \in m2.late \/ Follows(q2, i, q2[i].session, film.route)
      BY <3>6, <3>8
    <3>10. q2[i].picture <= W + n
      BY <3>2, <1>4
    <3> QED BY <3>3, <3>4, <3>9, <3>10
  <2> QED BY <2>1, <2>2, <1>6
<1>9. QueuedUpTo(LeftEncoder + n, q2, film.route, m2)
  BY <1>0, <1>8 DEF QueuedUpTo, Video
<1>10. recorder.requested => Whole(W, handed, L + 1, film.route, missing)
  BY <1>0 DEF NothingMissing
<1>11. missing.lost \subseteq m2.lost
  OBVIOUS
<1>12. ASSUME NEW j \in Pictures(q2) PROVE Whole(q2[j].picture - 1, q2, j, film.route, m2)
  <2>1. CASE j \in 1 .. L /\ j \in Pictures(handed) /\ q2[j] = handed[j]
    <3>1. Whole(handed[j].picture - 1, handed, j, film.route, missing)
      BY <2>1 DEF NothingMissing
    <3>2. j \in 1 .. Len(handed) + 1
      BY <2>1, <1>0, <1>2
    <3>3. PICK x : x = handed[j].picture - 1
      OBVIOUS
    <3>4. Whole(x, handed, j, film.route, missing)
      BY <3>1, <3>3
    <3>5. Prolongs(q2, handed) /\ missing.lost \subseteq m2.lost
      BY <1>2, <1>11
    <3>6. Whole(x, q2, j, film.route, m2)
      BY <3>2, <3>4, <3>5, WholeKept
    <3> QED BY <2>1, <3>3, <3>6
  <2>2. CASE j \in L + 1 .. L + Len(K) /\ (j - L) - c \in 1 .. n /\ q2[j].picture = W + ((j - L) - c)
    <3>0. recorder.requested /\ q2[j].kind = "picture"
      BY <2>2, <1>5 DEF Pictures
    <3>1. CASE (j - L) - c = 1
      <4>1. q2[j].picture - 1 = W
        BY <2>2, <3>1, <1>4
      <4>2. \A p \in L + 1 .. j - 1 : q2[p].kind \notin Borders
        <5> TAKE p \in L + 1 .. j - 1
        <5>1. p \in L + 1 .. L + Len(K) /\ p - L <= c
          BY <2>2, <3>1, <1>1, <1>2
        <5>2. p - L \in Int /\ c \in Int /\ ~(p - L > c)
          BY <5>1, <1>1, <1>2
        <5>3. q2[p].kind = "config"
          BY <5>1, <5>2, <1>5
        <5> QED BY <5>3 DEF Borders, Ends
      <4>3. j \in Len(handed) + 1 .. Len(q2) + 1
        BY <2>2, <1>0, <1>1, <1>2
      <4>4. Whole(W, q2, j, film.route, m2)
        <5>1. \A p \in Len(handed) + 1 .. j - 1 : q2[p].kind \notin Borders
          BY <4>2, <1>0
        <5>2. Whole(W, handed, Len(handed) + 1, film.route, missing)
          BY <3>0, <1>0, <1>10
        <5> QED BY <4>3, <5>1, <5>2, <1>2, <1>11, WholeAfter
      <4> QED BY <4>1, <4>4
    <3>2. CASE (j - L) - c # 1
      <4>1. /\ j - 1 \in L + 1 .. L + Len(K) /\ (j - 1) - L > c /\ j \in 2 .. Len(q2) + 1
            /\ ((j - 1) - L) - c = ((j - L) - c) - 1
        BY <2>2, <3>2, <1>1, <1>2
      <4>2. q2[j - 1].kind = "picture" /\ q2[j - 1].picture = W + (((j - L) - c) - 1)
        <5>1. ~(((j - 1) - L) <= c)
          BY <4>1, <2>2, <1>1, <1>2
        <5> QED BY <4>1, <5>1, <1>5
      <4>3. q2[j - 1].picture + 1 .. q2[j].picture - 1 = {}
        BY <4>2, <2>2, <1>4
      <4>4. Len(q2) \in Nat /\ DOMAIN q2 = 1 .. Len(q2) /\ q2[j - 1].kind \in Borders
        BY <4>2, <1>1, <1>2, <1>3 DEF Borders
      <4> QED BY <4>1, <4>3, <4>4, WholeBehind
    <3> QED BY <3>1, <3>2
  <2> QED BY <2>1, <2>2, <1>6
<1>13. ASSUME NEW j \in DOMAIN q2, q2[j].kind \in Ends PROVE Whole(q2[j].picture, q2, j, film.route, m2)
  <2>1. j \in 1 .. L
    <3>1. j \in 1 .. L \/ j \in L + 1 .. L + Len(K)
      BY <1>1, <1>2, <1>3, <1>13
    <3> QED BY <3>1, <1>5, <1>13 DEF Ends
  <2>2. q2[j] = handed[j] /\ j \in DOMAIN handed /\ j \in 1 .. Len(handed) + 1
    BY <2>1, <1>0, <1>2, <1>3
  <2>3. Whole(handed[j].picture, handed, j, film.route, missing)
    BY <2>2, <1>13 DEF NothingMissing
  <2>4. Whole(handed[j].picture, q2, j, film.route, m2)
    BY <2>2, <2>3, <1>2, <1>11, WholeKept
  <2> QED BY <2>2, <2>4
<1>14. recorder.requested => Whole(W + n, q2, Len(q2) + 1, film.route, m2)
  <2> SUFFICES ASSUME recorder.requested PROVE Whole(W + n, q2, Len(q2) + 1, film.route, m2)
    OBVIOUS
  <2>0. \A m \in 1 .. n : m + c > Len(K) => W + m \in m2.lost
    <3> TAKE m \in 1 .. n
    <3>1. m + c <= Len(K) \/ W + m \in LostOf(Packets(n))
      BY <1>1
    <3> QED BY <3>1, <1>1
  <2>1. CASE Len(K) > c
    <3>1. /\ L + Len(K) \in L + 1 .. L + Len(K) /\ ~((L + Len(K)) - L <= c)
          /\ ((L + Len(K)) - L) - c = Len(K) - c /\ Len(q2) + 1 \in 2 .. Len(q2) + 1
          /\ (Len(q2) + 1) - 1 = L + Len(K)
      BY <2>1, <1>1, <1>2
    <3>2. q2[L + Len(K)].kind = "picture" /\ q2[L + Len(K)].picture = W + (Len(K) - c)
      BY <3>1, <1>5
    <3>3. (W + (Len(K) - c)) + 1 .. W + n \subseteq m2.lost
      <4> SUFFICES ASSUME NEW x \in (W + (Len(K) - c)) + 1 .. W + n PROVE x \in m2.lost
        OBVIOUS
      <4>1. x - W \in 1 .. n /\ (x - W) + c > Len(K) /\ W + (x - W) = x
        BY <2>1, <1>1, <1>4
      <4> QED BY <4>1, <2>0
    <3>4. Len(q2) \in Nat /\ DOMAIN q2 = 1 .. Len(q2)
      BY <1>1, <1>2, <1>3
    <3>5. PICK j : j = Len(q2) + 1
      OBVIOUS
    <3>6. j \in 2 .. Len(q2) + 1 /\ q2[j - 1].kind \in Borders /\ q2[j - 1].picture + 1 .. W + n \subseteq m2.lost
      BY <3>1, <3>2, <3>3, <3>5 DEF Borders
    <3>7. Whole(W + n, q2, j, film.route, m2)
      BY <3>4, <3>6, WholeBehind
    <3> QED BY <3>5, <3>7
  <2>2. CASE ~(Len(K) > c)
    <3>1. \A p \in Len(handed) + 1 .. (Len(q2) + 1) - 1 : q2[p].kind \notin Borders
      <4> TAKE p \in Len(handed) + 1 .. (Len(q2) + 1) - 1
      <4>1. p \in L + 1 .. L + Len(K) /\ ~(p - L > c)
        BY <2>2, <1>0, <1>1, <1>2
      <4> QED BY <4>1, <1>5 DEF Borders, Ends
    <3>2. Whole(W, handed, Len(handed) + 1, film.route, missing)
      BY <1>0, <1>10
    <3>3. Len(q2) + 1 \in Len(handed) + 1 .. Len(q2) + 1
      BY <1>0, <1>1, <1>2
    <3>4. Whole(W, q2, Len(q2) + 1, film.route, m2)
      BY <3>1, <3>2, <3>3, <1>2, <1>11, WholeAfter
    <3>5. W + 1 .. W + n \subseteq m2.lost
      <4> SUFFICES ASSUME NEW x \in W + 1 .. W + n PROVE x \in m2.lost
        OBVIOUS
      <4>1. x - W \in 1 .. n /\ (x - W) + c > Len(K) /\ W + (x - W) = x
        BY <2>2, <1>1, <1>4
      <4> QED BY <4>1, <2>0
    <3>6. \A i \in Pictures(q2) : q2[i].picture \in Nat
      <4>1. \A i \in 1 .. Len(q2) : q2[i] \in Items
        BY <1>2, ElementOfSeq
      <4>2. Pictures(q2) \subseteq 1 .. Len(q2)
        BY <1>2, <1>3 DEF Pictures
      <4> QED BY <4>1, <4>2 DEF Items
    <3>7. film.route.packets # <<>> => Last(film.route.packets).picture \in Nat
      BY ItemsAre DEF Video
    <3>8. W + n \in Nat
      BY <1>4
    <3> QED BY <3>4, <3>5, <3>6, <3>7, <3>8, <1>4, WholeMore
  <2> QED BY <2>1, <2>2
<1>15. recorder.requested => Follows(q2, Len(q2) + 1, starts, film.route)
  <2>1. Len(q2) + 1 \in L + 1 .. Len(q2) + 1
    BY <1>1, <1>2
  <2> QED BY <2>1, <1>7
<1>16. \A i \in DOMAIN q2 : q2[i].kind = "enable" => q2[i].session # 0
  <2> TAKE i \in DOMAIN q2
  <2>1. i \in 1 .. L \/ i \in L + 1 .. L + Len(K)
    BY <1>1, <1>2, <1>3
  <2>2. i \in 1 .. L => q2[i] = handed[i] /\ i \in DOMAIN handed
    BY <1>3
  <2> QED BY <2>1, <2>2, <1>5 DEF HandedInv
<1> QED BY <1>0, <1>1, <1>2, <1>9, <1>12, <1>13, <1>14, <1>15, <1>16

(* SwitchInv without NothingIsCutOff, which follows from NothingMissing. *)
SwitchCore ==
  SwitchTypes /\ EncoderInv /\ HandedInv /\ NothingMissing /\ FilmInv
  /\ VideoCanBeDecoded /\ RoutesKeepToTheirSession

LEMMA SwitchCoreIs == SwitchCore <=> SwitchInv
<1>1. ASSUME SwitchTypes, NothingMissing PROVE NothingIsCutOff
  <2> SUFFICES ASSUME OneSession, handed # <<>>, Head(handed).kind \in {"disable", "stop"}, Video # <<>>
               PROVE  Last(Video).picture + 1 .. Head(handed).picture \subseteq missing.lost
    BY DEF NothingIsCutOff
  <2>1. 1 \in DOMAIN handed /\ Head(handed) = handed[1]
    <3>1. handed \in Seq(Items)
      BY <1>1 DEF SwitchTypes
    <3>2. Len(handed) \in Nat /\ Len(handed) # 0 /\ DOMAIN handed = 1 .. Len(handed)
      BY <1>1, <3>1, ItemsAre, EmptySeq
    <3>3. Head(handed) = handed[1]
      BY <3>1
    <3> QED BY <3>2, <3>3
  <2>2. Whole(handed[1].picture, handed, 1, film.route, missing)
    BY <1>1, <2>1 DEF NothingMissing, Ends
  <2>3. ~Between(handed, 0, 1, Borders)
    BY DEF Between
  <2> QED BY <2>1, <2>2, <2>3 DEF Whole, Video, OneSession
<1> QED BY <1>1 DEF SwitchCore, SwitchInv, SwitchIsRight

(* The encoder with the first n pictures taken off                         *)
LEMMA WithoutIs ==
  ASSUME SwitchTypes, EncoderInv, NEW n \in 0 .. Len(coder.held)
  PROVE  LET C == Without(n) IN
         /\ C \in [held : Seq([number : Nat, session : Nat]), coded : Nat, taken : Nat, configured : BOOLEAN]
         /\ Len(C.held) \in Nat /\ DOMAIN C.held = 1 .. Len(C.held) /\ Len(C.held) = Len(coder.held) - n
         /\ C.taken = coder.taken /\ C.coded <= Len(C.held)
         /\ \A i \in 1 .. Len(C.held) : i + n \in 1 .. Len(coder.held) /\ C.held[i] = coder.held[i + n]
<1> DEFINE S == [number : Nat, session : Nat]
<1>0. PICK h : h = coder.held
  OBVIOUS
<1>1. /\ h \in Seq(S) /\ coder.taken \in Nat /\ coder.coded \in 0 .. Len(h) /\ n \in 0 .. Len(h)
      /\ coder \in [held : Seq(S), coded : Nat, taken : Nat, configured : BOOLEAN]
  BY <1>0, HeldIs DEF SwitchTypes
<1> HIDE DEF S
<1>2. Len(h) \in Nat /\ DOMAIN h = 1 .. Len(h) /\ \A i \in 1 .. Len(h) : h[i] \in S
  BY <1>1, LenProperties, ElementOfSeq
<1>3. PICK k : k = SubSeq(h, n + 1, Len(h))
  OBVIOUS
<1>4. /\ k = [i \in 1 .. Len(h) - n |-> h[i + n]]
  <2>1. k = [i \in 1 .. (1 + Len(h) - (n + 1)) |-> h[(n + 1) + i - 1]]
    BY <1>1, <1>2, <1>3
  <2>2. 1 + Len(h) - (n + 1) = Len(h) - n
    BY <1>1, <1>2
  <2>3. \A i \in 1 .. Len(h) - n : (n + 1) + i - 1 = i + n
    BY <1>1, <1>2
  <2> QED BY <2>1, <2>2, <2>3
<1>5. \A i \in 1 .. Len(h) - n : i + n \in 1 .. Len(h) /\ h[i + n] \in S
  BY <1>1, <1>2
<1>6. k \in Seq(S) /\ Len(k) = Len(h) - n /\ Len(k) \in Nat /\ DOMAIN k = 1 .. Len(k)
  <2>1. Len(h) - n \in Nat
    BY <1>1, <1>2
  <2>2. PICK d \in Nat : d = Len(h) - n
    BY <2>1
  <2>3. k = [i \in 1 .. d |-> h[i + n]] /\ \A i \in 1 .. d : h[i + n] \in S
    BY <1>4, <1>5, <2>2
  <2>4. k \in Seq(S)
    BY <2>3
  <2>5. Len(k) = d /\ DOMAIN k = 1 .. d
    BY <2>3
  <2> QED BY <2>2, <2>4, <2>5
<1>7. PICK C : C = Without(n)
  OBVIOUS
<1>8. /\ C = [held |-> k, coded |-> IF n < coder.coded THEN coder.coded - n ELSE 0,
              taken |-> coder.taken, configured |-> coder.configured \/ n > 0]
  BY <1>0, <1>1, <1>3, <1>7 DEF Without
<1>9. C.held = k /\ C.taken = coder.taken /\ C.coded \in Nat /\ C.coded <= Len(k)
  BY <1>1, <1>2, <1>6, <1>8
<1>10. C \in [held : Seq(S), coded : Nat, taken : Nat, configured : BOOLEAN]
  BY <1>1, <1>6, <1>8, <1>9
<1> QED BY <1>0, <1>4, <1>5, <1>6, <1>7, <1>9, <1>10 DEF S

(* A step that leaves the open route alone *)
LEMMA FilmStays ==
  ASSUME SwitchTypes, VideoCanBeDecoded, RoutesKeepToTheirSession, film' = film,
         missing.late \subseteq missing'.late, missing.lost \subseteq missing'.lost
  PROVE  VideoCanBeDecoded' /\ RoutesKeepToTheirSession'
<1>1. Video' = Video /\ (OneSession' <=> OneSession)
  BY DEF Video, OneSession
<1>2. VideoCanBeDecoded'
  <2> SUFFICES ASSUME Video # <<>>
               PROVE  /\ film.config /\ Video[1].key
                      /\ \A i \in 2 .. Len(Video) : Video[i - 1].picture < Video[i].picture
                      /\ OneSession => Video[1].picture .. Last(Video).picture
                            \subseteq {Video[i].picture : i \in DOMAIN Video} \cup missing'.lost
    BY <1>1 DEF VideoCanBeDecoded
  <2> QED BY DEF VideoCanBeDecoded
<1>3. RoutesKeepToTheirSession'
  BY <1>1 DEF RoutesKeepToTheirSession
<1> QED BY <1>2, <1>3

(* The main loop takes n packets off the encoder and appends nothing. *)
LEMMA DrainKeeps ==
  ASSUME SwitchCore, recorder.pc = "runs", NEW n \in 0 .. Len(coder.held),
         handed' = handed \o Kept(Packets(n)),
         missing' = [missing EXCEPT !.lost = @ \cup LostOf(Packets(n))],
         recorder'.pc = "runs", recorder'.requested = recorder.requested,
         film' = film, starts' = starts, LeftEncoder' = LeftEncoder + n
  PROVE  /\ handed' \in Seq(Items) /\ missing' \in [late : SUBSET Nat, lost : SUBSET Nat]
         /\ HandedInv' /\ NothingMissing' /\ FilmInv' /\ VideoCanBeDecoded' /\ RoutesKeepToTheirSession'
<1>0. SwitchTypes /\ EncoderInv /\ HandedInv /\ NothingMissing /\ FilmInv /\ VideoCanBeDecoded /\ RoutesKeepToTheirSession
  BY DEF SwitchCore
<1>1. PICK q2, m2, T : q2 = handed' /\ m2 = missing' /\ T = LeftEncoder'
  OBVIOUS
<1>2. missing \in [late : SUBSET Nat, lost : SUBSET Nat]
  BY <1>0 DEF SwitchTypes
<1>3. missing.late \subseteq m2.late /\ m2.late = missing.late /\ m2.lost = missing.lost \cup LostOf(Packets(n))
  BY <1>1, <1>2
<1>4. /\ q2 \in Seq(Items) /\ LostOf(Packets(n)) \subseteq Nat
      /\ QueuedUpTo(LeftEncoder + n, q2, film.route, m2)
      /\ \A j \in Pictures(q2) : Whole(q2[j].picture - 1, q2, j, film.route, m2)
      /\ \A j \in DOMAIN q2 : q2[j].kind \in Ends => Whole(q2[j].picture, q2, j, film.route, m2)
      /\ recorder.requested =>
           /\ Whole(LeftEncoder + n, q2, Len(q2) + 1, film.route, m2)
           /\ Follows(q2, Len(q2) + 1, starts, film.route)
      /\ \A i \in DOMAIN q2 : q2[i].kind = "enable" => q2[i].session # 0
  BY <1>0, <1>1, <1>3, HandedOver
<1>5. missing' \in [late : SUBSET Nat, lost : SUBSET Nat]
  BY <1>2, <1>4
<1>6. HandedInv'
  BY <1>1, <1>4 DEF HandedInv
<1>7. NothingMissing'
  BY <1>1, <1>4 DEF NothingMissing
<1>8. FilmInv'
  <2>1. film.route.session = 0 => film.route = NoRoute
    BY <1>0 DEF FilmInv
  <2>2. \A k \in DOMAIN film.route.packets : film.route.packets[k].picture <= LeftEncoder + n
    <3> TAKE k \in DOMAIN film.route.packets
    <3>1. film.route.packets[k].picture <= LeftEncoder /\ film.route.packets[k].picture \in Nat
      BY <1>0, ItemsAre DEF FilmInv, Video
    <3>2. LeftEncoder \in Nat /\ n \in Nat
      BY <1>0, HeldIs
    <3> QED BY <3>1, <3>2
  <2> QED BY <2>1, <2>2 DEF FilmInv, Video
<1>9. VideoCanBeDecoded' /\ RoutesKeepToTheirSession'
  BY <1>0, <1>1, <1>3, FilmStays
<1> QED BY <1>1, <1>4, <1>5, <1>6, <1>7, <1>8, <1>9

(* The main loop takes n packets off the encoder and ends the route. *)
LEMMA EndKeeps ==
  ASSUME SwitchCore, recorder.pc = "runs", NEW n \in 0 .. Len(coder.held), NEW kind \in Ends,
         handed' = Append(handed \o Kept(Packets(n)), Asked(kind, 0, LastOf(n))),
         missing' = [late |-> missing.late \cup {coder.held[i].number : i \in n + 1 .. Len(coder.held)},
                     lost |-> missing.lost \cup LostOf(Packets(n))],
         recorder'.pc # "runs" \/ ~recorder'.requested,
         recorder'.requested => recorder.requested,
         film' = film, starts' = starts, LeftEncoder' = LeftEncoder + n
  PROVE  /\ handed' \in Seq(Items) /\ missing' \in [late : SUBSET Nat, lost : SUBSET Nat]
         /\ HandedInv' /\ NothingMissing' /\ FilmInv' /\ VideoCanBeDecoded' /\ RoutesKeepToTheirSession'
<1>0. SwitchTypes /\ EncoderInv /\ HandedInv /\ NothingMissing /\ FilmInv /\ VideoCanBeDecoded /\ RoutesKeepToTheirSession
  BY DEF SwitchCore
<1>1. PICK q3, m2, q2, w : /\ q3 = handed' /\ m2 = missing' /\ q2 = handed \o Kept(Packets(n))
                           /\ w = Asked(kind, 0, LastOf(n))
  OBVIOUS
<1>2. missing \in [late : SUBSET Nat, lost : SUBSET Nat]
  BY <1>0 DEF SwitchTypes
<1>3. missing.late \subseteq m2.late /\ m2.lost = missing.lost \cup LostOf(Packets(n))
  BY <1>1, <1>2
<1>4. /\ q2 \in Seq(Items) /\ LostOf(Packets(n)) \subseteq Nat
      /\ QueuedUpTo(LeftEncoder + n, q2, film.route, m2)
      /\ \A j \in Pictures(q2) : Whole(q2[j].picture - 1, q2, j, film.route, m2)
      /\ \A j \in DOMAIN q2 : q2[j].kind \in Ends => Whole(q2[j].picture, q2, j, film.route, m2)
      /\ recorder.requested =>
           /\ Whole(LeftEncoder + n, q2, Len(q2) + 1, film.route, m2)
           /\ Follows(q2, Len(q2) + 1, starts, film.route)
      /\ \A i \in DOMAIN q2 : q2[i].kind = "enable" => q2[i].session # 0
  BY <1>0, <1>1, <1>3, HandedOver
<1>5. missing' \in [late : SUBSET Nat, lost : SUBSET Nat]
  <2>1. \A i \in n + 1 .. Len(coder.held) : coder.held[i].number \in Nat
    BY <1>0, HeldIs
  <2> QED BY <1>2, <1>4, <2>1
<1>6. LeftEncoder \in Nat /\ n \in Nat /\ coder.taken = LeftEncoder + Len(coder.held)
  BY <1>0, HeldIs
<1>7. LastOf(n) \in Nat /\ (LastOf(n) = 0 \/ (recorder.requested /\ LastOf(n) = LeftEncoder + n))
  BY <1>0, <1>6, HeldIs DEF LastOf
<1>8. w \in Items /\ w.kind = kind /\ w.picture = LastOf(n) /\ w.kind \in Ends /\ w.kind \notin {"enable", "picture"}
  BY <1>1, <1>7 DEF Asked, Items, Ends
<1>9. /\ q3 \in Seq(Items) /\ Prolongs(q3, q2) /\ Len(q2) \in Nat
      /\ Len(q3) = Len(q2) + 1 /\ q3[Len(q2) + 1] = w
  BY <1>1, <1>4, <1>8, AppendProlongs
<1>10. /\ DOMAIN q2 = 1 .. Len(q2) /\ DOMAIN q3 = 1 .. Len(q2) + 1
       /\ \A i \in DOMAIN q2 : q3[i] = q2[i] /\ i \in 1 .. Len(q2) + 1
  BY <1>9 DEF Prolongs
<1>11. Pictures(q3) = Pictures(q2) /\ \A i \in Pictures(q2) : q3[i] = q2[i] /\ i \in DOMAIN q2
  BY <1>8, <1>9, <1>10 DEF Pictures
<1>12. QueuedUpTo(LeftEncoder + n, q3, film.route, m2)
  <2>1. \A i \in Pictures(q2) : \A s : Follows(q3, i, s, film.route) <=> Follows(q2, i, s, film.route)
    BY <1>9, <1>10, <1>11, FollowsKept
  <2>2. \A i \in Pictures(q2) : Follows(q3, i, q2[i].session, film.route) <=> Follows(q2, i, q2[i].session, film.route)
    BY <2>1
  <2> QED BY <2>2, <1>4, <1>11 DEF QueuedUpTo
<1>13. recorder'.requested => Follows(q3, Len(q3) + 1, starts, film.route)
  <2> SUFFICES ASSUME recorder.requested PROVE Follows(q3, Len(q3) + 1, starts, film.route)
    OBVIOUS
  <2>1. Follows(q2, Len(q2) + 1, starts, film.route)
    BY <1>4
  <2>2. Len(q3) + 1 \in Len(q2) + 1 .. Len(q3) + 1
    BY <1>9
  <2>3. \A p \in Len(q2) + 1 .. Len(q3) : q3[p].kind # "enable"
    BY <1>8, <1>9
  <2> QED BY <2>1, <2>2, <2>3, <1>9, FollowsAfter
<1>14. \A i \in DOMAIN q3 : q3[i].kind = "enable" => q3[i].session # 0
  <2> TAKE i \in DOMAIN q3
  <2>1. i \in DOMAIN q2 \/ i = Len(q2) + 1
    BY <1>9, <1>10
  <2> QED BY <2>1, <1>4, <1>8, <1>9, <1>10
<1>15. HandedInv'
  BY <1>1, <1>12, <1>13, <1>14 DEF HandedInv
<1>16. \A j \in Pictures(q3) : Whole(q3[j].picture - 1, q3, j, film.route, m2)
  <2> TAKE j \in Pictures(q3)
  <2>1. j \in 1 .. Len(q2) + 1 /\ q3[j] = q2[j] /\ j \in Pictures(q2)
    BY <1>10, <1>11
  <2>2. PICK x : x = q2[j].picture - 1
    OBVIOUS
  <2>3. Whole(x, q2, j, film.route, m2) /\ m2.lost \subseteq m2.lost
    BY <1>4, <2>1, <2>2
  <2>4. Whole(x, q3, j, film.route, m2)
    BY <2>1, <2>3, <1>9, WholeKept
  <2> QED BY <2>1, <2>2, <2>4
<1>17. ASSUME NEW j \in DOMAIN q3, q3[j].kind \in Ends PROVE Whole(q3[j].picture, q3, j, film.route, m2)
  <2>0. m2.lost \subseteq m2.lost
    OBVIOUS
  <2>1. CASE j \in DOMAIN q2
    <3>1. j \in 1 .. Len(q2) + 1 /\ q3[j] = q2[j]
      BY <1>10, <2>1
    <3>2. PICK x : x = q2[j].picture
      OBVIOUS
    <3>3. Whole(x, q2, j, film.route, m2)
      BY <1>4, <1>17, <2>1, <3>1, <3>2
    <3>4. Whole(x, q3, j, film.route, m2)
      BY <2>0, <3>1, <3>3, <1>9, WholeKept
    <3> QED BY <3>1, <3>2, <3>4
  <2>2. CASE j = Len(q2) + 1
    <3>1. q3[j].picture = LastOf(n) /\ j \in 1 .. Len(q2) + 1
      BY <2>2, <1>8, <1>9
    <3>2. CASE recorder.requested /\ LastOf(n) = LeftEncoder + n
      <4>1. PICK x : x = LeftEncoder + n
        OBVIOUS
      <4>2. Whole(x, q2, j, film.route, m2)
        BY <1>4, <2>2, <3>2, <4>1
      <4>3. Whole(x, q3, j, film.route, m2)
        BY <2>0, <3>1, <4>2, <1>9, WholeKept
      <4> QED BY <3>1, <3>2, <4>1, <4>3
    <3>3. CASE LastOf(n) = 0
      <4>1. \A i \in Pictures(q3) : q3[i].picture \in Nat
        <5>1. \A i \in 1 .. Len(q3) : q3[i] \in Items
          BY <1>9, ElementOfSeq
        <5> QED BY <5>1, <1>9, <1>10 DEF Pictures, Items
      <4>2. film.route.packets # <<>> => Last(film.route.packets).picture \in Nat
        BY <1>0, ItemsAre DEF Video
      <4>3. \A x \in Nat : x + 1 .. 0 = {}
        OBVIOUS
      <4>4. Whole(0, q3, j, film.route, m2)
        BY <4>1, <4>2, <4>3 DEF Whole
      <4> QED BY <3>1, <3>3, <4>4
    <3> QED BY <3>2, <3>3, <1>7
  <2> QED BY <2>1, <2>2, <1>9, <1>10
<1>18. NothingMissing'
  BY <1>1, <1>16, <1>17 DEF NothingMissing
<1>19. FilmInv'
  <2>1. film.route.session = 0 => film.route = NoRoute
    BY <1>0 DEF FilmInv
  <2>2. \A k \in DOMAIN film.route.packets : film.route.packets[k].picture <= LeftEncoder + n
    <3> TAKE k \in DOMAIN film.route.packets
    <3>1. film.route.packets[k].picture <= LeftEncoder /\ film.route.packets[k].picture \in Nat
      BY <1>0, ItemsAre DEF FilmInv, Video
    <3> QED BY <3>1, <1>6
  <2> QED BY <2>1, <2>2 DEF FilmInv, Video
<1>20. VideoCanBeDecoded' /\ RoutesKeepToTheirSession'
  BY <1>0, <1>1, <1>3, FilmStays
<1> QED BY <1>1, <1>5, <1>9, <1>15, <1>18, <1>19, <1>20

-----------------------------------------------------------------------------
(* The main loop, action by action                                         *)

LEMMA CoreParts ==
  ASSUME SwitchCore
  PROVE  /\ SwitchTypes /\ EncoderInv /\ HandedInv /\ NothingMissing /\ FilmInv
         /\ VideoCanBeDecoded /\ RoutesKeepToTheirSession
         /\ recorder \in [pc : {"starts", "runs", "joins"}, known : Nat, warmed : BOOLEAN, requested : BOOLEAN]
         /\ setting \in [enabled : BOOLEAN, revision : Nat]
BY DEF SwitchCore, SwitchTypes

LEMMA SubmitPictureKeeps == ASSUME SwitchCore, SubmitPicture PROVE SwitchCore'
<1>0. PICK n : n = coder.coded
  OBVIOUS
<1>1. n \in 0 .. Len(coder.held) /\ recorder.pc = "runs" /\ handed' = handed \o Kept(Packets(n))
      /\ missing' = [missing EXCEPT !.lost = @ \cup LostOf(Packets(n))]
  BY <1>0, CoreParts, HeldIs DEF SubmitPicture
<1>2. PICK C, p, t : /\ C = Without(n) /\ t = coder.taken
                     /\ p = [number |-> t + 1, session |-> IF recorder.requested THEN starts ELSE 0]
  OBVIOUS
<1>3. coder' = [C EXCEPT !.held = Append(@, p), !.taken = t + 1]
  BY <1>0, <1>2 DEF SubmitPicture, Submitted
<1> DEFINE S == [number : Nat, session : Nat]
<1>4. /\ C \in [held : Seq(S), coded : Nat, taken : Nat, configured : BOOLEAN]
      /\ Len(C.held) \in Nat /\ DOMAIN C.held = 1 .. Len(C.held) /\ Len(C.held) = Len(coder.held) - n
      /\ C.taken = t /\ C.coded <= Len(C.held)
      /\ \A i \in 1 .. Len(C.held) : i + n \in 1 .. Len(coder.held) /\ C.held[i] = coder.held[i + n]
  BY <1>1, <1>2, CoreParts, WithoutIs
<1>5. /\ LeftEncoder \in Nat /\ Len(coder.held) \in Nat /\ coder.taken = LeftEncoder + Len(coder.held) /\ t \in Nat
      /\ n \in Nat /\ starts \in Nat
      /\ \A i \in 1 .. Len(coder.held) : coder.held[i].number = LeftEncoder + i
  BY <1>1, <1>2, CoreParts, HeldIs DEF SwitchTypes
<1>6. p \in S
  BY <1>2, <1>5
<1> HIDE DEF S
<1>7. PICK h : h = Append(C.held, p)
  OBVIOUS
<1>8. /\ h \in Seq(S) /\ Len(h) = Len(C.held) + 1 /\ DOMAIN h = 1 .. Len(C.held) + 1
      /\ h[Len(C.held) + 1] = p /\ \A i \in 1 .. Len(C.held) : h[i] = C.held[i]
  <2>1. C.held \in Seq(S)
    BY <1>4
  <2> QED BY <2>1, <1>6, <1>7, AppendIs
<1>9. coder'.held = h /\ coder'.taken = t + 1 /\ coder'.coded = C.coded
      /\ coder' \in [held : Seq(S), coded : Nat, taken : Nat, configured : BOOLEAN]
  <2>1. /\ C.coded \in Nat /\ C.configured \in BOOLEAN /\ t + 1 \in Nat
        /\ C = [held |-> C.held, coded |-> C.coded, taken |-> C.taken, configured |-> C.configured]
    BY <1>4, <1>5
  <2>2. coder' = [held |-> h, coded |-> C.coded, taken |-> t + 1, configured |-> C.configured]
    BY <1>3, <2>1, <1>7
  <2> QED BY <2>1, <2>2, <1>8
<1>9a. /\ Len(C.held) = Len(coder.held) - n /\ n \in Nat /\ t \in Nat /\ Len(coder.held) \in Nat /\ LeftEncoder \in Nat
       /\ t = LeftEncoder + Len(coder.held) /\ Len(C.held) \in Nat
  BY <1>2, <1>4, <1>5
<1>10. LeftEncoder' = LeftEncoder + n
  <2>1. LeftEncoder' = (t + 1) - Len(h)
    BY <1>9 DEF LeftEncoder
  <2>2. Len(h) = Len(C.held) + 1
    BY <1>8
  <2>3. PICK a, b, c : a = LeftEncoder /\ b = Len(coder.held) /\ c = Len(C.held)
    OBVIOUS
  <2>4. a \in Nat /\ b \in Nat /\ c \in Nat /\ t = a + b /\ c = b - n
    BY <1>9a, <2>3
  <2>5. (t + 1) - (c + 1) = a + n
    BY <1>9a, <2>4
  <2> QED BY <2>1, <2>2, <2>3, <2>5
<1>11. /\ recorder' = [recorder EXCEPT !.warmed = TRUE] /\ recorder'.pc = "runs"
       /\ recorder'.requested = recorder.requested
       /\ UNCHANGED <<setting, film, starts>>
  BY <1>1, CoreParts DEF SubmitPicture
<1>12. /\ handed' \in Seq(Items) /\ missing' \in [late : SUBSET Nat, lost : SUBSET Nat]
       /\ HandedInv' /\ NothingMissing' /\ FilmInv' /\ VideoCanBeDecoded' /\ RoutesKeepToTheirSession'
  BY <1>1, <1>10, <1>11, DrainKeeps
<1>13. SwitchTypes'
  <2>1. recorder' \in [pc : {"starts", "runs", "joins"}, known : Nat, warmed : BOOLEAN, requested : BOOLEAN]
    BY <1>11, CoreParts
  <2>2. coder'.coded <= Len(coder'.held)
    BY <1>4, <1>8, <1>9
  <2> QED BY <2>1, <2>2, <1>9, <1>11, <1>12, CoreParts DEF SwitchTypes, S
<1>14. EncoderInv'
  <2>1. LeftEncoder' \in Nat /\ recorder'.pc # "starts"
    BY <1>5, <1>10, <1>11
  <2>2. missing'.late = missing.late
    BY <1>1, CoreParts DEF SwitchTypes
  <2>3. ASSUME NEW i \in DOMAIN h
        PROVE  /\ h[i].number = (LeftEncoder + n) + i
               /\ \/ h[i].session = 0 \/ (recorder.requested /\ h[i].session = starts)
                  \/ h[i].number \in missing.late
    <3>1. CASE i \in 1 .. Len(C.held)
      <4>1. PICK k : k = i + n
        OBVIOUS
      <4>2. h[i] = coder.held[k] /\ k \in 1 .. Len(coder.held) /\ k \in DOMAIN coder.held
        BY <3>1, <4>1, <1>4, <1>8, CoreParts, HeldIs
      <4>3. coder.held[k].number = LeftEncoder + k
        BY <4>2, <1>5
      <4>4. LeftEncoder + k = (LeftEncoder + n) + i
        BY <3>1, <4>1, <1>4, <1>5
      <4>5. \/ coder.held[k].session = 0 \/ (recorder.requested /\ coder.held[k].session = starts)
            \/ coder.held[k].number \in missing.late
        BY <4>2, CoreParts DEF EncoderInv
      <4> QED BY <4>2, <4>3, <4>4, <4>5
    <3>2. CASE i = Len(C.held) + 1
      <4>1. h[i] = p /\ p.number = t + 1 /\ p.session = IF recorder.requested THEN starts ELSE 0
        BY <3>2, <1>2, <1>8
      <4>2. t + 1 = (LeftEncoder + n) + i
        <5>1. PICK a, b, c : a = LeftEncoder /\ b = Len(coder.held) /\ c = Len(C.held)
          OBVIOUS
        <5>2. a \in Nat /\ b \in Nat /\ c \in Nat /\ t = a + b /\ c = b - n /\ i = c + 1
          BY <1>9a, <5>1, <3>2
        <5>3. t + 1 = (a + n) + i
          BY <1>9a, <5>2
        <5> QED BY <5>1, <5>3
      <4> QED BY <4>1, <4>2
    <3> QED BY <3>1, <3>2, <1>4, <1>8
  <2> QED BY <2>1, <2>2, <2>3, <1>9, <1>10, <1>11 DEF EncoderInv
<1> QED BY <1>12, <1>13, <1>14 DEF SwitchCore

(* The encoder with n pictures less *)
LEMMA TakenOff ==
  ASSUME SwitchCore, NEW n \in 0 .. Len(coder.held), coder' = Without(n), recorder'.pc # "starts", starts' = starts,
         missing.late \subseteq missing'.late,
         \/ recorder'.requested = recorder.requested
         \/ {coder.held[i].number : i \in n + 1 .. Len(coder.held)} \subseteq missing'.late
  PROVE  /\ LeftEncoder' = LeftEncoder + n /\ EncoderInv'
         /\ coder' \in [held : Seq([number : Nat, session : Nat]), coded : Nat, taken : Nat, configured : BOOLEAN]
         /\ coder'.coded <= Len(coder'.held)
<1> DEFINE S == [number : Nat, session : Nat]
<1>1. PICK C : C = coder'
  OBVIOUS
<1>2. /\ C \in [held : Seq(S), coded : Nat, taken : Nat, configured : BOOLEAN]
      /\ Len(C.held) \in Nat /\ DOMAIN C.held = 1 .. Len(C.held) /\ Len(C.held) = Len(coder.held) - n
      /\ C.taken = coder.taken /\ C.coded <= Len(C.held)
      /\ \A i \in 1 .. Len(C.held) : i + n \in 1 .. Len(coder.held) /\ C.held[i] = coder.held[i + n]
  BY <1>1, CoreParts, WithoutIs
<1>3. /\ LeftEncoder \in Nat /\ Len(coder.held) \in Nat /\ coder.taken = LeftEncoder + Len(coder.held)
      /\ n \in Nat /\ DOMAIN coder.held = 1 .. Len(coder.held)
      /\ \A i \in 1 .. Len(coder.held) : coder.held[i].number = LeftEncoder + i
  BY CoreParts, HeldIs
<1>4. LeftEncoder' = LeftEncoder + n
  <2>1. LeftEncoder' = C.taken - Len(C.held)
    BY <1>1 DEF LeftEncoder
  <2> QED BY <2>1, <1>2, <1>3
<1>5. EncoderInv'
  <2>1. LeftEncoder' \in Nat
    BY <1>3, <1>4
  <2>2. ASSUME NEW i \in DOMAIN C.held
        PROVE  /\ C.held[i].number = (LeftEncoder + n) + i
               /\ \/ C.held[i].session = 0 \/ (recorder'.requested /\ C.held[i].session = starts)
                  \/ C.held[i].number \in missing'.late
    <3>1. PICK k : k = i + n
      OBVIOUS
    <3>2. C.held[i] = coder.held[k] /\ k \in 1 .. Len(coder.held) /\ k \in n + 1 .. Len(coder.held)
      <4>1. i \in 1 .. Len(C.held)
        BY <1>2
      <4>2. C.held[i] = coder.held[k] /\ k \in 1 .. Len(coder.held)
        BY <4>1, <3>1, <1>2
      <4>3. PICK a \in Nat : a = Len(C.held)
        BY <1>2
      <4>4. i \in Nat /\ i >= 1
        BY <4>1, <4>3
      <4> QED BY <4>2, <4>4, <3>1, <1>3
    <3>3. coder.held[k].number = LeftEncoder + k
      BY <3>2, <1>3
    <3>4. LeftEncoder + k = (LeftEncoder + n) + i
      BY <3>1, <1>2, <1>3
    <3>5. \/ coder.held[k].session = 0 \/ (recorder.requested /\ coder.held[k].session = starts)
          \/ coder.held[k].number \in missing.late
      BY <3>2, <1>3, CoreParts DEF EncoderInv
    <3>6. \/ coder.held[k].session = 0 \/ (recorder'.requested /\ coder.held[k].session = starts)
          \/ coder.held[k].number \in missing'.late
      BY <3>2, <3>5
    <3> QED BY <3>2, <3>3, <3>4, <3>6
  <2> QED BY <2>1, <2>2, <1>1, <1>4 DEF EncoderInv
<1> QED BY <1>1, <1>2, <1>4, <1>5

LEMMA DrainPacketsKeeps == ASSUME SwitchCore, DrainPackets PROVE SwitchCore'
<1>0. PICK n : n = coder.coded
  OBVIOUS
<1>1. /\ n \in 0 .. Len(coder.held) /\ recorder.pc = "runs" /\ handed' = handed \o Kept(Packets(n))
      /\ missing' = [missing EXCEPT !.lost = @ \cup LostOf(Packets(n))] /\ coder' = Without(n)
      /\ setting' = setting /\ recorder' = recorder /\ film' = film /\ starts' = starts
  BY <1>0, CoreParts, HeldIs DEF DrainPackets
<1>2. missing'.late = missing.late
  BY <1>1, CoreParts DEF SwitchTypes
<1>3. /\ LeftEncoder' = LeftEncoder + n /\ EncoderInv'
      /\ coder' \in [held : Seq([number : Nat, session : Nat]), coded : Nat, taken : Nat, configured : BOOLEAN]
      /\ coder'.coded <= Len(coder'.held)
  <2>1. recorder'.pc # "starts" /\ recorder'.requested = recorder.requested /\ missing.late \subseteq missing'.late
    BY <1>1, <1>2
  <2> QED BY <2>1, <1>1, TakenOff
<1>4. /\ handed' \in Seq(Items) /\ missing' \in [late : SUBSET Nat, lost : SUBSET Nat]
      /\ HandedInv' /\ NothingMissing' /\ FilmInv' /\ VideoCanBeDecoded' /\ RoutesKeepToTheirSession'
  <2>1. recorder'.pc = "runs" /\ recorder'.requested = recorder.requested
    BY <1>1
  <2> QED BY <2>1, <1>1, <1>3, DrainKeeps
<1>5. SwitchTypes'
  BY <1>1, <1>3, <1>4, CoreParts DEF SwitchTypes
<1> QED BY <1>3, <1>4, <1>5 DEF SwitchCore

LEMMA StopRecorderKeeps == ASSUME SwitchCore, StopRecorder PROVE SwitchCore'
<1>1. PICK n \in coder.coded .. Len(coder.held) : DrainsUpTo(n, Asked("stop", 0, LastOf(n)))
  BY DEF StopRecorder
<1>2. /\ n \in 0 .. Len(coder.held) /\ recorder.pc = "runs" /\ "stop" \in Ends
      /\ handed' = Append(handed \o Kept(Packets(n)), Asked("stop", 0, LastOf(n)))
      /\ missing' = [late |-> missing.late \cup {coder.held[i].number : i \in n + 1 .. Len(coder.held)},
                     lost |-> missing.lost \cup LostOf(Packets(n))]
      /\ coder' = Without(n)
      /\ setting' = setting /\ film' = film /\ starts' = starts
      /\ recorder' = [recorder EXCEPT !.pc = "joins"]
  <2>1. n \in 0 .. Len(coder.held)
    BY <1>1, CoreParts, HeldIs
  <2>2. "stop" \in Ends
    BY DEF Ends
  <2> QED BY <2>1, <2>2, <1>1 DEF StopRecorder, DrainsUpTo
<1>3. /\ recorder'.pc = "joins" /\ recorder'.requested = recorder.requested
      /\ recorder' \in [pc : {"starts", "runs", "joins"}, known : Nat, warmed : BOOLEAN, requested : BOOLEAN]
  BY <1>2, CoreParts
<1>4. missing.late \subseteq missing'.late
  BY <1>2
<1>5. /\ LeftEncoder' = LeftEncoder + n /\ EncoderInv'
      /\ coder' \in [held : Seq([number : Nat, session : Nat]), coded : Nat, taken : Nat, configured : BOOLEAN]
      /\ coder'.coded <= Len(coder'.held)
  BY <1>2, <1>3, <1>4, TakenOff
<1>6. /\ handed' \in Seq(Items) /\ missing' \in [late : SUBSET Nat, lost : SUBSET Nat]
      /\ HandedInv' /\ NothingMissing' /\ FilmInv' /\ VideoCanBeDecoded' /\ RoutesKeepToTheirSession'
  BY <1>2, <1>3, <1>5, EndKeeps
<1>7. SwitchTypes'
  BY <1>2, <1>3, <1>5, <1>6, CoreParts DEF SwitchTypes
<1> QED BY <1>5, <1>6, <1>7 DEF SwitchCore

(* Steps that leave the queue, the route and the pictures in the encoder.  *)
LEMMA QuietKeeps ==
  ASSUME SwitchCore, handed' = handed, film' = film, starts' = starts, missing' = missing,
         coder'.held = coder.held, coder'.taken = coder.taken,
         recorder'.requested = recorder.requested, recorder'.pc = recorder.pc \/ (recorder'.pc = "runs" /\ ~recorder.requested)
  PROVE  /\ HandedInv' /\ NothingMissing' /\ FilmInv' /\ VideoCanBeDecoded' /\ RoutesKeepToTheirSession'
         /\ (recorder'.pc = "starts" => coder' = NewCoder /\ ~recorder'.requested) => EncoderInv'
<1>1. LeftEncoder' = LeftEncoder
  BY DEF LeftEncoder
<1>2. HandedInv'
  BY <1>1, CoreParts DEF HandedInv
<1>3. NothingMissing'
  <2>1. NothingMissing
    BY CoreParts
  <2>2. recorder'.pc = "runs" /\ recorder'.requested => recorder.pc = "runs" /\ recorder.requested
    OBVIOUS
  <2> QED BY <2>1, <2>2, <1>1 DEF NothingMissing
<1>4. FilmInv'
  BY <1>1, CoreParts DEF FilmInv, Video
<1>5. VideoCanBeDecoded' /\ RoutesKeepToTheirSession'
  BY CoreParts, FilmStays
<1>6. (recorder'.pc = "starts" => coder' = NewCoder /\ ~recorder'.requested) => EncoderInv'
  <2>1. EncoderInv
    BY CoreParts
  <2> QED BY <2>1, <1>1 DEF EncoderInv
<1> QED BY <1>2, <1>3, <1>4, <1>5, <1>6

LEMMA SettingChangesKeeps == ASSUME SwitchCore, SettingChanges PROVE SwitchCore'
<1>1. /\ setting' = [enabled |-> ~setting.enabled, revision |-> setting.revision + 1]
      /\ UNCHANGED <<recorder, coder, handed, film, starts, missing>>
  BY DEF SettingChanges
<1>2. SwitchTypes'
  <2>1. setting' \in [enabled : BOOLEAN, revision : Nat]
    BY <1>1, CoreParts
  <2> QED BY <2>1, <1>1, CoreParts DEF SwitchTypes
<1>3. recorder'.pc = "starts" => coder' = NewCoder /\ ~recorder'.requested
  BY <1>1, CoreParts DEF EncoderInv
<1> QED BY <1>1, <1>2, <1>3, QuietKeeps DEF SwitchCore

LEMMA OpenEncoderKeeps == ASSUME SwitchCore, OpenEncoder PROVE SwitchCore'
<1>1. /\ recorder.pc = "starts" /\ coder' = NewCoder
      /\ recorder' = [recorder EXCEPT !.pc = "runs"] \/ recorder' = recorder
      /\ UNCHANGED <<setting, handed, film, starts, missing>>
  BY DEF OpenEncoder
<1>2. coder = NewCoder /\ ~recorder.requested
  BY <1>1, CoreParts DEF EncoderInv
<1>3. /\ recorder' \in [pc : {"starts", "runs", "joins"}, known : Nat, warmed : BOOLEAN, requested : BOOLEAN]
      /\ recorder'.requested = recorder.requested
      /\ recorder'.pc = "runs" \/ recorder'.pc = recorder.pc
  BY <1>1, CoreParts
<1>4. SwitchTypes'
  BY <1>1, <1>2, <1>3, CoreParts DEF SwitchTypes
<1> QED BY <1>1, <1>2, <1>3, <1>4, QuietKeeps DEF SwitchCore

LEMMA PictureIsCodedKeeps == ASSUME SwitchCore, PictureIsCoded PROVE SwitchCore'
<1> DEFINE S == [number : Nat, session : Nat]
<1>1. /\ coder.coded < Len(coder.held) /\ coder' = [coder EXCEPT !.coded = @ + 1]
      /\ UNCHANGED <<setting, recorder, handed, film, starts, missing>>
  BY DEF PictureIsCoded
<1>2. coder \in [held : Seq(S), coded : Nat, taken : Nat, configured : BOOLEAN] /\ Len(coder.held) \in Nat
  BY CoreParts, HeldIs DEF SwitchTypes
<1> HIDE DEF S
<1>3. /\ coder' \in [held : Seq(S), coded : Nat, taken : Nat, configured : BOOLEAN]
      /\ coder'.held = coder.held /\ coder'.taken = coder.taken /\ coder'.coded <= Len(coder'.held)
  BY <1>1, <1>2
<1>4. SwitchTypes'
  BY <1>1, <1>3, CoreParts DEF SwitchTypes, S
<1>5. recorder.pc # "starts"
  <2>1. coder # NewCoder
    <3>1. Len(coder.held) # 0 /\ Len(NewCoder.held) = 0
      BY <1>1, <1>2 DEF NewCoder
    <3> QED BY <3>1
  <2> QED BY <2>1, CoreParts DEF EncoderInv
<1> QED BY <1>1, <1>3, <1>4, <1>5, QuietKeeps DEF SwitchCore

LEMMA SettingIsUnreadableKeeps == ASSUME SwitchCore, SettingIsUnreadable PROVE SwitchCore'
<1>1. /\ recorder.pc = "runs" /\ recorder' = [recorder EXCEPT !.known = setting.revision]
      /\ UNCHANGED <<setting, coder, handed, film, starts, missing>>
  BY DEF SettingIsUnreadable
<1>2. /\ recorder' \in [pc : {"starts", "runs", "joins"}, known : Nat, warmed : BOOLEAN, requested : BOOLEAN]
      /\ recorder'.requested = recorder.requested /\ recorder'.pc = "runs"
  BY <1>1, CoreParts
<1>3. SwitchTypes'
  BY <1>1, <1>2, CoreParts DEF SwitchTypes
<1> QED BY <1>1, <1>2, <1>3, QuietKeeps DEF SwitchCore

LEMMA RecorderRestartsKeeps == ASSUME SwitchCore, RecorderRestarts PROVE SwitchCore'
<1>1. /\ handed = <<>> /\ handed' = handed
      /\ recorder' = NewRecorder /\ coder' = NewCoder /\ missing' = Complete
      /\ film' = [config |-> FALSE, route |-> NoRoute] /\ UNCHANGED <<setting, starts>>
  BY DEF RecorderRestarts
<1>2. SwitchTypes'
  <2>1. recorder' \in [pc : {"starts", "runs", "joins"}, known : Nat, warmed : BOOLEAN, requested : BOOLEAN]
    BY <1>1, SwitchConstants DEF NewRecorder, NoRevision
  <2>2. coder' \in [held : Seq([number : Nat, session : Nat]), coded : Nat, taken : Nat, configured : BOOLEAN]
        /\ coder'.coded <= Len(coder'.held)
    BY <1>1 DEF NewCoder
  <2>3. film' \in [config : BOOLEAN, route : [session : Nat, packets : Seq(Items), again : BOOLEAN]]
    BY <1>1 DEF NoRoute
  <2>4. missing' \in [late : SUBSET Nat, lost : SUBSET Nat]
    BY <1>1 DEF Complete
  <2> QED BY <2>1, <2>2, <2>3, <2>4, <1>1, CoreParts DEF SwitchTypes
<1>3. LeftEncoder' = 0 /\ coder'.held = <<>> /\ ~recorder'.requested
  BY <1>1 DEF LeftEncoder, NewCoder, NewRecorder
<1>4. EncoderInv'
  BY <1>1, <1>3 DEF EncoderInv
<1>5. Pictures(<<>>) = {} /\ DOMAIN handed = {}
  BY <1>1 DEF Pictures
<1>6. HandedInv' /\ NothingMissing'
  BY <1>1, <1>3, <1>5 DEF HandedInv, NothingMissing, QueuedUpTo
<1>7. FilmInv' /\ VideoCanBeDecoded' /\ RoutesKeepToTheirSession'
  BY <1>1 DEF FilmInv, VideoCanBeDecoded, RoutesKeepToTheirSession, Video, NoRoute
<1> QED BY <1>2, <1>4, <1>6, <1>7 DEF SwitchCore

LEMMA EnableKeeps ==
  ASSUME SwitchCore, ~recorder.requested,
         handed' = Append(handed, Asked("enable", starts + 1, 0)), starts' = starts + 1,
         recorder.pc = "runs", recorder' = [recorder EXCEPT !.known = setting.revision, !.requested = TRUE],
         UNCHANGED <<setting, coder, film, missing>>
  PROVE  SwitchCore'
<1>0. /\ starts \in Nat /\ handed \in Seq(Items) /\ LeftEncoder' = LeftEncoder /\ LeftEncoder \in Nat
      /\ missing.lost \subseteq missing.lost
  BY CoreParts DEF SwitchTypes, LeftEncoder, EncoderInv
<1>1. PICK q, q2, w : q = handed /\ q2 = handed' /\ w = Asked("enable", starts + 1, 0)
  OBVIOUS
<1>2. w \in Items /\ w.kind = "enable" /\ w.session = starts + 1 /\ w.session # 0
  BY <1>0, <1>1 DEF Asked, Items
<1>3. /\ q2 \in Seq(Items) /\ Prolongs(q2, q) /\ Len(q) \in Nat /\ q \in Seq(Items)
      /\ Len(q2) = Len(q) + 1 /\ q2[Len(q) + 1] = w
  BY <1>0, <1>1, <1>2, AppendProlongs
<1>4. /\ DOMAIN q = 1 .. Len(q) /\ DOMAIN q2 = 1 .. Len(q) + 1
      /\ \A i \in DOMAIN q : q2[i] = q[i] /\ i \in 1 .. Len(q) + 1
  BY <1>3 DEF Prolongs
<1>5. Pictures(q2) = Pictures(q) /\ \A i \in Pictures(q) : q2[i] = q[i] /\ i \in DOMAIN q
  BY <1>2, <1>3, <1>4 DEF Pictures
<1>6. recorder' \in [pc : {"starts", "runs", "joins"}, known : Nat, warmed : BOOLEAN, requested : BOOLEAN]
      /\ recorder'.requested /\ recorder'.pc = "runs"
  BY CoreParts
<1>7. SwitchTypes'
  BY <1>0, <1>1, <1>3, <1>6, CoreParts DEF SwitchTypes
<1>8. EncoderInv'
  <2>1. \A i \in DOMAIN coder.held : coder.held[i].number = LeftEncoder + i
          /\ (coder.held[i].session = 0 \/ coder.held[i].number \in missing.late)
    BY CoreParts DEF EncoderInv
  <2> QED BY <2>1, <1>0, <1>6 DEF EncoderInv
<1>9. QueuedUpTo(LeftEncoder, q2, film.route, missing)
  <2>1. \A i \in Pictures(q) : \A s : Follows(q2, i, s, film.route) <=> Follows(q, i, s, film.route)
    BY <1>3, <1>4, <1>5, FollowsKept
  <2>2. \A i \in Pictures(q) : Follows(q2, i, q[i].session, film.route) <=> Follows(q, i, q[i].session, film.route)
    BY <2>1
  <2>3. QueuedUpTo(LeftEncoder, q, film.route, missing)
    BY <1>1, CoreParts DEF HandedInv
  <2> QED BY <2>2, <2>3, <1>5 DEF QueuedUpTo
<1>10. Follows(q2, Len(q2) + 1, starts + 1, film.route)
  <2>1. \A i \in 0 .. Len(q) : Between(q2, i, Len(q2) + 1, {"enable"})
    <3> TAKE i \in 0 .. Len(q)
    <3>1. Len(q) + 1 \in i + 1 .. (Len(q2) + 1) - 1
      BY <1>3
    <3> QED BY <3>1, <1>2, <1>3 DEF Between
  <2>2. LastAsked(q2, Len(q2) + 1, starts + 1)
    <3> SUFFICES ASSUME NEW e \in 1 .. (Len(q2) + 1) - 1, ~Between(q2, e, Len(q2) + 1, {"enable"})
                 PROVE  q2[e].session = starts + 1
      BY DEF LastAsked
    <3>1. e \notin 0 .. Len(q)
      BY <2>1
    <3>2. e = Len(q) + 1
      BY <3>1, <1>3
    <3> QED BY <3>2, <1>2, <1>3
  <2>3. 0 \in 0 .. Len(q)
    BY <1>3
  <2> QED BY <2>1, <2>2, <2>3 DEF Follows
<1>11. \A i \in DOMAIN q2 : q2[i].kind = "enable" => q2[i].session # 0
  <2> TAKE i \in DOMAIN q2
  <2>1. i \in DOMAIN q \/ i = Len(q) + 1
    BY <1>3, <1>4
  <2>2. i \in DOMAIN q => q2[i] = handed[i] /\ i \in DOMAIN handed
    BY <1>1, <1>4
  <2> QED BY <2>1, <2>2, <1>2, <1>3, CoreParts DEF HandedInv
<1>12. HandedInv'
  BY <1>0, <1>1, <1>9, <1>10, <1>11 DEF HandedInv
<1>13. \A j \in Pictures(q2) : Whole(q2[j].picture - 1, q2, j, film.route, missing)
  <2> TAKE j \in Pictures(q2)
  <2>1. j \in 1 .. Len(q) + 1 /\ q2[j] = q[j] /\ j \in Pictures(q)
    BY <1>4, <1>5
  <2>2. PICK x : x = q[j].picture - 1
    OBVIOUS
  <2>3. Whole(x, q, j, film.route, missing)
    BY <1>1, <2>1, <2>2, CoreParts DEF NothingMissing
  <2>4. Whole(x, q2, j, film.route, missing)
    BY <2>1, <2>3, <1>0, <1>3, WholeKept
  <2> QED BY <2>1, <2>2, <2>4
<1>14. ASSUME NEW j \in DOMAIN q2, q2[j].kind \in Ends PROVE Whole(q2[j].picture, q2, j, film.route, missing)
  <2>1. j # Len(q) + 1
    BY <1>2, <1>3, <1>14 DEF Ends
  <2>2. j \in DOMAIN q /\ j \in 1 .. Len(q) + 1 /\ q2[j] = q[j]
    BY <1>3, <1>4, <2>1
  <2>3. PICK x : x = q[j].picture
    OBVIOUS
  <2>4. Whole(x, q, j, film.route, missing)
    BY <1>1, <1>14, <2>2, <2>3, CoreParts DEF NothingMissing
  <2>5. Whole(x, q2, j, film.route, missing)
    BY <2>2, <2>4, <1>0, <1>3, WholeKept
  <2> QED BY <2>2, <2>3, <2>5
<1>15. Whole(LeftEncoder, q2, Len(q2) + 1, film.route, missing)
  <2>1. PICK j, x : j = Len(q2) + 1 /\ x = LeftEncoder
    OBVIOUS
  <2>2. j \in 2 .. Len(q2) + 1 /\ j - 1 = Len(q) + 1
    BY <2>1, <1>3
  <2>3. Len(q2) \in Nat /\ DOMAIN q2 = 1 .. Len(q2)
    BY <1>3, <1>4
  <2>4. q2[j - 1].kind \in Borders /\ q2[j - 1].kind # "picture"
    BY <2>2, <1>2, <1>3 DEF Borders
  <2>5. Whole(x, q2, j, film.route, missing)
    BY <2>2, <2>3, <2>4, WholeBehind
  <2> QED BY <2>1, <2>5
<1>16. NothingMissing'
  BY <1>0, <1>1, <1>13, <1>14, <1>15 DEF NothingMissing
<1>17. FilmInv' /\ VideoCanBeDecoded' /\ RoutesKeepToTheirSession'
  BY <1>0, CoreParts, FilmStays DEF FilmInv, Video
<1> QED BY <1>7, <1>8, <1>12, <1>16, <1>17 DEF SwitchCore

LEMMA PollSettingKeeps == ASSUME SwitchCore, PollSetting PROVE SwitchCore'
<1>0. recorder.pc = "runs" /\ setting' = setting /\ film' = film /\ setting.revision \in Nat
  BY CoreParts DEF PollSetting
<1>1. CASE setting.enabled /\ ~recorder.requested
  BY <1>0, <1>1, EnableKeeps DEF PollSetting
<1>2. CASE ~setting.enabled /\ recorder.requested
  <2>1. /\ recorder' = [recorder EXCEPT !.known = setting.revision, !.requested = FALSE] /\ starts' = starts
        /\ \E n \in coder.coded .. Len(coder.held) : DrainsUpTo(n, Asked("disable", 0, LastOf(n)))
    BY <1>2 DEF PollSetting
  <2>2. PICK n \in coder.coded .. Len(coder.held) : DrainsUpTo(n, Asked("disable", 0, LastOf(n)))
    BY <2>1
  <2>3. n \in 0 .. Len(coder.held) /\ "disable" \in Ends
    BY CoreParts, HeldIs DEF Ends
  <2>4. /\ handed' = Append(handed \o Kept(Packets(n)), Asked("disable", 0, LastOf(n)))
        /\ missing' = [late |-> missing.late \cup {coder.held[i].number : i \in n + 1 .. Len(coder.held)},
                       lost |-> missing.lost \cup LostOf(Packets(n))]
        /\ coder' = Without(n)
    BY <2>2 DEF DrainsUpTo
  <2>5. /\ recorder'.pc = "runs" /\ ~recorder'.requested
        /\ recorder' \in [pc : {"starts", "runs", "joins"}, known : Nat, warmed : BOOLEAN, requested : BOOLEAN]
    BY <1>0, <2>1, CoreParts
  <2>6. /\ missing.late \subseteq missing'.late
        /\ {coder.held[i].number : i \in n + 1 .. Len(coder.held)} \subseteq missing'.late
    BY <2>4
  <2>7. /\ LeftEncoder' = LeftEncoder + n /\ EncoderInv'
        /\ coder' \in [held : Seq([number : Nat, session : Nat]), coded : Nat, taken : Nat, configured : BOOLEAN]
        /\ coder'.coded <= Len(coder'.held)
    BY <2>1, <2>3, <2>4, <2>5, <2>6, TakenOff
  <2>8. /\ handed' \in Seq(Items) /\ missing' \in [late : SUBSET Nat, lost : SUBSET Nat]
        /\ HandedInv' /\ NothingMissing' /\ FilmInv' /\ VideoCanBeDecoded' /\ RoutesKeepToTheirSession'
    BY <1>0, <2>1, <2>3, <2>4, <2>5, <2>7, EndKeeps
  <2>9. SwitchTypes'
    BY <1>0, <2>1, <2>5, <2>7, <2>8, CoreParts DEF SwitchTypes
  <2> QED BY <2>7, <2>8, <2>9 DEF SwitchCore
<1>3. CASE ~(setting.enabled /\ ~recorder.requested) /\ ~(~setting.enabled /\ recorder.requested)
  <2>1. /\ recorder' = [recorder EXCEPT !.known = setting.revision]
        /\ UNCHANGED <<coder, handed, starts, missing>>
    BY <1>3 DEF PollSetting
  <2>2. /\ recorder' \in [pc : {"starts", "runs", "joins"}, known : Nat, warmed : BOOLEAN, requested : BOOLEAN]
        /\ recorder'.requested = recorder.requested /\ recorder'.pc = "runs"
    BY <1>0, <2>1, CoreParts
  <2>3. SwitchTypes'
    BY <1>0, <2>1, <2>2, CoreParts DEF SwitchTypes
  <2> QED BY <1>0, <2>1, <2>2, <2>3, QuietKeeps DEF SwitchCore
<1> QED BY <1>1, <1>2, <1>3

-----------------------------------------------------------------------------
(* The worker: what remains of the queue when its head is taken            *)

LEMMA RestIs ==
  ASSUME NEW S, NEW q \in Seq(S), q # <<>>, NEW t, t = Tail(q)
  PROVE  /\ t \in Seq(S) /\ Len(q) \in Nat \ {0} /\ Len(t) = Len(q) - 1 /\ Len(t) \in Nat
         /\ DOMAIN q = 1 .. Len(q) /\ DOMAIN t = 1 .. Len(t)
         /\ \A i \in DOMAIN t : i + 1 \in DOMAIN q /\ t[i] = q[i + 1]
         /\ 1 \in DOMAIN q /\ Head(q) = q[1] /\ q[1] \in S
<1>1. Len(q) \in Nat \ {0} /\ DOMAIN q = 1 .. Len(q) /\ \A i \in 1 .. Len(q) : q[i] \in S
  BY LenProperties, ElementOfSeq, EmptySeq
<1>2. /\ t \in Seq(S) /\ Len(t) = Len(q) - 1 /\ Head(q) = q[1]
      /\ \A i \in 1 .. Len(q) - 1 : t[i] = q[i + 1]
  BY <1>1, HeadTailProperties
<1>3. DOMAIN t = 1 .. Len(t)
  BY <1>2, LenProperties
<1>4. 1 \in 1 .. Len(q) /\ Len(q) - 1 \in Nat /\ \A i \in 1 .. Len(q) - 1 : i + 1 \in 1 .. Len(q)
  BY <1>1
<1> QED BY <1>1, <1>2, <1>3, <1>4

(* t is q without its head. *)
Drops(t, q) ==
  /\ Len(q) \in Nat \ {0} /\ Len(t) = Len(q) - 1 /\ Len(t) \in Nat
  /\ DOMAIN q = 1 .. Len(q) /\ DOMAIN t = 1 .. Len(t)
  /\ \A i \in DOMAIN t : i + 1 \in DOMAIN q /\ t[i] = q[i + 1]

LEMMA BetweenDrops ==
  ASSUME NEW q, NEW t, Drops(t, q), NEW i \in Nat, NEW j \in 1 .. Len(t) + 1, NEW kinds
  PROVE  Between(t, i, j, kinds) <=> Between(q, i + 1, j + 1, kinds)
<1>0. Len(t) \in Nat /\ DOMAIN t = 1 .. Len(t) /\ \A m \in DOMAIN t : t[m] = q[m + 1]
  BY DEF Drops
<1>1. ASSUME Between(t, i, j, kinds) PROVE Between(q, i + 1, j + 1, kinds)
  <2>1. PICK m \in i + 1 .. j - 1 : t[m].kind \in kinds
    BY <1>1 DEF Between
  <2>2. m \in DOMAIN t /\ m + 1 \in (i + 1) + 1 .. (j + 1) - 1
    BY <1>0
  <2>3. q[m + 1].kind \in kinds
    BY <2>1, <2>2, <1>0
  <2> QED BY <2>2, <2>3 DEF Between
<1>2. ASSUME Between(q, i + 1, j + 1, kinds) PROVE Between(t, i, j, kinds)
  <2>1. PICK n \in (i + 1) + 1 .. (j + 1) - 1 : q[n].kind \in kinds
    BY <1>2 DEF Between
  <2>2. PICK m : m = n - 1
    OBVIOUS
  <2>3. m \in i + 1 .. j - 1 /\ m \in DOMAIN t /\ m + 1 = n
    BY <1>0, <2>2
  <2>4. t[m].kind \in kinds
    BY <2>1, <2>3, <1>0
  <2> QED BY <2>3, <2>4 DEF Between
<1> QED BY <1>1, <1>2

LEMMA FromTheFirst ==
  ASSUME NEW q, NEW j \in Nat, NEW kinds, Between(q, 0, j, kinds)
  PROVE  Between(q, 1, j, kinds) \/ q[1].kind \in kinds
<1>1. PICK m \in 0 + 1 .. j - 1 : q[m].kind \in kinds
  BY DEF Between
<1>2. m = 1 \/ m \in 1 + 1 .. j - 1
  OBVIOUS
<1> QED BY <1>1, <1>2 DEF Between

LEMMA FollowsDrops ==
  ASSUME NEW q, NEW t, Drops(t, q), NEW i \in 1 .. Len(t) + 1, NEW s, NEW reel, NEW reel2,
         Follows(q, i + 1, s, reel),
         q[1].kind = "enable" => reel2.again \/ reel2.session \in {0, q[1].session},
         q[1].kind # "enable" => reel2.session = 0 \/ (reel2.session = reel.session /\ reel2.again = reel.again)
  PROVE  Follows(t, i, s, reel2)
<1>0. Len(t) \in Nat /\ DOMAIN t = 1 .. Len(t) /\ \A m \in DOMAIN t : t[m] = q[m + 1]
  BY DEF Drops
<1>1. i + 1 \in Nat /\ 0 \in Nat /\ 0 + 1 = 1
  BY <1>0
<1>2. LastAsked(t, i, s)
  <2> SUFFICES ASSUME NEW e \in 1 .. i - 1, t[e].kind = "enable", ~Between(t, e, i, {"enable"})
               PROVE  t[e].session = s
    BY DEF LastAsked
  <2>1. e \in Nat /\ e \in DOMAIN t /\ e + 1 \in 1 .. (i + 1) - 1
    BY <1>0
  <2>2. q[e + 1] = t[e]
    BY <2>1, <1>0
  <2>3. ~Between(q, e + 1, i + 1, {"enable"})
    BY <2>1, BetweenDrops
  <2> QED BY <2>1, <2>2, <2>3 DEF Follows, LastAsked
<1>3. Between(q, 1, i + 1, {"enable"}) => Between(t, 0, i, {"enable"})
  BY <1>1, BetweenDrops
<1>4. Between(q, 0, i + 1, {"enable"}) => Between(q, 1, i + 1, {"enable"}) \/ q[1].kind = "enable"
  BY <1>1, FromTheFirst
<1>5. CASE Between(q, 1, i + 1, {"enable"})
  BY <1>2, <1>3, <1>5 DEF Follows
<1>6. CASE ~Between(q, 1, i + 1, {"enable"}) /\ q[1].kind = "enable"
  <2>1. 1 \in 1 .. (i + 1) - 1
    BY <1>0
  <2>2. q[1].session = s
    BY <1>6, <2>1 DEF Follows, LastAsked
  <2> QED BY <2>2, <1>2, <1>6 DEF Follows
<1>7. CASE ~Between(q, 1, i + 1, {"enable"}) /\ q[1].kind # "enable"
  <2>1. reel.again \/ reel.session \in {0, s}
    BY <1>4, <1>7 DEF Follows
  <2> QED BY <2>1, <1>2, <1>7 DEF Follows
<1> QED BY <1>5, <1>6, <1>7

LEMMA WholeDrops ==
  ASSUME NEW q, NEW t, Drops(t, q), NEW j \in 1 .. Len(t) + 1, NEW last, NEW reel, NEW reel2, NEW m, NEW m2,
         m.lost \subseteq m2.lost, Whole(last, q, j + 1, reel, m),
         reel2.packets # <<>> /\ ~reel2.again =>
           \/ q[1].kind \notin Borders /\ reel2.packets = reel.packets /\ ~reel.again
           \/ q[1].kind = "picture" /\ Last(reel2.packets) = q[1]
  PROVE  Whole(last, t, j, reel2, m2)
<1>0. /\ Len(t) \in Nat /\ DOMAIN t = 1 .. Len(t) /\ \A i \in DOMAIN t : t[i] = q[i + 1] /\ i + 1 \in DOMAIN q
      /\ DOMAIN q = 1 .. Len(q) /\ Len(q) = Len(t) + 1
  BY DEF Drops
<1>1. j + 1 \in Nat /\ 0 \in Nat /\ 0 + 1 = 1
  BY <1>0
<1>2. ASSUME NEW i \in Pictures(t), i < j, ~Between(t, i, j, Borders)
      PROVE  t[i].picture + 1 .. last \subseteq m2.lost
  <2>1. i \in DOMAIN t /\ i \in Nat /\ t[i] = q[i + 1] /\ i + 1 \in Pictures(q) /\ i + 1 < j + 1
    BY <1>0, <1>2 DEF Pictures
  <2>2. ~Between(q, i + 1, j + 1, Borders)
    BY <2>1, <1>2, BetweenDrops
  <2>3. q[i + 1].picture + 1 .. last \subseteq m.lost
    BY <2>1, <2>2 DEF Whole
  <2> QED BY <2>1, <2>3
<1>3. ASSUME reel2.packets # <<>>, ~reel2.again, ~Between(t, 0, j, Borders)
      PROVE  Last(reel2.packets).picture + 1 .. last \subseteq m2.lost
  <2>1. ~Between(q, 1, j + 1, Borders)
    BY <1>1, <1>3, BetweenDrops
  <2>2. CASE q[1].kind \notin Borders /\ reel2.packets = reel.packets /\ ~reel.again
    <3>1. ~Between(q, 0, j + 1, Borders)
      BY <2>1, <2>2, <1>1, FromTheFirst
    <3> QED BY <2>2, <3>1, <1>3 DEF Whole
  <2>3. CASE q[1].kind = "picture" /\ Last(reel2.packets) = q[1]
    <3>1. 1 \in Pictures(q) /\ 1 < j + 1
      BY <2>3, <1>0 DEF Pictures
    <3> QED BY <2>1, <2>3, <3>1 DEF Whole
  <2> QED BY <2>2, <2>3, <1>3
<1> QED BY <1>2, <1>3 DEF Whole

LEMMA QueuedDrops ==
  ASSUME NEW q, NEW t, Drops(t, q), NEW W, NEW reel, NEW reel2, NEW m, NEW m2,
         m.late \subseteq m2.late, QueuedUpTo(W, q, reel, m),
         \A k \in DOMAIN reel2.packets :
           \/ \E l \in DOMAIN reel.packets : reel.packets[l] = reel2.packets[k]
           \/ q[1].kind = "picture" /\ reel2.packets[k] = q[1],
         q[1].kind = "enable" => reel2.again \/ reel2.session \in {0, q[1].session},
         q[1].kind # "enable" => reel2.session = 0 \/ (reel2.session = reel.session /\ reel2.again = reel.again)
  PROVE  QueuedUpTo(W, t, reel2, m2)
<1>0. /\ Len(t) \in Nat /\ DOMAIN t = 1 .. Len(t) /\ \A i \in DOMAIN t : t[i] = q[i + 1] /\ i + 1 \in DOMAIN q
      /\ DOMAIN q = 1 .. Len(q) /\ Len(q) = Len(t) + 1
  BY DEF Drops
<1>1. \A i \in Pictures(t) : i \in Nat /\ i >= 1 /\ i \in 1 .. Len(t) + 1 /\ t[i] = q[i + 1] /\ i + 1 \in Pictures(q)
  BY <1>0 DEF Pictures
<1> SUFFICES ASSUME NEW i \in Pictures(t)
             PROVE  /\ t[i].picture <= W
                    /\ \A j \in Pictures(t) : i < j => t[i].picture < t[j].picture
                    /\ \A k \in DOMAIN reel2.packets : reel2.packets[k].picture < t[i].picture
                    /\ t[i].session = 0 \/ t[i].picture \in m2.late \/ Follows(t, i, t[i].session, reel2)
  BY DEF QueuedUpTo
<1>2. i + 1 \in Pictures(q) /\ t[i] = q[i + 1] /\ i \in 1 .. Len(t) + 1 /\ 1 < i + 1
  BY <1>1
<1>3. t[i].picture <= W
  BY <1>2 DEF QueuedUpTo
<1>4. \A j \in Pictures(t) : i < j => t[i].picture < t[j].picture
  <2> SUFFICES ASSUME NEW j \in Pictures(t), i < j PROVE t[i].picture < t[j].picture
    OBVIOUS
  <2>1. j + 1 \in Pictures(q) /\ t[j] = q[j + 1] /\ i + 1 < j + 1
    BY <1>1
  <2> QED BY <2>1, <1>2 DEF QueuedUpTo
<1>5. \A k \in DOMAIN reel2.packets : reel2.packets[k].picture < t[i].picture
  <2> TAKE k \in DOMAIN reel2.packets
  <2>1. CASE \E l \in DOMAIN reel.packets : reel.packets[l] = reel2.packets[k]
    BY <2>1, <1>2 DEF QueuedUpTo
  <2>2. CASE q[1].kind = "picture" /\ reel2.packets[k] = q[1]
    <3>1. 1 \in Pictures(q)
      BY <2>2, <1>0 DEF Pictures
    <3> QED BY <2>2, <3>1, <1>2 DEF QueuedUpTo
  <2> QED BY <2>1, <2>2
<1>6. Follows(q, i + 1, t[i].session, reel) => Follows(t, i, t[i].session, reel2)
  BY <1>2, FollowsDrops
<1>7. t[i].session = 0 \/ t[i].picture \in m.late \/ Follows(q, i + 1, t[i].session, reel)
  BY <1>2 DEF QueuedUpTo
<1> QED BY <1>3, <1>4, <1>5, <1>6, <1>7

(* The worker takes the head off the queue. *)
LEMMA WorkerKeeps ==
  ASSUME SwitchCore, handed # <<>>, handed' = Tail(handed), coder' = coder, starts' = starts, setting' = setting,
         missing.late \subseteq missing'.late, missing'.lost = missing.lost,
         missing' \in [late : SUBSET Nat, lost : SUBSET Nat],
         recorder' \in [pc : {"starts", "runs", "joins"}, known : Nat, warmed : BOOLEAN, requested : BOOLEAN],
         recorder'.pc = recorder.pc, recorder'.requested => recorder.requested,
         recorder'.requested = recorder.requested
           \/ {coder.held[i].number : i \in DOMAIN coder.held} \subseteq missing'.late,
         film' \in [config : BOOLEAN, route : [session : Nat, packets : Seq(Items), again : BOOLEAN]],
         film'.route.session = 0 => film'.route = NoRoute,
         VideoCanBeDecoded', RoutesKeepToTheirSession',
         \A k \in DOMAIN film'.route.packets :
           \/ \E l \in DOMAIN film.route.packets : film.route.packets[l] = film'.route.packets[k]
           \/ handed[1].kind = "picture" /\ film'.route.packets[k] = handed[1],
         handed[1].kind = "enable" => film'.route.again \/ film'.route.session \in {0, handed[1].session},
         handed[1].kind # "enable" => \/ film'.route.session = 0
                                      \/ film'.route.session = film.route.session /\ film'.route.again = film.route.again,
         film'.route.packets # <<>> /\ ~film'.route.again =>
           \/ handed[1].kind \notin Borders /\ film'.route.packets = film.route.packets /\ ~film.route.again
           \/ handed[1].kind = "picture" /\ Last(film'.route.packets) = handed[1]
  PROVE  SwitchCore'
<1>1. PICK q, t, reel, reel2, m, m2 :
        /\ q = handed /\ t = handed' /\ reel = film.route /\ reel2 = film'.route /\ m = missing /\ m2 = missing'
  OBVIOUS
<1>2. q \in Seq(Items) /\ q # <<>> /\ t = Tail(q) /\ m.late \subseteq m2.late /\ m.lost \subseteq m2.lost
  BY <1>1, CoreParts DEF SwitchTypes
<1>3. /\ Drops(t, q) /\ t \in Seq(Items)
      /\ \A i \in DOMAIN t : i + 1 \in DOMAIN q /\ t[i] = q[i + 1] /\ i \in 1 .. Len(t) + 1
      /\ Len(t) + 1 \in 1 .. Len(t) + 1 /\ (Len(t) + 1) + 1 = Len(q) + 1
  <2>1. Drops(t, q) /\ t \in Seq(Items)
    BY <1>2, RestIs DEF Drops
  <2> QED BY <2>1 DEF Drops
<1>4. LeftEncoder' = LeftEncoder
  BY DEF LeftEncoder
<1>5. /\ q[1].kind = "enable" => reel2.again \/ reel2.session \in {0, q[1].session}
      /\ q[1].kind # "enable" => reel2.session = 0 \/ (reel2.session = reel.session /\ reel2.again = reel.again)
      /\ \A k \in DOMAIN reel2.packets :
           \/ \E l \in DOMAIN reel.packets : reel.packets[l] = reel2.packets[k]
           \/ q[1].kind = "picture" /\ reel2.packets[k] = q[1]
      /\ reel2.packets # <<>> /\ ~reel2.again =>
           \/ q[1].kind \notin Borders /\ reel2.packets = reel.packets /\ ~reel.again
           \/ q[1].kind = "picture" /\ Last(reel2.packets) = q[1]
  BY <1>1
<1>5a. reel2.packets # <<>> /\ ~reel2.again =>
         \/ q[1].kind \notin Borders /\ reel2.packets = reel.packets /\ ~reel.again
         \/ q[1].kind = "picture" /\ Last(reel2.packets) = q[1]
  BY <1>5
<1>5b. \A j \in 1 .. Len(t) + 1 : \A x : Whole(x, q, j + 1, reel, m) => Whole(x, t, j, reel2, m2)
  <2> SUFFICES ASSUME NEW j \in 1 .. Len(t) + 1, NEW x, Whole(x, q, j + 1, reel, m)
               PROVE  Whole(x, t, j, reel2, m2)
    OBVIOUS
  <2>1. Drops(t, q) /\ m.lost \subseteq m2.lost
    BY <1>2, <1>3
  <2> QED BY <2>1, <1>5a, WholeDrops
<1>6. SwitchTypes'
  BY <1>1, <1>3, CoreParts DEF SwitchTypes
<1>7. EncoderInv'
  <2>1. \A i \in DOMAIN coder.held :
          /\ coder.held[i].number = LeftEncoder + i
          /\ \/ coder.held[i].session = 0 \/ (recorder'.requested /\ coder.held[i].session = starts)
             \/ coder.held[i].number \in missing'.late
    BY CoreParts DEF EncoderInv
  <2>2. LeftEncoder \in Nat /\ (recorder'.pc = "starts" => coder' = NewCoder /\ ~recorder'.requested)
    BY CoreParts DEF EncoderInv
  <2> QED BY <2>1, <2>2, <1>4 DEF EncoderInv
<1>8. HandedInv'
  <2>1. QueuedUpTo(LeftEncoder, t, reel2, m2)
    <3>1. QueuedUpTo(LeftEncoder, q, reel, m)
      BY <1>1, CoreParts DEF HandedInv
    <3> QED BY <3>1, <1>2, <1>3, <1>5, QueuedDrops
  <2>2. recorder'.requested => Follows(t, Len(t) + 1, starts, reel2)
    <3> SUFFICES ASSUME recorder.requested PROVE Follows(t, Len(t) + 1, starts, reel2)
      OBVIOUS
    <3>1. Follows(q, (Len(t) + 1) + 1, starts, reel)
      BY <1>1, <1>3, CoreParts DEF HandedInv
    <3> QED BY <3>1, <1>3, <1>5, FollowsDrops
  <2>3. \A i \in DOMAIN t : t[i].kind = "enable" => t[i].session # 0
    BY <1>1, <1>3, CoreParts DEF HandedInv
  <2> QED BY <2>1, <2>2, <2>3, <1>1, <1>4 DEF HandedInv
<1>9. NothingMissing'
  <2>1. \A j \in Pictures(t) : Whole(t[j].picture - 1, t, j, reel2, m2)
    <3> TAKE j \in Pictures(t)
    <3>1. j \in 1 .. Len(t) + 1 /\ t[j] = q[j + 1] /\ j + 1 \in Pictures(q)
      BY <1>3 DEF Pictures
    <3>2. PICK x : x = t[j].picture - 1
      OBVIOUS
    <3>3. Whole(x, q, j + 1, reel, m)
      BY <1>1, <3>1, <3>2, CoreParts DEF NothingMissing
    <3>4. Whole(x, t, j, reel2, m2)
      BY <3>1, <3>3, <1>5b
    <3> QED BY <3>2, <3>4
  <2>2. ASSUME NEW j \in DOMAIN t, t[j].kind \in Ends PROVE Whole(t[j].picture, t, j, reel2, m2)
    <3>1. j \in 1 .. Len(t) + 1 /\ t[j] = q[j + 1] /\ j + 1 \in DOMAIN q
      BY <1>3
    <3>2. PICK x : x = t[j].picture
      OBVIOUS
    <3>3. Whole(x, q, j + 1, reel, m)
      BY <1>1, <2>2, <3>1, <3>2, CoreParts DEF NothingMissing
    <3>4. Whole(x, t, j, reel2, m2)
      BY <3>1, <3>3, <1>5b
    <3> QED BY <3>2, <3>4
  <2>3. ASSUME recorder'.pc = "runs", recorder'.requested PROVE Whole(LeftEncoder, t, Len(t) + 1, reel2, m2)
    <3>1. Whole(LeftEncoder, q, (Len(t) + 1) + 1, reel, m)
      BY <1>1, <1>3, <2>3, CoreParts DEF NothingMissing
    <3>2. PICK x : x = LeftEncoder
      OBVIOUS
    <3>3. Whole(x, t, Len(t) + 1, reel2, m2)
      BY <3>1, <3>2, <1>3, <1>5b
    <3> QED BY <3>2, <3>3
  <2> QED BY <2>1, <2>2, <2>3, <1>1, <1>4 DEF NothingMissing
<1>10. FilmInv'
  <2>1. ASSUME NEW k \in DOMAIN reel2.packets PROVE reel2.packets[k].picture <= LeftEncoder
    <3>1. CASE \E l \in DOMAIN reel.packets : reel.packets[l] = reel2.packets[k]
      BY <3>1, <1>1, CoreParts DEF FilmInv, Video
    <3>2. CASE q[1].kind = "picture" /\ reel2.packets[k] = q[1]
      <4>1. 1 \in Pictures(q)
        BY <3>2, <1>2, RestIs DEF Pictures
      <4> QED BY <3>2, <4>1, <1>1, CoreParts DEF HandedInv, QueuedUpTo
    <3> QED BY <3>1, <3>2, <1>5
  <2> QED BY <2>1, <1>1, <1>4 DEF FilmInv, Video
<1> QED BY <1>6, <1>7, <1>8, <1>9, <1>10 DEF SwitchCore

LEMMA TakesHead ==
  ASSUME SwitchCore, NEW kind, WorkerTakes(kind)
  PROVE  /\ handed # <<>> /\ handed' = Tail(handed) /\ handed[1].kind = kind /\ Head(handed) = handed[1]
         /\ handed \in Seq(Items) /\ handed[1] \in Items /\ 1 \in DOMAIN handed
<1>1. handed \in Seq(Items) /\ handed # <<>> /\ handed' = Tail(handed) /\ Head(handed).kind = kind
  BY CoreParts DEF SwitchTypes, WorkerTakes
<1>2. PICK q, t : q = handed /\ t = Tail(q)
  OBVIOUS
<1>3. q \in Seq(Items) /\ q # <<>>
  BY <1>1, <1>2
<1>4. 1 \in DOMAIN q /\ Head(q) = q[1] /\ q[1] \in Items
  BY <1>2, <1>3, RestIs
<1> QED BY <1>1, <1>2, <1>4

LEMMA WorkerSwitchesOffIs ==
  ASSUME SwitchCore, WorkerSwitchesOff
  PROVE  /\ recorder' \in [pc : {"starts", "runs", "joins"}, known : Nat, warmed : BOOLEAN, requested : BOOLEAN]
         /\ recorder'.pc = recorder.pc /\ ~recorder'.requested
         /\ missing' \in [late : SUBSET Nat, lost : SUBSET Nat]
         /\ missing.late \subseteq missing'.late /\ missing'.lost = missing.lost
         /\ {coder.held[i].number : i \in DOMAIN coder.held} \subseteq missing'.late
<1>1. recorder' = [recorder EXCEPT !.requested = FALSE]
  BY DEF WorkerSwitchesOff
<1>2. missing \in [late : SUBSET Nat, lost : SUBSET Nat]
  BY CoreParts DEF SwitchTypes
<1>3. PICK x : x = {coder.held[i].number : i \in DOMAIN coder.held}
  OBVIOUS
<1>4. x \subseteq Nat
  <2>1. \A i \in DOMAIN coder.held : coder.held[i].number \in Nat
    BY CoreParts, HeldIs
  <2> QED BY <2>1, <1>3
<1>5. missing' = [missing EXCEPT !.late = @ \cup x]
  BY <1>3 DEF WorkerSwitchesOff
<1> QED BY <1>1, <1>2, <1>3, <1>4, <1>5, CoreParts

LEMMA FilmIs ==
  ASSUME SwitchCore
  PROVE  /\ film \in [config : BOOLEAN, route : [session : Nat, packets : Seq(Items), again : BOOLEAN]]
         /\ film.route \in [session : Nat, packets : Seq(Items), again : BOOLEAN]
         /\ film.route.session = 0 => film.route = NoRoute
         /\ NoRoute \in [session : Nat, packets : Seq(Items), again : BOOLEAN]
         /\ NoRoute.session = 0 /\ NoRoute.packets = <<>> /\ ~NoRoute.again
         /\ missing \in [late : SUBSET Nat, lost : SUBSET Nat]
BY CoreParts DEF SwitchTypes, FilmInv, NoRoute

(* A route that is closed *)
LEMMA ClosedRoute ==
  ASSUME film'.route = NoRoute
  PROVE  VideoCanBeDecoded' /\ RoutesKeepToTheirSession'
BY DEF VideoCanBeDecoded, RoutesKeepToTheirSession, Video, NoRoute

LEMMA WorkerEndsKeeps == ASSUME SwitchCore, WorkerEnds PROVE SwitchCore'
<1>1. PICK kind \in Ends : WorkerTakes(kind)
  BY DEF WorkerEnds, Ends
<1>2. film' = [film EXCEPT !.route = NoRoute] /\ UNCHANGED <<setting, recorder, coder, starts, missing>>
  BY DEF WorkerEnds
<1>3. /\ handed # <<>> /\ handed' = Tail(handed) /\ handed[1].kind = kind /\ kind # "enable"
  BY <1>1, TakesHead DEF Ends
<1>4. /\ film' \in [config : BOOLEAN, route : [session : Nat, packets : Seq(Items), again : BOOLEAN]]
      /\ film'.route = NoRoute
  BY <1>2, FilmIs
<1>5. film'.route.packets = <<>> /\ film'.route.session = 0 /\ DOMAIN film'.route.packets = {}
  BY <1>4, FilmIs
<1>6. VideoCanBeDecoded' /\ RoutesKeepToTheirSession'
  BY <1>4, ClosedRoute
<1> QED BY <1>2, <1>3, <1>4, <1>5, <1>6, WorkerKeeps, CoreParts, FilmIs

LEMMA WorkerConfiguresKeeps == ASSUME SwitchCore, WorkerConfigures PROVE SwitchCore'
<1>1. /\ handed # <<>> /\ handed' = Tail(handed) /\ handed[1].kind = "config"
      /\ film' = [film EXCEPT !.config = TRUE] /\ UNCHANGED <<setting, recorder, coder, starts, missing>>
  BY TakesHead DEF WorkerConfigures
<1>2. /\ film' \in [config : BOOLEAN, route : [session : Nat, packets : Seq(Items), again : BOOLEAN]]
      /\ film'.route = film.route /\ film'.config
  BY <1>1, FilmIs
<1>3. VideoCanBeDecoded'
  BY <1>1, <1>2, CoreParts DEF VideoCanBeDecoded, Video, OneSession
<1>4. RoutesKeepToTheirSession'
  BY <1>1, <1>2, CoreParts DEF RoutesKeepToTheirSession, Video, OneSession
<1>5. handed[1].kind \notin Borders
  BY <1>1 DEF Borders, Ends
<1> QED BY <1>1, <1>2, <1>3, <1>4, <1>5, WorkerKeeps, CoreParts, FilmIs

LEMMA WorkerStartsKeeps == ASSUME SwitchCore, WorkerStarts PROVE SwitchCore'
<1>1. PICK again : again = (film.route # NoRoute)
  OBVIOUS
<1>2. /\ handed # <<>> /\ handed' = Tail(handed) /\ handed[1].kind = "enable" /\ Head(handed) = handed[1]
      /\ handed \in Seq(Items) /\ handed[1] \in Items /\ 1 \in DOMAIN handed
  BY TakesHead DEF WorkerStarts
<1>3. handed[1].session \in Nat /\ handed[1].session # 0
  BY <1>2, CoreParts DEF HandedInv, Items
<1>4. UNCHANGED <<setting, coder, starts>> /\ again \in BOOLEAN
  BY <1>1 DEF WorkerStarts
<1>5. ASSUME film' = [film EXCEPT !.route.session = handed[1].session, !.route.again = again]
              \/ film' = [film EXCEPT !.route.again = again],
             missing.lost = missing'.lost
      PROVE  /\ film' \in [config : BOOLEAN, route : [session : Nat, packets : Seq(Items), again : BOOLEAN]]
             /\ film'.route.session = 0 => film'.route = NoRoute
             /\ film'.route.packets = film.route.packets
             /\ film'.route.again \/ film'.route.session \in {0, handed[1].session}
             /\ film'.route.packets # <<>> => film'.route.again
             /\ VideoCanBeDecoded' /\ RoutesKeepToTheirSession'
  <2>1. /\ film' \in [config : BOOLEAN, route : [session : Nat, packets : Seq(Items), again : BOOLEAN]]
        /\ film'.config = film.config /\ film'.route.packets = film.route.packets /\ film'.route.again = again
        /\ film'.route.session = handed[1].session \/ film'.route.session = film.route.session
    <3>1. CASE film' = [film EXCEPT !.route.session = handed[1].session, !.route.again = again]
      BY <1>3, <1>4, <3>1, FilmIs
    <3>2. CASE film' = [film EXCEPT !.route.again = again]
      BY <1>4, <3>2, FilmIs
    <3> QED BY <1>5, <3>1, <3>2
  <2>2. film'.route.session = 0 => film.route = NoRoute
    BY <2>1, <1>3, FilmIs
  <2>3. film'.route.session = 0 => film'.route = NoRoute
    <3> SUFFICES ASSUME film'.route.session = 0 PROVE film'.route = NoRoute
      OBVIOUS
    <3>1. film.route = NoRoute /\ ~again
      BY <2>2, <1>1
    <3>2. /\ film'.route.session = NoRoute.session /\ film'.route.packets = NoRoute.packets
          /\ film'.route.again = NoRoute.again
      BY <2>1, <3>1, FilmIs
    <3> QED BY <2>1, <3>2, FilmIs
  <2>4. film.route.packets # <<>> => again
    BY <1>1, FilmIs
  <2>5. film'.route.again \/ film'.route.session \in {0, handed[1].session}
    BY <2>1, <1>1, FilmIs
  <2>6. VideoCanBeDecoded'
    <3> SUFFICES ASSUME film'.route.packets # <<>>
                 PROVE  /\ film'.config /\ film'.route.packets[1].key
                        /\ \A i \in 2 .. Len(film'.route.packets) :
                             film'.route.packets[i - 1].picture < film'.route.packets[i].picture
                        /\ film'.route.again
      BY DEF VideoCanBeDecoded, Video, OneSession
    <3> QED BY <2>1, <2>4, CoreParts DEF VideoCanBeDecoded, Video
  <2>7. RoutesKeepToTheirSession'
    <3>1. film'.route.again \/ DOMAIN film'.route.packets = {}
      BY <2>1, <2>4
    <3> QED BY <3>1 DEF RoutesKeepToTheirSession, Video, OneSession
  <2> QED BY <2>1, <2>3, <2>4, <2>5, <2>6, <2>7
<1>6. \A k \in DOMAIN film.route.packets : \E l \in DOMAIN film.route.packets : film.route.packets[l] = film.route.packets[k]
  OBVIOUS
<1>7. CASE /\ film' = [film EXCEPT !.route.session = Head(handed).session, !.route.again = again]
           /\ UNCHANGED <<recorder, missing>>
  <2>1. /\ film' = [film EXCEPT !.route.session = handed[1].session, !.route.again = again]
        /\ recorder' = recorder /\ missing' = missing
    BY <1>2, <1>7
  <2> QED BY <2>1, <1>2, <1>4, <1>5, <1>6, WorkerKeeps, CoreParts, FilmIs
<1>8. CASE WorkerSwitchesOff /\ film' = [film EXCEPT !.route.again = again]
  <2>1. /\ recorder' \in [pc : {"starts", "runs", "joins"}, known : Nat, warmed : BOOLEAN, requested : BOOLEAN]
        /\ recorder'.pc = recorder.pc /\ ~recorder'.requested
        /\ missing' \in [late : SUBSET Nat, lost : SUBSET Nat]
        /\ missing.late \subseteq missing'.late /\ missing'.lost = missing.lost
        /\ {coder.held[i].number : i \in DOMAIN coder.held} \subseteq missing'.late
    BY <1>8, WorkerSwitchesOffIs
  <2> QED BY <2>1, <1>2, <1>4, <1>5, <1>6, <1>8, WorkerKeeps
<1> QED BY <1>1, <1>7, <1>8 DEF WorkerStarts

(* A packet that is written *)
LEMMA TakenPicture ==
  ASSUME SwitchCore, handed # <<>>, handed[1].kind = "picture", 1 \in DOMAIN handed, handed[1] \in Items,
         Takes(film.route, handed[1]), missing' = missing,
         film' = [film EXCEPT !.route.packets = Append(@, handed[1])]
  PROVE  /\ film' \in [config : BOOLEAN, route : [session : Nat, packets : Seq(Items), again : BOOLEAN]]
         /\ film'.route.session = film.route.session /\ film'.route.again = film.route.again
         /\ film'.route.session # 0 /\ film'.route.packets # <<>> /\ Last(film'.route.packets) = handed[1]
         /\ \A k \in DOMAIN film'.route.packets :
              \/ \E l \in DOMAIN film.route.packets : film.route.packets[l] = film'.route.packets[k]
              \/ film'.route.packets[k] = handed[1]
         /\ VideoCanBeDecoded' /\ RoutesKeepToTheirSession'
<1>1. PICK v, v2, h : v = film.route.packets /\ h = handed[1] /\ v2 = Append(v, h)
  OBVIOUS
<1>2. /\ film' \in [config : BOOLEAN, route : [session : Nat, packets : Seq(Items), again : BOOLEAN]]
      /\ film'.route.session = film.route.session /\ film'.route.again = film.route.again
      /\ film'.route.packets = v2 /\ film'.config = film.config /\ v \in Seq(Items)
  <2>1. v \in Seq(Items) /\ v2 \in Seq(Items)
    BY <1>1, FilmIs
  <2> QED BY <2>1, <1>1, FilmIs
<1>3. /\ v2 \in Seq(Items) /\ Prolongs(v2, v) /\ Len(v) \in Nat
      /\ Len(v2) = Len(v) + 1 /\ v2[Len(v) + 1] = h
  BY <1>1, <1>2, AppendProlongs
<1>4. /\ DOMAIN v = 1 .. Len(v) /\ DOMAIN v2 = 1 .. Len(v) + 1
      /\ \A i \in 1 .. Len(v) : v2[i] = v[i]
  BY <1>3 DEF Prolongs
<1>5. film.route.session # 0 /\ (v = <<>> => h.key /\ film.config)
  BY <1>1 DEF Takes
<1>6. v2 # <<>> /\ Last(v2) = h
  BY <1>3, EmptySeq DEF Last
<1>7. \A k \in DOMAIN v2 : (\E l \in DOMAIN v : v[l] = v2[k]) \/ v2[k] = h
  <2> TAKE k \in DOMAIN v2
  <2>1. k \in 1 .. Len(v) \/ k = Len(v) + 1
    BY <1>3, <1>4
  <2> QED BY <2>1, <1>3, <1>4
<1>8. \A k \in DOMAIN v : v[k].picture < h.picture /\ v[k].picture \in Nat
  <2>1. 1 \in Pictures(handed)
    BY DEF Pictures
  <2>2. \A k \in DOMAIN v : v[k].picture < h.picture
    BY <2>1, <1>1, CoreParts DEF HandedInv, QueuedUpTo
  <2> QED BY <2>2, <1>1, <1>4, CoreParts, ItemsAre DEF Video
<1>9. ~Between(handed, 0, 1, Borders) /\ ~Between(handed, 0, 1, {"enable"}) /\ 1 \in Pictures(handed)
  BY DEF Between, Pictures
<1>10. v # <<>> => Len(v) \in 1 .. Len(v) /\ Last(v) = v[Len(v)] /\ 1 \in 1 .. Len(v) /\ Len(v) \in DOMAIN v
  <2>1. v # <<>> => Len(v) # 0
    BY <1>2, EmptySeq
  <2> QED BY <2>1, <1>3, <1>4 DEF Last
<1>11. h.picture \in Nat
  BY <1>1 DEF Items
<1>12. VideoCanBeDecoded'
  <2>1. film.config /\ v2[1].key
    <3>1. CASE v = <<>>
      <4>1. v2[1] = h
        BY <3>1, <1>3
      <4> QED BY <3>1, <4>1, <1>5
    <3>2. CASE v # <<>>
      BY <3>2, <1>1, <1>4, <1>10, CoreParts DEF VideoCanBeDecoded, Video
    <3> QED BY <3>1, <3>2
  <2>2. ASSUME NEW i \in 2 .. Len(v2) PROVE v2[i - 1].picture < v2[i].picture
    <3>1. i - 1 \in 1 .. Len(v) /\ i - 1 \in DOMAIN v
      BY <1>3, <1>4
    <3>2. v2[i - 1] = v[i - 1]
      BY <3>1, <1>4
    <3>3. CASE i = Len(v) + 1
      BY <3>1, <3>2, <3>3, <1>3, <1>8
    <3>4. CASE i # Len(v) + 1
      <4>1. i \in 1 .. Len(v) /\ i \in 2 .. Len(v)
        BY <3>4, <1>3
      <4>2. v[i - 1].picture < v[i].picture
        BY <4>1, <1>1, <1>10, CoreParts DEF VideoCanBeDecoded, Video
      <4> QED BY <3>2, <4>1, <4>2, <1>4
    <3> QED BY <3>3, <3>4
  <2>3. ASSUME ~film.route.again
        PROVE  v2[1].picture .. Last(v2).picture \subseteq {v2[i].picture : i \in DOMAIN v2} \cup missing.lost
    <3>0. h.picture \in {v2[i].picture : i \in DOMAIN v2}
      <4>1. Len(v) + 1 \in DOMAIN v2
        BY <1>3, <1>4
      <4> QED BY <4>1, <1>3
    <3>1. CASE v = <<>>
      <4>1. v2[1] = h /\ Last(v2) = h
        BY <3>1, <1>3, <1>6
      <4> QED BY <4>1, <3>0, <1>11
    <3>2. CASE v # <<>>
      <4>1. v[1].picture .. Last(v).picture \subseteq {v[i].picture : i \in DOMAIN v} \cup missing.lost
        BY <3>2, <2>3, <1>1, CoreParts DEF VideoCanBeDecoded, Video, OneSession
      <4>2. Last(v).picture + 1 .. h.picture - 1 \subseteq missing.lost
        <5>1. Whole(h.picture - 1, handed, 1, film.route, missing)
          BY <1>1, <1>9, CoreParts DEF NothingMissing
        <5> QED BY <5>1, <3>2, <2>3, <1>1, <1>9 DEF Whole
      <4>3. {v[i].picture : i \in DOMAIN v} \subseteq {v2[i].picture : i \in DOMAIN v2}
        <5>1. \A i \in DOMAIN v : i \in DOMAIN v2 /\ v2[i] = v[i]
          BY <1>3, <1>4
        <5> QED BY <5>1
      <4>4. v2[1] = v[1] /\ Last(v2) = h /\ v[1].picture \in Nat /\ Last(v).picture \in Nat
        BY <3>2, <1>4, <1>6, <1>8, <1>10
      <4>5. \A x \in v[1].picture .. h.picture :
               x \in v[1].picture .. Last(v).picture \/ x \in Last(v).picture + 1 .. h.picture - 1 \/ x = h.picture
        BY <4>4, <1>11
      <4> QED BY <4>1, <4>2, <4>3, <4>4, <4>5, <3>0
    <3> QED BY <3>1, <3>2
  <2> SUFFICES /\ film'.config /\ film'.route.packets[1].key
               /\ \A i \in 2 .. Len(film'.route.packets) :
                    film'.route.packets[i - 1].picture < film'.route.packets[i].picture
               /\ ~film'.route.again =>
                    film'.route.packets[1].picture .. Last(film'.route.packets).picture
                      \subseteq {film'.route.packets[i].picture : i \in DOMAIN film'.route.packets} \cup missing.lost
    BY DEF VideoCanBeDecoded, Video, OneSession
  <2>4. film'.route.packets = v2 /\ film'.config = film.config /\ film'.route.again = film.route.again
    BY <1>2
  <2>5. film'.config /\ film'.route.packets[1].key
    BY <2>1, <2>4
  <2>6. \A i \in 2 .. Len(film'.route.packets) :
          film'.route.packets[i - 1].picture < film'.route.packets[i].picture
    BY <2>2, <2>4
  <2>7. ~film'.route.again =>
          film'.route.packets[1].picture .. Last(film'.route.packets).picture
            \subseteq {film'.route.packets[i].picture : i \in DOMAIN film'.route.packets} \cup missing.lost
    <3> SUFFICES ASSUME ~film.route.again
                 PROVE  film'.route.packets[1].picture .. Last(film'.route.packets).picture
                          \subseteq {film'.route.packets[i].picture : i \in DOMAIN film'.route.packets}
                                       \cup missing.lost
      BY <2>4
    <3> QED BY <2>3, <2>4
  <2> QED BY <2>5, <2>6, <2>7
<1>13. RoutesKeepToTheirSession'
  <2> SUFFICES ASSUME ~film.route.again, NEW k \in DOMAIN v2
               PROVE  v2[k].session \in {film.route.session, 0} \/ v2[k].picture \in missing.late
    BY <1>2 DEF RoutesKeepToTheirSession, Video, OneSession
  <2>1. CASE k \in 1 .. Len(v)
    BY <2>1, <1>1, <1>4, CoreParts DEF RoutesKeepToTheirSession, Video, OneSession
  <2>2. CASE k = Len(v) + 1
    <3>1. h.session = 0 \/ h.picture \in missing.late \/ Follows(handed, 1, h.session, film.route)
      BY <1>1, <1>9, CoreParts DEF HandedInv, QueuedUpTo
    <3>2. Follows(handed, 1, h.session, film.route) => film.route.session = h.session
      BY <1>5, <1>9 DEF Follows
    <3> QED BY <3>1, <3>2, <2>2, <1>3
  <2>3. k \in 1 .. Len(v) \/ k = Len(v) + 1
    BY <1>3, <1>4
  <2> QED BY <2>1, <2>2, <2>3
<1>14. /\ film'.route.packets # <<>> /\ Last(film'.route.packets) = handed[1] /\ film'.route.session # 0
  BY <1>1, <1>2, <1>5, <1>6
<1>15. \A k \in DOMAIN film'.route.packets :
         \/ \E l \in DOMAIN film.route.packets : film.route.packets[l] = film'.route.packets[k]
         \/ film'.route.packets[k] = handed[1]
  <2>1. film'.route.packets = v2 /\ v = film.route.packets /\ h = handed[1]
    BY <1>1, <1>2
  <2> TAKE k \in DOMAIN film'.route.packets
  <2>2. k \in DOMAIN v2
    BY <2>1
  <2>3. (\E l \in DOMAIN v : v[l] = v2[k]) \/ v2[k] = h
    BY <2>2, <1>7
  <2> QED BY <2>1, <2>3
<1> QED BY <1>2, <1>12, <1>13, <1>14, <1>15

LEMMA WorkerWritesKeeps == ASSUME SwitchCore, WorkerWrites PROVE SwitchCore'
<1>1. /\ handed # <<>> /\ handed' = Tail(handed) /\ handed[1].kind = "picture" /\ Head(handed) = handed[1]
      /\ handed \in Seq(Items) /\ handed[1] \in Items /\ 1 \in DOMAIN handed /\ handed[1].kind # "enable"
      /\ UNCHANGED <<setting, coder, starts>>
  BY TakesHead DEF WorkerWrites
<1>2. CASE Takes(film.route, handed[1]) /\ film' = [film EXCEPT !.route.packets = Append(@, handed[1])]
           /\ UNCHANGED <<recorder, missing>>
  <2>1. /\ film' \in [config : BOOLEAN, route : [session : Nat, packets : Seq(Items), again : BOOLEAN]]
        /\ film'.route.session = film.route.session /\ film'.route.again = film.route.again
        /\ film'.route.session # 0 /\ film'.route.packets # <<>> /\ Last(film'.route.packets) = handed[1]
        /\ \A k \in DOMAIN film'.route.packets :
             \/ \E l \in DOMAIN film.route.packets : film.route.packets[l] = film'.route.packets[k]
             \/ film'.route.packets[k] = handed[1]
        /\ VideoCanBeDecoded' /\ RoutesKeepToTheirSession'
    BY <1>1, <1>2, TakenPicture
  <2>2. recorder' = recorder /\ missing' = missing
    BY <1>2
  <2> QED BY <2>1, <2>2, <1>1, WorkerKeeps, CoreParts, FilmIs
<1>3. CASE ~Takes(film.route, handed[1]) /\ film' = film /\ UNCHANGED <<recorder, missing>>
  <2>1. film.route.packets = <<>>
    BY <1>3, FilmIs DEF Takes
  <2>2. VideoCanBeDecoded' /\ RoutesKeepToTheirSession'
    BY <1>3, CoreParts, FilmStays
  <2>3. DOMAIN film'.route.packets = {} /\ film'.route.packets = <<>> /\ film' = film /\ recorder' = recorder
        /\ missing' = missing
    BY <2>1, <1>3
  <2> QED BY <2>2, <2>3, <1>1, WorkerKeeps, CoreParts, FilmIs
<1>4. CASE WorkerSwitchesOff /\ film' = [film EXCEPT !.route = NoRoute]
  <2>1. /\ recorder' \in [pc : {"starts", "runs", "joins"}, known : Nat, warmed : BOOLEAN, requested : BOOLEAN]
        /\ recorder'.pc = recorder.pc /\ ~recorder'.requested
        /\ missing' \in [late : SUBSET Nat, lost : SUBSET Nat]
        /\ missing.late \subseteq missing'.late /\ missing'.lost = missing.lost
        /\ {coder.held[i].number : i \in DOMAIN coder.held} \subseteq missing'.late
    BY <1>4, WorkerSwitchesOffIs
  <2>2. /\ film' \in [config : BOOLEAN, route : [session : Nat, packets : Seq(Items), again : BOOLEAN]]
        /\ film'.route = NoRoute
    BY <1>4, FilmIs
  <2>3. film'.route.packets = <<>> /\ film'.route.session = 0 /\ DOMAIN film'.route.packets = {}
    BY <2>2, FilmIs
  <2>4. VideoCanBeDecoded' /\ RoutesKeepToTheirSession'
    BY <2>2, ClosedRoute
  <2> QED BY <2>1, <2>2, <2>3, <2>4, <1>1, WorkerKeeps
<1> QED BY <1>1, <1>2, <1>3, <1>4 DEF WorkerWrites

LEMMA SwitchStarts == SwitchInit => SwitchCore
<1> SUFFICES ASSUME SwitchInit PROVE SwitchCore
  OBVIOUS
<1>1. SwitchTypes
  BY SwitchConstants DEF SwitchInit, SwitchTypes, NewRecorder, NewCoder, NoRevision, NoRoute, Complete
<1>2. LeftEncoder = 0 /\ coder.held = <<>> /\ ~recorder.requested /\ coder = NewCoder
  BY DEF SwitchInit, LeftEncoder, NewCoder, NewRecorder
<1>3. EncoderInv
  BY <1>2 DEF EncoderInv
<1>4. handed = <<>> /\ Pictures(handed) = {} /\ DOMAIN handed = {}
  BY DEF SwitchInit, Pictures
<1>5. HandedInv /\ NothingMissing
  BY <1>2, <1>4 DEF HandedInv, NothingMissing, QueuedUpTo
<1>6. FilmInv /\ VideoCanBeDecoded /\ RoutesKeepToTheirSession
  BY DEF SwitchInit, FilmInv, VideoCanBeDecoded, RoutesKeepToTheirSession, Video, NoRoute
<1> QED BY <1>1, <1>3, <1>5, <1>6 DEF SwitchCore

LEMMA SwitchRests == ASSUME SwitchCore, UNCHANGED switchVars PROVE SwitchCore'
<1>1. UNCHANGED <<setting, recorder, coder, handed, film, starts, missing>>
  BY DEF switchVars
<1>2. SwitchTypes'
  BY <1>1, CoreParts DEF SwitchTypes
<1>3. recorder'.pc = "starts" => coder' = NewCoder /\ ~recorder'.requested
  BY <1>1, CoreParts DEF EncoderInv
<1> QED BY <1>1, <1>2, <1>3, QuietKeeps DEF SwitchCore

LEMMA SwitchGoesOn == ASSUME SwitchCore, [SwitchNext]_switchVars PROVE SwitchCore'
BY SettingChangesKeeps, OpenEncoderKeeps, PictureIsCodedKeeps, SubmitPictureKeeps, DrainPacketsKeeps,
   PollSettingKeeps, SettingIsUnreadableKeeps, StopRecorderKeeps, RecorderRestartsKeeps, WorkerStartsKeeps,
   WorkerEndsKeeps, WorkerConfiguresKeeps, WorkerWritesKeeps, SwitchRests DEF SwitchNext

-----------------------------------------------------------------------------
(* The factor of the torque estimator and its file.                        *)

(* A message leaves the key and a sane factor: the filter moves towards a  *)
(* fit that is held near the key, and both ends are.                       *)
LEMMA MessageIsSane ==
  ASSUME NEW t, IsEstimator(t), t.key \in Factors, t.factor \in t.key - Sanity .. t.key + Sanity,
         NEW msg \in Messages(t)
  PROVE  /\ IsEstimator(msg.after) /\ msg.after.key = t.key
         /\ msg.after.factor \in t.key - Sanity .. t.key + Sanity
<1>0. t.key \in Int /\ Sanity \in Int
  BY CacheAssumption
<1>1. CASE ~Valid(t.rings)
  BY <1>1 DEF Messages
<1>2. CASE Valid(t.rings)
  <2>1. CASE msg = [valid |-> FALSE, after |-> [t EXCEPT !.rings = NoPoints]]
    <3>1. msg.after = [t EXCEPT !.rings = NoPoints]
      BY <2>1
    <3>2. [t EXCEPT !.rings = NoPoints]
            = [rings |-> NoPoints, factor |-> t.factor, key |-> t.key, frame |-> t.frame]
      <4>1. PICK a, b, c, d : t = [rings |-> a, factor |-> b, key |-> c, frame |-> d]
        BY DEF IsEstimator
      <4> QED BY <4>1
    <3> QED BY <3>1, <3>2 DEF IsEstimator
  <2>2. CASE \E fit \in Fits : \E factor \in Filtered(t.factor, Near(fit, t.key)) :
               msg = [valid |-> TRUE, after |-> [t EXCEPT !.factor = factor]]
    <3>0. PICK fit \in Fits : \E factor \in Filtered(t.factor, Near(fit, t.key)) :
            msg = [valid |-> TRUE, after |-> [t EXCEPT !.factor = factor]]
      BY <2>2
    <3>1. PICK factor \in Filtered(t.factor, Near(fit, t.key)) :
            msg = [valid |-> TRUE, after |-> [t EXCEPT !.factor = factor]]
      BY <3>0
    <3>2. Near(fit, t.key) \in t.key - Sanity .. t.key + Sanity
      BY <1>0, CacheAssumption DEF Near
    <3>3. factor \in t.key - Sanity .. t.key + Sanity
      BY <1>0, <3>2 DEF Filtered
    <3> QED BY <3>1, <3>3 DEF IsEstimator
  <2> QED BY <1>2, <2>1, <2>2 DEF Messages
<1> QED BY <1>1, <1>2

LEMMA CacheStarts == CacheInit => CacheInv
BY CacheAssumption DEF CacheInit, CacheInv, Fresh, IsEstimator, FactorIsSane, NoCache

LEMMA TickIsSane == ASSUME CacheInv, TorqueTick PROVE CacheInv'
<1>1. PICK t \in Pointed(torque) :
        \E published \in IF t.frame % PublishEvery = 0 THEN Messages(t)
                         ELSE {[valid |-> FALSE, after |-> t]} :
          IF t.frame # 0
          THEN /\ torque' = [published.after EXCEPT !.frame = (@ + 1) % PersistEvery]
               /\ UNCHANGED <<torque_file, torque_saved>>
          ELSE \E kept \in Messages(published.after) :
               /\ torque' = [kept.after EXCEPT !.frame = (@ + 1) % PersistEvery]
               /\ torque_file' = Serialized(kept.after, kept.valid)
               /\ torque_saved' = Points(kept.after.rings)
  BY DEF TorqueTick
<1>2. IsEstimator(t) /\ t.key = torque.key /\ t.factor = torque.factor
  <2>1. IsEstimator(torque)
    BY DEF CacheInv
  <2> QED BY <2>1 DEF Pointed, IsEstimator
<1>3. t.key \in Factors /\ t.factor \in t.key - Sanity .. t.key + Sanity
  BY <1>2 DEF CacheInv, FactorIsSane
<1> DEFINE Sane(e) == /\ IsEstimator(e) /\ e.key \in Factors
                      /\ e.factor \in e.key - Sanity .. e.key + Sanity
<1>4. PICK published \in IF t.frame % PublishEvery = 0 THEN Messages(t)
                         ELSE {[valid |-> FALSE, after |-> t]} :
          IF t.frame # 0
          THEN /\ torque' = [published.after EXCEPT !.frame = (@ + 1) % PersistEvery]
               /\ UNCHANGED <<torque_file, torque_saved>>
          ELSE \E kept \in Messages(published.after) :
               /\ torque' = [kept.after EXCEPT !.frame = (@ + 1) % PersistEvery]
               /\ torque_file' = Serialized(kept.after, kept.valid)
               /\ torque_saved' = Points(kept.after.rings)
  BY <1>1
<1>5. Sane(published.after)
  <2>1. CASE published \in Messages(t)
    BY <2>1, <1>2, <1>3, MessageIsSane
  <2>2. CASE published = [valid |-> FALSE, after |-> t]
    BY <2>2, <1>2, <1>3
  <2> QED BY <1>4, <2>1, <2>2
<1>6. ASSUME NEW e, Sane(e), torque' = [e EXCEPT !.frame = (@ + 1) % PersistEvery]
      PROVE  IsEstimator(torque') /\ torque'.key \in Factors /\ FactorIsSane'
  BY <1>6 DEF IsEstimator, FactorIsSane
<1>7. CASE t.frame # 0
  BY <1>4, <1>5, <1>6, <1>7 DEF CacheInv
<1>8. CASE t.frame = 0
  <2>1. PICK kept \in Messages(published.after) :
          /\ torque' = [kept.after EXCEPT !.frame = (@ + 1) % PersistEvery]
          /\ torque_file' = Serialized(kept.after, kept.valid)
    BY <1>4, <1>8
  <2>2. Sane(kept.after)
    BY <1>5, MessageIsSane
  <2>3. IsEstimator(torque') /\ torque'.key \in Factors /\ FactorIsSane'
    BY <1>6, <2>1, <2>2
  <2> HIDE DEF Sane
  <2>4. torque_file'.key = kept.after.key /\ torque_file'.factor = kept.after.factor
    BY <2>1 DEF Serialized
  <2>5. kept.after.key \in Factors
        /\ kept.after.factor \in kept.after.key - Sanity .. kept.after.key + Sanity
    BY <2>2 DEF Sane
  <2> QED BY <2>3, <2>4, <2>5 DEF CacheInv
<1> QED BY <1>7, <1>8

LEMMA RestartIsSane == ASSUME CacheInv, TorqueRestart PROVE CacheInv'
<1>1. PICK key \in Factors :
        /\ torque' = IF torque_file.is = "whole" /\ KeyMatches(torque_file, key)
                     THEN Restored(torque_file, key) ELSE Fresh(key)
        /\ torque_file' = IF torque_file.is = "corrupt" THEN NoCache ELSE torque_file
  BY DEF TorqueRestart
<1>2. key \in Int /\ Sanity \in Nat
  BY CacheAssumption
<1>3. IsEstimator(torque') /\ torque'.key \in Factors /\ FactorIsSane'
  <2>1. CASE torque' = Fresh(key)
    BY <2>1, <1>2 DEF Fresh, IsEstimator, FactorIsSane
  <2>2. CASE torque_file.is = "whole" /\ torque_file.key = key /\ torque' = Restored(torque_file, key)
    BY <2>2, <1>2 DEF Restored, IsEstimator, FactorIsSane, CacheInv
  <2> QED BY <1>1, <2>1, <2>2 DEF KeyMatches
<1> QED BY <1>1, <1>3 DEF CacheInv, NoCache

LEMMA CacheGoesOn == ASSUME CacheInv, [CacheNext]_cacheVars PROVE CacheInv'
<1>1. CASE FileSpoilt
  BY <1>1 DEF FileSpoilt, CacheInv, FactorIsSane, NoCache
<1>2. CASE UNCHANGED cacheVars
  BY <1>2 DEF cacheVars, CacheInv, FactorIsSane
<1> QED BY <1>1, <1>2, TickIsSane, RestartIsSane DEF CacheNext

-----------------------------------------------------------------------------
(* The composed module: one component moves, the others keep their state.  *)

LEMMA RecordingGoesOn == ASSUME RecInv, [RecNext]_recVars PROVE RecInv'
BY SetEnabledKeeps, SendKeeps, CloseKeeps, JoinedKeeps, WorkKeeps, MoveKeeps, CrashKeeps, StutterKeeps DEF RecNext

LEMMA StorageStarts == StorageInit => StorageInv
BY RecordingStarts, SwitchStarts, SwitchCoreIs, CacheStarts DEF StorageInit, StorageInv

LEMMA StorageMoves == ASSUME StorageInv, [StorageNext]_storageVars PROVE StorageInv'
<1>1. RecInv /\ SwitchCore
  BY SwitchCoreIs DEF StorageInv
<1>2. [RecNext]_recVars /\ [SwitchNext]_switchVars /\ [CacheNext]_cacheVars
  BY DEF StorageNext, RecordingMoves, SwitchMoves, LogMoves, CacheMoves, storageVars
<1>3. RecInv'
  BY <1>1, <1>2, RecordingGoesOn
<1>4. SwitchCore'
  BY <1>1, <1>2, SwitchGoesOn
<1>5. SwitchCore' => SwitchInv'
  BY SwitchCoreIs, PTL
<1>6. CacheInv'
  BY <1>2, CacheGoesOn DEF StorageInv
<1> QED BY <1>3, <1>4, <1>5, <1>6 DEF StorageInv

(* In every state: what is queued, written, closed and waiting to be moved *)
(* accounts for all that was sent (RecInv), what the encoder and the queue *)
(* hold accounts for all pictures of a session (SwitchInv), and a stored   *)
(* factor is near its key (CacheInv).                                      *)
THEOREM StorageInvariant == StorageSpec => []StorageInv
<1>1. StorageInit => StorageInv
  BY StorageStarts
<1>2. StorageInv /\ [StorageNext]_storageVars => StorageInv'
  BY StorageMoves
<1> QED BY <1>1, <1>2, PTL DEF StorageSpec

(* The types of the recorder, with a queue that stays within its bound and *)
(* the writes that may not be dropped.                                     *)
THEOREM RecordingTypes == StorageSpec => []RecTypeOK
<1>1. StorageInv => RecTypeOK
  BY RecInvSaves DEF StorageInv
<1> QED BY <1>1, StorageInvariant, PTL

(* Files once closed survive worker, mover and crashes, a route holds one  *)
(* session, close() saves what was recorded, and a session has its own     *)
(* pictures, from a key picture to its end.                                *)
THEOREM StorageSavesRecordings == StorageSpec => []RecordingsAreSaved
<1>1. StorageInv => RecordingsAreSaved
  BY RecInvSaves DEF StorageInv, SwitchInv, RecordingsAreSaved
<1> QED BY <1>1, StorageInvariant, PTL

(* The factor that steers is near the one of the parameters in force,      *)
(* whatever was fitted, stored, spoilt and restored.                       *)
THEOREM StorageFactorIsSane == StorageSpec => []FactorIsSane
<1>1. StorageInv => FactorIsSane
  BY DEF StorageInv, CacheInv
<1> QED BY <1>1, StorageInvariant, PTL

=============================================================================
