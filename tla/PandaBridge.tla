---------------------------- MODULE PandaBridge ----------------------------
(***************************************************************************)
(* pandad (k230_pandad.cc) with its USB client (panda_client.cc): the loop *)
(* that connects to Panda and sets its safety model, collects what the car *)
(* sends into batches for the `can` queue, and is the last gate for what   *)
(* controlsd puts into `sendcan`.                                          *)
(*                                                                         *)
(* Panda, the USB stack and time do what they like: any transfer may fail, *)
(* be cut short or find the device gone, and pandad may die anywhere.      *)
(* A batch to send is Units pieces of bytes; a transfer moves some of      *)
(* them.  The queues keep their promise (CanFifo), `due` of a receive      *)
(* batch below its limit is a free choice, and so is whether 0.5 s or 1 s  *)
(* of the heartbeat, the health report and the log have passed.  The log   *)
(* queues are left out: nothing depends on whether they took a batch; a    *)
(* batch to send holds at least one frame Panda takes.                     *)
(***************************************************************************)
EXTENDS Naturals, Sequences

CONSTANTS
  TxEnabled,     \* K230_PANDA_TX
  MaxAge,        \* kMaxSendCanAgeNs
  Units,         \* size of a packed batch
  SoftLimit,     \* kUsbTxSoftLimit
  Retries,       \* kUsbBulkWriteRetries
  MaxMalformed,  \* kMaxConsecutiveMalformedRx
  BatchFrames,   \* kK230CanBatchMaxFrames
  QueueSlots,    \* kK230CanQueueSlots
  MaxReceived,   \* bound: frames one receive brings
  MaxFrames,     \* bound: frames of one connection
  MaxCommands,   \* bound: batches of controlsd
  MaxConnections \* bound: connections made

ASSUME BridgeAssumption ==
  /\ TxEnabled \in BOOLEAN
  /\ MaxAge \in Nat /\ Units \in Nat \ {0} /\ SoftLimit \in Nat \ {0} /\ Retries \in Nat
  /\ MaxMalformed \in Nat \ {0} /\ BatchFrames \in Nat \ {0} /\ QueueSlots \in Nat \ {0}
  /\ MaxReceived \in Nat /\ MaxFrames \in Nat /\ MaxCommands \in Nat /\ MaxConnections \in Nat

VARIABLES
  pc,                        \* place in the loop of main()
  conn, healthy, malformed,  \* PandaClient: the open connection (0: none),
                             \* comms_healthy_, consecutive_malformed_rx_
  frames, dropped,           \* RxBatcher
  sendcan, made,             \* the queue from controlsd; batches put into it
  tx, pos, total, attempt,   \* send() and bulk_write(): the batch, their progress
  state,                     \* K230PandaState as published last
  connections, confirmed,    \* history: connections made, the last one whose
                             \* safety model Panda confirmed
  got, can, wire             \* history: frames received on this connection, the
                             \* batch published last, pieces sent

usb == <<conn, healthy, malformed>>
rx == <<frames, dropped>>
commands == <<sendcan, made>>
sending == <<tx, pos, total, attempt>>
links == <<connections, confirmed>>
bridgeVars == <<pc, usb, rx, commands, sending, state, links, got, can, wire>>

Least(a, b) == IF a <= b THEN a ELSE b
Older(age) == IF age <= MaxAge THEN age + 1 ELSE age

NoBatch == [n |-> 0, age |-> 0]
NoFrames == [frames |-> << >>, dropped |-> 0, after |-> 0]
Disconnected == [connected |-> FALSE, healthy |-> FALSE, allowed |-> FALSE, conn |-> 0]

BridgeInit ==
  /\ pc = "top"
  /\ conn = 0 /\ healthy = TRUE /\ malformed = 0
  /\ frames = << >> /\ dropped = 0
  /\ sendcan = << >> /\ made = 0
  /\ tx = NoBatch /\ pos = 0 /\ total = 0 /\ attempt = 0
  /\ state = Disconnected
  /\ connections = 0 /\ confirmed = 0
  /\ got = 0 /\ can = NoFrames /\ wire = << >>

-----------------------------------------------------------------------------
(* USB transfers *)

(* close() *)
Closed == conn' = 0 /\ healthy' = TRUE /\ UNCHANGED malformed

(* mark_usb_error(): a device that is gone is closed. *)
UsbError ==
  /\ conn' \in {conn, 0}
  /\ healthy' = FALSE
  /\ UNCHANGED malformed

(* A control transfer; without a device it returns at once. *)
ControlTransfer == UNCHANGED usb \/ (conn # 0 /\ UsbError)

-----------------------------------------------------------------------------
(* main(): connecting *)

ReportNothing ==
  /\ pc = "top" /\ conn = 0
  /\ pc' = "connect"
  /\ UNCHANGED <<usb, rx, commands, sending, state, links, got, can, wire>>

(* Without a connection the loop says so before it looks for Panda. *)
ReportDisconnected ==
  /\ pc = "top" /\ conn = 0
  /\ state' = Disconnected
  /\ pc' = "connect"
  /\ UNCHANGED <<usb, rx, commands, sending, links, got, can, wire>>

ConnectFails ==
  /\ pc = "connect"
  /\ Closed
  /\ pc' = "top"
  /\ UNCHANGED <<rx, commands, sending, state, links, got, can, wire>>

Connect ==
  /\ pc = "connect"
  /\ connections < MaxConnections
  /\ connections' = connections + 1
  /\ conn' = connections' /\ healthy' = TRUE /\ malformed' = 0
  /\ got' = 0
  /\ pc' = "configure"
  /\ UNCHANGED <<rx, commands, sending, state, confirmed, can, wire>>

(* The safety model is set and read back, and the batcher starts afresh. *)
Configure ==
  /\ pc = "configure"
  /\ confirmed' = conn
  /\ frames' = << >> /\ dropped' = 0
  /\ pc' = "top"
  /\ UNCHANGED <<usb, commands, sending, state, connections, got, can, wire>>

(* Any transfer fails, or Panda reports another safety model. *)
ConfigureFailsOpen ==
  /\ pc = "configure"
  /\ pc' = "top"
  /\ UNCHANGED <<usb, rx, commands, sending, state, links, got, can, wire>>

ConfigureFails ==
  /\ pc = "configure"
  /\ Closed
  /\ pc' = "top"
  /\ UNCHANGED <<rx, commands, sending, state, links, got, can, wire>>

-----------------------------------------------------------------------------
(* service_rx() *)

Receiving == pc = "top" /\ conn # 0

ReceiveFrames ==
  /\ Receiving
  /\ \E k \in 0 .. MaxReceived :
       /\ got + k <= MaxFrames
       /\ got' = got + k
       /\ frames' = frames \o [i \in 1 .. k |-> [conn |-> conn, n |-> got + i]]
  /\ malformed' = 0
  /\ healthy' \in {healthy, FALSE}   \* FALSE: LIBUSB_ERROR_OVERFLOW
  /\ pc' = "publish"
  /\ UNCHANGED <<conn, dropped, commands, sending, state, links, can, wire>>

ReceiveNothing ==
  /\ Receiving /\ healthy
  /\ pc' = "publish"
  /\ UNCHANGED <<usb, rx, commands, sending, state, links, got, can, wire>>

ReceiveMalformedForever ==
  /\ Receiving
  /\ malformed' = malformed + 1
  /\ healthy' \in {healthy, FALSE}
  /\ pc' = "publish"
  /\ UNCHANGED <<conn, rx, commands, sending, state, links, got, can, wire>>

(* A buffer that cannot be parsed is dropped, a few times. *)
ReceiveMalformed ==
  /\ Receiving
  /\ malformed + 1 < MaxMalformed
  /\ malformed' = malformed + 1
  /\ healthy' \in {healthy, FALSE}
  /\ pc' = "publish"
  /\ UNCHANGED <<conn, rx, commands, sending, state, links, got, can, wire>>

(* The transfer failed, the limit of bad buffers is reached, or nothing    *)
(* came and an earlier transfer had failed: the connection is given up.    *)
ReceiveFails ==
  /\ Receiving
  /\ conn' = 0 /\ healthy' = TRUE
  /\ malformed' \in {malformed} \cup (IF malformed + 1 >= MaxMalformed THEN {malformed + 1} ELSE {})
  /\ frames' = << >> /\ dropped' = 0
  /\ UNCHANGED <<pc, commands, sending, state, links, got, can, wire>>

(* The last frame published before a batch of connection c. *)
PublishedUpTo(c) ==
  IF can.frames # << >> /\ can.frames[1].conn = c THEN can.frames[Len(can.frames)].n ELSE 0

Excess == IF Len(frames) > BatchFrames THEN Len(frames) - BatchFrames ELSE 0

Published(counted) ==
  can' = [frames |-> SubSeq(frames, Excess + 1, Len(frames)), dropped |-> counted,
          after |-> PublishedUpTo(frames[1].conn)]

(* RxBatcher::publish(): the newest BatchFrames frames. *)
PublishBatch ==
  /\ pc = "publish" /\ frames # << >>
  /\ Published(dropped + Excess)
  /\ frames' = << >> /\ dropped' = 0
  /\ pc' = "tx"
  /\ UNCHANGED <<usb, commands, sending, state, links, got, wire>>

PublishLater ==
  /\ pc = "publish" /\ Len(frames) < BatchFrames
  /\ pc' = "tx"
  /\ UNCHANGED <<usb, rx, commands, sending, state, links, got, can, wire>>

-----------------------------------------------------------------------------
(* service_tx() *)

TxEmpty ==
  /\ pc = "tx" /\ sendcan = << >>
  /\ pc' = "beat"
  /\ UNCHANGED <<usb, rx, commands, sending, state, links, got, can, wire>>

(* Too old, or the gate is shut. *)
TxDrop ==
  /\ pc = "tx" /\ sendcan # << >>
  /\ Head(sendcan).age > MaxAge \/ ~TxEnabled
  /\ sendcan' = Tail(sendcan)
  /\ UNCHANGED <<pc, usb, rx, made, sending, state, links, got, can, wire>>

TxTake ==
  /\ pc = "tx" /\ sendcan # << >>
  /\ Head(sendcan).age <= MaxAge /\ TxEnabled
  /\ tx' = Head(sendcan) /\ pos' = 0 /\ total' = 0 /\ attempt' = 0
  /\ sendcan' = Tail(sendcan)
  /\ pc' = "send"
  /\ UNCHANGED <<usb, rx, made, state, links, got, can, wire>>

Pieces(from, t) == [i \in 1 .. t |-> [conn |-> conn, n |-> tx.n, unit |-> from + i]]
Chunk == Least(SoftLimit, Units - pos)

Moved(t) == wire' = wire \o Pieces(pos + total, t)

(* What bulk_write() returns ends a chunk; nothing, or an error, the batch. *)
SendEnds == pc' = "tx" /\ pos' = 0 /\ total' = 0 /\ attempt' = 0
SendGoesOn(sent) ==
  IF sent = 0 \/ pos + sent = Units THEN SendEnds
  ELSE pos' = pos + sent /\ total' = 0 /\ attempt' = 0 /\ UNCHANGED pc

TransferredFromStart(t) ==
  IF total + t = Chunk \/ attempt = Retries THEN SendGoesOn(total + t)
  ELSE total' = total /\ attempt' = attempt + 1 /\ UNCHANGED <<pos, pc>>

(* One attempt ended with t pieces moved and another one allowed. *)
Transferred(t) ==
  IF total + t = Chunk \/ attempt = Retries THEN SendGoesOn(total + t)
  ELSE total' = total + t /\ attempt' = attempt + 1 /\ UNCHANGED <<pos, pc>>

(* One libusb_bulk_transfer() of bulk_write(). *)
Transfer ==
  /\ pc = "send" /\ conn # 0
  /\ \E t \in 0 .. Chunk - total :
       /\ Moved(t)
       /\ \/ t > 0 /\ Transferred(t) /\ UNCHANGED usb           \* no error
          \/ t = 0 /\ SendEnds /\ healthy' = FALSE /\ UNCHANGED <<conn, malformed>>
          \/ SendGoesOn(total + t) /\ UNCHANGED usb             \* LIBUSB_ERROR_TIMEOUT
          \/ /\ attempt < Retries /\ total + t < Chunk          \* worth another try
             /\ Transferred(t) /\ UNCHANGED usb
          \/ SendEnds /\ UsbError
  /\ UNCHANGED <<rx, commands, tx, state, links, got, can>>

(* The device went away during an earlier batch. *)
SendNowhere ==
  /\ pc = "send" /\ conn = 0
  /\ SendEnds
  /\ UNCHANGED <<usb, rx, commands, tx, state, links, got, can, wire>>

-----------------------------------------------------------------------------
(* main(): heartbeat, health report and log, each when its time has come *)

Heartbeat ==
  /\ pc = "beat"
  /\ ControlTransfer
  /\ pc' = "health"
  /\ UNCHANGED <<rx, commands, sending, state, links, got, can, wire>>

NoHealthYet ==
  /\ pc = "health"
  /\ pc' = "log"
  /\ UNCHANGED <<usb, rx, commands, sending, state, links, got, can, wire>>

(* publish_health(): the flags are read before Panda is asked. *)
PublishHealth ==
  /\ pc = "health"
  /\ \/ /\ conn # 0 /\ UNCHANGED usb
        /\ \E allowed \in BOOLEAN :
             state' = [connected |-> TRUE, healthy |-> healthy, allowed |-> allowed, conn |-> conn]
     \/ /\ ControlTransfer
        /\ state' = [connected |-> conn # 0, healthy |-> healthy, allowed |-> FALSE, conn |-> conn]
  /\ pc' = "log"
  /\ UNCHANGED <<rx, commands, sending, links, got, can, wire>>

LogStats ==
  /\ pc = "log"
  /\ ControlTransfer
  /\ pc' = "top"
  /\ UNCHANGED <<rx, commands, sending, state, links, got, can, wire>>

Turn ==
  \/ ReportDisconnected \/ ConnectFails \/ Connect \/ Configure \/ ConfigureFails
  \/ ReceiveFrames \/ ReceiveNothing \/ ReceiveMalformed \/ ReceiveFails
  \/ PublishBatch \/ PublishLater
  \/ TxEmpty \/ TxDrop \/ TxTake \/ Transfer \/ SendNowhere
  \/ Heartbeat \/ NoHealthYet \/ PublishHealth \/ LogStats

-----------------------------------------------------------------------------
(* The others *)

Command ==
  /\ made < MaxCommands /\ Len(sendcan) < QueueSlots
  /\ made' = made + 1
  /\ sendcan' = Append(sendcan, [n |-> made', age |-> 0])
  /\ UNCHANGED <<pc, usb, rx, sending, state, links, got, can, wire>>

(* controlsd starts again and resets its queue. *)
ControlRestart ==
  /\ sendcan' = << >>
  /\ UNCHANGED <<pc, usb, rx, made, sending, state, links, got, can, wire>>

ElapseBridge ==
  /\ sendcan' = [i \in DOMAIN sendcan |-> [sendcan[i] EXCEPT !.age = Older(sendcan[i].age)]]
  /\ UNCHANGED <<pc, usb, rx, made, sending, state, links, got, can, wire>>

(* pandad dies; the new one leaves sendcan as it is. *)
BridgeCrash ==
  /\ pc' = "top"
  /\ conn' = 0 /\ healthy' = TRUE /\ malformed' = 0
  /\ frames' = << >> /\ dropped' = 0
  /\ tx' = NoBatch /\ pos' = 0 /\ total' = 0 /\ attempt' = 0
  /\ UNCHANGED <<commands, state, links, got, can, wire>>

BridgeNext == Turn \/ Command \/ ControlRestart \/ ElapseBridge \/ BridgeCrash

BridgeSpec == BridgeInit /\ [][BridgeNext]_bridgeVars

(* The loop of pandad goes on. *)
BridgeFairSpec == BridgeSpec /\ WF_bridgeVars(Turn)

-----------------------------------------------------------------------------
(* Properties *)

Frame == [conn : 1 .. MaxConnections, n : 1 .. MaxFrames]
Piece == [conn : 1 .. MaxConnections, n : 1 .. MaxCommands, unit : 1 .. Units]
Batch == [n : 0 .. MaxCommands, age : 0 .. MaxAge + 1]

BridgeTypeOK ==
  /\ pc \in {"top", "connect", "configure", "publish", "tx", "send", "beat", "health", "log"}
  /\ conn \in 0 .. MaxConnections /\ healthy \in BOOLEAN /\ malformed \in 0 .. MaxMalformed
  /\ frames \in Seq(Frame) /\ dropped \in Nat
  /\ sendcan \in Seq(Batch) /\ made \in 0 .. MaxCommands
  /\ tx \in Batch /\ pos \in 0 .. Units /\ total \in 0 .. Units /\ attempt \in 0 .. Retries
  /\ state \in [connected : BOOLEAN, healthy : BOOLEAN, allowed : BOOLEAN,
                conn : 0 .. MaxConnections]
  /\ connections \in 0 .. MaxConnections /\ confirmed \in 0 .. MaxConnections
  /\ got \in 0 .. MaxFrames
  /\ can.frames \in Seq(Frame) /\ can.dropped \in Nat /\ can.after \in 0 .. MaxFrames
  /\ wire \in Seq(Piece)

(* Nothing reaches the car, and no consent of Panda is reported, over a    *)
(* connection whose safety model Panda has not confirmed, however          *)
(* connections fail and come back.                                         *)
OnlyConfirmed ==
  [][wire' # wire \/ (state' # state /\ state'.connected) =>
       conn # 0 /\ conn = confirmed]_bridgeVars

(* Commands reach the car in the order controlsd gave them, no byte twice  *)
(* and none left out in the middle of a batch: a batch is on the wire as   *)
(* far as it got on one connection, through retries, cut transfers, lost   *)
(* connections and deaths of either process.                               *)
Follows(p, q) ==
  IF p.n = q.n THEN p.conn = q.conn /\ q.unit = p.unit + 1
  ELSE p.n < q.n /\ q.unit = 1

WireInOrder ==
  /\ wire # << >> => wire[1].unit = 1
  /\ \A i \in 1 .. Len(wire) - 1 : Follows(wire[i], wire[i + 1])

(* The frames of a batch for controlsd come from one connection and follow *)
(* each other, and those missing before them are the ones `dropped` says.  *)
Consecutive(batch) ==
  \A i \in 1 .. Len(batch) - 1 :
    batch[i + 1].conn = batch[i].conn /\ batch[i + 1].n = batch[i].n + 1

BatchesAccountForFrames ==
  can.frames # << >> =>
    /\ Len(can.frames) <= BatchFrames
    /\ Consecutive(can.frames)
    /\ can.frames[1].n = can.after + can.dropped + 1

(* The open connection is the newest one; away from its configuration, it  *)
(* is the one Panda confirmed.                                             *)
LinkInv ==
  /\ conn # 0 => conn = connections
  /\ conn # 0 /\ pc # "configure" => conn = confirmed
  /\ pc \in {"configure", "publish"} => conn # 0
  /\ conn # 0 => malformed < MaxMalformed

(* What RxBatcher holds follows what was published on this connection.     *)
FramesInv ==
  /\ dropped = 0
  /\ can.frames # << >> => can.frames[1].conn <= connections
  /\ conn # 0 => got = PublishedUpTo(conn) + (IF pc = "configure" THEN 0 ELSE Len(frames))
  /\ conn # 0 /\ pc # "configure" =>
       \A i \in 1 .. Len(frames) : frames[i].conn = conn /\ frames[i].n = PublishedUpTo(conn) + i
  /\ BatchesAccountForFrames

(* Batches in sendcan are newer than the one being sent, and that one is   *)
(* on the wire as far as bulk_write() has got.                             *)
Waiting(n) == \A i \in 1 .. Len(sendcan) : n < sendcan[i].n

LastPieceKnown ==
  wire # << >> =>
    /\ wire[Len(wire)].n <= made
    /\ Waiting(wire[Len(wire)].n)
    /\ pc = "send" =>
         IF pos + total = 0 THEN wire[Len(wire)].n < tx.n
         ELSE wire[Len(wire)] = [conn |-> conn, n |-> tx.n, unit |-> pos + total]

WireInv ==
  /\ \A i \in 1 .. Len(sendcan) : sendcan[i].n \in 1 .. made
  /\ \A i \in 1 .. Len(sendcan) : \A j \in i + 1 .. Len(sendcan) : sendcan[i].n < sendcan[j].n
  /\ pc = "send" => tx.n \in 1 .. made /\ Waiting(tx.n) /\ pos + total < Units
  /\ pc = "send" /\ wire = << >> => pos + total = 0
  /\ LastPieceKnown
  /\ WireInOrder

BridgeInv == BridgeTypeOK /\ LinkInv /\ FramesInv /\ WireInv

(* A lost connection is reported, or replaced, as long as pandad runs: a   *)
(* snapshot that says connected does not stay behind.                      *)
LossIsReported == (state.connected /\ conn = 0) ~> (~state.connected \/ conn # 0)

=============================================================================
