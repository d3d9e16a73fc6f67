--------------------------- MODULE DevicesProofs ---------------------------
(***************************************************************************)
(* Proofs about Devices and the modules it composes, for every size, limit *)
(* and bound.  The bridge sends and reports nothing over a connection that *)
(* is not confirmed, accounts for the frames it received and keeps the     *)
(* batches for the car in order; the calibration the model's input uses    *)
(* and the one that is stored are valid ones; and what the network is      *)
(* given of the past is of one frame.                                      *)
(***************************************************************************)
EXTENDS Devices, SequenceTheorems, FiniteSetTheorems, WellFoundedInduction, TLAPS

-----------------------------------------------------------------------------
(* PandaBridge: types *)

LEMMA TypeInitially == BridgeInit => BridgeTypeOK
  BY BridgeAssumption DEF BridgeInit, BridgeTypeOK, Disconnected, NoBatch, NoFrames, Batch

LEMMA ErrorTyped ==
  ASSUME BridgeTypeOK, Closed \/ UsbError \/ ControlTransfer
  PROVE  /\ conn' \in {conn, 0} /\ conn' \in 0 .. MaxConnections
         /\ healthy' \in BOOLEAN /\ malformed' = malformed
<1>1. conn' \in {conn, 0} /\ malformed' = malformed
  BY DEF Closed, UsbError, ControlTransfer, usb
<1>2. healthy' \in BOOLEAN
  BY Zenon DEF BridgeTypeOK, Closed, UsbError, ControlTransfer, usb
<1>3. conn \in 0 .. MaxConnections /\ 0 \in 0 .. MaxConnections
  BY BridgeAssumption DEF BridgeTypeOK
<1> QED BY <1>1, <1>2, <1>3

(* A transfer of bulk_write() stays within its chunk, and the chunk within *)
(* what is left of the batch.                                              *)
LEMMA ChunkFits ==
  ASSUME BridgeTypeOK, pc = "send", pos + total < Units
  PROVE  /\ Chunk \in Nat /\ pos + Chunk <= Units
         /\ pos \in Nat /\ total \in Nat /\ attempt \in Nat /\ Units \in Nat
  BY BridgeAssumption DEF BridgeTypeOK, Chunk, Least

LEMMA TailTyped ==
  ASSUME BridgeTypeOK, sendcan # << >>
  PROVE  /\ Head(sendcan) = sendcan[1] /\ sendcan[1] \in Batch
         /\ Tail(sendcan) \in Seq(Batch) /\ Len(Tail(sendcan)) = Len(sendcan) - 1
         /\ Len(sendcan) \in Nat \ {0}
         /\ \A i \in 1 .. Len(Tail(sendcan)) : Tail(sendcan)[i] = sendcan[i + 1]
  BY HeadTailProperties DEF BridgeTypeOK

LEMMA FramesReceived ==
  ASSUME BridgeTypeOK, conn # 0, NEW k \in 0 .. MaxReceived, got + k <= MaxFrames
  PROVE  LET new == [i \in 1 .. k |-> [conn |-> conn, n |-> got + i]] IN
         /\ frames \o new \in Seq(Frame)
         /\ Len(frames \o new) = Len(frames) + k
         /\ \A i \in 1 .. Len(frames) + k :
              (frames \o new)[i] = IF i <= Len(frames) THEN frames[i]
                                   ELSE [conn |-> conn, n |-> got + (i - Len(frames))]
<1> DEFINE new == [i \in 1 .. k |-> [conn |-> conn, n |-> got + i]]
<1>1. k \in Nat /\ got \in Nat /\ conn \in 1 .. MaxConnections /\ frames \in Seq(Frame)
      /\ MaxFrames \in Nat
  BY BridgeAssumption DEF BridgeTypeOK
<1>2. \A i \in 1 .. k : [conn |-> conn, n |-> got + i] \in Frame
  BY <1>1 DEF Frame
<1>3. new \in Seq(Frame) /\ Len(new) = k
  BY <1>1, <1>2
<1>4. \A i \in 1 .. k : new[i] = [conn |-> conn, n |-> got + i]
  OBVIOUS
<1> HIDE DEF new
<1>5. /\ frames \o new \in Seq(Frame)
      /\ Len(frames \o new) = Len(frames) + k
      /\ \A i \in 1 .. Len(frames) + k :
           (frames \o new)[i] = IF i <= Len(frames) THEN frames[i] ELSE new[i - Len(frames)]
  BY <1>1, <1>3, ConcatProperties
<1>6. Len(frames) \in Nat
  BY <1>1
<1>7. \A i \in 1 .. Len(frames) + k : i > Len(frames) => i - Len(frames) \in 1 .. k
  BY <1>1, <1>6
<1> QED BY <1>4, <1>5, <1>6, <1>7 DEF new

(* The newest BatchFrames frames. *)
LEMMA BatchTaken ==
  ASSUME BridgeTypeOK, frames # << >>
  PROVE  LET newest == SubSeq(frames, Excess + 1, Len(frames)) IN
         /\ Len(frames) \in Nat \ {0} /\ Excess \in 0 .. Len(frames) - 1
         /\ newest \in Seq(Frame) /\ Len(newest) = Len(frames) - Excess /\ Len(newest) <= BatchFrames
         /\ newest # << >>
         /\ \A i \in 1 .. Len(newest) : newest[i] = frames[Excess + i]
<1> DEFINE newest == SubSeq(frames, Excess + 1, Len(frames))
<1>1. Len(frames) \in Nat \ {0} /\ frames \in Seq(Frame)
  BY DEF BridgeTypeOK
<1>2. Excess \in 0 .. Len(frames) - 1 /\ Len(frames) - Excess <= BatchFrames
  BY <1>1, BridgeAssumption DEF Excess
<1>3. \A i \in Excess + 1 .. Len(frames) : frames[i] \in Frame
  BY <1>1, <1>2, ElementOfSeq
<1>4. /\ newest \in Seq(Frame) /\ Len(newest) = Len(frames) - Excess
      /\ \A i \in 1 .. Len(frames) - Excess : newest[i] = frames[Excess + 1 + i - 1]
  <2>1. Excess + 1 \in Int /\ Len(frames) \in Int /\ Excess + 1 <= Len(frames)
        /\ Len(frames) - (Excess + 1) + 1 = Len(frames) - Excess
    BY <1>1, <1>2
  <2>2. newest \in Seq(Frame)
    BY <1>3, <2>1, SubSeqProperties
  <2>3. Len(newest) = Len(frames) - (Excess + 1) + 1
    BY <1>3, <2>1, SubSeqProperties
  <2>4. \A i \in 1 .. Len(frames) - (Excess + 1) + 1 : newest[i] = frames[Excess + 1 + i - 1]
    BY <1>3, <2>1, SubSeqProperties
  <2> QED BY <2>1, <2>2, <2>3, <2>4
<1> HIDE DEF newest
<1>5. \A i \in 1 .. Len(newest) : newest[i] = frames[Excess + i]
  <2>1. ASSUME NEW i \in 1 .. Len(newest) PROVE newest[i] = frames[Excess + i]
    <3>1. i \in 1 .. Len(frames) - Excess /\ Excess + 1 + i - 1 = Excess + i
      BY <1>1, <1>2, <1>4
    <3> QED BY <1>4, <3>1
  <2> QED BY <2>1
<1>6. Len(newest) <= BatchFrames /\ newest # << >>
  <2>1. Len(newest) >= 1
    BY <1>1, <1>2, <1>4
  <2> QED BY <1>2, <1>4, <2>1, EmptySeq
<1> QED BY <1>1, <1>2, <1>4, <1>5, <1>6 DEF newest
LEMMA TypeKept == BridgeInv /\ [BridgeNext]_bridgeVars => BridgeTypeOK'
<1> SUFFICES ASSUME BridgeInv, [BridgeNext]_bridgeVars PROVE BridgeTypeOK'
  OBVIOUS
<1> USE BridgeAssumption DEF BridgeInv, usb, rx, commands, sending, links
<1>1. CASE ReportDisconnected
  BY <1>1 DEF BridgeTypeOK, ReportDisconnected, Disconnected
<1>2. CASE ConnectFails \/ ConfigureFails
  BY <1>2, ErrorTyped DEF BridgeTypeOK, ConnectFails, ConfigureFails
<1>3. CASE Connect
  BY <1>3 DEF BridgeTypeOK, Connect
<1>4. CASE Configure
  BY <1>4 DEF BridgeTypeOK, Configure
<1>5. CASE ReceiveFrames
  <2>1. PICK k \in 0 .. MaxReceived :
          /\ got + k <= MaxFrames /\ got' = got + k
          /\ frames' = frames \o [i \in 1 .. k |-> [conn |-> conn, n |-> got + i]]
    BY <1>5 DEF ReceiveFrames
  <2>2. conn # 0
    BY <1>5 DEF ReceiveFrames, Receiving
  <2>3. frames' \in Seq(Frame)
    BY <2>1, <2>2, FramesReceived
  <2>4. got' \in 0 .. MaxFrames
    BY <2>1 DEF BridgeTypeOK
  <2>5. healthy' \in BOOLEAN
    BY <1>5, Zenon DEF BridgeTypeOK, ReceiveFrames
  <2>6. /\ malformed' = 0 /\ pc' = "publish"
        /\ UNCHANGED <<conn, dropped, sendcan, made, tx, pos, total, attempt, state,
                       connections, confirmed, can, wire>>
    BY <1>5 DEF ReceiveFrames
  <2> QED BY <2>3, <2>4, <2>5, <2>6 DEF BridgeTypeOK
<1>6. CASE ReceiveNothing \/ PublishLater \/ NoHealthYet
  BY <1>6 DEF BridgeTypeOK, ReceiveNothing, PublishLater, NoHealthYet
<1>7. CASE ReceiveMalformed
  <2>1. healthy' \in BOOLEAN
    BY <1>7, Zenon DEF BridgeTypeOK, ReceiveMalformed
  <2> QED BY <1>7, <2>1 DEF BridgeTypeOK, ReceiveMalformed
<1>8. CASE ReceiveFails
  <2>1. malformed' \in 0 .. MaxMalformed
    BY <1>8 DEF BridgeTypeOK, LinkInv, ReceiveFails, Receiving
  <2> QED BY <1>8, <2>1 DEF BridgeTypeOK, ReceiveFails
<1>9. CASE PublishBatch
  <2> DEFINE newest == SubSeq(frames, Excess + 1, Len(frames))
  <2>0. frames # << >> /\ can' = [frames |-> newest, dropped |-> dropped + Excess,
                                 after |-> PublishedUpTo(frames[1].conn)]
    BY <1>9 DEF PublishBatch, Published
  <2>4. newest \in Seq(Frame) /\ Excess \in Nat
    BY <2>0, BatchTaken
  <2> HIDE DEF newest
  <2>1. can'.frames \in Seq(Frame)
    BY <2>0, <2>4
  <2>2. can'.dropped \in Nat
    BY <2>0, <2>4 DEF BridgeTypeOK
  <2>3. can'.after \in 0 .. MaxFrames
    <3>1. \A c : PublishedUpTo(c) \in 0 .. MaxFrames
      <4>1. can.frames # << >> => can.frames[Len(can.frames)] \in Frame
        BY DEF BridgeTypeOK
      <4> QED BY <4>1 DEF PublishedUpTo, Frame
    <3> QED BY <2>0, <3>1
  <2> QED BY <1>9, <2>1, <2>2, <2>3 DEF BridgeTypeOK, PublishBatch
<1>10. CASE TxEmpty
  BY <1>10 DEF BridgeTypeOK, TxEmpty
<1>11. CASE TxDrop
  BY <1>11, TailTyped DEF BridgeTypeOK, TxDrop
<1>12. CASE TxTake
  BY <1>12, TailTyped DEF BridgeTypeOK, TxTake
<1>13. CASE Transfer
  <2>1. pos + total < Units /\ pc = "send" /\ conn # 0
    BY <1>13 DEF Transfer, WireInv
  <2>2. PICK t \in 0 .. Chunk - total :
          /\ Moved(t)
          /\ \/ Transferred(t) \/ SendEnds \/ SendGoesOn(total + t)
    BY <1>13 DEF Transfer
  <2>3. t \in Nat /\ pos + total + t <= Units /\ total + t \in 0 .. Units
    BY <2>1, ChunkFits
  <2>4. /\ pos' \in 0 .. Units /\ total' \in 0 .. Units /\ attempt' \in 0 .. Retries
        /\ pc' \in {"tx", "send"}
    <3>1. CASE SendEnds
      BY <3>1 DEF SendEnds
    <3>2. CASE SendGoesOn(total + t)
      BY <2>1, <2>3, <3>2, ChunkFits DEF SendGoesOn, SendEnds
    <3>3. CASE Transferred(t)
      <4>1. CASE SendGoesOn(total + t)
        BY <2>1, <2>3, <4>1, ChunkFits DEF SendGoesOn, SendEnds
      <4>2. CASE /\ attempt # Retries
                 /\ total' = total + t /\ attempt' = attempt + 1 /\ UNCHANGED <<pos, pc>>
        BY <2>1, <2>3, <4>2 DEF BridgeTypeOK
      <4> QED BY <3>3, <4>1, <4>2 DEF Transferred
    <3> QED BY <2>2, <3>1, <3>2, <3>3
  <2>5. wire' \in Seq(Piece)
    <3>1. tx.n \in 1 .. MaxCommands /\ conn \in 1 .. MaxConnections
      BY <2>1 DEF WireInv, BridgeTypeOK
    <3>2. \A i \in 1 .. t : pos + total + i \in 1 .. Units
      BY <2>1, <2>3, ChunkFits
    <3>3. \A i \in 1 .. t : [conn |-> conn, n |-> tx.n, unit |-> pos + total + i] \in Piece
      BY <3>1, <3>2 DEF Piece
    <3>4. Pieces(pos + total, t) \in Seq(Piece)
      BY <2>3, <3>3 DEF Pieces
    <3> QED BY <2>2, <3>4, ConcatProperties DEF Moved, BridgeTypeOK
  <2>6. UNCHANGED usb \/ (healthy' = FALSE /\ UNCHANGED <<conn, malformed>>) \/ UsbError
    BY <1>13 DEF Transfer
  <2>7. conn' \in 0 .. MaxConnections /\ malformed' \in 0 .. MaxMalformed
    BY <2>6, ErrorTyped DEF BridgeTypeOK
  <2>8. healthy' \in BOOLEAN
    BY <2>6, Zenon DEF BridgeTypeOK, UsbError
  <2> QED BY <1>13, <2>4, <2>5, <2>7, <2>8 DEF BridgeTypeOK, Transfer
<1>14. CASE SendNowhere
  BY <1>14 DEF BridgeTypeOK, SendNowhere, SendEnds
<1>15. CASE Heartbeat \/ LogStats
  BY <1>15, ErrorTyped DEF BridgeTypeOK, Heartbeat, LogStats
<1>16. CASE PublishHealth
  <2>1. conn' \in 0 .. MaxConnections /\ healthy' \in BOOLEAN /\ malformed' = malformed
    <3>1. CASE UNCHANGED usb
      BY <3>1 DEF BridgeTypeOK
    <3>2. CASE ControlTransfer
      BY <3>2, ErrorTyped
    <3> QED BY <1>16, <3>1, <3>2 DEF PublishHealth
  <2>2. state' \in [connected : BOOLEAN, healthy : BOOLEAN, allowed : BOOLEAN, conn : 0 .. MaxConnections]
    <3>1. CASE \E allowed \in BOOLEAN :
                state' = [connected |-> TRUE, healthy |-> healthy, allowed |-> allowed, conn |-> conn]
      BY <3>1 DEF BridgeTypeOK
    <3>2. CASE state' = [connected |-> conn # 0, healthy |-> healthy, allowed |-> FALSE, conn |-> conn]
      BY <3>2 DEF BridgeTypeOK
    <3> QED BY <1>16, <3>1, <3>2 DEF PublishHealth
  <2> QED BY <1>16, <2>1, <2>2 DEF BridgeTypeOK, PublishHealth
<1>17. CASE Command
  <2>1. [n |-> made', age |-> 0] \in Batch /\ made' \in 0 .. MaxCommands
    BY <1>17 DEF Command, BridgeTypeOK, Batch
  <2> QED BY <1>17, <2>1, AppendProperties DEF BridgeTypeOK, Command
<1>18. CASE ControlRestart
  BY <1>18 DEF BridgeTypeOK, ControlRestart
<1>19. CASE ElapseBridge
  <2>1. \A i \in DOMAIN sendcan : [sendcan[i] EXCEPT !.age = Older(sendcan[i].age)] \in Batch
    <3>1. ASSUME NEW i \in DOMAIN sendcan
          PROVE  [sendcan[i] EXCEPT !.age = Older(sendcan[i].age)] \in Batch
      <4>1. sendcan[i] \in Batch
        BY DEF BridgeTypeOK
      <4>2. Older(sendcan[i].age) \in 0 .. MaxAge + 1
        BY <4>1 DEF Batch, Older
      <4> QED BY <4>1, <4>2 DEF Batch
    <3> QED BY <3>1
  <2>2. sendcan' \in Seq(Batch)
    <3>1. Len(sendcan) \in Nat /\ DOMAIN sendcan = 1 .. Len(sendcan)
      BY DEF BridgeTypeOK
    <3>2. sendcan' = [i \in 1 .. Len(sendcan) |-> [sendcan[i] EXCEPT !.age = Older(sendcan[i].age)]]
      BY <1>19, <3>1 DEF ElapseBridge
    <3> QED BY <2>1, <3>1, <3>2
  <2> QED BY <1>19, <2>2 DEF BridgeTypeOK, ElapseBridge
<1>20. CASE BridgeCrash
  BY <1>20 DEF BridgeTypeOK, BridgeCrash, NoBatch, Batch
<1>21. CASE UNCHANGED bridgeVars
  BY <1>21 DEF BridgeTypeOK, bridgeVars
<1> QED
  BY <1>1, <1>2, <1>3, <1>4, <1>5, <1>6, <1>7, <1>8, <1>9, <1>10, <1>11, <1>12, <1>13, <1>14,
     <1>15, <1>16, <1>17, <1>18, <1>19, <1>20, <1>21 DEF BridgeNext, Turn

-----------------------------------------------------------------------------
(* Connections *)

(* Once a connection is up, only its configuration confirms it, and only   *)
(* losing it ends it.                                                      *)
LEMMA LinkKept == BridgeInv /\ [BridgeNext]_bridgeVars => LinkInv'
<1> SUFFICES ASSUME BridgeInv, [BridgeNext]_bridgeVars PROVE LinkInv'
  OBVIOUS
<1> USE BridgeAssumption DEF BridgeInv, LinkInv, usb, links
<1>1. CASE ReportDisconnected \/ TxEmpty \/ TxDrop \/ TxTake \/ PublishLater \/ NoHealthYet
  BY <1>1 DEF ReportDisconnected, TxEmpty, TxDrop, TxTake, PublishLater, NoHealthYet
<1>2. CASE ConnectFails \/ ConfigureFails \/ BridgeCrash \/ ReceiveFails
  BY <1>2 DEF ConnectFails, ConfigureFails, BridgeCrash, ReceiveFails, Receiving, Closed
<1>3. CASE Connect
  BY <1>3 DEF Connect, BridgeTypeOK
<1>4. CASE Configure
  BY <1>4 DEF Configure
<1>5. CASE ReceiveFrames \/ ReceiveNothing \/ ReceiveMalformed
  <2>1. conn # 0 /\ pc = "top" /\ pc' = "publish" /\ UNCHANGED <<conn, connections, confirmed>>
    BY <1>5 DEF ReceiveFrames, ReceiveNothing, ReceiveMalformed, Receiving
  <2>2. malformed' < MaxMalformed
    <3>1. malformed \in Nat /\ malformed < MaxMalformed
      BY <2>1 DEF BridgeTypeOK
    <3>2. malformed' \in {0, malformed} \/ malformed' < MaxMalformed
      BY <1>5, <3>1 DEF ReceiveFrames, ReceiveNothing, ReceiveMalformed
    <3> QED BY <3>1, <3>2
  <2> QED BY <2>1, <2>2
<1>6. CASE PublishBatch
  BY <1>6 DEF PublishBatch
<1>7. CASE Transfer
  <2>1. conn' \in {conn, 0} /\ malformed' = malformed /\ UNCHANGED <<connections, confirmed>>
    BY <1>7 DEF Transfer, UsbError
  <2>2. pc = "send" /\ pc' \in {"tx", "send"}
    BY <1>7 DEF Transfer, SendEnds, SendGoesOn, Transferred
  <2> QED BY <2>1, <2>2
<1>8. CASE SendNowhere
  BY <1>8 DEF SendNowhere, SendEnds
<1>9. CASE Heartbeat \/ PublishHealth \/ LogStats
  <2>1. conn' \in {conn, 0} /\ malformed' = malformed /\ UNCHANGED <<connections, confirmed>>
    BY <1>9 DEF Heartbeat, PublishHealth, LogStats, ControlTransfer, UsbError
  <2>2. pc \in {"beat", "health", "log"} /\ pc' \in {"health", "log", "top"}
    BY <1>9 DEF Heartbeat, PublishHealth, LogStats
  <2> QED BY <2>1, <2>2
<1>10. CASE Command \/ ControlRestart \/ ElapseBridge
  BY <1>10 DEF Command, ControlRestart, ElapseBridge
<1>11. CASE UNCHANGED bridgeVars
  BY <1>11 DEF bridgeVars
<1> QED
  BY <1>1, <1>2, <1>3, <1>4, <1>5, <1>6, <1>7, <1>8, <1>9, <1>10, <1>11 DEF BridgeNext, Turn

-----------------------------------------------------------------------------
(* Frames received *)

(* Steps that leave the batcher and what it published alone, and do not    *)
(* bring a new connection into use.                                        *)
LEMMA FramesUntouched ==
  ASSUME BridgeInv, UNCHANGED <<frames, dropped, got, can, connections>>,
         conn' \in {conn, 0}, conn' # 0 => (pc = "configure" <=> pc' = "configure")
  PROVE  FramesInv'
<1> USE DEF BridgeInv, FramesInv
<1>1. \A c : PublishedUpTo(c)' = PublishedUpTo(c)
  BY DEF PublishedUpTo
<1>2. BatchesAccountForFrames'
  BY DEF BatchesAccountForFrames, Consecutive
<1>3. CASE conn' = 0
  BY <1>2, <1>3
<1>4. CASE conn' = conn /\ conn # 0
  BY <1>1, <1>2, <1>4 DEF PublishedUpTo
<1> QED BY <1>3, <1>4

LEMMA FramesKept == BridgeInv /\ [BridgeNext]_bridgeVars => FramesInv'
<1> SUFFICES ASSUME BridgeInv, [BridgeNext]_bridgeVars PROVE FramesInv'
  OBVIOUS
<1> USE BridgeAssumption DEF BridgeInv, usb, rx, links
<1>1. CASE ReportDisconnected \/ TxEmpty \/ TxDrop \/ TxTake \/ PublishLater \/ NoHealthYet
           \/ ConnectFails \/ ConfigureFails \/ ReceiveNothing \/ ReceiveMalformed
  <2>1. UNCHANGED <<frames, dropped, got, can, connections>>
    BY <1>1 DEF ReportDisconnected, TxEmpty, TxDrop, TxTake, PublishLater, NoHealthYet,
       ConnectFails, ConfigureFails, ReceiveNothing, ReceiveMalformed
  <2>2. conn' \in {conn, 0}
    BY <1>1 DEF ReportDisconnected, TxEmpty, TxDrop, TxTake, PublishLater, NoHealthYet,
       ConnectFails, ConfigureFails, ReceiveNothing, ReceiveMalformed, Closed
  <2>3. conn' # 0 => pc # "configure" /\ pc' # "configure"
    BY <1>1, <2>2 DEF ReportDisconnected, TxEmpty, TxDrop, TxTake, PublishLater, NoHealthYet,
       ConnectFails, ConfigureFails, ReceiveNothing, ReceiveMalformed, Receiving, Closed
  <2> QED BY <2>1, <2>2, <2>3, FramesUntouched
<1>2. CASE Transfer \/ SendNowhere \/ Heartbeat \/ PublishHealth \/ LogStats
  <2>1. UNCHANGED <<frames, dropped, got, can, connections>>
    BY <1>2 DEF Transfer, SendNowhere, Heartbeat, PublishHealth, LogStats
  <2>2. conn' \in {conn, 0}
    BY <1>2 DEF Transfer, SendNowhere, Heartbeat, PublishHealth, LogStats, ControlTransfer, UsbError
  <2>3. pc # "configure" /\ pc' # "configure"
    BY <1>2 DEF Transfer, SendNowhere, Heartbeat, PublishHealth, LogStats,
       SendEnds, SendGoesOn, Transferred
  <2> QED BY <2>1, <2>2, <2>3, FramesUntouched
<1>3. CASE Command \/ ControlRestart \/ ElapseBridge
  BY <1>3, FramesUntouched DEF Command, ControlRestart, ElapseBridge
<1>4. CASE UNCHANGED bridgeVars
  BY <1>4, FramesUntouched DEF bridgeVars
<1>5. CASE Connect
  <2>1. conn' = connections + 1 /\ connections' = connections + 1 /\ connections \in Nat
    BY <1>5 DEF Connect, BridgeTypeOK
  <2>2. UNCHANGED <<frames, dropped, can>> /\ got' = 0 /\ pc' = "configure"
    BY <1>5 DEF Connect
  <2>3. can.frames # << >> => can.frames[1].conn \in Nat /\ can.frames[1].conn <= connections
    <3>1. can.frames # << >> => can.frames[1] \in Frame
      BY DEF BridgeTypeOK
    <3> QED BY <3>1 DEF Frame, FramesInv
  <2>4. PublishedUpTo(conn)' = 0
    BY <2>1, <2>2, <2>3 DEF PublishedUpTo
  <2>5. BatchesAccountForFrames'
    BY <2>2 DEF FramesInv, BatchesAccountForFrames, Consecutive
  <2>6. can'.frames # << >> => can'.frames[1].conn <= connections'
    BY <2>1, <2>2, <2>3
  <2> QED BY <2>2, <2>4, <2>5, <2>6 DEF FramesInv
<1>6. CASE ReceiveFails \/ BridgeCrash
  <2>1. conn' = 0 /\ dropped' = 0 /\ UNCHANGED <<can, connections>>
    BY <1>6 DEF ReceiveFails, BridgeCrash
  <2>2. BatchesAccountForFrames'
    BY <2>1 DEF FramesInv, BatchesAccountForFrames, Consecutive
  <2> QED BY <2>1, <2>2 DEF FramesInv
<1>7. CASE Configure
  <2>1. /\ pc = "configure" /\ pc' = "top" /\ frames' = << >> /\ dropped' = 0
        /\ UNCHANGED <<conn, got, can, connections>>
    BY <1>7 DEF Configure
  <2>2. BatchesAccountForFrames'
    BY <2>1 DEF FramesInv, BatchesAccountForFrames, Consecutive
  <2>3. PublishedUpTo(conn)' = PublishedUpTo(conn)
    BY <2>1 DEF PublishedUpTo
  <2> QED BY <2>1, <2>2, <2>3 DEF FramesInv, BridgeTypeOK
<1>8. CASE ReceiveFrames
  <2>1. PICK k \in 0 .. MaxReceived :
          /\ got + k <= MaxFrames /\ got' = got + k
          /\ frames' = frames \o [i \in 1 .. k |-> [conn |-> conn, n |-> got + i]]
    BY <1>8 DEF ReceiveFrames
  <2>2. /\ conn # 0 /\ pc = "top" /\ pc' = "publish"
        /\ UNCHANGED <<conn, dropped, can, connections>>
    BY <1>8 DEF ReceiveFrames, Receiving
  <2>3. PublishedUpTo(conn)' = PublishedUpTo(conn)
    BY <2>2 DEF PublishedUpTo
  <2>4. /\ Len(frames') = Len(frames) + k
        /\ \A i \in 1 .. Len(frames) + k :
             frames'[i] = IF i <= Len(frames) THEN frames[i]
                          ELSE [conn |-> conn, n |-> got + (i - Len(frames))]
    BY <2>1, <2>2, FramesReceived
  <2>5. Len(frames) \in Nat /\ got \in Nat /\ k \in Nat
    BY DEF BridgeTypeOK
  <2>6. got = PublishedUpTo(conn) + Len(frames)
    BY <2>2 DEF FramesInv
  <2>7. PublishedUpTo(conn) \in Nat
    <3>1. can.frames # << >> => can.frames[Len(can.frames)] \in Frame
      BY DEF BridgeTypeOK
    <3> QED BY <3>1 DEF PublishedUpTo, Frame
  <2>8. got' = PublishedUpTo(conn)' + Len(frames')
    BY <2>1, <2>3, <2>4, <2>5, <2>6, <2>7
  <2>9. ASSUME NEW i \in 1 .. Len(frames')
        PROVE  frames'[i].conn = conn /\ frames'[i].n = PublishedUpTo(conn) + i
    <3>1. CASE i <= Len(frames)
      <4>1. i \in 1 .. Len(frames) /\ frames'[i] = frames[i]
        BY <2>4, <2>5, <3>1
      <4> QED BY <2>2, <4>1 DEF FramesInv
    <3>2. CASE i > Len(frames)
      <4>1. got + (i - Len(frames)) = PublishedUpTo(conn) + i
        BY <2>4, <2>5, <2>6, <2>7
      <4>2. frames'[i] = [conn |-> conn, n |-> got + (i - Len(frames))]
        BY <2>4, <2>5, <3>2
      <4> QED BY <4>1, <4>2
    <3> QED BY <2>5, <3>1, <3>2
  <2>10. BatchesAccountForFrames'
    BY <2>2 DEF FramesInv, BatchesAccountForFrames, Consecutive
  <2> QED BY <2>2, <2>3, <2>8, <2>9, <2>10 DEF FramesInv
<1>9. CASE PublishBatch
  <2> DEFINE newest == SubSeq(frames, Excess + 1, Len(frames))
             before == PublishedUpTo(conn)
  <2>1. /\ pc = "publish" /\ pc' = "tx" /\ frames # << >> /\ frames' = << >> /\ dropped' = 0
        /\ can' = [frames |-> newest, dropped |-> dropped + Excess,
                   after |-> PublishedUpTo(frames[1].conn)]
        /\ UNCHANGED <<conn, got, connections>>
    BY <1>9 DEF PublishBatch, Published
  <2>2. /\ Len(frames) \in Nat \ {0} /\ Excess \in 0 .. Len(frames) - 1
        /\ newest \in Seq(Frame) /\ Len(newest) = Len(frames) - Excess
        /\ Len(newest) <= BatchFrames /\ newest # << >>
        /\ \A i \in 1 .. Len(newest) : newest[i] = frames[Excess + i]
    BY <2>1, BatchTaken
  <2>3. /\ conn # 0 /\ dropped = 0 /\ got = before + Len(frames)
        /\ \A i \in 1 .. Len(frames) : frames[i].conn = conn /\ frames[i].n = before + i
    BY <2>1 DEF LinkInv, FramesInv
  <2>4. before \in Nat
    <3>1. can.frames # << >> => can.frames[Len(can.frames)] \in Frame
      BY DEF BridgeTypeOK
    <3> QED BY <3>1 DEF PublishedUpTo, Frame
  <2> HIDE DEF newest
  <2>5. frames[1].conn = conn
    <3>1. 1 \in 1 .. Len(frames)
      BY <2>2
    <3> QED BY <2>3, <3>1
  <2>6. can' = [frames |-> newest, dropped |-> Excess, after |-> before]
    BY <2>1, <2>2, <2>3, <2>5
  <2> HIDE DEF before
  <2>7. ASSUME NEW i \in 1 .. Len(newest)
        PROVE  newest[i].conn = conn /\ newest[i].n = before + (Excess + i)
    <3>1. Excess + i \in 1 .. Len(frames)
      BY <2>2
    <3> QED BY <2>2, <2>3, <3>1
  <2>8. Len(newest) \in Nat \ {0}
    BY <2>2
  <2>9. PublishedUpTo(conn)' = got
    <3>1. newest[1].conn = conn /\ newest[Len(newest)].n = before + (Excess + Len(newest))
      <4>1. 1 \in 1 .. Len(newest) /\ Len(newest) \in 1 .. Len(newest)
        BY <2>8
      <4> QED BY <2>7, <4>1
    <3>2. before + (Excess + Len(newest)) = got
      BY <2>2, <2>3, <2>4
    <3>3. can'.frames = newest /\ conn' = conn
      BY <2>1, <2>6
    <3> QED BY <2>2, <3>1, <3>2, <3>3 DEF PublishedUpTo
  <2>10. BatchesAccountForFrames'
    <3>1. newest[1].n = before + Excess + 1
      <4>1. 1 \in 1 .. Len(newest) /\ before + (Excess + 1) = before + Excess + 1
        BY <2>2, <2>4, <2>8
      <4> QED BY <2>7, <4>1
    <3>2. ASSUME NEW i \in 1 .. Len(newest) - 1
          PROVE  newest[i + 1].conn = newest[i].conn /\ newest[i + 1].n = newest[i].n + 1
      <4>1. i \in 1 .. Len(newest) /\ i + 1 \in 1 .. Len(newest)
        BY <2>8
      <4>2. before + (Excess + (i + 1)) = before + (Excess + i) + 1
        BY <2>2, <2>4
      <4> QED BY <2>7, <4>1, <4>2
    <3>3. can'.frames = newest /\ can'.dropped = Excess /\ can'.after = before
      BY <2>6
    <3> QED BY <2>2, <3>1, <3>2, <3>3 DEF BatchesAccountForFrames, Consecutive
  <2>11. can'.frames[1].conn <= connections'
    <3>1. conn = connections /\ connections \in Nat
      BY <2>3 DEF LinkInv, BridgeTypeOK
    <3>2. 1 \in 1 .. Len(newest)
      BY <2>8
    <3>3. newest[1].conn = conn
      BY <2>7, <3>2
    <3>4. can'.frames = newest
      BY <2>6
    <3> QED BY <2>1, <3>1, <3>3, <3>4
  <2>12. Len(frames') = 0 /\ got \in Nat
    BY <2>1 DEF BridgeTypeOK
  <2> QED BY <2>1, <2>9, <2>10, <2>11, <2>12 DEF FramesInv
<1> QED
  BY <1>1, <1>2, <1>3, <1>4, <1>5, <1>6, <1>7, <1>8, <1>9 DEF BridgeNext, Turn

-----------------------------------------------------------------------------
(* Commands sent *)

(* A transfer either ends the batch or moves it on, within its size.       *)
LEMMA TransferProgress ==
  ASSUME BridgeInv, Transfer
  PROVE  \E t \in Nat :
           /\ Moved(t)
           /\ pos + total + t <= Units
           /\ \/ pc' = "tx"
              \/ /\ pc' = "send" /\ conn' = conn
                 /\ pos' + total' = pos + total + t /\ pos' + total' < Units
<1> USE DEF BridgeInv
<1>1. pc = "send" /\ pos + total < Units
  BY DEF Transfer, WireInv
<1>2. /\ Chunk \in Nat /\ pos + Chunk <= Units
      /\ pos \in Nat /\ total \in Nat /\ attempt \in Nat /\ Units \in Nat
  BY <1>1, ChunkFits
<1>3. PICK t \in 0 .. Chunk - total :
        /\ Moved(t)
        /\ \/ (Transferred(t) \/ SendGoesOn(total + t)) /\ UNCHANGED usb
           \/ SendEnds
  BY DEF Transfer
<1>4. t \in Nat /\ total + t <= Chunk /\ pos + total + t <= Units
  BY <1>2
<1> HIDE DEF BridgeInv
<1>5. CASE SendEnds
  BY <1>3, <1>4, <1>5 DEF SendEnds
<1>6. CASE SendGoesOn(total + t) /\ UNCHANGED usb
  <2>1. CASE SendEnds
    BY <2>1, <1>5
  <2>2. CASE pos + (total + t) # Units /\ pos' = pos + (total + t) /\ total' = 0 /\ pc' = pc
    <3>1. pos' + total' = pos + total + t /\ pos' + total' < Units
      BY <1>2, <1>4, <2>2
    <3> QED BY <1>1, <1>3, <1>4, <1>6, <2>2, <3>1 DEF usb
  <2> QED BY <1>6, <2>1, <2>2 DEF SendGoesOn
<1>7. CASE /\ total + t # Chunk /\ total' = total + t /\ UNCHANGED <<pos, pc>>
           /\ UNCHANGED usb
  <2>1. pos' + total' = pos + total + t /\ pos' + total' < Units
    BY <1>2, <1>4, <1>7
  <2> QED BY <1>1, <1>3, <1>4, <1>7, <2>1 DEF usb
<1> QED BY <1>3, <1>5, <1>6, <1>7 DEF Transferred

LEMMA PiecesAppended ==
  ASSUME BridgeInv, pc = "send", conn # 0, NEW t \in Nat, Moved(t), pos + total + t <= Units
  PROVE  /\ Len(wire) \in Nat /\ Len(wire') = Len(wire) + t
         /\ \A i \in 1 .. Len(wire) : wire'[i] = wire[i]
         /\ \A i \in 1 .. t :
              wire'[Len(wire) + i] = [conn |-> conn, n |-> tx.n, unit |-> pos + total + i]
<1> USE DEF BridgeInv
<1>1. /\ tx.n \in 1 .. MaxCommands /\ conn \in 1 .. MaxConnections
      /\ pos \in Nat /\ total \in Nat /\ Units \in Nat /\ wire \in Seq(Piece)
  BY BridgeAssumption DEF WireInv, BridgeTypeOK
<1> DEFINE new == [i \in 1 .. t |-> [conn |-> conn, n |-> tx.n, unit |-> pos + total + i]]
<1>2. \A i \in 1 .. t : [conn |-> conn, n |-> tx.n, unit |-> pos + total + i] \in Piece
  BY <1>1 DEF Piece
<1>3. new \in Seq(Piece) /\ Len(new) = t
  BY <1>2
<1>4. \A i \in 1 .. t : new[i] = [conn |-> conn, n |-> tx.n, unit |-> pos + total + i]
  OBVIOUS
<1>5. wire' = wire \o new
  BY DEF Moved, Pieces
<1> HIDE DEF new
<1>6. /\ Len(wire') = Len(wire) + Len(new)
      /\ \A i \in 1 .. Len(wire) + Len(new) :
           wire'[i] = IF i <= Len(wire) THEN wire[i] ELSE new[i - Len(wire)]
  BY <1>1, <1>3, <1>5, ConcatProperties
<1>7. Len(wire) \in Nat
  BY <1>1
<1>8. \A i \in 1 .. Len(wire) : wire'[i] = wire[i]
  BY <1>3, <1>6, <1>7
<1>9. ASSUME NEW i \in 1 .. t
      PROVE  wire'[Len(wire) + i] = [conn |-> conn, n |-> tx.n, unit |-> pos + total + i]
  <2>1. /\ Len(wire) + i \in 1 .. Len(wire) + Len(new) /\ ~(Len(wire) + i <= Len(wire))
        /\ Len(wire) + i - Len(wire) = i
    BY <1>3, <1>7
  <2> QED BY <1>4, <1>6, <2>1
<1> QED BY <1>3, <1>6, <1>7, <1>8, <1>9

(* Steps after which nothing is being sent. *)
LEMMA WireUntouched ==
  ASSUME BridgeInv, UNCHANGED <<sendcan, made, wire>>, pc' # "send"
  PROVE  WireInv'
  BY DEF BridgeInv, WireInv, Waiting, LastPieceKnown, WireInOrder, Follows

LEMMA TransferKeepsOrder == BridgeInv /\ Transfer => WireInv'
<1> SUFFICES ASSUME BridgeInv, Transfer PROVE WireInv'
  OBVIOUS
<1> USE DEF BridgeInv
<1>1. PICK t \in Nat :
        /\ Moved(t)
        /\ pos + total + t <= Units
        /\ \/ pc' = "tx"
           \/ /\ pc' = "send" /\ conn' = conn
              /\ pos' + total' = pos + total + t /\ pos' + total' < Units
  BY TransferProgress
<1>2. /\ pc = "send" /\ conn # 0
      /\ UNCHANGED <<sendcan, made, tx>>
  BY DEF Transfer, commands
<1>3. /\ Len(wire) \in Nat /\ Len(wire') = Len(wire) + t
      /\ \A i \in 1 .. Len(wire) : wire'[i] = wire[i]
      /\ \A i \in 1 .. t :
           wire'[Len(wire) + i] = [conn |-> conn, n |-> tx.n, unit |-> pos + total + i]
  BY <1>1, <1>2, PiecesAppended
<1>4. /\ tx.n \in 1 .. made /\ Waiting(tx.n) /\ pos \in Nat /\ total \in Nat
      /\ made \in Nat /\ wire \in Seq(Piece)
  BY <1>2 DEF WireInv, BridgeTypeOK
<1>5. wire' \in Seq(Piece)
  BY TypeKept DEF BridgeTypeOK, BridgeNext, Turn
<1>6. wire = << >> <=> Len(wire) = 0
  BY <1>4
<1>7. wire' = << >> <=> Len(wire') = 0
  BY <1>5
<1> DEFINE last == wire'[Len(wire')]
<1>8. CASE t = 0
  <2>1. Len(wire') = Len(wire) /\ (wire' = << >> <=> wire = << >>)
    BY <1>3, <1>6, <1>7, <1>8
  <2>2. wire # << >> => Len(wire) \in 1 .. Len(wire)
    BY <1>3, <1>6
  <2>3. wire # << >> => last = wire[Len(wire)]
    BY <1>3, <2>1, <2>2
  <2> HIDE DEF last
  <2>4. pc' = "send" => pos' + total' = pos + total
    BY <1>1, <1>4, <1>8
  <2>5. LastPieceKnown'
    BY <1>1, <1>2, <2>1, <2>3, <2>4 DEF WireInv, LastPieceKnown, Waiting, last
  <2>6. WireInOrder'
    <3>1. wire # << >> => 1 \in 1 .. Len(wire)
      BY <1>3, <1>6
    <3>2. \A i \in 1 .. Len(wire) - 1 : i \in 1 .. Len(wire) /\ i + 1 \in 1 .. Len(wire)
      BY <1>3
    <3> QED BY <1>3, <2>1, <3>1, <3>2 DEF WireInv, WireInOrder, Follows
  <2> QED BY <1>1, <1>2, <2>1, <2>4, <2>5, <2>6 DEF WireInv, Waiting
<1>9. CASE t > 0
  <2>1. wire' # << >> /\ last = [conn |-> conn, n |-> tx.n, unit |-> pos + total + t]
    <3>1. t \in 1 .. t
      BY <1>9
    <3> QED BY <1>3, <1>7, <1>9, <3>1
  <2> HIDE DEF last
  <2>2. last.n = tx.n
    BY <2>1
  <2>3. pc' = "send" => pos' + total' # 0
    BY <1>1, <1>4, <1>9
  <2>4. LastPieceKnown'
    BY <1>1, <1>2, <1>4, <2>1, <2>2, <2>3 DEF LastPieceKnown, Waiting, last
  <2>5. wire'[Len(wire) + 1] = [conn |-> conn, n |-> tx.n, unit |-> pos + total + 1]
    BY <1>3, <1>9
  <2>6. wire'[1].unit = 1
    <3>1. CASE wire = << >>
      <4>1. pos + total = 0 /\ Len(wire) = 0
        BY <1>2, <1>6, <3>1 DEF WireInv
      <4>2. wire'[1] = [conn |-> conn, n |-> tx.n, unit |-> 1]
        BY <2>5, <4>1
      <4> QED BY <4>2
    <3>2. CASE wire # << >>
      <4>1. 1 \in 1 .. Len(wire)
        BY <1>3, <1>6, <3>2
      <4> QED BY <1>3, <3>2, <4>1 DEF WireInv, WireInOrder
    <3> QED BY <3>1, <3>2
  <2>7. ASSUME NEW i \in 1 .. Len(wire') - 1
        PROVE  Follows(wire'[i], wire'[i + 1])
    <3>1. i \in Nat /\ i >= 1 /\ i + 1 <= Len(wire) + t
      BY <1>3
    <3>2. CASE i + 1 <= Len(wire)
      <4>1. i \in 1 .. Len(wire) - 1 /\ i \in 1 .. Len(wire) /\ i + 1 \in 1 .. Len(wire)
        BY <1>3, <3>1, <3>2
      <4> QED BY <1>3, <4>1 DEF WireInv, WireInOrder
    <3>3. CASE i = Len(wire)
      <4>1. wire # << >> /\ i \in 1 .. Len(wire) /\ wire'[i] = wire[Len(wire)]
        BY <1>3, <1>6, <3>1, <3>3
      <4>2. /\ wire'[i + 1].n = tx.n /\ wire'[i + 1].conn = conn
            /\ wire'[i + 1].unit = pos + total + 1
        BY <2>5, <3>3
      <4>3. CASE pos + total = 0
        <5>1. wire'[i].n < tx.n
          BY <1>2, <4>1, <4>3 DEF WireInv, LastPieceKnown
        <5>2. wire[Len(wire)] \in Piece
          BY <1>3, <1>4, <4>1, <3>3
        <5>3. wire'[i].n \in Nat /\ tx.n \in Nat
          BY <1>4, <4>1, <5>2 DEF Piece
        <5> QED BY <4>2, <4>3, <5>1, <5>3 DEF Follows
      <4>4. CASE pos + total # 0
        <5>1. wire'[i] = [conn |-> conn, n |-> tx.n, unit |-> pos + total]
          BY <1>2, <4>1, <4>4 DEF WireInv, LastPieceKnown
        <5>2. wire'[i].n = tx.n /\ wire'[i].conn = conn /\ wire'[i].unit = pos + total
          BY <5>1
        <5> QED BY <4>2, <5>2 DEF Follows
      <4> QED BY <4>3, <4>4
    <3>4. CASE i > Len(wire)
      <4> DEFINE j == i - Len(wire)
      <4>1. /\ j \in 1 .. t /\ j + 1 \in 1 .. t
            /\ Len(wire) + j = i /\ Len(wire) + (j + 1) = i + 1
        BY <1>3, <3>1, <3>4
      <4> HIDE DEF j
      <4>2. /\ wire'[i] = [conn |-> conn, n |-> tx.n, unit |-> pos + total + j]
            /\ wire'[i + 1] = [conn |-> conn, n |-> tx.n, unit |-> pos + total + (j + 1)]
        <5>1. wire'[Len(wire) + j] = [conn |-> conn, n |-> tx.n, unit |-> pos + total + j]
          BY <1>3, <4>1
        <5>2. wire'[Len(wire) + (j + 1)] = [conn |-> conn, n |-> tx.n, unit |-> pos + total + (j + 1)]
          BY <1>3, <4>1
        <5> QED BY <4>1, <5>1, <5>2
      <4>3. pos + total + (j + 1) = pos + total + j + 1
        BY <1>4, <4>1
      <4> QED BY <4>2, <4>3 DEF Follows
    <3> QED BY <1>3, <3>1, <3>2, <3>3, <3>4
  <2>8. WireInOrder'
    BY <2>6, <2>7 DEF WireInOrder, Follows
  <2> QED BY <1>1, <1>2, <1>4, <2>1, <2>4, <2>8 DEF WireInv, Waiting
<1> QED BY <1>8, <1>9

LEMMA WireKept == BridgeInv /\ [BridgeNext]_bridgeVars => WireInv'
<1> SUFFICES ASSUME BridgeInv, [BridgeNext]_bridgeVars PROVE WireInv'
  OBVIOUS
<1> USE DEF BridgeInv, commands, sending
<1>1. CASE ReportDisconnected \/ ConnectFails \/ Connect \/ Configure \/ ConfigureFails
           \/ ReceiveFrames \/ ReceiveNothing \/ ReceiveMalformed
           \/ PublishBatch \/ PublishLater \/ TxEmpty \/ SendNowhere
           \/ Heartbeat \/ NoHealthYet \/ PublishHealth \/ LogStats \/ BridgeCrash
  <2>1. UNCHANGED <<sendcan, made, wire>>
    BY <1>1 DEF ReportDisconnected, ConnectFails, Connect, Configure, ConfigureFails,
       ReceiveFrames, ReceiveNothing, ReceiveMalformed, PublishBatch, PublishLater,
       TxEmpty, SendNowhere, Heartbeat, NoHealthYet, PublishHealth, LogStats, BridgeCrash
  <2>2. pc' # "send"
    BY <1>1 DEF ReportDisconnected, ConnectFails, Connect, Configure, ConfigureFails,
       ReceiveFrames, ReceiveNothing, ReceiveMalformed, PublishBatch, PublishLater,
       TxEmpty, SendNowhere, SendEnds, Heartbeat, NoHealthYet, PublishHealth, LogStats, BridgeCrash
  <2> QED BY <2>1, <2>2, WireUntouched
<1>2. CASE ReceiveFails
  BY <1>2, WireUntouched DEF ReceiveFails, Receiving
<1>3. CASE TxDrop \/ TxTake
  <2>1. /\ sendcan # << >> /\ sendcan' = Tail(sendcan) /\ UNCHANGED <<made, wire>>
        /\ pc' = "send" => tx' = sendcan[1] /\ pos' = 0 /\ total' = 0
    <3>1. pc = "tx" /\ sendcan # << >>
      BY <1>3 DEF TxDrop, TxTake
    <3>2. Head(sendcan) = sendcan[1]
      BY <3>1, TailTyped
    <3> QED BY <1>3, <3>1, <3>2 DEF TxDrop, TxTake
  <2>2. /\ Len(sendcan) \in Nat \ {0} /\ Len(sendcan') = Len(sendcan) - 1
        /\ \A i \in 1 .. Len(sendcan') : sendcan'[i] = sendcan[i + 1]
    BY <2>1, TailTyped
  <2>3. \A i \in 1 .. Len(sendcan') : i + 1 \in 2 .. Len(sendcan) /\ i + 1 \in 1 .. Len(sendcan)
    BY <2>2
  <2>4. \A n : Waiting(n) => Waiting(n)'
    BY <2>2, <2>3 DEF Waiting
  <2>5. \A i \in 1 .. Len(sendcan') : sendcan'[i].n \in 1 .. made'
    BY <2>1, <2>2, <2>3 DEF WireInv
  <2>6. ASSUME NEW i \in 1 .. Len(sendcan'), NEW j \in i + 1 .. Len(sendcan')
        PROVE  sendcan'[i].n < sendcan'[j].n
    <3>1. /\ i + 1 \in 1 .. Len(sendcan) /\ j \in 1 .. Len(sendcan')
          /\ j + 1 \in (i + 1) + 1 .. Len(sendcan)
      BY <2>2
    <3>2. sendcan[i + 1].n < sendcan[j + 1].n
      BY <3>1 DEF WireInv
    <3> QED BY <2>2, <3>1, <3>2
  <2>7. 1 \in 1 .. Len(sendcan) /\ sendcan[1].n \in 1 .. made
    BY <2>2 DEF WireInv
  <2>8. ASSUME NEW i \in 1 .. Len(sendcan') PROVE sendcan[1].n < sendcan'[i].n
    <3>1. i + 1 \in 1 + 1 .. Len(sendcan)
      BY <2>2
    <3>2. sendcan[1].n < sendcan[i + 1].n
      BY <2>7, <3>1 DEF WireInv
    <3> QED BY <2>2, <3>2
  <2>9. pc' = "send" => tx'.n \in 1 .. made' /\ Waiting(tx.n)' /\ pos' + total' = 0
    BY <2>1, <2>7, <2>8 DEF Waiting
  <2>10. Units \in Nat \ {0}
    BY BridgeAssumption
  <2>11. wire # << >> => wire[Len(wire)].n < sendcan[1].n
    BY <2>7 DEF WireInv, LastPieceKnown, Waiting
  <2>12. LastPieceKnown'
    <3> SUFFICES ASSUME wire # << >> PROVE LastPieceKnown'
      BY <2>1 DEF LastPieceKnown
    <3>1. wire[Len(wire)].n <= made /\ Waiting(wire[Len(wire)].n)
      BY DEF WireInv, LastPieceKnown
    <3>2. Waiting(wire[Len(wire)].n)'
      <4>1. wire' = wire
        BY <2>1
      <4> QED BY <2>4, <3>1, <4>1 DEF Waiting
    <3>3. pc' = "send" => wire'[Len(wire')].n < tx'.n /\ pos' + total' = 0
      BY <2>1, <2>9, <2>11
    <3> QED BY <2>1, <3>1, <3>2, <3>3 DEF LastPieceKnown
  <2>13. WireInOrder'
    BY <2>1 DEF WireInv, WireInOrder, Follows
  <2>14. /\ pc' = "send" => tx'.n \in 1 .. made' /\ Waiting(tx.n)' /\ pos' + total' < Units
         /\ pc' = "send" /\ wire' = << >> => pos' + total' = 0
    BY <2>9, <2>10
  <2>15. \A i \in 1 .. Len(sendcan') : \A j \in i + 1 .. Len(sendcan') :
           sendcan'[i].n < sendcan'[j].n
    BY <2>6
  <2> QED BY <2>5, <2>12, <2>13, <2>14, <2>15 DEF WireInv
<1>4. CASE Transfer
  BY <1>4, TransferKeepsOrder
<1>5. CASE Command
  <2>1. /\ UNCHANGED <<pc, conn, tx, pos, total, attempt, wire>>
        /\ made' = made + 1 /\ sendcan' = Append(sendcan, [n |-> made', age |-> 0])
        /\ made < MaxCommands
    BY <1>5 DEF Command, usb
  <2>2. [n |-> made', age |-> 0] \in Batch /\ made \in Nat /\ made' \in Nat
    BY <2>1, BridgeAssumption DEF BridgeTypeOK, Batch
  <2>3. /\ Len(sendcan) \in Nat /\ Len(sendcan') = Len(sendcan) + 1
        /\ \A i \in 1 .. Len(sendcan) : sendcan'[i] = sendcan[i]
        /\ sendcan'[Len(sendcan) + 1] = [n |-> made', age |-> 0]
    BY <2>1, <2>2, AppendProperties DEF BridgeTypeOK
  <2>4. \A i \in 1 .. Len(sendcan') : i \in 1 .. Len(sendcan) \/ i = Len(sendcan) + 1
    BY <2>3
  <2>5. \A n \in Int : n <= made /\ Waiting(n) => Waiting(n)'
    <3> SUFFICES ASSUME NEW n \in Int, n <= made, Waiting(n), NEW i \in 1 .. Len(sendcan')
                 PROVE  n < sendcan'[i].n
      BY DEF Waiting
    <3>1. CASE i \in 1 .. Len(sendcan)
      BY <2>3, <3>1 DEF Waiting
    <3>2. CASE i = Len(sendcan) + 1
      BY <2>1, <2>2, <2>3, <3>2
    <3> QED BY <2>4, <3>1, <3>2
  <2>6. ASSUME NEW i \in 1 .. Len(sendcan') PROVE sendcan'[i].n \in 1 .. made'
    <3>1. CASE i \in 1 .. Len(sendcan)
      <4>1. sendcan[i].n \in 1 .. made
        BY <3>1 DEF WireInv
      <4> QED BY <2>1, <2>2, <2>3, <3>1, <4>1
    <3>2. CASE i = Len(sendcan) + 1
      BY <2>1, <2>2, <2>3, <3>2
    <3> QED BY <2>4, <3>1, <3>2
  <2>7. ASSUME NEW i \in 1 .. Len(sendcan'), NEW j \in i + 1 .. Len(sendcan')
        PROVE  sendcan'[i].n < sendcan'[j].n
    <3>1. i \in 1 .. Len(sendcan) /\ j \in 1 .. Len(sendcan')
      BY <2>3
    <3>2. CASE j \in 1 .. Len(sendcan)
      <4>1. sendcan[i].n < sendcan[j].n
        BY <3>1, <3>2 DEF WireInv
      <4> QED BY <2>3, <3>1, <3>2, <4>1
    <3>3. CASE j = Len(sendcan) + 1
      <4>1. sendcan[i].n \in 1 .. made
        BY <3>1 DEF WireInv
      <4> QED BY <2>1, <2>2, <2>3, <3>1, <3>3, <4>1
    <3> QED BY <2>4, <3>1, <3>2, <3>3
  <2>8. pc' = "send" => tx'.n \in 1 .. made' /\ Waiting(tx.n)' /\ pos' + total' < Units
    <3> SUFFICES ASSUME pc = "send"
                 PROVE  tx'.n \in 1 .. made' /\ Waiting(tx.n)' /\ pos' + total' < Units
      BY <2>1
    <3>1. tx.n \in 1 .. made /\ Waiting(tx.n) /\ pos + total < Units
      BY DEF WireInv
    <3>2. Waiting(tx.n)'
      <4>1. tx.n \in Int /\ tx.n <= made /\ tx' = tx
        BY <2>1, <2>2, <3>1
      <4> QED BY <2>5, <3>1, <4>1 DEF Waiting
    <3> QED BY <2>1, <2>2, <3>1, <3>2
  <2>9. LastPieceKnown'
    <3> SUFFICES ASSUME wire # << >> PROVE LastPieceKnown'
      BY <2>1 DEF LastPieceKnown
    <3>1. /\ wire[Len(wire)].n <= made /\ Waiting(wire[Len(wire)].n)
          /\ pc = "send" =>
               IF pos + total = 0 THEN wire[Len(wire)].n < tx.n
               ELSE wire[Len(wire)] = [conn |-> conn, n |-> tx.n, unit |-> pos + total]
      BY DEF WireInv, LastPieceKnown
    <3>2. wire[Len(wire)].n \in Int
      <4>1. wire \in Seq(Piece) /\ Len(wire) \in 1 .. Len(wire)
        BY DEF BridgeTypeOK
      <4>2. wire[Len(wire)] \in Piece
        BY <4>1, ElementOfSeq
      <4> QED BY <4>2 DEF Piece
    <3>3. Waiting(wire[Len(wire)].n)'
      <4>1. wire' = wire
        BY <2>1
      <4> QED BY <2>5, <3>1, <3>2, <4>1 DEF Waiting
    <3>4. wire'[Len(wire')].n <= made'
      BY <2>1, <2>2, <3>1, <3>2
    <3> QED BY <2>1, <3>1, <3>3, <3>4 DEF LastPieceKnown
  <2>10. WireInOrder'
    BY <2>1 DEF WireInv, WireInOrder, Follows
  <2>11. pc' = "send" /\ wire' = << >> => pos' + total' = 0
    BY <2>1 DEF WireInv
  <2> QED BY <2>6, <2>7, <2>8, <2>9, <2>10, <2>11 DEF WireInv
<1>6. CASE ControlRestart
  <2>1. /\ UNCHANGED <<pc, conn, made, tx, pos, total, wire>> /\ sendcan' = << >>
    BY <1>6 DEF ControlRestart, usb
  <2>2. Len(sendcan') = 0 /\ \A n : Waiting(n)'
    BY <2>1 DEF Waiting
  <2> QED BY <2>1, <2>2 DEF WireInv, LastPieceKnown, Waiting, WireInOrder, Follows
<1>7. CASE ElapseBridge \/ UNCHANGED bridgeVars
  <2>1. UNCHANGED <<pc, conn, made, tx, pos, total, wire>>
    BY <1>7 DEF ElapseBridge, bridgeVars, usb
  <2>2. Len(sendcan) \in Nat /\ DOMAIN sendcan = 1 .. Len(sendcan)
    BY DEF BridgeTypeOK
  <2>3. Len(sendcan') = Len(sendcan) /\ \A i \in 1 .. Len(sendcan) : sendcan'[i].n = sendcan[i].n
    <3>1. CASE ElapseBridge
      <4>1. sendcan' = [i \in 1 .. Len(sendcan) |->
                         [sendcan[i] EXCEPT !.age = Older(sendcan[i].age)]]
        BY <2>2, <3>1 DEF ElapseBridge
      <4>2. \A i \in 1 .. Len(sendcan) : sendcan[i] \in Batch
        BY DEF BridgeTypeOK
      <4> QED BY <2>2, <4>1, <4>2 DEF Batch
    <3>2. CASE UNCHANGED bridgeVars
      BY <3>2 DEF bridgeVars
    <3> QED BY <1>7, <3>1, <3>2
  <2>4. \A n : Waiting(n) <=> Waiting(n)'
    BY <2>3 DEF Waiting
  <2>5. WireInOrder'
    BY <2>1 DEF WireInv, WireInOrder, Follows
  <2>6. LastPieceKnown'
    BY <2>1, <2>3 DEF WireInv, LastPieceKnown, Waiting
  <2>7. \A i \in 1 .. Len(sendcan') : \A j \in i + 1 .. Len(sendcan') :
          j \in 1 .. Len(sendcan) /\ sendcan'[i].n < sendcan'[j].n
    BY <2>2, <2>3 DEF WireInv
  <2> QED BY <2>1, <2>3, <2>5, <2>6, <2>7 DEF WireInv, Waiting
<1> QED
  BY <1>1, <1>2, <1>3, <1>4, <1>5, <1>6, <1>7 DEF BridgeNext, Turn

-----------------------------------------------------------------------------
(* PandaBridge: theorems *)

LEMMA BridgeInitially == BridgeInit => BridgeInv
  BY TypeInitially, BridgeAssumption
  DEF BridgeInit, BridgeInv, LinkInv, FramesInv, WireInv, BatchesAccountForFrames, WireInOrder,
      LastPieceKnown, NoFrames

(* The invariant of pandad and its USB client holds in every state.        *)
THEOREM BridgeInvariant == BridgeSpec => []BridgeInv
<1>1. BridgeInv /\ [BridgeNext]_bridgeVars => BridgeInv'
  BY TypeKept, LinkKept, FramesKept, WireKept DEF BridgeInv
<1> QED BY <1>1, BridgeInitially, PTL DEF BridgeSpec

(* Every batch for controlsd is a run of frames of one connection, and the *)
(* frames missing before it are the ones it says were dropped.             *)
THEOREM BridgeAccountsForFrames == BridgeSpec => []BatchesAccountForFrames
<1>1. BridgeInv => BatchesAccountForFrames
  BY DEF BridgeInv, FramesInv
<1> QED BY <1>1, BridgeInvariant, PTL

(* Retries, cut transfers, lost connections and restarts leave the batches *)
(* for the car in order, each on the wire once and from its beginning.     *)
THEOREM BridgeSendsInOrder == BridgeSpec => []WireInOrder
<1>1. BridgeInv => WireInOrder
  BY DEF BridgeInv, WireInv
<1> QED BY <1>1, BridgeInvariant, PTL

(* Nothing reaches the car, and no consent is reported, over a connection  *)
(* whose safety model Panda has not confirmed.                             *)
THEOREM BridgeOnlyConfirmed == BridgeSpec => OnlyConfirmed
<1>1. ASSUME BridgeInv, BridgeNext, wire' # wire \/ (state' # state /\ state'.connected)
      PROVE  conn # 0 /\ conn = confirmed
  <2>1. CASE Transfer
    <3>1. conn # 0 /\ pc = "send"
      BY <2>1 DEF Transfer
    <3> QED BY <1>1, <3>1 DEF BridgeInv, LinkInv
  <2>2. CASE PublishHealth
    <3>1. pc = "health" /\ wire' = wire
      BY <2>2 DEF PublishHealth
    <3>2. ASSUME conn = 0 PROVE FALSE
      <4>1. state' = [connected |-> conn # 0, healthy |-> healthy, allowed |-> FALSE, conn |-> conn]
        BY <2>2, <3>2 DEF PublishHealth
      <4>2. state'.connected = (conn # 0)
        BY <4>1
      <4> QED BY <1>1, <3>1, <3>2, <4>2
    <3> QED BY <1>1, <3>1, <3>2 DEF BridgeInv, LinkInv
  <2>3. CASE ReportDisconnected
    BY <1>1, <2>3 DEF ReportDisconnected, Disconnected
  <2>4. ASSUME ~Transfer, ~PublishHealth, ~ReportDisconnected PROVE FALSE
    <3>1. UNCHANGED <<wire, state>>
      BY <1>1, <2>4 DEF BridgeNext, Turn, ConnectFails, Connect, Configure, ConfigureFails,
         ReceiveFrames, ReceiveNothing, ReceiveMalformed, ReceiveFails, PublishBatch, PublishLater,
         TxEmpty, TxDrop, TxTake, SendNowhere, Heartbeat, NoHealthYet, LogStats,
         Command, ControlRestart, ElapseBridge, BridgeCrash
    <3> QED BY <1>1, <3>1
  <2> QED BY <2>1, <2>2, <2>3, <2>4
<1>2. BridgeInv /\ [BridgeNext]_bridgeVars
        => [wire' # wire \/ (state' # state /\ state'.connected) =>
              conn # 0 /\ conn = confirmed]_bridgeVars
  BY <1>1
<1> QED BY <1>2, BridgeInvariant, PTL DEF BridgeSpec, OnlyConfirmed

-----------------------------------------------------------------------------
(* ModelHistory: the pulses and features of earlier frames *)

LEMMA LastShifted ==
  ASSUME NEW S, NEW n \in Nat \ {0}, NEW h \in [1 .. n -> S], NEW e \in S
  PROVE  Shifted(h, e) \in [1 .. n -> S] /\ Last(Shifted(h, e)) = e
<1>1. h \in Seq(S) /\ Len(h) = n
  OBVIOUS
<1>2. h # << >>
  BY <1>1, EmptySeq
<1>3. Tail(h) \in Seq(S) /\ Len(Tail(h)) = n - 1
  BY <1>1, <1>2, HeadTailProperties
<1> DEFINE t == Tail(h)
<1> HIDE DEF t
<1>4. Append(t, e) \in Seq(S) /\ Len(Append(t, e)) = n /\ Append(t, e)[n] = e
  BY <1>3, AppendProperties DEF t
<1> QED BY <1>4, LenProperties DEF Shifted, Last, t

LEMMA HistoryConstants ==
  /\ HistoryTicks \in Nat /\ HistoryTicks > 2 /\ FrameTags \in Nat /\ FrameTags > 2
  /\ HistoryTicks \in Nat \ {0} /\ HistoryTicks - 1 \in Nat \ {0}
  /\ "none" \in Read /\ NoPicture \in 0 .. FrameTags
  BY HistoryAssumption DEF Read, NoPicture

LEMMA HistoriesShifted ==
  ASSUME NEW h \in [1 .. HistoryTicks - 1 -> 0 .. FrameTags], NEW e \in 0 .. FrameTags,
         NEW g \in [1 .. HistoryTicks -> Read], NEW d \in Read
  PROVE  /\ Shifted(h, e) \in [1 .. HistoryTicks - 1 -> 0 .. FrameTags] /\ Last(Shifted(h, e)) = e
         /\ Shifted(g, d) \in [1 .. HistoryTicks -> Read] /\ Last(Shifted(g, d)) = d
<1> DEFINE n == HistoryTicks - 1
           S == 0 .. FrameTags
<1>1. n \in Nat \ {0} /\ h \in [1 .. n -> S] /\ e \in S
  BY HistoryConstants
<1> HIDE DEF n, S
<1>2. Shifted(h, e) \in [1 .. n -> S] /\ Last(Shifted(h, e)) = e
  BY <1>1, LastShifted
<1>3. Shifted(g, d) \in [1 .. HistoryTicks -> Read] /\ Last(Shifted(g, d)) = d
  BY HistoryConstants, LastShifted
<1> QED BY <1>2, <1>3 DEF n, S

LEMMA LastOfFilled ==
  ASSUME NEW S, NEW n \in Nat \ {0}, NEW e \in S
  PROVE  Last([i \in 1 .. n |-> e]) = e
<1>1. [i \in 1 .. n |-> e] \in Seq(S) /\ Len([i \in 1 .. n |-> e]) = n
  OBVIOUS
<1> QED BY <1>1 DEF Last

LEMMA BlankLast ==
  /\ Blank.pulses \in [1 .. HistoryTicks -> Read] /\ Last(Blank.pulses) = "none"
  /\ Blank.features \in [1 .. HistoryTicks - 1 -> 0 .. FrameTags]
  /\ Last(Blank.features) = NoPicture
<1> DEFINE P == [i \in 1 .. HistoryTicks |-> "none"]
           F == [i \in 1 .. HistoryTicks - 1 |-> NoPicture]
<1>1. P \in [1 .. HistoryTicks -> Read] /\ F \in [1 .. HistoryTicks - 1 -> 0 .. FrameTags]
  BY HistoryConstants
<1>2. Last(P) = "none" /\ Last(F) = NoPicture
  BY HistoryConstants, LastOfFilled
<1>3. Blank.pulses = P /\ Blank.features = F
  BY DEF Blank
<1> QED BY <1>1, <1>2, <1>3

LEMMA ModelInitially == ModelInit => ModelInv
BY HistoryConstants, BlankLast
   DEF ModelInit, ModelInv, ModelTypeOK, HistoriesAgree, NotRun

LEMMA ModelStep == ModelInv /\ [ModelNext]_historyVars => ModelInv'
<1> SUFFICES ASSUME ModelInv, [ModelNext]_historyVars PROVE ModelInv'
  OBVIOUS
<1> USE DEF ModelInv, ModelTypeOK, HistoriesAgree
<1>1. ASSUME NEW read \in Read, NEW ok \in BOOLEAN, ModelFrame(read, ok) PROVE ModelInv'
  <2>1. frame_tag \in 0 .. FrameTags /\ frame_tag' \in 0 .. FrameTags - 1
    BY <1>1, HistoryConstants DEF ModelFrame
  <2>2. prev_desire' \in Read /\ desire' \in Read
    BY <1>1, HistoryConstants DEF ModelFrame, Pulse
  <2>3. CASE ok
    <3>1. /\ feature_history' = Shifted(feature_history, frame_tag)
          /\ desire_history' = Shifted(desire_history, desire')
          /\ current' = frame_tag /\ earlier' = frame_tag
          /\ ran' = [earlier |-> earlier, current |-> frame_tag,
                     feature |-> Last(feature_history), pulse |-> desire']
      BY <1>1, <2>3 DEF ModelFrame, RunFrame, Features
    <3>2. /\ feature_history' \in [1 .. HistoryTicks - 1 -> 0 .. FrameTags]
          /\ Last(feature_history') = frame_tag
      BY <3>1, <2>1, <2>2, HistoriesShifted
    <3>3. desire_history' \in [1 .. HistoryTicks -> Read]
      BY <3>1, <2>1, <2>2, HistoriesShifted
    <3> QED BY <2>1, <2>2, <3>1, <3>2, <3>3
  <2>4. CASE ~ok
    <3>1. /\ UNCHANGED <<feature_history, desire_history, earlier, ran>>
          /\ current' \in {current, frame_tag}
      BY <1>1, <2>4 DEF ModelFrame, RunFrame, Features
    <3> QED BY <2>1, <2>2, <3>1
  <2> QED BY <2>3, <2>4
<1>2. CASE RestartModeld
  BY <1>2, HistoryConstants, BlankLast DEF RestartModeld, NotRun
<1>3. CASE UNCHANGED historyVars
  BY <1>3 DEF historyVars
<1> QED BY <1>1, <1>2, <1>3 DEF ModelNext

LEMMA PulseOfAsk ==
  ASSUME ModelInv, ModelNext, Last(desire_history') # "none", desire_history' # desire_history
  PROVE  prev_desire # prev_desire' /\ Last(desire_history') = prev_desire'
<1> USE DEF ModelInv, ModelTypeOK
<1>1. ASSUME NEW read \in Read, NEW ok \in BOOLEAN, ModelFrame(read, ok)
      PROVE  prev_desire # prev_desire' /\ Last(desire_history') = prev_desire'
  <2>1. ok /\ desire_history' = Shifted(desire_history, desire')
    BY <1>1 DEF ModelFrame, RunFrame
  <2>2. desire' = Pulse(read) /\ prev_desire' = read /\ desire' \in Read
    BY <1>1, HistoryConstants DEF ModelFrame, Pulse
  <2>3. Last(desire_history') = Pulse(read)
    BY <2>1, <2>2, HistoryConstants, HistoriesShifted
  <2> QED BY <2>2, <2>3 DEF Pulse
<1>2. CASE RestartModeld
  BY <1>2, BlankLast DEF RestartModeld
<1> QED BY <1>1, <1>2 DEF ModelNext

THEOREM HistoryFedRight == ModelSpec => []HistoriesAgree /\ OnePulseAsk
<1>1. ModelInv /\ [ModelNext]_historyVars
        => [Last(desire_history') # "none" /\ desire_history' # desire_history
             => prev_desire # prev_desire' /\ Last(desire_history') = prev_desire']_historyVars
  BY PulseOfAsk
<1>2. ModelInv => HistoriesAgree
  BY DEF ModelInv
<1> QED BY <1>1, <1>2, ModelInitially, ModelStep, PTL DEF ModelSpec, OnePulseAsk

-----------------------------------------------------------------------------
(* Calibration: means, the largest and smallest of a set, and sums *)

LEMMA LeastMember ==
  ASSUME NEW T \in SUBSET Nat, T # {}
  PROVE  \E m \in T : \A k \in T : m <= k
<1> DEFINE Smaller == {p \in Nat \X Nat : p[1] < p[2]}
<1>1. IsWellFoundedOn(Smaller, Nat)
  BY NatLessThanWellFounded DEF OpToRel
<1>2. \A a, b \in Nat : a < b => <<a, b>> \in Smaller
  OBVIOUS
<1> HIDE DEF Smaller
<1>3. \E m \in T : \A k \in T : ~(<<k, m>> \in Smaller)
  BY <1>1, WFMin
<1>4. \A a, b \in Nat : ~(a < b) => b <= a
  OBVIOUS
<1>5. \A a \in T : a \in Nat
  OBVIOUS
<1> QED BY <1>2, <1>3, <1>4, <1>5

(* A bounded set of integers has a largest and a smallest member.          *)
LEMMA MaxMin ==
  ASSUME NEW lo \in Int, NEW hi \in Int, NEW T \in SUBSET (lo .. hi), T # {}
  PROVE  /\ Max(T) \in T /\ Min(T) \in T /\ Min(T) <= Max(T)
         /\ \A x \in T : Min(T) <= x /\ x <= Max(T)
<1>1. \E x \in T : \A y \in T : x >= y
  <2> DEFINE U == {hi - x : x \in T}
  <2>1. U \in SUBSET Nat /\ U # {}
    <3>1. \A x \in T : x \in lo .. hi
      OBVIOUS
    <3>2. \A x \in T : hi - x \in Nat
      BY <3>1
    <3>3. PICK x \in T : TRUE
      OBVIOUS
    <3>4. hi - x \in U
      OBVIOUS
    <3>5. U # {}
      BY <3>4, Zenon
    <3> QED BY <3>2, <3>5
  <2>2. PICK m \in U : \A k \in U : m <= k
    <3> HIDE DEF U
    <3> QED BY <2>1, LeastMember
  <2>3. PICK x \in T : m = hi - x
    OBVIOUS
  <2>4. ASSUME NEW y \in T PROVE x >= y
    <3>1. hi - y \in U
      OBVIOUS
    <3>2. m <= hi - y
      BY <2>2, <3>1
    <3>3. x \in Int /\ y \in Int
      OBVIOUS
    <3> QED BY <2>3, <3>2, <3>3
  <2> QED BY <2>4
<1>2. \E x \in T : \A y \in T : x =< y
  <2> DEFINE U == {x - lo : x \in T}
  <2>1. U \in SUBSET Nat /\ U # {}
    <3>1. \A x \in T : x \in lo .. hi
      OBVIOUS
    <3>2. \A x \in T : x - lo \in Nat
      BY <3>1
    <3>3. PICK x \in T : TRUE
      OBVIOUS
    <3>4. x - lo \in U
      OBVIOUS
    <3>5. U # {}
      BY <3>4, Zenon
    <3> QED BY <3>2, <3>5
  <2>2. PICK m \in U : \A k \in U : m <= k
    <3> HIDE DEF U
    <3> QED BY <2>1, LeastMember
  <2>3. PICK x \in T : m = x - lo
    OBVIOUS
  <2>4. ASSUME NEW y \in T PROVE x =< y
    <3>1. y - lo \in U
      OBVIOUS
    <3>2. m <= y - lo
      BY <2>2, <3>1
    <3>3. x \in Int /\ y \in Int
      OBVIOUS
    <3> QED BY <2>3, <3>2, <3>3
  <2> QED BY <2>4
<1>3. Max(T) \in T /\ \A y \in T : Max(T) >= y
  BY <1>1 DEF Max
<1>4. Min(T) \in T /\ \A y \in T : Min(T) =< y
  BY <1>2 DEF Min
<1>5. \A x \in T : x \in Int
  OBVIOUS
<1> QED BY <1>3, <1>4, <1>5

LEMMA MaxMinTwo ==
  ASSUME NEW a \in Int, NEW b \in Int
  PROVE  /\ Max({a, b}) = IF a >= b THEN a ELSE b
         /\ Min({a, b}) = IF a <= b THEN a ELSE b
<1> DEFINE lo == IF a <= b THEN a ELSE b
           hi == IF a >= b THEN a ELSE b
           T == {a, b}
<1>1. lo \in Int /\ hi \in Int /\ T \in SUBSET (lo .. hi) /\ T # {}
  OBVIOUS
<1>2. lo \in T /\ hi \in T
  OBVIOUS
<1> HIDE DEF lo, hi, T
<1>3. /\ Max(T) \in T /\ Min(T) \in T
      /\ \A x \in T : Min(T) <= x /\ x <= Max(T)
  BY <1>1, MaxMin
<1>4. Max(T) \in lo .. hi /\ Min(T) \in lo .. hi
  BY <1>1, <1>3
<1>5. Max(T) = hi /\ Min(T) = lo
  BY <1>1, <1>2, <1>3, <1>4
<1> QED BY <1>5 DEF lo, hi, T

(* What lies between s times lo and s times hi, divided by s, is between   *)
(* lo and hi.                                                              *)
LEMMA DividedBetween ==
  ASSUME NEW a \in Int, NEW s \in Nat \ {0}, NEW lo \in Int, NEW hi \in Int,
         s * lo <= a, a <= s * hi
  PROVE  a \div s \in lo .. hi
<1> DEFINE q == a \div s
           r == a % s
<1>1. a = s * q + r /\ q \in Int /\ r \in 0 .. s - 1
  OBVIOUS
<1> HIDE DEF q, r
<1>2. \A x \in Int : s * x \in Int
  OBVIOUS
<1>3. ASSUME NEW x \in Int, NEW y \in Int, x < y PROVE s * x + s <= s * y
  <2>1. y - x - 1 \in Nat /\ s * (y - x - 1) >= 0
    BY <1>3
  <2>2. s * (y - x - 1) = s * y - s * x - s
    OBVIOUS
  <2> QED BY <1>2, <2>1, <2>2
<1>4. ASSUME q < lo PROVE FALSE
  BY <1>1, <1>2, <1>3, <1>4
<1>5. ASSUME hi < q PROVE FALSE
  BY <1>1, <1>2, <1>3, <1>5
<1> QED BY <1>1, <1>4, <1>5 DEF q

(* A mean with weights lies between its terms.                             *)
LEMMA WeightedBetween ==
  ASSUME NEW s \in Nat \ {0}, NEW w \in 0 .. s, NEW lo \in Int, NEW hi \in Int,
         NEW a \in lo .. hi, NEW b \in lo .. hi
  PROVE  (w * a + (s - w) * b) \div s \in lo .. hi
<1>1. w * (a - lo) >= 0 /\ (s - w) * (b - lo) >= 0 /\ w * (hi - a) >= 0 /\ (s - w) * (hi - b) >= 0
  <2>1. \A x, y \in Nat : x * y >= 0
    OBVIOUS
  <2> QED BY <2>1
<1>2. /\ w * (a - lo) = w * a - w * lo /\ w * (hi - a) = w * hi - w * a
      /\ (s - w) * (b - lo) = (s - w) * b - (s - w) * lo
      /\ (s - w) * (hi - b) = (s - w) * hi - (s - w) * b
      /\ (s - w) * lo = s * lo - w * lo /\ (s - w) * hi = s * hi - w * hi
  OBVIOUS
<1> DEFINE n == w * a + (s - w) * b
<1>3. /\ w * a \in Int /\ (s - w) * b \in Int /\ w * lo \in Int /\ w * hi \in Int
      /\ s * lo \in Int /\ s * hi \in Int
  OBVIOUS
<1>4. n \in Int /\ s * lo <= n /\ n <= s * hi
  BY <1>1, <1>2, <1>3
<1> HIDE DEF n
<1>5. n \div s \in lo .. hi
  BY <1>4, DividedBetween
<1> QED BY <1>5 DEF n

LEMMA CalibrationConstants ==
  /\ Limit \in Nat \ {0} /\ BlockSize \in Nat \ {0} /\ InputsNeeded \in Nat \ {0}
  /\ SmoothCycles \in Nat \ {0} /\ MaxSpread \in Nat /\ PersistInterval \in Nat
  /\ InputsWanted \in Nat /\ InputsWanted > InputsNeeded
  /\ 0 \in Blocks /\ 0 \in Angles
BY CalibrationAssumption DEF Blocks, Angles

(* A sum is defined as far as it is asked for.                             *)
LEMMA SumExists ==
  ASSUME NEW N \in Nat, NEW g \in [0 .. N -> Int]
  PROVE  \E s \in [0 .. N -> Int] :
           s[0] = 0 /\ \A n \in 1 .. N : s[n] = s[n - 1] + g[n - 1]
<1> DEFINE Upto(m) == \E s \in [0 .. m -> Int] :
                        s[0] = 0 /\ \A n \in 1 .. m : s[n] = s[n - 1] + g[n - 1]
           T == {m \in 0 .. N : ~Upto(m)}
<1>1. Upto(0)
  <2>1. /\ [i \in 0 .. 0 |-> 0] \in [0 .. 0 -> Int] /\ [i \in 0 .. 0 |-> 0][0] = 0
        /\ \A n \in 1 .. 0 : FALSE
    OBVIOUS
  <2> QED BY <2>1
<1>2. ASSUME NEW m \in 1 .. N, Upto(m - 1) PROVE Upto(m)
  <2>1. PICK s \in [0 .. m - 1 -> Int] :
          s[0] = 0 /\ \A n \in 1 .. m - 1 : s[n] = s[n - 1] + g[n - 1]
    BY <1>2
  <2> DEFINE t == [i \in 0 .. m |-> IF i = m THEN s[m - 1] + g[m - 1] ELSE s[i]]
  <2>2. t \in [0 .. m -> Int]
    <3>1. s[m - 1] \in Int /\ g[m - 1] \in Int
      OBVIOUS
    <3>2. \A i \in 0 .. m : i # m => i \in 0 .. m - 1
      OBVIOUS
    <3> QED BY <3>1, <3>2
  <2>3. t[0] = 0
    BY <2>1
  <2>4. ASSUME NEW n \in 1 .. m PROVE t[n] = t[n - 1] + g[n - 1]
    <3>1. n - 1 \in 0 .. m - 1 /\ n - 1 # m /\ t[n - 1] = s[n - 1]
      OBVIOUS
    <3>2. CASE n = m
      BY <3>1, <3>2
    <3>3. CASE n # m
      <4>1. n \in 1 .. m - 1 /\ t[n] = s[n]
        BY <3>3
      <4> QED BY <2>1, <3>1, <4>1
    <3> QED BY <3>2, <3>3
  <2> HIDE DEF t
  <2> QED BY <2>2, <2>3, <2>4
<1> HIDE DEF Upto
<1>3. T = {}
  <2> SUFFICES ASSUME T # {} PROVE FALSE
    OBVIOUS
  <2>1. T \in SUBSET Nat
    OBVIOUS
  <2>2. PICK m \in T : \A k \in T : m <= k
    <3> HIDE DEF T
    <3> QED BY <2>1, LeastMember
  <2>3. m \in 0 .. N /\ ~Upto(m)
    OBVIOUS
  <2>4. m # 0
    BY <1>1, <2>3
  <2>5. m \in 1 .. N /\ m - 1 \in 0 .. N /\ ~(m <= m - 1)
    BY <2>3, <2>4
  <2>6. Upto(m - 1)
    <3>1. m - 1 \notin T
      BY <2>2, <2>5
    <3> QED BY <2>5, <3>1
  <2> QED BY <1>2, <2>3, <2>5, <2>6
<1>4. Upto(N)
  BY <1>3
<1> QED BY <1>4 DEF Upto

LEMMA SumsDefined ==
  ASSUME NEW blocks \in [Blocks -> Angles], NEW done \in SUBSET Blocks
  PROVE  /\ SumsOf(blocks, done)[0] = 0
         /\ \A n \in 1 .. InputsWanted :
              SumsOf(blocks, done)[n] =
                SumsOf(blocks, done)[n - 1] + (IF n - 1 \in done THEN blocks[n - 1] ELSE 0)
<1> DEFINE g == [i \in 0 .. InputsWanted |-> IF i \in done THEN blocks[i] ELSE 0]
           Body(s) == [n \in 0 .. InputsWanted |->
                        IF n = 0 THEN 0 ELSE s[n - 1] + (IF n - 1 \in done THEN blocks[n - 1] ELSE 0)]
<1>1. g \in [0 .. InputsWanted -> Int]
  <2>1. \A i \in done : blocks[i] \in Int
    BY DEF Angles
  <2> QED BY <2>1
<1>2. PICK s \in [0 .. InputsWanted -> Int] :
        s[0] = 0 /\ \A n \in 1 .. InputsWanted : s[n] = s[n - 1] + g[n - 1]
  <2> HIDE DEF g
  <2> QED BY <1>1, SumExists, CalibrationConstants
<1>3. s = Body(s)
  <2>1. ASSUME NEW n \in 0 .. InputsWanted PROVE s[n] = Body(s)[n]
    <3>1. n # 0 => n \in 1 .. InputsWanted /\ n - 1 \in 0 .. InputsWanted
      BY CalibrationConstants
    <3> QED BY <1>2, <3>1
  <2> QED BY <2>1
<1>4. SumsOf(blocks, done) = CHOOSE t : t = Body(t)
  BY DEF SumsOf
<1> DEFINE sums == SumsOf(blocks, done)
<1>5. sums = Body(sums)
  <2> HIDE DEF Body
  <2> QED BY <1>3, <1>4
<1> HIDE DEF sums
<1>6. sums[0] = 0
  BY <1>5, CalibrationConstants
<1>7. ASSUME NEW n \in 1 .. InputsWanted
      PROVE  sums[n] = sums[n - 1] + (IF n - 1 \in done THEN blocks[n - 1] ELSE 0)
  <2>1. n \in 0 .. InputsWanted /\ n # 0
    BY CalibrationConstants
  <2>2. Body(sums)[n] = sums[n - 1] + (IF n - 1 \in done THEN blocks[n - 1] ELSE 0)
    BY <2>1
  <2> QED BY <1>5, <2>2
<1> QED BY <1>6, <1>7 DEF sums

(* The sum of the done blocks below n lies between their number times the  *)
(* bounds of an angle.                                                     *)
LEMMA SumBetween ==
  ASSUME NEW blocks \in [Blocks -> Angles], NEW done \in SUBSET Blocks,
         NEW n \in 0 .. InputsWanted
  PROVE  LET c == Cardinality(done \cap 0 .. n - 1)
             s == SumsOf(blocks, done)[n]
         IN  /\ c \in Nat /\ s \in Int
             /\ c * (-(Limit + 1)) <= s /\ s <= c * (Limit + 1)
<1> DEFINE hi == Limit + 1
           C(m) == Cardinality(done \cap 0 .. m - 1)
           S(m) == SumsOf(blocks, done)[m]
           Good(m) == C(m) \in Nat /\ S(m) \in Int /\ C(m) * (-hi) <= S(m) /\ S(m) <= C(m) * hi
           T == {m \in 0 .. InputsWanted : ~Good(m)}
<1>1. hi \in Nat
  BY CalibrationConstants
<1>2. Good(0)
  <2>1. done \cap 0 .. -1 = {}
    OBVIOUS
  <2>2. C(0) = 0 /\ S(0) = 0
    BY <2>1, FS_EmptySet, SumsDefined
  <2> QED BY <1>1, <2>2
<1>3. ASSUME NEW m \in 1 .. InputsWanted, Good(m - 1) PROVE Good(m)
  <2>1. IsFiniteSet(done \cap 0 .. m - 2)
    <3>1. IsFiniteSet(0 .. m - 2)
      BY FS_Interval, CalibrationConstants
    <3> QED BY <3>1, FS_Subset
  <2>2. S(m) = S(m - 1) + (IF m - 1 \in done THEN blocks[m - 1] ELSE 0)
    BY SumsDefined
  <2>3. m - 1 - 1 = m - 2 /\ C(m - 1) = Cardinality(done \cap 0 .. m - 2)
    BY CalibrationConstants
  <2>4. CASE m - 1 \in done
    <3>1. done \cap 0 .. m - 1 = (done \cap 0 .. m - 2) \cup {m - 1} /\ m - 1 \notin done \cap 0 .. m - 2
      BY <2>4, CalibrationConstants
    <3>2. C(m) = C(m - 1) + 1
      BY <2>1, <2>3, <3>1, FS_AddElement
    <3>3. blocks[m - 1] \in -hi .. hi
      BY <2>4 DEF Angles
    <3>4. PICK b \in -hi .. hi : b = blocks[m - 1]
      BY <3>3
    <3>5. S(m) = S(m - 1) + b
      BY <2>2, <2>4, <3>4
    <3>6. PICK c \in Nat, s \in Int : c = C(m - 1) /\ s = S(m - 1)
      BY <1>3
    <3>7. c * (-hi) <= s /\ s <= c * hi
      BY <1>3, <3>6
    <3> HIDE DEF C, S, hi
    <3>8. (c + 1) * (-hi) = c * (-hi) - hi /\ (c + 1) * hi = c * hi + hi /\ c * hi \in Int /\ c * (-hi) \in Int
      BY <1>1
    <3>9. (c + 1) * (-hi) <= s + b /\ s + b <= (c + 1) * hi /\ s + b \in Int
      BY <3>7, <3>8, <1>1, <3>4
    <3>10. C(m) = c + 1 /\ S(m) = s + b
      BY <3>2, <3>5, <3>6
    <3> QED BY <3>9, <3>10
  <2>5. CASE m - 1 \notin done
    <3>1. done \cap 0 .. m - 1 = done \cap 0 .. m - 2
      BY <2>5, CalibrationConstants
    <3>2. C(m) = C(m - 1)
      BY <2>3, <3>1
    <3>3. S(m) = S(m - 1) + 0
      BY <2>2, <2>5
    <3> HIDE DEF C, S, hi
    <3> QED BY <1>3, <3>2, <3>3
  <2> QED BY <2>4, <2>5
<1> HIDE DEF Good
<1>4. T = {}
  <2> SUFFICES ASSUME T # {} PROVE FALSE
    OBVIOUS
  <2>1. T \in SUBSET Nat
    OBVIOUS
  <2>2. PICK m \in T : \A k \in T : m <= k
    <3> HIDE DEF T
    <3> QED BY <2>1, LeastMember
  <2>3. m \in 0 .. InputsWanted /\ ~Good(m)
    OBVIOUS
  <2>4. m # 0
    BY <1>2, <2>3
  <2>5. m \in 1 .. InputsWanted /\ m - 1 \in 0 .. InputsWanted /\ ~(m <= m - 1)
    BY <2>3, <2>4, CalibrationConstants
  <2>6. Good(m - 1)
    <3>1. m - 1 \notin T
      BY <2>2, <2>5
    <3> QED BY <2>5, <3>1
  <2> QED BY <1>3, <2>3, <2>5, <2>6
<1>5. Good(n)
  BY <1>4
<1> QED BY <1>5 DEF Good

(* The arithmetic of the calibrator keeps to the angles.                   *)
LEMMA SmoothedBetween ==
  ASSUME NEW weight \in 0 .. SmoothCycles, NEW old \in Angles, NEW rpy \in Angles
  PROVE  /\ Smoothed(old, weight, rpy) \in Angles
         /\ IsValid(rpy) /\ (weight > 0 => IsValid(old)) => IsValid(Smoothed(old, weight, rpy))
<1> DEFINE m == Smoothed(old, weight, rpy)
<1>1. m \in Angles
  BY CalibrationConstants, WeightedBetween DEF Angles, Smoothed
<1>2. ASSUME IsValid(rpy), weight > 0, IsValid(old) PROVE IsValid(m)
  BY <1>2, CalibrationConstants, WeightedBetween DEF IsValid, Smoothed
<1>3. ASSUME IsValid(rpy), weight = 0 PROVE IsValid(m)
  <2>1. old \in Int /\ rpy \in Int
    BY DEF Angles
  <2>2. 0 * old + (SmoothCycles - 0) * rpy = 0 * rpy + (SmoothCycles - 0) * rpy
    BY <2>1, CalibrationConstants
  <2>3. 0 \in 0 .. SmoothCycles /\ -Limit \in Int /\ Limit \in Int /\ rpy \in -Limit .. Limit
    BY <1>3, CalibrationConstants DEF IsValid
  <2>4. (0 * rpy + (SmoothCycles - 0) * rpy) \div SmoothCycles \in -Limit .. Limit
    BY <2>3, CalibrationConstants, WeightedBetween
  <2> QED BY <1>3, <2>2, <2>4 DEF IsValid, Smoothed
<1> QED BY <1>1, <1>2, <1>3

LEMMA AveragedBounds ==
  ASSUME CalibrationTypeOK, NEW blocks \in [Blocks -> Angles], NEW valid_blocks \in 0 .. InputsWanted,
         NEW filling \in Blocks
  PROVE  LET taken == Averaged(blocks, valid_blocks, filling)
         IN  /\ taken \in [rpy : Angles, spread : 0 .. 2 * Limit + 2, valid_blocks : 0 .. InputsWanted,
                           status : {"uncalibrated", "calibrated", "invalid"}]
             /\ taken.status = StatusOf(taken.rpy, valid_blocks) /\ taken.valid_blocks = valid_blocks
<1> DEFINE done == 0 .. valid_blocks - 1 \ {filling}
           rpys == {blocks[b] : b \in done}
           mean == SumsOf(blocks, done)[valid_blocks] \div Cardinality(done)
<1>1. done \in SUBSET Blocks /\ done \cap 0 .. valid_blocks - 1 = done
  BY CalibrationConstants DEF Blocks
<1>2. \A rpy, v : StatusOf(rpy, v) \in {"uncalibrated", "calibrated", "invalid"}
  BY DEF StatusOf
<1>3. CASE done = {}
  <2>1. Averaged(blocks, valid_blocks, filling) =
          [rpy |-> snapshot.rpy, spread |-> 0, valid_blocks |-> valid_blocks,
           status |-> StatusOf(snapshot.rpy, valid_blocks)]
    BY <1>3 DEF Averaged
  <2>2. snapshot.rpy \in Angles /\ 0 \in 0 .. 2 * Limit + 2
    BY CalibrationConstants DEF CalibrationTypeOK
  <2> QED BY <1>2, <2>1, <2>2
<1>4. CASE done # {}
  <2>1. Averaged(blocks, valid_blocks, filling) =
          [rpy |-> mean, spread |-> Max(rpys) - Min(rpys), valid_blocks |-> valid_blocks,
           status |-> StatusOf(mean, valid_blocks)]
    BY <1>4 DEF Averaged
  <2>2. Cardinality(done) \in Nat \ {0}
    <3>1. IsFiniteSet(done)
      <4>1. IsFiniteSet(0 .. valid_blocks - 1)
        BY FS_Interval, CalibrationConstants
      <4> QED BY <4>1, FS_Subset
    <3> HIDE DEF done
    <3> QED BY <1>4, <3>1, FS_CardinalityType, FS_EmptySet
  <2>3. mean \in Angles
    <3> DEFINE c == Cardinality(done)
               s == SumsOf(blocks, done)[valid_blocks]
    <3> HIDE DEF done
    <3>1. c \in Nat /\ s \in Int /\ c * (-(Limit + 1)) <= s /\ s <= c * (Limit + 1)
      BY <1>1, SumBetween
    <3>2. c \in Nat \ {0} /\ -(Limit + 1) \in Int /\ Limit + 1 \in Int
      BY <2>2, CalibrationConstants
    <3> HIDE DEF c, s
    <3>3. s \div c \in -(Limit + 1) .. (Limit + 1)
      BY <3>1, <3>2, DividedBetween
    <3> QED BY <3>3 DEF Angles, c, s
  <2>4. Max(rpys) - Min(rpys) \in 0 .. 2 * Limit + 2
    <3>1. rpys \in SUBSET (-(Limit + 1) .. (Limit + 1)) /\ rpys # {}
      <4>1. \A b \in done : blocks[b] \in -(Limit + 1) .. (Limit + 1)
        BY <1>1 DEF Angles
      <4> HIDE DEF done
      <4>2. PICK b \in done : TRUE
        BY <1>4
      <4>3. blocks[b] \in rpys
        OBVIOUS
      <4> QED BY <4>1, <4>3
    <3>2. -(Limit + 1) \in Int /\ Limit + 1 \in Int
      BY CalibrationConstants
    <3> HIDE DEF rpys
    <3>3. Max(rpys) \in rpys /\ Min(rpys) \in rpys /\ Min(rpys) <= Max(rpys)
      BY <3>1, <3>2, MaxMin
    <3>4. PICK x \in -(Limit + 1) .. (Limit + 1), y \in -(Limit + 1) .. (Limit + 1) :
            x = Max(rpys) /\ y = Min(rpys) /\ y <= x
      BY <3>1, <3>3
    <3> QED BY <3>4, CalibrationConstants
  <2> HIDE DEF mean, rpys
  <2> QED BY <1>2, <2>1, <2>3, <2>4
<1> QED BY <1>3, <1>4

SnapshotType ==
  [rpy : Angles, spread : 0 .. 2 * Limit + 2, valid_blocks : 0 .. InputsWanted,
   status : {"uncalibrated", "calibrated", "invalid"}]

(* A snapshot that counts as calibrated is of enough blocks that agree.    *)
Sound(s) ==
  s.status = "calibrated" =>
    IsValid(s.rpy) /\ s.spread <= MaxSpread /\ s.valid_blocks >= InputsNeeded

LEMMA ValidIsAngle == ASSUME NEW rpy, IsValid(rpy) PROVE rpy \in Angles
  BY CalibrationConstants DEF IsValid, Angles

LEMMA ResetIsSound ==
  ASSUME NEW rpy \in Angles, NEW spread \in 0 .. 2 * Limit + 2, spread <= MaxSpread,
         NEW blocks \in 0 .. InputsWanted
  PROVE  /\ ResetSnapshot(rpy, spread, blocks) \in SnapshotType
         /\ Sound(ResetSnapshot(rpy, spread, blocks))
         /\ ResetSnapshot(rpy, spread, blocks).rpy = rpy
<1> DEFINE st == IF StatusOf(rpy, blocks) = "calibrated" THEN "calibrated" ELSE "uncalibrated"
           r == [rpy |-> rpy, spread |-> spread, valid_blocks |-> blocks, status |-> st]
<1>1. st \in {"uncalibrated", "calibrated", "invalid"}
  OBVIOUS
<1>2. st = "calibrated" => IsValid(rpy) /\ blocks >= InputsNeeded
  <2>1. blocks < InputsNeeded \/ blocks >= InputsNeeded
    BY CalibrationConstants
  <2> QED BY <2>1 DEF StatusOf
<1>3. ResetSnapshot(rpy, spread, blocks) = r
  BY DEF ResetSnapshot
<1> HIDE DEF st
<1> QED BY <1>1, <1>2, <1>3 DEF SnapshotType, Sound

LEMMA UpdateKeeps ==
  ASSUME CalibrationInv, NEW blocks \in [Blocks -> Angles], NEW valid_blocks \in 0 .. InputsWanted,
         NEW samples \in 0 .. BlockSize - 1, NEW filling \in Blocks, NEW weight \in 0 .. SmoothCycles,
         weight > 0 => IsValid(old_rpy),
         UpdateStatus(blocks, valid_blocks, samples, filling, weight)
  PROVE  /\ block_rpys' \in [Blocks -> Angles]
         /\ sample_idx' \in 0 .. BlockSize - 1 /\ block_idx' \in Blocks
         /\ old_rpy' \in Angles /\ old_weight' \in 0 .. SmoothCycles
         /\ snapshot' \in SnapshotType
         /\ CalibratedIsSound'
<1> DEFINE taken == Averaged(blocks, valid_blocks, filling)
           lastb == (filling + InputsWanted - 1) % InputsWanted
<1>1. /\ taken \in SnapshotType /\ taken.status = StatusOf(taken.rpy, valid_blocks)
      /\ taken.valid_blocks = valid_blocks
  BY AveragedBounds DEF CalibrationInv, SnapshotType
<1>2. taken.status = "calibrated" => IsValid(taken.rpy) /\ taken.valid_blocks >= InputsNeeded
  <2>1. valid_blocks < InputsNeeded \/ valid_blocks >= InputsNeeded
    BY CalibrationConstants
  <2> HIDE DEF taken
  <2> QED BY <1>1, <2>1 DEF StatusOf
<1>3. lastb \in Blocks
  BY CalibrationConstants DEF Blocks
<1>4. old_rpy \in Angles
  BY DEF CalibrationInv, CalibrationTypeOK
<1>5. CASE Drifted(taken)
  <2>1. /\ block_rpys' = [b \in Blocks |-> blocks[lastb]]
        /\ sample_idx' = 0 /\ block_idx' = 0
        /\ old_rpy' = taken.rpy /\ old_weight' = SmoothCycles
        /\ snapshot' = ResetSnapshot(blocks[lastb], 0, InputsNeeded)
    BY <1>5 DEF UpdateStatus
  <2>2. blocks[lastb] \in Angles /\ IsValid(taken.rpy)
    BY <1>2, <1>3, <1>5 DEF Drifted
  <2> HIDE DEF taken, lastb
  <2>3. snapshot' \in SnapshotType /\ Sound(snapshot')
    BY <2>1, <2>2, ResetIsSound, CalibrationConstants
  <2>4. old_rpy' \in Angles /\ IsValid(old_rpy')
    BY <2>1, <2>2, ValidIsAngle
  <2> QED BY <2>1, <2>2, <2>3, <2>4, CalibrationConstants DEF Sound, CalibratedIsSound, IsValid
<1>6. CASE ~Drifted(taken)
  <2>1. /\ block_rpys' = blocks /\ sample_idx' = samples /\ block_idx' = filling
        /\ old_rpy' = old_rpy /\ old_weight' = weight
        /\ snapshot' = taken
    BY <1>6 DEF UpdateStatus
  <2> HIDE DEF taken
  <2>2. taken.status = "calibrated" => taken.spread <= MaxSpread
    <3>1. taken.spread \in Int
      BY <1>1 DEF SnapshotType
    <3> QED BY <1>6, <3>1, CalibrationConstants DEF Drifted
  <2> QED BY <1>1, <1>2, <1>4, <2>1, <2>2 DEF CalibratedIsSound, IsValid
<1> QED BY <1>5, <1>6

LEMMA ObserveKeeps ==
  ASSUME CalibrationInv, NEW straight \in BOOLEAN, NEW certain \in BOOLEAN,
         NEW move \in -MaxMove .. MaxMove, Observe(straight, certain, move)
  PROVE  /\ block_rpys' \in [Blocks -> Angles]
         /\ sample_idx' \in 0 .. BlockSize - 1 /\ block_idx' \in Blocks
         /\ old_rpy' \in Angles /\ old_weight' \in 0 .. SmoothCycles
         /\ snapshot' \in SnapshotType
         /\ CalibratedIsSound'
<1> DEFINE weight == Max({0, old_weight - 1})
<1>1. old_weight \in 0 .. SmoothCycles
  BY DEF CalibrationInv, CalibrationTypeOK
<1>2. weight = IF 0 >= old_weight - 1 THEN 0 ELSE old_weight - 1
  <2>1. 0 \in Int /\ old_weight - 1 \in Int
    BY <1>1
  <2> QED BY <2>1, MaxMinTwo
<1>3. weight \in 0 .. SmoothCycles /\ (weight > 0 => IsValid(old_rpy))
  <2>1. weight > 0 => old_weight > 0
    BY <1>1, <1>2
  <2>2. weight \in 0 .. SmoothCycles
    BY <1>1, <1>2, CalibrationConstants
  <2> HIDE DEF weight
  <2> QED BY <2>1, <2>2 DEF CalibrationInv, CalibratedIsSound
<1>4. IF Usable(straight, certain) THEN Accept(move, weight) ELSE Reject(weight)
  BY DEF Observe
<1> HIDE DEF weight
<1>5. CASE ~Usable(straight, certain)
  <2>1. old_weight' = weight /\ UNCHANGED <<block_rpys, sample_idx, block_idx, old_rpy, snapshot>>
    BY <1>4, <1>5 DEF Reject
  <2> QED BY <1>3, <2>1 DEF CalibrationInv, CalibrationTypeOK, CalibratedIsSound, SnapshotType, IsValid
<1>6. CASE Usable(straight, certain)
  <2> DEFINE new == SanityClip(Smoothed(old_rpy, weight, snapshot.rpy) + move)
             mixed == (sample_idx * block_rpys[block_idx] + (BlockSize - sample_idx) * new) \div BlockSize
             blocks == [block_rpys EXCEPT ![block_idx] = mixed]
             samples == (sample_idx + 1) % BlockSize
  <2>1. /\ old_rpy \in Angles /\ snapshot.rpy \in Angles /\ snapshot.valid_blocks \in 0 .. InputsWanted
        /\ block_rpys \in [Blocks -> Angles] /\ block_idx \in Blocks /\ sample_idx \in 0 .. BlockSize - 1
    BY DEF CalibrationInv, CalibrationTypeOK
  <2>2. new \in Angles
    <3>1. PICK s \in Int : s = Smoothed(old_rpy, weight, snapshot.rpy) + move
      <4>1. Smoothed(old_rpy, weight, snapshot.rpy) \in Angles
        BY <1>3, <2>1, SmoothedBetween
      <4>2. MaxMove \in Nat
        BY CalibrationAssumption
      <4> QED BY <4>1, <4>2, CalibrationConstants DEF Angles
    <3>2. PICK l \in Int : l = Limit + 1 /\ l >= 0
      BY CalibrationConstants
    <3>3. Max({s, -l}) = IF s >= -l THEN s ELSE -l
      BY <3>1, <3>2, MaxMinTwo
    <3>4. PICK m \in Int : m = Max({s, -l}) /\ m >= -l
      BY <3>1, <3>2, <3>3
    <3>5. Min({m, l}) = IF m <= l THEN m ELSE l
      BY <3>2, <3>4, MaxMinTwo
    <3>6. Min({m, l}) \in -l .. l
      BY <3>2, <3>4, <3>5
    <3>7. new = Min({m, l})
      BY <3>1, <3>2, <3>4 DEF SanityClip
    <3> QED BY <3>2, <3>6, <3>7 DEF Angles
  <2> HIDE DEF new
  <2>3. mixed \in Angles
    <3>1. block_rpys[block_idx] \in Angles
      BY <2>1
    <3>2. /\ sample_idx \in 0 .. BlockSize /\ -(Limit + 1) \in Int /\ Limit + 1 \in Int
          /\ block_rpys[block_idx] \in -(Limit + 1) .. (Limit + 1) /\ new \in -(Limit + 1) .. (Limit + 1)
      BY <2>1, <2>2, <3>1, CalibrationConstants DEF Angles
    <3>3. mixed \in -(Limit + 1) .. (Limit + 1)
      BY <3>2, CalibrationConstants, WeightedBetween
    <3> QED BY <3>3 DEF Angles
  <2> HIDE DEF mixed
  <2>4. blocks \in [Blocks -> Angles]
    BY <2>1, <2>3
  <2>5. samples \in 0 .. BlockSize - 1 /\ 0 \in 0 .. BlockSize - 1
    BY <2>1, CalibrationConstants
  <2>6. PICK more \in 0 .. InputsWanted :
          more = Min({InputsWanted, Max({block_idx + 1, snapshot.valid_blocks})})
    <3>1. PICK i \in Int, v \in Int : /\ i = block_idx + 1 /\ v = snapshot.valid_blocks
                                      /\ i >= 0 /\ v >= 0
      BY <2>1, CalibrationConstants DEF Blocks
    <3>2. Max({i, v}) = IF i >= v THEN i ELSE v
      BY <3>1, MaxMinTwo
    <3>3. PICK m \in Int : m = Max({i, v}) /\ m >= 0
      BY <3>1, <3>2
    <3>4. Min({InputsWanted, m}) = IF InputsWanted <= m THEN InputsWanted ELSE m
      <4>1. InputsWanted \in Int
        BY CalibrationConstants
      <4> QED BY <4>1, MaxMinTwo
    <3>5. Min({InputsWanted, m}) \in 0 .. InputsWanted
      BY <3>3, <3>4, CalibrationConstants
    <3> QED BY <3>1, <3>3, <3>5
  <2>7. (block_idx + 1) % InputsWanted \in Blocks
    BY <2>1, CalibrationConstants DEF Blocks
  <2>8. IF samples # 0
        THEN UpdateStatus(blocks, snapshot.valid_blocks, samples, block_idx, weight)
        ELSE UpdateStatus(blocks, more, 0, (block_idx + 1) % InputsWanted, weight)
    BY <1>4, <1>6, <2>6 DEF Accept, new, mixed
  <2> HIDE DEF blocks, samples
  <2>9. CASE samples # 0
    <3>1. UpdateStatus(blocks, snapshot.valid_blocks, samples, block_idx, weight)
      BY <2>8, <2>9
    <3> QED BY <1>3, <2>1, <2>4, <2>5, <3>1, UpdateKeeps
  <2>10. CASE ~(samples # 0)
    <3>1. UpdateStatus(blocks, more, 0, (block_idx + 1) % InputsWanted, weight)
      BY <2>8, <2>10
    <3> QED BY <1>3, <2>4, <2>5, <2>6, <2>7, <3>1, UpdateKeeps
  <2> QED BY <2>9, <2>10
<1> QED BY <1>5, <1>6

LEMMA SavedIsSound ==
  ASSUME CalibrationTypeOK, NEW rpy, IsValid(rpy), snapshot' \in SnapshotType, Sound(snapshot'),
         snapshot'.status = "calibrated" \/ (snapshot'.spread = 0 /\ snapshot'.valid_blocks >= InputsNeeded),
         Save(rpy, snapshot')
  PROVE  /\ persisted' \in Angles \cup {Nothing} /\ persist_age' \in 0 .. PersistInterval
         /\ calibration_file' \in [rpy : Angles, spread : 0 .. 2 * Limit + 2, blocks : 0 .. InputsWanted]
         /\ StoredIsTakenUp'
<1>1. rpy \in Angles
  BY ValidIsAngle
<1>2. /\ calibration_file' = [rpy |-> rpy, spread |-> snapshot'.spread, blocks |-> snapshot'.valid_blocks]
      /\ persisted' = rpy /\ persist_age' = 0
  BY DEF Save
<1>3. /\ snapshot'.spread \in 0 .. 2 * Limit + 2 /\ snapshot'.valid_blocks \in 0 .. InputsWanted
  BY DEF SnapshotType
<1>4. snapshot'.spread <= MaxSpread /\ snapshot'.valid_blocks >= InputsNeeded
  BY CalibrationConstants DEF Sound
<1> QED BY <1>1, <1>2, <1>3, <1>4, CalibrationConstants DEF StoredIsTakenUp, IsValid

LEMMA PoseKeeps ==
  ASSUME CalibrationInv, NEW straight \in BOOLEAN, NEW certain \in BOOLEAN,
         NEW move \in -MaxMove .. MaxMove, Pose(straight, certain, move)
  PROVE  CalibrationInv'
<1>1. /\ mode = "auto" /\ mode' = mode
      /\ Observe(straight, certain, move)
      /\ online_rpy' = Smoothed(old_rpy', old_weight', snapshot'.rpy)
  BY DEF Pose
<1>2. /\ block_rpys' \in [Blocks -> Angles]
      /\ sample_idx' \in 0 .. BlockSize - 1 /\ block_idx' \in Blocks
      /\ old_rpy' \in Angles /\ old_weight' \in 0 .. SmoothCycles
      /\ snapshot' \in SnapshotType
      /\ CalibratedIsSound'
  BY <1>1, ObserveKeeps
<1>3. snapshot'.rpy \in Angles /\ Sound(snapshot')
  BY <1>2 DEF SnapshotType, CalibratedIsSound, Sound, IsValid
<1>4. /\ online_rpy' \in Angles
      /\ snapshot'.status = "calibrated" => IsValid(online_rpy')
  <2>1. old_weight' > 0 => IsValid(old_rpy')
    BY <1>2 DEF CalibratedIsSound, IsValid
  <2>2. snapshot'.status = "calibrated" => IsValid(snapshot'.rpy)
    BY <1>3 DEF Sound
  <2> QED BY <1>1, <1>2, <1>3, <2>1, <2>2, SmoothedBetween
<1>5. CalibratedInputIsValid'
  BY <1>1, <1>3, <1>4 DEF CalibratedInputIsValid, Sound, IsValid
<1>6. /\ persisted' \in Angles \cup {Nothing} /\ persist_age' \in 0 .. PersistInterval
      /\ calibration_file' \in [rpy : Angles, spread : 0 .. 2 * Limit + 2, blocks : 0 .. InputsWanted]
      /\ StoredIsTakenUp'
  <2>1. CASE PersistDue(straight, certain) /\ Save(online_rpy', snapshot')
    <3>1. snapshot'.status = "calibrated" /\ IsValid(online_rpy')
      BY <1>4, <2>1 DEF PersistDue
    <3> QED BY <1>2, <1>3, <2>1, <3>1, SavedIsSound DEF CalibrationInv
  <2>2. CASE UNCHANGED <<persisted, persist_age, calibration_file>>
    BY <2>2 DEF CalibrationInv, CalibrationTypeOK, StoredIsTakenUp, IsValid
  <2> QED BY <2>1, <2>2 DEF Pose
<1>7. mode' \in Modes
  BY <1>1 DEF Modes
<1> QED BY <1>2, <1>4, <1>5, <1>6, <1>7 DEF CalibrationInv, CalibrationTypeOK, SnapshotType

LEMMA ClearedKeeps ==
  ASSUME NEW rpy \in Angles, NEW spread \in 0 .. 2 * Limit + 2, spread <= MaxSpread,
         NEW blocks \in Nat, Cleared(rpy, spread, blocks)
  PROVE  /\ block_rpys' \in [Blocks -> Angles]
         /\ sample_idx' \in 0 .. BlockSize - 1 /\ block_idx' \in Blocks
         /\ old_rpy' \in Angles /\ old_weight' \in 0 .. SmoothCycles
         /\ snapshot' \in SnapshotType /\ Sound(snapshot')
         /\ snapshot'.rpy = rpy /\ snapshot'.spread = spread
         /\ blocks >= InputsNeeded => snapshot'.valid_blocks >= InputsNeeded
         /\ CalibratedIsSound'
<1>1. Min({blocks, InputsWanted}) = IF blocks <= InputsWanted THEN blocks ELSE InputsWanted
  <2>1. blocks \in Int /\ InputsWanted \in Int
    BY CalibrationConstants
  <2> QED BY <2>1, MaxMinTwo
<1>2. PICK v \in 0 .. InputsWanted :
        v = Min({blocks, InputsWanted}) /\ (blocks >= InputsNeeded => v >= InputsNeeded)
  BY <1>1, CalibrationConstants
<1>3. snapshot' = ResetSnapshot(rpy, spread, v)
  BY <1>2 DEF Cleared
<1>4. /\ block_rpys' = [b \in Blocks |-> rpy] /\ sample_idx' = 0 /\ block_idx' = 0
      /\ old_rpy' = 0 /\ old_weight' = 0
  BY DEF Cleared
<1>5. snapshot' \in SnapshotType /\ Sound(snapshot') /\ snapshot'.rpy = rpy
  BY <1>3, ResetIsSound
<1>6. snapshot'.valid_blocks = v /\ snapshot'.spread = spread
  BY <1>3 DEF ResetSnapshot
<1> QED BY <1>2, <1>4, <1>5, <1>6, CalibrationConstants DEF Sound, CalibratedIsSound, IsValid

LEMMA RestoredKeeps ==
  ASSUME NEW rpy \in Angles, NEW spread \in 0 .. 2 * Limit + 2, spread <= MaxSpread,
         NEW blocks \in Nat, Restored(rpy, spread, blocks)
  PROVE  /\ block_rpys' \in [Blocks -> Angles]
         /\ sample_idx' \in 0 .. BlockSize - 1 /\ block_idx' \in Blocks
         /\ old_rpy' \in Angles /\ old_weight' \in 0 .. SmoothCycles
         /\ snapshot' \in SnapshotType /\ Sound(snapshot')
         /\ IsValid(rpy) => snapshot'.spread = spread /\ snapshot'.valid_blocks >= InputsNeeded
         /\ CalibratedIsSound'
<1>1. Max({InputsNeeded, blocks}) = IF InputsNeeded >= blocks THEN InputsNeeded ELSE blocks
  <2>1. blocks \in Int /\ InputsNeeded \in Int
    BY CalibrationConstants
  <2> QED BY <2>1, MaxMinTwo
<1>2. PICK n \in Nat : n = Max({InputsNeeded, blocks}) /\ n >= InputsNeeded
  BY <1>1, CalibrationConstants
<1>3. CASE IsValid(rpy)
  <2>1. Cleared(rpy, spread, n)
    BY <1>2, <1>3 DEF Restored
  <2> QED BY <1>2, <2>1, ClearedKeeps
<1>4. CASE ~IsValid(rpy)
  <2>1. Cleared(0, 0, 0)
    BY <1>4 DEF Restored
  <2>2. 0 \in Angles /\ 0 \in 0 .. 2 * Limit + 2 /\ 0 <= MaxSpread /\ 0 \in Nat
    BY CalibrationConstants
  <2> QED BY <1>4, <2>1, <2>2, ClearedKeeps
<1> QED BY <1>3, <1>4

LEMMA StartKeeps ==
  ASSUME CalibrationInv, NEW next_mode \in Modes, NEW manual \in Angles, StartModeld(next_mode, manual)
  PROVE  CalibrationInv'
<1> USE DEF CalibrationInv
<1>1. /\ calibration_file.rpy \in Angles /\ calibration_file.spread \in 0 .. 2 * Limit + 2
      /\ calibration_file.blocks \in 0 .. InputsWanted /\ calibration_file.blocks \in Nat
      /\ calibration_file # NoFile => IsValid(calibration_file.rpy) /\ calibration_file.spread <= MaxSpread
  BY CalibrationConstants DEF CalibrationTypeOK, StoredIsTakenUp
<1>2. mode' = next_mode
  BY DEF StartModeld
<1>3. 0 \in Angles /\ 0 \in 0 .. 2 * Limit + 2 /\ 0 <= MaxSpread /\ 0 \in Nat /\ 5 \in Nat
      /\ 0 \in 0 .. PersistInterval
  BY CalibrationConstants
<1>4. CASE next_mode = "manual"
  <2>1. Restored(manual, 0, 5) /\ online_rpy' = 0
    BY <1>4 DEF StartModeld
  <2>2. /\ block_rpys' \in [Blocks -> Angles]
        /\ sample_idx' \in 0 .. BlockSize - 1 /\ block_idx' \in Blocks
        /\ old_rpy' \in Angles /\ old_weight' \in 0 .. SmoothCycles
        /\ snapshot' \in SnapshotType /\ Sound(snapshot')
        /\ IsValid(manual) => snapshot'.spread = 0 /\ snapshot'.valid_blocks >= InputsNeeded
        /\ CalibratedIsSound'
    BY <1>3, <2>1, RestoredKeeps
  <2>3. /\ persisted' \in Angles \cup {Nothing} /\ persist_age' \in 0 .. PersistInterval
        /\ calibration_file' \in [rpy : Angles, spread : 0 .. 2 * Limit + 2, blocks : 0 .. InputsWanted]
        /\ StoredIsTakenUp'
    <3>1. CASE IsValid(manual) /\ Save(manual, snapshot')
      BY <2>2, <3>1, SavedIsSound
    <3>2. CASE /\ persisted' = (IF calibration_file # NoFile THEN calibration_file.rpy ELSE Nothing)
               /\ persist_age' = 0 /\ UNCHANGED calibration_file
      <4>1. persisted' \in Angles \cup {Nothing}
        BY <1>1, <3>2
      <4> QED BY <1>3, <3>2, <4>1 DEF CalibrationTypeOK, StoredIsTakenUp, IsValid
    <3> QED BY <1>4, <3>1, <3>2 DEF StartModeld
  <2>4. CalibratedInputIsValid'
    BY <1>2, <1>4 DEF CalibratedInputIsValid
  <2> QED BY <1>2, <1>3, <2>1, <2>2, <2>3, <2>4 DEF CalibrationTypeOK, SnapshotType
<1>5. CASE next_mode # "manual"
  <2>1. /\ IF calibration_file # NoFile
           THEN Restored(calibration_file.rpy, calibration_file.spread, calibration_file.blocks)
           ELSE Cleared(0, 0, 0)
        /\ persisted' = IF calibration_file # NoFile /\ IsValid(calibration_file.rpy)
                        THEN calibration_file.rpy ELSE Nothing
        /\ persist_age' = 0
        /\ online_rpy' = IF next_mode = "auto" THEN snapshot'.rpy ELSE 0
        /\ UNCHANGED calibration_file
    BY <1>5 DEF StartModeld
  <2>2. /\ block_rpys' \in [Blocks -> Angles]
        /\ sample_idx' \in 0 .. BlockSize - 1 /\ block_idx' \in Blocks
        /\ old_rpy' \in Angles /\ old_weight' \in 0 .. SmoothCycles
        /\ snapshot' \in SnapshotType /\ Sound(snapshot')
        /\ CalibratedIsSound'
    <3>1. CASE calibration_file # NoFile
      <4>1. Restored(calibration_file.rpy, calibration_file.spread, calibration_file.blocks)
        BY <2>1, <3>1
      <4> QED BY <1>1, <3>1, <4>1, RestoredKeeps
    <3>2. CASE ~(calibration_file # NoFile)
      <4>1. Cleared(0, 0, 0)
        BY <2>1, <3>2
      <4> QED BY <1>3, <4>1, ClearedKeeps
    <3> QED BY <3>1, <3>2
  <2>3. snapshot'.rpy \in Angles
    BY <2>2 DEF SnapshotType
  <2>4. online_rpy' \in Angles /\ (next_mode = "auto" => online_rpy' = snapshot'.rpy)
    BY <1>3, <2>1, <2>3
  <2>5. CalibratedInputIsValid'
    BY <1>2, <2>2, <2>4 DEF CalibratedInputIsValid, Sound, IsValid
  <2>6. persisted' \in Angles \cup {Nothing}
    BY <1>1, <2>1
  <2>7. StoredIsTakenUp'
    BY <2>1 DEF StoredIsTakenUp, IsValid
  <2> QED BY <1>2, <1>3, <2>1, <2>2, <2>4, <2>5, <2>6, <2>7 DEF CalibrationTypeOK, SnapshotType
<1> QED BY <1>4, <1>5

LEMMA CalibrationInitially == CalibrationInit => CalibrationInv
<1> SUFFICES ASSUME CalibrationInit PROVE CalibrationInv
  OBVIOUS
<1> USE CalibrationConstants
<1>1. snapshot = [rpy |-> 0, spread |-> 0, valid_blocks |-> 0, status |-> "uncalibrated"]
  BY DEF CalibrationInit, ResetSnapshot, StatusOf
<1>2. snapshot \in SnapshotType
  BY <1>1 DEF SnapshotType
<1>3. calibration_file = NoFile /\ NoFile \in [rpy : Angles, spread : 0 .. 2 * Limit + 2, blocks : 0 .. InputsWanted]
  BY DEF CalibrationInit, NoFile
<1>4. CalibrationTypeOK
  BY <1>2, <1>3 DEF CalibrationInit, CalibrationTypeOK, SnapshotType, Modes
<1>5. CalibratedIsSound /\ CalibratedInputIsValid /\ StoredIsTakenUp
  BY <1>1, <1>3 DEF CalibrationInit, CalibratedIsSound, CalibratedInputIsValid, StoredIsTakenUp
<1> QED BY <1>4, <1>5 DEF CalibrationInv

LEMMA CalibrationStep == CalibrationInv /\ [CalibrationNext]_calibrationVars => CalibrationInv'
<1> SUFFICES ASSUME CalibrationInv, [CalibrationNext]_calibrationVars PROVE CalibrationInv'
  OBVIOUS
<1>1. ASSUME NEW straight \in BOOLEAN, NEW certain \in BOOLEAN, NEW move \in -MaxMove .. MaxMove,
             Pose(straight, certain, move)
      PROVE  CalibrationInv'
  BY <1>1, PoseKeeps
<1>2. CASE PersistTick
  <2>1. /\ UNCHANGED <<mode, calibrator, online_rpy, persisted, calibration_file>>
        /\ persist_age' \in 0 .. PersistInterval
    BY <1>2, CalibrationConstants DEF PersistTick, CalibrationInv, CalibrationTypeOK
  <2> QED BY <2>1 DEF calibrator, CalibrationInv, CalibrationTypeOK, CalibratedIsSound,
             CalibratedInputIsValid, StoredIsTakenUp, IsValid
<1>3. ASSUME NEW manual \in Angles, StartModeld("manual", manual) PROVE CalibrationInv'
  <2>1. "manual" \in Modes
    BY DEF Modes
  <2> QED BY <1>3, <2>1, StartKeeps
<1>4. ASSUME NEW next_mode \in Modes, StartModeld(next_mode, 0) PROVE CalibrationInv'
  BY <1>4, CalibrationConstants, StartKeeps
<1>5. CASE UNCHANGED calibrationVars
  BY <1>5 DEF calibrationVars, calibrator, CalibrationInv, CalibrationTypeOK, CalibratedIsSound,
     CalibratedInputIsValid, StoredIsTakenUp, IsValid
<1> QED BY <1>1, <1>2, <1>3, <1>4, <1>5 DEF CalibrationNext

-----------------------------------------------------------------------------
(* The composed module: one component moves, the others keep their state.  *)

ComponentsInv == BridgeInv /\ CalibrationInv /\ ModelInv

LEMMA AtMostOneDeviceMoves ==
  ASSUME [DevicesNext]_devicesVars
  PROVE  [BridgeNext]_bridgeVars /\ [CalibrationNext]_calibrationVars /\ [ModelNext]_historyVars
<1>1. CASE BridgeMoves
  BY <1>1 DEF BridgeMoves
<1>2. CASE CalibrationMoves
  BY <1>2 DEF CalibrationMoves
<1>3. CASE HistoryMoves
  BY <1>3 DEF HistoryMoves
<1>4. CASE UNCHANGED devicesVars
  BY <1>4 DEF devicesVars
<1> QED BY <1>1, <1>2, <1>3, <1>4 DEF DevicesNext

LEMMA ComponentsHold == DevicesSpec => []ComponentsInv
<1>1. DevicesInit => ComponentsInv
  BY BridgeInitially, CalibrationInitially, ModelInitially DEF DevicesInit, ComponentsInv
<1>2. BridgeInv /\ [BridgeNext]_bridgeVars => BridgeInv'
  BY TypeKept, LinkKept, FramesKept, WireKept DEF BridgeInv
<1>3. ComponentsInv /\ [DevicesNext]_devicesVars => ComponentsInv'
  BY <1>2, AtMostOneDeviceMoves, CalibrationStep, ModelStep DEF ComponentsInv
<1> QED BY <1>1, <1>3, PTL DEF DevicesSpec

(* The inductive invariants of all components hold in the composition.     *)
THEOREM DevicesInvariant == DevicesSpec => []DevicesInv
<1>1. ComponentsInv => DevicesInv
  BY DEF ComponentsInv, DevicesInv
<1> QED BY <1>1, ComponentsHold, PTL

(* Through drift, restarts, manual and stored orientations the calibration *)
(* in use while the camera counts as calibrated is one a mounted camera    *)
(* can have, and calibration.json holds only what the next start takes up. *)
THEOREM DevicesKeepCalibration == DevicesSpec => []CalibrationIsKept
<1>1. ComponentsInv => CalibrationIsKept
  BY DEF ComponentsInv, CalibrationInv, CalibrationIsKept
<1> QED BY <1>1, ComponentsHold, PTL

(* The newest features and the earlier picture the network gets are of one *)
(* frame, and a desire that lasts is one pulse.                            *)
THEOREM DevicesFeedModelRight == DevicesSpec => ModelIsFedRight
<1>1. ComponentsInv => HistoriesAgree
  BY DEF ComponentsInv, ModelInv
<1>2. ComponentsInv /\ [DevicesNext]_devicesVars
        => [Last(desire_history') # "none" /\ desire_history' # desire_history
             => prev_desire # prev_desire' /\ Last(desire_history') = prev_desire']_historyVars
  BY AtMostOneDeviceMoves, PulseOfAsk DEF ComponentsInv
<1> QED BY <1>1, <1>2, ComponentsHold, PTL DEF DevicesSpec, ModelIsFedRight, OnePulseAsk

(* Batches reach the car in order, each on the wire once and from its      *)
(* beginning, and account for the frames received, in the composition too. *)
THEOREM DevicesSendInOrder == DevicesSpec => [](WireInOrder /\ BatchesAccountForFrames)
<1>1. ComponentsInv => WireInOrder /\ BatchesAccountForFrames
  BY DEF ComponentsInv, BridgeInv, WireInv, FramesInv
<1> QED BY <1>1, ComponentsHold, PTL

(* Nothing reaches the car, and no consent is reported, over a connection  *)
(* whose safety model Panda has not confirmed.                             *)
THEOREM DevicesOnlyConfirmed == DevicesSpec => OnlyConfirmed
<1>1. DevicesInit => BridgeInit
  BY DEF DevicesInit
<1>2. [DevicesNext]_devicesVars => [BridgeNext]_bridgeVars
  BY AtMostOneDeviceMoves
<1>3. DevicesSpec => BridgeSpec
  BY <1>1, <1>2, PTL DEF DevicesSpec, BridgeSpec
<1> QED BY <1>3, BridgeOnlyConfirmed
=============================================================================
