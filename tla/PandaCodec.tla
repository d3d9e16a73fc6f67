----------------------------- MODULE PandaCodec -----------------------------
(***************************************************************************)
(* How CAN frames travel over the USB link to Panda (panda_can_codec.cc):  *)
(* a frame is a header and its data, frames follow each other without a    *)
(* gap, and the stream is cut into packets that begin with their number.   *)
(* A frame may lie across packets, and a transfer may end inside one.      *)
(*                                                                         *)
(* A byte is told by the frame it belongs to and its place in it; the      *)
(* first byte of a header holds the length (its DLC).                      *)
(***************************************************************************)
EXTENDS Naturals, SequencesExt

CONSTANTS
  PacketSize,   \* kUsbPacketMaxSize, 64
  HeadSize,     \* kCanPacketHeadSize, 5
  Lengths,      \* the lengths a DLC can say
  Addresses,
  Counters,     \* 256: the number of a packet is a byte
  MaxCodecFrames

ASSUME CodecAssumption ==
  /\ PacketSize \in Nat /\ PacketSize > 1 /\ HeadSize \in Nat \ {0}
  /\ Lengths \subseteq Nat /\ Counters \in Nat \ {0} /\ MaxCodecFrames \in Nat

CodecFrames == [address : Addresses, length : Lengths]

VARIABLE codec_frames   \* the frames of one transfer

(* The bytes of a frame: its header, then its data. *)
FrameBytes(frame) == [i \in 1 .. HeadSize + frame.length |-> [frame |-> frame, at |-> i]]

Garbled == [address |-> "garbled", length |-> 0]

PacketNumber(size) == [frame |-> Garbled, at |-> (size \div PacketSize) % Counters]

AppendedPerFrame(stream, byte) ==
  Append(IF byte.at = 1 THEN Append(stream, PacketNumber(Len(stream))) ELSE stream, byte)

(* append_packet_bytes(): a packet's number goes before its first byte. *)
Appended(stream, byte) ==
  Append(IF Len(stream) % PacketSize = 0 THEN Append(stream, PacketNumber(Len(stream)))
         ELSE stream,
         byte)

(* panda_can_pack_buffer() of frames it accepts: addresses of 29 bits,     *)
(* transmit buses, lengths a DLC can say, no receive flags.                *)
Pack(frames) == FoldLeft(Appended, <<>>, FlattenSeq([i \in DOMAIN frames |-> FrameBytes(frames[i])]))

Malformed == [ok |-> FALSE, frames |-> <<>>]

(* The frame that the bytes from pos on say, and whether they are all      *)
(* there; bytes of several frames make up a frame nobody sent.             *)
FrameAt(bytes, pos) ==
  LET head == bytes[pos]
      frame == IF head.at = 1 THEN head.frame ELSE Garbled
      size == HeadSize + frame.length
      complete == pos + size - 1 <= Len(bytes)
      whole == complete /\ SubSeq(bytes, pos, pos + size - 1) = FrameBytes(frame)
  IN  [complete |-> complete, size |-> size, frame |-> IF whole THEN frame ELSE Garbled]

(* panda_can_unpack_buffer(): the numbers are checked and taken out, then  *)
(* frames read until the bytes end; a frame that does not end with them    *)
(* makes the whole transfer malformed.                                     *)
Unpack(data) ==
  LET numbered == \A i \in DOMAIN data :
                    (i - 1) % PacketSize = 0 => data[i] = PacketNumber(i - 1)
      starts == {i \in DOMAIN data : (i - 1) % PacketSize = 0}
      bytes == FoldLeft(LAMBDA seen, i : IF i \in starts THEN seen ELSE Append(seen, data[i]),
                        <<>>, [i \in DOMAIN data |-> i])
      parsed[pos \in 1 .. Len(bytes) + 1] ==
        IF pos = Len(bytes) + 1 THEN [ok |-> TRUE, frames |-> <<>>]
        ELSE IF pos + HeadSize - 1 > Len(bytes) THEN Malformed
        ELSE LET read == FrameAt(bytes, pos)
             IN  IF ~read.complete THEN Malformed
                 ELSE LET rest == parsed[pos + read.size]
                      IN  IF rest.ok THEN [ok |-> TRUE, frames |-> <<read.frame>> \o rest.frames]
                          ELSE Malformed
  IN  IF numbered THEN parsed[1] ELSE Malformed

CodecInit == codec_frames = <<>>

(* One more frame in the transfer. *)
AddFrame ==
  /\ Len(codec_frames) < MaxCodecFrames
  /\ \E frame \in CodecFrames : codec_frames' = Append(codec_frames, frame)

CodecSpec == CodecInit /\ [][AddFrame]_codec_frames

-----------------------------------------------------------------------------
(* Properties *)

(* What is packed is unpacked as it was, and a transfer that breaks off    *)
(* anywhere gives the frames before the break or is refused: never a frame *)
(* that was not sent, however frames and packets lie across each other.    *)
RoundTrip ==
  LET data == Pack(codec_frames)
  IN  /\ Unpack(data) = [ok |-> TRUE, frames |-> codec_frames]
      /\ \A size \in 0 .. Len(data) :
           LET unpacked == Unpack(SubSeq(data, 1, size))
           IN  unpacked.ok => IsPrefix(unpacked.frames, codec_frames)

=============================================================================
