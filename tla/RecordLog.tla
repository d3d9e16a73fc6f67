----------------------------- MODULE RecordLog ------------------------------
(***************************************************************************)
(* The files of a recording (recording_writer.cc, recording_format.h) and  *)
(* what the offline reader finds in them (tools/model/recording_reader.py).*)
(* An event chunk is a header and records, each a header with the size of  *)
(* the payload that follows.  A segment is a video, which begins with the  *)
(* codec's configuration, and an index that says where each packet lies.   *)
(* A write may fall short (a full file system); the writer goes on.  The   *)
(* process may die and leave any prefix of a file.                         *)
(*                                                                         *)
(* A unit of a file is told by the record or packet it belongs to and its  *)
(* place in it; what a reader puts together from several is Garbled.       *)
(***************************************************************************)
EXTENDS Naturals, SequencesExt

CONSTANTS
  HeaderUnits,   \* of a record's header
  PayloadSizes, PacketSizes,
  ConfigSize,    \* of the codec's configuration
  MaxWrites, MaxFiles   \* bounds

ASSUME LogAssumption ==
  /\ {HeaderUnits, MaxWrites, MaxFiles} \subseteq Nat \ {0} /\ ConfigSize \in Nat
  /\ PayloadSizes \subseteq Nat /\ PacketSizes \subseteq Nat \ {0}

Garbled == 0
ConfigUnit == [of |-> Garbled, at |-> 0]

VARIABLES
  chunks,    \* the event chunks, the last one open unless `writing` says otherwise
  segments,  \* the segments, the last one open
  writing    \* the next number, whether a chunk is open, video_offset_

logVars == <<chunks, segments, writing>>

(* A new chunk or segment, and what was written to it before any write of  *)
(* it fell short.                                                          *)
NewChunk == [units |-> <<>>, sound |-> <<>>, damaged |-> FALSE]
NewSegment ==
  [video |-> [i \in 1 .. ConfigSize |-> ConfigUnit], index |-> <<>>,
   sound |-> <<>>, damaged |-> FALSE]

LogInit ==
  /\ chunks = <<NewChunk>>
  /\ segments = <<NewSegment>>
  /\ writing = [next |-> 1, open |-> TRUE, offset |-> ConfigSize]

-----------------------------------------------------------------------------
(* The writer *)

Units(number, first, last) == [i \in 1 .. last - first + 1 |-> [of |-> number, at |-> first + i - 1]]
OfRecord(number, size) ==
  <<[of |-> number, at |-> 1, size |-> size]>> \o Units(number, 2, HeaderUnits + size)

Numbered == writing' = [writing EXCEPT !.next = @ + 1]

(* write_record_impl() and write_event_header(): fwrite() of the header    *)
(* and of the payload; a short one ends the record where it ended.         *)
AppendRecord ==
  /\ writing.open /\ writing.next <= MaxWrites
  /\ \E size \in PayloadSizes : \E done \in 0 .. HeaderUnits + size :
       LET record == OfRecord(writing.next, size)
           file == Last(chunks)
           short == done < Len(record)
       IN  chunks' = [chunks EXCEPT ![Len(chunks)] =
             [units |-> file.units \o SubSeq(record, 1, done),
              sound |-> IF short \/ file.damaged THEN file.sound
                        ELSE Append(file.sound, writing.next),
              damaged |-> file.damaged \/ (short /\ done > 0)]]
  /\ Numbered
  /\ UNCHANGED segments

(* close_event_chunk() and open_event_chunk(); when the next chunk cannot  *)
(* be opened nothing more is written to this route.                        *)
RotateChunk ==
  /\ writing.open /\ Len(chunks) < MaxFiles
  /\ \E opened \in BOOLEAN :
       /\ chunks' = IF opened THEN Append(chunks, NewChunk) ELSE chunks
       /\ writing' = [writing EXCEPT !.open = opened]
  /\ UNCHANGED segments

Indexed(part, number, size) ==
  Append(part.index, [of |-> number, offset |-> writing.offset, size |-> size])

(* write_encoded_frame_impl(): the packet to the video, then its place to  *)
(* the index.  The offset moves on only when both were written whole.      *)
AppendPacket ==
  /\ writing.open /\ writing.next <= MaxWrites
  /\ \E size \in PacketSizes : \E done \in 0 .. size, placed \in BOOLEAN :
       LET part == Last(segments)
           whole == done = size /\ placed
       IN  /\ done < size => ~placed
           /\ segments' = [segments EXCEPT ![Len(segments)] =
                [video |-> part.video \o Units(writing.next, 1, done),
                 index |-> IF placed THEN Indexed(part, writing.next, size)
                           ELSE part.index,
                 sound |-> IF whole /\ ~part.damaged
                           THEN Append(part.sound, writing.next) ELSE part.sound,
                 damaged |-> part.damaged \/ (~whole /\ done > 0)]]
           /\ writing' = [writing EXCEPT !.next = @ + 1,
                                         !.offset = IF whole THEN @ + size ELSE @]
  /\ UNCHANGED chunks

OffsetWithoutConfig == 0

(* Where the first packet of a segment lies. *)
FirstOffset == ConfigSize

(* close_segment() and open_segment() *)
RotateSegment ==
  /\ writing.open /\ Len(segments) < MaxFiles
  /\ segments' = Append(segments, NewSegment)
  /\ writing' = [writing EXCEPT !.offset = FirstOffset]
  /\ UNCHANGED chunks

LogNext == AppendRecord \/ RotateChunk \/ AppendPacket \/ RotateSegment
LogSpec == LogInit /\ [][LogNext]_logVars

-----------------------------------------------------------------------------
(* The reader *)

HeaderTorn(units, pos) == pos + HeaderUnits - 1 > Len(units)

(* iter_event_records(): the records of a chunk, up to a torn one. *)
RecordsOf(units) ==
  LET read[pos \in 1 .. Len(units) + 1] ==
        IF HeaderTorn(units, pos) THEN <<>>
        ELSE IF units[pos].at # 1 THEN <<Garbled>>
        ELSE LET size == units[pos].size
                 end == pos + HeaderUnits + size - 1
             IN  IF end > Len(units) THEN <<>>
                 ELSE IF SubSeq(units, pos, end) = OfRecord(units[pos].of, size)
                      THEN <<units[pos].of>> \o read[end + 1]
                      ELSE <<Garbled>>
  IN  read[1]

(* read_segment_index() and the bytes that a record of the index covers. *)
PacketAt(bytes, place) ==
  LET end == place.offset + place.size
      covered == SubSeq(bytes, place.offset + 1, IF end > Len(bytes) THEN Len(bytes) ELSE end)
  IN  IF covered = Units(place.of, 1, place.size) THEN place.of ELSE Garbled

PacketsOf(part) == [i \in DOMAIN part.index |-> PacketAt(part.video, part.index[i])]

-----------------------------------------------------------------------------
(* Properties *)

(* However a file is cut, the reader finds the records of a chunk in their *)
(* order and nothing else, and every packet of a segment where the index   *)
(* says; a write that falls short spoils what follows it in its own chunk  *)
(* or segment, never the one before or after.                              *)
DamageStaysInItsFile ==
  /\ \A i \in DOMAIN chunks :
       LET file == chunks[i] IN
       /\ IsPrefix(file.sound, RecordsOf(file.units))
       /\ ~file.damaged =>
            /\ RecordsOf(file.units) = file.sound
            /\ \A cut \in 0 .. Len(file.units) :
                 IsPrefix(RecordsOf(SubSeq(file.units, 1, cut)), file.sound)
  /\ \A i \in DOMAIN segments :
       LET part == segments[i] IN
       /\ IsPrefix(part.sound, PacketsOf(part))
       /\ ~part.damaged => PacketsOf(part) = part.sound
=============================================================================
