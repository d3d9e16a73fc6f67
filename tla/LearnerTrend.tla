---------------------------- MODULE LearnerTrend ---------------------------
(***************************************************************************)
(* How the page follows the learners (k230_param_server.py).  controlsd    *)
(* publishes learnerState (the seqlock of LatestChannel); LearnerMonitor   *)
(* reads it, once a second and for every poll of a page, and keeps a row   *)
(* of each in a bounded history; the page takes the history when the tab   *)
(* is opened, polls once a second and appends a row of each answer to a    *)
(* trend of its own.                                                       *)
(*                                                                         *)
(* A publication is named by the even sequence number it ends with, which  *)
(* is also its time.  The monitor and the requests are threads with one    *)
(* lock; polls overlap, and answers come in any order or not at all.       *)
(***************************************************************************)
EXTENDS Naturals, Sequences, SequencesExt

CONSTANTS
  MaxSeqNumber,  \* the publication after which controlsd falls silent: a bound of the model
  Tries,         \* tries of one read(): 4
  HistoryRows,   \* LEARNER_HISTORY_S, the length of the deque
  TrendWindow,   \* learnerWindow, in sequence numbers
  MaxPolls       \* requests of the page: a bound of the model

ASSUME TrendAssumption ==
  /\ {MaxSeqNumber, TrendWindow, MaxPolls} \subseteq Nat
  /\ {Tries, HistoryRows} \subseteq Nat \ {0}

VARIABLES
  region,    \* /dev/shm/k230_learner_state: its sequence number, its bytes in two halves
  publisher, \* place in publish(), and its even sequence number
  reader,    \* the thread with the lock: place in read(), for whom, and its locals
  monitor,   \* _last_seq and history
  asked,     \* requests under way
  polls,     \* requests so far
  tab        \* the page: learnerTimer is running, and learnerTrend

trendVars == <<region, publisher, reader, monitor, asked, polls, tab>>

Monitor == 0   \* the thread of the monitor; requests are 1 .. MaxPolls
Idle == [pc |-> "idle", who |-> Monitor, left |-> 0, before |-> 0, low |-> 0, high |-> 0]
Row(low, high) == [time |-> low, value |-> high]
Missing == <<>>

TrendInit ==
  /\ region = [seq |-> 0, low |-> 0, high |-> 0]
  /\ publisher = [pc |-> "idle", base |-> 0]
  /\ reader = Idle
  /\ monitor = [last |-> 0, history |-> <<>>]
  /\ asked = {} /\ polls = 0
  /\ tab = [open |-> FALSE, trend |-> <<>>]

-----------------------------------------------------------------------------
(* controlsd: publish(), which may die on its way and is started again. *)

PublishRow ==
  /\ \/ /\ publisher.pc = "idle" /\ region.seq + 2 <= MaxSeqNumber
        /\ LET base == region.seq + (region.seq % 2)
           IN  /\ publisher' = [pc |-> "low", base |-> base]
               /\ region' = [region EXCEPT !.seq = base + 1]
     \/ /\ publisher.pc = "low"
        /\ publisher' = [publisher EXCEPT !.pc = "high"]
        /\ region' = [region EXCEPT !.low = publisher.base + 2]
     \/ /\ publisher.pc = "high"
        /\ publisher' = [publisher EXCEPT !.pc = "close"]
        /\ region' = [region EXCEPT !.high = publisher.base + 2]
     \/ /\ publisher.pc = "close"
        /\ publisher' = [publisher EXCEPT !.pc = "idle"]
        /\ region' = [region EXCEPT !.seq = publisher.base + 2]
  /\ UNCHANGED <<reader, monitor, asked, polls, tab>>

PublisherDies ==
  /\ publisher.pc # "idle" /\ publisher' = [publisher EXCEPT !.pc = "idle"]
  /\ UNCHANGED <<region, reader, monitor, asked, polls, tab>>

-----------------------------------------------------------------------------
(* LearnerMonitor and LearnerStateReader *)

Of(kind, stage) == {r \in asked : r.kind = kind /\ r.stage = stage}
Answer(r, rows) == (asked \ {r}) \cup {[r EXCEPT !.stage = "answered", !.rows = rows]}

(* sample(): of the monitor itself, or of the request of a page. *)
BeginSample ==
  \E who \in {Monitor} \cup {r.id : r \in Of("row", "sent")} :
    /\ reader = Idle
    /\ reader' = [Idle EXCEPT !.pc = "header", !.who = who, !.left = Tries]
    /\ UNCHANGED <<region, publisher, monitor, asked, polls, tab>>

IsStable == region.seq # 0 /\ (region.seq % 2) = 0

(* A row of a snapshot with another sequence number joins the history,     *)
(* which starts again when the time of the row is before its last one.     *)
Appended(rows, row) ==
  LET going == IF rows # <<>> /\ row.time < Last(rows).time THEN <<>> ELSE rows
      all == Append(going, row)
  IN  IF Len(all) > HistoryRows THEN Tail(all) ELSE all

Sampled(number, row) ==
  IF number = monitor.last THEN monitor ELSE [last |-> number, history |-> Appended(monitor.history, row)]

(* The lock is free again, and the request of the page is answered. *)
Release(rows) ==
  /\ reader' = Idle
  /\ asked' = IF reader.who = Monitor THEN asked
              ELSE LET r == CHOOSE r \in asked : r.id = reader.who IN Answer(r, rows)

ReadHeader ==
  /\ reader.pc = "header"
  /\ IF IsStable
     THEN /\ reader' = [reader EXCEPT !.pc = "low", !.before = region.seq]
          /\ UNCHANGED asked
     ELSE Release(Missing)
  /\ UNCHANGED <<region, publisher, monitor, polls, tab>>

CopyPayload ==
  /\ reader' = CASE reader.pc = "low" -> [reader EXCEPT !.pc = "high", !.low = region.low]
                 [] reader.pc = "high" -> [reader EXCEPT !.pc = "check", !.high = region.high]
                 [] OTHER -> reader
  /\ reader.pc \in {"low", "high"}
  /\ UNCHANGED <<region, publisher, monitor, asked, polls, tab>>

Intact == region.seq = reader.before

CheckAgain ==
  /\ reader.pc = "check"
  /\ LET row == Row(reader.low, reader.high)
     IN  \/ Intact /\ Release(<<row>>) /\ monitor' = Sampled(reader.before, row)
         \/ /\ ~Intact /\ reader.left > 1
            /\ reader' = [reader EXCEPT !.pc = "header", !.left = @ - 1]
            /\ UNCHANGED <<monitor, asked>>
         \/ ~Intact /\ reader.left = 1 /\ Release(Missing) /\ UNCHANGED monitor
  /\ UNCHANGED <<region, publisher, polls, tab>>

(* trend() *)
CopyHistory ==
  \E r \in Of("trend", "sent") :
    /\ reader = Idle
    /\ asked' = Answer(r, monitor.history)
    /\ UNCHANGED <<region, publisher, reader, monitor, polls, tab>>

-----------------------------------------------------------------------------
(* The page *)

Asks(rest, kind) ==
  IF polls = MaxPolls THEN asked' = rest /\ UNCHANGED polls
  ELSE /\ polls' = polls + 1
       /\ asked' = rest \cup {[id |-> polls + 1, kind |-> kind, stage |-> "sent", rows |-> <<>>]}

(* renderLearners() up to its first await, and stopLearners(). *)
OpenTab ==
  /\ ~tab.open /\ polls < MaxPolls
  /\ tab' = [tab EXCEPT !.open = TRUE] /\ Asks(asked, "trend")
  /\ UNCHANGED <<region, publisher, reader, monitor>>

CloseTab ==
  /\ tab.open /\ tab' = [tab EXCEPT !.open = FALSE]
  /\ UNCHANGED <<region, publisher, reader, monitor, asked, polls>>

(* The rest of renderLearners(), with the history or without: the tab may  *)
(* have been closed, and rows may have come, in the meantime.              *)
TrendComes ==
  \E r \in Of("trend", "answered"), lost \in BOOLEAN :
    /\ tab' = IF lost THEN tab ELSE [tab EXCEPT !.trend = r.rows]
    /\ Asks(asked \ {r}, "row")
    /\ UNCHANGED <<region, publisher, reader, monitor>>

PollLearners ==
  /\ tab.open /\ polls < MaxPolls /\ Asks(asked, "row")
  /\ UNCHANGED <<region, publisher, reader, monitor, tab>>

(* Rows are taken off the front until one is inside the window.            *)
InWindow(rows, time) ==
  LET inside == {i \in DOMAIN rows : rows[i].time + TrendWindow >= time}
  IN  SubSeq(rows, Min(inside), Len(rows))

(* pollLearners() after its await: a row of an answer that was overtaken   *)
(* empties the trend, as one of another boot would.                        *)
Followed(rows, row) ==
  LET going == IF rows # <<>> /\ row.time < Last(rows).time THEN <<>> ELSE rows
  IN  IF going # <<>> /\ row.time <= Last(going).time THEN going
      ELSE InWindow(Append(going, row), row.time)

RowComes ==
  \E r \in Of("row", "answered"), lost \in BOOLEAN :
    /\ tab' = IF lost \/ r.rows = Missing THEN tab
              ELSE [tab EXCEPT !.trend = Followed(tab.trend, r.rows[1])]
    /\ asked' = asked \ {r}
    /\ UNCHANGED <<region, publisher, reader, monitor, polls>>

TrendNext ==
  \/ PublishRow \/ PublisherDies
  \/ BeginSample \/ ReadHeader \/ CopyPayload \/ CheckAgain \/ CopyHistory
  \/ OpenTab \/ CloseTab \/ TrendComes \/ PollLearners \/ RowComes

TrendSpec == TrendInit /\ [][TrendNext]_trendVars

-----------------------------------------------------------------------------
(* Properties *)

InOrder(rows) == \A i \in 1 .. Len(rows) - 1 : rows[i].time < rows[i + 1].time
RowsOf(rows) == {rows[i] : i \in DOMAIN rows}

(* Whatever threads, publications and answers do, no row was read half     *)
(* from one publication and half from the next.                            *)
NoRowIsTorn ==
  \A row \in RowsOf(monitor.history) \cup RowsOf(tab.trend) : row.time = row.value

(* The history and the trend go forward in time and have every publication *)
(* once, although two threads sample it and late answers come after it.    *)
TrendsGoForward == InOrder(monitor.history) /\ InOrder(tab.trend)

(* The page is never ahead of the history: what it shows was sampled.      *)
PageFollowsHistory ==
  tab.trend # <<>> => Last(tab.trend).time <= Last(monitor.history).time

TrendIsRight == NoRowIsTorn /\ TrendsGoForward /\ PageFollowsHistory

-----------------------------------------------------------------------------
(* What keeps these *)

(* Rows of whole publications in order, none newer than the time.          *)
Rows == Seq([time : Nat, value : Nat])
Recorded(rows, time) ==
  /\ rows \in Rows /\ InOrder(rows)
  /\ \A i \in 1 .. Len(rows) : rows[i].time = rows[i].value /\ rows[i].time \in 1 .. time

IsRequest(r, time) ==
  /\ r = [id |-> r.id, kind |-> r.kind, stage |-> r.stage, rows |-> r.rows]
  /\ r.id \in 1 .. MaxPolls /\ Recorded(r.rows, time)

TrendTypeOK ==
  /\ region \in [seq : Nat, low : Nat, high : Nat]
  /\ publisher \in [pc : {"idle", "low", "high", "close"}, base : Nat]
  /\ reader \in [pc : {"idle", "header", "low", "high", "check"}, who : 0 .. MaxPolls,
                 left : 0 .. Tries, before : Nat, low : Nat, high : Nat]
  /\ monitor.last \in Nat
  /\ polls \in 0 .. MaxPolls
  /\ tab.open \in BOOLEAN

(* The seqlock, as in LatestChannel. *)
RegionIsConsistent ==
  /\ publisher.pc # "idle" => publisher.base % 2 = 0 /\ region.seq = publisher.base + 1
  /\ publisher.pc = "close" => region.low = publisher.base + 2 /\ region.high = publisher.base + 2
  /\ publisher.pc = "high" => region.low = publisher.base + 2
  /\ region.seq % 2 = 0 => region.low = region.seq /\ region.high = region.seq

CopyIsConsistent ==
  /\ reader.pc \in {"low", "high", "check"} =>
       /\ reader.before > 0 /\ reader.before % 2 = 0
       /\ monitor.last <= reader.before /\ reader.before <= region.seq
  /\ reader.pc \in {"high", "check"} /\ Intact => reader.low = reader.before
  /\ reader.pc = "check" /\ Intact => reader.high = reader.before

(* The history, every answer and the page hold recorded rows; the newest   *)
(* row of the history is the publication sampled last.                     *)
RowsAreRecorded ==
  /\ monitor = [last |-> monitor.last, history |-> monitor.history]
  /\ tab = [open |-> tab.open, trend |-> tab.trend]
  /\ monitor.last <= region.seq
  /\ Recorded(monitor.history, monitor.last) /\ Recorded(tab.trend, monitor.last)
  /\ IF monitor.history = <<>> THEN monitor.last = 0 ELSE Last(monitor.history).time = monitor.last
  /\ \A r \in asked : IsRequest(r, monitor.last)

(* The request the reader works for is still there. *)
ReaderIsAwaited ==
  reader.pc # "idle" /\ reader.who # Monitor =>
    \E r \in asked : r.id = reader.who /\ r.stage = "sent"

TrendInv ==
  /\ TrendTypeOK /\ RegionIsConsistent /\ CopyIsConsistent
  /\ RowsAreRecorded /\ ReaderIsAwaited
=============================================================================
