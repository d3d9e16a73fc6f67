---------------------------- MODULE ModelHistory ----------------------------
(***************************************************************************)
(* What the driving network is given of the past: the pulses of the desire *)
(* and the features of earlier frames (SupercomboTemporalState), and the   *)
(* picture before the one it looks at (SupercomboModel::run_frame()), as   *)
(* run_live() of modeld drives them.                                       *)
(*                                                                         *)
(* A frame is told from its neighbours by its number modulo FrameTags.     *)
(* Pictures and features are those numbers, and NoPicture is the cleared   *)
(* tensor.  The frames modeld never gets to (no frame for a second, a slot *)
(* out of range or overwritten, FramePipeline) change nothing here.        *)
(***************************************************************************)
EXTENDS Naturals, SequencesExt

CONSTANTS
  Desires,       \* the desires controlsd may publish, without "none"
  HistoryTicks,  \* kDesireHistoryTicks, and one more than kFeatureHistoryTicks
  FrameTags

ASSUME HistoryAssumption ==
  /\ HistoryTicks \in Nat /\ HistoryTicks > 2
  /\ FrameTags \in Nat /\ FrameTags > 2
  /\ "none" \notin Desires

Read == Desires \cup {"none"}
NoPicture == FrameTags

VARIABLES
  prev_desire, desire,       \* prev_desire_, desire_
  desire_history,            \* the pulses, the newest last
  feature_history,           \* the frames whose features are kept, the newest last
  earlier, current,          \* the two halves of an image tensor
  frame_tag,                 \* the number of the next frame
  ran                        \* what the network last ran on

historyVars == <<prev_desire, desire, desire_history, feature_history, earlier, current,
                 frame_tag, ran>>

NotRun == [earlier |-> NoPicture, current |-> NoPicture, feature |-> NoPicture, pulse |-> "none"]

(* A constructed model: nothing asked for, nothing seen. *)
Blank ==
  [pulses |-> [i \in 1 .. HistoryTicks |-> "none"],
   features |-> [i \in 1 .. HistoryTicks - 1 |-> NoPicture]]

ModelInit ==
  /\ prev_desire = "none" /\ desire = "none"
  /\ desire_history = Blank.pulses /\ feature_history = Blank.features
  /\ earlier = NoPicture /\ current = NoPicture
  /\ frame_tag = 0 /\ ran = NotRun

-----------------------------------------------------------------------------

Shifted(history, newest) == Append(Tail(history), newest)

(* The desire itself, for as long as it stands. *)
HeldPulse(read) == read

(* set_desire(): a desire is a pulse in the tick in which it begins. *)
Pulse(read) == IF read # prev_desire THEN read ELSE "none"

(* push_feature_history() *)
Features(ok) == IF ok THEN Shifted(feature_history, frame_tag) ELSE feature_history

(* run_frame(): the picture is prepared, the pulse pushed, the network run *)
(* and both histories moved on.  A picture that cannot be prepared (the    *)
(* GPU's warp fails) leaves before anything is pushed.                     *)
RunFrame(ok) ==
  /\ feature_history' = Features(ok)
  /\ IF ok
     THEN /\ desire_history' = Shifted(desire_history, desire')
          /\ current' = frame_tag /\ earlier' = frame_tag
          /\ ran' = [earlier |-> earlier, current |-> frame_tag,
                     feature |-> Last(feature_history), pulse |-> desire']
     ELSE /\ current' \in {current, frame_tag}
          /\ UNCHANGED <<desire_history, earlier, ran>>

(* A frame run_live() takes: EgoStateReader::poll(), set_desire() and the  *)
(* run; controlsd not answering leaves the last desire.                    *)
ModelFrame(read, ok) ==
  /\ desire' = Pulse(read) /\ prev_desire' = read
  /\ RunFrame(ok)
  /\ frame_tag' = (frame_tag + 1) % FrameTags

(* The manager starts modeld again. *)
RestartModeld ==
  /\ prev_desire' = "none" /\ desire' = "none"
  /\ desire_history' = Blank.pulses /\ feature_history' = Blank.features
  /\ earlier' = NoPicture /\ current' = NoPicture
  /\ ran' = NotRun
  /\ UNCHANGED frame_tag

ModelNext ==
  \/ \E read \in Read, ok \in BOOLEAN : ModelFrame(read, ok)
  \/ RestartModeld

ModelSpec == ModelInit /\ [][ModelNext]_historyVars

-----------------------------------------------------------------------------
(* Properties *)

(* Every variable keeps its type. *)
ModelTypeOK ==
  /\ prev_desire \in Read /\ desire \in Read
  /\ desire_history \in [1 .. HistoryTicks -> Read]
  /\ feature_history \in [1 .. HistoryTicks - 1 -> 0 .. FrameTags]
  /\ {earlier, current} \subseteq 0 .. FrameTags
  /\ frame_tag \in 0 .. FrameTags - 1
  /\ ran \in [earlier : 0 .. FrameTags, current : 0 .. FrameTags, feature : 0 .. FrameTags,
              pulse : Read]

(* The newest features and the earlier picture the network is given are    *)
(* of one frame, the last that ran, through frames that fail and restarts: *)
(* it never compares a picture with features of another moment.            *)
HistoriesAgree ==
  /\ Last(feature_history) = earlier
  /\ ran.feature = ran.earlier

ModelInv == ModelTypeOK /\ HistoriesAgree

(* Of a desire that lasts the network is given one pulse: two pulses of    *)
(* one desire have a tick between them in which it was not asked for.      *)
OnePulseAsk ==
  [][Last(desire_history') # "none" /\ desire_history' # desire_history
       => prev_desire # prev_desire' /\ Last(desire_history') = prev_desire']_historyVars
=============================================================================
