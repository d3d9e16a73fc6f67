------------------------------ MODULE Displays ------------------------------
(***************************************************************************)
(* What the driver is shown and told: the snapshots of the state topics, the *)
(* overlay and the alerts of overlayd, and the pages of the parameter server. *)
(*                                                                         *)
(* No two of these modules share a variable, so a behaviour of all of them *)
(* is one of each: the run chooses at its start which one moves.           *)
(***************************************************************************)
EXTENDS LatestChannel, OverlayState, ParamEditor, LearnerTrend

VARIABLE focus   \* the component that moves in this behaviour

displaysVars == <<focus, vars, alertVars, hudVars, editorVars, trendVars>>

DisplaysInit ==
  /\ focus \in {"channel", "alerts", "hud", "editor", "trend"}
  /\ Init /\ AlertInit /\ HudInit /\ EditorInit /\ TrendInit

ChannelMoves ==
  /\ focus = "channel" /\ Next
  /\ UNCHANGED <<focus, alertVars, hudVars, editorVars, trendVars>>
AlertsMove ==
  /\ focus = "alerts" /\ AlertNext
  /\ UNCHANGED <<focus, vars, hudVars, editorVars, trendVars>>
HudMoves ==
  /\ focus = "hud" /\ HudNext
  /\ UNCHANGED <<focus, vars, alertVars, editorVars, trendVars>>
EditorMoves ==
  /\ focus = "editor" /\ EditorNext
  /\ UNCHANGED <<focus, vars, alertVars, hudVars, trendVars>>
TrendMoves ==
  /\ focus = "trend" /\ TrendNext
  /\ UNCHANGED <<focus, vars, alertVars, hudVars, editorVars>>

DisplaysNext ==
  \/ ChannelMoves
  \/ AlertsMove
  \/ HudMoves
  \/ EditorMoves
  \/ TrendMoves

(* The readers poll for ever, each in the behaviours in which it moves. *)
DisplaysFairness ==
  /\ WF_vars(focus = "channel" /\ Read)
  /\ WF_alertVars(focus = "alerts" /\ AnyPoll)

DisplaysSpec == DisplaysInit /\ [][DisplaysNext]_displaysVars /\ DisplaysFairness

-----------------------------------------------------------------------------

(* The inductive invariants of these modules, each of the one that moves.   *)
DisplaysInv ==
  /\ focus = "channel" => ChannelInv
  /\ focus = "alerts" => AlertInv
  /\ focus = "hud" => HudInv
  /\ focus = "editor" => EditorInv
  /\ focus = "trend" => TrendInv

(* A process keeps only whole snapshots of a state topic (LatestChannel), no *)
(* event is rung twice and the overlay shows nothing old and soon what is new *)
(* (OverlayState), the parameter page loses no change and shows the file   *)
(* (ParamEditor), and the trends of the learners are whole and in order    *)
(* (LearnerTrend).                                                         *)
ShownIsTrue == StateIsWhole /\ NoGhostAlerts /\ HudIsRight /\ EditorIsRight /\ TrendIsRight
=============================================================================
