----------------------------- MODULE SlateScene -----------------------------
(***************************************************************************)
(* SlateSceneController: it puts a slate scene on the programme of OBS     *)
(* while the relay is in a transition and restores the scene before it     *)
(* after (slate-scene-controller.cpp).  Both slate scenes are chosen and   *)
(* exist.                                                                  *)
(***************************************************************************)
CONSTANTS
    Scenes,          \* the scenes of the show, between which the operator switches
    EnableScene,     \* enable_scene_name_
    ReturnScene      \* return_scene_name_

ASSUME SlatesApart == {EnableScene, ReturnScene} \cap Scenes = {} /\ Scenes # {}

VARIABLES
    scene,         \* the current scene of OBS
    active,        \* active_
    previous,      \* previous_scene_name_; "" is none
    controlled,    \* controlled_scene_name_
    home,          \* the scene of the show that the operator chose last (ghost)
    left           \* the slate was forgotten while it was on (ghost)

slatevars == <<scene, active, previous, controlled, home, left>>

Slates == {EnableScene, ReturnScene}

SlateInit ==
    /\ home = (CHOOSE s \in Scenes : TRUE) /\ scene = home
    /\ active = FALSE /\ previous = "" /\ controlled = "" /\ left = FALSE

(* kindForStatus, as the scene it asks for; "" is SlateKind::None.         *)
TargetFor(status) ==
    CASE status.state = "BUFFERING_TO_DELAY" -> EnableScene
      [] status.state \in {"RETURNING_TO_REALTIME", "DUMPING"} -> ReturnScene
      [] status.state = "SAFE_HOLD" /\ status.slate = "enable" -> EnableScene
      [] status.state = "SAFE_HOLD" /\ status.slate = "return" -> ReturnScene
      [] OTHER -> ""

Clear == active' = FALSE /\ previous' = "" /\ controlled' = ""

(* clear, called when the link goes down.                                  *)
ForgetSlate ==
    /\ Clear /\ left' = (left \/ (active /\ scene # home))
    /\ UNCHANGED <<scene, home>>

(* Mutant: the scene is restored although the operator has left the slate. *)
RestoreIfOwned_Always ==
    /\ scene' = IF active THEN previous ELSE scene
    /\ Clear /\ UNCHANGED <<home, left>>

RestoreIfOwned ==
    /\ scene' = IF active /\ scene = controlled THEN previous ELSE scene
    /\ Clear /\ UNCHANGED <<home, left>>

(* switchFor: a slate the operator has left is given up, not taken back.   *)
SwitchFor(target) ==
    \/ active /\ scene # controlled /\ Clear /\ UNCHANGED <<scene, home, left>>
    \/ /\ ~active \/ scene = controlled
       /\ previous' = IF active THEN previous ELSE scene
       /\ active' = TRUE /\ controlled' = target /\ scene' = target
       /\ UNCHANGED <<home, left>>

(* applyStatus.  SAFE_HOLD without a message keeps what is on.             *)
SlateStatus(status) ==
    LET target == TargetFor(status) IN
    \/ target # "" /\ SwitchFor(target)
    \/ /\ target = ""
       /\ IF active /\ status.state = "SAFE_HOLD" THEN UNCHANGED slatevars ELSE RestoreIfOwned

(* The operator switches to another scene of the show.                     *)
OperatorSwitches(to) ==
    /\ to # scene /\ scene' = to /\ home' = to /\ left' = FALSE
    /\ UNCHANGED <<active, previous, controlled>>
-----------------------------------------------------------------------------
SlateTypeOK ==
    /\ scene \in Scenes \cup Slates /\ home \in Scenes
    /\ active \in BOOLEAN /\ left \in BOOLEAN
    /\ previous \in Scenes \cup Slates \cup {""} /\ controlled \in Slates \cup {""}

(* Outside a transition the viewers see the scene the operator chose last, *)
(* also one chosen during the transition; unless the link to the relay     *)
(* went down in a transition: then the slate stays until the operator      *)
(* leaves it, since clear forgets the scene before it.                     *)
SlateHome == active \/ left \/ scene = home
=============================================================================
