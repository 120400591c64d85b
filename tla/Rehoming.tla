------------------------------ MODULE Rehoming ------------------------------
(***************************************************************************)
(* What the homed flags are for on a machine without forward kinematics:   *)
(* joints that a jog has taken away from the position the Cartesian        *)
(* coordinates stand for must be homed again before those coordinates are  *)
(* used.  Two history variables record what has happened to the joints;    *)
(* the controller does not see them.                                       *)
(***************************************************************************)
EXTENDS Motion

VARIABLES
  travelled,   \* a coordinated or teleop move was made, so all joints moved
  astray       \* the joints to home again before the next coordinated move

rehomingVars == <<vars, travelled, astray>>

(* The joints that the keyboard or a wheel starts to jog in this step. *)
JogStarts ==
  {j \in Joints : \/ ~joint[j].kb_jog_active /\ joint'[j].kb_jog_active
                  \/ ~joint[j].wheel_jog_active /\ joint'[j].wheel_jog_active}

HomedNow == {j \in Joints : ~joint[j].homed /\ joint'[j].homed}

(* A jog leads the joint away from where it was homed; once all the joints *)
(* have travelled none of them is there any more, and the jog breaks the   *)
(* link between their positions and the coordinates for all of them.       *)
LedAstray ==
  IF JogStarts = {} THEN {} ELSE IF travelled THEN Joints ELSE JogStarts

RehomingInit == Init /\ travelled = FALSE /\ astray = {}

RehomingNext ==
  /\ Next
  /\ travelled' = (travelled \/ ~tp.done \/ teleop_vel.current)
  /\ astray' = (astray \cup LedAstray) \ HomedNow

RehomingSpec == RehomingInit /\ [][RehomingNext]_rehomingVars

(* command.c on every jog: "a transition into coordinated mode will        *)
(* incorrectly assume the homed position.  Do all if they've all been      *)
(* moved since homing, otherwise just do this one": without forward        *)
(* kinematics the machine changes to coordinated or teleop mode only when   *)
(* every active joint that a jog has led astray was homed since.           *)
CoordNeedsRehoming ==
  [][/\ kinType = "INVERSE_ONLY"
     /\ (~motion_coord /\ motion_coord') \/ (~motion_teleop /\ motion_teleop')
     => astray \cap ActiveJoints = {}]_rehomingVars

(* What command.c says of rehomeAll: "this flag is set for any coordinated *)
(* move that in general will result in all joints moving".                 *)
TravelIsMarked == travelled => rehomeAll

=============================================================================
