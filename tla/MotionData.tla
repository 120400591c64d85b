----------------------------- MODULE MotionData -----------------------------
(***************************************************************************)
(* The data of the real-time motion controller (src/emc/motion): the       *)
(* per-joint structure, the mode flags, the homing bookkeeping and the few *)
(* facts about the coordinated planner that the other functions look at.   *)
(*                                                                         *)
(* The command handler and the controller are two functions of one servo   *)
(* thread, so they never overlap; `pc' is the function of the period that  *)
(* runs next.  Positions, velocities and HAL pins are abstracted to what   *)
(* the control flow tells apart.  An input that one function alone reads   *)
(* is chosen where it is read.                                             *)
(***************************************************************************)
EXTENDS Integers, FiniteSets

CONSTANTS
  NumJoints,        \* num_joints
  ActiveJoints,     \* the joints EMCMOT_ACTIVATE_JOINT made active at start-up
  kinType,          \* "IDENTITY", "BOTH" or "INVERSE_ONLY"
  HomingConfigs,    \* the homing parameters a configuration may give the joints
  HOME_DELAY,       \* periods a joint must rest before the next homing move
  Commands,         \* the commands user space may send
  LimitInputs,      \* readings of a joint's two limit switches
  HomeSwitchInputs, \* readings of a joint's home switch
  FaultInputs,      \* whether an amplifier fault or a following error may occur
  EnableInputs,     \* readings of the motion.enable pin
  WheelInputs,      \* sets of joints whose jog wheel may turn in one period
  ProbeInputs,      \* readings of the probe
  FeedInputs        \* whether net_feed_scale is at least 0.0001

Joints == 0 .. NumJoints - 1

HomeFlags == {"IGNORE_LIMITS", "USE_INDEX", "IS_SHARED", "UNLOCK_FIRST"}

(* Velocities are kept as signs. *)
HomingParams ==
  [home_search_vel : {-1, 0, 1}, home_latch_vel : {-1, 0, 1},
   home_flags : SUBSET HomeFlags, home_sequence : Int, volatile_home : BOOLEAN]

ASSUME NumJointsAssumption == NumJoints \in Nat \ {0}
ASSUME ActiveAssumption == ActiveJoints \subseteq Joints
ASSUME KinTypeAssumption == kinType \in {"IDENTITY", "BOTH", "INVERSE_ONLY"}
ASSUME ConfigAssumption == HomingConfigs \subseteq [Joints -> HomingParams]
ASSUME DelayAssumption == HOME_DELAY \in Nat
ASSUME InputAssumption ==
  /\ LimitInputs \subseteq SUBSET {"neg", "pos"}
  /\ HomeSwitchInputs \subseteq BOOLEAN
  /\ FaultInputs \subseteq BOOLEAN
  /\ EnableInputs \subseteq BOOLEAN
  /\ WheelInputs \subseteq SUBSET ActiveJoints
  /\ ProbeInputs \subseteq BOOLEAN
  /\ FeedInputs \subseteq BOOLEAN

VARIABLES
  pc,             \* the function of the servo period that runs next
  homing_params,  \* what EMCMOT_SET_HOMING_PARAMS stored for each joint
  joint,          \* emcmot_joint_t, one per joint
  unlock,         \* the joint.N.unlock output pins
  enabling, coordinating, teleoperating,         \* the modes asked for
  motion_enable, motion_coord, motion_teleop,    \* the motion status flags
  motion_inpos,
  homing_active, homingSequenceState, home_sequence,  \* home-all
  allHomed,       \* cached answer of checkAllHomed()
  rehomeAll,      \* a coordinated or teleop move was made
  overriding, overrideLimitMask,                 \* limit override
  probing, old_probeVal,                         \* the probe
  tp,             \* the coordinated planner: [done, synced]
  teleop_vel,     \* [desired, current] teleop velocity, TRUE when not zero
  joint_num, home_sw_active, homing_flag         \* locals of do_homing()

HomeStates ==
  {"IDLE", "START", "UNLOCK", "UNLOCK_WAIT",
   "INITIAL_BACKOFF_START", "INITIAL_BACKOFF_WAIT",
   "INITIAL_SEARCH_START", "INITIAL_SEARCH_WAIT", "SET_COARSE_POSITION",
   "FINAL_BACKOFF_START", "FINAL_BACKOFF_WAIT",
   "RISE_SEARCH_START", "RISE_SEARCH_WAIT",
   "FALL_SEARCH_START", "FALL_SEARCH_WAIT", "SET_SWITCH_POSITION",
   "INDEX_ONLY_START", "INDEX_SEARCH_START", "INDEX_SEARCH_WAIT",
   "SET_INDEX_POSITION", "FINAL_MOVE_START", "FINAL_MOVE_WAIT",
   "LOCK", "LOCK_WAIT", "FINISHED", "ABORT"}

(***************************************************************************)
(* motor_offset says what the joint's coordinate system was last set from: *)
(* nothing yet, the first contact with the switch, or the final latch.     *)
(* The in-position flag of a joint is always ~free_tp_active, because one  *)
(* place assigns both.                                                     *)
(***************************************************************************)
JointType ==
  [home_state : HomeStates, home_pause_timer : 0 .. HOME_DELAY,
   homing : BOOLEAN, homed : BOOLEAN, at_home : BOOLEAN,
   index_enable : BOOLEAN, motor_offset : {"unset", "coarse", "home"},
   free_tp_enable : BOOLEAN, free_tp_active : BOOLEAN, vel_cmd : BOOLEAN,
   kb_jog_active : BOOLEAN, wheel_jog_active : BOOLEAN,
   limits : SUBSET {"neg", "pos"}]

JointInit ==
  [home_state |-> "IDLE", home_pause_timer |-> 0,
   homing |-> FALSE, homed |-> FALSE, at_home |-> FALSE,
   index_enable |-> FALSE, motor_offset |-> "unset",
   free_tp_enable |-> FALSE, free_tp_active |-> FALSE, vel_cmd |-> FALSE,
   kb_jog_active |-> FALSE, wheel_jog_active |-> FALSE, limits |-> {}]

askedVars == <<enabling, coordinating, teleoperating>>
modeVars == <<askedVars, motion_enable, motion_coord, motion_teleop>>
sequenceVars == <<homing_active, homingSequenceState, home_sequence>>
limitVars == <<overriding, overrideLimitMask>>
probeVars == <<probing, old_probeVal>>
loopVars == <<joint_num, home_sw_active, homing_flag>>

vars == <<pc, homing_params, joint, unlock, modeVars, motion_inpos,
          sequenceVars, allHomed, rehomeAll, limitVars, probeVars,
          tp, teleop_vel, loopVars>>

(* emcmotStatus->motion_state is recomputed from the flags by the only     *)
(* function that changes them.                                             *)
motion_state ==
  CASE ~motion_enable -> "DISABLED"
    [] motion_enable /\ motion_teleop -> "TELEOP"
    [] motion_enable /\ ~motion_teleop /\ motion_coord -> "COORD"
    [] OTHER -> "FREE"

(* The functions of one servo period, in the order they are called. *)
ServoFunctions ==
  {"command", "process_inputs", "process_probe_inputs", "check_for_faults",
   "set_operating_mode", "handle_jogwheels", "do_homing_sequence",
   "do_homing", "get_pos_cmds"}

(* checkAllHomed(): the cached answer, or a look at the active joints. *)
checkAllHomed == allHomed \/ \A j \in ActiveJoints : joint[j].homed

(* Mutant: once rehomeAll is set, no joint is cleared. *)
clearHomes_FirstMoveOnly(js, moved) ==
  [j \in Joints |->
     IF kinType = "INVERSE_ONLY" /\ ~rehomeAll /\ j \in moved
     THEN [js[j] EXCEPT !.homed = FALSE] ELSE js[j]]

(* Mutant: rehomeAll is not consulted. *)
clearHomes_OnlyMoved(js, moved) ==
  [j \in Joints |->
     IF kinType = "INVERSE_ONLY" /\ j \in moved
     THEN [js[j] EXCEPT !.homed = FALSE] ELSE js[j]]

(* clearHomes() for each joint of `moved', applied to the joints `js'. *)
clearHomes(js, moved) ==
  [j \in Joints |->
     IF kinType = "INVERSE_ONLY" /\ moved # {} /\ (rehomeAll \/ j \in moved)
     THEN [js[j] EXCEPT !.homed = FALSE] ELSE js[j]]

=============================================================================
