------------------------------- MODULE Motion -------------------------------
(***************************************************************************)
(* The motion controller: every servo period runs the command handler and  *)
(* then the functions of emcmotController().  User space and the machine   *)
(* are the inputs: which command arrives, what the switches read.          *)
(***************************************************************************)
EXTENDS MotionCommand, MotionControl, Homing

Init ==
  /\ pc = "command"
  /\ homing_params \in HomingConfigs
  /\ joint = [j \in Joints |-> JointInit]
  /\ unlock = [j \in Joints |-> FALSE]
  /\ enabling = FALSE /\ coordinating = FALSE /\ teleoperating = FALSE
  /\ motion_enable = FALSE /\ motion_coord = FALSE /\ motion_teleop = FALSE
  /\ motion_inpos = TRUE
  /\ homing_active = FALSE /\ homingSequenceState = "IDLE" /\ home_sequence = 0
  /\ allHomed = FALSE /\ rehomeAll = FALSE
  /\ overriding = FALSE /\ overrideLimitMask = {}
  /\ probing = FALSE /\ old_probeVal = FALSE
  /\ tp = [done |-> TRUE, synced |-> FALSE]
  /\ teleop_vel = [desired |-> FALSE, current |-> FALSE]
  /\ joint_num = 0 /\ home_sw_active = FALSE /\ homing_flag = FALSE

Next ==
  \/ emcmotCommandHandler
  \/ ProcessInputs \/ ProcessProbeInputs \/ CheckForFaults
  \/ SetOperatingMode \/ HandleJogwheels
  \/ DoHomingSequence \/ DoHoming
  \/ FreePosCmds \/ CoordPosCmds \/ TeleopPosCmds \/ DisabledPosCmds

Spec == Init /\ [][Next]_vars

-----------------------------------------------------------------------------
(* The variables keep their types, and the locals of do_homing() are only  *)
(* in use inside its loop.                                                 *)
JointsTypeOK ==
  /\ homing_params \in [Joints -> HomingParams]
  /\ joint \in [Joints -> JointType]
  /\ unlock \in [Joints -> BOOLEAN]

ModesTypeOK ==
  /\ enabling \in BOOLEAN /\ coordinating \in BOOLEAN /\ teleoperating \in BOOLEAN
  /\ motion_enable \in BOOLEAN /\ motion_coord \in BOOLEAN
  /\ motion_teleop \in BOOLEAN /\ motion_inpos \in BOOLEAN
  /\ allHomed \in BOOLEAN /\ rehomeAll \in BOOLEAN
  /\ probing \in BOOLEAN /\ old_probeVal \in BOOLEAN

SequenceTypeOK ==
  /\ homing_active \in BOOLEAN
  /\ homingSequenceState \in {"IDLE", "START", "START_JOINTS", "WAIT_JOINTS"}
  /\ home_sequence \in Nat

PlannerTypeOK ==
  /\ overriding \in BOOLEAN
  /\ overrideLimitMask \subseteq Joints \X {"neg", "pos"}
  /\ tp \in [done : BOOLEAN, synced : BOOLEAN]
  /\ teleop_vel \in [desired : BOOLEAN, current : BOOLEAN]

LoopTypeOK ==
  /\ pc \in ServoFunctions
  /\ joint_num \in 0 .. NumJoints
  /\ pc # "do_homing" \/ motion_state # "FREE" => joint_num = 0 /\ ~homing_flag
  /\ home_sw_active \in BOOLEAN /\ homing_flag \in BOOLEAN

TypeOK ==
  JointsTypeOK /\ ModesTypeOK /\ SequenceTypeOK /\ PlannerTypeOK /\ LoopTypeOK

(* A joint reports itself homed only after its coordinates were set from   *)
(* the final latch of the switch or the index pulse (or, without a search, *)
(* from the current position): HOME_FINISHED is reached only through       *)
(* SET_SWITCH_POSITION or SET_INDEX_POSITION, and a later coarse setting   *)
(* drops the homed flag first.                                             *)
HomedIsReferenced ==
  \A j \in Joints : joint[j].homed => joint[j].motor_offset = "home"

(* "can't do two kinds of jog at once": the keyboard and the wheel never   *)
(* both own a joint, although each test is made in another function and    *)
(* both flags outlive the command that set them.                           *)
OneJogSource ==
  \A j \in Joints : ~(joint[j].kb_jog_active /\ joint[j].wheel_jog_active)

(* A joint that the homing state machine is driving ignores its limit      *)
(* switches in check_for_faults(), so that homing can handle them.         *)
HomingOwnsLimits ==
  \A j \in ActiveJoints :
    joint[j].home_state \notin {"IDLE", "START", "ABORT"} => joint[j].homing

(* Between periods in free mode, a joint whose homing has begun is covered *)
(* by homing_active, the flag that keeps jogs away from it.                *)
HomingIsReported ==
  pc = "command" /\ motion_state = "FREE" =>
    \A j \in ActiveJoints : joint[j].home_state # "IDLE" => homing_active

(* "Can't jog any joints while homing": a keyboard jog never takes over a  *)
(* joint that is being homed, however the homing was started.              *)
NoJogWhileHoming ==
  [][\A j \in ActiveJoints :
       joint[j].home_state # "IDLE" /\ motion_state = "FREE" =>
         (joint'[j].kb_jog_active => joint[j].kb_jog_active)]_vars

(* Every homing move waits for its own full HOME_DELAY: the seven states   *)
(* that wait share one timer, and a joint that comes to one of them brings *)
(* no count from an earlier wait, also after an abort in the middle of a   *)
(* wait, which leaves the count behind.                                    *)
PauseStartsAfresh ==
  [][\A j \in ActiveJoints :
       /\ joint'[j].home_state \in PausingStates
       /\ joint'[j].home_state # joint[j].home_state
       => joint'[j].home_pause_timer = 0]_vars

(* The machine leaves free mode for coordinated or teleop mode only with   *)
(* every active joint at rest: a mode request made while a jog or a homing *)
(* move is under way is dropped.                                           *)
LeavesFreeAtRest ==
  [][motion_state = "FREE" /\ motion_state' \in {"COORD", "TELEOP"} =>
       \A j \in ActiveJoints : ~joint[j].vel_cmd /\ ~joint[j].free_tp_active]_vars

(* A limit override lasts until the end of the move it was used for:       *)
(* between periods in free mode, once everything is at rest, no override   *)
(* that has been used is still in force.                                   *)
OverrideEndsWithMove ==
  /\ overriding => overrideLimitMask # {}
  /\ pc = "command" /\ motion_state = "FREE" /\ motion_inpos => ~overriding

(* Without forward kinematics a joint that is being jogged does not count  *)
(* as homed, so coordinated mode cannot start from the position it was     *)
(* homed at.                                                               *)
JogForgetsHome ==
  kinType = "INVERSE_ONLY" =>
    \A j \in ActiveJoints :
      joint[j].kb_jog_active \/ joint[j].wheel_jog_active => ~joint[j].homed

(* HOME_SEQUENCE: the joints of a step start homing only when every joint  *)
(* of the lower steps has been homed.                                      *)
SequenceInOrder ==
  homingSequenceState = "WAIT_JOINTS" /\ pc = "do_homing" =>
    \A j \in Joints :
      homing_params[j].home_sequence \in 0 .. home_sequence - 1 => joint[j].homed

(* A probing move belongs to coordinated mode: it is over, by contact or   *)
(* by the planner running dry, before the machine is back in free mode,    *)
(* where process_probe_inputs() must treat contact as a collision.         *)
ProbingInCoord ==
  probing => motion_coord

(* Whenever the planner moves the joints in coordinated mode it started    *)
(* from the commanded position: set_operating_mode() presets it on every   *)
(* way in, from free mode and from disabled.                               *)
CoordStartsFromCommand ==
  pc = "get_pos_cmds" /\ motion_state = "COORD" => tp.synced

(* The loop of do_homing() reaches joint j, which is about to start its    *)
(* search, and finds its home switch open.                                 *)
SearchFindsSwitchOpen(j) ==
  /\ Next
  /\ pc' = "do_homing" /\ joint_num' = j
  /\ pc # "do_homing" \/ joint_num # j
  /\ joint'[j].home_state = "INITIAL_SEARCH_START"
  /\ joint'[j].home_pause_timer = HOME_DELAY /\ ~joint'[j].free_tp_active
  /\ ~home_sw_active'

(* Fairness.  The servo thread runs every period.  A free-mode move has a  *)
(* target within the joint's range and homing ignores feed override, so a  *)
(* joint that moves comes to rest; a rotary joint's lock answers; and a    *)
(* joint that has backed off its home switch does not for ever find itself *)
(* on it again when the search starts.                                     *)
Fairness ==
  /\ WF_vars(Next)
  /\ \A j \in ActiveJoints :
       /\ SF_vars(FreePosCmds /\ ~joint'[j].free_tp_active)
       /\ SF_vars(joint_num = j /\ HomeUnlockWait /\ joint' # joint)
       /\ SF_vars(joint_num = j /\ HomeLockWait /\ joint' # joint)
       /\ SF_vars(SearchFindsSwitchOpen(j))

FairSpec == Spec /\ Fairness

(* Homing always ends while the machine stays in free mode, in success, in *)
(* an error or in an abort: every wait of do_homing() is a wait for a move *)
(* that ends.                                                              *)
HomingTerminates ==
  \A j \in ActiveJoints :
    joint[j].home_state # "IDLE" ~>
      joint[j].home_state = "IDLE" \/ motion_state # "FREE"

(* Home-all always ends while the machine stays in free mode: each step    *)
(* either finishes and starts the next, or gives up, and the steps run     *)
(* out.                                                                    *)
HomeAllTerminates ==
  homingSequenceState # "IDLE" ~>
    homingSequenceState = "IDLE" \/ motion_state # "FREE"

-----------------------------------------------------------------------------
(* The inductive invariant behind the properties above. *)

(* Once do_homing() has started on a joint (past HOME_START, and not on    *)
(* the way out through HOME_ABORT) the joint is marked as homing and not   *)
(* as homed, and after the final latch its coordinates are set.            *)
LatchedStates ==
  {"FINAL_MOVE_START", "FINAL_MOVE_WAIT", "LOCK", "LOCK_WAIT", "FINISHED"}

JointOK(r) ==
  /\ r.homed => r.motor_offset = "home"
  /\ r.home_state \notin {"IDLE", "START", "ABORT"} => r.homing /\ ~r.homed
  /\ r.home_state \in LatchedStates => r.motor_offset = "home"
  /\ ~(r.kb_jog_active /\ r.wheel_jog_active)

JointsOK == \A j \in Joints : JointOK(joint[j])

(* While the loop of do_homing() runs, homing_flag covers the joints it    *)
(* has passed; from its end to the next command, homing_active covers all. *)
HomingCovered ==
  motion_state = "FREE" =>
    \A j \in ActiveJoints : joint[j].home_state # "IDLE" =>
      /\ pc = "do_homing" /\ j < joint_num => homing_flag
      /\ pc \in {"get_pos_cmds", "command"} => homing_active

(* From the command handler to the change of mode, the in-position flag is *)
(* the one the free planners left.                                         *)
InPosIsRest ==
  /\ pc \in {"command", "process_inputs", "process_probe_inputs",
             "check_for_faults", "set_operating_mode"}
  /\ motion_state = "FREE" /\ motion_inpos
  => \A j \in ActiveJoints : ~joint[j].vel_cmd /\ ~joint[j].free_tp_active

Inv == TypeOK /\ JointsOK /\ HomingCovered /\ InPosIsRest /\ OverrideEndsWithMove

-----------------------------------------------------------------------------
(* What comments and documents say of the code, and the code does not do.  *)

(* homing.c: "Once the homing process is finished, the                     *)
(* 'check_for_faults()' resumes checking" the limit switches: a joint      *)
(* whose homing has ended is no longer marked as homing.                   *)
LimitsCheckedAfterHoming ==
  \A j \in ActiveJoints : joint[j].homing => joint[j].home_state # "IDLE"

(* motion.h: "machines with non-trivial kinematics must be homed before    *)
(* they can go into either coord or teleop mode".                          *)
CoordNeedsHomed ==
  [][~motion_coord /\ motion_coord' /\ kinType # "IDENTITY" =>
       \A j \in ActiveJoints : joint[j].homed]_vars

(* Code_Notes on COORD: on entry "the trajectory planner queues are        *)
(* empty".                                                                 *)
CoordStartsEmpty ==
  [][~motion_coord /\ motion_coord' => tp.done]_vars

(* Code_Notes on ENABLE: "If forward kinematics are not available, the     *)
(* machine is switched to free mode."                                      *)
EnableStartsInFree ==
  [][kinType = "INVERSE_ONLY" /\ ~motion_enable /\ motion_enable' =>
       ~motion_coord' /\ ~motion_teleop']_vars

=============================================================================
