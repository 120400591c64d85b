--------------------------- MODULE MotionCommand ---------------------------
(***************************************************************************)
(* command.c: emcmotCommandHandler(), which takes at most one new command  *)
(* out of shared memory per servo period.  A command the handler refuses   *)
(* only reports an error, so it is the same step as no command at all.     *)
(* Aborting the coordinated planner shows only when the planner has run    *)
(* dry, which CoordPosCmds of MotionControl leaves open.                   *)
(***************************************************************************)
EXTENDS MotionData

Command(c) ==
  /\ pc = "command"
  /\ c \in Commands
  /\ pc' = "process_inputs"
  /\ UNCHANGED <<homing_params, unlock, motion_enable, motion_coord,
                 motion_teleop, motion_inpos, homing_active, home_sequence,
                 old_probeVal, loopVars>>

(* The handler ran without a command, or with one it refused. *)
NoCommand ==
  /\ pc = "command"
  /\ pc' = "process_inputs"
  /\ UNCHANGED <<homing_params, joint, unlock, modeVars, motion_inpos,
                 sequenceVars, allHomed, rehomeAll, limitVars, probeVars, tp,
                 teleop_vel, loopVars>>

(* Stop the free planner of the joints S, and homing if it is in progress. *)
AbortJoints(S) ==
  [j \in Joints |->
     IF j \in S
     THEN [joint[j] EXCEPT !.free_tp_enable = FALSE,
                           !.home_state = IF @ = "IDLE" THEN @ ELSE "ABORT"]
     ELSE joint[j]]

InFreeSpace == ~motion_teleop /\ ~motion_coord

Abort ==
  /\ Command("ABORT")
  /\ teleop_vel' = [teleop_vel EXCEPT !.desired = @ /\ ~motion_teleop]
  /\ joint' = IF InFreeSpace THEN AbortJoints(Joints) ELSE joint
  /\ UNCHANGED <<askedVars, homingSequenceState, allHomed, rehomeAll,
                 limitVars, probing, tp>>

AxisAbort ==
  /\ Command("AXIS_ABORT")
  /\ InFreeSpace
  /\ \E j \in Joints : joint' = AbortJoints({j})
  /\ UNCHANGED <<askedVars, homingSequenceState, allHomed, rehomeAll,
                 limitVars, probing, tp, teleop_vel>>

(* FREE, COORD and TELEOP only ask for the mode. *)
Free ==
  /\ Command("FREE")
  /\ coordinating' = FALSE
  /\ teleoperating' = FALSE
  /\ UNCHANGED <<joint, enabling, homingSequenceState, allHomed, rehomeAll,
                 limitVars, probing, tp, teleop_vel>>

(* Kinematics other than IDENTITY need every joint homed; asking refreshes *)
(* the cached answer.                                                      *)
KinematicsReady == kinType = "IDENTITY" \/ checkAllHomed

AskAllHomed == IF kinType = "IDENTITY" THEN allHomed ELSE checkAllHomed

Coord ==
  /\ Command("COORD")
  /\ coordinating' = KinematicsReady
  /\ teleoperating' = FALSE
  /\ allHomed' = AskAllHomed
  /\ UNCHANGED <<joint, enabling, homingSequenceState, rehomeAll, limitVars,
                 probing, tp, teleop_vel>>

Teleop ==
  /\ Command("TELEOP")
  /\ teleoperating' = KinematicsReady
  /\ allHomed' = AskAllHomed
  /\ UNCHANGED <<joint, enabling, coordinating, homingSequenceState,
                 rehomeAll, limitVars, probing, tp, teleop_vel>>

(* Mutant: a new mask leaves the override of the last move in use. *)
OverrideLimits_StillOverriding ==
  /\ Command("OVERRIDE_LIMITS")
  /\ \/ overrideLimitMask' = {}
     \/ overrideLimitMask' =
          UNION {{<<j, d>> : d \in joint[j].limits} : j \in Joints}
  /\ UNCHANGED <<joint, askedVars, homingSequenceState, allHomed, rehomeAll,
                 overriding, probing, tp, teleop_vel>>

(* Override the limits that are tripped now, or (axis < 0) none. *)
OverrideLimits ==
  /\ Command("OVERRIDE_LIMITS")
  /\ \/ overrideLimitMask' = {}
     \/ overrideLimitMask' =
          UNION {{<<j, d>> : d \in joint[j].limits} : j \in Joints}
  /\ overriding' = FALSE
  /\ UNCHANGED <<joint, askedVars, homingSequenceState, allHomed, rehomeAll,
                 probing, tp, teleop_vel>>

(* jog_ok(): never further onto a tripped limit, unless both limits of the *)
(* joint are overridden.  A velocity of zero has no direction and passes.  *)
(* A soft limit that refuses the jog is NoCommand.                         *)
jog_ok(j, dir) ==
  \/ {<<j, "neg">>, <<j, "pos">>} \subseteq overrideLimitMask
  \/ dir \notin joint[j].limits

(* Mutants: a jog during homing, and a jog of a joint the wheel owns. *)
JogAllowed_WhileHoming(j) ==
  ~motion_coord /\ motion_enable /\ ~joint[j].wheel_jog_active

JogAllowed_WithWheel(j) ==
  ~motion_coord /\ motion_enable /\ ~homing_active

(* The conditions that JOG_CONT, JOG_INCR and JOG_ABS have in common. *)
JogAllowed(j) ==
  /\ ~motion_coord
  /\ motion_enable
  /\ ~homing_active
  /\ ~joint[j].wheel_jog_active
  /\ TRUE \in FeedInputs

Jog ==
  /\ Command("JOG")
  /\ \E j \in Joints, dir \in {"neg", "pos", "none"},
        kind \in {"CONT", "INCR", "ABS"} :
       /\ JogAllowed(j)
       /\ kind = "ABS" \/ "UNLOCK_FIRST" \notin homing_params[j].home_flags
       /\ jog_ok(j, dir)
       /\ joint' = clearHomes([joint EXCEPT ![j].kb_jog_active = TRUE,
                                            ![j].free_tp_enable = TRUE], {j})
  /\ allHomed' = FALSE
  /\ UNCHANGED <<askedVars, homingSequenceState, rehomeAll, limitVars,
                 probing, tp, teleop_vel>>

(* limits_ok(): no active joint is on a hard limit. *)
limits_ok == \A j \in ActiveJoints : joint[j].limits = {}

MoveAllowed == motion_coord /\ motion_enable /\ limits_ok

(* SET_LINE and SET_CIRCLE *)
SetLine ==
  /\ Command("SET_LINE")
  /\ MoveAllowed
  /\ tp' = [tp EXCEPT !.done = FALSE]
  /\ rehomeAll' = TRUE
  /\ UNCHANGED <<joint, askedVars, homingSequenceState, allHomed, limitVars,
                 probing, teleop_vel>>

Probe ==
  /\ Command("PROBE")
  /\ MoveAllowed
  /\ tp' = [tp EXCEPT !.done = FALSE]
  /\ rehomeAll' = TRUE
  /\ probing' = TRUE
  /\ UNCHANGED <<joint, askedVars, homingSequenceState, allHomed, limitVars,
                 teleop_vel>>

RigidTap ==
  /\ Command("RIGID_TAP")
  /\ MoveAllowed
  /\ tp' = [tp EXCEPT !.done = FALSE]
  /\ UNCHANGED <<joint, askedVars, rehomeAll, homingSequenceState, allHomed,
                 limitVars, probing, teleop_vel>>

(* Without forward kinematics the machine falls back to free mode. *)
ModesAfterEnableChange ==
  /\ coordinating' = (coordinating /\ kinType # "INVERSE_ONLY")
  /\ teleoperating' = (teleoperating /\ kinType # "INVERSE_ONLY")

Disable ==
  /\ Command("DISABLE")
  /\ enabling' = FALSE
  /\ ModesAfterEnableChange
  /\ UNCHANGED <<joint, homingSequenceState, allHomed, rehomeAll, limitVars,
                 probing, tp, teleop_vel>>

Enable ==
  /\ Command("ENABLE")
  /\ TRUE \in EnableInputs
  /\ enabling' = TRUE
  /\ ModesAfterEnableChange
  /\ UNCHANGED <<joint, homingSequenceState, allHomed, rehomeAll, limitVars,
                 probing, tp, teleop_vel>>

Home ==
  /\ Command("HOME")
  /\ motion_state = "FREE"
  /\ homingSequenceState = "IDLE"
  /\ \E j \in Joints :
       /\ joint[j].home_state = "IDLE"
       /\ joint' = [joint EXCEPT ![j].free_tp_enable = FALSE,
                                 ![j].home_state = "START"]
  /\ UNCHANGED <<askedVars, homingSequenceState, allHomed, rehomeAll,
                 limitVars, probing, tp, teleop_vel>>

HomeAll ==
  /\ Command("HOME_ALL")
  /\ motion_state = "FREE"
  /\ homingSequenceState = "IDLE"
  /\ homingSequenceState' = "START"
  /\ UNCHANGED <<joint, askedVars, allHomed, rehomeAll, limitVars, probing,
                 tp, teleop_vel>>

(* A joint that is homing or moving cannot be unhomed. *)
CanUnhome(S) == \A j \in S : ~joint[j].homing /\ ~joint[j].free_tp_active

UnhomeJoints(S) ==
  /\ joint' = [j \in Joints |->
                 IF j \in S THEN [joint[j] EXCEPT !.homed = FALSE]
                 ELSE joint[j]]
  /\ UNCHANGED <<askedVars, homingSequenceState, allHomed, rehomeAll,
                 limitVars, probing, tp, teleop_vel>>

(* axis -1 unhomes all the joints, axis -2 the volatile ones *)
Unhome ==
  /\ Command("UNHOME")
  /\ motion_state \in {"FREE", "DISABLED"}
  /\ \/ \E j \in ActiveJoints : CanUnhome({j}) /\ UnhomeJoints({j})
     \/ /\ CanUnhome(ActiveJoints)
        /\ \/ UnhomeJoints(ActiveJoints)
           \/ UnhomeJoints({j \in ActiveJoints : homing_params[j].volatile_home})

ClearProbeFlags ==
  /\ Command("CLEAR_PROBE_FLAGS")
  /\ probing' = FALSE
  /\ UNCHANGED <<joint, askedVars, homingSequenceState, allHomed, rehomeAll,
                 limitVars, tp, teleop_vel>>

SetTeleopVector ==
  /\ Command("SET_TELEOP_VECTOR")
  /\ motion_teleop /\ motion_enable
  /\ \E moving \in BOOLEAN :
       teleop_vel' = [teleop_vel EXCEPT !.desired = moving]
  /\ rehomeAll' = TRUE
  /\ UNCHANGED <<joint, askedVars, homingSequenceState, allHomed, limitVars,
                 probing, tp>>

emcmotCommandHandler ==
  \/ NoCommand \/ Abort \/ AxisAbort \/ Free \/ Coord \/ Teleop
  \/ OverrideLimits \/ Jog \/ SetLine \/ Probe \/ RigidTap
  \/ Disable \/ Enable \/ Home \/ HomeAll \/ Unhome
  \/ ClearProbeFlags \/ SetTeleopVector

=============================================================================
