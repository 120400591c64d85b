---------------------------- MODULE MotionProofs ----------------------------
(***************************************************************************)
(* Proofs about Motion for every number of joints, every kinematics, every *)
(* homing configuration, every set of commands and all inputs.             *)
(***************************************************************************)
EXTENDS Motion, TLAPS

(* A leaf that names no prover is Zenon's. *)
USE ZenonT(40)

-----------------------------------------------------------------------------
(* What the actions leave alone *)

(* Every command belongs to the command handler's turn and leaves the mode *)
(* flags, the loop locals and the homing status to the controller.         *)
LEMMA CommandFrame ==
  ASSUME emcmotCommandHandler
  PROVE  /\ pc = "command" /\ pc' = "process_inputs"
         /\ UNCHANGED <<homing_params, unlock, motion_enable, motion_coord,
                        motion_teleop, motion_inpos, homing_active,
                        home_sequence, old_probeVal, loopVars>>
<1>1. CASE NoCommand
  BY <1>1 DEF NoCommand, modeVars, sequenceVars, probeVars
<1>2. ASSUME NEW c, Command(c)
      PROVE  /\ pc = "command" /\ pc' = "process_inputs"
             /\ UNCHANGED <<homing_params, unlock, motion_enable, motion_coord,
                            motion_teleop, motion_inpos, homing_active,
                            home_sequence, old_probeVal, loopVars>>
  BY <1>2 DEF Command
<1>3. CASE ~NoCommand
  <2>1. CASE Abort \/ AxisAbort \/ Free \/ Coord \/ Teleop \/ OverrideLimits
    BY <1>2, <2>1 DEF Abort, AxisAbort, Free, Coord, Teleop, OverrideLimits
  <2>2. CASE Jog \/ SetLine \/ Probe \/ RigidTap \/ Disable \/ Enable
    BY <1>2, <2>2 DEF Jog, SetLine, Probe, RigidTap, Disable, Enable
  <2>3. CASE Home \/ HomeAll \/ Unhome \/ ClearProbeFlags \/ SetTeleopVector
    BY <1>2, <2>3 DEF Home, HomeAll, Unhome, ClearProbeFlags, SetTeleopVector
  <2>4. QED
    BY <1>3, <2>1, <2>2, <2>3 DEF emcmotCommandHandler
<1>4. QED
  BY <1>1, <1>3

-----------------------------------------------------------------------------
(* One joint: the records that are well typed and satisfy JointOK, and the *)
(* updates that keep them so.                                              *)

GoodJoint == {r \in JointType : JointOK(r)}

JointsGood == joint \in [Joints -> GoodJoint]

(* The initial joint structure is good. *)
LEMMA GoodInit == JointInit \in GoodJoint
<1>1. JointInit \in JointType
  BY DelayAssumption, SMTT(30) DEF JointInit, JointType, HomeStates
<1>2. JointOK(JointInit)
  BY DEF JointInit, JointOK, LatchedStates
<1>3. QED
  BY <1>1, <1>2 DEF GoodJoint

(* Stopping the free planner keeps a joint good, and so does running it. *)
LEMMA GoodPlanner ==
  ASSUME NEW r \in GoodJoint, NEW b \in BOOLEAN
  PROVE  [r EXCEPT !.free_tp_enable = b] \in GoodJoint
<1>1. [r EXCEPT !.free_tp_enable = b] \in JointType
  BY DEF GoodJoint, JointType
<1>2. JointOK([r EXCEPT !.free_tp_enable = b])
  BY DEF GoodJoint, JointType, JointOK
<1>3. QED
  BY <1>1, <1>2 DEF GoodJoint

(* Forgetting that a joint is homed. *)
LEMMA GoodUnhomed ==
  ASSUME NEW r \in GoodJoint
  PROVE  [r EXCEPT !.homed = FALSE] \in GoodJoint
<1>1. [r EXCEPT !.homed = FALSE] \in JointType
  BY DEF GoodJoint, JointType
<1>2. JointOK([r EXCEPT !.homed = FALSE])
  BY DEF GoodJoint, JointType, JointOK
<1>3. QED
  BY <1>1, <1>2 DEF GoodJoint

(* Sending a joint to HOME_IDLE, HOME_START or HOME_ABORT. *)
LEMMA GoodRestart ==
  ASSUME NEW r \in GoodJoint, NEW s \in {"IDLE", "START", "ABORT"}
  PROVE  [r EXCEPT !.home_state = s] \in GoodJoint
<1>1. [r EXCEPT !.home_state = s] \in JointType
  BY DEF GoodJoint, JointType, HomeStates
<1>2. JointOK([r EXCEPT !.home_state = s])
  BY DEF GoodJoint, JointType, JointOK, LatchedStates
<1>3. QED
  BY <1>1, <1>2 DEF GoodJoint

(* A jog starts: the joint belongs to the keyboard or to the wheel, not to *)
(* both.                                                                   *)
LEMMA GoodJog ==
  ASSUME NEW r \in GoodJoint
  PROVE  /\ ~r.wheel_jog_active =>
              [r EXCEPT !.kb_jog_active = TRUE, !.free_tp_enable = TRUE]
                \in GoodJoint
         /\ ~r.kb_jog_active =>
              [r EXCEPT !.wheel_jog_active = TRUE, !.free_tp_enable = TRUE]
                \in GoodJoint
<1>1. ASSUME ~r.wheel_jog_active
      PROVE  [r EXCEPT !.kb_jog_active = TRUE, !.free_tp_enable = TRUE]
               \in GoodJoint
  <2>1. [r EXCEPT !.kb_jog_active = TRUE, !.free_tp_enable = TRUE] \in JointType
    BY DEF GoodJoint, JointType
  <2>2. JointOK([r EXCEPT !.kb_jog_active = TRUE, !.free_tp_enable = TRUE])
    BY <1>1 DEF GoodJoint, JointType, JointOK
  <2>3. QED
    BY <2>1, <2>2 DEF GoodJoint
<1>2. ASSUME ~r.kb_jog_active
      PROVE  [r EXCEPT !.wheel_jog_active = TRUE, !.free_tp_enable = TRUE]
               \in GoodJoint
  <2>1. [r EXCEPT !.wheel_jog_active = TRUE, !.free_tp_enable = TRUE] \in JointType
    BY DEF GoodJoint, JointType
  <2>2. JointOK([r EXCEPT !.wheel_jog_active = TRUE, !.free_tp_enable = TRUE])
    BY <1>2 DEF GoodJoint, JointType, JointOK
  <2>3. QED
    BY <2>1, <2>2 DEF GoodJoint
<1>3. QED
  BY <1>1, <1>2

(* clearHomes() changes no more than the homed flags. *)
LEMMA GoodClearHomes ==
  ASSUME NEW js \in [Joints -> GoodJoint], NEW moved
  PROVE  clearHomes(js, moved) \in [Joints -> GoodJoint]
<1>1. ASSUME NEW j \in Joints
      PROVE  [js[j] EXCEPT !.homed = FALSE] \in GoodJoint
  BY GoodUnhomed
<1>2. QED
  BY <1>1 DEF clearHomes

-----------------------------------------------------------------------------
(* The joints stay good under every command *)

(* Every command keeps the joints good: emcmotCommandHandler() only stops, *)
(* starts a jog it allows, starts or aborts homing, or forgets a home.     *)
LEMMA GoodCommand ==
  ASSUME JointsGood, emcmotCommandHandler
  PROVE  JointsGood'
<1>1. CASE Abort \/ AxisAbort
  <2>1. ASSUME NEW S, joint' = AbortJoints(S) PROVE JointsGood'
    <3>1. ASSUME NEW j \in Joints
          PROVE  [joint[j] EXCEPT !.free_tp_enable = FALSE,
                                  !.home_state = IF @ = "IDLE" THEN @ ELSE "ABORT"]
                   \in GoodJoint
      <4>1. joint[j] \in GoodJoint
        BY DEF JointsGood
      <4> DEFINE r == joint[j]
                 a == [r EXCEPT !.free_tp_enable = FALSE,
                                !.home_state = IF @ = "IDLE" THEN @ ELSE "ABORT"]
      <4> HIDE DEF r
      <4>2. r \in GoodJoint
        BY <4>1 DEF r
      <4>3. a \in JointType
        <5>1. ASSUME NEW h \in HomeStates
              PROVE  [r EXCEPT !.free_tp_enable = FALSE, !.home_state = h] \in JointType
          BY <4>2 DEF GoodJoint, JointType
        <5>2. (IF r.home_state = "IDLE" THEN r.home_state ELSE "ABORT") \in HomeStates
          BY DEF HomeStates
        <5>3. QED
          BY <5>1, <5>2
      <4>4. JointOK(a)
        BY <4>2 DEF GoodJoint, JointType, JointOK, LatchedStates
      <4>5. QED
        BY <4>3, <4>4 DEF GoodJoint, r
    <3>2. QED
      BY <2>1, <3>1 DEF AbortJoints, JointsGood
  <2>2. QED
    BY <1>1, <2>1 DEF Abort, AxisAbort, JointsGood
<1>2. CASE Jog
  <2>1. PICK j \in Joints :
          /\ JogAllowed(j)
          /\ joint' = clearHomes([joint EXCEPT ![j].kb_jog_active = TRUE,
                                               ![j].free_tp_enable = TRUE], {j})
    BY <1>2 DEF Jog
  <2>2. [joint[j] EXCEPT !.kb_jog_active = TRUE, !.free_tp_enable = TRUE] \in GoodJoint
    BY <2>1, GoodJog DEF JogAllowed, JointsGood
  <2>3. [joint EXCEPT ![j].kb_jog_active = TRUE, ![j].free_tp_enable = TRUE]
          \in [Joints -> GoodJoint]
    BY <2>2 DEF JointsGood
  <2>4. QED
    BY <2>1, <2>3, GoodClearHomes DEF JointsGood
<1>3. CASE Home
  <2>1. PICK j \in Joints :
          joint' = [joint EXCEPT ![j].free_tp_enable = FALSE,
                                 ![j].home_state = "START"]
    BY <1>3 DEF Home
  <2>2. [[joint[j] EXCEPT !.free_tp_enable = FALSE] EXCEPT !.home_state = "START"]
          \in GoodJoint
    BY GoodPlanner, GoodRestart DEF JointsGood
  <2>3. QED
    BY <2>1, <2>2 DEF JointsGood
<1>4. CASE Unhome
  <2>1. PICK S : UnhomeJoints(S)
    BY <1>4 DEF Unhome
  <2>2. ASSUME NEW j \in Joints
        PROVE  [joint[j] EXCEPT !.homed = FALSE] \in GoodJoint
    BY GoodUnhomed DEF JointsGood
  <2>3. QED
    BY <2>1, <2>2 DEF UnhomeJoints, JointsGood
<1>5. CASE UNCHANGED joint
  BY <1>5 DEF JointsGood
<1>6. NoCommand \/ Free \/ Coord \/ Teleop \/ OverrideLimits \/ SetLine
        \/ Probe \/ RigidTap \/ Disable \/ Enable \/ HomeAll
        \/ ClearProbeFlags \/ SetTeleopVector => UNCHANGED joint
  BY DEF NoCommand, Free, Coord, Teleop, OverrideLimits, SetLine, Probe,
         RigidTap, Disable, Enable, HomeAll, ClearProbeFlags, SetTeleopVector
<1>7. QED
  BY <1>1, <1>2, <1>3, <1>4, <1>5, <1>6 DEF emcmotCommandHandler

-----------------------------------------------------------------------------
(* The joints stay good under every function of control.c *)

(* process_inputs() changes the limit readings and the index pin only. *)
LEMMA GoodProcessInputs ==
  ASSUME JointsGood, ProcessInputs
  PROVE  JointsGood'
<1>1. PICK limits \in [ActiveJoints -> LimitInputs],
           pulses \in SUBSET {j \in ActiveJoints : joint[j].index_enable} :
        joint' = [j \in Joints |->
                    IF j \in ActiveJoints
                    THEN [joint[j] EXCEPT !.limits = limits[j],
                                          !.index_enable = @ /\ j \notin pulses]
                    ELSE joint[j]]
  BY DEF ProcessInputs
<1>2. ASSUME NEW r \in GoodJoint, NEW l \in LimitInputs, NEW b \in BOOLEAN
      PROVE  [r EXCEPT !.limits = l, !.index_enable = @ /\ b] \in GoodJoint
  <2>1. [r EXCEPT !.limits = l, !.index_enable = @ /\ b] \in JointType
    BY InputAssumption DEF GoodJoint, JointType
  <2>2. JointOK([r EXCEPT !.limits = l, !.index_enable = @ /\ b])
    BY DEF GoodJoint, JointType, JointOK
  <2>3. QED
    BY <2>1, <2>2 DEF GoodJoint
<1>3. ASSUME NEW j \in ActiveJoints
      PROVE  [joint[j] EXCEPT !.limits = limits[j],
                              !.index_enable = @ /\ j \notin pulses] \in GoodJoint
  BY <1>2, ActiveAssumption DEF JointsGood
<1>4. QED
  BY <1>1, <1>3, ActiveAssumption DEF JointsGood

(* An unexpected probe contact sends a homing joint to HOME_ABORT. *)
LEMMA GoodProcessProbeInputs ==
  ASSUME JointsGood, ProcessProbeInputs
  PROVE  JointsGood'
<1>1. ASSUME NEW r \in GoodJoint
      PROVE  [r EXCEPT !.home_state = IF r.homing THEN "ABORT" ELSE @,
                       !.free_tp_enable = FALSE] \in GoodJoint
  <2> DEFINE p == [r EXCEPT !.home_state = IF r.homing THEN "ABORT" ELSE @,
                            !.free_tp_enable = FALSE]
  <2>1. p \in JointType
    BY DEF GoodJoint, JointType, HomeStates
  <2>2. JointOK(p)
    BY DEF GoodJoint, JointType, JointOK, LatchedStates
  <2>3. QED
    BY <2>1, <2>2 DEF GoodJoint
<1>2. ASSUME NEW j \in Joints
      PROVE  [joint[j] EXCEPT !.home_state = IF joint[j].homing THEN "ABORT" ELSE @,
                              !.free_tp_enable = FALSE] \in GoodJoint
  BY <1>1 DEF JointsGood
<1>3. ProbeStopsJoints \in [Joints -> GoodJoint]
  BY <1>2 DEF ProbeStopsJoints, JointsGood
<1>4. joint' = joint \/ joint' = ProbeStopsJoints
  BY DEF ProcessProbeInputs
<1>5. QED
  BY <1>3, <1>4 DEF JointsGood

(* set_operating_mode() resets the homing flag and the state together. *)
LEMMA GoodSetOperatingMode ==
  ASSUME JointsGood, SetOperatingMode
  PROVE  JointsGood'
<1>1. ASSUME NEW r \in GoodJoint, NEW b \in BOOLEAN, NEW switched \in BOOLEAN
      PROVE  [r EXCEPT !.free_tp_enable = @ /\ b, !.homing = @ /\ ~switched,
                       !.home_state = IF switched THEN "IDLE" ELSE @] \in GoodJoint
  <2> DEFINE m == [r EXCEPT !.free_tp_enable = @ /\ b, !.homing = @ /\ ~switched,
                            !.home_state = IF switched THEN "IDLE" ELSE @]
  <2>1. m \in JointType
    <3>1. ASSUME NEW f \in BOOLEAN, NEW h \in BOOLEAN, NEW s \in HomeStates
          PROVE  [r EXCEPT !.free_tp_enable = f, !.homing = h, !.home_state = s]
                   \in JointType
      BY DEF GoodJoint, JointType
    <3>2. (IF switched THEN "IDLE" ELSE r.home_state) \in HomeStates
      BY DEF GoodJoint, JointType, HomeStates
    <3>3. QED
      BY <3>1, <3>2
  <2>2. JointOK(m)
    BY DEF GoodJoint, JointType, JointOK, LatchedStates
  <2>3. QED
    BY <2>1, <2>2 DEF GoodJoint
<1>2. ASSUME NEW j \in Joints
      PROVE  JointsAfterModeChange[j] \in GoodJoint
  <2> DEFINE b == (motion_enable => enabling) /\ ~EnteringFree
             switched == enabling # motion_enable /\ j \in ActiveJoints
  <2>1. b \in BOOLEAN /\ switched \in BOOLEAN
    OBVIOUS
  <2>2. joint[j] \in GoodJoint
    BY DEF JointsGood
  <2>3. JointsAfterModeChange[j] =
          [joint[j] EXCEPT !.free_tp_enable = @ /\ b, !.homing = @ /\ ~switched,
                           !.home_state = IF switched THEN "IDLE" ELSE @]
    BY ZenonT(60) DEF JointsAfterModeChange
  <2> HIDE DEF b, switched
  <2>4. QED
    BY <1>1, <2>1, <2>2, <2>3, ZenonT(60)
<1>3. joint' = JointsAfterModeChange
  BY DEF SetOperatingMode
<1>4. JointsAfterModeChange = [j \in Joints |-> JointsAfterModeChange[j]]
  BY DEF JointsAfterModeChange
<1>5. QED
  BY <1>2, <1>3, <1>4 DEF JointsGood

(* handle_jogwheels() takes only joints the keyboard does not jog. *)
LEMMA GoodHandleJogwheels ==
  ASSUME JointsGood, HandleJogwheels
  PROVE  JointsGood'
<1>1. PICK turned \in WheelInputs, fed \in FeedInputs :
        LET moved == WheelJogs(turned, fed)
        IN  joint' = clearHomes(
                       [j \in Joints |->
                          IF j \in moved
                          THEN [joint[j] EXCEPT !.wheel_jog_active = TRUE,
                                                !.free_tp_enable = TRUE]
                          ELSE joint[j]], moved)
  BY DEF HandleJogwheels
<1>2. ASSUME NEW j \in Joints, j \in WheelJogs(turned, fed)
      PROVE  [joint[j] EXCEPT !.wheel_jog_active = TRUE, !.free_tp_enable = TRUE]
               \in GoodJoint
  BY <1>2, GoodJog DEF JointsGood, WheelJogs
<1>3. [j \in Joints |->
         IF j \in WheelJogs(turned, fed)
         THEN [joint[j] EXCEPT !.wheel_jog_active = TRUE, !.free_tp_enable = TRUE]
         ELSE joint[j]] \in [Joints -> GoodJoint]
  BY <1>2 DEF JointsGood
<1>4. QED
  BY <1>1, <1>3, GoodClearHomes DEF JointsGood

(* get_pos_cmds() only drops jog flags, and never both kinds are set. *)
LEMMA GoodPosCmds ==
  ASSUME JointsGood, FreePosCmds \/ CoordPosCmds \/ TeleopPosCmds \/ DisabledPosCmds
  PROVE  JointsGood'
<1>1. CASE FreePosCmds
  <2>1. PICK step :
          joint' = [j \in Joints |->
                      IF j \in ActiveJoints THEN JointAfter(joint[j], step[j])
                      ELSE joint[j]]
    BY <1>1 DEF FreePosCmds
  <2>2. ASSUME NEW r \in GoodJoint, NEW st PROVE JointAfter(r, st) \in GoodJoint
    <3>1. JointAfter(r, st) \in JointType
      <4>1. ASSUME NEW a \in BOOLEAN, NEW v \in BOOLEAN, NEW h \in BOOLEAN,
                   NEW k \in BOOLEAN, NEW w \in BOOLEAN
            PROVE  [r EXCEPT !.free_tp_active = a, !.vel_cmd = v, !.at_home = h,
                             !.kb_jog_active = k, !.wheel_jog_active = w]
                     \in JointType
        BY DEF GoodJoint, JointType
      <4> DEFINE a == st # "rest"
                 v == st \in {"drive", "coast"}
                 h == r.at_home /\ st \in {"rest", "coast"}
                 k == r.kb_jog_active /\ st # "rest"
                 w == r.wheel_jog_active /\ st # "rest"
      <4>2. /\ a \in BOOLEAN /\ v \in BOOLEAN /\ h \in BOOLEAN
            /\ k \in BOOLEAN /\ w \in BOOLEAN
        BY SMTT(30)
      <4>3. JointAfter(r, st) =
              [r EXCEPT !.free_tp_active = a, !.vel_cmd = v, !.at_home = h,
                        !.kb_jog_active = k, !.wheel_jog_active = w]
        BY ZenonT(60) DEF JointAfter
      <4> HIDE DEF a, v, h, k, w
      <4>4. QED
        BY <4>1, <4>2, <4>3, ZenonT(60)
    <3>2. JointOK(JointAfter(r, st))
      BY DEF GoodJoint, JointType, JointOK, JointAfter
    <3>3. QED
      BY <3>1, <3>2 DEF GoodJoint
  <2>3. QED
    BY <2>1, <2>2 DEF JointsGood
<1>2. CASE CoordPosCmds \/ TeleopPosCmds \/ DisabledPosCmds
  <2>1. PICK v \in BOOLEAN : joint' = AllJointsMoving(v)
    BY <1>2 DEF CoordPosCmds, TeleopPosCmds, DisabledPosCmds
  <2>2. ASSUME NEW r \in GoodJoint PROVE [r EXCEPT !.vel_cmd = v] \in GoodJoint
    <3>1. [r EXCEPT !.vel_cmd = v] \in JointType
      BY DEF GoodJoint, JointType
    <3>2. JointOK([r EXCEPT !.vel_cmd = v])
      BY DEF GoodJoint, JointType, JointOK
    <3>3. QED
      BY <3>1, <3>2 DEF GoodJoint
  <2>3. QED
    BY <2>1, <2>2 DEF AllJointsMoving, JointsGood
<1>3. QED
  BY <1>1, <1>2

-----------------------------------------------------------------------------
(* The joints stay good under do_homing_sequence() and do_homing() *)

(* do_homing_sequence() sends joints to HOME_START and no further. *)
LEMMA GoodSequence ==
  ASSUME JointsGood, DoHomingSequence
  PROVE  JointsGood'
<1>1. ASSUME NEW S PROVE PrimeHoming(S) \in [Joints -> GoodJoint]
  <2>1. ASSUME NEW r \in GoodJoint
        PROVE  [r EXCEPT !.free_tp_enable = FALSE, !.home_state = "START"]
                 \in GoodJoint
    <3>1. [[r EXCEPT !.free_tp_enable = FALSE] EXCEPT !.home_state = "START"]
            \in GoodJoint
      BY GoodPlanner, GoodRestart
    <3>2. QED
      BY <3>1
  <2>2. QED
    BY <2>1 DEF PrimeHoming, JointsGood
<1>2. UNCHANGED joint \/ \E S : joint' = PrimeHoming(S)
  BY DEF DoHomingSequence, SequenceIdle, SequenceStart, SequenceStartJoints,
         SequenceWaitJoints, StartJoints
<1>3. QED
  BY <1>1, <1>2 DEF JointsGood

(* A homing move keeps the joint good: it may go to any state, but to one  *)
(* after the final latch only with its coordinates set.                    *)
LEMMA GoodHoming ==
  ASSUME NEW r \in GoodJoint, r.home_state \notin {"IDLE", "START", "ABORT"},
         NEW s \in HomeStates, s \in LatchedStates => r.motor_offset = "home",
         NEW b \in BOOLEAN, NEW t \in 0 .. HOME_DELAY
  PROVE  /\ [r EXCEPT !.home_state = s] \in GoodJoint
         /\ [r EXCEPT !.free_tp_enable = b, !.home_state = s] \in GoodJoint
         /\ [r EXCEPT !.home_pause_timer = t, !.home_state = s] \in GoodJoint
         /\ [r EXCEPT !.home_pause_timer = t, !.free_tp_enable = b,
                      !.home_state = s] \in GoodJoint
<1>1. r.homing /\ ~r.homed
  BY DEF GoodJoint, JointOK
<1>2. [r EXCEPT !.home_state = s] \in GoodJoint
  <2>1. [r EXCEPT !.home_state = s] \in JointType
    BY DEF GoodJoint, JointType
  <2>2. JointOK([r EXCEPT !.home_state = s])
    BY <1>1 DEF GoodJoint, JointType, JointOK
  <2>3. QED
    BY <2>1, <2>2 DEF GoodJoint
<1>3. [r EXCEPT !.free_tp_enable = b, !.home_state = s] \in GoodJoint
  <2>1. [r EXCEPT !.free_tp_enable = b, !.home_state = s] \in JointType
    BY DEF GoodJoint, JointType
  <2>2. JointOK([r EXCEPT !.free_tp_enable = b, !.home_state = s])
    BY <1>1 DEF GoodJoint, JointType, JointOK
  <2>3. QED
    BY <2>1, <2>2 DEF GoodJoint
<1>4. [r EXCEPT !.home_pause_timer = t, !.home_state = s] \in GoodJoint
  <2>1. [r EXCEPT !.home_pause_timer = t, !.home_state = s] \in JointType
    BY DEF GoodJoint, JointType
  <2>2. JointOK([r EXCEPT !.home_pause_timer = t, !.home_state = s])
    BY <1>1 DEF GoodJoint, JointType, JointOK
  <2>3. QED
    BY <2>1, <2>2 DEF GoodJoint
<1>5. [r EXCEPT !.home_pause_timer = t, !.free_tp_enable = b, !.home_state = s]
        \in GoodJoint
  <2> DEFINE m == [r EXCEPT !.home_pause_timer = t, !.free_tp_enable = b,
                            !.home_state = s]
  <2>1. m \in JointType
    BY DEF GoodJoint, JointType
  <2>2. JointOK(m)
    BY <1>1 DEF GoodJoint, JointType, JointOK
  <2>3. QED
    BY <2>1, <2>2 DEF GoodJoint
<1>6. QED
  BY <1>2, <1>3, <1>4, <1>5

(* The loop of do_homing() writes one good record and goes on. *)
LEMMA GoodLoopStep ==
  ASSUME JointsGood, joint_num \in Joints,
         \E r \in GoodJoint : NextPeriod(r) \/ Immediately(r)
  PROVE  JointsGood'
BY DEF NextPeriod, Immediately, JointsGood

Advances == \E r \in GoodJoint : NextPeriod(r) \/ Immediately(r)

(* The pieces the cases of the `switch' share. *)
LEMMA HomingPieces ==
  ASSUME J \in GoodJoint, J.home_state \notin {"IDLE", "START", "ABORT"}
  PROVE  /\ NextPeriod(J) => Advances
         /\ \A s \in HomeStates : (s \in LatchedStates => J.motor_offset = "home") =>
              /\ StartMove(s) => Advances
              /\ NextPeriod([J EXCEPT !.home_state = s]) => Advances
              /\ Immediately([J EXCEPT !.home_state = s]) => Advances
              /\ Immediately([J EXCEPT !.free_tp_enable = FALSE,
                                       !.home_state = s]) => Advances
              /\ Immediately([J EXCEPT !.home_pause_timer = 0,
                                       !.home_state = s]) => Advances
         /\ MovingChecks => Advances
         /\ GiveUp => Advances
         /\ EdgeFound => Advances
<1>1. 0 \in 0 .. HOME_DELAY
  BY DelayAssumption, SMTT(30)
<1>2. NextPeriod(J) => Advances
  BY DEF Advances
<1>3. ASSUME NEW s \in HomeStates, s \in LatchedStates => J.motor_offset = "home"
      PROVE  /\ StartMove(s) => Advances
             /\ NextPeriod([J EXCEPT !.home_state = s]) => Advances
             /\ Immediately([J EXCEPT !.home_state = s]) => Advances
             /\ Immediately([J EXCEPT !.free_tp_enable = FALSE,
                                      !.home_state = s]) => Advances
             /\ Immediately([J EXCEPT !.home_pause_timer = 0,
                                      !.home_state = s]) => Advances
  <2>1. /\ [J EXCEPT !.home_state = s] \in GoodJoint
        /\ [J EXCEPT !.free_tp_enable = FALSE, !.home_state = s] \in GoodJoint
        /\ [J EXCEPT !.home_pause_timer = 0, !.home_state = s] \in GoodJoint
        /\ [J EXCEPT !.home_pause_timer = 0, !.free_tp_enable = TRUE,
                     !.home_state = s] \in GoodJoint
    BY <1>1, <1>3, GoodHoming
  <2>2. QED
    BY <2>1 DEF Advances, StartMove
<1>4. AbortMove => Advances
  <2>1. (J.free_tp_enable /\ OnLimit) \in BOOLEAN
    OBVIOUS
  <2>2. [J EXCEPT !.free_tp_enable = @ /\ OnLimit, !.home_state = "ABORT"]
          \in GoodJoint
    BY <1>1, <2>1, GoodHoming DEF HomeStates, LatchedStates
  <2>3. QED
    BY <2>2 DEF Advances, AbortMove
<1>5. GiveUp => Advances
  <2>1. [J EXCEPT !.home_pause_timer = 0, !.home_state = "IDLE"] \in GoodJoint
    BY <1>1, GoodHoming DEF HomeStates, LatchedStates
  <2>2. QED
    BY <2>1 DEF Advances, GiveUp
<1>6. EdgeFound => Advances
  BY <1>3 DEF EdgeFound, HomeStates, LatchedStates
<1>7. QED
  BY <1>2, <1>3, <1>4, <1>5, <1>6 DEF MovingChecks

(* A joint that is homing is in one of the states of the `switch'. *)
LEMMA HomingJoint ==
  ASSUME JointsGood, NEW s, InHomeState(s)
  PROVE  J \in GoodJoint /\ J.home_state = s /\ joint_num \in Joints
BY ActiveAssumption DEF InHomeState, J, JointsGood

(* Every case of the `switch' of do_homing() writes one good record, or the *)
(* function returns without touching a joint.                              *)
LEMMA HomingAdvances ==
  ASSUME JointsGood, homing_params \in [Joints -> HomingParams], DoHoming
  PROVE  \/ joint_num \in Joints /\ Advances
         \/ HomingSuspended
         \/ HomingDone
<1>1. CASE HomeIdle
  BY <1>1 DEF HomeIdle, JointsGood, J, Advances
<1>2. CASE HomeStart
  <2>1. J \in GoodJoint /\ J.home_state = "START" /\ joint_num \in Joints
    BY <1>2, HomingJoint DEF HomeStart
  <2> DEFINE started == [J EXCEPT !.homing = TRUE, !.homed = FALSE,
                                  !.at_home = FALSE, !.free_tp_enable = FALSE,
                                  !.home_pause_timer = 0]
  <2>2. started \in GoodJoint /\ started.homing /\ ~started.homed
    <3>1. ASSUME NEW r \in GoodJoint, r.home_state = "START"
          PROVE  LET m == [r EXCEPT !.homing = TRUE, !.homed = FALSE,
                                    !.at_home = FALSE, !.free_tp_enable = FALSE,
                                    !.home_pause_timer = 0]
                 IN  m \in JointType /\ JointOK(m) /\ m.homing /\ ~m.homed
      <4> DEFINE m == [r EXCEPT !.homing = TRUE, !.homed = FALSE,
                                !.at_home = FALSE, !.free_tp_enable = FALSE,
                                !.home_pause_timer = 0]
      <4>1. m \in JointType /\ m.homing /\ ~m.homed
        <5>1. 0 \in 0 .. HOME_DELAY
          BY DelayAssumption, SMTT(30)
        <5>2. QED
          BY <5>1 DEF GoodJoint, JointType
      <4>2. JointOK(m)
        BY <3>1 DEF GoodJoint, JointType, JointOK, LatchedStates
      <4>3. QED
        BY <4>1, <4>2
    <3>2. QED
      BY <2>1, <3>1 DEF GoodJoint
  <2>3. ASSUME NEW r \in GoodJoint, r.homing, ~r.homed,
               NEW s \in {"UNLOCK", "UNLOCK_WAIT"}
        PROVE  [r EXCEPT !.home_state = s] \in GoodJoint
    <3>1. [r EXCEPT !.home_state = s] \in JointType
      BY DEF GoodJoint, JointType, HomeStates
    <3>2. JointOK([r EXCEPT !.home_state = s])
      BY <2>3 DEF GoodJoint, JointType, JointOK, LatchedStates
    <3>3. QED
      BY <3>1, <3>2 DEF GoodJoint
  <2>4. [J EXCEPT !.home_state = "IDLE"] \in GoodJoint
    BY <2>1, GoodRestart
  <2> HIDE DEF started
  <2>5. /\ [started EXCEPT !.home_state = "UNLOCK"] \in GoodJoint
        /\ [started EXCEPT !.home_state = "UNLOCK_WAIT"] \in GoodJoint
    BY <2>2, <2>3
  <2>6. \/ NextPeriod([J EXCEPT !.home_state = "IDLE"])
        \/ NextPeriod([started EXCEPT !.home_state = "UNLOCK"])
        \/ Immediately([started EXCEPT !.home_state = "UNLOCK_WAIT"])
    BY <1>2 DEF HomeStart, started
  <2>7. QED
    BY <2>1, <2>4, <2>5, <2>6 DEF Advances
<1>3. CASE HomeUnlock \/ HomeUnlockWait
  <2>1. J \in GoodJoint /\ J.home_state \in {"UNLOCK", "UNLOCK_WAIT"}
          /\ joint_num \in Joints
    BY <1>3, HomingJoint DEF HomeUnlock, HomeUnlockWait
  <2>2. P \in HomingParams
    BY <2>1 DEF P
  <2>3. FirstState \in HomeStates \ LatchedStates
    BY <2>2 DEF FirstState, HomingParams, HomeStates, LatchedStates
  <2>4. \/ NextPeriod([J EXCEPT !.home_state = "UNLOCK_WAIT"])
        \/ NextPeriod(J)
        \/ Immediately([J EXCEPT !.home_state = FirstState])
        \/ NextPeriod([J EXCEPT !.home_state = "IDLE"])
    BY <1>3 DEF HomeUnlock, HomeUnlockWait
  <2>5. {"UNLOCK_WAIT", "IDLE"} \subseteq HomeStates \ LatchedStates
    BY DEF HomeStates, LatchedStates
  <2>6. QED
    BY <2>1, <2>3, <2>4, <2>5, HomingPieces
<1>4. CASE HomePause
  <2>1. PICK s \in PausingStates : InHomeState(s)
    BY <1>4 DEF HomePause
  <2>2. J \in GoodJoint /\ J.home_state = s /\ joint_num \in Joints
    BY <2>1, HomingJoint
  <2>3. ASSUME NEW r \in GoodJoint, NEW t \in 0 .. HOME_DELAY
        PROVE  [r EXCEPT !.home_pause_timer = t] \in GoodJoint
    <3>1. [r EXCEPT !.home_pause_timer = t] \in JointType
      BY DEF GoodJoint, JointType
    <3>2. JointOK([r EXCEPT !.home_pause_timer = t])
      BY DEF GoodJoint, JointType, JointOK
    <3>3. QED
      BY <3>1, <3>2 DEF GoodJoint
  <2>4. J.home_pause_timer \in 0 .. HOME_DELAY
    BY <2>2 DEF GoodJoint, JointType
  <2>5. PICK t \in 0 .. HOME_DELAY : NextPeriod([J EXCEPT !.home_pause_timer = t])
    <3>1. CASE J.free_tp_active
      BY <1>4, <3>1, DelayAssumption, SMTT(30) DEF HomePause
    <3>2. CASE ~J.free_tp_active
      <4>1. /\ J.home_pause_timer < HOME_DELAY
            /\ NextPeriod([J EXCEPT !.home_pause_timer = J.home_pause_timer + 1])
        BY <1>4, <3>2 DEF HomePause
      <4>2. J.home_pause_timer + 1 \in 0 .. HOME_DELAY
        BY <2>4, <4>1, DelayAssumption, SMTT(30)
      <4>3. QED
        BY <4>1, <4>2
    <3>3. QED
      BY <3>1, <3>2
  <2>6. QED
    BY <2>2, <2>3, <2>5 DEF Advances
<1>5. CASE HomeInitialBackoffStart \/ HomeInitialSearchStart
             \/ HomeFinalBackoffStart \/ HomeRiseSearchStart \/ HomeFallSearchStart
  <2>1. PICK s \in {"INITIAL_BACKOFF_START", "INITIAL_SEARCH_START",
                    "FINAL_BACKOFF_START", "RISE_SEARCH_START",
                    "FALL_SEARCH_START"} : InHomeState(s)
    BY <1>5 DEF HomeInitialBackoffStart, HomeInitialSearchStart,
                HomeFinalBackoffStart, HomeRiseSearchStart, HomeFallSearchStart
  <2>2. J \in GoodJoint /\ J.home_state = s /\ joint_num \in Joints
    BY <2>1, HomingJoint
  <2>3. {"INITIAL_BACKOFF_WAIT", "INITIAL_BACKOFF_START", "INITIAL_SEARCH_WAIT",
         "FINAL_BACKOFF_WAIT", "RISE_SEARCH_WAIT", "FALL_SEARCH_WAIT"}
          \subseteq HomeStates \ LatchedStates
    BY DEF HomeStates, LatchedStates
  <2>4. QED
    BY <1>5, <2>2, <2>3, HomingPieces
       DEF HomeInitialBackoffStart, HomeInitialSearchStart,
           HomeFinalBackoffStart, HomeRiseSearchStart, HomeFallSearchStart
<1>6. CASE HomeInitialBackoffWait \/ HomeInitialSearchWait
             \/ HomeFinalBackoffWait \/ HomeRiseSearchWait \/ HomeFallSearchWait
             \/ HomeIndexSearchWait
  <2>1. PICK s \in {"INITIAL_BACKOFF_WAIT", "INITIAL_SEARCH_WAIT",
                    "FINAL_BACKOFF_WAIT", "RISE_SEARCH_WAIT",
                    "FALL_SEARCH_WAIT", "INDEX_SEARCH_WAIT"} : InHomeState(s)
    BY <1>6 DEF HomeInitialBackoffWait, HomeInitialSearchWait,
                HomeFinalBackoffWait, HomeRiseSearchWait, HomeFallSearchWait,
                HomeIndexSearchWait
  <2>2. J \in GoodJoint /\ J.home_state = s /\ joint_num \in Joints
    BY <2>1, HomingJoint
  <2>3. {"INITIAL_SEARCH_START", "SET_COARSE_POSITION", "RISE_SEARCH_START",
         "SET_INDEX_POSITION"} \subseteq HomeStates \ LatchedStates
    BY DEF HomeStates, LatchedStates
  <2>4. QED
    BY <1>6, <2>2, <2>3, HomingPieces
       DEF HomeInitialBackoffWait, HomeInitialSearchWait,
           HomeFinalBackoffWait, HomeRiseSearchWait, HomeFallSearchWait,
           HomeIndexSearchWait
<1>7. CASE HomeSetCoarsePosition \/ HomeSetSwitchPosition \/ HomeSetIndexPosition
  <2>1. PICK s \in {"SET_COARSE_POSITION", "SET_SWITCH_POSITION",
                    "SET_INDEX_POSITION"} : InHomeState(s)
    BY <1>7 DEF HomeSetCoarsePosition, HomeSetSwitchPosition, HomeSetIndexPosition
  <2>2. J \in GoodJoint /\ J.home_state = s /\ joint_num \in Joints
    BY <2>1, HomingJoint
  <2>3. ASSUME NEW r \in GoodJoint, NEW o \in {"coarse", "home"},
               r.home_state \notin {"IDLE", "START", "ABORT"},
               NEW q \in {"FINAL_BACKOFF_START", "FALL_SEARCH_START",
                          "FINAL_MOVE_START"},
               q = "FINAL_MOVE_START" => o = "home"
        PROVE  [r EXCEPT !.motor_offset = o, !.home_state = q] \in GoodJoint
    <3>1. [r EXCEPT !.motor_offset = o, !.home_state = q] \in JointType
      BY DEF GoodJoint, JointType, HomeStates
    <3>2. JointOK([r EXCEPT !.motor_offset = o, !.home_state = q])
      BY <2>3 DEF GoodJoint, JointType, JointOK, LatchedStates
    <3>3. QED
      BY <3>1, <3>2 DEF GoodJoint
  <2>4. PICK o \in {"coarse", "home"},
             q \in {"FINAL_BACKOFF_START", "FALL_SEARCH_START", "FINAL_MOVE_START"} :
          /\ q = "FINAL_MOVE_START" => o = "home"
          /\ Immediately([J EXCEPT !.motor_offset = o, !.home_state = q])
    BY <1>7
       DEF HomeSetCoarsePosition, HomeSetSwitchPosition, HomeSetIndexPosition
  <2>5. [J EXCEPT !.motor_offset = o, !.home_state = q] \in GoodJoint
    BY <2>2, <2>3, <2>4
  <2>6. QED
    BY <2>2, <2>4, <2>5 DEF Advances
<1>8. CASE HomeIndexOnlyStart
  <2>1. J \in GoodJoint /\ J.home_state = "INDEX_ONLY_START" /\ joint_num \in Joints
    BY <1>8, HomingJoint DEF HomeIndexOnlyStart
  <2>2. ASSUME NEW r \in GoodJoint, r.home_state = "INDEX_ONLY_START"
        PROVE  [r EXCEPT !.home_pause_timer = 0, !.motor_offset = "coarse",
                         !.index_enable = TRUE, !.free_tp_enable = TRUE,
                         !.home_state = "INDEX_SEARCH_WAIT"] \in GoodJoint
    <3> DEFINE m == [r EXCEPT !.home_pause_timer = 0, !.motor_offset = "coarse",
                              !.index_enable = TRUE, !.free_tp_enable = TRUE,
                              !.home_state = "INDEX_SEARCH_WAIT"]
    <3>1. m \in JointType
      <4>1. 0 \in 0 .. HOME_DELAY
        BY DelayAssumption, SMTT(30)
      <4>2. QED
        BY <4>1 DEF GoodJoint, JointType, HomeStates
    <3>2. JointOK(m)
      BY <2>2 DEF GoodJoint, JointType, JointOK, LatchedStates
    <3>3. QED
      BY <3>1, <3>2 DEF GoodJoint
  <2>3. QED
    BY <1>8, <2>1, <2>2 DEF HomeIndexOnlyStart, Advances
<1>9. CASE HomeIndexSearchStart
  <2>1. J \in GoodJoint /\ J.home_state = "INDEX_SEARCH_START"
          /\ joint_num \in Joints
    BY <1>9, HomingJoint DEF HomeIndexSearchStart
  <2>2. ASSUME NEW r \in GoodJoint, r.home_state = "INDEX_SEARCH_START",
               NEW b \in BOOLEAN, NEW q \in {"ABORT", "INDEX_SEARCH_WAIT"}
        PROVE  [r EXCEPT !.index_enable = TRUE, !.free_tp_enable = b,
                         !.home_state = q] \in GoodJoint
    <3> DEFINE m == [r EXCEPT !.index_enable = TRUE, !.free_tp_enable = b,
                              !.home_state = q]
    <3>1. m \in JointType
      BY DEF GoodJoint, JointType, HomeStates
    <3>2. JointOK(m)
      BY <2>2 DEF GoodJoint, JointType, JointOK, LatchedStates
    <3>3. QED
      BY <3>1, <3>2 DEF GoodJoint
  <2> DEFINE b == J.free_tp_enable /\ (OnLimit \/ ~MoveFailed)
             q == IF MoveFailed THEN "ABORT" ELSE "INDEX_SEARCH_WAIT"
  <2>3. b \in BOOLEAN /\ q \in {"ABORT", "INDEX_SEARCH_WAIT"}
    OBVIOUS
  <2>4. Immediately([J EXCEPT !.index_enable = TRUE, !.free_tp_enable = b,
                              !.home_state = q])
    BY <1>9 DEF HomeIndexSearchStart
  <2> HIDE DEF b, q
  <2>5. [J EXCEPT !.index_enable = TRUE, !.free_tp_enable = b, !.home_state = q]
          \in GoodJoint
    BY <2>1, <2>2, <2>3
  <2>6. QED
    BY <2>1, <2>4, <2>5 DEF Advances
<1>10. CASE HomeFinalMoveStart \/ HomeFinalMoveWait \/ HomeLock \/ HomeLockWait
  <2>1. PICK s \in {"FINAL_MOVE_START", "FINAL_MOVE_WAIT", "LOCK", "LOCK_WAIT"} :
          InHomeState(s)
    BY <1>10 DEF HomeFinalMoveStart, HomeFinalMoveWait, HomeLock, HomeLockWait
  <2>2. J \in GoodJoint /\ J.home_state = s /\ joint_num \in Joints
    BY <2>1, HomingJoint
  <2>3. J.motor_offset = "home"
    BY <2>2 DEF GoodJoint, JointOK, LatchedStates
  <2>4. {"FINAL_MOVE_WAIT", "LOCK", "ABORT", "LOCK_WAIT", "FINISHED"}
          \subseteq HomeStates
    BY DEF HomeStates
  <2>5. QED
    BY <1>10, <2>2, <2>3, <2>4, HomingPieces
       DEF HomeFinalMoveStart, HomeFinalMoveWait, HomeLock, HomeLockWait
<1>11. CASE HomeFinished
  <2>1. J \in GoodJoint /\ J.home_state = "FINISHED" /\ joint_num \in Joints
    BY <1>11, HomingJoint DEF HomeFinished
  <2>2. ASSUME NEW r \in GoodJoint, r.home_state = "FINISHED"
        PROVE  [r EXCEPT !.homing = FALSE, !.homed = TRUE, !.at_home = TRUE,
                         !.home_state = "IDLE"] \in GoodJoint
    <3> DEFINE m == [r EXCEPT !.homing = FALSE, !.homed = TRUE, !.at_home = TRUE,
                              !.home_state = "IDLE"]
    <3>1. m \in JointType
      BY DEF GoodJoint, JointType, HomeStates
    <3>2. JointOK(m)
      BY <2>2 DEF GoodJoint, JointType, JointOK, LatchedStates
    <3>3. QED
      BY <3>1, <3>2 DEF GoodJoint
  <2>3. QED
    BY <1>11, <2>1, <2>2 DEF HomeFinished, Advances
<1>12. CASE HomeAbort
  <2>1. J \in GoodJoint /\ joint_num \in Joints
    BY <1>12, HomingJoint DEF HomeAbort
  <2>2. ASSUME NEW r \in GoodJoint
        PROVE  [r EXCEPT !.homing = FALSE, !.homed = FALSE, !.at_home = FALSE,
                         !.free_tp_enable = FALSE, !.home_state = "IDLE",
                         !.index_enable = FALSE] \in GoodJoint
    <3> DEFINE m == [r EXCEPT !.homing = FALSE, !.homed = FALSE, !.at_home = FALSE,
                              !.free_tp_enable = FALSE, !.home_state = "IDLE",
                              !.index_enable = FALSE]
    <3>1. m \in JointType
      BY DEF GoodJoint, JointType, HomeStates
    <3>2. JointOK(m)
      BY DEF GoodJoint, JointType, JointOK, LatchedStates
    <3>3. QED
      BY <3>1, <3>2 DEF GoodJoint
  <2>3. QED
    BY <1>12, <2>1, <2>2 DEF HomeAbort, Advances
<1>13. QED
  BY <1>1, <1>2, <1>3, <1>4, <1>5, <1>6, <1>7, <1>8, <1>9, <1>10, <1>11, <1>12
     DEF DoHoming

(* do_homing() keeps the joints good. *)
LEMMA GoodDoHoming ==
  ASSUME JointsGood, homing_params \in [Joints -> HomingParams], DoHoming
  PROVE  JointsGood'
<1>1. CASE HomingSuspended \/ HomingDone
  BY <1>1 DEF HomingSuspended, HomingDone, JointsGood
<1>2. QED
  BY <1>1, HomingAdvances, GoodLoopStep DEF Advances

-----------------------------------------------------------------------------
(* The types of everything but the joints *)

RestTypeOK ==
  /\ homing_params \in [Joints -> HomingParams]
  /\ unlock \in [Joints -> BOOLEAN]
  /\ ModesTypeOK /\ SequenceTypeOK /\ PlannerTypeOK /\ LoopTypeOK

(* Start-up satisfies the types. *)
LEMMA TypeInit == Init => JointsGood /\ RestTypeOK
<1> SUFFICES ASSUME Init PROVE JointsGood /\ RestTypeOK
  OBVIOUS
<1>1. JointsGood
  BY GoodInit DEF Init, JointsGood
<1>2. homing_params \in [Joints -> HomingParams] /\ unlock \in [Joints -> BOOLEAN]
  BY ConfigAssumption DEF Init
<1>3. ModesTypeOK /\ SequenceTypeOK
  BY DEF Init, ModesTypeOK, SequenceTypeOK
<1>4. PlannerTypeOK
  <2>1. tp \in [done : BOOLEAN, synced : BOOLEAN]
    BY DEF Init
  <2>2. teleop_vel \in [desired : BOOLEAN, current : BOOLEAN]
    BY DEF Init
  <2>3. QED
    BY <2>1, <2>2 DEF Init, PlannerTypeOK
<1>5. LoopTypeOK
  <2>1. 0 \in 0 .. NumJoints
    BY NumJointsAssumption, SMTT(30)
  <2>2. QED
    BY <2>1 DEF Init, LoopTypeOK, ServoFunctions
<1>6. QED
  BY <1>1, <1>2, <1>3, <1>4, <1>5 DEF RestTypeOK

(* The command handler keeps the types of the modes, of the sequence, of   *)
(* the planner and of the loop locals.                                     *)
LEMMA TypeCommand ==
  ASSUME JointsGood, RestTypeOK, emcmotCommandHandler
  PROVE  RestTypeOK'
<1>1. /\ homing_params' \in [Joints -> HomingParams]
      /\ unlock' \in [Joints -> BOOLEAN]
  BY CommandFrame DEF RestTypeOK
<1>2. LoopTypeOK'
  <2>1. joint_num = 0 /\ ~homing_flag
    BY CommandFrame DEF RestTypeOK, LoopTypeOK
  <2>2. QED
    BY <2>1, CommandFrame, SMTT(30) DEF RestTypeOK, LoopTypeOK, ServoFunctions, loopVars
<1>3. SequenceTypeOK'
  <2>1. homingSequenceState' \in {homingSequenceState, "START"}
    BY DEF emcmotCommandHandler, NoCommand, Abort, AxisAbort, Free, Coord,
           Teleop, OverrideLimits, Jog, SetLine, Probe, RigidTap, Disable,
           Enable, Home, HomeAll, Unhome, UnhomeJoints, ClearProbeFlags,
           SetTeleopVector, sequenceVars
  <2>2. QED
    BY <2>1, CommandFrame DEF RestTypeOK, SequenceTypeOK
<1>4. ModesTypeOK'
  <2>1. /\ enabling' \in BOOLEAN /\ coordinating' \in BOOLEAN
        /\ teleoperating' \in BOOLEAN
    <3>1. CASE Free \/ Coord \/ Teleop \/ Disable \/ Enable
      BY <3>1 DEF RestTypeOK, ModesTypeOK, Free, Coord, Teleop, Disable, Enable,
                  ModesAfterEnableChange, KinematicsReady
    <3>2. CASE UNCHANGED askedVars
      BY <3>2 DEF RestTypeOK, ModesTypeOK, askedVars
    <3>3. QED
      BY <3>1, <3>2
         DEF emcmotCommandHandler, NoCommand, Abort, AxisAbort, OverrideLimits,
             Jog, SetLine, Probe, RigidTap, Home, HomeAll, Unhome, UnhomeJoints,
             ClearProbeFlags, SetTeleopVector, modeVars
  <2>2. /\ allHomed' \in BOOLEAN /\ rehomeAll' \in BOOLEAN /\ probing' \in BOOLEAN
    <3>1. CASE Coord \/ Teleop \/ Jog \/ SetLine \/ Probe \/ RigidTap
                 \/ ClearProbeFlags \/ SetTeleopVector
      BY <3>1 DEF RestTypeOK, ModesTypeOK, Coord, Teleop, Jog, SetLine, Probe,
                  RigidTap, ClearProbeFlags, SetTeleopVector, AskAllHomed,
                  checkAllHomed
    <3>2. CASE UNCHANGED <<allHomed, rehomeAll, probing>>
      BY <3>2 DEF RestTypeOK, ModesTypeOK
    <3>3. QED
      BY <3>1, <3>2
         DEF emcmotCommandHandler, NoCommand, Abort, AxisAbort, Free,
             OverrideLimits, Disable, Enable, Home, HomeAll, Unhome,
             UnhomeJoints, probeVars
  <2>3. QED
    BY <2>1, <2>2, CommandFrame DEF RestTypeOK, ModesTypeOK
<1>5. PlannerTypeOK'
  <2>1. CASE Abort
    BY <2>1 DEF RestTypeOK, PlannerTypeOK, Abort, limitVars
  <2>2. CASE OverrideLimits
    <3>1. overrideLimitMask' \subseteq Joints \X {"neg", "pos"}
      <4>1. ASSUME NEW j \in Joints
            PROVE  {<<j, d>> : d \in joint[j].limits} \subseteq Joints \X {"neg", "pos"}
        BY SMTT(30) DEF JointsGood, GoodJoint, JointType
      <4>2. UNION {{<<j, d>> : d \in joint[j].limits} : j \in Joints}
              \subseteq Joints \X {"neg", "pos"}
        BY <4>1
      <4>3. QED
        BY <2>2, <4>2 DEF OverrideLimits
    <3>2. QED
      BY <2>2, <3>1 DEF RestTypeOK, PlannerTypeOK, OverrideLimits
  <2>3. CASE SetLine \/ Probe \/ RigidTap
    BY <2>3 DEF RestTypeOK, PlannerTypeOK, SetLine, Probe, RigidTap, limitVars
  <2>4. CASE SetTeleopVector
    BY <2>4 DEF RestTypeOK, PlannerTypeOK, SetTeleopVector, limitVars
  <2>5. CASE UNCHANGED <<limitVars, tp, teleop_vel>>
    BY <2>5 DEF RestTypeOK, PlannerTypeOK, limitVars
  <2>6. QED
    BY <2>1, <2>2, <2>3, <2>4, <2>5
       DEF emcmotCommandHandler, NoCommand, AxisAbort, Free, Coord, Teleop, Jog,
           Disable, Enable, Home, HomeAll, Unhome, UnhomeJoints, ClearProbeFlags
<1>6. QED
  BY <1>1, <1>2, <1>3, <1>4, <1>5 DEF RestTypeOK

(* So do the functions of control.c up to the jog wheels ... *)
LEMMA TypeControl ==
  ASSUME RestTypeOK,
         \/ ProcessInputs \/ ProcessProbeInputs \/ CheckForFaults
         \/ SetOperatingMode \/ HandleJogwheels
  PROVE  RestTypeOK'
<1>1. /\ homing_params' \in [Joints -> HomingParams]
      /\ unlock' \in [Joints -> BOOLEAN]
  BY DEF RestTypeOK, ProcessInputs, ProcessProbeInputs, CheckForFaults,
         SetOperatingMode, HandleJogwheels
<1>2. LoopTypeOK'
  <2>1. /\ pc \in ServoFunctions \ {"do_homing"} /\ pc' \in ServoFunctions \ {"do_homing"}
        /\ UNCHANGED loopVars
    BY DEF ProcessInputs, ProcessProbeInputs, CheckForFaults, SetOperatingMode,
           HandleJogwheels, ServoFunctions
  <2>2. joint_num = 0 /\ ~homing_flag
    BY <2>1 DEF RestTypeOK, LoopTypeOK
  <2>3. QED
    BY <2>1, <2>2 DEF RestTypeOK, LoopTypeOK, loopVars
<1>3. SequenceTypeOK'
  <2>1. UNCHANGED sequenceVars
    BY DEF ProcessInputs, ProcessProbeInputs, CheckForFaults, SetOperatingMode,
           HandleJogwheels
  <2>2. QED
    BY <2>1 DEF RestTypeOK, SequenceTypeOK, sequenceVars
<1>4. ModesTypeOK'
  <2>1. CASE ProcessInputs
    BY <2>1 DEF RestTypeOK, ModesTypeOK, ProcessInputs, RefreshAllHomed,
                checkAllHomed, modeVars, askedVars, probeVars
  <2>2. CASE ProcessProbeInputs
    BY <2>2, InputAssumption
       DEF RestTypeOK, ModesTypeOK, ProcessProbeInputs, modeVars, askedVars
  <2>3. CASE CheckForFaults
    BY <2>3 DEF RestTypeOK, ModesTypeOK, CheckForFaults, probeVars
  <2>4. CASE SetOperatingMode
    BY <2>4 DEF RestTypeOK, ModesTypeOK, SetOperatingMode, probeVars
  <2>5. CASE HandleJogwheels
    BY <2>5 DEF RestTypeOK, ModesTypeOK, HandleJogwheels, modeVars, askedVars,
                probeVars
  <2>6. QED
    BY <2>1, <2>2, <2>3, <2>4, <2>5
<1>5. PlannerTypeOK'
  <2>1. CASE SetOperatingMode
    <3>1. tp' \in [done : BOOLEAN, synced : BOOLEAN]
      BY <2>1 DEF SetOperatingMode
    <3>2. teleop_vel' \in [desired : BOOLEAN, current : BOOLEAN]
      BY <2>1 DEF RestTypeOK, PlannerTypeOK, SetOperatingMode
    <3>3. /\ overriding' \in BOOLEAN
          /\ overrideLimitMask' \subseteq Joints \X {"neg", "pos"}
      BY <2>1 DEF RestTypeOK, PlannerTypeOK, SetOperatingMode
    <3>4. QED
      BY <3>1, <3>2, <3>3 DEF PlannerTypeOK
  <2>2. CASE UNCHANGED <<limitVars, tp, teleop_vel>>
    BY <2>2 DEF RestTypeOK, PlannerTypeOK, limitVars
  <2>3. QED
    BY <2>1, <2>2 DEF ProcessInputs, ProcessProbeInputs, CheckForFaults,
                      HandleJogwheels
<1>6. QED
  BY <1>1, <1>2, <1>3, <1>4, <1>5 DEF RestTypeOK

(* ... the position commands of the four modes ... *)
LEMMA TypePosCmds ==
  ASSUME RestTypeOK, FreePosCmds \/ CoordPosCmds \/ TeleopPosCmds \/ DisabledPosCmds
  PROVE  RestTypeOK'
<1>1. /\ homing_params' \in [Joints -> HomingParams]
      /\ unlock' \in [Joints -> BOOLEAN]
  BY DEF RestTypeOK, FreePosCmds, CoordPosCmds, TeleopPosCmds, DisabledPosCmds
<1>2. LoopTypeOK'
  <2>1. pc = "get_pos_cmds" /\ pc' = "command" /\ UNCHANGED loopVars
    BY DEF FreePosCmds, CoordPosCmds, TeleopPosCmds, DisabledPosCmds
  <2>2. joint_num = 0 /\ ~homing_flag
    BY <2>1 DEF RestTypeOK, LoopTypeOK
  <2>3. QED
    BY <2>1, <2>2 DEF RestTypeOK, LoopTypeOK, loopVars, ServoFunctions
<1>3. SequenceTypeOK'
  BY DEF RestTypeOK, SequenceTypeOK, sequenceVars, FreePosCmds, CoordPosCmds,
         TeleopPosCmds, DisabledPosCmds
<1>4. ModesTypeOK'
  <2>1. /\ motion_inpos' \in BOOLEAN /\ allHomed' \in BOOLEAN
        /\ UNCHANGED <<modeVars, rehomeAll, probeVars>>
    BY DEF RestTypeOK, ModesTypeOK, FreePosCmds, CoordPosCmds, TeleopPosCmds,
           DisabledPosCmds, RefreshAllHomed, checkAllHomed
  <2>2. QED
    BY <2>1 DEF RestTypeOK, ModesTypeOK, modeVars, askedVars, probeVars
<1>5. PlannerTypeOK'
  <2>1. tp' \in [done : BOOLEAN, synced : BOOLEAN]
    <3>1. CASE FreePosCmds
      BY <3>1 DEF RestTypeOK, PlannerTypeOK, FreePosCmds
    <3>2. CASE CoordPosCmds
      BY <3>2, SMTT(30) DEF CoordPosCmds
    <3>3. CASE TeleopPosCmds
      BY <3>3 DEF RestTypeOK, PlannerTypeOK, TeleopPosCmds
    <3>4. CASE DisabledPosCmds
      BY <3>4 DEF RestTypeOK, PlannerTypeOK, DisabledPosCmds
    <3>5. QED
      BY <3>1, <3>2, <3>3, <3>4
  <2>2. teleop_vel' \in [desired : BOOLEAN, current : BOOLEAN]
    BY DEF RestTypeOK, PlannerTypeOK, FreePosCmds, CoordPosCmds, TeleopPosCmds,
           DisabledPosCmds
  <2>3. /\ overriding' \in BOOLEAN
        /\ overrideLimitMask' \subseteq Joints \X {"neg", "pos"}
    BY DEF RestTypeOK, PlannerTypeOK, FreePosCmds, CoordPosCmds, TeleopPosCmds,
           DisabledPosCmds, OverrideAfter, limitVars
  <2>4. QED
    BY <2>1, <2>2, <2>3 DEF PlannerTypeOK
<1>6. QED
  BY <1>1, <1>2, <1>3, <1>4, <1>5 DEF RestTypeOK

(* ... do_homing_sequence() ... *)
LEMMA TypeSequence ==
  ASSUME RestTypeOK, DoHomingSequence
  PROVE  RestTypeOK'
<1>1. EnterDoHoming
  BY DEF DoHomingSequence, SequenceIdle, SequenceStart, SequenceStartJoints,
         SequenceWaitJoints
<1>2. /\ homing_params' \in [Joints -> HomingParams]
      /\ unlock' \in [Joints -> BOOLEAN]
  BY <1>1 DEF RestTypeOK, EnterDoHoming, homingFrame
<1>3. LoopTypeOK'
  <2>1. home_sw_active' \in BOOLEAN
    BY <1>1, InputAssumption DEF EnterDoHoming, SwitchReadings
  <2>2. 0 \in 0 .. NumJoints
    BY NumJointsAssumption, SMTT(30)
  <2>3. QED
    BY <1>1, <2>1, <2>2 DEF EnterDoHoming, LoopTypeOK, ServoFunctions
<1>4. SequenceTypeOK'
  <2>1. CASE SequenceIdle
    BY <2>1 DEF RestTypeOK, SequenceTypeOK, SequenceIdle, sequenceVars
  <2>2. CASE SequenceStart
    <3>1. homing_active' \in BOOLEAN
      BY <2>2 DEF RestTypeOK, SequenceTypeOK, SequenceStart
    <3>2. home_sequence' \in Nat
      BY <2>2, SMTT(30) DEF RestTypeOK, SequenceTypeOK, SequenceStart, StartJoints
    <3>3. homingSequenceState' \in {"IDLE", "WAIT_JOINTS"}
      BY <2>2 DEF SequenceStart, StartJoints
    <3>4. QED
      BY <3>1, <3>2, <3>3 DEF SequenceTypeOK
  <2>3. CASE SequenceStartJoints
    BY <2>3 DEF RestTypeOK, SequenceTypeOK, SequenceStartJoints, StartJoints
  <2>4. CASE SequenceWaitJoints
    <3>1. homing_active' \in BOOLEAN
      BY <2>4 DEF RestTypeOK, SequenceTypeOK, SequenceWaitJoints, sequenceVars
    <3>2. home_sequence' \in Nat
      BY <2>4, SMTT(30) DEF RestTypeOK, SequenceTypeOK, SequenceWaitJoints, sequenceVars
    <3>3. homingSequenceState' \in {"IDLE", "WAIT_JOINTS", "START_JOINTS"}
      BY <2>4 DEF SequenceWaitJoints, sequenceVars
    <3>4. QED
      BY <3>1, <3>2, <3>3 DEF SequenceTypeOK
  <2>5. QED
    BY <2>1, <2>2, <2>3, <2>4 DEF DoHomingSequence
<1>5. ModesTypeOK' /\ PlannerTypeOK'
  BY <1>1, SMTT(30) DEF RestTypeOK, ModesTypeOK, PlannerTypeOK, EnterDoHoming, homingFrame,
              modeVars, askedVars, probeVars, limitVars
<1>6. QED
  BY <1>2, <1>3, <1>4, <1>5 DEF RestTypeOK

(* motion_state is a function of the mode flags. *)
LEMMA SameState ==
  ASSUME UNCHANGED modeVars
  PROVE  motion_state' = motion_state
BY DEF modeVars, motion_state

(* What a case of the `switch' leaves alone. *)
LEMMA HomingFrame ==
  ASSUME DoHoming
  PROVE  \/ HomingSuspended
         \/ HomingDone
         \/ /\ pc = "do_homing" /\ motion_state = "FREE"
            /\ UNCHANGED <<pc, sequenceVars, homingFrame>>
            /\ \/ HomeIdle
               \/ /\ homing_flag' = TRUE
                  /\ joint_num \in ActiveJoints /\ J.home_state # "IDLE"
            /\ \/ UNCHANGED unlock
               \/ unlock' = [unlock EXCEPT ![joint_num] = TRUE]
               \/ unlock' = [unlock EXCEPT ![joint_num] = FALSE]
<1> DEFINE Frame == /\ pc = "do_homing" /\ motion_state = "FREE"
                    /\ UNCHANGED <<pc, sequenceVars, homingFrame>>
                    /\ homing_flag' = TRUE
                    /\ joint_num \in ActiveJoints /\ J.home_state # "IDLE"
           Locks == \/ UNCHANGED unlock
                    \/ unlock' = [unlock EXCEPT ![joint_num] = TRUE]
                    \/ unlock' = [unlock EXCEPT ![joint_num] = FALSE]
<1>1. ASSUME NEW s, s # "IDLE", InHomeState(s) PROVE Frame
  BY <1>1 DEF InHomeState
<1>2. CASE HomeIdle
  BY <1>2 DEF HomeIdle
<1> HIDE DEF Frame
<1>3. CASE HomeStart \/ HomeUnlock \/ HomeUnlockWait \/ HomeLock \/ HomeLockWait
             \/ HomeFinished \/ HomeAbort
  BY <1>1, <1>3 DEF HomeStart, HomeUnlock, HomeUnlockWait, HomeLock, HomeLockWait,
                    HomeFinished, HomeAbort, Frame
<1>4. CASE HomePause
  BY <1>1, <1>4 DEF HomePause, PausingStates, Frame
<1>5. CASE HomeInitialBackoffStart \/ HomeInitialBackoffWait
             \/ HomeInitialSearchStart \/ HomeInitialSearchWait
             \/ HomeSetCoarsePosition \/ HomeFinalBackoffStart
             \/ HomeFinalBackoffWait
  BY <1>1, <1>5 DEF HomeInitialBackoffStart, HomeInitialBackoffWait,
                    HomeInitialSearchStart, HomeInitialSearchWait,
                    HomeSetCoarsePosition, HomeFinalBackoffStart,
                    HomeFinalBackoffWait, Frame
<1>6. CASE HomeRiseSearchStart \/ HomeRiseSearchWait
             \/ HomeFallSearchStart \/ HomeFallSearchWait
             \/ HomeSetSwitchPosition \/ HomeIndexOnlyStart
             \/ HomeIndexSearchStart
  BY <1>1, <1>6 DEF HomeRiseSearchStart, HomeRiseSearchWait, HomeFallSearchStart,
                    HomeFallSearchWait, HomeSetSwitchPosition,
                    HomeIndexOnlyStart, HomeIndexSearchStart, Frame
<1>7. CASE HomeIndexSearchWait \/ HomeSetIndexPosition
             \/ HomeFinalMoveStart \/ HomeFinalMoveWait
  BY <1>1, <1>7 DEF HomeIndexSearchWait, HomeSetIndexPosition,
                    HomeFinalMoveStart, HomeFinalMoveWait, Frame
<1>8. QED
  BY <1>2, <1>3, <1>4, <1>5, <1>6, <1>7 DEF DoHoming

(* ... and do_homing(), whose index stays within num_joints. *)
LEMMA TypeDoHoming ==
  ASSUME JointsGood, RestTypeOK, DoHoming
  PROVE  RestTypeOK'
<1>1. UNCHANGED homingFrame
  BY HomingFrame DEF HomingSuspended, HomingDone
<1>2. ModesTypeOK' /\ PlannerTypeOK' /\ homing_params' \in [Joints -> HomingParams]
  BY <1>1, SMTT(30) DEF RestTypeOK, ModesTypeOK, PlannerTypeOK, homingFrame, modeVars,
              askedVars, probeVars, limitVars
<1>3. unlock' \in [Joints -> BOOLEAN]
  BY HomingFrame DEF RestTypeOK, HomingSuspended, HomingDone
<1>4. SequenceTypeOK'
  <2>1. homing_active' \in BOOLEAN
    BY HomingFrame DEF RestTypeOK, SequenceTypeOK, LoopTypeOK, HomingSuspended,
                       HomingDone, sequenceVars
  <2>2. UNCHANGED <<homingSequenceState, home_sequence>>
    BY HomingFrame DEF HomingSuspended, HomingDone, sequenceVars
  <2>3. QED
    BY <2>1, <2>2 DEF RestTypeOK, SequenceTypeOK
<1>5. motion_state' = motion_state
  BY <1>1, SameState DEF homingFrame
<1>6. LoopTypeOK'
  <2>1. CASE HomingSuspended
    <3>1. pc' = "get_pos_cmds" /\ home_sw_active' = FALSE
            /\ UNCHANGED <<joint_num, homing_flag>> /\ motion_state # "FREE"
      BY <2>1 DEF HomingSuspended
    <3>2. QED
      BY <1>5, <3>1 DEF RestTypeOK, LoopTypeOK, ServoFunctions
  <2>2. CASE HomingDone
    <3>1. 0 \in 0 .. NumJoints
      BY NumJointsAssumption, SMTT(30)
    <3>2. QED
      BY <2>2, <3>1 DEF HomingDone, RestTypeOK, LoopTypeOK, ServoFunctions
  <2>3. CASE ~HomingSuspended /\ ~HomingDone
    <3>1. joint_num \in Joints /\ Advances
      BY <2>3, HomingAdvances DEF RestTypeOK
    <3>2. joint_num' \in {joint_num, joint_num + 1}
      BY <3>1 DEF Advances, NextPeriod, Immediately
    <3>3. joint_num' \in 0 .. NumJoints
      BY <3>1, <3>2, NumJointsAssumption, SMTT(30) DEF Joints
    <3>4. home_sw_active' \in BOOLEAN
      BY <3>1, InputAssumption
         DEF Advances, NextPeriod, Immediately, SwitchReadings, RestTypeOK, LoopTypeOK
    <3>5. pc' = "do_homing" /\ motion_state' = "FREE"
      BY <2>3, <1>5, HomingFrame
    <3>6. homing_flag' \in BOOLEAN
      BY <2>3, HomingFrame DEF HomeIdle, RestTypeOK, LoopTypeOK
    <3>7. QED
      BY <3>3, <3>4, <3>5, <3>6 DEF LoopTypeOK, ServoFunctions
  <2>4. QED
    BY <2>1, <2>2, <2>3
<1>7. QED
  BY <1>2, <1>3, <1>4, <1>6 DEF RestTypeOK

-----------------------------------------------------------------------------
(* Every step keeps the types and the joints good *)

(* One servo function at a time, types and good joints are kept. *)
LEMMA GoodNext ==
  ASSUME JointsGood, RestTypeOK, [Next]_vars
  PROVE  JointsGood' /\ RestTypeOK'
<1>1. CASE emcmotCommandHandler
  BY <1>1, GoodCommand, TypeCommand
<1>2. CASE ProcessInputs
  BY <1>2, GoodProcessInputs, TypeControl
<1>3. CASE ProcessProbeInputs
  BY <1>3, GoodProcessProbeInputs, TypeControl
<1>4. CASE CheckForFaults
  <2>1. UNCHANGED joint
    BY <1>4 DEF CheckForFaults
  <2>2. QED
    BY <1>4, <2>1, TypeControl DEF JointsGood
<1>5. CASE SetOperatingMode
  BY <1>5, GoodSetOperatingMode, TypeControl
<1>6. CASE HandleJogwheels
  BY <1>6, GoodHandleJogwheels, TypeControl
<1>7. CASE DoHomingSequence
  BY <1>7, GoodSequence, TypeSequence
<1>8. CASE DoHoming
  BY <1>8, GoodDoHoming, TypeDoHoming DEF RestTypeOK
<1>9. CASE FreePosCmds \/ CoordPosCmds \/ TeleopPosCmds \/ DisabledPosCmds
  BY <1>9, GoodPosCmds, TypePosCmds
<1>10. CASE UNCHANGED vars
  <2>1. JointsGood'
    BY <1>10 DEF vars, JointsGood
  <2>2. ModesTypeOK' /\ SequenceTypeOK'
    BY <1>10, SMTT(30) DEF vars, RestTypeOK, ModesTypeOK, SequenceTypeOK, modeVars,
                 askedVars, probeVars, sequenceVars
  <2>3. PlannerTypeOK'
    BY <1>10 DEF vars, RestTypeOK, PlannerTypeOK, limitVars
  <2>4. LoopTypeOK'
    BY <1>10, SameState DEF vars, RestTypeOK, LoopTypeOK, loopVars
  <2>5. QED
    BY <1>10, <2>1, <2>2, <2>3, <2>4 DEF RestTypeOK, vars
<1>11. QED
  BY <1>1, <1>2, <1>3, <1>4, <1>5, <1>6, <1>7, <1>8, <1>9, <1>10 DEF Next

-----------------------------------------------------------------------------
(* What the actions do to the motion and the jogging of a joint *)

SameMotion(j) ==
  /\ joint'[j].vel_cmd = joint[j].vel_cmd
  /\ joint'[j].free_tp_active = joint[j].free_tp_active

(* Commands and inputs do not move a joint by themselves, and only a jog   *)
(* that the handler allows gives a joint to the keyboard.                  *)
LEMMA CommandMotion ==
  ASSUME JointsGood, emcmotCommandHandler, NEW j \in Joints
  PROVE  /\ SameMotion(j)
         /\ joint'[j].kb_jog_active => joint[j].kb_jog_active \/ ~homing_active
<1>1. joint[j] \in JointType
  BY DEF JointsGood, GoodJoint
<1>2. CASE Abort \/ AxisAbort
  <2>1. joint' = joint \/ \E S : joint' = AbortJoints(S)
    BY <1>2 DEF Abort, AxisAbort
  <2>2. \/ joint'[j] = joint[j]
        \/ joint'[j] = [joint[j] EXCEPT !.free_tp_enable = FALSE,
                           !.home_state = IF @ = "IDLE" THEN @ ELSE "ABORT"]
    BY <2>1 DEF AbortJoints
  <2>3. QED
    BY <1>1, <2>2 DEF JointType, SameMotion
<1>3. CASE Jog
  <2>1. PICK k \in Joints :
          /\ JogAllowed(k)
          /\ joint' = clearHomes([joint EXCEPT ![k].kb_jog_active = TRUE,
                                               ![k].free_tp_enable = TRUE], {k})
    BY <1>3 DEF Jog
  <2>2. ~homing_active
    BY <2>1 DEF JogAllowed
  <2> DEFINE js == [joint EXCEPT ![k].kb_jog_active = TRUE,
                                 ![k].free_tp_enable = TRUE]
  <2>3. /\ js[j] \in JointType
        /\ js[j].vel_cmd = joint[j].vel_cmd
        /\ js[j].free_tp_active = joint[j].free_tp_active
    BY <1>1, <2>1 DEF JointsGood, JointType
  <2> HIDE DEF js
  <2>4. joint'[j] = js[j] \/ joint'[j] = [js[j] EXCEPT !.homed = FALSE]
    BY <2>1 DEF clearHomes, js
  <2>5. QED
    BY <2>2, <2>3, <2>4 DEF JointType, SameMotion
<1>4. CASE Home
  BY <1>1, <1>4, SMTT(30) DEF Home, JointsGood, JointType, SameMotion
<1>5. CASE Unhome
  <2>1. PICK S : UnhomeJoints(S)
    BY <1>5 DEF Unhome
  <2>2. joint'[j] = joint[j] \/ joint'[j] = [joint[j] EXCEPT !.homed = FALSE]
    BY <2>1 DEF UnhomeJoints
  <2>3. QED
    BY <1>1, <2>2 DEF JointType, SameMotion
<1>6. CASE UNCHANGED joint
  BY <1>6 DEF SameMotion
<1>7. NoCommand \/ Free \/ Coord \/ Teleop \/ OverrideLimits \/ SetLine
        \/ Probe \/ RigidTap \/ Disable \/ Enable \/ HomeAll
        \/ ClearProbeFlags \/ SetTeleopVector => UNCHANGED joint
  BY DEF NoCommand, Free, Coord, Teleop, OverrideLimits, SetLine, Probe,
         RigidTap, Disable, Enable, HomeAll, ClearProbeFlags, SetTeleopVector
<1>8. QED
  BY <1>2, <1>3, <1>4, <1>5, <1>6, <1>7 DEF emcmotCommandHandler

SameFields(q, r) ==
  /\ q.vel_cmd = r.vel_cmd /\ q.free_tp_active = r.free_tp_active
  /\ q.kb_jog_active = r.kb_jog_active

(* The input functions leave motion and jogging alone. *)
LEMMA InputMotion ==
  ASSUME JointsGood, ProcessInputs \/ ProcessProbeInputs \/ CheckForFaults,
         NEW j \in Joints
  PROVE  SameMotion(j) /\ joint'[j].kb_jog_active = joint[j].kb_jog_active
<1>1. joint[j] \in JointType
  BY DEF JointsGood, GoodJoint
<1>2. CASE ProcessInputs
  <2>1. PICK limits \in [ActiveJoints -> LimitInputs],
             pulses \in SUBSET {i \in ActiveJoints : joint[i].index_enable} :
          joint' = [i \in Joints |->
                      IF i \in ActiveJoints
                      THEN [joint[i] EXCEPT !.limits = limits[i],
                                            !.index_enable = @ /\ i \notin pulses]
                      ELSE joint[i]]
    BY <1>2 DEF ProcessInputs
  <2>2. ASSUME NEW r \in JointType, NEW l, NEW b
        PROVE  SameFields([r EXCEPT !.limits = l, !.index_enable = b], r)
    BY DEF JointType, SameFields
  <2>3. joint'[j] = joint[j] \/ \E l, b :
          joint'[j] = [joint[j] EXCEPT !.limits = l, !.index_enable = b]
    BY <2>1
  <2>4. QED
    <3>1. CASE joint'[j] = joint[j]
      BY <3>1 DEF SameMotion
    <3>2. CASE joint'[j] # joint[j]
      <4>1. PICK l, b : joint'[j] = [joint[j] EXCEPT !.limits = l, !.index_enable = b]
        BY <2>3, <3>2
      <4>2. SameFields([joint[j] EXCEPT !.limits = l, !.index_enable = b], joint[j])
        BY <1>1, <2>2
      <4>3. QED
        BY <4>1, <4>2 DEF SameMotion, SameFields
    <3>3. QED
      BY <3>1, <3>2
<1>3. CASE ProcessProbeInputs
  <2>1. joint' = joint \/ joint' = ProbeStopsJoints
    BY <1>3 DEF ProcessProbeInputs
  <2>2. ASSUME NEW r \in JointType, NEW h
        PROVE  SameFields([r EXCEPT !.home_state = h, !.free_tp_enable = FALSE], r)
    BY DEF JointType, SameFields
  <2>3. joint'[j] = joint[j] \/ \E h :
          joint'[j] = [joint[j] EXCEPT !.home_state = h, !.free_tp_enable = FALSE]
    BY <2>1 DEF ProbeStopsJoints
  <2>4. QED
    <3>1. CASE joint'[j] = joint[j]
      BY <3>1 DEF SameMotion
    <3>2. CASE joint'[j] # joint[j]
      <4>1. PICK h : joint'[j] = [joint[j] EXCEPT !.home_state = h,
                                               !.free_tp_enable = FALSE]
        BY <2>3, <3>2
      <4>2. SameFields([joint[j] EXCEPT !.home_state = h,
                                               !.free_tp_enable = FALSE], joint[j])
        BY <1>1, <2>2
      <4>3. QED
        BY <4>1, <4>2 DEF SameMotion, SameFields
    <3>3. QED
      BY <3>1, <3>2
<1>4. CASE CheckForFaults
  BY <1>4 DEF CheckForFaults, SameMotion
<1>5. QED
  BY <1>2, <1>3, <1>4

-----------------------------------------------------------------------------
(* The other parts of the inductive invariant *)

(* homing_flag collects the homing joints along the loop of do_homing(),   *)
(* and homing_active takes it over at the end.                             *)
LEMMA CoveredNext ==
  ASSUME JointsGood, RestTypeOK, HomingCovered, [Next]_vars
  PROVE  HomingCovered'
<1>1. CASE emcmotCommandHandler
  BY <1>1, CommandFrame DEF HomingCovered
<1>2. CASE ProcessInputs \/ ProcessProbeInputs \/ CheckForFaults
             \/ SetOperatingMode \/ HandleJogwheels
  <2>1. pc' \notin {"do_homing", "get_pos_cmds", "command"}
    BY <1>2 DEF ProcessInputs, ProcessProbeInputs, CheckForFaults,
                SetOperatingMode, HandleJogwheels
  <2>2. QED
    BY <2>1 DEF HomingCovered
<1>3. CASE DoHomingSequence
  <2>1. pc' = "do_homing" /\ joint_num' = 0
    BY <1>3 DEF DoHomingSequence, SequenceIdle, SequenceStart,
                SequenceStartJoints, SequenceWaitJoints, EnterDoHoming
  <2>2. \A j \in ActiveJoints : ~(j < 0)
    BY ActiveAssumption, NumJointsAssumption, SMTT(30) DEF Joints
  <2>3. QED
    BY <2>1, <2>2 DEF HomingCovered
<1>4. CASE DoHoming
  <2>1. motion_state' = motion_state
    BY <1>4, HomingFrame, SameState DEF HomingSuspended, HomingDone, homingFrame
  <2>2. CASE HomingSuspended
    BY <2>1, <2>2 DEF HomingSuspended, HomingCovered
  <2>3. CASE HomingDone
    <3>1. \A j \in ActiveJoints : j < NumJoints
      BY ActiveAssumption, NumJointsAssumption, SMTT(30) DEF Joints
    <3>2. QED
      BY <2>3, <3>1 DEF HomingDone, HomingCovered
  <2>4. CASE HomeIdle
    <3>1. pc = "do_homing" /\ pc' = pc /\ joint_num' = joint_num + 1
            /\ homing_flag' = homing_flag /\ motion_state = "FREE"
            /\ joint_num \in Joints /\ joint' = joint
      BY <2>4 DEF HomeIdle, NextPeriod, J, JointsGood
    <3>2. ASSUME NEW j \in ActiveJoints, joint[j].home_state # "IDLE",
                 j < joint_num + 1
          PROVE  homing_flag
      <4>1. j # joint_num
        BY <2>4, <3>2 DEF HomeIdle, J
      <4>2. j < joint_num
        BY <3>1, <3>2, <4>1, ActiveAssumption, NumJointsAssumption, SMTT(30) DEF Joints
      <4>3. QED
        BY <3>1, <3>2, <4>2 DEF HomingCovered
    <3>3. QED
      BY <3>1, <3>2 DEF HomingCovered
  <2>5. CASE ~HomingSuspended /\ ~HomingDone /\ ~HomeIdle
    <3>1. pc' = "do_homing" /\ homing_flag' = TRUE
      BY <1>4, <2>5, HomingFrame
    <3>2. QED
      BY <3>1 DEF HomingCovered
  <2>6. QED
    BY <2>2, <2>3, <2>4, <2>5
<1>5. CASE FreePosCmds
  <2>1. pc = "get_pos_cmds" /\ pc' = "command" /\ UNCHANGED <<modeVars, homing_active>>
    BY <1>5 DEF FreePosCmds, sequenceVars
  <2>2. ASSUME NEW j \in ActiveJoints
        PROVE  joint'[j].home_state = joint[j].home_state
    <3>1. joint[j] \in JointType /\ j \in Joints
      BY ActiveAssumption DEF JointsGood, GoodJoint
    <3>2. PICK st : joint'[j] = JointAfter(joint[j], st)
      BY <1>5, <3>1 DEF FreePosCmds
    <3>3. QED
      BY <3>1, <3>2 DEF JointAfter, JointType
  <2>3. QED
    BY <2>1, <2>2, SameState DEF HomingCovered
<1>6. CASE CoordPosCmds \/ TeleopPosCmds \/ DisabledPosCmds
  <2>1. motion_state # "FREE" /\ UNCHANGED modeVars
    BY <1>6 DEF CoordPosCmds, TeleopPosCmds, DisabledPosCmds
  <2>2. QED
    BY <2>1, SameState DEF HomingCovered
<1>7. CASE UNCHANGED vars
  BY <1>7, SameState DEF vars, HomingCovered, sequenceVars, loopVars
<1>8. QED
  BY <1>1, <1>2, <1>3, <1>4, <1>5, <1>6, <1>7 DEF Next

(* The in-position flag of free mode stays true to the joints until        *)
(* set_operating_mode() has used it.                                       *)
LEMMA InPosNext ==
  ASSUME JointsGood, InPosIsRest, [Next]_vars
  PROVE  InPosIsRest'
<1> DEFINE Waiting == {"command", "process_inputs", "process_probe_inputs",
                       "check_for_faults", "set_operating_mode"}
<1>1. CASE \/ emcmotCommandHandler
           \/ ProcessInputs \/ ProcessProbeInputs \/ CheckForFaults
  <2>1. pc \in Waiting
    BY <1>1, CommandFrame DEF ProcessInputs, ProcessProbeInputs, CheckForFaults
  <2>2. UNCHANGED <<motion_enable, motion_coord, motion_teleop, motion_inpos>>
    BY <1>1, CommandFrame
       DEF ProcessInputs, ProcessProbeInputs, CheckForFaults, modeVars
  <2>3. motion_state' = motion_state
    BY <2>2 DEF motion_state
  <2>4. \A j \in ActiveJoints : SameMotion(j)
    BY <1>1, CommandMotion, InputMotion, ActiveAssumption
  <2>5. QED
    BY <2>1, <2>2, <2>3, <2>4 DEF InPosIsRest, SameMotion
<1>2. CASE SetOperatingMode \/ HandleJogwheels \/ DoHomingSequence \/ DoHoming
  <2>1. pc' \notin Waiting
    BY <1>2, HomingFrame
       DEF SetOperatingMode, HandleJogwheels, DoHomingSequence, SequenceIdle,
           SequenceStart, SequenceStartJoints, SequenceWaitJoints,
           EnterDoHoming, HomingSuspended, HomingDone
  <2>2. QED
    BY <2>1 DEF InPosIsRest
<1>3. CASE FreePosCmds
  <2>1. SUFFICES ASSUME motion_inpos', NEW j \in ActiveJoints
                 PROVE  ~joint'[j].vel_cmd /\ ~joint'[j].free_tp_active
    BY DEF InPosIsRest
  <2>2. joint[j] \in JointType /\ j \in Joints
    BY ActiveAssumption DEF JointsGood, GoodJoint
  <2>3. joint'[j] = JointAfter(joint[j], "rest")
    BY <1>3, <2>1, <2>2 DEF FreePosCmds
  <2>4. QED
    BY <2>2, <2>3 DEF JointAfter, JointType
<1>4. CASE CoordPosCmds \/ TeleopPosCmds \/ DisabledPosCmds
  <2>1. motion_state # "FREE" /\ UNCHANGED modeVars
    BY <1>4 DEF CoordPosCmds, TeleopPosCmds, DisabledPosCmds
  <2>2. QED
    BY <2>1, SameState DEF InPosIsRest
<1>5. CASE UNCHANGED vars
  BY <1>5, SameState DEF vars, InPosIsRest
<1>6. QED
  BY <1>1, <1>2, <1>3, <1>4, <1>5 DEF Next

(* An override in use has a mask, and get_pos_cmds() ends it at rest. *)
LEMMA OverrideNext ==
  ASSUME RestTypeOK, OverrideEndsWithMove, [Next]_vars
  PROVE  OverrideEndsWithMove'
<1>1. CASE emcmotCommandHandler
  <2>1. UNCHANGED limitVars \/ overriding' = FALSE
    BY <1>1 DEF emcmotCommandHandler, NoCommand, Abort, AxisAbort, Free, Coord,
                Teleop, OverrideLimits, Jog, SetLine, Probe, RigidTap, Disable,
                Enable, Home, HomeAll, Unhome, UnhomeJoints, ClearProbeFlags,
                SetTeleopVector
  <2>2. QED
    BY <1>1, <2>1, CommandFrame, SMTT(30) DEF OverrideEndsWithMove, limitVars
<1>2. CASE SetOperatingMode
  <2>1. /\ pc' = "handle_jogwheels"
        /\ overriding' = (overriding /\ ~EnteringCoord)
        /\ overrideLimitMask' = IF EnteringCoord THEN {} ELSE overrideLimitMask
    BY <1>2 DEF SetOperatingMode
  <2>2. QED
    BY <2>1 DEF OverrideEndsWithMove
<1>3. CASE ProcessInputs \/ ProcessProbeInputs \/ CheckForFaults
             \/ HandleJogwheels \/ DoHomingSequence \/ DoHoming
  <2>1. pc' # "command" /\ UNCHANGED limitVars
    BY <1>3, HomingFrame
       DEF ProcessInputs, ProcessProbeInputs, CheckForFaults, HandleJogwheels,
           DoHomingSequence, SequenceIdle, SequenceStart, SequenceStartJoints,
           SequenceWaitJoints, EnterDoHoming, HomingSuspended, HomingDone,
           homingFrame
  <2>2. QED
    BY <2>1 DEF OverrideEndsWithMove, limitVars
<1>4. CASE FreePosCmds
  <2>1. PICK inpos \in BOOLEAN : motion_inpos' = inpos /\ OverrideAfter(inpos)
    BY <1>4 DEF FreePosCmds
  <2>2. QED
    BY <2>1 DEF OverrideAfter, OverrideEndsWithMove, RestTypeOK, PlannerTypeOK
<1>5. CASE CoordPosCmds \/ TeleopPosCmds \/ DisabledPosCmds
  <2>1. motion_state # "FREE" /\ UNCHANGED <<modeVars, limitVars>>
    BY <1>5 DEF CoordPosCmds, TeleopPosCmds, DisabledPosCmds
  <2>2. QED
    BY <2>1, SameState DEF OverrideEndsWithMove, limitVars
<1>6. CASE UNCHANGED vars
  BY <1>6, SameState DEF vars, OverrideEndsWithMove, limitVars
<1>7. QED
  BY <1>1, <1>2, <1>3, <1>4, <1>5, <1>6 DEF Next

-----------------------------------------------------------------------------
(* The inductive invariant and the theorems *)

(* The two ways to write the invariant. *)
LEMMA InvIsGood ==
  Inv <=> JointsGood /\ RestTypeOK /\ HomingCovered /\ InPosIsRest
            /\ OverrideEndsWithMove
<1>1. joint \in [Joints -> JointType] /\ JointsOK <=> JointsGood
  BY DEF JointsOK, JointsGood, GoodJoint
<1>2. QED
  BY <1>1 DEF Inv, TypeOK, JointsTypeOK, RestTypeOK

(* The invariant holds at start-up ... *)
LEMMA InvInit == Init => Inv
<1> SUFFICES ASSUME Init PROVE Inv
  OBVIOUS
<1>1. JointsGood /\ RestTypeOK
  BY TypeInit
<1>2. HomingCovered /\ InPosIsRest
  BY ActiveAssumption DEF Init, HomingCovered, InPosIsRest, JointInit
<1>3. OverrideEndsWithMove
  BY DEF Init, OverrideEndsWithMove
<1>4. QED
  BY <1>1, <1>2, <1>3, InvIsGood

(* ... and every function of the servo period keeps it. *)
LEMMA InvNext == Inv /\ [Next]_vars => Inv'
<1> SUFFICES ASSUME Inv, [Next]_vars PROVE Inv'
  OBVIOUS
<1>1. /\ JointsGood /\ RestTypeOK
      /\ HomingCovered /\ InPosIsRest /\ OverrideEndsWithMove
  BY InvIsGood
<1>2. /\ JointsGood' /\ RestTypeOK'
      /\ HomingCovered' /\ InPosIsRest' /\ OverrideEndsWithMove'
  BY <1>1, GoodNext, CoveredNext, InPosNext, OverrideNext
<1>3. joint' \in [Joints -> JointType] /\ JointsOK'
  BY <1>2 DEF JointsOK, JointsGood, GoodJoint
<1>4. QED
  BY <1>2, <1>3 DEF Inv, TypeOK, JointsTypeOK, RestTypeOK

(* The invariant is inductive, so every reachable state satisfies it. *)
THEOREM Invariance == Spec => []Inv
BY InvInit, InvNext, PTL DEF Spec

(* Type correctness, and the locals of do_homing() at rest outside its     *)
(* loop.                                                                   *)
THEOREM TypeCorrect == Spec => []TypeOK
<1>1. Inv => TypeOK
  BY DEF Inv
<1>2. QED
  BY <1>1, Invariance, PTL

(* A joint counts as homed only with its coordinates set by the final      *)
(* latch of HOME_SET_SWITCH_POSITION or HOME_SET_INDEX_POSITION.           *)
THEOREM HomedIsReferencedAlways == Spec => []HomedIsReferenced
<1>1. Inv => HomedIsReferenced
  BY DEF Inv, JointsOK, JointOK, HomedIsReferenced
<1>2. QED
  BY <1>1, Invariance, PTL

(* The keyboard and the wheel never both jog a joint. *)
THEOREM OneJogSourceAlways == Spec => []OneJogSource
<1>1. Inv => OneJogSource
  BY DEF Inv, JointsOK, JointOK, OneJogSource
<1>2. QED
  BY <1>1, Invariance, PTL

(* check_for_faults() ignores the limit switches of every joint that       *)
(* do_homing() is driving.                                                 *)
THEOREM HomingOwnsLimitsAlways == Spec => []HomingOwnsLimits
<1>1. Inv => HomingOwnsLimits
  BY ActiveAssumption DEF Inv, JointsOK, JointOK, HomingOwnsLimits
<1>2. QED
  BY <1>1, Invariance, PTL

(* In free mode homing_active covers every joint that is homing when the   *)
(* next command is read.                                                   *)
THEOREM HomingIsReportedAlways == Spec => []HomingIsReported
<1>1. Inv => HomingIsReported
  BY DEF Inv, HomingCovered, HomingIsReported
<1>2. QED
  BY <1>1, Invariance, PTL

(* A limit override does not outlive the move it was used for. *)
THEOREM OverrideEndsWithMoveAlways == Spec => []OverrideEndsWithMove
<1>1. Inv => OverrideEndsWithMove
  BY DEF Inv
<1>2. QED
  BY <1>1, Invariance, PTL

(* set_operating_mode() leaves free mode only with the joints at rest. *)
THEOREM LeavesFreeAtRestAlways == Spec => LeavesFreeAtRest
<1>1. ASSUME Inv, [Next]_vars,
             motion_state = "FREE", motion_state' \in {"COORD", "TELEOP"},
             NEW j \in ActiveJoints
      PROVE  ~joint[j].vel_cmd /\ ~joint[j].free_tp_active
  <2>1. motion_state' # motion_state
    BY <1>1
  <2>2. CASE SetOperatingMode
    <3>1. pc = "set_operating_mode"
      BY <2>2 DEF SetOperatingMode
    <3>2. motion_enable /\ ~motion_teleop /\ ~motion_coord
      BY <1>1 DEF motion_state, Inv, TypeOK, ModesTypeOK
    <3>3. motion_teleop' \/ motion_coord'
      BY <1>1 DEF motion_state
    <3>4. EnteringTeleop \/ EnteringCoord
      BY <2>2, <3>2, <3>3 DEF SetOperatingMode
    <3>5. motion_inpos
      BY <3>4 DEF EnteringTeleop, EnteringCoord
    <3>6. QED
      BY <1>1, <3>1, <3>5 DEF Inv, InPosIsRest
  <2>3. CASE ~SetOperatingMode
    <3>1. UNCHANGED <<motion_enable, motion_coord, motion_teleop>>
      <4>1. CASE emcmotCommandHandler
        BY <4>1, CommandFrame
      <4>2. CASE DoHoming \/ DoHomingSequence
        <5>1. UNCHANGED homingFrame
          BY <4>2, HomingFrame
             DEF HomingSuspended, HomingDone, DoHomingSequence, SequenceIdle,
                 SequenceStart, SequenceStartJoints, SequenceWaitJoints,
                 EnterDoHoming
        <5>2. QED
          BY <5>1 DEF homingFrame, modeVars
      <4>3. CASE ~emcmotCommandHandler /\ ~DoHoming /\ ~DoHomingSequence
        BY <1>1, <2>3, <4>3
           DEF Next, ProcessInputs, ProcessProbeInputs, CheckForFaults,
               HandleJogwheels, FreePosCmds, CoordPosCmds, TeleopPosCmds,
               DisabledPosCmds, vars, modeVars
      <4>4. QED
        BY <4>1, <4>2, <4>3
    <3>2. QED
      BY <2>1, <3>1 DEF motion_state
  <2>4. QED
    BY <2>2, <2>3
<1>2. Inv /\ [Next]_vars =>
        [motion_state = "FREE" /\ motion_state' \in {"COORD", "TELEOP"} =>
           \A j \in ActiveJoints : ~joint[j].vel_cmd /\ ~joint[j].free_tp_active]_vars
  BY <1>1
<1>3. QED
  BY <1>2, Invariance, PTL DEF Spec, LeavesFreeAtRest

(* No case of do_homing() touches the jogging of its joint. *)
LEMMA HomingKeyboard ==
  ASSUME JointsGood, DoHoming
  PROVE  \A j \in Joints : joint'[j].kb_jog_active = joint[j].kb_jog_active
<1> DEFINE Keeps == \E r : /\ r.kb_jog_active = J.kb_jog_active
                           /\ NextPeriod(r) \/ Immediately(r)
<1>1. CASE HomingSuspended \/ HomingDone
  BY <1>1 DEF HomingSuspended, HomingDone
<1>2. CASE HomeIdle
  BY <1>2 DEF HomeIdle, NextPeriod, J, JointsGood
<1>3. ASSUME ~HomingSuspended, ~HomingDone, ~HomeIdle PROVE Keeps
  <2>1. joint_num \in ActiveJoints
    BY <1>3, HomingFrame
  <2>2. J \in JointType
    BY <2>1, ActiveAssumption DEF J, JointsGood, GoodJoint
  <2>3. ASSUME \/ \E s : StartMove(s)
               \/ MovingChecks \/ GiveUp \/ EdgeFound \/ NextPeriod(J)
        PROVE  Keeps
    BY <2>2, <2>3 DEF StartMove, AbortMove, MovingChecks, GiveUp, EdgeFound,
                      JointType
  <2>4. ASSUME NEW s, NEW b,
               \/ NextPeriod([J EXCEPT !.home_state = s])
               \/ Immediately([J EXCEPT !.home_state = s])
               \/ Immediately([J EXCEPT !.free_tp_enable = b, !.home_state = s])
               \/ Immediately([J EXCEPT !.home_pause_timer = b, !.home_state = s])
               \/ Immediately([J EXCEPT !.motor_offset = b, !.home_state = s])
               \/ NextPeriod([J EXCEPT !.home_pause_timer = b])
        PROVE  Keeps
    BY <2>2, <2>4 DEF JointType
  <2> HIDE DEF Keeps
  <2>5. CASE HomeStart \/ HomeFinished \/ HomeAbort \/ HomeIndexOnlyStart
               \/ HomeIndexSearchStart
    BY <2>2, <2>5 DEF HomeStart, HomeFinished, HomeAbort, HomeIndexOnlyStart,
                      HomeIndexSearchStart, JointType, Keeps
  <2>6. CASE HomeUnlock \/ HomeUnlockWait \/ HomePause
               \/ HomeFinalMoveStart \/ HomeFinalMoveWait
               \/ HomeLock \/ HomeLockWait
    BY <2>3, <2>4, <2>6
       DEF HomeUnlock, HomeUnlockWait, HomePause, HomeFinalMoveStart,
           HomeFinalMoveWait, HomeLock, HomeLockWait
  <2>7. CASE HomeInitialBackoffStart \/ HomeInitialBackoffWait
               \/ HomeInitialSearchStart \/ HomeInitialSearchWait
               \/ HomeSetCoarsePosition
    BY <2>3, <2>4, <2>7
       DEF HomeInitialBackoffStart, HomeInitialBackoffWait,
           HomeInitialSearchStart, HomeInitialSearchWait, HomeSetCoarsePosition
  <2>8. CASE HomeFinalBackoffStart \/ HomeFinalBackoffWait
               \/ HomeRiseSearchStart \/ HomeRiseSearchWait
               \/ HomeFallSearchStart \/ HomeFallSearchWait
    BY <2>3, <2>4, <2>8
       DEF HomeFinalBackoffStart, HomeFinalBackoffWait, HomeRiseSearchStart,
           HomeRiseSearchWait, HomeFallSearchStart, HomeFallSearchWait
  <2>9. CASE HomeSetSwitchPosition \/ HomeIndexSearchWait \/ HomeSetIndexPosition
    BY <2>3, <2>4, <2>9
       DEF HomeSetSwitchPosition, HomeIndexSearchWait, HomeSetIndexPosition
  <2>10. QED
    BY <1>3, <2>5, <2>6, <2>7, <2>8, <2>9 DEF DoHoming
<1>4. Keeps => \A j \in Joints : joint'[j].kb_jog_active = joint[j].kb_jog_active
  BY DEF NextPeriod, Immediately, J, JointsGood
<1>5. QED
  BY <1>1, <1>2, <1>3, <1>4

(* Only the command handler gives a joint to the keyboard. *)
LEMMA ControlKeyboard ==
  ASSUME JointsGood, Next, ~emcmotCommandHandler, NEW j \in Joints
  PROVE  joint'[j].kb_jog_active => joint[j].kb_jog_active
<1>1. joint[j] \in JointType
  BY DEF JointsGood, GoodJoint
<1>2. CASE ProcessInputs \/ ProcessProbeInputs \/ CheckForFaults
  BY <1>2, InputMotion
<1>3. CASE SetOperatingMode
  <2>1. joint' = JointsAfterModeChange
    BY <1>3 DEF SetOperatingMode
  <2>2. QED
    BY <1>1, <2>1 DEF JointsAfterModeChange, JointType
<1>4. CASE HandleJogwheels
  <2>1. PICK moved :
          joint' = clearHomes(
                     [i \in Joints |->
                        IF i \in moved
                        THEN [joint[i] EXCEPT !.wheel_jog_active = TRUE,
                                              !.free_tp_enable = TRUE]
                        ELSE joint[i]], moved)
    BY <1>4 DEF HandleJogwheels
  <2> DEFINE w == IF j \in moved
                  THEN [joint[j] EXCEPT !.wheel_jog_active = TRUE,
                                        !.free_tp_enable = TRUE]
                  ELSE joint[j]
  <2>2. joint'[j] = w \/ joint'[j] = [w EXCEPT !.homed = FALSE]
    BY <2>1 DEF clearHomes
  <2>3. w.kb_jog_active = joint[j].kb_jog_active /\ w \in JointType
    <3>1. CASE j \in moved
      BY <1>1, <3>1 DEF JointType
    <3>2. CASE j \notin moved
      BY <1>1, <3>2
    <3>3. QED
      BY <3>1, <3>2
  <2> HIDE DEF w
  <2>4. QED
    BY <2>2, <2>3 DEF JointType
<1>5. CASE DoHomingSequence
  <2>1. UNCHANGED joint \/ \E S : joint' = PrimeHoming(S)
    BY <1>5 DEF DoHomingSequence, SequenceIdle, SequenceStart,
                SequenceStartJoints, SequenceWaitJoints, StartJoints
  <2>2. \/ joint'[j] = joint[j]
        \/ joint'[j] = [joint[j] EXCEPT !.free_tp_enable = FALSE,
                                        !.home_state = "START"]
    BY <2>1 DEF PrimeHoming
  <2>3. QED
    BY <1>1, <2>2 DEF JointType
<1>6. CASE DoHoming
  BY <1>6, HomingKeyboard
<1>7. CASE FreePosCmds
  <2>1. PICK step : joint' = [i \in Joints |->
                                IF i \in ActiveJoints
                                THEN JointAfter(joint[i], step[i]) ELSE joint[i]]
    BY <1>7 DEF FreePosCmds
  <2>2. joint'[j] = joint[j] \/ joint'[j] = JointAfter(joint[j], step[j])
    BY <2>1
  <2>3. QED
    BY <1>1, <2>2 DEF JointAfter, JointType
<1>8. CASE CoordPosCmds \/ TeleopPosCmds \/ DisabledPosCmds
  <2>1. PICK v : joint' = AllJointsMoving(v)
    BY <1>8 DEF CoordPosCmds, TeleopPosCmds, DisabledPosCmds
  <2>2. QED
    BY <1>1, <2>1 DEF AllJointsMoving, JointType
<1>9. QED
  BY <1>2, <1>3, <1>4, <1>5, <1>6, <1>7, <1>8 DEF Next

(* A keyboard jog never takes over a joint that is being homed. *)
THEOREM NoJogWhileHomingAlways == Spec => NoJogWhileHoming
<1>1. ASSUME Inv, Next, NEW j \in ActiveJoints,
             joint[j].home_state # "IDLE", motion_state = "FREE",
             joint'[j].kb_jog_active
      PROVE  joint[j].kb_jog_active
  <2>1. JointsGood /\ HomingCovered /\ j \in Joints
    BY <1>1, InvIsGood, ActiveAssumption
  <2>2. CASE emcmotCommandHandler
    <3>1. homing_active
      BY <1>1, <2>1, <2>2, CommandFrame DEF HomingCovered
    <3>2. QED
      BY <1>1, <2>1, <2>2, <3>1, CommandMotion
  <2>3. CASE ~emcmotCommandHandler
    BY <1>1, <2>1, <2>3, ControlKeyboard
  <2>4. QED
    BY <2>2, <2>3
<1>2. Inv /\ [Next]_vars =>
        [\A j \in ActiveJoints :
           joint[j].home_state # "IDLE" /\ motion_state = "FREE" =>
             (joint'[j].kb_jog_active => joint[j].kb_jog_active)]_vars
  BY <1>1
<1>3. QED
  BY <1>2, Invariance, PTL DEF Spec, NoJogWhileHoming

-----------------------------------------------------------------------------
(* What needs more than the inductive invariant Inv: what coordinated mode *)
(* starts from, the order of home-all and what a jog forgets.  Each        *)
(* theorem names the commands it does without, because with them the       *)
(* property fails.                                                         *)

-----------------------------------------------------------------------------
(* Coordinated mode, for a user interface that never asks for teleop mode  *)

(* From the command handler to set_operating_mode() the mode asked for and *)
(* the mode of the machine may differ.                                     *)
Deciding ==
  {"process_inputs", "process_probe_inputs", "check_for_faults",
   "set_operating_mode"}

(* A machine out of coordinated mode has nothing queued; in it, the        *)
(* in-position flag says so from the planner's period until a new move is  *)
(* queued, and a new move keeps the machine in the mode; a probing move is *)
(* then dropped before the mode can be left.                               *)
CoordInv ==
  /\ ~teleoperating /\ ~motion_teleop
  /\ motion_enable /\ motion_coord => tp.synced
  /\ ~motion_enable \/ ~motion_coord => tp.done
  /\ pc \notin Deciding => (coordinating <=> motion_coord)
  /\ pc \in Deciding /\ motion_inpos /\ ~tp.done => coordinating
  /\ pc = "command" /\ motion_inpos => tp.done
  /\ pc \in {"check_for_faults", "set_operating_mode"} /\ probing =>
       ~(motion_inpos /\ tp.done)
  /\ probing => motion_coord

LEMMA CoordInit == Init => CoordInv
BY SMTT(30) DEF Init, CoordInv, Deciding

(* What a command does to the planner and the modes asked for. *)
LEMMA CommandModes ==
  ASSUME emcmotCommandHandler, "TELEOP" \notin Commands
  PROVE  /\ \/ UNCHANGED tp
            \/ motion_coord /\ motion_enable /\ tp' = [tp EXCEPT !.done = FALSE]
               /\ UNCHANGED askedVars
         /\ teleoperating' => teleoperating
         /\ probing' => probing \/ motion_coord
<1>1. CASE SetLine \/ Probe \/ RigidTap
  <2>1. motion_coord /\ motion_enable /\ tp' = [tp EXCEPT !.done = FALSE]
    BY <1>1 DEF SetLine, Probe, RigidTap, MoveAllowed
  <2>2. UNCHANGED askedVars
    BY <1>1 DEF SetLine, Probe, RigidTap
  <2>3. teleoperating' = teleoperating
    BY <2>2 DEF askedVars
  <2> QED BY <2>1, <2>2, <2>3
<1>2. CASE Free \/ Coord \/ Disable \/ Enable
  <2>1. UNCHANGED <<tp, probing>>
    BY <1>2 DEF Free, Coord, Disable, Enable
  <2>2. teleoperating' => teleoperating
    BY <1>2 DEF Free, Coord, Disable, Enable, ModesAfterEnableChange
  <2> QED BY <2>1, <2>2
<1>3. CASE NoCommand \/ Abort \/ AxisAbort \/ OverrideLimits \/ Jog
  <2>1. UNCHANGED <<tp, teleoperating, probing>>
    <3>1. CASE NoCommand
      BY <3>1 DEF NoCommand, modeVars, askedVars, probeVars
    <3>2. CASE Abort \/ AxisAbort \/ OverrideLimits \/ Jog
      BY <3>2 DEF Abort, AxisAbort, OverrideLimits, Jog, askedVars
    <3> QED BY <1>3, <3>1, <3>2
  <2> QED BY <2>1
<1>4. CASE Home \/ HomeAll \/ Unhome \/ ClearProbeFlags \/ SetTeleopVector
  <2>1. UNCHANGED <<tp, teleoperating>>
    BY <1>4 DEF Home, HomeAll, Unhome, UnhomeJoints, ClearProbeFlags,
                SetTeleopVector, askedVars
  <2>2. probing' => probing
    <3>1. CASE ClearProbeFlags
      BY <3>1 DEF ClearProbeFlags
    <3>2. CASE ~ClearProbeFlags
      <4>1. probing' = probing
        BY <1>4, <3>2 DEF Home, HomeAll, Unhome, UnhomeJoints, SetTeleopVector
      <4> QED BY <4>1
    <3> QED BY <3>1, <3>2
  <2> QED BY <2>1, <2>2
<1>5. ~Teleop
  BY DEF Teleop, Command
<1> QED BY <1>1, <1>2, <1>3, <1>4, <1>5 DEF emcmotCommandHandler

LEMMA CoordCommand ==
  ASSUME CoordInv, RestTypeOK, emcmotCommandHandler, "TELEOP" \notin Commands
  PROVE  CoordInv'
<1>1. /\ pc = "command" /\ pc' = "process_inputs"
      /\ UNCHANGED <<motion_enable, motion_coord, motion_teleop, motion_inpos>>
  BY CommandFrame
<1>2. tp \in [done : BOOLEAN, synced : BOOLEAN]
  BY DEF RestTypeOK, PlannerTypeOK
<1>3. CASE UNCHANGED tp
  BY <1>1, <1>3, CommandModes DEF CoordInv, Deciding
<1>4. CASE motion_coord /\ motion_enable /\ tp' = [tp EXCEPT !.done = FALSE]
           /\ UNCHANGED askedVars
  <2>1. tp'.done = FALSE /\ tp'.synced = tp.synced
    BY <1>2, <1>4
  <2> QED BY <1>1, <1>4, <2>1, CommandModes DEF CoordInv, Deciding, askedVars
<1> QED BY <1>3, <1>4, CommandModes

LEMMA CoordInputs ==
  ASSUME CoordInv, ProcessInputs \/ ProcessProbeInputs \/ CheckForFaults
  PROVE  CoordInv'
<1>1. CASE ProcessInputs
  BY <1>1 DEF ProcessInputs, CoordInv, Deciding, modeVars, askedVars, probeVars
<1>2. CASE ProcessProbeInputs
  BY <1>2, SMTT(30) DEF ProcessProbeInputs, CoordInv, Deciding, modeVars, askedVars
<1>3. CASE CheckForFaults
  BY <1>3 DEF CheckForFaults, CoordInv, Deciding, probeVars
<1> QED BY <1>1, <1>2, <1>3

LEMMA CoordMode ==
  ASSUME CoordInv, RestTypeOK, SetOperatingMode
  PROVE  CoordInv'
<1>1. /\ pc = "set_operating_mode" /\ pc' = "handle_jogwheels"
      /\ UNCHANGED <<motion_inpos, probing>>
  BY DEF SetOperatingMode, probeVars
<1>2. ~teleoperating' /\ ~motion_teleop' /\ ~AskingTeleop /\ ~EnteringTeleop
  BY DEF CoordInv, SetOperatingMode, EnteringTeleop, AskingTeleop
<1>3. coordinating' <=> motion_coord'
  BY <1>2 DEF SetOperatingMode, EnteringCoord, EnteringFree, RestTypeOK, ModesTypeOK
<1>4. EnteringFree => tp.done /\ ~probing
  BY <1>1 DEF EnteringFree, CoordInv, Deciding
<1>5. /\ tp'.done <=> tp.done \/ (motion_enable /\ ~enabling)
      /\ tp'.synced <=> tp.synced \/ EnteringCoord \/ (enabling /\ ~motion_enable)
  BY <1>2 DEF SetOperatingMode, PresetsPlanner
<1>6. /\ motion_enable' <=> enabling
      /\ motion_coord' <=> EnteringCoord \/ (motion_coord /\ ~EnteringFree)
  BY DEF SetOperatingMode
<1>7. motion_enable' /\ motion_coord' => tp'.synced
  BY <1>5, <1>6 DEF CoordInv
<1>8. ~motion_enable' \/ ~motion_coord' => tp'.done
  BY <1>4, <1>5, <1>6 DEF CoordInv
<1>9. probing' => motion_coord'
  BY <1>1, <1>4, <1>6 DEF CoordInv
<1> QED BY <1>1, <1>2, <1>3, <1>7, <1>8, <1>9 DEF CoordInv, Deciding

(* The functions from the jog wheels to do_homing() *)
LEMMA CoordMiddle ==
  ASSUME CoordInv, HandleJogwheels \/ DoHomingSequence \/ DoHoming
  PROVE  CoordInv'
<1>1. /\ UNCHANGED <<modeVars, motion_inpos, probing, tp>>
      /\ pc' \in {"do_homing_sequence", "do_homing", "get_pos_cmds"}
      /\ pc \notin Deciding
  <2>1. CASE HandleJogwheels
    BY <2>1 DEF HandleJogwheels, probeVars, Deciding
  <2>2. CASE DoHomingSequence
    BY <2>2 DEF DoHomingSequence, SequenceIdle, SequenceStart, SequenceStartJoints,
                SequenceWaitJoints, EnterDoHoming, homingFrame, probeVars, Deciding
  <2>3. CASE DoHoming
    BY <2>3, HomingFrame DEF HomingSuspended, HomingDone, homingFrame, probeVars, Deciding
  <2> QED BY <2>1, <2>2, <2>3
<1> QED BY <1>1 DEF CoordInv, Deciding, modeVars, askedVars

LEMMA CoordPosition ==
  ASSUME CoordInv, RestTypeOK,
         FreePosCmds \/ CoordPosCmds \/ TeleopPosCmds \/ DisabledPosCmds
  PROVE  CoordInv'
<1>1. /\ pc = "get_pos_cmds" /\ pc' = "command"
      /\ UNCHANGED <<modeVars, probing>>
  BY DEF FreePosCmds, CoordPosCmds, TeleopPosCmds, DisabledPosCmds, probeVars
<1>2. tp \in [done : BOOLEAN, synced : BOOLEAN]
  BY DEF RestTypeOK, PlannerTypeOK
<1>3. ~TeleopPosCmds
  BY DEF TeleopPosCmds, motion_state, CoordInv
<1>4. CASE FreePosCmds
  <2>1. ~motion_coord /\ tp'.done = tp.done
    BY <1>2, <1>4, SMTT(60) DEF FreePosCmds, motion_state, CoordInv
  <2> QED BY <1>1, <2>1 DEF CoordInv, Deciding, modeVars, askedVars
<1>5. CASE CoordPosCmds
  <2>1. tp'.synced /\ (motion_inpos' => tp'.done) /\ motion_enable /\ motion_coord
    BY <1>5, SMTT(30) DEF CoordPosCmds, motion_state
  <2> QED BY <1>1, <2>1 DEF CoordInv, Deciding, modeVars, askedVars
<1>6. CASE DisabledPosCmds
  <2>1. ~motion_enable /\ tp'.done = tp.done
    BY <1>2, <1>6 DEF DisabledPosCmds, motion_state
  <2> QED BY <1>1, <2>1 DEF CoordInv, Deciding, modeVars, askedVars
<1> QED BY <1>3, <1>4, <1>5, <1>6

LEMMA CoordNext ==
  ASSUME CoordInv, RestTypeOK, [Next]_vars, "TELEOP" \notin Commands
  PROVE  CoordInv'
<1>1. CASE UNCHANGED vars
  BY <1>1 DEF vars, CoordInv, Deciding, modeVars, askedVars, probeVars
<1> QED BY <1>1, CoordCommand, CoordInputs, CoordMode, CoordMiddle, CoordPosition, SMTT(60) DEF Next

(* Whenever the planner moves the joints in coordinated mode it starts     *)
(* from the commanded position, as long as teleop mode, which moves the    *)
(* commanded position behind the planner's back, is never asked for.       *)
THEOREM CoordStartsFromCommandAlways ==
  ASSUME "TELEOP" \notin Commands
  PROVE  Spec => []CoordStartsFromCommand
<1>1. Inv /\ CoordInv /\ [Next]_vars => CoordInv'
  BY InvIsGood, CoordNext
<1>2. CoordInv => CoordStartsFromCommand
  BY DEF CoordInv, CoordStartsFromCommand, motion_state
<1> QED BY <1>1, <1>2, CoordInit, Invariance, PTL DEF Spec

(* process_probe_inputs() ends a probing move before set_operating_mode()  *)
(* can leave coordinated mode, again without teleop mode.                  *)
THEOREM ProbingInCoordAlways ==
  ASSUME "TELEOP" \notin Commands
  PROVE  Spec => []ProbingInCoord
<1>1. Inv /\ CoordInv /\ [Next]_vars => CoordInv'
  BY InvIsGood, CoordNext
<1>2. CoordInv => ProbingInCoord
  BY DEF CoordInv, ProbingInCoord
<1> QED BY <1>1, <1>2, CoordInit, Invariance, PTL DEF Spec

-----------------------------------------------------------------------------
(* What the actions do to one joint *)

Jogged(r) == r.kb_jog_active \/ r.wheel_jog_active

(* The fields that homing and jogging are about, except the homing state. *)
SameStatus(q, r) ==
  /\ r.homing = q.homing /\ r.homed = q.homed /\ r.at_home = q.at_home
  /\ r.kb_jog_active = q.kb_jog_active /\ r.wheel_jog_active = q.wheel_jog_active
  /\ r.free_tp_active = q.free_tp_active /\ r.home_pause_timer = q.home_pause_timer

(* A command may stop homing, start it or take over an idle joint; only a  *)
(* jog and UNHOME drop the homed flag.                                     *)
CommandEffect(q, r) ==
  /\ r.homing = q.homing /\ r.at_home = q.at_home
  /\ r.wheel_jog_active = q.wheel_jog_active /\ r.free_tp_active = q.free_tp_active
  /\ r.home_pause_timer = q.home_pause_timer
  /\ r.homed => q.homed
  /\ kinType # "INVERSE_ONLY" /\ "UNHOME" \notin Commands => r.homed = q.homed
  /\ \/ r.home_state = q.home_state
     \/ q.home_state # "IDLE" /\ r.home_state = "ABORT"
     \/ /\ q.home_state = "IDLE" /\ r.home_state = "START"
        /\ motion_state = "FREE" /\ homingSequenceState = "IDLE"
        /\ UNCHANGED askedVars
  /\ \/ r.kb_jog_active = q.kb_jog_active
     \/ /\ Jog /\ ~homing_active
        /\ kinType = "INVERSE_ONLY" => ~r.homed

LEMMA CommandJoint ==
  ASSUME JointsGood, emcmotCommandHandler, NEW j \in Joints
  PROVE  CommandEffect(joint[j], joint'[j])
<1>1. joint[j] \in JointType
  BY DEF JointsGood, GoodJoint
<1>2. CASE Abort \/ AxisAbort
  <2>1. joint' = joint \/ \E S : joint' = AbortJoints(S)
    BY <1>2 DEF Abort, AxisAbort
  <2>2. \/ joint'[j] = joint[j]
        \/ joint'[j] = [joint[j] EXCEPT !.free_tp_enable = FALSE,
                           !.home_state = IF @ = "IDLE" THEN @ ELSE "ABORT"]
    BY <2>1 DEF AbortJoints
  <2> QED BY <1>1, <2>2 DEF JointType, CommandEffect
<1>3. CASE Jog
  <2>1. PICK k \in Joints :
          /\ JogAllowed(k)
          /\ joint' = clearHomes([joint EXCEPT ![k].kb_jog_active = TRUE,
                                               ![k].free_tp_enable = TRUE], {k})
    BY <1>3 DEF Jog
  <2>2. ~homing_active
    BY <2>1 DEF JogAllowed
  <2> DEFINE js == [joint EXCEPT ![k].kb_jog_active = TRUE,
                                 ![k].free_tp_enable = TRUE]
  <2>3. /\ js[j] \in JointType
        /\ js[j].homing = joint[j].homing /\ js[j].at_home = joint[j].at_home
        /\ js[j].wheel_jog_active = joint[j].wheel_jog_active
        /\ js[j].free_tp_active = joint[j].free_tp_active
        /\ js[j].home_pause_timer = joint[j].home_pause_timer
        /\ js[j].homed = joint[j].homed /\ js[j].home_state = joint[j].home_state
        /\ j = k \/ js[j].kb_jog_active = joint[j].kb_jog_active
    BY <1>1, <2>1 DEF JointsGood, JointType
  <2> HIDE DEF js
  <2>4. joint'[j] = IF kinType = "INVERSE_ONLY" /\ (rehomeAll \/ j = k)
                    THEN [js[j] EXCEPT !.homed = FALSE] ELSE js[j]
    BY <2>1, SMTT(30) DEF clearHomes, js
  <2>5. CASE joint'[j] = [js[j] EXCEPT !.homed = FALSE] /\ kinType = "INVERSE_ONLY"
    BY <1>3, <2>2, <2>3, <2>5 DEF JointType, CommandEffect
  <2>6. CASE joint'[j] = js[j] /\ ~(kinType = "INVERSE_ONLY" /\ j = k)
    BY <1>3, <2>2, <2>3, <2>6 DEF CommandEffect
  <2> QED BY <2>4, <2>5, <2>6
<1>4. CASE Home
  <2>1. motion_state = "FREE" /\ homingSequenceState = "IDLE" /\ UNCHANGED askedVars
    BY <1>4 DEF Home
  <2>2. PICK k \in Joints :
          /\ joint[k].home_state = "IDLE"
          /\ joint' = [joint EXCEPT ![k].free_tp_enable = FALSE,
                                    ![k].home_state = "START"]
    BY <1>4 DEF Home
  <2>3. CASE j = k
    <3>1. joint'[j] = [joint[j] EXCEPT !.free_tp_enable = FALSE, !.home_state = "START"]
      BY <2>2, <2>3 DEF JointsGood
    <3>2. SameStatus(joint[j], joint'[j]) /\ joint'[j].home_state = "START"
      BY <1>1, <3>1 DEF JointType, SameStatus
    <3> QED BY <2>1, <2>2, <2>3, <3>2 DEF SameStatus, CommandEffect
  <2>4. CASE j # k
    <3>1. joint'[j] = joint[j]
      BY <2>2, <2>4 DEF JointsGood
    <3> QED BY <3>1 DEF CommandEffect
  <2> QED BY <2>3, <2>4
<1>5. CASE Unhome
  <2>1. PICK S : UnhomeJoints(S)
    BY <1>5 DEF Unhome
  <2>2. joint'[j] = joint[j] \/ joint'[j] = [joint[j] EXCEPT !.homed = FALSE]
    BY <2>1 DEF UnhomeJoints
  <2>3. "UNHOME" \in Commands
    BY <1>5 DEF Unhome, Command
  <2> QED BY <1>1, <2>2, <2>3 DEF JointType, CommandEffect
<1>6. CASE UNCHANGED joint
  BY <1>6 DEF CommandEffect
<1>7. NoCommand \/ Free \/ Coord \/ Teleop \/ OverrideLimits \/ SetLine
        \/ Probe \/ RigidTap \/ Disable \/ Enable \/ HomeAll
        \/ ClearProbeFlags \/ SetTeleopVector => UNCHANGED joint
  BY DEF NoCommand, Free, Coord, Teleop, OverrideLimits, SetLine, Probe,
         RigidTap, Disable, Enable, HomeAll, ClearProbeFlags, SetTeleopVector
<1> QED BY <1>2, <1>3, <1>4, <1>5, <1>6, <1>7 DEF emcmotCommandHandler

(* The inputs: contact with the probe aborts homing. *)
LEMMA InputJoint ==
  ASSUME JointsGood, ProcessInputs \/ ProcessProbeInputs \/ CheckForFaults,
         NEW j \in Joints
  PROVE  /\ SameStatus(joint[j], joint'[j])
         /\ \/ joint'[j].home_state = joint[j].home_state
            \/ joint[j].homing /\ joint'[j].home_state = "ABORT"
<1>1. joint[j] \in JointType
  BY DEF JointsGood, GoodJoint
<1>2. CASE ProcessInputs
  <2>1. PICK limits \in [ActiveJoints -> LimitInputs],
             pulses \in SUBSET {i \in ActiveJoints : joint[i].index_enable} :
          joint' = [i \in Joints |->
                      IF i \in ActiveJoints
                      THEN [joint[i] EXCEPT !.limits = limits[i],
                                            !.index_enable = @ /\ i \notin pulses]
                      ELSE joint[i]]
    BY <1>2 DEF ProcessInputs
  <2>2. joint'[j] = joint[j] \/ \E l, b :
          joint'[j] = [joint[j] EXCEPT !.limits = l, !.index_enable = b]
    BY <2>1
  <2>3. CASE joint'[j] = joint[j]
    BY <2>3 DEF SameStatus
  <2>4. CASE joint'[j] # joint[j]
    <3>1. PICK l, b : joint'[j] = [joint[j] EXCEPT !.limits = l, !.index_enable = b]
      BY <2>2, <2>4
    <3>2. SameStatus(joint[j], joint'[j]) /\ joint'[j].home_state = joint[j].home_state
      BY <1>1, <3>1 DEF JointType, SameStatus
    <3> QED BY <3>2, SMTT(60)
  <2> QED BY <2>3, <2>4
<1>3. CASE ProcessProbeInputs
  <2>1. joint' = joint \/ joint' = ProbeStopsJoints
    BY <1>3 DEF ProcessProbeInputs
  <2>2. \/ joint'[j] = joint[j]
        \/ joint'[j] = [joint[j] EXCEPT
                          !.home_state = IF joint[j].homing THEN "ABORT" ELSE @,
                          !.free_tp_enable = FALSE]
    BY <2>1 DEF ProbeStopsJoints
  <2> QED BY <1>1, <2>2 DEF JointType, SameStatus
<1>4. CASE CheckForFaults
  BY <1>4, SMTT(60) DEF CheckForFaults, SameStatus
<1> QED BY <1>2, <1>3, <1>4

(* Switching motion on or off ends the homing of the active joints. *)
LEMMA ModeJoint ==
  ASSUME JointsGood, RestTypeOK, SetOperatingMode, NEW j \in Joints
  PROVE  LET q == joint[j]
             r == joint'[j]
             switched == j \in ActiveJoints /\ (enabling # motion_enable)
         IN  /\ r.homed = q.homed /\ r.at_home = q.at_home
             /\ r.kb_jog_active = q.kb_jog_active
             /\ r.wheel_jog_active = q.wheel_jog_active
             /\ r.free_tp_active = q.free_tp_active
             /\ r.home_pause_timer = q.home_pause_timer
             /\ switched => r.home_state = "IDLE" /\ ~r.homing
             /\ ~switched => r.home_state = q.home_state /\ r.homing = q.homing
<1>1. joint[j] \in JointType
  BY DEF JointsGood, GoodJoint
<1>2. joint' = JointsAfterModeChange
  BY SMTT(60) DEF SetOperatingMode
<1> DEFINE switched == enabling # motion_enable /\ j \in ActiveJoints
<1>3. joint'[j] = [joint[j] EXCEPT
                     !.free_tp_enable = @ /\ (motion_enable => enabling) /\ ~EnteringFree,
                     !.homing = @ /\ ~switched,
                     !.home_state = IF switched THEN "IDLE" ELSE @]
  BY <1>2 DEF JointsAfterModeChange
<1>4. /\ joint'[j].homed = joint[j].homed /\ joint'[j].at_home = joint[j].at_home
      /\ joint'[j].kb_jog_active = joint[j].kb_jog_active
      /\ joint'[j].wheel_jog_active = joint[j].wheel_jog_active
      /\ joint'[j].free_tp_active = joint[j].free_tp_active
      /\ joint'[j].home_pause_timer = joint[j].home_pause_timer
      /\ joint'[j].homing = (joint[j].homing /\ ~switched)
      /\ joint'[j].home_state = IF switched THEN "IDLE" ELSE joint[j].home_state
  <2> HIDE DEF switched
  <2> QED BY <1>1, <1>3 DEF JointType
<1>5. joint[j].homing \in BOOLEAN
  BY <1>1, SMTT(60) DEF JointType
<1>6. CASE switched
  BY <1>4, <1>6
<1>7. CASE ~switched
  <2>1. joint'[j].homing = joint[j].homing
    BY <1>4, <1>5, <1>7
  <2> QED BY <1>4, <1>7, <2>1
<1> QED BY <1>6, <1>7

(* A wheel takes over a joint only when no joint is homing. *)
WheelEffect(q, r) ==
  /\ r.home_state = q.home_state /\ r.homing = q.homing /\ r.at_home = q.at_home
  /\ r.kb_jog_active = q.kb_jog_active /\ r.free_tp_active = q.free_tp_active
  /\ r.home_pause_timer = q.home_pause_timer
  /\ r.homed => q.homed
  /\ kinType # "INVERSE_ONLY" => r.homed = q.homed
  /\ \/ r.wheel_jog_active = q.wheel_jog_active
     \/ ~homing_active /\ (kinType = "INVERSE_ONLY" => ~r.homed)

LEMMA WheelJoint ==
  ASSUME JointsGood, HandleJogwheels, NEW j \in Joints
  PROVE  WheelEffect(joint[j], joint'[j])
<1>1. joint[j] \in JointType
  BY DEF JointsGood, GoodJoint
<1>2. PICK turned, fed :
        joint' = clearHomes(
                   [i \in Joints |->
                      IF i \in WheelJogs(turned, fed)
                      THEN [joint[i] EXCEPT !.wheel_jog_active = TRUE,
                                            !.free_tp_enable = TRUE]
                      ELSE joint[i]], WheelJogs(turned, fed))
  BY DEF HandleJogwheels
<1> DEFINE moved == WheelJogs(turned, fed)
           w == IF j \in moved
                THEN [joint[j] EXCEPT !.wheel_jog_active = TRUE,
                                      !.free_tp_enable = TRUE]
                ELSE joint[j]
<1>3. joint'[j] = IF kinType = "INVERSE_ONLY" /\ moved # {} /\ (rehomeAll \/ j \in moved)
                  THEN [w EXCEPT !.homed = FALSE] ELSE w
  BY <1>2 DEF clearHomes
<1>4. j \in moved => ~homing_active
  BY DEF WheelJogs
<1>5. /\ w \in JointType
      /\ w.home_state = joint[j].home_state /\ w.homing = joint[j].homing
      /\ w.at_home = joint[j].at_home /\ w.kb_jog_active = joint[j].kb_jog_active
      /\ w.free_tp_active = joint[j].free_tp_active /\ w.homed = joint[j].homed
      /\ w.home_pause_timer = joint[j].home_pause_timer
      /\ j \in moved \/ w.wheel_jog_active = joint[j].wheel_jog_active
  <2> HIDE DEF moved
  <2>1. CASE j \in moved
    BY <1>1, <2>1 DEF JointType
  <2>2. CASE j \notin moved
    BY <1>1, <2>2
  <2> QED BY <2>1, <2>2
<1> HIDE DEF w, moved
<1>6. CASE joint'[j] = [w EXCEPT !.homed = FALSE] /\ kinType = "INVERSE_ONLY"
  BY <1>4, <1>5, <1>6, SMTT(60) DEF JointType, WheelEffect
<1>7. CASE joint'[j] = w /\ ~(kinType = "INVERSE_ONLY" /\ j \in moved)
  BY <1>4, <1>5, <1>7, SMTT(60) DEF WheelEffect
<1> QED BY <1>3, <1>6, <1>7

(* The planners end a jog with the move, and in free mode every jog that   *)
(* goes on has its move.                                                   *)
LEMMA PlannerJoint ==
  ASSUME JointsGood, FreePosCmds \/ CoordPosCmds \/ TeleopPosCmds \/ DisabledPosCmds,
         NEW j \in Joints
  PROVE  LET q == joint[j]
             r == joint'[j]
         IN  /\ r.home_state = q.home_state /\ r.homing = q.homing
             /\ r.homed = q.homed /\ (r.at_home => q.at_home)
             /\ r.home_pause_timer = q.home_pause_timer
             /\ r.kb_jog_active => q.kb_jog_active
             /\ r.wheel_jog_active => q.wheel_jog_active
             /\ IF FreePosCmds
                THEN j \in ActiveJoints /\ Jogged(r) => r.free_tp_active
                ELSE r.free_tp_active = q.free_tp_active
<1>1. joint[j] \in JointType
  BY SMTT(60) DEF JointsGood, GoodJoint
<1>2. CASE FreePosCmds
  <2>1. PICK step : joint' = [i \in Joints |->
                                IF i \in ActiveJoints
                                THEN JointAfter(joint[i], step[i]) ELSE joint[i]]
    BY <1>2, SMTT(60) DEF FreePosCmds
  <2>2. CASE j \in ActiveJoints
    <3>1. joint'[j] = JointAfter(joint[j], step[j])
      BY <2>1, <2>2
    <3>2. ASSUME NEW q \in JointType, NEW s, NEW r, r = JointAfter(q, s)
          PROVE  /\ r.home_state = q.home_state /\ r.homing = q.homing
                 /\ r.homed = q.homed /\ (r.at_home => q.at_home)
                 /\ r.home_pause_timer = q.home_pause_timer
                 /\ r.kb_jog_active => q.kb_jog_active
                 /\ r.wheel_jog_active => q.wheel_jog_active
                 /\ Jogged(r) => r.free_tp_active
      BY <3>2 DEF JointAfter, JointType, Jogged
    <3> QED BY <1>1, <1>2, <3>1, <3>2, SMTT(30)
  <2>3. CASE j \notin ActiveJoints
    BY <1>2, <2>1, <2>3
  <2> QED BY <2>2, <2>3
<1>3. CASE ~FreePosCmds
  <2>1. PICK v : joint' = AllJointsMoving(v)
    BY <1>3 DEF CoordPosCmds, TeleopPosCmds, DisabledPosCmds
  <2> QED BY <1>1, <1>3, <2>1 DEF AllJointsMoving, JointType, Jogged
<1> QED BY <1>2, <1>3

(* do_homing_sequence() only marks joints for homing. *)
LEMMA SequenceJoint ==
  ASSUME JointsGood, NEW S, NEW j \in Joints, joint' = PrimeHoming(S)
  PROVE  /\ j \notin S => joint'[j] = joint[j]
         /\ j \in S => SameStatus(joint[j], joint'[j]) /\ joint'[j].home_state = "START"
<1>1. joint[j] \in JointType
  BY DEF JointsGood, GoodJoint
<1> QED BY <1>1 DEF PrimeHoming, JointType, SameStatus

(* One pass through the switch of do_homing(): it leaves the jog flags and *)
(* the planner alone, wakes no idle joint, sets at_home and homed only in  *)
(* HOME_FINISHED, and locks the joint only once its final move has ended.  *)
Locking == {"LOCK", "LOCK_WAIT", "FINISHED"}
AtRest == {"IDLE", "ABORT"}

HomingStep(q, r) ==
  /\ r.kb_jog_active = q.kb_jog_active /\ r.wheel_jog_active = q.wheel_jog_active
  /\ r.free_tp_active = q.free_tp_active
  /\ r.home_state \notin AtRest => q.home_state \notin AtRest
  /\ \/ ~r.at_home
     \/ r.homed /\ ~r.homing
     \/ r.at_home = q.at_home /\ r.homed = q.homed /\ r.homing = q.homing
  /\ r.homed => r.homed = q.homed \/ q.home_state = "FINISHED"
  /\ r.home_state \in Locking => \/ q.home_state \in Locking
                                 \/ q.home_state = "FINAL_MOVE_WAIT" /\ ~q.free_tp_active

LoopStep ==
  \E r : /\ HomingStep(J, r)
         /\ NextPeriod(r) \/ (Immediately(r) /\ r.home_state # "FINAL_MOVE_WAIT")

LEMMA HomingSteps ==
  ASSUME JointsGood, DoHoming, ~HomingSuspended, ~HomingDone, ~HomeIdle
  PROVE  LoopStep
<1>1. J \in JointType
  <2>1. joint_num \in ActiveJoints
    BY HomingFrame
  <2> QED BY <2>1, ActiveAssumption DEF J, JointsGood, GoodJoint
<1> DEFINE Working == J.home_state \notin AtRest
(* the ways of going on that lead to no locking state *)
<1>2. ASSUME Working, NEW s, s \notin Locking, StartMove(s)
      PROVE  LoopStep
  <2>1. PICK r : r = [J EXCEPT !.home_pause_timer = 0, !.free_tp_enable = TRUE,
                               !.home_state = s]
    OBVIOUS
  <2>2. HomingStep(J, r)
    BY <1>1, <1>2, <2>1 DEF HomingStep, JointType, Locking, AtRest
  <2> QED BY <1>2, <2>1, <2>2 DEF StartMove, LoopStep
<1>3. ASSUME Working, NEW s, s \notin Locking, s # "FINAL_MOVE_WAIT", NEW b,
             \/ NextPeriod([J EXCEPT !.home_state = s])
             \/ Immediately([J EXCEPT !.home_state = s])
             \/ Immediately([J EXCEPT !.free_tp_enable = b, !.home_state = s])
             \/ Immediately([J EXCEPT !.home_pause_timer = b, !.home_state = s])
             \/ NextPeriod([J EXCEPT !.home_pause_timer = b, !.home_state = s])
             \/ Immediately([J EXCEPT !.motor_offset = b, !.home_state = s])
      PROVE  LoopStep
  <2>1. PICK r : /\ \/ r = [J EXCEPT !.home_state = s]
                    \/ r = [J EXCEPT !.free_tp_enable = b, !.home_state = s]
                    \/ r = [J EXCEPT !.home_pause_timer = b, !.home_state = s]
                    \/ r = [J EXCEPT !.motor_offset = b, !.home_state = s]
                 /\ NextPeriod(r) \/ Immediately(r)
    BY <1>3
  <2>2. HomingStep(J, r) /\ r.home_state = s
    <3>1. CASE r = [J EXCEPT !.home_state = s]
      BY <1>1, <1>3, <3>1, SMTT(60) DEF HomingStep, JointType, Locking, AtRest
    <3>2. CASE r = [J EXCEPT !.free_tp_enable = b, !.home_state = s]
      BY <1>1, <1>3, <3>2, SMTT(60) DEF HomingStep, JointType, Locking, AtRest
    <3>3. CASE r = [J EXCEPT !.home_pause_timer = b, !.home_state = s]
      BY <1>1, <1>3, <3>3, SMTT(60) DEF HomingStep, JointType, Locking, AtRest
    <3>4. CASE r = [J EXCEPT !.motor_offset = b, !.home_state = s]
      BY <1>1, <1>3, <3>4, SMTT(60) DEF HomingStep, JointType, Locking, AtRest
    <3> QED BY <2>1, <3>1, <3>2, <3>3, <3>4
  <2> QED BY <1>3, <2>1, <2>2 DEF LoopStep
<1>4. ASSUME Working, NEW b,
             NextPeriod(J) \/ NextPeriod([J EXCEPT !.home_pause_timer = b])
      PROVE  LoopStep
  <2>1. PICK r : /\ r = J \/ r = [J EXCEPT !.home_pause_timer = b]
                 /\ NextPeriod(r)
    BY <1>4
  <2>2. HomingStep(J, r)
    BY <1>1, <1>4, <2>1 DEF HomingStep, JointType, AtRest
  <2> QED BY <2>1, <2>2 DEF LoopStep
<1>5. "ABORT" \notin Locking /\ "IDLE" \notin Locking
  BY DEF Locking
<1>6. ASSUME Working, MovingChecks \/ GiveUp
      PROVE  LoopStep
  BY <1>3, <1>4, <1>5, <1>6 DEF MovingChecks, AbortMove, GiveUp
<1>7. ASSUME Working, EdgeFound
      PROVE  LoopStep
  <2>1. "INDEX_SEARCH_START" \notin Locking /\ "SET_SWITCH_POSITION" \notin Locking
    BY DEF Locking
  <2> QED BY <1>3, <1>7, <2>1 DEF EdgeFound
<1>8. ASSUME NEW s, InHomeState(s), s \notin AtRest
      PROVE  Working
  BY <1>8 DEF InHomeState
<1> HIDE DEF Working
<1>9. CASE HomeStart
  <2>1. Working
    BY <1>8, <1>9 DEF HomeStart, AtRest
  <2>2. PICK r : /\ \/ r = [J EXCEPT !.home_state = "IDLE"]
                    \/ \E s \in {"UNLOCK", "UNLOCK_WAIT"} :
                         r = [J EXCEPT !.homing = TRUE, !.homed = FALSE,
                                       !.at_home = FALSE, !.free_tp_enable = FALSE,
                                       !.home_pause_timer = 0, !.home_state = s]
                 /\ NextPeriod(r) \/ Immediately(r)
    BY <1>9 DEF HomeStart
  <2>3. HomingStep(J, r) /\ r.home_state # "FINAL_MOVE_WAIT"
    BY <1>1, <2>1, <2>2 DEF HomingStep, JointType, Locking, AtRest, Working
  <2> QED BY <2>2, <2>3 DEF LoopStep
<1>10. CASE HomeUnlock \/ HomeUnlockWait
  <2>1. Working
    BY <1>8, <1>10 DEF HomeUnlock, HomeUnlockWait, AtRest
  <2>2. "UNLOCK_WAIT" \notin Locking /\ FirstState \notin Locking
          /\ FirstState # "FINAL_MOVE_WAIT"
    <3>1. P.home_search_vel = 0 \/ P.home_search_vel # 0
      OBVIOUS
    <3> QED BY <3>1 DEF FirstState, Locking
  <2> QED BY <1>3, <1>4, <1>5, <1>10, <2>1, <2>2 DEF HomeUnlock, HomeUnlockWait
<1>11. CASE HomePause
  <2>1. Working
    BY <1>8, <1>11 DEF HomePause, PausingStates, AtRest
  <2> QED BY <1>4, <1>11, <2>1 DEF HomePause
<1>12. CASE HomeInitialBackoffStart \/ HomeInitialBackoffWait
             \/ HomeInitialSearchStart \/ HomeInitialSearchWait
  <2>1. Working
    BY <1>8, <1>12, SMTT(60) DEF HomeInitialBackoffStart, HomeInitialBackoffWait,
                       HomeInitialSearchStart, HomeInitialSearchWait, AtRest
  <2>2. {"INITIAL_BACKOFF_WAIT", "INITIAL_SEARCH_START", "INITIAL_BACKOFF_START",
         "INITIAL_SEARCH_WAIT", "SET_COARSE_POSITION"} \cap Locking = {}
    BY DEF Locking
  <2> QED BY <1>2, <1>3, <1>6, <1>12, <2>1, <2>2
          DEF HomeInitialBackoffStart, HomeInitialBackoffWait,
              HomeInitialSearchStart, HomeInitialSearchWait
<1>13. CASE HomeSetCoarsePosition \/ HomeSetSwitchPosition \/ HomeSetIndexPosition
  <2>1. Working
    BY <1>8, <1>13 DEF HomeSetCoarsePosition, HomeSetSwitchPosition,
                       HomeSetIndexPosition, AtRest
  <2>2. CASE HomeSetCoarsePosition
    <3> DEFINE s == IF P.home_search_vel * P.home_latch_vel > 0
                    THEN "FINAL_BACKOFF_START" ELSE "FALL_SEARCH_START"
    <3>1. s \notin Locking /\ s # "FINAL_MOVE_WAIT"
      BY DEF Locking
    <3>2. Immediately([J EXCEPT !.motor_offset = "coarse", !.home_state = s])
      BY <2>2 DEF HomeSetCoarsePosition
    <3> HIDE DEF s
    <3> QED BY <1>3, <2>1, <3>1, <3>2
  <2>3. CASE HomeSetSwitchPosition \/ HomeSetIndexPosition
    <3>1. "FINAL_MOVE_START" \notin Locking
      BY DEF Locking
    <3> QED BY <1>3, <2>1, <2>3, <3>1 DEF HomeSetSwitchPosition, HomeSetIndexPosition
  <2> QED BY <1>13, <2>2, <2>3, SMTT(60)
<1>14. CASE HomeFinalBackoffStart \/ HomeFinalBackoffWait \/ HomeRiseSearchStart
              \/ HomeFallSearchStart \/ HomeFinalMoveStart
  <2>1. Working
    BY <1>8, <1>14 DEF HomeFinalBackoffStart, HomeFinalBackoffWait, HomeRiseSearchStart,
                       HomeFallSearchStart, HomeFinalMoveStart, AtRest
  <2>2. {"FINAL_BACKOFF_WAIT", "RISE_SEARCH_START", "RISE_SEARCH_WAIT",
         "FALL_SEARCH_WAIT", "FINAL_MOVE_WAIT"} \cap Locking = {}
    BY DEF Locking
  <2> QED BY <1>2, <1>3, <1>6, <1>14, <2>1, <2>2
          DEF HomeFinalBackoffStart, HomeFinalBackoffWait, HomeRiseSearchStart,
              HomeFallSearchStart, HomeFinalMoveStart
<1>15. CASE HomeRiseSearchWait \/ HomeFallSearchWait \/ HomeIndexSearchWait
  <2>1. Working
    BY <1>8, <1>15 DEF HomeRiseSearchWait, HomeFallSearchWait, HomeIndexSearchWait, AtRest
  <2>2. "SET_INDEX_POSITION" \notin Locking
    BY DEF Locking
  <2> QED BY <1>3, <1>6, <1>7, <1>15, <2>1, <2>2
          DEF HomeRiseSearchWait, HomeFallSearchWait, HomeIndexSearchWait
<1>16. CASE HomeIndexOnlyStart \/ HomeIndexSearchStart
  <2>1. Working
    BY <1>8, <1>16, SMTT(60) DEF HomeIndexOnlyStart, HomeIndexSearchStart, AtRest
  <2>2. PICK s \in {"INDEX_SEARCH_WAIT", "ABORT"} : \E b, r :
          /\ \/ r = [J EXCEPT !.home_pause_timer = 0, !.motor_offset = "coarse",
                              !.index_enable = TRUE, !.free_tp_enable = TRUE,
                              !.home_state = s]
             \/ r = [J EXCEPT !.index_enable = TRUE, !.free_tp_enable = b,
                              !.home_state = s]
          /\ NextPeriod(r) \/ Immediately(r)
    BY <1>16 DEF HomeIndexOnlyStart, HomeIndexSearchStart
  <2>3. PICK b, r :
          /\ \/ r = [J EXCEPT !.home_pause_timer = 0, !.motor_offset = "coarse",
                              !.index_enable = TRUE, !.free_tp_enable = TRUE,
                              !.home_state = s]
             \/ r = [J EXCEPT !.index_enable = TRUE, !.free_tp_enable = b,
                              !.home_state = s]
          /\ NextPeriod(r) \/ Immediately(r)
    BY <2>2
  <2>4. HomingStep(J, r) /\ r.home_state # "FINAL_MOVE_WAIT"
    <3>1. CASE r = [J EXCEPT !.home_pause_timer = 0, !.motor_offset = "coarse",
                             !.index_enable = TRUE, !.free_tp_enable = TRUE,
                             !.home_state = s]
      BY <1>1, <2>1, <2>3, <3>1, SMTT(60)
         DEF HomingStep, JointType, Locking, AtRest, Working
    <3>2. CASE r = [J EXCEPT !.index_enable = TRUE, !.free_tp_enable = b,
                             !.home_state = s]
      BY <1>1, <2>1, <2>3, <3>2, SMTT(60)
         DEF HomingStep, JointType, Locking, AtRest, Working
    <3> QED BY <2>3, <3>1, <3>2
  <2> QED BY <2>3, <2>4 DEF LoopStep
<1>17. CASE HomeFinalMoveWait
  <2>1. J.home_state = "FINAL_MOVE_WAIT"
    BY <1>17 DEF HomeFinalMoveWait, InHomeState
  <2>2. Working
    BY <2>1 DEF Working, AtRest
  <2>3. CASE ~J.free_tp_active
    <3>1. PICK r : /\ r = [J EXCEPT !.free_tp_enable = FALSE, !.home_state = "LOCK"]
                   /\ Immediately(r)
      BY <1>17, <2>3 DEF HomeFinalMoveWait
    <3>2. HomingStep(J, r) /\ r.home_state # "FINAL_MOVE_WAIT"
      BY <1>1, <2>1, <2>3, <3>1 DEF HomingStep, JointType, Locking, AtRest
    <3> QED BY <3>1, <3>2 DEF LoopStep
  <2>4. CASE J.free_tp_active
    BY <1>3, <1>4, <1>5, <1>17, <2>2, <2>4 DEF HomeFinalMoveWait
  <2> QED BY <2>3, <2>4
<1>18. CASE HomeLock \/ HomeLockWait
  <2>1. PICK r : /\ \/ r = J
                    \/ r = [J EXCEPT !.home_state = "LOCK_WAIT"]
                    \/ r = [J EXCEPT !.home_state = "FINISHED"]
                 /\ NextPeriod(r) \/ Immediately(r)
    BY <1>18 DEF HomeLock, HomeLockWait
  <2>2. J.home_state \in {"LOCK", "LOCK_WAIT"}
    BY <1>18 DEF HomeLock, HomeLockWait, InHomeState
  <2>3. HomingStep(J, r) /\ r.home_state # "FINAL_MOVE_WAIT"
    BY <1>1, <2>1, <2>2 DEF HomingStep, JointType, Locking, AtRest
  <2> QED BY <2>1, <2>3 DEF LoopStep
<1>19. CASE HomeFinished
  <2>1. J.home_state = "FINISHED"
    BY <1>19 DEF HomeFinished, InHomeState
  <2>2. PICK r : /\ r = [J EXCEPT !.homing = FALSE, !.homed = TRUE, !.at_home = TRUE,
                                  !.home_state = "IDLE"]
                 /\ NextPeriod(r)
    BY <1>19 DEF HomeFinished
  <2>3. HomingStep(J, r)
    BY <1>1, <2>1, <2>2 DEF HomingStep, JointType, Locking, AtRest
  <2> QED BY <2>2, <2>3 DEF LoopStep
<1>20. CASE HomeAbort
  <2>1. PICK r : /\ r = [J EXCEPT !.homing = FALSE, !.homed = FALSE, !.at_home = FALSE,
                                  !.free_tp_enable = FALSE, !.home_state = "IDLE",
                                  !.index_enable = FALSE]
                 /\ NextPeriod(r)
    BY <1>20 DEF HomeAbort
  <2>2. HomingStep(J, r)
    BY <1>1, <2>1, SMTT(60) DEF HomingStep, JointType, Locking, AtRest
  <2> QED BY <2>1, <2>2 DEF LoopStep
<1> QED BY <1>9, <1>10, <1>11, <1>12, <1>13, <1>14, <1>15, <1>16, <1>17, <1>18, <1>19,
           <1>20, SMTT(60) DEF DoHoming

-----------------------------------------------------------------------------
(* The order of home-all, for kinematics with a forward transform, where a *)
(* jog forgets no home position, and a user interface that does not ask to *)
(* unhome joints meanwhile                                                 *)

Settled(r) == r.home_state = "IDLE" /\ ~r.homing /\ r.homed
AtHomeIsHomed(r) == r.at_home => r.homed /\ ~r.homing
InProgress == {"START_JOINTS", "WAIT_JOINTS"}

(* The joints of the steps before the current one are homed and idle, and  *)
(* at_home, which is what the sequence looks at, says as much.             *)
SequenceInv ==
  /\ \A j \in Joints : AtHomeIsHomed(joint[j])
  /\ homingSequenceState \in InProgress =>
       \A j \in Joints : homing_params[j].home_sequence \in 0 .. home_sequence - 1 =>
                           Settled(joint[j])

LEMMA SequenceInit == Init => SequenceInv
BY SMTT(60) DEF Init, SequenceInv, AtHomeIsHomed, InProgress, JointInit

LEMMA SequenceKept ==
  ASSUME SequenceInv, UNCHANGED <<homing_params, home_sequence>>,
         homingSequenceState' \in InProgress => homingSequenceState \in InProgress,
         \A j \in Joints : AtHomeIsHomed(joint'[j]),
         \A j \in Joints : homingSequenceState \in InProgress /\ Settled(joint[j]) =>
                             Settled(joint'[j])
  PROVE  SequenceInv'
BY DEF SequenceInv

(* Only HOME_ALL touches the state of the sequence. *)
LEMMA CommandSequence ==
  ASSUME emcmotCommandHandler
  PROVE  \/ UNCHANGED homingSequenceState
         \/ "HOME_ALL" \in Commands /\ homingSequenceState' = "START"
<1>1. CASE NoCommand
  BY <1>1 DEF NoCommand, sequenceVars
<1>2. CASE HomeAll
  BY <1>2, SMTT(60) DEF HomeAll, Command
<1>3. CASE ~NoCommand /\ ~HomeAll
  BY <1>3 DEF emcmotCommandHandler, Abort, AxisAbort, Free, Coord, Teleop, OverrideLimits,
              Jog, SetLine, Probe, RigidTap, Disable, Enable, Home, Unhome, UnhomeJoints,
              ClearProbeFlags, SetTeleopVector
<1> QED BY <1>1, <1>2, <1>3, SMTT(60)

LEMMA SequenceCommand ==
  ASSUME JointsGood, SequenceInv, emcmotCommandHandler,
         kinType # "INVERSE_ONLY", "UNHOME" \notin Commands
  PROVE  SequenceInv'
<1>1. UNCHANGED <<homing_params, home_sequence>>
  BY CommandFrame
<1>2. homingSequenceState' \in InProgress => homingSequenceState \in InProgress
  BY CommandSequence DEF InProgress
<1>3. ASSUME NEW j \in Joints
      PROVE  /\ AtHomeIsHomed(joint'[j])
             /\ homingSequenceState \in InProgress /\ Settled(joint[j]) => Settled(joint'[j])
  <2>1. CommandEffect(joint[j], joint'[j]) /\ AtHomeIsHomed(joint[j])
    BY CommandJoint, SMTT(60) DEF SequenceInv
  <2> QED BY <2>1 DEF CommandEffect, AtHomeIsHomed, Settled, InProgress
<1> QED BY <1>1, <1>2, <1>3, SequenceKept

LEMMA SequenceControl ==
  ASSUME JointsGood, RestTypeOK, SequenceInv, kinType # "INVERSE_ONLY",
         \/ ProcessInputs \/ ProcessProbeInputs \/ CheckForFaults
         \/ SetOperatingMode \/ HandleJogwheels
  PROVE  SequenceInv'
<1>1. UNCHANGED <<homing_params, home_sequence, homingSequenceState>>
  BY DEF ProcessInputs, ProcessProbeInputs, CheckForFaults, SetOperatingMode,
         HandleJogwheels, sequenceVars
<1>2. ASSUME NEW j \in Joints
      PROVE  /\ AtHomeIsHomed(joint'[j])
             /\ Settled(joint[j]) => Settled(joint'[j])
  <2>1. AtHomeIsHomed(joint[j])
    BY SMTT(60) DEF SequenceInv
  <2>2. CASE ProcessInputs \/ ProcessProbeInputs \/ CheckForFaults
    BY <2>1, <2>2, InputJoint, SMTT(60) DEF SameStatus, AtHomeIsHomed, Settled
  <2>3. CASE SetOperatingMode
    BY <2>1, <2>3, ModeJoint, SMTT(60) DEF AtHomeIsHomed, Settled
  <2>4. CASE HandleJogwheels
    BY <2>1, <2>4, WheelJoint, SMTT(60) DEF WheelEffect, AtHomeIsHomed, Settled
  <2> QED BY <2>2, <2>3, <2>4, SMTT(60)
<1> QED BY <1>1, <1>2, SequenceKept, SMTT(60)

LEMMA SequencePosition ==
  ASSUME JointsGood, SequenceInv,
         FreePosCmds \/ CoordPosCmds \/ TeleopPosCmds \/ DisabledPosCmds
  PROVE  SequenceInv'
<1>1. UNCHANGED <<homing_params, home_sequence, homingSequenceState>>
  BY DEF FreePosCmds, CoordPosCmds, TeleopPosCmds, DisabledPosCmds, sequenceVars
<1>2. ASSUME NEW j \in Joints
      PROVE  /\ AtHomeIsHomed(joint'[j])
             /\ Settled(joint[j]) => Settled(joint'[j])
  <2>1. AtHomeIsHomed(joint[j])
    BY DEF SequenceInv
  <2> QED BY <2>1, PlannerJoint DEF AtHomeIsHomed, Settled
<1> QED BY <1>1, <1>2, SequenceKept, SMTT(60)

(* The sequence moves on only when the joints of the step are at home. *)
LEMMA SequenceSteps ==
  ASSUME JointsGood, RestTypeOK, SequenceInv, DoHomingSequence
  PROVE  SequenceInv'
<1>1. UNCHANGED homing_params /\ home_sequence \in Nat
  BY SMTT(60) DEF DoHomingSequence, SequenceIdle, SequenceStart, SequenceStartJoints,
         SequenceWaitJoints, EnterDoHoming, homingFrame, RestTypeOK, SequenceTypeOK
<1>2. ASSUME NEW S, joint' = PrimeHoming(S)
      PROVE  \A j \in Joints : AtHomeIsHomed(joint'[j])
  BY <1>2, SequenceJoint, SMTT(60) DEF SequenceInv, AtHomeIsHomed, SameStatus
<1>3. CASE SequenceIdle
  BY <1>1, <1>3, SMTT(60) DEF SequenceIdle, SequenceInv, sequenceVars
<1>4. CASE SequenceStart
  <2>1. CASE homingSequenceState' = "IDLE" /\ UNCHANGED joint
    BY <2>1, SMTT(60) DEF SequenceInv, InProgress
  <2>2. CASE StartJoints(0)
    <3>1. home_sequence' = 0 /\ joint' = PrimeHoming(InSequence(0))
      BY <2>2, SMTT(60) DEF StartJoints
    <3> QED BY <1>2, <3>1, SMTT(30) DEF SequenceInv
  <2> QED BY <1>4, <2>1, <2>2, SMTT(60) DEF SequenceStart
<1>5. CASE SequenceStartJoints
  <2>1. /\ home_sequence' = home_sequence /\ homingSequenceState \in InProgress
        /\ joint' = PrimeHoming(InSequence(home_sequence))
    BY <1>5, SMTT(60) DEF SequenceStartJoints, StartJoints, InProgress
  <2>2. ASSUME NEW j \in Joints, homing_params[j].home_sequence \in 0 .. home_sequence - 1
        PROVE  Settled(joint'[j])
    <3>1. j \notin InSequence(home_sequence)
      BY <1>1, <2>2, SMTT(60) DEF InSequence
    <3>2. joint'[j] = joint[j]
      BY <2>1, <3>1, SequenceJoint, SMTT(60)
    <3> QED BY <2>1, <2>2, <3>2 DEF SequenceInv
  <2> QED BY <1>1, <1>2, <2>1, <2>2 DEF SequenceInv
<1>6. CASE SequenceWaitJoints
  <2>1. UNCHANGED joint /\ homingSequenceState \in InProgress
    BY <1>6 DEF SequenceWaitJoints, InProgress
  <2>2. CASE homingSequenceState' = "IDLE"
    BY <2>1, <2>2 DEF SequenceInv, InProgress
  <2>3. CASE UNCHANGED sequenceVars
    BY <1>1, <2>1, <2>3, SMTT(60) DEF SequenceInv, sequenceVars
  <2>4. CASE /\ home_sequence' = home_sequence + 1
             /\ \A j \in InSequence(home_sequence) :
                  joint[j].home_state = "IDLE" /\ joint[j].at_home
    <3>1. ASSUME NEW j \in Joints,
                 homing_params[j].home_sequence \in 0 .. home_sequence' - 1
          PROVE  Settled(joint[j])
      <4>1. CASE homing_params[j].home_sequence = home_sequence
        BY <2>4, <4>1 DEF InSequence, SequenceInv, AtHomeIsHomed, Settled
      <4>2. CASE homing_params[j].home_sequence # home_sequence
        <5>1. homing_params[j].home_sequence \in 0 .. home_sequence - 1
          BY <1>1, <2>4, <3>1, <4>2, SMTT(30)
        <5> QED BY <2>1, <5>1 DEF SequenceInv
      <4> QED BY <4>1, <4>2, SMTT(60)
    <3> QED BY <1>1, <2>1, <3>1 DEF SequenceInv
  <2> QED BY <1>6, <2>2, <2>3, <2>4, SMTT(60) DEF SequenceWaitJoints
<1> QED BY <1>3, <1>4, <1>5, <1>6, SMTT(60) DEF DoHomingSequence

(* do_homing() disturbs no idle joint. *)
LEMMA SequenceHoming ==
  ASSUME JointsGood, SequenceInv, DoHoming
  PROVE  SequenceInv'
<1>1. CASE HomingSuspended \/ HomingDone
  BY <1>1 DEF HomingSuspended, HomingDone, SequenceInv, homingFrame, sequenceVars
<1>2. CASE HomeIdle
  <2>1. UNCHANGED <<joint, homing_params, home_sequence, homingSequenceState>>
    BY <1>2 DEF HomeIdle, NextPeriod, J, JointsGood, homingFrame, sequenceVars
  <2> QED BY <2>1 DEF SequenceInv
<1>3. CASE ~HomingSuspended /\ ~HomingDone /\ ~HomeIdle
  <2>1. /\ joint_num \in Joints /\ J.home_state # "IDLE"
        /\ UNCHANGED <<homing_params, home_sequence, homingSequenceState>>
    BY <1>3, HomingFrame, ActiveAssumption DEF homingFrame, sequenceVars
  <2>2. PICK r : HomingStep(J, r) /\ joint' = [joint EXCEPT ![joint_num] = r]
    BY <1>3, HomingSteps DEF LoopStep, NextPeriod, Immediately
  <2>3. ASSUME NEW j \in Joints
        PROVE  /\ AtHomeIsHomed(joint'[j])
               /\ Settled(joint[j]) => Settled(joint'[j])
    <3>1. AtHomeIsHomed(joint[j])
      BY DEF SequenceInv
    <3>2. CASE j = joint_num
      <4>1. joint'[j] = r /\ J = joint[j]
        BY <2>2, <3>2 DEF J, JointsGood
      <4> QED BY <2>1, <2>2, <3>1, <4>1 DEF HomingStep, AtHomeIsHomed, Settled
    <3>3. CASE j # joint_num
      BY <2>2, <3>1, <3>3 DEF JointsGood
    <3> QED BY <3>2, <3>3
  <2> QED BY <2>1, <2>3, SequenceKept
<1> QED BY <1>1, <1>2, <1>3, SMTT(60)

LEMMA SequenceNext ==
  ASSUME JointsGood, RestTypeOK, SequenceInv, [Next]_vars,
         kinType # "INVERSE_ONLY", "UNHOME" \notin Commands
  PROVE  SequenceInv'
<1>1. CASE UNCHANGED vars
  BY <1>1 DEF vars, SequenceInv, sequenceVars
<1> QED BY <1>1, SequenceCommand, SequenceControl, SequenceSteps, SequenceHoming,
           SequencePosition, SMTT(60) DEF Next

(* home-all keeps the order of HOME_SEQUENCE: while the joints of one step *)
(* home, every joint of an earlier step is homed.                          *)
THEOREM SequenceInOrderAlways ==
  ASSUME kinType # "INVERSE_ONLY", "UNHOME" \notin Commands
  PROVE  Spec => []SequenceInOrder
<1>1. Inv /\ SequenceInv /\ [Next]_vars => SequenceInv'
  BY InvIsGood, SequenceNext, SMTT(60)
<1>2. SequenceInv => SequenceInOrder
  BY SMTT(60) DEF SequenceInv, SequenceInOrder, InProgress, Settled
<1> QED BY <1>1, <1>2, SequenceInit, Invariance, PTL DEF Spec

-----------------------------------------------------------------------------
(* What a jog forgets, for a user interface that homes one joint at a time *)

(* A joint that is homing while homing_active does not say so yet: from    *)
(* the HOME command to the end of do_homing(), in free mode throughout.    *)
Unreported(j) == joint[j].home_state \notin AtRest /\ ~homing_active

JogJoint(j) ==
  /\ ~motion_enable => joint[j].home_state = "IDLE" /\ ~joint[j].homing
  /\ Unreported(j) => /\ ~coordinating /\ ~teleoperating
                      /\ ~motion_coord /\ ~motion_teleop
                      /\ pc \notin {"command", "get_pos_cmds"}
                      /\ pc # "do_homing" => joint[j].home_state = "START"
  /\ kinType = "INVERSE_ONLY" /\ Jogged(joint[j]) => ~joint[j].homed
  /\ joint[j].home_state \in Locking => ~Jogged(joint[j])
  /\ joint[j].home_state = "FINAL_MOVE_WAIT" /\ Jogged(joint[j]) =>
       \/ joint[j].free_tp_active
       \/ pc = "do_homing" /\ j < joint_num
       \/ pc = "get_pos_cmds" /\ motion_state = "FREE"

(* The modes asked for, outside set_operating_mode() the modes the machine *)
(* is in.                                                                  *)
ModesAgree ==
  IF pc \in Deciding
  THEN teleoperating => (coordinating <=> motion_coord)
  ELSE (coordinating <=> motion_coord) /\ (teleoperating => motion_teleop)

(* A jog that outlives the start of homing is over before the joint locks. *)
JogInv ==
  /\ homingSequenceState = "IDLE"
  /\ ModesAgree
  /\ \A j \in ActiveJoints : JogJoint(j)

LEMMA JogInit == Init => JogInv
BY ActiveAssumption, SMTT(30)
   DEF Init, JogInv, ModesAgree, JogJoint, Unreported, Jogged, Deciding, AtRest, Locking,
       JointInit

(* A command that leaves teleop mode asked for does not change coordinated *)
(* mode.                                                                   *)
LEMMA CommandAsks ==
  ASSUME emcmotCommandHandler, RestTypeOK
  PROVE  teleoperating' => (coordinating' <=> coordinating)
<1>1. CASE NoCommand
  BY <1>1 DEF NoCommand, modeVars, askedVars
<1>2. CASE Free \/ Coord
  BY <1>2 DEF Free, Coord
<1>3. CASE Teleop
  BY <1>3 DEF Teleop
<1>4. CASE Disable \/ Enable
  BY <1>4 DEF Disable, Enable, ModesAfterEnableChange
<1>5. CASE ~(NoCommand \/ Free \/ Coord \/ Teleop \/ Disable \/ Enable)
  <2>1. UNCHANGED askedVars
    BY <1>5 DEF emcmotCommandHandler, Abort, AxisAbort, OverrideLimits, Jog, SetLine, Probe,
                RigidTap, Home, HomeAll, Unhome, UnhomeJoints, ClearProbeFlags,
                SetTeleopVector
  <2> QED BY <2>1, SMTT(60) DEF askedVars
<1> QED BY <1>1, <1>2, <1>3, <1>4, <1>5, SMTT(60)

LEMMA JogCommand ==
  ASSUME JointsGood, RestTypeOK, JogInv, emcmotCommandHandler, "HOME_ALL" \notin Commands
  PROVE  JogInv'
<1>1. /\ pc = "command" /\ pc' = "process_inputs"
      /\ UNCHANGED <<motion_enable, motion_coord, motion_teleop, homing_active>>
  BY CommandFrame
<1>2. homingSequenceState' = "IDLE"
  BY CommandSequence DEF JogInv
<1>3. (coordinating <=> motion_coord) /\ (teleoperating => motion_teleop)
  BY <1>1 DEF JogInv, ModesAgree, Deciding
<1>4. ModesAgree'
  BY <1>1, <1>3, CommandAsks DEF ModesAgree, Deciding
<1>5. ASSUME NEW j \in ActiveJoints PROVE JogJoint(j)'
  <2>1. CommandEffect(joint[j], joint'[j]) /\ JogJoint(j)
    BY CommandJoint, ActiveAssumption, SMTT(60) DEF JogInv
  <2>2. ~Unreported(j)
    BY <1>1, <2>1 DEF JogJoint
  <2>3. motion_state = "FREE" => motion_enable /\ ~motion_coord /\ ~motion_teleop
    BY SMTT(60) DEF motion_state
  <2>4. ~motion_enable => joint'[j].home_state = "IDLE" /\ ~joint'[j].homing
    BY <2>1, <2>3 DEF JogJoint, CommandEffect
  <2>5. ASSUME Unreported(j)'
        PROVE  /\ ~coordinating' /\ ~teleoperating' /\ ~motion_coord /\ ~motion_teleop
               /\ joint'[j].home_state = "START"
    <3>1. /\ joint[j].home_state = "IDLE" /\ joint'[j].home_state = "START"
          /\ motion_state = "FREE" /\ UNCHANGED askedVars
      BY <1>1, <2>1, <2>2, <2>5, SMTT(60) DEF CommandEffect, Unreported, AtRest
    <3> QED BY <1>3, <2>3, <3>1, SMTT(60) DEF askedVars
  <2>6. kinType = "INVERSE_ONLY" /\ Jogged(joint'[j]) => ~joint'[j].homed
    BY <2>1, SMTT(60) DEF JogJoint, CommandEffect, Jogged
  <2>7. ASSUME joint'[j].home_state \in Locking \cup {"FINAL_MOVE_WAIT"}
        PROVE  /\ joint'[j].home_state = joint[j].home_state
               /\ Jogged(joint'[j]) <=> Jogged(joint[j])
    <3>1. joint'[j].home_state = joint[j].home_state
      BY <2>1, <2>7 DEF CommandEffect, Locking
    <3>2. homing_active
      BY <2>2, <2>7, <3>1, SMTT(60) DEF Unreported, Locking, AtRest
    <3> QED BY <2>1, <3>1, <3>2, SMTT(60) DEF CommandEffect, Jogged
  <2>8. joint'[j].home_state \in Locking => ~Jogged(joint'[j])
    BY <2>1, <2>7, SMTT(60) DEF JogJoint
  <2>9. joint'[j].home_state = "FINAL_MOVE_WAIT" /\ Jogged(joint'[j]) =>
          joint'[j].free_tp_active
    BY <1>1, <2>1, <2>7 DEF JogJoint, CommandEffect
  <2> QED BY <1>1, <2>4, <2>5, <2>6, <2>8, <2>9, SMTT(60) DEF JogJoint
<1> QED BY <1>2, <1>4, <1>5 DEF JogInv

LEMMA JogInputs ==
  ASSUME JointsGood, JogInv, ProcessInputs \/ ProcessProbeInputs \/ CheckForFaults
  PROVE  JogInv'
<1>1. /\ pc \in Deciding /\ pc' \in Deciding
      /\ UNCHANGED <<coordinating, teleoperating, motion_enable, motion_coord, motion_teleop,
                     homing_active, homingSequenceState>>
  BY DEF ProcessInputs, ProcessProbeInputs, CheckForFaults, modeVars, askedVars,
         sequenceVars, Deciding
<1>2. ModesAgree'
  BY <1>1, SMTT(60) DEF JogInv, ModesAgree
<1>3. ASSUME NEW j \in ActiveJoints PROVE JogJoint(j)'
  <2>1. /\ SameStatus(joint[j], joint'[j]) /\ JogJoint(j)
        /\ \/ joint'[j].home_state = joint[j].home_state
           \/ joint[j].homing /\ joint'[j].home_state = "ABORT"
    BY InputJoint, ActiveAssumption, SMTT(60) DEF JogInv
  <2>2. Jogged(joint'[j]) <=> Jogged(joint[j])
    BY <2>1, SMTT(60) DEF SameStatus, Jogged
  <2>3. Unreported(j)' => Unreported(j) /\ joint'[j].home_state = joint[j].home_state
    BY <1>1, <2>1 DEF Unreported, AtRest
  <2>4. pc # "do_homing" /\ pc # "get_pos_cmds" /\ pc' \notin {"command", "get_pos_cmds"}
    BY <1>1 DEF Deciding
  <2> QED BY <1>1, <2>1, <2>2, <2>3, <2>4, SMTT(60) DEF JogJoint, SameStatus, Locking
<1> QED BY <1>1, <1>2, <1>3, SMTT(60) DEF JogInv

LEMMA JogMode ==
  ASSUME JointsGood, RestTypeOK, JogInv, SetOperatingMode
  PROVE  JogInv'
<1>1. /\ pc = "set_operating_mode" /\ pc' = "handle_jogwheels"
      /\ UNCHANGED <<homing_active, homingSequenceState>>
      /\ motion_enable' = enabling
  BY DEF SetOperatingMode, sequenceVars
<1>2. teleoperating => (coordinating <=> motion_coord)
  BY <1>1 DEF JogInv, ModesAgree, Deciding
<1>3. ModesAgree'
  <2>1. coordinating' <=> motion_coord'
    BY <1>2 DEF SetOperatingMode, EnteringCoord, EnteringFree, AskingTeleop,
                       RestTypeOK, ModesTypeOK
  <2>2. teleoperating' => motion_teleop'
    BY <1>2 DEF SetOperatingMode, EnteringTeleop, LeavingTeleop, EnteringCoord,
                       EnteringFree, AskingTeleop
  <2> QED BY <1>1, <2>1, <2>2 DEF ModesAgree, Deciding
<1>4. ASSUME ~coordinating, ~teleoperating, ~motion_coord, ~motion_teleop
      PROVE  ~coordinating' /\ ~teleoperating' /\ ~motion_coord' /\ ~motion_teleop'
  BY <1>4 DEF SetOperatingMode, EnteringTeleop, EnteringCoord, AskingTeleop
<1>5. ASSUME NEW j \in ActiveJoints PROVE JogJoint(j)'
  <2> DEFINE switched == j \in ActiveJoints /\ (enabling # motion_enable)
  <2>1. JogJoint(j) /\ j \in Joints
    BY ActiveAssumption, SMTT(60) DEF JogInv
  <2>2. /\ joint'[j].homed = joint[j].homed /\ Jogged(joint'[j]) = Jogged(joint[j])
        /\ joint'[j].free_tp_active = joint[j].free_tp_active
        /\ switched => joint'[j].home_state = "IDLE" /\ ~joint'[j].homing
        /\ ~switched => joint'[j].home_state = joint[j].home_state
                          /\ joint'[j].homing = joint[j].homing
    BY <2>1, ModeJoint, SMTT(60) DEF Jogged
  <2>3. CASE switched
    <3>1. joint'[j].home_state = "IDLE" /\ ~joint'[j].homing
      BY <2>2, <2>3, SMTT(60)
    <3> QED BY <2>1, <2>2, <3>1, SMTT(60) DEF JogJoint, Unreported, AtRest, Locking
  <2>4. CASE ~switched
    <3>1. joint'[j].home_state = joint[j].home_state /\ joint'[j].homing = joint[j].homing
      BY <2>2, <2>4
    <3>2. motion_enable' = motion_enable
      BY <1>1, <2>4, SMTT(60)
    <3>3. Unreported(j)' => Unreported(j)
      BY <1>1, <3>1 DEF Unreported
    <3> HIDE DEF switched
    <3>4. Jogged(joint[j])' = Jogged(joint[j])
      BY <2>2 DEF Jogged
    <3>5. Unreported(j)' => /\ ~coordinating' /\ ~teleoperating'
                            /\ ~motion_coord' /\ ~motion_teleop'
                            /\ joint'[j].home_state = "START"
      BY <1>1, <1>4, <2>1, <3>1, <3>3, SMTT(60) DEF JogJoint
    <3>6. joint'[j].home_state = "FINAL_MOVE_WAIT" /\ Jogged(joint'[j]) =>
            joint'[j].free_tp_active
      BY <1>1, <2>1, <2>2, <3>1, SMTT(60) DEF JogJoint
    <3>7. pc' \notin {"command", "get_pos_cmds"}
      BY <1>1
    <3> QED BY <2>1, <2>2, <3>1, <3>2, <3>4, <3>5, <3>6, <3>7, SMTT(60) DEF JogJoint
  <2> QED BY <2>3, <2>4
<1> QED BY <1>1, <1>3, <1>5, SMTT(60) DEF JogInv

LEMMA JogWheels ==
  ASSUME JointsGood, JogInv, HandleJogwheels
  PROVE  JogInv'
<1>1. /\ pc = "handle_jogwheels" /\ pc' = "do_homing_sequence"
      /\ UNCHANGED <<coordinating, teleoperating, motion_enable, motion_coord, motion_teleop,
                     homing_active, homingSequenceState>>
  BY DEF HandleJogwheels, modeVars, askedVars, sequenceVars
<1>2. ModesAgree'
  BY <1>1, SMTT(60) DEF JogInv, ModesAgree, Deciding
<1>3. ASSUME NEW j \in ActiveJoints PROVE JogJoint(j)'
  <2>1. WheelEffect(joint[j], joint'[j]) /\ JogJoint(j)
    BY WheelJoint, ActiveAssumption, SMTT(60) DEF JogInv
  <2>2. /\ joint'[j].home_state = joint[j].home_state
        /\ joint'[j].homing = joint[j].homing
        /\ joint'[j].free_tp_active = joint[j].free_tp_active
        /\ Unreported(j)' <=> Unreported(j)
    BY <1>1, <2>1, SMTT(60) DEF WheelEffect, Unreported
  <2>3. ASSUME joint[j].home_state \in Locking \cup {"FINAL_MOVE_WAIT"}
        PROVE  Jogged(joint'[j]) <=> Jogged(joint[j])
    <3>1. homing_active
      BY <1>1, <2>1, <2>3, SMTT(60) DEF JogJoint, Unreported, Locking, AtRest
    <3> QED BY <2>1, <3>1, SMTT(60) DEF WheelEffect, Jogged
  <2>4. kinType = "INVERSE_ONLY" /\ Jogged(joint'[j]) => ~joint'[j].homed
    BY <2>1 DEF JogJoint, WheelEffect, Jogged
  <2> QED BY <1>1, <2>1, <2>2, <2>3, <2>4 DEF JogJoint
<1> QED BY <1>1, <1>2, <1>3, SMTT(60) DEF JogInv

LEMMA JogSequence ==
  ASSUME JogInv, DoHomingSequence
  PROVE  JogInv'
<1>1. SequenceIdle
  BY DEF JogInv, DoHomingSequence, SequenceStart, SequenceStartJoints, SequenceWaitJoints
<1>2. /\ pc = "do_homing_sequence" /\ pc' = "do_homing"
      /\ UNCHANGED <<joint, coordinating, teleoperating, motion_enable, motion_coord,
                     motion_teleop, homing_active, homingSequenceState>>
  BY <1>1 DEF SequenceIdle, EnterDoHoming, homingFrame, modeVars, askedVars, sequenceVars
<1>3. ModesAgree'
  BY <1>2, SMTT(60) DEF JogInv, ModesAgree, Deciding
<1>4. ASSUME NEW j \in ActiveJoints PROVE JogJoint(j)'
  <2>1. JogJoint(j) /\ (Unreported(j)' <=> Unreported(j))
    BY <1>2 DEF JogInv, Unreported
  <2> QED BY <1>2, <2>1 DEF JogJoint
<1> QED BY <1>2, <1>3, <1>4, SMTT(60) DEF JogInv

LEMMA JogHoming ==
  ASSUME JointsGood, RestTypeOK, HomingCovered, JogInv, DoHoming
  PROVE  JogInv'
<1>1. /\ pc = "do_homing" /\ pc' \in {"do_homing", "get_pos_cmds"}
      /\ UNCHANGED <<modeVars, homingSequenceState>>
  BY HomingFrame DEF HomingSuspended, HomingDone, homingFrame, sequenceVars
<1>2. UNCHANGED <<coordinating, teleoperating, motion_enable, motion_coord, motion_teleop>>
  BY <1>1 DEF modeVars, askedVars
<1>3. ModesAgree' /\ motion_state' = motion_state
  BY <1>1, <1>2, SameState DEF JogInv, ModesAgree, Deciding
<1>4. ASSUME NEW j \in ActiveJoints PROVE JogJoint(j)'
  <2>1. JogJoint(j) /\ j \in Joints /\ j \in 0 .. NumJoints - 1
    BY ActiveAssumption DEF JogInv, Joints
  <2>2. NumJoints \in Nat /\ joint_num \in 0 .. NumJoints
    BY NumJointsAssumption DEF RestTypeOK, LoopTypeOK
  <2>3. CASE HomingSuspended
    <3>1. /\ motion_state # "FREE" /\ joint_num = 0 /\ UNCHANGED <<joint, homing_active>>
          /\ pc' = "get_pos_cmds"
      BY <2>3 DEF HomingSuspended, sequenceVars, RestTypeOK, LoopTypeOK
    <3>2. ~motion_coord /\ ~motion_teleop => ~motion_enable
      BY <3>1, SMTT(60) DEF motion_state
    <3>3. ~Unreported(j)
      BY <2>1, <3>2 DEF JogJoint, Unreported, AtRest
    <3>4. ~Unreported(j)'
      BY <3>1, <3>3 DEF Unreported
    <3>5. ~(j < joint_num)
      BY <2>1, <3>1, SMTT(60)
    <3> QED BY <1>1, <1>2, <2>1, <3>1, <3>4, <3>5 DEF JogJoint
  <2>4. CASE HomingDone
    <3>1. /\ motion_state = "FREE" /\ joint_num = NumJoints /\ UNCHANGED joint
          /\ pc' = "get_pos_cmds" /\ homing_active' = homing_flag
      BY <2>4 DEF HomingDone, JogInv, RestTypeOK, LoopTypeOK
    <3>2. j < joint_num
      BY <2>1, <2>2, <3>1, SMTT(30)
    <3>3. joint[j].home_state # "IDLE" => homing_flag
      BY <1>1, <3>1, <3>2 DEF HomingCovered
    <3>4. ~Unreported(j)'
      BY <3>1, <3>3 DEF Unreported, AtRest
    <3> QED BY <1>2, <1>3, <2>1, <3>1, <3>4, SMTT(60) DEF JogJoint
  <2>5. CASE HomeIdle
    <3>1. /\ joint' = joint /\ joint_num' = joint_num + 1 /\ pc' = "do_homing"
          /\ UNCHANGED homing_active
      BY <1>1, <2>5 DEF HomeIdle, NextPeriod, J, JointsGood, sequenceVars
    <3>2. j < joint_num => j < joint_num'
      BY <2>1, <2>2, <3>1, SMTT(30)
    <3>3. Unreported(j)' <=> Unreported(j)
      BY <3>1 DEF Unreported
    <3> QED BY <1>1, <1>2, <2>1, <3>1, <3>2, <3>3, SMTT(60) DEF JogJoint
  <2>6. CASE ~HomingSuspended /\ ~HomingDone /\ ~HomeIdle
    <3>1. /\ pc' = "do_homing" /\ motion_state = "FREE" /\ joint_num \in ActiveJoints
          /\ UNCHANGED homing_active
      BY <2>6, HomingFrame DEF sequenceVars
    <3>2. motion_enable
      BY <3>1 DEF motion_state
    <3>3. PICK r : /\ HomingStep(J, r) /\ joint' = [joint EXCEPT ![joint_num] = r]
                   /\ \/ joint_num' = joint_num + 1
                      \/ joint_num' = joint_num /\ r.home_state # "FINAL_MOVE_WAIT"
      BY <2>6, HomingSteps DEF LoopStep, NextPeriod, Immediately
    <3>4. CASE j = joint_num
      <4>1. joint'[j] = r /\ J = joint[j]
        BY <2>1, <3>3, <3>4, SMTT(60) DEF J, JointsGood
      <4>2. Jogged(joint'[j]) <=> Jogged(joint[j])
        BY <3>3, <4>1, SMTT(60) DEF HomingStep, Jogged
      <4>3. Unreported(j)' => Unreported(j)
        BY <3>1, <3>3, <4>1, SMTT(60) DEF HomingStep, Unreported
      <4>4. kinType = "INVERSE_ONLY" /\ Jogged(joint'[j]) => ~joint'[j].homed
        BY <2>1, <3>3, <4>1, <4>2, SMTT(60) DEF HomingStep, JogJoint, Locking
      <4>5. joint'[j].home_state \in Locking => ~Jogged(joint'[j])
        <5>1. ~(j < joint_num)
          BY <2>1, <3>4, SMTT(30)
        <5> QED BY <1>1, <2>1, <3>3, <4>1, <4>2, <5>1, SMTT(60) DEF HomingStep, JogJoint
      <4>6. joint'[j].home_state = "FINAL_MOVE_WAIT" => j < joint_num'
        BY <2>1, <3>3, <3>4, <4>1, SMTT(60)
      <4> QED BY <1>2, <2>1, <3>1, <3>2, <4>3, <4>4, <4>5, <4>6 DEF JogJoint
    <3>5. CASE j # joint_num
      <4>1. joint'[j] = joint[j]
        BY <2>1, <3>3, <3>5 DEF JointsGood
      <4>2. j < joint_num => j < joint_num'
        BY <2>1, <2>2, <3>3, SMTT(30)
      <4>3. Unreported(j)' <=> Unreported(j)
        BY <3>1, <4>1 DEF Unreported
      <4> QED BY <1>1, <1>2, <2>1, <3>1, <4>1, <4>2, <4>3 DEF JogJoint
    <3> QED BY <3>4, <3>5
  <2> QED BY <2>3, <2>4, <2>5, <2>6
<1> QED BY <1>1, <1>3, <1>4, SMTT(60) DEF JogInv

LEMMA JogPosition ==
  ASSUME JointsGood, JogInv, FreePosCmds \/ CoordPosCmds \/ TeleopPosCmds \/ DisabledPosCmds
  PROVE  JogInv'
<1>1. /\ pc = "get_pos_cmds" /\ pc' = "command"
      /\ UNCHANGED <<coordinating, teleoperating, motion_enable, motion_coord, motion_teleop,
                     homing_active, homingSequenceState>>
  BY DEF FreePosCmds, CoordPosCmds, TeleopPosCmds, DisabledPosCmds, modeVars, askedVars,
         sequenceVars
<1>2. ModesAgree'
  BY <1>1 DEF JogInv, ModesAgree, Deciding
<1>3. ~FreePosCmds => motion_state # "FREE"
  BY DEF CoordPosCmds, TeleopPosCmds, DisabledPosCmds
<1>4. ASSUME NEW j \in ActiveJoints PROVE JogJoint(j)'
  <2>1. JogJoint(j) /\ j \in Joints
    BY ActiveAssumption, SMTT(60) DEF JogInv
  <2>2. /\ joint'[j].home_state = joint[j].home_state /\ joint'[j].homing = joint[j].homing
        /\ joint'[j].homed = joint[j].homed
        /\ Jogged(joint'[j]) => Jogged(joint[j])
        /\ FreePosCmds /\ Jogged(joint'[j]) => joint'[j].free_tp_active
        /\ ~FreePosCmds => joint'[j].free_tp_active = joint[j].free_tp_active
    BY <2>1, PlannerJoint, SMTT(60) DEF Jogged
  <2>3. ~Unreported(j)'
    BY <1>1, <2>1, <2>2, SMTT(60) DEF JogJoint, Unreported
  <2>4. joint[j].home_state = "FINAL_MOVE_WAIT" /\ Jogged(joint'[j]) =>
          joint'[j].free_tp_active
    BY <1>1, <1>3, <2>1, <2>2, SMTT(60) DEF JogJoint
  <2> QED BY <1>1, <2>1, <2>2, <2>3, <2>4 DEF JogJoint
<1> QED BY <1>1, <1>2, <1>4 DEF JogInv

LEMMA JogNext ==
  ASSUME JointsGood, RestTypeOK, HomingCovered, JogInv, [Next]_vars,
         "HOME_ALL" \notin Commands
  PROVE  JogInv'
<1>1. CASE UNCHANGED vars
  <2>1. /\ UNCHANGED <<pc, joint, homing_active, homingSequenceState, joint_num,
                       coordinating, teleoperating, motion_enable, motion_coord,
                       motion_teleop>>
        /\ motion_state' = motion_state
    BY <1>1, SameState DEF vars, modeVars, askedVars, sequenceVars, loopVars
  <2> QED BY <2>1 DEF JogInv, ModesAgree, JogJoint, Unreported
<1> QED BY <1>1, JogCommand, JogInputs, JogMode, JogWheels, JogSequence, JogHoming,
           JogPosition, SMTT(60) DEF Next

(* Without forward kinematics a joint that is being jogged is not homed:   *)
(* the jog clears the flag, and homing, which may begin before the jog has *)
(* ended, cannot set it again until the joint has come to rest.            *)
THEOREM JogForgetsHomeAlways ==
  ASSUME "HOME_ALL" \notin Commands
  PROVE  Spec => []JogForgetsHome
<1>1. Inv /\ JogInv /\ [Next]_vars => JogInv'
  BY InvIsGood, JogNext, SMTT(60)
<1>2. JogInv => JogForgetsHome
  BY DEF JogInv, JogJoint, JogForgetsHome, Jogged
<1> QED BY <1>1, <1>2, JogInit, Invariance, PTL DEF Spec

=============================================================================
