--------------------------- MODULE RehomingProofs ---------------------------
(***************************************************************************)
(* On a machine without forward kinematics, joints that a jog has led      *)
(* astray are homed again before coordinated or teleop mode, for every     *)
(* number of joints and every way in which user space mixes jogs, moves,   *)
(* homing and mode changes, rigid tapping excepted.                        *)
(***************************************************************************)
EXTENDS Rehoming, MotionProofs

(* A leaf that names no prover is Zenon's. *)
USE ZenonT(40)

(* What moves all the joints has set rehomeAll. *)
Marked ==
  ~tp.done \/ teleop_vel.desired \/ teleop_vel.current => rehomeAll

(* The way into coordinated and teleop mode is closed: a look at the       *)
(* joints is needed, and no request that passed one is on its way.         *)
Barred ==
  /\ ~allHomed
  /\ coordinating => motion_coord
  /\ teleoperating => motion_teleop

RehomingInv ==
  /\ ModesAgree
  /\ Marked /\ (travelled => rehomeAll)
  /\ astray \subseteq Joints /\ \A j \in astray : ~joint[j].homed
  /\ astray \cap ActiveJoints # {} => Barred

LEMMA RehomingStart == RehomingInit => RehomingInv
BY SMTT(60) DEF RehomingInit, Init, RehomingInv, ModesAgree, Deciding, Marked

-----------------------------------------------------------------------------
(* The modes asked for are those the machine is in, except on the way from *)
(* the command handler to set_operating_mode().                            *)
LEMMA ModesAgreeNext ==
  ASSUME RestTypeOK, ModesAgree, Next
  PROVE  ModesAgree'
<1>1. CASE emcmotCommandHandler
  <2>1. /\ pc = "command" /\ pc' = "process_inputs"
        /\ UNCHANGED <<motion_coord, motion_teleop>>
    BY <1>1, CommandFrame
  <2>2. coordinating <=> motion_coord
    BY <2>1 DEF ModesAgree, Deciding
  <2> QED BY <1>1, <2>1, <2>2, CommandAsks DEF ModesAgree, Deciding
<1>2. CASE ProcessInputs \/ ProcessProbeInputs \/ CheckForFaults
  <2>1. /\ pc \in Deciding /\ pc' \in Deciding
        /\ UNCHANGED <<coordinating, teleoperating, motion_coord, motion_teleop>>
    BY <1>2 DEF ProcessInputs, ProcessProbeInputs, CheckForFaults, modeVars, askedVars,
                Deciding
  <2> QED BY <2>1 DEF ModesAgree
<1>3. CASE SetOperatingMode
  <2>1. /\ pc' = "handle_jogwheels"
        /\ teleoperating => (coordinating <=> motion_coord)
    BY <1>3 DEF SetOperatingMode, ModesAgree, Deciding
  <2>2. coordinating' <=> motion_coord'
    BY <1>3, <2>1 DEF SetOperatingMode, EnteringCoord, EnteringFree, AskingTeleop,
                      RestTypeOK, ModesTypeOK
  <2>3. teleoperating' => motion_teleop'
    BY <1>3, <2>1 DEF SetOperatingMode, EnteringTeleop, LeavingTeleop, EnteringCoord,
                      EnteringFree, AskingTeleop
  <2> QED BY <2>1, <2>2, <2>3 DEF ModesAgree, Deciding
<1>4. ASSUME pc \notin Deciding, pc' \notin Deciding, UNCHANGED modeVars
      PROVE  ModesAgree'
  BY <1>4 DEF ModesAgree, modeVars, askedVars
<1>5. CASE HandleJogwheels \/ DoHomingSequence
  BY <1>4, <1>5 DEF HandleJogwheels, DoHomingSequence, SequenceIdle, SequenceStart,
                    SequenceStartJoints, SequenceWaitJoints, EnterDoHoming, homingFrame,
                    Deciding
<1>6. CASE DoHoming
  <2>1. pc = "do_homing" /\ pc' \in {"do_homing", "get_pos_cmds"} /\ UNCHANGED modeVars
    BY <1>6, HomingFrame DEF HomingSuspended, HomingDone, homingFrame
  <2> QED BY <1>4, <2>1 DEF Deciding
<1>7. CASE FreePosCmds \/ CoordPosCmds \/ TeleopPosCmds \/ DisabledPosCmds
  BY <1>4, <1>7 DEF FreePosCmds, CoordPosCmds, TeleopPosCmds, DisabledPosCmds, Deciding
<1> QED BY <1>1, <1>2, <1>3, <1>5, <1>6, <1>7 DEF Next

(* rehomeAll is never reset, and every command that starts a coordinated   *)
(* or teleop move sets it, RIGID_TAP excepted.                             *)
LEMMA MarkedNext ==
  ASSUME RestTypeOK, Marked, Next, "RIGID_TAP" \notin Commands
  PROVE  Marked' /\ (rehomeAll => rehomeAll')
<1>1. /\ tp \in [done : BOOLEAN, synced : BOOLEAN]
      /\ teleop_vel \in [desired : BOOLEAN, current : BOOLEAN]
  BY DEF RestTypeOK, PlannerTypeOK
<1>2. ASSUME UNCHANGED <<tp, teleop_vel, rehomeAll>>
      PROVE  Marked' /\ (rehomeAll => rehomeAll')
  BY <1>2 DEF Marked
<1>3. ASSUME rehomeAll'
      PROVE  Marked' /\ (rehomeAll => rehomeAll')
  BY <1>3 DEF Marked
<1>4. ASSUME UNCHANGED <<teleop_vel, rehomeAll>>, tp.done => tp'.done
      PROVE  Marked' /\ (rehomeAll => rehomeAll')
  BY <1>4 DEF Marked
<1>5. CASE emcmotCommandHandler
  <2>1. CASE SetLine \/ Probe \/ SetTeleopVector
    BY <1>3, <2>1 DEF SetLine, Probe, SetTeleopVector
  <2>2. CASE Abort
    <3>1. UNCHANGED <<tp, rehomeAll>>
      BY <2>2 DEF Abort
    <3>2. teleop_vel'.current = teleop_vel.current /\ (teleop_vel'.desired => teleop_vel.desired)
      BY <1>1, <2>2 DEF Abort
    <3> QED BY <3>1, <3>2 DEF Marked
  <2>3. ~RigidTap
    BY DEF RigidTap, Command
  <2>4. CASE NoCommand \/ AxisAbort \/ Free \/ Coord \/ Teleop \/ OverrideLimits \/ Jog
               \/ Disable \/ Enable \/ Home \/ HomeAll \/ Unhome \/ ClearProbeFlags
    BY <1>2, <2>4 DEF NoCommand, AxisAbort, Free, Coord, Teleop, OverrideLimits, Jog,
                      Disable, Enable, Home, HomeAll, Unhome, UnhomeJoints, ClearProbeFlags
  <2> QED BY <1>5, <2>1, <2>2, <2>3, <2>4 DEF emcmotCommandHandler
<1>6. CASE ProcessInputs \/ ProcessProbeInputs \/ CheckForFaults \/ HandleJogwheels
             \/ DoHomingSequence
  BY <1>2, <1>6 DEF ProcessInputs, ProcessProbeInputs, CheckForFaults, HandleJogwheels,
                    DoHomingSequence, SequenceIdle, SequenceStart, SequenceStartJoints,
                    SequenceWaitJoints, EnterDoHoming, homingFrame
<1>7. CASE SetOperatingMode
  <2>1. /\ rehomeAll' = rehomeAll
        /\ tp'.done <=> tp.done \/ (motion_enable /\ ~enabling)
    BY <1>7 DEF SetOperatingMode
  <2>2. CASE EnteringTeleop
    <3>1. ~teleop_vel'.desired /\ ~teleop_vel'.current
      BY <1>7, <2>2 DEF SetOperatingMode
    <3> QED BY <2>1, <3>1 DEF Marked
  <2>3. CASE ~EnteringTeleop
    <3>1. UNCHANGED teleop_vel
      BY <1>7, <2>3 DEF SetOperatingMode
    <3> QED BY <1>4, <2>1, <3>1
  <2> QED BY <2>2, <2>3
<1>8. CASE DoHoming
  BY <1>2, <1>8, HomingFrame DEF HomingSuspended, HomingDone, homingFrame
<1>9. CASE FreePosCmds \/ CoordPosCmds \/ DisabledPosCmds
  <2>1. \/ \E b : tp' = [tp EXCEPT !.synced = b]
        \/ \E d : (tp.done => d) /\ tp' = [done |-> d, synced |-> TRUE]
    BY <1>9 DEF FreePosCmds, CoordPosCmds, DisabledPosCmds
  <2>2. tp.done => tp'.done
    <3>1. CASE \E b : tp' = [tp EXCEPT !.synced = b]
      BY <1>1, <3>1
    <3>2. CASE \E d : (tp.done => d) /\ tp' = [done |-> d, synced |-> TRUE]
      <4>1. PICK d : (tp.done => d) /\ tp' = [done |-> d, synced |-> TRUE]
        BY <3>2
      <4>2. tp'.done = d
        BY <4>1
      <4> QED BY <4>1, <4>2
    <3> QED BY <2>1, <3>1, <3>2
  <2> QED BY <1>4, <1>9, <2>2 DEF FreePosCmds, CoordPosCmds, DisabledPosCmds
<1>10. CASE TeleopPosCmds
  <2>1. PICK c, b : /\ c => teleop_vel.desired \/ teleop_vel.current
                    /\ teleop_vel' = [teleop_vel EXCEPT !.current = c]
                    /\ tp' = [tp EXCEPT !.synced = b]
    BY <1>10 DEF TeleopPosCmds
  <2>2. /\ tp'.done = tp.done /\ teleop_vel'.desired = teleop_vel.desired
        /\ teleop_vel'.current = c
    BY <1>1, <2>1
  <2>3. rehomeAll' = rehomeAll
    BY <1>10 DEF TeleopPosCmds
  <2> QED BY <2>1, <2>2, <2>3 DEF Marked
<1> QED BY <1>5, <1>6, <1>7, <1>8, <1>9, <1>10 DEF Next

-----------------------------------------------------------------------------
(* The start of a jog clears the joint's homed flag, once all the joints   *)
(* have travelled everybody's, and the cached allHomed with them; it is    *)
(* never the step of a mode change.                                        *)
JogClearing(k) ==
  /\ ~allHomed' /\ ~joint'[k].homed
  /\ rehomeAll => \A j \in Joints : ~joint'[j].homed
  /\ pc \notin Deciding
  /\ UNCHANGED <<coordinating, teleoperating, motion_coord, motion_teleop>>

LEMMA JogClears ==
  ASSUME JointsGood, RestTypeOK, Next, kinType = "INVERSE_ONLY",
         NEW k, k \in JogStarts
  PROVE  JogClearing(k)
<1>1. k \in Joints
  BY DEF JogStarts
<1>2. ~(/\ joint'[k].kb_jog_active => joint[k].kb_jog_active
        /\ joint'[k].wheel_jog_active => joint[k].wheel_jog_active)
  BY DEF JogStarts
<1>3. ASSUME NEW j \in Joints PROVE joint[j] \in JointType
  BY DEF JointsGood, GoodJoint
<1>4. CASE emcmotCommandHandler
  <2>1. CommandEffect(joint[k], joint'[k])
    BY <1>1, <1>4, CommandJoint
  <2>2. Jog /\ ~joint'[k].homed
    BY <1>2, <2>1 DEF CommandEffect
  <2>3. ASSUME rehomeAll, NEW j \in Joints PROVE ~joint'[j].homed
    <3>1. PICK i \in Joints :
            joint' = clearHomes([joint EXCEPT ![i].kb_jog_active = TRUE,
                                              ![i].free_tp_enable = TRUE], {i})
      BY <2>2 DEF Jog
    <3> DEFINE js == [joint EXCEPT ![i].kb_jog_active = TRUE, ![i].free_tp_enable = TRUE]
    <3>2. js[j] \in JointType
      BY <1>3, <3>1 DEF JointsGood, JointType
    <3> HIDE DEF js
    <3>3. joint'[j] = [js[j] EXCEPT !.homed = FALSE]
      BY <2>3, <3>1, SMTT(30) DEF clearHomes, js
    <3> QED BY <3>2, <3>3 DEF JointType
  <2>4. /\ ~allHomed' /\ pc = "command" /\ UNCHANGED askedVars
        /\ UNCHANGED <<motion_coord, motion_teleop>>
    BY <2>2 DEF Jog, Command
  <2> QED BY <2>2, <2>3, <2>4 DEF JogClearing, Deciding, askedVars
<1>5. CASE HandleJogwheels
  <2>1. WheelEffect(joint[k], joint'[k])
    BY <1>1, <1>5, WheelJoint
  <2>2. ~joint'[k].homed /\ joint'[k].wheel_jog_active /\ ~joint[k].wheel_jog_active
    BY <1>2, <2>1 DEF WheelEffect
  <2>3. PICK moved :
          /\ joint' = clearHomes(
                        [j \in Joints |->
                           IF j \in moved
                           THEN [joint[j] EXCEPT !.wheel_jog_active = TRUE,
                                                 !.free_tp_enable = TRUE]
                           ELSE joint[j]], moved)
          /\ allHomed' = (allHomed /\ moved = {})
    BY <1>5 DEF HandleJogwheels
  <2> DEFINE w(j) == IF j \in moved
                     THEN [joint[j] EXCEPT !.wheel_jog_active = TRUE,
                                           !.free_tp_enable = TRUE]
                     ELSE joint[j]
  <2>4. ASSUME NEW j \in Joints
        PROVE  joint'[j] = IF moved # {} /\ (rehomeAll \/ j \in moved)
                           THEN [w(j) EXCEPT !.homed = FALSE] ELSE w(j)
    BY <2>3, <2>4 DEF clearHomes
  <2>5. ASSUME NEW j \in Joints PROVE w(j) \in JointType
    BY <1>3, <2>5 DEF JointType
  <2>6. k \in moved
    <3>1. SUFFICES ASSUME k \notin moved PROVE FALSE
      OBVIOUS
    <3>2. joint'[k] = joint[k] \/ joint'[k] = [joint[k] EXCEPT !.homed = FALSE]
      BY <1>1, <2>4, <3>1
    <3>3. joint'[k].wheel_jog_active = joint[k].wheel_jog_active
      BY <1>1, <1>3, <3>2 DEF JointType
    <3> QED BY <2>2, <3>3
  <2>7. ASSUME rehomeAll, NEW j \in Joints PROVE ~joint'[j].homed
    <3>1. joint'[j] = [w(j) EXCEPT !.homed = FALSE] /\ w(j) \in JointType
      BY <2>4, <2>5, <2>6, <2>7
    <3> HIDE DEF w
    <3> QED BY <3>1 DEF JointType
  <2>8. /\ ~allHomed' /\ pc = "handle_jogwheels" /\ UNCHANGED modeVars
    BY <1>5, <2>3, <2>6 DEF HandleJogwheels
  <2> QED BY <2>2, <2>7, <2>8 DEF JogClearing, Deciding, modeVars, askedVars
<1>6. CASE ProcessInputs \/ ProcessProbeInputs \/ CheckForFaults
  BY <1>1, <1>2, <1>6, InputJoint DEF SameStatus
<1>7. CASE SetOperatingMode
  BY <1>1, <1>2, <1>7, ModeJoint
<1>8. CASE FreePosCmds \/ CoordPosCmds \/ TeleopPosCmds \/ DisabledPosCmds
  BY <1>1, <1>2, <1>8, PlannerJoint
<1>9. CASE DoHomingSequence
  <2>1. UNCHANGED joint \/ \E S : joint' = PrimeHoming(S)
    BY <1>9 DEF DoHomingSequence, SequenceIdle, SequenceStart, SequenceStartJoints,
                SequenceWaitJoints, StartJoints
  <2> QED BY <1>1, <1>2, <2>1, SequenceJoint DEF SameStatus
<1>10. CASE DoHoming
  <2>1. CASE HomingSuspended \/ HomingDone \/ HomeIdle
    BY <1>2, <2>1 DEF HomingSuspended, HomingDone, HomeIdle, NextPeriod, J, JointsGood
  <2>2. CASE ~HomingSuspended /\ ~HomingDone /\ ~HomeIdle
    <3>1. joint_num \in Joints
      BY <1>10, <2>2, HomingFrame, ActiveAssumption
    <3>2. PICK r : HomingStep(J, r) /\ joint' = [joint EXCEPT ![joint_num] = r]
      BY <1>10, <2>2, HomingSteps DEF LoopStep, NextPeriod, Immediately
    <3>3. \/ joint'[k] = joint[k]
          \/ joint'[k] = r /\ joint[k] = J
      BY <1>1, <3>1, <3>2 DEF J, JointsGood
    <3> QED BY <1>2, <3>2, <3>3 DEF HomingStep
  <2> QED BY <2>1, <2>2
<1> QED BY <1>4, <1>5, <1>6, <1>7, <1>8, <1>9, <1>10 DEF Next

(* While a joint is not homed and the cache does not claim otherwise,      *)
(* nothing opens the way: COORD and TELEOP look at the joints.             *)
LEMMA BarredNext ==
  ASSUME RestTypeOK, ModesAgree, Next, kinType = "INVERSE_ONLY", Barred,
         ~checkAllHomed
  PROVE  Barred'
<1>1. ASSUME UNCHANGED modeVars, allHomed' => allHomed PROVE Barred'
  BY <1>1 DEF Barred, modeVars, askedVars
<1>2. CASE emcmotCommandHandler
  <2>1. UNCHANGED <<motion_coord, motion_teleop>>
    BY <1>2, CommandFrame
  <2>2. CASE Coord \/ Teleop
    <3>1. ~KinematicsReady /\ ~AskAllHomed
      BY DEF KinematicsReady, AskAllHomed
    <3>2. CASE Coord
      <4>1. ~allHomed' /\ ~teleoperating' /\ ~coordinating'
        BY <3>1, <3>2 DEF Coord
      <4> QED BY <4>1 DEF Barred
    <3>3. CASE Teleop
      <4>1. ~allHomed' /\ ~teleoperating' /\ coordinating' = coordinating
        BY <3>1, <3>3 DEF Teleop
      <4> QED BY <2>1, <4>1 DEF Barred
    <3> QED BY <2>2, <3>2, <3>3
  <2>3. CASE Free \/ Disable \/ Enable
    <3>1. ~coordinating' /\ ~teleoperating' /\ allHomed' = allHomed
      BY <2>3 DEF Free, Disable, Enable, ModesAfterEnableChange
    <3> QED BY <3>1 DEF Barred
  <2>4. CASE ~(Coord \/ Teleop \/ Free \/ Disable \/ Enable)
    <3>1. CASE NoCommand
      BY <1>1, <3>1 DEF NoCommand
    <3>2. CASE Jog
      <4>1. ~allHomed' /\ UNCHANGED askedVars
        BY <3>2 DEF Jog
      <4> QED BY <2>1, <4>1 DEF Barred, askedVars
    <3>3. CASE ~(NoCommand \/ Jog)
      <4>1. UNCHANGED <<askedVars, allHomed>>
        BY <1>2, <2>4, <3>3 DEF emcmotCommandHandler, Abort, AxisAbort, OverrideLimits,
             SetLine, Probe, RigidTap, Home, HomeAll, Unhome, UnhomeJoints,
             ClearProbeFlags, SetTeleopVector
      <4> QED BY <2>1, <4>1 DEF Barred, askedVars
    <3> QED BY <3>1, <3>2, <3>3
  <2> QED BY <2>2, <2>3, <2>4
<1>3. CASE ProcessInputs \/ ProcessProbeInputs \/ CheckForFaults
  <2>1. UNCHANGED <<coordinating, teleoperating, motion_coord, motion_teleop>>
    BY <1>3 DEF ProcessInputs, ProcessProbeInputs, CheckForFaults, modeVars, askedVars
  <2>2. UNCHANGED allHomed
    BY <1>3 DEF ProcessInputs, ProcessProbeInputs, CheckForFaults, RefreshAllHomed
  <2> QED BY <2>1, <2>2 DEF Barred
<1>4. CASE SetOperatingMode
  <2>1. pc' = "handle_jogwheels" /\ allHomed' = allHomed /\ ModesAgree'
    BY <1>4, ModesAgreeNext DEF SetOperatingMode
  <2> QED BY <2>1 DEF Barred, ModesAgree, Deciding
<1>5. CASE HandleJogwheels \/ DoHomingSequence
  BY <1>1, <1>5 DEF HandleJogwheels, DoHomingSequence, SequenceIdle, SequenceStart,
                    SequenceStartJoints, SequenceWaitJoints, EnterDoHoming, homingFrame
<1>6. CASE DoHoming
  BY <1>1, <1>6, HomingFrame DEF HomingSuspended, HomingDone, homingFrame
<1>7. CASE FreePosCmds \/ CoordPosCmds \/ TeleopPosCmds \/ DisabledPosCmds
  BY <1>1, <1>7 DEF FreePosCmds, CoordPosCmds, TeleopPosCmds, DisabledPosCmds,
                    RefreshAllHomed
<1> QED BY <1>2, <1>3, <1>4, <1>5, <1>6, <1>7 DEF Next

-----------------------------------------------------------------------------
LEMMA RehomingInvNext ==
  ASSUME JointsGood, RestTypeOK, RehomingInv, RehomingNext,
         kinType = "INVERSE_ONLY", "RIGID_TAP" \notin Commands
  PROVE  RehomingInv'
<1>1. /\ Next
      /\ travelled' = (travelled \/ ~tp.done \/ teleop_vel.current)
      /\ astray' = (astray \cup LedAstray) \ HomedNow
  BY DEF RehomingNext
<1>2. ModesAgree'
  BY <1>1, ModesAgreeNext DEF RehomingInv
<1>3. Marked' /\ (rehomeAll => rehomeAll')
  BY <1>1, MarkedNext DEF RehomingInv
<1>4. travelled' => rehomeAll'
  BY <1>1, <1>3 DEF RehomingInv, Marked
<1>5. CASE JogStarts = {}
  <2>1. astray' \subseteq astray /\ astray' \cap HomedNow = {}
    BY <1>1, <1>5 DEF LedAstray
  <2>2. ASSUME NEW j \in astray' PROVE j \in astray /\ ~joint[j].homed
    BY <2>1, <2>2 DEF RehomingInv
  <2>3. astray' \subseteq Joints /\ \A j \in astray' : ~joint'[j].homed
    BY <2>1, <2>2 DEF RehomingInv, HomedNow
  <2>4. ASSUME astray' \cap ActiveJoints # {} PROVE Barred'
    <3>1. PICK j \in ActiveJoints : j \in astray /\ ~joint[j].homed
      BY <2>2, <2>4
    <3>2. Barred
      BY <3>1 DEF RehomingInv
    <3>3. ~checkAllHomed
      BY <3>1, <3>2 DEF checkAllHomed, Barred
    <3> QED BY <1>1, <3>2, <3>3, BarredNext DEF RehomingInv
  <2> QED BY <1>2, <1>3, <1>4, <2>3, <2>4 DEF RehomingInv
<1>6. CASE JogStarts # {}
  <2>1. PICK k : k \in JogStarts
    BY <1>6
  <2>2. JogClearing(k)
    BY <1>1, <2>1, JogClears
  <2>3. Barred'
    BY <2>2 DEF JogClearing, RehomingInv, ModesAgree, Barred
  <2>4. ASSUME NEW j \in astray' PROVE j \in Joints /\ ~joint'[j].homed
    <3>1. CASE j \in astray
      BY <1>1, <2>4, <3>1 DEF RehomingInv, HomedNow
    <3>2. CASE j \in LedAstray /\ travelled
      BY <1>6, <2>2, <3>2 DEF RehomingInv, JogClearing, LedAstray
    <3>3. CASE j \in LedAstray /\ ~travelled
      <4>1. j \in JogStarts
        BY <3>3 DEF LedAstray
      <4> QED BY <1>1, <4>1, JogClears DEF JogClearing, JogStarts
    <3> QED BY <1>1, <2>4, <3>1, <3>2, <3>3
  <2> QED BY <1>2, <1>3, <1>4, <2>3, <2>4 DEF RehomingInv
<1> QED BY <1>5, <1>6

(* set_operating_mode() alone changes the modes, and only when asked.      *)
LEMMA ModeRises ==
  ASSUME Next, (~motion_coord /\ motion_coord') \/ (~motion_teleop /\ motion_teleop')
  PROVE  ~Barred
<1>1. CASE SetOperatingMode
  BY <1>1 DEF SetOperatingMode, EnteringCoord, EnteringTeleop, AskingTeleop, Barred
<1>2. UNCHANGED modeVars => UNCHANGED <<motion_coord, motion_teleop>>
  BY DEF modeVars
<1>3. CASE emcmotCommandHandler
  BY <1>3, CommandFrame
<1>4. CASE ProcessInputs \/ ProcessProbeInputs \/ CheckForFaults \/ HandleJogwheels
             \/ DoHomingSequence
  BY <1>2, <1>4 DEF ProcessInputs, ProcessProbeInputs, CheckForFaults, HandleJogwheels,
                    DoHomingSequence, SequenceIdle, SequenceStart, SequenceStartJoints,
                    SequenceWaitJoints, EnterDoHoming, homingFrame
<1>5. CASE DoHoming
  BY <1>2, <1>5, HomingFrame DEF HomingSuspended, HomingDone, homingFrame
<1>6. CASE FreePosCmds \/ CoordPosCmds \/ TeleopPosCmds \/ DisabledPosCmds
  BY <1>2, <1>6 DEF FreePosCmds, CoordPosCmds, TeleopPosCmds, DisabledPosCmds
<1> QED BY <1>1, <1>3, <1>4, <1>5, <1>6 DEF Next

(* Without forward kinematics the machine goes to coordinated or teleop    *)
(* mode only when every active joint that a jog has led astray was homed   *)
(* since: clearHomes() and rehomeAll drop the right flags, the cached      *)
(* allHomed never outlives them, and no request that passed the test is    *)
(* carried out after a jog.  A rigid tap, which moves the joints without   *)
(* setting rehomeAll, is left out.                                         *)
THEOREM CoordNeedsRehomingAlways ==
  ASSUME "RIGID_TAP" \notin Commands
  PROVE  RehomingSpec => CoordNeedsRehoming
<1>1. RehomingInit => Init
  BY DEF RehomingInit
<1>2. [RehomingNext]_rehomingVars => [Next]_vars
  BY DEF RehomingNext, rehomingVars
<1>3. CASE kinType = "INVERSE_ONLY"
  <2>1. Inv /\ RehomingInv /\ [RehomingNext]_rehomingVars => RehomingInv'
    <3>1. SUFFICES ASSUME Inv, RehomingInv, [RehomingNext]_rehomingVars
                   PROVE  RehomingInv'
      OBVIOUS
    <3>2. CASE RehomingNext
      BY <1>3, <3>1, <3>2, InvIsGood, RehomingInvNext
    <3>3. CASE UNCHANGED rehomingVars
      BY <3>1, <3>3 DEF rehomingVars, vars, modeVars, askedVars, RehomingInv, ModesAgree,
                        Marked, Barred
    <3> QED BY <3>1, <3>2, <3>3
  <2>2. RehomingInv /\ [RehomingNext]_rehomingVars =>
          [/\ kinType = "INVERSE_ONLY"
           /\ (~motion_coord /\ motion_coord') \/ (~motion_teleop /\ motion_teleop')
           => astray \cap ActiveJoints = {}]_rehomingVars
    BY ModeRises DEF RehomingInv, RehomingNext
  <2> QED BY <1>1, <1>2, <2>1, <2>2, RehomingStart, Invariance, PTL
          DEF Spec, RehomingSpec, CoordNeedsRehoming
<1>4. CASE kinType # "INVERSE_ONLY"
  <2>1. [RehomingNext]_rehomingVars =>
          [/\ kinType = "INVERSE_ONLY"
           /\ (~motion_coord /\ motion_coord') \/ (~motion_teleop /\ motion_teleop')
           => astray \cap ActiveJoints = {}]_rehomingVars
    BY <1>4
  <2> QED BY <2>1, PTL DEF RehomingSpec, CoordNeedsRehoming
<1> QED BY <1>3, <1>4

=============================================================================
