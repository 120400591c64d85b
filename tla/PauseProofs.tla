---------------------------- MODULE PauseProofs ----------------------------
(***************************************************************************)
(* The pauses between the moves of homing: the timer that the waiting      *)
(* states of do_homing() share is back at zero before the next of them.    *)
(***************************************************************************)
EXTENDS MotionProofs

(* A leaf that names no prover is Zenon's. *)
USE ZenonT(40)

(* Where the timer may hold a count: the states that wait, and, after an   *)
(* abort in the middle of a wait, the states up to the next HOME_START.    *)
Counting == PausingStates \cup {"IDLE", "START", "ABORT"}

TimerOK(r) == r.home_state \notin Counting => r.home_pause_timer = 0

TimerInv == \A j \in Joints : TimerOK(joint[j])

Fresh(q, r) ==
  /\ r.home_state \in PausingStates
  /\ r.home_state # q.home_state
  => r.home_pause_timer = 0

TimerStep(q, r) == TimerOK(q) => TimerOK(r) /\ Fresh(q, r)

LEMMA TimerInit == Init => TimerInv
BY SMTT(60) DEF Init, JointInit, TimerInv, TimerOK, Counting

(* Everything but do_homing() leaves the timer alone and moves the joint   *)
(* at most to a state in which a count may be left.                        *)
LEMMA OtherTimer ==
  ASSUME JointsGood, NEW q, NEW r, r.home_pause_timer = q.home_pause_timer,
         r.home_state = q.home_state \/ r.home_state \in {"IDLE", "START", "ABORT"}
  PROVE  TimerStep(q, r)
BY DEF TimerStep, TimerOK, Fresh, Counting, PausingStates

TimerLoop == \E r : TimerStep(J, r) /\ joint' = [joint EXCEPT ![joint_num] = r]

(* One pass through the switch of do_homing(). *)
LEMMA HomingTimer ==
  ASSUME JointsGood, DoHoming, ~HomingSuspended, ~HomingDone, ~HomeIdle
  PROVE  TimerLoop
<1>1. J \in JointType
  <2>1. joint_num \in ActiveJoints
    BY HomingFrame
  <2> QED BY <2>1, ActiveAssumption DEF J, JointsGood, GoodJoint
<1> DEFINE Zero == J.home_state \notin Counting
(* the timer is reset, or the joint gives up *)
<1>2. ASSUME NEW r, NextPeriod(r) \/ Immediately(r),
             r.home_pause_timer = 0 \/ r.home_state \in {"IDLE", "ABORT"}
      PROVE  TimerLoop
  <2>1. TimerStep(J, r)
    BY <1>2 DEF TimerStep, TimerOK, Fresh, Counting, PausingStates
  <2> QED BY <1>2, <2>1 DEF TimerLoop, NextPeriod, Immediately
(* the timer is not touched, and was zero *)
<1>3. ASSUME NEW r, NextPeriod(r) \/ Immediately(r), Zero,
             r.home_pause_timer = J.home_pause_timer
      PROVE  TimerLoop
  <2>1. TimerStep(J, r)
    BY <1>3 DEF TimerStep, TimerOK, Fresh
  <2> QED BY <1>3, <2>1 DEF TimerLoop, NextPeriod, Immediately
<1>4. ASSUME NEW s, StartMove(s)
      PROVE  TimerLoop
  <2>1. PICK r : /\ r = [J EXCEPT !.home_pause_timer = 0, !.free_tp_enable = TRUE,
                                  !.home_state = s]
                 /\ NextPeriod(r)
    BY <1>4 DEF StartMove
  <2>2. r.home_pause_timer = 0
    BY <1>1, <2>1 DEF JointType
  <2> QED BY <1>2, <2>1, <2>2
<1>5. ASSUME NEW s, \/ NextPeriod([J EXCEPT !.home_pause_timer = 0, !.home_state = s])
                    \/ Immediately([J EXCEPT !.home_pause_timer = 0, !.home_state = s])
      PROVE  TimerLoop
  <2>1. PICK r : /\ r = [J EXCEPT !.home_pause_timer = 0, !.home_state = s]
                 /\ NextPeriod(r) \/ Immediately(r)
    BY <1>5
  <2>2. r.home_pause_timer = 0
    BY <1>1, <2>1 DEF JointType
  <2> QED BY <1>2, <2>1, <2>2
<1>6. ASSUME Zero, NEW s, NEW b,
             \/ NextPeriod([J EXCEPT !.home_state = s])
             \/ Immediately([J EXCEPT !.home_state = s])
             \/ Immediately([J EXCEPT !.free_tp_enable = b, !.home_state = s])
             \/ Immediately([J EXCEPT !.motor_offset = b, !.home_state = s])
             \/ NextPeriod(J)
      PROVE  TimerLoop
  <2>1. PICK r : /\ \/ r = [J EXCEPT !.home_state = s]
                    \/ r = [J EXCEPT !.free_tp_enable = b, !.home_state = s]
                    \/ r = [J EXCEPT !.motor_offset = b, !.home_state = s]
                    \/ r = J
                 /\ NextPeriod(r) \/ Immediately(r)
    BY <1>6
  <2>2. r.home_pause_timer = J.home_pause_timer
    <3>1. CASE r = [J EXCEPT !.home_state = s]
      BY <1>1, <3>1 DEF JointType
    <3>2. CASE r = [J EXCEPT !.free_tp_enable = b, !.home_state = s]
      BY <1>1, <3>2 DEF JointType
    <3>3. CASE r = [J EXCEPT !.motor_offset = b, !.home_state = s]
      BY <1>1, <3>3 DEF JointType
    <3> QED BY <2>1, <3>1, <3>2, <3>3
  <2> QED BY <1>3, <1>6, <2>1, <2>2
<1>7. ASSUME Zero, MovingChecks \/ EdgeFound
      PROVE  TimerLoop
  BY <1>6, <1>7 DEF MovingChecks, AbortMove, EdgeFound
<1>8. ASSUME NEW s, InHomeState(s), s \notin Counting
      PROVE  Zero
  BY <1>8 DEF InHomeState
<1> HIDE DEF Zero
<1>9. CASE HomeStart
  <2>1. PICK r : /\ \/ r = [J EXCEPT !.home_state = "IDLE"]
                    \/ \E s \in {"UNLOCK", "UNLOCK_WAIT"} :
                         r = [J EXCEPT !.homing = TRUE, !.homed = FALSE,
                                       !.at_home = FALSE, !.free_tp_enable = FALSE,
                                       !.home_pause_timer = 0, !.home_state = s]
                 /\ NextPeriod(r) \/ Immediately(r)
    BY <1>9 DEF HomeStart
  <2>2. r.home_pause_timer = 0 \/ r.home_state = "IDLE"
    BY <1>1, <2>1 DEF JointType
  <2> QED BY <1>2, <2>1, <2>2
<1>10. CASE HomeUnlock \/ HomeUnlockWait
  <2>1. Zero
    BY <1>8, <1>10 DEF HomeUnlock, HomeUnlockWait, Counting, PausingStates
  <2> QED BY <1>6, <1>10, <2>1 DEF HomeUnlock, HomeUnlockWait
<1>11. CASE HomePause
  <2>1. PICK b, r : r = [J EXCEPT !.home_pause_timer = b] /\ NextPeriod(r)
    BY <1>11 DEF HomePause
  <2>2. J.home_state \in PausingStates /\ r.home_state = J.home_state
    BY <1>1, <1>11, <2>1 DEF HomePause, InHomeState, JointType
  <2>3. TimerStep(J, r)
    BY <2>2 DEF TimerStep, TimerOK, Fresh, Counting
  <2> QED BY <2>1, <2>3 DEF TimerLoop, NextPeriod
<1>12. CASE HomeInitialBackoffStart \/ HomeInitialSearchStart \/ HomeFinalBackoffStart
              \/ HomeRiseSearchStart \/ HomeFallSearchStart \/ HomeFinalMoveStart
  BY <1>4, <1>5, <1>12
     DEF HomeInitialBackoffStart, HomeInitialSearchStart, HomeFinalBackoffStart,
         HomeRiseSearchStart, HomeFallSearchStart, HomeFinalMoveStart, GiveUp
<1>13. CASE HomeInitialBackoffWait \/ HomeInitialSearchWait \/ HomeFinalBackoffWait
              \/ HomeRiseSearchWait \/ HomeFallSearchWait \/ HomeIndexSearchWait
  <2>1. Zero
    BY <1>8, <1>13 DEF HomeInitialBackoffWait, HomeInitialSearchWait, HomeFinalBackoffWait,
                       HomeRiseSearchWait, HomeFallSearchWait, HomeIndexSearchWait,
                       Counting, PausingStates
  <2> QED BY <1>6, <1>7, <1>13, <2>1
          DEF HomeInitialBackoffWait, HomeInitialSearchWait, HomeFinalBackoffWait,
              HomeRiseSearchWait, HomeFallSearchWait, HomeIndexSearchWait
<1>14. CASE HomeSetCoarsePosition \/ HomeSetSwitchPosition \/ HomeSetIndexPosition
  <2>1. Zero
    BY <1>8, <1>14 DEF HomeSetCoarsePosition, HomeSetSwitchPosition, HomeSetIndexPosition,
                       Counting, PausingStates
  <2> QED BY <1>6, <1>14, <2>1
          DEF HomeSetCoarsePosition, HomeSetSwitchPosition, HomeSetIndexPosition
<1>15. CASE HomeIndexOnlyStart
  <2>1. PICK r : /\ r = [J EXCEPT !.home_pause_timer = 0, !.motor_offset = "coarse",
                                  !.index_enable = TRUE, !.free_tp_enable = TRUE,
                                  !.home_state = "INDEX_SEARCH_WAIT"]
                 /\ NextPeriod(r)
    BY <1>15 DEF HomeIndexOnlyStart
  <2>2. r.home_pause_timer = 0
    BY <1>1, <2>1 DEF JointType
  <2> QED BY <1>2, <2>1, <2>2
<1>16. CASE HomeIndexSearchStart
  <2>1. Zero
    BY <1>8, <1>16 DEF HomeIndexSearchStart, Counting, PausingStates
  <2>2. PICK b, s, r : /\ r = [J EXCEPT !.index_enable = TRUE, !.free_tp_enable = b,
                                        !.home_state = s]
                       /\ Immediately(r)
    BY <1>16 DEF HomeIndexSearchStart
  <2>3. r.home_pause_timer = J.home_pause_timer
    BY <1>1, <2>2 DEF JointType
  <2> QED BY <1>3, <2>1, <2>2, <2>3
<1>17. CASE HomeFinalMoveWait \/ HomeLock \/ HomeLockWait
  <2>1. Zero
    BY <1>8, <1>17 DEF HomeFinalMoveWait, HomeLock, HomeLockWait, Counting, PausingStates
  <2> QED BY <1>6, <1>17, <2>1 DEF HomeFinalMoveWait, HomeLock, HomeLockWait
<1>18. CASE HomeFinished \/ HomeAbort
  <2>1. PICK r : /\ \/ r = [J EXCEPT !.homing = FALSE, !.homed = TRUE, !.at_home = TRUE,
                                     !.home_state = "IDLE"]
                    \/ r = [J EXCEPT !.homing = FALSE, !.homed = FALSE,
                                     !.at_home = FALSE, !.free_tp_enable = FALSE,
                                     !.home_state = "IDLE", !.index_enable = FALSE]
                 /\ NextPeriod(r)
    BY <1>18 DEF HomeFinished, HomeAbort
  <2>2. r.home_state = "IDLE"
    BY <1>1, <2>1 DEF JointType
  <2> QED BY <1>2, <2>1, <2>2
<1> QED BY <1>9, <1>10, <1>11, <1>12, <1>13, <1>14, <1>15, <1>16, <1>17, <1>18, SMTT(60)
        DEF DoHoming

(* Every step of the controller, for every joint. *)
LEMMA TimerSteps ==
  ASSUME JointsGood, RestTypeOK, [Next]_vars, NEW j \in Joints
  PROVE  TimerStep(joint[j], joint'[j])
<1>1. CASE UNCHANGED joint
  BY <1>1 DEF TimerStep, Fresh
<1>2. CASE emcmotCommandHandler
  <2>1. CommandEffect(joint[j], joint'[j])
    BY <1>2, CommandJoint
  <2> QED BY <2>1, OtherTimer DEF CommandEffect
<1>3. CASE ProcessInputs \/ ProcessProbeInputs \/ CheckForFaults
  <2>1. /\ SameStatus(joint[j], joint'[j])
        /\ joint'[j].home_state = joint[j].home_state \/ joint'[j].home_state = "ABORT"
    BY <1>3, InputJoint
  <2> QED BY <2>1, OtherTimer DEF SameStatus
<1>4. CASE SetOperatingMode
  <2>1. /\ joint'[j].home_pause_timer = joint[j].home_pause_timer
        /\ joint'[j].home_state = joint[j].home_state \/ joint'[j].home_state = "IDLE"
    BY <1>4, ModeJoint, SMTT(60)
  <2> QED BY <2>1, OtherTimer
<1>5. CASE HandleJogwheels
  <2>1. WheelEffect(joint[j], joint'[j])
    BY <1>5, WheelJoint
  <2> QED BY <2>1, OtherTimer DEF WheelEffect
<1>6. CASE DoHomingSequence
  <2>1. UNCHANGED joint \/ \E S : joint' = PrimeHoming(S)
    BY <1>6 DEF DoHomingSequence, SequenceIdle, SequenceStart, SequenceStartJoints,
                SequenceWaitJoints, StartJoints
  <2>2. CASE \E S : joint' = PrimeHoming(S)
    <3>1. /\ joint'[j].home_pause_timer = joint[j].home_pause_timer
          /\ joint'[j].home_state = joint[j].home_state \/ joint'[j].home_state = "START"
      BY <2>2, SequenceJoint DEF SameStatus
    <3> QED BY <3>1, OtherTimer
  <2> QED BY <1>1, <2>1, <2>2
<1>7. CASE DoHoming
  <2>1. CASE HomingSuspended \/ HomingDone
    BY <1>1, <2>1 DEF HomingSuspended, HomingDone
  <2>2. CASE HomeIdle
    BY <1>1, <2>2 DEF HomeIdle, NextPeriod, J, JointsGood
  <2>3. CASE ~HomingSuspended /\ ~HomingDone /\ ~HomeIdle
    <3>1. joint_num \in Joints
      BY <1>7, <2>3, HomingFrame, ActiveAssumption
    <3>2. PICK r : TimerStep(J, r) /\ joint' = [joint EXCEPT ![joint_num] = r]
      BY <1>7, <2>3, HomingTimer DEF TimerLoop
    <3>3. CASE j = joint_num
      BY <3>2, <3>3 DEF J, JointsGood
    <3>4. CASE j # joint_num
      <4>1. joint'[j] = joint[j]
        BY <3>2, <3>4 DEF JointsGood
      <4> QED BY <4>1, OtherTimer
    <3> QED BY <3>3, <3>4
  <2> QED BY <2>1, <2>2, <2>3
<1>8. CASE FreePosCmds \/ CoordPosCmds \/ TeleopPosCmds \/ DisabledPosCmds
  <2>1. /\ joint'[j].home_pause_timer = joint[j].home_pause_timer
        /\ joint'[j].home_state = joint[j].home_state
    BY <1>8, PlannerJoint
  <2> QED BY <2>1, OtherTimer
<1>9. UNCHANGED vars => UNCHANGED joint
  BY DEF vars
<1> QED BY <1>1, <1>2, <1>3, <1>4, <1>5, <1>6, <1>7, <1>8, <1>9 DEF Next

(* A joint that comes to a waiting state of do_homing() brings no count    *)
(* from an earlier wait, so that every move of homing, in every order of   *)
(* aborts and restarts, waits its full HOME_DELAY.                         *)
THEOREM PauseStartsAfreshAlways == Spec => PauseStartsAfresh
<1>1. Inv /\ TimerInv /\ [Next]_vars => TimerInv'
  BY InvIsGood, TimerSteps DEF TimerInv, TimerStep
<1>2. Inv /\ TimerInv /\ [Next]_vars =>
        [\A j \in ActiveJoints :
           /\ joint'[j].home_state \in PausingStates
           /\ joint'[j].home_state # joint[j].home_state
           => joint'[j].home_pause_timer = 0]_vars
  BY InvIsGood, TimerSteps, ActiveAssumption DEF TimerInv, TimerStep, Fresh
<1> QED BY <1>1, <1>2, TimerInit, Invariance, PTL DEF Spec, PauseStartsAfresh

=============================================================================
