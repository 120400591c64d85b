------------------------------- MODULE Homing -------------------------------
(***************************************************************************)
(* homing.c: do_homing_sequence(), which homes groups of joints in the     *)
(* order of their HOME_SEQUENCE, and do_homing(), the homing state machine *)
(* of one joint.  do_homing() walks the joints and runs a joint's `switch' *)
(* until a case leaves immediate_state at 0; here every pass through the   *)
(* `switch' is an action, and joint_num, home_sw_active and homing_flag    *)
(* are the loop's locals.                                                  *)
(***************************************************************************)
EXTENDS MotionData

homingFrame == <<homing_params, modeVars, motion_inpos, allHomed, rehomeAll,
                 limitVars, probeVars, tp, teleop_vel>>

(* The joint the loop has reached, and its configuration. *)
J == joint[joint_num]
P == homing_params[joint_num]

(* GET_JOINT_HOME_SWITCH_FLAG is read when the loop reaches a joint; only  *)
(* a joint that is homing looks at it.                                     *)
SwitchReadings(js, n) ==
  IF n \in ActiveJoints /\ js[n].home_state # "IDLE"
  THEN HomeSwitchInputs ELSE {FALSE}

-----------------------------------------------------------------------------
(* do_homing_sequence() *)

InSequence(n) == {j \in Joints : homing_params[j].home_sequence = n}

(* `joint->free_tp_enable = 0; joint->home_state = HOME_START' *)
PrimeHoming(S) ==
  [j \in Joints |->
     IF j \in S
     THEN [joint[j] EXCEPT !.free_tp_enable = FALSE, !.home_state = "START"]
     ELSE joint[j]]

(* Control passes to the loop of do_homing(). *)
EnterDoHoming ==
  /\ pc' = "do_homing"
  /\ joint_num' = 0
  /\ homing_flag' = FALSE
  /\ home_sw_active' \in SwitchReadings(joint', 0)
  /\ UNCHANGED <<homingFrame, unlock>>

(* Mutant: running out of steps does not end the sequence. *)
StartJoints_NoEnd(n) ==
  /\ joint' = PrimeHoming(InSequence(n))
  /\ home_sequence' = n
  /\ homingSequenceState' = "START_JOINTS"

(* The fall-through of HOME_SEQUENCE_START into START_JOINTS: start the    *)
(* joints of step n, or finish when there is no such joint.                *)
StartJoints(n) ==
  /\ joint' = PrimeHoming(InSequence(n))
  /\ home_sequence' = n
  /\ IF InSequence(n) # {}
     THEN homingSequenceState' = "WAIT_JOINTS"
     ELSE homingSequenceState' = "IDLE"

SequenceIdle ==
  /\ pc = "do_homing_sequence"
  /\ homingSequenceState = "IDLE"
  /\ UNCHANGED <<joint, sequenceVars>>
  /\ EnterDoHoming

SequenceStart ==
  /\ pc = "do_homing_sequence"
  /\ homingSequenceState = "START"
  /\ \/ /\ \E j \in Joints : joint[j].home_state # "IDLE"
        /\ homingSequenceState' = "IDLE"
        /\ UNCHANGED <<joint, homing_active, home_sequence>>
     \/ /\ \A j \in Joints : joint[j].home_state = "IDLE"
        /\ StartJoints(0)
        /\ homing_active' = (InSequence(0) # {})
  /\ EnterDoHoming

SequenceStartJoints ==
  /\ pc = "do_homing_sequence"
  /\ homingSequenceState = "START_JOINTS"
  /\ StartJoints(home_sequence)
  /\ homing_active' = (homing_active /\ InSequence(home_sequence) # {})
  /\ EnterDoHoming

(* Mutant: a joint that is idle again counts as homed. *)
SequenceWaitJoints_AnyIdle ==
  /\ pc = "do_homing_sequence"
  /\ homingSequenceState = "WAIT_JOINTS"
  /\ IF \A j \in InSequence(home_sequence) : joint[j].home_state = "IDLE"
     THEN /\ home_sequence' = home_sequence + 1
          /\ homingSequenceState' = "START_JOINTS"
     ELSE UNCHANGED <<home_sequence, homingSequenceState>>
  /\ UNCHANGED <<joint, homing_active>>
  /\ EnterDoHoming

SequenceWaitJoints ==
  /\ pc = "do_homing_sequence"
  /\ homingSequenceState = "WAIT_JOINTS"
  /\ LET busy == {j \in InSequence(home_sequence) : joint[j].home_state # "IDLE"}
         failed == {j \in InSequence(home_sequence) :
                      joint[j].home_state = "IDLE" /\ ~joint[j].at_home}
     IN  \/ /\ failed # {}
            /\ homingSequenceState' = "IDLE"
            /\ homing_active' = FALSE
            /\ UNCHANGED home_sequence
         \/ /\ failed = {} /\ busy # {}
            /\ UNCHANGED sequenceVars
         \/ /\ failed = {} /\ busy = {}
            /\ home_sequence' = home_sequence + 1
            /\ homingSequenceState' = "START_JOINTS"
            /\ UNCHANGED homing_active
  /\ UNCHANGED joint
  /\ EnterDoHoming

DoHomingSequence ==
  SequenceIdle \/ SequenceStart \/ SequenceStartJoints \/ SequenceWaitJoints

-----------------------------------------------------------------------------
(* do_homing(): one action per case of the `switch' *)

InHomeState(s) ==
  /\ pc = "do_homing"
  /\ motion_state = "FREE"
  /\ joint_num \in ActiveJoints
  /\ J.home_state = s
  /\ homing_flag' = TRUE
  /\ UNCHANGED <<pc, sequenceVars, homingFrame>>

(* immediate_state = 1: the next case of the same joint runs at once. *)
Immediately(r) ==
  /\ joint' = [joint EXCEPT ![joint_num] = r]
  /\ UNCHANGED <<joint_num, home_sw_active>>

(* immediate_state = 0: the loop goes on with the next joint. *)
NextPeriod(r) ==
  /\ joint' = [joint EXCEPT ![joint_num] = r]
  /\ joint_num' = joint_num + 1
  /\ home_sw_active' \in SwitchReadings(joint, joint_num + 1)

OnLimit == J.limits # {} /\ "IGNORE_LIMITS" \notin P.home_flags

(* Mutant: the pause before the next move starts with this one's count. *)
StartMove_KeepsTimer(s) ==
  NextPeriod([J EXCEPT !.free_tp_enable = TRUE, !.home_state = s])

(* home_start_move() and the state that waits for the move *)
StartMove(s) ==
  NextPeriod([J EXCEPT !.home_pause_timer = 0, !.free_tp_enable = TRUE,
                       !.home_state = s])

(* Mutant: the end of the move goes unnoticed. *)
MoveFailed_LimitOnly == OnLimit

(* home_do_moving_checks(): a limit or the end of the move aborts. *)
MoveFailed == OnLimit \/ ~J.free_tp_active

AbortMove ==
  Immediately([J EXCEPT !.free_tp_enable = @ /\ OnLimit,
                        !.home_state = "ABORT"])

MovingChecks ==
  \/ MoveFailed /\ AbortMove
  \/ ~MoveFailed /\ NextPeriod(J)

(* An error exit: the message is reported and the joint is idle. *)
GiveUp == NextPeriod([J EXCEPT !.home_pause_timer = 0, !.home_state = "IDLE"])

HomeIdle ==
  /\ pc = "do_homing"
  /\ motion_state = "FREE"
  /\ joint_num \in Joints
  /\ joint_num \in ActiveJoints => J.home_state = "IDLE"
  /\ NextPeriod(J)
  /\ UNCHANGED <<pc, unlock, homing_flag, sequenceVars, homingFrame>>

(* Mutant: a joint that is homed again keeps its homed flag. *)
HomeStart_KeepsHomed ==
  /\ InHomeState("START")
  /\ Immediately([J EXCEPT !.homing = TRUE, !.at_home = FALSE,
                           !.free_tp_enable = FALSE, !.home_pause_timer = 0,
                           !.home_state = "UNLOCK_WAIT"])
  /\ UNCHANGED unlock

HomeStart ==
  /\ InHomeState("START")
  /\ LET refused == "IS_SHARED" \in P.home_flags /\ home_sw_active
         started == [J EXCEPT !.homing = TRUE, !.homed = FALSE,
                              !.at_home = FALSE, !.free_tp_enable = FALSE,
                              !.home_pause_timer = 0]
     IN  \/ /\ refused
            /\ NextPeriod([J EXCEPT !.home_state = "IDLE"])
         \/ /\ ~refused /\ "UNLOCK_FIRST" \in P.home_flags
            /\ NextPeriod([started EXCEPT !.home_state = "UNLOCK"])
         \/ /\ ~refused /\ "UNLOCK_FIRST" \notin P.home_flags
            /\ Immediately([started EXCEPT !.home_state = "UNLOCK_WAIT"])
  /\ UNCHANGED unlock

HomeUnlock ==
  /\ InHomeState("UNLOCK")
  /\ unlock' = [unlock EXCEPT ![joint_num] = TRUE]
  /\ NextPeriod([J EXCEPT !.home_state = "UNLOCK_WAIT"])

(* The signs of the two velocities and HOME_USE_INDEX select the sequence. *)
FirstState ==
  CASE P.home_search_vel = 0 /\ P.home_latch_vel = 0 -> "SET_SWITCH_POSITION"
    [] P.home_search_vel = 0 /\ P.home_latch_vel # 0 ->
         IF "USE_INDEX" \in P.home_flags THEN "INDEX_ONLY_START" ELSE "IDLE"
    [] P.home_search_vel # 0 ->
         IF P.home_latch_vel # 0 THEN "INITIAL_SEARCH_START" ELSE "IDLE"

(* emcmotGetRotaryIsUnlocked() is an input, read here and in LOCK_WAIT. *)
HomeUnlockWait ==
  /\ InHomeState("UNLOCK_WAIT")
  /\ \/ /\ "UNLOCK_FIRST" \in P.home_flags     \* not yet unlocked
        /\ NextPeriod(J)
     \/ /\ FirstState # "IDLE"
        /\ Immediately([J EXCEPT !.home_state = FirstState])
     \/ /\ FirstState = "IDLE"                 \* invalid homing config
        /\ NextPeriod([J EXCEPT !.home_state = "IDLE"])
  /\ UNCHANGED unlock

(* The states that start a move first wait until the joint has stopped and *)
(* then for HOME_DELAY.                                                    *)
PausingStates ==
  {"INITIAL_BACKOFF_START", "INITIAL_SEARCH_START", "FINAL_BACKOFF_START",
   "RISE_SEARCH_START", "FALL_SEARCH_START", "INDEX_ONLY_START",
   "FINAL_MOVE_START"}

Rested == ~J.free_tp_active /\ J.home_pause_timer >= HOME_DELAY

(* Mutant: the pause is one period too long. *)
HomePause_OffByOne ==
  /\ \E s \in PausingStates : InHomeState(s)
  /\ J.home_pause_timer <= HOME_DELAY
  /\ NextPeriod([J EXCEPT !.home_pause_timer = IF J.free_tp_active THEN 0
                                               ELSE @ + 1])
  /\ UNCHANGED unlock

HomePause ==
  /\ \E s \in PausingStates : InHomeState(s)
  /\ \/ /\ J.free_tp_active
        /\ NextPeriod([J EXCEPT !.home_pause_timer = 0])
     \/ /\ ~J.free_tp_active /\ J.home_pause_timer < HOME_DELAY
        /\ NextPeriod([J EXCEPT !.home_pause_timer = @ + 1])
  /\ UNCHANGED unlock

HomeInitialBackoffStart ==
  /\ InHomeState("INITIAL_BACKOFF_START")
  /\ Rested
  /\ StartMove("INITIAL_BACKOFF_WAIT")
  /\ UNCHANGED unlock

HomeInitialBackoffWait ==
  /\ InHomeState("INITIAL_BACKOFF_WAIT")
  /\ \/ /\ ~home_sw_active
        /\ Immediately([J EXCEPT !.free_tp_enable = FALSE,
                                 !.home_state = "INITIAL_SEARCH_START"])
     \/ home_sw_active /\ MovingChecks
  /\ UNCHANGED unlock

HomeInitialSearchStart ==
  /\ InHomeState("INITIAL_SEARCH_START")
  /\ Rested
  /\ \/ /\ home_sw_active
        /\ Immediately([J EXCEPT !.home_pause_timer = 0,
                                 !.home_state = "INITIAL_BACKOFF_START"])
     \/ ~home_sw_active /\ StartMove("INITIAL_SEARCH_WAIT")
  /\ UNCHANGED unlock

HomeInitialSearchWait ==
  /\ InHomeState("INITIAL_SEARCH_WAIT")
  /\ \/ /\ home_sw_active
        /\ Immediately([J EXCEPT !.free_tp_enable = FALSE,
                                 !.home_state = "SET_COARSE_POSITION"])
     \/ ~home_sw_active /\ MovingChecks
  /\ UNCHANGED unlock

HomeSetCoarsePosition ==
  /\ InHomeState("SET_COARSE_POSITION")
  /\ Immediately([J EXCEPT !.motor_offset = "coarse",
                           !.home_state =
                              IF P.home_search_vel * P.home_latch_vel > 0
                              THEN "FINAL_BACKOFF_START"
                              ELSE "FALL_SEARCH_START"])
  /\ UNCHANGED unlock

HomeFinalBackoffStart ==
  /\ InHomeState("FINAL_BACKOFF_START")
  /\ Rested
  /\ \/ ~home_sw_active /\ GiveUp
     \/ home_sw_active /\ StartMove("FINAL_BACKOFF_WAIT")
  /\ UNCHANGED unlock

HomeFinalBackoffWait ==
  /\ InHomeState("FINAL_BACKOFF_WAIT")
  /\ \/ /\ ~home_sw_active
        /\ Immediately([J EXCEPT !.free_tp_enable = FALSE,
                                 !.home_state = "RISE_SEARCH_START"])
     \/ home_sw_active /\ MovingChecks
  /\ UNCHANGED unlock

HomeRiseSearchStart ==
  /\ InHomeState("RISE_SEARCH_START")
  /\ Rested
  /\ \/ home_sw_active /\ GiveUp
     \/ ~home_sw_active /\ StartMove("RISE_SEARCH_WAIT")
  /\ UNCHANGED unlock

(* The switch edge of the latch move was seen: stop there, or keep moving  *)
(* and look for the index pulse.                                           *)
EdgeFound ==
  \/ /\ "USE_INDEX" \in P.home_flags
     /\ Immediately([J EXCEPT !.home_state = "INDEX_SEARCH_START"])
  \/ /\ "USE_INDEX" \notin P.home_flags
     /\ Immediately([J EXCEPT !.free_tp_enable = FALSE,
                              !.home_state = "SET_SWITCH_POSITION"])

HomeRiseSearchWait ==
  /\ InHomeState("RISE_SEARCH_WAIT")
  /\ \/ home_sw_active /\ EdgeFound
     \/ ~home_sw_active /\ MovingChecks
  /\ UNCHANGED unlock

HomeFallSearchStart ==
  /\ InHomeState("FALL_SEARCH_START")
  /\ Rested
  /\ \/ ~home_sw_active /\ GiveUp
     \/ home_sw_active /\ StartMove("FALL_SEARCH_WAIT")
  /\ UNCHANGED unlock

HomeFallSearchWait ==
  /\ InHomeState("FALL_SEARCH_WAIT")
  /\ \/ ~home_sw_active /\ EdgeFound
     \/ home_sw_active /\ MovingChecks
  /\ UNCHANGED unlock

HomeSetSwitchPosition ==
  /\ InHomeState("SET_SWITCH_POSITION")
  /\ Immediately([J EXCEPT !.motor_offset = "home",
                           !.home_state = "FINAL_MOVE_START"])
  /\ UNCHANGED unlock

HomeIndexOnlyStart ==
  /\ InHomeState("INDEX_ONLY_START")
  /\ Rested
  /\ NextPeriod([J EXCEPT !.home_pause_timer = 0, !.motor_offset = "coarse",
                          !.index_enable = TRUE, !.free_tp_enable = TRUE,
                          !.home_state = "INDEX_SEARCH_WAIT"])
  /\ UNCHANGED unlock

HomeIndexSearchStart ==
  /\ InHomeState("INDEX_SEARCH_START")
  /\ Immediately([J EXCEPT !.index_enable = TRUE,
                           !.free_tp_enable = @ /\ (OnLimit \/ ~MoveFailed),
                           !.home_state = IF MoveFailed THEN "ABORT"
                                          ELSE "INDEX_SEARCH_WAIT"])
  /\ UNCHANGED unlock

HomeIndexSearchWait ==
  /\ InHomeState("INDEX_SEARCH_WAIT")
  /\ \/ /\ ~J.index_enable
        /\ Immediately([J EXCEPT !.free_tp_enable = FALSE,
                                 !.home_state = "SET_INDEX_POSITION"])
     \/ J.index_enable /\ MovingChecks
  /\ UNCHANGED unlock

HomeSetIndexPosition ==
  /\ InHomeState("SET_INDEX_POSITION")
  /\ Immediately([J EXCEPT !.motor_offset = "home",
                           !.home_state = "FINAL_MOVE_START"])
  /\ UNCHANGED unlock

HomeFinalMoveStart ==
  /\ InHomeState("FINAL_MOVE_START")
  /\ Rested
  /\ StartMove("FINAL_MOVE_WAIT")
  /\ UNCHANGED unlock

HomeFinalMoveWait ==
  /\ InHomeState("FINAL_MOVE_WAIT")
  /\ \/ /\ ~J.free_tp_active
        /\ Immediately([J EXCEPT !.free_tp_enable = FALSE,
                                 !.home_state = "LOCK"])
     \/ /\ J.free_tp_active /\ OnLimit
        /\ Immediately([J EXCEPT !.home_state = "ABORT"])
     \/ /\ J.free_tp_active /\ ~OnLimit
        /\ NextPeriod(J)
  /\ UNCHANGED unlock

HomeLock ==
  /\ InHomeState("LOCK")
  /\ \/ /\ "UNLOCK_FIRST" \in P.home_flags
        /\ unlock' = [unlock EXCEPT ![joint_num] = FALSE]
        /\ NextPeriod([J EXCEPT !.home_state = "LOCK_WAIT"])
     \/ /\ "UNLOCK_FIRST" \notin P.home_flags
        /\ Immediately([J EXCEPT !.home_state = "LOCK_WAIT"])
        /\ UNCHANGED unlock

HomeLockWait ==
  /\ InHomeState("LOCK_WAIT")
  /\ \/ /\ "UNLOCK_FIRST" \in P.home_flags     \* not yet locked
        /\ NextPeriod(J)
     \/ Immediately([J EXCEPT !.home_state = "FINISHED"])
  /\ UNCHANGED unlock

(* FINISHED and ABORT run HOME_IDLE at once, which does nothing. *)
HomeFinished ==
  /\ InHomeState("FINISHED")
  /\ NextPeriod([J EXCEPT !.homing = FALSE, !.homed = TRUE, !.at_home = TRUE,
                          !.home_state = "IDLE"])
  /\ UNCHANGED unlock

HomeAbort ==
  /\ InHomeState("ABORT")
  /\ NextPeriod([J EXCEPT !.homing = FALSE, !.homed = FALSE, !.at_home = FALSE,
                          !.free_tp_enable = FALSE, !.home_state = "IDLE",
                          !.index_enable = FALSE])
  /\ UNCHANGED unlock

(* Not in free mode: do_homing() returns before its loop. *)
HomingSuspended ==
  /\ pc = "do_homing"
  /\ motion_state # "FREE"
  /\ pc' = "get_pos_cmds"
  /\ home_sw_active' = FALSE
  /\ UNCHANGED <<joint, unlock, joint_num, homing_flag, sequenceVars,
                 homingFrame>>

(* Mutant: homing_active covers only home-all. *)
HomingDone_SequenceOnly ==
  /\ pc = "do_homing"
  /\ motion_state = "FREE"
  /\ joint_num = NumJoints
  /\ homing_active' = (homingSequenceState # "IDLE")
  /\ pc' = "get_pos_cmds"
  /\ joint_num' = 0
  /\ homing_flag' = FALSE
  /\ UNCHANGED <<joint, unlock, home_sw_active, homingSequenceState,
                 home_sequence, homingFrame>>

(* The end of the loop: refresh homing_active. *)
HomingDone ==
  /\ pc = "do_homing"
  /\ motion_state = "FREE"
  /\ joint_num = NumJoints
  /\ homing_active' = \/ homing_flag
                      \/ homing_active /\ homingSequenceState # "IDLE"
  /\ pc' = "get_pos_cmds"
  /\ joint_num' = 0
  /\ homing_flag' = FALSE
  /\ UNCHANGED <<joint, unlock, home_sw_active, homingSequenceState,
                 home_sequence, homingFrame>>

DoHoming ==
  \/ HomingSuspended \/ HomeIdle \/ HomeStart \/ HomeUnlock
  \/ HomeUnlockWait \/ HomePause
  \/ HomeInitialBackoffStart \/ HomeInitialBackoffWait
  \/ HomeInitialSearchStart \/ HomeInitialSearchWait
  \/ HomeSetCoarsePosition
  \/ HomeFinalBackoffStart \/ HomeFinalBackoffWait
  \/ HomeRiseSearchStart \/ HomeRiseSearchWait
  \/ HomeFallSearchStart \/ HomeFallSearchWait
  \/ HomeSetSwitchPosition
  \/ HomeIndexOnlyStart \/ HomeIndexSearchStart \/ HomeIndexSearchWait
  \/ HomeSetIndexPosition
  \/ HomeFinalMoveStart \/ HomeFinalMoveWait
  \/ HomeLock \/ HomeLockWait \/ HomeFinished \/ HomeAbort
  \/ HomingDone

=============================================================================
