--------------------------- MODULE MotionControl ---------------------------
(***************************************************************************)
(* control.c: the functions emcmotController() calls every servo period,   *)
(* in order, except the two of homing.c.  compute_screw_comp(),            *)
(* output_to_hal() and update_status() only compute outputs from this      *)
(* state and are not actions.                                              *)
(***************************************************************************)
EXTENDS MotionData

(* do_forward_kins() and get_pos_cmds() refresh the allHomed cache when    *)
(* forward kinematics are available.                                       *)
RefreshAllHomed ==
  allHomed' = IF kinType = "INVERSE_ONLY" THEN allHomed ELSE checkAllHomed

(* process_inputs() followed by do_forward_kins().  The index-enable pin   *)
(* is shared with the encoder, which clears it at the index pulse.         *)
ProcessInputs ==
  /\ pc = "process_inputs"
  /\ pc' = "process_probe_inputs"
  /\ \E limits \in [ActiveJoints -> LimitInputs],
        pulses \in SUBSET {j \in ActiveJoints : joint[j].index_enable} :
       joint' = [j \in Joints |->
                   IF j \in ActiveJoints
                   THEN [joint[j] EXCEPT !.limits = limits[j],
                                         !.index_enable = @ /\ j \notin pulses]
                   ELSE joint[j]]
  /\ RefreshAllHomed
  /\ UNCHANGED <<homing_params, unlock, modeVars, motion_inpos, sequenceVars,
                 rehomeAll, limitVars, probeVars, tp, teleop_vel, loopVars>>

(* A rising edge while not probing aborts homing and free-mode moves. *)
ProbeStopsJoints ==
  [j \in Joints |->
     IF j \in ActiveJoints
     THEN [joint[j] EXCEPT !.home_state = IF joint[j].homing THEN "ABORT" ELSE @,
                           !.free_tp_enable = FALSE]
     ELSE joint[j]]

(* Mutant: a probing move that finishes without contact is not noticed. *)
ProcessProbeInputs_ContactOnly ==
  /\ pc = "process_probe_inputs"
  /\ pc' = "check_for_faults"
  /\ old_probeVal' \in ProbeInputs
  /\ probing' = (probing /\ ~old_probeVal')
  /\ joint' = IF ~probing /\ ~old_probeVal /\ old_probeVal'
              THEN ProbeStopsJoints ELSE joint
  /\ UNCHANGED <<homing_params, unlock, modeVars, motion_inpos, sequenceVars,
                 allHomed, rehomeAll, limitVars, tp, teleop_vel, loopVars>>

(* probe_type selects the level that counts as tripped, so a probing move  *)
(* may end at either level; it also ends when the planner has finished.    *)
ProcessProbeInputs ==
  /\ pc = "process_probe_inputs"
  /\ pc' = "check_for_faults"
  /\ old_probeVal' \in ProbeInputs
  /\ \/ /\ probing
        /\ \/ probing' = FALSE
           \/ probing' = TRUE /\ ~(motion_inpos /\ tp.done)
        /\ UNCHANGED joint
     \/ /\ ~probing
        /\ UNCHANGED probing
        /\ joint' = IF ~old_probeVal /\ old_probeVal' THEN ProbeStopsJoints
                    ELSE joint
  /\ UNCHANGED <<homing_params, unlock, modeVars, motion_inpos, sequenceVars,
                 allHomed, rehomeAll, limitVars, tp, teleop_vel, loopVars>>

(* The limits of joint j that are tripped and not overridden. *)
TrippedLimits(j) == {d \in joint[j].limits : <<j, d>> \notin overrideLimitMask}

(* check_for_faults(): the enable pin, then limits (unless the joint is    *)
(* homing), amplifier faults and following errors.                         *)
LimitTrip == \E j \in ActiveJoints : TrippedLimits(j) # {} /\ ~joint[j].homing

CheckForFaults ==
  /\ pc = "check_for_faults"
  /\ pc' = "set_operating_mode"
  /\ \E pin \in EnableInputs, fault \in FaultInputs :
       enabling' = (enabling /\ (motion_enable => pin /\ ~fault /\ ~LimitTrip))
  /\ UNCHANGED <<homing_params, joint, unlock, coordinating, teleoperating,
                 motion_enable, motion_coord, motion_teleop, motion_inpos,
                 sequenceVars, allHomed, rehomeAll, limitVars, probeVars, tp,
                 teleop_vel, loopVars>>

-----------------------------------------------------------------------------
(* set_operating_mode(): the transitions it makes or refuses *)

(* Mutant: coordinated mode is entered without waiting for rest. *)
EnteringCoord_Moving == coordinating /\ ~motion_coord

AskingTeleop == teleoperating /\ ~motion_teleop
EnteringTeleop == AskingTeleop /\ motion_inpos
LeavingTeleop == ~teleoperating /\ motion_teleop /\ motion_inpos
EnteringCoord == ~AskingTeleop /\ coordinating /\ ~motion_coord /\ motion_inpos
EnteringFree == ~AskingTeleop /\ ~coordinating /\ motion_coord /\ motion_inpos

(* Mutant: the planner is not moved when motion is enabled. *)
PresetsPlanner_NotOnEnable == EnteringTeleop \/ EnteringCoord

(* The transitions that move the planner to the commanded position. *)
PresetsPlanner ==
  EnteringTeleop \/ EnteringCoord \/ (enabling /\ ~motion_enable)

(* Mutant: only the homing flag is reset, not the state machine. *)
JointsAfterModeChange_KeepsState ==
  [j \in Joints |->
     LET switched == enabling # motion_enable /\ j \in ActiveJoints
     IN  [joint[j] EXCEPT
            !.free_tp_enable = @ /\ (motion_enable => enabling) /\ ~EnteringFree,
            !.homing = @ /\ ~switched]]

(* Turning motion on or off ends homing; turning it off also stops the     *)
(* free planners, and so does leaving coordinated mode.                    *)
JointsAfterModeChange ==
  [j \in Joints |->
     LET switched == enabling # motion_enable /\ j \in ActiveJoints
     IN  [joint[j] EXCEPT
            !.free_tp_enable = @ /\ (motion_enable => enabling) /\ ~EnteringFree,
            !.homing = @ /\ ~switched,
            !.home_state = IF switched THEN "IDLE" ELSE @]]

SetOperatingMode ==
  /\ pc = "set_operating_mode"
  /\ pc' = "handle_jogwheels"
  /\ motion_enable' = enabling
  /\ joint' = JointsAfterModeChange
  /\ motion_teleop' = \/ EnteringTeleop
                      \/ /\ motion_teleop
                         /\ ~LeavingTeleop /\ ~EnteringCoord /\ ~EnteringFree
  /\ motion_coord' = (EnteringCoord \/ (motion_coord /\ ~EnteringFree))
  \* a request made while not in position is dropped
  /\ teleoperating' = (teleoperating /\ ~(AskingTeleop /\ ~motion_inpos))
  /\ coordinating' = IF AskingTeleop \/ motion_inpos THEN coordinating
                     ELSE motion_coord
  /\ overriding' = (overriding /\ ~EnteringCoord)
  /\ overrideLimitMask' = IF EnteringCoord THEN {} ELSE overrideLimitMask
  \* tpClear() and tpSetPos()
  /\ tp' = [done |-> tp.done \/ (motion_enable /\ ~enabling),
            synced |-> tp.synced \/ PresetsPlanner]
  /\ teleop_vel' = IF EnteringTeleop THEN [desired |-> FALSE, current |-> FALSE]
                   ELSE teleop_vel
  /\ UNCHANGED <<homing_params, unlock, enabling, motion_inpos, sequenceVars,
                 allHomed, rehomeAll, probeVars, loopVars>>

-----------------------------------------------------------------------------
(* handle_jogwheels(): the joints whose wheel turned and may be jogged.    *)
(* A wheel on one tripped limit may still turn the other way.              *)
WheelJogs(turned, fed) ==
  {j \in turned : /\ ~motion_coord /\ motion_enable
                  /\ ~homing_active
                  /\ ~joint[j].kb_jog_active
                  /\ fed
                  /\ joint[j].limits # {"neg", "pos"}}

HandleJogwheels ==
  /\ pc = "handle_jogwheels"
  /\ pc' = "do_homing_sequence"
  /\ \E turned \in WheelInputs, fed \in FeedInputs :
       LET moved == WheelJogs(turned, fed)
       IN  /\ joint' = clearHomes(
                         [j \in Joints |->
                            IF j \in moved
                            THEN [joint[j] EXCEPT !.wheel_jog_active = TRUE,
                                                  !.free_tp_enable = TRUE]
                            ELSE joint[j]], moved)
           /\ allHomed' = (allHomed /\ moved = {})
  /\ UNCHANGED <<homing_params, unlock, modeVars, motion_inpos, sequenceVars,
                 rehomeAll, limitVars, probeVars, tp, teleop_vel, loopVars>>

-----------------------------------------------------------------------------
(* get_pos_cmds(), one action per motion_state *)

(* What one period of a joint's free planner may do: drive toward its      *)
(* target, be held short of it by a zero feed scale, coast to a stop, or   *)
(* rest.                                                                   *)
PlannerSteps(r) ==
  {"rest"} \cup (IF r.free_tp_enable THEN {"drive", "hold"} ELSE {})
           \cup (IF r.vel_cmd THEN {"coast"} ELSE {})

JointAfter(r, step) ==
  [r EXCEPT !.free_tp_active = (step # "rest"),
            !.vel_cmd = step \in {"drive", "coast"},
            !.at_home = @ /\ step \in {"rest", "coast"},
            !.kb_jog_active = @ /\ step # "rest",
            !.wheel_jog_active = @ /\ step # "rest"]

(* An override ends when the move it was used for has ended. *)
OverrideAfter(inpos) ==
  IF inpos
  THEN /\ overriding' = FALSE
       /\ overrideLimitMask' = IF overriding THEN {} ELSE overrideLimitMask
  ELSE /\ overriding' = (overriding \/ overrideLimitMask # {})
       /\ UNCHANGED overrideLimitMask

FreePosCmds ==
  /\ pc = "get_pos_cmds"
  /\ motion_state = "FREE"
  /\ \E step \in [ActiveJoints -> {"rest", "drive", "hold", "coast"}] :
       LET inpos == \A j \in ActiveJoints : step[j] = "rest"
       IN  /\ \A j \in ActiveJoints : step[j] \in PlannerSteps(joint[j])
           /\ joint' = [j \in Joints |->
                          IF j \in ActiveJoints THEN JointAfter(joint[j], step[j])
                          ELSE joint[j]]
           /\ motion_inpos' = inpos
           /\ OverrideAfter(inpos)
  \* carte_pos_cmd now follows the joints, and so leaves the planner
  /\ tp' = [tp EXCEPT !.synced = @ /\ kinType = "INVERSE_ONLY"]
  /\ RefreshAllHomed
  /\ pc' = "command"
  /\ UNCHANGED <<homing_params, unlock, modeVars, sequenceVars, rehomeAll,
                 probeVars, teleop_vel, loopVars>>

(* All the joints follow the planner: moving or not. *)
AllJointsMoving(v) == [j \in Joints |-> [joint[j] EXCEPT !.vel_cmd = v]]

CoordPosCmds ==
  /\ pc = "get_pos_cmds"
  /\ motion_state = "COORD"
  /\ \E done, moving \in BOOLEAN :
       /\ tp.done => done
       /\ tp' = [done |-> done, synced |-> TRUE]
       /\ motion_inpos' = done
       /\ joint' = AllJointsMoving(moving)
  /\ pc' = "command"
  /\ UNCHANGED <<homing_params, unlock, modeVars, sequenceVars, allHomed,
                 rehomeAll, limitVars, probeVars, teleop_vel, loopVars>>

(* The commanded position moves away from where the planner was left, the  *)
(* joints follow it through the interpolators, which lag behind, and the   *)
(* in-position flag is not touched.                                        *)
TeleopPosCmds ==
  /\ pc = "get_pos_cmds"
  /\ motion_state = "TELEOP"
  /\ \E current, moving \in BOOLEAN :
       /\ teleop_vel.desired => current
       /\ current => teleop_vel.desired \/ teleop_vel.current
       /\ teleop_vel' = [teleop_vel EXCEPT !.current = current]
       /\ tp' = [tp EXCEPT !.synced = @ /\ ~current]
       /\ joint' = AllJointsMoving(moving)
  /\ pc' = "command"
  /\ UNCHANGED <<homing_params, unlock, modeVars, motion_inpos, sequenceVars,
                 allHomed, rehomeAll, limitVars, probeVars, loopVars>>

(* Commands follow the feedback. *)
DisabledPosCmds ==
  /\ pc = "get_pos_cmds"
  /\ motion_state = "DISABLED"
  /\ joint' = AllJointsMoving(FALSE)
  /\ tp' = [tp EXCEPT !.synced = FALSE]
  /\ pc' = "command"
  /\ UNCHANGED <<homing_params, unlock, modeVars, motion_inpos, sequenceVars,
                 allHomed, rehomeAll, limitVars, probeVars, teleop_vel, loopVars>>

=============================================================================
