------------------------------ MODULE MCMotion ------------------------------
(* Instances of Motion for TLC. *)
EXTENDS Motion, TLC

(* One joint: search and latch with every combination that reaches a       *)
(* different path through the homing state machine.                        *)
Params(search, latch, flags) ==
  [home_search_vel |-> search, home_latch_vel |-> latch, home_flags |-> flags,
   home_sequence |-> 0, volatile_home |-> FALSE]

SearchConfigs ==
  {0 :> Params(1, 1, {"USE_INDEX"}), 0 :> Params(1, -1, {"IS_SHARED"}),
   0 :> Params(0, 1, {"USE_INDEX", "UNLOCK_FIRST"})}

(* No search: the joint is homed where it stands. *)
HomeInPlace == {0 :> Params(0, 0, {"IGNORE_LIMITS"})}

(* Every kind of configuration, two of them invalid. *)
AllConfigs ==
  SearchConfigs \cup HomeInPlace \cup
  {0 :> Params(1, 0, {}), 0 :> Params(0, 1, {}),
   0 :> Params(1, 1, {"IGNORE_LIMITS"})}

(* Two joints, homed one after the other. *)
TwoStepConfigs ==
  {(0 :> Params(0, 0, {"IS_SHARED"})) @@
   (1 :> [Params(0, 0, {}) EXCEPT !.home_sequence = 1])}

(* Two joints that are homed where they stand, one at a time. *)
TwoInPlace ==
  {(0 :> Params(0, 0, {"IGNORE_LIMITS"})) @@
   (1 :> Params(0, 0, {"IGNORE_LIMITS"}))}

=============================================================================
