# MachineKit: models and proofs of the motion controller

MachineKit is a machine controller: G-code goes in at one end, and every servo
period new joint positions come out at the other. This directory holds TLA+
models of the part where a mistake moves a machine the wrong way, the real-time
motion controller in `src/src/emc/motion`, with TLC runs on small instances and
TLAPS proofs for every number of joints and every configuration.

All source paths below are relative to `src/src/`.

## 1. The system

| part | state | operations | what is hard about it |
|---|---|---|---|
| motion: command handler (`emc/motion/command.c`) | requested modes, jog flags, limit override, probe, queue | one `case` per command | tests flags that other functions clear periods later |
| motion: controller (`emc/motion/control.c`) | mode flags, in-position flag, joint errors | a fixed list of functions each period | every function acts on what another left |
| motion: homing (`emc/motion/homing.c`) | a 26-state machine per joint, and a 4-state machine for home-all | `do_homing()`, `do_homing_sequence()` | can be cut short in every state by six different causes |
| motion: user-space interface (`emc/motion/usrmotintf.cc`) | command and status structures in shared memory | write command, wait for echo, read status | copies that race the servo thread, a timeout |
| trajectory planner (`emc/kinematics/tp.c`, `tc.c`) | queue of segments, waits | add, run cycle, abort, pause | waits that survive aborts, a queue filled from a stale status |
| kinematics (`emc/kinematics/*kins.c`) | none | forward and inverse maps | floating point |
| task (`emc/task`) | interpreter state, execution state, interpreter list | plan, execute, abort | two coupled state machines and an abort from anywhere |
| canonical interface (`emc/task/emccanon.cc`) | linked segments | one function per canonical call | geometry |
| tool changer I/O (`emc/iotask`) | handshake pins, tool in spindle and pocket prepared | prepare, change, abort, fault | a fault and an answer in one pass |
| NML messages and interpreter list (`emc/nml_intf`) | a list | append, get, clear | small |
| RS274NGC interpreter (`emc/rs274ngc`, `canterp`, `sai`, `pythonplugin`) | program state | read, execute | size, not concurrency |
| INI readers (`emc/ini`), user interfaces (`emc/usr_intf`) | none of their own | start-up, GUI | I/O |
| HAL library (`hal/hal_lib.c`) | components, pins, signals, functions, threads | new, link, unlink, delete, add and remove functions | one mutex, and threads that do not take it |
| HAL components, drivers, utilities | per device | per device | independent of each other |
| ring buffer (`rtapi/ring.h`) | head, tail, records | write begin/end, read, shift, iterate | lock-free, records that wrap |
| RTAPI, shared memory, message daemon (`rtapi`) | segments, tasks, reference counts | attach, detach, start, log | several processes, crashes |
| NML transport (`libnml`) | shared buffers | read, write, peek | several processes |

The interpreter turns a program into NML messages in the interpreter list; task
takes them from there, sends motion commands through shared memory and tool
commands to the I/O controller, and reads both statuses back. The servo thread
runs the motion command handler and then the motion controller, once per
period; the controller talks to drivers through HAL pins.

What makes the core correct: a joint counts as homed only if it is; a machine
changes mode only when that is safe; whoever drives a joint (keyboard, wheel,
homing, planner) drives it alone; limit switches are ignored only while
something else watches them; and everything that was started comes to an end.
The hazards in `PROJECT.json` list, with their lines, the places where these
are at stake.

## 2. Modules

| module | models | lines of code behind it |
|---|---|---|
| `MotionData` | `emcmot_joint_t`, the motion flags, `checkAllHomed()`, `clearHomes()`; all CONSTANTS, assumptions and VARIABLES | `motion.h`, `motion.c`, `command.c` |
| `MotionCommand` | `emcmotCommandHandler()`: one action per command | `command.c` |
| `MotionControl` | `process_inputs()`, `process_probe_inputs()`, `check_for_faults()`, `set_operating_mode()`, `handle_jogwheels()`, `get_pos_cmds()` | `control.c` |
| `Homing` | `do_homing_sequence()` and `do_homing()`: one action per state | `homing.c` |
| `Motion` | `Init`, `Next`, fairness, the properties and the inductive invariant | `motion.c`, `emcmotController()` |
| `Rehoming` | `Motion` with two history variables: which joints a jog has led away from where they were homed, and whether all joints have travelled | |
| `MCMotion`, `MCRehoming` | homing configurations for TLC | |
| `MotionProofs` | the inductive invariant and the theorems about `Motion` | |
| `PauseProofs`, `RehomingProofs` | the pause timer; the theorem about `Rehoming` | |

Operators named `X_Y` next to a definition `X` are mutants: a plausible mistake
in the code of `X`. No specification uses them; putting one in the place of its
original shows that a property notices the mistake.

### How state and actions correspond to the code

*The servo period.* The command handler and the controller are functions of one
thread, so they never overlap. `pc` names the function that runs next; each
action is one whole function (one command, for the command handler), and moves
`pc` on. `do_homing()` alone takes several steps in a period: its loop over the
joints, with the local variables `joint_num`, `home_sw_active` and
`homing_flag`, and its inner `do ... while (immediate_state)`, are steps of the
model. That keeps each state of the machine an action of its own.

*Joints.* `joint[j]` has the flags of `emcmot_joint_t` under their own names.
Positions and velocities are reduced to what the control flow tells apart:
`free_tp_enable` and `free_tp_active` (the planner has been asked to move, is
moving), `vel_cmd` (the commanded velocity is not zero) and `motor_offset` (what
the coordinates were last set from: nothing, the first contact, or the final
latch). The direction of the search and latch velocities is a sign in
`homing_params`. How long a move takes is nondeterministic: a moving joint
stops, or not, in any period. In coordinated and teleop mode the joints follow
through interpolators that lag behind, so whether they move is left open there,
whatever the planner does.

*Modes.* `enabling`, `coordinating`, `teleoperating` are what was asked for,
`motion_enable`, `motion_coord`, `motion_teleop` what is; `motion_state` is
computed from the latter as at the end of `set_operating_mode()`.

*Planner.* Of the coordinated planner two facts are kept: `tp.done` (nothing is
queued or moving) and `tp.synced` (its position is the commanded one, as
`tpSetPos()` makes it). `TcQueue` and `TrajectoryPlanner` below will refine
this.

*Inputs.* Limit and home switches, faults, the enable pin, wheels, the probe,
the feed scale, the index pulse and the lock of a rotary joint may have any
value at every reading. The sets the values come from are constants, so that a
run can hold still what it does not ask about. A switch that bounces is
therefore included.

### Abstractions worth knowing

* A command that only stores a parameter or sets an output has no action.
  `ACTIVATE_JOINT`, `SET_HOMING_PARAMS` and `SET_MOTOR_OFFSET` are sent once, at
  start-up: their effect is the constant `ActiveJoints`, the choice of
  `homing_params` in `Init`, and offsets that the model calls "unset", since no
  joint has been homed yet. `DEACTIVATE_JOINT` has no action: no program of the
  repository calls `emcAxisDeactivate()`, which alone sends it, so the active
  joints never change.
* A jog has a direction, or, with velocity zero, none: it then passes both hard
  limit tests of `jog_ok()`, arms the free planner and owns the joint like any
  other jog.
* `PAUSE`, `RESUME` and `STEP` change the planner only; a paused planner is one
  that does not get done.
* The shared-memory handshake around a command is not in this model: the
  handler receives each command once and whole.
* Soft limits and the range checks on a target are a nondeterministic verdict.

## 3. Runs

| run | instance | shows |
|---|---|---|
| `homing` | one joint, seven homing configurations (search, latch, index, shared switch, lock, in place, two invalid), all inputs of homing, interference by jogs, wheel, aborts, limit switches and mode changes | `TypeOK`, `HomedIsReferenced`, `HomingOwnsLimits`, `HomingIsReported`, `NoJogWhileHoming`, `PauseStartsAfresh`, `HomingTerminates` |
| `modes` | one joint, no forward kinematics, all three modes, both jogs, limit override | `OneJogSource`, `OverrideEndsWithMove`, `JogForgetsHome`, `LeavesFreeAtRest` |
| `coordinated` | one joint, moves, probing, tapping, faults, enable pin, feed hold; no teleop | `ProbingInCoord`, `CoordStartsFromCommand` |
| `sequence` | two joints homed in two steps, with a shared switch | `SequenceInOrder`, `HomeAllTerminates` |
| `rehoming` | two joints, no forward kinematics, homing joint by joint, both jogs, coordinated, probing and teleop moves, `UNHOME`; no rigid tap | `CoordNeedsRehoming` |
| `limitflag`, `coordhomed`, `coordempty`, `enablefree`, `rigidtap` | the smallest instances that show the findings of section 5 | one violated property each |

**Bounds.** One joint is enough for the properties that speak of one joint: the
functions treat the joints one after the other and the only links between them
are home-all, `homing_active`, the shared home switch, `allHomed`, `rehomeAll`
and the in-position flag. `sequence` and `rehoming` have the two joints these
need (one that is jogged and one that `rehomeAll` must also clear), and the
proofs have any number. `HOME_DELAY` is 1 period (0 in `sequence` and
`rehoming`), so that the pause is entered, waited for and left. No counter had to be cut off: all state
is finite by nature. `home_sequence` is any natural number in the proofs and 0
to 2 in the runs.

**Fairness** (`FairSpec`, for the two liveness properties only).
`WF_vars(Next)`: the servo thread is periodic. A strong fairness condition per
joint on the end of a free-mode move: `free_pos_cmd` is always a position at a
finite distance, and homing moves ignore the feed override. Another on the
answer of a rotary lock, which the code also takes for granted. The last says
that a joint about to search, having backed off its switch, does not for ever
find itself on it again: the code answers that with another back-off, without
limit, and a switch that behaves so is broken. No fairness is assumed of user
space. Both properties end with "or the machine left free mode", since
`do_homing()` returns at once outside it.

**Teleop.** `coordinated` leaves out teleop mode on purpose. Entered from
coordinated mode it keeps the COORD flag, and with it `PROBE` is accepted
there and the return to coordinated mode skips `tpSetPos()`. Both properties of
the run fail with `TELEOP` and `SET_TELEOP_VECTOR` among its commands; the
hazards say so.

**Rehoming.** `clearHomes()` exists so that "a transition into coordinated mode"
does not "incorrectly assume the homed position". `Rehoming` states that purpose
without the flags that implement it: a jog leads its joint astray, all joints
once a coordinated or teleop move was made, and a joint is back when it is homed
again. `CoordNeedsRehoming` says that no mode change to coordinated or teleop
finds an active joint astray. The flags, the `allHomed` cache and a request that
passed the test a moment before the jog could each break it. The run leaves out
`RIGID_TAP`, which moves the joints without setting `rehomeAll`: with it the
property fails, by a tap that is given up at depth followed by a jog.

**UNHOME.** `sequence` leaves out `UNHOME`, which resets the homed flag and not
the AT_HOME flag that home-all looks at: with it `SequenceInOrder` fails when a
joint then refuses to start because its shared switch is closed.

## 4. Proofs

All theorems rest on the named assumptions of `MotionData` (at least one joint,
active joints among the joints, a kinematics type, configurations of the right
type, a natural `HOME_DELAY`, inputs of the right type). From these alone:

* `TypeOK` (`TypeCorrect`),
* `HomedIsReferenced`, `OneJogSource`, `HomingOwnsLimits`, `HomingIsReported`,
  `OverrideEndsWithMove` (theorems of those names with `Always`),
* the action properties `LeavesFreeAtRest`, `NoJogWhileHoming` and
  `PauseStartsAfresh`.

Under an assumption stated in the theorem. The properties fail when `TELEOP`,
`UNHOME` or `RIGID_TAP` is let in; the other two assumptions are what the
arguments need:

* `CoordStartsFromCommand` and `ProbingInCoord`: no `TELEOP`;
* `SequenceInOrder`: no `UNHOME`, and forward kinematics (a jog then forgets no
  home);
* `JogForgetsHome`: no `HOME_ALL`;
* `CoordNeedsRehoming`: no `RIGID_TAP`.

**The invariant.** `Inv` in `Motion` is inductive:

    Inv == TypeOK /\ JointsOK /\ HomingCovered /\ InPosIsRest /\ OverrideEndsWithMove

None of the properties is inductive alone.

* `HomedIsReferenced` breaks when `FINISHED` sets the homed flag, unless the
  joint is known to be latched in the states that lead there (`LatchedStates`),
  and when the coarse position is set, unless a joint inside the state machine
  is known not to be homed. Both are conjuncts of `JointOK`, which is a
  predicate on one joint's record, so that most of the work is lemmas about one
  record.
* `HomingIsReported` speaks of the moment between two periods. Inside the loop
  of `do_homing()` what holds is that `homing_flag` covers the joints already
  passed; `HomingCovered` says so for every `pc`.
* `LeavesFreeAtRest` needs to know that the in-position flag read by
  `set_operating_mode()` still says what `get_pos_cmds()` saw: `InPosIsRest`
  holds from there, through commands and inputs, up to the mode change, and not
  after it, where the wheel may start a joint.

The other theorems add an invariant of their own to `Inv`.

* `CoordInv` (`CoordStartsFromCommand`, `ProbingInCoord`): out of coordinated
  mode nothing is queued, and the modes asked for and in force agree except
  between the command handler and `set_operating_mode()` (`Deciding`).
* `SequenceInv`: the joints of the earlier steps are homed and idle, and AT_HOME,
  which is what home-all looks at, says as much.
* `JogInv`: a jog that outlives the start of homing is over before the joint
  locks, and a joint is homing unreported by `homing_active` only within the
  period of its HOME command.
* `TimerInv` (`PauseProofs`): the shared timer is zero outside the states that
  wait and the states an abort passes through.
* `RehomingInv` (`RehomingProofs`): whatever moves all joints has set
  `rehomeAll`; no joint that is astray is homed; and while an active one is, the
  way into the other modes is `Barred`: the cache does not claim that all are
  homed, and no accepted request is waiting for `set_operating_mode()`.

**The argument.** `GoodJoint` is `JointType` with `JointOK`. The lemmas `Good...`
show that every update of a joint's record that the code makes keeps it good,
then that every action does; `HomingPieces`, `HomingJoint` and `HomingAdvances`
treat the 26 states of `do_homing()` through the four ways a state ends (again
at once, next period, give up, abort). `Type...` are the types of the other
variables per action, `CoveredNext`, `InPosNext` and `OverrideNext` the three
remaining conjuncts. `InvInit` and `InvNext` put them together, and each theorem
follows with a propositional temporal step. The theorems that need their own
invariant share lemmas on what each function does to one joint (`CommandJoint`,
`InputJoint`, `ModeJoint`, `WheelJoint`, `PlannerJoint`, `SequenceJoint`,
`HomingSteps`).

**Only model-checked.** `HomingTerminates` and `HomeAllTerminates` are liveness
under fairness, outside the prover's reach. `JogForgetsHome` with `HOME_ALL` is
neither proved nor checked: home-all may clear `homing_active` while another
joint of the step is in the middle of homing (a hazard of its own), and the
argument of `JogInv` rests on that flag.

## 5. Findings

Five statements of comments and documents that the code does not keep, each
with a run whose counterexample shows how (`PROJECT.json` quotes the lines):

* `limitflag`: a homing that fails on its own (not by a limit or an abort)
  leaves the HOMING flag set, and the joint's limit switches stay unchecked.
* `coordhomed`: the cached `allHomed` survives `UNHOME`.
* `coordempty`: a move queued in teleop mode survives a visit to free mode.
* `enablefree`: disabled while moving, a machine without forward kinematics is
  enabled again in coordinated mode.
* `rigidtap`: a rigid tap does not set `rehomeAll`, which is said to be set "for
  any coordinated move that in general will result in all joints moving".

## 6. Plan

1. Done: the motion controller above, and its safety theorems.
2. `RecordRing` (`rtapi/ring.h`): writer and reader as two processes at the
   granularity of their loads and stores; an abstract FIFO of records with the
   ring shown to implement it by refinement; records that wrap, a full ring,
   iterators. Theorem: the reader sees only written records, in order.
3. `CommandBuffer` (`usrmotintf.cc`, head and tail of `command.c`): copy, echo,
   timeout; each command is executed at most once and never half-read.
4. `TcQueue` and `TrajectoryPlanner` (`tc.c`, `tp.c`): the circular queue
   against a sequence, and the waits of `tpRunCycle()`; the planner as a
   refinement of `tp` in `Motion`.
5. `IoControl` (`ioControl_v2.cc`): the tool change handshakes with faults.
6. Task (`emctaskmain.cc`) with the interpreter list, over 3 to 5.
7. HAL links against running threads (`hal_lib.c`), shared-memory reference
   counts.
8. Proofs: refinement and invariants of `RecordRing` and `CommandBuffer`.

**Not modelled, and not planned:** kinematics, cubic interpolation, geometry and
`simple_tp` (floating point); the RS274NGC interpreter (sequential, and as large
as the rest together); user interfaces, INI readers, drivers and stand-alone HAL
components (I/O, independent of the core).
