---------------------------- MODULE BagRecorder ----------------------------
(***************************************************************************)
(* The recorder/player multiplexer ("MUX"), arm_bag_recorder.py: the node  *)
(* that arbitrates between live teleoperation and the replay of a recorded *)
(* bag, and owns the one rosbag child process it may have running.         *)
(*                                                                         *)
(* Actors: the control subscriber (one thread, holding _state_lock from    *)
(* the first to the last line of a command), the teleop subscriber, one    *)
(* replay callback thread per player, the 10 Hz timer, the shutdown hook   *)
(* on the main thread, and the child processes.  A callback that holds the *)
(* lock and does not wait inside is one action guarded by LockFree; a      *)
(* command is a sequence of actions under ctl.pc; the unlocked parts of    *)
(* the replay callbacks and of the hook are actions without that guard.    *)
(***************************************************************************)
EXTENDS Naturals

CONSTANTS
    Slots,         \* the slots, 1..NUM_SLOTS in the code
    NoSlot,        \* _active_slot = None
    NoProc,        \* _proc = None
    NoRec,         \* there is no such file
    PlaybackMode,  \* the ~playback_mode parameter, "joints" or "ee"
    MayShutdown,   \* whether the node may be asked to shut down
    MaxCmds,       \* bound: commands that take the lock and stop the child
    MaxPending     \* bound: replayed messages of one player not yet handled

StateName == {"IDLE", "RECORDING", "PLAYING", "PLAYING_EE"}
PlayState == IF PlaybackMode = "ee" THEN "PLAYING_EE" ELSE "PLAYING"

\* A recording is named by the number of the RECORD command that made it, 0
\* for one left by an earlier run of the node.
Rec   == 0..MaxCmds
File  == Rec \cup {NoRec}
Child == [id: 1..MaxCmds, kind: {"record", "play", "peek"}, slot: Slots, bag: File]
Goal  == [src: {"none", "teleop", "preposition", "replay"}, of: 0..MaxCmds]

ASSUME SlotsAssumption == NoSlot \notin Slots
ASSUME ProcAssumption  == NoProc \notin Child
ASSUME RecAssumption   == NoRec \notin Nat
ASSUME ModeAssumption  == PlaybackMode \in {"joints", "ee"}
ASSUME BoundAssumption == MaxCmds \in Nat /\ MaxPending \in Nat /\ MayShutdown \in BOOLEAN

VARIABLES
    state,       \* self._state
    activeSlot,  \* self._active_slot
    proc,        \* self._proc
    capture,     \* session whose CSV self._capture_file is, 0 for None
    lastPose,    \* session whose pose self._last_ee_pose is, 0 for None
    status,      \* the latched message on /sgr532/bag_status
    ctl,         \* the control thread: where in the current command it is
    cmds,        \* number of the current command
    cb,          \* replay callback thread of each player
    pending,     \* messages of each player waiting for its callback thread
    goal,        \* the last goal the arm client sent and did not cancel
    live,        \* rosbag child processes that are running
    sig,         \* those of them that have been sent SIGINT
    bag,         \* slot_N.bag: which recording it holds
    act,         \* slot_N.bag.active: which recording it holds
    latest,      \* history: the last recording started in each slot
    phase,       \* the node: up, hook, hookwait, hooked or dead
    hook         \* the child the shutdown hook waits for

muxVars   == <<state, activeSlot, proc, capture, lastPose, status>>
fileVars  == <<bag, act, latest>>
childVars == <<live, sig>>
cbVars    == <<cb, pending>>
nodeVars  == <<phase, hook>>
vars == <<muxVars, ctl, cmds, cbVars, goal, childVars, fileVars, nodeVars>>

Ready  == [pc |-> "ready", op |-> "none", slot |-> NoSlot, path |-> "none", victim |-> NoProc]
NoGoal == [src |-> "none", of |-> 0]

\* The command in progress goes on to its next step, waiting for child v.
Goto(pc, v) ==
    ctl' = [pc |-> pc, op |-> ctl.op, slot |-> ctl.slot, path |-> ctl.path, victim |-> v]

\* Nobody holds _state_lock: every other holder is an atomic action.
LockFree  == ctl.pc = "ready"
IsPlaying == state \in {"PLAYING", "PLAYING_EE"}

\* _playable_path: the finalized bag, else the .active file, else nothing.
PlayablePath(s) ==
    IF bag[s] # NoRec THEN "bag" ELSE IF act[s] # NoRec THEN "active" ELSE "none"
\* What a child that opens that path finds there when it does.
Content(s, path) == IF path = "bag" THEN bag[s] ELSE act[s]

\* Process c is running no more (it exited, crashed or was killed).
Gone(c) == live' = live \ {c} /\ sig' = sig \ {c}
Signal(c) == sig' = IF c \in live THEN sig \cup {c} ELSE sig

\* Mutant: a transition that forgets _publish_status.
PublishForgotten(st, s) == state' = st /\ activeSlot' = s /\ UNCHANGED status

Publish(st, s) == state' = st /\ activeSlot' = s /\ status' = <<st, s>>

\* At start-up a slot is empty or holds one recording, finalized or left as
\* .bag.active by a crash.
Init ==
    /\ state = "IDLE" /\ activeSlot = NoSlot /\ status = <<"IDLE", NoSlot>>
    /\ proc = NoProc /\ capture = 0 /\ lastPose = 0
    /\ ctl = Ready /\ cmds = 0
    /\ cb = [k \in 1..MaxCmds |-> "idle"]
    /\ pending = [k \in 1..MaxCmds |-> 0]
    /\ goal = NoGoal
    /\ live = {} /\ sig = {}
    /\ bag \in [Slots -> {0, NoRec}]
    /\ act \in [Slots -> {0, NoRec}]
    /\ \A s \in Slots : bag[s] = NoRec \/ act[s] = NoRec
    /\ latest = [s \in Slots |-> IF bag[s] # NoRec THEN bag[s] ELSE act[s]]
    /\ phase = "up" /\ hook = NoProc

---------------------------------------------------------------------------
(* The control subscriber                                                  *)

\* A command takes the lock and enters _cmd_stop: _stop_subprocess signals a
\* running child and starts to wait for it.
Accept(op, s, path) ==
    /\ phase = "up" /\ LockFree /\ cmds < MaxCmds
    /\ cmds' = cmds + 1
    /\ ctl' = [pc |-> "stopping", op |-> op, slot |-> s, path |-> path,
               victim |-> IF proc \in live THEN proc ELSE NoProc]
    /\ Signal(proc)
    /\ UNCHANGED <<muxVars, cbVars, goal, live, fileVars, nodeVars>>

\* Mutant: no check that the slot has a bag.
PlayCmdUnchecked(s) == Accept("play", s, "bag")

RecordCmd(s) == Accept("record", s, "none")
\* The path is chosen before the stop; a slot with no bag ends the command
\* there, with nothing changed.
PlayCmd(s) == PlayablePath(s) # "none" /\ Accept("play", s, PlayablePath(s))
StopCmd == Accept("stop", NoSlot, "none")

\* Mutant: CLEAR does not ask for IDLE.
ClearCmdAnytime(s) ==
    /\ phase = "up" /\ LockFree
    /\ bag' = [bag EXCEPT ![s] = NoRec]
    /\ act' = [act EXCEPT ![s] = NoRec]
    /\ latest' = [latest EXCEPT ![s] = NoRec]
    /\ UNCHANGED <<muxVars, ctl, cmds, cbVars, goal, childVars, nodeVars>>

\* CLEAR is refused unless IDLE and touches nothing but the slot's files.
ClearCmd(s) ==
    /\ phase = "up" /\ LockFree /\ state = "IDLE"
    /\ bag' = [bag EXCEPT ![s] = NoRec]
    /\ act' = [act EXCEPT ![s] = NoRec]
    /\ latest' = [latest EXCEPT ![s] = NoRec]
    /\ UNCHANGED <<muxVars, ctl, cmds, cbVars, goal, childVars, nodeVars>>

\* Mutant: goals in force are not cancelled.
StopDoneNoCancel ==
    /\ proc' = NoProc /\ capture' = 0 /\ lastPose' = 0 /\ UNCHANGED goal
    /\ Publish("IDLE", NoSlot)
    /\ \/ ctl.op = "record" /\ Goto("spawn", NoProc)
       \/ ctl.op = "play" /\ Goto("peek", NoProc)
       \/ ctl.op = "stop" /\ ctl' = Ready
    /\ UNCHANGED <<cmds, cbVars, fileVars, nodeVars>>
\* Mutant: the capture is not closed.
StopDoneNoCapture ==
    /\ proc' = NoProc /\ lastPose' = 0 /\ goal' = NoGoal
    /\ Publish("IDLE", NoSlot)
    /\ \/ ctl.op = "record" /\ Goto("spawn", NoProc)
       \/ ctl.op = "play" /\ Goto("peek", NoProc)
       \/ ctl.op = "stop" /\ ctl' = Ready
    /\ UNCHANGED <<capture, cmds, cbVars, fileVars, nodeVars>>

\* _cmd_stop once the child is gone, and the command goes on to what it was for.
StopDone ==
    /\ proc' = NoProc /\ capture' = 0 /\ lastPose' = 0 /\ goal' = NoGoal
    /\ Publish("IDLE", NoSlot)
    /\ \/ ctl.op = "record" /\ Goto("spawn", NoProc)
       \/ ctl.op = "play" /\ Goto("peek", NoProc)
       \/ ctl.op = "stop" /\ ctl' = Ready
    /\ UNCHANGED <<cmds, cbVars, fileVars, nodeVars>>

\* Mutant: _proc is dropped without a wait.
StopReapNoWait ==
    /\ phase # "dead" /\ ctl.pc = "stopping"
    /\ UNCHANGED childVars /\ StopDone

\* The wait ends because the child is gone, or after 10 s with a kill.
StopReap ==
    /\ phase # "dead" /\ ctl.pc = "stopping"
    /\ \/ ctl.victim \notin live /\ UNCHANGED childVars
       \/ ctl.victim \in live /\ proc # NoProc /\ Gone(proc)
    /\ StopDone

\* The wait timed out, but the shutdown hook has killed the child and set
\* _proc to None since: self._proc.kill() raises, the command is abandoned.
StopRaises ==
    /\ phase # "dead" /\ ctl.pc = "stopping"
    /\ ctl.victim # NoProc /\ proc = NoProc
    /\ ctl' = Ready
    /\ UNCHANGED <<muxVars, cmds, cbVars, goal, childVars, fileVars, nodeVars>>

\* Mutant: the .bag.active of a crashed recorder is left.
EraseBagOnly(s) == bag' = [bag EXCEPT ![s] = NoRec] /\ UNCHANGED act

\* _cmd_record after the stop: both files go, the recorder starts.
EraseFiles(s) == bag' = [bag EXCEPT ![s] = NoRec] /\ act' = [act EXCEPT ![s] = NoRec]

RecordSpawn ==
    /\ phase # "dead" /\ ctl.pc = "spawn"
    /\ EraseFiles(ctl.slot)
    /\ latest' = [latest EXCEPT ![ctl.slot] = cmds]
    /\ LET c == [id |-> cmds, kind |-> "record", slot |-> ctl.slot, bag |-> NoRec]
       IN  proc' = c /\ live' = live \cup {c}
    /\ Publish("RECORDING", ctl.slot)
    /\ ctl' = Ready
    /\ UNCHANGED <<capture, lastPose, cmds, cbVars, goal, sig, nodeVars>>

\* Popen raises after the files have been removed.
RecordSpawnFails ==
    /\ phase # "dead" /\ ctl.pc = "spawn"
    /\ EraseFiles(ctl.slot)
    /\ latest' = [latest EXCEPT ![ctl.slot] = NoRec]
    /\ ctl' = Ready
    /\ UNCHANGED <<muxVars, cmds, cbVars, goal, childVars, nodeVars>>

\* No compute_ik service (ee), or Popen of the peek raises: the command ends.
PeekAborts ==
    /\ phase # "dead" /\ ctl.pc = "peek"
    /\ ctl' = Ready
    /\ UNCHANGED <<muxVars, cmds, cbVars, goal, childVars, fileVars, nodeVars>>

\* A throw-away player that only serves the initial pose; _proc never refers
\* to it.
PeekSpawn ==
    /\ phase # "dead" /\ ctl.pc = "peek"
    /\ LET c == [id |-> cmds, kind |-> "peek", slot |-> ctl.slot,
                 bag |-> Content(ctl.slot, ctl.path)]
       IN  live' = live \cup {c} /\ Goto("peeking", c)
    /\ UNCHANGED <<muxVars, cmds, cbVars, goal, sig, fileVars, nodeVars>>

\* The peek player is reaped.  With a pose (and, in ee mode, a solution for
\* it) the arm is sent there; without one pre-positioning is skipped.
PeekEnds ==
    /\ phase # "dead" /\ ctl.pc = "peeking"
    /\ Gone(ctl.victim)
    /\ \/ /\ ctl.victim.bag # NoRec
          /\ goal' = [src |-> "preposition", of |-> cmds]
          /\ Goto("moving", NoProc)
       \/ /\ Goto("launch", NoProc)
          /\ UNCHANGED goal
    /\ UNCHANGED <<muxVars, cmds, cbVars, fileVars, nodeVars>>

\* _move_to_and_wait returns: start pose reached, or 5 s gone.
PrePositioned ==
    /\ phase # "dead" /\ ctl.pc = "moving"
    /\ Goto("launch", NoProc)
    /\ UNCHANGED <<muxVars, cmds, cbVars, goal, childVars, fileVars, nodeVars>>

\* rate.sleep() raises once the node is shutting down: the command ends.
PrePositionInterrupted ==
    /\ phase \notin {"up", "dead"} /\ ctl.pc = "moving"
    /\ ctl' = Ready
    /\ UNCHANGED <<muxVars, cmds, cbVars, goal, childVars, fileVars, nodeVars>>

\* Deadband reset (ee only), capture opened, player started, state published.
Launch ==
    /\ phase # "dead" /\ ctl.pc = "launch"
    /\ lastPose' = IF PlaybackMode = "ee" THEN 0 ELSE lastPose
    /\ capture' = cmds
    /\ LET c == [id |-> cmds, kind |-> "play", slot |-> ctl.slot,
                 bag |-> Content(ctl.slot, ctl.path)]
       IN  proc' = c /\ live' = live \cup {c}
    /\ Publish(PlayState, ctl.slot)
    /\ ctl' = Ready
    /\ UNCHANGED <<cmds, cbVars, goal, sig, fileVars, nodeVars>>

\* Popen of the player raises: the capture stays open, the state IDLE.
LaunchFails ==
    /\ phase # "dead" /\ ctl.pc = "launch"
    /\ lastPose' = IF PlaybackMode = "ee" THEN 0 ELSE lastPose
    /\ capture' = cmds
    /\ ctl' = Ready
    /\ UNCHANGED <<state, activeSlot, proc, status, cmds, cbVars, goal, childVars,
                   fileVars, nodeVars>>

ControlStep ==
    \/ StopReap \/ StopRaises
    \/ RecordSpawn \/ RecordSpawnFails
    \/ PeekAborts \/ PeekSpawn \/ PeekEnds
    \/ PrePositioned \/ PrePositionInterrupted
    \/ Launch \/ LaunchFails

---------------------------------------------------------------------------
(* Timer, teleop and the replay callbacks                                  *)

\* Mutant: the player is reaped and its state kept.
PlaybackTimerReapsOnly ==
    /\ phase # "dead" /\ LockFree
    /\ IsPlaying /\ proc \notin live
    /\ proc' = NoProc /\ capture' = 0 /\ lastPose' = 0
    /\ Publish(state, activeSlot)
    /\ UNCHANGED <<ctl, cmds, cbVars, goal, childVars, fileVars, nodeVars>>

\* _playback_timer_cb: the player has exited by itself.
PlaybackTimer ==
    /\ phase # "dead" /\ LockFree
    /\ IsPlaying /\ proc # NoProc /\ proc \notin live
    /\ proc' = NoProc /\ capture' = 0 /\ lastPose' = 0
    /\ Publish("IDLE", NoSlot)
    /\ UNCHANGED <<ctl, cmds, cbVars, goal, childVars, fileVars, nodeVars>>

\* _ik_goal_callback: a teleop goal, dropped while playing.
IkGoal ==
    /\ phase # "dead" /\ LockFree /\ ~IsPlaying
    /\ goal' = [src |-> "teleop", of |-> 0]
    /\ UNCHANGED <<muxVars, ctl, cmds, cbVars, childVars, fileVars, nodeVars>>

\* A replay callback returns to wait for its next message.
CallbackReturns(k) == cb' = [cb EXCEPT ![k] = "idle"]

\* _playback_js_callback / _playback_ee_callback, the check under the lock.
ReplayEnter(k) ==
    /\ phase # "dead" /\ LockFree
    /\ cb[k] = "idle" /\ pending[k] > 0
    /\ pending' = [pending EXCEPT ![k] = @ - 1]
    /\ cb' = [cb EXCEPT ![k] = IF state = PlayState THEN "passed" ELSE "idle"]
    /\ UNCHANGED <<muxVars, ctl, cmds, goal, childVars, fileVars, nodeVars>>

\* Joints mode: the goal is sent after the lock has been given back.
JsSend(k) ==
    /\ phase # "dead" /\ PlaybackMode = "joints" /\ cb[k] = "passed"
    /\ goal' = [src |-> "replay", of |-> k]
    /\ CallbackReturns(k)
    /\ UNCHANGED <<muxVars, ctl, cmds, pending, childVars, fileVars, nodeVars>>

\* Ee mode, without the lock: a pose close to the last one is dropped, any
\* other becomes the last one and goes to compute_ik.
EeDeadband(k) ==
    /\ phase # "dead" /\ PlaybackMode = "ee" /\ cb[k] = "passed"
    /\ \/ lastPose # 0 /\ CallbackReturns(k) /\ UNCHANGED lastPose
       \/ lastPose' = k /\ cb' = [cb EXCEPT ![k] = "solving"]
    /\ UNCHANGED <<state, activeSlot, proc, capture, status, ctl, cmds, pending, goal,
                   childVars, fileVars, nodeVars>>

\* No solution, or the service call failed.
EeIkFails(k) ==
    /\ phase # "dead" /\ cb[k] = "solving"
    /\ CallbackReturns(k)
    /\ UNCHANGED <<muxVars, ctl, cmds, pending, goal, childVars, fileVars, nodeVars>>

\* Mutant: no re-check after compute_ik.
EeSendUnchecked(k) ==
    /\ phase # "dead" /\ LockFree /\ cb[k] = "solving"
    /\ goal' = [src |-> "replay", of |-> k]
    /\ CallbackReturns(k)
    /\ UNCHANGED <<muxVars, ctl, cmds, pending, childVars, fileVars, nodeVars>>

\* Re-check and send, both under the lock.
EeSend(k) ==
    /\ phase # "dead" /\ LockFree /\ cb[k] = "solving"
    /\ goal' = IF state = "PLAYING_EE" THEN [src |-> "replay", of |-> k] ELSE goal
    /\ CallbackReturns(k)
    /\ UNCHANGED <<muxVars, ctl, cmds, pending, childVars, fileVars, nodeVars>>

ReplayStep(k) == ReplayEnter(k) \/ JsSend(k) \/ EeDeadband(k) \/ EeIkFails(k) \/ EeSend(k)

---------------------------------------------------------------------------
(* The children and the arm driver (external)                              *)

\* A player publishes the next message of the bag it has opened.
PlayerPublishes(c) ==
    /\ phase = "up" /\ c.kind = "play" /\ c.bag # NoRec
    /\ pending[c.id] < MaxPending
    /\ pending' = [pending EXCEPT ![c.id] = @ + 1]
    /\ UNCHANGED <<muxVars, ctl, cmds, cb, goal, childVars, fileVars, nodeVars>>

\* A player comes to the end of its bag, obeys SIGINT, finds no file, or
\* crashes.
PlayerExits(c) ==
    /\ c.kind \in {"play", "peek"}
    /\ Gone(c)
    /\ UNCHANGED <<muxVars, ctl, cmds, cbVars, goal, fileVars, nodeVars>>

\* rosbag record opens slot_N.bag.active.
RecorderWrites(c) ==
    /\ c.kind = "record" /\ act[c.slot] # c.id
    /\ act' = [act EXCEPT ![c.slot] = c.id]
    /\ UNCHANGED <<muxVars, ctl, cmds, cbVars, goal, childVars, bag, latest, nodeVars>>

\* On SIGINT it writes the index, renames .bag.active to .bag, and exits.
RecorderFinalizes(c) ==
    /\ c.kind = "record" /\ c \in sig
    /\ IF act[c.slot] = c.id
       THEN /\ bag' = [bag EXCEPT ![c.slot] = c.id]
            /\ act' = [act EXCEPT ![c.slot] = NoRec]
       ELSE UNCHANGED <<bag, act>>
    /\ Gone(c)
    /\ UNCHANGED <<muxVars, ctl, cmds, cbVars, goal, latest, nodeVars>>

\* It crashes: the .active file stays as it is.
RecorderDies(c) ==
    /\ c.kind = "record"
    /\ Gone(c)
    /\ UNCHANGED <<muxVars, ctl, cmds, cbVars, goal, fileVars, nodeVars>>

ChildStep(c) ==
    \/ PlayerPublishes(c) \/ PlayerExits(c)
    \/ RecorderWrites(c) \/ RecorderFinalizes(c) \/ RecorderDies(c)

\* The driver is done with the goal it was sent.
GoalDone ==
    /\ goal.src # "none"
    /\ goal' = NoGoal
    /\ UNCHANGED <<muxVars, ctl, cmds, cbVars, childVars, fileVars, nodeVars>>

---------------------------------------------------------------------------
(* Shutdown: _shutdown_handler runs on the main thread without the lock    *)

BeginShutdown ==
    /\ MayShutdown /\ phase = "up"
    /\ phase' = "hook"
    /\ UNCHANGED <<muxVars, ctl, cmds, cbVars, goal, childVars, fileVars, hook>>

HookSignal ==
    /\ phase = "hook"
    /\ phase' = "hookwait"
    /\ hook' = IF proc \in live THEN proc ELSE NoProc
    /\ Signal(proc)
    /\ UNCHANGED <<muxVars, ctl, cmds, cbVars, goal, live, fileVars>>

\* Mutant: the hook does not kill a child that ignores SIGINT.
HookReapNoKill ==
    /\ phase = "hookwait"
    /\ UNCHANGED childVars
    /\ proc' = NoProc /\ capture' = 0
    /\ phase' = "hooked"
    /\ UNCHANGED <<state, activeSlot, lastPose, status, ctl, cmds, cbVars, goal, fileVars,
                   hook>>

\* _proc is set to None whatever it is by now, and the capture closed.
HookReap ==
    /\ phase = "hookwait"
    /\ IF hook \in live THEN Gone(hook) ELSE UNCHANGED childVars
    /\ proc' = NoProc /\ capture' = 0
    /\ phase' = "hooked"
    /\ UNCHANGED <<state, activeSlot, lastPose, status, ctl, cmds, cbVars, goal, fileVars,
                   hook>>

\* Between its check of _proc and its use the command has reaped the child:
\* self._proc.wait() or send_signal() raises on None, the handler ends.
HookRaises ==
    /\ phase = "hookwait" /\ hook # NoProc /\ proc = NoProc
    /\ phase' = "hooked"
    /\ UNCHANGED <<muxVars, ctl, cmds, cbVars, goal, childVars, fileVars, hook>>

\* The main thread returns: the daemon threads stop where they are, and what
\* is still running has lost its parent.
NodeExit ==
    /\ phase = "hooked"
    /\ phase' = "dead"
    /\ UNCHANGED <<muxVars, ctl, cmds, cbVars, goal, childVars, fileVars, hook>>

ShutdownStep == BeginShutdown \/ HookSignal \/ HookReap \/ HookRaises \/ NodeExit

Next ==
    \/ \E s \in Slots : RecordCmd(s) \/ PlayCmd(s) \/ ClearCmd(s)
    \/ StopCmd
    \/ ControlStep
    \/ PlaybackTimer \/ IkGoal
    \/ \E k \in 1..MaxCmds : ReplayStep(k)
    \/ \E c \in live : ChildStep(c)
    \/ GoalDone
    \/ ShutdownStep

\* Every wait inside a command has a timeout, the timer keeps firing, a bag is
\* finite and a recorder obeys SIGINT or is killed.  Nothing is assumed of
\* commands, of teleop, of replayed messages or of the driver.
Fairness ==
    /\ WF_vars(ControlStep)
    /\ WF_vars(PlaybackTimer)
    /\ WF_vars(\E c \in live : PlayerExits(c))

Spec == Init /\ [][Next]_vars
FairSpec == Spec /\ Fairness

---------------------------------------------------------------------------
(* Properties                                                              *)

\* Every variable stays within its type; a command in progress names a slot.
TypeOK ==
    /\ state \in StateName /\ activeSlot \in Slots \cup {NoSlot}
    /\ status \in StateName \X (Slots \cup {NoSlot})
    /\ proc \in Child \cup {NoProc} /\ hook \in Child \cup {NoProc}
    /\ capture \in 0..MaxCmds /\ lastPose \in 0..MaxCmds /\ cmds \in 0..MaxCmds
    /\ ctl \in [pc: {"ready", "stopping", "spawn", "peek", "peeking", "moving", "launch"},
                op: {"none", "record", "play", "stop"}, slot: Slots \cup {NoSlot},
                path: {"none", "bag", "active"}, victim: Child \cup {NoProc}]
    /\ cb \in [1..MaxCmds -> {"idle", "passed", "solving"}]
    /\ pending \in [1..MaxCmds -> 0..MaxPending]
    /\ goal \in Goal
    /\ live \subseteq Child /\ sig \subseteq live
    /\ bag \in [Slots -> File] /\ act \in [Slots -> File] /\ latest \in [Slots -> File]
    /\ phase \in {"up", "hook", "hookwait", "hooked", "dead"}

\* However commands, crashes, timeouts and a shutdown interleave, the node never has two
\* rosbag children: every start is behind a stop that reaped the last one.
OneChild == \A c, d \in live : c = d

\* Between commands the latched status is what the node's child shows: an
\* IDLE node runs nothing, and RECORDING:n / PLAYING:n name the kind and slot
\* of the child _stop_subprocess would stop.
StatusTellsChild ==
    phase = "up" /\ LockFree =>
        IF status[1] = "IDLE" THEN live = {}
        ELSE /\ proc # NoProc /\ live \subseteq {proc}
             /\ proc.slot = status[2]
             /\ proc.kind = IF status[1] = "RECORDING" THEN "record" ELSE "play"

\* While a playback owns the arm no teleop goal is in force: the ones sent
\* before were cancelled, the ones during pre-positioning waited for the lock.
TeleopBlocked == IsPlaying => goal.src # "teleop"

\* While a slot is being recorded no replayed motion drives the arm, so what
\* the recorder stores is the operator's own motion (ee mode).
RecordsLiveOnly == state = "RECORDING" => goal.src \in {"none", "teleop"}

\* A player plays the last recording made in its slot, never one that a
\* RECORD or CLEAR was meant to replace, whatever recorder was killed between.
PlayNewest == \A c \in live : c.kind = "play" => c.bag \in {NoRec, latest[c.slot]}

\* The mode, slot and files of this node behave as ArmMux promises.
Stored(s) == bag[s] # NoRec \/ act[s] # NoRec
Abs == INSTANCE ArmMux WITH
           mode <- state, slot <- activeSlot, stored <- [s \in Slots |-> Stored(s)]
\* Safety part alone, and with the promise that a playback ends by itself.
ImplementsArmMux == Abs!Spec
FairlyImplementsArmMux == Abs!FairSpec

\* No step removes the files of a slot that a rosbag child is using.
NoUnlinkInUse ==
    [][phase = "up" =>
        \A s \in Slots : Stored(s) /\ ~Stored(s)' => \A c \in live : c.slot # s]_vars

\* The joint-angle CSV belongs to the playback in progress: never one left
\* from another session, never one while a slot is being recorded.
CaptureOfPlayback ==
    phase = "up" /\ LockFree =>
        /\ IsPlaying => capture = proc.id
        /\ state = "RECORDING" => capture = 0

\* A shutdown that finds no command in progress leaves no child behind,
\* whatever the timer and the callbacks do meanwhile.
QuietShutdownReaps ==
    []((phase = "hook" /\ LockFree) => [](phase = "dead" => live = {}))

\* A goal of a playback is not sent after a command has stopped it: what
\* the comment in _playback_ee_callback demands and _playback_js_callback does not repeat.
NoReplayAfterStop == goal.src = "replay" /\ ctl.pc # "stopping" => goal.of = cmds

---------------------------------------------------------------------------
(* The inductive invariant behind the safety properties                    *)

\* A command that has stopped what was running and not yet started anything.
Busy == ctl.pc \in {"spawn", "peek", "peeking", "moving", "launch"}

\* What a command in progress knows of itself.
CommandInv ==
    /\ ctl.pc = "ready" <=> ctl.op = "none"
    /\ ctl.op \in {"record", "play"} => ctl.slot \in Slots
    /\ ctl.op # "none" => cmds # 0
    /\ ctl.pc = "spawn" => ctl.op = "record"
    /\ ctl.pc \in {"peek", "peeking", "moving", "launch"} => ctl.op = "play"

\* From the stop to the start of the next child the node is IDLE, and no
\* teleop goal can get in: the callbacks that send them wait for the lock.
ModeInv ==
    /\ status = <<state, activeSlot>>
    /\ state = "IDLE" <=> activeSlot = NoSlot
    /\ Busy => state = "IDLE"
    /\ goal.src = "teleop" => ~IsPlaying /\ ~Busy
    /\ PlaybackMode = "ee" /\ (state = "RECORDING" \/ ctl.pc = "spawn")
          => goal.src \in {"none", "teleop"}

\* The one child: waited for by a stop, absent between stop and start but for
\* the peek player, and _proc otherwise, until the shutdown hook takes _proc
\* away under the feet of a command.
ChildInv ==
    /\ OneChild
    /\ ctl.pc = "stopping" => /\ live \subseteq {ctl.victim}
                              /\ ctl.victim = NoProc \/ proc \in {NoProc, ctl.victim}
    /\ Busy => live \subseteq {ctl.victim}
    /\ Busy /\ ctl.pc # "peeking" => live = {}
    /\ ctl.pc = "peeking" => ctl.victim # NoProc /\ ctl.victim.kind = "peek"
    /\ phase \in {"up", "hook"} /\ ctl.pc # "peeking" => live \subseteq {proc}
    /\ phase = "up" =>
          /\ state = "IDLE" <=> proc = NoProc
          /\ state # "IDLE" =>
                /\ proc.slot = activeSlot
                /\ proc.kind = IF state = "RECORDING" THEN "record" ELSE "play"

\* A slot holds its latest recording or nothing, under one name only, and the
\* files of a running recorder are those of the slot being recorded.
FileInv ==
    /\ \A s \in Slots : /\ bag[s] \in {NoRec, latest[s]} /\ act[s] \in {NoRec, latest[s]}
                        /\ bag[s] = NoRec \/ act[s] = NoRec
    /\ \A c \in live : c.kind = "record" =>
          /\ state = "RECORDING" /\ activeSlot = c.slot
          /\ latest[c.slot] = c.id /\ bag[c.slot] = NoRec
    /\ PlayNewest
    /\ ctl.op = "play" => Stored(ctl.slot)

CaptureInv ==
    phase = "up" =>
        /\ IsPlaying => capture = proc.id
        /\ state = "RECORDING" \/ Busy => capture = 0

MuxInv == TypeOK /\ CommandInv /\ ModeInv /\ ChildInv /\ FileInv /\ CaptureInv
=============================================================================
