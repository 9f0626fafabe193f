------------------------------ MODULE MuxProofs ------------------------------
(***************************************************************************)
(* Proofs about BagRecorder, for every set of slots, both playback modes   *)
(* and every bound, shutdown included; and about the dashboard and the     *)
(* multiplexer together, for any number of requests and commands, statuses *)
(* late and dropped.                                                       *)
(***************************************************************************)
EXTENDS MuxSystem, SequenceTheorems, TLAPS

-----------------------------------------------------------------------------
(* The multiplexer alone *)

TypeInv == TypeOK /\ CommandInv

LEMMA InitType == Init => TypeInv
BY SlotsAssumption, ProcAssumption, RecAssumption, BoundAssumption
   DEF Init, TypeInv, TypeOK, CommandInv, Ready, NoGoal, Goal, StateName, File, Rec

LEMMA NextType == TypeInv /\ [Next]_vars => TypeInv'
<1> USE ProcAssumption, BoundAssumption DEF TypeInv, TypeOK, CommandInv
<1> SUFFICES ASSUME TypeInv, [Next]_vars PROVE TypeInv'
  OBVIOUS
<1>1. ASSUME NEW op \in {"record", "play", "stop"}, NEW s \in Slots \cup {NoSlot},
             op \in {"record", "play"} => s \in Slots,
             NEW path \in {"none", "bag", "active"}, Accept(op, s, path)
      PROVE  TypeInv'
  BY <1>1 DEF Accept, Signal, muxVars, cbVars, fileVars, nodeVars, LockFree
<1>2. CASE \E s \in Slots : RecordCmd(s) \/ PlayCmd(s)
  BY <1>1, <1>2 DEF RecordCmd, PlayCmd, PlayablePath
<1>3. CASE StopCmd
  BY <1>1, <1>3 DEF StopCmd
<1>4. CASE \E s \in Slots : ClearCmd(s)
  BY <1>4 DEF ClearCmd, File, muxVars, cbVars, childVars, nodeVars
<1>5. CASE StopReap
  BY <1>5 DEF StopReap, StopDone, Goto, Gone, Publish, Ready, NoGoal, Goal, StateName, childVars, cbVars,
              fileVars, nodeVars
<1>6. CASE StopRaises
  BY <1>6 DEF StopRaises, Ready, muxVars, childVars, cbVars, fileVars, nodeVars
<1>7. CASE RecordSpawn
  BY <1>7 DEF RecordSpawn, EraseFiles, Publish, Ready, Child, File, Rec, StateName,
              cbVars, nodeVars
<1>8. CASE RecordSpawnFails
  BY <1>8 DEF RecordSpawnFails, EraseFiles, Ready, File, muxVars, cbVars, childVars, nodeVars
<1>9. CASE PeekAborts
  BY <1>9 DEF PeekAborts, Ready, muxVars, childVars, cbVars, fileVars, nodeVars
<1>10. CASE PeekSpawn
  BY <1>10 DEF PeekSpawn, Goto, Child, Content, muxVars, cbVars, fileVars, nodeVars
<1>11. CASE PeekEnds
  BY <1>11 DEF PeekEnds, Goto, Gone, Goal, muxVars, cbVars, fileVars, nodeVars
<1>12. CASE PrePositioned
  BY <1>12 DEF PrePositioned, Goto, muxVars, childVars, cbVars, fileVars, nodeVars
<1>13. CASE PrePositionInterrupted
  BY <1>13 DEF PrePositionInterrupted, Ready, muxVars, childVars, cbVars, fileVars, nodeVars
<1>14. CASE Launch
  BY <1>14 DEF Launch, Publish, PlayState, Content, Ready, Child, StateName,
               cbVars, fileVars, nodeVars
<1>15. CASE LaunchFails
  BY <1>15 DEF LaunchFails, Ready, childVars, cbVars, fileVars, nodeVars
<1>16. CASE PlaybackTimer
  BY <1>16 DEF PlaybackTimer, Publish, StateName, childVars, cbVars, fileVars, nodeVars
<1>17. CASE IkGoal
  BY <1>17 DEF IkGoal, Goal, muxVars, childVars, cbVars, fileVars, nodeVars
<1>18. ASSUME NEW k \in 1..MaxCmds, ReplayStep(k)
       PROVE  TypeInv'
  <2> USE DEF CallbackReturns, muxVars, childVars, cbVars, fileVars, nodeVars
  <2>1. CASE ReplayEnter(k)
    <3>1. pending[k] - 1 \in 0..MaxPending
      BY <2>1 DEF ReplayEnter
    <3> QED  BY <2>1, <3>1 DEF ReplayEnter
  <2>2. CASE JsSend(k)
    BY <2>2 DEF JsSend, Goal
  <2>3. CASE EeDeadband(k)
    BY <2>3 DEF EeDeadband
  <2>4. CASE EeIkFails(k)
    BY <2>4 DEF EeIkFails
  <2>5. CASE EeSend(k)
    BY <2>5 DEF EeSend, Goal
  <2> QED  BY <1>18, <2>1, <2>2, <2>3, <2>4, <2>5 DEF ReplayStep
<1>19. ASSUME NEW c \in live, ChildStep(c)
       PROVE  TypeInv'
  <2> USE DEF Gone, muxVars, childVars, cbVars, fileVars, nodeVars
  <2>0. c.id \in 1..MaxCmds /\ c.slot \in Slots /\ c.id \in File
    BY DEF Child, File, Rec
  <2>1. CASE PlayerPublishes(c)
    <3>1. pending[c.id] + 1 \in 0..MaxPending
      BY <2>0, <2>1 DEF PlayerPublishes
    <3> QED  BY <2>0, <2>1, <3>1 DEF PlayerPublishes
  <2>2. CASE PlayerExits(c)
    BY <2>2 DEF PlayerExits
  <2>3. CASE RecorderWrites(c)
    BY <2>0, <2>3 DEF RecorderWrites
  <2>4. CASE RecorderFinalizes(c)
    <3>1. NoRec \in File
      BY DEF File
    <3>2. bag' \in [Slots -> File] /\ act' \in [Slots -> File]
      <4>1. CASE act[c.slot] = c.id
        <5>1. /\ bag' = [bag EXCEPT ![c.slot] = c.id]
              /\ act' = [act EXCEPT ![c.slot] = NoRec]
          BY <2>4, <4>1 DEF RecorderFinalizes
        <5> QED  BY <2>0, <3>1, <5>1
      <4>2. CASE act[c.slot] # c.id
        BY <2>4, <4>2 DEF RecorderFinalizes
      <4> QED  BY <4>1, <4>2
    <3> QED  BY <2>4, <3>2 DEF RecorderFinalizes
  <2>5. CASE RecorderDies(c)
    BY <2>5 DEF RecorderDies
  <2> QED  BY <1>19, <2>1, <2>2, <2>3, <2>4, <2>5 DEF ChildStep
<1>20. CASE GoalDone
  BY <1>20 DEF GoalDone, NoGoal, Goal, muxVars, childVars, cbVars, fileVars, nodeVars
<1>21. CASE ShutdownStep
  BY <1>21 DEF ShutdownStep, BeginShutdown, HookSignal, HookReap, HookRaises, NodeExit,
               Signal, Gone, muxVars, childVars, cbVars, fileVars, nodeVars
<1>22. CASE UNCHANGED vars
  BY <1>22 DEF vars, muxVars, childVars, cbVars, fileVars, nodeVars
<1> QED
  BY <1>2, <1>3, <1>4, <1>5, <1>6, <1>7, <1>8, <1>9, <1>10, <1>11, <1>12, <1>13, <1>14,
     <1>15, <1>16, <1>17, <1>18, <1>19, <1>20, <1>21, <1>22 DEF Next, ControlStep

\* The variables of the multiplexer keep their types whatever happens,
\* shutdown included; in particular a spawned child always names a slot and
\* the number of a real command.
THEOREM TypeCorrect == Spec => []TypeOK
<1>1. TypeInv => TypeOK
  BY DEF TypeInv
<1> QED
  BY <1>1, InitType, NextType, PTL DEF Spec

\* The part of MuxInv that does not depend on the slots' files, which others write too.
CoreInv == TypeOK /\ CommandInv /\ ModeInv /\ ChildInv

\* No command, callback or timer tick breaks the discipline of the modes.
LEMMA NextMode == CoreInv /\ [Next]_vars => ModeInv'
<1> SUFFICES ASSUME TypeOK, CommandInv, ModeInv, [Next]_vars PROVE ModeInv'
  BY DEF CoreInv
<1> USE ModeAssumption DEF CommandInv, ModeInv, Busy, IsPlaying, TypeOK, StateName,
                           muxVars, fileVars, childVars, cbVars, nodeVars
<1>1. CASE \E s \in Slots : RecordCmd(s) \/ PlayCmd(s)
  BY <1>1 DEF RecordCmd, PlayCmd, Accept, Signal, LockFree
<1>2. CASE StopCmd
  BY <1>2 DEF StopCmd, Accept, Signal, LockFree
<1>3. CASE \E s \in Slots : ClearCmd(s)
  BY <1>3 DEF ClearCmd, LockFree
<1>4. CASE StopReap
  BY <1>4 DEF StopReap, StopDone, Goto, Gone, Publish, Ready, NoGoal
<1>5. CASE StopRaises
  BY <1>5 DEF StopRaises, Ready
<1>6. CASE RecordSpawn
  BY <1>6, SlotsAssumption DEF RecordSpawn, EraseFiles, Publish, Ready
<1>7. CASE RecordSpawnFails
  BY <1>7 DEF RecordSpawnFails, EraseFiles, Ready
<1>8. CASE PeekAborts
  BY <1>8 DEF PeekAborts, Ready
<1>9. CASE PeekSpawn
  BY <1>9 DEF PeekSpawn, Goto
<1>10. CASE PeekEnds
  BY <1>10 DEF PeekEnds, Goto, Gone
<1>11. CASE PrePositioned
  BY <1>11 DEF PrePositioned, Goto
<1>12. CASE PrePositionInterrupted
  BY <1>12 DEF PrePositionInterrupted, Ready
<1>13. CASE Launch
  BY <1>13, SlotsAssumption DEF Launch, Publish, Ready, PlayState
<1>14. CASE LaunchFails
  BY <1>14 DEF LaunchFails, Ready
<1>15. CASE PlaybackTimer
  BY <1>15 DEF PlaybackTimer, Publish, LockFree
<1>16. CASE IkGoal
  BY <1>16 DEF IkGoal, LockFree
<1>17. CASE \E k \in 1..MaxCmds : ReplayStep(k)
  BY <1>17 DEF ReplayStep, ReplayEnter, JsSend, EeDeadband, EeIkFails, EeSend, LockFree
<1>18. CASE \E c \in live : PlayerPublishes(c) \/ PlayerExits(c) \/ RecorderDies(c)
  BY <1>18 DEF PlayerPublishes, PlayerExits, RecorderDies, Gone
<1>19. CASE \E c \in live : RecorderWrites(c)
  BY <1>19 DEF RecorderWrites
<1>20. CASE \E c \in live : RecorderFinalizes(c)
  BY <1>20 DEF RecorderFinalizes, Gone
<1>21. CASE GoalDone
  BY <1>21 DEF GoalDone, NoGoal
<1>22. CASE ShutdownStep
  BY <1>22 DEF ShutdownStep, BeginShutdown, HookSignal, HookReap, HookRaises, NodeExit,
     Signal, Gone
<1>23. CASE UNCHANGED vars
  BY <1>23 DEF vars
<1> QED
  BY <1>1, <1>2, <1>3, <1>4, <1>5, <1>6, <1>7, <1>8, <1>9, <1>10, <1>11, <1>12, <1>13,
     <1>14, <1>15, <1>16, <1>17, <1>18, <1>19, <1>20, <1>21, <1>22, <1>23 DEF Next,
     ControlStep, ChildStep

\* A child is started only where the last one has been reaped.
LEMMA NextChild == CoreInv /\ [Next]_vars => ChildInv'
<1> SUFFICES ASSUME TypeOK, CommandInv, ModeInv, ChildInv, [Next]_vars PROVE ChildInv'
  BY DEF CoreInv
<1> USE ProcAssumption DEF CommandInv, ModeInv, ChildInv, OneChild, Busy, IsPlaying, TypeOK,
        StateName, muxVars, fileVars, childVars, cbVars, nodeVars
<1>1. CASE \E s \in Slots : RecordCmd(s) \/ PlayCmd(s)
  BY <1>1 DEF RecordCmd, PlayCmd, Accept, Signal, LockFree
<1>2. CASE StopCmd
  BY <1>2 DEF StopCmd, Accept, Signal, LockFree
<1>3. CASE \E s \in Slots : ClearCmd(s)
  BY <1>3 DEF ClearCmd, LockFree
<1>4. CASE StopReap
  BY <1>4 DEF StopReap, StopDone, Goto, Gone, Publish, Ready, NoGoal
<1>5. CASE StopRaises
  BY <1>5 DEF StopRaises, Ready
<1>6. CASE RecordSpawn
  <2> DEFINE c == [id |-> cmds, kind |-> "record", slot |-> ctl.slot, bag |-> NoRec]
  <2>1. c \in Child
    BY <1>6, BoundAssumption DEF RecordSpawn, Child, File
  <2>2. live = {} /\ phase' = phase
    BY <1>6 DEF RecordSpawn
  <2>3. /\ proc' = c /\ live' = {c} /\ state' = "RECORDING"
        /\ activeSlot' = c.slot /\ ctl'.pc = "ready"
    BY <1>6, <2>2 DEF RecordSpawn, Publish, Ready
  <2>4. c.kind = "record"
    OBVIOUS
  <2> HIDE DEF c
  <2> QED  BY <2>1, <2>2, <2>3, <2>4
<1>7. CASE RecordSpawnFails
  BY <1>7 DEF RecordSpawnFails, EraseFiles, Ready
<1>8. CASE PeekAborts
  BY <1>8 DEF PeekAborts, Ready
<1>9. CASE PeekSpawn
  <2> DEFINE c == [id |-> cmds, kind |-> "peek", slot |-> ctl.slot,
                   bag |-> Content(ctl.slot, ctl.path)]
  <2>1. c \in Child
    BY <1>9, BoundAssumption DEF PeekSpawn, Child, Content
  <2>2. live = {} /\ UNCHANGED <<phase, state, proc, activeSlot>>
    BY <1>9 DEF PeekSpawn
  <2>3. live' = {c} /\ ctl'.pc = "peeking" /\ ctl'.victim = c
    BY <1>9, <2>2 DEF PeekSpawn, Goto
  <2>4. c.kind = "peek"
    OBVIOUS
  <2> HIDE DEF c
  <2> QED  BY <2>1, <2>2, <2>3, <2>4
<1>10. CASE PeekEnds
  BY <1>10 DEF PeekEnds, Goto, Gone
<1>11. CASE PrePositioned
  BY <1>11 DEF PrePositioned, Goto
<1>12. CASE PrePositionInterrupted
  BY <1>12 DEF PrePositionInterrupted, Ready
<1>13. CASE Launch
  <2> DEFINE c == [id |-> cmds, kind |-> "play", slot |-> ctl.slot,
                   bag |-> Content(ctl.slot, ctl.path)]
  <2>1. c \in Child
    BY <1>13, BoundAssumption DEF Launch, Child, Content
  <2>2. live = {} /\ phase' = phase
    BY <1>13 DEF Launch
  <2>3. /\ proc' = c /\ live' = {c} /\ activeSlot' = c.slot /\ ctl'.pc = "ready"
        /\ state' \in {"PLAYING", "PLAYING_EE"}
    BY <1>13, <2>2 DEF Launch, Publish, PlayState, Ready
  <2>4. c.kind = "play"
    OBVIOUS
  <2> HIDE DEF c
  <2> QED  BY <2>1, <2>2, <2>3, <2>4
<1>14. CASE LaunchFails
  BY <1>14 DEF LaunchFails, Ready
<1>15. CASE PlaybackTimer
  BY <1>15 DEF PlaybackTimer, Publish, LockFree
<1>16. CASE IkGoal
  BY <1>16 DEF IkGoal, LockFree
<1>17. CASE \E k \in 1..MaxCmds : ReplayStep(k)
  BY <1>17 DEF ReplayStep, ReplayEnter, JsSend, EeDeadband, EeIkFails, EeSend, LockFree
<1>18. CASE \E c \in live : PlayerPublishes(c) \/ PlayerExits(c) \/ RecorderDies(c)
  BY <1>18 DEF PlayerPublishes, PlayerExits, RecorderDies, Gone
<1>19. CASE \E c \in live : RecorderWrites(c)
  BY <1>19 DEF RecorderWrites
<1>20. CASE \E c \in live : RecorderFinalizes(c)
  BY <1>20 DEF RecorderFinalizes, Gone
<1>21. CASE GoalDone
  BY <1>21 DEF GoalDone, NoGoal
<1>22. CASE ShutdownStep
  BY <1>22 DEF ShutdownStep, BeginShutdown, HookSignal, HookReap, HookRaises, NodeExit,
     Signal, Gone
<1>23. CASE UNCHANGED vars
  BY <1>23 DEF vars
<1> QED
  BY <1>1, <1>2, <1>3, <1>4, <1>5, <1>6, <1>7, <1>8, <1>9, <1>10, <1>11, <1>12, <1>13,
     <1>14, <1>15, <1>16, <1>17, <1>18, <1>19, <1>20, <1>21, <1>22, <1>23 DEF Next,
     ControlStep, ChildStep

\* The CSV is opened with its player and closed with it.
LEMMA NextCapture == MuxInv /\ [Next]_vars => CaptureInv'
<1> SUFFICES ASSUME TypeOK, CommandInv, ModeInv, ChildInv, CaptureInv, [Next]_vars PROVE CaptureInv'
  BY DEF MuxInv
<1> USE ProcAssumption DEF CommandInv, ModeInv, CaptureInv, ChildInv, OneChild, Busy,
        IsPlaying, TypeOK, StateName, muxVars, fileVars, childVars, cbVars, nodeVars
<1>1. CASE \E s \in Slots : RecordCmd(s) \/ PlayCmd(s)
  BY <1>1 DEF RecordCmd, PlayCmd, Accept, Signal, LockFree
<1>2. CASE StopCmd
  BY <1>2 DEF StopCmd, Accept, Signal, LockFree
<1>3. CASE \E s \in Slots : ClearCmd(s)
  BY <1>3 DEF ClearCmd, LockFree
<1>4. CASE StopReap
  BY <1>4 DEF StopReap, StopDone, Goto, Gone, Publish, Ready, NoGoal
<1>5. CASE StopRaises
  BY <1>5 DEF StopRaises, Ready
<1>6. CASE RecordSpawn
  BY <1>6 DEF RecordSpawn, EraseFiles, Publish, Ready
<1>7. CASE RecordSpawnFails
  BY <1>7 DEF RecordSpawnFails, EraseFiles, Ready
<1>8. CASE PeekAborts
  BY <1>8 DEF PeekAborts, Ready
<1>9. CASE PeekSpawn
  BY <1>9 DEF PeekSpawn, Goto
<1>10. CASE PeekEnds
  BY <1>10 DEF PeekEnds, Goto, Gone
<1>11. CASE PrePositioned
  BY <1>11 DEF PrePositioned, Goto
<1>12. CASE PrePositionInterrupted
  BY <1>12 DEF PrePositionInterrupted, Ready
<1>13. CASE Launch
  BY <1>13 DEF Launch, Publish, Ready, PlayState
<1>14. CASE LaunchFails
  BY <1>14 DEF LaunchFails, Ready
<1>15. CASE PlaybackTimer
  BY <1>15 DEF PlaybackTimer, Publish, LockFree
<1>16. CASE IkGoal
  BY <1>16 DEF IkGoal, LockFree
<1>17. CASE \E k \in 1..MaxCmds : ReplayStep(k)
  BY <1>17 DEF ReplayStep, ReplayEnter, JsSend, EeDeadband, EeIkFails, EeSend, LockFree
<1>18. CASE \E c \in live : PlayerPublishes(c) \/ PlayerExits(c) \/ RecorderDies(c)
  BY <1>18 DEF PlayerPublishes, PlayerExits, RecorderDies, Gone
<1>19. CASE \E c \in live : RecorderWrites(c)
  BY <1>19 DEF RecorderWrites
<1>20. CASE \E c \in live : RecorderFinalizes(c)
  BY <1>20 DEF RecorderFinalizes, Gone
<1>21. CASE GoalDone
  BY <1>21 DEF GoalDone, NoGoal
<1>22. CASE ShutdownStep
  BY <1>22 DEF ShutdownStep, BeginShutdown, HookSignal, HookReap, HookRaises, NodeExit,
     Signal, Gone
<1>23. CASE UNCHANGED vars
  BY <1>23 DEF vars
<1> QED
  BY <1>1, <1>2, <1>3, <1>4, <1>5, <1>6, <1>7, <1>8, <1>9, <1>10, <1>11, <1>12, <1>13,
     <1>14, <1>15, <1>16, <1>17, <1>18, <1>19, <1>20, <1>21, <1>22, <1>23 DEF Next,
     ControlStep, ChildStep

\* Nothing but its own recorder touches the files of a slot in use.
LEMMA NextFile == MuxInv /\ [Next]_vars => FileInv'
<1> SUFFICES ASSUME TypeOK, CommandInv, ModeInv, ChildInv, FileInv, [Next]_vars PROVE FileInv'
  BY DEF MuxInv
<1> USE ProcAssumption DEF FileInv, PlayNewest, Stored, CommandInv, ModeInv, ChildInv,
        OneChild, Busy, TypeOK, StateName, muxVars, fileVars, childVars, cbVars, nodeVars
<1>1. CASE \E s \in Slots : RecordCmd(s) \/ PlayCmd(s)
  BY <1>1 DEF RecordCmd, PlayCmd, PlayablePath, Accept, Signal, LockFree
<1>2. CASE StopCmd
  BY <1>2 DEF StopCmd, Accept, Signal, LockFree
<1>3. CASE \E s \in Slots : ClearCmd(s)
  BY <1>3 DEF ClearCmd, LockFree
<1>4. CASE StopReap
  BY <1>4 DEF StopReap, StopDone, Goto, Gone, Publish, Ready, NoGoal
<1>5. CASE StopRaises
  BY <1>5 DEF StopRaises, Ready
<1>6. CASE RecordSpawn
  BY <1>6 DEF RecordSpawn, EraseFiles, Publish, Ready
<1>7. CASE RecordSpawnFails
  BY <1>7 DEF RecordSpawnFails, EraseFiles, Ready
<1>8. CASE PeekAborts
  BY <1>8 DEF PeekAborts, Ready
<1>9. CASE PeekSpawn
  BY <1>9 DEF PeekSpawn, Goto
<1>10. CASE PeekEnds
  BY <1>10 DEF PeekEnds, Goto, Gone
<1>11. CASE PrePositioned
  BY <1>11 DEF PrePositioned, Goto
<1>12. CASE PrePositionInterrupted
  BY <1>12 DEF PrePositionInterrupted, Ready
<1>13. CASE Launch
  <2> DEFINE c == [id |-> cmds, kind |-> "play", slot |-> ctl.slot,
                   bag |-> Content(ctl.slot, ctl.path)]
  <2>1. c.kind = "play" /\ c.bag \in {NoRec, latest[c.slot]}
    BY <1>13 DEF Launch, Content
  <2>2. live' = {c}
    BY <1>13 DEF Launch
  <2>3. UNCHANGED fileVars /\ ctl'.op = "none"
    BY <1>13 DEF Launch, Ready
  <2> HIDE DEF c
  <2> QED  BY <2>1, <2>2, <2>3
<1>14. CASE LaunchFails
  BY <1>14 DEF LaunchFails, Ready
<1>15. CASE PlaybackTimer
  BY <1>15 DEF PlaybackTimer, Publish, LockFree, IsPlaying
<1>16. CASE IkGoal
  BY <1>16 DEF IkGoal, LockFree
<1>17. CASE \E k \in 1..MaxCmds : ReplayStep(k)
  BY <1>17 DEF ReplayStep, ReplayEnter, JsSend, EeDeadband, EeIkFails, EeSend, LockFree
<1>18. CASE \E c \in live : PlayerPublishes(c) \/ PlayerExits(c) \/ RecorderDies(c)
  BY <1>18 DEF PlayerPublishes, PlayerExits, RecorderDies, Gone
<1>19. CASE \E c \in live : RecorderWrites(c)
  BY <1>19 DEF RecorderWrites
<1>20. ASSUME NEW c \in live, RecorderFinalizes(c)
       PROVE  FileInv'
  <2>1. /\ c.slot \in Slots /\ latest[c.slot] = c.id /\ c.kind = "record" /\ c.id # NoRec
        /\ live' = live \ {c} /\ UNCHANGED <<latest, ctl, state, activeSlot>>
    BY <1>20, RecAssumption, BoundAssumption DEF RecorderFinalizes, Gone, Child
  <2>2. live' = {}
    BY <2>1
  <2>3. CASE act[c.slot] = c.id
    <3>1. /\ bag' = [bag EXCEPT ![c.slot] = c.id]
          /\ act' = [act EXCEPT ![c.slot] = NoRec]
      BY <1>20, <2>3 DEF RecorderFinalizes
    <3> QED  BY <2>1, <2>2, <3>1
  <2>4. CASE act[c.slot] # c.id
    BY <1>20, <2>1, <2>2, <2>4 DEF RecorderFinalizes
  <2> QED  BY <2>3, <2>4
<1>21. CASE GoalDone
  BY <1>21 DEF GoalDone, NoGoal
<1>22. CASE ShutdownStep
  BY <1>22 DEF ShutdownStep, BeginShutdown, HookSignal, HookReap, HookRaises, NodeExit,
     Signal, Gone
<1>23. CASE UNCHANGED vars
  BY <1>23 DEF vars
<1> QED
  BY <1>1, <1>2, <1>3, <1>4, <1>5, <1>6, <1>7, <1>8, <1>9, <1>10, <1>11, <1>12, <1>13,
     <1>14, <1>15, <1>16, <1>17, <1>18, <1>19, <1>20, <1>21, <1>22, <1>23 DEF Next,
     ControlStep, ChildStep

LEMMA InitMux == Init => MuxInv
<1> SUFFICES ASSUME Init PROVE MuxInv
  OBVIOUS
<1>1. TypeOK /\ CommandInv
  BY InitType DEF TypeInv
<1>2. ModeInv /\ ChildInv /\ CaptureInv
  BY DEF Init, ModeInv, ChildInv, CaptureInv, OneChild, Busy, IsPlaying, Ready, NoGoal
<1>3. FileInv
  BY DEF Init, FileInv, PlayNewest, Ready
<1> QED  BY <1>1, <1>2, <1>3 DEF MuxInv

LEMMA NextCore == CoreInv /\ [Next]_vars => CoreInv'
<1>1. CoreInv => TypeInv
  BY DEF CoreInv, TypeInv
<1>2. TypeInv' => TypeOK' /\ CommandInv'
  BY DEF TypeInv
<1> QED
  BY <1>1, <1>2, NextType, NextMode, NextChild DEF CoreInv

LEMMA NextMux == MuxInv /\ [Next]_vars => MuxInv'
<1>1. MuxInv => CoreInv
  BY DEF MuxInv, CoreInv
<1>2. CoreInv' => TypeOK' /\ CommandInv' /\ ModeInv' /\ ChildInv'
  BY DEF CoreInv
<1> QED
  BY <1>1, <1>2, NextCore, NextFile, NextCapture DEF MuxInv

\* The inductive invariant, for every number of slots and commands.
THEOREM MuxInvariant == Spec => []MuxInv
BY InitMux, NextMux, PTL DEF Spec

\* At most one rosbag child runs at any time, shutdown included.
THEOREM OneChildAlways == Spec => []OneChild
<1>1. MuxInv => OneChild
  BY DEF MuxInv, ChildInv
<1> QED  BY <1>1, MuxInvariant, PTL

\* Between commands /sgr532/bag_status tells which child is running.
THEOREM StatusIsTrue == Spec => []StatusTellsChild
<1>1. MuxInv => StatusTellsChild
  BY ProcAssumption DEF MuxInv, ChildInv, ModeInv, StatusTellsChild, LockFree, TypeOK
<1> QED  BY <1>1, MuxInvariant, PTL

\* During a playback the arm is never under a teleop goal.
THEOREM TeleopIsBlocked == Spec => []TeleopBlocked
<1>1. MuxInv => TeleopBlocked
  BY DEF MuxInv, ModeInv, TeleopBlocked
<1> QED  BY <1>1, MuxInvariant, PTL

\* In ee mode a recording stores live motion only.
THEOREM EeRecordsLive ==
  ASSUME PlaybackMode = "ee" PROVE Spec => []RecordsLiveOnly
<1>1. MuxInv => RecordsLiveOnly
  BY DEF MuxInv, ModeInv, RecordsLiveOnly
<1> QED  BY <1>1, MuxInvariant, PTL

\* A player plays the latest recording of its slot.
THEOREM PlaysNewest == Spec => []PlayNewest
<1>1. MuxInv => PlayNewest
  BY DEF MuxInv, FileInv
<1> QED  BY <1>1, MuxInvariant, PTL

\* The joint-angle CSV that is open is the one of the running playback.
THEOREM CaptureIsOfPlayback == Spec => []CaptureOfPlayback
<1>1. MuxInv => CaptureOfPlayback
  BY DEF MuxInv, CaptureInv, CaptureOfPlayback
<1> QED  BY <1>1, MuxInvariant, PTL

---------------------------------------------------------------------------
(* Steps that change what a slot holds                                     *)

\* Which steps empty a slot: the two that erase it, neither of which finds a
\* child at work.
LEMMA EraseStep ==
  ASSUME MuxInv, [Next]_vars, NEW s \in Slots, Stored(s), ~Stored(s)'
  PROVE  live = {} \/ phase # "up"
<1> USE DEF MuxInv, Stored, muxVars, childVars, cbVars, fileVars, nodeVars
<1>1. ASSUME NEW t \in Slots, ClearCmd(t) PROVE live = {}
  BY <1>1, ProcAssumption DEF ClearCmd, LockFree, ChildInv, TypeOK
<1>2. CASE RecordSpawn \/ RecordSpawnFails
  BY <1>2 DEF RecordSpawn, RecordSpawnFails, ChildInv, Busy
<1>3. ASSUME NEW c \in live, RecorderWrites(c) \/ RecorderFinalizes(c) PROVE Stored(s)'
  <2>1. c.slot \in Slots /\ c.id # NoRec
    BY RecAssumption, BoundAssumption DEF TypeOK, Child
  <2>2. CASE RecorderWrites(c)
    BY <2>1, <2>2 DEF RecorderWrites, TypeOK
  <2>3. CASE RecorderFinalizes(c) /\ act[c.slot] = c.id
    <3>1. /\ bag' = [bag EXCEPT ![c.slot] = c.id]
          /\ act' = [act EXCEPT ![c.slot] = NoRec]
      BY <2>3 DEF RecorderFinalizes
    <3> QED  BY <2>1, <3>1 DEF TypeOK
  <2>4. CASE RecorderFinalizes(c) /\ act[c.slot] # c.id
    BY <2>4 DEF RecorderFinalizes
  <2> QED  BY <1>3, <2>2, <2>3, <2>4
<1>4. CASE UNCHANGED <<bag, act>>
  BY <1>4
<1> QED
  BY <1>1, <1>2, <1>3, <1>4
     DEF Next, ControlStep, ChildStep, ReplayStep, ShutdownStep, RecordCmd, PlayCmd, StopCmd,
         Accept, StopReap, StopDone, StopRaises, PeekAborts, PeekSpawn, PeekEnds, PrePositioned,
         PrePositionInterrupted, Launch, LaunchFails, PlaybackTimer, IkGoal, ReplayEnter,
         JsSend, EeDeadband, EeIkFails, EeSend, PlayerPublishes, PlayerExits, RecorderDies,
         GoalDone, BeginShutdown, HookSignal, HookReap, HookRaises, NodeExit, vars

\* The files of a slot are never removed while a child uses them.
THEOREM NeverUnlinkedInUse == Spec => NoUnlinkInUse
<1>1. MuxInv /\ [Next]_vars =>
        [phase = "up" =>
          \A s \in Slots : Stored(s) /\ ~Stored(s)' => \A c \in live : c.slot # s]_vars
  BY EraseStep
<1> QED  BY <1>1, MuxInvariant, PTL DEF Spec, NoUnlinkInUse
---------------------------------------------------------------------------
(* The node implements ArmMux                                              *)

AbsStored == [s \in Slots |-> Stored(s)]

LEMMA AbsInit == Init => Abs!Init
BY DEF Init, Abs!Init, Stored

LEMMA AbsStep == MuxInv /\ [Next]_vars => [Abs!Next]_(Abs!avars)
<1> SUFFICES ASSUME MuxInv, [Next]_vars PROVE Abs!Next \/ UNCHANGED <<state, activeSlot, AbsStored>>
  BY DEF Abs!avars, AbsStored
<1> USE DEF MuxInv, CommandInv, muxVars, childVars, cbVars, fileVars, nodeVars
<1>1. ASSUME NEW s \in Slots, EraseFiles(s), UNCHANGED <<state, activeSlot>>, state = "IDLE"
      PROVE  Abs!Erase(s)
  <2>1. AbsStored' = [AbsStored EXCEPT ![s] = FALSE]
    BY <1>1 DEF EraseFiles, AbsStored, Stored, TypeOK
  <2> QED  BY <1>1, <2>1 DEF Abs!Erase, AbsStored
<1>2. ASSUME NEW s \in Slots, ClearCmd(s) PROVE Abs!Erase(s)
  BY <1>1, <1>2 DEF ClearCmd, EraseFiles
<1>3. CASE RecordSpawnFails
  BY <1>1, <1>3 DEF RecordSpawnFails, ModeInv, Busy, Abs!Next
<1>4. CASE RecordSpawn
  <2>1. /\ ctl.slot \in Slots /\ state = "IDLE"
        /\ EraseFiles(ctl.slot) /\ state' = "RECORDING" /\ activeSlot' = ctl.slot
    BY <1>4 DEF RecordSpawn, Publish, ModeInv, Busy
  <2>2. AbsStored' = [AbsStored EXCEPT ![ctl.slot] = FALSE]
    BY <2>1 DEF EraseFiles, AbsStored, Stored, TypeOK
  <2>3. Abs!Record(ctl.slot)
    BY <2>1, <2>2 DEF Abs!Record, AbsStored
  <2> QED  BY <2>1, <2>3 DEF Abs!Next
<1>5. CASE Launch
  <2>1. /\ ctl.slot \in Slots /\ state = "IDLE" /\ Stored(ctl.slot)
        /\ state' \in {"PLAYING", "PLAYING_EE"} /\ activeSlot' = ctl.slot
        /\ UNCHANGED <<bag, act>>
    BY <1>5 DEF Launch, Publish, PlayState, ModeInv, Busy, FileInv
  <2>2. AbsStored' = AbsStored
    BY <2>1 DEF AbsStored, Stored
  <2>3. Abs!Play(ctl.slot)
    BY <2>1, <2>2 DEF Abs!Play, AbsStored
  <2> QED  BY <2>1, <2>3 DEF Abs!Next
<1>6. CASE StopReap \/ PlaybackTimer
  <2>1. state' = "IDLE" /\ activeSlot' = NoSlot /\ UNCHANGED <<bag, act>>
    BY <1>6 DEF StopReap, StopDone, PlaybackTimer, Publish
  <2>2. AbsStored' = AbsStored
    BY <2>1 DEF AbsStored, Stored
  <2>3. CASE state # "IDLE"
    BY <2>1, <2>2, <2>3 DEF Abs!Next, Abs!Return, AbsStored
  <2>4. CASE state = "IDLE"
    BY <2>1, <2>2, <2>4 DEF ModeInv
  <2> QED  BY <2>3, <2>4
<1>7. ASSUME NEW c \in live, RecorderWrites(c)
      PROVE  Abs!Next \/ UNCHANGED <<state, activeSlot, AbsStored>>
  <2>1. /\ c.kind = "record" /\ c.slot \in Slots /\ c.id # NoRec
        /\ act' = [act EXCEPT ![c.slot] = c.id] /\ UNCHANGED <<bag, state, activeSlot>>
    BY <1>7, RecAssumption, BoundAssumption DEF RecorderWrites, TypeOK, Child
  <2>2. state = "RECORDING" /\ activeSlot = c.slot
    BY <2>1 DEF FileInv
  <2>3. AbsStored' = [AbsStored EXCEPT ![c.slot] = TRUE]
    BY <2>1 DEF AbsStored, Stored, TypeOK
  <2>4. CASE ~Stored(c.slot)
    BY <2>1, <2>2, <2>3, <2>4 DEF Abs!Next, Abs!Save, AbsStored
  <2>5. CASE Stored(c.slot)
    <3>1. AbsStored' = AbsStored
      BY <2>1, <2>3, <2>5 DEF AbsStored
    <3> QED  BY <2>1, <3>1
  <2> QED  BY <2>4, <2>5
<1>8. ASSUME NEW c \in live, RecorderFinalizes(c)
      PROVE  UNCHANGED <<state, activeSlot, AbsStored>>
  <2>1. /\ c.slot \in Slots /\ c.id # NoRec /\ UNCHANGED <<state, activeSlot>>
    BY <1>8, RecAssumption, BoundAssumption DEF RecorderFinalizes, TypeOK, Child
  <2>2. CASE act[c.slot] = c.id
    <3>1. /\ bag' = [bag EXCEPT ![c.slot] = c.id]
          /\ act' = [act EXCEPT ![c.slot] = NoRec]
      BY <1>8, <2>2 DEF RecorderFinalizes
    <3>2. \A s \in Slots : Stored(s)' = Stored(s)
      BY <2>1, <2>2, <3>1 DEF Stored, TypeOK
    <3> QED  BY <2>1, <3>2 DEF AbsStored
  <2>3. CASE act[c.slot] # c.id
    BY <1>8, <2>1, <2>3 DEF RecorderFinalizes, AbsStored, Stored
  <2> QED  BY <2>2, <2>3
<1>9. CASE UNCHANGED <<state, activeSlot, bag, act>>
  BY <1>9 DEF AbsStored, Stored
<1>10. \/ \E s \in Slots : ClearCmd(s)
       \/ RecordSpawn \/ RecordSpawnFails \/ Launch \/ StopReap \/ PlaybackTimer
       \/ \E c \in live : RecorderWrites(c) \/ RecorderFinalizes(c)
       \/ UNCHANGED <<state, activeSlot, bag, act>>
  BY DEF Next, ControlStep, ChildStep, ReplayStep, ShutdownStep, RecordCmd, PlayCmd, StopCmd,
         Accept, StopRaises, PeekAborts, PeekSpawn, PeekEnds, PrePositioned,
         PrePositionInterrupted, LaunchFails, IkGoal, ReplayEnter, JsSend, EeDeadband,
         EeIkFails, EeSend, PlayerPublishes, PlayerExits, RecorderDies, GoalDone,
         BeginShutdown, HookSignal, HookReap, HookRaises, NodeExit, vars
<1> QED
  BY <1>2, <1>3, <1>4, <1>5, <1>6, <1>7, <1>8, <1>9, <1>10 DEF Abs!Next

\* Whatever happens to commands, children and the node, the dashboard sees
\* ArmMux: every step of the node is a step of ArmMux or invisible to it.
THEOREM MuxImplementsArmMux == Spec => ImplementsArmMux
BY AbsInit, AbsStep, MuxInvariant, PTL DEF Spec, ImplementsArmMux, Abs!Spec---------------------------------------------------------------------------
(* Shutdown                                                                *)

\* A shutdown that found no command in progress: until the hook is done the one child, if there
\* is one, is _proc, and the hook waits for it.
QuietInv ==
    /\ LockFree
    /\ \/ phase = "hook"
       \/ phase = "hookwait" /\ live \subseteq {proc} /\ live \subseteq {hook}
       \/ phase \in {"hooked", "dead"} /\ live = {}

LEMMA NextQuiet == MuxInv /\ QuietInv /\ [Next]_vars => QuietInv'
<1> SUFFICES ASSUME TypeOK, ChildInv, QuietInv, [Next]_vars PROVE QuietInv'
  BY DEF MuxInv
<1> USE ProcAssumption DEF QuietInv, LockFree, TypeOK, muxVars, fileVars, childVars, cbVars, nodeVars
<1>1. ~(\E s \in Slots : RecordCmd(s) \/ PlayCmd(s) \/ ClearCmd(s)) /\ ~StopCmd /\ ~ControlStep
  BY DEF RecordCmd, PlayCmd, ClearCmd, StopCmd, Accept, ControlStep, StopReap, StopRaises, RecordSpawn,
         RecordSpawnFails, PeekAborts, PeekSpawn, PeekEnds, PrePositioned, PrePositionInterrupted,
         Launch, LaunchFails
<1>2. CASE BeginShutdown \/ NodeExit
  BY <1>2 DEF BeginShutdown, NodeExit
<1>3. CASE HookSignal
  BY <1>3 DEF HookSignal, ChildInv, Signal
<1>4. CASE HookReap
  BY <1>4 DEF HookReap, Gone
<1>5. CASE HookRaises
  BY <1>5 DEF HookRaises
<1>6. CASE PlaybackTimer
  BY <1>6 DEF PlaybackTimer
<1>7. CASE \E c \in live : ChildStep(c)
  BY <1>7 DEF ChildStep, PlayerPublishes, PlayerExits, RecorderWrites, RecorderFinalizes, RecorderDies, Gone
<1>8. CASE \E k \in 1..MaxCmds : ReplayStep(k)
  BY <1>8 DEF ReplayStep, ReplayEnter, JsSend, EeDeadband, EeIkFails, EeSend
<1>9. CASE IkGoal \/ GoalDone \/ UNCHANGED vars
  BY <1>9 DEF IkGoal, GoalDone, vars
<1> QED
  BY <1>1, <1>2, <1>3, <1>4, <1>5, <1>6, <1>7, <1>8, <1>9 DEF Next, ShutdownStep

\* If the node is asked to shut down while no command is in progress, no rosbag child is left
\* when it exits, whatever the timer, the callbacks and the child do while the hook runs.
THEOREM QuietShutdownAlwaysReaps == Spec => QuietShutdownReaps
<1>1. phase = "hook" /\ LockFree => QuietInv
  BY DEF QuietInv
<1>2. QuietInv => (phase = "dead" => live = {})
  BY DEF QuietInv
<1> QED  BY <1>1, <1>2, NextQuiet, MuxInvariant, PTL DEF Spec, QuietShutdownReaps

-----------------------------------------------------------------------------
(* The dashboard and the multiplexer together.  The handlers remove slot   *)
(* files on their own, so that of MuxInv only CoreInv holds here.          *)

\* Messages, and those that tell of a child that was started.
Ended   == {"no", "command", "self"}
Message == [st : StateName \cup {"none"}, slot : Slots \cup {NoSlot}, id : Nat, ended : Ended]
Started(m) == m.st \notin {"none", "IDLE"}

\* The child of session id has been announced; and is over for good.
Sent(id) == id \in 0..cmds /\ (ctl.pc # "ready" => id < cmds)
Past(id) == Sent(id) /\ \A c \in live : c.id # id

\* What a message that comes after m may say.
Follows(m, n) == Started(m) => /\ Started(n) => m.id < n.id
                               /\ n.st = "IDLE" => Past(m.id)

\* _proc is the only child there is; in a command there is none but the peek player.
OwnInv == (proc # NoProc => live \subseteq {proc}) /\ (Busy => proc = NoProc)

LineType ==
    /\ wire \in Seq(Message) /\ mirror \in Message
    /\ finished \in Seq([id : Nat, ended : Ended])
    /\ handler \in [Handlers -> [pc : {"free", "decide", "wait", "unlink", "unlinkActive"},
                                 op : D!Ops \cup {"none"}, slot : Slots \cup {NoSlot}, seen : Message]]

\* A command names the slot of the request it is for.
ControlInv ==
    /\ control \in Seq([cmd : {"RECORD", "PLAY", "STOP"}, slot : Slots])
    /\ \A h \in Handlers : handler[h].pc # "free" => handler[h].slot \in Slots

\* The messages on the line tell of later and later children, and of none that is over too early.
WireInv ==
    /\ \A i \in 1..Len(wire) : Started(wire[i]) => Sent(wire[i].id)
    /\ \A i, j \in 1..Len(wire) : i < j => Follows(wire[i], wire[j])

\* So do they for whoever has seen m: the mirror, or a handler that has read it.
After(m) == (Started(m) => Sent(m.id)) /\ \A i \in 1..Len(wire) : Follows(m, wire[i])

\* What a handler has seen is the mirror, or older.
SeenInv ==
    /\ After(mirror)
    /\ \A h \in Handlers :
          /\ After(handler[h].seen)
          /\ handler[h].seen = mirror \/ Follows(handler[h].seen, mirror)
          /\ handler[h].pc = "wait" /\ handler[h].op = "recordStop" => handler[h].seen.st = "RECORDING"

\* What has been reported as finished is over, and older than all that is known of.
FinishInv ==
    /\ \A i \in 1..Len(finished) :
          /\ Past(finished[i].id)
          /\ Started(mirror) => finished[i].id < mirror.id
          /\ \A j \in 1..Len(wire) : Started(wire[j]) => finished[i].id < wire[j].id
    /\ \A i, j \in 1..Len(finished) : i < j => finished[i].id < finished[j].id

SysInv == CoreInv /\ OwnInv /\ LineType /\ ControlInv /\ WireInv /\ SeenInv /\ FinishInv
---------------------------------------------------------------------------
(* What the multiplexer does to the children                               *)

USE ProcAssumption

LEMMA ChildIds == TypeOK => cmds \in Nat /\ \A c \in live : c.id \in Nat
BY BoundAssumption DEF TypeOK, Child

\* A child that has been announced stays so, and one that is over is over for good: the next
\* to be started has the number of a command that has announced nothing yet.
LEMMA PastKept == ASSUME CoreInv, [Next]_vars, NEW id \in Nat
                  PROVE  (Sent(id) => Sent(id)') /\ (Past(id) => Past(id)')
<1> USE DEF Sent, Past, muxVars, fileVars, childVars, cbVars, nodeVars
<1>0. cmds \in Nat
  BY ChildIds DEF CoreInv
<1>1. CASE (\E s \in Slots : RecordCmd(s) \/ PlayCmd(s)) \/ StopCmd
  BY <1>0, <1>1 DEF RecordCmd, PlayCmd, StopCmd, Accept, LockFree
<1>2. CASE RecordSpawn
  BY <1>0, <1>2 DEF RecordSpawn, Ready
<1>3. CASE PeekSpawn
  BY <1>0, <1>3 DEF PeekSpawn, Goto
<1>4. CASE Launch
  BY <1>0, <1>4 DEF Launch, Ready
<1>5. CASE StopReap
  BY <1>0, <1>5 DEF StopReap, StopDone, Goto, Gone, Ready
<1>6. CASE StopRaises \/ RecordSpawnFails \/ PeekAborts \/ PrePositionInterrupted \/ LaunchFails
  BY <1>0, <1>6 DEF StopRaises, RecordSpawnFails, PeekAborts, PrePositionInterrupted, LaunchFails, Ready
<1>7. CASE PeekEnds
  BY <1>0, <1>7 DEF PeekEnds, Goto, Gone
<1>8. CASE PrePositioned
  BY <1>0, <1>8 DEF PrePositioned, Goto
<1>9. CASE \E c \in live : ChildStep(c)
  BY <1>9 DEF ChildStep, PlayerPublishes, PlayerExits, RecorderWrites, RecorderFinalizes, RecorderDies, Gone
<1>10. CASE ShutdownStep
  BY <1>10 DEF ShutdownStep, BeginShutdown, HookSignal, HookReap, HookRaises, NodeExit, Gone
<1>11. CASE \E k \in 1..MaxCmds : ReplayStep(k)
  BY <1>11 DEF ReplayStep, ReplayEnter, JsSend, EeDeadband, EeIkFails, EeSend
<1>12. CASE PlaybackTimer \/ IkGoal \/ GoalDone \/ UNCHANGED vars \/ \E s \in Slots : ClearCmd(s)
  BY <1>12 DEF PlaybackTimer, IkGoal, GoalDone, ClearCmd, vars
<1> QED
  BY <1>1, <1>2, <1>3, <1>4, <1>5, <1>6, <1>7, <1>8, <1>9, <1>10, <1>11, <1>12 DEF Next, ControlStep

\* The hook may take _proc away, but never leaves another child beside it.
LEMMA NextOwn == CoreInv /\ OwnInv /\ [Next]_vars => OwnInv'
<1> SUFFICES ASSUME TypeOK, CommandInv, ModeInv, ChildInv, OwnInv, [Next]_vars PROVE OwnInv'
  BY DEF CoreInv
<1> USE DEF TypeOK, OwnInv, Busy, CommandInv, muxVars, fileVars, childVars, cbVars, nodeVars
<1>1. CASE (\E s \in Slots : RecordCmd(s) \/ PlayCmd(s)) \/ StopCmd
  BY <1>1 DEF RecordCmd, PlayCmd, StopCmd, Accept, LockFree
<1>2. CASE RecordSpawn
  BY <1>2 DEF RecordSpawn, Ready, ChildInv
<1>3. CASE PeekSpawn
  BY <1>3 DEF PeekSpawn, Goto
<1>4. CASE Launch
  BY <1>4 DEF Launch, Ready, ChildInv
<1>5. CASE StopReap
  BY <1>5 DEF StopReap, StopDone, Goto, Gone, Ready
<1>6. CASE StopRaises \/ RecordSpawnFails \/ PeekAborts \/ PrePositionInterrupted \/ LaunchFails
  BY <1>6 DEF StopRaises, RecordSpawnFails, PeekAborts, PrePositionInterrupted, LaunchFails, Ready
<1>7. CASE PeekEnds
  BY <1>7 DEF PeekEnds, Goto, Gone
<1>8. CASE PrePositioned
  BY <1>8 DEF PrePositioned, Goto
<1>9. CASE \E c \in live : ChildStep(c)
  BY <1>9 DEF ChildStep, PlayerPublishes, PlayerExits, RecorderWrites, RecorderFinalizes, RecorderDies, Gone
<1>10. CASE ShutdownStep
  BY <1>10 DEF ShutdownStep, BeginShutdown, HookSignal, HookReap, HookRaises, NodeExit, Gone
<1>11. CASE \E k \in 1..MaxCmds : ReplayStep(k)
  BY <1>11 DEF ReplayStep, ReplayEnter, JsSend, EeDeadband, EeIkFails, EeSend
<1>12. CASE PlaybackTimer \/ IkGoal \/ GoalDone \/ UNCHANGED vars \/ \E s \in Slots : ClearCmd(s)
  BY <1>12 DEF PlaybackTimer, IkGoal, GoalDone, ClearCmd, LockFree, vars
<1> QED
  BY <1>1, <1>2, <1>3, <1>4, <1>5, <1>6, <1>7, <1>8, <1>9, <1>10, <1>11, <1>12 DEF Next, ControlStep

\* When IDLE is published no child is left.
LEMMA IdleIsTrue == ASSUME CoreInv, OwnInv, StopReap \/ PlaybackTimer
                    PROVE  live' = {} /\ status'[1] = "IDLE"
<1> USE DEF CoreInv, OwnInv
<1>1. CASE StopReap
  BY <1>1 DEF StopReap, StopDone, Gone, Publish, ChildInv, childVars
<1>2. CASE PlaybackTimer
  BY <1>2 DEF PlaybackTimer, Publish, childVars
<1> QED  BY <1>1, <1>2

\* What the multiplexer reports is later than all it has reported before.
LEMMA ReportIsLatest ==
    ASSUME CoreInv, OwnInv, NEW ended \in Ended,
           \/ ended # "no" /\ (StopReap \/ PlaybackTimer)
           \/ ended = "no" /\ (RecordSpawn \/ Launch),
           Report(ended)
    PROVE  \E m \in Message :
              /\ Emit(m) /\ m.st # "none"
              /\ Started(m) => Sent(m.id)'
              /\ \A id \in Nat : Sent(id) =>
                    /\ Started(m) => id < m.id
                    /\ m.st = "IDLE" => Past(id)'
<1> DEFINE m == [st |-> status'[1], slot |-> status'[2],
                 id |-> IF status'[1] = "IDLE" THEN 0 ELSE cmds,
                 ended |-> IF status'[1] = "IDLE" THEN ended ELSE "no"]
<1>0. Emit(m)
  BY DEF Report
<1>1. [Next]_vars
  BY DEF Next, ControlStep
<1>2. m \in Message /\ m.st # "none" /\ cmds \in Nat
  <2>1. TypeOK'
    BY <1>1, NextCore DEF CoreInv
  <2>2. status'[1] \in StateName /\ status'[2] \in Slots \cup {NoSlot}
    BY <2>1 DEF TypeOK
  <2>3. cmds \in Nat
    BY ChildIds DEF CoreInv
  <2> QED  BY <2>2, <2>3 DEF Message, Ended, StateName
<1>3. CASE StopReap \/ PlaybackTimer
  <2>1. live' = {} /\ m.st = "IDLE"
    BY <1>3, IdleIsTrue
  <2> QED  BY <1>0, <1>1, <1>2, <2>1, PastKept DEF Started, Past
<1>4. CASE RecordSpawn \/ Launch
  <2>1. status'[1] # "IDLE" /\ ctl.pc # "ready" /\ ctl'.pc = "ready" /\ cmds' = cmds
    BY <1>4 DEF RecordSpawn, Launch, Publish, PlayState, Ready
  <2>2. m.id = cmds /\ m.st # "IDLE"
    BY <2>1
  <2> QED  BY <1>0, <1>2, <2>1, <2>2 DEF Started, Sent
<1> QED  BY <1>3, <1>4

---------------------------------------------------------------------------
(* The statuses on their way                                               *)

\* What LineType says of the elements.
LineFacts ==
    /\ wire \in Seq(Message) /\ finished \in Seq([id : Nat, ended : Ended]) /\ mirror \in Message
    /\ Len(wire) \in Nat /\ \A i \in 1..Len(wire) : wire[i] \in Message
    /\ Len(finished) \in Nat /\ \A i \in 1..Len(finished) : finished[i].id \in Nat
    /\ \A h \in Handlers : handler[h].seen \in Message
    /\ \A m \in Message : m.id \in Nat

LEMMA LineTypes == LineType => LineFacts
<1> SUFFICES ASSUME LineType PROVE LineFacts
  OBVIOUS
<1>1. wire \in Seq(Message) /\ finished \in Seq([id : Nat, ended : Ended]) /\ mirror \in Message
  BY DEF LineType
<1>2. Len(wire) \in Nat /\ Len(finished) \in Nat
  BY <1>1, LenProperties
<1>3. \A i \in 1..Len(wire) : wire[i] \in Message
  BY <1>1, ElementOfSeq
<1>4. \A i \in 1..Len(finished) : finished[i].id \in Nat
  <2>1. \A i \in 1..Len(finished) : finished[i] \in [id : Nat, ended : Ended]
    BY <1>1, ElementOfSeq
  <2> QED  BY <2>1
<1>5. \A h \in Handlers : handler[h].seen \in Message
  BY DEF LineType
<1>6. \A m \in Message : m.id \in Nat
  BY DEF Message
<1> QED  BY <1>1, <1>2, <1>3, <1>4, <1>5, <1>6 DEF LineFacts

\* A step that adds nothing to the line and learns nothing.
LEMMA LineKept ==
    ASSUME LineType, WireInv, SeenInv, FinishInv,
           \A id \in Nat : (Sent(id) => Sent(id)') /\ (Past(id) => Past(id)'),
           UNCHANGED <<wire, mirror, handler, finished>>
    PROVE  LineType' /\ WireInv' /\ SeenInv' /\ FinishInv'
<1>1. LineFacts
  BY LineTypes
<1> USE DEF LineFacts
<1>2. \A m, n \in Message : Follows(m, n) => Follows(m, n)'
  BY <1>1 DEF Follows, Started
<1>3. \A m \in Message : After(m) => After(m)'
  BY <1>1, <1>2 DEF After, Started
<1>4. LineType'
  BY DEF LineType
<1>5. WireInv'
  BY <1>1, <1>2 DEF WireInv, Started
<1>6. SeenInv'
  BY <1>1, <1>2, <1>3 DEF SeenInv
<1>7. FinishInv'
  BY <1>1 DEF FinishInv, Started
<1> QED  BY <1>4, <1>5, <1>6, <1>7

\* What Emit leaves on the line: some of what was there, and the message at the end.
LEMMA EmitDoes ==
    ASSUME wire \in Seq(Message), NEW m \in Message, Emit(m)
    PROVE  /\ wire' \in Seq(Message) /\ Len(wire') \in Nat \ {0} /\ wire'[Len(wire')] = m
           /\ Len(wire') - 1 <= Len(wire)
           /\ \A i \in 1..(Len(wire') - 1) : wire'[i] = wire[i]
<1>1. Len(wire) \in Nat
  BY LenProperties
<1>2. CASE wire' = Append(wire, m)
  BY <1>1, <1>2, AppendProperties
<1>3. CASE wire # <<>> /\ wire' = Append(SubSeq(wire, 1, Len(wire) - 1), m)
  <2> DEFINE q == SubSeq(wire, 1, Len(wire) - 1)
  <2>1. Len(wire) # 0
    BY <1>3, EmptySeq
  <2>2. q \in Seq(Message) /\ Len(q) = Len(wire) - 1 /\ \A i \in 1..(Len(wire) - 1) : q[i] = wire[i]
    <3>1. \A i \in 1..(Len(wire) - 1) : wire[i] \in Message
      BY <1>1, ElementOfSeq
    <3>2. 1 \in Int /\ Len(wire) - 1 \in Nat
      BY <1>1, <2>1
    <3>3. /\ q \in Seq(Message) /\ Len(q) = IF 1 <= Len(wire) - 1 THEN (Len(wire) - 1) - 1 + 1 ELSE 0
          /\ \A i \in 1..((Len(wire) - 1) - 1 + 1) : q[i] = wire[1 + i - 1]
      BY <3>1, <3>2, SubSeqProperties
    <3> HIDE DEF q
    <3>4. ASSUME NEW i \in 1..(Len(wire) - 1) PROVE q[i] = wire[i]
      <4>1. 1 + i - 1 = i /\ (Len(wire) - 1) - 1 + 1 = Len(wire) - 1
        BY <3>2
      <4> QED  BY <3>3, <4>1
    <3>5. Len(q) = Len(wire) - 1
      <4>1. CASE 1 <= Len(wire) - 1
        BY <3>2, <3>3, <4>1
      <4>2. CASE Len(wire) - 1 = 0
        BY <3>2, <3>3, <4>2
      <4>3. \A k \in Nat : 1 <= k \/ k = 0
        OBVIOUS
      <4> QED  BY <3>2, <4>1, <4>2, <4>3
    <3> QED  BY <3>3, <3>4, <3>5
  <2> HIDE DEF q
  <2>3. wire' = Append(q, m)
    BY <1>3 DEF q
  <2> QED  BY <1>1, <2>1, <2>2, <2>3, AppendProperties
<1> QED  BY <1>2, <1>3 DEF Emit

\* A report goes to the end of the line; the one it may replace is only missed.
LEMMA LineReports ==
    ASSUME LineType, WireInv, SeenInv, FinishInv, NEW m \in Message, Emit(m),
           \A id \in Nat : (Sent(id) => Sent(id)') /\ (Past(id) => Past(id)'),
           Started(m) => Sent(m.id)',
           \A id \in Nat : Sent(id) => /\ Started(m) => id < m.id
                                       /\ m.st = "IDLE" => Past(id)',
           UNCHANGED <<mirror, handler, finished>>
    PROVE  LineType' /\ WireInv' /\ SeenInv' /\ FinishInv'
<1> DEFINE n == Len(wire')
<1>1. LineFacts
  BY LineTypes
<1> USE DEF LineFacts
<1>2. /\ wire' \in Seq(Message) /\ n \in Nat \ {0} /\ wire'[n] = m
      /\ \A i \in 1..(n - 1) : i \in 1..Len(wire) /\ wire'[i] = wire[i]
  <2>1. Len(wire) \in Nat
    BY <1>1, LenProperties
  <2> QED  BY <1>1, <2>1, EmitDoes
<1> HIDE DEF n
<1>3. \A k, l \in Message : Follows(k, l) => Follows(k, l)'
  BY <1>1 DEF Follows, Started
\* The new message follows whatever has been announced.
<1>4. \A k \in Message : (Started(k) => Sent(k.id)) => Follows(k, m)'
  BY <1>1 DEF Follows, Started
<1>5. \A i \in 1..n : i = n \/ i \in 1..(n - 1)
  BY <1>2
<1>6. \A k \in Message : After(k) => After(k)'
  <2> SUFFICES ASSUME NEW k \in Message, After(k) PROVE After(k)'
    OBVIOUS
  <2>1. Started(k)' => Sent(k.id)'
    BY <1>1 DEF After, Started
  <2>2. ASSUME NEW i \in 1..n PROVE Follows(k, wire[i])'
    <3>1. CASE i = n
      BY <1>2, <1>4, <3>1 DEF After
    <3>2. CASE i \in 1..(n - 1)
      BY <1>1, <1>2, <1>3, <3>2 DEF After
    <3> QED  BY <1>5, <3>1, <3>2
  <2> QED  BY <2>1, <2>2 DEF After, n
<1>7. LineType'
  BY <1>2 DEF LineType
<1>8. WireInv'
  <2>1. ASSUME NEW i \in 1..n, Started(wire[i])' PROVE Sent(wire[i].id)'
    <3>1. CASE i = n
      BY <1>2, <2>1, <3>1
    <3>2. CASE i \in 1..(n - 1)
      BY <1>1, <1>2, <2>1, <3>2 DEF WireInv
    <3> QED  BY <1>5, <3>1, <3>2
  <2>2. ASSUME NEW i \in 1..n, NEW j \in 1..n, i < j PROVE Follows(wire[i], wire[j])'
    <3>0. i \in 1..(n - 1) /\ i \in 1..Len(wire) /\ wire'[i] = wire[i] /\ wire[i] \in Message
      BY <1>1, <1>2, <2>2
    <3>1. CASE j = n
      BY <1>2, <1>4, <3>0, <3>1 DEF WireInv
    <3>2. CASE j \in 1..(n - 1)
      BY <1>1, <1>2, <1>3, <2>2, <3>0, <3>2 DEF WireInv
    <3> QED  BY <1>5, <3>1, <3>2
  <2> QED  BY <2>1, <2>2 DEF WireInv, n, Started
<1>9. SeenInv'
  BY <1>1, <1>3, <1>6 DEF SeenInv
<1>10. FinishInv'
  <2>1. ASSUME NEW i \in 1..Len(finished), NEW j \in 1..n, Started(wire'[j]) PROVE finished[i].id < wire'[j].id
    <3>0. finished[i].id \in Nat /\ Sent(finished[i].id)
      BY <1>1 DEF FinishInv, Past
    <3>1. CASE j = n
      BY <1>2, <2>1, <3>0, <3>1
    <3>2. CASE j \in 1..(n - 1)
      BY <1>2, <2>1, <3>2 DEF FinishInv
    <3> QED  BY <1>5, <3>1, <3>2
  <2> QED  BY <1>1, <2>1 DEF FinishInv, n, Started
<1> QED  BY <1>7, <1>8, <1>9, <1>10

---------------------------------------------------------------------------
(* The dashboard                                                           *)

\* The mirror takes the next message: what followed the mirror is followed by it.
LEMMA NextArrival ==
    ASSUME LineType, WireInv, SeenInv, FinishInv, D!StatusArrives, UNCHANGED <<ctl, cmds, live>>
    PROVE  LineType' /\ WireInv' /\ SeenInv' /\ FinishInv'
<1>1. LineFacts
  BY LineTypes
<1> USE DEF LineFacts
<1>2. PICK n \in Nat, m \in Message :
         /\ n + 1 = Len(wire) /\ m = wire[1] /\ mirror' = m /\ UNCHANGED handler
         /\ wire' \in Seq(Message) /\ Len(wire') = n
         /\ \A i \in 1..n : i + 1 \in 1..Len(wire) /\ wire'[i] = wire[i + 1]
  <2>1. wire # <<>> /\ mirror' = Head(wire) /\ wire' = Tail(wire) /\ UNCHANGED handler
    BY DEF D!StatusArrives
  <2>2. Len(wire) # 0
    BY <1>1, <2>1, EmptySeq
  <2>3. 1 \in 1..Len(wire) /\ wire[1] \in Message /\ mirror' = wire[1]
    BY <1>1, <2>1, <2>2
  <2>4. wire' \in Seq(Message) /\ Len(wire') = Len(wire) - 1
        /\ \A i \in 1..(Len(wire) - 1) : wire'[i] = wire[i + 1]
    BY <1>1, <2>1, HeadTailProperties
  <2>5. Len(wire) - 1 \in Nat /\ (Len(wire) - 1) + 1 = Len(wire)
    BY <1>1, <2>2
  <2>6. \A i \in 1..(Len(wire) - 1) : i + 1 \in 1..Len(wire)
    BY <1>1
  <2> QED  BY <2>1, <2>3, <2>4, <2>5, <2>6
<1>3. \A id : (Sent(id) <=> Sent(id)') /\ (Past(id) <=> Past(id)')
  BY DEF Sent, Past
<1>4. \A k, l : Follows(k, l) <=> Follows(k, l)'
  BY <1>3 DEF Follows, Started
<1>5. /\ Started(m) => Sent(m.id)
      /\ \A i \in 1..n : Follows(m, wire'[i])
      /\ \A k : After(k) => Follows(k, m)
  <2>1. 1 \in 1..Len(wire)
    BY <1>1, <1>2
  <2>2. ASSUME NEW i \in 1..n PROVE Follows(m, wire[i + 1])
    <3>1. i + 1 \in 1..Len(wire) /\ 1 < i + 1
      BY <1>2
    <3> QED  BY <1>2, <2>1, <3>1 DEF WireInv
  <2> QED  BY <1>2, <2>1, <2>2 DEF WireInv, After
<1>6. \A k : After(k) => After(k)'
  <2> SUFFICES ASSUME NEW k, After(k) PROVE After(k)'
    OBVIOUS
  <2>1. Started(k) => Sent(k.id)'
    BY <1>3 DEF After
  <2>2. \A i \in 1..n : Follows(k, wire[i])'
    BY <1>2, <1>4 DEF After
  <2> QED  BY <1>2, <2>1, <2>2 DEF After, Started
<1>7. After(m)'
  <2>1. \A i \in 1..n : Follows(m, wire[i])'
    BY <1>4, <1>5
  <2>2. Started(m) => Sent(m.id)'
    BY <1>3, <1>5
  <2> QED  BY <1>2, <2>1, <2>2 DEF After, Started
<1>8. WireInv'
  <2>1. \A i \in 1..n : Started(wire[i])' => Sent(wire[i].id)'
    BY <1>2, <1>3 DEF WireInv, Started
  <2>2. ASSUME NEW i \in 1..n, NEW j \in 1..n, i < j PROVE Follows(wire[i], wire[j])'
    <3>1. Follows(wire[i + 1], wire[j + 1])
      BY <1>2, <2>2 DEF WireInv
    <3> QED  BY <1>2, <1>4, <3>1
  <2> QED  BY <1>2, <2>1, <2>2 DEF WireInv, Started
<1>9. SeenInv'
  <2>1. ASSUME NEW h \in Handlers PROVE Follows(handler[h].seen, m)
    BY <1>5 DEF SeenInv
  <2> QED  BY <1>2, <1>4, <1>6, <1>7, <2>1 DEF SeenInv
<1>10. finished' \in Seq([id : Nat, ended : Ended]) /\ FinishInv'
  <2>1. ASSUME NEW id \in Nat, \A j \in 1..Len(wire) : Started(wire[j]) => id < wire[j].id
        PROVE  /\ Started(m) => id < m.id
               /\ \A j \in 1..n : Started(wire'[j]) => id < wire'[j].id
    BY <1>1, <1>2, <2>1
  <2>2. CASE UNCHANGED finished
    BY <1>1, <1>2, <1>3, <2>1, <2>2 DEF FinishInv, Started
  <2>3. CASE Started(mirror) /\ m.st = "IDLE" /\ finished' = Append(finished, [id |-> mirror.id, ended |-> m.ended])
    <3>1. Past(mirror.id) /\ mirror.id \in Nat
          /\ \A j \in 1..Len(wire) : Started(wire[j]) => mirror.id < wire[j].id
      BY <1>1, <1>5, <2>3 DEF SeenInv, After, Follows
    <3>2. /\ finished' \in Seq([id : Nat, ended : Ended]) /\ Len(finished') = Len(finished) + 1
          /\ \A i \in 1..Len(finished) : finished'[i] = finished[i]
          /\ finished'[Len(finished) + 1].id = mirror.id
      <4>1. [id |-> mirror.id, ended |-> m.ended] \in [id : Nat, ended : Ended]
        BY <1>1, <1>2 DEF Message
      <4> QED  BY <1>1, <2>3, <4>1, AppendProperties
    <3>3. \A i \in 1..Len(finished) : finished[i].id < mirror.id
      BY <2>3 DEF FinishInv
    <3>4. \A i \in 1..(Len(finished) + 1) : i \in 1..Len(finished) \/ i = Len(finished) + 1
      BY <1>1
    <3>5. ~Started(m)
      BY <2>3 DEF Started
    <3>6. ASSUME NEW i \in 1..(Len(finished) + 1)
          PROVE  /\ finished'[i].id \in Nat /\ Past(finished'[i].id)
                 /\ \A j \in 1..Len(wire) : Started(wire[j]) => finished'[i].id < wire[j].id
      BY <1>1, <3>1, <3>2, <3>4 DEF FinishInv
    <3>7. ASSUME NEW i \in 1..(Len(finished) + 1), NEW j \in 1..(Len(finished) + 1), i < j
          PROVE  finished'[i].id < finished'[j].id
      <4>1. i \in 1..Len(finished) /\ finished'[i] = finished[i]
        BY <1>1, <3>2, <3>7
      <4>2. CASE j \in 1..Len(finished)
        BY <3>2, <3>7, <4>1, <4>2 DEF FinishInv
      <4>3. CASE j = Len(finished) + 1
        BY <3>2, <3>3, <4>1, <4>3
      <4> QED  BY <3>4, <4>2, <4>3
    <3>8. \A i \in 1..Len(finished') : Past(finished[i].id)'
      BY <1>3, <3>2, <3>6
    <3> QED  BY <1>2, <2>1, <3>2, <3>5, <3>6, <3>7, <3>8 DEF FinishInv, Started
  <2> QED  BY <1>1, <1>2, <2>2, <2>3 DEF D!StatusArrives, D!Playing, Started
<1>11. LineType'
  BY <1>2, <1>10 DEF LineType
<1> QED  BY <1>8, <1>9, <1>10, <1>11
\* The handlers keep what they have seen; a stop is sent only for a recording they have seen.
LEMMA NextHandler ==
    ASSUME LineType, WireInv, SeenInv, FinishInv, UNCHANGED <<ctl, cmds, live>>,
           NEW h \in Handlers,
           D!HandlerStep(h) \/ \E op \in D!Ops, s \in Slots : D!Request(h, op, s)
    PROVE  LineType' /\ WireInv' /\ SeenInv' /\ FinishInv'
<1>1. LineFacts
  BY LineTypes
<1> USE DEF LineFacts
<1>2. UNCHANGED <<wire, mirror, finished>>
  BY DEF D!HandlerStep, D!Send, D!Refuse, D!Confirmed, D!TimedOut, D!UnlinkBag, D!UnlinkActive, D!Request
<1>3. PICK k : /\ handler' = [handler EXCEPT ![h] = k]
               /\ k \in [pc : {"free", "decide", "wait", "unlink", "unlinkActive"},
                         op : D!Ops \cup {"none"}, slot : Slots \cup {NoSlot}, seen : Message]
               /\ k.seen \in {handler[h].seen, mirror, D!NoStatus}
               /\ k.pc = "wait" /\ k.op = "recordStop" => k.seen.st = "RECORDING"
  <2> DEFINE Kinds == [pc : {"free", "decide", "wait", "unlink", "unlinkActive"},
                       op : D!Ops \cup {"none"}, slot : Slots \cup {NoSlot}, seen : Message]
  <2>0. handler[h] \in Kinds
    BY DEF LineType
  <2>1. CASE \E op \in D!Ops, s \in Slots : D!Request(h, op, s)
    BY <1>1, <2>1 DEF D!Request
  <2>2. CASE handler' = [handler EXCEPT ![h] = D!Free]
    <3>1. D!Free \in Kinds
      BY DEF D!Free, D!NoStatus, Message, Ended
    <3> QED  BY <2>2, <3>1 DEF D!Free
  <2>3. ASSUME NEW pc \in {"wait", "unlink", "unlinkActive"}, handler' = [handler EXCEPT ![h].pc = pc],
               pc = "wait" => D!MaySend(h)
        PROVE  \E k : /\ handler' = [handler EXCEPT ![h] = k] /\ k \in Kinds
                      /\ k.seen \in {handler[h].seen, mirror, D!NoStatus}
                      /\ k.pc = "wait" /\ k.op = "recordStop" => k.seen.st = "RECORDING"
    <3>1. /\ [handler[h] EXCEPT !.pc = pc] \in Kinds
          /\ [handler[h] EXCEPT !.pc = pc].seen = handler[h].seen
          /\ [handler[h] EXCEPT !.pc = pc].op = handler[h].op
          /\ [handler[h] EXCEPT !.pc = pc].pc = pc
      BY <2>0
    <3>2. handler' = [handler EXCEPT ![h] = [handler[h] EXCEPT !.pc = pc]]
      BY <2>3
    <3>3. pc = "wait" /\ handler[h].op = "recordStop" => handler[h].seen.st = "RECORDING"
      BY <2>3 DEF D!MaySend
    <3> QED  BY <3>1, <3>2, <3>3
  <2>4. CASE D!HandlerStep(h)
    <3>1. CASE D!Send(h)
      BY <2>3, <3>1 DEF D!Send, D!Goto
    <3>2. CASE D!Refuse(h) \/ D!Confirmed(h) \/ D!TimedOut(h) \/ D!UnlinkBag(h) \/ D!UnlinkActive(h)
      BY <2>2, <2>3, <3>2 DEF D!Refuse, D!Confirmed, D!TimedOut, D!UnlinkBag, D!UnlinkActive, D!Goto, D!Reply
    <3> QED  BY <2>4, <3>1, <3>2 DEF D!HandlerStep
  <2> QED  BY <2>1, <2>4
<1>4. \A id : (Sent(id) <=> Sent(id)') /\ (Past(id) <=> Past(id)')
  BY DEF Sent, Past
<1>5. \A j, l : Follows(j, l) <=> Follows(j, l)'
  BY <1>4 DEF Follows, Started
<1>6. \A j : After(j) <=> After(j)'
  BY <1>2, <1>4, <1>5 DEF After, Started
<1>7. After(k.seen) /\ (k.seen = mirror \/ Follows(k.seen, mirror))
  <2>1. After(D!NoStatus) /\ Follows(D!NoStatus, mirror)
    BY DEF D!NoStatus, After, Follows, Started
  <2> QED  BY <1>3, <2>1 DEF SeenInv
<1>8. \A g \in Handlers : handler'[g] = IF g = h THEN k ELSE handler[g]
  BY <1>3 DEF LineType
<1>9. LineType'
  BY <1>2, <1>3 DEF LineType
<1>10. SeenInv'
  BY <1>2, <1>3, <1>5, <1>6, <1>7, <1>8 DEF SeenInv
<1>11. WireInv' /\ FinishInv'
  BY <1>1, <1>2, <1>4, <1>5 DEF WireInv, FinishInv, Started
<1> QED  BY <1>9, <1>10, <1>11

\* A command is sent for the slot of its request.
LEMMA NextControl == ASSUME LineType, ControlInv, D!Next PROVE ControlInv'
<1> DEFINE Commands == [cmd : {"RECORD", "PLAY", "STOP"}, slot : Slots]
<1> USE DEF ControlInv
<1>1. ASSUME NEW h \in Handlers, NEW op \in D!Ops, NEW s \in Slots, D!Request(h, op, s)
      PROVE  ControlInv'
  BY <1>1 DEF D!Request, LineType
<1>2. ASSUME NEW h \in Handlers, D!Send(h)
      PROVE  ControlInv'
  <2>1. D!Command(handler[h].op, handler[h].slot) \in Commands
    BY <1>2 DEF D!Send, D!Command
  <2>2. control' \in Seq(Commands)
    BY <1>2, <2>1, AppendProperties DEF D!Send
  <2> QED  BY <1>2, <2>2 DEF D!Send, D!Goto, LineType
<1>3. ASSUME NEW h \in Handlers,
             D!Refuse(h) \/ D!Confirmed(h) \/ D!TimedOut(h) \/ D!UnlinkBag(h) \/ D!UnlinkActive(h)
      PROVE  ControlInv'
  <2>1. UNCHANGED control /\ handler[h].pc # "free"
    BY <1>3 DEF D!Refuse, D!Confirmed, D!TimedOut, D!UnlinkBag, D!UnlinkActive
  <2>2. D!Reply(h) \/ \E pc \in {"unlink", "unlinkActive"} : D!Goto(h, pc)
    BY <1>3 DEF D!Refuse, D!Confirmed, D!TimedOut, D!UnlinkBag, D!UnlinkActive
  <2>3. \A g \in Handlers : handler'[g].pc # "free" => handler[g].pc # "free" /\ handler'[g].slot = handler[g].slot
    BY SMTT(30), <2>1, <2>2 DEF D!Goto, D!Reply, D!Free, LineType
  <2> QED  BY <2>1, <2>3
<1>4. CASE D!StatusArrives \/ D!WindowElapses
  BY <1>4 DEF D!StatusArrives, D!WindowElapses
<1> QED  BY <1>1, <1>2, <1>3, <1>4 DEF D!Next, D!HandlerStep

---------------------------------------------------------------------------
(* The system                                                              *)

\* The handlers' unlinks leave types and children as they are.
LEMMA CoreShared ==
    ASSUME CoreInv, OwnInv, D!Next,
           UNCHANGED <<muxVars, ctl, cmds, cbVars, goal, childVars, latest, nodeVars>>
    PROVE  CoreInv' /\ OwnInv'
<1> USE DEF muxVars, cbVars, childVars, nodeVars
<1>1. /\ bag' \in [Slots -> File] /\ act' \in [Slots -> File]
  <2>1. NoRec \in File /\ bag \in [Slots -> File] /\ act \in [Slots -> File]
    BY DEF CoreInv, TypeOK, File
  <2> QED
    BY <2>1 DEF D!Next, D!Request, D!HandlerStep, D!Send, D!Refuse, D!Confirmed, D!TimedOut, D!UnlinkBag,
                D!UnlinkActive, D!StatusArrives, D!WindowElapses
<1>2. TypeOK'
  BY <1>1 DEF CoreInv, TypeOK
<1>3. CommandInv' /\ ModeInv' /\ ChildInv' /\ OwnInv'
  BY DEF CoreInv, CommandInv, ModeInv, ChildInv, OwnInv, OneChild, Busy, IsPlaying
<1> QED  BY <1>2, <1>3 DEF CoreInv

LEMMA InitSys == SysInit => SysInv
<1> SUFFICES ASSUME Init, D!Init PROVE SysInv
  BY DEF SysInit
<1>1. CoreInv
  BY InitMux DEF MuxInv, CoreInv
<1>2. OwnInv
  BY DEF Init, OwnInv, Busy, Ready
<1>3. D!NoStatus \in Message /\ [D!NoStatus EXCEPT !.st = "IDLE"] \in Message /\ D!Free.seen = D!NoStatus
      /\ ~Started(D!NoStatus) /\ [D!NoStatus EXCEPT !.st = "IDLE"].st = "IDLE"
  BY DEF D!NoStatus, D!Free, Message, Ended, Started, StateName
<1>4. D!Free \in [pc : {"free", "decide", "wait", "unlink", "unlinkActive"},
                  op : D!Ops \cup {"none"}, slot : Slots \cup {NoSlot}, seen : Message]
  BY <1>3 DEF D!Free
<1>5. /\ mirror = D!NoStatus /\ finished = <<>> /\ handler = [h \in Handlers |-> D!Free]
      /\ wire = <<[D!NoStatus EXCEPT !.st = "IDLE"]>>
  BY DEF D!Init
<1>6. Len(wire) = 1 /\ wire[1].st = "IDLE" /\ wire \in Seq(Message)
  <2> DEFINE idle == [D!NoStatus EXCEPT !.st = "IDLE"]
  <2>1. wire = <<idle>> /\ idle \in Message /\ idle.st = "IDLE"
    BY <1>3, <1>5
  <2> HIDE DEF idle
  <2> QED  BY <2>1
<1>7. LineType
  BY <1>3, <1>4, <1>5, <1>6 DEF LineType
<1>8. WireInv /\ After(mirror)
  BY <1>3, <1>5, <1>6 DEF WireInv, After, Follows, Started
<1>9. SeenInv
  BY <1>3, <1>5, <1>8 DEF SeenInv, D!Free
<1>10. FinishInv
  BY <1>5 DEF FinishInv
<1>11. ControlInv
  BY <1>5 DEF ControlInv, D!Init, D!Free
<1> QED  BY <1>1, <1>2, <1>7, <1>8, <1>9, <1>10, <1>11 DEF SysInv

LEMMA NextSys == SysInv /\ [SysNext]_sysVars => SysInv'
<1> SUFFICES ASSUME SysInv, [SysNext]_sysVars PROVE SysInv'
  OBVIOUS
<1>0. CoreInv /\ OwnInv /\ LineType /\ ControlInv /\ WireInv /\ SeenInv /\ FinishInv
  BY DEF SysInv
\* A step of the multiplexer is one of BagRecorder.
<1>1. ASSUME [Next]_vars
      PROVE  CoreInv' /\ OwnInv' /\ \A id \in Nat : (Sent(id) => Sent(id)') /\ (Past(id) => Past(id)')
  BY <1>0, <1>1, NextCore, NextOwn, PastKept
<1>2. ASSUME [Next]_vars, UNCHANGED wire, DashIdle, ControlInv'
      PROVE  SysInv'
  BY <1>0, <1>1, <1>2, LineKept DEF DashIdle, SysInv
<1>3. CASE MuxStep
  <2>1. [Next]_vars
    BY <1>3 DEF MuxStep, Publishes, MuxQuiet, Next, ControlStep
  <2>5. ControlInv'
    BY <1>0, <1>3 DEF MuxStep, DashIdle, ControlInv
  <2>2. ASSUME NEW ended \in Ended, Report(ended),
               \/ ended # "no" /\ (StopReap \/ PlaybackTimer)
               \/ ended = "no" /\ (RecordSpawn \/ Launch)
        PROVE  SysInv'
    <3>1. PICK m \in Message :
              /\ Emit(m)
              /\ Started(m) => Sent(m.id)'
              /\ \A id \in Nat : Sent(id) => /\ Started(m) => id < m.id
                                             /\ m.st = "IDLE" => Past(id)'
      BY <1>0, <2>2, ReportIsLatest
    <3>2. UNCHANGED <<mirror, handler, finished>>
      BY <1>3 DEF MuxStep, DashIdle
    <3>3. LineType' /\ WireInv' /\ SeenInv' /\ FinishInv'
      BY <1>0, <1>1, <2>1, <3>1, <3>2, LineReports
    <3> QED  BY <1>1, <2>1, <2>5, <3>3 DEF SysInv
  <2>3. CASE Publishes
    BY <2>2, <2>3 DEF Publishes, Ended
  <2>4. CASE UNCHANGED wire
    BY <1>2, <1>3, <2>1, <2>4, <2>5 DEF MuxStep
  <2> QED  BY <1>3, <2>3, <2>4 DEF MuxStep
<1>4. CASE MuxReceive
  <2>1. Head(control).slot \in Slots /\ Tail(control) \in Seq([cmd : {"RECORD", "PLAY", "STOP"}, slot : Slots])
    <3>1. control # <<>>
      BY <1>4 DEF MuxReceive
    <3>2. Head(control) \in [cmd : {"RECORD", "PLAY", "STOP"}, slot : Slots]
      BY <1>0, <3>1, HeadTailProperties DEF ControlInv
    <3> QED  BY <1>0, <3>1, <3>2, HeadTailProperties DEF ControlInv
  <2>2. [Next]_vars
    BY <1>4, <2>1 DEF MuxReceive, Next
  <2>3. ControlInv'
    BY <1>0, <1>4, <2>1 DEF MuxReceive, DashIdle, ControlInv
  <2> QED  BY <1>2, <1>4, <2>2, <2>3 DEF MuxReceive
<1>5. CASE DashStep
  <2>1. D!Next /\ UNCHANGED <<muxVars, ctl, cmds, cbVars, goal, childVars, latest, nodeVars>>
    BY <1>5 DEF DashStep
  <2>2. CoreInv' /\ OwnInv'
    BY <1>0, <2>1, CoreShared
  <2>3. UNCHANGED <<ctl, cmds, live>>
    BY <2>1 DEF childVars
  <2>4. LineType' /\ WireInv' /\ SeenInv' /\ FinishInv'
    <3>1. CASE D!StatusArrives
      BY <1>0, <2>3, <3>1, NextArrival
    <3>2. CASE \E h \in Handlers : D!HandlerStep(h) \/ \E op \in D!Ops, s \in Slots : D!Request(h, op, s)
      BY <1>0, <2>3, <3>2, NextHandler
    <3>3. CASE D!WindowElapses
      <4>1. UNCHANGED <<wire, mirror, handler, finished>>
        BY <3>3 DEF D!WindowElapses
      <4>2. \A id \in Nat : (Sent(id) => Sent(id)') /\ (Past(id) => Past(id)')
        BY <2>3 DEF Sent, Past
      <4> QED  BY <1>0, <4>1, <4>2, LineKept
    <3> QED  BY <2>1, <3>1, <3>2, <3>3 DEF D!Next
  <2> QED  BY <1>0, <2>1, <2>2, <2>4, NextControl DEF SysInv
<1>6. CASE UNCHANGED sysVars
  <2>1. UNCHANGED vars /\ UNCHANGED wire /\ DashIdle
    BY <1>6 DEF sysVars, D!dashVars, DashIdle
  <2>2. ControlInv'
    BY <1>0, <1>6 DEF sysVars, D!dashVars, ControlInv
  <2> QED  BY <1>2, <2>1, <2>2
<1> QED  BY <1>3, <1>4, <1>5, <1>6 DEF SysNext

\* The invariant of the two nodes and of all that is on its way between them.
THEOREM SystemInvariant == SysSpec => []SysInv
BY InitSys, NextSys, PTL DEF SysSpec

\* However late and thinned out the statuses arrive, /dashboard/playback_finished never fires twice for
\* a playback, nor while its player is still running (_status_callback, dashboard_controller.py:67):
\* an IDLE is published when no child is left, and session numbers only grow along the line.
THEOREM FinishedIsOnceAndOver == SysSpec => []FinishedOnceAndOver
<1>1. SysInv => FinishedOnceAndOver
  <2> SUFFICES ASSUME SysInv PROVE FinishedOnceAndOver
    OBVIOUS
  <2>1. LineFacts /\ FinishInv
    BY LineTypes DEF SysInv
  <2>2. \A i \in 1..Len(finished) : \A c \in live : c.id # finished[i].id
    BY <2>1 DEF FinishInv, Past
  <2>3. ASSUME NEW i \in 1..Len(finished), NEW j \in 1..Len(finished), finished[i].id = finished[j].id
        PROVE  i = j
    BY <2>1, <2>3 DEF FinishInv, LineFacts
  <2> QED  BY <2>2, <2>3 DEF FinishedOnceAndOver
<1> QED  BY <1>1, SystemInvariant, PTL

\* "Recording stopped" is true when it is answered, although any IDLE satisfies the wait of
\* handle_record (dashboard_controller.py:121): whoever has seen RECORDING sees no IDLE before that recorder is reaped.
THEOREM ConfirmedStopIsStopped == SysSpec => StopConfirmedIsStopped
<1>1. SysInv => \A h \in Handlers :
         D!Confirmed(h) /\ handler[h].op = "recordStop" => \A c \in live : c.id # handler[h].seen.id
  <2> SUFFICES ASSUME SysInv, NEW h \in Handlers, D!Confirmed(h), handler[h].op = "recordStop"
               PROVE  \A c \in live : c.id # handler[h].seen.id
    OBVIOUS
  <2>1. mirror.st = "IDLE" /\ handler[h].pc = "wait"
    BY DEF D!Confirmed, D!Awaited
  <2>2. handler[h].seen.st = "RECORDING" /\ (handler[h].seen = mirror \/ Follows(handler[h].seen, mirror))
    BY <2>1 DEF SysInv, SeenInv
  <2> QED  BY <2>1, <2>2 DEF Follows, Started, Past
<1> QED  BY <1>1, SystemInvariant, PTL DEF StopConfirmedIsStopped
=============================================================================
