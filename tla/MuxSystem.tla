----------------------------- MODULE MuxSystem ------------------------------
(***************************************************************************)
(* The dashboard and the multiplexer together: commands travel on          *)
(* /sgr532/bag_control, statuses on /sgr532/bag_status, and both nodes     *)
(* work on the same slot files.  Teleoperation and replayed messages are   *)
(* left to BagRecorder alone (MaxPending = 0 here).                        *)
(***************************************************************************)
EXTENDS BagRecorder, Sequences

CONSTANTS
    Handlers, MaxRequests,  \* as in Dashboard
    MaxWire                 \* bound: status messages on their way

VARIABLES mirror, recent, handler, requests, control, wire, finished

D == INSTANCE Dashboard

sysVars == <<vars, D!dashVars>>

SysInit == Init /\ D!Init

\* Mutant: the queue keeps the old message and drops the new one.
EmitDropsNewest(m) ==
    \/ Len(wire) < MaxWire /\ wire' = Append(wire, m)
    \/ wire # <<>> /\ wire' = wire

\* The status publisher has queue_size=1: a message that has not been sent
\* yet is dropped for the next one.
Emit(m) ==
    \/ Len(wire) < MaxWire /\ wire' = Append(wire, m)
    \/ wire # <<>> /\ wire' = Append(SubSeq(wire, 1, Len(wire) - 1), m)

\* The message a publishing step of the multiplexer sends: what it is about
\* is the child it started, or what ended the one before.
Report(ended) ==
    Emit([st |-> status'[1], slot |-> status'[2],
          id |-> IF status'[1] = "IDLE" THEN 0 ELSE cmds,
          ended |-> IF status'[1] = "IDLE" THEN ended ELSE "no"])

Publishes == (StopReap /\ Report("command")) \/ (RecordSpawn /\ Report("no"))
             \/ (Launch /\ Report("no")) \/ (PlaybackTimer /\ Report("self"))

DashIdle == UNCHANGED <<mirror, recent, handler, requests, finished>>

MuxQuiet ==
    \/ StopRaises \/ RecordSpawnFails \/ PeekAborts \/ PeekSpawn \/ PeekEnds
    \/ PrePositioned \/ PrePositionInterrupted \/ LaunchFails
    \/ \E c \in live : ChildStep(c)
    \/ ShutdownStep

MuxStep ==
    /\ Publishes \/ (MuxQuiet /\ UNCHANGED wire)
    /\ DashIdle /\ UNCHANGED control

\* Mutant: commands are left waiting while something runs.
MuxReceiveWhenIdle ==
    /\ control # <<>> /\ control' = Tail(control) /\ state = "IDLE"
    /\ LET m == Head(control) IN
          \/ m.cmd = "RECORD" /\ RecordCmd(m.slot)
          \/ m.cmd = "PLAY" /\ PlayCmd(m.slot)
          \/ /\ m.cmd = "PLAY" /\ PlayablePath(m.slot) = "none"
             /\ phase = "up" /\ LockFree /\ UNCHANGED vars
          \/ m.cmd = "STOP" /\ StopCmd
    /\ DashIdle /\ UNCHANGED wire

\* The control subscriber takes the next command; a PLAY of a slot with no
\* bag has no effect.
MuxReceive ==
    /\ control # <<>> /\ control' = Tail(control)
    /\ LET m == Head(control) IN
          \/ m.cmd = "RECORD" /\ RecordCmd(m.slot)
          \/ m.cmd = "PLAY" /\ PlayCmd(m.slot)
          \/ /\ m.cmd = "PLAY" /\ PlayablePath(m.slot) = "none"
             /\ phase = "up" /\ LockFree /\ UNCHANGED vars
          \/ m.cmd = "STOP" /\ StopCmd
    /\ DashIdle /\ UNCHANGED wire

DashStep ==
    /\ D!Next
    /\ UNCHANGED <<muxVars, ctl, cmds, cbVars, goal, childVars, latest, nodeVars>>

SysNext == MuxStep \/ MuxReceive \/ DashStep

\* The multiplexer's own fairness, and that messages arrive, handlers run and
\* the multiplexer reads its commands.
SysFairness ==
    /\ WF_sysVars(MuxStep /\ ControlStep)
    /\ WF_sysVars(MuxStep /\ PlaybackTimer)
    /\ WF_sysVars(MuxStep /\ \E c \in live : PlayerExits(c))
    /\ WF_sysVars(MuxReceive)
    /\ WF_sysVars(DashStep /\ D!StatusArrives)
    /\ \A h \in Handlers : WF_sysVars(DashStep /\ D!HandlerStep(h))

SysSpec == SysInit /\ [][SysNext]_sysVars
FairSysSpec == SysSpec /\ SysFairness

---------------------------------------------------------------------------
(* Properties                                                              *)

\* /dashboard/playback_finished never fires twice for a playback, nor while
\* its player is still running, however late and thinned out statuses arrive.
FinishedOnceAndOver ==
    \A i \in 1..Len(finished) :
        /\ \A c \in live : c.kind = "play" => c.id # finished[i].id
        /\ \A j \in 1..Len(finished) : finished[i].id = finished[j].id => i = j

\* "Recording stopped" is answered only when the recorder whose RECORDING
\* status the handler had seen has been reaped (handle_record, stop).
StopConfirmedIsStopped ==
    [][\A h \in Handlers :
          D!Confirmed(h) /\ handler[h].op = "recordStop" =>
              \A c \in live : c.id # handler[h].seen.id]_sysVars

\* Once commands cease the dashboard's mirror settles on the truth, unless the
\* multiplexer has shut down: dropping queued statuses loses only outdated ones.
MirrorConverges == <>[](phase # "up" \/ (mirror.st = status[1] /\ mirror.slot = status[2]))

\* Every request is answered, whatever the multiplexer does: once no more are
\* made, no handler is left waiting.
RequestsAnswered == <>[](\A h \in Handlers : handler[h].pc = "free")

\* Every command put on /sgr532/bag_control is received in the end, unless the
\* multiplexer shuts down first.
CommandsServed == <>[](control = <<>> \/ phase # "up")

=============================================================================
