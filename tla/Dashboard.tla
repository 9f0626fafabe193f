----------------------------- MODULE Dashboard ------------------------------
(***************************************************************************)
(* dashboard_controller.py: the adapter between Unity's slot dashboard and *)
(* the multiplexer.  Its service handlers, one thread per request, decide  *)
(* on a mirror of the latched status, send a command, and wait for the     *)
(* mirror to show the outcome; its status callback tells natural ends of a *)
(* playback from manual ones by the time since the last command.           *)
(*                                                                         *)
(* A timeout may fire whenever the awaited status is not there: the code's *)
(* 2 s, 5 s and 12 s stand against a multiplexer that can hold a command   *)
(* for more than 20 s.                                                     *)
(***************************************************************************)
EXTENDS Naturals, Sequences

CONSTANTS
    Slots, NoSlot, NoRec,   \* as in BagRecorder
    Handlers,               \* service threads that may run at once
    MaxRequests             \* bound: requests made to the four services

VARIABLES
    mirror,     \* the last status message seen (_status_state, _status_slot)
    recent,     \* a command was sent within CMD_SUPPRESS_WINDOW
    handler,    \* each service thread
    requests,   \* number of requests made so far
    control,    \* /sgr532/bag_control, commands not yet received
    wire,       \* /sgr532/bag_status, messages not yet received
    finished,   \* /dashboard/playback_finished, all messages published
    bag, act    \* the slots' files, shared with the multiplexer

dashVars == <<mirror, recent, handler, requests, control, wire, finished>>

Ops == {"record", "recordStop", "play", "playStop", "clear"}

\* A status message.  id and ended are not in the code's message: the session
\* it is about, and for an IDLE what ended it.
NoStatus == [st |-> "none", slot |-> NoSlot, id |-> 0, ended |-> "no"]
Free     == [pc |-> "free", op |-> "none", slot |-> NoSlot, seen |-> NoStatus]

Playing(m) == m.st \in {"PLAYING", "PLAYING_EE"}
BusyOn(m, s) == m.st \notin {"none", "IDLE"} /\ m.slot = s
SlotHasData(s) == bag[s] # NoRec \/ act[s] # NoRec

Init ==
    /\ mirror = NoStatus /\ recent = FALSE
    /\ handler = [h \in Handlers |-> Free] /\ requests = 0
    /\ control = <<>>
    /\ wire = <<[NoStatus EXCEPT !.st = "IDLE"]>>   \* latched: sent on connection
    /\ finished = <<>>

\* A request arrives and its handler reads the mirror.
Request(h, op, s) ==
    /\ handler[h].pc = "free" /\ requests < MaxRequests
    /\ requests' = requests + 1
    /\ handler' = [handler EXCEPT ![h] = [pc |-> "decide", op |-> op, slot |-> s, seen |-> mirror]]
    /\ UNCHANGED <<mirror, recent, control, wire, finished, bag, act>>

\* What the handler must have seen to send its command.
MaySend(h) ==
    LET op == handler[h].op  s == handler[h].slot  m == handler[h].seen IN
    \/ op = "record" /\ m.st = "IDLE"
    \/ op = "recordStop" /\ m.st = "RECORDING" /\ m.slot = s
    \/ op = "play" /\ m.st = "IDLE" /\ SlotHasData(s)
    \/ op = "playStop" /\ Playing(m) /\ m.slot = s
    \/ op = "clear" /\ BusyOn(m, s)

\* The command of a request.  A STOP names no slot in the code: slot tells
\* which one it was meant for.
Command(op, s) ==
    [cmd |-> CASE op = "record" -> "RECORD" [] op = "play" -> "PLAY" [] OTHER -> "STOP",
     slot |-> s]

Goto(h, pc) == handler' = [handler EXCEPT ![h].pc = pc]
Reply(h) == handler' = [handler EXCEPT ![h] = Free]

Send(h) ==
    /\ handler[h].pc = "decide" /\ MaySend(h)
    /\ control' = Append(control, Command(handler[h].op, handler[h].slot))
    /\ recent' = TRUE
    /\ Goto(h, "wait")
    /\ UNCHANGED <<mirror, requests, wire, finished, bag, act>>

\* success=False; a clear of a slot that is not in use goes on to delete it.
Refuse(h) ==
    /\ handler[h].pc = "decide" /\ ~MaySend(h)
    /\ IF handler[h].op = "clear" THEN Goto(h, "unlink") ELSE Reply(h)
    /\ UNCHANGED <<mirror, recent, requests, control, wire, finished, bag, act>>

\* The predicate of the handler's _wait_for_status.
Awaited(h) ==
    LET op == handler[h].op IN
    \/ op = "record" /\ mirror.st = "RECORDING" /\ mirror.slot = handler[h].slot
    \/ op = "play" /\ Playing(mirror) /\ mirror.slot = handler[h].slot
    \/ op \in {"recordStop", "playStop", "clear"} /\ mirror.st = "IDLE"

\* Mutant: the outcome of the wait is not looked at.
ConfirmedUnchecked(h) ==
    /\ handler[h].pc = "wait"
    /\ IF handler[h].op = "clear" THEN Goto(h, "unlink") ELSE Reply(h)
    /\ UNCHANGED <<mirror, recent, requests, control, wire, finished, bag, act>>

\* success=True, or the clear goes on.
Confirmed(h) ==
    /\ handler[h].pc = "wait" /\ Awaited(h)
    /\ IF handler[h].op = "clear" THEN Goto(h, "unlink") ELSE Reply(h)
    /\ UNCHANGED <<mirror, recent, requests, control, wire, finished, bag, act>>

\* Mutant: only a play has a timeout.
TimedOutPlayOnly(h) ==
    /\ handler[h].pc = "wait" /\ ~Awaited(h) /\ handler[h].op = "play"
    /\ Reply(h)
    /\ UNCHANGED <<mirror, recent, requests, control, wire, finished, bag, act>>

\* The wait times out: a play reports success all the same, the others fail.
TimedOut(h) ==
    /\ handler[h].pc = "wait" /\ ~Awaited(h)
    /\ Reply(h)
    /\ UNCHANGED <<mirror, recent, requests, control, wire, finished, bag, act>>

\* handle_clear removes the .bag, then the .bag.active.
UnlinkBag(h) ==
    /\ handler[h].pc = "unlink"
    /\ bag' = [bag EXCEPT ![handler[h].slot] = NoRec]
    /\ Goto(h, "unlinkActive")
    /\ UNCHANGED <<mirror, recent, requests, control, wire, finished, act>>

UnlinkActive(h) ==
    /\ handler[h].pc = "unlinkActive"
    /\ act' = [act EXCEPT ![handler[h].slot] = NoRec]
    /\ Reply(h)
    /\ UNCHANGED <<mirror, recent, requests, control, wire, finished, bag>>

HandlerStep(h) ==
    \/ Send(h) \/ Refuse(h) \/ Confirmed(h) \/ TimedOut(h)
    \/ UnlinkBag(h) \/ UnlinkActive(h)

\* Mutant: the previous state is not looked at.
StatusArrivesAnyIdle ==
    /\ wire # <<>>
    /\ mirror' = Head(wire) /\ wire' = Tail(wire)
    /\ finished' = IF mirror'.st = "IDLE" /\ ~recent
                   THEN Append(finished, [id |-> mirror.id, ended |-> mirror'.ended])
                   ELSE finished
    /\ UNCHANGED <<recent, handler, requests, control, bag, act>>

\* _status_callback: PLAYING -> IDLE outside the window is a natural finish.
StatusArrives ==
    /\ wire # <<>>
    /\ mirror' = Head(wire) /\ wire' = Tail(wire)
    /\ finished' = IF Playing(mirror) /\ mirror'.st = "IDLE" /\ ~recent
                   THEN Append(finished, [id |-> mirror.id, ended |-> mirror'.ended])
                   ELSE finished
    /\ UNCHANGED <<recent, handler, requests, control, bag, act>>

\* CMD_SUPPRESS_WINDOW seconds have gone since the last command.
WindowElapses ==
    /\ recent /\ recent' = FALSE
    /\ UNCHANGED <<mirror, handler, requests, control, wire, finished, bag, act>>

Next ==
    \/ \E h \in Handlers, op \in Ops, s \in Slots : Request(h, op, s)
    \/ \E h \in Handlers : HandlerStep(h)
    \/ StatusArrives \/ WindowElapses
=============================================================================
