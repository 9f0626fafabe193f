------------------------------ MODULE SerialLink ------------------------------
(***************************************************************************)
(* The serial side of the arm driver: sdk_sagittarius_arm_common.cpp (the  *)
(* receive thread and its frame parser), _common_serial.cpp (device and    *)
(* commands) and what _real.cpp does with them outside of trajectories:    *)
(* start-up, joint commands, torque switch and the servo service.  The     *)
(* callbacks run one at a time on the ros::spin() thread, called main      *)
(* here; the receive thread shares its data with them and no lock.         *)
(*                                                                         *)
(* Bytes are kept as far as the parser tells them apart.  A frame is four  *)
(* cells: head (0x55), length, body, and checksum with tail.  A checksum   *)
(* is taken to find every frame that is not whole.                         *)
(***************************************************************************)
EXTENDS Naturals, Sequences, FiniteSets, SequencesExt

CONSTANTS
    Limit,       \* longest read and longest buffer the parser goes on with: 255 bytes, here cells,
                 \* more than a frame has
    Poses,       \* joint commands
    MaxFrames,   \* bound: frames the arm sends
    MaxRequests, \* bound: calls of the servo service
    MaxStream    \* bound: cells on their way

ASSUME LinkAssumption == Limit \in Nat \ 0..4 /\ {MaxFrames, MaxRequests, MaxStream} \subseteq Nat

VARIABLES
    traffic,   \* what this behaviour looks at: commands out to the arm, or frames in from it.  The
               \* two share nothing but the device and the turns of the main thread.
    rviz,      \* parameter just_rviz_control: commands only, nothing is received
    fd,        \* mFd: never opened, open, or closed by a failed InitDevice that keeps its number
    main,      \* where the main thread is, and what of an answer it has copied
    torque,    \* torque_status
    last,      \* lastbuf of SendArmAllServerTime and of SendArmAllServerCB
    arm,       \* the arm: are its servos locked, where has it been sent
    frames,    \* frames the arm has sent: what each is
    stream,    \* cells not read yet
    buf,       \* mFrameBuffer up to mDataLength
    rx,        \* where the receive thread is, with the answer it is storing
    servo,     \* servo_state: the request its fields come from, and flag
    joints,    \* joint_states: the frame it comes from
    asked,     \* requests that reached the arm and are not answered
    late,      \* history: a request has ended without its answer
    wanted,    \* history: the last joint command given while torque was on, and its function
    void,      \* history: functions whose last frame no longer stands: it was not written, the
               \* arm was freed since, or the other function has sent the arm elsewhere
    clean,     \* history: reads since the last one that was not just one whole frame
    lastRead   \* history: the frame such a read was

mainVars  == <<traffic, rviz, fd, main, torque, last>>
rxVars    == <<buf, rx, joints>>
armVars   == <<arm, frames, stream, asked>>
sendHist  == <<wanted, void>>
history   == <<late, clean, lastRead>>
vars == <<mainVars, rxVars, armVars, servo, sendHist, history>>

Functions == {"time", "cb"}
NoPose    == "none"
ByHand    == "hand"
Requests  == 1..MaxRequests
NoFields  == [speed |-> 0, payload |-> 0]

Init ==
    /\ traffic \in {"out", "in"} /\ rviz \in BOOLEAN /\ (rviz => traffic = "out")
    /\ fd = "none"
    /\ main = [pc |-> "open", request |-> 0, copy |-> NoFields] /\ torque = TRUE
    /\ last = [f \in Functions |-> NoPose]
    /\ arm = [locked |-> FALSE, target |-> ByHand]
    /\ frames = <<>> /\ stream = <<>> /\ asked = {}
    /\ buf = <<>> /\ rx = [pc |-> "off", answer |-> 0] /\ joints = 0
    /\ servo = [speed |-> 0, payload |-> 0, flag |-> FALSE]
    /\ late = FALSE /\ wanted = [f |-> "time", pose |-> NoPose] /\ void = Functions /\ clean = 0 /\ lastRead = 0

-----------------------------------------------------------------------------
(* The arm and the line. *)

Cells(id) == [part \in 1..4 |-> [id |-> id, part |-> part]]
\* Noise on the line may swallow any one cell.
Received(id) == {Cells(id)} \cup {RemoveAt(Cells(id), i) : i \in 1..4}

ArmSends(what) ==
    /\ traffic = "in" /\ fd = "open" /\ Len(frames) < MaxFrames /\ Len(stream) + 4 <= MaxStream
    /\ frames' = Append(frames, what)
    /\ \E cells \in Received(Len(frames) + 1) : stream' = stream \o cells

SendsJoints == ArmSends(0) /\ UNCHANGED <<mainVars, rxVars, arm, asked, servo, sendHist, history>>
Answers ==
    /\ \E r \in asked : ArmSends(r) /\ asked' = asked \ {r}
    /\ UNCHANGED <<mainVars, rxVars, arm, servo, sendHist, history>>

\* With the servos free somebody moves the arm.
MovedByHand ==
    /\ traffic = "out" /\ ~arm.locked /\ arm.target # ByHand /\ arm' = [arm EXCEPT !.target = ByHand]
    /\ UNCHANGED <<mainVars, rxVars, frames, stream, asked, servo, sendHist, history>>

-----------------------------------------------------------------------------
(* The receive thread. *)

\* Mutant: only the room that is taken already is looked at.
AppendedUnchecked(chunk) ==
    IF Len(chunk) < Limit /\ Len(buf) <= Limit THEN buf \o chunk ELSE <<>>
Appended(chunk) ==
    IF Len(chunk) < Limit /\ Len(buf) < Limit THEN buf \o chunk ELSE <<>>
\* Data, or a checksum, that happen to be 0x55 pass for a head; a length is never that long.
Headed(cells) == IF cells # <<>> /\ cells[1].part = 1 THEN {cells}
                 ELSE IF cells # <<>> /\ cells[1].part \in {3, 4} THEN {cells, <<>>} ELSE {<<>>}
\* mFrameBuffer[2]+5; where the length should be, any other byte may stand.
Complete(cells) ==
    IF Len(cells) < 2 THEN {FALSE}
    ELSE IF cells[2].part = 2 THEN {Len(cells) >= 4}
    ELSE {TRUE, FALSE}
\* Head, tail and checksum are right: the first frame in the buffer.
Whole(cells) == Len(cells) >= 4 /\ SubSeq(cells, 1, 4) = Cells(cells[1].id)

\* joint_states, which the main thread reads at start-up, and the topic.
PublishJointStates(id) == joints' = id

\* Mutant: the buffer is not emptied after a frame.
DispatchKeeping(cells) ==
    /\ buf' = cells
    /\ IF ~Whole(cells) THEN UNCHANGED <<rx, joints>>
       ELSE LET id == cells[1].id IN
            IF frames[id] = 0
            THEN PublishJointStates(id) /\ UNCHANGED rx
            ELSE rx' = [pc |-> "speed", answer |-> frames[id]] /\ UNCHANGED joints

\* What follows the first frame in the buffer is thrown away with it.
Dispatch(cells) ==
    /\ buf' = <<>>
    /\ IF ~Whole(cells) THEN UNCHANGED <<rx, joints>>
       ELSE LET id == cells[1].id IN
            IF frames[id] = 0
            THEN PublishJointStates(id) /\ UNCHANGED rx
            ELSE rx' = [pc |-> "speed", answer |-> frames[id]] /\ UNCHANGED joints

\* A read returns what has come in so far, down to the last cell or not.
GetDataGram(n) == stream' = SubSeq(stream, n + 1, Len(stream))

LoopOnce ==
    /\ rx.pc = "loop"
    /\ \E n \in 1..Len(stream) :
          LET chunk == SubSeq(stream, 1, n)
              one   == chunk = Cells(chunk[1].id)
          IN  /\ GetDataGram(n)
              /\ clean' = IF one THEN clean + 1 ELSE 0
              /\ lastRead' = IF one THEN chunk[1].id ELSE 0
              /\ \E cells \in Headed(Appended(chunk)) : \E complete \in Complete(cells) :
                    IF complete THEN Dispatch(cells) ELSE buf' = cells /\ UNCHANGED <<rx, joints>>
    /\ UNCHANGED <<mainVars, arm, frames, asked, servo, sendHist, late>>

\* An answer is stored field by field, the flag last.
Store(pc, next, new) ==
    /\ rx.pc = pc /\ rx' = [rx EXCEPT !.pc = next] /\ servo' = new
    /\ UNCHANGED <<mainVars, buf, joints, armVars, sendHist, history>>
StoreSpeed   == Store("speed", "payload", [servo EXCEPT !.speed = rx.answer])
StorePayload == Store("payload", "flag", [servo EXCEPT !.payload = rx.answer])
StoreFlag    == Store("flag", "loop", [servo EXCEPT !.flag = TRUE])

-----------------------------------------------------------------------------
(* Commands: each builds a frame and writes it, or finds the device closed. *)

Written == IF fd = "open" THEN {TRUE, FALSE} ELSE {FALSE}

SendArmLockOrFree(on) ==
    /\ \E ok \in Written : arm' = IF ok THEN [arm EXCEPT !.locked = on] ELSE arm
    /\ void' = IF on THEN void ELSE Functions

\* Mutant: only the head of the frame is compared, not the pose.
SendArmAllServerHead(f, pose) ==
    IF fd = "none" \/ last[f] # NoPose
    THEN UNCHANGED <<last, arm, void>>
    ELSE \E ok \in Written :
            /\ last' = [last EXCEPT ![f] = pose]
            /\ arm' = IF ok /\ arm.locked THEN [arm EXCEPT !.target = pose] ELSE arm
            /\ void' = IF ok /\ arm.locked THEN Functions \ {f} ELSE void \cup {f}

\* A command equal to the last one of the same function is not written again; it counts
\* as the last one whether or not the write succeeds.
SendArmAllServer(f, pose) ==
    IF fd = "none" \/ last[f] = pose
    THEN UNCHANGED <<last, arm, void>>
    ELSE \E ok \in Written :
            /\ last' = [last EXCEPT ![f] = pose]
            /\ arm' = IF ok /\ arm.locked THEN [arm EXCEPT !.target = pose] ELSE arm
            /\ void' = IF ok /\ arm.locked THEN Functions \ {f} ELSE void \cup {f}

SendArmAllServerTime(pose) == SendArmAllServer("time", pose)
SendArmAllServerCB(pose)   == SendArmAllServer("cb", pose)
SendGetServoRealTimeInfo(r) == \E ok \in Written : asked' = IF ok THEN asked \cup {r} ELSE asked

(* Start-up: open, lock, start the thread, set speed, acceleration and torque. *)

Step(pc, next) == main.pc = pc /\ main' = [main EXCEPT !.pc = next]

InitDevice ==
    /\ Step("open", "lock") /\ fd' \in {"none", "open", "closed"}
    /\ UNCHANGED <<traffic, rviz, torque, last, rxVars, armVars, servo, sendHist, history>>
InitArm ==
    /\ Step("lock", "thread") /\ SendArmLockOrFree(TRUE)
    /\ UNCHANGED <<traffic, rviz, fd, torque, last, rxVars, frames, stream, asked, servo, wanted, history>>
StartReceiveSerial ==
    /\ Step("thread", "config")
    /\ rx' = IF rviz \/ fd # "open" THEN rx ELSE [rx EXCEPT !.pc = "loop"]
    /\ UNCHANGED <<traffic, rviz, fd, torque, last, buf, joints, armVars, servo, sendHist, history>>

\* joint2 or joint3 out of range is corrected.  With no joint state yet this reads an empty
\* vector: anything may be found, or the node ends.
StartupCheck ==
    /\ \/ /\ ~rviz /\ Step("config", "spin")
          /\ \E pose \in Poses : SendArmAllServerCB(pose) /\ wanted' = [f |-> "cb", pose |-> pose]
       \/ Step("config", "spin") /\ UNCHANGED <<last, arm, sendHist>>
       \/ ~rviz /\ joints = 0 /\ Step("config", "crashed") /\ UNCHANGED <<last, arm, sendHist>>
    /\ UNCHANGED <<traffic, rviz, fd, torque, rxVars, frames, stream, asked, servo, history>>

(* Callbacks *)

\* joint/commands and trajectories; JointStatesCb is subscribed to in rviz mode only.
JointCommand ==
    /\ traffic = "out" /\ main.pc = "spin" /\ torque
    /\ \E pose \in Poses : SendArmAllServerTime(pose) /\ wanted' = [f |-> "time", pose |-> pose]
    /\ UNCHANGED <<traffic, rviz, fd, main, torque, rxVars, frames, stream, asked, servo, history>>
JointStatesCb ==
    /\ rviz /\ main.pc = "spin" /\ torque
    /\ \E pose \in Poses : SendArmAllServerCB(pose) /\ wanted' = [f |-> "cb", pose |-> pose]
    /\ UNCHANGED <<traffic, rviz, fd, main, torque, rxVars, frames, stream, asked, servo, history>>

ControlTorque ==
    /\ traffic = "out" /\ main.pc = "spin" /\ torque' \in BOOLEAN /\ SendArmLockOrFree(torque')
    /\ UNCHANGED <<traffic, rviz, fd, main, last, rxVars, frames, stream, asked, servo, wanted, history>>

\* Mutant: the flag is left as the last answer set it.
AskServoFlagged ==
    /\ traffic = "in" /\ main.pc = "spin" /\ main.request < MaxRequests
    /\ main' = [pc |-> "poll", request |-> main.request + 1, copy |-> NoFields]
    /\ SendGetServoRealTimeInfo(main.request + 1)
    /\ UNCHANGED <<traffic, rviz, fd, torque, last, rxVars, arm, frames, stream, servo, sendHist, history>>

\* get_servo_info: clear the flag, send the request, wait for the flag, copy.
AskServo ==
    /\ traffic = "in" /\ main.pc = "spin" /\ main.request < MaxRequests
    /\ main' = [pc |-> "poll", request |-> main.request + 1, copy |-> NoFields]
    /\ servo' = [servo EXCEPT !.flag = FALSE]
    /\ SendGetServoRealTimeInfo(main.request + 1)
    /\ UNCHANGED <<traffic, rviz, fd, torque, last, rxVars, arm, frames, stream, sendHist, history>>

PollEnds ==
    /\ \/ servo.flag /\ Step("poll", "copy") /\ UNCHANGED late
       \/ ~servo.flag /\ Step("poll", "spin") /\ late' = TRUE   \* after 500 polls
    /\ UNCHANGED <<traffic, rviz, fd, torque, last, rxVars, armVars, servo, sendHist, clean, lastRead>>

Copy(pc, next, copied) ==
    /\ main.pc = pc /\ main' = [main EXCEPT !.pc = next, !.copy = copied]
    /\ UNCHANGED <<traffic, rviz, fd, torque, last, rxVars, armVars, servo, sendHist, history>>
CopySpeed   == Copy("copy", "rest", [main.copy EXCEPT !.speed = servo.speed])
CopyPayload == Copy("rest", "spin", [main.copy EXCEPT !.payload = servo.payload])

-----------------------------------------------------------------------------
Main    == \/ InitDevice \/ InitArm \/ StartReceiveSerial \/ StartupCheck \/ JointCommand
           \/ JointStatesCb \/ ControlTorque \/ AskServo \/ PollEnds \/ CopySpeed \/ CopyPayload
Receive == LoopOnce \/ StoreSpeed \/ StorePayload \/ StoreFlag
Line    == SendsJoints \/ Answers \/ MovedByHand

Next == Main \/ Receive \/ Line
Spec == Init /\ [][Next]_vars

-----------------------------------------------------------------------------
Fields == [speed : 0..MaxRequests, payload : 0..MaxRequests]

Mains  == [pc : {"open", "lock", "thread", "config", "spin", "poll", "copy", "rest", "crashed"},
           request : 0..MaxRequests, copy : Fields]
Parts  == [id : 1..Len(frames), part : 1..4]

\* Types, and the room mFrameBuffer needs: two reads short of the limit (sdk_sagittarius_arm_common.cpp:194-203).
TypeOK ==
    /\ traffic \in {"out", "in"} /\ rviz \in BOOLEAN /\ fd \in {"none", "open", "closed"} /\ torque \in BOOLEAN
    /\ main \in Mains
    /\ last \in [Functions -> Poses \cup {NoPose}]
    /\ arm \in [locked : BOOLEAN, target : Poses \cup {ByHand}]
    /\ frames \in Seq(0..MaxRequests) /\ Len(frames) <= MaxFrames /\ asked \subseteq Requests
    /\ stream \in Seq(Parts) /\ Len(stream) <= MaxStream
    /\ buf \in Seq(Parts) /\ Len(buf) <= 2 * Limit - 2
    /\ rx \in [pc : {"off", "loop", "speed", "payload", "flag"}, answer : 0..MaxRequests]
    /\ servo \in [speed : 0..MaxRequests, payload : 0..MaxRequests, flag : BOOLEAN]
    /\ joints \in 0..MaxFrames
    /\ wanted \in [f : Functions, pose : Poses \cup {NoPose}] /\ void \subseteq Functions

\* The parser recovers: however a loss has left the buffer, after (Limit + 2) \div 4 + 2 reads of
\* just one whole frame each the frame read last has been accepted.
Accepted(id) == IF frames[id] = 0 THEN joints = id ELSE rx.answer = frames[id]
Recovers == clean >= (Limit + 2) \div 4 + 2 => Accepted(lastRead)

\* The servo service answers with what the arm said to this request, in all fields, as long as
\* no earlier request has timed out.  After one that has, a late answer may be taken for the
\* next, or be mixed with it: the id in it is not compared (sdk_sagittarius_arm_real.cpp:276-296).
Answered == main.pc = "spin" /\ main.copy # NoFields
AnswerMatches ==
    Answered /\ ~late => main.copy = [speed |-> main.request, payload |-> main.request]

\* The arm is where the last joint command wants it, although repeated commands are not sent,
\* unless the frame they repeat no longer stands (sdk_sagittarius_arm_common_serial.cpp:375).
CommandStands == wanted.pose # NoPose /\ wanted.f \notin void => arm.target = wanted.pose
=============================================================================
