-------------------------- MODULE SerialLinkProofs --------------------------
(***************************************************************************)
(* Proofs about SerialLink, for every limit of the parser, every set of    *)
(* poses and every number of frames and requests.                          *)
(***************************************************************************)
EXTENDS SerialLink, SequenceTheorems, TLAPS

-----------------------------------------------------------------------------
(* Theorem LinkTypes *)

\* The initial state is well typed.
LEMMA InitType == Init => TypeOK
<1> SUFFICES ASSUME Init PROVE TypeOK
  OBVIOUS
<1>1. main \in Mains /\ servo \in [speed : 0..MaxRequests, payload : 0..MaxRequests, flag : BOOLEAN]
  BY LinkAssumption DEF Init, Mains, Fields, NoFields
<1>2. last \in [Functions -> Poses \cup {NoPose}] /\ arm \in [locked : BOOLEAN, target : Poses \cup {ByHand}]
  BY DEF Init
<1>3. frames \in Seq(0..MaxRequests) /\ Len(frames) <= MaxFrames /\ stream \in Seq(Parts) /\ Len(stream) <= MaxStream
  BY LinkAssumption DEF Init
<1>4. buf \in Seq(Parts) /\ Len(buf) <= 2 * Limit - 2
  BY LinkAssumption DEF Init
<1>5. /\ rx \in [pc : {"off", "loop", "speed", "payload", "flag"}, answer : 0..MaxRequests] /\ joints \in 0..MaxFrames
      /\ wanted \in [f : Functions, pose : Poses \cup {NoPose}] /\ void \subseteq Functions
  BY LinkAssumption DEF Init, Functions
<1>6. asked \subseteq Requests
  BY DEF Init
<1> QED  BY <1>1, <1>2, <1>3, <1>4, <1>5, <1>6 DEF Init, TypeOK

\* The part of TypeOK about the main thread and the arm, and the part about what is received.
MainType == /\ traffic \in {"out", "in"} /\ rviz \in BOOLEAN /\ fd \in {"none", "open", "closed"} /\ torque \in BOOLEAN
            /\ main \in Mains
            /\ last \in [Functions -> Poses \cup {NoPose}]
            /\ arm \in [locked : BOOLEAN, target : Poses \cup {ByHand}]
            /\ asked \subseteq Requests
            /\ wanted \in [f : Functions, pose : Poses \cup {NoPose}] /\ void \subseteq Functions
LineType == /\ frames \in Seq(0..MaxRequests) /\ Len(frames) <= MaxFrames
            /\ stream \in Seq(Parts) /\ Len(stream) <= MaxStream
            /\ buf \in Seq(Parts) /\ Len(buf) <= 2 * Limit - 2
            /\ rx \in [pc : {"off", "loop", "speed", "payload", "flag"}, answer : 0..MaxRequests]
            /\ joints \in 0..MaxFrames
ServoType == servo \in [speed : 0..MaxRequests, payload : 0..MaxRequests, flag : BOOLEAN]

\* They are all of it.
LEMMA TypeParts == /\ TypeOK <=> MainType /\ LineType /\ ServoType
                   /\ TypeOK' <=> MainType' /\ LineType' /\ ServoType'
BY DEF TypeOK, MainType, LineType, ServoType

\* What is on the line is not touched.
LEMMA LineKept == LineType /\ UNCHANGED <<rxVars, frames, stream>> => LineType'
BY DEF LineType, rxVars, Parts

\* A whole frame.
LEMMA CellsAre == ASSUME NEW S, NEW id, \A part \in 1..4 : [id |-> id, part |-> part] \in S
                  PROVE  Cells(id) \in Seq(S) /\ Len(Cells(id)) = 4 /\ \A k \in 1..4 : Cells(id)[k] = [id |-> id, part |-> k]
<1>1. Cells(id) \in [1..4 -> S]
  BY DEF Cells
<1>2. Cells(id) \in Seq(S)
  BY <1>1, SeqDef
<1>3. DOMAIN Cells(id) = 1..4 /\ DOMAIN Cells(id) = 1..Len(Cells(id)) /\ Len(Cells(id)) \in Nat
  BY <1>1, <1>2, LenProperties
<1>4. \A k \in 1..4 : Cells(id)[k] = [id |-> id, part |-> k]
  BY DEF Cells
<1> QED  BY <1>2, <1>3, <1>4

\* A frame is a sequence, and so is what is left of it.
LEMMA FrameType == ASSUME NEW id \in Nat, NEW S, \A part \in 1..4 : [id |-> id, part |-> part] \in S
                   PROVE  \A cells \in Received(id) : cells \in Seq(S) /\ Len(cells) <= 4
<1>1. Cells(id) \in Seq(S) /\ Len(Cells(id)) = 4
  BY CellsAre
<1>2. ASSUME NEW i \in 1..4
      PROVE  RemoveAt(Cells(id), i) \in Seq(S) /\ Len(RemoveAt(Cells(id), i)) <= 4
  <2> DEFINE before == SubSeq(Cells(id), 1, i - 1)
             behind == SubSeq(Cells(id), i + 1, 4)
  <2>1. \A j \in 1..4 : Cells(id)[j] \in S
    BY <1>1, ElementOfSeq
  <2>2. before \in Seq(S) /\ Len(before) <= i - 1
    BY <2>1, SubSeqProperties
  <2>3. behind \in Seq(S) /\ Len(behind) <= 4 - i
    BY <2>1, SubSeqProperties
  <2>4. Len(before) \in Nat /\ Len(behind) \in Nat
    BY <2>2, <2>3, LenProperties
  <2>5. RemoveAt(Cells(id), i) = before \o behind
    BY <1>1 DEF RemoveAt
  <2> HIDE DEF before, behind
  <2>6. before \o behind \in Seq(S) /\ Len(before \o behind) = Len(before) + Len(behind)
    BY <2>2, <2>3, ConcatProperties
  <2> QED  BY <2>2, <2>3, <2>4, <2>5, <2>6
<1> SUFFICES ASSUME NEW cells \in Received(id) PROVE cells \in Seq(S) /\ Len(cells) <= 4
  OBVIOUS
<1>3. cells = Cells(id) \/ \E i \in 1..4 : cells = RemoveAt(Cells(id), i)
  BY Zenon DEF Received
<1>4. CASE cells = Cells(id)
  <2>1. cells \in Seq(S)
    BY <1>1, <1>4
  <2>2. Len(Cells(id)) <= 4
    BY <1>1
  <2>3. Len(cells) <= 4
    BY <1>4, <2>2, Zenon
  <2> QED  BY <2>1, <2>3
<1>5. CASE \E i \in 1..4 : cells = RemoveAt(Cells(id), i)
  BY <1>2, <1>5
<1> QED  BY <1>3, <1>4, <1>5

\* A frame more on the line.
LEMMA SendType == ASSUME LineType, NEW what \in 0..MaxRequests, ArmSends(what), UNCHANGED rxVars
                  PROVE  LineType'
<1>1. frames' \in Seq(0..MaxRequests) /\ Len(frames') = Len(frames) + 1 /\ Len(frames') <= MaxFrames /\ Len(frames) \in Nat
  BY LinkAssumption DEF LineType, ArmSends
<1>2. Parts \subseteq Parts'
  BY <1>1 DEF Parts
<1>3. PICK cells \in Received(Len(frames) + 1) : stream' = stream \o cells
  BY DEF ArmSends
<1>4. \A part \in 1..4 : [id |-> Len(frames) + 1, part |-> part] \in Parts'
  BY <1>1 DEF Parts
<1>5. cells \in Seq(Parts') /\ Len(cells) <= 4
  BY <1>1, <1>3, <1>4, FrameType
<1>6. stream \in Seq(Parts') /\ buf \in Seq(Parts') /\ Len(stream) + 4 <= MaxStream /\ Len(stream) \in Nat
  BY <1>2 DEF LineType, ArmSends
<1> HIDE DEF Parts
<1>7. stream' \in Seq(Parts') /\ Len(stream') <= MaxStream
  BY <1>3, <1>5, <1>6, LinkAssumption
<1> QED  BY <1>1, <1>6, <1>7 DEF LineType, rxVars

\* What the parser has read is no longer than its buffer.
LEMMA ReadType == ASSUME LineType, LoopOnce PROVE LineType'
<1>0. /\ Limit \in Nat \ {0} /\ MaxFrames \in Nat /\ MaxRequests \in Nat /\ stream \in Seq(Parts) /\ buf \in Seq(Parts)
      /\ frames \in Seq(0..MaxRequests) /\ Len(frames) <= MaxFrames /\ Len(stream) <= MaxStream
      /\ Len(buf) <= 2 * Limit - 2
      /\ rx \in [pc : {"off", "loop", "speed", "payload", "flag"}, answer : 0..MaxRequests] /\ joints \in 0..MaxFrames
  BY LinkAssumption DEF LineType
<1>1. PICK n \in 1..Len(stream) :
          LET chunk == SubSeq(stream, 1, n)
          IN  /\ GetDataGram(n)
              /\ \E cells \in Headed(Appended(chunk)) : \E complete \in Complete(cells) :
                    IF complete THEN Dispatch(cells) ELSE buf' = cells /\ UNCHANGED <<rx, joints>>
  BY Zenon DEF LoopOnce
<1> DEFINE chunk == SubSeq(stream, 1, n)
<1>2. chunk \in Seq(Parts) /\ SubSeq(stream, n + 1, Len(stream)) \in Seq(Parts)
  BY <1>0
<1>3. stream' \in Seq(Parts) /\ Len(stream') <= MaxStream
  <2>1. Len(SubSeq(stream, n + 1, Len(stream))) <= Len(stream)
    BY <1>0
  <2> QED  BY <1>0, <1>1, <1>2, <2>1, LinkAssumption DEF GetDataGram
<1>4. PICK cells \in Headed(Appended(chunk)) : \E complete \in Complete(cells) :
                    IF complete THEN Dispatch(cells) ELSE buf' = cells /\ UNCHANGED <<rx, joints>>
  BY <1>1
<1> HIDE DEF chunk
<1>5. Appended(chunk) \in Seq(Parts) /\ Len(Appended(chunk)) <= 2 * Limit - 2
  BY <1>0, <1>2 DEF Appended
<1>6. cells \in Seq(Parts) /\ Len(cells) <= 2 * Limit - 2
  <2>1. cells = Appended(chunk) \/ cells = <<>>
    BY <1>4 DEF Headed
  <2>2. <<>> \in Seq(Parts) /\ Len(<<>>) = 0
    BY EmptySeq
  <2>3. 0 <= 2 * Limit - 2
    BY LinkAssumption
  <2> QED  BY <1>5, <2>1, <2>2, <2>3
<1>7. buf' \in Seq(Parts) /\ Len(buf') <= 2 * Limit - 2
  <2>1. buf' = cells \/ buf' = <<>>
    BY <1>4 DEF Dispatch
  <2>2. <<>> \in Seq(Parts) /\ Len(<<>>) = 0
    BY EmptySeq
  <2>3. 0 <= 2 * Limit - 2
    BY LinkAssumption
  <2> QED  BY <1>6, <2>1, <2>2, <2>3
<1>8. /\ rx' \in [pc : {"off", "loop", "speed", "payload", "flag"}, answer : 0..MaxRequests]
      /\ joints' \in 0..MaxFrames
  <2>1. CASE UNCHANGED <<rx, joints>>
    BY <1>0, <2>1
  <2>2. CASE Dispatch(cells) /\ Whole(cells)
    <3>1. cells[1] \in Parts
      BY <1>6, <2>2 DEF Whole
    <3>2. cells[1].id \in 1..Len(frames)
      BY <3>1 DEF Parts
    <3>3. frames[cells[1].id] \in 0..MaxRequests
      BY <1>0, <3>2, ElementOfSeq
    <3>4. cells[1].id \in 0..MaxFrames
      <4>1. Len(frames) \in Nat
        BY <1>0, LenProperties
      <4> QED  BY <1>0, <3>2, <4>1
    <3> QED  BY SMTT(30), <1>0, <2>2, <3>3, <3>4 DEF Dispatch, PublishJointStates
  <2> QED  BY <1>4, <2>1, <2>2 DEF Dispatch
<1>9. frames' = frames /\ Parts' = Parts
  BY DEF LoopOnce, Parts
<1> QED  BY <1>0, <1>3, <1>7, <1>8, <1>9 DEF LineType

\* A command to move, whether it is written or not.
LEMMA ServerType == ASSUME MainType, NEW f \in Functions, NEW pose \in Poses, SendArmAllServer(f, pose)
                    PROVE  /\ last' \in [Functions -> Poses \cup {NoPose}] /\ void' \subseteq Functions
                           /\ arm' \in [locked : BOOLEAN, target : Poses \cup {ByHand}]
<1>1. [arm EXCEPT !.target = pose] \in [locked : BOOLEAN, target : Poses \cup {ByHand}]
  BY DEF MainType
<1> QED  BY <1>1 DEF MainType, SendArmAllServer, Functions

\* A command to lock the servos or free them.
LEMMA LockType == ASSUME MainType, NEW on \in BOOLEAN, SendArmLockOrFree(on)
                  PROVE  void' \subseteq Functions /\ arm' \in [locked : BOOLEAN, target : Poses \cup {ByHand}]
<1>1. [arm EXCEPT !.locked = on] \in [locked : BOOLEAN, target : Poses \cup {ByHand}]
  BY DEF MainType
<1> QED  BY <1>1 DEF MainType, SendArmLockOrFree

\* The main thread steps on.
LEMMA StepType == ASSUME MainType, NEW pc, NEW next \in {"open", "lock", "thread", "config", "spin", "poll", "copy", "rest", "crashed"},
                         Step(pc, next)
                  PROVE  main' \in Mains
BY DEF MainType, Mains, Step

\* What the main thread does.
LEMMA MainKeeps == TypeOK /\ Main => TypeOK'
<1> SUFFICES ASSUME TypeOK, Main PROVE TypeOK'
  OBVIOUS
<1>0. MainType /\ LineType /\ ServoType /\ MaxRequests \in Nat
  BY TypeParts, LinkAssumption
<1>1. ASSUME MainType', UNCHANGED <<rxVars, frames, stream, servo>>
      PROVE  TypeOK'
  BY <1>0, <1>1, LineKept, TypeParts DEF ServoType
<1>2. CASE InitDevice
  <2>1. main' \in Mains
    BY <1>0, <1>2, StepType DEF InitDevice
  <2>2. MainType'
    BY <1>0, <1>2, <2>1 DEF InitDevice, MainType, armVars, sendHist
  <2> QED  BY <1>1, <1>2, <2>2 DEF InitDevice, armVars
<1>3. CASE InitArm
  <2>1. main' \in Mains
    BY <1>0, <1>3, StepType DEF InitArm
  <2>2. MainType'
    BY <1>0, <1>3, <2>1, LockType DEF InitArm, MainType
  <2> QED  BY <1>1, <1>3, <2>2 DEF InitArm
<1>4. CASE StartReceiveSerial
  <2>1. main' \in Mains
    BY <1>0, <1>4, StepType DEF StartReceiveSerial
  <2>2. MainType'
    BY <1>0, <1>4, <2>1 DEF StartReceiveSerial, MainType, armVars, sendHist
  <2>3. rx' \in [pc : {"off", "loop", "speed", "payload", "flag"}, answer : 0..MaxRequests]
    BY <1>0, <1>4 DEF StartReceiveSerial, LineType
  <2>4. LineType' /\ ServoType'
    BY <1>0, <1>4, <2>3 DEF StartReceiveSerial, LineType, ServoType, armVars, Parts
  <2> QED  BY <2>2, <2>4, TypeParts
<1>5. CASE StartupCheck
  <2>1. main' \in Mains
    BY <1>0, <1>5, StepType DEF StartupCheck
  <2>2. /\ last' \in [Functions -> Poses \cup {NoPose}] /\ void' \subseteq Functions
        /\ arm' \in [locked : BOOLEAN, target : Poses \cup {ByHand}]
        /\ wanted' \in [f : Functions, pose : Poses \cup {NoPose}]
    <3>1. CASE UNCHANGED <<last, arm, sendHist>>
      BY <1>0, <3>1 DEF MainType, sendHist
    <3>2. CASE \E pose \in Poses : SendArmAllServerCB(pose) /\ wanted' = [f |-> "cb", pose |-> pose]
      BY <1>0, <3>2, ServerType DEF SendArmAllServerCB, Functions
    <3> QED  BY <1>5, <3>1, <3>2 DEF StartupCheck
  <2>3. MainType'
    BY <1>0, <1>5, <2>1, <2>2 DEF StartupCheck, MainType
  <2> QED  BY <1>1, <1>5, <2>3 DEF StartupCheck
<1>6. CASE JointCommand
  <2>1. /\ last' \in [Functions -> Poses \cup {NoPose}] /\ void' \subseteq Functions
        /\ arm' \in [locked : BOOLEAN, target : Poses \cup {ByHand}]
        /\ wanted' \in [f : Functions, pose : Poses \cup {NoPose}]
    BY <1>0, <1>6, ServerType DEF JointCommand, SendArmAllServerTime, Functions
  <2>2. MainType'
    BY <1>0, <1>6, <2>1 DEF JointCommand, MainType
  <2> QED  BY <1>1, <1>6, <2>2 DEF JointCommand
<1>7. CASE JointStatesCb
  <2>1. /\ last' \in [Functions -> Poses \cup {NoPose}] /\ void' \subseteq Functions
        /\ arm' \in [locked : BOOLEAN, target : Poses \cup {ByHand}]
        /\ wanted' \in [f : Functions, pose : Poses \cup {NoPose}]
    BY <1>0, <1>7, ServerType DEF JointStatesCb, SendArmAllServerCB, Functions
  <2>2. MainType'
    BY <1>0, <1>7, <2>1 DEF JointStatesCb, MainType
  <2> QED  BY <1>1, <1>7, <2>2 DEF JointStatesCb
<1>8. CASE ControlTorque
  <2>1. MainType'
    BY <1>0, <1>8, LockType DEF ControlTorque, MainType
  <2> QED  BY <1>1, <1>8, <2>1 DEF ControlTorque
<1>9. CASE AskServo
  <2>1. main' \in Mains
    BY <1>0, <1>9 DEF AskServo, Mains, MainType, NoFields, Fields
  <2>2. asked' \subseteq Requests
    BY <1>0, <1>9 DEF AskServo, SendGetServoRealTimeInfo, Requests, MainType, Mains
  <2>3. MainType'
    BY <1>0, <1>9, <2>1, <2>2 DEF AskServo, MainType, sendHist
  <2>4. ServoType'
    BY <1>0, <1>9 DEF AskServo, ServoType
  <2>5. LineType'
    BY <1>0, <1>9, LineKept DEF AskServo
  <2> QED  BY <2>3, <2>4, <2>5, TypeParts
<1>10. CASE PollEnds
  <2>1. main' \in Mains
    BY <1>0, <1>10, StepType DEF PollEnds
  <2>2. MainType'
    BY <1>0, <1>10, <2>1 DEF PollEnds, MainType, armVars, sendHist
  <2> QED  BY <1>1, <1>10, <2>2 DEF PollEnds, armVars
<1>11. CASE CopySpeed \/ CopyPayload
  <2>1. [main.copy EXCEPT !.speed = servo.speed] \in Fields /\ [main.copy EXCEPT !.payload = servo.payload] \in Fields
    BY <1>0 DEF MainType, Mains, Fields, ServoType
  <2>2. main' \in Mains
    BY ZenonT(60), <1>0, <1>11, <2>1 DEF CopySpeed, CopyPayload, Copy, MainType, Mains
  <2>3. MainType'
    BY <1>0, <1>11, <2>2 DEF CopySpeed, CopyPayload, Copy, MainType, armVars, sendHist
  <2> QED  BY <1>1, <1>11, <2>3 DEF CopySpeed, CopyPayload, Copy, armVars
<1> QED
  BY <1>2, <1>3, <1>4, <1>5, <1>6, <1>7, <1>8, <1>9, <1>10, <1>11 DEF Main

\* Every step keeps the types.
LEMMA NextType == TypeOK /\ [Next]_vars => TypeOK'
<1> SUFFICES ASSUME TypeOK, [Next]_vars PROVE TypeOK'
  OBVIOUS
<1>0. MainType /\ LineType /\ ServoType /\ MaxRequests \in Nat
  BY TypeParts, LinkAssumption
<1>1. ASSUME UNCHANGED <<traffic, rviz, fd, main, torque, last, arm, sendHist>>, asked' \subseteq asked
      PROVE  MainType'
  BY <1>0, <1>1 DEF MainType, sendHist
<1>2. CASE LoopOnce
  BY <1>0, <1>1, <1>2, ReadType, TypeParts DEF LoopOnce, mainVars, ServoType
<1>3. CASE StoreSpeed \/ StorePayload \/ StoreFlag
  <2>1. MainType'
    BY <1>1, <1>3 DEF StoreSpeed, StorePayload, StoreFlag, Store, mainVars, armVars
  <2>2. rx' \in [pc : {"off", "loop", "speed", "payload", "flag"}, answer : 0..MaxRequests]
    BY <1>0, <1>3 DEF StoreSpeed, StorePayload, StoreFlag, Store, LineType
  <2>3. LineType'
    BY <1>0, <1>3, <2>2 DEF StoreSpeed, StorePayload, StoreFlag, Store, LineType, armVars, Parts
  <2>4. ServoType'
    <3>1. rx.answer \in 0..MaxRequests /\ TRUE \in BOOLEAN
      BY <1>0 DEF LineType
    <3>2. CASE StoreSpeed
      BY <1>0, <3>1, <3>2 DEF StoreSpeed, Store, ServoType
    <3>3. CASE StorePayload
      BY <1>0, <3>1, <3>3 DEF StorePayload, Store, ServoType
    <3>4. CASE StoreFlag
      BY <1>0, <3>1, <3>4, Zenon DEF StoreFlag, Store, ServoType
    <3> QED  BY <1>3, <3>2, <3>3, <3>4
  <2> QED  BY <2>1, <2>3, <2>4, TypeParts
<1>4. CASE SendsJoints
  BY <1>0, <1>1, <1>4, SendType, TypeParts DEF SendsJoints, mainVars, ServoType
<1>5. CASE Answers
  <2>1. PICK r \in asked : ArmSends(r) /\ asked' = asked \ {r}
    BY <1>5 DEF Answers
  <2>2. r \in 0..MaxRequests
    BY <1>0 DEF MainType, Requests
  <2> QED  BY <1>0, <1>1, <1>5, <2>1, <2>2, SendType, TypeParts DEF Answers, mainVars, ServoType
<1>6. CASE MovedByHand
  <2>1. arm' \in [locked : BOOLEAN, target : Poses \cup {ByHand}]
    BY <1>0, <1>6 DEF MovedByHand, MainType
  <2>2. MainType'
    BY <1>0, <1>6, <2>1 DEF MovedByHand, MainType, mainVars, sendHist
  <2> QED  BY <1>0, <1>6, <2>2, LineKept, TypeParts DEF MovedByHand, ServoType
<1>7. CASE UNCHANGED vars
  BY <1>0, <1>1, <1>7, LineKept, TypeParts DEF vars, mainVars, armVars, ServoType
<1> QED
  BY <1>2, <1>3, <1>4, <1>5, <1>6, <1>7, MainKeeps DEF Next, Receive, Line

\* Types of the link's state; the parser never puts more into mFrameBuffer than twice its
\* limit, whatever comes in and however it is cut into reads (sdk_sagittarius_arm_common.cpp:194-203).
THEOREM LinkTypes == Spec => []TypeOK
BY InitType, NextType, PTL DEF Spec

-----------------------------------------------------------------------------
(* Theorem CommandAlwaysStands *)

\* A function whose last frame stands has the arm where it sent it, and the last command given
\* is the last frame of its function or one that does not stand.
StandInv ==
    /\ main.pc = "open" \/ fd = "none" => void = Functions
    /\ \A f \in Functions \ void : arm.locked /\ arm.target = last[f]
    /\ wanted.pose # NoPose /\ wanted.f \notin void => last[wanted.f] = wanted.pose

\* At the start no frame stands.
LEMMA InitStand == Init => StandInv
BY DEF Init, StandInv

\* A command, written or not, or the same as the last one.
LEMMA ServerStands == ASSUME TypeOK, StandInv, main.pc # "open", main'.pc # "open", UNCHANGED fd, NEW f \in Functions, NEW pose \in Poses,
                             SendArmAllServer(f, pose), wanted' = [f |-> f, pose |-> pose]
                      PROVE  StandInv'
<1>0. /\ last \in [Functions -> Poses \cup {NoPose}] /\ arm \in [locked : BOOLEAN, target : Poses \cup {ByHand}]
      /\ void \subseteq Functions /\ wanted'.f = f /\ wanted'.pose = pose
  BY DEF TypeOK
<1>1. CASE fd = "none" \/ last[f] = pose
  <2>1. UNCHANGED <<last, arm, void>>
    BY <1>1 DEF SendArmAllServer
  <2> QED  BY <1>0, <1>1, <2>1 DEF StandInv
<1>2. CASE ~(fd = "none" \/ last[f] = pose)
  <2>1. PICK ok \in Written : /\ last' = [last EXCEPT ![f] = pose]
                              /\ arm' = IF ok /\ arm.locked THEN [arm EXCEPT !.target = pose] ELSE arm
                              /\ void' = IF ok /\ arm.locked THEN Functions \ {f} ELSE void \cup {f}
    BY <1>2 DEF SendArmAllServer
  <2>2. last'[f] = pose /\ \A g \in Functions : g # f => last'[g] = last[g]
    BY <1>0, <2>1
  <2>3. CASE ok /\ arm.locked
    <3>1. arm'.target = pose /\ arm'.locked /\ void' = Functions \ {f}
      BY <1>0, <2>1, <2>3
    <3> QED  BY <1>0, <1>2, <2>2, <3>1 DEF StandInv
  <2>4. CASE ~(ok /\ arm.locked)
    BY <1>0, <1>2, <2>1, <2>2, <2>4 DEF StandInv
  <2> QED  BY <2>3, <2>4
<1> QED  BY <1>1, <1>2

\* Freeing the servos voids all frames, locking them none.
LEMMA LockStands == ASSUME TypeOK, StandInv, main'.pc # "open", UNCHANGED <<fd, last, wanted>>, NEW on \in BOOLEAN, SendArmLockOrFree(on)
                    PROVE  StandInv'
<1>0. arm \in [locked : BOOLEAN, target : Poses \cup {ByHand}] /\ void \subseteq Functions
  BY DEF TypeOK
<1>1. CASE on = FALSE
  <2>1. void' = Functions
    BY <1>1 DEF SendArmLockOrFree
  <2> QED  BY <2>1 DEF StandInv, TypeOK
<1>2. CASE on = TRUE
  <2>1. void' = void /\ arm'.target = arm.target /\ (arm.locked => arm'.locked)
    BY <1>0, <1>2 DEF SendArmLockOrFree
  <2> QED  BY <2>1 DEF StandInv
<1> QED  BY <1>1, <1>2

\* Every step keeps it.
LEMMA NextStand == TypeOK /\ StandInv /\ [Next]_vars => StandInv'
<1> SUFFICES ASSUME TypeOK, StandInv, [Next]_vars PROVE StandInv'
  OBVIOUS
<1>0. /\ arm \in [locked : BOOLEAN, target : Poses \cup {ByHand}] /\ main \in Mains
      /\ wanted \in [f : Functions, pose : Poses \cup {NoPose}] /\ void \subseteq Functions
  BY DEF TypeOK
<1>1. ASSUME UNCHANGED <<fd, last, arm, wanted, void>>, main'.pc = main.pc \/ main'.pc # "open"
      PROVE  StandInv'
  BY <1>1 DEF StandInv
<1>2. CASE InitDevice
  <2>1. void = Functions /\ UNCHANGED <<void, wanted>>
    BY <1>2 DEF InitDevice, Step, StandInv, sendHist
  <2>2. wanted.f \in Functions
    BY <1>0
  <2> QED  BY <2>1, <2>2 DEF StandInv
<1>3. CASE InitArm
  <2>1. main'.pc # "open" /\ UNCHANGED <<fd, last, wanted>> /\ SendArmLockOrFree(TRUE)
    BY <1>0, <1>3 DEF InitArm, Step, Mains
  <2> QED  BY <2>1, LockStands
<1>4. CASE StartupCheck
  <2>1. main.pc = "config" /\ main'.pc # "open" /\ UNCHANGED fd
    BY <1>0, <1>4 DEF StartupCheck, Step, Mains
  <2>2. CASE UNCHANGED <<last, arm, sendHist>>
    BY <1>1, <2>1, <2>2 DEF sendHist
  <2>3. CASE \E pose \in Poses : SendArmAllServerCB(pose) /\ wanted' = [f |-> "cb", pose |-> pose]
    BY <2>1, <2>3, ServerStands DEF SendArmAllServerCB, Functions
  <2> QED  BY <1>4, <2>2, <2>3 DEF StartupCheck
<1>5. CASE JointCommand
  <2>1. main.pc = "spin" /\ UNCHANGED <<fd, main>>
    BY <1>5 DEF JointCommand
  <2> QED  BY <1>5, <2>1, ServerStands DEF JointCommand, SendArmAllServerTime, Functions
<1>6. CASE JointStatesCb
  <2>1. main.pc = "spin" /\ UNCHANGED <<fd, main>>
    BY <1>6 DEF JointStatesCb
  <2> QED  BY <1>6, <2>1, ServerStands DEF JointStatesCb, SendArmAllServerCB, Functions
<1>7. CASE ControlTorque
  <2>1. main'.pc # "open" /\ UNCHANGED <<fd, last, wanted>> /\ torque' \in BOOLEAN /\ SendArmLockOrFree(torque')
    BY <1>7 DEF ControlTorque
  <2> QED  BY <2>1, LockStands
<1>8. CASE MovedByHand
  <2>1. ~arm.locked /\ UNCHANGED <<main, fd, last, wanted, void>>
    BY <1>8 DEF MovedByHand, mainVars, sendHist
  <2>2. void = Functions
    BY <1>0, <2>1 DEF StandInv
  <2> QED  BY <1>0, <2>1, <2>2 DEF StandInv
\* The rest leaves commands and arm alone.
<1>9. CASE StartReceiveSerial \/ AskServo \/ PollEnds \/ CopySpeed \/ CopyPayload
  <2>1. UNCHANGED <<fd, last, arm, wanted, void>>
    BY <1>9 DEF StartReceiveSerial, AskServo, PollEnds, CopySpeed, CopyPayload, Copy, armVars, sendHist
  <2>2. main'.pc # "open"
    <3>1. CASE StartReceiveSerial \/ AskServo \/ PollEnds
      BY <1>0, <3>1 DEF StartReceiveSerial, AskServo, PollEnds, Step, Mains
    <3>2. CASE CopySpeed \/ CopyPayload
      BY <1>0, <3>2 DEF CopySpeed, CopyPayload, Copy, Mains
    <3> QED  BY <1>9, <3>1, <3>2
  <2> QED  BY <1>1, <2>1, <2>2
<1>10. CASE Receive
  <2>1. UNCHANGED <<main, fd, last, arm, wanted, void>>
    BY <1>10 DEF Receive, LoopOnce, StoreSpeed, StorePayload, StoreFlag, Store, mainVars, armVars, sendHist
  <2> QED  BY <1>1, <2>1
<1>11. CASE SendsJoints \/ Answers
  <2>1. UNCHANGED <<main, fd, last, arm, wanted, void>>
    BY <1>11 DEF SendsJoints, Answers, mainVars, sendHist
  <2> QED  BY <1>1, <2>1
<1>12. CASE UNCHANGED vars
  <2>1. UNCHANGED <<main, fd, last, arm, wanted, void>>
    BY <1>12 DEF vars, mainVars, armVars, sendHist
  <2> QED  BY <1>1, <2>1
<1> QED
  BY <1>2, <1>3, <1>4, <1>5, <1>6, <1>7, <1>8, <1>9, <1>10, <1>11, <1>12 DEF Next, Main, Line

\* The arm is where the last joint command wants it, although a command equal to the last
\* frame of its function is not written again (sdk_sagittarius_arm_common_serial.cpp:375), unless that
\* frame was not written or stands no longer.
THEOREM CommandAlwaysStands == Spec => []CommandStands
<1>1. TypeOK /\ StandInv => CommandStands
  BY DEF TypeOK, StandInv, CommandStands
<1>2. Init => TypeOK /\ StandInv
  BY InitType, InitStand
<1>3. TypeOK /\ StandInv /\ [Next]_vars => TypeOK' /\ StandInv'
  BY NextType, NextStand
<1> QED  BY <1>1, <1>2, <1>3, PTL DEF Spec

-----------------------------------------------------------------------------
(* Theorem AnswersAlwaysMatch: the line *)

\* A frame is known by its head, and is on the line while that is not read, or read and not parsed.
HeadOf(id)    == [id |-> id, part |-> 1]
HeadIn(s, id) == \E i \in 1..Len(s) : s[i] = HeadOf(id)
OnLine(id)    == HeadIn(buf, id) \/ HeadIn(stream, id)

\* No frame's head is on the line twice.
OnceInv ==
    /\ \A i, j \in 1..Len(stream) : stream[i] = stream[j] /\ stream[i].part = 1 => i = j
    /\ \A id \in Nat : ~(HeadIn(buf, id) /\ HeadIn(stream, id))

\* What a frame looks like that comes in.
LEMMA FrameHeads == ASSUME NEW id \in Nat, NEW cells \in Received(id)
                    PROVE  \A k \in 1..Len(cells) : cells[k].id = id /\ (cells[k].part = 1 => k = 1)
<1> DEFINE S == [id : {id}, part : 1..4]
<1>1. Cells(id) \in Seq(S) /\ Len(Cells(id)) = 4 /\ \A k \in 1..4 : Cells(id)[k] = [id |-> id, part |-> k]
  <2>1. \A part \in 1..4 : [id |-> id, part |-> part] \in S
    OBVIOUS
  <2> HIDE DEF S
  <2> QED  BY <2>1, CellsAre
<1> HIDE DEF S
<1>2. ASSUME NEW i \in 1..4, NEW k \in 1..Len(RemoveAt(Cells(id), i))
      PROVE  RemoveAt(Cells(id), i)[k].id = id /\ (RemoveAt(Cells(id), i)[k].part = 1 => k = 1)
  <2> DEFINE before == SubSeq(Cells(id), 1, i - 1)
             behind == SubSeq(Cells(id), i + 1, 4)
  <2>1. \A j \in 1..4 : Cells(id)[j] \in S
    BY <1>1, ElementOfSeq
  <2>2. before \in Seq(S) /\ Len(before) = i - 1 /\ \A j \in 1..(i - 1) : before[j] = Cells(id)[j]
    <3>1. /\ before \in Seq(S) /\ Len(before) = (IF 1 <= i - 1 THEN i - 1 - 1 + 1 ELSE 0)
          /\ \A j \in 1..(i - 1 - 1 + 1) : before[j] = Cells(id)[1 + j - 1]
      BY <2>1, SubSeqProperties
    <3>2. \A j \in 1..(i - 1) : j \in 1..(i - 1 - 1 + 1) /\ 1 + j - 1 = j
      OBVIOUS
    <3> HIDE DEF before
    <3> QED  BY <3>1, <3>2
  <2>3. behind \in Seq(S) /\ Len(behind) = 4 - i /\ \A j \in 1..(4 - i) : behind[j] = Cells(id)[i + j]
    <3>1. /\ behind \in Seq(S) /\ Len(behind) = (IF i + 1 <= 4 THEN 4 - (i + 1) + 1 ELSE 0)
          /\ \A j \in 1..(4 - (i + 1) + 1) : behind[j] = Cells(id)[(i + 1) + j - 1]
      BY <2>1, SubSeqProperties
    <3>2. \A j \in 1..(4 - i) : j \in 1..(4 - (i + 1) + 1) /\ (i + 1) + j - 1 = i + j
      OBVIOUS
    <3> HIDE DEF behind
    <3> QED  BY <3>1, <3>2
  <2>4. RemoveAt(Cells(id), i) = before \o behind
    BY <1>1 DEF RemoveAt
  <2> HIDE DEF before, behind
  <2>5. /\ Len(before \o behind) = 3
        /\ \A j \in 1..3 : (before \o behind)[j] = IF j <= i - 1 THEN before[j] ELSE behind[j - (i - 1)]
    <3>1. /\ Len(before \o behind) = Len(before) + Len(behind)
          /\ \A j \in 1..(Len(before) + Len(behind)) :
                (before \o behind)[j] = IF j <= Len(before) THEN before[j] ELSE behind[j - Len(before)]
      BY <2>2, <2>3, ConcatProperties
    <3>2. Len(before) + Len(behind) = 3 /\ Len(before) = i - 1
      BY <2>2, <2>3
    <3> QED  BY <3>1, <3>2
  <2>6. k \in 1..3
    BY <2>4, <2>5
  <2>7. CASE k <= i - 1
    <3>1. k \in 1..(i - 1) /\ k \in 1..4
      BY <2>6, <2>7
    <3>2. RemoveAt(Cells(id), i)[k] = [id |-> id, part |-> k]
      BY <1>1, <2>2, <2>4, <2>5, <2>6, <2>7, <3>1
    <3> QED  BY <3>2
  <2>8. CASE ~(k <= i - 1)
    <3>1. k - (i - 1) \in 1..(4 - i) /\ i + (k - (i - 1)) = k + 1 /\ k + 1 \in 1..4
      BY <2>6, <2>8
    <3>2. RemoveAt(Cells(id), i)[k] = [id |-> id, part |-> k + 1]
      BY <1>1, <2>3, <2>4, <2>5, <2>6, <2>8, <3>1
    <3> QED  BY <2>6, <3>2
  <2> QED  BY <2>7, <2>8
<1>3. cells = Cells(id) \/ \E i \in 1..4 : cells = RemoveAt(Cells(id), i)
  BY Zenon DEF Received
<1>4. CASE cells = Cells(id)
  <2>1. \A k \in 1..4 : Cells(id)[k].id = id /\ (Cells(id)[k].part = 1 => k = 1)
    BY <1>1
  <2> QED  BY <1>1, <1>4, <2>1
<1>5. CASE \E i \in 1..4 : cells = RemoveAt(Cells(id), i)
  BY <1>2, <1>5
<1> QED  BY <1>3, <1>4, <1>5

\* Heads of two sequences one after the other.
LEMMA HeadsOfBoth == ASSUME NEW S, NEW s \in Seq(S), NEW t \in Seq(S)
                     PROVE  \A id : HeadIn(s \o t, id) => HeadIn(s, id) \/ HeadIn(t, id)
<1> SUFFICES ASSUME NEW id, NEW i \in 1..Len(s \o t), (s \o t)[i] = HeadOf(id)
             PROVE  HeadIn(s, id) \/ HeadIn(t, id)
  BY DEF HeadIn
<1>1. /\ Len(s \o t) = Len(s) + Len(t) /\ Len(s) \in Nat /\ Len(t) \in Nat
      /\ \A j \in 1..(Len(s) + Len(t)) : (s \o t)[j] = IF j <= Len(s) THEN s[j] ELSE t[j - Len(s)]
  BY ConcatProperties, LenProperties
<1>2. CASE i <= Len(s)
  <2>1. i \in 1..Len(s) /\ s[i] = HeadOf(id)
    BY <1>1, <1>2
  <2> QED  BY <2>1 DEF HeadIn
<1>3. CASE ~(i <= Len(s))
  <2>1. i - Len(s) \in 1..Len(t) /\ t[i - Len(s)] = HeadOf(id)
    BY <1>1, <1>3
  <2> QED  BY <2>1 DEF HeadIn
<1> QED  BY <1>2, <1>3

\* Only frames that were sent are on the line.
LEMMA OnlySent == ASSUME LineType, NEW id, OnLine(id) PROVE id \in 1..Len(frames)
<1>1. PICK cell \in Parts : cell = HeadOf(id)
  <2>1. \A i \in 1..Len(buf) : buf[i] \in Parts
    BY ElementOfSeq DEF LineType
  <2>2. \A i \in 1..Len(stream) : stream[i] \in Parts
    BY ElementOfSeq DEF LineType
  <2> QED  BY <2>1, <2>2 DEF OnLine, HeadIn
<1> QED  BY <1>1 DEF HeadOf, Parts

\* What is on the line after a step.
LEMMA OnLineNext == ASSUME NEW id PROVE OnLine(id)' <=> HeadIn(buf', id) \/ HeadIn(stream', id)
BY DEF OnLine, HeadIn, HeadOf

\* A read takes heads off the line and puts none on it; an answer is stored only when its head
\* leaves the line.
LEMMA ReadHeads ==
    ASSUME LineType, OnceInv, LoopOnce
    PROVE  /\ OnceInv'
           /\ \A id : OnLine(id)' => OnLine(id)
           /\ \/ UNCHANGED rx
              \/ \E id \in 1..Len(frames) : /\ OnLine(id) /\ ~OnLine(id)' /\ frames[id] # 0
                                            /\ rx' = [pc |-> "speed", answer |-> frames[id]]
<1>0. stream \in Seq(Parts) /\ buf \in Seq(Parts) /\ Len(stream) \in Nat /\ Len(frames) \in Nat
  BY LenProperties DEF LineType
<1>1. PICK n \in 1..Len(stream) :
          LET chunk == SubSeq(stream, 1, n)
          IN  /\ GetDataGram(n)
              /\ \E cells \in Headed(Appended(chunk)) : \E complete \in Complete(cells) :
                    IF complete THEN Dispatch(cells) ELSE buf' = cells /\ UNCHANGED <<rx, joints>>
  BY Zenon DEF LoopOnce
<1> DEFINE chunk == SubSeq(stream, 1, n)
           rest  == SubSeq(stream, n + 1, Len(stream))
<1>2. PICK cells \in Headed(Appended(chunk)) : \E complete \in Complete(cells) :
                    IF complete THEN Dispatch(cells) ELSE buf' = cells /\ UNCHANGED <<rx, joints>>
  BY <1>1
<1>3. \A i \in 1..Len(stream) : stream[i] \in Parts
  BY <1>0, ElementOfSeq
<1>4. chunk \in Seq(Parts) /\ Len(chunk) = n /\ \A i \in 1..n : chunk[i] = stream[i]
  BY <1>0, <1>3, SubSeqProperties
<1>5. rest \in Seq(Parts) /\ Len(rest) = Len(stream) - n /\ \A i \in 1..(Len(stream) - n) : rest[i] = stream[n + i]
  <2>1. CASE n = Len(stream)
    BY <1>0, <1>3, <2>1, SubSeqProperties
  <2>2. CASE n < Len(stream)
    BY <1>0, <1>3, <2>2, SubSeqProperties
  <2> QED  BY <1>0, <2>1, <2>2
<1>6. stream' = rest
  BY <1>1 DEF GetDataGram
<1> HIDE DEF chunk, rest
<1>7. \A id : HeadIn(chunk, id) \/ HeadIn(rest, id) => HeadIn(stream, id)
  <2> SUFFICES ASSUME NEW id, HeadIn(chunk, id) \/ HeadIn(rest, id) PROVE HeadIn(stream, id)
    OBVIOUS
  <2>1. CASE HeadIn(chunk, id)
    <3>1. PICK i \in 1..n : chunk[i] = HeadOf(id)
      BY <1>4, <2>1 DEF HeadIn
    <3>2. i \in 1..Len(stream) /\ stream[i] = HeadOf(id)
      BY <1>0, <1>4, <3>1
    <3> QED  BY <3>2 DEF HeadIn
  <2>2. CASE HeadIn(rest, id)
    <3>1. PICK i \in 1..(Len(stream) - n) : rest[i] = HeadOf(id)
      BY <1>5, <2>2 DEF HeadIn
    <3>2. n + i \in 1..Len(stream) /\ stream[n + i] = HeadOf(id)
      BY <1>0, <1>5, <3>1
    <3> QED  BY <3>2 DEF HeadIn
  <2> QED  BY <2>1, <2>2
<1>8. \A id : ~(HeadIn(chunk, id) /\ HeadIn(rest, id))
  <2> SUFFICES ASSUME NEW id, HeadIn(chunk, id), HeadIn(rest, id) PROVE FALSE
    OBVIOUS
  <2>1. PICK i \in 1..n : chunk[i] = HeadOf(id)
    BY <1>4 DEF HeadIn
  <2>2. PICK j \in 1..(Len(stream) - n) : rest[j] = HeadOf(id)
    BY <1>5 DEF HeadIn
  <2>3. /\ i \in 1..Len(stream) /\ n + j \in 1..Len(stream) /\ i # n + j
        /\ stream[i] = HeadOf(id) /\ stream[n + j] = HeadOf(id)
    BY <1>0, <1>4, <1>5, <2>1, <2>2
  <2> QED  BY <2>3 DEF OnceInv, HeadOf
<1>9. \A id : ~HeadIn(<<>>, id)
  BY DEF HeadIn
<1>10. \A id : HeadIn(cells, id) => HeadIn(buf, id) \/ HeadIn(chunk, id)
  <2>1. cells = buf \o chunk \/ cells = <<>>
    BY <1>2 DEF Headed, Appended
  <2>2. \A id : HeadIn(buf \o chunk, id) => HeadIn(buf, id) \/ HeadIn(chunk, id)
    BY <1>0, <1>4, HeadsOfBoth
  <2> QED  BY <1>9, <2>1, <2>2
<1>11. \A id : HeadIn(buf', id) => HeadIn(cells, id)
  <2>1. buf' = cells \/ buf' = <<>>
    BY <1>2 DEF Dispatch
  <2> QED  BY <1>9, <2>1
<1>12. \A id : OnLine(id)' => OnLine(id)
  BY <1>6, <1>7, <1>10, <1>11, OnLineNext DEF OnLine
<1>13. \A id \in Nat : ~((HeadIn(buf, id) \/ HeadIn(chunk, id)) /\ HeadIn(rest, id))
  BY <1>7, <1>8 DEF OnceInv
<1>14. OnceInv'
  <2>1. \A i, j \in 1..Len(rest) : rest[i] = rest[j] /\ rest[i].part = 1 => i = j
    <3> SUFFICES ASSUME NEW i \in 1..(Len(stream) - n), NEW j \in 1..(Len(stream) - n),
                        rest[i] = rest[j], rest[i].part = 1
                 PROVE  i = j
      BY <1>5
    <3>1. n + i \in 1..Len(stream) /\ n + j \in 1..Len(stream)
      BY <1>0
    <3>2. stream[n + i] = stream[n + j] /\ stream[n + i].part = 1
      BY <1>5
    <3>3. n + i = n + j
      BY <3>1, <3>2 DEF OnceInv
    <3> QED  BY <1>0, <3>3
  <2>2. \A id \in Nat : ~(HeadIn(buf', id) /\ HeadIn(stream', id))
    BY <1>6, <1>10, <1>11, <1>13
  <2> QED  BY <1>6, <2>1, <2>2 DEF OnceInv, HeadIn, HeadOf
<1>15. \/ UNCHANGED rx
       \/ \E id \in 1..Len(frames) : /\ OnLine(id) /\ ~OnLine(id)' /\ frames[id] # 0
                                     /\ rx' = [pc |-> "speed", answer |-> frames[id]]
  <2>1. CASE UNCHANGED rx
    BY <2>1
  <2>2. CASE /\ Dispatch(cells) /\ Whole(cells) /\ frames[cells[1].id] # 0
             /\ rx' = [pc |-> "speed", answer |-> frames[cells[1].id]]
    <3>1. cells \in Seq(Parts)
      <4>1. cells = buf \o chunk \/ cells = <<>>
        BY <1>2 DEF Headed, Appended
      <4>2. buf \o chunk \in Seq(Parts) /\ <<>> \in Seq(Parts)
        BY <1>0, <1>4, ConcatProperties, EmptySeq
      <4> QED  BY <4>1, <4>2
    <3>2. Len(cells) \in Nat /\ Len(cells) >= 4 /\ \A i \in 1..Len(cells) : cells[i] \in Parts
      BY <2>2, <3>1, ElementOfSeq, LenProperties DEF Whole
    <3>3. cells[1] \in Parts
      BY <3>2
    <3>4. SubSeq(cells, 1, 4)[1] = cells[1]
      BY <3>1, <3>2
    <3>5. cells[1] = HeadOf(cells[1].id)
      <4>1. Cells(cells[1].id)[1] = HeadOf(cells[1].id)
        BY DEF Cells, HeadOf
      <4> QED  BY <2>2, <3>4, <4>1 DEF Whole
    <3>6. HeadIn(cells, cells[1].id)
      BY <3>2, <3>5 DEF HeadIn
    <3>7. cells[1].id \in 1..Len(frames)
      BY <3>3 DEF Parts
    <3>8. buf' = <<>>
      BY <2>2 DEF Dispatch
    <3>9. ~HeadIn(buf', cells[1].id) /\ ~HeadIn(stream', cells[1].id)
      BY <1>0, <1>6, <1>9, <1>10, <1>13, <3>6, <3>7, <3>8
    <3>10. OnLine(cells[1].id) /\ ~OnLine(cells[1].id)'
      <4> DEFINE c == cells[1].id
      <4>1. OnLine(c)
        BY <1>7, <1>10, <3>6 DEF OnLine
      <4>2. ~OnLine(c)'
        BY <3>8, <3>9, OnLineNext
      <4> QED  BY <4>1, <4>2
    <3> QED  BY <2>2, <3>7, <3>10
  <2>3. \/ UNCHANGED rx
        \/ /\ Dispatch(cells) /\ Whole(cells) /\ frames[cells[1].id] # 0
           /\ rx' = [pc |-> "speed", answer |-> frames[cells[1].id]]
    BY <1>2 DEF Dispatch
  <2> QED  BY <2>1, <2>2, <2>3
<1> QED  BY <1>12, <1>14, <1>15

\* A frame that comes in puts its own head on the line, once.
LEMMA SendHeads == ASSUME LineType, OnceInv, NEW what, ArmSends(what), UNCHANGED buf
                   PROVE  OnceInv' /\ \A id : OnLine(id)' => OnLine(id) \/ id = Len(frames) + 1
<1> DEFINE S   == [id : Nat, part : 1..4]
           new == Len(frames) + 1
<1>0. stream \in Seq(Parts) /\ Len(stream) \in Nat /\ Len(frames) \in Nat
  BY LenProperties DEF LineType
<1>1. Parts \subseteq S
  BY <1>0 DEF Parts
<1>2. PICK cells \in Received(new) : stream' = stream \o cells
  BY DEF ArmSends
<1>3. cells \in Seq(S) /\ \A k \in 1..Len(cells) : cells[k].id = new /\ (cells[k].part = 1 => k = 1)
  <2>1. new \in Nat /\ \A part \in 1..4 : [id |-> new, part |-> part] \in S
    BY <1>0
  <2> HIDE DEF S
  <2> QED  BY <1>2, <2>1, FrameType, FrameHeads
<1>4. \A i \in 1..Len(stream) : stream[i] \in Parts
  BY <1>0, ElementOfSeq
<1>5. \A i \in 1..Len(stream) : stream[i].id # new
  BY <1>0, <1>4 DEF Parts
<1>6. new = Len(frames) + 1
  OBVIOUS
<1> HIDE DEF S, new
<1>7. stream \in Seq(S)
  BY <1>0, <1>1
<1>8. /\ Len(cells) \in Nat /\ Len(stream') = Len(stream) + Len(cells)
      /\ \A j \in 1..(Len(stream) + Len(cells)) : stream'[j] = IF j <= Len(stream) THEN stream[j] ELSE cells[j - Len(stream)]
  BY <1>2, <1>3, <1>7, ConcatProperties, LenProperties
<1>9. \A id : HeadIn(cells, id) => id = new
  BY <1>3 DEF HeadIn, HeadOf
<1>10. \A id : HeadIn(stream', id) => HeadIn(stream, id) \/ id = new
  BY <1>2, <1>3, <1>7, <1>9, HeadsOfBoth
<1>11. \A id : OnLine(id)' => OnLine(id) \/ id = new
  BY <1>10, OnLineNext DEF OnLine
<1>12. \A i, j \in 1..Len(stream') : stream'[i] = stream'[j] /\ stream'[i].part = 1 => i = j
  <2> SUFFICES ASSUME NEW i \in 1..(Len(stream) + Len(cells)), NEW j \in 1..(Len(stream) + Len(cells)),
                      stream'[i] = stream'[j], stream'[i].part = 1
               PROVE  i = j
    BY <1>8
  <2>1. \A k \in 1..(Len(stream) + Len(cells)) : ~(k <= Len(stream)) => k - Len(stream) \in 1..Len(cells)
    BY <1>0, <1>8
  <2>2. CASE i <= Len(stream) /\ j <= Len(stream)
    <3>1. i \in 1..Len(stream) /\ j \in 1..Len(stream) /\ stream[i] = stream[j] /\ stream[i].part = 1
      BY <1>8, <2>2
    <3> QED  BY <3>1 DEF OnceInv
  <2>3. CASE i <= Len(stream) /\ ~(j <= Len(stream))
    <3>1. i \in 1..Len(stream) /\ stream'[i] = stream[i] /\ stream'[j] = cells[j - Len(stream)]
      BY <1>8, <2>3
    <3>2. stream[i].id # new /\ cells[j - Len(stream)].id = new
      BY <1>3, <1>5, <2>1, <2>3, <3>1
    <3> QED  BY <3>1, <3>2
  <2>4. CASE ~(i <= Len(stream)) /\ j <= Len(stream)
    <3>1. j \in 1..Len(stream) /\ stream'[j] = stream[j] /\ stream'[i] = cells[i - Len(stream)]
      BY <1>8, <2>4
    <3>2. stream[j].id # new /\ cells[i - Len(stream)].id = new
      BY <1>3, <1>5, <2>1, <2>4, <3>1
    <3> QED  BY <3>1, <3>2
  <2>5. CASE ~(i <= Len(stream)) /\ ~(j <= Len(stream))
    <3>1. stream'[j] = cells[j - Len(stream)] /\ stream'[i] = cells[i - Len(stream)]
      BY <1>8, <2>5
    <3>2. i - Len(stream) = 1 /\ j - Len(stream) = 1
      BY <1>3, <2>1, <2>5, <3>1
    <3> QED  BY <1>0, <3>2
  <2> QED  BY <2>2, <2>3, <2>4, <2>5
<1>13. \A id \in Nat : ~(HeadIn(buf', id) /\ HeadIn(stream', id))
  <2> SUFFICES ASSUME NEW id \in Nat, HeadIn(buf, id), HeadIn(stream', id) PROVE FALSE
    OBVIOUS
  <2>1. id \in 1..Len(frames)
    BY OnlySent DEF OnLine
  <2>2. HeadIn(stream, id)
    BY <1>0, <1>6, <1>10, <2>1
  <2> QED  BY <2>2 DEF OnceInv
<1> QED  BY <1>6, <1>11, <1>12, <1>13 DEF OnceInv, HeadIn, HeadOf

\* What the rest leaves as it is.
LEMMA OnceKept == OnceInv /\ UNCHANGED <<buf, stream>> => OnceInv' /\ \A id : OnLine(id)' <=> OnLine(id)
BY OnLineNext DEF OnceInv, OnLine, HeadIn, HeadOf

-----------------------------------------------------------------------------
(* Theorem AnswersAlwaysMatch: requests and answers *)

Storing == rx.pc \in {"speed", "payload", "flag"}
Stored  == Storing \/ servo.flag

\* As long as no request has timed out, all there is of answers on the line is at most one to
\* the last request, not stored yet.
AskedInv ==
    /\ asked \subseteq {main.request}
    /\ \A id \in 1..Len(frames) : frames[id] <= main.request
    /\ \A id \in 1..Len(frames) : OnLine(id) /\ frames[id] # 0 => frames[id] = main.request /\ ~Stored
    /\ asked # {} => ~Stored /\ \A id \in 1..Len(frames) : frames[id] # main.request
    /\ main.request # 0 => \A i, j \in 1..Len(frames) : frames[i] = main.request /\ frames[j] = main.request => i = j

\* An answer that is being stored, or is stored, is the one to the last request.
StoreInv ==
    /\ Storing => rx.answer = main.request /\ main.request # 0 /\ ~servo.flag
    /\ rx.pc \in {"payload", "flag"} => servo.speed = main.request
    /\ rx.pc = "flag" => servo.payload = main.request
    /\ servo.flag => servo.speed = main.request /\ servo.payload = main.request

\* The main thread copies only what is stored, and goes on only when it has.
CopyInv ==
    /\ main.pc # "poll" /\ main.request # 0 => servo.flag
    /\ main.pc = "rest" => main.copy.speed = main.request
    /\ main.pc \in {"poll", "copy", "rest"} => main.request # 0
    /\ main.pc \notin {"poll", "copy", "rest"} /\ main.copy # NoFields
          => main.copy = [speed |-> main.request, payload |-> main.request]

AnswerInv == OnceInv /\ (~late => AskedInv /\ StoreInv /\ CopyInv)

\* Nothing is asked at the start.
LEMMA InitAnswer == Init => AnswerInv
<1> SUFFICES ASSUME Init PROVE AnswerInv
  OBVIOUS
<1>1. OnceInv
  BY DEF Init, OnceInv, HeadIn
<1>2. AskedInv
  BY DEF Init, AskedInv
<1>3. StoreInv /\ CopyInv
  BY DEF Init, StoreInv, CopyInv, Storing
<1> QED  BY <1>1, <1>2, <1>3 DEF AnswerInv

\* What AskedInv, StoreInv and CopyInv do not look at may change.
LEMMA AskedKept == AskedInv /\ (\A id : OnLine(id)' => OnLine(id)) /\ UNCHANGED <<asked, main.request, frames>> /\ (Stored' => Stored)
                   => AskedInv'
BY DEF AskedInv

\* As above.
LEMMA StoreKept == StoreInv /\ UNCHANGED <<rx, servo, main.request>> => StoreInv'
BY DEF StoreInv, Storing

\* As above.
LEMMA CopyKept == CopyInv /\ UNCHANGED <<main, servo>> => CopyInv'
BY DEF CopyInv, NoFields

\* Start-up, before anything is asked, and the commands.
LEMMA OtherAnswer == ASSUME TypeOK, AnswerInv, UNCHANGED <<buf, stream, asked, frames, servo, main.request, main.copy, late>>,
                            rx' = rx \/ rx'.pc = "loop",
                            main'.pc = main.pc \/ {main.pc, main'.pc} \cap {"poll", "copy", "rest"} = {}
                     PROVE  AnswerInv'
<1>1. OnceInv' /\ \A id : OnLine(id)' => OnLine(id)
  BY OnceKept DEF AnswerInv
<1>2. Storing' => Storing
  BY DEF Storing
<1>3. ASSUME ~late PROVE AskedInv' /\ StoreInv' /\ CopyInv'
  <2>0. AskedInv /\ StoreInv /\ CopyInv
    BY <1>3 DEF AnswerInv
  <2>1. AskedInv'
    BY <1>1, <1>2, <2>0, AskedKept DEF Stored
  <2>2. StoreInv'
    BY <2>0 DEF StoreInv, Storing
  <2>3. CopyInv'
    BY <2>0 DEF CopyInv, NoFields
  <2> QED  BY <2>1, <2>2, <2>3
<1> QED  BY <1>1, <1>3 DEF AnswerInv

\* The service asks: whatever went before is over.
LEMMA AskAnswer == ASSUME TypeOK, AnswerInv, AskServo PROVE AnswerInv'
<1> DEFINE q == main.request
<1>0. /\ main \in Mains /\ q \in Nat /\ asked \subseteq Requests /\ frames \in Seq(0..MaxRequests)
      /\ servo \in [speed : 0..MaxRequests, payload : 0..MaxRequests, flag : BOOLEAN]
  BY LinkAssumption DEF TypeOK, Mains
<1>1. OnceInv' /\ \A id : OnLine(id)' => OnLine(id)
  BY OnceKept DEF AnswerInv, AskServo, rxVars
<1>2. /\ main.pc = "spin" /\ main' = [pc |-> "poll", request |-> q + 1, copy |-> NoFields]
      /\ servo'.flag = FALSE /\ asked' \subseteq asked \cup {q + 1} /\ UNCHANGED <<frames, rx, late>>
  BY <1>0 DEF AskServo, SendGetServoRealTimeInfo, rxVars, history
<1>3. ASSUME ~late PROVE AskedInv' /\ StoreInv' /\ CopyInv'
  <2>0. AskedInv /\ StoreInv /\ CopyInv
    BY <1>3 DEF AnswerInv
  <2>1. ~Storing /\ ~Storing' /\ ~Stored'
    BY <1>2, <2>0 DEF StoreInv, CopyInv, Storing, Stored
  <2>2. q # 0 => Stored
    BY <1>2, <2>0 DEF CopyInv, Stored
  <2>3. asked = {}
    <3>1. CASE q = 0
      BY <1>0, <2>0, <3>1 DEF AskedInv, Requests
    <3>2. CASE q # 0
      BY <2>0, <2>2, <3>2 DEF AskedInv
    <3> QED  BY <3>1, <3>2
  <2>4. \A id \in 1..Len(frames) : frames[id] \in Nat /\ frames[id] <= q
    <3>1. \A id \in 1..Len(frames) : frames[id] \in 0..MaxRequests
      BY <1>0, ElementOfSeq
    <3> QED  BY <2>0, <3>1, LinkAssumption DEF AskedInv
  <2>5. \A id \in 1..Len(frames) : OnLine(id) => frames[id] = 0
    <3> SUFFICES ASSUME NEW id \in 1..Len(frames), OnLine(id), frames[id] # 0 PROVE FALSE
      OBVIOUS
    <3>1. frames[id] = q /\ ~Stored
      BY <2>0 DEF AskedInv
    <3> QED  BY <2>2, <3>1
  <2>6. AskedInv'
    <3>1. asked' \subseteq {q + 1} /\ main'.request = q + 1
      BY <1>2, <2>3
    <3>2. \A id \in 1..Len(frames) : frames[id] <= q + 1 /\ frames[id] # q + 1
      BY <1>0, <2>4
    <3>3. \A id \in 1..Len(frames) : OnLine(id)' => frames[id] = 0
      BY <1>1, <2>5
    <3> HIDE DEF q
    <3> QED  BY <1>2, <2>1, <3>1, <3>2, <3>3 DEF AskedInv
  <2>7. StoreInv'
    BY <1>2, <2>1 DEF StoreInv, Storing
  <2>8. CopyInv'
    BY <1>0, <1>2 DEF CopyInv
  <2> QED  BY <2>6, <2>7, <2>8
<1> QED  BY <1>1, <1>2, <1>3 DEF AnswerInv

\* The arm sends its joints, or the answer it owes.
LEMMA LineAnswer == ASSUME TypeOK, AnswerInv, NEW what \in 0..MaxRequests, ArmSends(what), what # 0 => what \in asked,
                           asked' \subseteq asked \ {what}, UNCHANGED <<mainVars, rxVars, servo, late>>
                    PROVE  AnswerInv'
<1> DEFINE q   == main.request
           new == Len(frames) + 1
<1>0. main \in Mains /\ q \in Nat /\ frames \in Seq(0..MaxRequests) /\ Len(frames) \in Nat /\ asked \subseteq Requests
  BY LinkAssumption, LenProperties DEF TypeOK, Mains
<1>1. OnceInv' /\ \A id : OnLine(id)' => OnLine(id) \/ id = new
  BY TypeParts, SendHeads DEF AnswerInv, rxVars
<1>2. /\ Len(frames') = new /\ frames'[new] = what /\ \A id \in 1..Len(frames) : frames'[id] = frames[id]
      /\ \A id \in 1..new : id \in 1..Len(frames) \/ id = new
  BY <1>0 DEF ArmSends
<1>3. UNCHANGED <<main, rx, servo, late>> /\ (Stored' <=> Stored)
  BY DEF mainVars, rxVars, Stored, Storing
<1>4. ASSUME ~late PROVE AskedInv' /\ StoreInv' /\ CopyInv'
  <2>0. AskedInv /\ StoreInv /\ CopyInv
    BY <1>4 DEF AnswerInv
  <2>1. what # 0 => /\ what = q /\ ~Stored /\ asked' = {}
                    /\ \A id \in 1..Len(frames) : frames[id] # q
    BY <2>0 DEF AskedInv
  <2>2. what <= q
    BY <1>0, <2>1
  <2> HIDE DEF q, new
  <2>3. main.request = q /\ main'.request = q /\ Len(frames') = new
    BY <1>2, <1>3 DEF q
  <2>4. asked' \subseteq {q} /\ (asked' # {} => ~Stored /\ \A id \in 1..new : frames'[id] # q)
    <3>1. asked' # {} => what = 0 /\ q \in asked
      BY <2>0, <2>1, <2>3 DEF AskedInv
    <3>2. asked' # {} => q # 0
      BY <1>0, <3>1 DEF Requests
    <3> QED  BY <1>2, <2>0, <2>3, <3>1, <3>2 DEF AskedInv
  <2>5. \A id \in 1..new : frames'[id] <= q
    BY <1>2, <2>0, <2>2, <2>3 DEF AskedInv
  <2>6. \A id \in 1..new : OnLine(id)' /\ frames'[id] # 0 => frames'[id] = q /\ ~Stored
    <3> SUFFICES ASSUME NEW id \in 1..new, OnLine(id)', frames'[id] # 0 PROVE frames'[id] = q /\ ~Stored
      OBVIOUS
    <3>1. CASE id = new
      BY <1>2, <2>1, <3>1
    <3>2. CASE id # new
      <4>1. id \in 1..Len(frames) /\ OnLine(id) /\ frames'[id] = frames[id]
        BY <1>1, <1>2, <3>2
      <4> QED  BY <2>0, <2>3, <4>1 DEF AskedInv
    <3> QED  BY <3>1, <3>2
  <2>7. q # 0 => \A i, j \in 1..new : frames'[i] = q /\ frames'[j] = q => i = j
    <3> SUFFICES ASSUME q # 0, NEW i \in 1..new, NEW j \in 1..new, frames'[i] = q, frames'[j] = q PROVE i = j
      OBVIOUS
    <3>1. CASE what = q
      BY <1>2, <2>1, <3>1
    <3>2. CASE what # q
      <4>1. i \in 1..Len(frames) /\ j \in 1..Len(frames) /\ frames[i] = q /\ frames[j] = q
        BY <1>2, <3>2
      <4> QED  BY <2>0, <2>3, <4>1 DEF AskedInv
    <3> QED  BY <3>1, <3>2
  <2>8. AskedInv'
    BY <1>3, <2>3, <2>4, <2>5, <2>6, <2>7 DEF AskedInv
  <2> QED  BY <1>3, <2>0, <2>8, StoreKept, CopyKept
<1> QED  BY <1>1, <1>3, <1>4 DEF AnswerInv

\* A read: when it completes an answer that is the one asked for, nothing else is on the line.
LEMMA ReadAnswer == ASSUME TypeOK, AnswerInv, LoopOnce PROVE AnswerInv'
<1>0. /\ OnceInv'
      /\ \A id : OnLine(id)' => OnLine(id)
      /\ \/ UNCHANGED rx
         \/ \E id \in 1..Len(frames) : /\ OnLine(id) /\ ~OnLine(id)' /\ frames[id] # 0
                                       /\ rx' = [pc |-> "speed", answer |-> frames[id]]
  BY TypeParts, ReadHeads DEF AnswerInv
<1>1. UNCHANGED <<main, frames, asked, servo, late>>
  BY DEF LoopOnce, mainVars
<1>2. ASSUME ~late PROVE AskedInv' /\ StoreInv' /\ CopyInv'
  <2>0. AskedInv /\ StoreInv /\ CopyInv
    BY <1>2 DEF AnswerInv
  <2>1. CASE UNCHANGED rx
    <3>1. Stored' <=> Stored
      BY <1>1, <2>1 DEF Stored, Storing
    <3> QED  BY <1>0, <1>1, <2>0, <2>1, <3>1, AskedKept, StoreKept, CopyKept
  <2>2. CASE \E id \in 1..Len(frames) : /\ OnLine(id) /\ ~OnLine(id)' /\ frames[id] # 0
                                        /\ rx' = [pc |-> "speed", answer |-> frames[id]]
    <3>1. PICK id \in 1..Len(frames) : /\ OnLine(id) /\ ~OnLine(id)' /\ frames[id] # 0
                                       /\ rx' = [pc |-> "speed", answer |-> frames[id]]
      BY <2>2
    <3>2. frames[id] = main.request /\ ~Stored /\ main.request # 0 /\ asked = {}
      BY <2>0, <3>1 DEF AskedInv
    <3>3. \A other \in 1..Len(frames) : OnLine(other)' => frames[other] = 0
      <4> SUFFICES ASSUME NEW other \in 1..Len(frames), OnLine(other)', frames[other] # 0 PROVE FALSE
        OBVIOUS
      <4>1. frames[other] = main.request
        BY <1>0, <2>0 DEF AskedInv
      <4>2. other = id
        BY <2>0, <3>2, <4>1 DEF AskedInv
      <4> QED  BY <3>1, <4>2
    <3>4. AskedInv'
      BY <1>1, <2>0, <3>2, <3>3 DEF AskedInv
    <3>5. StoreInv'
      BY <1>1, <3>1, <3>2 DEF StoreInv, Stored, Storing
    <3> QED  BY <1>1, <2>0, <3>4, <3>5, CopyKept
  <2> QED  BY <1>0, <2>1, <2>2
<1> QED  BY <1>0, <1>1, <1>2 DEF AnswerInv

\* The receive thread stores a field, or the flag.
LEMMA StoreAnswer == ASSUME TypeOK, AnswerInv, StoreSpeed \/ StorePayload \/ StoreFlag PROVE AnswerInv'
<1>0. /\ rx \in [pc : {"off", "loop", "speed", "payload", "flag"}, answer : 0..MaxRequests]
      /\ servo \in [speed : 0..MaxRequests, payload : 0..MaxRequests, flag : BOOLEAN]
  BY DEF TypeOK
<1>1. UNCHANGED <<buf, stream, main, frames, asked, late>> /\ Storing
  BY DEF StoreSpeed, StorePayload, StoreFlag, Store, mainVars, armVars, history, Storing
<1>2. OnceInv' /\ \A id : OnLine(id)' => OnLine(id)
  BY <1>1, OnceKept DEF AnswerInv
<1>3. ASSUME ~late PROVE AskedInv' /\ StoreInv' /\ CopyInv'
  <2>0. AskedInv /\ StoreInv /\ CopyInv
    BY <1>3 DEF AnswerInv
  <2>1. AskedInv'
    BY <1>1, <1>2, <2>0, AskedKept DEF Stored
  <2>2. rx.answer = main.request /\ main.request # 0 /\ ~servo.flag
    BY <1>1, <2>0 DEF StoreInv
  <2>3. main.pc = "poll"
    BY <2>0, <2>2 DEF CopyInv
  <2>4. StoreInv'
    <3>1. CASE StoreSpeed
      <4>1. rx.pc = "speed" /\ rx' = [rx EXCEPT !.pc = "payload"] /\ servo' = [servo EXCEPT !.speed = rx.answer]
        BY <3>1 DEF StoreSpeed, Store
      <4>2. rx'.pc = "payload" /\ rx'.answer = main.request /\ servo'.speed = main.request /\ ~servo'.flag
        BY <1>0, <2>2, <4>1
      <4> QED  BY <1>1, <2>2, <4>2 DEF StoreInv, Storing
    <3>2. CASE StorePayload
      <4>1. rx.pc = "payload" /\ rx' = [rx EXCEPT !.pc = "flag"] /\ servo' = [servo EXCEPT !.payload = rx.answer]
        BY <3>2 DEF StorePayload, Store
      <4>2. servo.speed = main.request
        BY <2>0, <4>1 DEF StoreInv
      <4>3. /\ rx'.pc = "flag" /\ rx'.answer = main.request /\ ~servo'.flag
            /\ servo'.speed = main.request /\ servo'.payload = main.request
        BY <1>0, <2>2, <4>1, <4>2
      <4> QED  BY <1>1, <2>2, <4>3 DEF StoreInv, Storing
    <3>3. CASE StoreFlag
      <4>1. rx.pc = "flag" /\ rx' = [rx EXCEPT !.pc = "loop"] /\ servo' = [servo EXCEPT !.flag = TRUE]
        BY <3>3 DEF StoreFlag, Store
      <4>2. servo.speed = main.request /\ servo.payload = main.request
        BY <2>0, <4>1 DEF StoreInv
      <4>3. rx'.pc = "loop" /\ servo'.speed = main.request /\ servo'.payload = main.request
        BY <1>0, <4>1, <4>2
      <4> QED  BY <1>1, <4>3 DEF StoreInv, Storing
    <3> QED  BY <3>1, <3>2, <3>3
  <2>5. CopyInv'
    BY <1>1, <2>0, <2>3 DEF CopyInv, NoFields
  <2> QED  BY <2>1, <2>4, <2>5
<1> QED  BY <1>1, <1>2, <1>3 DEF AnswerInv

\* The poll ends with the flag, or too late; the fields are copied one after the other.
LEMMA PollAnswer == ASSUME TypeOK, AnswerInv, PollEnds \/ CopySpeed \/ CopyPayload PROVE AnswerInv'
<1>0. main \in Mains
  BY DEF TypeOK
<1>1. UNCHANGED <<buf, stream, servo, rx, frames, asked, main.request>>
  BY <1>0 DEF PollEnds, CopySpeed, CopyPayload, Copy, Step, Mains, rxVars, armVars
<1>2. OnceInv' /\ \A id : OnLine(id)' => OnLine(id)
  BY <1>1, OnceKept DEF AnswerInv
<1>3. late => late'
  BY DEF PollEnds, CopySpeed, CopyPayload, Copy, history
<1>4. ASSUME ~late' PROVE AskedInv' /\ StoreInv' /\ CopyInv'
  <2>0. AskedInv /\ StoreInv /\ CopyInv
    BY <1>3, <1>4 DEF AnswerInv
  <2>1. AskedInv'
    BY <1>1, <1>2, <2>0, AskedKept DEF Stored, Storing
  <2>2. StoreInv'
    BY <1>1, <2>0, StoreKept
  <2>3. CopyInv'
    <3>1. CASE PollEnds
      <4>1. servo.flag /\ main.pc = "poll" /\ main' = [main EXCEPT !.pc = "copy"]
        BY <1>4, <3>1 DEF PollEnds, Step
      <4>2. main'.pc = "copy" /\ main'.request = main.request
        BY <1>0, <4>1 DEF Mains
      <4> QED  BY <1>1, <2>0, <4>1, <4>2 DEF CopyInv
    <3>2. CASE CopySpeed
      <4>1. main.pc = "copy" /\ main' = [main EXCEPT !.pc = "rest", !.copy = [main.copy EXCEPT !.speed = servo.speed]]
        BY <3>2 DEF CopySpeed, Copy
      <4>2. servo.flag /\ servo.speed = main.request /\ main.request # 0
        BY <2>0, <4>1 DEF CopyInv, StoreInv
      <4>3. main'.pc = "rest" /\ main'.request = main.request /\ main'.copy.speed = servo.speed
        BY <1>0, <4>1 DEF Mains, Fields
      <4> QED  BY <1>1, <4>2, <4>3 DEF CopyInv
    <3>3. CASE CopyPayload
      <4>1. main.pc = "rest" /\ main' = [main EXCEPT !.pc = "spin", !.copy = [main.copy EXCEPT !.payload = servo.payload]]
        BY <3>3 DEF CopyPayload, Copy
      <4>2. servo.flag /\ servo.payload = main.request /\ main.copy.speed = main.request
        BY <2>0, <4>1 DEF CopyInv, StoreInv
      <4>3. /\ main'.pc = "spin" /\ main'.request = main.request
            /\ main'.copy = [speed |-> main.request, payload |-> main.request]
        BY <1>0, <4>1, <4>2 DEF Mains, Fields
      <4> QED  BY <1>1, <4>2, <4>3 DEF CopyInv
    <3> QED  BY <3>1, <3>2, <3>3
  <2> QED  BY <2>1, <2>2, <2>3
<1> QED  BY <1>2, <1>4 DEF AnswerInv

\* Every step keeps it.
LEMMA NextAnswer == TypeOK /\ AnswerInv /\ [Next]_vars => AnswerInv'
<1> SUFFICES ASSUME TypeOK, AnswerInv, [Next]_vars PROVE AnswerInv'
  OBVIOUS
<1>0. main \in Mains /\ rx \in [pc : {"off", "loop", "speed", "payload", "flag"}, answer : 0..MaxRequests] /\ asked \subseteq Requests
  BY DEF TypeOK
<1>1. CASE InitDevice \/ InitArm \/ StartupCheck
  <2>1. UNCHANGED <<buf, stream, asked, frames, servo, rx, late>>
    BY <1>1 DEF InitDevice, InitArm, StartupCheck, rxVars, armVars, history
  <2>2. UNCHANGED <<main.request, main.copy>> /\ {main.pc, main'.pc} \cap {"poll", "copy", "rest"} = {}
    BY <1>0, <1>1 DEF InitDevice, InitArm, StartupCheck, Step, Mains
  <2> QED  BY <2>1, <2>2, OtherAnswer
<1>2. CASE StartReceiveSerial
  <2>1. UNCHANGED <<buf, stream, asked, frames, servo, late>>
    BY <1>2 DEF StartReceiveSerial, armVars, history
  <2>2. UNCHANGED <<main.request, main.copy>> /\ {main.pc, main'.pc} \cap {"poll", "copy", "rest"} = {}
    BY <1>0, <1>2 DEF StartReceiveSerial, Step, Mains
  <2>3. rx' = rx \/ rx'.pc = "loop"
    BY <1>0, <1>2 DEF StartReceiveSerial
  <2> QED  BY <2>1, <2>2, <2>3, OtherAnswer
<1>3. CASE JointCommand \/ JointStatesCb \/ ControlTorque
  <2>1. UNCHANGED <<buf, stream, asked, frames, servo, main, rx, late>>
    BY <1>3 DEF JointCommand, JointStatesCb, ControlTorque, rxVars, history
  <2> QED  BY <2>1, OtherAnswer
<1>4. CASE MovedByHand \/ UNCHANGED vars
  <2>1. UNCHANGED <<buf, stream, asked, frames, servo, main, rx, late>>
    BY <1>4 DEF MovedByHand, vars, mainVars, rxVars, armVars, history
  <2> QED  BY <2>1, OtherAnswer
<1>5. CASE AskServo
  BY <1>5, AskAnswer
<1>6. CASE PollEnds \/ CopySpeed \/ CopyPayload
  BY <1>6, PollAnswer
<1>7. CASE LoopOnce
  BY <1>7, ReadAnswer
<1>8. CASE StoreSpeed \/ StorePayload \/ StoreFlag
  BY <1>8, StoreAnswer
<1>9. CASE SendsJoints
  <2>1. 0 \in 0..MaxRequests /\ 0 \notin asked
    BY <1>0, LinkAssumption DEF Requests
  <2>2. ArmSends(0) /\ asked' \subseteq asked \ {0} /\ UNCHANGED <<mainVars, rxVars, servo, late>>
    BY <1>9, <2>1 DEF SendsJoints, history
  <2> QED  BY <2>1, <2>2, LineAnswer
<1>10. CASE Answers
  <2>1. PICK r \in asked : ArmSends(r) /\ asked' = asked \ {r}
    BY <1>10 DEF Answers
  <2>2. r \in 0..MaxRequests /\ UNCHANGED <<mainVars, rxVars, servo, late>>
    BY <1>0, <1>10 DEF Answers, Requests, history
  <2> QED  BY <2>1, <2>2, LineAnswer
<1> QED
  BY <1>1, <1>2, <1>3, <1>4, <1>5, <1>6, <1>7, <1>8, <1>9, <1>10 DEF Next, Main, Receive, Line

\* The servo service answers with what the arm said to this request, in all fields, although the
\* receive thread stores them one by one while the main thread polls (sdk_sagittarius_arm_real.cpp:276-296),
\* as long as no request has timed out: an answer is stored only while its request waits.
THEOREM AnswersAlwaysMatch == Spec => []AnswerMatches
<1>1. TypeOK /\ AnswerInv => AnswerMatches
  BY DEF AnswerInv, CopyInv, AnswerMatches, Answered
<1>2. Init => TypeOK /\ AnswerInv
  BY InitType, InitAnswer
<1>3. TypeOK /\ AnswerInv /\ [Next]_vars => TypeOK' /\ AnswerInv'
  BY NextType, NextAnswer
<1> QED  BY <1>1, <1>2, <1>3, PTL DEF Spec

-----------------------------------------------------------------------------
(* Theorem AlwaysRecovers *)

Room == (Limit + 2) \div 4

\* As whole frames come in read by read, either what was in the buffer before them grows, which
\* it can do so often only, or the buffer is empty and the next frame is accepted.
RecoverInv ==
    /\ clean \in Nat
    /\ clean # 0 => /\ lastRead \in 1..Len(frames)
                    /\ buf # <<>> => 4 * clean + 1 <= Len(buf) /\ clean <= Room
                    /\ buf = <<>> => clean <= Room + 1 \/ Accepted(lastRead)

\* What Room is.
LEMMA RoomIs == Room \in Nat /\ 4 * Room <= Limit + 2 /\ Limit + 2 < 4 * Room + 4 /\ 1 <= Room
BY LinkAssumption DEF Room

\* A read of just one whole frame into the empty buffer: the frame is accepted.
LEMMA OneAccepted == ASSUME LineType, NEW id \in 1..Len(frames), buf = <<>>,
                            NEW cells \in Headed(Appended(Cells(id))), NEW complete \in Complete(cells),
                            IF complete THEN Dispatch(cells) ELSE buf' = cells /\ UNCHANGED <<rx, joints>>
                     PROVE  buf' = <<>> /\ (IF frames[id] = 0 THEN joints' = id ELSE rx'.answer = frames[id])
<1>1. Cells(id) \in Seq(Parts) /\ Len(Cells(id)) = 4 /\ \A k \in 1..4 : Cells(id)[k] = [id |-> id, part |-> k]
  <2>1. \A part \in 1..4 : [id |-> id, part |-> part] \in Parts
    BY DEF Parts
  <2> QED  BY <2>1, CellsAre
<1>2. Appended(Cells(id)) = Cells(id)
  <2>1. <<>> \o Cells(id) = Cells(id)
    BY <1>1
  <2> QED  BY <1>1, <2>1, LinkAssumption DEF Appended
<1>3. cells = Cells(id)
  <2>1. Cells(id) # <<>> /\ Cells(id)[1].part = 1
    BY <1>1
  <2> QED  BY <1>2, <2>1 DEF Headed
<1>4. complete
  <2>1. Len(cells) = 4 /\ cells[2].part = 2
    BY <1>1, <1>3
  <2>2. ~(Len(cells) < 2) /\ Len(cells) >= 4
    BY <2>1
  <2>3. complete = (Len(cells) >= 4)
    BY <2>1, <2>2, Zenon DEF Complete
  <2> QED  BY <2>2, <2>3, Zenon
<1>5. Whole(cells) /\ cells[1].id = id
  <2>1. SubSeq(Cells(id), 1, 4) = Cells(id)
    BY <1>1
  <2>2. Len(cells) = 4 /\ cells[1].id = id /\ SubSeq(cells, 1, 4) = Cells(id)
    BY <1>1, <1>3, <2>1
  <2> QED  BY <2>2 DEF Whole
<1> QED  BY <1>4, <1>5 DEF Dispatch, PublishJointStates

\* A read.
LEMMA ReadRecovers == ASSUME LineType, RecoverInv, LoopOnce PROVE RecoverInv'
<1>0. stream \in Seq(Parts) /\ buf \in Seq(Parts) /\ Len(stream) \in Nat /\ Len(buf) \in Nat /\ UNCHANGED frames
  BY LenProperties DEF LineType, LoopOnce
<1>1. PICK n \in 1..Len(stream) :
          LET chunk == SubSeq(stream, 1, n)
              one   == chunk = Cells(chunk[1].id)
          IN  /\ GetDataGram(n)
              /\ clean' = IF one THEN clean + 1 ELSE 0
              /\ lastRead' = IF one THEN chunk[1].id ELSE 0
              /\ \E cells \in Headed(Appended(chunk)) : \E complete \in Complete(cells) :
                    IF complete THEN Dispatch(cells) ELSE buf' = cells /\ UNCHANGED <<rx, joints>>
  BY Zenon DEF LoopOnce
<1> DEFINE chunk == SubSeq(stream, 1, n)
<1>2. PICK cells \in Headed(Appended(chunk)) : \E complete \in Complete(cells) :
                    IF complete THEN Dispatch(cells) ELSE buf' = cells /\ UNCHANGED <<rx, joints>>
  BY <1>1
<1>3. PICK complete \in Complete(cells) :
                    IF complete THEN Dispatch(cells) ELSE buf' = cells /\ UNCHANGED <<rx, joints>>
  BY <1>2
<1> DEFINE id == chunk[1].id
<1>4. /\ clean' = IF chunk = Cells(id) THEN clean + 1 ELSE 0
      /\ lastRead' = IF chunk = Cells(id) THEN id ELSE 0
  BY <1>1
<1>5. chunk \in Seq(Parts) /\ Len(chunk) = n /\ \A i \in 1..n : chunk[i] \in Parts
  <2>1. \A i \in 1..Len(stream) : stream[i] \in Parts
    BY <1>0, ElementOfSeq
  <2>2. chunk \in Seq(Parts) /\ Len(chunk) = n
    BY <1>0, <2>1, SubSeqProperties
  <2> QED  BY <2>2, ElementOfSeq
<1>6. id \in 1..Len(frames)
  BY <1>0, <1>5 DEF Parts
<1> HIDE DEF chunk, id
<1>7. CASE chunk # Cells(id)
  BY <1>4, <1>7 DEF RecoverInv
<1>8. CASE chunk = Cells(id) /\ buf = <<>>
  <2>1. buf' = <<>> /\ (IF frames[id] = 0 THEN joints' = id ELSE rx'.answer = frames[id])
    BY <1>3, <1>6, <1>8, OneAccepted
  <2>2. Accepted(lastRead)'
    BY <1>0, <1>4, <1>8, <2>1 DEF Accepted
  <2> QED  BY <1>0, <1>4, <1>6, <1>8, <2>1, <2>2 DEF RecoverInv
<1>9. CASE chunk = Cells(id) /\ buf # <<>>
  <2>1. clean' = clean + 1 /\ lastRead' = id
    BY <1>4, <1>9
  <2>2. Len(buf) >= 1 /\ n = 4
    <3>1. Len(Cells(id)) = 4
      <4>1. \A part \in 1..4 : [id |-> id, part |-> part] \in Parts
        BY <1>6 DEF Parts
      <4> QED  BY <4>1, CellsAre
    <3>2. Len(buf) # 0
      BY <1>0, <1>9, EmptySeq
    <3>3. n = 4
      BY <1>5, <1>9, <3>1
    <3> QED  BY <1>0, <3>2, <3>3
  <2>3. clean \in Nat /\ clean <= Room /\ 4 * clean + 1 <= Len(buf)
    BY <1>0, <1>9, <2>2, RoomIs DEF RecoverInv
  <2>4. buf' = <<>> \/ (buf' = buf \o chunk /\ Len(buf) < Limit)
    BY <1>2 DEF Headed, Appended, Dispatch
  <2>5. CASE buf' = <<>>
    BY <1>0, <1>6, <2>1, <2>3, <2>5, RoomIs DEF RecoverInv
  <2>6. CASE buf' = buf \o chunk /\ Len(buf) < Limit
    <3>1. Len(buf') = Len(buf) + 4
      <4>1. Len(buf \o chunk) = Len(buf) + Len(chunk)
        BY <1>0, <1>5, ConcatProperties
      <4>2. Len(chunk) = 4
        BY <1>5, <2>2
      <4>3. Len(buf') = Len(buf \o chunk)
        BY <2>6
      <4> QED  BY <4>1, <4>2, <4>3
    <3>2. clean + 1 <= Room /\ 4 * (clean + 1) + 1 <= Len(buf')
      BY <1>0, <2>3, <2>6, <3>1, RoomIs, LinkAssumption
    <3>3. buf' # <<>>
      BY <1>0, <3>1
    <3> QED  BY <1>0, <1>6, <2>1, <2>3, <3>2, <3>3 DEF RecoverInv
  <2> QED  BY <2>4, <2>5, <2>6
<1> QED  BY <1>7, <1>8, <1>9

\* Nothing else touches what a read has done.
LEMMA RecoverKept == ASSUME TypeOK, RecoverInv, UNCHANGED <<buf, joints, rx.answer, clean, lastRead>>,
                            Len(frames') >= Len(frames), \A id \in 1..Len(frames) : frames'[id] = frames[id],
                            Len(frames') \in Nat
                     PROVE  RecoverInv'
<1>0. Len(frames) \in Nat
  BY LenProperties DEF TypeOK
<1>1. CASE clean = 0
  BY <1>1 DEF RecoverInv
<1>2. CASE clean # 0
  <2>1. lastRead \in 1..Len(frames) /\ lastRead \in 1..Len(frames') /\ frames'[lastRead] = frames[lastRead]
    BY <1>0, <1>2 DEF RecoverInv
  <2>2. Accepted(lastRead)' <=> Accepted(lastRead)
    BY <2>1 DEF Accepted
  <2> QED  BY <2>1, <2>2 DEF RecoverInv
<1> QED  BY <1>1, <1>2

\* Every step keeps it.
LEMMA NextRecovers == TypeOK /\ RecoverInv /\ [Next]_vars => RecoverInv'
<1> SUFFICES ASSUME TypeOK, RecoverInv, [Next]_vars PROVE RecoverInv'
  OBVIOUS
<1>0. /\ frames \in Seq(0..MaxRequests) /\ Len(frames) \in Nat
      /\ rx \in [pc : {"off", "loop", "speed", "payload", "flag"}, answer : 0..MaxRequests]
  BY LenProperties DEF TypeOK
<1>1. ASSUME UNCHANGED <<buf, joints, rx.answer, clean, lastRead, frames>> PROVE RecoverInv'
  BY <1>0, <1>1, RecoverKept
<1>2. CASE Main
  <2>1. UNCHANGED <<buf, joints, clean, lastRead, frames>>
    BY <1>2 DEF Main, InitDevice, InitArm, StartReceiveSerial, StartupCheck, JointCommand, JointStatesCb, ControlTorque,
                AskServo, PollEnds, CopySpeed, CopyPayload, Copy, rxVars, armVars, history
  <2>2. UNCHANGED rx \/ StartReceiveSerial
    BY <1>2 DEF Main, InitDevice, InitArm, StartupCheck, JointCommand, JointStatesCb, ControlTorque,
                AskServo, PollEnds, CopySpeed, CopyPayload, Copy, rxVars
  <2>3. rx'.answer = rx.answer
    BY <1>0, <2>2 DEF StartReceiveSerial
  <2> QED  BY <1>1, <2>1, <2>3
<1>3. CASE LoopOnce
  BY <1>3, TypeParts, ReadRecovers
<1>4. CASE StoreSpeed \/ StorePayload \/ StoreFlag
  <2>1. UNCHANGED <<buf, joints, clean, lastRead, frames, rx.answer>>
    BY <1>0, <1>4 DEF StoreSpeed, StorePayload, StoreFlag, Store, armVars, history
  <2> QED  BY <1>1, <2>1
<1>5. CASE SendsJoints \/ Answers
  <2>1. UNCHANGED <<buf, joints, clean, lastRead, rx>> /\ \E what : ArmSends(what)
    BY <1>5 DEF SendsJoints, Answers, rxVars, history
  <2>2. \E what : frames' = Append(frames, what)
    BY <2>1 DEF ArmSends
  <2>3. TypeOK'
    BY NextType
  <2>4. frames' \in Seq(0..MaxRequests)
    BY <2>3 DEF TypeOK
  <2>5. Len(frames') = Len(frames) + 1 /\ \A id \in 1..Len(frames) : frames'[id] = frames[id]
    BY <1>0, <2>2, AppendProperties
  <2> QED  BY <1>0, <2>1, <2>5, RecoverKept
<1>6. CASE MovedByHand \/ UNCHANGED vars
  <2>1. UNCHANGED <<buf, joints, clean, lastRead, frames, rx>>
    BY <1>6 DEF MovedByHand, vars, rxVars, armVars, history
  <2> QED  BY <1>1, <2>1
<1> QED
  BY <1>2, <1>3, <1>4, <1>5, <1>6 DEF Next, Receive, Line

\* The parser recovers: whatever noise has left in mFrameBuffer, once so many reads in a row have
\* brought just one whole frame each, the frame read last has been accepted, because a buffer that
\* does not make a frame fills up and is dropped (sdk_sagittarius_arm_common.cpp:194-203).
THEOREM AlwaysRecovers == Spec => []Recovers
<1>1. RecoverInv => Recovers
  <2> SUFFICES ASSUME RecoverInv, clean >= Room + 2 PROVE Accepted(lastRead)
    BY DEF Recovers, Room
  <2> QED  BY RoomIs DEF RecoverInv
<1>2. Init => TypeOK /\ RecoverInv
  <2>1. Init => RecoverInv
    BY DEF Init, RecoverInv
  <2> QED  BY <2>1, InitType
<1>3. TypeOK /\ RecoverInv /\ [Next]_vars => TypeOK' /\ RecoverInv'
  BY NextType, NextRecovers
<1> QED  BY <1>1, <1>2, <1>3, PTL DEF Spec

=============================================================================
