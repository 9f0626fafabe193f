--------------------------- MODULE PlannerProofs ----------------------------
(***************************************************************************)
(* Proofs about Planner, for every set of joints and slider positions and  *)
(* every number of requests.                                               *)
(***************************************************************************)
EXTENDS Planner, TLAPS

-----------------------------------------------------------------------------
(* Types *)

\* The initial state is well typed.
LEMMA InitType == Init => TypeOK
<1> SUFFICES ASSUME Init PROVE TypeOK
  OBVIOUS
<1> USE PlannerAssumption DEF Init, All, Bends, Poses
<1>1. past \in History
  BY DEF History
<1>2. cmdQue \in Seq(Job) /\ Posts \in 0..MaxPosts
  BY DEF Posts
<1> QED  BY <1>1, <1>2 DEF TypeOK, Modes, Pcs

\* What is remembered of a movement is of its type.
LEMMA MovedType == ASSUME TypeOK, NEW good \in BOOLEAN
                   PROVE  /\ Moved(good) \in History
                          /\ Moved(good).taken = past.taken /\ Moved(good).asked = past.asked
<1>1. past.meddled \in BOOLEAN /\ past.late \in Nat
  BY DEF TypeOK, History
<1>2. (past.meddled \/ ~good) \in BOOLEAN
  BY <1>1, Zenon
<1>3. (IF mode = "AUTO" THEN 0 ELSE past.late + 1) \in Nat
  BY <1>1
<1> QED  BY <1>2, <1>3 DEF Moved, TypeOK, History

\* Every way the fingers can end in is one they can be in.
LEMMA GripType == ASSUME TypeOK, NEW g \in {"open", "shut"}, Grip(g)
                  PROVE  hand' \in {"open", "shut", "candy"}
BY DEF Grip, Ends, TypeOK

\* Whether a movement got there is a truth value.
LEMMA EqualsType == ASSUME NEW a, NEW b PROVE (a = b) \in BOOLEAN
BY Zenon

\* So is what is remembered of a request.
LEMMA TakenType == ASSUME NEW p \in History, NEW n \in Nat, NEW a \in Bends, NEW b \in BOOLEAN
                   PROVE  /\ [p EXCEPT !.taken = n, !.meddled = TRUE] \in History
                          /\ [p EXCEPT !.taken = n, !.asked = a, !.ok = b, !.meddled = TRUE] \in History
<1>1. TRUE \in BOOLEAN
  BY Zenon
<1> QED  BY <1>1, Zenon DEF History

\* Every step keeps the types.
LEMMA NextType == TypeOK /\ [Next]_vars => TypeOK'
<1> SUFFICES ASSUME TypeOK, [Next]_vars PROVE TypeOK'
  OBVIOUS
<1> USE PlannerAssumption
<1> DEFINE Counted == past' \in History /\ past'.taken = past.taken
<1>1. ASSUME cmdQue' = cmdQue, Counted
      PROVE  cmdQue' \in Seq(Job) /\ Posts' \in 0..MaxPosts
  BY <1>1 DEF TypeOK, Posts
<1>2. ASSUME NEW job \in Job, Post(job)
      PROVE  TypeOK'
  <2>1. Append(cmdQue, job) \in Seq(Job) /\ Len(Append(cmdQue, job)) = Len(cmdQue) + 1
    BY DEF TypeOK
  <2>2. Len(cmdQue) \in Nat /\ past.taken \in Nat
    BY DEF TypeOK, History
  <2>3. Posts' \in 0..MaxPosts
    BY <1>2, <2>1, <2>2 DEF Post, Posts
  <2> QED  BY <1>2, <2>1, <2>3 DEF Post, TypeOK
<1>3. CASE TakeCandy
  BY <1>1, <1>3 DEF TakeCandy, TypeOK
<1>4. CASE Top
  <2>1. Counted
    BY <1>4 DEF Top, TypeOK, History
  <2> QED  BY <1>1, <1>4, <2>1 DEF Top, Goto, TypeOK, Pcs
<1>5. ASSUME NEW from, NEW pose \in Poses, NEW to \in Pcs, Pose(from, pose, to)
      PROVE  TypeOK'
  <2>1. All(pose) \in Bends /\ All("Astray") \in Bends
    BY DEF All, Bends, Poses
  <2>2. Moved(arm' = target') \in History /\ Moved(arm' = target').taken = past.taken
    BY MovedType, EqualsType, Zenon
  <2>3. past' = [Moved(arm' = target') EXCEPT !.asked = All(pose), !.ok = (arm' = target')]
    BY <1>5 DEF Pose
  <2>4. Counted
    BY <2>1, <2>2, <2>3, EqualsType DEF History
  <2> QED  BY <1>1, <1>5, <2>1, <2>4 DEF Pose, Go, Goto, TypeOK
<1>6. ASSUME NEW from, NEW g \in {"open", "shut"}, NEW to \in Pcs, Fingers(from, g, to)
      PROVE  TypeOK'
  <2>1. Moved(hand' \in Ends(g)) \in History /\ Moved(hand' \in Ends(g)).taken = past.taken
    <3>1. (hand' \in Ends(g)) \in BOOLEAN
      OBVIOUS
    <3> QED  BY <3>1, MovedType, Zenon
  <2>2. Counted
    BY <1>6, <2>1 DEF Fingers
  <2>3. closed' \in BOOLEAN
    BY <1>6, EqualsType, Zenon DEF Fingers
  <2> QED  BY <1>1, <1>6, <2>2, <2>3, GripType DEF Fingers, Goto, TypeOK
<1>7. CASE Released
  <2>1. Counted
    BY <1>7, MovedType, EqualsType, Zenon DEF Released
  <2> QED  BY <1>1, <1>7, <2>1, GripType DEF Released, TypeOK, Pcs
<1>8. CASE WaitCandy \/ WaitTaken
  BY <1>1, <1>8 DEF WaitCandy, WaitTaken, Goto, TypeOK, Pcs
<1>9. CASE Looks
  BY <1>1, <1>9 DEF Looks, Call, Goto, TypeOK, Pcs
<1>10. CASE QueueEmpty
  BY <1>1, <1>10 DEF QueueEmpty, Goto, TypeOK, Pcs
<1>11. ASSUME Took, past' \in History, past'.taken = past.taken + 1
       PROVE  cmdQue' \in Seq(Job) /\ Posts' \in 0..MaxPosts
  <2>1. cmdQue' \in Seq(Job) /\ Len(cmdQue') = Len(cmdQue) - 1 /\ Len(cmdQue) \in Nat
    BY <1>11 DEF Took, TypeOK
  <2> QED  BY <1>11, <2>1 DEF TypeOK, Posts, History
<1>12. ASSUME Took
       PROVE  Job1 \in Job
  BY <1>12 DEF Took, Job1, TypeOK
<1>13. CASE HandleJoint
  <2>1. Took /\ Job1.kind \in Joints /\ Job1.to # Outside
    BY <1>13 DEF HandleJoint
  <2>2. Job1.to \in Angles
    BY <1>12, <2>1 DEF Job
  <2>3. target' \in Bends /\ arm' \in Bends
    <3>1. [target EXCEPT ![Job1.kind] = Job1.to] \in Bends /\ All("Astray") \in Bends
      BY <2>1, <2>2 DEF TypeOK, Bends, All, Poses
    <3> QED  BY <1>13, <3>1 DEF HandleJoint, Go, Base, TypeOK
  <2>4. past' \in History /\ past'.taken = past.taken + 1
    <3>1. past \in History /\ [past.asked EXCEPT ![Job1.kind] = Job1.to] \in Bends
      BY <2>1, <2>2 DEF TypeOK, History, Bends
    <3>2. past' = [past EXCEPT !.taken = past.taken + 1, !.asked = [past.asked EXCEPT ![Job1.kind] = Job1.to],
                               !.ok = (arm' = target'), !.meddled = TRUE]
      BY <1>13, <3>1 DEF HandleJoint, History
    <3>3. past'.taken = past.taken + 1 /\ past.taken + 1 \in Nat
      BY <3>1, <3>2 DEF History
    <3> QED  BY <3>1, <3>2, <3>3, TakenType, EqualsType, Zenon
  <2> QED  BY <1>11, <1>13, <2>1, <2>3, <2>4 DEF HandleJoint, TypeOK
<1>14. CASE RefuseJoint
  <2>1. past' \in History /\ past'.taken = past.taken + 1
    BY <1>14 DEF RefuseJoint, TypeOK, History
  <2> QED  BY <1>11, <1>14, <2>1 DEF RefuseJoint, Goto, TypeOK, Pcs
<1>15. CASE HandleGripper
  <2>1. past' \in History /\ past'.taken = past.taken + 1
    <3>1. past \in History /\ past.asked \in Bends /\ TRUE \in BOOLEAN
      BY DEF TypeOK, History
    <3>2. past' = [past EXCEPT !.taken = past.taken + 1, !.meddled = TRUE]
      BY <1>15, <3>1 DEF HandleGripper, History
    <3>3. past'.taken = past.taken + 1 /\ past.taken + 1 \in Nat
      BY <3>1, <3>2 DEF History
    <3> QED  BY <3>1, <3>2, <3>3, TakenType, Zenon
  <2>2. Job1.to \in {"open", "shut"}
    BY <1>12, <1>15 DEF HandleGripper, Job
  <2> QED  BY <1>11, <1>15, <2>1, <2>2, GripType DEF HandleGripper, TypeOK
<1>16. CASE ChangeMode
  <2>1. past' \in History /\ past'.taken = past.taken + 1
    BY <1>16 DEF ChangeMode, TypeOK, History
  <2>2. Job1.to \in Modes
    BY <1>12, <1>16 DEF ChangeMode, Job
  <2> QED  BY <1>11, <1>16, <2>1, <2>2 DEF ChangeMode, TypeOK
<1>17. CASE UNCHANGED vars
  BY <1>17 DEF vars, TypeOK, Posts
<1> QED
  BY <1>2, <1>3, <1>4, <1>5, <1>6, <1>7, <1>8, <1>9, <1>10, <1>13, <1>14, <1>15, <1>16, <1>17
     DEF Next, Main, Cycle, handleQueue, Pcs, Poses

\* The deque holds requests of the page and no more of them than were posted,
\* every joint has an angle, the program is at one of its places.
THEOREM PlannerTypes == Spec => []TypeOK
BY InitType, NextType, PTL DEF Spec

-----------------------------------------------------------------------------
(* Sliders *)

\* The target is what was asked for, whether or not the arm has got there.
TargetInv == target = past.asked /\ SlidersAddUp

\* At the start nothing has moved.
LEMMA InitTarget == Init => TargetInv
BY DEF Init, TargetInv, SlidersAddUp

\* Only poses and sliders move the arm, and both write down what they ask for.
LEMMA NextTarget == TypeOK /\ TargetInv /\ [Next]_vars => TargetInv'
<1> SUFFICES ASSUME TypeOK, TargetInv, [Next]_vars PROVE TargetInv'
  OBVIOUS
<1> USE DEF TargetInv, SlidersAddUp, TypeOK, Bends, History
<1>1. ASSUME NEW from, NEW pose, NEW to, Pose(from, pose, to)
      PROVE  TargetInv'
  BY <1>1 DEF Pose, Go, Moved
<1>2. CASE HandleJoint
  BY <1>2 DEF HandleJoint, Go, Base
<1>3. ASSUME NEW from, NEW g, NEW to, Fingers(from, g, to)
      PROVE  TargetInv'
  BY <1>3 DEF Fingers, Moved
<1>4. CASE Top \/ Released
  BY <1>4 DEF Top, Released, Moved
<1>5. CASE WaitCandy \/ WaitTaken \/ Looks \/ QueueEmpty \/ TakeCandy \/ \E job \in Job : Post(job)
  BY <1>5 DEF WaitCandy, WaitTaken, Looks, QueueEmpty, TakeCandy, Post
<1>6. CASE RefuseJoint \/ HandleGripper \/ ChangeMode
  BY <1>6 DEF RefuseJoint, HandleGripper, ChangeMode
<1>7. CASE UNCHANGED vars
  BY <1>7 DEF vars
<1> QED
  BY <1>1, <1>2, <1>3, <1>4, <1>5, <1>6, <1>7 DEF Next, Main, Cycle, handleQueue

\* After a movement that succeeds every joint stands where a slider or a pose
\* last told it to, also if movements before it have failed.
THEOREM SlidersAlwaysAddUp == Spec => []SlidersAddUp
<1>1. TargetInv => SlidersAddUp
  BY DEF TargetInv
<1> QED  BY <1>1, InitType, NextType, InitTarget, NextTarget, PTL DEF Spec

-----------------------------------------------------------------------------
(* The end of a cycle *)

\* The cycle goes on only in mode 1 where it starts and where it waits for a candy or a person.
AutoOnly(pc) == pc \in {"sleep", "release first", "pick", "grab", "reopen", "regrab", "hold on"}

\* How many movements since mode 1 was left there can be at each place.
Allowed == [pc \in Pcs |->
    CASE pc \in {"sleep", "release first", "pick", "grab", "caught?", "reopen", "regrab", "look 1", "lift",
                 "look 2"} -> 0
      [] pc = "place" -> 1
      [] pc = "hold" -> 2
      [] pc \in {"taken?", "hold on", "release"} -> 3
      [] OTHER -> 4]

\* The deque is handled on behalf of the place the program goes back to.
Late  == past.late
Place == IF main.pc = "queue" THEN main.back ELSE main.pc

LateInv == (AutoOnly(Place) => mode = "AUTO") /\ Late <= Allowed[Place]

\* The bounds, place by place.
LEMMA AllowedType == Allowed \in [Pcs -> 0..4]
BY DEF Allowed
LEMMA AllowedValues ==
    /\ Allowed["lift"] = 0 /\ Allowed["caught?"] = 0 /\ Allowed["place"] = 1 /\ Allowed["hold"] = 2
    /\ Allowed["taken?"] = 3 /\ Allowed["release"] = 3 /\ Allowed["end"] = 4 /\ Allowed["top"] = 4
    /\ Allowed["look 2"] = 0 /\ Allowed["look 1"] = 0 /\ Allowed["off"] = 4
BY DEF Allowed, Pcs

\* The place is one of the program's and the movements are counted.
LEMMA PlaceType == TypeOK => Place \in Pcs /\ Late \in Nat
BY DEF TypeOK, History, Place, Late, Pcs

\* At the start no movement has been made.
LEMMA InitLate == Init => LateInv
<1> SUFFICES ASSUME Init PROVE LateInv
  OBVIOUS
<1>1. Place = "top" /\ Late = 0
  BY DEF Init, Place, Late
<1>2. Allowed["top"] = 4 /\ ~AutoOnly("top")
  BY AllowedValues, Zenon DEF AutoOnly
<1> QED  BY <1>1, <1>2 DEF LateInv

\* A step that is no movement may go where no less is allowed.
LEMMA StayLate == ASSUME TypeOK, TypeOK', LateInv, Late' = Late, AutoOnly(Place') => mode' = "AUTO",
                         Allowed[Place] <= Allowed[Place']
                  PROVE  LateInv'
<1>1. Place \in Pcs /\ Place' \in Pcs /\ Late \in Nat
  BY PlaceType DEF TypeOK, Place, Pcs
<1>2. Late' <= Allowed[Place']
  BY <1>1, AllowedType DEF LateInv
<1> QED  BY <1>2 DEF LateInv

\* A movement adds one, but in mode 1.
LEMMA MoveLate == ASSUME TypeOK, LateInv, NEW from \in Pcs, NEW to \in Pcs, Place = from, Place' = to, mode' = mode,
                         Late' = (IF mode = "AUTO" THEN 0 ELSE Late + 1),
                         AutoOnly(from) \/ (~AutoOnly(to) /\ Allowed[from] < Allowed[to])
                  PROVE  LateInv'
<1>1. Late \in Nat
  BY PlaceType
<1>2. CASE mode = "AUTO"
  BY <1>2, AllowedType DEF LateInv
<1>3. CASE mode # "AUTO"
  <2>1. ~AutoOnly(from) /\ Late <= Allowed[from]
    BY <1>3 DEF LateInv
  <2>2. Late' = Late + 1 /\ Allowed[from] < Allowed[to]
    BY <1>3, <2>1
  <2>3. Late' <= Allowed[to]
    BY <1>1, <2>1, <2>2, AllowedType
  <2> QED  BY <2>1, <2>3 DEF LateInv
<1> QED  BY <1>2, <1>3

\* Moving the arm or the fingers and going on is such a movement.
LEMMA PoseLate == ASSUME TypeOK, LateInv, NEW from \in Pcs, NEW to \in Pcs, NEW pose, Pose(from, pose, to),
                         from # "queue", to # "queue",
                         AutoOnly(from) \/ (~AutoOnly(to) /\ Allowed[from] < Allowed[to])
                  PROVE  LateInv'
<1>1. Late' = (IF mode = "AUTO" THEN 0 ELSE Late + 1) /\ mode' = mode
  BY DEF Pose, Moved, TypeOK, History, Late
<1>2. Place = from /\ Place' = to
  BY DEF Pose, At, Goto, Place, TypeOK
<1> QED  BY <1>1, <1>2, MoveLate
LEMMA FingersLate == ASSUME TypeOK, LateInv, NEW from \in Pcs, NEW to \in Pcs, NEW g, Fingers(from, g, to),
                            from # "queue", to # "queue",
                            AutoOnly(from) \/ (~AutoOnly(to) /\ Allowed[from] < Allowed[to])
                     PROVE  LateInv'
<1>1. Late' = (IF mode = "AUTO" THEN 0 ELSE Late + 1) /\ mode' = mode
  BY DEF Fingers, Moved, TypeOK, History, Late
<1>2. Place = from /\ Place' = to
  BY DEF Fingers, At, Goto, Place, TypeOK
<1> QED  BY <1>1, <1>2, MoveLate

\* Every step stays within the bound of the place it leads to.
LEMMA NextLate == TypeOK /\ LateInv /\ [Next]_vars => LateInv'
<1> SUFFICES ASSUME TypeOK, LateInv, [Next]_vars PROVE LateInv'
  OBVIOUS
<1>0. /\ main \in [pc : Pcs, back : {"top", "caught?", "taken?"}, slept : BOOLEAN]
      /\ past \in History /\ TypeOK'
  BY NextType DEF TypeOK
<1>1. CASE Top
  <2>1. Late' = 0
    BY <1>0, <1>1 DEF Top, History, Late
  <2>2. Place' = "end" \/ mode' = "AUTO"
    BY <1>0, <1>1 DEF Top, Goto, Place
  <2>3. AutoOnly(Place') => mode' = "AUTO"
    BY <2>2 DEF AutoOnly
  <2>4. Place' \in Pcs
    BY <1>0 DEF TypeOK, Place, Pcs
  <2> QED  BY <2>1, <2>3, <2>4, AllowedType DEF LateInv
<1>2. CASE Pose("sleep", "Sleep", "release first") \/ Pose("pick", "Pick", "grab")
  BY <1>2, PoseLate DEF AutoOnly, Pcs
<1>3. CASE Pose("lift", "Lift", "place") \/ Pose("place", "Place", "hold")
  <2>1. Allowed["lift"] = 0 /\ Allowed["place"] = 1 /\ Allowed["hold"] = 2
    BY AllowedValues
  <2>2. ~AutoOnly("place") /\ ~AutoOnly("hold") /\ {"lift", "place", "hold"} \subseteq Pcs
    BY DEF AutoOnly, Pcs
  <2>3. Allowed["lift"] < Allowed["place"] /\ Allowed["place"] < Allowed["hold"]
    BY <2>1
  <2> QED  BY <1>3, <2>2, <2>3, PoseLate
<1>4. CASE \/ Fingers("grab", "shut", "caught?") \/ Fingers("reopen", "open", "regrab")
           \/ Fingers("regrab", "shut", "look 1") \/ Fingers("hold on", "shut", "look 2")
  BY <1>4, FingersLate DEF AutoOnly, Pcs
<1>5. CASE Fingers("hold", "shut", "taken?") \/ Fingers("release", "open", "end")
  <2>1. Allowed["hold"] = 2 /\ Allowed["taken?"] = 3 /\ Allowed["release"] = 3 /\ Allowed["end"] = 4
    BY AllowedValues
  <2>2. ~AutoOnly("taken?") /\ ~AutoOnly("end") /\ {"hold", "taken?", "release", "end"} \subseteq Pcs
    BY DEF AutoOnly, Pcs
  <2>3. Allowed["hold"] < Allowed["taken?"] /\ Allowed["release"] < Allowed["end"]
    BY <2>1
  <2> QED  BY <1>5, <2>2, <2>3, FingersLate
<1>6. CASE Released
  <2>1. Late' = (IF mode = "AUTO" THEN 0 ELSE Late + 1) /\ mode' = mode
    BY <1>0, <1>6 DEF Released, Moved, History, Late
  <2>2. Place = "release first" /\ Place' = "pick"
    BY <1>0, <1>6 DEF Released, At, Place
  <2> QED  BY <2>1, <2>2, MoveLate DEF AutoOnly, Pcs
<1>7. ASSUME WaitCandy
      PROVE  LateInv'
  <2>1. Place = "caught?" /\ (Place' = "lift" \/ (Place' = "reopen" /\ mode' = "AUTO"))
    BY <1>0, <1>7 DEF WaitCandy, At, Goto, Place, Caught
  <2>2. Late' = Late
    BY <1>7 DEF WaitCandy, Late
  <2>3. Allowed["caught?"] <= Allowed["lift"] /\ Allowed["caught?"] <= Allowed["reopen"]
    BY DEF Allowed, Pcs
  <2>4. (AutoOnly(Place') => mode' = "AUTO") /\ Allowed[Place] <= Allowed[Place']
    BY <2>1, <2>3 DEF AutoOnly
  <2> QED  BY <1>0, <2>2, <2>4, StayLate
<1>8. ASSUME WaitTaken
      PROVE  LateInv'
  <2>1. Place = "taken?" /\ (Place' = "release" \/ (Place' = "hold on" /\ mode' = "AUTO"))
    BY <1>0, <1>8 DEF WaitTaken, At, Goto, Place, Given
  <2>2. Late' = Late
    BY <1>8 DEF WaitTaken, Late
  <2>3. Allowed["taken?"] <= Allowed["release"] /\ Allowed["taken?"] <= Allowed["hold on"]
    BY DEF Allowed, Pcs
  <2>4. (AutoOnly(Place') => mode' = "AUTO") /\ Allowed[Place] <= Allowed[Place']
    BY <2>1, <2>3 DEF AutoOnly
  <2> QED  BY <1>0, <2>2, <2>4, StayLate
\* From a look at the deque the program returns to where it looked from.
<1>9. ASSUME Looks
      PROVE  LateInv'
  <2>1. Late' = Late
    BY <1>9 DEF Looks, Late
  <2>2. \/ Place = "look 1" /\ Place' = "caught?"
        \/ Place = "look 2" /\ Place' = "taken?"
        \/ Place = "end" /\ Place' = "top"
        \/ Place = "end" /\ Place' = "off"
    <3>0. ASSUME NEW back, Call(back)
          PROVE  Place' = back
      <4>1. main'.pc = "queue" /\ main'.back = back
        BY <1>0, <3>0 DEF Call
      <4> QED  BY <4>1 DEF Place
    <3>1. CASE At("look 1") /\ Call("caught?")
      BY <3>0, <3>1 DEF At, Place
    <3>2. CASE At("look 2") /\ Call("taken?")
      BY <3>0, <3>2 DEF At, Place
    <3>3. CASE At("end") /\ Call("top")
      BY <3>0, <3>3 DEF At, Place
    <3>4. CASE At("end") /\ Goto("off")
      BY <1>0, <3>4 DEF Goto, At, Place
    <3> QED  BY <1>9, <3>1, <3>2, <3>3, <3>4, Zenon DEF Looks
  <2>3. /\ Allowed["look 1"] <= Allowed["caught?"] /\ Allowed["look 2"] <= Allowed["taken?"]
        /\ Allowed["end"] <= Allowed["top"] /\ Allowed["end"] <= Allowed["off"]
    BY DEF Allowed, Pcs
  <2>4. ~AutoOnly(Place') /\ Allowed[Place] <= Allowed[Place']
    BY <2>2, <2>3 DEF AutoOnly
  <2> QED  BY <1>0, <2>1, <2>4, StayLate
<1>10. ASSUME Place' = Place \/ Place' = "off", mode' = mode \/ main.pc = "queue", Late' = Late
       PROVE  LateInv'
  <2>1. AutoOnly(Place) => main.pc # "queue"
    BY <1>0 DEF Place, AutoOnly
  <2>2. AutoOnly(Place') => mode' = "AUTO"
    BY <1>10, <2>1 DEF LateInv, AutoOnly
  <2>3. Allowed[Place] <= Allowed[Place']
    <3>1. Place \in Pcs /\ Allowed["off"] = 4
      BY PlaceType DEF Allowed, Pcs
    <3>2. Allowed[Place] \in 0..4
      BY <3>1, AllowedType
    <3>3. CASE Place' = Place
      BY <3>2, <3>3
    <3>4. CASE Place' = "off"
      BY <3>1, <3>2, <3>4
    <3> QED  BY <1>10, <3>3, <3>4
  <2> QED  BY <1>0, <1>10, <2>2, <2>3, StayLate
<1>11. CASE QueueEmpty
  <2>1. Place' = Place
    BY <1>0, <1>11 DEF QueueEmpty, At, Goto, Place
  <2> QED  BY <1>10, <1>11, <2>1 DEF QueueEmpty, Late
<1>12. CASE HandleJoint \/ RefuseJoint \/ HandleGripper \/ ChangeMode
  <2>1. Late' = Late
    BY <1>0, <1>12 DEF HandleJoint, RefuseJoint, HandleGripper, ChangeMode, History, Late
  <2>2. main.pc = "queue" /\ (Place' = Place \/ Place' = "off")
    BY <1>0, <1>12 DEF HandleJoint, RefuseJoint, HandleGripper, ChangeMode, Took, At, Goto, Place
  <2> QED  BY <1>10, <2>1, <2>2
<1>13. CASE TakeCandy \/ (\E job \in Job : Post(job)) \/ UNCHANGED vars
  <2>1. UNCHANGED <<main, mode, past>>
    BY <1>13 DEF TakeCandy, Post, vars
  <2> QED  BY <1>10, <2>1 DEF Place, Late
<1> QED
  BY <1>1, <1>2, <1>3, <1>4, <1>5, <1>6, <1>7, <1>8, <1>9, <1>11, <1>12, <1>13
     DEF Next, Main, Cycle, handleQueue

\* Stop and Exit end the cycle after at most four movements, and nobody's
\* candy or hand is waited for.
THEOREM StopAlwaysEndsCycle == Spec => []StopEndsCycle
<1>1. TypeOK /\ LateInv => StopEndsCycle
  <2> SUFFICES ASSUME TypeOK, LateInv PROVE Late <= 4
    BY DEF StopEndsCycle, Late
  <2> QED  BY PlaceType, AllowedType DEF LateInv
<1> QED  BY <1>1, InitType, NextType, InitLate, NextLate, PTL DEF Spec

-----------------------------------------------------------------------------
(* The candy *)

\* The arm stays at the pick pose while it tries to get a candy, so that nobody takes it
\* there; what the look at the fingers said is still true unless somebody meddled.
Trying == main.pc \in {"caught?", "look 1"} \/ (main.pc = "queue" /\ main.back = "caught?")
CandyInv ==
    /\ Trying \/ main.pc \in {"grab", "reopen", "regrab", "lift"} => arm = All("Pick") \/ past.meddled
    /\ main.pc = "place" => arm = All("Lift") \/ past.meddled
    /\ Trying => closed \/ hand = "candy" \/ past.meddled
    /\ CarriesCandy

\* The three poses differ, since the arm has a joint.
LEMMA PosesDiffer == All("Pick") # All("Place") /\ All("Lift") # All("Place")
<1> PICK j \in Joints : TRUE
  BY PlannerAssumption
<1>1. All("Pick")[j] = "Pick" /\ All("Lift")[j] = "Lift" /\ All("Place")[j] = "Place"
  BY DEF All
<1> QED  BY <1>1

\* At the start no cycle is under way.
LEMMA InitCandy == Init => CandyInv
BY DEF Init, CandyInv, Trying, CarriesCandy

\* Only a look at closed fingers lets the cycle go on in mode 1; whatever could
\* open them or move the arm after that look is remembered.
LEMMA NextCandy == TypeOK /\ LateInv /\ CandyInv /\ [Next]_vars => CandyInv'
<1> SUFFICES ASSUME TypeOK, LateInv, CandyInv, [Next]_vars PROVE CandyInv'
  OBVIOUS
<1> USE DEF TypeOK, History, CandyInv, Trying, CarriesCandy, At, Goto
<1>1. CASE Top
  BY <1>1 DEF Top
<1>2. CASE Pose("sleep", "Sleep", "release first") \/ Pose("place", "Place", "hold")
  BY <1>2 DEF Pose, Moved
<1>3. CASE Pose("pick", "Pick", "grab") \/ Pose("lift", "Lift", "place")
  BY <1>3 DEF Pose, Go, Moved
<1>4. CASE Fingers("grab", "shut", "caught?") \/ Fingers("regrab", "shut", "look 1")
  BY <1>4 DEF Fingers, Grip, Ends, Moved
<1>5. CASE Fingers("reopen", "open", "regrab")
  BY <1>5 DEF Fingers, Moved
<1>6. CASE \/ Fingers("hold", "shut", "taken?") \/ Fingers("hold on", "shut", "look 2")
           \/ Fingers("release", "open", "end")
  BY <1>6 DEF Fingers, Moved
<1>7. CASE Released
  BY <1>7, PosesDiffer DEF Released, Moved
<1>8. CASE WaitCandy \/ WaitTaken
  BY <1>8 DEF WaitCandy, WaitTaken, Caught, Given
<1>9. CASE Looks
  BY <1>9 DEF Looks, Call
<1>10. CASE QueueEmpty
  BY <1>10 DEF QueueEmpty
<1>11. CASE HandleJoint \/ RefuseJoint \/ HandleGripper \/ ChangeMode
  BY <1>11 DEF HandleJoint, RefuseJoint, HandleGripper, ChangeMode, Took
<1>12. CASE TakeCandy
  BY <1>12, PosesDiffer DEF TakeCandy
<1>13. CASE (\E job \in Job : Post(job)) \/ UNCHANGED vars
  BY <1>13 DEF Post, vars
<1> QED
  BY <1>1, <1>2, <1>3, <1>4, <1>5, <1>6, <1>7, <1>8, <1>9, <1>10, <1>11, <1>12, <1>13
     DEF Next, Main, Cycle, handleQueue

\* In mode 1 the arm sets out for the hand-over only with a candy in its fingers,
\* unless somebody meddled with the cycle.
THEOREM AlwaysCarriesCandy == Spec => []CarriesCandy
<1>1. CandyInv => CarriesCandy
  BY DEF CandyInv
<1> QED  BY <1>1, InitType, NextType, InitLate, NextLate, InitCandy, NextCandy, PTL DEF Spec
=============================================================================
