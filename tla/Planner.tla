------------------------------- MODULE Planner -------------------------------
(***************************************************************************)
(* The MoveIt planner node (planner.py) and its web server (WebServer.py): *)
(* requests of the web page are put in a deque by the server's threads and *)
(* handled by the main thread, which runs the pick and hand-over cycle in  *)
(* mode 1 and looks at the deque between two cycles and while it waits in  *)
(* one.  A movement is one action; it may fail, which nobody notices.      *)
(* Angles are reduced to what commanded them: a pose or a slider.          *)
(***************************************************************************)
EXTENDS Naturals, Sequences

CONSTANTS
    Joints,   \* of the arm, the gripper excluded
    Angles,   \* positions of a slider that are within the joint's limits
    MaxPosts  \* bound: requests of the web page

ASSUME PlannerAssumption == Joints # {} /\ Joints \cap {"mode", "gripper"} = {} /\ MaxPosts \in Nat

VARIABLES
    cmdQue,  \* the deque
    mode,    \* local_loopType: LoopState of main.js
    main,    \* where the main thread is, where handleQueue returns to, ii
    target,  \* of the arm's move_group: the angle of each joint
    arm,     \* the angles themselves
    hand,    \* "open", "shut" or with a "candy" between the fingers
    closed,  \* joint_gripper_current < -0.027, as it was last read
    past     \* history: requests taken, angles asked for last, whether the last movement of the arm
             \* succeeded, interventions in this cycle, movements of it since mode 1 was left

vars == <<cmdQue, mode, main, target, arm, hand, closed, past>>

Modes == {"STOP", "AUTO", "MANUAL", "EXIT"}
Poses == {"Home", "Sleep", "Pick", "Lift", "Place", "Astray"}
Outside == "outside"   \* past the limits: the sliders of the page reach a little further
All(a)  == [j \in Joints |-> a]

Job == [kind : {"mode"}, to : Modes] \cup [kind : {"gripper"}, to : {"open", "shut"}]
       \cup [kind : Joints, to : Angles \cup {Outside}]

Init ==
    /\ cmdQue = <<>> /\ mode = "STOP"
    /\ main = [pc |-> "top", back |-> "top", slept |-> FALSE]
    /\ target = All("Home") /\ arm = All("Astray") /\ hand = "open" /\ closed = FALSE
    /\ past = [taken |-> 0, asked |-> All("Home"), ok |-> FALSE, meddled |-> FALSE, late |-> 0]

At(pc)   == main.pc = pc
Goto(pc) == main' = [main EXCEPT !.pc = pc]

-----------------------------------------------------------------------------
(* The web server and the person at the arm. *)

Posts == past.taken + Len(cmdQue)

Post(job) ==
    /\ main.pc # "off" /\ Posts < MaxPosts
    /\ cmdQue' = Append(cmdQue, job)
    /\ UNCHANGED <<mode, main, target, arm, hand, closed, past>>

\* The candy is taken out of the fingers, which stay where they are.
TakeCandy ==
    /\ hand = "candy" /\ arm = All("Place") /\ hand' = "open"
    /\ UNCHANGED <<cmdQue, mode, main, target, arm, closed, past>>

-----------------------------------------------------------------------------
(* Movements: go() either gets there, does not set out, or stops on the way. *)

Go(t) == target' = t /\ arm' \in {t, arm, All("Astray")}

\* Closing takes the candy that is there, at the pick pose; it may miss.
Ends(to) == CASE to = "open"      -> {"open"}
              [] hand = "candy"   -> {"candy"}
              [] arm = All("Pick") -> {"shut", "candy"}
              [] OTHER            -> {"shut"}
Grip(to) == hand' \in Ends(to) \cup {hand}

\* What is remembered of a movement of the cycle: was it as intended?
Moved(good) == [past EXCEPT !.meddled = @ \/ ~good, !.late = IF mode = "AUTO" THEN 0 ELSE @ + 1]

Pose(from, pose, to) ==
    /\ At(from) /\ Go(All(pose)) /\ Goto(to)
    /\ past' = [Moved(arm' = target') EXCEPT !.asked = All(pose), !.ok = arm' = target']
    /\ UNCHANGED <<cmdQue, mode, hand, closed>>
Fingers(from, g, to) ==
    /\ At(from) /\ Grip(g) /\ Goto(to)
    /\ past' = Moved(hand' \in Ends(g))
    /\ closed' = (hand' = "shut")
    /\ UNCHANGED <<cmdQue, mode, target, arm>>

-----------------------------------------------------------------------------
(* main *)

Top ==
    /\ At("top")
    /\ IF mode = "AUTO" THEN Goto(IF main.slept THEN "pick" ELSE "sleep") ELSE Goto("end")
    /\ past' = [past EXCEPT !.meddled = FALSE, !.late = 0]
    /\ UNCHANGED <<cmdQue, mode, target, arm, hand, closed>>

Released ==
    /\ At("release first") /\ Grip("open") /\ past' = Moved(hand' = "open")
    /\ main' = [main EXCEPT !.pc = "pick", !.slept = TRUE]
    /\ UNCHANGED <<cmdQue, mode, target, arm, closed>>

Call(back) == main' = [main EXCEPT !.pc = "queue", !.back = back]

\* While nothing was caught: open and close again, then look at the deque.
Caught == ~closed \/ mode # "AUTO"
WaitCandy ==
    /\ At("caught?") /\ Goto(IF Caught THEN "lift" ELSE "reopen")
    /\ UNCHANGED <<cmdQue, mode, target, arm, hand, closed, past>>

\* Mutant: only the person ends the waiting.
GivenWaits == closed

\* Until the candy is taken: close again, then look at the deque.
Given == closed \/ mode # "AUTO"
WaitTaken ==
    /\ At("taken?") /\ Goto(IF Given THEN "release" ELSE "hold on")
    /\ UNCHANGED <<cmdQue, mode, target, arm, hand, closed, past>>

\* Mutants: one retry only; the deque is not looked at while a person is waited for.
LooksOnce ==
    /\ \/ At("look 1") /\ Call("lift")
       \/ At("look 2") /\ Call("taken?")
       \/ At("end") /\ mode # "EXIT" /\ Call("top")
       \/ At("end") /\ mode = "EXIT" /\ Goto("off")
    /\ UNCHANGED <<cmdQue, mode, target, arm, hand, closed, past>>
LooksBetween ==
    /\ \/ At("look 1") /\ Call("caught?")
       \/ At("look 2") /\ Goto("taken?")
       \/ At("end") /\ mode # "EXIT" /\ Call("top")
       \/ At("end") /\ mode = "EXIT" /\ Goto("off")
    /\ UNCHANGED <<cmdQue, mode, target, arm, hand, closed, past>>

Looks ==
    /\ \/ At("look 1") /\ Call("caught?")
       \/ At("look 2") /\ Call("taken?")
       \/ At("end") /\ mode # "EXIT" /\ Call("top")
       \/ At("end") /\ mode = "EXIT" /\ Goto("off")
    /\ UNCHANGED <<cmdQue, mode, target, arm, hand, closed, past>>

Cycle ==
    \/ Pose("sleep", "Sleep", "release first") \/ Released
    \/ Pose("pick", "Pick", "grab") \/ Fingers("grab", "shut", "caught?")
    \/ WaitCandy \/ Fingers("reopen", "open", "regrab") \/ Fingers("regrab", "shut", "look 1")
    \/ Pose("lift", "Lift", "place") \/ Pose("place", "Place", "hold") \/ Fingers("hold", "shut", "taken?")
    \/ WaitTaken \/ Fingers("hold on", "shut", "look 2")
    \/ Fingers("release", "open", "end")

-----------------------------------------------------------------------------
(* handleQueue: takes tasks until there are none. *)

Job1 == Head(cmdQue)
Took == cmdQue # <<>> /\ At("queue") /\ cmdQue' = Tail(cmdQue)

QueueEmpty ==
    /\ At("queue") /\ cmdQue = <<>> /\ Goto(main.back)
    /\ UNCHANGED <<cmdQue, mode, target, arm, hand, closed, past>>

\* Mutant: the angle replaces that of the joint as it stands.
BaseOfArm == arm

\* The joint's new angle replaces the old one in the target, reached or not.
Base == target
HandleJoint ==
    /\ Took /\ Job1.kind \in Joints /\ Job1.to # Outside
    /\ Go([Base EXCEPT ![Job1.kind] = Job1.to])
    /\ past' = [past EXCEPT !.taken = @ + 1, !.asked[Job1.kind] = Job1.to,
                            !.ok = arm' = target', !.meddled = TRUE]
    /\ UNCHANGED <<mode, main, hand, closed>>

\* set_joint_value_target refuses the target with an exception, which ends main.
RefuseJoint ==
    /\ Took /\ Job1.kind \in Joints /\ Job1.to = Outside /\ Goto("off")
    /\ past' = [past EXCEPT !.taken = @ + 1]
    /\ UNCHANGED <<mode, target, arm, hand, closed>>

HandleGripper ==
    /\ Took /\ Job1.kind = "gripper"
    /\ Grip(Job1.to)
    /\ past' = [past EXCEPT !.taken = @ + 1, !.meddled = TRUE]
    /\ UNCHANGED <<mode, main, target, arm, closed>>

ChangeMode ==
    /\ Took /\ Job1.kind = "mode" /\ mode' = Job1.to
    /\ past' = [past EXCEPT !.taken = @ + 1]
    /\ UNCHANGED <<main, target, arm, hand, closed>>

handleQueue == QueueEmpty \/ HandleJoint \/ RefuseJoint \/ HandleGripper \/ ChangeMode

-----------------------------------------------------------------------------
Main == Top \/ Cycle \/ Looks \/ handleQueue
Next == Main \/ TakeCandy \/ \E job \in Job : Post(job)

Spec == Init /\ [][Next]_vars
\* MoveIt's calls return; nobody has to take the candy.
FairSpec == Spec /\ WF_vars(Main)

-----------------------------------------------------------------------------
Pcs == {"top", "sleep", "release first", "pick", "grab", "caught?", "reopen", "regrab", "look 1",
        "lift", "place", "hold", "taken?", "hold on", "look 2", "release", "end", "queue", "off"}
Bends   == [Joints -> Poses \cup Angles]
History == [taken : Nat, asked : Bends, ok : BOOLEAN, meddled : BOOLEAN, late : Nat]

TypeOK ==
    /\ cmdQue \in Seq(Job) /\ Posts \in 0..MaxPosts /\ mode \in Modes
    /\ main \in [pc : Pcs, back : {"top", "caught?", "taken?"}, slept : BOOLEAN]
    /\ target \in Bends /\ arm \in Bends /\ past \in History
    /\ hand \in {"open", "shut", "candy"} /\ closed \in BOOLEAN

\* The arm sets out for the hand-over with a candy in its fingers, although the look at them is
\* older than the requests handled since (planner.py:611-629).  Excepted are cycles in which
\* a slider was moved, a movement failed or mode 1 was left.
CarriesCandy == main.pc \in {"lift", "place"} /\ mode = "AUTO" => hand = "candy" \/ past.meddled

\* Once taken from the queue, Stop and Exit do not wait for a candy or a person: of a cycle that
\* has begun at most the lift, the way to the hand-over, a grip and the release follow (planner.py:612, 635).
StopEndsCycle == past.late <= 4

\* Sliders add up: after a movement that succeeds every joint stands where it was last told to,
\* by a slider or a pose, also if earlier movements failed (planner.py:557-559).
SlidersAddUp == past.ok => arm = past.asked

\* Every request is handled sooner or later, also while the arm waits for a candy or a person
\* and none comes, unless the program ends.
RequestsHandled == \A n \in 1..MaxPosts : Posts >= n ~> past.taken >= n \/ At("off")
=============================================================================
