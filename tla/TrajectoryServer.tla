-------------------------- MODULE TrajectoryServer --------------------------
(***************************************************************************)
(* The arm driver's FollowJointTrajectory servers                          *)
(* (sdk_sagittarius_arm_real.cpp): the action thread takes a goal, copies  *)
(* its points and polls execute_joint_traj every 10 ms; the timer on the   *)
(* ros::spin() thread plays the points and clears it.  The flag, the       *)
(* points and the start time are shared and nothing guards them.  One      *)
(* module stands for the three players of the source: the joint server     *)
(* with and without servo_control_trajectory, and the gripper server.      *)
(*                                                                         *)
(* The timer is one callback at a time but takes time of its own (a serial *)
(* write), so it is cut where the action thread can come between.          *)
(***************************************************************************)
EXTENDS Naturals, Sequences

CONSTANTS
    Players,   \* subset of {"joints", "servo", "gripper"} to look at
    Sizes,     \* numbers of points a goal may have
    Byte,      \* values of a uint8_t: 256 in the code
    MaxGoals   \* bound: goals sent

ASSUME PlayersAssumption == Players \subseteq {"joints", "servo", "gripper"}
ASSUME SizesAssumption == Sizes \subseteq Nat \ {0} /\ Byte \in Nat \ {0} /\ MaxGoals \in Nat

VARIABLES
    player,                             \* which of the three this is
    goals,                              \* goals sent so far
    size,                               \* the number of points of each
    current, next, fresh,               \* SimpleActionServer: current_goal_, next_goal_, new_goal_
    preemptRequest, newPreemptRequest,  \* SimpleActionServer
    thread,                             \* where the action thread is
    execute,                            \* execute_joint_traj, execute_gripper_traj
    points,                             \* jnt_tra_msg, gripper_tra_msg: the goal and how many of its points
    due,                                \* how many points' times have passed since the start time
    timer,                              \* where the timer callback is
    cntr, flag,                         \* its static variables
    trajSize,                           \* its local traj_size
    result,                             \* the answer to each goal
    sent, stray,                        \* history: the points of each goal handed to the servos while it
                                        \* runs, and how many before or after
    rested, begun                       \* history: the timer has seen an idle server since the last start;
                                        \* whether it had when each goal was started

server    == <<current, next, fresh, preemptRequest, newPreemptRequest>>
shared    == <<execute, points, due>>
timerVars == <<timer, cntr, flag, trajSize>>
history   == <<sent, stray, rested, begun>>
vars == <<player, goals, size, server, thread, shared, timerVars, result, history>>

Goals     == 1..MaxGoals
NoPoints  == [goal |-> 0, n |-> 0]
Answers   == {"succeeded", "invalid", "preempted", "recalled"}

Init ==
    /\ player \in Players
    /\ goals = 0 /\ size = [g \in Goals |-> 0]
    /\ current = 0 /\ next = 0 /\ fresh = FALSE
    /\ preemptRequest = FALSE /\ newPreemptRequest = FALSE
    /\ thread = "idle" /\ execute = FALSE /\ points = NoPoints /\ due = 0
    /\ timer = "idle" /\ cntr = 0 /\ flag = TRUE /\ trajSize = 0
    /\ result = [g \in Goals |-> "none"]
    /\ sent = [g \in Goals |-> <<>>] /\ stray = [g \in Goals |-> 0]
    /\ rested = TRUE /\ begun = [g \in Goals |-> "not"]

Answer(g, a) == result' = [result EXCEPT ![g] = a]
Active == current # 0 /\ result[current] = "none"

---------------------------------------------------------------------------
(* actionlib on the spin thread, between timer calls                       *)

\* A new goal replaces one not yet accepted and asks the current one to stop.
SendGoal(n) ==
    /\ timer = "idle" /\ goals < MaxGoals
    /\ goals' = goals + 1 /\ size' = [size EXCEPT ![goals'] = n]
    /\ next' = goals' /\ fresh' = TRUE /\ newPreemptRequest' = FALSE
    /\ preemptRequest' = (preemptRequest \/ Active)
    /\ IF fresh THEN Answer(next, "recalled") ELSE UNCHANGED result
    /\ UNCHANGED <<player, current, thread, shared, timerVars, history>>

\* cancel_all_goals of a client.
CancelAll ==
    /\ timer = "idle"
    /\ preemptRequest' = (preemptRequest \/ Active)
    /\ newPreemptRequest' = (newPreemptRequest \/ fresh)
    /\ UNCHANGED <<player, goals, size, current, next, fresh, thread, shared, timerVars,
                   result, history>>

---------------------------------------------------------------------------
(* The action thread: arm_joint_trajectory_action_callback                 *)

\* acceptNewGoal of the execute loop.
Accept ==
    /\ thread = "idle" /\ fresh
    /\ current' = next /\ fresh' = FALSE
    /\ preemptRequest' = newPreemptRequest /\ newPreemptRequest' = FALSE
    /\ thread' = "begin"
    /\ UNCHANGED <<player, goals, size, next, shared, timerVars, result, history>>

\* Fewer than two points: INVALID_GOAL, as a success.
Reject ==
    /\ thread = "begin" /\ size[current] < 2
    /\ Answer(current, "invalid") /\ thread' = "idle"
    /\ UNCHANGED <<player, goals, size, server, shared, timerVars, history>>

\* The old points go; "still moving" leaves them and polls.
Clear ==
    /\ thread = "begin" /\ size[current] >= 2
    /\ IF execute THEN thread' = "poll" /\ UNCHANGED points
       ELSE thread' = "copy" /\ points' = NoPoints
    /\ UNCHANGED <<player, goals, size, server, execute, due, timerVars, result, history>>

\* The joint server copies point by point and counts in a uint8_t: with more
\* points than that can tell, the loop does not end.
CopyPoint ==
    /\ thread = "copy" /\ player # "gripper" /\ points.n < size[current]
    /\ points' = [goal |-> current, n |-> points.n + 1]
    /\ UNCHANGED <<player, goals, size, server, thread, execute, due, timerVars, result, history>>

Copied ==
    /\ thread = "copy"
    /\ IF player = "gripper" THEN points' = [goal |-> current, n |-> size[current]]
       ELSE points.n = size[current] /\ size[current] < Byte /\ UNCHANGED points
    /\ thread' = "start"
    /\ UNCHANGED <<player, goals, size, server, execute, due, timerVars, result, history>>

Start ==
    /\ thread = "start"
    /\ due' = 0 /\ execute' = TRUE /\ thread' = "poll"
    /\ rested' = FALSE
    /\ begun' = [begun EXCEPT ![current] = IF rested THEN "rested" ELSE "unrested"]
    /\ UNCHANGED <<player, goals, size, server, points, timerVars, result, sent, stray>>

\* The flag is down: the trajectory counts as done.
Succeed ==
    /\ thread = "poll" /\ ~execute
    /\ Answer(current, "succeeded") /\ thread' = "idle"
    /\ UNCHANGED <<player, goals, size, server, shared, timerVars, history>>

\* Mutant: the flag is left up.
StopFlagUp ==
    /\ thread = "poll" /\ execute /\ preemptRequest
    /\ thread' = "stopped"
    /\ UNCHANGED <<player, goals, size, server, shared, timerVars, result, history>>

Stop ==
    /\ thread = "poll" /\ execute /\ preemptRequest
    /\ execute' = FALSE /\ thread' = "stopped"
    /\ UNCHANGED <<player, goals, size, server, points, due, timerVars, result, history>>

\* Mutant: no return after setPreempted.
PreemptedFallsThrough ==
    /\ thread = "stopped"
    /\ Answer(current, "preempted") /\ thread' = "poll"
    /\ UNCHANGED <<player, goals, size, server, shared, timerVars, history>>

Preempted ==
    /\ thread = "stopped"
    /\ Answer(current, "preempted") /\ thread' = "idle"
    /\ UNCHANGED <<player, goals, size, server, shared, timerVars, history>>

ActionThread == Accept \/ Reject \/ Clear \/ CopyPoint \/ Copied \/ Start \/ Succeed \/ Stop \/ Preempted

---------------------------------------------------------------------------
(* The timer: arm_execute_joint_trajectory, arm_execute_gripper_trajectory *)

\* No trajectory: the static variables start over.
TimerIdle ==
    /\ timer = "idle" /\ ~execute
    /\ cntr' = 0 /\ flag' = TRUE /\ rested' = TRUE
    /\ UNCHANGED <<player, goals, size, server, thread, shared, timer, trajSize, result,
                   sent, stray, begun>>

TimerEnter ==
    /\ timer = "idle" /\ execute
    /\ timer' = "size"
    /\ UNCHANGED <<player, goals, size, server, thread, shared, cntr, flag, trajSize,
                   result, history>>

\* The size is read before the rest.
ReadSize ==
    /\ timer = "size" /\ trajSize' = points.n
    /\ timer' = IF player = "servo" /\ flag THEN "jump" ELSE "look"
    /\ UNCHANGED <<player, goals, size, server, thread, shared, cntr, flag, result, history>>

\* Point k of whatever goal the points are now, handed to the servos; nothing
\* that can be told of a point that is not there.
Running(g) == g = current /\ thread \in {"poll", "stopped"}
ToServos(k) ==
    IF k >= points.n THEN UNCHANGED <<sent, stray>>
    ELSE IF Running(points.goal)
    THEN sent' = [sent EXCEPT ![points.goal] = Append(@, k)] /\ UNCHANGED stray
    ELSE stray' = [stray EXCEPT ![points.goal] = @ + 1] /\ UNCHANGED sent

\* servo_control_trajectory: the servos plan, and get the last point at once.
Jump ==
    /\ timer = "jump" /\ flag' = FALSE /\ timer' = "look"
    /\ IF trajSize = 0 THEN UNCHANGED <<sent, stray>> ELSE ToServos(trajSize - 1)
    /\ UNCHANGED <<player, goals, size, server, thread, shared, cntr, trajSize, result,
                   rested, begun>>

\* How many points' times have passed, as far as the timer can tell: new points
\* with the old start time may be anything.
Racing == thread \in {"copy", "start"}
Passed == IF Racing THEN 0..trajSize ELSE {due}

\* Whether the current point's time has passed.  Without such a point, or with
\* points being copied, the joint server reads what it may find, or crashes;
\* the gripper's .at() throws.
Over ==
    IF cntr >= points.n /\ player = "gripper" THEN {"crash"}
    ELSE IF cntr >= points.n \/ (thread = "copy" /\ player # "gripper") THEN {"yes", "no", "crash"}
    ELSE {IF cntr < d THEN "yes" ELSE "no" : d \in Passed}

\* The next point: the joint server sends it, with servo_control_trajectory it
\* is only counted; after the last one the trajectory is over.
NextPoint ==
    /\ cntr' = (cntr + 1) % Byte
    /\ timer' = IF cntr' >= trajSize THEN "finish"
                ELSE IF player = "joints" THEN "send" ELSE "idle"

\* The gripper skips to the first point that is not due, or the last, and sends
\* it; the loop does not end when it cannot count that far.
SkipPoints ==
    /\ \E d \in Passed :
           /\ cntr < d
           /\ cntr' = IF cntr + 1 >= trajSize THEN cntr
                      ELSE IF d < trajSize THEN d ELSE trajSize - 1
    /\ cntr' < Byte
    /\ timer' = "send"

Look ==
    /\ timer = "look"
    /\ \/ "no" \in Over /\ timer' = "idle" /\ UNCHANGED cntr
       \/ "crash" \in Over /\ timer' = "crashed" /\ UNCHANGED cntr
       \/ "yes" \in Over /\ player # "gripper" /\ NextPoint
       \/ "yes" \in Over /\ player = "gripper" /\ SkipPoints
    /\ UNCHANGED <<player, goals, size, server, thread, shared, flag, trajSize, result, history>>

\* Mutant: the joint server's last point is not sent.
SendButLast ==
    /\ timer = "send"
    /\ IF player = "joints" /\ cntr + 1 = trajSize THEN UNCHANGED <<sent, stray>>
       ELSE ToServos(cntr)
    /\ timer' = IF player = "joints" THEN "idle"
                ELSE IF cntr >= points.n THEN "crashed"
                ELSE IF cntr + 1 >= trajSize THEN "finish" ELSE "idle"
    /\ UNCHANGED <<player, goals, size, server, thread, shared, cntr, flag, trajSize, result,
                   rested, begun>>

\* The point goes to the servos; the gripper is done with its last one, and
\* its .at() throws again if the points have gone.
Send ==
    /\ timer = "send"
    /\ ToServos(cntr)
    /\ timer' = IF player = "joints" THEN "idle"
                ELSE IF cntr >= points.n THEN "crashed"
                ELSE IF cntr + 1 >= trajSize THEN "finish" ELSE "idle"
    /\ UNCHANGED <<player, goals, size, server, thread, shared, cntr, flag, trajSize, result,
                   rested, begun>>

\* Mutant: the flag stays up.
FinishFlagUp ==
    /\ timer = "finish"
    /\ cntr' = 0 /\ timer' = "idle"
    /\ UNCHANGED <<player, goals, size, server, thread, shared, flag, trajSize, result, history>>

\* "Trajectory done being executed."
Finish ==
    /\ timer = "finish"
    /\ execute' = FALSE /\ cntr' = 0 /\ timer' = "idle"
    /\ UNCHANGED <<player, goals, size, server, thread, points, due, flag, trajSize, result,
                   history>>

Timer == TimerIdle \/ TimerEnter \/ ReadSize \/ Jump \/ Look \/ Send \/ Finish

\* The time of the next point passes.
Tick ==
    /\ due < points.n /\ due' = due + 1
    /\ UNCHANGED <<player, goals, size, server, thread, execute, points, timerVars, result,
                   history>>

Alive == timer # "crashed"

Next ==
    /\ Alive
    /\ \/ \E n \in Sizes : SendGoal(n)
       \/ CancelAll \/ ActionThread \/ Timer \/ Tick

\* Both threads run, and time passes.
Fairness == WF_vars(Alive /\ ActionThread) /\ WF_vars(Alive /\ Timer) /\ WF_vars(Alive /\ Tick)

Spec == Init /\ [][Next]_vars
FairSpec == Spec /\ Fairness

---------------------------------------------------------------------------
(* Properties                                                              *)

\* Types; the timer's counter is a byte.
TypeOK ==
    /\ player \in Players /\ goals \in 0..MaxGoals /\ size \in [Goals -> Sizes \cup {0}]
    /\ {current, next} \subseteq 0..goals
    /\ {fresh, preemptRequest, newPreemptRequest, execute, flag, rested} \subseteq BOOLEAN
    /\ thread \in {"idle", "begin", "copy", "start", "poll", "stopped"}
    /\ points \in [goal: 0..goals, n: Nat] /\ due \in Nat /\ trajSize \in Nat
    /\ timer \in {"idle", "size", "jump", "look", "send", "finish", "crashed"}
    /\ cntr \in 0..(Byte - 1)
    /\ result \in [Goals -> Answers \cup {"none"}]

\* To its clients the server is an ActionServer: whatever the two threads do to each other, goals
\* are taken up one at a time, each is answered once, and none is preempted unasked.
Status(g) == IF result[g] # "none" THEN result[g]
             ELSE IF g = current THEN "active" ELSE IF g <= goals THEN "pending" ELSE "unsent"
Asked == {g \in Goals : \/ Status(g) = "active" /\ preemptRequest
                        \/ Status(g) = "pending" /\ newPreemptRequest}
Abs == INSTANCE ActionServer WITH status <- [g \in Goals |-> Status(g)], asked <- Asked
ImplementsActionServer == Abs!Spec

\* What a goal must have had of its points: the joint server plays all but the first, in order;
\* servo_control_trajectory hands over the last one only; the gripper skips to those that are
\* due, the last one among them.
Complete(g) ==
    LET n == size[g]  s == sent[g] IN
    CASE player = "joints" -> s = [i \in 1..(n - 1) |-> i]
      [] player = "servo" -> s = <<n - 1>>
      [] OTHER -> /\ s # <<>> /\ s[Len(s)] = n - 1
                  /\ \A i \in 1..(Len(s) - 1) : s[i] < s[i + 1]
InOrder(g) ==
    LET s == sent[g] IN
    CASE player = "joints" -> \A i \in 1..(Len(s) - 1) : s[i + 1] = s[i] + 1
      [] player = "servo" -> Len(s) <= 1
      [] OTHER -> \A i \in 1..(Len(s) - 1) : s[i] <= s[i + 1]
PointsInOrder  == \A g \in Goals : InOrder(g)
RestedComplete == \A g \in Goals : result[g] = "succeeded" /\ begun[g] = "rested" => Complete(g)

\* While a goal runs the arm gets its points in order: the joint server leaves none out between two
\* it sends, and none comes before one of before.  This is so for every goal, also for one that is
\* preempted and one that a preempt has put in the middle of the timer's counting.  And SUCCESSFUL
\* means that the points have been sent, for a goal that was started after the timer had seen the
\* server idle; without that it may mean less (sdk_sagittarius_arm_real.cpp:527).
SuccessComplete == PointsInOrder /\ RestedComplete

\* Points are sent for a goal that is not running, and the timer reads past the
\* end of the points, only if a goal before has been preempted; a preempted
\* goal moves the arm by one more point at most.
Disturbed(g) == \E h \in 1..g : result[h] = "preempted"
StraysNeedPreempt ==
    /\ \A g \in Goals : stray[g] # 0 => Disturbed(g)
    /\ timer = "crashed" => Disturbed(goals)
    /\ \A g \in Goals : result[g] = "preempted" /\ ~Disturbed(g - 1) => stray[g] <= 1

\* Every goal is answered, but for what can stop the server: more points than a
\* uint8_t can count, a crash, or a goal started before the timer had seen the
\* server idle, whose counter may lie past its end.
GoalsAnswered ==
    \A g \in Goals :
        (g <= goals) ~> \/ result[g] # "none" \/ ~Alive
                        \/ \E h \in 1..g : size[h] >= Byte
                        \/ \E h \in 1..g : begun[h] = "unrested"
=============================================================================
