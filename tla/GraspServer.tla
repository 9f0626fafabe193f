----------------------------- MODULE GraspServer -----------------------------
(***************************************************************************)
(* The pick and place action server (sgr_ctrl.py).  execute() drives the   *)
(* arm and the gripper through MoveIt step by step and answers the goal;   *)
(* the cancel request comes on another thread and is only looked at        *)
(* between steps.  Poses are reduced to the place they belong to.          *)
(***************************************************************************)
EXTENDS Naturals, Sequences

VARIABLES
    job,      \* the goal at the server: what it asks for, its status, result and preempt request;
              \* history: motions started since the request, whether an exception was raised
    exec,     \* where execute() is, and at which of its movements
    arm,      \* the place the arm is at
    holding   \* there is an object between the fingers

serverVars == <<job, exec, arm, holding>>

Places  == {"search", "left", "right", "object", "drop", "rest", "astray"}
Between == "between"
Results == {"SUCCESS", "PLAN_NOT_FOUND", "GRASP_FAILD"}
\* set_aborted() without a result publishes a fresh SGRCtrlResult, whose field is 0.
Default == "SUCCESS"

\* The movements of each kind of goal; "catch" and "open" are the gripper's.
Movements == [move |-> <<"reach">>,
              pick |-> <<"above", "down", "catch", "lift">>,
              put  |-> <<"above", "down", "open", "lift">>,
              stay |-> <<"joints">>,
              save |-> <<"home", "sleep", "open">>]
Kinds == DOMAIN Movements

Planned(k) == k \in {"move", "pick", "put"}

NoJob == [kind |-> "move", grasp |-> "none", to |-> "search", status |-> "none", result |-> Default,
          preempt |-> FALSE, after |-> 0, raised |-> FALSE]

ServerInit ==
    /\ job = NoJob /\ exec = [pc |-> "idle", step |-> 1]
    /\ arm = "rest" /\ holding = FALSE

Movement == Movements[job.kind][exec.step]
At(pc)   == exec.pc = pc
Goto(pc) == exec' = [pc |-> pc, step |-> IF pc \in {"check", "go", "moving"} THEN exec.step ELSE 1]
\* A movement that starts after the cancel request is counted.
Moved(j) == IF j.preempt THEN [j EXCEPT !.after = @ + 1] ELSE j

\* actionlib: a goal that has its terminal status keeps it; later calls only log an error.
Answered(j, r) == IF j.status = "active" THEN [j EXCEPT !.status = "ended", !.result = r] ELSE j

-----------------------------------------------------------------------------
(* The goal and its cancellation arrive. *)

GoalArrives(kind, grasp, to) ==
    /\ job' = [NoJob EXCEPT !.kind = kind, !.grasp = grasp, !.to = to, !.status = "pending"]
    /\ UNCHANGED <<exec, arm, holding>>

CancelArrives ==
    /\ job.status \in {"pending", "active"} /\ ~job.preempt
    /\ job' = [job EXCEPT !.preempt = TRUE]
    /\ UNCHANGED <<exec, arm, holding>>

Accept ==
    /\ At("idle") /\ job.status = "pending"
    /\ job' = [job EXCEPT !.status = "active"] /\ exec' = [pc |-> "gripper", step |-> 1]
    /\ UNCHANGED <<arm, holding>>

(* execute() *)

\* The gripper is opened or closed before anything else, if the goal says so (no client asks to
\* close it); it may fail to, unnoticed.
InitGripper ==
    /\ At("gripper") /\ Goto("plan")
    /\ job' = IF job.grasp = "none" THEN job ELSE Moved(job)
    /\ holding' \in IF job.grasp = "close" THEN {holding, holding \/ arm = job.to}
                    ELSE {holding, holding /\ job.grasp # "open"}
    /\ UNCHANGED arm

\* Is every pose within reach?  If not, or if planning raises, the goal ends.
Plan ==
    /\ At("plan")
    /\ \/ Goto("check") /\ UNCHANGED job
       \/ /\ Planned(job.kind)
          /\ job' = Answered(job, "PLAN_NOT_FOUND") /\ Goto("idle")
    /\ UNCHANGED <<arm, holding>>

\* Before every movement of a planned goal: was a cancel requested?
\* Mutant: the request is looked at before the second movement only.
CheckedOnce == Planned(job.kind) /\ exec.step = 2
Checked == Planned(job.kind)
Check ==
    /\ At("check") /\ ~(Checked /\ job.preempt)
    /\ Goto("go")
    /\ UNCHANGED <<job, arm, holding>>

Cancelled ==
    /\ At("check") /\ Checked /\ job.preempt
    /\ job' = [Answered(job, Default) EXCEPT !.raised = TRUE] /\ Goto("last")
    /\ UNCHANGED <<arm, holding>>

AfterLast == IF job.kind = "pick" THEN "verify" ELSE "last"
NextMovement ==
    IF exec.step < Len(Movements[job.kind])
    THEN exec' = [pc |-> "check", step |-> exec.step + 1]
    ELSE Goto(AfterLast)

\* Mutant: a movement without a plan is tried again.
MoveArmRetry ==
    /\ At("go") /\ Movement \notin {"catch", "open"}
    /\ \/ Goto("moving") /\ arm' = Between /\ job' = Moved(job)
       \/ Goto("check") /\ UNCHANGED <<job, arm>>
    /\ UNCHANGED holding

\* The arm sets out.  If no plan is found now, the movement is skipped unnoticed.
MoveArm ==
    /\ At("go") /\ Movement \notin {"catch", "open"}
    /\ \/ Goto("moving") /\ arm' = Between /\ job' = Moved(job)
       \/ NextMovement /\ UNCHANGED <<job, arm>>
    /\ UNCHANGED holding

\* The result of execute() is not looked at: the arm may have stopped anywhere.
Arrive ==
    /\ At("moving") /\ arm' \in {job.to, "astray"} /\ NextMovement
    /\ UNCHANGED <<job, holding>>

\* The fingers close on the object or miss it.
Catch ==
    /\ At("go") /\ Movement = "catch"
    /\ holding' \in {holding, holding \/ arm = job.to}
    /\ job' = Moved(job) /\ NextMovement
    /\ UNCHANGED arm

Release ==
    /\ At("go") /\ Movement = "open"
    /\ holding' \in {FALSE, holding}
    /\ job' = Moved(job) /\ NextMovement
    /\ UNCHANGED arm

\* The load of the gripper's servo tells whether something was caught.
Verify ==
    /\ At("verify")
    /\ IF holding
       THEN Goto("last") /\ UNCHANGED job
       ELSE Goto("idle") /\ job' = Answered(job, "GRASP_FAILD")
    /\ UNCHANGED <<arm, holding>>

\* MoveIt or the servo service raises: inside the try of a planned goal the code goes
\* on to its last line; elsewhere the exception leaves execute() and actionlib aborts.
Raises ==
    /\ exec.pc \in {"gripper", "plan", "go", "verify"}
    /\ job' = [Answered(job, Default) EXCEPT !.raised = TRUE]
    /\ Goto(IF Planned(job.kind) /\ exec.pc \in {"go", "verify"} THEN "last" ELSE "idle")
    /\ UNCHANGED <<arm, holding>>

\* Every way through the second try ends here, that of the exceptions included.
SetSucceeded ==
    /\ At("last") /\ job' = Answered(job, "SUCCESS") /\ Goto("idle")
    /\ UNCHANGED <<arm, holding>>

Execute ==
    \/ Accept \/ InitGripper \/ Plan \/ Check \/ Cancelled \/ MoveArm \/ Arrive
    \/ Catch \/ Release \/ Verify \/ Raises \/ SetSucceeded

-----------------------------------------------------------------------------
Grasps == {"none", "open", "close"}
Jobs == [kind : Kinds, grasp : Grasps, to : Places, status : {"none", "pending", "active", "ended"},
         result : Results, preempt : BOOLEAN, after : Nat, raised : BOOLEAN]
ExecPcs == {"idle", "gripper", "plan", "check", "go", "moving", "verify", "last"}
Execs   == [pc : ExecPcs, step : 1..4]

ServerTypeOK ==
    /\ job \in Jobs /\ exec \in Execs
    /\ arm \in Places \cup {Between} /\ holding \in BOOLEAN

\* A cancel stops the arm: after it arrives at most one movement of a planned goal still
\* starts, that whose check is already passed or the gripper's first (sgr_ctrl.py:264-302).
CancelStopsSoon == Planned(job.kind) => job.after <= 1

\* A pick that answers SUCCESS has an object in the gripper: the clients take it for
\* "grasp success" and go on to put it down (color_classification.py:183).
SuccessIsGrasp == job.kind = "pick" /\ job.status = "ended" /\ job.result = "SUCCESS" => holding

\* Every goal that reaches the server is answered, whatever MoveIt finds or raises.
GoalsEnd == job.status \in {"pending", "active"} ~> job.status = "ended"
=============================================================================
