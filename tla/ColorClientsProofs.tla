------------------------- MODULE ColorClientsProofs -------------------------
(***************************************************************************)
(* Proofs about the three grasping programs and the server they drive, for *)
(* every set of colours and every number of images.                        *)
(***************************************************************************)
EXTENDS ColorClients, TLAPS

-----------------------------------------------------------------------------
(* Types *)

\* No kind of goal has more than four movements.
LEMMA MovementsType == \A k \in Kinds : Len(Movements[k]) \in 1..4
<1>1. /\ Movements["move"] = <<"reach">> /\ Movements["stay"] = <<"joints">>
      /\ Movements["pick"] = <<"above", "down", "catch", "lift">>
      /\ Movements["put"] = <<"above", "down", "open", "lift">>
      /\ Movements["save"] = <<"home", "sleep", "open">>
  BY DEF Movements
<1>2. Kinds = {"move", "pick", "put", "stay", "save"}
  BY DEF Kinds, Movements
<1> QED  BY <1>1, <1>2

\* The operators on the goal keep its type.
LEMMA JobTypes == ASSUME NEW j \in Jobs
                  PROVE  /\ Moved(j) \in Jobs /\ [j EXCEPT !.raised = TRUE] \in Jobs
                         /\ [j EXCEPT !.preempt = TRUE] \in Jobs /\ [j EXCEPT !.status = "active"] \in Jobs
                         /\ \A r \in Results : Answered(j, r) \in Jobs
<1>1. j.after + 1 \in Nat /\ TRUE \in BOOLEAN
  BY DEF Jobs
<1>2. /\ [j EXCEPT !.raised = TRUE] \in Jobs /\ [j EXCEPT !.preempt = TRUE] \in Jobs
      /\ [j EXCEPT !.status = "active"] \in Jobs
  BY <1>1, Zenon DEF Jobs
<1>3. [j EXCEPT !.after = j.after + 1] \in Jobs
  BY <1>1, Zenon DEF Jobs
<1>4. ASSUME NEW r \in Results
      PROVE  Answered(j, r) \in Jobs
  BY Zenon DEF Answered, Jobs
<1> QED  BY <1>2, <1>3, <1>4 DEF Moved

\* execute() goes from one of its places to another.
LEMMA ExecTypes == ASSUME exec \in Execs, job \in Jobs
                   PROVE  /\ \A pc \in ExecPcs : Goto(pc) => exec' \in Execs
                          /\ NextMovement => exec' \in Execs
<1>1. ASSUME NEW pc \in ExecPcs, Goto(pc)
      PROVE  exec' \in Execs
  BY <1>1 DEF Goto, Execs
<1>2. ASSUME NextMovement
      PROVE  exec' \in Execs
  <2>1. Len(Movements[job.kind]) \in 1..4 /\ exec.step \in 1..4
    BY MovementsType DEF Jobs, Execs
  <2>2. CASE exec.step < Len(Movements[job.kind])
    <3>1. exec' = [pc |-> "check", step |-> exec.step + 1]
      BY <1>2, <2>2 DEF NextMovement
    <3>2. ASSUME NEW s \in 1..4, NEW l \in 1..4, s < l
          PROVE  s + 1 \in 1..4
      BY <3>2
    <3>3. exec.step + 1 \in 1..4
      BY <2>1, <2>2, <3>2, Zenon
    <3> QED  BY <3>1, <3>3, Zenon DEF Execs, ExecPcs
  <2>3. CASE ~(exec.step < Len(Movements[job.kind]))
    <3>1. AfterLast \in ExecPcs /\ Goto(AfterLast)
      BY <1>2, <2>3 DEF NextMovement, AfterLast, ExecPcs
    <3> QED  BY <1>1, <3>1
  <2> QED  BY <2>2, <2>3
<1> QED  BY <1>1, <1>2

\* Every step of execute() keeps the types of the server's state.
LEMMA ExecuteType == ServerTypeOK /\ Execute => ServerTypeOK'
<1> SUFFICES ASSUME ServerTypeOK, Execute PROVE ServerTypeOK'
  OBVIOUS
<1>0. /\ job \in Jobs /\ exec \in Execs /\ arm \in Places \cup {Between} /\ holding \in BOOLEAN
      /\ job.to \in Places
  BY DEF ServerTypeOK, Jobs
<1>1. CASE Accept
  <2>1. [pc |-> "gripper", step |-> 1] \in Execs
    BY DEF Execs, ExecPcs
  <2> QED  BY <1>0, <1>1, <2>1, JobTypes DEF Accept, ServerTypeOK
<1>2. CASE InitGripper
  <2>1. job' \in Jobs /\ holding' \in BOOLEAN
    BY <1>0, <1>2, JobTypes DEF InitGripper
  <2> QED  BY <1>0, <1>2, <2>1, ExecTypes DEF InitGripper, ServerTypeOK, ExecPcs
<1>3. CASE Plan
  <2>1. job' \in Jobs
    BY <1>0, <1>3, JobTypes DEF Plan, Results
  <2> QED  BY <1>0, <1>3, <2>1, ExecTypes DEF Plan, ServerTypeOK, ExecPcs
<1>4. CASE Check
  BY <1>0, <1>4, ExecTypes DEF Check, ServerTypeOK, ExecPcs
<1>5. CASE Cancelled
  <2>1. job' \in Jobs
    BY <1>0, <1>5, JobTypes DEF Cancelled, Results, Default
  <2> QED  BY <1>0, <1>5, <2>1, ExecTypes DEF Cancelled, ServerTypeOK, ExecPcs
<1>6. CASE MoveArm
  <2>1. job' \in Jobs /\ exec' \in Execs /\ arm' \in Places \cup {Between}
    BY <1>0, <1>6, JobTypes, ExecTypes DEF MoveArm, ExecPcs
  <2> QED  BY <1>0, <1>6, <2>1 DEF MoveArm, ServerTypeOK
<1>7. CASE Arrive
  BY <1>0, <1>7, ExecTypes DEF Arrive, ServerTypeOK, Places
<1>8. CASE Catch
  <2>1. (holding \/ arm = job.to) \in BOOLEAN
    BY Zenon
  <2> QED  BY <1>0, <1>8, <2>1, JobTypes, ExecTypes DEF Catch, ServerTypeOK
<1>9. CASE Release
  BY <1>0, <1>9, JobTypes, ExecTypes DEF Release, ServerTypeOK
<1>10. CASE Verify
  <2>1. job' \in Jobs /\ exec' \in Execs
    BY <1>0, <1>10, JobTypes, ExecTypes DEF Verify, ExecPcs, Results
  <2> QED  BY <1>0, <1>10, <2>1 DEF Verify, ServerTypeOK
<1>11. CASE Raises
  <2>1. job' \in Jobs
    BY <1>0, <1>11, JobTypes DEF Raises, Results, Default
  <2>2. exec' \in Execs
    BY <1>0, <1>11, ExecTypes DEF Raises, ExecPcs
  <2> QED  BY <1>0, <1>11, <2>1, <2>2 DEF Raises, ServerTypeOK
<1>12. CASE SetSucceeded
  BY <1>0, <1>12, JobTypes, ExecTypes DEF SetSucceeded, ServerTypeOK, Results, ExecPcs
<1> QED
  BY <1>1, <1>2, <1>3, <1>4, <1>5, <1>6, <1>7, <1>8, <1>9, <1>10, <1>11, <1>12 DEF Execute

\* The programs.
LEMMA ProgramTypes == TypeOK => program \in {"classify", "fixed", "once"}
BY ClientsAssumption DEF TypeOK

\* At the start nothing is under way.
LEMMA InitType == Init => TypeOK
<1> SUFFICES ASSUME Init PROVE TypeOK
  OBVIOUS
<1>1. program \in {"classify", "fixed", "once"}
  BY ClientsAssumption DEF Init
<1>2. ServerTypeOK
  <2>1. job = NoJob /\ exec = [pc |-> "idle", step |-> 1] /\ arm = "rest" /\ holding = FALSE
    BY DEF Init, ServerInit
  <2>2. NoJob \in Jobs
    BY DEF NoJob, Jobs, Grasps, Kinds, Movements, Places, Results, Default
  <2>3. [pc |-> "idle", step |-> 1] \in Execs
    BY DEF Execs, ExecPcs
  <2> QED  BY <2>1, <2>2, <2>3 DEF ServerTypeOK, Places
<1>3. cli \in Clis /\ cli.pc \in Asks[program]
  BY <1>1 DEF Clis, Init, First, Pcs, Asks, Views
<1>4. det \in [Colors -> Objects]
  BY ClientsAssumption DEF Init, Fresh, Objects, Views
<1> QED  BY <1>2, <1>3, <1>4 DEF Init, TypeOK, Views

\* From wherever a program waits for a result it goes on to one of its own places.
LEMMA NextPcTypes == ASSUME TypeOK, cli.waits # "no"
                     PROVE  NextPc(cli.pc, job.result) \in Asks[program] \cup Alone
<1>1. cli.pc \in Asks[program] /\ job.result \in Results
  BY DEF TypeOK, ServerTypeOK, Jobs
<1>2. CASE program = "classify"
  BY <1>1, <1>2 DEF NextPc, ClassifyNext, Asks, Alone, Results
<1>3. CASE program = "fixed"
  BY <1>1, <1>3 DEF NextPc, FixedNext, Asks, Alone, Results
<1>4. CASE program = "once"
  BY <1>1, <1>4 DEF NextPc, OnceNext, Asks, Alone
<1> QED  BY <1>2, <1>3, <1>4, ProgramTypes

\* Every goal a client sends is one the server knows.
LEMMA GoalTypes == \A pc \in Pcs : Kind(pc) \in Kinds /\ (pc \notin Alone => Place(pc) \in Places)
BY DEF Kind, Place, Kinds, Movements, Places, Pcs, Alone

\* What is kept of a colour stays of its type.
LEMMA ResetType == ASSUME TypeOK, NEW next PROVE Reset(next) \in [Colors -> Objects]
<1>0. 0 \in 0..Frames /\ FALSE \in BOOLEAN /\ Unseen \in Views /\ seen \in Views
  BY ClientsAssumption DEF TypeOK, Views
<1>1. Fresh \in Objects /\ [Fresh EXCEPT !.at = seen] \in Objects
  BY <1>0, Zenon DEF Fresh, Objects
<1>2. ASSUME NEW c \in Colors
      PROVE  [det[c] EXCEPT !.cnt = 0, !.found = FALSE] \in Objects
  <2>1. det[c] \in Objects
    BY DEF TypeOK
  <2> QED  BY <1>0, <2>1, Zenon DEF Objects
<1> QED  BY <1>1, <1>2, ProgramTypes DEF Reset, TypeOK

\* What an image adds to it, too.
LEMMA LookedType == ASSUME TypeOK, NEW o \in Objects PROVE Looked(o) \in Objects
<1>1. arm \in Views /\ 0 \in 0..Frames
  BY ClientsAssumption DEF TypeOK, ServerTypeOK, Views
<1>2. [at |-> arm, cnt |-> 0, found |-> TRUE] \in Objects /\ [at |-> arm, cnt |-> 0, found |-> FALSE] \in Objects
  BY <1>1 DEF Objects
<1>3. ~(o.cnt + 1 > Frames) => [o EXCEPT !.cnt = @ + 1] \in Objects
  BY ClientsAssumption DEF Objects
<1> QED  BY <1>2, <1>3 DEF Looked

\* grasp_once counts up to Frames and no further.
RoundInv == program = "once" /\ cli.pc = "look" => \A c \in Colors : det[c].cnt < Frames
ClientVarsType == TypeOK /\ RoundInv

\* Every step keeps the types.
LEMMA NextType == ClientVarsType /\ [Next]_vars => ClientVarsType'
<1> SUFFICES ASSUME TypeOK, RoundInv, [Next]_vars PROVE TypeOK' /\ RoundInv'
  BY DEF ClientVarsType
<1>0. /\ ServerTypeOK /\ program \in Programs /\ cli \in Clis
      /\ cli.pc \in Asks[program] \/ (cli.pc \in Alone /\ cli.waits = "no")
      /\ det \in [Colors -> Objects] /\ seen \in Views /\ target \in [color : Colors, view : Views]
      /\ drops \subseteq Names
  BY DEF TypeOK
<1>1. \A pc \in Asks[program] : pc \in Pcs /\ pc \notin Alone
  BY ProgramTypes DEF Asks, Pcs, Alone
<1>2. Alone \subseteq Pcs
  BY DEF Alone, Pcs
<1>3. CASE Execute /\ UNCHANGED clientVars
  BY <1>0, <1>3, ExecuteType DEF clientVars, TypeOK, RoundInv
<1>4. CASE Send
  <2>1. cli.pc \notin Alone /\ cli.pc \in Pcs
    BY <1>0, <1>1, <1>4 DEF Send, Alone
  <2>2. NoJob \in Jobs /\ Kind(cli.pc) \in Kinds /\ Place(cli.pc) \in Places /\ Opens(cli.pc) \in BOOLEAN
    <3>1. NoJob \in Jobs
      BY DEF NoJob, Jobs, Grasps, Kinds, Movements, Places, Results, Default
    <3>2. Opens(cli.pc) \in BOOLEAN
      BY Zenon DEF Opens
    <3> QED  BY <2>1, <3>1, <3>2, GoalTypes
  <2>3. job' \in Jobs
    <3>1. "pending" \in {"none", "pending", "active", "ended"}
      OBVIOUS
    <3>2. (IF Opens(cli.pc) THEN "open" ELSE "none") \in Grasps
      BY DEF Grasps
    <3> QED  BY <1>4, <2>2, <3>1, <3>2, Zenon DEF Send, GoalArrives, Jobs
  <2>4. ServerTypeOK'
    BY <1>0, <1>4, <2>3 DEF Send, GoalArrives, ServerTypeOK
  <2>5. cli' \in Clis /\ cli'.pc = cli.pc
    BY <1>0, <1>4 DEF Send, Clis
  <2> QED  BY <1>0, <1>4, <2>1, <2>4, <2>5 DEF Send, TypeOK, RoundInv, Alone
<1>5. CASE TimesOut
  <2>1. cli' \in Clis /\ cli'.pc = cli.pc /\ cli.waits # "no"
    BY <1>0, <1>5 DEF TimesOut, Clis
  <2>2. ServerTypeOK'
    BY <1>0, <1>5 DEF TimesOut, serverVars, ServerTypeOK
  <2> QED  BY <1>0, <1>5, <2>1, <2>2 DEF TimesOut, TypeOK, RoundInv
<1>6. CASE Cancel
  <2>1. job' \in Jobs
    BY <1>0, <1>6, JobTypes DEF Cancel, CancelArrives, ServerTypeOK
  <2> QED  BY <1>0, <1>6, <2>1 DEF Cancel, CancelArrives, clientVars, ServerTypeOK, TypeOK, RoundInv
<1>7. CASE Done
  <2> DEFINE next == NextPc(cli.pc, job.result)
             base == IF next = "look" THEN arm ELSE cli.base
  <2>1. next \in Asks[program] \cup Alone
    BY <1>7, NextPcTypes DEF Done
  <2>2. arm \in Views /\ cli.base \in Views
    BY <1>0 DEF ServerTypeOK, Views, Clis
  <2>3. cli' = [pc |-> next, waits |-> "no", base |-> base] /\ det' = Reset(next)
    BY <1>7 DEF Done
  <2>4. next \in Pcs /\ base \in Views
    BY <1>1, <1>2, <2>1, <2>2
  <2>5. cli' \in Clis /\ cli'.pc = next /\ cli'.waits = "no"
    <3> HIDE DEF next, base
    <3> QED  BY <2>3, <2>4 DEF Clis
  <2>6. det' \in [Colors -> Objects]
    BY <2>3, ResetType
  <2>7. drops' \subseteq Names
    BY <1>0, <1>7 DEF Done, Areas
  <2>8. ServerTypeOK' /\ UNCHANGED <<program, seen, target>>
    BY <1>0, <1>7 DEF Done, serverVars, ServerTypeOK
  <2>9. TypeOK'
    <3> HIDE DEF next
    <3> QED  BY <1>0, <2>1, <2>5, <2>6, <2>7, <2>8 DEF TypeOK
  <2>10. RoundInv'
    <3> SUFFICES ASSUME program = "once", next = "look", NEW c \in Colors PROVE det'[c].cnt < Frames
      BY <2>5, <2>8 DEF RoundInv
    <3>1. det'[c] = [Fresh EXCEPT !.at = seen]
      BY <2>3 DEF Reset
    <3> QED  BY <3>1, ClientsAssumption DEF Fresh
  <2> QED  BY <2>9, <2>10
<1>8. CASE Ends
  <2>1. cli' \in Clis /\ cli'.pc = "done" /\ cli'.waits = "no"
    BY <1>0, <1>8 DEF Ends, Clis, Pcs
  <2>2. ServerTypeOK'
    BY <1>0, <1>8 DEF Ends, serverVars, ServerTypeOK
  <2> QED  BY <1>0, <1>8, <2>1, <2>2 DEF Ends, TypeOK, RoundInv, Alone
<1>9. CASE Image
  <2>1. det' \in [Colors -> Objects]
    BY <1>0, <1>9, LookedType DEF Image
  <2>2. ServerTypeOK' /\ UNCHANGED <<program, cli, seen, target, drops>> /\ program # "once"
    BY <1>0, <1>9 DEF Image, Subscribed, serverVars, ServerTypeOK
  <2> QED  BY <1>0, <2>1, <2>2 DEF TypeOK, RoundInv
<1>10. CASE OnceImage
  <2>1. ServerTypeOK' /\ seen' \in Views
    BY <1>0, <1>10 DEF OnceImage, serverVars, ServerTypeOK, Views
  <2> QED  BY <1>0, <1>10, <2>1 DEF OnceImage, TypeOK, RoundInv
<1>11. ASSUME NEW c \in Colors, NEW view \in Views, cli.pc = "look", Grasp(c, view)
       PROVE  /\ target' \in [color : Colors, view : Views]
              /\ cli' \in Clis /\ cli'.pc = "pick" /\ cli'.pc \in Asks[program]
  BY <1>0, <1>11, ProgramTypes DEF Grasp, Clis, Pcs, Asks
<1>12. CASE Find
  <2>1. PICK c \in Colors : Grasp(c, det[c].at) /\ cli.pc = "look"
    BY <1>12 DEF Find
  <2>2. det[c].at \in Views
    BY <1>0 DEF Objects
  <2>3. ServerTypeOK' /\ UNCHANGED <<program, det, seen, drops>>
    BY <1>0, <1>12 DEF Find, serverVars, ServerTypeOK
  <2> QED  BY <1>0, <1>11, <2>1, <2>2, <2>3 DEF TypeOK, RoundInv
<1>13. CASE Round
  <2> DEFINE o   == det[target.color]
             cnt == IF seen = o.at /\ seen # Between THEN o.cnt + 1 ELSE 0
  <2>1. o \in Objects /\ target.color \in Colors /\ o.cnt \in 0..Frames /\ o.cnt < Frames
    BY <1>0, <1>13 DEF Round, RoundInv, Objects
  <2>2. cnt \in 0..Frames
    BY <2>1, ClientsAssumption
  <2>3. det' = [det EXCEPT ![target.color] = [o EXCEPT !.at = seen, !.cnt = cnt]]
    BY <1>13 DEF Round
  <2>4. [o EXCEPT !.at = seen, !.cnt = cnt] \in Objects
    <3> HIDE DEF cnt, o
    <3> QED  BY <1>0, <2>1, <2>2, Zenon DEF Objects
  <2>5. det' \in [Colors -> Objects]
    <3> HIDE DEF cnt, o
    <3> QED  BY <1>0, <2>3, <2>4
  <2>6. ServerTypeOK' /\ UNCHANGED <<program, seen, drops>>
    BY <1>0, <1>13 DEF Round, serverVars, ServerTypeOK
  <2>7. CASE cnt < Frames
    <3>1. UNCHANGED <<cli, target>>
      BY <1>13, <2>7 DEF Round
    <3>2. \A c \in Colors : det'[c].cnt < Frames
      <4> SUFFICES ASSUME NEW c \in Colors PROVE det'[c].cnt < Frames
        OBVIOUS
      <4>1. det[c].cnt < Frames
        BY <1>13 DEF Round, RoundInv
      <4>2. CASE c = target.color
        <5>1. det'[c] = [o EXCEPT !.at = seen, !.cnt = cnt]
          BY <1>0, <2>3, <4>2
        <5>2. det'[c].cnt = cnt
          <6> HIDE DEF cnt, o
          <6> QED  BY <2>1, <5>1 DEF Objects
        <5> QED  BY <2>7, <5>2
      <4>3. CASE c # target.color
        <5>1. det'[c] = det[c]
          BY <1>0, <2>3, <4>3
        <5> QED  BY <4>1, <5>1
      <4> QED  BY <4>2, <4>3
    <3> QED  BY <1>0, <2>5, <2>6, <3>1, <3>2 DEF TypeOK, RoundInv
  <2>8. CASE ~(cnt < Frames)
    <3>1. Grasp(target.color, seen) /\ cli.pc = "look"
      BY <1>13, <2>8 DEF Round
    <3> QED  BY <1>0, <1>11, <2>1, <2>5, <2>6, <3>1 DEF TypeOK, RoundInv
  <2> QED  BY <2>7, <2>8
<1>14. CASE UNCHANGED vars
  BY <1>0, <1>14 DEF vars, serverVars, clientVars, ServerTypeOK, TypeOK, RoundInv
<1> QED
  BY <1>3, <1>4, <1>5, <1>6, <1>7, <1>8, <1>9, <1>10, <1>12, <1>13, <1>14 DEF Next, Client

-----------------------------------------------------------------------------
(* The server: execute() runs only for an active goal, but for its last line. *)

ServesInv == exec.pc \notin {"idle", "last"} => job.status = "active"

\* Motions after the cancel request: none before the request or where one can still follow.
AfterInv ==
    Planned(job.kind) => /\ job.after <= 1
                         /\ ~job.preempt \/ job.status = "pending" \/ exec.pc \in {"gripper", "go"} => job.after = 0

\* A pick that is about to succeed has an object or has raised.
HeldInv ==
    job.kind = "pick" /\ \/ job.status = "active" /\ exec.pc = "last"
                         \/ job.status = "ended" /\ job.result = "SUCCESS"
    => holding \/ job.raised

\* What the operators on the goal change of it, and what not.
LEMMA JobFields == ASSUME NEW j \in Jobs, NEW r \in Results
    PROVE  /\ Moved(j).status = j.status /\ Moved(j).kind = j.kind /\ Moved(j).preempt = j.preempt
           /\ Moved(j).raised = j.raised /\ Moved(j).result = j.result
           /\ Moved(j).after = (IF j.preempt THEN j.after + 1 ELSE j.after)
           /\ Answered(j, r).kind = j.kind /\ Answered(j, r).after = j.after /\ Answered(j, r).raised = j.raised
           /\ Answered(j, r).preempt = j.preempt
           /\ j.status # "active" => Answered(j, r) = j
           /\ j.status = "active" => Answered(j, r).status = "ended" /\ Answered(j, r).result = r
<1>1. /\ Moved(j).status = j.status /\ Moved(j).kind = j.kind /\ Moved(j).preempt = j.preempt
      /\ Moved(j).raised = j.raised /\ Moved(j).result = j.result
  BY DEF Moved, Jobs
<1>2. Moved(j).after = (IF j.preempt THEN j.after + 1 ELSE j.after)
  BY DEF Moved, Jobs
<1>3. /\ Answered(j, r).kind = j.kind /\ Answered(j, r).after = j.after /\ Answered(j, r).raised = j.raised
      /\ Answered(j, r).preempt = j.preempt
  BY DEF Answered, Jobs
<1>4. /\ j.status # "active" => Answered(j, r) = j
      /\ j.status = "active" => Answered(j, r).status = "ended" /\ Answered(j, r).result = r
  BY DEF Answered, Jobs
<1> QED  BY <1>1, <1>2, <1>3, <1>4

\* After Goto or NextMovement execute() is at the place they name.
LEMMA ExecPlaces == ASSUME exec \in Execs
                    PROVE  /\ \A pc : Goto(pc) => exec'.pc = pc
                           /\ NextMovement => exec'.pc \in {"check", "verify", "last"}
                           /\ NextMovement /\ exec'.pc = "last" => job.kind # "pick"
BY DEF Goto, NextMovement, AfterLast, Execs

\* execute() runs for the active goal, which keeps its kind, and does nothing without one.
LEMMA ExecuteServes == ASSUME ServerTypeOK, ServesInv, Execute
    PROVE  /\ ServesInv' /\ job'.kind = job.kind
           /\ job.status \in {"none", "ended"} => UNCHANGED <<job, arm, holding>>
           /\ job.status # "none" => job'.status # "none"
<1> USE DEF ServesInv, At
<1> DEFINE Lives == /\ ServesInv' /\ job'.kind = job.kind
                    /\ job.status \in {"none", "ended"} => UNCHANGED <<job, arm, holding>>
                    /\ job.status # "none" => job'.status # "none"
<1> SUFFICES Lives
  OBVIOUS
<1>0. job \in Jobs /\ exec \in Execs /\ Results # {} /\ Default \in Results
  BY DEF ServerTypeOK, Results, Default
<1>1. CASE Accept
  <2>1. exec'.pc = "gripper" /\ job'.status = "active" /\ job'.kind = job.kind /\ job.status = "pending"
    BY <1>0, <1>1 DEF Accept, Jobs
  <2> QED  BY <2>1
<1>2. CASE InitGripper \/ (Plan /\ job' = job) \/ Check \/ MoveArm \/ Arrive \/ Catch \/ Release
  <2>1. exec.pc \notin {"idle", "last"}
    BY <1>2 DEF InitGripper, Plan, Check, MoveArm, Arrive, Catch, Release
  <2>2. job' = job \/ job' = Moved(job)
    BY <1>2 DEF InitGripper, Plan, Check, MoveArm, Arrive, Catch, Release
  <2>3. job'.kind = job.kind /\ job'.status = "active" /\ job.status = "active"
    BY <1>0, <2>1, <2>2, JobFields
  <2> QED  BY <2>3
<1>3. ASSUME NEW r \in Results, exec.pc \notin {"idle", "last"}, exec'.pc \in {"idle", "last"},
             job' = Answered(job, r) \/ job' = [Answered(job, r) EXCEPT !.raised = TRUE]
      PROVE  ServesInv' /\ job'.kind = job.kind /\ job.status = "active" /\ job'.status = "ended"
  <2>0. job.status = "active"
    BY <1>3
  <2>1. Answered(job, r).kind = job.kind /\ Answered(job, r).status = "ended" /\ Answered(job, r) \in Jobs
    <3>1. Answered(job, r) \in Jobs
      BY <1>0, <1>3, JobTypes
    <3>2. Answered(job, r).kind = job.kind
      BY <1>0, <1>3, JobFields
    <3>3. Answered(job, r).status = "ended"
      BY <1>0, <1>3, <2>0, JobFields
    <3> QED  BY <3>1, <3>2, <3>3
  <2>2. job'.kind = job.kind /\ job'.status = "ended"
    BY <1>3, <2>1 DEF Jobs
  <2> QED  BY <1>3, <2>0, <2>2
<1>4. CASE Plan /\ job' # job
  <2>1. exec.pc = "plan" /\ exec'.pc = "idle" /\ job' = Answered(job, "PLAN_NOT_FOUND")
    BY <1>0, <1>4, ExecPlaces DEF Plan
  <2> QED  BY <1>3, <2>1 DEF Results
<1>5. CASE Cancelled
  <2>1. exec.pc = "check" /\ exec'.pc = "last" /\ job' = [Answered(job, Default) EXCEPT !.raised = TRUE]
    BY <1>0, <1>5, ExecPlaces DEF Cancelled
  <2> QED  BY <1>0, <1>3, <2>1
<1>6. CASE Raises
  <2>1. exec.pc \notin {"idle", "last"} /\ exec'.pc \in {"idle", "last"}
    BY <1>0, <1>6, ExecPlaces DEF Raises
  <2>2. job' = [Answered(job, Default) EXCEPT !.raised = TRUE]
    BY <1>6 DEF Raises
  <2> QED  BY <1>0, <1>3, <2>1, <2>2
<1>7. CASE Verify
  <2>1. CASE holding
    <3>1. exec.pc = "verify" /\ job' = job /\ exec'.pc = "last"
      BY <1>0, <1>7, <2>1, ExecPlaces DEF Verify
    <3> QED  BY <3>1
  <2>2. CASE ~holding
    <3>1. exec.pc = "verify" /\ exec'.pc = "idle" /\ job' = Answered(job, "GRASP_FAILD")
      BY <1>0, <1>7, <2>2, ExecPlaces DEF Verify
    <3> QED  BY <1>3, <3>1 DEF Results
  <2> QED  BY <2>1, <2>2
<1>8. CASE SetSucceeded
  <2>1. exec'.pc = "idle" /\ job' = Answered(job, "SUCCESS") /\ UNCHANGED <<arm, holding>>
    BY <1>0, <1>8, ExecPlaces DEF SetSucceeded
  <2>2. job'.kind = job.kind /\ (job.status # "active" => job' = job) /\ (job.status = "active" => job'.status = "ended")
    BY <1>0, <2>1, JobFields DEF Results
  <2> QED  BY <2>1, <2>2
<1>9. CASE Plan
  BY <1>2, <1>4, <1>9, Zenon
<1> HIDE DEF Lives
<1> QED
  BY <1>1, <1>2, <1>5, <1>6, <1>7, <1>8, <1>9 DEF Execute

\* An exception leaves a mark on the goal and ends it, if it is active.
LEMMA RaisedFields == ASSUME NEW j \in Jobs, NEW r \in Results, NEW k, k = [Answered(j, r) EXCEPT !.raised = TRUE]
    PROVE  /\ k.raised = TRUE /\ k.kind = j.kind /\ k.after = j.after /\ k.preempt = j.preempt
           /\ k.status # "pending" \/ j.status = "pending"
<1> DEFINE a == Answered(j, r)
<1>1. a \in Jobs /\ a.kind = j.kind /\ a.after = j.after /\ a.preempt = j.preempt
  BY JobTypes, JobFields
<1>2. a.status # "pending" \/ j.status = "pending"
  BY DEF Answered, Jobs
<1> HIDE DEF a
<1>3. k = [a EXCEPT !.raised = TRUE]
  BY DEF a
<1> QED  BY <1>1, <1>2, <1>3 DEF Jobs

\* A step that starts nothing, or starts a movement where one still may.
LEMMA AfterStep == ASSUME job \in Jobs, AfterInv, exec'.pc # "gripper", job'.status # "pending",
                          job'.kind = job.kind, job'.preempt = job.preempt,
                          \/ job'.after = job.after /\ (exec'.pc = "go" => ~Planned(job.kind) \/ ~job.preempt)
                          \/ /\ exec.pc \in {"gripper", "go"} /\ exec'.pc # "go"
                             /\ job'.after = (IF job.preempt THEN job.after + 1 ELSE job.after)
                   PROVE  AfterInv'
<1> SUFFICES ASSUME Planned(job.kind) PROVE AfterInv'
  BY DEF AfterInv
<1>1. job.after \in Nat /\ job.preempt \in BOOLEAN /\ Planned(job'.kind)
  BY DEF Jobs
<1>2. job'.after <= 1
  BY <1>1 DEF AfterInv
<1>3. ASSUME ~job'.preempt \/ exec'.pc = "go"
      PROVE  job'.after = 0
  BY <1>1, <1>3 DEF AfterInv
<1> QED  BY <1>1, <1>2, <1>3 DEF AfterInv

\* execute() starts at most one movement after the cancel request.
LEMMA ExecuteAfter == ASSUME ServerTypeOK, ServesInv, AfterInv, Execute PROVE AfterInv'
<1>0. job \in Jobs /\ exec \in Execs /\ Default \in Results
  BY DEF ServerTypeOK, Results, Default
<1>1. CASE Accept
  <2>1. job'.after = job.after /\ job'.kind = job.kind /\ job.status = "pending"
    BY <1>0, <1>1 DEF Accept, Jobs
  <2> QED  BY <2>1 DEF AfterInv
<1>2. ASSUME exec.pc \notin {"idle", "last"}
      PROVE  job.status # "pending"
  BY <1>2 DEF ServesInv
<1>3. ASSUME exec.pc \in {"gripper", "go"}, exec'.pc \notin {"gripper", "go"}, job' = job \/ job' = Moved(job)
      PROVE  AfterInv'
  <2>1. /\ job'.status = job.status /\ job'.kind = job.kind /\ job'.preempt = job.preempt
        /\ job'.after = job.after \/ job'.after = (IF job.preempt THEN job.after + 1 ELSE job.after)
    BY <1>0, <1>3, JobFields
  <2> QED  BY <1>0, <1>2, <1>3, <2>1, AfterStep
<1>4. CASE InitGripper
  BY <1>0, <1>3, <1>4, ExecPlaces DEF InitGripper, At
<1>5. CASE MoveArm \/ Catch \/ Release
  <2>1. exec.pc = "go" /\ exec'.pc \notin {"gripper", "go"}
    BY <1>0, <1>5, ExecPlaces DEF MoveArm, Catch, Release, At
  <2>2. job' = job \/ job' = Moved(job)
    BY <1>5 DEF MoveArm, Catch, Release
  <2> QED  BY <1>3, <2>1, <2>2
<1>6. ASSUME job' = job, exec.pc \notin {"idle", "last"}, exec'.pc # "gripper",
             exec'.pc = "go" => ~Planned(job.kind) \/ ~job.preempt
      PROVE  AfterInv'
  BY <1>0, <1>2, <1>6, AfterStep
<1>7. ASSUME exec'.pc \in {"idle", "last"}, exec.pc \notin {"idle", "last"}, NEW r \in Results,
             job' = Answered(job, r) \/ job' = [Answered(job, r) EXCEPT !.raised = TRUE]
      PROVE  AfterInv'
  <2>1. job'.kind = job.kind /\ job'.preempt = job.preempt /\ job'.after = job.after
    <3>1. CASE job' = Answered(job, r)
      <4>1. job'.kind = job.kind /\ job'.preempt = job.preempt
        BY <1>0, <1>7, <3>1, JobFields
      <4>2. job'.after = job.after
        BY <1>0, <1>7, <3>1, JobFields
      <4> QED  BY <4>1, <4>2
    <3>2. CASE job' = [Answered(job, r) EXCEPT !.raised = TRUE]
      BY ZenonT(60), <1>0, <1>7, <3>2, RaisedFields
    <3> QED  BY <1>7, <3>1, <3>2
  <2>2. job'.status # "pending"
    <3>1. CASE job' = Answered(job, r)
      BY <1>0, <1>2, <1>7, <3>1 DEF Answered, Jobs
    <3>2. CASE job' = [Answered(job, r) EXCEPT !.raised = TRUE]
      BY <1>0, <1>2, <1>7, <3>2, RaisedFields
    <3> QED  BY <1>7, <3>1, <3>2
  <2> QED  BY <1>0, <1>7, <2>1, <2>2, AfterStep
<1>8. CASE Plan
  <2>1. CASE job' = job
    <3>1. exec.pc = "plan" /\ exec'.pc \in {"check", "idle"}
      BY <1>0, <1>8, ExecPlaces DEF Plan, At
    <3> QED  BY <1>6, <2>1, <3>1
  <2>2. CASE job' # job
    <3>1. exec.pc = "plan" /\ exec'.pc = "idle" /\ job' = Answered(job, "PLAN_NOT_FOUND")
      BY <1>0, <1>8, <2>2, ExecPlaces DEF Plan, At
    <3> QED  BY <1>7, <3>1 DEF Results
  <2> QED  BY <2>1, <2>2
<1>9. CASE Check
  <2>1. exec.pc = "check" /\ job' = job /\ exec'.pc = "go"
    BY <1>0, <1>9, ExecPlaces DEF Check, At
  <2>2. ~Planned(job.kind) \/ ~job.preempt
    BY <1>9 DEF Check, Checked
  <2> QED  BY <1>6, <2>1, <2>2
<1>10. CASE Cancelled
  <2>1. exec.pc = "check" /\ exec'.pc = "last" /\ job' = [Answered(job, Default) EXCEPT !.raised = TRUE]
    BY <1>0, <1>10, ExecPlaces DEF Cancelled, At
  <2> QED  BY <1>0, <1>7, <2>1
<1>11. CASE Arrive
  <2>1. exec.pc = "moving" /\ job' = job /\ exec'.pc \in {"check", "verify", "last"}
    BY <1>0, <1>11, ExecPlaces DEF Arrive, At
  <2> QED  BY <1>6, <2>1
<1>12. CASE Verify
  <2>1. CASE holding
    <3>1. exec.pc = "verify" /\ job' = job /\ exec'.pc = "last"
      BY <1>0, <1>12, <2>1, ExecPlaces DEF Verify, At
    <3> QED  BY <1>6, <3>1
  <2>2. CASE ~holding
    <3>1. exec.pc = "verify" /\ exec'.pc = "idle" /\ job' = Answered(job, "GRASP_FAILD")
      BY <1>0, <1>12, <2>2, ExecPlaces DEF Verify, At
    <3> QED  BY <1>7, <3>1 DEF Results
  <2> QED  BY <2>1, <2>2
<1>13. CASE Raises
  <2>1. exec.pc \notin {"idle", "last"} /\ exec'.pc \in {"idle", "last"}
    BY <1>0, <1>13, ExecPlaces DEF Raises
  <2>2. job' = [Answered(job, Default) EXCEPT !.raised = TRUE]
    BY <1>13 DEF Raises
  <2> QED  BY <1>0, <1>7, <2>1, <2>2
<1>14. CASE SetSucceeded
  <2>1. exec'.pc = "idle" /\ job' = Answered(job, "SUCCESS")
    BY <1>0, <1>14, ExecPlaces DEF SetSucceeded
  <2>2. CASE job.status = "active"
    <3>1. job'.kind = job.kind /\ job'.preempt = job.preempt /\ job'.after = job.after /\ job'.status = "ended"
      BY <1>0, <2>1, <2>2, JobFields DEF Results
    <3> QED  BY <1>0, <2>1, <3>1, AfterStep
  <2>3. CASE job.status # "active"
    <3>1. job' = job
      BY <1>0, <2>1, <2>3, JobFields DEF Results
    <3> QED  BY <2>1, <3>1 DEF AfterInv
  <2> QED  BY <2>2, <2>3
<1> QED
  BY <1>1, <1>4, <1>5, <1>8, <1>9, <1>10, <1>11, <1>12, <1>13, <1>14 DEF Execute

(* Theorem CancelAlwaysStopsSoon: the clients. *)

\* A goal that arrives finds execute() idle or at its last line.
WaitsInv ==
    /\ cli.waits = "no" /\ cli.pc # "done" => job.status \in {"none", "ended"}
    /\ cli.waits # "no" => job.kind = Kind(cli.pc)

\* What a goal that arrives is.
LEMMA ArrivingGoal == ASSUME NEW kind \in Kinds, NEW grasp, NEW to \in Places, GoalArrives(kind, grasp, to)
                      PROVE  /\ job'.kind = kind /\ job'.status = "pending" /\ job'.after = 0
                             /\ job'.preempt = FALSE /\ UNCHANGED <<exec, arm, holding>>
BY DEF GoalArrives, NoJob

\* Sending, waiting and cancelling keep the server in step with the client.
LEMMA NextServes == ASSUME TypeOK, ServesInv, WaitsInv, [Next]_vars PROVE ServesInv' /\ WaitsInv'
<1>0. /\ job \in Jobs /\ exec \in Execs /\ cli \in Clis
      /\ cli.pc \in Asks[program] \/ (cli.pc \in Alone /\ cli.waits = "no")
  BY DEF TypeOK, ServerTypeOK
<1>1. CASE Execute /\ UNCHANGED clientVars
  <2>1. ServesInv' /\ job'.kind = job.kind /\ cli' = cli
    BY <1>1, ExecuteServes DEF TypeOK, clientVars
  <2>2. job.status \in {"none", "ended"} => job'.status = job.status
    BY <1>1, ExecuteServes DEF TypeOK
  <2> QED  BY <2>1, <2>2 DEF WaitsInv
<1>2. CASE Send
  <2>1. cli' = [cli EXCEPT !.waits = "result"] /\ cli.waits = "no" /\ cli.pc \notin Alone
    BY <1>2 DEF Send, Alone
  <2>2. cli'.pc = cli.pc /\ cli'.waits = "result"
    BY <1>0, <2>1 DEF Clis
  <2>3. job'.kind = Kind(cli.pc) /\ exec' = exec
    <3>1. cli.pc \in Pcs /\ Opens(cli.pc) \in BOOLEAN
      BY <1>0, Zenon DEF Clis, Opens
    <3>2. Kind(cli.pc) \in Kinds /\ Place(cli.pc) \in Places
      BY <2>1, <3>1, GoalTypes
    <3> QED  BY <1>2, <3>1, <3>2, ArrivingGoal DEF Send
  <2>4. exec.pc \in {"idle", "last"}
    BY <2>1 DEF WaitsInv, ServesInv, Alone
  <2> QED  BY <2>2, <2>3, <2>4 DEF WaitsInv, ServesInv
<1>3. CASE TimesOut
  <2>1. cli'.pc = cli.pc /\ cli'.waits # "no" /\ cli.waits # "no"
    BY <1>0, <1>3 DEF TimesOut, Clis
  <2> QED  BY <1>3, <2>1 DEF TimesOut, serverVars, WaitsInv, ServesInv
<1>4. CASE Cancel
  <2>1. job'.status = job.status /\ job'.kind = job.kind /\ exec' = exec /\ cli' = cli
    BY <1>0, <1>4 DEF Cancel, CancelArrives, clientVars, Jobs
  <2> QED  BY <2>1 DEF WaitsInv, ServesInv
<1>5. CASE Done
  <2>1. cli'.waits = "no" /\ job.status = "ended" /\ UNCHANGED serverVars
    BY <1>5 DEF Done
  <2> QED  BY <2>1 DEF serverVars, WaitsInv, ServesInv
<1>6. CASE Ends
  <2>1. cli'.waits = "no" /\ cli'.pc = "done" /\ UNCHANGED serverVars
    BY <1>0, <1>6 DEF Ends, Clis
  <2> QED  BY <2>1 DEF serverVars, WaitsInv, ServesInv
<1>7. ASSUME UNCHANGED serverVars, cli' = cli \/ cli' = [cli EXCEPT !.pc = "pick"], cli.pc = "look" \/ cli' = cli
      PROVE  ServesInv' /\ WaitsInv'
  <2>1. CASE cli' = cli
    BY <1>7, <2>1 DEF serverVars, WaitsInv, ServesInv
  <2>2. CASE cli' # cli
    <3>1. cli.pc = "look" /\ cli.waits = "no"
      BY <1>0, <1>7, <2>2, ProgramTypes DEF Asks
    <3>2. cli'.waits = "no"
      BY <1>0, <1>7, <3>1 DEF Clis
    <3> QED  BY <1>7, <3>1, <3>2 DEF serverVars, WaitsInv, ServesInv
  <2> QED  BY <2>1, <2>2
<1>8. CASE Image \/ OnceImage
  BY <1>7, <1>8 DEF Image, OnceImage
<1>9. CASE Find
  <2>1. cli' = [cli EXCEPT !.pc = "pick"] /\ cli.pc = "look" /\ UNCHANGED serverVars
    BY <1>9 DEF Find, Grasp
  <2> QED  BY <1>7, <2>1
<1>10. CASE Round
  <2>1. UNCHANGED serverVars /\ cli.pc = "look"
    BY <1>10 DEF Round
  <2>2. cli' = cli \/ cli' = [cli EXCEPT !.pc = "pick"]
    BY <1>10, Zenon DEF Round, Grasp
  <2> QED  BY <1>7, <2>1, <2>2
<1>11. CASE UNCHANGED vars
  BY <1>11 DEF vars, serverVars, clientVars, WaitsInv, ServesInv
<1> QED
  BY <1>1, <1>2, <1>3, <1>4, <1>5, <1>6, <1>8, <1>9, <1>10, <1>11 DEF Next, Client

\* A goal that arrives has no movement behind it; a cancel finds none either.
LEMMA NextAfter == ASSUME TypeOK, ServesInv, AfterInv, [Next]_vars PROVE AfterInv'
<1>0. job \in Jobs /\ cli \in Clis /\ ServerTypeOK
  BY DEF TypeOK, ServerTypeOK
<1>1. CASE Execute
  BY <1>0, <1>1, ExecuteAfter
<1>2. CASE Send
  <2>1. job'.status = "pending" /\ job'.after = 0
    <3>1. cli.pc \notin Alone /\ cli.pc \in Pcs /\ Opens(cli.pc) \in BOOLEAN
      BY <1>0, <1>2, Zenon DEF Send, Clis, Opens, Alone
    <3>2. Kind(cli.pc) \in Kinds /\ Place(cli.pc) \in Places
      BY <3>1, GoalTypes
    <3> QED  BY <1>2, <3>1, <3>2, ArrivingGoal DEF Send
  <2> QED  BY <2>1 DEF AfterInv
<1>3. CASE Cancel
  <2>1. /\ job'.status = job.status /\ job'.kind = job.kind /\ job'.after = job.after /\ exec' = exec
        /\ job.preempt = FALSE
    BY <1>0, <1>3 DEF Cancel, CancelArrives, Jobs
  <2> QED  BY <2>1 DEF AfterInv
<1>4. CASE UNCHANGED serverVars
  BY <1>4 DEF serverVars, AfterInv
<1>5. UNCHANGED vars => UNCHANGED serverVars
  BY DEF vars
<1> QED
  BY <1>1, <1>2, <1>3, <1>4, <1>5 DEF Next, Client, TimesOut, Done, Ends, Image, OnceImage, Find, Round

-----------------------------------------------------------------------------
(* Theorem PutAlwaysFollowsGrasp *)

\* execute() comes to its last line with a pick only after Verify found an object, or raised.
LEMMA ExecuteHeld == ASSUME ServerTypeOK, ServesInv, HeldInv, Execute PROVE HeldInv'
<1>0. job \in Jobs /\ exec \in Execs /\ Default \in Results /\ job'.kind = job.kind
  BY ExecuteServes DEF ServerTypeOK, Results, Default
<1> SUFFICES ASSUME job.kind = "pick" PROVE HeldInv'
  BY <1>0 DEF HeldInv
<1>1. CASE job.status \in {"none", "ended"}
  BY <1>1, ExecuteServes DEF HeldInv
<1>2. ASSUME exec'.pc # "last", job' = job \/ job' = Moved(job), job.status # "ended"
      PROVE  HeldInv'
  <2>1. job'.status = job.status
    BY <1>0, <1>2, JobFields
  <2> QED  BY <1>2, <2>1 DEF HeldInv
<1>3. CASE job.status = "pending"
  <2>1. exec.pc \in {"idle", "last"}
    BY <1>3 DEF ServesInv
  <2>2. CASE Accept
    <3>1. exec'.pc = "gripper" /\ job'.status = "active"
      BY <1>0, <2>2 DEF Accept, Jobs
    <3> QED  BY <3>1 DEF HeldInv
  <2>3. CASE SetSucceeded
    <3>1. exec'.pc = "idle" /\ job' = job
      BY <1>0, <1>3, <2>3, ExecPlaces, JobFields DEF SetSucceeded, Results
    <3> QED  BY <1>2, <1>3, <3>1
  <2>4. Accept \/ SetSucceeded
    BY <2>1 DEF Execute, At, InitGripper, Plan, Check, Cancelled, MoveArm, Arrive, Catch, Release, Verify, Raises
  <2> QED  BY <2>2, <2>3, <2>4
<1>4. CASE job.status = "active"
  <2>1. CASE Accept
    BY <1>4, <2>1 DEF Accept
  <2>2. CASE InitGripper \/ Check
    <3>1. exec'.pc # "last"
      BY <1>0, <2>2, ExecPlaces DEF InitGripper, Check
    <3>2. job' = job \/ job' = Moved(job)
      BY <2>2 DEF InitGripper, Check
    <3> QED  BY <1>2, <1>4, <3>1, <3>2
  <2>3. CASE MoveArm \/ Arrive \/ Catch \/ Release
    <3>1. exec'.pc # "last"
      BY <1>0, <2>3, ExecPlaces DEF MoveArm, Arrive, Catch, Release
    <3>2. job' = job \/ job' = Moved(job)
      BY <2>3 DEF MoveArm, Arrive, Catch, Release
    <3> QED  BY <1>2, <1>4, <3>1, <3>2
  <2>4. ASSUME NEW r \in Results, r # "SUCCESS", job' = Answered(job, r)
        PROVE  HeldInv'
    <3>1. job'.status = "ended" /\ job'.result = r
      BY <1>0, <1>4, <2>4, JobFields
    <3> QED  BY <2>4, <3>1 DEF HeldInv
  <2>5. CASE Plan
    <3>1. CASE job' = job
      <4>1. exec'.pc # "last"
        BY <1>0, <2>5, ExecPlaces DEF Plan
      <4> QED  BY <1>2, <1>4, <3>1, <4>1
    <3>2. CASE job' # job
      BY <2>4, <2>5, <3>2 DEF Plan, Results
    <3> QED  BY <3>1, <3>2
  <2>6. CASE Cancelled \/ Raises
    <3>1. job' = [Answered(job, Default) EXCEPT !.raised = TRUE]
      BY <2>6 DEF Cancelled, Raises
    <3>2. job'.raised = TRUE
      BY <1>0, <3>1, RaisedFields
    <3> QED  BY <3>2 DEF HeldInv
  <2>7. CASE Verify
    <3>1. CASE holding
      <4>1. holding' = holding
        BY <2>7 DEF Verify
      <4> QED  BY <3>1, <4>1 DEF HeldInv
    <3>2. CASE ~holding
      BY <2>4, <2>7, <3>2 DEF Verify, Results
    <3> QED  BY <3>1, <3>2
  <2>8. CASE SetSucceeded
    <3>1. exec.pc = "last" /\ job' = Answered(job, "SUCCESS") /\ holding' = holding
      BY <2>8 DEF SetSucceeded, At
    <3>2. job'.raised = job.raised
      BY <1>0, <3>1, JobFields DEF Results
    <3>3. holding \/ job.raised
      BY <1>4, <3>1 DEF HeldInv
    <3> QED  BY <3>1, <3>2, <3>3 DEF HeldInv
  <2> QED  BY <2>1, <2>2, <2>3, <2>5, <2>6, <2>7, <2>8 DEF Execute
<1> QED  BY <1>0, <1>1, <1>3, <1>4 DEF Jobs

\* Nor do the clients make a pick succeed.
LEMMA NextHeld == ASSUME TypeOK, ServesInv, HeldInv, [Next]_vars PROVE HeldInv'
<1>0. job \in Jobs /\ cli \in Clis /\ ServerTypeOK
  BY DEF TypeOK, ServerTypeOK
<1>1. CASE Execute
  BY <1>0, <1>1, ExecuteHeld
<1>2. CASE Send
  <2>1. job'.status = "pending"
    <3>1. cli.pc \notin Alone /\ cli.pc \in Pcs /\ Opens(cli.pc) \in BOOLEAN
      BY <1>0, <1>2, Zenon DEF Send, Clis, Opens, Alone
    <3>2. Kind(cli.pc) \in Kinds /\ Place(cli.pc) \in Places
      BY <3>1, GoalTypes
    <3> QED  BY <1>2, <3>1, <3>2, ArrivingGoal DEF Send
  <2> QED  BY <2>1 DEF HeldInv
<1>3. CASE Cancel
  <2>1. /\ job'.status = job.status /\ job'.kind = job.kind /\ job'.result = job.result
        /\ job'.raised = job.raised /\ exec' = exec /\ holding' = holding
    BY <1>0, <1>3 DEF Cancel, CancelArrives, Jobs
  <2> QED  BY <2>1 DEF HeldInv
<1>4. CASE UNCHANGED serverVars
  BY <1>4 DEF serverVars, HeldInv
<1>5. UNCHANGED vars => UNCHANGED serverVars
  BY DEF vars
<1> QED
  BY <1>1, <1>2, <1>3, <1>4, <1>5 DEF Next, Client, TimesOut, Done, Ends, Image, OnceImage, Find, Round

\* The classification programs go to "put" from a pick that answered SUCCESS.
LEMMA NextPut == ASSUME TypeOK, WaitsInv, HeldInv, PutFollowsGrasp, [Next]_vars, ServesInv PROVE PutFollowsGrasp'
<1>0. /\ job \in Jobs /\ cli \in Clis /\ ServerTypeOK /\ (program = "classify" \/ program = "fixed" \/ program = "once")
      /\ cli.pc \in Asks[program] \/ (cli.pc \in Alone /\ cli.waits = "no")
  BY ProgramTypes DEF TypeOK, ServerTypeOK
<1>1. CASE Execute /\ UNCHANGED clientVars
  <2> SUFFICES ASSUME program # "once", cli.pc = "put", cli.waits = "no" PROVE holding' \/ job'.raised
    BY <1>1 DEF PutFollowsGrasp, clientVars
  <2>1. UNCHANGED <<job, holding>>
    BY <1>0, <1>1, ExecuteServes DEF WaitsInv
  <2> QED  BY <2>1 DEF PutFollowsGrasp
<1>2. CASE Send
  BY <1>0, <1>2 DEF Send, PutFollowsGrasp, Clis
<1>3. CASE TimesOut
  BY <1>0, <1>3 DEF TimesOut, PutFollowsGrasp, Clis
<1>4. CASE Cancel
  <2>1. job'.raised = job.raised /\ holding' = holding /\ UNCHANGED clientVars
    BY <1>0, <1>4 DEF Cancel, CancelArrives, Jobs
  <2> QED  BY <2>1 DEF clientVars, PutFollowsGrasp
<1>5. CASE Done
  <2> DEFINE next == NextPc(cli.pc, job.result)
  <2>1. cli'.pc = next /\ cli.waits # "no" /\ job.status = "ended" /\ UNCHANGED <<job, holding, program>>
    BY <1>5 DEF Done, serverVars
  <2> SUFFICES ASSUME program # "once", next = "put" PROVE holding \/ job.raised
    BY <2>1 DEF PutFollowsGrasp
  <2>2. job.result \in Results /\ cli.pc \in Asks[program]
    BY <1>0, <2>1 DEF Jobs
  <2>3. CASE program = "classify"
    <3>1. cli.pc \in {"pick", "repick"} /\ job.result = "SUCCESS"
      BY <2>2, <2>3 DEF NextPc, ClassifyNext, Asks, Results
    <3> QED  BY <2>1, <3>1 DEF WaitsInv, HeldInv, Kind
  <2>4. CASE program = "fixed"
    <3>1. cli.pc = "pick" /\ job.result = "SUCCESS"
      BY <2>2, <2>4 DEF NextPc, FixedNext, Asks, Results
    <3> QED  BY <2>1, <3>1 DEF WaitsInv, HeldInv, Kind
  <2> QED  BY <1>0, <2>3, <2>4
<1>6. CASE Ends
  <2>1. cli'.pc = "done"
    BY <1>0, <1>6 DEF Ends, Clis
  <2> QED  BY <2>1 DEF PutFollowsGrasp
<1>7. CASE Image \/ OnceImage
  BY <1>7 DEF Image, OnceImage, serverVars, PutFollowsGrasp
<1>8. CASE Find
  <2>1. cli'.pc = "pick"
    BY <1>0, <1>8 DEF Find, Grasp, Clis
  <2> QED  BY <2>1 DEF PutFollowsGrasp
<1>9. CASE Round
  BY <1>9 DEF Round, PutFollowsGrasp
<1>10. CASE UNCHANGED vars
  BY <1>10 DEF vars, serverVars, clientVars, PutFollowsGrasp
<1> QED
  BY <1>1, <1>2, <1>3, <1>4, <1>5, <1>6, <1>7, <1>8, <1>9, <1>10 DEF Next, Client

-----------------------------------------------------------------------------
(* Theorem AlwaysSeenWhileLooking *)

\* During a look the arm stands still, so what is found is seen from where it stands.
LookInv ==
    program = "classify" /\ cli.pc = "look" =>
        cli.base = arm /\ \A c \in Colors : det[c].found => det[c].at = arm

\* An image of an object is taken from where the arm is.
LEMMA LookedAt == ASSUME NEW o \in Objects, o.found => o.at = arm
                  PROVE  Looked(o).found => Looked(o).at = arm
BY DEF Looked, Objects

\* Every step keeps the arm where the look began, and grasps at what was found there.
LEMMA NextLook == ASSUME TypeOK, ServesInv, WaitsInv, LookInv, SeenWhileLooking, [Next]_vars
                  PROVE  LookInv' /\ SeenWhileLooking'
<1>0. /\ ServerTypeOK /\ cli \in Clis /\ det \in [Colors -> Objects]
      /\ target \in [color : Colors, view : Views]
      /\ cli.pc \in Asks[program] \/ (cli.pc \in Alone /\ cli.waits = "no")
  BY DEF TypeOK
<1>1. CASE Execute /\ UNCHANGED clientVars
  <2>1. SeenWhileLooking'
    BY <1>1 DEF clientVars, SeenWhileLooking
  <2>2. LookInv'
    <3> SUFFICES ASSUME program = "classify", cli.pc = "look" PROVE arm' = arm
      BY <1>1 DEF clientVars, LookInv
    <3>1. cli.waits = "no"
      BY <1>0 DEF Asks
    <3> QED  BY <1>0, <1>1, <3>1, ExecuteServes DEF WaitsInv
  <2> QED  BY <2>1, <2>2
<1>2. ASSUME cli'.pc = cli.pc, cli'.base = cli.base, UNCHANGED <<program, det, target, arm>>
      PROVE  LookInv' /\ SeenWhileLooking'
  BY <1>2 DEF LookInv, SeenWhileLooking
<1>3. CASE Send \/ TimesOut
  <2>1. cli'.pc = cli.pc /\ cli'.base = cli.base
    BY <1>0, <1>3 DEF Send, TimesOut, Clis
  <2> QED  BY <1>2, <1>3, <2>1 DEF Send, TimesOut, GoalArrives, serverVars
<1>4. CASE Cancel
  BY <1>2, <1>4 DEF Cancel, CancelArrives, clientVars
<1>5. CASE Done
  <2> SUFFICES ASSUME program = "classify" PROVE LookInv' /\ SeenWhileLooking'
    BY <1>5 DEF Done, LookInv, SeenWhileLooking
  <2> DEFINE next == NextPc(cli.pc, job.result)
  <2>1. cli' = [pc |-> next, waits |-> "no", base |-> IF next = "look" THEN arm ELSE cli.base]
    BY <1>5 DEF Done
  <2>2. det' = Reset(next) /\ arm' = arm /\ cli.waits # "no" /\ program' = program
    BY <1>5 DEF Done, serverVars
  <2>3. next # "pick"
    <3>1. cli.pc \in Asks[program] /\ job.result \in Results
      BY <1>0, <2>2 DEF ServerTypeOK, Jobs
    <3> QED  BY <3>1 DEF NextPc, ClassifyNext, Asks, Results
  <2>4. SeenWhileLooking'
    BY <2>1, <2>3 DEF SeenWhileLooking
  <2>5. next = "look" => det' = [c \in Colors |-> Fresh]
    BY <2>2 DEF Reset
  <2>6. LookInv'
    <3> HIDE DEF next
    <3> QED  BY <2>1, <2>2, <2>5 DEF LookInv, Fresh
  <2> QED  BY <2>4, <2>6
<1>6. CASE Ends
  <2>1. cli'.pc = "done"
    BY <1>0, <1>6 DEF Ends, Clis
  <2> QED  BY <2>1 DEF LookInv, SeenWhileLooking
<1>7. CASE Image
  <2>1. UNCHANGED <<program, cli, target, arm>>
    BY <1>7 DEF Image, serverVars
  <2>2. PICK visible \in SUBSET Colors :
           det' = [c \in Colors |-> IF c \in visible THEN Looked(det[c]) ELSE det[c]]
    BY <1>7 DEF Image
  <2>3. ASSUME program = "classify", cli.pc = "look", NEW c \in Colors, det'[c].found
        PROVE  det'[c].at = arm
    <3>1. det[c] \in Objects /\ (det[c].found => det[c].at = arm)
      BY <1>0, <2>3 DEF LookInv
    <3>2. det'[c] = Looked(det[c]) \/ det'[c] = det[c]
      BY <2>2
    <3>3. CASE det'[c] = det[c]
      BY <2>3, <3>1, <3>3
    <3>4. CASE det'[c] = Looked(det[c])
      BY <2>3, <3>1, <3>4, LookedAt
    <3> QED  BY <3>2, <3>3, <3>4
  <2>4. LookInv'
    BY <2>1, <2>3 DEF LookInv
  <2> QED  BY <2>1, <2>4 DEF SeenWhileLooking
<1>8. CASE OnceImage
  BY <1>2, <1>8 DEF OnceImage, serverVars
<1>9. CASE Find
  <2>1. PICK c \in Colors : det[c].found /\ Grasp(c, det[c].at)
    BY <1>9 DEF Find
  <2>2. /\ cli.pc = "look" /\ cli'.pc = "pick" /\ cli'.base = cli.base
        /\ target'.view = det[c].at /\ program' = program
    BY <1>0, <1>9, <2>1 DEF Find, Grasp, Clis
  <2>3. program = "classify" => target'.view = cli'.base
    BY <2>1, <2>2 DEF LookInv
  <2> QED  BY <2>2, <2>3 DEF LookInv, SeenWhileLooking
<1>10. CASE Round
  BY <1>10 DEF Round, LookInv, SeenWhileLooking
<1>11. CASE UNCHANGED vars
  BY <1>2, <1>11 DEF vars, serverVars, clientVars
<1> QED
  BY <1>1, <1>3, <1>4, <1>5, <1>6, <1>7, <1>8, <1>9, <1>10, <1>11 DEF Next, Client

-----------------------------------------------------------------------------
(* The theorems *)

\* What the server and its client know of each other at every moment.
PickInv ==
    /\ TypeOK /\ RoundInv
    /\ ServesInv /\ WaitsInv
    /\ AfterInv /\ HeldInv /\ LookInv

\* At the start no goal was sent and nothing was found.
LEMMA InitPick == Init => PickInv /\ PutFollowsGrasp /\ SeenWhileLooking
<1> SUFFICES ASSUME Init PROVE PickInv /\ PutFollowsGrasp /\ SeenWhileLooking
  OBVIOUS
<1>1. /\ job.status = "none" /\ job.after = 0 /\ exec.pc = "idle"
      /\ cli.pc \in {"left", "search"} /\ cli.waits = "no"
  BY DEF Init, ServerInit, NoJob, First
<1>2. TypeOK
  BY InitType
<1>3. ServesInv /\ WaitsInv /\ AfterInv /\ HeldInv
  BY <1>1 DEF ServesInv, WaitsInv, AfterInv, HeldInv
<1> QED  BY <1>1, <1>2, <1>3 DEF PickInv, RoundInv, LookInv, PutFollowsGrasp, SeenWhileLooking

\* Every step preserves it, and the two properties with it.
LEMMA NextPick == ASSUME PickInv, PutFollowsGrasp, SeenWhileLooking, [Next]_vars
                  PROVE  PickInv' /\ PutFollowsGrasp' /\ SeenWhileLooking'
<1>1. TypeOK' /\ RoundInv'
  BY NextType DEF PickInv, ClientVarsType
<1>2. ServesInv' /\ WaitsInv'
  BY NextServes DEF PickInv
<1>3. AfterInv' /\ HeldInv'
  BY NextAfter, NextHeld DEF PickInv
<1>4. PutFollowsGrasp' /\ LookInv' /\ SeenWhileLooking'
  BY NextPut, NextLook DEF PickInv
<1> QED  BY <1>1, <1>2, <1>3, <1>4 DEF PickInv

\* The invariant and the two properties together.
LEMMA PickAlways == Spec => [](PickInv /\ PutFollowsGrasp /\ SeenWhileLooking)
BY InitPick, NextPick, PTL DEF Spec

\* Type correctness of the server and its three clients (sgr_ctrl.py, color_classification.py,
\* color_classification_fixed.py, grasp_once.py); grasp_once never counts past its limit.
THEOREM ClientTypes == Spec => []TypeOK
<1>1. PickInv => TypeOK
  BY DEF PickInv
<1> QED  BY <1>1, PickAlways, PTL

\* A cancel stops the arm: at most one movement of a planned goal starts after it
\* (sgr_ctrl.py:264-302).
THEOREM CancelAlwaysStopsSoon == Spec => []CancelStopsSoon
<1>1. PickInv => CancelStopsSoon
  BY DEF PickInv, AfterInv, CancelStopsSoon
<1> QED  BY <1>1, PickAlways, PTL

\* The classification programs go to a box only with something in the gripper, or after a pick
\* that was cancelled or raised (color_classification.py:183, color_classification_fixed.py:222).
THEOREM PutAlwaysFollowsGrasp == Spec => []PutFollowsGrasp
BY PickAlways, PTL

\* Colour classification never grasps at a position seen from another place than the one it
\* looked from (color_classification.py:124-148).
THEOREM AlwaysSeenWhileLooking == Spec => []SeenWhileLooking
BY PickAlways, PTL

=============================================================================
