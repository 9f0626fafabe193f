----------------------- MODULE TrajectoryServerProofs -----------------------
(***************************************************************************)
(* Proofs about TrajectoryServer, for every set of goal sizes, every width *)
(* of the counter and every number of goals.                               *)
(***************************************************************************)
EXTENDS TrajectoryServer, SequenceTheorems, TLAPS

-----------------------------------------------------------------------------
(* Types *)

\* Neither the goal being worked on nor the one that waits has been answered, and they are two.
AnswerInv ==
    /\ \A g \in Goals : g > goals => result[g] = "none"
    /\ fresh => next # 0 /\ next # current /\ result[next] = "none"
    /\ thread # "idle" => current # 0 /\ result[current] = "none"

\* The initial state is well typed.
LEMMA InitType == Init => TypeOK
<1> SUFFICES ASSUME Init PROVE TypeOK
  OBVIOUS
<1>1. goals \in 0..MaxGoals /\ {current, next} \subseteq 0..goals /\ cntr \in 0..(Byte - 1)
  BY SizesAssumption DEF Init
<1>2. {fresh, preemptRequest, newPreemptRequest, execute, flag, rested} \subseteq BOOLEAN
  BY DEF Init
<1>3. points \in [goal: 0..goals, n: Nat] /\ size \in [Goals -> Sizes \cup {0}] /\ result \in [Goals -> Answers \cup {"none"}]
  BY DEF Init, NoPoints
<1> QED  BY <1>1, <1>2, <1>3 DEF Init, TypeOK

\* What clients do.
LEMMA ClientType == TypeOK /\ ((\E n \in Sizes : SendGoal(n)) \/ CancelAll) => TypeOK'
<1> SUFFICES ASSUME TypeOK, (\E n \in Sizes : SendGoal(n)) \/ CancelAll PROVE TypeOK'
  OBVIOUS
<1>0. /\ MaxGoals \in Nat /\ goals \in 0..MaxGoals /\ current \in 0..goals /\ next \in 0..goals
      /\ result \in [Goals -> Answers \cup {"none"}] /\ size \in [Goals -> Sizes \cup {0}]
      /\ points \in [goal: 0..goals, n: Nat]
      /\ {fresh, preemptRequest, newPreemptRequest, execute, flag, rested} \subseteq BOOLEAN
  BY SizesAssumption DEF TypeOK
<1>1. ASSUME NEW n \in Sizes, SendGoal(n)
      PROVE  TypeOK'
  <2>1. goals' = goals + 1 /\ goals' \in 0..MaxGoals /\ {current', next'} \subseteq 0..goals'
    BY <1>0, <1>1 DEF SendGoal
  <2>2. points' \in [goal: 0..goals', n: Nat]
    BY <1>0, <1>1, <2>1 DEF SendGoal, shared
  <2>3. result' \in [Goals -> Answers \cup {"none"}]
    BY <1>0, <1>1 DEF SendGoal, Answer, Answers
  <2>4. size' \in [Goals -> Sizes \cup {0}]
    BY <1>0, <1>1 DEF SendGoal
  <2>5. preemptRequest' \in BOOLEAN /\ fresh' \in BOOLEAN /\ newPreemptRequest' \in BOOLEAN
    BY <1>0, <1>1, Zenon DEF SendGoal
  <2>6. /\ UNCHANGED <<player, thread, execute, due, timer, cntr, flag, trajSize, rested>>
    BY <1>1 DEF SendGoal, shared, timerVars, history
  <2> QED  BY <1>0, <2>1, <2>2, <2>3, <2>4, <2>5, <2>6 DEF TypeOK
<1>2. CASE CancelAll
  <2>1. preemptRequest' \in BOOLEAN /\ newPreemptRequest' \in BOOLEAN
    BY <1>0, <1>2, Zenon DEF CancelAll
  <2>2. UNCHANGED <<player, goals, size, current, next, fresh, thread, execute, points, due, timer, cntr, flag, trajSize, result, rested>>
    BY <1>2 DEF CancelAll, shared, timerVars, history
  <2> QED  BY <1>0, <2>1, <2>2 DEF TypeOK
<1> QED  BY <1>1, <1>2

\* What the action thread does.
LEMMA ThreadType == TypeOK /\ AnswerInv /\ ActionThread => TypeOK'
<1> SUFFICES ASSUME TypeOK, AnswerInv, ActionThread PROVE TypeOK'
  OBVIOUS
<1>0. /\ MaxGoals \in Nat /\ goals \in 0..MaxGoals /\ current \in 0..goals /\ next \in 0..goals
      /\ result \in [Goals -> Answers \cup {"none"}] /\ size \in [Goals -> Sizes \cup {0}] /\ Sizes \subseteq Nat
      /\ points \in [goal: 0..goals, n: Nat]
      /\ {fresh, preemptRequest, newPreemptRequest, execute, flag, rested} \subseteq BOOLEAN
  BY SizesAssumption DEF TypeOK
<1>1. UNCHANGED <<player, goals, size, timer, cntr, flag, trajSize>>
  BY DEF ActionThread, Accept, Reject, Clear, CopyPoint, Copied, Start, Succeed, Stop, Preempted, timerVars
<1>2. result' \in [Goals -> Answers \cup {"none"}]
  BY <1>0 DEF ActionThread, Accept, Reject, Clear, CopyPoint, Copied, Start, Succeed, Stop, Preempted, Answer, Answers
<1>3. thread' \in {"idle", "begin", "copy", "start", "poll", "stopped"}
  BY DEF TypeOK, ActionThread, Accept, Reject, Clear, CopyPoint, Copied, Start, Succeed, Stop, Preempted
<1>4. {current', next'} \subseteq 0..goals'
  BY <1>0 DEF ActionThread, Accept, Reject, Clear, CopyPoint, Copied, Start, Succeed, Stop, Preempted, server
<1>5. {fresh', preemptRequest', newPreemptRequest', execute', flag', rested'} \subseteq BOOLEAN
  <2>1. CASE Accept
    BY <1>0, <2>1 DEF Accept, shared, timerVars, history
  <2>2. CASE Start
    BY <1>0, <2>2 DEF Start, server, timerVars
  <2>3. CASE Stop
    BY <1>0, <2>3 DEF Stop, server, timerVars, history
  <2>4. CASE Reject \/ Clear \/ CopyPoint \/ Copied \/ Succeed \/ Preempted
    BY <1>0, <2>4 DEF Reject, Clear, CopyPoint, Copied, Succeed, Preempted, server, shared, timerVars, history
  <2> QED  BY <2>1, <2>2, <2>3, <2>4 DEF ActionThread
<1>6. points' \in [goal: 0..goals', n: Nat]
  <2>1. CASE CopyPoint
    BY <1>0, <1>1, <2>1 DEF CopyPoint
  <2>2. CASE Copied
    <3>1. current \in Goals
      BY <1>0, <2>2 DEF Copied, AnswerInv, Goals
    <3>2. size[current] \in Nat
      <4>1. size[current] \in Sizes \cup {0}
        BY <1>0, <3>1
      <4>2. \A n \in Sizes \cup {0} : n \in Nat
        BY <1>0
      <4> QED  BY <4>1, <4>2, Zenon
    <3> QED  BY <1>0, <1>1, <2>2, <3>2 DEF Copied
  <2>3. CASE Clear
    BY <1>0, <1>1, <2>3 DEF Clear, NoPoints
  <2>4. CASE Accept \/ Reject \/ Start \/ Succeed \/ Stop \/ Preempted
    BY <1>0, <1>1, <2>4 DEF Accept, Reject, Start, Succeed, Stop, Preempted, shared
  <2> QED  BY <2>1, <2>2, <2>3, <2>4 DEF ActionThread
<1>7. due' \in Nat
  BY DEF TypeOK, ActionThread, Accept, Reject, Clear, CopyPoint, Copied, Start, Succeed, Stop, Preempted, shared
<1> QED  BY <1>1, <1>2, <1>3, <1>4, <1>5, <1>6, <1>7 DEF TypeOK

\* What the timer does; the counter stays a byte.
LEMMA TimerType == TypeOK /\ (Timer \/ Tick) => TypeOK'
<1> SUFFICES ASSUME TypeOK, Timer \/ Tick PROVE TypeOK'
  OBVIOUS
<1>0. /\ Byte \in Nat \ {0} /\ cntr \in 0..(Byte - 1) /\ trajSize \in Nat /\ due \in Nat /\ points.n \in Nat
      /\ {fresh, preemptRequest, newPreemptRequest, execute, flag, rested} \subseteq BOOLEAN
  BY SizesAssumption DEF TypeOK
<1>1. UNCHANGED <<player, goals, size, server, thread, points, result>>
  BY DEF Timer, TimerIdle, TimerEnter, ReadSize, Jump, Look, Send, Finish, Tick, shared
<1>2. {fresh', preemptRequest', newPreemptRequest', execute', flag', rested'} \subseteq BOOLEAN
  BY <1>0, <1>1 DEF Timer, TimerIdle, TimerEnter, ReadSize, Jump, Look, Send, Finish, Tick, server, shared, timerVars, history
<1>3. due' \in Nat /\ trajSize' \in Nat
  BY <1>0 DEF Timer, TimerIdle, TimerEnter, ReadSize, Jump, Look, Send, Finish, Tick, shared, timerVars
<1>4. cntr' \in 0..(Byte - 1)
  <2>1. CASE Look
    <3>1. CASE UNCHANGED cntr
      BY <1>0, <3>1
    <3>2. CASE NextPoint
      BY <1>0, <3>2 DEF NextPoint
    <3>3. CASE SkipPoints
      <4>1. PICK d \in Passed : /\ cntr < d
                                /\ cntr' = IF cntr + 1 >= trajSize THEN cntr
                                           ELSE IF d < trajSize THEN d ELSE trajSize - 1
        BY <3>3 DEF SkipPoints
      <4>2. d \in Nat
        BY <1>0, <4>1 DEF Passed
      <4> QED  BY <1>0, <3>3, <4>1, <4>2 DEF SkipPoints
    <3> QED  BY <2>1, <3>1, <3>2, <3>3 DEF Look
  <2>2. CASE ~Look
    BY <1>0, <2>2 DEF Timer, TimerIdle, TimerEnter, ReadSize, Jump, Send, Finish, Tick, timerVars
  <2> QED  BY <2>1, <2>2
<1>5. timer' \in {"idle", "size", "jump", "look", "send", "finish", "crashed"}
  BY DEF TypeOK, Timer, TimerIdle, TimerEnter, ReadSize, Jump, Look, NextPoint, SkipPoints, Send, Finish, Tick, timerVars
<1> QED  BY <1>1, <1>2, <1>3, <1>4, <1>5 DEF TypeOK, server

\* Every step keeps the types.
LEMMA NextType == TypeOK /\ AnswerInv /\ [Next]_vars => TypeOK'
<1>1. TypeOK /\ UNCHANGED vars => TypeOK'
  BY DEF TypeOK, vars, server, shared, timerVars, history
<1> QED  BY <1>1, ClientType, ThreadType, TimerType DEF Next

-----------------------------------------------------------------------------
(* Theorems ServerTypes and ServerImplementsActionServer *)

\* At the start there are no goals.
LEMMA InitAnswer == Init => AnswerInv
BY DEF Init, AnswerInv

\* No step answers a goal that has an answer.
LEMMA NextAnswer == TypeOK /\ AnswerInv /\ [Next]_vars =>
                        AnswerInv' /\ \A g \in Goals : result[g] # "none" => result'[g] = result[g]
<1> DEFINE Kept == \A g \in Goals : result[g] # "none" => result'[g] = result[g]
<1> SUFFICES ASSUME TypeOK, AnswerInv, [Next]_vars PROVE AnswerInv' /\ Kept
  OBVIOUS
<1>0. /\ result \in [Goals -> Answers \cup {"none"}] /\ current \in 0..goals /\ next \in 0..goals
      /\ goals \in 0..MaxGoals /\ MaxGoals \in Nat /\ Goals = 1..MaxGoals
      /\ (thread = "idle" => current \in 0..goals)
  BY SizesAssumption DEF TypeOK, Goals
<1>1. ASSUME NEW n \in Sizes, SendGoal(n)
      PROVE  AnswerInv' /\ Kept
  <2>1. goals' = goals + 1 /\ next' = goals + 1 /\ fresh' /\ goals + 1 \in Goals /\ UNCHANGED <<current, thread>>
    BY <1>0, <1>1 DEF SendGoal
  <2>2. result' = IF fresh THEN [result EXCEPT ![next] = "recalled"] ELSE result
    BY <1>1 DEF SendGoal, Answer
  <2>3. fresh => next \in Goals
    BY <1>0 DEF AnswerInv
  <2>4. Kept
    BY <1>0, <2>2, <2>3 DEF AnswerInv
  <2>5. \A g \in Goals : g > goals => result'[g] = "none"
    BY <1>0, <2>2, <2>3 DEF AnswerInv
  <2>6. thread # "idle" => current # 0 /\ result'[current] = "none"
    BY <1>0, <2>2, <2>3 DEF AnswerInv
  <2>7. next' # 0 /\ next' # current' /\ result'[next'] = "none"
    BY <1>0, <2>1, <2>5
  <2>8. \A g \in Goals : g > goals' => result'[g] = "none"
    BY <1>0, <2>1, <2>5
  <2> QED  BY <2>1, <2>4, <2>6, <2>7, <2>8 DEF AnswerInv
<1>2. CASE Accept
  BY <1>0, <1>2 DEF Accept, AnswerInv
\* The action thread answers the goal it works on, and is done with it.
<1>3. ASSUME NEW a, Answer(current, a), thread # "idle", thread' = "idle", UNCHANGED <<goals, current, next, fresh>>
      PROVE  AnswerInv' /\ Kept
  <2>1. result' = [result EXCEPT ![current] = a] /\ result[current] = "none" /\ current \in Goals
    BY <1>0, <1>3 DEF Answer, AnswerInv
  <2> QED  BY <1>0, <1>3, <2>1 DEF AnswerInv
<1>4. CASE Reject
  BY <1>3, <1>4 DEF Reject, server
<1>5. CASE Succeed
  BY <1>3, <1>5 DEF Succeed, server
<1>6. CASE Preempted
  BY <1>3, <1>6 DEF Preempted, server
\* The other steps leave the answers and the goals alone.
<1>7. ASSUME UNCHANGED <<goals, current, next, fresh, result>>, thread' = thread \/ thread # "idle"
      PROVE  AnswerInv' /\ Kept
  BY <1>7 DEF AnswerInv
<1>8. CASE Clear \/ CopyPoint \/ Copied \/ Start \/ Stop
  BY <1>7, <1>8 DEF Clear, CopyPoint, Copied, Start, Stop, server
<1>9. CASE Timer \/ Tick \/ CancelAll
  BY <1>7, <1>9 DEF Timer, TimerIdle, TimerEnter, ReadSize, Jump, Look, Send, Finish, Tick, CancelAll, server
<1>10. CASE UNCHANGED vars
  BY <1>7, <1>10 DEF vars, server
<1> QED
  BY <1>1, <1>2, <1>4, <1>5, <1>6, <1>8, <1>9, <1>10 DEF Next, ActionThread

\* Types of the server's state; the timer's counter is a byte whatever the sizes of the goals
\* (sdk_sagittarius_arm_real.cpp:527, 645).
THEOREM ServerTypes == Spec => []TypeOK
<1>1. Init => TypeOK /\ AnswerInv
  BY InitType, InitAnswer
<1>2. TypeOK /\ AnswerInv /\ [Next]_vars => TypeOK' /\ AnswerInv'
  BY NextType, NextAnswer
<1> QED  BY <1>1, <1>2, PTL DEF Spec

\* The goal being worked on and the newest one sent are the only ones without an answer, and the
\* action thread stops a goal only when it has been asked to.
LifeInv ==
    /\ next = goals
    /\ thread = "idle" => ~Active
    /\ thread = "stopped" => preemptRequest
    /\ \A g \in 1..goals : result[g] = "none" => g = current \/ (g = next /\ fresh)

\* At the start there is no goal.
LEMMA InitLife == Init => LifeInv
BY DEF Init, LifeInv, Active

\* Every step keeps this.
LEMMA NextLife == TypeOK /\ AnswerInv /\ LifeInv /\ [Next]_vars => LifeInv'
<1> SUFFICES ASSUME TypeOK, AnswerInv, LifeInv, [Next]_vars PROVE LifeInv'
  OBVIOUS
<1>0. /\ result \in [Goals -> Answers \cup {"none"}] /\ current \in 0..goals /\ next \in 0..goals
      /\ goals \in 0..MaxGoals /\ MaxGoals \in Nat /\ Goals = 1..MaxGoals
  BY SizesAssumption DEF TypeOK, Goals
<1>1. ASSUME NEW n \in Sizes, SendGoal(n)
      PROVE  LifeInv'
  <2>1. /\ goals' = goals + 1 /\ next' = goals' /\ fresh' /\ goals' \in Goals /\ UNCHANGED <<current, thread>>
        /\ result' = IF fresh THEN [result EXCEPT ![next] = "recalled"] ELSE result
        /\ preemptRequest' = (preemptRequest \/ Active)
    BY <1>0, <1>1 DEF SendGoal, Answer
  <2>2. current # 0 => current \in Goals /\ (result[current] # "none" => result'[current] # "none")
    BY <1>0, <2>1 DEF AnswerInv
  <2>3. \A g \in 1..goals' : result'[g] = "none" => g = current \/ g = next'
    BY <1>0, <2>1 DEF LifeInv, AnswerInv
  <2> QED  BY <2>1, <2>2, <2>3 DEF LifeInv, Active
<1>2. CASE Accept
  BY <1>0, <1>2 DEF Accept, LifeInv, Active
<1>3. ASSUME NEW a, a # "none", Answer(current, a), thread # "idle", thread' = "idle", UNCHANGED <<goals, server>>
      PROVE  LifeInv'
  <2>1. result' = [result EXCEPT ![current] = a] /\ current \in Goals
    BY <1>0, <1>3 DEF Answer, AnswerInv
  <2>2. result'[current] = a /\ \A g \in Goals : g # current => result'[g] = result[g]
    BY <1>0, <2>1
  <2> QED  BY <1>0, <1>3, <2>1, <2>2 DEF LifeInv, Active, server
<1>4. CASE Reject \/ Succeed \/ Preempted
  BY <1>3, <1>4 DEF Reject, Succeed, Preempted
<1>5. ASSUME UNCHANGED <<goals, current, next, fresh, result>>, thread' = thread \/ (thread # "idle" /\ thread' # "idle"),
             preemptRequest => preemptRequest', thread' = "stopped" => preemptRequest'
      PROVE  LifeInv'
  BY <1>5 DEF LifeInv, Active
<1>6. CASE Clear \/ CopyPoint \/ Copied \/ Start \/ Stop
  BY <1>5, <1>6 DEF Clear, CopyPoint, Copied, Start, Stop, server
<1>7. CASE Timer \/ Tick \/ CancelAll \/ UNCHANGED vars
  <2>1. UNCHANGED <<goals, current, next, fresh, result, thread>>
    BY <1>7 DEF Timer, TimerIdle, TimerEnter, ReadSize, Jump, Look, Send, Finish, Tick, CancelAll, server, vars
  <2>2. UNCHANGED preemptRequest \/ CancelAll
    BY <1>7 DEF Timer, TimerIdle, TimerEnter, ReadSize, Jump, Look, Send, Finish, Tick, server, vars
  <2>3. CancelAll => (preemptRequest => preemptRequest')
    BY Zenon DEF CancelAll
  <2> QED  BY <1>5, <2>1, <2>2, <2>3 DEF LifeInv
<1> QED
  BY <1>1, <1>2, <1>4, <1>6, <1>7 DEF Next, ActionThread

\* At the start clients see an action server without goals.
LEMMA AbsInit == Init => Abs!Init
<1> SUFFICES ASSUME Init PROVE Abs!Init
  OBVIOUS
<1>1. \A g \in Goals : Status(g) = "unsent"
  BY DEF Init, Status, Goals
<1> QED  BY <1>1 DEF Abs!Init, Abs!Goals, Goals, Asked

\* What clients see, goal by goal.
LEMMA Seen ==
    ASSUME TypeOK, AnswerInv, LifeInv
    PROVE  /\ \A g \in Goals : /\ Status(g) = "active" <=> g = current /\ result[g] = "none"
                               /\ Status(g) = "pending" <=> g = next /\ fresh
                               /\ Status(g) = "unsent" <=> g > goals
           /\ Asked = {g \in Goals : \/ g = current /\ result[g] = "none" /\ preemptRequest
                                     \/ g = next /\ fresh /\ newPreemptRequest}
<1>0. /\ result \in [Goals -> Answers \cup {"none"}] /\ current \in 0..goals /\ next \in 0..goals
      /\ goals \in 0..MaxGoals /\ MaxGoals \in Nat /\ Goals = 1..MaxGoals
  BY SizesAssumption DEF TypeOK, Goals
<1>1. \A g \in Goals : result[g] \notin {"active", "pending", "unsent"}
  BY <1>0 DEF Answers
<1>2. ASSUME NEW g \in Goals
      PROVE  /\ Status(g) = "active" <=> g = current /\ result[g] = "none"
             /\ Status(g) = "pending" <=> g = next /\ fresh
             /\ Status(g) = "unsent" <=> g > goals
  BY <1>0, <1>1 DEF Status, AnswerInv, LifeInv
<1> QED  BY <1>2 DEF Asked

\* Every step is one of an action server, or clients do not see it.
LEMMA AbsStep == TypeOK /\ AnswerInv /\ LifeInv /\ [Next]_vars => [Abs!Next]_(Abs!avars)
<1> SUFFICES ASSUME TypeOK, AnswerInv, LifeInv, [Next]_vars
             PROVE  Abs!Next \/ UNCHANGED Abs!avars
  OBVIOUS
<1> DEFINE st == [g \in Goals |-> Status(g)]
<1>0. /\ result \in [Goals -> Answers \cup {"none"}] /\ current \in 0..goals /\ next \in 0..goals
      /\ goals \in 0..MaxGoals /\ MaxGoals \in Nat /\ Goals = 1..MaxGoals
  BY SizesAssumption DEF TypeOK, Goals
<1>2. ASSUME NEW n \in Sizes, SendGoal(n)
      PROVE  Abs!Next
  <2>1. /\ goals' = goals + 1 /\ next' = goals' /\ fresh' = TRUE /\ goals' \in Goals /\ UNCHANGED <<current, thread>>
        /\ result' = IF fresh THEN [result EXCEPT ![next] = "recalled"] ELSE result
        /\ preemptRequest' = (preemptRequest \/ Active) /\ newPreemptRequest' = FALSE
    BY <1>0, <1>2 DEF SendGoal, Answer
  <2>2. \A h \in Goals : result'[h] = IF h = next /\ fresh THEN "recalled" ELSE result[h]
    BY <1>0, <2>1 DEF AnswerInv
  <2>3. \A h \in Goals : Status(h)' = IF h = goals' THEN "pending"
                                      ELSE IF Status(h) = "pending" THEN "recalled" ELSE Status(h)
    <3>1. ASSUME NEW h \in Goals, h = goals' PROVE Status(h)' = "pending"
      BY <1>0, <2>1, <2>2, <3>1 DEF Status, AnswerInv, LifeInv
    <3>2. ASSUME NEW h \in Goals, h # goals', h = next /\ fresh PROVE Status(h)' = "recalled" /\ Status(h) = "pending"
      BY <1>0, <2>1, <2>2, <3>2, Seen DEF Status
    <3>3. ASSUME NEW h \in Goals, h # goals', ~(h = next /\ fresh) PROVE Status(h)' = Status(h) /\ Status(h) # "pending"
      <4>1. Status(h) # "pending" /\ result'[h] = result[h] /\ (h <= goals' <=> h <= goals)
        BY <1>0, <2>1, <2>2, <3>3, Seen
      <4> QED  BY <2>1, <4>1 DEF Status
    <3> QED  BY <3>1, <3>2, <3>3
  <2>4. Asked' = {h \in Goals : Status(h) = "active"}
    <3>1. \A h \in Goals : Status(h) = "active" => preemptRequest'
      <4>1. \A h \in Goals : Status(h) = "active" => Active
        BY <1>0, Seen DEF Active
      <4> QED  BY <2>1, <4>1, Zenon
    <3>2. \A h \in Goals : (Status(h) = "active" /\ h # goals') <=> Status(h)' = "active"
      BY <2>3
    <3>3. Status(goals') # "active"
      BY <1>0, <2>1, Seen
    <3> QED  BY <2>1, <3>1, <3>2, <3>3 DEF Asked
  <2>5. Status(goals') = "unsent" /\ \A h \in 1..(goals' - 1) : Status(h) # "unsent"
    BY <1>0, <2>1, Seen
  <2> QED  BY <1>0, <2>1, <2>3, <2>4, <2>5 DEF Abs!Next, Abs!Send, Abs!Only, Abs!Goals, Goals
<1>3. CASE CancelAll
  <2>1. UNCHANGED <<goals, current, next, fresh, result, thread>>
        /\ preemptRequest' = (preemptRequest \/ Active) /\ newPreemptRequest' = (newPreemptRequest \/ fresh)
    BY <1>3 DEF CancelAll
  <2>2. \A h \in Goals : Status(h)' = Status(h)
    BY <2>1 DEF Status
  <2>3. Asked' = {h \in Goals : Status(h) \in {"pending", "active"}}
    <3>1. \A h \in Goals : (Status(h) = "active" => preemptRequest') /\ (Status(h) = "pending" => newPreemptRequest')
      <4>1. \A h \in Goals : (Status(h) = "active" => Active) /\ (Status(h) = "pending" => fresh)
        BY <1>0, Seen DEF Active
      <4> QED  BY <2>1, <4>1, Zenon
    <3> QED  BY <2>2, <3>1 DEF Asked
  <2> QED  BY <2>2, <2>3 DEF Abs!Next, Abs!CancelAll, Abs!Unanswered, Abs!Goals, Goals
<1>4. CASE Accept
  <2>1. /\ current' = next /\ fresh' = FALSE /\ preemptRequest' = newPreemptRequest /\ newPreemptRequest' = FALSE
        /\ UNCHANGED <<goals, next, result>> /\ thread = "idle" /\ fresh
    BY <1>4 DEF Accept
  <2>2. next \in Goals /\ Status(next) = "pending" /\ \A h \in Goals : Status(h) # "active"
    BY <1>0, <2>1, Seen DEF AnswerInv, LifeInv, Active
  <2>3. \A h \in Goals : Status(h)' = IF h = next THEN "active" ELSE Status(h)
    BY <1>0, <2>1, <2>2 DEF Status, AnswerInv, LifeInv, Active
  <2>4. Asked' = Asked
    <3>1. \A h \in Goals : Status(h) = "pending" => h = next
      BY Seen
    <3> QED  BY <2>1, <2>2, <2>3, <3>1 DEF Asked
  <2> QED  BY <2>2, <2>3, <2>4 DEF Abs!Next, Abs!Begin, Abs!Only, Abs!Goals, Goals
<1>5. ASSUME NEW a \in {"succeeded", "invalid", "preempted"}, a = "preempted" => preemptRequest,
             Answer(current, a), thread # "idle", UNCHANGED <<goals, server>>
      PROVE  Abs!Next
  <2>1. result' = [result EXCEPT ![current] = a] /\ current \in Goals /\ result[current] = "none"
    BY <1>0, <1>5 DEF Answer, AnswerInv
  <2>2. \A h \in Goals : result'[h] = IF h = current THEN a ELSE result[h]
    BY <1>0, <2>1
  <2>3. \A h \in Goals : Status(h)' = IF h = current THEN a ELSE Status(h)
    BY <1>0, <1>5, <2>1, <2>2 DEF Status, server
  <2>4. Status(current) = "active" /\ (preemptRequest => current \in Asked)
    BY <2>1, Seen
  <2>5. Asked' = Asked \ {current}
    <3>1. \A h \in Goals : h # current => Status(h)' = Status(h)
      BY <2>3
    <3>2. \A h \in Goals : h = current => Status(h)' \notin {"active", "pending"}
      BY <2>3
    <3> QED  BY <1>5, <3>1, <3>2 DEF Asked, server
  <2> QED  BY <2>1, <2>3, <2>4, <2>5, <1>5 DEF Abs!Next, Abs!End, Abs!Goals, Goals
<1>6. CASE Reject \/ Succeed \/ Preempted
  BY <1>5, <1>6 DEF Reject, Succeed, Preempted, LifeInv
<1>7. CASE UNCHANGED <<goals, server, result>>
  <2>1. \A h \in Goals : Status(h)' = Status(h)
    BY <1>7 DEF Status, server
  <2>2. Asked' = Asked
    BY <1>7, <2>1 DEF Asked, server
  <2> QED  BY <2>1, <2>2 DEF Abs!avars
<1>8. \/ \E n \in Sizes : SendGoal(n)
      \/ CancelAll \/ Accept \/ Reject \/ Succeed \/ Preempted \/ UNCHANGED <<goals, server, result>>
  BY DEF Next, ActionThread, Clear, CopyPoint, Copied, Start, Stop, Timer, TimerIdle, TimerEnter, ReadSize, Jump,
         Look, Send, Finish, Tick, vars
<1> QED
  BY <1>2, <1>3, <1>4, <1>6, <1>7, <1>8

\* To its clients the driver's server is an ActionServer (sdk_sagittarius_arm_real.cpp:445-499): with goals
\* replaced before they are accepted, preempted and cancelled at any point of the action thread and the
\* timer, goals are taken up one at a time, each gets one answer, and PREEMPTED only goals that
\* somebody has asked to stop.
THEOREM ServerImplementsActionServer == Spec => ImplementsActionServer
<1>1. Init => TypeOK /\ AnswerInv /\ LifeInv
  BY InitType, InitAnswer, InitLife
<1>2. TypeOK /\ AnswerInv /\ LifeInv /\ [Next]_vars => TypeOK' /\ AnswerInv' /\ LifeInv'
  BY NextType, NextAnswer, NextLife
<1> QED  BY <1>1, <1>2, AbsInit, AbsStep, PTL DEF Spec, ImplementsActionServer, Abs!Spec

-----------------------------------------------------------------------------
(* What theorems AlwaysSuccessComplete and StraysAlwaysNeedPreempt rest on *)

\* Types of the history, and what of the state is tied to the thread alone.
HistoryType ==
    /\ sent \in [Goals -> Seq(Nat)] /\ stray \in [Goals -> Nat]
    /\ begun \in [Goals -> {"not", "rested", "unrested"}]

\* The points are those of the goal being worked on, all of them.
Loaded ==
    /\ points = [goal |-> current, n |-> size[current]] /\ size[current] >= 2
    /\ player # "gripper" => size[current] < Byte

\* Goals are taken up in the order they are sent; nothing is played before a goal is started.
OrderInv ==
    /\ points.goal <= current /\ (points.n # 0 => points.goal # 0) /\ (fresh => current < next)
    /\ \A g \in Goals : g > current => begun[g] = "not" /\ sent[g] = <<>> /\ stray[g] = 0
                                       /\ result[g] \notin {"succeeded", "preempted"}
    /\ thread \in {"begin", "copy", "start"} => begun[current] = "not" /\ sent[current] = <<>>
    /\ thread = "begin" => points.goal < current
    /\ thread = "copy" => size[current] >= 2 /\ (points.n # 0 => points.goal = current)
    /\ thread \in {"poll", "stopped"} => begun[current] # "not"
    /\ thread \in {"start", "poll", "stopped"} => Loaded
    /\ execute => thread = "poll"
    /\ timer = "jump" => player = "servo"
    /\ \A h \in Goals : result[h] = "preempted" /\ points.n # 0 => h <= points.goal

Quiet == \A h \in Goals : result[h] # "preempted"

\* The timer is within the points.
Counted ==
    /\ timer \in {"idle", "size", "jump", "look"} => cntr < points.n /\ (player = "gripper" => cntr + 1 < points.n)
    /\ timer \in {"jump", "look", "send"} => trajSize = points.n
    /\ timer = "send" => cntr < points.n /\ player # "servo"
    /\ timer # "crashed"

\* Before the first preempt the timer plays only what runs.
QuietInv == Quiet =>
    /\ ~execute /\ thread # "stopped" => timer = "idle" /\ cntr = 0
    /\ execute \/ thread = "stopped" => Counted
    /\ \A g \in Goals : stray[g] = 0

\* After it the timer has at most one point more to send of that goal.
StrayInv ==
    /\ \A g \in Goals : stray[g] # 0 => Disturbed(g)
    /\ \A g \in Goals : result[g] = "preempted" /\ ~Disturbed(g - 1) =>
          /\ stray[g] <= 1
          /\ stray[g] # 0 /\ points.goal = g => timer \in {"idle", "finish", "crashed"} \/ (timer = "look" /\ player = "servo")

Increasing(s) == \A i \in 1..(Len(s) - 1) : s[i] < s[i + 1]

\* What has been sent of a goal that was started after a rest.
Progress ==
    LET s == sent[current]  n == points.n IN
    /\ player = "joints" => /\ timer = "send" => cntr >= 1
                            /\ s = [i \in 1..(IF timer = "send" THEN cntr - 1
                                              ELSE IF timer = "finish" THEN n - 1 ELSE cntr) |-> i]
    /\ player = "servo" => /\ timer \in {"look", "finish"} => ~flag
                           /\ timer = "jump" => flag
                           /\ s = IF flag THEN <<>> ELSE <<n - 1>>
    /\ player = "gripper" => /\ Increasing(s)
                             /\ \A i \in 1..Len(s) : s[i] <= cntr /\ (timer = "send" => s[i] < cntr)
                             /\ timer = "finish" => s # <<>> /\ s[Len(s)] = n - 1

RestInv ==
    /\ rested => timer = "idle" /\ cntr = 0 /\ flag /\ ~execute
    /\ thread = "poll" /\ begun[current] = "rested" =>
          IF execute THEN Counted /\ Progress ELSE timer = "idle" /\ Complete(current)
    /\ RestedComplete

\* Facts of the types and of the answers that all the following use.
LEMMA Basics ==
    ASSUME TypeOK, AnswerInv
    PROVE  /\ goals \in 0..MaxGoals /\ MaxGoals \in Nat /\ Goals = 1..MaxGoals /\ Byte \in Nat \ {0}
           /\ current \in 0..goals /\ next \in 0..goals
           /\ size \in [Goals -> Nat] /\ result \in [Goals -> Answers \cup {"none"}]
           /\ points \in [goal: 0..goals, n: Nat] /\ cntr \in Nat /\ cntr < Byte /\ due \in Nat /\ trajSize \in Nat
           /\ thread # "idle" => current \in Goals /\ result[current] = "none"
           /\ fresh => next \in Goals /\ next # current /\ result[next] = "none"
<1>1. Sizes \cup {0} \subseteq Nat
  BY SizesAssumption
<1>2. size \in [Goals -> Nat]
  BY <1>1 DEF TypeOK
<1> QED  BY <1>2, SizesAssumption DEF TypeOK, AnswerInv, Goals

\* At the start.
LEMMA InitHistory == Init => HistoryType /\ OrderInv /\ QuietInv /\ StrayInv /\ RestInv
<1> SUFFICES ASSUME Init PROVE HistoryType /\ OrderInv /\ QuietInv /\ StrayInv /\ RestInv
  OBVIOUS
<1>1. HistoryType
  BY DEF Init, HistoryType
<1>2. OrderInv
  BY DEF Init, OrderInv, NoPoints, Goals
<1>3. QuietInv /\ StrayInv
  BY DEF Init, QuietInv, StrayInv
<1>4. RestInv
  BY DEF Init, RestInv, RestedComplete
<1> QED  BY <1>1, <1>2, <1>3, <1>4

\* A point handed to the servos.
LEMMA ToServosDoes ==
    ASSUME TypeOK, AnswerInv, OrderInv, NEW k \in Nat, ToServos(k)
    PROVE  \/ k >= points.n /\ UNCHANGED <<sent, stray>>
           \/ /\ k < points.n /\ points.goal \in Goals /\ Running(points.goal) /\ UNCHANGED stray
              /\ sent' = [sent EXCEPT ![points.goal] = Append(@, k)]
           \/ /\ k < points.n /\ points.goal \in Goals /\ ~Running(points.goal) /\ UNCHANGED sent
              /\ stray' = [stray EXCEPT ![points.goal] = @ + 1]
<1>1. points.n \in Nat /\ points.goal \in 0..goals
  BY Basics
<1>2. k < points.n => points.goal \in Goals
  BY <1>1, Basics DEF OrderInv
<1> QED  BY <1>1, <1>2 DEF ToServos

\* The timer hands over points only when it jumps or sends.
LEMMA TimerSends ==
    ASSUME TypeOK, Timer
    PROVE  \/ UNCHANGED <<sent, stray>>
           \/ Jump /\ trajSize # 0 /\ trajSize - 1 \in Nat /\ ToServos(trajSize - 1)
           \/ Send /\ cntr \in Nat /\ ToServos(cntr)
<1>1. trajSize \in Nat /\ cntr \in Nat
  BY SizesAssumption DEF TypeOK
<1> QED  BY <1>1 DEF Timer, TimerIdle, TimerEnter, ReadSize, Jump, Look, Send, Finish, history

\* Every step keeps the types of the history.
LEMMA NextHistory == TypeOK /\ AnswerInv /\ OrderInv /\ HistoryType /\ [Next]_vars => HistoryType'
<1> SUFFICES ASSUME TypeOK, AnswerInv, OrderInv, HistoryType, [Next]_vars PROVE HistoryType'
  OBVIOUS
<1>1. CASE UNCHANGED <<sent, stray, begun>>
  BY <1>1 DEF HistoryType
<1>2. CASE Start
  <2>1. current \in Goals
    BY <1>2, Basics DEF Start
  <2> QED  BY <1>2, <2>1 DEF Start, HistoryType
<1>3. ASSUME NEW k \in Nat, ToServos(k), UNCHANGED begun PROVE HistoryType'
  <2>1. CASE UNCHANGED <<sent, stray>>
    BY <1>3, <2>1 DEF HistoryType
  <2>2. CASE /\ points.goal \in Goals /\ UNCHANGED stray
             /\ sent' = [sent EXCEPT ![points.goal] = Append(@, k)]
    <3>1. Append(sent[points.goal], k) \in Seq(Nat)
      BY <2>2 DEF HistoryType
    <3> QED  BY <1>3, <2>2, <3>1 DEF HistoryType
  <2>3. CASE /\ points.goal \in Goals /\ UNCHANGED sent
             /\ stray' = [stray EXCEPT ![points.goal] = @ + 1]
    BY <1>3, <2>3 DEF HistoryType
  <2> QED  BY <1>3, <2>1, <2>2, <2>3, ToServosDoes
<1>4. CASE Timer
  <2>1. UNCHANGED begun
    BY <1>4 DEF Timer, TimerIdle, TimerEnter, ReadSize, Jump, Look, Send, Finish, history
  <2> QED  BY <1>1, <1>3, <1>4, <2>1, TimerSends
<1>5. CASE ~Timer /\ ~Start
  <2>1. UNCHANGED <<sent, stray, begun>>
    BY <1>5 DEF Next, SendGoal, CancelAll, ActionThread, Accept, Reject, Clear, CopyPoint, Copied, Succeed, Stop, Preempted,
                Tick, history, vars
  <2> QED  BY <1>1, <2>1
<1> QED  BY <1>2, <1>4, <1>5

\* Every step keeps OrderInv.
LEMMA NextOrder == TypeOK /\ AnswerInv /\ HistoryType /\ OrderInv /\ [Next]_vars => OrderInv'
<1> SUFFICES ASSUME TypeOK, AnswerInv, HistoryType, OrderInv, [Next]_vars PROVE OrderInv'
  OBVIOUS
<1>0. /\ goals \in 0..MaxGoals /\ MaxGoals \in Nat /\ Goals = 1..MaxGoals /\ Byte \in Nat \ {0}
      /\ current \in 0..goals /\ next \in 0..goals
      /\ size \in [Goals -> Nat] /\ result \in [Goals -> Answers \cup {"none"}]
      /\ points \in [goal: 0..goals, n: Nat] /\ cntr \in Nat /\ due \in Nat /\ trajSize \in Nat
      /\ thread # "idle" => current \in Goals /\ result[current] = "none"
      /\ fresh => next \in Goals /\ next # current /\ result[next] = "none"
  BY Basics
<1>1. ASSUME NEW n \in Sizes, SendGoal(n)
      PROVE  OrderInv'
  <2>1. /\ goals' = goals + 1 /\ goals + 1 \in Goals /\ next' = goals + 1 /\ size' = [size EXCEPT ![goals + 1] = n]
        /\ UNCHANGED <<player, current, thread, execute, points, timer, sent, stray, begun>>
    BY <1>0, <1>1 DEF SendGoal, shared, timerVars, history
  <2>2. \A g \in Goals : result'[g] = result[g] \/ result'[g] = "recalled"
    BY <1>0, <1>1 DEF SendGoal, Answer
  <2>3. current \in Goals => size'[current] = size[current]
    BY <1>0, <2>1
  <2>4. Loaded /\ thread # "idle" => Loaded'
    BY <1>0, <2>1, <2>3 DEF Loaded
  <2>5. \A g \in Goals : g > current => begun'[g] = "not" /\ sent'[g] = <<>> /\ stray'[g] = 0
                                          /\ result'[g] \notin {"succeeded", "preempted"}
    BY <2>1, <2>2 DEF OrderInv
  <2>6. thread = "copy" => size'[current] >= 2
    BY <1>0, <2>1, <2>3 DEF OrderInv
  <2>7. \A h \in Goals : result'[h] = "preempted" /\ points.n # 0 => h <= points.goal
    BY <2>2 DEF OrderInv
  <2>8. current < goals + 1
    BY <1>0
  <2> QED  BY <2>1, <2>4, <2>5, <2>6, <2>7, <2>8 DEF OrderInv
<1>2. CASE Accept
  <2>1. /\ current' = next /\ next \in Goals /\ current < next /\ ~fresh' /\ thread' = "begin" /\ ~execute
        /\ UNCHANGED <<player, goals, size, execute, points, timer, result, sent, stray, begun>>
    BY <1>0, <1>2 DEF Accept, OrderInv, shared, timerVars, history
  <2> QED  BY <1>0, <2>1 DEF OrderInv
\* An answer ends the work on a goal.
<1>3. ASSUME NEW a \in Answers, Answer(current, a), thread # "idle", thread' = "idle", a # "succeeded" \/ thread = "poll",
             a = "preempted" => thread = "stopped", ~execute,
             UNCHANGED <<player, goals, size, current, next, fresh, execute, points, timer, sent, stray, begun>>
      PROVE  OrderInv'
  <2>1. current \in Goals /\ result' = [result EXCEPT ![current] = a]
    BY <1>0, <1>3 DEF Answer
  <2>2. a = "preempted" => points.goal = current
    BY <1>3 DEF OrderInv, Loaded
  <2>3. \A h \in Goals : result'[h] = "preempted" /\ points.n # 0 => h <= points.goal
    BY <1>0, <2>1, <2>2 DEF OrderInv
  <2>4. \A g \in Goals : g > current => result'[g] = result[g]
    BY <1>0, <2>1
  <2> QED  BY <1>3, <2>3, <2>4 DEF OrderInv
<1>4. CASE Reject
  BY <1>3, <1>4 DEF Reject, server, shared, timerVars, history, OrderInv, Answers
<1>5. CASE Succeed
  BY <1>3, <1>5 DEF Succeed, server, shared, timerVars, history, Answers
<1>6. CASE Preempted
  BY <1>3, <1>6 DEF Preempted, server, shared, timerVars, history, OrderInv, Answers
<1>7. CASE Clear
  <2>1. /\ thread = "begin" /\ ~execute /\ thread' = "copy" /\ points' = NoPoints /\ size[current] >= 2
        /\ UNCHANGED <<player, goals, size, current, next, fresh, execute, timer, result, sent, stray, begun>>
    BY <1>7 DEF Clear, OrderInv, server, timerVars, history
  <2> QED  BY <1>0, <2>1 DEF OrderInv, NoPoints
<1>8. CASE CopyPoint
  <2>1. /\ thread = "copy" /\ points' = [goal |-> current, n |-> points.n + 1]
        /\ UNCHANGED <<player, goals, size, current, next, fresh, thread, execute, timer, result, sent, stray, begun>>
    BY <1>8 DEF CopyPoint, server, timerVars, history
  <2>2. \A h \in Goals : result[h] = "preempted" => h <= current
    BY <1>0 DEF OrderInv
  <2> QED  BY <1>0, <2>1, <2>2 DEF OrderInv
<1>9. CASE Copied
  <2>1. /\ thread = "copy" /\ thread' = "start" /\ ~execute
        /\ UNCHANGED <<player, goals, size, current, next, fresh, execute, timer, result, sent, stray, begun>>
    BY <1>9 DEF Copied, server, timerVars, history, OrderInv
  <2>2. current \in Goals /\ size[current] \in Nat /\ size[current] >= 2
    BY <1>0, <2>1 DEF OrderInv
  <2>3. points' = [goal |-> current, n |-> size[current]] /\ (player # "gripper" => size[current] < Byte)
    BY <1>0, <1>9, <2>1, <2>2 DEF Copied, OrderInv
  <2>4. Loaded'
    BY <2>1, <2>2, <2>3 DEF Loaded
  <2>5. \A h \in Goals : result[h] = "preempted" => h <= current
    BY <1>0 DEF OrderInv
  <2> QED  BY <1>0, <2>1, <2>2, <2>3, <2>4, <2>5 DEF OrderInv
<1>10. CASE Start
  <2>1. /\ thread = "start" /\ thread' = "poll" /\ current \in Goals
        /\ begun' = [begun EXCEPT ![current] = IF rested THEN "rested" ELSE "unrested"]
        /\ UNCHANGED <<player, goals, size, current, next, fresh, points, timer, result, sent, stray>>
    BY <1>0, <1>10 DEF Start, server, timerVars
  <2>2. begun'[current] # "not" /\ \A g \in Goals : g > current => begun'[g] = begun[g]
    BY <1>0, <2>1 DEF HistoryType
  <2>3. Loaded'
    BY <2>1 DEF OrderInv, Loaded
  <2> QED  BY <2>1, <2>2, <2>3 DEF OrderInv
<1>11. CASE Stop
  <2>1. /\ thread = "poll" /\ thread' = "stopped" /\ ~execute'
        /\ UNCHANGED <<player, goals, size, current, next, fresh, points, timer, result, sent, stray, begun>>
    BY <1>11 DEF Stop, server, timerVars, history
  <2>2. Loaded'
    BY <2>1 DEF OrderInv, Loaded
  <2> QED  BY <2>1, <2>2 DEF OrderInv
<1>12. ASSUME UNCHANGED <<player, goals, size, current, next, fresh, points, result, thread, begun>>,
              execute' => execute, timer' = "jump" => player = "servo",
              \A g \in Goals : g # points.goal \/ points.n = 0 => sent'[g] = sent[g] /\ stray'[g] = stray[g],
              thread \in {"copy", "start"} => UNCHANGED sent
       PROVE  OrderInv'
  <2>1. Loaded' <=> Loaded
    BY <1>12 DEF Loaded
  <2>2. \A g \in Goals : g > current => sent'[g] = sent[g] /\ stray'[g] = stray[g]
    BY <1>0, <1>12 DEF OrderInv
  <2>3. thread \in {"begin", "copy", "start"} => sent'[current] = sent[current]
    BY <1>0, <1>12 DEF OrderInv
  <2> QED  BY <1>12, <2>1, <2>2, <2>3 DEF OrderInv
<1>13. CASE Timer
  <2>1. /\ UNCHANGED <<player, goals, size, current, next, fresh, points, result, thread, begun>>
        /\ execute' => execute
    BY <1>13 DEF Timer, TimerIdle, TimerEnter, ReadSize, Jump, Look, Send, Finish, shared, server, history
  <2>2. timer' = "jump" => player = "servo"
    BY <1>13 DEF Timer, TimerIdle, TimerEnter, ReadSize, Jump, Look, NextPoint, SkipPoints, Send, Finish, OrderInv
  <2>3. \/ UNCHANGED <<sent, stray>>
        \/ /\ points.goal \in Goals /\ points.n # 0 /\ Running(points.goal) /\ UNCHANGED stray
           /\ \E k : sent' = [sent EXCEPT ![points.goal] = Append(@, k)]
        \/ /\ points.goal \in Goals /\ points.n # 0 /\ UNCHANGED sent
           /\ stray' = [stray EXCEPT ![points.goal] = @ + 1]
    <3>1. ASSUME NEW k \in Nat, k < points.n PROVE points.n # 0
      BY <1>0, <3>1
    <3> QED  BY <1>13, <3>1, TimerSends, ToServosDoes
  <2>4. \A g \in Goals : g # points.goal \/ points.n = 0 => sent'[g] = sent[g] /\ stray'[g] = stray[g]
    BY <2>3 DEF HistoryType
  <2>5. thread \in {"copy", "start"} => UNCHANGED sent
    BY <2>3 DEF Running
  <2> QED  BY <1>12, <2>1, <2>2, <2>4, <2>5
<1>14. CASE CancelAll \/ Tick \/ UNCHANGED vars
  <2>1. UNCHANGED <<player, goals, size, current, next, fresh, points, result, thread, begun, execute, timer, sent, stray>>
    BY <1>14 DEF CancelAll, Tick, shared, server, timerVars, history, vars
  <2>2. timer = "jump" => player = "servo"
    BY DEF OrderInv
  <2> QED  BY <1>12, <2>1, <2>2
<1> QED
  BY <1>1, <1>2, <1>4, <1>5, <1>6, <1>7, <1>8, <1>9, <1>10, <1>11, <1>13, <1>14 DEF Next, ActionThread

\* What the timer finds while a goal runs: its time is not being changed.
LEMMA LookWhileRunning ==
    ASSUME TypeOK, AnswerInv, OrderInv, thread \in {"poll", "stopped"}, Counted, Look
    PROVE  \/ timer' = "idle" /\ UNCHANGED cntr
           \/ player # "gripper" /\ NextPoint /\ cntr' = cntr + 1
           \/ player = "gripper" /\ SkipPoints /\ cntr < cntr' /\ cntr' < trajSize
<1>0. /\ cntr \in Nat /\ due \in Nat /\ trajSize \in Nat /\ points.n \in Nat /\ Byte \in Nat \ {0} /\ trajSize = points.n /\ cntr < points.n
      /\ timer = "look" /\ (player = "gripper" => cntr + 1 < points.n)
  BY Basics DEF Counted, Look
<1>1. Passed = {due}
  BY DEF Passed, Racing
<1>2. Over = {IF cntr < due THEN "yes" ELSE "no"}
  BY <1>0, <1>1 DEF Over
<1>3. "crash" \notin Over
  BY <1>2
<1>4. CASE player # "gripper" /\ NextPoint
  <2>1. points.n < Byte
    BY <1>0, <1>4 DEF OrderInv, Loaded
  <2> QED  BY <1>0, <1>4, <2>1 DEF NextPoint
<1>5. CASE player = "gripper" /\ SkipPoints
  BY <1>0, <1>1, <1>5 DEF SkipPoints
<1> QED  BY <1>3, <1>4, <1>5 DEF Look

\* The timer stays within the points of a goal that runs.
LEMMA CountedNext ==
    ASSUME TypeOK, AnswerInv, OrderInv, thread \in {"poll", "stopped"}, Counted, Timer
    PROVE  Counted'
<1>0. /\ cntr \in Nat /\ points.n \in Nat /\ points.n >= 2 /\ UNCHANGED <<player, points>>
  <2>1. points.n \in Nat /\ cntr \in Nat /\ points.n >= 2
    BY Basics DEF OrderInv, Loaded
  <2>2. UNCHANGED <<player, points>>
    BY DEF Timer, TimerIdle, TimerEnter, ReadSize, Jump, Look, Send, Finish, shared
  <2> QED  BY <2>1, <2>2
<1>1. CASE TimerIdle
  BY <1>0, <1>1 DEF TimerIdle, Counted
<1>2. CASE TimerEnter
  BY <1>0, <1>2 DEF TimerEnter, Counted
<1>3. CASE ReadSize
  BY <1>0, <1>3 DEF ReadSize, Counted
<1>4. CASE Jump
  BY <1>0, <1>4 DEF Jump, Counted
<1>5. CASE Look
  <2>0. timer = "look" /\ trajSize \in Nat /\ UNCHANGED trajSize
    BY <1>5, Basics DEF Look
  <2>1. CASE timer' = "idle" /\ UNCHANGED cntr
    BY <1>0, <2>0, <2>1 DEF Counted
  <2>2. CASE player # "gripper" /\ NextPoint /\ cntr' = cntr + 1
    BY <1>0, <2>0, <2>2 DEF NextPoint, Counted, TypeOK
  <2>3. CASE player = "gripper" /\ SkipPoints /\ cntr < cntr' /\ cntr' < trajSize
    BY <1>0, <2>0, <2>3 DEF SkipPoints, Counted
  <2> QED  BY <1>5, <2>1, <2>2, <2>3, LookWhileRunning
<1>6. CASE Send
  BY <1>0, <1>6 DEF Send, Counted
<1>7. CASE Finish
  BY <1>0, <1>7 DEF Finish, Counted
<1> QED  BY <1>1, <1>2, <1>3, <1>4, <1>5, <1>6, <1>7 DEF Timer

\* Every step keeps QuietInv.
LEMMA NextQuiet == TypeOK /\ AnswerInv /\ HistoryType /\ OrderInv /\ QuietInv /\ [Next]_vars => QuietInv'
<1> SUFFICES ASSUME TypeOK, AnswerInv, HistoryType, OrderInv, QuietInv, [Next]_vars, Quiet' PROVE QuietInv'
  BY DEF QuietInv
<1>0. Quiet
  BY NextAnswer DEF Quiet
<1>1. /\ ~execute /\ thread # "stopped" => timer = "idle" /\ cntr = 0
      /\ execute \/ thread = "stopped" => Counted
      /\ \A g \in Goals : stray[g] = 0
  BY <1>0 DEF QuietInv
<1>2. ASSUME UNCHANGED <<execute, timer, cntr, stray>>, ~execute, thread # "stopped", thread' # "stopped"
      PROVE  QuietInv'
  BY <1>1, <1>2 DEF QuietInv
<1>3. ASSUME UNCHANGED <<player, execute, thread, timer, cntr, trajSize, points, stray>>
      PROVE  QuietInv'
  BY <1>1, <1>3 DEF QuietInv, Counted
<1>4. CASE (\E n \in Sizes : SendGoal(n)) \/ CancelAll \/ Tick \/ UNCHANGED vars
  BY <1>3, <1>4 DEF SendGoal, CancelAll, Tick, shared, timerVars, history, vars
<1>5. CASE Accept \/ Reject \/ Clear \/ CopyPoint \/ Copied \/ Succeed
  <2>1. UNCHANGED <<execute, timer, cntr, stray>> /\ thread # "stopped" /\ thread' # "stopped"
    BY <1>5 DEF Accept, Reject, Clear, CopyPoint, Copied, Succeed, shared, timerVars, history
  <2>2. ~execute
    BY <1>5 DEF Accept, Reject, Clear, CopyPoint, Copied, Succeed, OrderInv
  <2> QED  BY <1>2, <2>1, <2>2
<1>6. CASE Start
  <2>1. /\ thread = "start" /\ thread' = "poll" /\ execute' = TRUE /\ UNCHANGED <<player, timer, cntr, trajSize, points, stray>>
    BY <1>6 DEF Start, timerVars
  <2>2. timer = "idle" /\ cntr = 0 /\ points.n >= 2
    BY <1>1, <2>1 DEF OrderInv, Loaded
  <2>3. points.n \in Nat
    BY Basics
  <2>4. Counted'
    BY <2>1, <2>2, <2>3 DEF Counted
  <2> QED  BY <1>1, <2>1, <2>4 DEF QuietInv
<1>7. CASE Stop
  <2>1. execute /\ thread' = "stopped" /\ UNCHANGED <<player, timer, cntr, trajSize, points, stray>>
    BY <1>7 DEF Stop, timerVars, history
  <2>2. Counted'
    BY <1>1, <2>1 DEF Counted
  <2> QED  BY <1>1, <2>1, <2>2 DEF QuietInv
<1>8. CASE Preempted
  <2>1. current \in Goals /\ result'[current] = "preempted"
    BY <1>8, Basics DEF Preempted, Answer
  <2> QED  BY <2>1 DEF Quiet
<1>9. CASE Timer
  <2>1. UNCHANGED thread
    BY <1>9 DEF Timer, TimerIdle, TimerEnter, ReadSize, Jump, Look, Send, Finish
  <2>2. CASE ~execute /\ thread # "stopped"
    <3>1. TimerIdle
      BY <1>1, <1>9, <2>2 DEF Timer, TimerIdle, TimerEnter, ReadSize, Jump, Look, Send, Finish
    <3> QED  BY <1>1, <2>2, <3>1 DEF TimerIdle, shared, QuietInv
  <2>3. CASE execute \/ thread = "stopped"
    <3>1. thread \in {"poll", "stopped"} /\ Counted
      BY <1>1, <2>3 DEF OrderInv
    <3>2. Counted'
      BY <1>9, <3>1, CountedNext
    <3>3. UNCHANGED stray
      <4>1. ASSUME NEW k \in Nat, ToServos(k) PROVE UNCHANGED stray
        <5>1. points.goal = current
          BY <3>1 DEF OrderInv, Loaded
        <5>2. Running(points.goal)
          BY <3>1, <5>1 DEF Running
        <5> QED  BY <4>1, <5>2 DEF ToServos
      <4> QED  BY <1>9, <4>1, TimerSends
    <3>4. execute' \/ thread' = "stopped" \/ (timer' = "idle" /\ cntr' = 0)
      BY <1>9, <2>1, <2>3 DEF Timer, TimerIdle, TimerEnter, ReadSize, Jump, Look, Send, Finish, shared
    <3> QED  BY <1>1, <3>2, <3>3, <3>4 DEF QuietInv
  <2> QED  BY <2>2, <2>3
<1> QED
  BY <1>4, <1>5, <1>6, <1>7, <1>8, <1>9 DEF Next, ActionThread

\* Only preempting answers "preempted", and that is never taken back.
LEMMA PreemptedKept ==
    ASSUME TypeOK, AnswerInv, [Next]_vars
    PROVE  /\ \A g \in Goals : result[g] = "preempted" => result'[g] = "preempted"
           /\ \A g \in Goals : result'[g] = "preempted" => result[g] = "preempted" \/ (Preempted /\ g = current)
           /\ \A g \in Nat : Disturbed(g) /\ g <= MaxGoals => Disturbed(g)'
<1>0. current \in 0..MaxGoals /\ Goals = 1..MaxGoals /\ MaxGoals \in Nat /\ result \in [Goals -> Answers \cup {"none"}]
  BY Basics
<1>1. \A g \in Goals : result[g] = "preempted" => result'[g] = "preempted"
  BY NextAnswer
<1>2. ASSUME NEW g \in Goals, result'[g] = "preempted", result[g] # "preempted" PROVE Preempted /\ g = current
  <2>1. CASE Preempted
    BY <1>0, <1>2, <2>1 DEF Preempted, Answer
  <2>2. CASE ~Preempted
    BY <1>0, <1>2, <2>2 DEF Next, ActionThread, SendGoal, CancelAll, Accept, Reject, Clear, CopyPoint, Copied, Start, Succeed, Stop,
                      Timer, TimerIdle, TimerEnter, ReadSize, Jump, Look, Send, Finish, Tick, vars, Answer
  <2> QED  BY <2>1, <2>2
<1>3. \A g \in Nat : Disturbed(g) /\ g <= MaxGoals => Disturbed(g)'
  <2> SUFFICES ASSUME NEW g \in Nat, g <= MaxGoals, NEW h \in 1..g, result[h] = "preempted" PROVE \E i \in 1..g : result'[i] = "preempted"
    BY DEF Disturbed
  <2>1. h \in Goals
    BY <1>0
  <2> QED  BY <1>1, <2>1
<1> QED  BY <1>1, <1>2, <1>3

\* Every step keeps StrayInv.
LEMMA NextStray == TypeOK /\ AnswerInv /\ HistoryType /\ OrderInv /\ QuietInv /\ StrayInv /\ [Next]_vars => StrayInv'
<1> SUFFICES ASSUME TypeOK, AnswerInv, HistoryType, OrderInv, QuietInv, StrayInv, [Next]_vars PROVE StrayInv'
  OBVIOUS
<1>0. /\ Goals = 1..MaxGoals /\ MaxGoals \in Nat /\ current \in 0..goals /\ goals \in 0..MaxGoals
      /\ points.n \in Nat /\ points.goal \in 0..goals
      /\ thread # "idle" => current \in Goals /\ result[current] = "none"
  BY Basics
\* What a step does to the strays.
<1>1. \/ UNCHANGED stray
      \/ /\ points.goal \in Goals /\ points.n # 0 /\ ~Running(points.goal)
         /\ stray' = [stray EXCEPT ![points.goal] = @ + 1]
         /\ Jump \/ Send
  <2>1. CASE Timer
    <3>1. ASSUME NEW k \in Nat, k < points.n PROVE points.n # 0
      BY <1>0, <3>1
    <3> QED  BY <2>1, <3>1, TimerSends, ToServosDoes
  <2>2. CASE ~Timer
    BY <2>2 DEF Next, ActionThread, SendGoal, CancelAll, Accept, Reject, Clear, CopyPoint, Copied, Start, Succeed, Stop,
                Preempted, Tick, vars, history
  <2> QED  BY <2>1, <2>2
<1>2. \A g \in Goals : stray'[g] # 0 => Disturbed(g)'
  <2> SUFFICES ASSUME NEW g \in Goals, stray'[g] # 0 PROVE Disturbed(g)'
    OBVIOUS
  <2>1. CASE stray[g] # 0
    <3>1. Disturbed(g)
      BY <2>1 DEF StrayInv
    <3> QED  BY <1>0, <3>1, PreemptedKept
  <2>2. CASE stray[g] = 0
    <3>1. /\ points.goal = g /\ points.n # 0 /\ ~Running(g) /\ (Jump \/ Send)
      BY <1>1, <2>2 DEF HistoryType
    <3>2. ~Quiet
      <4> SUFFICES ASSUME Quiet PROVE FALSE
        OBVIOUS
      <4>1. execute \/ thread = "stopped"
        BY <3>1 DEF QuietInv, Jump, Send
      <4>2. thread \in {"poll", "stopped"} /\ points.goal = current
        BY <4>1 DEF OrderInv, Loaded
      <4> QED  BY <3>1, <4>2 DEF Running
    <3>3. PICK h \in Goals : result[h] = "preempted"
      BY <3>2 DEF Quiet
    <3>4. h \in 1..g /\ result'[h] = "preempted"
      BY <1>0, <3>1, <3>3, PreemptedKept DEF OrderInv
    <3> QED  BY <3>4 DEF Disturbed
  <2> QED  BY <2>1, <2>2
<1>3. ASSUME NEW g \in Goals, result'[g] = "preempted", ~Disturbed(g - 1)'
      PROVE  /\ stray'[g] <= 1
             /\ stray'[g] # 0 /\ points'.goal = g => timer' \in {"idle", "finish", "crashed"} \/ (timer' = "look" /\ player' = "servo")
  <2>0. g - 1 \in Nat /\ g - 1 <= MaxGoals /\ ~Disturbed(g - 1)
    BY <1>0, <1>3, PreemptedKept
  <2>1. CASE result[g] # "preempted"
    <3>1. Preempted /\ g = current
      BY <1>3, <2>1, PreemptedKept
    <3>2. points.goal = current /\ points.n # 0 /\ UNCHANGED stray
      BY <1>0, <3>1 DEF OrderInv, Loaded, Preempted, history
    <3>3. \A h \in Goals : result[h] = "preempted" => h \in 1..(g - 1)
      BY <1>0, <2>1, <3>1, <3>2 DEF OrderInv
    <3>4. Quiet
      BY <2>0, <3>3 DEF Quiet, Disturbed
    <3>5. stray'[g] = 0
      BY <3>2, <3>4 DEF QuietInv
    <3> QED  BY <3>5
  <2>2. CASE result[g] = "preempted"
    <3>1. /\ stray[g] <= 1
          /\ stray[g] # 0 /\ points.goal = g => timer \in {"idle", "finish", "crashed"} \/ (timer = "look" /\ player = "servo")
      BY <2>0, <2>2 DEF StrayInv
    <3>2. UNCHANGED player
      BY DEF Next, ActionThread, SendGoal, CancelAll, Accept, Reject, Clear, CopyPoint, Copied, Start, Succeed, Stop, Preempted,
             Timer, TimerIdle, TimerEnter, ReadSize, Jump, Look, Send, Finish, Tick, vars
    <3>3. points.goal = g => ~execute
      BY <1>0, <2>2 DEF OrderInv, Loaded
    <3>4. CASE Timer
      <4>1. UNCHANGED points
        BY <3>4 DEF Timer, TimerIdle, TimerEnter, ReadSize, Jump, Look, Send, Finish, shared
      <4>2. CASE points.goal # g
        <5>1. stray'[g] = stray[g]
          BY <1>1, <4>2 DEF HistoryType
        <5> QED  BY <3>1, <4>1, <4>2, <5>1
      <4>3. CASE points.goal = g /\ stray[g] # 0
        <5>1. ~Jump /\ ~Send /\ ~TimerEnter /\ ~ReadSize
          BY <3>1, <3>3, <4>3 DEF Jump, Send, TimerEnter, ReadSize
        <5>2. UNCHANGED stray
          BY <1>1, <5>1
        <5>3. timer' \in {"idle", "finish", "crashed"}
          BY <3>1, <3>4, <4>3, <5>1 DEF Timer, TimerIdle, Look, NextPoint, SkipPoints, Finish
        <5> QED  BY <3>1, <5>2, <5>3
      <4>4. CASE points.goal = g /\ stray[g] = 0
        <5>1. CASE UNCHANGED stray
          BY <4>4, <5>1
        <5>2. CASE /\ stray' = [stray EXCEPT ![points.goal] = @ + 1]
                   /\ Jump \/ Send
          <6>1. stray'[g] = 1
            BY <4>4, <5>2 DEF HistoryType
          <6>2. timer' \in {"idle", "finish", "crashed"} \/ (timer' = "look" /\ player = "servo")
            BY <5>2 DEF Jump, Send, OrderInv
          <6> QED  BY <3>2, <6>1, <6>2
        <5> QED  BY <1>1, <5>1, <5>2
      <4> QED  BY <4>2, <4>3, <4>4
    <3>5. CASE ~Timer
      <4>1. UNCHANGED <<stray, timer>>
        BY <3>5 DEF Next, ActionThread, SendGoal, CancelAll, Accept, Reject, Clear, CopyPoint, Copied, Start, Succeed, Stop,
                    Preempted, Tick, vars, history, timerVars
      <4>2. points'.goal = g => points.goal = g
        <5>1. CASE Clear
          BY <1>0, <5>1 DEF Clear, NoPoints
        <5>2. CASE CopyPoint \/ Copied
          BY <1>0, <2>2, <5>2 DEF CopyPoint, Copied
        <5>3. CASE ~Clear /\ ~CopyPoint /\ ~Copied
          BY <3>5, <5>3 DEF Next, ActionThread, SendGoal, CancelAll, Accept, Reject, Start, Succeed, Stop,
                    Preempted, Tick, vars, shared
        <5> QED  BY <5>1, <5>2, <5>3
      <4> QED  BY <3>1, <3>2, <4>1, <4>2
    <3> QED  BY <3>4, <3>5
  <2> QED  BY <2>1, <2>2
<1> QED  BY <1>2, <1>3 DEF StrayInv

\* Counting on.
LEMMA CountUp == ASSUME NEW c \in Nat PROVE Append([i \in 1..c |-> i], c + 1) = [i \in 1..(c + 1) |-> i]
<1> DEFINE s == [i \in 1..c |-> i]
           t == [i \in 1..(c + 1) |-> i]
<1>1. s \in Seq(Nat) /\ Len(s) = c
  OBVIOUS
<1>2. t \in Seq(Nat) /\ Len(t) = c + 1
  OBVIOUS
<1>3. \A i \in 1..c : s[i] = i
  OBVIOUS
<1>4. \A i \in 1..(c + 1) : t[i] = i
  OBVIOUS
<1> HIDE DEF s, t
<1>5. /\ Append(s, c + 1) \in Seq(Nat) /\ Len(Append(s, c + 1)) = c + 1
      /\ \A i \in 1..(c + 1) : Append(s, c + 1)[i] = i
  BY <1>1, <1>3
<1>6. Append(s, c + 1) = t
  BY <1>2, <1>4, <1>5
<1> QED  BY <1>6 DEF s, t

\* A larger point at the end.
LEMMA IncreasingOn ==
    ASSUME NEW s \in Seq(Nat), Increasing(s), NEW k \in Nat, \A i \in 1..Len(s) : s[i] < k
    PROVE  LET t == Append(s, k) IN
           /\ t \in Seq(Nat) /\ t # <<>> /\ t[Len(t)] = k /\ Increasing(t)
           /\ \A i \in 1..Len(t) : t[i] <= k
<1> DEFINE t == Append(s, k)
<1>1. Len(s) \in Nat /\ \A i \in 1..Len(s) : s[i] \in Nat
  OBVIOUS
<1>2. /\ t \in Seq(Nat) /\ Len(t) = Len(s) + 1 /\ t[Len(s) + 1] = k
      /\ \A i \in 1..Len(s) : t[i] = s[i]
  BY <1>1
<1> HIDE DEF t
<1>3. t # <<>> /\ t[Len(t)] = k
  BY <1>1, <1>2
<1>4. \A i \in 1..Len(t) : t[i] <= k
  <2> SUFFICES ASSUME NEW i \in 1..(Len(s) + 1) PROVE t[i] <= k
    BY <1>2
  <2>1. CASE i \in 1..Len(s)
    BY SMTT(30), <1>1, <1>2, <2>1
  <2>2. CASE i = Len(s) + 1
    BY <1>2, <2>2
  <2> QED  BY <1>1, <2>1, <2>2
<1>5. Increasing(t)
  <2> SUFFICES ASSUME NEW i \in 1..Len(s) PROVE t[i] < t[i + 1]
    BY <1>1, <1>2 DEF Increasing
  <2>1. CASE i = Len(s)
    BY <1>1, <1>2, <2>1
  <2>2. CASE i # Len(s)
    <3>1. i \in 1..(Len(s) - 1) /\ i + 1 \in 1..Len(s)
      BY <1>1, <2>2
    <3> QED  BY <1>2, <3>1 DEF Increasing
  <2> QED  BY <2>1, <2>2
<1> QED  BY <1>2, <1>3, <1>4, <1>5 DEF t

\* The points sent so far, as the timer goes on.
LEMMA ProgressNext ==
    ASSUME TypeOK, AnswerInv, HistoryType, OrderInv, thread = "poll", execute, Counted, Progress, Timer
    PROVE  IF execute' THEN Progress' ELSE timer' = "idle" /\ Complete(current)'
<1> DEFINE s == sent[current]
           n == points.n
<1>0. /\ cntr \in Nat /\ n \in Nat /\ n >= 2 /\ n = size[current] /\ points.goal = current /\ current \in Goals
      /\ s \in Seq(Nat) /\ trajSize \in Nat /\ player \in {"joints", "servo", "gripper"}
      /\ UNCHANGED <<player, size, current, points, thread>>
  <2>1. n \in Nat /\ cntr \in Nat /\ trajSize \in Nat /\ current \in Goals
    BY Basics
  <2>2. n >= 2 /\ n = size[current] /\ points.goal = current
    BY DEF OrderInv, Loaded
  <2>3. s \in Seq(Nat)
    BY <2>1 DEF HistoryType
  <2>4. player \in {"joints", "servo", "gripper"}
    BY PlayersAssumption DEF TypeOK
  <2>5. UNCHANGED <<player, size, current, points, thread>>
    BY DEF Timer, TimerIdle, TimerEnter, ReadSize, Jump, Look, Send, Finish, shared, server
  <2> QED  BY <2>1, <2>2, <2>3, <2>4, <2>5
\* A point that is handed over is one of this goal.
<1>1. ASSUME NEW k \in Nat, k < n, ToServos(k) PROVE sent'[current] = Append(s, k)
  <2>1. sent' = [sent EXCEPT ![current] = Append(@, k)]
    BY <1>0, <1>1 DEF ToServos, Running
  <2> QED  BY <1>0, <2>1 DEF HistoryType
<1>2. CASE TimerIdle
  BY <1>2 DEF TimerIdle
<1>3. CASE TimerEnter
  BY <1>0, <1>3 DEF TimerEnter, Progress, Counted, shared, history
<1>4. CASE ReadSize
  BY <1>0, <1>4 DEF ReadSize, Progress, Counted, shared, history
<1>5. CASE Jump
  <2>1. timer = "jump" /\ ~flag' /\ timer' = "look" /\ trajSize = n /\ execute'
    BY <1>5 DEF Jump, Counted, shared
  <2>2. player = "servo" /\ s = <<>>
    BY <2>1 DEF OrderInv, Progress
  <2>3. ToServos(n - 1)
    BY <1>0, <1>5, <2>1 DEF Jump
  <2>4. sent'[current] = Append(s, n - 1)
    BY <1>0, <1>1, <2>3
  <2>5. sent'[current] = <<n - 1>>
    BY <2>2, <2>4
  <2> QED  BY <1>0, <2>1, <2>2, <2>5 DEF Progress
<1>6. CASE Look
  <2>0. timer = "look" /\ trajSize = n /\ cntr < n /\ execute' /\ UNCHANGED <<flag, sent, trajSize>>
    BY <1>6 DEF Look, Counted, shared, history
  <2>1. CASE timer' = "idle" /\ UNCHANGED cntr
    BY <1>0, <2>0, <2>1 DEF Progress
  <2>2. CASE player # "gripper" /\ NextPoint /\ cntr' = cntr + 1
    <3>1. CASE player = "joints"
      <4>1. s = [i \in 1..cntr |-> i]
        BY <2>0, <3>1 DEF Progress
      <4>2. timer' = "finish" => cntr = n - 1
        BY <1>0, <2>0, <2>2 DEF NextPoint
      <4>3. timer' \in {"finish", "send"}
        BY <2>2, <3>1 DEF NextPoint
      <4>4. timer' = "send" => cntr' - 1 = cntr /\ cntr' >= 1
        BY <1>0, <2>2
      <4> QED  BY <1>0, <2>0, <3>1, <4>1, <4>2, <4>3, <4>4 DEF Progress
    <3>2. CASE player = "servo"
      BY <1>0, <2>0, <2>2, <3>2 DEF Progress, NextPoint
    <3> QED  BY <1>0, <2>2, <3>1, <3>2
  <2>3. CASE player = "gripper" /\ SkipPoints /\ cntr < cntr' /\ cntr' < trajSize
    <3>1. timer' = "send" /\ Increasing(s) /\ \A i \in 1..Len(s) : s[i] <= cntr
      BY <2>3 DEF SkipPoints, Progress
    <3>2. cntr' \in Nat
      <4>1. TypeOK'
        BY TimerType
      <4> QED  BY <4>1, SizesAssumption DEF TypeOK
    <3>3. \A i \in 1..Len(s) : s[i] \in Nat
      BY <1>0, ElementOfSeq
    <3>4. \A i \in 1..Len(s) : s[i] <= cntr' /\ s[i] < cntr'
      BY <1>0, <2>3, <3>1, <3>2, <3>3
    <3> QED  BY <1>0, <2>0, <2>3, <3>1, <3>4 DEF Progress
  <2> QED  BY <1>6, <2>1, <2>2, <2>3, LookWhileRunning
<1>7. CASE Send
  <2>0. /\ timer = "send" /\ trajSize = n /\ cntr < n /\ player # "servo" /\ execute' /\ UNCHANGED <<flag, cntr>> /\ ToServos(cntr)
        /\ timer' = IF player = "joints" THEN "idle"
                    ELSE IF cntr >= points.n THEN "crashed"
                    ELSE IF cntr + 1 >= trajSize THEN "finish" ELSE "idle"
    BY <1>7 DEF Send, Counted, shared
  <2>1. sent'[current] = Append(s, cntr)
    BY <1>0, <1>1, <2>0
  <2>2. CASE player = "joints"
    <3>1. cntr >= 1 /\ s = [i \in 1..(cntr - 1) |-> i]
      BY <2>0, <2>2 DEF Progress
    <3>2. cntr - 1 \in Nat /\ (cntr - 1) + 1 = cntr
      BY <1>0, <3>1
    <3>3. sent'[current] = [i \in 1..cntr |-> i]
      BY <2>1, <3>1, <3>2, CountUp
    <3> QED  BY <1>0, <2>0, <2>2, <3>3 DEF Progress
  <2>3. CASE player = "gripper"
    <3>1. Increasing(s) /\ \A i \in 1..Len(s) : s[i] < cntr
      BY <2>0, <2>3 DEF Progress
    <3> DEFINE t == Append(s, cntr)
    <3>2. /\ t # <<>> /\ t[Len(t)] = cntr /\ Increasing(t)
          /\ \A i \in 1..Len(t) : t[i] <= cntr
      BY <1>0, <3>1, IncreasingOn
    <3>3. timer' = "finish" => cntr = n - 1
      BY <1>0, <2>0
    <3>4. timer' # "send"
      BY <2>0
    <3>5. sent'[current] = t
      BY <2>1
    <3> HIDE DEF t
    <3> QED  BY <1>0, <2>0, <2>3, <3>2, <3>3, <3>4, <3>5 DEF Progress
  <2> QED  BY <1>0, <2>0, <2>2, <2>3
<1>8. CASE Finish
  <2>0. timer = "finish" /\ ~execute' /\ timer' = "idle" /\ UNCHANGED sent
    BY <1>8 DEF Finish, history
  <2>1. player = "joints" => s = [i \in 1..(n - 1) |-> i]
    BY <2>0 DEF Progress
  <2>2. player = "servo" => s = <<n - 1>>
    BY <2>0 DEF Progress
  <2>3. player = "gripper" => s # <<>> /\ s[Len(s)] = n - 1 /\ Increasing(s)
    BY <2>0 DEF Progress
  <2> QED  BY <1>0, <2>0, <2>1, <2>2, <2>3 DEF Complete, Increasing
<1> QED  BY <1>2, <1>3, <1>4, <1>5, <1>6, <1>7, <1>8 DEF Timer

\* A goal that has been answered is left alone.
LEMMA AnsweredKept ==
    ASSUME TypeOK, AnswerInv, HistoryType, OrderInv, [Next]_vars, NEW g \in Goals,
           result[g] = "succeeded", begun[g] = "rested", Complete(g)
    PROVE  Complete(g)'
<1>0. /\ Goals = 1..MaxGoals /\ MaxGoals \in Nat /\ current \in 0..goals /\ goals \in 0..MaxGoals
      /\ thread # "idle" => current \in Goals /\ result[current] = "none"
      /\ size \in [Goals -> Nat] /\ g <= goals
  BY Basics DEF AnswerInv
<1>1. UNCHANGED player
  BY DEF Next, ActionThread, SendGoal, CancelAll, Accept, Reject, Clear, CopyPoint, Copied, Start, Succeed, Stop, Preempted,
         Timer, TimerIdle, TimerEnter, ReadSize, Jump, Look, Send, Finish, Tick, vars
<1>2. size'[g] = size[g]
  <2>1. CASE \E n \in Sizes : SendGoal(n)
    BY <1>0, <2>1 DEF SendGoal
  <2>2. CASE ~\E n \in Sizes : SendGoal(n)
    BY <2>2 DEF Next, ActionThread, CancelAll, Accept, Reject, Clear, CopyPoint, Copied, Start, Succeed, Stop, Preempted,
         Timer, TimerIdle, TimerEnter, ReadSize, Jump, Look, Send, Finish, Tick, vars
  <2> QED  BY <2>1, <2>2
<1>3. sent'[g] = sent[g]
  <2>1. CASE Timer
    <3>1. \/ UNCHANGED sent
          \/ Running(points.goal) /\ \E k : sent' = [sent EXCEPT ![points.goal] = Append(@, k)]
      BY <2>1, TimerSends, ToServosDoes
    <3>2. Running(points.goal) => points.goal # g
      BY <1>0 DEF Running
    <3> QED  BY <3>1, <3>2 DEF HistoryType
  <2>2. CASE ~Timer
    BY <2>2 DEF Next, ActionThread, SendGoal, CancelAll, Accept, Reject, Clear, CopyPoint, Copied, Start, Succeed, Stop,
                Preempted, Tick, vars, history
  <2> QED  BY <2>1, <2>2
<1> QED  BY <1>1, <1>2, <1>3 DEF Complete

\* What a goal that has been started, and then answered, was.
LEMMA SucceededWas ==
    ASSUME TypeOK, AnswerInv, HistoryType, OrderInv, [Next]_vars, NEW g \in Goals, result'[g] = "succeeded", begun'[g] = "rested"
    PROVE  \/ result[g] = "succeeded" /\ begun[g] = "rested"
           \/ Succeed /\ g = current /\ begun[g] = "rested"
<1>0. /\ Goals = 1..MaxGoals /\ MaxGoals \in Nat /\ current \in 0..goals /\ goals \in 0..MaxGoals
      /\ thread # "idle" => current \in Goals /\ result[current] = "none"
      /\ result \in [Goals -> Answers \cup {"none"}] /\ (fresh => next \in Goals)
  BY Basics
<1>1. CASE Start
  <2>1. UNCHANGED result /\ g # current /\ begun' = [begun EXCEPT ![current] = IF rested THEN "rested" ELSE "unrested"]
    BY <1>0, <1>1 DEF Start
  <2> QED  BY <2>1 DEF HistoryType
<1>2. CASE ~Start
  <2>1. UNCHANGED begun
    BY <1>2 DEF Next, ActionThread, SendGoal, CancelAll, Accept, Reject, Clear, CopyPoint, Copied, Succeed, Stop,
                Preempted, Timer, TimerIdle, TimerEnter, ReadSize, Jump, Look, Send, Finish, Tick, vars, history
  <2>2. result[g] = "succeeded" \/ (Succeed /\ g = current)
    <3>1. CASE Succeed
      BY <1>0, <3>1 DEF Succeed, Answer
    <3>2. CASE ~Succeed
      BY <1>0, <1>2, <3>2 DEF Next, ActionThread, SendGoal, CancelAll, Accept, Reject, Clear, CopyPoint, Copied, Stop,
                Preempted, Timer, TimerIdle, TimerEnter, ReadSize, Jump, Look, Send, Finish, Tick, vars, Answer
    <3> QED  BY <3>1, <3>2
  <2> QED  BY <2>1, <2>2
<1> QED  BY <1>1, <1>2

\* Every step keeps RestInv.
LEMMA NextRest == TypeOK /\ AnswerInv /\ HistoryType /\ OrderInv /\ RestInv /\ [Next]_vars => RestInv'
<1> SUFFICES ASSUME TypeOK, AnswerInv, HistoryType, OrderInv, RestInv, [Next]_vars PROVE RestInv'
  OBVIOUS
<1> DEFINE RunPart == thread = "poll" /\ begun[current] = "rested" =>
                         IF execute THEN Counted /\ Progress ELSE timer = "idle" /\ Complete(current)
<1>0. /\ Goals = 1..MaxGoals /\ MaxGoals \in Nat /\ current \in 0..goals /\ goals \in 0..MaxGoals /\ size \in [Goals -> Nat]
      /\ points.n \in Nat /\ cntr \in Nat
      /\ thread # "idle" => current \in Goals /\ result[current] = "none"
  BY Basics
<1>1. RestedComplete'
  <2> SUFFICES ASSUME NEW g \in Goals, result'[g] = "succeeded", begun'[g] = "rested" PROVE Complete(g)'
    BY DEF RestedComplete
  <2>1. CASE result[g] = "succeeded" /\ begun[g] = "rested"
    <3>1. Complete(g)
      BY <2>1 DEF RestInv, RestedComplete
    <3> QED  BY <2>1, <3>1, AnsweredKept
  <2>2. CASE Succeed /\ g = current /\ begun[g] = "rested"
    <3>1. Complete(g)
      BY <2>2 DEF Succeed, RestInv
    <3> QED  BY <2>2, <3>1 DEF Succeed, Complete, history
  <2> QED  BY <2>1, <2>2, SucceededWas
<1>2. ASSUME UNCHANGED <<timer, cntr, flag, execute, rested>>, thread' # "poll" PROVE RestInv'
  BY <1>1, <1>2 DEF RestInv
<1>3. CASE Accept \/ Reject \/ Clear \/ CopyPoint \/ Copied \/ Succeed \/ Preempted
  <2>1. UNCHANGED <<timer, cntr, flag, execute, rested>> /\ thread' # "poll"
    BY <1>3 DEF Accept, Reject, Clear, CopyPoint, Copied, Succeed, Preempted, shared, timerVars, history, OrderInv
  <2> QED  BY <1>2, <2>1
<1>4. CASE Stop
  BY <1>1, <1>4 DEF Stop, RestInv, timerVars, history
<1>5. CASE Start
  <2>1. /\ thread = "start" /\ execute' = TRUE /\ rested' = FALSE /\ current \in Goals
        /\ begun' = [begun EXCEPT ![current] = IF rested THEN "rested" ELSE "unrested"]
        /\ UNCHANGED <<player, size, current, points, timer, cntr, flag, trajSize, sent>>
    BY <1>0, <1>5 DEF Start, server, timerVars
  <2>2. RunPart'
    <3>1. CASE ~rested
      BY <2>1, <3>1 DEF HistoryType
    <3>2. CASE rested
      <4>1. timer = "idle" /\ cntr = 0 /\ flag /\ points.n >= 2 /\ sent[current] = <<>>
        BY <2>1, <3>2 DEF RestInv, OrderInv, Loaded
      <4>2. Counted'
        BY <1>0, <2>1, <4>1 DEF Counted
      <4>3. [i \in 1..0 |-> i] = <<>>
        OBVIOUS
      <4>4. Increasing(<<>>) /\ \A i \in 1..Len(<<>>) : FALSE
        BY DEF Increasing
      <4>5. Progress'
        BY <2>1, <4>1, <4>3, <4>4 DEF Progress
      <4> QED  BY <2>1, <4>2, <4>5
    <3> QED  BY <3>1, <3>2
  <2> QED  BY <1>1, <2>1, <2>2 DEF RestInv
<1>6. CASE Timer
  <2>1. UNCHANGED <<thread, current, begun>>
    BY <1>6 DEF Timer, TimerIdle, TimerEnter, ReadSize, Jump, Look, Send, Finish, server, history
  <2>2. rested' => timer' = "idle" /\ cntr' = 0 /\ flag' /\ ~execute'
    <3>1. CASE TimerIdle
      BY <3>1 DEF TimerIdle, shared
    <3>2. CASE ~TimerIdle
      <4>1. UNCHANGED rested /\ (timer # "idle" \/ execute)
        BY <1>6, <3>2 DEF Timer, TimerEnter, ReadSize, Jump, Look, Send, Finish, history
      <4> QED  BY <4>1 DEF RestInv
    <3> QED  BY <3>1, <3>2
  <2>3. RunPart'
    <3> SUFFICES ASSUME thread' = "poll", begun'[current'] = "rested"
                 PROVE  IF execute' THEN Counted' /\ Progress' ELSE timer' = "idle" /\ Complete(current)'
      OBVIOUS
    <3>1. thread = "poll" /\ begun[current] = "rested"
      BY <2>1
    <3>2. CASE execute
      <4>1. Counted /\ Progress
        BY <3>1, <3>2 DEF RestInv
      <4>2. Counted'
        BY <1>6, <3>1, <4>1, CountedNext
      <4> QED  BY <1>6, <3>1, <3>2, <4>1, <4>2, ProgressNext
    <3>3. CASE ~execute
      <4>1. timer = "idle" /\ Complete(current)
        BY <3>1, <3>3 DEF RestInv
      <4>2. TimerIdle
        BY <1>6, <3>3, <4>1 DEF Timer, TimerEnter, ReadSize, Jump, Look, Send, Finish
      <4>3. UNCHANGED <<player, size, current, sent, execute, timer>>
        BY <4>2 DEF TimerIdle, server, shared
      <4> QED  BY <3>3, <4>1, <4>3 DEF Complete
    <3> QED  BY <3>2, <3>3
  <2> QED  BY <1>1, <2>2, <2>3 DEF RestInv
<1>7. CASE (\E n \in Sizes : SendGoal(n)) \/ CancelAll \/ Tick \/ UNCHANGED vars
  <2>1. UNCHANGED <<player, current, thread, execute, points, timer, cntr, flag, trajSize, sent, rested, begun>>
    BY <1>7 DEF SendGoal, CancelAll, Tick, shared, server, timerVars, history, vars
  <2>2. thread = "poll" => size'[current] = size[current]
    BY <1>0, <1>7 DEF SendGoal, CancelAll, Tick, vars
  <2>3. RunPart'
    <3> SUFFICES ASSUME thread = "poll", begun[current] = "rested"
                 PROVE  IF execute THEN Counted' /\ Progress' ELSE timer = "idle" /\ Complete(current)'
      BY <2>1
    <3>1. Counted' <=> Counted
      BY <2>1 DEF Counted
    <3>2. Progress' <=> Progress
      BY <2>1 DEF Progress
    <3>3. Complete(current)' <=> Complete(current)
      BY <2>1, <2>2 DEF Complete
    <3> QED  BY <3>1, <3>2, <3>3 DEF RestInv
  <2> QED  BY <1>1, <2>1, <2>3 DEF RestInv
<1> QED
  BY <1>3, <1>4, <1>5, <1>6, <1>7 DEF Next, ActionThread

\* The counter of the joint server does not wrap: only a goal that is never done being copied
\* has points enough.
WrapInv ==
    player = "joints" /\ (thread = "copy" => size[current] < Byte) =>
        /\ points.n < Byte /\ trajSize < Byte
        /\ cntr + 1 < Byte \/ cntr = 0 \/ timer = "finish"

\* How the last point sent of the goal that runs lies to the timer's counter.
LastSent ==
    LET last == sent[current][Len(sent[current])] IN
    /\ player = "joints" => /\ timer \in {"idle", "size", "look"} => last = cntr \/ cntr >= points.n
                            /\ timer = "send" => last + 1 = cntr \/ cntr >= points.n
    /\ player = "servo" => ~flag
    /\ player = "gripper" /\ timer \in {"idle", "size", "look", "send"} => last <= cntr

SentInv ==
    /\ PointsInOrder
    /\ timer = "jump" => flag
    /\ timer = "send" => player # "servo"
    /\ thread \in {"poll", "stopped"} /\ (execute \/ timer # "idle") /\ sent[current] # <<>> => LastSent

\* At the start.
LEMMA InitSent == Init => WrapInv /\ SentInv
<1> SUFFICES ASSUME Init PROVE WrapInv /\ SentInv
  OBVIOUS
<1>1. WrapInv
  BY SizesAssumption DEF Init, WrapInv, NoPoints
<1>2. \A g \in Goals : InOrder(g)
  BY DEF Init, InOrder
<1> QED  BY <1>1, <1>2 DEF Init, SentInv, PointsInOrder

\* Every step keeps WrapInv.
LEMMA NextWrap == TypeOK /\ AnswerInv /\ OrderInv /\ WrapInv /\ [Next]_vars => WrapInv'
<1> SUFFICES ASSUME TypeOK, AnswerInv, OrderInv, WrapInv, [Next]_vars, player' = "joints",
                    thread' = "copy" => size'[current'] < Byte
             PROVE  /\ points'.n < Byte /\ trajSize' < Byte
                    /\ cntr' + 1 < Byte \/ cntr' = 0 \/ timer' = "finish"
  BY DEF WrapInv
<1> DEFINE Fits == /\ points.n < Byte /\ trajSize < Byte
                   /\ cntr + 1 < Byte \/ cntr = 0 \/ timer = "finish"
<1>0. /\ Byte \in Nat \ {0} /\ cntr \in Nat /\ cntr < Byte /\ points.n \in Nat /\ trajSize \in Nat /\ goals \in Nat
      /\ size \in [Goals -> Nat] /\ current \in 0..goals /\ Goals = 1..MaxGoals
      /\ thread # "idle" => current \in Goals
  BY Basics
<1>1. CASE \E n \in Sizes : SendGoal(n)
  <2>1. UNCHANGED <<player, current, thread, points, timer, cntr, trajSize>>
    BY <1>1 DEF SendGoal, shared, timerVars
  <2>2. thread = "copy" => size'[current] = size[current]
    BY <1>0, <1>1 DEF SendGoal
  <2> QED  BY <2>1, <2>2 DEF WrapInv
<1>2. CASE Accept \/ Reject \/ Start \/ Succeed \/ Stop \/ Preempted
  <2>1. UNCHANGED <<player, points, timer, cntr, trajSize>> /\ thread # "copy"
    BY <1>2 DEF Accept, Reject, Start, Succeed, Stop, Preempted, shared, timerVars
  <2> QED  BY <2>1 DEF WrapInv
<1>3. CASE Clear
  <2>1. UNCHANGED <<player, timer, cntr, trajSize>> /\ thread # "copy" /\ (points' = points \/ points' = NoPoints)
    BY <1>3 DEF Clear, timerVars
  <2> QED  BY <1>0, <2>1 DEF WrapInv, NoPoints
<1>4. CASE CopyPoint \/ Copied
  <2>1. /\ thread = "copy" /\ UNCHANGED <<player, size, current, timer, cntr, trajSize>>
        /\ size[current] \in Nat
    BY <1>0, <1>4 DEF CopyPoint, Copied, server, timerVars
  <2>2. points'.n <= size[current] /\ size[current] < Byte
    <3>1. CASE CopyPoint
      BY <1>0, <2>1, <3>1 DEF CopyPoint
    <3>2. CASE Copied
      BY <1>0, <2>1, <3>2 DEF Copied
    <3> QED  BY <1>4, <3>1, <3>2
  <2>3. points'.n < Byte
    <3>1. points'.n \in Nat
      BY <1>0, <1>4 DEF CopyPoint, Copied
    <3> QED  BY <1>0, <2>1, <2>2, <3>1
  <2>4. trajSize < Byte /\ (cntr + 1 < Byte \/ cntr = 0 \/ timer = "finish")
    BY <2>1, <2>2 DEF WrapInv
  <2> QED  BY <2>1, <2>3, <2>4
<1>5. CASE Timer
  <2>1. UNCHANGED <<player, size, current, thread, points>>
    BY <1>5 DEF Timer, TimerIdle, TimerEnter, ReadSize, Jump, Look, Send, Finish, server, shared
  <2>2. Fits
    BY <2>1 DEF WrapInv
  <2>3. CASE Look
    <3>1. timer = "look" /\ trajSize' = trajSize /\ (UNCHANGED cntr \/ NextPoint)
      BY <2>1, <2>3 DEF Look
    <3>2. CASE NextPoint
      <4>1. CASE cntr + 1 < Byte
        <5>1. cntr' = cntr + 1
          BY <1>0, <3>2, <4>1 DEF NextPoint
        <5> QED  BY <1>0, <2>1, <2>2, <3>1, <3>2, <5>1 DEF NextPoint
      <4>2. CASE cntr + 1 >= Byte
        <5>1. cntr + 1 = Byte /\ cntr' = 0
          BY <1>0, <3>2, <4>2 DEF NextPoint
        <5> QED  BY <1>0, <2>1, <2>2, <3>1, <5>1
      <4> QED  BY <1>0, <4>1, <4>2
    <3> QED  BY <1>0, <2>1, <2>2, <3>1, <3>2
  <2>4. CASE TimerIdle \/ TimerEnter \/ ReadSize \/ Jump \/ Send \/ Finish
    <3>1. /\ trajSize' \in {trajSize, points.n}
          /\ cntr' = 0 \/ (UNCHANGED cntr /\ timer # "finish")
      BY <2>4 DEF TimerIdle, TimerEnter, ReadSize, Jump, Send, Finish
    <3> QED  BY <2>1, <2>2, <3>1
  <2> QED  BY <1>5, <2>3, <2>4 DEF Timer
<1>6. CASE CancelAll \/ Tick \/ UNCHANGED vars
  <2>1. UNCHANGED <<player, size, current, thread, points, timer, cntr, trajSize>>
    BY <1>6 DEF CancelAll, Tick, server, shared, timerVars, vars
  <2> QED  BY <2>1 DEF WrapInv
<1> QED  BY <1>1, <1>2, <1>3, <1>4, <1>5, <1>6 DEF Next, ActionThread

\* One more point at the end of those sent.
LEMMA OneMore ==
    ASSUME NEW s \in Seq(Nat), NEW k \in Nat
    PROVE  LET t == Append(s, k) IN
           /\ t # <<>> /\ Len(t) = Len(s) + 1 /\ t[Len(t)] = k /\ Len(s) \in Nat
           /\ \A i \in 1..Len(s) : t[i] = s[i]
  OBVIOUS

\* A timer step that hands the servos point k of the goal that runs, where k follows the last one.
LEMMA AppendInOrder ==
    ASSUME HistoryType, PointsInOrder, NEW g \in Goals, NEW k \in Nat, UNCHANGED player,
           sent' = [sent EXCEPT ![g] = Append(@, k)],
           sent[g] # <<>> => LET last == sent[g][Len(sent[g])] IN
                             /\ player = "joints" => k = last + 1
                             /\ player # "servo" /\ (player # "joints" => last <= k)
    PROVE  PointsInOrder' /\ sent'[g] # <<>> /\ sent'[g][Len(sent'[g])] = k
<1> DEFINE s == sent[g]
           t == Append(s, k)
<1>1. s \in Seq(Nat) /\ sent'[g] = t /\ \A h \in Goals \ {g} : sent'[h] = sent[h]
  BY DEF HistoryType
<1>2. /\ t # <<>> /\ Len(t) = Len(s) + 1 /\ t[Len(t)] = k /\ Len(s) \in Nat
      /\ \A i \in 1..Len(s) : t[i] = s[i] /\ s[i] \in Nat
  BY <1>1, OneMore
<1>3. InOrder(g)
  BY DEF PointsInOrder
<1>4. s # <<>> => LET last == s[Len(s)] IN
                  /\ player = "joints" => k = last + 1
                  /\ player # "servo" /\ (player # "joints" => last <= k)
  OBVIOUS
<1>5. s # <<>> <=> Len(s) # 0
  BY <1>1
<1> HIDE DEF s, t
<1>6. InOrder(g)'
  <2>1. CASE player = "joints"
    <3>1. \A i \in 1..Len(s) : t[i + 1] = t[i] + 1
      <4> SUFFICES ASSUME NEW i \in 1..Len(s) PROVE t[i + 1] = t[i] + 1
        OBVIOUS
      <4>1. CASE i = Len(s)
        BY <1>2, <1>4, <1>5, <2>1, <4>1
      <4>2. CASE i # Len(s)
        <5>1. i \in 1..(Len(s) - 1) /\ i + 1 \in 1..Len(s)
          BY <1>2, <4>2
        <5>2. s[i + 1] = s[i] + 1
          BY <1>3, <2>1, <5>1 DEF InOrder, s
        <5> QED  BY <1>2, <5>1, <5>2
      <4> QED  BY <4>1, <4>2
    <3> QED  BY <1>1, <1>2, <2>1, <3>1 DEF InOrder
  <2>2. CASE player = "servo"
    BY <1>1, <1>2, <1>4, <1>5, <2>2 DEF InOrder
  <2>3. CASE player \notin {"joints", "servo"}
    <3>1. \A i \in 1..Len(s) : t[i] <= t[i + 1]
      <4> SUFFICES ASSUME NEW i \in 1..Len(s) PROVE t[i] <= t[i + 1]
        OBVIOUS
      <4>1. CASE i = Len(s)
        BY <1>2, <1>4, <1>5, <2>3, <4>1
      <4>2. CASE i # Len(s)
        <5>1. i \in 1..(Len(s) - 1) /\ i + 1 \in 1..Len(s)
          BY <1>2, <4>2
        <5>2. s[i] <= s[i + 1]
          BY <1>3, <2>3, <5>1 DEF InOrder, s
        <5> QED  BY <1>2, <5>1, <5>2
      <4> QED  BY <4>1, <4>2
    <3>2. \A i \in 1..(Len(t) - 1) : t[i] <= t[i + 1]
      BY <1>2, <3>1
    <3> QED  BY <1>1, <2>3, <3>2, Zenon DEF InOrder
  <2> QED  BY <2>1, <2>2, <2>3
<1>7. \A h \in Goals \ {g} : InOrder(h)'
  BY <1>1 DEF PointsInOrder, InOrder
<1> QED  BY <1>1, <1>2, <1>6, <1>7 DEF PointsInOrder

\* The timer keeps SentInv.
LEMMA TimerSent == TypeOK /\ AnswerInv /\ HistoryType /\ OrderInv /\ WrapInv /\ SentInv /\ Timer => SentInv'
<1> SUFFICES ASSUME TypeOK, AnswerInv, HistoryType, OrderInv, WrapInv, SentInv, Timer PROVE SentInv'
  OBVIOUS
<1> DEFINE Runs == thread \in {"poll", "stopped"}
           last == sent[current][Len(sent[current])]
<1>0. /\ cntr \in Nat /\ trajSize \in Nat /\ due \in Nat /\ points.n \in Nat /\ Byte \in Nat \ {0} /\ Goals = 1..MaxGoals
      /\ Runs => current \in Goals /\ points.goal = current /\ points.n >= 2
      /\ player \in {"joints", "servo", "gripper"}
      /\ UNCHANGED <<player, current, thread, points>>
  <2>1. UNCHANGED <<player, current, thread, points>>
    BY DEF Timer, TimerIdle, TimerEnter, ReadSize, Jump, Look, Send, Finish, server, shared
  <2>2. player \in {"joints", "servo", "gripper"}
    BY PlayersAssumption DEF TypeOK
  <2>3. Runs => current \in Goals /\ points.goal = current /\ points.n >= 2
    BY Basics DEF OrderInv, Loaded
  <2> QED  BY <2>1, <2>2, <2>3, Basics
<1>1. Runs /\ (execute \/ timer # "idle") /\ sent[current] # <<>> => LastSent
  BY DEF SentInv
\* Steps that hand over nothing.
<1>2. ASSUME UNCHANGED sent, timer' = "jump" => flag', timer' = "send" => player # "servo",
             Runs /\ (execute' \/ timer' # "idle") /\ sent[current] # <<>> => LastSent'
      PROVE  SentInv'
  <2>1. PointsInOrder'
    BY <1>0, <1>2 DEF SentInv, PointsInOrder, InOrder
  <2> QED  BY <1>0, <1>2, <2>1 DEF SentInv
<1>3. CASE TimerIdle \/ Finish
  BY <1>2, <1>3 DEF TimerIdle, Finish, history, shared
<1>4. CASE TimerEnter \/ ReadSize
  <2>1. UNCHANGED <<sent, execute, cntr, flag>> /\ (timer' = "jump" => flag) /\ timer' # "send"
    BY <1>4 DEF TimerEnter, ReadSize, history, shared
  <2>2. (execute \/ timer # "idle") /\ timer \in {"idle", "size"} /\ timer' \in {"size", "jump", "look"}
    BY <1>4 DEF TimerEnter, ReadSize
  <2>3. LastSent /\ sent[current] # <<>> => LastSent'
    BY <1>0, <2>1, <2>2 DEF LastSent
  <2> QED  BY <1>1, <1>2, <2>1, <2>2, <2>3
<1>5. CASE Look
  <2>1. timer = "look" /\ UNCHANGED <<sent, execute, flag>>
    BY <1>5 DEF Look, history, shared
  <2>2. CASE NextPoint /\ player # "gripper"
    <3>1. timer' \in {"finish", "send", "idle"} /\ (timer' = "send" => player = "joints") /\ (timer' = "idle" => player = "servo")
      BY <1>0, <2>2 DEF NextPoint
    <3>2. Runs /\ player = "joints" /\ timer' = "send" => cntr' = cntr + 1
      <4> SUFFICES ASSUME Runs, player = "joints" PROVE cntr' = cntr + 1
        OBVIOUS
      <4>1. points.n < Byte /\ (cntr + 1 < Byte \/ cntr = 0)
        BY <2>1 DEF WrapInv
      <4>2. cntr + 1 < Byte
        BY <1>0, <4>1
      <4> QED  BY <1>0, <2>2, <4>2 DEF NextPoint
    <3>3. Runs /\ sent[current] # <<>> => LastSent'
      <4> SUFFICES ASSUME Runs, sent[current] # <<>> PROVE LastSent'
        OBVIOUS
      <4>1. LastSent
        BY <1>1, <2>1
      <4> QED  BY <1>0, <2>1, <2>2, <3>1, <3>2, <4>1 DEF LastSent
    <3> QED  BY <1>2, <2>1, <3>1, <3>3
  <2>3. CASE SkipPoints /\ player = "gripper"
    <3>1. PICK d \in Passed : /\ cntr < d
                              /\ cntr' = IF cntr + 1 >= trajSize THEN cntr
                                         ELSE IF d < trajSize THEN d ELSE trajSize - 1
      BY <2>3 DEF SkipPoints
    <3>2. d \in Nat
      BY <1>0, <3>1 DEF Passed
    <3>3. cntr' \in Nat /\ cntr <= cntr'
      BY <1>0, <3>1, <3>2
    <3>4. Runs /\ sent[current] # <<>> => last <= cntr /\ last \in Nat
      <4> SUFFICES ASSUME Runs, sent[current] # <<>> PROVE last <= cntr /\ last \in Nat
        OBVIOUS
      <4>1. sent[current] \in Seq(Nat)
        BY <1>0 DEF HistoryType
      <4>2. last \in Nat
        BY <4>1
      <4> QED  BY <1>1, <2>1, <2>3, <4>2 DEF LastSent
    <3>5. Runs /\ sent[current] # <<>> => LastSent'
      BY <1>0, <2>1, <2>3, <3>3, <3>4 DEF LastSent
    <3> QED  BY <1>2, <2>1, <2>3, <3>5 DEF SkipPoints
  <2>4. CASE UNCHANGED cntr /\ timer' \in {"idle", "crashed"}
    <3>1. LastSent => LastSent'
      BY <1>0, <2>1, <2>4 DEF LastSent
    <3> QED  BY <1>1, <1>2, <2>1, <2>4, <3>1
  <2> QED  BY <1>5, <2>2, <2>3, <2>4 DEF Look
<1>6. CASE Jump
  <2>1. /\ timer = "jump" /\ player = "servo" /\ flag /\ ~flag' /\ timer' = "look"
        /\ UNCHANGED sent \/ \E k \in Nat : ToServos(k)
    BY <1>0, <1>6 DEF Jump, SentInv, OrderInv
  <2>2. CASE UNCHANGED sent
    BY <1>0, <1>2, <2>1, <2>2 DEF LastSent
  <2>3. ASSUME NEW k \in Nat, Runs, sent' = [sent EXCEPT ![current] = Append(@, k)] PROVE SentInv'
    <3>1. sent[current] = <<>>
      BY <1>1, <2>1, <2>3 DEF LastSent
    <3>2. PointsInOrder'
      BY <1>0, <2>3, <3>1, AppendInOrder DEF SentInv
    <3> QED  BY <1>0, <2>1, <3>2 DEF SentInv, LastSent
  <2>4. UNCHANGED sent \/ \E k \in Nat : Runs /\ sent' = [sent EXCEPT ![current] = Append(@, k)]
    BY <1>0, <2>1, ToServosDoes DEF Running
  <2> QED  BY <2>2, <2>3, <2>4
<1>7. CASE Send
  <2>1. /\ timer = "send" /\ player # "servo" /\ UNCHANGED cntr /\ ToServos(cntr)
        /\ timer' \in {"idle", "finish", "crashed"} /\ (player = "joints" => timer' = "idle")
    BY <1>7 DEF Send, SentInv
  <2>2. CASE UNCHANGED sent
    <3>1. Runs => cntr >= points.n
      <4> SUFFICES ASSUME Runs, cntr < points.n PROVE FALSE
        BY <1>0
      <4>1. sent' = [sent EXCEPT ![current] = Append(@, cntr)]
        BY <1>0, <2>1 DEF ToServos, Running
      <4>2. sent[current] \in Seq(Nat) /\ sent'[current] = Append(sent[current], cntr)
        BY <1>0, <4>1 DEF HistoryType
      <4>3. Len(sent'[current]) = Len(sent[current]) + 1 /\ Len(sent[current]) \in Nat
        BY <1>0, <4>2, OneMore
      <4> QED  BY <2>2, <4>3
    <3>2. Runs /\ sent[current] # <<>> => LastSent'
      BY <1>0, <1>1, <2>1, <2>2, <3>1 DEF LastSent
    <3> QED  BY <1>2, <2>1, <2>2, <3>2
  <2>3. CASE Runs /\ cntr < points.n /\ sent' = [sent EXCEPT ![current] = Append(@, cntr)]
    <3>1. sent[current] # <<>> => /\ player = "joints" => cntr = last + 1
                                 /\ player # "servo" /\ (player # "joints" => last <= cntr)
      <4> SUFFICES ASSUME sent[current] # <<>>
                   PROVE  /\ player = "joints" => cntr = last + 1
                          /\ player # "joints" => last <= cntr
        BY <2>1
      <4>1. LastSent
        BY <1>1, <2>1, <2>3
      <4>2. ~(cntr >= points.n)
        BY <1>0, <2>3
      <4> QED  BY <1>0, <2>1, <4>1, <4>2 DEF LastSent
    <3>2. PointsInOrder' /\ sent'[current] # <<>> /\ sent'[current][Len(sent'[current])] = cntr
      BY <1>0, <2>3, <3>1, AppendInOrder DEF SentInv
    <3>3. LastSent'
      BY <1>0, <2>1, <3>2 DEF LastSent
    <3> QED  BY <1>0, <2>1, <3>2, <3>3 DEF SentInv
  <2>4. UNCHANGED sent \/ (Runs /\ cntr < points.n /\ sent' = [sent EXCEPT ![current] = Append(@, cntr)])
    BY <1>0, <2>1, ToServosDoes DEF Running
  <2> QED  BY <2>2, <2>3, <2>4
<1> QED  BY <1>3, <1>4, <1>5, <1>6, <1>7 DEF Timer

\* Every step keeps SentInv: a goal starts with nothing sent, and then only the timer sends.
LEMMA NextSent == TypeOK /\ AnswerInv /\ HistoryType /\ OrderInv /\ WrapInv /\ SentInv /\ [Next]_vars => SentInv'
<1> SUFFICES ASSUME TypeOK, AnswerInv, HistoryType, OrderInv, WrapInv, SentInv, [Next]_vars, ~Timer PROVE SentInv'
  BY TimerSent
<1>1. UNCHANGED <<player, timer, flag, cntr, sent>>
  BY DEF Next, ActionThread, SendGoal, CancelAll, Accept, Reject, Clear, CopyPoint, Copied, Start, Succeed, Stop,
         Preempted, Tick, vars, timerVars, history
<1>2. PointsInOrder'
  BY <1>1 DEF SentInv, PointsInOrder, InOrder
<1>3. CASE Start
  BY <1>1, <1>2, <1>3 DEF Start, server, OrderInv, SentInv
<1>4. CASE ~Start /\ thread' \in {"poll", "stopped"}
  <2>1. /\ thread \in {"poll", "stopped"} /\ (execute' => execute) /\ UNCHANGED <<points, current>>
    BY <1>4 DEF Next, ActionThread, SendGoal, CancelAll, Accept, Reject, Clear, CopyPoint, Copied, Succeed, Stop,
                Preempted, Tick, vars, server, shared, OrderInv
  <2>2. LastSent => LastSent'
    BY <1>1, <2>1 DEF LastSent
  <2> QED  BY <1>1, <1>2, <2>1, <2>2 DEF SentInv
<1> QED  BY <1>1, <1>2, <1>3, <1>4 DEF Start, SentInv

ServerInv == TypeOK /\ AnswerInv /\ HistoryType /\ OrderInv /\ QuietInv /\ StrayInv /\ RestInv /\ WrapInv /\ SentInv

\* They hold together.
LEMMA ServerInvariant == Spec => []ServerInv
<1>1. Init => ServerInv
  BY InitType, InitAnswer, InitHistory, InitSent DEF ServerInv
<1>2. ServerInv /\ [Next]_vars => ServerInv'
  BY NextType, NextAnswer, NextHistory, NextOrder, NextQuiet, NextStray, NextRest,
     NextWrap, NextSent DEF ServerInv
<1> QED  BY <1>1, <1>2, PTL DEF Spec

\* A goal that runs gets its points in order, however it was started and however it ends; and for
\* one started after the timer had seen the server idle, SUCCESSFUL means that all but the first
\* point (the last one only with servo_control_trajectory, the last one and some before it for the
\* gripper) have been sent (sdk_sagittarius_arm_real.cpp:445-470, 525-614).  Nothing is said of how
\* much of a goal has been sent that was preempted or started before the timer had seen one end.
THEOREM AlwaysSuccessComplete == Spec => []SuccessComplete
<1>1. ServerInv => SuccessComplete
  BY DEF ServerInv, RestInv, SentInv, SuccessComplete
<1> QED  BY <1>1, ServerInvariant, PTL

\* Until a goal is preempted the timer plays nothing but the goal that runs and stays within its
\* points; a goal that is preempted moves the arm by one more point at most (sdk_sagittarius_arm_real.cpp:456-464, 525-614).
THEOREM StraysAlwaysNeedPreempt == Spec => []StraysNeedPreempt
<1>1. ServerInv => StraysNeedPreempt
  <2> SUFFICES ASSUME ServerInv PROVE StraysNeedPreempt
    OBVIOUS
  <2>1. timer = "crashed" => Disturbed(goals)
    <3> SUFFICES ASSUME timer = "crashed" PROVE Disturbed(goals)
      OBVIOUS
    <3>1. ~Quiet
      BY DEF ServerInv, QuietInv, Counted
    <3>2. PICK h \in Goals : result[h] = "preempted"
      BY <3>1 DEF Quiet
    <3>3. h \in 1..goals
      BY <3>2, Basics DEF ServerInv, AnswerInv
    <3> QED  BY <3>2, <3>3 DEF Disturbed
  <2> QED  BY <2>1 DEF ServerInv, StrayInv, StraysNeedPreempt
<1> QED  BY <1>1, ServerInvariant, PTL

=============================================================================
