---------------------------- MODULE ActionServer ----------------------------
(***************************************************************************)
(* What an action server promises to its clients, who see only the status  *)
(* of their goals: goals start one at a time, the newest of those that     *)
(* wait; each gets one answer, which is final; and a goal is given up only *)
(* if somebody asked for it, by cancelling it or by sending another.       *)
(***************************************************************************)
EXTENDS Naturals

CONSTANT MaxGoals   \* bound: goals sent

VARIABLES
    status,   \* of each goal
    asked     \* the goals that have been asked to stop and are not answered yet

avars == <<status, asked>>

Goals == 1..MaxGoals
Unanswered(g) == status[g] \in {"pending", "active"}
Only(st) == {g \in Goals : status[g] = st}

Init == status = [g \in Goals |-> "unsent"] /\ asked = {}

\* The goal that waits is dropped for the new one, the one at work asked to stop.
Send(g) ==
    /\ status[g] = "unsent" /\ \A h \in 1..(g - 1) : status[h] # "unsent"
    /\ status' = [h \in Goals |-> IF h = g THEN "pending"
                                  ELSE IF status[h] = "pending" THEN "recalled" ELSE status[h]]
    /\ asked' = Only("active")

CancelAll == asked' = {g \in Goals : Unanswered(g)} /\ UNCHANGED status

Begin(g) ==
    /\ status[g] = "pending" /\ Only("active") = {}
    /\ status' = [status EXCEPT ![g] = "active"]
    /\ UNCHANGED asked

End(g) ==
    /\ status[g] = "active"
    /\ \E a \in {"succeeded", "invalid", "preempted"} :
          /\ a = "preempted" => g \in asked
          /\ status' = [status EXCEPT ![g] = a]
    /\ asked' = asked \ {g}

Next == CancelAll \/ \E g \in Goals : Send(g) \/ Begin(g) \/ End(g)

Spec == Init /\ [][Next]_avars
=============================================================================
