------------------------------ MODULE Registry ------------------------------
(***************************************************************************)
(* The tables of the TCP endpoint (SysCommands and the communicators of    *)
(* ros_tcp_endpoint): Unity registers topics and services by name; each    *)
(* name has a communicator that stands for it in ROS.  The tables belong   *)
(* to the server: all connections share them and they survive every one.   *)
(* No lock guards them, so another reader may run between any two steps of *)
(* a registration, of a publication or of a call.                          *)
(*                                                                         *)
(* Commands with a blank name or an unknown class, and messages for a      *)
(* name nobody has registered, only send an error to Unity and are left    *)
(* out, as is malformed data.  Endpoint has the connections, queues and    *)
(* service ids.                                                            *)
(***************************************************************************)
EXTENDS Naturals, FiniteSets

CONSTANTS
    Readers,    \* ClientThreads, each with a connection, then another
    Topics,     \* names of topics and services
    MaxJobs     \* bound: registrations, messages and calls that Unity makes

ASSUME CountAssumption == MaxJobs \in Nat

VARIABLES
    table,      \* the four tables: for each place the number of its communicator, 0 if none
    made,       \* communicators made so far for each place
    live,       \* those that are registered in ROS
    held,       \* content of the message object of each
    reader,     \* each ClientThread
    call,       \* each thread of a service call (service_call_thread)
    jobs,       \* registrations, messages and calls so far, which it numbers
    out,        \* what each topic carried last
    through,    \* communicators that passed the last ROS message of a topic to Unity
    raced       \* places that two readers have been registering at once

vars == <<table, made, live, held, reader, call, jobs, out, through, raced>>

Kinds  == {"publisher", "subscriber", "unityService", "rosService"}
Places == Kinds \X Topics
NoPlace == <<"none", "none">>
Nodes  == 1..MaxJobs
Calls  == 1..MaxJobs

Idle   == [pc |-> "recv", at |-> NoPlace, node |-> 0, msg |-> 0, met |-> FALSE]
Closed == [Idle EXCEPT !.pc = "closed"]
NoCall == [pc |-> "none", at |-> NoPlace, node |-> 0, tries |-> 0, got |-> 0, met |-> FALSE]

Init ==
    /\ table = [p \in Places |-> 0] /\ made = [p \in Places |-> 0]
    /\ live = [p \in Places |-> {}] /\ held = [p \in Places |-> [n \in Nodes |-> 0]]
    /\ reader = [c \in Readers |-> Closed] /\ call = [r \in Calls |-> NoCall]
    /\ jobs = 0
    /\ out = [t \in Topics |-> 0] /\ through = [t \in Topics |-> {}]
    /\ raced = {}

---------------------------------------------------------------------------
(* ClientThread.run                                                        *)

Registering(c, p) == reader[c].at = p /\ reader[c].pc \in {"unregister", "create", "store"}
Working(c, p)     == reader[c].at = p /\ reader[c].pc # "raised"

\* c sets to work on p; whoever else is at it has met it.
Begin(c, p, pc, node, msg) ==
    LET others == {d \in Readers \ {c} : Working(d, p)} IN
    reader' = [d \in Readers |->
        IF d = c THEN [pc |-> pc, at |-> p, node |-> node, msg |-> msg, met |-> others # {}]
        ELSE IF d \in others THEN [reader[d] EXCEPT !.met = TRUE]
        ELSE reader[d]]

Goto(c, pc) == reader' = [reader EXCEPT ![c].pc = pc]
Loop(c)     == reader' = [reader EXCEPT ![c] = Idle]

\* No exception but an IOError is caught; the connection is closed all the same.
Raise(c)    == Goto(c, "raised")

Connects(c) ==
    /\ reader[c].pc \in {"closed", "raised"} /\ Loop(c)
    /\ UNCHANGED <<table, made, live, held, call, jobs, out, through, raced>>

Closes(c) ==
    /\ reader[c].pc = "recv" /\ reader' = [reader EXCEPT ![c] = Closed]
    /\ UNCHANGED <<table, made, live, held, call, jobs, out, through, raced>>

\* subscribe, publish, ros_service or unity_service: the old communicator is
\* looked up.
Registers(c, p) ==
    /\ reader[c].pc = "recv" /\ jobs < MaxJobs /\ jobs' = jobs + 1
    /\ Begin(c, p, IF table[p] = 0 THEN "create" ELSE "unregister", table[p], 0)
    /\ raced' = IF \E d \in Readers \ {c} : Registering(d, p) THEN raced \cup {p} ELSE raced
    /\ UNCHANGED <<table, made, live, held, call, out, through>>

\* Mutant: the old communicator is only dropped from the table.
UnregistersNone(c) ==
    /\ reader[c].pc = "unregister" /\ Goto(c, "create")
    /\ UNCHANGED <<table, made, live, held, call, jobs, out, through, raced>>

\* The old communicator leaves ROS, if it has not already.
Unregisters(c) ==
    /\ reader[c].pc = "unregister" /\ Goto(c, "create")
    /\ live' = [live EXCEPT ![reader[c].at] = @ \ {reader[c].node}]
    /\ UNCHANGED <<table, made, held, call, jobs, out, through, raced>>

\* ROS raises a ServiceException if this node already offers a service of that name.
Refused(p) == p[1] = "unityService" /\ live[p] # {}

\* A service proxy is nothing that ROS knows of.
Joined(p, n) == IF p[1] = "rosService" THEN live[p] ELSE live[p] \cup {n}

\* A new one enters it.
Creates(c) ==
    /\ reader[c].pc = "create"
    /\ LET p == reader[c].at  n == made[p] + 1 IN
       IF Refused(p)
       THEN Raise(c) /\ UNCHANGED <<made, live>>
       ELSE /\ n \in Nodes /\ made' = [made EXCEPT ![p] = n]
            /\ live' = [live EXCEPT ![p] = Joined(p, n)]
            /\ reader' = [reader EXCEPT ![c].pc = "store", ![c].node = n]
    /\ UNCHANGED <<table, held, call, jobs, out, through, raced>>

\* Mutant: an entry that is there stays (setdefault).
StoresFirst(c) ==
    /\ reader[c].pc = "store"
    /\ table' = [table EXCEPT ![reader[c].at] = IF @ = 0 THEN reader[c].node ELSE @]
    /\ Loop(c)
    /\ UNCHANGED <<made, live, held, call, jobs, out, through, raced>>

Stores(c) ==
    /\ reader[c].pc = "store"
    /\ table' = [table EXCEPT ![reader[c].at] = reader[c].node]
    /\ Loop(c)
    /\ UNCHANGED <<made, live, held, call, jobs, out, through, raced>>

\* A message for a topic in publishers_table.
Reads(c, t) ==
    /\ reader[c].pc = "recv" /\ jobs < MaxJobs /\ jobs' = jobs + 1
    /\ LET p == <<"publisher", t>> IN
           table[p] # 0 /\ Begin(c, p, "deserialize", table[p], jobs')
    /\ UNCHANGED <<table, made, live, held, call, out, through, raced>>

\* RosPublisher.send: into the message object of the communicator ...
Deserializes(c) ==
    /\ reader[c].pc = "deserialize" /\ Goto(c, "publish")
    /\ held' = [held EXCEPT ![reader[c].at][reader[c].node] = reader[c].msg]
    /\ UNCHANGED <<table, made, live, call, jobs, out, through, raced>>

\* ... and what that holds goes out; an unregistered publisher raises.
Publishes(c) ==
    /\ reader[c].pc = "publish"
    /\ LET p == reader[c].at  n == reader[c].node IN
       IF n \in live[p] THEN Loop(c) /\ out' = [out EXCEPT ![p[2]] = held[p][n]]
       ELSE Raise(c) /\ UNCHANGED out
    /\ UNCHANGED <<table, made, live, held, call, jobs, through, raced>>

\* A service request: a thread calls the communicator of the name.
Serves(c, t) ==
    /\ reader[c].pc = "recv" /\ jobs < MaxJobs /\ jobs' = jobs + 1
    /\ LET p == <<"rosService", t>>
           others == {r \in Calls : /\ call[r].pc \in {"deserialize", "calling"}
                                    /\ call[r].at = p /\ call[r].node = table[p]} IN
           /\ table[p] # 0
           /\ call' = [r \in Calls |->
                  IF r = jobs' THEN [NoCall EXCEPT !.pc = "deserialize", !.at = p, !.node = table[p],
                                                    !.met = (others # {})]
                  ELSE IF r \in others THEN [call[r] EXCEPT !.met = TRUE]
                  ELSE call[r]]
    /\ UNCHANGED <<table, made, live, held, reader, out, through, raced>>

Reader(c) ==
    \/ Connects(c) \/ Closes(c)
    \/ \E p \in Places : Registers(c, p)
    \/ Unregisters(c) \/ Creates(c) \/ Stores(c)
    \/ \E t \in Topics : Reads(c, t) \/ Serves(c, t)
    \/ Deserializes(c) \/ Publishes(c)

---------------------------------------------------------------------------
(* RosService.send, in a thread for each call                              *)

CallOnly == UNCHANGED <<table, made, live, reader, jobs, out, through, raced>>

\* Mutant: only the first request is deserialized.
TakesFirst(r) ==
    /\ call[r].pc = "deserialize" /\ call' = [call EXCEPT ![r].pc = "calling"]
    /\ held' = [held EXCEPT ![call[r].at][call[r].node] = IF @ = 0 THEN r ELSE @]
    /\ CallOnly

\* deserialize returns the object itself: the one request object of the
\* communicator.
Takes(r) ==
    /\ call[r].pc = "deserialize" /\ call' = [call EXCEPT ![r].pc = "calling"]
    /\ held' = [held EXCEPT ![call[r].at][call[r].node] = r]
    /\ CallOnly

\* The service gets what the object holds now, and answers; or the call raises
\* a ServiceException, at most three times.  After any other exception it is
\* repeated without end.
Attempts(r) ==
    /\ call[r].pc = "calling"
    /\ \/ call' = [call EXCEPT ![r].pc = "answered", ![r].got = held[call[r].at][call[r].node]]
       \/ call' = [call EXCEPT ![r].tries = @ + 1, ![r].pc = IF call[r].tries = 2 THEN "failed" ELSE "calling"]
    /\ CallOnly /\ UNCHANGED held

---------------------------------------------------------------------------
\* A ROS message goes to every subscriber that is registered, and each of them
\* (RosSubscriber.send) to Unity.
Receives(t) ==
    /\ through' = [through EXCEPT ![t] = live[<<"subscriber", t>>]]
    /\ UNCHANGED <<table, made, live, held, reader, call, jobs, out, raced>>

Next ==
    \/ \E c \in Readers : Reader(c)
    \/ \E r \in Calls : Takes(r) \/ Attempts(r)
    \/ \E t \in Topics : Receives(t)

Spec == Init /\ [][Next]_vars

---------------------------------------------------------------------------
(* Properties                                                              *)

Threads == [pc: {"closed", "recv", "unregister", "create", "store", "deserialize", "publish", "raised"},
            at: Places \cup {NoPlace}, node: 0..MaxJobs, msg: 0..MaxJobs, met: BOOLEAN]
CallThreads == [pc: {"none", "deserialize", "calling", "answered", "failed"},
                at: Places \cup {NoPlace}, node: 0..MaxJobs, tries: 0..3, got: Nat, met: BOOLEAN]

TypeOK ==
    /\ table \in [Places -> 0..MaxJobs] /\ made \in [Places -> 0..MaxJobs]
    /\ live \in [Places -> SUBSET Nodes] /\ held \in [Places -> [Nodes -> Nat]]
    /\ reader \in [Readers -> Threads] /\ call \in [Calls -> CallThreads]
    /\ jobs \in 0..MaxJobs
    /\ out \in [Topics -> Nat] /\ through \in [Topics -> SUBSET Nodes]
    /\ raced \subseteq Places

InTable(p) == IF table[p] = 0 THEN {} ELSE {table[p]}

\* Between registrations ROS knows exactly the communicators of the tables:
\* none is left behind that nobody can unregister, and none in a table is dead.
\* Two readers that register a topic at once can leave one behind, for good;
\* of a service offered by Unity there is never a second one.
TablesTellRos ==
    \A p \in Places :
        \/ p[1] = "rosService" \/ (p \in raced /\ p[1] # "unityService")
        \/ \E c \in Readers : Registering(c, p)
        \/ live[p] = InTable(p)

\* A connection is lost to an exception only if two readers were at the same
\* name at once.
RaisesOnlyIfMet == \A c \in Readers : reader[c].pc = "raised" => reader[c].met

\* What Unity sends for a topic is what goes out, unless another connection was
\* using or registering the topic meanwhile.
PublishesOwn ==
    [][\A c \in Readers :
          reader[c].pc = "publish" /\ ~reader[c].met /\ reader'[c].pc # "publish" =>
              out'[reader[c].at[2]] = reader[c].msg]_vars

\* A ROS service answers the request that was made, unless two calls of it
\* overlapped (on one connection or two): they share one request object.
AnswersOwn == \A r \in Calls : call[r].pc = "answered" => call[r].met \/ call[r].got = r

\* A ROS message is passed to Unity once, unless two connections have
\* subscribed to its topic at once.
PassedOnce ==
    \A t \in Topics : <<"subscriber", t>> \in raced \/ \A m, n \in through[t] : m = n
=============================================================================
