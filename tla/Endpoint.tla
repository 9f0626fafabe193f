------------------------------ MODULE Endpoint ------------------------------
(***************************************************************************)
(* The TCP endpoint between Unity and ROS (ros_tcp_endpoint): a reader and *)
(* a sender thread for each connection, the rospy threads that call a      *)
(* service implemented in Unity, and the threads that call a ROS service   *)
(* for Unity.  The server has one queue to send to, that of the sender     *)
(* that took it last, and one pending service id, both for all             *)
(* connections.  A service message is two on the wire: "__request" or      *)
(* "__response" with the id, then the message itself.                      *)
(*                                                                         *)
(* Topic messages and log lines, which are queued and forgotten, and the   *)
(* registration commands are left out.                                     *)
(***************************************************************************)
EXTENDS Naturals, Sequences, FiniteSets

CONSTANTS
    MaxConns,     \* bound: connections Unity makes, one after the other or not
    MaxServices   \* bound: service calls, both ways together

ASSUME BoundAssumption == {MaxConns, MaxServices} \subseteq Nat

VARIABLES
    conns, link, inbox,             \* connections so far; for each: up or cut, what Unity has sent
    asked,                          \* calls that have reached Unity on each connection
    reader, halt,                   \* ClientThread.run and its halt_event
    sender, out,                    \* sender_loop and its local_queue
    queue,                          \* self.queue: whose local_queue, 0 for None
    pendingId, pendingIsRequest,    \* pending_srv_id (0 for None), pending_srv_is_request
    nextId, waiting,                \* next_srv_id, keys of services_waiting
    call,                           \* threads in send_unity_service_request
    svc,                            \* service_call_thread of each of Unity's requests
    first, owner, carrier,          \* history: kind of the first item sent, last sender that took the
                                    \* queue, connection a call was put on
    pendingBy, exposed              \* history: who set the pending id; another connection was being
                                    \* read while one was pending

unityVars  == <<conns, link, inbox, asked>>
readerVars == <<reader, halt>>
senderVars == <<sender, out, queue>>
pending    == <<pendingId, pendingIsRequest, pendingBy>>
callVars   == <<nextId, waiting, call, carrier>>
vars == <<unityVars, readerVars, senderVars, pending, callVars, svc, first, owner, exposed>>

Conns    == 1..MaxConns
Calls    == 1..MaxServices  \* of ROS to services in Unity
Requests == 1..MaxServices  \* of Unity to ROS services
NoMsg    == [kind |-> "none", id |-> 0]
Msg(k, i) == [kind |-> k, id |-> i]

Init ==
    /\ conns = 0
    /\ link = [c \in Conns |-> "none"] /\ inbox = [c \in Conns |-> <<>>]
    /\ asked = [c \in Conns |-> {}]
    /\ reader = [c \in Conns |-> [pc |-> "none", msg |-> NoMsg]]
    /\ halt = [c \in Conns |-> FALSE]
    /\ sender = [c \in Conns |-> "none"] /\ out = [c \in Conns |-> <<>>] /\ queue = 0
    /\ pendingId = 0 /\ pendingIsRequest = FALSE /\ pendingBy = 0
    /\ nextId = 1 /\ waiting = {}
    /\ call = [k \in Calls |-> [pc |-> "idle", id |-> 0, got |-> 0, early |-> FALSE]]
    /\ svc = [r \in Requests |-> [pc |-> "none", tag |-> 0]]
    /\ first = [c \in Conns |-> "none"] /\ owner = 0
    /\ carrier = [k \in Calls |-> 0] /\ exposed = FALSE

\* Services used so far, numbered in the order of their calls.
NextCall    == Cardinality({k \in Calls : call[k].pc # "idle"}) + 1
NextRequest == Cardinality({r \in Requests : svc[r].pc # "none"}) + 1
MoreServices == NextCall + NextRequest - 2 < MaxServices

Put(q, m) == out' = [out EXCEPT ![q] = Append(@, m)]

---------------------------------------------------------------------------
(* Unity (external)                                                        *)

\* listen_loop accepts and starts the reader, which starts the sender.
Connects ==
    /\ conns < MaxConns /\ conns' = conns + 1
    /\ link' = [link EXCEPT ![conns'] = "up"]
    /\ reader' = [reader EXCEPT ![conns'].pc = "recv"]
    /\ sender' = [sender EXCEPT ![conns'] = "starting"]
    /\ UNCHANGED <<inbox, asked, halt, out, queue, pending, callVars, svc, first, owner>>

UnitySends(c, ms) ==
    /\ link[c] = "up" /\ inbox' = [inbox EXCEPT ![c] = @ \o ms]
    /\ UNCHANGED <<conns, link, readerVars, senderVars, pending, callVars, first, owner>>

UnityCalls(c, r) ==
    /\ MoreServices /\ r = NextRequest /\ svc' = [svc EXCEPT ![r].pc = "sent"]
    /\ UnitySends(c, <<Msg("__request", r), Msg("call", r)>>)
    /\ UNCHANGED asked

UnityAnswers(c) ==
    \E i \in asked[c] :
        /\ UnitySends(c, <<Msg("__response", i), Msg("answer", i)>>)
        /\ asked' = [asked EXCEPT ![c] = @ \ {i}] /\ UNCHANGED svc

\* The connection breaks; some of what was on its way arrives.
Cut(c) ==
    /\ link[c] = "up" /\ link' = [link EXCEPT ![c] = "cut"]
    /\ \E n \in 0..Len(inbox[c]) : inbox' = [inbox EXCEPT ![c] = SubSeq(@, 1, n)]
    /\ asked' = [asked EXCEPT ![c] = {}]
    /\ UNCHANGED <<conns, readerVars, senderVars, pending, callVars, svc, first, owner>>

---------------------------------------------------------------------------
(* ClientThread.run                                                        *)

ReaderOnly == UNCHANGED <<unityVars, halt, senderVars, first, owner>>
At(c, pc) == reader' = [reader EXCEPT ![c].pc = pc]
\* Back to the top of the loop, which looks at halt_event.
Loop(c) ==
    reader' = [reader EXCEPT ![c] = [pc |-> IF halt[c] THEN "closing" ELSE "recv", msg |-> NoMsg]]
Stops(c, pc) == reader' = [reader EXCEPT ![c] = [pc |-> pc, msg |-> NoMsg]]

\* read_message gets the whole of a message or none of it: where the stream ends, in a message or
\* between two, recvall raises an IOError.
GotMessage(c)  == inbox[c] # <<>>
EndOfStream(c) == inbox[c] = <<>> /\ link[c] = "cut"

\* A message is there: a service message if an id is pending, whoever set it.
Reads(c) ==
    /\ reader[c].pc = "recv" /\ GotMessage(c)
    /\ inbox' = [inbox EXCEPT ![c] = Tail(@)]
    /\ LET m == Head(inbox[c]) IN
           reader' = [reader EXCEPT ![c] =
               IF pendingId # 0 THEN [pc |-> "service", msg |-> m]
               ELSE IF m.kind \in {"__request", "__response"} THEN [pc |-> "command", msg |-> m]
               ELSE [pc |-> IF halt[c] THEN "closing" ELSE "recv", msg |-> NoMsg]]
    /\ UNCHANGED <<conns, link, asked, halt, senderVars, pending, callVars, svc, first, owner>>

\* SysCommands.request and response: the id, then the flag.
SetsId(c) ==
    /\ reader[c].pc = "command"
    /\ pendingId' = reader[c].msg.id /\ pendingBy' = c
    /\ At(c, "flag")
    /\ ReaderOnly /\ UNCHANGED <<pendingIsRequest, callVars, svc>>

SetsFlag(c) ==
    /\ reader[c].pc = "flag"
    /\ pendingIsRequest' = (reader[c].msg.kind = "__request")
    /\ Loop(c)
    /\ ReaderOnly /\ UNCHANGED <<pendingId, pendingBy, callVars, svc>>

\* send_ros_service_request: a thread for the call, or nothing if there is no
\* such service.
ServesRequest(c) ==
    /\ reader[c].pc = "service" /\ pendingIsRequest
    /\ LET m == reader[c].msg IN
           svc' = IF m.kind = "call" THEN [svc EXCEPT ![m.id] = [pc |-> "calling", tag |-> pendingId]]
                  ELSE svc
    /\ Stops(c, "clear")
    /\ ReaderOnly /\ UNCHANGED <<pending, callVars>>

\* Whoever waits for the id gets the message; a KeyError ends the reader, with
\* the id still pending.
ServesResponse(c) ==
    /\ reader[c].pc = "service" /\ ~pendingIsRequest
    /\ IF pendingId \in waiting
       THEN /\ waiting' = waiting \ {pendingId}
            /\ call' = [k \in Calls |->
                   IF call[k].id = pendingId
                   THEN [call[k] EXCEPT !.got = IF reader[c].msg.kind = "answer" THEN reader[c].msg.id ELSE 0]
                   ELSE call[k]]
            /\ reader' = [reader EXCEPT ![c] = [pc |-> "notify", msg |-> Msg("id", pendingId)]]
       ELSE Stops(c, "closing") /\ UNCHANGED <<waiting, call>>
    /\ ReaderOnly /\ UNCHANGED <<pending, nextId, carrier, svc>>

\* condition.notify wakes the caller, who returns, if it is waiting already.
Notifies(c) ==
    /\ reader[c].pc = "notify"
    /\ call' = [k \in Calls |->
           IF call[k].id # reader[c].msg.id THEN call[k]
           ELSE IF call[k].pc = "waiting" THEN [call[k] EXCEPT !.pc = "done"]
           ELSE [call[k] EXCEPT !.early = TRUE]]
    /\ Stops(c, "clear")
    /\ ReaderOnly /\ UNCHANGED <<pending, nextId, waiting, carrier, svc>>

\* Mutant: the id stays pending.
ClearsNothing(c) ==
    /\ reader[c].pc = "clear"
    /\ Loop(c)
    /\ ReaderOnly /\ UNCHANGED <<pending, callVars, svc>>

Clears(c) ==
    /\ reader[c].pc = "clear"
    /\ pendingId' = 0 /\ pendingBy' = 0
    /\ Loop(c)
    /\ ReaderOnly /\ UNCHANGED <<pendingIsRequest, callVars, svc>>

\* Mutant: the sender is not told.
ClosesSilently(c) ==
    /\ \/ reader[c].pc = "closing"
       \/ reader[c].pc = "recv" /\ EndOfStream(c)
    /\ link' = [link EXCEPT ![c] = "cut"]
    /\ inbox' = [inbox EXCEPT ![c] = <<>>] /\ asked' = [asked EXCEPT ![c] = {}]
    /\ Stops(c, "closed")
    /\ UNCHANGED <<conns, halt, senderVars, pending, callVars, svc, first, owner>>

\* The end of the stream, an exception or halt_event: the finally clause.
Closes(c) ==
    /\ \/ reader[c].pc = "closing"
       \/ reader[c].pc = "recv" /\ EndOfStream(c)
    /\ halt' = [halt EXCEPT ![c] = TRUE]
    /\ link' = [link EXCEPT ![c] = "cut"]
    /\ inbox' = [inbox EXCEPT ![c] = <<>>] /\ asked' = [asked EXCEPT ![c] = {}]
    /\ Stops(c, "closed")
    /\ UNCHANGED <<conns, senderVars, pending, callVars, svc, first, owner>>

Reader(c) ==
    \/ Reads(c) \/ SetsId(c) \/ SetsFlag(c) \/ ServesRequest(c) \/ ServesResponse(c)
    \/ Notifies(c) \/ Clears(c) \/ Closes(c)

---------------------------------------------------------------------------
(* UnityTcpSender.sender_loop                                              *)

SenderOnly == UNCHANGED <<conns, inbox, reader, pending, callVars, svc>>

\* A queue of its own, with the handshake in it, becomes the server's.
TakesQueue(c) ==
    /\ sender[c] = "starting" /\ sender' = [sender EXCEPT ![c] = "running"]
    /\ Put(c, Msg("handshake", 0))
    /\ queue' = c /\ owner' = c
    /\ SenderOnly /\ UNCHANGED <<link, asked, halt, first>>

SendsItem(c) ==
    /\ sender[c] = "running" /\ out[c] # <<>> /\ link[c] = "up"
    /\ LET m == Head(out[c]) IN
           /\ asked' = IF m.kind = "request" THEN [asked EXCEPT ![c] = @ \cup {m.id}] ELSE asked
           /\ first' = IF first[c] = "none" THEN [first EXCEPT ![c] = m.kind] ELSE first
    /\ out' = [out EXCEPT ![c] = Tail(@)]
    /\ SenderOnly /\ UNCHANGED <<link, halt, sender, queue, owner>>

\* Mutant: another sender's queue is taken away too.
EndsSenderAny(c) ==
    /\ sender[c] = "running"
    /\ halt[c] \/ (out[c] # <<>> /\ link[c] = "cut")
    /\ sender' = [sender EXCEPT ![c] = "ended"] /\ halt' = [halt EXCEPT ![c] = TRUE]
    /\ queue' = 0
    /\ out' = [out EXCEPT ![c] = <<>>]
    /\ SenderOnly /\ UNCHANGED <<link, asked, first, owner>>

\* halt_event or a failing sendall: the queue is given up if it is its own.
EndsSender(c) ==
    /\ sender[c] = "running"
    /\ halt[c] \/ (out[c] # <<>> /\ link[c] = "cut")
    /\ sender' = [sender EXCEPT ![c] = "ended"] /\ halt' = [halt EXCEPT ![c] = TRUE]
    /\ queue' = IF queue = c THEN 0 ELSE queue
    /\ out' = [out EXCEPT ![c] = <<>>]
    /\ SenderOnly /\ UNCHANGED <<link, asked, first, owner>>

Sender(c) == TakesQueue(c) \/ SendsItem(c) \/ EndsSender(c)

---------------------------------------------------------------------------
(* Threads of rospy, and of the calls to ROS services                      *)

CallOnly == UNCHANGED <<unityVars, readerVars, sender, queue, pending, svc, first, owner>>

\* send_unity_service_request with a queue to put on; None otherwise.
Registers(k) ==
    /\ MoreServices /\ k = NextCall /\ queue # 0
    /\ waiting' = waiting \cup {nextId} /\ nextId' = nextId + 1
    /\ call' = [call EXCEPT ![k].pc = "registered", ![k].id = nextId]
    /\ CallOnly /\ UNCHANGED <<out, carrier>>

\* The queue may be None by now, which raises; the id stays registered.
PutsRequest(k) ==
    /\ call[k].pc = "registered"
    /\ IF queue = 0 THEN call' = [call EXCEPT ![k].pc = "raised"] /\ UNCHANGED <<out, carrier>>
       ELSE /\ Put(queue, Msg("request", call[k].id))
            /\ carrier' = [carrier EXCEPT ![k] = queue]
            /\ call' = [call EXCEPT ![k].pc = "put"]
    /\ CallOnly /\ UNCHANGED <<nextId, waiting>>

\* sleep_until_resumed: no timeout, and no look at a result that is there.
Waits(k) ==
    /\ call[k].pc = "put" /\ call' = [call EXCEPT ![k].pc = "waiting"]
    /\ CallOnly /\ UNCHANGED <<out, nextId, waiting, carrier>>

Caller(k) == PutsRequest(k) \/ Waits(k)

ServiceOnly == UNCHANGED <<unityVars, readerVars, sender, queue, pending, callVars, first, owner>>

\* The ROS service answers; with no queue the response is dropped.
ServiceReturns(r) ==
    /\ svc[r].pc = "calling" /\ svc' = [svc EXCEPT ![r].pc = "done"]
    /\ IF queue = 0 THEN UNCHANGED out ELSE Put(queue, Msg("response", svc[r].tag))
    /\ ServiceOnly

\* Three attempts have ended in a ServiceException: no response.
ServiceFails(r) ==
    /\ svc[r].pc = "calling" /\ svc' = [svc EXCEPT ![r].pc = "failed"]
    /\ ServiceOnly /\ UNCHANGED out

Service(r) == ServiceReturns(r) \/ ServiceFails(r)

Shared == pendingId # 0 /\ \E c \in Conns : c # pendingBy /\ reader[c].pc \notin {"none", "closed"}

Watched(A) == A /\ exposed' = (exposed \/ Shared')

Next ==
    Watched(\/ Connects
            \/ \E c \in Conns :
                   \/ UnityAnswers(c) \/ Cut(c) \/ Reader(c) \/ Sender(c)
                   \/ \E r \in Requests : UnityCalls(c, r)
            \/ \E k \in Calls : Registers(k) \/ Caller(k)
            \/ \E r \in Requests : Service(r))

\* The threads of each kind run, and Unity answers while it is connected: what
\* they have to do is finite, so none of them waits for another for ever.
\* Nothing is assumed of new connections, broken ones, calls and ROS services.
Fairness ==
    /\ WF_vars(Watched(\E c \in Conns : Reader(c)))
    /\ WF_vars(Watched(\E c \in Conns : Sender(c)))
    /\ WF_vars(Watched(\E c \in Conns : UnityAnswers(c)))
    /\ WF_vars(Watched(\E k \in Calls : Caller(k)))

Spec == Init /\ [][Next]_vars
FairSpec == Spec /\ Fairness

---------------------------------------------------------------------------
(* Properties                                                              *)

MsgKinds == {"none", "handshake", "__request", "__response", "call", "answer", "request", "response", "id"}
Msgs     == [kind: MsgKinds, id: Nat]
Readers  == [pc: {"none", "recv", "command", "flag", "service", "notify", "clear", "closing", "closed"},
             msg: Msgs]
Callers  == [pc: {"idle", "registered", "put", "waiting", "done", "raised"}, id: Nat, got: Nat,
             early: BOOLEAN]
Servers  == [pc: {"none", "sent", "calling", "done", "failed"}, tag: Nat]

\* Types; ids are registered only up to the next one.
TypeOK ==
    /\ conns \in 0..MaxConns /\ link \in [Conns -> {"none", "up", "cut"}]
    /\ inbox \in [Conns -> Seq(Msgs)] /\ out \in [Conns -> Seq(Msgs)] /\ asked \in [Conns -> SUBSET Nat]
    /\ reader \in [Conns -> Readers] /\ halt \in [Conns -> BOOLEAN]
    /\ sender \in [Conns -> {"none", "starting", "running", "ended"}]
    /\ {queue, owner, pendingBy} \subseteq 0..MaxConns
    /\ pendingId \in Nat /\ pendingIsRequest \in BOOLEAN
    /\ nextId \in Nat \ {0} /\ waiting \subseteq 1..(nextId - 1)
    /\ call \in [Calls -> Callers] /\ svc \in [Requests -> Servers]
    /\ first \in [Conns -> MsgKinds] /\ carrier \in [Calls -> 0..MaxConns]

\* The first thing Unity gets on a connection is the handshake, whatever other
\* threads have for the new queue.
HandshakeFirst == \A c \in Conns : first[c] \in {"none", "handshake"}

\* Messages go to the sender that took the queue last, until it ends: an older
\* one that ends late takes nothing away, and none queues up behind a dead one.
QueueOfLastSender == queue = IF owner # 0 /\ sender[owner] = "running" THEN owner ELSE 0

\* A call to Unity returns the answer to itself, and a response to Unity has the
\* id of its request, unless another connection is read while the
\* id of a service message is pending.
ResponsesMatch ==
    \/ exposed
    \/ /\ \A k \in Calls : call[k].pc = "done" => call[k].got = call[k].id
       /\ \A r \in Requests : svc[r].tag \in {0, r}

\* Every connection that breaks is given up by both of its threads, for good.
BothThreadsEnd ==
    <>[](\A c \in Conns : link[c] = "cut" => reader[c].pc = "closed" /\ sender[c] = "ended")

\* A call to Unity ends.  What can keep it for ever: the answer came before it
\* waited, its connection broke, or another connection was read while an id was
\* pending.  (All of these are final, and so is the end of a call.)
CallsEnd ==
    <>[](\A k \in Calls :
           call[k].id # 0 =>
               \/ call[k].pc \in {"done", "raised"}
               \/ call[k].early \/ exposed
               \/ carrier[k] # 0 /\ link[carrier[k]] = "cut")
=============================================================================
