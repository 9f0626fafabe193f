--------------------------- MODULE EndpointProofs ---------------------------
(***************************************************************************)
(* What holds of the endpoint's threads and of its queue for every number  *)
(* of connections and services.                                            *)
(***************************************************************************)
EXTENDS Endpoint, TLAPS

\* Connections not yet made have no sender; the queue is the last sender's.
OwnerInv ==
    /\ conns \in 0..MaxConns /\ owner \in 0..MaxConns
    /\ sender \in [Conns -> {"none", "starting", "running", "ended"}]
    /\ \A c \in Conns : c > conns => sender[c] = "none"
    /\ QueueOfLastSender

\* At the start nobody has connected and there is no queue.
LEMMA InitOwner == Init => OwnerInv
BY BoundAssumption DEF Init, OwnerInv, QueueOfLastSender, Conns

\* Only a connection, the start and the end of a sender touch what OwnerInv is about.
LEMMA NextOwner == OwnerInv /\ [Next]_vars => OwnerInv'
<1> SUFFICES ASSUME OwnerInv, [Next]_vars
             PROVE  OwnerInv'
  OBVIOUS
<1> USE BoundAssumption DEF OwnerInv, QueueOfLastSender, Conns
<1>1. CASE Connects
  BY <1>1 DEF Connects
<1>2. ASSUME NEW c \in Conns, TakesQueue(c)
      PROVE  OwnerInv'
  BY <1>2 DEF TakesQueue, SenderOnly
<1>3. ASSUME NEW c \in Conns, EndsSender(c)
      PROVE  OwnerInv'
  BY <1>3 DEF EndsSender, SenderOnly
<1>4. ASSUME NEW c \in Conns, SendsItem(c)
      PROVE  OwnerInv'
  BY <1>4 DEF SendsItem, SenderOnly
\* No other thread writes the sender's variables.
<1>5. ASSUME NEW c \in Conns, Reader(c) \/ Cut(c) \/ UnityAnswers(c)
      PROVE  OwnerInv'
  <2>1. UNCHANGED <<conns, sender, queue, owner>>
    BY <1>5 DEF Reader, Reads, SetsId, SetsFlag, ServesRequest, ServesResponse, Notifies, Clears,
       Closes, ReaderOnly, unityVars, senderVars, Cut, UnityAnswers, UnitySends
  <2> QED  BY <2>1
<1>6. ASSUME NEW c \in Conns, NEW r \in Requests, UnityCalls(c, r)
      PROVE  OwnerInv'
  BY <1>6 DEF UnityCalls, UnitySends, senderVars
<1>7. ASSUME NEW k \in Calls, Registers(k) \/ Caller(k)
      PROVE  OwnerInv'
  <2>1. UNCHANGED <<conns, sender, queue, owner>>
    BY <1>7 DEF Registers, Caller, PutsRequest, Waits, CallOnly, unityVars
  <2> QED  BY <2>1
<1>8. ASSUME NEW r \in Requests, Service(r)
      PROVE  OwnerInv'
  <2>1. UNCHANGED <<conns, sender, queue, owner>>
    BY <1>8 DEF Service, ServiceReturns, ServiceFails, ServiceOnly, unityVars
  <2> QED  BY <2>1
<1>9. CASE UNCHANGED vars
  BY <1>9 DEF vars, unityVars, senderVars
<1> QED
  BY <1>1, <1>2, <1>3, <1>4, <1>5, <1>6, <1>7, <1>8, <1>9 DEF Next, Watched, Sender

\* The server's queue is that of the sender that took it last, while it runs:
\* a late end of an older sender never takes it away, and no message is queued
\* for a sender that is gone.
THEOREM QueueIsOfLastSender == Spec => []QueueOfLastSender
<1>1. OwnerInv => QueueOfLastSender
  BY DEF OwnerInv
<1> QED  BY <1>1, InitOwner, NextOwner, PTL DEF Spec

-----------------------------------------------------------------------------
(* Types *)

\* At the start.
LEMMA InitType == Init => TypeOK
<1> SUFFICES ASSUME Init PROVE TypeOK
  OBVIOUS
<1>1. NoMsg \in Msgs
  BY DEF NoMsg, Msgs, MsgKinds
<1>2. reader \in [Conns -> Readers]
  BY <1>1 DEF Init, Readers
<1>3. call \in [Calls -> Callers] /\ svc \in [Requests -> Servers]
  BY DEF Init, Callers, Servers
<1>4. inbox \in [Conns -> Seq(Msgs)] /\ out \in [Conns -> Seq(Msgs)] /\ asked \in [Conns -> SUBSET Nat]
  BY DEF Init
<1>5. {queue, owner, pendingBy} \subseteq 0..MaxConns /\ conns \in 0..MaxConns /\ carrier \in [Calls -> 0..MaxConns]
  BY BoundAssumption DEF Init
<1>6. nextId \in Nat \ {0} /\ waiting \subseteq 1..(nextId - 1) /\ pendingId \in Nat
  BY DEF Init
<1> QED  BY <1>2, <1>3, <1>4, <1>5, <1>6 DEF Init, TypeOK, MsgKinds

\* A message of a known kind, and a queue it is put into.
LEMMA MsgTypes == /\ \A k \in MsgKinds, i \in Nat : Msg(k, i) \in Msgs
                  /\ NoMsg \in Msgs
BY DEF Msg, NoMsg, Msgs, MsgKinds

\* What Unity does.
LEMMA UnityType == ASSUME TypeOK, NEW c \in Conns, Cut(c) \/ UnityAnswers(c) \/ (\E r \in Requests : UnityCalls(c, r))
                   PROVE  TypeOK'
<1>0. /\ inbox \in [Conns -> Seq(Msgs)] /\ asked \in [Conns -> SUBSET Nat] /\ svc \in [Requests -> Servers]
      /\ link \in [Conns -> {"none", "up", "cut"}]
  BY DEF TypeOK
<1>1. ASSUME NEW ms \in Seq(Msgs), UnitySends(c, ms), asked' \in [Conns -> SUBSET Nat], svc' \in [Requests -> Servers]
      PROVE  TypeOK'
  <2>1. inbox' \in [Conns -> Seq(Msgs)]
    BY <1>0, <1>1 DEF UnitySends
  <2> QED  BY <1>1, <2>1 DEF UnitySends, TypeOK, readerVars, senderVars, pending, callVars
<1>2. CASE Cut(c)
  <2>1. PICK n \in 0..Len(inbox[c]) : inbox' = [inbox EXCEPT ![c] = SubSeq(@, 1, n)]
    BY <1>2 DEF Cut
  <2>2. SubSeq(inbox[c], 1, n) \in Seq(Msgs)
    BY <1>0
  <2>3. inbox' \in [Conns -> Seq(Msgs)]
    BY <1>0, <2>1, <2>2
  <2>4. link' \in [Conns -> {"none", "up", "cut"}] /\ asked' \in [Conns -> SUBSET Nat]
    BY <1>0, <1>2 DEF Cut
  <2> QED  BY <1>2, <2>3, <2>4 DEF Cut, TypeOK, readerVars, senderVars, pending, callVars
<1>3. CASE UnityAnswers(c)
  <2>1. PICK i \in asked[c] : /\ UnitySends(c, <<Msg("__response", i), Msg("answer", i)>>)
                              /\ asked' = [asked EXCEPT ![c] = @ \ {i}] /\ UNCHANGED svc
    BY <1>3 DEF UnityAnswers
  <2>2. <<Msg("__response", i), Msg("answer", i)>> \in Seq(Msgs)
    BY <1>0, MsgTypes DEF MsgKinds
  <2>3. asked' \in [Conns -> SUBSET Nat]
    BY <1>0, <2>1
  <2> QED  BY <1>0, <1>1, <2>1, <2>2, <2>3
<1>4. CASE \E r \in Requests : UnityCalls(c, r)
  <2>1. PICK r \in Requests : UnityCalls(c, r)
    BY <1>4
  <2>2. <<Msg("__request", r), Msg("call", r)>> \in Seq(Msgs)
    BY BoundAssumption, MsgTypes DEF MsgKinds, Requests
  <2>3. [svc[r] EXCEPT !.pc = "sent"] \in Servers
    BY <1>0 DEF Servers
  <2>4. svc' \in [Requests -> Servers]
    BY <1>0, <2>1, <2>3 DEF UnityCalls
  <2> QED  BY <1>0, <1>1, <2>1, <2>2, <2>4 DEF UnityCalls
<1> QED  BY <1>2, <1>3, <1>4

\* Where the reader goes.
LEMMA ReaderGoes == ASSUME TypeOK, NEW c \in Conns
    PROVE  /\ \A pc \in {"recv", "command", "flag", "service", "notify", "clear", "closing", "closed"} :
                 (At(c, pc) \/ Stops(c, pc)) => reader' \in [Conns -> Readers]
           /\ Loop(c) => reader' \in [Conns -> Readers]
<1>0. reader \in [Conns -> Readers] /\ NoMsg \in Msgs /\ halt[c] \in BOOLEAN
  BY MsgTypes DEF TypeOK
<1>1. ASSUME NEW pc \in {"recv", "command", "flag", "service", "notify", "clear", "closing", "closed"}
      PROVE  [reader[c] EXCEPT !.pc = pc] \in Readers /\ [pc |-> pc, msg |-> NoMsg] \in Readers
  BY <1>0, <1>1 DEF Readers
<1> QED  BY <1>0, <1>1 DEF At, Stops, Loop

\* What the reader does.
LEMMA ReaderType == ASSUME TypeOK, NEW c \in Conns, Reader(c) PROVE TypeOK'
<1>0. /\ inbox \in [Conns -> Seq(Msgs)] /\ reader \in [Conns -> Readers] /\ halt \in [Conns -> BOOLEAN]
      /\ call \in [Calls -> Callers] /\ svc \in [Requests -> Servers] /\ pendingId \in Nat /\ Conns = 1..MaxConns
      /\ link \in [Conns -> {"none", "up", "cut"}] /\ asked \in [Conns -> SUBSET Nat] /\ NoMsg \in Msgs
      /\ waiting \subseteq 1..(nextId - 1)
  BY MsgTypes DEF TypeOK, Conns
<1>m. reader[c].msg \in Msgs /\ reader[c].msg.id \in Nat
  BY <1>0 DEF Readers, Msgs
<1> DEFINE Rest == /\ pendingId' \in Nat /\ pendingIsRequest' \in BOOLEAN /\ pendingBy' \in 0..MaxConns
                   /\ call' \in [Calls -> Callers] /\ svc' \in [Requests -> Servers]
                   /\ waiting' \subseteq waiting /\ UNCHANGED <<nextId, carrier>>
<1>1. ASSUME ReaderOnly, reader' \in [Conns -> Readers], Rest
      PROVE  TypeOK'
  <2>1. UNCHANGED <<conns, link, inbox, asked, halt, sender, out, queue, first, owner>>
    BY <1>1 DEF ReaderOnly, unityVars, senderVars
  <2> QED  BY <1>1, <2>1 DEF TypeOK
<1>2. CASE Reads(c)
  <2>1. Head(inbox[c]) \in Msgs /\ Tail(inbox[c]) \in Seq(Msgs)
    BY <1>0, <1>2 DEF Reads, GotMessage
  <2>2. inbox' \in [Conns -> Seq(Msgs)]
    BY <1>0, <1>2, <2>1 DEF Reads
  <2>3. /\ [pc |-> "service", msg |-> Head(inbox[c])] \in Readers /\ [pc |-> "command", msg |-> Head(inbox[c])] \in Readers
        /\ [pc |-> "closing", msg |-> NoMsg] \in Readers /\ [pc |-> "recv", msg |-> NoMsg] \in Readers
    BY <1>0, <2>1 DEF Readers
  <2>4. reader' \in [Conns -> Readers]
    BY <1>0, <1>2, <2>3 DEF Reads
  <2> QED  BY <1>2, <2>2, <2>4 DEF Reads, TypeOK, senderVars, pending, callVars
<1>3. CASE SetsId(c)
  <2>1. reader' \in [Conns -> Readers]
    BY <1>3, ReaderGoes DEF SetsId
  <2>2. Rest
    BY <1>0, <1>m, <1>3 DEF SetsId, callVars, TypeOK
  <2> QED  BY <1>1, <1>3, <2>1, <2>2 DEF SetsId
<1>4. CASE SetsFlag(c)
  <2>1. reader' \in [Conns -> Readers]
    BY <1>4, ReaderGoes DEF SetsFlag
  <2>2. pendingIsRequest' \in BOOLEAN
    BY <1>4, Zenon DEF SetsFlag
  <2>3. Rest
    BY <1>0, <1>4, <2>2 DEF SetsFlag, callVars, TypeOK
  <2> QED  BY <1>1, <1>4, <2>1, <2>3 DEF SetsFlag
<1>5. CASE ServesRequest(c)
  <2>1. reader' \in [Conns -> Readers]
    BY <1>5, ReaderGoes DEF ServesRequest
  <2>2. [pc |-> "calling", tag |-> pendingId] \in Servers
    BY <1>0 DEF Servers
  <2>3. svc' \in [Requests -> Servers]
    BY <1>0, <1>5, <2>2 DEF ServesRequest
  <2>4. Rest
    BY <1>0, <1>5, <2>3 DEF ServesRequest, pending, callVars, TypeOK
  <2> QED  BY <1>1, <1>5, <2>1, <2>4 DEF ServesRequest
<1>6. CASE ServesResponse(c)
  <2>1. CASE pendingId \in waiting
    <3>1. [pc |-> "notify", msg |-> Msg("id", pendingId)] \in Readers
      BY <1>0, MsgTypes DEF Readers, MsgKinds
    <3>2. reader' \in [Conns -> Readers]
      BY <1>0, <1>6, <2>1, <3>1 DEF ServesResponse
    <3>3. ASSUME NEW k \in Calls, NEW n \in Nat
          PROVE  [call[k] EXCEPT !.got = n] \in Callers
      BY <1>0 DEF Callers
    <3>4. call' \in [Calls -> Callers]
      <4> DEFINE n == IF reader[c].msg.kind = "answer" THEN reader[c].msg.id ELSE 0
      <4>1. n \in Nat
        BY <1>m
      <4>2. call' = [k \in Calls |-> IF call[k].id = pendingId THEN [call[k] EXCEPT !.got = n] ELSE call[k]]
        BY <1>6, <2>1 DEF ServesResponse
      <4> HIDE DEF n
      <4> QED  BY <1>0, <3>3, <4>1, <4>2
    <3>5. Rest
      BY <1>6, <2>1, <3>4 DEF ServesResponse, pending, TypeOK
    <3> QED  BY <1>1, <1>6, <3>2, <3>5 DEF ServesResponse
  <2>2. CASE pendingId \notin waiting
    <3>1. reader' \in [Conns -> Readers]
      BY <1>6, <2>2, ReaderGoes DEF ServesResponse
    <3>2. Rest
      BY <1>6, <2>2 DEF ServesResponse, pending, TypeOK
    <3> QED  BY <1>1, <1>6, <3>1, <3>2 DEF ServesResponse
  <2> QED  BY <2>1, <2>2
<1>7. CASE Notifies(c)
  <2>1. reader' \in [Conns -> Readers]
    BY <1>7, ReaderGoes DEF Notifies
  <2>2. ASSUME NEW k \in Calls
        PROVE  [call[k] EXCEPT !.pc = "done"] \in Callers /\ [call[k] EXCEPT !.early = TRUE] \in Callers
    <3>1. TRUE \in BOOLEAN /\ call[k] \in Callers
      BY <1>0
    <3> QED  BY <3>1, Zenon DEF Callers
  <2>3. call' \in [Calls -> Callers]
    BY <1>0, <1>7, <2>2 DEF Notifies
  <2>4. Rest
    BY <1>0, <1>7, <2>3 DEF Notifies, pending, TypeOK
  <2> QED  BY <1>1, <1>7, <2>1, <2>4 DEF Notifies
<1>8. CASE Clears(c)
  <2>1. reader' \in [Conns -> Readers]
    BY <1>8, ReaderGoes DEF Clears
  <2>2. Rest
    BY <1>0, <1>8, BoundAssumption DEF Clears, callVars, TypeOK
  <2> QED  BY <1>1, <1>8, <2>1, <2>2 DEF Clears
<1>9. CASE Closes(c)
  <2>1. reader' \in [Conns -> Readers]
    BY <1>9, ReaderGoes DEF Closes
  <2>2. halt' \in [Conns -> BOOLEAN] /\ link' \in [Conns -> {"none", "up", "cut"}]
    BY <1>0, <1>9 DEF Closes
  <2>3. inbox' \in [Conns -> Seq(Msgs)] /\ asked' \in [Conns -> SUBSET Nat]
    BY <1>0, <1>9 DEF Closes
  <2> QED  BY <1>9, <2>1, <2>2, <2>3 DEF Closes, TypeOK, senderVars, pending, callVars
<1> QED
  BY <1>2, <1>3, <1>4, <1>5, <1>6, <1>7, <1>8, <1>9 DEF Reader

\* What is put into a queue.
LEMMA PutType == ASSUME TypeOK, NEW q \in Conns, NEW m \in Msgs, Put(q, m)
                 PROVE  out' \in [Conns -> Seq(Msgs)]
<1>1. out \in [Conns -> Seq(Msgs)] /\ Append(out[q], m) \in Seq(Msgs)
  BY DEF TypeOK
<1> QED  BY <1>1 DEF Put

\* What the sender does.
LEMMA SenderType == ASSUME TypeOK, NEW c \in Conns, Sender(c) PROVE TypeOK'
<1>0. /\ out \in [Conns -> Seq(Msgs)] /\ first \in [Conns -> MsgKinds] /\ halt \in [Conns -> BOOLEAN]
      /\ asked \in [Conns -> SUBSET Nat] /\ Conns = 1..MaxConns
      /\ sender \in [Conns -> {"none", "starting", "running", "ended"}]
  BY DEF TypeOK, Conns
<1>1. CASE TakesQueue(c)
  <2>1. out' \in [Conns -> Seq(Msgs)]
    BY <1>1, PutType, MsgTypes DEF TakesQueue, MsgKinds
  <2>2. sender' \in [Conns -> {"none", "starting", "running", "ended"}] /\ queue' \in 0..MaxConns /\ owner' \in 0..MaxConns
    BY <1>0, <1>1, BoundAssumption DEF TakesQueue
  <2> QED  BY <1>1, <2>1, <2>2 DEF TakesQueue, SenderOnly, TypeOK, pending, callVars
<1>2. CASE SendsItem(c)
  <2>1. Head(out[c]) \in Msgs /\ Tail(out[c]) \in Seq(Msgs)
    BY <1>0, <1>2 DEF SendsItem
  <2>2. Head(out[c]).kind \in MsgKinds /\ Head(out[c]).id \in Nat
    BY <2>1 DEF Msgs
  <2>3. out' \in [Conns -> Seq(Msgs)] /\ first' \in [Conns -> MsgKinds]
    BY <1>0, <1>2, <2>1, <2>2 DEF SendsItem
  <2>4. asked' \in [Conns -> SUBSET Nat]
    BY <1>0, <1>2, <2>2 DEF SendsItem
  <2> QED  BY <1>2, <2>3, <2>4 DEF SendsItem, SenderOnly, TypeOK, pending, callVars
<1>3. CASE EndsSender(c)
  <2>1. out' \in [Conns -> Seq(Msgs)] /\ halt' \in [Conns -> BOOLEAN]
    BY <1>0, <1>3 DEF EndsSender
  <2>2. sender' \in [Conns -> {"none", "starting", "running", "ended"}] /\ queue' \in 0..MaxConns
    BY <1>0, <1>3, BoundAssumption DEF EndsSender, TypeOK
  <2> QED  BY <1>3, <2>1, <2>2 DEF EndsSender, SenderOnly, TypeOK, pending, callVars
<1> QED
  BY <1>1, <1>2, <1>3 DEF Sender

\* What the threads of the calls do.
LEMMA CallerType == ASSUME TypeOK, NEW k \in Calls, Registers(k) \/ Caller(k) PROVE TypeOK'
<1>0. /\ call \in [Calls -> Callers] /\ carrier \in [Calls -> 0..MaxConns] /\ Conns = 1..MaxConns
      /\ call[k].id \in Nat /\ queue \in 0..MaxConns /\ nextId \in Nat \ {0} /\ waiting \subseteq 1..(nextId - 1)
  BY DEF TypeOK, Conns, Callers
<1>1. ASSUME CallOnly, call' \in [Calls -> Callers], out' \in [Conns -> Seq(Msgs)], carrier' \in [Calls -> 0..MaxConns],
             nextId' \in Nat \ {0}, waiting' \subseteq 1..(nextId' - 1)
      PROVE  TypeOK'
  BY <1>1 DEF CallOnly, TypeOK, unityVars, readerVars, pending
<1>2. CASE Registers(k)
  <2>1. [[call[k] EXCEPT !.pc = "registered"] EXCEPT !.id = nextId] \in Callers
    BY <1>0 DEF Callers
  <2>2. call' \in [Calls -> Callers]
    BY <1>0, <1>2, <2>1 DEF Registers
  <2>3. nextId' \in Nat \ {0} /\ waiting' \subseteq 1..(nextId' - 1)
    BY <1>0, <1>2 DEF Registers
  <2> QED  BY <1>1, <1>2, <2>2, <2>3 DEF Registers, TypeOK
<1>3. ASSUME NEW pc \in {"put", "waiting", "raised"}, call' = [call EXCEPT ![k].pc = pc]
      PROVE  call' \in [Calls -> Callers]
  <2>1. [call[k] EXCEPT !.pc = pc] \in Callers
    BY <1>0, <1>3 DEF Callers
  <2> QED  BY <1>0, <1>3, <2>1
<1>4. CASE PutsRequest(k)
  <2>1. call' \in [Calls -> Callers]
    BY <1>3, <1>4 DEF PutsRequest
  <2>2. out' \in [Conns -> Seq(Msgs)]
    <3>1. CASE queue = 0
      BY <1>4, <3>1 DEF PutsRequest, TypeOK
    <3>2. CASE queue # 0
      <4>1. Put(queue, Msg("request", call[k].id)) /\ queue \in Conns
        BY <1>0, <1>4, <3>2, BoundAssumption DEF PutsRequest
      <4> QED  BY <1>0, <4>1, PutType, MsgTypes DEF MsgKinds
    <3> QED  BY <3>1, <3>2
  <2>3. carrier' \in [Calls -> 0..MaxConns]
    BY <1>0, <1>4 DEF PutsRequest
  <2> QED  BY <1>0, <1>1, <1>4, <2>1, <2>2, <2>3 DEF PutsRequest
<1>5. CASE Waits(k)
  <2>1. call' \in [Calls -> Callers]
    BY <1>3, <1>5 DEF Waits
  <2> QED  BY <1>0, <1>1, <1>5, <2>1 DEF Waits, TypeOK
<1> QED  BY <1>2, <1>4, <1>5 DEF Caller

\* What the threads of Unity's requests do.
LEMMA ServiceType == ASSUME TypeOK, NEW r \in Requests, Service(r) PROVE TypeOK'
<1>0. svc \in [Requests -> Servers] /\ svc[r].tag \in Nat /\ Conns = 1..MaxConns /\ queue \in 0..MaxConns
  BY DEF TypeOK, Servers, Conns
<1>1. [svc[r] EXCEPT !.pc = "done"] \in Servers /\ [svc[r] EXCEPT !.pc = "failed"] \in Servers
  BY <1>0 DEF Servers
<1>2. svc' \in [Requests -> Servers]
  BY <1>0, <1>1 DEF Service, ServiceReturns, ServiceFails
<1>3. out' \in [Conns -> Seq(Msgs)]
  <2>1. CASE UNCHANGED out
    BY <2>1 DEF TypeOK
  <2>2. CASE queue # 0 /\ Put(queue, Msg("response", svc[r].tag))
    <3>1. queue \in Conns
      BY <1>0, <2>2, BoundAssumption
    <3> QED  BY <1>0, <2>2, <3>1, PutType, MsgTypes DEF MsgKinds
  <2> QED  BY <2>1, <2>2 DEF Service, ServiceReturns, ServiceFails
<1>4. ServiceOnly
  BY DEF Service, ServiceReturns, ServiceFails
<1> QED  BY <1>2, <1>3, <1>4 DEF ServiceOnly, TypeOK, unityVars, readerVars, pending, callVars

\* Every step keeps the types.
LEMMA NextType == TypeOK /\ [Next]_vars => TypeOK'
<1> SUFFICES ASSUME TypeOK, [Next]_vars PROVE TypeOK'
  OBVIOUS
<1>1. CASE Connects
  <2>1. conns' \in Conns
    BY <1>1, BoundAssumption DEF Connects, TypeOK, Conns
  <2>2. reader' \in [Conns -> Readers]
    <3>1. [reader[conns'] EXCEPT !.pc = "recv"] \in Readers
      BY <2>1 DEF TypeOK, Readers
    <3> QED  BY <1>1, <3>1 DEF Connects, TypeOK
  <2>3. link' \in [Conns -> {"none", "up", "cut"}] /\ sender' \in [Conns -> {"none", "starting", "running", "ended"}]
    BY <1>1, <2>1 DEF Connects, TypeOK
  <2>4. conns' \in 0..MaxConns
    BY <2>1 DEF Conns
  <2> QED  BY <1>1, <2>2, <2>3, <2>4 DEF Connects, TypeOK, pending, callVars
<1>2. CASE UNCHANGED vars
  BY <1>2 DEF vars, unityVars, readerVars, senderVars, pending, callVars, TypeOK
<1> QED
  BY <1>1, <1>2, UnityType, ReaderType, SenderType, CallerType, ServiceType DEF Next, Watched

\* Types of the endpoint's state (server.py, client.py, tcp_sender.py); no id is waited for
\* that was not given out.
THEOREM EndpointTypes == Spec => []TypeOK
BY InitType, NextType, PTL DEF Spec

-----------------------------------------------------------------------------
(* Theorem HandshakeIsFirst *)

\* Before its handshake nothing is in a sender's queue, and until it is sent it is at its head.
HandInv ==
    \A c \in Conns :
        /\ sender[c] \in {"none", "starting"} => out[c] = <<>> /\ first[c] = "none"
        /\ sender[c] = "running" /\ first[c] = "none" => out[c] # <<>> /\ Head(out[c]).kind = "handshake"
        /\ first[c] \in {"none", "handshake"}

\* At the start all queues are empty.
LEMMA InitHand == Init => HandInv
BY DEF Init, HandInv

\* What is put at the end of a queue of a running sender leaves its head alone.
LEMMA PutsBehind == ASSUME TypeOK, HandInv, NEW q \in Conns, sender[q] = "running", NEW m \in Msgs, Put(q, m),
                           UNCHANGED <<sender, first>>
                    PROVE  HandInv'
<1>1. out \in [Conns -> Seq(Msgs)]
  BY DEF TypeOK
<1>2. ASSUME NEW s \in Seq(Msgs), s # <<>>
      PROVE  Append(s, m) # <<>> /\ Head(Append(s, m)) = Head(s)
  BY <1>2
<1>3. out'[q] = Append(out[q], m) /\ \A c \in Conns : c # q => out'[c] = out[c]
  BY <1>1 DEF Put
<1> SUFFICES ASSUME NEW c \in Conns
             PROVE  /\ sender[c] \in {"none", "starting"} => out'[c] = <<>> /\ first[c] = "none"
                    /\ sender[c] = "running" /\ first[c] = "none" => out'[c] # <<>> /\ Head(out'[c]).kind = "handshake"
                    /\ first[c] \in {"none", "handshake"}
  BY DEF HandInv
<1>4. CASE c = q
  BY <1>1, <1>2, <1>3, <1>4 DEF HandInv
<1>5. CASE c # q
  BY <1>3, <1>5 DEF HandInv
<1> QED  BY <1>4, <1>5

\* Only the sender of a connection looks into its queue before that.
LEMMA NextHand == TypeOK /\ OwnerInv /\ HandInv /\ [Next]_vars => HandInv'
<1> SUFFICES ASSUME TypeOK, OwnerInv, HandInv, [Next]_vars PROVE HandInv'
  OBVIOUS
<1>0. /\ out \in [Conns -> Seq(Msgs)] /\ first \in [Conns -> MsgKinds] /\ Conns = 1..MaxConns
      /\ sender \in [Conns -> {"none", "starting", "running", "ended"}]
      /\ queue # 0 => queue \in Conns /\ sender[queue] = "running"
  <2>1. queue # 0 => queue \in Conns /\ sender[queue] = "running"
    BY DEF OwnerInv, QueueOfLastSender, Conns
  <2> QED  BY <2>1 DEF TypeOK, Conns
<1>1. CASE UNCHANGED <<sender, out, first>>
  BY <1>1 DEF HandInv
<1>2. CASE Connects
  <2>1. out' = out /\ first' = first /\ conns' \in Conns /\ sender[conns'] = "none"
    BY <1>0, <1>2, BoundAssumption DEF Connects, OwnerInv, TypeOK
  <2>2. sender' = [sender EXCEPT ![conns'] = "starting"]
    BY <1>2 DEF Connects
  <2> QED  BY <1>0, <2>1, <2>2 DEF HandInv
<1>3. ASSUME NEW c \in Conns, TakesQueue(c)
      PROVE  HandInv'
  <2>1. out[c] = <<>> /\ first[c] = "none" /\ first' = first /\ sender' = [sender EXCEPT ![c] = "running"]
    BY <1>3 DEF TakesQueue, HandInv
  <2>2. out' = [out EXCEPT ![c] = Append(out[c], Msg("handshake", 0))]
    BY <1>3 DEF TakesQueue, Put
  <2>3. Append(<<>>, Msg("handshake", 0)) = <<Msg("handshake", 0)>> /\ Msg("handshake", 0).kind = "handshake"
    BY DEF Msg
  <2>4. out' = [out EXCEPT ![c] = <<Msg("handshake", 0)>>]
    BY <2>1, <2>2, <2>3
  <2>5. Head(<<Msg("handshake", 0)>>).kind = "handshake" /\ <<Msg("handshake", 0)>> # <<>>
    BY <2>3
  <2>6. out'[c] # <<>> /\ Head(out'[c]).kind = "handshake"
    BY <1>0, <2>4, <2>5
  <2>7. \A d \in Conns : d # c => out'[d] = out[d] /\ sender'[d] = sender[d]
    BY <1>0, <2>1, <2>2
  <2>8. sender'[c] = "running"
    BY <1>0, <2>1
  <2> QED  BY <2>1, <2>6, <2>7, <2>8 DEF HandInv
<1>4. ASSUME NEW c \in Conns, SendsItem(c)
      PROVE  HandInv'
  <2>1. /\ sender[c] = "running" /\ sender' = sender
        /\ first' = IF first[c] = "none" THEN [first EXCEPT ![c] = Head(out[c]).kind] ELSE first
        /\ out' = [out EXCEPT ![c] = Tail(@)]
    BY <1>4 DEF SendsItem
  <2>2. first'[c] = "handshake"
    BY <1>0, <2>1 DEF HandInv
  <2>3. \A d \in Conns : d # c => out'[d] = out[d] /\ first'[d] = first[d]
    BY <1>0, <2>1
  <2> QED  BY <2>1, <2>2, <2>3 DEF HandInv
<1>5. ASSUME NEW c \in Conns, EndsSender(c)
      PROVE  HandInv'
  <2>1. sender'[c] = "ended" /\ first' = first
    BY <1>0, <1>5 DEF EndsSender
  <2>2. \A d \in Conns : d # c => out'[d] = out[d] /\ sender'[d] = sender[d]
    BY <1>0, <1>5 DEF EndsSender
  <2> QED  BY <2>1, <2>2 DEF HandInv
<1>6. ASSUME NEW c \in Conns, Reader(c) \/ Cut(c) \/ UnityAnswers(c)
      PROVE  HandInv'
  <2>1. UNCHANGED <<sender, out, first>>
    BY <1>6 DEF Reader, Reads, SetsId, SetsFlag, ServesRequest, ServesResponse, Notifies, Clears,
       Closes, ReaderOnly, senderVars, Cut, UnityAnswers, UnitySends
  <2> QED  BY <1>1, <2>1
<1>7. ASSUME NEW c \in Conns, NEW r \in Requests, UnityCalls(c, r)
      PROVE  HandInv'
  BY <1>1, <1>7 DEF UnityCalls, UnitySends, senderVars
<1>8. ASSUME NEW k \in Calls, Registers(k) \/ Caller(k)
      PROVE  HandInv'
  <2>1. UNCHANGED <<sender, first>>
    BY <1>8 DEF Registers, Caller, PutsRequest, Waits, CallOnly
  <2>2. CASE UNCHANGED out
    BY <1>1, <2>1, <2>2
  <2>3. CASE queue # 0 /\ Put(queue, Msg("request", call[k].id))
    <3>1. Msg("request", call[k].id) \in Msgs
      BY MsgTypes DEF TypeOK, Callers, MsgKinds
    <3> QED  BY <1>0, <2>1, <2>3, <3>1, PutsBehind
  <2> QED  BY <1>8, <2>2, <2>3 DEF Registers, Caller, PutsRequest, Waits
<1>9. ASSUME NEW r \in Requests, Service(r)
      PROVE  HandInv'
  <2>1. UNCHANGED <<sender, first>>
    BY <1>9 DEF Service, ServiceReturns, ServiceFails, ServiceOnly
  <2>2. CASE UNCHANGED out
    BY <1>1, <2>1, <2>2
  <2>3. CASE queue # 0 /\ Put(queue, Msg("response", svc[r].tag))
    <3>1. Msg("response", svc[r].tag) \in Msgs
      BY MsgTypes DEF TypeOK, Servers, MsgKinds
    <3> QED  BY <1>0, <2>1, <2>3, <3>1, PutsBehind
  <2> QED  BY <1>9, <2>2, <2>3 DEF Service, ServiceReturns, ServiceFails
<1>10. CASE UNCHANGED vars
  BY <1>1, <1>10 DEF vars, senderVars
<1> QED
  BY <1>2, <1>3, <1>4, <1>5, <1>6, <1>7, <1>8, <1>9, <1>10 DEF Next, Watched, Sender

\* The first thing a connection carries to Unity is the handshake (tcp_sender.py:154-160),
\* whatever the other threads have for the queue that becomes theirs with it.
THEOREM HandshakeIsFirst == Spec => []HandshakeFirst
<1>1. HandInv => HandshakeFirst
  BY DEF HandInv, HandshakeFirst
<1>2. Init => TypeOK /\ OwnerInv /\ HandInv
  BY InitType, InitOwner, InitHand
<1>3. TypeOK /\ OwnerInv /\ HandInv /\ [Next]_vars => TypeOK' /\ OwnerInv' /\ HandInv'
  BY NextType, NextOwner, NextHand
<1> QED  BY <1>1, <1>2, <1>3, PTL DEF Spec

-----------------------------------------------------------------------------
(* Theorem ResponsesAlwaysMatch *)

\* A service message is a head with the id and a body.
IsHead(m) == m.kind \in {"__request", "__response"}
Body(m)   == Msg(IF m.kind = "__request" THEN "call" ELSE "answer", m.id)

\* Heads and bodies alternate in s, and after m; the end of s.
Follows(m, n) == IF IsHead(m) THEN n = Body(m) ELSE IsHead(n)
Paired(s)     == \A i \in 1..(Len(s) - 1) : Follows(s[i], s[i + 1])
After(m, s)   == s # <<>> => Follows(m, s[1])
End(m, s)     == IF s = <<>> THEN m ELSE s[Len(s)]

\* No id is 0, which stands for None.
IdInv ==
    /\ \A k \in Calls : call[k].pc # "idle" => call[k].id # 0
    /\ \A c \in Conns : \A i \in 1..Len(out[c]) : out[c][i].kind = "request" => out[c][i].id # 0
    /\ \A c \in Conns : 0 \notin asked[c]
    /\ \A c \in Conns : \A i \in 1..Len(inbox[c]) : inbox[c][i].id # 0

\* Nothing is on a connection not made; another connection read meanwhile is remembered.
QuietInv ==
    /\ conns \in Nat /\ pendingBy \in 0..conns
    /\ \A c \in Conns : c > conns => reader[c].pc = "none" /\ link[c] = "none" /\ inbox[c] = <<>>
    /\ Shared => exposed

\* What a reader has read last, as far as the next message depends on it.
Pending == Msg(IF pendingIsRequest THEN "__request" ELSE "__response", pendingId)
Active(c) == reader[c].pc \notin {"none", "closing", "closed"}
LastRead(c) ==
    IF reader[c].pc \in {"command", "flag"} THEN reader[c].msg
    ELSE IF reader[c].pc = "recv" /\ pendingId # 0 THEN Pending
    ELSE Msg("answer", 0)

\* What is still to be read goes on from there, and ends with a body while the connection is up.
Stream(c) ==
    /\ Paired(inbox[c]) /\ After(LastRead(c), inbox[c])
    /\ link[c] = "up" => ~IsHead(End(LastRead(c), inbox[c]))

\* What a reader knows of the pending id where it uses it.
Turn(c) ==
    /\ reader[c].pc \in {"command", "flag"} => IsHead(reader[c].msg) /\ reader[c].msg.id # 0
    /\ reader[c].pc \in {"flag", "service", "notify", "clear"} => pendingId # 0 /\ pendingBy = c
    /\ reader[c].pc = "flag" => pendingId = reader[c].msg.id
    /\ reader[c].pc = "service" => reader[c].msg = Body(Pending)
    /\ reader[c].pc = "notify" =>
          /\ reader[c].msg.id \in 1..(nextId - 1)
          /\ \A k \in Calls : call[k].id = reader[c].msg.id => call[k].got = call[k].id

FlowInv == exposed \/ \A c \in Conns : Active(c) => Stream(c) /\ Turn(c)

\* Reading the first message of a stream leaves a stream.
LEMMA TailFlows == ASSUME NEW s \in Seq(Msgs), s # <<>>, Paired(s)
                   PROVE  /\ Paired(Tail(s)) /\ After(s[1], Tail(s))
                          /\ \A m : End(m, s) = End(s[1], Tail(s))
<1>1. Len(Tail(s)) = Len(s) - 1 /\ Len(s) \in Nat /\ Len(s) > 0
  OBVIOUS
<1>2. \A i \in 1..(Len(s) - 1) : Tail(s)[i] = s[i + 1]
  OBVIOUS
<1>3. Paired(Tail(s))
  BY <1>1, <1>2 DEF Paired
<1>4. Tail(s) = <<>> <=> Len(s) = 1
  BY <1>1
<1>5. After(s[1], Tail(s))
  BY <1>1, <1>2, <1>4 DEF After, Paired
<1>6. ASSUME NEW m PROVE End(m, s) = End(s[1], Tail(s))
  BY <1>1, <1>2, <1>4 DEF End
<1> QED  BY <1>3, <1>5, <1>6

\* So does the loss of its end.
LEMMA PrefixFlows == ASSUME NEW s \in Seq(Msgs), NEW n \in 0..Len(s), Paired(s)
                     PROVE  /\ Paired(SubSeq(s, 1, n))
                            /\ \A m : After(m, s) => After(m, SubSeq(s, 1, n))
<1>1. Len(SubSeq(s, 1, n)) = n /\ \A i \in 1..n : SubSeq(s, 1, n)[i] = s[i]
  OBVIOUS
<1>2. Len(s) \in Nat
  OBVIOUS
<1>3. Paired(SubSeq(s, 1, n))
  BY <1>1, <1>2 DEF Paired
<1>4. SubSeq(s, 1, n) # <<>> => n >= 1 /\ s # <<>>
  BY <1>1, <1>2
<1> QED  BY <1>1, <1>3, <1>4 DEF After

\* So does another service message at the end of a stream that ends with a body.
LEMMA PairFlows == ASSUME NEW s \in Seq(Msgs), NEW h \in Msgs, IsHead(h), Paired(s), NEW m, ~IsHead(End(m, s)), After(m, s)
                   PROVE  /\ Paired(s \o <<h, Body(h)>>) /\ After(m, s \o <<h, Body(h)>>)
                          /\ ~IsHead(End(m, s \o <<h, Body(h)>>))
<1> DEFINE b == Body(h)
           t == s \o <<h, b>>
<1>1. ~IsHead(b)
  BY DEF Body, IsHead, Msg
<1>b. b \in Msgs
  BY DEF Body, Msg, Msgs, MsgKinds
<1> HIDE DEF b
<1>2. /\ Len(t) = Len(s) + 2 /\ Len(s) \in Nat /\ t # <<>>
      /\ \A i \in 1..Len(s) : t[i] = s[i]
      /\ t[Len(s) + 1] = h /\ t[Len(s) + 2] = b
  BY <1>b
<1>3. s # <<>> <=> Len(s) >= 1
  BY <1>2
<1> HIDE DEF t
<1>4. Follows(h, b)
  BY DEF Follows, b
<1>5. Len(s) >= 1 => Follows(s[Len(s)], h)
  BY <1>3 DEF Follows, End
<1>6. ASSUME NEW i \in 1..(Len(t) - 1) PROVE Follows(t[i], t[i + 1])
  <2>1. CASE i < Len(s)
    BY <1>2, <2>1 DEF Paired
  <2>2. CASE i = Len(s)
    BY <1>2, <1>5, <2>2
  <2>3. CASE i = Len(s) + 1
    <3>1. i + 1 = Len(s) + 2
      BY <1>2, <2>3
    <3> QED  BY <1>2, <1>4, <2>3, <3>1
  <2> QED  BY <1>2, <2>1, <2>2, <2>3
<1>7. After(m, t)
  <2>1. CASE s = <<>>
    <3>1. t[1] = h
      BY <1>2, <2>1
    <3> QED  BY <2>1, <3>1 DEF After, Follows, End
  <2>2. CASE s # <<>>
    BY <1>2, <1>3, <2>2 DEF After
  <2> QED  BY <2>1, <2>2
<1>8. End(m, t) = b
  BY <1>2 DEF End
<1> QED  BY <1>1, <1>6, <1>7, <1>8 DEF Paired, t, b

\* At the start nothing is on its way.
LEMMA InitIds == Init => IdInv
BY DEF Init, IdInv

\* No id 0 is put into a queue as that of a request.
LEMMA PutIds == ASSUME TypeOK, IdInv, NEW q \in Conns, NEW m \in Msgs, m.kind = "request" => m.id # 0, Put(q, m)
                PROVE  \A c \in Conns : \A i \in 1..Len(out'[c]) : out'[c][i].kind = "request" => out'[c][i].id # 0
<1>1. out \in [Conns -> Seq(Msgs)]
  BY DEF TypeOK
<1>2. out' = [out EXCEPT ![q] = Append(out[q], m)]
  BY DEF Put
<1>3. ASSUME NEW i \in 1..Len(Append(out[q], m))
      PROVE  Append(out[q], m)[i] = m \/ (i \in 1..Len(out[q]) /\ Append(out[q], m)[i] = out[q][i])
  BY <1>1, <1>3
<1>4. \A i \in 1..Len(out'[q]) : out'[q][i].kind = "request" => out'[q][i].id # 0
  BY <1>1, <1>2, <1>3 DEF IdInv
<1> QED  BY <1>1, <1>2, <1>4 DEF IdInv

\* Ids are given out from 1 on, and Unity only gives back what it was given.
LEMMA NextIds == TypeOK /\ OwnerInv /\ IdInv /\ [Next]_vars => IdInv'
<1> SUFFICES ASSUME TypeOK, OwnerInv, IdInv, [Next]_vars PROVE IdInv'
  OBVIOUS
<1> DEFINE CallIds(cl) == \A k \in Calls : cl[k].pc # "idle" => cl[k].id # 0
           OutIds(o)   == \A c \in Conns : \A i \in 1..Len(o[c]) : o[c][i].kind = "request" => o[c][i].id # 0
           AskedIds(a) == \A c \in Conns : 0 \notin a[c]
           InIds(b)    == \A c \in Conns : \A i \in 1..Len(b[c]) : b[c][i].id # 0
<1>d. IdInv <=> CallIds(call) /\ OutIds(out) /\ AskedIds(asked) /\ InIds(inbox)
  BY DEF IdInv
<1>e. CallIds(call') /\ OutIds(out') /\ AskedIds(asked') /\ InIds(inbox') => IdInv'
  BY DEF IdInv
<1>f. CallIds(call) /\ OutIds(out) /\ AskedIds(asked) /\ InIds(inbox)
  BY <1>d
<1>0. /\ out \in [Conns -> Seq(Msgs)] /\ inbox \in [Conns -> Seq(Msgs)] /\ asked \in [Conns -> SUBSET Nat]
      /\ call \in [Calls -> Callers] /\ nextId # 0 /\ (queue # 0 => queue \in Conns)
  BY DEF TypeOK, OwnerInv, QueueOfLastSender, Conns
<1>1. CASE Connects
  BY <1>1, <1>e, <1>f DEF Connects, callVars
<1>2. ASSUME NEW c \in Conns, NEW ms \in Seq(Msgs), UnitySends(c, ms), \A i \in 1..Len(ms) : ms[i].id # 0
      PROVE  CallIds(call') /\ OutIds(out') /\ InIds(inbox')
  <2>1. call' = call /\ out' = out /\ inbox' = [inbox EXCEPT ![c] = @ \o ms]
    BY <1>2 DEF UnitySends, callVars, senderVars
  <2>2. ASSUME NEW i \in 1..Len(inbox[c] \o ms)
        PROVE  \/ i \in 1..Len(inbox[c]) /\ (inbox[c] \o ms)[i] = inbox[c][i]
               \/ i - Len(inbox[c]) \in 1..Len(ms) /\ (inbox[c] \o ms)[i] = ms[i - Len(inbox[c])]
    BY <1>0, <1>2, <2>2
  <2>3. \A i \in 1..Len(inbox[c] \o ms) : (inbox[c] \o ms)[i].id # 0
    BY <1>2, <1>f, <2>2
  <2> QED  BY <1>0, <1>f, <2>1, <2>3
<1> HIDE DEF CallIds, OutIds, AskedIds
<1>3. ASSUME NEW c \in Conns, UnityAnswers(c)
      PROVE  IdInv'
  <2>1. PICK i \in asked[c] : /\ UnitySends(c, <<Msg("__response", i), Msg("answer", i)>>)
                              /\ asked' = [asked EXCEPT ![c] = @ \ {i}]
    BY <1>3 DEF UnityAnswers
  <2>2. i \in Nat /\ i # 0
    BY <1>0, <1>f DEF AskedIds
  <2> DEFINE ms == <<Msg("__response", i), Msg("answer", i)>>
  <2>3. ms \in Seq(Msgs) /\ \A j \in 1..Len(ms) : ms[j].id # 0
    <3>1. Msg("__response", i) \in Msgs /\ Msg("answer", i) \in Msgs
      BY <2>2, MsgTypes DEF MsgKinds
    <3>2. Msg("__response", i).id # 0 /\ Msg("answer", i).id # 0
      BY <2>2 DEF Msg
    <3> QED  BY <3>1, <3>2
  <2>4. AskedIds(asked')
    BY <1>0, <1>f, <2>1 DEF AskedIds
  <2>5. UnitySends(c, ms)
    BY <2>1
  <2> HIDE DEF ms
  <2> QED  BY <1>2, <1>e, <2>3, <2>4, <2>5
<1>4. ASSUME NEW c \in Conns, NEW r \in Requests, UnityCalls(c, r)
      PROVE  IdInv'
  <2> DEFINE ms == <<Msg("__request", r), Msg("call", r)>>
  <2>1. r \in Nat /\ r # 0
    BY BoundAssumption DEF Requests
  <2>2. ms \in Seq(Msgs) /\ \A j \in 1..Len(ms) : ms[j].id # 0
    <3>1. Msg("__request", r) \in Msgs /\ Msg("call", r) \in Msgs
      BY <2>1, MsgTypes DEF MsgKinds
    <3>2. Msg("__request", r).id # 0 /\ Msg("call", r).id # 0
      BY <2>1 DEF Msg
    <3> QED  BY <3>1, <3>2
  <2>3. UnitySends(c, ms) /\ asked' = asked
    BY <1>4 DEF UnityCalls
  <2> HIDE DEF ms
  <2> QED  BY <1>2, <1>e, <1>f, <2>2, <2>3
<1>5. ASSUME NEW c \in Conns, Cut(c)
      PROVE  IdInv'
  <2>1. PICK n \in 0..Len(inbox[c]) : inbox' = [inbox EXCEPT ![c] = SubSeq(@, 1, n)]
    BY <1>5 DEF Cut
  <2>2. Len(SubSeq(inbox[c], 1, n)) = n /\ \A i \in 1..n : i \in 1..Len(inbox[c]) /\ SubSeq(inbox[c], 1, n)[i] = inbox[c][i]
    BY <1>0
  <2>3. InIds(inbox')
    BY <1>0, <1>f, <2>1, <2>2
  <2>4. AskedIds(asked')
    BY <1>0, <1>5, <1>f DEF Cut, AskedIds
  <2>5. call' = call /\ out' = out
    BY <1>5 DEF Cut, callVars, senderVars
  <2> QED  BY <1>e, <1>f, <2>3, <2>4, <2>5
<1>6. ASSUME NEW c \in Conns, Reader(c)
      PROVE  IdInv'
  <2>1. out' = out
    BY <1>6 DEF Reader, Reads, SetsId, SetsFlag, ServesRequest, ServesResponse, Notifies, Clears,
       Closes, ReaderOnly, senderVars
  <2>2. InIds(inbox') /\ AskedIds(asked')
    <3>1. CASE UNCHANGED <<inbox, asked>>
      BY <1>f, <3>1
    <3>2. CASE Reads(c)
      <4>1. /\ inbox' = [inbox EXCEPT ![c] = Tail(@)] /\ asked' = asked
            /\ \A i \in 1..Len(Tail(inbox[c])) : i + 1 \in 1..Len(inbox[c]) /\ Tail(inbox[c])[i] = inbox[c][i + 1]
        BY <1>0, <3>2 DEF Reads
      <4> QED  BY <1>0, <1>f, <4>1
    <3>3. CASE Closes(c)
      <4>1. inbox' = [inbox EXCEPT ![c] = <<>>] /\ asked' = [asked EXCEPT ![c] = {}]
        BY <3>3 DEF Closes
      <4>2. InIds(inbox')
        BY <1>0, <1>f, <4>1
      <4>3. AskedIds(asked')
        BY <1>0, <1>f, <4>1 DEF AskedIds
      <4> QED  BY <4>2, <4>3
    <3> QED  BY <1>6, <3>1, <3>2, <3>3 DEF Reader, SetsId, SetsFlag, ServesRequest, ServesResponse, Notifies, Clears,
             ReaderOnly, unityVars
  <2>3. ASSUME NEW k \in Calls PROVE call'[k].id = call[k].id /\ (call[k].pc = "idle" => call'[k].pc = "idle")
    <3>1. CASE call' = call
      BY <3>1
    <3>2. CASE ServesResponse(c)
      <4>1. \A n : [call[k] EXCEPT !.got = n].id = call[k].id /\ [call[k] EXCEPT !.got = n].pc = call[k].pc
        BY <1>0 DEF Callers
      <4> DEFINE n == IF reader[c].msg.kind = "answer" THEN reader[c].msg.id ELSE 0
      <4>2. call' = call \/ call' = [j \in Calls |-> IF call[j].id = pendingId THEN [call[j] EXCEPT !.got = n] ELSE call[j]]
        BY <3>2 DEF ServesResponse
      <4> HIDE DEF n
      <4> QED  BY ZenonT(60), <4>1, <4>2
    <3>3. CASE Notifies(c)
      <4>1. [call[k] EXCEPT !.early = TRUE].id = call[k].id /\ [call[k] EXCEPT !.early = TRUE].pc = call[k].pc
        BY <1>0 DEF Callers
      <4>2. [call[k] EXCEPT !.pc = "done"].id = call[k].id
        BY <1>0 DEF Callers
      <4> QED  BY <1>0, <3>3, <4>1, <4>2 DEF Notifies
    <3> QED  BY <1>6, <3>1, <3>2, <3>3 DEF Reader, Reads, SetsId, SetsFlag, ServesRequest, Clears, Closes, callVars
  <2>4. CallIds(call')
    BY <1>f, <2>3 DEF CallIds
  <2> QED  BY <1>e, <1>f, <2>1, <2>2, <2>4
<1>7. ASSUME NEW c \in Conns, Sender(c)
      PROVE  IdInv'
  <2>1. call' = call /\ inbox' = inbox
    BY <1>7 DEF Sender, TakesQueue, SendsItem, EndsSender, SenderOnly, callVars
  <2>2. CASE TakesQueue(c)
    <3>1. Msg("handshake", 0) \in Msgs /\ Msg("handshake", 0).kind # "request"
      BY MsgTypes DEF MsgKinds, Msg
    <3>2. OutIds(out')
      BY <2>2, <3>1, PutIds DEF TakesQueue, OutIds
    <3> QED  BY <1>e, <1>f, <2>1, <2>2, <3>2 DEF TakesQueue
  <2>3. CASE SendsItem(c)
    <3>1. /\ out' = [out EXCEPT ![c] = Tail(@)] /\ out[c] # <<>> /\ Head(out[c]) = out[c][1] /\ 1 \in 1..Len(out[c])
          /\ asked' = IF Head(out[c]).kind = "request" THEN [asked EXCEPT ![c] = @ \cup {Head(out[c]).id}] ELSE asked
          /\ \A i \in 1..Len(Tail(out[c])) : i + 1 \in 1..Len(out[c]) /\ Tail(out[c])[i] = out[c][i + 1]
      BY <1>0, <2>3 DEF SendsItem
    <3>2. OutIds(out')
      BY <1>0, <1>f, <3>1 DEF OutIds
    <3>3. Head(out[c]).kind = "request" => Head(out[c]).id # 0
      BY <1>f, <3>1 DEF OutIds
    <3>4. AskedIds(asked')
      BY <1>0, <1>f, <3>1, <3>3 DEF AskedIds
    <3> QED  BY <1>e, <1>f, <2>1, <3>2, <3>4
  <2>4. CASE EndsSender(c)
    <3>1. OutIds(out')
      BY <1>0, <1>f, <2>4 DEF EndsSender, OutIds
    <3> QED  BY <1>e, <1>f, <2>1, <2>4, <3>1 DEF EndsSender
  <2> QED  BY <1>7, <2>2, <2>3, <2>4 DEF Sender
<1>8. ASSUME NEW k \in Calls, Registers(k) \/ Caller(k)
      PROVE  IdInv'
  <2>1. inbox' = inbox /\ asked' = asked
    BY <1>8 DEF Registers, Caller, PutsRequest, Waits, CallOnly, unityVars
  <2>2. CallIds(call')
    <3>1. CASE Registers(k)
      <4>1. call'[k].id = nextId /\ \A j \in Calls : j # k => call'[j] = call[j]
        BY <1>0, <3>1 DEF Registers, Callers
      <4> QED  BY <1>0, <1>f, <4>1 DEF CallIds
    <3>2. CASE Caller(k)
      <4>1. call[k].pc # "idle" /\ call'[k].id = call[k].id /\ \A j \in Calls : j # k => call'[j] = call[j]
        BY <1>0, <3>2 DEF Caller, PutsRequest, Waits, Callers
      <4> QED  BY <1>f, <4>1 DEF CallIds
    <3> QED  BY <1>8, <3>1, <3>2
  <2>3. OutIds(out')
    <3>1. CASE out' = out
      BY <1>f, <3>1
    <3>2. CASE call[k].pc = "registered" /\ queue # 0 /\ Put(queue, Msg("request", call[k].id))
      <4>1. call[k].id # 0 /\ call[k].id \in Nat
        BY <1>0, <1>f, <3>2 DEF CallIds, Callers
      <4>2. Msg("request", call[k].id) \in Msgs /\ Msg("request", call[k].id).id # 0
        BY <4>1, MsgTypes DEF MsgKinds, Msg
      <4> QED  BY <1>0, <3>2, <4>2, PutIds DEF OutIds
    <3> QED  BY <1>8, <3>1, <3>2 DEF Registers, Caller, PutsRequest, Waits
  <2> QED  BY <1>e, <1>f, <2>1, <2>2, <2>3
<1>9. ASSUME NEW r \in Requests, Service(r)
      PROVE  IdInv'
  <2>1. inbox' = inbox /\ asked' = asked /\ call' = call
    BY <1>9 DEF Service, ServiceReturns, ServiceFails, ServiceOnly, unityVars, callVars
  <2>2. OutIds(out')
    <3>1. CASE out' = out
      BY <1>f, <3>1
    <3>2. CASE queue # 0 /\ Put(queue, Msg("response", svc[r].tag))
      <4>1. Msg("response", svc[r].tag) \in Msgs /\ Msg("response", svc[r].tag).kind # "request"
        BY MsgTypes DEF MsgKinds, Msg, TypeOK, Servers
      <4> QED  BY <1>0, <3>2, <4>1, PutIds DEF OutIds
    <3> QED  BY <1>9, <3>1, <3>2 DEF Service, ServiceReturns, ServiceFails
  <2> QED  BY <1>e, <1>f, <2>1, <2>2
<1>10. CASE UNCHANGED vars
  BY <1>10, <1>e, <1>f DEF vars, unityVars, senderVars, callVars
<1> QED
  BY <1>1, <1>3, <1>4, <1>5, <1>6, <1>7, <1>8, <1>9, <1>10 DEF Next, Watched

\* At the start nobody is connected.
LEMMA InitQuiet == Init => QuietInv
BY DEF Init, QuietInv, Shared

\* Threads and messages belong to a connection that was made.
LEMMA NextQuiet == TypeOK /\ QuietInv /\ [Next]_vars => QuietInv'
<1> SUFFICES ASSUME TypeOK, QuietInv, [Next]_vars PROVE QuietInv'
  OBVIOUS
<1> DEFINE Unmade == \A c \in Conns : c > conns => reader[c].pc = "none" /\ link[c] = "none" /\ inbox[c] = <<>>
           Quiet == conns \in Nat /\ pendingBy \in 0..conns /\ Unmade
<1>q. QuietInv <=> Quiet /\ (Shared => exposed)
  BY DEF QuietInv
<1>s. (Shared' => exposed') /\ Quiet' => QuietInv'
  BY DEF QuietInv
<1>t. Quiet /\ (Shared => exposed)
  BY <1>q
<1>0. /\ reader \in [Conns -> Readers] /\ link \in [Conns -> {"none", "up", "cut"}] /\ inbox \in [Conns -> Seq(Msgs)]
      /\ conns \in 0..MaxConns /\ Conns = 1..MaxConns /\ MaxConns \in Nat
  BY BoundAssumption DEF TypeOK, Conns
<1>1. ASSUME Connects
      PROVE  Quiet'
  <2>1. conns' = conns + 1 /\ pendingBy' = pendingBy /\ inbox' = inbox
    BY <1>1 DEF Connects, pending
  <2>2. \A c \in Conns : c # conns' => reader'[c] = reader[c] /\ link'[c] = link[c]
    BY <1>0, <1>1 DEF Connects
  <2>3. Unmade'
    BY <1>0, <1>t, <2>1, <2>2
  <2>4. conns \in Nat /\ pendingBy \in 0..conns
    BY <1>t
  <2>5. conns' \in Nat /\ pendingBy' \in 0..conns'
    BY <2>1, <2>4
  <2> QED  BY <2>3, <2>5
<1>2. ASSUME NEW c \in Conns, conns' = conns, pendingBy' \in {0, pendingBy, c}, c <= conns,
             \A d \in Conns : d # c => reader'[d] = reader[d] /\ link'[d] = link[d] /\ inbox'[d] = inbox[d]
      PROVE  Quiet'
  <2>1. Unmade'
    BY <1>2, <1>t, <1>0
  <2>2. conns' \in Nat /\ pendingBy' \in 0..conns'
    BY <1>2, <1>t, <1>0
  <2> QED  BY <2>1, <2>2
<1>3. ASSUME NEW c \in Conns, Cut(c) \/ UnityAnswers(c) \/ (\E r \in Requests : UnityCalls(c, r))
      PROVE  Quiet'
  <2>1. link[c] = "up" /\ conns' = conns /\ pendingBy' = pendingBy /\ reader' = reader
    BY <1>3 DEF Cut, UnityAnswers, UnityCalls, UnitySends, pending, readerVars
  <2>2. \A d \in Conns : d # c => link'[d] = link[d] /\ inbox'[d] = inbox[d]
    BY <1>0, <1>3 DEF Cut, UnityAnswers, UnityCalls, UnitySends
  <2> QED  BY <1>0, <1>2, <1>t, <2>1, <2>2
<1>4. ASSUME NEW c \in Conns, Reader(c)
      PROVE  Quiet'
  <2>1. reader[c].pc # "none" /\ conns' = conns /\ pendingBy' \in {0, pendingBy, c}
    BY <1>4 DEF Reader, Reads, SetsId, SetsFlag, ServesRequest, ServesResponse, Notifies, Clears,
       Closes, ReaderOnly, unityVars, pending
  <2>2. \A d \in Conns : d # c => reader'[d] = reader[d]
    BY <1>0, <1>4 DEF Reader, Reads, SetsId, SetsFlag, ServesRequest, ServesResponse, Notifies, Clears, Closes, At, Loop, Stops
  <2>3. \A d \in Conns : d # c => link'[d] = link[d] /\ inbox'[d] = inbox[d]
    BY <1>0, <1>4 DEF Reader, Reads, SetsId, SetsFlag, ServesRequest, ServesResponse, Notifies, Clears, Closes, ReaderOnly, unityVars
  <2> QED  BY <1>0, <1>2, <1>t, <2>1, <2>2, <2>3
<1>5. ASSUME UNCHANGED <<conns, pendingBy, reader, link, inbox>>
      PROVE  Quiet'
  <2>1. Unmade'
    BY <1>5, <1>t
  <2>2. conns' \in Nat /\ pendingBy' \in 0..conns'
    BY <1>5, <1>t
  <2> QED  BY <2>1, <2>2
<1> HIDE DEF Quiet
<1>6. CASE UNCHANGED vars
  <2>1. UNCHANGED <<conns, pendingBy, pendingId, reader, link, inbox, exposed>>
    BY <1>6 DEF vars, unityVars, readerVars, pending
  <2>2. Shared' <=> Shared
    BY <2>1 DEF Shared
  <2> QED  BY <1>5, <1>s, <1>t, <2>1, <2>2
<1>7. CASE Next
  <2>1. Shared' => exposed'
    BY <1>7 DEF Next, Watched
  <2>2. ASSUME NEW c \in Conns, Sender(c) PROVE Quiet'
    <3>1. link' = link
      BY <2>2 DEF Sender, TakesQueue, SendsItem, EndsSender
    <3>2. SenderOnly
      BY <2>2 DEF Sender, TakesQueue, SendsItem, EndsSender
    <3> QED  BY <1>5, <3>1, <3>2 DEF SenderOnly, pending
  <2>3. ASSUME NEW k \in Calls, Registers(k) \/ Caller(k) PROVE Quiet'
    <3>1. CallOnly
      BY <2>3 DEF Registers, Caller, PutsRequest, Waits
    <3> QED  BY <1>5, <3>1 DEF CallOnly, unityVars, readerVars, pending
  <2>4. ASSUME NEW r \in Requests, Service(r) PROVE Quiet'
    <3>1. ServiceOnly
      BY <2>4 DEF Service, ServiceReturns, ServiceFails
    <3> QED  BY <1>5, <3>1 DEF ServiceOnly, unityVars, readerVars, pending
  <2>5. \/ Connects
        \/ \E c \in Conns : Cut(c) \/ UnityAnswers(c) \/ (\E r \in Requests : UnityCalls(c, r))
        \/ \E c \in Conns : Reader(c)
        \/ \E c \in Conns : Sender(c)
        \/ \E k \in Calls : Registers(k) \/ Caller(k)
        \/ \E r \in Requests : Service(r)
    BY <1>7, Zenon DEF Next, Watched
  <2>6. Quiet'
    BY <1>1, <1>3, <1>4, <2>2, <2>3, <2>4, <2>5
  <2> QED  BY <1>s, <2>1, <2>6
<1> QED  BY <1>6, <1>7

\* At the start nothing is read.
LEMMA InitFlow == Init => FlowInv
BY DEF Init, FlowInv, Active

\* While a reader is at a service message no other connection is read, unless one is exposed.
LEMMA Alone == ASSUME NEW c \in Conns, Turn(c), reader[c].pc \in {"flag", "service", "notify", "clear"}, ~Shared,
                      NEW d \in Conns, d # c
               PROVE  ~Active(d)
BY DEF Turn, Shared, Active

\* Setting the id for one connection shuts out the others just so.
LEMMA AloneNext == ASSUME NEW c \in Conns, pendingId' # 0, pendingBy' = c, ~Shared', NEW d \in Conns, d # c
                   PROVE  ~Active(d)'
BY DEF Shared, Active

\* A connection whose stream and reader a step leaves alone, with the pending id, keeps them.
LEMMA Untouched == ASSUME NEW d \in Conns, Stream(d), Turn(d), nextId \in Nat, nextId' \in Nat, nextId <= nextId',
                          UNCHANGED <<reader[d], inbox[d], link[d], pendingId, pendingIsRequest, pendingBy>>,
                          \A k \in Calls : call'[k].id < nextId => call'[k].id = call[k].id /\ call'[k].got = call[k].got
                   PROVE  Stream(d)' /\ Turn(d)'
<1>1. LastRead(d)' = LastRead(d) /\ Pending' = Pending
  BY DEF LastRead, Pending
<1>2. Stream(d)'
  BY <1>1 DEF Stream, Paired, After, End
<1>3. reader[d].pc = "notify" =>
          /\ reader[d].msg.id \in 1..(nextId' - 1)
          /\ \A k \in Calls : call'[k].id = reader[d].msg.id => call'[k].got = call'[k].id
  BY DEF Turn
<1>4. Turn(d)'
  BY <1>1, <1>3 DEF Turn
<1> QED  BY <1>2, <1>4

\* What the reader does to its own stream, no other being exposed to it.
LEMMA ReaderFlow == ASSUME TypeOK, IdInv, NEW c \in Conns, Reader(c), Stream(c), Turn(c), ~Shared, Active(c)'
                    PROVE  Stream(c)' /\ Turn(c)'
<1>0. /\ inbox \in [Conns -> Seq(Msgs)] /\ reader \in [Conns -> Readers] /\ pendingId \in Nat /\ pendingIsRequest \in BOOLEAN
      /\ call \in [Calls -> Callers] /\ waiting \subseteq 1..(nextId - 1) /\ nextId \in Nat
      /\ reader[c] \in Readers /\ reader[c].msg \in Msgs /\ inbox[c] \in Seq(Msgs)
  BY DEF TypeOK, Readers
<1>a. ~IsHead(Msg("answer", 0)) /\ IsHead(Pending) /\ \A m : ~IsHead(Body(m))
  BY DEF IsHead, Msg, Pending, Body
<1>b. Active(c) \/ reader[c].pc = "closing"
  BY DEF Active, Reader, Reads, SetsId, SetsFlag, ServesRequest, ServesResponse, Notifies, Clears, Closes
\* The stream stays, and what was read last counts as before.
<1>1. ASSUME UNCHANGED <<inbox, link>>, LastRead(c)' = LastRead(c)
      PROVE  Stream(c)'
  BY <1>1 DEF Stream, Paired, After, End
<1>2. CASE Reads(c)
  <2> DEFINE m == Head(inbox[c])
  <2>1. /\ reader[c].pc = "recv" /\ inbox[c] # <<>> /\ m = inbox[c][1] /\ inbox'[c] = Tail(inbox[c])
        /\ link' = link /\ UNCHANGED <<pendingId, pendingIsRequest, pendingBy, call, nextId>>
    BY <1>0, <1>2 DEF Reads, GotMessage, pending, callVars
  <2>2. Paired(Tail(inbox[c])) /\ After(m, Tail(inbox[c])) /\ \A n : End(n, inbox[c]) = End(m, Tail(inbox[c]))
    BY <1>0, <2>1, TailFlows DEF Stream
  <2>3. Follows(LastRead(c), m)
    BY <2>1 DEF Stream, After
  <2>4. m.id # 0
    <3>1. 1 \in 1..Len(inbox[c])
      BY <1>0, <2>1
    <3> QED  BY <2>1, <3>1 DEF IdInv
  <2>5. link[c] = "up" => ~IsHead(End(m, Tail(inbox[c])))
    BY <2>2 DEF Stream
  <2> HIDE DEF m
  <2>6. CASE pendingId # 0
    <3>1. LastRead(c) = Pending
      BY <2>1, <2>6 DEF LastRead
    <3>2. m = Body(Pending)
      BY <1>a, <2>3, <3>1 DEF Follows
    <3>3. reader'[c].pc = "service" /\ reader'[c].msg = m
      BY <1>0, <1>2, <2>6 DEF Reads, m
    <3>4. LastRead(c)' = Msg("answer", 0) /\ Pending' = Pending
      BY <2>1, <3>3 DEF LastRead, Pending
    <3>5. ~IsHead(m)
      BY <1>a, <3>2
    <3>6. After(Msg("answer", 0), Tail(inbox[c]))
      BY <1>a, <2>2, <3>5 DEF After, Follows
    <3>7. ~IsHead(End(m, Tail(inbox[c]))) => ~IsHead(End(Msg("answer", 0), Tail(inbox[c])))
      BY <1>a DEF End
    <3>8. Stream(c)'
      BY <2>1, <2>2, <2>5, <3>4, <3>6, <3>7 DEF Stream
    <3>9. pendingBy = c
      BY <2>1, <2>6 DEF Shared
    <3>10. Turn(c)'
      BY <2>1, <2>6, <3>2, <3>3, <3>4, <3>9 DEF Turn
    <3> QED  BY <3>8, <3>10
  <2>7. CASE pendingId = 0
    <3>1. LastRead(c) = Msg("answer", 0)
      BY <2>1, <2>7 DEF LastRead
    <3>2. IsHead(m)
      BY <1>a, <2>3, <3>1 DEF Follows
    <3>3. reader'[c].pc = "command" /\ reader'[c].msg = m
      BY <1>0, <1>2, <2>7, <3>2 DEF Reads, m, IsHead
    <3>4. LastRead(c)' = m
      BY <3>3 DEF LastRead
    <3>5. Stream(c)'
      BY <2>1, <2>2, <2>5, <3>4 DEF Stream
    <3>6. Turn(c)'
      BY <2>4, <3>2, <3>3 DEF Turn
    <3> QED  BY <3>5, <3>6
  <2> QED  BY <2>6, <2>7
\* The rest, but for the end, leaves the stream alone.
<1>3. CASE SetsId(c)
  <2>1. /\ reader[c].pc = "command" /\ pendingId' = reader[c].msg.id /\ pendingBy' = c /\ UNCHANGED <<inbox, link>>
        /\ reader'[c].pc = "flag" /\ reader'[c].msg = reader[c].msg
    BY <1>0, <1>3 DEF SetsId, At, ReaderOnly, unityVars, Readers
  <2>2. LastRead(c)' = LastRead(c)
    BY <2>1 DEF LastRead
  <2>3. Turn(c)'
    BY <2>1 DEF Turn
  <2> QED  BY <1>1, <2>1, <2>2, <2>3
<1>4. CASE SetsFlag(c)
  <2>1. /\ reader[c].pc = "flag" /\ pendingIsRequest' = (reader[c].msg.kind = "__request") /\ UNCHANGED <<inbox, link, pendingId>>
        /\ reader'[c].pc \in {"recv", "closing"} /\ reader'[c].msg = NoMsg
    BY <1>0, <1>4 DEF SetsFlag, Loop, ReaderOnly, unityVars
  <2>2. reader'[c].pc = "recv"
    BY <2>1 DEF Active
  <2>3. IsHead(reader[c].msg) /\ pendingId = reader[c].msg.id /\ pendingId # 0
    BY <2>1 DEF Turn
  <2>4. Pending' = Msg(reader[c].msg.kind, reader[c].msg.id)
    BY <2>1, <2>3 DEF Pending, IsHead
  <2>5. Msg(reader[c].msg.kind, reader[c].msg.id) = reader[c].msg
    BY <1>0 DEF Msg, Msgs
  <2>6. LastRead(c)' = LastRead(c)
    BY <2>1, <2>2, <2>3, <2>4, <2>5 DEF LastRead
  <2>7. Turn(c)'
    BY <2>2 DEF Turn
  <2> QED  BY <1>1, <2>1, <2>6, <2>7
<1>5. CASE ServesRequest(c)
  <2>1. /\ reader[c].pc = "service" /\ UNCHANGED <<inbox, link, pendingId, pendingBy>>
        /\ reader'[c].pc = "clear"
    BY <1>0, <1>5 DEF ServesRequest, Stops, ReaderOnly, unityVars, pending
  <2>2. LastRead(c)' = LastRead(c)
    BY <2>1 DEF LastRead
  <2>3. Turn(c)'
    BY <2>1 DEF Turn
  <2> QED  BY <1>1, <2>1, <2>2, <2>3
<1>6. CASE ServesResponse(c)
  <2>1. /\ reader[c].pc = "service" /\ ~pendingIsRequest /\ UNCHANGED <<inbox, link, pendingId, pendingBy, nextId>>
    BY <1>6 DEF ServesResponse, ReaderOnly, unityVars, pending
  <2>2. pendingId \in waiting
    <3>1. pendingId \notin waiting => reader'[c].pc = "closing"
      BY <1>0, <1>6 DEF ServesResponse, Stops
    <3> QED  BY <3>1 DEF Active
  <2>3. reader'[c].pc = "notify" /\ reader'[c].msg.id = pendingId
    BY <1>0, <1>6, <2>2 DEF ServesResponse, Msg
  <2>4. reader[c].msg.kind = "answer" /\ reader[c].msg.id = pendingId
    BY <2>1 DEF Turn, Body, Pending, Msg
  <2>5. ASSUME NEW k \in Calls, call'[k].id = pendingId
        PROVE  call'[k].got = call'[k].id
    <3>1. call'[k] = IF call[k].id = pendingId THEN [call[k] EXCEPT !.got = pendingId] ELSE call[k]
      BY <1>6, <2>2, <2>4, <2>5 DEF ServesResponse
    <3>2. [call[k] EXCEPT !.got = pendingId].got = pendingId
      BY <1>0 DEF Callers
    <3> QED  BY <2>5, <3>1, <3>2
  <2>6. LastRead(c)' = LastRead(c)
    BY <2>1, <2>3 DEF LastRead
  <2>7. pendingId \in 1..(nextId - 1)
    BY <1>0, <2>2
  <2>8. Turn(c)'
    BY <2>1, <2>3, <2>5, <2>7 DEF Turn
  <2> QED  BY <1>1, <2>1, <2>6, <2>8
<1>7. CASE Notifies(c)
  <2>1. /\ reader[c].pc = "notify" /\ UNCHANGED <<inbox, link, pendingId, pendingBy>>
        /\ reader'[c].pc = "clear"
    BY <1>0, <1>7 DEF Notifies, Stops, ReaderOnly, unityVars, pending
  <2>2. LastRead(c)' = LastRead(c)
    BY <2>1 DEF LastRead
  <2>3. Turn(c)'
    BY <2>1 DEF Turn
  <2> QED  BY <1>1, <2>1, <2>2, <2>3
<1>8. CASE Clears(c)
  <2>1. /\ reader[c].pc = "clear" /\ UNCHANGED <<inbox, link>> /\ pendingId' = 0
        /\ reader'[c].pc \in {"recv", "closing"}
    BY <1>0, <1>8 DEF Clears, Loop, ReaderOnly, unityVars
  <2>2. reader'[c].pc = "recv"
    BY <2>1 DEF Active
  <2>3. LastRead(c)' = LastRead(c)
    BY <2>1, <2>2 DEF LastRead
  <2>4. Turn(c)'
    BY <2>2 DEF Turn
  <2> QED  BY <1>1, <2>1, <2>3, <2>4
<1>9. CASE Closes(c)
  <2>1. reader'[c].pc = "closed"
    BY <1>0, <1>9 DEF Closes, Stops
  <2> QED  BY <2>1 DEF Active
<1> QED
  BY <1>2, <1>3, <1>4, <1>5, <1>6, <1>7, <1>8, <1>9 DEF Reader

\* Every step keeps the streams of the readers, until a connection is exposed.
LEMMA NextFlow == TypeOK /\ IdInv /\ QuietInv /\ FlowInv /\ [Next]_vars => FlowInv'
<1> SUFFICES ASSUME TypeOK, IdInv, QuietInv, FlowInv, [Next]_vars, ~exposed' PROVE FlowInv'
  BY DEF FlowInv
<1>u. CASE UNCHANGED vars
  BY <1>u DEF vars, unityVars, readerVars, pending, callVars, FlowInv, Active, Stream, Turn, Paired, After, End, LastRead, Pending
<1>n. CASE Next
  <2>1. ~exposed /\ ~Shared'
    BY <1>n DEF Next, Watched
  <2>2. ~Shared /\ \A c \in Conns : Active(c) => Stream(c) /\ Turn(c)
    BY <2>1 DEF FlowInv, QuietInv
  <2>0. /\ reader \in [Conns -> Readers] /\ link \in [Conns -> {"none", "up", "cut"}] /\ inbox \in [Conns -> Seq(Msgs)]
        /\ nextId \in Nat /\ call \in [Calls -> Callers] /\ asked \in [Conns -> SUBSET Nat]
        /\ conns \in 0..MaxConns /\ Conns = 1..MaxConns /\ MaxConns \in Nat /\ waiting \subseteq 1..(nextId - 1)
    BY BoundAssumption DEF TypeOK, Conns
  <2> SUFFICES ASSUME NEW d \in Conns, Active(d)'
               PROVE  Stream(d)' /\ Turn(d)'
    BY DEF FlowInv
  \* A step of others.
  <2>3. ASSUME UNCHANGED <<reader[d], inbox[d], link[d], pending>>, nextId' \in Nat, nextId <= nextId',
               \A k \in Calls : call'[k].id < nextId => call'[k].id = call[k].id /\ call'[k].got = call[k].got
        PROVE  Stream(d)' /\ Turn(d)'
    <3>1. Active(d) /\ UNCHANGED <<pendingId, pendingIsRequest, pendingBy>>
      BY <2>3 DEF Active, pending
    <3> QED  BY <2>0, <2>2, <2>3, <3>1, Untouched
  <2>4. ASSUME UNCHANGED <<reader[d], inbox[d], link[d], pending, nextId, call>>
        PROVE  Stream(d)' /\ Turn(d)'
    BY <2>0, <2>3, <2>4
  <2>5. ASSUME Connects
        PROVE  Stream(d)' /\ Turn(d)'
    <3>1. CASE d # conns'
      BY <2>0, <2>4, <2>5, <3>1 DEF Connects, callVars
    <3>2. CASE d = conns'
      <4>1. d > conns /\ inbox[d] = <<>> /\ inbox' = inbox /\ reader'[d].pc = "recv"
        BY <2>0, <2>5, <3>2 DEF Connects, QuietInv
      <4>2. UNCHANGED <<pendingId, pendingBy>> /\ pendingBy # d
        BY <2>5, <4>1 DEF Connects, pending, QuietInv
      <4>3. pendingId = 0
        BY <2>1, <4>1, <4>2 DEF Shared
      <4>4. LastRead(d)' = Msg("answer", 0)
        BY <4>1, <4>2, <4>3 DEF LastRead
      <4>5. ~IsHead(Msg("answer", 0))
        BY DEF IsHead, Msg
      <4>6. Stream(d)'
        BY <4>1, <4>4, <4>5 DEF Stream, Paired, After, End
      <4>7. Turn(d)'
        BY <4>1 DEF Turn
      <4> QED  BY <4>6, <4>7
    <3> QED  BY <3>1, <3>2
  \* Unity puts a service message at the end of a stream that ends with one.
  <2>6. ASSUME NEW c \in Conns, NEW h \in Msgs, IsHead(h), UnitySends(c, <<h, Body(h)>>)
        PROVE  Stream(d)' /\ Turn(d)'
    <3>1. link[c] = "up" /\ inbox' = [inbox EXCEPT ![c] = @ \o <<h, Body(h)>>]
          /\ UNCHANGED <<link, reader, pending, nextId, call>>
      BY <2>6 DEF UnitySends, readerVars, callVars
    <3>2. CASE d # c
      BY <2>4, <3>1, <3>2
    <3>3. CASE d = c
      <4>1. Stream(d) /\ Turn(d)
        BY <2>2, <3>1 DEF Active
      <4>2. LastRead(d)' = LastRead(d)
        BY <3>1 DEF LastRead, Pending, pending
      <4>3. inbox'[d] = inbox[d] \o <<h, Body(h)>> /\ inbox[d] \in Seq(Msgs)
        BY <2>0, <3>1, <3>3
      <4>4. Paired(inbox[d]) /\ After(LastRead(d), inbox[d]) /\ ~IsHead(End(LastRead(d), inbox[d]))
        BY <3>1, <3>3, <4>1 DEF Stream
      <4>5. Stream(d)'
        BY <2>6, <4>2, <4>3, <4>4, PairFlows DEF Stream
      <4>6. Turn(d)'
        BY <3>1, <4>1 DEF Turn, Pending, pending
      <4> QED  BY <4>5, <4>6
    <3> QED  BY <3>2, <3>3
  <2>7. ASSUME NEW c \in Conns, UnityAnswers(c)
        PROVE  Stream(d)' /\ Turn(d)'
    <3>1. PICK i \in asked[c] : UnitySends(c, <<Msg("__response", i), Msg("answer", i)>>)
      BY <2>7 DEF UnityAnswers
    <3>2. Msg("__response", i) \in Msgs /\ i \in Nat
      BY <2>0, MsgTypes DEF MsgKinds
    <3>3. IsHead(Msg("__response", i)) /\ Body(Msg("__response", i)) = Msg("answer", i)
      BY DEF IsHead, Body, Msg
    <3> QED  BY <2>6, <3>1, <3>2, <3>3
  <2>8. ASSUME NEW c \in Conns, NEW r \in Requests, UnityCalls(c, r)
        PROVE  Stream(d)' /\ Turn(d)'
    <3>1. Msg("__request", r) \in Msgs
      BY MsgTypes DEF MsgKinds, Requests
    <3>2. IsHead(Msg("__request", r)) /\ Body(Msg("__request", r)) = Msg("call", r)
      BY DEF IsHead, Body, Msg
    <3> QED  BY <2>6, <2>8, <3>1, <3>2 DEF UnityCalls
  \* What is left of a stream that breaks is one, though it may end with a head.
  <2>9. ASSUME NEW c \in Conns, Cut(c)
        PROVE  Stream(d)' /\ Turn(d)'
    <3>1. UNCHANGED <<reader, pending, nextId, call>> /\ link' = [link EXCEPT ![c] = "cut"]
      BY <2>9 DEF Cut, readerVars, callVars
    <3>2. PICK n \in 0..Len(inbox[c]) : inbox' = [inbox EXCEPT ![c] = SubSeq(@, 1, n)]
      BY <2>9 DEF Cut
    <3>3. CASE d # c
      BY <2>0, <2>4, <3>1, <3>2, <3>3
    <3>4. CASE d = c
      <4>1. Stream(d) /\ Turn(d)
        BY <2>2, <3>1 DEF Active
      <4>2. LastRead(d)' = LastRead(d)
        BY <3>1 DEF LastRead, Pending, pending
      <4>3. inbox'[d] = SubSeq(inbox[d], 1, n) /\ inbox[d] \in Seq(Msgs) /\ link'[d] = "cut"
        BY <2>0, <3>1, <3>2, <3>4
      <4>4. Paired(inbox[d]) /\ After(LastRead(d), inbox[d])
        BY <4>1 DEF Stream
      <4>5. Paired(SubSeq(inbox[d], 1, n)) /\ After(LastRead(d), SubSeq(inbox[d], 1, n))
        BY <3>2, <3>4, <4>3, <4>4, PrefixFlows
      <4>6. Stream(d)'
        BY <4>2, <4>3, <4>5 DEF Stream
      <4>7. Turn(d)'
        BY <3>1, <4>1 DEF Turn, Pending, pending
      <4> QED  BY <4>6, <4>7
    <3> QED  BY <3>3, <3>4
  <2>10. ASSUME NEW c \in Conns, Reader(c)
         PROVE  Stream(d)' /\ Turn(d)'
    <3>1. CASE d = c
      <4>1. CASE Active(c)
        BY <2>1, <2>2, <2>10, <3>1, <4>1, ReaderFlow
      <4>2. CASE ~Active(c)
        <5>1. reader[c].pc = "closing"
          BY <2>10, <4>2 DEF Active, Reader, Reads, SetsId, SetsFlag, ServesRequest, ServesResponse, Notifies, Clears, Closes
        <5>2. Closes(c)
          BY <2>10, <5>1 DEF Reader, Reads, SetsId, SetsFlag, ServesRequest, ServesResponse, Notifies, Clears
        <5>3. reader'[c].pc = "closed"
          BY <2>0, <5>2 DEF Closes, Stops
        <5> QED  BY <3>1, <5>3 DEF Active
      <4> QED  BY <4>1, <4>2
    <3>2. CASE d # c
      <4>1. reader'[d] = reader[d] /\ link'[d] = link[d] /\ inbox'[d] = inbox[d]
        <5>1. reader'[d] = reader[d]
          BY <2>0, <2>10, <3>2 DEF Reader, Reads, SetsId, SetsFlag, ServesRequest, ServesResponse, Notifies, Clears, Closes, At, Loop, Stops
        <5>2. link'[d] = link[d] /\ inbox'[d] = inbox[d]
          BY <2>0, <2>10, <3>2 DEF Reader, Reads, SetsId, SetsFlag, ServesRequest, ServesResponse, Notifies, Clears, Closes, ReaderOnly, unityVars
        <5> QED  BY <5>1, <5>2
      <4>2. Active(d)
        BY <4>1 DEF Active
      <4>3. reader[c].pc \notin {"flag", "service", "notify", "clear"}
        <5>1. reader[c].pc \in {"flag", "service", "notify", "clear"} => Turn(c)
          BY <2>2 DEF Active
        <5> QED  BY <2>2, <3>2, <4>2, <5>1, Alone
      <4>4. Reads(c) \/ SetsId(c) \/ Closes(c)
        BY <2>10, <4>3 DEF Reader, SetsFlag, ServesRequest, ServesResponse, Notifies, Clears
      <4>5. ~SetsId(c)
        <5>1. SUFFICES ASSUME SetsId(c) PROVE FALSE
          OBVIOUS
        <5>2. reader[c].pc = "command" /\ pendingId' = reader[c].msg.id /\ pendingBy' = c
          BY <5>1 DEF SetsId
        <5>3. Turn(c)
          BY <2>2, <5>2 DEF Active
        <5>4. pendingId' # 0
          BY <5>2, <5>3 DEF Turn
        <5> QED  BY <2>1, <3>2, <5>2, <5>4, AloneNext
      <4>6. UNCHANGED <<pending, nextId, call>>
        BY <4>4, <4>5 DEF Reads, Closes, callVars
      <4> QED  BY <2>4, <4>1, <4>6
    <3> QED  BY <3>1, <3>2
  \* The other threads touch no stream, and a new call gets an id that no reader is at.
  <2>11. ASSUME NEW c \in Conns, Sender(c)
         PROVE  Stream(d)' /\ Turn(d)'
    <3>1. link' = link /\ SenderOnly
      BY <2>11 DEF Sender, TakesQueue, SendsItem, EndsSender
    <3> QED  BY <2>4, <3>1 DEF SenderOnly, callVars
  <2>12. ASSUME NEW k \in Calls, Registers(k) \/ Caller(k)
         PROVE  Stream(d)' /\ Turn(d)'
    <3>1. UNCHANGED <<reader, link, inbox, pending>>
      BY <2>12 DEF Registers, Caller, PutsRequest, Waits, CallOnly, unityVars, readerVars
    <3>2. nextId' \in Nat /\ nextId <= nextId'
      BY <2>0, <2>12 DEF Registers, Caller, PutsRequest, Waits
    <3>3. ASSUME NEW j \in Calls, call'[j].id < nextId
          PROVE  call'[j].id = call[j].id /\ call'[j].got = call[j].got
      <4>1. CASE Registers(k)
        <5>1. call' = [call EXCEPT ![k] = [[call[k] EXCEPT !.pc = "registered"] EXCEPT !.id = nextId]]
          BY <4>1 DEF Registers
        <5>2. call'[k].id = nextId
          BY <2>0, <5>1 DEF Callers
        <5>3. j # k
          BY <2>0, <3>3, <5>2
        <5> QED  BY <2>0, <5>1, <5>3
      <4>2. CASE Caller(k)
        <5>1. call'[j] = call[j] \/ \E pc \in {"raised", "put", "waiting"} : call'[j] = [call[j] EXCEPT !.pc = pc]
          BY <2>0, <4>2 DEF Caller, PutsRequest, Waits
        <5>2. \A pc : [call[j] EXCEPT !.pc = pc].id = call[j].id /\ [call[j] EXCEPT !.pc = pc].got = call[j].got
          BY <2>0 DEF Callers
        <5> QED  BY <5>1, <5>2
      <4> QED  BY <2>12, <4>1, <4>2
    <3> QED  BY <2>3, <3>1, <3>2, <3>3
  <2>13. ASSUME NEW r \in Requests, Service(r)
         PROVE  Stream(d)' /\ Turn(d)'
    <3>1. ServiceOnly
      BY <2>13 DEF Service, ServiceReturns, ServiceFails
    <3> QED  BY <2>4, <3>1 DEF ServiceOnly, unityVars, readerVars, callVars
  <2>14. \/ Connects
         \/ \E c \in Conns : UnityAnswers(c)
         \/ \E c \in Conns : Cut(c)
         \/ \E c \in Conns : Reader(c)
         \/ \E c \in Conns : Sender(c)
         \/ \E c \in Conns : \E r \in Requests : UnityCalls(c, r)
         \/ \E k \in Calls : Registers(k) \/ Caller(k)
         \/ \E r \in Requests : Service(r)
    BY <1>n, Zenon DEF Next, Watched
  <2> QED  BY <2>5, <2>7, <2>8, <2>9, <2>10, <2>11, <2>12, <2>13, <2>14
<1> QED  BY <1>u, <1>n

\* What is done about a call or a request is what was meant.
LEMMA NextMatch == TypeOK /\ QuietInv /\ FlowInv /\ ResponsesMatch /\ [Next]_vars => ResponsesMatch'
<1> SUFFICES ASSUME TypeOK, QuietInv, FlowInv, ResponsesMatch, [Next]_vars, ~exposed' PROVE ResponsesMatch'
  BY DEF ResponsesMatch
<1>1. ~exposed
  BY DEF Next, Watched, vars
<1>2. /\ \A k \in Calls : call[k].pc = "done" => call[k].got = call[k].id
      /\ \A r \in Requests : svc[r].tag \in {0, r}
      /\ \A c \in Conns : Active(c) => Turn(c)
  BY <1>1 DEF ResponsesMatch, FlowInv
<1>0. /\ call \in [Calls -> Callers] /\ svc \in [Requests -> Servers] /\ reader \in [Conns -> Readers]
  BY DEF TypeOK
<1> SUFFICES /\ \A k \in Calls : call'[k].pc = "done" => call'[k].got = call'[k].id
             /\ \A r \in Requests : svc'[r].tag \in {0, r}
  BY DEF ResponsesMatch
<1>3. CASE UNCHANGED <<call, svc>>
  BY <1>2, <1>3
<1>4. ASSUME NEW c \in Conns, Reader(c)
      PROVE  /\ \A k \in Calls : call'[k].pc = "done" => call'[k].got = call'[k].id
             /\ \A r \in Requests : svc'[r].tag \in {0, r}
  <2>1. CASE ServesRequest(c)
    <3>1. reader[c].msg = Body(Pending) /\ pendingIsRequest /\ call' = call
      BY <1>2, <2>1 DEF ServesRequest, Active, Turn, callVars
    <3>2. reader[c].msg.kind = "call" /\ reader[c].msg.id = pendingId
      BY <3>1 DEF Body, Pending, Msg
    <3>3. svc' = [svc EXCEPT ![pendingId] = [pc |-> "calling", tag |-> pendingId]]
      BY <2>1, <3>2 DEF ServesRequest
    <3> QED  BY <1>0, <1>2, <3>1, <3>3
  <2>2. CASE ServesResponse(c)
    <3>1. reader[c].msg = Body(Pending) /\ ~pendingIsRequest /\ svc' = svc
      BY <1>2, <2>2 DEF ServesResponse, Active, Turn
    <3>2. reader[c].msg.kind = "answer" /\ reader[c].msg.id = pendingId
      BY <3>1 DEF Body, Pending, Msg
    <3>3. ASSUME NEW k \in Calls, call'[k].pc = "done"
          PROVE  call'[k].got = call'[k].id
      <4>1. call'[k] = call[k] \/ (call[k].id = pendingId /\ call'[k] = [call[k] EXCEPT !.got = pendingId])
        BY <2>2, <3>2 DEF ServesResponse
      <4>2. [call[k] EXCEPT !.got = pendingId].got = pendingId /\ [call[k] EXCEPT !.got = pendingId].id = call[k].id
        BY <1>0 DEF Callers
      <4> QED  BY <1>2, <3>3, <4>1, <4>2
    <3> QED  BY <1>2, <3>1, <3>3
  <2>3. CASE Notifies(c)
    <3>1. svc' = svc /\ \A k \in Calls : call[k].id = reader[c].msg.id => call[k].got = call[k].id
      BY <1>2, <2>3 DEF Notifies, Active, Turn
    <3>2. ASSUME NEW k \in Calls, call'[k].pc = "done"
          PROVE  call'[k].got = call'[k].id
      <4>1. \/ call'[k] = call[k]
            \/ call[k].id = reader[c].msg.id /\ call'[k] = [call[k] EXCEPT !.pc = "done"]
            \/ call[k].id = reader[c].msg.id /\ call'[k] = [call[k] EXCEPT !.early = TRUE]
        BY <2>3 DEF Notifies
      <4>2. /\ [call[k] EXCEPT !.pc = "done"].got = call[k].got /\ [call[k] EXCEPT !.pc = "done"].id = call[k].id
            /\ [call[k] EXCEPT !.early = TRUE].got = call[k].got /\ [call[k] EXCEPT !.early = TRUE].id = call[k].id
        BY <1>0 DEF Callers
      <4> QED  BY <1>2, <3>1, <3>2, <4>1, <4>2
    <3> QED  BY <1>2, <3>1, <3>2
  <2>4. CASE Reads(c) \/ SetsId(c) \/ SetsFlag(c) \/ Clears(c) \/ Closes(c)
    BY <1>3, <2>4 DEF Reads, SetsId, SetsFlag, Clears, Closes, callVars
  <2> QED  BY <1>4, <2>1, <2>2, <2>3, <2>4 DEF Reader
<1>5. ASSUME NEW k \in Calls, Registers(k) \/ Caller(k)
      PROVE  /\ \A j \in Calls : call'[j].pc = "done" => call'[j].got = call'[j].id
             /\ \A r \in Requests : svc'[r].tag \in {0, r}
  <2>1. svc' = svc
    BY <1>5 DEF Registers, Caller, PutsRequest, Waits, CallOnly
  <2>2. \A j \in Calls : j # k => call'[j] = call[j]
    BY <1>0, <1>5 DEF Registers, Caller, PutsRequest, Waits
  <2>3. call'[k].pc # "done"
    BY <1>0, <1>5 DEF Registers, Caller, PutsRequest, Waits, Callers
  <2> QED  BY <1>2, <2>1, <2>2, <2>3
<1>6. ASSUME NEW r \in Requests, Service(r)
      PROVE  /\ \A k \in Calls : call'[k].pc = "done" => call'[k].got = call'[k].id
             /\ \A q \in Requests : svc'[q].tag \in {0, q}
  <2>1. call' = call
    BY <1>6 DEF Service, ServiceReturns, ServiceFails, ServiceOnly, callVars
  <2>2. \A q \in Requests : svc'[q].tag = svc[q].tag
    BY <1>0, <1>6 DEF Service, ServiceReturns, ServiceFails, Servers
  <2> QED  BY <1>2, <2>1, <2>2
<1>7. ASSUME NEW c \in Conns, NEW r \in Requests, UnityCalls(c, r)
      PROVE  /\ \A k \in Calls : call'[k].pc = "done" => call'[k].got = call'[k].id
             /\ \A q \in Requests : svc'[q].tag \in {0, q}
  <2>1. call' = call
    BY <1>7 DEF UnityCalls, UnitySends, callVars
  <2>2. \A q \in Requests : svc'[q].tag = svc[q].tag
    BY <1>0, <1>7 DEF UnityCalls, Servers
  <2> QED  BY <1>2, <2>1, <2>2
<1>8. CASE Connects
  BY <1>3, <1>8 DEF Connects, callVars
<1>9. ASSUME NEW c \in Conns, Cut(c) \/ UnityAnswers(c)
      PROVE  UNCHANGED <<call, svc>>
  BY <1>9 DEF Cut, UnityAnswers, UnitySends, callVars
<1>10. ASSUME NEW c \in Conns, Sender(c)
       PROVE  UNCHANGED <<call, svc>>
  BY <1>10 DEF Sender, TakesQueue, SendsItem, EndsSender, SenderOnly, callVars
<1>11. CASE UNCHANGED vars
  BY <1>3, <1>11 DEF vars, callVars
<1>12. CASE Next
  <2>1. \/ Connects
        \/ \E c \in Conns : Cut(c) \/ UnityAnswers(c)
        \/ \E c \in Conns : Reader(c)
        \/ \E c \in Conns : Sender(c)
        \/ \E c \in Conns : \E r \in Requests : UnityCalls(c, r)
        \/ \E k \in Calls : Registers(k) \/ Caller(k)
        \/ \E r \in Requests : Service(r)
    BY <1>12, Zenon DEF Next, Watched
  <2> QED  BY <2>1, <1>3, <1>4, <1>5, <1>6, <1>7, <1>8, <1>9, <1>10
<1> QED  BY <1>11, <1>12

\* A call to Unity returns the answer to itself and a response to Unity has the id of its
\* request (tcp_sender.py:88-118, client.py:205-216), while no other connection is read when an id is pending.
THEOREM ResponsesAlwaysMatch == Spec => []ResponsesMatch
<1>1. Init => ResponsesMatch
  BY DEF Init, ResponsesMatch
<1>2. Init => TypeOK /\ OwnerInv /\ IdInv /\ QuietInv /\ FlowInv /\ ResponsesMatch
  BY <1>1, InitType, InitOwner, InitIds, InitQuiet, InitFlow
<1>3. TypeOK /\ OwnerInv /\ IdInv /\ QuietInv /\ FlowInv /\ ResponsesMatch /\ [Next]_vars
          => TypeOK' /\ OwnerInv' /\ IdInv' /\ QuietInv' /\ FlowInv' /\ ResponsesMatch'
  BY NextType, NextOwner, NextIds, NextQuiet, NextFlow, NextMatch
<1> QED  BY <1>2, <1>3, PTL DEF Spec

=============================================================================
