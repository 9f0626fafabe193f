--------------------------- MODULE RegistryProofs ---------------------------
(***************************************************************************)
(* Proofs about Registry, for any number of connections, any set of names  *)
(* and any number of registrations, messages and calls.                    *)
(***************************************************************************)
EXTENDS Registry, TLAPS

At(c, p, pc) == reader[c].at = p /\ reader[c].pc = pc
Sending(c, p) == At(c, p, "deserialize") \/ At(c, p, "publish")
Using(r) == call[r].pc \in {"deserialize", "calling"}

\* A reader at work is at a place; only publishers send and only services of
\* ROS are called.
PlaceInv ==
    /\ \A c \in Readers : reader[c].pc \in {"recv", "closed"} <=> reader[c].at = NoPlace
    /\ \A c \in Readers, p \in Places : Sending(c, p) => p[1] = "publisher"
    /\ \A r \in Calls :
          /\ Using(r) => call[r].at \in Places /\ call[r].at[1] = "rosService" /\ call[r].tries < 3
          /\ Using(r) => call[r].node \in Nodes
    /\ \A c \in Readers : reader[c].pc \in {"unregister", "store", "deserialize", "publish"} => reader[c].node \in Nodes

\* A communicator gets a number nobody has seen.
FreshInv ==
    \A p \in Places :
        /\ live[p] \subseteq 1..made[p] /\ table[p] <= made[p]
        /\ \A c \in Readers : Working(c, p) => reader[c].node <= made[p]

\* What a reader has made is its own and registered until it is in the table;
\* what one has unregistered stays so.
OwnInv ==
    \A c \in Readers, p \in Places :
        /\ At(c, p, "store") =>
              /\ p[1] # "rosService" => reader[c].node \in live[p]
              /\ reader[c].node # table[p]
              /\ \A d \in Readers : d # c /\ Registering(d, p) => reader[d].node # reader[c].node
        /\ At(c, p, "create") => reader[c].node \notin live[p]

\* Readers that are at one name at once have met, and a name that two of them
\* register is raced.
MetInv ==
    \A c, d \in Readers, p \in Places :
        c # d /\ Working(c, p) /\ Working(d, p) =>
            /\ reader[c].met
            /\ Registering(c, p) /\ Registering(d, p) => p \in raced

\* A dead communicator in a table is about to be replaced.
DeadInv ==
    \A p \in Places :
        \/ p[1] = "rosService" \/ table[p] = 0 \/ table[p] \in live[p]
        \/ \E c \in Readers : At(c, p, "store") \/ (At(c, p, "create") /\ reader[c].node = table[p])

\* What ROS knows of a name that was never raced.
QuietInv ==
    \A p \in Places :
        p \notin raced /\ p[1] # "rosService" =>
            /\ \A c \in Readers :
                  /\ At(c, p, "unregister") => live[p] = {reader[c].node}
                  /\ At(c, p, "create") => live[p] = {}
                  /\ At(c, p, "store") => live[p] = {reader[c].node}
            /\ live[p] = InTable(p) \/ \E c \in Readers : Registering(c, p)

\* Of a service offered by Unity there is one at most, in the table or about to be.
UnityInv ==
    \A p \in Places :
        p[1] = "unityService" =>
            /\ \A m, n \in live[p] : m = n
            /\ \A n \in live[p] : n = table[p] \/ \E c \in Readers : At(c, p, "store") /\ reader[c].node = n

\* A reader that has met nobody works on what is in the table.
AloneInv ==
    \A c \in Readers, p \in Places :
        Working(c, p) /\ ~reader[c].met =>
            /\ reader[c].pc # "store" => reader[c].node = table[p]
            /\ Sending(c, p) => reader[c].node \in live[p]
            /\ At(c, p, "publish") => held[p][reader[c].node] = reader[c].msg

\* Calls that use a request object at once have met; a call alone has it to itself.
CallInv ==
    /\ \A r, s \in Calls : r # s /\ Using(r) /\ Using(s) /\ call[r].at = call[s].at /\ call[r].node = call[s].node
                              => call[r].met
    /\ \A r \in Calls : call[r].pc = "calling" /\ ~call[r].met => held[call[r].at][call[r].node] = r
    /\ AnswersOwn

TypeInv == TypeOK /\ PlaceInv

-----------------------------------------------------------------------------
(* Types *)

LEMMA PlaceFacts == /\ NoPlace \notin Places
                    /\ \A p \in Places : p[1] \in Kinds /\ p[2] \in Topics /\ p = <<p[1], p[2]>>
                    /\ \A k \in Kinds, t \in Topics : <<k, t>> \in Places
BY DEF Places, NoPlace, Kinds

LEMMA IdleFacts == /\ Idle \in Threads /\ Closed \in Threads /\ NoCall \in CallThreads
                   /\ Idle.pc = "recv" /\ Idle.at = NoPlace /\ Closed.pc = "closed" /\ Closed.at = NoPlace
<1>1. Idle \in Threads /\ Idle.pc = "recv" /\ Idle.at = NoPlace
  BY CountAssumption DEF Idle, Threads
<1>2. Closed \in Threads /\ Closed.pc = "closed" /\ Closed.at = NoPlace
  BY <1>1 DEF Closed, Threads
<1>3. NoCall \in CallThreads
  BY CountAssumption DEF NoCall, CallThreads
<1> QED  BY <1>1, <1>2, <1>3

LEMMA InitType == Init => TypeInv
BY CountAssumption, PlaceFacts, IdleFacts
   DEF Init, TypeInv, TypeOK, PlaceInv, Nodes, Calls, NoCall, Sending, At, Using

\* A reader that begins is at p with what it is given; the others keep all but met.
LEMMA BeginFacts ==
    ASSUME TypeOK, NEW c \in Readers, NEW p \in Places,
           NEW pc \in {"unregister", "create", "deserialize"}, NEW node \in 0..MaxJobs, NEW msg \in 0..MaxJobs,
           Begin(c, p, pc, node, msg)
    PROVE  /\ reader' \in [Readers -> Threads]
           /\ reader'[c].pc = pc /\ reader'[c].at = p /\ reader'[c].node = node /\ reader'[c].msg = msg
           /\ reader'[c].met <=> \E d \in Readers \ {c} : Working(d, p)
           /\ \A d \in Readers \ {c} :
                 /\ reader'[d].pc = reader[d].pc /\ reader'[d].at = reader[d].at
                 /\ reader'[d].node = reader[d].node /\ reader'[d].msg = reader[d].msg
                 /\ reader'[d].met <=> reader[d].met \/ Working(d, p)
<1>1. reader \in [Readers -> Threads]
  BY DEF TypeOK
<1>2. reader'[c] = [pc |-> pc, at |-> p, node |-> node, msg |-> msg, met |-> {d \in Readers \ {c} : Working(d, p)} # {}]
  BY DEF Begin
<1>3. ASSUME NEW d \in Readers \ {c}
      PROVE  reader'[d] = IF Working(d, p) THEN [reader[d] EXCEPT !.met = TRUE] ELSE reader[d]
  BY DEF Begin
<1>4. reader'[c] \in Threads
  BY <1>2 DEF Threads
<1>5. ASSUME NEW d \in Readers \ {c}
      PROVE  /\ reader'[d] \in Threads
             /\ reader'[d].pc = reader[d].pc /\ reader'[d].at = reader[d].at
             /\ reader'[d].node = reader[d].node /\ reader'[d].msg = reader[d].msg
             /\ reader'[d].met <=> reader[d].met \/ Working(d, p)
  <2>1. reader[d] \in Threads
    BY <1>1
  <2>2. CASE Working(d, p)
    BY <1>3, <2>1, <2>2 DEF Threads
  <2>3. CASE ~Working(d, p)
    <3>1. reader'[d] = reader[d]
      BY <1>3, <2>3
    <3> QED  BY <3>1, <2>1, <2>3 DEF Threads
  <2> QED  BY <2>2, <2>3
<1>6. reader' \in [Readers -> Threads]
  <2>1. \A d \in Readers : reader'[d] \in Threads
    BY <1>4, <1>5
  <2> QED  BY <2>1 DEF Begin
<1>7. reader'[c].met <=> \E d \in Readers \ {c} : Working(d, p)
  <2>1. reader'[c].met = ({d \in Readers \ {c} : Working(d, p)} # {})
    BY <1>2
  <2> QED  BY <2>1, Zenon
<1>8. reader'[c].pc = pc /\ reader'[c].at = p /\ reader'[c].node = node /\ reader'[c].msg = msg
  BY <1>2
<1> QED  BY <1>5, <1>6, <1>7, <1>8, Zenon
\* A reader that goes on keeps everything but where it is.
LEMMA GotoFacts ==
    ASSUME TypeOK, NEW c \in Readers, NEW pc \in {"create", "publish", "raised"}, Goto(c, pc)
    PROVE  /\ reader' \in [Readers -> Threads]
           /\ reader'[c].pc = pc /\ reader'[c].at = reader[c].at /\ reader'[c].node = reader[c].node
           /\ reader'[c].msg = reader[c].msg /\ reader'[c].met = reader[c].met
           /\ \A d \in Readers \ {c} : reader'[d] = reader[d]
<1>1. reader[c] \in Threads /\ reader \in [Readers -> Threads]
  BY DEF TypeOK
<1>2. reader' = [reader EXCEPT ![c] = [reader[c] EXCEPT !.pc = pc]]
  BY DEF Goto
<1>3. [reader[c] EXCEPT !.pc = pc] \in Threads
  BY <1>1 DEF Threads
<1>4. reader'[c] = [reader[c] EXCEPT !.pc = pc] /\ \A d \in Readers \ {c} : reader'[d] = reader[d]
  BY <1>1, <1>2
<1> QED  BY <1>1, <1>2, <1>3, <1>4 DEF Threads

\* One that is done is idle.
LEMMA LoopFacts ==
    ASSUME TypeOK, NEW c \in Readers, NEW v \in Threads, reader' = [reader EXCEPT ![c] = v]
    PROVE  /\ reader' \in [Readers -> Threads] /\ reader'[c] = v
           /\ \A d \in Readers \ {c} : reader'[d] = reader[d]
BY DEF TypeOK

LEMMA RegisterType == ASSUME TypeInv, NEW c \in Readers, NEW p \in Places, Registers(c, p) PROVE TypeInv'
<1> USE DEF TypeInv, Registers
<1>1. table[p] \in 0..MaxJobs
  BY DEF TypeOK
<1> DEFINE pc == IF table[p] = 0 THEN "create" ELSE "unregister"
<1>2. Begin(c, p, pc, table[p], 0) /\ 0 \in 0..MaxJobs /\ pc \in {"unregister", "create", "deserialize"}
  BY CountAssumption
<1> HIDE DEF pc
<1>3. /\ reader' \in [Readers -> Threads]
      /\ reader'[c].pc = pc /\ reader'[c].at = p /\ reader'[c].node = table[p]
      /\ \A d \in Readers \ {c} : reader'[d].pc = reader[d].pc /\ reader'[d].at = reader[d].at
                                  /\ reader'[d].node = reader[d].node
  BY <1>1, <1>2, BeginFacts
<1>4. TypeOK'
  <2>1. jobs' \in 0..MaxJobs /\ raced' \subseteq Places
    BY CountAssumption DEF TypeOK
  <2> QED  BY <1>3, <2>1 DEF TypeOK
<1>5. pc \in {"create", "unregister"} /\ (pc = "unregister" => table[p] \in Nodes)
  BY <1>1, CountAssumption DEF pc, Nodes
<1> QED  BY <1>3, <1>4, <1>5, PlaceFacts DEF PlaceInv, Sending, At, Using

LEMMA ReadType == ASSUME TypeInv, NEW c \in Readers, NEW t \in Topics, Reads(c, t) PROVE TypeInv'
<1> USE DEF TypeInv, Reads
<1> DEFINE p == <<"publisher", t>>
<1>1. p \in Places /\ p[1] = "publisher" /\ table[p] \in 0..MaxJobs /\ jobs' \in 0..MaxJobs
  BY CountAssumption DEF TypeOK, Places, Kinds
<1>2. Begin(c, p, "deserialize", table[p], jobs') /\ table[p] # 0
  OBVIOUS
<1> HIDE DEF p
<1>3. /\ reader' \in [Readers -> Threads]
      /\ reader'[c].pc = "deserialize" /\ reader'[c].at = p /\ reader'[c].node = table[p]
      /\ \A d \in Readers \ {c} : reader'[d].pc = reader[d].pc /\ reader'[d].at = reader[d].at
                                  /\ reader'[d].node = reader[d].node
  BY <1>1, <1>2, BeginFacts
<1>4. TypeOK'
  BY <1>1, <1>3 DEF TypeOK
<1>5. table[p] \in Nodes
  BY <1>1, <1>2, CountAssumption DEF Nodes
<1> QED  BY <1>1, <1>3, <1>4, <1>5, PlaceFacts DEF PlaceInv, Sending, At, Using

LEMMA ServeType == ASSUME TypeInv, NEW c \in Readers, NEW t \in Topics, Serves(c, t) PROVE TypeInv'
<1> USE DEF TypeInv, Serves
<1> DEFINE p == <<"rosService", t>>
           others == {r \in Calls : Using(r) /\ call[r].at = p /\ call[r].node = table[p]}
           met == others # {}
           new == [NoCall EXCEPT !.pc = "deserialize", !.at = p, !.node = table[p], !.met = met]
<1>0. p \in Places /\ p[1] = "rosService"
  BY DEF Places, Kinds
<1>10. table[p] # 0 /\ jobs' = jobs + 1 /\ jobs < MaxJobs
  OBVIOUS
<1>11. table[p] \in 0..MaxJobs /\ jobs \in 0..MaxJobs
  BY <1>0 DEF TypeOK
<1>1. p \in Places /\ p[1] = "rosService" /\ table[p] \in Nodes /\ jobs' \in 0..MaxJobs
  <2> HIDE DEF p, Serves, TypeInv
  <2> QED  BY <1>0, <1>10, <1>11, CountAssumption DEF Nodes
<1>2. call' = [r \in Calls |-> IF r = jobs' THEN new
                               ELSE IF r \in others THEN [call[r] EXCEPT !.met = TRUE] ELSE call[r]]
  BY DEF Using
<1>9. met \in BOOLEAN
  OBVIOUS
<1> HIDE DEF met
<1>3. new \in CallThreads /\ new.pc = "deserialize" /\ new.at = p /\ new.node = table[p] /\ new.tries = 0
  <2> HIDE DEF p, Serves, TypeInv
  <2>1. NoCall.tries = 0
    BY DEF NoCall
  <2>2. table[p] \in 0..MaxJobs
    BY <1>1, CountAssumption DEF Nodes
  <2> QED  BY <1>1, <1>9, <2>1, <2>2, IdleFacts DEF CallThreads
<1> HIDE DEF p, new
<1>4. ASSUME NEW r \in Calls
      PROVE  call'[r] \in CallThreads
             /\ (r # jobs' => /\ call'[r].pc = call[r].pc /\ call'[r].at = call[r].at
                              /\ call'[r].node = call[r].node /\ call'[r].tries = call[r].tries)
  <2>1. call[r] \in CallThreads
    BY DEF TypeOK
  <2>2. call'[r] = IF r = jobs' THEN new ELSE IF r \in others THEN [call[r] EXCEPT !.met = TRUE] ELSE call[r]
    BY <1>2
  <2>3. [call[r] EXCEPT !.met = TRUE] \in CallThreads
    BY <2>1 DEF CallThreads
  <2> HIDE DEF others
  <2>4. CASE r = jobs'
    BY <2>2, <2>4, <1>3
  <2>5. CASE r # jobs' /\ r \in others
    BY <2>1, <2>2, <2>3, <2>5 DEF CallThreads
  <2>6. CASE r # jobs' /\ r \notin others
    BY <2>1, <2>2, <2>6
  <2> QED  BY <2>4, <2>5, <2>6
<1>5. jobs' \in Calls => call'[jobs'] = new
  BY <1>2
<1>6. call' \in [Calls -> CallThreads]
  BY <1>2, <1>4
<1>7. TypeOK'
  BY <1>1, <1>6 DEF TypeOK
<1>8. PlaceInv'
  <2>1. UNCHANGED reader
    OBVIOUS
  <2>2. ASSUME NEW r \in Calls, Using(r)'
        PROVE  call'[r].at \in Places /\ call'[r].at[1] = "rosService" /\ call'[r].tries < 3 /\ call'[r].node \in Nodes
    <3> HIDE DEF Serves
    <3>1. CASE r = jobs'
      BY <1>1, <1>3, <1>5, <3>1
    <3>2. CASE r # jobs'
      BY <1>4, <2>2, <3>2 DEF PlaceInv, Using
    <3> QED  BY <3>1, <3>2
  <2> HIDE DEF Serves
  <2> QED  BY <2>1, <2>2 DEF PlaceInv, Sending, At, Using
<1> QED  BY <1>7, <1>8

LEMMA ReaderType == ASSUME TypeInv, NEW c \in Readers, Reader(c) PROVE TypeInv'
<1>1. CASE Connects(c) \/ Closes(c)
  <2>1. PICK v \in {Idle, Closed} : reader' = [reader EXCEPT ![c] = v]
    BY <1>1 DEF Connects, Closes, Loop
  <2>2. /\ reader' \in [Readers -> Threads] /\ reader'[c] = v
        /\ \A d \in Readers \ {c} : reader'[d] = reader[d]
    BY <2>1, IdleFacts, LoopFacts DEF TypeInv
  <2>3. TypeOK'
    BY <1>1, <2>2 DEF Connects, Closes, TypeInv, TypeOK
  <2> QED  BY <1>1, <2>2, <2>3, IdleFacts, PlaceFacts DEF Connects, Closes, TypeInv, PlaceInv, Sending, At, Using
<1>2. CASE Unregisters(c)
  <2>1. /\ reader' \in [Readers -> Threads]
        /\ reader'[c].pc = "create" /\ reader'[c].at = reader[c].at /\ reader'[c].node = reader[c].node
        /\ \A d \in Readers \ {c} : reader'[d] = reader[d]
    BY <1>2, GotoFacts DEF Unregisters, TypeInv
  <2>2. reader[c].at \in Places
    BY <1>2 DEF Unregisters, TypeInv, TypeOK, PlaceInv, Threads
  <2>3. live' \in [Places -> SUBSET Nodes]
    BY <1>2, <2>2 DEF Unregisters, TypeInv, TypeOK
  <2>4. TypeOK'
    BY <1>2, <2>1, <2>3 DEF Unregisters, TypeInv, TypeOK
  <2> QED  BY <1>2, <2>1, <2>4 DEF Unregisters, TypeInv, PlaceInv, Sending, At, Using
<1>3. CASE Creates(c)
  <2> DEFINE p == reader[c].at  n == made[p] + 1
  <2>1. p \in Places
    BY <1>3 DEF Creates, Refused, Joined, TypeInv, TypeOK, PlaceInv, Threads
  <2>2. CASE p[1] = "unityService" /\ live[p] # {}
    <3>1. Goto(c, "raised") /\ UNCHANGED <<table, made, live, held, call, jobs, out, through, raced>>
      BY <1>3, <2>2 DEF Creates, Refused, Joined, Raise
    <3>2. /\ reader' \in [Readers -> Threads]
          /\ reader'[c].pc = "raised" /\ reader'[c].at = reader[c].at
          /\ \A d \in Readers \ {c} : reader'[d] = reader[d]
      BY <3>1, GotoFacts DEF TypeInv
    <3>3. TypeOK'
      BY <3>1, <3>2 DEF TypeInv, TypeOK
    <3> QED  BY <1>3, <3>1, <3>2, <3>3 DEF Creates, Refused, Joined, TypeInv, PlaceInv, Sending, At, Using
  <2>3. CASE ~(p[1] = "unityService" /\ live[p] # {})
    <3> DEFINE v == [reader[c] EXCEPT !.pc = "store", !.node = n]
    <3>1. /\ n \in Nodes /\ made' = [made EXCEPT ![p] = n]
          /\ live' = [live EXCEPT ![p] = IF p[1] = "rosService" THEN @ ELSE @ \cup {n}]
          /\ reader' = [reader EXCEPT ![c] = v]
          /\ UNCHANGED <<table, held, call, jobs, out, through, raced>>
      BY <1>3, <2>3 DEF Creates, Refused, Joined
    <3>2. reader[c] \in Threads /\ n \in 0..MaxJobs
      BY <3>1, CountAssumption DEF TypeInv, TypeOK, Nodes
    <3> HIDE DEF n
    <3>3. v \in Threads /\ v.pc = "store" /\ v.at = p /\ v.node = n
      BY <3>2 DEF Threads
    <3> HIDE DEF v
    <3>4. /\ reader' \in [Readers -> Threads] /\ reader'[c] = v
          /\ \A d \in Readers \ {c} : reader'[d] = reader[d]
      BY <3>1, <3>3, LoopFacts DEF TypeInv
    <3>5. live' \in [Places -> SUBSET Nodes] /\ made' \in [Places -> 0..MaxJobs]
      BY <3>1, <2>1, CountAssumption DEF TypeInv, TypeOK, Nodes
    <3>6. TypeOK'
      BY <3>1, <3>4, <3>5 DEF TypeInv, TypeOK
    <3> QED  BY <1>3, <3>1, <3>3, <3>4, <3>6 DEF Creates, Refused, Joined, TypeInv, PlaceInv, Sending, At, Using
  <2> QED  BY <2>2, <2>3
<1>4. CASE Stores(c)
  <2>1. /\ reader' \in [Readers -> Threads] /\ reader'[c] = Idle
        /\ \A d \in Readers \ {c} : reader'[d] = reader[d]
    BY <1>4, IdleFacts, LoopFacts DEF Stores, Loop, TypeInv
  <2>2. table' \in [Places -> 0..MaxJobs]
    BY <1>4 DEF Stores, TypeInv, TypeOK, Threads
  <2>3. TypeOK'
    BY <1>4, <2>1, <2>2 DEF Stores, TypeInv, TypeOK
  <2> QED  BY <1>4, <2>1, <2>3, IdleFacts, PlaceFacts DEF Stores, TypeInv, PlaceInv, Sending, At, Using
<1>5. CASE Deserializes(c)
  <2>1. /\ reader' \in [Readers -> Threads]
        /\ reader'[c].pc = "publish" /\ reader'[c].at = reader[c].at /\ reader'[c].node = reader[c].node
        /\ \A d \in Readers \ {c} : reader'[d] = reader[d]
    BY <1>5, GotoFacts DEF Deserializes, TypeInv
  <2>2. reader[c].msg \in Nat
    BY CountAssumption DEF TypeInv, TypeOK, Threads
  <2>3. held' \in [Places -> [Nodes -> Nat]]
    BY <1>5, <2>2 DEF Deserializes, TypeInv, TypeOK
  <2>4. TypeOK'
    BY <1>5, <2>1, <2>3 DEF Deserializes, TypeInv, TypeOK
  <2> QED  BY <1>5, <2>1, <2>4 DEF Deserializes, TypeInv, PlaceInv, Sending, At, Using
<1>6. CASE Publishes(c)
  <2> DEFINE p == reader[c].at  n == reader[c].node
  <2>1. p \in Places /\ n \in Nodes
    BY <1>6 DEF Publishes, TypeInv, TypeOK, PlaceInv, Threads
  <2>2. CASE n \in live[p]
    <3>1. /\ reader' \in [Readers -> Threads] /\ reader'[c] = Idle
          /\ \A d \in Readers \ {c} : reader'[d] = reader[d]
      BY <1>6, <2>2, IdleFacts, LoopFacts DEF Publishes, Loop, TypeInv
    <3>2. out' \in [Topics -> Nat]
      BY <1>6, <2>1, <2>2, PlaceFacts DEF Publishes, TypeInv, TypeOK
    <3>3. TypeOK'
      BY <1>6, <3>1, <3>2 DEF Publishes, TypeInv, TypeOK
    <3> QED  BY <1>6, <3>1, <3>3, IdleFacts, PlaceFacts DEF Publishes, TypeInv, PlaceInv, Sending, At, Using
  <2>3. CASE n \notin live[p]
    <3>1. /\ reader' \in [Readers -> Threads]
          /\ reader'[c].pc = "raised" /\ reader'[c].at = reader[c].at
          /\ \A d \in Readers \ {c} : reader'[d] = reader[d]
      BY <1>6, <2>3, GotoFacts DEF Publishes, Raise, TypeInv
    <3>2. TypeOK'
      BY <1>6, <2>3, <3>1 DEF Publishes, TypeInv, TypeOK
    <3> QED  BY <1>6, <3>1, <3>2 DEF Publishes, TypeInv, PlaceInv, Sending, At, Using
  <2> QED  BY <2>2, <2>3
<1> QED
  BY <1>1, <1>2, <1>3, <1>4, <1>5, <1>6, RegisterType, ReadType, ServeType DEF Reader

LEMMA CallType == ASSUME TypeInv, NEW r \in Calls, Takes(r) \/ Attempts(r) PROVE TypeInv'
<1>1. call[r] \in CallThreads /\ call[r].at \in Places /\ call[r].node \in Nodes /\ call[r].tries \in 0..2
  BY DEF Takes, Attempts, TypeInv, TypeOK, PlaceInv, Using, CallThreads
<1>2. held[call[r].at][call[r].node] \in Nat
  BY <1>1 DEF TypeInv, TypeOK
<1> DEFINE Goes(v) == /\ v \in CallThreads /\ v.at = call[r].at /\ v.node = call[r].node
                      /\ v.pc \in {"deserialize", "calling"} => v.tries < 3
                      /\ call' = [call EXCEPT ![r] = v]
<1>3. \E v \in CallThreads : Goes(v)
  <2> DEFINE v1 == [call[r] EXCEPT !.pc = "calling"]
             v2 == [call[r] EXCEPT !.pc = "answered", !.got = held[call[r].at][call[r].node]]
             st == IF call[r].tries = 2 THEN "failed" ELSE "calling"
             k  == call[r].tries + 1
             v3 == [call[r] EXCEPT !.tries = k, !.pc = st]
  <2>1. Takes(r) => Goes(v1)
    BY <1>1 DEF Takes, CallThreads
  <2>2. call' = [call EXCEPT ![r].pc = "answered", ![r].got = held[call[r].at][call[r].node]] => Goes(v2)
    BY <1>1, <1>2 DEF CallThreads
  <2>3. call' = [call EXCEPT ![r].tries = @ + 1, ![r].pc = IF call[r].tries = 2 THEN "failed" ELSE "calling"]
           => Goes(v3)
    <3>1. st \in {"failed", "calling"} /\ (st = "calling" => k < 3) /\ k \in 0..3
      BY <1>1
    <3> HIDE DEF st, k
    <3>2. v3.tries = k /\ v3.at = call[r].at /\ v3.node = call[r].node /\ v3.pc = st
      BY <1>1 DEF CallThreads
    <3>3. v3 \in CallThreads
      BY <1>1, <3>1 DEF CallThreads
    <3>4. call' = [call EXCEPT ![r].tries = @ + 1, ![r].pc = IF call[r].tries = 2 THEN "failed" ELSE "calling"]
          => call' = [call EXCEPT ![r] = v3]
      BY <1>1 DEF st, k
    <3> HIDE DEF v3
    <3> QED  BY <1>1, <3>1, <3>2, <3>3, <3>4
  <2>4. Goes(v1) \/ Goes(v2) \/ Goes(v3)
    BY <2>1, <2>2, <2>3 DEF Attempts
  <2> QED  BY <2>4
<1>8. PICK v \in CallThreads : Goes(v)
  BY <1>3
<1>4. call' \in [Calls -> CallThreads] /\ call'[r] = v /\ \A s \in Calls \ {r} : call'[s] = call[s]
  BY <1>8 DEF TypeInv, TypeOK
<1>5. held' \in [Places -> [Nodes -> Nat]]
  <2>1. r \in Nat
    BY CountAssumption DEF Calls
  <2>2. CASE Takes(r)
    BY <1>1, <2>1, <2>2 DEF Takes, TypeInv, TypeOK
  <2>3. CASE Attempts(r)
    BY <2>3 DEF Attempts, TypeInv, TypeOK
  <2> QED  BY <2>2, <2>3
<1>6. TypeOK' /\ UNCHANGED reader
  BY <1>4, <1>5 DEF Takes, Attempts, CallOnly, TypeInv, TypeOK
<1>7. Using(r)
  BY DEF Takes, Attempts, Using
<1> QED  BY <1>1, <1>4, <1>6, <1>7, <1>8 DEF TypeInv, PlaceInv, Sending, At, Using

LEMMA NextType == TypeInv /\ [Next]_vars => TypeInv'
<1> SUFFICES ASSUME TypeInv, [Next]_vars
             PROVE  TypeInv'
  OBVIOUS
<1>1. ASSUME NEW t \in Topics, Receives(t)
      PROVE  TypeInv'
  <2>1. through' \in [Topics -> SUBSET Nodes]
    BY <1>1, PlaceFacts DEF Receives, TypeInv, TypeOK, Kinds
  <2> QED  BY <1>1, <2>1 DEF Receives, TypeInv, TypeOK, PlaceInv, Sending, At, Using
<1>2. CASE UNCHANGED vars
  BY <1>2 DEF vars, TypeInv, TypeOK, PlaceInv, Sending, At, Using
<1> QED  BY <1>1, <1>2, ReaderType, CallType DEF Next

\* The endpoint's tables, communicators and threads keep their types; a service
\* is called three times at most.
THEOREM RegistryTypes == Spec => []TypeOK
<1>1. TypeInv => TypeOK
  BY DEF TypeInv
<1> QED  BY <1>1, InitType, NextType, PTL DEF Spec

-----------------------------------------------------------------------------
(* The tables and ROS *)

IndInv == FreshInv /\ OwnInv /\ MetInv /\ DeadInv /\ QuietInv /\ UnityInv /\ AloneInv

LEMMA InitInd == Init => IndInv
<1> SUFFICES ASSUME Init PROVE IndInv
  OBVIOUS
<1>1. \A c \in Readers : reader[c].pc = "closed" /\ reader[c].at = NoPlace
  BY IdleFacts DEF Init
<1>2. \A p \in Places : table[p] = 0 /\ live[p] = {} /\ made[p] = 0
  BY DEF Init
<1>3. \A c \in Readers, p \in Places : reader[c].at # p
  BY <1>1, PlaceFacts
<1>4. FreshInv /\ OwnInv /\ MetInv /\ DeadInv
  BY <1>2, <1>3 DEF FreshInv, OwnInv, MetInv, DeadInv, Working, Registering, At
<1>5. QuietInv /\ UnityInv /\ AloneInv
  BY <1>2, <1>3 DEF QuietInv, UnityInv, AloneInv, Working, Sending, At, InTable
<1> QED  BY <1>4, <1>5 DEF IndInv

\* A reader that was not registering goes idle or raises.
LEMMA LeaveInd ==
    ASSUME TypeInv, IndInv, NEW c \in Readers, reader[c].pc \notin {"unregister", "create", "store"},
           reader'[c].pc \in {"recv", "closed", "raised"},
           reader'[c].pc # "raised" => reader'[c].at = NoPlace,
           \A d \in Readers \ {c} : reader'[d] = reader[d],
           UNCHANGED <<table, made, live, held, raced>>
    PROVE  IndInv'
<1> DEFINE Same(d) == reader'[d] = reader[d]
<1>1. \A d \in Readers, p \in Places : d # c => Same(d)
  OBVIOUS
<1>2. \A p \in Places : ~Working(c, p)' /\ ~Registering(c, p)' /\ ~Registering(c, p)
  BY PlaceFacts DEF Working, Registering
<1>3. \A d \in Readers, p \in Places : d # c => (Working(d, p)' <=> Working(d, p)) /\ (Registering(d, p)' <=> Registering(d, p))
  BY DEF Working, Registering
<1>4. FreshInv'
  BY <1>2, <1>3 DEF IndInv, FreshInv, Working
<1>5. OwnInv'
  BY <1>2, <1>3 DEF IndInv, OwnInv, At, Registering
<1>6. MetInv'
  BY <1>2, <1>3 DEF IndInv, MetInv
<1>7. DeadInv'
  BY <1>2 DEF IndInv, DeadInv, At, Registering
<1>8. QuietInv'
  BY <1>2, <1>3 DEF IndInv, QuietInv, At, Registering, InTable
<1>9. UnityInv'
  BY <1>2 DEF IndInv, UnityInv, At, Registering
<1>10. AloneInv'
  BY <1>2, <1>3 DEF IndInv, AloneInv, At, Sending, Working
<1> QED  BY <1>4, <1>5, <1>6, <1>7, <1>8, <1>9, <1>10 DEF IndInv

LEMMA RegisterInd == ASSUME TypeInv, IndInv, NEW c \in Readers, NEW p \in Places, Registers(c, p) PROVE IndInv'
<1> DEFINE pc == IF table[p] = 0 THEN "create" ELSE "unregister"
<1>1. table[p] \in 0..MaxJobs /\ 0 \in 0..MaxJobs /\ pc \in {"unregister", "create", "deserialize"}
  BY CountAssumption DEF TypeInv, TypeOK
<1>2. Begin(c, p, pc, table[p], 0) /\ reader[c].pc = "recv" /\ reader[c].at = NoPlace
  BY DEF Registers, TypeInv, PlaceInv
<1>3. /\ UNCHANGED <<table, made, live, held>>
      /\ raced' = IF \E d \in Readers \ {c} : Registering(d, p) THEN raced \cup {p} ELSE raced
  BY DEF Registers
<1>4. /\ reader'[c].pc = pc /\ reader'[c].at = p /\ reader'[c].node = table[p]
      /\ reader'[c].met <=> \E d \in Readers \ {c} : Working(d, p)
      /\ \A d \in Readers \ {c} :
            /\ reader'[d].pc = reader[d].pc /\ reader'[d].at = reader[d].at
            /\ reader'[d].node = reader[d].node /\ reader'[d].msg = reader[d].msg
            /\ reader'[d].met <=> reader[d].met \/ Working(d, p)
  BY <1>1, <1>2, BeginFacts DEF TypeInv
<1>5. (pc = "create" /\ table[p] = 0) \/ (pc = "unregister" /\ table[p] # 0)
  OBVIOUS
<1> HIDE DEF pc
<1>6. \A q \in Places : ~Working(c, q)
  BY <1>2, PlaceFacts DEF Working
<1>7. \A d \in Readers \ {c}, q \in Places : (Working(d, q)' <=> Working(d, q)) /\ (Registering(d, q)' <=> Registering(d, q))
  BY <1>4 DEF Working, Registering
<1>8. Working(c, p)' /\ Registering(c, p)' /\ \A q \in Places : Working(c, q)' \/ Registering(c, q)' => q = p
  BY <1>4, <1>5 DEF Working, Registering
<1>9. FreshInv'
  BY <1>3, <1>4, <1>7, <1>8 DEF IndInv, FreshInv
<1>10. OwnInv'
  <2>1. 0 \notin live[p]
    BY CountAssumption DEF TypeInv, TypeOK, Nodes
  <2> QED  BY <2>1, <1>3, <1>4, <1>5, <1>7, <1>8 DEF IndInv, OwnInv, At, Registering
<1>11. MetInv'
  BY <1>3, <1>4, <1>6, <1>7, <1>8 DEF IndInv, MetInv
<1>12. DeadInv'
  BY <1>2, <1>3, <1>4 DEF IndInv, DeadInv, At
<1>13. QuietInv'
  <2> SUFFICES ASSUME NEW q \in Places, q \notin raced', q[1] # "rosService"
               PROVE  /\ \A d \in Readers :
                            /\ At(d, q, "unregister")' => live'[q] = {reader'[d].node}
                            /\ At(d, q, "create")' => live'[q] = {}
                            /\ At(d, q, "store")' => live'[q] = {reader'[d].node}
                      /\ live'[q] = InTable(q)' \/ \E d \in Readers : Registering(d, q)'
    BY DEF QuietInv
  <2>1. CASE q = p
    <3>1. ~\E d \in Readers \ {c} : Registering(d, p)
      BY <1>3, <2>1
    <3>2. ~Registering(c, p)
      BY <1>2, PlaceFacts DEF Registering
    <3>3. p \notin raced
      BY <1>3, <2>1
    <3>4. live[p] = InTable(p)
      BY <2>1, <3>1, <3>2, <3>3 DEF IndInv, QuietInv
    <3>5. \A d \in Readers : Registering(d, p)' => d = c
      BY <1>7, <3>1
    <3> QED  BY <1>3, <1>4, <1>5, <1>8, <2>1, <3>4, <3>5 DEF At, Registering, InTable
  <2>2. CASE q # p
    <3>1. q \notin raced
      BY <1>3
    <3>2. \A d \in Readers, x \in {"unregister", "create", "store"} : At(d, q, x)' => At(d, q, x) /\ reader'[d].node = reader[d].node
      BY <1>4, <2>2 DEF At
    <3>3. \A d \in Readers : Registering(d, q) => Registering(d, q)'
      BY <1>2, <1>7, PlaceFacts DEF Registering
    <3> QED  BY <1>3, <3>1, <3>2, <3>3 DEF IndInv, QuietInv, InTable
  <2> QED  BY <2>1, <2>2
<1>14. UnityInv'
  BY <1>2, <1>3, <1>4 DEF IndInv, UnityInv, At
<1>15. AloneInv'
  BY <1>3, <1>4, <1>5, <1>7, <1>8 DEF IndInv, AloneInv, At, Sending, Working
<1> QED  BY <1>9, <1>10, <1>11, <1>12, <1>13, <1>14, <1>15 DEF IndInv

LEMMA ReadInd == ASSUME TypeInv, IndInv, NEW c \in Readers, NEW t \in Topics, Reads(c, t) PROVE IndInv'
<1> DEFINE p == <<"publisher", t>>
<1>1. p \in Places /\ p[1] = "publisher"
  BY DEF Places, Kinds
<1>2. Begin(c, p, "deserialize", table[p], jobs') /\ reader[c].pc = "recv" /\ reader[c].at = NoPlace /\ table[p] # 0
  BY DEF Reads, TypeInv, PlaceInv
<1>3. UNCHANGED <<table, made, live, held, raced>>
  BY DEF Reads
<1> HIDE DEF p
<1>4. table[p] \in 0..MaxJobs /\ jobs' \in 0..MaxJobs
  BY <1>1, CountAssumption DEF Reads, TypeInv, TypeOK
<1>5. /\ reader'[c].pc = "deserialize" /\ reader'[c].at = p /\ reader'[c].node = table[p]
      /\ reader'[c].met <=> \E d \in Readers \ {c} : Working(d, p)
      /\ \A d \in Readers \ {c} :
            /\ reader'[d].pc = reader[d].pc /\ reader'[d].at = reader[d].at
            /\ reader'[d].node = reader[d].node /\ reader'[d].msg = reader[d].msg
            /\ reader'[d].met <=> reader[d].met \/ Working(d, p)
  BY <1>1, <1>2, <1>4, BeginFacts DEF TypeInv
<1>6. \A q \in Places : ~Working(c, q) /\ ~Registering(c, q) /\ ~Registering(c, q)'
  BY <1>2, <1>5, PlaceFacts DEF Working, Registering
<1>7. \A d \in Readers \ {c}, q \in Places : (Working(d, q)' <=> Working(d, q)) /\ (Registering(d, q)' <=> Registering(d, q))
  BY <1>5 DEF Working, Registering
<1>8. Working(c, p)' /\ \A q \in Places : Working(c, q)' => q = p
  BY <1>5 DEF Working
<1>9. FreshInv'
  BY <1>3, <1>5, <1>7, <1>8 DEF IndInv, FreshInv
<1>10. OwnInv'
  BY <1>3, <1>5, <1>6, <1>7 DEF IndInv, OwnInv, At, Registering
<1>11. MetInv'
  BY <1>3, <1>5, <1>6, <1>7, <1>8 DEF IndInv, MetInv
<1>12. DeadInv'
  BY <1>2, <1>3, <1>5 DEF IndInv, DeadInv, At
<1>13. QuietInv'
  <2>1. \A d \in Readers, q \in Places, x \in {"unregister", "create", "store"} :
           At(d, q, x)' => At(d, q, x) /\ reader'[d].node = reader[d].node
    BY <1>5 DEF At
  <2>2. \A d \in Readers, q \in Places : Registering(d, q) => Registering(d, q)'
    BY <1>6, <1>7
  <2> QED  BY <1>3, <2>1, <2>2 DEF IndInv, QuietInv, InTable
<1>14. UnityInv'
  BY <1>2, <1>3, <1>5 DEF IndInv, UnityInv, At
\* Nobody else is there, so the publisher in the table is not being replaced.
<1>15. AloneInv'
  <2>1. ~reader'[c].met => table[p] \in live[p]
    BY <1>1, <1>2, <1>5, <1>6 DEF IndInv, DeadInv, At, Working
  <2> QED  BY <2>1, <1>3, <1>5, <1>7, <1>8 DEF IndInv, AloneInv, At, Sending, Working
<1> QED  BY <1>9, <1>10, <1>11, <1>12, <1>13, <1>14, <1>15 DEF IndInv

LEMMA UnregisterInd == ASSUME TypeInv, IndInv, NEW c \in Readers, Unregisters(c) PROVE IndInv'
<1>0. PICK p \in Places, n \in Nodes : reader[c].at = p /\ reader[c].node = n
  BY DEF Unregisters, TypeInv, TypeOK, PlaceInv, Threads
<1>1. /\ reader[c].pc = "unregister" /\ reader[c].at = p /\ reader[c].node = n
      /\ UNCHANGED <<table, made, held, raced>>
      /\ live' = [live EXCEPT ![p] = @ \ {n}]
  BY <1>0 DEF Unregisters
<1>2. /\ reader'[c].pc = "create" /\ reader'[c].at = p /\ reader'[c].node = n
      /\ reader'[c].met = reader[c].met
      /\ \A d \in Readers \ {c} : reader'[d] = reader[d]
  BY <1>0, GotoFacts DEF Unregisters, TypeInv
<1>3. /\ live'[p] = live[p] \ {n}
      /\ \A q \in Places : live'[q] \subseteq live[q] /\ (q # p => live'[q] = live[q])
  BY <1>1 DEF TypeInv, TypeOK
<1>4. \A d \in Readers, q \in Places :
         /\ Working(d, q)' <=> Working(d, q)
         /\ Registering(d, q)' <=> Registering(d, q)
         /\ At(d, q, "store")' <=> At(d, q, "store")
         /\ Sending(d, q)' <=> Sending(d, q)
         /\ reader'[d].node = reader[d].node /\ reader'[d].met = reader[d].met
  BY <1>1, <1>2 DEF Working, Registering, At, Sending
<1>5. Working(c, p) /\ Registering(c, p) /\ reader[c].node = n /\ \A q \in Places : Working(c, q) => q = p
  BY <1>1 DEF Working, Registering
<1>6. FreshInv'
  BY <1>1, <1>3, <1>4 DEF IndInv, FreshInv
<1>7. OwnInv'
  BY <1>1, <1>2, <1>3, <1>4, <1>5 DEF IndInv, OwnInv, At
<1>8. MetInv'
  BY <1>1, <1>4 DEF IndInv, MetInv
<1>9. DeadInv'
  <2> SUFFICES ASSUME NEW q \in Places, q[1] # "rosService", table[q] # 0, table[q] \notin live'[q]
               PROVE  \E d \in Readers : At(d, q, "store")' \/ (At(d, q, "create")' /\ reader'[d].node = table[q])
    BY <1>1 DEF DeadInv
  <2>1. CASE table[q] \in live[q]
    BY <2>1, <1>2, <1>3 DEF At
  <2>2. CASE table[q] \notin live[q]
    BY <2>2, <1>1, <1>2, <1>4 DEF IndInv, DeadInv, At
  <2> QED  BY <2>1, <2>2
<1>10. QuietInv'
  <2>1. \A q \in Places, d \in Readers \ {c} : q \notin raced /\ Registering(d, q) => q # p
    BY <1>5 DEF IndInv, MetInv, Working, Registering
  <2>2. \A d \in Readers \ {c}, q \in Places, x \in {"unregister", "create", "store"} : At(d, q, x)' <=> At(d, q, x)
    BY <1>2 DEF At
  <2>3. \A d \in Readers, q \in Places : At(d, q, "unregister") \/ At(d, q, "create") \/ At(d, q, "store") => Registering(d, q)
    BY DEF At, Registering
  <2>4. At(c, p, "unregister") /\ \A q \in Places : ~At(c, q, "unregister")' /\ ~At(c, q, "store")'
    BY <1>1, <1>2 DEF At
  <2>5. \A q \in Places : At(c, q, "create")' => q = p
    BY <1>2 DEF At
  <2>6. p \notin raced /\ p[1] # "rosService" => live'[p] = {}
    BY <1>1, <1>3, <1>5, <2>4 DEF IndInv, QuietInv
  <2>7. Registering(c, p)'
    BY <1>4, <1>5
  <2> SUFFICES ASSUME NEW q \in Places, q \notin raced, q[1] # "rosService"
               PROVE  /\ \A d \in Readers :
                            /\ At(d, q, "unregister")' => live'[q] = {reader'[d].node}
                            /\ At(d, q, "create")' => live'[q] = {}
                            /\ At(d, q, "store")' => live'[q] = {reader'[d].node}
                      /\ live'[q] = InTable(q)' \/ \E d \in Readers : Registering(d, q)'
    BY <1>1 DEF QuietInv
  <2>8. CASE q = p
    BY <2>8, <2>1, <2>2, <2>3, <2>4, <2>6, <2>7
  <2>9. CASE q # p
    BY <2>9, <1>1, <1>3, <1>4, <2>2, <2>4, <2>5 DEF IndInv, QuietInv, InTable
  <2> QED  BY <2>8, <2>9
<1>11. UnityInv'
  BY <1>1, <1>3, <1>4 DEF IndInv, UnityInv
<1>12. AloneInv'
  <2>1. \A d \in Readers, q \in Places : At(d, q, "publish")' => At(d, q, "publish") /\ reader'[d].msg = reader[d].msg
    BY <1>2 DEF At
  <2>2. \A d \in Readers : Working(d, p) /\ ~reader[d].met => d = c
    BY <1>1, <1>5 DEF IndInv, MetInv
  <2>3. \A q \in Places : ~Sending(c, q)
    BY <1>1 DEF Sending, At
  <2>4. \A d \in Readers : reader'[d].pc # "store" => reader[d].pc # "store"
    BY <1>1, <1>2
  <2> QED  BY <1>1, <1>3, <1>4, <2>1, <2>2, <2>3, <2>4 DEF IndInv, AloneInv
<1> QED  BY <1>6, <1>7, <1>8, <1>9, <1>10, <1>11, <1>12 DEF IndInv

\* A second communicator of a service offered by Unity: the reader raises.
LEMMA RefusedInd ==
    ASSUME TypeInv, IndInv, NEW c \in Readers, reader[c].pc = "create", Goto(c, "raised"),
           reader[c].at[1] = "unityService", live[reader[c].at] # {},
           UNCHANGED <<table, made, live, held, raced>>
    PROVE  IndInv' /\ reader[c].met
<1>0. PICK p \in Places : reader[c].at = p
  BY DEF TypeInv, TypeOK, PlaceInv, Threads
<1>1. At(c, p, "create")
  BY <1>0 DEF At
<1>2. reader'[c].pc = "raised" /\ \A d \in Readers \ {c} : reader'[d] = reader[d]
  BY GotoFacts DEF TypeInv
<1>3. p[1] = "unityService" /\ live[p] # {}
  BY <1>0
<1>4. PICK m \in live[p] : TRUE
  BY <1>3
<1>5. m = table[p] \/ \E d \in Readers : At(d, p, "store")
  BY <1>1, <1>3, <1>4 DEF IndInv, UnityInv
<1>6. \A d \in Readers : At(d, p, "store") => d # c /\ Working(d, p) /\ Registering(d, p)
  BY <1>1 DEF At, Working, Registering
<1>7. Working(c, p) /\ Registering(c, p) /\ \A q \in Places : ~Working(c, q)' /\ ~Registering(c, q)' /\ (Registering(c, q) => q = p)
  BY <1>1, <1>2 DEF At, Working, Registering
<1>8. p \in raced
  BY <1>1, <1>3 DEF IndInv, QuietInv
<1>9. \A d \in Readers \ {c}, q \in Places : (Working(d, q)' <=> Working(d, q)) /\ (Registering(d, q)' <=> Registering(d, q))
  BY <1>2 DEF Working, Registering
<1>10. FreshInv'
  BY <1>7, <1>9, <1>2 DEF IndInv, FreshInv
<1>11. OwnInv'
  BY <1>2, <1>7, <1>9 DEF IndInv, OwnInv, At
<1>12. MetInv'
  BY <1>2, <1>7, <1>9 DEF IndInv, MetInv
\* It is not the one that replaces a dead entry.
<1>13. DeadInv'
  <2>1. \A q \in Places, d \in Readers : (At(d, q, "store") => At(d, q, "store")') /\ (d # c /\ At(d, q, "create") => At(d, q, "create")' /\ reader'[d].node = reader[d].node)
    BY <1>1, <1>2 DEF At
  <2>2. \A q \in Places : At(c, q, "create") => q = p
    BY <1>1 DEF At
  <2> QED  BY <1>4, <1>5, <2>1, <2>2 DEF IndInv, DeadInv
<1>14. QuietInv'
  <2>1. \A q \in Places, d \in Readers, x \in {"unregister", "create", "store"} :
           At(d, q, x)' => At(d, q, x) /\ reader'[d].node = reader[d].node
    BY <1>2 DEF At
  <2>2. \A q \in Places, d \in Readers : q # p /\ Registering(d, q) => Registering(d, q)'
    BY <1>7, <1>9
  <2> QED  BY <1>8, <2>1, <2>2 DEF IndInv, QuietInv, InTable
<1>15. UnityInv'
  <2>1. \A q \in Places, d \in Readers : At(d, q, "store") => At(d, q, "store")' /\ reader'[d].node = reader[d].node
    BY <1>1, <1>2 DEF At
  <2> QED  BY <2>1 DEF IndInv, UnityInv
<1>16. AloneInv'
  <2>1. \A d \in Readers, q \in Places : Working(d, q)' => d # c /\ Working(d, q) /\ reader'[d] = reader[d]
    BY <1>2, <1>7, <1>9
  <2>2. \A d \in Readers, q \in Places : reader'[d] = reader[d] => (Sending(d, q)' <=> Sending(d, q)) /\ (At(d, q, "publish")' <=> At(d, q, "publish"))
    BY DEF Sending, At
  <2> QED  BY <2>1, <2>2 DEF IndInv, AloneInv
\* If it had met nobody the entry would be the one it has unregistered.
<1>17. reader[c].met
  <2>1. CASE \E d \in Readers : At(d, p, "store")
    BY <1>1, <1>6, <1>7, <2>1 DEF IndInv, MetInv
  <2>2. CASE m = table[p]
    BY <1>1, <1>4, <1>7, <2>2 DEF IndInv, OwnInv, AloneInv, At
  <2> QED  BY <1>5, <2>1, <2>2
<1> QED  BY <1>10, <1>11, <1>12, <1>13, <1>14, <1>15, <1>16, <1>17 DEF IndInv

\* The new communicator n of p.
Enters(c, p, n) ==
    /\ At(c, p, "create") /\ (p[1] # "unityService" \/ live[p] = {})
    /\ n = made[p] + 1 /\ made' = [made EXCEPT ![p] = n]
    /\ live' = [live EXCEPT ![p] = IF p[1] = "rosService" THEN @ ELSE @ \cup {n}]
    /\ reader' = [reader EXCEPT ![c].pc = "store", ![c].node = n]
    /\ UNCHANGED <<table, held, raced>>

LEMMA CreateInd ==
    ASSUME TypeInv, IndInv, NEW c \in Readers, NEW p \in Places, NEW n \in Nodes, Enters(c, p, n)
    PROVE  IndInv'
<1>0. At(c, p, "create") /\ (p[1] # "unityService" \/ live[p] = {}) /\ n = made[p] + 1
      /\ UNCHANGED <<table, held, raced>>
  BY DEF Enters
<1>1. /\ made'[p] = n /\ \A q \in Places : q # p => made'[q] = made[q] /\ live'[q] = live[q]
      /\ p[1] # "rosService" => live'[p] = live[p] \cup {n}
      /\ p[1] = "rosService" => live'[p] = live[p]
      /\ made[p] \in Nat
  BY CountAssumption DEF Enters, TypeInv, TypeOK
<1>2. /\ reader'[c].pc = "store" /\ reader'[c].at = p /\ reader'[c].node = n
      /\ reader'[c].met = reader[c].met /\ reader'[c].msg = reader[c].msg
      /\ \A d \in Readers \ {c} : reader'[d] = reader[d]
  <2>1. reader[c] \in Threads /\ reader' = [reader EXCEPT ![c] = [reader[c] EXCEPT !.pc = "store", !.node = n]]
    BY DEF Enters, TypeInv, TypeOK
  <2> QED  BY <1>0, <2>1 DEF TypeInv, TypeOK, Threads, At
<1>3. \A d \in Readers, q \in Places :
         /\ Working(d, q)' <=> Working(d, q)
         /\ Registering(d, q)' <=> Registering(d, q)
         /\ Sending(d, q)' <=> Sending(d, q)
         /\ reader'[d].met = reader[d].met
         /\ d # c => \A x \in {"unregister", "create", "store", "publish"} : At(d, q, x)' <=> At(d, q, x)
  BY <1>0, <1>2 DEF Working, Registering, At, Sending
<1>4. Working(c, p) /\ Registering(c, p) /\ \A q \in Places : Working(c, q) \/ Registering(c, q) => q = p
  BY <1>0 DEF At, Working, Registering
<1>5. \A q \in Places : ~At(c, q, "unregister")' /\ ~At(c, q, "create")' /\ ~At(c, q, "publish")' /\ (At(c, q, "store")' <=> q = p)
                        /\ ~At(c, q, "store") /\ ~Sending(c, q)
  BY <1>0, <1>2 DEF At, Sending
<1>6. live[p] \subseteq 1..made[p] /\ table[p] <= made[p] /\ \A d \in Readers : Working(d, p) => reader[d].node <= made[p]
  BY DEF IndInv, FreshInv
<1>7. FreshInv'
  <2> SUFFICES ASSUME NEW q \in Places
               PROVE  /\ live'[q] \subseteq 1..made'[q] /\ table'[q] <= made'[q]
                      /\ \A d \in Readers : Working(d, q)' => reader'[d].node <= made'[q]
    BY <1>0 DEF FreshInv
  <2>1. CASE q = p
    <3>1. live'[p] \subseteq 1..n /\ table[p] <= n
      BY <1>0, <1>1, <1>6 DEF TypeInv, TypeOK
    <3>2. ASSUME NEW d \in Readers, d # c, Working(d, p)
          PROVE  reader[d].node <= n
      <4>1. reader[d].node \in Nat /\ reader[d].node <= made[p]
        BY <1>0, <1>6, <3>2 DEF TypeInv, TypeOK, Threads
      <4> QED  BY <1>0, <4>1, <1>1
    <3> QED  BY <1>0, <1>1, <1>2, <1>3, <2>1, <3>1, <3>2
  <2>2. CASE q # p
    BY <1>0, <1>1, <1>2, <1>3, <1>4, <2>2 DEF IndInv, FreshInv
  <2> QED  BY <1>0, <2>1, <2>2
\* The number is new: none of the others has it, and it is not in the table.
<1>8. OwnInv'
  <2>1. table[p] # n /\ \A d \in Readers : Working(d, p) => reader[d].node # n
    BY <1>0, <1>1, <1>6
  <2>2. \A d \in Readers : Registering(d, p) => Working(d, p)
    BY DEF Registering, Working
  <2>3. \A d \in Readers : At(d, p, "store") => Registering(d, p)
    BY DEF Registering, At
  <2>4. \A d \in Readers : At(d, p, "create") => Working(d, p)
    BY DEF Working, At
  <2> SUFFICES ASSUME NEW d \in Readers, NEW q \in Places
               PROVE  /\ At(d, q, "store")' =>
                            /\ q[1] # "rosService" => reader'[d].node \in live'[q]
                            /\ reader'[d].node # table'[q]
                            /\ \A e \in Readers : e # d /\ Registering(e, q)' => reader'[e].node # reader'[d].node
                      /\ At(d, q, "create")' => reader'[d].node \notin live'[q]
    BY <1>0 DEF OwnInv
  <2>5. CASE q # p
    BY <1>0, <1>1, <1>2, <1>3, <1>4, <1>5, <2>5 DEF IndInv, OwnInv
  <2>6. CASE q = p /\ d = c
    BY <1>0, <1>1, <1>2, <1>3, <1>5, <2>1, <2>2, <2>6
  <2>7. CASE q = p /\ d # c
    <3>1. At(d, p, "store")' => At(d, p, "store") /\ reader'[d].node # n
      BY <1>0, <1>2, <1>3, <2>1, <2>2, <2>3, <2>7
    <3>2. At(d, p, "create")' => At(d, p, "create") /\ reader'[d].node # n
      BY <1>0, <1>2, <1>3, <2>1, <2>4, <2>7
    <3> QED  BY <1>0, <1>1, <1>2, <1>3, <2>7, <3>1, <3>2 DEF IndInv, OwnInv
  <2> QED  BY <1>0, <2>5, <2>6, <2>7
<1>9. MetInv'
  BY <1>0, <1>3 DEF IndInv, MetInv
<1>10. DeadInv'
  <2> SUFFICES ASSUME NEW q \in Places, q[1] # "rosService", table[q] # 0, table[q] \notin live'[q]
               PROVE  \E d \in Readers : At(d, q, "store")' \/ (At(d, q, "create")' /\ reader'[d].node = table[q])
    BY <1>0 DEF DeadInv
  <2>1. CASE q = p
    BY <1>0, <1>5, <2>1
  <2>2. CASE q # p
    <3>1. \A d \in Readers : At(d, q, "create") => d # c
      BY <1>0, <2>2 DEF At
    <3> QED  BY <1>0, <1>1, <1>2, <1>3, <1>5, <2>2, <3>1 DEF IndInv, DeadInv
  <2> QED  BY <1>0, <2>1, <2>2
<1>11. QuietInv'
  <2> SUFFICES ASSUME NEW q \in Places, q \notin raced, q[1] # "rosService"
               PROVE  /\ \A d \in Readers :
                            /\ At(d, q, "unregister")' => live'[q] = {reader'[d].node}
                            /\ At(d, q, "create")' => live'[q] = {}
                            /\ At(d, q, "store")' => live'[q] = {reader'[d].node}
                      /\ live'[q] = InTable(q)' \/ \E d \in Readers : Registering(d, q)'
    BY <1>0 DEF QuietInv
  <2>1. CASE q = p
    <3>1. live[p] = {}
      BY <1>0, <2>1 DEF IndInv, QuietInv
    <3>2. live'[p] = {n}
      BY <1>0, <1>1, <2>1, <3>1
    <3>3. \A d \in Readers \ {c} : ~Registering(d, p)
      BY <1>0, <1>4, <2>1 DEF IndInv, MetInv, Working, Registering
    <3>4. \A d \in Readers \ {c} : ~At(d, p, "unregister") /\ ~At(d, p, "create") /\ ~At(d, p, "store")
      BY <1>0, <3>3 DEF At, Registering
    <3> QED  BY <1>0, <1>2, <1>3, <1>4, <1>5, <2>1, <3>2, <3>4
  <2>2. CASE q # p
    <3>1. InTable(q)' = InTable(q)
      BY <1>0 DEF InTable
    <3>2. \A d \in Readers, x \in {"unregister", "create", "store"} :
             At(d, q, x)' => At(d, q, x) /\ reader'[d].node = reader[d].node
      BY <1>2, <1>3, <1>5, <2>2
    <3>3. live'[q] = live[q] /\ \A d \in Readers : Registering(d, q)' <=> Registering(d, q)
      BY <1>1, <1>3, <2>2
    <3> QED  BY <3>1, <3>2, <3>3 DEF IndInv, QuietInv
  <2> QED  BY <1>0, <2>1, <2>2
<1>12. UnityInv'
  <2> SUFFICES ASSUME NEW q \in Places, q[1] = "unityService"
               PROVE  /\ \A m, k \in live'[q] : m = k
                      /\ \A k \in live'[q] : k = table[q] \/ \E d \in Readers : At(d, q, "store")' /\ reader'[d].node = k
    BY <1>0 DEF UnityInv
  <2>1. CASE q = p
    <3>1. live'[p] = {n}
      BY <1>0, <1>1, <2>1
    <3> QED  BY <1>0, <1>2, <1>5, <2>1, <3>1
  <2>2. CASE q # p
    BY <1>0, <1>1, <1>2, <1>3, <1>5, <2>2 DEF IndInv, UnityInv
  <2> QED  BY <1>0, <2>1, <2>2
<1>13. AloneInv'
  <2> SUFFICES ASSUME NEW d \in Readers, NEW q \in Places, Working(d, q)', ~reader'[d].met
               PROVE  /\ reader'[d].pc # "store" => reader'[d].node = table[q]
                      /\ Sending(d, q)' => reader'[d].node \in live'[q]
                      /\ At(d, q, "publish")' => held[q][reader'[d].node] = reader'[d].msg
    BY <1>0 DEF AloneInv
  <2>1. CASE d = c
    BY <1>0, <1>2, <1>3, <1>5, <2>1
  <2>2. CASE d # c
    BY <1>0, <1>1, <1>2, <1>3, <2>2 DEF IndInv, AloneInv
  <2> QED  BY <1>0, <2>1, <2>2
<1> QED  BY <1>0, <1>7, <1>8, <1>9, <1>10, <1>11, <1>12, <1>13 DEF IndInv

LEMMA StoreInd == ASSUME TypeInv, IndInv, NEW c \in Readers, Stores(c) PROVE IndInv'
<1>1. PICK p \in Places, n \in Nodes : reader[c].at = p /\ reader[c].node = n
  BY DEF Stores, TypeInv, TypeOK, PlaceInv, Threads
<1>2. At(c, p, "store") /\ n # 0
  BY <1>1 DEF Stores, At, Nodes
<1>3. /\ table'[p] = n /\ \A q \in Places : q # p => table'[q] = table[q]
      /\ UNCHANGED <<made, live, held, raced>>
  BY <1>1 DEF Stores, TypeInv, TypeOK
<1>4. /\ reader'[c] = Idle /\ reader'[c].pc = "recv" /\ reader'[c].at = NoPlace
      /\ \A d \in Readers \ {c} : reader'[d] = reader[d]
  BY IdleFacts, LoopFacts DEF Stores, Loop, TypeInv
<1>5. \A q \in Places : /\ ~Working(c, q)' /\ ~Registering(c, q)' /\ ~Sending(c, q)'
                        /\ \A x \in {"unregister", "create", "store", "publish"} : ~At(c, q, x)'
  BY <1>4, PlaceFacts DEF Working, Registering, Sending, At
<1>6. \A d \in Readers \ {c}, q \in Places :
         /\ Working(d, q)' <=> Working(d, q)
         /\ Registering(d, q)' <=> Registering(d, q)
         /\ Sending(d, q)' <=> Sending(d, q)
         /\ \A x \in {"unregister", "create", "store", "publish"} : At(d, q, x)' <=> At(d, q, x)
  BY <1>4 DEF Working, Registering, Sending, At
<1>7. Working(c, p) /\ Registering(c, p) /\ \A q \in Places : Working(c, q) \/ Registering(c, q) \/ At(c, q, "store") => q = p
  BY <1>2 DEF At, Working, Registering
<1>8. /\ p[1] # "rosService" => n \in live[p]
      /\ \A d \in Readers : d # c /\ Registering(d, p) => reader[d].node # n
      /\ n <= made[p]
  BY <1>1, <1>2, <1>7 DEF IndInv, OwnInv, FreshInv
<1>9. FreshInv'
  BY <1>3, <1>4, <1>5, <1>6, <1>8 DEF IndInv, FreshInv
<1>10. OwnInv'
  <2>1. \A d \in Readers : At(d, p, "store") => Registering(d, p)
    BY DEF At, Registering
  <2>2. \A d \in Readers, q \in Places : At(d, q, "store")' => reader'[d].node # table'[q]
    <3> SUFFICES ASSUME NEW d \in Readers, NEW q \in Places, At(d, q, "store")'
                 PROVE  reader'[d].node # table'[q]
      OBVIOUS
    <3>1. d # c /\ At(d, q, "store") /\ reader'[d] = reader[d]
      BY <1>4, <1>5, <1>6
    <3>2. CASE q = p
      BY <1>3, <1>8, <2>1, <3>1, <3>2
    <3>3. CASE q # p
      BY <1>3, <3>1, <3>3 DEF IndInv, OwnInv
    <3> QED  BY <3>2, <3>3
  <2> QED  BY <1>3, <1>4, <1>5, <1>6, <2>2 DEF IndInv, OwnInv
<1>11. MetInv'
  BY <1>3, <1>4, <1>5, <1>6 DEF IndInv, MetInv
<1>12. DeadInv'
  <2> SUFFICES ASSUME NEW q \in Places, q[1] # "rosService", table'[q] # 0, table'[q] \notin live[q]
               PROVE  \E d \in Readers : At(d, q, "store")' \/ (At(d, q, "create")' /\ reader'[d].node = table'[q])
    BY <1>3 DEF DeadInv
  <2>1. q # p
    BY <1>3, <1>8
  <2>2. \A d \in Readers : At(d, q, "store") \/ At(d, q, "create") => d # c
    BY <1>1, <2>1 DEF At
  <2> QED  BY <1>3, <1>4, <1>6, <2>1, <2>2 DEF IndInv, DeadInv
<1>13. QuietInv'
  <2> SUFFICES ASSUME NEW q \in Places, q \notin raced, q[1] # "rosService"
               PROVE  /\ \A d \in Readers :
                            /\ At(d, q, "unregister")' => live[q] = {reader'[d].node}
                            /\ At(d, q, "create")' => live[q] = {}
                            /\ At(d, q, "store")' => live[q] = {reader'[d].node}
                      /\ live[q] = InTable(q)' \/ \E d \in Readers : Registering(d, q)'
    BY <1>3 DEF QuietInv
  <2>1. CASE q = p
    <3>1. live[p] = {n}
      BY <1>1, <1>2, <2>1 DEF IndInv, QuietInv
    <3>2. live[p] = InTable(p)'
      BY <1>2, <1>3, <3>1 DEF InTable
    <3>3. \A d \in Readers \ {c} : ~Registering(d, p)
      BY <1>7, <2>1 DEF IndInv, MetInv, Working, Registering
    <3>4. \A d \in Readers \ {c} : ~At(d, p, "unregister") /\ ~At(d, p, "create") /\ ~At(d, p, "store")
      BY <3>3 DEF At, Registering
    <3> QED  BY <1>5, <1>6, <2>1, <3>2, <3>4
  <2>2. CASE q # p
    <3>1. \A d \in Readers : Registering(d, q) => Registering(d, q)'
      BY <1>6, <1>7, <2>2
    <3>2. InTable(q)' = InTable(q)
      BY <1>3, <2>2 DEF InTable
    <3> QED  BY <1>4, <1>5, <1>6, <2>2, <3>1, <3>2 DEF IndInv, QuietInv
  <2> QED  BY <2>1, <2>2
<1>14. UnityInv'
  <2> SUFFICES ASSUME NEW q \in Places, q[1] = "unityService"
               PROVE  /\ \A m, k \in live[q] : m = k
                      /\ \A k \in live[q] : k = table'[q] \/ \E d \in Readers : At(d, q, "store")' /\ reader'[d].node = k
    BY <1>3 DEF UnityInv
  <2>1. CASE q = p
    BY <1>3, <1>8, <2>1 DEF IndInv, UnityInv
  <2>2. CASE q # p
    <3>1. \A d \in Readers : At(d, q, "store") => d # c
      BY <1>7, <2>2
    <3> QED  BY <1>3, <1>4, <1>6, <2>2, <3>1 DEF IndInv, UnityInv
  <2> QED  BY <2>1, <2>2
\* Whoever else is there has met this one.
<1>15. AloneInv'
  <2> SUFFICES ASSUME NEW d \in Readers, NEW q \in Places, Working(d, q)', ~reader'[d].met
               PROVE  /\ reader'[d].pc # "store" => reader'[d].node = table'[q]
                      /\ Sending(d, q)' => reader'[d].node \in live[q]
                      /\ At(d, q, "publish")' => held[q][reader'[d].node] = reader'[d].msg
    BY <1>3 DEF AloneInv
  <2>1. d # c /\ Working(d, q) /\ reader'[d] = reader[d]
    BY <1>4, <1>5, <1>6
  <2>2. q # p
    BY <1>7, <2>1 DEF IndInv, MetInv
  <2> QED  BY <1>3, <1>6, <2>1, <2>2 DEF IndInv, AloneInv
<1> QED  BY <1>9, <1>10, <1>11, <1>12, <1>13, <1>14, <1>15 DEF IndInv

LEMMA DeserializeInd == ASSUME TypeInv, IndInv, NEW c \in Readers, Deserializes(c) PROVE IndInv'
<1>1. PICK p \in Places, n \in Nodes : reader[c].at = p /\ reader[c].node = n
  BY DEF Deserializes, TypeInv, TypeOK, PlaceInv, Threads
<1>2. reader[c].pc = "deserialize" /\ UNCHANGED <<table, made, live, raced>>
  BY DEF Deserializes
<1>3. held'[p][n] = reader[c].msg /\ \A q \in Places, m \in Nodes : q # p => held'[q][m] = held[q][m]
  BY <1>1 DEF Deserializes, TypeInv, TypeOK
<1>4. /\ reader'[c].pc = "publish" /\ reader'[c].at = p /\ reader'[c].node = n
      /\ reader'[c].msg = reader[c].msg /\ reader'[c].met = reader[c].met
      /\ \A d \in Readers \ {c} : reader'[d] = reader[d]
  BY <1>1, GotoFacts DEF Deserializes, TypeInv
<1>5. \A d \in Readers, q \in Places :
         /\ Working(d, q)' <=> Working(d, q)
         /\ Registering(d, q)' <=> Registering(d, q)
         /\ Sending(d, q)' <=> Sending(d, q)
         /\ \A x \in {"unregister", "create", "store"} : At(d, q, x)' <=> At(d, q, x)
         /\ reader'[d].node = reader[d].node /\ reader'[d].met = reader[d].met
  BY <1>1, <1>2, <1>4 DEF Working, Registering, Sending, At
<1>6. Working(c, p) /\ Sending(c, p) /\ \A q \in Places : Working(c, q) => q = p
  BY <1>1, <1>2 DEF Working, Sending, At
<1>7. FreshInv' /\ OwnInv' /\ MetInv'
  BY <1>2, <1>5 DEF IndInv, FreshInv, OwnInv, MetInv
<1>8. DeadInv' /\ UnityInv'
  BY <1>2, <1>5 DEF IndInv, DeadInv, UnityInv
<1>9. QuietInv'
  BY <1>2, <1>5 DEF IndInv, QuietInv, InTable
<1>10. AloneInv'
  <2> SUFFICES ASSUME NEW d \in Readers, NEW q \in Places, Working(d, q)', ~reader'[d].met
               PROVE  /\ reader'[d].pc # "store" => reader'[d].node = table[q]
                      /\ Sending(d, q)' => reader'[d].node \in live[q]
                      /\ At(d, q, "publish")' => held'[q][reader'[d].node] = reader'[d].msg
    BY <1>2 DEF AloneInv
  <2>1. Working(d, q) /\ ~reader[d].met
    BY <1>5
  <2>2. CASE d = c
    BY <1>2, <1>3, <1>4, <1>5, <1>6, <2>1, <2>2 DEF IndInv, AloneInv
  <2>3. CASE d # c
    <3>1. q # p
      BY <1>6, <2>1, <2>3 DEF IndInv, MetInv
    <3>2. reader'[d] = reader[d] /\ (At(d, q, "publish")' => At(d, q, "publish") /\ reader[d].node \in Nodes)
      BY <1>4, <2>3 DEF At, TypeInv, PlaceInv
    <3> QED  BY <1>3, <1>5, <2>1, <3>1, <3>2 DEF IndInv, AloneInv
  <2> QED  BY <2>2, <2>3
<1> QED  BY <1>7, <1>8, <1>9, <1>10 DEF IndInv

\* Nobody else touches what IndInv is about; the calls have objects of their own.
LEMMA RestInd ==
    ASSUME TypeInv, IndInv, UNCHANGED <<table, made, live, reader, raced>>,
           \A p \in Places, n \in Nodes : p[1] # "rosService" => held'[p][n] = held[p][n]
    PROVE  IndInv'
<1>1. FreshInv' /\ OwnInv' /\ MetInv'
  BY DEF IndInv, FreshInv, OwnInv, MetInv, Working, Registering, At
<1>2. DeadInv' /\ UnityInv'
  BY DEF IndInv, DeadInv, UnityInv, At
<1>3. QuietInv'
  BY DEF IndInv, QuietInv, InTable, Registering, At
<1>4. AloneInv'
  <2>1. \A c \in Readers, p \in Places : At(c, p, "publish") => held'[p][reader[c].node] = held[p][reader[c].node]
    BY DEF TypeInv, PlaceInv, Sending, At
  <2> QED  BY <2>1 DEF IndInv, AloneInv, Working, Sending, At
<1> QED  BY <1>1, <1>2, <1>3, <1>4 DEF IndInv

LEMMA ReaderInd == ASSUME TypeInv, IndInv, NEW c \in Readers, Reader(c) PROVE IndInv'
<1>1. CASE Connects(c) \/ Closes(c)
  <2>1. PICK v \in {Idle, Closed} : reader' = [reader EXCEPT ![c] = v]
    BY <1>1 DEF Connects, Closes, Loop
  <2>2. reader'[c] = v /\ \A d \in Readers \ {c} : reader'[d] = reader[d]
    BY <2>1, IdleFacts, LoopFacts DEF TypeInv
  <2>3. /\ reader[c].pc \notin {"unregister", "create", "store"}
        /\ UNCHANGED <<table, made, live, held, raced>>
    BY <1>1 DEF Connects, Closes
  <2> QED  BY <2>2, <2>3, IdleFacts, LeaveInd
<1>2. CASE Creates(c)
  <2>1. PICK p \in Places : reader[c].at = p
    BY <1>2 DEF Creates, Refused, Joined, TypeInv, TypeOK, PlaceInv, Threads
  <2>2. CASE p[1] = "unityService" /\ live[p] # {}
    BY <1>2, <2>1, <2>2, RefusedInd DEF Creates, Refused, Joined, Raise
  <2>3. CASE p[1] # "unityService" \/ live[p] = {}
    <3>1. made[p] + 1 \in Nodes /\ Enters(c, p, made[p] + 1)
      BY <1>2, <2>1, <2>3 DEF Creates, Refused, Joined, Enters, At
    <3> QED  BY <3>1, CreateInd
  <2> QED  BY <2>2, <2>3
<1>3. CASE Publishes(c)
  <2>1. /\ reader[c].pc = "publish" /\ UNCHANGED <<table, made, live, held, raced>>
        /\ Loop(c) \/ Goto(c, "raised")
    BY <1>3 DEF Publishes, Raise
  <2>2. CASE Loop(c)
    <3>1. reader'[c] = Idle /\ \A d \in Readers \ {c} : reader'[d] = reader[d]
      BY <2>2, IdleFacts, LoopFacts DEF Loop, TypeInv
    <3> QED  BY <2>1, <3>1, IdleFacts, LeaveInd
  <2>3. CASE Goto(c, "raised")
    <3>1. reader'[c].pc = "raised" /\ \A d \in Readers \ {c} : reader'[d] = reader[d]
      BY <2>3, GotoFacts DEF TypeInv
    <3> QED  BY <2>1, <3>1, LeaveInd
  <2> QED  BY <2>1, <2>2, <2>3
<1>4. ASSUME NEW t \in Topics, Serves(c, t)
      PROVE  IndInv'
  BY <1>4, RestInd DEF Serves
<1> QED
  BY <1>1, <1>2, <1>3, <1>4, RegisterInd, ReadInd, UnregisterInd, StoreInd, DeserializeInd DEF Reader

LEMMA NextInd == TypeInv /\ IndInv /\ [Next]_vars => IndInv'
<1> SUFFICES ASSUME TypeInv, IndInv, [Next]_vars
             PROVE  IndInv'
  OBVIOUS
<1>1. ASSUME NEW r \in Calls, Takes(r) \/ Attempts(r)
      PROVE  IndInv'
  <2>1. PICK p \in Places, n \in Nodes : call[r].at = p /\ call[r].node = n /\ p[1] = "rosService"
    BY <1>1 DEF Takes, Attempts, TypeInv, PlaceInv, Using
  <2>2. \A q \in Places, m \in Nodes : q[1] # "rosService" => held'[q][m] = held[q][m]
    BY <1>1, <2>1 DEF Takes, Attempts, TypeInv, TypeOK
  <2>3. UNCHANGED <<table, made, live, reader, raced>>
    BY <1>1 DEF Takes, Attempts, CallOnly
  <2> QED  BY <2>2, <2>3, RestInd
<1>2. ASSUME NEW t \in Topics, Receives(t)
      PROVE  IndInv'
  BY <1>2, RestInd DEF Receives
<1>3. CASE UNCHANGED vars
  BY <1>3, RestInd DEF vars
<1> QED  BY <1>1, <1>2, <1>3, ReaderInd DEF Next

\* Between two registrations of a name ROS knows the communicator in the table
\* and no other, unless two connections have registered it at once; and of a
\* service offered by Unity there is never a second one even then.
THEOREM TablesAlwaysTellRos == Spec => []TablesTellRos
<1>1. IndInv => TablesTellRos
  <2> SUFFICES ASSUME IndInv, NEW p \in Places, p[1] # "rosService", p \notin raced \/ p[1] = "unityService",
                      ~\E c \in Readers : Registering(c, p)
               PROVE  live[p] = InTable(p)
    BY DEF TablesTellRos
  <2>1. CASE p \notin raced
    BY <2>1 DEF IndInv, QuietInv
  <2>2. CASE p[1] = "unityService"
    <3>1. \A c \in Readers : ~At(c, p, "store") /\ ~At(c, p, "create")
      BY DEF At, Registering
    <3>2. \A n \in live[p] : n = table[p]
      BY <2>2, <3>1 DEF IndInv, UnityInv
    <3>3. table[p] = 0 \/ table[p] \in live[p]
      BY <2>2, <3>1 DEF IndInv, DeadInv
    <3>4. \A n \in live[p] : n # 0
      BY DEF IndInv, FreshInv
    <3> QED  BY <3>2, <3>3, <3>4 DEF InTable
  <2> QED  BY <2>1, <2>2
<1> QED  BY <1>1, InitType, InitInd, NextType, NextInd, PTL DEF Spec
-----------------------------------------------------------------------------
(* What the connections and the calls get *)

\* A step of one reader leaves the others where they are, and they have still
\* met whom they have met.
LEMMA OthersKeep ==
    ASSUME TypeInv, NEW c \in Readers, NEW d \in Readers \ {c}, Reader(c)
    PROVE  reader'[d].pc = reader[d].pc /\ (reader[d].met => reader'[d].met)
<1>1. ASSUME NEW p \in Places, Registers(c, p)
      PROVE  reader'[d].pc = reader[d].pc /\ (reader[d].met => reader'[d].met)
  <2>1. table[p] \in 0..MaxJobs /\ 0 \in 0..MaxJobs
    BY CountAssumption DEF TypeInv, TypeOK
  <2>2. \E pc \in {"unregister", "create", "deserialize"} : Begin(c, p, pc, table[p], 0)
    BY <1>1 DEF Registers
  <2> QED  BY <2>1, <2>2, BeginFacts DEF TypeInv
<1>2. ASSUME NEW t \in Topics, Reads(c, t)
      PROVE  reader'[d].pc = reader[d].pc /\ (reader[d].met => reader'[d].met)
  <2>1. PICK p \in Places : Begin(c, p, "deserialize", table[p], jobs')
    BY <1>2, PlaceFacts DEF Reads, Kinds
  <2>2. table[p] \in 0..MaxJobs /\ jobs' \in 0..MaxJobs
    BY <1>2, CountAssumption DEF Reads, TypeInv, TypeOK
  <2> QED  BY <2>1, <2>2, BeginFacts DEF TypeInv
<1>3. ASSUME NEW t \in Topics, Serves(c, t)
      PROVE  UNCHANGED reader
  BY <1>3 DEF Serves
<1>4. CASE Connects(c) \/ Closes(c) \/ Stores(c)
  BY <1>4 DEF Connects, Closes, Stores, Loop, TypeInv, TypeOK
<1>5. CASE Unregisters(c) \/ Deserializes(c)
  BY <1>5 DEF Unregisters, Deserializes, Goto, TypeInv, TypeOK
<1>6. CASE Publishes(c)
  BY <1>6 DEF Publishes, Raise, Loop, Goto, TypeInv, TypeOK
<1>7. CASE Creates(c)
  BY <1>7 DEF Creates, Refused, Joined, Raise, Goto, TypeInv, TypeOK
<1> QED  BY <1>1, <1>2, <1>3, <1>4, <1>5, <1>6, <1>7 DEF Reader

\* A step of a reader that raises is a second service or a dead publisher.
LEMMA RaiseFacts ==
    ASSUME TypeInv, IndInv, NEW c \in Readers, Reader(c), reader'[c].pc = "raised"
    PROVE  reader'[c].met \/ UNCHANGED reader
<1>0. reader \in [Readers -> Threads]
  BY DEF TypeInv, TypeOK
<1>1. CASE Creates(c)
  <2>1. CASE reader[c].at[1] = "unityService" /\ live[reader[c].at] # {}
    <3>1. Goto(c, "raised") /\ reader[c].pc = "create" /\ UNCHANGED <<table, made, live, held, raced>>
      BY <1>1, <2>1 DEF Creates, Refused, Joined, Raise
    <3>2. reader[c].met
      BY <2>1, <3>1, RefusedInd
    <3> QED  BY <3>1, <3>2, GotoFacts DEF TypeInv
  <2>2. CASE ~(reader[c].at[1] = "unityService" /\ live[reader[c].at] # {})
    <3>1. reader' = [reader EXCEPT ![c].pc = "store", ![c].node = made[reader[c].at] + 1]
      BY <1>1, <2>2 DEF Creates, Refused, Joined
    <3>2. reader'[c].pc = "store"
      BY <1>0, <3>1 DEF Threads
    <3> QED  BY <3>2
  <2> QED  BY <2>1, <2>2
<1>2. CASE Publishes(c)
  <2>1. PICK p \in Places, n \in Nodes : reader[c].at = p /\ reader[c].node = n
    BY <1>2 DEF Publishes, TypeInv, TypeOK, PlaceInv, Threads
  <2>2. CASE n \in live[p]
    BY <1>0, <1>2, <2>1, <2>2, IdleFacts DEF Publishes, Loop
  <2>3. CASE n \notin live[p]
    <3>1. Working(c, p) /\ Sending(c, p)
      BY <1>2, <2>1 DEF Publishes, Working, Sending, At
    <3>2. reader[c].met
      BY <2>1, <2>3, <3>1 DEF IndInv, AloneInv
    <3>3. Goto(c, "raised")
      BY <1>2, <2>1, <2>3 DEF Publishes, Raise
    <3> QED  BY <3>2, <3>3, GotoFacts DEF TypeInv
  <2> QED  BY <2>2, <2>3
<1>3. CASE Connects(c) \/ Closes(c) \/ Stores(c)
  BY <1>0, <1>3, IdleFacts DEF Connects, Closes, Stores, Loop
<1>4. CASE Unregisters(c) \/ Deserializes(c)
  BY <1>4, GotoFacts DEF Unregisters, Deserializes, TypeInv
<1>5. ASSUME NEW p \in Places, Registers(c, p)
      PROVE  reader'[c].pc # "raised"
  <2>1. PICK pc \in {"unregister", "create"} : Begin(c, p, pc, table[p], 0)
    BY <1>5 DEF Registers
  <2> QED  BY <2>1 DEF Begin
<1>6. ASSUME NEW t \in Topics, Reads(c, t)
      PROVE  reader'[c].pc # "raised"
  BY <1>6 DEF Reads, Begin
<1>7. ASSUME NEW t \in Topics, Serves(c, t)
      PROVE  UNCHANGED reader
  BY <1>7 DEF Serves
<1> QED  BY <1>1, <1>2, <1>3, <1>4, <1>5, <1>6, <1>7 DEF Reader

LEMMA NextRaises == TypeInv /\ IndInv /\ RaisesOnlyIfMet /\ [Next]_vars => RaisesOnlyIfMet'
<1> SUFFICES ASSUME TypeInv, IndInv, RaisesOnlyIfMet, [Next]_vars, NEW c \in Readers, reader'[c].pc = "raised"
             PROVE  reader'[c].met
  BY DEF RaisesOnlyIfMet
<1>1. UNCHANGED reader => reader'[c].met
  BY DEF RaisesOnlyIfMet
<1>2. CASE Reader(c)
  BY <1>1, <1>2, RaiseFacts
<1>3. ASSUME NEW d \in Readers \ {c}, Reader(d)
      PROVE  reader'[c].met
  BY <1>3, OthersKeep DEF RaisesOnlyIfMet
<1>4. (\E r \in Calls : Takes(r) \/ Attempts(r)) \/ (\E t \in Topics : Receives(t)) \/ UNCHANGED vars => UNCHANGED reader
  BY DEF Takes, Attempts, CallOnly, Receives, vars
<1> QED  BY <1>1, <1>2, <1>3, <1>4 DEF Next

\* A connection is lost to an exception only if another was at the same name
\* at once: alone, a registration finds its predecessor gone from ROS and a
\* message finds its publisher registered.
THEOREM ConnectionsRaiseOnlyIfMet == Spec => []RaisesOnlyIfMet
<1>1. Init => RaisesOnlyIfMet
  BY IdleFacts DEF Init, RaisesOnlyIfMet
<1> QED  BY <1>1, InitType, InitInd, NextType, NextInd, NextRaises, PTL DEF Spec

\* What Unity sends for a topic is what goes out, unless another connection was
\* at the topic meanwhile: the message object of the publisher is shared.
THEOREM AlwaysPublishesOwn == Spec => PublishesOwn
<1>1. TypeInv /\ IndInv /\ [Next]_vars =>
         [\A c \in Readers :
             reader[c].pc = "publish" /\ ~reader[c].met /\ reader'[c].pc # "publish" =>
                 out'[reader[c].at[2]] = reader[c].msg]_vars
  <2> SUFFICES ASSUME TypeInv, IndInv, Next, NEW c \in Readers,
                      reader[c].pc = "publish", ~reader[c].met, reader'[c].pc # "publish"
               PROVE  out'[reader[c].at[2]] = reader[c].msg
    BY Zenon
  <2>1. Publishes(c)
    <3>1. \A d \in Readers : Reader(d) => d = c
      BY OthersKeep
    <3>2. Reader(c)
      BY <3>1 DEF Next, Takes, Attempts, CallOnly, Receives
    <3> QED  BY <3>2 DEF Reader, Connects, Closes, Registers, Unregisters, Creates, Stores, Reads, Serves, Deserializes
  <2>2. PICK p \in Places, n \in Nodes : reader[c].at = p /\ reader[c].node = n
    BY DEF TypeInv, TypeOK, PlaceInv, Threads
  <2>3. Working(c, p) /\ Sending(c, p) /\ At(c, p, "publish")
    BY <2>2 DEF Working, Sending, At
  <2>4. n \in live[p] /\ held[p][n] = reader[c].msg
    BY <2>2, <2>3 DEF IndInv, AloneInv
  <2>5. out' = [out EXCEPT ![p[2]] = held[p][n]] /\ p[2] \in Topics
    BY <2>1, <2>2, <2>4, PlaceFacts DEF Publishes
  <2> QED  BY <2>2, <2>4, <2>5 DEF TypeInv, TypeOK
<1> QED  BY <1>1, InitType, InitInd, NextType, NextInd, PTL DEF Spec, PublishesOwn

\* A call that takes the object of its communicator has met whoever uses it.
LEMMA ServeCall ==
    ASSUME TypeInv, CallInv, NEW c \in Readers, NEW t \in Topics, Serves(c, t)
    PROVE  CallInv'
<1> DEFINE p == <<"rosService", t>>
           others == {r \in Calls : Using(r) /\ call[r].at = p /\ call[r].node = table[p]}
           met == others # {}
           new == [NoCall EXCEPT !.pc = "deserialize", !.at = p, !.node = table[p], !.met = met]
<1>1. call' = [r \in Calls |-> IF r = jobs' THEN new
                               ELSE IF r \in others THEN [call[r] EXCEPT !.met = TRUE] ELSE call[r]]
  BY DEF Serves, Using
<1>2. UNCHANGED held
  BY DEF Serves
<1>3. met <=> \E s \in Calls : s \in others
  OBVIOUS
<1>4. \A r \in Calls : r \in others <=> Using(r) /\ call[r].at = p /\ call[r].node = table[p]
  OBVIOUS
<1> HIDE DEF others, met
<1>5. new.pc = "deserialize" /\ new.at = p /\ new.node = table[p] /\ new.met = met
  BY DEF NoCall
<1> HIDE DEF p, new
<1>6. ASSUME NEW r \in Calls, r # jobs'
      PROVE  /\ call'[r].pc = call[r].pc /\ call'[r].at = call[r].at /\ call'[r].node = call[r].node
             /\ call'[r].got = call[r].got
             /\ call[r].met \/ r \in others => call'[r].met
             /\ call'[r].met => call[r].met \/ r \in others
  <2>1. call[r] \in CallThreads
    BY DEF TypeInv, TypeOK
  <2>2. call'[r] = IF r \in others THEN [call[r] EXCEPT !.met = TRUE] ELSE call[r]
    BY <1>1, <1>6
  <2>3. CASE r \in others
    BY <2>1, <2>2, <2>3 DEF CallThreads
  <2>4. CASE r \notin others
    <3>1. call'[r] = call[r]
      BY <2>2, <2>4
    <3> QED  BY <3>1, <2>4
  <2> QED  BY <2>3, <2>4
<1>7. jobs' \in Calls => call'[jobs'] = new
  BY <1>1
<1>8. ASSUME NEW r \in Calls, NEW s \in Calls, r # s, Using(r)', Using(s)',
             call'[r].at = call'[s].at, call'[r].node = call'[s].node
      PROVE  call'[r].met
  <2>1. CASE r = jobs'
    <3>1. s \in others
      BY <1>4, <1>5, <1>6, <1>7, <1>8, <2>1 DEF Using
    <3> QED  BY <1>3, <1>5, <1>7, <2>1, <3>1, Zenon
  <2>2. CASE r # jobs' /\ s = jobs'
    <3>1. r \in others
      BY <1>4, <1>5, <1>6, <1>7, <1>8, <2>2 DEF Using
    <3> QED  BY <1>6, <2>2, <3>1
  <2>3. CASE r # jobs' /\ s # jobs'
    BY <1>6, <1>8, <2>3 DEF CallInv, Using
  <2> QED  BY <2>1, <2>2, <2>3
<1>9. ASSUME NEW r \in Calls, call'[r].pc = "calling", ~call'[r].met
      PROVE  held'[call'[r].at][call'[r].node] = r
  <2>1. r # jobs'
    BY <1>5, <1>7, <1>9
  <2> QED  BY <1>2, <1>6, <1>9, <2>1 DEF CallInv
<1>10. AnswersOwn'
  BY <1>5, <1>6, <1>7 DEF CallInv, AnswersOwn
<1> QED  BY <1>8, <1>9, <1>10 DEF CallInv

LEMMA NextCall == TypeInv /\ CallInv /\ [Next]_vars => CallInv'
<1> SUFFICES ASSUME TypeInv, CallInv, [Next]_vars
             PROVE  CallInv'
  OBVIOUS
<1>0. call \in [Calls -> CallThreads] /\ held \in [Places -> [Nodes -> Nat]]
  BY DEF TypeInv, TypeOK
<1>1. ASSUME NEW r \in Calls, Takes(r)
      PROVE  CallInv'
  <2>1. PICK p \in Places, n \in Nodes : call[r].at = p /\ call[r].node = n
    BY <1>1 DEF Takes, TypeInv, PlaceInv, Using
  <2>2. /\ call'[r].pc = "calling" /\ call'[r].at = p /\ call'[r].node = n /\ call'[r].met = call[r].met
        /\ \A s \in Calls : s # r => call'[s] = call[s]
    BY <1>0, <1>1, <2>1 DEF Takes, CallThreads
  <2>3. held'[p][n] = r /\ \A q \in Places, m \in Nodes : q # p \/ m # n => held'[q][m] = held[q][m]
    BY <1>0, <1>1, <2>1 DEF Takes
  <2>4. Using(r)
    BY <1>1 DEF Takes, Using
  <2>5. ASSUME NEW s \in Calls, call'[s].pc = "calling", ~call'[s].met, s # r
        PROVE  held'[call'[s].at][call'[s].node] = s
    <3>1. Using(s) /\ call'[s] = call[s]
      BY <2>2, <2>5 DEF Using
    <3>2. call[s].at \in Places /\ call[s].node \in Nodes
      BY <3>1 DEF TypeInv, PlaceInv
    <3>3. call[s].at # p \/ call[s].node # n
      BY <2>1, <2>4, <2>5, <3>1 DEF CallInv
    <3> QED  BY <2>3, <2>5, <3>1, <3>2, <3>3 DEF CallInv
  <2>6. \A s \in Calls : /\ Using(s)' <=> Using(s)
                         /\ call'[s].at = call[s].at /\ call'[s].node = call[s].node /\ call'[s].met = call[s].met
    BY <2>1, <2>2, <2>4 DEF Using
  <2>7. \A r1, s \in Calls : r1 # s /\ Using(r1)' /\ Using(s)' /\ call'[r1].at = call'[s].at /\ call'[r1].node = call'[s].node
                               => call'[r1].met
    BY <2>6 DEF CallInv
  <2>8. AnswersOwn'
    BY <2>2 DEF CallInv, AnswersOwn
  <2> QED  BY <2>2, <2>3, <2>5, <2>7, <2>8 DEF CallInv
<1>2. ASSUME NEW r \in Calls, Attempts(r)
      PROVE  CallInv'
  <2>1. call[r].pc = "calling" /\ call[r] \in CallThreads /\ UNCHANGED held
    BY <1>0, <1>2 DEF Attempts
  <2>2. /\ \/ call'[r].pc = "answered" /\ call'[r].got = held[call[r].at][call[r].node]
           \/ call'[r].pc \in {"calling", "failed"}
        /\ call'[r].at = call[r].at /\ call'[r].node = call[r].node /\ call'[r].met = call[r].met
        /\ \A s \in Calls : s # r => call'[s] = call[s]
    BY <1>0, <1>2 DEF Attempts, CallThreads
  <2>3. \A s \in Calls : /\ Using(s)' => Using(s)
                         /\ call'[s].pc = "calling" => call[s].pc = "calling"
                         /\ call'[s].at = call[s].at /\ call'[s].node = call[s].node /\ call'[s].met = call[s].met
    BY <2>1, <2>2 DEF Using
  <2>4. AnswersOwn'
    BY <2>1, <2>2 DEF CallInv, AnswersOwn
  <2>5. \A r1, s \in Calls : r1 # s /\ Using(r1)' /\ Using(s)' /\ call'[r1].at = call'[s].at /\ call'[r1].node = call'[s].node
                               => call'[r1].met
    BY <2>3 DEF CallInv
  <2>6. \A s \in Calls : call'[s].pc = "calling" /\ ~call'[s].met => held'[call'[s].at][call'[s].node] = s
    BY <2>1, <2>3 DEF CallInv
  <2> QED  BY <2>4, <2>5, <2>6 DEF CallInv
\* A publisher's message object is no call's request object.
<1>3. ASSUME NEW c \in Readers, Deserializes(c)
      PROVE  CallInv'
  <2>1. PICK p \in Places : reader[c].at = p /\ p[1] = "publisher"
    BY <1>3 DEF Deserializes, TypeInv, TypeOK, PlaceInv, Threads, Sending, At
  <2>2. \A q \in Places : q[1] = "rosService" => held'[q] = held[q]
    BY <1>0, <1>3, <2>1 DEF Deserializes
  <2>3. \A r \in Calls : Using(r) => call[r].at \in Places /\ call[r].at[1] = "rosService"
    BY DEF TypeInv, PlaceInv
  <2>4. UNCHANGED call
    BY <1>3 DEF Deserializes
  <2>5. \A r \in Calls : call[r].pc = "calling" /\ ~call[r].met => held'[call[r].at][call[r].node] = r
    BY <2>2, <2>3 DEF CallInv, Using
  <2> QED  BY <2>4, <2>5 DEF CallInv, AnswersOwn, Using
<1>4. UNCHANGED <<call, held>> => CallInv'
  BY DEF CallInv, AnswersOwn, Using
<1>5. ASSUME NEW c \in Readers, Reader(c)
      PROVE  CallInv'
  BY <1>3, <1>4, <1>5, ServeCall
     DEF Reader, Connects, Closes, Registers, Unregisters, Creates, Stores, Reads, Publishes
<1>6. ASSUME NEW t \in Topics, Receives(t)
      PROVE  CallInv'
  BY <1>4, <1>6 DEF Receives
<1>7. CASE UNCHANGED vars
  BY <1>4, <1>7 DEF vars
<1> QED  BY <1>1, <1>2, <1>5, <1>6, <1>7 DEF Next

\* A ROS service answers the request that was made, unless two calls of it
\* overlapped and shared the request object of its communicator.
THEOREM AlwaysAnswersOwn == Spec => []AnswersOwn
<1>1. Init => CallInv
  BY DEF Init, CallInv, AnswersOwn, Using, NoCall
<1>2. CallInv => AnswersOwn
  BY DEF CallInv
<1> QED  BY <1>1, <1>2, InitType, NextType, NextCall, PTL DEF Spec

\* A ROS message is passed to Unity once, unless two connections have
\* subscribed to its topic at once: otherwise one subscriber at most is
\* registered at a time, even while it is replaced.
THEOREM AlwaysPassedOnce == Spec => []PassedOnce
<1>1. Init => PassedOnce
  BY DEF Init, PassedOnce
<1>2. ASSUME IndInv, NEW t \in Topics, <<"subscriber", t>> \notin raced
      PROVE  \A m, n \in live[<<"subscriber", t>>] : m = n
  <2>1. PICK p \in Places : p = <<"subscriber", t>> /\ p[1] # "rosService"
    BY PlaceFacts DEF Kinds
  <2>2. live[p] = InTable(p) \/ live[p] = {} \/ \E n : live[p] = {n}
    <3>1. \A c \in Readers : Registering(c, p) => At(c, p, "unregister") \/ At(c, p, "create") \/ At(c, p, "store")
      BY DEF Registering, At
    <3> QED  BY <1>2, <2>1, <3>1 DEF IndInv, QuietInv
  <2> QED  BY <2>1, <2>2 DEF InTable
<1>3. raced \subseteq raced' \/ ~[Next]_vars
  BY DEF Next, vars, Reader, Connects, Closes, Registers, Unregisters, Creates, Stores, Reads, Publishes,
         Serves, Deserializes, Takes, Attempts, CallOnly, Receives
<1>4. ASSUME NEW t \in Topics, Receives(t)
      PROVE  through' = [through EXCEPT ![t] = live[<<"subscriber", t>>]] /\ UNCHANGED raced
  BY <1>4 DEF Receives
<1>5. [Next]_vars => UNCHANGED through \/ \E t \in Topics : Receives(t)
  BY DEF Next, vars, Reader, Connects, Closes, Registers, Unregisters, Creates, Stores, Reads, Publishes,
         Serves, Deserializes, Takes, Attempts, CallOnly
<1>6. TypeInv /\ IndInv /\ PassedOnce /\ [Next]_vars => PassedOnce'
  <2> SUFFICES ASSUME TypeInv, IndInv, PassedOnce, [Next]_vars, NEW t \in Topics, <<"subscriber", t>> \notin raced'
               PROVE  \A m, n \in through'[t] : m = n
    BY DEF PassedOnce
  <2>1. <<"subscriber", t>> \notin raced
    BY <1>3
  <2>2. through \in [Topics -> SUBSET Nodes]
    BY DEF TypeInv, TypeOK
  <2>3. through'[t] = through[t] \/ through'[t] = live[<<"subscriber", t>>]
    BY <1>4, <1>5, <2>2
  <2> QED  BY <1>2, <2>1, <2>3 DEF PassedOnce
<1> QED  BY <1>1, <1>6, InitType, InitInd, NextType, NextInd, PTL DEF Spec

=============================================================================
