-------------------------- MODULE CaptureLogProofs --------------------------
(***************************************************************************)
(* Proofs about CaptureLog, for every number of captures, samples and      *)
(* trimmed rows.                                                           *)
(***************************************************************************)
EXTENDS CaptureLog, SequenceTheorems, TLAPS

Owner == pc["owner"]
Hook  == pc["hook"]

\* The attributes are those of the last capture, and none while one is being opened.
AttrInv ==
    /\ file \in {0, session} /\ writer \in {0, file} /\ {start, path} \subseteq {0, session}
    /\ Owner \in {"play", "writer", "header", "start"} => start = 0 /\ path = 0
    /\ Owner = "play" => session < MaxSessions /\ file = 0
    /\ Owner \in {"writer", "header", "start"} => session # 0
    /\ js.pc = "checked" => clock < MaxRows
    /\ js.pc \in {"stamped", "fetched"} => session # 0 /\ Owner \notin {"writer", "header", "start"}
    /\ js.pc = "fetched" => js.to = session

\* Who closes a capture closes the last one, and no other is opened meanwhile; only the last
\* is open, and only that of the attribute while the node is up.
Closing(c) == pc[c] \in {"close", "trim", "truncate", "rewrite"}
OpenInv ==
    /\ \A c \in Closers : Closing(c) => session # 0 /\ Owner # "play"
    /\ \A c \in Closers : pc[c] \in {"trim", "truncate", "rewrite"} => ~open[session]
    /\ \A k \in Sessions : open[k] => k = session
    /\ \A k \in Sessions : Owner = "play" => ~open[k]
    /\ NodeUp => \A k \in Sessions : open[k] => file = k /\ Owner # "reset"

\* Rows with a header, and a header only at the start.
WithHeader(rows) == \A i \in 1..Len(rows) : rows[i].kind = "header" <=> i = 1

\* No capture holds a sample before its header, and none is written to before it has one.
HeaderInv ==
    /\ \A k \in Sessions : WithHeader(disk[k])
    /\ \A k \in Sessions : k > session => disk[k] = <<>> /\ log[k] = <<>>
    /\ Owner \in {"writer", "header"} => disk[session] = <<>> /\ log[session] = <<>>
    /\ start # 0 \/ Owner = "start" \/ js.pc \in {"stamped", "fetched"} =>
          disk[session] # <<>> \/ ~open[session]
    /\ \A c \in Closers : pc[c] \in {"truncate", "rewrite"} =>
          /\ read[c].to = session /\ WithHeader(read[c].rows) /\ Len(read[c].rows) - 1 > TrimRows
          /\ Owner \notin {"play", "writer", "header", "start"}

\* The rows of a log as they were written, and as they are left.
Untrimmed(rows, times) ==
    /\ Len(rows) = Len(times) + 1 /\ rows[1] = Header
    /\ \A i \in 1..Len(times) : rows[i + 1] = Sample(times[i])
Left(times) ==
    LET n == Len(times) IN
    IF n <= TrimRows THEN <<Header>> \o [i \in 1..n |-> Sample(times[i])]
    ELSE <<Header>> \o [i \in 1..(n - TrimRows) |-> Sample(times[i + TrimRows] - times[1 + TrimRows])]

\* While the node is up a capture holds its samples untrimmed until it is trimmed, once.
RowsInv ==
    NodeUp =>
        /\ \A k \in Sessions : k < session \/ (k = session /\ (file = 0 \/ Owner = "reset")) => disk[k] = Left(log[k])
        /\ file # 0 /\ Owner \in {"start", "idle", "close", "trim"} => Untrimmed(disk[session], log[session])
        /\ file # 0 /\ Owner \in {"idle", "close", "trim"} => path = session
        /\ Owner \in {"truncate", "rewrite"} => Untrimmed(read["owner"].rows, log[session])
        /\ Owner \in {"writer", "header", "start", "close", "trim", "truncate", "rewrite"} => file # 0
        /\ Owner \in {"header", "start"} => writer = file
        /\ Owner \in {"writer", "header"} => open[session]
        /\ Owner # "raised" /\ (file = 0 => start = 0 /\ path = 0)

-----------------------------------------------------------------------------
(* Types *)

\* Where a closer goes, the other one being left where it is.
LEMMA Goes == ASSUME TypeOK, NEW c \in Closers, NEW l, Goto(c, l)
              PROVE  pc'[c] = l /\ \A d \in Closers : d # c => pc'[d] = pc[d]
BY DEF TypeOK, Goto

\* The initial state.
LEMMA InitAll == Init => TypeOK /\ AttrInv /\ OpenInv /\ HeaderInv /\ RowsInv
<1> SUFFICES ASSUME Init PROVE TypeOK /\ AttrInv /\ OpenInv /\ HeaderInv /\ RowsInv
  OBVIOUS
<1>1. TypeOK
  <2>1. {file, writer, start, path, session} \subseteq 0..MaxSessions /\ clock \in 0..MaxRows
    BY BoundAssumption DEF Init
  <2>2. open \in [Sessions -> BOOLEAN] /\ disk \in [Sessions -> Seq(Rows)] /\ log \in [Sessions -> Seq(Nat)]
    BY DEF Init
  <2>3. js \in [pc: {"idle", "checked", "stamped", "fetched"}, time: 0..MaxRows, to: 0..MaxSessions]
    BY BoundAssumption DEF Init, JsIdle
  <2>4. Nothing \in [to: 0..MaxSessions, rows: Seq(Rows)]
    BY BoundAssumption DEF Nothing
  <2>5. read \in [Closers -> [to: 0..MaxSessions, rows: Seq(Rows)]]
    BY <2>4 DEF Init
  <2> QED  BY <2>1, <2>2, <2>3, <2>5 DEF Init, TypeOK
<1>2. Owner = "idle" /\ Hook = "idle"
  BY DEF Init, Owner, Hook, Closers
<1>3. AttrInv
  BY <1>2 DEF Init, AttrInv, JsIdle
<1>4. OpenInv
  BY <1>2 DEF Init, OpenInv, Closing
<1>5. HeaderInv
  BY <1>2 DEF Init, HeaderInv, WithHeader, JsIdle
<1>6. RowsInv
  BY <1>2 DEF Init, RowsInv, Sessions
<1> QED  BY <1>1, <1>3, <1>4, <1>5, <1>6

\* A header, and a sample, at the end of a file.
LEMMA RowTypes == /\ Header \in Rows
                  /\ \A t \in Int : Sample(t) \in Rows
                  /\ \A s \in Seq(Rows), r \in Rows :
                        /\ Append(s, r) \in Seq(Rows) /\ Len(Append(s, r)) = Len(s) + 1
                        /\ \A i \in 1..Len(s) : Append(s, r)[i] = s[i]
                        /\ Append(s, r)[Len(s) + 1] = r
BY DEF Header, Sample, Rows

\* What is left of a file with more rows than are trimmed.
LEMMA TrimmedRows == ASSUME NEW rows \in Seq(Rows), Len(rows) - 1 > TrimRows
    PROVE  /\ Trimmed(rows) \in Seq(Rows) /\ Len(Trimmed(rows)) = Len(rows) - TrimRows
           /\ Trimmed(rows)[1] = Header
           /\ \A i \in 1..(Len(rows) - TrimRows - 1) :
                 Trimmed(rows)[i + 1] = Sample(rows[i + TrimRows + 1].time - rows[TrimRows + 2].time)
<1> DEFINE n    == Len(rows)
           kept == SubSeq(rows, TrimRows + 2, n)
           data == [i \in 1..Len(kept) |-> Sample(kept[i].time - kept[1].time)]
<1>1. n \in Nat /\ TrimRows \in Nat \ {0} /\ n - 1 > TrimRows
  BY BoundAssumption, LenProperties
<1>2. \A i \in (TrimRows + 2)..n : rows[i] \in Rows
  <2>1. ASSUME NEW i \in (TrimRows + 2)..n PROVE i \in 1..Len(rows)
    BY <1>1
  <2> QED  BY <2>1, ElementOfSeq
<1>3. /\ kept \in Seq(Rows) /\ Len(kept) = n - TrimRows - 1
      /\ \A i \in 1..(n - TrimRows - 1) : kept[i] = rows[TrimRows + 1 + i]
  <2>1. TrimRows + 2 \in Int /\ n \in Int /\ TrimRows + 2 <= n
    BY <1>1
  <2> HIDE DEF n
  <2>2. /\ kept \in Seq(Rows) /\ Len(kept) = n - (TrimRows + 2) + 1
        /\ \A i \in 1..(n - (TrimRows + 2) + 1) : kept[i] = rows[(TrimRows + 2) + i - 1]
    BY <1>2, <2>1, SubSeqProperties
  <2>3. \A i \in 1..(n - TrimRows - 1) : i \in 1..(n - (TrimRows + 2) + 1) /\ (TrimRows + 2) + i - 1 = TrimRows + 1 + i
    BY <1>1
  <2>4. n - (TrimRows + 2) + 1 = n - TrimRows - 1
    BY <1>1
  <2> QED  BY <2>2, <2>3, <2>4
<1> HIDE DEF kept, n
<1>4. \A i \in 1..Len(kept) : kept[i].time - kept[1].time \in Int
  <2>1. 1 \in 1..Len(kept)
    BY <1>1, <1>3
  <2>2. \A i \in 1..Len(kept) : kept[i] \in Rows
    BY <1>3, ElementOfSeq
  <2> QED  BY <2>1, <2>2 DEF Rows
<1>5. data \in Seq(Rows) /\ Len(data) = n - TrimRows - 1
  <2>1. n - TrimRows - 1 \in Nat /\ Len(kept) = n - TrimRows - 1
    BY <1>1, <1>3
  <2>2. data \in [1..Len(kept) -> Rows]
    BY <1>4, RowTypes
  <2>3. data \in Seq(Rows)
    BY <2>1, <2>2, SeqDef
  <2>4. DOMAIN data = 1..Len(kept)
    OBVIOUS
  <2> HIDE DEF data
  <2>5. DOMAIN data = 1..Len(data) /\ Len(data) \in Nat
    BY <2>3, LenProperties
  <2> QED  BY <2>1, <2>3, <2>4, <2>5
<1>6. Trimmed(rows) = <<Header>> \o data
  BY DEF Trimmed, kept, n
<1>7. \A i \in 1..(n - TrimRows - 1) : data[i] = Sample(rows[i + TrimRows + 1].time - rows[TrimRows + 2].time)
  <2> SUFFICES ASSUME NEW i \in 1..(n - TrimRows - 1)
               PROVE  data[i] = Sample(rows[i + TrimRows + 1].time - rows[TrimRows + 2].time)
    OBVIOUS
  <2>1. data[i] = Sample(kept[i].time - kept[1].time)
    BY <1>3
  <2>2. 1 \in 1..(n - TrimRows - 1) /\ TrimRows + 1 + 1 = TrimRows + 2 /\ TrimRows + 1 + i = i + TrimRows + 1
    BY <1>1
  <2>3. kept[i] = rows[i + TrimRows + 1] /\ kept[1] = rows[TrimRows + 2]
    BY <1>3, <2>2
  <2> QED  BY <2>1, <2>3
<1> HIDE DEF data
<1>8. <<Header>> \in Seq(Rows) /\ Len(<<Header>>) = 1 /\ <<Header>>[1] = Header
  BY RowTypes
<1>9. /\ <<Header>> \o data \in Seq(Rows) /\ Len(<<Header>> \o data) = 1 + Len(data)
      /\ \A i \in 1..(1 + Len(data)) : (<<Header>> \o data)[i] = IF i <= 1 THEN <<Header>>[i] ELSE data[i - 1]
  BY <1>5, <1>8, ConcatProperties
<1>10. (<<Header>> \o data)[1] = Header
  BY <1>1, <1>5, <1>8, <1>9
<1>11. \A i \in 1..(n - TrimRows - 1) : (<<Header>> \o data)[i + 1] = data[i]
  <2> SUFFICES ASSUME NEW i \in 1..(n - TrimRows - 1) PROVE (<<Header>> \o data)[i + 1] = data[i]
    OBVIOUS
  <2>1. i + 1 \in 1..(1 + Len(data)) /\ ~(i + 1 <= 1) /\ (i + 1) - 1 = i
    BY <1>1, <1>5
  <2> QED  BY <1>9, <2>1
<1>12. 1 + Len(data) = n - TrimRows
  BY <1>1, <1>5
<1> QED  BY <1>6, <1>7, <1>9, <1>10, <1>11, <1>12 DEF n

\* Every step keeps the types.
LEMMA NextType == TypeOK /\ AttrInv /\ HeaderInv /\ [Next]_vars => TypeOK'
<1> SUFFICES ASSUME TypeOK, AttrInv, HeaderInv, [Next]_vars PROVE TypeOK'
  OBVIOUS
<1> DEFINE Js  == [pc: {"idle", "checked", "stamped", "fetched"}, time: 0..MaxRows, to: 0..MaxSessions]
           Pcs == {"idle", "play", "writer", "header", "start", "close", "trim", "truncate",
                   "rewrite", "reset", "raised", "done"}
           Backs == [to: 0..MaxSessions, rows: Seq(Rows)]
<1>0. /\ file \in 0..MaxSessions /\ writer \in 0..MaxSessions /\ start \in 0..MaxSessions /\ path \in 0..MaxSessions
      /\ session \in 0..MaxSessions /\ clock \in 0..MaxRows /\ js \in Js /\ pc \in [Closers -> Pcs] /\ read \in [Closers -> Backs]
      /\ open \in [Sessions -> BOOLEAN] /\ disk \in [Sessions -> Seq(Rows)] /\ log \in [Sessions -> Seq(Nat)]
      /\ MaxSessions \in Nat /\ MaxRows \in Nat /\ Sessions = 1..MaxSessions
  BY BoundAssumption DEF TypeOK, Sessions
<1>t. /\ file' \in 0..MaxSessions /\ writer' \in 0..MaxSessions /\ start' \in 0..MaxSessions /\ path' \in 0..MaxSessions
      /\ session' \in 0..MaxSessions /\ clock' \in 0..MaxRows /\ js' \in Js /\ pc' \in [Closers -> Pcs] /\ read' \in [Closers -> Backs]
      /\ open' \in [Sessions -> BOOLEAN] /\ disk' \in [Sessions -> Seq(Rows)] /\ log' \in [Sessions -> Seq(Nat)]
      => TypeOK'
  BY DEF TypeOK
<1>p. ASSUME NEW c \in Closers, NEW l \in Pcs, Goto(c, l) PROVE pc' \in [Closers -> Pcs]
  BY <1>0, <1>p DEF Goto
<1>c. "owner" \in Closers
  BY DEF Closers
<1>r. /\ \A k \in Sessions : \A s \in Seq(Rows) : [disk EXCEPT ![k] = s] \in [Sessions -> Seq(Rows)]
      /\ \A k \in Sessions : disk[k] \in Seq(Rows) /\ log[k] \in Seq(Nat)
      /\ \A k \in Sessions : \A s \in Seq(Nat) : [log EXCEPT ![k] = s] \in [Sessions -> Seq(Nat)]
  BY <1>0
<1>a. /\ \A k \in Sessions : \A r \in Rows : Append(disk[k], r) \in Seq(Rows)
      /\ \A k \in Sessions : \A n \in Nat : Append(log[k], n) \in Seq(Nat)
  BY <1>r
<1>j. JsIdle \in Js
  BY <1>0 DEF JsIdle
<1> HIDE DEF Js, Pcs, Backs
<1>1. CASE JsCheck
  <2>1. js' \in Js
    BY <1>0, <1>1 DEF JsCheck, Js
  <2> QED  BY <1>0, <1>1, <1>t, <2>1 DEF JsCheck, attrs, files
<1>2. CASE JsStamp
  <2>1. CASE start # 0
    <3>1. clock + 1 \in 0..MaxRows
      BY <1>0, <1>2 DEF JsStamp, AttrInv
    <3>2. js' \in Js /\ clock' \in 0..MaxRows
      BY <1>0, <1>2, <2>1, <3>1 DEF JsStamp, Js
    <3> QED  BY <1>0, <1>2, <1>t, <3>2 DEF JsStamp, attrs, files
  <2>2. CASE start = 0
    BY <1>0, <1>2, <1>j, <1>t, <2>2 DEF JsStamp, attrs, files
  <2> QED  BY <2>1, <2>2
<1>3. CASE JsFetch
  <2>1. [js EXCEPT !.pc = "fetched", !.to = writer] \in Js
    BY <1>0 DEF Js
  <2> QED  BY <1>0, <1>3, <1>j, <1>t, <2>1 DEF JsFetch, attrs, files
<1>4. CASE JsWrite
  <2>1. CASE open[js.to]
    <3>1. js.to = session /\ session # 0
      BY <1>4 DEF JsWrite, AttrInv
    <3>2. js.to \in Sessions /\ js.time \in Nat /\ js.time \in Int
      BY <1>0, <3>1 DEF Js
    <3>3. disk' \in [Sessions -> Seq(Rows)]
      <4>1. disk' = [disk EXCEPT ![js.to] = Append(disk[js.to], Sample(js.time))]
        BY <1>4, <2>1 DEF JsWrite
      <4>2. Sample(js.time) \in Rows
        BY <3>2, RowTypes
      <4> QED  BY <1>a, <1>r, <3>2, <4>1, <4>2
    <3>4. log' \in [Sessions -> Seq(Nat)]
      <4>1. log' = [log EXCEPT ![js.to] = Append(log[js.to], js.time)]
        BY <1>4, <2>1 DEF JsWrite
      <4> QED  BY <1>a, <1>r, <3>2, <4>1
    <3> QED  BY <1>0, <1>4, <1>j, <1>t, <3>3, <3>4 DEF JsWrite, attrs
  <2>2. CASE ~open[js.to]
    BY <1>0, <1>4, <1>j, <1>t, <2>2 DEF JsWrite, attrs
  <2> QED  BY <2>1, <2>2
<1>5. CASE Play
  <2>1. pc' \in [Closers -> Pcs]
    BY <1>5, <1>c, <1>p DEF Play, Pcs
  <2> QED  BY <1>0, <1>5, <1>t, <2>1 DEF Play, attrs, files
<1>6. CASE OpenFile
  <2>1. pc' \in [Closers -> Pcs]
    BY <1>6, <1>c, <1>p DEF OpenFile, Pcs
  <2>2. session' \in 0..MaxSessions /\ file' \in 0..MaxSessions /\ session' \in Sessions /\ clock' \in 0..MaxRows
    BY <1>0, <1>6 DEF OpenFile, AttrInv, Owner
  <2>3. open' \in [Sessions -> BOOLEAN]
    BY <1>0, <1>6, <2>2 DEF OpenFile
  <2> QED  BY <1>0, <1>6, <1>t, <2>1, <2>2, <2>3 DEF OpenFile
<1>7. CASE MakeWriter
  <2>1. pc' \in [Closers -> Pcs]
    BY <1>7, <1>c, <1>p DEF MakeWriter, Pcs
  <2> QED  BY <1>0, <1>7, <1>t, <2>1 DEF MakeWriter, files
<1>8. CASE WriteHeader
  <2>1. pc' \in [Closers -> Pcs]
    BY <1>8, <1>c, <1>p DEF WriteHeader, Pcs
  <2>2. disk' \in [Sessions -> Seq(Rows)]
    <3>1. CASE writer # 0 /\ open[writer]
      <4>1. writer \in Sessions /\ disk' = [disk EXCEPT ![writer] = Append(disk[writer], Header)]
        BY <1>0, <1>8, <3>1 DEF WriteHeader
      <4> QED  BY <1>a, <1>r, <4>1, RowTypes
    <3>2. CASE ~(writer # 0 /\ open[writer])
      BY <1>0, <1>8, <3>2 DEF WriteHeader
    <3> QED  BY <3>1, <3>2
  <2> QED  BY <1>0, <1>8, <1>t, <2>1, <2>2 DEF WriteHeader, attrs
<1>9. CASE SetStart
  <2>1. pc' \in [Closers -> Pcs]
    BY <1>9, <1>c, <1>p DEF SetStart, Pcs
  <2> QED  BY <1>0, <1>9, <1>t, <2>1 DEF SetStart, files
<1>10. ASSUME NEW c \in Closers, StopStep(c)
       PROVE  TypeOK'
  <2>1. pc' \in [Closers -> Pcs]
    BY <1>10, <1>p DEF StopStep, BeginStop, CloseFile, ReadBack, Truncate, Rewrite, Reset, Raised, Pcs
  <2>2. UNCHANGED <<session, clock, log, js>>
    BY <1>10 DEF StopStep, BeginStop, CloseFile, ReadBack, Truncate, Rewrite, Reset, Raised, files
  <2>3. file' \in 0..MaxSessions /\ writer' \in 0..MaxSessions /\ start' \in 0..MaxSessions /\ path' \in 0..MaxSessions
    BY <1>0, <1>10 DEF StopStep, BeginStop, CloseFile, ReadBack, Truncate, Rewrite, Reset, Raised, attrs
  <2>4. open' \in [Sessions -> BOOLEAN]
    BY <1>0, <1>10 DEF StopStep, BeginStop, CloseFile, ReadBack, Truncate, Rewrite, Reset, Raised, files
  <2>5. disk' \in [Sessions -> Seq(Rows)]
    <3>1. CASE Truncate(c)
      BY <1>0, <1>r, <3>1, EmptySeq DEF Truncate
    <3>2. CASE Rewrite(c)
      <4>1. read[c].rows \in Seq(Rows) /\ Len(read[c].rows) - 1 > TrimRows
        BY <1>0, <3>2 DEF Rewrite, HeaderInv, Backs
      <4>2. Trimmed(read[c].rows) \in Seq(Rows)
        BY <4>1, TrimmedRows
      <4> QED  BY <1>0, <3>2, <4>2 DEF Rewrite
    <3>3. CASE UNCHANGED disk
      BY <1>0, <3>3
    <3> QED  BY <1>10, <3>1, <3>2, <3>3 DEF StopStep, BeginStop, CloseFile, ReadBack, Reset, Raised, files
  <2>6. read' \in [Closers -> Backs]
    <3>1. CASE ReadBack(c) /\ path # 0
      <4>1. path \in Sessions /\ disk[path] \in Seq(Rows)
        BY <1>0, <3>1
      <4>2. [to |-> path, rows |-> disk[path]] \in Backs
        BY <1>0, <4>1 DEF Backs
      <4> QED  BY <1>0, <3>1, <4>2 DEF ReadBack
    <3>2. CASE Rewrite(c)
      <4>1. Nothing \in Backs
        BY <1>0, EmptySeq DEF Nothing, Backs
      <4> QED  BY <1>0, <3>2, <4>1 DEF Rewrite
    <3>3. CASE UNCHANGED read
      BY <1>0, <3>3
    <3> QED  BY <1>10, <3>1, <3>2, <3>3 DEF StopStep, BeginStop, CloseFile, ReadBack, Truncate, Reset, Raised
  <2> QED  BY <1>0, <1>t, <2>1, <2>2, <2>3, <2>4, <2>5, <2>6
<1>11. CASE UNCHANGED vars
  BY <1>0, <1>11, <1>t DEF vars, attrs, files
<1> QED
  BY <1>1, <1>2, <1>3, <1>4, <1>5, <1>6, <1>7, <1>8, <1>9, <1>10, <1>11 DEF Next

-----------------------------------------------------------------------------
(* The attributes *)

\* What a step of the stop leaves alone, and where it takes the owner.
LEMMA StopFacts ==
    ASSUME TypeOK, NEW c \in Closers, StopStep(c)
    PROVE  /\ UNCHANGED <<session, clock, log, js>>
           /\ Owner' = Owner \/ Owner' \notin {"play", "writer", "header", "start"}
           /\ UNCHANGED attrs \/ (file' = 0 /\ writer' = 0 /\ start' = 0 /\ path' = 0)
           /\ \A d \in Closers : d # c => pc'[d] = pc[d]
<1>1. UNCHANGED <<session, clock, log, js>>
  BY DEF StopStep, BeginStop, CloseFile, ReadBack, Truncate, Rewrite, Reset, Raised, files
<1>2. PICK l \in {"close", "trim", "truncate", "rewrite", "reset", "raised", "idle", "done"} : Goto(c, l)
  BY DEF StopStep, BeginStop, CloseFile, ReadBack, Truncate, Rewrite, Reset, Raised
<1>3. pc'[c] = l /\ \A d \in Closers : d # c => pc'[d] = pc[d]
  BY <1>2, Goes
<1>4. Owner' = Owner \/ Owner' \notin {"play", "writer", "header", "start"}
  <2>1. CASE c = "owner"
    BY <1>3, <2>1 DEF Owner
  <2>2. CASE c # "owner"
    BY <1>3, <2>2 DEF Owner, Closers
  <2> QED  BY <2>1, <2>2
<1>5. UNCHANGED attrs \/ (file' = 0 /\ writer' = 0 /\ start' = 0 /\ path' = 0)
  BY DEF StopStep, BeginStop, CloseFile, ReadBack, Truncate, Rewrite, Reset, Raised, attrs
<1> QED  BY <1>1, <1>3, <1>4, <1>5

\* Every step keeps the attributes consistent.
LEMMA NextAttr == TypeOK /\ AttrInv /\ RowsInv /\ [Next]_vars => AttrInv'
<1> SUFFICES ASSUME TypeOK, AttrInv, RowsInv, [Next]_vars PROVE AttrInv'
  OBVIOUS
<1>0. /\ session \in Nat /\ MaxSessions \in Nat /\ "owner" \in Closers /\ "hook" \in Closers /\ clock \in Nat
      /\ DOMAIN js = {"pc", "time", "to"}
  BY BoundAssumption DEF TypeOK, Closers
<1>i. JsIdle.pc = "idle"
  BY DEF JsIdle
<1>1. CASE JsCheck
  <2>1. UNCHANGED <<attrs, session, clock, Owner>> /\ js'.pc = "checked" /\ clock < MaxRows
    BY <1>0, <1>1 DEF JsCheck, Owner, TypeOK
  <2> QED  BY <2>1 DEF AttrInv, attrs
<1>2. CASE JsStamp
  <2>1. UNCHANGED <<attrs, session, Owner>>
    BY <1>2 DEF JsStamp, Owner
  <2>2. CASE start # 0
    <3>1. js'.pc = "stamped"
      BY <1>2, <2>2, <1>0 DEF JsStamp, TypeOK
    <3> QED  BY <2>1, <2>2, <3>1 DEF AttrInv, attrs
  <2>3. CASE start = 0
    <3>1. js'.pc = "idle"
      BY <1>2, <2>3, <1>i DEF JsStamp
    <3> QED  BY <2>1, <3>1 DEF AttrInv, attrs
  <2> QED  BY <2>2, <2>3
<1>3. CASE JsFetch
  <2>1. UNCHANGED <<attrs, session, clock, Owner>>
    BY <1>3 DEF JsFetch, Owner
  <2>2. CASE writer # 0
    <3>1. js'.pc = "fetched" /\ js'.to = writer /\ js.pc = "stamped"
      BY <1>3, <2>2, <1>0 DEF JsFetch, TypeOK
    <3> QED  BY <2>1, <2>2, <3>1 DEF AttrInv, attrs
  <2>3. CASE writer = 0
    <3>1. js'.pc = "idle"
      BY <1>3, <2>3, <1>i DEF JsFetch
    <3> QED  BY <2>1, <3>1 DEF AttrInv, attrs
  <2> QED  BY <2>2, <2>3
<1>4. CASE JsWrite
  <2>1. UNCHANGED <<attrs, session, clock, Owner>> /\ js'.pc = "idle"
    BY <1>4, <1>i DEF JsWrite, Owner
  <2> QED  BY <2>1 DEF AttrInv, attrs
<1>5. CASE Play
  <2>1. Owner' = "play" /\ UNCHANGED <<attrs, session, clock, js>> /\ file = 0 /\ session < MaxSessions /\ NodeUp /\ Owner = "idle"
    BY <1>0, <1>5, Goes DEF Play, Owner, NodeUp
  <2>2. start = 0 /\ path = 0
    BY <2>1 DEF RowsInv
  <2> QED  BY <2>1, <2>2 DEF AttrInv, attrs
<1>6. CASE OpenFile
  <2>1. Owner' = "writer" /\ Owner = "play" /\ js.pc = "idle" /\ session' = session + 1 /\ file' = session' /\ UNCHANGED <<writer, start, path, js>>
    BY <1>0, <1>6, Goes DEF OpenFile, Owner
  <2>2. writer = 0 /\ start = 0 /\ path = 0
    BY <2>1 DEF AttrInv
  <2>3. session' # 0
    BY <1>0, <2>1
  <2> QED  BY <2>1, <2>2, <2>3 DEF AttrInv
<1>7. CASE MakeWriter
  <2>1. Owner' = "header" /\ Owner = "writer" /\ writer' = file /\ UNCHANGED <<file, start, path, session, clock, js>>
    BY <1>0, <1>7, Goes DEF MakeWriter, Owner
  <2> QED  BY <2>1 DEF AttrInv
<1>8. CASE WriteHeader
  <2>1. Owner' \in {"start", "idle"} /\ Owner = "header" /\ UNCHANGED <<attrs, session, clock, js>>
    BY <1>0, <1>8, Goes DEF WriteHeader, Owner
  <2> QED  BY <2>1 DEF AttrInv, attrs
<1>9. CASE SetStart
  <2>1. /\ Owner' = "idle" /\ Owner = "start" /\ start' = session /\ path' = session
        /\ UNCHANGED <<file, writer, session, clock, js>>
    BY <1>0, <1>9, Goes DEF SetStart, Owner
  <2> QED  BY <2>1 DEF AttrInv
<1>10. ASSUME NEW c \in Closers, StopStep(c)
       PROVE  AttrInv'
  <2>1. /\ UNCHANGED <<session, clock, js>>
        /\ Owner' = Owner \/ Owner' \notin {"play", "writer", "header", "start"}
        /\ UNCHANGED attrs \/ (file' = 0 /\ writer' = 0 /\ start' = 0 /\ path' = 0)
    BY <1>10, StopFacts
  <2>2. CASE UNCHANGED attrs
    BY <2>1, <2>2 DEF AttrInv, attrs
  <2>3. CASE file' = 0 /\ writer' = 0 /\ start' = 0 /\ path' = 0
    BY <2>1, <2>3 DEF AttrInv
  <2> QED  BY <2>1, <2>2, <2>3
<1>11. CASE UNCHANGED vars
  BY <1>11 DEF vars, attrs, AttrInv, Owner
<1> QED
  BY <1>1, <1>2, <1>3, <1>4, <1>5, <1>6, <1>7, <1>8, <1>9, <1>10, <1>11 DEF Next

-----------------------------------------------------------------------------
(* The open capture *)

\* Every step keeps the last capture the only one open.
LEMMA NextOpen == TypeOK /\ AttrInv /\ OpenInv /\ [Next]_vars => OpenInv'
<1> SUFFICES ASSUME TypeOK, AttrInv, OpenInv, [Next]_vars PROVE OpenInv'
  OBVIOUS
<1>0. /\ session \in Nat /\ "owner" \in Closers /\ "hook" \in Closers /\ open \in [Sessions -> BOOLEAN]
      /\ \A k \in Sessions : k # 0
      /\ Owner = pc["owner"] /\ NodeUp <=> pc["hook"] = "idle"
      /\ Owner' = pc'["owner"] /\ (NodeUp' <=> pc'["hook"] = "idle")
      /\ session # 0 => session \in Sessions
  BY SMTT(30), BoundAssumption DEF TypeOK, Closers, Owner, NodeUp, Sessions
<1>1. CASE UNCHANGED <<attrs, session, open, pc>>
  BY <1>1 DEF OpenInv, attrs, Closing, Owner, NodeUp
<1>2. ASSUME UNCHANGED <<file, session, open>>, pc["owner"] \in {"writer", "header", "start"},
             pc'["owner"] \in {"header", "start", "idle"}, \A d \in Closers : d # "owner" => pc'[d] = pc[d]
      PROVE  OpenInv'
  <2>1. \A c \in Closers : Closing(c)' => Closing(c)
    BY <1>2 DEF Closing
  <2>2. \A c \in Closers : pc'[c] \in {"trim", "truncate", "rewrite"} => pc[c] \in {"trim", "truncate", "rewrite"}
    BY <1>2
  <2>3. Owner' \notin {"play", "reset"} /\ (NodeUp' => NodeUp)
    BY <1>0, <1>2
  <2> QED  BY <1>2, <2>1, <2>2, <2>3 DEF OpenInv
<1>3. CASE JsCheck \/ JsStamp \/ JsFetch \/ JsWrite
  <2>1. UNCHANGED <<attrs, session, open, pc>>
    BY <1>3 DEF JsCheck, JsStamp, JsFetch, JsWrite, attrs, files
  <2> QED  BY <1>1, <2>1
<1>4. CASE Play
  <2>1. /\ UNCHANGED <<file, session, open>> /\ file = 0 /\ pc["owner"] = "idle" /\ pc["hook"] = "idle"
        /\ pc'["owner"] = "play" /\ \A d \in Closers : d # "owner" => pc'[d] = pc[d]
    BY <1>0, <1>4, Goes DEF Play, attrs, files
  <2>2. \A c \in Closers : pc'[c] \in {"play", "idle"}
    BY <2>1 DEF Closers
  <2>3. \A k \in Sessions : ~open[k]
    BY <1>0, <2>1 DEF OpenInv
  <2> QED  BY <2>1, <2>2, <2>3 DEF OpenInv, Closing
<1>5. CASE OpenFile
  <2>1. /\ pc["owner"] = "play" /\ pc'["owner"] = "writer" /\ \A d \in Closers : d # "owner" => pc'[d] = pc[d]
        /\ session' = session + 1 /\ file' = session' /\ open' = [open EXCEPT ![session'] = TRUE]
    BY <1>0, <1>5, Goes DEF OpenFile
  <2>2. \A c \in Closers : pc'[c] \notin {"close", "trim", "truncate", "rewrite"}
    <3>1. \A c \in Closers : ~Closing(c)
      BY <2>1 DEF OpenInv, Owner
    <3> QED  BY <2>1, <3>1 DEF Closing
  <2>3. \A k \in Sessions : open'[k] => k = session'
    <3>1. \A k \in Sessions : ~open[k]
      BY <2>1 DEF OpenInv, Owner
    <3>2. \A k \in Sessions : k # session' => open'[k] = open[k]
      BY <1>0, <2>1
    <3> QED  BY <3>1, <3>2
  <2> QED  BY <1>0, <2>1, <2>2, <2>3 DEF OpenInv, Closing
<1>6. CASE MakeWriter
  BY <1>0, <1>2, <1>6, Goes DEF MakeWriter, files
<1>7. CASE WriteHeader
  BY <1>0, <1>2, <1>7, Goes DEF WriteHeader, attrs
<1>8. CASE SetStart
  BY <1>0, <1>2, <1>8, Goes DEF SetStart, files
<1>9. ASSUME NEW c \in Closers, StopStep(c)
      PROVE  OpenInv'
  <2>0. session' = session /\ \A d \in Closers : d # c => pc'[d] = pc[d]
    BY <1>9, StopFacts
  <2>c. c = "owner" \/ c = "hook"
    BY DEF Closers
  <2>f. file # 0 => file = session
    BY DEF AttrInv
  <2>1. CASE BeginStop(c)
    <3>1. /\ pc[c] = "idle" /\ pc'[c] = (IF file # 0 THEN "close" ELSE "reset") /\ UNCHANGED <<file, open>>
      BY <2>1, Goes DEF BeginStop, attrs, files
    <3>2. pc'[c] = "close" => session # 0 /\ Owner # "play"
      BY <1>0, <2>f, <3>1 DEF AttrInv
    <3>3. pc'[c] # "play" /\ (Owner' = "play" => Owner = "play") /\ (NodeUp' => NodeUp)
      BY <1>0, <2>0, <2>c, <3>1
    <3>4. \A d \in Closers : Closing(d)' => session # 0 /\ Owner' # "play"
      BY <2>0, <3>1, <3>2, <3>3 DEF OpenInv, Closing
    <3>5. \A d \in Closers : pc'[d] \in {"trim", "truncate", "rewrite"} => pc[d] \in {"trim", "truncate", "rewrite"}
      BY <2>0, <3>1
    <3>6. NodeUp' => \A k \in Sessions : open[k] => file = k /\ Owner' # "reset"
      <4>1. ASSUME NodeUp', NEW k \in Sessions, open[k] PROVE file = k /\ Owner' # "reset"
        <5>1. file = k /\ Owner # "reset" /\ file # 0
          BY <1>0, <3>3, <4>1 DEF OpenInv
        <5>2. Owner' # "reset"
          <6>1. CASE c = "owner"
            BY <3>1, <5>1, <6>1 DEF Owner
          <6>2. CASE c = "hook"
            BY <1>0, <2>0, <5>1, <6>2 DEF Owner
          <6> QED  BY <2>c, <6>1, <6>2
        <5> QED  BY <5>1, <5>2
      <4> QED  BY <4>1
    <3> QED  BY <2>0, <3>1, <3>3, <3>4, <3>5, <3>6 DEF OpenInv
  <2>2. CASE CloseFile(c)
    <3>1. /\ pc[c] = "close" /\ pc'[c] \in {"trim", "raised"} /\ UNCHANGED file
          /\ open' = IF file # 0 THEN [open EXCEPT ![file] = FALSE] ELSE open
          /\ pc'[c] = "trim" => file # 0
      BY <2>2, Goes DEF CloseFile, attrs
    <3>2. \A k \in Sessions : open'[k] => open[k]
      BY <1>0, <3>1
    <3>3. session # 0 /\ Owner # "play"
      BY <3>1 DEF OpenInv, Closing
    <3>4. pc'[c] = "trim" => ~open'[session]
      BY <1>0, <2>f, <3>1, <3>3
    <3>5. \A d \in Closers : Closing(d)' => Closing(d)
      BY <2>0, <3>1 DEF Closing
    <3>6. Owner' # "play" /\ (NodeUp' => NodeUp) /\ (Owner' = "reset" => Owner = "reset")
      <4>1. CASE c = "owner"
        <5>1. pc'["hook"] = pc["hook"]
          BY <1>0, <2>0, <4>1
        <5> QED  BY <3>1, <4>1, <5>1 DEF Owner, NodeUp
      <4>2. CASE c = "hook"
        <5>1. pc'["owner"] = pc["owner"] /\ ~NodeUp'
          BY <1>0, <2>0, <3>1, <4>2 DEF NodeUp
        <5> QED  BY <3>3, <5>1 DEF Owner
      <4> QED  BY <2>c, <4>1, <4>2
    <3>7. \A d \in Closers : pc'[d] \in {"trim", "truncate", "rewrite"} => ~open'[session]
      BY <1>0, <2>0, <3>1, <3>2, <3>3, <3>4 DEF OpenInv
    <3>8. \A d \in Closers : Closing(d)' => session' # 0 /\ Owner' # "play"
      BY <2>0, <3>3, <3>6
    <3> QED  BY <2>0, <3>1, <3>2, <3>6, <3>7, <3>8 DEF OpenInv
  <2>3. CASE ReadBack(c) \/ Truncate(c) \/ Rewrite(c)
    <3>1. /\ pc[c] \in {"trim", "truncate", "rewrite"} /\ UNCHANGED <<file, open>>
          /\ pc'[c] \in {"truncate", "rewrite", "reset", "raised"}
      BY <2>3, Goes DEF ReadBack, Truncate, Rewrite, attrs, files
    <3>2. session # 0 /\ Owner # "play" /\ ~open[session]
      BY <3>1 DEF OpenInv, Closing
    <3>3. \A k \in Sessions : ~open[k]
      BY <3>2 DEF OpenInv
    <3>4. Owner' # "play"
      <4>1. CASE c = "owner"
        BY <3>1, <4>1 DEF Owner
      <4>2. CASE c = "hook"
        BY <1>0, <2>0, <3>2, <4>2 DEF Owner
      <4> QED  BY <2>c, <4>1, <4>2
    <3>5. \A d \in Closers : pc'[d] \in {"trim", "truncate", "rewrite"} => ~open'[session']
      BY <2>0, <3>1, <3>2
    <3>6. \A d \in Closers : Closing(d)' => session' # 0 /\ Owner' # "play"
      BY <2>0, <3>2, <3>4
    <3> QED  BY <2>0, <3>1, <3>3, <3>4, <3>5, <3>6 DEF OpenInv
  <2>4. CASE Reset(c) \/ Raised(c)
    <3>1. /\ pc[c] \in {"reset", "raised"} /\ UNCHANGED open /\ pc'[c] = (IF c = "owner" THEN "idle" ELSE "done")
          /\ file' = file \/ pc[c] = "reset"
      BY <2>4, Goes DEF Reset, Raised, attrs, files
    <3>2. \A d \in Closers : Closing(d)' => Closing(d)
      BY <2>0, <3>1 DEF Closing
    <3>3. (Owner' = "play" => Owner = "play") /\ (Owner' = "reset" => Owner = "reset") /\ (NodeUp' => NodeUp /\ c = "owner")
      <4>1. CASE c = "owner"
        <5>1. pc'["hook"] = pc["hook"]
          BY <1>0, <2>0, <4>1
        <5> QED  BY <3>1, <4>1, <5>1 DEF Owner, NodeUp
      <4>2. CASE c = "hook"
        <5>1. pc'["owner"] = pc["owner"] /\ ~NodeUp'
          BY <1>0, <2>0, <3>1, <4>2 DEF NodeUp
        <5> QED  BY <5>1 DEF Owner
      <4> QED  BY <2>c, <4>1, <4>2
    <3>4. \A d \in Closers : Closing(d)' => session' # 0 /\ Owner' # "play"
      BY <2>0, <3>2, <3>3 DEF OpenInv
    <3>5. \A d \in Closers : pc'[d] \in {"trim", "truncate", "rewrite"} => ~open'[session']
      BY <2>0, <3>1 DEF OpenInv
    <3>6. NodeUp' => \A k \in Sessions : open'[k] => file' = k /\ Owner' # "reset"
      <4>1. ASSUME NodeUp', NEW k \in Sessions, open'[k] PROVE file' = k /\ Owner' # "reset"
        <5>1. NodeUp /\ c = "owner" /\ open[k]
          BY <3>1, <3>3, <4>1
        <5>2. file = k /\ Owner # "reset"
          BY <5>1 DEF OpenInv
        <5>3. pc[c] # "reset"
          BY <5>1, <5>2 DEF Owner
        <5> QED  BY <3>1, <3>3, <5>2, <5>3
      <4> QED  BY <4>1
    <3> QED  BY <2>0, <3>1, <3>3, <3>4, <3>5, <3>6 DEF OpenInv
  <2> QED  BY <1>9, <2>1, <2>2, <2>3, <2>4 DEF StopStep
<1>10. CASE UNCHANGED vars
  BY <1>1, <1>10 DEF vars, files
<1> QED
  BY <1>3, <1>4, <1>5, <1>6, <1>7, <1>8, <1>9, <1>10 DEF Next

-----------------------------------------------------------------------------
(* The header *)

\* What keeps the header first.
LEMMA HeaderRows ==
    /\ WithHeader(<<>>) /\ WithHeader(Append(<<>>, Header))
    /\ \A s \in Seq(Rows), t \in Int : WithHeader(s) /\ s # <<>> => WithHeader(Append(s, Sample(t)))
    /\ \A s \in Seq(Rows) : Len(s) - 1 > TrimRows => WithHeader(Trimmed(s))
    /\ \A s \in Seq(Rows), r \in Rows : Append(s, r) # <<>>
<1>0. TrimRows \in Nat \ {0} /\ Header.kind = "header" /\ \A t \in Int : Sample(t).kind = "data"
  BY BoundAssumption DEF Header, Sample
<1>1. WithHeader(<<>>)
  BY DEF WithHeader
<1>2. WithHeader(Append(<<>>, Header))
  BY <1>0 DEF WithHeader
<1>3. ASSUME NEW s \in Seq(Rows), NEW t \in Int, WithHeader(s), s # <<>>
      PROVE  WithHeader(Append(s, Sample(t)))
  <2>1. Len(s) \in Nat /\ Len(s) # 0
    BY <1>3, LenProperties, EmptySeq
  <2>2. /\ Len(Append(s, Sample(t))) = Len(s) + 1
        /\ \A i \in 1..Len(s) : Append(s, Sample(t))[i] = s[i]
        /\ Append(s, Sample(t))[Len(s) + 1] = Sample(t)
    BY RowTypes
  <2> SUFFICES ASSUME NEW i \in 1..(Len(s) + 1)
               PROVE  Append(s, Sample(t))[i].kind = "header" <=> i = 1
    BY <2>2 DEF WithHeader
  <2>3. CASE i = Len(s) + 1
    BY <1>0, <2>1, <2>2, <2>3
  <2>4. CASE i \in 1..Len(s)
    BY <1>3, <2>2, <2>4 DEF WithHeader
  <2> QED  BY <2>1, <2>3, <2>4
<1>4. ASSUME NEW s \in Seq(Rows), Len(s) - 1 > TrimRows
      PROVE  WithHeader(Trimmed(s))
  <2>1. /\ Len(Trimmed(s)) = Len(s) - TrimRows /\ Trimmed(s)[1] = Header
        /\ \A i \in 1..(Len(s) - TrimRows - 1) :
              Trimmed(s)[i + 1] = Sample(s[i + TrimRows + 1].time - s[TrimRows + 2].time)
    BY <1>4, TrimmedRows
  <2>2. Len(s) \in Nat
    BY LenProperties
  <2> SUFFICES ASSUME NEW i \in 1..(Len(s) - TrimRows)
               PROVE  Trimmed(s)[i].kind = "header" <=> i = 1
    BY <2>1 DEF WithHeader
  <2>3. CASE i = 1
    BY <1>0, <2>1, <2>3
  <2>4. CASE i # 1
    <3> DEFINE j == i - 1
    <3>1. j \in 1..(Len(s) - TrimRows - 1) /\ i = j + 1
      BY <1>0, <2>2, <2>4
    <3>2. Trimmed(s)[i] = Sample(s[j + TrimRows + 1].time - s[TrimRows + 2].time)
      BY <2>1, <3>1
    <3>3. Trimmed(s)[i].kind = "data"
      BY <3>2 DEF Sample
    <3> QED  BY <2>4, <3>3
  <2> QED  BY <2>3, <2>4
<1>5. ASSUME NEW s \in Seq(Rows), NEW r \in Rows PROVE Append(s, r) # <<>>
  <2>1. Len(s) \in Nat /\ Len(Append(s, r)) = Len(s) + 1 /\ Len(<<>>) = 0
    BY RowTypes, LenProperties
  <2>2. Len(Append(s, r)) # Len(<<>>)
    BY <2>1
  <2> QED  BY <2>2
<1> QED  BY <1>1, <1>2, <1>3, <1>4, <1>5

\* What the disk is after a step that changes one capture.
LEMMA OneFile == ASSUME TypeOK, NEW k \in Sessions, NEW s, disk' = [disk EXCEPT ![k] = s]
                 PROVE  disk'[k] = s /\ \A j \in Sessions : j # k => disk'[j] = disk[j]
BY DEF TypeOK

\* Every step keeps a header before the samples.
LEMMA NextHeader == TypeOK /\ AttrInv /\ OpenInv /\ HeaderInv /\ [Next]_vars => HeaderInv'
<1> SUFFICES ASSUME TypeOK, AttrInv, OpenInv, HeaderInv, [Next]_vars PROVE HeaderInv'
  OBVIOUS
<1>0. /\ session \in Nat /\ "owner" \in Closers /\ "hook" \in Closers /\ Owner = pc["owner"] /\ Owner' = pc'["owner"]
      /\ session # 0 => session \in Sessions
      /\ \A k \in Sessions : k \in Nat /\ k # 0 /\ disk[k] \in Seq(Rows)
      /\ open \in [Sessions -> BOOLEAN]
  BY SMTT(30), BoundAssumption DEF TypeOK, Closers, Owner, Sessions
<1>1. CASE UNCHANGED <<start, session, js, disk, log, open, pc, read>>
  BY <1>1 DEF HeaderInv, Owner, WithHeader
<1>2. CASE JsCheck \/ JsFetch
  <2>1. UNCHANGED <<start, session, disk, log, open, pc, read>>
    BY <1>2 DEF JsCheck, JsFetch, attrs, files
  <2>2. js'.pc \in {"stamped", "fetched"} => js.pc \in {"stamped", "fetched"}
    BY <1>2 DEF JsCheck, JsFetch, JsIdle, TypeOK
  <2> QED  BY <2>1, <2>2 DEF HeaderInv, Owner, WithHeader
<1>3. CASE JsStamp
  <2>1. UNCHANGED <<start, session, disk, log, open, pc, read>>
    BY <1>3 DEF JsStamp, attrs, files
  <2>2. js'.pc \in {"stamped", "fetched"} => start # 0
    BY <1>3 DEF JsStamp, JsIdle, TypeOK
  <2> QED  BY <2>1, <2>2 DEF HeaderInv, Owner, WithHeader
<1>4. CASE JsWrite
  <2>1. UNCHANGED <<start, session, open, pc, read>> /\ js'.pc = "idle" /\ js.pc = "fetched"
    BY <1>4 DEF JsWrite, JsIdle, attrs
  <2>2. js.to = session /\ session \in Sessions /\ Owner \notin {"writer", "header", "start"}
    BY <1>0, <2>1 DEF AttrInv
  <2>3. CASE ~open[session]
    <3>1. UNCHANGED <<disk, log>>
      BY <1>4, <2>2, <2>3 DEF JsWrite
    <3> QED  BY <2>1, <3>1 DEF HeaderInv, Owner, WithHeader
  <2>4. CASE open[session]
    <3>1. /\ disk' = [disk EXCEPT ![session] = Append(disk[session], Sample(js.time))]
          /\ log' = [log EXCEPT ![session] = Append(log[session], js.time)]
      BY <1>4, <2>2, <2>4 DEF JsWrite
    <3>2. disk[session] # <<>> /\ WithHeader(disk[session]) /\ js.time \in Int
      BY <2>1, <2>2, <2>4 DEF HeaderInv, TypeOK
    <3>3. WithHeader(disk'[session]) /\ disk'[session] # <<>>
      <4>1. disk'[session] = Append(disk[session], Sample(js.time))
        <5>1. disk' = [disk EXCEPT ![session] = Append(disk[session], Sample(js.time))]
          BY <3>1
        <5>2. disk \in [Sessions -> Seq(Rows)]
          BY DEF TypeOK
        <5> QED  BY <2>2, <5>1, <5>2
      <4>2. WithHeader(Append(disk[session], Sample(js.time))) /\ Append(disk[session], Sample(js.time)) # <<>>
        BY <1>0, <2>2, <3>2, HeaderRows, RowTypes
      <4> QED  BY <4>1, <4>2
    <3>4. \A k \in Sessions : k # session => disk'[k] = disk[k] /\ log'[k] = log[k]
      BY <3>1 DEF TypeOK
    <3>5. \A k \in Sessions : WithHeader(disk'[k])
      BY <3>3, <3>4 DEF HeaderInv
    <3>6. \A k \in Sessions : k > session => disk'[k] = <<>> /\ log'[k] = <<>>
      BY <1>0, <3>4 DEF HeaderInv
    <3>7. Owner' = Owner
      BY <2>1 DEF Owner
    <3>8. \A k \in Sessions : WithHeader(disk[k])' 
      BY <3>5 DEF WithHeader
    <3>9. \A c \in Closers : pc'[c] \in {"truncate", "rewrite"} =>
             /\ read'[c].to = session' /\ WithHeader(read[c].rows)' /\ Len(read'[c].rows) - 1 > TrimRows
             /\ Owner' \notin {"play", "writer", "header", "start"}
      BY <2>1, <3>7 DEF HeaderInv, WithHeader
    <3> QED  BY <2>1, <2>2, <3>3, <3>6, <3>7, <3>8, <3>9 DEF HeaderInv
  <2> QED  BY <2>3, <2>4
<1>5. CASE Play
  <2>1. /\ UNCHANGED <<start, session, disk, log, open, js, read>> /\ pc["owner"] = "idle" /\ pc["hook"] = "idle"
        /\ pc'["owner"] = "play" /\ \A d \in Closers : d # "owner" => pc'[d] = pc[d]
    BY <1>0, <1>5, Goes DEF Play, attrs, files
  <2>2. \A c \in Closers : pc'[c] \in {"play", "idle"}
    BY <2>1 DEF Closers
  <2> QED  BY <1>0, <2>1, <2>2 DEF HeaderInv, WithHeader
<1>6. CASE OpenFile
  <2>1. /\ pc["owner"] = "play" /\ pc'["owner"] = "writer" /\ \A d \in Closers : d # "owner" => pc'[d] = pc[d]
        /\ session' = session + 1 /\ UNCHANGED <<start, disk, log, js, read>> /\ js.pc = "idle"
    BY <1>0, <1>6, Goes DEF OpenFile
  <2>2. start = 0 /\ session < MaxSessions
    BY <1>0, <2>1 DEF AttrInv
  <2>3. session' \in Sessions /\ session' > session
    BY <1>0, <2>1, <2>2, BoundAssumption DEF Sessions
  <2>4. disk[session'] = <<>> /\ log[session'] = <<>>
    BY <2>3 DEF HeaderInv
  <2>5. \A c \in Closers : pc'[c] \notin {"truncate", "rewrite"}
    <3>1. \A c \in Closers : ~Closing(c)
      BY <2>1 DEF OpenInv, Owner
    <3> QED  BY <2>1, <3>1 DEF Closing
  <2>6. \A k \in Sessions : k > session' => disk[k] = <<>> /\ log[k] = <<>>
    BY <1>0, <2>1 DEF HeaderInv
  <2>7. \A k \in Sessions : WithHeader(disk[k])'
    BY <2>1 DEF HeaderInv, WithHeader
  <2>8. Owner' = "writer"
    BY <2>1 DEF Owner
  <2> QED  BY <2>1, <2>2, <2>4, <2>5, <2>6, <2>7, <2>8 DEF HeaderInv
<1>7. CASE MakeWriter
  <2>1. /\ pc["owner"] = "writer" /\ pc'["owner"] = "header" /\ \A d \in Closers : d # "owner" => pc'[d] = pc[d]
        /\ UNCHANGED <<start, session, disk, log, open, js, read>>
    BY <1>0, <1>7, Goes DEF MakeWriter, files
  <2> QED  BY <1>0, <2>1 DEF HeaderInv, WithHeader
<1>8. CASE WriteHeader
  <2>1. /\ pc["owner"] = "header" /\ \A d \in Closers : d # "owner" => pc'[d] = pc[d]
        /\ UNCHANGED <<writer, start, session, log, open, js, read>>
    BY <1>0, <1>8, Goes DEF WriteHeader, attrs
  <2>2. CASE writer # 0 /\ open[writer]
    <3>1. pc'["owner"] = "start" /\ writer = session /\ disk' = [disk EXCEPT ![writer] = Append(disk[writer], Header)]
      BY <1>0, <1>8, <2>2, Goes DEF WriteHeader, AttrInv
    <3>2. session \in Sessions /\ disk[session] = <<>>
      BY <1>0, <2>1, <2>2, <3>1 DEF HeaderInv
    <3>3. disk'[session] = Append(<<>>, Header) /\ \A k \in Sessions : k # session => disk'[k] = disk[k]
      BY <3>1, <3>2, OneFile
    <3>4. WithHeader(Append(<<>>, Header)) /\ Append(<<>>, Header) # <<>>
      BY <1>0, <3>2, HeaderRows, RowTypes, EmptySeq
    <3>5. \A k \in Sessions : WithHeader(disk'[k])
      BY <3>3, <3>4 DEF HeaderInv
    <3>6. \A k \in Sessions : k > session => disk'[k] = <<>> /\ log'[k] = <<>>
      BY <1>0, <2>1, <3>3 DEF HeaderInv
    <3>7. \A k \in Sessions : WithHeader(disk[k])'
      BY <3>5 DEF WithHeader
    <3>8. \A c \in Closers : pc'[c] \notin {"truncate", "rewrite"}
      BY <1>0, <2>1, <3>1 DEF HeaderInv
    <3>9. disk'[session'] # <<>> /\ Owner' = "start"
      BY <2>1, <3>1, <3>3, <3>4 DEF Owner
    <3> QED  BY <2>1, <3>6, <3>7, <3>8, <3>9 DEF HeaderInv
  <2>3. CASE ~(writer # 0 /\ open[writer])
    <3>1. pc'["owner"] = "idle" /\ disk' = disk
      BY <1>0, <1>8, <2>3, Goes DEF WriteHeader
    <3> QED  BY <1>0, <2>1, <3>1 DEF HeaderInv, WithHeader
  <2> QED  BY <2>2, <2>3
<1>9. CASE SetStart
  <2>1. /\ pc["owner"] = "start" /\ pc'["owner"] = "idle" /\ \A d \in Closers : d # "owner" => pc'[d] = pc[d]
        /\ UNCHANGED <<session, disk, log, open, js, read>>
    BY <1>0, <1>9, Goes DEF SetStart, files
  <2> QED  BY <1>0, <2>1 DEF HeaderInv, WithHeader
<1>10. ASSUME NEW c \in Closers, StopStep(c)
       PROVE  HeaderInv'
  <2>0. UNCHANGED <<session, log, js>> /\ \A d \in Closers : d # c => pc'[d] = pc[d]
    BY <1>10, StopFacts
  <2>s. Owner' \in {"play", "writer", "header", "start"} => Owner' = Owner
    BY <1>10, StopFacts
  <2>o. start' = start \/ start' = 0
    BY <1>10, StopFacts DEF attrs
  <2>1. CASE UNCHANGED <<disk, open, read>> /\ pc'[c] \notin {"truncate", "rewrite"}
    <3>1. \A d \in Closers : pc'[d] \in {"truncate", "rewrite"} => pc[d] \in {"truncate", "rewrite"}
      BY <2>0, <2>1
    <3>2. \A d \in Closers : pc'[d] \in {"truncate", "rewrite"} =>
             /\ read'[d].to = session' /\ WithHeader(read[d].rows)' /\ Len(read'[d].rows) - 1 > TrimRows
             /\ Owner' \notin {"play", "writer", "header", "start"}
      BY <2>0, <2>s, <2>1, <3>1 DEF HeaderInv, WithHeader
    <3>3. \A k \in Sessions : WithHeader(disk[k])'
      BY <2>1 DEF HeaderInv, WithHeader
    <3>4. \A k \in Sessions : k > session' => disk'[k] = <<>> /\ log'[k] = <<>>
      BY <2>0, <2>1 DEF HeaderInv
    <3>5. Owner' \in {"writer", "header"} => disk'[session'] = <<>> /\ log'[session'] = <<>>
      BY <2>0, <2>s, <2>1 DEF HeaderInv
    <3>6. start' # 0 \/ Owner' = "start" \/ js'.pc \in {"stamped", "fetched"} =>
             disk'[session'] # <<>> \/ ~open'[session']
      BY <2>0, <2>s, <2>o, <2>1 DEF HeaderInv
    <3> QED  BY <3>2, <3>3, <3>4, <3>5, <3>6 DEF HeaderInv
  <2>2. CASE CloseFile(c)
    <3>1. UNCHANGED <<disk, read>> /\ pc'[c] \notin {"truncate", "rewrite"} /\ pc[c] = "close"
      BY <2>2, Goes DEF CloseFile
    <3>2. ~open'[session] \/ open' = open
      <4>1. file # 0 => file \in Sessions /\ file = session
        BY <1>0 DEF AttrInv
      <4> QED  BY <1>0, <2>2, <4>1 DEF CloseFile
    <3>3. \A d \in Closers : pc'[d] \in {"truncate", "rewrite"} => pc[d] \in {"truncate", "rewrite"}
      BY <2>0, <3>1
    <3>4. \A d \in Closers : pc'[d] \in {"truncate", "rewrite"} =>
             /\ read'[d].to = session' /\ WithHeader(read[d].rows)' /\ Len(read'[d].rows) - 1 > TrimRows
             /\ Owner' \notin {"play", "writer", "header", "start"}
      BY <2>0, <2>s, <3>1, <3>3 DEF HeaderInv, WithHeader
    <3>5. \A k \in Sessions : WithHeader(disk[k])'
      BY <3>1 DEF HeaderInv, WithHeader
    <3>6. \A k \in Sessions : k > session' => disk'[k] = <<>> /\ log'[k] = <<>>
      BY <2>0, <3>1 DEF HeaderInv
    <3>7. Owner' \in {"writer", "header"} => disk'[session'] = <<>> /\ log'[session'] = <<>>
      BY <2>0, <2>s, <3>1 DEF HeaderInv
    <3>8. start' # 0 \/ Owner' = "start" \/ js'.pc \in {"stamped", "fetched"} =>
             disk'[session'] # <<>> \/ ~open'[session']
      BY <2>0, <2>s, <2>o, <3>1, <3>2 DEF HeaderInv
    <3> QED  BY <3>4, <3>5, <3>6, <3>7, <3>8 DEF HeaderInv
  <2>3. CASE ReadBack(c) /\ pc'[c] = "truncate"
    <3>1. /\ UNCHANGED <<disk, open>> /\ pc[c] = "trim" /\ path # 0 /\ Len(disk[path]) - 1 > TrimRows
          /\ read' = [read EXCEPT ![c] = [to |-> path, rows |-> disk[path]]]
      BY <2>3, Goes DEF ReadBack, files
    <3>2. path = session /\ session \in Sessions /\ Owner \notin {"play", "writer", "header", "start"}
      BY <1>0, <3>1 DEF AttrInv
    <3>3. read'[c].to = session /\ read'[c].rows = disk[session] /\ \A d \in Closers : d # c => read'[d] = read[d]
      BY <3>1, <3>2 DEF TypeOK
    <3>4. Owner' \notin {"play", "writer", "header", "start"}
      BY <2>s, <3>2
    <3>5. \A d \in Closers : pc'[d] \in {"truncate", "rewrite"} =>
             /\ read'[d].to = session' /\ WithHeader(read[d].rows)' /\ Len(read'[d].rows) - 1 > TrimRows
             /\ Owner' \notin {"play", "writer", "header", "start"}
      <4>1. WithHeader(disk[session])
        BY <3>2 DEF HeaderInv
      <4>2. read'[c].to = session' /\ WithHeader(read[c].rows)' /\ Len(read'[c].rows) - 1 > TrimRows
        BY <2>0, <3>1, <3>2, <3>3, <4>1 DEF WithHeader
      <4>3. ASSUME NEW d \in Closers, d # c, pc'[d] \in {"truncate", "rewrite"}
            PROVE  read'[d].to = session' /\ WithHeader(read[d].rows)' /\ Len(read'[d].rows) - 1 > TrimRows
        <5>1. pc[d] \in {"truncate", "rewrite"} /\ read'[d] = read[d]
          BY <2>0, <3>3, <4>3
        <5> QED  BY <2>0, <5>1 DEF HeaderInv, WithHeader
      <4> QED  BY <3>4, <4>2, <4>3
    <3>6. \A k \in Sessions : WithHeader(disk[k])'
      BY <3>1 DEF HeaderInv, WithHeader
    <3>7. \A k \in Sessions : k > session' => disk'[k] = <<>> /\ log'[k] = <<>>
      BY <2>0, <3>1 DEF HeaderInv
    <3>8. start' # 0 \/ Owner' = "start" \/ js'.pc \in {"stamped", "fetched"} =>
             disk'[session'] # <<>> \/ ~open'[session']
      BY <2>0, <2>s, <2>o, <3>1 DEF HeaderInv
    <3> QED  BY <3>4, <3>5, <3>6, <3>7, <3>8 DEF HeaderInv
  <2>4. CASE Truncate(c) \/ Rewrite(c)
    <3>1. pc[c] \in {"truncate", "rewrite"} /\ UNCHANGED open /\ pc'[c] \in {"rewrite", "reset"}
      BY <2>4, Goes DEF Truncate, Rewrite
    <3>2. /\ read[c].to = session /\ session \in Sessions /\ ~open[session] /\ WithHeader(read[c].rows)
          /\ Len(read[c].rows) - 1 > TrimRows /\ read[c].rows \in Seq(Rows)
          /\ Owner \notin {"play", "writer", "header", "start"}
      BY <1>0, <3>1 DEF HeaderInv, OpenInv, Closing, TypeOK
    <3>3. WithHeader(disk'[session]) /\ \A k \in Sessions : k # session => disk'[k] = disk[k]
      <4>1. CASE Truncate(c)
        <5>1. disk' = [disk EXCEPT ![session] = <<>>]
          BY <3>2, <4>1 DEF Truncate
        <5> QED  BY ZenonT(60), <3>2, <5>1, HeaderRows, OneFile
      <4>2. CASE Rewrite(c)
        <5>1. disk' = [disk EXCEPT ![session] = Trimmed(read[c].rows)]
          BY <3>2, <4>2 DEF Rewrite
        <5>2. WithHeader(Trimmed(read[c].rows))
          BY <3>2, HeaderRows
        <5>3. disk'[session] = Trimmed(read[c].rows) /\ \A k \in Sessions : k # session => disk'[k] = disk[k]
          BY <3>2, <5>1, OneFile
        <5> QED  BY <5>2, <5>3
      <4> QED  BY <2>4, <4>1, <4>2
    <3>4. Owner' \notin {"play", "writer", "header", "start"}
      BY <2>s, <3>2
    <3>5. \A d \in Closers : pc'[d] \in {"truncate", "rewrite"} => pc[d] \in {"truncate", "rewrite"} /\ read'[d] = read[d]
      <4>1. CASE Truncate(c)
        BY <2>0, <3>1, <4>1 DEF Truncate
      <4>2. CASE Rewrite(c)
        <5>1. pc'[c] = "reset" /\ read' = [read EXCEPT ![c] = Nothing]
          BY <4>2, Goes DEF Rewrite
        <5> QED  BY <2>0, <5>1 DEF TypeOK
      <4> QED  BY <2>4, <4>1, <4>2
    <3>6. \A d \in Closers : pc'[d] \in {"truncate", "rewrite"} =>
             /\ read'[d].to = session' /\ WithHeader(read[d].rows)' /\ Len(read'[d].rows) - 1 > TrimRows
             /\ Owner' \notin {"play", "writer", "header", "start"}
      BY <2>0, <3>4, <3>5 DEF HeaderInv, WithHeader
    <3>7. \A k \in Sessions : WithHeader(disk'[k])
      BY <3>3 DEF HeaderInv
    <3>8. \A k \in Sessions : WithHeader(disk[k])'
      BY <3>7 DEF WithHeader
    <3>9. \A k \in Sessions : k > session' => disk'[k] = <<>> /\ log'[k] = <<>>
      BY <1>0, <2>0, <3>3 DEF HeaderInv
    <3>10. ~open'[session']
      BY <2>0, <3>1, <3>2
    <3> QED  BY <3>4, <3>6, <3>8, <3>9, <3>10 DEF HeaderInv
  <2>5. CASE BeginStop(c) \/ Reset(c) \/ Raised(c)
    BY <2>1, <2>5, Goes DEF BeginStop, Reset, Raised, files
  <2>6. CASE ReadBack(c) /\ pc'[c] # "truncate"
    <3>1. UNCHANGED <<disk, open, read>> /\ pc'[c] \notin {"truncate", "rewrite"}
      BY <2>6, Goes DEF ReadBack, files
    <3> QED  BY <2>1, <3>1
  <2> QED  BY <1>10, <2>2, <2>3, <2>4, <2>5, <2>6 DEF StopStep
<1>11. CASE UNCHANGED vars
  BY <1>1, <1>11 DEF vars, attrs, files
<1> QED
  BY <1>2, <1>3, <1>4, <1>5, <1>6, <1>7, <1>8, <1>9, <1>10, <1>11 DEF Next

-----------------------------------------------------------------------------
(* The rows *)

\* A header before a function's rows.
LEMMA HeaderThen == ASSUME NEW n \in Nat, NEW f \in [1..n -> Rows]
    PROVE  /\ <<Header>> \o f \in Seq(Rows) /\ Len(<<Header>> \o f) = n + 1
           /\ (<<Header>> \o f)[1] = Header
           /\ \A i \in 1..n : (<<Header>> \o f)[i + 1] = f[i]
<1>1. f \in Seq(Rows)
  BY SeqDef
<1>2. Len(f) = n
  <2>1. DOMAIN f = 1..n
    OBVIOUS
  <2>2. DOMAIN f = 1..Len(f) /\ Len(f) \in Nat
    BY <1>1, LenProperties
  <2> QED  BY <2>1, <2>2
<1>3. <<Header>> \in Seq(Rows) /\ Len(<<Header>>) = 1 /\ <<Header>>[1] = Header
  BY RowTypes
<1>4. /\ <<Header>> \o f \in Seq(Rows) /\ Len(<<Header>> \o f) = 1 + Len(f)
      /\ \A i \in 1..(1 + Len(f)) : (<<Header>> \o f)[i] = IF i <= 1 THEN <<Header>>[i] ELSE f[i - 1]
  BY <1>1, <1>3, ConcatProperties
<1>5. (<<Header>> \o f)[1] = Header
  BY <1>2, <1>3, <1>4
<1>6. ASSUME NEW i \in 1..n PROVE (<<Header>> \o f)[i + 1] = f[i]
  <2>1. i + 1 \in 1..(1 + Len(f)) /\ ~(i + 1 <= 1) /\ (i + 1) - 1 = i
    BY <1>2
  <2> QED  BY <1>4, <2>1
<1>7. 1 + Len(f) = n + 1
  BY <1>2
<1> QED  BY <1>4, <1>5, <1>6, <1>7

\* The rows of a sample more.
LEMMA OneMore == ASSUME NEW rows \in Seq(Rows), NEW times \in Seq(Nat), NEW t \in Nat, Untrimmed(rows, times)
                 PROVE  Untrimmed(Append(rows, Sample(t)), Append(times, t))
<1>1. /\ Len(times) \in Nat /\ Len(rows) = Len(times) + 1 /\ rows[1] = Header
      /\ \A i \in 1..Len(times) : rows[i + 1] = Sample(times[i])
  BY LenProperties DEF Untrimmed
<1>2. Sample(t) \in Rows
  BY RowTypes
<1>3. /\ Len(Append(rows, Sample(t))) = Len(rows) + 1 /\ Append(rows, Sample(t))[Len(rows) + 1] = Sample(t)
      /\ \A i \in 1..Len(rows) : Append(rows, Sample(t))[i] = rows[i]
  BY <1>2, RowTypes
<1>4. /\ Len(Append(times, t)) = Len(times) + 1 /\ Append(times, t)[Len(times) + 1] = t
      /\ \A i \in 1..Len(times) : Append(times, t)[i] = times[i]
  BY AppendProperties
<1>5. Append(rows, Sample(t))[1] = Header
  BY <1>1, <1>3
<1>6. ASSUME NEW i \in 1..(Len(times) + 1)
      PROVE  Append(rows, Sample(t))[i + 1] = Sample(Append(times, t)[i])
  <2>1. CASE i = Len(times) + 1
    BY <1>1, <1>3, <1>4, <2>1
  <2>2. CASE i \in 1..Len(times)
    <3>1. i + 1 \in 1..Len(rows)
      BY <1>1, <2>2
    <3> QED  BY <1>1, <1>3, <1>4, <2>2, <3>1
  <2> QED  BY <1>1, <2>1, <2>2
<1>7. Len(Append(rows, Sample(t))) = Len(Append(times, t)) + 1
  BY <1>1, <1>3, <1>4
<1> QED  BY <1>4, <1>5, <1>6, <1>7 DEF Untrimmed

\* Too few rows to trim are left as they are.
LEMMA FewLeft == ASSUME NEW rows \in Seq(Rows), NEW times \in Seq(Nat), Untrimmed(rows, times),
                        Len(rows) - 1 <= TrimRows
                 PROVE  rows = Left(times)
<1> DEFINE n == Len(times)
           f == [i \in 1..n |-> Sample(times[i])]
<1>1. /\ n \in Nat /\ Len(rows) = n + 1 /\ rows[1] = Header /\ TrimRows \in Nat
      /\ \A i \in 1..n : rows[i + 1] = Sample(times[i])
  BY LenProperties, BoundAssumption DEF Untrimmed
<1>2. n <= TrimRows
  BY <1>1
<1>3. Left(times) = <<Header>> \o f
  BY <1>2 DEF Left
<1>4. f \in [1..n -> Rows]
  <2>1. \A i \in 1..n : times[i] \in Int
    BY ElementOfSeq
  <2> QED  BY <2>1, RowTypes
<1>5. \A i \in 1..n : f[i] = Sample(times[i])
  OBVIOUS
<1> HIDE DEF n, f
<1>6. /\ <<Header>> \o f \in Seq(Rows) /\ Len(<<Header>> \o f) = n + 1 /\ (<<Header>> \o f)[1] = Header
      /\ \A i \in 1..n : (<<Header>> \o f)[i + 1] = f[i]
  BY <1>1, <1>4, HeaderThen
<1>7. ASSUME NEW i \in 1..Len(rows) PROVE rows[i] = (<<Header>> \o f)[i]
  <2>1. CASE i = 1
    BY <1>1, <1>6, <2>1
  <2>2. CASE i # 1
    <3> DEFINE j == i - 1
    <3>1. j \in 1..n /\ i = j + 1
      BY <1>1, <2>2
    <3> QED  BY <1>1, <1>5, <1>6, <3>1
  <2> QED  BY <2>1, <2>2
<1>8. rows = <<Header>> \o f
  BY <1>1, <1>6, <1>7, SeqEqual
<1> QED  BY <1>3, <1>8

\* What trimming leaves of the rows as they were written.
LEMMA TrimmedLeft == ASSUME NEW rows \in Seq(Rows), NEW times \in Seq(Nat), Untrimmed(rows, times),
                            Len(rows) - 1 > TrimRows
                     PROVE  Trimmed(rows) = Left(times)
<1> DEFINE n == Len(times)
           m == n - TrimRows
           f == [i \in 1..m |-> Sample(times[i + TrimRows] - times[1 + TrimRows])]
<1>1. /\ n \in Nat /\ Len(rows) = n + 1 /\ TrimRows \in Nat
      /\ \A i \in 1..n : rows[i + 1] = Sample(times[i])
  BY LenProperties, BoundAssumption DEF Untrimmed
<1>2. m \in Nat /\ ~(n <= TrimRows) /\ \A i \in 1..m : i + TrimRows \in 1..n
  BY <1>1
<1>3. Left(times) = <<Header>> \o f
  BY <1>2 DEF Left
<1>4. \A i \in 1..n : times[i] \in Int /\ Sample(times[i]).time = times[i]
  BY ElementOfSeq DEF Sample
<1>5. 1 \in 1..m /\ 1 + TrimRows \in 1..n
  BY <1>1
<1>6. f \in [1..m -> Rows]
  <2>1. \A i \in 1..m : times[i + TrimRows] - times[1 + TrimRows] \in Int
    BY <1>2, <1>4, <1>5
  <2> QED  BY <2>1, RowTypes
<1>7. \A i \in 1..m : f[i] = Sample(times[i + TrimRows] - times[1 + TrimRows])
  OBVIOUS
<1>8. /\ Trimmed(rows) \in Seq(Rows) /\ Len(Trimmed(rows)) = Len(rows) - TrimRows /\ Trimmed(rows)[1] = Header
      /\ \A i \in 1..(Len(rows) - TrimRows - 1) :
            Trimmed(rows)[i + 1] = Sample(rows[i + TrimRows + 1].time - rows[TrimRows + 2].time)
  BY TrimmedRows
<1>9. Len(rows) - TrimRows = m + 1 /\ Len(rows) - TrimRows - 1 = m
  BY <1>1
<1> HIDE DEF f
<1>10. /\ <<Header>> \o f \in Seq(Rows) /\ Len(<<Header>> \o f) = m + 1 /\ (<<Header>> \o f)[1] = Header
       /\ \A i \in 1..m : (<<Header>> \o f)[i + 1] = f[i]
  BY <1>2, <1>6, HeaderThen
<1>11. ASSUME NEW i \in 1..m PROVE Trimmed(rows)[i + 1] = f[i]
  <2>1. rows[i + TrimRows + 1].time = times[i + TrimRows]
    <3>1. i + TrimRows \in 1..n /\ (i + TrimRows) + 1 = i + TrimRows + 1
      BY <1>2
    <3> QED  BY <1>1, <1>4, <3>1
  <2>2. rows[TrimRows + 2].time = times[1 + TrimRows]
    <3>1. (1 + TrimRows) + 1 = TrimRows + 2
      BY <1>1
    <3> QED  BY <1>1, <1>4, <1>5, <3>1
  <2>3. Trimmed(rows)[i + 1] = Sample(rows[i + TrimRows + 1].time - rows[TrimRows + 2].time)
    BY <1>8, <1>9
  <2> QED  BY <1>7, <2>1, <2>2, <2>3
<1> HIDE DEF m
<1>12. ASSUME NEW i \in 1..(m + 1) PROVE Trimmed(rows)[i] = (<<Header>> \o f)[i]
  <2>1. CASE i = 1
    BY <1>8, <1>10, <2>1
  <2>2. CASE i # 1
    <3> DEFINE j == i - 1
    <3>1. j \in 1..m /\ i = j + 1
      BY <1>2, <2>2
    <3> QED  BY <1>10, <1>11, <3>1
  <2> QED  BY <2>1, <2>2
<1>13. Trimmed(rows) = <<Header>> \o f
  BY <1>8, <1>9, <1>10, <1>12, SeqEqual
<1> QED  BY <1>3, <1>13

\* Every step keeps the rows, while the node is up.
LEMMA NextRows == TypeOK /\ AttrInv /\ OpenInv /\ HeaderInv /\ RowsInv /\ [Next]_vars => RowsInv'
<1> SUFFICES ASSUME TypeOK, AttrInv, OpenInv, HeaderInv, RowsInv, [Next]_vars PROVE RowsInv'
  OBVIOUS
<1>0. /\ session \in Nat /\ "owner" \in Closers /\ "hook" \in Closers
      /\ session # 0 => session \in Sessions
      /\ \A k \in Sessions : k \in Nat /\ k # 0 /\ disk[k] \in Seq(Rows) /\ log[k] \in Seq(Nat)
  <2>1. \A k \in Sessions : disk[k] \in Seq(Rows) /\ log[k] \in Seq(Nat)
    BY DEF TypeOK
  <2>2. \A k \in Sessions : k \in Nat /\ k # 0
    BY BoundAssumption DEF Sessions
  <2>3. session \in Nat /\ (session # 0 => session \in Sessions)
    BY BoundAssumption DEF TypeOK, Sessions
  <2> QED  BY <2>1, <2>2, <2>3 DEF Closers
<1>1. CASE pc["hook"] # "idle"
  <2>1. pc'["hook"] # "idle"
    <3>1. CASE \E c \in Closers : StopStep(c)
      <4>1. PICK c \in Closers : StopStep(c)
        BY <3>1
      <4>2. CASE c = "hook"
        <5>1. pc'[c] # "idle"
          BY <1>1, <4>1, <4>2, Goes
             DEF StopStep, BeginStop, CloseFile, ReadBack, Truncate, Rewrite, Reset, Raised
        <5> QED  BY <4>2, <5>1
      <4>3. CASE c # "hook"
        BY <1>0, <1>1, <4>1, <4>3, StopFacts
      <4> QED  BY <4>2, <4>3
    <3>2. CASE Play \/ OpenFile \/ MakeWriter \/ WriteHeader \/ SetStart
      BY <1>0, <1>1, <3>2, Goes DEF Play, OpenFile, MakeWriter, WriteHeader, SetStart
    <3>3. CASE UNCHANGED pc
      BY <1>1, <3>3
    <3> QED  BY <3>1, <3>2, <3>3 DEF Next, JsCheck, JsStamp, JsFetch, JsWrite, vars
  <2> QED  BY <2>1 DEF RowsInv, NodeUp
<1>2. CASE pc["hook"] = "idle"
  <2> USE <1>2
  <2>u. NodeUp
    BY DEF NodeUp
  <2>f. file # 0 => file = session /\ session # 0 /\ session \in Sessions
    BY <1>0 DEF AttrInv
  <2>1. CASE UNCHANGED <<file, writer, start, path, session, open, disk, log, pc, read>>
    BY <2>1 DEF RowsInv, NodeUp, Owner, Untrimmed, Left
  <2>2. CASE JsCheck \/ JsStamp \/ JsFetch
    BY <2>1, <2>2 DEF JsCheck, JsStamp, JsFetch, attrs, files
  <2>3. CASE JsWrite
    <3>1. UNCHANGED <<file, writer, start, path, session, open, pc, read>> /\ js.pc = "fetched" /\ js.to = session
          /\ session \in Sessions /\ Owner \notin {"writer", "header", "start"}
      BY <1>0, <2>3 DEF JsWrite, AttrInv, attrs
    <3>2. CASE ~open[session]
      BY <2>1, <2>3, <3>1, <3>2 DEF JsWrite
    <3>3. CASE open[session]
      <4>1. /\ disk' = [disk EXCEPT ![session] = Append(disk[session], Sample(js.time))]
            /\ log' = [log EXCEPT ![session] = Append(log[session], js.time)]
        BY <2>3, <3>1, <3>3 DEF JsWrite
      <4>2. /\ disk'[session] = Append(disk[session], Sample(js.time))
            /\ log'[session] = Append(log[session], js.time)
            /\ \A k \in Sessions : k # session => disk'[k] = disk[k] /\ log'[k] = log[k]
        BY <3>1, <4>1 DEF TypeOK
      <4>3. file = session /\ Owner \notin {"reset", "play", "trim", "truncate", "rewrite", "writer", "header", "start"}
        BY <1>0, <2>u, <3>1, <3>3 DEF OpenInv, Owner
      <4>4. Owner' = Owner /\ NodeUp'
        BY <2>u, <3>1 DEF Owner, NodeUp
      <4>5. ASSUME NEW k \in Sessions, k < session' \/ (k = session' /\ (file' = 0 \/ Owner' = "reset"))
            PROVE  disk'[k] = Left(log'[k])
        <5>1. k < session /\ k # session
          BY <1>0, <3>1, <4>3, <4>4, <4>5
        <5> QED  BY <2>u, <4>2, <5>1 DEF RowsInv
      <4>6. ASSUME Owner' \in {"start", "idle", "close", "trim"} PROVE Untrimmed(disk'[session'], log'[session'])
        <5>1. Untrimmed(disk[session], log[session])
          BY <1>0, <2>u, <3>1, <4>3, <4>4, <4>6 DEF RowsInv
        <5>2. js.time \in Nat
          BY BoundAssumption DEF TypeOK
        <5>3. Untrimmed(Append(disk[session], Sample(js.time)), Append(log[session], js.time))
          BY <1>0, <3>1, <5>1, <5>2, OneMore
        <5> QED  BY <3>1, <4>2, <5>3
      <4>7. Owner' \in {"idle", "close", "trim"} => path' = session'
        BY <1>0, <2>u, <3>1, <4>3, <4>4 DEF RowsInv
      <4>8. Owner' # "raised"
        BY <2>u, <4>4 DEF RowsInv
      <4>9. \A k \in Sessions : k < session' \/ (k = session' /\ (file' = 0 \/ Owner' = "reset")) => disk'[k] = (Left(log[k]))'
        BY <4>5 DEF Left
      <4>10. Owner' \in {"start", "idle", "close", "trim"} => Untrimmed(disk[session], log[session])'
        BY <4>6 DEF Untrimmed
      <4>11. file' # 0
        BY <1>0, <3>1, <4>3
      <4>12. Owner' \notin {"writer", "header", "start", "trim", "truncate", "rewrite"}
        BY <4>3, <4>4
      <4> QED  BY <4>7, <4>8, <4>9, <4>10, <4>11, <4>12 DEF RowsInv
    <3> QED  BY <3>2, <3>3
  <2>4. CASE Play
    <3>1. UNCHANGED <<file, writer, start, path, session, open, disk, log, read>> /\ Owner' = "play" /\ Owner = "idle" /\ file = 0
      BY <1>0, <2>4, Goes DEF Play, Owner, attrs, files
    <3> QED  BY <2>u, <3>1 DEF RowsInv, Left
  <2>5. CASE OpenFile
    <3>1. /\ Owner' = "writer" /\ Owner = "play" /\ session' = session + 1 /\ file' = session' /\ UNCHANGED <<disk, log>>
          /\ open' = [open EXCEPT ![session'] = TRUE]
      BY <1>0, <2>5, Goes DEF OpenFile, Owner
    <3>2. file = 0 /\ session < MaxSessions
      BY <3>1 DEF AttrInv
    <3>3. session' \in Sessions /\ file' # 0
      BY <1>0, <3>1, <3>2, BoundAssumption DEF Sessions
    <3>4. open'[session']
      BY <3>1, <3>3 DEF TypeOK
    <3>5. ASSUME NEW k \in Sessions, k < session' \/ (k = session' /\ (file' = 0 \/ Owner' = "reset"))
          PROVE  disk'[k] = (Left(log[k]))'
      <4>1. k < session \/ k = session
        BY <1>0, <3>1, <3>3, <3>5
      <4>2. disk[k] = Left(log[k])
        BY <2>u, <3>2, <4>1 DEF RowsInv
      <4> QED  BY <3>1, <4>2 DEF Left
    <3> QED  BY <3>1, <3>3, <3>4, <3>5 DEF RowsInv
  <2>6. CASE MakeWriter
    <3>1. /\ Owner' = "header" /\ Owner = "writer" /\ writer' = file /\ UNCHANGED <<file, start, path, session, open, disk, log, read>>
      BY <1>0, <2>6, Goes DEF MakeWriter, Owner, files
    <3>2. file # 0 /\ open[session]
      BY <2>u, <3>1 DEF RowsInv
    <3> QED  BY <2>u, <3>1, <3>2 DEF RowsInv, Left
  <2>7. CASE WriteHeader
    <3>1. Owner = "header" /\ UNCHANGED <<file, writer, start, path, session, open, log, read>>
      BY <1>0, <2>7, Goes DEF WriteHeader, Owner, attrs
    <3>2. file # 0 /\ open[session] /\ writer = session /\ session \in Sessions /\ file = session /\ session # 0
      BY <1>0, <2>f, <2>u, <3>1 DEF RowsInv
    <3>3. Owner' = "start" /\ disk' = [disk EXCEPT ![session] = Append(disk[session], Header)]
      BY <1>0, <2>7, <3>2, Goes DEF WriteHeader, Owner
    <3>4. disk[session] = <<>> /\ log[session] = <<>>
      BY <3>1 DEF HeaderInv
    <3>5. /\ disk'[session] = Append(<<>>, Header)
          /\ \A k \in Sessions : k # session => disk'[k] = disk[k]
      BY <3>2, <3>3, <3>4, OneFile
    <3>6. Untrimmed(Append(<<>>, Header), <<>>)
      BY DEF Untrimmed
    <3>7. Untrimmed(disk[session], log[session])'
      BY <3>1, <3>4, <3>5, <3>6 DEF Untrimmed
    <3>8. ASSUME NEW k \in Sessions, k < session' \/ (k = session' /\ (file' = 0 \/ Owner' = "reset"))
          PROVE  disk'[k] = (Left(log[k]))'
      <4>1. k < session /\ k # session
        BY <1>0, <3>1, <3>2, <3>3, <3>8
      <4>2. disk[k] = Left(log[k])
        BY <2>u, <4>1 DEF RowsInv
      <4> QED  BY <3>1, <3>5, <4>1, <4>2 DEF Left
    <3> QED  BY <3>1, <3>2, <3>3, <3>7, <3>8 DEF RowsInv
  <2>8. CASE SetStart
    <3>1. /\ Owner' = "idle" /\ Owner = "start" /\ path' = session /\ UNCHANGED <<file, writer, session, open, disk, log, read>>
      BY <1>0, <2>8, Goes DEF SetStart, Owner, files
    <3>2. file # 0 /\ Untrimmed(disk[session], log[session])
      BY <2>u, <3>1 DEF RowsInv
    <3> QED  BY <2>u, <3>1, <3>2 DEF RowsInv, Left, Untrimmed
  <2>9. CASE StopStep("hook")
    <3>1. pc'["hook"] # "idle"
      BY <1>0, <2>9, Goes DEF StopStep, BeginStop, CloseFile, ReadBack, Truncate, Rewrite, Reset, Raised
    <3> QED  BY <3>1 DEF RowsInv, NodeUp
  <2>10. CASE StopStep("owner")
    <3>0. session' = session /\ log' = log
      BY <1>0, <2>10, StopFacts
    <3>1. CASE BeginStop("owner")
      <4>1. Owner = "idle" /\ Owner' = (IF file # 0 THEN "close" ELSE "reset")
            /\ UNCHANGED <<file, writer, start, path, session, open, disk, log, read>>
        BY <1>0, <3>1, Goes DEF BeginStop, Owner, attrs, files
      <4> QED  BY <2>u, <4>1 DEF RowsInv, Left, Untrimmed
    <3>2. CASE CloseFile("owner")
      <4>1. Owner = "close"
        BY <3>2 DEF CloseFile, Owner
      <4>2. file # 0
        BY <2>u, <4>1 DEF RowsInv
      <4>3. Owner' = "trim" /\ UNCHANGED <<file, writer, start, path, session, disk, log, read>>
        BY <1>0, <3>2, <4>2, Goes DEF CloseFile, Owner, attrs
      <4> QED  BY <2>u, <4>1, <4>2, <4>3 DEF RowsInv, Left, Untrimmed
    <3>3. CASE ReadBack("owner")
      <4>1. Owner = "trim" /\ UNCHANGED <<file, writer, start, path, session, open, disk, log>>
        BY <3>3 DEF ReadBack, Owner, attrs, files
      <4>2. file # 0 /\ path = session /\ Untrimmed(disk[session], log[session]) /\ session \in Sessions /\ session # 0
        BY <2>f, <2>u, <4>1 DEF RowsInv
      <4>3. disk[session] # <<>>
        <5>1. Len(log[session]) \in Nat /\ Len(disk[session]) = Len(log[session]) + 1
          BY <1>0, <4>2, LenProperties DEF Untrimmed
        <5> QED  BY <5>1, EmptySeq
      <4>4. CASE Len(disk[session]) - 1 <= TrimRows
        <5>1. Owner' = "reset" /\ read' = read
          <6>1. Len(disk[session]) \in Nat /\ TrimRows \in Nat
            BY <1>0, <4>2, LenProperties, BoundAssumption
          <6>2. ~(Len(disk[session]) - 1 > TrimRows)
            BY <4>4, <6>1
          <6> QED  BY <1>0, <3>3, <4>2, <4>3, <6>2, Goes DEF ReadBack, Owner
        <5>2. disk[session] = Left(log[session])
          BY <1>0, <4>2, <4>4, FewLeft
        <5>3. \A k \in Sessions : k < session \/ k = session => disk[k] = Left(log[k])
          BY <2>u, <5>2 DEF RowsInv
        <5>4. \A k \in Sessions : k < session' \/ (k = session' /\ (file' = 0 \/ Owner' = "reset")) => disk'[k] = (Left(log[k]))'
          BY <4>1, <5>3 DEF Left
        <5> QED  BY <4>1, <4>2, <5>1, <5>4 DEF RowsInv
      <4>5. CASE Len(disk[session]) - 1 > TrimRows
        <5>1. Owner' = "truncate" /\ read' = [read EXCEPT !["owner"] = [to |-> path, rows |-> disk[path]]]
          <6>1. Len(disk[session]) \in Nat /\ TrimRows \in Nat
            BY <1>0, <4>2, LenProperties, BoundAssumption
          <6>2. ~(Len(disk[session]) - 1 <= TrimRows)
            BY <4>5, <6>1
          <6> QED  BY <1>0, <3>3, <4>2, <4>3, <6>2, Goes DEF ReadBack, Owner
        <5>2. read'["owner"].rows = disk[session]
          BY <1>0, <4>2, <5>1 DEF TypeOK
        <5>3. Untrimmed(read["owner"].rows, log[session])'
          BY <4>1, <4>2, <5>2 DEF Untrimmed
        <5>4. ASSUME NEW k \in Sessions, k < session' \/ (k = session' /\ (file' = 0 \/ Owner' = "reset"))
              PROVE  disk'[k] = (Left(log[k]))'
          <6>1. k < session
            BY <4>1, <4>2, <5>1, <5>4
          <6>2. disk[k] = Left(log[k])
            BY <2>u, <6>1 DEF RowsInv
          <6> QED  BY <4>1, <6>2 DEF Left
        <5> QED  BY <4>1, <4>2, <5>1, <5>3, <5>4 DEF RowsInv
      <4>6. Len(disk[session]) - 1 <= TrimRows \/ Len(disk[session]) - 1 > TrimRows
        BY <1>0, <4>2, LenProperties, BoundAssumption
      <4> QED  BY <4>4, <4>5, <4>6
    <3>4. CASE Truncate("owner") \/ Rewrite("owner")
      <4>1. Owner \in {"truncate", "rewrite"} /\ UNCHANGED <<file, writer, start, path, session, open, log>>
        BY <3>4 DEF Truncate, Rewrite, Owner, attrs
      <4>2. /\ read["owner"].to = session /\ Len(read["owner"].rows) - 1 > TrimRows
            /\ file # 0 /\ session \in Sessions /\ Untrimmed(read["owner"].rows, log[session])
            /\ read["owner"].rows \in Seq(Rows)
        BY <1>0, <2>f, <2>u, <4>1 DEF HeaderInv, RowsInv, Owner, TypeOK
      <4>3. \A k \in Sessions : k # session => disk'[k] = disk[k]
        BY <3>4, <4>2 DEF Truncate, Rewrite, TypeOK
      <4>4. ASSUME NEW k \in Sessions, k < session PROVE disk'[k] = (Left(log[k]))'
        <5>1. k # session
          BY <1>0, <4>4
        <5>2. disk[k] = Left(log[k])
          BY <2>u, <4>4 DEF RowsInv
        <5> QED  BY <4>1, <4>3, <5>1, <5>2 DEF Left
      <4>5. CASE Truncate("owner")
        <5>1. Owner' = "rewrite" /\ read' = read
          BY <1>0, <4>5, Goes DEF Truncate, Owner
        <5>2. Untrimmed(read["owner"].rows, log[session])'
          BY <4>1, <4>2, <5>1 DEF Untrimmed
        <5> QED  BY <4>1, <4>2, <4>4, <5>1, <5>2 DEF RowsInv
      <4>6. CASE Rewrite("owner")
        <5>1. Owner' = "reset" /\ disk' = [disk EXCEPT ![session] = Trimmed(read["owner"].rows)]
          BY <1>0, <4>2, <4>6, Goes DEF Rewrite, Owner
        <5>2. disk'[session] = Trimmed(read["owner"].rows)
          BY <4>2, <5>1, OneFile
        <5>3. Trimmed(read["owner"].rows) = Left(log[session])
          BY <1>0, <4>2, TrimmedLeft
        <5>4. disk'[session] = (Left(log[session]))'
          BY <4>1, <5>2, <5>3 DEF Left
        <5>5. \A k \in Sessions : k < session' \/ (k = session' /\ (file' = 0 \/ Owner' = "reset")) => disk'[k] = (Left(log[k]))'
          BY <4>1, <4>4, <5>4
        <5> QED  BY <4>1, <4>2, <5>1, <5>5 DEF RowsInv
      <4> QED  BY <3>4, <4>5, <4>6
    <3>5. CASE Reset("owner")
      <4>1. Owner = "reset" /\ Owner' = "idle" /\ file' = 0 /\ start' = 0 /\ path' = 0 /\ UNCHANGED <<session, disk, log, read>>
        BY <1>0, <3>5, Goes DEF Reset, Owner, files
      <4> QED  BY <2>u, <4>1 DEF RowsInv, Left
    <3>6. CASE Raised("owner")
      BY <2>u, <3>6 DEF Raised, RowsInv, Owner
    <3> QED  BY <2>10, <3>1, <3>2, <3>3, <3>4, <3>5, <3>6 DEF StopStep
  <2>11. CASE UNCHANGED vars
    BY <2>1, <2>11 DEF vars, attrs, files
  <2> QED  BY <2>2, <2>3, <2>4, <2>5, <2>6, <2>7, <2>8, <2>9, <2>10, <2>11 DEF Next, Closers
<1> QED  BY <1>1, <1>2

-----------------------------------------------------------------------------
(* The theorems *)

\* The inductive invariant.
CaptureInv == TypeOK /\ AttrInv /\ OpenInv /\ HeaderInv /\ RowsInv

\* The invariant holds in every reachable state.
LEMMA CaptureInvariant == Spec => []CaptureInv
<1>1. Init => CaptureInv
  BY InitAll DEF CaptureInv
<1>2. CaptureInv /\ [Next]_vars => CaptureInv'
  BY NextType, NextAttr, NextOpen, NextHeader, NextRows DEF CaptureInv
<1> QED  BY <1>1, <1>2, PTL DEF Spec

\* No thread writes to a capture that was never opened, and every variable keeps its type, whoever closes
\* a capture and whenever (_start_capture, _stop_capture, _trim_capture, _real_js_callback).
THEOREM CaptureTypes == Spec => []TypeOK
<1>1. CaptureInv => TypeOK
  BY DEF CaptureInv
<1> QED  BY <1>1, CaptureInvariant, PTL

\* The header always comes first, a shutdown included, and while the node is up a capture that is over has
\* lost its leading rows once and only once, for every TrimRows (_trim_capture).
THEOREM AlwaysTrimmedOnce == Spec => []TrimmedOnce
<1>1. CaptureInv => TrimmedOnce
  <2> SUFFICES ASSUME CaptureInv PROVE TrimmedOnce
    OBVIOUS
  <2>1. \A k \in Sessions : \A i \in 1..Len(disk[k]) : disk[k][i].kind = "header" <=> i = 1
    BY DEF CaptureInv, HeaderInv, WithHeader
  <2>2. ASSUME NodeUp, NEW k \in Sessions, Over(k) PROVE disk[k] = Left(log[k])
    <3>1. k < session \/ (k = session /\ file = 0)
      <4>1. k <= session /\ file # k /\ file \in {0, session} /\ k \in Nat /\ session \in Nat
        BY <2>2, BoundAssumption DEF CaptureInv, AttrInv, TypeOK, Over, Sessions
      <4> QED  BY <4>1
    <3> QED  BY <2>2, <3>1 DEF CaptureInv, RowsInv
  <2> QED  BY <2>1, <2>2 DEF TrimmedOnce, Left
<1> QED  BY <1>1, CaptureInvariant, PTL

\* A late encoder callback never writes to a capture its owner is done with, until a shutdown
\* (_real_js_callback against _stop_capture).
THEOREM AlwaysClosedIsFinal == Spec => ClosedIsFinal
<1>1. CaptureInv /\ [Next]_vars => [NodeUp => \A k \in Sessions : Over(k) => disk'[k] = disk[k]]_vars
  <2> SUFFICES ASSUME CaptureInv, [Next]_vars, NodeUp, NEW k \in Sessions, Over(k)
               PROVE  disk'[k] = disk[k]
    OBVIOUS
  <2> USE DEF CaptureInv
  <2>1. file # k /\ \A c \in Closers : pc[c] \in {"idle", "done"}
    BY DEF Over
  <2>2. CASE JsWrite /\ open[js.to]
    <3>1. js.to = session /\ session \in Sessions
      BY <2>2, BoundAssumption DEF JsWrite, AttrInv, TypeOK, Sessions
    <3>2. k # session
      BY <2>1, <2>2, <3>1 DEF OpenInv
    <3>3. disk' = [disk EXCEPT ![session] = Append(disk[session], Sample(js.time))]
      BY <2>2, <3>1 DEF JsWrite
    <3> QED  BY <3>1, <3>2, <3>3 DEF TypeOK
  <2>3. CASE WriteHeader \/ \E c \in Closers : Truncate(c) \/ Rewrite(c)
    BY <2>1, <2>3 DEF WriteHeader, Truncate, Rewrite, Closers
  <2>4. CASE UNCHANGED disk
    BY <2>4
  <2> QED
    BY <2>2, <2>3, <2>4 DEF Next, StopStep, JsCheck, JsStamp, JsFetch, JsWrite, Play, OpenFile, MakeWriter,
       SetStart, BeginStop, CloseFile, ReadBack, Reset, Raised, files, vars
<1> QED  BY <1>1, CaptureInvariant, PTL DEF Spec, ClosedIsFinal

=============================================================================
