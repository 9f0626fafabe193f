----------------------------- MODULE CaptureLog -----------------------------
(***************************************************************************)
(* The joint-angle CSV of a playback (_start_capture, _stop_capture,       *)
(* _trim_capture, _real_js_callback of arm_bag_recorder.py), attribute     *)
(* access by attribute access.  Three threads meet in it: the encoder      *)
(* callback writes rows and takes no lock; the owner, which is the command *)
(* or the timer under _state_lock, opens and closes; the shutdown hook     *)
(* closes without the lock.  An exception in any of them ends that call    *)
(* where it is raised.  BagRecorder sees all of this as its variable       *)
(* capture.                                                                *)
(***************************************************************************)
EXTENDS Integers, Sequences

CONSTANTS
    TrimRows,     \* CAPTURE_TRIM_ROWS of the playback mode
    MayShutdown,  \* whether the shutdown hook may run
    MaxSessions,  \* bound: captures opened
    MaxRows       \* bound: encoder samples per capture

ASSUME BoundAssumption == TrimRows \in Nat \ {0} /\ MaxSessions \in Nat /\ MaxRows \in Nat

VARIABLES
    file, writer, start, path,  \* the attributes, the session's number or 0 for None
    session,  \* captures opened so far
    clock,    \* samples stamped in the current session: its elapsed time
    open,     \* for each session, whether its file handle is open
    disk,     \* for each session, the rows of its file
    log,      \* history: for each session, the times of the rows written
    js,       \* the encoder callback
    pc,       \* where the owner and the hook are
    read      \* what each of them has read back to trim: the path and its rows

attrs == <<file, writer, start, path>>
files == <<open, disk, log>>
vars  == <<attrs, session, clock, files, js, pc, read>>

Closers  == {"owner", "hook"}
Sessions == 1..MaxSessions
Header   == [kind |-> "header", time |-> 0]
Sample(t) == [kind |-> "data", time |-> t]
JsIdle   == [pc |-> "idle", time |-> 0, to |-> 0]
Nothing  == [to |-> 0, rows |-> <<>>]

Init ==
    /\ file = 0 /\ writer = 0 /\ start = 0 /\ path = 0
    /\ session = 0 /\ clock = 0
    /\ open = [k \in Sessions |-> FALSE]
    /\ disk = [k \in Sessions |-> <<>>]
    /\ log  = [k \in Sessions |-> <<>>]
    /\ js = JsIdle
    /\ pc = [c \in Closers |-> "idle"]
    /\ read = [c \in Closers |-> Nothing]

Goto(c, l) == pc' = [pc EXCEPT ![c] = l]

---------------------------------------------------------------------------
(* _real_js_callback                                                       *)

\* `if self._capture_writer is not None`
JsCheck ==
    /\ js.pc = "idle" /\ writer # 0 /\ clock < MaxRows
    /\ js' = [js EXCEPT !.pc = "checked"]
    /\ UNCHANGED <<attrs, session, clock, files, pc, read>>

\* The elapsed time; no start time is an exception.
JsStamp ==
    /\ js.pc = "checked"
    /\ IF start # 0
       THEN clock' = clock + 1 /\ js' = [js EXCEPT !.pc = "stamped", !.time = clock + 1]
       ELSE clock' = clock /\ js' = JsIdle
    /\ UNCHANGED <<attrs, session, files, pc, read>>

\* The writer is looked up again for the call.
JsFetch ==
    /\ js.pc = "stamped"
    /\ js' = IF writer # 0 THEN [js EXCEPT !.pc = "fetched", !.to = writer] ELSE JsIdle
    /\ UNCHANGED <<attrs, session, clock, files, pc, read>>

\* writerow; on a closed file it raises.
JsWrite ==
    /\ js.pc = "fetched" /\ js' = JsIdle
    /\ IF open[js.to]
       THEN /\ disk' = [disk EXCEPT ![js.to] = Append(@, Sample(js.time))]
            /\ log' = [log EXCEPT ![js.to] = Append(@, js.time)]
       ELSE UNCHANGED <<disk, log>>
    /\ UNCHANGED <<attrs, session, clock, open, pc, read>>

---------------------------------------------------------------------------
(* _start_capture, by the owner                                            *)

\* A PLAY, taken while the node is up, after the last capture was stopped.
Play ==
    /\ pc["owner"] = "idle" /\ pc["hook"] = "idle" /\ file = 0 /\ session < MaxSessions
    /\ Goto("owner", "play")
    /\ UNCHANGED <<attrs, session, clock, files, js, read>>

\* Its peek and pre-positioning lie between the last capture and this one: no
\* encoder callback spans them.
OpenFile ==
    /\ pc["owner"] = "play" /\ js.pc = "idle"
    /\ session' = session + 1 /\ clock' = 0
    /\ file' = session' /\ open' = [open EXCEPT ![session'] = TRUE]
    /\ Goto("owner", "writer")
    /\ UNCHANGED <<writer, start, path, disk, log, js, read>>

MakeWriter ==
    /\ pc["owner"] = "writer"
    /\ writer' = file
    /\ Goto("owner", "header")
    /\ UNCHANGED <<file, start, path, session, clock, files, js, read>>

\* The header; no writer, or a closed file, is an exception.
WriteHeader ==
    /\ pc["owner"] = "header"
    /\ IF writer # 0 /\ open[writer]
       THEN disk' = [disk EXCEPT ![writer] = Append(@, Header)] /\ Goto("owner", "start")
       ELSE UNCHANGED disk /\ Goto("owner", "idle")
    /\ UNCHANGED <<attrs, session, clock, open, log, js, read>>

SetStart ==
    /\ pc["owner"] = "start"
    /\ start' = session /\ path' = session
    /\ Goto("owner", "idle")
    /\ UNCHANGED <<file, writer, session, clock, files, js, read>>

---------------------------------------------------------------------------
(* _stop_capture and _trim_capture, by the owner or the hook               *)

\* The owner is asked to stop, or sees the end of the bag; the hook runs once.
BeginStop(c) ==
    /\ pc[c] = "idle"
    /\ c = "owner" => session # 0
    /\ c = "hook" => MayShutdown
    /\ IF file # 0 THEN Goto(c, "close") ELSE Goto(c, "reset")
    /\ UNCHANGED <<attrs, session, clock, files, js, read>>

\* Mutant: the file is trimmed before it is closed.
CloseFileLater(c) ==
    /\ pc[c] = "close"
    /\ Goto(c, "trim")
    /\ UNCHANGED <<attrs, session, clock, files, js, read>>

\* close(): harmless when closed already, an exception when None by now.
CloseFile(c) ==
    /\ pc[c] = "close"
    /\ IF file # 0
       THEN open' = [open EXCEPT ![file] = FALSE] /\ Goto(c, "trim")
       ELSE UNCHANGED open /\ Goto(c, "raised")
    /\ UNCHANGED <<attrs, session, clock, disk, log, js, read>>

\* The rows are read back.  Without a path there is nothing to trim or an
\* exception; an empty file has no header, which raises; too few rows are left.
ReadBack(c) ==
    /\ pc[c] = "trim"
    /\ \/ path = 0 /\ (Goto(c, "reset") \/ Goto(c, "raised")) /\ UNCHANGED read
       \/ path # 0 /\ disk[path] = <<>> /\ Goto(c, "raised") /\ UNCHANGED read
       \/ /\ path # 0 /\ disk[path] # <<>>
          /\ Len(disk[path]) - 1 <= TrimRows
          /\ Goto(c, "reset") /\ UNCHANGED read
       \/ /\ path # 0 /\ Len(disk[path]) - 1 > TrimRows
          /\ read' = [read EXCEPT ![c] = [to |-> path, rows |-> disk[path]]]
          /\ Goto(c, "truncate")
    /\ UNCHANGED <<attrs, session, clock, files, js>>

\* open(path, "w"): what was there is gone.
Truncate(c) ==
    /\ pc[c] = "truncate"
    /\ disk' = [disk EXCEPT ![read[c].to] = <<>>]
    /\ Goto(c, "rewrite")
    /\ UNCHANGED <<attrs, session, clock, open, log, js, read>>

\* Mutant: the times are left as they are.
TrimmedWrong(rows) == <<Header>> \o SubSeq(rows, TrimRows + 2, Len(rows))

\* The header, then the rows kept, their times from the first one on.
Trimmed(rows) ==
    LET kept == SubSeq(rows, TrimRows + 2, Len(rows))
        t0   == kept[1].time
    IN  <<Header>> \o [i \in 1..Len(kept) |-> Sample(kept[i].time - t0)]

Rewrite(c) ==
    /\ pc[c] = "rewrite"
    /\ disk' = [disk EXCEPT ![read[c].to] = Trimmed(read[c].rows)]
    /\ read' = [read EXCEPT ![c] = Nothing]
    /\ Goto(c, "reset")
    /\ UNCHANGED <<attrs, session, clock, open, log, js>>

\* All attributes None.  The owner is free for the next capture; the hook is
\* not run again.
Reset(c) ==
    /\ pc[c] = "reset"
    /\ file' = 0 /\ writer' = 0 /\ start' = 0 /\ path' = 0
    /\ Goto(c, IF c = "owner" THEN "idle" ELSE "done")
    /\ UNCHANGED <<session, clock, files, js, read>>

\* An exception leaves the attributes: the owner may be asked to stop again.
Raised(c) ==
    /\ pc[c] = "raised"
    /\ Goto(c, IF c = "owner" THEN "idle" ELSE "done")
    /\ UNCHANGED <<attrs, session, clock, files, js, read>>

StopStep(c) ==
    \/ BeginStop(c) \/ CloseFile(c) \/ ReadBack(c) \/ Truncate(c) \/ Rewrite(c)
    \/ Reset(c) \/ Raised(c)

Next ==
    \/ JsCheck \/ JsStamp \/ JsFetch \/ JsWrite
    \/ Play \/ OpenFile \/ MakeWriter \/ WriteHeader \/ SetStart
    \/ \E c \in Closers : StopStep(c)

Spec == Init /\ [][Next]_vars

---------------------------------------------------------------------------
(* Properties                                                              *)

Rows == [kind: {"header", "data"}, time: Int]

\* Types; no thread writes to, or trims, a capture that was never opened.
TypeOK ==
    /\ {file, writer, start, path, session} \subseteq 0..MaxSessions /\ clock \in 0..MaxRows
    /\ open \in [Sessions -> BOOLEAN]
    /\ disk \in [Sessions -> Seq(Rows)] /\ log \in [Sessions -> Seq(Nat)]
    /\ js \in [pc: {"idle", "checked", "stamped", "fetched"}, time: 0..MaxRows,
               to: 0..MaxSessions]
    /\ pc \in [Closers -> {"idle", "play", "writer", "header", "start", "close", "trim", "truncate",
                           "rewrite", "reset", "raised", "done"}]
    /\ read \in [Closers -> [to: 0..MaxSessions, rows: Seq(Rows)]]

\* A file never holds a sample before its header, for the lock-free callback has no start
\* time to subtract until then; and while the node is up, a capture that is over holds all of its samples but
\* the leading TrimRows, the times from zero on, or all of them as they were if
\* there are too few.
Over(k) ==
    /\ k <= session /\ file # k /\ log[k] # <<>>
    /\ \A c \in Closers : pc[c] \in {"idle", "done"}
NodeUp == pc["hook"] = "idle"
TrimmedOnce ==
    /\ \A k \in Sessions : \A i \in 1..Len(disk[k]) : disk[k][i].kind = "header" <=> i = 1
    /\ NodeUp => \A k \in Sessions : Over(k) =>
        LET n == Len(log[k]) IN
        IF n <= TrimRows THEN disk[k] = <<Header>> \o [i \in 1..n |-> Sample(log[k][i])]
        ELSE disk[k] = <<Header>> \o
               [i \in 1..(n - TrimRows) |->
                   Sample(log[k][i + TrimRows] - log[k][1 + TrimRows])]

\* Nothing is written to a capture once its owner is done with it, until a
\* shutdown.
ClosedIsFinal == [][NodeUp => \A k \in Sessions : Over(k) => disk'[k] = disk[k]]_vars
=============================================================================
