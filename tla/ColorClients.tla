----------------------------- MODULE ColorClients -----------------------------
(***************************************************************************)
(* The clients of the pick and place server, one of them at a time: colour *)
(* classification (color_classification.py), the same with fixed boxes     *)
(* (color_classification_fixed.py) and a single grasp (grasp_once.py).     *)
(* Each is a sequence of goals with a look at the camera's detections      *)
(* between them; images arrive on a thread of their own at any time.       *)
(*                                                                         *)
(* An image shows an object or not; where in the image depends on the      *)
(* place the camera, which is on the arm, looks from.  So a position in    *)
(* pixels is that place, and "within 10 pixels" is "seen from the same     *)
(* place".  While the arm moves nothing keeps its position.                *)
(***************************************************************************)
EXTENDS GraspServer

CONSTANTS
    Programs,  \* subset of {"classify", "fixed", "once"} to look at
    Colors,    \* colours searched for
    Frames     \* images in a row that make an object found: 31 and 5 in the code

ASSUME ClientsAssumption == Programs \subseteq {"classify", "fixed", "once"} /\ Frames \in Nat \ {0}

None == "None"   \* the colour of an area that has no colour
Names == Colors \cup {None}

VARIABLES
    program,  \* which of the three runs
    cli,      \* where it is, what it waits for; history: where the arm was when the look began
    det,      \* object_dst: for each colour its position, count and found
    seen,     \* grasp_once: xc, yc
    target,   \* the colour and position handed to the grasp
    drops     \* drop_position_dst: the colours that have a place

clientVars == <<program, cli, det, seen, target, drops>>
vars == <<serverVars, clientVars>>

Unseen == "none"
Fresh  == [at |-> Unseen, cnt |-> 0, found |-> FALSE]
First(p) == IF p = "classify" THEN "left" ELSE "search"

Init ==
    /\ ServerInit
    /\ program \in Programs
    /\ cli = [pc |-> First(program), waits |-> "no", base |-> Unseen]
    /\ det = [c \in Colors |-> Fresh] /\ seen = Unseen
    /\ target \in [color : Colors, view : {Unseen}]
    /\ drops = {}

-----------------------------------------------------------------------------
(* Goals: send_goal_and_wait with 30 s, then a cancel and a wait without end. *)

Kind(pc) == CASE pc \in {"pick", "repick"} -> "pick"
              [] pc = "put"  -> "put"
              [] pc = "save" -> "save"
              [] OTHER       -> "move"
Place(pc) == CASE Kind(pc) = "pick" -> "object"
               [] pc = "put"  -> "drop"
               [] pc = "save" -> "rest"
               [] pc = "tidy" -> "search"
               [] OTHER       -> pc
Opens(pc) == Kind(pc) = "pick" \/ (program = "fixed" /\ pc = "search")

\* color_type not among the drop positions: "None" is looked up in its place, or KeyError.
HasDrop == program # "classify" \/ {target.color, None} \cap drops # {}

Send ==
    /\ cli.waits = "no" /\ cli.pc \notin {"look", "done"}
    /\ cli.pc = "put" => HasDrop
    /\ GoalArrives(Kind(cli.pc), IF Opens(cli.pc) THEN "open" ELSE "none", Place(cli.pc))
    /\ cli' = [cli EXCEPT !.waits = "result"]
    /\ UNCHANGED <<program, det, seen, target, drops>>

TimesOut ==
    /\ cli.waits = "result" /\ cli' = [cli EXCEPT !.waits = "cancelled"]
    /\ UNCHANGED <<serverVars, program, det, seen, target, drops>>

Cancel == cli.waits = "cancelled" /\ CancelArrives /\ UNCHANGED clientVars

\* What each program does next, by the result.
ClassifyNext(pc, r) ==
    CASE pc = "left"   -> "right"
      [] pc = "right"  -> "search"
      [] pc = "search" -> "look"
      [] pc = "pick"   -> (CASE r = "SUCCESS"        -> "put"
                             [] r = "PLAN_NOT_FOUND" -> "repick"
                             [] r = "GRASP_FAILD"    -> "search")
      [] pc = "repick" -> IF r = "SUCCESS" THEN "put" ELSE "search"
      [] pc = "put"    -> "search"
\* Mutant: only one of the two failures is looked for.
FixedNextOneFailure(pc, r) ==
    CASE pc = "search" -> "look"
      [] pc = "pick"   -> IF r = "PLAN_NOT_FOUND" THEN "search" ELSE "put"
      [] pc = "put"    -> "search"
FixedNext(pc, r) ==
    CASE pc = "search" -> "look"
      [] pc = "pick"   -> IF r \in {"PLAN_NOT_FOUND", "GRASP_FAILD"} THEN "search" ELSE "put"
      [] pc = "put"    -> "search"
OnceNext(pc, r) ==
    CASE pc = "search" -> "look"
      [] pc = "pick"   -> "put"
      [] pc = "put"    -> "tidy"
      [] pc = "tidy"   -> "save"
      [] pc = "save"   -> "done"
NextPc(pc, r) == CASE program = "classify" -> ClassifyNext(pc, r)
                   [] program = "fixed"    -> FixedNext(pc, r)
                   [] program = "once"     -> OnceNext(pc, r)

\* Mutant: what was found stays found.
ResetNothing(next) == det

\* FoundObject starts afresh once it has reached the search pose; the fixed version
\* forgets what it has found, not where, before it goes there.
Reset(next) ==
    CASE program = "classify" /\ next = "look" -> [c \in Colors |-> Fresh]
      [] program = "fixed" /\ next = "search"  -> [c \in Colors |-> [det[c] EXCEPT !.cnt = 0, !.found = FALSE]]
      [] program = "once" /\ next = "look"     -> [c \in Colors |-> [Fresh EXCEPT !.at = seen]]
      [] OTHER -> det

\* Averages over the two areas in sight: A and C on the left, B and D on the right.
Areas(pc) ==
    IF pc \in {"left", "right"}
    THEN \E first, second \in Names : drops' = drops \cup {first, second}
    ELSE UNCHANGED drops

Done ==
    /\ cli.waits # "no" /\ job.status = "ended"
    /\ LET next == NextPc(cli.pc, job.result)
       IN  /\ cli' = [pc |-> next, waits |-> "no", base |-> IF next = "look" THEN arm ELSE cli.base]
           /\ det' = Reset(next)
    /\ Areas(cli.pc)
    /\ UNCHANGED <<serverVars, program, seen, target>>

\* Ctrl-C: smach is preempted and every wait and sleep ends.  Also a camera that sends
\* nothing for 3 s, and DropObject's KeyError.  The server goes on with its goal.
Ends ==
    /\ cli.pc # "done" /\ cli' = [cli EXCEPT !.pc = "done", !.waits = "no"]
    /\ UNCHANGED <<serverVars, program, det, seen, target, drops>>

(* Images: image_callback *)

Looked(o) ==
    CASE o.found -> o
      [] ~o.found /\ o.at = arm /\ arm # Between ->
            IF o.cnt + 1 > Frames THEN [at |-> arm, cnt |-> 0, found |-> TRUE]
                                  ELSE [o EXCEPT !.cnt = @ + 1]
      [] OTHER -> [at |-> arm, cnt |-> 0, found |-> FALSE]

Subscribed == \/ program = "classify" /\ cli.pc = "look"
              \/ program = "fixed" /\ cli.base # Unseen /\ cli.pc # "done"

\* Colours out of sight keep their count.
Image ==
    /\ Subscribed
    /\ \E visible \in SUBSET Colors :
          det' = [c \in Colors |-> IF c \in visible THEN Looked(det[c]) ELSE det[c]]
    /\ UNCHANGED <<serverVars, program, cli, seen, target, drops>>

OnceImage ==
    /\ program = "once" /\ cli.pc # "done" /\ seen' = arm
    /\ UNCHANGED <<serverVars, program, cli, det, target, drops>>

(* Looking for an object. *)

Grasp(color, view) == target' = [color |-> color, view |-> view] /\ cli' = [cli EXCEPT !.pc = "pick"]

Find ==
    /\ program # "once" /\ cli.pc = "look"
    /\ \E c \in Colors : det[c].found /\ Grasp(c, det[c].at)
    /\ UNCHANGED <<serverVars, program, det, seen, drops>>

\* grasp_once counts its own rounds, not images.
Round ==
    /\ program = "once" /\ cli.pc = "look"
    /\ LET o    == det[target.color]
           same == seen = o.at /\ seen # Between
           cnt  == IF same THEN o.cnt + 1 ELSE 0
       IN  /\ det' = [det EXCEPT ![target.color] = [o EXCEPT !.at = seen, !.cnt = cnt]]
           /\ IF cnt < Frames THEN UNCHANGED <<cli, target>> ELSE Grasp(target.color, seen)
    /\ UNCHANGED <<serverVars, program, seen, drops>>

-----------------------------------------------------------------------------
Client == Send \/ TimesOut \/ Cancel \/ Done \/ Ends \/ Image \/ OnceImage \/ Find \/ Round

Next == (Execute /\ UNCHANGED clientVars) \/ Client

Spec == Init /\ [][Next]_vars
\* MoveIt's calls and the servo service return.
FairSpec == Spec /\ WF_vars(Execute /\ UNCHANGED clientVars)

-----------------------------------------------------------------------------
Views == Places \cup {Between, Unseen}
Objects == [at : Views, cnt : 0..Frames, found : BOOLEAN]
\* The places each program sends goals from; it has two more.
Asks  == [classify |-> {"left", "right", "search", "pick", "repick", "put"},
          fixed    |-> {"search", "pick", "put"},
          once     |-> {"search", "pick", "put", "tidy", "save"}]
Alone == {"look", "done"}
Pcs   == {"left", "right", "search", "pick", "repick", "put", "tidy", "save", "look", "done"}
Clis  == [pc : Pcs, waits : {"no", "result", "cancelled"}, base : Views]

TypeOK ==
    /\ ServerTypeOK
    /\ program \in Programs /\ cli \in Clis
    /\ cli.pc \in Asks[program] \/ (cli.pc \in Alone /\ cli.waits = "no")
    /\ det \in [Colors -> Objects]
    /\ seen \in Views /\ target \in [color : Colors, view : Views] /\ drops \subseteq Names

\* Both classification programs ask to put down only what they hold: an empty grasp is never
\* carried to a box.  Excepted are picks that were cancelled or raised, since these are
\* answered SUCCESS as well (color_classification.py:183, color_classification_fixed.py:222).
PutFollowsGrasp ==
    program # "once" /\ cli.pc = "put" /\ cli.waits = "no" => holding \/ job.raised

\* colour classification grasps at a position seen from where the arm stood when it began to
\* look, never from an earlier place (color_classification.py:124-148).
SeenWhileLooking ==
    program = "classify" /\ cli.pc = "pick" => target.view = cli.base
=============================================================================
