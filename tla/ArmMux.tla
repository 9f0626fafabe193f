------------------------------ MODULE ArmMux -------------------------------
(***************************************************************************)
(* What the recorder/player multiplexer promises to the dashboard and to   *)
(* Unity, who see only /sgr532/bag_status and the files of the slots:      *)
(* it is in one mode at a time for one slot, leaves a mode only to IDLE, a *)
(* playback ends by itself, a slot is played only if something is stored   *)
(* in it, and the content of a slot is replaced only by recording into     *)
(* that slot, and erased only while nothing is running.                    *)
(***************************************************************************)
CONSTANTS Slots, NoSlot

VARIABLES
    mode,    \* the mode /sgr532/bag_status reports
    slot,    \* the slot it reports, NoSlot when IDLE
    stored   \* for each slot, whether it holds something PLAY would find

avars == <<mode, slot, stored>>

Playing == mode \in {"PLAYING", "PLAYING_EE"}

Init ==
    /\ mode = "IDLE" /\ slot = NoSlot
    /\ stored \in [Slots -> BOOLEAN]

\* A recording starts in an emptied slot.
Record(s) ==
    /\ mode = "IDLE" /\ mode' = "RECORDING" /\ slot' = s
    /\ stored' = [stored EXCEPT ![s] = FALSE]

\* The recorder has put the first data of the recording on disk.
Save ==
    /\ mode = "RECORDING" /\ ~stored[slot]
    /\ stored' = [stored EXCEPT ![slot] = TRUE]
    /\ UNCHANGED <<mode, slot>>

Play(s) ==
    /\ mode = "IDLE" /\ stored[s]
    /\ mode' \in {"PLAYING", "PLAYING_EE"} /\ slot' = s
    /\ UNCHANGED stored

\* Back to IDLE, because of a command or because the bag has ended.
Return ==
    /\ mode # "IDLE" /\ mode' = "IDLE" /\ slot' = NoSlot
    /\ UNCHANGED stored

\* A CLEAR, or a RECORD whose recorder could not be started.
Erase(s) ==
    /\ mode = "IDLE"
    /\ stored' = [stored EXCEPT ![s] = FALSE]
    /\ UNCHANGED <<mode, slot>>

Next ==
    \/ \E s \in Slots : Record(s) \/ Play(s) \/ Erase(s)
    \/ Save \/ Return

Spec == Init /\ [][Next]_avars
\* A playback ends without any command.
FairSpec == Spec /\ WF_avars(Playing /\ Return)
=============================================================================
