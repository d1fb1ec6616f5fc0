--------------------------- MODULE EngineLifecycle ---------------------------
(***************************************************************************)
(* What the engine promises of a connection, without its thread, its       *)
(* channel, its flag and its call stack.  The receiver that runs is one    *)
(* that was asked for and not withdrawn since; what is asked for is run,   *)
(* attempted or planned until it is withdrawn or a cancel is on its way;   *)
(* and the state the user interface shows tells which of it is the case.   *)
(* `wanted' and `device' are sets of at most one receiver.                 *)
(***************************************************************************)
CONSTANT Dest    \* receivers the user may ask for

VARIABLES
    wanted,      \* the receiver the user wants, if any
    device,      \* the receiver that is open, if any
    playing,     \* a file is played
    trying,      \* receivers that are being opened
    again,       \* another attempt is planned
    shown,       \* the state the user interface shows
    cancelling   \* a cancel or quit is on its way to the engine

vars == <<wanted, device, playing, trying, again, shown, cancelling>>

AtMostOne == {{}} \cup {{d} : d \in Dest}
Source == device # {} \/ playing

Init ==
    /\ wanted = {} /\ device = {} /\ playing = FALSE
    /\ trying = {} /\ again = FALSE
    /\ shown = "Disconnected"
    /\ cancelling = FALSE
-----------------------------------------------------------------------------
(* What the user asks for, when it reaches the engine. *)

Ask(d) ==
    /\ wanted' = {d}
    /\ device' = {} /\ playing' = FALSE
    /\ trying' = trying \cup {d}
    /\ again' = FALSE
    /\ UNCHANGED <<shown, cancelling>>

Withdraw ==
    /\ wanted' = {} /\ again' = FALSE
    /\ device' = {} /\ playing' = FALSE
    /\ shown' = "Disconnected"
    /\ cancelling' \in {cancelling, FALSE}
    /\ UNCHANGED trying

Play ==
    /\ wanted' = {} /\ again' = FALSE
    /\ device' = {} /\ playing' = TRUE
    /\ shown' = "Streaming"
    /\ UNCHANGED <<trying, cancelling>>

(* The end of the file, or a stop of the playback that comes too late. *)
FileEnds ==
    /\ playing' = FALSE
    /\ shown' = "Disconnected"
    /\ UNCHANGED <<wanted, device, trying, again, cancelling>>

Cancel ==
    /\ cancelling' = TRUE
    /\ UNCHANGED <<wanted, device, playing, trying, again, shown>>
-----------------------------------------------------------------------------
(* What the engine does by itself. *)

Retry ==
    /\ again /\ ~Source /\ trying = {}
    /\ trying' = wanted
    /\ UNCHANGED <<wanted, device, playing, again, shown, cancelling>>

Announce ==
    /\ trying # {} /\ wanted # {}
    /\ shown' = "Connecting"
    /\ UNCHANGED <<wanted, device, playing, trying, again, cancelling>>

(* One of the attempts is over. *)
Over ==
    /\ trying # {}
    /\ trying' \in SUBSET trying
    /\ UNCHANGED <<wanted, playing, cancelling>>

Open(d) ==
    /\ d \in trying /\ wanted # {}
    /\ device' = {d}
    /\ again' = FALSE
    /\ shown' \in {"Connecting", "Streaming"}
    /\ Over

Fail ==
    /\ wanted # {}
    /\ again' = TRUE
    /\ shown' = "Reconnecting"
    /\ Over
    /\ UNCHANGED device

(* An attempt is given up for one who wants it no more, and only then. *)
GiveUp ==
    /\ wanted = {} \/ cancelling
    /\ shown' = "Disconnected"
    /\ Over
    /\ UNCHANGED <<device, again>>

Deliver ==
    /\ Source
    /\ shown' = "Streaming"
    /\ UNCHANGED <<wanted, device, playing, trying, again, cancelling>>

Lose ==
    /\ trying = {}
    /\ device' = {} /\ playing' = FALSE
    /\ \/ wanted # {} /\ again' = TRUE /\ shown' = "Reconnecting"
       \/ (wanted = {} \/ cancelling) /\ shown' = "Disconnected" /\ UNCHANGED again
    /\ UNCHANGED <<wanted, trying, cancelling>>

Wait ==
    /\ again /\ ~Source /\ trying = {}
    /\ shown' = "Reconnecting"
    /\ UNCHANGED <<wanted, device, playing, trying, again, cancelling>>
-----------------------------------------------------------------------------
Next ==
    \/ \E d \in Dest : Ask(d) \/ Open(d)
    \/ Withdraw \/ Play \/ FileEnds \/ Cancel
    \/ Retry \/ Announce \/ Fail \/ GiveUp \/ Deliver \/ Lose \/ Wait

Spec == Init /\ [][Next]_vars
-----------------------------------------------------------------------------
(* What follows from it. *)

(* The engine serves one wish at a time, and only a wish: a receiver or a  *)
(* planned attempt belongs to a request, a file to none.                   *)
Served ==
    /\ wanted \in AtMostOne /\ device \in AtMostOne
    /\ device # {} \/ again => wanted # {}
    /\ playing => wanted = {}

(* What is wanted is not forgotten. *)
Pursued == wanted # {} /\ ~cancelling => device # {} \/ trying # {} \/ again

(* What is shown is the case, once no attempt is under way. *)
Truthful ==
    trying = {} =>
        /\ shown = "Streaming" => Source
        /\ shown = "Reconnecting" => again

Promise == Served /\ Pursued /\ Truthful
=============================================================================
