------------------------------ MODULE RunPromise ------------------------------
(***************************************************************************)
(* What a run promises its host and its consumer, without how it works.    *)
(*                                                                         *)
(* It acts on the outside world until it is stopped or its status is       *)
(* recorded.  It records a status, possibly over an earlier one that it    *)
(* could not show, and shows the consumer at most one: a status that is    *)
(* recorded in the same moment, is never recorded over, and is a success   *)
(* only of work that was finished.  A run may also end without showing     *)
(* anything, and then nothing changes any more.                            *)
(***************************************************************************)

VARIABLES
    stopped,    \* someone asked the run to stop, or its time is over
    effects,    \* what it did to the outside world
    finished,   \* its work is done
    recorded,   \* its status in the transcript, or "none"
    shown,      \* the status its consumer was told, or "none"
    over

promised == <<stopped, effects, finished, recorded, shown, over>>

Status == {"succeeded", "failed", "cancelled", "waiting"}

Open == ~over /\ shown = "none"

Init ==
    /\ stopped = FALSE /\ finished = FALSE /\ over = FALSE
    /\ recorded = "none" /\ shown = "none"

Stop ==
    /\ ~over /\ ~stopped
    /\ stopped' = TRUE
    /\ UNCHANGED <<effects, finished, recorded, shown, over>>

Act ==
    /\ Open /\ ~stopped /\ recorded = "none"
    /\ effects' # effects
    /\ UNCHANGED <<stopped, finished, recorded, shown, over>>

FinishWork ==
    /\ Open /\ recorded = "none"
    /\ finished' = TRUE
    /\ UNCHANGED <<stopped, effects, recorded, shown, over>>

Record ==
    /\ Open
    /\ recorded' \in Status
    /\ UNCHANGED <<stopped, effects, finished, shown, over>>

Show ==
    /\ Open
    /\ shown' \in Status /\ recorded' = shown'
    /\ shown' = "succeeded" => finished
    /\ UNCHANGED <<stopped, effects, finished, over>>

\* A run that ends without having told its consumer stops what is left of it.
End ==
    /\ ~over
    /\ over' = TRUE /\ stopped' \in {stopped, TRUE}
    /\ UNCHANGED <<effects, finished, recorded, shown>>

Next == Stop \/ Act \/ FinishWork \/ Record \/ Show \/ End

Spec == Init /\ [][Next]_promised

=============================================================================
