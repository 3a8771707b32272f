---------------------------- MODULE AtomicUpdate ----------------------------
(***************************************************************************)
(* What the A/B slots of the bootloader promise, with nothing of how: the  *)
(* vehicle has an image it can run or one it is about to install, never    *)
(* neither, and the runnable image only ever changes to the offered one.   *)
(* The promise may be waived, and is good again with the next offer.       *)
(***************************************************************************)
CONSTANTS
    Images,   \* signed firmware images
    NoImage

VARIABLES
    runnable, \* the image slot A verifies as, if any
    offered,  \* the image slot B verifies as, if any
    waived    \* what the promise rests on has been lost

vars == <<runnable, offered, waived>>

Init == runnable \in Images /\ offered = NoImage /\ waived = FALSE

(* A download has arrived and is verified.                                 *)
Offer ==
    /\ offered = NoImage
    /\ offered' \in Images
    /\ UNCHANGED runnable

(* The offer is given up: only while there is something to run.            *)
Discard ==
    /\ runnable # NoImage
    /\ offered' = NoImage
    /\ UNCHANGED runnable

(* The installation begins: only with an offer to replace what is removed. *)
Remove ==
    /\ offered # NoImage
    /\ runnable' = NoImage
    /\ UNCHANGED offered

Install ==
    /\ offered # NoImage
    /\ runnable' = offered
    /\ UNCHANGED offered

Promised == ~waived /\ ~waived' /\ (Offer \/ Discard \/ Remove \/ Install)

(* The promise is waived, and while it is anything may happen.             *)
Waive == waived' = TRUE

(* It is made again, with an image to be installed.                        *)
Renew == waived /\ waived' = FALSE /\ offered' # NoImage

Next == Promised \/ Waive \/ Renew
Spec == Init /\ [][Next]_vars
=============================================================================
