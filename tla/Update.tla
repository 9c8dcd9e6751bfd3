------------------------------- MODULE Update -------------------------------
(***************************************************************************)
(* What the firmware promises of an update, without packages, messages and *)
(* flash.  An image is offered; it is kept, as a whole, once all of it has *)
(* been received; what is kept is installed, not while another one is      *)
(* being offered, and stays until it is given up, never replaced.          *)
(*                                                                         *)
(* Making room for an image and keeping it may come late: then it is       *)
(* pending, and nothing else is kept or given up until it has come.  Where *)
(* something failed, the image installed may be spoilt.                    *)
(***************************************************************************)
CONSTANTS
  Img,     \* the images
  None,    \* no image
  Spoilt,  \* an image with other bytes in it
  Room     \* what is pending while room is made

VARIABLES
  offered,    \* the image being uploaded
  kept,       \* the image in the buffer
  pending,    \* what will become of it: kept, or given up for Room
  failed,     \* something has gone wrong
  installed   \* the image handed to the OTAP library

vars == <<offered, kept, pending, failed, installed>>

Init ==
  /\ offered = None
  /\ kept = None
  /\ pending = None
  /\ failed = FALSE
  /\ installed = None

MayFail == failed' \in {failed, TRUE}

\* Room is made for the image, at once or later or not at all.
Offer(img) ==
  /\ offered' = img
  /\ \/ pending = None /\ kept' = None /\ UNCHANGED <<pending, failed>>
     \/ UNCHANGED <<kept, pending>> /\ MayFail
     \/ pending = None /\ pending' = Room /\ failed' = TRUE /\ UNCHANGED kept
  /\ UNCHANGED installed

\* The upload is complete, and may be over.
Keep ==
  /\ offered # None
  /\ pending = None
  /\ kept \in {None, offered}
  /\ \/ kept' = offered /\ offered' \in {offered, None} /\ UNCHANGED pending
     \/ pending' = offered /\ failed' = TRUE /\ UNCHANGED <<offered, kept>>
  /\ MayFail
  /\ UNCHANGED installed

\* What came late, if nothing else has come in between.
Settled(k) ==
  \/ pending = Room /\ k = None
  \/ pending # Room /\ kept \in {None, pending} /\ k = pending

Settle ==
  /\ pending # None
  /\ pending' = None
  /\ Settled(kept')
  /\ UNCHANGED <<offered, failed, installed>>

\* The upload is broken off, perhaps while room was made for it or while it was
\* being kept.
BreakOff ==
  /\ offered' = None
  /\ pending' = None
  /\ kept' \in {kept, None} \/ (pending # None /\ Settled(kept'))
  /\ MayFail
  /\ UNCHANGED installed

Install ==
  /\ offered = None
  /\ pending = None
  /\ kept # None
  /\ \/ installed' = kept /\ UNCHANGED failed
     \/ installed' = Spoilt /\ failed' = TRUE
  /\ UNCHANGED <<offered, kept, pending>>

\* Something goes wrong that shows nowhere yet.
Fail == failed' = TRUE /\ UNCHANGED <<offered, kept, pending, installed>>

Next ==
  \/ \E img \in Img : Offer(img)
  \/ Keep \/ Settle \/ BreakOff \/ Install \/ Fail

Spec == Init /\ [][Next]_vars

=============================================================================
