------------------------------ MODULE MCUpload ------------------------------
(***************************************************************************)
(* Upload on small instances: images of two and three packages.  Package   *)
(* ids start at 32768, so the package with index 2 is the one whose id is  *)
(* a multiple of ten, and is answered with a status.                       *)
(***************************************************************************)
EXTENDS Upload

CONSTANT A  \* the image of two packages

MCTotal == [img \in Img |-> IF img = A THEN 2 ELSE 3]

=============================================================================
