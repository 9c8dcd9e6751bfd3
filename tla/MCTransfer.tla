----------------------------- MODULE MCTransfer -----------------------------
EXTENDS Transfer

CONSTANTS A, B, C

MCLength == [img \in Img |-> CASE img = A -> 5 [] img = B -> 4 [] OTHER -> 7]
MCPackage == [img \in Img |-> IF img = A THEN 2 ELSE 3]
MCForeignId == {2, FirstId + 1}

=============================================================================
