--------------------------- MODULE MCDocumentSave ---------------------------
(* Instances of DocumentSave for TLC. *)
EXTENDS DocumentSave

CONSTANTS p1, p2

\* One page saves again, on top of what it was told of its first save.
TwoAndOne == [p \in {p1, p2} |-> IF p = p1 THEN 2 ELSE 1]
=============================================================================
