--------------------------- MODULE AtomicRegister ---------------------------
(***************************************************************************)
(* What the rest of the program takes a stored JSON document for: a        *)
(* register that is read and written whole.  Readers see the latest value  *)
(* written.  A power loss brings back that value or an earlier one written *)
(* since the last flush, never anything else.  Module AtomicFile is shown  *)
(* to implement this.                                                      *)
(***************************************************************************)
CONSTANT Values   \* the documents, and the absence of one

VARIABLES
  value,   \* what a reader finds
  safe     \* what a reader may find after a power loss

vars == <<value, safe>>

Init ==
  /\ value \in Values
  /\ safe = {value}

Write ==
  /\ value' \in Values
  /\ safe' = safe \cup {value'}

Flush ==
  /\ safe' = {value}
  /\ UNCHANGED value

PowerLoss ==
  /\ value' \in safe
  /\ safe' = {value'}

Next == Write \/ Flush \/ PowerLoss

Spec == Init /\ [][Next]_vars
=============================================================================
