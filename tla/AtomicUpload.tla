---------------------------- MODULE AtomicUpload ----------------------------
(***************************************************************************)
(* What Upload promises of one object: it appears on the server at once    *)
(* and whole, or not at all; "ok" is returned only once it is there.  An   *)
(* error leaves the caller in doubt: the object may be there, or may still *)
(* appear.                                                                 *)
(***************************************************************************)
CONSTANTS NoObject, Source
VARIABLES object, result

vars == <<object, result>>

TypeOK ==
  /\ object \in {NoObject, Source}
  /\ result \in {"pending", "ok", "error"}

Init == object = NoObject /\ result = "pending"

Publish ==
  /\ object = NoObject /\ result # "ok"
  /\ object' = Source
  /\ UNCHANGED result

ReturnOk ==
  /\ result = "pending" /\ object = Source
  /\ result' = "ok"
  /\ UNCHANGED object

ReturnError ==
  /\ result = "pending"
  /\ result' = "error"
  /\ UNCHANGED object

Next == Publish \/ ReturnOk \/ ReturnError

Spec == Init /\ [][Next]_vars
=============================================================================
