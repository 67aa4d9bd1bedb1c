--------------------------- MODULE MCClientReader ---------------------------
(* Model values for ClientReader: ReadRequest.Offset -1 (read from the     *)
(* write head), 0 and 1.                                                   *)
EXTENDS ClientReader

MCRequestOffsets == {-1, 0, 1}
====
