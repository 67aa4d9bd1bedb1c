--------------------------- MODULE AbstractJournal ---------------------------
(***************************************************************************)
(* What the append path promises of the journal on its primary (spec 3,    *)
(* 4.1 and 5): committed bytes are never changed; the committed end never  *)
(* regresses; an append's content is committed in one piece, contiguously *)
(* at the end, never mixed with another append's and never after the       *)
(* append returned; and an append is reported finished only for a range   *)
(* of committed bytes that are all its own. The end may also roll forward *)
(* over offsets this broker never wrote (a sync roll to a peer's end).     *)
(*                                                                         *)
(* A byte is labelled by the append that wrote it, Old before the model    *)
(* starts, and NoByte where the broker holds nothing.                      *)
(***************************************************************************)
EXTENDS Integers

CONSTANTS Appenders,  \* Append RPCs of the journal
          MaxOffset,  \* bound on journal offsets
          InitEnds,   \* committed ends the journal may start at
          Old,        \* label of bytes written before the model starts
          NoByte      \* label of an offset the broker never wrote

VARIABLES journal,   \* the committed bytes, by offset
          end,       \* the committed end
          status,    \* per append: "pending", "finished" or "other"
          reported   \* per finished append: the range it was told it committed

jVars == <<journal, end, status, reported>>

NoRange == [begin |-> -1, end |-> -1]

Init ==
    /\ end \in InitEnds
    /\ journal = [o \in 0..(MaxOffset - 1) |-> IF o < end THEN Old ELSE NoByte]
    /\ status = [a \in Appenders |-> "pending"]
    /\ reported = [a \in Appenders |-> NoRange]

\* The content of a pending append is committed at the end.
Commit(a) ==
    /\ status[a] = "pending"
    /\ \E n \in 1..(MaxOffset - end) :
         /\ end' = end + n
         /\ journal' = [o \in DOMAIN journal |->
                          IF o >= end /\ o < end + n THEN a ELSE journal[o]]
    /\ UNCHANGED <<status, reported>>

\* The end rolls forward over offsets left unwritten.
Roll ==
    /\ end' \in (end + 1)..MaxOffset
    /\ UNCHANGED <<journal, status, reported>>

\* An append is reported finished at a committed range holding its bytes.
Finish(a) ==
    /\ status[a] = "pending"
    /\ \E b \in 0..end, e \in 0..end :
         /\ b <= e
         /\ \A o \in b..(e - 1) : journal[o] = a
         /\ reported' = [reported EXCEPT ![a] = [begin |-> b, end |-> e]]
    /\ status' = [status EXCEPT ![a] = "finished"]
    /\ UNCHANGED <<journal, end>>

\* An append returns otherwise: with an error, or proxied to another broker.
Abort(a) ==
    /\ status[a] = "pending"
    /\ status' = [status EXCEPT ![a] = "other"]
    /\ UNCHANGED <<journal, end, reported>>

Next == Roll \/ \E a \in Appenders : Commit(a) \/ Finish(a) \/ Abort(a)

Spec == Init /\ [][Next]_jVars
====
