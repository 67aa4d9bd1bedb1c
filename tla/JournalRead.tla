----------------------------- MODULE JournalRead -----------------------------
(***************************************************************************)
(* What a journal reader promises its caller (the Read RPC of spec 6, as  *)
(* seen through client.Reader): the bytes it returns are the journal's    *)
(* committed bytes, in order, from the offset it is at; it moves past     *)
(* bytes without returning them only when they are gone (their fragments  *)
(* were removed), when it was asked to start at the write head (offset    *)
(* -1), or when the caller seeks forward; and once it fails it stays put.  *)
(*                                                                         *)
(* A journal byte is represented by its own offset, so a returned byte     *)
(* names the offset it was read from.                                      *)
(***************************************************************************)
EXTENDS Integers, Sequences

CONSTANTS FragLen,        \* bytes per fragment
          MaxHead,        \* bound on the write head
          InitHeads,      \* write heads the journal may start at
          RequestOffsets  \* ReadRequest.Offset values (-1: the write head)

VARIABLES head,     \* the journal's write head: bytes [0, head) are committed
          removed,  \* indices of fragments removed from the journal
          pos,      \* the reader's offset
          out,      \* the bytes returned to the caller, in order
          failed,   \* the reader has returned an error and is done
          op        \* the caller's last operation: "read" or "seek"

absVars == <<head, removed, pos, out, failed, op>>

\* The fragment holding offset o, and the committed bytes [b, e).
FragIdx(o) == o \div FragLen
Bytes(b, e) == [i \in 1..(e - b) |-> b + i - 1]

\* Offsets the reader may pass without returning them.
Gone(b, e) == \A o \in b..(e - 1) : FragIdx(o) \in removed

Init ==
    /\ head \in InitHeads
    /\ removed = {}
    /\ pos \in RequestOffsets
    /\ out = <<>>
    /\ failed = FALSE
    /\ op = "read"

\* The journal grows, and a complete fragment expires.
AppendByte ==
    /\ head < MaxHead
    /\ head' = head + 1
    /\ UNCHANGED <<removed, pos, out, failed, op>>

RemoveFragment ==
    /\ \E k \in 0..(MaxHead \div FragLen) :
         /\ (k + 1) * FragLen <= head
         /\ removed' = removed \cup {k}
    /\ UNCHANGED <<head, pos, out, failed, op>>

\* A read returns the next k committed bytes, perhaps with an error.
Deliver ==
    /\ ~failed /\ pos >= 0
    /\ \E k \in 1..(head - pos) :
         /\ out' = out \o Bytes(pos, pos + k)
         /\ pos' = pos + k
    /\ failed' \in BOOLEAN
    /\ op' = "read"
    /\ UNCHANGED <<head, removed>>

\* A read skips ahead to |to|: the bytes in between are gone, or the reader
\* started at the write head.
Jump ==
    /\ ~failed
    /\ \E to \in (pos + 1)..head :
         /\ pos = -1 \/ Gone(pos, to)
         /\ pos' = to
    /\ failed' \in BOOLEAN
    /\ op' = "read"
    /\ UNCHANGED <<head, removed, out>>

\* A seek moves forward over committed bytes without returning them.
SeekForward ==
    /\ ~failed /\ pos >= 0
    /\ pos' \in (pos + 1)..head
    /\ failed' \in BOOLEAN
    /\ op' = "seek"
    /\ UNCHANGED <<head, removed, out>>

\* A read or seek fails, returning nothing.
Fail ==
    /\ ~failed
    /\ failed' = TRUE
    /\ op' \in {"read", "seek"}
    /\ UNCHANGED <<head, removed, pos, out>>

Next == AppendByte \/ RemoveFragment \/ Deliver \/ Jump \/ SeekForward \/ Fail

Spec == Init /\ [][Next]_absVars
====
