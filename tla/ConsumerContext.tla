--------------------------- MODULE ConsumerContext ---------------------------
(***************************************************************************)
(* ConsumerContext.Publish (consumer/context.go), called concurrently by   *)
(* the consumer's goroutines. A call takes a buffer from publishBufferPool *)
(* (a new one when the pool is empty), frames its message into it and, if  *)
(* framing succeeded, hands the buffer to the JournalWriter; the buffer    *)
(* goes back to the pool on every path. The pool is a sync.Pool: it hands  *)
(* out any pooled buffer, and may drop pooled buffers at any time.         *)
(*                                                                         *)
(* Framing and the writer are abstracted to their outcome, and a buffer's  *)
(* content to the publisher whose message it holds.                        *)
(***************************************************************************)
CONSTANTS Publishers,  \* goroutines, each calling Publish once
          Buffers,     \* buffer identities; a bound on buffers live at once
          NoMsg,       \* an empty buffer, or no message handed to the writer
          NoBuf        \* a call holding no buffer

FrameResults == {"none", "frameErr"}   \* what frame(to, message, &buffer) returns
WriteResults == {"none", "writeErr"}   \* what Writer.Write returns
NoCall == [wrote |-> NoMsg, err |-> "noCall"]

VARIABLES pool,       \* buffers held by publishBufferPool
          allocated,  \* buffers made by the pool's New and not yet collected
          content,    \* per buffer: whose message it holds
          pub,        \* per publisher: its call's position and buffer
          last        \* per publisher: what its last call wrote and returned

ctxVars == <<pool, allocated, content, pub, last>>

CtxInit ==
    /\ pool = {} /\ allocated = {}
    /\ content = [b \in Buffers |-> NoMsg]
    /\ pub = [p \in Publishers |-> [pc |-> "idle", buf |-> NoBuf]]
    /\ last = [p \in Publishers |-> NoCall]

\* publishBufferPool.Get(): a pooled buffer, or a new one from New.
Gettable == IF pool # {} THEN pool ELSE Buffers \ allocated

\* Mutant: the buffer is put back into the pool before it is written.
FramePutsEarly(p) ==
    /\ pub[p].pc = "idle"
    /\ \E b \in Gettable, f \in FrameResults :
         /\ allocated' = allocated \cup {b}
         /\ content' = [content EXCEPT ![b] = p]
         /\ pool' = pool \cup {b}
         /\ IF f = "none"
            THEN /\ pub' = [pub EXCEPT ![p] = [pc |-> "framed", buf |-> b]]
                 /\ UNCHANGED last
            ELSE /\ last' = [last EXCEPT ![p] = [wrote |-> NoMsg, err |-> f]]
                 /\ pub' = [pub EXCEPT ![p].pc = "done"]

\* Publish up to the write: Get, then frame. A framing error puts the buffer
\* back and is returned.
Frame(p) ==
    /\ pub[p].pc = "idle"
    /\ \E b \in Gettable, f \in FrameResults :
         /\ allocated' = allocated \cup {b}
         /\ content' = [content EXCEPT ![b] = p]
         /\ IF f = "none"
            THEN /\ pub' = [pub EXCEPT ![p] = [pc |-> "framed", buf |-> b]]
                 /\ pool' = pool \ {b}
                 /\ UNCHANGED last
            ELSE /\ last' = [last EXCEPT ![p] = [wrote |-> NoMsg, err |-> f]]
                 /\ pool' = pool \cup {b}
                 /\ pub' = [pub EXCEPT ![p].pc = "done"]

\* Publish after framing: Writer.Write of the buffer, Put, return its error.
Write(p) ==
    /\ pub[p].pc = "framed"
    /\ \E w \in WriteResults :
         last' = [last EXCEPT ![p] = [wrote |-> content[pub[p].buf], err |-> w]]
    /\ pool' = pool \cup {pub[p].buf}
    /\ pub' = [pub EXCEPT ![p] = [pc |-> "done", buf |-> NoBuf]]
    /\ UNCHANGED <<allocated, content>>

\* sync.Pool drops a pooled buffer, which is then collected.
PoolDrop ==
    \E b \in pool :
        /\ pool' = pool \ {b}
        /\ allocated' = allocated \ {b}
        /\ content' = [content EXCEPT ![b] = NoMsg]
        /\ UNCHANGED <<pub, last>>

CtxNext == PoolDrop \/ \E p \in Publishers : Frame(p) \/ Write(p)
-----------------------------------------------------------------------------
\* What Publish promises its caller, whatever other goroutines publish at
\* the same time: the JournalWriter is handed exactly this call's framed
\* message (never a message another call framed into a shared pooled
\* buffer, nor an unframed one), and a framing error is returned, never
\* masked by a write.
WritesOwnFramedMessage ==
    \A p \in Publishers :
        /\ last[p].wrote \in {p, NoMsg}
        /\ last[p] # NoCall => (last[p].wrote = NoMsg <=> last[p].err = "frameErr")
=============================================================================
