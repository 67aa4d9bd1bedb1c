-------------------------------- MODULE Spool --------------------------------
(***************************************************************************)
(* The Spool of a journal replica: the open Fragment [begin, end) with its *)
(* content, plus the uncommitted "delta" bytes replicated since the last   *)
(* commit. Every broker of a Route applies the same ReplicateRequests to   *)
(* its own Spool: content chunks extend the delta, and proposals commit,   *)
(* roll back or roll the Spool forward (spec 4.1).                         *)
(*                                                                         *)
(* Journal bytes are abstracted to labels (the appender which wrote them); *)
(* a Fragment's SHA-1 sum is the sequence of its labels, so two Fragments  *)
(* have equal sums iff they hold the same bytes.                           *)
(***************************************************************************)
EXTENDS Naturals, Sequences

CONSTANT FragmentLength   \* JournalSpec.Fragment.Length: roll at this content length

\* The Fragment of a Spool (Spool.Fragment.Fragment): no uncommitted delta.
Frag(s) == [begin |-> s.begin, end |-> s.end, sum |-> s.sum]

\* An empty Fragment opening at |off|.
EmptyAt(off) == [begin |-> off, end |-> off, sum |-> <<>>]

\* Mutant: an off-by-one in the committed end.
SpoolNextOffByOne(s) ==
    [begin |-> s.begin, end |-> s.end + Len(s.delta) + 1, sum |-> s.sum \o s.delta]

\* Spool.Next: the Fragment which commits the whole delta.
SpoolNext(s) ==
    [begin |-> s.begin, end |-> s.end + Len(s.delta), sum |-> s.sum \o s.delta]

\* The three proposals Spool.applyCommit accepts: the current Fragment (a
\* rollback of the delta), the current Fragment extended by the delta (a
\* commit), or an empty Fragment at or beyond the current end (a roll).
IsRollback(s, p) == p = Frag(s)
IsCommit(s, p)   == p = SpoolNext(s)
IsRoll(s, p)     == p.begin = p.end /\ p.sum = <<>> /\ p.begin >= s.end

ProposalOK(s, p) == IsRollback(s, p) \/ IsCommit(s, p) \/ IsRoll(s, p)

\* Spool.Apply of a proposal. An accepted proposal becomes the Spool's
\* Fragment and the delta is cleared; a rejected one leaves the Spool as is
\* (FRAGMENT_MISMATCH carries Frag(s) back as the counter-proposal).
ApplyProposal(s, p) ==
    IF ProposalOK(s, p)
    THEN [begin |-> p.begin, end |-> p.end, sum |-> p.sum, delta |-> <<>>]
    ELSE s

\* Mutant: the delta is written from the Fragment's begin, not its end.
PersistAtBegin(w, s, p) ==
    IF IsCommit(s, p) /\ s.delta # <<>>
    THEN [o \in DOMAIN w |->
            IF o >= s.begin /\ o < s.begin + Len(s.delta) THEN s.delta[o - s.begin + 1] ELSE w[o]]
    ELSE w

\* The bytes a proposal makes durable: the delta, iff it is a commit.
\* |w| maps each journal offset to the label written there (or none).
Persist(w, s, p) ==
    IF IsCommit(s, p) /\ s.delta # <<>>
    THEN [o \in DOMAIN w |->
            IF o >= s.end /\ o < p.end THEN s.delta[o - s.end + 1] ELSE w[o]]
    ELSE w

\* Spool.Apply of a content chunk: its ContentDelta must equal the number
\* of bytes already spooled, else the peer rejects the stream.
ContentOK(s, cd) == cd = Len(s.delta)
ApplyContent(s, bytes) == [s EXCEPT !.delta = @ \o bytes]

\* nextProposal: the Fragment to synchronise or roll to. A non-zero
\* |rollToOffset| rolls to an empty Fragment there; a Fragment whose
\* content has reached FragmentLength rolls to an empty one at its end;
\* otherwise the current Fragment is proposed unchanged.
NextProposal(s, rollToOffset) ==
    IF rollToOffset # 0 THEN EmptyAt(rollToOffset)
    ELSE IF s.end - s.begin >= FragmentLength THEN EmptyAt(s.end)
    ELSE Frag(s)
=============================================================================
