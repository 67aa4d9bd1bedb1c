------------------------------ MODULE AppendFSM ------------------------------
(***************************************************************************)
(* The broker's append path for one journal: concurrent appendFSMs on the  *)
(* journal's primary (Local), the replica's single-slot pipelineCh and     *)
(* spoolCh mailboxes, the replication pipeline (scatter to every peer,     *)
(* gather in order behind the receive barrier), the peers applying         *)
(* ReplicateRequests to their own Spools, and the Etcd KeySpace whose      *)
(* revisions carry the journal's Route and assignments.                    *)
(*                                                                         *)
(* The appendFSM handlers are translated from src/unnamed/part_003; the    *)
(* pipeline, peer, resolver and KeySpace parts are not in src/ and follow  *)
(* spec.md sections 4.2-4.6.                                               *)
(***************************************************************************)
EXTENDS Integers, Sequences, FiniteSets, FiniteSetsExt, Spool

CONSTANTS
    Appenders,       \* concurrent Append RPCs of the journal
    Local,           \* the broker running the appendFSMs
    Peers,           \* the other brokers which may be journal members
    NoPrimary,       \* Route.Primary == -1
    Routes,          \* Routes the allocator may assign: [primary, members]
    InitRoute,       \* Route of the first KeySpace revision
    Replication,     \* JournalSpec.DesiredReplication()
    MayWrite,        \* JournalSpec.Flags.MayWrite()
    MayProxy,        \* !AppendRequest.DoNotProxy
    RequestOffsets,  \* values of AppendRequest.Offset (0: not set)
    InitEnds,        \* offsets at which broker Spools may start
    Old,             \* label of journal bytes written before the model starts
    NoByte,          \* label of an offset a broker never wrote
    MaxChunks,       \* bound: content chunks per append
    MaxRev,          \* bound: allocator-made KeySpace revisions
    MaxPipelines,    \* bound: pipeline instances alive at once
    MaxFailures,     \* bound: replication stream failures
    MaxExternal,     \* bound: fragments written to the store by another writer
    MaxCancels,      \* bound: Append RPCs whose context is cancelled
    MaxOffset        \* bound: journal offsets the model can reach

Brokers == {Local} \cup Peers
Pids == 1..MaxPipelines
Offsets == 0..(MaxOffset - 1)
Terminal == {"error", "proxy", "finished"}

VARIABLES
    \* appendFSM fields, per appender
    st,         \* b.state
    res,        \* b.resolved: [rev, route, status, consistent]
    pln,        \* b.pln: a pipeline id, or 0 (nil)
    own,        \* b.plnReturnCh != nil: the send side of |pln| is ours
    rtr,        \* b.readThroughRev
    rto,        \* b.rollToOffset
    ccommit,    \* b.clientCommit
    cfrag,      \* b.clientFragment: [begin, end], begin = -1 while nil
    ferr,       \* b.err != nil
    chunks,     \* content chunks the client has sent
    cancelled,  \* b.ctx is Done
    reqOff,     \* b.req.Offset
    \* the journal replica on Local
    plnCh,      \* replica.pipelineCh: a sequence of at most one pipeline (0: nil)
    spoolIn,    \* the Spool is in replica.spoolCh
    indexEnd,   \* replica.index.EndOffset()
    refreshed,  \* the first remote-store refresh of the index completed
    \* pipelines, by id
    pl,
    \* brokers
    spool,      \* each broker's Spool of the journal
    written,    \* each broker's committed bytes, by offset
    serving,    \* the pipeline whose Replicate stream a peer serves (0: none)
    peerRev,    \* each peer's KeySpace revision
    panicked,   \* the local Spool rejected a scattered request (Go panic)
    \* Etcd
    asn,        \* revisions: [route, consistent] of the journal's assignments
    localRev,   \* Local's KeySpace revision
    \* environment
    failures, external,
    \* history: the appenders whose requests each appender's gathers answered
    ackOf

fsmVars == <<st, res, pln, own, rtr, rto, ccommit, cfrag, ferr, chunks>>
envVars == <<cancelled, reqOff, failures, external>>
repVars == <<plnCh, spoolIn, indexEnd, refreshed>>
brkVars == <<spool, written, serving, peerRev, panicked>>
ksVars  == <<asn, localRev>>
vars == <<fsmVars, envVars, repVars, pl, brkVars, ksVars, ackOf>>

NoRoute == [primary |-> NoPrimary, members |-> {}]
NoHdr   == [rev |-> 0, route |-> NoRoute]
NoFrag  == [begin |-> -1, end |-> -1]
FreshStream == [reqs |-> <<>>, resps |-> <<>>, serr |-> FALSE, rerr |-> FALSE,
                broken |-> FALSE, eof |-> FALSE]
NoPipeline == [route |-> NoRoute, rev |-> 0, peers |-> {}, phase |-> "none",
               sendClosed |-> FALSE, barrier |-> <<>>,
               strm |-> [p \in Peers |-> FreshStream]]
ShutTok == "shutdown"   \* barrier entry of pipeline.shutdown

PropReq(a, f, ack, hdr) ==
    [kind |-> "prop", prop |-> f, ack |-> ack, hdr |-> hdr, cd |-> 0,
     bytes |-> <<>>, from |-> a]
ContentReq(a, cd) ==
    [kind |-> "content", prop |-> EmptyAt(0), ack |-> FALSE, hdr |-> NoHdr,
     cd |-> cd, bytes |-> <<a>>, from |-> a]

-----------------------------------------------------------------------------
(* Resolver.resolve at Local's current revision (spec 4.3).                *)
Resolve(rev) ==
    LET r == asn[rev].route IN
    [rev |-> rev, route |-> r, consistent |-> asn[rev].consistent,
     status |-> CASE r.primary = NoPrimary -> "NO_JOURNAL_PRIMARY_BROKER"
                  [] ~MayProxy /\ r.primary # Local -> "NOT_JOURNAL_PRIMARY_BROKER"
                  [] OTHER -> "OK"]

\* The resolution's invalidateCh is closed: the assignments changed since.
Invalidated(a) == localRev > res[a].rev

SendErr(P) == \E p \in P.peers : P.strm[p].serr
RecvErr(P) == \E p \in P.peers : P.strm[p].rerr

\* A receive from the stream will not block: a response is queued, or the
\* stream has ended.
CanRecv(s) == s.rerr \/ s.resps # <<>> \/ s.broken \/ s.eof
GatherReady(P) == \A p \in P.peers : CanRecv(P.strm[p])
Heads(P) == {p \in P.peers : ~P.strm[p].rerr /\ P.strm[p].resps # <<>>}
RespOf(P, p) == Head(P.strm[p].resps)

\* One receive from a stream: its head response, or a latched recv error.
\* |okOnly|: a response with a non-OK status also latches (gatherOK).
RecvOne(s, okOnly) ==
    IF s.rerr THEN s
    ELSE IF s.resps # <<>>
         THEN [s EXCEPT !.resps = Tail(@),
                        !.rerr = okOnly /\ Head(s.resps).status # "OK"]
         ELSE [s EXCEPT !.rerr = TRUE]
Gather(P, okOnly) ==
    [P EXCEPT !.strm = [p \in Peers |->
        IF p \in P.peers THEN RecvOne(P.strm[p], okOnly) ELSE P.strm[p]]]
\* pipeline.gatherEOF: every live stream must end without another message.
GatherEOF(P) ==
    [P EXCEPT !.strm = [p \in Peers |->
        LET s == P.strm[p] IN
        IF p \in P.peers /\ ~s.rerr /\ (s.broken \/ s.resps # <<>>)
        THEN [s EXCEPT !.rerr = TRUE] ELSE s]]
EOFReady(P) ==
    \A p \in P.peers : LET s == P.strm[p] IN s.rerr \/ s.broken \/ s.eof \/ s.resps # <<>>
AckTags(P) == {RespOf(P, p).from : p \in Heads(P)}

-----------------------------------------------------------------------------
(* pipeline.scatter (spec 4.4) as a function of the state it changes: each *)
(* peer stream without a send error gets the request (a broken or ended    *)
(* stream latches one instead), and the request is applied to the local    *)
(* Spool, whose rejection is a panic.                                      *)
PState == [pl |-> pl, ls |-> spool[Local], lw |-> written[Local],
           bad |-> panicked, ie |-> indexEnd]

ScatterStreams(P, req) ==
    [P EXCEPT !.strm = [p \in Peers |->
        LET s == P.strm[p] IN
        IF p \notin P.peers \/ s.serr THEN s
        ELSE IF s.broken \/ s.eof THEN [s EXCEPT !.serr = TRUE]
        ELSE [s EXCEPT !.reqs = Append(@, req)]]]

LocalOK(s, req) ==
    IF req.kind = "prop" THEN ProposalOK(s, req.prop) ELSE ContentOK(s, req.cd)

ScatterV(S, id, req) ==
    LET isProp == req.kind = "prop"
        commits == isProp /\ IsCommit(S.ls, req.prop) /\ S.ls.delta # <<>>
    IN [pl  |-> [S.pl EXCEPT ![id] = ScatterStreams(@, req)],
        ls  |-> IF ~LocalOK(S.ls, req) THEN S.ls
                ELSE IF isProp THEN ApplyProposal(S.ls, req.prop)
                ELSE ApplyContent(S.ls, req.bytes),
        lw  |-> IF isProp THEN Persist(S.lw, S.ls, req.prop) ELSE S.lw,
        bad |-> S.bad \/ ~LocalOK(S.ls, req),
        ie  |-> IF commits THEN Max({S.ie, req.prop.end}) ELSE S.ie]

SetP(S) ==
    /\ pl' = S.pl
    /\ spool' = [spool EXCEPT ![Local] = S.ls]
    /\ written' = [written EXCEPT ![Local] = S.lw]
    /\ panicked' = S.bad
    /\ indexEnd' = S.ie

\* pipeline.closeSend: roll back the local Spool's delta, return the Spool
\* to spoolCh, and close each peer stream's send side.
CloseSend(P) == [P EXCEPT !.sendClosed = TRUE]
RollbackLocal == [spool EXCEPT ![Local] = ApplyProposal(@, Frag(@))]

\* A pipeline slot is free when nothing can reach the pipeline any longer.
Free(id) ==
    /\ pl[id].phase \in {"none", "gone"}
    /\ \A i \in DOMAIN plnCh : plnCh[i] # id
    /\ \A a \in Appenders : st[a] \notin Terminal => pln[a] # id
    /\ \A p \in Peers : serving[p] # id

NewPipeline(r) ==
    [NoPipeline EXCEPT !.route = r.route, !.rev = r.rev,
                       !.peers = r.route.members \ {Local}, !.phase = "live"]

-----------------------------------------------------------------------------
InitSpool(e) == [begin |-> e, end |-> e, sum |-> <<>>, delta |-> <<>>]

Init ==
    /\ st = [a \in Appenders |-> "resolve"]
    /\ res = [a \in Appenders |-> [rev |-> 0, route |-> NoRoute,
                                   status |-> "OK", consistent |-> FALSE]]
    /\ pln = [a \in Appenders |-> 0]
    /\ own = [a \in Appenders |-> FALSE]
    /\ rtr = [a \in Appenders |-> 0]
    /\ rto = [a \in Appenders |-> 0]
    /\ ccommit = [a \in Appenders |-> FALSE]
    /\ cfrag = [a \in Appenders |-> NoFrag]
    /\ ferr = [a \in Appenders |-> FALSE]
    /\ chunks = [a \in Appenders |-> 0]
    /\ cancelled = [a \in Appenders |-> FALSE]
    /\ reqOff \in [Appenders -> RequestOffsets]
    /\ plnCh = <<0>>
    /\ spoolIn = TRUE
    /\ \E e \in [Brokers -> InitEnds] :
          /\ spool = [b \in Brokers |-> InitSpool(e[b])]
          /\ written = [b \in Brokers |-> [o \in Offsets |-> IF o < e[b] THEN Old ELSE NoByte]]
          /\ indexEnd = e[Local]
    /\ refreshed = FALSE
    /\ pl = [id \in Pids |-> NoPipeline]
    /\ serving = [p \in Peers |-> 0]
    /\ peerRev = [p \in Peers |-> 1]
    /\ panicked = FALSE
    /\ asn = <<[route |-> InitRoute, consistent |-> TRUE]>>
    /\ localRev = 1
    /\ failures = 0
    /\ external = 0
    /\ ackOf = [a \in Appenders |-> {}]

-----------------------------------------------------------------------------
(* appendFSM handlers (src/unnamed/part_003). One action per handler; a    *)
(* handler which suspends in a select is split at that suspension point.   *)

Goto(a, s) == st' = [st EXCEPT ![a] = s]

\* Mutant: plnReturnCh is not reset after the pipeline is returned.
ReturnPipelineKeepsOwnership(a, p) ==
    IF own[a] THEN plnCh = <<>> /\ plnCh' = <<p>> /\ UNCHANGED own
    ELSE UNCHANGED <<plnCh, own>>

\* appendFSM.returnPipeline: send b.pln back to plnReturnCh, if owned.
ReturnPipeline(a, p) ==
    IF own[a]
    THEN /\ plnCh = <<>>
         /\ plnCh' = <<p>>
         /\ own' = [own EXCEPT ![a] = FALSE]
    ELSE UNCHANGED <<plnCh, own>>

\* Reaching a terminal state |s| before stateStreamContent: runTo returns
\* false and run's deferred returnPipeline releases b.pln (|p|, possibly
\* nil) if it is owned.
Stop(a, s, p) ==
    /\ Goto(a, s)
    /\ pln' = [pln EXCEPT ![a] = p]
    /\ ReturnPipeline(a, p)
Fail(a, p) == Stop(a, "error", p)

SetStatus(a, s) == res' = [res EXCEPT ![a].status = s]

OnResolve(a) ==
    /\ st[a] = "resolve"
    /\ \/ /\ localRev < rtr[a]               \* WaitForRevision: ctx.Err()
          /\ cancelled[a]
          /\ Fail(a, pln[a])
          /\ UNCHANGED res
       \/ /\ localRev >= rtr[a]
          /\ LET r == Resolve(localRev) IN
             /\ res' = [res EXCEPT ![a] = r]
             /\ CASE r.status # "OK" ->
                        Fail(a, pln[a])
                  [] r.route.primary # Local ->       \* we must proxy
                        ReturnPipeline(a, pln[a]) /\ Goto(a, "awaitDesired")
                        /\ UNCHANGED pln
                  [] own[a] ->
                        Goto(a, "start") /\ UNCHANGED <<pln, plnCh, own>>
                  [] OTHER ->
                        Goto(a, "acquire") /\ UNCHANGED <<pln, plnCh, own>>
    /\ UNCHANGED <<rtr, rto, ccommit, cfrag, ferr, chunks, envVars, spoolIn,
                   indexEnd, refreshed, pl, brkVars, ksVars, ackOf>>

OnAcquirePipeline(a) ==
    /\ st[a] = "acquire"
    /\ \/ /\ plnCh # <<>>
          /\ LET p == Head(plnCh) IN
             \/ /\ cancelled[a]       \* post-check; run returns p at once
                /\ Goto(a, "error")
                /\ pln' = [pln EXCEPT ![a] = p]
                /\ UNCHANGED <<plnCh, own>>
             \/ /\ Invalidated(a)     \* post-check: re-resolve, holding p
                /\ Goto(a, "resolve")
                /\ pln' = [pln EXCEPT ![a] = p]
                /\ plnCh' = Tail(plnCh) /\ own' = [own EXCEPT ![a] = TRUE]
             \/ /\ ~cancelled[a] /\ ~Invalidated(a)
                /\ Goto(a, "start")
                /\ pln' = [pln EXCEPT ![a] = p]
                /\ plnCh' = Tail(plnCh) /\ own' = [own EXCEPT ![a] = TRUE]
       \/ /\ cancelled[a]
          /\ Goto(a, "error") /\ UNCHANGED <<pln, plnCh, own>>
       \/ /\ Invalidated(a)
          /\ Goto(a, "resolve") /\ UNCHANGED <<pln, plnCh, own>>
    /\ UNCHANGED <<res, rtr, rto, ccommit, cfrag, ferr, chunks, envVars, spoolIn,
                   indexEnd, refreshed, pl, brkVars, ksVars, ackOf>>

\* Mutant: the Spool is taken without waiting for it to be in spoolCh.
TakeSpoolNoWait == spoolIn' = FALSE

\* <-replica.spoolCh: take the Spool from its single-slot mailbox.
TakeSpool == spoolIn /\ spoolIn' = FALSE

\* onStartPipeline. A held pipeline of another Route is handed to a
\* shutdown goroutine (b.pln becomes nil); then the handler waits for the
\* Spool, cancellation or invalidation.
OnStartPipeline(a) ==
    /\ st[a] = "start"
    /\ \/ /\ pln[a] # 0 /\ pl[pln[a]].route = res[a].route
          /\ Goto(a, "updateAsn")
          /\ UNCHANGED <<pln, plnCh, own, spoolIn, pl>>
       \/ /\ pln[a] # 0 /\ pl[pln[a]].route # res[a].route
          /\ pl' = [pl EXCEPT ![pln[a]].phase = "shutdown"]
          /\ pln' = [pln EXCEPT ![a] = 0]
          /\ UNCHANGED <<st, plnCh, own, spoolIn>>
       \/ /\ pln[a] = 0
          /\ \/ /\ TakeSpool
                /\ \E id \in Pids :
                      /\ Free(id)
                      /\ pl' = [pl EXCEPT ![id] = NewPipeline(res[a])]
                      /\ pln' = [pln EXCEPT ![a] = id]
                /\ Goto(a, "sendSync")
                /\ UNCHANGED <<plnCh, own>>
             \/ /\ cancelled[a]
                /\ Fail(a, 0)
                /\ UNCHANGED <<spoolIn, pl>>
             \/ /\ Invalidated(a)
                /\ Goto(a, "resolve")
                /\ UNCHANGED <<pln, plnCh, own, spoolIn, pl>>
    /\ UNCHANGED <<res, rtr, rto, ccommit, cfrag, ferr, chunks, envVars,
                   indexEnd, refreshed, brkVars, ksVars, ackOf>>

OnSendPipelineSync(a) ==
    /\ st[a] = "sendSync"
    /\ LET id == pln[a]
           hdr == IF rto[a] = 0 THEN [rev |-> pl[id].rev, route |-> pl[id].route]
                  ELSE NoHdr
       IN SetP(ScatterV(PState, id,
                 PropReq(a, NextProposal(spool[Local], rto[a]), TRUE, hdr)))
    /\ Goto(a, "recvSync")
    /\ UNCHANGED <<res, pln, own, rtr, rto, ccommit, cfrag, ferr, chunks, envVars,
                   plnCh, spoolIn, refreshed, serving, peerRev, ksVars, ackOf>>

\* onRecvPipelineSync. gatherSync folds the peers' responses: a mismatching
\* peer's Fragment end (or the local end, if greater) is rolled to, and the
\* largest revision of a WRONG_ROUTE response is read through.
\* Mutants: FRAGMENT_MISMATCH responses are ignored; the roll-to offset is
\* the peers' largest end, not at least the local end.
RollToIgnoresMismatch(P) == 0
RollToPeersOnly(P) ==
    LET mis == {p \in Heads(P) : RespOf(P, p).status = "FRAGMENT_MISMATCH"}
    IN IF mis = {} THEN 0 ELSE Max({RespOf(P, p).frag.end : p \in mis})

RollTo(P) ==
    LET mis == {p \in Heads(P) : RespOf(P, p).status = "FRAGMENT_MISMATCH"}
    IN IF mis = {} THEN 0
       ELSE Max({spool[Local].end} \cup {RespOf(P, p).frag.end : p \in mis})
ReadThrough(P) ==
    LET wr == {p \in Heads(P) : RespOf(P, p).status = "WRONG_ROUTE"}
    IN IF wr = {} THEN 0 ELSE Max({RespOf(P, p).rev : p \in wr})

OnRecvPipelineSync(a) ==
    /\ st[a] = "recvSync"
    /\ LET id == pln[a]
           P  == pl[id]
           Q  == Gather(P, FALSE)
           Shut(X) == [pl EXCEPT ![id] = [X EXCEPT !.phase = "shutdown"]]
       IN /\ GatherReady(P)
          /\ rto' = [rto EXCEPT ![a] = RollTo(P)]
          /\ rtr' = [rtr EXCEPT ![a] = ReadThrough(P)]
          /\ ackOf' = [ackOf EXCEPT ![a] = @ \cup AckTags(P)]
          /\ CASE RecvErr(Q) \/ SendErr(Q) ->
                    pl' = Shut(Q) /\ Fail(a, 0)
               [] RollTo(P) # 0 ->
                    /\ pl' = [pl EXCEPT ![id] = Q] /\ Goto(a, "sendSync")
                    /\ UNCHANGED <<pln, plnCh, own>>
               [] ReadThrough(P) # 0 ->
                    /\ pl' = Shut(Q) /\ Goto(a, "resolve")
                    /\ pln' = [pln EXCEPT ![a] = 0]
                    /\ UNCHANGED <<plnCh, own>>
               [] OTHER ->
                    /\ pl' = [pl EXCEPT ![id] = Q] /\ Goto(a, "updateAsn")
                    /\ UNCHANGED <<pln, plnCh, own>>
    /\ UNCHANGED <<res, ccommit, cfrag, ferr, chunks, envVars, spoolIn,
                   indexEnd, refreshed, brkVars, ksVars>>

\* onUpdateAssignments. updateAssignments is a transaction conditioned on
\* the resolved assignments being current; it puts the live Route into
\* every assignment, and either way the FSM reads through its revision.
\* The transaction may also fail outright (an Etcd error).
OnUpdateAssignments(a) ==
    /\ st[a] = "updateAsn"
    /\ \/ /\ res[a].consistent
          /\ Goto(a, "awaitDesired")
          /\ UNCHANGED <<asn, rtr, failures, pln, plnCh, own>>
       \/ /\ ~res[a].consistent
          /\ IF Len(asn) = res[a].rev
             THEN /\ asn' = Append(asn, [route |-> res[a].route, consistent |-> TRUE])
                  /\ rtr' = [rtr EXCEPT ![a] = Len(asn) + 1]
             ELSE /\ rtr' = [rtr EXCEPT ![a] = Len(asn)]
                  /\ UNCHANGED asn
          /\ Goto(a, "resolve")
          /\ UNCHANGED <<failures, pln, plnCh, own>>
       \/ /\ ~res[a].consistent /\ failures < MaxFailures
          /\ failures' = failures + 1
          /\ Fail(a, pln[a])
          /\ UNCHANGED <<asn, rtr>>
    /\ UNCHANGED <<res, rto, ccommit, cfrag, ferr, chunks, cancelled, reqOff,
                   external, spoolIn, indexEnd, refreshed, pl, brkVars,
                   localRev, ackOf>>

OnAwaitDesiredReplicas(a) ==
    /\ st[a] = "awaitDesired"
    /\ LET n == Cardinality(res[a].route.members) IN
       CASE n > Replication ->
               /\ rtr' = [rtr EXCEPT ![a] = res[a].rev + 1]
               /\ Goto(a, "resolve")
               /\ UNCHANGED <<res, pln, plnCh, own>>
         [] n < Replication ->
               SetStatus(a, "INSUFFICIENT_JOURNAL_BROKERS") /\ Fail(a, pln[a])
               /\ UNCHANGED rtr
         [] res[a].route.primary # Local ->
               Stop(a, "proxy", pln[a]) /\ UNCHANGED <<res, rtr>>
         [] OTHER ->
               Goto(a, "validateOffset") /\ UNCHANGED <<res, rtr, pln, plnCh, own>>
    /\ UNCHANGED <<rto, ccommit, cfrag, ferr, chunks, envVars, spoolIn,
                   indexEnd, refreshed, pl, brkVars, ksVars, ackOf>>

\* onValidateOffset. WaitForFirstRemoteRefresh returns once the index has
\* been refreshed, or with an error once the request is cancelled.
OnValidateOffset(a) ==
    /\ st[a] = "validateOffset"
    /\ \/ /\ cancelled[a]
          /\ Fail(a, pln[a])
          /\ UNCHANGED <<res, rto>>
       \/ /\ refreshed
          /\ LET end == spool[Local].end
                 maxOffset == Max({end, indexEnd})
             IN CASE end # maxOffset /\ reqOff[a] = 0 /\ MayWrite ->
                        SetStatus(a, "INDEX_HAS_GREATER_OFFSET") /\ Fail(a, pln[a])
                        /\ UNCHANGED rto
                  [] reqOff[a] # 0 /\ reqOff[a] # maxOffset ->
                        SetStatus(a, "WRONG_APPEND_OFFSET") /\ Fail(a, pln[a])
                        /\ UNCHANGED rto
                  [] reqOff[a] # 0 /\ end # maxOffset ->
                        /\ rto' = [rto EXCEPT ![a] = maxOffset]
                        /\ Goto(a, "sendSync")
                        /\ UNCHANGED <<res, pln, plnCh, own>>
                  [] OTHER ->
                        Goto(a, "streamContent")
                        /\ UNCHANGED <<res, rto, pln, plnCh, own>>
    /\ UNCHANGED <<rtr, ccommit, cfrag, ferr, chunks, envVars, spoolIn,
                   indexEnd, refreshed, pl, brkVars, ksVars, ackOf>>

\* Mutant: the absolute end offset is sent as the ContentDelta.
ContentDeltaAbsolute(cf) == cf.end

\* b.clientFragment.ContentLength(): the ContentDelta of the next chunk.
ContentDelta(cf) == cf.end - cf.begin

\* What run hands onStreamContent: a content chunk, the empty commit chunk,
\* the client's EOF, or an error (a client or transport error, or the
\* DeadlineExceeded injected after two ticks of appendChunkTimeout).
Events == {"content", "empty", "eof", "error"}

\* The end of onStreamContent: scatter the commit proposal iff the client
\* sent EOF with no send error and an OK status, else a rollback of the
\* delta; b.err is set iff the chunk carried an error (|e| # "content").
FinishStream(a, S, cf, e, status) ==
    LET id == pln[a]
        commit == e = "eof" /\ ~SendErr(S.pl[id]) /\ status = "OK"
        prop == IF commit THEN SpoolNext(S.ls) ELSE Frag(S.ls)
    IN /\ SetP(ScatterV(S, id, PropReq(a, prop, TRUE, NoHdr)))
       /\ ferr' = [ferr EXCEPT ![a] = ~commit /\ e # "content"]
       /\ cfrag' = [cfrag EXCEPT ![a] = cf]
       /\ res' = [res EXCEPT ![a].status = status]
       /\ Goto(a, "readAcks")

\* onStreamContent. On the first call the Fragment may be rolled forward
\* (scattered without acknowledgement) and b.clientFragment opens at the
\* Spool's end. Content bytes are labelled with their appender.
OnStreamContent(a) ==
    /\ st[a] = "streamContent"
    /\ LET id == pln[a]
           first == cfrag[a].begin = -1
           roll == NextProposal(spool[Local], 0)
           S0 == IF first /\ Frag(spool[Local]) # roll
                 THEN ScatterV(PState, id, PropReq(a, roll, FALSE, NoHdr))
                 ELSE PState
           cf0 == IF first THEN [begin |-> S0.ls.end, end |-> S0.ls.end] ELSE cfrag[a]
           cf1 == [cf0 EXCEPT !.end = @ + 1]
           S1 == ScatterV(S0, id, ContentReq(a, ContentDelta(cf0)))
       IN \E ev \in Events :
          /\ ev = "content" => chunks[a] < MaxChunks /\ cf0.end < MaxOffset
          /\ LET e == CASE ev = "eof" /\ ~ccommit[a] -> "unexpectedEOF"
                        [] ev \in {"content", "empty"} /\ ccommit[a] -> "expectedEOF"
                        [] OTHER -> ev
             IN CASE e = "empty" ->
                       /\ ccommit' = [ccommit EXCEPT ![a] = TRUE]
                       /\ SetP(S0) /\ cfrag' = [cfrag EXCEPT ![a] = cf0]
                       /\ UNCHANGED <<st, res, ferr, chunks>>
                  [] e = "content" /\ ~MayWrite ->
                       FinishStream(a, S0, cf0, e, "NOT_ALLOWED")
                       /\ UNCHANGED <<ccommit, chunks>>
                  [] e = "content" ->
                       /\ chunks' = [chunks EXCEPT ![a] = @ + 1]
                       /\ UNCHANGED ccommit
                       /\ IF ~SendErr(S1.pl[id])
                          THEN /\ SetP(S1) /\ cfrag' = [cfrag EXCEPT ![a] = cf1]
                               /\ UNCHANGED <<st, res, ferr>>
                          ELSE FinishStream(a, S1, cf1, e, "OK")
                  [] OTHER ->
                       FinishStream(a, S0, cf0, e, "OK")
                       /\ UNCHANGED <<ccommit, chunks>>
    /\ UNCHANGED <<pln, own, rtr, rto, envVars, plnCh, spoolIn, refreshed,
                   serving, peerRev, ksVars, ackOf>>

\* onReadAcknowledgements, up to its wait on the receive barrier: take a
\* barrier slot, then release the send side (on a send error, close it,
\* which rolls back and returns the Spool, and release nil instead).
OnReadAcknowledgements(a) ==
    /\ st[a] = "readAcks"
    /\ LET id == pln[a]
           P == pl[id]
           sendErr == SendErr(P)
           P1 == [P EXCEPT !.barrier = Append(@, a)]
       IN /\ plnCh = <<>>
          /\ own' = [own EXCEPT ![a] = FALSE]
          /\ IF ~sendErr
             THEN /\ plnCh' = <<id>>
                  /\ pl' = [pl EXCEPT ![id] = P1]
                  /\ Goto(a, "awaitAcks")
                  /\ UNCHANGED <<spool, spoolIn>>
             ELSE /\ plnCh' = <<0>>
                  /\ pl' = [pl EXCEPT ![id] = CloseSend(P1)]
                  /\ spool' = RollbackLocal /\ spoolIn' = TRUE
                  /\ Goto(a, "awaitAcksErr")
    /\ UNCHANGED <<res, pln, rtr, rto, ccommit, cfrag, ferr, chunks, envVars,
                   indexEnd, refreshed, written, serving, peerRev, panicked,
                   ksVars, ackOf>>

\* Mutants of AwaitAcks: recvErr is not consulted; the barrier is not
\* waited on.
AwaitAcksIgnoresRecvErr(a) ==
    /\ st[a] \in {"awaitAcks", "awaitAcksErr"}
    /\ LET id == pln[a]
           P == pl[id]
           sendErr == st[a] = "awaitAcksErr"
           Q0 == Gather(P, TRUE)
           Q == IF sendErr THEN GatherEOF(Q0) ELSE Q0
       IN /\ P.barrier # <<>> /\ Head(P.barrier) = a
          /\ GatherReady(P)
          /\ sendErr => EOFReady(Q0)
          /\ pl' = [pl EXCEPT ![id] = [Q EXCEPT !.barrier = Tail(@),
                                    !.phase = IF sendErr THEN "gone" ELSE @]]
          /\ ackOf' = [ackOf EXCEPT ![a] = @ \cup AckTags(P)]
          /\ Goto(a, IF ferr[a] \/ res[a].status # "OK" \/ sendErr
                     THEN "error" ELSE "finished")
    /\ UNCHANGED <<res, pln, own, rtr, rto, ccommit, cfrag, ferr, chunks, envVars,
                   repVars, brkVars, ksVars>>
AwaitAcksNoBarrier(a) ==
    /\ st[a] \in {"awaitAcks", "awaitAcksErr"}
    /\ LET id == pln[a]
           P == pl[id]
           sendErr == st[a] = "awaitAcksErr"
           Q0 == Gather(P, TRUE)
           Q == IF sendErr THEN GatherEOF(Q0) ELSE Q0
       IN /\ P.barrier # <<>> /\ a \in Range(P.barrier)
          /\ GatherReady(P)
          /\ sendErr => EOFReady(Q0)
          /\ pl' = [pl EXCEPT ![id] = [Q EXCEPT !.barrier = SelectSeq(@, LAMBDA x : x # a),
                                    !.phase = IF sendErr THEN "gone" ELSE @]]
          /\ ackOf' = [ackOf EXCEPT ![a] = @ \cup AckTags(P)]
          /\ Goto(a, IF ferr[a] \/ res[a].status # "OK" \/ RecvErr(Q) \/ sendErr
                     THEN "error" ELSE "finished")
    /\ UNCHANGED <<res, pln, own, rtr, rto, ccommit, cfrag, ferr, chunks, envVars,
                   repVars, brkVars, ksVars>>
\* Mutant of AwaitAcks: sendErr() is read again after the send side was
\* released, instead of the value retained before it.
AwaitAcksLateSendErr(a) ==
    /\ st[a] \in {"awaitAcks", "awaitAcksErr"}
    /\ LET id == pln[a]
           P == pl[id]
           sendErr == SendErr(P)
           Q0 == Gather(P, TRUE)
           Q == IF sendErr THEN GatherEOF(Q0) ELSE Q0
       IN /\ P.barrier # <<>> /\ Head(P.barrier) = a
          /\ GatherReady(P)
          /\ sendErr => EOFReady(Q0)
          /\ pl' = [pl EXCEPT ![id] = [Q EXCEPT !.barrier = Tail(@),
                                    !.phase = IF sendErr THEN "gone" ELSE @]]
          /\ ackOf' = [ackOf EXCEPT ![a] = @ \cup AckTags(P)]
          /\ Goto(a, IF ferr[a] \/ res[a].status # "OK" \/ RecvErr(Q) \/ sendErr
                     THEN "error" ELSE "finished")
    /\ UNCHANGED <<res, pln, own, rtr, rto, ccommit, cfrag, ferr, chunks, envVars,
                   repVars, brkVars, ksVars>>
\* Mutant of AwaitAcks: the deferred close(closeAfter) is left out, so the
\* barrier slot is never passed on.
AwaitAcksNoClose(a) ==
    /\ st[a] \in {"awaitAcks", "awaitAcksErr"}
    /\ LET id == pln[a]
           P == pl[id]
           sendErr == st[a] = "awaitAcksErr"
           Q0 == Gather(P, TRUE)
           Q == IF sendErr THEN GatherEOF(Q0) ELSE Q0
       IN /\ P.barrier # <<>> /\ Head(P.barrier) = a
          /\ GatherReady(P)
          /\ sendErr => EOFReady(Q0)
          /\ pl' = [pl EXCEPT ![id] = [Q EXCEPT !.phase = IF sendErr THEN "gone" ELSE @]]
          /\ ackOf' = [ackOf EXCEPT ![a] = @ \cup AckTags(P)]
          /\ Goto(a, IF ferr[a] \/ res[a].status # "OK" \/ RecvErr(Q) \/ sendErr
                     THEN "error" ELSE "finished")
    /\ UNCHANGED <<res, pln, own, rtr, rto, ccommit, cfrag, ferr, chunks, envVars,
                   repVars, brkVars, ksVars>>

\* onReadAcknowledgements after <-waitFor: gatherOK (and gatherEOF after a
\* send error), then close(closeAfter) passes the receive side on. The
\* terminal state reflects b.err, the status, recvErr and sendErr in turn.
AwaitAcks(a) ==
    /\ st[a] \in {"awaitAcks", "awaitAcksErr"}
    /\ LET id == pln[a]
           P == pl[id]
           sendErr == st[a] = "awaitAcksErr"
           Q0 == Gather(P, TRUE)
           Q == IF sendErr THEN GatherEOF(Q0) ELSE Q0
       IN /\ P.barrier # <<>> /\ Head(P.barrier) = a
          /\ GatherReady(P)
          /\ sendErr => EOFReady(Q0)
          /\ pl' = [pl EXCEPT ![id] = [Q EXCEPT !.barrier = Tail(@),
                                    !.phase = IF sendErr THEN "gone" ELSE @]]
          /\ ackOf' = [ackOf EXCEPT ![a] = @ \cup AckTags(P)]
          /\ Goto(a, IF ferr[a] \/ res[a].status # "OK" \/ RecvErr(Q) \/ sendErr
                     THEN "error" ELSE "finished")
    /\ UNCHANGED <<res, pln, own, rtr, rto, ccommit, cfrag, ferr, chunks, envVars,
                   repVars, brkVars, ksVars>>

-----------------------------------------------------------------------------
(* pipeline.shutdown, run as a goroutine (spec 4.4): close the send side,  *)
(* returning the Spool, then after the prior receivers drain each stream   *)
(* to EOF.                                                                 *)
PipelineShutdown(id) ==
    /\ pl[id].phase = "shutdown"
    /\ pl' = [pl EXCEPT ![id] = [CloseSend(@) EXCEPT !.barrier = Append(@, ShutTok),
                                                  !.phase = "draining"]]
    /\ spool' = RollbackLocal /\ spoolIn' = TRUE
    /\ UNCHANGED <<fsmVars, envVars, plnCh, indexEnd, refreshed, written,
                   serving, peerRev, panicked, ksVars, ackOf>>

PipelineDrain(id) ==
    /\ pl[id].phase = "draining"
    /\ pl[id].barrier # <<>> /\ Head(pl[id].barrier) = ShutTok
    /\ EOFReady(pl[id])
    /\ pl' = [pl EXCEPT ![id] = [GatherEOF(@) EXCEPT !.barrier = Tail(@),
                                                 !.phase = "gone"]]
    /\ UNCHANGED <<fsmVars, envVars, repVars, brkVars, ksVars, ackOf>>

-----------------------------------------------------------------------------
(* A peer serving a Replicate stream (spec 4.4, 6): it holds its replica's *)
(* Spool for one stream at a time, waits to read through the header's      *)
(* revision and answers WRONG_ROUTE (ending the stream) if its Route       *)
(* differs; it applies every request to its Spool, answers acknowledged    *)
(* proposals, and aborts the stream on an unacknowledged rejection.        *)
PeerServe(p, id) ==
    LET P == pl[id]
        s == P.strm[p]
        r == Head(s.reqs)
        sp == spool[p]
        wrong == r.hdr # NoHdr /\ asn[peerRev[p]].route # r.hdr.route
        ok == IF r.kind = "prop" THEN ProposalOK(sp, r.prop) ELSE ContentOK(sp, r.cd)
        answers == wrong \/ (r.kind = "prop" /\ r.ack)
        aborts == ~wrong /\ ~ok /\ ~answers
        resp == [status |-> CASE wrong -> "WRONG_ROUTE" [] ok -> "OK"
                                 [] OTHER -> "FRAGMENT_MISMATCH",
                 frag |-> Frag(sp), rev |-> peerRev[p], from |-> r.from]
    IN /\ p \in P.peers /\ serving[p] \in {0, id}
       /\ s.reqs # <<>> /\ ~s.broken /\ ~s.eof
       /\ r.hdr # NoHdr => peerRev[p] >= r.hdr.rev
       /\ spool' = IF wrong \/ ~ok THEN spool
                   ELSE [spool EXCEPT ![p] = IF r.kind = "prop"
                                             THEN ApplyProposal(sp, r.prop)
                                             ELSE ApplyContent(sp, r.bytes)]
       /\ written' = IF r.kind = "prop" /\ ~wrong
                     THEN [written EXCEPT ![p] = Persist(@, sp, r.prop)] ELSE written
       /\ pl' = [pl EXCEPT ![id].strm[p] =
                    [s EXCEPT !.reqs = Tail(@),
                              !.resps = IF answers THEN Append(@, resp) ELSE @,
                              !.broken = aborts, !.eof = wrong]]
       /\ serving' = [serving EXCEPT ![p] = IF wrong \/ aborts THEN 0 ELSE id]
       /\ UNCHANGED <<fsmVars, envVars, repVars, peerRev, panicked, ksVars, ackOf>>

\* The primary closed the stream's send side: the peer reads EOF, closes its
\* side and releases its Spool.
PeerEOF(p, id) ==
    LET s == pl[id].strm[p] IN
    /\ p \in pl[id].peers /\ pl[id].sendClosed
    /\ s.reqs = <<>> /\ ~s.broken /\ ~s.eof
    /\ serving[p] \in {0, id}
    /\ pl' = [pl EXCEPT ![id].strm[p].eof = TRUE]
    /\ serving' = [serving EXCEPT ![p] = 0]
    /\ UNCHANGED <<fsmVars, envVars, repVars, spool, written, peerRev, panicked,
                   ksVars, ackOf>>

\* A Replicate stream breaks (peer crash, network partition): messages in
\* flight either way are lost and the peer abandons the stream.
StreamFail(id, p) ==
    /\ failures < MaxFailures
    /\ p \in pl[id].peers /\ pl[id].phase \in {"live", "shutdown", "draining"}
    /\ ~pl[id].strm[p].broken /\ ~pl[id].strm[p].eof
    /\ failures' = failures + 1
    /\ pl' = [pl EXCEPT ![id].strm[p] = [@ EXCEPT !.reqs = <<>>, !.resps = <<>>,
                                                  !.broken = TRUE]]
    /\ serving' = [serving EXCEPT ![p] = IF @ = id THEN 0 ELSE @]
    /\ UNCHANGED <<fsmVars, cancelled, reqOff, external, repVars, spool, written,
                   peerRev, panicked, ksVars, ackOf>>

-----------------------------------------------------------------------------
(* Etcd and the environment.                                               *)

\* The allocator assigns the journal a new Route: the assignments' values
\* still advertise the previous one, so the revision is inconsistent.
Allocate(r) ==
    /\ Len(asn) < MaxRev
    /\ r # asn[Len(asn)].route
    /\ asn' = Append(asn, [route |-> r, consistent |-> FALSE])
    /\ UNCHANGED <<fsmVars, envVars, repVars, pl, brkVars, localRev, ackOf>>

\* KeySpace watches apply the next revision.
LocalWatch ==
    /\ localRev < Len(asn)
    /\ localRev' = localRev + 1
    /\ UNCHANGED <<fsmVars, envVars, repVars, pl, brkVars, asn, ackOf>>

PeerWatch(p) ==
    /\ peerRev[p] < Len(asn)
    /\ peerRev' = [peerRev EXCEPT ![p] = @ + 1]
    /\ UNCHANGED <<fsmVars, envVars, repVars, pl, spool, written, serving,
                   panicked, ksVars, ackOf>>

\* A refresh of the fragment index from the remote store. The store holds
\* at most the Fragments brokers have committed; uploads may lag, so the
\* refreshed end lies anywhere up to the largest committed end.
StoreEnd == Max({indexEnd} \cup {spool[b].end : b \in Brokers})
RemoteRefresh ==
    \E e \in indexEnd..StoreEnd :
        /\ ~refreshed \/ e > indexEnd
        /\ refreshed' = TRUE
        /\ indexEnd' = e
    /\ UNCHANGED <<fsmVars, envVars, plnCh, spoolIn, pl, brkVars, ksVars, ackOf>>

\* A disconnected writer adds a Fragment to the store beyond the index end.
ExternalAppend ==
    /\ external < MaxExternal /\ indexEnd + 1 < MaxOffset
    /\ external' = external + 1
    /\ indexEnd' = indexEnd + 1
    /\ UNCHANGED <<fsmVars, cancelled, reqOff, failures, plnCh, spoolIn,
                   refreshed, pl, brkVars, ksVars, ackOf>>

\* The Append RPC's context is cancelled.
Cancel(a) ==
    /\ ~cancelled[a] /\ st[a] \notin Terminal
    /\ Cardinality({x \in Appenders : cancelled[x]}) < MaxCancels
    /\ cancelled' = [cancelled EXCEPT ![a] = TRUE]
    /\ UNCHANGED <<fsmVars, reqOff, failures, external, repVars, pl, brkVars,
                   ksVars, ackOf>>

\* Every append has returned and no pipeline is still shutting down.
Quiescent ==
    /\ \A a \in Appenders : st[a] \in Terminal
    /\ \A id \in Pids : pl[id].phase \notin {"shutdown", "draining"}
Done == Quiescent /\ UNCHANGED vars

-----------------------------------------------------------------------------
Appender(a) ==
    \/ OnResolve(a) \/ OnAcquirePipeline(a) \/ OnStartPipeline(a)
    \/ OnSendPipelineSync(a) \/ OnRecvPipelineSync(a) \/ OnUpdateAssignments(a)
    \/ OnAwaitDesiredReplicas(a) \/ OnValidateOffset(a) \/ OnStreamContent(a)
    \/ OnReadAcknowledgements(a) \/ AwaitAcks(a)

System ==
    \/ \E a \in Appenders : Appender(a)
    \/ \E id \in Pids : PipelineShutdown(id) \/ PipelineDrain(id)
    \/ \E p \in Peers, id \in Pids : PeerServe(p, id) \/ PeerEOF(p, id)
    \/ LocalWatch \/ \E p \in Peers : PeerWatch(p)
    \/ RemoteRefresh

Environment ==
    \/ \E r \in Routes : Allocate(r)
    \/ \E id \in Pids, p \in Peers : StreamFail(id, p)
    \/ ExternalAppend
    \/ \E a \in Appenders : Cancel(a)

Next == System \/ Environment \/ Done

\* Goroutines are scheduled fairly: every appendFSM, pipeline goroutine,
\* peer and watch which can proceed eventually does. Allocations, stream
\* failures, foreign writes and cancellations may never happen.
Fairness ==
    /\ \A a \in Appenders : WF_vars(Appender(a))
    /\ \A id \in Pids : WF_vars(PipelineShutdown(id)) /\ WF_vars(PipelineDrain(id))
    /\ \A p \in Peers, id \in Pids : WF_vars(PeerServe(p, id)) /\ WF_vars(PeerEOF(p, id))
    /\ WF_vars(LocalWatch) /\ \A p \in Peers : WF_vars(PeerWatch(p))
    /\ WF_vars(RemoteRefresh)

Spec == Init /\ [][Next]_vars /\ Fairness

-----------------------------------------------------------------------------
(* Properties.                                                             *)

States == {"resolve", "acquire", "start", "sendSync", "recvSync", "updateAsn",
           "awaitDesired", "validateOffset", "streamContent", "readAcks",
           "awaitAcks", "awaitAcksErr"} \cup Terminal
Phases == {"none", "live", "shutdown", "draining", "gone"}

TypeOK ==
    /\ st \in [Appenders -> States]
    /\ pln \in [Appenders -> 0..MaxPipelines]
    /\ own \in [Appenders -> BOOLEAN]
    /\ ccommit \in [Appenders -> BOOLEAN] /\ ferr \in [Appenders -> BOOLEAN]
    /\ chunks \in [Appenders -> 0..MaxChunks]
    /\ plnCh \in Seq(0..MaxPipelines) /\ Len(plnCh) <= 1
    /\ spoolIn \in BOOLEAN /\ refreshed \in BOOLEAN
    /\ indexEnd \in 0..MaxOffset
    /\ \A b \in Brokers : spool[b].end = spool[b].begin + Len(spool[b].sum)
    /\ \A id \in Pids : pl[id].phase \in Phases
    /\ written \in [Brokers -> [Offsets -> Appenders \cup {Old, NoByte}]]
    /\ serving \in [Peers -> 0..MaxPipelines]
    /\ localRev \in 1..Len(asn) /\ peerRev \in [Peers -> 1..Len(asn)]
    /\ ackOf \in [Appenders -> SUBSET Appenders]

\* An append the appendFSM reports as finished (onReadAcknowledgements saw
\* every peer acknowledge its commit) has its content committed, at the
\* offsets of b.clientFragment, by every member of its resolved Route.
AckedAppendsDurable ==
    \A a \in Appenders :
        st[a] = "finished" =>
            \A b \in res[a].route.members, o \in cfrag[a].begin..(cfrag[a].end - 1) :
                written[b][o] = a

\* Commits are totally ordered and identical on every peer: no journal
\* offset holds different bytes on two brokers.
ReplicasAgree ==
    \A b1, b2 \in Brokers, o \in Offsets :
        written[b1][o] # NoByte /\ written[b2][o] # NoByte =>
            written[b1][o] = written[b2][o]

\* spec 8.3: an append which fails after streaming content is rolled back:
\* none of its bytes is committed to the primary's Spool.
FailedAppendsRolledBack ==
    \A a \in Appenders :
        st[a] = "error" =>
            \A o \in cfrag[a].begin..(cfrag[a].end - 1) : written[Local][o] # a

\* pipeline.scatter never hands the local Spool a request it rejects (the
\* Go code panics): proposals are synchronised before they are scattered.
NoSpoolPanic == ~panicked

\* The receive side is consumed in send order: each gather of an appender
\* reads only the responses to its own requests.
AcksMatchAppends == \A a \in Appenders : ackOf[a] \subseteq {a}

\* The Spool is owned by exactly one party: it sits in spoolCh, or it is
\* held by the one pipeline whose send side is still open.
SpoolExclusive ==
    LET holders == {id \in Pids : pl[id].phase \in {"live", "shutdown"}
                                  /\ ~pl[id].sendClosed}
    IN Cardinality(holders) + (IF spoolIn THEN 1 ELSE 0) = 1

\* The pipeline's send side (or the nil which lets a new one be built) is
\* held by exactly one party: pipelineCh or one appendFSM.
SendSideExclusive ==
    Len(plnCh) + Cardinality({a \in Appenders : own[a]}) = 1

\* Refinement: the primary's committed journal implements AbstractJournal.
\* The Local Spool's end and the bytes it committed are the journal; an
\* appendFSM is pending until it reaches a terminal state, and a finished
\* one reports b.clientFragment. Every commit the pipeline scatters extends
\* the journal at its end by content of one appendFSM that has not yet
\* returned, rollbacks and rolls never rewrite or regress it, and an
\* append is finished only at a committed range holding its own bytes.
JournalStatus(a) ==
    CASE st[a] = "finished"          -> "finished"
      [] st[a] \in {"error", "proxy"} -> "other"
      [] OTHER                       -> "pending"
Journal == INSTANCE AbstractJournal WITH
    journal  <- written[Local],
    end      <- spool[Local].end,
    status   <- [a \in Appenders |-> JournalStatus(a)],
    reported <- [a \in Appenders |-> IF st[a] = "finished" THEN cfrag[a] ELSE NoFrag]
JournalSpec == Journal!Spec

\* Every Append RPC eventually returns: the appendFSM reaches a terminal
\* state, whatever the pipeline hand-offs and peers' progress.
Termination == \A a \in Appenders : <>(st[a] \in Terminal)
=============================================================================
