----------------------------- MODULE ClientReader -----------------------------
(***************************************************************************)
(* client.Reader (broker/client/reader.go): Read over a Read RPC stream,   *)
(* the direct FragmentReader of a fragment URL, and Seek, against a broker *)
(* serving one ReadRequest and a blob store holding persisted fragments.   *)
(*                                                                         *)
(* A journal byte is represented by its own offset, and a byte a faulty    *)
(* blob holds beyond its fragment by Junk. Fragment k covers               *)
(* [k * FragLen, (k+1) * FragLen) and ends early at the write head while   *)
(* it is the open spool fragment. The broker's read handler is not under  *)
(* src/; it follows the Read RPC of spec 6 (a metadata frame per fragment, *)
(* content frames, OFFSET_NOT_YET_AVAILABLE or blocking at the write head, *)
(* the fragment URL instead of content when the request is DoNotProxy).    *)
(***************************************************************************)
EXTENDS Integers, Sequences, FiniteSets

CONSTANTS FragLen,         \* bytes per fragment
          MaxHead,         \* bound on the write head
          InitHeads,       \* write heads the journal may start at
          RequestOffsets,  \* ReadRequest.Offset values (-1: the write head)
          Blocks,          \* values of ReadRequest.Block
          DoNotProxy,      \* ReadRequest.DoNotProxy
          MetadataOnly,    \* ReadRequest.MetadataOnly
          ChunkSize,       \* content bytes per ReadResponse
          BufCap,          \* size of the caller's bufio.Reader buffer
          Retention,       \* whether persisted fragments expire
          ResetOnJump,     \* whether the caller resets its bufio.Reader on ErrOffsetJump
          SeekOffsets,     \* Seek offset arguments
          MaxFaults,       \* bound on stream breaks, dial, fetch and blob faults
          CtxErrs          \* ctx.Err() values the Reader's context may end with

Junk == -2
NoFrag == [begin |-> 0, end |-> 0]
Frags == 0..((MaxHead - 1) \div FragLen)

VARIABLES
    block,      \* Reader.Request.Block
    ctxErr,     \* Reader.ctx.Err(): "none" while the context is live
    head,       \* the journal's write head
    persisted,  \* fragments with a backing-store URL
    removed,    \* persisted fragments deleted from the store and the index
    srv,        \* the broker's read handler for the open stream
    wire,       \* ReadResponses in flight to the client, then EOF or an error
    faults,     \* faults injected so far
    off,        \* Reader.Request.Offset
    resp,       \* Reader.Response: the most recent ReadResponse
    stream,     \* Reader.stream: "none", "open" or "done" (EOF or error read)
    direct,     \* Reader.direct: the open FragmentReader, if any
    pc,         \* the caller: "idle", "recv" (blocked in RecvMsg) or "invalid"
    buf,        \* len(p) of the Read call in progress
    got,        \* bytes returned to the caller, in order
    lastErr,    \* the error of the caller's last call
    lastOp,     \* the caller's last call: "read" or "seek"
    buffered    \* bytes of got in the caller's bufio.Reader, not yet consumed

journalVars == <<block, ctxErr, head, persisted, removed>>
srvVars == <<srv, wire>>
readerVars == <<off, resp, stream, direct, pc, buf, got, lastErr, lastOp, buffered>>
vars == <<journalVars, srvVars, faults, readerVars>>

MinOf(a, b) == IF a < b THEN a ELSE b

\* The committed bytes [b, e), and fragment k at the current write head.
Bytes(b, e) == [i \in 1..(e - b) |-> b + i - 1]
FragOf(k) == [begin |-> k * FragLen, end |-> MinOf((k + 1) * FragLen, head)]
Exists(k) == k * FragLen < head
Complete(k) == (k + 1) * FragLen <= head
Available(k) == Exists(k) /\ k \notin removed

NoDirect == [open |-> FALSE, closed |-> FALSE, blob |-> <<>>, pos |-> 0,
             offset |-> 0, end |-> 0]
NoResp == [kind |-> "msg", status |-> "OK", offset |-> 0, content |-> <<>>, frag |-> NoFrag,
           url |-> FALSE]
-----------------------------------------------------------------------------
(* The journal and the blob store (environment).                           *)

AppendByte ==
    /\ head < MaxHead
    /\ head' = head + 1
    /\ UNCHANGED <<block, ctxErr, persisted, removed, srvVars, faults, readerVars>>

\* A complete fragment is uploaded, or a persisted one expires. The last
\* fragment is never removed, so an offset below the head is always
\* followed by an available fragment.
Persist(k) ==
    /\ Complete(k) /\ k \notin persisted
    /\ persisted' = persisted \cup {k}
    /\ UNCHANGED <<block, ctxErr, head, removed, srvVars, faults, readerVars>>

Remove(k) ==
    /\ Retention
    /\ k \in persisted /\ k \notin removed
    /\ \E j \in Frags : j > k /\ Available(j)
    /\ removed' = removed \cup {k}
    /\ UNCHANGED <<block, ctxErr, head, persisted, srvVars, faults, readerVars>>
-----------------------------------------------------------------------------
(* The broker's read handler (spec 6), for the stream the Reader opened.   *)
(* srv.phase: "start" (at srv.off, to send a fragment's metadata),         *)
(* "content" (content frames up to srv.end), "eof", or "done".             *)

Msg(status, o, content, frag, url) ==
    [kind |-> "msg", status |-> status, offset |-> o, content |-> content,
     frag |-> frag, url |-> url]
EOFFrame == [kind |-> "eof"]
ErrFrame(code) == [kind |-> "err", code |-> code]

ServeStart ==
    /\ srv.phase = "start"
    /\ LET o == IF srv.off = -1 THEN head ELSE srv.off IN
       IF o >= head
       THEN \* At the write head: wait for content, or OFFSET_NOT_YET_AVAILABLE.
            /\ ~block
            /\ wire' = Append(wire, Msg("OFFSET_NOT_YET_AVAILABLE", o, <<>>, NoFrag, FALSE))
            /\ srv' = [srv EXCEPT !.phase = "eof"]
       ELSE LET k  == CHOOSE j \in Frags : Available(j) /\ FragOf(j).end > o
                                         /\ \A i \in Frags : Available(i) /\ FragOf(i).end > o => j <= i
                f  == FragOf(k)
                o2 == IF o < f.begin THEN f.begin ELSE o
                url == k \in persisted
            IN /\ wire' = Append(wire, Msg("OK", o2, <<>>, f, url))
               /\ srv' = IF MetadataOnly \/ (DoNotProxy /\ url)
                         THEN [srv EXCEPT !.phase = "eof"]
                         ELSE [srv EXCEPT !.phase = "content", !.off = o2, !.end = f.end]
    /\ UNCHANGED <<journalVars, faults, readerVars>>

ServeContent ==
    /\ srv.phase = "content"
    /\ LET e == MinOf(srv.off + ChunkSize, srv.end) IN
       /\ wire' = Append(wire, Msg("OK", srv.off, Bytes(srv.off, e), NoFrag, FALSE))
       /\ srv' = [srv EXCEPT !.off = e, !.phase = IF e = srv.end THEN "start" ELSE "content"]
    /\ UNCHANGED <<journalVars, faults, readerVars>>

ServeEOF ==
    /\ srv.phase = "eof"
    /\ wire' = Append(wire, EOFFrame)
    /\ srv' = [srv EXCEPT !.phase = "done"]
    /\ UNCHANGED <<journalVars, faults, readerVars>>

\* The stream breaks (the transport fails).
StreamBreak ==
    /\ srv.phase \notin {"idle", "done"}
    /\ faults < MaxFaults
    /\ wire' = Append(wire, ErrFrame("Unavailable"))
    /\ srv' = [srv EXCEPT !.phase = "done"]
    /\ faults' = faults + 1
    /\ UNCHANGED <<journalVars, readerVars>>

\* The Reader's context is cancelled or its deadline passes. gRPC fails an
\* open stream with the status code matching ctx.Err(), after or instead of
\* the frames it has not yet delivered.
CtxDone ==
    /\ ctxErr = "none"
    /\ \E c \in CtxErrs :
         /\ ctxErr' = c
         /\ IF stream = "open"
            THEN /\ wire' \in IF srv.phase = "done" THEN {wire, <<ErrFrame(c)>>}
                               ELSE {Append(wire, ErrFrame(c)), <<ErrFrame(c)>>}
                 /\ srv' = [srv EXCEPT !.phase = "done"]
            ELSE UNCHANGED srvVars
    /\ UNCHANGED <<block, head, persisted, removed, faults, readerVars>>

\* The broker is not (or no longer) the journal's broker: a !OK status, then
\* stream closure. Status responses carry no offset.
ServeNotBroker ==
    /\ srv.phase = "start"
    /\ faults < MaxFaults
    /\ wire' = Append(wire, Msg("NOT_JOURNAL_BROKER", 0, <<>>, NoFrag, FALSE))
    /\ srv' = [srv EXCEPT !.phase = "eof"]
    /\ faults' = faults + 1
    /\ UNCHANGED <<journalVars, readerVars>>
-----------------------------------------------------------------------------
(* FragmentReader over the raw body of a fragment URL. fr.blob is the body, *)
(* fr.pos the bytes of it consumed, fr.offset FragmentReader.Offset.        *)

\* FragmentReader.Close closes the decompressor and the raw body.
Close(fr) == [fr EXCEPT !.closed = TRUE]

\* decomp.Read(p): the next min(p, remaining) bytes of the body, with EOF
\* allowed alongside the last of them; (0, EOF) at its end; an error once
\* the body is closed, or (the body's request being bound to the Reader's
\* context) once the context has ended.
DecompRead(fr, p) ==
    LET rem == Len(fr.blob) - fr.pos
        k   == MinOf(p, rem)
    IN IF fr.closed THEN {[k |-> 0, err |-> "closed"]}
       ELSE IF rem = 0 THEN {[k |-> 0, err |-> "EOF"]}
       ELSE {[k |-> k, err |-> "nil"]} \cup
            (IF k = rem THEN {[k |-> k, err |-> "EOF"]} ELSE {}) \cup
            (IF ctxErr # "none" THEN {[k |-> 0, err |-> "bodyCanceled"]} ELSE {})

\* Mutant: bytes read beyond Fragment.End are returned, not trimmed.
FrReadUntrimmed(fr, p) ==
    { LET o == fr.offset + r.k
      IN [fr    |-> [fr EXCEPT !.pos = @ + r.k, !.offset = o],
          n     |-> r.k,
          bytes |-> SubSeq(fr.blob, fr.pos + 1, fr.pos + r.k),
          err   |-> IF o > fr.end THEN "DidNotReadExpectedEOF"
                    ELSE IF r.err = "EOF" /\ o # fr.end THEN "UnexpectedEOF"
                    ELSE r.err]
      : r \in DecompRead(fr, p) }

\* FragmentReader.Read: advance Offset by what decomp read, trim what lies
\* beyond Fragment.End, and turn an early EOF into ErrUnexpectedEOF.
FrRead(fr, p) ==
    { LET o == fr.offset + r.k
          n == IF o > fr.end THEN r.k - (o - fr.end) ELSE r.k
      IN [fr    |-> [fr EXCEPT !.pos = @ + r.k, !.offset = o],
          n     |-> n,
          bytes |-> SubSeq(fr.blob, fr.pos + 1, fr.pos + n),
          err   |-> IF o > fr.end THEN "DidNotReadExpectedEOF"
                    ELSE IF r.err = "EOF" /\ o # fr.end THEN "UnexpectedEOF"
                    ELSE r.err]
      : r \in DecompRead(fr, p) }

\* io.CopyN(ioutil.Discard, fr, n) over a FragmentReader: read through a
\* LimitReader until n bytes are written; EOF short of n is an error, and
\* a read error is returned unless the full n was written with it. Reads
\* go through Reader.Read when its direct reader is fr, which closes fr
\* on any error (the closeOnErr flag).
RECURSIVE CopyN(_, _, _)
CopyN(fr, n, closeOnErr) ==
    IF n = 0 THEN {[fr |-> fr, n |-> 0, err |-> "nil"]}
    ELSE UNION { LET fr2 == IF closeOnErr /\ x.err # "nil" THEN Close(x.fr) ELSE x.fr
                 IN IF x.n = n THEN {[fr |-> fr2, n |-> n, err |-> "nil"]}
                    ELSE IF x.err = "nil"
                         THEN { [y EXCEPT !.n = @ + x.n] : y \in CopyN(fr2, n - x.n, closeOnErr) }
                         ELSE {[fr |-> fr2, n |-> x.n, err |-> x.err]}
                 : x \in FrRead(fr, n) }

\* The bodies a fetch of fragment f may return: its bytes, or (a blob
\* fault) a truncated body, or one with a byte beyond the fragment's end.
Bodies(f) ==
    {Bytes(f.begin, f.end)} \cup
    (IF faults < MaxFaults
     THEN {Bytes(f.begin, e) : e \in f.begin..(f.end - 1)} \cup
          {Bytes(f.begin, f.end) \o <<Junk>>}
     ELSE {})

\* NewFragmentReader(body, fragment, offset): Offset starts at Begin, then
\* CopyN discards up to offset; on error the reader is closed. The
\* outcomes of a successful open are [fr, err |-> "nil"].
NewFragmentReader(body, f, offset) ==
    LET fr0 == [open |-> TRUE, closed |-> FALSE, blob |-> body, pos |-> 0,
                offset |-> f.begin, end |-> f.end]
    IN { [fr |-> IF x.err # "nil" THEN Close(x.fr) ELSE x.fr, err |-> x.err]
         : x \in CopyN(fr0, offset - f.begin, FALSE) }
-----------------------------------------------------------------------------
(* client.Reader. A Read call runs until it blocks in RecvMsg (pc "recv")  *)
(* or returns; the recursive calls of Read are part of the step that makes *)
(* them. Any returned error but ErrOffsetJump invalidates the Reader.      *)

Init ==
    /\ block \in Blocks /\ ctxErr = "none"
    /\ head \in InitHeads /\ persisted = {} /\ removed = {}
    /\ srv = [phase |-> "idle", off |-> 0, end |-> 0]
    /\ wire = <<>> /\ faults = 0
    /\ off \in RequestOffsets
    /\ resp = NoResp /\ stream = "none" /\ direct = NoDirect
    /\ pc = "idle" /\ buf = 0 /\ got = <<>> /\ lastErr = "nil" /\ lastOp = "read"
    /\ buffered = 0

\* Return from the call with err.
Return(err) ==
    /\ pc' = IF err \in {"nil", "OffsetJump"} THEN "idle" ELSE "invalid"
    /\ lastErr' = err

\* The caller's last operation, as far as it moved the offset or failed.
SetOp(op) == lastOp' = IF off' # off \/ pc' = "invalid" THEN op ELSE lastOp

\* The error a !OK (or metadata-only) status maps to at stream closure.
StatusErr(status) ==
    CASE status = "OK" -> "EOF"
      [] status = "OFFSET_NOT_YET_AVAILABLE" -> "OffsetNotYetAvailable"
      [] status = "NOT_JOURNAL_BROKER" -> "NotJournalBroker"

\* The errors Read and Seek return: the named errors of reader.go, the
\* unwrapped context errors, gRPC statuses, and the fetch, body and
\* validation errors.
ReaderErrors ==
    {"nil", "EOF", "OffsetJump", "OffsetNotYetAvailable", "NotJournalBroker",
     "SeekRequiresNewReader", "DidNotReadExpectedEOF", "UnexpectedEOF", "SeekEnd",
     "validation", "fetch", "closed", "bodyCanceled"} \cup CtxErrs \cup
    {"rpc" \o c : c \in {"Unavailable"} \cup CtxErrs}

\* mapGRPCCtxErr(r.ctx, err) of a gRPC status with |code|: ctx.Err() when
\* the code matches it, otherwise the status error itself.
MapGRPCCtxErr(code) ==
    IF \/ ctxErr = "DeadlineExceeded" /\ code = "DeadlineExceeded"
       \/ ctxErr = "Canceled" /\ code = "Canceled"
    THEN ctxErr ELSE "rpc" \o code

\* Mutant: the remaining-content test admits a fully consumed response.
HasContentAtEnd == LET l == Len(resp.content)
                       d == off - resp.offset
                   IN l # 0 /\ l >= d

\* Mutant: the bytes br buffered are not subtracted.
AdjustedOffsetUnbuffered == off

\* AdjustedOffset(br): Request.Offset less the bytes br has buffered.
AdjustedOffset == off - buffered

HasContent == LET l == Len(resp.content)
                  d == off - resp.offset
              IN l # 0 /\ l > d

\* Reader.Read delegating to the open direct FragmentReader, which it closes
\* on error; Request.Offset advances by what was returned.
DirectRead(fr, p) ==
    \E x \in FrRead(fr, p) :
       /\ direct' = IF x.err # "nil" THEN Close(x.fr) ELSE x.fr
       /\ off' = off + x.n
       /\ got' = got \o x.bytes
       /\ Return(x.err)

ReadDirect(p) ==
    /\ pc = "idle" /\ direct.open
    /\ DirectRead(direct, p)
    /\ buf' = p
    /\ UNCHANGED <<journalVars, srvVars, faults, resp, stream>>
    /\ SetOp("read")

\* Mutant: Request.Offset advances by len(p) rather than the bytes copied.
ReadContentByLen(p) ==
    /\ pc = "idle" /\ ~direct.open /\ HasContent
    /\ LET d == off - resp.offset
           n == MinOf(p, Len(resp.content) - d)
       IN /\ got' = got \o SubSeq(resp.content, d + 1, d + n)
          /\ off' = off + p
    /\ Return("nil") /\ buf' = p
    /\ UNCHANGED <<journalVars, srvVars, faults, resp, stream, direct>>
    /\ SetOp("read")

\* Remaining content of the last ReadResponse is copied out.
ReadContent(p) ==
    /\ pc = "idle" /\ ~direct.open /\ HasContent
    /\ LET d == off - resp.offset
           n == MinOf(p, Len(resp.content) - d)
       IN /\ got' = got \o SubSeq(resp.content, d + 1, d + n)
          /\ off' = off + n
    /\ Return("nil") /\ buf' = p
    /\ UNCHANGED <<journalVars, srvVars, faults, resp, stream, direct>>
    /\ SetOp("read")

\* Lazy initialization: the Read RPC is started with the Request, or the
\* dial fails (always, once the context has ended), and its error is mapped.
ReadOpen(p) ==
    /\ pc = "idle" /\ ~direct.open /\ ~HasContent /\ stream = "none"
    /\ \/ /\ ctxErr = "none"
          /\ stream' = "open"
          /\ srv' = [phase |-> "start", off |-> off, end |-> 0]
          /\ pc' = "recv"
          /\ UNCHANGED <<faults, lastErr>>
       \/ /\ faults < MaxFaults
          /\ faults' = faults + 1
          /\ Return(MapGRPCCtxErr("Unavailable"))
          /\ UNCHANGED <<stream, srv>>
       \/ /\ ctxErr # "none"
          /\ Return(MapGRPCCtxErr(ctxErr))
          /\ UNCHANGED <<faults, stream, srv>>
    /\ buf' = p
    /\ UNCHANGED <<journalVars, wire, off, resp, direct, got>>
    /\ SetOp("read")

\* Mutant: RecvMsg is called before the last response's content is copied out.
ReadRecvIgnoresContent(p) ==
    /\ pc = "idle" /\ ~direct.open /\ stream # "none"
    /\ pc' = "recv" /\ buf' = p
    /\ UNCHANGED <<journalVars, srvVars, faults, off, resp, stream, direct,
                   got, lastErr, lastOp>>

\* The stream is open: the call blocks in RecvMsg.
ReadRecv(p) ==
    /\ pc = "idle" /\ ~direct.open /\ ~HasContent /\ stream # "none"
    /\ pc' = "recv" /\ buf' = p
    /\ UNCHANGED <<journalVars, srvVars, faults, off, resp, stream, direct,
                   got, lastErr, lastOp>>

\* RecvMsg returns an error: the stream is torn down, and the error mapped.
RecvError ==
    /\ pc = "recv" /\ wire # <<>> /\ Head(wire).kind = "err"
    /\ wire' = Tail(wire) /\ stream' = "done"
    /\ Return(MapGRPCCtxErr(Head(wire).code))
    /\ UNCHANGED <<journalVars, srv, faults, off, resp, direct, buf, got>>
    /\ SetOp("read")

\* Mutant: a !OK status is returned at once, without reading the closure.
RecvResponseNoDrain ==
    /\ pc = "recv" /\ wire # <<>> /\ Head(wire).kind = "msg"
    /\ LET f == Head(wire) IN
       /\ resp' = f
       /\ IF f.status = "OK" /\ f.offset < off
          THEN Return("validation") /\ UNCHANGED off
          ELSE /\ off' = IF off < f.offset THEN f.offset ELSE off
               /\ Return(IF f.status # "OK" THEN StatusErr(f.status)
                         ELSE IF off < f.offset THEN "OffsetJump" ELSE "nil")
    /\ wire' = Tail(wire)
    /\ UNCHANGED <<journalVars, srv, faults, stream, direct, buf, got>>
    /\ SetOp("read")

\* RecvMsg returns a ReadResponse: it is validated, an offset jump is taken,
\* and an OK status returns (an empty read); a !OK status recurses to read
\* the stream closure that follows it.
RecvResponse ==
    /\ pc = "recv" /\ wire # <<>> /\ Head(wire).kind = "msg"
    /\ LET f == Head(wire) IN
       /\ resp' = f
       /\ IF f.status = "OK" /\ f.offset < off
          THEN Return("validation") /\ UNCHANGED off
          ELSE /\ off' = IF off < f.offset THEN f.offset ELSE off
               /\ IF f.status = "OK"
                  THEN Return(IF off < f.offset THEN "OffsetJump" ELSE "nil")
                  ELSE pc' = "recv" /\ UNCHANGED lastErr
    /\ wire' = Tail(wire)
    /\ UNCHANGED <<journalVars, srv, faults, stream, direct, buf, got>>
    /\ SetOp("read")

\* RecvMsg returns io.EOF. If the preceding frame advertised a fragment URL,
\* OpenFragmentURL fetches it (a removed fragment, or a failed fetch, is an
\* error, and the request fails once the context has ended) pre-seeked to
\* Request.Offset, and Read recurses into it;
\* otherwise the preceding status is mapped to an error.
RecvEOF ==
    /\ pc = "recv" /\ wire # <<>> /\ Head(wire).kind = "eof"
    /\ wire' = Tail(wire) /\ stream' = "done"
    /\ IF ~MetadataOnly /\ resp.status = "OK" /\ resp.url
       THEN LET f == resp.frag IN
            \/ /\ f.begin \div FragLen \in removed
               /\ Return("fetch")
               /\ UNCHANGED <<faults, off, direct, got>>
            \/ /\ faults < MaxFaults
               /\ faults' = faults + 1
               /\ Return("fetch")
               /\ UNCHANGED <<off, direct, got>>
            \/ /\ ctxErr # "none"
               /\ Return("fetch")
               /\ UNCHANGED <<faults, off, direct, got>>
            \/ /\ f.begin \div FragLen \notin removed /\ ctxErr = "none"
               /\ \E body \in Bodies(f) : \E o \in NewFragmentReader(body, f, off) :
                    /\ faults' = IF body = Bytes(f.begin, f.end) THEN faults ELSE faults + 1
                    /\ IF o.err # "nil"
                       THEN Return(o.err) /\ UNCHANGED <<off, direct, got>>
                       ELSE DirectRead(o.fr, buf)
       ELSE Return(StatusErr(resp.status)) /\ UNCHANGED <<faults, off, direct, got>>
    /\ UNCHANGED <<journalVars, srv, resp, buf>>
    /\ SetOp("read")

\* Seek(offset, whence): only forward, within the fragment being read
\* directly, by reading and discarding through Read; otherwise an error.
Seek(offset, whence) ==
    /\ pc = "idle"
    /\ LET to == IF whence = "current" THEN off + offset ELSE offset IN
       IF whence = "end"
       THEN Return("SeekEnd") /\ UNCHANGED <<off, direct>>
       ELSE IF ~direct.open \/ to < off \/ to >= resp.frag.end
       THEN Return("SeekRequiresNewReader") /\ UNCHANGED <<off, direct>>
       ELSE \E x \in CopyN(direct, to - off, TRUE) :
              /\ direct' = x.fr
              /\ off' = off + x.n
              /\ Return(x.err)
    /\ UNCHANGED <<journalVars, srvVars, faults, resp, stream, buf, got>>
    /\ SetOp("seek")

\* The caller drops an invalidated Reader; a blocked read may wait forever
\* once the write head is at its bound.
Done ==
    /\ \/ pc = "invalid"
       \/ pc = "recv" /\ wire = <<>> /\ block /\ head = MaxHead
    /\ UNCHANGED vars

Environment ==
    \/ AppendByte
    \/ \E k \in Frags : Persist(k) \/ Remove(k)
    \/ CtxDone

Broker == ServeStart \/ ServeContent \/ ServeEOF
BrokerFault == StreamBreak \/ ServeNotBroker

\* The caller reads through a bufio.Reader: fill (from Peek or ReadSlice)
\* reads into the free part of its buffer, and the bytes Read returns are
\* buffered until the caller consumes them. With ResetOnJump, the caller
\* resets the bufio.Reader when Read returns ErrOffsetJump.
Filled ==
    buffered' = IF ResetOnJump /\ pc' = "idle" /\ lastErr' = "OffsetJump" THEN 0
                ELSE buffered + Len(got') - Len(got)

ReadCall ==
    /\ buffered < BufCap
    /\ LET p == BufCap - buffered IN
       ReadDirect(p) \/ ReadContent(p) \/ ReadOpen(p) \/ ReadRecv(p)
    /\ Filled
Recv == (RecvError \/ RecvResponse \/ RecvEOF) /\ Filled
Consume ==
    /\ buffered > 0
    /\ buffered' = buffered - 1
    /\ UNCHANGED <<journalVars, srvVars, faults, off, resp, stream, direct, pc,
                   buf, got, lastErr, lastOp>>

\* The caller seeks the Reader and resets its bufio.Reader.
SeekCall ==
    /\ \E o \in SeekOffsets, w \in {"start", "current", "end"} : Seek(o, w)
    /\ buffered' = 0

Next == Environment \/ Broker \/ BrokerFault \/ ReadCall \/ Recv \/ Consume
        \/ SeekCall \/ Done

\* gRPC delivers what the broker sends, the broker's handler runs while its
\* stream is open, and the caller keeps reading a valid Reader.
Fairness ==
    /\ WF_vars(ServeStart) /\ WF_vars(ServeContent) /\ WF_vars(ServeEOF)
    /\ WF_vars(Recv)
    /\ WF_vars(ReadCall) /\ WF_vars(Consume)

Spec == Init /\ [][Next]_vars /\ Fairness
-----------------------------------------------------------------------------
TypeOK ==
    /\ block \in BOOLEAN /\ head \in 0..MaxHead /\ persisted \subseteq Frags /\ removed \subseteq persisted
    /\ srv.phase \in {"idle", "start", "content", "eof", "done"}
    /\ faults \in 0..MaxFaults
    /\ off \in -1..MaxHead
    /\ stream \in {"none", "open", "done"}
    /\ pc \in {"idle", "recv", "invalid"}
    /\ lastOp \in {"read", "seek"}
    /\ direct.pos \in 0..Len(direct.blob)
    /\ buffered \in 0..MinOf(BufCap, Len(got))
    /\ ctxErr \in {"none"} \cup CtxErrs /\ lastErr \in ReaderErrors

\* Refinement: client.Reader implements JournalRead under the mapping of
\* Request.Offset to the reader's offset, the bytes Read returned to the
\* bytes returned, and an invalidating error to failure. Every byte Read or
\* the direct FragmentReader returns is the journal byte at the offset it
\* is returned for; Request.Offset moves past bytes unreturned only by an
\* offset jump over removed fragments (or from -1), or by Seek.
Abstract == INSTANCE JournalRead WITH pos <- off, out <- got,
                                      failed <- (pc = "invalid"), op <- lastOp
AbstractSpec == Abstract!Spec

\* The invariant Read's comment states: when Read returns an error (other
\* than ErrOffsetJump, and but for a response failing validation), an error
\* or EOF has also been read from the stream, so the gRPC stream is torn
\* down and not leaked.
ErrorTearsDownStream ==
    (pc = "invalid" /\ lastOp = "read" /\ lastErr # "validation") => stream # "open"

\* AdjustedOffset's contract: it is the journal offset of the next byte the
\* caller's bufio.Reader yields (the offset recorded for a message decoded
\* from it), whatever mix of proxied content, direct fragment reads,
\* trimmed blobs and offset jumps filled that buffer.
AdjustedOffsetExact ==
    buffered > 0 => AdjustedOffset = got[Len(got) - buffered + 1]

\* With a non-blocking request, or once its context ends, a caller that
\* keeps calling Read eventually gets an invalidating error (EOF of a
\* fragment read directly, OFFSET_NOT_YET_AVAILABLE at the write head, the
\* context's error, or a fault): Read never
\* spins on empty reads and RecvMsg is never left waiting.
Termination == (~block \/ <>(ctxErr # "none")) => <>(pc = "invalid")

\* spec 6 and scenario S2: a Read blocked in RecvMsg of a blocking request
\* returns once the journal holds a byte at its offset, whatever fragments
\* expired or were read directly meanwhile: the Reader never waits on the
\* broker for content it has already been sent.
BlockedReadWakes == (pc = "recv" /\ 0 <= off /\ off < head) ~> (pc # "recv")
====
