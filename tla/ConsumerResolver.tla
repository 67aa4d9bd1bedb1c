--------------------------- MODULE ConsumerResolver ---------------------------
(***************************************************************************)
(* The consumer Resolver and the shutdown of the consumer Service          *)
(* (consumer/resolver.go, consumer/service.go).                            *)
(*                                                                         *)
(* The Resolver keeps one local Replica per shard assigned to this         *)
(* consumer. Its map is updated by updateResolutions, a KeySpace observer  *)
(* which runs under the KeySpace write lock each time the Etcd watch       *)
(* applies a revision. Resolve runs under the KeySpace read lock, then     *)
(* releases it before waiting for the Replica's Store to become ready and  *)
(* taking a reference on the Replica's WaitGroup. A cancelled Replica is   *)
(* torn down by waitAndTearDown once its WaitGroup drains, and the         *)
(* Resolver's own WaitGroup counts Replicas not yet torn down.             *)
(*                                                                         *)
(* Etcd revisions carry, per shard, the local consumer's view of its       *)
(* assignment: "primary" (assigned here, primary here), "standby"          *)
(* (assigned here, primary elsewhere), "remote" (primary elsewhere),       *)
(* "none" (no primary) or "absent" (no ShardSpec).                         *)
(***************************************************************************)
EXTENDS Naturals, Sequences, FiniteSets

CONSTANTS Shards,       \* ShardIDs
          RPCs,         \* concurrent RPC handlers, each calling Resolve once
          MaxRev,       \* bound on Etcd revisions
          MaxReplicas,  \* bound on Replica instances ever created
          EtcdMayFail   \* whether KeySpace.Watch may return an Etcd error

\* Etcd holds a ShardSpec for every shard; only the empty KeySpace lacks one.
Views == {"primary", "standby", "remote", "none"}
Assignment == [Shards -> Views]

VARIABLES
    etcd,       \* Etcd revisions: a sequence of Assignments
    ksRev,      \* KeySpace Header.Revision: revisions applied by the watch
    replicas,   \* Resolver.replicas: shard -> replica id (0: none)
    serving,    \* Resolver.replicas # nil
    rep,        \* Replica instances, by id
    rwg,        \* Resolver.wg counter
    rpc,        \* RPC handlers and their Resolve call
    svc,        \* the service.GracefulStop task's position
    watchPc,    \* the service.Watch task's position
    watchCtx    \* watchCtx cancelled

vars == <<etcd, ksRev, replicas, serving, rep, rwg, rpc, svc, watchPc, watchCtx>>

ReplicaIds == 1..MaxReplicas
RpcPcs == {"idle", "waitRev", "unlocked", "waitStore", "add", "holding",
           "done", "panicked"}

\* The KeySpace at its applied revision: empty until KeySpace.Load applies
\* the first revision (and runs the observers, as every later apply does).
KS == IF ksRev = 0 THEN [s \in Shards |-> "absent"] ELSE etcd[ksRev]

\* allocator.State.LocalItems: shards assigned to the local consumer.
LocalItems == {s \in Shards : KS[s] \in {"primary", "standby"}}

\* Replica ids already handed out by newReplica().
UsedIds == {i \in ReplicaIds : rep[i].used}

\* A replica whose Store the RPC is holding via a Resolution.
Held(r) == rpc[r].pc = "holding"

\* An RPC handler before its call, and after Resolve has returned to it
\* (its result, a Resolution without a Store or an error, no longer matters).
Idle == [pc |-> "idle", shard |-> CHOOSE s \in Shards : TRUE, mayProxy |-> FALSE,
         hdr |-> 0, id |-> 0, cancelled |-> FALSE]
Returned == [Idle EXCEPT !.pc = "done"]
Return(r) == rpc' = [rpc EXCEPT ![r] = Returned]

Init ==
    /\ \E a \in Assignment : etcd = <<a>>
    /\ ksRev = 0
    /\ replicas = [s \in Shards |-> 0]
    /\ serving = TRUE
    /\ rep = [i \in ReplicaIds |-> [shard |-> CHOOSE s \in Shards : TRUE,
               used |-> FALSE, ready |-> FALSE, cancelled |-> FALSE,
               tearing |-> FALSE, tornDown |-> FALSE, wg |-> 0]]
    /\ rwg = 0
    /\ rpc = [r \in RPCs |-> Idle]
    /\ svc = "running"
    /\ watchPc = "watching"
    /\ watchCtx = FALSE
-----------------------------------------------------------------------------
(* cancelReplicas: cancel each replica of |ids| and start its               *)
(* waitAndTearDown goroutine.                                               *)
CancelReplicasNoop(ids) == rep

CancelReplicas(ids) ==
    [i \in ReplicaIds |->
        IF i \in ids THEN [rep[i] EXCEPT !.cancelled = TRUE, !.tearing = TRUE]
        ELSE rep[i]]

(* stopServingLocalReplicas, under the KeySpace write lock.                 *)
StopServingLocalReplicas ==
    /\ rep' = CancelReplicas({replicas[s] : s \in Shards} \ {0})
    /\ replicas' = [s \in Shards |-> 0]
    /\ serving' = FALSE

(* updateResolutions, run by the watch under the KeySpace write lock as    *)
(* revision |a| is applied. Shards of LocalItems keep their replica or get *)
(* a new one (r.wg.Add(1)); the replicas left over are cancelled.          *)
NewIds(new) == CHOOSE f \in [new -> ReplicaIds \ UsedIds] :
                   \A s, t \in new : s # t => f[s] # f[t]

\* Mutant: an existing replica is not moved to |next|.
NextReplicasDropsExisting(li, new, f) ==
    [s \in Shards |-> IF s \in new THEN f[s] ELSE 0]

NextReplicas(li, new, f) ==
    [s \in Shards |-> IF s \in new THEN f[s]
                      ELSE IF s \in li THEN replicas[s] ELSE 0]

\* Mutant: the Resolver's WaitGroup is not incremented for a new replica.
ResolverWgAddMissing(new) == rwg

ResolverWgAdd(new) == rwg + Cardinality(new)

UpdateResolutions(a) ==
    IF ~serving THEN UNCHANGED <<replicas, rep, rwg>>
    ELSE
      LET li   == {s \in Shards : a[s] \in {"primary", "standby"}}
          new  == {s \in li : replicas[s] = 0}
          f    == NewIds(new)
          prev == {replicas[s] : s \in Shards \ li} \ {0}
          cancelled == CancelReplicas(prev)
      IN /\ Cardinality(new) <= Cardinality(ReplicaIds \ UsedIds)
         /\ replicas' = NextReplicas(li, new, f)
         /\ rwg' = ResolverWgAdd(new)
         /\ rep' = [i \in ReplicaIds |->
                      IF \E s \in new : f[s] = i
                      THEN [cancelled[i] EXCEPT !.used = TRUE,
                              !.shard = CHOOSE s \in new : f[s] = i]
                      ELSE cancelled[i]]
-----------------------------------------------------------------------------
(* Resolve, from RLock to RUnlock, for the request |req| of RPC r: the     *)
(* status, then ErrResolverStopped, the "expected replica" panic, or the   *)
(* replica whose Store it goes on to wait for.                             *)
Status(s, mayProxy) ==
    CASE KS[s] = "absent"                              -> "SHARD_NOT_FOUND"
      [] KS[s] = "none"                                -> "NO_SHARD_PRIMARY"
      [] KS[s] \in {"standby", "remote"} /\ ~mayProxy  -> "NOT_SHARD_PRIMARY"
      [] OTHER                                         -> "OK"

ResolveLocked(r, req) ==
    LET s == req.shard
    IN CASE Status(s, req.mayProxy) # "OK" \/ KS[s] # "primary" -> Return(r)
         [] ~serving        -> Return(r)   \* ErrResolverStopped
         [] replicas[s] = 0 -> rpc' = [rpc EXCEPT ![r] = [req EXCEPT !.pc = "panicked"]]
         [] OTHER           -> rpc' = [rpc EXCEPT ![r] =
                                         [Idle EXCEPT !.pc = "unlocked", !.id = replicas[s],
                                                      !.cancelled = req.cancelled]]

\* An RPC arrives while the gRPC server accepts, and calls Resolve. A
\* proxied request (hdr # 0) carries a header naming a revision the proxying
\* peer read from Etcd; a header of another Etcd cluster or process fails
\* the call, and a revision ahead of the KeySpace is waited for.
RpcStart(r) ==
    /\ svc \in {"running", "stopping"}
    /\ rpc[r].pc = "idle"
    /\ \E s \in Shards, mp \in BOOLEAN, hdr \in 0..Len(etcd), hdrMatches \in BOOLEAN :
         LET req == [rpc[r] EXCEPT !.shard = s, !.mayProxy = mp, !.hdr = hdr] IN
         CASE hdr # 0 /\ ~hdrMatches ->
                Return(r)
           [] hdr > ksRev ->
                rpc' = [rpc EXCEPT ![r] = [req EXCEPT !.pc = "waitRev"]]
           [] OTHER -> ResolveLocked(r, req)
    /\ UNCHANGED <<etcd, ksRev, replicas, serving, rep, rwg, svc, watchPc, watchCtx>>

\* KeySpace.WaitForRevision returns once the watch reaches the revision, or
\* with the RPC context's error; Resolve then continues under the lock.
RpcWaitRev(r) ==
    /\ rpc[r].pc = "waitRev"
    /\ \/ ksRev >= rpc[r].hdr /\ ResolveLocked(r, rpc[r])
       \/ rpc[r].cancelled /\ Return(r)
    /\ UNCHANGED <<etcd, ksRev, replicas, serving, rep, rwg, svc, watchPc, watchCtx>>

\* After RUnlock: the non-blocking select on storeReadyCh.
RpcSelect(r) ==
    /\ rpc[r].pc = "unlocked"
    /\ rpc' = [rpc EXCEPT ![r].pc = IF rep[rpc[r].id].ready THEN "add" ELSE "waitStore"]
    /\ UNCHANGED <<etcd, ksRev, replicas, serving, rep, rwg, svc, watchPc, watchCtx>>

\* The blocking select: storeReadyCh, the RPC context, the replica context.
RpcWaitStore(r) ==
    LET i == rpc[r].id IN
    /\ rpc[r].pc = "waitStore"
    /\ \/ rep[i].ready /\ rpc' = [rpc EXCEPT ![r].pc = "add"]
       \/ rpc[r].cancelled /\ Return(r)     \* args.Context.Err()
       \/ rep[i].cancelled /\ Return(r)     \* replica.ctx.Err()
    /\ UNCHANGED <<etcd, ksRev, replicas, serving, rep, rwg, svc, watchPc, watchCtx>>

\* replica.wg.Add(1): the Resolution now holds the Shard and its Store.
RpcAdd(r) ==
    LET i == rpc[r].id IN
    /\ rpc[r].pc = "add"
    /\ rep' = [rep EXCEPT ![i].wg = @ + 1]
    /\ rpc' = [rpc EXCEPT ![r].pc = "holding"]
    /\ UNCHANGED <<etcd, ksRev, replicas, serving, rwg, svc, watchPc, watchCtx>>

\* The RPC handler calls Resolution.Done (replica.wg.Done) when finished.
RpcRelease(r) ==
    LET i == rpc[r].id IN
    /\ Held(r)
    /\ rep' = [rep EXCEPT ![i].wg = @ - 1]
    /\ Return(r)
    /\ UNCHANGED <<etcd, ksRev, replicas, serving, rwg, svc, watchPc, watchCtx>>

\* The RPC's client cancels it (or its deadline passes).
RpcCancel(r) ==
    /\ rpc[r].pc \in {"waitRev", "unlocked", "waitStore"}
    /\ ~rpc[r].cancelled
    /\ rpc' = [rpc EXCEPT ![r].cancelled = TRUE]
    /\ UNCHANGED <<etcd, ksRev, replicas, serving, rep, rwg, svc, watchPc, watchCtx>>
-----------------------------------------------------------------------------
(* Replicas. Recovery closes storeReadyCh unless the replica is cancelled  *)
(* first; waitAndTearDown waits on the replica's WaitGroup, tears the      *)
(* Store down, then calls the Resolver's wg.Done.                          *)
ReplicaReady(i) ==
    /\ rep[i].used /\ ~rep[i].ready /\ ~rep[i].cancelled
    /\ rep' = [rep EXCEPT ![i].ready = TRUE]
    /\ UNCHANGED <<etcd, ksRev, replicas, serving, rwg, rpc, svc, watchPc, watchCtx>>

WaitAndTearDown(i) ==
    /\ rep[i].tearing /\ ~rep[i].tornDown
    /\ rep[i].wg = 0
    /\ rep' = [rep EXCEPT ![i].tornDown = TRUE]
    /\ rwg' = rwg - 1
    /\ UNCHANGED <<etcd, ksRev, replicas, serving, rpc, svc, watchPc, watchCtx>>
-----------------------------------------------------------------------------
(* Etcd and the service.Watch task (Resolver.watch).                       *)

\* The allocator (or an operator) writes a new assignment of the shards.
EtcdWrite ==
    /\ Len(etcd) < MaxRev
    /\ \E a \in Assignment :
         /\ a # etcd[Len(etcd)]
         /\ etcd' = Append(etcd, a)
    /\ UNCHANGED <<ksRev, replicas, serving, rep, rwg, rpc, svc, watchPc, watchCtx>>

\* KeySpace.Watch applies the next revision and runs its observers.
WatchApply ==
    /\ watchPc = "watching" /\ ~watchCtx
    /\ ksRev < Len(etcd)
    /\ ksRev' = ksRev + 1
    /\ UpdateResolutions(etcd[ksRev + 1])
    /\ UNCHANGED <<etcd, serving, rpc, svc, watchPc, watchCtx>>

\* KeySpace.Watch returns, on cancellation of watchCtx or on an Etcd error;
\* watch then calls stopServingLocalReplicas.
WatchReturn ==
    /\ watchPc = "watching"
    /\ watchCtx
    /\ StopServingLocalReplicas
    /\ watchPc' = "stopped"
    /\ UNCHANGED <<etcd, ksRev, rwg, rpc, svc, watchCtx>>

WatchFail ==
    /\ EtcdMayFail
    /\ watchPc = "watching"
    /\ ~watchCtx
    /\ StopServingLocalReplicas
    /\ watchPc' = "stopped"
    /\ UNCHANGED <<etcd, ksRev, rwg, rpc, svc, watchCtx>>

\* r.wg.Wait(): every replica has torn down.
WatchExit ==
    /\ watchPc = "stopped"
    /\ rwg = 0
    /\ watchPc' = "exited"
    /\ UNCHANGED <<etcd, ksRev, replicas, serving, rep, rwg, rpc, svc, watchCtx>>
-----------------------------------------------------------------------------
(* The service.GracefulStop task of Service.QueueTasks.                    *)

\* The task Group's context is cancelled: by a signal, or because a task
\* (service.Watch) returned an error.
Shutdown ==
    /\ svc = "running"
    /\ svc' = "stopping"
    /\ UNCHANGED <<etcd, ksRev, replicas, serving, rep, rwg, rpc, watchPc, watchCtx>>

ShutdownOnWatchError ==
    /\ svc = "running"
    /\ watchPc # "watching"
    /\ svc' = "stopping"
    /\ UNCHANGED <<etcd, ksRev, replicas, serving, rep, rwg, rpc, watchPc, watchCtx>>

\* close(stoppingCh), then stopServingLocalReplicas.
\* Mutant: the stopServingLocalReplicas call is left out.
SvcStopServingSkipped ==
    /\ svc = "stopping"
    /\ svc' = "draining"
    /\ UNCHANGED <<etcd, ksRev, replicas, serving, rep, rwg, rpc, watchPc, watchCtx>>

SvcStopServing ==
    /\ svc = "stopping"
    /\ StopServingLocalReplicas
    /\ svc' = "draining"
    /\ UNCHANGED <<etcd, ksRev, rwg, rpc, watchPc, watchCtx>>

\* GRPCServer.GracefulStop: no new RPCs, and returns once every RPC is done.
InFlight(r) == rpc[r].pc \notin {"idle", "done"}

SvcGracefulStop ==
    /\ svc = "draining"
    /\ \A r \in RPCs : ~InFlight(r)
    /\ svc' = "cancelWatch"
    /\ UNCHANGED <<etcd, ksRev, replicas, serving, rep, rwg, rpc, watchPc, watchCtx>>

\* watchCancel(), then Resolver.wg.Wait() and GRPCLoopback.Close().
SvcWatchCancel ==
    /\ svc = "cancelWatch"
    /\ watchCtx' = TRUE
    /\ svc' = "waiting"
    /\ UNCHANGED <<etcd, ksRev, replicas, serving, rep, rwg, rpc, watchPc>>

SvcClose ==
    /\ svc = "waiting"
    /\ rwg = 0
    /\ svc' = "closed"
    /\ UNCHANGED <<etcd, ksRev, replicas, serving, rep, rwg, rpc, watchPc, watchCtx>>
-----------------------------------------------------------------------------
Terminated == svc = "closed" /\ watchPc = "exited"

Rpc(r) == RpcWaitRev(r) \/ RpcSelect(r) \/ RpcWaitStore(r) \/ RpcAdd(r) \/ RpcRelease(r)

Service == WatchApply \/ WatchReturn \/ WatchExit \/ ShutdownOnWatchError
           \/ SvcStopServing \/ SvcGracefulStop \/ SvcWatchCancel \/ SvcClose

Environment ==
    \/ \E r \in RPCs : RpcStart(r) \/ RpcCancel(r)
    \/ \E i \in ReplicaIds : ReplicaReady(i)
    \/ EtcdWrite \/ WatchFail \/ Shutdown

Next ==
    \/ \E r \in RPCs : Rpc(r)
    \/ \E i \in ReplicaIds : WaitAndTearDown(i)
    \/ Service
    \/ Environment
    \/ Terminated /\ UNCHANGED vars

\* RPC handlers, the watch, the GracefulStop task and the waitAndTearDown
\* goroutines run until they block. Clients, Etcd, replica recovery and
\* signals are the environment: none of them is assumed to happen.
Fairness ==
    /\ \A r \in RPCs : WF_vars(Rpc(r))
    /\ \A i \in ReplicaIds : WF_vars(WaitAndTearDown(i))
    /\ WF_vars(WatchApply) /\ WF_vars(WatchReturn) /\ WF_vars(WatchExit)
    /\ WF_vars(ShutdownOnWatchError) /\ WF_vars(SvcStopServing)
    /\ WF_vars(SvcGracefulStop) /\ WF_vars(SvcWatchCancel) /\ WF_vars(SvcClose)

Spec == Init /\ [][Next]_vars /\ Fairness
-----------------------------------------------------------------------------
TypeOK ==
    /\ etcd \in Seq(Assignment) /\ Len(etcd) \in 1..MaxRev
    /\ ksRev \in 0..Len(etcd)
    /\ replicas \in [Shards -> {0} \cup ReplicaIds]
    /\ serving \in BOOLEAN
    /\ rep \in [ReplicaIds -> [shard : Shards, used : BOOLEAN, ready : BOOLEAN,
                               cancelled : BOOLEAN, tearing : BOOLEAN,
                               tornDown : BOOLEAN, wg : Nat]]
    /\ rwg \in Nat
    /\ rpc \in [RPCs -> [pc : RpcPcs, shard : Shards, mayProxy : BOOLEAN,
                        hdr : 0..MaxRev,
                        id : {0} \cup ReplicaIds, cancelled : BOOLEAN]]
    /\ svc \in {"running", "stopping", "draining", "cancelWatch", "waiting", "closed"}
    /\ watchPc \in {"watching", "stopped", "exited"}
    /\ watchCtx \in BOOLEAN

\* Resolve never reaches panic("expected replica for shard"): whenever the
\* KeySpace makes the local consumer primary for a shard and the Resolver
\* still serves, updateResolutions has put a replica for it in the map.
NoResolvePanic == \A r \in RPCs : rpc[r].pc # "panicked"

\* updateResolutions and cancelReplicas keep at most one live (uncancelled)
\* Replica per shard, across any sequence of re-assignments.
OneReplicaPerShard ==
    \A s \in Shards :
        \A i, j \in {k \in UsedIds : rep[k].shard = s /\ ~rep[k].cancelled} : i = j

\* "Upon task completion, all replicas have been fully torn down": when
\* watch returns, and when the loopback is closed, no Replica of the
\* Resolver is left un-torn-down.
TornDownBeforeExit ==
    (watchPc = "exited" \/ svc = "closed") => \A i \in UsedIds : rep[i].tornDown

\* Resolution: "Done releases Shard & Store": while an RPC holds a
\* Resolution, its Replica's Store has not been torn down.
ResolvedStoreLive ==
    \A r \in RPCs : Held(r) => ~rep[rpc[r].id].tornDown

\* Once the task Group is cancelled, service.GracefulStop and service.Watch
\* both return: every RPC drains and every Replica tears down.
ShutdownCompletes == (svc # "running") ~> Terminated
====
