----------------------------- MODULE MCAppendFSM -----------------------------
(* Instantiates AppendFSM for TLC: one primary and one peer broker, Routes  *)
(* over them, and labels and sentinels as model values.                     *)
EXTENDS AppendFSM, TLC

TheInitRoute == [primary |-> Local, members |-> Brokers]

\* Routes the allocator may move to: the primary keeps its replicas, loses
\* them, or primaryship moves to the peer.
TheRoutes ==
    {TheInitRoute,
     [primary |-> Local, members |-> {Local}]} \cup
    {[primary |-> p, members |-> Brokers] : p \in Peers}

\* As TheRoutes, and the journal may lose its primary.
TheRoutesNoPrimary == TheRoutes \cup {[primary |-> NoPrimary, members |-> Brokers]}

\* Routes no larger than the replication factor, so that no appendFSM waits
\* on an allocator which may never act.
NoOversubscription ==
    \A r \in Routes : Cardinality(r.members) <= Replication
=============================================================================
