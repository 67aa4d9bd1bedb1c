---------------------------- MODULE MCConsumerApp ----------------------------
(* The consumer Resolver and Service, with the application's goroutines     *)
(* publishing through ConsumerContext.Publish at the same time.             *)
(*                                                                          *)
(* Publish shares no variable with the Resolver, so the states each can    *)
(* reach do not depend on the other's. AppNext steps Publish calls from the *)
(* Resolver's initial states, and the Resolver and Service from Publish's   *)
(* initial state, which reaches every state of each without multiplying     *)
(* them. ShutdownCompletes speaks of Resolver and Service state alone.      *)
EXTENDS ConsumerResolver, ConsumerContext, TLC

appVars == <<vars, ctxVars>>

\* Every Publish call has returned.
PublishersDone == \A p \in Publishers : pub[p].pc = "done"

AppNext ==
    \/ Init /\ CtxNext /\ UNCHANGED vars
    \/ Init /\ PublishersDone /\ UNCHANGED appVars
    \/ CtxInit /\ Next /\ UNCHANGED ctxVars

AppSpec == Init /\ CtxInit /\ [][AppNext]_appVars /\ Fairness

=============================================================================
