------------------------------ MODULE BlogApp ------------------------------
(***************************************************************************)
(* blog-2020-09: the application, which owns a sigint_state and an         *)
(* fmex_connection on one io_context.  Its only action of its own starts   *)
(* both; after that they share nothing but the slot that calls             *)
(* fmex_connection::stop(), whose body is still empty in the code.         *)
(***************************************************************************)
EXTENDS SigintState, WssTransport

\* application::start adds one slot, which calls fmex_connection::stop.
ASSUME OneSlotAssumption == \A s, t \in Slot : s = t

appvars == <<sigvars, wssvars>>

Init == SigInit /\ WssInit

\* application::start(): dispatched from main, and what it calls dispatches in
\* turn, which on the io_context's thread means at once.
AppStart ==
  /\ sigint_ = "inactive"
  /\ StartSigint
  /\ StartConnection
  /\ \E s \in Slot : add_slot(s, "waiting")
  /\ UNCHANGED <<timer_, presses>>

Next ==
  \/ AppStart
  \/ SigNext /\ UNCHANGED wssvars
  \/ WssNext /\ UNCHANGED sigvars

\* What is dispatched runs, timers expire, and the peer takes what is written
\* (no timeout guards the connected stream).
Fairness == WF_appvars(AppStart) /\ SigFairness /\ WssFairness
Spec == Init /\ [][Next]_appvars
FairSpec == Spec /\ Fairness

TypeOK == SigTypeOK /\ WssTypeOK
=============================================================================
