----------------------------- MODULE CoroServer -----------------------------
(***************************************************************************)
(* cxx20's app and server composed with one of its connections, ChatState: *)
(* the accept coroutine, the cache of connections and the shutdown on      *)
(* SIGINT, all on one io_context thread.                                   *)
(*                                                                         *)
(* The connection under observation is the first that is accepted.  Other  *)
(* connections share nothing with it but the loop; they are accepted and   *)
(* forgotten here.                                                         *)
(***************************************************************************)
EXTENDS ChatState

CONSTANT MaxAccepts   \* bound: results of async_accept

ASSUME MaxAcceptsAssumption == MaxAccepts \in Nat

VARIABLES
  ec_,        \* TRUE: the server's ec_ holds operation_aborted
  loop,       \* the handle_run coroutine: "none", "accepting" or "done"
  acceptor,   \* its operation: idle, pending or the result
  accepts,    \* how many results there were
  cached,     \* connections_ holds the connection
  signals     \* the operation on signals_

servervars == <<ec_, loop, acceptor, accepts, cached, signals>>
vars == <<chatvars, servervars>>

Init ==
  /\ ChatInit
  /\ ec_ = FALSE /\ loop = "none" /\ acceptor = "idle" /\ accepts = 0
  /\ cached = FALSE /\ signals = "idle"

----------------------------------------------------------------------------

\* app::handle_run, server::run and the start of handle_run: the loop starts what
\* was posted before it can deliver a signal, so nothing comes between them.
AppRuns ==
  /\ loop = "none" /\ loop' = "accepting"
  /\ acceptor' = "pending" /\ signals' = "pending"
  /\ UNCHANGED <<chatvars, ec_, accepts, cached>>

\* The next turn of while (!ec_).
while == IF ec_ THEN loop' = "done" /\ acceptor' = "idle"
         ELSE acceptor' = "pending" /\ UNCHANGED loop

\* async_accept returned a socket.
Accepted ==
  /\ acceptor = "ok"
  /\ while
  /\ IF Exists THEN UNCHANGED <<chatvars, cached>>
     ELSE Create /\ cached' = TRUE
  /\ UNCHANGED <<ec_, accepts, signals>>

\* async_accept threw, or remote_endpoint did because the peer had gone: after
\* anything but connection_aborted the coroutine ends.
AcceptThrew ==
  /\ \/ acceptor = "aborted" /\ while
     \/ /\ acceptor \in {"ok", "cancelled", "error"}
        /\ loop' = "done" /\ acceptor' = "idle"
  /\ UNCHANGED <<chatvars, ec_, accepts, cached, signals>>

\* Mutant: does not cancel the accept.
HandleSignal_no_cancel ==
  /\ signals = "ok" /\ signals' = "idle"
  /\ ec_' = TRUE
  /\ IF cached THEN stop ELSE UNCHANGED stopc
  /\ cached' = FALSE
  /\ UNCHANGED <<state, ec, run, txc, opvars, pushes, received, sent, chan, loop,
                 accepts, acceptor>>

\* app's signal handler, server::stop and handle_stop.
HandleSignal ==
  /\ signals = "ok" /\ signals' = "idle"
  /\ ec_' = TRUE
  /\ acceptor' = IF acceptor = "pending" THEN "cancelled" ELSE acceptor
  /\ IF cached THEN stop ELSE UNCHANGED stopc
  /\ cached' = FALSE
  /\ UNCHANGED <<state, ec, run, txc, opvars, pushes, received, sent, chan, loop,
                 accepts>>

\* The operating system.
AcceptorCompletes ==
  /\ acceptor = "pending" /\ acceptor' \in {"ok", "aborted", "error"}
  /\ accepts < MaxAccepts /\ accepts' = accepts + 1
  /\ UNCHANGED <<chatvars, ec_, loop, cached, signals>>

SignalArrives ==
  /\ signals = "pending" /\ signals' = "ok"
  /\ UNCHANGED <<chatvars, ec_, loop, acceptor, accepts, cached>>

Next ==
  \/ AppRuns \/ Accepted \/ AcceptThrew \/ HandleSignal
  \/ AcceptorCompletes \/ SignalArrives
  \/ ChatNext /\ UNCHANGED servervars

Fairness ==
  /\ WF_vars(AppRuns) /\ WF_vars(Accepted \/ AcceptThrew) /\ WF_vars(HandleSignal)
  /\ ChatFairness

Spec == Init /\ [][Next]_vars
FairSpec == Spec /\ Fairness

----------------------------------------------------------------------------
(* Properties.                                                             *)

TypeOK ==
  /\ ChatTypeOK
  /\ ec_ \in BOOLEAN /\ cached \in BOOLEAN
  /\ loop \in {"none", "accepting", "done"}
  /\ acceptor \in {"idle", "pending", "ok", "aborted", "cancelled", "error"}
  /\ accepts \in 0 .. MaxAccepts
  /\ signals \in {"idle", "pending", "ok"}

\* Nothing is left for the io_context to do.
Quiescent == loop = "done" /\ signals = "idle" /\ (Exists => Released)

\* A connection that was accepted when its handler crossed the stop: it is made
\* after handle_stop has stopped the others, and nothing will stop it.
Orphan == ec_ /\ cached
\* A connection whose reader ended before any stop: tx waits for a message that
\* nobody will push, and notify_error does nothing in exit_state.
Leaked == state = "exit_state" /\ txc = "popping" /\ request = "open" /\ ~alarm

\* After SIGINT main() returns: "Correct code ... does not leak resources, shuts
\* down cleanly" (README.md:16).  These two are the only ways in which it does not.
ShutdownDrainsOrLeaks == ec_ ~> Quiescent \/ Orphan \/ Leaked
=============================================================================
