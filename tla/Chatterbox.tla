----------------------------- MODULE Chatterbox -----------------------------
(***************************************************************************)
(* pre-cxx20/chatterbox: app and connection_pool, composed with the client *)
(* connection (ChatterClient) and the console (Console), on one io_context *)
(* thread.                                                                 *)
(*                                                                         *)
(* The pool makes its first connection in handle_run.  initiate_timer,     *)
(* which would make another every second, is called by nothing, so there   *)
(* is one connection and no timer.                                         *)
(***************************************************************************)
EXTENDS ChatterClient, Console

VARIABLES
  running,       \* "no", "yes", or "bombed": an exception has left ioc.run()
  pool_ec_,      \* TRUE: the pool's ec_ holds operation_aborted
  connections_,  \* how many entries the pool holds: weak pointers
  signals_       \* the wait on the signal set

appvars == <<running, pool_ec_, connections_, signals_>>
vars == <<connvars, convars, appvars>>

Init ==
  /\ ConnInit /\ ConInit
  /\ running = "no" /\ pool_ec_ = FALSE /\ connections_ = 0 /\ signals_ = "idle"

\* The connection's handlers own it; the pool keeps a weak pointer.
another_connection == run /\ connections_' = connections_ + 1

\* connection_pool::run and handle_run.
pool_run == pool_ec_' = FALSE /\ another_connection

\* app::handle_run.  Opening and binding the connection's socket may throw.
HandleRun ==
  /\ running = "no"
  /\ \/ /\ running' = "yes" /\ signals_' = "pending"
        /\ pool_run /\ async_run
     \/ /\ running' = "bombed"
        /\ UNCHANGED <<connvars, convars, pool_ec_, connections_, signals_>>

\* Mutant: keeps the entries.
handle_stop_keeps ==
  /\ pool_ec_' = TRUE
  /\ IF connections_ > 0 /\ Alive THEN stop ELSE UNCHANGED connvars
  /\ UNCHANGED connections_

\* connection_pool::handle_stop: an entry whose connection is gone is skipped.
handle_stop ==
  /\ pool_ec_' = TRUE
  /\ IF connections_ > 0 /\ Alive THEN stop ELSE UNCHANGED connvars
  /\ connections_' = 0

HandleSignal ==
  /\ signals_ \in {"ok", "err"} /\ signals_' = "idle"
  /\ IF signals_ = "ok"
     THEN handle_stop /\ cancel
     ELSE UNCHANGED <<connvars, convars, pool_ec_, connections_>>
  /\ UNCHANGED running

\* run_op completes, and handle_console stops the clients unless there was an
\* error; then the program goes on without its console.
HandleConsole ==
  /\ complete
  /\ IF con_ec_'
     THEN UNCHANGED <<connvars, pool_ec_, connections_, signals_>>
     ELSE handle_stop /\ signals_' = Abort(signals_)
  /\ UNCHANGED running

SignalArrives ==
  /\ signals_ = "pending" /\ signals_' = "ok"
  /\ UNCHANGED <<connvars, convars, running, pool_ec_, connections_>>

Next ==
  \/ HandleRun \/ HandleSignal \/ HandleConsole \/ SignalArrives
  \/ ConnNext /\ UNCHANGED <<convars, appvars>>
  \/ ConNext /\ UNCHANGED <<connvars, appvars>>

Fairness ==
  /\ WF_vars(HandleRun) /\ WF_vars(HandleSignal) /\ WF_vars(HandleConsole)
  /\ ConnFairness /\ ConFairness

Spec == Init /\ [][Next]_vars
FairSpec == Spec /\ Fairness

----------------------------------------------------------------------------
(* Properties.                                                             *)

TypeOK ==
  /\ ConnTypeOK /\ ConTypeOK
  /\ running \in {"no", "yes", "bombed"} /\ pool_ec_ \in BOOLEAN
  /\ connections_ \in 0 .. 1 /\ signals_ \in {"idle", "pending", "ok", "err"}

\* Whichever of ctrl-c and quit stops the pool, and whatever is completed and not
\* yet handled then, all three that keep the program up are told: the client is
\* stopped or gone, the wait for signals is over, and the console's run_op has its
\* error and no read under way but one that the cancel missed (app.cpp:21-22,
\* 49-50, connection_pool.cpp:55-66, console.hpp:133-140).
StopTellsAll ==
  pool_ec_ =>
    /\ ec_ \/ ~Alive
    /\ signals_ # "pending"
    /\ run_op_ => con_ec_ /\ (fdin = "pending" => missed)

\* Nothing keeps ioc.run() from returning.
Quiescent == signals_ = "idle" /\ ~run_op_ /\ ~Alive

\* A ctrl-c, and a line that says quit unless it came with a ctrl-c, end the
\* program: "shuts down cleanly" (README.md:17).  Whichever of the two is handled
\* first silences the other, and a connect or handshake that crosses the stop is
\* let run out (app.cpp:20-24, 47-50).  There is one exception: a ctrl-c handled
\* while the console is between two pieces of a line waits for the next line.
ShutdownDrainsOrDeaf == (signals_ = "ok" \/ fdin = "quit") ~> Quiescent \/ Deaf
=============================================================================
