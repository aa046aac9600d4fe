----------------------------- MODULE EchoServer -----------------------------
(***************************************************************************)
(* pre-cxx20/echo_server's app and server: the accept loop, the cache of   *)
(* connections and the shutdown on SIGINT, on one io_context thread.       *)
(*                                                                         *)
(* A connection is seen here as the Session it implements: it is up,       *)
(* "stopping" and then "gone", on stop() or when its own 30s are over.     *)
(***************************************************************************)
EXTENDS Naturals, Sequences

CONSTANTS Endpoint,   \* remote addresses and ports
          MaxConns    \* bound: connections ever accepted

ASSUME MaxConnsAssumption == MaxConns \in Nat

VARIABLES
  ec_,           \* TRUE: ec_ holds operation_aborted
  acceptor,      \* the operation on acceptor_: idle, pending or its result
  socks,         \* the accepted socket its handler will be given, if any
  signals,       \* the operation on signals_
  connections_,  \* for each cached endpoint the index of its connection
  conns,         \* every connection ever made, oldest first
  bombed         \* an exception has left ioc.run()

vars == <<ec_, acceptor, socks, signals, connections_, conns, bombed>>

\* "new": app::run() has posted handle_run, which has not run yet.
AcceptState == {"new", "idle", "pending", "ok", "aborted", "cancelled", "error", "overlap"}
Initiate(op) == IF op \in {"new", "idle"} THEN "pending" ELSE "overlap"

\* A socket knows its peer for as long as the peer has not reset it.
Socket == [ep : Endpoint, up : BOOLEAN]
Conn == [ep : Endpoint, up : BOOLEAN, phase : {"live", "stopping", "gone"}]

Init ==
  /\ ec_ = FALSE /\ acceptor = "new" /\ socks = {} /\ signals = "idle"
  /\ connections_ = [ep \in {} |-> 0] /\ conns = <<>> /\ bombed = FALSE

----------------------------------------------------------------------------

\* app::handle_run and server::handle_run.
HandleRun ==
  /\ acceptor = "new" /\ acceptor' = Initiate(acceptor)
  /\ signals' = "pending"
  /\ ec_' = FALSE
  /\ UNCHANGED <<socks, connections_, conns, bombed>>

\* A good accept: remote_endpoint() throws if the peer has reset the socket.
Welcome(sock) ==
  IF sock.up
  THEN /\ conns' = Append(conns, [ep |-> sock.ep, up |-> TRUE, phase |-> "live"])
       /\ connections_' = [ep \in DOMAIN connections_ \cup {sock.ep} |->
                             IF ep = sock.ep THEN Len(conns') ELSE connections_[ep]]
       /\ UNCHANGED bombed
  ELSE /\ bombed' = TRUE
       /\ UNCHANGED <<conns, connections_>>

\* Mutant: does not notice that the server was stopped.
HandleAccept_no_ec ==
  /\ acceptor \in {"ok", "aborted", "cancelled", "error"} /\ ~bombed
  /\ socks' = {}
  /\ acceptor' = IF acceptor \in {"ok", "aborted"} THEN Initiate("idle") ELSE "idle"
  /\ IF acceptor = "ok" THEN \E sock \in socks : Welcome(sock) ELSE UNCHANGED <<connections_, conns, bombed>>
  /\ UNCHANGED <<ec_, signals>>

\* Mutant: looks at the aborted connection before it looks at ec_.
HandleAccept_order ==
  /\ acceptor \in {"ok", "aborted", "cancelled", "error"} /\ ~bombed
  /\ socks' = {}
  /\ acceptor' = IF acceptor = "aborted" \/ (acceptor = "ok" /\ ~ec_)
                 THEN Initiate("idle") ELSE "idle"
  /\ IF acceptor = "ok" /\ ~ec_ THEN \E sock \in socks : Welcome(sock) ELSE UNCHANGED <<connections_, conns, bombed>>
  /\ UNCHANGED <<ec_, signals>>

\* After a real error the accept loop ends, and the server is deaf.
HandleAccept ==
  /\ acceptor \in {"ok", "aborted", "cancelled", "error"} /\ ~bombed
  /\ socks' = {}
  /\ IF ec_ \/ acceptor \in {"cancelled", "error"}
     THEN acceptor' = "idle" /\ UNCHANGED <<connections_, conns, bombed>>
     ELSE /\ acceptor' = Initiate("idle")
          /\ IF acceptor = "ok" THEN \E sock \in socks : Welcome(sock)
             ELSE UNCHANGED <<connections_, conns, bombed>>
  /\ UNCHANGED <<ec_, signals>>

\* A connection that is told to stop, and has nothing outstanding then, goes
\* at once; for the others see ConnFinishes.
Stopped(c) == IF c.phase = "live" THEN [c EXCEPT !.phase = "stopping"] ELSE c

\* Mutant: keeps accepting.
HandleSignal_no_cancel ==
  /\ signals = "ok" /\ signals' = "idle" /\ ~bombed
  /\ ec_' = TRUE
  /\ conns' = [i \in DOMAIN conns |->
                 IF \E ep \in DOMAIN connections_ : connections_[ep] = i
                 THEN Stopped(conns[i]) ELSE conns[i]]
  /\ connections_' = [ep \in {} |-> 0]
  /\ UNCHANGED <<acceptor, socks, bombed>>

\* app's signal handler, server::stop and server::handle_stop.  cancel() fails
\* a pending accept; one that has completed keeps its socket.  A connection that
\* is gone has no owner left and is skipped: weak_conn.lock().
HandleSignal ==
  /\ signals = "ok" /\ signals' = "idle" /\ ~bombed
  /\ ec_' = TRUE
  /\ acceptor' = IF acceptor = "pending" THEN "cancelled" ELSE acceptor
  /\ conns' = [i \in DOMAIN conns |->
                 IF \E ep \in DOMAIN connections_ : connections_[ep] = i
                 THEN Stopped(conns[i]) ELSE conns[i]]
  /\ connections_' = [ep \in {} |-> 0]
  /\ UNCHANGED <<socks, bombed>>

----------------------------------------------------------------------------
(* Peers, operating system and connections.                                *)

\* TCP knows one connection per remote endpoint, but a peer that has reset its
\* connection may come back from the same port.
PeerConnects(ep) ==
  /\ acceptor = "pending" /\ acceptor' = "ok"
  /\ Len(conns) < MaxConns
  /\ \A i \in DOMAIN conns : conns[i].ep = ep => ~conns[i].up
  /\ socks' = {[ep |-> ep, up |-> TRUE]}
  /\ UNCHANGED <<ec_, signals, connections_, conns, bombed>>

AcceptFails ==
  /\ acceptor = "pending" /\ acceptor' \in {"aborted", "error"}
  /\ UNCHANGED <<ec_, socks, signals, connections_, conns, bombed>>

\* The peer resets the connection before the handler runs.
PeerResets ==
  /\ \E sock \in socks : sock.up /\ socks' = {[sock EXCEPT !.up = FALSE]}
  /\ UNCHANGED <<ec_, acceptor, signals, connections_, conns, bombed>>

SignalArrives ==
  /\ signals = "pending" /\ signals' = "ok"
  /\ UNCHANGED <<ec_, acceptor, socks, connections_, conns, bombed>>

\* The peer of a connection is gone; the connection lives on until its timer
\* stops it.
TransportFails(i) ==
  /\ conns[i].up /\ conns' = [conns EXCEPT ![i].up = FALSE]
  /\ UNCHANGED <<ec_, acceptor, socks, signals, connections_, bombed>>

\* Session!Stop and Session!Finish.
ConnTimesOut(i) ==
  /\ conns[i].phase = "live" /\ ~bombed
  /\ conns' = [conns EXCEPT ![i].phase = "stopping"]
  /\ UNCHANGED <<ec_, acceptor, socks, signals, connections_, bombed>>

ConnFinishes(i) ==
  /\ conns[i].phase = "stopping" /\ ~bombed
  /\ conns' = [conns EXCEPT ![i].phase = "gone", ![i].up = FALSE]
  /\ UNCHANGED <<ec_, acceptor, socks, signals, connections_, bombed>>

Next ==
  \/ HandleRun \/ HandleAccept \/ HandleSignal
  \/ \E ep \in Endpoint : PeerConnects(ep)
  \/ AcceptFails \/ PeerResets \/ SignalArrives
  \/ \E i \in DOMAIN conns : \/ TransportFails(i)
                             \/ ConnTimesOut(i)
                             \/ ConnFinishes(i)

\* The loop runs what is ready, and a session ends: EchoConnection!SessionEnds.
Fairness ==
  /\ WF_vars(HandleRun) /\ WF_vars(HandleAccept) /\ WF_vars(HandleSignal)
  /\ \A i \in 1 .. MaxConns :
       /\ WF_vars(i \in DOMAIN conns /\ ConnTimesOut(i))
       /\ WF_vars(i \in DOMAIN conns /\ ConnFinishes(i))

Spec == Init /\ [][Next]_vars
FairSpec == Spec /\ Fairness

----------------------------------------------------------------------------
(* Properties.                                                             *)

TypeOK ==
  /\ ec_ \in BOOLEAN /\ bombed \in BOOLEAN
  /\ acceptor \in AcceptState \ {"overlap"}
  /\ socks \subseteq Socket /\ (acceptor = "ok" <=> socks # {})
  /\ signals \in {"idle", "pending", "ok"}
  /\ DOMAIN connections_ \subseteq Endpoint
  /\ \A ep \in DOMAIN connections_ : connections_[ep] \in DOMAIN conns
  /\ conns \in Seq(Conn)

\* The cache holds, for its endpoint, the last connection made.
Displaced(i) == \E j \in DOMAIN conns : j > i /\ conns[j].ep = conns[i].ep

\* After the stop the only connections that were not told to stop are ones whose
\* peer came back from the same port before: handle_accept had overwritten their
\* entry (server.cpp:66).  Their transport is down and their timer ends them.
\* No connection is created by an accept that crossed the stop (server.cpp:41).
StopReachesAll ==
  ec_ => \A i \in DOMAIN conns :
           conns[i].phase = "live" => Displaced(i) /\ ~conns[i].up

\* Once stopped, the server begins no accept, caches nothing and makes no
\* connection, whatever its last accept returned.
NoAcceptAfterStop ==
  [][ec_ => /\ acceptor' = "pending" => acceptor = "pending"
            /\ Len(conns') = Len(conns)
            /\ connections_' = connections_]_vars

\* After SIGINT the io_context runs out of work, so that main() returns
\* ("shuts down cleanly", README.md:17), unless an exception ended it before.
Quiescent ==
  /\ acceptor = "idle" /\ signals = "idle"
  /\ \A i \in DOMAIN conns : conns[i].phase = "gone"
ShutdownDrains == signals = "ok" ~> Quiescent \/ bombed
=============================================================================
