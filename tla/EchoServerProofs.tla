-------------------------- MODULE EchoServerProofs --------------------------
(***************************************************************************)
(* Proofs about EchoServer, for every set of endpoints and every number of *)
(* connections.                                                            *)
(***************************************************************************)
EXTENDS EchoServer, TLAPS

\* The server stops once and runs before it does: handle_run, which clears ec_,
\* never undoes a stop.
StopsOnce ==
  /\ acceptor = "new" => signals = "idle" /\ ~ec_
  /\ ec_ => signals = "idle"

\* An entry of the cache is for the endpoint its connection has.
CacheIsTrue ==
  \A ep \in DOMAIN connections_ : conns[connections_[ep]].ep = ep

\* TCP's promise, carried from the accept to its handler: a peer that connects
\* from a port has no other connection from it that is up.
FreshSocket ==
  \A sock \in socks : \A i \in DOMAIN conns :
    conns[i].ep = sock.ep => ~conns[i].up

\* Until the stop a connection is in the cache, where the stop will find it, or a
\* later one from the same port has displaced it.
Cached(i) ==
  conns[i].ep \in DOMAIN connections_ /\ connections_[conns[i].ep] = i
CachedOrDisplaced ==
  ~ec_ => \A i \in DOMAIN conns : Cached(i) \/ (Displaced(i) /\ ~conns[i].up)

IInv ==
  /\ TypeOK /\ StopsOnce /\ CacheIsTrue /\ FreshSocket /\ CachedOrDisplaced
  /\ StopReachesAll

----------------------------------------------------------------------------
(* Lemmas.                                                                 *)

\* Replacing an element of a sequence leaves its length and the others.
LEMMA Replaced ==
  ASSUME NEW S, NEW s \in Seq(S), NEW i \in DOMAIN s, NEW c \in S
  PROVE  LET t == [s EXCEPT ![i] = c]
         IN  /\ t \in Seq(S) /\ DOMAIN t = DOMAIN s /\ Len(t) = Len(s)
             /\ t[i] = c /\ \A j \in DOMAIN s : j # i => t[j] = s[j]
  OBVIOUS

\* So does mapping a sequence.
LEMMA Mapped ==
  ASSUME NEW S, NEW s \in Seq(S), NEW t, t = [i \in DOMAIN s |-> t[i]],
         \A i \in DOMAIN s : t[i] \in S
  PROVE  t \in Seq(S) /\ DOMAIN t = DOMAIN s /\ Len(t) = Len(s)
  OBVIOUS

\* A sequence that is appended to keeps its elements, and ends in the new one.
LEMMA Appended ==
  ASSUME NEW S, NEW s \in Seq(S), NEW c \in S
  PROVE  LET t == Append(s, c)
         IN  /\ t \in Seq(S) /\ Len(t) = Len(s) + 1 /\ Len(t) \in DOMAIN t
             /\ DOMAIN t = DOMAIN s \cup {Len(t)} /\ t[Len(t)] = c
             /\ \A i \in DOMAIN s : t[i] = s[i] /\ i < Len(t)
  OBVIOUS

\* stop() leaves a connection's peer alone and ends its life.
LEMMA StoppedConn ==
  ASSUME NEW c \in Conn
  PROVE  /\ Stopped(c) \in Conn /\ Stopped(c).phase # "live"
         /\ Stopped(c).ep = c.ep /\ Stopped(c).up = c.up
  BY DEF Stopped, Conn

\* What a connection does by itself replaces it by one that has no more of a peer
\* and no more of a life.
LEMMA ConnMoves ==
  ASSUME conns \in Seq(Conn), NEW i \in DOMAIN conns,
         TransportFails(i) \/ ConnTimesOut(i) \/ ConnFinishes(i)
  PROVE  \E c \in Conn :
           /\ conns' = [conns EXCEPT ![i] = c]
           /\ c.ep = conns[i].ep /\ (c.up => conns[i].up)
           /\ c.phase = "live" => conns[i].phase = "live"
  <1>0. conns[i] \in Conn
    OBVIOUS
  <1>1. CASE TransportFails(i)
    <2> DEFINE c == [conns[i] EXCEPT !.up = FALSE]
    <2>1. /\ c \in Conn /\ c.ep = conns[i].ep /\ c.up = FALSE
          /\ c.phase = conns[i].phase
      BY <1>0 DEF Conn
    <2>2. conns' = [conns EXCEPT ![i] = c]
      BY <1>1 DEF TransportFails
    <2> HIDE DEF c
    <2> QED BY <2>1, <2>2
  <1>2. CASE ConnTimesOut(i)
    <2> DEFINE c == [conns[i] EXCEPT !.phase = "stopping"]
    <2>1. /\ c \in Conn /\ c.ep = conns[i].ep /\ c.up = conns[i].up
          /\ c.phase = "stopping"
      BY <1>0 DEF Conn
    <2>2. conns' = [conns EXCEPT ![i] = c]
      BY <1>2 DEF ConnTimesOut
    <2> HIDE DEF c
    <2> QED BY <2>1, <2>2
  <1>3. CASE ConnFinishes(i)
    <2> DEFINE c == [conns[i] EXCEPT !.phase = "gone", !.up = FALSE]
    <2>1. /\ c \in Conn /\ c.ep = conns[i].ep /\ c.up = FALSE /\ c.phase = "gone"
      BY <1>0 DEF Conn
    <2>2. conns' = [conns EXCEPT ![i] = c]
      BY <1>3 DEF ConnFinishes
    <2> HIDE DEF c
    <2> QED BY <2>1, <2>2
  <1> QED BY <1>1, <1>2, <1>3

\* A step in which nothing happens but that connections move on, none of them
\* gaining its peer, its endpoint or its life back.
LEMMA ConnsMoveOn ==
  ASSUME IInv, conns' \in Seq(Conn), DOMAIN conns' = DOMAIN conns,
         UNCHANGED <<ec_, acceptor, socks, signals, connections_, bombed>>,
         \A i \in DOMAIN conns :
           /\ conns'[i].ep = conns[i].ep
           /\ conns'[i].up => conns[i].up
           /\ conns'[i].phase = "live" => conns[i].phase = "live"
  PROVE  IInv'
  <1> USE DEF IInv
  <1>1. TypeOK' /\ StopsOnce'
    BY DEF TypeOK, StopsOnce
  <1>2. CacheIsTrue' /\ FreshSocket'
    BY DEF TypeOK, CacheIsTrue, FreshSocket
  <1>3. ASSUME NEW i \in DOMAIN conns, Displaced(i), ~conns[i].up
        PROVE  (Displaced(i) /\ ~conns[i].up)'
    BY <1>3 DEF Displaced
  <1>4. ASSUME NEW i \in DOMAIN conns, Cached(i)
        PROVE  Cached(i)'
    BY <1>4 DEF Cached
  <1>5. CachedOrDisplaced'
    BY <1>3, <1>4 DEF CachedOrDisplaced
  <1>6. StopReachesAll'
    BY <1>3 DEF StopReachesAll
  <1> QED BY <1>1, <1>2, <1>5, <1>6

----------------------------------------------------------------------------
(* The inductive invariant.                                                *)

\* A good accept: the connection it makes is cached, and displaces only one whose
\* peer is gone.
LEMMA WelcomeKeepsIInv ==
  ASSUME IInv, NEW sock \in socks, Welcome(sock), ~ec_,
         acceptor = "ok", acceptor' = "pending", socks' = {},
         UNCHANGED <<ec_, signals>>
  PROVE  IInv'
  <1> USE DEF IInv
  <1>0. sock \in Socket /\ bombed' \in BOOLEAN
    BY DEF TypeOK, Welcome
  <1>1. StopsOnce' /\ FreshSocket' /\ StopReachesAll'
    BY DEF StopsOnce, FreshSocket, StopReachesAll
  <1>2. CASE ~sock.up
    <2>1. UNCHANGED <<conns, connections_>>
      BY <1>2 DEF Welcome
    <2>2. TypeOK'
      BY <1>0, <2>1 DEF TypeOK, AcceptState
    <2>3. CacheIsTrue' /\ CachedOrDisplaced'
      BY <2>1 DEF CacheIsTrue, CachedOrDisplaced, Cached, Displaced
    <2> QED BY <1>1, <2>2, <2>3
  <1>3. CASE sock.up
    <2> DEFINE c == [ep |-> sock.ep, up |-> TRUE, phase |-> "live"]
               n == Len(conns')
    <2>1. c \in Conn /\ c.ep = sock.ep
      BY <1>0 DEF Socket, Conn
    <2> HIDE DEF c
    <2>2. conns' = Append(conns, c)
      BY <1>3 DEF Welcome, c
    <2>3. /\ conns' \in Seq(Conn) /\ n \in DOMAIN conns' /\ conns'[n] = c
          /\ DOMAIN conns' = DOMAIN conns \cup {n}
          /\ \A i \in DOMAIN conns : conns'[i] = conns[i] /\ i < n
      BY <2>1, <2>2, Appended DEF TypeOK
    <2> HIDE DEF n
    <2>4. connections_' = [ep \in DOMAIN connections_ \cup {sock.ep} |->
                             IF ep = sock.ep THEN n ELSE connections_[ep]]
      BY <1>3 DEF Welcome, n
    <2>5. /\ DOMAIN connections_' = DOMAIN connections_ \cup {sock.ep}
          /\ connections_'[sock.ep] = n
          /\ \A ep \in DOMAIN connections_ :
               ep # sock.ep => connections_'[ep] = connections_[ep]
      BY <2>4
    <2>6. TypeOK'
      BY <1>0, <2>3, <2>5 DEF TypeOK, AcceptState, Socket
    <2>7. CacheIsTrue'
      BY <2>1, <2>3, <2>5 DEF TypeOK, CacheIsTrue
    <2>8. CachedOrDisplaced'
      <3> SUFFICES ASSUME NEW i \in DOMAIN conns'
                   PROVE  Cached(i)' \/ (Displaced(i) /\ ~conns[i].up)'
        BY DEF CachedOrDisplaced
      <3>1. CASE i = n
        BY <2>1, <2>3, <2>5, <3>1 DEF Cached
      <3>2. CASE i # n /\ conns[i].ep = sock.ep
        <4>1. i \in DOMAIN conns /\ ~conns[i].up
          BY <2>3, <3>2 DEF FreshSocket
        <4> QED BY <2>1, <2>3, <3>2, <4>1 DEF Displaced
      <3>3. CASE i # n /\ conns[i].ep # sock.ep
        <4>1. i \in DOMAIN conns /\ conns'[i] = conns[i]
          BY <2>3, <3>3
        <4>2. CASE Cached(i)
          BY <2>5, <3>3, <4>1, <4>2 DEF Cached
        <4>3. CASE Displaced(i) /\ ~conns[i].up
          BY <2>3, <4>1, <4>3 DEF Displaced
        <4> QED BY <4>1, <4>2, <4>3 DEF CachedOrDisplaced
      <3> QED BY <3>1, <3>2, <3>3
    <2> QED BY <1>1, <2>6, <2>7, <2>8
  <1> QED BY <1>2, <1>3

\* The stop reaches every connection in the cache.
LEMMA SignalKeepsIInv ==
  ASSUME IInv, HandleSignal
  PROVE  IInv'
  <1> USE DEF IInv
  <1>1. ~ec_ /\ acceptor # "new" /\ ec_' = TRUE /\ signals' = "idle"
    BY DEF HandleSignal, StopsOnce
  <1>2. \A i \in DOMAIN conns : Stopped(conns[i]) \in Conn
    BY StoppedConn DEF TypeOK
  <1>3. /\ conns' = [i \in DOMAIN conns |->
                       IF \E ep \in DOMAIN connections_ : connections_[ep] = i
                       THEN Stopped(conns[i]) ELSE conns[i]]
        /\ \A i \in DOMAIN conns : conns'[i] \in Conn
    BY <1>2 DEF HandleSignal, TypeOK
  <1>4. conns' \in Seq(Conn) /\ DOMAIN conns' = DOMAIN conns
    BY <1>3, Mapped DEF TypeOK
  <1>5. DOMAIN connections_' = {} /\ socks' = socks /\ bombed' = bombed
    BY DEF HandleSignal
  <1>6. TypeOK'
    BY <1>1, <1>4, <1>5 DEF TypeOK, HandleSignal, AcceptState
  <1>7. \A i \in DOMAIN conns : conns'[i].ep = conns[i].ep /\ conns'[i].up = conns[i].up
    BY <1>3, StoppedConn DEF TypeOK
  <1>8. StopsOnce' /\ CacheIsTrue' /\ CachedOrDisplaced'
    BY <1>1, <1>5 DEF StopsOnce, CacheIsTrue, CachedOrDisplaced, HandleSignal
  <1>9. FreshSocket'
    BY <1>4, <1>5, <1>7 DEF FreshSocket
  <1>10. StopReachesAll'
    <2> SUFFICES ASSUME NEW i \in DOMAIN conns, conns'[i].phase = "live"
                 PROVE  (Displaced(i) /\ ~conns[i].up)'
      BY <1>4 DEF StopReachesAll
    <2>1. CASE Cached(i)
      <3>1. conns'[i] = Stopped(conns[i])
        BY <1>3, <2>1 DEF Cached
      <3>2. conns[i] \in Conn
        BY DEF TypeOK
      <3> QED BY <3>1, <3>2, StoppedConn
    <2>2. CASE Displaced(i) /\ ~conns[i].up
      BY <1>4, <1>7, <2>2 DEF Displaced
    <2> QED BY <1>1, <2>1, <2>2 DEF CachedOrDisplaced
  <1> QED BY <1>6, <1>8, <1>9, <1>10

\* No step of the server, its connections or their peers breaks the invariant.
LEMMA NextKeepsIInv ==
  ASSUME IInv, [Next]_vars
  PROVE  IInv'
  <1> USE DEF IInv
  <1> DEFINE same == UNCHANGED <<connections_, conns, bombed>>
  \* The steps that leave the connections alone.
  <1>0. ASSUME UNCHANGED <<connections_, conns>>, TypeOK', StopsOnce', FreshSocket', ec_' = ec_
        PROVE  IInv'
    BY <1>0 DEF CacheIsTrue, CachedOrDisplaced, StopReachesAll, Cached, Displaced
  <1>1. CASE HandleRun
    <2>1. ec_' = ec_
      BY <1>1 DEF HandleRun, StopsOnce, TypeOK
    <2>2. TypeOK' /\ StopsOnce' /\ FreshSocket'
      BY <1>1, <2>1
      DEF HandleRun, Initiate, TypeOK, AcceptState, StopsOnce, FreshSocket
    <2> QED BY <1>0, <1>1, <2>1, <2>2 DEF HandleRun
  <1>2. CASE HandleAccept
    <2>1. CASE ec_ \/ acceptor # "ok"
      <3>1. same /\ socks' = {} /\ acceptor' \in {"idle", "pending"}
        BY <1>2, <2>1 DEF HandleAccept, Initiate
      <3>2. TypeOK' /\ StopsOnce' /\ FreshSocket'
        BY <1>2, <3>1
        DEF HandleAccept, TypeOK, AcceptState, StopsOnce, FreshSocket
      <3> QED BY <1>0, <1>2, <3>1, <3>2 DEF HandleAccept
    <2>2. CASE ~ec_ /\ acceptor = "ok"
      <3>1. PICK sock \in socks : Welcome(sock)
        BY <1>2, <2>2 DEF HandleAccept
      <3> QED
        BY <1>2, <2>2, <3>1, WelcomeKeepsIInv DEF HandleAccept, Initiate
    <2> QED BY <2>1, <2>2
  <1>3. CASE HandleSignal
    BY <1>3, SignalKeepsIInv
  <1>4. ASSUME NEW ep \in Endpoint, PeerConnects(ep)
        PROVE  IInv'
    <2>1. [ep |-> ep, up |-> TRUE] \in Socket /\ [ep |-> ep, up |-> TRUE].ep = ep
      BY DEF Socket
    <2>2. TypeOK' /\ StopsOnce' /\ FreshSocket'
      BY <1>4, <2>1 DEF PeerConnects, TypeOK, AcceptState, StopsOnce, FreshSocket
    <2> QED BY <1>0, <1>4, <2>2 DEF PeerConnects
  <1>5. CASE AcceptFails
    <2>1. TypeOK' /\ StopsOnce' /\ FreshSocket'
      BY <1>5 DEF AcceptFails, TypeOK, AcceptState, StopsOnce, FreshSocket
    <2> QED BY <1>0, <1>5, <2>1 DEF AcceptFails
  <1>6. CASE PeerResets
    <2>1. PICK sock \in socks : socks' = {[sock EXCEPT !.up = FALSE]}
      BY <1>6 DEF PeerResets
    <2>2. /\ [sock EXCEPT !.up = FALSE] \in Socket
          /\ [sock EXCEPT !.up = FALSE].ep = sock.ep
      BY DEF TypeOK, Socket
    <2>3. acceptor = "ok" /\ UNCHANGED <<ec_, acceptor, signals, connections_, conns, bombed>>
      BY <1>6 DEF PeerResets, TypeOK
    <2>4. socks' \subseteq Socket /\ socks' # {}
      BY <2>1, <2>2
    <2>5. TypeOK' /\ StopsOnce'
      BY <2>3, <2>4 DEF TypeOK, StopsOnce
    <2>6. FreshSocket'
      BY <2>1, <2>2, <2>3 DEF FreshSocket
    <2> QED BY <1>0, <2>3, <2>5, <2>6
  <1>7. CASE SignalArrives
    <2>1. TypeOK' /\ StopsOnce' /\ FreshSocket'
      BY <1>7 DEF SignalArrives, TypeOK, StopsOnce, FreshSocket
    <2> QED BY <1>0, <1>7, <2>1 DEF SignalArrives
  <1>8. ASSUME NEW i \in DOMAIN conns,
               TransportFails(i) \/ ConnTimesOut(i) \/ ConnFinishes(i)
        PROVE  IInv'
    <2>1. conns \in Seq(Conn) /\ conns[i] \in Conn
      BY DEF TypeOK
    <2>2. PICK c \in Conn :
            /\ conns' = [conns EXCEPT ![i] = c]
            /\ c.ep = conns[i].ep /\ (c.up => conns[i].up)
            /\ c.phase = "live" => conns[i].phase = "live"
      BY <1>8, <2>1, ConnMoves
    <2>3. /\ conns' \in Seq(Conn) /\ DOMAIN conns' = DOMAIN conns /\ conns'[i] = c
          /\ \A j \in DOMAIN conns : j # i => conns'[j] = conns[j]
      BY <2>1, <2>2, Replaced
    <2>4. UNCHANGED <<ec_, acceptor, socks, signals, connections_, bombed>>
      BY <1>8 DEF TransportFails, ConnTimesOut, ConnFinishes
    <2> QED BY <2>2, <2>3, <2>4, ConnsMoveOn
  <1>9. CASE UNCHANGED vars
    BY <1>0, <1>9 DEF vars, TypeOK, StopsOnce, FreshSocket
  <1> QED
    BY <1>1, <1>2, <1>3, <1>4, <1>5, <1>6, <1>7, <1>8, <1>9 DEF Next

\* IInv holds in every reachable state.
LEMMA AlwaysIInv == Spec => []IInv
  <1>1. Init => IInv
    <2> SUFFICES ASSUME Init PROVE IInv
      OBVIOUS
    <2>1. DOMAIN connections_ = {} /\ conns \in Seq(Conn) /\ DOMAIN conns = {}
      BY DEF Init
    <2>2. TypeOK
      BY <2>1 DEF Init, TypeOK, AcceptState
    <2> QED
      BY <2>1, <2>2
      DEF Init, IInv, StopsOnce, CacheIsTrue, FreshSocket, CachedOrDisplaced,
          StopReachesAll
  <1> QED BY <1>1, NextKeepsIInv, PTL DEF Spec

----------------------------------------------------------------------------
(* Theorems.                                                               *)

\* Every variable of the server keeps its type; in particular no accept is begun
\* over another, and a socket waits exactly when an accept has succeeded.
THEOREM TypeCorrect == Spec => []TypeOK
  <1>1. IInv => TypeOK
    BY DEF IInv
  <1> QED BY <1>1, AlwaysIInv, PTL

\* server::stop tells every connection to stop but those that a newer one from the
\* same port had displaced, and these have lost their peer.
THEOREM StopMissesOnlyDisplaced == Spec => []StopReachesAll
  <1>1. IInv => StopReachesAll
    BY DEF IInv
  <1> QED BY <1>1, AlwaysIInv, PTL

\* Whatever an accept returns after the stop, the server makes no connection of it
\* and begins no other.
THEOREM StoppedIsClosed == Spec => NoAcceptAfterStop
  <1> DEFINE Closed == ec_ => /\ acceptor' = "pending" => acceptor = "pending"
                              /\ Len(conns') = Len(conns)
                              /\ connections_' = connections_
  <1>1. IInv /\ [Next]_vars => [Closed]_vars
    <2> SUFFICES ASSUME IInv, Next, ec_ PROVE Closed
      OBVIOUS
    <2>1. acceptor # "new" /\ signals = "idle"
      BY DEF IInv, StopsOnce
    <2>2. CASE HandleRun \/ HandleAccept \/ HandleSignal
      BY <2>1, <2>2 DEF HandleRun, HandleAccept, HandleSignal
    <2>3. CASE \/ \E ep \in Endpoint : PeerConnects(ep)
               \/ AcceptFails \/ PeerResets \/ SignalArrives
      BY <2>3 DEF PeerConnects, AcceptFails, PeerResets, SignalArrives
    <2>4. ASSUME NEW i \in DOMAIN conns,
                 TransportFails(i) \/ ConnTimesOut(i) \/ ConnFinishes(i)
          PROVE  Closed
      <3>1. conns \in Seq(Conn) /\ conns[i] \in Conn
        BY DEF IInv, TypeOK
      <3>2. PICK c \in Conn : conns' = [conns EXCEPT ![i] = c]
        BY <2>4, <3>1, ConnMoves
      <3>3. Len(conns') = Len(conns)
        BY <3>1, <3>2, Replaced
      <3> QED BY <2>4, <3>3 DEF TransportFails, ConnTimesOut, ConnFinishes
    <2> QED BY <2>2, <2>3, <2>4 DEF Next
  <1> QED BY <1>1, AlwaysIInv, PTL DEF Spec, NoAcceptAfterStop
=============================================================================
