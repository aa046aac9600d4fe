-------------------------- MODULE ChatterboxProofs --------------------------
(***************************************************************************)
(* Proofs about Chatterbox and the ChatterClient inside it, for every      *)
(* number of messages the server may send and of lines the user may type.  *)
(***************************************************************************)
EXTENDS Chatterbox, TLAPS

\* Which operations may be outstanding together.  Only the phases tell: connect,
\* then handshake, then the reads, the writes and the close of a chat.
Phases ==
  /\ connect = "idle" \/ handshake = "idle"
  /\ state_ = "handshaking" => rx = "idle" /\ tx = "idle" /\ close = "idle"
  /\ state_ = "chatting" => connect = "idle" /\ handshake = "idle"
  /\ tx # "idle" => sending_state_ = "sending"
  /\ tx \in {"pending", "ok"} => tx_queue_ # <<>>

\* How often the pool may stop the client: it lets go of the entry of a
\* connection that it stops, and has none before it runs.
OneStop ==
  /\ running \in {"no", "bombed"} =>
       /\ connections_ = 0 /\ state_ = "handshaking" /\ ~ec_
       /\ connect = "idle" /\ handshake = "idle"
  /\ ec_ \/ close # "idle" => connections_ = 0 /\ running = "yes"

\* Messages that were read and handled, and those still to be sent: handle_rx
\* queues a message after async_read delivered it, and handle_tx removes one
\* after async_write sent it.
Handled == IF rx = "ok" THEN received - 1 ELSE received
Unsent == IF tx = "ok" THEN Tail(tx_queue_) ELSE tx_queue_

\* What was sent and what is queued number the messages handled, in order.
Numbered ==
  /\ Len(sent) + Len(Unsent) = Handled
  /\ \A n \in DOMAIN sent : sent[n] = n
  /\ \A n \in DOMAIN Unsent : Unsent[n] = Len(sent) + n

NoOverlap == "overlap" \notin {connect, handshake, rx, tx, close}

IInv == TypeOK /\ NoOverlap /\ Phases /\ OneStop /\ Numbered

----------------------------------------------------------------------------
(* Lemmas.                                                                 *)

\* A sequence that is appended to keeps its elements, and ends in the new one.
LEMMA Appended ==
  ASSUME NEW S, NEW s \in Seq(S), NEW c \in S
  PROVE  /\ Append(s, c) \in Seq(S) /\ Append(s, c) # <<>>
         /\ Len(Append(s, c)) = Len(s) + 1
         /\ \A n \in DOMAIN Append(s, c) :
              Append(s, c)[n] = IF n \in DOMAIN s THEN s[n] ELSE c
         /\ \A n \in DOMAIN Append(s, c) : n \in DOMAIN s \/ n = Len(s) + 1
  OBVIOUS

\* The tail of a queue is the queue without its first element.
LEMMA TailOf ==
  ASSUME NEW S, NEW q \in Seq(S), q # <<>>
  PROVE  /\ Tail(q) \in Seq(S) /\ Len(Tail(q)) = Len(q) - 1
         /\ \A n \in DOMAIN Tail(q) : n + 1 \in DOMAIN q /\ Tail(q)[n] = q[n + 1]
         /\ Head(q) = q[1] /\ Head(q) \in S /\ 1 \in DOMAIN q
  OBVIOUS

\* Appending behind the front of a queue appends to its tail.
LEMMA AppendBehind ==
  ASSUME NEW S, NEW q \in Seq(S), NEW m \in S, q # <<>>
  PROVE  Tail(Append(q, m)) = Append(Tail(q), m)
  OBVIOUS

\* What is not sent yet is a sequence of messages, and a completed read
\* delivered one.
LEMMA Counts ==
  ASSUME IInv
  PROVE  /\ Unsent \in Seq(1 .. MaxRx)
         /\ Handled \in 0 .. MaxRx
         /\ rx = "ok" => received \in 1 .. MaxRx /\ Handled = received - 1
  <1>1. Unsent \in Seq(1 .. MaxRx)
    BY TailOf DEF IInv, TypeOK, ConnTypeOK, Phases, Unsent
  <1>2. Handled \in Nat
    BY <1>1 DEF IInv, TypeOK, ConnTypeOK, Numbered
  <1> QED
    BY <1>1, <1>2, MaxRxAssumption DEF IInv, TypeOK, ConnTypeOK, Handled

----------------------------------------------------------------------------
(* The inductive invariant.                                                *)

\* The steps that neither read nor write: the numbering is what it was.
LEMMA NumberingKept ==
  ASSUME IInv, UNCHANGED <<tx_queue_, received, sent>>,
         rx' = "ok" <=> rx = "ok", tx' = "ok" <=> tx = "ok"
  PROVE  Numbered'
  BY DEF IInv, Numbered, Handled, Unsent

\* A step that leaves the connection alone.
LEMMA ConnUntouched ==
  ASSUME IInv, UNCHANGED connvars
  PROVE  ConnTypeOK' /\ NoOverlap' /\ Phases' /\ Numbered'
  <1>1. UNCHANGED <<state_, sending_state_, tx_queue_, ec_, connect, handshake, rx, tx,
                    close, stream, received, sent>>
    BY DEF connvars, opvars
  <1>2. ConnTypeOK'
    BY <1>1 DEF IInv, TypeOK, ConnTypeOK
  <1>3. NoOverlap' /\ Phases'
    BY <1>1 DEF IInv, NoOverlap, Phases
  <1> QED BY <1>1, <1>2, <1>3, NumberingKept

\* connection_pool::handle_stop and with it connection_impl::stop.
LEMMA HandleStop ==
  ASSUME IInv, handle_stop, running' = running, signals_' \in {"idle", "pending", "ok", "err"},
         ConTypeOK'
  PROVE  IInv'
  <1> USE DEF IInv
  <1>1. CASE connections_ > 0 /\ Alive
    <2>1. stop /\ connections_' = 0 /\ close = "idle" /\ running = "yes" /\ pool_ec_' = TRUE
      BY <1>1 DEF handle_stop, OneStop, TypeOK
    <2>2. /\ connect' \in {connect, Abort(connect)}
          /\ handshake' \in {handshake, Abort(handshake)}
          /\ close' \in {"idle", "pending"} /\ ec_' = TRUE
          /\ close' = "pending" => state_ = "chatting"
          /\ UNCHANGED <<state_, sending_state_, tx_queue_, rx, tx, stream, received, sent>>
      BY <2>1 DEF stop, Initiate
    <2>3. /\ connect' \in OpState \ {"overlap"} /\ handshake' \in OpState \ {"overlap"}
          /\ connect = "idle" => connect' = "idle"
          /\ handshake = "idle" => handshake' = "idle"
      BY <2>2 DEF Abort, OpState, TypeOK, ConnTypeOK, NoOverlap
    <2>4. TypeOK' /\ NoOverlap'
      BY <2>1, <2>2, <2>3 DEF TypeOK, ConnTypeOK, NoOverlap, OpState
    <2>5. Phases'
      BY <2>1, <2>2, <2>3 DEF Phases, TypeOK, ConnTypeOK
    <2>6. OneStop'
      BY <2>1 DEF OneStop
    <2>7. Numbered'
      BY <2>2, NumberingKept
    <2> QED BY <2>4, <2>5, <2>6, <2>7
  <1>2. CASE ~(connections_ > 0 /\ Alive)
    <2>1. UNCHANGED connvars /\ connections_' = 0 /\ pool_ec_' = TRUE
      BY <1>2 DEF handle_stop
    <2>2. TypeOK'
      BY <2>1, ConnUntouched DEF TypeOK
    <2>3. OneStop'
      BY <2>1 DEF connvars, opvars, OneStop
    <2> QED BY <2>1, <2>2, <2>3, ConnUntouched
  <1> QED BY <1>1, <1>2

\* A message that was read is echoed behind those that are queued.
LEMMA RxKeepsIInv ==
  ASSUME IInv, HandleRx, UNCHANGED <<convars, appvars>>
  PROVE  IInv'
  <1> USE DEF IInv
  <1>0. /\ state_ = "chatting" /\ UNCHANGED <<state_, ec_, connect, handshake, close,
                                              stream, received, sent>>
        /\ rx \in {"ok", "err"}
    BY DEF HandleRx, Phases, TypeOK, ConnTypeOK
  <1>1. CASE rx = "err"
    <2>1. rx' = "idle" /\ UNCHANGED <<tx_queue_, sending_state_, tx>>
      BY <1>1 DEF HandleRx
    <2>2. TypeOK' /\ NoOverlap'
      BY <1>0, <2>1
      DEF TypeOK, ConnTypeOK, ConTypeOK, OpState, NoOverlap, convars, appvars
    <2>3. Phases' /\ OneStop'
      BY <1>0, <2>1 DEF Phases, OneStop, appvars
    <2> QED BY <1>0, <1>1, <2>1, <2>2, <2>3, NumberingKept
  <1>2. CASE rx = "ok"
    <2>1. /\ rx' = "pending" /\ tx_queue_' = Append(tx_queue_, received)
          /\ maybe_send_next(state_, sending_state_, tx_queue_', tx)
      BY <1>2 DEF HandleRx, Initiate
    <2>2. /\ received \in 1 .. MaxRx /\ Handled = received - 1
          /\ Unsent \in Seq(1 .. MaxRx) /\ tx_queue_ \in Seq(1 .. MaxRx)
      BY <1>2, Counts DEF TypeOK, ConnTypeOK
    <2>3. tx_queue_' \in Seq(1 .. MaxRx) /\ tx_queue_' # <<>>
      BY <2>1, <2>2, Appended
    <2>4. /\ sending_state_' \in {"send_idle", "sending"}
          /\ tx' \in {"idle", "pending", "ok", "err"}
          /\ tx' = "ok" <=> tx = "ok"
          /\ tx' # "idle" => sending_state_' = "sending"
      BY <2>1
      DEF maybe_send_next, Initiate, Phases, TypeOK, ConnTypeOK, OpState, NoOverlap
    <2>5. TypeOK' /\ NoOverlap'
      BY <1>0, <2>1, <2>3, <2>4
      DEF TypeOK, ConnTypeOK, ConTypeOK, OpState, NoOverlap, convars, appvars
    <2>6. Phases' /\ OneStop'
      BY <1>0, <2>1, <2>3, <2>4 DEF Phases, OneStop, appvars
    <2>7. Unsent' = Append(Unsent, received)
      BY <2>1, <2>2, <2>4, AppendBehind DEF Unsent, Phases
    <2>8. Handled' = received /\ sent' = sent
      BY <1>0, <2>1 DEF Handled
    <2>9. Numbered'
      <3> HIDE DEF Unsent, Handled
      <3>1. /\ Len(sent) \in Nat /\ Len(Unsent) \in Nat
            /\ Len(Unsent') = Len(Unsent) + 1
            /\ \A n \in DOMAIN Unsent' :
                 /\ Unsent'[n] = IF n \in DOMAIN Unsent THEN Unsent[n] ELSE received
                 /\ n \in DOMAIN Unsent \/ n = Len(Unsent) + 1
        BY <2>2, <2>7, Appended DEF TypeOK, ConnTypeOK
      <3>2. /\ Len(sent) + Len(Unsent) = received - 1 /\ received \in Nat
            /\ \A n \in DOMAIN sent : sent[n] = n
            /\ \A n \in DOMAIN Unsent : Unsent[n] = Len(sent) + n
        BY <2>2 DEF Numbered
      <3>3. received = Len(sent) + (Len(Unsent) + 1)
        BY <3>1, <3>2
      <3>4. \A n \in DOMAIN Unsent' : Unsent'[n] = Len(sent) + n
        BY <3>1, <3>2, <3>3
      <3> QED BY <2>8, <3>1, <3>2, <3>3, <3>4 DEF Numbered
    <2> QED BY <2>5, <2>6, <2>9
  <1> QED BY <1>0, <1>1, <1>2

\* The message that was sent leaves the queue, and the next is begun.
LEMMA TxKeepsIInv ==
  ASSUME IInv, HandleTx, UNCHANGED <<convars, appvars>>
  PROVE  IInv'
  <1> USE DEF IInv
  <1>0. /\ state_ = "chatting" /\ UNCHANGED <<state_, ec_, connect, handshake, rx, close,
                                              stream, received, sent>>
        /\ tx \in {"ok", "err"}
    BY DEF HandleTx, Phases, TypeOK, ConnTypeOK
  <1>1. /\ tx' \in {"idle", "pending"} /\ sending_state_' \in {"send_idle", "sending"}
        /\ tx_queue_' = Unsent
        /\ tx' # "idle" => sending_state_' = "sending" /\ tx_queue_' # <<>>
    BY <1>0
    DEF HandleTx, maybe_send_next, Initiate, Unsent, Phases, TypeOK, ConnTypeOK
  <1>2. tx_queue_' \in Seq(1 .. MaxRx) /\ Unsent' = Unsent /\ Handled' = Handled
    BY <1>0, <1>1, Counts DEF Unsent, Handled
  <1>3. TypeOK' /\ NoOverlap'
    BY <1>0, <1>1, <1>2
    DEF TypeOK, ConnTypeOK, ConTypeOK, OpState, NoOverlap, convars, appvars
  <1>4. Phases' /\ OneStop'
    BY <1>0, <1>1 DEF Phases, OneStop, appvars
  <1>5. Numbered'
    BY <1>0, <1>2 DEF Numbered
  <1> QED BY <1>3, <1>4, <1>5

\* async_write has sent the front of the queue.
LEMMA WriteKeepsIInv ==
  ASSUME IInv, WriteCompletes, UNCHANGED <<convars, appvars>>
  PROVE  IInv'
  <1> USE DEF IInv
  <1>0. /\ tx = "pending" /\ tx' = "ok" /\ tx_queue_ # <<>> /\ state_ = "chatting"
        /\ sent' = Append(sent, Head(tx_queue_))
        /\ UNCHANGED <<state_, sending_state_, tx_queue_, ec_, connect, handshake,
                       rx, close, stream, received>>
    BY DEF WriteCompletes, Phases, TypeOK, ConnTypeOK
  <1>1. /\ tx_queue_ \in Seq(1 .. MaxRx) /\ sent \in Seq(1 .. MaxRx)
        /\ Unsent = tx_queue_ /\ Unsent' = Tail(tx_queue_) /\ Handled' = Handled
    BY <1>0 DEF TypeOK, ConnTypeOK, Unsent, Handled
  <1>2. /\ Len(Unsent') = Len(tx_queue_) - 1
        /\ \A n \in DOMAIN Unsent' : n + 1 \in DOMAIN tx_queue_
                                     /\ Unsent'[n] = tx_queue_[n + 1]
        /\ Head(tx_queue_) = tx_queue_[1] /\ Head(tx_queue_) \in 1 .. MaxRx
        /\ 1 \in DOMAIN tx_queue_
    BY <1>0, <1>1, TailOf
  <1>3. /\ sent' \in Seq(1 .. MaxRx) /\ Len(sent') = Len(sent) + 1
        /\ \A n \in DOMAIN sent' :
             /\ sent'[n] = IF n \in DOMAIN sent THEN sent[n] ELSE Head(tx_queue_)
             /\ n \in DOMAIN sent \/ n = Len(sent) + 1
    BY <1>0, <1>1, <1>2, Appended
  <1>4. TypeOK' /\ NoOverlap'
    BY <1>0, <1>3
    DEF TypeOK, ConnTypeOK, ConTypeOK, OpState, NoOverlap, convars, appvars
  <1>5. Phases' /\ OneStop'
    BY <1>0 DEF Phases, OneStop, appvars
  <1>6. Numbered'
    <2>1. /\ Len(sent) \in Nat /\ Len(tx_queue_) \in Nat
          /\ Len(sent) + Len(tx_queue_) = Handled
          /\ \A n \in DOMAIN sent : sent[n] = n
          /\ \A n \in DOMAIN tx_queue_ : tx_queue_[n] = Len(sent) + n
      BY <1>1 DEF Numbered
    <2>2. Head(tx_queue_) = Len(sent) + 1
      BY <1>2, <2>1
    <2>3. \A n \in DOMAIN sent' : sent'[n] = n
      BY <1>3, <2>1, <2>2
    <2>4. Unsent' \in Seq(1 .. MaxRx)
      BY <1>0, <1>1, TailOf
    <2> HIDE DEF Unsent
    <2>5. \A n \in DOMAIN Unsent' : Unsent'[n] = Len(sent') + n
      <3> SUFFICES ASSUME NEW n \in DOMAIN Unsent'
                   PROVE  Unsent'[n] = Len(sent') + n
        OBVIOUS
      <3>1. n \in Nat /\ Unsent'[n] = Len(sent) + (n + 1)
        BY <1>2, <2>1, <2>4
      <3> QED BY <1>3, <2>1, <3>1
    <2>6. Len(sent') + Len(Unsent') = Handled'
      <3>1. (Len(sent) + 1) + (Len(tx_queue_) - 1) = Len(sent) + Len(tx_queue_)
        BY <2>1
      <3> QED BY <1>1, <1>2, <1>3, <2>1, <3>1
    <2> QED BY <2>3, <2>5, <2>6 DEF Numbered
  <1> QED BY <1>4, <1>5, <1>6

\* async_read delivers a message, whose handler has not run yet.
LEMMA ReadKeepsIInv ==
  ASSUME IInv, ReadCompletes, UNCHANGED <<convars, appvars>>
  PROVE  IInv'
  <1> USE DEF IInv
  <1>0. /\ rx = "pending" /\ rx' = "ok" /\ received' = received + 1
        /\ received' \in 0 .. MaxRx /\ state_ = "chatting"
        /\ UNCHANGED <<state_, sending_state_, tx_queue_, ec_, connect, handshake,
                       tx, close, stream, sent>>
    BY MaxRxAssumption DEF ReadCompletes, Phases, TypeOK, ConnTypeOK
  <1>1. Handled' = Handled /\ Unsent' = Unsent
    BY <1>0 DEF Handled, Unsent, TypeOK, ConnTypeOK
  <1>2. TypeOK' /\ NoOverlap'
    BY <1>0
    DEF TypeOK, ConnTypeOK, ConTypeOK, OpState, NoOverlap, convars, appvars
  <1>3. Phases' /\ OneStop'
    BY <1>0 DEF Phases, OneStop, appvars
  <1>4. Numbered'
    BY <1>0, <1>1 DEF Numbered
  <1> QED BY <1>2, <1>3, <1>4

\* The handshake is over: reading begins, and writing if there is anything to
\* write.
LEMMA HandshakeKeepsIInv ==
  ASSUME IInv, HandleHandshake, UNCHANGED <<convars, appvars>>
  PROVE  IInv'
  <1> USE DEF IInv
  <1>0. /\ state_ = "handshaking" /\ rx = "idle" /\ tx = "idle" /\ close = "idle"
        /\ connect = "idle"
        /\ handshake' = "idle" /\ running = "yes"
        /\ UNCHANGED <<tx_queue_, ec_, connect, close, stream, received, sent>>
    BY DEF HandleHandshake, Phases, OneStop, TypeOK, ConnTypeOK
  <1>1. /\ rx' \in {"idle", "pending"} /\ tx' \in {"idle", "pending"}
        /\ state_' \in {"handshaking", "chatting"}
        /\ state_' = "handshaking" => rx' = "idle" /\ tx' = "idle"
        /\ sending_state_' \in {"send_idle", "sending"}
        /\ tx' # "idle" => sending_state_' = "sending" /\ tx_queue_ # <<>>
    BY <1>0
    DEF HandleHandshake, maybe_send_next, Initiate, TypeOK, ConnTypeOK
  <1>2. TypeOK' /\ NoOverlap'
    BY <1>0, <1>1
    DEF TypeOK, ConnTypeOK, ConTypeOK, OpState, NoOverlap, convars, appvars
  <1>3. Phases' /\ OneStop'
    BY <1>0, <1>1 DEF Phases, OneStop, appvars
  <1>4. Numbered'
    BY <1>0, <1>1, NumberingKept
  <1> QED BY <1>2, <1>3, <1>4

\* The steps of the connection that only move an operation on.
LEMMA OpsKeepIInv ==
  ASSUME IInv, UNCHANGED <<convars, appvars>>,
         \/ HandleConnect \/ HandleClose \/ ConnectCompletes \/ HandshakeCompletes
         \/ CloseCompletes \/ StreamFails \/ OperationFails
  PROVE  IInv'
  <1> USE DEF IInv
  <1> DEFINE rest == <<state_, sending_state_, tx_queue_, ec_, received, sent>>
  <1>1. /\ UNCHANGED rest /\ stream' \in {"new", "open", "failed"}
        /\ rx' = rx \/ (rx = "pending" /\ rx' = "err")
        /\ tx' = tx \/ (tx = "pending" /\ tx' = "err")
        /\ close' = close \/ (close # "idle" /\ close' \in {"idle", "ok", "err"})
    BY DEF HandleConnect, HandleClose, ConnectCompletes, HandshakeCompletes,
           CloseCompletes, StreamFails, OperationFails, opvars, TypeOK, ConnTypeOK
  <1>2. /\ connect' \in {"idle", "pending", "ok", "err"}
        /\ handshake' \in {"idle", "pending", "ok", "err"}
        /\ connect = "idle" => connect' = "idle"
        /\ connect = "idle" /\ handshake = "idle" => handshake' = "idle"
        /\ connect' = "idle" \/ handshake' = "idle"
        /\ connect' # "idle" \/ handshake' # "idle" => connect # "idle" \/ handshake # "idle"
    BY DEF HandleConnect, HandleClose, ConnectCompletes, HandshakeCompletes,
           CloseCompletes, StreamFails, OperationFails, opvars, Initiate, Phases,
           TypeOK, ConnTypeOK, OpState, NoOverlap
  <1>3. TypeOK' /\ NoOverlap'
    BY <1>1, <1>2
    DEF TypeOK, ConnTypeOK, ConTypeOK, OpState, NoOverlap, convars, appvars
  <1>4. Phases'
    BY <1>1, <1>2 DEF Phases, TypeOK, ConnTypeOK
  <1>5. OneStop'
    BY <1>1, <1>2 DEF OneStop, appvars
  <1>6. Numbered'
    BY <1>1, NumberingKept
  <1> QED BY <1>3, <1>4, <1>5, <1>6

\* No step of the client, the pool, the console or the app breaks the invariant.
LEMMA NextKeepsIInv ==
  ASSUME IInv, [Next]_vars
  PROVE  IInv'
  <1> USE DEF IInv
  <1>1. CASE UNCHANGED <<connvars, appvars>> /\ ConTypeOK'
    <2>1. TypeOK'
      BY <1>1, ConnUntouched DEF appvars, TypeOK
    <2>2. OneStop'
      BY <1>1 DEF connvars, opvars, appvars, OneStop
    <2> QED BY <1>1, <2>1, <2>2, ConnUntouched
  <1>2. CASE HandleRun
    <2>1. CASE running' = "bombed"
      <3>1. UNCHANGED <<connvars, convars, pool_ec_, connections_, signals_>> /\ running = "no"
        BY <1>2, <2>1 DEF HandleRun
      <3>2. TypeOK'
        BY <2>1, <3>1, ConnUntouched DEF convars, TypeOK, ConTypeOK
      <3>3. OneStop'
        BY <2>1, <3>1 DEF connvars, opvars, OneStop
      <3> QED BY <3>1, <3>2, <3>3, ConnUntouched
    <2>2. CASE running' = "yes"
      <3>1. /\ running = "no" /\ signals_' = "pending" /\ pool_ec_' = FALSE
            /\ run /\ connections_' = connections_ + 1 /\ async_run
        BY <1>2, <2>2 DEF HandleRun, pool_run, another_connection
      <3>2. /\ connect = "idle" /\ handshake = "idle" /\ connections_' = 1
            /\ state_ = "handshaking" /\ ~ec_ /\ connect' = "pending"
            /\ UNCHANGED <<state_, sending_state_, tx_queue_, ec_, handshake, rx, tx,
                           close, stream, received, sent>>
        BY <3>1 DEF OneStop, run, Initiate
      <3>3. TypeOK' /\ NoOverlap'
        <4>1. ConnTypeOK' /\ NoOverlap'
          BY <3>2 DEF TypeOK, ConnTypeOK, OpState, NoOverlap
        <4>2. ConTypeOK'
          BY <3>1 DEF TypeOK, ConTypeOK, async_run
        <4>3. connections_' \in 0 .. 1
          BY <3>2
        <4> QED BY <2>2, <3>1, <4>1, <4>2, <4>3, Zenon DEF TypeOK
      <3>4. Phases' /\ OneStop'
        BY <2>2, <3>2 DEF Phases, OneStop
      <3>5. Numbered'
        BY <3>2, NumberingKept
      <3> QED BY <3>3, <3>4, <3>5
    <2> QED BY <1>2, <2>1, <2>2 DEF HandleRun
  <1>3. CASE HandleSignal
    <2>1. running' = running /\ signals_' = "idle"
      BY <1>3 DEF HandleSignal
    <2>2. CASE signals_ = "ok"
      <3>1. handle_stop /\ cancel
        BY <1>3, <2>2 DEF HandleSignal
      <3>2. ConTypeOK'
        BY <3>1 DEF cancel, convars, TypeOK, ConTypeOK
      <3> QED BY <2>1, <3>1, <3>2, HandleStop
    <2>3. CASE signals_ # "ok"
      <3>1. UNCHANGED <<connvars, convars, pool_ec_, connections_>>
        BY <1>3, <2>3 DEF HandleSignal
      <3>2. TypeOK'
        BY <2>1, <3>1, ConnUntouched DEF convars, TypeOK, ConTypeOK
      <3>3. OneStop'
        BY <2>1, <3>1 DEF connvars, opvars, OneStop
      <3> QED BY <3>1, <3>2, <3>3, ConnUntouched
    <2> QED BY <2>2, <2>3
  <1>4. CASE HandleConsole
    <2>1. running' = running /\ complete
      BY <1>4 DEF HandleConsole
    <2>2. ConTypeOK'
      BY <2>1 DEF complete, TypeOK, ConTypeOK
    <2>3. CASE con_ec_'
      <3>1. UNCHANGED <<connvars, appvars>>
        BY <1>4, <2>1, <2>3 DEF HandleConsole, appvars
      <3> QED BY <1>1, <2>2, <3>1
    <2>4. CASE ~con_ec_'
      <3>1. handle_stop /\ signals_' = Abort(signals_)
        BY <1>4, <2>4 DEF HandleConsole
      <3>2. signals_' \in {"idle", "pending", "ok", "err"}
        BY <3>1 DEF Abort, TypeOK
      <3> QED BY <2>1, <2>2, <3>1, <3>2, HandleStop
    <2> QED BY <2>3, <2>4
  <1>5. CASE SignalArrives
    <2>1. /\ UNCHANGED <<connvars, convars, running, pool_ec_, connections_>>
          /\ signals_' = "ok"
      BY <1>5 DEF SignalArrives
    <2>2. TypeOK'
      BY <2>1, ConnUntouched DEF convars, TypeOK, ConTypeOK
    <2>3. OneStop'
      BY <2>1 DEF connvars, opvars, OneStop
    <2> QED BY <2>1, <2>2, <2>3, ConnUntouched
  <1>6. CASE ConnNext /\ UNCHANGED <<convars, appvars>>
    BY <1>6, RxKeepsIInv, TxKeepsIInv, WriteKeepsIInv, ReadKeepsIInv,
       HandshakeKeepsIInv, OpsKeepIInv
    DEF ConnNext
  <1>7. CASE ConNext /\ UNCHANGED <<connvars, appvars>>
    <2>1. ConTypeOK'
      BY <1>7, MaxInputAssumption
      DEF ConNext, ReadNextLine, ReadsOn, Input, ReadUntilReadsOn, TypeOK, ConTypeOK
    <2> QED BY <1>1, <1>7, <2>1
  <1>8. CASE UNCHANGED vars
    <2>1. ConTypeOK' /\ UNCHANGED <<connvars, appvars>>
      BY <1>8 DEF vars, convars, TypeOK, ConTypeOK
    <2> QED BY <1>1, <2>1
  <1> QED
    BY <1>2, <1>3, <1>4, <1>5, <1>6, <1>7, <1>8 DEF Next

\* IInv holds in every reachable state.
LEMMA AlwaysIInv == Spec => []IInv
  <1>1. Init => IInv
    <2> SUFFICES ASSUME Init PROVE IInv
      OBVIOUS
    <2>1. <<>> \in Seq(1 .. MaxRx) /\ 0 \in 0 .. MaxRx /\ 0 \in 0 .. MaxInput
      BY MaxRxAssumption, MaxInputAssumption
    <2>2. TypeOK /\ NoOverlap
      <3>1. ConnTypeOK /\ NoOverlap
        BY <2>1 DEF Init, ConnInit, ConnTypeOK, OpState, NoOverlap
      <3>2. ConTypeOK
        BY <2>1 DEF Init, ConInit, ConTypeOK
      <3>3. connections_ \in 0 .. 1
        BY DEF Init
      <3> QED BY <3>1, <3>2, <3>3, Zenon DEF Init, TypeOK
    <2>3. Phases /\ OneStop
      BY DEF Init, ConnInit, Phases, OneStop
    <2>4. Numbered
      BY DEF Init, ConnInit, Numbered, Handled, Unsent
    <2> QED BY <2>2, <2>3, <2>4 DEF IInv
  <1> QED BY <1>1, NextKeepsIInv, PTL DEF Spec

----------------------------------------------------------------------------
(* What a stop of the pool reaches.                                        *)

\* Until the pool is stopped it has an entry for its client; nothing can stop it
\* before it runs; and the console reads for as long as it holds its operation.
Entered ==
  /\ running # "yes" => ~pool_ec_ /\ signals_ = "idle" /\ ~run_op_
  /\ running = "yes" /\ ~pool_ec_ => connections_ > 0
  /\ run_op_ <=> fdin # "idle"
  /\ fdin = "piece" /\ pool_ec_ => missed

\* What belongs to the client, once the pool has stopped it or found it gone.
Told == ec_ \/ ~Alive

SInv == Entered /\ StopTellsAll

\* A client that was stopped stays so, and one that is gone does not come back.
LEMMA ToldStays ==
  ASSUME IInv, Told, ConnNext
  PROVE  Told'
  <1>1. ec_' = ec_
    BY DEF ConnNext, HandleConnect, HandleHandshake, HandleRx, HandleTx, HandleClose,
           ConnectCompletes, HandshakeCompletes, ReadCompletes, WriteCompletes,
           CloseCompletes, StreamFails, OperationFails
  <1>2. CASE ~Alive
    <2>1. connect = "idle" /\ handshake = "idle" /\ rx = "idle" /\ tx = "idle" /\ close = "idle"
      BY <1>2 DEF Alive
    <2>2. StreamFails
      BY <2>1
      DEF ConnNext, HandleConnect, HandleHandshake, HandleRx, HandleTx, HandleClose,
          ConnectCompletes, HandshakeCompletes, ReadCompletes, WriteCompletes,
          CloseCompletes, OperationFails
    <2> QED BY <1>2, <2>2 DEF StreamFails, opvars, Alive, Told
  <1> QED BY <1>1, <1>2 DEF Told

\* connection_pool::handle_stop tells the client, at the first call or before.
LEMMA HandleStopTells ==
  ASSUME IInv, SInv, handle_stop, running = "yes"
  PROVE  pool_ec_' = TRUE /\ Told'
  <1>1. CASE connections_ > 0 /\ Alive
    BY <1>1 DEF handle_stop, stop, Told
  <1>2. CASE ~(connections_ > 0 /\ Alive)
    <2>1. Told
      BY <1>2 DEF SInv, Entered, StopTellsAll, Told, IInv, TypeOK
    <2> QED BY <1>2, <2>1 DEF handle_stop, connvars, opvars, Told, Alive
  <1> QED BY <1>1, <1>2

\* No step of the client, the console, the pool or the app breaks it.
LEMMA NextKeepsSInv ==
  ASSUME IInv, SInv, [Next]_vars
  PROVE  SInv'
  <1> USE DEF SInv
  <1>1. CASE HandleRun
    <2>1. CASE running' = "bombed"
      BY <1>1, <2>1 DEF HandleRun, convars, Entered, StopTellsAll
    <2>2. CASE running' = "yes"
      <3>1. /\ running = "no" /\ pool_ec_' = FALSE /\ connections_' = connections_ + 1
            /\ connections_ = 0 /\ run_op_' = TRUE /\ fdin' = "pending"
        BY <1>1, <2>2
        DEF HandleRun, pool_run, another_connection, async_run, IInv, OneStop
      <3> QED BY <2>2, <3>1 DEF Entered, StopTellsAll
    <2> QED BY <1>1, <2>1, <2>2 DEF HandleRun
  <1>2. CASE HandleSignal
    <2>1. running' = running /\ signals_' = "idle" /\ running = "yes"
      BY <1>2 DEF HandleSignal, Entered
    <2>2. CASE signals_ = "ok"
      <3>1. pool_ec_' = TRUE /\ Told' /\ cancel
        BY <1>2, <2>1, <2>2, HandleStopTells DEF HandleSignal
      <3>2. CASE run_op_
        BY <2>1, <3>1, <3>2 DEF cancel, Entered, StopTellsAll, Told
      <3>3. CASE ~run_op_
        BY <2>1, <3>1, <3>3 DEF cancel, convars, Entered, StopTellsAll, Told
      <3> QED BY <3>2, <3>3
    <2>3. CASE signals_ # "ok"
      BY <1>2, <2>1, <2>3
      DEF HandleSignal, connvars, opvars, convars, Entered, StopTellsAll, Alive
    <2> QED BY <2>2, <2>3
  <1>3. CASE HandleConsole
    <2>1. /\ running' = running /\ fdin # "idle" /\ fdin' = "idle" /\ run_op_' = FALSE
          /\ running = "yes"
      BY <1>3 DEF HandleConsole, complete, Completes, Entered
    <2>2. CASE con_ec_'
      BY <1>3, <2>1, <2>2
      DEF HandleConsole, connvars, opvars, Entered, StopTellsAll, Alive
    <2>3. CASE ~con_ec_'
      <3>1. pool_ec_' = TRUE /\ Told' /\ signals_' = Abort(signals_)
        BY <1>3, <2>1, <2>3, HandleStopTells DEF HandleConsole
      <3> QED BY <2>1, <3>1 DEF Abort, Entered, StopTellsAll, Told
    <2> QED BY <2>2, <2>3
  <1>4. CASE SignalArrives
    <2>1. running = "yes"
      BY <1>4 DEF SignalArrives, Entered
    <2> QED
      BY <1>4, <2>1
      DEF SignalArrives, connvars, opvars, convars, Entered, StopTellsAll, Alive
  <1>5. CASE ConnNext /\ UNCHANGED <<convars, appvars>>
    <2>1. pool_ec_ => Told'
      BY <1>5, ToldStays DEF StopTellsAll, Told
    <2> QED BY <1>5, <2>1 DEF convars, appvars, Entered, StopTellsAll, Told
  <1>6. CASE ConNext /\ UNCHANGED <<connvars, appvars>>
    <2>1. /\ UNCHANGED <<run_op_, con_ec_, missed, running, pool_ec_, connections_, signals_>>
          /\ UNCHANGED <<ec_, connect, handshake, rx, tx, close>>
      BY <1>6
      DEF ConNext, ReadNextLine, Input, ReadUntilReadsOn, connvars, opvars, appvars
    <2>2. /\ fdin # "idle" /\ fdin' # "idle"
          /\ fdin' = "pending" => fdin = "piece" \/ ~con_ec_
          /\ fdin' = "piece" => fdin = "pending"
      BY <1>6 DEF ConNext, ReadNextLine, ReadsOn, Input, ReadUntilReadsOn
    <2> QED BY <2>1, <2>2 DEF Entered, StopTellsAll, Alive
  <1>7. CASE UNCHANGED vars
    BY <1>7
    DEF vars, connvars, opvars, convars, appvars, Entered, StopTellsAll, Alive
  <1> QED BY <1>1, <1>2, <1>3, <1>4, <1>5, <1>6, <1>7 DEF Next

----------------------------------------------------------------------------
(* Theorems.                                                               *)

\* Client, console, pool and app keep their types.
THEOREM TypeCorrect == Spec => []TypeOK
  <1>1. IInv => TypeOK
    BY DEF IInv
  <1> QED BY <1>1, AlwaysIInv, PTL

\* However SIGINT and "quit" race, each of the client's operations is initiated
\* only while none of its kind is outstanding, async_close included, and the
\* echoes leave in the order the messages came.
THEOREM ClientKeepsContracts == Spec => []ClientContracts
  <1>1. IInv => ClientContracts
    BY DEF IInv, NoOverlap, Numbered, ClientContracts
  <1> QED BY <1>1, AlwaysIInv, PTL

\* A ctrl-c or a quit reaches the client, the signal wait and the console, in
\* whatever order they and what is already completed are handled.
THEOREM StopReachesEverything == Spec => []StopTellsAll
  <1>1. Init => SInv
    BY DEF Init, ConInit, SInv, Entered, StopTellsAll
  <1>2. SInv => StopTellsAll
    BY DEF SInv
  <1> QED BY <1>1, <1>2, AlwaysIInv, NextKeepsSInv, PTL DEF Spec

\* A stopped client neither comes up nor begins a write or a close.
THEOREM StoppedIsQuiet == Spec => QuietAfterStop
  <1> DEFINE Quiet == ec_ => /\ state_' = state_
                             /\ tx' = "pending" => tx = "pending"
                             /\ close' = "pending" => close = "pending"
  <1>1. IInv /\ [Next]_vars => [Quiet]_connvars
    <2> SUFFICES ASSUME IInv, [Next]_vars, ec_, ~UNCHANGED connvars PROVE Quiet
      OBVIOUS
    <2>1. connections_ = 0 /\ running = "yes"
      BY DEF IInv, OneStop
    <2>2. ~handle_stop
      BY <2>1 DEF handle_stop
    <2>3. ConnNext
      BY <2>1, <2>2 DEF Next, HandleRun, HandleSignal, HandleConsole, SignalArrives, vars
    <2>4. CASE HandleHandshake \/ HandleRx \/ HandleTx
      BY <2>4 DEF HandleHandshake, HandleRx, HandleTx, maybe_send_next
    <2>5. CASE HandleConnect \/ HandleClose \/ StreamFails \/ OperationFails
      BY <2>5 DEF HandleConnect, HandleClose, StreamFails, OperationFails, opvars
    <2>6. CASE \/ ConnectCompletes \/ HandshakeCompletes \/ ReadCompletes
               \/ WriteCompletes \/ CloseCompletes
      BY <2>6
      DEF ConnectCompletes, HandshakeCompletes, ReadCompletes, WriteCompletes,
          CloseCompletes
    <2> QED BY <2>3, <2>4, <2>5, <2>6 DEF ConnNext
  <1> QED BY <1>1, AlwaysIInv, PTL DEF Spec, QuietAfterStop
=============================================================================
