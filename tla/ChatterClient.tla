--------------------------- MODULE ChatterClient ---------------------------
(***************************************************************************)
(* pre-cxx20/chatterbox: connection_impl, a client that connects,          *)
(* handshakes, and echoes what it reads.  One io_context thread: a handler *)
(* is one step, and what it dispatches runs within it.                     *)
(*                                                                         *)
(* An operation is "idle", "pending", or completed ("ok", "err") with its  *)
(* handler still to run.  cancel() and a failed stream fail pending        *)
(* operations only.                                                        *)
(***************************************************************************)
EXTENDS Naturals, Sequences

CONSTANT MaxRx   \* bound: messages the server may send

ASSUME MaxRxAssumption == MaxRx \in Nat

VARIABLES
  state_, sending_state_,
  tx_queue_,   \* echoes to send: message n is the n-th that was read
  ec_,         \* TRUE: ec_ holds operation_aborted
  connect, handshake, rx, tx, close,   \* the operations
  stream,      \* as its operations see it: "new", "open" or "failed"
  received,    \* how many messages async_read has delivered
  sent         \* history: messages async_write has sent

opvars == <<connect, handshake, rx, tx, close>>
connvars == <<state_, sending_state_, tx_queue_, ec_, opvars, stream, received, sent>>

OpState == {"idle", "pending", "ok", "err", "overlap"}
\* Beast allows one read, one write and one close at a time.
Initiate(op) == IF op = "idle" THEN "pending" ELSE "overlap"
Abort(op) == IF op = "pending" THEN "err" ELSE op

\* Every handler holds a shared_ptr to the connection; the pool does not.
Alive == {connect, handshake, rx, tx, close} # {"idle"}

ConnInit ==
  /\ state_ = "handshaking" /\ sending_state_ = "send_idle"
  /\ tx_queue_ = <<>> /\ ec_ = FALSE
  /\ connect = "idle" /\ handshake = "idle"
  /\ rx = "idle" /\ tx = "idle" /\ close = "idle"
  /\ stream = "new" /\ received = 0 /\ sent = <<>>

----------------------------------------------------------------------------
(* connection_impl's interface, called by the pool.                        *)

\* run() and handle_run.
run ==
  /\ connect' = Initiate(connect)
  /\ UNCHANGED <<state_, sending_state_, tx_queue_, ec_, handshake, rx, tx, close,
                 stream, received, sent>>

\* stop() and handle_stop.  A handshake is several reads and writes: a cancel
\* that falls between two of them is lost.
stop ==
  /\ ec_' = TRUE
  /\ IF state_ = "chatting"
     THEN close' = Initiate(close) /\ UNCHANGED <<connect, handshake>>
     ELSE /\ connect' = Abort(connect)
          /\ handshake' \in {handshake, Abort(handshake)}
          /\ UNCHANGED close
  /\ UNCHANGED <<state_, sending_state_, tx_queue_, rx, tx, stream, received, sent>>

----------------------------------------------------------------------------
(* The handlers.                                                           *)

\* maybe_send_next and initiate_tx, in the state the caller has set up.
maybe_send_next(state, sending, queue, slot) ==
  IF ec_ \/ state # "chatting" \/ sending = "sending" \/ queue = <<>>
  THEN sending_state_' = sending /\ tx' = slot
  ELSE sending_state_' = "sending" /\ tx' = Initiate(slot)

\* Does not look at ec_: a connect that crosses a stop goes on to the handshake.
HandleConnect ==
  /\ connect \in {"ok", "err"} /\ connect' = "idle"
  /\ handshake' = IF connect = "ok" THEN Initiate(handshake) ELSE handshake
  /\ UNCHANGED <<state_, sending_state_, tx_queue_, ec_, rx, tx, close, stream,
                 received, sent>>

\* Mutant: ignores that we have been stopped.
HandleHandshake_no_ec ==
  /\ handshake \in {"ok", "err"} /\ handshake' = "idle"
  /\ IF handshake = "err"
     THEN UNCHANGED <<state_, rx, sending_state_, tx>>
     ELSE /\ state_' = "chatting"
          /\ rx' = Initiate(rx)
          /\ maybe_send_next("chatting", sending_state_, tx_queue_, tx)
  /\ UNCHANGED <<tx_queue_, ec_, connect, close, stream, received, sent>>

HandleHandshake ==
  /\ handshake \in {"ok", "err"} /\ handshake' = "idle"
  /\ IF ec_ \/ handshake = "err"
     THEN UNCHANGED <<state_, rx, sending_state_, tx>>
     ELSE /\ state_' = "chatting"
          /\ rx' = Initiate(rx)
          /\ maybe_send_next("chatting", sending_state_, tx_queue_, tx)
  /\ UNCHANGED <<tx_queue_, ec_, connect, close, stream, received, sent>>

\* handle_rx, initiate_rx and send.  The reader goes on after a stop, until the
\* stream fails; what the asserts of initiate_rx say of that is RxAssertsHold.
HandleRx ==
  /\ rx \in {"ok", "err"}
  /\ IF rx = "err"
     THEN rx' = "idle" /\ UNCHANGED <<tx_queue_, sending_state_, tx>>
     ELSE /\ rx' = Initiate("idle")
          /\ tx_queue_' = Append(tx_queue_, received)
          /\ maybe_send_next(state_, sending_state_, tx_queue_', tx)
  /\ UNCHANGED <<state_, ec_, connect, handshake, close, stream, received, sent>>

\* After an error sending_state_ stays "sending" and the message stays queued.
HandleTx ==
  /\ tx \in {"ok", "err"}
  /\ IF tx = "err"
     THEN tx' = "idle" /\ UNCHANGED <<tx_queue_, sending_state_>>
     ELSE /\ tx_queue_' = Tail(tx_queue_)
          /\ maybe_send_next(state_, "send_idle", tx_queue_', "idle")
  /\ UNCHANGED <<state_, ec_, connect, handshake, rx, close, stream, received, sent>>

HandleClose ==
  /\ close \in {"ok", "err"} /\ close' = "idle"
  /\ UNCHANGED <<state_, sending_state_, tx_queue_, ec_, connect, handshake, rx, tx,
                 stream, received, sent>>

----------------------------------------------------------------------------
(* The server and the network, as Asio and Beast report them.              *)

\* The connect, or the handshake, is over.
ConnectCompletes ==
  /\ connect = "pending" /\ connect' \in {"ok", "err"}
  /\ UNCHANGED <<state_, sending_state_, tx_queue_, ec_, handshake, rx, tx, close,
                 stream, received, sent>>

HandshakeCompletes ==
  /\ handshake = "pending"
  /\ \/ handshake' = "ok" /\ stream' = "open"
     \/ handshake' = "err" /\ stream' = "failed"
  /\ UNCHANGED <<state_, sending_state_, tx_queue_, ec_, connect, rx, tx, close,
                 received, sent>>

\* A message may still come after our close frame was sent.
ReadCompletes ==
  /\ rx = "pending" /\ stream = "open" /\ received < MaxRx
  /\ rx' = "ok" /\ received' = received + 1
  /\ UNCHANGED <<state_, sending_state_, tx_queue_, ec_, connect, handshake, tx,
                 close, stream, sent>>

\* The buffer given to async_write is the queue's front, and still is.
WriteCompletes ==
  /\ tx = "pending" /\ stream = "open"
  /\ tx' = "ok" /\ sent' = Append(sent, Head(tx_queue_))
  /\ UNCHANGED <<state_, sending_state_, tx_queue_, ec_, connect, handshake, rx,
                 close, stream, received>>

\* The close frame waits for a write in progress; then the server answers it.
CloseCompletes ==
  /\ close = "pending" /\ tx # "pending" /\ stream = "open"
  /\ close' = "ok" /\ stream' = "failed"
  /\ UNCHANGED <<state_, sending_state_, tx_queue_, ec_, connect, handshake, rx, tx,
                 received, sent>>

\* The server closes the websocket, or the transport breaks.
StreamFails ==
  /\ stream = "open" /\ stream' = "failed"
  /\ UNCHANGED <<state_, sending_state_, tx_queue_, ec_, opvars, received, sent>>

\* Operations on a failed stream fail, each in its own time.
OperationFails ==
  /\ stream = "failed"
  /\ \/ rx = "pending" /\ rx' = "err" /\ UNCHANGED <<tx, close>>
     \/ tx = "pending" /\ tx' = "err" /\ UNCHANGED <<rx, close>>
     \/ close = "pending" /\ close' = "err" /\ UNCHANGED <<rx, tx>>
  /\ UNCHANGED <<state_, sending_state_, tx_queue_, ec_, connect, handshake, stream,
                 received, sent>>

----------------------------------------------------------------------------

ConnNext ==
  \/ HandleConnect \/ HandleHandshake \/ HandleRx \/ HandleTx \/ HandleClose
  \/ ConnectCompletes \/ HandshakeCompletes
  \/ ReadCompletes \/ WriteCompletes \/ CloseCompletes
  \/ StreamFails \/ OperationFails

\* What has completed is handled.  The server answers a connect, a handshake and
\* a close and reads what it is sent, or its transport breaks: the code sets no
\* timeout that would enforce it.
ConnFairness ==
  /\ WF_connvars(HandleConnect) /\ WF_connvars(HandleHandshake)
  /\ WF_connvars(HandleRx) /\ WF_connvars(HandleTx) /\ WF_connvars(HandleClose)
  /\ WF_connvars(ConnectCompletes) /\ WF_connvars(HandshakeCompletes)
  /\ WF_connvars(WriteCompletes \/ CloseCompletes) /\ WF_connvars(OperationFails)

----------------------------------------------------------------------------
(* Properties.                                                             *)

ConnTypeOK ==
  /\ state_ \in {"handshaking", "chatting"}
  /\ sending_state_ \in {"send_idle", "sending"}
  /\ tx_queue_ \in Seq(1 .. MaxRx)
  /\ ec_ \in BOOLEAN
  /\ {connect, handshake, rx, tx, close} \subseteq OpState
  /\ stream \in {"new", "open", "failed"}
  /\ received \in 0 .. MaxRx /\ sent \in Seq(1 .. MaxRx)

\* Whoever stops the client, and however often (the signal handler and the "quit"
\* command may both get to connection_pool::handle_stop), no operation is initiated
\* over one of its kind; above all async_close is called once
\* (connection.cpp:90, connection_pool.cpp:64).  And the echoes leave in the order
\* the messages came, none twice (connection.cpp:130-163).
ClientContracts ==
  /\ "overlap" \notin {connect, handshake, rx, tx, close}
  /\ \A n \in DOMAIN sent : sent[n] = n

\* Whenever initiate_rx begins a read its two asserts hold: the client chats and
\* has not been stopped (connection.cpp:98-99).
RxAssertsHold ==
  [][rx' = "pending" /\ rx # "pending" => state_' = "chatting" /\ ~ec_']_connvars

\* Once stopped, the client neither comes up nor begins to write, even if its
\* handshake, or the write before, completed before the stop and is handled after
\* it: "the crossing case" of connection.cpp:85.
QuietAfterStop ==
  [][ec_ => /\ state_' = state_
            /\ tx' = "pending" => tx = "pending"
            /\ close' = "pending" => close = "pending"]_connvars
=============================================================================
