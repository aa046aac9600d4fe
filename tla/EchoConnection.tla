--------------------------- MODULE EchoConnection ---------------------------
(***************************************************************************)
(* One server-side connection of pre-cxx20/echo_server: connection_impl.   *)
(*                                                                         *)
(* All handlers run on one io_context thread, so a handler is one step.    *)
(* Between handlers sit the asynchronous operations.  Each is "idle",      *)
(* "pending" (initiated), or completed with its result, "ok" or "err",     *)
(* while its handler waits to be scheduled.  Cancelling or closing fails   *)
(* pending operations only: a completed one keeps its result.  That gap    *)
(* between completion and handler is the "crossing case" that the comment  *)
(* at connection.cpp:63 is about.                                          *)
(*                                                                         *)
(* An assert that fails is recorded in broken and the handler goes on, as  *)
(* with NDEBUG.  A build with asserts has the same behaviours, cut short   *)
(* at the first failure.                                                   *)
(***************************************************************************)
EXTENDS Naturals, Sequences

CONSTANTS Ticks,     \* 5s periods in a session: 30s / 5s = 6 in the code
          MaxRx,     \* bound: messages the peer may send
          Greeting   \* how many messages the server posts on accept: 4

ASSUME TicksAssumption == Ticks \in Nat \ {0}
ASSUME MaxRxAssumption == MaxRx \in Nat
ASSUME GreetingAssumption == Greeting \in Nat

VARIABLES
  state_, sending_state_, tx_queue_, time_remaining_,
  ec_,       \* TRUE: ec_ holds operation_aborted
  accept, rx, tx, close, timer,   \* the operations
  stream,    \* stream_ and the socket under it, as its operations see it
  txbuf,     \* the message the buffer given to async_write refers to
  posted,    \* history: every message ever pushed to tx_queue_
  sent,      \* history: messages async_write has sent
  received,  \* how many messages async_read has delivered
  broken     \* asserts and stream_ contracts that were violated

vars == <<state_, sending_state_, tx_queue_, time_remaining_, ec_, accept, rx,
          tx, close, timer, stream, txbuf, posted, sent, received, broken>>

\* A message is told by where it comes from: the n-th line of the greeting, the
\* echo of the n-th message received, or "n periods of 5s remaining".
Welcome(n) == <<"welcome", n>>
Echo(n) == <<"echo", n>>
Tick(n) == <<"tick", n>>
Message == {"welcome", "echo", "tick"} \X (0 .. Ticks + MaxRx + Greeting)

NoMessage == <<"none", 0>>

OpState == {"idle", "pending", "ok", "err", "overlap"}
\* Initiating an operation whose slot op is taken breaks the contract of the
\* object it runs on: at most one read, write, close and wait at a time.
Initiate(op) == IF op = "idle" THEN "pending" ELSE "overlap"
\* Cancelling or closing: only a pending operation fails.
Abort(op) == IF op = "pending" THEN "err" ELSE op

\* "new": no run() yet; "handshake"/"open": the transport works; "failed": it
\* was reset, closed by the peer, closed by us, or the handshake was refused.
StreamState == {"new", "handshake", "open", "failed"}

Asserts == {"rx_state", "rx_ec", "time"}
Unless(holds, assertion) == IF holds THEN {} ELSE {assertion}

\* No operation holds a shared_ptr to the connection any more.
Outstanding == {accept, rx, tx, close, timer} # {"idle"}
Released == stream # "new" /\ ~Outstanding

Init ==
  /\ state_ = "handshaking" /\ sending_state_ = "send_idle"
  /\ tx_queue_ = <<>> /\ time_remaining_ = Ticks /\ ec_ = FALSE
  /\ accept = "idle" /\ rx = "idle" /\ tx = "idle"
  /\ close = "idle" /\ timer = "idle"
  /\ stream = "new" /\ txbuf = NoMessage
  /\ posted = <<>> /\ sent = <<>> /\ received = 0 /\ broken = {}

----------------------------------------------------------------------------
(* The private member functions, as parts of the handlers below.           *)

\* initiate_rx, in the state the caller has set up.
initiate_rx(state, slot) ==
  /\ rx' = Initiate(slot)
  /\ broken' = broken \cup Unless(state = "chatting", "rx_state")
                      \cup Unless(~ec_, "rx_ec")

\* initiate_tx on a queue whose front is msg.
initiate_tx(msg, slot) ==
  /\ sending_state_' = "sending"
  /\ tx' = Initiate(slot)
  /\ txbuf' = msg

\* Mutant: only checks that no write runs and that there is one to begin.
maybe_send_next_unguarded(state, sending, queue, slot) ==
  IF sending = "sending" \/ queue = <<>>
  THEN /\ sending_state_' = sending
       /\ tx' = slot
       /\ UNCHANGED txbuf
  ELSE initiate_tx(Head(queue), slot)

maybe_send_next(state, sending, queue, slot) ==
  IF ec_ \/ state # "chatting" \/ sending = "sending" \/ queue = <<>>
  THEN /\ sending_state_' = sending
       /\ tx' = slot
       /\ UNCHANGED txbuf
  ELSE initiate_tx(Head(queue), slot)

\* Mutant: the message jumps the queue.
handle_send_front(msg) ==
  /\ tx_queue_' = <<msg>> \o tx_queue_
  /\ posted' = Append(posted, msg)
  /\ maybe_send_next(state_, sending_state_, tx_queue_', tx)

\* send() and handle_send.  dispatch() runs it on the spot.
handle_send(msg) ==
  /\ tx_queue_' = Append(tx_queue_, msg)
  /\ posted' = Append(posted, msg)
  /\ maybe_send_next(state_, sending_state_, tx_queue_', tx)

\* min(time_remaining_, 5s) is one period, or nothing when no time is left.
initiate_timer(slot) ==
  /\ broken' = broken \cup Unless(time_remaining_ # 0, "time")
  /\ time_remaining_' = IF time_remaining_ = 0 THEN 0 ELSE time_remaining_ - 1
  /\ timer' = Initiate(slot)

\* Mutant: forgets to move to the closing state.
handle_stop_no_state(slot) ==
  /\ ec_' = TRUE
  /\ timer' = Abort(slot)
  /\ IF state_ = "handshaking"
     THEN accept' = Abort(accept) /\ stream' = "failed"
     ELSE UNCHANGED <<accept, stream>>
  /\ close' = IF state_ = "chatting" THEN Initiate(close) ELSE close
  /\ UNCHANGED state_

\* Mutant: leaves the socket of a handshake open.
handle_stop_no_close(slot) ==
  /\ ec_' = TRUE
  /\ timer' = Abort(slot)
  /\ UNCHANGED <<accept, stream>>
  /\ close' = IF state_ = "chatting" THEN Initiate(close) ELSE close
  /\ state_' = "closing"

\* handle_stop.  close(ec) on the socket fails the handshake that runs on it;
\* async_close leaves the stream open until the peer answers.
handle_stop(slot) ==
  /\ ec_' = TRUE
  /\ timer' = Abort(slot)
  /\ IF state_ = "handshaking"
     THEN accept' = Abort(accept) /\ stream' = "failed"
     ELSE UNCHANGED <<accept, stream>>
  /\ close' = IF state_ = "chatting" THEN Initiate(close) ELSE close
  /\ state_' = "closing"

----------------------------------------------------------------------------
(* The handlers.                                                           *)

\* run() and the greeting: server::handle_accept calls both in one handler, and
\* dispatch() runs them on the spot.
Run ==
  /\ stream = "new" /\ stream' = "handshake"
  /\ accept' = Initiate(accept)
  /\ initiate_timer(timer)
  /\ tx_queue_' = [n \in 1 .. Greeting |-> Welcome(n)]
  /\ posted' = tx_queue_'
  /\ UNCHANGED <<state_, sending_state_, ec_, rx, tx, close, txbuf, sent,
                 received>>

\* Mutant: ignores that we have been stopped.
HandleAccept_no_ec ==
  /\ accept \in {"ok", "err"} /\ accept' = "idle"
  /\ IF accept = "err"
     THEN UNCHANGED <<state_, sending_state_, rx, tx, txbuf, broken>>
     ELSE /\ state_' = "chatting"
          /\ initiate_rx("chatting", rx)
          /\ maybe_send_next("chatting", sending_state_, tx_queue_, tx)
  /\ UNCHANGED <<tx_queue_, time_remaining_, ec_, close, timer, stream, posted,
                 sent, received>>

\* Mutant: a refused handshake cancels the timer.
HandleAccept_cancels ==
  /\ accept \in {"ok", "err"} /\ accept' = "idle"
  /\ IF ec_ \/ accept = "err"
     THEN /\ timer' = Abort(timer)
          /\ UNCHANGED <<state_, sending_state_, rx, tx, txbuf, broken>>
     ELSE /\ state_' = "chatting"
          /\ initiate_rx("chatting", rx)
          /\ maybe_send_next("chatting", sending_state_, tx_queue_, tx)
          /\ UNCHANGED timer
  /\ UNCHANGED <<tx_queue_, time_remaining_, ec_, close, stream, posted, sent,
                 received>>

HandleAccept ==
  /\ accept \in {"ok", "err"} /\ accept' = "idle"
  /\ IF ec_ \/ accept = "err"
     THEN UNCHANGED <<state_, sending_state_, rx, tx, txbuf, broken>>
     ELSE /\ state_' = "chatting"
          /\ initiate_rx("chatting", rx)
          /\ maybe_send_next("chatting", sending_state_, tx_queue_, tx)
  /\ UNCHANGED <<tx_queue_, time_remaining_, ec_, close, timer, stream, posted,
                 sent, received>>

\* Mutant: drops the messages that wait to be sent.
Stop_clears ==
  /\ stream # "new" /\ Outstanding
  /\ handle_stop(timer)
  /\ tx_queue_' = <<>>
  /\ UNCHANGED <<sending_state_, time_remaining_, rx, tx, txbuf, posted, sent,
                 received, broken>>

\* stop(), called by server::handle_stop through a weak_ptr: only while the
\* connection exists.
Stop ==
  /\ stream # "new" /\ Outstanding
  /\ handle_stop(timer)
  /\ UNCHANGED <<sending_state_, tx_queue_, time_remaining_, rx, tx, txbuf,
                 posted, sent, received, broken>>

HandleRx ==
  /\ rx \in {"ok", "err"}
  /\ IF rx = "err"
     THEN /\ rx' = "idle"
          /\ UNCHANGED <<sending_state_, tx_queue_, tx, txbuf, posted, broken>>
     ELSE /\ initiate_rx(state_, "idle")
          /\ handle_send(Echo(received))
  /\ UNCHANGED <<state_, time_remaining_, ec_, accept, close, timer, stream,
                 sent, received>>

\* Mutant: pops the message whether or not it was sent.
HandleTx_pops ==
  /\ tx \in {"ok", "err"}
  /\ tx_queue_' = Tail(tx_queue_)
  /\ IF tx = "err"
     THEN tx' = "idle" /\ UNCHANGED <<sending_state_, txbuf>>
     ELSE maybe_send_next(state_, "send_idle", tx_queue_', "idle")
  /\ UNCHANGED <<state_, time_remaining_, ec_, accept, rx, close, timer, stream,
                 posted, sent, received, broken>>

\* Mutant: tries again after an error.
HandleTx_retries ==
  /\ tx \in {"ok", "err"}
  /\ tx_queue_' = IF tx = "err" THEN tx_queue_ ELSE Tail(tx_queue_)
  /\ maybe_send_next(state_, "send_idle", tx_queue_', "idle")
  /\ UNCHANGED <<state_, time_remaining_, ec_, accept, rx, close, timer, stream,
                 posted, sent, received, broken>>

\* After an error sending_state_ stays "sending" and the message stays queued.
HandleTx ==
  /\ tx \in {"ok", "err"}
  /\ IF tx = "err"
     THEN /\ tx' = "idle"
          /\ UNCHANGED <<sending_state_, tx_queue_, txbuf>>
     ELSE /\ tx_queue_' = Tail(tx_queue_)
          /\ maybe_send_next(state_, "send_idle", tx_queue_', "idle")
  /\ UNCHANGED <<state_, time_remaining_, ec_, accept, rx, close, timer, stream,
                 posted, sent, received, broken>>

\* The wait's handler calls handle_timer only if the wait was not cancelled.
HandleTimer ==
  /\ timer \in {"ok", "err"}
  /\ \/ /\ timer = "err" \/ ec_
        /\ timer' = "idle"
        /\ UNCHANGED <<state_, sending_state_, tx_queue_, time_remaining_, ec_,
                       accept, tx, close, stream, txbuf, posted, broken>>
     \/ /\ timer = "ok" /\ ~ec_ /\ time_remaining_ # 0
        /\ handle_send(Tick(time_remaining_))
        /\ initiate_timer("idle")
        /\ UNCHANGED <<state_, ec_, accept, close, stream>>
     \/ /\ timer = "ok" /\ ~ec_ /\ time_remaining_ = 0
        /\ handle_stop("idle")
        /\ UNCHANGED <<sending_state_, tx_queue_, time_remaining_, tx, txbuf,
                       posted, broken>>
  /\ UNCHANGED <<rx, sent, received>>

HandleClose ==
  /\ close \in {"ok", "err"} /\ close' = "idle"
  /\ UNCHANGED <<state_, sending_state_, tx_queue_, time_remaining_, ec_, accept,
                 rx, tx, timer, stream, txbuf, posted, sent, received, broken>>

----------------------------------------------------------------------------
(* The peer, the network and the clock, as Beast and Asio report them.     *)

\* The handshake ends well, or the peer is gone or sent something else.
AcceptCompletes ==
  /\ accept = "pending"
  /\ \/ accept' = "ok" /\ stream' = "open"
     \/ accept' = "err" /\ stream' = "failed"
  /\ UNCHANGED <<state_, sending_state_, tx_queue_, time_remaining_, ec_, rx, tx,
                 close, timer, txbuf, posted, sent, received, broken>>

\* A whole message arrived.  It may still come after our close frame is sent.
ReadCompletes ==
  /\ rx = "pending" /\ rx' = "ok"
  /\ stream = "open" /\ received < MaxRx
  /\ received' = received + 1
  /\ UNCHANGED <<state_, sending_state_, tx_queue_, time_remaining_, ec_, accept,
                 tx, close, timer, stream, txbuf, posted, sent, broken>>

WriteCompletes ==
  /\ tx = "pending" /\ tx' = "ok"
  /\ stream = "open"
  /\ sent' = Append(sent, txbuf)
  /\ UNCHANGED <<state_, sending_state_, tx_queue_, time_remaining_, ec_, accept,
                 rx, close, timer, stream, txbuf, posted, received, broken>>

\* The close frame waits for a write in progress; then the peer answers it.
CloseCompletes ==
  /\ close = "pending" /\ close' = "ok"
  /\ tx # "pending"
  /\ stream = "open" /\ stream' = "failed"
  /\ UNCHANGED <<state_, sending_state_, tx_queue_, time_remaining_, ec_, accept,
                 rx, tx, timer, txbuf, posted, sent, received, broken>>

\* The peer closes the websocket, or the transport breaks.
StreamFails ==
  /\ stream = "open" /\ stream' = "failed"
  /\ UNCHANGED <<state_, sending_state_, tx_queue_, time_remaining_, ec_, accept,
                 rx, tx, close, timer, txbuf, posted, sent, received, broken>>

\* Operations on a failed stream fail, each in its own time.
ReadFails ==
  /\ stream = "failed" /\ rx = "pending" /\ rx' = "err"
  /\ UNCHANGED <<state_, sending_state_, tx_queue_, time_remaining_, ec_, accept,
                 tx, close, timer, stream, txbuf, posted, sent, received, broken>>

WriteFails ==
  /\ stream = "failed" /\ tx = "pending" /\ tx' = "err"
  /\ UNCHANGED <<state_, sending_state_, tx_queue_, time_remaining_, ec_, accept,
                 rx, close, timer, stream, txbuf, posted, sent, received, broken>>

CloseFails ==
  /\ stream = "failed" /\ close = "pending" /\ close' = "err"
  /\ UNCHANGED <<state_, sending_state_, tx_queue_, time_remaining_, ec_, accept,
                 rx, tx, timer, stream, txbuf, posted, sent, received, broken>>

TimerExpires ==
  /\ timer = "pending" /\ timer' = "ok"
  /\ UNCHANGED <<state_, sending_state_, tx_queue_, time_remaining_, ec_, accept,
                 rx, tx, close, stream, txbuf, posted, sent, received, broken>>

----------------------------------------------------------------------------

Next ==
  \/ Run
  \/ HandleAccept \/ HandleRx \/ HandleTx \/ HandleTimer \/ HandleClose
  \/ Stop
  \/ AcceptCompletes \/ ReadCompletes \/ WriteCompletes \/ CloseCompletes
  \/ StreamFails \/ ReadFails \/ WriteFails \/ CloseFails
  \/ TimerExpires

\* A handler that is ready is run, the clock advances, and an operation on a
\* failed stream ends.  This much the io_context guarantees.
LoopFairness ==
  /\ WF_vars(HandleAccept) /\ WF_vars(HandleRx)
  /\ WF_vars(HandleTx) /\ WF_vars(HandleTimer)
  /\ WF_vars(HandleClose)
  /\ WF_vars(ReadFails) /\ WF_vars(WriteFails) /\ WF_vars(CloseFails)
  /\ WF_vars(TimerExpires)

\* A peer that has finished the handshake reads what it is sent and answers a
\* close frame, or its transport breaks.  Nothing in the code enforces this:
\* the stream has no websocket timeout set.
PeerFairness == WF_vars(WriteCompletes \/ CloseCompletes)

Spec == Init /\ [][Next]_vars
FairSpec == Spec /\ LoopFairness /\ PeerFairness

----------------------------------------------------------------------------
(* Properties.                                                             *)

TypeOK ==
  /\ state_ \in {"handshaking", "chatting", "closing"}
  /\ sending_state_ \in {"send_idle", "sending"}
  /\ tx_queue_ \in Seq(Message)
  /\ time_remaining_ \in 0 .. Ticks
  /\ ec_ \in BOOLEAN
  /\ {accept, rx, tx, close, timer} \subseteq OpState
  /\ stream \in StreamState
  /\ txbuf \in Message \cup {NoMessage}
  /\ posted \in Seq(Message)
  /\ sent \in Seq(Message)
  /\ received \in 0 .. MaxRx
  /\ broken \subseteq Asserts

\* No operation is initiated while its predecessor of the same kind is still
\* outstanding: Beast and Asio allow one read, one write, one close and one wait
\* at a time (connection.cpp:77, 94, 156, 186).  And whenever initiate_timer is
\* called there is time left (connection.cpp:182).
ContractsKept ==
  /\ "overlap" \notin {accept, rx, tx, close, timer}
  /\ "time" \notin broken

\* What has been sent followed by what is queued is everything ever posted:
\* handle_send, initiate_tx and handle_tx lose, repeat and reorder nothing,
\* whatever stops or fails (connection.cpp:132-177).
Unsent == IF tx = "ok" THEN Tail(tx_queue_) ELSE tx_queue_
QueueIsUnsentSuffix == sent \o Unsent = posted

\* While async_write runs, the queue's front is still the message whose memory
\* it was given (connection.hpp:70, connection.cpp:157).
BufferStable == tx \in {"pending", "ok"} => tx_queue_ # <<>> /\ txbuf = Head(tx_queue_)

\* A handshake that completes while we are being stopped does not bring the
\* session up: the crossing case of connection.cpp:63.
NoChatAfterStop == ec_ => state_ = "closing"

\* Until it is stopped a session always has its timer running, whatever failed,
\* so that it ends within 30s; hence it is not released before it is stopped.
DeadlineArmed == stream # "new" /\ ~ec_ => timer \in {"pending", "ok"}

\* Once stopped, a session begins no write, no wait and no close, even if their
\* predecessors completed before the stop (connection.cpp:142, 196).
QuietAfterStop ==
  [][ec_ => /\ tx' = "pending" => tx = "pending"
            /\ timer' = "pending" => timer = "pending"
            /\ close' = "pending" => close = "pending"]_vars

\* A write has failed: its handler is to run, or has left sending_state_ as it was.
WriteFailed == tx = "err" \/ (sending_state_ = "sending" /\ tx = "idle")

\* After a failed write nothing is written any more, whatever is queued or read:
\* a frame may be half sent, so another one would corrupt the stream
\* (connection.cpp:166).
FrozenAfterFailedWrite ==
  [][WriteFailed => WriteFailed' /\ UNCHANGED <<sending_state_, sent>>]_vars

\* The asserts of initiate_rx: "assert(state_ == chatting)" and "assert(!ec_)"
\* (connection.cpp:92).
RxAssertsHold == broken \cap {"rx_state", "rx_ec"} = {}

\* Every session that was started is released: no operation keeps the
\* connection alive for ever, even if the peer never completes the handshake.
SessionEnds == stream # "new" ~> Released

\* Where the session is in the life that Session describes.
Phase ==
  IF stream = "new" THEN "new"
  ELSE IF ~Outstanding THEN "gone"
  ELSE IF ec_ THEN "stopping"
  ELSE IF state_ = "chatting" THEN "open" ELSE "handshake"

Abstract == INSTANCE Session WITH
  phase <- Phase,
  outbox <- posted,
  delivered <- sent,
  grace <- (ec_ => tx = "pending")

\* Seen from outside, the connection is a Session: greeting, echoes and time
\* announcements leave in the order they were posted, nothing leaves before the
\* handshake, and at most the message in flight leaves after a stop.
Implements == Abstract!SSpec
=============================================================================
