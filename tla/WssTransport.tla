---------------------------- MODULE WssTransport ----------------------------
(***************************************************************************)
(* blog-2020-09: wss_transport with the overrides of fmex_connection, a    *)
(* websocket client that connects, subscribes when greeted, and keeps the  *)
(* connection alive with one ping at a time.                               *)
(*                                                                         *)
(* One io_context thread, so a handler is one step.  An operation is       *)
(* "idle", "pending", or completed, "ok" or "err", with its handler about  *)
(* to run; a completed read holds the kind of frame instead of "ok".       *)
(***************************************************************************)
EXTENDS Naturals, Sequences, FiniteSets

CONSTANTS MaxFrames,   \* bound: frames the peer sends of its own accord
          MaxPings     \* bound: pings the client sends

ASSUME WssAssumption == MaxFrames \in Nat /\ MaxPings \in Nat

VARIABLES
  state_, send_state_, send_queue_, ping_state_,
  stage,        \* what connect_op waits for
  conn, read, write, ping_timer_,   \* the operations
  peer,         \* "up", or "down" for good
  frames,       \* frames the peer has sent of its own accord
  owed,         \* pings that have reached the peer and have no answer yet
  accepted,     \* history: frames send_text_frame has queued
  sent,         \* history: frames async_write has sent
  completions,  \* calls of the handler given to initiate_connect
  errors        \* calls of on_transport_error

wssvars == <<state_, send_state_, send_queue_, ping_state_, stage, conn, read,
             write, ping_timer_, peer, frames, owed, accepted, sent,
             completions, errors>>

Count(f, seq) == Cardinality({i \in DOMAIN seq : seq[i] = f})

Stages == <<"resolve", "connect", "ssl", "ws">>
Kind == {"hello", "tick", "binary", "bad"}

WssInit ==
  /\ state_ = "not_started" /\ send_state_ = "not_sending"
  /\ send_queue_ = <<>> /\ ping_state_ = "ping_not_started"
  /\ stage = 0 /\ conn = "idle" /\ read = "idle" /\ write = "idle"
  /\ ping_timer_ = "idle" /\ peer = "up" /\ frames = 0 /\ owed = 0
  /\ accepted = <<>> /\ sent = <<>> /\ completions = 0 /\ errors = 0

----------------------------------------------------------------------------
(* The member functions, as parts of the handlers below.                   *)

\* start(), on_start() and initiate_connect(): asks for the first stage.
StartConnection ==
  /\ state_ = "not_started" /\ state_' = "connecting"
  /\ stage' = 1 /\ conn' = "pending"
  /\ UNCHANGED <<send_state_, send_queue_, ping_state_, read, write,
                 ping_timer_, peer, frames, owed, accepted, sent,
                 completions, errors>>

\* Mutant: tells the derived class of every error.
event_transport_error_always ==
  state_' = "finished" /\ errors' = errors + 1

event_transport_error ==
  IF state_ \in {"connecting", "connected", "closing"}
  THEN state_' = "finished" /\ errors' = errors + 1
  ELSE UNCHANGED <<state_, errors>>

start_sending(state, sending, queue) ==
  IF state = "connected" /\ sending = "not_sending" /\ queue # <<>>
  THEN send_state_' = "sending" /\ write' = "pending"
  ELSE send_state_' = sending /\ write' = IF sending = "sending" THEN write ELSE "idle"

start_reading(state) ==
  read' = IF state = "connected" THEN "pending" ELSE "idle"

\* Mutant: the new frame is put first.
send_text_frame_front(f) ==
  IF state_ # "connected"
  THEN UNCHANGED <<send_queue_, accepted, send_state_, write>>
  ELSE /\ send_queue_' = <<f>> \o send_queue_
       /\ accepted' = Append(accepted, f)
       /\ start_sending(state_, send_state_, send_queue_')

send_text_frame(f) ==
  IF state_ # "connected"
  THEN UNCHANGED <<send_queue_, accepted, send_state_, write>>
  ELSE /\ send_queue_' = Append(send_queue_, f)
       /\ accepted' = Append(accepted, f)
       /\ start_sending(state_, send_state_, send_queue_')

\* expires_after cancels a wait that has not expired.  A wait whose handler is
\* already queued stays, and the new wait joins it ("double").
ping_enter_wait ==
  /\ ping_state_' = "ping_wait"
  /\ ping_timer_' = IF ping_timer_ \in {"idle", "pending"} THEN "pending" ELSE "double"

----------------------------------------------------------------------------
(* connect_op: operator() runs once per completed stage.  On an error it   *)
(* completes and, for want of a return, goes on to the next stage; the     *)
(* last stage completes once more with its own result.                     *)

\* Every stage after a failed one fails: there is nothing to connect to, or
\* no connection, or no TLS session to speak over.
Doomed == completions > 0

\* The handler of initiate_connect with an error; n completions of connect_op.
FailConnect(n) ==
  /\ completions' = completions + n
  /\ event_transport_error
  /\ UNCHANGED <<read, write, send_state_, ping_timer_, ping_state_>>

\* event_transport_up and fmex_connection::on_transport_up.
event_transport_up ==
  /\ completions' = completions + 1
  /\ state_' = "connected"
  /\ ping_enter_wait
  /\ start_sending("connected", send_state_, send_queue_)
  /\ start_reading("connected")
  /\ UNCHANGED errors

NextStage ==
  /\ conn \in {"ok", "err"} /\ stage < Len(Stages)
  /\ stage' = stage + 1 /\ conn' = "pending"
  /\ IF conn = "err" THEN FailConnect(1)
     ELSE UNCHANGED <<completions, state_, errors, read, write, send_state_,
                      ping_timer_, ping_state_>>
  /\ UNCHANGED <<send_queue_, peer, frames, owed, accepted, sent>>

\* The server name cannot be set, after a connect that worked or not.
SniFails ==
  /\ conn \in {"ok", "err"} /\ Stages[stage] = "connect"
  /\ conn' = "idle"
  /\ FailConnect(IF conn = "err" THEN 2 ELSE 1)
  /\ UNCHANGED <<stage, send_queue_, peer, frames, owed, accepted, sent>>

LastStage ==
  /\ conn \in {"ok", "err"} /\ Stages[stage] = "ws"
  /\ conn' = "idle"
  /\ IF conn = "err" THEN FailConnect(2) ELSE event_transport_up
  /\ UNCHANGED <<stage, send_queue_, peer, frames, owed, accepted, sent>>

----------------------------------------------------------------------------
(* Handlers of the connected transport.                                    *)

HandleSend ==
  /\ write \in {"ok", "err"}
  /\ send_queue_' = Tail(send_queue_)
  /\ IF write = "err"
     THEN event_transport_error /\ send_state_' = "not_sending" /\ write' = "idle"
     ELSE start_sending(state_, "not_sending", send_queue_') /\ UNCHANGED <<state_, errors>>
  /\ UNCHANGED <<ping_state_, stage, conn, read, ping_timer_, peer, frames,
                 owed, accepted, sent, completions>>

\* on_hello and request_ticker.
on_hello == send_text_frame("sub")

\* handle_read with a frame, up to start_reading: on_text_frame dispatches on
\* its type.  A binary frame is skipped.
Dispatch(kind) ==
  \/ /\ kind = "hello" /\ on_hello
     /\ UNCHANGED <<ping_state_, ping_timer_>>
  \/ /\ kind = "pong" /\ ping_enter_wait
     /\ UNCHANGED <<send_queue_, accepted, send_state_, write>>
  \/ /\ kind \in {"tick", "binary"}
     /\ UNCHANGED <<ping_state_, ping_timer_, send_queue_, accepted,
                    send_state_, write>>

\* Mutant: reads on whatever has become of the transport.
HandleRead_endless ==
  /\ read \in Kind \cup {"pong", "err"}
  /\ IF read \in {"bad", "err"}
     THEN /\ event_transport_error /\ read' = "pending"
          /\ UNCHANGED <<ping_state_, ping_timer_, send_queue_, accepted,
                         send_state_, write>>
     ELSE /\ Dispatch(read) /\ read' = "pending"
          /\ UNCHANGED <<state_, errors>>
  /\ UNCHANGED <<stage, conn, peer, frames, owed, sent, completions>>

\* A frame that is not JSON, or lacks a type, throws: that is an error of the
\* transport too, and ends the reading.
HandleRead ==
  /\ read \in Kind \cup {"pong", "err"}
  /\ IF read \in {"bad", "err"}
     THEN /\ event_transport_error /\ read' = "idle"
          /\ UNCHANGED <<ping_state_, ping_timer_, send_queue_, accepted,
                         send_state_, write>>
     ELSE /\ Dispatch(read) /\ start_reading(state_)
          /\ UNCHANGED <<state_, errors>>
  /\ UNCHANGED <<stage, conn, peer, frames, owed, sent, completions>>

\* Mutant: pings at a fixed pace, whether the last ping was answered or not.
ping_event_timeout_paced ==
  /\ ping_timer_ = "ok" /\ ping_timer_' = "pending"
  /\ ping_state_' = "ping_waiting_pong"
  /\ send_text_frame("ping")
  /\ UNCHANGED <<state_, stage, conn, read, peer, frames, owed, sent,
                 completions, errors>>

\* The timer's handler.  Only expires_after could cancel the wait, and no wait
\* is pending when it is called (see KeepAlive).
ping_event_timeout ==
  /\ ping_timer_ = "ok" /\ ping_timer_' = "idle"
  /\ ping_state_' = "ping_waiting_pong"
  /\ send_text_frame("ping")
  /\ UNCHANGED <<state_, stage, conn, read, peer, frames, owed, sent,
                 completions, errors>>

----------------------------------------------------------------------------
(* The environment: the network, the peer and time.                        *)

ConnectStageOk ==
  /\ conn = "pending" /\ peer = "up" /\ ~Doomed /\ conn' = "ok"
  /\ UNCHANGED <<state_, send_state_, send_queue_, ping_state_, stage, read,
                 write, ping_timer_, peer, frames, owed, accepted, sent,
                 completions, errors>>

\* Refused, or timed out: each stage is given 15s.
ConnectStageFails ==
  /\ conn = "pending" /\ conn' = "err"
  /\ UNCHANGED <<state_, send_state_, send_queue_, ping_state_, stage, read,
                 write, ping_timer_, peer, frames, owed, accepted, sent,
                 completions, errors>>

PeerFails ==
  /\ peer = "up" /\ state_ \in {"connected", "finished"} /\ peer' = "down"
  /\ UNCHANGED <<state_, send_state_, send_queue_, ping_state_, stage, conn,
                 read, write, ping_timer_, frames, owed, accepted, sent,
                 completions, errors>>

\* A frame arrives that answers nothing.
ReadsFrame ==
  /\ read = "pending" /\ peer = "up"
  /\ frames < MaxFrames /\ frames' = frames + 1
  /\ read' \in Kind
  /\ UNCHANGED <<state_, send_state_, send_queue_, ping_state_, stage, conn,
                 write, ping_timer_, peer, owed, accepted, sent,
                 completions, errors>>

\* The peer answers a ping, once.
ReadsPong ==
  /\ read = "pending" /\ peer = "up"
  /\ owed > 0 /\ owed' = owed - 1
  /\ read' = "pong"
  /\ UNCHANGED <<state_, send_state_, send_queue_, ping_state_, stage, conn,
                 write, ping_timer_, peer, frames, accepted, sent,
                 completions, errors>>

ReadFails ==
  /\ read = "pending" /\ peer = "down" /\ read' = "err"
  /\ UNCHANGED <<state_, send_state_, send_queue_, ping_state_, stage, conn,
                 write, ping_timer_, peer, frames, owed, accepted, sent,
                 completions, errors>>

WriteOk ==
  /\ write = "pending" /\ peer = "up" /\ write' = "ok"
  /\ sent' = Append(sent, Head(send_queue_))
  /\ owed' = owed + (IF Head(send_queue_) = "ping" THEN 1 ELSE 0)
  /\ UNCHANGED <<state_, send_state_, send_queue_, ping_state_, stage, conn,
                 read, ping_timer_, peer, frames, accepted,
                 completions, errors>>

WriteFails ==
  /\ write = "pending" /\ peer = "down" /\ write' = "err"
  /\ UNCHANGED <<state_, send_state_, send_queue_, ping_state_, stage, conn,
                 read, ping_timer_, peer, frames, owed, accepted, sent,
                 completions, errors>>

PingTimerExpires ==
  /\ ping_timer_ = "pending" /\ ping_timer_' = "ok"
  /\ state_ = "connected" => Count("ping", accepted) < MaxPings
  /\ UNCHANGED <<state_, send_state_, send_queue_, ping_state_, stage, conn,
                 read, write, peer, frames, owed, accepted, sent,
                 completions, errors>>

WssNext ==
  \/ NextStage \/ SniFails \/ LastStage
  \/ HandleSend \/ HandleRead \/ ping_event_timeout
  \/ ConnectStageOk \/ ConnectStageFails \/ PeerFails
  \/ ReadsFrame \/ ReadsPong \/ ReadFails \/ WriteOk \/ WriteFails
  \/ PingTimerExpires

WssFairness ==
  /\ WF_wssvars(NextStage \/ SniFails \/ LastStage) /\ WF_wssvars(HandleSend)
  /\ WF_wssvars(HandleRead) /\ WF_wssvars(ping_event_timeout)
  /\ WF_wssvars(PingTimerExpires)
  /\ WF_wssvars(ConnectStageOk \/ ConnectStageFails)
  /\ WF_wssvars(WriteOk \/ WriteFails) /\ WF_wssvars(ReadFails)

----------------------------------------------------------------------------
(* Properties.                                                             *)

WssTypeOK ==
  /\ state_ \in {"not_started", "connecting", "connected", "closing", "finished"}
  /\ send_state_ \in {"not_sending", "sending"}
  /\ send_queue_ \in Seq({"sub", "ping"})
  /\ ping_state_ \in {"ping_not_started", "ping_wait", "ping_waiting_pong"}
  /\ stage \in 0 .. Len(Stages)
  /\ conn \in {"idle", "pending", "ok", "err"}
  /\ read \in Kind \cup {"idle", "pending", "pong", "err"}
  /\ write \in {"idle", "pending", "ok", "err"}
  /\ ping_timer_ \in {"idle", "pending", "ok"}
  /\ peer \in {"up", "down"} /\ frames \in 0 .. MaxFrames /\ owed \in 0 .. MaxPings

\* The queued frames async_write has not sent: handle_send pops a frame only
\* after the operation that sent it.
Unsent == IF write = "ok" THEN Tail(send_queue_) ELSE send_queue_

\* While the transport is connected, frames leave in the order in which they
\* were posted, none skipped and none sent twice (wss_transport.cpp:175-278);
\* afterwards what was sent is a prefix of what was posted.  send_state_ says
\* exactly whether a write is outstanding, so no two are.
FramesInOrder ==
  /\ send_state_ = "sending" <=> write # "idle"
  /\ state_ = "connected" => sent \o Unsent = accepted
  /\ Len(sent) <= Len(accepted) /\ sent = SubSeq(accepted, 1, Len(sent))

\* The keep-alive goes round: while connected there is either one wait for the
\* next ping, or one ping on its way out, or one waiting for its answer, or one
\* answer waiting to be read; never two and never none, provided that the peer
\* answers each ping once (fmex_connection.cpp:98-135).  So expires_after never
\* meets a wait, and pings do not multiply.
KeepAlive ==
  state_ = "connected" =>
    (IF ping_timer_ = "idle" THEN 0 ELSE 1) + Count("ping", Unsent) + owed
      + (IF read = "pong" THEN 1 ELSE 0) = 1

\* "Called once on the first transport error" (wss_transport.hpp:50): the
\* transport is finished from the first error on, for good, whichever of the
\* connect, read and write handlers meet errors after it and in which order.
ErrorOnce == errors = IF state_ = "finished" THEN 1 ELSE 0

\* Once finished, the transport comes to rest: nothing is read, written or
\* waited for any more, although no operation is cancelled.
WindsDown ==
  state_ = "finished" ~>
    [](/\ conn = "idle" /\ read = "idle" /\ write = "idle"
       /\ ping_timer_ = "idle")
=============================================================================
