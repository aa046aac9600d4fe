----------------------------- MODULE FmexClient -----------------------------
(***************************************************************************)
(* pre-cxx20/fmex_client: the app, one ExchangeConnection over             *)
(* ConnectionBase, its connect_transport_op and its stop_register.         *)
(*                                                                         *)
(* One thread runs the io_context and dispatch() across the two strands    *)
(* runs on the spot, so a handler is one step.  An operation is "idle",    *)
(* "pending", or completed, "ok" or "err", with its handler about to run;  *)
(* a completed read holds the kind of frame, and a write that began behind *)
(* our close frame is "doomed".                                            *)
(*                                                                         *)
(* At any time stop_register_ holds at most one slot, since each token     *)
(* replaces or resets the one before: slot says what a stop would do.      *)
(***************************************************************************)
EXTENDS Naturals, Sequences, FiniteSets

CONSTANTS MaxFrames,   \* bound: frames the peer sends
          MaxPings     \* bound: pings on a working stream

ASSUME BoundsAssumption == MaxFrames \in Nat /\ MaxPings \in Nat

VARIABLES
  signals_, stopped,   \* the wait for SIGINT; on_signal has run
  slot,                \* "none", "resolver", "socket" or "close"
  stage, conn,         \* connect_transport_op: its stage and operation
  stream,              \* the websocket: "new", "up" or "failed"
  read, write, close, ping_timer_,
  send_state_, tx_queue_, ping_state_,
  frames,              \* how many frames the peer has sent
  posted, sent         \* history: frames queued, and frames written

netvars == <<read, write, close, ping_timer_>>
sendvars == <<send_state_, tx_queue_, posted>>
vars == <<signals_, stopped, slot, stage, conn, stream, netvars, sendvars,
          ping_state_, frames, sent>>

Stages == <<"resolve", "connect", "ssl", "ws">>
Kind == {"hello", "other", "bad"}
Abort(op) == IF op = "pending" THEN "err" ELSE op
Pings == Cardinality({i \in DOMAIN posted : posted[i] = "ping"})

Init ==
  /\ signals_ = "idle" /\ stopped = FALSE /\ slot = "none"
  /\ stage = 0 /\ conn = "idle" /\ stream = "new"
  /\ read = "idle" /\ write = "idle" /\ close = "idle" /\ ping_timer_ = "idle"
  /\ send_state_ = "send_idle" /\ tx_queue_ = <<>> /\ ping_state_ = "ping_not_active"
  /\ frames = 0 /\ posted = <<>> /\ sent = <<>>

----------------------------------------------------------------------------
(* Parts of the handlers.                                                  *)

initiate_send ==
  /\ send_state_' = "send_sending"
  /\ write' = IF close = "idle" THEN "pending" ELSE "doomed"

\* Mutant: the new frame is put first.
notify_send_front(f) ==
  /\ tx_queue_' = <<f>> \o tx_queue_ /\ posted' = Append(posted, f)
  /\ IF send_state_ = "send_idle" THEN initiate_send ELSE UNCHANGED <<send_state_, write>>

notify_send(f) ==
  /\ tx_queue_' = Append(tx_queue_, f) /\ posted' = Append(posted, f)
  /\ IF send_state_ = "send_idle" THEN initiate_send ELSE UNCHANGED <<send_state_, write>>

ping_stop ==
  /\ ping_state_' = "ping_exited"
  /\ ping_timer_' = IF ping_state_ = "ping_waiting_timer" THEN Abort(ping_timer_) ELSE ping_timer_

\* fail() and on_error().
fail == ping_stop

ping_enter_waiting_state ==
  ping_state_' = "ping_waiting_timer" /\ ping_timer_' = "pending"

----------------------------------------------------------------------------
(* The app.                                                                *)

\* app::start, ConnectionBase::start and the first stage of the connect.
AppStart ==
  /\ signals_ = "idle" /\ stage = 0 /\ signals_' = "pending"
  /\ stage' = 1 /\ conn' = "pending" /\ slot' = "resolver"
  /\ UNCHANGED <<stopped, stream, netvars, sendvars, ping_state_, frames, sent>>

\* The slots: resolver_.cancel() fails the resolve; cancel() on the socket fails
\* the connect or handshake, or is lost between two of its reads and writes or
\* when the connect tries the next endpoint; initiate_close starts the closing
\* handshake.  A completed operation keeps its result.
CallSlot ==
  \/ slot = "none" /\ UNCHANGED <<conn, close>>
  \/ slot = "resolver" /\ conn' = Abort(conn) /\ UNCHANGED close
  \/ slot = "socket" /\ conn' \in {conn, Abort(conn)} /\ UNCHANGED close
  \/ slot = "close" /\ close' = "pending" /\ UNCHANGED conn

\* on_signal, stop_connections, ConnectionBase::stop and notify_all.  The app does
\* not wait for another SIGINT.
OnSignal ==
  /\ signals_ = "ok" /\ signals_' = "idle" /\ stopped' = TRUE
  /\ CallSlot /\ slot' = "none"
  /\ UNCHANGED <<stage, stream, read, write, ping_timer_, sendvars, ping_state_,
                 frames, sent>>

----------------------------------------------------------------------------
(* The connect operation.                                                  *)

\* The next stage: from the connect on, a stop cancels the socket.
NextStage ==
  /\ conn = "ok" /\ stage < Len(Stages)
  /\ stage' = stage + 1 /\ conn' = "pending"
  /\ slot' = IF Stages[stage] = "resolve" THEN "socket" ELSE slot
  /\ UNCHANGED <<signals_, stopped, stream, netvars, sendvars, ping_state_, frames,
                 sent>>

\* A stage fails, or SSL_set_tlsext_host_name after the connect: the operation's
\* state goes away and takes its slot along.
ConnectEnds ==
  /\ conn = "err" \/ (conn = "ok" /\ Stages[stage] = "connect")
  /\ conn' = "idle" /\ slot' = "none"
  /\ fail
  /\ UNCHANGED <<signals_, stopped, stage, stream, read, write, close, sendvars,
                 frames, sent>>

\* Mutant: nothing registers for the stop of the connected transport.
ConnectDone_no_slot ==
  /\ conn = "ok" /\ Stages[stage] = "ws" /\ conn' = "idle"
  /\ ping_enter_waiting_state
  /\ slot' = "none"
  /\ read' = "pending"
  /\ UNCHANGED <<signals_, stopped, stage, stream, write, close, sendvars, frames, sent>>

\* The handler of notify_connect: on_transport_up, the slot, enter_read_state.
ConnectDone ==
  /\ conn = "ok" /\ Stages[stage] = "ws" /\ conn' = "idle"
  /\ ping_enter_waiting_state
  /\ slot' = "close"
  /\ read' = "pending"
  /\ UNCHANGED <<signals_, stopped, stage, stream, write, close, sendvars, frames, sent>>

----------------------------------------------------------------------------
(* Handlers of the connected transport.                                    *)

on_text_frame ==
  IF read = "hello" THEN notify_send("sub") ELSE UNCHANGED <<sendvars, write>>

\* Mutant: keeps reading after an error.
OnRead_endless ==
  /\ read \in Kind \cup {"err"} /\ read' = "pending"
  /\ IF read \in {"err", "bad"} THEN fail /\ UNCHANGED <<sendvars, write>>
     ELSE /\ on_text_frame
          /\ UNCHANGED <<ping_state_, ping_timer_>>
  /\ UNCHANGED <<signals_, stopped, slot, stage, conn, stream, close, frames, sent>>

\* on_read.  A frame that cannot be understood throws, and ends
\* the reading as an error does.
OnRead ==
  /\ read \in Kind \cup {"err"}
  /\ IF read \in {"err", "bad"}
     THEN /\ read' = "idle" /\ fail
          /\ UNCHANGED <<sendvars, write>>
     ELSE /\ read' = "pending"
          /\ on_text_frame
          /\ UNCHANGED <<ping_state_, ping_timer_>>
  /\ UNCHANGED <<signals_, stopped, slot, stage, conn, stream, close, frames, sent>>

\* on_write: the frame is removed whether it was sent or not.
OnWrite ==
  /\ write \in {"ok", "err"} /\ tx_queue_' = Tail(tx_queue_)
  /\ IF write = "ok" /\ tx_queue_' # <<>> THEN initiate_send
     ELSE send_state_' = "send_idle" /\ write' = "idle"
  /\ IF write = "err" THEN fail ELSE UNCHANGED <<ping_state_, ping_timer_>>
  /\ UNCHANGED <<signals_, stopped, slot, stage, conn, stream, read, close, posted,
                 frames, sent>>

OnClose ==
  /\ close \in {"ok", "err"} /\ close' = "idle"
  /\ IF close = "err" THEN fail ELSE UNCHANGED <<ping_state_, ping_timer_>>
  /\ UNCHANGED <<signals_, stopped, slot, stage, conn, stream, read, write, sendvars,
                 frames, sent>>

\* ping_on_timer: it looks at ec and not at ping_state_.
PingOnTimer ==
  /\ \/ /\ ping_timer_ = "ok"
        /\ notify_send("ping") /\ ping_enter_waiting_state
     \/ /\ ping_timer_ = "err" /\ ping_timer_' = "idle"
        /\ ping_state_' = "ping_exited"
        /\ UNCHANGED <<sendvars, write>>
  /\ UNCHANGED <<signals_, stopped, slot, stage, conn, stream, read, close, frames, sent>>

----------------------------------------------------------------------------
(* The environment.                                                        *)

SignalArrives ==
  /\ signals_ = "pending" /\ signals_' = "ok"
  /\ UNCHANGED <<stopped, slot, stage, conn, stream, netvars, sendvars, ping_state_,
                 frames, sent>>

StageEnds ==
  /\ conn = "pending" /\ conn' \in {"ok", "err"}
  /\ stream' = IF conn' = "ok" /\ Stages[stage] = "ws" THEN "up" ELSE stream
  /\ UNCHANGED <<signals_, stopped, slot, stage, netvars, sendvars, ping_state_,
                 frames, sent>>

StreamFails ==
  /\ stream = "up" /\ stream' = "failed"
  /\ UNCHANGED <<signals_, stopped, slot, stage, conn, netvars, sendvars, ping_state_,
                 frames, sent>>

ReadsFrame ==
  /\ read = "pending" /\ stream = "up" /\ frames < MaxFrames
  /\ frames' = frames + 1 /\ read' \in Kind
  /\ UNCHANGED <<signals_, stopped, slot, stage, conn, stream, write, close,
                 ping_timer_, sendvars, ping_state_, sent>>

WriteOk ==
  /\ write = "pending" /\ stream = "up" /\ write' = "ok"
  /\ sent' = Append(sent, Head(tx_queue_))
  /\ UNCHANGED <<signals_, stopped, slot, stage, conn, stream, read, close,
                 ping_timer_, sendvars, ping_state_, frames>>

\* The peer answers our close frame, or does not within the 30s that the timeout
\* option allows; either way the stream is over.
CloseEnds ==
  /\ close = "pending" /\ close' \in {"ok", "err"}
  /\ stream = "failed" => close' = "err"
  /\ write # "pending" \/ stream = "failed"
  /\ stream' = "failed"
  /\ UNCHANGED <<signals_, stopped, slot, stage, conn, read, write, ping_timer_,
                 sendvars, ping_state_, frames, sent>>

\* Operations on a failed stream fail, each in its own time; writes behind the
\* close frame always do.
OperationFails ==
  /\ \/ stream = "failed" /\ read = "pending" /\ read' = "err" /\ UNCHANGED write
     \/ stream = "failed" /\ write = "pending" /\ write' = "err" /\ UNCHANGED read
     \/ write = "doomed" /\ write' = "err" /\ UNCHANGED read
  /\ UNCHANGED <<signals_, stopped, slot, stage, conn, stream, close, ping_timer_,
                 sendvars, ping_state_, frames, sent>>

\* Beyond the bound the 5s pass only when the stream has failed and the loop has
\* nothing else to do.
PingTimerExpires ==
  /\ ping_timer_ = "pending" /\ ping_timer_' = "ok"
  /\ Pings < MaxPings \/ (stream = "failed" /\ {read, write, close} = {"idle"})
  /\ UNCHANGED <<signals_, stopped, slot, stage, conn, stream, read, write, close,
                 sendvars, ping_state_, frames, sent>>

Next ==
  \/ AppStart \/ OnSignal \/ NextStage \/ ConnectEnds \/ ConnectDone
  \/ OnRead \/ OnWrite \/ OnClose \/ PingOnTimer
  \/ SignalArrives \/ StageEnds \/ StreamFails \/ ReadsFrame \/ WriteOk
  \/ CloseEnds \/ OperationFails \/ PingTimerExpires

\* The loop runs what is ready and timers expire.  The stages of the connect end
\* and the peer takes what is written.
Fairness ==
  /\ WF_vars(AppStart) /\ WF_vars(OnSignal)
  /\ WF_vars(NextStage \/ ConnectEnds \/ ConnectDone)
  /\ WF_vars(OnRead) /\ WF_vars(OnWrite) /\ WF_vars(OnClose) /\ WF_vars(PingOnTimer)
  /\ WF_vars(StageEnds) /\ WF_vars(WriteOk) /\ WF_vars(CloseEnds)
  /\ WF_vars(OperationFails) /\ WF_vars(PingTimerExpires)

Spec == Init /\ [][Next]_vars
FairSpec == Spec /\ Fairness

----------------------------------------------------------------------------
(* Properties.                                                             *)

TypeOK ==
  /\ signals_ \in {"idle", "pending", "ok"} /\ stopped \in BOOLEAN
  /\ slot \in {"none", "resolver", "socket", "close"}
  /\ stage \in 0 .. Len(Stages) /\ conn \in {"idle", "pending", "ok", "err"}
  /\ stream \in {"new", "up", "failed"}
  /\ read \in Kind \cup {"idle", "pending", "err"}
  /\ write \in {"idle", "pending", "doomed", "ok", "err"}
  /\ send_state_ \in {"send_idle", "send_sending"}
  /\ close \in {"idle", "pending", "ok", "err"}
  /\ ping_timer_ \in {"idle", "pending", "ok", "err"}
  /\ ping_state_ \in {"ping_not_active", "ping_waiting_timer", "ping_exited"}
  /\ tx_queue_ \in Seq({"sub", "ping"}) /\ frames \in 0 .. MaxFrames

\* What reaches the peer is what was posted, in order; and on a working stream
\* that is not being closed nothing is dropped, although on_write removes a
\* frame even if it could not be sent (connection_base.cpp:127-171).  send_state_
\* says exactly whether a write is outstanding, so no two are.
FramesInOrder ==
  /\ send_state_ = "send_sending" <=> write # "idle"
  /\ Len(sent) <= Len(posted) /\ sent = SubSeq(posted, 1, Len(sent))
  /\ stream = "up" /\ close = "idle" =>
       sent \o (IF write = "ok" THEN Tail(tx_queue_) ELSE tx_queue_) = posted

\* A stream that is up, its connect over, can be stopped or is being stopped: the
\* register holds the slot that will close it, or the close is under way.  So if a
\* stop is forgotten it is the connect that forgets it, never the transport that
\* on_transport_up announced (connection_base.cpp:22-33, 110-115).
UpIsStoppable == stream = "up" /\ conn = "idle" => slot = "close" \/ close # "idle"

\* When the stream fails, reading, writing and the pings come to rest, even if a
\* ping was about to be sent and revives the ping region.
FailureWindsDown ==
  stream = "failed" ~> [](read = "idle" /\ write = "idle" /\ ping_timer_ = "idle")

Quiescent ==
  /\ signals_ = "idle" /\ conn = "idle"
  /\ read = "idle" /\ write = "idle" /\ close = "idle" /\ ping_timer_ = "idle"

\* The first ctrl-c ends the program ("Create a mechanism to safely stop the
\* connection", connection_base.hpp:37), unless it crosses a stage of the connect,
\* whose handler then registers for a next one: the register does not remember the
\* first, and nobody sends another.
StopEndsOrForgotten == stopped ~> Quiescent \/ slot # "none"
=============================================================================
