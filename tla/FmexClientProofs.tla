-------------------------- MODULE FmexClientProofs --------------------------
(***************************************************************************)
(* Proofs about fmex_client, for every number of frames and pings.         *)
(***************************************************************************)
EXTENDS FmexClient, TLAPS

Frame == {"sub", "ping"}

HistoryTypeOK == posted \in Seq(Frame) /\ sent \in Seq(Frame)

\* The frames in the queue that have not been sent.
Unsent == IF write = "ok" THEN Tail(tx_queue_) ELSE tx_queue_

\* A write that fails, or is bound to, does so on a stream that has failed or is
\* being closed; and a close leaves the stream failed.
FailsForAReason ==
  /\ write \in {"doomed", "err"} => stream = "failed" \/ close # "idle"
  /\ close \in {"ok", "err"} => stream = "failed"

\* There is no stream to fail or to close until the last stage has ended.
Connecting ==
  /\ stage = 0 => conn = "idle"
  /\ stage = 0 \/ conn = "pending" \/ (conn = "ok" /\ stage < Len(Stages)) => stream = "new"
  /\ slot = "close" \/ close # "idle" => conn = "idle" /\ stage = Len(Stages)

\* A write carries the front of the queue.  No frame is lost before the close, and
\* none whose write began before it until on_write has run.
InStep ==
  /\ write # "idle" => tx_queue_ # <<>>
  /\ stream # "failed" /\ (close = "idle" \/ write \in {"pending", "ok"}) =>
       sent \o Unsent = posted

IInv ==
  TypeOK /\ HistoryTypeOK /\ Connecting /\ FailsForAReason /\ InStep /\ FramesInOrder

----------------------------------------------------------------------------
(* Lemmas about sequences.                                                 *)

\* Sending the front of the queue moves it from the queue to the log.
LEMMA SendFront ==
  ASSUME NEW S, NEW s \in Seq(S), NEW q \in Seq(S), q # <<>>
  PROVE  /\ Append(s, Head(q)) \o Tail(q) = s \o q
         /\ Head(q) \in S /\ Tail(q) \in Seq(S) /\ Append(s, Head(q)) \in Seq(S)
  OBVIOUS

\* A frame goes to the end of the queue and of the log of what was queued.
LEMMA PostBack ==
  ASSUME NEW S, NEW s \in Seq(S), NEW q \in Seq(S), NEW m \in S
  PROVE  /\ s \o Append(q, m) = Append(s \o q, m)
         /\ Append(q, m) \in Seq(S) /\ Append(q, m) # <<>>
         /\ q # <<>> => Tail(Append(q, m)) = Append(Tail(q), m) /\ Tail(q) \in Seq(S)
  <1>1. s \o Append(q, m) = Append(s \o q, m)
    OBVIOUS
  <1>2. Append(q, m) \in Seq(S) /\ Append(q, m) # <<>>
    OBVIOUS
  <1>3. q # <<>> => Tail(Append(q, m)) = Append(Tail(q), m) /\ Tail(q) \in Seq(S)
    OBVIOUS
  <1> QED BY <1>1, <1>2, <1>3

\* What a sequence begins with is its prefix.
LEMMA Prefix ==
  ASSUME NEW S, NEW s \in Seq(S), NEW t \in Seq(S)
  PROVE  Len(s) <= Len(s \o t) /\ s = SubSeq(s \o t, 1, Len(s))
  OBVIOUS

\* Appending behind a prefix leaves it one.
LEMMA PrefixKept ==
  ASSUME NEW S, NEW s \in Seq(S), NEW t \in Seq(S), NEW c \in S,
         Len(s) <= Len(t), s = SubSeq(t, 1, Len(s))
  PROVE  Len(s) <= Len(Append(t, c)) /\ s = SubSeq(Append(t, c), 1, Len(s))
  OBVIOUS

----------------------------------------------------------------------------
(* The parts of the handlers.                                              *)

\* The parts of IInv about what is sent.
Traffic == HistoryTypeOK /\ FailsForAReason /\ InStep /\ FramesInOrder

\* The queue without the frame that was sent is a sequence of frames.
LEMMA UnsentType ==
  ASSUME IInv
  PROVE  /\ tx_queue_ \in Seq(Frame) /\ Unsent \in Seq(Frame)
         /\ posted \in Seq(Frame) /\ sent \in Seq(Frame)
  BY DEF IInv, TypeOK, HistoryTypeOK, InStep, Unsent, Frame

\* notify_send puts the frame behind the others and writes it if nothing is being
\* written.
LEMMA Posts ==
  ASSUME IInv, NEW f \in Frame, notify_send(f), UNCHANGED <<stream, close, sent>>
  PROVE  /\ tx_queue_' \in Seq(Frame) /\ send_state_' \in {"send_idle", "send_sending"}
         /\ write' \in {"idle", "pending", "doomed", "ok", "err"}
         /\ Traffic'
  <1>1. /\ tx_queue_' = Append(tx_queue_, f) /\ posted' = Append(posted, f)
        /\ tx_queue_' \in Seq(Frame) /\ tx_queue_' # <<>> /\ posted' \in Seq(Frame)
    BY UnsentType, PostBack DEF notify_send
  <1>2. /\ send_state_' = "send_sending" /\ write' # "idle"
        /\ \/ write = "idle" /\ close = "idle" /\ write' = "pending"
           \/ write = "idle" /\ close # "idle" /\ write' = "doomed"
           \/ write # "idle" /\ write' = write
        /\ write' \in {"idle", "pending", "doomed", "ok", "err"}
    BY DEF IInv, TypeOK, FramesInOrder, notify_send, initiate_send
  <1>3. FailsForAReason'
    BY <1>2 DEF IInv, FailsForAReason
  <1>4. Unsent' = Append(Unsent, f)
    <2>1. tx_queue_ # <<>> => Tail(Append(tx_queue_, f)) = Append(Tail(tx_queue_), f)
      BY UnsentType, PostBack
    <2> QED BY <1>1, <1>2, <2>1 DEF Unsent, IInv, InStep
  <1>5. sent \o Unsent = posted => sent' \o Unsent' = posted'
    <2>1. sent \o Append(Unsent, f) = Append(sent \o Unsent, f)
      BY UnsentType, PostBack
    <2> QED BY <1>1, <1>4, <2>1
  <1>6. InStep'
    BY <1>1, <1>2, <1>5 DEF IInv, InStep
  <1>7. FramesInOrder'
    <2>1. Len(sent) <= Len(posted') /\ sent = SubSeq(posted', 1, Len(sent))
      BY <1>1, UnsentType, PrefixKept DEF IInv, FramesInOrder
    <2> QED BY <1>2, <1>6, <2>1 DEF FramesInOrder, InStep, Unsent
  <1> QED BY <1>1, <1>2, <1>3, <1>6, <1>7, UnsentType DEF Traffic, HistoryTypeOK

\* Steps that move no frame, and break or close the stream at most.
LEMMA NoTraffic ==
  ASSUME IInv, UNCHANGED <<tx_queue_, send_state_, posted, sent>>,
         write' # "idle" <=> write # "idle", Unsent' = Unsent,
         write' \in {"pending", "ok"} => write' = write,
         \/ stream' = "failed"
         \/ /\ stream # "failed"
            /\ close' = close \/ close' = "pending"
            /\ write' = write \/ close # "idle"
  PROVE  Traffic'
  <1>1. HistoryTypeOK' /\ FailsForAReason'
    BY DEF IInv, HistoryTypeOK, FailsForAReason
  <1>2. InStep'
    BY DEF IInv, InStep
  <1>3. FramesInOrder'
    BY <1>2 DEF IInv, FramesInOrder, InStep, Unsent
  <1> QED BY <1>1, <1>2, <1>3 DEF Traffic

\* A write moves the front of the queue to the peer.
LEMMA WriteOkKeeps ==
  ASSUME IInv, WriteOk
  PROVE  Traffic'
  <1>1. /\ write = "pending" /\ write' = "ok" /\ stream = "up"
        /\ sent' = Append(sent, Head(tx_queue_))
        /\ UNCHANGED <<stream, close, tx_queue_, send_state_, posted>>
    BY DEF WriteOk, sendvars
  <1>2. tx_queue_ # <<>> /\ sent \o tx_queue_ = posted /\ Unsent' = Tail(tx_queue_)
    BY <1>1 DEF IInv, InStep, Unsent
  <1>3. /\ sent' \o Unsent' = posted' /\ sent' \in Seq(Frame) /\ Unsent' \in Seq(Frame)
    <2>1. /\ Append(sent, Head(tx_queue_)) \o Tail(tx_queue_) = sent \o tx_queue_
          /\ Tail(tx_queue_) \in Seq(Frame) /\ Append(sent, Head(tx_queue_)) \in Seq(Frame)
      BY <1>2, UnsentType, SendFront
    <2> QED BY <1>1, <1>2, <2>1
  <1>4. HistoryTypeOK' /\ FailsForAReason' /\ InStep'
    BY <1>1, <1>2, <1>3 DEF IInv, HistoryTypeOK, FailsForAReason, InStep
  <1>5. FramesInOrder'
    <2>1. Len(sent') <= Len(posted') /\ sent' = SubSeq(posted', 1, Len(sent'))
      BY <1>3, Prefix
    <2> QED BY <1>1, <1>3, <2>1 DEF IInv, FramesInOrder, Unsent
  <1> QED BY <1>4, <1>5 DEF Traffic

\* on_write removes the frame whether it was sent or not: if not, the stream has
\* failed or is being closed.
LEMMA OnWriteKeeps ==
  ASSUME IInv, OnWrite
  PROVE  /\ tx_queue_' \in Seq(Frame) /\ send_state_' \in {"send_idle", "send_sending"}
         /\ write' \in {"idle", "pending", "doomed"}
         /\ Traffic'
  <1>1. /\ write \in {"ok", "err"} /\ tx_queue_ # <<>> /\ tx_queue_' = Tail(tx_queue_)
        /\ tx_queue_' \in Seq(Frame)
        /\ UNCHANGED <<stream, close, posted, sent>>
    BY UnsentType, SendFront DEF IInv, InStep, OnWrite
  <1>2. \/ send_state_' = "send_idle" /\ write' = "idle"
        \/ /\ send_state_' = "send_sending" /\ tx_queue_' # <<>> /\ write = "ok"
           /\ write' = IF close = "idle" THEN "pending" ELSE "doomed"
    BY DEF OnWrite, initiate_send
  <1>3. Unsent' = Tail(tx_queue_) /\ (write = "ok" => Unsent' = Unsent)
    BY <1>1, <1>2 DEF Unsent
  <1>4. HistoryTypeOK' /\ FailsForAReason'
    BY <1>1, <1>2 DEF IInv, HistoryTypeOK, FailsForAReason
  <1>5. InStep'
    BY <1>1, <1>2, <1>3 DEF IInv, InStep, FailsForAReason
  <1>6. FramesInOrder'
    BY <1>1, <1>2, <1>5 DEF IInv, FramesInOrder, InStep, Unsent
  <1> QED BY <1>1, <1>2, <1>4, <1>5, <1>6 DEF Traffic

----------------------------------------------------------------------------
(* The invariant.                                                          *)

\* The application and its connect operation send nothing.
LEMMA ConnectKeeps ==
  ASSUME IInv, AppStart \/ OnSignal \/ NextStage \/ ConnectEnds \/ ConnectDone
               \/ SignalArrives \/ StageEnds
  PROVE  IInv'
  <1>1. /\ UNCHANGED <<write, tx_queue_, send_state_, posted, sent, frames>>
        /\ stream' = stream \/ stream' = "up"
        /\ close' = close \/ close' = "pending"
        /\ stream = "failed" => stream' = "failed"
        /\ TypeOK' /\ Connecting'
    <2> USE DEF IInv, TypeOK, Connecting, netvars, sendvars
    <2>0. Len(Stages) = 4 /\ \A n \in 1 .. 4 : Stages[n] = "ws" <=> n = 4
      BY DEF Stages
    <2>1. CASE AppStart
      BY <2>0, <2>1 DEF AppStart
    <2>2. CASE OnSignal
      <3>1. stopped' \in BOOLEAN
        BY <2>2 DEF OnSignal
      <3>2. conn' \in {"idle", "pending", "ok", "err"} /\ close' \in {close, "pending"}
        BY <2>2 DEF OnSignal, CallSlot, Abort
      <3>3. Connecting'
        BY <2>2, <2>0 DEF OnSignal, CallSlot, Abort
      <3> QED BY <2>2, <3>1, <3>2, <3>3 DEF OnSignal
    <2>3. CASE NextStage
      BY <2>0, <2>3 DEF NextStage
    <2>4. CASE ConnectEnds
      BY <2>0, <2>4 DEF ConnectEnds, fail, ping_stop, Abort
    <2>5. CASE ConnectDone
      BY <2>0, <2>5 DEF ConnectDone, ping_enter_waiting_state
    <2>6. CASE SignalArrives
      BY <2>6 DEF SignalArrives
    <2>7. CASE StageEnds
      BY <2>0, <2>7 DEF StageEnds
    <2> QED BY <2>1, <2>2, <2>3, <2>4, <2>5, <2>6, <2>7
  <1>2. Unsent' = Unsent
    BY <1>1 DEF Unsent
  <1>3. Traffic'
    BY <1>1, <1>2, NoTraffic
  <1> QED BY <1>1, <1>3 DEF IInv, Traffic

\* A hello is answered; an error, or what cannot be understood, ends the reading.
LEMMA OnReadKeeps ==
  ASSUME IInv, OnRead
  PROVE  IInv'
  <1>1. /\ UNCHANGED <<signals_, stopped, slot, stage, conn, stream, close, frames, sent>>
        /\ read' \in {"idle", "pending"}
        /\ ping_timer_' \in {"idle", "pending", "ok", "err"}
        /\ ping_state_' \in {ping_state_, "ping_exited"}
    BY DEF OnRead, fail, ping_stop, Abort, IInv, TypeOK
  <1>2. CASE read = "hello"
    <2>1. notify_send("sub") /\ "sub" \in Frame
      BY <1>2 DEF OnRead, on_text_frame, Frame
    <2>2. /\ tx_queue_' \in Seq(Frame) /\ send_state_' \in {"send_idle", "send_sending"}
          /\ write' \in {"idle", "pending", "doomed", "ok", "err"} /\ Traffic'
      BY <1>1, <2>1, Posts
    <2>3. TypeOK' /\ Connecting'
      BY <1>1, <2>2 DEF IInv, TypeOK, Connecting, Frame
    <2> QED BY <2>2, <2>3 DEF IInv, Traffic
  <1>3. CASE read # "hello"
    <2>1. UNCHANGED <<sendvars, write>>
      BY <1>3 DEF OnRead, on_text_frame
    <2>2. UNCHANGED <<send_state_, tx_queue_, posted, write>> /\ Unsent' = Unsent
      BY <2>1 DEF sendvars, Unsent
    <2>3. Traffic'
      <3>1. CASE stream = "failed"
        BY <1>1, <2>2, <3>1, NoTraffic
      <3>2. CASE stream # "failed"
        BY <1>1, <2>2, <3>2, NoTraffic
      <3> QED BY <3>1, <3>2
    <2>4. TypeOK' /\ Connecting'
      BY <1>1, <2>2 DEF IInv, TypeOK, Connecting
    <2> QED BY <2>3, <2>4 DEF IInv, Traffic
  <1> QED BY <1>2, <1>3

\* Every step keeps the invariant.
LEMMA NextKeeps == IInv /\ [Next]_vars => IInv'
  <1> SUFFICES ASSUME IInv, [Next]_vars PROVE IInv'
    OBVIOUS
  <1>1. CASE AppStart \/ OnSignal \/ NextStage \/ ConnectEnds \/ ConnectDone
             \/ SignalArrives \/ StageEnds
    BY <1>1, ConnectKeeps
  <1>2. CASE OnRead
    BY <1>2, OnReadKeeps
  <1>3. CASE OnWrite
    <2>1. /\ UNCHANGED <<signals_, stopped, slot, stage, conn, stream, read, close, posted,
                         frames, sent>>
          /\ ping_timer_' \in {"idle", "pending", "ok", "err"}
          /\ ping_state_' \in {ping_state_, "ping_exited"}
      BY <1>3 DEF OnWrite, fail, ping_stop, Abort, IInv, TypeOK
    <2>2. /\ tx_queue_' \in Seq(Frame) /\ send_state_' \in {"send_idle", "send_sending"}
          /\ write' \in {"idle", "pending", "doomed"} /\ Traffic'
      BY <1>3, OnWriteKeeps
    <2>3. TypeOK' /\ Connecting'
      BY <2>1, <2>2 DEF IInv, TypeOK, Connecting, Frame
    <2> QED BY <2>2, <2>3 DEF IInv, Traffic
  <1>4. CASE PingOnTimer
    <2>1. /\ UNCHANGED <<signals_, stopped, slot, stage, conn, stream, read, close, frames,
                         sent>>
          /\ ping_timer_' \in {"idle", "pending"}
          /\ ping_state_' \in {"ping_waiting_timer", "ping_exited"}
          /\ notify_send("ping") \/ UNCHANGED <<sendvars, write>>
      BY <1>4 DEF PingOnTimer, ping_enter_waiting_state
    <2>2. CASE notify_send("ping")
      <3>1. /\ tx_queue_' \in Seq(Frame) /\ send_state_' \in {"send_idle", "send_sending"}
            /\ write' \in {"idle", "pending", "doomed", "ok", "err"} /\ Traffic'
        <4>1. "ping" \in Frame
          BY DEF Frame
        <4> QED BY <2>1, <2>2, <4>1, Posts
      <3>2. TypeOK' /\ Connecting'
        BY <2>1, <3>1 DEF IInv, TypeOK, Connecting, Frame
      <3> QED BY <3>1, <3>2 DEF IInv, Traffic
    <2>3. CASE UNCHANGED <<sendvars, write>>
      <3>1. UNCHANGED <<send_state_, tx_queue_, posted, write>> /\ Unsent' = Unsent
        BY <2>3 DEF sendvars, Unsent
      <3>2. Traffic'
        BY <2>1, <3>1, NoTraffic
      <3>3. TypeOK' /\ Connecting'
        BY <2>1, <3>1 DEF IInv, TypeOK, Connecting
      <3> QED BY <3>2, <3>3 DEF IInv, Traffic
    <2> QED BY <2>1, <2>2, <2>3
  <1>5. CASE WriteOk
    <2>1. TypeOK' /\ Connecting'
      BY <1>5 DEF WriteOk, IInv, TypeOK, Connecting, sendvars
    <2> QED BY <1>5, <2>1, WriteOkKeeps DEF IInv, Traffic
  <1>6. CASE OnClose \/ StreamFails \/ ReadsFrame \/ CloseEnds \/ OperationFails
             \/ PingTimerExpires \/ UNCHANGED vars
    <2>1. /\ UNCHANGED <<signals_, stopped, slot, stage, conn, tx_queue_, send_state_, posted,
                         sent>>
          /\ \/ write' = write
             \/ write = "pending" /\ write' = "err" /\ stream = "failed"
             \/ write = "doomed" /\ write' = "err"
          /\ \/ stream' = "failed"
             \/ stream' = stream /\ stream # "failed" /\ close' = close
          /\ TypeOK' /\ Connecting'
      <3> USE DEF IInv, TypeOK, Connecting, netvars, sendvars
      <3>1. CASE OnClose
        <4>1. stream = "failed"
          BY <3>1 DEF OnClose, FailsForAReason
        <4> QED BY <3>1, <4>1 DEF OnClose, fail, ping_stop, Abort
      <3>2. CASE StreamFails
        BY <3>2 DEF StreamFails
      <3>3. CASE ReadsFrame
        BY <3>3, BoundsAssumption DEF ReadsFrame
      <3>4. CASE CloseEnds
        BY <3>4 DEF CloseEnds, Stages
      <3>5. CASE OperationFails
        BY <3>5 DEF OperationFails
      <3>6. CASE PingTimerExpires
        BY <3>6 DEF PingTimerExpires
      <3>7. CASE UNCHANGED vars
        BY <3>7 DEF vars
      <3> QED BY <1>6, <3>1, <3>2, <3>3, <3>4, <3>5, <3>6, <3>7
    <2>2. Unsent' = Unsent
      BY <2>1 DEF Unsent
    <2>3. Traffic'
      BY <2>1, <2>2, NoTraffic DEF IInv, FailsForAReason
    <2> QED BY <2>1, <2>3 DEF IInv, Traffic
  <1> QED BY <1>1, <1>2, <1>3, <1>4, <1>5, <1>6 DEF Next

\* IInv holds in every reachable state.
LEMMA AlwaysIInv == Spec => []IInv
  <1>1. Init => IInv
    <2> SUFFICES ASSUME Init PROVE IInv
      OBVIOUS
    <2> USE DEF Init
    <2>1. frames \in 0 .. MaxFrames /\ stage \in 0 .. Len(Stages)
      BY BoundsAssumption DEF Stages
    <2>2. stopped \in BOOLEAN
      OBVIOUS
    <2>3. TypeOK
      BY <2>1, <2>2 DEF TypeOK
    <2>4. HistoryTypeOK /\ Connecting /\ FailsForAReason
      BY DEF HistoryTypeOK, Connecting, FailsForAReason
    <2>5. InStep /\ FramesInOrder
      BY DEF InStep, FramesInOrder, Unsent
    <2> QED BY <2>3, <2>4, <2>5 DEF IInv
  <1> QED BY <1>1, NextKeeps, PTL DEF Spec

----------------------------------------------------------------------------
(* Who closes the stream.                                                  *)

\* A connect that fails has brought no stream up.
Stoppable == (conn = "err" => stream = "new") /\ UpIsStoppable

\* Only the connect takes a slot away without calling it, and then there is no
\* stream; calling it begins the close, and a close that is over leaves the
\* stream failed.
LEMMA NextKeepsStoppable ==
  ASSUME IInv, Stoppable, [Next]_vars
  PROVE  Stoppable'
  <1> USE DEF IInv, Stoppable, UpIsStoppable
  <1>1. CASE AppStart \/ NextStage
    BY <1>1 DEF AppStart, NextStage, netvars, Connecting
  <1>2. CASE OnSignal
    <2>1. /\ stream' = stream /\ slot' = "none"
          /\ conn' = conn \/ (conn = "pending" /\ conn' = "err")
          /\ slot = "close" => close' = "pending"
          /\ slot # "close" => close' = close
      BY <1>2 DEF OnSignal, CallSlot, Abort
    <2> QED BY <2>1 DEF Connecting
  <1>3. CASE ConnectEnds
    <2>1. conn = "err" \/ (conn = "ok" /\ stage < Len(Stages))
      BY <1>3 DEF ConnectEnds, Stages, TypeOK
    <2> QED BY <1>3, <2>1 DEF ConnectEnds, Connecting
  <1>4. CASE ConnectDone
    BY <1>4 DEF ConnectDone
  <1>5. CASE OnClose \/ CloseEnds
    BY <1>5 DEF OnClose, CloseEnds, FailsForAReason, Connecting
  <1>6. CASE StageEnds
    <2>1. conn = "pending" /\ stream = "new" /\ conn' \in {"ok", "err"}
          /\ (conn' = "err" => stream' = stream)
      BY <1>6 DEF StageEnds, Connecting
    <2> QED BY <2>1
  <1>7. CASE StreamFails
    BY <1>7 DEF StreamFails, netvars
  <1>8. CASE \/ OnRead \/ OnWrite \/ PingOnTimer \/ SignalArrives \/ ReadsFrame
             \/ WriteOk \/ OperationFails \/ PingTimerExpires \/ UNCHANGED vars
    <2>1. UNCHANGED <<conn, stream, slot, close>>
      BY <1>8
      DEF OnRead, OnWrite, PingOnTimer, SignalArrives, ReadsFrame, WriteOk,
          OperationFails, PingTimerExpires, vars, netvars
    <2> QED BY <2>1
  <1> QED BY <1>1, <1>2, <1>3, <1>4, <1>5, <1>6, <1>7, <1>8 DEF Next

----------------------------------------------------------------------------
(* Theorems.                                                               *)

\* The variables keep their types.
THEOREM TypeCorrect == Spec => []TypeOK
  <1>1. IInv => TypeOK
    BY DEF IInv
  <1> QED BY <1>1, AlwaysIInv, PTL

\* What reaches the peer is a prefix of what was posted, and on a working stream
\* that is not being closed no frame is dropped.
THEOREM FramesLeaveInOrder == Spec => []FramesInOrder
  <1>1. IInv => FramesInOrder
    BY DEF IInv
  <1> QED BY <1>1, AlwaysIInv, PTL

\* A connected stream is never beyond the reach of a stop: a slot will close it or
\* the close is under way.
THEOREM StreamStaysStoppable == Spec => []UpIsStoppable
  <1>1. Init => Stoppable
    BY DEF Init, Stoppable, UpIsStoppable
  <1>2. Stoppable => UpIsStoppable
    BY DEF Stoppable
  <1> QED BY <1>1, <1>2, AlwaysIInv, NextKeepsStoppable, PTL DEF Spec
=============================================================================
