------------------------ MODULE EchoConnectionProofs ------------------------
(***************************************************************************)
(* Proofs about EchoConnection, for every length of session, number of     *)
(* messages and length of greeting.                                        *)
(***************************************************************************)
EXTENDS EchoConnection, SequenceTheorems, TLAPS

\* What each operation being outstanding says about the rest of the connection.
\* The properties below are not inductive without it: that accept does not
\* overlap a read needs that a handshake excludes reads, that a stop closes only
\* once needs that only a closing connection has a close outstanding.
Slots ==
  /\ stream = "new" =>
       /\ {accept, rx, tx, close, timer} = {"idle"}
       /\ state_ = "handshaking" /\ time_remaining_ = Ticks
       /\ sent = <<>>
  /\ ec_ <=> state_ = "closing"
  /\ state_ = "handshaking" => rx = "idle" /\ tx = "idle" /\ close = "idle"
  /\ state_ = "chatting" => accept = "idle" /\ close = "idle"
  /\ tx # "idle" => sending_state_ = "sending"

IInv ==
  /\ TypeOK
  /\ ContractsKept
  /\ Slots
  /\ DeadlineArmed
  /\ BufferStable
  /\ QueueIsUnsentSuffix

----------------------------------------------------------------------------
(* Sequences.                                                              *)

\* Sending the front of a queue that follows what was sent changes nothing.
LEMMA SendFront ==
  ASSUME NEW S, NEW s \in Seq(S), NEW q \in Seq(S), q # <<>>
  PROVE  Append(s, Head(q)) \o Tail(q) = s \o q
  OBVIOUS

\* Queueing a message and logging it keeps log and queue in step.
LEMMA PostBack ==
  ASSUME NEW S, NEW s \in Seq(S), NEW q \in Seq(S), NEW m \in S
  PROVE  s \o Append(q, m) = Append(s \o q, m)
  OBVIOUS

\* Appending behind a queue that is not empty leaves its front and
\* appends to its tail.
LEMMA AppendBehind ==
  ASSUME NEW S, NEW q \in Seq(S), NEW m \in S, q # <<>>
  PROVE  /\ Append(q, m) \in Seq(S) /\ Append(q, m) # <<>>
         /\ Head(Append(q, m)) = Head(q)
         /\ Tail(Append(q, m)) = Append(Tail(q), m)
         /\ Tail(q) \in Seq(S) /\ Head(q) \in S
  OBVIOUS

----------------------------------------------------------------------------
(* Messages.                                                               *)

\* Whatever the handlers produce is a Message.
LEMMA MessageTypes ==
  /\ \A n \in 1 .. Greeting : Welcome(n) \in Message
  /\ \A n \in 0 .. MaxRx : Echo(n) \in Message
  /\ \A n \in 0 .. Ticks : Tick(n) \in Message
  BY TicksAssumption, MaxRxAssumption, GreetingAssumption
  DEF Welcome, Echo, Tick, Message

----------------------------------------------------------------------------
(* The parts of the handlers.                                              *)

\* Posting a message keeps the queue the unsent suffix of the log, and the
\* message in flight at its front.
LEMMA HandleSend ==
  ASSUME IInv, NEW m \in Message, handle_send(m), sent' = sent
  PROVE  /\ tx_queue_' \in Seq(Message) /\ posted' \in Seq(Message)
         /\ sending_state_' \in {"send_idle", "sending"}
         /\ tx' \in OpState \ {"overlap"}
         /\ txbuf' \in Message \cup {NoMessage}
         /\ BufferStable' /\ QueueIsUnsentSuffix'
         /\ tx' # "idle" => sending_state_' = "sending"
         /\ tx' # tx => tx' = "pending" /\ tx = "idle" /\ state_ = "chatting" /\ ~ec_
  <1>1. tx \in {"pending", "ok"} => tx_queue_ # <<>>
    BY DEF IInv, BufferStable
  <1>2. /\ tx_queue_' = Append(tx_queue_, m) /\ posted' = Append(posted, m)
        /\ tx_queue_' \in Seq(Message) /\ posted' \in Seq(Message)
        /\ tx_queue_' # <<>>
    BY DEF IInv, TypeOK, handle_send
  <1>3. sent \o Append(tx_queue_, m) = Append(sent \o tx_queue_, m)
    BY PostBack DEF IInv, TypeOK
  <1>4. CASE tx' = tx /\ txbuf' = txbuf /\ sending_state_' = sending_state_
    <2>1. BufferStable'
      BY <1>1, <1>2, <1>4, AppendBehind DEF IInv, TypeOK, BufferStable
    <2>2. QueueIsUnsentSuffix'
      <3>1. CASE tx = "ok"
        <4>1. tx_queue_ \in Seq(Message) /\ sent \in Seq(Message)
          BY DEF IInv, TypeOK
        <4>2. tx_queue_ # <<>> /\ tx' = "ok"
          BY <1>1, <1>4, <3>1
        <4>3. /\ Tail(tx_queue_') = Append(Tail(tx_queue_), m)
              /\ Tail(tx_queue_) \in Seq(Message)
          BY <1>2, <4>1, <4>2, AppendBehind
        <4>4. sent \o Append(Tail(tx_queue_), m) = Append(sent \o Tail(tx_queue_), m)
          BY <4>1, <4>3, PostBack
        <4> QED
          BY <1>2, <3>1, <4>2, <4>3, <4>4 DEF IInv, QueueIsUnsentSuffix, Unsent
      <3>2. CASE tx # "ok"
        BY <1>2, <1>4, <1>3, <3>2 DEF IInv, QueueIsUnsentSuffix, Unsent
      <3> QED BY <3>1, <3>2
    <2> QED
      BY <1>2, <1>4, <2>1, <2>2 DEF IInv, TypeOK, ContractsKept, Slots
  <1>5. CASE /\ sending_state_ # "sending" /\ state_ = "chatting" /\ ~ec_
             /\ initiate_tx(Head(tx_queue_'), tx)
    <2>1. tx = "idle" /\ tx' = "pending" /\ txbuf' = Head(tx_queue_')
      BY <1>5 DEF IInv, Slots, initiate_tx, Initiate
    <2>2. QueueIsUnsentSuffix'
      BY <1>2, <1>3, <2>1 DEF IInv, QueueIsUnsentSuffix, Unsent
    <2> QED
      BY <1>2, <1>5, <2>1, <2>2
      DEF IInv, initiate_tx, BufferStable, OpState
  <1> QED
    BY <1>4, <1>5 DEF handle_send, maybe_send_next

\* Stopping keeps every part of the invariant it can disturb, whatever the
\* timer's operation is when it is entered.
LEMMA HandleStop ==
  ASSUME IInv, NEW slot \in OpState \ {"overlap"}, handle_stop(slot),
         stream # "new", broken' = broken,
         UNCHANGED <<sending_state_, tx_queue_, time_remaining_, rx, tx, txbuf,
                     posted, sent, received>>
  PROVE  IInv'
  <1>1. TypeOK'
    BY DEF IInv, TypeOK, Slots, handle_stop, Abort, Initiate, OpState, StreamState
  <1>2. ContractsKept' /\ Slots' /\ DeadlineArmed'
    BY DEF IInv, TypeOK, ContractsKept, Slots, DeadlineArmed, handle_stop,
           Abort, Initiate, OpState, StreamState
  <1>3. BufferStable' /\ QueueIsUnsentSuffix'
    BY DEF IInv, BufferStable, QueueIsUnsentSuffix, Unsent
  <1> QED BY <1>1, <1>2, <1>3 DEF IInv

----------------------------------------------------------------------------
(* The inductive invariant.                                                *)

\* The constructor of connection_impl establishes the invariant.
LEMMA InitIInv == Init => IInv
  <1> SUFFICES ASSUME Init PROVE IInv
    OBVIOUS
  <1>1. TypeOK
    <2>1. tx_queue_ \in Seq(Message) /\ posted \in Seq(Message) /\ sent \in Seq(Message)
      BY EmptySeq DEF Init
    <2>2. time_remaining_ \in 0 .. Ticks /\ received \in 0 .. MaxRx
      BY TicksAssumption, MaxRxAssumption DEF Init
    <2>3. {accept, rx, tx, close, timer} \subseteq OpState /\ stream \in StreamState
      BY DEF Init, OpState, StreamState
    <2>4. ec_ \in BOOLEAN /\ broken \subseteq Asserts
      BY DEF Init
    <2> QED BY <2>1, <2>2, <2>3, <2>4 DEF Init, TypeOK
  <1>2. ContractsKept /\ Slots /\ DeadlineArmed /\ BufferStable
    BY DEF Init, ContractsKept, Slots, DeadlineArmed, BufferStable
  <1>3. QueueIsUnsentSuffix
    BY ConcatEmptySeq, EmptySeq DEF Init, QueueIsUnsentSuffix, Unsent
  <1> QED BY <1>1, <1>2, <1>3 DEF IInv

\* run() and the greeting that follows it keep the invariant.
LEMMA RunIInv == IInv /\ Run => IInv'
  <1> SUFFICES ASSUME IInv, Run PROVE IInv'
    OBVIOUS
  <1>1. /\ accept' = "pending" /\ timer' = "pending" /\ stream' = "handshake"
        /\ time_remaining_ = Ticks /\ time_remaining_' = Ticks - 1
        /\ broken' = broken /\ sent = <<>>
        /\ rx = "idle" /\ tx = "idle" /\ close = "idle"
        /\ state_ = "handshaking" /\ ~ec_
    BY TicksAssumption
    DEF IInv, TypeOK, Slots, Run, initiate_timer, Initiate, Unless, Asserts
  <1>2. tx_queue_' \in Seq(Message) /\ posted' = tx_queue_'
    <2>1. [n \in 1 .. Greeting |-> Welcome(n)] \in Seq(Message)
      BY MessageTypes, GreetingAssumption
    <2> QED BY <2>1 DEF Run
  <1>3. TypeOK'
    BY <1>1, <1>2, TicksAssumption DEF IInv, TypeOK, Run, OpState, StreamState
  <1>4. ContractsKept' /\ Slots' /\ DeadlineArmed' /\ BufferStable'
    BY <1>1 DEF IInv, TypeOK, ContractsKept, Slots, DeadlineArmed,
                BufferStable, Run
  <1>5. QueueIsUnsentSuffix'
    <2>1. tx' = "idle" /\ sent' = <<>>
      BY <1>1 DEF Run
    <2> QED BY <1>2, <2>1, ConcatEmptySeq DEF QueueIsUnsentSuffix, Unsent
  <1> QED BY <1>3, <1>4, <1>5 DEF IInv

\* handle_accept keeps it, whether or not the session was stopped meanwhile.
LEMMA AcceptIInv == IInv /\ HandleAccept => IInv'
  <1> SUFFICES ASSUME IInv, HandleAccept PROVE IInv'
    OBVIOUS
  <1>1. CASE ec_ \/ accept = "err"
    <2>1. TypeOK' /\ ContractsKept' /\ Slots' /\ DeadlineArmed'
      BY <1>1 DEF IInv, TypeOK, ContractsKept, Slots, DeadlineArmed,
                  HandleAccept, OpState
    <2>2. BufferStable' /\ QueueIsUnsentSuffix'
      BY <1>1 DEF IInv, BufferStable, QueueIsUnsentSuffix, Unsent, HandleAccept
    <2> QED BY <2>1, <2>2 DEF IInv
  <1>2. CASE ~(ec_ \/ accept = "err")
    <2>1. /\ state_ = "handshaking" /\ rx = "idle" /\ tx = "idle"
          /\ close = "idle" /\ stream # "new"
      BY <1>2 DEF IInv, TypeOK, Slots, HandleAccept
    <2>2. /\ rx' = "pending" /\ broken' = broken /\ state_' = "chatting"
          /\ accept' = "idle" /\ ~ec_'
      BY <1>2, <2>1 DEF HandleAccept, initiate_rx, Initiate, Unless
    <2>3. /\ tx' \in {"idle", "pending"}
          /\ tx' = "pending" =>
               /\ tx_queue_ # <<>> /\ txbuf' = Head(tx_queue_)
               /\ sending_state_' = "sending"
          /\ tx' = "idle" => txbuf' = txbuf /\ sending_state_' = sending_state_
      BY <1>2, <2>1
      DEF HandleAccept, maybe_send_next, initiate_tx, Initiate
    <2>4. TypeOK'
      BY <2>2, <2>3 DEF IInv, TypeOK, HandleAccept, OpState
    <2>5. ContractsKept' /\ Slots' /\ DeadlineArmed'
      BY <2>1, <2>2, <2>3
      DEF IInv, TypeOK, ContractsKept, Slots, DeadlineArmed, HandleAccept
    <2>6. BufferStable' /\ QueueIsUnsentSuffix'
      BY <2>1, <2>3
      DEF IInv, BufferStable, QueueIsUnsentSuffix, Unsent, HandleAccept
    <2> QED BY <2>4, <2>5, <2>6 DEF IInv
  <1> QED BY <1>1, <1>2

\* handle_rx keeps it: the echo goes to the back of the queue.
LEMMA RxIInv == IInv /\ HandleRx => IInv'
  <1> SUFFICES ASSUME IInv, HandleRx PROVE IInv'
    OBVIOUS
  <1>1. CASE rx = "err"
    <2>1. TypeOK' /\ ContractsKept' /\ Slots' /\ DeadlineArmed'
      BY <1>1 DEF IInv, TypeOK, ContractsKept, Slots, DeadlineArmed, HandleRx,
                  OpState
    <2>2. BufferStable' /\ QueueIsUnsentSuffix'
      BY <1>1 DEF IInv, BufferStable, QueueIsUnsentSuffix, Unsent, HandleRx
    <2> QED BY <2>1, <2>2 DEF IInv
  <1>2. CASE rx = "ok"
    <2>1. Echo(received) \in Message
      BY MessageTypes DEF IInv, TypeOK
    <2>2. handle_send(Echo(received)) /\ sent' = sent
      BY <1>2 DEF HandleRx
    <2>3. /\ rx' = "pending"
          /\ broken' \subseteq Asserts /\ "time" \notin broken'
      BY <1>2 DEF IInv, TypeOK, ContractsKept, HandleRx, initiate_rx, Initiate,
                  Unless, Asserts
    <2>4. state_ # "handshaking" /\ stream # "new"
      BY <1>2 DEF IInv, Slots
    <2>5. TypeOK'
      BY <2>1, <2>2, <2>3, HandleSend DEF IInv, TypeOK, HandleRx, OpState
    <2>6. ContractsKept' /\ Slots' /\ DeadlineArmed'
      BY <2>1, <2>2, <2>3, <2>4, HandleSend
      DEF IInv, TypeOK, ContractsKept, Slots, DeadlineArmed, HandleRx
    <2>7. BufferStable' /\ QueueIsUnsentSuffix'
      BY <2>1, <2>2, HandleSend
    <2> QED BY <2>5, <2>6, <2>7 DEF IInv
  <1> QED BY <1>1, <1>2 DEF HandleRx

\* handle_tx keeps it: the front is popped only when it was sent.
LEMMA TxIInv == IInv /\ HandleTx => IInv'
  <1> SUFFICES ASSUME IInv, HandleTx PROVE IInv'
    OBVIOUS
  <1>1. CASE tx = "err"
    <2>1. TypeOK' /\ ContractsKept' /\ Slots' /\ DeadlineArmed'
      BY <1>1 DEF IInv, TypeOK, ContractsKept, Slots, DeadlineArmed, HandleTx,
                  OpState
    <2>2. BufferStable' /\ QueueIsUnsentSuffix'
      BY <1>1 DEF IInv, BufferStable, QueueIsUnsentSuffix, Unsent, HandleTx
    <2> QED BY <2>1, <2>2 DEF IInv
  <1>2. CASE tx = "ok"
    <2>1. tx_queue_ # <<>> /\ tx_queue_ \in Seq(Message)
      BY <1>2 DEF IInv, TypeOK, BufferStable
    <2>2. tx_queue_' = Tail(tx_queue_) /\ tx_queue_' \in Seq(Message)
      BY <1>2, <2>1 DEF HandleTx
    <2>3. /\ tx' \in {"idle", "pending"}
          /\ tx' = "pending" =>
               /\ tx_queue_' # <<>> /\ txbuf' = Head(tx_queue_')
               /\ sending_state_' = "sending"
               /\ state_ = "chatting"
          /\ tx' = "idle" => txbuf' = txbuf /\ sending_state_' = "send_idle"
      BY <1>2 DEF HandleTx, maybe_send_next, initiate_tx, Initiate
    <2>4. TypeOK'
      <3>1. txbuf' \in Message \cup {NoMessage}
        BY <2>2, <2>3, HeadTailProperties DEF IInv, TypeOK
      <3> QED
        BY <2>2, <2>3, <3>1 DEF IInv, TypeOK, HandleTx, OpState
    <2>5. ContractsKept' /\ Slots' /\ DeadlineArmed'
      BY <1>2, <2>3
      DEF IInv, TypeOK, ContractsKept, Slots, DeadlineArmed, HandleTx
    <2>6. BufferStable'
      BY <2>3 DEF BufferStable
    <2>7. QueueIsUnsentSuffix'
      BY <1>2, <2>2, <2>3 DEF IInv, QueueIsUnsentSuffix, Unsent, HandleTx
    <2> QED BY <2>4, <2>5, <2>6, <2>7 DEF IInv
  <1> QED BY <1>1, <1>2 DEF HandleTx

\* handle_timer keeps it, in each of its three outcomes.
LEMMA TimerIInv == IInv /\ HandleTimer => IInv'
  <1> SUFFICES ASSUME IInv, HandleTimer PROVE IInv'
    OBVIOUS
  <1>0. stream # "new" /\ timer # "overlap"
    BY DEF IInv, Slots, HandleTimer, ContractsKept
  <1>1. CASE timer = "err" \/ ec_
    <2>1. ec_
      BY <1>0, <1>1 DEF IInv, DeadlineArmed
    <2>2. /\ timer' = "idle"
          /\ UNCHANGED <<state_, sending_state_, tx_queue_, time_remaining_, ec_,
                         accept, rx, tx, close, stream, txbuf, posted, sent,
                         received, broken>>
      BY <2>1 DEF HandleTimer
    <2>3. TypeOK' /\ ContractsKept' /\ Slots' /\ DeadlineArmed'
      BY <2>1, <2>2, <1>0
      DEF IInv, TypeOK, ContractsKept, Slots, DeadlineArmed, OpState
    <2>4. BufferStable' /\ QueueIsUnsentSuffix'
      BY <2>2 DEF IInv, BufferStable, QueueIsUnsentSuffix, Unsent
    <2> QED BY <2>3, <2>4 DEF IInv
  <1>2. CASE timer = "ok" /\ ~ec_ /\ time_remaining_ # 0
    <2>1. /\ handle_send(Tick(time_remaining_)) /\ initiate_timer("idle")
          /\ UNCHANGED <<state_, ec_, accept, rx, close, stream, sent, received>>
      BY <1>2 DEF HandleTimer
    <2>2. Tick(time_remaining_) \in Message
      BY MessageTypes DEF IInv, TypeOK
    <2>3. /\ timer' = "pending" /\ broken' = broken
          /\ time_remaining_' \in 0 .. Ticks
      BY <1>2, <2>1, TicksAssumption
      DEF IInv, TypeOK, initiate_timer, Initiate, Unless
    <2>4. TypeOK'
      BY <2>1, <2>2, <2>3, HandleSend DEF IInv, TypeOK, OpState
    <2>5. ContractsKept' /\ Slots' /\ DeadlineArmed'
      BY <1>0, <2>1, <2>2, <2>3, HandleSend
      DEF IInv, TypeOK, ContractsKept, Slots, DeadlineArmed
    <2>6. BufferStable' /\ QueueIsUnsentSuffix'
      BY <2>1, <2>2, HandleSend
    <2> QED BY <2>4, <2>5, <2>6 DEF IInv
  <1>3. CASE timer = "ok" /\ ~ec_ /\ time_remaining_ = 0
    BY <1>0, <1>3, HandleStop DEF HandleTimer, OpState
  <1> QED BY <1>1, <1>2, <1>3 DEF HandleTimer

\* Completions reported by Beast, Asio and the clock.
Completion ==
  \/ AcceptCompletes \/ ReadCompletes \/ WriteCompletes \/ CloseCompletes
  \/ StreamFails \/ ReadFails \/ WriteFails \/ CloseFails
  \/ TimerExpires

\* Completions, which no code of the connection takes part in, keep it.
LEMMA CompletionIInv == IInv /\ Completion => IInv'
  <1> SUFFICES ASSUME IInv, Completion PROVE IInv'
    OBVIOUS
  <1> USE DEF IInv, TypeOK, ContractsKept, Slots, DeadlineArmed, OpState, StreamState
  <1>1. CASE WriteCompletes
    <2>1. /\ tx_queue_ # <<>> /\ txbuf = Head(tx_queue_)
          /\ tx_queue_ \in Seq(Message) /\ sent \in Seq(Message)
          /\ txbuf \in Message
      BY <1>1, HeadTailProperties DEF WriteCompletes, BufferStable
    <2>2. sent' = Append(sent, Head(tx_queue_)) /\ sent' \in Seq(Message)
      BY <1>1, <2>1 DEF WriteCompletes
    <2>3. TypeOK' /\ ContractsKept' /\ Slots' /\ DeadlineArmed'
      BY <1>1, <2>2 DEF WriteCompletes
    <2>4. BufferStable'
      BY <1>1, <2>1 DEF WriteCompletes, BufferStable
    <2>5. QueueIsUnsentSuffix'
      <3>1. sent' \o Tail(tx_queue_) = sent \o tx_queue_
        BY <2>1, <2>2, SendFront
      <3> QED BY <1>1, <3>1 DEF WriteCompletes, QueueIsUnsentSuffix, Unsent
    <2> QED BY <2>3, <2>4, <2>5
  <1>2. ASSUME Completion, ~WriteCompletes PROVE IInv'
    <2>1. /\ UNCHANGED <<state_, sending_state_, tx_queue_, time_remaining_, ec_,
                         txbuf, posted, sent, broken>>
          /\ tx' # tx => tx = "pending" /\ tx' = "err"
      BY <1>2
      DEF Completion, AcceptCompletes, ReadCompletes, CloseCompletes,
          StreamFails, ReadFails, WriteFails, CloseFails, TimerExpires
    <2>2. BufferStable' /\ QueueIsUnsentSuffix'
      BY <2>1 DEF BufferStable, QueueIsUnsentSuffix, Unsent
    <2>3. TypeOK'
      BY <1>2, <2>1, MaxRxAssumption
      DEF Completion, AcceptCompletes, ReadCompletes, CloseCompletes,
          StreamFails, ReadFails, WriteFails, CloseFails, TimerExpires
    <2>4. ContractsKept' /\ Slots' /\ DeadlineArmed'
      BY <1>2, <2>1
      DEF Completion, AcceptCompletes, ReadCompletes, CloseCompletes,
          StreamFails, ReadFails, WriteFails, CloseFails, TimerExpires
    <2> QED BY <2>2, <2>3, <2>4
  <1> QED BY <1>1, <1>2

\* Every step keeps it.
LEMMA StepIInv == IInv /\ [Next]_vars => IInv'
  <1> SUFFICES ASSUME IInv, [Next]_vars PROVE IInv'
    OBVIOUS
  <1>1. CASE Run BY <1>1, RunIInv
  <1>2. CASE HandleAccept BY <1>2, AcceptIInv
  <1>3. CASE HandleRx BY <1>3, RxIInv
  <1>4. CASE HandleTx BY <1>4, TxIInv
  <1>5. CASE HandleTimer BY <1>5, TimerIInv
  <1>6. CASE HandleClose
    <2>1. TypeOK' /\ ContractsKept' /\ Slots' /\ DeadlineArmed'
      BY <1>6 DEF IInv, TypeOK, ContractsKept, Slots, DeadlineArmed,
                  HandleClose, OpState
    <2>2. BufferStable' /\ QueueIsUnsentSuffix'
      BY <1>6 DEF IInv, BufferStable, QueueIsUnsentSuffix, Unsent, HandleClose
    <2> QED BY <2>1, <2>2 DEF IInv
  <1>7. CASE Stop
    <2>1. timer \in OpState \ {"overlap"}
      BY DEF IInv, TypeOK, ContractsKept
    <2> QED BY <1>7, <2>1, HandleStop DEF Stop
  <1>8. CASE Completion BY <1>8, CompletionIInv
  <1>9. CASE UNCHANGED vars
    BY <1>9 DEF vars, IInv, TypeOK, ContractsKept, Slots, DeadlineArmed,
                BufferStable, QueueIsUnsentSuffix, Unsent
  <1> QED
    BY <1>1, <1>2, <1>3, <1>4, <1>5, <1>6, <1>7, <1>8, <1>9 DEF Next, Completion

\* The invariant holds in every state of every behaviour.
LEMMA AlwaysIInv == Spec => []IInv
  BY InitIInv, StepIInv, PTL DEF Spec

----------------------------------------------------------------------------
(* Safety.                                                                 *)

\* The connection's fields always have their declared types, time_remaining_
\* never goes below zero and every queued message is one that was produced.
THEOREM TypeCorrect == Spec => []TypeOK
  <1>1. IInv => TypeOK
    BY DEF IInv
  <1> QED BY <1>1, AlwaysIInv, PTL

\* handle_send, initiate_tx and handle_tx lose, repeat and reorder no message.
THEOREM NothingLost == Spec => []QueueIsUnsentSuffix
  <1>1. IInv => QueueIsUnsentSuffix
    BY DEF IInv
  <1> QED BY <1>1, AlwaysIInv, PTL

\* The memory handed to async_write (net::buffer(tx_queue_.front())) is the front
\* of the queue until the write is over, whatever is posted meanwhile.
THEOREM BufferStays == Spec => []BufferStable
  <1>1. IInv => BufferStable
    BY DEF IInv
  <1> QED BY <1>1, AlwaysIInv, PTL

\* However stops, time-outs, failures and completions interleave, the connection
\* has at most one accept, read, write, close and wait outstanding, and it never
\* starts a wait without time left.
THEOREM NoOverlaps == Spec => []ContractsKept
  <1>1. IInv => ContractsKept
    BY DEF IInv
  <1> QED BY <1>1, AlwaysIInv, PTL

\* A handshake that completed before a stop, and whose handler runs after it, does
\* not revive the session (handle_accept looks at ec_).
THEOREM StopIsFinal == Spec => []NoChatAfterStop
  <1>1. IInv => NoChatAfterStop
    BY DEF IInv, Slots, NoChatAfterStop
  <1> QED BY <1>1, AlwaysIInv, PTL

\* Until it is stopped a session has its timer running, so that a handshake that
\* fails or never ends does not keep it for ever (initiate_timer, handle_timer).
THEOREM TimerRuns == Spec => []DeadlineArmed
  <1>1. IInv => DeadlineArmed
    BY DEF IInv
  <1> QED BY <1>1, AlwaysIInv, PTL

\* Once stopped the connection begins no write, no wait and no close: the guards
\* of maybe_send_next, handle_timer and handle_stop cover every interleaving.
THEOREM StoppedIsQuiet == Spec => QuietAfterStop
  <1> DEFINE Quiet == ec_ => /\ tx' = "pending" => tx = "pending"
                             /\ timer' = "pending" => timer = "pending"
                             /\ close' = "pending" => close = "pending"
  <1>1. IInv /\ [Next]_vars => [Quiet]_vars
    <2> SUFFICES ASSUME IInv, Next, ec_ PROVE Quiet
      OBVIOUS
    <2>1. state_ = "closing" /\ stream # "new"
      BY DEF IInv, Slots
    <2>2. CASE Stop \/ HandleTimer
      BY <2>1, <2>2 DEF Stop, HandleTimer, handle_stop, Abort
    <2>3. CASE HandleAccept \/ HandleTx \/ HandleClose
      BY <2>1, <2>3 DEF HandleAccept, HandleTx, HandleClose, maybe_send_next
    <2>4. CASE HandleRx
      BY <2>1, <2>4 DEF HandleRx, handle_send, maybe_send_next
    <2>5. CASE Completion
      BY <2>5
      DEF Completion, AcceptCompletes, ReadCompletes, WriteCompletes,
          CloseCompletes, StreamFails, ReadFails, WriteFails, CloseFails,
          TimerExpires
    <2> QED
      BY <2>1, <2>2, <2>3, <2>4, <2>5 DEF Next, Run, Completion
  <1> QED BY <1>1, AlwaysIInv, PTL DEF Spec, QuietAfterStop

\* After a failed write the connection never writes again.
THEOREM FailedWriteIsLast == Spec => FrozenAfterFailedWrite
  <1> DEFINE Frozen == WriteFailed => WriteFailed' /\ UNCHANGED <<sending_state_, sent>>
  <1>1. IInv /\ [Next]_vars => [Frozen]_vars
    <2> SUFFICES ASSUME IInv, Next, WriteFailed
                 PROVE  WriteFailed' /\ UNCHANGED <<sending_state_, sent>>
      OBVIOUS
    <2>0. sending_state_ = "sending" /\ tx \in {"err", "idle"}
      BY DEF IInv, Slots, WriteFailed
    <2>1. CASE Run \/ Stop \/ HandleClose \/ HandleTx
      BY <2>0, <2>1 DEF WriteFailed, Run, Stop, HandleClose, HandleTx
    <2>2. CASE HandleAccept \/ HandleRx \/ HandleTimer
      BY <2>0, <2>2
      DEF WriteFailed, HandleAccept, HandleRx, HandleTimer, handle_send, maybe_send_next
    <2>3. CASE Completion
      BY <2>0, <2>3
      DEF WriteFailed, Completion, AcceptCompletes, ReadCompletes, WriteCompletes,
          CloseCompletes, StreamFails, ReadFails, WriteFails, CloseFails,
          TimerExpires
    <2> QED BY <2>1, <2>2, <2>3 DEF Next, Completion
  <1> QED BY <1>1, AlwaysIInv, PTL DEF Spec, FrozenAfterFailedWrite

----------------------------------------------------------------------------
(* Refinement.                                                             *)

\* The message after those that were sent is the front of the queue.
LEMMA NextUnsent ==
  ASSUME NEW S, NEW s \in Seq(S), NEW q \in Seq(S), q # <<>>
  PROVE  Len(s) < Len(s \o q) /\ (s \o q)[Len(s) + 1] = Head(q)
  OBVIOUS

\* Every step of the connection is a step of a Session or leaves it unchanged.
LEMMA StepRefines ==
  ASSUME IInv, IInv', Next
  PROVE  [Abstract!SNext]_(Abstract!svars)
  <1> DEFINE grace == ec_ => tx = "pending"
  <1>1. CASE Run
    <2>1. Abstract!Start
      <3>1. Phase = "new" /\ Phase' = "handshake"
        <4>1. /\ stream = "new" /\ stream' = "handshake"
              /\ accept = "idle" /\ state_ = "handshaking" /\ ~ec_
          BY <1>1 DEF IInv, Slots, Run
        <4>2. accept' = "pending" /\ state_' = "handshaking" /\ ~ec_'
          BY <1>1, <4>1 DEF Run, Initiate
        <4>3. Outstanding'
          BY <4>2 DEF Outstanding
        <4> QED BY <4>1, <4>2, <4>3 DEF Phase
      <3>2. posted' \in Seq(Message) /\ sent' = sent /\ grace' = grace
        BY <1>1 DEF IInv, TypeOK, Run
      <3> QED BY <3>1, <3>2 DEF Abstract!Start
    <2> QED BY <2>1 DEF Abstract!SNext
  <1>2. CASE WriteCompletes
    <2>1. /\ stream = "open" /\ tx = "pending" /\ tx' = "ok" /\ grace
          /\ state_ # "handshaking"
      BY <1>2 DEF IInv, Slots, WriteCompletes
    <2>2. Phase \in {"open", "stopping"} /\ Phase' = Phase
      BY <1>2, <2>1
      DEF IInv, Slots, TypeOK, WriteCompletes, Phase, Outstanding
    <2>3. grace' = (Phase = "open")
      BY <1>2, <2>1, <2>2 DEF IInv, TypeOK, WriteCompletes, Phase, Outstanding
    <2>4. /\ Len(sent) < Len(posted)
          /\ sent' = Append(sent, posted[Len(sent) + 1])
      BY <1>2, <2>1, NextUnsent
      DEF IInv, TypeOK, WriteCompletes, BufferStable, QueueIsUnsentSuffix, Unsent
    <2>5. Abstract!Deliver
      BY <1>2, <2>1, <2>2, <2>3, <2>4 DEF Abstract!Deliver, WriteCompletes
    <2> QED BY <2>5 DEF Abstract!SNext
  <1>3. CASE WriteFails
    <2>1. /\ grace /\ Phase' = Phase /\ ~(ec_' /\ grace')
          /\ posted' = posted /\ sent' = sent /\ ec_' = ec_
      BY <1>3 DEF WriteFails, Phase, Outstanding
    <2>2. ec_ => Phase = "stopping"
      BY <1>3 DEF IInv, Slots, WriteFails, Phase, Outstanding
    <2>3. CASE ec_
      BY <2>1, <2>2, <2>3 DEF Abstract!SNext, Abstract!Lose
    <2>4. CASE ~ec_
      BY <2>1, <2>4 DEF Abstract!svars
    <2> QED BY <2>3, <2>4
  <1>4. CASE HandleRx /\ rx = "ok"
    <2>1. posted' = Append(posted, Echo(received)) /\ sent' = sent
      BY <1>4 DEF HandleRx, handle_send
    <2>2. Echo(received) \in Message
      BY MessageTypes DEF IInv, TypeOK
    <2>3. grace' = grace
      BY <1>4 DEF HandleRx, handle_send, maybe_send_next, IInv, TypeOK
    <2>4. Phase' = Phase /\ Phase \in {"open", "stopping"}
      BY <1>4
      DEF HandleRx, initiate_rx, Initiate, IInv, TypeOK, Slots, Phase, Outstanding
    <2>5. Abstract!Post(Echo(received))
      BY <2>1, <2>3, <2>4 DEF Abstract!Post
    <2> QED BY <2>2, <2>5 DEF Abstract!SNext
  <1>5. CASE HandleTimer /\ timer = "ok" /\ ~ec_ /\ time_remaining_ # 0
    <2>1. posted' = Append(posted, Tick(time_remaining_)) /\ sent' = sent
      BY <1>5 DEF HandleTimer, handle_send
    <2>2. Tick(time_remaining_) \in Message
      BY MessageTypes DEF IInv, TypeOK
    <2>3. ec_' = ec_ /\ grace' = grace
      BY <1>5 DEF HandleTimer
    <2>4. Phase' = Phase /\ Phase \in {"handshake", "open"}
      BY <1>5
      DEF HandleTimer, initiate_timer, Initiate, IInv, TypeOK, Slots, Phase,
          Outstanding
    <2>5. Abstract!Post(Tick(time_remaining_))
      BY <2>1, <2>3, <2>4 DEF Abstract!Post
    <2> QED BY <2>2, <2>5 DEF Abstract!SNext
  <1>6. CASE ~ec_ /\ (Stop \/ (HandleTimer /\ timer = "ok" /\ time_remaining_ = 0))
    <2>1. /\ posted' = posted /\ sent' = sent /\ tx' = tx
          /\ stream # "new" /\ stream' # "new" /\ ec_' = TRUE
      BY <1>6 DEF Stop, HandleTimer, handle_stop, IInv, Slots
    <2>2. Phase \in {"handshake", "open"} /\ Phase' \in {"stopping", "gone"}
      BY <1>6, <2>1 DEF IInv, DeadlineArmed, Phase, Outstanding
    <2>3. grace' \in BOOLEAN
      OBVIOUS
    <2>4. Abstract!Stop
      BY <2>1, <2>2, <2>3 DEF Abstract!Stop
    <2> QED BY <2>4 DEF Abstract!SNext
  <1>7. CASE HandleAccept /\ ~ec_ /\ accept = "ok"
    <2>1. /\ posted' = posted /\ sent' = sent /\ ec_' = ec_ /\ grace' = grace
          /\ state_ = "handshaking" /\ state_' = "chatting"
      BY <1>7 DEF HandleAccept, IInv, Slots, TypeOK
    <2>2. Phase = "handshake" /\ Phase' = "open"
      BY <1>7, <2>1
      DEF HandleAccept, IInv, Slots, TypeOK, DeadlineArmed, Phase, Outstanding
    <2>3. Abstract!Establish
      BY <2>1, <2>2 DEF Abstract!Establish
    <2> QED BY <2>3 DEF Abstract!SNext
  <1>8. CASE StreamFails
    BY <1>8 DEF StreamFails, Phase, Outstanding, Abstract!svars
  \* Every other step moves an operation on and shows nothing, except that the
  \* connection may go with the last one.
  <1>9. ASSUME /\ posted' = posted /\ sent' = sent /\ ec_' = ec_
               /\ grace' = grace
               /\ stream # "new" /\ stream' # "new" /\ Outstanding
               /\ ~ec_ => state_' = state_
        PROVE  [Abstract!SNext]_(Abstract!svars)
    <2>1. Phase' = Phase \/ (Phase = "stopping" /\ Phase' = "gone")
      BY <1>9 DEF IInv, DeadlineArmed, Phase, Outstanding
    <2> QED
      BY <1>9, <2>1 DEF Abstract!SNext, Abstract!Finish, Abstract!svars
  <1>10. CASE HandleAccept /\ (ec_ \/ accept = "err")
    BY <1>9, <1>10 DEF HandleAccept, Outstanding, IInv, Slots
  <1>11. CASE HandleRx /\ rx = "err"
    BY <1>9, <1>11 DEF HandleRx, Outstanding, IInv, Slots
  <1>12. CASE HandleTx
    <2>1. ec_ => tx' # "pending"
      BY <1>12 DEF HandleTx, maybe_send_next
    <2>2. grace' = grace /\ ec_' = ec_
      BY <1>12, <2>1 DEF HandleTx, IInv, TypeOK
    <2> QED BY <1>9, <1>12, <2>2 DEF HandleTx, Outstanding, IInv, Slots
  <1>13. CASE HandleTimer /\ (timer = "err" \/ ec_)
    <2>1. ec_
      BY <1>13 DEF HandleTimer, IInv, Slots, DeadlineArmed
    <2> QED BY <1>9, <1>13, <2>1 DEF HandleTimer, Outstanding, IInv, Slots
  <1>14. CASE HandleClose
    BY <1>9, <1>14 DEF HandleClose, Outstanding, IInv, Slots
  <1>15. CASE Stop /\ ec_
    BY <1>9, <1>15 DEF Stop, handle_stop, Outstanding, IInv, Slots, TypeOK
  <1>16. CASE \/ AcceptCompletes \/ ReadCompletes \/ CloseCompletes
              \/ ReadFails \/ CloseFails \/ TimerExpires
    BY <1>9, <1>16
    DEF AcceptCompletes, ReadCompletes, CloseCompletes, ReadFails, CloseFails,
        TimerExpires, Outstanding, IInv, Slots
  <1> QED
    <2>1. CASE HandleTimer BY <2>1, <1>5, <1>6, <1>13 DEF HandleTimer
    <2>2. CASE HandleAccept BY <2>2, <1>7, <1>10 DEF HandleAccept
    <2>3. CASE HandleRx BY <2>3, <1>4, <1>11 DEF HandleRx
    <2>4. CASE Stop BY <2>4, <1>6, <1>15
    <2> QED
      BY <2>1, <2>2, <2>3, <2>4, <1>1, <1>2, <1>3, <1>8, <1>12, <1>14, <1>16
      DEF Next

\* The connection implements Session: its peer receives what was posted, in
\* order, nothing before the handshake and at most one message after a stop; and
\* it goes away only after it was stopped.
THEOREM ConnectionIsSession == Spec => Implements
  <1>1. Init => Abstract!SInit
    BY DEF Init, Abstract!SInit, Phase
  <1>2. IInv /\ IInv' /\ [Next]_vars => [Abstract!SNext]_(Abstract!svars)
    <2>1. UNCHANGED vars => UNCHANGED Abstract!svars
      BY DEF vars, Abstract!svars, Phase, Outstanding
    <2> QED BY <2>1, StepRefines
  <1> QED BY <1>1, <1>2, AlwaysIInv, PTL DEF Spec, Implements, Abstract!SSpec
=============================================================================
