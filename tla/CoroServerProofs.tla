-------------------------- MODULE CoroServerProofs --------------------------
(***************************************************************************)
(* Proofs about CoroServer and the ChatState inside it, for every number   *)
(* of messages, length of greeting and number of accepts.                  *)
(***************************************************************************)
EXTENDS CoroServer, TLAPS

\* Where the coroutines are, told from one another and from their operations.
Coroutines ==
  /\ run \in {"none", "posted"} <=> state = "initial_state"
  /\ run = "accepting" <=> state = "handshaking"
  /\ run = "reading" <=> state = "chatting"
  /\ run \in {"none", "posted", "accepting"} => txc = "none"
  /\ read # "idle" => run = "reading"
  /\ request # "none" <=> txc = "popping"
  /\ write # "idle" <=> txc = "writing"

ChannelTypeOK ==
  /\ queue \in Seq(Message) /\ handed \in Seq(Message) /\ alarm \in BOOLEAN
  /\ request \in {"none", "open", "value", "refused"}

\* Every message that was read is pushed, once its coroutine is resumed.
Pushed ==
  /\ read = "ok" => received > 0 /\ pushes = Greeting + received - 1
  /\ Exists /\ read # "ok" => pushes = Greeting + received
  /\ ~Exists => received = 0 /\ handed = <<>> /\ sent = <<>>

\* Nothing is handed out any more: txqueue was cleared and is about to refuse, has
\* refused, or tx has ended.
Drained == alarm \/ request = "refused" \/ txc = "done"

\* Until then txqueue holds what was pushed and not handed out, in order.
InStep ==
  /\ Len(handed) + Len(queue) = pushes
  /\ \A n \in DOMAIN queue : queue[n] = Len(handed) + n

\* tx writes what it was handed: it is behind by the message it holds.
Lag ==
  /\ request = "value" \/ write = "pending" => Len(handed) = Len(sent) + 1
  /\ txc \in {"none", "posted"} \/ request = "open" \/ write = "ok" =>
       Len(handed) = Len(sent)

Numbered ==
  /\ \A n \in DOMAIN handed : handed[n] = n
  /\ Drained \/ InStep
  /\ Lag
  /\ SentInOrder

IInv == TypeOK /\ Coroutines /\ ChannelTypeOK /\ Pushed /\ Numbered

\* notify_error never runs before the run coroutine has started, and what it did
\* to txqueue lasts.
Stopped == (ec => state # "initial_state") /\ StopReachesTx

----------------------------------------------------------------------------
(* Lemmas.                                                                 *)

\* A sequence that is appended to keeps its elements, and ends in the new one.
LEMMA Appended ==
  ASSUME NEW S, NEW s \in Seq(S), NEW c \in S
  PROVE  /\ Append(s, c) \in Seq(S) /\ Len(Append(s, c)) = Len(s) + 1
         /\ \A n \in DOMAIN Append(s, c) :
              /\ n \in DOMAIN s \/ n = Len(s) + 1
              /\ Append(s, c)[n] = IF n \in DOMAIN s THEN s[n] ELSE c
  OBVIOUS

\* The tail of a queue is the queue without its first element.
LEMMA TailOf ==
  ASSUME NEW S, NEW q \in Seq(S), q # <<>>
  PROVE  /\ Tail(q) \in Seq(S) /\ Len(Tail(q)) = Len(q) - 1 /\ Head(q) \in S
         /\ Head(q) = q[1] /\ 1 \in DOMAIN q
         /\ \A n \in DOMAIN Tail(q) : n + 1 \in DOMAIN q /\ Tail(q)[n] = q[n + 1]
  OBVIOUS

\* The message a read has brought and that is not pushed yet is the next one.
LEMMA NextPush ==
  ASSUME IInv, read = "ok"
  PROVE  pushes + 1 \in Message /\ pushes + 1 = Greeting + received /\ received > 0
  <1>1. /\ received > 0 /\ pushes = Greeting + received - 1
        /\ received \in 0 .. MaxRx
    BY DEF IInv, Pushed, TypeOK, ChatTypeOK
  <1> QED BY <1>1, MaxRxAssumption, GreetingAssumption DEF Message

\* Steps of a coroutine or the network that touch neither what is pushed nor what
\* is sent nor the channel.
LEMMA NumberingKept ==
  ASSUME IInv, UNCHANGED <<pushes, sent, chan>>,
         txc' = txc \/ (txc = "none" /\ txc' = "posted"),
         write' = write \/ write' = "err"
  PROVE  Numbered'
  BY DEF IInv, Numbered, Coroutines, Drained, InStep, Lag, SentInOrder, chan

----------------------------------------------------------------------------
(* The inductive invariant.                                                *)

\* on_message pushes behind what is queued.
LEMMA PushKeepsIInv ==
  ASSUME IInv, RunRead, read = "ok", UNCHANGED servervars
  PROVE  IInv'
  <1> USE DEF IInv
  <1>1. /\ read' = "pending" /\ pushes' = pushes + 1 /\ run = "reading"
        /\ queue' = Append(queue, pushes + 1)
        /\ UNCHANGED <<state, run, alarm, request, handed, ec, txc, stopc, accept,
                       write, close, stream, received, sent>>
    BY DEF RunRead, txqueue!Put
  <1>2. /\ pushes + 1 \in Message /\ pushes + 1 = Greeting + received
        /\ received \in 0 .. MaxRx /\ received > 0
    BY NextPush DEF TypeOK, ChatTypeOK
  <1>3. pushes' \in 0 .. (Greeting + MaxRx)
    BY <1>1, <1>2 DEF Message
  <1>4. /\ queue' \in Seq(Message) /\ Len(queue') = Len(queue) + 1
        /\ Len(queue) \in Nat /\ Len(handed) \in Nat
        /\ \A n \in DOMAIN queue' :
             /\ n \in DOMAIN queue \/ n = Len(queue) + 1
             /\ queue'[n] = IF n \in DOMAIN queue THEN queue[n] ELSE pushes + 1
    BY <1>1, <1>2, Appended DEF ChannelTypeOK
  <1>5. TypeOK'
    BY <1>1, <1>3 DEF TypeOK, ChatTypeOK, OpState, servervars
  <1>6. Coroutines' /\ ChannelTypeOK'
    BY <1>1, <1>4 DEF Coroutines, ChannelTypeOK
  <1>7. Pushed'
    BY <1>1, <1>2 DEF Pushed, Exists
  <1>8. Drained' <=> Drained
    BY <1>1 DEF Drained
  <1>9. InStep => InStep'
    <2> SUFFICES ASSUME InStep PROVE InStep'
      OBVIOUS
    <2>1. pushes + 1 = Len(handed) + (Len(queue) + 1)
      <3>1. Len(handed) + Len(queue) = pushes
        BY DEF InStep
      <3> QED BY <1>4, <3>1
    <2>2. \A n \in DOMAIN queue' : queue'[n] = Len(handed) + n
      BY <1>4, <2>1 DEF InStep
    <2> QED BY <1>1, <1>4, <2>1, <2>2 DEF InStep
  <1>10. Lag' /\ SentInOrder' /\ \A n \in DOMAIN handed' : handed'[n] = n
    BY <1>1 DEF Numbered, Lag, SentInOrder
  <1>11. Numbered'
    BY <1>8, <1>9, <1>10 DEF Numbered
  <1> QED BY <1>5, <1>6, <1>7, <1>11

\* txqueue hands out its front, which is the next message.
LEMMA HandKeepsIInv ==
  ASSUME IInv, txqueue!Hand, UNCHANGED servervars,
         UNCHANGED <<state, ec, run, txc, stopc, opvars, pushes, received, sent>>
  PROVE  IInv'
  <1> USE DEF IInv
  <1>1. /\ request = "open" /\ request' = "value" /\ ~alarm /\ alarm' = alarm
        /\ queue # <<>> /\ queue' = Tail(queue)
        /\ handed' = Append(handed, Head(queue)) /\ txc = "popping"
        /\ UNCHANGED <<accept, read, write, close, stream>>
    BY DEF txqueue!Hand, Coroutines, opvars
  <1>2. /\ queue' \in Seq(Message) /\ Len(queue') = Len(queue) - 1
        /\ Head(queue) \in Message /\ Head(queue) = queue[1] /\ 1 \in DOMAIN queue
        /\ \A n \in DOMAIN queue' : n + 1 \in DOMAIN queue /\ queue'[n] = queue[n + 1]
    BY <1>1, TailOf DEF ChannelTypeOK
  <1>3. /\ handed' \in Seq(Message) /\ Len(handed') = Len(handed) + 1
        /\ Len(handed) \in Nat /\ Len(queue) \in Nat
        /\ \A n \in DOMAIN handed' :
             /\ n \in DOMAIN handed \/ n = Len(handed) + 1
             /\ handed'[n] = IF n \in DOMAIN handed THEN handed[n] ELSE Head(queue)
    BY <1>1, <1>2, Appended DEF ChannelTypeOK
  <1>4. TypeOK'
    BY <1>1 DEF TypeOK, ChatTypeOK, servervars
  <1>5. Coroutines' /\ ChannelTypeOK'
    BY <1>1, <1>2, <1>3 DEF Coroutines, ChannelTypeOK
  <1>6. Exists /\ Pushed'
    BY <1>1 DEF Coroutines, Pushed, Exists
  <1>7. InStep
    BY <1>1 DEF Numbered, Drained
  <1>8. \A n \in DOMAIN handed' : handed'[n] = n
    <2>1. Head(queue) = Len(handed) + 1
      BY <1>2, <1>7 DEF InStep
    <2> QED BY <1>3, <2>1 DEF Numbered
  <1>9. InStep'
    <2>1. \A n \in DOMAIN queue' : queue'[n] = Len(handed') + n
      <3> SUFFICES ASSUME NEW n \in DOMAIN queue'
                   PROVE  queue'[n] = Len(handed') + n
        OBVIOUS
      <3>1. n \in Nat
        BY <1>2
      <3>2. queue'[n] = Len(handed) + (n + 1)
        BY <1>2, <1>7 DEF InStep
      <3> QED BY <1>3, <3>1, <3>2
    <2>2. (Len(handed) + 1) + (Len(queue) - 1) = Len(handed) + Len(queue)
      BY <1>3
    <2> QED BY <1>2, <1>3, <1>7, <2>1, <2>2 DEF InStep
  <1>10. Lag' /\ SentInOrder'
    <2>1. Len(handed) = Len(sent) /\ write = "idle"
      BY <1>1 DEF Numbered, Lag, Coroutines
    <2> QED BY <1>1, <1>3, <2>1 DEF Numbered, Lag, SentInOrder
  <1>11. Numbered'
    BY <1>8, <1>9, <1>10 DEF Numbered
  <1> QED BY <1>4, <1>5, <1>6, <1>11

\* async_write has sent the message that was handed out last.
LEMMA WriteKeepsIInv ==
  ASSUME IInv, WriteCompletes, UNCHANGED servervars
  PROVE  IInv'
  <1> USE DEF IInv
  <1>1. /\ write = "pending" /\ write' = "ok" /\ txc = "writing" /\ request = "none"
        /\ sent' = Append(sent, handed[Len(handed)])
        /\ UNCHANGED <<state, ec, run, txc, stopc, accept, read, close, stream,
                       pushes, received, queue, alarm, request, handed>>
    BY DEF WriteCompletes, chan, Coroutines
  <1>2. /\ Len(handed) = Len(sent) + 1 /\ Len(sent) \in Nat
        /\ Len(handed) \in DOMAIN handed /\ handed[Len(handed)] \in Message
        /\ handed[Len(handed)] = Len(handed)
    BY <1>1 DEF Numbered, Lag, ChannelTypeOK, TypeOK, ChatTypeOK
  <1>3. /\ sent' \in Seq(Message) /\ Len(sent') = Len(sent) + 1
        /\ \A n \in DOMAIN sent' :
             /\ n \in DOMAIN sent \/ n = Len(sent) + 1
             /\ sent'[n] = IF n \in DOMAIN sent THEN sent[n] ELSE handed[Len(handed)]
    BY <1>1, <1>2, Appended DEF TypeOK, ChatTypeOK
  <1>4. TypeOK'
    BY <1>1, <1>3 DEF TypeOK, ChatTypeOK, OpState, servervars
  <1>5. Coroutines' /\ ChannelTypeOK'
    BY <1>1 DEF Coroutines, ChannelTypeOK
  <1>6. Exists /\ Pushed'
    BY <1>1 DEF Coroutines, Pushed, Exists
  <1>7. SentInOrder'
    BY <1>2, <1>3 DEF Numbered, SentInOrder
  <1>8. Drained' \/ InStep'
    BY <1>1 DEF Numbered, Drained, InStep
  <1>9. Lag' /\ \A n \in DOMAIN handed' : handed'[n] = n
    BY <1>1, <1>2, <1>3 DEF Numbered, Lag
  <1>10. Numbered'
    BY <1>7, <1>8, <1>9 DEF Numbered
  <1> QED BY <1>4, <1>5, <1>6, <1>10

\* tx asks txqueue, which refuses it or has answered it: what was handed out and
\* what was sent stays.
LEMMA TxKeepsIInv ==
  ASSUME IInv, UNCHANGED servervars,
         \/ TxStarts \/ TxPopped \/ TxWritten
         \/ txqueue!Refuse /\ UNCHANGED <<state, ec, run, txc, stopc, opvars, pushes,
                                          received, sent>>
  PROVE  IInv'
  <1> USE DEF IInv
  <1>1. UNCHANGED <<state, ec, run, stopc, accept, read, close, stream, pushes,
                    received, sent, queue, handed>>
    BY DEF TxStarts, TxPopped, TxWritten, txqueue!Refuse, txqueue!Ask,
           txqueue!Receive, chan, opvars
  <1>2. \/ /\ txc = "posted" /\ txc' = "popping" /\ write' = write
           /\ request = "none" /\ request' = "open" /\ alarm' = alarm
        \/ /\ txc = "popping" /\ txc' = "done" /\ write' = write
           /\ request = "refused" /\ request' = "none" /\ alarm' = alarm
        \/ /\ txc = "popping" /\ txc' = "writing" /\ write = "idle"
           /\ write' \in {"pending", "late"}
           /\ request = "value" /\ request' = "none" /\ alarm' = alarm
        \/ /\ txc = "writing" /\ txc' = "popping" /\ write = "ok" /\ write' = "idle"
           /\ request = "none" /\ request' = "open" /\ alarm' = alarm
        \/ /\ txc = "writing" /\ txc' = "done" /\ write = "err" /\ write' = "idle"
           /\ request = "none" /\ request' = request /\ alarm' = alarm
        \/ /\ txc = "popping" /\ txc' = txc /\ write' = write
           /\ request = "open" /\ request' = "refused" /\ alarm' = FALSE
    BY DEF TxStarts, TxPopped, TxWritten, txqueue!Refuse, txqueue!Ask,
           txqueue!Receive, chan, opvars, Coroutines
  <1>3. TypeOK'
    BY <1>1, <1>2 DEF TypeOK, ChatTypeOK, OpState, servervars
  <1>4. Coroutines' /\ ChannelTypeOK'
    BY <1>1, <1>2 DEF Coroutines, ChannelTypeOK
  <1>5. Pushed'
    BY <1>1 DEF Pushed, Exists
  <1>6. Drained' \/ InStep'
    BY <1>1, <1>2 DEF Numbered, Drained, InStep
  <1>7. Lag'
    BY <1>1, <1>2 DEF Numbered, Lag, Coroutines
  <1>8. SentInOrder' /\ \A n \in DOMAIN handed' : handed'[n] = n
    BY <1>1 DEF Numbered, SentInOrder
  <1>9. Numbered'
    BY <1>6, <1>7, <1>8 DEF Numbered
  <1> QED BY <1>3, <1>4, <1>5, <1>9

\* notify_error clears txqueue, unless the chat is over or was stopped before.
LEMMA StopKeepsIInv ==
  ASSUME IInv, StopStarts, UNCHANGED servervars
  PROVE  IInv'
  <1> USE DEF IInv
  <1>1. /\ state \in {"handshaking", "chatting", "exit_state"} /\ ec' = TRUE
        /\ UNCHANGED <<state, run, txc, read, write, stream, pushes, received, sent>>
    BY DEF StopStarts, Coroutines, TypeOK, ChatTypeOK
  <1>2. /\ stopc' \in {"done", "closing"} /\ accept' \in OpState /\ close' \in OpState
        /\ \/ UNCHANGED chan
           \/ queue' = <<>> /\ alarm' = TRUE /\ UNCHANGED <<request, handed>>
    <2>1. CASE ec \/ state = "exit_state"
      BY <2>1 DEF StopStarts, TypeOK, ChatTypeOK
    <2>2. CASE ~ec /\ state = "handshaking"
      BY <2>2 DEF StopStarts, TypeOK, ChatTypeOK, OpState, Abort, txqueue!Clear
    <2>3. CASE ~ec /\ state = "chatting"
      BY <2>3 DEF StopStarts, TypeOK, ChatTypeOK, OpState, txqueue!Clear
    <2> QED BY <1>1, <2>1, <2>2, <2>3
  <1>3. TypeOK'
    <2>1. ec' \in BOOLEAN
      BY <1>1
    <2>2. ChatTypeOK'
      BY <1>1, <1>2, <2>1 DEF TypeOK, ChatTypeOK
    <2> QED BY <2>2 DEF TypeOK, servervars
  <1>4. Coroutines' /\ ChannelTypeOK'
    <2>1. alarm' \in BOOLEAN /\ queue' \in Seq(Message) /\ UNCHANGED <<request, handed>>
      <3>1. CASE UNCHANGED chan
        BY <3>1 DEF ChannelTypeOK, chan
      <3>2. CASE queue' = <<>> /\ alarm' = TRUE /\ UNCHANGED <<request, handed>>
        BY <3>2
      <3> QED BY <1>2, <3>1, <3>2
    <2> QED BY <1>1, <2>1 DEF Coroutines, ChannelTypeOK
  <1>5. Pushed'
    BY <1>1, <1>2 DEF Pushed, Exists, Coroutines, chan
  <1>6. Numbered'
    <2>1. CASE UNCHANGED chan
      BY <1>1, <2>1, NumberingKept
    <2>2. CASE alarm' = TRUE /\ UNCHANGED <<request, handed>>
      BY <1>1, <2>2 DEF Numbered, Drained, Lag, SentInOrder
    <2> QED BY <1>2, <2>1, <2>2
  <1> QED BY <1>3, <1>4, <1>5, <1>6

\* The other steps of the connection and of its peer move an operation on.
LEMMA ChatKeepsIInv ==
  ASSUME IInv, ChatNext, UNCHANGED servervars
  PROVE  IInv'
  <1> USE DEF IInv
  <1>1. CASE RunRead /\ read = "ok"
    BY <1>1, PushKeepsIInv
  <1>2. CASE TxStarts \/ TxPopped \/ TxWritten
    BY <1>2, TxKeepsIInv
  <1>3. CASE TxQueueAnswers
    BY <1>3, HandKeepsIInv, TxKeepsIInv DEF TxQueueAnswers
  <1>4. CASE StopStarts
    BY <1>4, StopKeepsIInv
  <1>5. CASE WriteCompletes
    BY <1>5, WriteKeepsIInv
  <1>6. CASE \/ RunStarts \/ RunAccepted \/ (RunRead /\ read = "err")
             \/ StopClosed \/ AcceptCompletes \/ CloseCompletes \/ StreamFails
             \/ OperationFails
    <2>1. /\ UNCHANGED <<ec, pushes, received, sent, chan>>
          /\ UNCHANGED <<queue, alarm, request, handed>>
          /\ txc' = txc \/ (txc = "none" /\ txc' = "posted" /\ run' = "reading")
          /\ write' = write \/ (write \in {"pending", "late"} /\ write' = "err")
      BY <1>6
      DEF RunStarts, RunAccepted, RunRead, StopClosed, AcceptCompletes, CloseCompletes,
          StreamFails, OperationFails, chan, opvars, Coroutines
    <2>2. /\ stopc' \in {stopc, "done"} /\ accept' \in OpState /\ close' \in OpState
          /\ read' \in OpState /\ stream' \in {"open", "failed"}
          /\ read = "ok" <=> read' = "ok"
      BY <1>6
      DEF RunStarts, RunAccepted, RunRead, StopClosed, AcceptCompletes, CloseCompletes,
          StreamFails, OperationFails, opvars, OpState, TypeOK, ChatTypeOK, Coroutines
    <2>3. \/ UNCHANGED <<run, state>> /\ (read' # "idle" => read # "idle") /\ txc' = txc
          \/ run = "posted" /\ run' = "accepting" /\ state' = "handshaking"
             /\ read' = read /\ txc' = txc
          \/ /\ run \in {"accepting", "reading"} /\ run' = "done"
             /\ state' = "exit_state" /\ read' = "idle" /\ txc' = txc
          \/ run = "accepting" /\ run' = "reading" /\ state' = "chatting"
      BY <1>6
      DEF RunStarts, RunAccepted, RunRead, StopClosed, AcceptCompletes, CloseCompletes,
          StreamFails, OperationFails, opvars, Coroutines
    <2>4. TypeOK'
      BY <2>1, <2>2, <2>3 DEF TypeOK, ChatTypeOK, OpState, servervars
    <2>5. Coroutines'
      BY <2>1, <2>2, <2>3 DEF Coroutines
    <2>6. ChannelTypeOK' /\ Pushed'
      BY <2>1, <2>2, <2>3 DEF ChannelTypeOK, Pushed, Exists
    <2>7. Numbered'
      BY <2>1, NumberingKept
    <2> QED BY <2>4, <2>5, <2>6, <2>7
  <1>7. CASE ReadCompletes
    <2>1. /\ read = "pending" /\ read' = "ok" /\ received' = received + 1
          /\ received' \in 0 .. MaxRx /\ received' > 0
          /\ UNCHANGED <<state, ec, run, txc, stopc, accept, write, close, stream,
                         pushes, sent, chan, queue, alarm, request, handed>>
      BY <1>7, MaxRxAssumption DEF ReadCompletes, chan, TypeOK, ChatTypeOK
    <2>2. TypeOK'
      BY <2>1 DEF TypeOK, ChatTypeOK, OpState, servervars
    <2>3. Coroutines' /\ ChannelTypeOK'
      BY <2>1 DEF Coroutines, ChannelTypeOK
    <2>4. Pushed'
      <3>1. Exists /\ Exists'
        BY <2>1 DEF Coroutines, Exists
      <3>2. pushes = Greeting + received /\ received \in Nat
        BY <2>1, <3>1 DEF Pushed, TypeOK, ChatTypeOK
      <3>3. Greeting + received = Greeting + (received + 1) - 1
        BY <3>2, GreetingAssumption
      <3> QED BY <2>1, <3>1, <3>2, <3>3 DEF Pushed
    <2>5. Numbered'
      BY <2>1, NumberingKept
    <2> QED BY <2>2, <2>3, <2>4, <2>5
  <1> QED
    BY <1>1, <1>2, <1>3, <1>4, <1>5, <1>6, <1>7 DEF ChatNext, RunRead

\* No step of the connection, the server or the app breaks the invariant.
LEMMA NextKeepsIInv ==
  ASSUME IInv, [Next]_vars
  PROVE  IInv'
  <1> USE DEF IInv
  <1>1. CASE ChatNext /\ UNCHANGED servervars
    BY <1>1, ChatKeepsIInv
  \* The steps of the server that leave the connection alone, but for its stop
  \* coroutine.
  <1>2. ASSUME UNCHANGED <<state, ec, run, txc, opvars, pushes, received, sent, chan>>,
               stopc' \in {stopc, "posted"},
               ec_' \in BOOLEAN, cached' \in BOOLEAN,
               loop' \in {"none", "accepting", "done"},
               acceptor' \in {"idle", "pending", "ok", "aborted", "cancelled", "error"},
               accepts' \in 0 .. MaxAccepts, signals' \in {"idle", "pending", "ok"}
        PROVE  IInv'
    <2>1. UNCHANGED <<accept, read, write, close, stream, queue, alarm, request, handed>>
      BY <1>2 DEF opvars, chan
    <2>2. ChatTypeOK'
      BY <1>2, <2>1 DEF TypeOK, ChatTypeOK
    <2>3. TypeOK'
      BY <1>2, <2>2 DEF TypeOK
    <2>4. Coroutines' /\ ChannelTypeOK'
      BY <1>2, <2>1 DEF Coroutines, ChannelTypeOK
    <2>5. Pushed'
      BY <1>2, <2>1 DEF Pushed, Exists
    <2>6. Numbered'
      BY <1>2, <2>1, NumberingKept
    <2> QED BY <2>3, <2>4, <2>5, <2>6
  <1>3. CASE AppRuns \/ AcceptThrew \/ AcceptorCompletes \/ SignalArrives
    <2>1. UNCHANGED <<state, ec, run, txc, stopc, opvars, pushes, received, sent, chan>>
      BY <1>3 DEF AppRuns, AcceptThrew, AcceptorCompletes, SignalArrives, chatvars
    <2>2. /\ ec_' \in BOOLEAN /\ cached' \in BOOLEAN
          /\ loop' \in {"none", "accepting", "done"}
          /\ acceptor' \in {"idle", "pending", "ok", "aborted", "cancelled", "error"}
          /\ signals' \in {"idle", "pending", "ok"}
      BY <1>3
      DEF AppRuns, AcceptThrew, while, AcceptorCompletes, SignalArrives, TypeOK
    <2>3. accepts' \in 0 .. MaxAccepts
      BY <1>3, MaxAcceptsAssumption
      DEF AppRuns, AcceptThrew, AcceptorCompletes, SignalArrives, TypeOK
    <2> QED BY <1>2, <2>1, <2>2, <2>3
  <1>4. CASE Accepted
    <2>1. /\ UNCHANGED <<ec_, accepts, signals>>
          /\ loop' \in {"none", "accepting", "done"}
          /\ acceptor' \in {"idle", "pending", "ok", "aborted", "cancelled", "error"}
      BY <1>4 DEF Accepted, while, TypeOK
    <2>2. CASE Exists
      <3>1. UNCHANGED <<state, ec, run, txc, stopc, opvars, pushes, received, sent, chan,
                        cached>>
        BY <1>4, <2>2 DEF Accepted, chatvars
      <3> QED BY <1>2, <2>1, <3>1 DEF TypeOK
    <2>3. CASE ~Exists
      <3>1. Create /\ cached' = TRUE
        BY <1>4, <2>3 DEF Accepted
      <3>2. /\ run = "none" /\ run' = "posted" /\ pushes' = Greeting
            /\ queue' = [n \in 1 .. Greeting |-> n]
            /\ UNCHANGED <<state, ec, txc, stopc, accept, read, write, close, stream,
                           received, sent, alarm, request, handed>>
        BY <3>1 DEF Create, opvars
      <3>3. /\ queue' \in Seq(Message) /\ Len(queue') = Greeting
            /\ \A n \in DOMAIN queue' : n \in Nat /\ queue'[n] = n
        BY <3>2, GreetingAssumption, MaxRxAssumption DEF Message
      <3>4. received = 0 /\ handed = <<>> /\ sent = <<>> /\ Len(handed) = 0
        BY <2>3 DEF Pushed
      <3>5. read = "idle" /\ txc = "none"
        BY <3>2 DEF Coroutines
      <3>6. pushes' \in 0 .. (Greeting + MaxRx)
        BY <3>2, GreetingAssumption, MaxRxAssumption
      <3>7. ChatTypeOK'
        BY <3>2, <3>6 DEF TypeOK, ChatTypeOK
      <3>8. TypeOK'
        BY <2>1, <3>1, <3>7, Zenon DEF TypeOK
      <3>9. Coroutines' /\ ChannelTypeOK'
        BY <3>2, <3>3 DEF Coroutines, ChannelTypeOK
      <3>10. Pushed'
        BY <3>2, <3>4, <3>5, GreetingAssumption DEF Pushed, Exists
      <3>11. InStep'
        BY <3>2, <3>3, <3>4, GreetingAssumption DEF InStep
      <3>12. Numbered'
        BY <3>2, <3>11 DEF Numbered, Lag, SentInOrder
      <3> QED BY <3>8, <3>9, <3>10, <3>12
    <2> QED BY <2>2, <2>3
  <1>5. CASE HandleSignal
    <2>1. /\ UNCHANGED <<state, ec, run, txc, opvars, pushes, received, sent, chan,
                         loop, accepts>>
          /\ stopc' \in {stopc, "posted"} /\ signals' = "idle"
          /\ ec_' = TRUE /\ cached' = FALSE
          /\ acceptor' \in {acceptor, "cancelled"}
      BY <1>5 DEF HandleSignal, stop
    <2> QED BY <1>2, <2>1 DEF TypeOK
  <1>6. CASE UNCHANGED vars
    <2>1. /\ UNCHANGED <<state, ec, run, txc, stopc, opvars, pushes, received, sent, chan>>
          /\ UNCHANGED <<ec_, loop, acceptor, accepts, cached, signals>>
      BY <1>6 DEF vars, chatvars, servervars
    <2> QED BY <1>2, <2>1 DEF TypeOK
  <1> QED BY <1>1, <1>3, <1>4, <1>5, <1>6 DEF Next

\* IInv holds in every reachable state.
LEMMA AlwaysIInv == Spec => []IInv
  <1>1. Init => IInv
    <2> SUFFICES ASSUME Init PROVE IInv
      OBVIOUS
    <2>1. /\ pushes \in 0 .. (Greeting + MaxRx) /\ received \in 0 .. MaxRx
          /\ accepts \in 0 .. MaxAccepts
      BY MaxRxAssumption, GreetingAssumption, MaxAcceptsAssumption DEF Init, ChatInit
    <2>2. sent \in Seq(Message)
      BY DEF Init, ChatInit
    <2>3. TypeOK
      BY <2>1, <2>2, Zenon DEF Init, ChatInit, TypeOK, ChatTypeOK, OpState
    <2> USE DEF Init, ChatInit, txqueue!CInit
    <2>4. Coroutines /\ ChannelTypeOK /\ Pushed
      <3>1. alarm \in BOOLEAN /\ queue \in Seq(Message) /\ handed \in Seq(Message)
        BY Zenon, <2>2
      <3> QED BY <3>1 DEF Coroutines, ChannelTypeOK, Pushed, Exists
    <2>5. Numbered
      BY DEF Numbered, InStep, Lag, SentInOrder
    <2> QED BY <2>3, <2>4, <2>5 DEF IInv
  <1> QED BY <1>1, NextKeepsIInv, PTL DEF Spec

----------------------------------------------------------------------------
(* What a stop leaves behind.                                              *)

\* Once txqueue has nothing to hand out but a refusal, that stays so until tx has
\* ended: only tx's own pop takes the refusal, and it ends tx.
LEMMA DrainedStays ==
  ASSUME IInv, [Next]_vars, Drained
  PROVE  Drained'
  <1> USE DEF IInv
  <1>1. CASE TxStarts \/ TxPopped \/ TxWritten
    BY <1>1
    DEF TxStarts, TxPopped, TxWritten, txqueue!Ask, txqueue!Receive, chan, Drained,
        Coroutines
  <1>2. CASE TxQueueAnswers
    BY <1>2 DEF TxQueueAnswers, txqueue!Hand, txqueue!Refuse, Drained, Coroutines
  <1>3. CASE StopStarts
    <2>1. txc' = txc /\ request' = request /\ (alarm' = alarm \/ alarm' = TRUE)
      <3>1. state \in {"handshaking", "chatting", "exit_state"}
        BY <1>3 DEF StopStarts, Coroutines, TypeOK, ChatTypeOK
      <3>2. CASE ec \/ state = "exit_state"
        BY <1>3, <3>2 DEF StopStarts, chan
      <3>3. CASE ~ec /\ state \in {"handshaking", "chatting"}
        BY <1>3, <3>3 DEF StopStarts, txqueue!Clear
      <3> QED BY <3>1, <3>2, <3>3
    <2> QED BY <2>1 DEF Drained
  <1>4. CASE RunStarts \/ RunAccepted \/ RunRead
    <2>1. /\ UNCHANGED <<alarm, request>>
          /\ txc' = txc \/ txc = "none"
      BY <1>4 DEF RunStarts, RunAccepted, RunRead, txqueue!Put, chan, Coroutines
    <2> QED BY <2>1 DEF Drained
  <1>5. CASE \/ StopClosed \/ AcceptCompletes \/ ReadCompletes \/ WriteCompletes
             \/ CloseCompletes \/ StreamFails \/ OperationFails
    BY <1>5
    DEF StopClosed, AcceptCompletes, ReadCompletes, WriteCompletes, CloseCompletes,
        StreamFails, OperationFails, chan, Drained
  <1>6. CASE \/ AppRuns \/ Accepted \/ AcceptThrew \/ HandleSignal
             \/ AcceptorCompletes \/ SignalArrives \/ UNCHANGED vars
    BY <1>6
    DEF AppRuns, Accepted, Create, AcceptThrew, HandleSignal, AcceptorCompletes,
        SignalArrives, vars, chatvars, chan, Drained
  <1> QED BY <1>1, <1>2, <1>3, <1>4, <1>5, <1>6 DEF Next, ChatNext

\* What makes StopReachesTx apply begins with the step that clears txqueue.
LEMMA NextKeepsStopped ==
  ASSUME IInv, Stopped, [Next]_vars
  PROVE  Stopped'
  <1> USE DEF IInv
  <1>1. CASE StopStarts
    <2>1. /\ state \in {"handshaking", "chatting", "exit_state"} /\ state' = state
          /\ txc' = txc
      BY <1>1 DEF StopStarts, Coroutines, TypeOK, ChatTypeOK
    <2>2. CASE ec \/ state = "exit_state"
      <3>1. stopc' = "done" /\ UNCHANGED <<alarm, request>>
        BY <1>1, <2>2 DEF StopStarts, chan
      <3> QED BY <2>1, <2>2, <3>1 DEF Stopped, StopReachesTx
    <2>3. CASE ~ec /\ state \in {"handshaking", "chatting"}
      <3>1. alarm' = TRUE
        BY <1>1, <2>3 DEF StopStarts, txqueue!Clear
      <3> QED BY <2>1, <2>3, <3>1 DEF Stopped, StopReachesTx
    <2> QED BY <2>1, <2>2, <2>3
  <1>2. CASE ~StopStarts
    <2>1. ec' = ec /\ (stopc' = "closing" => stopc = "closing")
      BY <1>2
      DEF Next, ChatNext, RunStarts, RunAccepted, RunRead, TxStarts, TxPopped, TxWritten,
          TxQueueAnswers, StopClosed, AcceptCompletes, ReadCompletes, WriteCompletes,
          CloseCompletes, StreamFails, OperationFails, AppRuns, Accepted, Create,
          AcceptThrew, HandleSignal, stop, AcceptorCompletes, SignalArrives, vars,
          chatvars
    <2>2. \/ state' = state
          \/ state = "initial_state" /\ state' = "handshaking"
          \/ state' = "exit_state"
          \/ state' = "chatting" /\ ~ec
      BY <1>2
      DEF Next, ChatNext, RunStarts, RunAccepted, RunRead, TxStarts, TxPopped, TxWritten,
          TxQueueAnswers, StopClosed, AcceptCompletes, ReadCompletes, WriteCompletes,
          CloseCompletes, StreamFails, OperationFails, AppRuns, Accepted, Create,
          AcceptThrew, HandleSignal, AcceptorCompletes, SignalArrives, vars,
          chatvars, Coroutines
    <2>3. Drained => Drained'
      BY DrainedStays
    <2>4. ec' => state' # "initial_state"
      BY <2>1, <2>2 DEF Stopped
    <2>5. StopReachesTx'
      BY <2>1, <2>2, <2>3 DEF Stopped, StopReachesTx, Drained
    <2> QED BY <2>4, <2>5 DEF Stopped
  <1> QED BY <1>1, <1>2

----------------------------------------------------------------------------
(* Theorems.                                                               *)

\* The variables of the server and of its connection keep their types.
THEOREM TypeCorrect == Spec => []TypeOK
  <1>1. IInv => TypeOK
    BY DEF IInv
  <1> QED BY <1>1, AlwaysIInv, PTL

\* The peer receives greeting and echoes in the order they were pushed, without
\* gap or repetition, although a stop clears the queue at any point of tx's loop.
THEOREM PeerReceivesInOrder == Spec => []SentInOrder
  <1>1. IInv => SentInOrder
    BY DEF IInv, Numbered
  <1> QED BY <1>1, AlwaysIInv, PTL

\* A stop that finds the connection handshaking or chatting reaches tx: from then
\* on txqueue hands out nothing but the refusal that ends it.
THEOREM StopWakesSender == Spec => []StopReachesTx
  <1>1. Init => Stopped
    BY DEF Init, ChatInit, Stopped, StopReachesTx
  <1>2. Stopped => StopReachesTx
    BY DEF Stopped
  <1> QED BY <1>1, <1>2, AlwaysIInv, NextKeepsStopped, PTL DEF Spec

\* A handshake that crosses the stop does not start the chat.
THEOREM StopIsFinal == Spec => NoChatAfterStop
  <1> DEFINE Final == ec => state' # "chatting" \/ state = "chatting"
  <1>1. IInv /\ [Next]_vars => [Final]_chatvars
    <2> SUFFICES ASSUME IInv, [Next]_vars, ec, state' = "chatting", ~UNCHANGED chatvars
                 PROVE  state = "chatting"
      OBVIOUS
    <2>1. state' = state \/ RunStarts \/ RunAccepted \/ RunRead
      BY DEF Next, Accepted, Create, AppRuns, AcceptThrew, HandleSignal,
             AcceptorCompletes, SignalArrives, ChatNext, TxStarts, TxPopped, TxWritten,
             TxQueueAnswers, StopStarts, StopClosed, AcceptCompletes, ReadCompletes,
             WriteCompletes, CloseCompletes, StreamFails, OperationFails, vars
    <2> QED BY <2>1 DEF RunStarts, RunAccepted, RunRead, IInv, Coroutines
  <1> QED BY <1>1, AlwaysIInv, PTL DEF Spec, NoChatAfterStop
=============================================================================
