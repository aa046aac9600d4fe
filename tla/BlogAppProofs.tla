--------------------------- MODULE BlogAppProofs ---------------------------
(***************************************************************************)
(* Proofs about the blog-2020-09 application, for every number of ctrl-c   *)
(* presses, frames and pings.                                              *)
(***************************************************************************)
EXTENDS BlogApp, FiniteSetTheorems, TLAPS

(* sigint_state.                                                           *)

\* The time-out runs exactly while the question is open, but for its last handler.
Asking ==
  /\ sigint_ \in {"inactive", "waiting"} => timer_ = "idle"
  /\ sigint_ = "confirming" => timer_ \in {"pending", "ok"}
  /\ sigint_ = "inactive" => sigs_ = "idle" /\ signals_ = {} /\ \A s \in Slot : called[s] = 0

\* Every SIGINT that is waiting to be handled, or has opened the question, was a
\* press of its own.
Heard ==
  queued + (IF sigs_ = "ok" THEN 1 ELSE 0) + (IF sigint_ = "confirming" THEN 1 ELSE 0)
    <= presses

SigIInv == SigTypeOK /\ Asking /\ Heard /\ Attentive

----------------------------------------------------------------------------
(* wss_transport.                                                          *)

Frame == {"sub", "ping"}

HistoryTypeOK ==
  accepted \in Seq(Frame) /\ sent \in Seq(Frame) /\ completions \in Nat /\ errors \in Nat

\* connect_op has completed at least once by the time the transport leaves
\* "connecting", and only a connect that never failed brings it up.
Connecting ==
  /\ state_ # "closing"
  /\ conn # "idle" => stage \in 1 .. Len(Stages)
  /\ completions = 0 <=> state_ \in {"not_started", "connecting"}
  /\ state_ \in {"not_started", "connected"} => conn = "idle"
  /\ conn = "ok" => state_ = "connecting"

\* Until then nothing has been read, written or waited for.
Fresh ==
  state_ \in {"not_started", "connecting"} =>
    /\ read = "idle" /\ write = "idle" /\ ping_timer_ = "idle"
    /\ send_queue_ = <<>> /\ accepted = <<>> /\ sent = <<>> /\ owed = 0

\* A write carries the front of the queue, and no frame is lost before it fails.
InStep ==
  /\ write # "idle" => send_queue_ # <<>>
  /\ state_ = "connected" \/ write # "idle" => sent \o Unsent = accepted

\* What goes round: the wait, a ping that is queued, unanswered or answered.
Wait == IF ping_timer_ = "idle" THEN 0 ELSE 1
Answer == IF read = "pong" THEN 1 ELSE 0
Pings == Count("ping", Unsent)
Round == Wait + Pings + owed + Answer

\* Also after the transport has failed there is at most one of them; and no
\* ping is answered that was not posted.
OneAtMost ==
  /\ Round <= 1
  /\ owed + Pings <= Count("ping", accepted)
  /\ Count("ping", accepted) <= MaxPings
  /\ state_ = "connected" /\ ping_timer_ = "ok" => Count("ping", accepted) < MaxPings

WssIInv ==
  /\ WssTypeOK /\ HistoryTypeOK /\ Connecting /\ Fresh /\ InStep /\ OneAtMost
  /\ FramesInOrder /\ KeepAlive /\ ErrorOnce

IInv == SigIInv /\ WssIInv

----------------------------------------------------------------------------
(* Lemmas about sequences.                                                 *)

\* Sending the front of the queue moves it from the queue to the log.
LEMMA SendFront ==
  ASSUME NEW S, NEW s \in Seq(S), NEW q \in Seq(S), q # <<>>
  PROVE  /\ Append(s, Head(q)) \o Tail(q) = s \o q
         /\ Head(q) \in S /\ Tail(q) \in Seq(S) /\ Append(s, Head(q)) \in Seq(S)
  OBVIOUS

\* A frame goes to the end of the queue and of the log of what was queued.
LEMMA PostBack ==
  ASSUME NEW S, NEW s \in Seq(S), NEW q \in Seq(S), NEW m \in S
  PROVE  /\ s \o Append(q, m) = Append(s \o q, m)
         /\ Append(q, m) \in Seq(S) /\ Append(q, m) # <<>>
         /\ q # <<>> => Tail(Append(q, m)) = Append(Tail(q), m) /\ Tail(q) \in Seq(S)
  <1>1. s \o Append(q, m) = Append(s \o q, m)
    OBVIOUS
  <1>2. Append(q, m) \in Seq(S) /\ Append(q, m) # <<>>
    OBVIOUS
  <1>3. q # <<>> => Tail(Append(q, m)) = Append(Tail(q), m) /\ Tail(q) \in Seq(S)
    OBVIOUS
  <1> QED BY <1>1, <1>2, <1>3

\* What a sequence begins with is its prefix.
LEMMA Prefix ==
  ASSUME NEW S, NEW s \in Seq(S), NEW t \in Seq(S)
  PROVE  Len(s) <= Len(s \o t) /\ s = SubSeq(s \o t, 1, Len(s))
  OBVIOUS

\* Appending behind a prefix leaves it one.
LEMMA PrefixKept ==
  ASSUME NEW S, NEW s \in Seq(S), NEW t \in Seq(S), NEW c \in S,
         Len(s) <= Len(t), s = SubSeq(t, 1, Len(s))
  PROVE  Len(s) <= Len(Append(t, c)) /\ s = SubSeq(Append(t, c), 1, Len(s))
  OBVIOUS

\* Count counts in Nat, from 0.
LEMMA CountType ==
  ASSUME NEW S, NEW s \in Seq(S), NEW f
  PROVE  /\ IsFiniteSet({i \in DOMAIN s : s[i] = f})
         /\ Count(f, s) \in Nat /\ Count(f, <<>>) = 0
  <1>1. IsFiniteSet(1 .. Len(s)) /\ DOMAIN s = 1 .. Len(s)
    BY FS_Interval
  <1>2. IsFiniteSet({i \in DOMAIN s : s[i] = f})
    BY <1>1, FS_Subset
  <1>3. {i \in DOMAIN <<>> : <<>>[i] = f} = {}
    OBVIOUS
  <1>4. Count(f, <<>>) = 0
    BY <1>3, FS_EmptySet DEF Count
  <1> QED BY <1>2, <1>4, FS_CardinalityType DEF Count

\* A frame that is appended counts by one if it is the one that is counted.
LEMMA CountAppend ==
  ASSUME NEW S, NEW s \in Seq(S), NEW c \in S, NEW f
  PROVE  Count(f, Append(s, c)) = Count(f, s) + (IF c = f THEN 1 ELSE 0)
  <1> DEFINE A == {i \in DOMAIN s : s[i] = f}
             B == {i \in DOMAIN Append(s, c) : Append(s, c)[i] = f}
             n == Len(s) + 1
  <1>1. IsFiniteSet(A) /\ Cardinality(A) \in Nat
    BY CountType, FS_CardinalityType
  <1>2. /\ DOMAIN s = 1 .. Len(s) /\ DOMAIN Append(s, c) = 1 .. n
        /\ Append(s, c)[n] = c /\ \A i \in 1 .. Len(s) : Append(s, c)[i] = s[i]
    OBVIOUS
  <1>3. CASE c = f
    <2>1. B = A \cup {n} /\ n \notin A
      BY <1>2, <1>3
    <2> QED BY <1>1, <1>3, <2>1, FS_AddElement DEF Count
  <1>4. CASE c # f
    <2>1. B = A
      BY <1>2, <1>4
    <2>2. Count(f, s) = Cardinality(A) /\ Count(f, Append(s, c)) = Cardinality(B)
      BY DEF Count
    <2> HIDE DEF A, B
    <2> QED BY <1>1, <1>4, <2>1, <2>2
  <1> QED BY <1>3, <1>4

\* The front of the queue counts by one if it is the one that is counted.
LEMMA CountTail ==
  ASSUME NEW S, NEW s \in Seq(S), NEW f, s # <<>>
  PROVE  Count(f, s) = Count(f, Tail(s)) + (IF Head(s) = f THEN 1 ELSE 0)
  <1> DEFINE A == {i \in DOMAIN Tail(s) : Tail(s)[i] = f}
             B == {i \in DOMAIN s : s[i] = f}
             g == [i \in A |-> i + 1]
  <1>1. /\ DOMAIN s = 1 .. Len(s) /\ DOMAIN Tail(s) = 1 .. (Len(s) - 1)
        /\ Len(s) \in Nat \ {0} /\ Head(s) = s[1] /\ Tail(s) \in Seq(S)
        /\ \A i \in 1 .. (Len(s) - 1) : Tail(s)[i] = s[i + 1]
    OBVIOUS
  <1>2. IsFiniteSet(A) /\ IsFiniteSet(B) /\ Cardinality(B) \in Nat
    <2>1. IsFiniteSet(A)
      BY <1>1, CountType
    <2>2. IsFiniteSet(B)
      BY CountType
    <2> QED BY <2>1, <2>2, FS_CardinalityType
  <1>3. g \in Bijection(A, B \ {1})
    <2>1. \A i \in A : g[i] \in B \ {1}
      BY <1>1
    <2>2. \A i, j \in A : g[i] = g[j] => i = j
      BY <1>1
    <2>3. \A k \in B \ {1} : \E i \in A : g[i] = k
      <3> SUFFICES ASSUME NEW k \in B \ {1} PROVE k - 1 \in A /\ g[k - 1] = k
        OBVIOUS
      <3> QED BY <1>1
    <2>4. g \in [A -> B \ {1}]
      BY <2>1
    <2> HIDE DEF A, B, g
    <2>5. g \in Injection(A, B \ {1})
      BY <2>2, <2>4 DEF Injection, IsInjective
    <2>6. g \in Surjection(A, B \ {1})
      BY <2>3, <2>4 DEF Surjection
    <2> QED BY <2>5, <2>6 DEF Bijection
  <1>4. Cardinality(B \ {1}) = Cardinality(A)
    BY <1>2, <1>3, FS_Bijection DEF ExistsBijection
  <1>5. Cardinality(B \ {1}) = IF 1 \in B THEN Cardinality(B) - 1 ELSE Cardinality(B)
    BY <1>2, FS_RemoveElement
  <1>6. 1 \in B <=> Head(s) = f
    BY <1>1
  <1>7. Count(f, s) = Cardinality(B) /\ Count(f, Tail(s)) = Cardinality(A)
    BY DEF Count
  <1> HIDE DEF A, B
  <1> QED BY <1>2, <1>4, <1>5, <1>6, <1>7

----------------------------------------------------------------------------
(* sigint_state keeps its invariant.                                       *)

\* application::start adds the only slot there is.
LEMMA SigStarts ==
  ASSUME SigIInv, sigint_ = "inactive", StartSigint,
         \E s \in Slot : add_slot(s, "waiting"), UNCHANGED <<timer_, presses>>
  PROVE  SigIInv'
  <1> USE DEF SigIInv, SigTypeOK
  <1>1. /\ sigint_' = "waiting" /\ sigs_' \in {"ok", "pending"}
        /\ \/ sigs_' = "ok" /\ queued > 0 /\ queued' = queued - 1
           \/ sigs_' = "pending" /\ queued' = queued
    BY DEF StartSigint, await_signal
  <1>2. called' = called /\ signals_' \subseteq Slot /\ \A s \in Slot : s \in signals_'
    <2> PICK s \in Slot : add_slot(s, "waiting")
      OBVIOUS
    <2>1. called' = called /\ signals_' = signals_ \cup {s}
      BY DEF add_slot
    <2> QED BY <2>1, OneSlotAssumption
  <1>3. queued \in Nat /\ presses \in Nat /\ MaxSigints \in Nat /\ queued <= presses
    BY SigintAssumption DEF Heard
  <1>4. SigTypeOK'
    <2>1. queued' \in 0 .. MaxSigints
      BY <1>1, <1>3
    <2> QED BY <1>1, <1>2, <2>1 DEF SigTypeOK
  <1>5. Heard'
    BY <1>1, <1>3 DEF Heard
  <1>6. Asking' /\ Attentive'
    BY <1>1, <1>2 DEF Asking, Attentive
  <1> QED BY <1>4, <1>5, <1>6

\* The first SIGINT opens the question.
LEMMA AskKeeps ==
  ASSUME SigIInv, sigs_ = "ok", Ask, await_timer, await_signal, UNCHANGED presses
  PROVE  SigIInv'
  <1> USE DEF SigIInv, SigTypeOK
  <1>1. /\ sigint_ = "waiting" /\ sigint_' = "confirming" /\ timer_' = "pending"
        /\ UNCHANGED <<signals_, called, presses>>
        /\ \/ sigs_' = "ok" /\ queued > 0 /\ queued' = queued - 1
           \/ sigs_' = "pending" /\ queued' = queued
    BY DEF Ask, await_timer, await_signal, Asking
  <1>2. queued \in Nat /\ presses \in Nat /\ MaxSigints \in Nat /\ queued + 1 <= presses
    BY <1>1, SigintAssumption DEF Heard
  <1>3. SigTypeOK'
    <2>1. queued' \in 0 .. MaxSigints
      BY <1>1, <1>2
    <2> QED BY <1>1, <2>1 DEF SigTypeOK
  <1>4. Heard'
    BY <1>1, <1>2 DEF Heard
  <1>5. Asking' /\ Attentive'
    BY <1>1 DEF Asking, Attentive
  <1> QED BY <1>3, <1>4, <1>5

\* The second one calls every slot, which none was before.
LEMMA ConfirmKeeps ==
  ASSUME SigIInv, sigs_ = "ok", Confirm, UNCHANGED presses
  PROVE  SigIInv'
  <1> USE DEF SigIInv, SigTypeOK
  <1>1. /\ sigint_ = "confirming" /\ sigint_' = "exit_state" /\ sigs_' = "idle"
        /\ timer_' \in {"err", "ok", "idle"} /\ signals_' = {}
        /\ UNCHANGED <<queued, presses>>
        /\ called' = [s \in Slot |-> called[s] + (IF s \in signals_ THEN 1 ELSE 0)]
    BY DEF Confirm, emit_signals
  <1>2. \A s \in Slot : s \in signals_ /\ called[s] = 0
    BY <1>1 DEF Attentive
  <1>3. called' = [s \in Slot |-> 1]
    BY <1>1, <1>2
  <1>4. queued \in Nat /\ presses \in Nat /\ queued + 2 <= presses
    BY <1>1 DEF Heard
  <1>5. SigTypeOK'
    <2>1. called' \in [Slot -> 0 .. 1]
      BY <1>3
    <2> QED BY <1>1, <2>1 DEF SigTypeOK
  <1>6. Heard' /\ Asking'
    BY <1>1, <1>4 DEF Heard, Asking
  <1>7. Attentive'
    BY <1>1, <1>3, <1>4 DEF Attentive
  <1> QED BY <1>5, <1>6, <1>7

\* Every step of sigint_state keeps the invariant.
LEMMA SigKeeps == SigIInv /\ SigNext => SigIInv'
  <1> SUFFICES ASSUME SigIInv, SigNext PROVE SigIInv'
    OBVIOUS
  <1> USE DEF SigIInv, SigTypeOK
  <1>1. CASE HandleSignal
    BY <1>1, AskKeeps, ConfirmKeeps DEF HandleSignal
  <1>2. CASE HandleTimer
    <2>1. /\ timer_' = "idle" /\ UNCHANGED <<sigs_, queued, signals_, called, presses>>
          /\ \/ sigint_ = "confirming" /\ sigint_' = "waiting"
             \/ sigint_ # "confirming" /\ sigint_' = sigint_
      BY <1>2 DEF HandleTimer, Asking
    <2>2. SigTypeOK' /\ Asking' /\ Attentive'
      BY <2>1 DEF Asking, Attentive
    <2>3. Heard'
      BY <2>1 DEF Heard
    <2> QED BY <2>2, <2>3
  <1>3. CASE Sigint
    <2>1. /\ sigint_ # "inactive" /\ presses < MaxSigints /\ presses' = presses + 1
          /\ UNCHANGED <<sigint_, timer_, signals_, called>>
          /\ \/ sigs_ = "pending" /\ sigs_' = "ok" /\ queued' = queued
             \/ queued' = queued + 1 /\ sigs_' = sigs_
      BY <1>3 DEF Sigint
    <2>2. queued \in Nat /\ presses \in Nat /\ MaxSigints \in Nat /\ queued <= presses
      BY SigintAssumption DEF Heard
    <2>3. presses' \in 0 .. MaxSigints /\ queued' \in 0 .. MaxSigints
      BY <2>1, <2>2
    <2>4. SigTypeOK' /\ Asking'
      BY <2>1, <2>3 DEF Asking
    <2>5. Heard'
      BY <2>1, <2>2 DEF Heard
    <2>6. Attentive'
      BY <2>1, <2>2 DEF Attentive
    <2> QED BY <2>4, <2>5, <2>6
  <1>4. CASE ConfirmTimerExpires
    BY <1>4 DEF ConfirmTimerExpires, Asking, Heard, Attentive
  <1> QED BY <1>1, <1>2, <1>3, <1>4 DEF SigNext

----------------------------------------------------------------------------
(* wss_transport keeps its invariant: the frames.                          *)

\* The queue without the frame that was sent is a sequence of frames, and the
\* numbers that go round are natural numbers.
LEMMA UnsentType ==
  ASSUME WssIInv
  PROVE  /\ Unsent \in Seq(Frame) /\ Pings \in Nat
         /\ Count("ping", accepted) \in Nat
         /\ owed \in Nat /\ Wait \in 0 .. 1 /\ Answer \in 0 .. 1 /\ MaxPings \in Nat
  <1>1. Unsent \in Seq(Frame)
    BY DEF WssIInv, WssTypeOK, InStep, Unsent, Frame
  <1>2. Pings \in Nat /\ Count("ping", accepted) \in Nat
    BY <1>1, CountType DEF WssIInv, HistoryTypeOK, Pings
  <1>3. owed \in Nat /\ MaxPings \in Nat
    BY WssAssumption DEF WssIInv, WssTypeOK
  <1> QED BY <1>1, <1>2, <1>3 DEF Wait, Answer

\* A sum of natural numbers shrinks with one of them.
LEMMA SumShrinks ==
  ASSUME NEW w \in Nat, NEW p \in Nat, NEW q \in Nat, NEW o \in Nat, NEW a \in Nat, q <= p
  PROVE  /\ w + q + o + a <= w + p + o + a
         /\ w + p + o + a \in Nat /\ w + q + o + a \in Nat
  OBVIOUS

Traffic == InStep /\ OneAtMost /\ FramesInOrder /\ KeepAlive

\* Steps that move no frame.
LEMMA NoTraffic ==
  ASSUME WssIInv, UNCHANGED <<send_queue_, send_state_, accepted, sent, owed>>,
         Unsent' = Unsent, write' # "idle" <=> write # "idle",
         Wait' + Answer' = Wait + Answer, Wait' \in 0 .. 1, Answer' \in 0 .. 1,
         state_' \in {state_, "finished"},
         ping_timer_' = "ok" => ping_timer_ = "ok"
                                \/ (state_ = "connected" => Count("ping", accepted) < MaxPings)
  PROVE  Traffic'
  <1>1. Round' = Round
    <2>1. Pings' = Pings
      BY DEF Pings, Count
    <2>2. Pings \in Nat /\ owed \in Nat /\ owed' = owed
      BY UnsentType
    <2>3. \/ Wait' = Wait /\ Answer' = Answer
          \/ Wait' = 1 /\ Wait = 0 /\ Answer' = 0 /\ Answer = 1
          \/ Wait' = 0 /\ Wait = 1 /\ Answer' = 1 /\ Answer = 0
      BY DEF Wait, Answer
    <2>4. ASSUME NEW p \in Nat, NEW o \in Nat
          PROVE  1 + p + o + 0 = 0 + p + o + 1
      OBVIOUS
    <2>5. 1 + Pings + owed + 0 = 0 + Pings + owed + 1
      BY <2>2, <2>4
    <2> QED BY <2>1, <2>2, <2>3, <2>5, Zenon DEF Round
  <1>2. Count("ping", accepted)' = Count("ping", accepted)
    BY DEF Count
  <1>3. Pings' = Pings
    BY DEF Pings, Count
  <1>4. OneAtMost'
    BY <1>1, <1>2, <1>3 DEF WssIInv, OneAtMost
  <1>5. InStep' /\ FramesInOrder'
    BY DEF WssIInv, InStep, FramesInOrder
  <1>6. KeepAlive'
    BY <1>1 DEF WssIInv, KeepAlive, Round, Pings, Wait, Answer
  <1> QED BY <1>4, <1>5, <1>6 DEF Traffic

\* send_text_frame drops the frame unless the transport is connected, and else
\* puts it behind the others.
LEMMA SendTextFrame ==
  ASSUME WssIInv, NEW f \in Frame, send_text_frame(f), sent' = sent, state_' = state_
  PROVE  /\ send_queue_' \in Seq(Frame) /\ accepted' \in Seq(Frame)
         /\ send_state_' \in {"not_sending", "sending"}
         /\ write' \in {"idle", "pending", "ok", "err"}
         /\ InStep' /\ FramesInOrder'
         /\ IF state_ = "connected"
            THEN Unsent' = Append(Unsent, f) /\ accepted' = Append(accepted, f)
            ELSE UNCHANGED <<Unsent, accepted, send_queue_, send_state_, write>>
  <1>3. Unsent \in Seq(Frame) /\ sent \in Seq(Frame)
    BY UnsentType DEF WssIInv, HistoryTypeOK
  <1> USE DEF WssIInv, WssTypeOK, HistoryTypeOK
  <1>0. send_queue_ \in Seq(Frame)
    BY DEF Frame
  <1>1. CASE state_ # "connected"
    <2>1. UNCHANGED <<send_queue_, accepted, send_state_, write>>
      BY <1>1 DEF send_text_frame
    <2> QED BY <1>0, <1>1, <2>1 DEF InStep, FramesInOrder, Unsent
  <1>2. CASE state_ = "connected"
    <2>1. /\ send_queue_' = Append(send_queue_, f) /\ accepted' = Append(accepted, f)
          /\ start_sending(state_, send_state_, send_queue_')
      BY <1>2 DEF send_text_frame
    <2>2. send_queue_' \in Seq(Frame) /\ send_queue_' # <<>> /\ accepted' \in Seq(Frame)
      BY <1>0, <2>1, PostBack
    <2>3. \/ send_state_ = "not_sending" /\ send_state_' = "sending" /\ write = "idle"
                /\ write' = "pending"
          \/ send_state_ = "sending" /\ send_state_' = "sending" /\ write # "idle"
                /\ write' = write
      BY <1>2, <2>1, <2>2 DEF start_sending, FramesInOrder
    <2>4. Unsent' = Append(Unsent, f)
      <3>1. write = "ok" => send_queue_ # <<>>
        BY DEF InStep
      <3>2. write' = "ok" <=> write = "ok"
        BY <2>3
      <3>3. send_queue_ # <<>> => Tail(Append(send_queue_, f)) = Append(Tail(send_queue_), f)
        BY <1>0, PostBack
      <3> QED BY ONLY <2>1, <3>1, <3>2, <3>3 DEF Unsent
    <2>5. sent \o Unsent' = accepted'
      <3>1. sent \o Unsent = accepted
        BY <1>2 DEF InStep
      <3>2. sent \o Append(Unsent, f) = Append(sent \o Unsent, f)
        BY <1>3, PostBack
      <3> QED BY <2>1, <2>4, <3>1, <3>2
    <2>6. InStep'
      BY <2>2, <2>5 DEF InStep
    <2>7. Len(sent) <= Len(accepted') /\ sent = SubSeq(accepted', 1, Len(sent))
      BY <2>1, PrefixKept DEF FramesInOrder
    <2>8. FramesInOrder'
      BY <2>3, <2>5, <2>7 DEF FramesInOrder
    <2> QED BY <1>2, <2>1, <2>2, <2>3, <2>4, <2>6, <2>8
  <1> QED BY <1>1, <1>2

\* handle_send pops the frame whose write has ended, and starts the next write.
LEMMA SendEnds ==
  ASSUME WssIInv, HandleSend
  PROVE  WssTypeOK' /\ Traffic'
  <1>13. /\ Pings \in Nat /\ Count("ping", accepted) \in Nat
         /\ owed \in Nat /\ Wait \in Nat /\ Answer \in Nat
    BY UnsentType
  <1> USE DEF WssIInv, WssTypeOK, HistoryTypeOK
  <1>0. send_queue_ \in Seq(Frame) /\ send_queue_ # <<>> /\ write \in {"ok", "err"}
    BY DEF Frame, HandleSend, InStep
  <1>1. send_queue_' = Tail(send_queue_) /\ send_queue_' \in Seq(Frame)
        /\ UNCHANGED <<accepted, sent, owed, ping_timer_, read>>
    BY <1>0, SendFront DEF HandleSend
  <1>2. /\ state_' \in {state_, "finished"}
        /\ write = "err" => state_' # "connected" /\ write' = "idle"
        /\ write = "ok" => state_' = state_
        /\ \/ send_state_' = "not_sending" /\ write' = "idle"
           \/ send_state_' = "sending" /\ write' = "pending" /\ send_queue_' # <<>>
    BY <1>0 DEF HandleSend, start_sending, event_transport_error, Connecting
  <1>3. Unsent' = send_queue_' /\ Unsent' = Tail(send_queue_)
    BY <1>1, <1>2 DEF Unsent
  <1>4. write = "ok" => Unsent' = Unsent
    BY <1>3 DEF Unsent
  <1>5. /\ Pings' <= Pings
        /\ write = "ok" => Pings' = Pings
        /\ Pings' \in Nat
    <2>1. CASE write = "ok"
      BY <1>4, <1>13, <2>1 DEF Pings, Count
    <2>2. CASE write = "err"
      <3>1. Pings' = Count("ping", Tail(Unsent)) /\ Unsent = send_queue_
        BY <1>3, <2>2 DEF Pings, Count, Unsent
      <3>2. Pings = Count("ping", Tail(Unsent))
                                      + (IF Head(Unsent) = "ping" THEN 1 ELSE 0)
        BY <1>0, <3>1, CountTail DEF Pings
      <3>3. Count("ping", Tail(Unsent)) \in Nat
        BY <1>1, <3>1, CountType
      <3> QED BY <2>2, <3>1, <3>2, <3>3
    <2> QED BY <1>0, <2>1, <2>2
  <1>6. /\ Round' <= Round /\ (write = "ok" => Round' = Round)
        /\ Round \in Nat /\ Round' \in Nat
    <2>1. Wait' = Wait /\ Answer' = Answer
      BY <1>1 DEF Wait, Answer
    <2>2. Round = Wait + Pings + owed + Answer /\ Round' = Wait + Pings' + owed + Answer
      BY <1>1, <2>1 DEF Round
    <2>3. Round' <= Round /\ Round \in Nat /\ Round' \in Nat
      BY <1>5, <1>13, <2>2, SumShrinks
    <2> QED BY <1>5, <2>2, <2>3
  <1>7. Count("ping", accepted)' = Count("ping", accepted)
    BY <1>1 DEF Count
  <1>8. OneAtMost'
    <2>1. Round' <= 1
      <3>1. Round <= 1
        BY DEF OneAtMost
      <3> QED BY <1>6, <3>1
    <2>2. owed' + Pings' <= Count("ping", accepted)'
      BY <1>1, <1>5, <1>7, <1>13 DEF OneAtMost
    <2> QED BY <1>1, <1>2, <1>7, <2>1, <2>2 DEF OneAtMost
  <1>9. InStep'
    <2>1. write = "ok" => sent' \o Unsent' = accepted'
      BY <1>1, <1>4 DEF InStep
    <2> QED BY <1>0, <1>2, <2>1 DEF InStep
  <1>10. FramesInOrder'
    BY <1>1, <1>2, <1>9 DEF FramesInOrder, InStep
  <1>11. KeepAlive'
    BY <1>0, <1>2, <1>6 DEF KeepAlive, Round, Pings, Wait, Answer
  <1>12. WssTypeOK'
    BY <1>1, <1>2 DEF HandleSend, Frame
  <1> QED BY <1>8, <1>9, <1>10, <1>11, <1>12 DEF Traffic

\* A write moves the front of the queue to the peer, and to owed if it is a ping.
LEMMA WriteOkKeeps ==
  ASSUME WssIInv, WriteOk
  PROVE  WssTypeOK' /\ HistoryTypeOK' /\ Traffic'
  <1>1. /\ write = "pending" /\ write' = "ok"
        /\ sent' = Append(sent, Head(send_queue_))
        /\ owed' = owed + (IF Head(send_queue_) = "ping" THEN 1 ELSE 0)
        /\ UNCHANGED <<state_, send_state_, send_queue_, ping_state_, stage, conn, read,
                       ping_timer_, peer, frames, accepted, completions, errors>>
    BY DEF WriteOk
  <1>2. /\ send_queue_ \in Seq(Frame) /\ send_queue_ # <<>>
        /\ sent \in Seq(Frame) /\ accepted \in Seq(Frame)
        /\ Unsent = send_queue_ /\ Unsent' = Tail(send_queue_)
        /\ sent \o send_queue_ = accepted
    BY <1>1 DEF WssIInv, WssTypeOK, HistoryTypeOK, InStep, Unsent, Frame
  <1>3. /\ sent' \o Unsent' = accepted' /\ sent' \in Seq(Frame) /\ Unsent' \in Seq(Frame)
    <2>1. /\ Append(sent, Head(send_queue_)) \o Tail(send_queue_) = sent \o send_queue_
          /\ Tail(send_queue_) \in Seq(Frame)
          /\ Append(sent, Head(send_queue_)) \in Seq(Frame)
      BY <1>2, SendFront
    <2> QED BY <1>1, <1>2, <2>1
  <1>4. InStep'
    BY <1>1, <1>2, <1>3 DEF InStep
  <1>5. FramesInOrder'
    <2>1. Len(sent') <= Len(accepted') /\ sent' = SubSeq(accepted', 1, Len(sent'))
      BY <1>3, Prefix
    <2> QED BY <1>1, <1>3, <2>1 DEF FramesInOrder, WssIInv
  <1>6. /\ Pings + owed = Pings' + owed' /\ Pings' \in Nat /\ owed' \in Nat
        /\ Wait' = Wait /\ Answer' = Answer
    <2>1. Pings = Pings' + (IF Head(send_queue_) = "ping" THEN 1 ELSE 0)
      <3>1. Count("ping", send_queue_) = Count("ping", Tail(send_queue_))
                                           + (IF Head(send_queue_) = "ping" THEN 1 ELSE 0)
        BY <1>2, CountTail
      <3>2. /\ Pings = Count("ping", send_queue_)
            /\ Pings' = Count("ping", Tail(send_queue_))
        BY <1>2 DEF Pings, Count
      <3> QED BY <3>1, <3>2
    <2>2. Pings' \in Nat
      BY <1>3, CountType DEF Pings, Count
    <2>3. owed \in Nat
      BY UnsentType
    <2>4. Wait' = Wait /\ Answer' = Answer
      BY <1>1 DEF Wait, Answer
    <2> HIDE DEF Pings
    <2> QED BY <1>1, <2>1, <2>2, <2>3, <2>4
  <1>7. Round' = Round
    <2>1. Pings \in Nat /\ owed \in Nat /\ Wait \in Nat /\ Answer \in Nat
      BY UnsentType
    <2>2. Wait + Pings' + owed' + Answer = Wait + Pings + owed + Answer
      <3>1. ASSUME NEW p \in Nat, NEW o \in Nat, p + o = Pings + owed
            PROVE  Wait + p + o + Answer = Wait + Pings + owed + Answer
        BY <2>1, <3>1
      <3> QED BY <1>6, <3>1
    <2> QED BY <1>6, <2>2 DEF Round
  <1>8. Count("ping", accepted)' = Count("ping", accepted)
    BY <1>1 DEF Count
  <1>9. OneAtMost'
    BY <1>1, <1>6, <1>7, <1>8, UnsentType DEF WssIInv, OneAtMost
  <1>10. KeepAlive'
    BY <1>1, <1>7 DEF WssIInv, KeepAlive, Round, Pings, Wait, Answer
  <1>11. owed' \in 0 .. MaxPings
    BY <1>6, <1>9, <1>8, UnsentType DEF OneAtMost
  <1>12. WssTypeOK' /\ HistoryTypeOK'
    BY <1>1, <1>3, <1>11 DEF WssIInv, WssTypeOK, HistoryTypeOK
  <1> QED BY <1>4, <1>5, <1>9, <1>10, <1>12 DEF Traffic

\* The answer to a ping goes from the peer to the read.
LEMMA ReadsPongKeeps ==
  ASSUME WssIInv, ReadsPong
  PROVE  WssTypeOK' /\ Traffic'
  <1>1. /\ read = "pending" /\ read' = "pong" /\ owed > 0 /\ owed' = owed - 1
        /\ UNCHANGED <<state_, send_state_, send_queue_, ping_state_, stage, conn, write,
                       ping_timer_, peer, frames, accepted, sent, completions, errors>>
    BY DEF ReadsPong
  <1>2. /\ Pings \in Nat /\ owed \in Nat /\ Wait \in Nat /\ MaxPings \in Nat
        /\ Count("ping", accepted) \in Nat
    BY UnsentType
  <1>3. /\ Unsent' = Unsent /\ Pings' = Pings /\ Wait' = Wait
        /\ Answer = 0 /\ Answer' = 1
        /\ Count("ping", accepted)' = Count("ping", accepted)
    BY <1>1 DEF Unsent, Pings, Wait, Answer, Count
  <1>4. Round' = Round
    BY <1>1, <1>2, <1>3 DEF Round
  <1>5. InStep' /\ FramesInOrder'
    BY <1>1, <1>3 DEF WssIInv, InStep, FramesInOrder
  <1>6. OneAtMost'
    BY <1>1, <1>2, <1>3, <1>4 DEF WssIInv, OneAtMost
  <1>7. KeepAlive'
    BY <1>1, <1>4 DEF WssIInv, KeepAlive, Round, Pings, Wait, Answer
  <1>8. WssTypeOK'
    BY <1>1, <1>2 DEF WssIInv, WssTypeOK
  <1> QED BY <1>5, <1>6, <1>7, <1>8 DEF Traffic

\* on_hello posts a frame that is no ping.
LEMMA HelloKeeps ==
  ASSUME WssIInv, send_text_frame("sub"), read = "hello", read' # "pong",
         UNCHANGED <<state_, ping_timer_, owed, sent>>
  PROVE  Traffic'
  <1>1. "sub" \in Frame
    BY DEF Frame
  <1>2. InStep' /\ FramesInOrder'
    BY <1>1, SendTextFrame
  <1>3. Pings' = Pings /\ Count("ping", accepted)' = Count("ping", accepted)
    <2>1. CASE state_ = "connected"
      <3>1. Unsent' = Append(Unsent, "sub") /\ accepted' = Append(accepted, "sub")
        BY <1>1, <2>1, SendTextFrame
      <3>2. Unsent \in Seq(Frame) /\ accepted \in Seq(Frame)
        BY UnsentType DEF WssIInv, HistoryTypeOK
      <3>3. /\ Count("ping", Append(Unsent, "sub")) = Count("ping", Unsent) + 0
            /\ Count("ping", Append(accepted, "sub")) = Count("ping", accepted) + 0
        BY <1>1, <3>2, CountAppend
      <3>4. /\ Pings' = Pings + 0 /\ Count("ping", accepted)' = Count("ping", accepted) + 0
        BY <3>1, <3>3 DEF Pings, Count
      <3>5. Pings \in Nat /\ Count("ping", accepted) \in Nat
        BY UnsentType
      <3> QED BY <3>4, <3>5
    <2>2. CASE state_ # "connected"
      BY <1>1, <2>2, SendTextFrame DEF Pings, Count
    <2> QED BY <2>1, <2>2
  <1>4. Wait' = Wait /\ Answer' = Answer
    BY DEF Wait, Answer
  <1>5. Round' = Round
    BY <1>3, <1>4 DEF Round
  <1>6. OneAtMost'
    BY <1>3, <1>5 DEF WssIInv, OneAtMost
  <1>7. KeepAlive'
    BY <1>5 DEF WssIInv, KeepAlive, Round, Pings, Wait, Answer
  <1> QED BY <1>2, <1>6, <1>7 DEF Traffic

\* The timer's handler posts the ping that the wait was for, or nothing.
LEMMA PingKeeps ==
  ASSUME WssIInv, ping_event_timeout
  PROVE  WssTypeOK' /\ HistoryTypeOK' /\ Traffic'
  <1>1. /\ ping_timer_ = "ok" /\ ping_timer_' = "idle" /\ send_text_frame("ping")
        /\ ping_state_' = "ping_waiting_pong"
        /\ UNCHANGED <<state_, stage, conn, read, peer, frames, owed, sent,
                       completions, errors>>
    BY DEF ping_event_timeout
  <1>2. "ping" \in Frame
    BY DEF Frame
  <1>3. /\ send_queue_' \in Seq(Frame) /\ accepted' \in Seq(Frame)
        /\ send_state_' \in {"not_sending", "sending"}
        /\ write' \in {"idle", "pending", "ok", "err"}
        /\ InStep' /\ FramesInOrder'
    BY <1>1, <1>2, SendTextFrame
  <1>4. WssTypeOK' /\ HistoryTypeOK'
    BY <1>1, <1>3 DEF WssIInv, WssTypeOK, HistoryTypeOK, Frame
  <1>5. /\ Pings \in Nat /\ owed \in Nat /\ Answer \in Nat /\ MaxPings \in Nat
        /\ Count("ping", accepted) \in Nat
    BY UnsentType
  <1>6. Wait = 1 /\ Wait' = 0 /\ Answer' = Answer /\ Round <= 1
    BY <1>1 DEF WssIInv, OneAtMost, Wait, Answer
  <1>7. CASE state_ = "connected"
    <2>1. Unsent' = Append(Unsent, "ping") /\ accepted' = Append(accepted, "ping")
      BY <1>1, <1>2, <1>7, SendTextFrame
    <2>2. Unsent \in Seq(Frame) /\ accepted \in Seq(Frame)
      BY UnsentType DEF WssIInv, HistoryTypeOK
    <2>3. /\ Count("ping", Append(Unsent, "ping")) = Count("ping", Unsent) + 1
          /\ Count("ping", Append(accepted, "ping")) = Count("ping", accepted) + 1
      BY <1>2, <2>2, CountAppend
    <2>4. Pings' = Pings + 1 /\ Count("ping", accepted)' = Count("ping", accepted) + 1
      BY <2>1, <2>3 DEF Pings, Count
    <2>5. Round' = Round
      BY <1>1, <1>5, <1>6, <2>4 DEF Round
    <2>6. OneAtMost'
      BY <1>1, <1>5, <1>7, <2>4, <2>5 DEF WssIInv, OneAtMost
    <2>7. KeepAlive'
      BY <1>1, <2>5 DEF WssIInv, KeepAlive, Round, Pings, Wait, Answer
    <2> QED BY <1>3, <1>4, <2>6, <2>7 DEF Traffic
  <1>8. CASE state_ # "connected"
    <2>1. Pings' = Pings /\ Count("ping", accepted)' = Count("ping", accepted)
      BY <1>1, <1>2, <1>8, SendTextFrame DEF Pings, Count
    <2>2. Round' <= 1
      BY <1>1, <1>5, <1>6, <2>1 DEF Round
    <2>3. OneAtMost'
      BY <1>1, <1>8, <2>1, <2>2 DEF WssIInv, OneAtMost
    <2>4. KeepAlive'
      BY <1>1, <1>8 DEF KeepAlive
    <2> QED BY <1>3, <1>4, <2>3, <2>4 DEF Traffic
  <1> QED BY <1>7, <1>8

----------------------------------------------------------------------------
(* wss_transport keeps its invariant: the operations.                      *)

\* There are four stages.
LEMMA FourStages == Len(Stages) = 4
  BY DEF Stages

\* A failure of the connect finishes the transport, before anything was sent.
LEMMA FailConnectKeeps ==
  ASSUME WssIInv, NEW n \in {1, 2}, FailConnect(n), conn = "err" \/ conn' = "idle",
         conn \in {"ok", "err"}, conn' \in {"idle", "pending"},
         stage' \in 1 .. Len(Stages),
         UNCHANGED <<send_queue_, peer, frames, owed, accepted, sent>>
  PROVE  WssIInv'
  <1> USE DEF WssIInv
  <1>1. /\ completions' = completions + n /\ completions' # 0 /\ completions' \in Nat
        /\ state_' = "finished"
        /\ errors' = 1
        /\ UNCHANGED <<read, write, send_state_, ping_timer_, ping_state_>>
    <2>1. state_ \in {"connecting", "finished"}
      BY DEF Connecting, WssTypeOK
    <2> QED BY <2>1 DEF FailConnect, event_transport_error, ErrorOnce, HistoryTypeOK
  <1>2. WssTypeOK' /\ HistoryTypeOK'
    BY <1>1, FourStages DEF WssTypeOK, HistoryTypeOK
  <1>3. Connecting' /\ Fresh' /\ ErrorOnce'
    BY <1>1 DEF Connecting, Fresh, ErrorOnce
  <1>4. Traffic'
    <2>1. Unsent' = Unsent /\ Wait' = Wait /\ Answer' = Answer
      BY <1>1 DEF Unsent, Wait, Answer
    <2> QED BY <1>1, <2>1, UnsentType, NoTraffic
  <1> QED BY <1>2, <1>3, <1>4 DEF Traffic

\* The transport comes up with nothing in its queue and the first wait.
LEMMA TransportUpKeeps ==
  ASSUME WssIInv, LastStage, conn = "ok"
  PROVE  WssIInv'
  <1> USE DEF WssIInv
  <1>1. /\ state_ = "connecting" /\ read = "idle" /\ write = "idle" /\ ping_timer_ = "idle"
        /\ send_queue_ = <<>> /\ accepted = <<>> /\ sent = <<>> /\ owed = 0
        /\ send_state_ = "not_sending" /\ completions = 0 /\ errors = 0
    BY DEF Connecting, Fresh, FramesInOrder, ErrorOnce, WssTypeOK
  <1>2. /\ state_' = "connected" /\ read' = "pending" /\ write' = "idle"
        /\ ping_timer_' = "pending" /\ ping_state_' = "ping_wait" /\ conn' = "idle"
        /\ send_state_' = "not_sending" /\ completions' = 1 /\ errors' = 0
        /\ UNCHANGED <<stage, send_queue_, peer, frames, owed, accepted, sent>>
    BY <1>1 DEF LastStage, event_transport_up, ping_enter_wait, start_sending, start_reading
  <1>3. WssTypeOK' /\ HistoryTypeOK'
    BY <1>2 DEF WssTypeOK, HistoryTypeOK
  <1>4. Connecting' /\ Fresh' /\ ErrorOnce'
    BY <1>2 DEF Connecting, Fresh, ErrorOnce
  <1>5. Unsent' = <<>>
    BY <1>1, <1>2 DEF Unsent
  <1>6. Pings' = 0 /\ Count("ping", accepted)' = 0
    <2>1. accepted \in Seq(Frame)
      BY DEF HistoryTypeOK
    <2>2. Count("ping", <<>>) = 0
      BY <2>1, CountType
    <2> QED BY <1>1, <1>2, <1>5, <2>2 DEF Pings, Count
  <1>7. Wait' = 1 /\ Answer' = 0 /\ owed' = 0
    BY <1>1, <1>2 DEF Wait, Answer
  <1>8. Round' = 1
    BY <1>6, <1>7 DEF Round
  <1>9. OneAtMost'
    BY <1>2, <1>6, <1>7, <1>8, UnsentType DEF OneAtMost
  <1>10. KeepAlive'
    BY <1>8 DEF KeepAlive, Round, Pings, Wait, Answer
  <1>11. InStep' /\ FramesInOrder'
    BY <1>1, <1>2, <1>5 DEF InStep, FramesInOrder
  <1> QED BY <1>3, <1>4, <1>9, <1>10, <1>11

\* A read ends in a frame that moves something, or in one that does not, or in
\* an error.
LEMMA ReadEnds ==
  ASSUME WssIInv, HandleRead
  PROVE  WssIInv'
  <1> USE DEF WssIInv
  <1>0. /\ UNCHANGED <<stage, conn, peer, frames, owed, sent, completions>>
        /\ read \in Kind \cup {"pong", "err"} /\ read # "idle"
        /\ state_ \in {"connected", "finished"} /\ read' \in {"idle", "pending"}
    BY DEF HandleRead, start_reading, Fresh, Connecting, WssTypeOK, Kind
  <1>1. CASE read \in {"bad", "err"}
    <2>1. /\ UNCHANGED <<ping_state_, ping_timer_, send_queue_, accepted, send_state_, write>>
          /\ state_' = "finished" /\ errors' = 1
      BY <1>0, <1>1 DEF HandleRead, event_transport_error, ErrorOnce
    <2>2. WssTypeOK' /\ HistoryTypeOK'
      BY <1>0, <2>1 DEF WssTypeOK, HistoryTypeOK
    <2>3. Connecting' /\ Fresh' /\ ErrorOnce'
      BY <1>0, <2>1 DEF Connecting, Fresh, ErrorOnce
    <2>4. Unsent' = Unsent /\ Wait' = Wait /\ Answer' = Answer
      BY <1>0, <1>1, <2>1 DEF Unsent, Wait, Answer
    <2>5. Traffic'
      BY <1>0, <2>1, <2>4, UnsentType, NoTraffic
    <2> QED BY <2>2, <2>3, <2>5 DEF Traffic
  <1>2. CASE read \notin {"bad", "err"}
    <2>1. Dispatch(read) /\ UNCHANGED <<state_, errors>>
      BY <1>2 DEF HandleRead
    <2>2. Connecting' /\ Fresh' /\ ErrorOnce'
      BY <1>0, <2>1 DEF Connecting, Fresh, ErrorOnce
    <2>3. CASE read = "hello"
      <3>1. send_text_frame("sub") /\ UNCHANGED <<ping_state_, ping_timer_>>
        BY <2>1, <2>3 DEF Dispatch, on_hello
      <3>2. "sub" \in Frame
        BY DEF Frame
      <3>3. /\ send_queue_' \in Seq(Frame) /\ accepted' \in Seq(Frame)
            /\ send_state_' \in {"not_sending", "sending"}
            /\ write' \in {"idle", "pending", "ok", "err"}
        BY <1>0, <2>1, <3>1, <3>2, SendTextFrame
      <3>4. WssTypeOK' /\ HistoryTypeOK'
        BY <1>0, <2>1, <3>1, <3>3 DEF WssTypeOK, HistoryTypeOK, Frame
      <3>5. Traffic'
        BY <1>0, <2>1, <2>3, <3>1, HelloKeeps
      <3> QED BY <2>2, <3>4, <3>5 DEF Traffic
    <2>4. CASE read = "pong"
      <3>1. ping_enter_wait /\ UNCHANGED <<send_queue_, accepted, send_state_, write>>
        BY <2>1, <2>4 DEF Dispatch
      <3>2. Answer = 1 /\ Answer' = 0
        BY <1>0, <2>4 DEF Answer
      <3>3. Wait = 0
        <4>1. /\ Pings \in Nat /\ owed \in Nat /\ Wait \in 0 .. 1
          BY UnsentType
        <4>2. Wait + Pings + owed + 1 <= 1
          BY <3>2 DEF OneAtMost, Round
        <4> QED BY <4>1, <4>2
      <3>4. ping_timer_ = "idle" /\ ping_timer_' = "pending" /\ ping_state_' = "ping_wait"
        BY <3>1, <3>3 DEF ping_enter_wait, Wait
      <3>5. Unsent' = Unsent /\ Wait' = 1
        BY <3>1, <3>4 DEF Unsent, Wait
      <3>6. WssTypeOK' /\ HistoryTypeOK'
        BY <1>0, <2>1, <3>1, <3>4 DEF WssTypeOK, HistoryTypeOK
      <3>7. Traffic'
        BY <1>0, <2>1, <3>1, <3>2, <3>3, <3>4, <3>5, NoTraffic
      <3> QED BY <2>2, <3>6, <3>7 DEF Traffic
    <2>5. CASE read \in {"tick", "binary"}
      <3>1. UNCHANGED <<ping_state_, ping_timer_, send_queue_, accepted, send_state_, write>>
        BY <2>1, <2>5 DEF Dispatch
      <3>2. Unsent' = Unsent /\ Wait' = Wait /\ Answer' = Answer
        BY <1>0, <2>5, <3>1 DEF Unsent, Wait, Answer
      <3>3. WssTypeOK' /\ HistoryTypeOK'
        BY <1>0, <2>1, <3>1 DEF WssTypeOK, HistoryTypeOK
      <3>4. Traffic'
        BY <1>0, <2>1, <3>1, <3>2, UnsentType, NoTraffic
      <3> QED BY <2>2, <3>3, <3>4 DEF Traffic
    <2> QED BY <1>0, <1>2, <2>3, <2>4, <2>5 DEF Kind
  <1> QED BY <1>1, <1>2

\* The environment's steps, but for those that move a frame.
LEMMA EnvironmentKeeps ==
  ASSUME WssIInv,
         \/ ConnectStageOk \/ ConnectStageFails \/ PeerFails \/ ReadsFrame
         \/ ReadFails \/ WriteFails \/ PingTimerExpires
  PROVE  WssIInv'
  <1> USE DEF WssIInv
  <1>1. /\ UNCHANGED <<state_, send_state_, send_queue_, ping_state_, stage, owed, accepted,
                       sent, completions, errors>>
        /\ peer' \in {peer, "down"} /\ frames' \in 0 .. MaxFrames
        /\ \/ conn' = conn
           \/ conn = "pending" /\ conn' = "err"
           \/ conn = "pending" /\ conn' = "ok" /\ completions = 0
        /\ read' = read \/ (read = "pending" /\ read' \in Kind \cup {"err"})
        /\ write' = write \/ (write = "pending" /\ write' = "err")
        /\ \/ ping_timer_' = ping_timer_
           \/ /\ ping_timer_ = "pending" /\ ping_timer_' = "ok"
              /\ state_ = "connected" => Count("ping", accepted) < MaxPings
    <2> USE WssAssumption DEF WssTypeOK
    <2>1. CASE ConnectStageOk
      BY <2>1 DEF ConnectStageOk, Doomed, HistoryTypeOK
    <2>2. CASE ConnectStageFails
      BY <2>2 DEF ConnectStageFails
    <2>3. CASE PeerFails
      BY <2>3 DEF PeerFails
    <2>4. CASE ReadsFrame
      BY <2>4 DEF ReadsFrame
    <2>5. CASE ReadFails
      BY <2>5 DEF ReadFails
    <2>6. CASE WriteFails
      BY <2>6 DEF WriteFails
    <2>7. CASE PingTimerExpires
      BY <2>7 DEF PingTimerExpires
    <2> QED BY <2>1, <2>2, <2>3, <2>4, <2>5, <2>6, <2>7
  <1>2. WssTypeOK' /\ HistoryTypeOK'
    BY <1>1 DEF WssTypeOK, HistoryTypeOK, Kind
  <1>3. Connecting' /\ Fresh' /\ ErrorOnce'
    BY <1>1 DEF Connecting, Fresh, ErrorOnce, WssTypeOK
  <1>4. Unsent' = Unsent /\ Wait' = Wait /\ Answer' = Answer
    BY <1>1 DEF Unsent, Wait, Answer, Kind
  <1>5. Traffic'
    BY <1>1, <1>4, UnsentType, NoTraffic
  <1> QED BY <1>2, <1>3, <1>5 DEF Traffic

\* Every step of wss_transport keeps the invariant.
LEMMA WssKeeps == WssIInv /\ WssNext => WssIInv'
  <1> SUFFICES ASSUME WssIInv, WssNext PROVE WssIInv'
    OBVIOUS
  <1>1. CASE NextStage
    <2>1. stage' \in 1 .. Len(Stages)
      BY <1>1, FourStages DEF NextStage, WssIInv, WssTypeOK
    <2>2. CASE conn = "err"
      BY <1>1, <2>1, <2>2, FailConnectKeeps DEF NextStage
    <2>3. CASE conn # "err"
      <3>1. /\ conn = "ok" /\ conn' = "pending"
            /\ UNCHANGED <<completions, state_, errors, read, write, send_state_, ping_timer_,
                           ping_state_, send_queue_, peer, frames, owed, accepted, sent>>
        BY <1>1, <2>3 DEF NextStage
      <3>2. WssTypeOK' /\ HistoryTypeOK'
        BY <2>1, <3>1, FourStages DEF WssIInv, WssTypeOK, HistoryTypeOK
      <3>3. Connecting' /\ Fresh' /\ ErrorOnce'
        BY <2>1, <3>1 DEF WssIInv, Connecting, Fresh, ErrorOnce
      <3>4. Unsent' = Unsent /\ Wait' = Wait /\ Answer' = Answer
        BY <3>1 DEF Unsent, Wait, Answer
      <3>5. Traffic'
        BY <3>1, <3>4, UnsentType, NoTraffic
      <3> QED BY <3>2, <3>3, <3>5 DEF WssIInv, Traffic
    <2> QED BY <2>2, <2>3
  <1>2. CASE SniFails
    <2>1. conn # "idle" /\ stage' = stage /\ stage \in 1 .. Len(Stages)
      BY <1>2 DEF SniFails, WssIInv, Connecting
    <2>2. CASE conn = "err"
      BY <1>2, <2>1, <2>2, FailConnectKeeps DEF SniFails
    <2>3. CASE conn = "ok"
      BY <1>2, <2>1, <2>3, FailConnectKeeps DEF SniFails
    <2> QED BY <1>2, <2>2, <2>3 DEF SniFails
  <1>3. CASE LastStage
    <2>1. conn # "idle" /\ stage' = stage /\ stage \in 1 .. Len(Stages)
      BY <1>3 DEF LastStage, WssIInv, Connecting
    <2>2. CASE conn = "err"
      BY <1>3, <2>1, <2>2, FailConnectKeeps DEF LastStage
    <2>3. CASE conn = "ok"
      BY <1>3, <2>3, TransportUpKeeps
    <2> QED BY <1>3, <2>2, <2>3 DEF LastStage
  <1>4. CASE HandleSend
    <2>0. write \in {"ok", "err"} /\ state_ \in {"connected", "finished"}
      BY <1>4 DEF HandleSend, WssIInv, WssTypeOK, Fresh, Connecting
    <2>1. /\ UNCHANGED <<stage, conn, accepted, sent, completions, read, ping_timer_, owed>>
          /\ state_ \in {"connected", "finished"}
          /\ \/ state_' = state_ /\ errors' = errors
             \/ state_' = "finished" /\ errors' = 1
      <3>1. CASE write = "ok"
        BY <1>4, <2>0, <3>1 DEF HandleSend
      <3>2. CASE write = "err"
        BY <1>4, <2>0, <3>2 DEF HandleSend, event_transport_error, WssIInv, ErrorOnce
      <3> QED BY <2>0, <3>1, <3>2
    <2>2. HistoryTypeOK'
      BY <2>1 DEF WssIInv, HistoryTypeOK
    <2>3. Connecting' /\ Fresh' /\ ErrorOnce'
      BY <2>1 DEF WssIInv, Connecting, Fresh, ErrorOnce
    <2> QED BY <1>4, <2>2, <2>3, SendEnds DEF WssIInv, Traffic
  <1>5. CASE HandleRead
    BY <1>5, ReadEnds
  <1>6. CASE ping_event_timeout
    <2>1. Connecting' /\ Fresh' /\ ErrorOnce'
      BY <1>6 DEF ping_event_timeout, WssIInv, Connecting, Fresh, ErrorOnce
    <2> QED BY <1>6, <2>1, PingKeeps DEF WssIInv, Traffic
  <1>7. CASE ReadsPong
    <2>1. HistoryTypeOK' /\ Connecting' /\ Fresh' /\ ErrorOnce'
      BY <1>7 DEF ReadsPong, WssIInv, HistoryTypeOK, Connecting, Fresh, ErrorOnce
    <2> QED BY <1>7, <2>1, ReadsPongKeeps DEF WssIInv, Traffic
  <1>8. CASE WriteOk
    <2>1. Connecting' /\ Fresh' /\ ErrorOnce'
      BY <1>8 DEF WriteOk, WssIInv, Connecting, Fresh, ErrorOnce
    <2> QED BY <1>8, <2>1, WriteOkKeeps DEF WssIInv, Traffic
  <1>9. CASE \/ ConnectStageOk \/ ConnectStageFails \/ PeerFails \/ ReadsFrame
             \/ ReadFails \/ WriteFails \/ PingTimerExpires
    BY <1>9, EnvironmentKeeps
  <1> QED BY <1>1, <1>2, <1>3, <1>4, <1>5, <1>6, <1>7, <1>8, <1>9 DEF WssNext

\* Starting the connect sends nothing.
LEMMA WssStarts == WssIInv /\ StartConnection => WssIInv'
  <1> SUFFICES ASSUME WssIInv, StartConnection PROVE WssIInv'
    OBVIOUS
  <1> USE DEF WssIInv
  <1>1. /\ state_ = "not_started" /\ state_' = "connecting" /\ stage' = 1 /\ conn' = "pending"
        /\ UNCHANGED <<send_state_, send_queue_, ping_state_, read, write, ping_timer_, peer,
                       frames, owed, accepted, sent, completions, errors>>
        /\ send_queue_ = <<>> /\ accepted = <<>> /\ sent = <<>> /\ write = "idle"
    BY DEF StartConnection, Fresh
  <1>2. WssTypeOK' /\ HistoryTypeOK'
    BY <1>1, FourStages DEF WssTypeOK, HistoryTypeOK
  <1>3. Connecting' /\ Fresh' /\ ErrorOnce'
    BY <1>1, FourStages DEF Connecting, Fresh, ErrorOnce
  <1>4. Unsent' = Unsent /\ Pings' = Pings /\ Wait' = Wait /\ Answer' = Answer
        /\ Count("ping", accepted)' = Count("ping", accepted)
    BY <1>1 DEF Unsent, Pings, Wait, Answer, Count
  <1>5. Round' = Round
    BY <1>1, <1>4 DEF Round
  <1>6. OneAtMost'
    BY <1>1, <1>4, <1>5 DEF OneAtMost
  <1>7. KeepAlive' /\ InStep' /\ FramesInOrder'
    BY <1>1 DEF KeepAlive, InStep, FramesInOrder
  <1> QED BY <1>2, <1>3, <1>6, <1>7

\* sigint_state and the transport share no variable, so IInv always holds.
LEMMA AlwaysIInv == Spec => []IInv
  <1>1. Init => SigIInv
    <2> SUFFICES ASSUME SigInit PROVE SigIInv
      BY DEF Init
    <2>1. queued \in 0 .. MaxSigints /\ presses \in 0 .. MaxSigints
      BY SigintAssumption DEF SigInit
    <2>2. SigTypeOK
      BY <2>1 DEF SigInit, SigTypeOK
    <2>3. Asking /\ Heard /\ Attentive
      BY DEF SigInit, Asking, Heard, Attentive
    <2> QED BY <2>2, <2>3 DEF SigIInv
  <1>2. Init => WssIInv
    <2> SUFFICES ASSUME WssInit PROVE WssIInv
      BY DEF Init
    <2> USE DEF WssInit
    <2>1. WssTypeOK /\ HistoryTypeOK
      BY WssAssumption, FourStages DEF WssTypeOK, HistoryTypeOK
    <2>2. Connecting /\ Fresh /\ ErrorOnce
      BY DEF Connecting, Fresh, ErrorOnce
    <2>3. Pings = 0 /\ Count("ping", accepted) = 0
      <3>1. Unsent = <<>> /\ accepted = <<>> /\ accepted \in Seq(Frame)
        BY DEF Unsent
      <3>2. Count("ping", <<>>) = 0
        BY <3>1, CountType
      <3> QED BY <3>1, <3>2 DEF Pings
    <2>4. Wait = 0 /\ Answer = 0 /\ owed = 0
      BY DEF Wait, Answer
    <2>5. OneAtMost
      BY <2>3, <2>4, WssAssumption DEF OneAtMost, Round
    <2>6. KeepAlive /\ InStep /\ FramesInOrder
      BY DEF KeepAlive, InStep, FramesInOrder
    <2> QED BY <2>1, <2>2, <2>5, <2>6 DEF WssIInv
  <1>3. ASSUME SigIInv, UNCHANGED sigvars
        PROVE  SigIInv'
    BY <1>3 DEF sigvars, SigIInv, SigTypeOK, Asking, Heard, Attentive
  <1>4. ASSUME WssIInv, UNCHANGED wssvars
        PROVE  WssIInv'
    <2>1. WssTypeOK' /\ HistoryTypeOK' /\ Connecting' /\ Fresh' /\ ErrorOnce'
      BY <1>4 DEF wssvars, WssIInv, WssTypeOK, HistoryTypeOK, Connecting, Fresh, ErrorOnce
    <2>2. Unsent' = Unsent /\ Wait' = Wait /\ Answer' = Answer
      BY <1>4 DEF wssvars, Unsent, Wait, Answer
    <2>3. Traffic'
      BY <1>4, <2>2, UnsentType, NoTraffic DEF wssvars
    <2> QED BY <2>1, <2>3 DEF WssIInv, Traffic
  <1>5. IInv /\ [Next]_appvars => IInv'
    <2> SUFFICES ASSUME IInv, [Next]_appvars PROVE IInv'
      OBVIOUS
    <2>1. CASE AppStart
      BY <2>1, SigStarts, WssStarts DEF AppStart, IInv
    <2>2. CASE SigNext /\ UNCHANGED wssvars
      BY <1>4, <2>2, SigKeeps DEF IInv
    <2>3. CASE WssNext /\ UNCHANGED sigvars
      BY <1>3, <2>3, WssKeeps DEF IInv
    <2>4. CASE UNCHANGED appvars
      BY <1>3, <1>4, <2>4 DEF IInv, appvars
    <2> QED BY <2>1, <2>2, <2>3, <2>4 DEF Next
  <1>6. Init => IInv
    BY <1>1, <1>2 DEF IInv
  <1> QED BY <1>5, <1>6, PTL DEF Spec

----------------------------------------------------------------------------
(* Theorems.                                                               *)

\* The variables keep their types: expires_after never meets a wait that is
\* queued, and the question's timer is never started twice.
THEOREM TypeCorrect == Spec => []TypeOK
  <1>1. IInv => TypeOK
    BY DEF IInv, SigIInv, WssIInv, TypeOK
  <1> QED BY <1>1, AlwaysIInv, PTL

\* While connected, frames leave in the order in which they were posted, none
\* skipped and none twice; at any time what was sent is a prefix of that.
THEOREM FramesLeaveInOrder == Spec => []FramesInOrder
  <1>1. IInv => FramesInOrder
    BY DEF IInv, WssIInv
  <1> QED BY <1>1, AlwaysIInv, PTL

\* Exactly one wait, ping or answer goes round while the transport is connected.
THEOREM KeepAliveGoesRound == Spec => []KeepAlive
  <1>1. IInv => KeepAlive
    BY DEF IInv, WssIInv
  <1> QED BY <1>1, AlwaysIInv, PTL

\* on_transport_error is called once, although connect_op may complete several
\* times with an error and reads and writes fail after it.
THEOREM TransportErrorOnce == Spec => []ErrorOnce
  <1>1. IInv => ErrorOnce
    BY DEF IInv, WssIInv
  <1> QED BY <1>1, AlwaysIInv, PTL

\* No ctrl-c is missed, and only a second one calls the slots, each once.
THEOREM CtrlCIsHeard == Spec => []Attentive
  <1>1. IInv => Attentive
    BY DEF IInv, SigIInv
  <1> QED BY <1>1, AlwaysIInv, PTL
=============================================================================
