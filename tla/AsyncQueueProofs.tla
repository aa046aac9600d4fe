-------------------------- MODULE AsyncQueueProofs --------------------------
(***************************************************************************)
(* Proofs about AsyncQueue, for every number of pushes, stops and pops.    *)
(***************************************************************************)
EXTENDS AsyncQueue, TLAPS

\* Why the two threads may share handler_ without a lock: it is set for as long
\* as anything says that the default executor may take it.  And a completion
\* that has been decided on has something to complete with.
Handover ==
  /\ consumer = "assigned" => handler_ = "set"
  /\ state_ = "waiting" => handler_ = "set"
  /\ Deciding => ec_ \/ values_ # <<>>

IInv == TypeOK /\ HandlerIsSafe /\ OneAnswer /\ Handover /\ NoLostWakeup

----------------------------------------------------------------------------
(* Lemmas.                                                                 *)

\* What is left of a queue is a queue, and what is first in it a member.
LEMMA QueueParts ==
  ASSUME NEW S, NEW q \in Seq(S), q # <<>>
  PROVE  /\ Head(q) \in S /\ Tail(q) \in Seq(S) /\ Len(Tail(q)) = Len(q) - 1
         /\ Len(q) = 1 => Tail(q) = <<>>
  <1>1. Head(q) \in S /\ Tail(q) \in Seq(S) /\ Len(Tail(q)) = Len(q) - 1
    OBVIOUS
  <1>2. ASSUME NEW t \in Seq(S), Len(t) = 0
        PROVE  t = <<>>
    BY <1>2
  <1> QED BY <1>1, <1>2

\* What dispatch queues is a task, and it is there to be run.
LEMMA Dispatched ==
  ASSUME TypeOK, NEW t \in Task, dispatch(t)
  PROVE  tasks' \in Seq(Task) /\ tasks' # <<>>
  BY DEF TypeOK, dispatch

\* A handler is told apart by what it is invoked with.
LEMMA Results ==
  /\ Aborted \in Result
  /\ \A v \in Value : Ok(v) \in Result /\ Ok(v) # Aborted /\ Ok(v)[2] = v
  /\ \A r \in Result : r # Aborted => r[2] \in Value
  BY DEF Aborted, Ok, Result

\* OneAnswer, read backwards: a posted handler, a completion on its way and a
\* waiting state exclude each other, and each belongs to a pop in progress.
LEMMA Exclusive ==
  ASSUME TypeOK, OneAnswer
  PROVE  /\ Len(inbox) \in Nat
         /\ state_ = "waiting" => exec # "post" /\ inbox = <<>>
         /\ exec = "post" => inbox = <<>>
         /\ inbox # <<>> => Len(inbox) = 1
         /\ state_ = "waiting" \/ exec = "post" \/ inbox # <<>> =>
              consumer \in {"published", "waiting"}
  <1>1. Len(inbox) \in Nat /\ (inbox # <<>> => Len(inbox) > 0)
    BY DEF TypeOK
  <1>2. Answers = 0 \/ (Answers = 1 /\ consumer \in {"published", "waiting"})
    BY DEF OneAnswer
  <1>3. CASE state_ = "waiting"
    <2>1. CASE exec = "post"
      <3>1. Answers = 2 + Len(inbox)
        BY <1>1, <1>3, <2>1 DEF Answers
      <3> QED BY <1>1, <1>2, <3>1
    <2>2. CASE exec # "post"
      <3>1. Answers = 1 + Len(inbox)
        BY <1>1, <1>3, <2>2 DEF Answers
      <3> QED BY <1>1, <1>2, <2>2, <3>1
    <2> QED BY <2>1, <2>2
  <1>4. CASE state_ # "waiting"
    <2>1. CASE exec = "post"
      <3>1. Answers = 1 + Len(inbox)
        BY <1>1, <1>4, <2>1 DEF Answers
      <3> QED BY <1>1, <1>2, <1>4, <3>1
    <2>2. CASE exec # "post"
      <3>1. Answers = Len(inbox)
        BY <1>1, <1>4, <2>2 DEF Answers
      <3> QED BY <1>1, <1>2, <1>4, <2>2, <3>1
    <2> QED BY <2>1, <2>2
  <1> QED BY <1>3, <1>4

----------------------------------------------------------------------------
(* The inductive invariant.                                                *)

\* No step of a producer, of the consumer or of the default executor breaks the
\* invariant.
LEMMA NextKeepsIInv ==
  ASSUME IInv, [Next]_vars
  PROVE  IInv'
  <1> USE DEF IInv
  <1>1. CASE push
    <2>1. pushes' \in Value /\ pushes' \in 0 .. MaxPush
      BY <1>1, BoundsAssumption DEF push, TypeOK, Value
    <2>2. tasks' \in Seq(Task) /\ tasks' # <<>>
      BY <1>1, <2>1, Dispatched DEF push, Task
    <2>3. TypeOK'
      BY <1>1, <2>1, <2>2 DEF push, TypeOK
    <2> QED
      BY <1>1, <2>2, <2>3
      DEF push, HandlerIsSafe, OneAnswer, Answers, Handover, Deciding,
          NoLostWakeup
  <1>2. CASE stop
    <2>1. stops' \in 0 .. MaxStop
      BY <1>2, BoundsAssumption DEF stop, TypeOK
    <2>2. tasks' \in Seq(Task) /\ tasks' # <<>>
      BY <1>2, Dispatched DEF stop, Task
    <2>3. TypeOK'
      BY <1>2, <2>1, <2>2 DEF stop, TypeOK
    <2> QED
      BY <1>2, <2>2, <2>3
      DEF stop, HandlerIsSafe, OneAnswer, Answers, Handover, Deciding,
          NoLostWakeup
  <1>3. CASE PopAssigns
    <2>1. state_ = "not_waiting" /\ exec # "post"
      BY <1>3, Exclusive DEF PopAssigns, HandlerIsSafe
    <2>2. TypeOK'
      BY <1>3, BoundsAssumption DEF PopAssigns, TypeOK
    <2> QED
      BY <1>3, <2>1, <2>2
      DEF PopAssigns, HandlerIsSafe, OneAnswer, Answers, Handover, Deciding,
          NoLostWakeup
  <1>4. CASE PopAssigned
    <2>1. TypeOK'
      BY <1>4 DEF PopAssigned, TypeOK, calls
    <2> QED
      BY <1>4, <2>1
      DEF PopAssigned, HandlerIsSafe, OneAnswer, Answers, Handover, Deciding,
          NoLostWakeup
  <1>5. CASE PopPublishes
    <2>1. TypeOK'
      BY <1>5 DEF PopPublishes, TypeOK, calls
    <2>2. state_ # "waiting" /\ exec # "post" /\ Len(inbox) = 0
      BY <1>5, Exclusive DEF PopPublishes
    <2> QED
      BY <1>5, <2>1, <2>2
      DEF PopPublishes, HandlerIsSafe, OneAnswer, Answers, Handover, Deciding,
          NoLostWakeup
  <1>6. CASE PopDispatches
    <2>1. tasks' \in Seq(Task) /\ tasks' # <<>>
      BY <1>6, Dispatched DEF PopDispatches, Task
    <2>2. TypeOK'
      BY <1>6, <2>1 DEF PopDispatches, TypeOK, calls
    <2> QED
      BY <1>6, <2>1, <2>2
      DEF PopDispatches, HandlerIsSafe, OneAnswer, Answers, Handover, Deciding,
          NoLostWakeup
  <1>7. CASE Handler
    <2>1. inbox # <<>> /\ Len(inbox) = 1 /\ state_ # "waiting" /\ exec # "post"
      BY <1>7, Exclusive DEF Handler
    <2>2. inbox' \in Seq(Result) /\ Len(inbox') = 0
      BY <1>7, <2>1, QueueParts DEF Handler, TypeOK
    <2>3. got' \in Seq(Value)
      <3>1. Head(inbox) \in Result
        BY <2>1, QueueParts DEF TypeOK
      <3> QED BY <1>7, <3>1, Results DEF Handler, TypeOK
    <2>4. TypeOK'
      BY <1>7, <2>2, <2>3 DEF Handler, TypeOK, calls
    <2> QED
      BY <1>7, <2>1, <2>2, <2>4
      DEF Handler, TypeOK, HandlerIsSafe, OneAnswer, Answers, Handover, Deciding,
          NoLostWakeup
  <1>8. CASE HandlerReturns
    <2>1. TypeOK'
      BY <1>8 DEF HandlerReturns, TypeOK, calls
    <2>2. state_ # "waiting"
      BY <1>8, Exclusive DEF HandlerReturns
    <2> QED
      BY <1>8, <2>1, <2>2
      DEF HandlerReturns, TypeOK, HandlerIsSafe, OneAnswer, Answers, Handover, Deciding,
          NoLostWakeup
  <1>9. CASE RunTask
    <2>1. Head(tasks) \in Task /\ tasks' \in Seq(Task)
      BY <1>9, QueueParts DEF RunTask, TypeOK
    <2>2. values_' \in Seq(Value)
      <3>1. Head(tasks)[1] = "push" => Head(tasks)[2] \in Value
        BY <2>1 DEF Task
      <3>2. CASE Head(tasks)[1] = "push"
        BY <1>9, <3>1, <3>2 DEF RunTask, TypeOK
      <3>3. CASE Head(tasks)[1] = "stop"
        BY <1>9, <3>3 DEF RunTask, TypeOK
      <3>4. CASE Head(tasks)[1] \notin {"push", "stop"}
        BY <1>9, <3>4 DEF RunTask, TypeOK
      <3> QED BY <3>2, <3>3, <3>4
    <2>3. /\ ec_' \in BOOLEAN /\ stopped' \in BOOLEAN /\ exec' = "maybe_complete"
          /\ UNCHANGED <<state_, handler_, consumer, inbox, got, calls, misuse>>
      BY <1>9 DEF RunTask
    <2>4. TypeOK'
      BY <2>1, <2>2, <2>3 DEF TypeOK, calls
    <2>5. exec = "idle"
      BY <1>9 DEF RunTask
    <2> QED
      BY <2>3, <2>4, <2>5
      DEF HandlerIsSafe, OneAnswer, Answers, Handover, Deciding,
          NoLostWakeup
  <1>10. CASE MaybeComplete
    <2>1. TypeOK'
      BY <1>10 DEF MaybeComplete, TypeOK, calls
    <2>2. state_ = "waiting" => Len(inbox) = 0 /\ consumer \in {"published", "waiting"}
      BY Exclusive
    <2>3. exec = "maybe_complete" /\ Len(inbox) \in Nat
      BY <1>10, Exclusive DEF MaybeComplete
    <2>4. CASE exec' = "post"
      <3>1. /\ state_ = "waiting" /\ state_' = "not_waiting" /\ inbox' = inbox
            /\ consumer' = consumer
        BY <1>10, <2>3, <2>4 DEF MaybeComplete
      <3>2. Answers' = 1
        BY <2>2, <2>4, <3>1 DEF Answers
      <3> QED
        BY <1>10, <2>1, <2>2, <2>4, <3>1, <3>2
        DEF MaybeComplete, HandlerIsSafe, OneAnswer, Handover, Deciding,
          NoLostWakeup
    <2>5. CASE exec' # "post"
      <3>1. exec' = "idle" /\ state_' = state_ /\ inbox' = inbox /\ consumer' = consumer
        BY <1>10, <2>5 DEF MaybeComplete, TypeOK
      <3>2. Answers' = Answers
        BY <2>3, <3>1 DEF Answers
      <3> QED
        BY <1>10, <2>1, <3>1, <3>2
        DEF MaybeComplete, HandlerIsSafe, OneAnswer, Handover, Deciding,
          NoLostWakeup
    <2> QED BY <2>4, <2>5
  <1>11. CASE PostHandler
    <2>1. /\ exec = "post" /\ inbox = <<>> /\ handler_ = "set"
          /\ consumer \in {"published", "waiting"} /\ state_ # "waiting"
      BY <1>11, Exclusive DEF PostHandler, HandlerIsSafe
    <2>2. inbox' \in Seq(Result) /\ Len(inbox') = 1
      <3> DEFINE r == IF ec_ THEN Aborted ELSE Ok(Head(values_))
      <3>1. r \in Result
        BY <2>1, QueueParts, Results DEF Handover, Deciding, TypeOK
      <3> HIDE DEF r
      <3>2. inbox' = Append(inbox, r)
        BY <1>11 DEF PostHandler, r
      <3> QED BY <2>1, <3>1, <3>2
    <2>3. TypeOK'
      BY <1>11, <2>2 DEF PostHandler, TypeOK, calls
    <2>4. Answers' = 1
      BY <1>11, <2>1, <2>2 DEF PostHandler, Answers
    <2> QED
      BY <1>11, <2>1, <2>3, <2>4
      DEF PostHandler, HandlerIsSafe, OneAnswer, Handover, Deciding,
          NoLostWakeup
  <1>12. CASE Tidy
    <2>1. values_' \in Seq(Value)
      BY <1>12, QueueParts DEF Tidy, TypeOK, Handover, Deciding,
          NoLostWakeup
    <2>2. TypeOK'
      BY <1>12, <2>1 DEF Tidy, TypeOK, calls
    <2> QED
      BY <1>12, <2>2
      DEF Tidy, HandlerIsSafe, OneAnswer, Answers, Handover, Deciding,
          NoLostWakeup
  <1>13. CASE UNCHANGED vars
    BY <1>13
    DEF vars, TypeOK, HandlerIsSafe, OneAnswer, Answers, Handover, Deciding,
          NoLostWakeup
  <1> QED
    BY <1>1, <1>2, <1>3, <1>4, <1>5, <1>6, <1>7, <1>8, <1>9, <1>10, <1>11, <1>12,
       <1>13
    DEF Next

\* IInv holds in every reachable state.
LEMMA AlwaysIInv == Spec => []IInv
  <1>1. Init => IInv
    <2> SUFFICES ASSUME Init PROVE IInv
      OBVIOUS
    <2>1. TypeOK
      <3>1. 0 \in 0 .. MaxPush /\ 0 \in 0 .. MaxStop /\ 0 \in 0 .. MaxPop
        BY BoundsAssumption
      <3>2. <<>> \in Seq(Value) /\ <<>> \in Seq(Task) /\ <<>> \in Seq(Result)
        OBVIOUS
      <3>3. FALSE \in BOOLEAN
        OBVIOUS
      <3> QED BY <3>1, <3>2, <3>3, Zenon DEF Init, TypeOK
    <2>2. Answers = 0
      BY DEF Init, Answers
    <2> QED
      BY <2>1, <2>2 DEF Init, IInv, HandlerIsSafe, OneAnswer, Handover, Deciding,
          NoLostWakeup
  <1> QED BY <1>1, NextKeepsIInv, PTL DEF Spec

----------------------------------------------------------------------------
(* Theorems.                                                               *)

\* The variables of the queue keep their types.
THEOREM TypeCorrect == Spec => []TypeOK
  <1>1. IInv => TypeOK
    BY DEF IInv
  <1> QED BY <1>1, AlwaysIInv, PTL

\* No data race on handler_: maybe_complete takes it only when async_pop is done
\* with it, and async_pop's assert on state_ holds, however the threads interleave.
THEOREM HandlerNeverTorn == Spec => []HandlerIsSafe
  <1>1. IInv => HandlerIsSafe
    BY DEF IInv
  <1> QED BY <1>1, AlwaysIInv, PTL

\* Every async_pop has exactly one answer on its way until it is answered.
THEOREM ExactlyOneAnswer == Spec => []OneAnswer
  <1>1. IInv => OneAnswer
    BY DEF IInv
  <1> QED BY <1>1, AlwaysIInv, PTL

\* A pop that waits while there is something for it is never forgotten: the task
\* that will answer it runs or is queued.
THEOREM WakeupNeverLost == Spec => []NoLostWakeup
  <1>1. IInv => NoLostWakeup
    BY DEF IInv
  <1> QED BY <1>1, AlwaysIInv, PTL

----------------------------------------------------------------------------
(* Refinement.                                                             *)

\* Every step is a step of an AsyncChannel or shows nothing.
LEMMA StepRefines ==
  ASSUME IInv, Next
  PROVE  [Abstract!CNext]_(Abstract!cvars)
  <1> USE DEF IInv
  <1> DEFINE request ==
        IF consumer \in {"published", "waiting"} /\ state_ = "waiting" THEN "open"
        ELSE IF exec = "post" THEN (IF ec_ THEN "refused" ELSE "value")
        ELSE IF inbox # <<>> THEN (IF Head(inbox) = Aborted THEN "refused" ELSE "value")
        ELSE "none"
      handed ==
        IF exec = "post" /\ ~ec_ THEN Append(got, Head(values_))
        ELSE IF inbox # <<>> /\ Head(inbox) # Aborted THEN Append(got, Head(inbox)[2])
        ELSE got
  <1>0. ASSUME Available' = Available, Alarm' = Alarm, request' = request,
               handed' = handed
        PROVE  UNCHANGED Abstract!cvars
    BY <1>0 DEF Abstract!cvars
  \* A step that leaves alone what the channel is seen through.
  <1>1. ASSUME UNCHANGED <<values_, ec_, exec, inbox, got, state_>>,
               consumer' = consumer \/ state_ # "waiting"
                 \/ {consumer, consumer'} \subseteq {"published", "waiting"}
        PROVE  UNCHANGED Abstract!cvars
    <2>1. state_ = "waiting" => consumer \in {"published", "waiting"}
      BY Exclusive
    <2>2. Available' = Available /\ Alarm' = Alarm
      BY <1>1 DEF Available, Alarm, Deciding
    <2>3. request' = request /\ handed' = handed
      BY <1>1, <2>1
    <2> QED BY <1>0, <2>2, <2>3
  <1>2. CASE push \/ stop
    BY <1>1, <1>2 DEF push, stop
  <1>3. CASE PopAssigns \/ PopAssigned \/ HandlerReturns
    <2>1. state_ # "waiting"
      BY <1>3, Exclusive DEF PopAssigns, PopAssigned, HandlerReturns
    <2> QED BY <1>1, <1>3, <2>1 DEF PopAssigns, PopAssigned, HandlerReturns
  <1>4. CASE PopDispatches
    BY <1>1, <1>4 DEF PopDispatches
  <1>5. CASE PopPublishes
    <2>1. exec # "post" /\ inbox = <<>>
      BY <1>5, Exclusive DEF PopPublishes
    <2>2. request = "none" /\ request' = "open" /\ handed' = handed
      BY <1>5, <2>1 DEF PopPublishes
    <2>3. Available' = Available /\ Alarm' = Alarm
      BY <1>5 DEF PopPublishes, Available, Alarm, Deciding
    <2>4. Abstract!Ask
      BY <2>2, <2>3 DEF Abstract!Ask
    <2> QED BY <2>4 DEF Abstract!CNext
  <1>6. CASE Handler
    <2>1. state_ # "waiting" /\ exec # "post" /\ Len(inbox) = 1 /\ inbox # <<>>
      BY <1>6, Exclusive DEF Handler
    <2>2. inbox' = <<>>
      BY <1>6, <2>1, QueueParts DEF Handler, TypeOK
    <2>3. request \in {"value", "refused"} /\ request' = "none"
      BY <1>6, <2>1, <2>2 DEF Handler
    <2>4. handed' = handed
      BY <1>6, <2>1, <2>2 DEF Handler
    <2>5. Available' = Available /\ Alarm' = Alarm
      BY <1>6 DEF Handler, Available, Alarm, Deciding
    <2>6. Abstract!Receive
      BY <2>3, <2>4, <2>5 DEF Abstract!Receive
    <2> QED BY <2>6 DEF Abstract!CNext
  <1>7. CASE RunTask
    <2>1. /\ exec = "idle" /\ exec' = "maybe_complete" /\ tasks # <<>>
          /\ ec_' \in BOOLEAN
          /\ UNCHANGED <<state_, consumer, inbox, got>>
      BY <1>7 DEF RunTask
    <2>2. request' = request /\ handed' = handed
      BY <2>1
    <2>3. /\ Available = values_ /\ Available' = values_'
          /\ Alarm = ec_ /\ Alarm' = ec_'
      BY <2>1 DEF Available, Alarm, Deciding, TypeOK
    <2>4. Head(tasks) \in Task
      BY <2>1, QueueParts DEF TypeOK
    <2>5. CASE Head(tasks)[1] = "push"
      <3>1. Head(tasks)[2] \in Value
        BY <2>4, <2>5 DEF Task
      <3>2. values_' = Append(values_, Head(tasks)[2]) /\ ec_' = ec_
        BY <1>7, <2>5 DEF RunTask, TypeOK
      <3>3. Abstract!Put(Head(tasks)[2])
        BY <2>2, <2>3, <3>2 DEF Abstract!Put
      <3> QED BY <3>1, <3>3 DEF Abstract!CNext
    <2>6. CASE Head(tasks)[1] = "stop"
      <3>1. values_' = <<>> /\ ec_' = TRUE
        BY <1>7, <2>6 DEF RunTask
      <3>2. Abstract!Clear
        BY <2>2, <2>3, <3>1 DEF Abstract!Clear
      <3> QED BY <3>2 DEF Abstract!CNext
    <2>7. CASE Head(tasks)[1] \notin {"push", "stop"}
      <3>1. values_' = values_ /\ ec_' = ec_
        BY <1>7, <2>7 DEF RunTask, TypeOK
      <3> QED BY <1>0, <2>2, <2>3, <3>1
    <2> QED BY <2>5, <2>6, <2>7
  <1>8. CASE MaybeComplete
    <2>1. /\ exec = "maybe_complete"
          /\ UNCHANGED <<values_, ec_, consumer, inbox, got>>
      BY <1>8 DEF MaybeComplete
    <2>2. Available = values_ /\ Alarm = ec_
      BY <2>1 DEF Available, Alarm, Deciding, TypeOK
    <2>3. CASE exec' # "post"
      <3>1. exec' = "idle" /\ state_' = state_
        BY <1>8, <2>1, <2>3 DEF MaybeComplete, TypeOK
      <3>2. Available' = values_ /\ Alarm' = ec_
        BY <2>1, <3>1 DEF Available, Alarm, Deciding, TypeOK
      <3>3. request' = request /\ handed' = handed
        BY <2>1, <3>1
      <3> QED BY <1>0, <2>2, <3>2, <3>3
    <2>4. CASE exec' = "post"
      <3>1. state_ = "waiting" /\ state_' = "not_waiting" /\ (ec_ \/ values_ # <<>>)
        BY <1>8, <2>1, <2>4 DEF MaybeComplete
      <3>2. inbox = <<>> /\ consumer \in {"published", "waiting"}
        BY <3>1, Exclusive
      <3>3. request = "open" /\ handed = got
        BY <2>1, <3>1, <3>2
      <3>4. CASE ec_
        <4>1. request' = "refused" /\ handed' = got
          BY <2>1, <2>4, <3>1, <3>2, <3>4
        <4>2. Available' = values_ /\ Alarm' = FALSE
          BY <2>1, <2>4, <3>4 DEF Available, Alarm, Deciding
        <4>3. Abstract!Refuse
          BY <2>2, <3>3, <3>4, <4>1, <4>2 DEF Abstract!Refuse
        <4> QED BY <4>3 DEF Abstract!CNext
      <3>5. CASE ~ec_
        <4>1. request' = "value" /\ handed' = Append(got, Head(values_))
          BY <2>1, <2>4, <3>1, <3>5
        <4>2. Available' = Tail(values_) /\ Alarm' = FALSE
          BY <2>1, <2>4, <3>5 DEF Available, Alarm, Deciding
        <4>3. Alarm = FALSE /\ Available # <<>>
          BY <2>2, <3>1, <3>5 DEF TypeOK
        <4>4. Abstract!Hand
          BY <2>2, <3>3, <4>1, <4>2, <4>3 DEF Abstract!Hand
        <4> QED BY <4>4 DEF Abstract!CNext
      <3> QED BY <3>4, <3>5
    <2> QED BY <2>3, <2>4
  <1>9. CASE PostHandler
    <2>1. /\ exec = "post" /\ exec' = "tidy" /\ inbox = <<>> /\ state_ # "waiting"
          /\ UNCHANGED <<state_, values_, ec_, got>>
      BY <1>9, Exclusive DEF PostHandler
    <2>2. Available' = Available /\ Alarm' = Alarm
      BY <2>1 DEF Available, Alarm, Deciding
    <2>3. CASE ec_
      <3>1. inbox' = <<Aborted>>
        BY <1>9, <2>1, <2>3 DEF PostHandler
      <3>2. inbox' # <<>> /\ Head(inbox') = Aborted
        BY <3>1
      <3>3. request' = request /\ handed' = handed
        BY <2>1, <2>3, <3>2
      <3> QED BY <1>0, <2>2, <3>3
    <2>4. CASE ~ec_
      <3>1. inbox' = <<Ok(Head(values_))>>
        BY <1>9, <2>1, <2>4 DEF PostHandler
      <3>2. inbox' # <<>> /\ Head(inbox') = Ok(Head(values_))
        BY <3>1
      <3>3. Head(values_) \in Value
        BY <2>1, <2>4, QueueParts DEF Handover, Deciding, TypeOK
      <3>4. Head(inbox') # Aborted /\ Head(inbox')[2] = Head(values_)
        BY <3>2, <3>3, Results
      <3>5. request' = request /\ handed' = handed
        BY <2>1, <2>4, <3>2, <3>4
      <3> QED BY <1>0, <2>2, <3>5
    <2> QED BY <2>3, <2>4
  <1>10. CASE Tidy
    <2>1. /\ exec = "tidy" /\ exec' = "idle" /\ ec_' = FALSE
          /\ values_' = IF ec_ THEN values_ ELSE Tail(values_)
          /\ UNCHANGED <<state_, consumer, inbox, got>>
      BY <1>10 DEF Tidy
    <2>2. Available' = Available /\ Alarm' = Alarm
      BY <2>1 DEF Available, Alarm, Deciding
    <2>3. request' = request /\ handed' = handed
      BY <2>1
    <2> QED BY <1>0, <2>2, <2>3
  <1> QED
    BY <1>2, <1>3, <1>4, <1>5, <1>6, <1>7, <1>8, <1>9, <1>10 DEF Next

\* basic_async_queue implements AsyncChannel: for its consumer it is a FIFO that
\* loses nothing, repeats nothing and refuses one pop per stop, although push,
\* stop and pop run on different threads.
THEOREM QueueIsChannel == Spec => Implements
  <1>1. Init => Abstract!CInit
    BY DEF Init, Abstract!CInit, Available, Alarm, Deciding
  <1>2. IInv /\ [Next]_vars => [Abstract!CNext]_(Abstract!cvars)
    <2>1. UNCHANGED vars => UNCHANGED Abstract!cvars
      BY DEF vars, Abstract!cvars, Available, Alarm, Deciding
    <2> QED BY <2>1, StepRefines
  <1> QED BY <1>1, <1>2, AlwaysIInv, PTL DEF Spec, Implements, Abstract!CSpec
=============================================================================
