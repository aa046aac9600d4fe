----------------------------- MODULE AsyncQueue -----------------------------
(***************************************************************************)
(* lib/util: basic_async_queue and async_queue_impl.                       *)
(*                                                                         *)
(* Three threads of control share the queue.  Producers call push() and    *)
(* stop() from anywhere: each dispatches a task to the queue's default     *)
(* executor.  The default executor runs those tasks one at a time.  The    *)
(* consumer calls async_pop() on a thread of its own, and its handler is   *)
(* posted to its executor.  Consumer and default executor share state_,    *)
(* which is atomic, and handler_, which is not: handler_ is "none",        *)
(* "partial" while it is being assigned, or "set".                         *)
(***************************************************************************)
EXTENDS Naturals, Sequences

CONSTANTS MaxPush, MaxStop, MaxPop   \* bounds: calls of each kind

ASSUME BoundsAssumption == MaxPush \in Nat /\ MaxStop \in Nat /\ MaxPop \in Nat

VARIABLES
  state_, handler_, values_, ec_,
  tasks,      \* the default executor's queue
  exec,       \* where the default executor is in the task it runs
  consumer,   \* where the consumer is in async_pop, or in waiting for it
  inbox,      \* handler invocations posted to the consumer's executor
  got,        \* history: values the consumer's handlers were given
  pushes, stops, pops,  \* how many calls of each kind there were
  stopped,    \* history: a stop() has taken effect
  misuse      \* an empty or half assigned handler was moved from

vars == <<state_, handler_, values_, ec_, tasks, exec, consumer, inbox, got,
          pushes, stops, pops, stopped, misuse>>
calls == <<pushes, stops, pops>>

Value == 1 .. MaxPush
Task == {<<"push", v>> : v \in Value} \cup {<<"stop", 0>>, <<"check", 0>>}
\* What a handler is invoked with: (error_code(), v) or (operation_aborted, T()).
Ok(v) == <<"ok", v>>
Aborted == <<"aborted", 0>>
Result == {Ok(v) : v \in Value} \cup {Aborted}

Init ==
  /\ state_ = "not_waiting" /\ handler_ = "none" /\ values_ = <<>> /\ ec_ = FALSE
  /\ tasks = <<>> /\ exec = "idle" /\ consumer = "idle" /\ inbox = <<>>
  /\ got = <<>> /\ pushes = 0 /\ stops = 0 /\ pops = 0
  /\ stopped = FALSE /\ misuse = FALSE

dispatch(task) == tasks' = Append(tasks, task)

----------------------------------------------------------------------------
(* Producers.  The n-th push carries the value n.                          *)

push ==
  /\ pushes < MaxPush /\ pushes' = pushes + 1
  /\ dispatch(<<"push", pushes'>>)
  /\ UNCHANGED <<state_, handler_, values_, ec_, exec, consumer, inbox, got, stops,
                 pops, stopped, misuse>>

\* stop(), also called by the destructor.
stop ==
  /\ stops < MaxStop /\ stops' = stops + 1
  /\ dispatch(<<"stop", 0>>)
  /\ UNCHANGED <<state_, handler_, values_, ec_, exec, consumer, inbox, got, pushes,
                 pops, stopped, misuse>>

----------------------------------------------------------------------------
(* The consumer, in async_pop.                                             *)

\* Mutant: publishes the waiting state before the handler is in place.
PopAssigns_early ==
  /\ consumer = "idle" /\ pops < MaxPop /\ pops' = pops + 1
  /\ consumer' = "assigning" /\ handler_' = "partial"
  /\ state_' = "waiting"
  /\ UNCHANGED <<values_, ec_, tasks, exec, inbox, got, pushes, stops, stopped,
                 misuse>>

\* Starts to assign handler_executor_ and handler_.
PopAssigns ==
  /\ consumer = "idle" /\ pops < MaxPop /\ pops' = pops + 1
  /\ consumer' = "assigning" /\ handler_' = "partial"
  /\ UNCHANGED <<state_, values_, ec_, tasks, exec, inbox, got, pushes, stops,
                 stopped, misuse>>

PopAssigned ==
  /\ consumer = "assigning" /\ consumer' = "assigned" /\ handler_' = "set"
  /\ UNCHANGED <<state_, values_, ec_, tasks, exec, inbox, got, calls, stopped,
                 misuse>>

PopPublishes ==
  /\ consumer = "assigned" /\ consumer' = "published" /\ state_' = "waiting"
  /\ UNCHANGED <<handler_, values_, ec_, tasks, exec, inbox, got, calls, stopped,
                 misuse>>

\* Mutant: relies on the next push to notice the waiting consumer.
PopDispatches_not ==
  /\ consumer = "published" /\ consumer' = "waiting"
  /\ UNCHANGED <<state_, handler_, values_, ec_, tasks, exec, inbox, got, calls,
                 stopped, misuse>>

PopDispatches ==
  /\ consumer = "published" /\ consumer' = "waiting"
  /\ dispatch(<<"check", 0>>)
  /\ UNCHANGED <<state_, handler_, values_, ec_, exec, inbox, got, calls, stopped,
                 misuse>>

\* The consumer's executor runs the posted handler; async_pop has returned.
Handler ==
  /\ consumer = "waiting" /\ inbox # <<>> /\ inbox' = Tail(inbox)
  /\ consumer' = IF Head(inbox) = Aborted THEN "aborted" ELSE "served"
  /\ got' = IF Head(inbox) = Aborted THEN got ELSE Append(got, Head(inbox)[2])
  /\ UNCHANGED <<state_, handler_, values_, ec_, tasks, exec, calls, stopped, misuse>>

\* The handler is done: the consumer may pop again.
HandlerReturns ==
  /\ consumer \in {"aborted", "served"} /\ consumer' = "idle"
  /\ UNCHANGED <<state_, handler_, values_, ec_, tasks, exec, inbox, got, calls,
                 stopped, misuse>>

----------------------------------------------------------------------------
(* The default executor.                                                   *)

\* The body of the task before its call of maybe_complete.
RunTask ==
  /\ exec = "idle" /\ tasks # <<>>
  /\ tasks' = Tail(tasks) /\ exec' = "maybe_complete"
  /\ LET task == Head(tasks) IN
       /\ values_' = CASE task[1] = "push" -> Append(values_, task[2])
                       [] task[1] = "stop" -> <<>>
                       [] OTHER -> values_
       /\ ec_' = (ec_ \/ task[1] = "stop")
       /\ stopped' = (stopped \/ task[1] = "stop")
  /\ UNCHANGED <<state_, handler_, consumer, inbox, got, calls, misuse>>

\* Mutant: tests state_ without exchanging it.
MaybeComplete_load ==
  /\ exec = "maybe_complete"
  /\ exec' = IF (values_ # <<>> \/ ec_) /\ state_ = "waiting" THEN "post" ELSE "idle"
  /\ UNCHANGED <<state_, handler_, values_, ec_, tasks, consumer, inbox, got, calls,
                 stopped, misuse>>

\* maybe_complete up to the exchange: values_ and ec_ belong to this thread.
MaybeComplete ==
  /\ exec = "maybe_complete"
  /\ IF (values_ = <<>> /\ ~ec_)
     THEN exec' = "idle" /\ UNCHANGED state_
     ELSE /\ exec' = IF state_ = "waiting" THEN "post" ELSE "idle"
          /\ state_' = "not_waiting"
  /\ UNCHANGED <<handler_, values_, ec_, tasks, consumer, inbox, got, calls, stopped,
                 misuse>>

\* Moves from handler_ and posts it.
PostHandler ==
  /\ exec = "post" /\ exec' = "tidy"
  /\ misuse' = (misuse \/ handler_ # "set") /\ handler_' = "none"
  /\ inbox' = Append(inbox, IF ec_ THEN Aborted ELSE Ok(Head(values_)))
  /\ UNCHANGED <<state_, values_, ec_, tasks, consumer, got, calls, stopped>>

\* Mutant: clears the error and pops.
Tidy_both ==
  /\ exec = "tidy" /\ exec' = "idle"
  /\ ec_' = FALSE
  /\ values_' = IF values_ = <<>> THEN values_ ELSE Tail(values_)
  /\ UNCHANGED <<state_, handler_, tasks, consumer, inbox, got, calls, stopped,
                 misuse>>

\* ec_.clear() or values_.pop(): the consumer may be running again already.
Tidy ==
  /\ exec = "tidy" /\ exec' = "idle"
  /\ ec_' = FALSE
  /\ values_' = IF ec_ THEN values_ ELSE Tail(values_)
  /\ UNCHANGED <<state_, handler_, tasks, consumer, inbox, got, calls, stopped,
                 misuse>>

Next ==
  \/ push \/ stop
  \/ PopAssigns \/ PopAssigned \/ PopPublishes \/ PopDispatches
  \/ Handler \/ HandlerReturns
  \/ RunTask \/ MaybeComplete \/ PostHandler \/ Tidy

\* Both executors run what is queued, and a thread inside async_pop goes on.
Fairness ==
  /\ WF_vars(PopAssigned \/ PopPublishes \/ PopDispatches)
  /\ WF_vars(Handler \/ HandlerReturns)
  /\ WF_vars(RunTask \/ MaybeComplete \/ PostHandler \/ Tidy)

Spec == Init /\ [][Next]_vars
FairSpec == Spec /\ Fairness

----------------------------------------------------------------------------
(* Properties.                                                             *)

TypeOK ==
  /\ state_ \in {"not_waiting", "waiting"}
  /\ handler_ \in {"none", "partial", "set"}
  /\ values_ \in Seq(Value) /\ ec_ \in BOOLEAN
  /\ tasks \in Seq(Task) /\ inbox \in Seq(Result)
  /\ exec \in {"idle", "maybe_complete", "post", "tidy"}
  /\ consumer \in {"idle", "assigning", "assigned", "published", "waiting",
                   "aborted", "served"}
  /\ got \in Seq(Value)
  /\ pushes \in 0 .. MaxPush /\ stops \in 0 .. MaxStop /\ pops \in 0 .. MaxPop
  /\ stopped \in BOOLEAN /\ misuse \in BOOLEAN

\* The default executor moves from handler_ only when the consumer has finished
\* assigning it, and async_pop finds state_ not_waiting, although the two
\* threads take no lock (async_queue_impl.hpp:72, 79, 122).
HandlerIsSafe ==
  /\ ~misuse
  /\ consumer = "idle" => state_ = "not_waiting"
  /\ exec = "post" => handler_ = "set"

\* Each async_pop is answered at most once, and while it is unanswered a waiting
\* state, a completion on its way or a posted handler accounts for it: no
\* answer is lost between the threads (async_queue_impl.hpp:115-142).
Answers ==
  (IF state_ = "waiting" THEN 1 ELSE 0) + (IF exec = "post" THEN 1 ELSE 0) + Len(inbox)
OneAnswer ==
  IF consumer \in {"published", "waiting"} THEN Answers = 1 ELSE Answers = 0

\* No wake-up falls between the threads: when a pop waits unanswered and there is
\* a value or an error for it, maybe_complete is running or a queued task will
\* run it.  async_pop publishes state_ before it dispatches its own check, so a
\* push that saw no waiter is seen by that check (async_queue_impl.hpp:85-89, 120-122).
NoLostWakeup ==
  consumer = "waiting" /\ state_ = "waiting" /\ (values_ # <<>> \/ ec_) =>
    exec = "maybe_complete" \/ tasks # <<>>

\* What is in the queue, and whether the next pop is to be refused, once the
\* answer that maybe_complete has decided on is taken away.
Deciding == exec \in {"post", "tidy"}
Available == IF Deciding /\ ~ec_ THEN Tail(values_) ELSE values_
Alarm == ec_ /\ ~Deciding

\* A pop that waits while a value or an error is there for it is answered: no
\* wake-up is lost between the exchange and the consumer's own check task.
PopIsServed ==
  (consumer = "waiting" /\ (Available # <<>> \/ Alarm)) ~> consumer # "waiting"

\* stop() puts "the queue into an error state" and causes "all subsequent
\* async_wait operations to fail" (async_queue.hpp:52): a pop that begins after a
\* stop has taken effect ends with an error.
PopAfterStopFails == (stopped /\ consumer = "assigning") ~> consumer = "aborted"

\* The channel seen by the consumer: the answer is decided when state_ is
\* exchanged.
Abstract == INSTANCE AsyncChannel WITH
  queue <- Available,
  alarm <- Alarm,
  request <- IF consumer \in {"published", "waiting"} /\ state_ = "waiting" THEN "open"
             ELSE IF exec = "post" THEN (IF ec_ THEN "refused" ELSE "value")
             ELSE IF inbox # <<>> THEN (IF Head(inbox) = Aborted THEN "refused" ELSE "value")
             ELSE "none",
  handed <- IF exec = "post" /\ ~ec_ THEN Append(got, Head(values_))
            ELSE IF inbox # <<>> /\ Head(inbox) # Aborted THEN Append(got, Head(inbox)[2])
            ELSE got

\* The queue is an AsyncChannel: values leave in the order they were pushed, once
\* each, and a stop refuses exactly one pop.
Implements == Abstract!CSpec
=============================================================================
