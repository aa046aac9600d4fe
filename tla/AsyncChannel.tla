---------------------------- MODULE AsyncChannel ----------------------------
(***************************************************************************)
(* What basic_async_queue promises a single consumer: an unbounded channel *)
(* that hands out the values put into it in order and once each, to a      *)
(* consumer that asks for one at a time; and that can be cleared, in which *)
(* case what it held is lost and one request, the outstanding one or else  *)
(* the next, is refused.  AsyncQueue implements this module.               *)
(***************************************************************************)
EXTENDS Naturals, Sequences

CONSTANT Value

VARIABLES queue,    \* the values inside, oldest first
          alarm,    \* the channel was cleared and has refused no request since
          request   \* "none", "open", or its outcome: "value" or "refused"
          , handed  \* every value handed out, oldest first

cvars == <<queue, alarm, request, handed>>

CInit == queue = <<>> /\ alarm = FALSE /\ request = "none" /\ handed = <<>>

Put(v) ==
  /\ queue' = Append(queue, v)
  /\ UNCHANGED <<alarm, request, handed>>

Clear ==
  /\ queue' = <<>> /\ alarm' = TRUE
  /\ UNCHANGED <<request, handed>>

Ask ==
  /\ request = "none" /\ request' = "open"
  /\ UNCHANGED <<queue, alarm, handed>>

Hand ==
  /\ request = "open" /\ ~alarm /\ queue # <<>>
  /\ handed' = Append(handed, Head(queue)) /\ queue' = Tail(queue)
  /\ request' = "value"
  /\ UNCHANGED alarm

Refuse ==
  /\ request = "open" /\ alarm
  /\ request' = "refused" /\ alarm' = FALSE
  /\ UNCHANGED <<queue, handed>>

\* The consumer has seen the outcome.
Receive ==
  /\ request \in {"value", "refused"} /\ request' = "none"
  /\ UNCHANGED <<queue, alarm, handed>>

CNext ==
  \/ \E v \in Value : Put(v)
  \/ Clear \/ Ask \/ Hand \/ Refuse \/ Receive

CSpec == CInit /\ [][CNext]_cvars
=============================================================================
