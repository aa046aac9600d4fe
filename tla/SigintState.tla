---------------------------- MODULE SigintState ----------------------------
(***************************************************************************)
(* blog-2020-09: sigint_state.  The first ctrl-c asks for confirmation,    *)
(* the second one within 5s emits the signal to the slots.  One io_context *)
(* thread; operations are "idle", "pending" or "ok"/"err" with their       *)
(* handler about to run.                                                   *)
(***************************************************************************)
EXTENDS Naturals

CONSTANTS Slot,        \* the functions that are added as slots
          MaxSigints   \* bound: ctrl-c presses

ASSUME SigintAssumption == MaxSigints \in Nat

VARIABLES
  sigint_,    \* sigint_state::state_
  sigs_,      \* the wait on the signal set
  timer_,     \* the wait on the 5s timer
  queued,     \* SIGINTs that arrived while no wait was pending
  signals_,   \* the slots that wait to be called
  called,     \* for each slot, how often it was called
  presses     \* how many SIGINTs arrived

sigvars == <<sigint_, sigs_, timer_, queued, signals_, called, presses>>

SigInit ==
  /\ sigint_ = "inactive" /\ sigs_ = "idle" /\ timer_ = "idle" /\ queued = 0
  /\ signals_ = {} /\ called = [s \in Slot |-> 0] /\ presses = 0

\* A signal_set queues a signal that arrives between two waits.
await_signal ==
  IF queued > 0 THEN sigs_' = "ok" /\ queued' = queued - 1
  ELSE sigs_' = "pending" /\ UNCHANGED queued

await_timer ==
  timer_' = IF timer_ = "idle" THEN "pending" ELSE "overlap"

emit_signals ==
  /\ called' = [s \in Slot |-> called[s] + (IF s \in signals_ THEN 1 ELSE 0)]
  /\ signals_' = {}

\* start(): registers SIGINT and waits for it.
StartSigint ==
  /\ sigint_' = "waiting"
  /\ await_signal

\* add_slot(), in the state the caller has set up.
add_slot(s, state) ==
  IF state = "exit_state"
  THEN called' = [called EXCEPT ![s] = @ + 1] /\ UNCHANGED signals_
  ELSE signals_' = signals_ \cup {s} /\ UNCHANGED called

\* The states in which a SIGINT does something.
Ask == sigint_ = "waiting" /\ sigint_' = "confirming" /\ UNCHANGED <<signals_, called>>
Confirm ==
  /\ sigint_ = "confirming" /\ sigint_' = "exit_state"
  /\ timer_' = IF timer_ = "pending" THEN "err" ELSE timer_
  /\ sigs_' = "idle" /\ UNCHANGED queued
  /\ emit_signals

\* Mutant: the first ctrl-c starts no timer.
HandleSignal_no_timer ==
  /\ sigs_ = "ok"
  /\ (Ask /\ await_signal /\ UNCHANGED timer_) \/ Confirm
  /\ UNCHANGED presses

\* handle_signal and event_sigint.
HandleSignal ==
  /\ sigs_ = "ok"
  /\ (Ask /\ await_timer /\ await_signal) \/ Confirm
  /\ UNCHANGED presses

\* Mutant: the time-out does not look at the state.
HandleTimer_stale ==
  /\ timer_ \in {"ok", "err"} /\ timer_' = "idle"
  /\ sigint_' = IF timer_ = "ok" THEN "waiting" ELSE sigint_
  /\ UNCHANGED <<sigs_, queued, signals_, called, presses>>

\* The wait for the confirmation has ended: it timed out, or was cancelled.
HandleTimer ==
  /\ timer_ \in {"ok", "err"} /\ timer_' = "idle"
  /\ sigint_' = IF timer_ = "ok" /\ sigint_ = "confirming" THEN "waiting" ELSE sigint_
  /\ UNCHANGED <<sigs_, queued, signals_, called, presses>>

\* The user presses ctrl-c.
Sigint ==
  /\ sigint_ # "inactive" /\ presses < MaxSigints /\ presses' = presses + 1
  /\ IF sigs_ = "pending" THEN sigs_' = "ok" /\ UNCHANGED queued
     ELSE queued' = queued + 1 /\ UNCHANGED sigs_
  /\ UNCHANGED <<sigint_, timer_, signals_, called>>

ConfirmTimerExpires ==
  /\ timer_ = "pending" /\ timer_' = "ok"
  /\ UNCHANGED <<sigint_, sigs_, queued, signals_, called, presses>>

SigNext == HandleSignal \/ HandleTimer \/ Sigint \/ ConfirmTimerExpires

SigFairness ==
  WF_sigvars(HandleSignal) /\ WF_sigvars(HandleTimer) /\ WF_sigvars(ConfirmTimerExpires)

----------------------------------------------------------------------------
(* Properties.                                                             *)

SigTypeOK ==
  /\ sigint_ \in {"inactive", "waiting", "confirming", "exit_state"}
  /\ sigs_ \in {"idle", "pending", "ok"}
  /\ timer_ \in {"idle", "pending", "ok", "err"}
  /\ queued \in 0 .. MaxSigints /\ presses \in 0 .. MaxSigints
  /\ signals_ \subseteq Slot /\ called \in [Slot -> 0 .. 1]

\* Until the user has confirmed, a ctrl-c is always listened for and no slot has
\* been called; when he has, by a second ctrl-c, every slot has been called once,
\* and a time-out that crossed the confirmation does not take it back
\* (sigint_state.cpp:59-125).
Attentive ==
  /\ sigint_ \in {"waiting", "confirming"} =>
       sigs_ # "idle" /\ \A s \in Slot : s \in signals_ /\ called[s] = 0
  /\ sigint_ = "exit_state" => presses >= 2 /\ \A s \in Slot : called[s] = 1

\* A question to the user does not stay open: it is confirmed, or times out and
\* is forgotten (sigint_state.cpp:59-102).
QuestionCloses == sigint_ = "confirming" ~> sigint_ \in {"waiting", "exit_state"}
=============================================================================
