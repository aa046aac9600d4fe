----------------------------- MODULE ChatState -----------------------------
(***************************************************************************)
(* One connection of cxx20: chat_state, run_state, websocket_rx_state,     *)
(* dequeue_send, notify_error and connection_impl, which spawns three      *)
(* coroutines on one io_context thread:                                    *)
(*                                                                         *)
(*   run   handshakes and then reads until the stream fails;               *)
(*   tx    spawned by run once the handshake is over, moves messages from  *)
(*         txqueue to the stream;                                          *)
(*   stop  spawned by stop(), runs notify_error.                           *)
(*                                                                         *)
(* co_spawn posts: a coroutine is "posted" until the loop starts it.  A    *)
(* step runs a coroutine from one co_await to the next.  txqueue is the    *)
(* AsyncChannel that AsyncQueue implements.  An operation is "idle",       *)
(* "pending", or completed ("ok", "err") and about to resume its           *)
(* coroutine.                                                              *)
(***************************************************************************)
EXTENDS Naturals, Sequences

CONSTANTS MaxRx,      \* bound: messages the peer may send
          Greeting    \* messages the server posts on accept: 4 in the code

ASSUME MaxRxAssumption == MaxRx \in Nat
ASSUME GreetingAssumption == Greeting \in Nat

VARIABLES
  state,           \* chat_state_base::state
  ec,              \* TRUE: ec holds operation_aborted
  run, txc, stopc, \* the coroutines
  accept, read, write, close,      \* operations on stream; a write that was
                   \* begun behind an async_close is "late"
  stream,          \* as its operations see it: "open" or "failed"
  pushes,          \* how many messages have been pushed: message n is the n-th
  received,        \* how many of them came from the peer
  sent,            \* history: messages written
  queue, alarm, request, handed    \* txqueue

chan == <<queue, alarm, request, handed>>
opvars == <<accept, read, write, close, stream>>
chatvars == <<state, ec, run, txc, stopc, opvars, pushes, received, sent, chan>>

Message == 1 .. (Greeting + MaxRx)
txqueue == INSTANCE AsyncChannel WITH Value <- Message

OpState == {"idle", "pending", "ok", "err"}
Abort(op) == IF op = "pending" THEN "err" ELSE op

ChatInit ==
  /\ state = "initial_state" /\ ec = FALSE
  /\ run = "none" /\ txc = "none" /\ stopc = "none"
  /\ accept = "idle" /\ read = "idle" /\ write = "idle" /\ close = "idle"
  /\ stream = "open" /\ pushes = 0 /\ received = 0 /\ sent = <<>>
  /\ txqueue!CInit

\* Each coroutine's completion handler holds a shared_ptr to the connection.
Exists == run # "none"
Released == run = "done" /\ txc \in {"none", "done"} /\ stopc \in {"none", "done"}

----------------------------------------------------------------------------
(* connection_impl's interface.                                            *)

\* run(), and the greeting that server::handle_run sends after it.
Create ==
  /\ run = "none" /\ run' = "posted"
  /\ pushes' = Greeting
  /\ queue' = [n \in 1 .. Greeting |-> n]
  /\ UNCHANGED <<state, ec, txc, stopc, opvars, received, sent, alarm, request, handed>>

\* stop(): called through a weak_ptr.
stop == IF Exists /\ ~Released THEN stopc' = "posted" ELSE UNCHANGED stopc

----------------------------------------------------------------------------
(* The run coroutine.                                                      *)

RunStarts ==
  /\ run = "posted" /\ run' = "accepting"
  /\ state' = "handshaking" /\ accept' = "pending"
  /\ UNCHANGED <<ec, txc, stopc, read, write, close, stream, pushes, received,
                 sent, chan>>

\* Mutant: does not look at ec after the handshake.
RunAccepted_no_ec ==
  /\ run = "accepting" /\ accept \in {"ok", "err"} /\ accept' = "idle"
  /\ IF accept = "err"
     THEN /\ state' = "exit_state" /\ run' = "done"
          /\ UNCHANGED <<txc, read>>
     ELSE /\ state' = "chatting" /\ run' = "reading"
          /\ txc' = "posted" /\ read' = "pending"
  /\ UNCHANGED <<ec, stopc, write, close, stream, pushes, received, sent, chan>>

\* The handshake is over: throw, or spawn tx and read.
RunAccepted ==
  /\ run = "accepting" /\ accept \in {"ok", "err"} /\ accept' = "idle"
  /\ IF accept = "err" \/ ec
     THEN /\ state' = "exit_state" /\ run' = "done"
          /\ UNCHANGED <<txc, read>>
     ELSE /\ state' = "chatting" /\ run' = "reading"
          /\ txc' = "posted" /\ read' = "pending"
  /\ UNCHANGED <<ec, stopc, write, close, stream, pushes, received, sent, chan>>

\* Mutant: on_message lets the echo overtake what is queued.
RunRead_front ==
  /\ run = "reading"
  /\ \/ /\ read = "ok" /\ read' = "pending"
        /\ pushes' = pushes + 1 /\ queue' = <<pushes'>> \o queue
        /\ UNCHANGED <<state, run, alarm, request, handed>>
     \/ /\ read = "err" /\ read' = "idle"
        /\ state' = "exit_state" /\ run' = "done"
        /\ UNCHANGED <<pushes, chan>>
  /\ UNCHANGED <<ec, txc, stopc, accept, write, close, stream, received, sent>>

\* on_message pushes the message; websocket_rx_state swallows the error that
\* ends it.
RunRead ==
  /\ run = "reading"
  /\ \/ /\ read = "ok" /\ read' = "pending"
        /\ pushes' = pushes + 1 /\ txqueue!Put(pushes')
        /\ UNCHANGED <<state, run>>
     \/ /\ read = "err" /\ read' = "idle"
        /\ state' = "exit_state" /\ run' = "done"
        /\ UNCHANGED <<pushes, chan>>
  /\ UNCHANGED <<ec, txc, stopc, accept, write, close, stream, received, sent>>

----------------------------------------------------------------------------
(* The tx coroutine: dequeue_send.                                         *)

TxStarts ==
  /\ txc = "posted" /\ txc' = "popping" /\ txqueue!Ask
  /\ UNCHANGED <<state, ec, run, stopc, opvars, pushes, received, sent>>

\* Mutant: takes a refusal for an empty message and pops again.
TxPopped_retries ==
  /\ txc = "popping" /\ txqueue!Receive
  /\ IF request = "refused"
     THEN txc' = "posted" /\ UNCHANGED write
     ELSE txc' = "writing" /\ write' = (IF close = "pending" THEN "late" ELSE "pending")
  /\ UNCHANGED <<state, ec, run, stopc, accept, read, close, stream, pushes, received,
                 sent>>

\* A refusal is thrown, and ends the coroutine.  A value that was handed out
\* before a stop may come to be written after it: that write is "late".
TxPopped ==
  /\ txc = "popping" /\ txqueue!Receive
  /\ IF request = "refused"
     THEN txc' = "done" /\ UNCHANGED write
     ELSE txc' = "writing" /\ write' = (IF close = "pending" THEN "late" ELSE "pending")
  /\ UNCHANGED <<state, ec, run, stopc, accept, read, close, stream, pushes, received,
                 sent>>

TxWritten ==
  /\ txc = "writing" /\ write \in {"ok", "err"} /\ write' = "idle"
  /\ IF write = "ok"
     THEN txc' = "popping" /\ txqueue!Ask
     ELSE txc' = "done" /\ UNCHANGED chan
  /\ UNCHANGED <<state, ec, run, stopc, accept, read, close, stream, pushes, received,
                 sent>>

\* txqueue answers a request.
TxQueueAnswers ==
  /\ txqueue!Hand \/ txqueue!Refuse
  /\ UNCHANGED <<state, ec, run, txc, stopc, opvars, pushes, received, sent>>

----------------------------------------------------------------------------
(* The stop coroutine: notify_error.                                       *)

\* The loop starts what was posted first, so run has started.  cancel() fails
\* the handshake, or is lost between two of its reads and writes.
StopStarts ==
  /\ stopc = "posted" /\ run \notin {"none", "posted"}
  /\ ec' = TRUE
  /\ CASE ec \/ state = "exit_state" ->
            stopc' = "done" /\ UNCHANGED <<accept, close, chan>>
       [] ~ec /\ state = "handshaking" ->
            /\ stopc' = "done"
            /\ accept' \in {accept, Abort(accept)}
            /\ txqueue!Clear
            /\ UNCHANGED close
       [] ~ec /\ state = "chatting" ->
            /\ stopc' = "closing" /\ close' = "pending"
            /\ txqueue!Clear
            /\ UNCHANGED accept
  /\ UNCHANGED <<state, run, txc, read, write, stream, pushes, received, sent>>

StopClosed ==
  /\ stopc = "closing" /\ close \in {"ok", "err"} /\ close' = "idle"
  /\ stopc' = "done"
  /\ UNCHANGED <<state, ec, run, txc, accept, read, write, stream, pushes, received,
                 sent, chan>>

----------------------------------------------------------------------------
(* The peer and the network, as Beast reports them.                        *)

AcceptCompletes ==
  /\ accept = "pending" /\ accept' \in {"ok", "err"}
  /\ stream' = IF accept' = "ok" THEN stream ELSE "failed"
  /\ UNCHANGED <<state, ec, run, txc, stopc, read, write, close, pushes, received,
                 sent, chan>>

ReadCompletes ==
  /\ read = "pending" /\ stream = "open" /\ received < MaxRx
  /\ read' = "ok" /\ received' = received + 1
  /\ UNCHANGED <<state, ec, run, txc, stopc, accept, write, close, stream, pushes,
                 sent, chan>>

WriteCompletes ==
  /\ write = "pending" /\ stream = "open"
  /\ write' = "ok" /\ sent' = Append(sent, handed[Len(handed)])
  /\ UNCHANGED <<state, ec, run, txc, stopc, accept, read, close, stream, pushes,
                 received, chan>>

\* The close frame waits for a write in progress; then the peer answers it.
CloseCompletes ==
  /\ close = "pending" /\ stream = "open" /\ write # "pending"
  /\ close' = "ok" /\ stream' = "failed"
  /\ UNCHANGED <<state, ec, run, txc, stopc, accept, read, write, pushes, received,
                 sent, chan>>

\* The peer closes the websocket, or the transport breaks.
StreamFails ==
  /\ state \in {"chatting", "exit_state"} /\ stream = "open" /\ stream' = "failed"
  /\ UNCHANGED <<state, ec, run, txc, stopc, accept, read, write, close, pushes,
                 received, sent, chan>>

\* Operations on a failed stream fail, each in its own time.  A late write is
\* never sent: it fails, at the latest when the close is over.
OperationFails ==
  /\ \/ /\ stream = "failed" /\ read = "pending" /\ read' = "err"
        /\ UNCHANGED <<write, close>>
     \/ /\ stream = "failed" /\ close = "pending" /\ close' = "err"
        /\ UNCHANGED <<read, write>>
     \/ /\ write = "late" \/ (stream = "failed" /\ write = "pending")
        /\ write' = "err" /\ UNCHANGED <<read, close>>
  /\ UNCHANGED <<state, ec, run, txc, stopc, accept, stream, pushes, received, sent,
                 chan>>

----------------------------------------------------------------------------

ChatNext ==
  \/ RunStarts \/ RunAccepted \/ RunRead
  \/ TxStarts \/ TxPopped \/ TxWritten \/ TxQueueAnswers
  \/ StopStarts \/ StopClosed
  \/ AcceptCompletes \/ ReadCompletes \/ WriteCompletes \/ CloseCompletes
  \/ StreamFails \/ OperationFails

\* The loop resumes the coroutines whose operations have completed.  A peer ends
\* its handshake, reads what it is sent and answers a close, or its transport
\* breaks: the code sets no timeout that would enforce it.
ChatFairness ==
  /\ WF_chatvars(RunStarts \/ RunAccepted \/ RunRead)
  /\ WF_chatvars(TxStarts \/ TxPopped \/ TxWritten) /\ WF_chatvars(TxQueueAnswers)
  /\ WF_chatvars(StopStarts \/ StopClosed)
  /\ WF_chatvars(AcceptCompletes) /\ WF_chatvars(WriteCompletes)
  /\ WF_chatvars(CloseCompletes) /\ WF_chatvars(OperationFails)

----------------------------------------------------------------------------
(* Properties.                                                             *)

ChatTypeOK ==
  /\ state \in {"initial_state", "handshaking", "chatting", "exit_state"}
  /\ ec \in BOOLEAN
  /\ run \in {"none", "posted", "accepting", "reading", "done"}
  /\ txc \in {"none", "posted", "popping", "writing", "done"}
  /\ stopc \in {"none", "posted", "closing", "done"}
  /\ {accept, read, close} \subseteq OpState /\ write \in OpState \cup {"late"}
  /\ stream \in {"open", "failed"}
  /\ pushes \in 0 .. (Greeting + MaxRx) /\ received \in 0 .. MaxRx
  /\ sent \in Seq(Message)

\* What the peer receives is the greeting and the echoes in the order they were
\* pushed, without gap or repetition, although txqueue may be cleared at any
\* point (states.hpp:50-54, 109-112).
SentInOrder == \A n \in DOMAIN sent : sent[n] = n

\* A stop reaches tx wherever it is in its loop of pop and write: until tx has
\* ended, txqueue is about to refuse it or has refused it, and no write that
\* completes meanwhile uses the refusal up (states.hpp:50-54, 107-115).
StopReachesTx ==
  stopc = "closing" \/ (ec /\ state \in {"handshaking", "chatting"}) =>
    alarm \/ request = "refused" \/ txc = "done"

\* A handshake that completes after the stop does not start the chat: the check
\* at states.hpp:153 covers the crossing that cancel() misses.
NoChatAfterStop == [][ec => state' # "chatting" \/ state = "chatting"]_chatvars

\* A stop that finds the connection handshaking or chatting ends all three
\* coroutines and so releases the connection ("Gracefully stop the chat
\* implementation", connection.hpp:35), wherever tx is between pop and write.
StopReleases == (stopc = "closing" \/ (ec /\ state = "handshaking")) ~> Released
=============================================================================
