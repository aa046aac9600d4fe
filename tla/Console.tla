------------------------------ MODULE Console ------------------------------
(***************************************************************************)
(* pre-cxx20/chatterbox: console and its composed operation run_op, which  *)
(* reads lines from standard input until one says quit, the input fails,   *)
(* or it is cancelled.                                                     *)
(*                                                                         *)
(* net::async_read_until is itself composed: it reads pieces until it has  *)
(* a whole line.  fdin is "pending" while the descriptor is being read,    *)
(* "piece" when a piece without newline has been read and the library is   *)
(* about to read on, and "quit", "other" or "err" when async_read_until is *)
(* over and run_op about to be resumed.                                    *)
(***************************************************************************)
EXTENDS Naturals

CONSTANT MaxInput   \* bound: reads of standard input that succeed

ASSUME MaxInputAssumption == MaxInput \in Nat

VARIABLES
  run_op_,     \* TRUE: the console holds a running operation
  con_ec_,     \* run_op's ec_ is set
  fdin,        \* the read of standard input
  inputs,      \* how many reads have succeeded
  missed       \* a cancel came while async_read_until was between two reads

convars == <<run_op_, con_ec_, fdin, inputs, missed>>

ConInit ==
  /\ run_op_ = FALSE /\ con_ec_ = FALSE /\ fdin = "idle" /\ inputs = 0
  /\ missed = FALSE

\* async_run: the first entry of operator() finds no error and reads.  (So it
\* never gets to "done" with cont = false, and the post there is unreachable.)
async_run ==
  /\ run_op_' = TRUE /\ fdin' = "pending"
  /\ UNCHANGED <<con_ec_, inputs, missed>>

\* Mutant: sets the error and leaves the read alone.
cancel_no_fd ==
  IF run_op_
  THEN /\ con_ec_' = TRUE /\ missed' = (fdin = "piece")
       /\ UNCHANGED <<fdin, run_op_, inputs>>
  ELSE UNCHANGED convars

\* cancel().  If run_op has completed there is nothing to cancel; a read that has
\* completed keeps its result.
cancel ==
  IF run_op_
  THEN /\ con_ec_' = TRUE /\ missed' = (fdin = "piece")
       /\ fdin' = IF fdin = "pending" THEN "err" ELSE fdin
       /\ UNCHANGED <<run_op_, inputs>>
  ELSE UNCHANGED convars

\* operator() resumed by a read that does not end the loop.
ReadsOn == fdin = "other" /\ ~con_ec_
ReadNextLine ==
  /\ ReadsOn /\ fdin' = "pending"
  /\ UNCHANGED <<run_op_, con_ec_, inputs, missed>>

\* operator() resumed by a read that does: run_op completes with its error, if it
\* has one.  What the completion handler does is the caller's.
Completes == fdin \in {"quit", "err"} \/ (fdin = "other" /\ con_ec_)
complete ==
  /\ Completes /\ fdin' = "idle"
  /\ con_ec_' = (con_ec_ \/ fdin = "err")
  /\ run_op_' = FALSE
  /\ UNCHANGED <<inputs, missed>>

----------------------------------------------------------------------------
(* The user, and the library in the middle of async_read_until.            *)

Input ==
  /\ fdin = "pending"
  /\ \/ inputs < MaxInput /\ inputs' = inputs + 1 /\ fdin' \in {"piece", "quit", "other"}
     \/ UNCHANGED inputs /\ fdin' = "err"
  /\ UNCHANGED <<run_op_, con_ec_, missed>>

ReadUntilReadsOn ==
  /\ fdin = "piece" /\ fdin' = "pending"
  /\ UNCHANGED <<run_op_, con_ec_, inputs, missed>>

ConNext == ReadNextLine \/ Input \/ ReadUntilReadsOn

\* Nobody has to type.
ConFairness == WF_convars(ReadNextLine) /\ WF_convars(ReadUntilReadsOn)

ConTypeOK ==
  /\ run_op_ \in BOOLEAN /\ con_ec_ \in BOOLEAN /\ missed \in BOOLEAN
  /\ fdin \in {"idle", "pending", "piece", "quit", "other", "err"}
  /\ inputs \in 0 .. MaxInput

\* A cancel that async_read_until missed: run_op has its error and will not look at
\* it before the next line or the end of the input.
Deaf == missed /\ fdin = "pending"
=============================================================================
