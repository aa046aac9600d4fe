------------------------------ MODULE Session ------------------------------
(***************************************************************************)
(* What one session of the echo server promises its owner and its peer:    *)
(* messages handed to the session leave it in the order they were posted,  *)
(* none twice and none skipped; nothing leaves before the websocket        *)
(* handshake is over; once the session is stopped at most the one message  *)
(* that is already on its way leaves; and a session goes away only after   *)
(* it was stopped.  How (operations, handlers, timers) is left out: see    *)
(* EchoConnection, which implements this module.                           *)
(***************************************************************************)
EXTENDS Naturals, Sequences

CONSTANT Message   \* everything a session may be asked to send

VARIABLES phase,      \* where the session is in its life
          outbox,     \* every message posted so far, oldest first
          delivered,  \* the messages that left for the peer, oldest first
          grace       \* a message is still on its way although we are stopped

svars == <<phase, outbox, delivered, grace>>

Phases == {"new", "handshake", "open", "stopping", "gone"}

SInit == phase = "new" /\ outbox = <<>> /\ delivered = <<>> /\ grace = TRUE

Start ==
  /\ phase = "new" /\ phase' = "handshake"
  /\ outbox' \in Seq(Message)
  /\ UNCHANGED <<delivered, grace>>

Establish ==
  /\ phase = "handshake" /\ phase' = "open"
  /\ UNCHANGED <<outbox, delivered, grace>>

Post(m) ==
  /\ phase \in {"handshake", "open", "stopping"}
  /\ outbox' = Append(outbox, m)
  /\ UNCHANGED <<phase, delivered, grace>>

\* The oldest message that has not left yet leaves.
Deliver ==
  /\ phase \in {"open", "stopping"} /\ grace
  /\ Len(delivered) < Len(outbox)
  /\ delivered' = Append(delivered, outbox[Len(delivered) + 1])
  /\ grace' = (phase = "open")
  /\ UNCHANGED <<phase, outbox>>

Stop ==
  /\ phase \in {"handshake", "open"} /\ phase' \in {"stopping", "gone"}
  /\ grace' \in BOOLEAN
  /\ UNCHANGED <<outbox, delivered>>

\* The message that was on its way when we stopped is lost.
Lose ==
  /\ phase = "stopping" /\ grace /\ grace' = FALSE
  /\ UNCHANGED <<phase, outbox, delivered>>

Finish ==
  /\ phase = "stopping" /\ phase' = "gone"
  /\ UNCHANGED <<outbox, delivered, grace>>

SNext ==
  \/ Start
  \/ Establish
  \/ \E m \in Message : Post(m)
  \/ Deliver
  \/ Stop
  \/ Lose
  \/ Finish

SSpec == SInit /\ [][SNext]_svars
=============================================================================
