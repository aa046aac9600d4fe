----------------------------- MODULE StopSource -----------------------------
(***************************************************************************)
(* util::st::stop_source, stop_token and stop_connection                   *)
(* (src/lib/util/st/stop_token.hpp over                                    *)
(* src/lib/util/st/detail/stop_token.hpp): a one-shot signal.  The slots    *)
(* run on the caller's stack, inside stop() or inside connect(), and may    *)
(* themselves connect, disconnect, stop and throw.  What is hard is         *)
(* exactly that: the functions here are re-entered half-way through.        *)
(*                                                                         *)
(* The call stack is a sequence of frames: a stop() with the slots of its   *)
(* local map still to be called, and a slot that is running.  Below the     *)
(* stack is the program that owns the source.                               *)
(***************************************************************************)
EXTENDS Naturals, Sequences, FiniteSets, Functions

CONSTANTS
    Slot,          \* the callables given to connect, each once
    stopped_value, \* numeric_limits<uint64_t>::max(), made small
    MaxStops       \* how often stop() is called

ASSUME StopSourceAssumption == stopped_value \in Nat /\ MaxStops \in Nat

VARIABLES
    next_id_, slots_, \* stop_source_impl: the next id, and the slots by id
    id_,              \* stop_connection::id_ of the slots connected; its
                      \* domain is the connections whose source_ is not null
    frames,           \* the calls under way, the innermost last
    calls,            \* how often each slot was called
    stops,            \* how often stop() was called
    armed,            \* the slots stop() found when it was first called
    used, off,        \* the slots given to connect; those taken off in time
    threw             \* a slot has thrown

sourcevars == <<next_id_, slots_, id_, frames, calls, stops, armed, used, off, threw>>

Frame ==
    [rest : SUBSET Slot] \cup [slot : Slot, by : {"stop", "connect"}]

IsSlot(f) == "slot" \in DOMAIN f
Top == frames[Len(frames)]
Below == SubSeq(frames, 1, Len(frames) - 1)

(* The program runs, or a slot does: not stop() itself between two slots.    *)
Running == frames # <<>> => IsSlot(Top)

stopped == next_id_ = stopped_value

SourceInit ==
    /\ next_id_ = 0 /\ slots_ = <<>> /\ id_ = <<>> /\ frames = <<>>
    /\ calls = [s \in Slot |-> 0] /\ stops = 0
    /\ armed = {} /\ used = {} /\ off = {} /\ threw = FALSE

Invoke(s, by) ==
    /\ frames' = Append(frames, [slot |-> s, by |-> by])
    /\ calls' = [calls EXCEPT ![s] = @ + 1]

(* Mutant: the slot is kept for the stop that already came.                  *)
connect_unchecked(s) ==
    /\ next_id_' = (next_id_ + 1) % (stopped_value + 1)
    /\ slots_' = [i \in DOMAIN slots_ \cup {next_id_} |->
                     IF i = next_id_ THEN s ELSE slots_[i]]
    /\ id_' = [c \in DOMAIN id_ \cup {s} |->
                     IF c = s THEN next_id_ ELSE id_[c]]
    /\ UNCHANGED <<frames, calls>>

(* The id is looked at before it is given out: when it is stopped_value the  *)
(* slot is called here, on the stack of whoever connects it.                 *)
connect(s) ==
    \/ /\ stopped
       /\ Invoke(s, "connect")
       /\ UNCHANGED <<next_id_, slots_, id_>>
    \/ /\ ~stopped
       /\ next_id_' = next_id_ + 1
       /\ slots_' = [i \in DOMAIN slots_ \cup {next_id_} |->
                        IF i = next_id_ THEN s ELSE slots_[i]]
       /\ id_' = [c \in DOMAIN id_ \cup {s} |->
                        IF c = s THEN next_id_ ELSE id_[c]]
       /\ UNCHANGED <<frames, calls>>

Connect(s) ==
    /\ Running /\ s \notin used
    /\ used' = used \cup {s}
    /\ connect(s)
    /\ UNCHANGED <<stops, armed, off, threw>>

disconnect(id) == slots_' = Restrict(slots_, DOMAIN slots_ \ {id})

(* stop_connection::disconnect lets go of the source and erases the id.  The *)
(* id is in no map when the stop has moved the slots away, and a slot called *)
(* by connect had stopped_value, which no slot is kept under.                *)
Disconnect(s) ==
    /\ Running /\ s \in DOMAIN id_
    /\ id_' = Restrict(id_, DOMAIN id_ \ {s})
    /\ disconnect(id_[s])
    /\ off' = IF id_[s] \in DOMAIN slots_ THEN off \cup {s} ELSE off
    /\ UNCHANGED <<next_id_, frames, calls, stops, armed, used, threw>>

(* Mutant: the slots are copied and stay in the source.                      *)
stop_copies ==
    /\ next_id_' = stopped_value
    /\ frames' = Append(frames, [rest |-> Range(slots_)])
    /\ UNCHANGED slots_

(* next_id_ first, then the slots are moved to a local map, then called.     *)
stop ==
    /\ next_id_' = stopped_value
    /\ frames' = Append(frames, [rest |-> Range(slots_)])
    /\ slots_' = <<>>

Stop ==
    /\ Running /\ stops < MaxStops
    /\ stop
    /\ stops' = stops + 1
    /\ armed' = IF stops = 0 THEN Range(slots_) ELSE armed
    /\ UNCHANGED <<id_, calls, used, off, threw>>

(* The loop of stop() over an unordered_map: the slots in any order.         *)
StopCalls ==
    /\ ~Running
    /\ \E s \in Top.rest :
        /\ frames' = Append([frames EXCEPT ![Len(frames)].rest = @ \ {s}],
                           [slot |-> s, by |-> "stop"])
        /\ calls' = [calls EXCEPT ![s] = @ + 1]
    /\ UNCHANGED <<next_id_, slots_, id_, stops, armed, used, off, threw>>

StopReturns ==
    /\ ~Running /\ Top.rest = {}
    /\ frames' = Below
    /\ UNCHANGED <<next_id_, slots_, id_, calls, stops, armed, used, off, threw>>

(* A slot returns; connect, if it was the caller, returns the connection.    *)
SlotReturns ==
    /\ frames # <<>> /\ Running
    /\ frames' = Below
    /\ id_' = IF Top.by = "stop" THEN id_
              ELSE [c \in DOMAIN id_ \cup {Top.slot} |->
                      IF c = Top.slot THEN stopped_value ELSE id_[c]]
    /\ UNCHANGED <<next_id_, slots_, calls, stops, armed, used, off, threw>>

(* A slot throws: nothing here catches it, so the frames above the slot (or  *)
(* the program, 0) that does are gone, with the slots a stop() had not       *)
(* called yet: they died with its local map.                                 *)
SlotThrows ==
    /\ frames # <<>> /\ Running
    /\ \E k \in 0..(Len(frames) - 1) :
        /\ k > 0 => IsSlot(frames[k])
        /\ frames' = SubSeq(frames, 1, k)
    /\ threw' = TRUE
    /\ UNCHANGED <<next_id_, slots_, id_, calls, stops, armed, used, off>>

SourceNext ==
    \/ \E s \in Slot : Connect(s) \/ Disconnect(s)
    \/ Stop \/ StopCalls \/ StopReturns \/ SlotReturns \/ SlotThrows

SourceSpec == SourceInit /\ [][SourceNext]_sourcevars

-----------------------------------------------------------------------------
(* The variables have their types.                                           *)
SourceTypeOK ==
    /\ next_id_ \in 0..stopped_value /\ stops \in 0..MaxStops
    /\ DOMAIN slots_ \subseteq 0..(stopped_value - 1)
    /\ Range(slots_) \subseteq Slot
    /\ DOMAIN id_ \subseteq Slot /\ Range(id_) \subseteq 0..stopped_value
    /\ frames \in Seq(Frame) /\ calls \in [Slot -> Nat]
    /\ armed \subseteq Slot /\ used \subseteq Slot /\ off \subseteq used
    /\ threw \in BOOLEAN

(* stop_source_impl::stop, connect, disconnect: however stop, connect and     *)
(* disconnect nest, no slot is called twice, none that was disconnected       *)
(* before the stop is called at all, and none is called before the stop       *)
(* unless the ids have run out (next_id_ is then stopped_value too).          *)
OneShot ==
    \A s \in Slot :
        /\ calls[s] <= 1
        /\ s \in off => calls[s] = 0
        /\ calls[s] = 1 => stops > 0 \/ Cardinality(used) > stopped_value

(* stop_source_impl::stop and connect: once no call is under way every slot   *)
(* has been called that was connected when stop was called, the ones whose    *)
(* connection was disconnected while stop() ran included (disconnect does not *)
(* look in stop's local map), and every slot connected since, also from       *)
(* inside a slot; unless a slot threw.                                        *)
NoneForgotten ==
    frames = <<>> /\ stops > 0 /\ ~threw =>
        \A s \in armed \cup (used \ off) : calls[s] = 1
=============================================================================
