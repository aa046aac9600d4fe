------------------------------ MODULE CallSlot ------------------------------
(***************************************************************************)
(* What a poly_handler promises the code that keeps one (async_queue_impl    *)
(* keeps the consumer's completion handler in it): each handler object is    *)
(* empty or holds one callable, moving it moves the callable, and calling    *)
(* it empties it and uses up the callable, which is never called again.       *)
(***************************************************************************)
CONSTANTS Handler, Callable, Empty, Gone
VARIABLES held, ran

Init == held = [h \in Handler |-> Gone] /\ ran = {}

Make(h) ==
    /\ held[h] = Gone
    /\ \E c \in (Callable \ ran) \cup {Empty} :
        /\ \A g \in Handler : c # Empty => held[g] # c
        /\ held' = [held EXCEPT ![h] = c]
    /\ UNCHANGED ran

Move(h, g) ==
    /\ h # g /\ held[g] # Gone
    /\ held' = [held EXCEPT ![h] = held[g], ![g] = Empty]
    /\ UNCHANGED ran

Call(h) ==
    /\ held[h] \in Callable \ ran
    /\ held' = [held EXCEPT ![h] = Empty]
    /\ ran' = ran \cup {held[h]}

Drop(h) ==
    /\ held[h] # Gone
    /\ held' = [held EXCEPT ![h] = Gone]
    /\ UNCHANGED ran

Next ==
    \E h \in Handler :
        Make(h) \/ Call(h) \/ Drop(h) \/ \E g \in Handler : Move(h, g)

Spec == Init /\ [][Next]_<<held, ran>>
=============================================================================
