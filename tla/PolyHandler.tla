----------------------------- MODULE PolyHandler -----------------------------
(***************************************************************************)
(* util::poly_handler (src/lib/util/poly_handler.hpp): a move-only callable *)
(* with a small-buffer optimisation and lifetimes managed by hand.  A union  *)
(* holds the callable itself or a unique_ptr to a heap block with it, kind_   *)
(* says which, and nothing but the code keeps the two in step.  A call moves *)
(* the callable out, and while it runs it may do to the handlers whatever    *)
(* the program may: call, move, replace or destroy the one it came from.     *)
(*                                                                         *)
(* An object of the callable's type is named by the callable whose state it  *)
(* holds, or is a Shell when that was moved out of it.  Calling an empty     *)
(* handler throws bad_function_call and changes nothing, so it is no step.   *)
(* h = std::move(h) destroys the callable and then moves from it: undefined, *)
(* and no step either.                                                       *)
(***************************************************************************)
EXTENDS Naturals, FiniteSets, Sequences

CONSTANTS
    Handler,   \* the storage for poly_handler objects
    Callable,  \* the callables given to them, each once
    Big,       \* those larger than sbo_storage
    Shell, Empty, Gone, Broken

ASSUME PolyHandlerAssumption ==
    /\ Big \subseteq Callable
    /\ Callable \cap {Shell, Empty, Gone, Broken} = {}
    /\ Empty # Gone /\ Broken \notin {Empty, Gone}

VARIABLES
    alive,     \* the handler objects whose lifetime has begun
    kind_,     \* the vtable a handler points to
    storage_,  \* what is constructed in its union
    stack,     \* the callables running, each the local act of an invoke
    given,     \* the callables that were given to a handler
    called,    \* the callables whose handler was called
    dtors,     \* how often the object with a callable's state was destroyed
    blocks,    \* the heap blocks allocated, by the callable they were for
    spilt      \* the callables that threw when they were moved in or out

vars ==
    <<alive, kind_, storage_, stack, given, called, dtors, blocks, spilt>>

(* sbo_storage: nothing, an Actual in short_, or a unique_ptr in long_ to a   *)
(* block with an Actual, or to none (Empty).                                 *)
Raw == [in |-> "raw", obj |-> Empty]
Short(o) == [in |-> "short", obj |-> o]
Long(o) == [in |-> "long", obj |-> o]
sbo_storage ==
    {Raw, Long(Empty)} \cup {Short(o) : o \in Callable \cup {Shell}}
                       \cup {Long(o) : o \in Callable}

KindOf(c) == IF c \in Big THEN "big" ELSE "small"

(* kind->move_construct(storage, &actual).                                   *)
FromValue(c) == IF c \in Big THEN Long(c) ELSE Short(c)

(* kind->move_construct(storage, source): what it leaves in the source.  An   *)
(* Actual is moved from and stays, never to be destroyed; a pointer is null.  *)
MovedFrom(k) == IF k = "big" THEN Long(Empty) ELSE Short(Shell)

(* kind->destroy(storage): ~Actual, and the block freed with its pointer.    *)
Destroyed(st) == {st.obj} \cap Callable
Freed(st) == IF st.in = "long" THEN {st.obj} \cap Callable ELSE {}

Died(S) == [c \in Callable |-> dtors[c] + IF c \in S THEN 1 ELSE 0]

Init ==
    /\ alive = {} /\ kind_ = [h \in Handler |-> "null"]
    /\ storage_ = [h \in Handler |-> Raw]
    /\ stack = <<>> /\ given = {} /\ called = {}
    /\ dtors = [c \in Callable |-> 0]
    /\ blocks = {} /\ spilt = {}

(* poly_handler().                                                           *)
Default(h) ==
    /\ h \notin alive
    /\ alive' = alive \cup {h}
    /\ kind_' = [kind_ EXCEPT ![h] = "null"]
    /\ storage_' = [storage_ EXCEPT ![h] = Raw]
    /\ UNCHANGED <<stack, given, dtors, blocks, called, spilt>>

(* poly_handler(Actual): kind_ is set when the construction has succeeded.   *)
FromActual(h, c) ==
    /\ h \notin alive /\ c \notin given
    /\ alive' = alive \cup {h}
    /\ given' = given \cup {c}
    /\ kind_' = [kind_ EXCEPT ![h] = KindOf(c)]
    /\ storage_' = [storage_ EXCEPT ![h] = FromValue(c)]
    /\ blocks' = blocks \cup ({c} \cap Big)
    /\ UNCHANGED <<stack, dtors, called, spilt>>

(* The callable's move constructor throws: the handler never lives, the       *)
(* union's destructor does nothing, and the block a big one got is lost.      *)
FromActualThrows(h, c) ==
    /\ h \notin alive /\ c \notin given
    /\ given' = given \cup {c}
    /\ spilt' = spilt \cup {c}
    /\ blocks' = blocks \cup ({c} \cap Big)
    /\ UNCHANGED <<alive, kind_, storage_, stack, called, dtors>>

(* Mutant: the moved-from handler keeps its kind_.                           *)
move_keeps_kind(h, g) ==
    /\ kind_' = [kind_ EXCEPT ![h] = kind_[g]]
    /\ storage_' = IF kind_[g] = "null" THEN [storage_ EXCEPT ![h] = Raw]
                   ELSE [storage_ EXCEPT ![h] = storage_[g],
                                         ![g] = MovedFrom(kind_[g])]

(* poly_handler(poly_handler &&) of h from g: kind_ is exchanged for null.   *)
move(h, g) ==
    /\ kind_' = [kind_ EXCEPT ![h] = kind_[g], ![g] = "null"]
    /\ storage_' = IF kind_[g] = "null" THEN [storage_ EXCEPT ![h] = Raw]
                   ELSE [storage_ EXCEPT ![h] = storage_[g],
                                         ![g] = MovedFrom(kind_[g])]

Moved(h, g) ==
    /\ h \notin alive /\ g \in alive
    /\ alive' = alive \cup {h}
    /\ move(h, g)
    /\ UNCHANGED <<stack, given, dtors, blocks, called, spilt>>

(* ~poly_handler, which looks at kind_ and does not change it.               *)
destroy(h) ==
    IF kind_[h] = "null" THEN UNCHANGED <<dtors, blocks>>
    ELSE /\ dtors' = Died(Destroyed(storage_[h]))
         /\ blocks' = blocks \ Freed(storage_[h])

(* Mutant: the callable the handler held is overwritten.                     *)
Assign_overwrites(h, g) ==
    /\ {h, g} \subseteq alive /\ h # g
    /\ move(h, g)
    /\ UNCHANGED <<alive, stack, given, dtors, blocks, called, spilt>>

(* h = std::move(g): destroyed in place, then constructed anew from g.       *)
Assign(h, g) ==
    /\ {h, g} \subseteq alive /\ h # g
    /\ destroy(h)
    /\ move(h, g)
    /\ UNCHANGED <<alive, stack, given, called, spilt>>

Destroy(h) ==
    /\ h \in alive
    /\ alive' = alive \ {h}
    /\ destroy(h)
    /\ storage_' = [storage_ EXCEPT ![h] = Raw]
    /\ UNCHANGED <<kind_, stack, given, called, spilt>>

(* operator(): kind_ is null and the storage empty before the callable runs.  *)
(* The moved-from Actual is destroyed (small) or only freed (big).           *)
Call(h) ==
    /\ h \in alive /\ kind_[h] # "null"
    /\ kind_' = [kind_ EXCEPT ![h] = "null"]
    /\ storage_' = [storage_ EXCEPT ![h] = Raw]
    /\ blocks' = blocks \ Freed(storage_[h])
    /\ stack' = Append(stack, storage_[h].obj)
    /\ called' = called \cup {storage_[h].obj}
    /\ UNCHANGED <<alive, given, dtors, spilt>>

(* The callable throws when it is moved to act: kind_ is null already, and    *)
(* what the storage holds is never destroyed, its block never freed.         *)
CallThrows(h) ==
    /\ h \in alive /\ kind_[h] # "null"
    /\ kind_' = [kind_ EXCEPT ![h] = "null"]
    /\ called' = called \cup {storage_[h].obj}
    /\ spilt' = spilt \cup {storage_[h].obj}
    /\ UNCHANGED <<alive, storage_, stack, given, dtors, blocks>>

(* The call returns or throws, and act is destroyed.                         *)
Return ==
    /\ stack # <<>>
    /\ dtors' = Died({stack[Len(stack)]})
    /\ stack' = SubSeq(stack, 1, Len(stack) - 1)
    /\ UNCHANGED <<alive, kind_, storage_, given, blocks, called, spilt>>

Next ==
    \/ \E h \in Handler :
        \/ Default(h) \/ Destroy(h) \/ Call(h) \/ CallThrows(h)
        \/ \E c \in Callable : FromActual(h, c) \/ FromActualThrows(h, c)
        \/ \E g \in Handler : Moved(h, g) \/ Assign(h, g)
    \/ Return

Spec == Init /\ [][Next]_vars

-----------------------------------------------------------------------------
(* The variables have their types.                                           *)
TypeOK ==
    /\ alive \subseteq Handler /\ kind_ \in [Handler -> {"null", "small", "big"}]
    /\ storage_ \in [Handler -> sbo_storage] /\ stack \in Seq(Callable)
    /\ given \subseteq Callable /\ called \subseteq given /\ dtors \in [Callable -> Nat]
    /\ blocks \subseteq Callable /\ spilt \subseteq given

Holders(c) == {h \in alive : storage_[h].obj = c}
Runs(c) == {i \in DOMAIN stack : stack[i] = c}

(* destroy, move_construct and invoke, called by hand on a union: however     *)
(* handlers are moved, replaced, called and destroyed, also by the callable   *)
(* that runs, a callable given to one is in exactly one handler, or running,  *)
(* or was destroyed, once; and the heap blocks are those of the big callables *)
(* in a handler, and of those that threw when they were moved, which leak.    *)
OneOwner ==
    /\ \A c \in given \ spilt :
        Cardinality(Holders(c)) + Cardinality(Runs(c)) + dtors[c] = 1
    /\ blocks = {c \in Big : Holders(c) # {}} \cup (spilt \cap Big)

(* The callable kind_ and storage_ together say a handler holds: Broken when  *)
(* kind_ would have the union read as what it is not.                         *)
Value(h) ==
    CASE h \notin alive -> Gone
      [] h \in alive /\ kind_[h] = "null" -> Empty
      [] OTHER -> IF /\ storage_[h].obj \in Callable
                     /\ storage_[h] = FromValue(storage_[h].obj)
                     /\ kind_[h] = KindOf(storage_[h].obj)
                  THEN storage_[h].obj ELSE Broken

Slots ==
    INSTANCE CallSlot WITH
        held <- [h \in Handler |-> Value(h)],
        ran <- called

(* poly_handler, seen through kind_ and storage_, is the one-shot slot that   *)
(* async_queue_impl takes it for.                                             *)
ImplementsCallSlot == Slots!Spec
=============================================================================
