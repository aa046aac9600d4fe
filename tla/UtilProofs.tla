----------------------------- MODULE UtilProofs ------------------------------
(******************************************************************************)
(* Proofs about the two parts of lib/util that are re-entered while they run:  *)
(* poly_handler, for any number of handlers and callables, big and small; and   *)
(* stop_source, for any number of slots, ids and stops.                        *)
(******************************************************************************)
EXTENDS PolyHandler, StopSource, FiniteSetTheorems, TLAPS

(* The callable a handler holds, by kind_: what is in the storage of a handler *)
(* that is null no longer counts.                                              *)
Holds(h, c) == h \in alive /\ kind_[h] # "null" /\ storage_[h].obj = c
IsHeld(c) == \E h \in alive : Holds(h, c)
OnStack(c) == \E i \in DOMAIN stack : stack[i] = c

(* kind_ and storage_ are in step, and what a handler holds was not called.    *)
KindTells ==
    \A h \in alive :
        LET o == storage_[h].obj IN
        IF kind_[h] = "null" THEN o \in spilt \/ o \notin Callable
        ELSE /\ o \in (given \ spilt) \ called
             /\ storage_[h] = FromValue(o) /\ kind_[h] = KindOf(o)

(* No two handlers hold the same callable, and none runs twice.                *)
Unique ==
    /\ \A h, g \in alive :
         kind_[h] # "null" /\ kind_[g] # "null" /\ storage_[h].obj = storage_[g].obj => h = g
    /\ \A i, j \in DOMAIN stack : stack[i] = stack[j] => i = j

(* What runs was called, and did not throw when it was moved to act.           *)
StackIsCalled == \A i \in DOMAIN stack : stack[i] \in called \ spilt

(* A callable is destroyed once, when nobody has it any more.                  *)
Destructed ==
    /\ \A c \in Callable \ given : dtors[c] = 0
    /\ \A c \in given \ spilt :
         dtors[c] = IF OnStack(c) \/ IsHeld(c) THEN 0 ELSE 1

(* The heap blocks are those of the callables that are held, or have leaked.   *)
Allocated == \A c \in Callable :
    c \in blocks <=> c \in Big /\ (c \in spilt \/ IsHeld(c))

IInv == TypeOK /\ KindTells /\ Unique /\ StackIsCalled /\ Destructed /\ Allocated

------------------------------------------------------------------------------
(* Lemmas.                                                                     *)

(* What the operations on storage construct, and what counts of it.            *)
LEMMA Storage ==
    /\ Raw \in sbo_storage /\ Raw.obj = Empty /\ Empty \notin Callable
    /\ \A c \in Callable :
         /\ FromValue(c) \in sbo_storage /\ FromValue(c).obj = c
         /\ Destroyed(FromValue(c)) = {c}
         /\ \A d : d \in Freed(FromValue(c)) <=> d = c /\ c \in Big
    /\ \A k : MovedFrom(k) \in sbo_storage /\ MovedFrom(k).obj \notin Callable
  <1> USE PolyHandlerAssumption DEF Raw, Short, Long, sbo_storage
  <1>1. Raw \in sbo_storage /\ Raw.obj = Empty /\ Empty \notin Callable
    OBVIOUS
  <1>2. ASSUME NEW c \in Callable
        PROVE  /\ FromValue(c) \in sbo_storage /\ FromValue(c).obj = c
               /\ FromValue(c).in = IF c \in Big THEN "long" ELSE "short"
    BY DEF FromValue
  <1>3. ASSUME NEW c \in Callable
        PROVE  /\ Destroyed(FromValue(c)) = {c}
               /\ \A d : d \in Freed(FromValue(c)) <=> d = c /\ c \in Big
    BY <1>2 DEF Destroyed, Freed
  <1>4. \A k : MovedFrom(k) \in sbo_storage /\ MovedFrom(k).obj \notin Callable
    BY DEF MovedFrom
  <1> QED BY <1>1, <1>2, <1>3, <1>4

(* An object dies, and the others do not.                                      *)
LEMMA OneDies ==
    ASSUME TypeOK, NEW c \in Callable, dtors' = Died({c})
    PROVE  /\ dtors' \in [Callable -> Nat] /\ dtors'[c] = dtors[c] + 1
           /\ \A d \in Callable : d # c => dtors'[d] = dtors[d]
  BY DEF TypeOK, Died

(* What a handler holds is one callable, given to it and not called.           *)
LEMMA HeldObject ==
    ASSUME IInv, NEW h \in alive, kind_[h] # "null"
    PROVE  LET o == storage_[h].obj IN
           /\ h \in Handler /\ o \in Callable /\ o \in given /\ o \notin spilt
           /\ o \notin called /\ ~OnStack(o) /\ Holds(h, o) /\ IsHeld(o)
           /\ storage_[h] = FromValue(o) /\ kind_[h] = KindOf(o) /\ dtors[o] = 0
           /\ \A g \in alive : Holds(g, o) => g = h
  <1> DEFINE o == storage_[h].obj
  <1>1. /\ h \in Handler /\ o \in Callable /\ o \in given /\ o \notin spilt /\ o \notin called
        /\ storage_[h] = FromValue(o) /\ kind_[h] = KindOf(o)
    BY DEF IInv, TypeOK, KindTells
  <1>2. ~OnStack(o)
    BY <1>1 DEF IInv, StackIsCalled, OnStack
  <1>3. Holds(h, o) /\ IsHeld(o)
    BY DEF Holds, IsHeld
  <1>4. dtors[o] = 0
    BY <1>1, <1>3 DEF IInv, Destructed
  <1>5. \A g \in alive : Holds(g, o) => g = h
    BY DEF Holds, IInv, Unique
  <1> QED BY <1>1, <1>2, <1>3, <1>4, <1>5

------------------------------------------------------------------------------
(* The operations keep the invariant.                                          *)

(* An empty handler begins to live.                                            *)
LEMMA DefaultKeeps ==
    ASSUME IInv, NEW h \in Handler, Default(h)
    PROVE  IInv'
  <1>1. /\ alive' = alive \cup {h} /\ h \notin alive
        /\ kind_' \in [Handler -> {"null", "small", "big"}] /\ kind_'[h] = "null"
        /\ storage_' \in [Handler -> sbo_storage] /\ storage_'[h].obj \notin Callable
        /\ \A x \in Handler : x # h => kind_'[x] = kind_[x] /\ storage_'[x] = storage_[x]
        /\ UNCHANGED <<stack, given, dtors, blocks, called, spilt>>
    BY Storage DEF Default, IInv, TypeOK
  <1>2. /\ \A x \in alive : \A c : Holds(x, c)' <=> Holds(x, c)
        /\ \A c : (IsHeld(c)' <=> IsHeld(c)) /\ (OnStack(c)' <=> OnStack(c))
    BY <1>1 DEF Holds, IsHeld, OnStack, IInv, TypeOK
  <1>3. TypeOK' /\ StackIsCalled'
    BY <1>1 DEF IInv, TypeOK, StackIsCalled
  <1>4. KindTells'
    BY <1>1 DEF IInv, TypeOK, KindTells
  <1>5. Unique'
    BY <1>1 DEF IInv, TypeOK, Unique
  <1>6. Destructed' /\ Allocated'
    BY <1>1, <1>2 DEF IInv, Destructed, Allocated
  <1> QED BY <1>3, <1>4, <1>5, <1>6 DEF IInv

(* A callable is given to a new handler.                                       *)
LEMMA FromActualKeeps ==
    ASSUME IInv, NEW h \in Handler, NEW c \in Callable, FromActual(h, c)
    PROVE  IInv'
  <1>1. /\ alive' = alive \cup {h} /\ h \notin alive /\ c \notin given
        /\ given' = given \cup {c}
        /\ kind_' \in [Handler -> {"null", "small", "big"}]
        /\ kind_'[h] = KindOf(c) /\ KindOf(c) # "null"
        /\ storage_' \in [Handler -> sbo_storage]
        /\ storage_'[h] = FromValue(c) /\ storage_'[h].obj = c
        /\ \A x \in Handler : x # h => kind_'[x] = kind_[x] /\ storage_'[x] = storage_[x]
        /\ blocks' = blocks \cup ({c} \cap Big)
        /\ UNCHANGED <<stack, dtors, called, spilt>>
    BY Storage DEF FromActual, IInv, TypeOK, KindOf
  <1>2. c \notin spilt /\ c \notin called /\ dtors[c] = 0 /\ ~IsHeld(c) /\ ~OnStack(c)
    BY <1>1 DEF IInv, TypeOK, Destructed, IsHeld, Holds, KindTells, OnStack, StackIsCalled
  <1>3. /\ IsHeld(c)' /\ \A d : d # c => (IsHeld(d)' <=> IsHeld(d))
        /\ \A d : OnStack(d)' <=> OnStack(d)
    BY <1>1 DEF IsHeld, Holds, OnStack, IInv, TypeOK
  <1>4. TypeOK' /\ StackIsCalled'
    BY <1>1 DEF IInv, TypeOK, StackIsCalled
  <1>5. KindTells'
    BY <1>1, <1>2 DEF IInv, TypeOK, KindTells
  <1>6. Unique'
    <2>1. \A x \in alive : kind_[x] # "null" => storage_[x].obj # c
      BY <1>2 DEF IsHeld, Holds
    <2> QED BY <1>1, <2>1 DEF IInv, TypeOK, Unique
  <1>7. Destructed'
    BY <1>1, <1>2, <1>3 DEF IInv, TypeOK, Destructed
  <1>8. Allocated'
    BY <1>1, <1>2, <1>3 DEF IInv, Allocated
  <1> QED BY <1>4, <1>5, <1>6, <1>7, <1>8 DEF IInv

(* The callable's move constructor throws: it is nobody's.                     *)
LEMMA FromActualThrowsKeeps ==
    ASSUME IInv, NEW h \in Handler, NEW c \in Callable, FromActualThrows(h, c)
    PROVE  IInv'
  <1>1. /\ c \notin given /\ given' = given \cup {c} /\ spilt' = spilt \cup {c}
        /\ blocks' = blocks \cup ({c} \cap Big)
        /\ UNCHANGED <<alive, kind_, storage_, stack, called, dtors>>
    BY DEF FromActualThrows
  <1>2. c \notin called
    BY <1>1 DEF IInv, TypeOK
  <1>3. \A d : (IsHeld(d)' <=> IsHeld(d)) /\ (OnStack(d)' <=> OnStack(d))
    BY <1>1 DEF IsHeld, Holds, OnStack
  <1>4. TypeOK' /\ Unique'
    BY <1>1 DEF IInv, TypeOK, Unique
  <1>5. KindTells' /\ StackIsCalled'
    BY <1>1, <1>2 DEF IInv, TypeOK, KindTells, StackIsCalled
  <1>6. Destructed' /\ Allocated'
    BY <1>1, <1>3 DEF IInv, TypeOK, Destructed, Allocated
  <1> QED BY <1>4, <1>5, <1>6 DEF IInv

(* move exchanges kind_ and takes along what counts of the storage.            *)
LEMMA MoveFacts ==
    ASSUME IInv, NEW h \in Handler, NEW g \in alive, h # g, move(h, g)
    PROVE  /\ kind_' \in [Handler -> {"null", "small", "big"}]
           /\ storage_' \in [Handler -> sbo_storage]
           /\ kind_'[h] = kind_[g] /\ kind_'[g] = "null"
           /\ IF kind_[g] = "null"
              THEN storage_'[h].obj \notin Callable /\ storage_'[g] = storage_[g]
              ELSE storage_'[h] = storage_[g] /\ storage_'[g].obj \notin Callable
           /\ \A x \in Handler :
                x \notin {h, g} => kind_'[x] = kind_[x] /\ storage_'[x] = storage_[x]
  <1>1. /\ g \in Handler /\ kind_ \in [Handler -> {"null", "small", "big"}]
        /\ storage_ \in [Handler -> sbo_storage]
    BY DEF IInv, TypeOK
  <1>2. kind_' = [kind_ EXCEPT ![h] = kind_[g], ![g] = "null"]
    BY DEF move
  <1>3. CASE kind_[g] = "null"
    <2>1. storage_' = [storage_ EXCEPT ![h] = Raw]
      BY <1>3 DEF move
    <2> QED BY <1>1, <1>2, <1>3, <2>1, Storage
  <1>4. CASE kind_[g] # "null"
    <2>1. storage_' = [storage_ EXCEPT ![h] = storage_[g], ![g] = MovedFrom(kind_[g])]
      BY <1>4 DEF move
    <2>2. MovedFrom(kind_[g]) \in sbo_storage /\ MovedFrom(kind_[g]).obj \notin Callable
      BY Storage
    <2> QED BY <1>1, <1>2, <1>4, <2>1, <2>2
  <1> QED BY <1>3, <1>4

(* After a move the target holds what the source held, and lost what it had.   *)
LEMMA MoveKeeps ==
    ASSUME IInv, NEW h \in Handler, NEW g \in alive, h # g, move(h, g),
           alive' = alive \cup {h}, UNCHANGED <<given, called, spilt, stack>>
    PROVE  /\ KindTells' /\ Unique' /\ StackIsCalled'
           /\ \A d : IsHeld(d)' <=> IsHeld(d) /\ ~Holds(h, d)
           /\ \A d : OnStack(d)' <=> OnStack(d)
  <1>1. /\ kind_'[h] = kind_[g] /\ kind_'[g] = "null"
        /\ IF kind_[g] = "null"
           THEN storage_'[h].obj \notin Callable /\ storage_'[g] = storage_[g]
           ELSE storage_'[h] = storage_[g] /\ storage_'[g].obj \notin Callable
        /\ \A x \in Handler :
             x \notin {h, g} => kind_'[x] = kind_[x] /\ storage_'[x] = storage_[x]
    BY MoveFacts
  <1>2. alive \subseteq Handler
    BY DEF IInv, TypeOK
  <1>3. KindTells'
    BY <1>1, <1>2 DEF IInv, KindTells
  <1>4. StackIsCalled'
    BY DEF IInv, StackIsCalled
  <1>5. /\ \A d : Holds(h, d)' <=> Holds(g, d)
        /\ \A d : ~Holds(g, d)'
        /\ \A x \in alive : \A d : x \notin {h, g} => (Holds(x, d)' <=> Holds(x, d))
    BY <1>1, <1>2 DEF Holds
  <1>6. \A x, y \in alive : \A d : Holds(x, d) /\ Holds(y, d) => x = y
    BY DEF IInv, Unique, Holds
  <1>7. \A d : IsHeld(d)' <=> IsHeld(d) /\ ~Holds(h, d)
    <2> SUFFICES ASSUME NEW d PROVE IsHeld(d)' <=> IsHeld(d) /\ ~Holds(h, d)
      OBVIOUS
    <2>1. ASSUME IsHeld(d)' PROVE IsHeld(d) /\ ~Holds(h, d)
      <3>1. PICK x \in alive' : Holds(x, d)'
        BY <2>1 DEF IsHeld
      <3>2. CASE x = h
        <4>1. Holds(g, d)
          BY <1>5, <3>1, <3>2
        <4>2. ~Holds(h, d)
          BY <1>6, <4>1 DEF Holds
        <4> QED BY <4>1, <4>2 DEF IsHeld
      <3>3. CASE x # h
        <4>1. x \in alive /\ x # g /\ Holds(x, d)
          BY <1>5, <3>1, <3>3
        <4>2. ~Holds(h, d)
          BY <1>6, <3>3, <4>1 DEF Holds
        <4> QED BY <4>1, <4>2 DEF IsHeld
      <3> QED BY <3>2, <3>3
    <2>2. ASSUME IsHeld(d), ~Holds(h, d) PROVE IsHeld(d)'
      <3>1. PICK x \in alive : Holds(x, d)
        BY <2>2 DEF IsHeld
      <3>2. CASE x = g
        <4>1. Holds(h, d)' /\ h \in alive'
          BY <1>5, <3>1, <3>2
        <4> QED BY <4>1 DEF IsHeld
      <3>3. CASE x # g
        <4>1. Holds(x, d)' /\ x \in alive'
          BY <1>5, <2>2, <3>1, <3>3
        <4> QED BY <4>1 DEF IsHeld
      <3> QED BY <3>2, <3>3
    <2> QED BY <2>1, <2>2
  <1>8. Unique'
    <2>1. \A i, j \in DOMAIN stack' : stack'[i] = stack'[j] => i = j
      BY DEF IInv, Unique
    <2>2. ASSUME NEW x \in alive', NEW y \in alive', NEW d, Holds(x, d)', Holds(y, d)'
          PROVE  x = y
      <3>1. ASSUME NEW z \in alive', Holds(z, d)'
            PROVE  z # g /\ (z = h => Holds(g, d)) /\ (z # h => z \in alive /\ Holds(z, d))
        BY <1>5, <3>1
      <3>2. CASE x = h \/ y = h
        BY <1>6, <2>2, <3>1, <3>2
      <3>3. CASE x # h /\ y # h
        BY <1>6, <2>2, <3>1, <3>3
      <3> QED BY <3>2, <3>3
    <2>3. ASSUME NEW x \in alive', NEW y \in alive', kind_'[x] # "null", kind_'[y] # "null",
                 storage_'[x].obj = storage_'[y].obj
          PROVE  x = y
      <3>1. PICK d : d = storage_'[x].obj
        OBVIOUS
      <3>2. Holds(x, d)' /\ Holds(y, d)'
        BY <2>3, <3>1 DEF Holds
      <3> QED BY <2>2, <3>2
    <2> QED BY <2>1, <2>3 DEF Unique
  <1>9. \A d : OnStack(d)' <=> OnStack(d)
    BY DEF OnStack
  <1> QED BY <1>3, <1>4, <1>7, <1>8, <1>9

(* destroy, which looks at kind_, ends the life of what the handler holds.     *)
LEMMA DestroyFacts ==
    ASSUME IInv, NEW h \in alive, destroy(h)
    PROVE  /\ dtors' \in [Callable -> Nat] /\ blocks' \subseteq Callable
           /\ \A d \in Callable :
                /\ dtors'[d] = dtors[d] + (IF Holds(h, d) THEN 1 ELSE 0)
                /\ d \in blocks' <=> d \in blocks /\ ~Holds(h, d)
  <1>0. /\ dtors \in [Callable -> Nat] /\ blocks \subseteq Callable
    BY DEF IInv, TypeOK
  <1>1. CASE kind_[h] = "null"
    <2>1. dtors' = dtors /\ blocks' = blocks /\ \A d : ~Holds(h, d)
      BY <1>1 DEF destroy, Holds
    <2>2. \A d \in Callable : dtors'[d] = dtors[d] + 0
      BY <1>0, <2>1
    <2> QED BY <1>0, <2>1, <2>2
  <1>2. CASE kind_[h] # "null"
    <2>1. PICK o \in Callable : o = storage_[h].obj
      BY <1>2, HeldObject
    <2>2. storage_[h] = FromValue(o) /\ \A d : Holds(h, d) <=> d = o
      BY <1>2, <2>1, HeldObject DEF Holds
    <2>3. dtors' = Died({o})
      BY <1>2, <2>2, Storage DEF destroy
    <2>4. \A d : d \in blocks' <=> d \in blocks /\ ~(d = o /\ o \in Big)
      BY <1>2, <2>2, Storage DEF destroy
    <2>5. \A d \in blocks : d \in Big
      BY <1>0 DEF IInv, Allocated
    <2>6. /\ dtors' \in [Callable -> Nat]
          /\ \A d \in Callable : dtors'[d] = dtors[d] + (IF Holds(h, d) THEN 1 ELSE 0)
      <3>1. /\ dtors' \in [Callable -> Nat] /\ dtors'[o] = dtors[o] + 1
            /\ \A d \in Callable : d # o => dtors'[d] = dtors[d]
        BY <2>3, OneDies DEF IInv
      <3>2. \A d \in Callable : dtors[d] + 0 = dtors[d]
        BY <1>0
      <3> QED BY <2>2, <3>1, <3>2
    <2> QED BY <1>0, <2>2, <2>4, <2>5, <2>6
  <1> QED BY <1>1, <1>2

(* What a handler loses is destroyed with it.                                  *)
LEMMA LossIsDestruction ==
    ASSUME IInv, NEW h \in Handler, UNCHANGED <<given, spilt>>,
           \A d : IsHeld(d)' <=> IsHeld(d) /\ ~Holds(h, d),
           \A d : OnStack(d)' <=> OnStack(d),
           \A d \in Callable :
             /\ dtors'[d] = dtors[d] + (IF Holds(h, d) THEN 1 ELSE 0)
             /\ d \in blocks' <=> d \in blocks /\ ~Holds(h, d)
    PROVE  Destructed' /\ Allocated'
  <1>0. given \subseteq Callable /\ dtors \in [Callable -> Nat]
    BY DEF IInv, TypeOK
  <1>1. \A d : Holds(h, d) => /\ d \in given /\ d \notin spilt /\ IsHeld(d) /\ ~OnStack(d)
                              /\ dtors[d] = 0
    <2> SUFFICES ASSUME NEW d, Holds(h, d)
                 PROVE  d \in given /\ d \notin spilt /\ IsHeld(d) /\ ~OnStack(d) /\ dtors[d] = 0
      OBVIOUS
    <2>1. h \in alive /\ kind_[h] # "null" /\ storage_[h].obj = d
      BY DEF Holds
    <2> QED BY <2>1, HeldObject
  <1>2. ASSUME NEW c \in Callable \ given PROVE dtors'[c] = 0
    <2>1. dtors[c] = 0 /\ ~Holds(h, c) /\ dtors'[c] = dtors[c] + 0
      BY <1>1 DEF IInv, Destructed
    <2> QED BY <2>1
  <1>3. ASSUME NEW c \in given \ spilt
        PROVE  dtors'[c] = IF OnStack(c)' \/ IsHeld(c)' THEN 0 ELSE 1
    <2>1. dtors[c] = IF OnStack(c) \/ IsHeld(c) THEN 0 ELSE 1
      BY DEF IInv, Destructed
    <2>2. dtors'[c] = dtors[c] + (IF Holds(h, c) THEN 1 ELSE 0)
      BY <1>0
    <2>3. CASE Holds(h, c)
      BY <1>1, <2>2, <2>3
    <2>4. CASE ~Holds(h, c)
      BY <2>1, <2>2, <2>4
    <2> QED BY <2>3, <2>4
  <1>4. Destructed'
    BY <1>2, <1>3 DEF Destructed
  <1>5. Allocated'
    BY <1>1 DEF IInv, Allocated
  <1> QED BY <1>4, <1>5

(* The three operations that move or destroy.                                  *)
LEMMA MovedKeeps ==
    ASSUME IInv, NEW h \in Handler, NEW g \in Handler, Moved(h, g)
    PROVE  IInv'
  <1>1. /\ h \notin alive /\ g \in alive /\ h # g /\ alive' = alive \cup {h} /\ move(h, g)
        /\ UNCHANGED <<stack, given, dtors, blocks, called, spilt>>
    BY DEF Moved
  <1>2. /\ KindTells' /\ Unique' /\ StackIsCalled'
        /\ \A d : IsHeld(d)' <=> IsHeld(d) /\ ~Holds(h, d)
        /\ \A d : OnStack(d)' <=> OnStack(d)
    BY <1>1, MoveKeeps
  <1>3. \A d : ~Holds(h, d)
    BY <1>1 DEF Holds
  <1>4. Destructed' /\ Allocated'
    BY <1>1, <1>2, <1>3 DEF IInv, Destructed, Allocated
  <1>5. TypeOK'
    BY <1>1, MoveFacts DEF IInv, TypeOK
  <1> QED BY <1>2, <1>4, <1>5 DEF IInv

LEMMA AssignKeeps ==
    ASSUME IInv, NEW h \in Handler, NEW g \in Handler, Assign(h, g)
    PROVE  IInv'
  <1>1. /\ h \in alive /\ g \in alive /\ h # g /\ alive' = alive \cup {h}
        /\ move(h, g) /\ destroy(h) /\ alive' = alive
        /\ UNCHANGED <<stack, given, called, spilt>>
    BY DEF Assign
  <1>2. /\ KindTells' /\ Unique' /\ StackIsCalled'
        /\ \A d : IsHeld(d)' <=> IsHeld(d) /\ ~Holds(h, d)
        /\ \A d : OnStack(d)' <=> OnStack(d)
    BY <1>1, MoveKeeps
  <1>3. /\ dtors' \in [Callable -> Nat] /\ blocks' \subseteq Callable
        /\ \A d \in Callable :
             /\ dtors'[d] = dtors[d] + (IF Holds(h, d) THEN 1 ELSE 0)
             /\ d \in blocks' <=> d \in blocks /\ ~Holds(h, d)
    BY <1>1, DestroyFacts
  <1>4. Destructed' /\ Allocated'
    BY <1>1, <1>2, <1>3, LossIsDestruction
  <1>5. TypeOK'
    BY <1>1, <1>3, MoveFacts DEF IInv, TypeOK
  <1> QED BY <1>2, <1>4, <1>5 DEF IInv

(* A handler that ceases to live, or to hold, holds nothing: the others do.    *)
LEMMA ReleaseKeeps ==
    ASSUME IInv, NEW h \in alive, alive' \in {alive, alive \ {h}},
           kind_' \in [Handler -> {"null", "small", "big"}],
           storage_' \in [Handler -> sbo_storage],
           h \in alive' => kind_'[h] = "null" /\ (\/ storage_'[h].obj \in spilt'
                                                 \/ storage_'[h].obj \notin Callable),
           \A x \in Handler : x # h => kind_'[x] = kind_[x] /\ storage_'[x] = storage_[x],
           given' = given, spilt \subseteq spilt',
           \A x \in alive : x # h /\ kind_[x] # "null" =>
              storage_[x].obj \notin spilt' /\ storage_[x].obj \notin called'
    PROVE  /\ KindTells'
           /\ \A x, y \in alive' : kind_'[x] # "null" /\ kind_'[y] # "null"
                                   /\ storage_'[x].obj = storage_'[y].obj => x = y
           /\ \A d : IsHeld(d)' <=> IsHeld(d) /\ ~Holds(h, d)
  <1>0. alive \subseteq Handler /\ alive' \subseteq alive /\ \A x \in alive : x # h => x \in alive'
    BY DEF IInv, TypeOK
  <1>1. KindTells'
    BY <1>0 DEF IInv, KindTells
  <1>2. \A x, y \in alive' : kind_'[x] # "null" /\ kind_'[y] # "null"
                             /\ storage_'[x].obj = storage_'[y].obj => x = y
    BY <1>0 DEF IInv, Unique
  <1>3. /\ \A d : ~Holds(h, d)'
        /\ \A x \in alive : \A d : x # h => (Holds(x, d)' <=> Holds(x, d))
    BY <1>0 DEF Holds
  <1>4. \A x, y \in alive : \A d : Holds(x, d) /\ Holds(y, d) => x = y
    BY DEF IInv, Unique, Holds
  <1>5. \A d : IsHeld(d)' <=> IsHeld(d) /\ ~Holds(h, d)
    BY <1>0, <1>3, <1>4 DEF IsHeld
  <1> QED BY <1>1, <1>2, <1>5

LEMMA DestroyKeeps ==
    ASSUME IInv, NEW h \in Handler, Destroy(h)
    PROVE  IInv'
  <1>1. /\ h \in alive /\ alive' = alive \ {h} /\ destroy(h)
        /\ storage_' = [storage_ EXCEPT ![h] = Raw]
        /\ UNCHANGED <<kind_, stack, given, called, spilt>>
    BY DEF Destroy
  <1>2. /\ storage_' \in [Handler -> sbo_storage]
        /\ \A x \in Handler : x # h => storage_'[x] = storage_[x]
    BY <1>1, Storage DEF IInv, TypeOK
  <1>3. \A x \in alive : kind_[x] # "null" =>
           storage_[x].obj \notin spilt /\ storage_[x].obj \notin called
    BY DEF IInv, KindTells
  <1>4. /\ KindTells'
        /\ \A x, y \in alive' : kind_'[x] # "null" /\ kind_'[y] # "null"
                                /\ storage_'[x].obj = storage_'[y].obj => x = y
        /\ \A d : IsHeld(d)' <=> IsHeld(d) /\ ~Holds(h, d)
    <2>1. kind_' \in [Handler -> {"null", "small", "big"}]
      BY <1>1 DEF IInv, TypeOK
    <2> QED BY <1>1, <1>2, <1>3, <2>1, ReleaseKeeps
  <1>5. Unique' /\ StackIsCalled' /\ \A d : OnStack(d)' <=> OnStack(d)
    BY <1>1, <1>4 DEF IInv, Unique, StackIsCalled, OnStack
  <1>6. /\ dtors' \in [Callable -> Nat] /\ blocks' \subseteq Callable
        /\ \A d \in Callable :
             /\ dtors'[d] = dtors[d] + (IF Holds(h, d) THEN 1 ELSE 0)
             /\ d \in blocks' <=> d \in blocks /\ ~Holds(h, d)
    BY <1>1, DestroyFacts
  <1>7. Destructed' /\ Allocated'
    BY <1>1, <1>4, <1>5, <1>6, LossIsDestruction
  <1>8. TypeOK'
    BY <1>1, <1>2, <1>6 DEF IInv, TypeOK
  <1> QED BY <1>4, <1>5, <1>7, <1>8 DEF IInv

(* A call moves the callable from the handler to the stack.                    *)
LEMMA CallKeeps ==
    ASSUME IInv, NEW h \in Handler, Call(h)
    PROVE  IInv'
  <1>1. PICK o \in Callable : o = storage_[h].obj /\ h \in alive /\ kind_[h] # "null"
    BY HeldObject DEF Call
  <1>2. /\ o \in given /\ o \notin spilt /\ o \notin called /\ ~OnStack(o) /\ IsHeld(o)
        /\ storage_[h] = FromValue(o) /\ dtors[o] = 0 /\ \A d : Holds(h, d) <=> d = o
    BY <1>1, HeldObject DEF Holds
  <1>3. /\ kind_' = [kind_ EXCEPT ![h] = "null"] /\ storage_' = [storage_ EXCEPT ![h] = Raw]
        /\ stack' = Append(stack, o) /\ called' = called \cup {o}
        /\ blocks' = blocks \ Freed(storage_[h])
        /\ UNCHANGED <<alive, given, dtors, spilt>>
    BY <1>1 DEF Call
  <1>4. \A d : d \in blocks' <=> d \in blocks /\ ~(d = o /\ o \in Big)
    BY <1>2, <1>3, Storage
  <1>5. /\ stack \in Seq(Callable) /\ stack' \in Seq(Callable)
        /\ \A i \in DOMAIN stack : i \in DOMAIN stack' /\ stack'[i] = stack[i]
        /\ \A i \in DOMAIN stack' : i \in DOMAIN stack \/ (i = Len(stack) + 1 /\ stack'[i] = o)
        /\ Len(stack) + 1 \in DOMAIN stack' /\ stack'[Len(stack) + 1] = o
    BY <1>3 DEF IInv, TypeOK
  <1>6. /\ kind_' \in [Handler -> {"null", "small", "big"}] /\ kind_'[h] = "null"
        /\ storage_' \in [Handler -> sbo_storage] /\ storage_'[h].obj \notin Callable
        /\ \A x \in Handler : x # h => kind_'[x] = kind_[x] /\ storage_'[x] = storage_[x]
    BY <1>3, Storage DEF IInv, TypeOK
  <1>7. \A x \in alive : x # h /\ kind_[x] # "null" =>
           storage_[x].obj \notin spilt' /\ storage_[x].obj \notin called'
    BY <1>1, <1>3 DEF IInv, KindTells, Unique
  <1>8. /\ KindTells'
        /\ \A x, y \in alive' : kind_'[x] # "null" /\ kind_'[y] # "null"
                                /\ storage_'[x].obj = storage_'[y].obj => x = y
        /\ \A d : IsHeld(d)' <=> IsHeld(d) /\ d # o
    <2>1. /\ alive' \in {alive, alive \ {h}} /\ given' = given /\ spilt \subseteq spilt'
      BY <1>3
    <2>2. /\ KindTells'
          /\ \A x, y \in alive' : kind_'[x] # "null" /\ kind_'[y] # "null"
                                  /\ storage_'[x].obj = storage_'[y].obj => x = y
          /\ \A d : IsHeld(d)' <=> IsHeld(d) /\ ~Holds(h, d)
      BY <1>1, <1>6, <1>7, <2>1, ReleaseKeeps
    <2> QED BY <1>2, <2>2
  <1>9. \A d : OnStack(d)' <=> OnStack(d) \/ d = o
    BY <1>5 DEF OnStack
  <1>10. Unique'
    <2>1. \A i \in DOMAIN stack : stack[i] # o
      BY <1>2 DEF OnStack
    <2>2. \A i, j \in DOMAIN stack' : stack'[i] = stack'[j] => i = j
      BY <1>5, <2>1 DEF IInv, Unique
    <2> QED BY <1>8, <2>2 DEF Unique
  <1>11. StackIsCalled'
    BY <1>2, <1>3, <1>5 DEF IInv, StackIsCalled
  <1>12. Destructed'
    BY <1>2, <1>3, <1>8, <1>9 DEF IInv, Destructed
  <1>13. Allocated'
    BY <1>2, <1>3, <1>4, <1>8 DEF IInv, Allocated
  <1>14. TypeOK'
    BY <1>2, <1>3, <1>5, <1>6 DEF IInv, TypeOK
  <1> QED BY <1>8, <1>10, <1>11, <1>12, <1>13, <1>14 DEF IInv

(* A callable that throws when it is moved to act is lost, with its block.     *)
LEMMA CallThrowsKeeps ==
    ASSUME IInv, NEW h \in Handler, CallThrows(h)
    PROVE  IInv'
  <1>1. PICK o \in Callable : o = storage_[h].obj /\ h \in alive /\ kind_[h] # "null"
    BY HeldObject DEF CallThrows
  <1>2. /\ o \in given /\ o \notin spilt /\ o \notin called /\ ~OnStack(o) /\ IsHeld(o)
        /\ \A d : Holds(h, d) <=> d = o
    BY <1>1, HeldObject DEF Holds
  <1>3. /\ kind_' = [kind_ EXCEPT ![h] = "null"]
        /\ called' = called \cup {o} /\ spilt' = spilt \cup {o}
        /\ UNCHANGED <<alive, storage_, stack, given, dtors, blocks>>
    BY <1>1 DEF CallThrows
  <1>4. /\ kind_' \in [Handler -> {"null", "small", "big"}] /\ kind_'[h] = "null"
        /\ storage_' \in [Handler -> sbo_storage] /\ storage_'[h].obj \in spilt'
        /\ \A x \in Handler : x # h => kind_'[x] = kind_[x] /\ storage_'[x] = storage_[x]
    BY <1>1, <1>3 DEF IInv, TypeOK
  <1>5. \A x \in alive : x # h /\ kind_[x] # "null" =>
           storage_[x].obj \notin spilt' /\ storage_[x].obj \notin called'
    BY <1>1, <1>3 DEF IInv, KindTells, Unique
  <1>6. /\ KindTells'
        /\ \A x, y \in alive' : kind_'[x] # "null" /\ kind_'[y] # "null"
                                /\ storage_'[x].obj = storage_'[y].obj => x = y
        /\ \A d : IsHeld(d)' <=> IsHeld(d) /\ d # o
    <2>1. /\ alive' \in {alive, alive \ {h}} /\ given' = given /\ spilt \subseteq spilt'
      BY <1>3
    <2>2. /\ KindTells'
          /\ \A x, y \in alive' : kind_'[x] # "null" /\ kind_'[y] # "null"
                                  /\ storage_'[x].obj = storage_'[y].obj => x = y
          /\ \A d : IsHeld(d)' <=> IsHeld(d) /\ ~Holds(h, d)
      BY <1>1, <1>4, <1>5, <2>1, ReleaseKeeps
    <2> QED BY <1>2, <2>2
  <1>7. /\ \A d : OnStack(d)' <=> OnStack(d)
        /\ \A i \in DOMAIN stack : stack[i] # o
    BY <1>2, <1>3 DEF OnStack
  <1>8. Unique' /\ StackIsCalled'
    BY <1>3, <1>6, <1>7 DEF IInv, Unique, StackIsCalled
  <1>9. Destructed'
    BY <1>2, <1>3, <1>6, <1>7 DEF IInv, Destructed
  <1>10. Allocated'
    BY <1>2, <1>3, <1>6 DEF IInv, Allocated
  <1>11. TypeOK'
    BY <1>2, <1>3, <1>4 DEF IInv, TypeOK
  <1> QED BY <1>6, <1>8, <1>9, <1>10, <1>11 DEF IInv

(* The innermost call returns, and act is destroyed.                           *)
LEMMA ReturnKeeps ==
    ASSUME IInv, Return
    PROVE  IInv'
  <1>1. /\ stack \in Seq(Callable) /\ stack # <<>> /\ Len(stack) \in Nat \ {0}
        /\ stack' = SubSeq(stack, 1, Len(stack) - 1) /\ DOMAIN stack = 1 .. Len(stack)
        /\ UNCHANGED <<alive, kind_, storage_, given, blocks, called, spilt>>
    BY DEF Return, IInv, TypeOK
  <1>2. PICK o \in Callable : o = stack[Len(stack)] /\ dtors' = Died({o})
    <2>1. stack[Len(stack)] \in Callable
      BY <1>1
    <2>2. dtors' = Died({stack[Len(stack)]})
      BY DEF Return
    <2> QED BY <2>1, <2>2
  <1>3. /\ stack' \in Seq(Callable) /\ DOMAIN stack' = 1 .. (Len(stack) - 1)
        /\ \A i \in DOMAIN stack' : stack'[i] = stack[i]
    BY <1>1
  <1>4. OnStack(o) /\ o \in called /\ o \notin spilt /\ o \in given
    BY <1>1, <1>2 DEF OnStack, IInv, StackIsCalled, TypeOK
  <1>5. ~IsHeld(o)
    BY <1>4 DEF IInv, KindTells, IsHeld, Holds
  <1>6. \A d : IsHeld(d)' <=> IsHeld(d)
    BY <1>1 DEF IsHeld, Holds
  <1>7. \A d : OnStack(d)' <=> OnStack(d) /\ d # o
    <2>1. \A i \in DOMAIN stack' : i \in DOMAIN stack /\ i # Len(stack)
      BY <1>1, <1>3
    <2>2. \A i \in DOMAIN stack : i # Len(stack) => i \in DOMAIN stack'
      BY <1>1, <1>3
    <2>3. \A i \in DOMAIN stack : stack[i] = o => i = Len(stack)
      BY <1>1, <1>2 DEF IInv, Unique
    <2> QED BY <1>2, <1>3, <2>1, <2>2, <2>3 DEF OnStack
  <1>8. /\ dtors' \in [Callable -> Nat] /\ dtors'[o] = dtors[o] + 1
        /\ \A d \in Callable : d # o => dtors'[d] = dtors[d]
    BY <1>2, OneDies DEF IInv
  <1>9. dtors[o] = 0
    BY <1>4 DEF IInv, Destructed
  <1>10. KindTells' /\ Allocated'
    BY <1>1, <1>6 DEF IInv, KindTells, Allocated
  <1>11. Unique' /\ StackIsCalled'
    BY <1>1, <1>3 DEF IInv, Unique, StackIsCalled
  <1>12. Destructed'
    <2>1. \A c \in Callable \ given' : dtors'[c] = 0
      BY <1>1, <1>4, <1>8 DEF IInv, Destructed
    <2>2. \A c \in given' \ spilt' : dtors'[c] = IF OnStack(c)' \/ IsHeld(c)' THEN 0 ELSE 1
      BY <1>1, <1>5, <1>6, <1>7, <1>8, <1>9 DEF IInv, TypeOK, Destructed
    <2> QED BY <2>1, <2>2 DEF Destructed
  <1>13. TypeOK'
    BY <1>1, <1>3, <1>8 DEF IInv, TypeOK
  <1> QED BY <1>10, <1>11, <1>12, <1>13 DEF IInv

(* IInv holds in every reachable state.                                        *)
LEMMA AlwaysIInv == Spec => []IInv
  <1>1. Init => IInv
    <2> SUFFICES ASSUME Init PROVE IInv
      OBVIOUS
    <2>1. TypeOK
      BY Storage DEF Init, TypeOK
    <2>2. KindTells /\ Unique /\ StackIsCalled /\ Destructed /\ Allocated
      BY DEF Init, KindTells, Unique, StackIsCalled, Destructed, Allocated, IsHeld
    <2> QED BY <2>1, <2>2 DEF IInv
  <1>2. IInv /\ [Next]_vars => IInv'
    <2> SUFFICES ASSUME IInv, [Next]_vars PROVE IInv'
      OBVIOUS
    <2>1. CASE Return
      BY <2>1, ReturnKeeps
    <2>2. CASE UNCHANGED vars
      BY <2>2 DEF vars, IInv, TypeOK, KindTells, Unique, StackIsCalled, Destructed,
                  Allocated, IsHeld, Holds, OnStack
    <2>3. CASE \E h \in Handler :
                 \/ Default(h) \/ Destroy(h) \/ Call(h) \/ CallThrows(h)
                 \/ \E c \in Callable : FromActual(h, c) \/ FromActualThrows(h, c)
                 \/ \E g \in Handler : Moved(h, g) \/ Assign(h, g)
      BY <2>3, DefaultKeeps, DestroyKeeps, CallKeeps, CallThrowsKeeps, FromActualKeeps,
         FromActualThrowsKeeps, MovedKeeps, AssignKeeps
    <2> QED BY <2>1, <2>2, <2>3 DEF Next
  <1> QED BY <1>1, <1>2, PTL DEF Spec

------------------------------------------------------------------------------
(* Theorems.                                                                   *)

(* The variables keep their types.                                             *)
THEOREM TypeCorrect == Spec => []TypeOK
  <1>1. IInv => TypeOK
    BY DEF IInv
  <1> QED BY <1>1, AlwaysIInv, PTL

(* A callable has exactly one owner, a handler or the stack, or was destroyed  *)
(* once; and nothing but what throws when it is moved leaks its block.         *)
THEOREM ExactlyOneOwner == Spec => []OneOwner
  <1>1. IInv => OneOwner
    <2> SUFFICES ASSUME IInv PROVE OneOwner
      OBVIOUS
    <2>0. given \subseteq Callable /\ blocks \subseteq Callable /\ spilt \subseteq given
          /\ Big \subseteq Callable
      BY PolyHandlerAssumption DEF IInv, TypeOK
    <2>1. \A c \in Callable \ spilt, h \in alive : storage_[h].obj = c <=> Holds(h, c)
      BY DEF IInv, KindTells, Holds
    <2>2. ASSUME NEW c \in given \ spilt
          PROVE  Cardinality(Holders(c)) + Cardinality(Runs(c)) + dtors[c] = 1
      <3>1. Cardinality(Holders(c)) = IF IsHeld(c) THEN 1 ELSE 0
        <4>1. CASE IsHeld(c)
          <5>1. PICK h \in alive : Holds(h, c)
            BY <4>1 DEF IsHeld
          <5>2. \A g \in alive : Holds(g, c) => g = h
            BY <5>1 DEF IInv, Unique, Holds
          <5>3. Holders(c) = {h}
            BY <2>0, <2>1, <5>1, <5>2 DEF Holders
          <5> QED BY <4>1, <5>3, FS_Singleton
        <4>2. CASE ~IsHeld(c)
          <5>1. Holders(c) = {}
            BY <2>0, <2>1, <4>2 DEF Holders, IsHeld
          <5> QED BY <4>2, <5>1, FS_EmptySet
        <4> QED BY <4>1, <4>2
      <3>2. Cardinality(Runs(c)) = IF OnStack(c) THEN 1 ELSE 0
        <4>1. CASE OnStack(c)
          <5>1. PICK i \in DOMAIN stack : stack[i] = c
            BY <4>1 DEF OnStack
          <5>2. Runs(c) = {i}
            BY <5>1 DEF Runs, IInv, Unique
          <5> QED BY <4>1, <5>2, FS_Singleton
        <4>2. CASE ~OnStack(c)
          <5>1. Runs(c) = {}
            BY <4>2 DEF Runs, OnStack
          <5> QED BY <4>2, <5>1, FS_EmptySet
        <4> QED BY <4>1, <4>2
      <3>3. ~(IsHeld(c) /\ OnStack(c))
        BY DEF IInv, KindTells, StackIsCalled, IsHeld, Holds, OnStack
      <3>4. dtors[c] = IF OnStack(c) \/ IsHeld(c) THEN 0 ELSE 1
        BY DEF IInv, Destructed
      <3>5. CASE IsHeld(c)
        BY <3>1, <3>2, <3>3, <3>4, <3>5
      <3>6. CASE OnStack(c)
        BY <3>1, <3>2, <3>3, <3>4, <3>6
      <3>7. CASE ~IsHeld(c) /\ ~OnStack(c)
        BY <3>1, <3>2, <3>4, <3>7
      <3> QED BY <3>5, <3>6, <3>7
    <2>3. blocks = {c \in Big : Holders(c) # {}} \cup (spilt \cap Big)
      <3>1. \A c \in Callable \ spilt : Holders(c) # {} <=> IsHeld(c)
        BY <2>1 DEF Holders, IsHeld
      <3>2. \A c \in Callable :
               c \in blocks <=> c \in {d \in Big : Holders(d) # {}} \cup (spilt \cap Big)
        BY <2>0, <3>1 DEF IInv, Allocated
      <3> QED BY <2>0, <3>2
    <2> QED BY <2>2, <2>3 DEF OneOwner
  <1> QED BY <1>1, AlwaysIInv, PTL

------------------------------------------------------------------------------
(* The refinement.                                                             *)

held == [h \in Handler |-> Value(h)]

(* A handler is Gone, Empty, or holds what kind_ and storage_ say it does; it   *)
(* is never Broken.                                                            *)
LEMMA ValueOf ==
    IInv => \A h \in Handler :
              Value(h) = IF h \notin alive THEN Gone
                         ELSE IF kind_[h] = "null" THEN Empty ELSE storage_[h].obj
  <1> SUFFICES ASSUME IInv, NEW h \in Handler
               PROVE  Value(h) = IF h \notin alive THEN Gone
                                 ELSE IF kind_[h] = "null" THEN Empty ELSE storage_[h].obj
    OBVIOUS
  <1>1. CASE h \notin alive
    BY <1>1 DEF Value
  <1>2. CASE h \in alive /\ kind_[h] = "null"
    BY <1>2 DEF Value
  <1>3. CASE h \in alive /\ kind_[h] # "null"
    <2>1. /\ storage_[h].obj \in Callable
          /\ storage_[h] = FromValue(storage_[h].obj)
          /\ kind_[h] = KindOf(storage_[h].obj)
      BY <1>3, HeldObject
    <2> QED BY <1>3, <2>1 DEF Value
  <1> QED BY <1>1, <1>2, <1>3

(* Every step of poly_handler is a step of the slot, or none.                   *)
LEMMA StepIsSlotStep ==
    ASSUME IInv, IInv', [Next]_vars
    PROVE  [Slots!Next]_<<held, called>>
  <1>1. \A h \in Handler :
           held[h] = IF h \notin alive THEN Gone
                     ELSE IF kind_[h] = "null" THEN Empty ELSE storage_[h].obj
    BY ValueOf DEF held
  <1>2. (IInv => \A h \in Handler :
              Value(h) = IF h \notin alive THEN Gone
                         ELSE IF kind_[h] = "null" THEN Empty ELSE storage_[h].obj)'
    BY ValueOf, PTL
  <1>3. \A h \in Handler :
           held'[h] = IF h \notin alive' THEN Gone
                      ELSE IF kind_'[h] = "null" THEN Empty ELSE storage_'[h].obj
    BY <1>2 DEF held
  <1>4. /\ held = [h \in Handler |-> held[h]] /\ held' = [h \in Handler |-> held'[h]]
        /\ DOMAIN held = Handler
    BY DEF held
  <1>5. alive \subseteq Handler /\ Empty # Gone /\ Empty \notin Callable /\ Gone \notin Callable
    BY PolyHandlerAssumption DEF IInv, TypeOK
  <1>6. /\ kind_ \in [Handler -> {"null", "small", "big"}]
        /\ storage_ \in [Handler -> sbo_storage]
    BY DEF IInv, TypeOK
  <1>7. \A h \in Handler : held[h] \in Callable => held[h] \in given /\ held[h] \notin called
    BY <1>1, <1>5 DEF IInv, KindTells
  <1> USE <1>4, <1>5, <1>6
  <1>8. ASSUME NEW h \in Handler, Default(h)
        PROVE  Slots!Make(h)
    <2>1. held[h] = Gone /\ called' = called /\ held' = [held EXCEPT ![h] = Empty]
      <3>1. /\ h \notin alive /\ alive' = alive \cup {h} /\ called' = called
            /\ kind_' = [kind_ EXCEPT ![h] = "null"]
            /\ storage_' = [storage_ EXCEPT ![h] = Raw]
        BY <1>8 DEF Default
      <3>2. held[h] = Gone /\ held'[h] = Empty /\ \A x \in Handler : x # h => held'[x] = held[x]
        BY <1>1, <1>3, <3>1
      <3> QED BY <3>1, <3>2
    <2> QED BY <2>1 DEF held, Slots!Make
  <1>9. ASSUME NEW h \in Handler, NEW c \in Callable, FromActual(h, c)
        PROVE  Slots!Make(h)
    <2>1. /\ held[h] = Gone /\ called' = called /\ held' = [held EXCEPT ![h] = c]
          /\ c \notin called /\ \A g \in Handler : held[g] # c
      <3>1. /\ h \notin alive /\ alive' = alive \cup {h} /\ called' = called /\ c \notin given
            /\ kind_' = [kind_ EXCEPT ![h] = KindOf(c)] /\ KindOf(c) # "null"
            /\ storage_' = [storage_ EXCEPT ![h] = FromValue(c)] /\ FromValue(c).obj = c
        BY <1>9, Storage DEF FromActual, KindOf
      <3>2. held[h] = Gone /\ held'[h] = c /\ \A x \in Handler : x # h => held'[x] = held[x]
        BY <1>1, <1>3, <3>1
      <3>3. c \notin called /\ \A g \in Handler : held[g] # c
        BY <1>7, <3>1 DEF IInv, TypeOK
      <3> QED BY <3>1, <3>2, <3>3
    <2> QED BY <2>1 DEF held, Slots!Make
  <1>10. ASSUME NEW h \in Handler, NEW g \in alive, h # g, move(h, g),
                alive' = alive \cup {h}, called' = called
         PROVE  Slots!Move(h, g)
    <2>1. held[g] # Gone /\ held' = [held EXCEPT ![h] = held[g], ![g] = Empty]
      <3>1. /\ kind_'[h] = kind_[g] /\ kind_'[g] = "null"
            /\ kind_[g] # "null" => storage_'[h] = storage_[g]
            /\ \A x \in Handler :
                 x \notin {h, g} => kind_'[x] = kind_[x] /\ storage_'[x] = storage_[x]
        BY <1>10, MoveFacts
      <3>2. kind_[g] # "null" => storage_[g].obj \in Callable
        BY HeldObject
      <3>3. /\ held[g] # Gone /\ held'[h] = held[g] /\ held'[g] = Empty
            /\ \A x \in Handler : x \notin {h, g} => held'[x] = held[x]
        BY <1>1, <1>3, <1>10, <3>1, <3>2
      <3> QED BY <1>10, <3>3
    <2> QED BY <1>10, <2>1 DEF held, Slots!Move
  <1>11. ASSUME NEW h \in Handler, Destroy(h)
         PROVE  Slots!Drop(h)
    <2>1. held[h] # Gone /\ called' = called /\ held' = [held EXCEPT ![h] = Gone]
      <3>1. /\ h \in alive /\ alive' = alive \ {h} /\ called' = called /\ kind_' = kind_
            /\ storage_' = [storage_ EXCEPT ![h] = Raw]
        BY <1>11 DEF Destroy
      <3>2. kind_[h] # "null" => storage_[h].obj \in Callable
        BY <3>1, HeldObject
      <3>3. held[h] # Gone /\ held'[h] = Gone /\ \A x \in Handler : x # h => held'[x] = held[x]
        BY <1>1, <1>3, <3>1, <3>2
      <3> QED BY <3>1, <3>3
    <2> QED BY <2>1 DEF held, Slots!Drop
  <1>12. ASSUME NEW h \in Handler, Call(h) \/ CallThrows(h)
         PROVE  Slots!Call(h)
    <2>1. /\ held[h] \in Callable /\ held[h] \notin called /\ called' = called \cup {held[h]}
          /\ held' = [held EXCEPT ![h] = Empty]
      <3>1. /\ h \in alive /\ kind_[h] # "null" /\ alive' = alive
            /\ kind_' = [kind_ EXCEPT ![h] = "null"]
            /\ called' = called \cup {storage_[h].obj}
            /\ \A x \in Handler : x # h => storage_'[x] = storage_[x]
        BY <1>12 DEF Call, CallThrows
      <3>2. held[h] = storage_[h].obj /\ storage_[h].obj \in Callable
        BY <1>1, <3>1, HeldObject
      <3>3. held'[h] = Empty /\ \A x \in Handler : x # h => held'[x] = held[x]
        BY <1>1, <1>3, <3>1
      <3> QED BY <1>7, <3>1, <3>2, <3>3
    <2> QED BY <2>1 DEF held, Slots!Call
  <1>13. ASSUME UNCHANGED <<alive, kind_, storage_, called>>
         PROVE  UNCHANGED <<held, called>>
    <2>1. \A x \in Handler : held'[x] = held[x]
      BY <1>1, <1>3, <1>13
    <2> QED BY <1>13, <2>1
  <1>14. CASE Return
    BY <1>13, <1>14 DEF Return
  <1>15. CASE UNCHANGED vars
    BY <1>13, <1>15 DEF vars
  <1>16. ASSUME NEW h \in Handler, NEW c \in Callable, FromActualThrows(h, c)
         PROVE  UNCHANGED <<held, called>>
    BY <1>13, <1>16 DEF FromActualThrows
  <1>17. ASSUME NEW h \in Handler, NEW g \in Handler, Moved(h, g) \/ Assign(h, g)
         PROVE  Slots!Move(h, g)
    <2>1. /\ g \in alive /\ h # g /\ move(h, g) /\ alive' = alive \cup {h} /\ called' = called
      BY <1>17 DEF Moved, Assign
    <2> QED BY <1>10, <2>1
  <1>18. CASE \E h \in Handler :
                \/ Default(h) \/ Destroy(h) \/ Call(h) \/ CallThrows(h)
                \/ \E c \in Callable : FromActual(h, c) \/ FromActualThrows(h, c)
                \/ \E g \in Handler : Moved(h, g) \/ Assign(h, g)
    BY <1>8, <1>9, <1>11, <1>12, <1>16, <1>17, <1>18 DEF Slots!Next
  <1> QED BY <1>14, <1>15, <1>18 DEF Next

(* poly_handler is the one-shot slot that async_queue_impl takes it for.        *)
THEOREM HandlerIsCallSlot == Spec => ImplementsCallSlot
  <1>1. Init => Slots!Init
    BY DEF Init, Slots!Init, Value
  <1>2. IInv /\ IInv' /\ [Next]_vars => [Slots!Next]_<<held, called>>
    BY StepIsSlotStep
  <1>3. [Slots!Next]_<<held, called>> => [Slots!Next]_<<[h \in Handler |-> Value(h)], called>>
    BY DEF held
  <1> QED BY <1>1, <1>2, <1>3, AlwaysIInv, PTL DEF Spec, ImplementsCallSlot, Slots!Spec

------------------------------------------------------------------------------
(* stop_source.                                                                *)

(* Where a slot may be: in the source, or in the local map of a stop().        *)
Kept(s) == \E i \in DOMAIN slots_ : slots_[i] = s
Rest(k) == IF IsSlot(frames[k]) THEN {} ELSE frames[k].rest
Due(s) == \E k \in DOMAIN frames : s \in Rest(k)

(* An id names the slot that is kept under it for as long as it is.            *)
Named ==
    /\ \A i \in DOMAIN slots_ : slots_[i] \in DOMAIN id_ /\ id_[slots_[i]] = i
    /\ \A s \in DOMAIN id_ : id_[s] \in DOMAIN slots_ => slots_[id_[s]] = s
    /\ \A s \in DOMAIN id_ : id_[s] < next_id_ \/ id_[s] = stopped_value
    /\ \A i \in DOMAIN slots_ : i < next_id_

(* A stop leaves nothing in the source, and nothing comes in again.            *)
Emptied ==
    /\ stops > 0 => stopped /\ DOMAIN slots_ = {}
    /\ stops = 0 => armed = {} /\ \A k \in DOMAIN frames : IsSlot(frames[k])

(* A slot that is kept or due was not called, nor taken off, and it is in one  *)
(* place only; one that runs has been called.                                  *)
Once ==
    /\ \A s \in Slot : Kept(s) \/ Due(s) => s \in used \ off /\ calls[s] = 0
    /\ \A s \in Slot : ~(Kept(s) /\ Due(s))
    /\ \A j, k \in DOMAIN frames : j # k => Rest(j) \cap Rest(k) = {}
    /\ \A s \in Slot : calls[s] \in {0, 1} /\ (calls[s] = 1 => s \in used \ off)
    /\ \A k \in DOMAIN frames :
         IsSlot(frames[k]) => calls[frames[k].slot] = 1

(* Unless a slot threw, one that is not taken off is somewhere or was called.  *)
Accounted ==
    /\ armed \subseteq used \ off
    /\ ~threw => \A s \in used \ off : calls[s] = 1 \/ Kept(s) \/ Due(s)

(* Ids run out only when as many slots were connected.                         *)
Counted ==
    /\ IsFiniteSet(used)
    /\ stops = 0 => Cardinality(used) >= next_id_
    /\ \A s \in Slot : calls[s] = 1 => stops > 0 \/ Cardinality(used) > stopped_value

SourceIInv ==
    SourceTypeOK /\ Named /\ Emptied /\ Once /\ Accounted /\ Counted

------------------------------------------------------------------------------
(* Lemmas.                                                                     *)

(* The two kinds of frame, and what is in them.                                *)
LEMMA FrameKinds ==
    /\ \A f \in Frame :
         IF IsSlot(f) THEN f.slot \in Slot /\ f.by \in {"stop", "connect"}
         ELSE f.rest \in SUBSET Slot
    /\ \A s \in Slot, by \in {"stop", "connect"} :
         LET f == [slot |-> s, by |-> by]
         IN  f \in Frame /\ IsSlot(f) /\ f.slot = s /\ f.by = by
    /\ \A S \in SUBSET Slot :
         LET f == [rest |-> S]
         IN  f \in Frame /\ ~IsSlot(f) /\ f.rest = S
  BY DEF Frame, IsSlot

(* The frame of a stop() that calls one of its slots.                          *)
LEMMA TakenOff ==
    ASSUME NEW f \in [rest : SUBSET Slot], NEW s
    PROVE  [f EXCEPT !.rest = @ \ {s}] = [rest |-> f.rest \ {s}]
  <1>1. [f EXCEPT !.rest = f.rest \ {s}] = [rest |-> f.rest \ {s}]
    OBVIOUS
  <1> QED BY <1>1

(* A frame on top.                                                             *)
LEMMA Pushed ==
    ASSUME frames \in Seq(Frame), NEW f \in Frame,
           frames' = Append(frames, f), NEW top, top = Len(frames) + 1
    PROVE  /\ frames' \in Seq(Frame)
           /\ DOMAIN frames' = DOMAIN frames \cup {top} /\ top \notin DOMAIN frames
           /\ \A k \in DOMAIN frames : frames'[k] = frames[k] /\ Rest(k)' = Rest(k)
           /\ frames'[top] = f
           /\ Rest(top)' = IF IsSlot(f) THEN {} ELSE f.rest
           /\ \A s : Due(s)' <=> Due(s) \/ s \in Rest(top)'
  <1>1. frames' \in Seq(Frame)
    OBVIOUS
  <1>2. DOMAIN frames' = DOMAIN frames \cup {top} /\ top \notin DOMAIN frames
    OBVIOUS
  <1>3. \A k \in DOMAIN frames : frames'[k] = frames[k]
    OBVIOUS
  <1>4. frames'[top] = f
    OBVIOUS
  <1>5. \A k \in DOMAIN frames : Rest(k)' = Rest(k)
    BY <1>3 DEF Rest
  <1>6. Rest(top)' = IF IsSlot(f) THEN {} ELSE f.rest
    BY <1>4 DEF Rest
  <1>7. \A s : Due(s)' <=> Due(s) \/ s \in Rest(top)'
    BY <1>2, <1>5 DEF Due
  <1> QED BY <1>1, <1>2, <1>3, <1>4, <1>5, <1>6, <1>7

(* Frames taken off.                                                           *)
LEMMA Popped ==
    ASSUME frames \in Seq(Frame), NEW n \in 0 .. Len(frames),
           frames' = SubSeq(frames, 1, n)
    PROVE  /\ frames' \in Seq(Frame) /\ DOMAIN frames' = 1 .. n
           /\ DOMAIN frames' \subseteq DOMAIN frames
           /\ \A k \in DOMAIN frames' : frames'[k] = frames[k] /\ Rest(k)' = Rest(k)
           /\ \A s : Due(s)' => Due(s)
  <1>1. frames' \in Seq(Frame) /\ DOMAIN frames' = 1 .. n /\ DOMAIN frames' \subseteq DOMAIN frames
    OBVIOUS
  <1>2. \A k \in DOMAIN frames' : frames'[k] = frames[k]
    OBVIOUS
  <1>3. \A k \in DOMAIN frames' : Rest(k)' = Rest(k)
    BY <1>2 DEF Rest
  <1>4. \A s : Due(s)' => Due(s)
    BY <1>1, <1>3 DEF Due
  <1> QED BY <1>1, <1>2, <1>3, <1>4

------------------------------------------------------------------------------
(* Every operation keeps the invariant.                                        *)

(* The source begins empty.                                                    *)
LEMMA SourceStarts == SourceInit => SourceIInv
  <1> SUFFICES ASSUME SourceInit PROVE SourceIInv
    OBVIOUS
  <1> USE DEF SourceInit
  <1>1. DOMAIN slots_ = {} /\ DOMAIN id_ = {} /\ DOMAIN frames = {}
    OBVIOUS
  <1>2. (\A s : ~Kept(s)) /\ (\A s : ~Due(s))
    BY <1>1 DEF Kept, Due
  <1>3. SourceTypeOK
    <2>1. next_id_ \in 0..stopped_value /\ stops \in 0..MaxStops
      BY StopSourceAssumption
    <2>2. /\ DOMAIN slots_ \subseteq 0..(stopped_value - 1) /\ DOMAIN id_ \subseteq Slot
          /\ Range(slots_) \subseteq Slot
          /\ Range(id_) \subseteq 0..stopped_value
      BY <1>1 DEF Range
    <2>3. frames \in Seq(Frame) /\ calls \in [Slot -> Nat]
      OBVIOUS
    <2>4. threw \in BOOLEAN /\ armed \subseteq Slot /\ used \subseteq Slot /\ off \subseteq used
      OBVIOUS
    <2> QED BY <2>1, <2>2, <2>3, <2>4 DEF SourceTypeOK
  <1>4. Named /\ Emptied
    BY <1>1 DEF Named, Emptied
  <1>5. Once /\ Accounted
    BY <1>1, <1>2 DEF Once, Accounted
  <1>6. Counted
    BY FS_EmptySet DEF Counted
  <1> QED BY <1>3, <1>4, <1>5, <1>6 DEF SourceIInv

(* A slot that comes too late is called by connect.                            *)
LEMMA ConnectCalls ==
    ASSUME SourceIInv, NEW s \in Slot, Connect(s), stopped
    PROVE  SourceIInv'
  <1> DEFINE top == Len(frames) + 1
             f == [slot |-> s, by |-> "connect"]
  <1>1. /\ s \notin used /\ used' = used \cup {s}
        /\ frames' = Append(frames, f) /\ calls' = [calls EXCEPT ![s] = @ + 1]
        /\ UNCHANGED <<next_id_, slots_, id_, stops, armed, off, threw>>
    BY DEF Connect, connect, Invoke, stopped
  <1>2. f \in Frame /\ IsSlot(f) /\ f.slot = s
    BY FrameKinds
  <1>3. frames \in Seq(Frame) /\ calls \in [Slot -> Nat] /\ stopped_value \in Nat
    BY StopSourceAssumption DEF SourceIInv, SourceTypeOK
  <1>4. /\ frames' \in Seq(Frame)
        /\ DOMAIN frames' = DOMAIN frames \cup {top} /\ top \notin DOMAIN frames
        /\ \A k \in DOMAIN frames : frames'[k] = frames[k] /\ Rest(k)' = Rest(k)
        /\ frames'[top] = f
        /\ \A t : Due(t)' <=> Due(t)
    <2> HIDE DEF f, top
    <2>1. top = Len(frames) + 1
      BY DEF top
    <2> QED BY <1>1, <1>2, <1>3, <2>1, Pushed
  <1>5. \A k \in DOMAIN frames' : k = top => Rest(k)' = {}
    BY <1>2, <1>4 DEF Rest
  <1>6. calls[s] = 0 /\ ~Kept(s) /\ ~Due(s)
    BY <1>1 DEF SourceIInv, Once
  <1>7. calls' \in [Slot -> Nat] /\ calls'[s] = 1 /\ \A t \in Slot : t # s => calls'[t] = calls[t]
    BY <1>1, <1>3, <1>6
  <1>8. \A t : Kept(t)' <=> Kept(t)
    BY <1>1 DEF Kept
  <1> HIDE DEF f, top
  <1>9. SourceTypeOK'
    BY <1>1, <1>4, <1>7 DEF SourceIInv, SourceTypeOK, Range
  <1>10. Named' /\ Emptied'
    BY <1>1, <1>2, <1>4 DEF SourceIInv, Named, Emptied, stopped
  <1>11. Once'
    <2>1. \A t \in Slot : Kept(t)' \/ Due(t)' => t \in used' \ off' /\ calls'[t] = 0
      BY <1>1, <1>4, <1>6, <1>7, <1>8 DEF SourceIInv, Once
    <2>2. \A t \in Slot : ~(Kept(t)' /\ Due(t)')
      BY <1>4, <1>8 DEF SourceIInv, Once
    <2>3. \A j, k \in DOMAIN frames' : j # k => Rest(j)' \cap Rest(k)' = {}
      BY <1>4, <1>5 DEF SourceIInv, Once
    <2>4. \A t \in Slot : calls'[t] \in {0, 1} /\ (calls'[t] = 1 => t \in used' \ off')
      BY <1>1, <1>7 DEF SourceIInv, Once, SourceTypeOK
    <2>5. \A k \in DOMAIN frames' :
            IsSlot(frames'[k]) => calls'[frames'[k].slot] = 1
      BY <1>1, <1>2, <1>3, <1>4, <1>7, FrameKinds DEF SourceIInv, Once
    <2> QED BY <2>1, <2>2, <2>3, <2>4, <2>5 DEF Once
  <1>12. Accounted'
    BY <1>1, <1>4, <1>7, <1>8 DEF SourceIInv, Accounted, SourceTypeOK
  <1>13. Counted'
    <2>1. /\ IsFiniteSet(used) /\ Cardinality(used) \in Nat
          /\ IsFiniteSet(used') /\ Cardinality(used') = Cardinality(used) + 1
      BY <1>1, FS_AddElement, FS_CardinalityType DEF SourceIInv, Counted
    <2>2. next_id_ = stopped_value
      BY DEF stopped
    <2>3. stops = 0 => Cardinality(used') > stopped_value /\ Cardinality(used') >= next_id_
      BY <1>3, <2>1, <2>2 DEF SourceIInv, Counted
    <2>4. stops = 0 \/ stops > 0
      BY DEF SourceIInv, SourceTypeOK
    <2> QED BY <1>1, <2>1, <2>3, <2>4 DEF Counted
  <1> QED BY <1>9, <1>10, <1>11, <1>12, <1>13 DEF SourceIInv

(* One that is in time gets the next id.                                       *)
LEMMA ConnectKeepsSlot ==
    ASSUME SourceIInv, NEW s \in Slot, Connect(s), ~stopped
    PROVE  SourceIInv'
  <1> DEFINE n == next_id_
  <1>1. /\ s \notin used /\ used' = used \cup {s} /\ next_id_' = n + 1
        /\ DOMAIN slots_' = DOMAIN slots_ \cup {n} /\ slots_'[n] = s
        /\ \A i \in DOMAIN slots_ : i # n => slots_'[i] = slots_[i]
        /\ DOMAIN id_' = DOMAIN id_ \cup {s} /\ id_'[s] = n
        /\ \A c \in DOMAIN id_ : c # s => id_'[c] = id_[c]
        /\ UNCHANGED <<frames, calls, stops, armed, off, threw>>
    BY DEF Connect, connect, Invoke, stopped
  <1>2. n \in Nat /\ stopped_value \in Nat /\ n < stopped_value /\ n \notin DOMAIN slots_
    BY StopSourceAssumption DEF SourceIInv, SourceTypeOK, stopped, Named
  <1>3. stops = 0 /\ DOMAIN slots_ \subseteq Nat
    BY DEF SourceIInv, Emptied, SourceTypeOK
  <1>4. calls[s] = 0 /\ ~Kept(s) /\ ~Due(s)
    BY <1>1 DEF SourceIInv, Once
  <1>5. \A t : Kept(t)' <=> Kept(t) \/ t = s
    BY <1>1, <1>2 DEF Kept
  <1>6. (\A k : Rest(k)' = Rest(k)) /\ (\A t : Due(t)' <=> Due(t))
    BY <1>1 DEF Rest, Due
  <1>7. SourceTypeOK'
    BY <1>1, <1>2 DEF SourceIInv, SourceTypeOK, Range
  <1>8. Named'
    <2>1. \A i \in DOMAIN slots_ : slots_[i] # s
      BY <1>4 DEF Kept
    <2>2. \A c \in DOMAIN id_ : id_[c] # n
      BY <1>2 DEF SourceIInv, Named, SourceTypeOK
    <2>3. \A c \in DOMAIN id_ : id_[c] \in Nat
      BY <1>2 DEF SourceIInv, SourceTypeOK, Range
    <2> QED BY <1>1, <1>2, <1>3, <2>1, <2>2, <2>3 DEF SourceIInv, Named
  <1>9. Emptied'
    BY <1>1, <1>3 DEF SourceIInv, Emptied
  <1>10. Once'
    BY <1>1, <1>4, <1>5, <1>6 DEF SourceIInv, Once, SourceTypeOK
  <1>11. Accounted'
    BY <1>1, <1>5, <1>6 DEF SourceIInv, Accounted
  <1>12. Counted'
    <2>1. /\ IsFiniteSet(used) /\ Cardinality(used) \in Nat
          /\ IsFiniteSet(used') /\ Cardinality(used') = Cardinality(used) + 1
      BY <1>1, FS_AddElement, FS_CardinalityType DEF SourceIInv, Counted
    <2> QED BY <1>1, <1>2, <2>1 DEF SourceIInv, Counted
  <1> QED BY <1>7, <1>8, <1>9, <1>10, <1>11, <1>12 DEF SourceIInv

(* disconnect finds the slot under its id, or nothing.                         *)
LEMMA DisconnectKeeps ==
    ASSUME SourceIInv, NEW s \in Slot, Disconnect(s)
    PROVE  SourceIInv'
  <1>1. /\ s \in DOMAIN id_
        /\ DOMAIN id_' = DOMAIN id_ \ {s} /\ \A c \in DOMAIN id_' : id_'[c] = id_[c]
        /\ DOMAIN slots_' = DOMAIN slots_ \ {id_[s]}
        /\ \A i \in DOMAIN slots_' : slots_'[i] = slots_[i]
        /\ off' = IF id_[s] \in DOMAIN slots_ THEN off \cup {s} ELSE off
        /\ UNCHANGED <<next_id_, frames, calls, stops, armed, used, threw>>
    BY DEF Disconnect, disconnect, Restrict
  <1>2. id_[s] \in DOMAIN slots_ <=> Kept(s)
    BY <1>1 DEF SourceIInv, Named, Kept
  <1>3. Kept(s) => calls[s] = 0 /\ s \in used /\ ~Due(s) /\ stops = 0 /\ armed = {}
    BY DEF SourceIInv, Once, Emptied, SourceTypeOK, Kept
  <1>4. \A t : Kept(t)' <=> Kept(t) /\ t # s
    BY <1>1 DEF SourceIInv, Named, Kept
  <1>5. (\A k : Rest(k)' = Rest(k)) /\ (\A t : Due(t)' <=> Due(t))
    BY <1>1 DEF Rest, Due
  <1>6. SourceTypeOK'
    BY <1>1, <1>2, <1>3 DEF SourceIInv, SourceTypeOK, Range
  <1>7. Named'
    BY <1>1 DEF SourceIInv, Named
  <1>8. Emptied'
    BY <1>1 DEF SourceIInv, Emptied, stopped
  <1>9. Once'
    BY <1>1, <1>2, <1>3, <1>4, <1>5 DEF SourceIInv, Once
  <1>10. Accounted'
    BY <1>1, <1>2, <1>3, <1>4, <1>5 DEF SourceIInv, Accounted
  <1>11. Counted'
    BY <1>1 DEF SourceIInv, Counted
  <1> QED BY <1>6, <1>7, <1>8, <1>9, <1>10, <1>11 DEF SourceIInv

(* stop takes the slots to the stack.                                          *)
LEMMA StopKeeps ==
    ASSUME SourceIInv, Stop
    PROVE  SourceIInv'
  <1> DEFINE top == Len(frames) + 1
             f == [rest |-> Range(slots_)]
  <1>1. /\ next_id_' = stopped_value /\ frames' = Append(frames, f) /\ slots_' = <<>>
        /\ stops < MaxStops /\ stops' = stops + 1
        /\ armed' = IF stops = 0 THEN Range(slots_) ELSE armed
        /\ UNCHANGED <<id_, calls, used, off, threw>>
    BY DEF Stop, stop
  <1>2. /\ frames \in Seq(Frame) /\ stopped_value \in Nat /\ MaxStops \in Nat
        /\ stops \in Nat /\ stops' \in 1 .. MaxStops /\ Range(slots_) \in SUBSET Slot
    BY <1>1, StopSourceAssumption DEF SourceIInv, SourceTypeOK
  <1>3. f \in Frame /\ ~IsSlot(f) /\ f.rest = Range(slots_)
    BY <1>2, FrameKinds
  <1>4. /\ frames' \in Seq(Frame)
        /\ DOMAIN frames' = DOMAIN frames \cup {top} /\ top \notin DOMAIN frames
        /\ \A k \in DOMAIN frames : frames'[k] = frames[k] /\ Rest(k)' = Rest(k)
        /\ frames'[top] = f
        /\ \A t : Due(t)' <=> Due(t) \/ t \in Range(slots_)
    <2> HIDE DEF f, top
    <2>1. top = Len(frames) + 1
      BY DEF top
    <2> QED BY <1>1, <1>2, <1>3, <2>1, Pushed
  <1>5. \A k \in DOMAIN frames' : k = top => Rest(k)' = Range(slots_)
    BY <1>3, <1>4 DEF Rest
  <1>6. \A t : t \in Range(slots_) <=> Kept(t)
    BY DEF Range, Kept
  <1>7. DOMAIN slots_' = {} /\ \A t : ~Kept(t)'
    BY <1>1 DEF Kept
  <1> HIDE DEF f, top
  <1>8. SourceTypeOK'
    <2>1. next_id_' \in 0..stopped_value /\ stops' \in 0..MaxStops
      BY <1>1, <1>2
    <2>2. armed' \subseteq Slot
      BY <1>1, <1>2 DEF SourceIInv, SourceTypeOK
    <2> QED BY <1>1, <1>4, <1>7, <2>1, <2>2 DEF SourceIInv, SourceTypeOK, Range
  <1>9. Named'
    <2>1. \A s \in DOMAIN id_ : id_[s] \in 0 .. stopped_value
      BY DEF SourceIInv, SourceTypeOK, Range
    <2>2. \A s \in DOMAIN id_' : id_'[s] < next_id_' \/ id_'[s] = stopped_value
      BY <1>1, <1>2, <2>1
    <2> QED BY <1>7, <2>2 DEF Named
  <1>10. Emptied'
    BY <1>1, <1>2, <1>7 DEF Emptied, stopped
  <1>11. Once'
    <2>1. \A t \in Slot : Due(t)' => t \in used' \ off' /\ calls'[t] = 0
      BY <1>1, <1>4, <1>6 DEF SourceIInv, Once
    <2>2. \A j \in DOMAIN frames : Rest(j) \cap Range(slots_) = {}
      BY <1>2, <1>6 DEF SourceIInv, Once, Due
    <2>3. \A j, k \in DOMAIN frames' : j # k => Rest(j)' \cap Rest(k)' = {}
      BY <1>4, <1>5, <2>2 DEF SourceIInv, Once
    <2>4. \A t \in Slot : calls'[t] \in {0, 1} /\ (calls'[t] = 1 => t \in used' \ off')
      BY <1>1 DEF SourceIInv, Once
    <2>5. \A k \in DOMAIN frames' :
            IsSlot(frames'[k]) => calls'[frames'[k].slot] = 1
      BY <1>1, <1>3, <1>4 DEF SourceIInv, Once
    <2> QED BY <1>7, <2>1, <2>3, <2>4, <2>5 DEF Once
  <1>12. Accounted'
    <2>1. armed' \subseteq used' \ off'
      BY <1>1, <1>2, <1>6 DEF SourceIInv, Accounted, Once
    <2> QED BY <1>1, <1>4, <1>6, <2>1 DEF SourceIInv, Accounted
  <1>13. Counted'
    BY <1>1, <1>2 DEF SourceIInv, Counted
  <1> QED BY <1>8, <1>9, <1>10, <1>11, <1>12, <1>13 DEF SourceIInv

(* stop calls the next of its slots.                                           *)
LEMMA StopCallsKeeps ==
    ASSUME SourceIInv, StopCalls
    PROVE  SourceIInv'
  <1> DEFINE n == Len(frames)
  <1>1. /\ frames # <<>> /\ ~IsSlot(frames[n])
        /\ UNCHANGED <<next_id_, slots_, id_, stops, armed, used, off, threw>>
    BY DEF StopCalls, Running, Top
  <1>2. PICK s \in frames[n].rest :
          /\ frames' = Append([frames EXCEPT ![n].rest = @ \ {s}],
                              [slot |-> s, by |-> "stop"])
          /\ calls' = [calls EXCEPT ![s] = @ + 1]
    BY DEF StopCalls, Top
  <1> DEFINE f == [slot |-> s, by |-> "stop"]
             g == [rest |-> frames[n].rest \ {s}]
  <1>3. frames \in Seq(Frame) /\ n \in DOMAIN frames /\ n \in Nat
    BY <1>1 DEF SourceIInv, SourceTypeOK
  <1>4. frames[n] \in Frame /\ frames[n].rest \in SUBSET Slot /\ s \in Slot
    BY <1>1, <1>2, <1>3, FrameKinds
  <1>5. /\ f \in Frame /\ IsSlot(f) /\ f.slot = s
        /\ g \in Frame /\ ~IsSlot(g) /\ g.rest = frames[n].rest \ {s}
    BY <1>4, FrameKinds
  <1>6. [frames[n] EXCEPT !.rest = @ \ {s}] = g
    <2>1. frames[n] \in [rest : SUBSET Slot]
      BY <1>1, <1>4 DEF Frame, IsSlot
    <2> QED BY <2>1, TakenOff
  <1>7. /\ frames' \in Seq(Frame)
        /\ DOMAIN frames' = DOMAIN frames \cup {n + 1} /\ n + 1 \notin DOMAIN frames
        /\ \A k \in DOMAIN frames : k # n => frames'[k] = frames[k]
        /\ frames'[n] = g /\ frames'[n + 1] = f
    <2> DEFINE mid == [frames EXCEPT ![n] = g]
    <2>1. frames' = Append(mid, f)
      BY <1>2, <1>3, <1>6
    <2> HIDE DEF f, g
    <2>2. mid \in Seq(Frame) /\ Len(mid) = n /\ DOMAIN mid = DOMAIN frames
      BY <1>3, <1>5
    <2>3. mid[n] = g /\ \A k \in DOMAIN frames : k # n => mid[k] = frames[k]
      BY <1>3
    <2> HIDE DEF mid
    <2> QED BY <1>3, <1>5, <2>1, <2>2, <2>3
  <1> HIDE DEF f, g
  <1>8. /\ \A k \in DOMAIN frames : k # n => Rest(k)' = Rest(k)
        /\ \A k \in DOMAIN frames' : k = n + 1 => Rest(k)' = {}
        /\ \A k \in DOMAIN frames : k = n => Rest(k)' = Rest(k) \ {s} /\ s \in Rest(k)
    BY <1>1, <1>2, <1>3, <1>5, <1>7 DEF Rest
  <1>9. s \in used \ off /\ calls[s] = 0 /\ ~Kept(s) /\ Due(s)
    BY <1>3, <1>4, <1>8 DEF SourceIInv, Once, Due
  <1>10. \A t : Due(t)' <=> Due(t) /\ t # s
    <2>1. \A k \in DOMAIN frames : k # n => s \notin Rest(k)
      BY <1>3, <1>8 DEF SourceIInv, Once
    <2>2. \A k \in DOMAIN frames' : k = n + 1 \/ k \in DOMAIN frames
      BY <1>7
    <2> QED BY <1>3, <1>7, <1>8, <2>1, <2>2 DEF Due
  <1>11. calls' \in [Slot -> Nat] /\ calls'[s] = 1 /\ \A t \in Slot : t # s => calls'[t] = calls[t]
    BY <1>2, <1>4, <1>9 DEF SourceIInv, SourceTypeOK
  <1>12. \A t : Kept(t)' <=> Kept(t)
    BY <1>1 DEF Kept
  <1>13. stops > 0
    BY <1>1, <1>3 DEF SourceIInv, Emptied, SourceTypeOK
  <1> HIDE DEF n
  <1>14. SourceTypeOK'
    BY <1>1, <1>7, <1>11 DEF SourceIInv, SourceTypeOK
  <1>15. Named' /\ Emptied'
    BY <1>1, <1>13 DEF SourceIInv, Named, Emptied, stopped, SourceTypeOK
  <1>16. Once'
    <2>1. \A t \in Slot : Kept(t)' \/ Due(t)' => t \in used' \ off' /\ calls'[t] = 0
      BY <1>1, <1>9, <1>10, <1>11, <1>12 DEF SourceIInv, Once
    <2>2. \A t \in Slot : ~(Kept(t)' /\ Due(t)')
      BY <1>10, <1>12 DEF SourceIInv, Once
    <2>3. \A k \in DOMAIN frames' : (k \in DOMAIN frames /\ Rest(k)' \subseteq Rest(k)) \/ Rest(k)' = {}
      BY <1>7, <1>8
    <2>4. \A j, k \in DOMAIN frames' : j # k => Rest(j)' \cap Rest(k)' = {}
      BY <2>3 DEF SourceIInv, Once
    <2>5. \A t \in Slot : calls'[t] \in {0, 1} /\ (calls'[t] = 1 => t \in used' \ off')
      BY <1>1, <1>9, <1>11 DEF SourceIInv, Once
    <2>6. \A k \in DOMAIN frames' :
            IsSlot(frames'[k]) => calls'[frames'[k].slot] = 1
      BY <1>3, <1>5, <1>7, <1>11, FrameKinds DEF SourceIInv, Once
    <2> QED BY <2>1, <2>2, <2>4, <2>5, <2>6 DEF Once
  <1>17. Accounted'
    BY <1>1, <1>10, <1>11, <1>12 DEF SourceIInv, Accounted, SourceTypeOK
  <1>18. Counted'
    BY <1>1, <1>13 DEF SourceIInv, Counted
  <1> QED BY <1>14, <1>15, <1>16, <1>17, <1>18 DEF SourceIInv

(* Frames go, by a return or by an exception: what is due in them is lost, and  *)
(* then a slot has thrown.                                                     *)
LEMMA PopKeeps ==
    ASSUME SourceIInv, NEW m \in 0 .. Len(frames), frames' = SubSeq(frames, 1, m),
           threw' \in BOOLEAN,
           ~threw' => ~threw /\ \A k \in DOMAIN frames : k > m => Rest(k) = {},
           DOMAIN id_' \subseteq Slot, \A s \in DOMAIN id_' : id_'[s] \in 0..stopped_value,
           Named', UNCHANGED <<next_id_, slots_, calls, stops, armed, used, off>>
    PROVE  SourceIInv'
  <1>1. frames \in Seq(Frame)
    BY DEF SourceIInv, SourceTypeOK
  <1>2. /\ frames' \in Seq(Frame) /\ DOMAIN frames' = 1 .. m
        /\ DOMAIN frames' \subseteq DOMAIN frames
        /\ \A k \in DOMAIN frames' : frames'[k] = frames[k] /\ Rest(k)' = Rest(k)
        /\ \A s : Due(s)' => Due(s)
    BY <1>1, Popped
  <1>3. \A s : Kept(s)' <=> Kept(s)
    BY DEF Kept
  <1>4. ~threw' => \A s : Due(s) => Due(s)'
    <2>1. \A k \in DOMAIN frames : k > m \/ k \in DOMAIN frames'
      BY <1>1, <1>2
    <2> QED BY <1>2, <2>1 DEF Due
  <1>5. SourceTypeOK'
    BY <1>2 DEF SourceIInv, SourceTypeOK, Range
  <1>6. Emptied'
    BY <1>2 DEF SourceIInv, Emptied, stopped
  <1>7. Once'
    BY <1>2, <1>3 DEF SourceIInv, Once
  <1>8. Accounted'
    BY <1>3, <1>4 DEF SourceIInv, Accounted
  <1>9. Counted'
    BY DEF SourceIInv, Counted
  <1> QED BY <1>5, <1>6, <1>7, <1>8, <1>9 DEF SourceIInv

(* stop returns when it has called all of its slots.                           *)
LEMMA StopReturnsKeeps ==
    ASSUME SourceIInv, StopReturns
    PROVE  SourceIInv'
  <1> DEFINE n == Len(frames)
  <1>1. /\ frames # <<>> /\ ~IsSlot(frames[n]) /\ frames[n].rest = {}
        /\ frames' = SubSeq(frames, 1, n - 1)
        /\ UNCHANGED <<next_id_, slots_, id_, calls, stops, armed, used, off, threw>>
    BY DEF StopReturns, Running, Top, Below
  <1>2. n \in Nat \ {0} /\ n - 1 \in 0 .. n /\ \A k \in DOMAIN frames : k > n - 1 => k = n
    BY <1>1 DEF SourceIInv, SourceTypeOK
  <1>3. \A k \in DOMAIN frames : k > n - 1 => Rest(k) = {}
    BY <1>1, <1>2 DEF Rest
  <1>4. /\ DOMAIN id_' \subseteq Slot /\ \A s \in DOMAIN id_' : id_'[s] \in 0..stopped_value
        /\ threw \in BOOLEAN
    BY <1>1 DEF SourceIInv, SourceTypeOK, Range
  <1>5. Named'
    BY <1>1 DEF SourceIInv, Named
  <1> QED BY <1>1, <1>2, <1>3, <1>4, <1>5, PopKeeps

(* connect returns the connection of a slot that it called: the id in it is     *)
(* stopped_value, under which no slot is kept.                                 *)
LEMMA SlotReturnsKeeps ==
    ASSUME SourceIInv, SlotReturns
    PROVE  SourceIInv'
  <1> DEFINE n == Len(frames)
             s == frames[n].slot
  <1>1. /\ frames # <<>> /\ IsSlot(frames[n])
        /\ frames' = SubSeq(frames, 1, n - 1)
        /\ UNCHANGED <<next_id_, slots_, calls, stops, armed, used, off, threw>>
    BY DEF SlotReturns, Running, Top, Below
  <1>2. \/ id_' = id_
        \/ /\ DOMAIN id_' = DOMAIN id_ \cup {s} /\ id_'[s] = stopped_value
           /\ \A c \in DOMAIN id_ : c # s => id_'[c] = id_[c]
    BY DEF SlotReturns, Top
  <1>3. n \in Nat \ {0} /\ n \in DOMAIN frames /\ n - 1 \in 0 .. n
    BY <1>1 DEF SourceIInv, SourceTypeOK
  <1>4. \A k \in DOMAIN frames : k > n - 1 => Rest(k) = {}
    <2>1. \A k \in DOMAIN frames : k > n - 1 => k = n
      BY <1>3 DEF SourceIInv, SourceTypeOK
    <2> QED BY <1>1, <2>1 DEF Rest
  <1>5. frames[n] \in Frame /\ s \in Slot
    BY <1>1, <1>3, FrameKinds DEF SourceIInv, SourceTypeOK
  <1>6. ~Kept(s)
    BY <1>1, <1>3, <1>5 DEF SourceIInv, Once
  <1>7. stopped_value \in Nat /\ stopped_value \notin DOMAIN slots_ /\ threw \in BOOLEAN
    BY StopSourceAssumption DEF SourceIInv, SourceTypeOK
  <1> HIDE DEF s, n
  <1>8. DOMAIN id_' \subseteq Slot /\ \A c \in DOMAIN id_' : id_'[c] \in 0..stopped_value
    BY <1>2, <1>5, <1>7 DEF SourceIInv, SourceTypeOK, Range
  <1>9. Named'
    BY <1>1, <1>2, <1>6, <1>7 DEF SourceIInv, Named, Kept
  <1> QED BY <1>1, <1>3, <1>4, <1>7, <1>8, <1>9, PopKeeps DEF n

(* A slot throws, and takes with it the frames up to whoever catches.          *)
LEMMA SlotThrowsKeeps ==
    ASSUME SourceIInv, SlotThrows
    PROVE  SourceIInv'
  <1>1. PICK m \in 0 .. (Len(frames) - 1) : frames' = SubSeq(frames, 1, m)
    BY DEF SlotThrows
  <1>2. frames # <<>> /\ threw' = TRUE
        /\ UNCHANGED <<next_id_, slots_, id_, calls, stops, armed, used, off>>
    BY DEF SlotThrows
  <1>3. m \in 0 .. Len(frames)
    BY <1>1, <1>2 DEF SourceIInv, SourceTypeOK
  <1>4. DOMAIN id_' \subseteq Slot /\ \A c \in DOMAIN id_' : id_'[c] \in 0..stopped_value
    BY <1>2 DEF SourceIInv, SourceTypeOK, Range
  <1>5. Named'
    BY <1>2 DEF SourceIInv, Named
  <1> QED BY <1>1, <1>2, <1>3, <1>4, <1>5, PopKeeps

(* Every step keeps the invariant.                                             *)
LEMMA SourceNextKeeps == SourceIInv /\ [SourceNext]_sourcevars => SourceIInv'
  <1> SUFFICES ASSUME SourceIInv, [SourceNext]_sourcevars PROVE SourceIInv'
    OBVIOUS
  <1>1. CASE UNCHANGED sourcevars
    BY <1>1, StopSourceAssumption DEF SourceIInv, SourceTypeOK, Named, Emptied, Once, Accounted, Counted,
                Kept, Rest, Due, sourcevars, stopped
  <1>2. ASSUME NEW s \in Slot, Connect(s) PROVE SourceIInv'
    BY <1>2, ConnectCalls, ConnectKeepsSlot
  <1>3. ASSUME NEW s \in Slot, Disconnect(s) PROVE SourceIInv'
    BY <1>3, DisconnectKeeps
  <1> QED
    BY <1>1, <1>2, <1>3, StopKeeps, StopCallsKeeps, StopReturnsKeeps, SlotReturnsKeeps,
       SlotThrowsKeeps DEF SourceNext

------------------------------------------------------------------------------
(* Theorems.                                                                   *)

(* The invariant holds.                                                        *)
LEMMA AlwaysSourceIInv == SourceSpec => []SourceIInv
  <1> QED BY SourceStarts, SourceNextKeeps, PTL DEF SourceSpec

(* The variables keep their types.                                             *)
THEOREM SourceTypeCorrect == SourceSpec => []SourceTypeOK
  <1>1. SourceIInv => SourceTypeOK
    BY DEF SourceIInv
  <1> QED BY <1>1, AlwaysSourceIInv, PTL

(* However stop, connect and disconnect nest, no slot is called twice, early,   *)
(* or after it was disconnected in time.                                       *)
THEOREM SlotsAreOneShot == SourceSpec => []OneShot
  <1>1. SourceIInv => OneShot
    <2> SUFFICES ASSUME SourceIInv, NEW s \in Slot
                 PROVE  /\ calls[s] <= 1 /\ (s \in off => calls[s] = 0)
                        /\ calls[s] = 1 => stops > 0 \/ Cardinality(used) > stopped_value
      BY DEF OneShot
    <2>1. calls[s] \in {0, 1} /\ (calls[s] = 1 => s \notin off)
      BY DEF SourceIInv, Once
    <2>2. calls[s] <= 1
      BY <2>1
    <2>3. calls[s] = 1 => stops > 0 \/ Cardinality(used) > stopped_value
      BY DEF SourceIInv, Counted
    <2> QED BY <2>1, <2>2, <2>3
  <1> QED BY <1>1, AlwaysSourceIInv, PTL

(* When all calls have returned, and none by an exception, every slot was      *)
(* called that stop found, or that was connected and not disconnected in time. *)
THEOREM NoSlotIsForgotten == SourceSpec => []NoneForgotten
  <1>1. SourceIInv => NoneForgotten
    <2> SUFFICES ASSUME SourceIInv, frames = <<>>, stops > 0, ~threw,
                        NEW s \in armed \cup (used \ off)
                 PROVE  calls[s] = 1
      BY DEF NoneForgotten
    <2>1. ~Due(s) /\ ~Kept(s) /\ s \in used \ off
      BY DEF SourceIInv, Emptied, Accounted, Due, Kept
    <2> QED BY <2>1 DEF SourceIInv, Accounted
  <1> QED BY <1>1, AlwaysSourceIInv, PTL
==============================================================================
