----------------------------- MODULE Lifetimes -----------------------------
(***************************************************************************)
(* The types of ewss.hpp that manage raw storage by hand: FixedVector,     *)
(* optional and expected, FixedFunction and ScopeGuard.  Each keeps a size *)
(* or a flag beside bytes that may or may not hold an object.  A slot is   *)
(* Raw, holds a value, holds an object that was moved from, or is Broken:  *)
(* an object was constructed over another one, or destroyed twice.         *)
(***************************************************************************)
EXTENDS Integers, SequencesExt

CONSTANTS
  Capacity,   \* of a FixedVector
  Value,      \* what is stored
  Place       \* the variables of each type, which are assigned to each other

ASSUME LifetimesAssumption ==
  Capacity \in Nat \ {0} /\ Value \cap {"Raw", "Moved", "Broken"} = {}

VARIABLES
  vec,       \* FixedVectors: storage_ and size_
  content,   \* the sequence each one should be
  box,       \* optional and expected: storage_ and has_value_
  fn,        \* FixedFunctions: storage_, and are invoker_ and destroyer_ set
  guard,     \* ScopeGuards: cleanup_, active_, and does the guard exist
  owed,      \* cleanups that must still run
  ran        \* cleanups that ran, in order

lifeVars == <<vec, content, box, fn, guard, owed, ran>>

Construct(old, new) == IF old = "Raw" THEN new ELSE "Broken"
Destroy(old) == IF old \in {"Raw", "Broken"} THEN "Broken" ELSE "Raw"

None == [at |-> "Raw", has |-> FALSE]
NoGuard == [alive |-> FALSE, active |-> FALSE, cleanup |-> None]

LifeInit ==
  /\ vec = [p \in Place |-> [at |-> [k \in 0..(Capacity - 1) |-> "Raw"], size |-> 0]]
  /\ content = [p \in Place |-> <<>>]
  /\ box = [p \in Place |-> None]
  /\ fn = [p \in Place |-> None]
  /\ guard = [p \in Place |-> NoGuard]
  /\ owed = {} /\ ran = <<>>

-----------------------------------------------------------------------------
(* FixedVector *)

emplace_back(v, x) ==
  IF v.size >= Capacity THEN v
  ELSE [at |-> [v.at EXCEPT ![v.size] = Construct(@, x)], size |-> v.size + 1]

pop_back(v) ==
  IF v.size = 0 THEN v
  ELSE [at |-> [v.at EXCEPT ![v.size - 1] = Destroy(@)], size |-> v.size - 1]

(* Mutant: the size is reset and the elements are left where they are. *)
ClearSizeOnly(v) == [v EXCEPT !.size = 0]

clear(v) ==
  [at |-> [k \in DOMAIN v.at |-> IF k < v.size THEN Destroy(v.at[k]) ELSE v.at[k]],
   size |-> 0]

(* The loop of copying and moving: one emplace_back per element of o, as   *)
(* long as there is room.                                                  *)
Filled(v, o) ==
  LET end == IF v.size + o.size <= Capacity THEN v.size + o.size ELSE Capacity
  IN  [at |-> [k \in DOMAIN v.at |-> IF v.size <= k /\ k < end
                                     THEN Construct(v.at[k], o.at[k - v.size])
                                     ELSE v.at[k]],
       size |-> end]

MovedFrom(v) ==
  [v EXCEPT !.at = [k \in DOMAIN v.at |-> IF k < v.size THEN "Moved" ELSE v.at[k]]]

PushBack(p, x) ==
  /\ vec' = [vec EXCEPT ![p] = emplace_back(@, x)]
  /\ content' = [content EXCEPT ![p] = IF Len(@) < Capacity THEN Append(@, x) ELSE @]
  /\ UNCHANGED <<box, fn, guard, owed, ran>>

PopBack(p) ==
  /\ vec' = [vec EXCEPT ![p] = pop_back(@)]
  /\ content' = [content EXCEPT ![p] = IF @ = <<>> THEN @ ELSE Front(@)]
  /\ UNCHANGED <<box, fn, guard, owed, ran>>

(* Copy assignment; to construct a copy is the same on an empty vector. *)
CopyVector(p, q) ==
  /\ p # q
  /\ vec' = [vec EXCEPT ![p] = Filled(clear(@), vec[q])]
  /\ content' = [content EXCEPT ![p] = content[q]]
  /\ UNCHANGED <<box, fn, guard, owed, ran>>

(* Move assignment and construction: the source is cleared at the end. *)
MoveVector(p, q) ==
  /\ p # q
  /\ vec' = [vec EXCEPT ![p] = Filled(clear(@), vec[q]), ![q] = clear(MovedFrom(@))]
  /\ content' = [content EXCEPT ![p] = content[q], ![q] = <<>>]
  /\ UNCHANGED <<box, fn, guard, owed, ran>>

(* How remove_closed_connections takes out the element at position i. *)
SwapAndPop(p, i) ==
  /\ i < vec[p].size
  /\ LET last == vec[p].size - 1
         at == vec[p].at
         closed == IF i < last THEN [at EXCEPT ![i] = at[last], ![last] = "Moved"] ELSE at
     IN  vec' = [vec EXCEPT ![p] = pop_back([@ EXCEPT !.at = closed])]
  /\ content' = [content EXCEPT ![p] =
                     Front([content[p] EXCEPT ![i + 1] = Last(content[p])])]
  /\ UNCHANGED <<box, fn, guard, owed, ran>>

-----------------------------------------------------------------------------
(* optional and expected: the same steps, in the same order. *)

(* Mutant: the old value is not destroyed. *)
AssignOver(b, has, x) ==
  [at |-> IF has THEN x ELSE b.at, has |-> has]

(* Destroy what is there, take over the flag, construct if it is set. *)
Assigned(b, has, x) ==
  LET raw == IF b.has THEN Destroy(b.at) ELSE b.at
  IN  [at |-> IF has THEN Construct(raw, x) ELSE raw, has |-> has]

(* A value, an error or nothing is assigned; reset() is the latter. *)
AssignBox(p, has, x) ==
  /\ box' = [box EXCEPT ![p] = Assigned(@, has, x)]
  /\ UNCHANGED <<vec, content, fn, guard, owed, ran>>

CopyBox(p, q) ==
  /\ p # q
  /\ box' = [box EXCEPT ![p] = Assigned(@, box[q].has, box[q].at)]
  /\ UNCHANGED <<vec, content, fn, guard, owed, ran>>

(* The source keeps its flag, and an object that was moved from. *)
MoveBox(p, q) ==
  /\ p # q
  /\ box' = [box EXCEPT ![p] = Assigned(@, box[q].has, box[q].at),
                        ![q].at = IF box[q].has THEN "Moved" ELSE @]
  /\ UNCHANGED <<vec, content, fn, guard, owed, ran>>

-----------------------------------------------------------------------------
(* FixedFunction: its bytes are copied, and the source forgets them. *)

Relocated(f, g) ==
  LET raw == IF f.has THEN Destroy(f.at) ELSE f.at
  IN  [at |-> IF g.has THEN Construct(raw, g.at) ELSE raw, has |-> g.has]

Callables == {fn[p].at : p \in Place} \cup {guard[p].cleanup.at : p \in Place}

(* A callable is stored where there was another one, or none. *)
StoreFunction(p, x) ==
  /\ x \notin Callables /\ ~\E k \in DOMAIN ran : ran[k] = x
  /\ fn' = [fn EXCEPT ![p] = Relocated(@, [at |-> x, has |-> TRUE])]
  /\ UNCHANGED <<vec, content, box, guard, owed, ran>>

ClearFunction(p) ==
  /\ fn' = [fn EXCEPT ![p] = [at |-> IF @.has THEN Destroy(@.at) ELSE @.at, has |-> FALSE]]
  /\ UNCHANGED <<vec, content, box, guard, owed, ran>>

MoveFunction(p, q) ==
  /\ p # q
  /\ fn' = [fn EXCEPT ![p] = Relocated(@, fn[q]), ![q] = IF @.has THEN None ELSE @]
  /\ UNCHANGED <<vec, content, box, guard, owed, ran>>

-----------------------------------------------------------------------------
(* ScopeGuard *)

(* A guard takes its cleanup out of the function it is given. *)
MakeGuard(p, q) ==
  /\ ~guard[p].alive
  /\ guard' = [guard EXCEPT ![p] = [alive |-> TRUE, active |-> TRUE,
                                    cleanup |-> Relocated(None, fn[q])]]
  /\ fn' = [fn EXCEPT ![q] = IF @.has THEN None ELSE @]
  /\ owed' = owed \cup {x \in Value : fn[q].has /\ fn[q].at = x}
  /\ UNCHANGED <<vec, content, box, ran>>

(* Mutant: the source of the move stays active. *)
MoveGuardKeepsActive(p, q) ==
  /\ ~guard[p].alive /\ guard[q].alive
  /\ guard' = [guard EXCEPT ![p] = guard[q], ![q].active = TRUE]
  /\ UNCHANGED <<vec, content, box, fn, owed, ran>>

MoveGuard(p, q) ==
  /\ ~guard[p].alive /\ guard[q].alive
  /\ guard' = [guard EXCEPT
       ![p] = [@ EXCEPT !.alive = TRUE, !.active = guard[q].active,
                        !.cleanup = Relocated(None, guard[q].cleanup)],
       ![q] = [@ EXCEPT !.active = FALSE, !.cleanup = None]]
  /\ UNCHANGED <<vec, content, box, fn, owed, ran>>

ReleaseGuard(p) ==
  /\ guard[p].alive
  /\ guard' = [guard EXCEPT ![p].active = FALSE]
  /\ owed' = owed \ {guard[p].cleanup.at}
  /\ UNCHANGED <<vec, content, box, fn, ran>>

(* The destructor runs the cleanup, and then destroys it. *)
EndGuard(p) ==
  /\ guard[p].alive
  /\ ran' = IF guard[p].active /\ guard[p].cleanup.has
            THEN Append(ran, guard[p].cleanup.at) ELSE ran
  /\ owed' = owed \ {ran'[k] : k \in DOMAIN ran'}
  /\ guard' = [guard EXCEPT ![p] = NoGuard]
  /\ UNCHANGED <<vec, content, box, fn>>

Vectors ==
  \E p \in Place :
    \/ \E x \in Value : PushBack(p, x)
    \/ PopBack(p)
    \/ \E q \in Place : CopyVector(p, q) \/ MoveVector(p, q)
    \/ \E i \in 0..(Capacity - 1) : SwapAndPop(p, i)

Boxes ==
  \E p \in Place :
    \/ \E has \in BOOLEAN, x \in Value : AssignBox(p, has, x)
    \/ \E q \in Place : CopyBox(p, q) \/ MoveBox(p, q)

FunctionsAndGuards ==
  \E p \in Place :
    \/ \E x \in Value : StoreFunction(p, x)
    \/ ClearFunction(p) \/ ReleaseGuard(p) \/ EndGuard(p)
    \/ \E q \in Place : MoveFunction(p, q) \/ MakeGuard(p, q) \/ MoveGuard(p, q)

LifeNext == Vectors \/ Boxes \/ FunctionsAndGuards

LifeSpec == LifeInit /\ [][LifeNext]_lifeVars

-----------------------------------------------------------------------------
(* A vector is the sequence it should be: its first size_ slots hold the   *)
(* elements, in order and none of them moved from, and the others are raw. *)
(* So every element is destroyed exactly once, also where the server takes *)
(* one out by swap-and-pop.                                                *)
VectorIsSequence ==
  \A p \in Place :
    /\ vec[p].size = Len(content[p])
    /\ \A k \in 0..(Capacity - 1) :
         vec[p].at[k] = IF k < vec[p].size THEN content[p][k + 1] ELSE "Raw"

(* The flag says whether there is an object, after any sequence of copies, *)
(* moves and resets; and no two functions own the same callable.           *)
FlagsMatchObjects ==
  /\ \A p \in Place : /\ box[p].has <=> box[p].at \in Value \cup {"Moved"}
                      /\ fn[p].has <=> fn[p].at \in Value
  /\ \A p \in Place : box[p].at # "Broken" /\ fn[p].at # "Broken"
  /\ \A p, q \in Place : p # q /\ fn[p].has => fn[p].at # fn[q].at

(* A cleanup runs at most once, however often its guard was moved, and it  *)
(* runs unless it was released: what has not run yet is with a live guard. *)
CleanupsRunOnce ==
  /\ \A j, k \in DOMAIN ran : ran[j] = ran[k] => j = k
  /\ \A x \in owed : \E p \in Place :
       guard[p].alive /\ guard[p].active /\ guard[p].cleanup.has /\ guard[p].cleanup.at = x

=============================================================================
