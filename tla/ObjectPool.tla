---------------------------- MODULE ObjectPool ----------------------------
(***************************************************************************)
(* ObjectPool of ewss.hpp: a stack of free slot numbers and a flag per     *)
(* slot.  The users of a pool hold slot numbers, which they may release    *)
(* more than once, or after the slot has been given to somebody else.      *)
(***************************************************************************)
EXTENDS Integers

CONSTANTS
  MaxSlots,   \* the number of slots
  User        \* who acquires and releases

ASSUME PoolAssumption == MaxSlots \in Nat \ {0}

VARIABLES
  free_list,     \* free_list_: the first free_count entries are the free slots
  free_count,    \* free_count_
  slot_active,   \* slot_active_
  (* History. *)
  held,          \* the slots each user has acquired and not released
  misused        \* a user released a slot that another one holds

poolVars == <<free_list, free_count, slot_active, held, misused>>

Slot == 0..(MaxSlots - 1)

PoolInit ==
  /\ free_list = [s \in Slot |-> s]
  /\ free_count = MaxSlots
  /\ slot_active = [s \in Slot |-> FALSE]
  /\ held = [u \in User |-> {}]
  /\ misused = FALSE

(* A reset takes every slot back. *)
ResetPool ==
  /\ free_list' = [s \in Slot |-> s]
  /\ free_count' = MaxSlots
  /\ slot_active' = [s \in Slot |-> FALSE]
  /\ held' = [u \in User |-> {}]
  /\ UNCHANGED misused

(* Mutant: the slot is marked, but stays on the free list. *)
AcquireKeepsFree(u) ==
  /\ free_count > 0
  /\ LET idx == free_list[free_count - 1]
     IN  /\ slot_active' = [slot_active EXCEPT ![idx] = TRUE]
         /\ held' = [held EXCEPT ![u] = @ \cup {idx}]
  /\ UNCHANGED <<free_list, free_count, misused>>

(* An exhausted pool returns -1 and changes nothing. *)
Acquire(u) ==
  /\ free_count > 0
  /\ free_count' = free_count - 1
  /\ LET idx == free_list[free_count - 1]
     IN  /\ slot_active' = [slot_active EXCEPT ![idx] = TRUE]
         /\ held' = [held EXCEPT ![u] = @ \cup {idx}]
  /\ UNCHANGED <<free_list, misused>>

(* Mutant: a slot that is not active is released too. *)
ReleaseUnchecked(u, idx) ==
  /\ idx \in Slot /\ free_count < MaxSlots
  /\ slot_active' = [slot_active EXCEPT ![idx] = FALSE]
  /\ free_list' = [free_list EXCEPT ![free_count] = idx]
  /\ free_count' = free_count + 1
  /\ held' = [held EXCEPT ![u] = @ \ {idx}]
  /\ misused' = (misused \/ idx \notin held[u])

(* A number out of range, or of a slot that is not active, is ignored. *)
Release(u, idx) ==
  /\ idx \in Slot /\ slot_active[idx]
  /\ slot_active' = [slot_active EXCEPT ![idx] = FALSE]
  /\ free_list' = [free_list EXCEPT ![free_count] = idx]
  /\ free_count' = free_count + 1
  /\ held' = [held EXCEPT ![u] = @ \ {idx}]
  /\ misused' = (misused \/ idx \notin held[u])

PoolNext ==
  \/ ResetPool
  \/ \E u \in User : Acquire(u) \/ \E idx \in -1..MaxSlots : Release(u, idx)

PoolSpec == PoolInit /\ [][PoolNext]_poolVars

-----------------------------------------------------------------------------
FreeSlots == {free_list[k] : k \in 0..(free_count - 1)}

(* Types of the members; the stack of free slots fits its array. *)
PoolTypeOK ==
  /\ free_list \in [Slot -> Slot]
  /\ free_count \in 0..MaxSlots
  /\ slot_active \in [Slot -> BOOLEAN]
  /\ held \in [User -> SUBSET Slot]
  /\ misused \in BOOLEAN

(* Whatever is released, twice, too late or by the wrong user: the free    *)
(* list has every slot that is not active, each of them once.              *)
PoolExact ==
  /\ FreeSlots = {s \in Slot : ~slot_active[s]}
  /\ \A j, k \in 0..(free_count - 1) : free_list[j] = free_list[k] => j = k

(* As long as nobody releases a slot that another user holds, no slot has  *)
(* two holders and the active slots are the held ones.                     *)
HeldByOne ==
  ~misused =>
    /\ \A u, v \in User : u # v => held[u] \cap held[v] = {}
    /\ \A s \in Slot : slot_active[s] <=> \E u \in User : s \in held[u]

=============================================================================
