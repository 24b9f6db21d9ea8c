---------------------------- MODULE StorageProofs ----------------------------
(***************************************************************************)
(* Theorems about the types of ewss.hpp that manage storage by hand:       *)
(* ObjectPool, for every number of slots and every set of users, and the   *)
(* vectors, optionals, functions and guards of Lifetimes, for every        *)
(* capacity and every set of values and variables.                         *)
(***************************************************************************)
EXTENDS ObjectPool, Lifetimes, FiniteSetTheorems, SequenceTheorems, TLAPS

-----------------------------------------------------------------------------
(* ObjectPool: the free list is exact in every state; that is what keeps a *)
(* release from writing past its end, and an acquire from giving out a     *)
(* slot that is in use.                                                    *)

(* While a slot is in use the free list has room for it. *)
LEMMA RoomForActive ==
  ASSUME PoolTypeOK, PoolExact, NEW idx \in Slot, slot_active[idx]
  PROVE  free_count < MaxSlots
<1>1. SUFFICES ASSUME free_count = MaxSlots
               PROVE  FALSE
  BY PoolAssumption DEF PoolTypeOK
<1>2. IsFiniteSet(Slot) /\ Cardinality(Slot) = MaxSlots
  <2>1. 0 \in Int /\ MaxSlots - 1 \in Int /\ ~(0 > MaxSlots - 1)
    BY PoolAssumption
  <2>2. IsFiniteSet(0..(MaxSlots - 1)) /\ Cardinality(0..(MaxSlots - 1)) = MaxSlots - 1 - 0 + 1
    BY <2>1, FS_Interval
  <2>3. QED
    BY <2>2, PoolAssumption DEF Slot
<1>3. IsFiniteSet(Slot \ {idx}) /\ Cardinality(Slot \ {idx}) < Cardinality(Slot)
  BY <1>2, FS_RemoveElement, PoolAssumption
<1>4. free_list \in [Slot -> Slot \ {idx}]
  <2>1. \A k \in Slot : free_list[k] # idx
    BY <1>1 DEF PoolExact, FreeSlots, Slot
  <2>2. QED
    BY <2>1 DEF PoolTypeOK
<1>5. PICK j, k \in Slot : j # k /\ free_list[j] = free_list[k]
  BY <1>2, <1>3, <1>4, FS_PigeonHole
<1>6. QED
  BY <1>1, <1>5 DEF PoolExact, Slot

LEMMA TypesStep ==
  ASSUME PoolTypeOK, PoolExact, [PoolNext]_poolVars
  PROVE  PoolTypeOK'
<1>1. CASE UNCHANGED poolVars
  BY <1>1 DEF PoolTypeOK, poolVars
<1>2. CASE ResetPool
  <2>1. slot_active' \in [Slot -> BOOLEAN] /\ misused' \in BOOLEAN
    BY <1>2, Zenon DEF ResetPool, PoolTypeOK
  <2>2. QED
    BY <1>2, <2>1, PoolAssumption DEF ResetPool, PoolTypeOK
<1>3. ASSUME NEW u \in User, Acquire(u)
      PROVE  PoolTypeOK'
  <2>1. free_count - 1 \in Slot /\ free_list[free_count - 1] \in Slot
    BY <1>3, PoolAssumption DEF Acquire, PoolTypeOK, Slot
  <2>2. slot_active' \in [Slot -> BOOLEAN] /\ misused' \in BOOLEAN
    BY <1>3, Zenon DEF Acquire, PoolTypeOK
  <2>3. held' \in [User -> SUBSET Slot]
    BY <1>3, <2>1 DEF Acquire, PoolTypeOK
  <2>4. QED
    BY <1>3, <2>1, <2>2, <2>3, PoolAssumption DEF Acquire, PoolTypeOK
<1>4. ASSUME NEW u \in User, NEW idx \in -1..MaxSlots, Release(u, idx)
      PROVE  PoolTypeOK'
  <2>1. idx \in Slot /\ free_count < MaxSlots
    BY <1>4, RoomForActive DEF Release
  <2>2. slot_active' \in [Slot -> BOOLEAN] /\ misused' \in BOOLEAN
    BY <1>4, Zenon DEF Release, PoolTypeOK
  <2>3. held' \in [User -> SUBSET Slot]
    BY <1>4, <2>1 DEF Release, PoolTypeOK
  <2>4. free_count \in Slot /\ free_count + 1 \in 0..MaxSlots
    BY <2>1, PoolAssumption DEF PoolTypeOK, Slot
  <2>5. free_list' \in [Slot -> Slot] /\ free_count' \in 0..MaxSlots
    BY <1>4, <2>1, <2>4 DEF Release, PoolTypeOK
  <2>6. QED
    BY <2>2, <2>3, <2>5 DEF PoolTypeOK
<1>5. QED
  BY <1>1, <1>2, <1>3, <1>4 DEF PoolNext

LEMMA ExactStep ==
  ASSUME PoolTypeOK, PoolExact, [PoolNext]_poolVars
  PROVE  PoolExact'
<1>1. CASE UNCHANGED poolVars
  BY <1>1 DEF PoolExact, FreeSlots, poolVars
<1>2. CASE ResetPool
  BY <1>2, PoolAssumption DEF ResetPool, PoolExact, FreeSlots, Slot
<1>3. ASSUME NEW u \in User, Acquire(u)
      PROVE  PoolExact'
  <2> DEFINE top == free_count - 1
             idx == free_list[top]
  <2>1. /\ top \in Slot /\ idx \in Slot /\ free_count \in 0..MaxSlots
        /\ 0..(free_count - 1) = 0..(top - 1) \cup {top} /\ top \notin 0..(top - 1)
    <3>1. free_count \in 1..MaxSlots
      BY <1>3, PoolAssumption DEF Acquire, PoolTypeOK
    <3>2. top \in Slot /\ top \in Nat /\ free_count - 1 = top
      BY <3>1, PoolAssumption DEF Slot
    <3>3. idx \in Slot
      BY <3>2 DEF PoolTypeOK
    <3> HIDE DEF top
    <3>4. 0..top = 0..(top - 1) \cup {top} /\ top \notin 0..(top - 1)
      BY <3>2
    <3>5. QED
      BY <3>1, <3>2, <3>3, <3>4
  <2>2. /\ free_count' = top /\ free_list' = free_list
        /\ slot_active' = [slot_active EXCEPT ![idx] = TRUE]
    BY <1>3 DEF Acquire
  <2> HIDE DEF top, idx
  <2>3. \A k \in 0..(top - 1) : free_list[k] # free_list[top]
    BY <2>1 DEF PoolExact
  <2>4. FreeSlots' = FreeSlots \ {idx}
    <3>1. FreeSlots' = {free_list[k] : k \in 0..(top - 1)}
      BY <2>2 DEF FreeSlots
    <3>2. FreeSlots = {free_list[k] : k \in 0..(top - 1)} \cup {free_list[top]}
      BY <2>1 DEF FreeSlots
    <3>3. QED
      BY <2>3, <3>1, <3>2 DEF idx
  <2>5. {s \in Slot : ~slot_active'[s]} = {s \in Slot : ~slot_active[s]} \ {idx}
    BY <2>1, <2>2 DEF PoolTypeOK
  <2>6. \A j, k \in 0..(free_count' - 1) : free_list'[j] = free_list'[k] => j = k
    BY <2>1, <2>2 DEF PoolExact
  <2>7. FreeSlots' = {s \in Slot : ~slot_active'[s]}
    BY <2>4, <2>5 DEF PoolExact
  <2>8. QED
    BY <2>6, <2>7 DEF PoolExact
<1>4. ASSUME NEW u \in User, NEW idx \in -1..MaxSlots, Release(u, idx)
      PROVE  PoolExact'
  <2>1. /\ idx \in Slot /\ slot_active[idx] /\ free_count' = free_count + 1
        /\ free_list' = [free_list EXCEPT ![free_count] = idx]
        /\ slot_active' = [slot_active EXCEPT ![idx] = FALSE]
    BY <1>4 DEF Release
  <2>2. free_count < MaxSlots
    BY <2>1, RoomForActive
  <2>3. /\ free_count \in Slot /\ 0..(free_count - 1) \subseteq Slot
        /\ 0..(free_count' - 1) = 0..(free_count - 1) \cup {free_count}
        /\ free_count \notin 0..(free_count - 1)
    <3>1. free_count \in Nat /\ free_count' - 1 = free_count /\ MaxSlots \in Nat
      BY <2>1, PoolAssumption DEF PoolTypeOK
    <3>2. 0..free_count = 0..(free_count - 1) \cup {free_count}
      BY <3>1
    <3>3. QED
      BY <2>2, <3>1, <3>2 DEF Slot
  <2>4. /\ \A k \in 0..(free_count - 1) : free_list'[k] = free_list[k] /\ free_list[k] # idx
        /\ free_list'[free_count] = idx
    <3>1. \A k \in 0..(free_count - 1) : free_list[k] \in {s \in Slot : ~slot_active[s]}
      BY DEF PoolExact, FreeSlots
    <3>2. \A k \in 0..(free_count - 1) : free_list[k] # idx
      BY <2>1, <3>1
    <3>3. QED
      BY <2>1, <2>3, <3>2 DEF PoolTypeOK
  <2>5. FreeSlots' = FreeSlots \cup {idx}
    <3>1. FreeSlots' = {free_list'[k] : k \in 0..(free_count - 1)} \cup {idx}
      BY <2>3, <2>4 DEF FreeSlots
    <3>2. FreeSlots = {free_list'[k] : k \in 0..(free_count - 1)}
      BY <2>4 DEF FreeSlots
    <3>3. QED
      BY <3>1, <3>2
  <2>6. {s \in Slot : ~slot_active'[s]} = {s \in Slot : ~slot_active[s]} \cup {idx}
    BY <2>1 DEF PoolTypeOK
  <2>7. \A j, k \in 0..(free_count' - 1) : free_list'[j] = free_list'[k] => j = k
    BY <2>3, <2>4 DEF PoolExact
  <2>8. QED
    BY <2>5, <2>6, <2>7 DEF PoolExact
<1>5. QED
  BY <1>1, <1>2, <1>3, <1>4 DEF PoolNext

(* Whatever sequence of acquire, release and reset is called, with numbers *)
(* that are out of range, released twice or long given to somebody else:   *)
(* free_list_ has exactly the slots that are not active, each once, and    *)
(* free_count_ stays within the array.                                     *)
THEOREM FreeListExact == PoolSpec => [](PoolTypeOK /\ PoolExact)
<1>1. PoolInit => PoolTypeOK /\ PoolExact
  <2>1. ASSUME PoolInit
        PROVE  PoolTypeOK /\ PoolExact
    <3>1. slot_active \in [Slot -> BOOLEAN] /\ misused \in BOOLEAN
      BY <2>1, Zenon DEF PoolInit
    <3>2. PoolTypeOK
      BY <2>1, <3>1, PoolAssumption DEF PoolInit, PoolTypeOK
    <3>3. PoolExact
      BY <2>1, PoolAssumption DEF PoolInit, PoolExact, FreeSlots, Slot
    <3>4. QED
      BY <3>2, <3>3
  <2>2. QED
    BY <2>1
<1>2. PoolTypeOK /\ PoolExact /\ [PoolNext]_poolVars => (PoolTypeOK /\ PoolExact)'
  BY TypesStep, ExactStep
<1>3. QED
  BY <1>1, <1>2, PTL DEF PoolSpec

LEMMA OwnersStep ==
  ASSUME PoolTypeOK, PoolExact, HeldByOne, [PoolNext]_poolVars
  PROVE  HeldByOne'
<1>1. CASE UNCHANGED poolVars
  BY <1>1 DEF HeldByOne, poolVars
<1>2. CASE ResetPool
  BY <1>2 DEF ResetPool, HeldByOne
<1>3. ASSUME NEW u \in User, Acquire(u), ~misused'
      PROVE  HeldByOne'
  <2> DEFINE idx == free_list[free_count - 1]
  <2>1. free_count - 1 \in 0..(free_count - 1)
    BY <1>3, PoolAssumption DEF Acquire, PoolTypeOK
  <2>2. idx \in Slot /\ ~slot_active[idx]
    BY <2>1 DEF PoolExact, FreeSlots
  <2>3. /\ slot_active' = [slot_active EXCEPT ![idx] = TRUE]
        /\ held' = [held EXCEPT ![u] = held[u] \cup {idx}] /\ ~misused
    BY <1>3 DEF Acquire
  <2> HIDE DEF idx
  <2>4. \A v \in User : idx \notin held[v]
    BY <2>2, <2>3 DEF HeldByOne
  <2>5. \A v \in User : held'[v] = IF v = u THEN held[v] \cup {idx} ELSE held[v]
    BY <2>3 DEF PoolTypeOK
  <2>6. \A v, w \in User : v # w => held'[v] \cap held'[w] = {}
    BY <2>3, <2>4, <2>5 DEF HeldByOne
  <2>7. ASSUME NEW s \in Slot
        PROVE  slot_active'[s] <=> \E v \in User : s \in held'[v]
    <3>1. CASE s = idx
      BY <2>2, <2>3, <2>5, <3>1 DEF PoolTypeOK
    <3>2. CASE s # idx
      BY <2>2, <2>3, <2>5, <3>2 DEF PoolTypeOK, HeldByOne
    <3>3. QED
      BY <3>1, <3>2
  <2>8. QED
    BY <2>6, <2>7 DEF HeldByOne
<1>4. ASSUME NEW u \in User, NEW idx \in -1..MaxSlots, Release(u, idx), ~misused'
      PROVE  HeldByOne'
  <2>1. /\ idx \in Slot /\ idx \in held[u] /\ ~misused
        /\ slot_active' = [slot_active EXCEPT ![idx] = FALSE]
        /\ held' = [held EXCEPT ![u] = held[u] \ {idx}]
    BY <1>4 DEF Release
  <2>2. \A v \in User : held'[v] = IF v = u THEN held[v] \ {idx} ELSE held[v]
    BY <2>1 DEF PoolTypeOK
  <2>3. \A v \in User : idx \notin held'[v]
    BY <2>1, <2>2 DEF HeldByOne
  <2>4. \A v, w \in User : v # w => held'[v] \cap held'[w] = {}
    BY <2>1, <2>2 DEF HeldByOne
  <2>5. ASSUME NEW s \in Slot
        PROVE  slot_active'[s] <=> \E v \in User : s \in held'[v]
    <3>1. CASE s = idx
      BY <2>1, <2>3, <3>1 DEF PoolTypeOK
    <3>2. CASE s # idx
      BY <2>1, <2>2, <3>2 DEF PoolTypeOK, HeldByOne
    <3>3. QED
      BY <3>1, <3>2
  <2>6. QED
    BY <2>4, <2>5 DEF HeldByOne
<1>5. CASE misused'
  BY <1>5 DEF HeldByOne
<1>6. QED
  BY <1>1, <1>2, <1>3, <1>4, <1>5 DEF PoolNext

(* As long as nobody releases a slot that another user holds, a slot that  *)
(* acquire returns is never in use, and is in use until it is released.    *)
THEOREM SlotsHaveOneOwner == PoolSpec => []HeldByOne
<1>1. PoolInit => HeldByOne
  BY DEF PoolInit, HeldByOne
<1>2. PoolTypeOK /\ PoolExact /\ HeldByOne /\ [PoolNext]_poolVars => HeldByOne'
  BY OwnersStep
<1>3. QED
  BY <1>1, <1>2, FreeListExact, PTL DEF PoolSpec

-----------------------------------------------------------------------------
(* FixedVector: a vector v, beside the sequence s that it should be. *)

Index == 0..(Capacity - 1)

Content == Value \cup {"Raw", "Moved", "Broken"}

Vector == [at : [Index -> Content], size : 0..Capacity]

VecIs(v, s) ==
  /\ v \in Vector /\ s \in Seq(Value)
  /\ v.size = Len(s)
  /\ \A k \in Index : v.at[k] = IF k < v.size THEN s[k + 1] ELSE "Raw"

LEMMA Marks ==
  /\ Capacity \in Nat \ {0}
  /\ "Raw" \notin Value /\ "Moved" \notin Value /\ "Broken" \notin Value
BY LifetimesAssumption

LEMMA VecFacts ==
  ASSUME NEW v, NEW s, VecIs(v, s)
  PROVE  /\ v.size \in Nat /\ v.size <= Capacity /\ Len(s) = v.size /\ s \in Seq(Value)
         /\ v.at \in [Index -> Content] /\ v = [at |-> v.at, size |-> v.size]
         /\ \A k \in 1..v.size : s[k] \in Value
         /\ \A k \in Index : k < v.size => v.at[k] = s[k + 1] /\ v.at[k] \in Value
         /\ \A k \in Index : ~(k < v.size) => v.at[k] = "Raw"
<1>1. v \in Vector /\ s \in Seq(Value) /\ v.size = Len(s)
  BY DEF VecIs
<1>2. v.size \in 0..Capacity /\ v.at \in [Index -> Content] /\ v = [at |-> v.at, size |-> v.size]
  BY <1>1 DEF Vector
<1>3. v.size \in Nat /\ v.size <= Capacity
  BY <1>2, Marks
<1>4. \A k \in 1..v.size : s[k] \in Value
  BY <1>1, ElementOfSeq
<1>5. \A k \in Index : k < v.size => k + 1 \in 1..v.size
  BY <1>3, Marks DEF Index
<1>6. \A k \in Index : k < v.size => v.at[k] = s[k + 1] /\ v.at[k] \in Value
  BY <1>4, <1>5 DEF VecIs
<1>7. \A k \in Index : ~(k < v.size) => v.at[k] = "Raw"
  BY DEF VecIs
<1>8. QED
  BY <1>1, <1>2, <1>3, <1>4, <1>6, <1>7

(* To be a vector, from its parts. *)
LEMMA MakeVec ==
  ASSUME NEW a \in [Index -> Content], NEW n \in 0..Capacity, NEW s \in Seq(Value), Len(s) = n,
         \A k \in Index : k < n => a[k] = s[k + 1],
         \A k \in Index : ~(k < n) => a[k] = "Raw"
  PROVE  VecIs([at |-> a, size |-> n], s)
<1> DEFINE v == [at |-> a, size |-> n]
<1>1. v.at = a /\ v.size = n /\ v \in Vector
  BY DEF Vector
<1> HIDE DEF v
<1>2. QED
  BY <1>1 DEF VecIs, v

LEMMA EmplaceIs ==
  ASSUME NEW v, NEW s, VecIs(v, s), NEW x \in Value
  PROVE  VecIs(emplace_back(v, x), IF Len(s) < Capacity THEN Append(s, x) ELSE s)
<1>0. /\ v.size \in Nat /\ v.size <= Capacity /\ Len(s) = v.size /\ s \in Seq(Value)
      /\ v.at \in [Index -> Content]
      /\ \A k \in Index : k < v.size => v.at[k] = s[k + 1]
      /\ \A k \in Index : ~(k < v.size) => v.at[k] = "Raw"
  BY VecFacts
<1>1. CASE v.size >= Capacity
  <2>1. emplace_back(v, x) = v /\ ~(Len(s) < Capacity)
    BY <1>0, <1>1, Marks DEF emplace_back
  <2>2. QED
    BY <2>1
<1>2. CASE v.size < Capacity
  <2> DEFINE n == v.size
             a == [v.at EXCEPT ![n] = Construct(v.at[n], x)]
             t == Append(s, x)
  <2>1. emplace_back(v, x) = [at |-> a, size |-> n + 1] /\ Len(s) < Capacity
    BY <1>0, <1>2, Marks DEF emplace_back
  <2>2. n \in Index /\ v.at[n] = "Raw" /\ n + 1 \in 0..Capacity
    BY <1>0, <1>2, Marks DEF Index
  <2>3. /\ a \in [Index -> Content]
        /\ \A k \in Index : a[k] = IF k = n THEN x ELSE v.at[k]
    BY <1>0, <2>2 DEF Construct, Content
  <2>4. /\ t \in Seq(Value) /\ Len(t) = n + 1 /\ t[n + 1] = x
        /\ \A k \in 1..n : t[k] = s[k]
    <3>1. s \in Seq(Value) /\ x \in Value /\ Len(s) = v.size
      BY <1>0
    <3>2. QED
      BY ONLY <3>1, AppendProperties
  <2> HIDE DEF a, t, n
  <2>5. ASSUME NEW k \in Index
        PROVE  /\ k < n + 1 => a[k] = t[k + 1]
               /\ ~(k < n + 1) => a[k] = "Raw"
    <3>1. k \in Nat /\ n \in Nat /\ n = v.size
      BY <1>0, Marks DEF Index, n
    <3>2. CASE k < n
      <4>1. k + 1 \in 1..n /\ k # n /\ k < n + 1
        BY <3>1, <3>2
      <4>2. QED
        BY <1>0, <2>3, <2>4, <3>1, <3>2, <4>1
    <3>3. CASE k = n
      BY <2>3, <2>4, <3>1, <3>3
    <3>4. CASE k > n
      <4>1. ~(k < n + 1) /\ k # n /\ ~(k < n)
        BY <3>1, <3>4
      <4>2. QED
        BY <1>0, <2>3, <3>1, <4>1
    <3>5. QED
      BY <3>1, <3>2, <3>3, <3>4
  <2>6. VecIs([at |-> a, size |-> n + 1], t)
    BY <2>2, <2>3, <2>4, <2>5, MakeVec
  <2>7. QED
    BY <2>1, <2>6 DEF t
<1>3. QED
  BY <1>0, <1>1, <1>2, Marks

(* The sequence without its last element. *)
LEMMA FrontIs ==
  ASSUME NEW s \in Seq(Value), s # <<>>
  PROVE  /\ Len(s) \in Nat \ {0} /\ Front(s) \in Seq(Value) /\ Len(Front(s)) = Len(s) - 1
         /\ \A k \in 1..(Len(s) - 1) : Front(s)[k] = s[k]
         /\ Last(s) = s[Len(s)] /\ Last(s) \in Value
<1> DEFINE n == Len(s)
           t == SubSeq(s, 1, n - 1)
<1>1. n \in Nat \ {0}
  BY EmptySeq
<1>2. \A k \in 1..n : s[k] \in Value
  BY ElementOfSeq
<1>3. /\ t \in Seq(Value) /\ Len(t) = IF 1 <= n - 1 THEN (n - 1) - 1 + 1 ELSE 0
      /\ \A k \in 1..((n - 1) - 1 + 1) : t[k] = s[1 + k - 1]
  <2>1. 1 \in Int /\ n - 1 \in Int /\ \A k \in 1..(n - 1) : s[k] \in Value
    BY <1>1, <1>2
  <2>2. QED
    BY <2>1, SubSeqProperties
<1>4. Front(s) = t /\ Last(s) = s[n]
  BY DEF Front, Last
<1> HIDE DEF t, n
<1>5. Len(t) = n - 1 /\ \A k \in 1..(n - 1) : t[k] = s[k]
  BY <1>1, <1>3
<1>6. s[n] \in Value
  BY <1>1, <1>2
<1>7. QED
  BY <1>1, <1>3, <1>4, <1>5, <1>6 DEF n

LEMMA PopIs ==
  ASSUME NEW v, NEW s, VecIs(v, s)
  PROVE  VecIs(pop_back(v), IF s = <<>> THEN s ELSE Front(s))
<1>0. /\ v.size \in Nat /\ v.size <= Capacity /\ Len(s) = v.size /\ s \in Seq(Value)
      /\ v.at \in [Index -> Content]
      /\ \A k \in Index : k < v.size => v.at[k] = s[k + 1] /\ v.at[k] \in Value
      /\ \A k \in Index : ~(k < v.size) => v.at[k] = "Raw"
  BY VecFacts
<1>1. CASE s = <<>>
  <2>1. v.size = 0
    BY <1>0, <1>1, EmptySeq
  <2>2. pop_back(v) = v
    BY <2>1 DEF pop_back
  <2>3. QED
    BY <1>1, <2>2
<1>2. CASE s # <<>>
  <2> DEFINE n == v.size - 1
             a == [v.at EXCEPT ![n] = Destroy(v.at[n])]
             t == Front(s)
  <2>1. /\ t \in Seq(Value) /\ Len(t) = n /\ v.size # 0
        /\ \A k \in 1..n : t[k] = s[k]
    BY <1>0, <1>2, FrontIs
  <2>2. pop_back(v) = [at |-> a, size |-> n]
    BY <2>1 DEF pop_back
  <2>3. n \in Index /\ n < v.size /\ n \in 0..Capacity /\ n \in Nat /\ v.size = n + 1
    BY <1>0, <2>1, Marks DEF Index
  <2>4. v.at[n] \in Value
    BY <1>0, <2>3
  <2>5. /\ a \in [Index -> Content]
        /\ \A k \in Index : a[k] = IF k = n THEN "Raw" ELSE v.at[k]
    <3>1. Destroy(v.at[n]) = "Raw"
      BY <2>4, Marks DEF Destroy
    <3>2. QED
      BY <1>0, <2>3, <3>1 DEF Content
  <2> HIDE DEF a, t, n
  <2>6. ASSUME NEW k \in Index
        PROVE  /\ k < n => a[k] = t[k + 1]
               /\ ~(k < n) => a[k] = "Raw"
    <3>1. k \in Nat
      BY Marks DEF Index
    <3>2. CASE k < n
      <4>1. k + 1 \in 1..n /\ k # n /\ k < v.size
        BY <2>3, <3>1, <3>2
      <4>2. QED
        BY <1>0, <2>1, <2>5, <3>2, <4>1
    <3>3. CASE ~(k < n)
      <4>1. k = n \/ ~(k < v.size)
        BY <2>3, <3>1, <3>3
      <4>2. QED
        BY <1>0, <2>5, <3>3, <4>1
    <3>4. QED
      BY <3>2, <3>3
  <2>7. VecIs([at |-> a, size |-> n], t)
    BY <2>1, <2>3, <2>5, <2>6, MakeVec
  <2>8. QED
    BY <1>2, <2>2, <2>7 DEF t
<1>3. QED
  BY <1>1, <1>2

LEMMA ClearIs ==
  ASSUME NEW v, NEW s, VecIs(v, s)
  PROVE  VecIs(clear(v), <<>>) /\ VecIs(clear(MovedFrom(v)), <<>>)
<1>0. /\ v.at \in [Index -> Content] /\ v = [at |-> v.at, size |-> v.size]
      /\ \A k \in Index : k < v.size => v.at[k] \in Value
      /\ \A k \in Index : ~(k < v.size) => v.at[k] = "Raw"
  BY VecFacts
<1> DEFINE w == MovedFrom(v)
           a == [k \in DOMAIN v.at |-> IF k < v.size THEN Destroy(v.at[k]) ELSE v.at[k]]
           b == [k \in DOMAIN w.at |-> IF k < w.size THEN Destroy(w.at[k]) ELSE w.at[k]]
<1>1. DOMAIN v.at = Index
  BY <1>0
<1>2. w.at = [k \in Index |-> IF k < v.size THEN "Moved" ELSE v.at[k]] /\ w.size = v.size
  BY <1>0, <1>1 DEF MovedFrom
<1>3. a \in [Index -> Content] /\ \A k \in Index : a[k] = "Raw"
  BY <1>0, <1>1, Marks DEF Destroy, Content
<1> HIDE DEF w
<1>4. b \in [Index -> Content] /\ \A k \in Index : b[k] = "Raw"
  BY <1>0, <1>2 DEF Destroy, Content
<1>5. clear(v) = [at |-> a, size |-> 0] /\ clear(w) = [at |-> b, size |-> 0]
  BY DEF clear
<1> HIDE DEF a, b
<1>6. /\ 0 \in 0..Capacity /\ <<>> \in Seq(Value) /\ Len(<<>>) = 0
      /\ \A k \in Index : ~(k < 0)
  BY Marks, EmptySeq DEF Index
<1>7. VecIs([at |-> a, size |-> 0], <<>>) /\ VecIs([at |-> b, size |-> 0], <<>>)
  BY <1>3, <1>4, <1>6, MakeVec
<1>8. QED
  BY <1>5, <1>7 DEF w

LEMMA FilledIs ==
  ASSUME NEW v, VecIs(v, <<>>), NEW o, NEW t, VecIs(o, t)
  PROVE  VecIs(Filled(v, o), t)
<1>0. /\ o.size \in Nat /\ o.size <= Capacity /\ Len(t) = o.size /\ t \in Seq(Value)
      /\ \A k \in Index : k < o.size => o.at[k] = t[k + 1] /\ o.at[k] \in Value
  BY VecFacts
<1>1. /\ v.size = 0 /\ v.at \in [Index -> Content] /\ \A k \in Index : v.at[k] = "Raw"
  <2>1. v.size = 0 /\ v.at \in [Index -> Content]
    BY VecFacts, EmptySeq
  <2>2. \A k \in Index : ~(k < 0)
    BY Marks DEF Index
  <2>3. QED
    BY <2>1, <2>2, VecFacts
<1> DEFINE n == o.size
           a == [k \in Index |-> IF 0 <= k /\ k < n THEN Construct(v.at[k], o.at[k - 0]) ELSE v.at[k]]
<1>2. Filled(v, o) = [at |-> a, size |-> n]
  <2>1. DOMAIN v.at = Index /\ 0 + o.size = n /\ n <= Capacity
    BY <1>0, <1>1
  <2>2. QED
    BY <1>1, <2>1 DEF Filled
<1>3. \A k \in Index : 0 <= k /\ k - 0 = k
  BY Marks DEF Index
<1>4. /\ a \in [Index -> Content] /\ \A k \in Index : ~(k < n) => a[k] = "Raw"
      /\ \A k \in Index : k < n => a[k] = o.at[k]
  BY <1>0, <1>1, <1>3 DEF Construct, Content
<1> HIDE DEF a
<1>5. n \in 0..Capacity
  BY <1>0, Marks
<1>6. \A k \in Index : k < n => a[k] = t[k + 1]
  BY <1>0, <1>4
<1>7. VecIs([at |-> a, size |-> n], t)
  BY <1>0, <1>4, <1>5, <1>6, MakeVec
<1>8. QED
  BY <1>2, <1>7

(* The last element takes the place of the one that goes. *)
LEMMA SwapIs ==
  ASSUME NEW v, NEW s, VecIs(v, s), NEW i \in Index, i < v.size
  PROVE  LET last == v.size - 1
             at == v.at
             closed == IF i < last THEN [at EXCEPT ![i] = at[last], ![last] = "Moved"] ELSE at
         IN  VecIs(pop_back([v EXCEPT !.at = closed]), Front([s EXCEPT ![i + 1] = Last(s)]))
<1>0. /\ v.size \in Nat /\ v.size <= Capacity /\ Len(s) = v.size /\ s \in Seq(Value)
      /\ v.at \in [Index -> Content] /\ v = [at |-> v.at, size |-> v.size]
      /\ \A k \in Index : k < v.size => v.at[k] = s[k + 1] /\ v.at[k] \in Value
      /\ \A k \in Index : ~(k < v.size) => v.at[k] = "Raw"
  BY VecFacts
<1> DEFINE n == v.size - 1
           closed == IF i < n THEN [v.at EXCEPT ![i] = v.at[n], ![n] = "Moved"] ELSE v.at
           w == [v EXCEPT !.at = closed]
           r == [s EXCEPT ![i + 1] = Last(s)]
           t == Front(r)
           a == [closed EXCEPT ![n] = Destroy(closed[n])]
<1>1. /\ i \in Nat /\ n \in Nat /\ v.size = n + 1 /\ n \in Index /\ i <= n /\ n < v.size
      /\ n \in 0..Capacity /\ i + 1 \in 1..(n + 1) /\ v.size # 0
  BY <1>0, Marks DEF Index
<1>2. s # <<>>
  BY <1>0, <1>1, EmptySeq
<1>3. Last(s) = s[n + 1] /\ Last(s) \in Value
  BY <1>0, <1>1, <1>2, FrontIs
<1>4. /\ r \in Seq(Value) /\ Len(r) = n + 1
      /\ \A k \in 1..(n + 1) : r[k] = IF k = i + 1 THEN s[n + 1] ELSE s[k]
  <2>1. i + 1 \in 1..Len(s)
    BY <1>0, <1>1
  <2>2. /\ r \in Seq(Value) /\ Len(r) = Len(s)
        /\ \A k \in 1..Len(s) : r[k] = IF k = i + 1 THEN Last(s) ELSE s[k]
    BY <1>0, <1>3, <2>1, ExceptSeq
  <2> HIDE DEF r, n
  <2>3. QED
    BY <1>0, <1>1, <1>3, <2>2
<1> HIDE DEF r
<1>5. /\ t \in Seq(Value) /\ Len(t) = n
      /\ \A k \in 1..n : t[k] = r[k]
  <2>1. r # <<>>
    BY <1>1, <1>4, EmptySeq
  <2>2. /\ t \in Seq(Value) /\ Len(t) = Len(r) - 1
        /\ \A k \in 1..(Len(r) - 1) : t[k] = r[k]
    BY <1>4, <2>1, FrontIs
  <2>3. Len(r) - 1 = n
    BY <1>1, <1>4
  <2>4. QED
    BY <2>2, <2>3
<1> HIDE DEF t
<1>6. /\ closed \in [Index -> Content] /\ closed[n] \in Value \cup {"Moved"}
      /\ \A k \in Index : k # n => closed[k] = IF k = i THEN v.at[n] ELSE v.at[k]
  <2>1. v.at[n] \in Value
    BY <1>0, <1>1
  <2>2. CASE i < n
    <3>1. closed = [v.at EXCEPT ![i] = v.at[n], ![n] = "Moved"]
      BY <2>2
    <3>2. \A k \in Index : closed[k] = IF k = n THEN "Moved" ELSE IF k = i THEN v.at[n] ELSE v.at[k]
      BY <1>0, <1>1, <3>1
    <3>3. closed \in [Index -> Content]
      BY <1>0, <1>1, <3>1 DEF Content
    <3> HIDE DEF closed
    <3>4. QED
      BY <1>1, <3>2, <3>3
  <2>3. CASE ~(i < n)
    <3>1. closed = v.at /\ i = n
      BY <1>1, <2>3
    <3>2. QED
      BY <1>0, <1>1, <2>1, <3>1
  <2>4. QED
    BY <2>2, <2>3
<1> HIDE DEF closed
<1>7. w.at = closed /\ w.size = n + 1
  BY <1>0, <1>1
<1>8. pop_back(w) = [at |-> a, size |-> n]
  <2>1. w.size # 0 /\ w.size - 1 = n
    BY <1>1, <1>7
  <2> HIDE DEF w
  <2>2. QED
    BY <1>7, <2>1 DEF pop_back
<1>9. /\ a \in [Index -> Content]
      /\ \A k \in Index : a[k] = IF k = n THEN "Raw" ELSE IF k = i THEN v.at[n] ELSE v.at[k]
  <2>1. Destroy(closed[n]) = "Raw"
    BY <1>6, Marks DEF Destroy
  <2>2. QED
    BY <1>1, <1>6, <2>1 DEF Content
<1> HIDE DEF a
<1>10. ASSUME NEW k \in Index
       PROVE  /\ k < n => a[k] = t[k + 1]
              /\ ~(k < n) => a[k] = "Raw"
  <2>1. k \in Nat
    BY Marks DEF Index
  <2>2. CASE k < n
    <3>1. k + 1 \in 1..n /\ k + 1 \in 1..(n + 1) /\ k # n /\ k < v.size /\ (k + 1 = i + 1 <=> k = i)
      BY <1>1, <2>1, <2>2
    <3>2. t[k + 1] = IF k = i THEN s[n + 1] ELSE s[k + 1]
      BY <1>4, <1>5, <3>1
    <3>3. v.at[n] = s[n + 1] /\ v.at[k] = s[k + 1]
      BY <1>0, <1>1, <3>1
    <3>4. QED
      BY <1>9, <2>2, <3>1, <3>2, <3>3
  <2>3. CASE ~(k < n)
    <3>1. k = n \/ (~(k < v.size) /\ k # i)
      BY <1>1, <2>1, <2>3
    <3>2. QED
      BY <1>0, <1>9, <2>3, <3>1
  <2>4. QED
    BY <2>2, <2>3
<1>11. VecIs([at |-> a, size |-> n], t)
  BY <1>1, <1>5, <1>9, <1>10, MakeVec
<1>12. VecIs(pop_back(w), t)
  BY <1>8, <1>11
<1>13. QED
  BY <1>12 DEF t, r, closed

VectorsAre ==
  /\ vec = [p \in Place |-> vec[p]] /\ content = [p \in Place |-> content[p]]
  /\ \A p \in Place : VecIs(vec[p], content[p])

LEMMA VectorStep ==
  ASSUME VectorsAre, Vectors
  PROVE  VectorsAre'
<1>1. ASSUME NEW p \in Place, NEW v, NEW s, VecIs(v, s),
             vec' = [vec EXCEPT ![p] = v], content' = [content EXCEPT ![p] = s]
      PROVE  VectorsAre'
  <2>1. \A r \in Place : /\ vec'[r] = IF r = p THEN v ELSE vec[r]
                         /\ content'[r] = IF r = p THEN s ELSE content[r]
    BY <1>1 DEF VectorsAre
  <2>2. vec' = [r \in Place |-> vec'[r]] /\ content' = [r \in Place |-> content'[r]]
    BY <1>1 DEF VectorsAre
  <2>3. \A r \in Place : VecIs(vec'[r], content'[r])
    BY <1>1, <2>1 DEF VectorsAre
  <2>4. QED
    BY <2>2, <2>3 DEF VectorsAre
<1>2. ASSUME NEW p \in Place, NEW x \in Value, PushBack(p, x)
      PROVE  VectorsAre'
  <2> DEFINE v == emplace_back(vec[p], x)
             s == IF Len(content[p]) < Capacity THEN Append(content[p], x) ELSE content[p]
  <2>1. vec' = [vec EXCEPT ![p] = v] /\ content' = [content EXCEPT ![p] = s]
    BY <1>2 DEF PushBack
  <2>2. VecIs(v, s)
    BY EmplaceIs DEF VectorsAre
  <2> HIDE DEF v, s
  <2>3. QED
    BY <1>1, <2>1, <2>2
<1>3. ASSUME NEW p \in Place, PopBack(p)
      PROVE  VectorsAre'
  <2> DEFINE v == pop_back(vec[p])
             s == IF content[p] = <<>> THEN content[p] ELSE Front(content[p])
  <2>1. vec' = [vec EXCEPT ![p] = v] /\ content' = [content EXCEPT ![p] = s]
    BY <1>3 DEF PopBack
  <2>2. VecIs(v, s)
    BY PopIs DEF VectorsAre
  <2> HIDE DEF v, s
  <2>3. QED
    BY <1>1, <2>1, <2>2
<1>4. ASSUME NEW p \in Place, NEW q \in Place, CopyVector(p, q) \/ MoveVector(p, q)
      PROVE  VectorsAre'
  <2> DEFINE v == Filled(clear(vec[p]), vec[q])
             u == clear(MovedFrom(vec[q]))
  <2>1. VecIs(v, content[q]) /\ VecIs(u, <<>>)
    BY ClearIs, FilledIs DEF VectorsAre
  <2>2. CASE CopyVector(p, q)
    <3>1. vec' = [vec EXCEPT ![p] = v] /\ content' = [content EXCEPT ![p] = content[q]]
      BY <2>2 DEF CopyVector
    <3> HIDE DEF v, u
    <3>2. QED
      BY <1>1, <2>1, <3>1
  <2>3. CASE MoveVector(p, q)
    <3>1. /\ p # q /\ vec' = [vec EXCEPT ![p] = v, ![q] = u]
          /\ content' = [content EXCEPT ![p] = content[q], ![q] = <<>>]
      BY <2>3 DEF MoveVector, VectorsAre
    <3> HIDE DEF v, u
    <3>2. \A r \in Place :
            /\ vec'[r] = IF r = q THEN u ELSE IF r = p THEN v ELSE vec[r]
            /\ content'[r] = IF r = q THEN <<>> ELSE IF r = p THEN content[q] ELSE content[r]
      BY <3>1 DEF VectorsAre
    <3>3. vec' = [r \in Place |-> vec'[r]] /\ content' = [r \in Place |-> content'[r]]
      BY <3>1 DEF VectorsAre
    <3>4. \A r \in Place : VecIs(vec'[r], content'[r])
      BY <2>1, <3>2 DEF VectorsAre
    <3>5. QED
      BY <3>3, <3>4 DEF VectorsAre
  <2>4. QED
    BY <1>4, <2>2, <2>3
<1>5. ASSUME NEW p \in Place, NEW i \in Index, SwapAndPop(p, i)
      PROVE  VectorsAre'
  <2> DEFINE last == vec[p].size - 1
             at == vec[p].at
             closed == IF i < last THEN [at EXCEPT ![i] = at[last], ![last] = "Moved"] ELSE at
             v == pop_back([vec[p] EXCEPT !.at = closed])
             s == Front([content[p] EXCEPT ![i + 1] = Last(content[p])])
  <2>1. /\ i < vec[p].size /\ vec' = [vec EXCEPT ![p] = v]
        /\ content' = [content EXCEPT ![p] = s]
    BY <1>5 DEF SwapAndPop
  <2>2. VecIs(v, s)
    BY <2>1, SwapIs DEF VectorsAre
  <2> HIDE DEF v, s
  <2>3. QED
    BY <1>1, <2>1, <2>2
<1>6. QED
  BY <1>2, <1>3, <1>4, <1>5 DEF Vectors, Index

(* For every capacity, every element type and every number of vectors: a   *)
(* vector is the sequence it should be, whatever is pushed, popped,        *)
(* copied, moved or swapped out, so no element is lost, constructed over   *)
(* another one or destroyed twice.                                         *)
THEOREM VectorsHold == LifeSpec => []VectorIsSequence
<1>1. LifeInit => VectorsAre
  <2>1. ASSUME LifeInit
        PROVE  VectorsAre
    <3> DEFINE a == [k \in Index |-> "Raw"]
    <3>1. a \in [Index -> Content] /\ \A k \in Index : a[k] = "Raw" /\ ~(k < 0)
      BY Marks DEF Content, Index
    <3>2. vec = [p \in Place |-> [at |-> a, size |-> 0]] /\ content = [p \in Place |-> <<>>]
      BY <2>1 DEF LifeInit, Index
    <3> HIDE DEF a
    <3>3. 0 \in 0..Capacity /\ <<>> \in Seq(Value) /\ Len(<<>>) = 0
      BY Marks, EmptySeq
    <3>4. VecIs([at |-> a, size |-> 0], <<>>)
      BY <3>1, <3>3, MakeVec
    <3>5. QED
      BY <3>2, <3>4 DEF VectorsAre
  <2>2. QED
    BY <2>1
<1>2. VectorsAre /\ [LifeNext]_lifeVars => VectorsAre'
  <2>1. ASSUME VectorsAre, UNCHANGED <<vec, content>>
        PROVE  VectorsAre'
    BY <2>1 DEF VectorsAre
  <2>2. Boxes \/ FunctionsAndGuards \/ UNCHANGED lifeVars => UNCHANGED <<vec, content>>
    BY DEF Boxes, FunctionsAndGuards, lifeVars, AssignBox, CopyBox, MoveBox, StoreFunction,
       ClearFunction, ReleaseGuard, EndGuard, MoveFunction, MakeGuard, MoveGuard
  <2>3. QED
    BY <2>1, <2>2, VectorStep DEF LifeNext
<1>3. VectorsAre => VectorIsSequence
  BY DEF VectorsAre, VecIs, VectorIsSequence, Index
<1>4. QED
  BY <1>1, <1>2, <1>3, PTL DEF LifeSpec

-----------------------------------------------------------------------------
(* optional, expected and FixedFunction: storage beside a flag. *)

Item == [at : Content, has : BOOLEAN]

GoodBox(b) ==
  b \in Item /\ (b.has <=> b.at \in Value \cup {"Moved"}) /\ b.at # "Broken"

(* A function is never moved from: its bytes are relocated. *)
GoodFn(f) == f \in Item /\ (f.has <=> f.at \in Value) /\ f.at \in Value \cup {"Raw"}

LEMMA MakeItem ==
  ASSUME NEW a \in Content, NEW h \in BOOLEAN
  PROVE  LET r == [at |-> a, has |-> h] IN r \in Item /\ r.at = a /\ r.has = h
BY DEF Item

LEMMA AssignedIs ==
  ASSUME NEW b, GoodBox(b), NEW has \in BOOLEAN, NEW x, has => x \in Value \cup {"Moved"}
  PROVE  GoodBox(Assigned(b, has, x))
<1> DEFINE raw == IF b.has THEN Destroy(b.at) ELSE b.at
           a == IF has THEN Construct(raw, x) ELSE raw
<1>1. b.at \in Content /\ b.has \in BOOLEAN
  BY DEF GoodBox, Item
<1>2. raw = "Raw"
  <2>1. CASE b.has
    <3>1. b.at \in Value \cup {"Moved"}
      BY <2>1 DEF GoodBox
    <3>2. Destroy(b.at) = "Raw"
      BY <3>1, Marks DEF Destroy
    <3>3. QED
      BY <2>1, <3>2
  <2>2. CASE ~b.has
    <3>1. b.at = "Raw"
      BY <1>1, <2>2 DEF GoodBox, Content
    <3>2. QED
      BY <2>2, <3>1
  <2>3. QED
    BY <2>1, <2>2
<1> HIDE DEF raw
<1>3. a = IF has THEN x ELSE "Raw"
  BY <1>2 DEF Construct
<1>4. Assigned(b, has, x) = [at |-> a, has |-> has]
  BY DEF Assigned, raw
<1>5. /\ a \in Content /\ a # "Broken" /\ (has <=> a \in Value \cup {"Moved"})
  BY <1>3, Marks DEF Content
<1> HIDE DEF a
<1>6. QED
  BY <1>4, <1>5, MakeItem DEF GoodBox

LEMMA RelocatedIs ==
  ASSUME NEW f, GoodFn(f), NEW g, GoodFn(g)
  PROVE  LET r == Relocated(f, g)
         IN  /\ GoodFn(r) /\ r.has = g.has /\ r.at = IF g.has THEN g.at ELSE "Raw"
<1> DEFINE raw == IF f.has THEN Destroy(f.at) ELSE f.at
           a == IF g.has THEN Construct(raw, g.at) ELSE raw
<1>1. /\ f.at \in Value \cup {"Raw"} /\ (f.has <=> f.at \in Value)
      /\ g.at \in Value \cup {"Raw"} /\ (g.has <=> g.at \in Value) /\ g.has \in BOOLEAN
  BY DEF GoodFn, Item
<1>2. raw = "Raw"
  BY <1>1, Marks DEF Destroy
<1> HIDE DEF raw
<1>3. Relocated(f, g) = [at |-> a, has |-> g.has]
  BY DEF Relocated, raw
<1>4. /\ a = IF g.has THEN g.at ELSE "Raw"
      /\ a \in Content /\ a \in Value \cup {"Raw"} /\ (g.has <=> a \in Value)
  BY <1>1, <1>2, Marks DEF Content, Construct
<1> HIDE DEF a
<1>5. QED
  BY <1>1, <1>3, <1>4, MakeItem DEF GoodFn

LEMMA NoneIs == GoodFn(None) /\ GoodBox(None) /\ None.has = FALSE /\ None.at = "Raw"
<1>1. None \in Item /\ None.has = FALSE /\ None.at = "Raw"
  BY DEF None, Item, Content
<1>2. QED
  BY <1>1, Marks DEF GoodFn, GoodBox

BoxesAre ==
  box = [p \in Place |-> box[p]] /\ \A p \in Place : GoodBox(box[p])

LEMMA BoxStep ==
  ASSUME BoxesAre, Boxes
  PROVE  BoxesAre'
<1>1. ASSUME NEW p \in Place, NEW b, GoodBox(b), box' = [box EXCEPT ![p] = b]
      PROVE  BoxesAre'
  <2>1. \A r \in Place : box'[r] = IF r = p THEN b ELSE box[r]
    BY <1>1 DEF BoxesAre
  <2>2. box' = [r \in Place |-> box'[r]]
    BY <1>1 DEF BoxesAre
  <2>3. QED
    BY <1>1, <2>1, <2>2 DEF BoxesAre
<1>2. ASSUME NEW p \in Place, NEW has \in BOOLEAN, NEW x \in Value, AssignBox(p, has, x)
      PROVE  BoxesAre'
  <2>1. box' = [box EXCEPT ![p] = Assigned(box[p], has, x)]
    BY <1>2 DEF AssignBox
  <2>2. GoodBox(Assigned(box[p], has, x))
    BY AssignedIs DEF BoxesAre
  <2>3. QED
    BY <1>1, <2>1, <2>2
<1>3. ASSUME NEW p \in Place, NEW q \in Place, CopyBox(p, q) \/ MoveBox(p, q)
      PROVE  BoxesAre'
  <2> DEFINE b == Assigned(box[p], box[q].has, box[q].at)
             m == IF box[q].has THEN "Moved" ELSE box[q].at
  <2>1. /\ GoodBox(box[p]) /\ GoodBox(box[q]) /\ box[q].has \in BOOLEAN /\ box[q] \in Item
        /\ box[q].has => box[q].at \in Value \cup {"Moved"}
    BY DEF BoxesAre, GoodBox, Item
  <2>2. GoodBox(b)
    BY <2>1, AssignedIs
  <2> HIDE DEF b
  <2>3. CASE CopyBox(p, q)
    <3>1. box' = [box EXCEPT ![p] = b]
      BY <2>3 DEF CopyBox, b
    <3>2. QED
      BY <1>1, <2>2, <3>1
  <2>4. CASE MoveBox(p, q)
    <3>1. p # q /\ box' = [box EXCEPT ![p] = b, ![q].at = m]
      BY <2>4 DEF MoveBox, BoxesAre, b
    <3> DEFINE c == [box[q] EXCEPT !.at = m]
    <3>2. \A r \in Place : box'[r] = IF r = q THEN c ELSE IF r = p THEN b ELSE box[r]
      BY <3>1 DEF BoxesAre
    <3>3. box' = [r \in Place |-> box'[r]]
      BY <3>1 DEF BoxesAre
    <3>4. m \in Content /\ m # "Broken" /\ (box[q].has <=> m \in Value \cup {"Moved"})
      BY <2>1 DEF GoodBox, Content, Item
    <3> HIDE DEF m
    <3>5. c \in Item /\ c.at = m /\ c.has = box[q].has
      BY <2>1, <3>4 DEF Item
    <3> HIDE DEF c
    <3>6. GoodBox(c)
      BY <3>4, <3>5 DEF GoodBox
    <3>7. QED
      BY <2>2, <3>2, <3>3, <3>6 DEF BoxesAre
  <2>5. QED
    BY <1>3, <2>3, <2>4
<1>4. QED
  BY <1>2, <1>3 DEF Boxes

-----------------------------------------------------------------------------
(* FixedFunction and ScopeGuard: a callable is with one function, with one *)
(* guard, or it has run.                                                   *)

Guards == [alive : BOOLEAN, active : BOOLEAN, cleanup : Item]

HoldersAre ==
  /\ fn = [p \in Place |-> fn[p]] /\ guard = [p \in Place |-> guard[p]]
  /\ \A p \in Place : GoodFn(fn[p]) /\ guard[p] \in Guards /\ GoodFn(guard[p].cleanup)
  /\ ran \in Seq(Value) /\ owed \in SUBSET Value

HeldOnce ==
  /\ \A p, q \in Place : fn[p].at \in Value /\ fn[p].at = fn[q].at => p = q
  /\ \A p, q \in Place :
       guard[p].cleanup.at \in Value /\ guard[p].cleanup.at = guard[q].cleanup.at => p = q
  /\ \A p, q \in Place : fn[p].at \in Value => fn[p].at # guard[q].cleanup.at
  /\ \A p \in Place, k \in DOMAIN ran : ran[k] # fn[p].at /\ ran[k] # guard[p].cleanup.at

(* What is owed is with a guard that will run it. *)
OwedHeld ==
  \A x \in owed : \E p \in Place :
    guard[p].alive /\ guard[p].active /\ guard[p].cleanup.at = x

RanOnce == \A j, k \in DOMAIN ran : ran[j] = ran[k] => j = k

LifeInv == HoldersAre /\ HeldOnce /\ OwedHeld /\ RanOnce

(* A good function is told by its storage alone. *)
LEMMA FnFacts ==
  ASSUME NEW f, GoodFn(f)
  PROVE  /\ f.at \in Value \cup {"Raw"} /\ (f.has <=> f.at \in Value) /\ f.has \in BOOLEAN
         /\ IF f.has THEN f.at \in Value ELSE f.at = "Raw"
         /\ "Raw" \notin Value
BY Marks DEF GoodFn, Item

(* What a step does to the functions alone: the new holders are distinct   *)
(* again, and nothing changes for the guards.                              *)
LEMMA FunctionsOnly ==
  ASSUME LifeInv, UNCHANGED <<guard, owed, ran>>, fn' = [p \in Place |-> fn'[p]],
         \A p \in Place : GoodFn(fn'[p]),
         \A p, q \in Place : fn'[p].at \in Value /\ fn'[p].at = fn'[q].at => p = q,
         \A p \in Place : fn'[p].at \in Value =>
           \/ \E q \in Place : fn'[p].at = fn[q].at
           \/ /\ \A q \in Place : fn'[p].at # guard[q].cleanup.at
              /\ \A k \in DOMAIN ran : ran[k] # fn'[p].at
  PROVE  LifeInv'
<1>1. HoldersAre'
  BY DEF LifeInv, HoldersAre
<1>2. OwedHeld' /\ RanOnce'
  BY DEF LifeInv, OwedHeld, RanOnce
<1>3. \A p, q \in Place : fn'[p].at \in Value => fn'[p].at # guard[q].cleanup.at
  BY DEF LifeInv, HeldOnce
<1>4. \A p \in Place, k \in DOMAIN ran : ran[k] # fn'[p].at
  <2>1. ASSUME NEW p \in Place, NEW k \in DOMAIN ran, ran[k] = fn'[p].at
        PROVE  FALSE
    <3>1. ran[k] \in Value
      BY ElementOfSeq DEF LifeInv, HoldersAre
    <3>2. QED
      BY <2>1, <3>1 DEF LifeInv, HeldOnce
  <2>2. QED
    BY <2>1
<1>5. HeldOnce'
  BY <1>3, <1>4 DEF LifeInv, HeldOnce
<1>6. QED
  BY <1>1, <1>2, <1>5 DEF LifeInv

LEMMA FunctionStep ==
  ASSUME LifeInv, NEW p \in Place,
         \/ \E x \in Value : StoreFunction(p, x)
         \/ ClearFunction(p)
         \/ \E q \in Place : MoveFunction(p, q)
  PROVE  LifeInv'
<1>0. /\ fn = [r \in Place |-> fn[r]] /\ \A r \in Place : GoodFn(fn[r])
      /\ \A r, q \in Place : fn[r].at \in Value /\ fn[r].at = fn[q].at => r = q
  BY DEF LifeInv, HoldersAre, HeldOnce
<1>1. ASSUME NEW x \in Value, StoreFunction(p, x)
      PROVE  LifeInv'
  <2> DEFINE g == [at |-> x, has |-> TRUE]
             f == Relocated(fn[p], g)
  <2>1. /\ fn' = [fn EXCEPT ![p] = f] /\ UNCHANGED <<guard, owed, ran>>
        /\ x \notin Callables /\ ~\E k \in DOMAIN ran : ran[k] = x
    BY <1>1 DEF StoreFunction
  <2>2. GoodFn(g) /\ g.has /\ g.at = x
    <3>1. x \in Content
      BY DEF Content
    <3>2. QED
      BY <3>1, MakeItem DEF GoodFn
  <2> HIDE DEF g
  <2>3. GoodFn(f) /\ f.at = x
    BY <1>0, <2>2, RelocatedIs
  <2> HIDE DEF f
  <2>4. \A r \in Place : fn'[r] = IF r = p THEN f ELSE fn[r]
    BY <1>0, <2>1
  <2>5. \A r \in Place : fn[r].at # x /\ guard[r].cleanup.at # x
    BY <2>1 DEF Callables
  <2>6. fn' = [r \in Place |-> fn'[r]]
    BY <1>0, <2>1
  <2>7. /\ \A r \in Place : GoodFn(fn'[r])
        /\ \A r, q \in Place : fn'[r].at \in Value /\ fn'[r].at = fn'[q].at => r = q
    BY <1>0, <2>3, <2>4, <2>5
  <2>8. ASSUME NEW r \in Place, fn'[r].at \in Value
        PROVE  \/ \E q \in Place : fn'[r].at = fn[q].at
               \/ /\ \A q \in Place : fn'[r].at # guard[q].cleanup.at
                  /\ \A k \in DOMAIN ran : ran[k] # fn'[r].at
    BY <2>1, <2>3, <2>4, <2>5
  <2>9. QED
    BY <2>1, <2>6, <2>7, <2>8, FunctionsOnly
<1>2. ASSUME ClearFunction(p)
      PROVE  LifeInv'
  <2> DEFINE a == IF fn[p].has THEN Destroy(fn[p].at) ELSE fn[p].at
             f == [at |-> a, has |-> FALSE]
  <2>1. fn' = [fn EXCEPT ![p] = f] /\ UNCHANGED <<guard, owed, ran>>
    BY <1>2 DEF ClearFunction
  <2>2. a = "Raw"
    BY <1>0, FnFacts, Marks DEF Destroy
  <2>3. f = None
    BY <2>2 DEF None
  <2> HIDE DEF a, f
  <2>4. \A r \in Place : fn'[r] = IF r = p THEN None ELSE fn[r]
    BY <1>0, <2>1, <2>3
  <2>5. fn' = [r \in Place |-> fn'[r]]
    BY <1>0, <2>1
  <2>6. /\ \A r \in Place : GoodFn(fn'[r])
        /\ \A r, q \in Place : fn'[r].at \in Value /\ fn'[r].at = fn'[q].at => r = q
        /\ \A r \in Place : fn'[r].at \in Value => \E q \in Place : fn'[r].at = fn[q].at
    BY <1>0, <2>4, NoneIs, Marks
  <2>7. QED
    BY <2>1, <2>5, <2>6, FunctionsOnly
<1>3. ASSUME NEW q \in Place, MoveFunction(p, q)
      PROVE  LifeInv'
  <2> DEFINE f == Relocated(fn[p], fn[q])
             g == IF fn[q].has THEN None ELSE fn[q]
  <2>1. /\ p # q /\ fn' = [fn EXCEPT ![p] = f, ![q] = g] /\ UNCHANGED <<guard, owed, ran>>
    BY <1>0, <1>3 DEF MoveFunction
  <2>2. GoodFn(f) /\ f.at = fn[q].at
    BY <1>0, FnFacts, RelocatedIs
  <2>3. GoodFn(g) /\ g.at = "Raw"
    BY <1>0, FnFacts, NoneIs
  <2> HIDE DEF f, g
  <2>4. \A r \in Place : fn'[r] = IF r = q THEN g ELSE IF r = p THEN f ELSE fn[r]
    BY <1>0, <2>1
  <2>5. fn' = [r \in Place |-> fn'[r]]
    BY <1>0, <2>1
  <2>6. \A r \in Place : fn'[r].at = IF r = q THEN "Raw" ELSE IF r = p THEN fn[q].at ELSE fn[r].at
    BY <2>2, <2>3, <2>4
  <2>7. /\ \A r \in Place : GoodFn(fn'[r])
        /\ \A r \in Place : fn'[r].at \in Value => \E s \in Place : fn'[r].at = fn[s].at
    BY <1>0, <2>2, <2>3, <2>4, <2>6, Marks
  <2>8. \A r, s \in Place : fn'[r].at \in Value /\ fn'[r].at = fn'[s].at => r = s
    BY <1>0, <2>1, <2>6, Marks
  <2>9. QED
    BY <2>1, <2>5, <2>7, <2>8, FunctionsOnly
<1>4. QED
  BY <1>1, <1>2, <1>3

(* What a step does to the guards: g is the new one of p.  An owed cleanup *)
(* that is with another guard stays owed.                                  *)
LEMMA GuardStep ==
  ASSUME LifeInv, NEW p \in Place,
         \/ ReleaseGuard(p) \/ EndGuard(p)
         \/ \E q \in Place : MakeGuard(p, q) \/ MoveGuard(p, q)
  PROVE  LifeInv'
<1>0. /\ fn = [r \in Place |-> fn[r]] /\ guard = [r \in Place |-> guard[r]]
      /\ \A r \in Place : GoodFn(fn[r]) /\ guard[r] \in Guards /\ GoodFn(guard[r].cleanup)
      /\ ran \in Seq(Value) /\ owed \in SUBSET Value
  BY DEF LifeInv, HoldersAre
<1>1. /\ \A r, q \in Place : fn[r].at \in Value /\ fn[r].at = fn[q].at => r = q
      /\ \A r, q \in Place :
           guard[r].cleanup.at \in Value /\ guard[r].cleanup.at = guard[q].cleanup.at => r = q
      /\ \A r, q \in Place : fn[r].at \in Value => fn[r].at # guard[q].cleanup.at
      /\ \A r \in Place, k \in DOMAIN ran : ran[k] # fn[r].at /\ ran[k] # guard[r].cleanup.at
  BY DEF LifeInv, HeldOnce
<1>2. \A k \in DOMAIN ran : ran[k] \in Value
  BY <1>0, ElementOfSeq
<1>3. OwedHeld /\ RanOnce /\ "Raw" \notin Value
  BY Marks DEF LifeInv
<1>4. ASSUME NEW q \in Place, MakeGuard(p, q)
      PROVE  LifeInv'
  <2> DEFINE c == Relocated(None, fn[q])
             g == [alive |-> TRUE, active |-> TRUE, cleanup |-> c]
             f == IF fn[q].has THEN None ELSE fn[q]
  <2>1. /\ ~guard[p].alive /\ guard' = [guard EXCEPT ![p] = g] /\ fn' = [fn EXCEPT ![q] = f]
        /\ owed' = owed \cup {x \in Value : fn[q].has /\ fn[q].at = x} /\ ran' = ran
    BY <1>4 DEF MakeGuard
  <2>2. GoodFn(c) /\ c.at = fn[q].at /\ c \in Item
    BY <1>0, FnFacts, RelocatedIs, NoneIs DEF GoodFn
  <2>3. GoodFn(f) /\ f.at = "Raw"
    BY <1>0, FnFacts, NoneIs
  <2> HIDE DEF c, f
  <2>4. g \in Guards /\ g.alive /\ g.active /\ g.cleanup = c
    BY <2>2 DEF Guards
  <2> HIDE DEF g
  <2>5. \A r \in Place : /\ guard'[r] = IF r = p THEN g ELSE guard[r]
                         /\ fn'[r] = IF r = q THEN f ELSE fn[r]
    BY <1>0, <2>1
  <2>6. HoldersAre'
    <3>1. fn' = [r \in Place |-> fn'[r]] /\ guard' = [r \in Place |-> guard'[r]]
      BY <1>0, <2>1
    <3>2. \A r \in Place : GoodFn(fn'[r]) /\ guard'[r] \in Guards /\ GoodFn(guard'[r].cleanup)
      BY <1>0, <2>2, <2>3, <2>4, <2>5
    <3>3. owed' \in SUBSET Value /\ ran' \in Seq(Value)
      BY <1>0, <2>1
    <3>4. QED
      BY <3>1, <3>2, <3>3 DEF HoldersAre
  <2>7. \A r \in Place :
          /\ fn'[r].at = IF r = q THEN "Raw" ELSE fn[r].at
          /\ guard'[r].cleanup.at = IF r = p THEN fn[q].at ELSE guard[r].cleanup.at
    BY <2>2, <2>3, <2>4, <2>5
  <2>8. HeldOnce'
    <3>1. \A r, s \in Place : fn'[r].at \in Value /\ fn'[r].at = fn'[s].at => r = s
      BY <1>1, <1>3, <2>7
    <3>2. \A r, s \in Place :
            guard'[r].cleanup.at \in Value /\ guard'[r].cleanup.at = guard'[s].cleanup.at => r = s
      BY <1>1, <1>3, <2>7
    <3>3. \A r, s \in Place : fn'[r].at \in Value => fn'[r].at # guard'[s].cleanup.at
      BY <1>1, <1>3, <2>7
    <3>4. \A r \in Place, k \in DOMAIN ran : ran[k] # fn'[r].at /\ ran[k] # guard'[r].cleanup.at
      BY <1>1, <1>2, <1>3, <2>7
    <3>5. QED
      BY <2>1, <3>1, <3>2, <3>3, <3>4 DEF HeldOnce
  <2>9. OwedHeld'
    <3>1. ASSUME NEW x \in owed'
          PROVE  \E r \in Place : guard'[r].alive /\ guard'[r].active /\ guard'[r].cleanup.at = x
      <4>1. CASE x \in owed
        <5>1. PICK r \in Place : guard[r].alive /\ guard[r].active /\ guard[r].cleanup.at = x
          BY <1>3, <4>1 DEF OwedHeld
        <5>2. r # p
          BY <2>1, <5>1
        <5>3. QED
          BY <2>5, <5>1, <5>2
      <4>2. CASE x = fn[q].at
        BY <2>4, <2>5, <2>7, <4>2
      <4>3. QED
        BY <2>1, <4>1, <4>2
    <3>2. QED
      BY <3>1 DEF OwedHeld
  <2>10. QED
    BY <1>3, <2>1, <2>6, <2>8, <2>9 DEF LifeInv, RanOnce
<1>5. ASSUME NEW q \in Place, MoveGuard(p, q)
      PROVE  LifeInv'
  <2> DEFINE c == Relocated(None, guard[q].cleanup)
             g == [guard[p] EXCEPT !.alive = TRUE, !.active = guard[q].active, !.cleanup = c]
             h == [guard[q] EXCEPT !.active = FALSE, !.cleanup = None]
  <2>1. ~guard[p].alive /\ guard[q].alive /\ p # q /\ UNCHANGED <<fn, owed, ran>>
    BY <1>5 DEF MoveGuard
  <2>2. guard' = [guard EXCEPT ![p] = g, ![q] = h]
    BY <1>0, <1>5, <2>1 DEF MoveGuard
  <2>3. GoodFn(c) /\ c.at = guard[q].cleanup.at /\ c \in Item /\ None \in Item
    BY <1>0, FnFacts, RelocatedIs, NoneIs DEF GoodFn
  <2> HIDE DEF c
  <2>4. g \in Guards /\ g.alive /\ g.active = guard[q].active /\ g.cleanup = c
    BY <1>0, <2>3 DEF Guards
  <2>5. h \in Guards /\ ~h.active /\ h.cleanup = None
    BY <1>0, <2>3 DEF Guards
  <2> HIDE DEF g, h
  <2>6. \A r \in Place : guard'[r] = IF r = q THEN h ELSE IF r = p THEN g ELSE guard[r]
    BY <1>0, <2>1, <2>2
  <2>7. \A r \in Place : guard'[r].cleanup.at = IF r = q THEN "Raw"
                                                ELSE IF r = p THEN guard[q].cleanup.at
                                                ELSE guard[r].cleanup.at
    BY <2>3, <2>4, <2>5, <2>6, NoneIs
  <2>8. HoldersAre'
    <3>1. fn' = [r \in Place |-> fn'[r]] /\ guard' = [r \in Place |-> guard'[r]]
      BY <1>0, <2>1, <2>2
    <3>2. \A r \in Place : GoodFn(fn'[r]) /\ guard'[r] \in Guards /\ GoodFn(guard'[r].cleanup)
      BY <1>0, <2>1, <2>3, <2>4, <2>5, <2>6, NoneIs
    <3>3. QED
      BY <1>0, <2>1, <3>1, <3>2 DEF HoldersAre
  <2>9. HeldOnce'
    <3>1. \A r, s \in Place :
            guard'[r].cleanup.at \in Value /\ guard'[r].cleanup.at = guard'[s].cleanup.at => r = s
      BY <1>1, <1>3, <2>1, <2>7
    <3>2. \A r, s \in Place : fn[r].at \in Value => fn[r].at # guard'[s].cleanup.at
      BY <1>1, <1>3, <2>7
    <3>3. \A r \in Place, k \in DOMAIN ran : ran[k] # guard'[r].cleanup.at
      BY <1>1, <1>2, <1>3, <2>7
    <3>4. QED
      BY <1>1, <2>1, <3>1, <3>2, <3>3 DEF HeldOnce
  <2>10. OwedHeld'
    <3>1. ASSUME NEW x \in owed
          PROVE  \E r \in Place : guard'[r].alive /\ guard'[r].active /\ guard'[r].cleanup.at = x
      <4>1. PICK r \in Place : guard[r].alive /\ guard[r].active /\ guard[r].cleanup.at = x
        BY <1>3, <3>1 DEF OwedHeld
      <4>2. CASE r = q
        BY <2>1, <2>4, <2>6, <2>7, <4>1, <4>2
      <4>3. CASE r # q
        BY <2>1, <2>6, <4>1, <4>3
      <4>4. QED
        BY <4>2, <4>3
    <3>2. QED
      BY <2>1, <3>1 DEF OwedHeld
  <2>11. QED
    BY <1>3, <2>1, <2>8, <2>9, <2>10 DEF LifeInv, RanOnce
<1>6. ASSUME ReleaseGuard(p)
      PROVE  LifeInv'
  <2> DEFINE g == [guard[p] EXCEPT !.active = FALSE]
  <2>1. /\ guard' = [guard EXCEPT ![p] = g] /\ owed' = owed \ {guard[p].cleanup.at}
        /\ UNCHANGED <<fn, ran>>
    BY <1>0, <1>6 DEF ReleaseGuard
  <2>2. g \in Guards /\ g.cleanup = guard[p].cleanup /\ g.alive = guard[p].alive
    BY <1>0 DEF Guards
  <2> HIDE DEF g
  <2>3. \A r \in Place : /\ guard'[r] = IF r = p THEN g ELSE guard[r]
                         /\ guard'[r].cleanup = guard[r].cleanup
    BY <1>0, <2>1, <2>2
  <2>4. HoldersAre'
    <3>1. fn' = [r \in Place |-> fn'[r]] /\ guard' = [r \in Place |-> guard'[r]]
      BY <1>0, <2>1
    <3>2. \A r \in Place : GoodFn(fn'[r]) /\ guard'[r] \in Guards /\ GoodFn(guard'[r].cleanup)
      BY <1>0, <2>1, <2>2, <2>3
    <3>3. QED
      BY <1>0, <2>1, <3>1, <3>2 DEF HoldersAre
  <2>5. HeldOnce'
    BY <1>1, <2>1, <2>3 DEF HeldOnce
  <2>6. OwedHeld'
    <3>1. ASSUME NEW x \in owed'
          PROVE  \E r \in Place : guard'[r].alive /\ guard'[r].active /\ guard'[r].cleanup.at = x
      <4>1. x \in owed /\ x # guard[p].cleanup.at
        BY <2>1
      <4>2. PICK r \in Place : guard[r].alive /\ guard[r].active /\ guard[r].cleanup.at = x
        BY <1>3, <4>1 DEF OwedHeld
      <4>3. QED
        BY <2>3, <4>1, <4>2
    <3>2. QED
      BY <3>1 DEF OwedHeld
  <2>7. QED
    BY <1>3, <2>1, <2>4, <2>5, <2>6 DEF LifeInv, RanOnce
<1>7. ASSUME EndGuard(p)
      PROVE  LifeInv'
  <2> DEFINE a == guard[p].cleanup.at
             runs == guard[p].active /\ guard[p].cleanup.has
  <2>1. /\ guard' = [guard EXCEPT ![p] = NoGuard] /\ fn' = fn
        /\ ran' = (IF runs THEN Append(ran, a) ELSE ran)
        /\ owed' = owed \ {ran'[k] : k \in DOMAIN ran'}
    BY <1>7 DEF EndGuard
  <2>2. /\ NoGuard \in Guards /\ NoGuard.cleanup = None
    BY NoneIs DEF NoGuard, Guards, GoodFn
  <2>3. \A r \in Place : guard'[r] = IF r = p THEN NoGuard ELSE guard[r]
    BY <1>0, <2>1
  <2>4. \A r \in Place :
          guard'[r].cleanup.at = IF r = p THEN "Raw" ELSE guard[r].cleanup.at
    BY <2>2, <2>3, NoneIs
  <2>5. runs => a \in Value
    BY <1>0, FnFacts
  <2>6. /\ ran' \in Seq(Value)
        /\ \A k \in DOMAIN ran' :
             ran'[k] \in Value /\ (ran'[k] = a \/ \E j \in DOMAIN ran : ran'[k] = ran[j])
        /\ RanOnce'
        /\ runs => \E k \in DOMAIN ran' : ran'[k] = a
    <3> HIDE DEF a, runs
    <3>1. CASE ~runs
      <4>1. ran' = ran
        BY <2>1, <3>1
      <4>2. RanOnce'
        BY <1>3, <4>1 DEF RanOnce
      <4>3. QED
        BY <1>0, <1>2, <3>1, <4>1, <4>2
    <3>2. CASE runs
      <4> DEFINE t == Append(ran, a)
                 n == Len(ran)
      <4>1. a \in Value /\ ran' = t
        BY <2>1, <2>5, <3>2
      <4>2. /\ t \in Seq(Value) /\ Len(t) = n + 1 /\ t[n + 1] = a
            /\ \A k \in 1..n : t[k] = ran[k]
        BY ONLY <1>0, <4>1, AppendProperties
      <4>3. n \in Nat /\ DOMAIN ran = 1..n /\ DOMAIN t = 1..(n + 1)
        BY <1>0, <4>2, LenProperties
      <4> HIDE DEF t, n
      <4>4. \A k \in 1..(n + 1) : k \in 1..n \/ k = n + 1
        BY <4>3
      <4>5. \A k \in DOMAIN ran : ran[k] # a
        BY <1>1 DEF a
      <4>6. RanOnce'
        <5>1. ASSUME NEW j \in DOMAIN t, NEW k \in DOMAIN t, t[j] = t[k]
              PROVE  j = k
          BY <1>3, <4>2, <4>3, <4>4, <4>5, <5>1 DEF RanOnce
        <5>2. QED
          BY <4>1, <5>1 DEF RanOnce
      <4>7. n + 1 \in DOMAIN t
        BY <4>3
      <4>8. ASSUME NEW k \in DOMAIN t
            PROVE  t[k] \in Value /\ (t[k] = a \/ \E j \in DOMAIN ran : t[k] = ran[j])
        BY <1>2, <4>1, <4>2, <4>3, <4>4
      <4>9. \E k \in DOMAIN t : t[k] = a
        BY <4>2, <4>7
      <4>10. QED
        BY <4>1, <4>2, <4>6, <4>8, <4>9
    <3>3. QED
      BY <3>1, <3>2
  <2>7. HoldersAre'
    <3>1. fn' = [r \in Place |-> fn'[r]] /\ guard' = [r \in Place |-> guard'[r]]
      BY <1>0, <2>1
    <3>2. \A r \in Place : GoodFn(fn'[r]) /\ guard'[r] \in Guards /\ GoodFn(guard'[r].cleanup)
      BY <1>0, <2>1, <2>2, <2>3, NoneIs
    <3>3. owed' \in SUBSET Value
      BY <1>0, <2>1
    <3>4. QED
      BY <2>6, <3>1, <3>2, <3>3 DEF HoldersAre
  <2>8. HeldOnce'
    <3>1. \A r, s \in Place :
            guard'[r].cleanup.at \in Value /\ guard'[r].cleanup.at = guard'[s].cleanup.at => r = s
      BY <1>1, <1>3, <2>4
    <3>2. \A r, s \in Place : fn[r].at \in Value => fn[r].at # guard'[s].cleanup.at
      BY <1>1, <1>3, <2>4
    <3>3. ASSUME NEW r \in Place, NEW k \in DOMAIN ran'
          PROVE  ran'[k] # fn[r].at /\ ran'[k] # guard'[r].cleanup.at
      <4>1. ran'[k] \in Value
        BY <2>6
      <4>2. CASE \E j \in DOMAIN ran : ran'[k] = ran[j]
        BY <1>1, <1>3, <2>4, <4>1, <4>2
      <4>3. CASE ran'[k] = a
        BY <1>1, <1>3, <2>4, <4>1, <4>3
      <4>4. QED
        BY <2>6, <4>2, <4>3
    <3>4. QED
      BY <1>1, <2>1, <3>1, <3>2, <3>3 DEF HeldOnce
  <2>9. OwedHeld'
    <3>1. ASSUME NEW x \in owed'
          PROVE  \E r \in Place : guard'[r].alive /\ guard'[r].active /\ guard'[r].cleanup.at = x
      <4>1. x \in owed /\ x \in Value /\ \A k \in DOMAIN ran' : ran'[k] # x
        BY <1>0, <2>1
      <4>2. PICK r \in Place : guard[r].alive /\ guard[r].active /\ guard[r].cleanup.at = x
        BY <1>3, <4>1 DEF OwedHeld
      <4>3. guard[r].cleanup.has
        BY <1>0, <4>1, <4>2, FnFacts
      <4>4. r # p
        BY <2>6, <4>1, <4>2, <4>3
      <4>5. QED
        BY <2>3, <4>2, <4>4
    <3>2. QED
      BY <3>1 DEF OwedHeld
  <2>10. QED
    BY <2>6, <2>7, <2>8, <2>9 DEF LifeInv
<1>8. QED
  BY <1>4, <1>5, <1>6, <1>7

LEMMA LifeInvAlways == LifeSpec => []LifeInv
<1>1. ASSUME LifeInit
      PROVE  LifeInv
  <2>1. /\ fn = [p \in Place |-> None] /\ guard = [p \in Place |-> NoGuard]
        /\ owed = {} /\ ran = <<>>
    BY <1>1 DEF LifeInit
  <2>2. NoGuard \in Guards /\ NoGuard.cleanup = None
    BY NoneIs DEF NoGuard, Guards, GoodFn
  <2>3. ran \in Seq(Value) /\ DOMAIN ran = {}
    BY <2>1, EmptySeq
  <2>4. \A p \in Place : fn[p] = None /\ guard[p] = NoGuard
    BY <2>1
  <2>5. HoldersAre
    <3>1. fn = [p \in Place |-> fn[p]] /\ guard = [p \in Place |-> guard[p]]
      BY <2>1
    <3>2. owed \in SUBSET Value
      BY <2>1
    <3>3. QED
      BY <2>2, <2>3, <2>4, <3>1, <3>2, NoneIs DEF HoldersAre
  <2>6. HeldOnce
    BY <2>2, <2>3, <2>4, NoneIs, Marks DEF HeldOnce
  <2>7. QED
    BY <2>1, <2>3, <2>5, <2>6 DEF LifeInv, OwedHeld, RanOnce
<1>2. LifeInv /\ [LifeNext]_lifeVars => LifeInv'
  <2>1. ASSUME LifeInv, UNCHANGED <<fn, guard, owed, ran>>
        PROVE  LifeInv'
    BY <2>1 DEF LifeInv, HoldersAre, HeldOnce, OwedHeld, RanOnce
  <2>2. Boxes \/ Vectors \/ UNCHANGED lifeVars => UNCHANGED <<fn, guard, owed, ran>>
    BY DEF Boxes, Vectors, lifeVars, AssignBox, CopyBox, MoveBox, PushBack, PopBack,
       CopyVector, MoveVector, SwapAndPop
  <2>3. LifeInv /\ FunctionsAndGuards => LifeInv'
    BY FunctionStep, GuardStep DEF FunctionsAndGuards
  <2>4. QED
    BY <2>1, <2>2, <2>3 DEF LifeNext
<1>3. QED
  BY <1>1, <1>2, PTL DEF LifeSpec

(* For every number of optionals, expecteds and functions: the flag says   *)
(* whether there is an object after any sequence of assignments, copies,   *)
(* moves and resets, nothing is constructed over another object or         *)
(* destroyed twice, and a callable has one owner.                          *)
THEOREM FlagsAgree == LifeSpec => []FlagsMatchObjects
<1>1. LifeInit => BoxesAre
  BY NoneIs DEF LifeInit, BoxesAre
<1>2. BoxesAre /\ [LifeNext]_lifeVars => BoxesAre'
  <2>1. ASSUME BoxesAre, UNCHANGED box
        PROVE  BoxesAre'
    BY <2>1 DEF BoxesAre
  <2>2. Vectors \/ FunctionsAndGuards \/ UNCHANGED lifeVars => UNCHANGED box
    BY DEF Vectors, FunctionsAndGuards, lifeVars, PushBack, PopBack, CopyVector, MoveVector,
       SwapAndPop, StoreFunction, ClearFunction, ReleaseGuard, EndGuard, MoveFunction,
       MakeGuard, MoveGuard
  <2>3. QED
    BY <2>1, <2>2, BoxStep DEF LifeNext
<1>3. BoxesAre /\ LifeInv => FlagsMatchObjects
  <2>1. ASSUME BoxesAre, LifeInv
        PROVE  FlagsMatchObjects
    <3>1. \A p \in Place : GoodFn(fn[p])
      BY <2>1 DEF LifeInv, HoldersAre
    <3>2. \A p \in Place : (box[p].has <=> box[p].at \in Value \cup {"Moved"}) /\ box[p].at # "Broken"
      BY <2>1 DEF BoxesAre, GoodBox
    <3>3. \A p \in Place : (fn[p].has <=> fn[p].at \in Value) /\ fn[p].at # "Broken"
      BY <3>1, FnFacts, Marks
    <3>4. \A p, q \in Place : p # q /\ fn[p].has => fn[p].at # fn[q].at
      BY <2>1, <3>3 DEF LifeInv, HeldOnce
    <3>5. QED
      BY <3>2, <3>3, <3>4 DEF FlagsMatchObjects
  <2>2. QED
    BY <2>1
<1>4. QED
  BY <1>1, <1>2, <1>3, LifeInvAlways, PTL DEF LifeSpec

(* For every number of guards and functions: a cleanup runs at most once   *)
(* and is never forgotten, wherever the guard that carries it was moved.   *)
THEOREM CleanupsOnce == LifeSpec => []CleanupsRunOnce
<1>1. LifeInv => CleanupsRunOnce
  <2>1. ASSUME LifeInv
        PROVE  CleanupsRunOnce
    <3>1. ASSUME NEW x \in owed
          PROVE  \E p \in Place : /\ guard[p].alive /\ guard[p].active
                                  /\ guard[p].cleanup.has /\ guard[p].cleanup.at = x
      <4>1. PICK p \in Place : guard[p].alive /\ guard[p].active /\ guard[p].cleanup.at = x
        BY <2>1 DEF LifeInv, OwedHeld
      <4>2. x \in Value /\ GoodFn(guard[p].cleanup)
        BY <2>1 DEF LifeInv, HoldersAre
      <4>3. QED
        BY <4>1, <4>2, FnFacts
    <3>2. QED
      BY <2>1, <3>1 DEF CleanupsRunOnce, LifeInv, RanOnce
  <2>2. QED
    BY <2>1
<1>2. QED
  BY <1>1, LifeInvAlways, PTL

=============================================================================
