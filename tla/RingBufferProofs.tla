-------------------------- MODULE RingBufferProofs --------------------------
(***************************************************************************)
(* RingBuffer for every capacity, byte set and sequence of calls: the      *)
(* members stay in range and agree, the iovecs of the zero-copy paths      *)
(* partition the array, and the buffer implements the FIFO ByteQueue.      *)
(***************************************************************************)
EXTENDS RingBuffer, SequenceTheorems, TLAPS

(* The two remainders the indices need: a sum of two indices wraps at most *)
(* once, and a difference of two slots borrows at most once.               *)
LEMMA WrapOnce ==
  ASSUME NEW a \in 0..(2 * Capacity - 1)
  PROVE  a % Capacity = IF a < Capacity THEN a ELSE a - Capacity
BY RingAssumption, SMT

LEMMA BorrowOnce ==
  ASSUME NEW a \in (1 - Capacity)..(Capacity - 1)
  PROVE  a % Capacity = IF a >= 0 THEN a ELSE a + Capacity
BY RingAssumption, SMT

(* A run of n slots read from slot r on is a byte string of length n. *)
LEMMA WindowIsSeq ==
  ASSUME NEW mem \in [Slot -> Byte], NEW r \in Slot, NEW n \in 0..Capacity
  PROVE  LET w == [k \in 1..n |-> mem[(r + k - 1) % Capacity]]
         IN  w \in Seq(Byte) /\ Len(w) = n
<1>1. \A k \in 1..n : (r + k - 1) % Capacity \in Slot
  BY RingAssumption, WrapOnce DEF Slot
<1>2. QED
  BY <1>1, RingAssumption

LEMMA StoredType ==
  ASSUME TypeOK, NEW data \in Seq(Byte)
  PROVE  Stored(data) \in [Slot -> Byte]
<1> SUFFICES ASSUME NEW i \in Slot,
                    (i - write_idx) % Capacity < Len(data)
             PROVE  data[((i - write_idx) % Capacity) + 1] \in Byte
  BY DEF Stored, TypeOK
<1>1. (i - write_idx) % Capacity \in Nat
  BY BorrowOnce, RingAssumption DEF TypeOK, Slot
<1>2. QED
  BY <1>1

(* The bytes an iovec covers are a byte string of the iovec's length. *)
LEMMA SegmentIsSeq ==
  ASSUME NEW mem \in [Slot -> Byte], NEW base \in Slot,
         NEW len \in Nat, base + len <= Capacity
  PROVE  LET w == [k \in 1..len |-> mem[base + k - 1]]
         IN  w \in Seq(Byte) /\ Len(w) = len
BY RingAssumption DEF Slot

LEMMA ContentIsSeq ==
  ASSUME TypeOK
  PROVE  Content \in Seq(Byte) /\ Len(Content) = count
BY WindowIsSeq DEF Content, TypeOK

(* Where the j-th unread byte lies: before or after the wrap. *)
LEMMA ContentAt ==
  ASSUME TypeOK, NEW j \in 1..count
  PROVE  Content[j] = IF j <= Capacity - read_idx
                      THEN buffer[read_idx + j - 1]
                      ELSE buffer[read_idx + j - 1 - Capacity]
<1>1. read_idx \in 0..(Capacity - 1) /\ count \in 0..Capacity /\ j \in 1..Capacity
  BY RingAssumption DEF TypeOK, Slot
<1> DEFINE a == read_idx + j - 1
<1>2. a \in 0..(2 * Capacity - 1)
  BY <1>1, RingAssumption
<1> HIDE DEF a
<1>3. a % Capacity = IF a < Capacity THEN a ELSE a - Capacity
  BY <1>2, WrapOnce
<1>4. QED
  BY <1>1, <1>3, RingAssumption DEF Content, a

(* How many unread bytes a caller with room for n iovecs sees: all of them *)
(* with two iovecs, up to the end of the array with one.                   *)
Exposed(n) ==
  IF n = 0 THEN 0
  ELSE IF n >= 2 \/ Capacity - read_idx >= count THEN count
  ELSE Capacity - read_idx

(* What writev or read_ptr sees is a prefix of the unread bytes. *)
LEMMA GatheredIsPrefix ==
  ASSUME TypeOK, NEW n \in Nat
  PROVE  /\ Exposed(n) \in 0..count
         /\ FillIovec(n) = <<>> <=> Exposed(n) = 0
         /\ Gathered(FillIovec(n)) = [j \in 1..Exposed(n) |-> Content[j]]
<1> DEFINE contiguous == Capacity - read_idx
           iov == FillIovec(n)
<1>0. contiguous \in 1..Capacity /\ count \in 0..Capacity /\ read_idx \in Slot
  BY RingAssumption DEF TypeOK, Slot
<1>1. CASE count = 0 \/ n = 0
  <2>1. iov = <<>> /\ Exposed(n) = 0
    BY <1>0, <1>1 DEF FillIovec, Segments, Exposed
  <2>2. Gathered(iov) = [j \in 1..0 |-> Content[j]]
    BY <2>1 DEF Gathered
  <2>3. QED
    BY <2>1, <2>2, <1>0
<1>2. CASE ~(count = 0 \/ n = 0) /\ contiguous >= count
  <2>1. iov = << [base |-> read_idx, len |-> count] >> /\ Exposed(n) = count
    BY <1>2 DEF FillIovec, Segments, Exposed
  <2>2. \A j \in 1..count : Content[j] = buffer[read_idx + j - 1]
    BY <1>0, <1>2, ContentAt
  <2>3. Gathered(iov) = [j \in 1..count |-> Content[j]]
    BY <2>1, <2>2 DEF Gathered, SegmentBytes
  <2>4. QED
    BY <2>1, <2>3, <1>2, <1>0
<1>3. CASE ~(count = 0 \/ n = 0) /\ contiguous < count /\ n < 2
  <2>1. iov = << [base |-> read_idx, len |-> contiguous] >>
        /\ Exposed(n) = contiguous
    BY <1>3, <1>0 DEF FillIovec, Segments, Exposed
  <2>2. \A j \in 1..contiguous : Content[j] = buffer[read_idx + j - 1]
    BY <1>0, <1>3, ContentAt
  <2>3. Gathered(iov) = [j \in 1..contiguous |-> Content[j]]
    BY <2>1, <2>2 DEF Gathered, SegmentBytes
  <2>4. QED
    BY <2>1, <2>3, <1>3, <1>0
<1>4. CASE ~(count = 0 \/ n = 0) /\ contiguous < count /\ n >= 2
  <2> DEFINE one == [base |-> read_idx, len |-> contiguous]
             two == [base |-> 0, len |-> count - contiguous]
             left == SegmentBytes(one)
             right == SegmentBytes(two)
  <2>1. iov = << one, two >> /\ Exposed(n) = count
    BY <1>4, <1>0 DEF FillIovec, Segments, Exposed
  <2>2. left \in Seq(Byte) /\ Len(left) = contiguous
    BY <1>0, SegmentIsSeq, RingAssumption DEF SegmentBytes, TypeOK, Slot
  <2>3. right \in Seq(Byte) /\ Len(right) = count - contiguous
    BY <1>0, <1>4, SegmentIsSeq, RingAssumption DEF SegmentBytes, TypeOK, Slot
  <2>4. Gathered(iov) = left \o right
    BY <2>1 DEF Gathered
  <2>5. Content \in Seq(Byte) /\ Len(Content) = count
    BY ContentIsSeq
  <2>6. ASSUME NEW j \in 1..contiguous PROVE left[j] = Content[j]
    <3>1. Content[j] = buffer[read_idx + j - 1]
      BY <1>0, <1>4, ContentAt
    <3>2. left[j] = buffer[read_idx + j - 1]
      BY <1>0 DEF SegmentBytes
    <3>3. QED
      BY <3>1, <3>2
  <2>7. ASSUME NEW j \in (contiguous + 1)..count
        PROVE  right[j - contiguous] = Content[j]
    <3>1. Content[j] = buffer[read_idx + j - 1 - Capacity]
      BY <1>0, <1>4, ContentAt
    <3>2. read_idx + j - 1 - Capacity = 0 + (j - contiguous) - 1
      BY <1>0, RingAssumption DEF Slot
    <3>3. right[j - contiguous] = buffer[0 + (j - contiguous) - 1]
      BY <1>0, <1>4 DEF SegmentBytes
    <3>4. QED
      BY <3>1, <3>2, <3>3
  <2>8. left \o right = Content
    <3> HIDE DEF left, right, one, two, contiguous, iov
    <3>0. contiguous \in Int /\ count \in Int
      BY <1>0
    <3>1. left \o right \in Seq(Byte) /\ Len(left \o right) = count
      <4>1. left \o right \in Seq(Byte) /\ Len(left \o right) = Len(left) + Len(right)
        BY <2>2, <2>3, ConcatProperties
      <4>2. QED
        BY <4>1, <2>2, <2>3, <3>0
    <3>2. \A j \in 1..count : (left \o right)[j] = Content[j]
      BY <2>2, <2>3, <2>6, <2>7, <1>0, ConcatProperties
    <3>3. QED
      BY <3>1, <3>2, <2>5, SeqEqual
  <2> HIDE DEF left, right, one, two
  <2>9. Content = [j \in 1..count |-> Content[j]]
    BY DEF Content
  <2>10. QED
    BY <2>1, <2>4, <2>8, <2>9, <1>0, <1>4, SMTT(20)
<1>5. QED
  BY <1>0, <1>1, <1>2, <1>3, <1>4

-----------------------------------------------------------------------------
(* Distance from the write index to the slot of the j-th byte after the    *)
(* read index: unread bytes lie past all the free slots, the bytes a push  *)
(* adds lie right at the write index.                                      *)
LEMMA SlotDistance ==
  ASSUME NEW r \in Slot, NEW c \in 0..Capacity, NEW j \in 1..Capacity
  PROVE  LET w == (r + c) % Capacity
             s == (r + j - 1) % Capacity
         IN  /\ w \in Slot /\ s \in Slot
             /\ (s - w) % Capacity = IF j <= c THEN Capacity - c + j - 1
                                     ELSE j - c - 1
<1> DEFINE a == r + c
           b == r + j - 1
<1>0. r \in 0..(Capacity - 1) /\ Capacity \in Nat \ {0}
  BY RingAssumption DEF Slot
<1>1. a \in 0..(2 * Capacity - 1) /\ b \in 0..(2 * Capacity - 1)
  BY <1>0
<1>2. /\ a % Capacity = IF a < Capacity THEN a ELSE a - Capacity
      /\ b % Capacity = IF b < Capacity THEN b ELSE b - Capacity
  <2> HIDE DEF a, b
  <2>1. QED
    BY <1>1, WrapOnce
<1> DEFINE w == a % Capacity
           s == b % Capacity
<1>3. w \in 0..(Capacity - 1) /\ s \in 0..(Capacity - 1)
  <2> HIDE DEF a, b
  <2>1. QED
    BY <1>0, <1>1, <1>2
<1>4. (s - w) % Capacity = IF s - w >= 0 THEN s - w ELSE s - w + Capacity
  <2> DEFINE d == s - w
  <2> HIDE DEF s, w
  <2>1. d \in (1 - Capacity)..(Capacity - 1)
    BY <1>0, <1>3
  <2> HIDE DEF d
  <2>2. d % Capacity = IF d >= 0 THEN d ELSE d + Capacity
    BY <2>1, BorrowOnce
  <2>3. QED
    BY <2>2 DEF d
<1>5. (IF s - w >= 0 THEN s - w ELSE s - w + Capacity)
        = IF j <= c THEN Capacity - c + j - 1 ELSE j - c - 1
  <2>1. /\ w = IF r + c < Capacity THEN r + c ELSE r + c - Capacity
        /\ s = IF r + j - 1 < Capacity THEN r + j - 1 ELSE r + j - 1 - Capacity
    BY <1>0, <1>2
  <2> HIDE DEF s, w
  <2>2. QED
    BY <1>0, <2>1
<1>6. QED
  BY <1>3, <1>4, <1>5 DEF Slot

(* The members that are numbers. *)
LEMMA Scalars ==
  ASSUME TypeOK
  PROVE  /\ Capacity \in Nat \ {0}
         /\ read_idx \in 0..(Capacity - 1) /\ write_idx \in 0..(Capacity - 1)
         /\ count \in 0..Capacity
<1>1. Capacity \in Nat \ {0}
  BY RingAssumption
<1>2. QED
  BY <1>1 DEF TypeOK, Slot

(* The iovecs of a receive put every byte in the slot a push would. *)
LEMMA ScatteredIsStored ==
  ASSUME TypeOK, NEW data \in Seq(Byte), Len(data) \in 1..Available
  PROVE  Scattered(FillIovecWrite(2), data) = Stored(data)
<1> DEFINE iov == FillIovecWrite(2)
           contiguous == Capacity - write_idx
<1>0. /\ write_idx \in 0..(Capacity - 1) /\ Capacity \in Nat \ {0}
      /\ count \in 0..Capacity /\ Available \in 1..Capacity
      /\ Len(data) \in 1..Available
  BY Scalars DEF Available
<1>1. SUFFICES ASSUME NEW i \in Slot
               PROVE  LET k == (i - write_idx) % Capacity
                      IN  IF k < Len(data) THEN Position(iov, i) = k + 1
                          ELSE Position(iov, i) \notin 1..Len(data)
  <2>1. \A i \in Slot : (i - write_idx) % Capacity \in Nat
    BY BorrowOnce, RingAssumption DEF TypeOK, Slot
  <2>2. ASSUME NEW i \in Slot,
               LET k == (i - write_idx) % Capacity
               IN  IF k < Len(data) THEN Position(iov, i) = k + 1
                   ELSE Position(iov, i) \notin 1..Len(data)
        PROVE  Scattered(iov, data)[i] = Stored(data)[i]
    BY <2>1, <2>2, <1>0 DEF Scattered, Stored
  <2>3. QED
    BY <1>1, <2>2 DEF Scattered, Stored
<1>2. i \in 0..(Capacity - 1)
  BY DEF Slot
<1> DEFINE k == (i - write_idx) % Capacity
<1>3. k = IF i >= write_idx THEN i - write_idx ELSE i - write_idx + Capacity
  <2> DEFINE d == i - write_idx
  <2>1. d \in (1 - Capacity)..(Capacity - 1)
    BY <1>0, <1>2
  <2> HIDE DEF d
  <2>2. d % Capacity = IF d >= 0 THEN d ELSE d + Capacity
    BY <2>1, BorrowOnce
  <2>3. QED
    BY <2>2, <1>0, <1>2 DEF d
<1>4. CASE contiguous >= Available
  <2>1. iov = << [base |-> write_idx, len |-> Available] >>
    BY <1>0, <1>4 DEF FillIovecWrite, Segments
  <2>2. Position(iov, i) = IF i \in write_idx..(write_idx + Available - 1)
                           THEN i - write_idx + 1 ELSE 0
    BY <2>1 DEF Position
  <2> HIDE DEF k, iov
  <2>3. QED
    BY <2>2, <1>0, <1>2, <1>3, <1>4 DEF k
<1>5. CASE contiguous < Available
  <2>1. iov = << [base |-> write_idx, len |-> contiguous],
                 [base |-> 0, len |-> Available - contiguous] >>
    BY <1>0, <1>5 DEF FillIovecWrite, Segments
  <2>2. Position(iov, i) = IF i \in write_idx..(write_idx + contiguous - 1)
                           THEN i - write_idx + 1
                           ELSE IF i \in 0..(Available - contiguous - 1)
                           THEN contiguous + i + 1 ELSE 0
    <3>1. /\ iov[1].base = write_idx /\ iov[1].len = contiguous
          /\ iov[2].base = 0 /\ iov[2].len = Available - contiguous /\ Len(iov) = 2
      BY <2>1
    <3> HIDE DEF iov, contiguous
    <3>2. contiguous \in Int /\ Available \in Int /\ i \in Int /\ write_idx \in Int
      BY <1>0, <1>2 DEF contiguous
    <3>3. QED
      BY <3>1, <3>2 DEF Position
  <2> HIDE DEF k, iov
  <2>3. QED
    BY <2>2, <1>0, <1>2, <1>3, <1>5 DEF k
<1>6. QED
  BY <1>4, <1>5, <1>0

(* Storing data after the unread bytes appends it to them. *)
LEMMA StoredAppends ==
  ASSUME TypeOK, TypeOK', IndicesAgree, NEW data \in Seq(Byte),
         Len(data) <= Available,
         buffer' = Stored(data), read_idx' = read_idx,
         count' = count + Len(data)
  PROVE  Content' = Content \o data
<1>0. /\ read_idx \in Slot /\ count \in 0..Capacity /\ Capacity \in Nat \ {0}
      /\ Len(data) \in Nat /\ count + Len(data) <= Capacity
  BY RingAssumption DEF TypeOK, Available
<1>1. Content \in Seq(Byte) /\ Len(Content) = count
  BY ContentIsSeq
<1>2. Content' \in Seq(Byte) /\ Len(Content') = count + Len(data)
  BY WindowIsSeq DEF Content, TypeOK
<1>3. ASSUME NEW j \in 1..(count + Len(data))
      PROVE  Content'[j] = IF j <= count THEN Content[j] ELSE data[j - count]
  <2> DEFINE s == (read_idx + j - 1) % Capacity
             k == (s - write_idx) % Capacity
  <2>0. j \in 1..Capacity
    BY <1>0
  <2>1. s \in Slot /\ k = IF j <= count THEN Capacity - count + j - 1
                          ELSE j - count - 1
    BY <1>0, <2>0, SlotDistance DEF IndicesAgree
  <2>2. Content'[j] = Stored(data)[s]
    BY <1>0 DEF Content
  <2>3. Stored(data)[s] = IF k < Len(data) THEN data[k + 1] ELSE buffer[s]
    BY <2>1 DEF Stored
  <2>4. j <= count => Content[j] = buffer[s]
    BY <1>0 DEF Content
  <2> HIDE DEF s, k
  <2>5. QED
    BY <1>0, <2>0, <2>1, <2>2, <2>3, <2>4
<1>4. Content \o data \in Seq(Byte) /\ Len(Content \o data) = count + Len(data)
  <2>1. Content \o data \in Seq(Byte)
        /\ Len(Content \o data) = Len(Content) + Len(data)
    BY <1>1, ConcatProperties
  <2>2. QED
    BY <2>1, <1>1
<1>5. \A j \in 1..(count + Len(data)) :
        (Content \o data)[j] = IF j <= count THEN Content[j] ELSE data[j - count]
  BY <1>1, ConcatProperties
<1>6. QED
  BY <1>2, <1>3, <1>4, <1>5, SeqEqual

-----------------------------------------------------------------------------
(* What advance leaves: the bytes after the first n. *)
LEMMA AdvanceDrops ==
  ASSUME TypeOK, TypeOK', NEW n \in 0..count,
         buffer' = buffer, read_idx' = (read_idx + n) % Capacity,
         count' = count - n
  PROVE  Content' = SubSeq(Content, n + 1, count)
<1>0. /\ read_idx \in 0..(Capacity - 1) /\ count \in 0..Capacity
      /\ Capacity \in Nat \ {0} /\ n \in 0..Capacity
  BY RingAssumption DEF TypeOK, Slot
<1>1. Content \in Seq(Byte) /\ Len(Content) = count
  BY ContentIsSeq
<1>2. Content' \in Seq(Byte) /\ Len(Content') = count - n
  <2>1. buffer' \in [Slot -> Byte] /\ read_idx' \in Slot /\ count' \in 0..Capacity
    BY DEF TypeOK
  <2>2. Content' \in Seq(Byte) /\ Len(Content') = count'
    BY <2>1, WindowIsSeq, Zenon DEF Content
  <2>3. QED
    BY <2>2
<1>3. ASSUME NEW j \in 1..(count - n)
      PROVE  Content'[j] = Content[n + j]
  <2> DEFINE a == read_idx + n
             b == read_idx + n + j - 1
             r == a % Capacity
             c == r + j - 1
  <2>1. a \in 0..(2 * Capacity - 1) /\ b \in 0..(2 * Capacity - 1)
    BY <1>0
  <2>2. /\ a % Capacity = IF a < Capacity THEN a ELSE a - Capacity
        /\ b % Capacity = IF b < Capacity THEN b ELSE b - Capacity
    <3> HIDE DEF a, b
    <3>1. QED
      BY <2>1, WrapOnce
  <2>3. r = IF read_idx + n < Capacity THEN read_idx + n ELSE read_idx + n - Capacity
    BY <2>2, <1>0
  <2>4. c \in 0..(2 * Capacity - 1)
    <3> HIDE DEF r
    <3>1. QED
      BY <2>3, <1>0
  <2>5. c % Capacity = IF c < Capacity THEN c ELSE c - Capacity
    <3> HIDE DEF c
    <3>1. QED
      BY <2>4, WrapOnce
  <2>6. c % Capacity = b % Capacity
    <3>1. b % Capacity = IF read_idx + n + j - 1 < Capacity
                         THEN read_idx + n + j - 1
                         ELSE read_idx + n + j - 1 - Capacity
      BY <2>2, <1>0
    <3>2. c % Capacity = IF r + j - 1 < Capacity THEN r + j - 1
                         ELSE r + j - 1 - Capacity
      <4> HIDE DEF r
      <4>1. QED
        BY <2>5, <2>3, <1>0
    <3> DEFINE bb == b % Capacity
               cc == c % Capacity
    <3> HIDE DEF r, bb, cc
    <3>3. bb = cc
      BY <3>1, <3>2, <2>3, <1>0 DEF bb, cc
    <3>4. QED
      BY <3>3 DEF bb, cc
  <2>7. Content'[j] = buffer[c % Capacity]
    BY <1>0 DEF Content
  <2>8. Content[n + j] = buffer[(read_idx + (n + j) - 1) % Capacity]
    BY <1>0 DEF Content
  <2>9. read_idx + (n + j) - 1 = b
    BY <1>0
  <2>10. QED
    BY <2>6, <2>7, <2>8, <2>9
<1>4. /\ SubSeq(Content, n + 1, count) \in Seq(Byte)
      /\ Len(SubSeq(Content, n + 1, count)) = count - n
      /\ \A j \in 1..(count - n) : SubSeq(Content, n + 1, count)[j] = Content[n + j]
  <2> DEFINE rest == SubSeq(Content, n + 1, count)
  <2>1. /\ rest \in Seq(Byte)
        /\ Len(rest) = IF n + 1 <= count THEN count - (n + 1) + 1 ELSE 0
        /\ \A j \in 1..(count - (n + 1) + 1) : rest[j] = Content[n + 1 + j - 1]
    <3>1. \A i \in (n + 1)..count : Content[i] \in Byte
      BY <1>0, <1>1
    <3>2. n + 1 \in Int /\ count \in Int
      BY <1>0
    <3> HIDE DEF rest
    <3>3. QED
      BY <3>1, <3>2, SubSeqProperties DEF rest
  <2> HIDE DEF rest
  <2>2. QED
    BY <2>1, <1>0 DEF rest
<1>5. QED
  BY <1>2, <1>3, <1>4, SeqEqual

-----------------------------------------------------------------------------
(* The three members agree before and after every operation; with the      *)
(* types this is the inductive invariant the other results rest on.        *)
Inv == TypeOK /\ IndicesAgree

LEMMA ReturnedType ==
  ASSUME NEW op \in Operation, NEW n \in Nat, NEW ok \in BOOLEAN,
         NEW data \in Seq(Byte)
  PROVE  Returned(op, n, ok, data) \in Call
BY DEF Returned, Call

(* The calls that hand no bytes back. *)
LEMMA SilentType ==
  /\ Returned("clear", 0, TRUE, <<>>) \in Call
  /\ \A n \in Count : Returned("advance", n, TRUE, <<>>) \in Call
  /\ \A data \in Seq(Byte) : /\ Returned("receive", 0, TRUE, data) \in Call
                            /\ Returned("push", 0, TRUE, data) \in Call
                            /\ Returned("push", 0, FALSE, data) \in Call
<1>1. /\ {"clear", "advance", "receive", "push"} \subseteq Operation
      /\ 0 \in Nat /\ Count \subseteq Nat /\ <<>> \in Seq(Byte)
  BY RingAssumption DEF Operation
<1>2. QED
  BY <1>1, ReturnedType, Zenon

LEMMA InitInv == Init => Inv
<1> SUFFICES ASSUME Init PROVE Inv
  OBVIOUS
<1>1. 0 \in Slot /\ 0 \in 0..Capacity
  BY RingAssumption DEF Slot
<1>2. TypeOK
  BY <1>1, RingAssumption, SilentType DEF Init, TypeOK
<1>3. IndicesAgree
  BY RingAssumption DEF Init, IndicesAgree
<1>4. QED
  BY <1>2, <1>3 DEF Inv

(* Adding len bytes moves the write index so that the members still agree. *)
LEMMA WriteKeepsIndices ==
  ASSUME Inv, NEW len \in 0..Available,
         write_idx' = (write_idx + len) % Capacity,
         read_idx' = read_idx, count' = count + len
  PROVE  write_idx' \in Slot /\ count' \in 0..Capacity /\ IndicesAgree'
<1>0. /\ read_idx \in 0..(Capacity - 1) /\ write_idx \in 0..(Capacity - 1)
      /\ count \in 0..Capacity /\ Capacity \in Nat \ {0}
      /\ len \in 0..Capacity /\ count + len <= Capacity
  BY Scalars DEF Inv, Available
<1> DEFINE a == write_idx + len
           b == read_idx + count
           c == read_idx + (count + len)
<1>1. /\ a \in 0..(2 * Capacity - 1) /\ b \in 0..(2 * Capacity - 1)
      /\ c \in 0..(2 * Capacity - 1)
  BY <1>0
<1>2. /\ a % Capacity = IF a < Capacity THEN a ELSE a - Capacity
      /\ b % Capacity = IF b < Capacity THEN b ELSE b - Capacity
      /\ c % Capacity = IF c < Capacity THEN c ELSE c - Capacity
  <2> HIDE DEF a, b, c
  <2>1. QED
    BY <1>1, WrapOnce
<1>3. write_idx = b % Capacity
  BY DEF Inv, IndicesAgree
<1>4. a % Capacity = c % Capacity /\ a % Capacity \in 0..(Capacity - 1)
  <2> DEFINE aa == a % Capacity
             bb == b % Capacity
             cc == c % Capacity
  <2> HIDE DEF aa, bb, cc
  <2>1. aa = cc /\ aa \in 0..(Capacity - 1)
    BY <1>0, <1>2, <1>3 DEF aa, bb, cc
  <2>2. QED
    BY <2>1 DEF aa, cc
<1>5. QED
  BY <1>0, <1>4 DEF IndicesAgree, Slot

(* Consuming len bytes moves the read index so that the members still agree. *)
LEMMA AdvanceKeepsIndices ==
  ASSUME Inv, NEW len \in 0..count,
         read_idx' = (read_idx + len) % Capacity,
         write_idx' = write_idx, count' = count - len
  PROVE  read_idx' \in Slot /\ count' \in 0..Capacity /\ IndicesAgree'
<1>0. /\ read_idx \in 0..(Capacity - 1) /\ write_idx \in 0..(Capacity - 1)
      /\ count \in 0..Capacity /\ Capacity \in Nat \ {0} /\ len \in 0..Capacity
  BY Scalars DEF Inv
<1> DEFINE a == read_idx + len
           b == read_idx + count
           r == a % Capacity
           c == r + (count - len)
<1>1. a \in 0..(2 * Capacity - 1) /\ b \in 0..(2 * Capacity - 1)
  BY <1>0
<1>2. /\ a % Capacity = IF a < Capacity THEN a ELSE a - Capacity
      /\ b % Capacity = IF b < Capacity THEN b ELSE b - Capacity
  <2> HIDE DEF a, b
  <2>1. QED
    BY <1>1, WrapOnce
<1>3. r = (IF a < Capacity THEN a ELSE a - Capacity) /\ r \in 0..(Capacity - 1)
  BY <1>0, <1>2
<1>4. c \in 0..(2 * Capacity - 1)
  <2> HIDE DEF r
  <2>1. QED
    BY <1>0, <1>3
<1>5. c % Capacity = IF c < Capacity THEN c ELSE c - Capacity
  <2> HIDE DEF c
  <2>1. QED
    BY <1>4, WrapOnce
<1>6. c % Capacity = b % Capacity
  <2> DEFINE bb == b % Capacity
             cc == c % Capacity
  <2>1. cc = IF c < Capacity THEN c ELSE c - Capacity
    BY <1>5
  <2>2. bb = IF b < Capacity THEN b ELSE b - Capacity
    BY <1>2
  <2> HIDE DEF r, bb, cc
  <2>3. bb = cc
    BY <1>0, <1>3, <2>1, <2>2
  <2>4. QED
    BY <2>3 DEF bb, cc
<1>7. QED
  BY <1>0, <1>3, <1>6 DEF IndicesAgree, Inv, Slot

-----------------------------------------------------------------------------
(* Every member function preserves the invariant. *)
LEMMA NextInv == Inv /\ [Next]_vars => Inv'
<1> SUFFICES ASSUME Inv, [Next]_vars PROVE Inv'
  OBVIOUS
<1>0. /\ TypeOK /\ IndicesAgree
      /\ count \in 0..Capacity /\ Capacity \in Nat \ {0}
      /\ Available \in 0..Capacity
  BY RingAssumption DEF Inv, TypeOK, Available
<1>1. ASSUME NEW data \in Chunk, Push(data) PROVE Inv'
  <2>0. data \in Seq(Byte) /\ Len(data) \in Nat
    BY RingAssumption
  <2>1. CASE Available < Len(data)
    <3>1. UNCHANGED ring /\ ret' = Returned("push", 0, FALSE, data)
      BY <1>1, <2>1 DEF Push
    <3>2. ret' \in Call
      BY <2>0, <3>1, SilentType
    <3>3. QED
      BY <1>0, <3>1, <3>2 DEF Inv, TypeOK, IndicesAgree, ring
  <2>2. CASE ~(Available < Len(data))
    <3>1. write_idx' \in Slot /\ count' \in 0..Capacity /\ IndicesAgree'
      BY <1>0, <1>1, <2>0, <2>2, WriteKeepsIndices DEF Push
    <3>2. buffer' \in [Slot -> Byte]
      BY <1>0, <1>1, <2>0, <2>2, StoredType DEF Push
    <3>3. read_idx' \in Slot /\ ret' \in Call
      <4>1. read_idx' = read_idx /\ ret' = Returned("push", 0, TRUE, data)
        BY <1>1, <2>2 DEF Push
      <4>2. QED
        BY <1>0, <2>0, <4>1, SilentType DEF TypeOK
    <3>4. QED
      BY <3>1, <3>2, <3>3 DEF Inv, TypeOK
  <2>3. QED
    BY <2>1, <2>2
<1>2. ASSUME NEW data \in Chunk, Receive(data) PROVE Inv'
  <2>0. data \in Seq(Byte) /\ Len(data) \in 1..Available
    BY <1>2, RingAssumption DEF Receive
  <2>1. Least(Len(data), Available) = Len(data)
    BY <2>0, <1>0 DEF Least
  <2>2. write_idx' \in Slot /\ count' \in 0..Capacity /\ IndicesAgree'
    BY <1>0, <1>2, <2>0, <2>1, WriteKeepsIndices DEF Receive
  <2>3. buffer' \in [Slot -> Byte]
    BY <1>0, <1>2, <2>0, ScatteredIsStored, StoredType DEF Receive
  <2>4. read_idx' \in Slot /\ ret' \in Call
    BY <1>0, <1>2, <2>0, SilentType DEF Receive, TypeOK
  <2>5. QED
    BY <2>2, <2>3, <2>4 DEF Inv, TypeOK
<1>3. ASSUME NEW n \in Count, Peek(n) PROVE Inv'
  <2>1. Least(n, count) \in 0..Capacity
    BY <1>0, RingAssumption DEF Least
  <2>2. Peeked(n) \in Seq(Byte)
    BY <1>0, <2>1, WindowIsSeq DEF Peeked, TypeOK
  <2>3. Returned("peek", n, TRUE, Peeked(n)) \in Call
    BY <2>2, RingAssumption, ReturnedType DEF Operation
  <2>4. QED
    BY <1>0, <1>3, <2>3 DEF Peek, Inv, TypeOK, IndicesAgree, ring
<1>4. ASSUME NEW n \in Nat, Expose(n) PROVE Inv'
  <2>1. Content \in Seq(Byte) /\ Len(Content) = count
    BY <1>0, ContentIsSeq
  <2>2. /\ Exposed(n) \in 0..count
        /\ Gathered(FillIovec(n)) = [j \in 1..Exposed(n) |-> Content[j]]
    BY <1>0, GatheredIsPrefix
  <2>3. Gathered(FillIovec(n)) \in Seq(Byte)
    BY <1>0, <2>1, <2>2
  <2>4. Returned("expose", n, FillIovec(n) # <<>>, Gathered(FillIovec(n))) \in Call
    <3>1. "expose" \in Operation /\ (FillIovec(n) # <<>>) \in BOOLEAN
      BY DEF Operation
    <3>2. QED
      BY <2>3, <3>1, ReturnedType, Zenon
  <2>5. QED
    <3>1. UNCHANGED <<buffer, read_idx, write_idx, count>> /\ ret' \in Call
      BY <1>4, <2>4, Zenon DEF Expose, ring
    <3>2. QED
      BY <1>0, <3>1 DEF Inv, TypeOK, IndicesAgree
<1>5. ASSUME NEW n \in Count, Advance(n) PROVE Inv'
  <2>1. Least(n, count) \in 0..count
    BY <1>0, RingAssumption DEF Least
  <2>2. read_idx' \in Slot /\ count' \in 0..Capacity /\ IndicesAgree'
    BY <1>0, <1>5, <2>1, AdvanceKeepsIndices DEF Advance
  <2>3. /\ buffer' \in [Slot -> Byte] /\ write_idx' \in Slot
        /\ ret' \in Call
    BY <1>0, <1>5, SilentType DEF Advance, TypeOK
  <2>4. QED
    BY <2>2, <2>3 DEF Inv, TypeOK
<1>6. CASE Clear
  <2>1. TypeOK'
    <3>1. ret' \in Call
      BY <1>6, SilentType DEF Clear
    <3>2. 0 \in Slot /\ 0 \in 0..Capacity
      BY RingAssumption DEF Slot
    <3>3. QED
      BY <1>0, <1>6, <3>1, <3>2 DEF Clear, TypeOK
  <2>2. IndicesAgree'
    BY <1>0, <1>6 DEF Clear, IndicesAgree
  <2>3. QED
    BY <2>1, <2>2 DEF Inv
<1>7. CASE UNCHANGED vars
  BY <1>0, <1>7 DEF vars, Inv, TypeOK, IndicesAgree
<1>8. QED
  BY <1>1, <1>2, <1>3, <1>4, <1>5, <1>6, <1>7, RingAssumption DEF Next, ReadPtr

(* The indices and the count always denote slots of the array, for every   *)
(* capacity and every sequence of calls.                                   *)
THEOREM TypeCorrect == Spec => []TypeOK
<1>1. Inv => TypeOK
  BY DEF Inv
<1>2. QED
  BY <1>1, InitInv, NextInv, PTL DEF Spec

(* read_idx_, write_idx_ and count_ never disagree. *)
THEOREM IndicesAlwaysAgree == Spec => []IndicesAgree
<1>1. Inv => IndicesAgree
  BY DEF Inv
<1>2. QED
  BY <1>1, InitInv, NextInv, PTL DEF Spec

-----------------------------------------------------------------------------
(* The slots that the two iovecs for `total` slots from `start` on cover. *)
LEMMA CoveredSegments ==
  ASSUME NEW start \in Slot, NEW total \in 0..Capacity
  PROVE  Covered(Segments(start, total, 2))
           = {i \in Slot : \/ i >= start /\ i < start + total
                           \/ i < start + total - Capacity}
<1> DEFINE iov == Segments(start, total, 2)
           contiguous == Capacity - start
<1>0. Capacity \in Nat \ {0} /\ start \in 0..(Capacity - 1) /\ total \in 0..Capacity
  BY RingAssumption DEF Slot
<1>1. CASE total = 0
  <2>1. iov = <<>>
    BY <1>1 DEF Segments
  <2>2. Covered(iov) = {}
    BY <2>1 DEF Covered
  <2>3. QED
    BY <2>2, <1>0, <1>1 DEF Slot
<1>2. CASE total # 0 /\ contiguous >= total
  <2>1. iov = << [base |-> start, len |-> total] >>
    BY <1>2 DEF Segments
  <2>2. Covered(iov) = start..(start + total - 1)
    BY <2>1 DEF Covered
  <2>3. QED
    BY <2>2, <1>0, <1>2 DEF Slot
<1>3. CASE total # 0 /\ contiguous < total
  <2>1. iov = << [base |-> start, len |-> contiguous],
                 [base |-> 0, len |-> total - contiguous] >>
    BY <1>0, <1>3 DEF Segments
  <2>2. Covered(iov) = (start..(start + contiguous - 1))
                         \cup (0..(0 + (total - contiguous) - 1))
    BY <2>1 DEF Covered
  <2>3. QED
    BY <2>2, <1>0, <1>3 DEF Slot
<1>4. QED
  BY <1>0, <1>1, <1>2, <1>3

(* The readv slots and the writev slots partition the array in every       *)
(* reachable state: a receive in place never overwrites an unread byte.    *)
THEOREM ZeroCopySafe == Spec => []IovecsPartition
<1>1. Inv => IovecsPartition
  <2> SUFFICES ASSUME Inv PROVE IovecsPartition
    OBVIOUS
  <2>0. /\ Capacity \in Nat \ {0} /\ count \in 0..Capacity
        /\ read_idx \in 0..(Capacity - 1) /\ write_idx \in 0..(Capacity - 1)
        /\ read_idx \in Slot /\ write_idx \in Slot
        /\ Available = Capacity - count /\ Available \in 0..Capacity
    BY RingAssumption DEF Inv, TypeOK, Slot, Available
  <2>1. write_idx = IF read_idx + count < Capacity THEN read_idx + count
                    ELSE read_idx + count - Capacity
    <3> DEFINE a == read_idx + count
    <3>1. a \in 0..(2 * Capacity - 1)
      BY <2>0
    <3>w. write_idx = a % Capacity
      BY DEF Inv, IndicesAgree
    <3> HIDE DEF a
    <3>2. a % Capacity = IF a < Capacity THEN a ELSE a - Capacity
      BY <3>1, WrapOnce
    <3>3. QED
      BY <2>0, <3>w, <3>2 DEF a
  <2>2. Covered(FillIovec(2))
          = {i \in Slot : \/ i >= read_idx /\ i < read_idx + count
                          \/ i < read_idx + count - Capacity}
    BY <2>0, CoveredSegments DEF FillIovec
  <2>3. Covered(FillIovecWrite(2))
          = {i \in Slot : \/ i >= write_idx /\ i < write_idx + Available
                          \/ i < write_idx + Available - Capacity}
    BY <2>0, CoveredSegments DEF FillIovecWrite
  <2>4. ASSUME NEW i \in Slot
        PROVE  (\/ i >= read_idx /\ i < read_idx + count
                \/ i < read_idx + count - Capacity)
               <=> ~ (\/ i >= write_idx /\ i < write_idx + Available
                      \/ i < write_idx + Available - Capacity)
    BY <2>0, <2>1 DEF Slot
  <2>5. QED
    BY <2>2, <2>3, <2>4 DEF IovecsPartition
<1>2. QED
  BY <1>1, InitInv, NextInv, PTL DEF Spec

-----------------------------------------------------------------------------
(* Step simulation: every call on the ring buffer is the same call on the  *)
(* queue of its unread bytes.                                              *)
LEMMA StepSimulates == Inv /\ Inv' /\ [Next]_vars => [Queue!Next]_(Queue!vars)
<1> SUFFICES ASSUME Inv, Inv', [Next]_vars PROVE [Queue!Next]_(Queue!vars)
  OBVIOUS
<1>0. /\ TypeOK /\ TypeOK' /\ IndicesAgree
      /\ count \in 0..Capacity /\ Capacity \in Nat \ {0}
      /\ Available = Capacity - count
  BY RingAssumption DEF Inv, TypeOK, Available
<1>c. Content \in Seq(Byte) /\ Len(Content) = count
  BY <1>0, ContentIsSeq
<1>s. UNCHANGED ring => Content' = Content
  BY DEF ring, Content
<1>1. ASSUME NEW data \in Chunk, Push(data) PROVE Queue!Push(data)
  <2>0. data \in Seq(Byte) /\ Len(data) \in Nat
    BY RingAssumption
  <2>1. CASE Available < Len(data)
    <3>1. Content' = Content /\ ret' = Queue!Returned("push", 0, FALSE, data)
      BY <1>1, <1>s, <2>1 DEF Push, Returned, Queue!Returned
    <3>2. QED
      <4>1. Len(Content) + Len(data) > Capacity
        BY <1>0, <1>c, <2>0, <2>1
      <4>2. QED
        BY <3>1, <4>1, Zenon DEF Queue!Push
  <2>2. CASE ~(Available < Len(data))
    <3>1. Content' = Content \o data
      BY <1>0, <1>1, <2>0, <2>2, StoredAppends DEF Push
    <3>2. ret' = Queue!Returned("push", 0, TRUE, data)
      BY <1>1, <2>2 DEF Push, Returned, Queue!Returned
    <3>3. QED
      <4>1. Len(Content) + Len(data) <= Capacity
        BY <1>0, <1>c, <2>0, <2>2
      <4>2. QED
        BY <3>1, <3>2, <4>1, Zenon DEF Queue!Push
  <2>3. QED
    BY <2>1, <2>2
<1>2. ASSUME NEW data \in Chunk, Receive(data) PROVE Queue!Receive(data)
  <2>0. data \in Seq(Byte) /\ Len(data) \in 1..Available
    BY <1>2, RingAssumption DEF Receive
  <2>1. Least(Len(data), Available) = Len(data)
    BY <2>0, <1>0 DEF Least
  <2>2. Content' = Content \o data
    <3>1. /\ buffer' = Scattered(FillIovecWrite(2), data)
          /\ count' = count + Len(data) /\ read_idx' = read_idx
      BY <1>2, <2>1 DEF Receive
    <3>2. buffer' = Stored(data)
      BY <1>0, <2>0, <3>1, ScatteredIsStored
    <3>3. Len(data) <= Available
      BY <1>0, <2>0
    <3>4. QED
      BY <1>0, <2>0, <3>1, <3>2, <3>3, StoredAppends
  <2>3. ret' = Queue!Returned("receive", 0, TRUE, data)
    BY <1>2 DEF Receive, Returned, Queue!Returned
  <2>4. QED
    BY <1>0, <1>c, <2>0, <2>2, <2>3 DEF Queue!Receive
<1>3. ASSUME NEW n \in Count, Peek(n) PROVE Queue!Peek(n)
  <2> DEFINE m == Least(n, count)
  <2>1. m \in 0..count
    BY <1>0, RingAssumption DEF Least
  <2>2. Peeked(n) = [j \in 1..m |-> Content[j]]
    BY <1>0, <2>1 DEF Peeked, Content
  <2> HIDE DEF m
  <2>3. [j \in 1..m |-> Content[j]] = SubSeq(Content, 1, m)
    BY <1>0, <1>c, <2>1
  <2>4. m = Queue!Least(n, Len(Content))
    BY <1>c DEF m, Least, Queue!Least
  <2>5. QED
    BY <1>3, <1>s, <2>2, <2>3, <2>4 DEF Peek, Queue!Peek, Returned, Queue!Returned
<1>4. ASSUME NEW n \in Nat, Expose(n) PROVE Queue!Expose(n)
  <2> DEFINE m == Exposed(n)
             iov == FillIovec(n)
  <2>1. m \in 0..count /\ (iov = <<>> <=> m = 0)
        /\ Gathered(iov) = [j \in 1..m |-> Content[j]]
    BY <1>0, GatheredIsPrefix
  <2>2. (m = 0 => n = 0 \/ count = 0) /\ (n >= 2 => m = count)
    BY <1>0, RingAssumption DEF Exposed, TypeOK, Slot
  <2> HIDE DEF m
  <2>3. [j \in 1..m |-> Content[j]] = SubSeq(Content, 1, m)
    BY <1>0, <1>c, <2>1
  <2>4. (iov # <<>>) = (m > 0)
    BY <1>0, <2>1
  <2>5. ret' = Queue!Returned("expose", n, m > 0, SubSeq(Content, 1, m)) /\ Content' = Content
    BY <1>4, <1>s, <2>1, <2>3, <2>4 DEF Expose, Returned, Queue!Returned
  <2>6. count = 0 => Content = <<>>
    BY <1>c
  <2>7. QED
    BY <1>c, <2>1, <2>2, <2>5, <2>6 DEF Queue!Expose
<1>5. ASSUME NEW n \in Count, Advance(n) PROVE Queue!Advance(n)
  <2> DEFINE m == Least(n, count)
  <2>1. m \in 0..count
    BY <1>0, RingAssumption DEF Least
  <2>2. Content' = SubSeq(Content, m + 1, count)
    BY <1>0, <1>5, <2>1, AdvanceDrops DEF Advance
  <2>3. m = Queue!Least(n, Len(Content))
    BY <1>c DEF Least, Queue!Least
  <2>4. ret' = Queue!Returned("advance", n, TRUE, <<>>)
    BY <1>5 DEF Advance, Returned, Queue!Returned
  <2>5. QED
    BY <1>c, <2>2, <2>3, <2>4 DEF Queue!Advance
<1>6. CASE Clear
  <2>1. Content' = <<>>
    BY <1>6 DEF Clear, Content
  <2>2. ret' = Queue!Returned("clear", 0, TRUE, <<>>)
    BY <1>6 DEF Clear, Returned, Queue!Returned
  <2>3. QED
    BY <2>1, <2>2, Zenon DEF Queue!Clear, Queue!Next
<1>7. CASE UNCHANGED vars
  BY <1>7 DEF vars, Queue!vars, Content
<1>8. QED
  BY <1>1, <1>2, <1>3, <1>4, <1>5, <1>6, <1>7, RingAssumption
  DEF Next, ReadPtr, Queue!Next

(* The ring buffer implements the bounded FIFO queue, for every capacity:  *)
(* wrapping, in-place receives and partial writes are invisible.           *)
THEOREM RingRefinesQueue == Spec => ImplementsQueue
<1>1. Init => Queue!Init
  <2> SUFFICES ASSUME Init PROVE Queue!Init
    OBVIOUS
  <2>1. Content = <<>>
    BY DEF Init, Content
  <2>2. QED
    BY <2>1 DEF Init, Queue!Init, Returned, Queue!Returned
<1>2. QED
  BY <1>1, InitInv, NextInv, StepSimulates, PTL DEF Spec, ImplementsQueue, Queue!Spec

=============================================================================
