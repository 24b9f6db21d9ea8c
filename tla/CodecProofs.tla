---------------------------- MODULE CodecProofs ----------------------------
(***************************************************************************)
(* Theorems about the codecs of ewss.hpp, for every input and not only for *)
(* those of the bounded runs: SHA1 compresses the padded message, for      *)
(* every message and every size of a block; what Base64 encodes it decodes *)
(* to the same bytes; frames of every length survive a stream that is cut  *)
(* anywhere, and their echoes the client's own decoder.                    *)
(*                                                                         *)
(* What a recursive function computes is proved by an induction on sets of *)
(* numbers (SetInduction, from the least element of the complement), after *)
(* a function that satisfies the recursion has been shown to exist.        *)
(***************************************************************************)
EXTENDS Sha1, Base64, Wire, SequenceTheorems, WellFoundedInduction, TLAPS

-----------------------------------------------------------------------------
(* Numbers. *)

LEMMA WholeBlocks ==
  ASSUME NEW n \in Nat, NEW b \in Nat \ {0}, NEW q \in Nat, n = q * b
  PROVE  n % b = 0
OBVIOUS

LEMMA OneMoreBlock ==
  ASSUME NEW b \in Nat \ {0}, NEW q \in Nat
  PROVE  q * b \in Nat /\ (q + 1) * b = q * b + b
OBVIOUS

LEMMA Sizes ==
  /\ BlockLen \in Nat \ {0} /\ CountLen \in Nat /\ CountAt \in Nat \ {0}
  /\ CountAt <= BlockLen /\ BlockLen = CountAt + CountLen
BY Sha1Assumption DEF CountAt

-----------------------------------------------------------------------------
(* What SHA1 knows of the message. *)

(* The blocks compressed so far are the message up to the last block       *)
(* boundary, and the buffer begins with the rest.                          *)
Streamed ==
  /\ block \in [Position -> Octet] /\ buf_pos \in Position
  /\ hashed \in Seq(Octet) /\ message \in Seq(Octet)
  /\ total_bytes = Len(message)
  /\ \E q \in Nat : Len(hashed) = q * BlockLen
  /\ Len(message) = Len(hashed) + buf_pos
  /\ \A k \in 1..Len(hashed) : hashed[k] = message[k]
  /\ \A k \in 1..buf_pos : block[k - 1] = message[Len(hashed) + k]

Digesting ==
  IF digested = FALSE THEN Streamed ELSE digested = TRUE /\ IsPaddingOf(hashed, message)

(* A block as a sequence. *)
LEMMA BlockSeq ==
  ASSUME NEW S, NEW buf, \A k \in Position : buf[k] \in S
  PROVE  /\ process_block(buf) \in Seq(S) /\ Len(process_block(buf)) = BlockLen
         /\ \A k \in 1..BlockLen : process_block(buf)[k] = buf[k - 1]
<1>1. \A k \in 1..BlockLen : k - 1 \in Position
  BY Sizes DEF Position
<1> DEFINE t == [k \in 1..BlockLen |-> buf[k - 1]]
<1>2. t \in [1..BlockLen -> S]
  BY <1>1
<1>3. t \in Seq(S) /\ Len(t) = BlockLen
  BY <1>2, Sizes
<1>4. QED
  BY <1>3 DEF process_block

LEMMA UpdateStep ==
  ASSUME Streamed, NEW b \in Octet, update(b)
  PROVE  Streamed'
<1>0. PICK q \in Nat : Len(hashed) = q * BlockLen
  BY DEF Streamed
<1>1. /\ buf_pos \in Nat /\ buf_pos < BlockLen /\ buf_pos \in Position
      /\ Len(hashed) \in Nat /\ Len(message) \in Nat
      /\ Len(message) = Len(hashed) + buf_pos
  BY Sizes, LenProperties DEF Streamed, Position
<1>2. /\ block' = [block EXCEPT ![buf_pos] = b] /\ total_bytes' = total_bytes + 1
      /\ message' = Append(message, b)
  BY DEF update
<1>3. /\ block' \in [Position -> Octet]
      /\ \A k \in Position : block'[k] = IF k = buf_pos THEN b ELSE block[k]
  BY <1>1, <1>2 DEF Streamed
<1>4. /\ message' \in Seq(Octet) /\ Len(message') = Len(message) + 1
      /\ \A k \in 1..Len(message) : message'[k] = message[k]
      /\ message'[Len(message) + 1] = b
  <2>1. message \in Seq(Octet) /\ b \in Octet /\ message' = Append(message, b)
    BY <1>2 DEF Streamed
  <2>2. QED
    BY ONLY <2>1, AppendProperties
<1>5. \A k \in 1..(buf_pos + 1) : block'[k - 1] = message'[Len(hashed) + k]
  <2>1. ASSUME NEW k \in 1..(buf_pos + 1)
        PROVE  block'[k - 1] = message'[Len(hashed) + k]
    <3>1. k - 1 \in Position /\ k \in Nat
      BY <1>1, <2>1, Sizes DEF Position
    <3>2. CASE k = buf_pos + 1
      <4>1. k - 1 = buf_pos /\ Len(hashed) + k = Len(message) + 1
        BY <1>1, <3>2
      <4>2. QED
        BY <1>3, <1>4, <3>1, <4>1
    <3>3. CASE k \in 1..buf_pos
      <4>1. block[k - 1] = message[Len(hashed) + k]
        BY <3>3 DEF Streamed
      <4>2. Len(hashed) + k \in 1..Len(message) /\ k - 1 # buf_pos
        BY <1>1, <3>3
      <4>3. QED
        BY <1>3, <1>4, <3>1, <4>1, <4>2
    <3>4. QED
      BY <1>1, <2>1, <3>2, <3>3
  <2>2. QED
    BY <2>1
<1>6. \A k \in 1..Len(hashed) : hashed[k] = message'[k]
  BY <1>1, <1>4 DEF Streamed
<1>7. total_bytes' = Len(message')
  BY <1>2, <1>4 DEF Streamed
<1>8. CASE buf_pos + 1 # BlockLen
  <2>1. hashed' = hashed /\ buf_pos' = buf_pos + 1
    BY <1>8 DEF update
  <2>2. buf_pos' \in Position /\ Len(message') = Len(hashed') + buf_pos'
    BY <1>1, <1>4, <1>8, <2>1, Sizes DEF Position
  <2>3. hashed' \in Seq(Octet) /\ Len(hashed') = q * BlockLen
    BY <1>0, <2>1 DEF Streamed
  <2>4. /\ \A k \in 1..Len(hashed') : hashed'[k] = message'[k]
        /\ \A k \in 1..buf_pos' : block'[k - 1] = message'[Len(hashed') + k]
    BY <1>5, <1>6, <2>1
  <2>5. QED
    BY <1>3, <1>4, <1>7, <2>2, <2>3, <2>4 DEF Streamed
<1>9. CASE buf_pos + 1 = BlockLen
  <2> DEFINE t == process_block(block')
  <2>1. hashed' = hashed \o t /\ buf_pos' = 0
    BY <1>1, <1>9 DEF update
  <2>2. t \in Seq(Octet) /\ Len(t) = BlockLen /\ \A k \in 1..BlockLen : t[k] = block'[k - 1]
    BY <1>3, BlockSeq
  <2> HIDE DEF t
  <2>3. /\ hashed' \in Seq(Octet) /\ Len(hashed') = Len(hashed) + BlockLen
        /\ \A k \in 1..(Len(hashed) + BlockLen) :
             hashed'[k] = IF k <= Len(hashed) THEN hashed[k] ELSE t[k - Len(hashed)]
    BY <2>1, <2>2, ConcatProperties DEF Streamed
  <2>4. ASSUME NEW k \in 1..Len(hashed')
        PROVE  hashed'[k] = message'[k]
    <3>1. CASE k <= Len(hashed)
      BY <1>1, <1>6, <2>3, <2>4, <3>1
    <3>2. CASE k > Len(hashed)
      <4> DEFINE j == k - Len(hashed)
      <4>1. j \in 1..BlockLen /\ Len(hashed) + j = k /\ ~(k <= Len(hashed))
        BY <1>1, <2>3, <2>4, <3>2, Sizes
      <4>2. hashed'[k] = t[j]
        BY <2>3, <2>4, <4>1
      <4> HIDE DEF j
      <4>3. t[j] = block'[j - 1]
        BY <2>2, <4>1
      <4>4. block'[j - 1] = message'[Len(hashed) + j]
        BY <1>5, <1>9, <4>1
      <4>5. QED
        BY <4>1, <4>2, <4>3, <4>4
    <3>3. QED
      BY <1>1, <2>3, <2>4, <3>1, <3>2, Sizes
  <2>5. 0 \in Position /\ Len(message') = Len(hashed') + 0 /\ 1..0 = {}
    BY <1>1, <1>4, <1>9, <2>3, Sizes DEF Position
  <2>6. q + 1 \in Nat /\ Len(hashed') = (q + 1) * BlockLen
    BY <1>0, <2>3, Sizes, OneMoreBlock
  <2>7. \E r \in Nat : Len(hashed') = r * BlockLen
    BY <2>6
  <2>8. QED
    BY <1>3, <1>4, <1>7, <2>1, <2>3, <2>4, <2>5, <2>7 DEF Streamed
<1>10. QED
  BY <1>8, <1>9

(* Where the bytes of a padded message come from. *)
LEMMA PaddedAt ==
  ASSUME NEW S, NEW m \in Seq(S), 128 \in S, 0 \in S, NEW zeros \in Nat,
         LengthField(Len(m)) \in Seq(S), Len(LengthField(Len(m))) = CountLen
  PROVE  /\ PaddedTo(m, zeros) \in Seq(S)
         /\ Len(PaddedTo(m, zeros)) = Len(m) + 1 + zeros + CountLen
         /\ \A k \in 1..(Len(m) + 1 + zeros + CountLen) :
              PaddedTo(m, zeros)[k] =
                IF k <= Len(m) THEN m[k]
                ELSE IF k = Len(m) + 1 THEN 128
                ELSE IF k <= Len(m) + 1 + zeros THEN 0
                ELSE LengthField(Len(m))[k - (Len(m) + 1 + zeros)]
<1> DEFINE z == [k \in 1..zeros |-> 0]
           l == LengthField(Len(m))
           n == Len(m)
<1>0. n \in Nat /\ CountLen \in Nat
  BY LenProperties, Sizes
<1>1. z \in Seq(S) /\ Len(z) = zeros /\ \A k \in 1..zeros : z[k] = 0
  <2>1. z \in [1..zeros -> S]
    OBVIOUS
  <2>2. QED
    BY <2>1
<1>2. l \in Seq(S) /\ Len(l) = CountLen
  OBVIOUS
<1>3. <<128>> \in Seq(S) /\ Len(<<128>>) = 1 /\ <<128>>[1] = 128
  OBVIOUS
<1> HIDE DEF z, l
<1> DEFINE a == m \o <<128>>
<1>4. /\ a \in Seq(S) /\ Len(a) = n + 1
      /\ \A k \in 1..(n + 1) : a[k] = IF k <= n THEN m[k] ELSE 128
  <2>1. /\ a \in Seq(S) /\ Len(a) = n + 1
        /\ \A k \in 1..(n + 1) : a[k] = IF k <= n THEN m[k] ELSE <<128>>[k - n]
    BY <1>3, ConcatProperties
  <2>2. \A k \in 1..(n + 1) : k <= n \/ k - n = 1
    BY <1>0
  <2>3. QED
    BY <1>3, <2>1, <2>2
<1> HIDE DEF a
<1> DEFINE b == a \o z
<1>5. /\ b \in Seq(S) /\ Len(b) = n + 1 + zeros
      /\ \A k \in 1..(n + 1 + zeros) : b[k] = IF k <= n + 1 THEN a[k] ELSE 0
  <2>1. /\ b \in Seq(S) /\ Len(b) = n + 1 + zeros
        /\ \A k \in 1..(n + 1 + zeros) : b[k] = IF k <= n + 1 THEN a[k] ELSE z[k - (n + 1)]
    <3>1. /\ b \in Seq(S) /\ Len(b) = Len(a) + Len(z)
          /\ \A k \in 1..(Len(a) + Len(z)) : b[k] = IF k <= Len(a) THEN a[k] ELSE z[k - Len(a)]
      <4>1. a \in Seq(S) /\ z \in Seq(S)
        BY <1>1, <1>4
      <4>2. QED
        BY ONLY <4>1, ConcatProperties
    <3> HIDE DEF n, b
    <3>2. QED
      BY <1>1, <1>4, <3>1
  <2>2. \A k \in 1..(n + 1 + zeros) : k <= n + 1 \/ k - (n + 1) \in 1..zeros
    BY <1>0
  <2>3. QED
    BY <1>1, <2>1, <2>2
<1> HIDE DEF b
<1> DEFINE p == b \o l
<1>6. /\ p \in Seq(S) /\ Len(p) = n + 1 + zeros + CountLen
      /\ \A k \in 1..(n + 1 + zeros + CountLen) :
           p[k] = IF k <= n + 1 + zeros THEN b[k] ELSE l[k - (n + 1 + zeros)]
  <2>1. /\ p \in Seq(S) /\ Len(p) = Len(b) + Len(l)
        /\ \A k \in 1..(Len(b) + Len(l)) : p[k] = IF k <= Len(b) THEN b[k] ELSE l[k - Len(b)]
    BY <1>2, <1>5, ConcatProperties
  <2> HIDE DEF n, p
  <2>2. QED
    BY <1>2, <1>5, <2>1
<1>7. p = PaddedTo(m, zeros)
  BY DEF PaddedTo, p, b, a, z, l
<1> HIDE DEF p
<1>8. \A k \in 1..(n + 1 + zeros + CountLen) :
        p[k] = IF k <= n THEN m[k]
               ELSE IF k = n + 1 THEN 128
               ELSE IF k <= n + 1 + zeros THEN 0
               ELSE l[k - (n + 1 + zeros)]
  <2>1. ASSUME NEW k \in 1..(n + 1 + zeros + CountLen)
        PROVE  p[k] = IF k <= n THEN m[k]
                      ELSE IF k = n + 1 THEN 128
                      ELSE IF k <= n + 1 + zeros THEN 0
                      ELSE l[k - (n + 1 + zeros)]
    <3>1. CASE k <= n + 1
      <4>1. p[k] = b[k] /\ b[k] = a[k] /\ a[k] = IF k <= n THEN m[k] ELSE 128
        BY <1>0, <1>4, <1>5, <1>6, <3>1
      <4>2. k <= n \/ k = n + 1
        BY <1>0, <3>1
      <4>3. QED
        BY <4>1, <4>2
    <3>2. CASE k > n + 1 /\ k <= n + 1 + zeros
      <4>1. p[k] = b[k] /\ b[k] = 0
        BY <1>0, <1>5, <1>6, <3>2
      <4>2. QED
        BY <1>0, <3>2, <4>1
    <3>3. CASE k > n + 1 + zeros
      <4>1. p[k] = l[k - (n + 1 + zeros)]
        BY <1>0, <1>6, <3>3
      <4>2. QED
        BY <1>0, <3>3, <4>1
    <3>4. QED
      BY <1>0, <3>1, <3>2, <3>3
  <2>2. QED
    BY <2>1
<1>9. QED
  BY <1>6, <1>7, <1>8 DEF l

(* The count as a sequence; how its bytes are computed does not matter. *)
LEMMA CountSeq ==
  ASSUME NEW n
  PROVE  \E S : /\ Octet \subseteq S
                /\ LengthField(n) \in Seq(S) /\ Len(LengthField(n)) = CountLen
<1> DEFINE l == LengthField(n)
           S == Octet \cup {l[i] : i \in 1..CountLen}
<1>1. l = [i \in 1..CountLen |-> l[i]]
  BY DEF LengthField
<1> HIDE DEF l
<1>2. l \in [1..CountLen -> S]
  BY <1>1
<1>3. l \in Seq(S) /\ Len(l) = CountLen
  BY <1>2, Sizes
<1>4. Octet \subseteq S
  OBVIOUS
<1> HIDE DEF S
<1>5. QED
  BY <1>3, <1>4 DEF l

(* The last block, when the count fits behind the mark, *)
Fits(k) ==
  IF k < buf_pos THEN block[k]
  ELSE IF k = buf_pos THEN 128
  ELSE IF k < CountAt THEN 0
  ELSE LengthField(total_bytes)[k - CountAt + 1]

(* and the last two when it does not. *)
Marked(k) == IF k < buf_pos THEN block[k] ELSE IF k = buf_pos THEN 128 ELSE 0
CountOnly(k) == IF k < CountAt THEN 0 ELSE LengthField(total_bytes)[k - CountAt + 1]

LEMMA Shapes ==
  ASSUME block \in [Position -> Octet], buf_pos \in Position
  PROVE  LET marked == [block EXCEPT ![buf_pos] = 128]
             pos == buf_pos + 1
             filled == ZeroFrom(marked, pos, BlockLen)
         IN  /\ \A k \in Position : filled[k] = Marked(k)
             /\ \A k \in Position : WithCount(ZeroFrom(filled, 0, CountAt))[k] = CountOnly(k)
             /\ ~(pos > CountAt) =>
                  \A k \in Position :
                    WithCount(ZeroFrom(marked, pos, CountAt))[k] = Fits(k)
<1> DEFINE marked == [block EXCEPT ![buf_pos] = 128]
           pos == buf_pos + 1
           filled == ZeroFrom(marked, pos, BlockLen)
<1>0. /\ BlockLen \in Nat /\ CountAt \in Nat /\ CountAt <= BlockLen
      /\ \A k \in Position : k \in Nat /\ k < BlockLen
  BY Sizes DEF Position
<1>1. \A k \in Position : marked[k] = IF k = buf_pos THEN 128 ELSE block[k]
  OBVIOUS
<1> HIDE DEF marked
<1>2. \A k \in Position : filled[k] = Marked(k)
  BY <1>0, <1>1 DEF ZeroFrom, Marked
<1>3. \A k \in Position : WithCount(ZeroFrom(filled, 0, CountAt))[k] = CountOnly(k)
  BY <1>0 DEF WithCount, ZeroFrom, CountOnly
<1>4. ASSUME ~(pos > CountAt), NEW k \in Position
      PROVE  WithCount(ZeroFrom(marked, pos, CountAt))[k] = Fits(k)
  BY <1>0, <1>1, <1>4 DEF WithCount, ZeroFrom, Fits
<1>5. QED
  BY <1>2, <1>3, <1>4 DEF marked

(* What is compressed is the padded message when it is byte by byte. *)
LEMMA IsPadding ==
  ASSUME NEW S, Octet \subseteq S, Streamed, NEW zeros \in 0..(BlockLen - 1),
         LengthField(Len(message)) \in Seq(S), Len(LengthField(Len(message))) = CountLen,
         NEW n \in Nat, n = Len(message) + 1 + zeros + CountLen, n % BlockLen = 0,
         NEW h \in Seq(S), Len(h) = n,
         \A k \in 1..n :
           h[k] = IF k <= Len(message) THEN message[k]
                  ELSE IF k = Len(message) + 1 THEN 128
                  ELSE IF k <= Len(message) + 1 + zeros THEN 0
                  ELSE LengthField(Len(message))[k - (Len(message) + 1 + zeros)]
  PROVE  IsPaddingOf(h, message)
<1>1. 128 \in S /\ 0 \in S /\ zeros \in Nat /\ message \in Seq(S)
  <2>1. 128 \in S /\ 0 \in S
    BY DEF Octet
  <2>2. message \in Seq(Octet)
    BY DEF Streamed
  <2>3. message \in Seq(S)
    BY <2>2, SeqMonotonic
  <2>4. zeros \in Nat
    BY Sizes
  <2>5. QED
    BY <2>1, <2>3, <2>4
<1> DEFINE p == PaddedTo(message, zeros)
<1>2. /\ p \in Seq(S) /\ Len(p) = n
      /\ \A k \in 1..n :
           p[k] = IF k <= Len(message) THEN message[k]
                  ELSE IF k = Len(message) + 1 THEN 128
                  ELSE IF k <= Len(message) + 1 + zeros THEN 0
                  ELSE LengthField(Len(message))[k - (Len(message) + 1 + zeros)]
  <2>1. /\ p \in Seq(S) /\ Len(p) = Len(message) + 1 + zeros + CountLen
        /\ \A k \in 1..(Len(message) + 1 + zeros + CountLen) :
             p[k] = IF k <= Len(message) THEN message[k]
                    ELSE IF k = Len(message) + 1 THEN 128
                    ELSE IF k <= Len(message) + 1 + zeros THEN 0
                    ELSE LengthField(Len(message))[k - (Len(message) + 1 + zeros)]
    BY <1>1, PaddedAt, Zenon
  <2> HIDE DEF p
  <2>2. QED
    BY <2>1
<1> HIDE DEF p
<1>3. \A k \in 1..n : h[k] = p[k]
  BY <1>2
<1>4. h = p
  BY <1>2, <1>3, SeqEqual
<1>5. QED
  BY <1>4 DEF IsPaddingOf, p

LEMMA FinishFits ==
  ASSUME NEW S, Octet \subseteq S, Streamed,
         LengthField(Len(message)) \in Seq(S), Len(LengthField(Len(message))) = CountLen,
         NEW t \in Seq(S), Len(t) = BlockLen, ~(buf_pos + 1 > CountAt),
         \A k \in 1..BlockLen : t[k] = Fits(k - 1)
  PROVE  IsPaddingOf(hashed \o t, message)
<1> DEFINE c == Len(hashed)
           m == Len(message)
           zeros == CountAt - (buf_pos + 1)
           n == c + BlockLen
           h == hashed \o t
<1>0. PICK q \in Nat : c = q * BlockLen
  BY DEF Streamed
<1>1. /\ buf_pos \in Nat /\ buf_pos + 1 <= CountAt /\ c \in Nat /\ m \in Nat
      /\ m = c + buf_pos /\ total_bytes = m
      /\ zeros \in 0..(BlockLen - 1) /\ n \in Nat /\ n = m + 1 + zeros + CountLen
  <2>1. /\ buf_pos \in Nat /\ buf_pos < BlockLen /\ Len(hashed) \in Nat /\ Len(message) \in Nat
        /\ Len(message) = Len(hashed) + buf_pos /\ total_bytes = Len(message)
    <3>1. hashed \in Seq(Octet) /\ message \in Seq(Octet) /\ buf_pos \in 0..(BlockLen - 1)
      BY DEF Streamed, Position
    <3>2. Len(hashed) \in Nat /\ Len(message) \in Nat
      BY ONLY <3>1, LenProperties
    <3>3. buf_pos \in Nat /\ buf_pos < BlockLen
      BY ONLY <3>1, Sizes
    <3>4. QED
      BY <3>2, <3>3 DEF Streamed
  <2>2. ~(buf_pos + 1 > CountAt)
    OBVIOUS
  <2> HIDE DEF c, m
  <2>3. c \in Nat /\ m \in Nat /\ m = c + buf_pos /\ total_bytes = m
    BY <2>1 DEF c, m
  <2>4. /\ buf_pos + 1 <= CountAt /\ zeros \in 0..(BlockLen - 1)
        /\ n \in Nat /\ n = m + 1 + zeros + CountLen
    BY ONLY <2>1, <2>2, <2>3, Sizes
  <2>5. QED
    BY <2>1, <2>3, <2>4
<1>2. n % BlockLen = 0
  <2>1. n = (q + 1) * BlockLen /\ q + 1 \in Nat
    BY <1>0, Sizes, OneMoreBlock
  <2> HIDE DEF n
  <2>2. QED
    BY <1>1, <2>1, Sizes, WholeBlocks
<1>3. hashed \in Seq(S)
  BY SeqMonotonic DEF Streamed
<1>4. /\ h \in Seq(S) /\ Len(h) = n
      /\ \A k \in 1..n : h[k] = IF k <= c THEN hashed[k] ELSE t[k - c]
  BY <1>3, ConcatProperties
<1>5. ASSUME NEW k \in 1..n
      PROVE  h[k] = IF k <= m THEN message[k]
                    ELSE IF k = m + 1 THEN 128
                    ELSE IF k <= m + 1 + zeros THEN 0
                    ELSE LengthField(m)[k - (m + 1 + zeros)]
  <2> HIDE DEF h
  <2>1. CASE k <= c
    <3>1. k \in 1..c /\ k <= m
      BY <1>1, <2>1
    <3>2. h[k] = hashed[k] /\ hashed[k] = message[k]
      BY <1>4, <1>5, <2>1, <3>1 DEF Streamed
    <3>3. QED
      BY <3>1, <3>2
  <2>2. CASE k > c
    <3> DEFINE j == k - c
    <3>1. /\ j \in 1..BlockLen /\ ~(k <= c) /\ k = c + j /\ j - 1 \in Nat
          /\ j - 1 < buf_pos <=> k <= m
          /\ j - 1 = buf_pos <=> k = m + 1
          /\ j - 1 < CountAt <=> k <= m + 1 + zeros
          /\ (j - 1) - CountAt + 1 = k - (m + 1 + zeros)
      BY <1>1, <1>5, <2>2, Sizes
    <3>2. h[k] = t[j]
      BY <1>4, <1>5, <3>1
    <3> HIDE DEF j, zeros, n, c, m
    <3>3. h[k] = Fits(j - 1)
      BY <3>1, <3>2
    <3>4. k <= m => block[j - 1] = message[k]
      <4>1. k <= m => j \in 1..buf_pos
        BY <1>1, <3>1
      <4>2. QED
        BY <3>1, <4>1 DEF Streamed, c
    <3>5. QED
      BY <1>1, <3>1, <3>3, <3>4 DEF Fits
  <2>3. QED
    BY <1>1, <1>5, <2>1, <2>2
<1> HIDE DEF zeros, n, h
<1>6. QED
  BY <1>1, <1>2, <1>4, <1>5, IsPadding DEF h

LEMMA FinishExtra ==
  ASSUME NEW S, Octet \subseteq S, Streamed,
         LengthField(Len(message)) \in Seq(S), Len(LengthField(Len(message))) = CountLen,
         NEW t \in Seq(S), Len(t) = BlockLen, NEW u \in Seq(S), Len(u) = BlockLen,
         buf_pos + 1 > CountAt,
         \A k \in 1..BlockLen : t[k] = Marked(k - 1),
         \A k \in 1..BlockLen : u[k] = CountOnly(k - 1)
  PROVE  IsPaddingOf((hashed \o t) \o u, message)
<1> DEFINE c == Len(hashed)
           m == Len(message)
           zeros == BlockLen - (buf_pos + 1) + CountAt
           n == c + BlockLen + BlockLen
           g == hashed \o t
           h == g \o u
<1>0. PICK q \in Nat : c = q * BlockLen
  BY DEF Streamed
<1>1. /\ buf_pos \in Nat /\ buf_pos < BlockLen /\ c \in Nat /\ m \in Nat
      /\ m = c + buf_pos /\ total_bytes = m
      /\ zeros \in 0..(BlockLen - 1) /\ n \in Nat /\ n = m + 1 + zeros + CountLen
  <2>1. /\ buf_pos \in Nat /\ buf_pos < BlockLen /\ Len(hashed) \in Nat /\ Len(message) \in Nat
        /\ Len(message) = Len(hashed) + buf_pos /\ total_bytes = Len(message)
    <3>1. hashed \in Seq(Octet) /\ message \in Seq(Octet) /\ buf_pos \in 0..(BlockLen - 1)
      BY DEF Streamed, Position
    <3>2. Len(hashed) \in Nat /\ Len(message) \in Nat
      BY ONLY <3>1, LenProperties
    <3>3. buf_pos \in Nat /\ buf_pos < BlockLen
      BY ONLY <3>1, Sizes
    <3>4. QED
      BY <3>2, <3>3 DEF Streamed
  <2>2. buf_pos + 1 > CountAt
    OBVIOUS
  <2> HIDE DEF c, m
  <2>3. c \in Nat /\ m \in Nat /\ m = c + buf_pos /\ total_bytes = m
    BY <2>1 DEF c, m
  <2>4. /\ zeros \in 0..(BlockLen - 1)
        /\ n \in Nat /\ n = m + 1 + zeros + CountLen
    BY ONLY <2>1, <2>2, <2>3, Sizes
  <2>5. QED
    BY <2>1, <2>3, <2>4
<1>2. n % BlockLen = 0
  <2>1. c + BlockLen = (q + 1) * BlockLen /\ q + 1 \in Nat
    BY <1>0, Sizes, OneMoreBlock
  <2> DEFINE r == q + 1
  <2>2. r \in Nat /\ n = r * BlockLen + BlockLen
    BY <2>1
  <2> HIDE DEF r, n
  <2>3. n = (r + 1) * BlockLen /\ r + 1 \in Nat
    BY <2>2, Sizes, OneMoreBlock
  <2>4. QED
    BY <1>1, <2>3, Sizes, WholeBlocks
<1>3. hashed \in Seq(S)
  BY SeqMonotonic DEF Streamed
<1>4. /\ g \in Seq(S) /\ Len(g) = c + BlockLen
      /\ \A k \in 1..(c + BlockLen) : g[k] = IF k <= c THEN hashed[k] ELSE t[k - c]
  BY <1>3, ConcatProperties
<1> HIDE DEF g
<1>5. /\ h \in Seq(S) /\ Len(h) = n
      /\ \A k \in 1..n : h[k] = IF k <= c + BlockLen THEN g[k] ELSE u[k - (c + BlockLen)]
  <2>1. /\ h \in Seq(S) /\ Len(h) = Len(g) + Len(u)
        /\ \A k \in 1..(Len(g) + Len(u)) : h[k] = IF k <= Len(g) THEN g[k] ELSE u[k - Len(g)]
    BY <1>4, ConcatProperties
  <2> HIDE DEF h, c
  <2>2. QED
    BY <1>4, <2>1
<1>6. ASSUME NEW k \in 1..n
      PROVE  h[k] = IF k <= m THEN message[k]
                    ELSE IF k = m + 1 THEN 128
                    ELSE IF k <= m + 1 + zeros THEN 0
                    ELSE LengthField(m)[k - (m + 1 + zeros)]
  <2> HIDE DEF h
  <2>1. CASE k <= c
    <3>1. k \in 1..c /\ k <= m /\ k <= c + BlockLen /\ k \in 1..(c + BlockLen)
      BY <1>1, <2>1, Sizes
    <3>2. h[k] = g[k] /\ g[k] = hashed[k] /\ hashed[k] = message[k]
      BY <1>4, <1>5, <1>6, <2>1, <3>1 DEF Streamed
    <3>3. QED
      BY <3>1, <3>2
  <2>2. CASE k > c /\ k <= c + BlockLen
    <3> DEFINE j == k - c
    <3>1. /\ j \in 1..BlockLen /\ ~(k <= c) /\ k = c + j /\ j - 1 \in Nat
          /\ k \in 1..(c + BlockLen)
          /\ j - 1 < buf_pos <=> k <= m
          /\ j - 1 = buf_pos <=> k = m + 1
          /\ k <= m + 1 + zeros
      <4>1. k \in 1..n /\ m + 1 + zeros = c + BlockLen + CountAt /\ m = c + buf_pos
        BY <1>1, <1>6, Sizes
      <4>2. buf_pos \in Nat /\ c \in Nat /\ n \in Nat /\ k > c /\ k <= c + BlockLen
        BY <1>1, <2>2
      <4> HIDE DEF zeros, n, m, c
      <4>3. QED
        BY ONLY <4>1, <4>2, Sizes
    <3>2. h[k] = t[j]
      BY <1>4, <1>5, <1>6, <2>2, <3>1
    <3> HIDE DEF j, zeros, n, c, m
    <3>3. h[k] = Marked(j - 1)
      BY <3>1, <3>2
    <3>4. k <= m => block[j - 1] = message[k]
      <4>1. k <= m => j \in 1..buf_pos
        BY <1>1, <3>1
      <4>2. QED
        BY <3>1, <4>1 DEF Streamed, c
    <3>5. QED
      BY <1>1, <3>1, <3>3, <3>4 DEF Marked
  <2>3. CASE k > c + BlockLen
    <3> DEFINE j == k - (c + BlockLen)
    <3>1. /\ j \in 1..BlockLen /\ ~(k <= c + BlockLen)
          /\ ~(k <= m) /\ k # m + 1
          /\ j - 1 < CountAt <=> k <= m + 1 + zeros
          /\ (j - 1) - CountAt + 1 = k - (m + 1 + zeros)
      <4>1. m + 1 + zeros = c + BlockLen + CountAt /\ m + 1 <= c + BlockLen /\ k \in Nat
        BY <1>1, <1>6, Sizes
      <4>2. k <= c + BlockLen + BlockLen
        BY <1>1, <1>6
      <4> HIDE DEF zeros, n, m, c
      <4>3. QED
        BY <1>1, <2>3, <4>1, <4>2, Sizes
    <3>2. h[k] = u[j]
      BY <1>5, <1>6, <3>1
    <3> HIDE DEF j, zeros, n, c, m
    <3>3. h[k] = CountOnly(j - 1)
      BY <3>1, <3>2
    <3>4. QED
      BY <1>1, <3>1, <3>3 DEF CountOnly
  <2>4. QED
    BY <1>1, <1>6, <2>1, <2>2, <2>3, Sizes
<1> HIDE DEF zeros, n, h
<1>7. IsPaddingOf(h, message)
  <2>1. /\ Octet \subseteq S /\ Streamed
        /\ LengthField(Len(message)) \in Seq(S) /\ Len(LengthField(Len(message))) = CountLen
    OBVIOUS
  <2>2. /\ zeros \in 0..(BlockLen - 1) /\ n \in Nat /\ n % BlockLen = 0
        /\ n = Len(message) + 1 + zeros + CountLen /\ h \in Seq(S) /\ Len(h) = n
    BY <1>1, <1>2, <1>5
  <2>3. \A k \in 1..n : h[k] = IF k <= Len(message) THEN message[k]
                                ELSE IF k = Len(message) + 1 THEN 128
                                ELSE IF k <= Len(message) + 1 + zeros THEN 0
                                ELSE LengthField(Len(message))[k - (Len(message) + 1 + zeros)]
    BY <1>6
  <2>4. QED
    BY ONLY <2>1, <2>2, <2>3, IsPadding
<1>8. QED
  BY <1>7 DEF h, g

LEMMA FinalizeStep ==
  ASSUME Streamed, finalize
  PROVE  IsPaddingOf(hashed', message) /\ message' = message /\ digested' = TRUE
<1> DEFINE marked == [block EXCEPT ![buf_pos] = 128]
           pos == buf_pos + 1
           filled == ZeroFrom(marked, pos, BlockLen)
           split == WithCount(ZeroFrom(filled, 0, CountAt))
           single == WithCount(ZeroFrom(marked, pos, CountAt))
<1>0. /\ block \in [Position -> Octet] /\ buf_pos \in Position /\ total_bytes = Len(message)
      /\ hashed \in Seq(Octet)
  BY DEF Streamed
<1>1. /\ pos > CountAt => hashed' = (hashed \o process_block(filled)) \o process_block(split)
      /\ ~(pos > CountAt) => hashed' = (hashed \o <<>>) \o process_block(single)
      /\ message' = message /\ digested' = TRUE
  BY DEF finalize
<1>2. /\ \A k \in Position : filled[k] = Marked(k)
      /\ \A k \in Position : split[k] = CountOnly(k)
      /\ ~(pos > CountAt) => \A k \in Position : single[k] = Fits(k)
  BY <1>0, Shapes
<1> HIDE DEF filled, split, single, pos, marked
<1>3. PICK S : /\ Octet \subseteq S
               /\ LengthField(total_bytes) \in Seq(S) /\ Len(LengthField(total_bytes)) = CountLen
  BY CountSeq
<1>4. ASSUME NEW k \in Position
      PROVE  Marked(k) \in S /\ CountOnly(k) \in S /\ Fits(k) \in S
  <2>0. 0 \in Octet /\ 128 \in Octet /\ block[k] \in Octet
    BY <1>0 DEF Octet
  <2>1. 0 \in S /\ 128 \in S /\ block[k] \in S
    BY <1>3, <2>0
  <2>2. k >= CountAt => k - CountAt + 1 \in 1..CountLen
    BY Sizes DEF Position
  <2>3. k >= CountAt => LengthField(total_bytes)[k - CountAt + 1] \in S
    BY <1>3, <2>2, ElementOfSeq
  <2>4. k < CountAt \/ k >= CountAt
    BY Sizes DEF Position
  <2>5. QED
    BY <2>1, <2>3, <2>4 DEF Marked, CountOnly, Fits
<1>5. \A k \in 1..BlockLen : k - 1 \in Position
  BY Sizes DEF Position
<1>6. CASE pos > CountAt
  <2>1. \A k \in Position : filled[k] \in S /\ split[k] \in S
    BY <1>2, <1>4
  <2> DEFINE t == process_block(filled)
             u == process_block(split)
  <2>2. t \in Seq(S) /\ Len(t) = BlockLen /\ \A k \in 1..BlockLen : t[k] = filled[k - 1]
    BY <2>1, BlockSeq
  <2>3. u \in Seq(S) /\ Len(u) = BlockLen /\ \A k \in 1..BlockLen : u[k] = split[k - 1]
    BY <2>1, BlockSeq
  <2> HIDE DEF t, u
  <2>4. /\ \A k \in 1..BlockLen : t[k] = Marked(k - 1)
        /\ \A k \in 1..BlockLen : u[k] = CountOnly(k - 1)
    BY <1>2, <1>5, <2>2, <2>3
  <2>5. buf_pos + 1 > CountAt
    BY <1>6 DEF pos
  <2>6. IsPaddingOf((hashed \o t) \o u, message)
    BY <1>0, <1>3, <2>2, <2>3, <2>4, <2>5, FinishExtra
  <2>7. QED
    BY <1>1, <1>6, <2>6 DEF t, u
<1>7. CASE ~(pos > CountAt)
  <2>1. \A k \in Position : single[k] \in S
    BY <1>2, <1>4, <1>7
  <2> DEFINE t == process_block(single)
  <2>2. t \in Seq(S) /\ Len(t) = BlockLen /\ \A k \in 1..BlockLen : t[k] = single[k - 1]
    BY <2>1, BlockSeq
  <2> HIDE DEF t
  <2>3. \A k \in 1..BlockLen : t[k] = Fits(k - 1)
    BY <1>2, <1>5, <1>7, <2>2
  <2>4. ~(buf_pos + 1 > CountAt)
    BY <1>7 DEF pos
  <2>5. IsPaddingOf(hashed \o t, message)
    BY <1>0, <1>3, <2>2, <2>3, <2>4, FinishFits
  <2>6. hashed \o <<>> = hashed
    BY <1>0, ConcatEmptySeq
  <2>7. QED
    BY <1>1, <1>7, <2>5, <2>6 DEF t
<1>8. QED
  BY <1>1, <1>6, <1>7

(* While nothing is digested: the blocks and the buffer are the message. *)
LEMMA StreamedMessage ==
  ASSUME Streamed
  PROVE  hashed \o [k \in 1..buf_pos |-> block[k - 1]] = message
<1> DEFINE t == [k \in 1..buf_pos |-> block[k - 1]]
           h == hashed \o t
<1>1. /\ hashed \in Seq(Octet) /\ message \in Seq(Octet) /\ Len(hashed) \in Nat
      /\ buf_pos \in Nat /\ Len(message) = Len(hashed) + buf_pos
  BY Sizes, LenProperties DEF Streamed, Position
<1>2. t \in Seq(Octet) /\ Len(t) = buf_pos /\ \A k \in 1..buf_pos : t[k] = block[k - 1]
  <2>1. \A k \in 1..buf_pos : k - 1 \in Position
    BY Sizes DEF Streamed, Position
  <2>2. t \in [1..buf_pos -> Octet]
    BY <2>1 DEF Streamed
  <2>3. QED
    BY <1>1, <2>2
<1> HIDE DEF t
<1>3. \A k \in 1..buf_pos : t[k] = message[Len(hashed) + k]
  BY <1>2 DEF Streamed
<1>4. /\ h \in Seq(Octet) /\ Len(h) = Len(message)
      /\ \A k \in 1..Len(message) :
           h[k] = IF k <= Len(hashed) THEN hashed[k] ELSE t[k - Len(hashed)]
  BY <1>1, <1>2, ConcatProperties
<1> HIDE DEF h
<1>5. ASSUME NEW k \in 1..Len(message)
      PROVE  h[k] = message[k]
  <2>1. CASE k <= Len(hashed)
    BY <1>1, <1>4, <1>5, <2>1 DEF Streamed
  <2>2. CASE ~(k <= Len(hashed))
    <3>1. k - Len(hashed) \in 1..buf_pos /\ Len(hashed) + (k - Len(hashed)) = k
      BY <1>1, <1>5, <2>2
    <3>2. QED
      BY <1>3, <1>4, <1>5, <2>2, <3>1
  <2>3. QED
    BY <2>1, <2>2
<1>6. h = message
  BY <1>1, <1>4, <1>5, SeqEqual
<1>7. QED
  BY <1>6 DEF h, t

(* For every message, every size of a block and of the count: what SHA1    *)
(* compresses is the message so far and, once it is finalized, exactly the *)
(* padded message, also where the padding takes a block of its own.        *)
THEOREM CompressesPaddedMessage == ShaSpec => []HashesPaddedMessage
<1>1. ShaInit => Digesting
  <2>1. ASSUME ShaInit
        PROVE  Streamed
    <3>1. /\ <<>> \in Seq(Octet) /\ Len(<<>>) = 0 /\ 1..0 = {} /\ 0 \in Position
          /\ 0 = 0 * BlockLen /\ 0 \in Octet
      BY EmptySeq, Sizes DEF Position, Octet
    <3>2. \E q \in Nat : 0 = q * BlockLen
      BY <3>1
    <3>3. QED
      BY <2>1, <3>1, <3>2 DEF ShaInit, Streamed
  <2>2. QED
    BY <2>1 DEF Digesting, ShaInit
<1>2. Digesting /\ [ShaNext]_shaVars => Digesting'
  <2>1. ASSUME Digesting, UNCHANGED shaVars
        PROVE  Digesting'
    BY <2>1 DEF Digesting, Streamed, shaVars, IsPaddingOf
  <2>2. ASSUME Digesting, Len(message) < Len(Text), update(Text[Len(message) + 1])
        PROVE  Digesting'
    <3>1. ~digested /\ digested' = digested
      BY <2>2 DEF update
    <3>2. digested = FALSE /\ Streamed
      BY <2>2, <3>1 DEF Digesting
    <3>3. Text[Len(message) + 1] \in Octet
      <4>1. Text \in Seq(Octet) /\ message \in Seq(Octet)
        BY <3>2, Sha1Assumption DEF Streamed, Octet
      <4>2. Len(message) + 1 \in 1..Len(Text)
        BY <2>2, <4>1, LenProperties
      <4>3. QED
        BY <4>1, <4>2, ElementOfSeq
    <3>4. Streamed'
      BY <2>2, <3>2, <3>3, UpdateStep
    <3>5. QED
      BY <3>1, <3>2, <3>4 DEF Digesting
  <2>3. ASSUME Digesting, finalize
        PROVE  Digesting'
    <3>1. ~digested
      BY <2>3 DEF finalize
    <3>2. Streamed
      BY <2>3, <3>1 DEF Digesting
    <3>3. IsPaddingOf(hashed', message) /\ message' = message /\ digested' = TRUE
      BY <2>3, <3>2, FinalizeStep
    <3>4. QED
      BY <3>3 DEF Digesting
  <2>4. QED
    BY <2>1, <2>2, <2>3 DEF ShaNext
<1>3. Digesting => HashesPaddedMessage
  <2>1. ASSUME Digesting
        PROVE  HashesPaddedMessage
    <3>1. CASE digested = FALSE
      BY <2>1, <3>1, StreamedMessage DEF Digesting, HashesPaddedMessage
    <3>2. CASE digested # FALSE
      BY <2>1, <3>2 DEF Digesting, HashesPaddedMessage
    <3>3. QED
      BY <3>1, <3>2
  <2>2. QED
    BY <2>1
<1>4. QED
  BY <1>1, <1>2, <1>3, PTL DEF ShaSpec

-----------------------------------------------------------------------------
(* Base64.  24 bits, as four digits of 6 bits and as three of 8. *)

LEMMA Digits ==
  ASSUME NEW b \in Nat, b < 16777216
  PROVE  /\ (b \div 262144) % 64 \in 0..63 /\ (b \div 4096) % 64 \in 0..63
         /\ (b \div 64) % 64 \in 0..63 /\ b % 64 \in 0..63
         /\ b = ((b \div 262144) % 64) * 262144 + ((b \div 4096) % 64) * 4096
                + ((b \div 64) % 64) * 64 + (b % 64)
BY SMTT(30)

LEMMA Bytes ==
  ASSUME NEW x \in Octet, NEW y \in Octet, NEW z \in Octet,
         NEW b, b = x * 65536 + y * 256 + z
  PROVE  /\ b \in Nat /\ b < 16777216
         /\ (b \div 65536) % 256 = x /\ (b \div 256) % 256 = y /\ b % 256 = z
         /\ z = 0 => b % 64 = 0
         /\ y = 0 /\ z = 0 => (b \div 64) % 64 = 0
<1>1. b \in Nat /\ b < 16777216
  BY SMT DEF Octet
<1>2. b \div 65536 = x /\ b \div 256 = x * 256 + y /\ b % 256 = z
  BY SMT DEF Octet
<1>3. x % 256 = x /\ (x * 256 + y) % 256 = y
  BY SMT DEF Octet
<1>4. (z = 0 => b % 64 = 0) /\ (y = 0 /\ z = 0 => (b \div 64) % 64 = 0)
  BY SMT DEF Octet
<1>5. QED
  BY <1>1, <1>2, <1>3, <1>4, SMT

(* The bytes of data in the group that starts at i. *)
Third(data, i) ==
  IF i + 1 >= Len(data) THEN <<data[i + 1]>>
  ELSE IF i + 2 >= Len(data) THEN <<data[i + 1], data[i + 2]>>
  ELSE <<data[i + 1], data[i + 2], data[i + 3]>>

(* A group of characters is decoded to the bytes it encodes, full or not. *)
LEMMA GroupBack ==
  ASSUME NEW data \in Seq(Octet), NEW i \in Nat, i < Len(data),
         NEW chars, NEW m \in Nat,
         LET e == EncodeGroup(data, i)
         IN  chars[m] = e[1] /\ chars[m + 1] = e[2] /\ chars[m + 2] = e[3] /\ chars[m + 3] = e[4]
  PROVE  DecodeGroup(chars, m) = Third(data, i)
<1> DEFINE n == Len(data)
           x == data[i + 1]
           y == IF i + 1 < n THEN data[i + 2] ELSE 0
           z == IF i + 2 < n THEN data[i + 3] ELSE 0
           b == x * 65536 + y * 256 + z
           c0 == (b \div 262144) % 64
           c1 == (b \div 4096) % 64
           c2 == (b \div 64) % 64
           c3 == b % 64
           d2 == IF i + 1 < n THEN c2 ELSE Pad
           d3 == IF i + 2 < n THEN c3 ELSE Pad
<1>0. n \in Nat
  BY LenProperties
<1>1. x \in Octet /\ y \in Octet /\ z \in Octet
  <2>1. \A k \in 1..n : data[k] \in Octet
    BY ElementOfSeq
  <2>2. i + 1 \in 1..n /\ (i + 1 < n => i + 2 \in 1..n) /\ (i + 2 < n => i + 3 \in 1..n)
    BY <1>0
  <2>3. 0 \in Octet
    BY DEF Octet
  <2>4. QED
    BY <2>1, <2>2, <2>3
<1>2. EncodeGroup(data, i) = <<c0, c1, d2, d3>>
  <2>1. i + 0 < n /\ i + 0 + 1 = i + 1 /\ i + 1 + 1 = i + 2 /\ i + 2 + 1 = i + 3
    BY <1>0
  <2>2. QED
    BY <2>1, SMT DEF EncodeGroup
<1>3. chars[m] = c0 /\ chars[m + 1] = c1 /\ chars[m + 2] = d2 /\ chars[m + 3] = d3
  <2> HIDE DEF c0, c1, d2, d3
  <2>1. QED
    BY <1>2, SMT
<1> HIDE DEF x, y, z
<1>4. /\ b \in Nat /\ b < 16777216
      /\ (b \div 65536) % 256 = x /\ (b \div 256) % 256 = y /\ b % 256 = z
      /\ z = 0 => c3 = 0
      /\ y = 0 /\ z = 0 => c2 = 0
  BY <1>1, Bytes, SMT
<1> HIDE DEF b
<1>5. /\ c2 \in 0..63 /\ c3 \in 0..63
      /\ b = c0 * 262144 + c1 * 4096 + c2 * 64 + c3
  <2>1. b \in Nat /\ b < 16777216
    BY <1>4, SMT
  <2>2. QED
    BY ONLY <2>1, Digits, SMT
<1> HIDE DEF c0, c1, c2, c3
<1> DEFINE e2 == IF d2 = Pad THEN 0 ELSE d2
           e3 == IF d3 = Pad THEN 0 ELSE d3
<1>6. /\ (d2 = Pad <=> i + 1 >= n) /\ (d3 = Pad <=> i + 2 >= n)
  <2>1. c2 # Pad /\ c3 # Pad
    BY ONLY <1>5, SMT DEF Pad
  <2>2. (i + 1 < n <=> ~(i + 1 >= n)) /\ (i + 2 < n <=> ~(i + 2 >= n))
    BY <1>0, SMT
  <2>3. QED
    BY ONLY <2>1, <2>2, Zenon
<1>7. e2 = c2 /\ e3 = c3
  <2>1. i + 1 >= n => y = 0 /\ z = 0
    BY <1>0 DEF y, z
  <2>2. i + 2 >= n => z = 0
    BY <1>0 DEF z
  <2>3. QED
    BY <1>0, <1>4, <1>6, <2>1, <2>2, SMT
<1> HIDE DEF d2, d3
<1>8. b = chars[m] * 262144 + chars[m + 1] * 4096
          + (IF chars[m + 2] = Pad THEN 0 ELSE chars[m + 2]) * 64
          + (IF chars[m + 3] = Pad THEN 0 ELSE chars[m + 3])
  BY <1>3, <1>5, <1>7, SMT
<1> DEFINE b1 == (b \div 65536) % 256
           b2 == (b \div 256) % 256
           b3 == b % 256
<1>9. DecodeGroup(chars, m) = IF chars[m + 2] = Pad THEN <<b1>>
                              ELSE IF chars[m + 3] = Pad THEN <<b1, b2>> ELSE <<b1, b2, b3>>
  BY <1>8, SMT DEF DecodeGroup
<1>10. DecodeGroup(chars, m) = IF i + 1 >= n THEN <<x>>
                               ELSE IF i + 2 >= n THEN <<x, y>> ELSE <<x, y, z>>
  <2>1. b1 = x /\ b2 = y /\ b3 = z
    BY ONLY <1>4, SMT
  <2> HIDE DEF b1, b2, b3
  <2>2. (chars[m + 2] = Pad <=> i + 1 >= n) /\ (chars[m + 3] = Pad <=> i + 2 >= n)
    BY ONLY <1>3, <1>6, SMT
  <2>3. QED
    BY ONLY <1>9, <2>1, <2>2, Zenon
<1>11. CASE i + 1 >= n
  BY ONLY <1>10, <1>11, SMT DEF x, Third
<1>12. CASE ~(i + 1 >= n)
  <2>1. y = data[i + 2] /\ (i + 2 < n <=> ~(i + 2 >= n))
    BY <1>0, <1>12, SMT DEF y
  <2>2. QED
    BY ONLY <1>10, <1>12, <2>1, SMT DEF x, z, Third
<1>13. QED
  BY <1>11, <1>12, Zenon

(* The first m elements. *)
Prefix(s, m) == [k \in 1..m |-> s[k]]

LEMMA PrefixMore ==
  ASSUME NEW S, NEW s \in Seq(S), NEW m \in Nat, NEW u \in Seq(S), m + Len(u) <= Len(s),
         \A k \in 1..Len(u) : u[k] = s[m + k]
  PROVE  Prefix(s, m) \o u = Prefix(s, m + Len(u))
<1> DEFINE l == Len(u)
           a == Prefix(s, m)
           c == Prefix(s, m + l)
<1>1. l \in Nat /\ Len(s) \in Nat /\ \A k \in 1..Len(s) : s[k] \in S
  BY LenProperties, ElementOfSeq
<1> HIDE DEF l
<1>2. a \in Seq(S) /\ Len(a) = m /\ \A k \in 1..m : a[k] = s[k]
  <2>1. a \in [1..m -> S]
    BY <1>1 DEF Prefix, l
  <2>2. QED
    BY <2>1 DEF Prefix
<1>3. c \in Seq(S) /\ Len(c) = m + l /\ \A k \in 1..(m + l) : c[k] = s[k]
  <2>1. c \in [1..(m + l) -> S] /\ m + l \in Nat
    BY <1>1 DEF Prefix, l
  <2>2. QED
    BY <2>1 DEF Prefix
<1> HIDE DEF a, c
<1>4. /\ a \o u \in Seq(S) /\ Len(a \o u) = Len(a) + Len(u)
      /\ \A k \in 1..(Len(a) + Len(u)) :
           (a \o u)[k] = IF k <= Len(a) THEN a[k] ELSE u[k - Len(a)]
  BY ONLY <1>2, u \in Seq(S), ConcatProperties
<1>5. ASSUME NEW k \in 1..(m + l)
      PROVE  (a \o u)[k] = c[k]
  <2>1. CASE k <= m
    <3>1. k \in 1..m /\ k \in 1..(Len(a) + Len(u)) /\ k <= Len(a)
      BY <1>1, <1>2, <2>1 DEF l
    <3>2. a[k] = s[k] /\ c[k] = s[k]
      BY <1>2, <1>3, <3>1
    <3>3. QED
      BY <1>4, <3>1, <3>2
  <2>2. CASE ~(k <= m)
    <3>1. k - m \in 1..l /\ m + (k - m) = k
      BY <1>1, <2>2
    <3>2. u[k - m] = s[k]
      BY <3>1 DEF l
    <3>3. QED
      BY <1>1, <1>2, <1>3, <1>4, <2>2, <3>2 DEF l
  <2>3. QED
    BY <2>1, <2>2
<1>6. a \o u = c
  BY <1>2, <1>3, <1>4, <1>5, SeqEqual DEF l
<1>7. QED
  BY <1>6 DEF a, c, l

(* The bytes of a group, appended to the bytes before it. *)
LEMMA GroupAppends ==
  ASSUME NEW S, NEW s \in Seq(S), NEW i \in Nat, i < Len(s)
  PROVE  Prefix(s, i) \o Third(s, i)
           = Prefix(s, IF i + 3 <= Len(s) THEN i + 3 ELSE Len(s))
<1> DEFINE n == Len(s)
           u == Third(s, i)
<1>1. n \in Nat /\ \A k \in 1..n : s[k] \in S
  BY LenProperties, ElementOfSeq
<1>2. CASE i + 1 >= n
  <2>1. n = i + 1 /\ s[i + 1] \in S
    BY <1>1, <1>2
  <2>2. u = <<s[i + 1]>>
    BY <1>2 DEF Third
  <2>3. u \in Seq(S) /\ Len(u) = 1 /\ u[1] = s[i + 1]
    BY ONLY <2>1, <2>2
  <2> HIDE DEF u
  <2>4. \A k \in 1..1 : k = 1
    OBVIOUS
  <2>5. i + Len(u) <= Len(s) /\ \A k \in 1..Len(u) : u[k] = s[i + k]
    BY <1>1, <2>1, <2>3, <2>4
  <2>6. Prefix(s, i) \o u = Prefix(s, i + Len(u))
    BY <2>3, <2>5, PrefixMore
  <2>7. i + Len(u) = IF i + 3 <= Len(s) THEN i + 3 ELSE Len(s)
    BY <1>1, <2>1, <2>3
  <2>8. QED
    BY <2>6, <2>7 DEF u
<1>3. CASE i + 1 < n /\ i + 2 >= n
  <2>1. n = i + 2 /\ s[i + 1] \in S /\ s[i + 2] \in S
    BY <1>1, <1>3
  <2>2. u = <<s[i + 1], s[i + 2]>>
    BY <1>1, <1>3 DEF Third
  <2>3. u \in Seq(S) /\ Len(u) = 2 /\ u[1] = s[i + 1] /\ u[2] = s[i + 2]
    BY ONLY <2>1, <2>2
  <2> HIDE DEF u
  <2>4. \A k \in 1..2 : k = 1 \/ k = 2
    OBVIOUS
  <2>5. i + Len(u) <= Len(s) /\ \A k \in 1..Len(u) : u[k] = s[i + k]
    BY <1>1, <2>1, <2>3, <2>4
  <2>6. Prefix(s, i) \o u = Prefix(s, i + Len(u))
    BY <2>3, <2>5, PrefixMore
  <2>7. i + Len(u) = IF i + 3 <= Len(s) THEN i + 3 ELSE Len(s)
    BY <1>1, <2>1, <2>3
  <2>8. QED
    BY <2>6, <2>7 DEF u
<1>4. CASE i + 2 < n
  <2>1. i + 3 <= n /\ s[i + 1] \in S /\ s[i + 2] \in S /\ s[i + 3] \in S
    BY <1>1, <1>4
  <2>2. u = <<s[i + 1], s[i + 2], s[i + 3]>>
    BY <1>1, <1>4 DEF Third
  <2>3. u \in Seq(S) /\ Len(u) = 3 /\ u[1] = s[i + 1] /\ u[2] = s[i + 2] /\ u[3] = s[i + 3]
    BY ONLY <2>1, <2>2
  <2> HIDE DEF u
  <2>4. \A k \in 1..3 : k = 1 \/ k = 2 \/ k = 3
    OBVIOUS
  <2>5. i + Len(u) <= Len(s) /\ \A k \in 1..Len(u) : u[k] = s[i + k]
    BY <1>1, <2>1, <2>3, <2>4
  <2>6. Prefix(s, i) \o u = Prefix(s, i + Len(u))
    BY <2>3, <2>5, PrefixMore
  <2>7. i + Len(u) = IF i + 3 <= Len(s) THEN i + 3 ELSE Len(s)
    BY <1>1, <2>1, <2>3
  <2>8. QED
    BY <2>6, <2>7 DEF u
<1>5. QED
  BY <1>1, <1>2, <1>3, <1>4

(* Where the characters of group g are. *)
LEMMA EncodeIs ==
  ASSUME NEW data \in Seq(Octet)
  PROVE  LET gs == (Len(data) + 2) \div 3
             chars == encode(data)
         IN  /\ gs \in Nat /\ Len(chars) % 4 = 0 /\ Len(chars) \div 4 = gs
             /\ Len(data) <= 3 * gs
             /\ \A g \in 1..gs :
                  /\ 3 * (g - 1) \in Nat /\ 3 * (g - 1) < Len(data) /\ 4 * g - 3 \in Nat
                  /\ DecodeGroup(chars, 4 * g - 3) = Third(data, 3 * (g - 1))
<1> DEFINE n == Len(data)
           gs == (n + 2) \div 3
           chars == encode(data)
           at(j) == EncodeGroup(data, ((j - 1) \div 4) * 3)[((j - 1) % 4) + 1]
<1>1. n \in Nat
  BY LenProperties
<1> HIDE DEF n
<1>2. gs \in Nat /\ n <= 3 * gs /\ \A g \in 1..gs : 3 * (g - 1) < n
  BY <1>1
<1> HIDE DEF gs
<1>3. chars = [j \in 1..(gs * 4) |-> at(j)]
  BY DEF encode, gs, n
<1>4. Len(chars) = gs * 4
  <2>1. gs * 4 \in Nat
    BY <1>2
  <2> HIDE DEF at, chars
  <2>2. QED
    BY <1>3, <2>1
<1>5. (gs * 4) % 4 = 0 /\ (gs * 4) \div 4 = gs
  BY <1>2
<1>6. ASSUME NEW g \in 1..gs
      PROVE  /\ 3 * (g - 1) \in Nat /\ 4 * g - 3 \in Nat
             /\ DecodeGroup(chars, 4 * g - 3) = Third(data, 3 * (g - 1))
  <2> DEFINE i == 3 * (g - 1)
             m == 4 * g - 3
             e == EncodeGroup(data, i)
  <2>1. i \in Nat /\ m \in Nat /\ i < Len(data) /\ g \in Nat
    BY <1>2 DEF n
  <2>2. ASSUME NEW k \in 0..3
        PROVE  chars[m + k] = e[k + 1]
    <3>1. m + k \in 1..(gs * 4) /\ ((m + k) - 1) \div 4 = g - 1 /\ ((m + k) - 1) % 4 = k
      BY <1>2, <2>1
    <3>2. (g - 1) * 3 = i
      BY <2>1
    <3>3. chars[m + k] = at(m + k)
      <4> HIDE DEF at, m, chars
      <4>1. QED
        BY <1>3, <3>1
    <3>4. at(m + k) = e[k + 1]
      <4> HIDE DEF m, i
      <4>1. (((m + k) - 1) \div 4) * 3 = i /\ (((m + k) - 1) % 4) + 1 = k + 1
        BY <3>1, <3>2
      <4>2. \A x, y : x = i /\ y = k + 1 => EncodeGroup(data, x)[y] = e[k + 1]
        OBVIOUS
      <4>3. QED
        BY ONLY <4>1, <4>2, Zenon
    <3>5. QED
      BY <3>3, <3>4, Zenon
  <2>3. chars[m] = e[1] /\ chars[m + 1] = e[2] /\ chars[m + 2] = e[3] /\ chars[m + 3] = e[4]
    <3>1. 0 \in 0..3 /\ 1 \in 0..3 /\ 2 \in 0..3 /\ 3 \in 0..3 /\ m + 0 = m
      BY <2>1
    <3> HIDE DEF chars, m, e
    <3>2. chars[m + 0] = e[0 + 1] /\ chars[m + 1] = e[1 + 1] /\ chars[m + 2] = e[2 + 1]
          /\ chars[m + 3] = e[3 + 1]
      BY <2>2, <3>1
    <3>3. 0 + 1 = 1 /\ 1 + 1 = 2 /\ 2 + 1 = 3 /\ 3 + 1 = 4
      OBVIOUS
    <3>4. QED
      BY <3>1, <3>2, <3>3
  <2>4. QED
    BY <2>1, <2>3, GroupBack
<1>7. QED
  BY <1>1, <1>2, <1>4, <1>5, <1>6 DEF n, gs

-----------------------------------------------------------------------------
(* Induction, in the form the provers can use: over a set of numbers. *)

LEMMA LeastNat ==
  ASSUME NEW T \in SUBSET Nat, T # {}
  PROVE  \E x \in T : \A y \in T : x <= y
<1> DEFINE R == {ss \in Nat \X Nat : ss[1] < ss[2]}
<1>1. IsWellFoundedOn(R, Nat)
  BY NatLessThanWellFounded DEF OpToRel
<1>2. \A x, y \in Nat : x < y => <<x, y>> \in R
  OBVIOUS
<1> HIDE DEF R
<1>3. PICK x \in T : \A y \in T : ~(<<y, x>> \in R)
  BY <1>1, WFMin
<1>4. \A y \in T : ~(y < x)
  BY <1>2, <1>3
<1>5. QED
  BY <1>4

LEMMA SetInduction ==
  ASSUME NEW S, 0 \in S, \A n \in Nat : n \in S => n + 1 \in S
  PROVE  \A n \in Nat : n \in S
<1>1. SUFFICES ASSUME Nat \ S # {}
               PROVE  FALSE
  OBVIOUS
<1>2. Nat \ S \in SUBSET Nat
  OBVIOUS
<1>3. PICK x \in Nat \ S : \A y \in Nat \ S : x <= y
  BY <1>1, <1>2, LeastNat
<1>4. x # 0 /\ x - 1 \in Nat
  BY <1>3
<1>5. x - 1 \notin S
  BY <1>3, <1>4
<1>6. QED
  BY <1>3, <1>4, <1>5

(* f collects the groups G, as result does in decode. *)
Collects(f, gs, G) ==
  f = [g \in 0..gs |-> IF g = 0 THEN <<>> ELSE f[g - 1] \o G[g]]

(* What is collected is the same in every function that collects it. *)
LEMMA SameCollected ==
  ASSUME NEW gs \in Nat, NEW G, NEW f, NEW w, Collects(f, gs, G), Collects(w, gs, G)
  PROVE  f[gs] = w[gs]
<1>0. /\ f = [g \in 0..gs |-> IF g = 0 THEN <<>> ELSE f[g - 1] \o G[g]]
      /\ w = [g \in 0..gs |-> IF g = 0 THEN <<>> ELSE w[g - 1] \o G[g]]
  BY DEF Collects
<1> DEFINE S == {g \in Nat : g <= gs => f[g] = w[g]}
<1>1. 0 \in S
  <2>1. 0 \in 0..gs
    OBVIOUS
  <2>2. f[0] = <<>> /\ w[0] = <<>>
    BY <1>0, <2>1
  <2>3. QED
    BY <2>2
<1>2. ASSUME NEW g \in Nat, g \in S
      PROVE  g + 1 \in S
  <2>1. SUFFICES ASSUME g + 1 <= gs
                 PROVE  f[g + 1] = w[g + 1]
    OBVIOUS
  <2>2. g + 1 \in 0..gs /\ g + 1 # 0 /\ (g + 1) - 1 = g
    BY <2>1
  <2>3. f[g] = w[g]
    BY <1>2, <2>1
  <2> HIDE DEF S
  <2>4. f[g + 1] = f[g] \o G[g + 1] /\ w[g + 1] = w[g] \o G[g + 1]
    BY <1>0, <2>2
  <2>5. QED
    BY <2>3, <2>4
<1>3. \A g \in Nat : g \in S
  <2> HIDE DEF S
  <2>1. QED
    BY <1>1, <1>2, SetInduction
<1>4. gs \in S
  BY <1>3
<1>5. QED
  BY <1>4

(* For every sequence of bytes, decode undoes encode. *)
THEOREM DecodeEncode ==
  ASSUME NEW data \in Seq(Octet)
  PROVE  decode(encode(data)) = data
<1> DEFINE n == Len(data)
           gs == (n + 2) \div 3
           chars == encode(data)
           G == [g \in 1..gs |-> DecodeGroup(chars, 4 * g - 3)]
           upto(g) == IF 3 * g <= n THEN 3 * g ELSE n
           w == [g \in 0..gs |-> Prefix(data, upto(g))]
           f == CHOOSE r : r = [g \in 0..gs |-> IF g = 0 THEN <<>>
                                                ELSE r[g - 1] \o DecodeGroup(chars, 4 * g - 3)]
<1>1. n \in Nat
  BY LenProperties
<1>2. /\ gs \in Nat /\ Len(chars) % 4 = 0 /\ Len(chars) \div 4 = gs
      /\ n <= 3 * gs
      /\ \A g \in 1..gs :
           /\ 3 * (g - 1) \in Nat /\ 3 * (g - 1) < n /\ 4 * g - 3 \in Nat
           /\ DecodeGroup(chars, 4 * g - 3) = Third(data, 3 * (g - 1))
  BY EncodeIs
<1> HIDE DEF chars, gs, n
<1>3. decode(chars) = f[gs]
  BY <1>2 DEF decode
<1>4. ASSUME NEW g \in 0..gs
      PROVE  w[g] = IF g = 0 THEN <<>> ELSE w[g - 1] \o DecodeGroup(chars, 4 * g - 3)
  <2>1. CASE g = 0
    <3>1. upto(0) = 0 /\ 0 \in 0..gs
      BY <1>1, <1>2
    <3>2. Prefix(data, 0) = <<>>
      BY DEF Prefix
    <3>3. QED
      BY <2>1, <3>1, <3>2
  <2>2. CASE g # 0
    <3> DEFINE i == 3 * (g - 1)
    <3>1. g \in 1..gs /\ g - 1 \in 0..gs
      BY <1>2, <2>2
    <3>2. i \in Nat /\ i < n /\ DecodeGroup(chars, 4 * g - 3) = Third(data, i)
      BY <1>2, <3>1
    <3>3. /\ upto(g - 1) = i
          /\ upto(g) = IF i + 3 <= n THEN i + 3 ELSE n
      BY <1>1, <3>1, <3>2
    <3>4. Prefix(data, i) \o Third(data, i) = Prefix(data, IF i + 3 <= n THEN i + 3 ELSE n)
      BY <3>2, GroupAppends DEF n
    <3> HIDE DEF i, upto
    <3>5. w[g] = Prefix(data, upto(g)) /\ w[g - 1] = Prefix(data, upto(g - 1))
      BY <3>1
    <3>6. QED
      BY <2>2, <3>2, <3>3, <3>4, <3>5
  <2>3. QED
    BY <2>1, <2>2
<1>5. \A g \in 0..gs : g # 0 => G[g] = DecodeGroup(chars, 4 * g - 3)
  BY <1>2
<1>6. w = [g \in 0..gs |-> w[g]] /\ w[gs] = Prefix(data, n)
  <2>1. upto(gs) = n /\ gs \in 0..gs
    BY <1>1, <1>2
  <2>2. QED
    BY <2>1
<1> HIDE DEF w, G
<1>7. w = [g \in 0..gs |-> IF g = 0 THEN <<>> ELSE w[g - 1] \o DecodeGroup(chars, 4 * g - 3)]
  BY <1>4, <1>6
<1>8. f = [g \in 0..gs |-> IF g = 0 THEN <<>> ELSE f[g - 1] \o DecodeGroup(chars, 4 * g - 3)]
  BY <1>7
<1> HIDE DEF f
<1>9. Collects(w, gs, G) /\ Collects(f, gs, G)
  <2>1. ASSUME NEW r
        PROVE  [g \in 0..gs |-> IF g = 0 THEN <<>> ELSE r[g - 1] \o DecodeGroup(chars, 4 * g - 3)]
                 = [g \in 0..gs |-> IF g = 0 THEN <<>> ELSE r[g - 1] \o G[g]]
    BY <1>5
  <2>2. QED
    BY ONLY <1>7, <1>8, <2>1, Zenon DEF Collects
<1>10. f[gs] = w[gs]
  <2>1. gs \in Nat
    BY <1>2
  <2>2. QED
    BY ONLY <1>9, <2>1, SameCollected, Zenon
<1>11. Prefix(data, n) = data
  <2>1. data \in [1..n -> Octet]
    BY LenProperties DEF n
  <2>2. QED
    BY <2>1 DEF Prefix
<1>12. QED
  BY <1>3, <1>6, <1>10, <1>11 DEF chars

IsBytes == text \in Seq(Octet)

(* What is encoded is decoded to the same bytes, for every text of every   *)
(* length.                                                                 *)
THEOREM TextComesBack == TextSpec => []DecodeUndoesEncode
<1>1. TextInit => IsBytes
  BY EmptySeq DEF TextInit, IsBytes
<1>2. IsBytes /\ [TextNext]_text => IsBytes'
  BY AppendProperties, Base64Assumption DEF TextNext, AddByte, IsBytes
<1>3. IsBytes => DecodeUndoesEncode
  BY DecodeEncode DEF DecodeUndoesEncode, IsBytes
<1>4. QED
  BY <1>1, <1>2, <1>3, PTL DEF TextSpec

-----------------------------------------------------------------------------
(* The frame header and the stream of frames. *)

-----------------------------------------------------------------------------
(* Lengths on the wire. *)

LEMMA DivMod ==
  ASSUME NEW a \in Nat, NEW b \in Nat \ {0}
  PROVE  /\ a \div b \in Nat /\ a % b \in 0..(b - 1) /\ a \div b <= a
         /\ a = (a \div b) * b + (a % b)
         /\ a < b => a % b = a
OBVIOUS

LEMMA DivBound ==
  ASSUME NEW a \in Nat, NEW b \in Nat \ {0}, NEW p \in Nat, a < p * b
  PROVE  a \div b < p
<1> DEFINE q == a \div b
<1>1. q \in Nat /\ a >= q * b
  BY DivMod
<1> HIDE DEF q
<1>2. SUFFICES ASSUME q >= p
               PROVE  FALSE
  BY <1>1 DEF q
<1>3. q * b >= p * b
  BY <1>1, <1>2
<1>4. QED
  BY <1>1, <1>3

LEMMA CodecSizes ==
  /\ Half \in Nat /\ Half > 2 /\ Base \in Nat /\ Base = 2 * Half
  /\ Code16 = Half - 2 /\ Code64 = Half - 1
  /\ LongLen \in Nat /\ LongLen > 2 /\ MaskLen \in Nat /\ MaskLen > 0
  /\ OpCodes \in Nat /\ OpCodes > 0 /\ OpCodes <= Half
BY CodecAssumption DEF Base, Code16, Code64

(* H is applied to a again and again. *)
Iterates(f, len, T, H, a) ==
  f \in [0..len -> T] /\ f[0] = a /\ \A k \in 1..len : f[k] = H[f[k - 1]]

LEMMA IterationExists ==
  ASSUME NEW T, NEW a \in T, NEW H \in [T -> T], NEW len \in Nat
  PROVE  \E f : Iterates(f, len, T, H, a)
<1> DEFINE P(n, f) == f[0] = a /\ \A k \in 1..n : f[k] = H[f[k - 1]]
           S == {n \in Nat : \E f \in [0..n -> T] : P(n, f)}
<1>1. 0 \in S
  <2> DEFINE f == [k \in 0..0 |-> a]
  <2>1. f \in [0..0 -> T] /\ P(0, f)
    OBVIOUS
  <2>2. QED
    BY <2>1
<1>2. ASSUME NEW n \in Nat, n \in S
      PROVE  n + 1 \in S
  <2>1. PICK f \in [0..n -> T] : P(n, f)
    BY <1>2
  <2> DEFINE g == [k \in 0..(n + 1) |-> IF k = n + 1 THEN H[f[n]] ELSE f[k]]
  <2>2. n \in 0..n /\ f[n] \in T /\ H[f[n]] \in T
    BY <2>1
  <2>3. g \in [0..(n + 1) -> T]
    BY <2>1, <2>2
  <2>4. g[0] = a
    BY <2>1
  <2>5. ASSUME NEW k \in 1..(n + 1)
        PROVE  g[k] = H[g[k - 1]]
    <3>1. CASE k = n + 1
      BY <3>1
    <3>2. CASE k # n + 1
      <4>1. k \in 1..n /\ k - 1 # n + 1 /\ k \in 0..(n + 1) /\ k - 1 \in 0..(n + 1)
        BY <3>2
      <4>2. f[k] = H[f[k - 1]]
        BY <2>1, <4>1
      <4>3. QED
        BY <3>2, <4>1, <4>2
    <3>3. QED
      BY <3>1, <3>2
  <2> HIDE DEF g
  <2>6. P(n + 1, g)
    BY <2>4, <2>5
  <2> HIDE DEF P
  <2>7. QED
    BY <2>3, <2>6
<1>3. len \in S
  <2> HIDE DEF S
  <2>1. QED
    BY <1>1, <1>2, SetInduction
<1>4. PICK f \in [0..len -> T] : P(len, f)
  BY <1>3
<1>5. Iterates(f, len, T, H, a)
  BY <1>4 DEF Iterates
<1>6. QED
  BY <1>5

(* The powers of Base, up to the number of values of a size_t. *)
LEMMA Powers ==
  \E p \in [0..LongLen -> Nat] :
    p[0] = 1 /\ (\A k \in 1..LongLen : p[k] = p[k - 1] * Base) /\ SizeWrap = p[LongLen]
<1> DEFINE H == [x \in Nat |-> x * Base]
           E(f) == [k \in 0..LongLen |-> IF k = 0 THEN 1 ELSE f[k - 1] * Base]
           p == CHOOSE f : f = E(f)
<1>1. \A x \in Nat : x * Base \in Nat
  BY CodecSizes
<1>2. H \in [Nat -> Nat] /\ 1 \in Nat /\ \A x \in Nat : H[x] = x * Base
  BY <1>1
<1> HIDE DEF H
<1>3. PICK w : Iterates(w, LongLen, Nat, H, 1)
  BY <1>2, CodecSizes, IterationExists
<1>4. ASSUME NEW k \in 0..LongLen, k # 0
      PROVE  w[k] = w[k - 1] * Base
  <2>1. k \in 1..LongLen /\ k - 1 \in 0..LongLen
    BY <1>4, CodecSizes
  <2>2. w[k - 1] \in Nat
    BY <1>3, <2>1 DEF Iterates
  <2>3. QED
    BY <1>2, <1>3, <2>1, <2>2 DEF Iterates
<1>5. w = E(w)
  BY <1>3, <1>4 DEF Iterates
<1>6. p = E(p)
  BY <1>5
<1>7. SizeWrap = p[LongLen]
  BY DEF SizeWrap
<1> HIDE DEF p
<1>8. p[0] = 1 /\ \A k \in 1..LongLen : p[k] = p[k - 1] * Base
  <2>1. 0 \in 0..LongLen /\ \A k \in 1..LongLen : k \in 0..LongLen /\ k # 0
    BY CodecSizes
  <2>2. QED
    BY <1>6, <2>1
<1>9. \A k \in 0..LongLen : p[k] \in Nat
  <2> DEFINE S == {k \in Nat : k <= LongLen => p[k] \in Nat}
  <2>1. 0 \in S
    BY <1>8
  <2>2. ASSUME NEW k \in Nat, k \in S
        PROVE  k + 1 \in S
    <3>1. SUFFICES ASSUME k + 1 <= LongLen
                   PROVE  p[k + 1] \in Nat
      OBVIOUS
    <3>2. k + 1 \in 1..LongLen /\ (k + 1) - 1 = k /\ p[k] \in Nat
      BY <2>2, <3>1, CodecSizes
    <3>3. QED
      BY <1>1, <1>8, <3>2
  <2>3. \A k \in Nat : k \in S
    <3> HIDE DEF S
    <3>1. QED
      BY <2>1, <2>2, SetInduction
  <2>4. QED
    BY <2>3
<1>10. p \in [0..LongLen -> Nat]
  BY <1>6, <1>9
<1>11. QED
  BY <1>7, <1>8, <1>10

(* What is left of n after k shifts. *)
LEMMA Shifts ==
  ASSUME NEW n \in Nat, NEW len \in Nat
  PROVE  \E s \in [0..len -> 0..n] :
           /\ s[0] = n /\ \A k \in 1..len : s[k] = s[k - 1] \div Base
           /\ BigEndian(n, len) = [i \in 1..len |-> s[len - i] % Base]
<1> DEFINE H == [x \in 0..n |-> x \div Base]
           E(f) == [k \in 0..len |-> IF k = 0 THEN n ELSE f[k - 1] \div Base]
           s == CHOOSE f : f = E(f)
<1>1. \A x \in 0..n : x \div Base \in 0..n
  <2>1. \A x \in Nat : x \div Base \in Nat /\ x \div Base <= x
    BY CodecSizes, DivMod
  <2>2. QED
    BY <2>1
<1>2. H \in [0..n -> 0..n] /\ n \in 0..n /\ \A x \in 0..n : H[x] = x \div Base
  BY <1>1
<1> HIDE DEF H
<1>3. PICK w : Iterates(w, len, 0..n, H, n)
  BY <1>2, IterationExists
<1>4. \A k \in 0..len : k # 0 => w[k] = w[k - 1] \div Base
  <2>1. \A k \in 0..len : k # 0 => k \in 1..len /\ k - 1 \in 0..len /\ w[k - 1] \in 0..n
    BY <1>3 DEF Iterates
  <2>2. QED
    BY <1>2, <1>3, <2>1 DEF Iterates
<1>5. w = E(w)
  BY <1>3, <1>4 DEF Iterates
<1>6. s = E(s)
  BY <1>5
<1>7. BigEndian(n, len) = [i \in 1..len |-> s[len - i] % Base]
  BY DEF BigEndian
<1> HIDE DEF s
<1>8. s[0] = n /\ \A k \in 1..len : s[k] = s[k - 1] \div Base
  <2>1. 0 \in 0..len /\ \A k \in 1..len : k \in 0..len /\ k # 0
    OBVIOUS
  <2>2. QED
    BY <1>6, <2>1
<1>9. \A k \in 0..len : s[k] \in 0..n
  <2> DEFINE S == {k \in Nat : k <= len => s[k] \in 0..n}
  <2>1. 0 \in S
    BY <1>8
  <2>2. ASSUME NEW k \in Nat, k \in S
        PROVE  k + 1 \in S
    <3>1. SUFFICES ASSUME k + 1 <= len
                   PROVE  s[k + 1] \in 0..n
      OBVIOUS
    <3>2. k + 1 \in 1..len /\ (k + 1) - 1 = k /\ s[k] \in 0..n
      BY <2>2, <3>1
    <3>3. QED
      BY <1>1, <1>8, <3>2
  <2>3. \A k \in Nat : k \in S
    <3> HIDE DEF S
    <3>1. QED
      BY <2>1, <2>2, SetInduction
  <2>4. QED
    BY <2>3
<1>10. s \in [0..len -> 0..n]
  BY <1>6, <1>9
<1>11. QED
  BY <1>7, <1>8, <1>10

(* What the shifts of the parser compute: v is what they compute. *)
LEMMA NumberIs ==
  ASSUME NEW bytes, NEW l \in Nat, l = Len(bytes), NEW v, v[0] = 0,
         \A k \in 1..l : v[k] = (v[k - 1] * Base + bytes[k]) % SizeWrap
  PROVE  Number(bytes) = v[l]
<1> DEFINE E(f) == [k \in 0..l |-> IF k = 0 THEN 0 ELSE (f[k - 1] * Base + bytes[k]) % SizeWrap]
           f == CHOOSE g : g = E(g)
           w == [k \in 0..l |-> v[k]]
<1>1. ASSUME NEW k \in 0..l, k # 0
      PROVE  k \in 1..l /\ k - 1 \in 0..l
  BY <1>1
<1>2. w = E(w)
  BY <1>1
<1> HIDE DEF w
<1>3. f = E(f)
  BY <1>2
<1>4. Number(bytes) = f[l]
  BY DEF Number
<1> HIDE DEF f
<1> DEFINE S == {k \in Nat : k <= l => f[k] = v[k]}
<1>5. 0 \in S
  <2>1. 0 \in 0..l
    OBVIOUS
  <2>2. f[0] = 0
    BY <1>3, <2>1
  <2>3. QED
    BY <2>2
<1>6. ASSUME NEW k \in Nat, k \in S
      PROVE  k + 1 \in S
  <2>1. SUFFICES ASSUME k + 1 <= l
                 PROVE  f[k + 1] = v[k + 1]
    OBVIOUS
  <2>2. k + 1 \in 0..l /\ k + 1 \in 1..l /\ k + 1 # 0 /\ (k + 1) - 1 = k /\ f[k] = v[k]
    BY <1>6, <2>1
  <2> HIDE DEF S
  <2>3. f[k + 1] = (f[k] * Base + bytes[k + 1]) % SizeWrap
    BY <1>3, <2>2
  <2>4. v[k + 1] = (v[k] * Base + bytes[k + 1]) % SizeWrap
    BY <2>2
  <2>5. QED
    BY <2>2, <2>3, <2>4
<1>7. l \in S
  <2> HIDE DEF S
  <2>1. QED
    BY <1>5, <1>6, SetInduction
<1>8. QED
  BY <1>4, <1>7

(* A length that fits into the field comes back, and the field is bytes. *)
LEMMA LengthBack ==
  ASSUME NEW n \in Nat, n < SizeWrap, NEW len \in Nat,
         len = LongLen \/ (len = 2 /\ n < Base * Base)
  PROVE  /\ BigEndian(n, len) \in Seq(Byte) /\ Len(BigEndian(n, len)) = len
         /\ Number(BigEndian(n, len)) = n
<1> DEFINE bytes == BigEndian(n, len)
<1>1. PICK s \in [0..len -> 0..n] :
        /\ s[0] = n /\ \A k \in 1..len : s[k] = s[k - 1] \div Base
        /\ bytes = [i \in 1..len |-> s[len - i] % Base]
  BY Shifts
<1>2. Base \in Nat \ {0} /\ SizeWrap \in Nat \ {0}
  <2>1. SizeWrap \in Nat
    BY Powers, CodecSizes
  <2>2. QED
    BY <2>1, CodecSizes
<1>3. \A k \in 0..len : s[k] \in Nat /\ s[k] <= n /\ s[k] % Base \in Byte
  <2>1. \A x \in Nat : x % Base \in Byte
    BY <1>2, DivMod DEF Byte
  <2>2. \A k \in 0..len : s[k] \in 0..n
    OBVIOUS
  <2>3. QED
    BY <2>1, <2>2
<1>4. s[len] = 0
  <2>1. CASE len = LongLen
    <3>1. PICK p \in [0..LongLen -> Nat] :
            p[0] = 1 /\ (\A k \in 1..LongLen : p[k] = p[k - 1] * Base) /\ SizeWrap = p[LongLen]
      BY Powers
    <3> DEFINE S == {k \in Nat : k <= len => s[k] < p[len - k]}
    <3>2. 0 \in S
      BY <1>1, <2>1, <3>1
    <3>3. ASSUME NEW k \in Nat, k \in S
          PROVE  k + 1 \in S
      <4>1. SUFFICES ASSUME k + 1 <= len
                     PROVE  s[k + 1] < p[len - (k + 1)]
        OBVIOUS
      <4> DEFINE m == len - (k + 1)
      <4>2. /\ k \in 0..len /\ k + 1 \in 1..len /\ (k + 1) - 1 = k /\ s[k] < p[len - k]
            /\ m \in 0..LongLen /\ len - k \in 1..LongLen /\ (len - k) - 1 = m
        BY <2>1, <3>3, <4>1
      <4>3. p[len - k] = p[m] * Base /\ p[m] \in Nat /\ s[k] \in Nat
        BY <1>3, <3>1, <4>2
      <4>4. s[k + 1] = s[k] \div Base
        BY <1>1, <4>2
      <4>5. s[k] \div Base < p[m]
        BY <1>2, <4>2, <4>3, DivBound
      <4>6. QED
        BY <4>4, <4>5
    <3>4. len \in S
      <4> HIDE DEF S
      <4>1. QED
        BY <3>2, <3>3, SetInduction
    <3>5. s[len] < p[0] /\ s[len] \in Nat
      BY <1>3, <3>4
    <3>6. QED
      BY <3>1, <3>5
  <2>2. CASE len = 2 /\ n < Base * Base
    <3>1. s[0] = n /\ s[1] = s[0] \div Base /\ s[2] = s[1] \div Base /\ s[1] \in Nat
      <4>1. 1 \in 1..len /\ 2 \in 1..len /\ 1 - 1 = 0 /\ 2 - 1 = 1 /\ 1 \in 0..len
        BY <2>2
      <4>2. QED
        BY <1>1, <1>3, <4>1
    <3>2. s[1] < Base
      BY <1>2, <2>2, <3>1, DivBound
    <3>3. s[1] < 1 * Base
      BY <1>2, <3>1, <3>2
    <3>4. s[2] < 1 /\ s[2] \in Nat
      BY <1>2, <1>3, <2>2, <3>1, <3>3, DivBound
    <3>5. QED
      BY <2>2, <3>4
  <2>3. QED
    BY <2>1, <2>2
<1>5. bytes \in Seq(Byte) /\ Len(bytes) = len /\ \A i \in 1..len : bytes[i] = s[len - i] % Base
  <2>1. \A i \in 1..len : len - i \in 0..len
    OBVIOUS
  <2>2. bytes \in [1..len -> Byte]
    BY <1>1, <1>3, <2>1
  <2>3. QED
    BY <1>1, <2>2
<1> HIDE DEF bytes
<1> DEFINE v == [k \in 0..len |-> s[len - k]]
<1>6. v[0] = 0 /\ v[len] = n
  <2>1. 0 \in 0..len /\ len \in 0..len /\ len - 0 = len /\ len - len = 0
    OBVIOUS
  <2>2. QED
    BY <1>1, <1>4, <2>1
<1>7. ASSUME NEW k \in 1..len
      PROVE  v[k] = (v[k - 1] * Base + bytes[k]) % SizeWrap
  <2> DEFINE j == len - k
             a == s[j]
  <2>1. /\ j \in 0..len /\ j + 1 \in 1..len /\ len - (k - 1) = j + 1 /\ (j + 1) - 1 = j
        /\ k \in 0..len /\ k - 1 \in 0..len
    OBVIOUS
  <2>2. v[k] = a /\ v[k - 1] = s[j + 1] /\ s[j + 1] = a \div Base /\ bytes[k] = a % Base
    BY <1>1, <1>5, <2>1
  <2>3. a \in Nat /\ a <= n
    BY <1>3, <2>1
  <2> HIDE DEF a
  <2>4. a = (a \div Base) * Base + (a % Base) /\ a < SizeWrap
    BY <1>2, <2>3, DivMod
  <2>5. a % SizeWrap = a
    BY <1>2, <2>3, <2>4, DivMod
  <2> HIDE DEF v, j
  <2>6. (v[k - 1] * Base + bytes[k]) = a
    BY <2>2, <2>4
  <2>7. QED
    BY <2>2, <2>5, <2>6
<1> HIDE DEF v
<1>8. Number(bytes) = n
  <2>1. len = Len(bytes) /\ len \in Nat
    BY <1>5
  <2>2. Number(bytes) = v[len]
    BY ONLY <1>6, <1>7, <2>1, NumberIs, Zenon
  <2>3. QED
    BY <1>6, <2>2
<1>9. QED
  BY <1>5, <1>8 DEF bytes

(* A header is two bytes and the length field. *)
LEMMA TwoAndMore ==
  ASSUME NEW S, NEW a \in S, NEW b \in S, NEW u \in Seq(S)
  PROVE  LET s == <<a>> \o (<<b>> \o u)
         IN  /\ s \in Seq(S) /\ Len(s) = 2 + Len(u) /\ s[1] = a /\ s[2] = b
             /\ \A i \in 1..Len(u) : s[2 + i] = u[i]
<1> DEFINE x == <<a>>
           y == <<b>>
           t == y \o u
           s == x \o t
           l == Len(u)
<1>1. x \in Seq(S) /\ y \in Seq(S) /\ Len(x) = 1 /\ Len(y) = 1 /\ x[1] = a /\ y[1] = b /\ l \in Nat
  BY LenProperties
<1> HIDE DEF x, y
<1>2. /\ t \in Seq(S) /\ Len(t) = Len(y) + Len(u)
      /\ \A i \in 1..(Len(y) + Len(u)) : t[i] = IF i <= Len(y) THEN y[i] ELSE u[i - Len(y)]
  BY ONLY <1>1, u \in Seq(S), ConcatProperties
<1> HIDE DEF t
<1>3. /\ s \in Seq(S) /\ Len(s) = Len(x) + Len(t)
      /\ \A i \in 1..(Len(x) + Len(t)) : s[i] = IF i <= Len(x) THEN x[i] ELSE t[i - Len(x)]
  <2>1. x \in Seq(S) /\ t \in Seq(S)
    BY <1>1, <1>2
  <2>2. QED
    BY ONLY <2>1, ConcatProperties
<1> HIDE DEF s, l
<1>4. /\ Len(t) = 1 + l /\ t[1] = b
      /\ \A i \in 1..l : t[1 + i] = u[i]
  <2>1. Len(t) = 1 + l /\ \A i \in 1..(1 + l) : t[i] = IF i <= 1 THEN y[i] ELSE u[i - 1]
    BY <1>1, <1>2 DEF l
  <2>2. 1 \in 1..(1 + l) /\ \A i \in 1..l : 1 + i \in 1..(1 + l) /\ ~(1 + i <= 1) /\ (1 + i) - 1 = i
    BY <1>1
  <2>3. QED
    BY <1>1, <2>1, <2>2
<1>5. /\ Len(s) = 2 + l /\ s[1] = a
      /\ \A i \in 1..(1 + l) : s[1 + i] = t[i]
  <2>1. Len(s) = 2 + l /\ \A i \in 1..(2 + l) : s[i] = IF i <= 1 THEN x[i] ELSE t[i - 1]
    BY <1>1, <1>3, <1>4
  <2>2. 1 \in 1..(2 + l) /\ \A i \in 1..(1 + l) : 1 + i \in 1..(2 + l) /\ ~(1 + i <= 1) /\ (1 + i) - 1 = i
    BY <1>1
  <2>3. QED
    BY <1>1, <2>1, <2>2
<1>6. /\ s[2] = b
      /\ \A i \in 1..l : s[2 + i] = u[i]
  <2>1. 1 \in 1..(1 + l) /\ 1 + 1 = 2 /\ \A i \in 1..l : 1 + i \in 1..(1 + l) /\ 1 + (1 + i) = 2 + i
    BY <1>1
  <2>2. QED
    BY <1>4, <1>5, <2>1
<1>7. QED
  BY <1>3, <1>5, <1>6 DEF s, t, x, y, l

(* The seven bits that encode_frame_header writes for a length of n. *)
LengthCode(n) == IF n < Code16 THEN n ELSE IF n < Base * Base THEN Code16 ELSE Code64

Top(mask) == IF mask THEN Half ELSE 0

LEMMA HeaderIs ==
  ASSUME NEW op \in 0..(OpCodes - 1), NEW n \in Nat, n < SizeWrap, NEW mask \in BOOLEAN
  PROVE  LET h == encode_frame_header(op, n, mask)
             code == LengthCode(n)
             ext == Extension(code)
         IN  /\ h \in Seq(Byte) /\ Len(h) = 2 + ext /\ ext \in Nat
             /\ h[1] = Half + op /\ h[2] = Top(mask) + code
             /\ code \in Nat /\ code < Half
             /\ ext = 0 => code = n
             /\ ext # 0 => \E b \in Seq(Byte) : /\ Len(b) = ext /\ Number(b) = n
                                                /\ \A i \in 1..ext : h[2 + i] = b[i]
<1> DEFINE h == encode_frame_header(op, n, mask)
           code == LengthCode(n)
           ext == Extension(code)
           top == Top(mask)
<1>0. top \in Nat /\ top <= Half
  BY CodecSizes DEF Top
<1>1. /\ code \in Nat /\ code < Half
      /\ Half + op \in Byte /\ top + code \in Byte
  BY CodecSizes, <1>0 DEF LengthCode, Byte
<1>2. /\ n < Code16 => code = n /\ ext = 0
      /\ ~(n < Code16) /\ n < Base * Base => code = Code16 /\ ext = 2
      /\ ~(n < Code16) /\ ~(n < Base * Base) => code = Code64 /\ ext = LongLen
  BY CodecSizes DEF LengthCode, Extension
<1> DEFINE u == IF n < Code16 THEN <<>> ELSE BigEndian(n, ext)
<1>3. u \in Seq(Byte) /\ Len(u) = ext /\ ext \in Nat /\ (ext # 0 => Number(u) = n)
  <2>1. CASE n < Code16
    BY <1>2, <2>1, EmptySeq
  <2>2. CASE ~(n < Code16)
    <3>1. ext \in Nat /\ (ext = LongLen \/ (ext = 2 /\ n < Base * Base))
      BY <1>2, <2>2, CodecSizes
    <3>2. u = BigEndian(n, ext)
      BY <2>2
    <3> HIDE DEF ext, u
    <3>3. QED
      BY <3>1, <3>2, LengthBack
  <2>3. QED
    BY <2>1, <2>2
<1>4. h = <<Half + op>> \o (<<top + code>> \o u)
  <2>1. CASE n < Code16
    <3>1. h = <<Half + op>> \o <<top + n>>
      BY <2>1 DEF encode_frame_header, Top
    <3>2. <<top + code>> \in Seq(Byte)
      BY <1>1
    <3>3. <<top + code>> \o <<>> = <<top + code>>
      BY ONLY <3>2, ConcatEmptySeq
    <3>4. QED
      BY <1>2, <2>1, <3>1, <3>3
  <2>2. CASE ~(n < Code16) /\ n < Base * Base
    BY <1>2, <2>2 DEF encode_frame_header, Top
  <2>3. CASE ~(n < Code16) /\ ~(n < Base * Base)
    BY <1>2, <2>3 DEF encode_frame_header, Top
  <2>4. QED
    BY <2>1, <2>2, <2>3
<1> HIDE DEF u, h, ext, code, top
<1> DEFINE a == Half + op
           c == top + code
<1>5. a \in Byte /\ c \in Byte
  BY <1>1
<1> HIDE DEF a, c
<1>6. h = <<a>> \o (<<c>> \o u)
  BY <1>4 DEF a, c
<1>7. /\ h \in Seq(Byte) /\ Len(h) = 2 + Len(u) /\ h[1] = a /\ h[2] = c
      /\ \A i \in 1..Len(u) : h[2 + i] = u[i]
  BY <1>3, <1>5, <1>6, TwoAndMore
<1>8. ext = 0 => code = n
  <2>1. 2 # 0 /\ LongLen # 0
    BY CodecSizes
  <2>2. QED
    BY <1>2, <2>1
<1>9. QED
  BY <1>1, <1>3, <1>7, <1>8 DEF a, c, h, ext, code, top

LEMMA OpBack ==
  ASSUME NEW op \in 0..(OpCodes - 1)
  PROVE  (Half + op) % OpCodes = op
<1>1. OpCodes \in Nat \ {0} /\ Half \in Nat /\ Half % OpCodes = 0
  BY CodecAssumption
<1> DEFINE q == Half \div OpCodes
<1>2. q \in Nat /\ Half = q * OpCodes
  BY <1>1, DivMod
<1> HIDE DEF q
<1>3. (q * OpCodes + op) % OpCodes = op
  BY <1>1, <1>2
<1>4. QED
  BY <1>2, <1>3

(* Bytes from the header of a frame to its payload. *)
KeyLen(mask) == IF mask THEN MaskLen ELSE 0

Parsed(op, n, mask) ==
  [size |-> Len(encode_frame_header(op, n, mask)) + KeyLen(mask), fin |-> TRUE,
   opcode |-> op, masked |-> mask, payload_len |-> n]

(* parse_frame_header reads what encode_frame_header wrote, as soon as all *)
(* of it is there, and nothing before that.                                *)
LEMMA ParseIs ==
  ASSUME NEW op \in 0..(OpCodes - 1), NEW n \in Nat, n < SizeWrap, NEW mask \in BOOLEAN,
         NEW data \in Seq(Byte),
         \A j \in 1..Len(encode_frame_header(op, n, mask)) :
           j <= Len(data) => data[j] = encode_frame_header(op, n, mask)[j]
  PROVE  parse_frame_header(data) = IF Len(data) < Parsed(op, n, mask).size THEN Incomplete
                                    ELSE Parsed(op, n, mask)
<1> DEFINE h == encode_frame_header(op, n, mask)
           code == LengthCode(n)
           ext == Extension(code)
           size == Len(h) + KeyLen(mask)
<1>1. /\ h \in Seq(Byte) /\ Len(h) = 2 + ext /\ ext \in Nat
      /\ h[1] = Half + op /\ h[2] = Top(mask) + code
      /\ code \in Nat /\ code < Half
      /\ ext = 0 => code = n
      /\ ext # 0 => \E b \in Seq(Byte) : /\ Len(b) = ext /\ Number(b) = n
                                         /\ \A i \in 1..ext : h[2 + i] = b[i]
  BY HeaderIs
<1>2. (Top(mask) + code) % Half = code /\ (Top(mask) + code >= Half <=> mask)
  <2>1. code \in Nat /\ code < Half /\ Half \in Nat \ {0}
    BY <1>1, CodecSizes
  <2> HIDE DEF code
  <2>2. (1 * Half + code) % Half = code /\ code % Half = code /\ 1 * Half = Half
    BY ONLY <2>1
  <2>3. CASE mask
    BY <2>1, <2>2, <2>3 DEF Top
  <2>4. CASE ~mask
    <3>1. Top(mask) + code = code
      BY <2>1, <2>4 DEF Top
    <3>2. QED
      BY <2>1, <2>2, <2>4, <3>1
  <2>5. QED
    BY <2>3, <2>4
<1>3. \A j \in 1..Len(h) : j <= Len(data) => data[j] = h[j]
  OBVIOUS
<1> HIDE DEF h
<1>4. h[2] % Half = code /\ (h[2] >= Half <=> mask) /\ HeaderSize(h[2]) = size
  <2>1. h[2] % Half = code /\ (h[2] >= Half <=> mask)
    BY <1>1, <1>2
  <2>2. HeaderSize(h[2]) = 2 + ext + (IF h[2] >= Half THEN MaskLen ELSE 0)
    BY <2>1 DEF HeaderSize
  <2> HIDE DEF ext, code
  <2>3. QED
    BY <1>1, <2>1, <2>2 DEF KeyLen
<1> HIDE DEF ext, code
<1>5. Len(data) \in Nat /\ size \in Nat /\ size >= 2 + ext
  <2>1. KeyLen(mask) \in Nat
    BY CodecSizes DEF KeyLen
  <2> DEFINE q == KeyLen(mask)
             m == Len(h)
  <2>2. m \in Nat /\ m = 2 + ext /\ ext \in Nat /\ q \in Nat
    BY <1>1, <2>1, LenProperties
  <2> HIDE DEF q, m
  <2>3. m + q \in Nat /\ m + q >= 2 + ext
    BY ONLY <2>2
  <2>4. QED
    BY <2>3, LenProperties DEF q, m
<1> HIDE DEF size
<1>6. Parsed(op, n, mask) = [size |-> size, fin |-> TRUE, opcode |-> op, masked |-> mask,
                             payload_len |-> n]
  BY DEF Parsed, size, h
<1>7. Parsed(op, n, mask).size = size
  BY <1>6
<1>8. CASE Len(data) < 2
  <2>1. Len(data) < size
    BY <1>1, <1>5, <1>8
  <2>2. parse_frame_header(data) = Incomplete
    BY <1>8 DEF parse_frame_header
  <2>3. QED
    BY <1>7, <2>1, <2>2
<1>9. CASE Len(data) >= 2
  <2>1. 1 \in 1..Len(h) /\ 2 \in 1..Len(h)
    BY <1>1
  <2>2. data[1] = h[1] /\ data[2] = h[2]
    BY <1>3, <1>5, <1>9, <2>1
  <2>3. CASE Len(data) < size
    BY <1>4, <1>7, <2>2, <2>3 DEF parse_frame_header
  <2>4. CASE ~(Len(data) < size)
    <3> DEFINE len == IF ext = 0 THEN code ELSE Number(SubSeq(data, 3, 2 + ext))
    <3>1. len = n
      <4>1. CASE ext = 0
        BY <1>1, <4>1
      <4>2. CASE ext # 0
        <5>1. PICK b \in Seq(Byte) : /\ Len(b) = ext /\ Number(b) = n
                                     /\ \A i \in 1..ext : h[2 + i] = b[i]
          BY <1>1, <4>2
        <5> DEFINE d == SubSeq(data, 3, 2 + ext)
        <5>2. \A i \in 3..(2 + ext) : data[i] \in Byte
          <6>1. \A i \in 1..Len(data) : data[i] \in Byte
            BY ElementOfSeq
          <6>2. \A i \in 3..(2 + ext) : i \in 1..Len(data)
            BY <1>1, <1>5, <2>4
          <6>3. QED
            BY <6>1, <6>2
        <5>3. 3 \in Int /\ 2 + ext \in Int /\ 3 <= 2 + ext /\ (2 + ext) - 3 + 1 = ext
          BY <1>1, <4>2
        <5>4. /\ d \in Seq(Byte) /\ Len(d) = (IF 3 <= 2 + ext THEN (2 + ext) - 3 + 1 ELSE 0)
              /\ \A i \in 1..((2 + ext) - 3 + 1) : d[i] = data[3 + i - 1]
          BY ONLY <5>2, <5>3, SubSeqProperties
        <5>5. /\ Len(d) = ext
              /\ \A i \in 1..ext : d[i] = data[3 + i - 1]
          BY <5>3, <5>4
        <5> HIDE DEF d
        <5>6. ASSUME NEW i \in 1..ext
              PROVE  d[i] = b[i]
          <6>1. 3 + i - 1 = 2 + i /\ 2 + i \in 1..Len(h) /\ 2 + i <= Len(data)
            BY <1>1, <1>5, <2>4
          <6>2. QED
            BY <1>3, <5>1, <5>5, <6>1
        <5>7. d = b
          BY <5>1, <5>4, <5>5, <5>6, SeqEqual
        <5>8. QED
          BY <4>2, <5>1, <5>7 DEF d
      <4>3. QED
        BY <4>1, <4>2
    <3> HIDE DEF len
    <3>2. parse_frame_header(data) =
            [size |-> size, fin |-> data[1] >= Half, opcode |-> data[1] % OpCodes,
             masked |-> data[2] >= Half, payload_len |-> len]
      BY <1>4, <1>9, <1>5, <2>2, <2>4 DEF parse_frame_header, ext, len
    <3>3. (data[1] >= Half) = TRUE /\ data[1] % OpCodes = op /\ (data[2] >= Half) = mask
      <4>1. Half + op >= Half
        BY CodecSizes
      <4>2. QED
        BY <1>1, <1>4, <2>2, <4>1, OpBack
    <3>4. QED
      BY <1>6, <1>7, <2>4, <3>1, <3>2, <3>3
  <2>5. QED
    BY <2>3, <2>4
<1>10. QED
  BY <1>5, <1>8, <1>9

LEMMA FunctionIsSeq ==
  ASSUME NEW S, NEW n \in Nat, NEW y \in [1..n -> S]
  PROVE  y \in Seq(S) /\ Len(y) = n
OBVIOUS

LEMMA Cat ==
  ASSUME NEW S, NEW s \in Seq(S), NEW t \in Seq(S)
  PROVE  /\ s \o t \in Seq(S) /\ Len(s) \in Nat /\ Len(t) \in Nat
         /\ Len(s \o t) = Len(s) + Len(t)
         /\ \A i \in 1..Len(s) : (s \o t)[i] = s[i]
         /\ \A i \in 1..Len(t) : (s \o t)[Len(s) + i] = t[i]
<1> DEFINE u == s \o t
           l == Len(s)
           m == Len(t)
<1>1. l \in Nat /\ m \in Nat
  BY LenProperties
<1>2. /\ u \in Seq(S) /\ Len(u) = l + m
      /\ \A i \in 1..(l + m) : u[i] = IF i <= l THEN s[i] ELSE t[i - l]
  BY ONLY s \in Seq(S), t \in Seq(S), ConcatProperties
<1> HIDE DEF u, l, m
<1>3. \A i \in 1..l : i \in 1..(l + m) /\ i <= l
  BY <1>1
<1>4. \A i \in 1..m : l + i \in 1..(l + m) /\ ~(l + i <= l) /\ (l + i) - l = i
  BY <1>1
<1>5. (\A i \in 1..l : u[i] = s[i]) /\ (\A i \in 1..m : u[l + i] = t[i])
  BY <1>2, <1>3, <1>4
<1>6. QED
  BY <1>1, <1>2, <1>5 DEF u, l, m

-----------------------------------------------------------------------------
(* A frame, and a stream of frames. *)

(* The payloads whose frames have a size that fits into a size_t. *)
Sendable == {p \in Seq(Byte) : Len(p) + 2 + LongLen + MaskLen < SizeWrap}

Masked(p) == [i \in 1..Len(p) |-> Xor(p[i], Key[((i - 1) % MaskLen) + 1])]

Frame(p, mask) ==
  IF mask THEN (encode_frame_header(TextOp, Len(p), TRUE) \o Key) \o Masked(p)
  ELSE encode_frame_header(TextOp, Len(p), FALSE) \o p

(* Where the payload of the frame starts. *)
Start(p, mask) == Parsed(TextOp, Len(p), mask).size

LEMMA KeyIs ==
  /\ Key \in Seq(Byte) /\ Len(Key) = MaskLen
  /\ \A i \in Nat \ {0} : ((i - 1) % MaskLen) + 1 \in 1..MaskLen /\ Key[((i - 1) % MaskLen) + 1] \in Byte
<1>1. Key \in [1..MaskLen -> Byte] /\ MaskLen \in Nat \ {0}
  BY WireAssumption, CodecSizes
<1>2. ASSUME NEW i \in Nat \ {0}
      PROVE  ((i - 1) % MaskLen) + 1 \in 1..MaskLen
  <2>1. (i - 1) % MaskLen \in 0..(MaskLen - 1)
    BY <1>1, DivMod
  <2>2. QED
    BY <1>1, <2>1
<1>3. QED
  BY <1>1, <1>2

LEMMA SendableIs ==
  ASSUME NEW p \in Sendable
  PROVE  /\ p \in Seq(Byte) /\ Len(p) \in Nat /\ Len(p) < SizeWrap /\ SizeWrap \in Nat
         /\ Len(p) + 2 + LongLen + MaskLen < SizeWrap
         /\ \A i \in 1..Len(p) : p[i] \in Byte
<1>1. p \in Seq(Byte) /\ Len(p) + 2 + LongLen + MaskLen < SizeWrap
  BY DEF Sendable
<1>2. Len(p) \in Nat /\ SizeWrap \in Nat
  BY <1>1, LenProperties, Powers, CodecSizes
<1>3. QED
  BY <1>1, <1>2, CodecSizes, ElementOfSeq

LEMMA FrameIs ==
  ASSUME NEW p \in Sendable, NEW mask \in BOOLEAN
  PROVE  LET f == Frame(p, mask)
             h == encode_frame_header(TextOp, Len(p), mask)
             z == Start(p, mask)
         IN  /\ f \in Seq(Byte) /\ Len(f) \in Nat /\ z \in Nat /\ z >= 2
             /\ Len(f) = z + Len(p) /\ Len(f) < SizeWrap
             /\ Len(h) \in Nat /\ Len(h) >= 2 /\ z = Len(h) + KeyLen(mask)
             /\ \A j \in 1..Len(h) : f[j] = h[j]
             /\ mask => \A j \in 1..MaskLen : f[Len(h) + j] = Key[j]
             /\ \A i \in 1..Len(p) :
                  f[z + i] = IF mask THEN Xor(p[i], Key[((i - 1) % MaskLen) + 1]) ELSE p[i]
<1> DEFINE f == Frame(p, mask)
           h == encode_frame_header(TextOp, Len(p), mask)
           n == Len(p)
           l == Len(h)
           z == Start(p, mask)
<1>1. /\ n \in Nat /\ n < SizeWrap /\ TextOp \in 0..(OpCodes - 1) /\ p \in Seq(Byte)
      /\ n + 2 + LongLen + MaskLen < SizeWrap /\ SizeWrap \in Nat
      /\ \A i \in 1..n : p[i] \in Byte
  BY SendableIs, WireAssumption
<1>2. /\ h \in Seq(Byte) /\ l \in Nat /\ l >= 2 /\ l <= 2 + LongLen
  <2> DEFINE ext == Extension(LengthCode(n))
  <2>1. h \in Seq(Byte) /\ Len(h) = 2 + ext /\ ext \in Nat
    BY <1>1, HeaderIs
  <2>2. ext <= LongLen
    BY CodecSizes DEF Extension
  <2> HIDE DEF ext, h
  <2>3. QED
    BY <2>1, <2>2, CodecSizes
<1>3. z = l + KeyLen(mask)
  BY DEF Start, Parsed
<1> HIDE DEF n, h, z
<1>4. z \in Nat /\ z >= 2 /\ z <= 2 + LongLen + MaskLen
  BY <1>2, <1>3, CodecSizes DEF KeyLen
<1>5. CASE mask
  <2> DEFINE x == Masked(p)
             a == h \o Key
  <2>1. f = a \o x /\ z = l + MaskLen
    BY <1>3, <1>5 DEF Frame, h, n, KeyLen
  <2>2. x \in Seq(Byte) /\ Len(x) = n /\ \A i \in 1..n : x[i] = Xor(p[i], Key[((i - 1) % MaskLen) + 1])
    <3>1. \A i \in 1..n : Xor(p[i], Key[((i - 1) % MaskLen) + 1]) \in Byte
      BY <1>1, KeyIs, WireAssumption
    <3>2. x = [i \in 1..n |-> Xor(p[i], Key[((i - 1) % MaskLen) + 1])]
      BY DEF Masked, n
    <3>3. x \in [1..n -> Byte]
      BY <3>1, <3>2
    <3>4. \A i \in 1..n : x[i] = Xor(p[i], Key[((i - 1) % MaskLen) + 1])
      BY <3>2
    <3> HIDE DEF x
    <3>5. n \in Nat
      BY <1>1
    <3>6. x \in Seq(Byte) /\ Len(x) = n
      BY ONLY <3>3, <3>5
    <3>7. QED
      BY <3>4, <3>6
  <2> HIDE DEF x, f
  <2>3. /\ a \in Seq(Byte) /\ Len(a) = l + MaskLen
        /\ \A i \in 1..l : a[i] = h[i]
        /\ \A i \in 1..MaskLen : a[l + i] = Key[i]
    <3>0. Len(Key) = MaskLen
      BY KeyIs
    <3>1. h \in Seq(Byte) /\ Key \in Seq(Byte)
      BY <1>2, KeyIs
    <3>2. /\ a \in Seq(Byte) /\ Len(a) = Len(h) + Len(Key)
          /\ \A i \in 1..Len(h) : a[i] = h[i]
          /\ \A i \in 1..Len(Key) : a[Len(h) + i] = Key[i]
      BY ONLY <3>1, Cat
    <3> HIDE DEF a
    <3>3. QED
      BY <3>0, <3>2
  <2> HIDE DEF a
  <2>4. /\ f \in Seq(Byte) /\ Len(f) = Len(a) + Len(x)
        /\ \A i \in 1..Len(a) : f[i] = a[i]
        /\ \A i \in 1..Len(x) : f[Len(a) + i] = x[i]
    <3>1. a \in Seq(Byte) /\ x \in Seq(Byte)
      BY <2>2, <2>3
    <3>2. /\ a \o x \in Seq(Byte) /\ Len(a \o x) = Len(a) + Len(x)
          /\ \A i \in 1..Len(a) : (a \o x)[i] = a[i]
          /\ \A i \in 1..Len(x) : (a \o x)[Len(a) + i] = x[i]
      BY ONLY <3>1, Cat
    <3>3. QED
      BY <2>1, <3>2
  <2>5. Len(a) = z /\ Len(f) = z + n /\ Len(f) < SizeWrap /\ Len(f) \in Nat
    BY <1>1, <1>4, <2>1, <2>2, <2>3, <2>4, CodecSizes
  <2>6. \A j \in 1..l : f[j] = h[j]
    <3>1. \A j \in 1..l : j \in 1..Len(a)
      BY <1>2, <2>3, CodecSizes
    <3>2. QED
      BY <2>3, <2>4, <3>1
  <2>7. \A j \in 1..MaskLen : f[l + j] = Key[j]
    <3>1. \A j \in 1..MaskLen : l + j \in 1..Len(a)
      BY <1>2, <2>3, CodecSizes
    <3>2. QED
      BY <2>3, <2>4, <3>1
  <2>8. \A i \in 1..n : f[z + i] = Xor(p[i], Key[((i - 1) % MaskLen) + 1])
    BY <2>2, <2>4, <2>5
  <2>9. \A i \in 1..n : f[z + i] = IF mask THEN Xor(p[i], Key[((i - 1) % MaskLen) + 1]) ELSE p[i]
    BY <1>5, <2>8
  <2>10. QED
    BY <1>2, <1>3, <1>4, <1>5, <2>4, <2>5, <2>6, <2>7, <2>9 DEF n, h, z, f
<1>6. CASE ~mask
  <2>1. f = h \o p /\ z = l
    <3>1. mask = FALSE
      BY <1>6
    <3>2. f = h \o p
      BY <3>1 DEF Frame, h, n
    <3>3. KeyLen(mask) = 0
      BY <3>1 DEF KeyLen
    <3>4. QED
      BY <1>2, <1>3, <3>2, <3>3
  <2> HIDE DEF f
  <2>2. /\ f \in Seq(Byte) /\ Len(f) = l + n
        /\ \A i \in 1..l : f[i] = h[i]
        /\ \A i \in 1..n : f[l + i] = p[i]
    <3>1. h \in Seq(Byte) /\ p \in Seq(Byte)
      BY <1>1, <1>2
    <3>2. /\ h \o p \in Seq(Byte) /\ Len(h \o p) = Len(h) + Len(p)
          /\ \A i \in 1..Len(h) : (h \o p)[i] = h[i]
          /\ \A i \in 1..Len(p) : (h \o p)[Len(h) + i] = p[i]
      BY ONLY <3>1, Cat
    <3>3. QED
      BY <2>1, <3>2 DEF n
  <2>3. Len(f) < SizeWrap /\ Len(f) \in Nat
    <3>1. Len(f) = l + n
      BY <2>2
    <3> HIDE DEF l
    <3>2. QED
      BY <1>1, <1>2, <3>1, CodecSizes
  <2>4. QED
    BY <1>2, <1>3, <1>4, <1>6, <2>1, <2>2, <2>3 DEF n, h, z, f
<1>7. QED
  BY <1>5, <1>6

(* Frame k of ps is in the stream s, which starts where frame from + 1     *)
(* does: e says where each one does.                                       *)
FrameAt(s, ps, from, e, k, mask) ==
  /\ e[k + 1] = e[k] + Len(Frame(ps[k], mask))
  /\ \A j \in 1..Len(Frame(ps[k], mask)) :
       s[(e[k] - e[from + 1]) + j] = Frame(ps[k], mask)[j]

Edges(s, ps, from, e) ==
  /\ e \in Seq(Nat) /\ Len(e) = Len(ps) + 1
  /\ \A j, k \in 1..(Len(ps) + 1) : j <= k => e[j] <= e[k]
  /\ Len(s) = e[Len(ps) + 1] - e[from + 1]

(* The stream s is the frames of the payloads after the first `from`, and  *)
(* nothing else; a frame may be masked if Masks says so.                   *)
Framed(s, ps, from, Masks) ==
  \E e : /\ Edges(s, ps, from, e)
         /\ \A k \in (from + 1)..Len(ps) : \E mask \in Masks : FrameAt(s, ps, from, e, k, mask)

LEMMA Within ==
  ASSUME NEW a \in Nat, NEW b \in Nat, NEW d \in Nat, NEW l \in Nat, b <= a, a + l <= d,
         NEW j \in 1..l
  PROVE  (a - b) + j \in 1..(d - b)
OBVIOUS

LEMMA FramedEnd ==
  ASSUME NEW s \in Seq(Byte), NEW ps \in Seq(Sendable), NEW Masks,
         Framed(s, ps, Len(ps), Masks)
  PROVE  s = <<>>
<1>1. PICK e : Edges(s, ps, Len(ps), e)
  BY DEF Framed
<1>2. Len(ps) \in Nat /\ Len(ps) + 1 \in 1..(Len(ps) + 1)
  BY LenProperties
<1>3. e[Len(ps) + 1] \in Nat
  BY <1>1, <1>2, ElementOfSeq DEF Edges
<1>4. Len(s) = 0
  BY <1>1, <1>3 DEF Edges
<1>5. QED
  BY <1>4, EmptySeq

(* A frame that is sent becomes the last one of the stream. *)
LEMMA FramedMore ==
  ASSUME NEW s \in Seq(Byte), NEW ps \in Seq(Sendable), NEW from \in 0..Len(ps),
         NEW Masks \in SUBSET BOOLEAN, Framed(s, ps, from, Masks),
         NEW p \in Sendable, NEW m \in Masks
  PROVE  Framed(s \o Frame(p, m), Append(ps, p), from, Masks)
<1> DEFINE n == Len(ps)
           f == Frame(p, m)
           qs == Append(ps, p)
           t == s \o f
<1>1. PICK e : /\ Edges(s, ps, from, e)
               /\ \A k \in (from + 1)..n : \E mask \in Masks : FrameAt(s, ps, from, e, k, mask)
  BY DEF Framed
<1>2. n \in Nat /\ from \in Nat /\ from <= n
  BY LenProperties
<1>3. f \in Seq(Byte) /\ Len(f) \in Nat
  BY FrameIs
<1> HIDE DEF f
<1>4. /\ t \in Seq(Byte) /\ Len(s) \in Nat /\ Len(t) = Len(s) + Len(f)
      /\ \A i \in 1..Len(s) : t[i] = s[i]
      /\ \A i \in 1..Len(f) : t[Len(s) + i] = f[i]
  BY <1>3, Cat
<1>5. /\ qs \in Seq(Sendable) /\ Len(qs) = n + 1 /\ qs[n + 1] = p
      /\ \A k \in 1..n : qs[k] = ps[k]
  BY AppendProperties
<1> HIDE DEF qs, t
<1>6. /\ e \in Seq(Nat) /\ Len(e) = n + 1
      /\ \A j, k \in 1..(n + 1) : j <= k => e[j] <= e[k]
      /\ Len(s) = e[n + 1] - e[from + 1]
  BY <1>1 DEF Edges
<1>7. \A k \in 1..(n + 1) : e[k] \in Nat
  BY <1>6, ElementOfSeq
<1> HIDE DEF n
<1> DEFINE end == e[n + 1] + Len(f)
           d == Append(e, end)
<1>8. end \in Nat /\ n + 1 \in 1..(n + 1) /\ from + 1 \in 1..(n + 1)
  BY <1>2, <1>3, <1>7
<1>9. /\ d \in Seq(Nat) /\ Len(d) = n + 2 /\ d[n + 2] = end
      /\ \A k \in 1..(n + 1) : d[k] = e[k]
  <2> HIDE DEF end
  <2>1. e \in Seq(Nat) /\ end \in Nat
    BY <1>6, <1>8
  <2>2. /\ d \in Seq(Nat) /\ Len(d) = Len(e) + 1 /\ d[Len(e) + 1] = end
        /\ \A k \in 1..Len(e) : d[k] = e[k]
    BY ONLY <2>1, AppendProperties
  <2>3. Len(e) + 1 = n + 2
    BY <1>2, <1>6
  <2> HIDE DEF d
  <2>4. QED
    BY <1>6, <2>2, <2>3
<1> HIDE DEF d
<1>10. Edges(t, qs, from, d)
  <2>1. \A j, k \in 1..(n + 2) : j <= k => d[j] <= d[k]
    <3>1. ASSUME NEW j \in 1..(n + 2), NEW k \in 1..(n + 2), j <= k
          PROVE  d[j] <= d[k]
      <4>1. CASE k <= n + 1
        <5>1. j \in 1..(n + 1) /\ k \in 1..(n + 1)
          BY <1>2, <3>1, <4>1
        <5>2. QED
          BY <1>6, <1>9, <3>1, <5>1
      <4>2. CASE k = n + 2 /\ j <= n + 1
        <5>1. j \in 1..(n + 1)
          BY <1>2, <4>2
        <5>2. e[j] <= e[n + 1] /\ e[j] \in Nat /\ e[n + 1] \in Nat
          BY <1>6, <1>7, <1>8, <4>2, <5>1
        <5>3. QED
          BY <1>3, <1>9, <4>2, <5>1, <5>2
      <4>3. CASE k = n + 2 /\ j = n + 2
        BY <1>8, <1>9, <4>3
      <4>4. QED
        BY <1>2, <3>1, <4>1, <4>2, <4>3
    <3>2. QED
      BY <3>1
  <2>2. Len(t) = d[n + 2] - d[from + 1]
    <3>1. d[n + 2] = e[n + 1] + Len(f) /\ d[from + 1] = e[from + 1]
      BY <1>8, <1>9
    <3>2. e[n + 1] \in Nat /\ e[from + 1] \in Nat
      BY <1>7, <1>8
    <3>3. (e[n + 1] - e[from + 1]) + Len(f) = (e[n + 1] + Len(f)) - e[from + 1]
      BY ONLY <1>3, <3>2
    <3>4. Len(t) = (e[n + 1] - e[from + 1]) + Len(f)
      BY <1>4, <1>6
    <3>5. QED
      BY <3>1, <3>3, <3>4
  <2>3. (n + 1) + 1 = n + 2
    BY <1>2
  <2>4. QED
    BY <1>5, <1>9, <2>1, <2>2, <2>3 DEF Edges
<1>11. ASSUME NEW k \in (from + 1)..(n + 1)
       PROVE  \E mask \in Masks : FrameAt(t, qs, from, d, k, mask)
  <2>1. CASE k = n + 1
    <3>1. qs[k] = p /\ d[k] = e[n + 1] /\ d[k + 1] = end /\ d[from + 1] = e[from + 1]
      <4>1. k + 1 = n + 2
        BY <1>2, <2>1
      <4>2. QED
        BY <1>5, <1>8, <1>9, <2>1, <4>1
    <3>2. e[n + 1] - e[from + 1] = Len(s)
      BY <1>6
    <3>3. FrameAt(t, qs, from, d, k, m)
      BY <1>4, <3>1, <3>2 DEF FrameAt, f
    <3>4. QED
      BY <3>3
  <2>2. CASE k # n + 1
    <3>1. k \in (from + 1)..n /\ k \in 1..n /\ k \in 1..(n + 1) /\ k + 1 \in 1..(n + 1)
      BY <1>2, <2>2
    <3>2. PICK mask \in Masks : FrameAt(s, ps, from, e, k, mask)
      BY <1>1, <3>1 DEF n
    <3> DEFINE g == Frame(ps[k], mask)
    <3>3. g \in Seq(Byte) /\ Len(g) \in Nat
      <4>1. ps[k] \in Sendable /\ mask \in BOOLEAN
        BY <3>1, ElementOfSeq DEF n
      <4>2. QED
        BY <4>1, FrameIs
    <3>4. e[k + 1] = e[k] + Len(g) /\ \A j \in 1..Len(g) : s[(e[k] - e[from + 1]) + j] = g[j]
      BY <3>2 DEF FrameAt
    <3>5. qs[k] = ps[k] /\ d[k] = e[k] /\ d[k + 1] = e[k + 1] /\ d[from + 1] = e[from + 1]
      BY <1>5, <1>8, <1>9, <3>1 DEF n
    <3> HIDE DEF g
    <3>6. ASSUME NEW j \in 1..Len(g)
          PROVE  t[(e[k] - e[from + 1]) + j] = g[j]
      <4>1. e[from + 1] <= e[k] /\ e[k + 1] <= e[n + 1]
        BY <1>2, <1>6, <1>8, <3>1
      <4>2. e[from + 1] \in Nat /\ e[k] \in Nat /\ e[k + 1] \in Nat /\ e[n + 1] \in Nat
        BY <1>7, <1>8, <3>1
      <4>3. (e[k] - e[from + 1]) + j \in 1..Len(s)
        <5>1. e[k] + Len(g) <= e[n + 1] /\ Len(s) = e[n + 1] - e[from + 1]
          BY <1>6, <3>4, <4>1
        <5>2. (e[k] - e[from + 1]) + j \in 1..(e[n + 1] - e[from + 1])
          BY <3>3, <4>1, <4>2, <5>1, Within
        <5>3. QED
          BY <5>1, <5>2
      <4>4. QED
        BY <1>4, <3>4, <4>3
    <3>7. FrameAt(t, qs, from, d, k, mask)
      BY <3>4, <3>5, <3>6 DEF FrameAt, g
    <3>8. QED
      BY <3>7
  <2>3. QED
    BY <2>1, <2>2
<1>12. Framed(t, qs, from, Masks)
  BY <1>5, <1>10, <1>11 DEF Framed
<1>13. QED
  BY <1>12 DEF t, qs, f

(* The first frame of the stream, and the stream without it. *)
LEMMA FramedFirst ==
  ASSUME NEW s \in Seq(Byte), NEW ps \in Seq(Sendable), NEW from \in Nat, from < Len(ps),
         NEW Masks \in SUBSET BOOLEAN, Framed(s, ps, from, Masks)
  PROVE  \E mask \in Masks :
           LET f == Frame(ps[from + 1], mask)
           IN  /\ Len(f) <= Len(s) /\ \A j \in 1..Len(f) : s[j] = f[j]
               /\ \A t \in Seq(Byte) :
                    Len(t) = Len(s) - Len(f) /\ (\A j \in 1..Len(t) : t[j] = s[Len(f) + j])
                      => Framed(t, ps, from + 1, Masks)
<1> DEFINE n == Len(ps)
           k1 == from + 1
<1>1. PICK e : /\ Edges(s, ps, from, e)
               /\ \A k \in (from + 1)..n : \E mask \in Masks : FrameAt(s, ps, from, e, k, mask)
  BY DEF Framed
<1>2. n \in Nat /\ k1 \in (from + 1)..n /\ k1 \in 1..n /\ k1 \in 1..(n + 1) /\ k1 + 1 \in 1..(n + 1)
  BY LenProperties
<1>3. PICK mask \in Masks : FrameAt(s, ps, from, e, k1, mask)
  BY <1>1, <1>2
<1> DEFINE f == Frame(ps[k1], mask)
<1>4. f \in Seq(Byte) /\ Len(f) \in Nat
  <2>1. ps[k1] \in Sendable /\ mask \in BOOLEAN
    BY <1>2, ElementOfSeq
  <2>2. QED
    BY <2>1, FrameIs
<1>5. /\ e \in Seq(Nat) /\ Len(e) = n + 1
      /\ \A j, k \in 1..(n + 1) : j <= k => e[j] <= e[k]
      /\ Len(s) = e[n + 1] - e[k1]
  BY <1>1 DEF Edges
<1>6. \A k \in 1..(n + 1) : e[k] \in Nat
  BY <1>5, ElementOfSeq
<1>7. e[k1 + 1] = e[k1] + Len(f) /\ \A j \in 1..Len(f) : s[(e[k1] - e[k1]) + j] = f[j]
  BY <1>3 DEF FrameAt
<1> HIDE DEF f
<1>8. \A j \in 1..Len(f) : s[j] = f[j]
  <2>1. \A j \in 1..Len(f) : (e[k1] - e[k1]) + j = j
    <3>1. e[k1] \in Nat
      BY <1>2, <1>6
    <3>2. \A a, j \in Int : (a - a) + j = j
      OBVIOUS
    <3>3. QED
      BY <3>1, <3>2
  <2>2. QED
    BY <1>7, <2>1
<1>9. /\ e[k1] \in Nat /\ e[k1 + 1] \in Nat /\ e[n + 1] \in Nat
      /\ e[k1 + 1] <= e[n + 1] /\ Len(f) <= Len(s)
  <2>1. n + 1 \in 1..(n + 1) /\ k1 + 1 <= n + 1
    BY <1>2
  <2>2. e[k1] \in Nat /\ e[k1 + 1] \in Nat /\ e[n + 1] \in Nat /\ e[k1 + 1] <= e[n + 1]
    BY <1>2, <1>5, <1>6, <2>1
  <2>3. Len(s) = e[n + 1] - e[k1] /\ e[k1 + 1] = e[k1] + Len(f)
    BY <1>5, <1>7
  <2>4. Len(f) <= Len(s)
    BY ONLY <1>4, <2>2, <2>3
  <2>5. QED
    BY <2>2, <2>4
<1>10. ASSUME NEW t \in Seq(Byte), Len(t) = Len(s) - Len(f),
              \A j \in 1..Len(t) : t[j] = s[Len(f) + j]
       PROVE  Framed(t, ps, k1, Masks)
  <2>1. Edges(t, ps, k1, e)
    <3>1. Len(t) = e[n + 1] - e[k1 + 1]
      <4>1. \A x, y, z \in Int : (x - y) - z = x - (y + z)
        OBVIOUS
      <4>2. /\ Len(t) = (e[n + 1] - e[k1]) - Len(f) /\ e[k1 + 1] = e[k1] + Len(f)
            /\ e[n + 1] \in Int /\ e[k1] \in Int /\ Len(f) \in Int
        BY <1>4, <1>5, <1>7, <1>9, <1>10
      <4>3. QED
        BY ONLY <4>1, <4>2
    <3>2. QED
      BY <1>5, <3>1 DEF Edges
  <2>2. ASSUME NEW k \in (k1 + 1)..n
        PROVE  \E mk \in Masks : FrameAt(t, ps, k1, e, k, mk)
    <3>1. k \in (from + 1)..n /\ k \in 1..n /\ k \in 1..(n + 1) /\ k + 1 \in 1..(n + 1) /\ k1 + 1 <= k /\ k + 1 <= n + 1
      BY <1>2
    <3>2. PICK mk \in Masks : FrameAt(s, ps, from, e, k, mk)
      BY <1>1, <3>1
    <3> DEFINE g == Frame(ps[k], mk)
    <3>3. g \in Seq(Byte) /\ Len(g) \in Nat
      <4>1. ps[k] \in Sendable /\ mk \in BOOLEAN
        BY <3>1, ElementOfSeq
      <4>2. QED
        BY <4>1, FrameIs
    <3>4. e[k + 1] = e[k] + Len(g) /\ \A j \in 1..Len(g) : s[(e[k] - e[k1]) + j] = g[j]
      BY <3>2 DEF FrameAt
    <3> HIDE DEF g
    <3>5. ASSUME NEW j \in 1..Len(g)
          PROVE  t[(e[k] - e[k1 + 1]) + j] = g[j]
      <4>1. e[k1 + 1] <= e[k] /\ e[k + 1] <= e[n + 1] /\ e[k] \in Nat /\ e[k + 1] \in Nat
        <5>1. n + 1 \in 1..(n + 1)
          BY <1>2
        <5>2. QED
          BY <1>2, <1>5, <1>6, <3>1, <5>1
      <4> DEFINE i == (e[k] - e[k1 + 1]) + j
      <4>2. i \in 1..Len(t) /\ Len(f) + i = (e[k] - e[k1]) + j
        <5>1. e[k] + Len(g) <= e[n + 1] /\ Len(t) = e[n + 1] - e[k1 + 1] /\ e[k1 + 1] \in Nat
          BY <1>9, <2>1, <3>4, <4>1 DEF Edges
        <5>2. i \in 1..(e[n + 1] - e[k1 + 1])
          BY <1>9, <3>3, <4>1, <5>1, Within
        <5>3. Len(f) + ((e[k] - (e[k1] + Len(f))) + j) = (e[k] - e[k1]) + j
          <6>1. e[k] \in Int /\ e[k1] \in Int /\ Len(f) \in Int /\ j \in Int
            BY <1>4, <1>9, <3>3, <4>1
          <6>2. \A a, b, l, x \in Int : l + ((a - (b + l)) + x) = (a - b) + x
            OBVIOUS
          <6>3. QED
            BY ONLY <6>1, <6>2
        <5>4. e[k1 + 1] = e[k1] + Len(f)
          BY <1>7
        <5>5. i \in 1..Len(t)
          BY <5>1, <5>2
        <5>6. Len(f) + i = (e[k] - e[k1]) + j
          BY <5>3, <5>4
        <5>7. QED
          BY <5>5, <5>6
      <4> HIDE DEF i
      <4>3. t[i] = s[(e[k] - e[k1]) + j]
        BY <1>10, <4>2
      <4>4. QED
        BY <3>4, <4>3 DEF i
    <3>6. FrameAt(t, ps, k1, e, k, mk)
      BY <3>4, <3>5 DEF FrameAt, g
    <3>7. QED
      BY <3>6
  <2>3. QED
    BY <2>1, <2>2 DEF Framed
<1>11. QED
  BY <1>8, <1>9, <1>10 DEF f

(* A part of a sequence. *)
LEMMA Part ==
  ASSUME NEW S, NEW s \in Seq(S), NEW a \in Nat, NEW n \in Nat, a + n <= Len(s),
         NEW lo, lo = a + 1, NEW hi, hi = a + n
  PROVE  /\ SubSeq(s, lo, hi) \in Seq(S) /\ Len(SubSeq(s, lo, hi)) = n
         /\ \A i \in 1..n : SubSeq(s, lo, hi)[i] = s[a + i]
<1> DEFINE d == SubSeq(s, lo, hi)
<1>1. Len(s) \in Nat /\ lo \in Int /\ hi \in Int /\ (hi - lo) + 1 = n /\ hi - lo + 1 = n
  BY LenProperties
<1>2. \A i \in lo..hi : s[i] \in S
  <2>1. \A i \in lo..hi : i \in 1..Len(s)
    BY <1>1
  <2>2. QED
    BY <2>1, ElementOfSeq
<1>3. /\ d \in Seq(S) /\ Len(d) = (IF lo <= hi THEN hi - lo + 1 ELSE 0)
      /\ \A i \in 1..(hi - lo + 1) : d[i] = s[lo + i - 1]
  BY ONLY <1>1, <1>2, SubSeqProperties
<1> HIDE DEF d
<1>4. Len(d) = n
  BY <1>1, <1>3
<1>5. \A i \in 1..n : lo + i - 1 = a + i
  OBVIOUS
<1>6. \A i \in 1..n : d[i] = s[a + i]
  BY <1>1, <1>3, <1>5
<1>7. QED
  BY <1>3, <1>4, <1>6 DEF d

(* The first k elements of t are moved to the end of s. *)
LEMMA Moved ==
  ASSUME NEW S, NEW s \in Seq(S), NEW t \in Seq(S), NEW k \in Nat, k <= Len(t)
  PROVE  LET u == SubSeq(t, 1, k)
             v == SubSeq(t, k + 1, Len(t))
         IN  /\ s \o u \in Seq(S) /\ v \in Seq(S) /\ (s \o u) \o v = s \o t
             /\ Len(s \o u) = Len(s) + k
<1> DEFINE m == Len(t) - k
           u == SubSeq(t, 1, k)
           v == SubSeq(t, k + 1, Len(t))
           w == u \o v
<1>1. Len(t) \in Nat /\ m \in Nat /\ k + m = Len(t)
  BY LenProperties
<1> HIDE DEF m
<1>2. u \in Seq(S) /\ Len(u) = k /\ \A i \in 1..k : u[i] = t[0 + i]
  <2>1. t \in Seq(S) /\ 0 \in Nat /\ k \in Nat /\ 0 + k <= Len(t) /\ 1 = 0 + 1 /\ k = 0 + k
    OBVIOUS
  <2>2. QED
    BY ONLY <2>1, Part
<1>3. v \in Seq(S) /\ Len(v) = m /\ \A i \in 1..m : v[i] = t[k + i]
  <2>1. t \in Seq(S) /\ k \in Nat /\ m \in Nat /\ k + m <= Len(t) /\ Len(t) = k + m
    BY <1>1
  <2>2. QED
    BY ONLY <2>1, Part
<1> HIDE DEF u, v
<1>4. /\ w \in Seq(S) /\ Len(w) = Len(u) + Len(v)
      /\ \A i \in 1..Len(u) : w[i] = u[i]
      /\ \A i \in 1..Len(v) : w[Len(u) + i] = v[i]
  <2>1. u \in Seq(S) /\ v \in Seq(S)
    BY <1>2, <1>3
  <2>2. QED
    BY ONLY <2>1, Cat
<1>5. w = t
  <2> HIDE DEF w
  <2>1. Len(w) = Len(t)
    BY <1>1, <1>2, <1>3, <1>4
  <2>2. ASSUME NEW i \in 1..Len(t)
        PROVE  w[i] = t[i]
    <3>1. CASE i <= k
      <4>1. i \in 1..k /\ 0 + i = i
        BY <1>1, <3>1
      <4>2. QED
        BY <1>2, <1>4, <4>1
    <3>2. CASE ~(i <= k)
      <4> DEFINE j == i - k
      <4>1. j \in 1..m /\ k + j = i
        BY <1>1, <3>2
      <4> HIDE DEF j
      <4>2. w[k + j] = v[j] /\ v[j] = t[k + j]
        BY <1>2, <1>3, <1>4, <4>1
      <4>3. QED
        BY <4>1, <4>2
    <3>3. QED
      BY <3>1, <3>2
  <2>3. QED
    BY <1>4, <2>1, <2>2, SeqEqual
<1>6. (s \o u) \o v = s \o w /\ s \o u \in Seq(S) /\ Len(s \o u) = Len(s) + Len(u)
  <2>1. s \in Seq(S) /\ u \in Seq(S) /\ v \in Seq(S)
    BY <1>2, <1>3
  <2> HIDE DEF u, v
  <2>2. (s \o u) \o v = s \o (u \o v)
    BY ONLY <2>1, ConcatAssociative
  <2>3. s \o u \in Seq(S) /\ Len(s \o u) = Len(s) + Len(u)
    BY ONLY <2>1, Cat
  <2>4. QED
    BY <2>2, <2>3
<1> HIDE DEF w
<1>7. QED
  BY <1>2, <1>3, <1>5, <1>6 DEF u, v

(* The remaining bytes, when the first m are taken from the buffer. *)
LEMMA Dropped ==
  ASSUME NEW S, NEW s \in Seq(S), NEW t \in Seq(S), NEW m \in Nat, m <= Len(s)
  PROVE  LET u == SubSeq(s, m + 1, Len(s))
         IN  /\ u \in Seq(S) /\ u \o t \in Seq(S)
             /\ Len(u \o t) = Len(s \o t) - m
             /\ \A j \in 1..Len(u \o t) : (u \o t)[j] = (s \o t)[m + j]
<1> DEFINE k == Len(s) - m
           u == SubSeq(s, m + 1, Len(s))
           v == u \o t
           w == s \o t
<1>1. Len(s) \in Nat /\ k \in Nat /\ m + k = Len(s)
  BY LenProperties
<1> HIDE DEF k
<1>2. u \in Seq(S) /\ Len(u) = k /\ \A i \in 1..k : u[i] = s[m + i]
  <2>1. s \in Seq(S) /\ m \in Nat /\ k \in Nat /\ m + k <= Len(s) /\ Len(s) = m + k
    BY <1>1
  <2>2. QED
    BY ONLY <2>1, Part, SMTT(30)
<1> HIDE DEF u
<1>3. /\ v \in Seq(S) /\ Len(t) \in Nat /\ Len(v) = Len(u) + Len(t)
      /\ \A i \in 1..Len(u) : v[i] = u[i]
      /\ \A i \in 1..Len(t) : v[Len(u) + i] = t[i]
  <2>1. u \in Seq(S) /\ t \in Seq(S)
    BY <1>2
  <2>2. QED
    BY ONLY <2>1, Cat
<1>4. /\ Len(w) = Len(s) + Len(t)
      /\ \A i \in 1..Len(s) : w[i] = s[i]
      /\ \A i \in 1..Len(t) : w[Len(s) + i] = t[i]
  <2>1. s \in Seq(S) /\ t \in Seq(S)
    OBVIOUS
  <2>2. QED
    BY ONLY <2>1, Cat
<1> HIDE DEF v, w
<1>5. Len(v) = Len(w) - m
  <2>1. /\ Len(v) = k + Len(t) /\ Len(w) = (m + k) + Len(t)
        /\ Len(t) \in Nat /\ m \in Nat /\ k \in Nat
    BY <1>1, <1>2, <1>3, <1>4
  <2>2. \A a, b, c \in Nat : a + c = ((b + a) + c) - b
    OBVIOUS
  <2>3. k + Len(t) = ((m + k) + Len(t)) - m
    BY ONLY <2>1, <2>2
  <2>4. QED
    BY <2>1, <2>3
<1>6. ASSUME NEW j \in 1..Len(v)
      PROVE  v[j] = w[m + j]
  <2>1. CASE j <= k
    <3>1. j \in 1..k /\ m + j \in 1..Len(s)
      BY <1>1, <1>2, <1>3, <2>1
    <3>2. QED
      BY <1>2, <1>3, <1>4, <3>1
  <2>2. CASE ~(j <= k)
    <3> DEFINE i == j - k
    <3>1. i \in 1..Len(t) /\ k + i = j /\ (m + k) + i = m + j
      <4>1. /\ j \in 1..(k + Len(t)) /\ Len(t) \in Nat /\ m \in Nat /\ k \in Nat /\ ~(j <= k)
        BY <1>1, <1>2, <1>3, <2>2
      <4>2. QED
        BY ONLY <4>1
    <3> HIDE DEF i
    <3>2. v[k + i] = t[i] /\ w[(m + k) + i] = t[i]
      BY <1>1, <1>2, <1>3, <1>4, <3>1
    <3>3. QED
      BY <3>1, <3>2
  <2>3. QED
    BY <2>1, <2>2
<1>7. QED
  BY <1>2, <1>3, <1>5, <1>6 DEF u, v, w

(* How long a frame is; masking makes it longer. *)
LEMMA FrameLengths ==
  ASSUME NEW p \in Sendable, NEW mask \in BOOLEAN
  PROVE  /\ FrameLen(Len(p), mask) = Len(Frame(p, mask)) /\ Len(Frame(p, mask)) \in Nat
         /\ Len(Frame(p, FALSE)) <= Len(Frame(p, mask))
         /\ Len(Frame(p, mask)) <= Len(Frame(p, TRUE))
<1> DEFINE n == Len(p)
           ext == Extension(LengthCode(n))
           h(m) == encode_frame_header(TextOp, n, m)
<1>1. n \in Nat /\ n < SizeWrap /\ TextOp \in 0..(OpCodes - 1)
  BY SendableIs, WireAssumption
<1>2. ASSUME NEW m \in BOOLEAN
      PROVE  Len(h(m)) = 2 + ext /\ ext \in Nat
  BY <1>1, HeaderIs
<1>3. ASSUME NEW m \in BOOLEAN
      PROVE  Len(Frame(p, m)) = (Len(h(m)) + KeyLen(m)) + n
  <2> DEFINE z == Start(p, m)
  <2>1. Len(Frame(p, m)) = z + n /\ z = Len(h(m)) + KeyLen(m)
    BY FrameIs
  <2> HIDE DEF z, h, n
  <2>2. QED
    BY <2>1
<1> HIDE DEF h, n, ext
<1>4. KeyLen(TRUE) = MaskLen /\ KeyLen(FALSE) = 0
  BY Zenon DEF KeyLen
<1>5. FrameLen(n, mask) = Len(h(mask)) + KeyLen(mask) + n
  BY DEF FrameLen, h, KeyLen
<1>6. MaskLen \in Nat /\ KeyLen(mask) \in Nat /\ KeyLen(mask) <= MaskLen
  <2>1. MaskLen \in Nat
    BY CodecSizes
  <2>2. QED
    BY <2>1 DEF KeyLen
<1>7. /\ Len(Frame(p, mask)) = ((2 + ext) + KeyLen(mask)) + n /\ ext \in Nat
      /\ Len(h(mask)) = 2 + ext
  BY <1>2, <1>3
<1>8. Len(Frame(p, TRUE)) = ((2 + ext) + MaskLen) + n
  <2>1. Len(Frame(p, TRUE)) = (Len(h(TRUE)) + KeyLen(TRUE)) + n /\ Len(h(TRUE)) = 2 + ext
    BY <1>2, <1>3
  <2>2. QED
    BY ONLY <1>4, <2>1, Zenon
<1>9. Len(Frame(p, FALSE)) = ((2 + ext) + 0) + n
  <2>1. Len(Frame(p, FALSE)) = (Len(h(FALSE)) + KeyLen(FALSE)) + n /\ Len(h(FALSE)) = 2 + ext
    BY <1>2, <1>3
  <2>2. QED
    BY ONLY <1>4, <2>1, Zenon
<1> DEFINE kl == KeyLen(mask)
           lm == Len(Frame(p, mask))
           lt == Len(Frame(p, TRUE))
           lf == Len(Frame(p, FALSE))
<1>10. /\ ext \in Nat /\ n \in Nat /\ MaskLen \in Nat /\ kl \in Nat /\ kl <= MaskLen
       /\ lm = ((2 + ext) + kl) + n /\ lt = ((2 + ext) + MaskLen) + n /\ lf = ((2 + ext) + 0) + n
       /\ FrameLen(n, mask) = (2 + ext) + kl + n
  BY <1>1, <1>5, <1>6, <1>7, <1>8, <1>9 DEF n
<1> HIDE DEF kl, lm, lt, lf
<1>11. lm \in Nat /\ lf <= lm /\ lm <= lt /\ FrameLen(n, mask) = lm
  BY ONLY <1>10
<1>12. QED
  BY <1>11 DEF n, lm, lt, lf

-----------------------------------------------------------------------------
(* What the ends of the connection know of the stream. *)

Streams ==
  /\ toServer \in Seq(Byte) /\ rx \in Seq(Byte) /\ tx \in Seq(Byte) /\ toClient \in Seq(Byte)
  /\ sent \in Seq(Sendable) /\ delivered \in Seq(Sendable) /\ written \in Seq(Sendable)
  /\ echoed \in Seq(Nat) /\ torn \in BOOLEAN /\ conn \in {"Open", "Closing", "Closed"}
  /\ Len(rx) <= RxCap

Arrivals ==
  /\ Len(delivered) <= Len(sent)
  /\ \A k \in 1..Len(delivered) :
       delivered[k] = sent[k] /\ Len(Frame(delivered[k], FALSE)) <= RxCap

(* What is not delivered yet is in the receive buffer and on the wire, as  *)
(* whole frames, wherever the stream was cut.                              *)
Inbound == Framed(rx \o toServer, sent, Len(delivered), BOOLEAN)

(* The connection is given up only with a frame at the front that is too   *)
(* long.                                                                   *)
GivenUp ==
  conn # "Open" => /\ Len(delivered) < Len(sent)
                   /\ Len(Frame(sent[Len(delivered) + 1], TRUE)) > RxCap

Echoes ==
  /\ Len(written) <= Len(delivered)
  /\ Len(written) = Len(delivered) => \A k \in 1..Len(written) : written[k] = delivered[k]
  /\ \A k \in 1..Len(echoed) : k <= Len(written) => echoed[k] = Len(written[k])

(* The stream back is the echoes that are not read yet, a, and what        *)
(* follows a torn echo or is the Close frame, b; or the client is reading  *)
(* the latter.                                                             *)
Tailed(a, b) ==
  /\ a \in Seq(Byte) /\ b \in Seq(Byte) /\ toClient \o tx = a \o b
  /\ Framed(a, written, Len(echoed), {FALSE})
  /\ conn = "Open" /\ ~torn => b = <<>>

Outbound ==
  \/ Len(echoed) > Len(written) /\ (torn \/ conn # "Open")
  \/ Len(echoed) <= Len(written) /\ \E a, b : Tailed(a, b)

Incoming == Arrivals /\ Inbound /\ GivenUp
Outgoing == Echoes /\ Outbound
WireInv == Streams /\ Incoming /\ Outgoing

(* A frame at the front of the stream: the parser sees its header once all *)
(* of it has arrived, and takes the frame once all of that has.            *)
LEMMA AtFront ==
  ASSUME rx \in Seq(Byte), toServer \in Seq(Byte), NEW p \in Sendable, NEW mask \in BOOLEAN,
         NEW f, f = Frame(p, mask), Len(f) <= Len(rx \o toServer),
         \A j \in 1..Len(f) : (rx \o toServer)[j] = f[j]
  PROVE  /\ \A j \in 1..Len(f) : j <= Len(rx) => rx[j] = f[j]
         /\ parse_frame_header(rx) = IF Len(rx) < Start(p, mask) THEN Incomplete
                                     ELSE Parsed(TextOp, Len(p), mask)
         /\ TotalSize(Parsed(TextOp, Len(p), mask)) = Len(f)
         /\ CanParse <=> Len(f) <= Len(rx)
<1> DEFINE h == encode_frame_header(TextOp, Len(p), mask)
           z == Start(p, mask)
           n == Len(p)
           P == Parsed(TextOp, n, mask)
<1>1. /\ f \in Seq(Byte) /\ Len(f) \in Nat /\ z \in Nat /\ z >= 2
      /\ Len(f) = z + n /\ Len(f) < SizeWrap
      /\ Len(h) \in Nat /\ z = Len(h) + KeyLen(mask)
      /\ \A j \in 1..Len(h) : f[j] = h[j]
  BY FrameIs
<1>2. n \in Nat /\ n < SizeWrap /\ SizeWrap \in Nat /\ TextOp \in 0..(OpCodes - 1)
  BY SendableIs, WireAssumption
<1> HIDE DEF h
<1>3. Len(rx) \in Nat /\ \A j \in 1..Len(rx) : (rx \o toServer)[j] = rx[j]
  BY Cat
<1>4. \A j \in 1..Len(f) : j <= Len(rx) => rx[j] = f[j]
  <2>1. \A j \in 1..Len(f) : j <= Len(rx) => j \in 1..Len(rx)
    BY <1>1, <1>3
  <2>2. QED
    BY <1>3, <2>1
<1>5. \A j \in 1..Len(h) : j <= Len(rx) => rx[j] = h[j]
  <2>1. \A j \in 1..Len(h) : j \in 1..Len(f)
    BY <1>1, <1>2, CodecSizes DEF KeyLen
  <2>2. QED
    BY <1>1, <1>4, <2>1
<1>6. P.size = z /\ P.payload_len = n
  BY DEF Start, Parsed
<1>7. parse_frame_header(rx) = IF Len(rx) < z THEN Incomplete ELSE P
  <2>1. parse_frame_header(rx) = IF Len(rx) < P.size THEN Incomplete ELSE P
    BY <1>2, <1>5, ParseIs DEF h
  <2>2. QED
    BY <1>6, <2>1
<1>8. TotalSize(P) = Len(f)
  <2>1. TotalSize(P) = (z + n) % SizeWrap
    BY <1>6 DEF TotalSize
  <2>2. SizeWrap \in Nat \ {0}
    BY <1>1, <1>2
  <2>3. Len(f) % SizeWrap = Len(f)
    BY <1>1, <2>2, DivMod
  <2>4. QED
    BY <1>1, <2>1, <2>3
<1> HIDE DEF P, z
<1>9. CanParse <=> Len(f) <= Len(rx)
  <2>1. CASE Len(rx) < z
    <3>1. parse_frame_header(rx) = Incomplete /\ Incomplete.size = 0
      BY <1>7, <2>1 DEF Incomplete
    <3>2. ~CanParse
      BY <3>1 DEF CanParse
    <3>3. ~(Len(f) <= Len(rx))
      BY <1>1, <1>2, <1>3, <2>1
    <3>4. QED
      BY <3>2, <3>3
  <2>2. CASE ~(Len(rx) < z)
    <3>1. parse_frame_header(rx) = P
      BY <1>7, <2>2
    <3>2. CanParse <=> P.size > 0 /\ Len(rx) >= TotalSize(P)
      BY <3>1 DEF CanParse
    <3>3. P.size > 0 /\ (Len(rx) >= Len(f) <=> Len(f) <= Len(rx))
      BY <1>1, <1>3, <1>6
    <3>4. QED
      BY <1>8, <3>2, <3>3
  <2>3. QED
    BY <2>1, <2>2
<1>10. QED
  BY <1>4, <1>7, <1>8, <1>9 DEF P, z

LEMMA FirstInbound ==
  ASSUME WireInv, Len(delivered) # Len(sent)
  PROVE  /\ Len(delivered) \in Nat /\ Len(delivered) < Len(sent)
         /\ sent[Len(delivered) + 1] \in Sendable
         /\ \E mask \in BOOLEAN :
              LET f == Frame(sent[Len(delivered) + 1], mask)
                  s == rx \o toServer
              IN  /\ Len(f) <= Len(s) /\ \A j \in 1..Len(f) : s[j] = f[j]
                  /\ \A t \in Seq(Byte) :
                       Len(t) = Len(s) - Len(f) /\ (\A j \in 1..Len(t) : t[j] = s[Len(f) + j])
                         => Framed(t, sent, Len(delivered) + 1, BOOLEAN)
<1>1. /\ rx \in Seq(Byte) /\ toServer \in Seq(Byte) /\ sent \in Seq(Sendable)
      /\ delivered \in Seq(Sendable) /\ Len(delivered) <= Len(sent)
      /\ Framed(rx \o toServer, sent, Len(delivered), BOOLEAN)
  BY DEF WireInv, Streams, Incoming, Arrivals, Inbound
<1>2. Len(delivered) \in Nat /\ Len(sent) \in Nat
  BY <1>1, LenProperties
<1>3. Len(delivered) < Len(sent) /\ Len(delivered) + 1 \in 1..Len(sent)
  BY <1>1, <1>2
<1>4. sent[Len(delivered) + 1] \in Sendable
  BY <1>1, <1>3, ElementOfSeq
<1>5. rx \o toServer \in Seq(Byte)
  BY <1>1, Cat
<1>6. BOOLEAN \in SUBSET BOOLEAN
  OBVIOUS
<1>7. QED
  BY <1>1, <1>2, <1>3, <1>4, <1>5, <1>6, FramedFirst

(* Nothing to deliver: nothing to parse. *)
LEMMA NothingInbound ==
  ASSUME WireInv, Len(delivered) = Len(sent)
  PROVE  rx = <<>> /\ toServer = <<>> /\ ~CanParse
<1>1. /\ rx \in Seq(Byte) /\ toServer \in Seq(Byte) /\ sent \in Seq(Sendable)
      /\ Framed(rx \o toServer, sent, Len(sent), BOOLEAN)
  BY DEF WireInv, Streams, Incoming, Arrivals, Inbound
<1>2. rx \o toServer \in Seq(Byte)
  BY <1>1, Cat
<1>3. rx \o toServer = <<>>
  BY <1>1, <1>2, FramedEnd
<1>4. rx = <<>> /\ toServer = <<>>
  BY <1>1, <1>3, ConcatEqualIffEmpty
<1>5. parse_frame_header(rx) = Incomplete
  <2>1. Len(rx) < 2
    BY <1>4, EmptySeq
  <2>2. QED
    BY <2>1 DEF parse_frame_header
<1>6. QED
  BY <1>4, <1>5 DEF CanParse, Incomplete

LEMMA NothingFramed ==
  ASSUME NEW Masks
  PROVE  Framed(<<>>, <<>>, 0, Masks)
<1> DEFINE e == <<0>>
<1>1. e \in Seq(Nat) /\ Len(e) = 1 /\ e[1] = 0 /\ Len(<<>>) = 0
  OBVIOUS
<1> HIDE DEF e
<1>2. \A j \in 1..(0 + 1) : j = 1
  OBVIOUS
<1>3. Edges(<<>>, <<>>, 0, e)
  BY <1>1, <1>2 DEF Edges
<1>4. \A k \in (0 + 1)..0 : FALSE
  OBVIOUS
<1>5. QED
  BY <1>1, <1>3, <1>4 DEF Framed

LEMMA WireStarts == WireInit => WireInv
<1>1. ASSUME WireInit PROVE WireInv
  <2>1. /\ toServer = <<>> /\ rx = <<>> /\ tx = <<>> /\ toClient = <<>>
        /\ conn = "Open" /\ torn = FALSE
        /\ sent = <<>> /\ delivered = <<>> /\ written = <<>> /\ echoed = <<>>
    BY <1>1 DEF WireInit
  <2>2. Len(<<>>) = 0 /\ (\A S : <<>> \in Seq(S)) /\ (\A k \in 1..0 : FALSE) /\ <<>> \o <<>> = <<>>
    BY ConcatEmptySeq
  <2>3. Streams
    <3>1. 0 <= RxCap
      BY WireAssumption
    <3>2. QED
      BY <2>1, <2>2, <3>1 DEF Streams
  <2>4. Arrivals /\ GivenUp /\ Echoes
    BY <2>1, <2>2 DEF Arrivals, GivenUp, Echoes
  <2>5. Inbound
    BY <2>1, <2>2, NothingFramed DEF Inbound
  <2>6. Tailed(<<>>, <<>>)
    BY <2>1, <2>2, NothingFramed DEF Tailed
  <2>7. Outbound
    BY <2>1, <2>2, <2>6 DEF Outbound
  <2>8. QED
    BY <2>3, <2>4, <2>5, <2>7 DEF WireInv, Incoming, Outgoing
<1>2. QED
  BY <1>1

LEMMA PayloadIs ==
  ASSUME Streams, NEW n \in PayloadLen
  PROVE  Payload(n) \in Sendable /\ Len(Payload(n)) = n /\ n \in Nat
<1> DEFINE p == Payload(n)
<1>1. n \in Nat /\ n + 2 + LongLen + MaskLen < SizeWrap
  BY WireAssumption
<1>2. Len(sent) \in Nat
  BY LenProperties DEF Streams
<1>3. \A i \in 1..n : (3 * i + n + Len(sent)) % Base \in Byte
  <2>1. Base \in Nat \ {0}
    BY CodecSizes
  <2>2. \A i \in 1..n : 3 * i + n + Len(sent) \in Nat
    BY <1>1, <1>2
  <2>3. QED
    BY <2>1, <2>2, DivMod DEF Byte
<1>4. p = [i \in 1..n |-> (3 * i + n + Len(sent)) % Base]
  BY DEF Payload
<1>5. p \in [1..n -> Byte]
  BY <1>3, <1>4
<1> HIDE DEF p
<1>6. p \in Seq(Byte) /\ Len(p) = n
  BY <1>1, <1>5
<1>7. QED
  BY <1>1, <1>6 DEF Sendable, p

-----------------------------------------------------------------------------
(* The stream back to the client. *)

(* Its bytes may move on, and the connection may stop serving. *)
LEMMA OutboundSame ==
  ASSUME Outbound, Streams, toClient' \o tx' = toClient \o tx, UNCHANGED <<written, echoed>>,
         torn => torn', conn # "Open" => conn' # "Open"
  PROVE  Outbound'
<1>1. CASE Len(echoed) > Len(written) /\ (torn \/ conn # "Open")
  BY <1>1 DEF Outbound
<1>2. CASE Len(echoed) <= Len(written) /\ \E a, b : Tailed(a, b)
  <2>1. PICK a, b : Tailed(a, b)
    BY <1>2
  <2>2. Tailed(a, b)'
    BY <2>1 DEF Tailed
  <2>3. QED
    BY <1>2, <2>2 DEF Outbound
<1>3. QED
  BY <1>1, <1>2 DEF Outbound

(* Once nothing more is claimed of its end, anything may be added to it. *)
LEMMA OutboundTail ==
  ASSUME Outbound, Streams, NEW x \in Seq(Byte), tx' = tx \o x,
         UNCHANGED <<toClient, written, echoed>>, torn' \/ conn' # "Open"
  PROVE  Outbound'
<1>1. CASE Len(echoed) > Len(written) /\ (torn \/ conn # "Open")
  BY <1>1 DEF Outbound
<1>2. CASE Len(echoed) <= Len(written) /\ \E a, b : Tailed(a, b)
  <2>1. PICK a, b : Tailed(a, b)
    BY <1>2
  <2>2. /\ toClient \in Seq(Byte) /\ tx \in Seq(Byte) /\ a \in Seq(Byte) /\ b \in Seq(Byte)
        /\ toClient \o tx = a \o b
    BY <2>1 DEF Streams, Tailed
  <2>3. toClient' \o tx' = (toClient \o tx) \o x
    <3>1. toClient \in Seq(Byte) /\ tx \in Seq(Byte) /\ x \in Seq(Byte)
      BY <2>2
    <3>2. (toClient \o tx) \o x = toClient \o (tx \o x)
      BY ONLY <3>1, ConcatAssociative
    <3>3. QED
      BY <3>2
  <2>4. (a \o b) \o x = a \o (b \o x) /\ b \o x \in Seq(Byte)
    <3>1. a \in Seq(Byte) /\ b \in Seq(Byte) /\ x \in Seq(Byte)
      BY <2>2
    <3>2. QED
      BY ONLY <3>1, ConcatAssociative, Cat
  <2> DEFINE c == b \o x
  <2>5. toClient' \o tx' = a \o c /\ c \in Seq(Byte)
    BY <2>2, <2>3, <2>4
  <2> HIDE DEF c
  <2>6. Tailed(a, c)'
    BY <2>1, <2>2, <2>5 DEF Tailed
  <2>7. QED
    BY <1>2, <2>6 DEF Outbound
<1>3. QED
  BY <1>1, <1>2 DEF Outbound

(* An echo that is written whole. *)
LEMMA OutboundMore ==
  ASSUME Outbound, Streams, NEW p \in Sendable, tx' = tx \o Frame(p, FALSE), ~torn,
         conn = "Open", written' = Append(written, p), UNCHANGED <<toClient, echoed, conn, torn>>
  PROVE  Outbound'
<1> DEFINE f == Frame(p, FALSE)
<1>1. PICK a, b : Tailed(a, b)
  BY DEF Outbound
<1>2. /\ toClient \in Seq(Byte) /\ tx \in Seq(Byte) /\ a \in Seq(Byte)
      /\ b = <<>> /\ toClient \o tx = a \o b /\ Framed(a, written, Len(echoed), {FALSE})
      /\ written \in Seq(Sendable) /\ echoed \in Seq(Nat) /\ Len(echoed) <= Len(written)
  BY <1>1 DEF Streams, Tailed, Outbound
<1>3. f \in Seq(Byte)
  BY FrameIs
<1> HIDE DEF f
<1>4. toClient \o tx = a
  BY <1>2, ConcatEmptySeq
<1>5. toClient' \o tx' = a \o f /\ a \o f \in Seq(Byte)
  <2>1. toClient \in Seq(Byte) /\ tx \in Seq(Byte) /\ f \in Seq(Byte) /\ a \in Seq(Byte)
    BY <1>2, <1>3
  <2>2. (toClient \o tx) \o f = toClient \o (tx \o f) /\ a \o f \in Seq(Byte)
    BY ONLY <2>1, ConcatAssociative, Cat
  <2>3. tx' = tx \o f
    BY DEF f
  <2>4. QED
    BY <1>4, <2>2, <2>3
<1>6. Len(echoed) \in Nat /\ Len(written) \in Nat
  BY <1>2, LenProperties
<1>7. Framed(a \o f, Append(written, p), Len(echoed), {FALSE})
  <2>1. Len(echoed) \in 0..Len(written) /\ {FALSE} \in SUBSET BOOLEAN /\ FALSE \in {FALSE}
    BY <1>2, <1>6
  <2>2. QED
    BY <1>2, <2>1, FramedMore DEF f
<1> DEFINE c == a \o f
<1>8. c \in Seq(Byte) /\ toClient' \o tx' = c /\ Framed(c, written', Len(echoed'), {FALSE})
  BY <1>5, <1>7
<1> HIDE DEF c
<1>9. c \o <<>> = c /\ <<>> \in Seq(Byte)
  BY <1>8, ConcatEmptySeq
<1>10. Tailed(c, <<>>)'
  BY <1>8, <1>9 DEF Tailed
<1>11. Len(echoed') <= Len(written')
  <2>1. Len(Append(written, p)) = Len(written) + 1
    BY ONLY <1>2, p \in Sendable, AppendProperties
  <2>2. QED
    BY <1>2, <1>6, <2>1
<1>12. QED
  BY <1>10, <1>11 DEF Outbound

(* write_frame and write_close_frame: bytes of the header and the payload. *)
LEMMA PushedIs ==
  ASSUME NEW h \in Seq(Byte), NEW p \in Seq(Byte), tx \in Seq(Byte)
  PROVE  /\ Pushed(h, p) \in Seq(Byte)
         /\ ~HasRoom(Len(h)) => Pushed(h, p) = <<>> /\ ~HasRoom(Len(h) + Len(p))
         /\ HasRoom(Len(h) + Len(p)) => Pushed(h, p) = h \o p
<1> DEFINE one == HasRoom(Len(h))
           two == HasRoom(Len(h) + Len(p))
<1>1. h \o p \in Seq(Byte) /\ <<>> \in Seq(Byte) /\ Len(h) \in Nat /\ Len(p) \in Nat
  BY Cat
<1>2. two => one
  <2> DEFINE a == Len(tx)
             b == Len(h)
             c == Len(p)
  <2>1. a \in Nat /\ b \in Nat /\ c \in Nat /\ TxCap \in Nat
    BY <1>1, LenProperties, WireAssumption
  <2>2. (two <=> a + (b + c) <= TxCap) /\ (one <=> a + b <= TxCap)
    BY DEF HasRoom
  <2> HIDE DEF a, b, c
  <2>3. a + (b + c) <= TxCap => a + b <= TxCap
    BY ONLY <2>1
  <2>4. QED
    BY <2>2, <2>3
<1>3. Pushed(h, p) = IF ~one THEN <<>> ELSE IF two THEN h \o p ELSE h
  BY DEF Pushed
<1> HIDE DEF one, two
<1>4. Pushed(h, p) \in {<<>>, h \o p, h}
  BY <1>3
<1>5. Pushed(h, p) \in Seq(Byte)
  BY <1>1, <1>4
<1>6. (~one => Pushed(h, p) = <<>> /\ ~two) /\ (two => Pushed(h, p) = h \o p)
  BY <1>2, <1>3
<1>7. QED
  BY <1>5, <1>6 DEF one, two

-----------------------------------------------------------------------------
(* The steps. *)

(* A client sends a frame. *)
LEMMA SendStep ==
  ASSUME WireInv, NEW p \in Sendable, NEW mask \in BOOLEAN,
         toServer' = toServer \o Frame(p, mask), sent' = Append(sent, p),
         UNCHANGED <<toClient, echoed, serverVars>>
  PROVE  WireInv'
<1> DEFINE f == Frame(p, mask)
<1>0. UNCHANGED <<rx, tx, conn, torn, delivered, written, toClient, echoed>>
  BY DEF serverVars
<1>1. f \in Seq(Byte)
  BY FrameIs
<1>2. /\ toServer \in Seq(Byte) /\ rx \in Seq(Byte) /\ sent \in Seq(Sendable)
      /\ delivered \in Seq(Sendable) /\ Len(delivered) <= Len(sent)
      /\ \A k \in 1..Len(delivered) :
           delivered[k] = sent[k] /\ Len(Frame(delivered[k], FALSE)) <= RxCap
  BY DEF WireInv, Streams, Incoming, Arrivals
<1>3. Len(sent) \in Nat /\ Len(delivered) \in Nat
  BY <1>2, LenProperties
<1>4. /\ sent' \in Seq(Sendable) /\ Len(sent') = Len(sent) + 1
      /\ \A k \in 1..Len(sent) : sent'[k] = sent[k]
  <2>1. /\ Append(sent, p) \in Seq(Sendable) /\ Len(Append(sent, p)) = Len(sent) + 1
        /\ \A k \in 1..Len(sent) : Append(sent, p)[k] = sent[k]
    BY ONLY <1>2, p \in Sendable, AppendProperties
  <2>2. QED
    BY <2>1
<1>5. toServer' \in Seq(Byte) /\ rx' \o toServer' = (rx \o toServer) \o f
  <2>1. toServer \o f \in Seq(Byte) /\ (rx \o toServer) \o f = rx \o (toServer \o f)
    BY ONLY <1>1, <1>2, Cat, ConcatAssociative
  <2>2. QED
    BY <1>0, <2>1
<1>6. Streams'
  BY <1>0, <1>4, <1>5 DEF WireInv, Streams
<1>7. Arrivals'
  <2>1. \A k \in 1..Len(delivered) : k \in 1..Len(sent)
    BY <1>2, <1>3
  <2>2. \A k \in 1..Len(delivered) : delivered[k] = sent'[k]
    BY <1>2, <1>4, <2>1
  <2>3. Len(delivered) <= Len(sent')
    BY <1>2, <1>3, <1>4
  <2>4. QED
    BY <1>0, <1>2, <2>2, <2>3 DEF Arrivals
<1>8. Inbound'
  <2>1. rx \o toServer \in Seq(Byte) /\ Len(delivered) \in 0..Len(sent)
    BY <1>2, <1>3, Cat
  <2>2. Framed(rx \o toServer, sent, Len(delivered), BOOLEAN)
    BY DEF WireInv, Incoming, Inbound
  <2>3. BOOLEAN \in SUBSET BOOLEAN
    OBVIOUS
  <2>4. Framed((rx \o toServer) \o f, Append(sent, p), Len(delivered), BOOLEAN)
    BY <1>2, <2>1, <2>2, <2>3, FramedMore
  <2>5. QED
    BY <1>0, <1>5, <2>4 DEF Inbound
<1>9. GivenUp'
  <2>1. SUFFICES ASSUME conn # "Open"
                 PROVE  /\ Len(delivered) < Len(sent')
                        /\ Len(Frame(sent'[Len(delivered) + 1], TRUE)) > RxCap
    BY <1>0 DEF GivenUp
  <2>2. /\ Len(delivered) < Len(sent)
        /\ Len(Frame(sent[Len(delivered) + 1], TRUE)) > RxCap
    BY <2>1 DEF WireInv, Incoming, GivenUp
  <2>3. Len(delivered) + 1 \in 1..Len(sent) /\ Len(delivered) < Len(sent')
    BY <1>3, <1>4, <2>2
  <2>4. QED
    BY <1>4, <2>2, <2>3
<1>10. Echoes' /\ Outbound'
  BY <1>0, OutboundSame DEF WireInv, Outgoing, Echoes
<1>11. QED
  BY <1>6, <1>7, <1>8, <1>9, <1>10 DEF WireInv, Incoming, Outgoing

LEMMA SendMaskedStep ==
  ASSUME WireInv, NEW n \in PayloadLen, send_masked(n)
  PROVE  WireInv'
<1> DEFINE p == Payload(n)
           h == encode_frame_header(TextOp, n, TRUE)
           x == [i \in 1..n |-> Xor(p[i], Key[((i - 1) % MaskLen) + 1])]
<1>1. p \in Sendable /\ Len(p) = n
  BY PayloadIs DEF WireInv
<1>2. toServer' = ((toServer \o h) \o Key) \o x /\ sent' = Append(sent, p)
  BY DEF send_masked
<1>3. UNCHANGED <<toClient, echoed, serverVars>>
  BY DEF send_masked
<1> HIDE DEF p
<1>4. x = Masked(p)
  BY <1>1 DEF Masked
<1> HIDE DEF x
<1>5. toServer \in Seq(Byte) /\ h \in Seq(Byte) /\ Key \in Seq(Byte) /\ x \in Seq(Byte)
  <2>1. h \in Seq(Byte)
    BY <1>1, SendableIs, HeaderIs, WireAssumption
  <2>2. Masked(p) \in [1..Len(p) -> Byte] /\ Len(p) \in Nat
    <3>1. \A i \in 1..Len(p) : Xor(p[i], Key[((i - 1) % MaskLen) + 1]) \in Byte
      BY <1>1, SendableIs, KeyIs, WireAssumption
    <3>2. QED
      BY <1>1, <3>1, SendableIs DEF Masked
  <2> DEFINE y == Masked(p)
  <2>3. y \in [1..Len(p) -> Byte] /\ Len(p) \in Nat
    BY <2>2
  <2> HIDE DEF y
  <2>4. y \in Seq(Byte)
    BY ONLY <2>3
  <2> HIDE DEF h
  <2>5. QED
    BY <1>4, <2>1, <2>4, KeyIs DEF WireInv, Streams, y
<1> HIDE DEF h
<1>6. ((toServer \o h) \o Key) \o x = toServer \o ((h \o Key) \o x)
  <2> DEFINE y == h \o Key
  <2>1. y \in Seq(Byte)
    BY ONLY <1>5, Cat
  <2>2. (toServer \o h) \o Key = toServer \o y
    BY ONLY <1>5, ConcatAssociative
  <2> HIDE DEF y
  <2>3. (toServer \o y) \o x = toServer \o (y \o x)
    <3>1. toServer \in Seq(Byte) /\ y \in Seq(Byte) /\ x \in Seq(Byte)
      BY <1>5, <2>1
    <3>2. QED
      BY ONLY <3>1, ConcatAssociative
  <2>4. QED
    BY <2>2, <2>3 DEF y
<1>7. (h \o Key) \o x = Frame(p, TRUE)
  BY <1>1, <1>4 DEF Frame, h
<1>8. toServer' = toServer \o Frame(p, TRUE)
  BY <1>2, <1>6, <1>7
<1>9. QED
  BY <1>1, <1>2, <1>3, <1>8, SendStep

LEMMA SendPlainStep ==
  ASSUME WireInv, NEW n \in PayloadLen, SendPlain(n)
  PROVE  WireInv'
<1> DEFINE p == Payload(n)
<1>1. p \in Sendable
  BY PayloadIs DEF WireInv
<1>2. toServer' = toServer \o Frame(p, FALSE)
  BY DEF SendPlain, encode_frame, Frame
<1>3. sent' = Append(sent, p) /\ UNCHANGED <<toClient, echoed, serverVars>>
  BY DEF SendPlain
<1>4. QED
  BY <1>1, <1>2, <1>3, SendStep

(* Bytes that are received stay where they are in the stream. *)
LEMMA ArriveStep ==
  ASSUME WireInv, NEW k \in 1..RxCap, Arrive(k)
  PROVE  WireInv'
<1> DEFINE u == rx \o SubSeq(toServer, 1, k)
           v == SubSeq(toServer, k + 1, Len(toServer))
<1>1. /\ k \in Nat /\ k <= Len(toServer) /\ Len(rx) + k <= RxCap /\ rx' = u /\ toServer' = v
      /\ UNCHANGED <<tx, toClient, conn, torn, sent, delivered, written, echoed>>
      /\ toServer \in Seq(Byte) /\ rx \in Seq(Byte)
  BY DEF WireInv, Streams, Arrive
<1>2. u \in Seq(Byte) /\ v \in Seq(Byte) /\ u \o v = rx \o toServer /\ Len(u) = Len(rx) + k
  <2>1. rx \in Seq(Byte) /\ toServer \in Seq(Byte) /\ k \in Nat /\ k <= Len(toServer)
    BY <1>1
  <2>2. QED
    BY ONLY <2>1, Moved
<1> HIDE DEF u, v
<1>3. Streams'
  BY <1>1, <1>2 DEF WireInv, Streams
<1>4. Incoming'
  <2>1. rx' \o toServer' = rx \o toServer
    BY <1>1, <1>2
  <2>2. QED
    BY <1>1, <2>1 DEF WireInv, Incoming, Arrivals, Inbound, GivenUp
<1>5. Outgoing'
  BY <1>1, OutboundSame DEF WireInv, Outgoing, Echoes
<1>6. QED
  BY <1>3, <1>4, <1>5 DEF WireInv

(* So do bytes that are sent. *)
LEMMA FlushStep ==
  ASSUME WireInv, NEW k \in 1..TxCap, Flush(k)
  PROVE  WireInv'
<1> DEFINE u == toClient \o SubSeq(tx, 1, k)
           v == SubSeq(tx, k + 1, Len(tx))
<1>1. /\ k \in Nat /\ k <= Len(tx) /\ toClient' = u /\ tx' = v
      /\ UNCHANGED <<toServer, rx, conn, torn, sent, delivered, written, echoed>>
      /\ toClient \in Seq(Byte) /\ tx \in Seq(Byte)
  BY DEF WireInv, Streams, Flush
<1>2. u \in Seq(Byte) /\ v \in Seq(Byte) /\ u \o v = toClient \o tx /\ Len(u) = Len(toClient) + k
  <2>1. toClient \in Seq(Byte) /\ tx \in Seq(Byte) /\ k \in Nat /\ k <= Len(tx)
    BY <1>1
  <2>2. QED
    BY ONLY <2>1, Moved
<1> HIDE DEF u, v
<1>3. Streams'
  BY <1>1, <1>2 DEF WireInv, Streams
<1>4. Incoming'
  BY <1>1 DEF WireInv, Incoming, Arrivals, Inbound, GivenUp
<1>5. Outgoing'
  <2>1. toClient' \o tx' = toClient \o tx
    BY <1>1, <1>2
  <2>2. QED
    BY <1>1, <2>1, OutboundSame DEF WireInv, Outgoing, Echoes
<1>6. QED
  BY <1>3, <1>4, <1>5 DEF WireInv

(* The Close frame is bytes. *)
LEMMA CloseFrameIs ==
  ASSUME 2 < SizeWrap
  PROVE  /\ encode_frame_header(CloseOp, 2, FALSE) \in Seq(Byte)
         /\ BigEndian(CloseCode, 2) \in Seq(Byte)
<1>1. encode_frame_header(CloseOp, 2, FALSE) \in Seq(Byte)
  BY HeaderIs, WireAssumption
<1>2. BigEndian(CloseCode, 2) \in Seq(Byte)
  <2> DEFINE n == CloseCode
  <2>1. n \in Nat
    BY WireAssumption, CodecSizes
  <2> HIDE DEF n
  <2>2. PICK s \in [0..2 -> 0..n] : BigEndian(n, 2) = [i \in 1..2 |-> s[2 - i] % Base]
    BY <2>1, Shifts
  <2>3. \A i \in 1..2 : s[2 - i] % Base \in Byte
    <3>1. \A i \in 1..2 : 2 - i \in 0..2
      OBVIOUS
    <3>2. \A i \in 1..2 : s[2 - i] \in Nat
      BY <2>1, <3>1
    <3>3. Base \in Nat \ {0}
      BY CodecSizes
    <3>4. QED
      BY <3>2, <3>3, DivMod DEF Byte
  <2>4. BigEndian(n, 2) \in [1..2 -> Byte]
    BY <2>2, <2>3
  <2> DEFINE y == BigEndian(n, 2)
  <2>5. y \in [1..2 -> Byte] /\ 2 \in Nat
    BY <2>4
  <2> HIDE DEF y
  <2>6. y \in Seq(Byte)
    BY ONLY <2>5, FunctionIsSeq
  <2>7. QED
    BY <2>6 DEF n, y
<1>3. QED
  BY <1>1, <1>2

(* The frame at the front does not fit: the server gives up. *)
LEMMA RxFullStep ==
  ASSUME WireInv, RxFull
  PROVE  WireInv'
<1>1. /\ ~CanParse /\ toServer # <<>> /\ Len(rx) = RxCap
      /\ UNCHANGED <<toServer, rx, toClient, torn, sent, delivered, written, echoed>>
      /\ conn' # "Open" /\ conn' \in {"Open", "Closing", "Closed"}
      /\ toServer \in Seq(Byte) /\ rx \in Seq(Byte) /\ tx \in Seq(Byte)
  BY DEF WireInv, Streams, RxFull, close
<1>2. Len(delivered) # Len(sent)
  BY <1>1, NothingInbound
<1> DEFINE p == sent[Len(delivered) + 1]
<1>3. Len(delivered) < Len(sent) /\ p \in Sendable
  BY <1>2, FirstInbound
<1>4. PICK mask \in BOOLEAN :
        LET f == Frame(p, mask)
            s == rx \o toServer
        IN  Len(f) <= Len(s) /\ \A j \in 1..Len(f) : s[j] = f[j]
  BY <1>2, FirstInbound
<1> DEFINE f == Frame(p, mask)
<1> HIDE DEF p
<1>5. CanParse <=> Len(f) <= Len(rx)
  BY <1>1, <1>3, <1>4, AtFront
<1>6. Len(Frame(p, TRUE)) > RxCap
  <2>1. Len(f) \in Nat /\ Len(f) <= Len(Frame(p, TRUE))
    BY <1>3, FrameLengths
  <2> DEFINE lf == Len(f)
             lt == Len(Frame(p, TRUE))
  <2>2. lt \in Nat
    BY <1>3, FrameLengths
  <2>3. ~(lf <= RxCap) /\ RxCap \in Nat
    BY <1>1, <1>5, WireAssumption
  <2>4. lf \in Nat /\ lf <= lt
    BY <2>1
  <2> HIDE DEF lf, lt
  <2>5. lt > RxCap
    BY ONLY <2>2, <2>3, <2>4
  <2>6. QED
    BY <2>5 DEF lt
<1>7. GivenUp'
  BY <1>1, <1>3, <1>6 DEF GivenUp, p
<1>8. Arrivals' /\ Inbound' /\ Echoes'
  BY <1>1 DEF WireInv, Incoming, Outgoing, Arrivals, Inbound, Echoes
<1>9. tx' \in Seq(Byte) /\ Outbound'
  <2>1. CASE conn = "Closing" /\ UNCHANGED tx
    BY <1>1, <2>1, OutboundSame DEF WireInv, Outgoing
  <2>2. CASE conn = "Open"
    <3> DEFINE h == encode_frame_header(CloseOp, 2, FALSE)
               c == BigEndian(CloseCode, 2)
               x == Pushed(h, c)
    <3>1. tx' = tx \o x
      BY <2>2 DEF RxFull, close
    <3>2. h \in Seq(Byte) /\ c \in Seq(Byte)
      <4>1. 2 < SizeWrap
        <5>1. Len(p) \in Nat /\ SizeWrap \in Nat /\ Len(p) + 2 + LongLen + MaskLen < SizeWrap
          BY <1>3, SendableIs
        <5>2. QED
          BY <5>1, CodecSizes
      <4>2. QED
        BY <4>1, CloseFrameIs
    <3> HIDE DEF h, c
    <3>3. x \in Seq(Byte)
      BY <1>1, <3>2, PushedIs
    <3> HIDE DEF x
    <3>4. tx' \in Seq(Byte)
      BY <1>1, <3>1, <3>3, Cat
    <3>5. Outbound'
      BY <1>1, <3>1, <3>3, OutboundTail DEF WireInv, Outgoing
    <3>6. QED
      BY <3>4, <3>5
  <2>3. QED
    BY <2>1, <2>2 DEF RxFull, close
<1>10. Streams'
  BY <1>1, <1>9 DEF WireInv, Streams
<1>11. QED
  BY <1>7, <1>8, <1>9, <1>10 DEF WireInv, Incoming, Outgoing

(* The masks of sender and receiver cancel. *)
LEMMA Unmasked ==
  ASSUME NEW p \in Sendable, NEW raw \in Seq(Byte), Len(raw) = Len(p),
         \A i \in 1..Len(p) : raw[i] = Xor(p[i], Key[((i - 1) % MaskLen) + 1])
  PROVE  unmask_payload(raw, Key) = p
<1> DEFINE n == Len(p)
           u == unmask_payload(raw, Key)
<1>1. n \in Nat /\ p \in Seq(Byte) /\ \A i \in 1..n : p[i] \in Byte
  BY SendableIs
<1>2. DOMAIN raw = 1..n /\ DOMAIN p = 1..n
  BY <1>1, LenProperties
<1>3. u = [i \in 1..n |-> Xor(raw[i], Key[((i - 1) % MaskLen) + 1])]
  BY <1>2 DEF unmask_payload
<1>4. ASSUME NEW i \in 1..n
      PROVE  Xor(raw[i], Key[((i - 1) % MaskLen) + 1]) = p[i]
  <2> DEFINE k == Key[((i - 1) % MaskLen) + 1]
  <2>1. k \in Byte /\ p[i] \in Byte /\ raw[i] = Xor(p[i], k)
    BY <1>1, KeyIs
  <2> HIDE DEF k
  <2>2. Xor(Xor(p[i], k), k) = p[i]
    BY <2>1, WireAssumption
  <2>3. QED
    BY <2>1, <2>2 DEF k
<1> HIDE DEF n, u
<1>5. u = [i \in 1..n |-> p[i]]
  BY <1>3, <1>4
<1>6. p = [i \in 1..n |-> p[i]]
  BY <1>1, <1>2 DEF n
<1>7. QED
  BY <1>5, <1>6 DEF u

(* What one iteration of parse_frames does when a frame p is at the front. *)
LEMMA FrameTaken ==
  ASSUME rx \in Seq(Byte), toServer \in Seq(Byte),
         NEW p \in Sendable, NEW mask \in BOOLEAN,
         NEW f, f = Frame(p, mask), Len(f) <= Len(rx \o toServer),
         \A j \in 1..Len(f) : (rx \o toServer)[j] = f[j], ParseFrame
  PROVE  /\ Len(f) <= Len(rx) /\ rx' = SubSeq(rx, Len(f) + 1, Len(rx))
         /\ delivered' = Append(delivered, p) /\ Echo(TextOp, p)
<1> DEFINE h == encode_frame_header(TextOp, Len(p), mask)
           z == Start(p, mask)
           n == Len(p)
           P == Parsed(TextOp, n, mask)
           l == Len(h)
<1>1. /\ Len(f) \in Nat /\ z \in Nat /\ z >= 2 /\ Len(f) = z + n
      /\ l \in Nat /\ z = l + KeyLen(mask)
      /\ mask => \A j \in 1..MaskLen : f[l + j] = Key[j]
      /\ \A i \in 1..n :
           f[z + i] = IF mask THEN Xor(p[i], Key[((i - 1) % MaskLen) + 1]) ELSE p[i]
  BY FrameIs
<1>2. p \in Seq(Byte) /\ n \in Nat /\ Len(rx) \in Nat
  BY SendableIs, LenProperties
<1>3. /\ \A j \in 1..Len(f) : j <= Len(rx) => rx[j] = f[j]
      /\ parse_frame_header(rx) = IF Len(rx) < z THEN Incomplete ELSE P
      /\ TotalSize(P) = Len(f)
      /\ CanParse <=> Len(f) <= Len(rx)
  BY AtFront
<1>4. CanParse
  BY DEF ParseFrame
<1>5. Len(f) <= Len(rx) /\ ~(Len(rx) < z)
  BY <1>1, <1>2, <1>3, <1>4
<1>6. parse_frame_header(rx) = P
  BY <1>3, <1>5
<1>7. P.size = z /\ P.payload_len = n /\ P.opcode = TextOp /\ P.masked = mask
  BY DEF Start, Parsed
<1> HIDE DEF h, z, n, P, l
<1> DEFINE raw == SubSeq(rx, z + 1, z + n)
           key == SubSeq(rx, z - MaskLen + 1, z)
           payload == IF mask THEN unmask_payload(raw, key) ELSE raw
<1>8. /\ delivered' = Append(delivered, payload)
      /\ Echo(TextOp, payload)
      /\ rx' = SubSeq(rx, Len(f) + 1, Len(rx))
  BY <1>3, <1>6, <1>7 DEF ParseFrame
<1>9. raw \in Seq(Byte) /\ Len(raw) = n /\ \A i \in 1..n : raw[i] = f[z + i]
  <2>1. raw \in Seq(Byte) /\ Len(raw) = n /\ \A i \in 1..n : raw[i] = rx[z + i]
    <3>1. rx \in Seq(Byte) /\ z \in Nat /\ n \in Nat /\ z + n <= Len(rx)
      BY <1>1, <1>2, <1>5
    <3> DEFINE lo == z + 1
               hi == z + n
    <3>2. lo = z + 1 /\ hi = z + n
      OBVIOUS
    <3>3. raw = SubSeq(rx, lo, hi)
      OBVIOUS
    <3> HIDE DEF lo, hi, raw
    <3>4. /\ SubSeq(rx, lo, hi) \in Seq(Byte) /\ Len(SubSeq(rx, lo, hi)) = n
          /\ \A i \in 1..n : SubSeq(rx, lo, hi)[i] = rx[z + i]
      BY ONLY <3>1, <3>2, Part, SMTT(30)
    <3>5. QED
      BY <3>3, <3>4
  <2>2. \A i \in 1..n : z + i \in 1..Len(f) /\ z + i <= Len(rx)
    BY <1>1, <1>2, <1>5
  <2> HIDE DEF raw
  <2>3. QED
    BY <1>3, <2>1, <2>2
<1> HIDE DEF raw
<1>10. payload = p
  <2>1. CASE mask
    <3>1. z = l + MaskLen /\ MaskLen \in Nat /\ MaskLen > 0 /\ z - MaskLen + 1 = l + 1
      BY <1>1, <2>1, CodecSizes DEF KeyLen
    <3>2. key \in Seq(Byte) /\ Len(key) = MaskLen /\ \A j \in 1..MaskLen : key[j] = rx[l + j]
      <4>1. rx \in Seq(Byte) /\ l \in Nat /\ MaskLen \in Nat /\ l + MaskLen <= Len(rx)
        BY <1>1, <1>2, <1>5, <3>1
      <4>2. z - MaskLen + 1 = l + 1 /\ z = l + MaskLen
        BY <3>1
      <4>3. QED
        BY ONLY <4>1, <4>2, Part
    <3>3. \A j \in 1..MaskLen : l + j \in 1..Len(f) /\ l + j <= Len(rx)
      <4>1. /\ Len(f) \in Nat /\ n \in Nat /\ l \in Nat /\ MaskLen \in Nat /\ Len(rx) \in Nat
            /\ Len(f) = z + n /\ z = l + MaskLen /\ Len(f) <= Len(rx)
        BY <1>1, <1>2, <1>5, <3>1
      <4>2. QED
        BY ONLY <4>1
    <3> HIDE DEF key
    <3>4. ASSUME NEW j \in 1..MaskLen
          PROVE  key[j] = Key[j]
      <4>1. l + j \in 1..Len(f) /\ l + j <= Len(rx)
        BY <3>3
      <4>2. rx[l + j] = f[l + j]
        BY <1>3, <4>1
      <4>3. f[l + j] = Key[j]
        BY <1>1, <2>1
      <4>4. QED
        BY <3>2, <4>2, <4>3
    <3>5. key = Key
      BY <3>2, <3>4, KeyIs, SeqEqual
    <3>6. \A i \in 1..n : raw[i] = Xor(p[i], Key[((i - 1) % MaskLen) + 1])
      BY <1>1, <1>9, <2>1
    <3>7. unmask_payload(raw, Key) = p
      BY <1>9, <3>6, Unmasked DEF n
    <3>8. QED
      BY <2>1, <3>5, <3>7
  <2>2. CASE ~mask
    <3>1. \A i \in 1..n : raw[i] = p[i]
      BY <1>1, <1>9, <2>2
    <3>2. raw = p
      BY <1>2, <1>9, <3>1, SeqEqual DEF n
    <3>3. QED
      BY <2>2, <3>2
  <2>3. QED
    BY <2>1, <2>2
<1> HIDE DEF payload
<1>11. QED
  BY <1>5, <1>8, <1>10

(* The echo, whole, torn or dropped. *)
LEMMA EchoStep ==
  ASSUME WireInv, NEW p \in Sendable, Echo(TextOp, p), conn = "Open",
         delivered' = Append(delivered, p), UNCHANGED <<toClient, echoed, conn>>
  PROVE  /\ tx' \in Seq(Byte) /\ written' \in Seq(Sendable) /\ torn' \in BOOLEAN
         /\ Outgoing'
<1> DEFINE h == encode_frame_header(TextOp, Len(p), FALSE)
           x == Pushed(h, p)
           one == HasRoom(Len(h))
           two == HasRoom(Len(h) + Len(p))
<1>1. /\ tx \in Seq(Byte) /\ toClient \in Seq(Byte) /\ torn \in BOOLEAN
      /\ written \in Seq(Sendable) /\ delivered \in Seq(Sendable) /\ echoed \in Seq(Nat)
      /\ Streams /\ Echoes /\ Outbound
  BY DEF WireInv, Outgoing, Streams
<1>2. p \in Seq(Byte) /\ h \in Seq(Byte)
  BY SendableIs, HeaderIs, WireAssumption
<1>3. /\ tx' = tx \o x /\ torn' = (torn \/ (one /\ ~two))
      /\ written' = IF two /\ ~torn THEN Append(written, p) ELSE written
  BY DEF Echo
<1>4. Frame(p, FALSE) = h \o p
  BY DEF Frame
<1> HIDE DEF h
<1>5. x \in Seq(Byte) /\ (~one => x = <<>> /\ ~two) /\ (two => x = h \o p)
  BY <1>1, <1>2, PushedIs
<1> HIDE DEF x, one, two
<1>6. /\ Append(written, p) \in Seq(Sendable) /\ Len(Append(written, p)) = Len(written) + 1
      /\ (\A k \in 1..Len(written) : Append(written, p)[k] = written[k])
      /\ Append(written, p)[Len(written) + 1] = p
  BY ONLY <1>1, p \in Sendable, AppendProperties
<1>7. /\ Len(delivered') = Len(delivered) + 1
      /\ (\A k \in 1..Len(delivered) : delivered'[k] = delivered[k])
      /\ delivered'[Len(delivered) + 1] = p
  <2>1. /\ Len(Append(delivered, p)) = Len(delivered) + 1
        /\ (\A k \in 1..Len(delivered) : Append(delivered, p)[k] = delivered[k])
        /\ Append(delivered, p)[Len(delivered) + 1] = p
    BY ONLY <1>1, p \in Sendable, AppendProperties
  <2>2. QED
    BY <2>1
<1>8. Len(written) \in Nat /\ Len(delivered) \in Nat /\ Len(echoed) \in Nat
  BY <1>1, LenProperties
<1>9. tx' \in Seq(Byte) /\ written' \in Seq(Sendable) /\ torn' \in BOOLEAN
  <2>1. tx \o x \in Seq(Byte)
    BY <1>1, <1>5, Cat
  <2>2. QED
    BY <1>1, <1>3, <1>6, <2>1
<1>10. /\ Len(written) <= Len(delivered)
       /\ Len(written) = Len(delivered) => \A k \in 1..Len(written) : written[k] = delivered[k]
       /\ \A k \in 1..Len(echoed) : k <= Len(written) => echoed[k] = Len(written[k])
  BY <1>1 DEF Echoes
<1>11. CASE two /\ ~torn
  <2>1. written' = Append(written, p) /\ torn' = torn /\ tx' = tx \o Frame(p, FALSE)
    <3>1. torn' = (torn \/ FALSE)
      BY <1>3, <1>11
    <3>2. QED
      BY <1>1, <1>3, <1>4, <1>5, <1>11, <3>1
  <2>2. Outbound'
    BY <1>1, <1>11, <2>1, OutboundMore
  <2>3. Len(echoed) <= Len(written)
    BY <1>1, <1>11 DEF Outbound
  <2>4. Echoes'
    <3>1. Len(written') <= Len(delivered')
      BY <1>6, <1>7, <1>8, <1>10, <2>1
    <3>2. ASSUME Len(written') = Len(delivered'), NEW k \in 1..Len(written')
          PROVE  written'[k] = delivered'[k]
      <4>1. Len(written) = Len(delivered) /\ k \in 1..(Len(written) + 1)
        <5> DEFINE l == Len(written)
                   d == Len(delivered)
        <5>1. l \in Nat /\ d \in Nat /\ l + 1 = d + 1 /\ Len(written') = l + 1
          BY <1>6, <1>7, <1>8, <2>1, <3>2
        <5> HIDE DEF l, d
        <5>2. l = d
          BY ONLY <5>1
        <5>3. QED
          BY <3>2, <5>1, <5>2 DEF l, d
      <4>2. CASE k = Len(written) + 1
        BY <1>6, <1>7, <2>1, <4>1, <4>2
      <4>3. CASE k # Len(written) + 1
        <5>1. k \in 1..Len(written)
          BY <1>8, <4>1, <4>3
        <5>2. QED
          BY <1>6, <1>7, <1>10, <2>1, <4>1, <5>1
      <4>4. QED
        BY <4>2, <4>3
    <3>3. ASSUME NEW k \in 1..Len(echoed)
          PROVE  echoed[k] = Len(written'[k])
      <4>1. k \in 1..Len(written) /\ k <= Len(written)
        BY <1>8, <2>3
      <4>2. QED
        BY <1>6, <1>10, <2>1, <4>1
    <3>4. QED
      BY <3>1, <3>2, <3>3 DEF Echoes
  <2>5. QED
    BY <1>9, <2>2, <2>4 DEF Outgoing
<1>12. CASE ~(two /\ ~torn)
  <2>1. written' = written
    BY <1>3, <1>12
  <2>2. Outbound'
    <3>1. CASE torn \/ (one /\ ~two)
      <4>1. torn'
        BY <1>3, <3>1
      <4>2. QED
        BY <1>1, <1>3, <1>5, <2>1, <4>1, OutboundTail
    <3>2. CASE ~(torn \/ (one /\ ~two))
      <4>1. x = <<>>
        BY <1>5, <1>12, <3>2
      <4>2. tx' = tx
        BY <1>1, <1>3, <4>1, ConcatEmptySeq
      <4>3. QED
        BY <1>1, <2>1, <3>2, <4>2, OutboundSame
    <3>3. QED
      BY <3>1, <3>2
  <2>3. Echoes'
    <3>1. Len(written) <= Len(delivered') /\ Len(written) # Len(delivered')
      BY <1>7, <1>8, <1>10
    <3>2. QED
      BY <1>10, <2>1, <3>1 DEF Echoes
  <2>4. QED
    BY <1>9, <2>2, <2>3 DEF Outgoing
<1>13. QED
  BY <1>11, <1>12

LEMMA ParseFrameStep ==
  ASSUME WireInv, ParseFrame
  PROVE  WireInv'
<1> DEFINE d == Len(delivered)
           p == sent[d + 1]
           s == rx \o toServer
<1>1. /\ toServer \in Seq(Byte) /\ rx \in Seq(Byte) /\ Len(rx) <= RxCap
      /\ sent \in Seq(Sendable) /\ delivered \in Seq(Sendable)
      /\ d <= Len(sent)
      /\ \A k \in 1..d : delivered[k] = sent[k] /\ Len(Frame(delivered[k], FALSE)) <= RxCap
  BY DEF WireInv, Streams, Incoming, Arrivals
<1>2. UNCHANGED <<toServer, toClient, conn, sent, echoed>> /\ conn = "Open" /\ CanParse
  BY DEF ParseFrame
<1>3. d # Len(sent)
  BY <1>2, NothingInbound
<1>4. d \in Nat /\ d < Len(sent) /\ p \in Sendable
  BY <1>3, FirstInbound
<1>5. PICK mask \in BOOLEAN :
        LET f == Frame(p, mask)
        IN  /\ Len(f) <= Len(s) /\ \A j \in 1..Len(f) : s[j] = f[j]
            /\ \A t \in Seq(Byte) :
                 Len(t) = Len(s) - Len(f) /\ (\A j \in 1..Len(t) : t[j] = s[Len(f) + j])
                   => Framed(t, sent, d + 1, BOOLEAN)
  BY <1>3, FirstInbound
<1> DEFINE f == Frame(p, mask)
<1>6. Len(f) \in Nat
  BY <1>4, FrameIs
<1> HIDE DEF p, d
<1>7. /\ Len(f) <= Len(rx) /\ rx' = SubSeq(rx, Len(f) + 1, Len(rx))
      /\ delivered' = Append(delivered, p) /\ Echo(TextOp, p)
  BY <1>1, <1>4, <1>5, FrameTaken
<1> HIDE DEF f
<1>8. /\ delivered' \in Seq(Sendable) /\ Len(delivered') = d + 1
      /\ (\A k \in 1..d : delivered'[k] = delivered[k]) /\ delivered'[d + 1] = p
  <2>1. /\ Append(delivered, p) \in Seq(Sendable) /\ Len(Append(delivered, p)) = Len(delivered) + 1
        /\ \A k \in 1..Len(delivered) : Append(delivered, p)[k] = delivered[k]
        /\ Append(delivered, p)[Len(delivered) + 1] = p
    BY ONLY <1>1, <1>4, AppendProperties
  <2>2. QED
    BY <1>7, <2>1 DEF d
<1>9. /\ rx' \in Seq(Byte) /\ rx' \o toServer \in Seq(Byte)
      /\ Len(rx' \o toServer) = Len(s) - Len(f)
      /\ \A j \in 1..Len(rx' \o toServer) : (rx' \o toServer)[j] = s[Len(f) + j]
  <2>1. /\ rx \in Seq(Byte) /\ toServer \in Seq(Byte) /\ Len(f) \in Nat
        /\ Len(f) <= Len(rx) /\ rx' = SubSeq(rx, Len(f) + 1, Len(rx))
    BY <1>1, <1>6, <1>7
  <2> DEFINE u == SubSeq(rx, Len(f) + 1, Len(rx))
  <2>2. /\ u \in Seq(Byte) /\ u \o toServer \in Seq(Byte)
        /\ Len(u \o toServer) = Len(rx \o toServer) - Len(f)
        /\ \A j \in 1..Len(u \o toServer) : (u \o toServer)[j] = (rx \o toServer)[Len(f) + j]
    <3>1. /\ rx \in Seq(Byte) /\ toServer \in Seq(Byte) /\ Len(f) \in Nat
          /\ Len(f) <= Len(rx)
      BY <2>1
    <3>2. QED
      BY ONLY <3>1, Dropped, SMTT(30)
  <2>3. u = rx'
    BY <2>1
  <2> HIDE DEF u
  <2>4. QED
    BY <2>2, <2>3, Zenon
<1>10. /\ tx' \in Seq(Byte) /\ written' \in Seq(Sendable) /\ torn' \in BOOLEAN
       /\ Outgoing'
  BY <1>2, <1>4, <1>7, EchoStep
<1>11. /\ Len(rx') <= RxCap /\ Len(Frame(p, FALSE)) <= RxCap
  <2>1. Len(rx') = Len(rx) - Len(f)
    <3> DEFINE k == Len(rx) - Len(f)
    <3>1. Len(rx) \in Nat
      BY <1>1, LenProperties
    <3>2. k \in Nat /\ Len(f) + k <= Len(rx) /\ Len(rx) = Len(f) + k
      BY <1>6, <1>7, <3>1
    <3> HIDE DEF k
    <3>3. Len(SubSeq(rx, Len(f) + 1, Len(rx))) = k
      <4>1. rx \in Seq(Byte) /\ Len(f) \in Nat /\ k \in Nat /\ Len(f) + k <= Len(rx) /\ Len(rx) = Len(f) + k
        BY <1>1, <1>6, <3>2
      <4>2. QED
        BY ONLY <4>1, Part, SMTT(30)
    <3>4. QED
      BY <1>7, <3>3 DEF k
  <2> DEFINE lp == Len(Frame(p, FALSE))
  <2>2. lp <= Len(f) /\ lp \in Nat
    BY <1>4, FrameLengths DEF f
  <2>3. Len(rx) \in Nat /\ RxCap \in Nat
    BY <1>1, LenProperties, WireAssumption
  <2> HIDE DEF lp
  <2>4. Len(rx') <= RxCap /\ lp <= RxCap
    BY <1>1, <1>6, <1>7, <2>1, <2>2, <2>3
  <2>5. QED
    BY <2>4 DEF lp
<1>12. Streams'
  BY <1>1, <1>2, <1>8, <1>9, <1>10, <1>11 DEF WireInv, Streams
<1>13. Arrivals'
  <2>1. ASSUME NEW k \in 1..(d + 1)
        PROVE  delivered'[k] = sent[k] /\ Len(Frame(delivered'[k], FALSE)) <= RxCap
    <3>1. CASE k = d + 1
      BY <1>8, <1>11, <3>1 DEF p
    <3>2. CASE k # d + 1
      <4>1. k \in 1..d
        BY <1>4, <3>2
      <4>2. QED
        BY <1>1, <1>8, <4>1
    <3>3. QED
      BY <3>1, <3>2
  <2>2. d + 1 <= Len(sent)
    <3>1. Len(sent) \in Nat
      BY <1>1, LenProperties
    <3>2. QED
      BY <1>4, <3>1
  <2>3. QED
    BY <1>2, <1>8, <2>1, <2>2 DEF Arrivals
<1>14. Inbound'
  <2> DEFINE t == rx' \o toServer
  <2>1. t \in Seq(Byte) /\ Len(t) = Len(s) - Len(f) /\ \A j \in 1..Len(t) : t[j] = s[Len(f) + j]
    BY <1>9
  <2> HIDE DEF t, s
  <2>2. Framed(t, sent, d + 1, BOOLEAN)
    BY <1>5, <2>1 DEF f
  <2>3. QED
    BY <1>2, <1>8, <2>2 DEF Inbound, t
<1>15. GivenUp'
  BY <1>2 DEF GivenUp
<1>16. QED
  BY <1>10, <1>12, <1>13, <1>14, <1>15 DEF WireInv, Incoming

-----------------------------------------------------------------------------
(* The client reads. *)

LEMMA SomeSize == SizeWrap \in Nat \ {0}
<1>1. PICK p \in [0..LongLen -> Nat] :
        p[0] = 1 /\ (\A k \in 1..LongLen : p[k] = p[k - 1] * Base) /\ SizeWrap = p[LongLen]
  BY Powers
<1> DEFINE S == {k \in Nat : k <= LongLen => p[k] \in Nat \ {0}}
<1>2. 0 \in S
  BY <1>1
<1>3. ASSUME NEW k \in Nat, k \in S
      PROVE  k + 1 \in S
  <2>1. SUFFICES ASSUME k + 1 <= LongLen
                 PROVE  p[k + 1] \in Nat \ {0}
    OBVIOUS
  <2>2. LongLen \in Nat /\ Base \in Nat /\ Base > 0
    BY CodecSizes
  <2>3. k + 1 \in 1..LongLen /\ (k + 1) - 1 = k /\ p[k] \in Nat \ {0}
    BY <1>3, <2>1, <2>2
  <2> HIDE DEF S
  <2>4. p[k + 1] = p[k] * Base
    BY <1>1, <2>3
  <2>5. \A x \in Nat \ {0} : x * Base \in Nat \ {0}
    BY <2>2
  <2>6. QED
    BY <2>3, <2>4, <2>5
<1> HIDE DEF S
<1>4. LongLen \in S
  BY <1>2, <1>3, SetInduction, CodecSizes
<1>5. QED
  BY <1>1, <1>4, CodecSizes DEF S

(* Whatever the bytes of a length field, they are a number. *)
LEMMA NumberIsNat ==
  ASSUME NEW bytes \in Seq(Byte)
  PROVE  Number(bytes) \in Nat
<1> DEFINE l == Len(bytes)
           Next(x, k) == (x * Base + bytes[k]) % SizeWrap
           Values(n, v) == v[0] = 0 /\ \A k \in 1..n : v[k] = Next(v[k - 1], k)
           S == {n \in Nat : n <= l => \E v \in [0..n -> Nat] : Values(n, v)}
<1>1. l \in Nat /\ \A k \in 1..l : bytes[k] \in Nat
  <2>1. \A x \in Byte : x \in Nat
    BY CodecSizes DEF Byte
  <2>2. QED
    BY <2>1, LenProperties, ElementOfSeq
<1>2. \A x \in Nat, k \in 1..l : Next(x, k) \in Nat
  <2>1. \A x \in Nat, k \in 1..l : x * Base + bytes[k] \in Nat
    BY <1>1, CodecSizes
  <2>2. \A y \in Nat : y % SizeWrap \in Nat
    BY SomeSize, DivMod
  <2>3. QED
    BY <2>1, <2>2
<1> HIDE DEF Next, l
<1>3. 0 \in S
  <2> DEFINE v == [k \in 0..0 |-> 0]
  <2>1. v \in [0..0 -> Nat] /\ Values(0, v)
    OBVIOUS
  <2>2. QED
    BY <2>1
<1>4. ASSUME NEW n \in Nat, n \in S
      PROVE  n + 1 \in S
  <2>1. SUFFICES ASSUME n + 1 <= l
                 PROVE  \E w \in [0..(n + 1) -> Nat] : Values(n + 1, w)
    <3>1. n + 1 \in Nat
      OBVIOUS
    <3> HIDE DEF Values
    <3>2. QED
      BY <3>1
  <2>2. PICK v \in [0..n -> Nat] : Values(n, v)
    <3>1. n <= l
      BY <1>1, <2>1
    <3> HIDE DEF Values
    <3>2. QED
      BY <1>4, <3>1
  <2> HIDE DEF S
  <2> DEFINE w == [k \in 0..(n + 1) |-> IF k <= n THEN v[k] ELSE Next(v[n], n + 1)]
  <2>3. n + 1 \in 1..l /\ v[n] \in Nat
    BY <1>1, <2>1, <2>2
  <2>4. Next(v[n], n + 1) \in Nat
    BY <1>2, <2>3
  <2>5. w \in [0..(n + 1) -> Nat]
    BY <2>2, <2>4
  <2>6. ASSUME NEW k \in 1..(n + 1)
        PROVE  w[k] = Next(w[k - 1], k)
    <3>1. CASE k = n + 1
      BY <3>1
    <3>2. CASE k # n + 1
      <4>1. k \in 1..n /\ k - 1 \in 0..(n + 1) /\ k - 1 <= n /\ k <= n /\ k \in 0..(n + 1)
        BY <3>2
      <4>2. QED
        BY <2>2, <4>1
    <3>3. QED
      BY <3>1, <3>2
  <2>7. w[0] = 0
    BY <2>2
  <2> HIDE DEF w
  <2>8. QED
    BY <2>5, <2>6, <2>7
<1>5. l \in S
  <2> HIDE DEF S
  <2>1. QED
    BY <1>1, <1>3, <1>4, SetInduction
<1>6. PICK v \in [0..l -> Nat] : Values(l, v)
  BY <1>1, <1>5
<1>7. Number(bytes) = v[l]
  BY <1>1, <1>6, NumberIs DEF Next, l
<1>8. QED
  BY <1>1, <1>6, <1>7

(* What recv_frame makes of the bytes it has, whatever they are. *)
LEMMA HeaderRead ==
  ASSUME toClient \in Seq(Byte), Len(toClient) >= 2,
         Len(toClient) >= 2 + Extension(toClient[2] % Half)
  PROVE  LET code == toClient[2] % Half
             ext == Extension(code)
             plen == IF ext = 0 THEN code ELSE Number(SubSeq(toClient, 3, 2 + ext))
         IN  ext \in Nat /\ plen \in Nat
<1> DEFINE code == toClient[2] % Half
           ext == Extension(code)
           field == SubSeq(toClient, 3, 2 + ext)
<1>1. Len(toClient) \in Nat /\ 2 \in 1..Len(toClient)
  BY LenProperties
<1>2. toClient[2] \in Nat
  <2>1. toClient[2] \in Byte
    BY <1>1, ElementOfSeq
  <2>2. QED
    BY <2>1, CodecSizes DEF Byte
<1>3. code \in Nat
  <2>1. Half \in Nat \ {0}
    BY CodecSizes
  <2>2. \A x \in Nat : x % Half \in Nat
    BY <2>1, DivMod
  <2>3. QED
    BY <1>2, <2>2
<1>4. ext \in Nat
  BY CodecSizes DEF Extension
<1>5. 2 + ext <= Len(toClient)
  BY <1>1, <1>4
<1> HIDE DEF code, ext
<1>6. field \in Seq(Byte)
  <2>1. toClient \in Seq(Byte) /\ 2 \in Nat /\ ext \in Nat /\ 2 + ext <= Len(toClient) /\ 3 = 2 + 1
    BY <1>4, <1>5
  <2>2. QED
    BY ONLY <2>1, Part, SMTT(30)
<1> HIDE DEF field
<1>7. Number(field) \in Nat
  BY <1>6, NumberIsNat
<1>8. QED
  BY <1>3, <1>4, <1>7 DEF code, ext, field

(* recv_frame reads an unmasked header as parse_frame_header does, once    *)
(* all of it has arrived.                                                  *)
LEMMA EchoHeader ==
  ASSUME NEW p \in Sendable, toClient \in Seq(Byte), Len(toClient) >= 2,
         Len(toClient) >= 2 + Extension(toClient[2] % Half),
         NEW f, f = Frame(p, FALSE),
         \A j \in 1..Len(f) : j <= Len(toClient) => toClient[j] = f[j]
  PROVE  LET code == toClient[2] % Half
             ext == Extension(code)
             plen == IF ext = 0 THEN code ELSE Number(SubSeq(toClient, 3, 2 + ext))
         IN  ext \in Nat /\ plen = Len(p) /\ 2 + ext + plen = Len(f)
<1> DEFINE h == encode_frame_header(TextOp, Len(p), FALSE)
           n == Len(p)
           z == Start(p, FALSE)
           P == Parsed(TextOp, n, FALSE)
           code == toClient[2] % Half
           ext == Extension(code)
           plen == IF ext = 0 THEN code ELSE Number(SubSeq(toClient, 3, 2 + ext))
<1>1. /\ Len(f) \in Nat /\ z \in Nat /\ z >= 2 /\ Len(f) = z + n
      /\ Len(h) \in Nat /\ Len(h) >= 2 /\ z = Len(h) + KeyLen(FALSE)
      /\ \A j \in 1..Len(h) : f[j] = h[j]
  BY FrameIs
<1>2. n \in Nat /\ n < SizeWrap /\ TextOp \in 0..(OpCodes - 1) /\ Len(toClient) \in Nat
  BY SendableIs, WireAssumption, LenProperties
<1>3. ext \in Nat
  BY CodecSizes DEF Extension
<1>4. h[2] = Top(FALSE) + LengthCode(n) /\ LengthCode(n) \in Nat /\ LengthCode(n) < Half
  BY <1>2, HeaderIs, ZenonT(30)
<1>5. ~(h[2] >= Half)
  <2>1. Top(FALSE) = 0
    BY DEF Top
  <2> HIDE DEF h, n
  <2>2. \A c \in Nat : c < Half => ~(0 + c >= Half)
    BY CodecSizes
  <2>3. h[2] = 0 + LengthCode(n)
    BY <1>4, <2>1, Zenon
  <2>4. QED
    BY <1>4, <2>2, <2>3
<1> HIDE DEF h
<1>6. \A j \in 1..Len(h) : j \in 1..Len(f)
  <2>1. /\ Len(f) = z + n /\ z = Len(h) + KeyLen(FALSE) /\ n \in Nat /\ Len(h) \in Nat
        /\ Len(f) \in Nat
    BY <1>1, <1>2
  <2>2. KeyLen(FALSE) \in Nat
    BY CodecSizes DEF KeyLen
  <2> HIDE DEF z, n
  <2> DEFINE q == KeyLen(FALSE)
  <2>3. Len(f) = z + n /\ z = Len(h) + q /\ q \in Nat /\ n \in Nat /\ Len(h) \in Nat
    BY <2>1, <2>2
  <2> HIDE DEF q
  <2>4. QED
    BY ONLY <2>3
<1>7. \A j \in 1..Len(h) : j <= Len(toClient) => toClient[j] = h[j]
  BY <1>1, <1>6
<1>8. toClient[2] = h[2]
  <2>1. 2 \in 1..Len(h) /\ 2 <= Len(toClient)
    BY <1>1, <1>2
  <2>2. QED
    BY <1>7, <2>1
<1>9. P.size = z /\ P.payload_len = n
  BY DEF Start, Parsed
<1>10. parse_frame_header(toClient) \in {Incomplete, P}
  <2>1. parse_frame_header(toClient) = IF Len(toClient) < P.size THEN Incomplete ELSE P
    BY <1>2, <1>7, ParseIs DEF h
  <2>2. QED
    BY <2>1
<1> HIDE DEF P, z, n
<1>11. HeaderSize(toClient[2]) = 2 + ext
  <2>1. HeaderSize(toClient[2]) = 2 + ext + 0
    BY <1>5, <1>8 DEF HeaderSize
  <2> HIDE DEF ext
  <2>2. QED
    BY <1>3, <2>1
<1> HIDE DEF plen
<1> DEFINE Q == [size |-> HeaderSize(toClient[2]),
                 fin |-> toClient[1] >= Half,
                 opcode |-> toClient[1] % OpCodes,
                 masked |-> toClient[2] >= Half,
                 payload_len |-> plen]
<1>12. ~(Len(toClient) < 2 \/ Len(toClient) < HeaderSize(toClient[2]))
  <2>1. Len(toClient) >= 2 + ext
    OBVIOUS
  <2> HIDE DEF ext
  <2>2. QED
    BY <1>2, <1>3, <1>11, <2>1
<1>13. parse_frame_header(toClient) = Q
  BY <1>12 DEF parse_frame_header, plen
<1>14. Q.size = HeaderSize(toClient[2]) /\ Q.payload_len = plen
  OBVIOUS
<1> HIDE DEF Q, ext
<1>15. Q # Incomplete
  <2>1. Incomplete.size = 0 /\ 2 + ext # 0
    BY <1>3 DEF Incomplete
  <2>2. QED
    BY <1>11, <1>14, <2>1
<1>16. plen = n /\ 2 + ext = z
  BY <1>9, <1>10, <1>11, <1>13, <1>14, <1>15
<1>17. 2 + ext + plen = Len(f)
  <2>1. Len(f) = z + n /\ z = 2 + ext /\ plen = n /\ z \in Nat /\ n \in Nat /\ ext \in Nat
    BY <1>1, <1>2, <1>3, <1>16
  <2>2. QED
    BY ONLY <2>1
<1>18. QED
  BY <1>3, <1>16, <1>17 DEF ext, plen, n

(* The next frame that is on its way to the client. *)
LEMMA FirstOutbound ==
  ASSUME NEW a \in Seq(Byte), NEW b \in Seq(Byte), toClient \in Seq(Byte), tx \in Seq(Byte),
         toClient \o tx = a \o b, written \in Seq(Sendable), Len(echoed) \in Nat,
         Len(echoed) < Len(written), Framed(a, written, Len(echoed), {FALSE})
  PROVE  LET p == written[Len(echoed) + 1]
             f == Frame(p, FALSE)
         IN  /\ p \in Sendable /\ Len(f) \in Nat /\ Len(f) >= 2 /\ Len(f) <= Len(a)
             /\ \A j \in 1..Len(f) : j <= Len(toClient) => toClient[j] = f[j]
             /\ \A t \in Seq(Byte) :
                  Len(t) = Len(a) - Len(f) /\ (\A j \in 1..Len(t) : t[j] = a[Len(f) + j])
                    => Framed(t, written, Len(echoed) + 1, {FALSE})
<1> DEFINE k == Len(echoed)
           p == written[k + 1]
           f == Frame(p, FALSE)
           z == Start(p, FALSE)
<1>1. p \in Sendable
  <2>1. Len(written) \in Nat /\ k + 1 \in 1..Len(written)
    BY LenProperties
  <2>2. QED
    BY <2>1, ElementOfSeq
<1>2. /\ Len(f) <= Len(a) /\ (\A j \in 1..Len(f) : a[j] = f[j])
      /\ \A t \in Seq(Byte) :
           Len(t) = Len(a) - Len(f) /\ (\A j \in 1..Len(t) : t[j] = a[Len(f) + j])
             => Framed(t, written, k + 1, {FALSE})
  <2>1. {FALSE} \in SUBSET BOOLEAN
    OBVIOUS
  <2>2. PICK mask \in {FALSE} :
          LET g == Frame(p, mask)
          IN  /\ Len(g) <= Len(a) /\ \A j \in 1..Len(g) : a[j] = g[j]
              /\ \A t \in Seq(Byte) :
                   Len(t) = Len(a) - Len(g) /\ (\A j \in 1..Len(t) : t[j] = a[Len(g) + j])
                     => Framed(t, written, k + 1, {FALSE})
    BY <2>1, FramedFirst
  <2>3. mask = FALSE
    OBVIOUS
  <2>4. QED
    BY <2>2, <2>3
<1> HIDE DEF p
<1>3. Len(f) \in Nat /\ Len(f) >= 2
  <2>1. Len(f) \in Nat /\ z \in Nat /\ z >= 2 /\ Len(f) = z + Len(p) /\ Len(p) \in Nat
    BY <1>1, FrameIs, SendableIs
  <2> HIDE DEF z, f
  <2>2. QED
    BY <2>1
<1> HIDE DEF f
<1>4. ASSUME NEW j \in 1..Len(f), j <= Len(toClient)
      PROVE  toClient[j] = f[j]
  <2>1. Len(toClient) \in Nat /\ Len(a) \in Nat
    BY LenProperties
  <2>2. j \in 1..Len(toClient) /\ j \in 1..Len(a)
    BY <1>2, <1>3, <1>4, <2>1
  <2>3. (toClient \o tx)[j] = toClient[j]
    BY <2>2, Cat
  <2>4. (a \o b)[j] = a[j]
    BY <2>2, Cat
  <2>5. a[j] = f[j]
    BY <1>2
  <2>6. QED
    BY <2>3, <2>4, <2>5
<1>5. QED
  BY <1>1, <1>2, <1>3, <1>4 DEF f, p, k

LEMMA RecvFrameStep ==
  ASSUME WireInv, recv_frame
  PROVE  WireInv'
<1> DEFINE k == Len(echoed)
           l == Len(written)
           code == toClient[2] % Half
           ext == Extension(code)
           plen == IF ext = 0 THEN code ELSE Number(SubSeq(toClient, 3, 2 + ext))
           m == 2 + ext + plen
<1>1. /\ toClient \in Seq(Byte) /\ tx \in Seq(Byte)
      /\ written \in Seq(Sendable) /\ echoed \in Seq(Nat)
      /\ Outbound /\ Echoes
  BY DEF WireInv, Streams, Outgoing
<1>2. /\ Len(toClient) >= 2 /\ Len(toClient) >= 2 + ext /\ Len(toClient) >= m
      /\ toClient' = SubSeq(toClient, 3 + ext + plen, Len(toClient))
      /\ echoed' = Append(echoed, plen)
      /\ UNCHANGED <<toServer, sent, rx, tx, conn, torn, delivered, written>>
  BY DEF recv_frame, serverVars
<1>3. ext \in Nat /\ plen \in Nat
  BY <1>1, <1>2, HeaderRead
<1>4. Len(toClient) \in Nat /\ k \in Nat /\ l \in Nat
  BY <1>1, LenProperties
<1> HIDE DEF ext, plen, k, l
<1>5. m \in Nat /\ m <= Len(toClient) /\ 3 + ext + plen = m + 1
  BY <1>2, <1>3, <1>4
<1> HIDE DEF m
<1>6. /\ toClient' \in Seq(Byte) /\ toClient' \o tx \in Seq(Byte)
      /\ Len(toClient' \o tx) = Len(toClient \o tx) - m
      /\ \A j \in 1..Len(toClient' \o tx) : (toClient' \o tx)[j] = (toClient \o tx)[m + j]
  <2> DEFINE u == SubSeq(toClient, m + 1, Len(toClient))
  <2>1. toClient \in Seq(Byte) /\ tx \in Seq(Byte) /\ m \in Nat /\ m <= Len(toClient)
    BY <1>1, <1>5
  <2>2. /\ u \in Seq(Byte) /\ u \o tx \in Seq(Byte)
        /\ Len(u \o tx) = Len(toClient \o tx) - m
        /\ \A j \in 1..Len(u \o tx) : (u \o tx)[j] = (toClient \o tx)[m + j]
    BY ONLY <2>1, Dropped, SMTT(30)
  <2>3. u = toClient'
    BY <1>2, <1>5
  <2> HIDE DEF u
  <2>4. QED
    BY <2>2, <2>3, Zenon
<1>7. /\ echoed' \in Seq(Nat) /\ Len(echoed') = k + 1
      /\ (\A j \in 1..k : echoed'[j] = echoed[j]) /\ echoed'[k + 1] = plen
  <2>1. /\ Append(echoed, plen) \in Seq(Nat) /\ Len(Append(echoed, plen)) = Len(echoed) + 1
        /\ \A j \in 1..Len(echoed) : Append(echoed, plen)[j] = echoed[j]
        /\ Append(echoed, plen)[Len(echoed) + 1] = plen
    BY ONLY <1>1, <1>3, AppendProperties
  <2>2. QED
    BY <1>2, <2>1 DEF k
<1>8. Streams'
  BY <1>2, <1>6, <1>7 DEF WireInv, Streams
<1>9. Incoming'
  BY <1>2 DEF WireInv, Incoming, Arrivals, Inbound, GivenUp
<1>10. ASSUME k < l => plen = Len(written[k + 1])
       PROVE  Echoes'
  <2>1. ASSUME NEW j \in 1..(k + 1), j <= l
        PROVE  echoed'[j] = Len(written[j])
    <3>1. CASE j = k + 1
      <4>1. k < l
        BY <1>4, <2>1, <3>1
      <4>2. QED
        BY <1>7, <1>10, <3>1, <4>1
    <3>2. CASE j # k + 1
      <4>1. j \in 1..k
        BY <1>4, <3>2
      <4>2. echoed[j] = Len(written[j])
        BY <1>1, <2>1, <4>1 DEF Echoes, k, l
      <4>3. QED
        BY <1>7, <4>1, <4>2
    <3>3. QED
      BY <3>1, <3>2
  <2>2. QED
    BY <1>1, <1>2, <1>7, <2>1 DEF Echoes, l
<1>11. CASE k >= l
  <2>1. torn \/ conn # "Open"
    <3>1. CASE k > l
      BY <1>1, <1>4, <3>1 DEF Outbound, k, l
    <3>2. CASE ~(k > l)
      <4>1. SUFFICES ASSUME ~torn, conn = "Open" PROVE FALSE
        OBVIOUS
      <4>2. k = l
        BY <1>4, <1>11, <3>2
      <4>3. PICK a, b : Tailed(a, b)
        BY <1>1, <4>1 DEF Outbound
      <4>4. /\ a \in Seq(Byte) /\ b = <<>> /\ toClient \o tx = a \o b
            /\ Framed(a, written, Len(written), {FALSE})
        BY <4>1, <4>2, <4>3 DEF Tailed, k, l
      <4>5. a = <<>>
        BY <1>1, <4>4, FramedEnd
      <4>6. toClient \o tx = <<>>
        BY <4>4, <4>5, ConcatEmptySeq
      <4>7. toClient = <<>>
        BY <1>1, <4>6, ConcatEqualIffEmpty
      <4>8. QED
        BY <1>2, <4>7, EmptySeq
    <3>3. QED
      BY <3>1, <3>2
  <2>2. k + 1 > l /\ ~(k < l)
    BY <1>4, <1>11
  <2>3. Outbound'
    BY <1>2, <1>7, <2>1, <2>2 DEF Outbound, l
  <2>4. QED
    BY <1>8, <1>9, <1>10, <2>2, <2>3 DEF WireInv, Outgoing
<1>12. CASE k < l
  <2> DEFINE p == written[k + 1]
             f == Frame(p, FALSE)
  <2>1. PICK a, b : Tailed(a, b)
    BY <1>1, <1>4, <1>12 DEF Outbound, k, l
  <2>2. /\ a \in Seq(Byte) /\ b \in Seq(Byte) /\ toClient \o tx = a \o b
        /\ Framed(a, written, k, {FALSE}) /\ (conn = "Open" /\ ~torn => b = <<>>)
    BY <2>1 DEF Tailed, k
  <2>3. /\ p \in Sendable /\ Len(f) \in Nat /\ Len(f) <= Len(a)
        /\ \A j \in 1..Len(f) : j <= Len(toClient) => toClient[j] = f[j]
        /\ \A t \in Seq(Byte) :
             Len(t) = Len(a) - Len(f) /\ (\A j \in 1..Len(t) : t[j] = a[Len(f) + j])
               => Framed(t, written, k + 1, {FALSE})
    BY <1>1, <1>4, <1>12, <2>2, FirstOutbound DEF k, l
  <2> HIDE DEF p
  <2>4. plen = Len(p) /\ m = Len(f)
    BY <1>1, <1>2, <2>3, EchoHeader DEF ext, plen, m
  <2> HIDE DEF f
  <2> DEFINE c == SubSeq(a, m + 1, Len(a))
  <2>5. m \in Nat /\ m <= Len(a) /\ Len(a) \in Nat
    BY <2>2, <2>3, <2>4, LenProperties
  <2>6. c \in Seq(Byte) /\ Len(c) = Len(a) - m /\ \A j \in 1..Len(c) : c[j] = a[m + j]
    <3> DEFINE r == Len(a) - m
    <3>1. r \in Nat /\ m + r <= Len(a) /\ Len(a) = m + r
      BY <2>5
    <3> HIDE DEF r
    <3>2. a \in Seq(Byte) /\ m \in Nat /\ r \in Nat /\ m + r <= Len(a) /\ Len(a) = m + r
      BY <2>2, <2>5, <3>1
    <3>3. c \in Seq(Byte) /\ Len(c) = r /\ \A j \in 1..r : c[j] = a[m + j]
      BY ONLY <3>2, Part, SMTT(30)
    <3> HIDE DEF c
    <3>4. QED
      BY <3>3 DEF r
  <2>7. /\ c \o b \in Seq(Byte) /\ Len(c \o b) = Len(a \o b) - m
        /\ \A j \in 1..Len(c \o b) : (c \o b)[j] = (a \o b)[m + j]
    <3>1. a \in Seq(Byte) /\ b \in Seq(Byte) /\ m \in Nat /\ m <= Len(a)
      BY <2>2, <2>5
    <3>2. QED
      BY ONLY <3>1, Dropped, SMTT(30)
  <2> HIDE DEF c
  <2>8. toClient' \o tx = c \o b
    <3> DEFINE x == toClient' \o tx
               y == c \o b
    <3>1. x \in Seq(Byte) /\ y \in Seq(Byte) /\ Len(x) = Len(y) /\ \A j \in 1..Len(x) : x[j] = y[j]
      BY <1>6, <2>2, <2>7
    <3> HIDE DEF x, y
    <3>2. x = y
      BY ONLY <3>1, SeqEqual
    <3>3. QED
      BY <3>2 DEF x, y
  <2>9. Framed(c, written, k + 1, {FALSE})
    BY <2>3, <2>4, <2>6
  <2>10. \E x : Tailed(x, b)'
    <3>1. PICK x : x = c
      OBVIOUS
    <3>2. Tailed(x, b)'
      BY <1>2, <1>7, <2>2, <2>6, <2>8, <2>9, <3>1 DEF Tailed
    <3>3. QED
      BY <3>2
  <2>11. k + 1 <= l
    BY <1>4, <1>12
  <2>12. Outbound'
    BY <1>2, <1>7, <2>10, <2>11 DEF Outbound, l
  <2>13. QED
    BY <1>8, <1>9, <1>10, <2>4, <2>12 DEF WireInv, Outgoing, p
<1>13. QED
  BY <1>4, <1>11, <1>12

LEMMA WireStep ==
  ASSUME WireInv, [WireNext]_wireVars
  PROVE  WireInv'
<1>1. CASE \E n \in PayloadLen : send_masked(n) \/ SendPlain(n)
  BY <1>1, SendMaskedStep, SendPlainStep
<1>2. CASE \E k \in 1..RxCap : Arrive(k)
  BY <1>2, ArriveStep
<1>3. CASE RxFull
  BY <1>3, RxFullStep
<1>4. CASE ParseFrame
  BY <1>4, ParseFrameStep
<1>5. CASE \E k \in 1..TxCap : Flush(k)
  BY <1>5, FlushStep
<1>6. CASE recv_frame
  BY <1>6, RecvFrameStep
<1>7. CASE UNCHANGED wireVars
  <2>1. UNCHANGED <<toServer, toClient, sent, echoed, rx, tx, conn, torn, delivered, written>>
    BY <1>7 DEF wireVars, serverVars
  <2>2. Streams' /\ Incoming' /\ Echoes'
    BY <2>1 DEF WireInv, Streams, Incoming, Arrivals, Inbound, GivenUp, Outgoing, Echoes
  <2>3. Outbound'
    BY <2>1, OutboundSame DEF WireInv, Outgoing
  <2>4. QED
    BY <2>2, <2>3 DEF WireInv, Outgoing
<1>8. QED
  BY <1>1, <1>2, <1>3, <1>4, <1>5, <1>6, <1>7 DEF WireNext

LEMMA WireAlways == WireSpec => []WireInv
<1>1. WireInit => WireInv
  BY WireStarts
<1>2. WireInv /\ [WireNext]_wireVars => WireInv'
  BY WireStep
<1>3. QED
  BY <1>1, <1>2, PTL DEF WireSpec

-----------------------------------------------------------------------------
(* Frames arrive as they were sent, masked or not and whatever form their  *)
(* length has, wherever the stream is cut: parse_frames delivers none      *)
(* before all of it is there and, once all bytes have been received, keeps *)
(* none back.  Only frames that rx_buffer_ holds are delivered, and only a *)
(* frame that it does not hold, masked, ends the connection.  By WireInv:  *)
(* receive buffer and wire together are the whole frames that were sent    *)
(* and not delivered.                                                      *)
THEOREM FramesArrive == WireSpec => []FramesSurviveSplitting
<1>1. ASSUME WireInv PROVE FramesSurviveSplitting
  <2>1. /\ toServer \in Seq(Byte) /\ rx \in Seq(Byte)
        /\ sent \in Seq(Sendable) /\ delivered \in Seq(Sendable)
        /\ Len(delivered) <= Len(sent) /\ \A k \in 1..Len(delivered) : delivered[k] = sent[k]
    BY <1>1 DEF WireInv, Streams, Incoming, Arrivals
  <2>2. Len(delivered) \in Nat /\ Len(sent) \in Nat
    BY <2>1, LenProperties
  <2>3. IsPrefix(delivered, sent)
    <3> DEFINE a == SubSeq(delivered, 1, Len(delivered))
               b == SubSeq(sent, 1, Len(delivered))
               l == Len(delivered)
    <3>1. l \in Nat /\ 0 \in Nat /\ 0 + l <= Len(sent) /\ 0 + l <= Len(delivered) /\ 1 = 0 + 1 /\ l = 0 + l
      BY <2>1, <2>2
    <3> HIDE DEF l
    <3>2. /\ SubSeq(delivered, 1, l) \in Seq(Sendable) /\ Len(SubSeq(delivered, 1, l)) = l
          /\ \A i \in 1..l : SubSeq(delivered, 1, l)[i] = delivered[0 + i]
      BY ONLY <2>1, <3>1, Part
    <3>3. /\ SubSeq(sent, 1, l) \in Seq(Sendable) /\ Len(SubSeq(sent, 1, l)) = l
          /\ \A i \in 1..l : SubSeq(sent, 1, l)[i] = sent[0 + i]
      BY ONLY <2>1, <3>1, Part
    <3>4. \A i \in 1..l : delivered[0 + i] = sent[0 + i]
      <4>1. \A i \in 1..l : 0 + i = i
        BY <3>1
      <4>2. QED
        BY <2>1, <4>1 DEF l
    <3>5. SubSeq(delivered, 1, l) = SubSeq(sent, 1, l)
      <4> DEFINE c == SubSeq(delivered, 1, l)
                 e == SubSeq(sent, 1, l)
      <4>1. c \in Seq(Sendable) /\ e \in Seq(Sendable) /\ Len(c) = Len(e) /\ \A i \in 1..Len(c) : c[i] = e[i]
        BY <3>2, <3>3, <3>4
      <4> HIDE DEF c, e
      <4>2. c = e
        BY ONLY <4>1, SeqEqual
      <4>3. QED
        BY <4>2 DEF c, e
    <3>6. QED
      BY <2>1, <3>5 DEF IsPrefix, l
  <2>4. ASSUME toServer = <<>>, ~CanParse
        PROVE  delivered = sent /\ rx = <<>>
    <3>1. Len(delivered) = Len(sent)
      <4>1. SUFFICES ASSUME Len(delivered) # Len(sent) PROVE FALSE
        OBVIOUS
      <4> DEFINE p == sent[Len(delivered) + 1]
      <4>2. p \in Sendable
        BY <1>1, <4>1, FirstInbound
      <4>3. PICK mask \in BOOLEAN :
              LET f == Frame(p, mask)
                  s == rx \o toServer
              IN  /\ Len(f) <= Len(s) /\ \A j \in 1..Len(f) : s[j] = f[j]
        BY <1>1, <4>1, FirstInbound
      <4> DEFINE f == Frame(p, mask)
      <4> HIDE DEF p
      <4>4. CanParse <=> Len(f) <= Len(rx)
        BY <2>1, <4>2, <4>3, AtFront
      <4>5. rx \o toServer = rx
        BY <2>1, <2>4, ConcatEmptySeq
      <4>6. QED
        BY <2>4, <4>3, <4>4, <4>5
    <3>2. rx = <<>>
      BY <1>1, <3>1, NothingInbound
    <3>3. delivered = sent
      BY <2>1, <3>1, SeqEqual
    <3>4. QED
      BY <3>2, <3>3
  <2>5. ASSUME NEW k \in DOMAIN delivered
        PROVE  FrameLen(Len(delivered[k]), FALSE) <= RxCap
    <3> DEFINE p == delivered[k]
    <3>1. k \in 1..Len(delivered)
      BY <2>1, LenProperties
    <3>2. p \in Sendable
      BY <2>1, <3>1, ElementOfSeq
    <3>3. Len(Frame(p, FALSE)) <= RxCap
      BY <1>1, <3>1 DEF WireInv, Incoming, Arrivals
    <3> HIDE DEF p
    <3>4. FrameLen(Len(p), FALSE) = Len(Frame(p, FALSE))
      BY <3>2, FrameLengths
    <3>5. QED
      BY <3>3, <3>4, Zenon DEF p
  <2>6. ASSUME conn # "Open"
        PROVE  /\ Len(delivered) < Len(sent)
               /\ FrameLen(Len(sent[Len(delivered) + 1]), TRUE) > RxCap
    <3> DEFINE p == sent[Len(delivered) + 1]
    <3>1. Len(delivered) < Len(sent) /\ Len(Frame(p, TRUE)) > RxCap
      BY <1>1, <2>6 DEF WireInv, Incoming, GivenUp
    <3>2. Len(delivered) + 1 \in 1..Len(sent)
      BY <2>2, <3>1
    <3>3. p \in Sendable
      BY <2>1, <3>2, ElementOfSeq
    <3> HIDE DEF p
    <3>4. FrameLen(Len(p), TRUE) = Len(Frame(p, TRUE))
      BY <3>3, FrameLengths
    <3>5. QED
      BY <3>1, <3>4, Zenon DEF p
  <2>7. QED
    BY <2>3, <2>4, <2>5, <2>6 DEF FramesSurviveSplitting
<1>2. QED
  BY <1>1, WireAlways, PTL

(* The client of the benchmark, whose decoder is not the library's, reads  *)
(* every echo that write_frame has written whole, at its boundary and with *)
(* its length, and no other before an echo is torn or the Close frame      *)
(* comes; if none was dropped, the lengths are those that were sent.       *)
THEOREM EchoesAccepted == WireSpec => []EchoAccepted
<1>1. ASSUME WireInv PROVE EchoAccepted
  <2>1. /\ toClient \in Seq(Byte) /\ tx \in Seq(Byte) /\ sent \in Seq(Sendable)
        /\ delivered \in Seq(Sendable) /\ written \in Seq(Sendable) /\ echoed \in Seq(Nat)
        /\ Echoes /\ Outbound /\ Arrivals
    BY <1>1 DEF WireInv, Streams, Incoming, Outgoing
  <2>2. Len(written) \in Nat /\ Len(echoed) \in Nat /\ DOMAIN echoed = 1..Len(echoed)
    BY <2>1, LenProperties
  <2>3. \A k \in DOMAIN echoed : k <= Len(written) => echoed[k] = Len(written[k])
    BY <2>1, <2>2 DEF Echoes
  <2>4. ASSUME conn = "Open", ~torn
        PROVE  Len(echoed) <= Len(written)
    BY <2>1, <2>4 DEF Outbound
  <2>5. ASSUME conn = "Open", ~torn, toClient = <<>>, tx = <<>>
        PROVE  Len(echoed) = Len(written)
    <3>0. Len(echoed) <= Len(written)
      BY <2>4, <2>5
    <3>1. SUFFICES ASSUME Len(echoed) < Len(written) PROVE FALSE
      <4> DEFINE k == Len(echoed)
                 l == Len(written)
      <4>1. k \in Nat /\ l \in Nat /\ k <= l
        BY <2>2, <3>0
      <4> HIDE DEF k, l
      <4>2. k < l \/ k = l
        BY ONLY <4>1
      <4>3. QED
        BY <4>2 DEF k, l
    <3>2. PICK a, b : Tailed(a, b)
      BY <2>1, <2>5 DEF Outbound
    <3>3. /\ a \in Seq(Byte) /\ b \in Seq(Byte) /\ toClient \o tx = a \o b
          /\ Framed(a, written, Len(echoed), {FALSE})
      BY <3>2 DEF Tailed
    <3> DEFINE f == Frame(written[Len(echoed) + 1], FALSE)
    <3>4. Len(f) \in Nat /\ Len(f) >= 2 /\ Len(f) <= Len(a)
      BY <2>1, <2>2, <3>1, <3>3, FirstOutbound
    <3>5. a \o b = <<>>
      BY <2>5, <3>3, ConcatEmptySeq
    <3>6. a = <<>>
      BY <3>3, <3>5, ConcatEqualIffEmpty
    <3>7. Len(a) = 0
      BY <3>6, EmptySeq
    <3> HIDE DEF f
    <3>8. QED
      BY <3>4, <3>7
  <2>6. ASSUME Len(written) = Len(delivered), NEW k \in DOMAIN echoed, k <= Len(written)
        PROVE  echoed[k] = Len(sent[k])
    <3>1. k \in 1..Len(written)
      BY <2>2, <2>6
    <3>2. written[k] = delivered[k] /\ delivered[k] = sent[k]
      BY <2>1, <2>6, <3>1 DEF Echoes, Arrivals
    <3>3. QED
      BY <2>3, <2>6, <3>2
  <2>7. QED
    BY <2>3, <2>4, <2>5, <2>6 DEF EchoAccepted
<1>2. QED
  BY <1>1, WireAlways, PTL

=============================================================================
