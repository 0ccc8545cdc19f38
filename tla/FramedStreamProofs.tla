------------------------- MODULE FramedStreamProofs -------------------------
(***************************************************************************)
(* Proofs about FramedStream, for every size of a byte and of the buffers, *)
(* every sequence of messages and every number of retries.                 *)
(***************************************************************************)
EXTENDS FramedStream, SequenceTheorems, WellFoundedInduction, TLAPS

-----------------------------------------------------------------------------
(***************************************************************************)
(* Induction on the naturals, for a set instead of a predicate.            *)
(***************************************************************************)
LEMMA SetInduction ==
  ASSUME NEW T \in SUBSET Nat, 0 \in T, \A n \in T : n + 1 \in T
  PROVE  T = Nat
<1> SUFFICES ASSUME Nat \ T # {}
             PROVE  FALSE
  OBVIOUS
<1>1. PICK m \in Nat \ T : \A k \in Nat \ T : <<k, m>> \notin OpToRel(<, Nat)
  BY NatLessThanWellFounded, WFMin
<1>2. m # 0 /\ m - 1 \in Nat
  OBVIOUS
<1>3. <<m - 1, m>> \in OpToRel(<, Nat)
  BY <1>2 DEF OpToRel
<1>4. m - 1 \in T
  BY <1>1, <1>2, <1>3
<1>. QED
  BY <1>2, <1>4

-----------------------------------------------------------------------------
(***************************************************************************)
(* The length field.                                                       *)
(***************************************************************************)
\* A number has one quotient and one remainder.
LEMMA Quotient ==
  ASSUME NEW b \in Nat \ {0}, NEW q \in Int, NEW r \in 0 .. b - 1
  PROVE  (q * b + r) \div b = q /\ (q * b + r) % b = r
  OBVIOUS

\* Its low digit and the rest.
LEMMA Digit ==
  ASSUME NEW b \in Nat \ {0}, NEW n \in Nat
  PROVE  n \div b \in Nat /\ n % b \in 0 .. b - 1 /\ n = (n \div b) * b + (n % b)
  OBVIOUS

\* Dividing by a product is dividing by its factors.
LEMMA DivideTwice ==
  ASSUME NEW b \in Nat \ {0}, NEW c \in Nat \ {0}, NEW n \in Nat
  PROVE  n \div (c * b) = (n \div b) \div c
<1> DEFINE q == n \div b
           r == n % b
           p == q \div c
           s == q % c
<1>1. q \in Nat /\ r \in 0 .. b - 1 /\ n = q * b + r
  BY Digit
<1>2. p \in Nat /\ s \in 0 .. c - 1 /\ q = p * c + s
  BY <1>1, Digit
<1> HIDE DEF q, r, p, s
<1>3. c * b \in Nat \ {0}
  OBVIOUS
<1>4. n = p * (c * b) + (s * b + r)
  BY <1>1, <1>2
<1>5. s * b \in Nat /\ s * b <= (c - 1) * b
  BY <1>2
<1>6. s * b + r \in 0 .. c * b - 1
  BY <1>1, <1>2, <1>5
<1>7. n \div (c * b) = p
  BY <1>2, <1>3, <1>4, <1>6, Quotient
<1>. QED
  BY <1>7 DEF p, q

\* A length field can hold its own length: a byte has at least two values.
LEMMA LengthFieldFits == LengthSizeField \in 0 .. UInt32 - 1
<1>1. Byte >= 2 /\ Byte \in Nat
  BY ConstantsAssumption
<1>2. Byte * Byte \in Nat /\ Byte * Byte >= 4
  BY <1>1
<1>3. Byte * Byte * Byte \in Nat /\ Byte * Byte * Byte >= 8
  BY <1>1, <1>2
<1>4. Byte * Byte * Byte * Byte \in Nat /\ Byte * Byte * Byte * Byte >= 16
  BY <1>1, <1>3
<1>. QED
  BY <1>4 DEF UInt32, LengthSizeField

\* What is written as four bytes is what is read from them, also when the
\* first byte is negative.
LEMMA LengthFieldRoundTrip ==
  ASSUME NEW n \in 0 .. UInt32 - 1
  PROVE  /\ IntToBytes(n) \in Seq(Bytes)
         /\ Len(IntToBytes(n)) = LengthSizeField
         /\ BytesToInt(IntToBytes(n)) = n
<1> DEFINE n1 == n \div Byte
           n2 == n1 \div Byte
           n3 == n2 \div Byte
           d1 == n3 % Byte
           d2 == n2 % Byte
           d3 == n1 % Byte
           d4 == n % Byte
           B2 == Byte * Byte
           B3 == Byte * Byte * Byte
<1>0. /\ Byte \in Nat \ {0} /\ B2 \in Nat \ {0} /\ B3 \in Nat \ {0}
      /\ UInt32 \in Nat \ {0} /\ n \in Nat /\ n < UInt32
      /\ UInt32 = B3 * Byte /\ B3 = B2 * Byte /\ B2 = Byte * Byte
  <2>1. Byte \in Nat \ {0}
    BY ConstantsAssumption
  <2>2. B2 \in Nat \ {0}
    BY <2>1
  <2>3. B3 \in Nat \ {0} /\ B3 = B2 * Byte
    BY <2>1, <2>2
  <2>4. UInt32 \in Nat \ {0} /\ UInt32 = B3 * Byte
    BY <2>1, <2>3 DEF UInt32
  <2>. QED
    BY <2>1, <2>2, <2>3, <2>4
<1>1. n1 \in Nat /\ d4 \in 0 .. Byte - 1 /\ n = n1 * Byte + d4
  BY <1>0, Digit
<1>2. n2 \in Nat /\ d3 \in 0 .. Byte - 1 /\ n1 = n2 * Byte + d3
  BY <1>0, <1>1, Digit
<1>3. n3 \in Nat /\ d2 \in 0 .. Byte - 1 /\ n2 = n3 * Byte + d2
  BY <1>0, <1>2, Digit
<1>4. n \div B2 = n2
  BY <1>0, DivideTwice
<1>5. n \div B3 = n3
  <2>1. n \div (B2 * Byte) = n1 \div B2
    BY <1>0, DivideTwice
  <2>2. n1 \div B2 = n3
    BY <1>0, <1>1, DivideTwice
  <2>. QED
    BY <1>0, <2>1, <2>2
<1>6. IntToBytes(n) = <<d1, d2, d3, d4>>
  BY <1>4, <1>5 DEF IntToBytes
<1> HIDE DEF n1, n2, n3, d2, d3, d4, B2, B3
<1>7. n = n3 * B3 + d2 * B2 + d3 * Byte + d4
  BY <1>0, <1>1, <1>2, <1>3
<1>8. n3 < Byte
  <2> SUFFICES ASSUME n3 >= Byte
               PROVE  FALSE
    BY <1>0, <1>3
  <2>1. n3 * B3 >= Byte * B3
    BY <1>0, <1>3
  <2>2. d2 * B2 \in Nat /\ d3 * Byte \in Nat
    BY <1>0, <1>2, <1>3
  <2>. QED
    BY <1>0, <1>1, <1>3, <1>7, <2>1, <2>2
<1>9. d1 = n3 /\ d1 \in 0 .. Byte - 1
  BY <1>0, <1>3, <1>8
<1> HIDE DEF d1
<1>10. /\ IntToBytes(n) \in Seq(Bytes)
       /\ Len(IntToBytes(n)) = LengthSizeField
  <2>1. d1 \in Bytes /\ d2 \in Bytes /\ d3 \in Bytes /\ d4 \in Bytes
    BY <1>1, <1>2, <1>3, <1>9 DEF Bytes
  <2>. QED
    BY <1>6, <2>1 DEF LengthSizeField
<1>11. BytesToInt(IntToBytes(n))
         = (((AsChar(d1) * Byte + d2) * Byte + d3) * Byte + d4) % UInt32
  BY <1>6 DEF BytesToInt
<1>12. AsChar(d1) = n3 \/ AsChar(d1) = n3 - Byte
  BY <1>9 DEF AsChar
<1>13. CASE AsChar(d1) = n3
  <2>1. ((n3 * Byte + d2) * Byte + d3) * Byte + d4 = n
    BY <1>1, <1>2, <1>3
  <2>2. n % UInt32 = n
    BY <1>0
  <2>. QED
    BY <1>10, <1>11, <1>13, <2>1, <2>2
<1>14. CASE AsChar(d1) = n3 - Byte
  <2>1. (((n3 - Byte) * Byte + d2) * Byte + d3) * Byte + d4 = (-1) * UInt32 + n
    <3>1. ((n3 - Byte) * Byte + d2) = n2 - B2
      BY <1>0, <1>3
    <3>2. (n2 - B2) * Byte + d3 = n1 - B3
      BY <1>0, <1>2
    <3>3. (n1 - B3) * Byte + d4 = n - UInt32
      BY <1>0, <1>1
    <3>. QED
      BY <1>0, <3>1, <3>2, <3>3
  <2>2. ((-1) * UInt32 + n) % UInt32 = n
    BY <1>0, Quotient
  <2>. QED
    BY <1>10, <1>11, <1>14, <2>1, <2>2
<1>. QED
  BY <1>12, <1>13, <1>14

-----------------------------------------------------------------------------
(***************************************************************************)
(* Sequences of bytes put together and cut up.  The operator ++ is \o under *)
(* another name: the provers know too much about \o to find short proofs,  *)
(* and of ++ they know the next six lemmas only.                           *)
(***************************************************************************)
a ++ b == a \o b

\* Its type and its length.
LEMMA CatType ==
  \A a, b \in Seq(Bytes) : a ++ b \in Seq(Bytes) /\ Len(a ++ b) = Len(a) + Len(b)
BY ConcatProperties DEF ++

\* Three sequences may be put together from either end.
LEMMA CatAssociative ==
  \A a, b, c \in Seq(Bytes) : (a ++ b) ++ c = a ++ (b ++ c)
BY ConcatAssociative DEF ++

\* What follows the same beginning is the same.
LEMMA CatCancel ==
  \A a, b, c \in Seq(Bytes) : a ++ b = a ++ c => b = c
BY ConcatSimplifications DEF ++

\* Nothing added is no change, ...
LEMMA CatEmpty ==
  \A a \in Seq(Bytes) : a ++ << >> = a /\ << >> ++ a = a
BY ConcatEmptySeq DEF ++

\* ... and no change is nothing added.
LEMMA CatNothing ==
  \A a, b \in Seq(Bytes) :
    (a ++ b = a => b = << >>) /\ (a ++ b = << >> => a = << >> /\ b = << >>)
BY ConcatEqualIffEmpty DEF ++

\* Two equal sequences that are cut at the same place have equal parts.
LEMMA CutAlike ==
  ASSUME NEW a \in Seq(Bytes), NEW b \in Seq(Bytes), NEW x \in Seq(Bytes), NEW y \in Seq(Bytes),
         a ++ x = b ++ y, Len(a) = Len(b)
  PROVE  a = b /\ x = y
<1>1. \A i \in 1 .. Len(a) : a[i] = (a ++ x)[i] /\ b[i] = (b ++ y)[i]
  BY ConcatProperties, LenProperties DEF ++
<1>2. a = b
  BY <1>1, SeqEqual
<1>3. x = y
  BY <1>2, CatCancel
<1>. QED
  BY <1>2, <1>3

\* The bytes that one send() or recv() moves, and those that stay.
LEMMA FirstAndRest ==
  ASSUME NEW s \in Seq(Bytes), NEW n \in 0 .. Len(s)
  PROVE  /\ First(s, n) \in Seq(Bytes) /\ Len(First(s, n)) = n
         /\ Rest(s, n) \in Seq(Bytes) /\ Len(Rest(s, n)) = Len(s) - n
         /\ First(s, n) ++ Rest(s, n) = s
<1>1. Len(s) \in Nat /\ \A i \in 1 .. Len(s) : s[i] \in Bytes
  BY LenProperties
<1>2. First(s, n) \in Seq(Bytes) /\ Len(First(s, n)) = n
  BY <1>1, SubSeqProperties DEF First
<1>3. Rest(s, n) \in Seq(Bytes) /\ Len(Rest(s, n)) = Len(s) - n
  BY <1>1, SubSeqProperties DEF Rest
<1>4. First(s, n) ++ Rest(s, n) = SubSeq(s, 1, Len(s))
  <2>1. 1 \in 1 .. Len(s) + 1 /\ n \in 1 - 1 .. Len(s) /\ Len(s) \in n .. Len(s)
    BY <1>1
  <2>. QED
    BY <2>1, ConcatAdjacentSubSeq DEF First, Rest, ++
<1>. QED
  BY <1>2, <1>3, <1>4, SubSeqFull

-----------------------------------------------------------------------------
(***************************************************************************)
(* The frames of the first n messages.                                     *)
(***************************************************************************)
\* The recursive definition defines a function: the frames up to n extend to
\* those up to n + 1.
LEMMA FramesDefined ==
  Frames = [n \in 0 .. Len(Messages) |->
              IF n = 0 THEN << >> ELSE Frames[n - 1] \o Frame(Messages[n])]
<1> DEFINE D(g, n) == IF n = 0 THEN << >> ELSE g[n - 1] \o Frame(Messages[n])
           T == {k \in Nat : \E g : g = [n \in 0 .. k |-> D(g, n)]}
<1>1. 0 \in T
  <2> DEFINE g == [n \in 0 .. 0 |-> << >>]
  <2>1. g = [n \in 0 .. 0 |-> D(g, n)]
    OBVIOUS
  <2>. QED
    BY <2>1
<1>2. ASSUME NEW k \in T
      PROVE  k + 1 \in T
  <2>1. PICK g : g = [n \in 0 .. k |-> D(g, n)]
    OBVIOUS
  <2> DEFINE h == [n \in 0 .. k + 1 |->
                     IF n = k + 1 THEN g[k] \o Frame(Messages[k + 1]) ELSE g[n]]
  <2>2. ASSUME NEW n \in 0 .. k + 1
        PROVE  h[n] = D(h, n)
    <3>1. CASE n = k + 1
      <4>1. n # 0 /\ n - 1 = k /\ h[k] = g[k]
        BY <3>1
      <4>. QED
        BY <3>1, <4>1
    <3>2. CASE n # k + 1 /\ n # 0
      <4>1. n \in 0 .. k /\ n - 1 \in 0 .. k + 1 /\ n - 1 # k + 1
        BY <3>2
      <4>2. h[n] = g[n] /\ h[n - 1] = g[n - 1]
        BY <3>2, <4>1
      <4>3. g[n] = g[n - 1] \o Frame(Messages[n])
        BY <2>1, <3>2, <4>1
      <4>. QED
        BY <3>2, <4>2, <4>3
    <3>3. CASE n = 0
      <4>1. n \in 0 .. k /\ n # k + 1
        BY <3>3
      <4>2. h[n] = g[n]
        BY <4>1
      <4>3. g[n] = << >>
        BY <2>1, <3>3, <4>1
      <4>. QED
        BY <3>3, <4>2, <4>3
    <3>. QED
      BY <3>1, <3>2, <3>3
  <2>3. h = [n \in 0 .. k + 1 |-> D(h, n)]
    <3> HIDE DEF D
    <3>. QED
      BY <2>2
  <2> HIDE DEF h, D
  <2>4. \E f : f = [n \in 0 .. k + 1 |-> D(f, n)]
    BY <2>3
  <2>. QED
    BY <2>4
<1>3. T = Nat
  <2> HIDE DEF T
  <2>1. T \in SUBSET Nat
    BY DEF T
  <2>. QED
    BY <1>1, <1>2, <2>1, SetInduction
<1>4. Len(Messages) \in T
  BY <1>3, ConstantsAssumption, LenProperties
<1>5. \E g : g = [n \in 0 .. Len(Messages) |-> D(g, n)]
  BY <1>4
<1>. QED
  BY <1>5 DEF Frames

\* A message and its frame: at least one byte after the length field.
LEMMA FrameFacts ==
  ASSUME NEW n \in 1 .. Len(Messages)
  PROVE  LET m == Messages[n]
         IN  /\ m \in Seq(Bytes) /\ Len(m) \in Nat \ {0} /\ Len(m) \in 0 .. UInt32 - 1
             /\ IntToBytes(Len(m)) \in Seq(Bytes) /\ Len(IntToBytes(Len(m))) = LengthSizeField
             /\ BytesToInt(IntToBytes(Len(m))) = Len(m)
             /\ Frame(m) \in Seq(Bytes) /\ Len(Frame(m)) = LengthSizeField + Len(m)
<1> DEFINE m == Messages[n]
<1>1. m \in Seq(Bytes) /\ m # << >>
  BY ConstantsAssumption, ElementOfSeq DEF Bytes
<1>2. Len(m) \in Nat \ {0}
  BY <1>1, EmptySeq
<1>3. Len(m) \in 0 .. UInt32 - 1
  <2>1. n \in DOMAIN Messages
    BY ConstantsAssumption, LenProperties
  <2>2. Len(m) < UInt32 /\ UInt32 \in Int
    BY <2>1, ConstantsAssumption DEF UInt32
  <2>. QED
    BY <1>2, <2>2
<1> HIDE DEF m
<1>4. /\ IntToBytes(Len(m)) \in Seq(Bytes) /\ Len(IntToBytes(Len(m))) = LengthSizeField
      /\ BytesToInt(IntToBytes(Len(m))) = Len(m)
  BY <1>3, LengthFieldRoundTrip
<1>5. Frame(m) \in Seq(Bytes) /\ Len(Frame(m)) = LengthSizeField + Len(m)
  BY <1>1, <1>4, CatType DEF Frame, ++
<1>. QED
  BY <1>1, <1>2, <1>3, <1>4, <1>5 DEF m

\* Frames, one message at a time.
LEMMA FramesStep ==
  /\ Frames[0] = << >>
  /\ \A n \in 1 .. Len(Messages) : Frames[n] = Frames[n - 1] ++ Frame(Messages[n])
<1>1. Len(Messages) \in Nat
  BY ConstantsAssumption, LenProperties
<1>2. ASSUME NEW n \in 0 .. Len(Messages)
      PROVE  Frames[n] = IF n = 0 THEN << >> ELSE Frames[n - 1] ++ Frame(Messages[n])
  BY FramesDefined, Zenon DEF ++
<1>3. 0 \in 0 .. Len(Messages)
  BY <1>1
<1>4. \A n \in 1 .. Len(Messages) : n \in 0 .. Len(Messages) /\ n # 0
  BY <1>1
<1>. QED
  BY <1>2, <1>3, <1>4, Zenon

\* The frames of any number of messages are a sequence of bytes, and the
\* frames of more messages are longer by at least five bytes for each.
LEMMA FramesGrow ==
  /\ \A n \in 0 .. Len(Messages) : Frames[n] \in Seq(Bytes)
  /\ \A i \in 0 .. Len(Messages) : \A j \in i .. Len(Messages) :
       \E t \in Seq(Bytes) :
         Frames[j] = Frames[i] ++ t /\ Len(t) >= (LengthSizeField + 1) * (j - i)
<1> DEFINE N == Len(Messages)
<1>0. N \in Nat
  BY ConstantsAssumption, LenProperties
<1> HIDE DEF N
<1>1. \A n \in 0 .. N : Frames[n] \in Seq(Bytes)
  <2> DEFINE T == {n \in Nat : n <= N => Frames[n] \in Seq(Bytes)}
  <2>1. 0 \in T
    BY FramesStep, EmptySeq
  <2>2. ASSUME NEW n \in T
        PROVE  n + 1 \in T
    <3> SUFFICES ASSUME n + 1 <= N
                 PROVE  Frames[n + 1] \in Seq(Bytes)
      OBVIOUS
    <3>1. n + 1 \in 1 .. N /\ (n + 1) - 1 = n
      BY <1>0
    <3>2. Frames[n] \in Seq(Bytes)
      BY <1>0, <3>1
    <3>3. Frame(Messages[n + 1]) \in Seq(Bytes)
      BY <3>1, FrameFacts DEF N
    <3>4. Frames[n + 1] = Frames[n] ++ Frame(Messages[n + 1])
      BY <3>1, FramesStep DEF N
    <3>. QED
      BY <3>2, <3>3, <3>4, CatType
  <2>3. T = Nat
    <3> HIDE DEF T
    <3>1. T \in SUBSET Nat
      BY DEF T
    <3>. QED
      BY <2>1, <2>2, <3>1, SetInduction
  <2>. QED
    BY <1>0, <2>3
<1>2. ASSUME NEW i \in 0 .. N, NEW j \in i .. N
      PROVE  \E t \in Seq(Bytes) :
               Frames[j] = Frames[i] ++ t /\ Len(t) >= (LengthSizeField + 1) * (j - i)
  <2> DEFINE More(t, d) == /\ Frames[i + d] = Frames[i] ++ t
                           /\ Len(t) >= (LengthSizeField + 1) * d
             T == {d \in Nat : i + d <= N => \E t \in Seq(Bytes) : More(t, d)}
  <2>1. 0 \in T
    <3>1. << >> \in Seq(Bytes) /\ Len(<< >>) = 0
      BY EmptySeq
    <3>2. i + 0 = i
      BY <1>0
    <3>3. Frames[i] = Frames[i] ++ << >>
      BY <1>1, CatEmpty
    <3>4. More(<< >>, 0)
      BY <3>1, <3>2, <3>3 DEF LengthSizeField
    <3>. QED
      BY <3>1, <3>4
  <2>2. ASSUME NEW d \in T
        PROVE  d + 1 \in T
    <3> SUFFICES ASSUME i + (d + 1) <= N
                 PROVE  \E t \in Seq(Bytes) : More(t, d + 1)
      OBVIOUS
    <3> DEFINE n == i + (d + 1)
    <3>1. n \in 1 .. N /\ n - 1 = i + d /\ i + d <= N /\ d \in Nat
      BY <1>0
    <3>2. PICK t \in Seq(Bytes) : More(t, d)
      BY <3>1
    <3> HIDE DEF n, T
    <3> DEFINE f == Frame(Messages[n])
    <3>3. f \in Seq(Bytes) /\ Len(f) \in Nat /\ Len(f) >= LengthSizeField + 1
      BY <3>1, FrameFacts DEF N, LengthSizeField
    <3>4. Frames[n] = Frames[i + d] ++ f
      BY <3>1, FramesStep DEF N
    <3>5. Frames[i] \in Seq(Bytes)
      BY <1>1
    <3> HIDE DEF f
    <3>6. Frames[n] = Frames[i] ++ (t ++ f)
      <4>1. Frames[n] = (Frames[i] ++ t) ++ f
        BY <3>2, <3>4
      <4>2. (Frames[i] ++ t) ++ f = Frames[i] ++ (t ++ f)
        BY <3>3, <3>5, CatAssociative
      <4>. QED
        BY <4>1, <4>2, Zenon
    <3>7. t ++ f \in Seq(Bytes) /\ Len(t ++ f) = Len(t) + Len(f) /\ Len(t) \in Nat
      BY <3>3, CatType, LenProperties
    <3>8. Len(t ++ f) >= (LengthSizeField + 1) * (d + 1)
      BY <3>1, <3>2, <3>3, <3>7 DEF LengthSizeField
    <3>. QED
      BY <3>6, <3>7, <3>8 DEF n
  <2>3. T = Nat
    <3> HIDE DEF T
    <3>1. T \in SUBSET Nat
      BY DEF T
    <3>. QED
      BY <2>1, <2>2, <3>1, SetInduction
  <2>4. j - i \in Nat /\ i + (j - i) = j /\ j <= N
    BY <1>0
  <2>5. j - i \in T
    BY <2>3, <2>4
  <2> HIDE DEF More
  <2>6. \E t \in Seq(Bytes) : More(t, j - i)
    BY <2>4, <2>5
  <2>. QED
    BY <2>4, <2>6 DEF More
<1>. QED
  BY <1>1, <1>2 DEF N

\* What follows the frames of i messages, when there are more.
LEMMA NextFrame ==
  ASSUME NEW i \in 0 .. Len(Messages), NEW j \in 0 .. Len(Messages), i < j
  PROVE  LET m == Messages[i + 1]
         IN  \E t \in Seq(Bytes) : Frames[j] = Frames[i] ++ (IntToBytes(Len(m)) ++ (m ++ t))
<1> DEFINE m == Messages[i + 1]
           l == IntToBytes(Len(m))
<1>1. i + 1 \in 1 .. Len(Messages) /\ i + 1 \in 0 .. Len(Messages) /\ j \in (i + 1) .. Len(Messages)
      /\ (i + 1) - 1 = i
  BY ConstantsAssumption, LenProperties
<1>2. PICK t \in Seq(Bytes) : Frames[j] = Frames[i + 1] ++ t
  BY <1>1, FramesGrow
<1>3. Frames[i + 1] = Frames[i] ++ Frame(m)
  BY <1>1, FramesStep
<1>4. m \in Seq(Bytes) /\ l \in Seq(Bytes) /\ Frame(m) = l ++ m /\ Frame(m) \in Seq(Bytes)
  BY <1>1, FrameFacts DEF Frame, ++
<1>5. Frames[i] \in Seq(Bytes)
  BY FramesGrow
<1> HIDE DEF m, l
<1>6. Frames[j] = Frames[i] ++ (Frame(m) ++ t)
  <2>1. Frames[j] = (Frames[i] ++ Frame(m)) ++ t
    BY <1>2, <1>3
  <2>. QED
    BY <1>4, <1>5, <2>1, CatAssociative
<1>7. Frame(m) ++ t = l ++ (m ++ t)
  BY <1>4, CatAssociative
<1>. QED
  BY <1>6, <1>7 DEF m, l

\* Four bytes that follow whole frames are the length of the next message.
LEMMA LengthArrives ==
  ASSUME NEW i \in 0 .. Len(Messages), NEW j \in 0 .. Len(Messages), i <= j,
         NEW x \in Seq(Bytes), NEW y \in Seq(Bytes), Len(x) = LengthSizeField,
         Frames[i] ++ (x ++ y) = Frames[j]
  PROVE  i < j /\ BytesToInt(x) = Len(Messages[i + 1]) /\ IntToBytes(Len(Messages[i + 1])) = x
<1>1. Frames[i] \in Seq(Bytes) /\ x ++ y \in Seq(Bytes)
  BY FramesGrow, CatType
<1>2. i < j
  <2> SUFFICES ASSUME i = j
               PROVE  FALSE
    OBVIOUS
  <2>1. x ++ y = << >>
    BY <1>1, CatNothing
  <2>2. x = << >>
    BY <2>1, CatNothing
  <2>. QED
    BY <2>2, EmptySeq DEF LengthSizeField
<1> DEFINE m == Messages[i + 1]
           l == IntToBytes(Len(m))
<1>3. PICK t \in Seq(Bytes) : Frames[j] = Frames[i] ++ (l ++ (m ++ t))
  BY <1>2, NextFrame
<1>4. i + 1 \in 1 .. Len(Messages)
  BY <1>2, ConstantsAssumption, LenProperties
<1>5. m \in Seq(Bytes) /\ l \in Seq(Bytes) /\ Len(l) = LengthSizeField /\ BytesToInt(l) = Len(m)
  BY <1>4, FrameFacts
<1> HIDE DEF m, l
<1>6. m ++ t \in Seq(Bytes)
  BY <1>5, CatType
<1>7. l ++ (m ++ t) \in Seq(Bytes)
  BY <1>5, <1>6, CatType
<1>8. x ++ y = l ++ (m ++ t)
  BY <1>1, <1>3, <1>7, CatCancel
<1> DEFINE w == m ++ t
<1>9. w \in Seq(Bytes) /\ x ++ y = l ++ w
  BY <1>6, <1>8
<1> HIDE DEF w
<1>10. x = l
  BY <1>5, <1>9, CutAlike
<1>. QED
  BY <1>2, <1>5, <1>10 DEF m, l

\* As many bytes as it says are that message, and end its frame.
LEMMA PayloadArrives ==
  ASSUME NEW i \in 0 .. Len(Messages), NEW j \in 0 .. Len(Messages), i < j,
         NEW x \in Seq(Bytes), NEW y \in Seq(Bytes), Len(x) = Len(Messages[i + 1]),
         Frames[i] ++ (IntToBytes(Len(Messages[i + 1])) ++ (x ++ y)) = Frames[j]
  PROVE  /\ x = Messages[i + 1]
         /\ Frames[i] ++ (IntToBytes(Len(Messages[i + 1])) ++ x) = Frames[i + 1]
<1> DEFINE m == Messages[i + 1]
           l == IntToBytes(Len(m))
<1>1. Frames[i] \in Seq(Bytes)
  BY FramesGrow
<1>2. PICK t \in Seq(Bytes) : Frames[j] = Frames[i] ++ (l ++ (m ++ t))
  BY NextFrame
<1>3. i + 1 \in 1 .. Len(Messages) /\ (i + 1) - 1 = i
  BY ConstantsAssumption, LenProperties
<1>4. m \in Seq(Bytes) /\ l \in Seq(Bytes)
  BY <1>3, FrameFacts
<1>5. Frames[i + 1] = Frames[i] ++ (l ++ m)
  BY <1>3, FramesStep DEF Frame, ++
<1>6. Len(x) = Len(m) /\ Frames[i] ++ (l ++ (x ++ y)) = Frames[j]
  OBVIOUS
<1> HIDE DEF m, l
<1>7. m ++ t \in Seq(Bytes) /\ x ++ y \in Seq(Bytes)
  BY <1>4, CatType
<1>8. l ++ (m ++ t) \in Seq(Bytes) /\ l ++ (x ++ y) \in Seq(Bytes)
  BY <1>4, <1>7, CatType
<1>9. l ++ (x ++ y) = l ++ (m ++ t)
  BY <1>1, <1>2, <1>6, <1>8, CatCancel
<1>10. x ++ y = m ++ t
  BY <1>4, <1>7, <1>9, CatCancel
<1>11. x = m
  BY <1>4, <1>6, <1>10, CutAlike
<1>. QED
  BY <1>5, <1>11 DEF m, l

-----------------------------------------------------------------------------
(***************************************************************************)
(* The inductive invariant: besides InStep, that the reader asks for the   *)
(* right number of bytes, has returned the first messages only, and counts *)
(* retries only on a stream that is used up.                               *)
(***************************************************************************)
Started == IF rest = << >> THEN sent ELSE sent + 1

Framing ==
  /\ received = SubSeq(Messages, 1, Len(received)) /\ Len(received) <= sent
  /\ rest # << >> => sent < Len(Messages) /\ Len(rest) <= Len(Frame(Messages[sent + 1]))
  /\ reading = "length" => want = LengthSizeField
  /\ reading = "payload" => Len(received) < Started /\ want = Len(Messages[Len(received) + 1])
  /\ retries > 0 => stream = << >> /\ ~ Up("writer")

IInv == TypeOK /\ InStep /\ Framing

\* All that the reader has taken from the stream.
Taken == Frames[Len(received)] ++ Buffered

LEMMA TakenFacts ==
  ASSUME IInv
  PROVE  /\ Len(received) \in 0 .. Len(Messages) /\ Len(received) <= Started
         /\ Started \in 0 .. Len(Messages)
         /\ Frames[Len(received)] \in Seq(Bytes) /\ Frames[Started] \in Seq(Bytes)
         /\ Buffered \in Seq(Bytes) /\ Taken \in Seq(Bytes)
         /\ Len(Taken) = Len(Frames[Len(received)]) + Len(Buffered)
         /\ Taken ++ (stream ++ rest) = Frames[Started]
         /\ reading = "payload" => /\ IntToBytes(want) \in Seq(Bytes)
                                   /\ Len(IntToBytes(want)) = LengthSizeField
                                   /\ Len(Buffered) = LengthSizeField + Len(buf)
<1> USE DEF IInv
<1>1. /\ Len(Messages) \in Nat /\ Len(received) \in Nat /\ sent \in 0 .. Len(Messages)
      /\ Len(received) <= sent /\ buf \in Seq(Bytes)
  BY ConstantsAssumption, LenProperties DEF TypeOK, Framing
<1>2. Started \in 0 .. Len(Messages) /\ Len(received) <= Started /\ Len(received) \in 0 .. Len(Messages)
  BY <1>1 DEF Started, Framing
<1>3. Frames[Len(received)] \in Seq(Bytes) /\ Frames[Started] \in Seq(Bytes)
  BY <1>2, FramesGrow
<1>4. ASSUME reading = "payload"
      PROVE  /\ IntToBytes(want) \in Seq(Bytes)
             /\ Len(IntToBytes(want)) = LengthSizeField
             /\ Buffered \in Seq(Bytes)
             /\ Len(Buffered) = LengthSizeField + Len(buf)
  <2>1. IntToBytes(want) \in Seq(Bytes) /\ Len(IntToBytes(want)) = LengthSizeField
    BY LengthFieldRoundTrip DEF TypeOK
  <2>2. Buffered = IntToBytes(want) ++ buf
    BY <1>4 DEF Buffered, ++
  <2>. QED
    BY <1>1, <2>1, <2>2, CatType
<1>5. Buffered \in Seq(Bytes)
  <2>1. CASE reading = "length"
    BY <1>1, <2>1 DEF Buffered
  <2>2. CASE reading = "payload"
    BY <1>4, <2>2
  <2>. QED
    BY <2>1, <2>2 DEF TypeOK
<1>6. Taken \in Seq(Bytes) /\ Len(Taken) = Len(Frames[Len(received)]) + Len(Buffered)
  BY <1>3, <1>5, CatType DEF Taken
<1>7. Taken ++ (stream ++ rest) = Frames[Started]
  <2>1. (Taken ++ stream) ++ rest = Frames[Started]
    BY DEF InStep, Taken, Started, ++
  <2>2. stream \in Seq(Bytes) /\ rest \in Seq(Bytes)
    BY DEF TypeOK
  <2>. QED
    BY <1>6, <2>1, <2>2, CatAssociative
<1>. QED
  BY <1>2, <1>3, <1>4, <1>5, <1>6, <1>7

-----------------------------------------------------------------------------
\* The inductive invariant holds at the start.
LEMMA InitInv == Init => IInv
<1> SUFFICES ASSUME Init
             PROVE  IInv
  OBVIOUS
<1>1. /\ Len(Messages) \in Nat /\ << >> \in Seq(Bytes) /\ Len(<< >>) = 0
      /\ << >> \in Seq(Seq(Bytes)) /\ SubSeq(Messages, 1, 0) = << >>
  BY ConstantsAssumption, LenProperties, EmptySeq, SubSeqEmpty
<1>2. LengthSizeField \in 0 .. UInt32 - 1
  BY LengthFieldFits
<1>3. TypeOK
  BY <1>1, <1>2, ConstantsAssumption DEF Init, TypeOK, LengthSizeField
<1>4. InStep
  <2>1. Frames[0] = << >> /\ << >> ++ << >> = << >>
    BY FramesStep, <1>1, CatEmpty
  <2>2. Len(received) = 0 /\ Buffered = << >> /\ stream = << >> /\ rest = << >> /\ sent = 0
    BY <1>1 DEF Init, Buffered
  <2>. QED
    BY <2>1, <2>2 DEF InStep
<1>5. Framing
  BY <1>1 DEF Init, Framing
<1>. QED
  BY <1>3, <1>4, <1>5 DEF IInv

\* Steps that change nothing but who is still running.
LEMMA StatusStep ==
  ASSUME IInv, status' \in [{"writer", "reader"} -> {"up", "done", "dead"}],
         ~ Up("writer") => ~ Up("writer")', UNCHANGED <<stream, writerVars, readerVars>>
  PROVE  IInv'
<1> USE DEF writerVars, readerVars
<1>1. TypeOK'
  BY DEF IInv, TypeOK
<1>2. InStep'
  BY DEF IInv, InStep, Buffered
<1>3. Framing'
  BY DEF IInv, Framing, Started
<1>. QED
  BY <1>1, <1>2, <1>3 DEF IInv

\* A new frame is the next of Frames.
LEMMA StartSendStep ==
  ASSUME IInv, StartSend
  PROVE  IInv'
<1> DEFINE f == Frame(Messages[sent + 1])
<1>1. /\ sent \in Nat /\ sent + 1 \in 1 .. Len(Messages) /\ sent \in 0 .. Len(Messages)
      /\ sent < Len(Messages) /\ rest = << >> /\ (sent + 1) - 1 = sent
  BY ConstantsAssumption, LenProperties DEF IInv, TypeOK, StartSend
<1>2. f \in Seq(Bytes) /\ Len(f) \in Nat /\ Len(f) > 0
  BY <1>1, FrameFacts DEF LengthSizeField
<1>3. Frames[sent + 1] = Frames[sent] ++ f
  BY <1>1, FramesStep
<1>4. /\ rest' = f
      /\ UNCHANGED <<status, stream, sent, reading, buf, want, retries, received>>
  BY DEF StartSend, readerVars
<1> HIDE DEF f
<1>5. f # << >>
  BY <1>2, EmptySeq
<1>6. Started = sent /\ Started' = sent + 1
  BY <1>1, <1>4, <1>5 DEF Started
<1>7. TypeOK'
  BY <1>2, <1>4 DEF IInv, TypeOK
<1>8. InStep'
  <2>1. Taken \in Seq(Bytes) /\ stream \in Seq(Bytes) /\ stream ++ << >> = stream
    BY TakenFacts, CatEmpty DEF IInv, TypeOK
  <2>2. Taken ++ stream = Frames[sent]
    BY <1>1, <1>6, <2>1, TakenFacts
  <2>3. (Taken ++ stream) ++ f = Frames[sent + 1]
    BY <1>3, <2>2
  <2>4. Taken' = Taken
    BY <1>4 DEF Taken, Buffered
  <2>5. (Taken' ++ stream') ++ rest' = Frames[Started']
    BY <1>4, <1>6, <2>3, <2>4
  <2>. QED
    BY <2>5 DEF InStep, Taken, Started, ++
<1>9. Framing'
  <2>1. rest' # << >> => sent' < Len(Messages) /\ Len(rest') <= Len(Frame(Messages[sent' + 1]))
    BY <1>1, <1>2, <1>4 DEF f
  <2>2. Len(received) < Started => Len(received) < Started'
    BY <1>1, <1>6, TakenFacts
  <2>. QED
    BY <1>4, <2>1, <2>2 DEF IInv, Framing, Up
<1>. QED
  BY <1>7, <1>8, <1>9 DEF IInv

\* Bytes move from the message being sent to the stream.
LEMMA SendBytesStep ==
  ASSUME IInv, NEW n \in 1 .. BufferSize, SendBytes(n)
  PROVE  IInv'
<1> DEFINE f == First(rest, n)
           q == Rest(rest, n)
<1>1. /\ rest \in Seq(Bytes) /\ stream \in Seq(Bytes) /\ Len(rest) \in Nat /\ n \in 0 .. Len(rest)
      /\ sent \in Nat /\ Len(Messages) \in Nat /\ rest # << >> /\ sent < Len(Messages)
  BY ConstantsAssumption, LenProperties DEF IInv, TypeOK, Framing, SendBytes
<1>2. /\ f \in Seq(Bytes) /\ Len(f) = n
      /\ q \in Seq(Bytes) /\ Len(q) = Len(rest) - n
      /\ f ++ q = rest
  BY <1>1, FirstAndRest
<1>3. /\ stream' = stream ++ f /\ rest' = q
      /\ sent' = IF q = << >> THEN sent + 1 ELSE sent
      /\ UNCHANGED <<status, reading, buf, want, retries, received>>
      /\ Len(stream) + n <= BufferSize /\ Up("writer")
  BY DEF SendBytes, readerVars, ++
<1> HIDE DEF f, q
<1>4. Started = sent + 1 /\ Started' = sent + 1
  BY <1>1, <1>3 DEF Started
<1>5. TypeOK'
  <2>1. stream' \in Seq(Bytes) /\ Len(stream') <= BufferSize
    BY <1>1, <1>2, <1>3, CatType
  <2>2. sent' \in 0 .. Len(Messages)
    BY <1>1, <1>3
  <2>. QED
    BY <1>2, <1>3, <2>1, <2>2 DEF IInv, TypeOK
<1>6. InStep'
  <2>1. stream' ++ rest' = stream ++ rest
    <3>1. (stream ++ f) ++ q = stream ++ (f ++ q)
      BY <1>1, <1>2, CatAssociative
    <3>. QED
      BY <1>2, <1>3, <3>1
  <2>2. Taken' = Taken
    BY <1>3 DEF Taken, Buffered
  <2>3. Taken' ++ (stream' ++ rest') = Frames[Started']
    BY <1>4, <2>1, <2>2, TakenFacts
  <2>4. Taken' \in Seq(Bytes) /\ stream' \in Seq(Bytes) /\ rest' \in Seq(Bytes)
    BY <1>5, <2>2, TakenFacts DEF TypeOK
  <2>5. (Taken' ++ stream') ++ rest' = Frames[Started']
    BY <2>3, <2>4, CatAssociative
  <2>. QED
    BY <2>5 DEF InStep, Taken, Started, ++
<1>7. Framing'
  <2>1. rest' # << >> => sent' < Len(Messages) /\ Len(rest') <= Len(Frame(Messages[sent' + 1]))
    <3> SUFFICES ASSUME rest' # << >>
                 PROVE  sent' < Len(Messages) /\ Len(rest') <= Len(Frame(Messages[sent' + 1]))
      OBVIOUS
    <3>1. sent' = sent /\ Len(rest') <= Len(rest)
      BY <1>1, <1>2, <1>3
    <3>2. Len(rest) <= Len(Frame(Messages[sent + 1]))
      BY <1>1 DEF IInv, Framing
    <3>3. sent + 1 \in 1 .. Len(Messages)
      BY <1>1
    <3>4. Len(Frame(Messages[sent + 1])) \in Nat
      BY <3>3, FrameFacts, LenProperties
    <3>. QED
      BY <1>1, <1>2, <1>3, <3>1, <3>2, <3>4
  <2>2. Len(received) <= sent'
    BY <1>1, <1>3, TakenFacts DEF IInv, Framing
  <2>3. ~ (retries > 0)
    BY <1>3 DEF IInv, Framing
  <2>. QED
    BY <1>3, <1>4, <2>1, <2>2, <2>3 DEF IInv, Framing
<1>. QED
  BY <1>5, <1>6, <1>7 DEF IInv

\* Bytes move from the stream to the reader, which may have all it asked for.
LEMMA RecvBytesStep ==
  ASSUME IInv, NEW n \in 1 .. BufferSize, RecvBytes(n)
  PROVE  IInv'
<1> DEFINE f == First(stream, n)
           q == Rest(stream, n)
           all == buf ++ f
           r == Len(received)
           later == q ++ rest
<1>1. /\ rest \in Seq(Bytes) /\ stream \in Seq(Bytes) /\ buf \in Seq(Bytes)
      /\ Len(buf) \in Nat /\ n \in 0 .. Len(stream) /\ n > 0 /\ want \in Nat
      /\ Len(buf) + n <= want /\ Len(Messages) \in Nat
      /\ Len(stream) <= BufferSize /\ BufferSize \in Nat /\ Len(stream) \in Nat
  BY ConstantsAssumption, LenProperties DEF IInv, TypeOK, RecvBytes
<1>2. /\ f \in Seq(Bytes) /\ Len(f) = n
      /\ q \in Seq(Bytes) /\ Len(q) = Len(stream) - n
      /\ f ++ q = stream
  BY <1>1, FirstAndRest
<1>3. /\ stream' = q /\ retries' = 0
      /\ UNCHANGED <<status, sent, rest>>
      /\ IF Len(all) < want
         THEN buf' = all /\ UNCHANGED <<reading, want, received>>
         ELSE buf' = << >> /\ Completed(all)
  BY DEF RecvBytes, writerVars, ++
<1> HIDE DEF f, q
<1>4. all \in Seq(Bytes) /\ Len(all) = Len(buf) + n
  BY <1>1, <1>2, CatType
<1>5. later \in Seq(Bytes)
  BY <1>1, <1>2, CatType
<1> HIDE DEF all, later
<1>6. /\ r \in 0 .. Len(Messages) /\ r <= Started /\ Started \in 0 .. Len(Messages)
      /\ Frames[r] \in Seq(Bytes) /\ Buffered \in Seq(Bytes) /\ Taken \in Seq(Bytes)
      /\ r <= sent /\ sent \in 0 .. Len(Messages)
  BY TakenFacts DEF IInv, Framing, TypeOK
<1>7. Started' = Started
  BY <1>3 DEF Started
<1>8. (Taken ++ f) ++ later = Frames[Started]
  <2>1. (f ++ q) ++ rest = f ++ later
    BY <1>1, <1>2, CatAssociative DEF later
  <2>2. stream ++ rest = f ++ later
    BY <1>2, <2>1
  <2>3. Taken ++ (f ++ later) = Frames[Started]
    BY <2>2, TakenFacts
  <2>. QED
    BY <1>2, <1>5, <1>6, <2>3, CatAssociative
<1>9. ASSUME Taken' = Taken ++ f
      PROVE  InStep'
  <2>1. Taken ++ f \in Seq(Bytes)
    BY <1>2, <1>6, CatType
  <2>2. ((Taken ++ f) ++ q) ++ rest = (Taken ++ f) ++ later
    BY <1>1, <1>2, <2>1, CatAssociative DEF later
  <2>3. (Taken' ++ stream') ++ rest' = Frames[Started']
    BY <1>3, <1>7, <1>8, <1>9, <2>2
  <2>. QED
    BY <2>3 DEF InStep, Taken, Started, ++
<1>10. Taken ++ f = Frames[r] ++ (Buffered ++ f)
  BY <1>2, <1>6, CatAssociative DEF Taken
<1>11. Len(all) \in Nat /\ Len(all) <= want /\ want \in Nat
  BY <1>1, <1>4
<1>12. CASE Len(all) < want
  <2>1. buf' = all /\ UNCHANGED <<reading, want, received>>
    BY <1>3, <1>12
  <2>2. TypeOK'
    <3>1. stream' \in Seq(Bytes) /\ Len(stream') <= BufferSize
      BY <1>1, <1>2, <1>3
    <3>. QED
      BY <1>3, <1>4, <1>12, <2>1, <3>1, ConstantsAssumption DEF IInv, TypeOK
  <2>3. Buffered' = Buffered ++ f
    <3>1. CASE reading = "length"
      BY <2>1, <3>1 DEF Buffered, all
    <3>2. CASE reading # "length"
      <4>1. IntToBytes(want) \in Seq(Bytes)
        BY <3>2, TakenFacts DEF IInv, TypeOK
      <4>2. Buffered = IntToBytes(want) ++ buf /\ Buffered' = IntToBytes(want) ++ (buf ++ f)
        BY <2>1, <3>2 DEF Buffered, all, ++
      <4>. QED
        BY <1>1, <1>2, <4>1, <4>2, CatAssociative
    <3>. QED
      BY <3>1, <3>2
  <2>4. Taken' = Taken ++ f
    BY <1>10, <2>1, <2>3 DEF Taken, ++
  <2>5. Framing'
    BY <1>3, <1>7, <2>1 DEF IInv, Framing
  <2>. QED
    BY <1>9, <2>2, <2>4, <2>5 DEF IInv
<1>13. CASE ~ (Len(all) < want) /\ reading = "length"
  <2>1. /\ buf' = << >> /\ reading' = "payload" /\ want' = BytesToInt(all)
        /\ received' = received
    BY <1>3, <1>13 DEF Completed
  <2>2. Len(all) = LengthSizeField
    <3>1. Len(all) = want
      BY <1>11, <1>13
    <3>2. want = LengthSizeField
      BY <1>13 DEF IInv, Framing
    <3>. QED
      BY <3>1, <3>2
  <2>3. Buffered ++ f = all
    BY <1>13 DEF Buffered, all
  <2>4. Frames[r] ++ (all ++ later) = Frames[Started]
    BY <1>4, <1>5, <1>6, <1>8, <1>10, <2>3, CatAssociative
  <2> DEFINE m == Messages[r + 1]
  <2>5. r < Started /\ want' = Len(m) /\ IntToBytes(want') = all
    <3>1. r < Started /\ BytesToInt(all) = Len(m) /\ IntToBytes(Len(m)) = all
      BY <1>4, <1>5, <1>6, <2>2, <2>4, LengthArrives DEF ++
    <3>. QED
      BY <2>1, <3>1
  <2>6. r + 1 \in 1 .. Len(Messages)
    BY <1>1, <1>6, <2>5
  <2>7. want' \in 0 .. UInt32 - 1 /\ 0 < want'
    BY <2>5, <2>6, FrameFacts
  <2>8. TypeOK'
    <3>1. Len(<< >>) = 0 /\ << >> \in Seq(Bytes)
      BY EmptySeq
    <3>2. stream' \in Seq(Bytes) /\ Len(stream') <= BufferSize
      BY <1>1, <1>2, <1>3
    <3>. QED
      BY <1>3, <2>1, <2>7, <3>1, <3>2, ConstantsAssumption DEF IInv, TypeOK
  <2>9. Taken' = Taken ++ f
    <3>1. Buffered' = all ++ << >>
      BY <2>1, <2>5 DEF Buffered, ++
    <3>2. Buffered' = Buffered ++ f
      BY <1>4, <2>3, <3>1, CatEmpty
    <3>. QED
      BY <1>10, <2>1, <3>2 DEF Taken, ++
  <2>10. Framing'
    BY <1>3, <1>7, <2>1, <2>5 DEF IInv, Framing
  <2>. QED
    BY <1>9, <2>8, <2>9, <2>10 DEF IInv
<1>14. CASE ~ (Len(all) < want) /\ reading = "payload"
  <2>1. /\ buf' = << >> /\ reading' = "length" /\ want' = LengthSizeField
        /\ received' = Append(received, all)
    BY <1>3, <1>14 DEF Completed
  <2> DEFINE m == Messages[r + 1]
             l == IntToBytes(Len(m))
  <2>2. r < Started /\ want = Len(m) /\ Len(all) = Len(m)
    <3>1. r < Started /\ want = Len(m)
      BY <1>14 DEF IInv, Framing
    <3>2. Len(all) = want
      BY <1>11, <1>14
    <3>. QED
      BY <3>1, <3>2
  <2>3. r + 1 \in 1 .. Len(Messages)
    BY <1>1, <1>6, <2>2
  <2>4. l \in Seq(Bytes)
    BY <2>3, FrameFacts
  <2>5. Taken ++ f = Frames[r] ++ (l ++ all)
    <3>1. Buffered = l ++ buf
      BY <1>14, <2>2 DEF Buffered, ++
    <3>2. (l ++ buf) ++ f = l ++ all
      BY <1>1, <1>2, <2>4, CatAssociative DEF all
    <3>. QED
      BY <1>10, <3>1, <3>2
  <2>6. Frames[r] ++ (l ++ (all ++ later)) = Frames[Started]
    <3>1. l ++ all \in Seq(Bytes)
      BY <1>4, <2>4, CatType
    <3>2. Frames[r] ++ ((l ++ all) ++ later) = Frames[Started]
      BY <1>5, <1>6, <1>8, <2>5, <3>1, CatAssociative
    <3>. QED
      BY <1>4, <1>5, <2>4, <3>2, CatAssociative
  <2>7. all = m /\ Taken ++ f = Frames[r + 1] /\ Frames[r + 1] \in Seq(Bytes)
    <3>1. all = m /\ Frames[r] ++ (l ++ all) = Frames[r + 1]
      BY <1>4, <1>5, <1>6, <2>2, <2>6, PayloadArrives
    <3>2. Taken ++ f \in Seq(Bytes)
      BY <1>2, <1>6, CatType
    <3>. QED
      BY <2>5, <3>1, <3>2
  <2> HIDE DEF m, l
  <2>8. /\ received' = SubSeq(Messages, 1, r + 1) /\ Len(received') = r + 1
        /\ received' \in Seq(Seq(Bytes))
    <3>1. received \in Seq(Seq(Bytes)) /\ received = SubSeq(Messages, 1, r)
      BY DEF IInv, TypeOK, Framing
    <3>2. received' \in Seq(Seq(Bytes)) /\ Len(received') = r + 1
      BY <1>4, <2>1, <3>1, AppendProperties
    <3>3. received' = received \o <<m>>
      BY <1>4, <2>1, <2>7, <3>1, AppendIsConcat
    <3>4. SubSeq(Messages, 1, r + 1) = SubSeq(Messages, 1, r) \o <<m>>
      <4>1. 1 \in 1 .. Len(Messages) /\ r + 1 \in 1 .. Len(Messages) /\ (r + 1) - 1 = r
        BY <2>3
      <4>. QED
        BY <4>1, ConstantsAssumption, SubSeqRecursiveSecond DEF m
    <3>. QED
      BY <3>1, <3>2, <3>3, <3>4
  <2>9. Taken' = Taken ++ f
    <3>1. Buffered' = << >>
      BY <2>1 DEF Buffered
    <3>2. Taken' = Frames[r + 1] ++ << >>
      BY <2>8, <3>1 DEF Taken, ++
    <3>. QED
      BY <2>7, <3>2, CatEmpty
  <2>10. TypeOK'
    <3>1. Len(<< >>) = 0 /\ << >> \in Seq(Bytes)
      BY EmptySeq
    <3>2. LengthSizeField \in 0 .. UInt32 - 1 /\ 0 < LengthSizeField
      BY LengthFieldFits DEF LengthSizeField
    <3>3. stream' \in Seq(Bytes) /\ Len(stream') <= BufferSize
      BY <1>1, <1>2, <1>3
    <3>. QED
      BY <1>3, <2>1, <2>8, <3>1, <3>2, <3>3, ConstantsAssumption DEF IInv, TypeOK
  <2>11. r + 1 <= sent
    <3> SUFFICES ASSUME rest # << >>, r = sent
                 PROVE  FALSE
      BY <1>6, <2>2 DEF Started
    <3>1. Started = r + 1
      BY DEF Started
    <3>2. Frames[r + 1] ++ later = Frames[r + 1]
      BY <1>8, <2>7, <3>1
    <3>3. later = << >>
      BY <1>5, <2>7, <3>2, CatNothing
    <3>4. rest = << >>
      BY <1>1, <1>2, <3>3, CatNothing DEF later
    <3>. QED
      BY <3>4
  <2>12. Framing'
    <3>1. ~ (retries' > 0)
      BY <1>3
    <3>. QED
      BY <1>3, <1>7, <2>1, <2>8, <2>11, <3>1 DEF IInv, Framing
  <2>. QED
    BY <1>9, <2>9, <2>10, <2>12 DEF IInv
<1>. QED
  BY <1>12, <1>13, <1>14 DEF IInv, TypeOK

\* recv() returns 0 only on a stream that is used up.
LEMMA RecvZeroStep ==
  ASSUME IInv, RecvZero
  PROVE  IInv'
<1> USE DEF RecvZero, writerVars
<1>1. TypeOK'
  BY ConstantsAssumption DEF IInv, TypeOK
<1>2. InStep'
  BY DEF IInv, InStep, Buffered
<1>3. Framing'
  BY DEF IInv, Framing, Started, Up
<1>. QED
  BY <1>1, <1>2, <1>3 DEF IInv

\* Every step keeps the inductive invariant.
LEMMA InvStep == IInv /\ [Next]_vars => IInv'
<1> SUFFICES ASSUME IInv, [Next]_vars
             PROVE  IInv'
  OBVIOUS
<1>1. CASE StartSend
  BY <1>1, StartSendStep
<1>2. ASSUME NEW n \in 1 .. BufferSize, SendBytes(n)
      PROVE  IInv'
  BY <1>2, SendBytesStep
<1>3. CASE SendFails \/ WriterReturns \/ GiveUp \/ \E p \in DOMAIN status : Kill(p)
  <2>1. status \in [{"writer", "reader"} -> {"up", "done", "dead"}]
    BY DEF IInv, TypeOK
  <2>2. \E p \in {"writer", "reader"} : \E how \in {"done", "dead"} :
          status' = [status EXCEPT ![p] = how]
    BY <1>3, <2>1 DEF SendFails, WriterReturns, GiveUp, Kill
  <2>3. status' \in [{"writer", "reader"} -> {"up", "done", "dead"}]
    BY <2>1, <2>2
  <2>4. ~ Up("writer") => ~ Up("writer")'
    BY <2>1, <2>2 DEF Up
  <2>5. UNCHANGED <<stream, writerVars, readerVars>>
    BY <1>3 DEF SendFails, WriterReturns, GiveUp, Kill
  <2>. QED
    BY <2>3, <2>4, <2>5, StatusStep
<1>4. ASSUME NEW n \in 1 .. BufferSize, RecvBytes(n)
      PROVE  IInv'
  BY <1>4, RecvBytesStep
<1>5. CASE RecvZero
  BY <1>5, RecvZeroStep
<1>6. CASE Ended \/ UNCHANGED vars
  <2>1. status' = status /\ UNCHANGED <<stream, writerVars, readerVars>>
    BY <1>6 DEF Ended, vars
  <2>. QED
    BY <2>1, StatusStep DEF Up, IInv, TypeOK
<1>. QED
  BY <1>1, <1>2, <1>3, <1>4, <1>5, <1>6 DEF Next, Writer, Reader

\* The types of the variables, with less in the buffers than they hold.
THEOREM TypesHold == Spec => []TypeOK
<1>1. IInv => TypeOK
  BY DEF IInv
<1>. QED
  BY InitInv, InvStep, <1>1, PTL DEF Spec

\* The frames returned, what was read and not returned, the stream and the rest
\* of the message being sent are at all times the frames of the messages sent,
\* however send() and recv() cut them up (secure_send, secure_recv).
THEOREM StaysInStep == Spec => []InStep
<1>1. IInv => InStep
  BY DEF IInv
<1>. QED
  BY InitInv, InvStep, <1>1, PTL DEF Spec

\* Every payload secure_recv returns is one that was sent, whole, in order and
\* once; nothing is returned for a message that was cut short.
THEOREM MessagesAreWhole == Spec => []WholeMessages
<1>1. IInv => WholeMessages
  BY DEF IInv, Framing, WholeMessages
<1>. QED
  BY InitInv, InvStep, <1>1, PTL DEF Spec

-----------------------------------------------------------------------------
(***************************************************************************)
(* The frames implement the message link.                                  *)
(***************************************************************************)
Link == SubSeq(Messages, Len(received) + 1, sent)

\* What the reader has taken is short of the end of the message it reads, and
\* of the end of a later one by at least five bytes for each between.
LEMMA TakenShort ==
  ASSUME IInv, NEW j \in 1 .. Len(Messages), Len(received) < j
  PROVE  Len(Frames[j]) > Len(Taken) + (LengthSizeField + 1) * (j - Len(received) - 1)
<1> DEFINE r == Len(received)
           f == Frame(Messages[r + 1])
<1>1. r \in Nat /\ r + 1 \in 1 .. Len(Messages) /\ r + 1 \in 0 .. Len(Messages)
      /\ r \in 0 .. Len(Messages) /\ j \in (r + 1) .. Len(Messages) /\ (r + 1) - 1 = r
  BY TakenFacts, ConstantsAssumption, LenProperties
<1>2. f \in Seq(Bytes) /\ Len(f) = LengthSizeField + Len(Messages[r + 1]) /\ Len(Messages[r + 1]) \in Nat \ {0}
  BY <1>1, FrameFacts
<1>3. Len(Buffered) \in Nat /\ Len(Buffered) < Len(f)
  <2>1. buf \in Seq(Bytes) /\ Len(buf) \in Nat /\ Len(buf) < want /\ want \in Nat
    BY LenProperties DEF IInv, TypeOK
  <2>2. CASE reading = "length"
    <3>1. want = LengthSizeField /\ Buffered = buf
      BY <2>2 DEF IInv, Framing, Buffered
    <3>. QED
      BY <1>2, <2>1, <3>1 DEF LengthSizeField
  <2>3. CASE reading = "payload"
    <3>1. want = Len(Messages[r + 1])
      BY <2>3 DEF IInv, Framing
    <3>2. Len(Buffered) = LengthSizeField + Len(buf)
      BY <2>3, TakenFacts
    <3>. QED
      BY <1>2, <2>1, <3>1, <3>2 DEF LengthSizeField
  <2>. QED
    BY <2>2, <2>3 DEF IInv, TypeOK
<1>4. PICK t \in Seq(Bytes) :
        Frames[j] = Frames[r + 1] ++ t /\ Len(t) >= (LengthSizeField + 1) * (j - (r + 1))
  BY <1>1, FramesGrow
<1>5. Frames[r + 1] = Frames[r] ++ f
  BY <1>1, FramesStep
<1>6. Frames[r] \in Seq(Bytes) /\ Frames[r + 1] \in Seq(Bytes)
  BY <1>1, FramesGrow
<1> HIDE DEF f
<1>7. Len(Frames[j]) = Len(Frames[r]) + Len(f) + Len(t)
  <2>1. Len(Frames[j]) = Len(Frames[r + 1]) + Len(t)
    BY <1>4, <1>6, CatType
  <2>2. Len(Frames[r + 1]) = Len(Frames[r]) + Len(f)
    BY <1>2, <1>5, <1>6, CatType
  <2>. QED
    BY <2>1, <2>2
<1>8. Len(Taken) = Len(Frames[r]) + Len(Buffered)
  BY TakenFacts
<1>9. Len(Frames[r]) \in Nat /\ Len(t) \in Nat /\ Len(f) \in Nat
  BY <1>2, <1>6, LenProperties
<1> HIDE DEF r
<1> DEFINE d == (LengthSizeField + 1) * (j - r - 1)
<1>10. d \in Int /\ Len(t) >= d
  BY <1>1, <1>4 DEF LengthSizeField
<1> HIDE DEF d
<1>11. Len(Frames[j]) > Len(Taken) + d
  BY <1>3, <1>7, <1>8, <1>9, <1>10
<1>. QED
  BY <1>11 DEF r, d

\* The bytes on the way are short of nothing.
LEMMA BytesOnTheWay ==
  ASSUME IInv
  PROVE  /\ Len(Frames[Started]) = Len(Taken) + Len(stream) + Len(rest)
         /\ Len(Frames[sent]) <= Len(Taken) + Len(stream)
         /\ Len(Taken) \in Nat /\ Len(stream) \in Nat /\ Len(rest) \in Nat
<1>1. stream \in Seq(Bytes) /\ rest \in Seq(Bytes) /\ sent \in 0 .. Len(Messages)
  BY DEF IInv, TypeOK
<1>2. stream ++ rest \in Seq(Bytes) /\ Len(stream ++ rest) = Len(stream) + Len(rest)
  BY <1>1, CatType
<1>3. Taken \in Seq(Bytes) /\ Taken ++ (stream ++ rest) = Frames[Started]
  BY TakenFacts
<1>4. Len(Frames[Started]) = Len(Taken) + (Len(stream) + Len(rest))
  BY <1>2, <1>3, CatType
<1>5. Len(Taken) \in Nat /\ Len(stream) \in Nat /\ Len(rest) \in Nat
  BY <1>1, <1>3, LenProperties
<1>6. Len(Frames[sent]) <= Len(Taken) + Len(stream)
  <2>1. CASE rest = << >>
    <3>1. Started = sent /\ Len(rest) = 0
      BY <2>1, EmptySeq DEF Started
    <3>. QED
      BY <1>4, <1>5, <3>1
  <2>2. CASE rest # << >>
    <3> DEFINE f == Frame(Messages[sent + 1])
    <3>1. sent + 1 \in 1 .. Len(Messages) /\ (sent + 1) - 1 = sent /\ Len(rest) <= Len(f)
          /\ Started = sent + 1
      BY <1>1, <2>2, ConstantsAssumption, LenProperties DEF IInv, Framing, Started
    <3>2. f \in Seq(Bytes) /\ Frames[sent] \in Seq(Bytes) /\ Frames[sent + 1] = Frames[sent] ++ f
      BY <1>1, <3>1, FrameFacts, FramesGrow, FramesStep
    <3> HIDE DEF f
    <3>3. Len(Frames[Started]) = Len(Frames[sent]) + Len(f) /\ Len(f) \in Nat /\ Len(Frames[sent]) \in Nat
      BY <3>1, <3>2, CatType, LenProperties
    <3>. QED
      BY <1>4, <1>5, <3>1, <3>3
  <2>. QED
    BY <2>1, <2>2
<1>. QED
  BY <1>4, <1>5, <1>6

\* The link starts empty.
LEMMA LinkInit == Init => L!Init
<1> SUFFICES ASSUME Init
             PROVE  L!Init
  OBVIOUS
<1>1. received = << >> /\ Len(received) = 0 /\ sent = 0
  BY EmptySeq DEF Init
<1>2. SubSeq(Messages, Len(received) + 1, sent) = << >>
  BY <1>1, SubSeqEmpty
<1>. QED
  BY <1>2 DEF Init, L!Init

\* A step that returns no message and finishes sending none leaves the link.
LEMMA LinkUnchanged ==
  ASSUME UNCHANGED <<sent, received>>
  PROVE  UNCHANGED [l \in {"link"} |-> Link]
BY DEF Link

\* A message is on the link once send() has taken its last byte: there is room.
LEMMA LinkSend ==
  ASSUME IInv, NEW n \in 1 .. BufferSize, SendBytes(n), rest' = << >>
  PROVE  L!WriterSends
<1> DEFINE r == Len(received)
<1>1. /\ sent \in Nat /\ sent + 1 \in 1 .. Len(Messages) /\ sent < Len(Messages)
      /\ r \in Nat /\ r <= sent /\ Started = sent + 1 /\ Len(Messages) \in Nat
  BY ConstantsAssumption, LenProperties DEF IInv, TypeOK, Framing, SendBytes, Started
<1>2. /\ Up("writer") /\ sent' = sent + 1 /\ UNCHANGED <<status, received>>
  BY DEF SendBytes, readerVars
<1>3. sent - r < BufferSize \div (LengthSizeField + 1) + 1
  <2>1. rest \in Seq(Bytes) /\ n \in Nat /\ n <= Len(rest) /\ Len(stream) + n <= BufferSize
        /\ BufferSize \in Nat /\ rest' = Rest(rest, n)
    BY ConstantsAssumption DEF SendBytes, IInv, TypeOK
  <2>2. Len(rest) - n = 0
    BY <2>1, FirstAndRest, LenProperties, EmptySeq
  <2>3. Len(stream) + Len(rest) <= BufferSize
    BY <2>1, <2>2, BytesOnTheWay
  <2>4. Len(stream) + Len(rest) > (LengthSizeField + 1) * (sent - r)
    <3>1. Len(Frames[sent + 1]) > Len(Taken) + (LengthSizeField + 1) * ((sent + 1) - r - 1)
      BY <1>1, TakenShort
    <3>2. (sent + 1) - r - 1 = sent - r
      BY <1>1
    <3>. QED
      BY <1>1, <3>1, <3>2, BytesOnTheWay DEF LengthSizeField
  <2>5. 5 * (sent - r) <= BufferSize
    BY <1>1, <2>1, <2>3, <2>4, BytesOnTheWay DEF LengthSizeField
  <2>. QED
    BY <1>1, <2>1, <2>5 DEF LengthSizeField
<1>4. Link \in Seq(Seq(Bytes)) /\ Len(Link) = sent - r
  <2>1. \A i \in r + 1 .. sent : Messages[i] \in Seq(Bytes)
    BY <1>1, FrameFacts
  <2>. QED
    BY <1>1, <2>1, SubSeqProperties DEF Link
<1>5. Link' = Append(Link, Messages[sent + 1])
  <2>1. Messages[sent + 1] \in Seq(Bytes)
    BY <1>1, FrameFacts
  <2>2. r + 1 \in 1 .. Len(Messages) /\ sent + 1 \in r + 1 .. Len(Messages) /\ (sent + 1) - 1 = sent
    BY <1>1
  <2>3. SubSeq(Messages, r + 1, sent + 1) = SubSeq(Messages, r + 1, sent) \o <<Messages[sent + 1]>>
    BY <2>2, ConstantsAssumption, SubSeqRecursiveSecond
  <2>4. Append(Link, Messages[sent + 1]) = Link \o <<Messages[sent + 1]>>
    BY <1>4, <2>1, AppendIsConcat
  <2>. QED
    BY <1>2, <2>3, <2>4 DEF Link
<1>6. [l \in {"link"} |-> Link]' = [[l \in {"link"} |-> Link] EXCEPT !["link"] = Append(@, Messages[sent + 1])]
  BY <1>5
<1>. QED
  BY <1>1, <1>2, <1>3, <1>4, <1>6 DEF L!WriterSends, L!Send, L!Up, Up, Link

\* It leaves the link when recv() has returned its last byte.
LEMMA LinkReceive ==
  ASSUME IInv, IInv', NEW n \in 1 .. BufferSize, RecvBytes(n), received' # received
  PROVE  L!ReaderReceives
<1> DEFINE r == Len(received)
           m == Messages[r + 1]
<1>1. UNCHANGED <<status, sent>> /\ Up("reader") /\ \E all : received' = Append(received, all)
  BY DEF RecvBytes, Completed, writerVars
<1>2. received \in Seq(Seq(Bytes)) /\ received' \in Seq(Seq(Bytes)) /\ r \in Nat
  BY LenProperties DEF IInv, TypeOK
<1>3. Len(received') = r + 1 /\ \A all : received' = Append(received, all) => received'[r + 1] = all
  BY <1>1, <1>2
<1>4. sent \in 0 .. Len(Messages) /\ Len(Messages) \in Nat /\ r + 1 <= sent /\ received' = SubSeq(Messages, 1, r + 1)
  BY <1>1, <1>3, ConstantsAssumption, LenProperties DEF IInv, TypeOK, Framing
<1>5. received'[r + 1] = m
  <2>1. \A i \in 1 .. r + 1 : Messages[i] \in Seq(Bytes)
    BY <1>2, <1>4, FrameFacts
  <2>2. SubSeq(Messages, 1, r + 1)[r + 1] = Messages[1 + (r + 1) - 1]
    BY <1>2, <2>1, SubSeqProperties
  <2>. QED
    BY <1>2, <1>4, <2>2
<1>6. received' = Append(received, m)
  BY <1>1, <1>3, <1>5
<1>7. Head(Link) = m /\ Tail(Link) = Link'
  <2>1. r + 1 \in 1 .. Len(Messages) /\ sent \in r + 1 .. Len(Messages)
    BY <1>2, <1>4
  <2>2. Head(SubSeq(Messages, r + 1, sent)) = m /\ Tail(SubSeq(Messages, r + 1, sent)) = SubSeq(Messages, (r + 1) + 1, sent)
    BY <2>1, ConstantsAssumption, HeadTailOfSubSeq
  <2>. QED
    BY <1>1, <1>3, <2>2 DEF Link
<1>8. Link # << >>
  <2>1. \A i \in r + 1 .. sent : Messages[i] \in Seq(Bytes)
    BY <1>2, <1>4, FrameFacts
  <2>2. Len(Link) = sent - (r + 1) + 1
    BY <1>2, <1>4, <2>1, SubSeqProperties DEF Link
  <2>. QED
    BY <1>2, <1>4, <2>2, EmptySeq
<1> HIDE DEF m
<1>9. [l \in {"link"} |-> Link]' = [[l \in {"link"} |-> Link] EXCEPT !["link"] = Tail(@)]
  BY <1>7
<1>. QED
  BY <1>1, <1>6, <1>7, <1>8, <1>9 DEF L!ReaderReceives, L!Receive, L!Arrived, L!Up, Up, Link

\* The reader gives up only when the link is empty and its writer has ended.
LEMMA LinkEof ==
  ASSUME IInv, GiveUp
  PROVE  L!ReaderEof
<1>1. stream = << >> /\ ~ Up("writer")
  BY ConstantsAssumption DEF IInv, Framing, GiveUp
<1>2. Len(received) \in Nat /\ sent \in Nat /\ sent \in 0 .. Len(Messages) /\ Len(received) <= sent
  BY LenProperties DEF IInv, TypeOK, Framing
<1>3. Len(received) = sent
  <2> SUFFICES ASSUME Len(received) < sent
               PROVE  FALSE
    BY <1>2
  <2>1. Len(Frames[sent]) > Len(Taken) + (LengthSizeField + 1) * (sent - Len(received) - 1)
    BY <1>2, TakenShort
  <2>2. (LengthSizeField + 1) * (sent - Len(received) - 1) \in Nat
    BY <1>2 DEF LengthSizeField
  <2>3. Len(Frames[sent]) <= Len(Taken) /\ Len(Taken) \in Nat
    BY <1>1, BytesOnTheWay, EmptySeq
  <2>4. Len(Frames[sent]) \in Nat
    BY <1>2, FramesGrow, LenProperties
  <2>. QED
    BY <2>1, <2>2, <2>3, <2>4
<1>4. Link = << >>
  BY <1>2, <1>3, SubSeqEmpty DEF Link
<1>5. UNCHANGED [l \in {"link"} |-> Link]
  BY DEF GiveUp, writerVars, readerVars, Link
<1>. QED
  BY <1>1, <1>4, <1>5
  DEF GiveUp, L!ReaderEof, L!EndOfStream, L!End, L!Up, Up, Link, writerVars, readerVars

\* Every step is one of the message link, or invisible to it.
LEMMA LinkStep == IInv /\ IInv' /\ [Next]_vars => [L!Next]_(L!vars)
<1> SUFFICES ASSUME IInv, IInv', [Next]_vars
             PROVE  L!Next \/ UNCHANGED L!vars
  OBVIOUS
<1>1. ASSUME UNCHANGED <<status, sent, received>>
      PROVE  UNCHANGED L!vars
  BY <1>1, LinkUnchanged DEF L!vars, Link
<1>2. CASE StartSend
  BY <1>1, <1>2 DEF StartSend, readerVars
<1>3. ASSUME NEW n \in 1 .. BufferSize, SendBytes(n)
      PROVE  L!Next \/ UNCHANGED L!vars
  <2>1. CASE rest' = << >>
    BY <1>3, <2>1, LinkSend DEF L!Next
  <2>2. CASE rest' # << >>
    BY <1>1, <1>3, <2>2 DEF SendBytes, readerVars
  <2>. QED
    BY <2>1, <2>2
<1>4. ASSUME UNCHANGED <<writerVars, readerVars>>
      PROVE  UNCHANGED <<[l \in {"link"} |-> Link], sent, received>>
  BY <1>4 DEF writerVars, readerVars, Link
<1>5. CASE SendFails
  <2>1. sent < Len(Messages)
    BY <1>5 DEF SendFails, IInv, Framing
  <2>. QED
    BY <1>4, <1>5, <2>1
    DEF SendFails, L!Next, L!WriterFails, L!SendFails, L!End, L!Up, Up, Link
<1>6. CASE WriterReturns
  BY <1>4, <1>6 DEF WriterReturns, L!Next, L!WriterReturns, L!End, L!Up, Up, Link
<1>7. ASSUME NEW n \in 1 .. BufferSize, RecvBytes(n)
      PROVE  L!Next \/ UNCHANGED L!vars
  <2>1. CASE received' # received
    BY <1>7, <2>1, LinkReceive DEF L!Next
  <2>2. CASE received' = received
    BY <1>1, <1>7, <2>2 DEF RecvBytes, writerVars
  <2>. QED
    BY <2>1, <2>2
<1>8. CASE RecvZero
  BY <1>1, <1>8 DEF RecvZero, writerVars
<1>9. CASE GiveUp
  BY <1>9, LinkEof DEF L!Next
<1>10. ASSUME NEW p \in DOMAIN status, Kill(p)
       PROVE  L!Next
  <2>1. p \in {"writer", "reader"}
    BY DEF IInv, TypeOK
  <2>. QED
    BY <1>4, <1>10, <2>1 DEF Kill, L!Next, L!Kill, L!End, L!Up, Up, Link
<1>11. CASE Ended \/ UNCHANGED vars
  BY <1>1, <1>11 DEF Ended, vars, writerVars, readerVars
<1>. QED
  BY <1>2, <1>3, <1>5, <1>6, <1>7, <1>8, <1>9, <1>10, <1>11 DEF Next, Writer, Reader

\* secure_send and secure_recv over the byte stream implement the link of whole
\* messages that the protocol models use, with room for as many messages as
\* frames of one byte fit into the buffers, and one more.
THEOREM FramesImplementMessageLink == Spec => ImplementsMessageLink
BY InitInv, InvStep, LinkInit, LinkStep, PTL DEF Spec, ImplementsMessageLink, L!Spec
=============================================================================
