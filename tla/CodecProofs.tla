---------------------------- MODULE CodecProofs ----------------------------
(***************************************************************************)
(* TLAPS proofs about Codec, for any byte, id and length: a number that    *)
(* fits its bytes is read back from them, and what is taken from a body is *)
(* what was put there last.                                                *)
(***************************************************************************)
EXTENDS Codec, RecursionProofs, SequenceTheorems

-----------------------------------------------------------------------------
(* Powers *)

LEMMA PowerIs ==
  ASSUME NEW b \in Nat, NEW n \in Nat
  PROVE  \E p \in [0 .. n -> Nat] :
           p[0] = 1 /\ (\A k \in 1 .. n : p[k] = b * p[k - 1]) /\ Power(b, n) = p[n]
<1> DEFINE f[k \in 0 .. n] == IF k = 0 THEN 1 ELSE b * f[k - 1]
           G == [x \in (1 .. n) \X Nat |-> b * x[2]]
<1>1. \A k \in 1 .. n, x \in Nat : G[<<k, x>>] = b * x /\ b * x \in Nat
  OBVIOUS
<1> HIDE DEF G
<1>2. StaysIn(G, n, Nat)
  BY <1>1 DEF StaysIn
<1>3. PICK h : Computes(h, 1, G, n, Nat)
  BY <1>2, RecursionExists
<1>4. \A k \in 1 .. n : h[k] = b * h[k - 1] /\ h[k - 1] \in Nat
  <2>1. \A k \in 1 .. n : k - 1 \in 0 .. n
    OBVIOUS
  <2>2. \A k \in 1 .. n : h[k - 1] \in Nat /\ h[k] = G[<<k, h[k - 1]>>]
    BY <1>3, <2>1 DEF Computes
  <2>3. QED
    BY <1>1, <2>2
<1>5. h = [k \in 0 .. n |-> IF k = 0 THEN 1 ELSE b * h[k - 1]]
  <2>1. \A k \in 0 .. n : h[k] = IF k = 0 THEN 1 ELSE b * h[k - 1]
    BY <1>3, <1>4 DEF Computes
  <2>2. QED
    BY <1>3, <2>1 DEF Computes
<1>6. f = [k \in 0 .. n |-> IF k = 0 THEN 1 ELSE b * f[k - 1]]
  BY <1>5
<1>7. Power(b, n) = f[n]
  BY DEF Power
<1> HIDE DEF f
<1>8. 0 .. n \subseteq {k \in 0 .. n : f[k] = h[k]}
  <2> DEFINE S == {k \in 0 .. n : f[k] = h[k]}
  <2>1. 0 \in S
    BY <1>3, <1>6 DEF Computes
  <2>2. ASSUME NEW k \in 1 .. n, k - 1 \in S
        PROVE  k \in S
    BY <1>4, <1>6, <2>2
  <2> HIDE DEF S
  <2>3. 0 .. n \subseteq S
    BY <2>1, <2>2, BoundedInduction
  <2>4. QED
    BY <2>3 DEF S
<1>9. f[n] = h[n]
  BY <1>8
<1>10. QED
  BY <1>3, <1>4, <1>7, <1>9 DEF Computes

LEMMA PowerFacts ==
  ASSUME NEW b \in Nat, NEW n \in Nat
  PROVE  Power(b, 0) = 1 /\ Power(b, n) \in Nat /\ Power(b, n + 1) = b * Power(b, n)
<1>1. PICK p \in [0 .. n -> Nat] :
        p[0] = 1 /\ (\A k \in 1 .. n : p[k] = b * p[k - 1]) /\ Power(b, n) = p[n]
  BY PowerIs
<1>2. PICK q \in [0 .. n + 1 -> Nat] :
        /\ q[0] = 1 /\ (\A k \in 1 .. n + 1 : q[k] = b * q[k - 1])
        /\ Power(b, n + 1) = q[n + 1]
  <2>1. n + 1 \in Nat
    OBVIOUS
  <2>2. QED
    BY <2>1, PowerIs
<1>3. 0 .. n \subseteq {k \in 0 .. n : p[k] = q[k]}
  <2> DEFINE S == {k \in 0 .. n : p[k] = q[k]}
  <2>1. 0 \in S
    BY <1>1, <1>2
  <2>2. ASSUME NEW k \in 1 .. n, k - 1 \in S
        PROVE  k \in S
    <3>1. k \in 1 .. n + 1 /\ k \in 0 .. n
      OBVIOUS
    <3>2. p[k] = b * p[k - 1] /\ q[k] = b * q[k - 1]
      BY <1>1, <1>2, <3>1
    <3>3. QED
      BY <2>2, <3>1, <3>2
  <2> HIDE DEF S
  <2>3. 0 .. n \subseteq S
    BY <2>1, <2>2, BoundedInduction
  <2>4. QED
    BY <2>3 DEF S
<1>4. Power(b, 0) = 1
  <2>1. PICK r \in [0 .. 0 -> Nat] : r[0] = 1 /\ Power(b, 0) = r[0]
    BY PowerIs
  <2>2. QED
    BY <2>1
<1>5. n \in 0 .. n /\ n + 1 \in 1 .. n + 1 /\ (n + 1) - 1 = n
  OBVIOUS
<1>6. p[n] = q[n] /\ p[n] \in Nat /\ q[n + 1] = b * q[n]
  BY <1>2, <1>3, <1>5
<1>7. QED
  BY <1>1, <1>2, <1>4, <1>6

LEMMA PowerPositive ==
  ASSUME NEW b \in Nat \ {0}, NEW n \in Nat
  PROVE  Power(b, n) \in Nat \ {0}
<1> DEFINE S == {k \in Nat : Power(b, k) \in Nat \ {0}}
<1>1. 0 \in S
  BY PowerFacts
<1>2. ASSUME NEW k \in Nat, k \in S
      PROVE  k + 1 \in S
  <2>1. Power(b, k + 1) = b * Power(b, k) /\ Power(b, k) \in Nat \ {0}
    BY <1>2, PowerFacts
  <2>2. \A x \in Nat \ {0} : b * x \in Nat \ {0}
    OBVIOUS
  <2>3. QED
    BY <2>1, <2>2
<1> HIDE DEF S
<1>3. Nat \subseteq S
  BY <1>1, <1>2, SetInduction
<1>4. QED
  BY <1>3 DEF S

LEMMA PowerExceeds ==
  ASSUME NEW b \in Nat \ {0, 1}, NEW n \in Nat
  PROVE  n < Power(b, n)
<1> DEFINE S == {k \in Nat : k < Power(b, k)}
<1>1. 0 \in S
  BY PowerFacts
<1>2. ASSUME NEW k \in Nat, k \in S
      PROVE  k + 1 \in S
  <2>1. Power(b, k + 1) = b * Power(b, k) /\ Power(b, k) \in Nat /\ k < Power(b, k)
    BY <1>2, PowerFacts
  <2>2. \A x \in Nat : k < x => k + 1 < b * x
    <3>1. ASSUME NEW x \in Nat, k < x
          PROVE  k + 1 < b * x
      <4>1. b * x = x + (b - 1) * x /\ b - 1 \in Nat \ {0}
        OBVIOUS
      <4>2. (b - 1) * x >= x
        <5>1. \A c \in Nat \ {0} : c * x >= x
          BY <3>1
        <5>2. QED
          BY <4>1, <5>1
      <4>3. QED
        BY <3>1, <4>1, <4>2
    <3>2. QED
      BY <3>1
  <2>3. QED
    BY <2>1, <2>2
<1> HIDE DEF S
<1>3. Nat \subseteq S
  BY <1>1, <1>2, SetInduction
<1>4. QED
  BY <1>3 DEF S

-----------------------------------------------------------------------------
(* Numbers and their bytes *)

LEMMA BaseFacts == Base \in Nat \ {0, 1} /\ Base \in Nat \ {0} /\ Base \in Nat
BY CodecAssumption

LEMMA NumberIs ==
  ASSUME NEW bytes \in Seq(Byte)
  PROVE  \E sum \in [0 .. Len(bytes) -> Nat] :
           /\ sum[0] = 0
           /\ \A k \in 1 .. Len(bytes) : sum[k] = sum[k - 1] + bytes[k] * Power(Base, k - 1)
           /\ Number(bytes) = sum[Len(bytes)]
<1> DEFINE n == Len(bytes)
           f[k \in 0 .. n] == IF k = 0 THEN 0 ELSE f[k - 1] + bytes[k] * Power(Base, k - 1)
           G == [x \in (1 .. n) \X Nat |-> x[2] + bytes[x[1]] * Power(Base, x[1] - 1)]
<1>1. n \in Nat
  OBVIOUS
<1>2. \A k \in 1 .. n, x \in Nat :
        /\ G[<<k, x>>] = x + bytes[k] * Power(Base, k - 1)
        /\ G[<<k, x>>] \in Nat
  <2>1. ASSUME NEW k \in 1 .. n, NEW x \in Nat
        PROVE  /\ G[<<k, x>>] = x + bytes[k] * Power(Base, k - 1)
               /\ G[<<k, x>>] \in Nat
    <3>1. k - 1 \in Nat /\ bytes[k] \in Nat
      BY BaseFacts DEF Byte
    <3>2. Power(Base, k - 1) \in Nat
      BY <3>1, BaseFacts, PowerFacts
    <3>3. <<k, x>> \in (1 .. n) \X Nat /\ <<k, x>>[1] = k /\ <<k, x>>[2] = x
      OBVIOUS
    <3>4. G[<<k, x>>] = x + bytes[k] * Power(Base, k - 1)
      BY <3>3
    <3> HIDE DEF G, n
    <3>5. x + bytes[k] * Power(Base, k - 1) \in Nat
      BY <3>1, <3>2
    <3>6. QED
      BY <3>4, <3>5
  <2>2. QED
    BY <2>1
<1> HIDE DEF G
<1>3. StaysIn(G, n, Nat)
  BY <1>2 DEF StaysIn
<1>4. PICK h : Computes(h, 0, G, n, Nat)
  BY <1>1, <1>3, RecursionExists
<1>5. \A k \in 1 .. n : h[k] = h[k - 1] + bytes[k] * Power(Base, k - 1)
  <2>1. \A k \in 1 .. n : k - 1 \in 0 .. n
    OBVIOUS
  <2>2. \A k \in 1 .. n : h[k - 1] \in Nat /\ h[k] = G[<<k, h[k - 1]>>]
    BY <1>4, <2>1 DEF Computes
  <2>3. QED
    BY <1>2, <2>2
<1>6. h = [k \in 0 .. n |-> IF k = 0 THEN 0 ELSE h[k - 1] + bytes[k] * Power(Base, k - 1)]
  <2>1. \A k \in 0 .. n :
          h[k] = IF k = 0 THEN 0 ELSE h[k - 1] + bytes[k] * Power(Base, k - 1)
    BY <1>1, <1>4, <1>5 DEF Computes
  <2>2. QED
    BY <1>4, <2>1 DEF Computes
<1>7. f = [k \in 0 .. n |-> IF k = 0 THEN 0 ELSE f[k - 1] + bytes[k] * Power(Base, k - 1)]
  BY <1>6
<1>8. Number(bytes) = f[n]
  BY DEF Number
<1> HIDE DEF f
<1>9. 0 .. n \subseteq {k \in 0 .. n : f[k] = h[k]}
  <2> DEFINE S == {k \in 0 .. n : f[k] = h[k]}
  <2>1. 0 \in S
    BY <1>1, <1>4, <1>7 DEF Computes
  <2>2. ASSUME NEW k \in 1 .. n, k - 1 \in S
        PROVE  k \in S
    <3>1. k \in 0 .. n /\ k # 0 /\ f[k - 1] = h[k - 1]
      BY <2>2
    <3>2. f[k] = f[k - 1] + bytes[k] * Power(Base, k - 1)
      BY <1>7, <3>1
    <3>3. QED
      BY <1>5, <3>1, <3>2
  <2> HIDE DEF S
  <2>3. 0 .. n \subseteq S
    BY <1>1, <2>1, <2>2, BoundedInduction
  <2>4. QED
    BY <2>3 DEF S
<1>10. f[n] = h[n]
  BY <1>1, <1>9
<1>11. QED
  BY <1>4, <1>5, <1>8, <1>10 DEF Computes

LEMMA Division ==
  ASSUME NEW n \in Nat, NEW b \in Nat \ {0}, NEW c \in Nat \ {0}
  PROVE  /\ n \div c \in Nat /\ (n \div c) % b \in 0 .. b - 1
         /\ n = (n % c) + (n \div c) * c
         /\ n \div (b * c) = (n \div c) \div b
         /\ n \div c = b * (n \div (b * c)) + ((n \div c) % b)
         /\ n < c => n \div c = 0
<1>1. n \div c \in Nat /\ (n \div c) % b \in 0 .. b - 1
  OBVIOUS
<1>2. n = (n % c) + (n \div c) * c
  OBVIOUS
<1>3. n \div (b * c) = (n \div c) \div b
  OBVIOUS
<1>4. n \div c = b * ((n \div c) \div b) + ((n \div c) % b)
  BY <1>1
<1>5. n < c => n \div c = 0
  OBVIOUS
<1>6. QED
  BY <1>1, <1>2, <1>3, <1>4, <1>5

\* what the division by b * c leaves of that by c
Splits(n, b, c) == n \div c = b * (n \div (b * c)) + ((n \div c) % b)

LEMMA DivisionSplits ==
  ASSUME NEW n \in Nat, NEW b \in Nat \ {0}, NEW c \in Nat \ {0}
  PROVE  Splits(n, b, c)
<1>1. n \div c = b * (n \div (b * c)) + ((n \div c) % b)
  BY Division
<1>2. QED
  BY <1>1 DEF Splits

(* memcpy of a number to its bytes and back.                               *)
LEMMA NumberOfBytes ==
  ASSUME NEW n \in Nat, NEW w \in Nat, n < Power(Base, w)
  PROVE  Bytes(n, w) \in Seq(Byte) /\ Len(Bytes(n, w)) = w /\ Number(Bytes(n, w)) = n
<1> DEFINE B == Bytes(n, w)
           q(k) == n \div Power(Base, k)
<1>1. \A k \in Nat : Power(Base, k) \in Nat \ {0} /\ Power(Base, k + 1) = Base * Power(Base, k)
  BY BaseFacts, PowerPositive, PowerFacts
<1>2. \A k \in Nat : q(k) \in Nat /\ q(k) % Base \in 0 .. Base - 1
                     /\ q(k) = Base * q(k + 1) + (q(k) % Base)
  <2>1. ASSUME NEW k \in Nat
        PROVE  /\ q(k) \in Nat /\ q(k) % Base \in 0 .. Base - 1
               /\ q(k) = Base * q(k + 1) + (q(k) % Base)
    <3>1. Power(Base, k) \in Nat \ {0} /\ Power(Base, k + 1) = Base * Power(Base, k)
      BY <1>1
    <3> DEFINE c == Power(Base, k)
    <3>2. c \in Nat \ {0}
      BY <3>1
    <3>3. q(k) = n \div c /\ q(k + 1) = n \div (Base * c)
      BY <3>1
    <3> HIDE DEF c, q
    <3>4. /\ n \div c \in Nat /\ (n \div c) % Base \in 0 .. Base - 1
          /\ n \div c = Base * (n \div (Base * c)) + ((n \div c) % Base)
      <4>1. Base \in Nat \ {0}
        BY BaseFacts
      <4>2. n \div c \in Nat
        BY <3>2, <4>1, Division, Zenon
      <4>3. (n \div c) % Base \in 0 .. Base - 1
        BY <3>2, <4>1, Division, Zenon
      <4>4. Splits(n, Base, c)
        BY <3>2, <4>1, DivisionSplits, Zenon
      <4>5. QED
        BY <4>2, <4>3, <4>4 DEF Splits
    <3> DEFINE x == n \div c
               y == n \div (Base * c)
    <3>5. x \in Nat /\ x % Base \in 0 .. Base - 1 /\ x = Base * y + (x % Base)
      BY <3>4
    <3>6. q(k) = x /\ q(k + 1) = y
      BY <3>3
    <3> HIDE DEF x, y
    <3>7. QED
      BY <3>5, <3>6
  <2> HIDE DEF q
  <2>2. QED
    BY <2>1
<1>3. ASSUME NEW k \in 1 .. w
      PROVE  k - 1 \in Nat /\ B[k] = q(k - 1) % Base /\ B[k] \in Byte
  <2>1. k - 1 \in Nat
    OBVIOUS
  <2>2. B[k] = q(k - 1) % Base
    BY DEF Bytes
  <2>3. QED
    BY <1>2, <2>1, <2>2 DEF Byte
<1>4. B \in Seq(Byte) /\ Len(B) = w
  <2>1. B = [k \in 1 .. w |-> B[k]]
    BY DEF Bytes
  <2>2. B \in [1 .. w -> Byte]
    BY <1>3, <2>1
  <2>3. QED
    BY <2>2
<1>5. PICK sum \in [0 .. Len(B) -> Nat] :
        /\ sum[0] = 0
        /\ \A k \in 1 .. Len(B) : sum[k] = sum[k - 1] + B[k] * Power(Base, k - 1)
        /\ Number(B) = sum[Len(B)]
  BY <1>4, NumberIs
<1> HIDE DEF B
<1>6. 0 .. w \subseteq {k \in 0 .. w : sum[k] + q(k) * Power(Base, k) = n}
  <2> DEFINE S == {k \in 0 .. w : sum[k] + q(k) * Power(Base, k) = n}
  <2>1. 0 \in S
    <3>1. Power(Base, 0) = 1
      BY BaseFacts, PowerFacts
    <3>2. QED
      BY <1>5, <3>1
  <2>2. ASSUME NEW k \in 1 .. w, k - 1 \in S
        PROVE  k \in S
    <3> DEFINE p == Power(Base, k - 1)
    <3>1. sum[k - 1] + q(k - 1) * p = n /\ k - 1 \in Nat /\ sum[k - 1] \in Nat
      BY <1>4, <1>5, <2>2
    <3>2. sum[k] = sum[k - 1] + (q(k - 1) % Base) * p
      BY <1>3, <1>4, <1>5
    <3>3. (k - 1) + 1 = k
      OBVIOUS
    <3>4. /\ q(k - 1) = Base * q(k) + (q(k - 1) % Base) /\ q(k - 1) \in Nat /\ q(k) \in Nat
          /\ q(k - 1) % Base \in Nat /\ p \in Nat /\ Power(Base, k) = Base * p
      <4>1. /\ q(k - 1) = Base * q((k - 1) + 1) + (q(k - 1) % Base)
            /\ q(k - 1) \in Nat /\ q((k - 1) + 1) \in Nat /\ q(k - 1) % Base \in 0 .. Base - 1
            /\ p \in Nat /\ Power(Base, (k - 1) + 1) = Base * p
        BY <1>1, <1>2, <3>1
      <4>2. QED
        BY <3>3, <4>1, BaseFacts
    <3>5. q(k - 1) * p = q(k) * Power(Base, k) + (q(k - 1) % Base) * p
      <4>1. ASSUME NEW x \in Nat, NEW y \in Nat, NEW z \in Nat, NEW r \in Nat, x = Base * y + r
            PROVE  x * z = y * (Base * z) + r * z
        BY <4>1, BaseFacts
      <4> HIDE DEF q, p
      <4>2. QED
        BY <3>4, <4>1
    <3>6. q(k) * Power(Base, k) \in Nat /\ (q(k - 1) % Base) * p \in Nat
      <4>1. \A x, y \in Nat : x * y \in Nat
        OBVIOUS
      <4> HIDE DEF q, p
      <4>2. Power(Base, k) \in Nat
        <5>1. k \in Nat
          OBVIOUS
        <5>2. QED
          BY <1>1, <5>1
      <4>3. QED
        BY <3>4, <4>1, <4>2
    <3> HIDE DEF q, p
    <3>7. QED
      BY <3>1, <3>2, <3>5, <3>6
  <2> HIDE DEF S, q
  <2>3. 0 .. w \subseteq S
    BY <2>1, <2>2, BoundedInduction
  <2>4. QED
    BY <2>3 DEF S
<1>7. sum[w] + q(w) * Power(Base, w) = n /\ q(w) = 0 /\ sum[w] \in Nat
  <2>1. q(w) = 0
    BY <1>1, BaseFacts, Division
  <2>2. w \in 0 .. w /\ sum[w] \in Nat
    BY <1>4, <1>5
  <2> HIDE DEF q
  <2>3. QED
    BY <1>6, <2>1, <2>2
<1>8. Power(Base, w) \in Nat
  BY <1>1
<1> HIDE DEF q
<1>9. sum[w] = n
  BY <1>7, <1>8
<1>10. QED
  BY <1>4, <1>5, <1>9 DEF B

-----------------------------------------------------------------------------
(* What is put is what is taken *)

LEMMA NoBodyIs == NoBody = WithBody(<<>>) /\ <<>> \in Seq(Byte)
<1>1. Power(Base, IdBytes) \in Nat \ {0}
  BY BaseFacts, CodecAssumption, PowerPositive
<1>2. Len(<<>>) % Power(Base, IdBytes) = 0
  BY <1>1
<1>3. QED
  BY <1>2 DEF NoBody, WithBody

LEMMA BodyTyped ==
  ASSUME NEW body \in Seq(Byte)
  PROVE  WithBody(body) \in [size : Id, body : Seq(Byte)] /\ WithBody(body).body = body
<1>1. Power(Base, IdBytes) \in Nat \ {0}
  BY BaseFacts, CodecAssumption, PowerPositive
<1>2. Len(body) \in Nat
  OBVIOUS
<1>3. Len(body) % Power(Base, IdBytes) \in Id
  BY <1>1, <1>2 DEF Id
<1>4. QED
  BY <1>3 DEF WithBody

LEMMA PutThenTake ==
  ASSUME NEW body \in Seq(Byte), NEW bytes \in Seq(Byte)
  PROVE  /\ Put(WithBody(body), bytes) = WithBody(body \o bytes)
         /\ body \o bytes \in Seq(Byte) /\ Len(body \o bytes) = Len(body) + Len(bytes)
         /\ Has(Put(WithBody(body), bytes), Len(bytes))
         /\ Last(Put(WithBody(body), bytes), Len(bytes)) = bytes
         /\ Drop(Put(WithBody(body), bytes), Len(bytes)) = WithBody(body)
<1> DEFINE m == Put(WithBody(body), bytes)
           b == body \o bytes
<1>1. /\ b \in Seq(Byte) /\ Len(b) = Len(body) + Len(bytes)
      /\ Len(body) \in Nat /\ Len(bytes) \in Nat
      /\ \A i \in 1 .. Len(body) : b[i] = body[i]
      /\ \A i \in 1 .. Len(bytes) : b[Len(body) + i] = bytes[i]
  OBVIOUS
<1>2. m = WithBody(b) /\ m.body = b
  BY DEF Put, WithBody
<1> HIDE DEF m, b
<1>3. SubSeq(b, Len(b) - Len(bytes) + 1, Len(b)) = bytes
  <2> DEFINE t == SubSeq(b, Len(b) - Len(bytes) + 1, Len(b))
  <2>1. Len(b) - Len(bytes) + 1 = Len(body) + 1 /\ Len(b) - (Len(body) + 1) + 1 = Len(bytes)
    BY <1>1
  <2>2. t = SubSeq(b, Len(body) + 1, Len(b))
    BY <2>1
  <2>3. t \in Seq(Byte) /\ Len(t) = Len(bytes)
    BY <1>1, <2>2
  <2>4. \A i \in 1 .. Len(t) : t[i] = bytes[i]
    BY <1>1, <2>2, <2>3
  <2> HIDE DEF t
  <2>5. t = bytes
    BY <2>3, <2>4, SeqEqual
  <2>6. QED
    BY <2>5 DEF t
<1>4. SubSeq(b, 1, Len(b) - Len(bytes)) = body
  <2> DEFINE t == SubSeq(b, 1, Len(body))
  <2>1. Len(b) - Len(bytes) = Len(body)
    BY <1>1
  <2>2. t \in Seq(Byte) /\ Len(t) = Len(body)
    BY <1>1
  <2>3. \A i \in 1 .. Len(t) : t[i] = body[i]
    BY <1>1, <2>2
  <2> HIDE DEF t
  <2>4. t = body
    BY <2>2, <2>3, SeqEqual
  <2>5. QED
    BY <2>1, <2>4 DEF t
<1>5. Has(m, Len(bytes))
  BY <1>1, <1>2 DEF Has
<1>6. Last(m, Len(bytes)) = bytes
  BY <1>2, <1>3 DEF Last
<1>7. Drop(m, Len(bytes)) = WithBody(body)
  BY <1>2, <1>4 DEF Drop
<1>8. QED
  BY <1>1, <1>2, <1>5, <1>6, <1>7 DEF m, b

(* What a message holds under an id is left when the id is taken.          *)
LEMMA IdComesBack ==
  ASSUME NEW body \in Seq(Byte), NEW n \in Id
  PROVE  LET m == PutId(WithBody(body), n) IN
           /\ \E b \in Seq(Byte) : m = WithBody(b) /\ Len(b) = Len(body) + IdBytes
           /\ Has(m, IdBytes) /\ Number(Last(m, IdBytes)) = n /\ Drop(m, IdBytes) = WithBody(body)
<1>1. Power(Base, IdBytes) \in Nat /\ IdBytes \in Nat
  BY BaseFacts, CodecAssumption, PowerFacts
<1>2. n \in Nat /\ n < Power(Base, IdBytes)
  BY <1>1 DEF Id
<1>3. /\ Bytes(n, IdBytes) \in Seq(Byte) /\ Len(Bytes(n, IdBytes)) = IdBytes
      /\ Number(Bytes(n, IdBytes)) = n
  BY <1>1, <1>2, NumberOfBytes
<1> DEFINE l == Bytes(n, IdBytes)
           m == PutId(WithBody(body), n)
<1>4. l \in Seq(Byte) /\ Len(l) = IdBytes /\ Number(l) = n
  BY <1>3
<1>5. m = Put(WithBody(body), l)
  BY DEF PutId
<1> HIDE DEF m, l
<1>6. /\ m = WithBody(body \o l) /\ body \o l \in Seq(Byte)
      /\ Len(body \o l) = Len(body) + IdBytes
      /\ Has(m, IdBytes) /\ Last(m, IdBytes) = l /\ Drop(m, IdBytes) = WithBody(body)
  BY <1>4, <1>5, PutThenTake
<1>7. QED
  BY <1>4, <1>6 DEF m

LEMMA TextComesBack ==
  ASSUME NEW text \in Seq(Byte), Len(text) < Power(Base, LengthBytes)
  PROVE  LET m == PutText(NoBody, text) IN
           /\ \E b \in Seq(Byte) : m = WithBody(b) /\ Len(b) = Len(text) + LengthBytes
           /\ HasText(m) /\ TextOf(m) = text /\ WithoutText(m) = NoBody
<1> DEFINE l == Bytes(Len(text), LengthBytes)
           m == PutText(NoBody, text)
<1>1. LengthBytes \in Nat /\ Len(text) \in Nat
  BY CodecAssumption
<1>2. l \in Seq(Byte) /\ Len(l) = LengthBytes /\ Number(l) = Len(text)
  BY <1>1, NumberOfBytes
<1>3. /\ Put(NoBody, text) = WithBody(text) /\ Has(WithBody(text), Len(text))
      /\ Last(WithBody(text), Len(text)) = text /\ Drop(WithBody(text), Len(text)) = NoBody
  <2> HIDE DEF m, l
  <2>1. <<>> \o text = text
    OBVIOUS
  <2>2. /\ Put(WithBody(<<>>), text) = WithBody(<<>> \o text)
        /\ Has(Put(WithBody(<<>>), text), Len(text))
        /\ Last(Put(WithBody(<<>>), text), Len(text)) = text
        /\ Drop(Put(WithBody(<<>>), text), Len(text)) = WithBody(<<>>)
    BY NoBodyIs, PutThenTake
  <2>3. NoBody = WithBody(<<>>)
    BY NoBodyIs
  <2>4. QED
    BY <2>1, <2>2, <2>3
<1>4. m = Put(WithBody(text), l)
  BY <1>3 DEF PutText
<1> HIDE DEF m, l
<1>5. /\ m = WithBody(text \o l) /\ text \o l \in Seq(Byte)
      /\ Len(text \o l) = Len(text) + LengthBytes
      /\ Has(m, LengthBytes) /\ Last(m, LengthBytes) = l /\ Drop(m, LengthBytes) = WithBody(text)
  BY <1>2, <1>4, PutThenTake
<1>6. TextLength(m) = Len(text)
  BY <1>2, <1>5 DEF TextLength
<1>7. HasText(m) /\ TextOf(m) = text /\ WithoutText(m) = NoBody
  BY <1>3, <1>5, <1>6 DEF HasText, TextOf, WithoutText
<1>8. QED
  BY <1>5, <1>7 DEF m
=============================================================================
