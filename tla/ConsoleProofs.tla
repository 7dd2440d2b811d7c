--------------------------- MODULE ConsoleProofs ---------------------------
(***************************************************************************)
(* TLAPS proofs about Console and the parser it uses, for any lines, text  *)
(* and list lengths that fit: what is typed and sent is what is shown.     *)
(***************************************************************************)
EXTENDS Console, CodecProofs

-----------------------------------------------------------------------------
(* std::stoul *)

LEMMA LeadingIs ==
  ASSUME NEW Char, NEW s \in Seq(Char), NEW chars
  PROVE  /\ Leading(s, chars) \in 0 .. Len(s)
         /\ \A j \in 1 .. Leading(s, chars) : s[j] \in chars
         /\ Leading(s, chars) < Len(s) => s[Leading(s, chars) + 1] \notin chars
<1> DEFINE P(k, n) == /\ \A j \in 1 .. k : s[j] \in chars
                      /\ k < n => s[k + 1] \notin chars
           S == {n \in 0 .. Len(s) : \E k \in 0 .. n : P(k, n)}
<1>1. 0 \in S
  <2>1. 0 \in 0 .. Len(s) /\ 0 \in 0 .. 0 /\ P(0, 0)
    OBVIOUS
  <2>2. QED
    BY <2>1
<1>2. ASSUME NEW n \in 1 .. Len(s), n - 1 \in S
      PROVE  n \in S
  <2>1. PICK k \in 0 .. n - 1 : P(k, n - 1)
    BY <1>2
  <2>2. CASE k < n - 1 \/ s[k + 1] \notin chars
    <3>1. k \in 0 .. n /\ n \in 0 .. Len(s) /\ P(k, n)
      BY <2>1, <2>2
    <3>2. QED
      BY <3>1
  <2>3. CASE k = n - 1 /\ s[k + 1] \in chars
    <3>1. \A j \in 1 .. n : s[j] \in chars
      BY <2>1, <2>3
    <3>2. n \in 0 .. n /\ n \in 0 .. Len(s) /\ P(n, n)
      BY <3>1
    <3>3. QED
      BY <3>2
  <2>4. QED
    BY <2>2, <2>3
<1>3. 0 .. Len(s) \subseteq S
  <2>1. Len(s) \in Nat
    OBVIOUS
  <2> HIDE DEF S
  <2>2. QED
    BY <1>1, <1>2, <2>1, BoundedInduction
<1>4. \E k \in 0 .. Len(s) : P(k, Len(s))
  <2>1. Len(s) \in 0 .. Len(s)
    OBVIOUS
  <2>2. QED
    BY <1>3, <2>1
<1>5. QED
  BY <1>4 DEF Leading

LEMMA LeadingUnique ==
  ASSUME NEW Char, NEW s \in Seq(Char), NEW chars, NEW k \in 0 .. Len(s),
         \A j \in 1 .. k : s[j] \in chars,
         k < Len(s) => s[k + 1] \notin chars
  PROVE  Leading(s, chars) = k
<1> DEFINE l == Leading(s, chars)
<1>1. /\ l \in 0 .. Len(s) /\ (\A j \in 1 .. l : s[j] \in chars)
      /\ l < Len(s) => s[l + 1] \notin chars
  BY LeadingIs
<1> HIDE DEF l
<1>2. ~ (l < k)
  <2>1. SUFFICES ASSUME l < k PROVE FALSE
    OBVIOUS
  <2>2. l + 1 \in 1 .. k /\ l < Len(s)
    BY <1>1, <2>1
  <2>3. QED
    BY <1>1, <2>2
<1>3. ~ (k < l)
  <2>1. SUFFICES ASSUME k < l PROVE FALSE
    OBVIOUS
  <2>2. k + 1 \in 1 .. l /\ k < Len(s)
    BY <1>1, <2>1
  <2>3. QED
    BY <1>1, <2>2
<1>4. l = k
  BY <1>1, <1>2, <1>3
<1>5. QED
  BY <1>4 DEF l

LEMMA DigitFacts ==
  /\ \A c \in Digit : ValueOf(c) \in 0 .. 9
  /\ \A d \in 0 .. 9 : DigitChars[1 + d] \in Digit /\ ValueOf(DigitChars[1 + d]) = d
  /\ " " \notin Digit /\ "-" \notin Digit /\ "+" \notin Digit /\ "C" \notin Digit
<1>1. \A d, e \in 1 .. 10 : DigitChars[d] = DigitChars[e] => d = e
  BY SMTT(30) DEF DigitChars
<1>2. \A c \in Digit : \E d \in 1 .. 10 : DigitChars[d] = c
  BY DEF Digit
<1>3. \A c \in Digit : (CHOOSE d \in 1 .. 10 : DigitChars[d] = c) \in 1 .. 10
  BY <1>2
<1>4. \A c \in Digit : ValueOf(c) \in 0 .. 9
  BY <1>3 DEF ValueOf
<1>5. ASSUME NEW d \in 0 .. 9
      PROVE  DigitChars[1 + d] \in Digit /\ ValueOf(DigitChars[1 + d]) = d
  <2>1. 1 + d \in 1 .. 10
    OBVIOUS
  <2>2. (CHOOSE e \in 1 .. 10 : DigitChars[e] = DigitChars[1 + d]) = 1 + d
    BY <1>1, <2>1
  <2>3. DigitChars[1 + d] \in Digit
    BY <2>1 DEF Digit
  <2>4. ValueOf(DigitChars[1 + d]) = (1 + d) - 1
    BY <2>2 DEF ValueOf
  <2>5. QED
    BY <2>3, <2>4
<1>6. \A d \in 1 .. 10 : /\ DigitChars[d] # " " /\ DigitChars[d] # "-"
                         /\ DigitChars[d] # "+" /\ DigitChars[d] # "C"
  <2>1. \A d \in 1 .. 10 : d = 1 \/ d = 2 \/ d = 3 \/ d = 4 \/ d = 5
                         \/ d = 6 \/ d = 7 \/ d = 8 \/ d = 9 \/ d = 10
    OBVIOUS
  <2>2. /\ DigitChars[1] = "0" /\ DigitChars[2] = "1" /\ DigitChars[3] = "2"
        /\ DigitChars[4] = "3" /\ DigitChars[5] = "4" /\ DigitChars[6] = "5"
        /\ DigitChars[7] = "6" /\ DigitChars[8] = "7" /\ DigitChars[9] = "8"
        /\ DigitChars[10] = "9"
    BY DEF DigitChars
  <2>3. QED
    BY <2>1, <2>2
<1>7. QED
  BY <1>4, <1>5, <1>6 DEF Digit

LEMMA DecimalIs ==
  ASSUME NEW digits \in Seq(Digit)
  PROVE  \E value \in [0 .. Len(digits) -> Nat] :
           /\ value[0] = 0
           /\ \A k \in 1 .. Len(digits) : value[k] = 10 * value[k - 1] + ValueOf(digits[k])
           /\ Decimal(digits) = value[Len(digits)]
<1> DEFINE n == Len(digits)
           f[k \in 0 .. n] == IF k = 0 THEN 0 ELSE 10 * f[k - 1] + ValueOf(digits[k])
           G == [x \in (1 .. n) \X Nat |-> 10 * x[2] + ValueOf(digits[x[1]])]
<1>1. n \in Nat /\ \A k \in 1 .. n : ValueOf(digits[k]) \in Nat
  <2>1. n \in Nat /\ \A k \in 1 .. n : digits[k] \in Digit
    OBVIOUS
  <2>2. \A c \in Digit : ValueOf(c) \in 0 .. 9
    BY DigitFacts
  <2>3. QED
    BY <2>1, <2>2
<1>2. \A k \in 1 .. n, x \in Nat :
        G[<<k, x>>] = 10 * x + ValueOf(digits[k]) /\ G[<<k, x>>] \in Nat
  BY <1>1
<1>3. G = [x \in (1 .. n) \X Nat |-> 10 * x[2] + ValueOf(digits[x[1]])]
  OBVIOUS
<1> HIDE DEF G
<1>4. StaysIn(G, n, Nat)
  BY <1>2 DEF StaysIn
<1>5. PICK h : Computes(h, 0, G, n, Nat)
  BY <1>1, <1>4, RecursionExists
<1>6. \A k \in 1 .. n : h[k] = 10 * h[k - 1] + ValueOf(digits[k])
  <2>1. \A k \in 1 .. n : k - 1 \in 0 .. n
    OBVIOUS
  <2>2. \A k \in 1 .. n : h[k - 1] \in Nat /\ h[k] = G[<<k, h[k - 1]>>]
    BY <1>5, <2>1 DEF Computes
  <2>3. QED
    BY <1>2, <2>2
<1>7. h = [k \in 0 .. n |-> IF k = 0 THEN 0 ELSE 10 * h[k - 1] + ValueOf(digits[k])]
  <2>1. \A k \in 0 .. n :
          h[k] = IF k = 0 THEN 0 ELSE 10 * h[k - 1] + ValueOf(digits[k])
    BY <1>1, <1>5, <1>6 DEF Computes
  <2>2. QED
    BY <1>5, <2>1 DEF Computes
<1>8. f = [k \in 0 .. n |-> IF k = 0 THEN 0 ELSE 10 * f[k - 1] + ValueOf(digits[k])]
  BY <1>7
<1>9. Decimal(digits) = f[n]
  BY DEF Decimal
<1> HIDE DEF f
<1>10. 0 .. n \subseteq {k \in 0 .. n : f[k] = h[k]}
  <2> DEFINE S == {k \in 0 .. n : f[k] = h[k]}
  <2>1. 0 \in S
    BY <1>1, <1>5, <1>8 DEF Computes
  <2>2. ASSUME NEW k \in 1 .. n, k - 1 \in S
        PROVE  k \in S
    <3>1. k \in 0 .. n /\ k # 0 /\ f[k - 1] = h[k - 1]
      BY <2>2
    <3>2. f[k] = 10 * f[k - 1] + ValueOf(digits[k])
      BY <1>8, <3>1
    <3>3. QED
      BY <1>6, <3>1, <3>2
  <2> HIDE DEF S
  <2>3. 0 .. n \subseteq S
    BY <1>1, <2>1, <2>2, BoundedInduction
  <2>4. QED
    BY <2>3 DEF S
<1>11. f[n] = h[n]
  BY <1>1, <1>10
<1>12. QED
  BY <1>5, <1>6, <1>9, <1>11 DEF Computes

(* n is digits when each is that of a power of ten.                        *)
IsDigitsOf(digits, n) ==
  /\ n < Power(10, Len(digits))
  /\ \A j \in 1 .. Len(digits) :
       digits[j] = DigitChars[1 + ((n \div Power(10, Len(digits) - j)) % 10)]

LEMMA DecimalOfDigits ==
  ASSUME NEW Char, NEW digits \in Seq(Char), NEW n \in Nat, IsDigitsOf(digits, n)
  PROVE  digits \in Seq(Digit) /\ Decimal(digits) = n
<1> DEFINE w == Len(digits)
           q(j) == n \div Power(10, w - j)
<1>1. w \in Nat
  OBVIOUS
<1>2. ASSUME NEW j \in 0 .. w
      PROVE  q(j) \in Nat /\ q(j) % 10 \in 0 .. 9
  <2>1. w - j \in Nat /\ 10 \in Nat \ {0}
    BY <1>1
  <2> DEFINE c == Power(10, w - j)
  <2>2. c \in Nat \ {0} /\ q(j) = n \div c
    <3>1. c \in Nat \ {0}
      BY <2>1, PowerPositive
    <3>2. QED
      BY <3>1
  <2> HIDE DEF c, q
  <2> DEFINE x == n \div c
  <2>3. x \in Nat
    BY <2>2
  <2>4. q(j) = x
    BY <2>2
  <2> HIDE DEF x
  <2>5. x % 10 \in 0 .. 9
    BY <2>3
  <2>6. QED
    BY <2>3, <2>4, <2>5
<1>3. ASSUME NEW j \in 1 .. w
      PROVE  q(j) = 10 * q(j - 1) + (q(j) % 10)
  <2>1. w - j \in Nat /\ w - (j - 1) = (w - j) + 1
    BY <1>1
  <2> DEFINE c == Power(10, w - j)
  <2>2. c \in Nat \ {0} /\ Power(10, w - (j - 1)) = 10 * c
    <3>1. c \in Nat \ {0}
      <4>1. w - j \in Nat /\ 10 \in Nat \ {0}
        BY <2>1
      <4>2. QED
        BY <4>1, PowerPositive
    <3>2. Power(10, (w - j) + 1) = 10 * c
      BY <2>1, PowerFacts
    <3>3. QED
      BY <2>1, <3>1, <3>2
  <2>3. q(j) = n \div c /\ q(j - 1) = n \div (10 * c)
    BY <2>2
  <2> HIDE DEF c, q
  <2>4. n \div c = 10 * (n \div (10 * c)) + ((n \div c) % 10)
    <3>1. 10 \in Nat \ {0}
      OBVIOUS
    <3>2. QED
      BY <2>2, <3>1, Division
  <2> DEFINE x == n \div c
             y == n \div (10 * c)
  <2>5. x = 10 * y + (x % 10)
    BY <2>4
  <2>6. q(j) = x /\ q(j - 1) = y
    BY <2>3
  <2> HIDE DEF x, y
  <2>7. QED
    BY <2>5, <2>6
<1>4. q(0) = 0 /\ q(w) = n
  <2>1. Power(10, w) \in Nat \ {0} /\ n < Power(10, w) /\ Power(10, 0) = 1
    BY <1>1, PowerPositive, PowerFacts DEF IsDigitsOf
  <2>2. w - 0 = w /\ w - w = 0
    BY <1>1
  <2>3. q(0) = n \div Power(10, w) /\ q(w) = n \div Power(10, 0)
    BY <2>2
  <2> DEFINE c == Power(10, w)
  <2>4. c \in Nat \ {0} /\ n < c
    BY <2>1
  <2> HIDE DEF c, q
  <2>5. n \div c = 0
    BY <2>4, Division
  <2>6. QED
    BY <2>1, <2>3, <2>5 DEF c
<1>5. ASSUME NEW j \in 1 .. w
      PROVE  digits[j] \in Digit /\ ValueOf(digits[j]) = q(j) % 10
  <2>1. digits[j] = DigitChars[1 + (q(j) % 10)]
    BY DEF IsDigitsOf
  <2>2. q(j) % 10 \in 0 .. 9
    BY <1>2
  <2> HIDE DEF q
  <2>3. QED
    BY <2>1, <2>2, DigitFacts
<1>6. digits \in Seq(Digit)
  <2>1. digits = [j \in 1 .. w |-> digits[j]]
    OBVIOUS
  <2>2. digits \in [1 .. w -> Digit]
    BY <1>5, <2>1
  <2>3. QED
    BY <1>1, <2>2
<1>7. PICK value \in [0 .. w -> Nat] :
        /\ value[0] = 0
        /\ \A k \in 1 .. w : value[k] = 10 * value[k - 1] + ValueOf(digits[k])
        /\ Decimal(digits) = value[w]
  BY <1>6, DecimalIs
<1> HIDE DEF w, q
<1>8. 0 .. w \subseteq {k \in 0 .. w : value[k] = q(k)}
  <2> DEFINE S == {k \in 0 .. w : value[k] = q(k)}
  <2>1. 0 \in S
    BY <1>1, <1>4, <1>7
  <2>2. ASSUME NEW k \in 1 .. w, k - 1 \in S
        PROVE  k \in S
    BY <1>3, <1>5, <1>7, <2>2
  <2> HIDE DEF S
  <2>3. 0 .. w \subseteq S
    BY <1>1, <2>1, <2>2, BoundedInduction
  <2>4. QED
    BY <2>3 DEF S
<1>9. value[w] = n
  BY <1>1, <1>4, <1>8
<1>10. QED
  BY <1>6, <1>7, <1>9

LEMMA SkipFacts ==
  ASSUME NEW Char, NEW s \in Seq(Char), NEW k \in 0 .. Len(s)
  PROVE  /\ Skip(s, k) \in Seq(Char) /\ Len(Skip(s, k)) = Len(s) - k
         /\ \A j \in 1 .. Len(s) - k : Skip(s, k)[j] = s[k + j]
<1> DEFINE m == k + 1
           n == Len(s)
           t == SubSeq(s, m, n)
<1>1. m \in Int /\ n \in Int /\ \A j \in m .. n : s[j] \in Char
  OBVIOUS
<1>2. m = k + 1 /\ n \in Nat /\ k \in Nat /\ k <= n /\ Skip(s, k) = t
  BY DEF Skip
<1> HIDE DEF m, n
<1>3. /\ t \in Seq(Char) /\ Len(t) = IF m <= n THEN n - m + 1 ELSE 0
      /\ \A j \in 1 .. n - m + 1 : t[j] = s[m + j - 1]
  BY <1>1, SubSeqProperties
<1> HIDE DEF t
<1>4. n - m + 1 = n - k /\ (~ (m <= n) => n - k = 0) /\ \A j \in Nat : m + j - 1 = k + j
  BY <1>2
<1>5. t \in Seq(Char) /\ Len(t) = n - k /\ \A j \in 1 .. n - k : t[j] = s[k + j]
  <2>1. \A j \in 1 .. n - k : j \in Nat
    BY <1>2
  <2>2. Len(t) = n - k
    BY <1>3, <1>4
  <2>3. QED
    BY <1>3, <1>4, <2>1, <2>2
<1>6. QED
  BY <1>2, <1>5 DEF n

LEMMA DigitsTyped ==
  ASSUME NEW Char, NEW s \in Seq(Char)
  PROVE  Digits(s) \in Seq(Digit) /\ Decimal(Digits(s)) \in Nat
<1> DEFINE a == AfterSpaces(s)
           t == IF Sign(s) \in {"-", "+"} THEN Tail(a) ELSE a
           l == Leading(t, Digit)
<1>1. a \in Seq(Char)
  BY LeadingIs, SkipFacts DEF AfterSpaces
<1>2. t \in Seq(Char)
  <2>1. CASE a = <<>>
    BY <1>1, <2>1 DEF Sign
  <2>2. CASE a # <<>>
    <3>1. Tail(a) \in Seq(Char)
      BY <1>1, <2>2, EmptySeq
    <3>2. QED
      BY <1>1, <3>1
  <2>3. QED
    BY <2>1, <2>2
<1>3. Digits(s) = SubSeq(t, 1, l)
  BY DEF Digits
<1> HIDE DEF t, a
<1>4. l \in 0 .. Len(t) /\ \A j \in 1 .. l : t[j] \in Digit
  BY <1>2, LeadingIs
<1> HIDE DEF l
<1>5. Digits(s) \in Seq(Digit)
  <2>1. l \in Int /\ \A j \in 1 .. l : t[j] \in Digit
    BY <1>2, <1>4
  <2>2. SubSeq(t, 1, l) \in Seq(Digit)
    BY <2>1, SubSeqProperties
  <2>3. QED
    BY <1>3, <2>2
<1>6. QED
  <2>1. PICK value \in [0 .. Len(Digits(s)) -> Nat] : Decimal(Digits(s)) = value[Len(Digits(s))]
    BY <1>5, DecimalIs
  <2>2. Len(Digits(s)) \in 0 .. Len(Digits(s))
    BY <1>5
  <2>3. QED
    BY <1>5, <2>1, <2>2

(* What stoul returns is an unsigned long.                                 *)
LEMMA StoulFits ==
  ASSUME NEW Char, NEW s \in Seq(Char), ~ Throws(s)
  PROVE  Stoul(s) \in 0 .. Modulus - 1
<1>1. Decimal(Digits(s)) \in Nat /\ ~ (Decimal(Digits(s)) >= Modulus)
  BY DigitsTyped DEF Throws
<1>2. \A d \in Nat : ~ (d >= Modulus) => d \in 0 .. Modulus - 1
                                         /\ (Modulus - d) % Modulus \in 0 .. Modulus - 1
  BY ModulusAssumption
<1>3. QED
  BY <1>1, <1>2 DEF Stoul

(* A number of digits is read as it is written.                            *)
LEMMA NumberIsRead ==
  ASSUME NEW Char, NEW s \in Seq(Char), NEW n \in Nat, IsNumber(s, n)
  PROVE  /\ Digits(s) # <<>> /\ Decimal(Digits(s)) = n /\ Sign(s) \notin {"-", "+"}
<1>1. PICK k \in 0 .. Len(s) - 1 :
        /\ n < Power(10, Len(s) - k)
        /\ \A j \in 1 .. k : s[j] = " "
        /\ \A j \in k + 1 .. Len(s) : s[j] = DigitChars[1 + ((n \div Power(10, Len(s) - j)) % 10)]
  BY DEF IsNumber
<1> DEFINE t == Skip(s, k)
<1>2. k \in 0 .. Len(s) /\ Len(s) \in Nat /\ k \in Nat /\ k < Len(s)
  OBVIOUS
<1>3. t \in Seq(Char) /\ Len(t) = Len(s) - k /\ \A j \in 1 .. Len(s) - k : t[j] = s[k + j]
  BY <1>2, SkipFacts
<1> HIDE DEF t
<1>4. IsDigitsOf(t, n)
  <2>1. ASSUME NEW j \in 1 .. Len(t)
        PROVE  t[j] = DigitChars[1 + ((n \div Power(10, Len(t) - j)) % 10)]
    <3>1. k + j \in k + 1 .. Len(s) /\ Len(s) - (k + j) = Len(t) - j
      BY <1>2, <1>3
    <3>2. QED
      BY <1>1, <1>3, <3>1
  <2>2. QED
    BY <1>1, <1>3, <2>1 DEF IsDigitsOf
<1>5. t \in Seq(Digit) /\ Decimal(t) = n
  BY <1>3, <1>4, DecimalOfDigits
<1>6. Len(t) >= 1 /\ t[1] \in Digit /\ t[1] = s[k + 1] /\ t # <<>>
  BY <1>2, <1>3, <1>5
<1>7. Leading(s, {" "}) = k
  <2>1. s[k + 1] \notin {" "}
    BY <1>6, DigitFacts
  <2>2. QED
    BY <1>1, <1>2, <2>1, LeadingUnique
<1>8. AfterSpaces(s) = t
  BY <1>7 DEF AfterSpaces, t
<1>9. Sign(s) = t[1] /\ Sign(s) \notin {"-", "+"}
  <2>1. Sign(s) = t[1]
    BY <1>5, <1>6, <1>8 DEF Sign
  <2>2. QED
    BY <1>6, <2>1, DigitFacts
<1>10. Leading(t, Digit) = Len(t)
  <2>1. Len(t) \in 0 .. Len(t) /\ \A j \in 1 .. Len(t) : t[j] \in Digit
    BY <1>5
  <2>2. QED
    BY <1>3, <2>1, LeadingUnique
<1>11. Digits(s) = SubSeq(t, 1, Len(t))
  BY <1>8, <1>9, <1>10 DEF Digits
<1>12. Digits(s) = t
  BY <1>3, <1>11, SubSeqFull
<1>13. QED
  BY <1>5, <1>6, <1>9, <1>12

(* stoul throws without a digit, as for a ConnectTo with no argument.      *)
LEMMA NoArgumentThrows == Throws(<<"C">>)
<1> DEFINE s == <<"C">>
<1>1. s \in Seq({"C"}) /\ Len(s) = 1 /\ s[1] = "C"
  OBVIOUS
<1> HIDE DEF s
<1>2. Leading(s, {" "}) = 0
  <2>1. 0 \in 0 .. Len(s) /\ (\A j \in 1 .. 0 : s[j] \in {" "}) /\ 0 + 1 = 1
    BY <1>1
  <2>2. s[0 + 1] \notin {" "}
    BY <1>1, <2>1
  <2>3. QED
    BY <1>1, <2>1, <2>2, LeadingUnique
<1>3. AfterSpaces(s) = s
  <2>1. Skip(s, 0) = SubSeq(s, 1, Len(s))
    BY DEF Skip
  <2>2. QED
    BY <1>1, <1>2, <2>1, SubSeqFull DEF AfterSpaces
<1>4. Sign(s) = "C"
  BY <1>1, <1>3 DEF Sign
<1>5. Leading(s, Digit) = 0
  <2>1. 0 \in 0 .. Len(s) /\ (\A j \in 1 .. 0 : s[j] \in Digit) /\ 0 + 1 = 1
    BY <1>1
  <2>2. s[0 + 1] \notin Digit
    BY <1>1, <2>1, DigitFacts
  <2>3. QED
    BY <1>1, <2>1, <2>2, LeadingUnique
<1>6. Digits(s) = SubSeq(s, 1, 0)
  BY <1>3, <1>4, <1>5 DEF Digits
<1>7. SubSeq(s, 1, 0) = <<>>
  BY <1>1
<1>8. QED
  BY <1>6, <1>7 DEF Throws, s

-----------------------------------------------------------------------------
(* A line and its command *)

SimplePhases ==
  {"ServerPing", "ClientList", "HelloAll", "RequestAccept", "RequestDecline", "Help"}

LEMMA CommandIs ==
  ASSUME NEW l \in Lines
  PROVE  LET c == StrToCommand(l) IN
           /\ c.prefix \in SimplePhases \cup {"ConnectTo", "Blank"}
           /\ c.prefix = "ConnectTo" => /\ l.word = "ConnectTo" /\ ~ Throws(AfterFirstSpace(l))
                                        /\ c.id = Stoul(AfterFirstSpace(l))
           /\ c.prefix = "Blank" /\ l.word = "ConnectTo" => Throws(AfterFirstSpace(l))
<1>1. /\ "ConnectTo" \notin DOMAIN SimpleCommands
      /\ \A w \in DOMAIN SimpleCommands : SimpleCommands[w] \in SimplePhases
  BY DEF SimpleCommands, SimplePhases
<1>2. CASE l.word \in DOMAIN SimpleCommands
  <2>1. SimpleCommands[l.word] \in SimplePhases /\ l.word # "ConnectTo"
    BY <1>1, <1>2
  <2> DEFINE p == SimpleCommands[l.word]
  <2>2. StrToCommand(l) = [prefix |-> p, id |-> 0]
    BY <1>2 DEF StrToCommand, Command
  <2> HIDE DEF p
  <2>3. p \in SimplePhases /\ p # "ConnectTo" /\ p # "Blank"
    BY <2>1 DEF SimplePhases, p
  <2>4. QED
    BY <2>2, <2>3
<1>3. CASE l.word \notin DOMAIN SimpleCommands
  BY <1>3 DEF StrToCommand, Command, Blank
<1>4. QED
  BY <1>2, <1>3

LEMMA ArgumentIs ==
  ASSUME NEW l \in Lines
  PROVE  /\ l.rest # <<>> => /\ AfterFirstSpace(l) = Tail(l.rest)
                             /\ AfterFirstSpace(l) \in Seq(STRING)
         /\ l.rest = <<>> => Throws(AfterFirstSpace(l))
<1>1. l.rest \in Seq(STRING)
  BY ConsoleAssumption
<1>2. CASE l.rest # <<>>
  <2>1. Tail(l.rest) \in Seq(STRING)
    BY <1>1, <1>2, HeadTailProperties
  <2>2. QED
    BY <1>2, <2>1 DEF AfterFirstSpace
<1>3. CASE l.rest = <<>>
  BY <1>3, NoArgumentThrows DEF AfterFirstSpace
<1>4. QED
  BY <1>2, <1>3

(* The id asked for fits an id.                                            *)
LEMMA AskedIsId ==
  ASSUME NEW l \in Lines, ~ Throws(AfterFirstSpace(l))
  PROVE  Stoul(AfterFirstSpace(l)) \in Id
<1>1. AfterFirstSpace(l) \in Seq(STRING)
  BY ArgumentIs
<1>2. Stoul(AfterFirstSpace(l)) \in 0 .. Modulus - 1
  BY <1>1, StoulFits
<1>3. QED
  BY <1>2, ConsoleAssumption DEF IdsFit, Id

-----------------------------------------------------------------------------
(* The message of a list *)

ListOf(ids) ==
  LET m[k \in 0 .. Len(ids)] == IF k = 0 THEN NoBody ELSE PutId(m[k - 1], ids[k])
  IN  m

Bodied == {WithBody(b) : b \in Seq(Byte)}

LEMMA PutKeepsBodied ==
  ASSUME NEW m \in Bodied, NEW n \in Id
  PROVE  PutId(m, n) \in Bodied
<1>1. PICK body \in Seq(Byte) : m = WithBody(body)
  BY DEF Bodied
<1>2. \E b \in Seq(Byte) : PutId(WithBody(body), n) = WithBody(b)
  BY IdComesBack
<1>3. QED
  BY <1>1, <1>2 DEF Bodied

LEMMA ListIs ==
  ASSUME NEW ids \in Seq(Id)
  PROVE  /\ ListOf(ids)[0] = NoBody
         /\ \A k \in 1 .. Len(ids) : ListOf(ids)[k] = PutId(ListOf(ids)[k - 1], ids[k])
         /\ \A k \in 0 .. Len(ids) : ListOf(ids)[k] \in Bodied
<1> DEFINE n == Len(ids)
           f[k \in 0 .. n] == IF k = 0 THEN NoBody ELSE PutId(f[k - 1], ids[k])
           G == [x \in (1 .. n) \X Bodied |-> PutId(x[2], ids[x[1]])]
<1>1. n \in Nat /\ NoBody \in Bodied
  <2>1. NoBody = WithBody(<<>>) /\ <<>> \in Seq(Byte)
    BY NoBodyIs
  <2>2. NoBody \in Bodied
    BY <2>1 DEF Bodied
  <2>3. QED
    BY <2>2
<1>2. \A k \in 1 .. n, x \in Bodied : G[<<k, x>>] = PutId(x, ids[k]) /\ G[<<k, x>>] \in Bodied
  <2>1. \A k \in 1 .. n : ids[k] \in Id
    OBVIOUS
  <2>2. QED
    BY <2>1, PutKeepsBodied
<1> HIDE DEF G
<1>3. StaysIn(G, n, Bodied)
  BY <1>2 DEF StaysIn
<1>4. PICK h : Computes(h, NoBody, G, n, Bodied)
  BY <1>1, <1>3, RecursionExists
<1>5. \A k \in 1 .. n : h[k] = PutId(h[k - 1], ids[k])
  <2>1. \A k \in 1 .. n : k - 1 \in 0 .. n
    OBVIOUS
  <2>2. \A k \in 1 .. n : h[k - 1] \in Bodied /\ h[k] = G[<<k, h[k - 1]>>]
    BY <1>4, <2>1 DEF Computes
  <2>3. QED
    BY <1>2, <2>2
<1>6. h = [k \in 0 .. n |-> IF k = 0 THEN NoBody ELSE PutId(h[k - 1], ids[k])]
  <2>1. \A k \in 0 .. n : h[k] = IF k = 0 THEN NoBody ELSE PutId(h[k - 1], ids[k])
    BY <1>1, <1>4, <1>5 DEF Computes
  <2>2. QED
    BY <1>4, <2>1 DEF Computes
<1>7. f = [k \in 0 .. n |-> IF k = 0 THEN NoBody ELSE PutId(f[k - 1], ids[k])]
  BY <1>6
<1>8. ListOf(ids) = f
  BY DEF ListOf
<1> HIDE DEF f
<1>9. f[0] = NoBody /\ \A k \in 1 .. n : f[k] = PutId(f[k - 1], ids[k])
  <2>1. 0 \in 0 .. n /\ \A k \in 1 .. n : k \in 0 .. n /\ k # 0
    BY <1>1
  <2>2. QED
    BY <1>7, <2>1
<1>10. 0 .. n \subseteq {k \in 0 .. n : f[k] \in Bodied}
  <2> DEFINE S == {k \in 0 .. n : f[k] \in Bodied}
  <2>1. 0 \in S
    BY <1>1, <1>9
  <2>2. ASSUME NEW k \in 1 .. n, k - 1 \in S
        PROVE  k \in S
    <3>1. f[k - 1] \in Bodied /\ ids[k] \in Id /\ f[k] = PutId(f[k - 1], ids[k])
      BY <1>9, <2>2
    <3>2. QED
      BY <3>1, PutKeepsBodied
  <2> HIDE DEF S
  <2>3. 0 .. n \subseteq S
    BY <1>1, <2>1, <2>2, BoundedInduction
  <2>4. QED
    BY <2>3 DEF S
<1>11. QED
  BY <1>8, <1>9, <1>10

(* Each id takes IdBytes of the body, and the loop finds it and leaves the *)
(* message of those before it.                                             *)
LEMMA ListComesApart ==
  ASSUME NEW ids \in Seq(Id), NEW k \in 1 .. Len(ids)
  PROVE  /\ Has(ListOf(ids)[k], IdBytes) /\ Number(Last(ListOf(ids)[k], IdBytes)) = ids[k]
         /\ Drop(ListOf(ids)[k], IdBytes) = ListOf(ids)[k - 1]
         /\ Len(ListOf(ids)[k].body) = Len(ListOf(ids)[k - 1].body) + IdBytes
<1>1. k - 1 \in 0 .. Len(ids) /\ ids[k] \in Id
  OBVIOUS
<1>2. PICK body \in Seq(Byte) : ListOf(ids)[k - 1] = WithBody(body)
  BY <1>1, ListIs DEF Bodied
<1>3. ListOf(ids)[k] = PutId(WithBody(body), ids[k])
  BY <1>2, ListIs
<1> DEFINE m == PutId(WithBody(body), ids[k])
<1>4. PICK b \in Seq(Byte) : m = WithBody(b) /\ Len(b) = Len(body) + IdBytes
  BY <1>1, IdComesBack
<1>5. Has(m, IdBytes) /\ Number(Last(m, IdBytes)) = ids[k] /\ Drop(m, IdBytes) = WithBody(body)
  BY <1>1, IdComesBack
<1>6. m.body = b /\ WithBody(body).body = body
  BY <1>4, BodyTyped
<1> HIDE DEF m
<1>7. QED
  BY <1>2, <1>3, <1>4, <1>5, <1>6 DEF m

LEMMA ListLength ==
  ASSUME NEW ids \in Seq(Id), NEW k \in 0 .. Len(ids)
  PROVE  Len(ListOf(ids)[k].body) = k * IdBytes
<1> DEFINE n == Len(ids)
           l(j) == Len(ListOf(ids)[j].body)
           S == {j \in 0 .. n : l(j) = j * IdBytes}
<1>1. n \in Nat /\ IdBytes \in Nat
  BY CodecAssumption
<1>2. 0 \in S
  <2>1. l(0) = 0
    BY ListIs DEF NoBody
  <2>2. QED
    BY <1>1, <2>1
<1>3. \A j \in 1 .. n : l(j) = l(j - 1) + IdBytes
  BY ListComesApart
<1> HIDE DEF l
<1>4. ASSUME NEW j \in 1 .. n, j - 1 \in S
      PROVE  j \in S
  <2>1. l(j - 1) = (j - 1) * IdBytes /\ l(j) = l(j - 1) + IdBytes
    BY <1>3, <1>4
  <2>2. \A x \in Nat : (j - 1) * x + x = j * x
    OBVIOUS
  <2>3. QED
    BY <1>1, <2>1, <2>2
<1>5. 0 .. n \subseteq S
  <2> HIDE DEF S, n
  <2>1. QED
    BY <1>1, <1>2, <1>4, BoundedInduction
<1>6. QED
  BY <1>5 DEF l

-----------------------------------------------------------------------------
(* The inductive invariant *)

\* line asked for a chat with an id
Asked == line \in Lines /\ line.word = "ConnectTo" /\ ~ Throws(AfterFirstSpace(line))
IdAsked == Stoul(AfterFirstSpace(line))

Phases == SimplePhases \cup {"prompt", "Blank", "request", "request shown", "text", "text shown",
                             "list", "list shown"}

\* nothing was put, or all of it was taken
AllTaken == phase \notin {"request", "text", "list"} => msg = NoBody

\* The body is that of the message that was sent, without what the handler took.
RequestInv ==
  /\ phase = "request" => Asked /\ msg = PutId(NoBody, IdAsked)
  /\ phase = "request shown" => Asked /\ shown = <<IdAsked>>
TextInv ==
  /\ phase \in {"text", "text shown"} => put \in Texts
  /\ phase = "text" => msg = PutText(NoBody, put)
  /\ phase = "text shown" => shown = put
ListInv ==
  /\ phase \in {"list", "list shown"} => put \in Lists
  /\ phase = "list" =>
       i \in 0 .. Len(put) /\ msg = ListOf(put)[i] /\ shown = SubSeq(put, i + 1, Len(put))
  /\ phase = "list shown" => shown = put

\* What is not shown yet shows nothing, and a command turned down was not a number.
NotShown == phase \notin {"request shown", "text shown", "list", "list shown"} => shown = <<>>
TurnedDown ==
  phase = "Blank" /\ line.word = "ConnectTo" => line \in Lines /\ Throws(AfterFirstSpace(line))

IInv ==
  /\ phase \in Phases
  /\ line \in Lines \cup {NoLine}
  /\ put \in Texts \cup Lists
  /\ i \in 0 .. MaxIds
  /\ AllTaken /\ RequestInv /\ TextInv /\ ListInv /\ NotShown /\ TurnedDown

LEMMA TextsAre ==
  /\ \A t : t \in Texts <=> t \in Seq(Byte) /\ Len(t) <= MaxText
  /\ \A l : l \in Lists <=> l \in Seq(Id) /\ Len(l) <= MaxIds
<1>1. MaxText \in Nat /\ MaxIds \in Nat
  BY ConsoleAssumption
<1>2. ASSUME NEW S, NEW w \in Nat, NEW t
      PROVE  t \in UNION {[1 .. n -> S] : n \in 0 .. w} <=> t \in Seq(S) /\ Len(t) <= w
  <2>1. ASSUME t \in UNION {[1 .. n -> S] : n \in 0 .. w}
        PROVE  t \in Seq(S) /\ Len(t) <= w
    <3>1. PICK n \in 0 .. w : t \in [1 .. n -> S]
      BY <2>1
    <3>2. t \in Seq(S) /\ Len(t) = n
      BY <3>1
    <3>3. QED
      BY <3>2
  <2>2. ASSUME t \in Seq(S), Len(t) <= w
        PROVE  t \in UNION {[1 .. n -> S] : n \in 0 .. w}
    <3>1. Len(t) \in 0 .. w /\ t \in [1 .. Len(t) -> S]
      BY <2>2
    <3>2. QED
      BY <3>1
  <2>3. QED
    BY <2>1, <2>2
<1>3. QED
  BY <1>1, <1>2 DEF Texts, Lists

LEMMA InitInv == Init => IInv
<1> SUFFICES ASSUME Init PROVE IInv
  OBVIOUS
<1>1. <<>> \in Texts
  <2>1. MaxText \in Nat
    BY ConsoleAssumption
  <2>2. <<>> \in Seq(Byte) /\ Len(<<>>) <= MaxText
    BY <2>1
  <2>3. QED
    BY <2>2, TextsAre
<1>2. 0 \in 0 .. MaxIds
  <2>1. MaxIds \in Nat
    BY ConsoleAssumption
  <2>2. QED
    BY <2>1
<1>3. phase = "prompt" /\ line = NoLine /\ put = <<>> /\ msg = NoBody /\ i = 0 /\ shown = <<>>
  BY DEF Init
<1>4. phase \in Phases
  BY <1>3 DEF Phases
<1>5. AllTaken /\ RequestInv /\ TextInv /\ ListInv /\ NotShown /\ TurnedDown
  BY <1>3 DEF AllTaken, RequestInv, TextInv, ListInv, NotShown, TurnedDown
<1>6. QED
  BY <1>1, <1>2, <1>3, <1>4, <1>5 DEF IInv

LEMMA TypeLineStep ==
  ASSUME IInv, NEW l \in Lines, TypeLine(l)
  PROVE  IInv'
<1> DEFINE c == StrToCommand(l)
<1>1. /\ c.prefix \in SimplePhases \cup {"ConnectTo", "Blank"}
      /\ c.prefix = "ConnectTo" => /\ l.word = "ConnectTo" /\ ~ Throws(AfterFirstSpace(l))
                                   /\ c.id = Stoul(AfterFirstSpace(l))
      /\ c.prefix = "Blank" /\ l.word = "ConnectTo" => Throws(AfterFirstSpace(l))
  BY CommandIs
<1>2. /\ line' = l /\ put' = put /\ i' = i /\ phase = "prompt" /\ shown' = shown
      /\ c.prefix = "ConnectTo" => phase' = "request" /\ msg' = PutId(NoBody, c.id)
      /\ c.prefix # "ConnectTo" => phase' = c.prefix /\ msg' = NoBody
  BY DEF TypeLine, Sent
<1> HIDE DEF c
<1>3. shown' = <<>>
  BY <1>2 DEF IInv, NotShown
<1>4. put' \in Texts \cup Lists /\ i' \in 0 .. MaxIds /\ line' \in Lines
  BY <1>2 DEF IInv
<1>5. CASE c.prefix = "ConnectTo"
  <2>1. /\ phase' = "request" /\ l.word = "ConnectTo" /\ ~ Throws(AfterFirstSpace(l))
        /\ msg' = PutId(NoBody, Stoul(AfterFirstSpace(l)))
    BY <1>1, <1>2, <1>5
  <2>2. RequestInv'
    BY <1>2, <1>4, <2>1 DEF RequestInv, Asked, IdAsked
  <2>3. phase' \in Phases /\ AllTaken' /\ TextInv' /\ ListInv' /\ NotShown' /\ TurnedDown'
    BY <1>3, <2>1 DEF Phases, AllTaken, TextInv, ListInv, NotShown, TurnedDown
  <2>4. QED
    BY <1>4, <2>2, <2>3 DEF IInv
<1>6. CASE c.prefix # "ConnectTo"
  <2>1. phase' \in SimplePhases \cup {"Blank"} /\ msg' = NoBody
    BY <1>1, <1>2, <1>6
  <2>2. phase' = "Blank" /\ l.word = "ConnectTo" => Throws(AfterFirstSpace(l))
    BY <1>1, <1>2, <1>6
  <2>3. TurnedDown'
    BY <1>2, <2>2 DEF TurnedDown
  <2>4. phase' \in Phases /\ AllTaken' /\ RequestInv' /\ TextInv' /\ ListInv' /\ NotShown'
    BY <1>3, <2>1 DEF SimplePhases, Phases, AllTaken, RequestInv, TextInv, ListInv, NotShown
  <2>5. QED
    BY <1>4, <2>3, <2>4 DEF IInv
<1>7. QED
  BY <1>5, <1>6

LEMMA TypeTextStep ==
  ASSUME IInv, NEW text \in Texts, TypeText(text)
  PROVE  IInv'
<1>1. /\ phase = "prompt" /\ phase' = "text" /\ put' = text /\ msg' = PutText(NoBody, text)
      /\ line' = line /\ i' = i /\ shown' = shown
  BY DEF TypeText, Sent
<1>2. shown' = <<>> /\ line' \in Lines \cup {NoLine} /\ i' \in 0 .. MaxIds
  BY <1>1 DEF IInv, NotShown
<1>3. /\ phase' \in Phases /\ AllTaken' /\ RequestInv' /\ TextInv' /\ ListInv'
      /\ NotShown' /\ TurnedDown'
  BY <1>1, <1>2 DEF Phases, AllTaken, RequestInv, TextInv, ListInv, NotShown, TurnedDown
<1>4. QED
  BY <1>1, <1>2, <1>3 DEF IInv

LEMMA SendListStep ==
  ASSUME IInv, NEW ids \in Lists, SendList(ids)
  PROVE  IInv'
<1> DEFINE n == Len(ids)
           m == ListOf(ids)[n]
<1>1. ids \in Seq(Id) /\ n \in Nat /\ n <= MaxIds /\ n \in 0 .. n
  BY TextsAre
<1>2. /\ phase = "prompt" /\ phase' = "list" /\ put' = ids /\ msg' = m
      /\ line' = line /\ i' = Len(m.body) \div IdBytes /\ shown' = shown
  BY DEF SendList, Sent, ListOf
<1>3. i' = n
  <2>1. Len(m.body) = n * IdBytes
    BY <1>1, ListLength
  <2>2. \A x \in Nat, w \in Nat \ {0} : (x * w) \div w = x
    OBVIOUS
  <2>3. IdBytes \in Nat \ {0}
    BY CodecAssumption
  <2> HIDE DEF m, n
  <2>4. QED
    BY <1>1, <1>2, <2>1, <2>2, <2>3
<1>4. shown' = SubSeq(ids, n + 1, n)
  <2>1. shown' = <<>>
    BY <1>2 DEF IInv, NotShown
  <2>2. n \in Int /\ n + 1 \in Int /\ n < n + 1
    BY <1>1
  <2> HIDE DEF n
  <2>3. SubSeq(ids, n + 1, n) = <<>>
    BY <2>2, SubSeqEmpty
  <2>4. QED
    BY <2>1, <2>3
<1>5. ListInv'
  BY <1>1, <1>2, <1>3, <1>4 DEF ListInv
<1>6. line' \in Lines \cup {NoLine} /\ i' \in 0 .. MaxIds
  BY <1>1, <1>2, <1>3 DEF IInv
<1>7. /\ phase' \in Phases /\ AllTaken' /\ RequestInv' /\ TextInv'
      /\ NotShown' /\ TurnedDown'
  BY <1>2 DEF Phases, AllTaken, RequestInv, TextInv, NotShown, TurnedDown
<1>8. QED
  BY <1>2, <1>5, <1>6, <1>7 DEF IInv

LEMMA ReadRequestStep ==
  ASSUME IInv, ReadRequest
  PROVE  IInv'
<1>1. phase = "request" /\ Asked /\ msg = PutId(NoBody, IdAsked)
  BY DEF IInv, RequestInv, ReadRequest
<1>2. IdAsked \in Id
  BY <1>1, AskedIsId DEF Asked, IdAsked
<1>3. Has(msg, IdBytes) /\ Number(Last(msg, IdBytes)) = IdAsked /\ Drop(msg, IdBytes) = NoBody
  BY <1>1, <1>2, NoBodyIs, IdComesBack
<1>4. /\ shown' = <<IdAsked>> /\ msg' = NoBody /\ phase' = "request shown"
      /\ line' = line /\ put' = put /\ i' = i
  BY <1>3 DEF ReadRequest
<1>5. IdAsked' = IdAsked /\ Asked'
  BY <1>1, <1>4 DEF IdAsked, Asked
<1>6. /\ phase' \in Phases /\ AllTaken' /\ RequestInv' /\ TextInv' /\ ListInv'
      /\ NotShown' /\ TurnedDown'
  BY <1>4, <1>5 DEF Phases, AllTaken, RequestInv, TextInv, ListInv, NotShown, TurnedDown
<1>7. QED
  BY <1>4, <1>6 DEF IInv

(* A text that was put is complete in the body.                            *)
LEMMA TextFacts ==
  ASSUME NEW text \in Texts
  PROVE  LET m == PutText(NoBody, text) IN
           /\ \E b \in Seq(Byte) : m = WithBody(b) /\ Len(b) = Len(text) + LengthBytes
           /\ HasText(m) /\ TextOf(m) = text /\ WithoutText(m) = NoBody
<1>1. text \in Seq(Byte) /\ Len(text) <= MaxText
  BY TextsAre
<1>2. Len(text) < Power(Base, LengthBytes)
  <2>1. MaxText < Power(Base, LengthBytes) /\ MaxText \in Nat /\ LengthBytes \in Nat
    BY ConsoleAssumption, CodecAssumption DEF TextFits
  <2>2. Power(Base, LengthBytes) \in Nat
    BY <2>1, BaseFacts, PowerFacts
  <2>3. Len(text) \in Nat
    BY <1>1
  <2>4. QED
    BY <1>1, <2>1, <2>2, <2>3
<1>3. QED
  BY <1>1, <1>2, TextComesBack

LEMMA ReadTextStep ==
  ASSUME IInv, ReadText
  PROVE  IInv'
<1>1. phase = "text" /\ put \in Texts /\ msg = PutText(NoBody, put)
  BY DEF IInv, TextInv, ReadText
<1>2. HasText(msg) /\ TextOf(msg) = put /\ WithoutText(msg) = NoBody
  BY <1>1, TextFacts
<1>3. /\ shown' = put /\ msg' = NoBody /\ phase' = "text shown"
      /\ line' = line /\ put' = put /\ i' = i
  BY <1>2 DEF ReadText
<1>4. /\ phase' \in Phases /\ AllTaken' /\ RequestInv' /\ TextInv' /\ ListInv'
      /\ NotShown' /\ TurnedDown'
  BY <1>1, <1>3 DEF Phases, AllTaken, RequestInv, TextInv, ListInv, NotShown, TurnedDown
<1>5. QED
  BY <1>3, <1>4 DEF IInv

LEMMA ReadListStep ==
  ASSUME IInv, ReadList
  PROVE  IInv'
<1> DEFINE n == Len(put)
<1>1. /\ phase = "list" /\ put \in Lists /\ i \in 0 .. n
      /\ msg = ListOf(put)[i] /\ shown = SubSeq(put, i + 1, n)
  BY DEF IInv, ListInv, ReadList
<1>2. put \in Seq(Id) /\ n \in Nat /\ n <= MaxIds
  BY <1>1, TextsAre
<1>3. CASE i = 0
  <2>1. /\ phase' = "list shown" /\ line' = line /\ put' = put /\ msg' = msg
        /\ i' = i /\ shown' = shown
    BY <1>1, <1>3 DEF ReadList
  <2>2. shown = put
    BY <1>1, <1>2, <1>3, SubSeqFull
  <2>3. msg = NoBody
    BY <1>1, <1>2, <1>3, ListIs
  <2>4. /\ phase' \in Phases /\ AllTaken' /\ RequestInv' /\ TextInv' /\ ListInv'
        /\ NotShown' /\ TurnedDown'
    BY <1>1, <2>1, <2>2, <2>3
       DEF Phases, AllTaken, RequestInv, TextInv, ListInv, NotShown, TurnedDown
  <2>5. QED
    BY <2>1, <2>4 DEF IInv
<1>4. CASE i # 0
  <2>1. i \in 1 .. n /\ i - 1 \in 0 .. n /\ n \in i .. n
    BY <1>1, <1>2, <1>4
  <2>2. /\ Has(msg, IdBytes) /\ Number(Last(msg, IdBytes)) = put[i]
        /\ Drop(msg, IdBytes) = ListOf(put)[i - 1]
    BY <1>1, <1>2, <2>1, ListComesApart
  <2>3. /\ phase' = "list" /\ line' = line /\ put' = put /\ msg' = ListOf(put)[i - 1]
        /\ i' = i - 1 /\ shown' = <<put[i]>> \o shown
    BY <1>1, <1>4, <2>2 DEF ReadList, Printed
  <2>4. shown' = SubSeq(put, i, n)
    <3>1. SubSeq(put, i, n) = <<put[i]>> \o SubSeq(put, i + 1, n)
      BY <1>2, <2>1, SubSeqRecursiveFirst
    <3>2. QED
      BY <1>1, <2>3, <3>1
  <2>5. i' + 1 = i
    BY <2>1, <2>3
  <2>6. ListInv'
    BY <1>1, <2>1, <2>3, <2>4, <2>5 DEF ListInv
  <2>7. i' \in 0 .. MaxIds
    <3>1. MaxIds \in Nat
      BY ConsoleAssumption
    <3>2. QED
      BY <1>2, <2>1, <2>3, <3>1
  <2>8. phase' \in Phases /\ AllTaken' /\ RequestInv' /\ TextInv' /\ NotShown' /\ TurnedDown'
    BY <2>3 DEF Phases, AllTaken, RequestInv, TextInv, NotShown, TurnedDown
  <2>9. QED
    BY <2>3, <2>6, <2>7, <2>8 DEF IInv
<1>5. QED
  BY <1>3, <1>4

LEMMA StepInv == IInv /\ [Next]_vars => IInv'
<1> SUFFICES ASSUME IInv, [Next]_vars PROVE IInv'
  OBVIOUS
<1>1. ASSUME NEW l \in Lines, TypeLine(l) PROVE IInv'
  BY <1>1, TypeLineStep
<1>2. ASSUME NEW text \in Texts, TypeText(text) PROVE IInv'
  BY <1>2, TypeTextStep
<1>3. ASSUME NEW ids \in Lists, SendList(ids) PROVE IInv'
  BY <1>3, SendListStep
<1>4. CASE ReadRequest
  BY <1>4, ReadRequestStep
<1>5. CASE ReadText
  BY <1>5, ReadTextStep
<1>6. CASE ReadList
  BY <1>6, ReadListStep
<1>7. CASE UNCHANGED vars
  BY <1>7 DEF vars, IInv, AllTaken, RequestInv, TextInv, ListInv, NotShown, TurnedDown,
              Asked, IdAsked
<1>8. QED
  BY <1>1, <1>2, <1>3, <1>4, <1>5, <1>6, <1>7 DEF Next

(* The invariant of a line, a text or a list on its way through main, the  *)
(* codec and the handler.                                                  *)
THEOREM Invariance == Spec => []IInv
<1>1. QED
  BY InitInv, StepInv, PTL DEF Spec

-----------------------------------------------------------------------------
(* What follows from it *)

LEMMA BodyFits ==
  ASSUME IInv
  PROVE  \E b \in Seq(Byte) : msg = WithBody(b) /\ Len(b) < Power(Base, IdBytes)
<1> DEFINE P == Power(Base, IdBytes)
<1>1. P \in Nat /\ IdBytes \in Nat \ {0} /\ IdBytes < P
  BY BaseFacts, CodecAssumption, PowerFacts, PowerExceeds
<1>2. CASE phase \notin {"request", "text", "list"}
  <2>1. msg = WithBody(<<>>) /\ <<>> \in Seq(Byte)
    BY <1>2, NoBodyIs DEF IInv, AllTaken
  <2>2. Len(<<>>) < P
    BY <1>1
  <2>3. QED
    BY <2>1, <2>2
<1>3. CASE phase = "request"
  <2>1. Asked /\ msg = PutId(NoBody, IdAsked)
    BY <1>3 DEF IInv, RequestInv
  <2>2. IdAsked \in Id
    BY <2>1, AskedIsId DEF Asked, IdAsked
  <2>3. PICK b \in Seq(Byte) : msg = WithBody(b) /\ Len(b) = Len(<<>>) + IdBytes
    BY <2>1, <2>2, NoBodyIs, IdComesBack
  <2>4. Len(b) = IdBytes
    BY <1>1, <2>3
  <2>5. QED
    BY <1>1, <2>3, <2>4
<1>4. CASE phase = "text"
  <2>1. put \in Texts /\ msg = PutText(NoBody, put)
    BY <1>4 DEF IInv, TextInv
  <2>2. PICK b \in Seq(Byte) : msg = WithBody(b) /\ Len(b) = Len(put) + LengthBytes
    BY <2>1, TextFacts
  <2>3. Len(put) \in Nat /\ Len(put) <= MaxText
    BY <2>1, TextsAre
  <2>4. MaxText \in Nat /\ LengthBytes \in Nat /\ MaxText + LengthBytes < P
    BY ConsoleAssumption, CodecAssumption DEF TextFits
  <2>5. Len(put) + LengthBytes < P
    BY <1>1, <2>3, <2>4
  <2>6. QED
    BY <2>2, <2>5
<1>5. CASE phase = "list"
  <2>1. put \in Lists /\ i \in 0 .. Len(put) /\ msg = ListOf(put)[i]
    BY <1>5 DEF IInv, ListInv
  <2>2. put \in Seq(Id) /\ Len(put) \in Nat /\ Len(put) <= MaxIds
    BY <2>1, TextsAre
  <2>3. PICK b \in Seq(Byte) : msg = WithBody(b)
    BY <2>1, <2>2, ListIs DEF Bodied
  <2>4. Len(b) = i * IdBytes
    BY <2>1, <2>2, <2>3, BodyTyped, ListLength
  <2>5. MaxIds \in Nat /\ MaxIds * IdBytes < P /\ i \in Nat /\ i <= MaxIds
    <3>1. MaxIds \in Nat /\ MaxIds * IdBytes < P
      BY ConsoleAssumption DEF ListFits
    <3>2. QED
      BY <2>1, <2>2, <3>1
  <2>6. i * IdBytes <= MaxIds * IdBytes /\ i * IdBytes \in Nat /\ MaxIds * IdBytes \in Nat
    <3>1. \A x, y, w \in Nat : x <= y => x * w <= y * w /\ x * w \in Nat /\ y * w \in Nat
      OBVIOUS
    <3>2. QED
      BY <1>1, <2>5, <3>1
  <2> HIDE DEF P
  <2>7. Len(b) < P
    BY <1>1, <2>4, <2>5, <2>6
  <2>8. QED
    BY <2>3, <2>7 DEF P
<1>6. QED
  BY <1>2, <1>3, <1>4, <1>5

LEMMA ShownTyped ==
  ASSUME IInv
  PROVE  shown \in Texts \cup Lists \cup [1 .. 1 -> Id]
<1>1. CASE phase = "request shown"
  <2>1. Asked /\ shown = <<IdAsked>>
    BY <1>1 DEF IInv, RequestInv
  <2>2. IdAsked \in Id
    BY <2>1, AskedIsId DEF Asked, IdAsked
  <2>3. QED
    BY <2>1, <2>2
<1>2. CASE phase \in {"text shown", "list shown"}
  BY <1>2 DEF IInv, TextInv, ListInv
<1>3. CASE phase = "list"
  <2>1. put \in Lists /\ i \in 0 .. Len(put) /\ shown = SubSeq(put, i + 1, Len(put))
    BY <1>3 DEF IInv, ListInv
  <2>2. put \in Seq(Id) /\ Len(put) \in Nat /\ Len(put) <= MaxIds
    BY <2>1, TextsAre
  <2>3. shown \in Seq(Id) /\ Len(shown) = Len(put) - i
    BY <2>1, <2>2, SkipFacts DEF Skip
  <2>4. MaxIds \in Nat
    BY ConsoleAssumption
  <2>5. Len(shown) <= MaxIds
    BY <2>1, <2>2, <2>3, <2>4
  <2>6. QED
    BY <2>3, <2>5, TextsAre
<1>4. CASE phase \notin {"request shown", "text shown", "list", "list shown"}
  <2>1. shown = <<>>
    BY <1>4 DEF IInv, NotShown
  <2>2. <<>> \in Seq(Byte) /\ Len(<<>>) = 0 /\ MaxText \in Nat
    <3>1. MaxText \in Nat
      BY ConsoleAssumption
    <3>2. QED
      BY <3>1
  <2>3. <<>> \in Texts
    <3>1. Len(<<>>) <= MaxText
      BY <2>2
    <3>2. QED
      BY <2>2, <3>1, TextsAre
  <2>4. QED
    BY <2>1, <2>3
<1>5. QED
  BY <1>1, <1>2, <1>3, <1>4

(* Types: the phases, the lines, texts and ids put, the message's header   *)
(* and body, the loop's count and what is shown.                           *)
THEOREM TypeCorrect == Spec => []TypeOK
<1>1. ASSUME IInv
      PROVE  TypeOK
  <2>1. msg \in [size : Id, body : Seq(Byte)]
    BY <1>1, BodyFits, BodyTyped
  <2>2. shown \in Texts \cup Lists \cup [1 .. 1 -> Id]
    BY <1>1, ShownTyped
  <2>3. QED
    BY <1>1, <2>1, <2>2 DEF IInv, TypeOK, Phases, SimplePhases
<1>2. QED
  BY <1>1, Invariance, PTL

(* body.size() - sizeof never wraps around: no handler takes more from a   *)
(* body than operator<< put there, however long the text or the list.      *)
THEOREM NeverUnderflows == Spec => []NoUnderflow
<1>1. ASSUME IInv
      PROVE  NoUnderflow
  BY <1>1 DEF IInv, NoUnderflow, Phases, SimplePhases
<1>2. QED
  BY <1>1, Invariance, PTL

(* What the server looks up is the number after ConnectTo, and the text    *)
(* and the client list a handler shows are those that were sent.           *)
THEOREM ArrivesAsTyped == Spec => []ShownAsTyped
<1>1. ASSUME IInv
      PROVE  ShownAsTyped
  <2>1. ASSUME phase = "request shown",
               NEW n \in 0 .. Power(10, Len(line.rest)), IsNumber(Tail(line.rest), n)
        PROVE  shown = <<n>>
    <3>1. Asked /\ shown = <<IdAsked>>
      BY <1>1, <2>1 DEF IInv, RequestInv
    <3>2. line.rest # <<>>
      BY <3>1, ArgumentIs DEF Asked
    <3>3. AfterFirstSpace(line) = Tail(line.rest) /\ Tail(line.rest) \in Seq(STRING)
      BY <3>1, <3>2, ArgumentIs DEF Asked
    <3>4. Sign(Tail(line.rest)) # "-" /\ Decimal(Digits(Tail(line.rest))) = n
      <4>1. n \in Nat
        OBVIOUS
      <4>2. QED
        BY <2>1, <3>3, <4>1, NumberIsRead
    <3>5. QED
      BY <3>1, <3>3, <3>4 DEF IdAsked, Stoul
  <2>2. phase \in {"text shown", "list shown"} => shown = put /\ msg = NoBody
    BY <1>1 DEF IInv, TextInv, ListInv, AllTaken
  <2>3. QED
    BY <2>1, <2>2 DEF ShownAsTyped
<1>2. QED
  BY <1>1, Invariance, PTL

(* StrToCommand does not turn down a ConnectTo whose argument is a number  *)
(* that an id can hold.                                                    *)
THEOREM NumbersAreAccepted == Spec => []NumberIsAccepted
<1>1. ASSUME IInv
      PROVE  NumberIsAccepted
  <2>1. SUFFICES ASSUME phase = "Blank", line.word = "ConnectTo", line.rest # <<>>,
                        NEW n \in Id, IsNumber(Tail(line.rest), n)
                 PROVE  FALSE
    BY DEF NumberIsAccepted
  <2>2. line \in Lines /\ Throws(AfterFirstSpace(line))
    BY <1>1, <2>1 DEF IInv, TurnedDown
  <2>3. AfterFirstSpace(line) = Tail(line.rest) /\ Tail(line.rest) \in Seq(STRING)
    BY <2>1, <2>2, ArgumentIs
  <2>4. n \in Nat /\ ~ (n >= Modulus)
    <3>1. Id = 0 .. Modulus - 1
      BY ConsoleAssumption DEF Id, IdsFit
    <3>2. Modulus \in Nat
      BY ModulusAssumption
    <3>3. QED
      BY <3>1, <3>2
  <2>5. Digits(Tail(line.rest)) # <<>> /\ Decimal(Digits(Tail(line.rest))) = n
    BY <2>1, <2>3, <2>4, NumberIsRead
  <2>6. QED
    BY <2>2, <2>3, <2>4, <2>5 DEF Throws
<1>2. QED
  BY <1>1, Invariance, PTL
=============================================================================
