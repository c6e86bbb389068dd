------------------------- MODULE OrderHistoryProofs -------------------------
(***************************************************************************)
(* The history, for any number of orders and entries and for fractions of  *)
(* any number of digits.                                                   *)
(*                                                                         *)
(* What is read back rests on three facts about texts: a text gives the    *)
(* instant back, of two texts of one order one is below the other, and a   *)
(* finite table can be listed in that order.                               *)
(***************************************************************************)
EXTENDS OrderHistory, FiniteSetTheorems, WellFoundedInduction, TLAPS

LEMMA Bounds ==
  Base \in Nat /\ Base >= 2 /\ Base <= 10 /\ Places \in Nat /\ MaxSeconds \in Nat
BY HistoryAssumption

-----------------------------------------------------------------------------
(* Recurrences *)

LEMMA LeastNumber ==
  ASSUME NEW T, T \subseteq Nat, T # {}
  PROVE  \E n \in T : \A m \in T : n <= m
<1> DEFINE R == {ss \in Nat \X Nat : ss[1] < ss[2]}
<1>1. IsWellFoundedOn(R, Nat)
  BY NatLessThanWellFounded DEF OpToRel
<1> HIDE DEF R
<1>2. PICK n \in T : \A m \in T : <<m, n>> \notin R
  BY <1>1, WFMin, Zenon
<1>3. ASSUME NEW m \in T PROVE n <= m
  <2>1. n \in Nat /\ m \in Nat /\ ~(<<m, n>> \in R)
    BY <1>2
  <2>2. <<m, n>> \in Nat \X Nat /\ <<m, n>>[1] = m /\ <<m, n>>[2] = n
    BY <2>1
  <2>3. ~(m < n)
    BY <2>1, <2>2 DEF R
  <2> QED  BY <2>1, <2>3
<1> QED  BY <1>3

LEMMA ReadOne ==
  ASSUME NEW read \in Nat, NEW digit \in Nat
  PROVE  Base * read + digit \in Nat
BY Bounds

\* f reads one digit after the other, the first being first.
Reads(f, first, digit, n) ==
  f[0] = first /\ \A k \in 1..n : f[k] = Base * f[k - 1] + digit[k]

LEMMA ReadsExist ==
  ASSUME NEW n \in Nat, NEW first \in Nat, NEW digit, \A k \in 1..n : digit[k] \in Nat
  PROVE  \E f \in [0..n -> Nat] : Reads(f, first, digit, n)
<1> DEFINE Found(m) == \E f \in [0..m -> Nat] : Reads(f, first, digit, m)
           Open == {m \in 0..n : ~Found(m)}
<1>1. Found(0)
  <2>1. /\ [k \in 0..0 |-> first] \in [0..0 -> Nat]
        /\ Reads([k \in 0..0 |-> first], first, digit, 0)
    BY DEF Reads
  <2> QED  BY <2>1
<1>2. ASSUME NEW m \in 1..n, Found(m - 1)
      PROVE  Found(m)
  <2>1. PICK f \in [0..(m - 1) -> Nat] : Reads(f, first, digit, m - 1)
    BY <1>2
  <2> DEFINE g == [k \in 0..m |-> IF k = m THEN Base * f[m - 1] + digit[m] ELSE f[k]]
  <2>2. Base * f[m - 1] + digit[m] \in Nat
    <3>1. f[m - 1] \in Nat /\ digit[m] \in Nat
      BY <2>1
    <3> QED  BY <3>1, ReadOne
  <2>3. g \in [0..m -> Nat]
    BY <2>1, <2>2
  <2>4. Reads(g, first, digit, m)
    <3>1. g[0] = first
      BY <2>1 DEF Reads
    <3>2. g[m] = Base * g[m - 1] + digit[m]
      BY <2>1
    <3>3. ASSUME NEW k \in 1..(m - 1)
          PROVE  g[k] = Base * g[k - 1] + digit[k]
      <4>1. g[k] = f[k] /\ g[k - 1] = f[k - 1] /\ f[k] = Base * f[k - 1] + digit[k]
        BY <2>1 DEF Reads
      <4> QED  BY <4>1
    <3> HIDE DEF g
    <3>4. ASSUME NEW k \in 1..m PROVE g[k] = Base * g[k - 1] + digit[k]
      <4>1. k = m \/ k \in 1..(m - 1)
        OBVIOUS
      <4> QED  BY <3>2, <3>3, <4>1
    <3> QED  BY <3>1, <3>4 DEF Reads
  <2> QED  BY <2>3, <2>4
<1> HIDE DEF Found
<1>3. Open = {}
  <2> SUFFICES ASSUME Open # {} PROVE FALSE
    OBVIOUS
  <2>1. Open \subseteq Nat
    OBVIOUS
  <2>2. PICK m \in Open : \A k \in Open : m <= k
    BY <2>1, LeastNumber, Zenon
  <2>3. m \in 1..n /\ m - 1 \in 0..n
    BY <1>1, <2>2
  <2>4. m - 1 \notin Open
    BY <2>2, <2>3
  <2> QED  BY <1>2, <2>2, <2>3, <2>4
<1> QED  BY <1>3 DEF Found

LEMMA Powers ==
  /\ \A k \in 0..Places : Power[k] \in Nat /\ Power[k] > 0
  /\ Power[0] = 1
  /\ \A k \in 1..Places : Power[k] = Base * Power[k - 1]
<1> DEFINE digit == [k \in 1..Places |-> 0]
<1>1. Places \in Nat /\ 1 \in Nat /\ \A k \in 1..Places : digit[k] \in Nat /\ digit[k] = 0
  BY Bounds
<1>2. PICK f \in [0..Places -> Nat] : Reads(f, 1, digit, Places)
  BY <1>1, ReadsExist
<1>3. f = [k \in 0..Places |-> IF k = 0 THEN 1 ELSE Base * f[k - 1]]
  <2>1. f[0] = 1 /\ \A k \in 1..Places : f[k] = Base * f[k - 1]
    <3>1. \A k \in 1..Places : f[k - 1] \in Nat
      BY Bounds
    <3> QED  BY <1>1, <1>2, <3>1, Bounds DEF Reads
  <2> QED  BY <2>1, Bounds
<1>4. Power = [k \in 0..Places |-> IF k = 0 THEN 1 ELSE Base * Power[k - 1]]
  BY <1>3 DEF Power
<1>5. Power[0] = 1 /\ \A k \in 1..Places : Power[k] = Base * Power[k - 1]
  BY <1>4, Bounds
<1> DEFINE Wrong == {k \in 0..Places : ~(Power[k] \in Nat /\ Power[k] > 0)}
<1>6. Wrong = {}
  <2> SUFFICES ASSUME Wrong # {} PROVE FALSE
    OBVIOUS
  <2>1. Wrong \subseteq Nat
    BY Bounds
  <2>2. PICK m \in Wrong : \A k \in Wrong : m <= k
    BY <2>1, LeastNumber, Zenon
  <2>3. m \in 1..Places /\ m - 1 \in 0..Places /\ m - 1 \notin Wrong
    BY <1>5, <2>2, Bounds
  <2>4. Power[m] = Base * Power[m - 1] /\ Power[m - 1] \in Nat /\ Power[m - 1] > 0
    BY <1>5, <2>3
  <2> HIDE DEF Wrong
  <2>5. Power[m] \in Nat /\ Power[m] > 0
    BY <2>4, Bounds
  <2> QED  BY <2>2, <2>5 DEF Wrong
<1> QED  BY <1>5, <1>6

-----------------------------------------------------------------------------
(* Digits *)

LEMMA Division ==
  ASSUME NEW n \in Nat, NEW q \in Nat, q > 0
  PROVE  /\ n \div q \in Nat /\ n % q \in 0..(q - 1)
         /\ n = q * (n \div q) + (n % q)
OBVIOUS

LEMMA NestedDivision ==
  ASSUME NEW n \in Nat, NEW q \in Nat, q > 0, NEW b \in Nat, b > 0
  PROVE  (n \div q) \div b = n \div (b * q)
OBVIOUS

\* What the digits up to the k-th read, the second before them.
Prefix(n, k) == n \div Power[Places - k]

LEMMA Digits ==
  ASSUME NEW n \in Nat
  PROVE  /\ Prefix(n, 0) = n \div Second /\ Prefix(n, 0) \in Nat
         /\ Prefix(n, Places) = n
         /\ \A k \in 1..Places :
              /\ Fraction(n)[k] \in 0..9
              /\ Prefix(n, k - 1) \in Nat
              /\ Prefix(n, k) = Base * Prefix(n, k - 1) + Fraction(n)[k]
<1>1. Prefix(n, 0) = n \div Second /\ Prefix(n, 0) \in Nat
  <2>1. Places - 0 = Places /\ Power[Places] \in Nat /\ Power[Places] > 0
    BY Bounds, Powers
  <2> QED  BY <2>1, Division DEF Prefix, Second
<1>2. Prefix(n, Places) = n
  <2>1. Places - Places = 0 /\ n \div 1 = n
    BY Bounds
  <2> QED  BY <2>1, Powers DEF Prefix
<1>3. ASSUME NEW k \in 1..Places
      PROVE  /\ Fraction(n)[k] \in 0..9
             /\ Prefix(n, k - 1) \in Nat
             /\ Prefix(n, k) = Base * Prefix(n, k - 1) + Fraction(n)[k]
  <2> DEFINE q == Power[Places - k]
             w == n \div q
  <2>1. /\ Places - k \in 0..Places /\ Places - k + 1 \in 1..Places
        /\ Places - (k - 1) = Places - k + 1 /\ (Places - k + 1) - 1 = Places - k
    BY Bounds
  <2>2. q \in Nat /\ q > 0 /\ Power[Places - (k - 1)] = Base * q
    BY <2>1, Powers
  <2> HIDE DEF q
  <2>3. w \in Nat
    BY <2>2, Division
  <2>4. w \div Base = n \div (Base * q)
    BY <2>2, NestedDivision, Bounds
  <2>5. Prefix(n, k) = w /\ Prefix(n, k - 1) = w \div Base /\ Fraction(n)[k] = w % Base
    BY <2>2, <2>4 DEF Prefix, Fraction, q
  <2> HIDE DEF w
  <2>6. w \div Base \in Nat /\ w % Base \in 0..(Base - 1) /\ w = Base * (w \div Base) + (w % Base)
    BY <2>3, Division, Bounds
  <2>7. w % Base \in 0..9
    <3>1. \A d \in 0..(Base - 1) : d \in 0..9
      BY Bounds
    <3> QED  BY <2>6, <3>1
  <2> QED  BY <2>5, <2>6, <2>7
<1> QED  BY <1>1, <1>2, <1>3

-----------------------------------------------------------------------------
(* Texts *)

LEMMA TrimmedDigits ==
  ASSUME NEW digits \in [1..Places -> 0..9]
  PROVE  \E m \in 0..Places :
           /\ Trimmed(digits) = [k \in 1..m |-> digits[k]]
           /\ \A k \in (m + 1)..Places : digits[k] = 0
<1> DEFINE Zeros(n) == \A k \in (n + 1)..Places : digits[k] = 0
           Rest == {n \in 0..Places : Zeros(n)}
<1>1. Rest \subseteq Nat /\ Rest # {}
  <2>1. Zeros(Places) /\ Places \in 0..Places
    BY Bounds
  <2> QED  BY <2>1
<1>2. PICK n \in Rest : \A m \in Rest : n <= m
  BY <1>1, LeastNumber, Zenon
<1>3. n = 0 \/ digits[n] # 0
  <2> SUFFICES ASSUME n # 0, digits[n] = 0 PROVE FALSE
    OBVIOUS
  <2>1. n \in 1..Places /\ n - 1 \in 0..Places /\ Zeros(n)
    BY Bounds
  <2>2. Zeros(n - 1)
    BY <2>1, Bounds
  <2> QED  BY <1>2, <2>1, <2>2
<1>4. \E m \in 0..Places : Zeros(m) /\ (m = 0 \/ digits[m] # 0)
  BY <1>3
<1>5. PICK m : /\ m = CHOOSE l \in 0..Places : Zeros(l) /\ (l = 0 \/ digits[l] # 0)
               /\ m \in 0..Places /\ Zeros(m)
  BY <1>4
<1>6. Trimmed(digits) = SubSeq(digits, 1, m)
  BY <1>5 DEF Trimmed
<1>7. SubSeq(digits, 1, m) = [k \in 1..m |-> digits[k]]
  BY <1>5, Bounds
<1> QED  BY <1>5, <1>6, <1>7

\* The text of n: second, point and m digits, "Z"; second and "Z" for m = 0.
Shape(text, n, m) ==
  /\ text \in Seq(Nat) /\ text[1] = n \div Second
  /\ m = 0 => Len(text) = 2 /\ text[2] = Zulu
  /\ m > 0 => /\ Len(text) = m + 3 /\ text[2] = Point /\ text[m + 3] = Zulu
              /\ \A k \in 1..m : text[k + 2] = Zero + Fraction(n)[k]

LEMMA Prepended ==
  ASSUME NEW c \in Nat, NEW t \in Seq(Nat), NEW u, u = <<c>> \o t
  PROVE  /\ u \in Seq(Nat) /\ Len(u) = Len(t) + 1 /\ u[1] = c
         /\ \A k \in 1..Len(t) : u[k + 1] = t[k]
OBVIOUS

LEMMA Appended ==
  ASSUME NEW c \in Nat, NEW t \in Seq(Nat), NEW u, u = t \o <<c>>
  PROVE  /\ u \in Seq(Nat) /\ Len(u) = Len(t) + 1 /\ u[Len(t) + 1] = c
         /\ \A k \in 1..Len(t) : u[k] = t[k]
OBVIOUS

LEMMA FormatShape ==
  ASSUME NEW n \in Nat
  PROVE  \E m \in 0..Places : /\ Shape(Format(n), n, m)
                              /\ \A k \in (m + 1)..Places : Fraction(n)[k] = 0
<1> DEFINE d == Fraction(n)
           second == n \div Second
<1>1. d \in [1..Places -> 0..9]
  <2>1. d = [k \in 1..Places |-> d[k]]
    BY DEF Fraction
  <2> QED  BY <2>1, Digits
<1>2. PICK m \in 0..Places : /\ Trimmed(d) = [k \in 1..m |-> d[k]]
                             /\ \A k \in (m + 1)..Places : d[k] = 0
  BY <1>1, TrimmedDigits
<1>3. second \in Nat
  BY Digits
<1> DEFINE shown == [k \in 1..m |-> d[k]]
           codes == [k \in DOMAIN shown |-> Zero + shown[k]]
           text == <<second>>
                   \o (IF shown = <<>> THEN <<>> ELSE <<Point>> \o codes)
                   \o <<Zulu>>
<1>4. Format(n) = text
  BY <1>2 DEF Format
<1>5. Shape(text, n, m)
  <2> DEFINE tail == IF shown = <<>> THEN <<>> ELSE <<Point>> \o codes
             head == <<second>> \o tail
  <2>1. text = head \o <<Zulu>>
    OBVIOUS
  <2>2. Zulu \in Nat /\ Point \in Nat /\ m \in Nat
    BY Bounds DEF Zulu, Point
  <2>3. CASE m = 0
    <3>1. tail \in Seq(Nat) /\ Len(tail) = 0
      BY <2>3
    <3> HIDE DEF tail, text
    <3>2. head \in Seq(Nat) /\ Len(head) = 1 /\ head[1] = second
      BY <1>3, <3>1, Prepended
    <3> HIDE DEF head, second
    <3>3. text \in Seq(Nat) /\ Len(text) = 2 /\ text[2] = Zulu /\ text[1] = head[1]
      <4>1. /\ text \in Seq(Nat) /\ Len(text) = Len(head) + 1 /\ text[Len(head) + 1] = Zulu
            /\ \A k \in 1..Len(head) : text[k] = head[k]
        <5>1. head \in Seq(Nat)
          BY <3>2
        <5> QED  BY <2>1, <2>2, <5>1, Appended
      <4> QED  BY <3>2, <4>1
    <3> QED  BY <2>3, <3>2, <3>3 DEF Shape, second
  <2>4. CASE m > 0
    <3>1. shown # <<>>
      <4>1. Len(shown) = m
        BY <2>2
      <4> QED  BY <2>2, <2>4, <4>1
    <3>2. codes \in Seq(Nat) /\ Len(codes) = m /\ \A k \in 1..m : codes[k] = Zero + d[k]
      BY <1>1, Bounds DEF Zero
    <3>3. tail = <<Point>> \o codes
      BY <3>1
    <3> HIDE DEF text, second, codes, shown, d, tail
    <3>4. /\ tail \in Seq(Nat) /\ Len(tail) = m + 1 /\ tail[1] = Point
          /\ \A k \in 1..m : tail[k + 1] = codes[k]
      BY <2>2, <3>2, <3>3, Prepended
    <3>5. /\ head \in Seq(Nat) /\ Len(head) = m + 2 /\ head[1] = second
          /\ \A k \in 1..(m + 1) : head[k + 1] = tail[k]
      <4>1. /\ head \in Seq(Nat) /\ Len(head) = Len(tail) + 1 /\ head[1] = second
            /\ \A k \in 1..Len(tail) : head[k + 1] = tail[k]
        BY <1>3, <3>4, Prepended
      <4> HIDE DEF head
      <4> QED  BY <2>2, <3>4, <4>1
    <3> HIDE DEF head
    <3>6. /\ text \in Seq(Nat) /\ Len(text) = m + 3 /\ text[m + 3] = Zulu
          /\ \A k \in 1..(m + 2) : text[k] = head[k]
      <4>1. /\ text \in Seq(Nat) /\ Len(text) = Len(head) + 1 /\ text[Len(head) + 1] = Zulu
            /\ \A k \in 1..Len(head) : text[k] = head[k]
        BY <2>1, <2>2, <3>5, Appended
      <4>2. Len(head) + 1 = m + 3
        BY <2>2, <3>5
      <4> QED  BY <2>2, <3>5, <4>1, <4>2
    <3>7. text[1] = second /\ text[2] = Point
      <4>1. text[1] = head[1] /\ text[2] = head[2] /\ head[1 + 1] = tail[1]
        BY <2>2, <2>4, <3>5, <3>6
      <4> QED  BY <3>4, <3>5, <4>1
    <3>8. ASSUME NEW k \in 1..m PROVE text[k + 2] = codes[k]
      <4>1. k + 1 \in 1..(m + 1) /\ k + 2 \in 1..(m + 2) /\ (k + 1) + 1 = k + 2
        BY <2>2
      <4>2. text[k + 2] = head[k + 2] /\ head[(k + 1) + 1] = tail[k + 1] /\ tail[k + 1] = codes[k]
        BY <3>4, <3>5, <3>6, <4>1
      <4> QED  BY <4>1, <4>2
    <3>9. \A k \in 1..m : text[k + 2] = Zero + Fraction(n)[k]
      BY <3>2, <3>8 DEF d
    <3>10. text[1] = n \div Second
      BY <3>7 DEF second
    <3> QED  BY <2>2, <2>4, <3>6, <3>7, <3>9, <3>10 DEF Shape
  <2> HIDE DEF text, head, tail
  <2> QED  BY <2>2, <2>3, <2>4
<1> QED  BY <1>2, <1>4, <1>5

\* A text gives the instant back.
LEMMA ParseFormat ==
  ASSUME NEW n \in Nat
  PROVE  Parse(Format(n)) = n
<1> DEFINE text == Format(n)
           digit == [k \in 1..Places |-> IF k + 2 < Len(text) THEN text[k + 2] - Zero ELSE 0]
           value == CHOOSE v : v = [k \in 0..Places |->
                      IF k = 0 THEN text[1]
                      ELSE Base * v[k - 1]
                             + (IF k + 2 < Len(text) THEN text[k + 2] - Zero ELSE 0)]
<1>1. Parse(text) = value[Places]
  BY DEF Parse
<1>2. PICK m \in 0..Places : /\ Shape(text, n, m)
                             /\ \A k \in (m + 1)..Places : Fraction(n)[k] = 0
  BY FormatShape
<1> HIDE DEF text
<1>3. text[1] = Prefix(n, 0) /\ text[1] \in Nat
  BY <1>2, Digits DEF Shape
<1>4. \A k \in 1..Places : digit[k] = Fraction(n)[k] /\ digit[k] \in Nat
  <2> SUFFICES ASSUME NEW k \in 1..Places PROVE digit[k] = Fraction(n)[k]
    <3>1. ASSUME NEW k \in 1..Places PROVE Fraction(n)[k] \in Nat
      <4>1. Fraction(n)[k] \in 0..9
        BY Digits
      <4> QED  BY <4>1
    <3> HIDE DEF digit
    <3> QED  BY <3>1
  <2>1. Fraction(n)[k] \in 0..9
    BY Digits
  <2>2. CASE k <= m
    <3>1. m > 0 /\ k \in 1..m
      BY <2>2, Bounds
    <3>2. Len(text) = m + 3 /\ text[k + 2] = Zero + Fraction(n)[k]
      BY <1>2, <3>1 DEF Shape
    <3>3. k + 2 < Len(text)
      BY <2>2, <3>2, Bounds
    <3> QED  BY <2>1, <3>2, <3>3 DEF Zero
  <2>3. CASE k > m
    <3>2. ~(k + 2 < Len(text))
      <4>1. CASE m = 0
        <5>1. Len(text) = 2
          BY <1>2, <4>1 DEF Shape
        <5> QED  BY <5>1, Bounds
      <4>2. CASE m > 0
        BY <1>2, <2>3, <4>2, Bounds DEF Shape
      <4> QED  BY <4>1, <4>2, Bounds
    <3>3. Fraction(n)[k] = 0
      BY <1>2, <2>3, Bounds
    <3> QED  BY <3>2, <3>3
  <2> QED  BY <2>2, <2>3
<1>5. PICK f \in [0..Places -> Nat] : Reads(f, text[1], digit, Places)
  BY <1>3, <1>4, ReadsExist, Bounds
<1>6. f = [k \in 0..Places |->
             IF k = 0 THEN text[1]
             ELSE Base * f[k - 1] + (IF k + 2 < Len(text) THEN text[k + 2] - Zero ELSE 0)]
  <2>1. f[0] = text[1] /\ \A k \in 1..Places : f[k] = Base * f[k - 1] + digit[k]
    BY <1>5 DEF Reads
  <2> QED  BY <2>1, Bounds
<1>7. value = [k \in 0..Places |->
                 IF k = 0 THEN text[1]
                 ELSE Base * value[k - 1]
                        + (IF k + 2 < Len(text) THEN text[k + 2] - Zero ELSE 0)]
  BY <1>6
<1> HIDE DEF value
<1>8. value[0] = text[1] /\ \A k \in 1..Places : value[k] = Base * value[k - 1] + digit[k]
  BY <1>7, Bounds
<1> HIDE DEF digit
<1> DEFINE Wrong == {k \in 0..Places : value[k] # Prefix(n, k)}
<1>9. Wrong = {}
  <2> SUFFICES ASSUME Wrong # {} PROVE FALSE
    OBVIOUS
  <2>1. Wrong \subseteq Nat
    BY Bounds
  <2>2. PICK k \in Wrong : \A l \in Wrong : k <= l
    BY <2>1, LeastNumber, Zenon
  <2>3. k \in 1..Places /\ k - 1 \in 0..Places /\ k - 1 \notin Wrong
    BY <1>3, <1>8, <2>2, Bounds
  <2>4. value[k] = Base * value[k - 1] + digit[k] /\ value[k - 1] = Prefix(n, k - 1)
    BY <1>8, <2>3
  <2>5. Prefix(n, k) = Base * Prefix(n, k - 1) + Fraction(n)[k]
    BY <2>3, Digits
  <2>6. digit[k] = Fraction(n)[k]
    BY <1>4, <2>3
  <2>7. value[k] = Prefix(n, k)
    BY <2>4, <2>5, <2>6
  <2> QED  BY <2>2, <2>7
<1>10. value[Places] = Prefix(n, Places)
  BY <1>9, Bounds
<1> QED  BY <1>1, <1>10, Digits DEF text

\* A text ends with its only "Z", but for a second of that number: none is
\* the beginning of another.
Text(t) ==
  /\ t \in Seq(Nat) /\ Len(t) >= 2 /\ t[Len(t)] = Zulu
  /\ \A k \in 2..(Len(t) - 1) : t[k] # Zulu

LEMMA FormatIsText ==
  ASSUME NEW n \in Nat
  PROVE  Text(Format(n)) /\ Format(n)[1] = n \div Second
<1> DEFINE t == Format(n)
<1>1. PICK m \in 0..Places : Shape(t, n, m)
  BY FormatShape
<1>2. m \in Nat /\ \A k \in 1..m : k \in 1..Places
  BY Bounds
<1> HIDE DEF t
<1>3. CASE m = 0
  <2>1. t \in Seq(Nat) /\ Len(t) = 2 /\ t[2] = Zulu /\ t[1] = n \div Second
    BY <1>1, <1>3 DEF Shape
  <2> QED  BY <2>1 DEF Text, t
<1>4. CASE m > 0
  <2>1. /\ t \in Seq(Nat) /\ Len(t) = m + 3 /\ t[m + 3] = Zulu /\ t[2] = Point
        /\ t[1] = n \div Second
        /\ \A k \in 1..m : t[k + 2] = Zero + Fraction(n)[k]
    BY <1>1, <1>4 DEF Shape
  <2>2. ASSUME NEW k \in 2..(m + 2)
        PROVE  t[k] # Zulu
    <3>1. CASE k = 2
      BY <2>1, <3>1 DEF Point, Zulu
    <3>2. CASE k > 2
      <4>1. k - 2 \in 1..m /\ (k - 2) + 2 = k /\ k - 2 \in 1..Places
        BY <1>2, <3>2
      <4>2. Fraction(n)[k - 2] \in 0..9
        BY <4>1, Digits
      <4>3. t[k] = Zero + Fraction(n)[k - 2]
        BY <2>1, <4>1
      <4> QED  BY <4>2, <4>3 DEF Zero, Zulu
    <3> QED  BY <1>2, <3>1, <3>2
  <2>3. (m + 3) - 1 = m + 2 /\ m + 3 >= 2
    BY <1>2
  <2> QED  BY <2>1, <2>2, <2>3 DEF Text, t
<1> QED  BY <1>2, <1>3, <1>4

LEMMA Numbers ==
  ASSUME NEW a \in Seq(Nat)
  PROVE  /\ Len(a) \in Nat /\ DOMAIN a = 1..Len(a)
         /\ \A k \in DOMAIN a : k \in Nat /\ k >= 1 /\ a[k] \in Nat
<1>1. Len(a) \in Nat /\ DOMAIN a = 1..Len(a)
  OBVIOUS
<1>2. \A k \in 1..Len(a) : a[k] \in Nat
  OBVIOUS
<1> QED  BY <1>1, <1>2

LEMMA BelowIrreflexive ==
  ASSUME NEW a \in Seq(Nat)
  PROVE  ~Below(a, a)
<1>1. \A k \in DOMAIN a : ~(a[k] < a[k])
  <2>1. \A k \in DOMAIN a : a[k] \in Nat
    BY Numbers
  <2> QED  BY <2>1
<1> QED  BY <1>1 DEF Below

\* Texts are compared by their seconds before anything else.
LEMMA FirstDecides ==
  ASSUME NEW a \in Seq(Nat), NEW b \in Seq(Nat), Len(a) >= 2, Len(b) >= 2, Below(a, b)
  PROVE  a[1] <= b[1] /\ a[1] \in Nat /\ b[1] \in Nat
<1>1. 1 \in DOMAIN a /\ 1 \in DOMAIN b
  BY Numbers
<1>2. a[1] \in Nat /\ b[1] \in Nat
  BY <1>1, Numbers
<1>3. PICK k \in DOMAIN a \cap DOMAIN b : a[k] < b[k] /\ \A j \in 1..(k - 1) : a[j] = b[j]
  BY Zenon DEF Below
<1>4. k \in Nat /\ k >= 1
  BY Numbers
<1>5. CASE k = 1
  BY <1>2, <1>3, <1>5
<1>6. CASE k > 1
  <2>1. 1 \in 1..(k - 1)
    BY <1>4, <1>6
  <2> QED  BY <1>2, <1>3, <2>1
<1> QED  BY <1>2, <1>4, <1>5, <1>6

LEMMA BelowTransitive ==
  ASSUME NEW a \in Seq(Nat), NEW b \in Seq(Nat), NEW c \in Seq(Nat), Below(a, b), Below(b, c)
  PROVE  Below(a, c)
<1>1. PICK k \in DOMAIN a \cap DOMAIN b : a[k] < b[k] /\ \A j \in 1..(k - 1) : a[j] = b[j]
  BY DEF Below
<1>2. PICK l \in DOMAIN b \cap DOMAIN c : b[l] < c[l] /\ \A j \in 1..(l - 1) : b[j] = c[j]
  BY DEF Below
<1>3. /\ k \in Nat /\ l \in Nat /\ k >= 1 /\ l >= 1
      /\ a[k] \in Nat /\ b[k] \in Nat /\ b[l] \in Nat /\ c[l] \in Nat
      /\ DOMAIN a = 1..Len(a) /\ DOMAIN c = 1..Len(c) /\ Len(a) \in Nat /\ Len(c) \in Nat
  BY Numbers
<1>4. CASE k < l
  <2>1. k \in 1..(l - 1) /\ \A j \in 1..(k - 1) : j \in 1..(l - 1)
    BY <1>3, <1>4
  <2>2. k \in DOMAIN c
    BY <1>3, <1>4
  <2>3. a[k] < c[k] /\ \A j \in 1..(k - 1) : a[j] = c[j]
    BY <1>1, <1>2, <2>1
  <2> QED  BY <2>2, <2>3 DEF Below
<1>5. CASE k = l
  <2>1. a[k] < c[k]
    BY <1>1, <1>2, <1>3, <1>5
  <2>2. \A j \in 1..(k - 1) : a[j] = c[j]
    BY <1>1, <1>2, <1>5
  <2> QED  BY <1>5, <2>1, <2>2 DEF Below
<1>6. CASE k > l
  <2>1. l \in 1..(k - 1) /\ \A j \in 1..(l - 1) : j \in 1..(k - 1)
    BY <1>3, <1>6
  <2>2. l \in DOMAIN a
    BY <1>3, <1>6
  <2>3. a[l] < c[l] /\ \A j \in 1..(l - 1) : a[j] = c[j]
    BY <1>1, <1>2, <2>1
  <2> QED  BY <2>2, <2>3 DEF Below
<1> QED  BY <1>3, <1>4, <1>5, <1>6

LEMMA BelowTotal ==
  ASSUME NEW a, NEW b, Text(a), Text(b), a # b
  PROVE  Below(a, b) \/ Below(b, a)
<1> DEFINE Both == DOMAIN a \cap DOMAIN b
           Differ == {k \in Both : a[k] # b[k]}
<1>1. a \in Seq(Nat) /\ b \in Seq(Nat) /\ Len(a) >= 2 /\ Len(b) >= 2
  BY DEF Text
<1>2. CASE Differ # {}
  <2>1. Differ \subseteq Nat
    BY <1>1
  <2>2. PICK k \in Differ : \A l \in Differ : k <= l
    BY <1>2, <2>1, LeastNumber, Zenon
  <2>3. ASSUME NEW j \in 1..(k - 1) PROVE a[j] = b[j]
    <3>1. j \in Both /\ j < k
      BY <1>1, <2>2
    <3>2. j \notin Differ
      BY <2>1, <2>2, <3>1
    <3> QED  BY <3>1, <3>2
  <2>4. a[k] < b[k] \/ b[k] < a[k]
    BY <1>1
  <2>5. k \in DOMAIN a \cap DOMAIN b
    BY <2>2
  <2> QED  BY <2>3, <2>4, <2>5 DEF Below
<1>3. CASE Differ = {}
  <2>1. \A k \in Both : a[k] = b[k]
    BY <1>3
  <2>2. CASE Len(a) < Len(b)
    <3>1. Len(a) \in Both /\ Len(a) \in 2..(Len(b) - 1)
      BY <1>1, <2>2
    <3> QED  BY <2>1, <3>1 DEF Text
  <2>3. CASE Len(b) < Len(a)
    <3>1. Len(b) \in Both /\ Len(b) \in 2..(Len(a) - 1)
      BY <1>1, <2>3
    <3> QED  BY <2>1, <3>1 DEF Text
  <2>4. CASE Len(a) = Len(b)
    <3>1. a = b
      BY <1>1, <2>1, <2>4
    <3> QED  BY <3>1
  <2> QED  BY <1>1, <2>2, <2>3, <2>4
<1> QED  BY <1>2, <1>3

-----------------------------------------------------------------------------
(* A finite set listed in order *)

\* R is a set of pairs: <<x, y>> for x before y.
Sorts(R, S) ==
  /\ \A x \in S : <<x, x>> \notin R
  /\ \A x, y, z \in S : <<x, y>> \in R /\ <<y, z>> \in R => <<x, z>> \in R
  /\ \A x, y \in S : x # y => <<x, y>> \in R \/ <<y, x>> \in R

LEMMA Listed ==
  ASSUME NEW S, IsFiniteSet(S), NEW R, Sorts(R, S)
  PROVE  \E s \in [1..Cardinality(S) -> S] :
           \A m, n \in 1..Cardinality(S) : m < n => <<s[m], s[n]>> \in R
<1> DEFINE N == Cardinality(S)
           Before(x) == {y \in S : <<y, x>> \in R}
           rank == [x \in S |-> Cardinality(Before(x)) + 1]
           T == {rank[x] : x \in S}
<1>1. N \in Nat
  BY FS_CardinalityType
<1>2. ASSUME NEW x \in S
      PROVE  IsFiniteSet(Before(x)) /\ rank[x] \in 1..N
  <2>1. Before(x) \in SUBSET S /\ Before(x) # S
    BY DEF Sorts
  <2>2. IsFiniteSet(Before(x)) /\ Cardinality(Before(x)) \in Nat
    BY <2>1, FS_Subset, FS_CardinalityType
  <2>3. Cardinality(Before(x)) <= N /\ Cardinality(Before(x)) # N
    BY <2>1, FS_Subset
  <2>4. rank[x] = Cardinality(Before(x)) + 1
    OBVIOUS
  <2> HIDE DEF Before, N, rank
  <2> QED  BY <1>1, <2>2, <2>3, <2>4
<1>3. ASSUME NEW x \in S, NEW y \in S, <<x, y>> \in R
      PROVE  rank[x] < rank[y]
  <2>1. Before(x) \in SUBSET Before(y) /\ Before(x) # Before(y)
    BY <1>3 DEF Sorts
  <2>2. IsFiniteSet(Before(x)) /\ IsFiniteSet(Before(y))
    BY <1>2
  <2>3. /\ Cardinality(Before(x)) <= Cardinality(Before(y))
        /\ Cardinality(Before(x)) # Cardinality(Before(y))
    <3> HIDE DEF Before
    <3> QED  BY <2>1, <2>2, FS_Subset
  <2>4. rank[x] = Cardinality(Before(x)) + 1 /\ rank[y] = Cardinality(Before(y)) + 1
    OBVIOUS
  <2>5. Cardinality(Before(x)) \in Nat /\ Cardinality(Before(y)) \in Nat
    BY <2>2, FS_CardinalityType
  <2> HIDE DEF Before, rank
  <2> QED  BY <2>3, <2>4, <2>5
<1>4. \A x \in S : rank[x] \in 1..N
  <2> HIDE DEF Before, rank, N
  <2> QED  BY <1>2
<1> HIDE DEF rank, N
<1>5. ASSUME NEW x \in S, NEW y \in S, rank[x] = rank[y]
      PROVE  x = y
  <2> SUFFICES ASSUME x # y PROVE FALSE
    OBVIOUS
  <2>1. rank[x] \in Nat /\ rank[y] \in Nat
    BY <1>1, <1>4
  <2>2. <<x, y>> \in R \/ <<y, x>> \in R
    BY DEF Sorts
  <2>3. rank[x] < rank[y] \/ rank[y] < rank[x]
    BY <1>3, <2>2
  <2> QED  BY <1>5, <2>1, <2>3
<1>6. T = 1..N
  <2>1. IsFiniteSet(1..N) /\ Cardinality(1..N) = N
    <3>1. 1 \in Int /\ N \in Int
      BY <1>1
    <3> QED  BY <1>1, <3>1, FS_Interval
  <2>2. T \in SUBSET (1..N)
    BY <1>2
  <2>3. ExistsBijection(S, T)
    <3> DEFINE f == [x \in S |-> rank[x]]
    <3>1. f \in [S -> T] /\ (\A x, y \in S : f[x] = f[y] => x = y) /\ \A t \in T : \E x \in S : f[x] = t
      BY <1>5
    <3> HIDE DEF f, T
    <3>2. f \in Bijection(S, T)
      BY <3>1 DEF Bijection, Injection, Surjection, IsInjective
    <3> QED  BY <3>2 DEF ExistsBijection
  <2>4. Cardinality(T) = N
    BY <2>3, FS_Bijection DEF N
  <2> HIDE DEF T
  <2> QED  BY <2>1, <2>2, <2>4, FS_Subset
<1> DEFINE s == [n \in 1..N |-> CHOOSE x \in S : rank[x] = n]
<1>7. \A n \in 1..N : s[n] \in S /\ rank[s[n]] = n
  <2>1. \A n \in 1..N : \E x \in S : rank[x] = n
    BY <1>6
  <2> QED  BY <2>1
<1>8. s \in [1..N -> S]
  BY <1>7
<1> HIDE DEF s
<1>9. ASSUME NEW m \in 1..N, NEW n \in 1..N, m < n
      PROVE  <<s[m], s[n]>> \in R
  <2>1. s[m] # s[n]
    BY <1>1, <1>7, <1>9
  <2>2. ~(<<s[n], s[m]>> \in R)
    BY <1>1, <1>3, <1>7, <1>9
  <2> QED  BY <1>7, <2>1, <2>2 DEF Sorts
<1> QED  BY <1>8, <1>9 DEF N

\* A list of a set's size without repetitions is of all of it.
LEMMA AllListed ==
  ASSUME NEW S, IsFiniteSet(S), NEW s \in [1..Cardinality(S) -> S],
         \A m, n \in 1..Cardinality(S) : m < n => s[m] # s[n]
  PROVE  \A x \in S : \E n \in 1..Cardinality(S) : s[n] = x
<1> DEFINE N == Cardinality(S)
           T == {s[n] : n \in 1..N}
<1>1. N \in Nat
  BY FS_CardinalityType
<1>2. IsFiniteSet(1..N) /\ Cardinality(1..N) = N
  <2>1. 1 \in Int /\ N \in Int
    BY <1>1
  <2> QED  BY <1>1, <2>1, FS_Interval
<1>3. \A m, n \in 1..N : s[m] = s[n] => m = n
  BY <1>1
<1>4. ExistsBijection(1..N, T)
  <2>1. s \in [1..N -> T] /\ \A t \in T : \E n \in 1..N : s[n] = t
    OBVIOUS
  <2> HIDE DEF T, N
  <2>2. s \in Bijection(1..N, T)
    BY <1>3, <2>1 DEF Bijection, Injection, Surjection, IsInjective
  <2> QED  BY <2>2 DEF ExistsBijection
<1>5. Cardinality(T) = N
  <2> HIDE DEF T
  <2> QED  BY <1>2, <1>4, FS_Bijection
<1>6. T \in SUBSET S
  OBVIOUS
<1>7. T = S
  <2> HIDE DEF T
  <2> QED  BY <1>5, <1>6, FS_Subset
<1> QED  BY <1>7

-----------------------------------------------------------------------------
(* The table *)

TypeInv ==
  /\ clock \in Instants
  /\ pending \subseteq Entry
  /\ saved \in Seq(Entry)
  /\ table \subseteq {ToDynamoItem(saved[id], id) : id \in DOMAIN saved}
  /\ \A i, j \in table : SameKey(i, j) => i = j
  /\ IsFiniteSet(table)

\* What is not in the table any more has been replaced.
KeptInv ==
  \A id \in DOMAIN saved :
    \/ ToDynamoItem(saved[id], id) \in table
    \/ \E later \in DOMAIN saved :
         /\ later > id
         /\ saved[later].order = saved[id].order
         /\ saved[later].createdAt = saved[id].createdAt

IInv == TypeInv /\ KeptInv

LEMMA InstantsAreNumbers == Instants \subseteq Nat
<1>1. Second \in Nat
  BY Powers, Bounds DEF Second
<1>2. MaxSeconds * Second \in Nat
  BY <1>1, Bounds
<1> QED  BY <1>2 DEF Instants

LEMMA ItemOf ==
  ASSUME NEW h \in Entry, NEW id
  PROVE  LET i == ToDynamoItem(h, id)
         IN /\ i.order = h.order /\ i.id = id /\ i.status = h.status
            /\ i.occurredAt = Format(h.createdAt) /\ i.createdAt = Format(h.createdAt)
            /\ h.createdAt \in Nat
            /\ FromDynamoItem(i) = [id |-> id, order |-> h.order, status |-> h.status,
                                    createdAt |-> h.createdAt]
<1> DEFINE i == ToDynamoItem(h, id)
<1>1. h.createdAt \in Nat
  BY InstantsAreNumbers DEF Entry
<1>2. /\ i.order = h.order /\ i.id = id /\ i.status = h.status
      /\ i.occurredAt = Format(h.createdAt) /\ i.createdAt = Format(h.createdAt)
  BY DEF ToDynamoItem
<1>3. Parse(i.createdAt) = h.createdAt
  BY <1>1, <1>2, ParseFormat
<1> HIDE DEF i
<1>4. FromDynamoItem(i) = [id |-> id, order |-> h.order, status |-> h.status,
                           createdAt |-> h.createdAt]
  BY <1>2, <1>3 DEF FromDynamoItem
<1> QED  BY <1>1, <1>2, <1>4 DEF i

\* Two instants have two texts.
LEMMA SameText ==
  ASSUME NEW m \in Nat, NEW n \in Nat, Format(m) = Format(n)
  PROVE  m = n
BY ParseFormat

LEMMA SavedTable ==
  ASSUME IInv, NEW h \in pending, Save(h)
  PROVE  IInv'
<1> DEFINE id == Len(saved) + 1
           item == ToDynamoItem(h, id)
<1>1. h \in Entry /\ saved \in Seq(Entry) /\ id \in Nat
  BY DEF IInv, TypeInv
<1>2. /\ table' = {i \in table : ~SameKey(i, item)} \cup {item}
      /\ saved' = Append(saved, h) /\ pending' \subseteq pending /\ clock' = clock
  BY DEF Save
<1>3. /\ saved' \in Seq(Entry) /\ id \in DOMAIN saved' /\ saved'[id] = h
      /\ DOMAIN saved \subseteq DOMAIN saved'
      /\ \A k \in DOMAIN saved : saved'[k] = saved[k] /\ k < id
      /\ \A k \in DOMAIN saved' : k \in DOMAIN saved \/ k = id
  BY <1>1, <1>2
<1> HIDE DEF id
<1>4. /\ item.order = h.order /\ item.occurredAt = Format(h.createdAt) /\ h.createdAt \in Nat
  BY <1>1, ItemOf
<1>5. table' \subseteq {ToDynamoItem(saved'[k], k) : k \in DOMAIN saved'}
  <2>1. ASSUME NEW i \in table
        PROVE  \E k \in DOMAIN saved' : i = ToDynamoItem(saved'[k], k)
    <3>1. PICK k \in DOMAIN saved : i = ToDynamoItem(saved[k], k)
      BY DEF IInv, TypeInv
    <3> QED  BY <1>3, <3>1
  <2>2. \E k \in DOMAIN saved' : item = ToDynamoItem(saved'[k], k)
    BY <1>3
  <2> HIDE DEF item
  <2> QED  BY <1>2, <2>1, <2>2
<1> HIDE DEF item
<1>6. \A i, j \in table' : SameKey(i, j) => i = j
  BY <1>2 DEF IInv, TypeInv, SameKey
<1>7. IsFiniteSet(table')
  <2>1. IsFiniteSet({i \in table : ~SameKey(i, item)})
    BY FS_Subset DEF IInv, TypeInv
  <2> QED  BY <1>2, <2>1, FS_AddElement
<1>8. ASSUME NEW k \in DOMAIN saved
      PROVE  \/ ToDynamoItem(saved'[k], k) \in table'
             \/ \E later \in DOMAIN saved' :
                  /\ later > k
                  /\ saved'[later].order = saved'[k].order
                  /\ saved'[later].createdAt = saved'[k].createdAt
  <2>1. CASE ToDynamoItem(saved[k], k) \in table
    <3> DEFINE old == ToDynamoItem(saved[k], k)
    <3>1. /\ old.order = saved[k].order /\ old.occurredAt = Format(saved[k].createdAt)
          /\ saved[k].createdAt \in Nat
      <4>1. saved[k] \in Entry
        BY <1>1
      <4> QED  BY <4>1, ItemOf
    <3>2. old \in table /\ ToDynamoItem(saved'[k], k) = old
      BY <1>3, <2>1
    <3> HIDE DEF old
    <3>3. CASE SameKey(old, item)
      <4>1. h.order = saved[k].order /\ Format(h.createdAt) = Format(saved[k].createdAt)
        BY <1>4, <3>1, <3>3 DEF SameKey
      <4>2. h.createdAt = saved[k].createdAt
        BY <1>4, <3>1, <4>1, SameText
      <4>3. id > k /\ id \in DOMAIN saved' /\ saved'[id] = h /\ saved'[k] = saved[k]
        BY <1>1, <1>3
      <4> QED  BY <4>1, <4>2, <4>3
    <3>4. CASE ~SameKey(old, item)
      BY <1>2, <3>2, <3>4
    <3> QED  BY <3>3, <3>4
  <2>2. CASE \E later \in DOMAIN saved :
               /\ later > k
               /\ saved[later].order = saved[k].order
               /\ saved[later].createdAt = saved[k].createdAt
    BY <1>3, <2>2
  <2> QED  BY <2>1, <2>2 DEF IInv, KeptInv
<1>9. ToDynamoItem(saved'[id], id) \in table'
  BY <1>2, <1>3 DEF item
<1>10. KeptInv'
  BY <1>3, <1>8, <1>9 DEF KeptInv, ToDynamoItem
<1>11. TypeInv'
  BY <1>2, <1>3, <1>5, <1>6, <1>7 DEF IInv, TypeInv, ToDynamoItem, SameKey, Instants, Entry
<1> QED  BY <1>10, <1>11 DEF IInv

LEMMA InitIInv == Init => IInv
<1>1. IsFiniteSet({})
  BY FS_EmptySet
<1> QED  BY <1>1 DEF Init, IInv, TypeInv, KeptInv

LEMMA NextIInv ==
  ASSUME IInv, [Next]_vars
  PROVE  IInv'
<1>1. ASSUME clock' \in Instants, pending' \subseteq Entry, UNCHANGED <<table, saved>>
      PROVE  IInv'
  BY <1>1 DEF IInv, TypeInv, KeptInv
<1>2. CASE Tick
  BY <1>1, <1>2 DEF Tick, IInv, TypeInv
<1>3. ASSUME NEW o \in Orders, NEW status \in {"DIAGNOSING", "CANCELED"}, NewHistory(o, status)
      PROVE  IInv'
  <2>1. [order |-> o, status |-> status, createdAt |-> clock] \in Entry
    BY DEF Entry, Status, IInv, TypeInv
  <2> QED  BY <1>1, <1>3, <2>1 DEF NewHistory, IInv, TypeInv
<1>4. ASSUME NEW h \in pending, Save(h)
      PROVE  IInv'
  BY <1>4, SavedTable
<1>5. ASSUME NEW h \in pending, SaveFails(h)
      PROVE  IInv'
  BY <1>1, <1>5 DEF SaveFails, IInv, TypeInv
<1>6. CASE UNCHANGED vars
  BY <1>1, <1>6 DEF vars, IInv, TypeInv
<1> QED  BY <1>2, <1>3, <1>4, <1>5, <1>6 DEF Next

LEMMA HistoryInvariant == Spec => []IInv
BY InitIInv, NextIInv, PTL DEF Spec

\* The table holds texts of entries that were saved, under a key each,
\* whatever puts cross or fail.
THEOREM HistoryTyped == Spec => []TypeOK
<1>1. IInv => TypeOK
  BY DEF IInv, TypeInv, TypeOK
<1> QED  BY <1>1, HistoryInvariant, PTL

-----------------------------------------------------------------------------
(* The query *)

Of(o) == {i \in table : i.order = o}

LEMMA TableItem ==
  ASSUME TypeInv, NEW i \in table
  PROVE  \E n \in Nat : /\ i.occurredAt = Format(n)
                        /\ FromDynamoItem(i).createdAt = n
<1>1. PICK id \in DOMAIN saved : i = ToDynamoItem(saved[id], id)
  BY DEF TypeInv
<1>2. PICK h \in Entry : h = saved[id]
  BY DEF TypeInv
<1>3. /\ i.occurredAt = Format(h.createdAt) /\ h.createdAt \in Nat
      /\ FromDynamoItem(i) = [id |-> id, order |-> h.order, status |-> h.status,
                              createdAt |-> h.createdAt]
  BY <1>1, <1>2, ItemOf
<1>4. FromDynamoItem(i).createdAt = h.createdAt
  BY <1>3
<1> QED  BY <1>3, <1>4

\* The query finds the items of the order, the highest key first: there is
\* such a list.
LEMMA Queried ==
  ASSUME TypeInv, NEW o
  PROVE  /\ IsFiniteSet(Of(o))
         /\ \E s \in [1..Cardinality(Of(o)) -> Of(o)] :
              /\ Descending(s)
              /\ FindByServiceOrderID(o) = [n \in DOMAIN s |-> FromDynamoItem(s[n])]
<1> DEFINE S == Of(o)
           N == Cardinality(S)
           R == {p \in S \X S : Below(p[2].occurredAt, p[1].occurredAt)}
<1>1. IsFiniteSet(S)
  BY FS_Subset DEF TypeInv, Of
<1>2. \A i \in S : Text(i.occurredAt) /\ i.occurredAt \in Seq(Nat)
  <2> SUFFICES ASSUME NEW i \in S PROVE Text(i.occurredAt)
    BY DEF Text
  <2>1. PICK n \in Nat : i.occurredAt = Format(n)
    BY TableItem DEF Of
  <2> QED  BY <2>1, FormatIsText
<1>3. \A i, j \in S : i # j => i.occurredAt # j.occurredAt
  BY DEF Of, TypeInv, SameKey
<1> HIDE DEF S
<1>4. \A i, j \in S : <<i, j>> \in R <=> Below(j.occurredAt, i.occurredAt)
  OBVIOUS
<1> HIDE DEF R
<1>5. Sorts(R, S)
  <2>1. \A x \in S : <<x, x>> \notin R
    BY <1>2, <1>4, BelowIrreflexive
  <2>2. ASSUME NEW x \in S, NEW y \in S, NEW z \in S, <<x, y>> \in R, <<y, z>> \in R
        PROVE  <<x, z>> \in R
    <3>1. Below(z.occurredAt, y.occurredAt) /\ Below(y.occurredAt, x.occurredAt)
      BY <1>4, <2>2
    <3>2. Below(z.occurredAt, x.occurredAt)
      BY <1>2, <3>1, BelowTransitive
    <3> QED  BY <1>4, <3>2
  <2>3. ASSUME NEW x \in S, NEW y \in S, x # y
        PROVE  <<x, y>> \in R \/ <<y, x>> \in R
    BY <1>2, <1>3, <1>4, <2>3, BelowTotal
  <2> QED  BY <2>1, <2>2, <2>3 DEF Sorts
<1>6. \E s \in [1..N -> S] : Descending(s)
  <2>1. PICK s \in [1..N -> S] : \A m, n \in 1..N : m < n => <<s[m], s[n]>> \in R
    BY <1>1, <1>5, Listed
  <2> HIDE DEF N
  <2>2. Descending(s)
    BY <1>4, <2>1 DEF Descending
  <2> QED  BY <2>2
<1>7. PICK s : /\ s = CHOOSE t \in [1..N -> S] : Descending(t)
               /\ s \in [1..N -> S] /\ Descending(s)
  BY <1>6
<1>8. FindByServiceOrderID(o) = [n \in DOMAIN s |-> FromDynamoItem(s[n])]
  BY <1>7 DEF FindByServiceOrderID, Of, S
<1> QED  BY <1>1, <1>7, <1>8 DEF S

\* An entry once saved is shown for ever, with the instant it was made, unless
\* another of the same order and instant replaced it: for fractions of any
\* number of digits, as each text is read back.
THEOREM EntriesAreReadBack == Spec => []EntriesReadBack
<1>1. ASSUME IInv PROVE EntriesReadBack
  <2> SUFFICES ASSUME NEW id \in DOMAIN saved, ToDynamoItem(saved[id], id) \in table
               PROVE  \E n \in DOMAIN FindByServiceOrderID(saved[id].order) :
                        FindByServiceOrderID(saved[id].order)[n] =
                          [id |-> id, order |-> saved[id].order, status |-> saved[id].status,
                           createdAt |-> saved[id].createdAt]
    BY <1>1 DEF EntriesReadBack, IInv, KeptInv
  <2>1. PICK h \in Entry : h = saved[id]
    BY <1>1 DEF IInv, TypeInv
  <2> DEFINE item == ToDynamoItem(h, id)
             S == Of(h.order)
  <2>2. /\ item.order = h.order
        /\ FromDynamoItem(item) = [id |-> id, order |-> h.order, status |-> h.status,
                                   createdAt |-> h.createdAt]
    BY ItemOf
  <2>3. item \in S
    BY <2>1, <2>2 DEF Of
  <2> HIDE DEF item
  <2>4. IsFiniteSet(S)
    BY <1>1, Queried DEF IInv
  <2>5. PICK s \in [1..Cardinality(S) -> S] :
          /\ Descending(s)
          /\ FindByServiceOrderID(h.order) = [n \in DOMAIN s |-> FromDynamoItem(s[n])]
    BY <1>1, Queried DEF IInv
  <2> HIDE DEF S
  <2>6. \A m, n \in 1..Cardinality(S) : m < n => s[m] # s[n]
    <3> SUFFICES ASSUME NEW m \in 1..Cardinality(S), NEW n \in 1..Cardinality(S), m < n,
                        s[m] = s[n]
                 PROVE  FALSE
      OBVIOUS
    <3>1. Below(s[n].occurredAt, s[n].occurredAt)
      BY <2>5 DEF Descending
    <3>2. s[n] \in table
      BY <2>5 DEF S, Of
    <3>3. PICK k \in Nat : s[n].occurredAt = Format(k)
      BY <1>1, <3>2, TableItem DEF IInv
    <3>4. s[n].occurredAt \in Seq(Nat)
      BY <3>3, FormatIsText DEF Text
    <3> QED  BY <3>1, <3>4, BelowIrreflexive
  <2>7. PICK n \in 1..Cardinality(S) : s[n] = item
    BY <2>3, <2>4, <2>5, <2>6, AllListed
  <2>8. n \in DOMAIN FindByServiceOrderID(h.order)
        /\ FindByServiceOrderID(h.order)[n] = FromDynamoItem(item)
    BY <2>5, <2>7
  <2> QED  BY <2>1, <2>2, <2>8
<1> QED  BY <1>1, HistoryInvariant, PTL

\* Entries of a later second are shown first, in whatever order they were put:
\* texts are compared by their seconds before anything else.
THEOREM LaterSecondsFirst == Spec => []LatestSecondFirst
<1>1. ASSUME IInv PROVE LatestSecondFirst
  <2> SUFFICES ASSUME NEW o \in Orders
               PROVE  LET shown == FindByServiceOrderID(o)
                      IN \A m, n \in DOMAIN shown :
                           m < n => shown[m].createdAt \div Second >= shown[n].createdAt \div Second
    BY DEF LatestSecondFirst
  <2> DEFINE S == Of(o)
  <2>1. PICK s \in [1..Cardinality(S) -> S] :
          /\ Descending(s)
          /\ FindByServiceOrderID(o) = [n \in DOMAIN s |-> FromDynamoItem(s[n])]
    BY <1>1, Queried DEF IInv
  <2>2. ASSUME NEW m \in DOMAIN s, NEW n \in DOMAIN s, m < n
        PROVE  FromDynamoItem(s[m]).createdAt \div Second
                 >= FromDynamoItem(s[n]).createdAt \div Second
    <3>1. s[m] \in table /\ s[n] \in table
      BY <2>1 DEF Of
    <3>2. PICK p \in Nat : s[m].occurredAt = Format(p) /\ FromDynamoItem(s[m]).createdAt = p
      BY <1>1, <3>1, TableItem DEF IInv
    <3>3. PICK q \in Nat : s[n].occurredAt = Format(q) /\ FromDynamoItem(s[n]).createdAt = q
      BY <1>1, <3>1, TableItem DEF IInv
    <3>4. Below(Format(q), Format(p))
      BY <2>1, <2>2, <3>2, <3>3 DEF Descending
    <3> DEFINE a == Format(q)
               b == Format(p)
    <3>5. Text(a) /\ a[1] = q \div Second /\ Text(b) /\ b[1] = p \div Second
      BY FormatIsText, Zenon
    <3> HIDE DEF a, b
    <3>6. /\ a \in Seq(Nat) /\ Len(a) >= 2 /\ a[1] = q \div Second
          /\ b \in Seq(Nat) /\ Len(b) >= 2 /\ b[1] = p \div Second
      BY <3>5, Zenon DEF Text
    <3>7. Below(a, b)
      BY <3>4, Zenon DEF a, b
    <3>8. a[1] <= b[1] /\ a[1] \in Nat /\ b[1] \in Nat
      BY <3>6, <3>7, FirstDecides
    <3> QED  BY <3>2, <3>3, <3>6, <3>8
  <2> QED  BY <2>1, <2>2
<1> QED  BY <1>1, HistoryInvariant, PTL
=============================================================================
