------------------------ MODULE SentenceCodecProofs -------------------------
(***************************************************************************)
(* What the run of MCSentenceCodec checks around every rounding, for every angle,    *)
(* every position and velocity, every time from 2^19 seconds into the week on, and any  *)
(* number of digits: first that strtok_r finds the fields the parsers count to, then     *)
(* what the roundings do.                                                       *)
(***************************************************************************)
EXTENDS SentenceCodec, FiniteSetTheorems, TLAPS

-----------------------------------------------------------------------------
(* Tokens. *)

\* The first n fields of s are there and none is empty.
FullTo(s, n) == n <= Len(s) /\ \A j \in 1..n : s[j] # Empty

\* In front of the first empty field, every field counts.
LEMMA FieldsCount ==
  ASSUME NEW s, Len(s) \in Nat, NEW n \in Nat, FullTo(s, n)
  PROVE  /\ \A i \in 1..n : FullUpTo(s, i) = i
         /\ \A i \in n + 1..Len(s) : s[i] # Empty => FullUpTo(s, i) # n
<1>1. ASSUME NEW i \in 1..n PROVE FullUpTo(s, i) = i
  <2>1. {j \in 1..i : s[j] # Empty} = 1..i
    BY DEF FullTo
  <2>2. Cardinality(1..i) = i
    BY FS_Interval
  <2> QED
    BY <2>1, <2>2 DEF FullUpTo
<1>2. ASSUME NEW i \in n + 1..Len(s), s[i] # Empty PROVE FullUpTo(s, i) # n
  <2> DEFINE full == {j \in 1..i : s[j] # Empty}
  <2>1. i \in Nat /\ n < i /\ IsFiniteSet(1..i)
    BY FS_Interval
  <2>2. IsFiniteSet(full)
    BY <2>1, FS_Subset
  <2>3. 1..n \subseteq full /\ i \in full /\ i \notin 1..n
    BY <1>2, <2>1 DEF FullTo
  <2>4. Cardinality(1..n) = n
    BY FS_Interval
  <2>5. 1..n # full
    BY <2>3
  <2>6. Cardinality(full) # n
    BY <2>2, <2>3, <2>4, <2>5, FS_Subset
  <2> QED
    BY <2>6 DEF FullUpTo
<1> QED
  BY <1>1, <1>2

\* So the n-th token is the n-th field.
LEMMA TokenIsField ==
  ASSUME NEW s, Len(s) \in Nat, NEW n \in Nat \ {0}, FullTo(s, n)
  PROVE  TokenAt(s, n) = s[n]
<1>1. Cursor(s, n - 1) = n
  <2>1. CASE n = 1
    BY <2>1 DEF Cursor
  <2>2. CASE n > 1
    <3> DEFINE m == n - 1
               passed == {i \in 1..Len(s) : s[i] # Empty /\ FullUpTo(s, i) = m}
    <3>1. m \in Nat /\ m \in 1..Len(s) /\ FullTo(s, m) /\ s[m] # Empty
      BY <2>2 DEF FullTo
    <3>2. \A i \in 1..m : FullUpTo(s, i) = i
      BY <3>1, FieldsCount
    <3>3. \A i \in m + 1..Len(s) : s[i] # Empty => FullUpTo(s, i) # m
      BY <3>1, FieldsCount
    <3>4. \A i \in 1..Len(s) : i \in 1..m \/ i \in m + 1..Len(s)
      BY <3>1
    <3>5. \A i \in passed : i = m
      BY <3>2, <3>3, <3>4
    <3>6. FullUpTo(s, m) = m
      BY <2>2, <3>2
    <3>7. m \in passed
      BY <3>1, <3>6
    <3>8. (CHOOSE i \in passed : TRUE) = m
      BY <3>5, <3>7
    <3>9. Cursor(s, m) = (CHOOSE i \in passed : TRUE) + 1
      BY <2>2, <3>7 DEF Cursor
    <3>10. m + 1 = n
      OBVIOUS
    <3> HIDE DEF m, passed
    <3>11. Cursor(s, m) = n
      BY <3>8, <3>9, <3>10
    <3> QED
      BY <3>11 DEF m
  <2> QED
    BY <2>1, <2>2
<1>2. ~(n > Len(s)) /\ s[n] # Empty
  BY DEF FullTo
<1> QED
  BY <1>1, <1>2, Zenon DEF TokenAt

\* And all of them up to it are.
LEMMA TokensAreFields ==
  ASSUME NEW s, Len(s) \in Nat, NEW n \in Nat, FullTo(s, n)
  PROVE  \A i \in 1..n : TokenAt(s, i) = s[i]
<1> SUFFICES ASSUME NEW i \in 1..n PROVE TokenAt(s, i) = s[i]
  OBVIOUS
<1>1. i \in Nat \ {0} /\ i <= n
  OBVIOUS
<1>2. FullTo(s, i)
  BY <1>1 DEF FullTo
<1> QED
  BY <1>1, <1>2, TokenIsField

-----------------------------------------------------------------------------
(* Roundings. *)

\* Division by a positive number.
LEMMA Division ==
  ASSUME NEW n \in Int, NEW d \in Nat \ {0}
  PROVE  /\ n \div d \in Int /\ n % d \in 0..d - 1 /\ n = d * (n \div d) + (n % d)
         /\ n \in Nat => n \div d \in Nat
  OBVIOUS

\* The quotient is the only one.
LEMMA Quotient ==
  ASSUME NEW d \in Nat \ {0}, NEW q \in Int, NEW r \in 0..d - 1
  PROVE  (q * d + r) \div d = q
<1> DEFINE n == q * d + r
           e == n \div d
<1>0. n \in Int /\ n = q * d + r
  OBVIOUS
<1> HIDE DEF n
<1>1. e \in Int /\ n % d \in 0..d - 1 /\ n = d * e + (n % d)
  BY <1>0, Division
<1> HIDE DEF e
<1>2. d * (q - e) \in -(d - 1)..d - 1
  BY <1>0, <1>1
<1>3. ~(q - e >= 1)
  BY <1>1, <1>2
<1>4. ~(q - e <= -1)
  BY <1>1, <1>2
<1>5. q = e
  BY <1>1, <1>3, <1>4
<1> QED
  BY <1>5 DEF e, n

\* Printing to an even digit moves a number by one at most, never below zero ...
LEMMA PrintedDigit ==
  ASSUME NEW n \in Int
  PROVE  /\ Printed(n, 2) \in Int /\ Printed(n, 2) - n \in -1..1
         /\ n % 2 = 0 => Printed(n, 2) = n
  BY DEF Printed

\* ... and a float of the time moves it by sixty-two half milliseconds at most.
LEMMA PrintedFloat ==
  ASSUME NEW n \in Int
  PROVE  Printed(n, 125) \in Int /\ Printed(n, 125) - n \in -62..62
  BY DEF Printed

\* A larger number has the larger quotient.
LEMMA QuotientGrows ==
  ASSUME NEW m \in Nat, NEW n \in Nat, m <= n, NEW d \in Nat \ {0}
  PROVE  m \div d <= n \div d
<1> DEFINE x == m \div d
           y == n \div d
<1>0. m \in Int /\ n \in Int
  OBVIOUS
<1>1. x \in Nat /\ m % d \in 0..d - 1 /\ m = d * x + (m % d)
  BY <1>0, Division, Zenon
<1>2. y \in Nat /\ n % d \in 0..d - 1 /\ n = d * y + (n % d)
  BY <1>0, Division, Zenon
<1> HIDE DEF x, y
<1>3. d * (x - y) \in Int /\ d * (x - y) <= d - 1
  BY <1>1, <1>2
<1>4. ~(x - y >= 1)
  BY <1>1, <1>2, <1>3
<1>5. x <= y
  BY <1>1, <1>2, <1>4
<1> QED
  BY <1>5 DEF x, y

\* What a float loses of a number is no more than what it may lose of a greater one.
LEMMA FloatError ==
  ASSUME NEW n \in Int, NEW top \in Nat \ {0}, Magnitude(n) <= top, NEW x \in Float(n)
  PROVE  x \in Int /\ x - n \in -LastBit(top)..LastBit(top) /\ LastBit(top) \in Nat
<1>0. FloatPrecision \in Nat \ {0} /\ Magnitude(n) \in Nat /\ Magnitude(top) = top
  BY CodecConstantsAssumption DEF CodecConstantsAssumption, Magnitude
<1> DEFINE a == Magnitude(n) \div FloatPrecision
           b == top \div FloatPrecision
<1>1. a \in Nat /\ b \in Nat /\ a <= b
  <2>1. a <= b
    BY <1>0, QuotientGrows
  <2>2. Magnitude(n) \in Int /\ top \in Nat /\ top \in Int
    BY <1>0
  <2>3. a \in Nat /\ b \in Nat
    BY <1>0, <2>2, Division, Zenon
  <2> QED
    BY <2>1, <2>3
<1>2. LastBit(top) = b + 1 /\ (LastBit(n) = 0 \/ LastBit(n) = a + 1)
  BY <1>0 DEF LastBit
<1> HIDE DEF a, b
<1>3. LastBit(n) \in Nat /\ LastBit(n) <= LastBit(top) /\ LastBit(top) \in Nat
  BY <1>1, <1>2
<1>4. x \in n - LastBit(n)..n + LastBit(n)
  BY DEF Float
<1> QED
  BY <1>3, <1>4

\* A multiple of two thousand times h has h at least as its two-thousandth.
LEMMA TwoThousandth ==
  ASSUME NEW n \in Nat, NEW h \in Nat, n >= 2000 * h PROVE h <= n \div 2000
<1> DEFINE q == n \div 2000
<1>1. q \in Nat /\ n % 2000 \in 0..1999 /\ n = 2000 * q + (n % 2000)
  OBVIOUS
<1> HIDE DEF q
<1>2. h <= q
  BY <1>1
<1> QED
  BY <1>2 DEF q

\* Printing to a multiple of an even number moves a number by half of it at most.
LEMMA PrintedHalf ==
  ASSUME NEW n \in Int, NEW h \in Nat \ {0}, NEW d, d = 2 * h
  PROVE  Printed(n, d) \in Int /\ Printed(n, d) - n \in -h..h
<1> DEFINE q == n \div d
           r == n % d
<1>0. d \in Nat \ {0} /\ d = 2 * h
  OBVIOUS
<1>1. Printed(n, d) =
        IF 2 * r > d \/ (2 * r = d /\ q % 2 = 1) THEN (q + 1) * d ELSE q * d
  BY Zenon DEF Printed
<1>2. q \in Int /\ r \in 0..d - 1 /\ n = d * q + r
  BY <1>0, Division
<1> HIDE DEF q, r
<1>3. q * d \in Int /\ (q + 1) * d = q * d + d /\ n = q * d + r
  BY <1>0, <1>2
<1>4. \/ Printed(n, d) = q * d /\ 2 * r <= d
      \/ Printed(n, d) = q * d + d /\ 2 * r >= d
  BY <1>0, <1>1, <1>2, <1>3
<1> QED
  BY <1>0, <1>2, <1>3, <1>4

\* Four significant digits leave a two-thousandth of a number open.
LEMMA FourDigits ==
  ASSUME NEW n \in Coordinates
  PROVE  Significant(n) \in Int /\ Near(Significant(n), n, Magnitude(n) \div 2000)
<1> DEFINE m == Magnitude(n)
           fits(v) == (v = 1 \/ 1000 * v <= m) /\ m < 10000 * v
           u == FourthDigit(n)
           half == m \div 2000
<1>0. n \in Int /\ m \in Nat /\ m < 10000 * 100000
  <2>1. CoordinateMax \in Nat /\ CoordinateMax < 10000 * 100000
    BY DEF CoordinateMax
  <2> QED
    BY <2>1 DEF Coordinates, Magnitude
<1>1. half \in Nat
  BY <1>0
<1> HIDE DEF m
<1>2. \E v \in PowersOfTen : fits(v)
  BY <1>0 DEF PowersOfTen
<1>3. u \in PowersOfTen /\ (u = 1 \/ 1000 * u <= m) /\ m < 10000 * u
  <2>1. u = CHOOSE v \in PowersOfTen : fits(v)
    BY DEF FourthDigit, m
  <2> HIDE DEF fits, u
  <2>2. u \in PowersOfTen /\ fits(u)
    BY <1>2, <2>1
  <2> QED
    BY <2>2 DEF fits
<1>4. Significant(n) = Printed(n, u)
  BY DEF Significant
<1> HIDE DEF u, half, fits
<1>5. CASE u = 1
  <2>1. Significant(n) = n
    BY <1>0, <1>4, <1>5 DEF Printed
  <2> QED
    BY <1>0, <1>1, <2>1 DEF Near, Magnitude, half, m
<1>6. CASE u # 1
  <2>1. PICK h \in Nat \ {0} : u = 2 * h
    <3>1. 10 = 2 * 5 /\ 100 = 2 * 50 /\ 1000 = 2 * 500 /\ 10000 = 2 * 5000 /\ 100000 = 2 * 50000
      OBVIOUS
    <3> QED
      BY <1>3, <1>6, <3>1 DEF PowersOfTen
  <2>2. Significant(n) \in Int /\ Significant(n) - n \in -h..h
    <3>1. Printed(n, u) \in Int /\ Printed(n, u) - n \in -h..h
      BY <1>0, <2>1, PrintedHalf
    <3> QED
      BY <1>4, <3>1
  <2>3. m \in Nat /\ m >= 2000 * h /\ h \in Nat
    BY <1>0, <1>3, <1>6, <2>1
  <2>4. h <= half
    BY <2>3, TwoThousandth DEF half
  <2>5. Magnitude(Significant(n) - n) <= half
    BY <1>1, <2>2, <2>3, <2>4 DEF Magnitude
  <2> QED
    BY <2>2, <2>5 DEF Near, half, m
<1> QED
  BY <1>5, <1>6

-----------------------------------------------------------------------------
(* Angles. *)

\* An angle is so many whole degrees and a rest, with one sign, and so is its ddmm.mmmm.
LEMMA DegreesAndRest ==
  ASSUME NEW a \in Int
  PROVE  \E whole \in Nat, rest \in 0..Degree - 1 :
           /\ Magnitude(a) = whole * Degree + rest
           /\ Magnitude(DegreesMinutes(a)) = whole * (100 * PerMinute) + rest
           /\ DegreesMinutes(a) \in Int
           /\ DegreesMinutes(a) >= 0 <=> a >= 0
<1> DEFINE m == Magnitude(a)
           whole == m \div Degree
           rest == m % Degree
<1>0. PerMinute \in Nat \ {0} /\ Degree \in Nat \ {0} /\ Degree = 60 * PerMinute
  BY CodecConstantsAssumption DEF CodecConstantsAssumption, Degree
<1>1. m \in Nat /\ (a >= 0 => m = a) /\ (a < 0 => m = -a)
  BY DEF Magnitude
<1> HIDE DEF m
<1>2. whole \in Nat /\ rest \in 0..Degree - 1 /\ m = whole * Degree + rest
  <2>0. Degree \in Nat \ {0} /\ m \in Nat /\ m \in Int
    BY <1>0, <1>1
  <2>1. whole \in Nat /\ rest \in 0..Degree - 1 /\ m = Degree * whole + rest
    BY <2>0, Division, Zenon
  <2>2. Degree * whole = whole * Degree
    BY <2>0, <2>1
  <2> QED
    BY <2>1, <2>2
<1>3. \A x \in Int : x * 100 * PerMinute = x * (100 * PerMinute)
  BY <1>0
<1>4. whole * (100 * PerMinute) \in Nat /\ (whole >= 1 => whole * (100 * PerMinute) >= 1)
  BY <1>0, <1>2
<1>5. CASE a >= 0
  <2>1. Truncated(a, Degree) = whole
    BY <1>1, <1>5 DEF Truncated
  <2>2. DegreesMinutes(a) = whole * 100 * PerMinute + (a - whole * Degree)
    BY <2>1 DEF DegreesMinutes
  <2> HIDE DEF whole, rest
  <2>3. DegreesMinutes(a) = whole * (100 * PerMinute) + rest
    BY <1>0, <1>1, <1>2, <1>3, <1>5, <2>2
  <2>4. DegreesMinutes(a) \in Nat
    BY <1>0, <1>2, <1>4, <2>3
  <2>5. Magnitude(DegreesMinutes(a)) = DegreesMinutes(a)
    BY <2>4 DEF Magnitude
  <2> QED
    BY <1>2, <1>5, <2>3, <2>4, <2>5 DEF m
<1>6. CASE a < 0
  <2>1. Truncated(a, Degree) = -whole
    BY <1>1, <1>6 DEF Truncated
  <2>2. DegreesMinutes(a) = (-whole) * 100 * PerMinute + (a - (-whole) * Degree)
    BY <2>1 DEF DegreesMinutes
  <2> HIDE DEF whole, rest
  <2>3. DegreesMinutes(a) = -(whole * (100 * PerMinute) + rest)
    BY <1>0, <1>1, <1>2, <1>3, <1>6, <2>2
  <2>4. whole * (100 * PerMinute) + rest \in Nat \ {0}
    <3>1. whole = 0 => rest = m
      BY <1>0, <1>1, <1>2
    <3> QED
      BY <1>0, <1>1, <1>2, <1>4, <1>6, <3>1
  <2>5. /\ DegreesMinutes(a) \in Int /\ DegreesMinutes(a) < 0
        /\ -DegreesMinutes(a) = whole * (100 * PerMinute) + rest
    BY <2>3, <2>4
  <2>6. Magnitude(DegreesMinutes(a)) = -DegreesMinutes(a)
    BY <2>5 DEF Magnitude
  <2> QED
    BY <1>2, <1>6, <2>5, <2>6 DEF m
<1> QED
  BY <1>5, <1>6

\* What the library makes of a printed angle is the angle but for the printing and the
\* two floats.
LEMMA AngleIsKept ==
  ASSUME NEW a \in Int, NEW letter, NEW negative, letter = negative <=> a < 0,
         NEW x \in Decimal(Angle(a).number, letter, negative)
  PROVE  Near(x, a, AngleError(a))
<1>0. PerMinute \in Nat \ {0} /\ Degree \in Nat \ {0} /\ Degree = 60 * PerMinute
  BY CodecConstantsAssumption DEF CodecConstantsAssumption, Degree
<1>1. PICK whole \in Nat, rest \in 0..Degree - 1 :
        /\ Magnitude(a) = whole * Degree + rest
        /\ Magnitude(DegreesMinutes(a)) = whole * (100 * PerMinute) + rest
  BY DegreesAndRest
<1> DEFINE hundred == 100 * PerMinute
           value == Angle(a).number
<1>2. hundred \in Nat \ {0} /\ Degree < hundred /\ whole * hundred \in Nat
      /\ (whole * hundred) % 2 = 0
  <2>1. hundred = 2 * (50 * PerMinute)
    BY <1>0
  <2>2. whole * hundred = 2 * (whole * (50 * PerMinute)) /\ whole * (50 * PerMinute) \in Nat
    BY <1>0, <2>1
  <2>3. hundred \in Nat \ {0} /\ Degree < hundred
    BY <1>0
  <2> QED
    BY <2>2, <2>3
<1>3. value = Printed(whole * hundred + rest, 2)
  BY <1>1 DEF Angle, Num
<1> HIDE DEF hundred, value
<1>4. PICK r \in Int : value = whole * hundred + r /\ r - rest \in -1..1 /\ r \in 0..hundred - 1
  <2> DEFINE n == whole * hundred + rest
             r == value - whole * hundred
  <2>1. n \in Nat /\ rest \in Nat /\ (rest = 0 => n % 2 = 0)
    BY <1>0, <1>2
  <2>2. value \in Int /\ value - n \in -1..1 /\ (rest = 0 => value = n)
    BY <1>3, <2>1, PrintedDigit
  <2>3. r \in Int /\ r - rest = value - n /\ value = whole * hundred + r
    BY <1>0, <1>2, <2>1, <2>2
  <2> HIDE DEF n, r
  <2>4. r \in 0..hundred - 1
    <3>1. rest = 0 => r = 0
      BY <2>1, <2>2, <2>3
    <3> QED
      BY <1>0, <1>2, <2>1, <2>2, <2>3, <3>1
  <2> QED
    BY <2>2, <2>3, <2>4
<1>5. value \div hundred = whole
  BY <1>2, <1>4, Quotient
<1> DEFINE sign == IF letter = negative THEN -1 ELSE 1
           bit == LastBit(Degree)
           size == Magnitude(a)
           last == LastBit(size + Degree)
<1>6. PICK m \in Float(r) : x \in Float(sign * (whole * Degree + m))
  <2>1. value \div (100 * PerMinute) = whole
    BY <1>5 DEF hundred
  <2>2. whole * 100 * PerMinute = whole * hundred
    BY <1>0 DEF hundred
  <2>3. value - whole * 100 * PerMinute = r
    BY <1>2, <1>4, <2>2
  <2>4. x \in UNION {Float(sign * (whole * Degree + m)) : m \in Float(r)}
    BY <2>1, <2>3 DEF Decimal, value
  <2> QED
    BY <2>4
<1>7. whole * Degree \in Nat /\ rest \in Nat /\ size \in Nat /\ size = whole * Degree + rest
      /\ r <= Degree /\ r >= 0
  BY <1>0, <1>1, <1>4 DEF Magnitude
<1>8. m \in Int /\ m - r \in -bit..bit /\ bit \in Nat /\ bit + 1 <= Degree
  <2>1. Magnitude(r) <= Degree
    BY <1>4, <1>7 DEF Magnitude
  <2>2. m \in Int /\ m - r \in -bit..bit /\ bit \in Nat
    BY <1>0, <1>4, <1>6, <2>1, FloatError
  <2>3. Degree \in Nat /\ Degree >= 120 /\ FloatPrecision \in Nat /\ FloatPrecision >= 2
    BY <1>0, CodecConstantsAssumption DEF CodecConstantsAssumption
  <2> DEFINE q == Degree \div FloatPrecision
  <2>4. bit = q + 1
    BY <2>3 DEF LastBit, Magnitude
  <2>5. q \in Nat /\ Degree % FloatPrecision \in Nat
        /\ Degree = FloatPrecision * q + (Degree % FloatPrecision)
    BY <2>3, Division
  <2> HIDE DEF q
  <2>6. 2 * q <= FloatPrecision * q
    BY <2>3, <2>5
  <2>7. 2 * q <= Degree
    <3>1. FloatPrecision * q \in Nat
      BY <2>3, <2>5
    <3> QED
      BY <2>3, <2>5, <2>6, <3>1
  <2> QED
    BY <2>2, <2>3, <2>4, <2>5, <2>7
<1> DEFINE sum == whole * Degree + m
<1>9. sum \in Int /\ sum - size \in -(bit + 1)..(bit + 1) /\ Magnitude(sign * sum) <= size + Degree
      /\ sign * sum \in Int
  <2>1. sum \in Int /\ sum - size \in -(bit + 1)..(bit + 1)
    BY <1>4, <1>7, <1>8
  <2> HIDE DEF sum, bit, size
  <2>2. Magnitude(sign * sum) <= size + Degree /\ sign * sum \in Int
    BY <1>0, <1>7, <1>8, <2>1 DEF Magnitude
  <2> QED
    BY <2>1, <2>2
<1>10. x \in Int /\ x - sign * sum \in -last..last /\ last \in Nat
  <2>1. size + Degree \in Nat \ {0}
    BY <1>0, <1>7
  <2> HIDE DEF sum, size, sign
  <2>2. x \in Float(sign * sum)
    BY <1>6 DEF sum, sign
  <2> QED
    BY <1>9, <2>1, <2>2, FloatError
<1>11. (a >= 0 => size = a /\ sign = 1) /\ (a < 0 => size = -a /\ sign = -1)
  BY DEF Magnitude
<1> HIDE DEF sum, size, sign, bit, last
<1>12. x - a \in -(1 + bit + last)..(1 + bit + last)
  <2>1. CASE a < 0
    <3>1. sign * sum = -sum
      BY <1>9, <1>11, <2>1
    <3> QED
      BY <1>8, <1>9, <1>10, <1>11, <2>1, <3>1
  <2>2. CASE a >= 0
    <3>1. sign * sum = sum
      BY <1>9, <1>11, <2>2
    <3> QED
      BY <1>8, <1>9, <1>10, <1>11, <2>2, <3>1
  <2> QED
    BY <2>1, <2>2
<1>13. AngleError(a) = 1 + bit + last
  BY DEF AngleError, bit, last, size
<1> QED
  BY <1>8, <1>10, <1>12, <1>13 DEF Near, Magnitude

\* So is the altitude.
LEMMA AltitudeIsKept ==
  ASSUME NEW h \in Int, NEW x \in Float(Printed(h, 2))
  PROVE  Near(x, h, AltitudeError(h))
<1> DEFINE shown == Printed(h, 2)
           top == Magnitude(h) + 1
           last == LastBit(top)
<1>1. shown \in Int /\ shown - h \in -1..1
  BY PrintedDigit
<1> HIDE DEF shown
<1>2. top \in Nat \ {0} /\ Magnitude(shown) <= top
  BY <1>1 DEF Magnitude
<1> HIDE DEF top
<1>3. x \in Int /\ x - shown \in -last..last /\ last \in Nat
  BY <1>1, <1>2, FloatError DEF shown
<1>4. AltitudeError(h) = 1 + last
  BY DEF AltitudeError, top
<1> HIDE DEF last
<1> QED
  BY <1>1, <1>3, <1>4 DEF Near, Magnitude

-----------------------------------------------------------------------------
(* The two sentences. *)

\* A text or a number is no empty field.
LEMMA Filled == (\A t : t # "" => Text(t) # Empty) /\ (\A n : Num(n) # Empty /\ Num(n).number = n)
  BY DEF Text, Num, Empty

\* The parser of GPGGA counts to the fields it means: the empty ones come after them.
LEMMA GgaTokens ==
  ASSUME NEW p
  PROVE  LET s == GgaFields(p)
         IN  /\ s # <<>>
             /\ TokenAt(s, 2) = Angle(p.lat) /\ TokenAt(s, 3) = Letter(p.lat, "N", "S")
             /\ TokenAt(s, 4) = Angle(p.lon) /\ TokenAt(s, 5) = Letter(p.lon, "E", "W")
             /\ NumberAt(s, 9) = Printed(p.alt, 2)
<1> DEFINE s == GgaFields(p)
<1>1. /\ Len(s) = 15 /\ s[1] = Text("utc") /\ s[2] = Angle(p.lat) /\ s[3] = Letter(p.lat, "N", "S")
      /\ s[4] = Angle(p.lon) /\ s[5] = Letter(p.lon, "E", "W") /\ s[6] = Num(8) /\ s[7] = Num(10)
      /\ s[8] = Num(1) /\ s[9] = Num(Printed(p.alt, 2)) /\ s # <<>>
  BY DEF GgaFields
<1> HIDE DEF s
<1>2. /\ Angle(p.lat) # Empty /\ Letter(p.lat, "N", "S") # Empty
      /\ Angle(p.lon) # Empty /\ Letter(p.lon, "E", "W") # Empty
  BY Filled DEF Angle, Letter
<1>3. /\ s[1] # Empty /\ s[2] # Empty /\ s[3] # Empty /\ s[4] # Empty /\ s[5] # Empty
      /\ s[6] # Empty /\ s[7] # Empty /\ s[8] # Empty /\ s[9] # Empty
  BY <1>1, <1>2, Filled, Zenon
<1>4. FullTo(s, 9)
  BY <1>1, <1>3 DEF FullTo
<1>5. \A n \in 1..9 : TokenAt(s, n) = s[n]
  BY <1>1, <1>4, TokensAreFields
<1>6. /\ TokenAt(s, 2) = s[2] /\ TokenAt(s, 3) = s[3] /\ TokenAt(s, 4) = s[4]
      /\ TokenAt(s, 5) = s[5] /\ TokenAt(s, 9) = s[9]
  BY <1>5
<1> QED
  BY <1>1, <1>6, Filled, Zenon DEF NumberAt, s

\* So does that of BESTXYZA, twenty-seven fields and none of them empty.
LEMMA XyzTokens ==
  ASSUME NEW p, NEW x, NEW y, NEW z, p.pos = <<x, y, z>>, NEW u, NEW v, NEW w, p.vel = <<u, v, w>>
  PROVE  LET s == XyzFields(p)
         IN  /\ s # <<>>
             /\ NumberAt(s, 5) = Week /\ NumberAt(s, 6) = GpSec(p)
             /\ VectorAt(s, 12) = <<Significant(x), Significant(y), Significant(z)>>
             /\ VectorAt(s, 20) = <<Significant(u), Significant(v), Significant(w)>>
<1> DEFINE s == XyzFields(p)
<1>1. /\ Len(s) = 27 /\ s # <<>>
      /\ s[1] = Text("COM1") /\ s[2] = Num(0) /\ s[3] = Num(0) /\ s[4] = Text("FINESTEERING")
      /\ s[5] = Num(Week) /\ s[6] = Num(GpSec(p)) /\ s[7] = Num(40) /\ s[8] = Text("D821")
      /\ s[9] = Num(2724)
      /\ s[10] = Text("SOL_COMPUTED") /\ s[11] = Text("NARROW_INT")
      /\ s[12] = Num(Significant(x)) /\ s[13] = Num(Significant(y)) /\ s[14] = Num(Significant(z))
      /\ s[15] = Num(0) /\ s[16] = Num(0) /\ s[17] = Num(0)
      /\ s[18] = Text("SOL_COMPUTED") /\ s[19] = Text("NARROW_INT")
      /\ s[20] = Num(Significant(u)) /\ s[21] = Num(Significant(v)) /\ s[22] = Num(Significant(w))
  BY DEF XyzFields
<1>0. s # <<>>
  BY <1>1
<1> HIDE DEF s
<1>2. FullTo(s, 22)
  <2>1. /\ Text("COM1") # Empty /\ Text("FINESTEERING") # Empty /\ Text("D821") # Empty
        /\ Text("SOL_COMPUTED") # Empty /\ Text("NARROW_INT") # Empty
    BY Filled
  <2>2. Num(0) # Empty /\ Num(Week) # Empty /\ Num(GpSec(p)) # Empty
    BY Filled
  <2>3. Num(40) # Empty /\ Num(2724) # Empty
    <3>1. \A n \in Nat : Num(n) # Empty
      BY Filled, Zenon
    <3> QED
      BY <3>1
  <2>4. /\ Num(Significant(x)) # Empty /\ Num(Significant(y)) # Empty
        /\ Num(Significant(z)) # Empty /\ Num(Significant(u)) # Empty
        /\ Num(Significant(v)) # Empty /\ Num(Significant(w)) # Empty
    BY Filled, Zenon
  <2>5. \A i \in 1..22 : s[i] # Empty
    BY <1>1, <2>1, <2>2, <2>3, <2>4
  <2> QED
    BY <1>1, <2>5 DEF FullTo
<1>3. \A n \in 1..22 : TokenAt(s, n) = s[n]
  <2>1. Len(s) \in Nat /\ 22 \in Nat
    BY <1>1
  <2> QED
    BY <1>2, <2>1, TokensAreFields, Zenon
<1>4. NumberAt(s, 5) = Week /\ NumberAt(s, 6) = GpSec(p)
  <2>1. TokenAt(s, 5) = s[5] /\ TokenAt(s, 6) = s[6]
    BY <1>3
  <2> QED
    BY <1>1, <2>1 DEF NumberAt, Num
<1>5. VectorAt(s, 12) = <<Significant(x), Significant(y), Significant(z)>>
  <2>1. TokenAt(s, 12) = s[12] /\ TokenAt(s, 12 + 1) = s[13] /\ TokenAt(s, 12 + 2) = s[14]
    BY <1>3
  <2>2. /\ NumberAt(s, 12) = Significant(x) /\ NumberAt(s, 12 + 1) = Significant(y)
        /\ NumberAt(s, 12 + 2) = Significant(z)
    BY <1>1, <2>1 DEF NumberAt, Num
  <2> QED
    BY <2>2, Zenon DEF VectorAt
<1>6. VectorAt(s, 20) = <<Significant(u), Significant(v), Significant(w)>>
  <2>1. TokenAt(s, 20) = s[20] /\ TokenAt(s, 20 + 1) = s[21] /\ TokenAt(s, 20 + 2) = s[22]
    BY <1>3
  <2>2. /\ NumberAt(s, 20) = Significant(u) /\ NumberAt(s, 20 + 1) = Significant(v)
        /\ NumberAt(s, 20 + 2) = Significant(w)
    BY <1>1, <2>1 DEF NumberAt, Num
  <2> QED
    BY <2>2, Zenon DEF VectorAt
<1> QED
  BY <1>0, <1>4, <1>5, <1>6, Zenon DEF s

\* The numbers of a data point.
LEMMA PointFields ==
  ASSUME NEW p \in AnyPoint
  PROVE  /\ p.lat \in Int /\ p.lon \in Int /\ p.alt \in Int /\ p.sec \in Int /\ p.frac \in Int
         /\ \E x, y, z \in Coordinates : p.pos = <<x, y, z>>
         /\ \E u, v, w \in Coordinates : p.vel = <<u, v, w>>
<1>1. p.lat \in Int /\ p.lon \in Int /\ p.alt \in Int
  BY DEF AnyPoint
<1>2. p.sec \in Int
  BY DEF AnyPoint
<1>3. p.frac \in Int
  BY DEF AnyPoint
<1>4. \E x, y, z \in Coordinates : p.pos = <<x, y, z>>
  <2>1. p.pos \in Vectors
    BY DEF AnyPoint
  <2> QED
    BY <2>1 DEF Vectors
<1>5. \E u, v, w \in Coordinates : p.vel = <<u, v, w>>
  <2>1. p.vel \in Vectors
    BY DEF AnyPoint
  <2> QED
    BY <2>1 DEF Vectors
<1> QED
  BY <1>1, <1>2, <1>3, <1>4, <1>5

\* The time that comes out is the one that went in to thirty-one and a half
\* milliseconds: sixty-two units of the float and one of the printing.
LEMMA TimeIsKept ==
  ASSUME NEW p \in AnyPoint
  PROVE  Near(2000 * (GpSec(p) \div 2000) + (GpSec(p) % 2000), 2000 * p.sec + p.frac, 63)
<1> DEFINE time == 2000 * p.sec + p.frac
           float == Printed(time, 125)
           shown == GpSec(p)
<1>1. time \in Int
  BY PointFields
<1>2. float \in Int /\ float - time \in -62..62
  BY <1>1, PrintedFloat
<1>3. shown \in Int /\ shown - float \in -1..1
  BY <1>2, PrintedDigit DEF GpSec
<1> HIDE DEF time, float, shown
<1>4. 2000 * (shown \div 2000) + (shown % 2000) = shown
  BY <1>3, Division
<1>5. shown - time \in -63..63
  BY <1>1, <1>2, <1>3
<1>6. Near(shown, time, 63)
  BY <1>5 DEF Near, Magnitude
<1> QED
  BY <1>4, <1>6 DEF shown, time

-----------------------------------------------------------------------------
(* The invariant. *)

\* A sentence that waits to be parsed is one the simulator has formatted from the point,
\* and the record has its fields.
Waiting ==
    \/ sentence = <<>>
    \/ kind = "GPGGA" /\ sentence = GgaFields(point)
    \/ kind = "BESTXYZA" /\ sentence = XyzFields(point)

CodecInv ==
    /\ point \in Points
    /\ kind \in {"none", "GPGGA", "BESTXYZA"}
    /\ DOMAIN data = {"weeks", "seconds", "frac", "pos", "vel", "lat", "lon", "alt"}
    /\ Waiting
    /\ PositionSurvives /\ SolutionSurvives

\* The parser of GPGGA keeps the position.
LEMMA GpggaKeeps == CodecInv /\ ParseBestGPGGA => CodecInv'
<1> SUFFICES ASSUME CodecInv, ParseBestGPGGA PROVE CodecInv'
  OBVIOUS
<1> DEFINE s == GgaFields(point)
<1>1. sentence = s /\ point \in AnyPoint /\ point.lat \in Int /\ point.lon \in Int
      /\ point.alt \in Int
  BY CodecConstantsAssumption, PointFields
  DEF CodecInv, Waiting, ParseBestGPGGA, CodecConstantsAssumption
<1>2. /\ TokenAt(s, 2) = Angle(point.lat) /\ TokenAt(s, 3) = Letter(point.lat, "N", "S")
      /\ TokenAt(s, 4) = Angle(point.lon) /\ TokenAt(s, 5) = Letter(point.lon, "E", "W")
      /\ NumberAt(s, 9) = Printed(point.alt, 2)
  BY GgaTokens
<1>3. /\ Letter(point.lat, "N", "S") = Text("S") <=> point.lat < 0
      /\ Letter(point.lon, "E", "W") = Text("W") <=> point.lon < 0
  <2>1. Text("N") # Text("S") /\ Text("E") # Text("W")
    BY DEF Text
  <2>2. \A a \in Int : DegreesMinutes(a) >= 0 <=> a >= 0
    BY DegreesAndRest
  <2> QED
    BY <1>1, <2>1, <2>2 DEF Letter
<1>4. /\ data'.lat \in Decimal(NumberAt(s, 2), TokenAt(s, 3), Text("S"))
      /\ data'.lon \in Decimal(NumberAt(s, 4), TokenAt(s, 5), Text("W"))
      /\ data'.alt \in Float(NumberAt(s, 9))
      /\ DOMAIN data' = DOMAIN data
  BY <1>1 DEF ParseBestGPGGA, CodecInv
<1>5. NumberAt(s, 2) = Angle(point.lat).number /\ NumberAt(s, 4) = Angle(point.lon).number
  BY <1>2 DEF NumberAt
<1>6. /\ Near(data'.lat, point.lat, AngleError(point.lat))
      /\ Near(data'.lon, point.lon, AngleError(point.lon))
      /\ Near(data'.alt, point.alt, AltitudeError(point.alt))
  BY <1>1, <1>2, <1>3, <1>4, <1>5, AngleIsKept, AltitudeIsKept
<1> QED
  BY <1>4, <1>6 DEF CodecInv, Waiting, ParseBestGPGGA, PositionSurvives, SolutionSurvives, Parsed

\* The parser of BESTXYZA keeps the solution.
LEMMA BestxyzaKeeps == CodecInv /\ ParseBestXYZA => CodecInv'
<1> SUFFICES ASSUME CodecInv, ParseBestXYZA PROVE CodecInv'
  OBVIOUS
<1> DEFINE s == XyzFields(point)
<1>1. sentence = s /\ point \in AnyPoint
  BY CodecConstantsAssumption DEF CodecInv, Waiting, ParseBestXYZA, CodecConstantsAssumption
<1>2. PICK x \in Coordinates, y \in Coordinates, z \in Coordinates : point.pos = <<x, y, z>>
  BY <1>1, PointFields
<1>3. PICK u \in Coordinates, v \in Coordinates, w \in Coordinates : point.vel = <<u, v, w>>
  BY <1>1, PointFields
<1>4. /\ NumberAt(s, 5) = Week /\ NumberAt(s, 6) = GpSec(point)
      /\ VectorAt(s, 12) = <<Significant(x), Significant(y), Significant(z)>>
      /\ VectorAt(s, 20) = <<Significant(u), Significant(v), Significant(w)>>
  BY <1>2, <1>3, XyzTokens
<1>5. /\ data'.weeks = Week
      /\ data'.pos = <<Significant(x), Significant(y), Significant(z)>>
      /\ data'.vel = <<Significant(u), Significant(v), Significant(w)>>
      /\ data'.seconds = GpSec(point) \div 2000 /\ data'.frac = GpSec(point) % 2000
      /\ DOMAIN data' = DOMAIN data
  BY <1>1, <1>4 DEF ParseBestXYZA, CodecInv
<1>6. Near(2000 * data'.seconds + data'.frac, 2000 * point.sec + point.frac, 63)
  BY <1>1, <1>5, TimeIsKept
<1>7. \A i \in 1..3 : Near(data'.pos[i], point.pos[i], Magnitude(point.pos[i]) \div 2000)
  BY <1>2, <1>5, FourDigits
<1>8. \A i \in 1..3 : Near(data'.vel[i], point.vel[i], Magnitude(point.vel[i]) \div 2000)
  BY <1>3, <1>5, FourDigits
<1> QED
  BY <1>5, <1>6, <1>7, <1>8
  DEF CodecInv, Waiting, ParseBestXYZA, PositionSurvives, SolutionSurvives, Parsed

\* Every step keeps the invariant.
LEMMA CodecInvariant == Spec => []CodecInv
<1>1. Init => CodecInv
  BY DEF Init, CodecInv, Waiting, NoData, PositionSurvives, SolutionSurvives, Parsed
<1>2. CodecInv /\ [Next]_vars => CodecInv'
  <2> SUFFICES ASSUME CodecInv, [Next]_vars PROVE CodecInv'
    OBVIOUS
  <2>1. CASE GetGpggaResponse
    <3>1. GgaFields(point) # <<>>
      BY GgaTokens
    <3> QED
      BY <2>1, <3>1 DEF GetGpggaResponse, Respond, CodecInv, Waiting, PositionSurvives,
        SolutionSurvives, Parsed
  <2>2. CASE GetBestxyzaResponse
    <3>1. point \in AnyPoint
      BY CodecConstantsAssumption DEF CodecInv, CodecConstantsAssumption
    <3>2. PICK x \in Coordinates, y \in Coordinates, z \in Coordinates : point.pos = <<x, y, z>>
      BY <3>1, PointFields
    <3>3. PICK u \in Coordinates, v \in Coordinates, w \in Coordinates : point.vel = <<u, v, w>>
      BY <3>1, PointFields
    <3>4. XyzFields(point) # <<>>
      BY <3>2, <3>3, XyzTokens
    <3> QED
      BY <2>2, <3>4 DEF GetBestxyzaResponse, Respond, CodecInv, Waiting, PositionSurvives,
        SolutionSurvives, Parsed
  <2>3. CASE ParseBestXYZA
    BY <2>3, BestxyzaKeeps
  <2>4. CASE ParseBestGPGGA
    BY <2>4, GpggaKeeps
  <2>5. CASE UNCHANGED vars
    BY <2>5 DEF vars, CodecInv, Waiting, PositionSurvives, SolutionSurvives, Parsed
  <2> QED
    BY <2>1, <2>2, <2>3, <2>4, <2>5 DEF Next
<1> QED
  BY <1>1, <1>2, PTL DEF Spec

\* For any position, any number of digits and any float of two bits or more, what
\* novatel_oem615_device.c reads out of a GPGGA sentence is the position the simulator put
\* in, with its signs, but for half a digit and the two floats, whatever the rounding of
\* the minutes does.
THEOREM PositionIsKept == Spec => []PositionSurvives
<1>1. CodecInv => PositionSurvives
  BY DEF CodecInv
<1> QED
  BY <1>1, CodecInvariant, PTL

\* For any time from 2^19 seconds into the week on and any position and velocity of up to
\* ten thousand kilometres, every number of a BESTXYZA sentence ends in the variable it is
\* for, the time right to a thirty-second of a second, the others to a two-thousandth.
THEOREM SolutionIsKept == Spec => []SolutionSurvives
<1>1. CodecInv => SolutionSurvives
  BY DEF CodecInv
<1> QED
  BY <1>1, CodecInvariant, PTL
=============================================================================
