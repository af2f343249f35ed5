--------------------------- MODULE RoundTripProofs --------------------------
(***************************************************************************)
(* Theorems about what is written and read again.  Every amount is read as *)
(* it was written, and an export that nobody disturbed goes back in        *)
(* through the import to the same people at the same pay: until something  *)
(* is written every line that was read is what the tables still say, what  *)
(* toCsvRecord makes of a person readRow makes the person of, and a file   *)
(* of everybody is placed whole.                                           *)
(***************************************************************************)
EXTENDS FilesProofs

-----------------------------------------------------------------------------
(* Amounts *)

Digit == Range(Digits)

\* Ten digits, of different values.
LEMMA DigitsDiffer ==
    /\ \A d \in 0..9 : Digits[d + 1] \in Digit /\ ValueOf(Digits[d + 1]) = d
    /\ \A c \in Digit : ValueOf(c) \in 0..9
    /\ Digit \cap (Whitespace \cup {Quote, Comma, CR, LF, "."}) = {}
<1>1. DOMAIN Digits = 1..10
    BY DEF Digits
<1>2. \A d, e \in 0..9 : Digits[d + 1] = Digits[e + 1] => d = e
    BY DEF Digits
<1>3. \A c \in Digit : \E d \in 0..9 : Digits[d + 1] = c
    <2> SUFFICES ASSUME NEW k \in 1..10 PROVE \E d \in 0..9 : Digits[d + 1] = Digits[k]
        BY <1>1 DEF Digit, Range
    <2>1. k - 1 \in 0..9 /\ (k - 1) + 1 = k
        OBVIOUS
    <2> QED BY <2>1
<1>4. \A d \in 0..9 : Digits[d + 1] \in Digit
    BY <1>1 DEF Digit, Range
<1>5. \A c \in Digit : ValueOf(c) \in 0..9 /\ Digits[ValueOf(c) + 1] = c
    BY <1>3 DEF ValueOf
<1>6. \A d \in 0..9 : ValueOf(Digits[d + 1]) = d
    BY <1>2, <1>4, <1>5
<1>7. Digit = {"0", "1", "2", "3", "4", "5", "6", "7", "8", "9"}
    BY <1>1 DEF Digit, Range, Digits
<1>8. Digit \cap (Whitespace \cup {Quote, Comma, CR, LF, "."}) = {}
    BY <1>7 DEF Whitespace, Quote, Comma, CR, LF, Tab, Space, BOM
<1> QED BY <1>4, <1>5, <1>6, <1>8

\* f is the value of the first k digits.
Counts(f, digits, n) ==
    f = [k \in 0..n |-> IF k = 0 THEN 0 ELSE 10 * f[k - 1] + ValueOf(digits[k])]

\* Two such functions agree as far as both go.
LEMMA CountsAgree ==
    ASSUME NEW digits, NEW m \in Nat, NEW n \in Nat, m <= n, NEW f, NEW g,
           Counts(f, digits, n), Counts(g, digits, m)
    PROVE  \A k \in 0..m : f[k] = g[k]
<1> DEFINE bad == {k \in 0..m : f[k] # g[k]}
<1>1. SUFFICES ASSUME bad # {} PROVE FALSE
    OBVIOUS
<1>2. PICK k \in bad : \A j \in bad : k <= j
    <2>1. bad \in SUBSET Nat
        OBVIOUS
    <2> HIDE DEF bad
    <2> QED BY <1>1, <2>1, LeastExists
<1>3. /\ \A j \in 0..n : f[j] = IF j = 0 THEN 0 ELSE 10 * f[j - 1] + ValueOf(digits[j])
      /\ \A j \in 0..m : g[j] = IF j = 0 THEN 0 ELSE 10 * g[j - 1] + ValueOf(digits[j])
    BY DEF Counts
<1>4. k \in 1..m /\ k \in 0..n
    BY <1>2, <1>3
<1>5. k - 1 \in 0..m /\ ~ k <= k - 1
    BY <1>4
<1>6. f[k - 1] = g[k - 1]
    BY <1>2, <1>5
<1> QED BY <1>2, <1>3, <1>4, <1>6

\* There is such a function, however many digits there are.
LEMMA CountsExist ==
    ASSUME NEW digits, NEW n \in Nat
    PROVE  \E f : Counts(f, digits, n)
<1> DEFINE bad == {k \in Nat : ~ \E f : Counts(f, digits, k)}
<1>1. SUFFICES ASSUME bad # {} PROVE FALSE
    OBVIOUS
<1>2. PICK k \in bad : \A j \in bad : k <= j
    <2>1. bad \in SUBSET Nat
        OBVIOUS
    <2> HIDE DEF bad
    <2> QED BY <1>1, <2>1, LeastExists
<1>3. k # 0
    <2>1. Counts([j \in 0..0 |-> 0], digits, 0)
        BY DEF Counts
    <2> QED BY <1>2, <2>1
<1>4. k - 1 \in Nat /\ ~ k <= k - 1
    BY <1>2, <1>3
<1>5. PICK f : Counts(f, digits, k - 1)
    BY <1>2, <1>4
<1> DEFINE g == [j \in 0..k |-> IF j < k THEN f[j] ELSE 10 * f[k - 1] + ValueOf(digits[k])]
<1>6. \A j \in 0..k : g[j] = IF j = 0 THEN 0 ELSE 10 * g[j - 1] + ValueOf(digits[j])
    <2> TAKE j \in 0..k
    <2>1. \A i \in 0..(k - 1) : f[i] = IF i = 0 THEN 0 ELSE 10 * f[i - 1] + ValueOf(digits[i])
        BY <1>5 DEF Counts
    <2>2. CASE j < k
        <3>1. j \in 0..(k - 1) /\ (j # 0 => j - 1 \in 0..k /\ j - 1 < k)
            BY <1>2, <2>2
        <3>2. g[j] = f[j] /\ (j # 0 => g[j - 1] = f[j - 1])
            BY <2>2, <3>1
        <3> QED BY <2>1, <3>1, <3>2
    <2>3. CASE j = k
        <3>1. g[k] = 10 * f[k - 1] + ValueOf(digits[k])
            BY <1>2
        <3>2. g[k - 1] = f[k - 1]
            BY <1>2, <1>4
        <3> QED BY <1>3, <2>3, <3>1, <3>2
    <2> QED BY <1>2, <2>2, <2>3
<1>7. Counts(g, digits, k)
    <2>1. g = [j \in 0..k |-> g[j]]
        OBVIOUS
    <2> HIDE DEF g
    <2>2. g = [j \in 0..k |-> IF j = 0 THEN 0 ELSE 10 * g[j - 1] + ValueOf(digits[j])]
        BY <1>6, <2>1
    <2> QED BY <2>2 DEF Counts
<1> QED BY <1>2, <1>7

\* A digit more makes a number ten times as large, and the digit.
LEMMA NumbersGrow ==
    ASSUME NEW X, NEW digits \in Seq(X), NEW c \in X
    PROVE  /\ NumberOf(<<>>) = 0
           /\ NumberOf(Append(digits, c)) = 10 * NumberOf(digits) + ValueOf(c)
<1> DEFINE The(s) == CHOOSE f : Counts(f, s, Len(s))
           more == Append(digits, c)
           L == Len(digits)
<1>1. \A s : NumberOf(s) = The(s)[Len(s)]
    BY DEF NumberOf, Counts
<1>2. \A s : Len(s) \in Nat => Counts(The(s), s, Len(s))
    BY CountsExist
<1> HIDE DEF The
<1>3. NumberOf(<<>>) = 0
    <2> DEFINE f == The(<<>>)
    <2>1. Counts(f, <<>>, 0) /\ NumberOf(<<>>) = f[0]
        BY <1>1, <1>2
    <2> HIDE DEF f
    <2> QED BY <2>1 DEF Counts
<1>4. /\ L \in Nat /\ Len(more) = L + 1 /\ more[L + 1] = c
      /\ \A k \in 1..L : more[k] = digits[k]
    OBVIOUS
<1> DEFINE f == The(digits)
           g == The(more)
<1>5. Counts(f, digits, L) /\ Counts(g, more, L + 1)
    <2>1. Len(digits) = L /\ L \in Nat /\ Len(more) = L + 1 /\ L + 1 \in Nat
        BY <1>4
    <2> HIDE DEF more, L
    <2> QED BY <1>2, <2>1
<1>6. NumberOf(digits) = f[L] /\ NumberOf(more) = g[L + 1]
    BY <1>1, <1>4
<1> HIDE DEF f, g, L
<1>7. Counts(f, more, L)
    <2>1. f = [k \in 0..L |-> IF k = 0 THEN 0 ELSE 10 * f[k - 1] + ValueOf(digits[k])]
        BY <1>5 DEF Counts
    <2>2. \A k \in 0..L : (IF k = 0 THEN 0 ELSE 10 * f[k - 1] + ValueOf(digits[k]))
                              = (IF k = 0 THEN 0 ELSE 10 * f[k - 1] + ValueOf(more[k]))
        BY <1>4
    <2> HIDE DEF more
    <2>3. f = [k \in 0..L |-> IF k = 0 THEN 0 ELSE 10 * f[k - 1] + ValueOf(more[k])]
        BY <2>1, <2>2
    <2> QED BY <2>3 DEF Counts
<1>8. g[L] = f[L]
    <2>1. L + 1 \in Nat /\ L <= L + 1 /\ L \in 0..L
        BY <1>4
    <2>2. \A k \in 0..L : g[k] = f[k]
        <3>1. L \in Nat /\ L + 1 \in Nat /\ L <= L + 1 /\ Counts(g, more, L + 1) /\ Counts(f, more, L)
            BY <1>4, <1>5, <1>7, <2>1
        <3> HIDE DEF more
        <3> QED BY <3>1, CountsAgree
    <2> QED BY <2>1, <2>2
<1>9. g[L + 1] = 10 * g[L] + ValueOf(c)
    <2>1. L + 1 \in 0..(L + 1) /\ L + 1 # 0 /\ (L + 1) - 1 = L
        BY <1>4
    <2>2. \A k \in 0..(L + 1) : g[k] = IF k = 0 THEN 0 ELSE 10 * g[k - 1] + ValueOf(more[k])
        BY <1>5 DEF Counts
    <2> QED BY <1>4, <2>1, <2>2
<1> QED BY <1>3, <1>6, <1>8, <1>9

\* f spells the numbers up to n.
Spells(f, n) ==
    f = [k \in 0..n |-> IF k < 10 THEN <<Digits[k + 1]>>
                        ELSE Append(f[k \div 10], Digits[(k % 10) + 1])]

\* A number of two digits or more without its last one.
LEMMA TenthIsLess ==
    ASSUME NEW k \in Nat, ~ k < 10
    PROVE  k \div 10 \in Nat /\ k \div 10 < k /\ k % 10 \in 0..9 /\ 10 * (k \div 10) + (k % 10) = k
           /\ k \div 10 # 0
OBVIOUS

\* Every number is spelt.
LEMMA SpellingsExist ==
    ASSUME NEW n \in Nat
    PROVE  \E f : Spells(f, n)
<1> DEFINE bad == {k \in Nat : ~ \E f : Spells(f, k)}
<1>1. SUFFICES ASSUME bad # {} PROVE FALSE
    OBVIOUS
<1>2. PICK k \in bad : \A j \in bad : k <= j
    <2>1. bad \in SUBSET Nat
        OBVIOUS
    <2> HIDE DEF bad
    <2> QED BY <1>1, <2>1, LeastExists
<1>3. k # 0
    <2> DEFINE f == [j \in 0..0 |-> <<Digits[j + 1]>>]
    <2>1. \A j \in 0..0 : j < 10
        OBVIOUS
    <2>2. Spells(f, 0)
        BY <2>1 DEF Spells
    <2> QED BY <1>2, <2>2
<1>4. k - 1 \in Nat /\ ~ k <= k - 1
    BY <1>2, <1>3
<1>5. PICK f : Spells(f, k - 1)
    BY <1>2, <1>4
<1> DEFINE last == IF k < 10 THEN <<Digits[k + 1]>> ELSE Append(f[k \div 10], Digits[(k % 10) + 1])
           g == [j \in 0..k |-> IF j < k THEN f[j] ELSE last]
<1>6. /\ \A j \in 0..k : j < k => g[j] = f[j]
      /\ g[k] = last /\ g = [j \in 0..k |-> g[j]]
    <2> HIDE DEF last
    <2> QED BY <1>2
<1> HIDE DEF g
<1>7. \A j \in 0..k : g[j] = IF j < 10 THEN <<Digits[j + 1]>>
                             ELSE Append(g[j \div 10], Digits[(j % 10) + 1])
    <2> TAKE j \in 0..k
    <2>1. j \in Nat /\ k \in Nat
        BY <1>2
    <2>2. CASE j < 10 /\ j < k
        <3>1. j \in 0..(k - 1)
            BY <2>1, <2>2
        <3>2. f[j] = <<Digits[j + 1]>>
            BY <1>5, <2>2, <3>1 DEF Spells
        <3> QED BY <1>6, <2>2, <3>2
    <2>3. CASE ~ j < 10 /\ j < k
        <3>1. j \in 0..(k - 1)
            BY <2>1, <2>3
        <3>2. f[j] = Append(f[j \div 10], Digits[(j % 10) + 1])
            BY <1>5, <2>3, <3>1 DEF Spells
        <3>3. j \div 10 \in 0..k /\ j \div 10 < k
            BY <2>1, <2>3, TenthIsLess
        <3>4. g[j \div 10] = f[j \div 10]
            BY <1>6, <3>3
        <3> QED BY <1>6, <2>3, <3>2, <3>4
    <2>4. CASE j = k /\ k < 10
        BY <1>6, <2>4
    <2>5. CASE j = k /\ ~ k < 10
        <3>1. k \div 10 \in 0..k /\ k \div 10 < k
            BY <2>1, <2>5, TenthIsLess
        <3>2. g[k \div 10] = f[k \div 10]
            BY <1>6, <3>1
        <3> QED BY <1>6, <2>5, <3>2
    <2> QED BY <2>1, <2>2, <2>3, <2>4, <2>5
<1>8. Spells(g, k)
    BY <1>6, <1>7 DEF Spells
<1> QED BY <1>2, <1>8

\* A number is spelt in digits, and they are its value.
LEMMA NumeralIsNumber ==
    ASSUME NEW n \in Nat
    PROVE  Numeral(n) \in Seq(Digit) /\ Numeral(n) # <<>> /\ NumberOf(Numeral(n)) = n
<1> DEFINE f == CHOOSE g : Spells(g, n)
           Right(k) == f[k] \in Seq(Digit) /\ f[k] # <<>> /\ NumberOf(f[k]) = k
<1>1. Numeral(n) = f[n]
    BY DEF Numeral, Spells
<1>2. Spells(f, n)
    BY SpellingsExist
<1> HIDE DEF f
<1>3. \A k \in 0..n : f[k] = IF k < 10 THEN <<Digits[k + 1]>>
                             ELSE Append(f[k \div 10], Digits[(k % 10) + 1])
    BY <1>2 DEF Spells
<1> DEFINE bad == {k \in 0..n : ~Right(k)}
<1>4. SUFFICES ASSUME bad # {} PROVE FALSE
    <2>1. Right(n)
        BY <1>4
    <2> QED BY <1>1, <2>1
<1>5. PICK k \in bad : \A j \in bad : k <= j
    <2>1. bad \in SUBSET Nat
        OBVIOUS
    <2> HIDE DEF bad
    <2> QED BY <1>4, <2>1, LeastExists
<1>6. k \in 0..n /\ k \in Nat
    BY <1>5
<1>7. CASE k < 10
    <2> DEFINE c == Digits[k + 1]
    <2>1. c \in Digit /\ ValueOf(c) = k /\ f[k] = <<c>>
        <3>1. k \in 0..9
            BY <1>6, <1>7
        <3>2. f[k] = <<c>>
            BY <1>3, <1>6, <1>7
        <3> HIDE DEF bad
        <3> QED BY <3>1, <3>2, DigitsDiffer
    <2> HIDE DEF c
    <2>2. <<>> \in Seq(Digit) /\ Append(<<>>, c) = <<c>>
        OBVIOUS
    <2>3. NumberOf(Append(<<>>, c)) = 10 * NumberOf(<<>>) + ValueOf(c) /\ NumberOf(<<>>) = 0
        BY <2>1, <2>2, NumbersGrow
    <2>4. NumberOf(f[k]) = k
        BY <1>6, <2>1, <2>2, <2>3
    <2>5. f[k] \in Seq(Digit) /\ f[k] # <<>>
        BY <2>1
    <2> QED BY <1>5, <2>4, <2>5
<1>8. CASE ~ k < 10
    <2> DEFINE t == k \div 10
               c == Digits[(k % 10) + 1]
    <2>1. t \in 0..n /\ t < k /\ k % 10 \in 0..9 /\ 10 * t + (k % 10) = k
        BY <1>6, <1>8, TenthIsLess
    <2>2. c \in Digit /\ ValueOf(c) = k % 10 /\ f[k] = Append(f[t], c)
        BY <1>3, <1>6, <1>8, <2>1, DigitsDiffer
    <2>3. Right(t)
        <3>1. t \notin bad
            BY <1>5, <1>6, <2>1
        <3> HIDE DEF t, Right
        <3> QED BY <2>1, <3>1
    <2>4. f[t] \in Seq(Digit) /\ NumberOf(f[t]) = t
        BY <2>3
    <2> HIDE DEF t, c
    <2>5. NumberOf(f[k]) = 10 * t + (k % 10)
        BY <2>2, <2>4, NumbersGrow
    <2>6. f[k] \in Seq(Digit) /\ f[k] # <<>>
        BY <2>2, <2>4
    <2> QED BY <1>5, <2>1, <2>5, <2>6
<1> QED BY <1>7, <1>8

\* Whole units, tenths and hundredths.
LEMMA PartsOfAmount ==
    ASSUME NEW minor \in Nat
    PROVE  /\ minor \div 100 \in Nat /\ (minor \div 10) % 10 \in 0..9 /\ minor % 10 \in 0..9
           /\ 100 * (minor \div 100) + 10 * ((minor \div 10) % 10) + (minor % 10) = minor
OBVIOUS

\* What two digits come to.
LEMMA TwoDigits ==
    ASSUME NEW c \in Digit, NEW d \in Digit
    PROVE  NumberOf(<<c, d>>) = 10 * ValueOf(c) + ValueOf(d)
<1>1. ValueOf(c) \in Nat /\ ValueOf(d) \in Nat
    BY DigitsDiffer
<1>2. <<>> \in Seq(Digit) /\ <<c>> \in Seq(Digit) /\ Append(<<>>, c) = <<c>>
    OBVIOUS
<1>5. Append(<<c>>, d) = <<c, d>>
    <2> DEFINE a == Append(<<c>>, d)
               b == <<c, d>>
    <2>1. a \in Seq(Digit) /\ Len(a) = 2 /\ a[1] = c /\ a[2] = d
        OBVIOUS
    <2>2. b \in Seq(Digit) /\ Len(b) = 2 /\ b[1] = c /\ b[2] = d
        OBVIOUS
    <2> HIDE DEF a, b
    <2>3. \A n \in 1..Len(a) : a[n] = b[n]
        BY <2>1, <2>2
    <2>4. a = b
        BY <2>1, <2>2, <2>3, SameSequence
    <2> QED BY <2>4 DEF a, b
<1>3. NumberOf(Append(<<>>, c)) = 10 * NumberOf(<<>>) + ValueOf(c) /\ NumberOf(<<>>) = 0
    BY <1>2, NumbersGrow
<1>4. NumberOf(Append(<<c>>, d)) = 10 * NumberOf(<<c>>) + ValueOf(d)
    BY <1>2, NumbersGrow
<1>6. NumberOf(<<c>>) = ValueOf(c)
    BY <1>1, <1>2, <1>3
<1> QED BY <1>4, <1>5, <1>6

\* Digits, a point and two digits, which begin with no sign.
LEMMA AmountIsText ==
    ASSUME NEW minor \in Nat
    PROVE  LET text  == FormatMinorToDecimal(minor)
               whole == Numeral(minor \div 100)
               L     == Len(whole)
               c     == Digits[((minor \div 10) % 10) + 1]
               d     == Digits[(minor % 10) + 1]
           IN  /\ L \in Nat \ {0} /\ text \in Seq(Digit \cup {"."}) /\ Len(text) = L + 3
               /\ \A n \in 1..L : text[n] = whole[n] /\ text[n] \in Digit
               /\ text[L + 1] = "." /\ text[L + 2] = c /\ text[L + 3] = d
               /\ ~NeedsQuoting(text) /\ Guarded(text) = text
<1> DEFINE text  == FormatMinorToDecimal(minor)
           whole == Numeral(minor \div 100)
           L     == Len(whole)
           c     == Digits[((minor \div 10) % 10) + 1]
           d     == Digits[(minor % 10) + 1]
           Char  == Digit \cup {"."}
           rest  == <<".", c, d>>
<1>1. whole \in Seq(Digit) /\ whole # <<>> /\ c \in Digit /\ d \in Digit
    BY PartsOfAmount, NumeralIsNumber, DigitsDiffer
<1>2. text = whole \o rest
    BY DEF FormatMinorToDecimal
<1>3. Digit \subseteq Char /\ "." \in Char
    OBVIOUS
<1>4. Char \cap (Whitespace \cup {Quote, Comma, CR, LF}) = {}
    <2>1. "." \notin Whitespace \cup {Quote, Comma, CR, LF}
        BY DEF Whitespace, Quote, Comma, CR, LF, Tab, Space, BOM
    <2> QED BY <2>1, DigitsDiffer
<1>5. Digit \cap {"=", "+", "-", "@", Tab, CR} = {}
    <2>1. Digit = {"0", "1", "2", "3", "4", "5", "6", "7", "8", "9"}
        <3>1. DOMAIN Digits = 1..10
            BY DEF Digits
        <3> QED BY <3>1 DEF Digit, Range, Digits
    <2> QED BY <2>1 DEF Tab, CR
<1> HIDE DEF text, whole, c, d, Char
<1>6. whole \in Seq(Char) /\ rest \in Seq(Char) /\ Len(rest) = 3
      /\ rest[1] = "." /\ rest[2] = c /\ rest[3] = d
    BY <1>1, <1>3
<1> HIDE DEF rest
<1>7. L \in Nat \ {0} /\ text \in Seq(Char) /\ Len(text) = L + 3
    <2>1. L \in Nat \ {0}
        BY <1>1
    <2>2. text \in Seq(Char)
        BY <1>2, <1>6
    <2>3. Len(whole \o rest) = Len(whole) + Len(rest)
        BY <1>6, ConcatProperties
    <2>4. Len(text) = L + 3
        BY <1>2, <1>6, <2>3
    <2> QED BY <2>1, <2>2, <2>4
<1>8. \A n \in 1..L : text[n] = whole[n] /\ text[n] \in Digit
    <2> TAKE n \in 1..L
    <2>1. whole[n] \in Digit
        BY <1>1
    <2>2. text[n] = whole[n]
        BY <1>2, <1>6
    <2> QED BY <2>1, <2>2
<1>9. text[L + 1] = "." /\ text[L + 2] = c /\ text[L + 3] = d
    <2>1. \A n \in 1..3 : text[L + n] = rest[n]
        BY <1>2, <1>6, <1>7
    <2> QED BY <1>6, <2>1
<1>10. \A n \in DOMAIN text : text[n] \in Char
    BY <1>7
<1>11. ~NeedsQuoting(text)
    <2>1. 1 \in DOMAIN text /\ Len(text) \in DOMAIN text
        BY <1>7
    <2> QED BY <1>4, <1>10, <2>1 DEF NeedsQuoting
<1>12. Guarded(text) = text
    <2>1. text[1] \in Digit
        BY <1>7, <1>8
    <2> QED BY <1>5, <2>1 DEF Guarded
<1> QED BY <1>7, <1>8, <1>9, <1>11, <1>12 DEF text, whole, L, c, d, Char

\* An amount that is written is read as itself, to the last minor unit
\* (src/domain/money.ts: formatMinorToDecimal and parseAmountToMinor).
THEOREM AmountsComeBack ==
    ASSUME NEW minor, Payable(minor)
    PROVE  ParseAmountToMinor(FormatMinorToDecimal(minor)) = minor
<1> DEFINE text  == FormatMinorToDecimal(minor)
           whole == Numeral(minor \div 100)
           L     == Len(whole)
           c     == Digits[((minor \div 10) % 10) + 1]
           d     == Digits[(minor % 10) + 1]
           Char  == Digit \cup {"."}
           points == {k \in DOMAIN text : text[k] = "."}
           tail  == <<c, d>>
<1>1. minor \in Nat
    BY MoneyConstants DEF Payable
<1>2. /\ L \in Nat \ {0} /\ text \in Seq(Char) /\ Len(text) = L + 3
      /\ \A n \in 1..L : text[n] = whole[n] /\ text[n] \in Digit
      /\ text[L + 1] = "." /\ text[L + 2] = c /\ text[L + 3] = d
      /\ ~NeedsQuoting(text)
    BY <1>1, AmountIsText
<1>3. /\ whole \in Seq(Digit) /\ whole # <<>> /\ NumberOf(whole) = minor \div 100
      /\ c \in Digit /\ d \in Digit
      /\ ValueOf(c) = (minor \div 10) % 10 /\ ValueOf(d) = minor % 10
    BY <1>1, PartsOfAmount, NumeralIsNumber, DigitsDiffer
<1>4. /\ minor \div 100 \in Nat /\ (minor \div 10) % 10 \in 0..9 /\ minor % 10 \in 0..9
      /\ 100 * (minor \div 100) + 10 * ((minor \div 10) % 10) + (minor % 10) = minor
    BY <1>1, PartsOfAmount
<1>5. NumberOf(tail) = 10 * ValueOf(c) + ValueOf(d)
    <2> HIDE DEF c, d
    <2> QED BY <1>3, TwoDigits
<1> HIDE DEF text, whole, L, c, d, Char
<1>6. Trim(text) = text
    BY <1>2, TrimKeeps
<1>7. points = {L + 1}
    <2>1. "." \notin Digit
        BY DigitsDiffer
    <2>2. DOMAIN text = 1..(L + 3)
        BY <1>2
    <2>3. text[L + 2] # "." /\ text[L + 3] # "."
        BY <1>2, <1>3, <2>1
    <2>4. \A k \in 1..(L + 3) : k \in 1..L \/ k = L + 1 \/ k = L + 2 \/ k = L + 3
        BY <1>2
    <2> QED BY <1>2, <2>1, <2>2, <2>3, <2>4
<1>8. Min({L + 1}) = L + 1
    <2>1. {L + 1} \in SUBSET Int /\ IsFiniteSet({L + 1}) /\ {L + 1} # {}
        <3>1. IsFiniteSet({L + 1})
            BY FS_Singleton
        <3>2. L + 1 \in Int
            BY <1>2
        <3> QED BY <3>1, <3>2
    <2>2. Min({L + 1}) \in {L + 1}
        BY <2>1, MinIsLeast
    <2> QED BY <2>2
<1>9. SubSeq(text, 1, (L + 1) - 1) = whole
    <2> DEFINE a == SubSeq(text, 1, L)
    <2>1. \A i \in 1..L : text[i] \in Digit
        BY <1>2
    <2>2. a \in Seq(Digit) /\ Len(a) = L /\ \A n \in 1..L : a[n] = text[n]
        <3>1. 1 \in Int /\ L \in Int /\ 1 <= L
            BY <1>2
        <3>2. /\ a \in Seq(Digit) /\ Len(a) = IF 1 <= L THEN L - 1 + 1 ELSE 0
              /\ \A i \in 1..(L - 1 + 1) : a[i] = text[1 + i - 1]
            BY <1>2, <2>1, <3>1, SubSeqProperties
        <3>3. L - 1 + 1 = L
            BY <1>2
        <3>4. \A i \in 1..L : 1 + i - 1 = i
            OBVIOUS
        <3> QED BY <3>1, <3>2, <3>3, <3>4
    <2>3. whole \in Seq(Digit) /\ Len(whole) = L
        BY <1>3 DEF L
    <2> HIDE DEF a
    <2>4. Len(a) = Len(whole) /\ \A n \in 1..Len(a) : a[n] = whole[n]
        BY <1>2, <2>2, <2>3
    <2>5. a = whole
        BY <2>2, <2>3, <2>4, SameSequence
    <2>6. (L + 1) - 1 = L
        BY <1>2
    <2> QED BY <2>5, <2>6 DEF a
<1>10. SubSeq(text, (L + 1) + 1, Len(text)) = tail
    <2> DEFINE a == SubSeq(text, L + 2, L + 3)
    <2>1. L + 2 \in Int /\ L + 3 \in Int /\ L + 2 <= L + 3 /\ (L + 3) - (L + 2) + 1 = 2
          /\ (L + 2) + 1 - 1 = L + 2 /\ (L + 2) + 2 - 1 = L + 3
        BY <1>2
    <2>2. \A i \in (L + 2)..(L + 3) : text[i] \in Digit
        <3>1. \A i \in (L + 2)..(L + 3) : i = L + 2 \/ i = L + 3
            BY <1>2
        <3> QED BY <1>2, <1>3, <3>1
    <2>3. /\ a \in Seq(Digit) /\ Len(a) = IF L + 2 <= L + 3 THEN (L + 3) - (L + 2) + 1 ELSE 0
          /\ \A i \in 1..((L + 3) - (L + 2) + 1) : a[i] = text[(L + 2) + i - 1]
        BY <1>2, <2>1, <2>2, SubSeqProperties
    <2>4. Len(a) = 2 /\ a[1] = c /\ a[2] = d
        BY <1>2, <2>1, <2>3
    <2>5. tail \in Seq(Digit) /\ Len(tail) = 2 /\ tail[1] = c /\ tail[2] = d
        BY <1>3
    <2> HIDE DEF a, tail
    <2>6. \A n \in 1..Len(a) : a[n] = tail[n]
        BY <2>4, <2>5
    <2>7. a = tail
        BY <2>3, <2>4, <2>5, <2>6, SameSequence
    <2>8. (L + 1) + 1 = L + 2 /\ Len(text) = L + 3
        BY <1>2
    <2> QED BY <2>7, <2>8 DEF a
<1>11. AllDigits(whole) /\ AllDigits(tail) /\ Len(tail) = 2
    <2>1. tail \in Seq(Digit) /\ Len(tail) = 2 /\ tail # <<>>
        BY <1>3
    <2> HIDE DEF tail
    <2>2. Range(whole) \subseteq Digit /\ Range(tail) \subseteq Digit
        <3>1. \A s \in Seq(Digit) : Range(s) \subseteq Digit
            BY DEF Range
        <3> QED BY <1>3, <2>1, <3>1
    <2> QED BY <1>3, <2>1, <2>2 DEF AllDigits, Digit
<1> HIDE DEF tail, points
<1>12. 100 * NumberOf(whole) + NumberOf(tail) * 1 = minor
    <2> DEFINE w == minor \div 100
               t == (minor \div 10) % 10
               u == minor % 10
    <2>1. w \in Nat /\ t \in Nat /\ u \in Nat /\ 100 * w + 10 * t + u = minor
        BY <1>4
    <2>2. NumberOf(whole) = w /\ NumberOf(tail) = 10 * t + u
        BY <1>3, <1>5
    <2> HIDE DEF w, t, u
    <2>3. (10 * t + u) * 1 = 10 * t + u /\ 100 * w + (10 * t + u) = minor
        BY <2>1
    <2> QED BY <2>2, <2>3
<1>13. ParseAmountToMinor(text) =
          LET m == 100 * NumberOf(whole) + NumberOf(tail) * (IF Len(tail) = 1 THEN 10 ELSE 1)
          IN  IF AllDigits(whole) /\ AllDigits(tail) /\ Len(tail) <= 2 /\ Payable(m) THEN m ELSE Refused
    <2>1. {k \in DOMAIN text : text[k] = "."} = {L + 1}
        BY <1>7 DEF points
    <2>2. {L + 1} # {}
        OBVIOUS
    <2> QED BY <1>6, <1>8, <1>9, <1>10, <2>1, <2>2, ZenonT(60) DEF ParseAmountToMinor
<1> QED BY <1>11, <1>12, <1>13 DEF text

-----------------------------------------------------------------------------
(* An export that nobody disturbs *)

\* Until something is written nobody has come or gone, and every line that was read is what
\* the tables still say.
Current(tables, count, r) ==
    /\ r.since <= count
    /\ r.since = count =>
          /\ r.came = {} /\ r.went = {}
          /\ \A k \in 2..(Read(r) + 1) :
                 LineAt(r, k) = EmployeeRow(tables, LineAt(r, k).id, r.q.asOf)

ExportCurrent == req.kind = "export" => Current(db, writes, req)

\* A request with the same lines is as current.
LEMMA SameCurrent ==
    ASSUME NEW tables, NEW count, NEW r, NEW s, Current(tables, count, r),
           Read(s) = Read(r), \A k \in 1..(Read(r) + 1) : LineAt(s, k) = LineAt(r, k), Read(r) \in Int,
           s.q = r.q, s.since = r.since, s.came = r.came, s.went = r.went
    PROVE  Current(tables, count, s)
<1>1. \A k \in 2..(Read(r) + 1) : k \in 1..(Read(r) + 1)
    OBVIOUS
<1> QED BY <1>1 DEF Current

\* A page is read as the tables are.
LEMMA PageIsCurrent ==
    ASSUME IInv, req.kind = "export", ReadPage, Current(db, writes, req)
    PROVE  req' = NoRequest \/ Current(db, writes, req')
<1>1. /\ IsCompany(db) /\ FlowOK(req) /\ req \in ExportRequest
    BY DEF IInv, FlowOK
<1>2. req' = NoRequest \/ (FlowOK(req') /\ WalkOK(db, req') /\ req'.kind = "export")
    BY <1>1, ReadingPage DEF IInv
<1> SUFFICES ASSUME req' # NoRequest PROVE Current(db, writes, req')
    OBVIOUS
<1>3. /\ req' = [req EXCEPT !.queue = req'.queue, !.page = req'.page, !.last = req'.last]
      /\ Len(req.queue) = 0
    BY <1>1, PageRead
<1>4. /\ req'.file = req.file /\ req'.q = req.q /\ req'.since = req.since
      /\ req'.came = req.came /\ req'.went = req.went
    BY <1>1, <1>3 DEF ExportRequest
<1>5. \E rows : req'.queue = [k \in DOMAIN rows |-> EmployeeRow(db, rows[k], req.q.asOf)]
    <2> DEFINE page == ListEmployees(db, req.q, req.page, Chunk)
               queue == [k \in DOMAIN page.rows |-> EmployeeRow(db, page.rows[k], req.q.asOf)]
    <2>1. req' = [req EXCEPT !.queue = queue, !.page = @ + 1,
                             !.last = req.page * Chunk >= page.total \/ page.rows = <<>>]
        BY DEF ReadPage
    <2> HIDE DEF page, queue
    <2>2. req'.queue = queue
        BY <1>1, <2>1 DEF ExportRequest
    <2> QED BY <2>2 DEF queue
<1>6. /\ Len(req.file) \in Nat /\ Len(req'.queue) \in Nat
      /\ req'.queue \in Seq(Line)
    BY <1>1, <1>2, ExportFields DEF FlowOK
<1>7. /\ Read(req) = Len(req.file) - 1
      /\ Read(req') = Len(req.file) + Len(req'.queue) - 1
    BY <1>3, <1>4, <1>6 DEF Read
<1>8. ASSUME req.since = writes, NEW k \in 2..(Read(req') + 1)
      PROVE  LineAt(req', k) = EmployeeRow(db, LineAt(req', k).id, req'.q.asOf)
    <2>1. CASE k <= Len(req.file)
        <3>1. k \in 2..(Read(req) + 1)
            BY <1>6, <1>7, <2>1
        <3>2. LineAt(req', k) = LineAt(req, k)
            BY <1>4, <2>1 DEF LineAt
        <3> QED BY <1>4, <1>8, <3>1, <3>2 DEF Current
    <2>2. CASE ~ k <= Len(req.file)
        <3> DEFINE n == k - Len(req.file)
        <3>1. n \in 1..Len(req'.queue)
            <4> DEFINE a == Len(req.file)
                       b == Len(req'.queue)
            <4>1. a \in Nat /\ b \in Nat /\ k \in 2..(a + b) /\ ~ k <= a
                <5>1. (Len(req.file) + Len(req'.queue) - 1) + 1 = Len(req.file) + Len(req'.queue)
                    BY <1>6
                <5> QED BY <1>6, <1>7, <2>2, <5>1
            <4> HIDE DEF a, b
            <4>2. k - a \in 1..b
                BY <4>1
            <4> QED BY <4>2 DEF a, b
        <3>2. LineAt(req', k) = req'.queue[n]
            BY <1>4, <2>2 DEF LineAt
        <3> HIDE DEF n
        <3>3. PICK rows : req'.queue = [j \in DOMAIN rows |-> EmployeeRow(db, rows[j], req.q.asOf)]
            BY <1>5
        <3>4. n \in DOMAIN rows
            <4>1. DOMAIN req'.queue = 1..Len(req'.queue)
                BY <1>6
            <4>2. DOMAIN req'.queue = DOMAIN rows
                BY <3>3
            <4> QED BY <3>1, <4>1, <4>2
        <3>5. LineAt(req', k) = EmployeeRow(db, rows[n], req.q.asOf)
            BY <3>2, <3>3, <3>4
        <3>6. EmployeeRow(db, rows[n], req.q.asOf).id = rows[n]
            BY DEF EmployeeRow
        <3> QED BY <1>4, <3>5, <3>6
    <2> QED BY <2>1, <2>2
<1> QED BY <1>4, <1>8 DEF Current

\* A line that is written is the line that was read.
LEMMA LineStaysCurrent ==
    ASSUME IInv, req.kind = "export", WriteLine, Current(db, writes, req)
    PROVE  Current(db, writes, req')
<1> DEFINE file == req.file
           queue == req.queue
<1>1. req \in ExportRequest /\ file \in Seq(Line) /\ queue \in Seq(Line) /\ queue # <<>>
    BY ExportFields DEF IInv, FlowOK, WriteLine
<1>2. /\ req'.file = Append(file, Head(queue)) /\ req'.queue = Tail(queue)
      /\ req'.q = req.q /\ req'.since = req.since /\ req'.came = req.came /\ req'.went = req.went
    <2>1. /\ Taken(req).file = req.file /\ Taken(req).queue = req.queue
          /\ Taken(req).q = req.q /\ Taken(req).since = req.since
          /\ Taken(req).came = req.came /\ Taken(req).went = req.went
          /\ Taken(req) \in [DOMAIN req -> UNION {Range(req), Range(Taken(req))}]
        BY <1>1 DEF Taken, ExportRequest, Range
    <2> DEFINE t == Taken(req)
               pc == IF Full(req) THEN "draining" ELSE "writing"
    <2>2. req' = [t EXCEPT !.queue = Tail(@), !.file = Append(@, Head(req.queue)), !.pc = pc]
        BY DEF WriteLine
    <2>3. {"queue", "file", "q", "since", "came", "went"} \subseteq DOMAIN t
        BY <1>1 DEF Taken, ExportRequest
    <2> HIDE DEF t, pc
    <2> QED BY <2>1, <2>2, <2>3 DEF t
<1> HIDE DEF file, queue
<1>3. /\ Len(file) \in Nat /\ Len(queue) \in Nat \ {0}
      /\ Len(Append(file, Head(queue))) = Len(file) + 1 /\ Len(Tail(queue)) = Len(queue) - 1
      /\ \A k \in 1..Len(file) : Append(file, Head(queue))[k] = file[k]
      /\ Append(file, Head(queue))[Len(file) + 1] = queue[1]
      /\ \A k \in 1..(Len(queue) - 1) : Tail(queue)[k] = queue[k + 1]
    <2>1. Len(file) \in Nat /\ Len(queue) \in Nat \ {0}
        BY <1>1
    <2>2. Head(queue) = queue[1] /\ Head(queue) \in Line
        BY <1>1
    <2> DEFINE more == Append(file, Head(queue))
    <2>3. /\ Len(more) = Len(file) + 1
          /\ \A k \in 1..Len(file) : more[k] = file[k]
          /\ more[Len(file) + 1] = Head(queue)
        BY <1>1, <2>2, AppendProperties
    <2>4. Len(Tail(queue)) = Len(queue) - 1
        BY <1>1
    <2>5. \A k \in 1..(Len(queue) - 1) : Tail(queue)[k] = queue[k + 1]
        BY <1>1, <2>1
    <2> QED BY <2>1, <2>2, <2>3, <2>4, <2>5
<1>4. Read(req) = Len(file) + Len(queue) - 1 /\ Read(req) \in Int /\ Read(req') = Read(req)
    <2>1. Read(req) = Len(file) + Len(queue) - 1
        BY DEF Read, file, queue
    <2>2. Read(req') = Len(Append(file, Head(queue))) + Len(Tail(queue)) - 1
        BY <1>2 DEF Read
    <2>3. (Len(file) + 1) + (Len(queue) - 1) - 1 = Len(file) + Len(queue) - 1
        BY <1>3
    <2>4. Len(file) + Len(queue) - 1 \in Int
        BY <1>3
    <2> QED BY <1>3, <2>1, <2>2, <2>3, <2>4
<1>5. ASSUME NEW k \in 1..(Read(req) + 1) PROVE LineAt(req', k) = LineAt(req, k)
    <2>1. CASE k <= Len(file)
        BY <1>2, <1>3, <2>1 DEF LineAt, file
    <2>2. CASE k = Len(file) + 1
        <3>1. LineAt(req, k) = queue[1]
            BY <1>3, <2>2 DEF LineAt, file, queue
        <3>2. LineAt(req', k) = Append(file, Head(queue))[k]
            BY <1>2, <1>3, <2>2 DEF LineAt
        <3> QED BY <1>3, <2>2, <3>1, <3>2
    <2>3. CASE k > Len(file) + 1
        <3> DEFINE n == k - (Len(file) + 1)
        <3>1. n \in 1..(Len(queue) - 1) /\ n + 1 = k - Len(file) /\ ~ k <= Len(file) /\ ~ k <= Len(file) + 1
            BY <1>3, <1>4, <2>3
        <3>2. LineAt(req, k) = queue[n + 1]
            BY <3>1 DEF LineAt, file, queue
        <3>3. LineAt(req', k) = Tail(queue)[n]
            BY <1>2, <1>3, <3>1 DEF LineAt
        <3> HIDE DEF n
        <3> QED BY <1>3, <3>1, <3>2, <3>3
    <2> QED BY <1>3, <2>1, <2>2, <2>3
<1> QED BY <1>2, <1>4, <1>5, SameCurrent

\* What an export has read stays what the tables say, until somebody writes.
LEMMA StaysCurrent ==
    ASSUME IInv, ExportCurrent, [Next]_vars
    PROVE  ExportCurrent'
<1>1. /\ IsCompany(db) /\ writes \in 0..MaxWrites /\ writes \in Nat
      /\ req.kind = "detail" => DetailOK
      /\ req.kind = "export" => FlowOK(req) /\ WalkOK(db, req) /\ req \in ExportRequest
    BY ScreensConstants DEF IInv, FlowOK
<1>2. req' = NoRequest \/ req'.kind \in {"detail", "checked"} => ExportCurrent'
    BY DEF ExportCurrent, NoRequest
<1>3. req' = req /\ db' = db /\ writes' = writes => ExportCurrent'
    BY DEF ExportCurrent
<1>4. CASE Write
    <2>1. req' = Noticed /\ writes' = writes + 1
        BY <1>1, <1>4, Writing
    <2>2. CASE req.kind = "export"
        <3>1. req'.since = req.since /\ req.since \in Nat
            BY <1>1, <2>1, <2>2 DEF Noticed, ExportRequest
        <3>2. req.since <= writes
            BY <2>2 DEF ExportCurrent, Current
        <3>3. req'.since <= writes' /\ req'.since # writes'
            BY <1>1, <2>1, <3>1, <3>2
        <3> QED BY <3>3 DEF ExportCurrent, Current
    <2>3. CASE req.kind # "export"
        BY <2>1, <2>3 DEF ExportCurrent, Noticed
    <2> QED BY <2>2, <2>3
<1>5. ASSUME NEW i \in Ids, OpenDetail(i) PROVE ExportCurrent'
    <2>1. req'.kind = "detail"
        BY <1>5 DEF OpenDetail
    <2> QED BY <1>2, <2>1
<1>6. ASSUME NEW e \in Exports, BeginExport(e) PROVE ExportCurrent'
    <2>1. /\ req'.since = writes /\ writes' = writes /\ req'.came = {} /\ req'.went = {}
          /\ req'.file = <<>> /\ req'.queue = <<Header>>
        BY <1>6 DEF BeginExport
    <2>2. Read(req') = 0
        BY <2>1 DEF Read
    <2>3. 2..(Read(req') + 1) = {}
        BY <2>2
    <2> QED BY <1>1, <2>1, <2>3 DEF ExportCurrent, Current
<1>7. ASSUME NEW f \in Uploads, Upload(f) PROVE ExportCurrent'
    <2>1. req'.kind = "checked"
        BY <1>7 DEF Upload
    <2> QED BY <1>2, <2>1
<1>8. CASE ListHistory
    <2>1. req' = NoRequest \/ DetailOK'
        BY <1>1, <1>8, ListingHistory DEF ListHistory
    <2>2. DetailOK' => req'.kind = "detail"
        BY DEF DetailOK
    <2> QED BY <1>2, <2>1, <2>2
<1>9. CASE CountDirectReports
    <2>1. DetailOK'
        BY <1>1, <1>9, CountingReports DEF CountDirectReports
    <2>2. req'.kind = "detail"
        BY <2>1 DEF DetailOK
    <2> QED BY <1>2, <2>2
<1>10. CASE ReadPage
    <2>1. req.kind = "export" /\ db' = db /\ writes' = writes
        BY <1>10 DEF ReadPage
    <2>2. req' = NoRequest \/ Current(db, writes, req')
        BY <1>10, <2>1, PageIsCurrent DEF ExportCurrent
    <2> QED BY <1>2, <2>1, <2>2 DEF ExportCurrent
<1>11. CASE WriteLine
    <2>1. req.kind = "export" /\ db' = db /\ writes' = writes
        BY <1>11 DEF WriteLine
    <2>2. Current(db, writes, req')
        BY <1>11, <2>1, LineStaysCurrent DEF ExportCurrent
    <2> QED BY <2>1, <2>2 DEF ExportCurrent
<1>12. CASE Answer
    BY <1>2, <1>12 DEF Answer
<1>13. CASE ClientReads \/ ClientGoes
    <2>1. req.kind = "export" /\ db' = db /\ writes' = writes
        BY <1>13 DEF ClientReads, ClientGoes
    <2>2. /\ req'.file = req.file /\ req'.queue = req.queue /\ req'.q = req.q
          /\ req'.since = req.since /\ req'.came = req.came /\ req'.went = req.went
        BY <1>1, <1>13, <2>1 DEF ClientReads, ClientGoes, ExportRequest
    <2>3. Read(req') = Read(req) /\ \A k : LineAt(req', k) = LineAt(req, k)
        BY <2>2 DEF Read, LineAt
    <2>4. Read(req) \in Int
        BY <1>1, <2>1, ExportFields DEF Read
    <2>5. Current(db, writes, req)
        BY <2>1 DEF ExportCurrent
    <2>6. Current(db, writes, req')
        BY <2>2, <2>3, <2>4, <2>5, SameCurrent
    <2> QED BY <2>1, <2>6 DEF ExportCurrent
<1>14. CASE UNCHANGED vars
    BY <1>3, <1>14 DEF vars
<1> QED BY <1>4, <1>5, <1>6, <1>7, <1>8, <1>9, <1>10, <1>11, <1>12, <1>13, <1>14 DEF Next, Serve

\* Everybody an undisturbed export has written is written once, as they are.
LEMMA FileIsCurrent ==
    ASSUME IInv, ExportCurrent, Exported, req.since = writes
    PROVE  /\ Len(Written) \in Nat /\ Written \in Seq(Ids) /\ Distinct(Written)
           /\ Len(req.file) = Len(Written) + 1 /\ req.file \in Seq(Line) /\ req.file[1] = Header
           /\ \A k \in 1..Len(Written) :
                 req.file[k + 1] = EmployeeRow(db, Written[k], req.q.asOf)
<1> DEFINE N == Read(req)
<1>1. /\ FlowOK(req) /\ WalkOK(db, req) /\ Current(db, writes, req) /\ Len(req.queue) = 0
    BY DEF IInv, Exported, ExportCurrent
<1>2. Len(req.file) \in Nat /\ req.file \in Seq(Line)
    BY <1>1, ExportFields DEF FlowOK
<1>3. N \in Nat /\ Len(req.file) = N + 1
    BY <1>1, <1>2 DEF Read, WalkOK
<1>4. DOMAIN Written = 1..N /\ \A k \in 1..N : Written[k] = PersonAt(req, k)
    BY <1>1, WrittenIsRead
<1>5. \A k \in 1..(N + 1) : LineAt(req, k) = req.file[k]
    BY <1>3 DEF LineAt
<1> HIDE DEF N
<1>6. \A k \in 1..N : Written[k] \in Ids
    BY <1>1, <1>4 DEF WalkOK, Ids, N
<1>7. Written \in Seq(Ids) /\ Len(Written) = N
    <2>1. Written = [k \in 1..N |-> Written[k]]
        BY <1>4 DEF Written
    <2> QED BY <1>3, <1>6, <2>1, ListedFunction
<1>8. Distinct(Written)
    <2>1. \A i : ~CameBefore(db, req, i)
        BY <1>1 DEF Current, CameBefore
    <2>2. \A j, k \in 1..N : j < k => Written[j] # Written[k]
        BY <1>1, <1>4, <2>1 DEF WalkOK, N
    <2>3. \A j, k \in 1..N : j < k \/ k < j \/ j = k
        BY <1>3
    <2> QED BY <1>7, <2>2, <2>3 DEF Distinct
<1>9. ASSUME NEW k \in 1..N PROVE req.file[k + 1] = EmployeeRow(db, Written[k], req.q.asOf)
    <2>1. k + 1 \in 2..(N + 1) /\ k + 1 \in 1..(N + 1)
        BY <1>3
    <2>2. LineAt(req, k + 1) = EmployeeRow(db, LineAt(req, k + 1).id, req.q.asOf)
        BY <1>1, <2>1 DEF Current, N
    <2> QED BY <1>4, <1>5, <2>1, <2>2 DEF PersonAt
<1>10. req.file[1] = Header
    <2>1. 1 \in 1..(N + 1)
        BY <1>3
    <2> QED BY <1>1, <1>5, <2>1 DEF WalkOK
<1> QED BY <1>2, <1>3, <1>7, <1>8, <1>9, <1>10

-----------------------------------------------------------------------------
(* A person as a row *)

\* What rows are written with.
Ink == STRING \cup Marks \cup Digit \cup {"."} \cup Statuses \cup Currencies \cup Columns

Address(i) == Lower(Guarded(EmailText[i]))

\* What toCsvRecord writes, by column.
PersonCells(row) ==
    LET e   == row.employee
        pay == row.salary
    IN  [fullName |-> NameText[e.name], email |-> EmailText[row.id],
         country |-> CountryText[e.country], department |-> DepartmentText[e.department],
         jobLevel |-> LevelText[e.level], jobTitle |-> <<>>, hireDate |-> DayText[e.hired],
         status |-> <<e.status>>, leftOn |-> IF e.left = Null THEN <<>> ELSE DayText[e.left],
         managerEmail |-> IF e.manager = Null THEN <<>> ELSE EmailText[e.manager],
         salaryAmount |-> IF pay = NoPay THEN <<>> ELSE FormatMinorToDecimal(pay.amount),
         salaryCurrency |-> IF pay = NoPay THEN <<>> ELSE <<pay.currency>>,
         salaryEffectiveFrom |-> IF pay = NoPay THEN <<>> ELSE DayText[pay.from]]

\* Ten cells and three.
LEMMA ThirteenCells ==
    ASSUME NEW S, NEW a \in S, NEW b \in S, NEW c \in S, NEW d \in S, NEW e \in S, NEW f \in S,
           NEW g \in S, NEW h \in S, NEW i \in S, NEW j \in S, NEW k \in S, NEW l \in S, NEW m \in S
    PROVE  LET row == <<a, b, c, d, e, f, g, h, i, j>> \o <<k, l, m>>
           IN  /\ row \in Seq(S) /\ Len(row) = 13
               /\ row[1] = a /\ row[2] = b /\ row[3] = c /\ row[4] = d /\ row[5] = e /\ row[6] = f
               /\ row[7] = g /\ row[8] = h /\ row[9] = i /\ row[10] = j /\ row[11] = k
               /\ row[12] = l /\ row[13] = m
<1> DEFINE ten == <<a, b, c, d, e, f, g, h, i, j>>
           three == <<k, l, m>>
           row == ten \o three
<1>1. /\ ten \in Seq(S) /\ Len(ten) = 10
      /\ ten[1] = a /\ ten[2] = b /\ ten[3] = c /\ ten[4] = d /\ ten[5] = e /\ ten[6] = f
      /\ ten[7] = g /\ ten[8] = h /\ ten[9] = i /\ ten[10] = j
    OBVIOUS
<1>2. three \in Seq(S) /\ Len(three) = 3 /\ three[1] = k /\ three[2] = l /\ three[3] = m
    OBVIOUS
<1> HIDE DEF ten, three
<1>3. /\ row \in Seq(S) /\ Len(row) = Len(ten) + Len(three)
      /\ \A n \in 1..(Len(ten) + Len(three)) :
            row[n] = IF n <= Len(ten) THEN ten[n] ELSE three[n - Len(ten)]
    BY <1>1, <1>2, ConcatProperties
<1>4. row \in Seq(S) /\ Len(row) = 13
    BY <1>1, <1>2, <1>3
<1> HIDE DEF row
<1>5. Len(ten) + Len(three) = 13
    BY <1>1, <1>2
<1>6. \A n \in 1..10 : row[n] = ten[n]
    BY <1>1, <1>3, <1>5
<1>7. row[11] = three[1] /\ row[12] = three[2] /\ row[13] = three[3]
    <2>1. \A n \in 11..13 : row[n] = three[n - 10]
        BY <1>1, <1>3, <1>5
    <2> QED BY <2>1
<1> QED BY <1>1, <1>2, <1>4, <1>6, <1>7 DEF row, ten, three

\* The columns and their places.
LEMMA ColumnsArePlaces ==
    /\ DOMAIN ColumnList = 1..13 /\ Len(ColumnList) = 13
    /\ \A m, n \in 1..13 : ColumnList[m] = ColumnList[n] => m = n
    /\ \A c \in Columns : \E n \in 1..13 : ColumnList[n] = c
    /\ \A n \in 1..13 : ColumnList[n] \in Columns
<1>1. DOMAIN ColumnList = 1..13 /\ Len(ColumnList) = 13
    BY DEF ColumnList
<1>2. \A m, n \in 1..13 : ColumnList[m] = ColumnList[n] => m = n
    BY DEF ColumnList
<1>3. Columns = {ColumnList[n] : n \in 1..13}
    BY <1>1 DEF Columns, Range
<1> QED BY <1>1, <1>2, <1>3

\* The cells of a row stand in the order of the columns.
LEMMA RowIsCells ==
    ASSUME NEW S, NEW row, \A c \in Columns : PersonCells(row)[c] \in S
    PROVE  /\ ToCsvRecord(row) \in Seq(S) /\ Len(ToCsvRecord(row)) = 13
           /\ \A n \in 1..13 : ToCsvRecord(row)[n] = PersonCells(row)[ColumnList[n]]
<1> DEFINE cells == PersonCells(row)
           e == row.employee
           pay == row.salary
           t == ToCsvRecord(row)
           list == <<cells["fullName"], cells["email"], cells["country"], cells["department"],
                     cells["jobLevel"], cells["jobTitle"], cells["hireDate"], cells["status"],
                     cells["leftOn"], cells["managerEmail"]>>
                   \o <<cells["salaryAmount"], cells["salaryCurrency"], cells["salaryEffectiveFrom"]>>
<1>1. t = list
    <2> DEFINE ten == <<NameText[e.name], EmailText[row.id], CountryText[e.country],
                        DepartmentText[e.department], LevelText[e.level], <<>>, DayText[e.hired],
                        <<e.status>>, IF e.left = Null THEN <<>> ELSE DayText[e.left],
                        IF e.manager = Null THEN <<>> ELSE EmailText[e.manager]>>
               three == IF pay = NoPay THEN <<(<<>>), (<<>>), (<<>>)>>
                        ELSE <<FormatMinorToDecimal(pay.amount), <<pay.currency>>, DayText[pay.from]>>
    <2>1. t = ten \o three
        BY DEF ToCsvRecord
    <2>2. ten = <<cells["fullName"], cells["email"], cells["country"], cells["department"],
                  cells["jobLevel"], cells["jobTitle"], cells["hireDate"], cells["status"],
                  cells["leftOn"], cells["managerEmail"]>>
        BY DEF PersonCells
    <2>3. three = <<cells["salaryAmount"], cells["salaryCurrency"], cells["salaryEffectiveFrom"]>>
        <3>1. CASE pay = NoPay
            BY <3>1 DEF PersonCells
        <3>2. CASE pay # NoPay
            BY <3>2 DEF PersonCells
        <3> QED BY <3>1, <3>2
    <2> HIDE DEF ten, three, cells
    <2> QED BY <2>1, <2>2, <2>3
<1>2. \A n \in 1..13 : cells[ColumnList[n]] \in S
    BY ColumnsArePlaces
<1>3. /\ cells["fullName"] \in S /\ cells["email"] \in S /\ cells["country"] \in S
      /\ cells["department"] \in S /\ cells["jobLevel"] \in S /\ cells["jobTitle"] \in S
      /\ cells["hireDate"] \in S /\ cells["status"] \in S /\ cells["leftOn"] \in S
      /\ cells["managerEmail"] \in S /\ cells["salaryAmount"] \in S
      /\ cells["salaryCurrency"] \in S /\ cells["salaryEffectiveFrom"] \in S
    <2> HIDE DEF cells
    <2> QED BY <1>2 DEF ColumnList
<1> HIDE DEF cells
<1>4. /\ list \in Seq(S) /\ Len(list) = 13
      /\ list[1] = cells["fullName"] /\ list[2] = cells["email"] /\ list[3] = cells["country"]
      /\ list[4] = cells["department"] /\ list[5] = cells["jobLevel"] /\ list[6] = cells["jobTitle"]
      /\ list[7] = cells["hireDate"] /\ list[8] = cells["status"] /\ list[9] = cells["leftOn"]
      /\ list[10] = cells["managerEmail"] /\ list[11] = cells["salaryAmount"]
      /\ list[12] = cells["salaryCurrency"] /\ list[13] = cells["salaryEffectiveFrom"]
    BY <1>3, ThirteenCells
<1> HIDE DEF list
<1>5. \A n \in 1..13 : list[n] = cells[ColumnList[n]]
    BY <1>4 DEF ColumnList
<1> HIDE DEF t
<1> QED BY <1>1, <1>4, <1>5 DEF t, cells

\* What a cell says stays what it says: it is not blank, and of ink.
LEMMA GuardedIsInk ==
    ASSUME NEW value \in Seq(Ink)
    PROVE  Guarded(value) \in Seq(Ink) /\ (value # <<>> => Guarded(value) # <<>>)
<1>1. Marks \subseteq Ink
    BY DEF Ink
<1> QED BY <1>1, GuardedText

\* A blank cell is read as it is written.
LEMMA BlankIsBlank == Guarded(<<>>) = <<>> /\ Lower(<<>>) = <<>> /\ <<>> \in Seq(Ink)
<1>1. Guarded(<<>>) = <<>>
    BY DEF Guarded
<1>2. Lower(<<>>) = <<>>
    BY DEF Lower
<1> QED BY <1>1, <1>2

\* Texts are of ink.
LEMMA TextsAreInk ==
    /\ \A n \in Names : NameText[n] \in Seq(Ink) /\ NameText[n] # <<>>
    /\ \A i \in People : EmailText[i] \in Seq(Ink)
    /\ \A c \in Countries : CountryText[c] \in Seq(Ink)
    /\ \A d \in Departments : DepartmentText[d] \in Seq(Ink)
    /\ \A l \in Levels : LevelText[l] \in Seq(Ink)
    /\ \A d \in Days : DayText[d] \in Seq(Ink) /\ DayText[d] # <<>>
    /\ \A w \in Statuses \cup Currencies : <<w>> \in Seq(Ink)
    /\ \A amount \in Nat : FormatMinorToDecimal(amount) \in Seq(Ink) /\ FormatMinorToDecimal(amount) # <<>>
<1>1. \A s \in Seq(STRING) : s \in Seq(Ink)
    <2> DEFINE A == STRING
    <2>1. A \subseteq Ink
        BY DEF Ink
    <2> HIDE DEF A, Ink
    <2>2. \A s \in Seq(A) : s \in Seq(Ink)
        BY <2>1
    <2> QED BY <2>2 DEF A
<1>2. \A w \in Statuses \cup Currencies : <<w>> \in Seq(Ink)
    <2>1. Statuses \cup Currencies \subseteq Ink
        BY DEF Ink
    <2> HIDE DEF Ink
    <2> QED BY <2>1
<1>3. \A amount \in Nat : FormatMinorToDecimal(amount) \in Seq(Ink) /\ FormatMinorToDecimal(amount) # <<>>
    <2> SUFFICES ASSUME NEW amount \in Nat
                 PROVE  FormatMinorToDecimal(amount) \in Seq(Ink) /\ FormatMinorToDecimal(amount) # <<>>
        OBVIOUS
    <2> DEFINE text == FormatMinorToDecimal(amount)
               L == Len(Numeral(amount \div 100))
    <2>1. L \in Nat \ {0} /\ text \in Seq(Digit \cup {"."}) /\ Len(text) = L + 3
        BY AmountIsText
    <2>2. Digit \cup {"."} \subseteq Ink
        BY DEF Ink
    <2> HIDE DEF text, L
    <2>3. text \in Seq(Ink) /\ text # <<>>
        <3> DEFINE A == Digit \cup {"."}
        <3> HIDE DEF A
        <3>1. text \in Seq(A) /\ A \subseteq Ink
            BY <2>1, <2>2 DEF A
        <3>2. text \in Seq(Ink)
            <4> HIDE DEF Ink
            <4> QED BY <3>1
        <3> QED BY <2>1, <3>2
    <2> QED BY <2>3 DEF text
<1> HIDE DEF Ink
<1> QED BY <1>1, <1>2, <1>3, SpellingConstants

\* A person of the tables, as EmployeeFields says it, and their pay.
PersonOK(tables, i, day) ==
    LET e   == tables.employees[i]
        pay == PayOn(tables, i, day)
    IN  /\ i \in People /\ e.name \in Names /\ e.country \in Countries
        /\ e.department \in Departments /\ e.level \in Levels /\ e.hired \in Days
        /\ e.status \in Statuses /\ (e.left = Null \/ e.left \in Days)
        /\ (e.status = "LEFT" <=> e.left # Null) /\ (e.left # Null => e.left >= e.hired)
        /\ \/ e.manager = Null
           \/ e.manager \in DOMAIN tables.employees /\ e.manager \in People /\ e.manager # i
        /\ \/ pay = NoPay
           \/ /\ pay # NoPay /\ Payable(pay.amount) /\ pay.amount \in Nat
              /\ pay.currency \in Currencies /\ pay.from \in Days

\* The people of a company are what an import takes for a person.
LEMMA PeopleAreOK ==
    ASSUME NEW tables, IsCompany(tables), NEW i \in DOMAIN tables.employees, NEW day
    PROVE  PersonOK(tables, i, day)
<1> DEFINE e == tables.employees[i]
           pay == PayOn(tables, i, day)
<1>1. i \in People /\ e \in Employee /\ DOMAIN tables.employees \subseteq People
    BY DEF IsCompany, IsTable
<1>2. e.manager = Null \/ (e.manager \in DOMAIN tables.employees /\ e.manager \in People /\ e.manager # i)
    <2>1. e.manager \in DOMAIN tables.employees \cup {Null}
        BY DEF IsCompany
    <2>2. {i} \in (SUBSET DOMAIN tables.employees) \ {{}}
        <3>1. {i} \in SUBSET DOMAIN tables.employees /\ {i} # {}
            OBVIOUS
        <3> QED BY <3>1
    <2>3. e.manager # i
        BY <2>2 DEF IsCompany, NoCircle
    <2> QED BY <1>1, <2>1, <2>3
<1>3. pay \in Record \cup {NoPay}
    BY PayOnType
<1>4. pay = NoPay \/ (/\ pay # NoPay /\ Payable(pay.amount) /\ pay.amount \in Nat
                      /\ pay.currency \in Currencies /\ pay.from \in Days)
    <2> SUFFICES ASSUME pay \in Record
                 PROVE  /\ Payable(pay.amount) /\ pay.amount \in Nat
                        /\ pay.currency \in Currencies /\ pay.from \in Days
        BY <1>3
    <2>1. pay.amount \in Amounts /\ pay.currency \in Currencies /\ pay.from \in Days
        BY DEF Record
    <2>2. Payable(pay.amount)
        BY <2>1, PayrollConstants
    <2>3. pay.amount \in Nat
        BY <2>2, MoneyConstants DEF Payable
    <2> QED BY <2>1, <2>2, <2>3
<1> HIDE DEF e, pay
<1>5. /\ e.name \in Names /\ e.country \in Countries
      /\ e.department \in Departments /\ e.level \in Levels /\ e.hired \in Days
      /\ e.status \in Statuses /\ (e.left = Null \/ e.left \in Days)
      /\ (e.status = "LEFT" <=> e.left # Null) /\ (e.left # Null => e.left >= e.hired)
    BY <1>1, EmployeeFields
<1> QED BY <1>1, <1>2, <1>4, <1>5 DEF PersonOK, e, pay

\* A row of a person is of ink.
LEMMA PersonIsInk ==
    ASSUME NEW tables, NEW i, NEW day, PersonOK(tables, i, day)
    PROVE  \A c \in Columns : PersonCells(EmployeeRow(tables, i, day))[c] \in Seq(Ink)
<1> DEFINE row == EmployeeRow(tables, i, day)
           cells == PersonCells(row)
           e == tables.employees[i]
           pay == PayOn(tables, i, day)
           Text == Seq(Ink)
<1>1. row.id = i /\ row.employee = e /\ row.salary = pay
    BY DEF EmployeeRow
<1>2. <<>> \in Text
    BY BlankIsBlank
<1>3. /\ NameText[e.name] \in Text /\ EmailText[i] \in Text /\ CountryText[e.country] \in Text
      /\ DepartmentText[e.department] \in Text /\ LevelText[e.level] \in Text
      /\ DayText[e.hired] \in Text /\ <<e.status>> \in Text
      /\ e.left # Null => DayText[e.left] \in Text
      /\ e.manager # Null => EmailText[e.manager] \in Text
    BY TextsAreInk DEF PersonOK
<1>4. pay # NoPay => /\ FormatMinorToDecimal(pay.amount) \in Text /\ <<pay.currency>> \in Text
                     /\ DayText[pay.from] \in Text
    BY TextsAreInk DEF PersonOK
<1> HIDE DEF row, Text, e, pay
<1>5. /\ cells["fullName"] \in Text /\ cells["email"] \in Text /\ cells["country"] \in Text
      /\ cells["department"] \in Text /\ cells["jobLevel"] \in Text /\ cells["jobTitle"] \in Text
      /\ cells["hireDate"] \in Text /\ cells["status"] \in Text
    BY <1>1, <1>2, <1>3 DEF PersonCells
<1>6. cells["leftOn"] \in Text /\ cells["managerEmail"] \in Text
    BY <1>1, <1>2, <1>3 DEF PersonCells
<1>7. /\ cells["salaryAmount"] \in Text /\ cells["salaryCurrency"] \in Text
      /\ cells["salaryEffectiveFrom"] \in Text
    BY <1>1, <1>2, <1>4 DEF PersonCells
<1> HIDE DEF cells
<1>8. \A n \in 1..13 : cells[ColumnList[n]] \in Text
    BY <1>5, <1>6, <1>7 DEF ColumnList
<1> QED BY <1>8, ColumnsArePlaces DEF cells, row, Text

\* What is read in the guarded cells of a person.
ReadAs(f, tables, i, day) ==
    LET e   == tables.employees[i]
        pay == PayOn(tables, i, day)
    IN  /\ f["fullName"] = Guarded(NameText[e.name]) /\ f["fullName"] # <<>>
        /\ Len(f["fullName"]) \in Nat
        /\ Lower(f["email"]) = Address(i) /\ LooksLikeEmail(Address(i))
        /\ Len(Address(i)) \in Nat
        /\ Meant(Upper(f["country"]), CountryText) = {e.country}
        /\ MeantLower(f["department"], DepartmentText) = {e.department}
        /\ MeantLower(f["jobLevel"], LevelText) = {e.level}
        /\ f["jobTitle"] = <<>>
        /\ Meant(f["hireDate"], DayText) = {e.hired}
        /\ Upper(f["status"]) = <<e.status>>
        /\ IF e.left = Null THEN f["leftOn"] = <<>> ELSE Meant(f["leftOn"], DayText) = {e.left}
        /\ IF e.manager = Null THEN Lower(f["managerEmail"]) = <<>>
           ELSE /\ Lower(f["managerEmail"]) = Address(e.manager) /\ Address(e.manager) # Address(i)
                /\ LooksLikeEmail(Address(e.manager))
        /\ IF pay = NoPay
           THEN f["salaryAmount"] = <<>> /\ f["salaryCurrency"] = <<>> /\ f["salaryEffectiveFrom"] = <<>>
           ELSE /\ f["salaryAmount"] # <<>> /\ ParseAmountToMinor(f["salaryAmount"]) = pay.amount
                /\ f["salaryCurrency"] # <<>> /\ Upper(f["salaryCurrency"]) = <<pay.currency>>
                /\ f["salaryEffectiveFrom"] # <<>>
                /\ Meant(f["salaryEffectiveFrom"], DayText) = {pay.from}

\* The guarded cells of a person are read as that person.
LEMMA PersonIsReadAs ==
    ASSUME NEW tables, NEW i, NEW day, PersonOK(tables, i, day),
           NEW f, \A c \in Columns : f[c] = Guarded(PersonCells(EmployeeRow(tables, i, day))[c])
    PROVE  ReadAs(f, tables, i, day)
<1> DEFINE row == EmployeeRow(tables, i, day)
           cells == PersonCells(row)
           e == tables.employees[i]
           pay == PayOn(tables, i, day)
<1>1. row.id = i /\ row.employee = e /\ row.salary = pay
    BY DEF EmployeeRow
<1>2. \A n \in 1..13 : f[ColumnList[n]] = Guarded(cells[ColumnList[n]])
    BY ColumnsArePlaces
<1>3. PersonOK(tables, i, day)
    OBVIOUS
<1> HIDE DEF cells, row
<1>4. /\ f["fullName"] = Guarded(cells["fullName"]) /\ f["email"] = Guarded(cells["email"])
      /\ f["country"] = Guarded(cells["country"]) /\ f["department"] = Guarded(cells["department"])
      /\ f["jobLevel"] = Guarded(cells["jobLevel"]) /\ f["jobTitle"] = Guarded(cells["jobTitle"])
      /\ f["hireDate"] = Guarded(cells["hireDate"]) /\ f["status"] = Guarded(cells["status"])
      /\ f["leftOn"] = Guarded(cells["leftOn"]) /\ f["managerEmail"] = Guarded(cells["managerEmail"])
      /\ f["salaryAmount"] = Guarded(cells["salaryAmount"])
      /\ f["salaryCurrency"] = Guarded(cells["salaryCurrency"])
      /\ f["salaryEffectiveFrom"] = Guarded(cells["salaryEffectiveFrom"])
    BY <1>2 DEF ColumnList
<1>5. /\ cells["fullName"] = NameText[e.name] /\ cells["email"] = EmailText[i]
      /\ cells["country"] = CountryText[e.country] /\ cells["department"] = DepartmentText[e.department]
      /\ cells["jobLevel"] = LevelText[e.level] /\ cells["jobTitle"] = <<>>
      /\ cells["hireDate"] = DayText[e.hired] /\ cells["status"] = <<e.status>>
    BY <1>1 DEF PersonCells, cells
<1>6. /\ cells["leftOn"] = IF e.left = Null THEN <<>> ELSE DayText[e.left]
      /\ cells["managerEmail"] = IF e.manager = Null THEN <<>> ELSE EmailText[e.manager]
    BY <1>1 DEF PersonCells, cells
<1>7. /\ cells["salaryAmount"] = IF pay = NoPay THEN <<>> ELSE FormatMinorToDecimal(pay.amount)
      /\ cells["salaryCurrency"] = IF pay = NoPay THEN <<>> ELSE <<pay.currency>>
      /\ cells["salaryEffectiveFrom"] = IF pay = NoPay THEN <<>> ELSE DayText[pay.from]
    BY <1>1 DEF PersonCells, cells
<1> HIDE DEF e, pay
<1>8. /\ i \in People /\ e.name \in Names /\ e.country \in Countries
      /\ e.department \in Departments /\ e.level \in Levels /\ e.hired \in Days
      /\ e.status \in Statuses /\ (e.left = Null \/ e.left \in Days)
      /\ e.manager = Null \/ (e.manager \in People /\ e.manager # i)
    BY <1>3 DEF PersonOK, e
<1>9. pay # NoPay => /\ Payable(pay.amount) /\ pay.amount \in Nat
                     /\ pay.currency \in Currencies /\ pay.from \in Days
    BY <1>3 DEF PersonOK, pay
<1>10. /\ f["fullName"] = Guarded(NameText[e.name]) /\ f["fullName"] # <<>>
       /\ Len(f["fullName"]) \in Nat
    <2>1. Guarded(NameText[e.name]) \in Seq(Ink) /\ Guarded(NameText[e.name]) # <<>>
        BY <1>8, TextsAreInk, GuardedIsInk
    <2>2. f["fullName"] = Guarded(NameText[e.name])
        BY <1>4, <1>5
    <2>3. Len(Guarded(NameText[e.name])) \in Nat
        <3> DEFINE t == Guarded(NameText[e.name])
        <3> HIDE DEF t
        <3>1. t \in Seq(Ink)
            BY <2>1 DEF t
        <3> QED BY <3>1 DEF t
    <2> QED BY <2>1, <2>2, <2>3
<1>11. Lower(f["email"]) = Address(i) /\ LooksLikeEmail(Address(i)) /\ Len(Address(i)) \in Nat
    <2>1. Lower(f["email"]) = Address(i) /\ LooksLikeEmail(Address(i))
        BY <1>4, <1>5, <1>8, SpellingConstants DEF Address
    <2>2. Len(Address(i)) \in Nat
        <3> DEFINE t == Guarded(EmailText[i])
                   n == Len(t)
                   letter(k) == IF t[k] \in DOMAIN LowerCase THEN LowerCase[t[k]] ELSE t[k]
                   low == [k \in 1..n |-> letter(k)]
                   L == {letter(k) : k \in 1..n}
        <3>1. t \in Seq(Ink)
            BY <1>8, TextsAreInk, GuardedIsInk
        <3> HIDE DEF t
        <3>2. DOMAIN t = 1..n /\ n \in Nat
            BY <3>1
        <3>3. Lower(t) = low
            BY <3>2 DEF Lower
        <3> HIDE DEF n, letter
        <3>4. low \in Seq(L)
            <4>1. \A k \in 1..n : low[k] \in L
                OBVIOUS
            <4> HIDE DEF L
            <4>2. low \in [1..n -> L]
                BY <4>1
            <4> QED BY <3>2, <4>2
        <3> HIDE DEF low, L
        <3>5. Len(low) \in Nat
            BY <3>4
        <3> QED BY <3>3, <3>5 DEF Address, t
    <2> QED BY <2>1, <2>2
<1>12. /\ Meant(Upper(f["country"]), CountryText) = {e.country}
       /\ MeantLower(f["department"], DepartmentText) = {e.department}
       /\ MeantLower(f["jobLevel"], LevelText) = {e.level}
    <2>1. Meant(Upper(Guarded(CountryText[e.country])), CountryText) = {e.country}
        BY <1>8, SpellingConstants
    <2>2. MeantLower(Guarded(DepartmentText[e.department]), DepartmentText) = {e.department}
        BY <1>8, SpellingConstants
    <2>3. MeantLower(Guarded(LevelText[e.level]), LevelText) = {e.level}
        BY <1>8, SpellingConstants
    <2> QED BY <1>4, <1>5, <2>1, <2>2, <2>3
<1>13. f["jobTitle"] = <<>>
    BY <1>4, <1>5, BlankIsBlank
<1>14. Meant(f["hireDate"], DayText) = {e.hired}
    <2>1. Meant(Guarded(DayText[e.hired]), DayText) = {e.hired}
        BY <1>8, SpellingConstants
    <2> QED BY <1>4, <1>5, <2>1
<1>15. Upper(f["status"]) = <<e.status>>
    BY <1>4, <1>5, <1>8, SpellingConstants
<1>16. IF e.left = Null THEN f["leftOn"] = <<>> ELSE Meant(f["leftOn"], DayText) = {e.left}
    BY <1>4, <1>6, <1>8, BlankIsBlank, SpellingConstants
<1>17. IF e.manager = Null THEN Lower(f["managerEmail"]) = <<>>
       ELSE /\ Lower(f["managerEmail"]) = Address(e.manager) /\ Address(e.manager) # Address(i)
            /\ LooksLikeEmail(Address(e.manager))
    BY <1>4, <1>6, <1>8, BlankIsBlank, SpellingConstants DEF Address
<1>18. IF pay = NoPay
       THEN f["salaryAmount"] = <<>> /\ f["salaryCurrency"] = <<>> /\ f["salaryEffectiveFrom"] = <<>>
       ELSE /\ f["salaryAmount"] # <<>> /\ ParseAmountToMinor(f["salaryAmount"]) = pay.amount
            /\ f["salaryCurrency"] # <<>> /\ Upper(f["salaryCurrency"]) = <<pay.currency>>
            /\ f["salaryEffectiveFrom"] # <<>>
            /\ Meant(f["salaryEffectiveFrom"], DayText) = {pay.from}
    <2>1. CASE pay = NoPay
        BY <1>4, <1>7, <2>1, BlankIsBlank
    <2>2. CASE pay # NoPay
        <3>1. f["salaryAmount"] = FormatMinorToDecimal(pay.amount)
            BY <1>4, <1>7, <1>9, <2>2, AmountIsText
        <3>2. f["salaryAmount"] # <<>> /\ ParseAmountToMinor(f["salaryAmount"]) = pay.amount
            BY <1>9, <2>2, <3>1, TextsAreInk, AmountsComeBack
        <3>3. f["salaryCurrency"] = <<pay.currency>> /\ Upper(f["salaryCurrency"]) = <<pay.currency>>
            BY <1>4, <1>7, <1>9, <2>2, SpellingConstants
        <3>4. f["salaryEffectiveFrom"] = Guarded(DayText[pay.from])
            BY <1>4, <1>7, <2>2
        <3>5. /\ Guarded(DayText[pay.from]) # <<>>
              /\ Meant(Guarded(DayText[pay.from]), DayText) = {pay.from}
            BY <1>9, <2>2, TextsAreInk, GuardedIsInk, SpellingConstants
        <3>6. f["salaryCurrency"] # <<>>
            BY <3>3
        <3> QED BY <2>2, <3>2, <3>3, <3>4, <3>5, <3>6
    <2> QED BY <2>1, <2>2
<1> QED BY <1>10, <1>11, <1>12, <1>13, <1>14, <1>15, <1>16, <1>17, <1>18 DEF ReadAs, e, pay

\* A day that is meant is the day that is read.
LEMMA DayIsRead ==
    ASSUME NEW text, NEW d, Meant(text, DayText) = {d}
    PROVE  IsDate(text) /\ DayOf(text) = d
<1>1. IsDate(text)
    BY DEF IsDate
<1>2. DayOf(text) = CHOOSE x \in {d} : TRUE
    BY DEF DayOf
<1>3. (CHOOSE x \in {d} : TRUE) = d
    OBVIOUS
<1> QED BY <1>1, <1>2, <1>3

NothingWrong ==
    [fullName |-> FALSE, email |-> FALSE, country |-> FALSE, department |-> FALSE, jobLevel |-> FALSE,
     jobTitle |-> FALSE, hireDate |-> FALSE, status |-> FALSE, leftOn |-> FALSE, salary |-> FALSE,
     salaryCurrency |-> FALSE, salaryEffectiveFrom |-> FALSE, salaryAmount |-> FALSE,
     managerEmail |-> FALSE]

\* A person who is in the tables is read back without a complaint.
LEMMA NothingIsWrong ==
    ASSUME NEW tables, NEW i, NEW day, PersonOK(tables, i, day), NEW f, ReadAs(f, tables, i, day),
           Len(Guarded(NameText[tables.employees[i].name])) <= MaxNameLength,
           Len(Address(i)) <= MaxEmailLength
    PROVE  Wrong(f) = NothingWrong
<1> DEFINE e == tables.employees[i]
           pay == PayOn(tables, i, day)
           status == ReadStatus(f["status"])
           paid == {c \in PayColumns : f[c] # <<>>}
           manager == Lower(f["managerEmail"])
           whole == paid = PayColumns
           p1 == f["fullName"] = <<>> \/ Len(f["fullName"]) > MaxNameLength
           email == Lower(f["email"])
           p2 == Len(email) > MaxEmailLength \/ ~LooksLikeEmail(email)
           p3 == Meant(Upper(f["country"]), CountryText) = {}
           p4 == MeantLower(f["department"], DepartmentText) = {}
           p5 == MeantLower(f["jobLevel"], LevelText) = {}
           p6 == Len(f["jobTitle"]) > MaxNameLength
           p7 == ~IsDate(f["hireDate"])
           p8 == f["status"] # <<>> /\ Upper(f["status"]) \notin {<<"ACTIVE">>, <<"LEFT">>}
           p9 == IF status = "ACTIVE" THEN f["leftOn"] # <<>>
                 ELSE \/ ~IsDate(f["leftOn"])
                      \/ IsDate(f["hireDate"]) /\ DayOf(f["leftOn"]) < DayOf(f["hireDate"])
           p10 == paid # {} /\ ~whole
           p11 == whole /\ ~Supported(f["salaryCurrency"])
           p12 == whole /\ Supported(f["salaryCurrency"]) /\ ~IsDate(f["salaryEffectiveFrom"])
           p13 == /\ whole /\ Supported(f["salaryCurrency"]) /\ IsDate(f["salaryEffectiveFrom"])
                  /\ ParseAmountToMinor(f["salaryAmount"]) = Refused
           p14 == manager # <<>> /\ (~LooksLikeEmail(manager) \/ manager = email)
<1>1. Wrong(f) = [fullName |-> p1, email |-> p2, country |-> p3, department |-> p4, jobLevel |-> p5,
                  jobTitle |-> p6, hireDate |-> p7, status |-> p8, leftOn |-> p9, salary |-> p10,
                  salaryCurrency |-> p11, salaryEffectiveFrom |-> p12, salaryAmount |-> p13,
                  managerEmail |-> p14]
    BY Zenon DEF Wrong
<1>2. p1 = FALSE
    BY EmployeeCsvConstants DEF ReadAs
<1>3. p2 = FALSE
    <2>1. email = Address(i) /\ LooksLikeEmail(Address(i))
        BY DEF ReadAs
    <2>2. Len(Address(i)) \in Nat
        BY DEF ReadAs
    <2> HIDE DEF email
    <2> QED BY <2>1, <2>2, EmployeeCsvConstants
<1>4. p3 = FALSE /\ p4 = FALSE /\ p5 = FALSE
    BY DEF ReadAs
<1>5. p6 = FALSE
    <2>1. f["jobTitle"] = <<>>
        BY DEF ReadAs
    <2> QED BY <2>1, EmployeeCsvConstants
<1>6. IsDate(f["hireDate"]) /\ DayOf(f["hireDate"]) = e.hired /\ p7 = FALSE
    BY DayIsRead DEF ReadAs
<1>7. e.status \in Statuses /\ Upper(f["status"]) = <<e.status>>
    BY DEF ReadAs, PersonOK
<1>8. p8 = FALSE
    BY <1>7 DEF Statuses
<1>9. status = e.status
    <2>1. <<"ACTIVE">> # <<"LEFT">>
        OBVIOUS
    <2> QED BY <1>7, <2>1 DEF ReadStatus, Statuses
<1>10. p9 = FALSE
    <2>1. CASE e.left = Null
        <3>1. f["leftOn"] = <<>> /\ status = "ACTIVE"
            BY <1>7, <1>9, <2>1 DEF ReadAs, PersonOK, Statuses
        <3> QED BY <3>1
    <2>2. CASE e.left # Null
        <3>1. Meant(f["leftOn"], DayText) = {e.left} /\ status = "LEFT"
            BY <1>9, <2>2 DEF ReadAs, PersonOK
        <3>2. IsDate(f["leftOn"]) /\ DayOf(f["leftOn"]) = e.left
            BY <3>1, DayIsRead
        <3>3. ~(e.left < e.hired)
            BY <2>2, PayrollConstants DEF PersonOK, Days
        <3> HIDE DEF status
        <3> QED BY <1>6, <3>1, <3>2, <3>3
    <2> QED BY <2>1, <2>2
<1>11. paid \in {{}, PayColumns} /\ (whole <=> pay # NoPay)
    <2>1. CASE pay = NoPay
        <3>1. paid = {}
            BY <2>1 DEF ReadAs, PayColumns
        <3> QED BY <2>1, <3>1 DEF PayColumns
    <2>2. CASE pay # NoPay
        <3>1. paid = PayColumns
            BY <2>2 DEF ReadAs, PayColumns
        <3> QED BY <2>2, <3>1
    <2> QED BY <2>1, <2>2
<1>12. p10 = FALSE
    BY <1>11
<1>13. pay # NoPay => Supported(f["salaryCurrency"]) /\ IsDate(f["salaryEffectiveFrom"])
                      /\ ParseAmountToMinor(f["salaryAmount"]) # Refused
    <2> SUFFICES ASSUME pay # NoPay
                 PROVE  Supported(f["salaryCurrency"]) /\ IsDate(f["salaryEffectiveFrom"])
                        /\ ParseAmountToMinor(f["salaryAmount"]) # Refused
        OBVIOUS
    <2>1. Supported(f["salaryCurrency"])
        BY DEF ReadAs, PersonOK, Supported
    <2>2. IsDate(f["salaryEffectiveFrom"])
        BY DayIsRead DEF ReadAs
    <2>3. ParseAmountToMinor(f["salaryAmount"]) # Refused
        BY DEF ReadAs, PersonOK, Refused
    <2> QED BY <2>1, <2>2, <2>3
<1> HIDE DEF whole
<1>14. p11 = FALSE /\ p12 = FALSE /\ p13 = FALSE
    BY <1>11, <1>13
<1>15. p14 = FALSE
    BY DEF ReadAs
<1> HIDE DEF p1, p2, p3, p4, p5, p6, p7, p8, p9, p10, p11, p12, p13, p14
<1> QED BY <1>1, <1>2, <1>3, <1>4, <1>5, <1>6, <1>8, <1>10, <1>12, <1>14, <1>15, Zenon DEF NothingWrong

\* Nothing is chosen of a list at no places.
LEMMA NothingIsChosen ==
    ASSUME NEW X, NEW s \in Seq(X)
    PROVE  Chosen(s, {}) = <<>>
<1> DEFINE t == Chosen(s, {})
<1>1. {} \in SUBSET (1..Len(s))
    OBVIOUS
<1>2. t \in Seq(X) /\ Len(t) = Cardinality({})
    BY <1>1, ChosenAre
<1>3. Cardinality({}) = 0
    BY FS_EmptySet
<1> HIDE DEF t
<1>4. t = <<>>
    BY <1>2, <1>3
<1> QED BY <1>4 DEF t

\* A row with nothing wrong has no column to complain about.
LEMMA NoColumnIsWrong ==
    ASSUME NEW f, Wrong(f) = NothingWrong
    PROVE  ProblemColumns(f) = <<>>
<1> DEFINE list == CheckedColumns
           P == {k \in DOMAIN list : NothingWrong[list[k]]}
<1>1. ProblemColumns(f) = Chosen(list, P)
    BY DEF ProblemColumns, Where
<1>2. list \in Seq(CheckNames)
    <2>1. list = [k \in 1..14 |-> list[k]]
        BY DEF CheckedColumns
    <2>2. \A k \in 1..14 : list[k] \in CheckNames
        <3>1. \A k \in 1..7 : CheckedColumns[k] \in CheckNames
            BY DEF CheckedColumns, CheckNames
        <3>2. \A k \in 8..14 : CheckedColumns[k] \in CheckNames
            BY DEF CheckedColumns, CheckNames
        <3> QED BY <3>1, <3>2
    <2> HIDE DEF list
    <2> QED BY <2>1, <2>2
<1>3. \A c \in CheckNames : ~NothingWrong[c]
    BY DEF CheckNames, NothingWrong
<1>4. \A k \in DOMAIN list : list[k] \in CheckNames
    <2> DEFINE Y == CheckNames
    <2> HIDE DEF list, Y
    <2>1. list \in Seq(Y)
        BY <1>2 DEF Y
    <2> QED BY <2>1 DEF Y
<1>5. P = {}
    <2> HIDE DEF list
    <2> QED BY <1>3, <1>4
<1> HIDE DEF list, P
<1> QED BY <1>1, <1>2, <1>5, NothingIsChosen

\* The draft that a person is read back as.
PersonDraft(tables, line, i, day) ==
    LET e   == tables.employees[i]
        pay == PayOn(tables, i, day)
    IN  [row |-> line, name |-> Guarded(NameText[e.name]), email |-> Address(i),
         country |-> e.country, department |-> e.department, level |-> e.level, hired |-> e.hired,
         status |-> e.status, left |-> e.left,
         manager |-> IF e.manager = Null THEN <<>> ELSE Address(e.manager),
         pay |-> IF pay = NoPay THEN NoPay
                 ELSE [amount |-> pay.amount, currency |-> pay.currency, from |-> pay.from]]

\* What readRow returns for the cells of a person is the person.
LEMMA DraftIsPerson ==
    ASSUME NEW tables, NEW i, NEW day, PersonOK(tables, i, day), NEW f, ReadAs(f, tables, i, day),
           NEW line
    PROVE  Draft(line, f) = PersonDraft(tables, line, i, day)
<1> DEFINE e == tables.employees[i]
           paid == PayOn(tables, i, day)
           status == ReadStatus(f["status"])
           the(S) == CHOOSE x \in S : TRUE
           email == Lower(f["email"])
           country == the(Meant(Upper(f["country"]), CountryText))
           department == the(MeantLower(f["department"], DepartmentText))
           level == the(MeantLower(f["jobLevel"], LevelText))
           hired == DayOf(f["hireDate"])
           left == IF status = "LEFT" THEN DayOf(f["leftOn"]) ELSE Null
           manager == Lower(f["managerEmail"])
           currency == the({c \in Currencies : Upper(f["salaryCurrency"]) = <<c>>})
           pay == IF f["salaryAmount"] = <<>> THEN NoPay
                  ELSE [amount |-> ParseAmountToMinor(f["salaryAmount"]), currency |-> currency,
                        from |-> DayOf(f["salaryEffectiveFrom"])]
<1>1. Draft(line, f) = [row |-> line, name |-> f["fullName"], email |-> email, country |-> country,
                        department |-> department, level |-> level, hired |-> hired,
                        status |-> status, left |-> left, manager |-> manager, pay |-> pay]
    BY Zenon DEF Draft
<1>2. f["fullName"] = Guarded(NameText[e.name]) /\ email = Address(i)
    BY DEF ReadAs
<1>3. \A x : the({x}) = x
    OBVIOUS
<1>4. country = e.country /\ department = e.department /\ level = e.level
    BY <1>3 DEF ReadAs
<1>5. hired = e.hired
    BY DayIsRead DEF ReadAs
<1>6. e.status \in Statuses /\ Upper(f["status"]) = <<e.status>>
    BY DEF ReadAs, PersonOK
<1>7. status = e.status
    <2>1. <<"ACTIVE">> # <<"LEFT">>
        OBVIOUS
    <2> QED BY <1>6, <2>1 DEF ReadStatus, Statuses
<1>8. left = e.left
    <2>1. CASE e.left = Null
        <3>1. status # "LEFT"
            BY <1>7, <2>1 DEF PersonOK
        <3> QED BY <2>1, <3>1
    <2>2. CASE e.left # Null
        <3>1. Meant(f["leftOn"], DayText) = {e.left} /\ status = "LEFT"
            BY <1>7, <2>2 DEF ReadAs, PersonOK
        <3>2. DayOf(f["leftOn"]) = e.left
            BY <3>1, DayIsRead
        <3> HIDE DEF status
        <3> QED BY <3>1, <3>2
    <2> QED BY <2>1, <2>2
<1>9. manager = IF e.manager = Null THEN <<>> ELSE Address(e.manager)
    BY DEF ReadAs
<1>10. pay = IF paid = NoPay THEN NoPay
             ELSE [amount |-> paid.amount, currency |-> paid.currency, from |-> paid.from]
    <2>1. CASE paid = NoPay
        <3>1. f["salaryAmount"] = <<>>
            BY <2>1 DEF ReadAs
        <3> QED BY <2>1, <3>1
    <2>2. CASE paid # NoPay
        <3>1. f["salaryAmount"] # <<>> /\ ParseAmountToMinor(f["salaryAmount"]) = paid.amount
            BY <2>2 DEF ReadAs
        <3>2. DayOf(f["salaryEffectiveFrom"]) = paid.from
            BY <2>2, DayIsRead DEF ReadAs
        <3>3. {c \in Currencies : Upper(f["salaryCurrency"]) = <<c>>} = {paid.currency}
            <4>1. Upper(f["salaryCurrency"]) = <<paid.currency>> /\ paid.currency \in Currencies
                BY <2>2 DEF ReadAs, PersonOK
            <4>2. \A c : <<paid.currency>> = <<c>> <=> c = paid.currency
                OBVIOUS
            <4> QED BY <4>1, <4>2
        <3>4. currency = paid.currency
            BY <1>3, <3>3
        <3> HIDE DEF currency
        <3> QED BY <2>2, <3>1, <3>2, <3>4
    <2> QED BY <2>1, <2>2
<1> HIDE DEF email, country, department, level, hired, left, manager, pay, status
<1> QED BY <1>1, <1>2, <1>4, <1>5, <1>7, <1>8, <1>9, <1>10, Zenon DEF PersonDraft

-----------------------------------------------------------------------------
(* An export as a file *)

ColumnRow == [k \in DOMAIN ColumnList |-> <<ColumnList[k]>>]

\* The rows of an export of "who".
ExportSheet(tables, who, day) ==
    [k \in 1..(Len(who) + 1) |->
        IF k = 1 THEN ColumnRow ELSE ToCsvRecord(EmployeeRow(tables, who[k - 1], day))]

\* The heading of a column is no formula.
LEMMA ColumnsArePlain == \A c \in Columns : Guarded(<<c>>) = <<c>>
<1>1. \A n \in 1..13 : ColumnList[n] \notin {"=", "+", "-", "@", Tab, CR}
    BY DEF ColumnList, Tab, CR
<1>2. ASSUME NEW c, c \notin {"=", "+", "-", "@", Tab, CR} PROVE Guarded(<<c>>) = <<c>>
    <2>1. <<c>>[1] = c
        OBVIOUS
    <2> QED BY <1>2, <2>1 DEF Guarded
<1> QED BY <1>1, <1>2, ColumnsArePlaces

\* The header is a row of thirteen texts.
LEMMA ColumnRowIsText ==
    /\ ColumnRow \in Seq(Seq(Ink)) /\ Len(ColumnRow) = 13
    /\ \A n \in 1..13 : ColumnRow[n] = <<ColumnList[n]>>
<1> DEFINE T == Seq(Ink)
<1>1. ColumnRow = [n \in 1..13 |-> ColumnRow[n]]
    BY ColumnsArePlaces DEF ColumnRow
<1>a. \A n \in 1..13 : ColumnRow[n] = <<ColumnList[n]>>
    BY ColumnsArePlaces DEF ColumnRow
<1>2. \A c \in Columns : <<c>> \in T
    <2>1. Columns \subseteq Ink
        BY DEF Ink
    <2> HIDE DEF Ink
    <2> QED BY <2>1
<1>3. \A n \in 1..13 : ColumnRow[n] \in T
    <2> TAKE n \in 1..13
    <2>1. ColumnList[n] \in Columns
        BY ColumnsArePlaces
    <2>2. <<ColumnList[n]>> \in T
        BY <1>2, <2>1
    <2> HIDE DEF T
    <2> QED BY <1>a, <2>2
<1> HIDE DEF T
<1>4. 13 \in Nat
    OBVIOUS
<1>5. ColumnRow \in Seq(T) /\ Len(ColumnRow) = 13
    BY <1>1, <1>3, <1>4, ListedFunction
<1> QED BY <1>a, <1>5 DEF T

\* It has a row for the header and one for each person, thirteen cells in each.
LEMMA ExportIsSheet ==
    ASSUME NEW tables, IsCompany(tables), NEW who \in Seq(DOMAIN tables.employees), NEW day
    PROVE  LET sheet == ExportSheet(tables, who, day)
           IN  /\ IsSheet(sheet, Ink) /\ Len(sheet) = Len(who) + 1 /\ sheet # <<>>
               /\ \A k \in 1..Len(sheet) : sheet[k] \in Seq(Seq(Ink)) /\ Len(sheet[k]) = 13
<1> DEFINE sheet == ExportSheet(tables, who, day)
           T == Seq(Ink)
           N == Len(who) + 1
           Ids0 == DOMAIN tables.employees
<1>1. N \in Nat \ {0} /\ \A k \in 1..(N - 1) : who[k] \in Ids0
    OBVIOUS
<1>2. \A k \in 1..N : k = 1 \/ k - 1 \in 1..(N - 1)
    BY <1>1
<1>3. \A k \in 1..N : sheet[k] = IF k = 1 THEN ColumnRow
                                 ELSE ToCsvRecord(EmployeeRow(tables, who[k - 1], day))
    BY DEF ExportSheet
<1>4. sheet = [k \in 1..N |-> sheet[k]]
    BY DEF ExportSheet
<1> HIDE DEF sheet, N, T, Ids0
<1>5. ASSUME NEW k \in 1..N PROVE sheet[k] \in Seq(T) /\ Len(sheet[k]) = 13
    <2>1. CASE k = 1
        BY <1>3, <2>1, ColumnRowIsText DEF T
    <2>2. CASE k # 1
        <3> DEFINE i == who[k - 1]
                   row == EmployeeRow(tables, i, day)
        <3>1. sheet[k] = ToCsvRecord(row)
            BY <1>3, <2>2
        <3>2. i \in Ids0
            BY <1>1, <1>2, <2>2
        <3> HIDE DEF i
        <3>3. PersonOK(tables, i, day)
            BY <3>2, PeopleAreOK DEF Ids0
        <3>4. \A c \in Columns : PersonCells(row)[c] \in T
            BY <3>3, PersonIsInk DEF T
        <3> HIDE DEF row
        <3> QED BY <3>1, <3>4, RowIsCells
    <2> QED BY <2>1, <2>2
<1> DEFINE U == Seq(T)
<1>6. \A k \in 1..N : sheet[k] \in U
    BY <1>5
<1> HIDE DEF U
<1>7. sheet \in Seq(U) /\ Len(sheet) = N
    BY <1>1, <1>4, <1>6, ListedFunction
<1>8. ASSUME NEW k \in DOMAIN sheet PROVE sheet[k] # <<>> /\ sheet[k] # <<(<<>>)>>
    <2>1. Len(sheet[k]) = 13
        BY <1>4, <1>5
    <2>2. ASSUME NEW v, Len(v) = 13 PROVE v # <<>> /\ v # <<(<<>>)>>
        <3>1. Len(<<>>) = 0 /\ Len(<<(<<>>)>>) = 1
            OBVIOUS
        <3>2. ASSUME v = <<>> PROVE FALSE
            BY <2>2, <3>1, <3>2
        <3>3. ASSUME v = <<(<<>>)>> PROVE FALSE
            BY <2>2, <3>1, <3>3
        <3> QED BY <3>2, <3>3
    <2> QED BY <2>1, <2>2
<1>9. IsSheet(sheet, Ink)
    BY <1>7, <1>8 DEF IsSheet, T, U
<1>10. sheet # <<>>
    BY <1>1, <1>7
<1> QED BY <1>5, <1>7, <1>9, <1>10 DEF sheet, T, N

\* The cell in each place.
LEMMA CellOfRow ==
    ASSUME NEW S, NEW row, \A c \in Columns : PersonCells(row)[c] \in S, NEW n \in 1..13
    PROVE  ToCsvRecord(row)[n] = PersonCells(row)[ColumnList[n]]
<1>1. /\ ToCsvRecord(row) \in Seq(S) /\ Len(ToCsvRecord(row)) = 13
      /\ \A m \in 1..13 : ToCsvRecord(row)[m] = PersonCells(row)[ColumnList[m]]
    BY RowIsCells
<1> QED BY <1>1

\* The cells of a person's row.
LEMMA PersonRow ==
    ASSUME NEW tables, NEW i, NEW day, PersonOK(tables, i, day)
    PROVE  \A n \in 1..13 : ToCsvRecord(EmployeeRow(tables, i, day))[n]
                               = PersonCells(EmployeeRow(tables, i, day))[ColumnList[n]]
<1> SUFFICES ASSUME NEW n \in 1..13
             PROVE  ToCsvRecord(EmployeeRow(tables, i, day))[n]
                       = PersonCells(EmployeeRow(tables, i, day))[ColumnList[n]]
    OBVIOUS
<1> DEFINE T == Seq(Ink)
<1>1. \A c \in Columns : PersonCells(EmployeeRow(tables, i, day))[c] \in T
    BY PersonIsInk
<1> HIDE DEF T
<1> QED BY <1>1, CellOfRow

\* A line that was read has the cells of a person, guarded.
ReadsAs(cells, row) ==
    /\ DOMAIN cells = 1..13
    /\ \A n \in 1..13 : cells[n] = Guarded(PersonCells(row)[ColumnList[n]])

\* What is read of an export: the header, and the guarded cells of each person.
LEMMA ExportIsRead ==
    ASSUME NEW tables, IsCompany(tables), NEW who \in Seq(DOMAIN tables.employees), NEW day,
           NEW G, G = ParseCsv(TextOf(ExportSheet(tables, who, day)))
    PROVE  /\ G \in Seq(Range(G)) /\ Len(G) = Len(who) + 1 /\ G # <<>>
           /\ DOMAIN G[1] = 1..13 /\ \A n \in 1..13 : G[1][n] = <<ColumnList[n]>>
           /\ \A k \in 1..Len(who) : ReadsAs(G[k + 1], EmployeeRow(tables, who[k], day))
<1> DEFINE sheet == ExportSheet(tables, who, day)
           N == Len(who) + 1
<1>1. N \in Nat \ {0} /\ \A k \in 1..Len(who) : k + 1 \in 1..N /\ k + 1 # 1 /\ (k + 1) - 1 = k
    OBVIOUS
<1>2. /\ IsSheet(sheet, Ink) /\ Len(sheet) = N
      /\ \A k \in 1..N : sheet[k] \in Seq(Seq(Ink)) /\ Len(sheet[k]) = 13
    BY ExportIsSheet
<1>3. DOMAIN sheet = 1..N
    BY DEF ExportSheet
<1>4. Marks \subseteq Ink
    BY DEF Ink
<1>5. G = GuardedRows(sheet)
    BY <1>2, <1>4, CsvComesBack
<1>6. \A k \in 1..N : sheet[k] = IF k = 1 THEN ColumnRow
                                 ELSE ToCsvRecord(EmployeeRow(tables, who[k - 1], day))
    BY DEF ExportSheet
<1> HIDE DEF sheet, N
<1>7. G = [k \in 1..N |-> G[k]] /\ DOMAIN G = 1..N /\ \A k \in 1..N : G[k] = GuardedRow(sheet[k])
    BY <1>3, <1>5 DEF GuardedRows
<1>8. ASSUME NEW k \in 1..N
      PROVE  DOMAIN G[k] = 1..13 /\ \A n \in 1..13 : G[k][n] = Guarded(sheet[k][n])
    <2> DEFINE values == sheet[k]
               T == Seq(Ink)
    <2> HIDE DEF T
    <2>1. values \in Seq(T) /\ Len(values) = 13
        BY <1>2 DEF T
    <2> HIDE DEF values
    <2>2. DOMAIN values = 1..13
        BY <2>1
    <2>3. GuardedRow(values) = [n \in 1..13 |-> Guarded(values[n])]
        BY <2>2 DEF GuardedRow
    <2> QED BY <1>7, <2>3 DEF values
<1>9. G \in Seq(Range(G)) /\ Len(G) = N
    <2>1. \A k \in 1..N : G[k] \in Range(G)
        BY <1>7 DEF Range
    <2> DEFINE R == Range(G)
    <2> HIDE DEF R
    <2>2. \A k \in 1..N : G[k] \in R
        BY <2>1 DEF R
    <2>3. G \in Seq(R) /\ Len(G) = N
        BY <1>1, <1>7, <2>2, ListedFunction
    <2> QED BY <2>3 DEF R
<1>10. DOMAIN G[1] = 1..13 /\ \A n \in 1..13 : G[1][n] = <<ColumnList[n]>>
    <2>1. 1 \in 1..N
        BY <1>1
    <2>2. \A n \in 1..13 : G[1][n] = Guarded(<<ColumnList[n]>>)
        <3>1. sheet[1] = ColumnRow
            BY <1>6, <2>1
        <3>2. \A n \in 1..13 : sheet[1][n] = <<ColumnList[n]>>
            BY <3>1, ColumnRowIsText
        <3> QED BY <1>8, <2>1, <3>2
    <2> QED BY <1>8, <2>1, <2>2, ColumnsArePlain, ColumnsArePlaces
<1>11. ASSUME NEW k \in 1..Len(who)
       PROVE  ReadsAs(G[k + 1], EmployeeRow(tables, who[k], day))
    <2> DEFINE i == who[k]
               row == EmployeeRow(tables, i, day)
    <2>1. k + 1 \in 1..N /\ k + 1 # 1 /\ (k + 1) - 1 = k
        BY <1>1
    <2>2. sheet[k + 1] = ToCsvRecord(row)
        BY <1>6, <2>1
    <2>3. i \in DOMAIN tables.employees
        OBVIOUS
    <2>4. DOMAIN G[k + 1] = 1..13 /\ \A n \in 1..13 : G[k + 1][n] = Guarded(sheet[k + 1][n])
        BY <1>8, <2>1
    <2> HIDE DEF i
    <2>5. PersonOK(tables, i, day)
        BY <2>3, PeopleAreOK
    <2>6. \A n \in 1..13 : ToCsvRecord(row)[n] = PersonCells(row)[ColumnList[n]]
        BY <2>5, PersonRow
    <2> HIDE DEF row
    <2>7. \A n \in 1..13 : G[k + 1][n] = Guarded(PersonCells(row)[ColumnList[n]])
        BY <2>2, <2>4, <2>6
    <2>8. ReadsAs(G[k + 1], row)
        BY <2>4, <2>7 DEF ReadsAs
    <2> QED BY <2>8 DEF row, i
<1>12. G # <<>>
    BY <1>1, <1>9
<1> QED BY <1>9, <1>10, <1>11, <1>12 DEF N

\* The header of an export is read as what it is.
LEMMA HeaderIsRead ==
    ASSUME NEW header, DOMAIN header = 1..13, \A n \in 1..13 : header[n] = <<ColumnList[n]>>
    PROVE  /\ \A n \in 1..13 : ReadHeader(header)[ColumnList[n]] = n
           /\ MissingColumns(header) = {}
<1>1. ASSUME NEW n \in 1..13 PROVE ReadHeader(header)[ColumnList[n]] = n
    <2> DEFINE c == ColumnList[n]
               at == Positions(header, c)
    <2>1. c \in Columns
        BY ColumnsArePlaces
    <2>2. \A k \in 1..13 : Normalised(header[k]) = Lower(<<c>>) <=> k = n
        <3> TAKE k \in 1..13
        <3>1. ColumnList[k] \in Columns
            BY ColumnsArePlaces
        <3>2. Normalised(<<ColumnList[k]>>) = Lower(<<c>>) <=> ColumnList[k] = c
            BY <2>1, <3>1, SpellingConstants
        <3> QED BY <3>2, ColumnsArePlaces
    <2>3. at = {n}
        BY <2>2 DEF Positions
    <2>4. Min({n}) = n
        <3>1. {n} \in SUBSET Int /\ {n} # {}
            OBVIOUS
        <3>2. IsFiniteSet({n})
            BY FS_Singleton
        <3>3. Min({n}) \in {n}
            BY <3>1, <3>2, MinIsLeast
        <3> QED BY <3>3
    <2>5. ReadHeader(header)[c] = IF at = {} THEN NotInFile ELSE Min(at)
        BY <2>1 DEF ReadHeader
    <2>6. at # {}
        BY <2>3
    <2> HIDE DEF at, c
    <2> QED BY <2>3, <2>4, <2>5, <2>6 DEF c
<1>2. RequiredColumns \subseteq Columns
    <2>1. /\ ColumnList[1] = "fullName" /\ ColumnList[2] = "email" /\ ColumnList[3] = "country"
          /\ ColumnList[4] = "department" /\ ColumnList[5] = "jobLevel" /\ ColumnList[7] = "hireDate"
        BY DEF ColumnList
    <2>2. /\ ColumnList[1] \in Columns /\ ColumnList[2] \in Columns /\ ColumnList[3] \in Columns
          /\ ColumnList[4] \in Columns /\ ColumnList[5] \in Columns /\ ColumnList[7] \in Columns
        BY ColumnsArePlaces
    <2> QED BY <2>1, <2>2 DEF RequiredColumns
<1>3. MissingColumns(header) = {}
    <2> SUFFICES ASSUME NEW c \in RequiredColumns PROVE ReadHeader(header)[c] # NotInFile
        BY DEF MissingColumns
    <2>1. PICK n \in 1..13 : ColumnList[n] = c
        BY <1>2, ColumnsArePlaces
    <2> QED BY <1>1, <2>1 DEF NotInFile
<1> QED BY <1>1, <1>3

-----------------------------------------------------------------------------
(* An export goes back in *)

\* From one to n are n.
LEMMA NumbersAreCounted == ASSUME NEW n \in Nat PROVE Cardinality(1..n) = n
BY FS_Interval

\* Who chooses all of a list has the list.
LEMMA AllAreChosen ==
    ASSUME NEW X, NEW s \in Seq(X)
    PROVE  Chosen(s, DOMAIN s) = s
<1> DEFINE N == Len(s)
           P == 1..N
           order == OrderBy(P, <)
           count(x) == Cardinality({y \in P : y < x})
           stands(x, k) == count(x) = k - 1
<1>1. N \in Nat /\ DOMAIN s = P /\ s = [k \in P |-> s[k]]
    OBVIOUS
<1> HIDE DEF N
<1>2. Cardinality(P) = N
    BY <1>1, NumbersAreCounted
<1>3. order = [k \in 1..Cardinality(P) |-> CHOOSE x \in P : stands(x, k)]
    BY DEF OrderBy
<1>4. ASSUME NEW x \in P PROVE count(x) = x - 1
    <2>1. {y \in P : y < x} = 1..(x - 1)
        BY <1>1
    <2>2. x - 1 \in Nat
        BY <1>1
    <2>3. Cardinality(1..(x - 1)) = x - 1
        BY <2>2, NumbersAreCounted
    <2> DEFINE low == {y \in P : y < x}
    <2>4. low = 1..(x - 1)
        BY <2>1
    <2> HIDE DEF low
    <2>5. Cardinality(low) = x - 1
        BY <2>3, <2>4
    <2> QED BY <2>5 DEF low
<1> HIDE DEF count
<1>5. ASSUME NEW k \in P PROVE order[k] = k
    <2>1. \A x \in P : stands(x, k) <=> x = k
        <3> TAKE x \in P
        <3>1. count(x) = x - 1
            BY <1>4
        <3>2. x \in Nat /\ k \in Nat
            BY <1>1
        <3> QED BY <3>1, <3>2
    <2>2. (CHOOSE x \in P : stands(x, k)) = k
        <3> HIDE DEF stands
        <3> QED BY <2>1
    <2> HIDE DEF stands, order
    <2> QED BY <1>2, <1>3, <2>2
<1>6. DOMAIN order = P
    <2> HIDE DEF order, stands
    <2> QED BY <1>2, <1>3
<1>7. Chosen(s, P) = [k \in DOMAIN order |-> s[order[k]]]
    BY DEF Chosen
<1> HIDE DEF order, P
<1>8. [k \in DOMAIN order |-> s[order[k]]] = [k \in P |-> s[k]]
    BY <1>5, <1>6
<1> QED BY <1>1, <1>7, <1>8

\* A file without a repeated address is left as it is.
LEMMA NothingRepeats ==
    ASSUME NEW L \in Nat, NEW fields, DOMAIN fields = 2..L,
           NEW columns, \A line \in 2..L : columns[line] = <<>>,
           \A j, k \in 2..L : Lower(fields[j]["email"]) = Lower(fields[k]["email"]) => j = k
    PROVE  \A line \in 2..L : WithoutRepeats(fields, columns)[line] = <<>>
<1> SUFFICES ASSUME NEW line \in 2..L PROVE WithoutRepeats(fields, columns)[line] = <<>>
    OBVIOUS
<1> DEFINE email(n) == Lower(fields[n]["email"])
           again == \E n \in 2..(line - 1) : columns[n] = <<>> /\ email(n) = email(line)
<1>1. WithoutRepeats(fields, columns)[line]
          = IF columns[line] = <<>> /\ again THEN <<"email">> ELSE columns[line]
    BY DEF WithoutRepeats
<1>2. ~again
    <2> SUFFICES ASSUME NEW n \in 2..(line - 1), email(n) = email(line) PROVE FALSE
        OBVIOUS
    <2>1. n \in 2..L /\ n # line
        OBVIOUS
    <2> QED BY <2>1
<1> HIDE DEF again
<1> QED BY <1>1, <1>2

\* When nothing is wrong every line is a person.
LEMMA CleanReading ==
    ASSUME NEW L \in Nat \ {0}, NEW fields, DOMAIN fields = 2..L,
           NEW found, \A line \in 2..L : found[line] = <<>>
    PROVE  LET parsed == Reading(fields, found)
           IN  /\ parsed.problems = <<>> /\ parsed.totalRows = L - 1
               /\ Len(parsed.rows) = L - 1
               /\ \A k \in 1..(L - 1) : parsed.rows[k] = Draft(k + 1, fields[k + 1])
<1> DEFINE lines == [k \in 1..Cardinality(DOMAIN fields) |-> k + 1]
           P == {k \in DOMAIN lines : found[lines[k]] = <<>>}
           good == Chosen(lines, P)
           rows == [k \in DOMAIN good |-> Draft(good[k], fields[good[k]])]
           About1(k) == [n \in DOMAIN found[lines[k]] |-> Problem(lines[k], found[lines[k]][n])]
           pieces == [k \in DOMAIN lines |-> About1(k)]
           problems == FlattenSeq(pieces)
           T == 2..L
<1>1. lines \in Seq(T) /\ Len(lines) = L - 1
    BY LinesAreNumbered
<1>2. Reading(fields, found) = [rows |-> rows, problems |-> problems, totalRows |-> Len(lines)]
    BY DEF Reading, Where
<1>3. DOMAIN lines = 1..(L - 1) /\ L - 1 \in Nat
    <2> HIDE DEF lines
    <2> QED BY <1>1
<1>4. \A k \in 1..(L - 1) : lines[k] = k + 1 /\ k + 1 \in 2..L
    <2>1. \A k \in DOMAIN lines : lines[k] = k + 1
        OBVIOUS
    <2>2. \A k \in 1..(L - 1) : k + 1 \in 2..L
        OBVIOUS
    <2> HIDE DEF lines
    <2> QED BY <1>3, <2>1, <2>2
<1> HIDE DEF lines
<1>5. P = DOMAIN lines
    BY <1>3, <1>4
<1>6. good = lines
    <2> HIDE DEF P, T
    <2>1. Chosen(lines, DOMAIN lines) = lines
        BY <1>1, AllAreChosen
    <2> QED BY <1>5, <2>1
<1> HIDE DEF good
<1>7. rows = [k \in 1..(L - 1) |-> Draft(k + 1, fields[k + 1])]
    BY <1>3, <1>4, <1>6
<1>8. Len(rows) = L - 1 /\ \A k \in 1..(L - 1) : rows[k] = Draft(k + 1, fields[k + 1])
    <2> HIDE DEF rows
    <2>1. DOMAIN rows = 1..(L - 1) /\ \A k \in 1..(L - 1) : rows[k] = Draft(k + 1, fields[k + 1])
        BY <1>7
    <2>2. rows = [k \in 1..(L - 1) |-> rows[k]] /\ \A k \in 1..(L - 1) : rows[k] \in Range(rows)
        BY <1>7, <2>1 DEF Range
    <2>3. Len(rows) = L - 1
        BY <1>3, <2>2, ListedFunction
    <2> QED BY <2>1, <2>3
<1> HIDE DEF rows
<1>9. \A k \in 1..(L - 1) : About1(k) = <<>>
    <2> SUFFICES ASSUME NEW k \in 1..(L - 1) PROVE About1(k) = <<>>
        OBVIOUS
    <2>1. found[lines[k]] = <<>>
        BY <1>4
    <2>2. DOMAIN About1(k) = {}
        BY <2>1
    <2> QED BY <2>1
<1>10. problems = <<>>
    <2> DEFINE E == {}
               S == Seq(E)
    <2>1. <<>> \in S
        OBVIOUS
    <2>2. pieces = [k \in 1..(L - 1) |-> pieces[k]] /\ DOMAIN pieces = 1..(L - 1)
        BY <1>3
    <2>3. \A k \in 1..(L - 1) : pieces[k] = <<>>
        BY <1>3, <1>9
    <2> HIDE DEF pieces, S, E
    <2>4. \A k \in 1..(L - 1) : pieces[k] \in S
        BY <2>1, <2>3
    <2>5. pieces \in Seq(S)
        BY <1>3, <2>2, <2>4, ListedFunction
    <2>6. problems \in Seq(E) /\ Range(problems) = AllOf(pieces)
        BY <2>5, FlatteningKeeps DEF S
    <2> HIDE DEF problems
    <2>7. Len(problems) = 0
        <3>1. \A n \in 1..Len(problems) : problems[n] \in E
            BY <2>6
        <3>2. Len(problems) \in Nat
            BY <2>6
        <3>3. ASSUME Len(problems) # 0 PROVE FALSE
            <4>1. 1 \in 1..Len(problems)
                BY <3>2, <3>3
            <4> QED BY <3>1, <4>1 DEF E
        <3> QED BY <3>3
    <2> QED BY <2>6, <2>7
<1> HIDE DEF problems
<1> DEFINE parsed == Reading(fields, found)
<1>11. parsed.rows = rows /\ parsed.problems = problems /\ parsed.totalRows = L - 1
    BY <1>1, <1>2
<1> HIDE DEF parsed
<1> QED BY <1>8, <1>10, <1>11 DEF parsed

\* Everybody's name and address is short enough.
NamesFit(tables, who) ==
    \A k \in DOMAIN who :
        /\ Len(Guarded(NameText[tables.employees[who[k]].name])) <= MaxNameLength
        /\ Len(Address(who[k])) <= MaxEmailLength

\* The rows that were read say what the tables do about who was written.
SaysWho(parsed, tables, who, day) ==
    /\ parsed.problems = <<>> /\ Len(parsed.rows) = Len(who)
    /\ \A k \in 1..Len(who) : parsed.rows[k] = PersonDraft(tables, k + 1, who[k], day)

\* The cells of a line are the person's.
LEMMA LineIsPerson ==
    ASSUME NEW tables, IsCompany(tables), NEW who \in Seq(DOMAIN tables.employees), NEW day,
           NEW G, G = ParseCsv(TextOf(ExportSheet(tables, who, day))), NEW k \in 1..Len(who)
    PROVE  ReadAs(Fields(G, ReadHeader(G[1]))[k + 1], tables, who[k], day)
<1>0. /\ Len(G) = Len(who) + 1 /\ DOMAIN G[1] = 1..13 /\ \A n \in 1..13 : G[1][n] = <<ColumnList[n]>>
      /\ \A m \in 1..Len(who) : ReadsAs(G[m + 1], EmployeeRow(tables, who[m], day))
    <2>1. /\ G \in Seq(Range(G)) /\ Len(G) = Len(who) + 1 /\ G # <<>>
          /\ DOMAIN G[1] = 1..13 /\ \A n \in 1..13 : G[1][n] = <<ColumnList[n]>>
        BY ExportIsRead
    <2>2. \A m \in 1..Len(who) : ReadsAs(G[m + 1], EmployeeRow(tables, who[m], day))
        BY ExportIsRead
    <2> QED BY <2>1, <2>2
<1> DEFINE at == ReadHeader(G[1])
           f == Fields(G, at)[k + 1]
           i == who[k]
<1>1. /\ Len(G) = Len(who) + 1 /\ DOMAIN G[1] = 1..13 /\ \A n \in 1..13 : G[1][n] = <<ColumnList[n]>>
      /\ ReadsAs(G[k + 1], EmployeeRow(tables, i, day))
    BY <1>0
<1>a. /\ DOMAIN G[k + 1] = 1..13
      /\ \A n \in 1..13 : G[k + 1][n] = Guarded(PersonCells(EmployeeRow(tables, i, day))[ColumnList[n]])
    BY <1>1 DEF ReadsAs
<1>2. \A n \in 1..13 : at[ColumnList[n]] = n
    <2> DEFINE header == G[1]
    <2>1. DOMAIN header = 1..13 /\ \A n \in 1..13 : header[n] = <<ColumnList[n]>>
        BY <1>1
    <2> HIDE DEF header
    <2>2. \A n \in 1..13 : ReadHeader(header)[ColumnList[n]] = n
        BY <2>1, HeaderIsRead
    <2> QED BY <2>2 DEF header
<1>3. k + 1 \in 2..Len(G)
    <2>1. Len(who) \in Nat
        OBVIOUS
    <2> QED BY <1>1, <2>1
<1> HIDE DEF at
<1>4. f = [c \in Columns |-> Field(G[k + 1], at[c])]
    BY <1>3 DEF Fields
<1> HIDE DEF f
<1>5. \A c \in Columns : f[c] = Guarded(PersonCells(EmployeeRow(tables, i, day))[c])
    <2> SUFFICES ASSUME NEW c \in Columns
                 PROVE  f[c] = Guarded(PersonCells(EmployeeRow(tables, i, day))[c])
        OBVIOUS
    <2>1. PICK n \in 1..13 : ColumnList[n] = c
        BY ColumnsArePlaces
    <2>2. f[c] = Field(G[k + 1], n)
        BY <1>2, <1>4, <2>1
    <2>3. Field(G[k + 1], n) = G[k + 1][n]
        BY <1>a DEF Field
    <2> QED BY <1>a, <2>1, <2>2, <2>3
<1>6. PersonOK(tables, i, day)
    BY PeopleAreOK
<1> HIDE DEF i
<1>7. ReadAs(f, tables, i, day)
    BY <1>5, <1>6, PersonIsReadAs
<1> QED BY <1>7 DEF f, at, i

\* The file that was written has nothing wrong and says the same.
LEMMA ExportIsParsed ==
    ASSUME NEW tables, IsCompany(tables), NEW who \in Seq(DOMAIN tables.employees), NEW day,
           Distinct(who), NamesFit(tables, who),
           NEW G, G = ParseCsv(TextOf(ExportSheet(tables, who, day)))
    PROVE  /\ SaysWho(ParseEmployeeCsv(G), tables, who, day)
           /\ IsReading(ParseEmployeeCsv(G), Len(who) + 1, CheckNames)
<1> DEFINE L == Len(who) + 1
           fields == Fields(G, ReadHeader(G[1]))
           columns == [line \in DOMAIN fields |-> ProblemColumns(fields[line])]
           found == WithoutRepeats(fields, columns)
           parsed == Reading(fields, found)
<1>1. L \in Nat \ {0} /\ L - 1 = Len(who) /\ DOMAIN who = 1..Len(who)
      /\ \A line \in 2..L : line - 1 \in 1..Len(who) /\ (line - 1) + 1 = line
      /\ \A k \in 1..Len(who) : who[k] \in DOMAIN tables.employees /\ k + 1 \in 2..L
    OBVIOUS
<1>2. /\ G \in Seq(Range(G)) /\ Len(G) = L /\ G # <<>>
      /\ DOMAIN G[1] = 1..13 /\ \A n \in 1..13 : G[1][n] = <<ColumnList[n]>>
    BY ExportIsRead
<1>3. MissingColumns(G[1]) = {}
    BY <1>2, HeaderIsRead
<1>4. ParseEmployeeCsv(G) = parsed
    BY <1>2, <1>3 DEF ParseEmployeeCsv
<1>5. DOMAIN fields = 2..L
    BY <1>2 DEF Fields
<1>6. \A k \in 1..Len(who) : PersonOK(tables, who[k], day) /\ ReadAs(fields[k + 1], tables, who[k], day)
    BY <1>1, PeopleAreOK, LineIsPerson
<1> HIDE DEF fields
<1>7. \A line \in 2..L : columns[line] = <<>>
    <2> SUFFICES ASSUME NEW line \in 2..L PROVE columns[line] = <<>>
        OBVIOUS
    <2> DEFINE k == line - 1
               f == fields[line]
               i == who[k]
    <2>1. columns[line] = ProblemColumns(f)
        BY <1>5
    <2>2. k \in 1..Len(who) /\ k + 1 = line
        BY <1>1
    <2> HIDE DEF k
    <2>3. PersonOK(tables, i, day) /\ ReadAs(f, tables, i, day)
        BY <1>6, <2>2
    <2>4. /\ Len(Guarded(NameText[tables.employees[i].name])) <= MaxNameLength
          /\ Len(Address(i)) <= MaxEmailLength
        BY <1>1, <2>2 DEF NamesFit
    <2> HIDE DEF f, i, columns
    <2>5. ProblemColumns(f) = <<>>
        BY <2>3, <2>4, NothingIsWrong, NoColumnIsWrong
    <2> QED BY <2>1, <2>5
<1> HIDE DEF columns
<1>8. \A j, k \in 2..L : Lower(fields[j]["email"]) = Lower(fields[k]["email"]) => j = k
    <2> SUFFICES ASSUME NEW j \in 2..L, NEW k \in 2..L,
                        Lower(fields[j]["email"]) = Lower(fields[k]["email"])
                 PROVE  j = k
        OBVIOUS
    <2> DEFINE m == j - 1
               n == k - 1
    <2>1. m \in 1..Len(who) /\ n \in 1..Len(who) /\ m + 1 = j /\ n + 1 = k
        BY <1>1
    <2> HIDE DEF m, n
    <2>2. Lower(fields[j]["email"]) = Address(who[m]) /\ Lower(fields[k]["email"]) = Address(who[n])
        BY <1>6, <2>1 DEF ReadAs
    <2>3. Address(who[m]) = Address(who[n]) /\ who[m] \in People /\ who[n] \in People
        BY <1>6, <2>1, <2>2 DEF PersonOK
    <2>4. who[m] = who[n]
        BY <2>3, SpellingConstants DEF Address
    <2>5. m = n
        BY <2>1, <2>4 DEF Distinct
    <2> QED BY <2>1, <2>5
<1>9. \A line \in 2..L : found[line] = <<>>
    <2>1. L \in Nat
        BY <1>1
    <2> HIDE DEF L
    <2>2. \A line \in 2..L : WithoutRepeats(fields, columns)[line] = <<>>
        BY <2>1, <1>5, <1>7, <1>8, NothingRepeats
    <2> QED BY <2>2
<1> HIDE DEF found
<1>10. /\ parsed.problems = <<>> /\ Len(parsed.rows) = L - 1
       /\ \A k \in 1..(L - 1) : parsed.rows[k] = Draft(k + 1, fields[k + 1])
    <2> HIDE DEF L
    <2> QED BY <1>1, <1>5, <1>9, CleanReading
<1> HIDE DEF parsed
<1>11. \A k \in 1..Len(who) : parsed.rows[k] = PersonDraft(tables, k + 1, who[k], day)
    <2> SUFFICES ASSUME NEW k \in 1..Len(who)
                 PROVE  parsed.rows[k] = PersonDraft(tables, k + 1, who[k], day)
        OBVIOUS
    <2>1. parsed.rows[k] = Draft(k + 1, fields[k + 1])
        BY <1>1, <1>10
    <2> QED BY <1>6, <2>1, DraftIsPerson
<1>12. SaysWho(parsed, tables, who, day)
    BY <1>1, <1>10, <1>11 DEF SaysWho
<1>13. IsReading(ParseEmployeeCsv(G), Len(G), CheckNames)
    BY <1>2, <1>3, ParsedIsReading
<1> QED BY <1>2, <1>4, <1>12, <1>13

\* What a draft says of who it is and whose report.
LEMMA PersonDraftFields ==
    ASSUME NEW tables, NEW line, NEW i, NEW day
    PROVE  /\ PersonDraft(tables, line, i, day).row = line
           /\ PersonDraft(tables, line, i, day).email = Address(i)
           /\ PersonDraft(tables, line, i, day).manager =
                 IF tables.employees[i].manager = Null THEN <<>> ELSE Address(tables.employees[i].manager)
BY DEF PersonDraft

\* When everybody is in the file everybody finds a place, because nobody's managers go round.
LEMMA EverybodyIsPlaced ==
    ASSUME NEW tables, IsCompany(tables), NEW who \in Seq(DOMAIN tables.employees), NEW day,
           Distinct(who), Range(who) = DOMAIN tables.employees,
           NEW parsed, SaysWho(parsed, tables, who, day), IsReading(parsed, Len(who) + 1, CheckNames),
           NEW checked, IsChecked(checked, parsed, {}, Len(who) + 1, CheckNames)
    PROVE  checked.problems = <<>> /\ ValidRows(checked) = Cardinality(DOMAIN tables.employees)
<1> DEFINE N == Len(who)
           L == N + 1
           Ids0 == DOMAIN tables.employees
           rows == AllOf(checked.layers)
           wrong == RowsOf(Range(checked.problems))
           S == {i \in Ids0 : \E k \in 1..N : who[k] = i /\ parsed.rows[k] \notin rows}
           X == [row : 2..L, column : CheckNames]
<1>1. N \in Nat /\ Ids0 = {who[k] : k \in 1..N} /\ L - 1 = N
    BY DEF Range
<1>2. /\ \A k \in 1..N : parsed.rows[k] = PersonDraft(tables, k + 1, who[k], day)
      /\ parsed.rows \in Seq(Range(parsed.rows)) /\ Len(parsed.rows) = N
    BY DEF SaysWho, IsReading
<1>3. \A k \in 1..N :
         /\ parsed.rows[k].row = k + 1 /\ parsed.rows[k].email = Address(who[k])
         /\ parsed.rows[k].manager = IF tables.employees[who[k]].manager = Null THEN <<>>
                                     ELSE Address(tables.employees[who[k]].manager)
    BY <1>2, PersonDraftFields
<1>4. \A k \in 1..N : parsed.rows[k] \in Range(parsed.rows)
    <2> DEFINE t == parsed.rows
    <2>1. DOMAIN t = 1..N
        BY <1>2
    <2> QED BY <2>1 DEF Range
<1>5. /\ checked.problems \in Seq(X)
      /\ RowsOf(rows) \cap wrong = {} /\ RowsOf(rows) \cup wrong = 2..L
      /\ ValidRows(checked) \in Nat /\ ValidRows(checked) + Cardinality(wrong) = L - 1
      /\ \A x \in Range(parsed.rows) \ rows :
            x.email \in {} \/ x.manager \notin MayManage(rows, {})
    BY DEF IsChecked
<1> HIDE DEF N, L, Ids0, rows, wrong, X
<1>6. S = {}
    <2> SUFFICES ASSUME S # {} PROVE FALSE
        OBVIOUS
    <2>1. S \in (SUBSET Ids0) \ {{}}
        <3>1. S \in SUBSET Ids0
            OBVIOUS
        <3> HIDE DEF S
        <3> QED BY <3>1
    <2>2. PICK i \in S : tables.employees[i].manager \notin S
        <3> HIDE DEF S
        <3> QED BY <2>1 DEF IsCompany, NoCircle, Ids0
    <2>3. i \in Ids0
        OBVIOUS
    <2>4. PICK k \in 1..N : who[k] = i /\ parsed.rows[k] \notin rows
        OBVIOUS
    <2> DEFINE x == parsed.rows[k]
               m == tables.employees[i].manager
    <2>5. x \in Range(parsed.rows) \ rows
        BY <1>4, <2>4
    <2>6. x.manager \notin MayManage(rows, {})
        BY <1>5, <2>5
    <2>7. x.manager = IF m = Null THEN <<>> ELSE Address(m)
        BY <1>3, <2>4
    <2>8. m \in Ids0 \cup {Null}
        BY <2>3 DEF IsCompany, Ids0
    <2>9. m \notin S
        BY <2>2
    <2> HIDE DEF x
    <2>10. CASE m = Null
        BY <2>6, <2>7, <2>10 DEF MayManage
    <2>11. CASE m # Null
        <3>1. m \in Ids0
            BY <2>8, <2>11
        <3>2. PICK j \in 1..N : who[j] = m
            BY <1>1, <3>1
        <3>3. parsed.rows[j] \in rows
            BY <2>9, <3>1, <3>2
        <3>4. parsed.rows[j].email = Address(m)
            BY <1>3, <3>2
        <3>5. Address(m) \in AddressesOf(rows)
            BY <3>3, <3>4 DEF AddressesOf
        <3> QED BY <2>6, <2>7, <2>11, <3>5 DEF MayManage
    <2> QED BY <2>10, <2>11
<1>7. \A k \in 1..N : parsed.rows[k] \in rows
    <2> SUFFICES ASSUME NEW k \in 1..N, parsed.rows[k] \notin rows PROVE FALSE
        OBVIOUS
    <2>1. who[k] \in Ids0
        BY <1>1
    <2>2. who[k] \in S
        BY <2>1
    <2> QED BY <1>6, <2>2
<1> HIDE DEF S
<1>8. \A n \in 2..L : n \in RowsOf(rows)
    <2> SUFFICES ASSUME NEW n \in 2..L PROVE n \in RowsOf(rows)
        OBVIOUS
    <2> DEFINE k == n - 1
    <2>1. k \in 1..N /\ k + 1 = n
        BY <1>1 DEF L
    <2> HIDE DEF k
    <2>2. parsed.rows[k] \in rows /\ parsed.rows[k].row = n
        BY <1>3, <1>7, <2>1
    <2> QED BY <2>2 DEF RowsOf
<1>9. wrong = {}
    BY <1>5, <1>8
<1>10. checked.problems = <<>>
    <2>1. Range(checked.problems) = {}
        BY <1>9 DEF wrong, RowsOf
    <2> QED BY <1>5, <2>1, SomethingIsThere
<1>11. ValidRows(checked) = N
    <2>1. Cardinality(wrong) = 0
        BY <1>9, FS_EmptySet
    <2> QED BY <1>1, <1>5, <2>1
<1>12. Cardinality(Ids0) = N
    BY DistinctAreCounted DEF Ids0, N
<1> QED BY <1>10, <1>11, <1>12 DEF Ids0

\* What a client has is the text of the sheet.
LEMMA TextIsOfSheet ==
    ASSUME IInv, ExportCurrent, Exported, req.since = writes
    PROVE  ExportedText = TextOf(ExportSheet(db, Written, req.q.asOf))
<1> DEFINE N == Len(Written) + 1
           day == req.q.asOf
           sheet == ExportSheet(db, Written, day)
           written(line) == IF line = Header THEN HeaderLine ELSE ToCsvLine(ToCsvRecord(line))
<1>1. /\ Len(Written) \in Nat /\ Written \in Seq(Ids)
      /\ Len(req.file) = N /\ req.file \in Seq(Line) /\ req.file[1] = Header
      /\ \A k \in 1..Len(Written) : req.file[k + 1] = EmployeeRow(db, Written[k], day)
    BY FileIsCurrent
<1>2. N \in Nat \ {0} /\ \A k \in 1..N : k = 1 \/ (k - 1 \in 1..Len(Written) /\ (k - 1) + 1 = k)
    BY <1>1
<1>3. DOMAIN req.file = 1..N
    BY <1>1
<1>4. /\ DOMAIN sheet = 1..N
      /\ \A k \in 1..N : sheet[k] = IF k = 1 THEN ColumnRow
                                    ELSE ToCsvRecord(EmployeeRow(db, Written[k - 1], day))
    BY DEF ExportSheet
<1>5. \A i \in Ids : EmployeeRow(db, i, day) # Header
    <2> SUFFICES ASSUME NEW i \in Ids PROVE EmployeeRow(db, i, day) # Header
        OBVIOUS
    <2>1. EmployeeRow(db, i, day).id = i
        BY DEF EmployeeRow
    <2>2. i \in People
        BY PeopleAreOK DEF IInv, Ids, PersonOK
    <2>3. Null \notin People
        BY PayrollConstants DEF Null
    <2>4. Header.id = Null
        BY DEF Header
    <2> QED BY <2>1, <2>2, <2>3, <2>4
<1> HIDE DEF sheet, N
<1>6. ASSUME NEW k \in 1..N PROVE written(req.file[k]) = ToCsvLine(sheet[k])
    <2>1. CASE k = 1
        <3>1. written(req.file[k]) = HeaderLine
            BY <1>1, <2>1
        <3>2. sheet[k] = ColumnRow
            BY <1>4, <2>1
        <3>3. HeaderLine = ToCsvLine(ColumnRow)
            BY DEF HeaderLine, ColumnRow
        <3> HIDE DEF written
        <3> QED BY <3>1, <3>2, <3>3
    <2>2. CASE k # 1
        <3> DEFINE n == k - 1
        <3>1. n \in 1..Len(Written) /\ n + 1 = k
            BY <1>2, <2>2
        <3>2. sheet[k] = ToCsvRecord(EmployeeRow(db, Written[n], day))
            BY <1>4, <2>2
        <3> HIDE DEF n
        <3>3. req.file[k] = EmployeeRow(db, Written[n], day)
            BY <1>1, <3>1
        <3>4. Written[n] \in Ids
            BY <1>1, <3>1
        <3>5. req.file[k] # Header
            BY <1>5, <3>3, <3>4
        <3>6. written(req.file[k]) = ToCsvLine(ToCsvRecord(req.file[k]))
            BY <3>5
        <3> HIDE DEF written
        <3> QED BY <3>2, <3>3, <3>6
    <2> QED BY <2>1, <2>2
<1>7. ExportedText = FlattenSeq([k \in DOMAIN req.file |-> written(req.file[k])])
    BY DEF ExportedText
<1>8. TextOf(sheet) = FlattenSeq([k \in DOMAIN sheet |-> ToCsvLine(sheet[k])])
    BY DEF TextOf
<1> HIDE DEF written
<1>9. [k \in DOMAIN req.file |-> written(req.file[k])] = [k \in DOMAIN sheet |-> ToCsvLine(sheet[k])]
    BY <1>3, <1>4, <1>6
<1> QED BY <1>7, <1>8, <1>9 DEF sheet

\* An upload by HR, into tables without a person, is checked.
LEMMA UploadByHR ==
    ASSUME NEW tables, tables.employees = <<>>, NEW text,
           NEW n \in Nat, Len(ParseCsv(text)) = n + 1, n <= MaxImportRows
    PROVE  CheckFile(tables, [role |-> "HR_ADMIN", employee |-> Null], text)
               = Checked(ParseCsv(text), ParseEmployeeCsv(ParseCsv(text)), {})
<1> DEFINE hr == [role |-> "HR_ADMIN", employee |-> Null]
           table == ParseCsv(text)
<1>1. AccessScopeFor(hr) = [kind |-> "ALL"]
    <2>1. hr.role = "HR_ADMIN"
        OBVIOUS
    <2> HIDE DEF hr
    <2>2. hr.role \in {"HR_ADMIN", "HR_VIEWER"} /\ hr.role # "MANAGER" /\ hr.role # "EMPLOYEE"
        BY <2>1
    <2> QED BY <2>2 DEF AccessScopeFor
<1>2. AccessScopeFor(hr).kind = "ALL"
    BY <1>1
<1>3. ~(Len(table) - 1 > MaxImportRows)
    BY EmployeeCsvConstants
<1>4. TakenAddresses(tables) = {}
    BY DEF TakenAddresses
<1>5. CheckFile(tables, hr, text) =
          IF AccessScopeFor(hr).kind # "ALL" THEN Forbidden
          ELSE IF Len(table) - 1 > MaxImportRows THEN Failed
          ELSE Checked(table, ParseEmployeeCsv(table), TakenAddresses(tables))
    BY DEF CheckFile
<1> HIDE DEF hr, table
<1>6. CheckFile(tables, hr, text) = Checked(table, ParseEmployeeCsv(table), {})
    BY <1>2, <1>3, <1>4, <1>5
<1> QED BY <1>6 DEF hr, table

\* With what is known of every export, the file comes back.
LEMMA FileGoesBack ==
    ASSUME IInv, ExportCurrent
    PROVE  FileComesBack
<1> SUFFICES ASSUME Exported, req.since = writes, Importable
    PROVE  LET hr         == [role |-> "HR_ADMIN", employee |-> Null]
               e(k)       == db.employees[Written[k]]
               address(i) == Lower(Guarded(EmailText[i]))
               pay(k)     == PayOn(db, Written[k], req.q.asOf)
               empty      == [db EXCEPT !.employees = <<>>]
           IN  \E checked \in {CheckFile(empty, hr, ExportedText)} :
               \E parsed \in {ParseEmployeeCsv(checked.table)} :
               /\ parsed.problems = <<>>
               /\ Len(parsed.rows) = Len(Written)
               /\ \A k \in DOMAIN Written :
                   /\ parsed.rows[k] =
                         [row |-> k + 1, name |-> Guarded(NameText[e(k).name]),
                          email |-> address(Written[k]), country |-> e(k).country,
                          department |-> e(k).department, level |-> e(k).level,
                          hired |-> e(k).hired, status |-> e(k).status, left |-> e(k).left,
                          manager |-> IF e(k).manager = Null THEN <<>> ELSE address(e(k).manager),
                          pay |-> IF pay(k) = NoPay THEN NoPay
                                  ELSE [amount |-> pay(k).amount, currency |-> pay(k).currency,
                                        from |-> pay(k).from]]
               /\ Range(Written) = Ids => checked.problems = <<>> /\ ValidRows(checked) = Cardinality(Ids)
    BY DEF FileComesBack
<1> DEFINE who == Written
           day == req.q.asOf
           G == ParseCsv(ExportedText)
           parsed == ParseEmployeeCsv(G)
           empty == [db EXCEPT !.employees = <<>>]
           hr == [role |-> "HR_ADMIN", employee |-> Null]
           checked == CheckFile(empty, hr, ExportedText)
           L == Len(who) + 1
<1>1. IsCompany(db) /\ empty.employees = <<>>
    <2>1. IsCompany(db)
        BY DEF IInv
    <2>2. db = [employees |-> db.employees, records |-> db.records, bands |-> db.bands]
        BY <2>1 DEF IsCompany
    <2> QED BY <2>1, <2>2
<1>2. Len(who) \in Nat /\ who \in Seq(DOMAIN db.employees) /\ Distinct(who) /\ DOMAIN who = 1..Len(who)
    <2>1. Len(who) \in Nat /\ who \in Seq(DOMAIN db.employees) /\ Distinct(who)
        BY FileIsCurrent DEF Ids
    <2> HIDE DEF who
    <2> QED BY <2>1
<1>3. NamesFit(db, who) /\ Len(who) <= MaxImportRows
    BY DEF Importable, NamesFit, Address
<1>4. G = ParseCsv(TextOf(ExportSheet(db, who, day)))
    BY TextIsOfSheet
<1> HIDE DEF who, G, day
<1>5. SaysWho(parsed, db, who, day) /\ IsReading(parsed, L, CheckNames)
    BY <1>1, <1>2, <1>3, <1>4, ExportIsParsed
<1>6. Len(G) = L
    BY <1>1, <1>2, <1>4, ExportIsRead
<1> HIDE DEF empty
<1>7. checked = Checked(G, parsed, {})
    BY <1>1, <1>2, <1>3, <1>6, UploadByHR DEF G
<1>8. IsChecked(checked, parsed, {}, L, CheckNames) /\ checked.table = G
    <2>1. L \in Nat \ {0}
        BY <1>2
    <2>2. "email" \in CheckNames /\ "managerEmail" \in CheckNames
        BY DEF CheckNames
    <2> HIDE DEF L, parsed, checked
    <2> QED BY <1>5, <1>7, <2>1, <2>2, CheckIsWhole
<1> HIDE DEF checked
<1>9. ParseEmployeeCsv(checked.table) = parsed
    BY <1>8
<1> HIDE DEF parsed
<1>10. Range(who) = Ids => checked.problems = <<>> /\ ValidRows(checked) = Cardinality(Ids)
    <2> SUFFICES ASSUME Range(who) = Ids
                 PROVE  checked.problems = <<>> /\ ValidRows(checked) = Cardinality(Ids)
        OBVIOUS
    <2> QED BY <1>1, <1>2, <1>5, <1>8, EverybodyIsPlaced DEF Ids
<1>11. /\ parsed.problems = <<>> /\ Len(parsed.rows) = Len(who)
       /\ \A k \in DOMAIN who : parsed.rows[k] = PersonDraft(db, k + 1, who[k], day)
    BY <1>2, <1>5 DEF SaysWho
<1> QED BY <1>9, <1>10, <1>11 DEF PersonDraft, Address, who, day, checked, hr, empty

\* Of an export that nobody disturbed every line comes back through the import, with nothing
\* to complain about, as the same person at the same pay; and a file of everybody is placed
\* whole, because a manager is always placed before their reports
\* (src/domain/csv.ts, src/domain/employeeCsv.ts: a round trip is a real property).
THEOREM FilesComeBack == Spec => []FileComesBack
<1>1. Init => ExportCurrent
    BY DEF Init, ExportCurrent, NoRequest
<1>2. IInv /\ ExportCurrent /\ [Next]_vars => ExportCurrent'
    BY StaysCurrent
<1>3. IInv /\ ExportCurrent => FileComesBack
    BY FileGoesBack
<1>4. Spec => []IInv
    BY Invariantly
<1> QED BY <1>1, <1>2, <1>3, <1>4, PTL DEF Spec
=============================================================================
