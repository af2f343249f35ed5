---------------------------- MODULE FilesProofs ----------------------------
(***************************************************************************)
(* Theorems about the files of employees, for every text.                  *)
(*                                                                         *)
(* What the writer of CsvText writes of a table, its reader reads back     *)
(* cell for cell.  And whatever text is uploaded, EmployeeCsv places every *)
(* row of it after its manager or complains about it, and the report on it *)
(* reads back as the file it is about.                                     *)
(***************************************************************************)
EXTENDS ScreensProofs

-----------------------------------------------------------------------------
(* Text *)

\* The characters that mean something are different ones.
LEMMA MarksDiffer ==
    /\ Quote # Comma /\ Quote # CR /\ Quote # LF /\ Quote # BOM
    /\ Comma # CR /\ Comma # LF /\ Comma # BOM
    /\ CR # LF /\ CR # BOM /\ LF # BOM
    /\ {Quote, Comma} \cap Whitespace = {} /\ {CR, LF, BOM} \subseteq Whitespace
BY DEF Quote, Comma, CR, LF, BOM, Whitespace, Tab, Space

\* f goes from s to t through text, which "next" comes after.
Runs(f, s, text, t, next) ==
    /\ f = [n \in 0..Len(text) |-> f[n]]
    /\ f[0] = s /\ f[Len(text)] = t
    /\ \A n \in 1..Len(text) :
          f[n] = ReadNext(f[n - 1], text[n], IF n = Len(text) THEN next ELSE text[n + 1])

\* Reading text leads from s to t, whichever of "nexts" comes after it.
Leads(s, text, t, nexts) == \A next \in nexts : \E f : Runs(f, s, text, t, next)

\* No text leads from a state to itself.
LEMMA NothingLeadsNowhere ==
    ASSUME NEW s, NEW nexts
    PROVE  Leads(s, <<>>, s, nexts)
<1> DEFINE f == [n \in 0..0 |-> s]
<1>1. \A next : Runs(f, s, <<>>, s, next)
    BY DEF Runs
<1> QED BY <1>1 DEF Leads

\* One character leads where the reader goes with it.
LEMMA OneCharacterLeads ==
    ASSUME NEW s, NEW c, NEW t, NEW nexts, \A next \in nexts : ReadNext(s, c, next) = t
    PROVE  Leads(s, <<c>>, t, nexts)
<1> DEFINE f == [n \in 0..1 |-> IF n = 0 THEN s ELSE t]
<1>1. ASSUME NEW next \in nexts PROVE Runs(f, s, <<c>>, t, next)
    <2>1. Len(<<c>>) = 1 /\ <<c>>[1] = c
        OBVIOUS
    <2>2. f = [n \in 0..1 |-> f[n]] /\ f[0] = s /\ f[1] = t
        OBVIOUS
    <2> HIDE DEF f
    <2>3. \A n \in 1..1 : f[n] = ReadNext(f[n - 1], <<c>>[n], IF n = 1 THEN next ELSE <<c>>[n + 1])
        BY <1>1, <2>1, <2>2
    <2> QED BY <2>1, <2>2, <2>3 DEF Runs
<1> QED BY <1>1 DEF Leads

\* One text and then another.
LEMMA TextsLeadOn ==
    ASSUME NEW X, NEW a \in Seq(X), NEW b \in Seq(X), NEW s, NEW t, NEW u, NEW M, NEW N,
           Leads(s, a, t, N), Leads(t, b, u, M),
           IF b = <<>> THEN M \subseteq N ELSE b[1] \in N
    PROVE  Leads(s, a \o b, u, M)
<1> DEFINE c == a \o b
           la == Len(a)
           lb == Len(b)
<1>1. la \in Nat /\ lb \in Nat /\ Len(c) = la + lb
    OBVIOUS
<1>2. /\ \A n \in 1..la : c[n] = a[n]
      /\ \A n \in (la + 1)..(la + lb) : c[n] = b[n - la]
    OBVIOUS
<1> HIDE DEF c
<1>3. ASSUME NEW next \in M PROVE \E f : Runs(f, s, c, u, next)
    <2> DEFINE between == IF b = <<>> THEN next ELSE b[1]
    <2>1. between \in N
        BY <1>3
    <2>2. lb = 0 <=> b = <<>>
        OBVIOUS
    <2> HIDE DEF between
    <2>3. PICK g : Runs(g, s, a, t, between)
        BY <2>1 DEF Leads
    <2>4. PICK h : Runs(h, t, b, u, next)
        BY <1>3 DEF Leads
    <2>5. /\ g[0] = s /\ g[la] = t
          /\ \A n \in 1..la : g[n] = ReadNext(g[n - 1], a[n], IF n = la THEN between ELSE a[n + 1])
        BY <2>3 DEF Runs
    <2>6. /\ h[0] = t /\ h[lb] = u
          /\ \A n \in 1..lb : h[n] = ReadNext(h[n - 1], b[n], IF n = lb THEN next ELSE b[n + 1])
        BY <2>4 DEF Runs
    <2> HIDE DEF la, lb
    <2> DEFINE f == [n \in 0..Len(c) |-> IF n <= la THEN g[n] ELSE h[n - la]]
    <2>7. f = [n \in 0..Len(c) |-> f[n]]
        OBVIOUS
    <2>8. /\ \A n \in 0..la : f[n] = g[n]
          /\ \A n \in la..(la + lb) : f[n] = h[n - la]
        <3>1. \A n \in 0..la : f[n] = g[n]
            BY <1>1
        <3>2. ASSUME NEW n \in la..(la + lb) PROVE f[n] = h[n - la]
            <4>1. CASE n = la
                BY <1>1, <2>5, <2>6, <4>1
            <4>2. CASE n # la
                BY <1>1, <4>2
            <4> QED BY <4>1, <4>2
        <3> QED BY <3>1, <3>2
    <2> HIDE DEF f
    <2>9. f[0] = s /\ f[Len(c)] = u
        <3>1. 0 \in 0..la /\ la + lb \in la..(la + lb) /\ (la + lb) - la = lb
            BY <1>1
        <3> QED BY <1>1, <2>5, <2>6, <2>8, <3>1
    <2>10. ASSUME NEW n \in 1..Len(c)
           PROVE  f[n] = ReadNext(f[n - 1], c[n], IF n = Len(c) THEN next ELSE c[n + 1])
        <3>1. CASE n < la
            <4>1. /\ n \in 1..la /\ n - 1 \in 0..la /\ n \in 0..la /\ n + 1 \in 1..la
                  /\ n # Len(c) /\ n # la
                BY <1>1, <3>1
            <4> QED BY <1>2, <2>5, <2>8, <4>1
        <3>2. CASE n = la
            <4>1. n \in 1..la /\ n - 1 \in 0..la /\ n \in 0..la
                BY <1>1, <3>2
            <4>2. between = IF n = Len(c) THEN next ELSE c[n + 1]
                <5>1. CASE lb = 0
                    BY <1>1, <2>2, <3>2, <5>1 DEF between
                <5>2. CASE lb # 0
                    <6>1. n # Len(c) /\ n + 1 \in (la + 1)..(la + lb) /\ (n + 1) - la = 1
                        BY <1>1, <3>2, <5>2
                    <6> QED BY <1>2, <2>2, <5>2, <6>1 DEF between
                <5> QED BY <5>1, <5>2
            <4>3. g[n] = ReadNext(g[n - 1], a[n], between)
                BY <2>5, <3>2, <4>1
            <4> QED BY <1>2, <2>8, <4>1, <4>2, <4>3
        <3>3. CASE n > la
            <4>1. /\ n \in la..(la + lb) /\ n - 1 \in la..(la + lb) /\ n \in (la + 1)..(la + lb)
                  /\ n - la \in 1..lb /\ (n - 1) - la = (n - la) - 1
                  /\ n = Len(c) <=> n - la = lb
                  /\ n # Len(c) => n + 1 \in (la + 1)..(la + lb) /\ (n + 1) - la = (n - la) + 1
                BY <1>1, <3>3
            <4> QED BY <1>2, <2>6, <2>8, <4>1
        <3> QED BY <1>1, <3>1, <3>2, <3>3
    <2> QED BY <2>7, <2>9, <2>10 DEF Runs
<1> QED BY <1>3 DEF Leads, c

\* upto[n] is the first n of "pieces", one after the other.
Joins(upto, pieces) ==
    /\ upto[0] = <<>>
    /\ \A n \in 1..Len(pieces) : upto[n] = upto[n - 1] \o pieces[n]

\* Pieces of text have beginnings that each add one piece.
LEMMA PiecesJoin ==
    ASSUME NEW X, NEW pieces \in Seq(Seq(X))
    PROVE  \E upto \in [0..Len(pieces) -> Seq(X)] : Joins(upto, pieces)
<1> DEFINE N == Len(pieces)
           A == (0..N) \X Seq(X)
           At(n) == IF n + 1 \in 1..N THEN n + 1 ELSE N
           More(n) == IF n + 1 \in 1..N THEN pieces[n + 1] ELSE <<>>
           F == [s \in A |-> <<At(s[1]), s[2] \o More(s[1])>>]
<1>1. N \in Nat /\ \A n \in 1..N : pieces[n] \in Seq(X)
    OBVIOUS
<1> HIDE DEF N
<1>2. F \in [A -> A]
    <2>1. ASSUME NEW s \in A PROVE <<At(s[1]), s[2] \o More(s[1])>> \in A
        <3>1. s[1] \in 0..N /\ s[2] \in Seq(X) /\ More(s[1]) \in Seq(X)
            BY <1>1
        <3>2. At(s[1]) \in 0..N
            BY <1>1, <3>1
        <3>3. s[2] \o More(s[1]) \in Seq(X)
            BY <3>1
        <3> QED BY <3>2, <3>3
    <2> QED BY <2>1
<1>3. <<0, <<>>>> \in A
    <2>1. 0 \in 0..N /\ <<>> \in Seq(X)
        BY <1>1
    <2> QED BY <2>1
<1>4. PICK f : Rounds(f, N, A, <<0, <<>>>>, F)
    <2> HIDE DEF A, F
    <2> QED BY <1>1, <1>2, <1>3, RoundsExist
<1>5. f \in [0..N -> A] /\ f[0] = <<0, <<>>>> /\ \A n \in 1..N : f[n] = F[f[n - 1]]
    BY <1>4 DEF Rounds
<1>6. \A n \in 0..N : f[n] \in A /\ f[n] = <<f[n][1], f[n][2]>> /\ f[n][2] \in Seq(X)
    BY <1>5
<1>7. \A n \in 1..N : f[n] = <<At(f[n - 1][1]), f[n - 1][2] \o More(f[n - 1][1])>>
    <2> TAKE n \in 1..N
    <2>1. f[n - 1] \in A
        BY <1>1, <1>6
    <2> QED BY <1>5, <2>1
<1>8. \A n \in 0..N : f[n][1] = n
    <2> DEFINE bad == {n \in 0..N : f[n][1] # n}
    <2>1. SUFFICES ASSUME bad # {} PROVE FALSE
        OBVIOUS
    <2>2. PICK n \in bad : \A k \in bad : n <= k
        <3>1. bad \in SUBSET Nat
            BY <1>1
        <3> HIDE DEF bad
        <3> QED BY <2>1, <3>1, LeastExists
    <2>3. n \in 1..N /\ f[n][1] # n
        BY <1>1, <1>5
    <2>4. n - 1 \in 0..N /\ ~ n <= n - 1 /\ (n - 1) + 1 = n
        BY <1>1, <2>3
    <2>5. f[n - 1][1] = n - 1
        BY <2>2, <2>4
    <2> HIDE DEF At, More
    <2>6. f[n][1] = At(n - 1)
        <3>1. f[n] = <<At(f[n - 1][1]), f[n - 1][2] \o More(f[n - 1][1])>>
            BY <1>7, <2>3
        <3> QED BY <2>5, <3>1
    <2> QED BY <2>3, <2>4, <2>6 DEF At
<1> DEFINE upto == [n \in 0..N |-> f[n][2]]
<1>9. upto \in [0..N -> Seq(X)] /\ upto[0] = <<>>
    BY <1>1, <1>5, <1>6
<1>10. \A n \in 1..N : upto[n] = upto[n - 1] \o pieces[n]
    <2> TAKE n \in 1..N
    <2>1. n - 1 \in 0..N /\ n \in 0..N /\ (n - 1) + 1 = n
        BY <1>1
    <2>2. More(f[n - 1][1]) = pieces[n]
        BY <1>8, <2>1
    <2> HIDE DEF At, More
    <2>3. f[n] = <<At(f[n - 1][1]), f[n - 1][2] \o More(f[n - 1][1])>>
        BY <1>7
    <2>4. f[n][2] = f[n - 1][2] \o pieces[n]
        <3> DEFINE a == At(f[n - 1][1])
                   b == f[n - 1][2] \o More(f[n - 1][1])
        <3>1. f[n] = <<a, b>>
            BY <2>3
        <3>2. b = f[n - 1][2] \o pieces[n]
            BY <2>2
        <3> HIDE DEF a, b
        <3>3. f[n][2] = b
            BY <3>1
        <3> QED BY <3>2, <3>3
    <2> QED BY <2>1, <2>4
<1> QED BY <1>9, <1>10 DEF Joins, N

\* Flattening is joining all of them.
LEMMA FlatteningJoins ==
    ASSUME NEW X, NEW pieces \in Seq(Seq(X))
    PROVE  \E upto \in [0..Len(pieces) -> Seq(X)] :
               Joins(upto, pieces) /\ FlattenSeq(pieces) = upto[Len(pieces)]
<1> DEFINE N == Len(pieces)
           Again(f) == [n \in 1..N |-> IF n = 1 THEN pieces[n] ELSE f[n - 1] \o pieces[n]]
           flatten == CHOOSE f : f = Again(f)
<1>1. N \in Nat /\ \A n \in 1..N : pieces[n] \in Seq(X)
    OBVIOUS
<1>2. FlattenSeq(pieces) = IF N = 0 THEN pieces ELSE flatten[N]
    BY DEF FlattenSeq
<1>3. PICK upto \in [0..N -> Seq(X)] : Joins(upto, pieces)
    BY PiecesJoin
<1>4. upto[0] = <<>> /\ \A n \in 1..N : upto[n] = upto[n - 1] \o pieces[n]
    BY <1>3 DEF Joins
<1>5. CASE N = 0
    <2>1. pieces = <<>>
        BY <1>5
    <2> QED BY <1>2, <1>3, <1>4, <1>5, <2>1
<1>6. CASE N # 0
    <2> HIDE DEF N
    <2> DEFINE f == [n \in 1..N |-> upto[n]]
    <2>1. f = Again(f)
        <3>1. ASSUME NEW n \in 1..N
              PROVE  f[n] = IF n = 1 THEN pieces[n] ELSE f[n - 1] \o pieces[n]
            <4>1. CASE n = 1
                <5>1. pieces[1] \in Seq(X) /\ <<>> \o pieces[1] = pieces[1]
                    BY <1>1, <4>1
                <5>2. upto[n - 1] = <<>>
                    <6>1. n - 1 = 0
                        BY <4>1
                    <6> QED BY <1>4, <6>1
                <5>3. upto[n] = upto[n - 1] \o pieces[n]
                    BY <1>4
                <5>4. upto[n] = pieces[n]
                    BY <4>1, <5>1, <5>2, <5>3
                <5> QED BY <4>1, <5>4
            <4>2. CASE n # 1
                <5>1. n - 1 \in 1..N
                    BY <1>1, <4>2
                <5> QED BY <1>4, <4>2, <5>1
            <4> QED BY <4>1, <4>2
        <3>2. f = [n \in 1..N |-> f[n]]
            OBVIOUS
        <3> HIDE DEF f
        <3> QED BY <3>1, <3>2
    <2>2. \A n \in 1..N : f[n] = upto[n]
        OBVIOUS
    <2> HIDE DEF f
    <2>3. flatten = Again(flatten)
        <3> HIDE DEF Again
        <3> QED BY <2>1
    <2> HIDE DEF flatten
    <2>4. \A n \in 1..N : flatten[n] = f[n]
        <3> DEFINE bad == {n \in 1..N : flatten[n] # f[n]}
        <3>1. SUFFICES ASSUME bad # {} PROVE FALSE
            OBVIOUS
        <3>2. PICK n \in bad : \A k \in bad : n <= k
            <4>1. bad \in SUBSET Nat
                BY <1>1
            <4> HIDE DEF bad
            <4> QED BY <3>1, <4>1, LeastExists
        <3>3. n \in 1..N /\ flatten[n] # f[n]
            OBVIOUS
        <3>4. /\ f[n] = IF n = 1 THEN pieces[n] ELSE f[n - 1] \o pieces[n]
              /\ flatten[n] = IF n = 1 THEN pieces[n] ELSE flatten[n - 1] \o pieces[n]
            BY <2>1, <2>3, <3>3
        <3>5. n # 1
            BY <3>3, <3>4
        <3>6. n - 1 \in 1..N /\ ~ n <= n - 1
            BY <1>1, <3>3, <3>5
        <3>7. flatten[n - 1] = f[n - 1]
            BY <3>2, <3>6
        <3> QED BY <3>3, <3>4, <3>5, <3>7
    <2>5. N \in 1..N
        BY <1>1, <1>6
    <2>6. FlattenSeq(pieces) = upto[N]
        BY <1>2, <1>6, <2>2, <2>4, <2>5
    <2> QED BY <1>3, <2>6 DEF N
<1> QED BY <1>5, <1>6

\* Each piece leads on to the next: all of them lead from the first state to the last.
LEMMA PiecesLeadOn ==
    ASSUME NEW X, NEW pieces \in Seq(Seq(X)), NEW st, NEW nexts,
           \A k \in 1..Len(pieces) : Leads(st[k - 1], pieces[k], st[k], nexts),
           \A k \in 2..Len(pieces) : pieces[k] # <<>> /\ pieces[k][1] \in nexts
    PROVE  /\ FlattenSeq(pieces) \in Seq(X)
           /\ Leads(st[0], FlattenSeq(pieces), st[Len(pieces)], nexts)
<1> DEFINE N == Len(pieces)
<1>1. PICK upto \in [0..N -> Seq(X)] : Joins(upto, pieces) /\ FlattenSeq(pieces) = upto[N]
    BY FlatteningJoins
<1>2. upto[0] = <<>> /\ \A n \in 1..N : upto[n] = upto[n - 1] \o pieces[n]
    BY <1>1 DEF Joins
<1>3. N \in Nat /\ \A n \in 1..N : pieces[n] \in Seq(X)
    OBVIOUS
<1> DEFINE Good(n) == Leads(st[0], upto[n], st[n], nexts)
           bad == {n \in 0..N : ~Good(n)}
<1>4. ASSUME bad # {} PROVE FALSE
    <2> HIDE DEF Good, N
    <2>1. PICK n \in bad : \A k \in bad : n <= k
        <3>1. bad \in SUBSET Nat
            BY <1>3
        <3> HIDE DEF bad
        <3> QED BY <1>4, <3>1, LeastExists
    <2>2. n \in 0..N /\ ~Good(n)
        OBVIOUS
    <2>3. n # 0
        <3>1. Good(0)
            BY <1>2, NothingLeadsNowhere DEF Good
        <3> QED BY <2>2, <3>1
    <2>4. n \in 1..N /\ n - 1 \in 0..N /\ ~ n <= n - 1
        BY <1>3, <2>2, <2>3
    <2>5. Good(n - 1)
        BY <2>1, <2>4
    <2>6. Leads(st[n - 1], pieces[n], st[n], nexts)
        BY <2>4 DEF N
    <2>7. CASE n = 1
        <3>1. upto[1] = pieces[1]
            <4>1. pieces[1] \in Seq(X) /\ <<>> \o pieces[1] = pieces[1]
                BY <1>3, <2>4, <2>7
            <4>2. upto[n - 1] = <<>>
                <5>1. n - 1 = 0
                    BY <2>7
                <5> QED BY <1>2, <5>1
            <4>3. upto[n] = upto[n - 1] \o pieces[n]
                BY <1>2, <2>4
            <4> QED BY <2>7, <4>1, <4>2, <4>3
        <3> QED BY <2>2, <2>6, <2>7, <3>1 DEF Good
    <2>8. CASE n # 1
        <3> DEFINE a == upto[n - 1]
                   b == pieces[n]
        <3>1. a \in Seq(X) /\ b \in Seq(X) /\ upto[n] = a \o b
            BY <1>2, <1>3, <2>4
        <3>2. b # <<>> /\ b[1] \in nexts
            <4>1. n \in 2..Len(pieces)
                BY <1>3, <2>4, <2>8 DEF N
            <4> QED BY <4>1
        <3>3. Leads(st[0], a, st[n - 1], nexts) /\ Leads(st[n - 1], b, st[n], nexts)
            BY <2>5, <2>6 DEF Good
        <3> HIDE DEF a, b
        <3>4. Leads(st[0], a \o b, st[n], nexts)
            BY <3>1, <3>2, <3>3, TextsLeadOn
        <3> QED BY <2>2, <3>1, <3>4 DEF Good
    <2> QED BY <2>7, <2>8
<1>5. Good(N) /\ upto[N] \in Seq(X)
    <2>1. N \in 0..N
        BY <1>3
    <2> HIDE DEF Good, N
    <2> QED BY <1>4, <2>1
<1> QED BY <1>1, <1>5

\* A row is beginning; a field is being read; it is inside quotes; it was, and they are closed.
Fresh(rows) ==
    [rows |-> rows, row |-> <<>>, field |-> <<>>, quoted |-> FALSE,
     fieldWasQuoted |-> FALSE, started |-> FALSE, skip |-> FALSE]

Going(rows, row, field) ==
    [rows |-> rows, row |-> row, field |-> field, quoted |-> FALSE,
     fieldWasQuoted |-> FALSE, started |-> TRUE, skip |-> FALSE]

Inside(rows, row, field) ==
    [rows |-> rows, row |-> row, field |-> field, quoted |-> TRUE,
     fieldWasQuoted |-> TRUE, started |-> TRUE, skip |-> FALSE]

Closed(rows, row, field) ==
    [rows |-> rows, row |-> row, field |-> field, quoted |-> FALSE,
     fieldWasQuoted |-> TRUE, started |-> TRUE, skip |-> FALSE]

\* s has read so far, and is outside quotes.
Outside(s, rows, row, field) ==
    s \in [rows : {rows}, row : {row}, field : {field}, quoted : {FALSE},
           fieldWasQuoted : BOOLEAN, started : BOOLEAN, skip : {FALSE}]

\* The three states between the characters of an unquoted field.
LEMMA OutsideStates ==
    ASSUME NEW rows, NEW row, NEW field
    PROVE  /\ Outside(Fresh(rows), rows, <<>>, <<>>) /\ ~Fresh(rows).fieldWasQuoted
           /\ Outside(Going(rows, row, field), rows, row, field) /\ ~Going(rows, row, field).fieldWasQuoted
           /\ Outside(Closed(rows, row, field), rows, row, field) /\ Closed(rows, row, field).fieldWasQuoted
<1>1. Outside(Fresh(rows), rows, <<>>, <<>>) /\ ~Fresh(rows).fieldWasQuoted
    BY DEF Outside, Fresh
<1>2. Outside(Going(rows, row, field), rows, row, field) /\ ~Going(rows, row, field).fieldWasQuoted
    BY DEF Outside, Going
<1>3. Outside(Closed(rows, row, field), rows, row, field) /\ Closed(rows, row, field).fieldWasQuoted
    BY DEF Outside, Closed
<1> QED BY <1>1, <1>2, <1>3

\* Out of quotes a character is read as an unquoted one.
LEMMA OutsideReadsPlain ==
    ASSUME NEW s, NEW rows, NEW row, NEW field, Outside(s, rows, row, field), NEW c, NEW next
    PROVE  /\ ReadNext(s, c, next) = ReadPlain(s, c)
           /\ s.rows = rows /\ s.row = row /\ s.field = field
<1>1. s.skip = FALSE /\ s.quoted = FALSE
    BY DEF Outside
<1>2. ReadNext(s, c, next) = ReadPlain(s, c)
    BY <1>1 DEF ReadNext
<1> QED BY <1>2 DEF Outside

\* An empty field has no blanks around it.
LEMMA NothingIsTrimmed == Trim(<<>>) = <<>>
BY DEF Trim

\* What each character does.
LEMMA OrdinaryCharacter ==
    ASSUME NEW s, NEW rows, NEW row, NEW field, Outside(s, rows, row, field), ~s.fieldWasQuoted,
           NEW c, NEW next, c \notin {Quote, Comma, CR, LF},
           NEW longer, longer = Append(field, c)
    PROVE  ReadNext(s, c, next) = Going(rows, row, longer)
<1> DEFINE t == [s EXCEPT !.field = longer, !.started = TRUE]
<1>1. ReadNext(s, c, next) = t
    <2>1. ReadPlain(s, c) = t
        BY OutsideReadsPlain DEF ReadPlain
    <2> HIDE DEF t
    <2> QED BY <2>1, OutsideReadsPlain
<1>2. t \in [rows : {rows}, row : {row}, field : {longer}, quoted : {FALSE},
             fieldWasQuoted : {FALSE}, started : {TRUE}, skip : {FALSE}]
    BY DEF Outside
<1> HIDE DEF t
<1>3. t = Going(rows, row, longer)
    BY <1>2 DEF Going
<1> QED BY <1>1, <1>3

\* A quote at the beginning of a field opens it.
LEMMA OpeningQuote ==
    ASSUME NEW s, NEW rows, NEW row, Outside(s, rows, row, <<>>), NEW next
    PROVE  ReadNext(s, Quote, next) = Inside(rows, row, <<>>)
<1> DEFINE t == [s EXCEPT !.field = <<>>, !.quoted = TRUE, !.fieldWasQuoted = TRUE, !.started = TRUE]
<1>1. ReadNext(s, Quote, next) = t
    <2>1. s.field = <<>> /\ ReadNext(s, Quote, next) = ReadPlain(s, Quote)
        BY OutsideReadsPlain
    <2>2. Trim(s.field) = <<>>
        BY <2>1, NothingIsTrimmed
    <2>3. ReadPlain(s, Quote) = t
        BY <2>2 DEF ReadPlain
    <2> HIDE DEF t
    <2> QED BY <2>1, <2>3
<1>2. t \in [rows : {rows}, row : {row}, field : {<<>>}, quoted : {TRUE},
             fieldWasQuoted : {TRUE}, started : {TRUE}, skip : {FALSE}]
    BY DEF Outside
<1> HIDE DEF t
<1>3. t = Inside(rows, row, <<>>)
    BY <1>2 DEF Inside
<1> QED BY <1>1, <1>3

\* s is the state inside quotes.
InQuotes(s, rows, row, field) ==
    s \in [rows : {rows}, row : {row}, field : {field}, quoted : {TRUE},
           fieldWasQuoted : {TRUE}, started : {TRUE}, skip : {FALSE}]

\* Within quotes a character is read as a quoted one.
LEMMA InsideReadsQuoted ==
    ASSUME NEW rows, NEW row, NEW field, NEW c, NEW next
    PROVE  /\ ReadNext(Inside(rows, row, field), c, next) = ReadQuoted(Inside(rows, row, field), c, next)
           /\ Inside(rows, row, field).field = field
           /\ InQuotes(Inside(rows, row, field), rows, row, field)
<1> DEFINE s == Inside(rows, row, field)
<1>1. InQuotes(s, rows, row, field)
    BY DEF Inside, InQuotes
<1> HIDE DEF s
<1>2. s.skip = FALSE /\ s.quoted = TRUE /\ s.field = field
    BY <1>1 DEF InQuotes
<1>3. ReadNext(s, c, next) = ReadQuoted(s, c, next)
    BY <1>2 DEF ReadNext
<1> QED BY <1>1, <1>2, <1>3 DEF s

\* Any character but a quote is taken as it is within quotes.
LEMMA QuotedCharacter ==
    ASSUME NEW rows, NEW row, NEW field, NEW c, NEW next, c # Quote
    PROVE  ReadNext(Inside(rows, row, field), c, next) = Inside(rows, row, Append(field, c))
<1> DEFINE longer == Append(field, c)
           s == Inside(rows, row, field)
           t == [s EXCEPT !.field = longer]
<1>1. /\ ReadNext(s, c, next) = ReadQuoted(s, c, next) /\ s.field = field
      /\ InQuotes(s, rows, row, field)
    BY InsideReadsQuoted
<1> HIDE DEF s
<1>2. ReadQuoted(s, c, next) = t
    BY <1>1 DEF ReadQuoted
<1> HIDE DEF longer
<1>3. t \in [rows : {rows}, row : {row}, field : {longer}, quoted : {TRUE},
             fieldWasQuoted : {TRUE}, started : {TRUE}, skip : {FALSE}]
    BY <1>1 DEF InQuotes
<1> HIDE DEF t
<1>4. t = Inside(rows, row, longer)
    BY <1>3 DEF Inside
<1> QED BY <1>1, <1>2, <1>4 DEF s, longer

\* Two sequences that agree everywhere are one.
LEMMA SameSequence ==
    ASSUME NEW S, NEW a \in Seq(S), NEW b \in Seq(S), Len(a) = Len(b), \A n \in 1..Len(a) : a[n] = b[n]
    PROVE  a = b
OBVIOUS

\* Two texts of a character make a text of two.
LEMMA TwoCharacters ==
    ASSUME NEW X, NEW c \in X, NEW d \in X
    PROVE  <<c>> \o <<d>> = <<c, d>>
<1> DEFINE a == <<c>>
           b == <<d>>
           both == <<c, d>>
<1>1. a \in Seq(X) /\ b \in Seq(X) /\ Len(a) = 1 /\ Len(b) = 1 /\ a[1] = c /\ b[1] = d
    OBVIOUS
<1>2. both \in Seq(X) /\ Len(both) = 2 /\ both[1] = c /\ both[2] = d
    OBVIOUS
<1> HIDE DEF a, b, both
<1> DEFINE joined == a \o b
<1>3. /\ joined \in Seq(X) /\ Len(joined) = 2
      /\ \A n \in 1..2 : joined[n] = IF n <= 1 THEN a[n] ELSE b[n - 1]
    BY <1>1, ConcatProperties
<1>4. joined[1] = c
    BY <1>1, <1>3
<1>5. joined[2] = d
    <2>1. joined[2] = b[2 - 1]
        BY <1>3
    <2> QED BY <1>1, <2>1
<1> HIDE DEF joined
<1>6. \A n \in 1..2 : joined[n] = both[n]
    BY <1>2, <1>4, <1>5
<1>7. joined = both
    BY <1>2, <1>3, <1>6, SameSequence
<1> QED BY <1>7 DEF a, b, both, joined

\* Two characters, one after the other.
LEMMA TwoCharactersLead ==
    ASSUME NEW s, NEW c, NEW t, NEW d, NEW u, NEW nexts,
           ReadNext(s, c, d) = t, \A next \in nexts : ReadNext(t, d, next) = u
    PROVE  Leads(s, <<c, d>>, u, nexts)
<1> DEFINE a == <<c>>
           b == <<d>>
           X == {c, d}
<1>1. Leads(s, a, t, {d})
    <2>1. \A next \in {d} : ReadNext(s, c, next) = t
        OBVIOUS
    <2> QED BY <2>1, OneCharacterLeads
<1>2. Leads(t, b, u, nexts)
    BY OneCharacterLeads
<1>3. a \in Seq(X) /\ b \in Seq(X) /\ b # <<>> /\ b[1] \in {d}
    OBVIOUS
<1>4. a \o b = <<c, d>>
    <2>1. c \in X /\ d \in X
        OBVIOUS
    <2> HIDE DEF X
    <2> QED BY <2>1, TwoCharacters
<1> HIDE DEF a, b, X
<1>5. Leads(s, a \o b, u, nexts)
    BY <1>1, <1>2, <1>3, TextsLeadOn
<1> QED BY <1>4, <1>5

\* Two quotes are one.
LEMMA TwoQuotes ==
    ASSUME NEW rows, NEW row, NEW field, NEW nexts
    PROVE  Leads(Inside(rows, row, field), <<Quote, Quote>>, Inside(rows, row, Append(field, Quote)), nexts)
<1> DEFINE longer == Append(field, Quote)
           s == Inside(rows, row, field)
           t == [s EXCEPT !.field = longer, !.skip = TRUE]
           u == [t EXCEPT !.skip = FALSE]
<1>1. /\ ReadNext(s, Quote, Quote) = ReadQuoted(s, Quote, Quote) /\ s.field = field
      /\ InQuotes(s, rows, row, field)
    BY InsideReadsQuoted
<1> HIDE DEF s
<1>2. ReadNext(s, Quote, Quote) = t
    <2>1. ReadQuoted(s, Quote, Quote) = t
        BY <1>1 DEF ReadQuoted
    <2> HIDE DEF t
    <2> QED BY <1>1, <2>1
<1> HIDE DEF longer
<1>3. t \in [rows : {rows}, row : {row}, field : {longer}, quoted : {TRUE},
             fieldWasQuoted : {TRUE}, started : {TRUE}, skip : {TRUE}]
    BY <1>1 DEF InQuotes
<1> HIDE DEF t
<1>4. \A next \in nexts : ReadNext(t, Quote, next) = u
    BY <1>3 DEF ReadNext
<1>5. u = Inside(rows, row, longer)
    <2>1. u \in [rows : {rows}, row : {row}, field : {longer}, quoted : {TRUE},
                 fieldWasQuoted : {TRUE}, started : {TRUE}, skip : {FALSE}]
        BY <1>3
    <2> HIDE DEF u
    <2> QED BY <2>1 DEF Inside
<1> HIDE DEF u
<1>6. Leads(s, <<Quote, Quote>>, u, nexts)
    BY <1>2, <1>4, TwoCharactersLead
<1> QED BY <1>5, <1>6 DEF s, longer

\* A quote that no other follows closes the field.
LEMMA ClosingQuote ==
    ASSUME NEW rows, NEW row, NEW field, NEW next, next # Quote
    PROVE  ReadNext(Inside(rows, row, field), Quote, next) = Closed(rows, row, field)
<1> DEFINE s == Inside(rows, row, field)
           t == [s EXCEPT !.quoted = FALSE]
<1>1. /\ ReadNext(s, Quote, next) = ReadQuoted(s, Quote, next)
      /\ InQuotes(s, rows, row, field)
    BY InsideReadsQuoted
<1> HIDE DEF s
<1>2. ReadQuoted(s, Quote, next) = t
    BY DEF ReadQuoted
<1>3. t \in [rows : {rows}, row : {row}, field : {field}, quoted : {FALSE},
             fieldWasQuoted : {TRUE}, started : {TRUE}, skip : {FALSE}]
    BY <1>1 DEF InQuotes
<1> HIDE DEF t
<1>4. t = Closed(rows, row, field)
    BY <1>3 DEF Closed
<1> QED BY <1>1, <1>2, <1>4 DEF s

\* After s, a field that holds value may end, and the row with it.
Over(s, rows, row, value) ==
    /\ \A next : ReadNext(s, Comma, next) = Going(rows, Append(row, value), <<>>)
    /\ \A next : ReadNext(s, CR, next) = s
    /\ \A next : Append(row, value) # <<(<<>>)>> =>
                     ReadNext(s, LF, next) = Fresh(Append(rows, Append(row, value)))

\* An unquoted field loses the blanks around it, a quoted one keeps them.
LEMMA FieldIsOver ==
    ASSUME NEW s, NEW rows, NEW row, NEW field, Outside(s, rows, row, field),
           NEW value, value = IF s.fieldWasQuoted THEN field ELSE Trim(field)
    PROVE  Over(s, rows, row, value)
<1> DEFINE longer == Append(row, value)
           more == Append(rows, longer)
           nothing == <<(<<>>)>>
           e == EndField(s)
<1>1. \A c, next : ReadNext(s, c, next) = ReadPlain(s, c)
    BY OutsideReadsPlain
<1>2. s.rows = rows /\ s.row = row /\ s.field = field
    BY DEF Outside
<1>3. e = [s EXCEPT !.row = longer, !.field = <<>>, !.fieldWasQuoted = FALSE]
    BY <1>2 DEF EndField
<1> HIDE DEF longer, more, e
<1>4. e \in [rows : {rows}, row : {longer}, field : {<<>>}, quoted : {FALSE},
             fieldWasQuoted : {FALSE}, started : BOOLEAN, skip : {FALSE}]
    BY <1>3 DEF Outside
<1>5. ReadPlain(s, CR) = s
    BY MarksDiffer DEF ReadPlain
<1>6. ReadPlain(s, Comma) = Going(rows, longer, <<>>)
    <2> DEFINE t == [e EXCEPT !.started = TRUE]
    <2>1. ReadPlain(s, Comma) = t
        BY MarksDiffer DEF ReadPlain, e
    <2>2. t \in [rows : {rows}, row : {longer}, field : {<<>>}, quoted : {FALSE},
                 fieldWasQuoted : {FALSE}, started : {TRUE}, skip : {FALSE}]
        BY <1>4
    <2> HIDE DEF t
    <2>3. t = Going(rows, longer, <<>>)
        BY <2>2 DEF Going
    <2> QED BY <2>1, <2>3
<1>7. ASSUME longer # nothing PROVE ReadPlain(s, LF) = Fresh(more)
    <2> DEFINE t == [e EXCEPT !.rows = more, !.row = <<>>, !.started = FALSE]
    <2>1. ReadPlain(s, LF) = EndRow(s)
        BY MarksDiffer DEF ReadPlain
    <2>2. e.row = longer /\ e.rows = rows
        BY <1>4
    <2>3. EndRow(s) = t
        BY <1>7, <2>2 DEF EndRow, e, more, nothing
    <2>4. t \in [rows : {more}, row : {<<>>}, field : {<<>>}, quoted : {FALSE},
                 fieldWasQuoted : {FALSE}, started : {FALSE}, skip : {FALSE}]
        BY <1>4
    <2> HIDE DEF t
    <2>5. t = Fresh(more)
        BY <2>4 DEF Fresh
    <2> QED BY <2>1, <2>3, <2>5
<1>8. /\ \A next : ReadNext(s, Comma, next) = Going(rows, longer, <<>>)
      /\ \A next : ReadNext(s, CR, next) = s
      /\ \A next : longer # nothing => ReadNext(s, LF, next) = Fresh(more)
    BY <1>1, <1>5, <1>6, <1>7
<1> QED BY <1>8 DEF Over, longer, more, nothing

\* The beginnings of a text, each one character longer.
LEMMA FirstOfText ==
    ASSUME NEW X, NEW text \in Seq(X)
    PROVE  /\ FirstOf(text, 0) = <<>> /\ FirstOf(text, Len(text)) = text
           /\ \A n \in 0..Len(text) : FirstOf(text, n) \in Seq(X)
           /\ \A n \in 1..Len(text) : Append(FirstOf(text, n - 1), text[n]) = FirstOf(text, n)
<1>1. FirstOf(text, 0) = <<>>
    BY DEF FirstOf
<1>2. FirstOf(text, Len(text)) = text
    BY DEF FirstOf
<1>3. \A n \in 0..Len(text) : FirstOf(text, n) \in Seq(X) /\ Len(FirstOf(text, n)) = n
    BY DEF FirstOf
<1>4. ASSUME NEW n \in 1..Len(text)
      PROVE  Append(FirstOf(text, n - 1), text[n]) = FirstOf(text, n)
    <2> DEFINE a == FirstOf(text, n - 1)
               b == FirstOf(text, n)
               c == text[n]
    <2>1. n - 1 \in 0..Len(text) /\ n \in 0..Len(text) /\ (n - 1) + 1 = n /\ c \in X
        OBVIOUS
    <2>2. a \in Seq(X) /\ Len(a) = n - 1 /\ b \in Seq(X) /\ Len(b) = n
        BY <1>3, <2>1
    <2>3. (\A m \in 1..(n - 1) : a[m] = b[m]) /\ b[n] = c
        BY DEF FirstOf
    <2> HIDE DEF a, b, c
    <2> DEFINE d == Append(a, c)
    <2>4. /\ d \in Seq(X) /\ Len(d) = n /\ d[n] = c
          /\ \A m \in 1..(n - 1) : d[m] = a[m]
        BY <2>1, <2>2, AppendProperties
    <2> HIDE DEF d
    <2>5. \A m \in 1..n : d[m] = b[m]
        BY <2>3, <2>4
    <2>6. d = b
        BY <2>2, <2>4, <2>5, SameSequence
    <2> QED BY <2>6 DEF a, b, c, d
<1> QED BY <1>1, <1>2, <1>3, <1>4

\* A field without quotes is what it says.
LEMMA OrdinaryField ==
    ASSUME NEW X, NEW text \in Seq(X), text # <<>>,
           \A n \in 1..Len(text) : text[n] \notin {Quote, Comma, CR, LF},
           NEW s, NEW rows, NEW row, Outside(s, rows, row, <<>>), ~s.fieldWasQuoted, NEW nexts
    PROVE  Leads(s, text, Going(rows, row, text), nexts)
<1> DEFINE N == Len(text)
           f == [n \in 0..N |-> IF n = 0 THEN s ELSE Going(rows, row, FirstOf(text, n))]
<1>1. N \in Nat \ {0}
    OBVIOUS
<1>2. f = [n \in 0..N |-> f[n]] /\ f[0] = s /\ f[N] = Going(rows, row, text)
    <2>1. N # 0 /\ N \in 0..N
        BY <1>1
    <2>2. f[N] = Going(rows, row, FirstOf(text, N))
        BY <2>1
    <2> QED BY <2>2, FirstOfText
<1>3. \A n \in 1..N : f[n] = Going(rows, row, FirstOf(text, n))
    OBVIOUS
<1>4. \A n \in 0..N : Outside(f[n], rows, row, FirstOf(text, n)) /\ ~f[n].fieldWasQuoted
    <2> TAKE n \in 0..N
    <2>1. CASE n = 0
        BY <1>2, <2>1, FirstOfText
    <2>2. CASE n # 0
        <3>1. f[n] = Going(rows, row, FirstOf(text, n))
            BY <1>3, <2>2
        <3> HIDE DEF f
        <3> QED BY <3>1, OutsideStates
    <2> QED BY <2>1, <2>2
<1> HIDE DEF f
<1>5. ASSUME NEW n \in 1..N, NEW next PROVE f[n] = ReadNext(f[n - 1], text[n], next)
    <2> DEFINE c == text[n]
               was == FirstOf(text, n - 1)
               is == FirstOf(text, n)
               t == f[n - 1]
    <2>1. Append(was, c) = is /\ c \notin {Quote, Comma, CR, LF}
        BY FirstOfText
    <2>2. Outside(t, rows, row, was) /\ ~t.fieldWasQuoted
        <3>1. n - 1 \in 0..N
            BY <1>1
        <3> QED BY <1>4, <3>1
    <2> HIDE DEF c, was, is, t
    <2>3. ReadNext(t, c, next) = Going(rows, row, is)
        BY <2>1, <2>2, OrdinaryCharacter
    <2> QED BY <1>3, <2>3 DEF c, is, t
<1>6. ASSUME NEW next \in nexts PROVE Runs(f, s, text, Going(rows, row, text), next)
    BY <1>2, <1>5 DEF Runs
<1> QED BY <1>6 DEF Leads

\* What is between the quotes is what it says, with every two quotes one.
LEMMA DoubledField ==
    ASSUME NEW X, Quote \in X, NEW text \in Seq(X), NEW rows, NEW row
    PROVE  /\ Doubled(text) \in Seq(X)
           /\ Leads(Inside(rows, row, <<>>), Doubled(text), Inside(rows, row, text), X)
<1> DEFINE N == Len(text)
           pieces == [k \in DOMAIN text |-> IF text[k] = Quote THEN <<Quote, Quote>> ELSE <<text[k]>>]
           st == [n \in 0..N |-> Inside(rows, row, FirstOf(text, n))]
<1>1. N \in Nat /\ DOMAIN text = 1..N /\ \A n \in 1..N : text[n] \in X
    OBVIOUS
<1>2. \A n \in 1..N : pieces[n] \in Seq(X) /\ pieces[n] # <<>> /\ pieces[n][1] \in X
    <2> TAKE n \in 1..N
    <2>1. pieces[n] = IF text[n] = Quote THEN <<Quote, Quote>> ELSE <<text[n]>>
        BY <1>1
    <2>2. CASE text[n] = Quote
        <3>1. pieces[n] = <<Quote, Quote>>
            BY <2>1, <2>2
        <3> HIDE DEF pieces
        <3> QED BY <3>1
    <2>3. CASE text[n] # Quote
        <3>1. pieces[n] = <<text[n]>> /\ text[n] \in X
            BY <1>1, <2>1, <2>3
        <3> HIDE DEF pieces
        <3> QED BY <3>1
    <2> QED BY <2>2, <2>3
<1>3. pieces \in Seq(Seq(X)) /\ Len(pieces) = N
    <2>1. pieces = [k \in 1..N |-> pieces[k]]
        BY <1>1
    <2> HIDE DEF pieces, N
    <2> QED BY <1>1, <1>2, <2>1
<1>4. ASSUME NEW n \in 1..N PROVE Leads(st[n - 1], pieces[n], st[n], X)
    <2> DEFINE c == text[n]
               was == FirstOf(text, n - 1)
               is == FirstOf(text, n)
    <2>1. Append(was, c) = is
        BY FirstOfText
    <2>2. n \in 0..N /\ n - 1 \in 0..N
        BY <1>1
    <2>3. st[n] = Inside(rows, row, is) /\ st[n - 1] = Inside(rows, row, was)
        BY <2>2
    <2>4. pieces[n] = IF c = Quote THEN <<Quote, Quote>> ELSE <<c>>
        BY <1>1
    <2> HIDE DEF st, pieces, c, was, is
    <2>5. CASE c = Quote
        <3>1. Leads(Inside(rows, row, was), <<Quote, Quote>>, Inside(rows, row, Append(was, Quote)), X)
            BY TwoQuotes
        <3>2. pieces[n] = <<Quote, Quote>> /\ Append(was, Quote) = is
            BY <2>1, <2>4, <2>5
        <3> QED BY <2>3, <3>1, <3>2
    <2>6. CASE c # Quote
        <3>1. \A next \in X : ReadNext(st[n - 1], c, next) = st[n]
            <4> TAKE next \in X
            <4>1. ReadNext(Inside(rows, row, was), c, next) = Inside(rows, row, Append(was, c))
                BY <2>6, QuotedCharacter
            <4> QED BY <2>1, <2>3, <4>1
        <3>2. pieces[n] = <<c>>
            BY <2>4, <2>6
        <3> QED BY <3>1, <3>2, OneCharacterLeads
    <2> QED BY <2>5, <2>6
<1>5. st[0] = Inside(rows, row, <<>>) /\ st[N] = Inside(rows, row, text)
    <2>1. 0 \in 0..N /\ N \in 0..N
        BY <1>1
    <2>2. st[0] = Inside(rows, row, FirstOf(text, 0)) /\ st[N] = Inside(rows, row, FirstOf(text, N))
        BY <2>1
    <2> QED BY <2>2, FirstOfText
<1>6. Doubled(text) = FlattenSeq(pieces)
    BY DEF Doubled
<1> HIDE DEF st, pieces, N
<1>7. FlattenSeq(pieces) \in Seq(X) /\ Leads(st[0], FlattenSeq(pieces), st[Len(pieces)], X)
    <2>1. \A k \in 2..Len(pieces) : pieces[k] # <<>> /\ pieces[k][1] \in X
        BY <1>1, <1>2, <1>3
    <2>2. \A k \in 1..Len(pieces) : Leads(st[k - 1], pieces[k], st[k], X)
        BY <1>3, <1>4
    <2> QED BY <1>3, <2>1, <2>2, PiecesLeadOn
<1> QED BY <1>3, <1>5, <1>6, <1>7

\* The characters that csv.ts itself writes.
Marks == {Quote, Comma, CR, LF, BOM, "'"}

\* A field that needs no quotes has no blanks around it and no mark in it.
LEMMA TrimKeeps ==
    ASSUME NEW X, NEW text \in Seq(X), ~NeedsQuoting(text)
    PROVE  Trim(text) = text /\ \A n \in 1..Len(text) : text[n] \notin {Quote, Comma, CR, LF}
<1>1. CASE text = <<>>
    BY <1>1, NothingIsTrimmed
<1>2. CASE text # <<>>
    <2> DEFINE N == Len(text)
               solid == {k \in DOMAIN text : text[k] \notin Whitespace}
    <2>1. N \in Nat \ {0} /\ DOMAIN text = 1..N
        BY <1>2
    <2>2. /\ \A n \in 1..N : text[n] \notin {Quote, Comma, CR, LF}
          /\ text[1] \notin Whitespace /\ text[N] \notin Whitespace
        BY <1>2, <2>1 DEF NeedsQuoting
    <2>3. solid \in SUBSET Int /\ IsFiniteSet(solid) /\ 1 \in solid /\ N \in solid /\ solid \subseteq 1..N
        <3>1. solid \subseteq 1..N /\ 1 \in solid /\ N \in solid
            BY <2>1, <2>2
        <3>2. IsFiniteSet(1..N)
            BY <2>1, FS_Interval
        <3> HIDE DEF solid
        <3>3. IsFiniteSet(solid)
            BY <3>1, <3>2, FS_Subset
        <3> QED BY <2>1, <3>1, <3>3
    <2>4. Trim(text) = IF solid = {} THEN <<>> ELSE SubSeq(text, Min(solid), Max(solid))
        BY DEF Trim
    <2> HIDE DEF solid, N
    <2>5. Min(solid) \in solid /\ \A k \in solid : Min(solid) <= k
        BY <2>3, MinIsLeast
    <2>6. Max(solid) \in solid /\ \A k \in solid : k <= Max(solid)
        BY <2>3, MaxIsGreatest
    <2>7. Min(solid) = 1 /\ Max(solid) = N
        <3>1. Min(solid) \in 1..N /\ Max(solid) \in 1..N /\ Min(solid) <= 1 /\ N <= Max(solid)
            BY <2>3, <2>5, <2>6
        <3> QED BY <2>1, <3>1
    <2>8. SubSeq(text, 1, N) = text
        BY DEF N
    <2>9. Trim(text) = text
        BY <2>3, <2>4, <2>7, <2>8
    <2> QED BY <2>2, <2>9 DEF N
<1> QED BY <1>1, <1>2

\* The apostrophe makes a text of a text, and never an empty one.
LEMMA GuardedText ==
    ASSUME NEW Char, Marks \subseteq Char, NEW value \in Seq(Char)
    PROVE  Guarded(value) \in Seq(Char) /\ (Guarded(value) = <<>> => value = <<>>)
<1> DEFINE a == <<"'">>
           b == a \o value
<1>1. a \in Seq(Char) /\ Len(a) = 1
    <2>1. "'" \in Char
        BY DEF Marks
    <2> QED BY <2>1
<1> HIDE DEF a
<1>2. b \in Seq(Char) /\ Len(b) = 1 + Len(value)
    BY <1>1, ConcatProperties
<1> HIDE DEF b
<1>3. Len(value) \in Nat
    OBVIOUS
<1>4. b # <<>>
    BY <1>2, <1>3
<1>5. Guarded(value) = b \/ Guarded(value) = value
    BY DEF Guarded, a, b
<1> QED BY <1>2, <1>4, <1>5

\* A field that is written is read, up to the character that ends it.
LEMMA FieldIsRead ==
    ASSUME NEW Char, Marks \subseteq Char, NEW value \in Seq(Char),
           NEW s, NEW rows, NEW row, Outside(s, rows, row, <<>>), ~s.fieldWasQuoted
    PROVE  /\ EscapeField(value) \in Seq(Char)
           /\ \E t : /\ Leads(s, EscapeField(value), t, {Comma, CR})
                     /\ Over(t, rows, row, Guarded(value))
<1> DEFINE safe == Guarded(value)
           ends == {Comma, CR}
<1>1. safe \in Seq(Char)
    BY GuardedText
<1>2. EscapeField(value) = IF NeedsQuoting(safe) THEN <<Quote>> \o Doubled(safe) \o <<Quote>> ELSE safe
    BY DEF EscapeField
<1> HIDE DEF safe
<1>3. CASE ~NeedsQuoting(safe)
    <2>1. Trim(safe) = safe /\ \A n \in 1..Len(safe) : safe[n] \notin {Quote, Comma, CR, LF}
        BY <1>1, <1>3, TrimKeeps
    <2>2. EscapeField(value) = safe
        BY <1>2, <1>3
    <2>3. CASE safe = <<>>
        <3>1. Leads(s, safe, s, ends)
            BY <2>3, NothingLeadsNowhere
        <3>2. safe = IF s.fieldWasQuoted THEN safe ELSE Trim(safe)
            BY <2>1
        <3>3. Outside(s, rows, row, safe)
            BY <2>3
        <3>4. Over(s, rows, row, safe)
            BY <3>2, <3>3, FieldIsOver
        <3> QED BY <1>1, <2>2, <3>1, <3>4 DEF safe
    <2>4. CASE safe # <<>>
        <3> DEFINE t == Going(rows, row, safe)
        <3>1. Leads(s, safe, t, ends)
            BY <1>1, <2>1, <2>4, OrdinaryField
        <3>2. Outside(t, rows, row, safe) /\ ~t.fieldWasQuoted
            BY OutsideStates
        <3> HIDE DEF t
        <3>3. safe = IF t.fieldWasQuoted THEN safe ELSE Trim(safe)
            BY <2>1
        <3>4. Over(t, rows, row, safe)
            BY <3>2, <3>3, FieldIsOver
        <3> QED BY <1>1, <2>2, <3>1, <3>4 DEF safe
    <2> QED BY <2>3, <2>4
<1>4. CASE NeedsQuoting(safe)
    <2> DEFINE q == <<Quote>>
               d == Doubled(safe)
               t == Closed(rows, row, safe)
    <2>1. q \in Seq(Char) /\ q # <<>> /\ q[1] = Quote /\ Quote \in Char
        BY DEF Marks
    <2>2. d \in Seq(Char) /\ Leads(Inside(rows, row, <<>>), d, Inside(rows, row, safe), Char)
        BY <1>1, <2>1, DoubledField
    <2>3. Leads(s, q, Inside(rows, row, <<>>), Char)
        <3>1. \A next \in Char : ReadNext(s, Quote, next) = Inside(rows, row, <<>>)
            BY OpeningQuote
        <3> QED BY <3>1, OneCharacterLeads
    <2>4. Leads(Inside(rows, row, safe), q, t, ends)
        <3>1. \A next \in ends : ReadNext(Inside(rows, row, safe), Quote, next) = t
            BY ClosingQuote, MarksDiffer
        <3> QED BY <3>1, OneCharacterLeads
    <2>5. EscapeField(value) = (q \o d) \o q
        BY <1>2, <1>4
    <2>6. Outside(t, rows, row, safe) /\ t.fieldWasQuoted
        BY OutsideStates
    <2> HIDE DEF q, d, t
    <2>7. Leads(s, q \o d, Inside(rows, row, safe), Char) /\ q \o d \in Seq(Char)
        <3>1. d # <<>> => d[1] \in Char
            BY <2>2
        <3> QED BY <2>1, <2>2, <2>3, <3>1, TextsLeadOn
    <2> DEFINE e == q \o d
    <2>8. e \in Seq(Char) /\ Leads(s, e, Inside(rows, row, safe), Char)
        BY <2>7
    <2>9. EscapeField(value) = e \o q
        BY <2>5
    <2> HIDE DEF e
    <2>10. Leads(s, e \o q, t, ends) /\ e \o q \in Seq(Char)
        BY <2>1, <2>4, <2>8, TextsLeadOn
    <2>11. safe = IF t.fieldWasQuoted THEN safe ELSE Trim(safe)
        BY <2>6
    <2>12. Over(t, rows, row, safe)
        BY <2>6, <2>11, FieldIsOver
    <2> QED BY <2>9, <2>10, <2>12 DEF safe
<1> QED BY <1>3, <1>4

\* What a row reads as: its fields, guarded.
GuardedRow(values) == [n \in DOMAIN values |-> Guarded(values[n])]

\* A row that is written has as many fields, each guarded.
LEMMA GuardedRowIs ==
    ASSUME NEW Char, Marks \subseteq Char, NEW values \in Seq(Seq(Char)), values # <<>>, values # <<(<<>>)>>
    PROVE  /\ GuardedRow(values) \in Seq(Seq(Char)) /\ Len(GuardedRow(values)) = Len(values)
           /\ \A n \in 1..Len(values) : GuardedRow(values)[n] = Guarded(values[n])
           /\ GuardedRow(values) # <<(<<>>)>>
<1> DEFINE N == Len(values)
           G == GuardedRow(values)
<1>1. N \in Nat \ {0} /\ DOMAIN values = 1..N /\ \A n \in 1..N : values[n] \in Seq(Char)
    OBVIOUS
<1>2. G = [n \in 1..N |-> Guarded(values[n])]
    BY <1>1 DEF GuardedRow
<1>3. \A n \in 1..N : Guarded(values[n]) \in Seq(Char)
    <2> TAKE n \in 1..N
    <2> DEFINE v == values[n]
    <2>1. v \in Seq(Char)
        BY <1>1
    <2> HIDE DEF v
    <2>2. Guarded(v) \in Seq(Char)
        BY <2>1, GuardedText
    <2> QED BY <2>2 DEF v
<1> HIDE DEF G, N
<1>4. G \in Seq(Seq(Char)) /\ Len(G) = N /\ \A n \in 1..N : G[n] = Guarded(values[n])
    BY <1>1, <1>2, <1>3
<1>5. ASSUME G = <<(<<>>)>> PROVE FALSE
    <2> DEFINE v == values[1]
    <2>1. N = 1 /\ Guarded(v) = <<>>
        <3>1. Len(G) = 1 /\ G[1] = <<>>
            BY <1>5
        <3>2. N = 1
            BY <1>4, <3>1
        <3> QED BY <1>4, <3>1, <3>2
    <2>2. v \in Seq(Char)
        BY <1>1, <2>1
    <2> HIDE DEF v
    <2>3. v = <<>>
        BY <2>1, <2>2, GuardedText
    <2>4. values = <<(<<>>)>>
        BY <2>1, <2>3 DEF v, N
    <2> QED BY <2>4
<1> QED BY <1>4, <1>5 DEF G, N

\* A function on the first numbers is a sequence.
LEMMA ListedFunction ==
    ASSUME NEW N \in Nat, NEW T, NEW f, f = [k \in 1..N |-> f[k]], \A k \in 1..N : f[k] \in T
    PROVE  f \in Seq(T) /\ Len(f) = N
<1>1. f \in [1..N -> T]
    OBVIOUS
<1> QED BY <1>1

\* A line that is written is read as a row.
LEMMA LineIsRead ==
    ASSUME NEW Char, Marks \subseteq Char,
           NEW values \in Seq(Seq(Char)), values # <<>>, values # <<(<<>>)>>, NEW rows
    PROVE  /\ ToCsvLine(values) \in Seq(Char) /\ ToCsvLine(values) # <<>>
           /\ Leads(Fresh(rows), ToCsvLine(values), Fresh(Append(rows, GuardedRow(values))), Char)
<1> DEFINE N == Len(values)
           G == GuardedRow(values)
           ends == {Comma, CR}
           pieces == [k \in DOMAIN values |-> (IF k = 1 THEN <<>> ELSE <<Comma>>) \o EscapeField(values[k])]
           begun(k) == IF k = 1 THEN Fresh(rows) ELSE Going(rows, FirstOf(G, k - 1), <<>>)
           Filled(k, t) == /\ Leads(begun(k), EscapeField(values[k]), t, ends)
                         /\ Over(t, rows, FirstOf(G, k - 1), G[k])
           st == [k \in 0..N |-> IF k = 0 THEN Fresh(rows) ELSE CHOOSE t : Filled(k, t)]
<1>1. N \in Nat \ {0} /\ DOMAIN values = 1..N /\ \A n \in 1..N : values[n] \in Seq(Char)
    OBVIOUS
<1>2. /\ G \in Seq(Seq(Char)) /\ Len(G) = N
      /\ \A n \in 1..N : G[n] = Guarded(values[n])
      /\ G # <<(<<>>)>>
    BY GuardedRowIs
<1> HIDE DEF G, N
<1>3. /\ FirstOf(G, 0) = <<>> /\ FirstOf(G, N) = G
      /\ \A n \in 0..N : FirstOf(G, n) \in Seq(Seq(Char))
      /\ \A n \in 1..N : Append(FirstOf(G, n - 1), G[n]) = FirstOf(G, n)
    BY <1>2, FirstOfText
<1>4. ASSUME NEW k \in 1..N
      PROVE  EscapeField(values[k]) \in Seq(Char) /\ \E t : Filled(k, t)
    <2> DEFINE v == values[k]
               s == begun(k)
               row == FirstOf(G, k - 1)
    <2>1. v \in Seq(Char) /\ G[k] = Guarded(v)
        BY <1>1, <1>2
    <2>2. Outside(s, rows, row, <<>>) /\ ~s.fieldWasQuoted
        <3>1. CASE k = 1
            <4>1. k - 1 = 0
                BY <3>1
            <4>2. s = Fresh(rows) /\ row = <<>>
                BY <1>3, <3>1, <4>1
            <4> HIDE DEF s, row
            <4> QED BY <4>2, OutsideStates
        <3>2. CASE k # 1
            <4>1. s = Going(rows, row, <<>>)
                BY <3>2
            <4> HIDE DEF s, row
            <4> QED BY <4>1, OutsideStates
        <3> QED BY <3>1, <3>2
    <2> HIDE DEF v, s, row
    <2>3. /\ EscapeField(v) \in Seq(Char)
          /\ \E t : Leads(s, EscapeField(v), t, {Comma, CR}) /\ Over(t, rows, row, Guarded(v))
        BY <2>1, <2>2, FieldIsRead
    <2> QED BY <2>1, <2>3 DEF v, s, row
<1>5. st[0] = Fresh(rows) /\ \A k \in 1..N : Filled(k, st[k])
    <2>1. st[0] = Fresh(rows)
        BY <1>1
    <2>2. ASSUME NEW k \in 1..N PROVE Filled(k, st[k])
        <3> HIDE DEF Filled
        <3>1. st[k] = CHOOSE t : Filled(k, t)
            BY <1>1
        <3> HIDE DEF st
        <3> QED BY <1>4, <3>1
    <2> QED BY <2>1, <2>2
<1> HIDE DEF st
<1>6. ASSUME NEW k \in 1..N
      PROVE  /\ pieces[k] \in Seq(Char) /\ (k # 1 => pieces[k] # <<>> /\ pieces[k][1] \in ends)
             /\ Leads(st[k - 1], pieces[k], st[k], ends)
    <2> DEFINE e == EscapeField(values[k])
               comma == <<Comma>>
               p == pieces[k]
    <2>1. e \in Seq(Char) /\ Leads(begun(k), e, st[k], ends)
        BY <1>4, <1>5
    <2>2. p = (IF k = 1 THEN <<>> ELSE comma) \o e
        BY <1>1
    <2>3. comma \in Seq(Char) /\ Len(comma) = 1 /\ comma[1] = Comma
        <3>1. Comma \in Char
            BY DEF Marks
        <3> QED BY <3>1
    <2> HIDE DEF p, e, comma, pieces
    <2>4. CASE k = 1
        <3>1. p = e
            <4>1. <<>> \o e = e
                BY <2>1, ConcatEmptySeq
            <4> QED BY <2>2, <2>4, <4>1
        <3>2. begun(k) = st[k - 1]
            <4>1. k - 1 = 0
                BY <2>4
            <4> QED BY <1>5, <2>4, <4>1
        <3> QED BY <2>1, <2>4, <3>1, <3>2 DEF p
    <2>5. CASE k # 1
        <3> DEFINE s == st[k - 1]
                   row == FirstOf(G, k - 1)
                   t == Going(rows, row, <<>>)
        <3>1. k - 1 \in 1..N
            BY <1>1, <2>5
        <3>2. Append(FirstOf(G, (k - 1) - 1), G[k - 1]) = row
            BY <1>3, <3>1
        <3>3. Over(s, rows, FirstOf(G, (k - 1) - 1), G[k - 1])
            BY <1>5, <3>1
        <3>4. \A next : ReadNext(s, Comma, next) = t
            <4> HIDE DEF s, row
            <4> QED BY <3>2, <3>3 DEF Over
        <3>5. begun(k) = t
            BY <2>5
        <3> HIDE DEF s, t, begun
        <3>6. Leads(s, comma, t, Char)
            BY <3>4, OneCharacterLeads DEF comma
        <3>7. p = comma \o e
            BY <2>2, <2>5
        <3>8. e # <<>> => e[1] \in Char
            BY <2>1
        <3>9. Leads(s, comma \o e, st[k], ends)
            <4>1. IF e = <<>> THEN ends \subseteq Char ELSE e[1] \in Char
                BY <3>8 DEF Marks
            <4> QED BY <2>1, <2>3, <3>5, <3>6, <4>1, TextsLeadOn
        <3>10. p \in Seq(Char) /\ p # <<>> /\ p[1] = Comma
            <4>1. /\ p \in Seq(Char) /\ Len(p) = Len(comma) + Len(e)
                  /\ \A i \in 1..(Len(comma) + Len(e)) : p[i] = IF i <= Len(comma) THEN comma[i] ELSE e[i - Len(comma)]
                BY <2>1, <2>3, <3>7, ConcatProperties
            <4>2. Len(e) \in Nat
                BY <2>1
            <4>3. 1 \in 1..(Len(comma) + Len(e)) /\ 1 <= Len(comma)
                BY <2>3, <4>2
            <4>4. p[1] = comma[1]
                BY <4>1, <4>3
            <4>5. p # <<>>
                BY <2>3, <4>1, <4>2
            <4> QED BY <2>3, <4>1, <4>4, <4>5
        <3> QED BY <3>7, <3>9, <3>10 DEF p, s
    <2> QED BY <2>4, <2>5
<1>7. pieces \in Seq(Seq(Char)) /\ Len(pieces) = N
    <2>1. pieces = [k \in 1..N |-> pieces[k]]
        BY <1>1
    <2>2. \A k \in 1..N : pieces[k] \in Seq(Char)
        BY <1>6
    <2> DEFINE T == Seq(Char)
    <2>3. \A k \in 1..N : pieces[k] \in T
        BY <2>2
    <2> HIDE DEF pieces, T
    <2>4. pieces \in Seq(T) /\ Len(pieces) = N
        BY <1>1, <2>1, <2>3, ListedFunction
    <2> QED BY <2>4 DEF T
<1> DEFINE F == FlattenSeq(pieces)
           feed == <<CR, LF>>
           t == Fresh(Append(rows, G))
<1>8. ToCsvLine(values) = F \o feed
    BY DEF ToCsvLine
<1> HIDE DEF pieces, begun, Filled
<1>9. F \in Seq(Char) /\ Leads(st[0], F, st[N], ends)
    <2>1. \A k \in 1..Len(pieces) : Leads(st[k - 1], pieces[k], st[k], ends)
        BY <1>6, <1>7
    <2>2. \A k \in 2..Len(pieces) : pieces[k] # <<>> /\ pieces[k][1] \in ends
        BY <1>1, <1>6, <1>7
    <2> HIDE DEF ends
    <2> QED BY <1>7, <2>1, <2>2, PiecesLeadOn
<1>10. Leads(st[N], feed, t, Char)
    <2>1. Over(st[N], rows, FirstOf(G, N - 1), G[N])
        BY <1>1, <1>5 DEF Filled
    <2>2. Append(FirstOf(G, N - 1), G[N]) = G
        <3>1. N \in 1..N
            BY <1>1
        <3>2. Append(FirstOf(G, N - 1), G[N]) = FirstOf(G, N)
            BY <1>3, <3>1
        <3> QED BY <1>3, <3>2
    <2>3. ReadNext(st[N], CR, LF) = st[N] /\ \A next : ReadNext(st[N], LF, next) = t
        BY <1>2, <2>1, <2>2 DEF Over
    <2> HIDE DEF t
    <2> QED BY <2>3, TwoCharactersLead
<1>11. feed \in Seq(Char) /\ feed # <<>> /\ feed[1] \in ends /\ Len(feed) = 2
    <2>1. CR \in Char /\ LF \in Char
        BY DEF Marks
    <2> QED BY <2>1
<1> HIDE DEF F, feed, t, ends
<1>12. Leads(st[0], F \o feed, t, Char)
    BY <1>9, <1>10, <1>11, TextsLeadOn
<1>13. F \o feed \in Seq(Char) /\ F \o feed # <<>>
    <2>1. F \o feed \in Seq(Char) /\ Len(F \o feed) = Len(F) + Len(feed)
        BY <1>9, <1>11, ConcatProperties
    <2>2. Len(F) \in Nat
        BY <1>9
    <2>3. Len(F \o feed) # 0
        BY <1>11, <2>1, <2>2
    <2> QED BY <2>1, <2>3
<1> QED BY <1>5, <1>8, <1>12, <1>13 DEF t, G

\* Two texts begin where the first of them with anything in it does.
LEMMA FirstOfBoth ==
    ASSUME NEW X, NEW a \in Seq(X), NEW b \in Seq(X)
    PROVE  /\ a \o b \in Seq(X) /\ (a # <<>> \/ b # <<>> => a \o b # <<>>)
           /\ a # <<>> => (a \o b)[1] = a[1]
           /\ a = <<>> => a \o b = b
<1>1. /\ a \o b \in Seq(X) /\ Len(a \o b) = Len(a) + Len(b)
      /\ \A i \in 1..(Len(a) + Len(b)) : (a \o b)[i] = IF i <= Len(a) THEN a[i] ELSE b[i - Len(a)]
    BY ConcatProperties
<1>2. Len(a) \in Nat /\ Len(b) \in Nat /\ (a = <<>> <=> Len(a) = 0) /\ (b = <<>> <=> Len(b) = 0)
    OBVIOUS
<1> DEFINE c == a \o b
<1>3. c # <<>> <=> Len(c) # 0
    <2> HIDE DEF c
    <2>1. c \in Seq(X)
        BY <1>1 DEF c
    <2> QED BY <2>1
<1>4. a # <<>> \/ b # <<>> => c # <<>>
    BY <1>1, <1>2, <1>3
<1>5. ASSUME a # <<>> PROVE c[1] = a[1]
    <2>1. 1 \in 1..(Len(a) + Len(b)) /\ 1 <= Len(a)
        BY <1>2, <1>5
    <2> QED BY <1>1, <2>1
<1>6. a = <<>> => c = b
    BY ConcatEmptySeq
<1> QED BY <1>1, <1>4, <1>5, <1>6

\* If no piece begins with c, nor do all of them together.
LEMMA NoPieceBegins ==
    ASSUME NEW X, NEW pieces \in Seq(Seq(X)), NEW c,
           \A k \in 1..Len(pieces) : pieces[k] # <<>> => pieces[k][1] # c
    PROVE  FlattenSeq(pieces) \in Seq(X) /\ (FlattenSeq(pieces) # <<>> => FlattenSeq(pieces)[1] # c)
<1> DEFINE N == Len(pieces)
<1>1. PICK upto \in [0..N -> Seq(X)] : Joins(upto, pieces) /\ FlattenSeq(pieces) = upto[N]
    BY FlatteningJoins
<1>2. upto[0] = <<>> /\ \A n \in 1..N : upto[n] = upto[n - 1] \o pieces[n]
    BY <1>1 DEF Joins
<1>3. N \in Nat /\ \A n \in 1..N : pieces[n] \in Seq(X) /\ (pieces[n] # <<>> => pieces[n][1] # c)
    OBVIOUS
<1> DEFINE Good(n) == upto[n] # <<>> => upto[n][1] # c
           bad == {n \in 0..N : ~Good(n)}
<1>4. ASSUME bad # {} PROVE FALSE
    <2> HIDE DEF Good, N
    <2>1. PICK n \in bad : \A k \in bad : n <= k
        <3>1. bad \in SUBSET Nat
            BY <1>3
        <3> HIDE DEF bad
        <3> QED BY <1>4, <3>1, LeastExists
    <2>2. n \in 0..N /\ ~Good(n)
        OBVIOUS
    <2>3. n # 0
        BY <1>2, <2>2 DEF Good
    <2>4. n \in 1..N /\ n - 1 \in 0..N /\ ~ n <= n - 1
        BY <1>3, <2>2, <2>3
    <2>5. Good(n - 1)
        BY <2>1, <2>4
    <2> DEFINE a == upto[n - 1]
               b == pieces[n]
               both == upto[n]
    <2>6. a \in Seq(X) /\ b \in Seq(X) /\ both = a \o b /\ (b # <<>> => b[1] # c)
        BY <1>2, <1>3, <2>4
    <2>7. (a # <<>> => a[1] # c) /\ both # <<>> /\ both[1] = c
        BY <2>2, <2>5 DEF Good
    <2> HIDE DEF a, b, both
    <2>8. CASE a = <<>>
        <3>1. both = b
            BY <2>6, <2>8, FirstOfBoth
        <3> QED BY <2>6, <2>7, <3>1
    <2>9. CASE a # <<>>
        <3>1. both[1] = a[1]
            BY <2>6, <2>9, FirstOfBoth
        <3> QED BY <2>7, <2>9, <3>1
    <2> QED BY <2>8, <2>9
<1>5. Good(N) /\ upto[N] \in Seq(X)
    <2>1. N \in 0..N
        BY <1>3
    <2> HIDE DEF Good, N
    <2> QED BY <1>4, <2>1
<1> QED BY <1>1, <1>5

\* What is written never begins with the mark that a file may begin with.
LEMMA NoFieldBegins ==
    ASSUME NEW Char, Marks \subseteq Char, NEW value \in Seq(Char)
    PROVE  EscapeField(value) \in Seq(Char) /\ (EscapeField(value) # <<>> => EscapeField(value)[1] # BOM)
<1> DEFINE safe == Guarded(value)
           q == <<Quote>>
           d == Doubled(safe)
<1>1. safe \in Seq(Char)
    BY GuardedText
<1>2. EscapeField(value) = IF NeedsQuoting(safe) THEN q \o d \o q ELSE safe
    BY DEF EscapeField
<1>3. q \in Seq(Char) /\ q # <<>> /\ q[1] # BOM /\ Quote \in Char
    BY MarksDiffer DEF Marks
<1> HIDE DEF safe
<1>4. d \in Seq(Char)
    BY <1>1, <1>3, DoubledField
<1> HIDE DEF q, d
<1>5. CASE NeedsQuoting(safe)
    <2> DEFINE e == q \o d
    <2>1. e \in Seq(Char) /\ e # <<>> /\ e[1] = q[1]
        BY <1>3, <1>4, FirstOfBoth
    <2>2. EscapeField(value) = e \o q
        BY <1>2, <1>5
    <2> HIDE DEF e
    <2>3. e \o q \in Seq(Char) /\ (e \o q)[1] = e[1]
        BY <1>3, <2>1, FirstOfBoth
    <2> QED BY <1>3, <2>1, <2>2, <2>3
<1>6. CASE ~NeedsQuoting(safe)
    <2>1. safe # <<>> => safe[1] # BOM
        BY <1>6, MarksDiffer DEF NeedsQuoting
    <2> QED BY <1>1, <1>2, <1>6, <2>1
<1> QED BY <1>5, <1>6

\* No line begins with a byte order mark: what begins with one is quoted.
LEMMA NoLineBegins ==
    ASSUME NEW Char, Marks \subseteq Char, NEW values \in Seq(Seq(Char))
    PROVE  ToCsvLine(values) # <<>> => ToCsvLine(values)[1] # BOM
<1> DEFINE N == Len(values)
           pieces == [k \in DOMAIN values |-> (IF k = 1 THEN <<>> ELSE <<Comma>>) \o EscapeField(values[k])]
           comma == <<Comma>>
           feed == <<CR, LF>>
           F == FlattenSeq(pieces)
<1>1. N \in Nat /\ DOMAIN values = 1..N /\ \A n \in 1..N : values[n] \in Seq(Char)
    OBVIOUS
<1> HIDE DEF N
<1>2. comma \in Seq(Char) /\ comma # <<>> /\ comma[1] # BOM
    BY MarksDiffer DEF Marks
<1>3. feed \in Seq(Char) /\ feed # <<>> /\ feed[1] # BOM
    BY MarksDiffer DEF Marks
<1>4. ToCsvLine(values) = F \o feed
    BY DEF ToCsvLine
<1>5. ASSUME NEW k \in 1..N
      PROVE  pieces[k] \in Seq(Char) /\ (pieces[k] # <<>> => pieces[k][1] # BOM)
    <2> DEFINE v == values[k]
               e == EscapeField(v)
               p == pieces[k]
    <2>1. v \in Seq(Char)
        BY <1>1
    <2>2. p = (IF k = 1 THEN <<>> ELSE comma) \o e
        BY <1>1
    <2> HIDE DEF v, p, comma
    <2>3. e \in Seq(Char) /\ (e # <<>> => e[1] # BOM)
        BY <2>1, NoFieldBegins
    <2> HIDE DEF e
    <2>4. CASE k = 1
        <3>1. <<>> \o e = e
            BY <2>3, ConcatEmptySeq
        <3>2. p = e
            BY <2>2, <2>4, <3>1
        <3> QED BY <2>3, <3>2 DEF p
    <2>5. CASE k # 1
        <3>1. p = comma \o e
            BY <2>2, <2>5
        <3>2. comma \o e \in Seq(Char) /\ (comma \o e)[1] = comma[1]
            BY <1>2, <2>3, FirstOfBoth
        <3> QED BY <1>2, <3>1, <3>2 DEF p
    <2> QED BY <2>4, <2>5
<1>6. pieces \in Seq(Seq(Char)) /\ Len(pieces) = N
    <2> DEFINE T == Seq(Char)
    <2>1. pieces = [k \in 1..N |-> pieces[k]]
        BY <1>1
    <2>2. \A k \in 1..N : pieces[k] \in T
        BY <1>5
    <2> HIDE DEF pieces, T
    <2>3. pieces \in Seq(T) /\ Len(pieces) = N
        BY <1>1, <2>1, <2>2, ListedFunction
    <2> QED BY <2>3 DEF T
<1>7. F \in Seq(Char) /\ (F # <<>> => F[1] # BOM)
    <2>1. \A k \in 1..Len(pieces) : pieces[k] # <<>> => pieces[k][1] # BOM
        BY <1>5, <1>6
    <2> HIDE DEF pieces
    <2> QED BY <1>6, <2>1, NoPieceBegins
<1> HIDE DEF F, feed
<1>8. CASE F = <<>>
    <2>1. F \o feed = feed
        BY <1>3, <1>7, <1>8, FirstOfBoth
    <2> QED BY <1>3, <1>4, <2>1
<1>9. CASE F # <<>>
    <2>1. (F \o feed)[1] = F[1]
        BY <1>3, <1>7, <1>9, FirstOfBoth
    <2> QED BY <1>4, <1>7, <1>9, <2>1
<1> QED BY <1>8, <1>9

\* The characters from first to last are some of the content, or none.
PartOf(content, first, last) ==
    first \in 1..(Len(content) + 1) /\ last \in (first - 1)..Len(content)

\* A part is read as the whole is.
LEMMA PartIsRead ==
    ASSUME NEW X, NEW content \in Seq(X), NEW f, NEW s0, NEW t0, Runs(f, s0, content, t0, BOM),
           NEW first, NEW last, PartOf(content, first, last), NEW s, s = f[first - 1]
    PROVE  ReadPart(s, content, first, last) = {f[last]}
<1> DEFINE N == Len(content)
           next(n) == IF n = N THEN BOM ELSE content[n + 1]
           from == first - 1
           Step(g, n) == {ReadNext(t, content[n], next(n)) : t \in g[n - 1]}
           Again(g) == [n \in from..last |-> IF n < first THEN {s} ELSE Step(g, n)]
           after == CHOOSE g : g = Again(g)
           h == [n \in from..last |-> {f[n]}]
<1>1. N \in Nat /\ from \in Nat /\ last \in from..N /\ first = from + 1
    BY DEF PartOf
<1>2. ReadPart(s, content, first, last) = after[last]
    BY DEF ReadPart
<1>3. \A n \in 1..N : f[n] = ReadNext(f[n - 1], content[n], next(n))
    BY DEF Runs
<1>4. s = f[from]
    OBVIOUS
<1> HIDE DEF N, next, from
<1>5. h = Again(h)
    <2>1. ASSUME NEW n \in from..last PROVE h[n] = IF n < first THEN {s} ELSE Step(h, n)
        <3>1. h[n] = {f[n]}
            OBVIOUS
        <3>2. CASE n < first
            <4>1. n = from
                BY <1>1, <3>2
            <4> QED BY <1>4, <3>1, <3>2, <4>1
        <3>3. CASE ~(n < first)
            <4>1. n - 1 \in from..last /\ n \in 1..N
                BY <1>1, <3>3
            <4>2. h[n - 1] = {f[n - 1]}
                BY <4>1
            <4> HIDE DEF h
            <4>3. Step(h, n) = {ReadNext(f[n - 1], content[n], next(n))}
                BY <4>2
            <4> HIDE DEF Step
            <4> QED BY <1>3, <3>1, <3>3, <4>1, <4>3
        <3> QED BY <3>2, <3>3
    <2>2. h = [n \in from..last |-> h[n]]
        OBVIOUS
    <2> HIDE DEF h, Step
    <2> QED BY <2>1, <2>2
<1>6. \A n \in from..last : h[n] = {f[n]}
    OBVIOUS
<1> HIDE DEF h
<1>7. after = Again(after)
    <2> HIDE DEF Again
    <2> QED BY <1>5
<1> HIDE DEF after
<1>8. \A n \in from..last : after[n] = h[n]
    <2> DEFINE bad == {n \in from..last : after[n] # h[n]}
    <2>1. SUFFICES ASSUME bad # {} PROVE FALSE
        OBVIOUS
    <2>2. PICK n \in bad : \A k \in bad : n <= k
        <3>1. bad \in SUBSET Nat
            BY <1>1
        <3> HIDE DEF bad
        <3> QED BY <2>1, <3>1, LeastExists
    <2>3. n \in from..last /\ after[n] # h[n]
        OBVIOUS
    <2>4. /\ h[n] = IF n < first THEN {s} ELSE Step(h, n)
          /\ after[n] = IF n < first THEN {s} ELSE Step(after, n)
        <3> HIDE DEF Step
        <3> QED BY <1>5, <1>7, <2>3
    <2>5. ~(n < first)
        BY <2>3, <2>4
    <2>6. n - 1 \in from..last /\ ~ n <= n - 1
        BY <1>1, <2>3, <2>5
    <2>7. after[n - 1] = h[n - 1]
        BY <2>2, <2>6
    <2>8. Step(after, n) = Step(h, n)
        BY <2>7
    <2> HIDE DEF Step
    <2> QED BY <2>3, <2>4, <2>5, <2>8
<1> QED BY <1>1, <1>2, <1>6, <1>8

\* Parts of sixteen make the whole.
LEMMA Parts ==
    ASSUME NEW N \in Nat
    PROVE  /\ N \div 16 \in Nat
           /\ \A k \in 0..(N \div 16) : k * 16 <= N /\ k * 16 \in Nat
           /\ N < ((N \div 16) + 1) * 16
<1> DEFINE p == N \div 16
<1>1. p \in Nat /\ p * 16 <= N /\ N < p * 16 + 16
    OBVIOUS
<1> HIDE DEF p
<1>2. \A k \in 0..p : k * 16 <= N /\ k * 16 \in Nat
    BY <1>1
<1>3. N < (p + 1) * 16
    BY <1>1
<1> QED BY <1>1, <1>2, <1>3 DEF p

\* Part by part, what is read is what reading character by character leads to.
LEMMA AllIsRead ==
    ASSUME NEW X, NEW content \in Seq(X), NEW t, NEW nexts, Leads(AtStart, content, t, nexts), BOM \in nexts
    PROVE  ReadAll(content) = t
<1> DEFINE N == Len(content)
           length == 16
           parts == N \div length
           upto(k) == Min({k * length, N})
           Part(s, k) == ReadPart(s, content, (k - 1) * length + 1, upto(k))
           Step(g, k) == UNION {Part(s, k) : s \in g[k - 1]}
           Again(g) == [k \in 0..(parts + 1) |-> IF k = 0 THEN {AtStart} ELSE Step(g, k)]
           after == CHOOSE g : g = Again(g)
<1>1. N \in Nat
    OBVIOUS
<1>2. ReadAll(content) = CHOOSE s \in after[parts + 1] : TRUE
    BY DEF ReadAll
<1>3. PICK f : Runs(f, AtStart, content, t, BOM)
    BY DEF Leads
<1>4. f[0] = AtStart /\ f[N] = t
    BY <1>3 DEF Runs
<1> HIDE DEF N
<1>5. /\ parts \in Nat /\ N < (parts + 1) * length
      /\ \A k \in 0..parts : k * length <= N /\ k * length \in Nat
    BY <1>1, Parts
<1>6. /\ upto(parts + 1) = N
      /\ \A k \in 0..parts : upto(k) = k * length
    <2>1. \A k \in 0..(parts + 1) : upto(k) = IF k * length <= N THEN k * length ELSE N
        <3> TAKE k \in 0..(parts + 1)
        <3> DEFINE at == k * length
        <3>1. at \in Int
            BY <1>5
        <3> HIDE DEF at
        <3>2. Min({at, N}) = IF at <= N THEN at ELSE N
            BY <1>1, <3>1, Lesser
        <3> QED BY <3>2 DEF at
    <2> HIDE DEF parts
    <2>2. parts + 1 \in 0..(parts + 1) /\ (parts + 1) * length \in Int
        BY <1>5
    <2>3. ~((parts + 1) * length <= N)
        BY <1>1, <1>5, <2>2
    <2>4. \A k \in 0..parts : k \in 0..(parts + 1)
        BY <1>5
    <2> HIDE DEF length, upto
    <2> QED BY <1>5, <2>1, <2>2, <2>3, <2>4
<1> HIDE DEF parts
<1> DEFINE h == [k \in 0..(parts + 1) |-> {f[upto(k)]}]
<1>7. h = Again(h)
    <2>1. ASSUME NEW k \in 0..(parts + 1) PROVE h[k] = IF k = 0 THEN {AtStart} ELSE Step(h, k)
        <3>1. h[k] = {f[upto(k)]}
            OBVIOUS
        <3>2. CASE k = 0
            <4>1. upto(k) = 0
                BY <1>5, <1>6, <3>2
            <4> HIDE DEF upto, h
            <4> QED BY <1>4, <3>1, <3>2, <4>1
        <3>3. CASE k # 0
            <4> DEFINE from == (k - 1) * length
                       last == upto(k)
                       first == from + 1
                       s == f[from]
            <4>1. k - 1 \in 0..parts
                BY <1>5, <3>3
            <4>2. upto(k - 1) = from /\ from <= N /\ from \in Nat
                BY <1>5, <1>6, <4>1
            <4>3. last \in from..N
                <5>1. CASE k = parts + 1
                    BY <1>1, <1>6, <4>2, <5>1
                <5>2. CASE k # parts + 1
                    <6>1. k \in 0..parts
                        BY <1>5, <5>2
                    <6>2. last = k * length /\ k * length <= N /\ k * length \in Nat
                        BY <1>5, <1>6, <6>1
                    <6>3. from <= k * length
                        BY <4>1
                    <6> HIDE DEF last, from
                    <6> QED BY <1>1, <4>2, <6>2, <6>3
                <5> QED BY <5>1, <5>2
            <4>4. h[k - 1] = {f[upto(k - 1)]}
                <5>1. k - 1 \in 0..(parts + 1)
                    BY <1>5, <4>1
                <5> QED BY <5>1
            <4>5. h[k - 1] = {s}
                BY <4>2, <4>4
            <4>6. ReadPart(s, content, first, last) = {f[last]}
                <5>1. from \in Nat /\ from <= N /\ last \in from..N /\ s = f[from] /\ first = from + 1
                    BY <4>2, <4>3
                <5> HIDE DEF from, last, first, s
                <5>2. PartOf(content, first, last) /\ first - 1 = from
                    BY <1>1, <5>1 DEF N, PartOf
                <5>3. s = f[first - 1]
                    BY <5>1, <5>2
                <5> QED BY <1>3, <5>2, <5>3, PartIsRead
            <4>7. Part(s, k) = {f[last]}
                BY <4>6
            <4> HIDE DEF h, Part, s, last
            <4>8. Step(h, k) = Part(s, k)
                BY <4>5
            <4> QED BY <3>1, <3>3, <4>7, <4>8 DEF last
        <3> QED BY <3>2, <3>3
    <2>2. h = [k \in 0..(parts + 1) |-> h[k]]
        OBVIOUS
    <2> HIDE DEF h, Step
    <2> QED BY <2>1, <2>2
<1>8. \A k \in 0..(parts + 1) : h[k] = {f[upto(k)]}
    OBVIOUS
<1> HIDE DEF h, Part, upto
<1>9. after = Again(after)
    <2> HIDE DEF Again
    <2> QED BY <1>7
<1> HIDE DEF after
<1>10. \A n \in 0..(parts + 1) : after[n] = h[n]
    <2> DEFINE bad == {n \in 0..(parts + 1) : after[n] # h[n]}
    <2>1. SUFFICES ASSUME bad # {} PROVE FALSE
        OBVIOUS
    <2>2. PICK n \in bad : \A k \in bad : n <= k
        <3>1. bad \in SUBSET Nat
            OBVIOUS
        <3> HIDE DEF bad
        <3> QED BY <2>1, <3>1, LeastExists
    <2>3. n \in 0..(parts + 1) /\ after[n] # h[n]
        OBVIOUS
    <2>4. /\ h[n] = IF n = 0 THEN {AtStart} ELSE Step(h, n)
          /\ after[n] = IF n = 0 THEN {AtStart} ELSE Step(after, n)
        <3> HIDE DEF Step
        <3> QED BY <1>7, <1>9, <2>3
    <2>5. n # 0
        BY <2>3, <2>4
    <2>6. n - 1 \in 0..(parts + 1) /\ ~ n <= n - 1
        BY <1>5, <2>3, <2>5
    <2>7. after[n - 1] = h[n - 1]
        BY <2>2, <2>6
    <2>8. Step(after, n) = Step(h, n)
        BY <2>7
    <2> HIDE DEF Step
    <2> QED BY <2>3, <2>4, <2>5, <2>8
<1>11. after[parts + 1] = {t}
    <2>1. parts + 1 \in 0..(parts + 1)
        BY <1>5
    <2> QED BY <1>4, <1>6, <1>8, <1>10, <2>1
<1> QED BY <1>2, <1>11

\* A file of those rows: a line for each.
TextOf(table) == FlattenSeq([k \in DOMAIN table |-> ToCsvLine(table[k])])

\* What such a file reads as.
GuardedRows(table) == [k \in DOMAIN table |-> GuardedRow(table[k])]

\* A row has fields, and one of a single empty field is no row.
IsSheet(table, Char) ==
    /\ table \in Seq(Seq(Seq(Char)))
    /\ \A k \in DOMAIN table : table[k] # <<>> /\ table[k] # <<(<<>>)>>

\* A written table leads from no rows to all its rows.
LEMMA FileIsRead ==
    ASSUME NEW Char, Marks \subseteq Char, NEW table, IsSheet(table, Char)
    PROVE  /\ TextOf(table) \in Seq(Char)
           /\ TextOf(table) # <<>> => TextOf(table)[1] # BOM
           /\ Leads(Fresh(<<>>), TextOf(table), Fresh(GuardedRows(table)), Char)
<1> DEFINE N == Len(table)
           G == GuardedRows(table)
           lines == [k \in DOMAIN table |-> ToCsvLine(table[k])]
           st == [k \in 0..N |-> Fresh(FirstOf(G, k))]
           S == Seq(Seq(Char))
<1>1. N \in Nat /\ DOMAIN table = 1..N
    BY DEF IsSheet
<1>2. \A k \in 1..N : table[k] \in Seq(Seq(Char)) /\ table[k] # <<>> /\ table[k] # <<(<<>>)>>
    <2> DEFINE T == Seq(Seq(Char))
    <2>1. table \in Seq(T) /\ \A k \in 1..N : table[k] # <<>> /\ table[k] # <<(<<>>)>>
        BY <1>1 DEF IsSheet
    <2> HIDE DEF T
    <2>2. \A k \in 1..N : table[k] \in T
        BY <2>1
    <2> QED BY <2>1, <2>2 DEF T
<1> HIDE DEF N
<1>3. \A k \in 1..N : /\ lines[k] = ToCsvLine(table[k]) /\ lines[k] \in Seq(Char) /\ lines[k] # <<>>
                      /\ lines[k][1] # BOM /\ G[k] = GuardedRow(table[k]) /\ G[k] \in S
                      /\ \A rows : Leads(Fresh(rows), lines[k], Fresh(Append(rows, G[k])), Char)
    <2> TAKE k \in 1..N
    <2> DEFINE values == table[k]
               line == lines[k]
               row == G[k]
    <2>1. values \in Seq(Seq(Char)) /\ values # <<>> /\ values # <<(<<>>)>>
        BY <1>2
    <2>2. line = ToCsvLine(values) /\ row = GuardedRow(values)
        BY <1>1 DEF GuardedRows
    <2> HIDE DEF values, line, row
    <2>3. /\ line \in Seq(Char) /\ line # <<>>
          /\ \A rows : Leads(Fresh(rows), line, Fresh(Append(rows, row)), Char)
        BY <2>1, <2>2, LineIsRead
    <2>4. line # <<>> => line[1] # BOM
        BY <2>1, <2>2, NoLineBegins
    <2>5. row \in Seq(Seq(Char))
        BY <2>1, <2>2, GuardedRowIs
    <2> QED BY <2>2, <2>3, <2>4, <2>5 DEF values, line, row, S
<1>4. G \in Seq(S) /\ Len(G) = N
    <2>1. G = [k \in 1..N |-> G[k]]
        BY <1>1 DEF GuardedRows
    <2>2. \A k \in 1..N : G[k] \in S
        BY <1>3
    <2> HIDE DEF G, S
    <2> QED BY <1>1, <2>1, <2>2, ListedFunction
<1> HIDE DEF G, S
<1>5. lines \in Seq(Seq(Char)) /\ Len(lines) = N
    <2> DEFINE T == Seq(Char)
    <2>1. lines = [k \in 1..N |-> lines[k]]
        BY <1>1
    <2>2. \A k \in 1..N : lines[k] \in T
        BY <1>3
    <2> HIDE DEF lines, T
    <2>3. lines \in Seq(T) /\ Len(lines) = N
        BY <1>1, <2>1, <2>2, ListedFunction
    <2> QED BY <2>3 DEF T
<1>6. /\ FirstOf(G, 0) = <<>> /\ FirstOf(G, N) = G
      /\ \A n \in 1..N : Append(FirstOf(G, n - 1), G[n]) = FirstOf(G, n)
    BY <1>4, FirstOfText
<1>7. st[0] = Fresh(<<>>) /\ st[N] = Fresh(G)
    <2>1. 0 \in 0..N /\ N \in 0..N
        BY <1>1
    <2>2. st[0] = Fresh(FirstOf(G, 0)) /\ st[N] = Fresh(FirstOf(G, N))
        BY <2>1
    <2> QED BY <1>6, <2>2
<1> HIDE DEF lines
<1>8. ASSUME NEW k \in 1..N PROVE Leads(st[k - 1], lines[k], st[k], Char)
    <2>1. k - 1 \in 0..N /\ k \in 0..N
        BY <1>1
    <2>2. st[k - 1] = Fresh(FirstOf(G, k - 1)) /\ st[k] = Fresh(FirstOf(G, k))
        BY <2>1
    <2>3. Leads(Fresh(FirstOf(G, k - 1)), lines[k], Fresh(Append(FirstOf(G, k - 1), G[k])), Char)
        BY <1>3
    <2>4. Append(FirstOf(G, k - 1), G[k]) = FirstOf(G, k)
        BY <1>6
    <2> QED BY <2>2, <2>3, <2>4
<1> HIDE DEF st
<1>9. TextOf(table) = FlattenSeq(lines)
    BY DEF TextOf, lines
<1>10. FlattenSeq(lines) \in Seq(Char) /\ Leads(st[0], FlattenSeq(lines), st[N], Char)
    <2>1. \A k \in 1..Len(lines) : Leads(st[k - 1], lines[k], st[k], Char)
        BY <1>5, <1>8
    <2>2. \A k \in 2..Len(lines) : lines[k] # <<>> /\ lines[k][1] \in Char
        <3> TAKE k \in 2..Len(lines)
        <3> DEFINE line == lines[k]
        <3>1. k \in 1..N
            BY <1>1, <1>5
        <3>2. line \in Seq(Char) /\ line # <<>>
            BY <1>3, <3>1
        <3> HIDE DEF line
        <3>3. line[1] \in Char
            BY <3>2
        <3> QED BY <3>2, <3>3 DEF line
    <2> QED BY <1>5, <2>1, <2>2, PiecesLeadOn
<1>11. FlattenSeq(lines) # <<>> => FlattenSeq(lines)[1] # BOM
    <2>1. \A k \in 1..Len(lines) : lines[k] # <<>> => lines[k][1] # BOM
        BY <1>3, <1>5
    <2> QED BY <1>5, <2>1, NoPieceBegins
<1> QED BY <1>7, <1>9, <1>10, <1>11 DEF G

\* Every table that csv.ts writes it also reads: the fields come back as they were, but for the
\* apostrophe in front of what a spreadsheet would run as a formula, whatever quotes, commas, line
\* ends and blanks they hold.
THEOREM CsvComesBack ==
    ASSUME NEW Char, Marks \subseteq Char, NEW table, IsSheet(table, Char)
    PROVE  ParseCsv(TextOf(table)) = GuardedRows(table)
<1> DEFINE text == TextOf(table)
           G == GuardedRows(table)
           end == Fresh(G)
<1>1. /\ text \in Seq(Char) /\ (text # <<>> => text[1] # BOM)
      /\ Leads(Fresh(<<>>), text, end, Char)
    BY FileIsRead
<1>2. AtStart = Fresh(<<>>)
    BY DEF AtStart, Fresh
<1>3. ReadAll(text) = end
    <2>1. BOM \in Char
        BY DEF Marks
    <2> HIDE DEF text, end
    <2>2. Leads(AtStart, text, end, Char)
        BY <1>1, <1>2
    <2> QED BY <1>1, <2>1, <2>2, AllIsRead
<1>4. end.started = FALSE /\ end.field = <<>> /\ end.row = <<>> /\ end.rows = G
    BY DEF Fresh
<1> HIDE DEF text, end
<1>5. ParseCsv(text) = end.rows
    BY <1>1, <1>3, <1>4 DEF ParseCsv
<1> QED BY <1>4, <1>5 DEF text

-----------------------------------------------------------------------------
(* Filtering *)

\* "at" lists the numbers of P from the least to the greatest.
ListsPlaces(at, P) ==
    /\ at \in Seq(P) /\ Len(at) = Cardinality(P)
    /\ \A p \in P : \E k \in 1..Len(at) : at[k] = p
    /\ \A j, k \in 1..Len(at) : j < k => at[j] < at[k]

\* The places that OrderBy lists, each of them once and in order.
LEMMA PlacesAreListed ==
    ASSUME NEW P \in SUBSET Int, IsFiniteSet(P)
    PROVE  ListsPlaces(OrderBy(P, <), P)
<1> DEFINE at == OrderBy(P, <)
           R == {e \in P \X P : e[1] < e[2]}
           stands(x, k) == Cardinality({y \in P : y < x}) = k - 1
<1>1. StrictlyOrders(R, P)
    BY DEF StrictlyOrders
<1>2. at = [k \in 1..Cardinality(P) |-> CHOOSE x \in P : stands(x, k)]
    BY DEF OrderBy
<1>3. ASSUME NEW x \in P PROVE Rank(R, P, x) = Cardinality({y \in P : y < x})
    <2>1. Below(R, P, x) = {y \in P : y < x}
        BY DEF Below
    <2> QED BY <2>1 DEF Rank
<1>4. \A x, y \in P : <<x, y>> \in R <=> x < y
    OBVIOUS
<1> HIDE DEF R, at
<1>5. ASSUME NEW k \in 1..Cardinality(P) PROVE at[k] \in P /\ Rank(R, P, at[k]) = k - 1
    <2>1. at[k] = CHOOSE x \in P : stands(x, k)
        BY <1>2
    <2>2. \E x \in P : stands(x, k)
        <3>1. PICK x \in P : Rank(R, P, x) = k - 1
            BY <1>1, EveryRankIsHeld
        <3>2. Cardinality({y \in P : y < x}) = k - 1
            BY <1>3, <3>1
        <3> QED BY <3>2
    <2> HIDE DEF stands
    <2>3. at[k] \in P /\ stands(at[k], k)
        BY <2>1, <2>2
    <2> QED BY <1>3, <2>3 DEF stands
<1>6. at = [k \in 1..Cardinality(P) |-> at[k]]
    <2> HIDE DEF stands
    <2> QED BY <1>2
<1>7. /\ at \in Seq(P) /\ Len(at) = Cardinality(P) /\ Cardinality(P) \in Nat
      /\ \A x \in P : Rank(R, P, x) + 1 \in 1..Cardinality(P) /\ at[Rank(R, P, x) + 1] = x
      /\ \A j, k \in 1..Cardinality(P) : j < k <=> <<at[j], at[k]>> \in R
    BY <1>1, <1>5, <1>6, SortedByRank
<1>8. \A j, k \in 1..Cardinality(P) : j < k => at[j] < at[k]
    BY <1>4, <1>5, <1>7
<1>9. \A p \in P : \E k \in 1..Cardinality(P) : at[k] = p
    BY <1>7
<1> QED BY <1>7, <1>8, <1>9 DEF at, ListsPlaces

\* Nothing is in s twice.
Distinct(s) == \A j, k \in 1..Len(s) : s[j] = s[k] => j = k

\* Places of a list.
LEMMA PlacesAreFinite ==
    ASSUME NEW L \in Nat, NEW P \in SUBSET (1..L)
    PROVE  IsFiniteSet(P) /\ Cardinality(P) \in 0..L /\ (Cardinality(P) = 0 <=> P = {})
<1> DEFINE all == 1..L
<1>1. IsFiniteSet(all) /\ Cardinality(all) = L
    BY FS_Interval
<1> HIDE DEF all
<1>2. P \in SUBSET all
    BY DEF all
<1>3. IsFiniteSet(P) /\ Cardinality(P) <= Cardinality(all)
    BY <1>1, <1>2, FS_Subset
<1>4. Cardinality(P) \in Nat
    BY <1>3, FS_CardinalityType
<1>5. Cardinality(P) = 0 <=> P = {}
    BY <1>3, FS_EmptySet
<1> QED BY <1>1, <1>3, <1>4, <1>5

\* What is chosen is what stands at the places, as often as it does.
LEMMA ChosenAre ==
    ASSUME NEW X, NEW s \in Seq(X), NEW P \in SUBSET (1..Len(s))
    PROVE  /\ Chosen(s, P) \in Seq(X) /\ Len(Chosen(s, P)) = Cardinality(P)
           /\ Range(Chosen(s, P)) = {s[k] : k \in P}
           /\ Distinct(s) => Distinct(Chosen(s, P))
           /\ Cardinality(P) \in 0..Len(s) /\ (Cardinality(P) = 0 <=> P = {})
<1> DEFINE at == OrderBy(P, <)
           t == Chosen(s, P)
           N == Cardinality(P)
<1>1. IsFiniteSet(P) /\ N \in 0..Len(s) /\ N \in Nat /\ (N = 0 <=> P = {})
    <2>1. Len(s) \in Nat
        OBVIOUS
    <2> QED BY <2>1, PlacesAreFinite
<1>2. P \in SUBSET Int
    OBVIOUS
<1> HIDE DEF at
<1>3. ListsPlaces(at, P)
    BY <1>1, <1>2, PlacesAreListed DEF at
<1>4. DOMAIN at = 1..N
    BY <1>1, <1>3 DEF ListsPlaces
<1>5. \A k \in 1..N : at[k] \in P
    BY <1>3, <1>4 DEF ListsPlaces
<1>6. \A p \in P : \E k \in 1..N : at[k] = p
    BY <1>3 DEF ListsPlaces
<1>7. \A j, k \in 1..N : j < k => at[j] < at[k]
    BY <1>3 DEF ListsPlaces
<1>8. t = [k \in 1..N |-> s[at[k]]]
    BY <1>4 DEF Chosen, at
<1> HIDE DEF t, N
<1>9. \A k \in 1..N : at[k] \in 1..Len(s) /\ t[k] = s[at[k]] /\ t[k] \in X
    <2>1. \A k \in 1..N : at[k] \in 1..Len(s)
        BY <1>5
    <2> QED BY <1>8, <2>1
<1>10. t \in Seq(X) /\ Len(t) = N
    <2>1. t = [k \in 1..N |-> t[k]]
        BY <1>8
    <2>2. \A k \in 1..N : t[k] \in X
        BY <1>9
    <2>3. N \in Nat
        BY <1>1
    <2> QED BY <2>1, <2>2, <2>3, ListedFunction
<1>11. Range(t) = {s[k] : k \in P}
    <2>1. Range(t) = {t[k] : k \in 1..N}
        BY <1>8 DEF Range
    <2>2. \A x : x \in Range(t) => x \in {s[k] : k \in P}
        BY <1>5, <1>9, <2>1
    <2>3. \A x : x \in {s[k] : k \in P} => x \in Range(t)
        <3> SUFFICES ASSUME NEW p \in P PROVE s[p] \in Range(t)
            OBVIOUS
        <3>1. PICK k \in 1..N : at[k] = p
            BY <1>6
        <3> QED BY <1>9, <2>1, <3>1
    <2> QED BY <2>2, <2>3
<1>12. ASSUME Distinct(s) PROVE Distinct(t)
    <2> SUFFICES ASSUME NEW j \in 1..N, NEW k \in 1..N, t[j] = t[k] PROVE j = k
        BY <1>10 DEF Distinct
    <2>1. at[j] \in 1..Len(s) /\ at[k] \in 1..Len(s) /\ s[at[j]] = s[at[k]]
        BY <1>9
    <2>2. at[j] = at[k]
        BY <2>1, <1>12 DEF Distinct
    <2>3. j \in Int /\ k \in Int /\ at[j] \in Int
        BY <1>1, <2>1
    <2> QED BY <1>7, <2>2, <2>3
<1> QED BY <1>1, <1>10, <1>11, <1>12 DEF t, N

-----------------------------------------------------------------------------
(* Any text *)

\* Reading characters of X does not leave A.
StaysIn(A, X) == \A s \in A, c \in X : \A next : ReadNext(s, c, next) \in A

\* Every text is read.
LEMMA TextIsRead ==
    ASSUME NEW X, NEW content \in Seq(X), NEW A, NEW a \in A, StaysIn(A, X)
    PROVE  \E t \in A : Leads(a, content, t, {BOM})
<1> DEFINE N == Len(content)
           next(n) == IF n = N THEN BOM ELSE content[n + 1]
           P == (0..N) \X A
           step(p) == IF p[1] = N THEN p ELSE <<p[1] + 1, ReadNext(p[2], content[p[1] + 1], next(p[1] + 1))>>
           F == [p \in P |-> step(p)]
           start == <<0, a>>
<1>1. N \in Nat /\ \A n \in 1..N : content[n] \in X
    OBVIOUS
<1> HIDE DEF N, next
<1>2. F \in [P -> P]
    <2> SUFFICES ASSUME NEW p \in P PROVE step(p) \in P
        OBVIOUS
    <2>1. p[1] \in 0..N /\ p[2] \in A
        OBVIOUS
    <2>2. CASE p[1] = N
        BY <2>2
    <2>3. CASE p[1] # N
        <3>1. p[1] + 1 \in 1..N /\ p[1] + 1 \in 0..N
            BY <1>1, <2>1, <2>3
        <3>2. ReadNext(p[2], content[p[1] + 1], next(p[1] + 1)) \in A
            BY <1>1, <2>1, <3>1 DEF StaysIn
        <3> QED BY <2>3, <3>1, <3>2
    <2> QED BY <2>2, <2>3
<1>3. start \in P
    BY <1>1
<1> HIDE DEF F, P, start
<1>4. PICK g : Rounds(g, N, P, start, F)
    BY <1>1, <1>2, <1>3, RoundsExist
<1>5. /\ g[0] = start /\ \A n \in 0..N : g[n] \in P
      /\ \A n \in 1..N : g[n] = F[g[n - 1]]
    BY <1>4 DEF Rounds
<1>6. \A n \in 0..N : g[n][1] = n
    <2> DEFINE bad == {n \in 0..N : g[n][1] # n}
    <2> SUFFICES ASSUME bad # {} PROVE FALSE
        OBVIOUS
    <2>1. bad \in SUBSET Nat
        BY <1>1
    <2>2. PICK n \in bad : \A m \in bad : n <= m
        BY <2>1, LeastExists
    <2>3. n # 0
        BY <1>5 DEF start
    <2>4. n \in 1..N /\ n - 1 \in 0..N /\ n - 1 \notin bad
        BY <1>1, <2>2, <2>3
    <2>5. g[n - 1][1] = n - 1 /\ g[n - 1] \in P /\ n - 1 # N
        BY <1>1, <1>5, <2>4
    <2>6. g[n] = step(g[n - 1])
        BY <1>5, <2>4, <2>5 DEF F
    <2>7. g[n][1] = g[n - 1][1] + 1
        BY <2>5, <2>6
    <2> QED BY <2>2, <2>4, <2>5, <2>7
<1> DEFINE f == [n \in 0..N |-> g[n][2]]
<1>7. \A n \in 0..N : f[n] = g[n][2] /\ f[n] \in A
    BY <1>5 DEF P
<1>8. ASSUME NEW n \in 1..N PROVE f[n] = ReadNext(f[n - 1], content[n], next(n))
    <2>1. n - 1 \in 0..N /\ n \in 0..N /\ n - 1 # N /\ n - 1 + 1 = n
        BY <1>1
    <2>2. g[n - 1][1] = n - 1 /\ g[n - 1] \in P /\ g[n] = step(g[n - 1])
        BY <1>5, <1>6, <2>1 DEF F
    <2>3. g[n][2] = ReadNext(g[n - 1][2], content[n - 1 + 1], next(n - 1 + 1))
        BY <2>1, <2>2
    <2> QED BY <1>7, <2>1, <2>3
<1>9. f[0] = a /\ f = [n \in 0..N |-> f[n]]
    BY <1>1, <1>5, <1>7 DEF start
<1> HIDE DEF f
<1>10. Runs(f, a, content, f[N], BOM)
    BY <1>8, <1>9 DEF Runs, N, next
<1>11. Leads(a, content, f[N], {BOM})
    BY <1>10 DEF Leads
<1> QED BY <1>1, <1>7, <1>11

\* Trimming makes text of text.
LEMMA TrimIsText ==
    ASSUME NEW X, NEW text \in Seq(X)
    PROVE  Trim(text) \in Seq(X)
<1> DEFINE solid == {k \in DOMAIN text : text[k] \notin Whitespace}
           L == Len(text)
<1>1. L \in Nat /\ solid \in SUBSET (1..L) /\ solid \in SUBSET Int /\ \A k \in 1..L : text[k] \in X
    OBVIOUS
<1>2. Trim(text) = IF solid = {} THEN <<>> ELSE SubSeq(text, Min(solid), Max(solid))
    BY DEF Trim
<1> HIDE DEF solid
<1>3. CASE solid = {}
    BY <1>2, <1>3
<1>4. CASE solid # {}
    <2>1. IsFiniteSet(solid)
        BY <1>1, PlacesAreFinite
    <2> DEFINE low == Min(solid)
               high == Max(solid)
    <2>2. low \in solid /\ high \in solid
        BY <1>1, <1>4, <2>1, MinIsLeast, MaxIsGreatest
    <2>3. low \in 1..L /\ high \in 1..L
        BY <1>1, <2>2
    <2> HIDE DEF low, high
    <2>4. \A k \in low..high : text[k] \in X
        BY <1>1, <2>3
    <2>5. SubSeq(text, low, high) \in Seq(X)
        BY <1>1, <2>3, <2>4, SubSeqProperties
    <2> QED BY <1>2, <1>4, <2>5 DEF low, high
<1> QED BY <1>3, <1>4

\* The rows there may be.
Rows(Char) == {row \in Seq(Seq(Char)) : row # <<>> /\ row # <<(<<>>)>>}

Reader(Char) ==
    [rows : Seq(Rows(Char)), row : Seq(Seq(Char)), field : Seq(Char), quoted : BOOLEAN,
     fieldWasQuoted : BOOLEAN, started : BOOLEAN, skip : BOOLEAN]

\* A row with a field ended is not empty.
LEMMA FieldIsEnded ==
    ASSUME NEW Char, NEW s \in Reader(Char)
    PROVE  EndField(s) \in Reader(Char) /\ EndField(s).row # <<>>
<1> DEFINE cell == IF s.fieldWasQuoted THEN s.field ELSE Trim(s.field)
           row == Append(s.row, cell)
           B == Seq(Char)
<1>1. s.field \in B /\ s.row \in Seq(B) /\ <<>> \in B
    BY DEF Reader
<1>2. cell \in B
    BY <1>1, TrimIsText
<1> HIDE DEF cell, B
<1>3. row \in Seq(B) /\ row # <<>>
    BY <1>1, <1>2
<1>4. EndField(s) = [s EXCEPT !.row = row, !.field = <<>>, !.fieldWasQuoted = FALSE]
    BY DEF EndField, cell
<1> HIDE DEF row
<1>5. EndField(s) \in Reader(Char)
    BY <1>1, <1>3, <1>4 DEF Reader, B
<1>6. EndField(s).row = row
    BY <1>4 DEF Reader
<1> QED BY <1>3, <1>5, <1>6

\* Ending a row keeps the reader's type.
LEMMA RowIsEnded ==
    ASSUME NEW Char, NEW s \in Reader(Char)
    PROVE  EndRow(s) \in Reader(Char)
<1> DEFINE e == EndField(s)
           row == e.row
           rows == IF row = <<(<<>>)>> THEN e.rows ELSE Append(e.rows, row)
<1>1. e \in Reader(Char) /\ row # <<>>
    BY FieldIsEnded
<1> HIDE DEF e
<1>2. row \in Seq(Seq(Char)) /\ e.rows \in Seq(Rows(Char))
    BY <1>1 DEF Reader
<1>3. rows \in Seq(Rows(Char))
    <2> DEFINE A == Rows(Char)
    <2>1. CASE row = <<(<<>>)>>
        BY <1>2, <2>1
    <2>2. CASE row # <<(<<>>)>>
        <3>1. row \in A
            BY <1>1, <1>2, <2>2 DEF Rows
        <3> HIDE DEF A, row
        <3>2. Append(e.rows, row) \in Seq(A)
            BY <1>2, <3>1 DEF A
        <3> QED BY <2>2, <3>2 DEF A
    <2> QED BY <2>1, <2>2
<1>4. EndRow(s) = [e EXCEPT !.rows = rows, !.row = <<>>, !.started = FALSE]
    BY DEF EndRow, e
<1> HIDE DEF rows
<1>5. <<>> \in Seq(Seq(Char))
    OBVIOUS
<1> QED BY <1>1, <1>3, <1>4, <1>5 DEF Reader

\* The reader starts, and goes on with each character, within its type.
LEMMA ReaderReads ==
    ASSUME NEW Char
    PROVE  AtStart \in Reader(Char) /\ StaysIn(Reader(Char), Char)
<1>1. AtStart \in Reader(Char)
    BY DEF AtStart, Reader
<1>2. ASSUME NEW s \in Reader(Char), NEW c \in Char, NEW next PROVE ReadNext(s, c, next) \in Reader(Char)
    <2> DEFINE longer == Append(s.field, c)
    <2>1. longer \in Seq(Char)
        BY DEF Reader
    <2> HIDE DEF longer
    <2>2. CASE s.skip
        <3>1. ReadNext(s, c, next) = [s EXCEPT !.skip = FALSE]
            BY <2>2 DEF ReadNext
        <3> QED BY <3>1 DEF Reader
    <2>3. CASE ~s.skip /\ s.quoted
        <3>1. ReadNext(s, c, next) = ReadQuoted(s, c, next)
            BY <2>3 DEF ReadNext
        <3>2. CASE c # Quote
            <4>1. ReadQuoted(s, c, next) = [s EXCEPT !.field = longer]
                BY <3>2 DEF ReadQuoted, longer
            <4> QED BY <2>1, <3>1, <4>1 DEF Reader
        <3>3. CASE c = Quote /\ next = Quote
            <4>1. ReadQuoted(s, c, next) = [s EXCEPT !.field = longer, !.skip = TRUE]
                BY <3>3 DEF ReadQuoted, longer
            <4> QED BY <2>1, <3>1, <4>1 DEF Reader
        <3>4. CASE c = Quote /\ next # Quote
            <4>1. ReadQuoted(s, c, next) = [s EXCEPT !.quoted = FALSE]
                BY <3>4 DEF ReadQuoted
            <4> QED BY <3>1, <4>1 DEF Reader
        <3> QED BY <3>2, <3>3, <3>4
    <2>4. CASE ~s.skip /\ ~s.quoted
        <3>1. ReadNext(s, c, next) = ReadPlain(s, c)
            BY <2>4 DEF ReadNext
        <3>2. CASE c = Quote /\ Trim(s.field) = <<>>
            <4>1. ReadPlain(s, c) = [s EXCEPT !.field = <<>>, !.quoted = TRUE,
                                              !.fieldWasQuoted = TRUE, !.started = TRUE]
                BY <3>2 DEF ReadPlain
            <4>2. <<>> \in Seq(Char)
                OBVIOUS
            <4> QED BY <3>1, <4>1, <4>2 DEF Reader
        <3>3. CASE ~(c = Quote /\ Trim(s.field) = <<>>)
            <4>1. CASE c = Comma
                <5>1. ReadPlain(s, c) = [EndField(s) EXCEPT !.started = TRUE]
                    BY <3>3, <4>1, MarksDiffer DEF ReadPlain
                <5>2. EndField(s) \in Reader(Char)
                    BY FieldIsEnded
                <5> QED BY <3>1, <5>1, <5>2 DEF Reader
            <4>2. CASE c = LF
                <5>1. ReadPlain(s, c) = EndRow(s)
                    BY <3>3, <4>2, MarksDiffer DEF ReadPlain
                <5> QED BY <3>1, <5>1, RowIsEnded
            <4>3. CASE c = CR
                <5>1. ReadPlain(s, c) = s
                    BY <3>3, <4>3, MarksDiffer DEF ReadPlain
                <5> QED BY <3>1, <5>1
            <4>4. CASE c \notin {Comma, LF, CR}
                <5>1. ReadPlain(s, c) = [s EXCEPT !.field = longer, !.started = TRUE]
                    BY <3>3, <4>4 DEF ReadPlain, longer
                <5> QED BY <2>1, <3>1, <5>1 DEF Reader
            <4> QED BY <4>1, <4>2, <4>3, <4>4
        <3> QED BY <3>2, <3>3
    <2>5. s.skip \in BOOLEAN /\ s.quoted \in BOOLEAN
        BY DEF Reader
    <2> QED BY <2>2, <2>3, <2>4, <2>5
<1> QED BY <1>1, <1>2 DEF StaysIn

\* Whatever the text, what is read of it is rows with fields.
LEMMA ParsedIsSheet ==
    ASSUME NEW Char, NEW text \in Seq(Char)
    PROVE  IsSheet(ParseCsv(text), Char)
<1> DEFINE content == IF text # <<>> /\ text[1] = BOM THEN Tail(text) ELSE text
           end == ReadAll(content)
           rows == ParseCsv(text)
           A == Reader(Char)
<1>1. content \in Seq(Char)
    OBVIOUS
<1>2. end \in A
    <2> HIDE DEF content, A
    <2>1. AtStart \in A /\ StaysIn(A, Char)
        BY ReaderReads DEF A
    <2>2. PICK t \in A : Leads(AtStart, content, t, {BOM})
        BY <1>1, <2>1, TextIsRead
    <2>3. BOM \in {BOM}
        OBVIOUS
    <2>4. ReadAll(content) = t
        BY <1>1, <2>2, <2>3, AllIsRead
    <2> QED BY <2>2, <2>4
<1>3. rows = IF end.started \/ end.field # <<>> \/ end.row # <<>> THEN EndRow(end).rows ELSE end.rows
    BY DEF ParseCsv
<1> HIDE DEF content, end
<1>4. EndRow(end) \in A
    BY <1>2, RowIsEnded
<1>5. rows \in Seq(Rows(Char))
    BY <1>2, <1>3, <1>4 DEF Reader
<1> HIDE DEF rows
<1>6. ASSUME NEW k \in DOMAIN rows PROVE rows[k] # <<>> /\ rows[k] # <<(<<>>)>>
    <2> DEFINE T == Rows(Char)
    <2> HIDE DEF T
    <2>1. rows[k] \in T
        BY <1>5 DEF T
    <2> QED BY <2>1 DEF T, Rows
<1>7. rows \in Seq(Seq(Seq(Char)))
    <2> DEFINE T == Rows(Char)
               U == Seq(Seq(Char))
    <2>1. T \subseteq U
        BY DEF Rows
    <2> HIDE DEF T, U
    <2>2. rows \in Seq(T)
        BY <1>5 DEF T
    <2>3. Len(rows) \in Nat /\ rows = [k \in 1..Len(rows) |-> rows[k]] /\ \A k \in 1..Len(rows) : rows[k] \in U
        BY <2>1, <2>2
    <2>4. rows \in Seq(U)
        BY <2>3, ListedFunction
    <2> QED BY <2>4 DEF U
<1> QED BY <1>6, <1>7 DEF IsSheet, rows

-----------------------------------------------------------------------------
(* Lists of lists *)

\* As Joins, of the first N.
JoinsSome(upto, pieces, N) ==
    upto[0] = <<>> /\ \A n \in 1..N : upto[n] = upto[n - 1] \o pieces[n]

\* Two ways to join the same pieces join them to the same text.
LEMMA SameJoin ==
    ASSUME NEW N \in Nat, NEW p, NEW f, NEW g, JoinsSome(f, p, N), JoinsSome(g, p, N)
    PROVE  f[N] = g[N]
<1>0. f[0] = g[0] /\ \A n \in 1..N : f[n] = f[n - 1] \o p[n] /\ g[n] = g[n - 1] \o p[n]
    BY DEF JoinsSome
<1> DEFINE bad == {n \in 0..N : f[n] # g[n]}
<1>1. SUFFICES ASSUME f[N] # g[N] PROVE FALSE
    OBVIOUS
<1>2. PICK n \in bad : \A k \in bad : n <= k
    <2>1. bad \in SUBSET Nat /\ N \in bad
        BY <1>1
    <2> HIDE DEF bad
    <2> QED BY <2>1, LeastExists
<1>3. n \in 1..N /\ f[n] # g[n]
    BY <1>0
<1>4. n - 1 \in 0..N /\ ~ n <= n - 1
    BY <1>3
<1>5. f[n - 1] = g[n - 1]
    BY <1>2, <1>4
<1>6. f[n] = f[n - 1] \o p[n] /\ g[n] = g[n - 1] \o p[n]
    BY <1>0, <1>3
<1> QED BY <1>3, <1>5, <1>6

\* One more piece at the end.
LEMMA FlatteningOneMore ==
    ASSUME NEW X, NEW pieces \in Seq(Seq(X)), NEW piece \in Seq(X)
    PROVE  FlattenSeq(pieces) \in Seq(X) /\ FlattenSeq(Append(pieces, piece)) = FlattenSeq(pieces) \o piece
<1> DEFINE N == Len(pieces)
           more == Append(pieces, piece)
           T == Seq(X)
<1>1. /\ N \in Nat /\ more \in Seq(T) /\ Len(more) = N + 1
      /\ \A n \in 1..N : more[n] = pieces[n]
      /\ more[N + 1] = piece
    <2> HIDE DEF T
    <2>1. pieces \in Seq(T) /\ piece \in T
        BY DEF T
    <2> QED BY <2>1, AppendProperties
<1>2. PICK f \in [0..N -> T] : Joins(f, pieces) /\ FlattenSeq(pieces) = f[N]
    BY FlatteningJoins
<1>3. PICK g \in [0..(N + 1) -> T] : Joins(g, more) /\ FlattenSeq(more) = g[N + 1]
    <2> HIDE DEF more, N
    <2> QED BY <1>1, FlatteningJoins DEF T
<1>4. f[0] = <<>> /\ \A n \in 1..N : f[n] = f[n - 1] \o pieces[n]
    BY <1>2 DEF Joins
<1> HIDE DEF more
<1>5. g[0] = <<>> /\ \A n \in 1..(N + 1) : g[n] = g[n - 1] \o more[n]
    BY <1>1, <1>3 DEF Joins
<1> HIDE DEF N, T
<1>6. ASSUME NEW n \in 1..N PROVE g[n] = g[n - 1] \o pieces[n]
    <2>1. n \in 1..(N + 1) /\ more[n] = pieces[n]
        BY <1>1
    <2>2. g[n] = g[n - 1] \o more[n]
        BY <1>5, <2>1
    <2> QED BY <2>1, <2>2
<1>7. f[N] = g[N]
    <2>1. f[0] = g[0] /\ N \in Nat /\ N \in 0..N
        BY <1>1, <1>4, <1>5
    <2>2. JoinsSome(f, pieces, N)
        BY <1>4 DEF JoinsSome
    <2>3. JoinsSome(g, pieces, N)
        BY <1>5, <1>6 DEF JoinsSome
    <2> QED BY <2>1, <2>2, <2>3, SameJoin
<1>8. g[N + 1] = g[N] \o piece
    <2>1. N + 1 \in 1..(N + 1) /\ (N + 1) - 1 = N
        BY <1>1
    <2> QED BY <1>1, <1>5, <2>1
<1>9. f[N] \in T
    BY <1>1, <1>2
<1> QED BY <1>2, <1>3, <1>7, <1>8, <1>9 DEF more, T

\* Two lists together list what either does.
LEMMA RangeOfBoth ==
    ASSUME NEW X, NEW a \in Seq(X), NEW b \in Seq(X)
    PROVE  /\ a \o b \in Seq(X) /\ Len(a \o b) = Len(a) + Len(b)
           /\ Range(a) \subseteq X /\ Range(a \o b) = Range(a) \cup Range(b)
           /\ Distinct(a) /\ Distinct(b) /\ Range(a) \cap Range(b) = {} => Distinct(a \o b)
<1> DEFINE c == a \o b
           la == Len(a)
           lb == Len(b)
<1>1. /\ la \in Nat /\ lb \in Nat /\ c \in Seq(X) /\ Len(c) = la + lb
      /\ \A n \in 1..la : a[n] \in X
    OBVIOUS
<1>2. DOMAIN a = 1..la /\ DOMAIN b = 1..lb /\ DOMAIN c = 1..(la + lb)
    BY <1>1
<1>3. \A n \in 1..la : c[n] = a[n]
    OBVIOUS
<1>4. \A n \in 1..lb : c[la + n] = b[n]
    OBVIOUS
<1> HIDE DEF c, la, lb
<1>5. Range(a) \subseteq X
    BY <1>1, <1>2 DEF Range
<1>6. ASSUME NEW n \in 1..(la + lb) PROVE n \in 1..la \/ (n - la \in 1..lb /\ c[n] = b[n - la])
    <2>1. CASE n <= la
        BY <1>1, <2>1
    <2>2. CASE ~ n <= la
        <3>1. n - la \in 1..lb /\ la + (n - la) = n
            BY <1>1, <2>2
        <3> QED BY <1>4, <3>1
    <2> QED BY <2>1, <2>2
<1>7. Range(c) = Range(a) \cup Range(b)
    <2>1. ASSUME NEW x \in Range(c) PROVE x \in Range(a) \cup Range(b)
        <3>1. PICK n \in 1..(la + lb) : c[n] = x
            BY <1>2 DEF Range
        <3> QED BY <1>2, <1>3, <1>6, <3>1 DEF Range
    <2>2. ASSUME NEW x \in Range(a) PROVE x \in Range(c)
        <3>1. PICK n \in 1..la : a[n] = x
            BY <1>2 DEF Range
        <3>2. n \in 1..(la + lb)
            BY <1>1
        <3> QED BY <1>2, <1>3, <3>1, <3>2 DEF Range
    <2>3. ASSUME NEW x \in Range(b) PROVE x \in Range(c)
        <3>1. PICK n \in 1..lb : b[n] = x
            BY <1>2 DEF Range
        <3>2. la + n \in 1..(la + lb)
            BY <1>1
        <3> QED BY <1>2, <1>4, <3>1, <3>2 DEF Range
    <2> QED BY <2>1, <2>2, <2>3
<1>8. ASSUME Distinct(a), Distinct(b), Range(a) \cap Range(b) = {} PROVE Distinct(c)
    <2> SUFFICES ASSUME NEW j \in 1..(la + lb), NEW k \in 1..(la + lb), c[j] = c[k] PROVE j = k
        BY <1>1 DEF Distinct
    <2>1. \A n \in 1..la : a[n] \in Range(a)
        BY <1>2 DEF Range
    <2>2. \A n \in 1..lb : b[n] \in Range(b)
        BY <1>2 DEF Range
    <2>3. CASE j \in 1..la /\ k \in 1..la
        BY <1>3, <1>8, <2>3 DEF Distinct, la
    <2>4. CASE j \in 1..la /\ k \notin 1..la
        BY <1>3, <1>6, <1>8, <2>1, <2>2, <2>4
    <2>5. CASE j \notin 1..la /\ k \in 1..la
        BY <1>3, <1>6, <1>8, <2>1, <2>2, <2>5
    <2>6. CASE j \notin 1..la /\ k \notin 1..la
        <3>1. /\ j - la \in 1..lb /\ c[j] = b[j - la]
              /\ k - la \in 1..lb /\ c[k] = b[k - la]
            BY <1>6, <2>6
        <3>2. j - la = k - la
            BY <1>8, <3>1 DEF Distinct, lb
        <3> QED BY <1>1, <3>2
    <2> QED BY <2>3, <2>4, <2>5, <2>6
<1> QED BY <1>1, <1>5, <1>7, <1>8 DEF c, la, lb

\* What is in any of the lists.
AllOf(lists) == UNION {Range(lists[k]) : k \in DOMAIN lists}

\* What is in the first n of them.
Before(lists, n) == UNION {Range(lists[k]) : k \in 1..(n - 1)}

\* One more layer adds its rows, and comes after all the others.
LEMMA AllOfOneMore ==
    ASSUME NEW T, NEW lists \in Seq(T), NEW list \in T
    PROVE  /\ AllOf(Append(lists, list)) = AllOf(lists) \cup Range(list)
           /\ Before(Append(lists, list), Len(lists) + 1) = AllOf(lists)
           /\ \A n \in 1..Len(lists) : Before(Append(lists, list), n) = Before(lists, n)
<1> DEFINE N == Len(lists)
           more == Append(lists, list)
<1>1. /\ N \in Nat /\ more \in Seq(T) /\ Len(more) = N + 1
      /\ \A n \in 1..N : more[n] = lists[n]
      /\ more[N + 1] = list
    BY AppendProperties
<1>2. DOMAIN lists = 1..N /\ DOMAIN more = 1..(N + 1)
    BY <1>1
<1> HIDE DEF more, N
<1>3. 1..(N + 1) = 1..N \cup {N + 1} /\ (N + 1) - 1 = N
    BY <1>1
<1>4. AllOf(more) = AllOf(lists) \cup Range(list)
    BY <1>1, <1>2, <1>3 DEF AllOf
<1>5. Before(more, N + 1) = AllOf(lists)
    BY <1>1, <1>2, <1>3 DEF AllOf, Before
<1>6. ASSUME NEW n \in 1..N PROVE Before(more, n) = Before(lists, n)
    <2>1. 1..(n - 1) \subseteq 1..N
        BY <1>1
    <2> QED BY <1>1, <2>1 DEF Before
<1> QED BY <1>4, <1>5, <1>6 DEF more, N

\* All pieces together have what each of them has.
LEMMA FlatteningKeeps ==
    ASSUME NEW X, NEW pieces \in Seq(Seq(X))
    PROVE  FlattenSeq(pieces) \in Seq(X) /\ Range(FlattenSeq(pieces)) = AllOf(pieces)
<1> DEFINE N == Len(pieces)
           T == Seq(X)
           Some(n) == UNION {Range(pieces[k]) : k \in 1..n}
<1>1. N \in Nat /\ DOMAIN pieces = 1..N /\ \A n \in 1..N : pieces[n] \in T
    OBVIOUS
<1>2. PICK f \in [0..N -> T] : Joins(f, pieces) /\ FlattenSeq(pieces) = f[N]
    BY FlatteningJoins
<1>3. f[0] = <<>> /\ \A n \in 1..N : f[n] = f[n - 1] \o pieces[n]
    BY <1>2 DEF Joins
<1> HIDE DEF N
<1> DEFINE bad == {n \in 0..N : Range(f[n]) # Some(n)}
<1>4. bad = {}
    <2>1. SUFFICES ASSUME bad # {} PROVE FALSE
        OBVIOUS
    <2>2. PICK n \in bad : \A k \in bad : n <= k
        <3>1. bad \in SUBSET Nat
            BY <1>1
        <3> HIDE DEF bad
        <3> QED BY <2>1, <3>1, LeastExists
    <2>3. n \in 0..N /\ Range(f[n]) # Some(n)
        OBVIOUS
    <2>4. n # 0
        <3>1. Range(f[0]) = {}
            BY <1>3 DEF Range
        <3>2. Some(0) = {}
            OBVIOUS
        <3> QED BY <2>3, <3>1, <3>2
    <2>5. n \in 1..N /\ n - 1 \in 0..N /\ ~ n <= n - 1
        BY <1>1, <2>3, <2>4
    <2>6. Range(f[n - 1]) = Some(n - 1)
        BY <2>2, <2>5
    <2>7. f[n - 1] \in T /\ pieces[n] \in T /\ f[n] = f[n - 1] \o pieces[n]
        BY <1>1, <1>2, <1>3, <2>5
    <2>8. Range(f[n]) = Range(f[n - 1]) \cup Range(pieces[n])
        <3> DEFINE a == f[n - 1]
                   b == pieces[n]
        <3>1. a \in Seq(X) /\ b \in Seq(X) /\ f[n] = a \o b
            BY <2>7
        <3> HIDE DEF a, b
        <3>2. Range(a \o b) = Range(a) \cup Range(b)
            BY <3>1, RangeOfBoth
        <3> QED BY <3>1, <3>2 DEF a, b
    <2>9. 1..n = 1..(n - 1) \cup {n}
        BY <1>1, <2>5
    <2>10. Some(n) = Some(n - 1) \cup Range(pieces[n])
        BY <2>9
    <2> QED BY <2>3, <2>6, <2>8, <2>10
<1>5. Range(f[N]) = Some(N) /\ f[N] \in T
    <2>1. N \in 0..N
        BY <1>1
    <2> HIDE DEF Some
    <2> QED BY <1>2, <1>4, <2>1
<1> QED BY <1>1, <1>2, <1>5 DEF AllOf

\* Lists without repetition are as long as what is in them.
LEMMA DistinctAreCounted ==
    ASSUME NEW X, NEW s \in Seq(X), Distinct(s)
    PROVE  IsFiniteSet(Range(s)) /\ Cardinality(Range(s)) = Len(s)
<1> DEFINE S == 1..Len(s)
<1>1. Len(s) \in Nat /\ DOMAIN s = S
    OBVIOUS
<1>2. IsFiniteSet(S) /\ Cardinality(S) = Len(s)
    BY <1>1, FS_Interval
<1>3. Renames(s, S, Range(s))
    BY <1>1 DEF Renames, Distinct, Range
<1> HIDE DEF S
<1> QED BY <1>2, <1>3, RenamedIsFinite

\* Those of s that are in K.
Kept(s, K) == Chosen(s, {k \in DOMAIN s : s[k] \in K})

\* What is kept of a list is what the list and the set share.
LEMMA KeptAre ==
    ASSUME NEW X, NEW s \in Seq(X), NEW K
    PROVE  /\ Kept(s, K) \in Seq(X) /\ Range(Kept(s, K)) = Range(s) \cap K
           /\ Distinct(s) => Distinct(Kept(s, K))
           /\ Kept(s, K) = <<>> <=> Range(s) \cap K = {}
<1> DEFINE P == {k \in DOMAIN s : s[k] \in K}
           t == Kept(s, K)
<1>1. DOMAIN s = 1..Len(s)
    OBVIOUS
<1>2. P \in SUBSET (1..Len(s))
    BY <1>1
<1>3. {s[k] : k \in P} = Range(s) \cap K
    BY DEF Range
<1>4. t = Chosen(s, P)
    BY DEF Kept
<1> HIDE DEF P, t
<1>5. /\ t \in Seq(X) /\ Range(t) = Range(s) \cap K /\ (Distinct(s) => Distinct(t))
    BY <1>2, <1>3, <1>4, ChosenAre
<1>6. t = <<>> <=> Range(t) = {}
    <2>1. DOMAIN t = 1..Len(t) /\ Len(t) \in Nat
        BY <1>5
    <2>2. ASSUME t # <<>> PROVE t[1] \in Range(t)
        <3>1. Len(t) # 0
            BY <1>5, <2>2
        <3>2. 1 \in DOMAIN t
            BY <2>1, <3>1
        <3> QED BY <3>2 DEF Range
    <2>3. ASSUME t = <<>> PROVE Range(t) = {}
        <3>1. DOMAIN t = {}
            BY <2>3
        <3> QED BY <3>1 DEF Range
    <2> QED BY <2>2, <2>3
<1> QED BY <1>5, <1>6 DEF t

-----------------------------------------------------------------------------
(* Managers first *)

AddressesOf(people) == {x.email : x \in people}

\* Whom somebody in the file may report to, if what is placed is the only thing known of it.
MayManage(people, existing) == existing \cup AddressesOf(people) \cup {<<>>}

ReadyIn(s, existing) ==
    Where(s.pending, LAMBDA x : x.manager \in MayManage(AllOf(s.layers), existing))

Without(s, ready) == Where(s.pending, LAMBDA x : x \notin Range(ready))

\* One round of orderByManager.
PlaceReady(s, existing) ==
    LET ready == ReadyIn(s, existing)
    IN  IF ready = <<>> THEN s
        ELSE [layers |-> Append(s.layers, ready), pending |-> Without(s, ready)]

Known(rows, existing) == existing \cup {rows[k].email : k \in DOMAIN rows} \cup {<<>>}

ToPlace(rows, existing) ==
    [layers |-> <<>>, pending |-> Where(rows, LAMBDA x : x.manager \in Known(rows, existing))]

Nowhere(rows, existing) == Where(rows, LAMBDA x : x.manager \notin Known(rows, existing))

Placing(X) == [layers : Seq(Seq(X)), pending : Seq(X)]

\* Ready are the rows whose manager is placed, or was there, or is nobody.
LEMMA ReadyAre ==
    ASSUME NEW X, NEW s \in Placing(X), NEW existing
    PROVE  LET ready == ReadyIn(s, existing)
           IN  /\ ready \in Seq(X)
               /\ Range(ready) =
                     {x \in Range(s.pending) : x.manager \in MayManage(AllOf(s.layers), existing)}
               /\ Distinct(s.pending) => Distinct(ready)
               /\ ready = <<>> <=> Range(ready) = {}
<1> DEFINE M == MayManage(AllOf(s.layers), existing)
           K == {x \in Range(s.pending) : x.manager \in M}
           pending == s.pending
           ready == ReadyIn(s, existing)
<1>1. pending \in Seq(X)
    BY DEF Placing
<1>2. {k \in DOMAIN pending : pending[k].manager \in M} = {k \in DOMAIN pending : pending[k] \in K}
    BY DEF Range
<1>3. ready = Kept(pending, K)
    BY <1>2 DEF ReadyIn, Where, Kept
<1>4. Range(pending) \cap K = K
    OBVIOUS
<1> HIDE DEF K, pending, ready
<1>5. /\ ready \in Seq(X) /\ Range(ready) = K /\ (Distinct(pending) => Distinct(ready))
      /\ ready = <<>> <=> K = {}
    BY <1>1, <1>3, <1>4, KeptAre
<1> QED BY <1>5 DEF K, pending, ready

\* The others wait.
LEMMA OthersAre ==
    ASSUME NEW X, NEW s \in Placing(X), NEW ready
    PROVE  /\ Without(s, ready) \in Seq(X) /\ Range(Without(s, ready)) = Range(s.pending) \ Range(ready)
           /\ Distinct(s.pending) => Distinct(Without(s, ready))
<1> DEFINE pending == s.pending
           K == Range(pending) \ Range(ready)
           rest == Without(s, ready)
<1>1. {k \in DOMAIN pending : pending[k] \notin Range(ready)} = {k \in DOMAIN pending : pending[k] \in K}
    BY DEF Range
<1>2. rest = Kept(pending, K)
    BY <1>1 DEF Without, Where, Kept
<1>3. Range(pending) \cap K = K /\ pending \in Seq(X)
    BY DEF Placing
<1> HIDE DEF K, rest, pending
<1>4. rest \in Seq(X) /\ Range(rest) = K /\ (Distinct(pending) => Distinct(rest))
    BY <1>2, <1>3, KeptAre
<1> QED BY <1>4 DEF K, rest, pending

\* Who is known is who is there or in the file.
LEMMA KnownAre ==
    ASSUME NEW rows, NEW existing
    PROVE  Known(rows, existing) = MayManage(Range(rows), existing)
BY DEF Known, MayManage, AddressesOf, Range

\* A round keeps the type of the rounds.
LEMMA RoundIsPlacing ==
    ASSUME NEW X, NEW s \in Placing(X), NEW existing
    PROVE  PlaceReady(s, existing) \in Placing(X)
<1> DEFINE ready == ReadyIn(s, existing)
           rest == Without(s, ready)
           layers == Append(s.layers, ready)
           T == Seq(X)
<1>1. s.pending \in Seq(X) /\ s.layers \in Seq(T)
    BY DEF Placing
<1>2. ready \in T
    BY ReadyAre
<1>3. rest \in T
    BY OthersAre
<1>4. PlaceReady(s, existing) = IF ready = <<>> THEN s ELSE [layers |-> layers, pending |-> rest]
    BY DEF PlaceReady
<1> HIDE DEF ready, rest, T
<1>5. layers \in Seq(T)
    BY <1>1, <1>2
<1> HIDE DEF layers
<1>6. [layers |-> layers, pending |-> rest] \in Placing(X)
    BY <1>3, <1>5 DEF Placing, T
<1> QED BY <1>4, <1>6

\* The rounds begin with the rows whose manager is somewhere.
LEMMA ToPlaceAre ==
    ASSUME NEW X, NEW rows \in Seq(X), NEW existing
    PROVE  LET s == ToPlace(rows, existing)
           IN  /\ s \in Placing(X) /\ s.layers = <<>>
               /\ Range(s.pending) = {x \in Range(rows) : x.manager \in Known(rows, existing)}
               /\ Distinct(rows) => Distinct(s.pending)
<1> DEFINE M == Known(rows, existing)
           K == {x \in Range(rows) : x.manager \in M}
           s == ToPlace(rows, existing)
<1>1. {k \in DOMAIN rows : rows[k].manager \in M} = {k \in DOMAIN rows : rows[k] \in K}
    BY DEF Range
<1>2. s = [layers |-> <<>>, pending |-> Kept(rows, K)]
    BY <1>1 DEF ToPlace, Where, Kept
<1>3. Range(rows) \cap K = K
    OBVIOUS
<1> HIDE DEF K, s
<1> DEFINE kept == Kept(rows, K)
<1>4. kept \in Seq(X) /\ Range(kept) = K /\ (Distinct(rows) => Distinct(kept))
    BY <1>3, KeptAre
<1> HIDE DEF kept
<1>5. s.layers = <<>> /\ s.pending = kept
    BY <1>2 DEF kept
<1>6. s \in Placing(X)
    <2>1. <<>> \in Seq(Seq(X))
        OBVIOUS
    <2> QED BY <1>2, <1>4, <2>1 DEF Placing, kept
<1> QED BY <1>4, <1>5, <1>6 DEF K, s

\* orderByManager goes on round by round, often enough.
LEMMA OrderIsRounds ==
    ASSUME NEW X, NEW rows \in Seq(X), NEW existing
    PROVE  \E f : /\ f[0] = ToPlace(rows, existing)
                  /\ \A n \in 1..Len(rows) : f[n] = PlaceReady(f[n - 1], existing)
                  /\ OrderByManager(rows, existing) =
                        [layers         |-> f[Len(rows)].layers,
                         missingManager |-> Nowhere(rows, existing),
                         cyclic         |-> f[Len(rows)].pending]
<1> DEFINE N == Len(rows)
           start == ToPlace(rows, existing)
           Again(f) == [n \in 0..N |-> IF n = 0 THEN start ELSE PlaceReady(f[n - 1], existing)]
           after == CHOOSE f : f = Again(f)
           missing == Nowhere(rows, existing)
           A == Placing(X)
           F == [s \in A |-> PlaceReady(s, existing)]
<1>1. N \in Nat
    OBVIOUS
<1>2. OrderByManager(rows, existing) =
          [layers |-> after[N].layers, missingManager |-> missing, cyclic |-> after[N].pending]
    BY DEF OrderByManager, ToPlace, PlaceReady, ReadyIn, Without, Nowhere, Known, Where, MayManage,
           AddressesOf, AllOf
<1>3. F \in [A -> A]
    BY RoundIsPlacing
<1>4. start \in A
    BY ToPlaceAre
<1> HIDE DEF N, start, F, A
<1>5. PICK g : Rounds(g, N, A, start, F)
    BY <1>1, <1>3, <1>4, RoundsExist
<1>6. g \in [0..N -> A] /\ g[0] = start /\ \A n \in 1..N : g[n] = F[g[n - 1]]
    BY <1>5 DEF Rounds
<1>7. g = Again(g)
    <2>1. \A n \in 0..N : g[n] = IF n = 0 THEN start ELSE PlaceReady(g[n - 1], existing)
        <3> TAKE n \in 0..N
        <3>1. CASE n = 0
            BY <1>6, <3>1
        <3>2. CASE n # 0
            <4>1. n \in 1..N /\ n - 1 \in 0..N
                BY <1>1, <3>2
            <4>2. g[n] = F[g[n - 1]] /\ g[n - 1] \in A
                BY <1>6, <4>1
            <4> QED BY <3>2, <4>2 DEF F
        <3> QED BY <3>1, <3>2
    <2>2. g = [n \in 0..N |-> g[n]]
        BY <1>6
    <2> QED BY <2>1, <2>2
<1>8. after = Again(after)
    <2> HIDE DEF Again
    <2> QED BY <1>7
<1> HIDE DEF after
<1>9. after[0] = start
    <2>1. 0 \in 0..N
        BY <1>1
    <2>2. Again(after)[0] = start
        BY <2>1
    <2> QED BY <1>8, <2>2
<1>10. \A n \in 1..N : after[n] = PlaceReady(after[n - 1], existing)
    <2> TAKE n \in 1..N
    <2>1. n \in 0..N /\ n # 0
        BY <1>1
    <2>2. Again(after)[n] = PlaceReady(after[n - 1], existing)
        BY <2>1
    <2> QED BY <1>8, <2>2
<1> QED BY <1>2, <1>9, <1>10 DEF N, start

\* In each layer are people who were not placed before and whose managers were.
LayersOK(layers, existing) ==
    \A k \in DOMAIN layers : \A x \in Range(layers[k]) :
        x.manager \in MayManage(Before(layers, k), existing) /\ x \notin Before(layers, k)

\* Of "people", those in the layers and those pending are different ones, and everybody is.
WhilePlacing(s, X, people, existing) ==
    /\ s \in Placing(X)
    /\ Distinct(FlattenSeq(s.layers)) /\ Distinct(s.pending)
    /\ AllOf(s.layers) \cap Range(s.pending) = {}
    /\ AllOf(s.layers) \cup Range(s.pending) = people
    /\ LayersOK(s.layers, existing)

\* Somebody is placed, unless nobody can be.
Advances(s, next, existing) ==
    \/ ReadyIn(s, existing) = <<>> /\ next = s
    \/ Len(next.pending) < Len(s.pending)

\* A round keeps what WhilePlacing says, and ends the rounds or places somebody.
LEMMA PlacingKeepsOrder ==
    ASSUME NEW X, NEW s, NEW people, NEW existing, WhilePlacing(s, X, people, existing),
           NEW next, next = PlaceReady(s, existing)
    PROVE  WhilePlacing(next, X, people, existing) /\ Advances(s, next, existing)
<1> DEFINE ready == ReadyIn(s, existing)
           rest == Without(s, ready)
           layers == Append(s.layers, ready)
           t == [layers |-> layers, pending |-> rest]
           T == Seq(X)
           N == Len(s.layers)
<1>1. /\ s \in Placing(X) /\ s.layers \in Seq(T) /\ s.pending \in Seq(X)
      /\ Distinct(FlattenSeq(s.layers)) /\ Distinct(s.pending)
      /\ AllOf(s.layers) \cap Range(s.pending) = {}
      /\ AllOf(s.layers) \cup Range(s.pending) = people
      /\ LayersOK(s.layers, existing)
    BY DEF WhilePlacing, Placing
<1>2. next = IF ready = <<>> THEN s ELSE t
    BY DEF PlaceReady
<1>3. CASE ready = <<>>
    <2>1. next = s
        BY <1>2, <1>3
    <2> QED BY <1>3, <2>1 DEF Advances
<1>4. CASE ready # <<>>
    <2>1. /\ ready \in Seq(X) /\ Distinct(ready) /\ Range(ready) # {}
          /\ Range(ready) = {x \in Range(s.pending) : x.manager \in MayManage(AllOf(s.layers), existing)}
        <3> HIDE DEF ready
        <3>1. Range(ready) # {}
            BY <1>1, <1>4, ReadyAre DEF ready
        <3> QED BY <1>1, <3>1, ReadyAre DEF ready
    <2> HIDE DEF ready
    <2>2. rest \in Seq(X) /\ Range(rest) = Range(s.pending) \ Range(ready) /\ Distinct(rest)
        BY <1>1, OthersAre
    <2> HIDE DEF rest
    <2>3. /\ N \in Nat /\ layers \in Seq(T) /\ Len(layers) = N + 1
          /\ \A k \in 1..N : layers[k] = s.layers[k]
          /\ layers[N + 1] = ready
        <3>1. ready \in T
            BY <2>1
        <3> HIDE DEF T
        <3> QED BY <1>1, <3>1, AppendProperties
    <2>4. /\ AllOf(layers) = AllOf(s.layers) \cup Range(ready)
          /\ Before(layers, N + 1) = AllOf(s.layers)
          /\ \A k \in 1..N : Before(layers, k) = Before(s.layers, k)
        <3>1. ready \in T
            BY <2>1
        <3> HIDE DEF T
        <3> QED BY <1>1, <3>1, AllOfOneMore
    <2>5. Distinct(FlattenSeq(layers))
        <3> DEFINE flat == FlattenSeq(s.layers)
        <3>1. FlattenSeq(layers) = flat \o ready /\ flat \in Seq(X) /\ Range(flat) = AllOf(s.layers)
            BY <1>1, <2>1, FlatteningOneMore, FlatteningKeeps
        <3>2. Distinct(flat) /\ Distinct(ready) /\ Range(flat) \cap Range(ready) = {}
            BY <1>1, <2>1, <3>1
        <3> HIDE DEF flat
        <3>3. Distinct(flat \o ready)
            BY <2>1, <3>1, <3>2, RangeOfBoth
        <3> QED BY <3>1, <3>3
    <2> HIDE DEF layers, N
    <2>6. LayersOK(layers, existing)
        <3> SUFFICES ASSUME NEW k \in 1..(N + 1), NEW x \in Range(layers[k])
                     PROVE  /\ x.manager \in MayManage(Before(layers, k), existing)
                            /\ x \notin Before(layers, k)
            BY <2>3 DEF LayersOK
        <3>1. CASE k = N + 1
            BY <1>1, <2>1, <2>3, <2>4, <3>1
        <3>2. CASE k # N + 1
            <4>1. k \in 1..N
                BY <2>3, <3>2
            <4>2. k \in DOMAIN s.layers /\ layers[k] = s.layers[k] /\ Before(layers, k) = Before(s.layers, k)
                BY <1>1, <2>3, <2>4, <4>1 DEF N
            <4> QED BY <1>1, <4>2 DEF LayersOK
        <3> QED BY <3>1, <3>2
    <2>7. t \in Placing(X) /\ t.layers = layers /\ t.pending = rest
        BY <2>2, <2>3 DEF Placing, T
    <2> HIDE DEF t
    <2>8. WhilePlacing(t, X, people, existing)
        BY <1>1, <2>1, <2>2, <2>4, <2>5, <2>6, <2>7 DEF WhilePlacing
    <2>9. Len(rest) < Len(s.pending)
        <3> DEFINE P == Range(s.pending)
                   Q == Range(rest)
        <3>1. IsFiniteSet(P) /\ Cardinality(P) = Len(s.pending)
            BY <1>1, DistinctAreCounted
        <3>2. Cardinality(Q) = Len(rest)
            BY <2>2, DistinctAreCounted
        <3>3. Q \in SUBSET P /\ Q # P
            BY <2>1, <2>2
        <3> HIDE DEF P, Q
        <3>4. Cardinality(Q) <= Cardinality(P) /\ Cardinality(P) # Cardinality(Q)
            BY <3>1, <3>3, FS_Subset
        <3>5. Len(rest) \in Nat /\ Len(s.pending) \in Nat
            BY <1>1, <2>2
        <3> QED BY <3>1, <3>2, <3>4, <3>5
    <2> QED BY <1>2, <1>4, <2>7, <2>8, <2>9 DEF Advances
<1> QED BY <1>3, <1>4

\* The order it makes: who is placed is below managers in place, and nobody who has one is
\* left over.
IsOrder(order, X, rows, existing) ==
    LET placed == AllOf(order.layers)
    IN  /\ order.layers \in Seq(Seq(X)) /\ order.missingManager \in Seq(X) /\ order.cyclic \in Seq(X)
        /\ placed \cup Range(order.missingManager) \cup Range(order.cyclic) = Range(rows)
        /\ placed \cap (Range(order.missingManager) \cup Range(order.cyclic)) = {}
        /\ IsFiniteSet(placed) /\ Len(FlattenSeq(order.layers)) = Cardinality(placed)
        /\ LayersOK(order.layers, existing)
        /\ \A x \in Range(order.cyclic) : x.manager \notin MayManage(placed, existing)
        /\ \A x \in Range(order.missingManager) : x.manager \notin MayManage(Range(rows), existing)

\* Rows whose manager is neither there nor in the file.
LEMMA NowhereAre ==
    ASSUME NEW X, NEW rows \in Seq(X), NEW existing
    PROVE  /\ Nowhere(rows, existing) \in Seq(X)
           /\ Range(Nowhere(rows, existing)) = {x \in Range(rows) : x.manager \notin Known(rows, existing)}
<1> DEFINE M == Known(rows, existing)
           K == {x \in Range(rows) : x.manager \notin M}
<1>1. {k \in DOMAIN rows : rows[k].manager \notin M} = {k \in DOMAIN rows : rows[k] \in K}
    BY DEF Range
<1>2. Nowhere(rows, existing) = Kept(rows, K)
    BY <1>1 DEF Nowhere, Where, Kept
<1>3. Range(rows) \cap K = K
    OBVIOUS
<1> HIDE DEF K
<1>4. Kept(rows, K) \in Seq(X) /\ Range(Kept(rows, K)) = K
    BY <1>3, KeptAre
<1> QED BY <1>2, <1>4 DEF K

\* Every row is in a layer after its manager's, or its manager is missing, or its
\* managers go round in a circle.
LEMMA OrderIsWhole ==
    ASSUME NEW X, NEW rows \in Seq(X), Distinct(rows), NEW existing
    PROVE  IsOrder(OrderByManager(rows, existing), X, rows, existing)
<1> DEFINE N == Len(rows)
           people == {x \in Range(rows) : x.manager \in Known(rows, existing)}
           start == ToPlace(rows, existing)
           order == OrderByManager(rows, existing)
           missing == Nowhere(rows, existing)
<1>1. N \in Nat
    OBVIOUS
<1>2. PICK f : /\ f[0] = start
               /\ \A n \in 1..N : f[n] = PlaceReady(f[n - 1], existing)
               /\ order = [layers |-> f[N].layers, missingManager |-> missing, cyclic |-> f[N].pending]
    BY OrderIsRounds
<1> HIDE DEF order
<1>3. WhilePlacing(start, X, people, existing) /\ Len(start.pending) <= N
    <2>1. /\ start \in Placing(X) /\ start.layers = <<>> /\ Range(start.pending) = people
          /\ Distinct(start.pending)
        BY ToPlaceAre
    <2> HIDE DEF start, people, N
    <2>2. AllOf(start.layers) = {} /\ LayersOK(start.layers, existing)
        BY <2>1 DEF AllOf, LayersOK
    <2>3. Distinct(FlattenSeq(start.layers))
        <3>1. FlattenSeq(<<>>) = <<>>
            BY DEF FlattenSeq
        <3>2. FlattenSeq(start.layers) = <<>>
            BY <2>1, <3>1
        <3> QED BY <3>2 DEF Distinct
    <2>4. WhilePlacing(start, X, people, existing)
        BY <2>1, <2>2, <2>3 DEF WhilePlacing
    <2>5. Len(start.pending) <= N
        <3> DEFINE P == Range(rows)
        <3>1. IsFiniteSet(P) /\ Cardinality(P) = N
            BY DistinctAreCounted DEF N
        <3>2. start.pending \in Seq(X)
            BY <2>1 DEF Placing
        <3>3. Cardinality(people) = Len(start.pending)
            BY <2>1, <3>2, DistinctAreCounted
        <3>4. people \in SUBSET P
            BY DEF people
        <3> HIDE DEF P
        <3> QED BY <3>1, <3>3, <3>4, FS_Subset
    <2> QED BY <2>4, <2>5
<1> HIDE DEF start, people, missing, N
<1> DEFINE OK(n) == /\ WhilePlacing(f[n], X, people, existing)
                    /\ ReadyIn(f[n], existing) = <<>> \/ Len(f[n].pending) + n <= N
           bad == {n \in 0..N : ~OK(n)}
<1>4. bad = {}
    <2>1. SUFFICES ASSUME bad # {} PROVE FALSE
        OBVIOUS
    <2>2. PICK n \in bad : \A k \in bad : n <= k
        <3>1. bad \in SUBSET Nat
            BY <1>1
        <3> HIDE DEF bad
        <3> QED BY <2>1, <3>1, LeastExists
    <2>3. n \in 0..N /\ ~OK(n)
        OBVIOUS
    <2>4. OK(0)
        <3>1. start.pending \in Seq(X)
            BY <1>3 DEF WhilePlacing, Placing
        <3>2. Len(start.pending) + 0 <= N
            BY <1>1, <1>3, <3>1
        <3> QED BY <1>2, <1>3, <3>2
    <2>5. n \in 1..N /\ n - 1 \in 0..N /\ ~ n <= n - 1
        BY <1>1, <2>3, <2>4
    <2>6. OK(n - 1)
        BY <2>2, <2>5
    <2> DEFINE s == f[n - 1]
               t == f[n]
    <2>7. t = PlaceReady(s, existing) /\ WhilePlacing(s, X, people, existing)
        BY <1>2, <2>5, <2>6
    <2>8. ReadyIn(s, existing) = <<>> \/ Len(s.pending) + (n - 1) <= N
        BY <2>6
    <2> HIDE DEF s, t
    <2>9. WhilePlacing(t, X, people, existing) /\ Advances(s, t, existing)
        BY <2>7, PlacingKeepsOrder
    <2>10. Len(s.pending) \in Nat /\ Len(t.pending) \in Nat
        BY <2>7, <2>9 DEF WhilePlacing, Placing
    <2>11. ReadyIn(t, existing) = <<>> \/ Len(t.pending) + n <= N
        <3>1. CASE ReadyIn(s, existing) = <<>>
            <4>1. t = s
                BY <2>7, <3>1 DEF PlaceReady
            <4> QED BY <3>1, <4>1
        <3>2. CASE ReadyIn(s, existing) # <<>>
            BY <1>1, <2>5, <2>8, <2>9, <2>10, <3>2 DEF Advances
        <3> QED BY <3>1, <3>2
    <2> QED BY <2>3, <2>9, <2>11 DEF s, t
<1> DEFINE end == f[N]
<1>5. WhilePlacing(end, X, people, existing) /\ (ReadyIn(end, existing) = <<>> \/ Len(end.pending) + N <= N)
    <2>1. N \in 0..N
        BY <1>1
    <2> QED BY <1>4, <2>1
<1>6. order.layers = end.layers /\ order.missingManager = missing /\ order.cyclic = end.pending
    BY <1>2
<1> HIDE DEF end
<1>7. /\ end \in Placing(X) /\ end.layers \in Seq(Seq(X)) /\ end.pending \in Seq(X)
      /\ Distinct(FlattenSeq(end.layers)) /\ AllOf(end.layers) \cap Range(end.pending) = {}
      /\ AllOf(end.layers) \cup Range(end.pending) = people /\ LayersOK(end.layers, existing)
    BY <1>5 DEF WhilePlacing, Placing
<1>8. missing \in Seq(X) /\ Range(missing) = {x \in Range(rows) : x.manager \notin Known(rows, existing)}
    BY NowhereAre DEF missing
<1>9. ASSUME NEW x \in Range(end.pending)
      PROVE  x.manager \notin MayManage(AllOf(end.layers), existing)
    <2>1. CASE ReadyIn(end, existing) = <<>>
        <3> DEFINE ready == ReadyIn(end, existing)
        <3>1. /\ ready = <<>> <=> Range(ready) = {}
              /\ Range(ready) =
                     {y \in Range(end.pending) : y.manager \in MayManage(AllOf(end.layers), existing)}
            BY <1>7, ReadyAre
        <3> HIDE DEF ready
        <3> QED BY <2>1, <3>1 DEF ready
    <2>2. CASE Len(end.pending) + N <= N
        <3>1. Len(end.pending) = 0
            BY <1>1, <1>7, <2>2
        <3>2. DOMAIN end.pending = {}
            BY <1>7, <3>1
        <3> QED BY <3>2 DEF Range
    <2> QED BY <1>5, <2>1, <2>2
<1>10. \A x \in Range(missing) : x.manager \notin MayManage(Range(rows), existing)
    BY <1>8, KnownAre
<1>11. /\ IsFiniteSet(AllOf(end.layers))
       /\ Len(FlattenSeq(end.layers)) = Cardinality(AllOf(end.layers))
    <2>1. FlattenSeq(end.layers) \in Seq(X) /\ Range(FlattenSeq(end.layers)) = AllOf(end.layers)
        BY <1>7, FlatteningKeeps
    <2> QED BY <1>7, <2>1, DistinctAreCounted
<1>12. people = {x \in Range(rows) : x.manager \in Known(rows, existing)}
    BY DEF people
<1>13. /\ AllOf(end.layers) \cup Range(missing) \cup Range(end.pending) = Range(rows)
       /\ AllOf(end.layers) \cap (Range(missing) \cup Range(end.pending)) = {}
    BY <1>7, <1>8, <1>12
<1> QED BY <1>6, <1>7, <1>8, <1>9, <1>10, <1>11, <1>13 DEF IsOrder, order

-----------------------------------------------------------------------------
(* Rows and what is wrong with them *)

CheckNames ==
    {"fullName", "email", "country", "department", "jobLevel", "jobTitle", "hireDate", "status",
     "leftOn", "salary", "salaryCurrency", "salaryEffectiveFrom", "salaryAmount", "managerEmail"}

\* What is wrong with a row names columns.
LEMMA ColumnsAreListed ==
    ASSUME NEW f
    PROVE  ProblemColumns(f) \in Seq(CheckNames)
<1> DEFINE list == CheckedColumns
           wrong == Wrong(f)
           P == {k \in DOMAIN list : wrong[list[k]]}
<1>1. list \in Seq(CheckNames)
    <2>1. list = [k \in 1..14 |-> list[k]]
        BY DEF CheckedColumns
    <2>2. \A k \in 1..14 : list[k] \in CheckNames
        <3>1. \A k \in 1..7 : CheckedColumns[k] \in CheckNames
            BY DEF CheckedColumns, CheckNames
        <3>2. \A k \in 8..14 : CheckedColumns[k] \in CheckNames
            BY DEF CheckedColumns, CheckNames
        <3> QED BY <3>1, <3>2
    <2> HIDE DEF list
    <2> QED BY <2>1, <2>2
<1>2. ProblemColumns(f) = Chosen(list, P)
    BY DEF ProblemColumns, Where
<1> HIDE DEF list, wrong
<1>3. P \in SUBSET (1..Len(list))
    BY <1>1
<1> DEFINE Y == CheckNames
<1> HIDE DEF P, Y
<1>4. list \in Seq(Y)
    BY <1>1 DEF Y
<1>5. Chosen(list, P) \in Seq(Y)
    BY <1>3, <1>4, ChosenAre
<1> QED BY <1>2, <1>5 DEF Y

\* Of the good rows no two have one address.
AddressesDiffer(fields, found) ==
    \A j, k \in DOMAIN fields :
        (found[j] = <<>> /\ found[k] = <<>> /\ Lower(fields[j]["email"]) = Lower(fields[k]["email"]))
            => j = k

\* After the search for repeats no two rows without a problem share an address.
LEMMA RepeatsAreFound ==
    ASSUME NEW L \in Nat, NEW fields, DOMAIN fields = 2..L, NEW Y, "email" \in Y,
           NEW columns, \A line \in 2..L : columns[line] \in Seq(Y)
    PROVE  /\ \A line \in 2..L : WithoutRepeats(fields, columns)[line] \in Seq(Y)
           /\ AddressesDiffer(fields, WithoutRepeats(fields, columns))
<1> DEFINE email(line) == Lower(fields[line]["email"])
           again(line) == \E n \in 2..(line - 1) : columns[n] = <<>> /\ email(n) = email(line)
           found == WithoutRepeats(fields, columns)
<1>1. \A line \in 2..L :
          found[line] = IF columns[line] = <<>> /\ again(line) THEN <<"email">> ELSE columns[line]
    BY DEF WithoutRepeats
<1> HIDE DEF found
<1>2. <<"email">> \in Seq(Y) /\ <<"email">> # <<>>
    OBVIOUS
<1>3. \A line \in 2..L : found[line] \in Seq(Y)
    BY <1>1, <1>2
<1>4. \A line \in 2..L : found[line] = <<>> => columns[line] = <<>> /\ ~again(line)
    BY <1>1, <1>2
<1>5. ASSUME NEW j \in 2..L, NEW k \in 2..L, found[j] = <<>>, found[k] = <<>>, email(j) = email(k)
      PROVE  j = k
    <2>1. columns[j] = <<>> /\ columns[k] = <<>> /\ ~again(j) /\ ~again(k)
        BY <1>4, <1>5
    <2>2. ~ j < k
        <3>1. ASSUME j < k PROVE FALSE
            <4>1. j \in 2..(k - 1)
                BY <3>1
            <4> QED BY <1>5, <2>1, <4>1
        <3> QED BY <3>1
    <2>3. ~ k < j
        <3>1. ASSUME k < j PROVE FALSE
            <4>1. k \in 2..(j - 1)
                BY <3>1
            <4> QED BY <1>5, <2>1, <4>1
        <3> QED BY <3>1
    <2> QED BY <2>2, <2>3
<1>6. AddressesDiffer(fields, found)
    BY <1>5 DEF AddressesDiffer
<1> QED BY <1>3, <1>6 DEF found

RowsOf(S) == {x.row : x \in S}

\* What reading says of a file of L lines: each line under the first is a person, none of
\* them twice and no two of one address, or it is complained about.
IsReading(parsed, L, Y) ==
    /\ parsed.rows \in Seq(Range(parsed.rows)) /\ Distinct(parsed.rows)
    /\ \A x, y \in Range(parsed.rows) : x.row = y.row \/ x.email = y.email => x = y
    /\ parsed.problems \in Seq([row : 2..L, column : Y])
    /\ RowsOf(Range(parsed.rows)) \cap RowsOf(Range(parsed.problems)) = {}
    /\ RowsOf(Range(parsed.rows)) \cup RowsOf(Range(parsed.problems)) = 2..L
    /\ parsed.totalRows = L - 1

\* A draft knows its row and its address in lower case.
LEMMA DraftFields ==
    ASSUME NEW row, NEW f
    PROVE  Draft(row, f).row = row /\ Draft(row, f).email = Lower(f["email"])
BY DEF Draft

\* The lines below the header, each of them once.
LEMMA LinesAreNumbered ==
    ASSUME NEW L \in Nat \ {0}, NEW lines, lines = [k \in 1..Cardinality(2..L) |-> k + 1]
    PROVE  lines \in Seq(2..L) /\ Len(lines) = L - 1 /\ Distinct(lines) /\ Range(lines) = 2..L
<1>1. Cardinality(2..L) = L - 1
    <2>1. Cardinality(2..L) = IF 2 > L THEN 0 ELSE L - 2 + 1
        BY FS_Interval
    <2> QED BY <2>1
<1> DEFINE N == L - 1
           T == 2..L
<1>2. lines = [k \in 1..N |-> k + 1] /\ N \in Nat
    BY <1>1
<1>3. \A k \in 1..N : k + 1 \in T
    OBVIOUS
<1>4. \A x \in T : x - 1 \in 1..N /\ (x - 1) + 1 = x
    OBVIOUS
<1> HIDE DEF N, T
<1>5. DOMAIN lines = 1..N /\ \A k \in 1..N : lines[k] = k + 1
    BY <1>2
<1>6. lines \in Seq(T) /\ Len(lines) = N
    <2>1. lines = [k \in 1..N |-> lines[k]]
        BY <1>2
    <2>2. \A k \in 1..N : lines[k] \in T
        BY <1>3, <1>5
    <2> QED BY <1>2, <2>1, <2>2, ListedFunction
<1>7. Distinct(lines)
    <2> SUFFICES ASSUME NEW j \in 1..N, NEW k \in 1..N, lines[j] = lines[k] PROVE j = k
        BY <1>6 DEF Distinct
    <2>1. j + 1 = k + 1 /\ j \in Nat /\ k \in Nat
        BY <1>2, <1>5
    <2> QED BY <2>1
<1>8. Range(lines) = T
    <2>1. \A x \in T : x \in Range(lines)
        BY <1>4, <1>5 DEF Range
    <2>2. \A x \in Range(lines) : x \in T
        BY <1>3, <1>5 DEF Range
    <2> QED BY <2>1, <2>2
<1> QED BY <1>6, <1>7, <1>8 DEF N, T

\* Every line below the header is a row or has a problem, and none is both.
LEMMA ReadingIsWhole ==
    ASSUME NEW L \in Nat \ {0}, NEW fields, DOMAIN fields = 2..L,
           NEW Y, NEW found, \A line \in 2..L : found[line] \in Seq(Y), AddressesDiffer(fields, found)
    PROVE  IsReading(Reading(fields, found), L, Y)
<1> DEFINE lines == [k \in 1..Cardinality(DOMAIN fields) |-> k + 1]
           P == {k \in DOMAIN lines : found[lines[k]] = <<>>}
           good == Chosen(lines, P)
           rows == [k \in DOMAIN good |-> Draft(good[k], fields[good[k]])]
           About1(k) == [n \in DOMAIN found[lines[k]] |-> Problem(lines[k], found[lines[k]][n])]
           pieces == [k \in DOMAIN lines |-> About1(k)]
           problems == FlattenSeq(pieces)
           Good == {line \in 2..L : found[line] = <<>>}
           X == [row : 2..L, column : Y]
<1>1. lines \in Seq(2..L) /\ Len(lines) = L - 1 /\ Distinct(lines) /\ Range(lines) = 2..L
    BY LinesAreNumbered
<1>2. Reading(fields, found) = [rows |-> rows, problems |-> problems, totalRows |-> Len(lines)]
    BY DEF Reading, Where
<1> HIDE DEF lines
<1>3. DOMAIN lines = 1..(L - 1) /\ L - 1 \in Nat /\ \A k \in 1..(L - 1) : lines[k] \in 2..L
    BY <1>1
<1>4. good \in Seq(2..L) /\ Range(good) = Good /\ Distinct(good)
    <2>1. P \in SUBSET (1..Len(lines))
        BY <1>1, <1>3
    <2>2. {lines[k] : k \in P} = Good
        BY <1>1, <1>3 DEF Range
    <2> DEFINE T == 2..L
    <2>3. lines \in Seq(T) /\ Distinct(lines)
        BY <1>1
    <2> HIDE DEF P, Good, T
    <2>4. good \in Seq(T) /\ Range(good) = Good /\ Distinct(good)
        BY <2>1, <2>2, <2>3, ChosenAre
    <2> QED BY <2>4 DEF T
<1> HIDE DEF good
<1> DEFINE G == Len(good)
<1>5. G \in Nat /\ DOMAIN good = 1..G /\ \A k \in 1..G : good[k] \in Good
    BY <1>4 DEF Range
<1>6. \A k \in 1..G : rows[k].row = good[k] /\ rows[k].email = Lower(fields[good[k]]["email"])
    <2> SUFFICES ASSUME NEW k \in 1..G
                 PROVE  rows[k].row = good[k] /\ rows[k].email = Lower(fields[good[k]]["email"])
        OBVIOUS
    <2>1. rows[k] = Draft(good[k], fields[good[k]])
        BY <1>5
    <2> QED BY <2>1, DraftFields
<1>7. DOMAIN rows = 1..G /\ Range(rows) = {rows[k] : k \in 1..G}
    BY <1>5 DEF Range
<1>8. rows \in Seq(Range(rows)) /\ Len(rows) = G
    <2>1. rows = [k \in 1..G |-> rows[k]]
        BY <1>5
    <2> HIDE DEF rows
    <2>2. \A k \in 1..G : rows[k] \in Range(rows)
        BY <1>7
    <2> QED BY <1>5, <2>1, <2>2, ListedFunction
<1> HIDE DEF rows
<1>9. \A j, k \in 1..G : good[j] = good[k] => j = k
    BY <1>4 DEF Distinct
<1>10. Distinct(rows)
    BY <1>6, <1>8, <1>9 DEF Distinct
<1>11. \A j, k \in 1..G : rows[j].row = rows[k].row \/ rows[j].email = rows[k].email => j = k
    <2> SUFFICES ASSUME NEW j \in 1..G, NEW k \in 1..G,
                        rows[j].row = rows[k].row \/ rows[j].email = rows[k].email
                 PROVE  j = k
        OBVIOUS
    <2>1. good[j] \in 2..L /\ good[k] \in 2..L /\ found[good[j]] = <<>> /\ found[good[k]] = <<>>
        BY <1>5
    <2>2. good[j] = good[k]
        <3>1. CASE rows[j].row = rows[k].row
            BY <1>6, <3>1
        <3>2. CASE rows[j].email = rows[k].email
            <4>1. Lower(fields[good[j]]["email"]) = Lower(fields[good[k]]["email"])
                BY <1>6, <3>2
            <4> QED BY <2>1, <4>1 DEF AddressesDiffer
        <3> QED BY <3>1, <3>2
    <2> QED BY <1>9, <2>2
<1>12. \A x, y \in Range(rows) : x.row = y.row \/ x.email = y.email => x = y
    BY <1>7, <1>11
<1>13. RowsOf(Range(rows)) = Good
    <2>1. RowsOf(Range(rows)) = {rows[k].row : k \in 1..G}
        BY <1>7 DEF RowsOf
    <2>2. Good = {good[k] : k \in 1..G}
        BY <1>4, <1>5 DEF Range
    <2> HIDE DEF Good
    <2>3. {rows[k].row : k \in 1..G} = {good[k] : k \in 1..G}
        BY <1>6
    <2> QED BY <2>1, <2>2, <2>3
<1>14. \A k \in 1..(L - 1) : About1(k) \in Seq(X)
    <2> SUFFICES ASSUME NEW k \in 1..(L - 1) PROVE About1(k) \in Seq(X)
        OBVIOUS
    <2> DEFINE line == lines[k]
               them == found[line]
    <2>1. line \in 2..L /\ them \in Seq(Y)
        BY <1>3
    <2> HIDE DEF line, them
    <2>2. \A n \in DOMAIN them : Problem(line, them[n]) \in X
        BY <2>1 DEF Problem
    <2>3. [n \in DOMAIN them |-> Problem(line, them[n])] \in Seq(X)
        <3> HIDE DEF X
        <3> QED BY <2>1, <2>2
    <2> QED BY <2>3 DEF line, them
<1>15. \A k \in 1..(L - 1) : \A p \in Range(About1(k)) : p.row = lines[k]
    <2> SUFFICES ASSUME NEW k \in 1..(L - 1), NEW p \in Range(About1(k)) PROVE p.row = lines[k]
        OBVIOUS
    <2> DEFINE line == lines[k]
               them == found[line]
               list == [n \in DOMAIN them |-> Problem(line, them[n])]
    <2>1. PICK n \in DOMAIN them : p = list[n]
        BY DEF Range
    <2>2. p = Problem(line, them[n])
        BY <2>1
    <2> QED BY <2>2 DEF Problem
<1>16. \A k \in 1..(L - 1) : Range(About1(k)) # {} <=> found[lines[k]] # <<>>
    <2> SUFFICES ASSUME NEW k \in 1..(L - 1)
                 PROVE  Range(About1(k)) # {} <=> found[lines[k]] # <<>>
        OBVIOUS
    <2> DEFINE them == found[lines[k]]
    <2>1. them \in Seq(Y)
        BY <1>3
    <2>2. Range(About1(k)) = {About1(k)[n] : n \in DOMAIN them}
        BY DEF Range
    <2> HIDE DEF them
    <2>3. DOMAIN them # {} <=> them # <<>>
        <3>1. Len(them) \in Nat /\ DOMAIN them = 1..Len(them)
            BY <2>1
        <3>2. ASSUME them # <<>> PROVE 1 \in DOMAIN them
            <4>1. Len(them) # 0
                BY <2>1, <3>2
            <4> QED BY <3>1, <4>1
        <3>3. ASSUME them = <<>> PROVE DOMAIN them = {}
            BY <3>3
        <3> QED BY <3>2, <3>3
    <2> QED BY <2>2, <2>3 DEF them
<1>17. /\ pieces \in Seq(Seq(X)) /\ DOMAIN pieces = 1..(L - 1)
       /\ \A k \in 1..(L - 1) : pieces[k] = About1(k)
    <2>1. \A k \in 1..(L - 1) : pieces[k] = About1(k)
        BY <1>3
    <2>2. pieces = [k \in 1..(L - 1) |-> pieces[k]]
        BY <1>3
    <2> DEFINE T == Seq(X)
    <2>3. \A k \in 1..(L - 1) : pieces[k] \in T
        BY <1>14, <2>1
    <2> HIDE DEF pieces, T
    <2>4. pieces \in Seq(T)
        BY <1>3, <2>2, <2>3, ListedFunction
    <2>5. DOMAIN pieces = 1..(L - 1)
        BY <2>2
    <2> QED BY <2>1, <2>4, <2>5 DEF T
<1> HIDE DEF pieces, X
<1>18. problems \in Seq(X) /\ Range(problems) = AllOf(pieces)
    BY <1>17, FlatteningKeeps
<1>19. RowsOf(Range(problems)) = (2..L) \ Good
    <2>1. RowsOf(AllOf(pieces)) = {line \in 2..L : found[line] # <<>>}
        <3>1. ASSUME NEW k \in 1..(L - 1), NEW p \in Range(pieces[k])
              PROVE  p.row \in 2..L /\ found[p.row] # <<>>
            <4>1. p \in Range(About1(k))
                BY <1>17
            <4>2. p.row = lines[k] /\ found[lines[k]] # <<>>
                BY <1>15, <1>16, <4>1
            <4> QED BY <1>3, <4>2
        <3>2. ASSUME NEW line \in 2..L, found[line] # <<>>
              PROVE  \E k \in 1..(L - 1) : \E p \in Range(pieces[k]) : p.row = line
            <4>1. PICK k \in 1..(L - 1) : lines[k] = line
                BY <1>1, <1>3 DEF Range
            <4>2. PICK p : p \in Range(About1(k))
                BY <1>16, <3>2, <4>1
            <4>3. p.row = line /\ p \in Range(pieces[k])
                BY <1>15, <1>17, <4>1, <4>2
            <4> QED BY <4>3
        <3>3. AllOf(pieces) = UNION {Range(pieces[k]) : k \in 1..(L - 1)}
            BY <1>17 DEF AllOf
        <3>4. \A x : x \in RowsOf(AllOf(pieces)) => x \in 2..L /\ found[x] # <<>>
            BY <3>1, <3>3 DEF RowsOf
        <3>5. \A line \in 2..L : found[line] # <<>> => line \in RowsOf(AllOf(pieces))
            BY <3>2, <3>3 DEF RowsOf
        <3> QED BY <3>4, <3>5
    <2> QED BY <1>18, <2>1
<1>20. problems \in Seq([row : 2..L, column : Y])
    BY <1>18 DEF X
<1> HIDE DEF problems
<1>21. Good \cup ((2..L) \ Good) = 2..L /\ Good \cap ((2..L) \ Good) = {}
    OBVIOUS
<1> DEFINE parsed == Reading(fields, found)
<1>22. parsed.rows = rows /\ parsed.problems = problems /\ parsed.totalRows = L - 1
    BY <1>1, <1>2
<1> HIDE DEF parsed, Good
<1> QED BY <1>8, <1>10, <1>12, <1>13, <1>19, <1>20, <1>21, <1>22 DEF IsReading, parsed

\* A file whose header has the columns.
LEMMA ParsedIsReading ==
    ASSUME NEW table, table \in Seq(Range(table)), table # <<>>, MissingColumns(table[1]) = {}
    PROVE  IsReading(ParseEmployeeCsv(table), Len(table), CheckNames)
<1> DEFINE L == Len(table)
           fields == Fields(table, ReadHeader(table[1]))
           columns == [line \in DOMAIN fields |-> ProblemColumns(fields[line])]
           found == WithoutRepeats(fields, columns)
<1>1. L \in Nat \ {0}
    OBVIOUS
<1>2. ParseEmployeeCsv(table) = Reading(fields, found)
    BY DEF ParseEmployeeCsv
<1>3. DOMAIN fields = 2..L
    BY DEF Fields
<1> HIDE DEF fields
<1>4. \A line \in 2..L : columns[line] \in Seq(CheckNames)
    BY <1>3, ColumnsAreListed
<1> HIDE DEF columns, L
<1>5. (\A line \in 2..L : found[line] \in Seq(CheckNames)) /\ AddressesDiffer(fields, found)
    <2>1. "email" \in CheckNames
        BY DEF CheckNames
    <2> QED BY <1>1, <1>3, <1>4, <2>1, RepeatsAreFound
<1> HIDE DEF found
<1>6. IsReading(Reading(fields, found), L, CheckNames)
    BY <1>1, <1>3, <1>5, ReadingIsWhole
<1> QED BY <1>2, <1>6 DEF L

-----------------------------------------------------------------------------
(* A file that was checked *)

\* A complaint about each of some rows is about exactly these rows.
LEMMA AboutRows ==
    ASSUME NEW X, NEW people \in Seq(X), NEW column, NEW R, \A x \in Range(people) : x.row \in R,
           NEW Y, column \in Y
    PROVE  /\ About(people, column) \in Seq([row : R, column : Y])
           /\ RowsOf(Range(About(people, column))) = RowsOf(Range(people))
<1> DEFINE N == Len(people)
           list == About(people, column)
           T == [row : R, column : Y]
<1>1. N \in Nat /\ DOMAIN people = 1..N /\ Range(people) = {people[k] : k \in 1..N}
    BY DEF Range
<1>2. \A k \in 1..N : people[k].row \in R
    BY <1>1
<1>3. list = [k \in 1..N |-> Problem(people[k].row, column)]
    BY <1>1 DEF About
<1> HIDE DEF list, N
<1>4. DOMAIN list = 1..N /\ \A k \in 1..N : list[k] = Problem(people[k].row, column)
    BY <1>3
<1>5. \A k \in 1..N : list[k] \in T /\ list[k].row = people[k].row
    BY <1>2, <1>4 DEF Problem
<1> HIDE DEF T
<1>6. list \in Seq(T)
    <2>1. list = [k \in 1..N |-> list[k]]
        BY <1>3
    <2> QED BY <1>1, <1>5, <2>1, ListedFunction
<1>7. RowsOf(Range(list)) = {list[k].row : k \in 1..N}
    BY <1>4 DEF RowsOf, Range
<1>8. RowsOf(Range(people)) = {people[k].row : k \in 1..N}
    BY <1>1 DEF RowsOf
<1>9. RowsOf(Range(list)) = RowsOf(Range(people))
    BY <1>5, <1>7, <1>8
<1> QED BY <1>6, <1>9 DEF list, T

\* What the check has placed and what it complains about.
IsChecked(checked, parsed, taken, L, Y) ==
    LET rows   == AllOf(checked.layers)
        placed == RowsOf(rows)
        wrong  == RowsOf(Range(checked.problems))
    IN  /\ checked.problems \in Seq([row : 2..L, column : Y])
        /\ placed \cap wrong = {} /\ placed \cup wrong = 2..L
        /\ ValidRows(checked) \in Nat /\ ValidRows(checked) + Cardinality(wrong) = L - 1
        /\ LayersOK(checked.layers, taken)
        /\ \A k \in DOMAIN checked.layers : \A x \in Range(checked.layers[k]) :
               x.email \notin taken \cup AddressesOf(Before(checked.layers, k))
        /\ \A x \in Range(parsed.rows) \ rows :
               x.email \in taken \/ x.manager \notin MayManage(rows, taken)

\* The layers before one are among all layers.
LEMMA BeforeAreOf ==
    ASSUME NEW T, NEW layers \in Seq(T), NEW k \in DOMAIN layers
    PROVE  Before(layers, k) \subseteq AllOf(layers)
<1>1. \A n \in 1..(k - 1) : n \in DOMAIN layers
    <2>1. DOMAIN layers = 1..Len(layers) /\ Len(layers) \in Nat
        OBVIOUS
    <2> QED BY <2>1
<1> QED BY <1>1 DEF Before, AllOf

\* What is true of the reading of a file stays true of its check against the database.
LEMMA CheckIsWhole ==
    ASSUME NEW L \in Nat \ {0}, NEW Y, "email" \in Y, "managerEmail" \in Y,
           NEW table, NEW parsed, IsReading(parsed, L, Y), NEW taken
    PROVE  /\ IsChecked(Checked(table, parsed, taken), parsed, taken, L, Y)
           /\ Checked(table, parsed, taken).totalRows = L - 1
           /\ Checked(table, parsed, taken).table = table
<1> DEFINE people == Range(parsed.rows)
           old == {x \in people : x.email \in taken}
           new == people \ old
           oldRows == Where(parsed.rows, LAMBDA x : x.email \in taken)
           newRows == Where(parsed.rows, LAMBDA x : ~(x.email \in taken))
           order == OrderByManager(newRows, taken)
           missing == order.missingManager
           cyclic == order.cyclic
           aboutOld == About(oldRows, "email")
           aboutMissing == About(missing, "managerEmail")
           aboutCyclic == About(cyclic, "managerEmail")
           problems == ((parsed.problems \o aboutOld) \o aboutMissing) \o aboutCyclic
           checked == Checked(table, parsed, taken)
           rows == AllOf(order.layers)
           bad == (old \cup Range(missing)) \cup Range(cyclic)
           T == [row : 2..L, column : Y]
           complaints == RowsOf(Range(parsed.problems))
<1>1. checked = [table |-> table, totalRows |-> parsed.totalRows, problems |-> problems,
                 layers |-> order.layers]
    BY DEF Checked
<1>2. /\ parsed.rows \in Seq(people) /\ Distinct(parsed.rows)
      /\ \A x, y \in people : x.row = y.row \/ x.email = y.email => x = y
      /\ parsed.problems \in Seq(T)
      /\ RowsOf(people) \cap complaints = {} /\ RowsOf(people) \cup complaints = 2..L
      /\ parsed.totalRows = L - 1
    BY DEF IsReading
<1> HIDE DEF problems, order
<1>3. checked.table = table /\ checked.totalRows = L - 1 /\ checked.problems = problems
      /\ checked.layers = order.layers
    BY <1>1, <1>2
<1> HIDE DEF checked
<1>4. oldRows \in Seq(people) /\ Range(oldRows) = old
    <2>1. {k \in DOMAIN parsed.rows : parsed.rows[k].email \in taken}
              = {k \in DOMAIN parsed.rows : parsed.rows[k] \in old}
        BY DEF Range
    <2>2. oldRows = Kept(parsed.rows, old)
        BY <2>1 DEF Where, Kept
    <2>3. people \cap old = old
        OBVIOUS
    <2> HIDE DEF oldRows, old
    <2> QED BY <1>2, <2>2, <2>3, KeptAre
<1>5. newRows \in Seq(people) /\ Range(newRows) = new /\ Distinct(newRows)
    <2>1. {k \in DOMAIN parsed.rows : ~(parsed.rows[k].email \in taken)}
              = {k \in DOMAIN parsed.rows : parsed.rows[k] \in new}
        BY DEF Range
    <2>2. newRows = Kept(parsed.rows, new)
        BY <2>1 DEF Where, Kept
    <2>3. people \cap new = new
        OBVIOUS
    <2> HIDE DEF newRows, new
    <2> QED BY <1>2, <2>2, <2>3, KeptAre
<1> HIDE DEF oldRows, newRows
<1>6. IsOrder(order, people, newRows, taken)
    BY <1>5, OrderIsWhole DEF order
<1>7. /\ order.layers \in Seq(Seq(people)) /\ missing \in Seq(people) /\ cyclic \in Seq(people)
      /\ rows \cup Range(missing) \cup Range(cyclic) = new
      /\ rows \cap (Range(missing) \cup Range(cyclic)) = {}
      /\ IsFiniteSet(rows) /\ Len(FlattenSeq(order.layers)) = Cardinality(rows)
      /\ LayersOK(order.layers, taken)
      /\ \A x \in Range(cyclic) : x.manager \notin MayManage(rows, taken)
      /\ \A x \in Range(missing) : x.manager \notin MayManage(new, taken)
    BY <1>5, <1>6 DEF IsOrder
<1> HIDE DEF rows, missing, cyclic
<1>8. rows \cup bad = people /\ rows \cap bad = {}
    <2>1. old \cup new = people /\ old \cap new = {}
        OBVIOUS
    <2> HIDE DEF old, new
    <2> QED BY <1>7, <2>1
<1>9. /\ aboutOld \in Seq(T) /\ RowsOf(Range(aboutOld)) = RowsOf(old)
      /\ aboutMissing \in Seq(T) /\ RowsOf(Range(aboutMissing)) = RowsOf(Range(missing))
      /\ aboutCyclic \in Seq(T) /\ RowsOf(Range(aboutCyclic)) = RowsOf(Range(cyclic))
    <2> DEFINE R == 2..L
    <2>1. \A x \in people : x.row \in R
        BY <1>2 DEF RowsOf
    <2>2. (\A x \in Range(oldRows) : x.row \in R) /\ (\A x \in Range(missing) : x.row \in R)
          /\ (\A x \in Range(cyclic) : x.row \in R)
        BY <1>4, <1>7, <2>1
    <2>3. T = [row : R, column : Y]
        OBVIOUS
    <2> HIDE DEF R, T, old
    <2>4. aboutOld \in Seq(T) /\ RowsOf(Range(aboutOld)) = RowsOf(old)
        BY <1>4, <2>2, <2>3, AboutRows
    <2>5. aboutMissing \in Seq(T) /\ RowsOf(Range(aboutMissing)) = RowsOf(Range(missing))
        BY <1>7, <2>2, <2>3, AboutRows
    <2>6. aboutCyclic \in Seq(T) /\ RowsOf(Range(aboutCyclic)) = RowsOf(Range(cyclic))
        BY <1>7, <2>2, <2>3, AboutRows
    <2> QED BY <2>4, <2>5, <2>6
<1> HIDE DEF aboutOld, aboutMissing, aboutCyclic, T
<1>10. /\ problems \in Seq(T)
       /\ Range(problems) = ((Range(parsed.problems) \cup Range(aboutOld)) \cup Range(aboutMissing))
                                \cup Range(aboutCyclic)
    <2> DEFINE a == parsed.problems \o aboutOld
               b == a \o aboutMissing
    <2>1. a \in Seq(T) /\ Range(a) = Range(parsed.problems) \cup Range(aboutOld)
        BY <1>2, <1>9, RangeOfBoth
    <2> HIDE DEF a
    <2>2. b \in Seq(T) /\ Range(b) = Range(a) \cup Range(aboutMissing)
        BY <1>9, <2>1, RangeOfBoth
    <2> HIDE DEF b
    <2>3. b \o aboutCyclic \in Seq(T) /\ Range(b \o aboutCyclic) = Range(b) \cup Range(aboutCyclic)
        BY <1>9, <2>2, RangeOfBoth
    <2> QED BY <2>1, <2>2, <2>3 DEF a, b, problems
<1> DEFINE placed == RowsOf(rows)
           wrong == RowsOf(Range(problems))
<1>11. wrong = complaints \cup RowsOf(bad)
    <2> HIDE DEF old
    <2>1. RowsOf(bad) = (RowsOf(old) \cup RowsOf(Range(missing))) \cup RowsOf(Range(cyclic))
        BY DEF RowsOf
    <2>2. wrong = ((complaints \cup RowsOf(Range(aboutOld))) \cup RowsOf(Range(aboutMissing)))
                      \cup RowsOf(Range(aboutCyclic))
        BY <1>10 DEF RowsOf
    <2> HIDE DEF bad, wrong, complaints
    <2> QED BY <1>9, <2>1, <2>2
<1> HIDE DEF bad
<1>12. RowsOf(people) = placed \cup RowsOf(bad) /\ placed \cap RowsOf(bad) = {}
    <2>1. RowsOf(people) = placed \cup RowsOf(bad)
        BY <1>8 DEF RowsOf
    <2>2. \A x \in rows, y \in bad : x.row # y.row
        <3> SUFFICES ASSUME NEW x \in rows, NEW y \in bad, x.row = y.row PROVE FALSE
            OBVIOUS
        <3>1. x \in people /\ y \in people /\ x # y
            BY <1>8
        <3> QED BY <1>2, <3>1
    <2>3. placed \cap RowsOf(bad) = {}
        BY <2>2 DEF RowsOf
    <2> QED BY <2>1, <2>3
<1> HIDE DEF complaints
<1>13. placed \cap wrong = {} /\ placed \cup wrong = 2..L
    BY <1>2, <1>11, <1>12
<1>14. Cardinality(rows) + Cardinality(wrong) = L - 1
    <2> DEFINE key == [x \in rows |-> x.row]
               R == 2..L
    <2>1. IsFiniteSet(R) /\ Cardinality(R) = L - 1
        <3>1. Cardinality(2..L) = IF 2 > L THEN 0 ELSE L - 2 + 1
            BY FS_Interval
        <3>2. IsFiniteSet(2..L)
            BY FS_Interval
        <3> QED BY <3>1, <3>2
    <2>2. Renames(key, rows, placed)
        <3>1. \A x \in rows : key[x] = x.row
            OBVIOUS
        <3> HIDE DEF key
        <3>2. \A x, y \in rows : x.row = y.row => x = y
            BY <1>2, <1>8
        <3> QED BY <3>1, <3>2 DEF Renames, RowsOf
    <2>3. IsFiniteSet(placed) /\ Cardinality(placed) = Cardinality(rows)
        BY <1>7, <2>2, RenamedIsFinite
    <2>4. placed \cap wrong = {} /\ placed \cup wrong = R
        BY <1>13
    <2> HIDE DEF R, placed, wrong
    <2>5. wrong \in SUBSET R
        BY <2>4
    <2>6. IsFiniteSet(wrong)
        BY <2>1, <2>5, FS_Subset
    <2>7. Cardinality(R) = Cardinality(placed) + Cardinality(wrong) - Cardinality(placed \cap wrong)
        BY <2>3, <2>4, <2>6, FS_Union
    <2>8. Cardinality(placed \cap wrong) = 0
        BY <2>4, FS_EmptySet
    <2>9. Cardinality(placed) \in Nat /\ Cardinality(wrong) \in Nat
        BY <2>3, <2>6, FS_CardinalityType
    <2> QED BY <2>1, <2>3, <2>7, <2>8, <2>9
<1>15. ASSUME NEW k \in DOMAIN order.layers, NEW x \in Range(order.layers[k])
       PROVE  x.email \notin taken \cup AddressesOf(Before(order.layers, k))
    <2>1. x \in rows /\ x \notin Before(order.layers, k)
        BY <1>7, <1>15 DEF LayersOK, rows, AllOf
    <2>2. Before(order.layers, k) \subseteq rows
        BY <1>7, BeforeAreOf DEF rows
    <2>3. x \in new /\ rows \subseteq people
        BY <1>7, <1>8, <2>1
    <2>4. \A y \in Before(order.layers, k) : y.email # x.email
        BY <1>2, <2>1, <2>2, <2>3
    <2> QED BY <2>3, <2>4 DEF AddressesOf
<1>16. ASSUME NEW x \in people \ rows
       PROVE  x.email \in taken \/ x.manager \notin MayManage(rows, taken)
    <2>1. CASE x \in old
        BY <2>1
    <2>2. CASE x \in Range(cyclic)
        BY <1>7, <2>2
    <2>3. CASE x \in Range(missing)
        <3>1. x.manager \notin MayManage(new, taken)
            BY <1>7, <2>3
        <3>2. MayManage(rows, taken) \subseteq MayManage(new, taken)
            BY <1>7 DEF MayManage, AddressesOf
        <3> QED BY <3>1, <3>2
    <2>4. x \in bad
        BY <1>8
    <2> QED BY <2>1, <2>2, <2>3, <2>4 DEF bad
<1>17. ValidRows(checked) = Cardinality(rows) /\ ValidRows(checked) \in Nat
    BY <1>3, <1>7, FS_CardinalityType DEF ValidRows
<1>18. AllOf(checked.layers) = rows
    BY <1>3 DEF rows
<1> HIDE DEF placed, wrong, old, new
<1>19. IsChecked(checked, parsed, taken, L, Y)
    <2>1. problems \in Seq([row : 2..L, column : Y])
        BY <1>10 DEF T
    <2>2. RowsOf(AllOf(checked.layers)) = placed /\ RowsOf(Range(checked.problems)) = wrong
        BY <1>3, <1>18 DEF placed, wrong
    <2>3. ValidRows(checked) \in Nat /\ ValidRows(checked) + Cardinality(wrong) = L - 1
        BY <1>14, <1>17
    <2>4. LayersOK(checked.layers, taken)
        BY <1>3, <1>7
    <2>5. \A k \in DOMAIN checked.layers : \A x \in Range(checked.layers[k]) :
              x.email \notin taken \cup AddressesOf(Before(checked.layers, k))
        BY <1>3, <1>15
    <2>6. \A x \in people \ AllOf(checked.layers) :
              x.email \in taken \/ x.manager \notin MayManage(AllOf(checked.layers), taken)
        BY <1>16, <1>18
    <2>7. checked.problems \in Seq([row : 2..L, column : Y])
        BY <1>3, <2>1
    <2> QED BY <1>13, <2>2, <2>3, <2>4, <2>5, <2>6, <2>7 DEF IsChecked
<1> QED BY <1>3, <1>19 DEF checked

-----------------------------------------------------------------------------
(* The report on a file *)

\* What a complaint is written with, and the column that says so.
Words == {";", Space, ":", "wrong", "problems"}

\* A list is empty exactly if it lists nothing.
LEMMA SomethingIsThere ==
    ASSUME NEW X, NEW s \in Seq(X)
    PROVE  s # <<>> <=> Range(s) # {}
<1>1. Len(s) \in Nat /\ DOMAIN s = 1..Len(s)
    OBVIOUS
<1>2. ASSUME s # <<>> PROVE Range(s) # {}
    <2>1. Len(s) # 0
        BY <1>2
    <2>2. 1 \in DOMAIN s
        BY <1>1, <2>1
    <2> QED BY <2>2 DEF Range
<1>3. ASSUME s = <<>> PROVE Range(s) = {}
    <2>1. DOMAIN s = {}
        BY <1>3
    <2> QED BY <2>1 DEF Range
<1> QED BY <1>2, <1>3

\* Short texts are texts.
LEMMA SomeCharacters ==
    ASSUME NEW S, NEW a \in S, NEW b \in S, NEW c \in S, NEW d \in S
    PROVE  /\ <<>> \in Seq(S) /\ <<a, b>> \in Seq(S)
           /\ <<a, b, c, d>> \in Seq(S) /\ Len(<<a, b, c, d>>) = 4 /\ <<a, b, c, d>>[4] = d
OBVIOUS

\* A row has a complaint beside it exactly if there is a problem with it.
LEMMA ComplaintIsText ==
    ASSUME NEW Char, Words \subseteq Char, NEW Y, Y \subseteq Char, NEW R,
           NEW problems \in Seq([row : R, column : Y]), NEW row
    PROVE  /\ Complaint(problems, row) \in Seq(Char)
           /\ Complaint(problems, row) # <<>> <=> row \in RowsOf(Range(problems))
<1> DEFINE T == [row : R, column : Y]
           P == {k \in DOMAIN problems : problems[k].row = row}
           texts == Chosen(problems, P)
           N == Len(texts)
           Lead(k) == IF k = 1 THEN <<>> ELSE <<";", Space>>
           Said(k) == <<texts[k].column, ":", Space, "wrong">>
           pieces == [k \in DOMAIN texts |-> Lead(k) \o Said(k)]
           C == Seq(Char)
<1>1. Complaint(problems, row) = FlattenSeq(pieces)
    BY DEF Complaint, Where
<1> HIDE DEF T
<1>2. texts \in Seq(T) /\ N = Cardinality(P) /\ (N = 0 <=> P = {}) /\ N \in Nat
    <2>1. problems \in Seq(T)
        BY DEF T
    <2>2. P \in SUBSET (1..Len(problems)) /\ Len(problems) \in Nat
        BY <2>1
    <2> HIDE DEF P
    <2>3. /\ texts \in Seq(T) /\ Len(texts) = Cardinality(P)
          /\ Cardinality(P) \in 0..Len(problems) /\ (Cardinality(P) = 0 <=> P = {})
        BY <2>1, <2>2, ChosenAre
    <2> QED BY <2>2, <2>3
<1>3. P # {} <=> row \in RowsOf(Range(problems))
    BY DEF RowsOf, Range
<1> HIDE DEF texts, P
<1>4. DOMAIN texts = 1..N /\ \A k \in 1..N : texts[k] \in T
    BY <1>2
<1>5. \A k \in 1..N : /\ Lead(k) \in C /\ Said(k) \in C /\ Len(Said(k)) = 4 /\ Said(k)[4] = "wrong"
    <2> SUFFICES ASSUME NEW k \in 1..N
                 PROVE  /\ Lead(k) \in C /\ Said(k) \in C /\ Len(Said(k)) = 4 /\ Said(k)[4] = "wrong"
        OBVIOUS
    <2> DEFINE column == texts[k].column
    <2>1. column \in Char /\ ":" \in Char /\ Space \in Char /\ "wrong" \in Char /\ ";" \in Char
        BY <1>4 DEF T, Words
    <2> DEFINE colon == ":"
               semicolon == ";"
               wrong == "wrong"
    <2>2. Said(k) = <<column, colon, Space, wrong>> /\ Lead(k) = IF k = 1 THEN <<>> ELSE <<semicolon, Space>>
        OBVIOUS
    <2>3. column \in Char /\ colon \in Char /\ Space \in Char /\ wrong \in Char /\ semicolon \in Char
        BY <2>1
    <2> HIDE DEF column, colon, semicolon, wrong, Said, Lead
    <2>4. /\ <<column, colon, Space, wrong>> \in Seq(Char) /\ Len(<<column, colon, Space, wrong>>) = 4
          /\ <<column, colon, Space, wrong>>[4] = wrong
        BY <2>3, SomeCharacters
    <2>5. <<>> \in Seq(Char) /\ <<semicolon, Space>> \in Seq(Char)
        BY <2>3, SomeCharacters
    <2> QED BY <2>2, <2>4, <2>5 DEF wrong
<1> HIDE DEF Said, Lead
<1>6. \A k \in 1..N : pieces[k] \in C /\ "wrong" \in Range(pieces[k])
    <2> SUFFICES ASSUME NEW k \in 1..N PROVE pieces[k] \in C /\ "wrong" \in Range(pieces[k])
        OBVIOUS
    <2> DEFINE a == Lead(k)
               b == Said(k)
    <2>1. pieces[k] = a \o b
        BY <1>4
    <2>2. a \in Seq(Char) /\ b \in Seq(Char) /\ Len(b) = 4 /\ b[4] = "wrong"
        BY <1>5
    <2> HIDE DEF a, b
    <2>3. a \o b \in Seq(Char) /\ Range(a \o b) = Range(a) \cup Range(b)
        BY <2>2, RangeOfBoth
    <2>4. "wrong" \in Range(b)
        <3>1. 4 \in DOMAIN b
            BY <2>2
        <3> QED BY <2>2, <3>1 DEF Range
    <2> QED BY <2>1, <2>3, <2>4
<1>7. pieces \in Seq(C) /\ DOMAIN pieces = 1..N
    <2>1. pieces = [k \in 1..N |-> pieces[k]]
        BY <1>4
    <2> HIDE DEF pieces, C
    <2> QED BY <1>2, <1>6, <2>1, ListedFunction
<1> HIDE DEF pieces
<1> DEFINE text == FlattenSeq(pieces)
<1>8. text \in Seq(Char) /\ Range(text) = AllOf(pieces)
    BY <1>7, FlatteningKeeps
<1> HIDE DEF text
<1>9. AllOf(pieces) # {} <=> N # 0
    <2>1. AllOf(pieces) = UNION {Range(pieces[k]) : k \in 1..N}
        BY <1>7 DEF AllOf
    <2>2. N = 0 => 1..N = {}
        OBVIOUS
    <2>3. N # 0 => 1 \in 1..N
        BY <1>2
    <2> QED BY <1>6, <2>1, <2>2, <2>3
<1>10. text # <<>> <=> Range(text) # {}
    BY <1>8, SomethingIsThere
<1> QED BY <1>1, <1>2, <1>3, <1>8, <1>9, <1>10 DEF text

\* What the report says beside a row.
Beside(problems, k) == IF k = 1 THEN <<"problems">> ELSE Complaint(problems, k)

\* The rows of a report, a cell longer than those of the file.
LEMMA ReportIsSheet ==
    ASSUME NEW Char, NEW table, IsSheet(table, Char),
           NEW problems, \A k \in DOMAIN table : Beside(problems, k) \in Seq(Char)
    PROVE  /\ IsSheet(ReportRows(table, problems), Char)
           /\ DOMAIN ReportRows(table, problems) = DOMAIN table
           /\ \A k \in DOMAIN table :
                 ReportRows(table, problems)[k] = Append(table[k], Beside(problems, k))
<1> DEFINE N == Len(table)
           S == Seq(Char)
           T == Seq(S)
           lines == ReportRows(table, problems)
<1>1. N \in Nat /\ DOMAIN table = 1..N /\ \A k \in 1..N : table[k] \in T /\ table[k] # <<>>
    BY DEF IsSheet
<1>2. lines = [k \in 1..N |-> Append(table[k], Beside(problems, k))]
    BY <1>1 DEF ReportRows, Beside
<1> HIDE DEF lines
<1>3. DOMAIN lines = 1..N /\ \A k \in 1..N : lines[k] = Append(table[k], Beside(problems, k))
    BY <1>2
<1>4. \A k \in 1..N : lines[k] \in T /\ lines[k] # <<>> /\ lines[k] # <<(<<>>)>>
    <2> SUFFICES ASSUME NEW k \in 1..N PROVE lines[k] \in T /\ Len(lines[k]) >= 2
        <3>1. \A s : Len(s) >= 2 => s # <<>> /\ s # <<(<<>>)>>
            OBVIOUS
        <3> QED BY <3>1
    <2> DEFINE row == table[k]
               more == Beside(problems, k)
    <2>1. row \in T /\ row # <<>> /\ more \in S
        BY <1>1
    <2> HIDE DEF row, more, S
    <2>2. Append(row, more) \in T /\ Len(Append(row, more)) = Len(row) + 1 /\ Len(row) \in Nat
        BY <2>1
    <2>3. Len(row) # 0
        BY <2>1
    <2>4. lines[k] = Append(row, more)
        BY <1>3 DEF row, more
    <2> HIDE DEF T
    <2> QED BY <2>2, <2>3, <2>4
<1>5. lines \in Seq(T)
    <2>1. lines = [k \in 1..N |-> lines[k]]
        BY <1>2
    <2> HIDE DEF N, T
    <2> QED BY <1>1, <1>4, <2>1, ListedFunction
<1>6. IsSheet(lines, Char)
    BY <1>3, <1>4, <1>5 DEF IsSheet
<1> QED BY <1>1, <1>3, <1>6 DEF lines

\* What is put beside a row is the last field written.
LEMMA LastIsGuarded ==
    ASSUME NEW S, NEW row \in Seq(S), NEW more \in S, NEW got, got = GuardedRow(Append(row, more))
    PROVE  /\ Len(got) = Len(row) + 1 /\ got[Len(row) + 1] = Guarded(more)
           /\ DOMAIN got = 1..(Len(row) + 1)
           /\ \A n \in 1..Len(row) : got[n] = Guarded(row[n])
<1> DEFINE M == Len(row)
           longer == Append(row, more)
<1>1. /\ M \in Nat /\ longer \in Seq(S) /\ Len(longer) = M + 1
      /\ \A n \in 1..M : longer[n] = row[n]
      /\ longer[M + 1] = more
    BY AppendProperties
<1>2. got = [n \in DOMAIN longer |-> Guarded(longer[n])]
    BY DEF GuardedRow
<1> HIDE DEF longer, M
<1>3. DOMAIN longer = 1..(M + 1)
    BY <1>1
<1>4. got = [n \in 1..(M + 1) |-> Guarded(longer[n])]
    BY <1>2, <1>3
<1>5. Len(got) = M + 1 /\ DOMAIN got = 1..(M + 1)
    BY <1>1, <1>4
<1>6. \A n \in 1..M : n \in 1..(M + 1)
    BY <1>1
<1>7. M + 1 \in 1..(M + 1)
    BY <1>1
<1> QED BY <1>1, <1>4, <1>5, <1>6, <1>7 DEF M

\* What reads back is the table with a field more on each of its lines.
ReportRead(report, table, problems, Char) ==
    /\ Len(report) = Len(table) /\ DOMAIN report = 1..Len(table)
    /\ \A k \in 1..Len(table) : /\ Beside(problems, k) \in Seq(Char)
                                /\ report[k] = GuardedRow(Append(table[k], Beside(problems, k)))

\* The report on a file with rows reads back to ReportRead.
LEMMA ReportIsRead ==
    ASSUME NEW Char, Marks \subseteq Char, Words \subseteq Char, NEW Y, Y \subseteq Char,
           NEW table, IsSheet(table, Char), table # <<>>,
           NEW R, R = 2..Len(table), NEW problems \in Seq([row : R, column : Y]),
           NEW report, report = ParseCsv(ToProblemReportCsv(table, problems))
    PROVE  ReportRead(report, table, problems, Char)
<1> DEFINE L == Len(table)
           about == {problems[k].row : k \in DOMAIN problems}
           lines == ReportRows(table, problems)
           T == [row : 2..L, column : Y]
<1>1. L \in Nat /\ DOMAIN table = 1..L
    BY DEF IsSheet
<1>2. about \ (2..L) = {}
    <2>1. \A p \in T : p.row \in 2..L
        OBVIOUS
    <2>2. problems \in Seq(T)
        OBVIOUS
    <2> HIDE DEF T
    <2>3. \A k \in DOMAIN problems : problems[k] \in T
        BY <2>2
    <2> QED BY <2>1, <2>3
<1>3. ToProblemReportCsv(table, problems) = TextOf(lines)
    <2> HIDE DEF lines
    <2>1. about \ (2..Len(table)) = {} /\ table # <<>>
        BY <1>2
    <2> QED BY <2>1 DEF ToProblemReportCsv, TextOf, lines
<1>4. \A k \in 1..L : Beside(problems, k) \in Seq(Char)
    <2>1. "problems" \in Char
        BY DEF Words
    <2>2. <<"problems">> \in Seq(Char)
        BY <2>1
    <2>3. \A k \in 1..L : Complaint(problems, k) \in Seq(Char)
        BY ComplaintIsText
    <2> QED BY <2>2, <2>3 DEF Beside
<1>5. /\ IsSheet(lines, Char) /\ DOMAIN lines = 1..L
      /\ \A k \in 1..L : lines[k] = Append(table[k], Beside(problems, k))
    BY <1>1, <1>4, ReportIsSheet
<1> HIDE DEF lines
<1>6. report = GuardedRows(lines)
    BY <1>3, <1>5, CsvComesBack
<1>7. report = [k \in 1..L |-> GuardedRow(lines[k])]
    BY <1>5, <1>6 DEF GuardedRows
<1>8. Len(report) = L /\ DOMAIN report = 1..L
    BY <1>1, <1>7
<1>9. \A k \in 1..L : report[k] = GuardedRow(Append(table[k], Beside(problems, k)))
    <2> TAKE k \in 1..L
    <2>1. report[k] = GuardedRow(lines[k])
        BY <1>7
    <2>2. lines[k] = Append(table[k], Beside(problems, k))
        BY <1>5
    <2> QED BY <2>1, <2>2
<1> QED BY <1>4, <1>8, <1>9 DEF ReportRead

\* What is wrong with a file as a whole takes two lines.
LEMMA FileReportIsRead ==
    ASSUME NEW Char, Marks \subseteq Char, Words \subseteq Char, NEW column \in Char, NEW table
    PROVE  Len(ParseCsv(ToProblemReportCsv(table, <<Problem(1, column)>>))) = 2
<1> DEFINE problems == <<Problem(1, column)>>
           R == {1}
           Y == {column}
           complaint == Complaint(problems, 1)
           heading == <<"problems">>
           lines == <<(<<heading>>), (<<complaint>>)>>
           S == Seq(Char)
           L == Len(table)
<1>1. problems \in Seq([row : R, column : Y]) /\ 1 \in RowsOf(Range(problems))
    <2>1. Problem(1, column) \in [row : R, column : Y] /\ Problem(1, column).row = 1
        BY DEF Problem
    <2>2. DOMAIN problems = {1} /\ problems[1] = Problem(1, column)
        OBVIOUS
    <2>3. Problem(1, column) \in Range(problems)
        BY <2>2 DEF Range
    <2> QED BY <2>1, <2>3 DEF RowsOf
<1>2. {problems[k].row : k \in DOMAIN problems} = {1}
    <2>1. Problem(1, column).row = 1
        BY DEF Problem
    <2>2. DOMAIN problems = {1} /\ problems[1] = Problem(1, column)
        OBVIOUS
    <2> QED BY <2>1, <2>2
<1> HIDE DEF problems
<1>3. complaint \in S /\ complaint # <<>>
    <2>1. Y \subseteq Char
        OBVIOUS
    <2> HIDE DEF R, Y
    <2> QED BY <1>1, <2>1, ComplaintIsText
<1>4. heading \in S /\ heading # <<>>
    <2>1. "problems" \in Char
        BY DEF Words
    <2> QED BY <2>1
<1>5. ToProblemReportCsv(table, problems) = TextOf(lines)
    <2> HIDE DEF complaint
    <2>1. ~ ({problems[k].row : k \in DOMAIN problems} \ (2..Len(table)) = {})
        <3>1. 1 \notin 2..Len(table)
            OBVIOUS
        <3> QED BY <1>2, <3>1
    <2> HIDE DEF lines
    <2>2. ToProblemReportCsv(table, problems) =
              FlattenSeq([k \in DOMAIN lines |-> ToCsvLine(lines[k])])
        BY <2>1 DEF ToProblemReportCsv, lines, complaint
    <2> QED BY <2>2 DEF TextOf
<1> HIDE DEF complaint, heading, S
<1>6. IsSheet(lines, Char) /\ DOMAIN lines = 1..2
    <2>1. <<heading>> \in Seq(S) /\ <<complaint>> \in Seq(S)
        BY <1>3, <1>4
    <2>2. \A x : <<x>> # <<>> /\ (x # <<>> => <<x>> # <<(<<>>)>>)
        OBVIOUS
    <2> DEFINE T == Seq(S)
               one == <<heading>>
               two == <<complaint>>
    <2>3. one \in T /\ two \in T /\ one # <<>> /\ two # <<>> /\ one # <<(<<>>)>> /\ two # <<(<<>>)>>
        BY <1>3, <1>4, <2>1, <2>2
    <2> HIDE DEF T, one, two
    <2>4. <<one, two>> \in Seq(T) /\ DOMAIN <<one, two>> = 1..2
          /\ <<one, two>>[1] = one /\ <<one, two>>[2] = two
        BY <2>3
    <2>5. lines = <<one, two>>
        BY DEF one, two
    <2> HIDE DEF lines
    <2>6. \A k \in DOMAIN lines : k = 1 \/ k = 2
        BY <2>4, <2>5
    <2>7. \A k \in DOMAIN lines : lines[k] # <<>> /\ lines[k] # <<(<<>>)>>
        BY <2>3, <2>4, <2>5, <2>6
    <2>8. lines \in Seq(Seq(Seq(Char)))
        BY <2>4, <2>5 DEF T, S
    <2> QED BY <2>4, <2>5, <2>7, <2>8 DEF IsSheet
<1> HIDE DEF lines
<1>7. ParseCsv(TextOf(lines)) = GuardedRows(lines)
    BY <1>6, CsvComesBack
<1>8. GuardedRows(lines) = [k \in 1..2 |-> GuardedRow(lines[k])]
    BY <1>6 DEF GuardedRows
<1>9. Len(GuardedRows(lines)) = 2
    BY <1>8
<1> QED BY <1>5, <1>7, <1>9 DEF problems

\* A file that a report repeats as it is.
Plain(table) ==
    \A k \in DOMAIN table :
        /\ Len(table[k]) = Len(table[1])
        /\ \A n \in DOMAIN table[k] : Guarded(table[k][n]) = table[k][n]

\* "longer" is row and one cell more.
OneMore(row, longer, cell) ==
    /\ Len(longer) = Len(row) + 1 /\ DOMAIN longer = 1..(Len(row) + 1)
    /\ longer[Len(row) + 1] = cell
    /\ \A n \in 1..Len(row) : longer[n] = row[n]

\* A row no apostrophe is put into is repeated field by field.
LEMMA PlainRowIsRepeated ==
    ASSUME NEW S, NEW row \in Seq(S), NEW more \in S, \A n \in DOMAIN row : Guarded(row[n]) = row[n],
           NEW got, got = GuardedRow(Append(row, more))
    PROVE  OneMore(row, got, Guarded(more))
<1>1. DOMAIN row = 1..Len(row)
    OBVIOUS
<1>2. /\ Len(got) = Len(row) + 1 /\ got[Len(row) + 1] = Guarded(more)
      /\ DOMAIN got = 1..(Len(row) + 1)
      /\ \A n \in 1..Len(row) : got[n] = Guarded(row[n])
    BY LastIsGuarded
<1> QED BY <1>1, <1>2 DEF OneMore

\* The heading of the last column is written as it is.
LEMMA ProblemsIsPlain == Guarded(<<"problems">>) = <<"problems">>
<1>1. <<"problems">>[1] = "problems"
    OBVIOUS
<1>2. "problems" \notin {"=", "+", "-", "@", Tab, CR}
    BY DEF Tab, CR
<1> QED BY <1>1, <1>2 DEF Guarded

\* A header with "problems" after it has the same columns at the same places.
LEMMA HeaderIsReadAgain ==
    ASSUME NEW S, NEW header \in Seq(S), NEW longer, OneMore(header, longer, <<"problems">>)
    PROVE  /\ ReadHeader(longer) = ReadHeader(header)
           /\ MissingColumns(longer) = MissingColumns(header)
           /\ \A c \in Columns : ReadHeader(header)[c] \in 0..Len(header)
<1> DEFINE W == Len(header)
<1>1. W \in Nat /\ DOMAIN header = 1..W
    OBVIOUS
<1>2. /\ DOMAIN longer = 1..(W + 1) /\ longer[W + 1] = <<"problems">>
      /\ \A n \in 1..W : longer[n] = header[n]
    BY DEF OneMore
<1> HIDE DEF W
<1>3. ASSUME NEW c \in Columns PROVE Positions(longer, c) = Positions(header, c)
    <2>1. Normalised(longer[W + 1]) # Lower(<<c>>)
        BY <1>2, EmployeeCsvConstants
    <2>2. \A k : k \in 1..(W + 1) <=> k \in 1..W \/ k = W + 1
        BY <1>1
    <2>3. \A k \in 1..W : Normalised(longer[k]) = Normalised(header[k])
        BY <1>2
    <2>4. Positions(longer, c) = {k \in 1..(W + 1) : Normalised(longer[k]) = Lower(<<c>>)}
        BY <1>2 DEF Positions
    <2>5. Positions(header, c) = {k \in 1..W : Normalised(header[k]) = Lower(<<c>>)}
        BY <1>1 DEF Positions
    <2> QED BY <2>1, <2>2, <2>3, <2>4, <2>5
<1>4. ReadHeader(longer) = ReadHeader(header)
    BY <1>3 DEF ReadHeader
<1>5. MissingColumns(longer) = MissingColumns(header)
    BY <1>4 DEF MissingColumns
<1>6. ASSUME NEW c \in Columns PROVE ReadHeader(header)[c] \in 0..W
    <2> DEFINE P == Positions(header, c)
    <2>1. ReadHeader(header)[c] = IF P = {} THEN NotInFile ELSE Min(P)
        BY DEF ReadHeader
    <2>2. P \in SUBSET (1..W) /\ P \in SUBSET Int
        BY <1>1 DEF Positions
    <2> HIDE DEF P
    <2>3. CASE P = {}
        BY <1>1, <2>1, <2>3 DEF NotInFile
    <2>4. CASE P # {}
        <3>1. IsFiniteSet(P)
            BY <1>1, <2>2, PlacesAreFinite
        <3>2. Min(P) \in P
            BY <2>2, <2>4, <3>1, MinIsLeast
        <3>3. Min(P) \in 1..W
            BY <2>2, <3>2
        <3> QED BY <1>1, <2>1, <2>4, <3>3
    <2> QED BY <2>3, <2>4
<1> QED BY <1>4, <1>5, <1>6 DEF W

\* What the lines come to, once the columns are known.
ReadingOf(fields) ==
    LET columns == [line \in DOMAIN fields |-> ProblemColumns(fields[line])]
    IN  Reading(fields, WithoutRepeats(fields, columns))

\* A file repeated with one column more reads as the file itself.
LEMMA ReadsAgain ==
    ASSUME NEW S, NEW table \in Seq(Seq(S)), table # <<>>, Plain(table),
           NEW report, Len(report) = Len(table), NEW cells,
           \A k \in 1..Len(table) : OneMore(table[k], report[k], cells[k]),
           cells[1] = <<"problems">>
    PROVE  ParseEmployeeCsv(report) = ParseEmployeeCsv(table)
<1> DEFINE L == Len(table)
           header == table[1]
           longer == report[1]
           W == Len(header)
           at == ReadHeader(header)
           T == Seq(S)
<1>1. L \in Nat /\ L # 0 /\ DOMAIN table = 1..L /\ 1 \in 1..L /\ report # <<>>
      /\ \A k \in 1..L : table[k] \in T
    OBVIOUS
<1> HIDE DEF L, T
<1>2. header \in T /\ OneMore(header, longer, <<"problems">>)
    BY <1>1 DEF L
<1> HIDE DEF header, longer
<1>3. /\ ReadHeader(longer) = at /\ MissingColumns(longer) = MissingColumns(header)
      /\ \A c \in Columns : at[c] \in 0..W
    BY <1>2, HeaderIsReadAgain DEF T
<1> HIDE DEF at
<1>4. ASSUME NEW line \in 2..L, NEW c \in Columns
      PROVE  Field(report[line], at[c]) = Field(table[line], at[c])
    <2> DEFINE row == table[line]
               got == report[line]
               n == at[c]
    <2>1. line \in 1..L
        BY <1>1
    <2>2. row \in T /\ OneMore(row, got, cells[line])
        BY <1>1, <2>1 DEF L
    <2>3. Len(row) = W
        BY <1>1, <2>1 DEF Plain, header
    <2>4. n \in 0..W
        BY <1>3
    <2> HIDE DEF row, got, n, W
    <2>5. DOMAIN row = 1..W /\ W \in Nat /\ DOMAIN got = 1..(W + 1) /\ \A k \in 1..W : got[k] = row[k]
        BY <2>2, <2>3 DEF OneMore, T
    <2>6. CASE n = 0
        <3>1. n \notin DOMAIN row /\ n \notin DOMAIN got
            BY <2>5, <2>6
        <3> QED BY <3>1 DEF Field, row, got, n
    <2>7. CASE n # 0
        <3>1. n \in DOMAIN row /\ n \in DOMAIN got /\ got[n] = row[n]
            BY <2>4, <2>5, <2>7
        <3> QED BY <3>1 DEF Field, row, got, n
    <2> QED BY <2>6, <2>7
<1>5. Fields(report, at) = Fields(table, at)
    <2>1. Len(report) = L /\ Len(table) = L
        BY DEF L
    <2> QED BY <1>4, <2>1 DEF Fields
<1> DEFINE fields == Fields(table, at)
<1>6. ParseEmployeeCsv(table) =
          IF MissingColumns(header) # {} THEN AboutFile("header") ELSE ReadingOf(fields)
    BY DEF ParseEmployeeCsv, ReadingOf, header, at
<1>7. ParseEmployeeCsv(report) =
          IF MissingColumns(longer) # {} THEN AboutFile("header")
          ELSE ReadingOf(Fields(report, ReadHeader(longer)))
    BY <1>1 DEF ParseEmployeeCsv, ReadingOf, longer
<1> HIDE DEF fields
<1>8. Fields(report, ReadHeader(longer)) = fields
    BY <1>3, <1>5 DEF fields
<1> QED BY <1>3, <1>6, <1>7, <1>8

\* A file that could not be read is complained about as a whole.
LEMMA FileIsRefused ==
    ASSUME NEW table, NEW parsed, NEW column, parsed = AboutFile(column), NEW taken,
           NEW checked, checked = Checked(table, parsed, taken)
    PROVE  /\ checked.problems = <<Problem(1, column)>> /\ ValidRows(checked) = 0
           /\ checked.table = table
<1> DEFINE newRows == Where(parsed.rows, LAMBDA x : ~(x.email \in taken))
           oldRows == Where(parsed.rows, LAMBDA x : x.email \in taken)
           order == OrderByManager(newRows, taken)
           one == <<Problem(1, column)>>
           none == {}
           problems == ((parsed.problems \o About(oldRows, "email"))
                            \o About(order.missingManager, "managerEmail"))
                            \o About(order.cyclic, "managerEmail")
<1>1. parsed.rows = <<>> /\ parsed.problems = one
    BY DEF AboutFile
<1>2. checked = [table |-> table, totalRows |-> parsed.totalRows, problems |-> problems,
                 layers |-> order.layers]
    BY DEF Checked
<1>3. \A P : P \in SUBSET (1..0) => P = {}
    OBVIOUS
<1>4. newRows = <<>> /\ oldRows = <<>>
    <2> DEFINE e == parsed.rows
    <2>1. e \in Seq(none) /\ Len(e) = 0 /\ DOMAIN e = {}
        BY <1>1
    <2>2. newRows = Kept(e, {}) /\ oldRows = Kept(e, {})
        <3>1. {k \in DOMAIN e : ~(e[k].email \in taken)} = {k \in DOMAIN e : e[k] \in {}}
              /\ {k \in DOMAIN e : e[k].email \in taken} = {k \in DOMAIN e : e[k] \in {}}
            BY <2>1
        <3> QED BY <3>1 DEF Where, Kept
    <2>3. Range(e) \cap {} = {}
        OBVIOUS
    <2> HIDE DEF e, none, newRows, oldRows
    <2> QED BY <2>1, <2>2, <2>3, KeptAre
<1> HIDE DEF newRows, oldRows, problems, order
<1>5. newRows \in Seq(none) /\ Distinct(newRows) /\ Range(newRows) = {}
    <2>1. newRows \in Seq(none) /\ Len(newRows) = 0 /\ DOMAIN newRows = {}
        BY <1>4
    <2> QED BY <2>1 DEF Distinct, Range
<1> HIDE DEF none
<1>6. IsOrder(order, none, newRows, taken)
    BY <1>5, OrderIsWhole DEF order
<1>7. /\ order.missingManager \in Seq(none) /\ order.cyclic \in Seq(none)
      /\ Len(FlattenSeq(order.layers)) = Cardinality(AllOf(order.layers))
      /\ AllOf(order.layers) \cup Range(order.missingManager) \cup Range(order.cyclic) = {}
    BY <1>5, <1>6 DEF IsOrder
<1>8. AllOf(order.layers) = {} /\ order.missingManager = <<>> /\ order.cyclic = <<>>
    BY <1>7, SomethingIsThere
<1>9. ValidRows(checked) = 0
    <2>1. checked.layers = order.layers
        BY <1>2
    <2>2. Cardinality(AllOf(order.layers)) = 0
        BY <1>8, FS_EmptySet
    <2> QED BY <1>7, <2>1, <2>2 DEF ValidRows
<1>10. \A c : About(<<>>, c) = <<>>
    BY DEF About
<1>11. problems = ((one \o <<>>) \o <<>>) \o <<>>
    BY <1>1, <1>4, <1>8, <1>10 DEF problems
<1>12. one \o <<>> = one
    <2> DEFINE p == Problem(1, column)
    <2> HIDE DEF p
    <2>1. <<p>> \o <<>> = <<p>>
        OBVIOUS
    <2> QED BY <2>1 DEF p
<1>13. problems = one
    BY <1>11, <1>12
<1>14. checked.problems = problems /\ checked.table = table
    BY <1>2
<1> QED BY <1>9, <1>13, <1>14

\* A summary shows some of the problems if there are any.
LEMMA SummaryShowsSome ==
    ASSUME NEW checked, NEW X, checked.problems \in Seq(X)
    PROVE  (Summary(checked).problems = <<>>) <=> (checked.problems = <<>>)
<1> DEFINE problems == checked.problems
           L == Len(problems)
           top == Min({MaxReportedProblems, L})
           shown == SubSeq(problems, 1, top)
<1>1. Summary(checked).problems = shown
    BY DEF Summary
<1>2. L \in Nat /\ MaxReportedProblems \in Nat \ {0} /\ (L = 0 <=> problems = <<>>)
    BY EmployeeCsvConstants
<1>3. problems \in Seq(X)
    OBVIOUS
<1> HIDE DEF problems, L
<1>4. top \in {MaxReportedProblems, L} /\ top <= L
    <2> DEFINE S == {MaxReportedProblems, L}
    <2>1. S \in SUBSET Int /\ S # {} /\ L \in S
        BY <1>2
    <2>2. IsFiniteSet(S)
        <3>1. IsFiniteSet({MaxReportedProblems}) /\ IsFiniteSet({L})
            BY FS_Singleton
        <3>2. IsFiniteSet({MaxReportedProblems} \cup {L})
            BY <3>1, FS_Union
        <3>3. {MaxReportedProblems} \cup {L} = S
            OBVIOUS
        <3> QED BY <3>2, <3>3
    <2> HIDE DEF S
    <2>3. Min(S) \in S /\ Min(S) <= L
        BY <2>1, <2>2, MinIsLeast
    <2> QED BY <2>3 DEF S
<1> HIDE DEF top
<1>5. top \in 0..L /\ (top = 0 <=> L = 0)
    BY <1>2, <1>4
<1>6. shown \in Seq(X) /\ Len(shown) = top
    <2>1. L = Len(problems)
        BY DEF L
    <2>2. \A i \in 1..top : problems[i] \in X
        BY <1>2, <1>3, <1>5, <2>1
    <2>3. /\ SubSeq(problems, 1, top) \in Seq(X)
          /\ Len(SubSeq(problems, 1, top)) = IF 1 <= top THEN top - 1 + 1 ELSE 0
        BY <1>2, <1>3, <1>5, <2>1, <2>2, SubSeqProperties
    <2> QED BY <1>2, <1>5, <2>3
<1> HIDE DEF shown
<1>7. shown = <<>> <=> top = 0
    BY <1>6
<1> QED BY <1>1, <1>2, <1>5, <1>7 DEF problems

\* Enough characters to write a file, and a report on it, with.
Letters == STRING \cup Marks \cup Words \cup CheckNames \cup {"file", "header"}

\* Whatever a text is and whoever was there, its answer is whole.
LEMMA AnswerIsWhole ==
    ASSUME NEW text \in Seq(STRING), NEW taken,
           NEW c, c = Checked(ParseCsv(text), ParseEmployeeCsv(ParseCsv(text)), taken),
           NEW summary, summary = Summary(c)
    PROVE  AnswersWhole(c, summary, taken)
<1> DEFINE table == ParseCsv(text)
           L == Len(table)
           parsed == ParseEmployeeCsv(table)
           report == ParseCsv(ToProblemReportCsv(table, c.problems))
           rows == AllOf(c.layers)
           placed == RowsOf(rows)
           wrong == RowsOf(Range(c.problems))
           Char == Letters
           problems == c.problems
<1>1. /\ Marks \subseteq Char /\ Words \subseteq Char /\ CheckNames \subseteq Char
      /\ "file" \in Char /\ "header" \in Char
    BY DEF Letters
<1>2. IsSheet(table, Char)
    <2> DEFINE A == STRING
    <2>1. A \subseteq Char
        BY DEF Letters
    <2>2. text \in Seq(A)
        OBVIOUS
    <2> HIDE DEF Char, A
    <2>3. text \in Seq(Char)
        BY <2>1, <2>2
    <2> QED BY <2>3, ParsedIsSheet
<1> HIDE DEF table, Char
<1>3. L \in Nat /\ DOMAIN table = 1..L /\ table \in Seq(Range(table)) /\ table \in Seq(Seq(Seq(Char)))
    <2> DEFINE T == Seq(Seq(Char))
    <2>1. table \in Seq(T)
        BY <1>2 DEF IsSheet
    <2> HIDE DEF T
    <2>2. table \in Seq(Range(table))
        BY <2>1 DEF Range
    <2> QED BY <2>1, <2>2 DEF T
<1>4. c = Checked(table, parsed, taken)
    BY DEF table
<1> HIDE DEF parsed, report, wrong, placed, rows
<1>5. summary.validRows = ValidRows(c) /\ summary.totalRows = c.totalRows
      /\ summary.problems = Summary(c).problems
    BY DEF Summary
<1>6. ASSUME NEW column \in Char, parsed = AboutFile(column)
      PROVE  c.table = table /\ 1 \in wrong /\ summary.validRows = 0 /\ Len(report) = 2
    <2>1. c.problems = <<Problem(1, column)>> /\ ValidRows(c) = 0 /\ c.table = table
        BY <1>4, <1>6, FileIsRefused
    <2>2. Len(report) = 2
        <3>1. Len(ParseCsv(ToProblemReportCsv(table, <<Problem(1, column)>>))) = 2
            BY <1>1, FileReportIsRead
        <3> QED BY <2>1, <3>1 DEF report
    <2>3. 1 \in wrong
        <3>1. DOMAIN c.problems = {1} /\ c.problems[1] = Problem(1, column)
            BY <2>1
        <3>2. c.problems[1].row = 1
            BY <3>1 DEF Problem
        <3> QED BY <3>1, <3>2 DEF wrong, RowsOf, Range
    <2> QED BY <1>5, <2>1, <2>2, <2>3
<1>7. ASSUME table # <<>>, MissingColumns(table[1]) = {}
      PROVE  /\ c.table = table /\ c.totalRows = L - 1 /\ L \in Nat \ {0}
             /\ IsChecked(c, parsed, taken, L, CheckNames)
    <2>1. L \in Nat \ {0}
        BY <1>3, <1>7
    <2>2. IsReading(parsed, L, CheckNames)
        BY <1>3, <1>7, ParsedIsReading DEF parsed
    <2> DEFINE Y == CheckNames
    <2>3. "email" \in Y /\ "managerEmail" \in Y
        BY DEF CheckNames
    <2> HIDE DEF Y, L
    <2>4. IsReading(parsed, L, Y)
        BY <2>2 DEF Y
    <2>5. IsChecked(c, parsed, taken, L, Y) /\ c.totalRows = L - 1 /\ c.table = table
        BY <1>4, <2>1, <2>3, <2>4, CheckIsWhole
    <2> QED BY <2>1, <2>5 DEF Y
<1> DEFINE said == {c.problems[k].row : k \in DOMAIN c.problems}
           above(k) == AddressesOf(Before(c.layers, k))
           Layers == \A k \in DOMAIN c.layers : \A x \in Range(c.layers[k]) :
                         /\ x.manager \in taken \cup above(k) \cup {<<>>}
                         /\ x.email \notin taken \cup above(k)
           LeftOut == \A x \in Range(parsed.rows) \ rows :
                         \/ x.email \in taken
                         \/ x.manager \notin taken \cup AddressesOf(rows) \cup {<<>>}
           Marked == \A k \in 2..Len(report) : (report[k][Len(report[k])] # <<>>) <=> k \in wrong
<1>8. ASSUME table # <<>>, MissingColumns(table[1]) = {}
      PROVE  /\ 1 \notin wrong /\ placed \cap wrong = {} /\ placed \cup wrong = 2..Len(c.table)
             /\ summary.validRows + Cardinality(wrong) = summary.totalRows
             /\ (summary.problems = <<>>) <=> (wrong = {})
             /\ Layers /\ LeftOut /\ Marked
             /\ Len(report) = Len(c.table)
             /\ Plain(c.table) => ParseEmployeeCsv(report) = parsed
    <2> DEFINE R == 2..L
               Y == CheckNames
    <2>1. /\ c.table = table /\ c.totalRows = L - 1 /\ L \in Nat \ {0}
          /\ problems \in Seq([row : R, column : Y])
          /\ placed \cap wrong = {} /\ placed \cup wrong = R
          /\ ValidRows(c) + Cardinality(wrong) = L - 1
          /\ LayersOK(c.layers, taken)
          /\ \A k \in DOMAIN c.layers : \A x \in Range(c.layers[k]) : x.email \notin taken \cup above(k)
          /\ \A x \in Range(parsed.rows) \ rows : x.email \in taken \/ x.manager \notin MayManage(rows, taken)
        BY <1>7, <1>8 DEF IsChecked, placed, wrong, rows
    <2>2. 1 \notin R
        OBVIOUS
    <2>3. Layers
        BY <2>1 DEF LayersOK, MayManage
    <2>4. LeftOut
        BY <2>1 DEF MayManage
    <2> HIDE DEF Layers, LeftOut
    <2>5. (summary.problems = <<>>) <=> (wrong = {})
        <3> DEFINE X == [row : R, column : Y]
        <3>1. problems \in Seq(X)
            BY <2>1
        <3> HIDE DEF X
        <3>2. (Summary(c).problems = <<>>) <=> (problems = <<>>)
            BY <3>1, SummaryShowsSome
        <3>3. problems # <<>> <=> Range(problems) # {}
            BY <3>1, SomethingIsThere
        <3>4. wrong = {} <=> Range(problems) = {}
            BY DEF wrong, RowsOf
        <3> QED BY <1>5, <3>2, <3>3, <3>4
    <2> HIDE DEF Y, problems
    <2>6. Y \subseteq Char
        BY <1>1 DEF Y
    <2>7. /\ Len(report) = L /\ DOMAIN report = 1..L
          /\ \A k \in 1..L : /\ Beside(problems, k) \in Seq(Char)
                              /\ report[k] = GuardedRow(Append(table[k], Beside(problems, k)))
        <3>1. report = ParseCsv(ToProblemReportCsv(table, problems))
            BY <2>1 DEF report, problems
        <3>2. problems \in Seq([row : R, column : Y]) /\ R = 2..Len(table) /\ table # <<>>
            BY <1>8, <2>1
        <3> HIDE DEF L, R
        <3>3. ReportRead(report, table, problems, Char)
            BY <1>1, <1>2, <2>6, <3>1, <3>2, ReportIsRead
        <3> QED BY <3>3 DEF ReportRead, L
    <2>8. ASSUME NEW k \in 1..L
          PROVE  report[k][Len(report[k])] = Guarded(Beside(problems, k))
        <3> DEFINE row == table[k]
                   more == Beside(problems, k)
                   got == report[k]
                   S == Seq(Char)
        <3>1. row \in Seq(S) /\ more \in S /\ got = GuardedRow(Append(row, more))
            BY <1>3, <2>7
        <3> HIDE DEF row, more, got, S
        <3>2. Len(got) = Len(row) + 1 /\ got[Len(row) + 1] = Guarded(more)
            BY <3>1, LastIsGuarded
        <3> QED BY <3>2 DEF got, more
    <2>9. Marked
        <3> SUFFICES ASSUME NEW k \in 2..L
                     PROVE  (report[k][Len(report[k])] # <<>>) <=> k \in wrong
            BY <2>7
        <3> DEFINE cell == Complaint(problems, k)
        <3>1. k \in 1..L /\ k # 1
            BY <1>3
        <3>2. report[k][Len(report[k])] = Guarded(cell)
            BY <2>8, <3>1 DEF Beside
        <3> HIDE DEF R
        <3>3. cell \in Seq(Char) /\ (cell # <<>> <=> k \in RowsOf(Range(problems)))
            BY <1>1, <2>1, <2>6, ComplaintIsText
        <3>4. wrong = RowsOf(Range(problems))
            BY DEF wrong, problems
        <3> HIDE DEF cell
        <3>5. Guarded(cell) = <<>> <=> cell = <<>>
            <4>1. Guarded(cell) = <<>> => cell = <<>>
                BY <1>1, <3>3, GuardedText
            <4>2. Guarded(<<>>) = <<>>
                BY DEF Guarded
            <4> QED BY <4>1, <4>2
        <3> QED BY <3>2, <3>3, <3>4, <3>5
    <2>10. ASSUME Plain(table) PROVE ParseEmployeeCsv(report) = parsed
        <3> DEFINE cells == [k \in 1..L |-> Guarded(Beside(problems, k))]
                   S == Seq(Char)
        <3>1. ASSUME NEW k \in 1..L PROVE OneMore(table[k], report[k], Guarded(Beside(problems, k)))
            <4> DEFINE row == table[k]
                       more == Beside(problems, k)
                       got == report[k]
            <4>1. row \in Seq(S) /\ more \in S /\ got = GuardedRow(Append(row, more))
                BY <1>3, <2>7
            <4>2. \A n \in DOMAIN row : Guarded(row[n]) = row[n]
                BY <1>3, <2>10 DEF Plain
            <4> HIDE DEF row, more, got, S
            <4>3. OneMore(row, got, Guarded(more))
                BY <4>1, <4>2, PlainRowIsRepeated
            <4> QED BY <4>3 DEF row, more, got
        <3>2. \A k \in 1..L : cells[k] = Guarded(Beside(problems, k))
            OBVIOUS
        <3>3. 1 \in 1..L
            BY <2>1
        <3>4. cells[1] = <<"problems">>
            BY <3>2, <3>3, ProblemsIsPlain DEF Beside
        <3> HIDE DEF cells
        <3>5. \A k \in 1..Len(table) : OneMore(table[k], report[k], cells[k])
            BY <3>1, <3>2
        <3>6. Len(report) = Len(table) /\ table \in Seq(Seq(S))
            BY <1>3, <2>7
        <3> HIDE DEF S, L
        <3>7. ParseEmployeeCsv(report) = ParseEmployeeCsv(table)
            BY <1>8, <2>10, <3>4, <3>5, <3>6, ReadsAgain
        <3> QED BY <3>7 DEF parsed
    <2> HIDE DEF Marked
    <2> QED BY <1>5, <2>1, <2>2, <2>3, <2>4, <2>5, <2>7, <2>9, <2>10
<1> DEFINE Body == IF 1 \in wrong THEN summary.validRows = 0 /\ Len(report) = 2
                   ELSE /\ placed \cap wrong = {} /\ placed \cup wrong = 2..Len(c.table)
                        /\ summary.validRows + Cardinality(wrong) = summary.totalRows
                        /\ (summary.problems = <<>>) <=> (wrong = {})
                        /\ Layers /\ LeftOut
                        /\ Len(report) = Len(c.table) /\ Marked
                        /\ Plain(c.table) => ParseEmployeeCsv(report) = parsed
<1>9. Body
    <2> HIDE DEF Layers, LeftOut, Marked
    <2>1. CASE table = <<>>
        <3>1. parsed = AboutFile("file")
            BY <2>1 DEF parsed, ParseEmployeeCsv
        <3> QED BY <1>1, <1>6, <3>1
    <2>2. CASE table # <<>> /\ MissingColumns(table[1]) # {}
        <3>1. parsed = AboutFile("header")
            BY <2>2 DEF parsed, ParseEmployeeCsv
        <3> QED BY <1>1, <1>6, <3>1
    <2>3. CASE table # <<>> /\ MissingColumns(table[1]) = {}
        BY <1>8, <2>3
    <2> QED BY <2>1, <2>2, <2>3
<1>10. c.table = table
    <2>1. CASE table = <<>>
        <3>1. parsed = AboutFile("file")
            BY <2>1 DEF parsed, ParseEmployeeCsv
        <3> QED BY <1>1, <1>6, <3>1
    <2>2. CASE table # <<>> /\ MissingColumns(table[1]) # {}
        <3>1. parsed = AboutFile("header")
            BY <2>2 DEF parsed, ParseEmployeeCsv
        <3> QED BY <1>1, <1>6, <3>1
    <2>3. CASE table # <<>> /\ MissingColumns(table[1]) = {}
        BY <1>7, <2>3
    <2> QED BY <2>1, <2>2, <2>3
<1>11. parsed = ParseEmployeeCsv(c.table) /\ report = ParseCsv(ToProblemReportCsv(c.table, c.problems))
    BY <1>10 DEF parsed, report
<1>12. /\ UNION {Range(c.layers[k]) : k \in DOMAIN c.layers} = rows
       /\ placed = {x.row : x \in rows}
       /\ wrong = {c.problems[k].row : k \in DOMAIN c.problems}
       /\ AddressesOf(rows) = {x.email : x \in rows}
    BY DEF rows, placed, wrong, AllOf, RowsOf, AddressesOf, Range
<1>13. \A k : UNION {{x.email : x \in Range(c.layers[n])} : n \in 1..(k - 1)} = above(k)
    BY DEF AddressesOf, Before
<1> DEFINE read == ParseEmployeeCsv(c.table)
           theRows == UNION {Range(c.layers[k]) : k \in DOMAIN c.layers}
           theWrong == {c.problems[k].row : k \in DOMAIN c.problems}
           over(k) == UNION {{x.email : x \in Range(c.layers[n])} : n \in 1..(k - 1)}
           again == ParseCsv(ToProblemReportCsv(c.table, c.problems))
           thePlaced == {x.row : x \in theRows}
           theMails == {x.email : x \in theRows}
<1>14. /\ read = parsed /\ theRows = rows /\ thePlaced = placed /\ theWrong = wrong
       /\ again = report /\ theMails = AddressesOf(rows)
       /\ \A k : over(k) = above(k)
    BY <1>11, <1>12, <1>13
<1> HIDE DEF read, theRows, theWrong, over, again, above, thePlaced, theMails
<1>15. IF 1 \in theWrong THEN summary.validRows = 0 /\ Len(again) = 2
       ELSE /\ thePlaced \cap theWrong = {} /\ thePlaced \cup theWrong = 2..Len(c.table)
            /\ summary.validRows + Cardinality(theWrong) = summary.totalRows
            /\ (summary.problems = <<>>) <=> (theWrong = {})
            /\ \A k \in DOMAIN c.layers : \A x \in Range(c.layers[k]) :
                  /\ x.manager \in taken \cup over(k) \cup {<<>>}
                  /\ x.email \notin taken \cup over(k)
            /\ \A x \in Range(read.rows) \ theRows :
                  \/ x.email \in taken
                  \/ x.manager \notin taken \cup theMails \cup {<<>>}
            /\ Len(again) = Len(c.table)
            /\ \A k \in 2..Len(again) : (again[k][Len(again[k])] # <<>>) <=> k \in theWrong
            /\ Plain(c.table) => ParseEmployeeCsv(again) = read
    <2>1. CASE 1 \in wrong
        BY <1>9, <1>14, <2>1
    <2>2. CASE 1 \notin wrong
        <3>1. Layers /\ LeftOut /\ Marked
            BY <1>9, <2>2
        <3>2. \A k \in DOMAIN c.layers : \A x \in Range(c.layers[k]) :
                  /\ x.manager \in taken \cup over(k) \cup {<<>>}
                  /\ x.email \notin taken \cup over(k)
            BY <1>14, <3>1
        <3>3. \A x \in Range(read.rows) \ theRows :
                  \/ x.email \in taken
                  \/ x.manager \notin taken \cup theMails \cup {<<>>}
            BY <1>14, <3>1
        <3>4. \A k \in 2..Len(again) : (again[k][Len(again[k])] # <<>>) <=> k \in theWrong
            BY <1>14, <3>1
        <3> HIDE DEF Layers, LeftOut, Marked
        <3> QED BY <1>9, <1>14, <2>2, <3>2, <3>3, <3>4
    <2> QED BY <2>1, <2>2
<1> QED BY <1>15 DEF AnswersWhole, Plain, read, theRows, theWrong, over, again, thePlaced, theMails

\* What is answered about a file is Checked of its text and of the addresses of the time.
CheckedOK ==
    req.kind = "checked" =>
        /\ req.text \in Seq(STRING)
        /\ req.checked = Checked(ParseCsv(req.text), ParseEmployeeCsv(ParseCsv(req.text)), req.taken)
        /\ req.summary = Summary(req.checked)

\* An upload is answered with what was made of its text.
LEMMA UploadIsChecked ==
    ASSUME NEW f \in Uploads, Upload(f)
    PROVE  CheckedOK'
<1> DEFINE answer == Checked(ParseCsv(f.text), ParseEmployeeCsv(ParseCsv(f.text)), TakenAddresses(db))
<1>1. PICK checked \in {CheckFile(db, f.subject, f.text)} \ {Forbidden, Failed} :
          req' = [kind |-> "checked", text |-> f.text, checked |-> checked,
                  summary |-> Summary(checked), taken |-> TakenAddresses(db)]
    BY DEF Upload
<1>2. checked = answer
    <2>1. CheckFile(db, f.subject, f.text) \in {Forbidden, Failed, answer}
        BY DEF CheckFile
    <2> HIDE DEF answer
    <2> QED BY <1>1, <2>1
<1>3. f.text \in Seq(STRING)
    BY ScreensConstants
<1>4. /\ req'.kind = "checked" /\ req'.text = f.text /\ req'.checked = answer
      /\ req'.summary = Summary(req'.checked) /\ req'.taken = TakenAddresses(db)
    <2> HIDE DEF answer
    <2> QED BY <1>1, <1>2
<1> QED BY <1>3, <1>4 DEF CheckedOK

\* Nothing but an upload answers about a file, and the answer stays until it is given.
LEMMA AnswersStay ==
    ASSUME IInv, CheckedOK, [Next]_vars
    PROVE  CheckedOK'
<1>1. /\ IsCompany(db) /\ writes \in 0..MaxWrites /\ writes \in Nat
      /\ req.kind = "detail" => DetailOK
      /\ req.kind = "export" => FlowOK(req) /\ WalkOK(db, req)
    BY ScreensConstants DEF IInv
<1>2. req' = NoRequest \/ req'.kind \in {"detail", "export"} => CheckedOK'
    BY DEF CheckedOK, NoRequest
<1>3. req' = req => CheckedOK'
    BY DEF CheckedOK
<1>4. CASE Write
    <2>1. req' = Noticed
        BY <1>1, <1>4, Writing
    <2>2. CASE req.kind = "export"
        <3>1. req'.kind = "export"
            BY <1>1, <1>4, <2>2, WritingUnder
        <3> QED BY <1>2, <3>1
    <2>3. CASE req.kind # "export"
        BY <1>3, <2>1, <2>3 DEF Noticed
    <2> QED BY <2>2, <2>3
<1>5. ASSUME NEW i \in Ids, OpenDetail(i) PROVE CheckedOK'
    <2>1. req'.kind = "detail"
        BY <1>5 DEF OpenDetail
    <2> QED BY <1>2, <2>1
<1>6. ASSUME NEW e \in Exports, BeginExport(e) PROVE CheckedOK'
    <2>1. req'.kind = "export"
        BY <1>6 DEF BeginExport
    <2> QED BY <1>2, <2>1
<1>7. ASSUME NEW f \in Uploads, Upload(f) PROVE CheckedOK'
    BY <1>7, UploadIsChecked
<1>8. CASE ListHistory
    <2>1. req' = NoRequest \/ DetailOK'
        BY <1>1, <1>8, ListingHistory DEF ListHistory
    <2>2. DetailOK' => req'.kind = "detail"
        BY DEF DetailOK
    <2> QED BY <1>2, <2>1, <2>2
<1>9. CASE CountDirectReports
    <2>1. DetailOK'
        BY <1>1, <1>9, CountingReports DEF CountDirectReports
    <2>2. req'.kind = "detail"
        BY <2>1 DEF DetailOK
    <2> QED BY <1>2, <2>2
<1>10. CASE ReadPage
    <2>1. req' = NoRequest \/ req'.kind = "export"
        BY <1>1, <1>10, ReadingPage DEF ReadPage
    <2> QED BY <1>2, <2>1
<1>11. CASE WriteLine
    <2>1. req'.kind = "export"
        BY <1>1, <1>11, WritingLine DEF WriteLine
    <2> QED BY <1>2, <2>1
<1>12. CASE Answer
    BY <1>2, <1>12 DEF Answer
<1>13. CASE ClientReads \/ ClientGoes
    <2>1. req'.kind = "export"
        <3>1. req.kind = "export"
            BY <1>13 DEF ClientReads, ClientGoes
        <3> QED BY <1>1, <1>13, <3>1, ReadingSocket
    <2> QED BY <1>2, <2>1
<1>14. CASE UNCHANGED vars
    BY <1>3, <1>14 DEF vars
<1> QED BY <1>4, <1>5, <1>6, <1>7, <1>8, <1>9, <1>10, <1>11, <1>12, <1>13, <1>14 DEF Next, Serve

\* Whatever file is uploaded, every row of it is either placed after its manager or
\* complained about, and a row with nothing wrong of its own is left out only with its
\* manager; the report repeats every row with its own complaint beside it, and reads back
\* to the same answer (src/domain/employeeCsv.ts: a caller cannot half-import somebody).
THEOREM PreviewsAreWhole == Spec => []PreviewIsWhole
<1>1. Init => CheckedOK
    BY DEF Init, CheckedOK, NoRequest
<1>2. IInv /\ CheckedOK /\ [Next]_vars => CheckedOK'
    BY AnswersStay
<1>3. CheckedOK => PreviewIsWhole
    <2> SUFFICES ASSUME CheckedOK, req.kind = "checked"
                 PROVE  AnswersWhole(req.checked, req.summary, req.taken)
        BY DEF PreviewIsWhole
    <2> QED BY AnswerIsWhole DEF CheckedOK
<1>4. Spec => []IInv
    BY Invariantly
<1> QED BY <1>1, <1>2, <1>3, <1>4, PTL DEF Spec
=============================================================================
