--------------------------- MODULE PayrollProofs ----------------------------
(***************************************************************************)
(* What an order makes of a finite set, and from it which record is in     *)
(* force on a day: the facts about OrderBy, PayOn and History that the     *)
(* proofs about lists, pages and histories rest on.  And what the          *)
(* arithmetic of pay promises for every amount, percentage, rate and band: *)
(* the comparisons with a band agree wherever they are made, a raise is    *)
(* rounded once and keeps people in order, and the estimate in dollars is  *)
(* close to what is paid.                                                  *)
(***************************************************************************)
EXTENDS PayBands, FiniteSetTheorems, FunctionTheorems, TLAPS

-----------------------------------------------------------------------------
(* Ranks *)

\* R is a strict total order of S.
StrictlyOrders(R, S) ==
    /\ \A x \in S : <<x, x>> \notin R
    /\ \A x, y, z \in S : <<x, y>> \in R /\ <<y, z>> \in R => <<x, z>> \in R
    /\ \A x, y \in S : x # y => <<x, y>> \in R \/ <<y, x>> \in R

Below(R, S, x) == {y \in S : <<y, x>> \in R}

\* How many come before.
Rank(R, S, x) == Cardinality(Below(R, S, x))

LEMMA RankRises ==
    ASSUME NEW S, IsFiniteSet(S), NEW R, StrictlyOrders(R, S)
    PROVE  /\ \A x \in S : Rank(R, S, x) \in 0..(Cardinality(S) - 1)
           /\ \A x, y \in S : <<x, y>> \in R <=> Rank(R, S, x) < Rank(R, S, y)
<1>1. \A x \in S : IsFiniteSet(Below(R, S, x)) /\ Rank(R, S, x) \in Nat
    BY FS_Subset, FS_CardinalityType DEF Below, Rank
<1>2. Cardinality(S) \in Nat
    BY FS_CardinalityType
<1>3. ASSUME NEW x \in S PROVE Rank(R, S, x) < Cardinality(S)
    <2>1. Below(R, S, x) \subseteq S /\ x \notin Below(R, S, x)
        BY DEF Below, StrictlyOrders
    <2>2. Rank(R, S, x) <= Cardinality(S) /\ (Rank(R, S, x) = Cardinality(S) => S = Below(R, S, x))
        BY <2>1, FS_Subset DEF Rank
    <2> QED BY <1>1, <1>2, <2>1, <2>2
<1>4. ASSUME NEW x \in S, NEW y \in S, <<x, y>> \in R PROVE Rank(R, S, x) < Rank(R, S, y)
    <2>1. Below(R, S, x) \subseteq Below(R, S, y) /\ x \in Below(R, S, y) /\ x \notin Below(R, S, x)
        BY <1>4 DEF Below, StrictlyOrders
    <2>2. /\ Rank(R, S, x) <= Rank(R, S, y)
          /\ Rank(R, S, x) = Rank(R, S, y) => Below(R, S, y) = Below(R, S, x)
        BY <1>1, <2>1, FS_Subset DEF Rank
    <2> QED BY <1>1, <2>1, <2>2
<1>5. ASSUME NEW x \in S, NEW y \in S, Rank(R, S, x) < Rank(R, S, y) PROVE <<x, y>> \in R
    <2>1. x # y
        BY <1>1, <1>5
    <2>2. ~ Rank(R, S, y) < Rank(R, S, x)
        BY <1>1, <1>5
    <2> QED BY <1>4, <2>1, <2>2 DEF StrictlyOrders
<1> QED BY <1>1, <1>2, <1>3, <1>4, <1>5

LEMMA EveryRankIsHeld ==
    ASSUME NEW S, IsFiniteSet(S), NEW R, StrictlyOrders(R, S)
    PROVE  \A k \in 1..Cardinality(S) : \E x \in S : Rank(R, S, x) = k - 1
<1> DEFINE n == Cardinality(S)
           place == [x \in S |-> Rank(R, S, x) + 1]
<1>1. n \in Nat /\ IsFiniteSet(1..n) /\ Cardinality(1..n) = n
    BY FS_CardinalityType, FS_Interval
<1>2. place \in [S -> 1..n]
    BY <1>1, RankRises
<1>3. ASSUME NEW x \in S, NEW y \in S, place[x] = place[y] PROVE x = y
    <2>1. Rank(R, S, x) \in Int /\ Rank(R, S, y) \in Int
        BY <1>1, RankRises
    <2>2. Rank(R, S, x) = Rank(R, S, y)
        BY <1>3, <2>1
    <2>3. <<x, y>> \notin R /\ <<y, x>> \notin R
        BY <2>1, <2>2, RankRises
    <2> QED BY <2>3 DEF StrictlyOrders
<1>4. place \in Injection(S, 1..n)
    BY <1>2, <1>3 DEF Injection, IsInjective
<1>5. place \in Surjection(S, 1..n)
    BY <1>1, <1>4, FS_Injection
<1>6. \A k \in 1..n : \E x \in S : place[x] = k
    BY <1>5 DEF Surjection
<1> QED BY <1>1, <1>6, RankRises

\* A list that puts at each place somebody with as many before them is S in the order of R.
LEMMA SortedByRank ==
    ASSUME NEW S, IsFiniteSet(S), NEW R, StrictlyOrders(R, S), NEW s,
           s = [k \in 1..Cardinality(S) |-> s[k]],
           \A k \in 1..Cardinality(S) : s[k] \in S /\ Rank(R, S, s[k]) = k - 1
    PROVE  /\ s \in Seq(S) /\ Len(s) = Cardinality(S) /\ Cardinality(S) \in Nat
           /\ \A x \in S : /\ Rank(R, S, x) + 1 \in 1..Cardinality(S)
                           /\ s[Rank(R, S, x) + 1] = x
           /\ \A j, k \in 1..Cardinality(S) : j < k <=> <<s[j], s[k]>> \in R
<1>1. Cardinality(S) \in Nat
    BY FS_CardinalityType
<1>2. s \in Seq(S) /\ Len(s) = Cardinality(S)
    BY <1>1
<1>3. ASSUME NEW x \in S
      PROVE  Rank(R, S, x) + 1 \in 1..Cardinality(S) /\ s[Rank(R, S, x) + 1] = x
    <2>1. Rank(R, S, x) \in 0..(Cardinality(S) - 1)
        BY RankRises
    <2> DEFINE y == s[Rank(R, S, x) + 1]
    <2>2. y \in S /\ Rank(R, S, y) = Rank(R, S, x)
        BY <1>1, <2>1
    <2>3. <<x, y>> \notin R /\ <<y, x>> \notin R
        BY <2>1, <2>2, RankRises
    <2> QED BY <1>1, <2>1, <2>2, <2>3 DEF StrictlyOrders
<1>4. ASSUME NEW j \in 1..Cardinality(S), NEW k \in 1..Cardinality(S)
      PROVE  j < k <=> <<s[j], s[k]>> \in R
    BY <1>1, RankRises
<1> QED BY <1>1, <1>2, <1>3, <1>4

LEMMA GreatestExists ==
    ASSUME NEW S, IsFiniteSet(S), S # {}, NEW R, StrictlyOrders(R, S)
    PROVE  \E x \in S : \A y \in S \ {x} : <<y, x>> \in R
<1>1. Cardinality(S) \in Nat /\ Cardinality(S) # 0
    BY FS_CardinalityType, FS_EmptySet
<1>2. PICK x \in S : Rank(R, S, x) = Cardinality(S) - 1
    BY <1>1, EveryRankIsHeld
<1>3. ASSUME NEW y \in S, y # x PROVE <<y, x>> \in R
    <2>1. Rank(R, S, y) \in 0..(Cardinality(S) - 1)
        BY RankRises
    <2>2. ~ Rank(R, S, x) < Rank(R, S, y)
        BY <1>1, <1>2, <2>1
    <2>3. <<x, y>> \notin R
        BY <2>2, RankRises
    <2> QED BY <1>3, <2>3 DEF StrictlyOrders
<1> QED BY <1>3

LEMMA MaxIsGreatest ==
    ASSUME NEW S \in SUBSET Int, IsFiniteSet(S), S # {}
    PROVE  Max(S) \in S /\ \A y \in S : y <= Max(S)
<1> DEFINE R == {p \in S \X S : p[1] < p[2]}
<1>1. StrictlyOrders(R, S)
    <2>1. \A x, y \in S : <<x, y>> \in R <=> x < y
        OBVIOUS
    <2>2. \A x \in S : x \in Int
        OBVIOUS
    <2> HIDE DEF R
    <2> QED BY <2>1, <2>2 DEF StrictlyOrders
<1>2. PICK x \in S : \A y \in S \ {x} : <<y, x>> \in R
    BY <1>1, GreatestExists
<1>3. \A y \in S : y # x => x > y
    BY <1>2
<1>4. \A y \in S : x >= y
    BY <1>3
<1> QED BY <1>4 DEF Max

LEMMA MinIsLeast ==
    ASSUME NEW S \in SUBSET Int, IsFiniteSet(S), S # {}
    PROVE  Min(S) \in S /\ \A y \in S : Min(S) <= y
<1> DEFINE R == {p \in S \X S : p[2] < p[1]}
<1>1. StrictlyOrders(R, S)
    <2>1. \A x, y \in S : <<x, y>> \in R <=> y < x
        OBVIOUS
    <2>2. \A x \in S : x \in Int
        OBVIOUS
    <2> HIDE DEF R
    <2> QED BY <2>1, <2>2 DEF StrictlyOrders
<1>2. PICK x \in S : \A y \in S \ {x} : <<y, x>> \in R
    BY <1>1, GreatestExists
<1>3. \A y \in S : y # x => x < y
    BY <1>2
<1>4. \A y \in S : x <= y
    BY <1>3
<1> QED BY <1>4 DEF Min

LEMMA Lesser ==
    ASSUME NEW a \in Int, NEW b \in Int
    PROVE  Min({a, b}) = (IF a <= b THEN a ELSE b)
<1>1. {a, b} \in SUBSET Int /\ {a, b} # {} /\ a \in {a, b} /\ b \in {a, b}
    OBVIOUS
<1>2. IsFiniteSet({a, b})
    <2>1. IsFiniteSet({a} \cup {b})
        BY FS_Singleton, FS_AddElement
    <2>2. {a} \cup {b} = {a, b}
        OBVIOUS
    <2> QED BY <2>1, <2>2
<1> DEFINE S == {a, b}
<1> HIDE DEF S
<1>3. S \in SUBSET Int /\ S # {} /\ IsFiniteSet(S)
    BY <1>1, <1>2 DEF S
<1>4. Min(S) \in S /\ \A y \in S : Min(S) <= y
    BY <1>3, MinIsLeast
<1>5. (Min(S) = a \/ Min(S) = b) /\ Min(S) <= a /\ Min(S) <= b
    BY <1>4 DEF S
<1> QED BY <1>5 DEF S

LEMMA Greater ==
    ASSUME NEW a \in Int, NEW b \in Int
    PROVE  Max({a, b}) = (IF a <= b THEN b ELSE a)
<1>1. {a, b} \in SUBSET Int /\ {a, b} # {} /\ a \in {a, b} /\ b \in {a, b}
    OBVIOUS
<1>2. IsFiniteSet({a, b})
    <2>1. IsFiniteSet({a} \cup {b})
        BY FS_Singleton, FS_AddElement
    <2>2. {a} \cup {b} = {a, b}
        OBVIOUS
    <2> QED BY <2>1, <2>2
<1> DEFINE S == {a, b}
<1> HIDE DEF S
<1>3. S \in SUBSET Int /\ S # {} /\ IsFiniteSet(S)
    BY <1>1, <1>2 DEF S
<1>4. Max(S) \in S /\ \A y \in S : y <= Max(S)
    BY <1>3, MaxIsGreatest
<1>5. (Max(S) = a \/ Max(S) = b) /\ a <= Max(S) /\ b <= Max(S)
    BY <1>4 DEF S
<1> QED BY <1>5 DEF S

\* What stands in for induction: of the numbers for which something fails, the least.
LEMMA LeastExists ==
    ASSUME NEW S \in SUBSET Nat, S # {}
    PROVE  \E n \in S : \A m \in S : n <= m
<1>1. PICK top \in S : TRUE
    OBVIOUS
<1> DEFINE low == {m \in S : m <= top}
<1>2. low \in SUBSET Int /\ IsFiniteSet(low) /\ top \in low
    <2>1. top \in Nat
        OBVIOUS
    <2>2. ASSUME NEW m \in low PROVE m \in 0..top
        <3>1. m \in Nat /\ m <= top
            OBVIOUS
        <3> QED BY <2>1, <3>1
    <2>3. IsFiniteSet(0..top)
        BY <2>1, FS_Interval
    <2>4. top \in low
        BY <2>1
    <2> HIDE DEF low
    <2>5. low \in SUBSET (0..top)
        BY <2>2
    <2>6. IsFiniteSet(low)
        BY <2>3, <2>5, FS_Subset
    <2>7. low \in SUBSET Int
        BY <2>5
    <2> QED BY <2>4, <2>6, <2>7
<1> HIDE DEF low
<1>3. Min(low) \in low /\ \A m \in low : Min(low) <= m
    BY <1>2, MinIsLeast
<1>4. Min(low) \in S /\ Min(low) \in Nat /\ Min(low) <= top
    BY <1>3 DEF low
<1>5. ASSUME NEW m \in S PROVE Min(low) <= m
    <2>1. CASE m <= top
        BY <1>3, <2>1 DEF low
    <2>2. CASE ~ m <= top
        BY <1>4, <2>2
    <2> QED BY <2>1, <2>2
<1> QED BY <1>4, <1>5

\* f is "a" at 0 and goes from each number to the next by F.
Rounds(f, N, A, a, F) ==
    f \in [0..N -> A] /\ f[0] = a /\ \A n \in 1..N : f[n] = F[f[n - 1]]

\* A function given by what it is at 0 and by a step from each number to the next exists.
LEMMA RoundsExist ==
    ASSUME NEW N \in Nat, NEW A, NEW a \in A, NEW F \in [A -> A]
    PROVE  \E f : Rounds(f, N, A, a, F)
<1> DEFINE Upto(f, k) == \A n \in 0..k : f[n] = IF n = 0 THEN a ELSE F[f[n - 1]]
           Reached(k) == \E f \in [0..N -> A] : Upto(f, k)
           bad == {k \in 0..N : ~Reached(k)}
<1>1. SUFFICES ASSUME ~Reached(N) PROVE FALSE
    <2>1. PICK f \in [0..N -> A] : Upto(f, N)
        BY <1>1
    <2>2. f[0] = a /\ \A n \in 1..N : f[n] = F[f[n - 1]]
        BY <2>1
    <2> QED BY <2>2 DEF Rounds
<1>2. PICK k \in bad : \A m \in bad : k <= m
    <2> HIDE DEF Reached
    <2>1. bad \in SUBSET Nat /\ bad # {}
        BY <1>1
    <2> HIDE DEF bad
    <2> QED BY <2>1, LeastExists
<1>3. k # 0
    <2>1. Upto([n \in 0..N |-> a], 0)
        OBVIOUS
    <2>2. [n \in 0..N |-> a] \in [0..N -> A]
        OBVIOUS
    <2>3. Reached(0)
        BY <2>1, <2>2
    <2> QED BY <2>3
<1>4. k \in 0..N /\ k - 1 \in 0..N /\ Reached(k - 1) /\ ~Reached(k)
    <2> HIDE DEF Reached
    <2>1. k \in 0..N /\ ~Reached(k)
        OBVIOUS
    <2>2. k - 1 \in 0..N /\ ~ k <= k - 1
        BY <1>3, <2>1
    <2> QED BY <1>2, <2>1, <2>2
<1>5. PICK f \in [0..N -> A] : Upto(f, k - 1)
    BY <1>4
<1> DEFINE g == [f EXCEPT ![k] = F[f[k - 1]]]
<1>6. g \in [0..N -> A]
    BY <1>4
<1>7. ASSUME NEW n \in 0..k PROVE g[n] = IF n = 0 THEN a ELSE F[g[n - 1]]
    <2>1. CASE n = k
        BY <1>3, <1>4, <2>1
    <2>2. CASE n # k
        <3>1. n \in 0..(k - 1)
            BY <1>3, <2>2
        <3>2. g[n] = f[n] /\ (n # 0 => g[n - 1] = f[n - 1])
            BY <1>4, <2>2, <3>1
        <3>3. f[n] = IF n = 0 THEN a ELSE F[f[n - 1]]
            BY <1>5, <3>1
        <3> QED BY <3>2, <3>3
    <2> QED BY <2>1, <2>2
<1>8. Upto(g, k)
    BY <1>7
<1> QED BY <1>4, <1>6, <1>8

\* "next" takes an element of whatever is left.
Takes(next, S) == \A t \in SUBSET S : t # {} => next[t] \in t

\* "iter" works through the parts of S with "step", from "base".
Iterates(iter, S, V, base, step, next) ==
    /\ iter \in [SUBSET S -> V]
    /\ iter[{}] = base
    /\ \A t \in SUBSET S : t # {} => iter[t] = step[<<next[t], iter[t \ {next[t]}]>>]

\* What a fold over the subsets of a finite set goes through exists, whatever it does with an
\* element and whichever it takes next.
LEMMA FoldExists ==
    ASSUME NEW S, IsFiniteSet(S), NEW V, NEW base \in V, NEW step \in [S \X V -> V],
           NEW next, Takes(next, S)
    PROVE  \E iter : Iterates(iter, S, V, base, step, next)
<1> DEFINE A == [SUBSET S -> V]
           N == Cardinality(S)
           more(g) == [t \in SUBSET S |-> IF t = {} THEN base ELSE step[<<next[t], g[t \ {next[t]}]>>]]
           F == [g \in A |-> more(g)]
           a == [t \in SUBSET S |-> base]
<1>1. N \in Nat
    BY FS_CardinalityType
<1>2. a \in A
    OBVIOUS
<1>3. \A g \in A : more(g) \in A
    <2> TAKE g \in A
    <2>1. ASSUME NEW t \in SUBSET S, t # {} PROVE step[<<next[t], g[t \ {next[t]}]>>] \in V
        <3>1. next[t] \in S /\ t \ {next[t]} \in SUBSET S
            BY <2>1 DEF Takes
        <3>2. g[t \ {next[t]}] \in V
            BY <3>1
        <3> QED BY <3>1, <3>2
    <2> QED BY <2>1
<1>4. F \in [A -> A]
    <2> HIDE DEF A, more
    <2> QED BY <1>3
<1>5. PICK f \in [0..N -> A] : f[0] = a /\ \A n \in 1..N : f[n] = F[f[n - 1]]
    <2> HIDE DEF A, F, a, N, more
    <2>1. \E f : Rounds(f, N, A, a, F)
        BY <1>1, <1>2, <1>4, RoundsExist
    <2> QED BY <2>1 DEF Rounds
<1>6. \A n \in 1..N : f[n - 1] \in A /\ f[n] = more(f[n - 1])
    <2> TAKE n \in 1..N
    <2>1. n \in 0..N /\ n - 1 \in 0..N /\ n # 0
        BY <1>1
    <2>2. f[n - 1] \in A
        BY <2>1
    <2> HIDE DEF more, A, a, N
    <2> QED BY <1>5, <2>1, <2>2
<1> DEFINE Settled(n) == \A t \in SUBSET S : Cardinality(t) <= n => f[n + 1][t] = f[n][t]
           bad == {n \in 0..(N - 1) : ~Settled(n)}
<1>7. \A t \in SUBSET S : IsFiniteSet(t) /\ Cardinality(t) \in Nat /\ Cardinality(t) <= N
    BY FS_Subset, FS_CardinalityType
<1>8. \A t \in SUBSET S : t # {} => /\ Cardinality(t \ {next[t]}) = Cardinality(t) - 1
                                    /\ t \ {next[t]} \in SUBSET S
    BY <1>7, FS_RemoveElement DEF Takes
<1> HIDE DEF F, a
<1>9. bad = {}
    <2>1. SUFFICES ASSUME bad # {} PROVE FALSE
        OBVIOUS
    <2>2. PICK n \in bad : \A m \in bad : n <= m
        <3> HIDE DEF Settled, N
        <3>1. bad \in SUBSET Nat
            BY <1>1
        <3> HIDE DEF bad
        <3> QED BY <2>1, <3>1, LeastExists
    <2>3. n \in 0..(N - 1) /\ ~Settled(n)
        OBVIOUS
    <2> HIDE DEF A, N
    <2>4. n \in Nat /\ n + 1 \in 1..N /\ n + 1 \in 0..N /\ n \in 0..N /\ (n + 1) - 1 = n
        BY <1>1, <2>3
    <2>5. f[n + 1] = more(f[n])
        <3> HIDE DEF more
        <3>1. f[n + 1] = more(f[(n + 1) - 1])
            BY <1>6, <2>4
        <3> QED BY <2>4, <3>1
    <2>6. PICK t \in SUBSET S : Cardinality(t) <= n /\ f[n + 1][t] # f[n][t]
        BY <2>3
    <2>7. CASE n = 0
        <3>1. t = {}
            BY <1>7, <2>6, <2>7, FS_EmptySet
        <3>2. f[0] = a
            BY <1>5, <2>4, <2>7
        <3>3. f[0][t] = base
            BY <3>2 DEF a
        <3> QED BY <2>5, <2>6, <2>7, <3>1, <3>3
    <2>8. CASE n # 0
        <3>1. n \in 1..N /\ n - 1 \in 0..(N - 1) /\ ~(n <= n - 1) /\ (n - 1) + 1 = n
            BY <1>1, <2>4, <2>8
        <3>2. f[n] = more(f[n - 1])
            BY <1>6, <3>1
        <3>3. Settled(n - 1)
            <4> HIDE DEF Settled
            <4> QED BY <2>2, <3>1
        <3>4. CASE t = {}
            BY <2>5, <2>6, <3>2, <3>4
        <3>5. CASE t # {}
            <4> DEFINE u == t \ {next[t]}
            <4>1. u \in SUBSET S /\ Cardinality(u) = Cardinality(t) - 1 /\ Cardinality(t) \in Nat
                BY <1>7, <1>8, <3>5
            <4> HIDE DEF u
            <4>2. Cardinality(u) <= n - 1
                BY <2>4, <2>6, <4>1
            <4>3. f[n][u] = f[n - 1][u]
                BY <3>1, <3>3, <4>1, <4>2
            <4>4. /\ f[n + 1][t] = step[<<next[t], f[n][u]>>]
                  /\ f[n][t] = step[<<next[t], f[n - 1][u]>>]
                BY <2>5, <3>2, <3>5 DEF u
            <4> QED BY <2>6, <4>3, <4>4
        <3> QED BY <3>4, <3>5
    <2> QED BY <2>7, <2>8
<1> DEFINE iter == f[N]
<1>10. iter \in A
    <2> HIDE DEF A, N
    <2> QED BY <1>1
<1>11. ASSUME NEW t \in SUBSET S
       PROVE  iter[t] = IF t = {} THEN base ELSE step[<<next[t], iter[t \ {next[t]}]>>]
    <2>1. CASE N = 0
        <3>1. t = {}
            <4>1. Cardinality(t) = 0 /\ IsFiniteSet(t)
                BY <1>7, <2>1
            <4> QED BY <4>1, FS_EmptySet
        <3>2. f[0] = a
            <4> HIDE DEF A, N
            <4> QED BY <1>1, <1>5, <2>1
        <3> QED BY <2>1, <3>1, <3>2 DEF a
    <2>2. CASE N # 0
        <3> HIDE DEF A, N
        <3>1. N \in 1..N /\ N - 1 \in 0..(N - 1) /\ (N - 1) + 1 = N
            BY <1>1, <2>2
        <3>2. f[N] = more(f[N - 1])
            BY <1>6, <3>1
        <3>3. CASE t = {}
            BY <3>2, <3>3
        <3>4. CASE t # {}
            <4> DEFINE u == t \ {next[t]}
            <4>1. u \in SUBSET S /\ Cardinality(u) = Cardinality(t) - 1 /\ Cardinality(t) \in Nat
                  /\ Cardinality(t) <= N
                BY <1>7, <1>8, <3>4
            <4>2. Settled(N - 1)
                <5> HIDE DEF Settled
                <5> QED BY <1>9, <3>1
            <4>3. f[N][t] = step[<<next[t], f[N - 1][u]>>]
                BY <3>2, <3>4
            <4> HIDE DEF u
            <4>4. Cardinality(u) <= N - 1
                BY <1>1, <4>1
            <4>5. f[N][u] = f[N - 1][u]
                BY <3>1, <4>1, <4>2, <4>4
            <4> QED BY <3>4, <4>3, <4>5 DEF u
        <3> QED BY <3>3, <3>4
    <2> QED BY <2>1, <2>2
<1> HIDE DEF iter, N
<1>12. \A t \in SUBSET S : t # {} => iter[t] = step[<<next[t], iter[t \ {next[t]}]>>]
    BY <1>11
<1>13. iter[{}] = base
    BY <1>11
<1> QED BY <1>10, <1>12, <1>13 DEF Iterates

\* Differences, added up from the first to the last, are the difference of the last and the
\* first.
LEMMA DifferencesAddUp ==
    ASSUME NEW N \in Nat, NEW a \in [0..N -> Int]
    PROVE  LET sum[t \in SUBSET (1..N)] ==
                   IF t = {} THEN 0 ELSE sum[t \ {Max(t)}] + (a[Max(t)] - a[Max(t) - 1])
           IN  sum[1..N] = a[N] - a[0]
<1> DEFINE S == 1..N
           Sums(f) == [t \in SUBSET S |->
                          IF t = {} THEN 0 ELSE f[t \ {Max(t)}] + (a[Max(t)] - a[Max(t) - 1])]
           sum == CHOOSE f : f = Sums(f)
           next == [t \in SUBSET S |-> Max(t)]
           step == [p \in S \X Int |-> p[2] + (a[p[1]] - a[p[1] - 1])]
<1>1. IsFiniteSet(S)
    BY FS_Interval
<1>2. \A t \in SUBSET S : t # {} => Max(t) \in t /\ \A n \in t : n <= Max(t)
    <2> TAKE t \in SUBSET S
    <2>1. t \in SUBSET Int
        OBVIOUS
    <2>2. IsFiniteSet(t)
        <3> HIDE DEF S
        <3> QED BY <1>1, FS_Subset
    <2> QED BY <2>1, <2>2, MaxIsGreatest
<1>3. Takes(next, S)
    BY <1>2 DEF Takes
<1>4. \A x \in S : a[x] - a[x - 1] \in Int
    <2> TAKE x \in S
    <2>1. x \in 0..N /\ x - 1 \in 0..N
        OBVIOUS
    <2> QED BY <2>1
<1>5. step \in [S \X Int -> Int]
    <2> HIDE DEF S
    <2>1. \A p \in S \X Int : p[1] \in S /\ p[2] \in Int
        OBVIOUS
    <2>2. \A p \in S \X Int : p[2] + (a[p[1]] - a[p[1] - 1]) \in Int
        BY <1>4, <2>1
    <2> QED BY <2>2
<1>6. PICK f \in [SUBSET S -> Int] :
          /\ f[{}] = 0
          /\ \A t \in SUBSET S : t # {} => f[t] = step[<<next[t], f[t \ {next[t]}]>>]
    <2> DEFINE V == Int
               base == 0
    <2>1. base \in V /\ step \in [S \X V -> V]
        BY <1>5
    <2> HIDE DEF step, next, S, V, base
    <2>2. \E f : Iterates(f, S, V, base, step, next)
        BY <1>1, <1>3, <2>1, FoldExists
    <2> QED BY <2>2 DEF Iterates, V, base
<1>7. f = Sums(f)
    <2>1. ASSUME NEW t \in SUBSET S, t # {}
          PROVE  step[<<next[t], f[t \ {next[t]}]>>] = f[t \ {Max(t)}] + (a[Max(t)] - a[Max(t) - 1])
        <3>1. next[t] = Max(t) /\ Max(t) \in S /\ f[t \ {Max(t)}] \in Int
            BY <1>2, <2>1
        <3> HIDE DEF S, next
        <3> QED BY <3>1
    <2> HIDE DEF step, next, S
    <2> QED BY <1>6, <2>1
<1> HIDE DEF Sums
<1>8. sum = Sums(sum)
    BY <1>7
<1> HIDE DEF sum
<1>9. \A t \in SUBSET S :
          sum[t] = IF t = {} THEN 0 ELSE sum[t \ {Max(t)}] + (a[Max(t)] - a[Max(t) - 1])
    BY <1>8 DEF Sums
<1> DEFINE bad == {n \in 0..N : sum[1..n] # a[n] - a[0]}
<1>10. bad = {}
    <2>1. SUFFICES ASSUME bad # {} PROVE FALSE
        OBVIOUS
    <2>2. PICK n \in bad : \A m \in bad : n <= m
        <3>1. bad \in SUBSET Nat
            OBVIOUS
        <3> HIDE DEF bad
        <3> QED BY <2>1, <3>1, LeastExists
    <2>3. n \in 0..N /\ sum[1..n] # a[n] - a[0] /\ a[n] \in Int /\ a[0] \in Int
        OBVIOUS
    <2>4. CASE n = 0
        <3>1. 1..n = {} /\ {} \in SUBSET S
            BY <2>4
        <3>2. sum[1..n] = 0
            BY <1>9, <3>1
        <3> QED BY <2>3, <2>4, <3>2
    <2>5. CASE n # 0
        <3>1. n - 1 \in 0..N /\ ~(n <= n - 1) /\ a[n - 1] \in Int
            BY <2>3, <2>5
        <3>2. sum[1..(n - 1)] = a[n - 1] - a[0]
            BY <2>2, <3>1
        <3>3. 1..n \in SUBSET S /\ n \in 1..n /\ 1..n # {}
            <4>1. n \in 1..n /\ n <= N /\ n \in Int
                BY <2>3, <2>5
            <4>2. \A m \in 1..n : m \in 1..N
                BY <4>1
            <4> QED BY <4>1, <4>2
        <3>4. Max(1..n) \in 1..n /\ \A m \in 1..n : m <= Max(1..n)
            BY <1>2, <3>3
        <3>5. Max(1..n) = n
            BY <2>3, <3>3, <3>4
        <3>6. (1..n) \ {n} = 1..(n - 1)
            BY <2>3, <2>5
        <3>7. sum[1..n] = sum[1..(n - 1)] + (a[n] - a[n - 1])
            BY <1>9, <3>3, <3>5, <3>6
        <3> QED BY <2>3, <3>1, <3>2, <3>7
    <2> QED BY <2>4, <2>5
<1>11. sum[1..N] = a[N] - a[0]
    BY <1>10
<1> QED BY <1>11 DEF sum, Sums

-----------------------------------------------------------------------------
(* Sums *)

\* "total" says of every part of S what w comes to in it.
Additive(total, S, w) ==
    /\ total \in [SUBSET S -> Int]
    /\ total[{}] = 0
    /\ \A t \in SUBSET S : \A x \in t : total[t] = total[t \ {x}] + w[x]

\* In whatever order numbers are added up.
LEMMA SumExists ==
    ASSUME NEW S, IsFiniteSet(S), NEW w \in [S -> Int]
    PROVE  \E total : Additive(total, S, w)
<1> DEFINE next == [t \in SUBSET S |-> CHOOSE x \in t : TRUE]
           step == [p \in S \X Int |-> p[2] + w[p[1]]]
<1>1. Takes(next, S)
    BY DEF Takes
<1>2. step \in [S \X Int -> Int] /\ \A x \in S, n \in Int : step[<<x, n>>] = n + w[x]
    OBVIOUS
<1> HIDE DEF next, step
<1>3. PICK total \in [SUBSET S -> Int] :
          /\ total[{}] = 0
          /\ \A t \in SUBSET S : t # {} => total[t] = step[<<next[t], total[t \ {next[t]}]>>]
    <2> DEFINE V == Int
               base == 0
    <2>1. base \in V /\ step \in [S \X V -> V]
        BY <1>2
    <2> HIDE DEF V, base
    <2>2. \E total : Iterates(total, S, V, base, step, next)
        BY <1>1, <2>1, FoldExists
    <2> QED BY <2>2 DEF Iterates, V, base
<1>4. total[{}] = 0
    BY <1>3
<1>5. \A t \in SUBSET S : t # {} => total[t] = total[t \ {next[t]}] + w[next[t]]
    <2> TAKE t \in SUBSET S
    <2>1. SUFFICES ASSUME t # {} PROVE total[t] = total[t \ {next[t]}] + w[next[t]]
        OBVIOUS
    <2>2. next[t] \in S /\ total[t \ {next[t]}] \in Int
        BY <1>1, <2>1 DEF Takes
    <2>3. total[t] = step[<<next[t], total[t \ {next[t]}]>>]
        BY <1>3, <2>1
    <2> QED BY <1>2, <2>2, <2>3
<1> DEFINE Free(n) == \A t \in SUBSET S : Cardinality(t) = n =>
                          \A x \in t : total[t] = total[t \ {x}] + w[x]
           bad == {n \in Nat : ~Free(n)}
<1>6. \A t \in SUBSET S : IsFiniteSet(t) /\ Cardinality(t) \in Nat
    BY FS_Subset, FS_CardinalityType
<1>7. bad = {}
    <2>1. SUFFICES ASSUME bad # {} PROVE FALSE
        OBVIOUS
    <2>2. PICK n \in bad : \A m \in bad : n <= m
        <3> HIDE DEF Free
        <3>1. bad \in SUBSET Nat
            OBVIOUS
        <3> HIDE DEF bad
        <3> QED BY <2>1, <3>1, LeastExists
    <2>3. PICK t \in SUBSET S : /\ Cardinality(t) = n
                                /\ \E x \in t : total[t] # total[t \ {x}] + w[x]
        OBVIOUS
    <2> PICK x \in t : total[t] # total[t \ {x}] + w[x]
        BY <2>3
    <2> DEFINE c == next[t]
    <2>4. t # {} /\ c \in t /\ total[t] = total[t \ {c}] + w[c]
        BY <1>1, <1>5, <2>3 DEF Takes
    <2>5. c # x
        BY <2>3, <2>4
    <2>6. /\ Cardinality(t \ {c}) = n - 1 /\ Cardinality(t \ {x}) = n - 1
          /\ n - 1 \in Nat /\ ~(n <= n - 1)
        <3>1. Cardinality(t \ {c}) = n - 1 /\ Cardinality(t \ {x}) = n - 1
            BY <1>6, <2>3, <2>4, FS_RemoveElement
        <3>2. Cardinality(t \ {c}) \in Nat
            BY <1>6
        <3> QED BY <3>1, <3>2
    <2>7. Free(n - 1)
        <3> HIDE DEF Free
        <3> QED BY <2>2, <2>6
    <2>8. /\ total[t \ {c}] = total[(t \ {c}) \ {x}] + w[x]
          /\ total[t \ {x}] = total[(t \ {x}) \ {c}] + w[c]
        BY <2>3, <2>4, <2>5, <2>6, <2>7
    <2>9. (t \ {c}) \ {x} = (t \ {x}) \ {c} /\ (t \ {x}) \ {c} \in SUBSET S
        OBVIOUS
    <2> HIDE DEF c
    <2>10. total[(t \ {x}) \ {c}] \in Int /\ w[x] \in Int /\ w[c] \in Int
        BY <2>3, <2>4, <2>9
    <2>11. /\ total[t] = (total[(t \ {x}) \ {c}] + w[x]) + w[c]
           /\ total[t \ {x}] = total[(t \ {x}) \ {c}] + w[c]
        <3>1. total[t \ {c}] = total[(t \ {x}) \ {c}] + w[x]
            BY <2>8, <2>9
        <3> QED BY <2>4, <2>8, <3>1
    <2>12. total[t] = total[t \ {x}] + w[x]
        <3> DEFINE p == total[(t \ {x}) \ {c}]
        <3>1. (p + w[x]) + w[c] = (p + w[c]) + w[x]
            BY <2>10
        <3> QED BY <2>11, <3>1
    <2> QED BY <2>12
<1>8. \A t \in SUBSET S : \A x \in t : total[t] = total[t \ {x}] + w[x]
    BY <1>6, <1>7
<1> QED BY <1>4, <1>8 DEF Additive

\* A sum over a set is what any such "total" says.
LEMMA SumIsTotal ==
    ASSUME NEW S, IsFiniteSet(S), NEW w \in [S -> Int], NEW total, Additive(total, S, w),
           NEW t \in SUBSET S
    PROVE  SumOf(w, t) = total[t]
<1> DEFINE Pick(u) == CHOOSE x \in u : TRUE
           Sums(f) == [u \in SUBSET t |-> IF u = {} THEN 0 ELSE w[Pick(u)] + f[u \ {Pick(u)}]]
           sum == CHOOSE f : f = Sums(f)
           known == [u \in SUBSET t |-> total[u]]
<1>1. SumOf(w, t) = sum[t]
    BY DEF SumOf, MapThenSumSet, MapThenFoldSet
<1>2. \A u \in SUBSET t : u # {} => Pick(u) \in u
    OBVIOUS
<1> HIDE DEF Pick
<1>3. ASSUME NEW u \in SUBSET t, u # {}
      PROVE  total[u] = w[Pick(u)] + total[u \ {Pick(u)}]
    <2>1. Pick(u) \in u /\ u \in SUBSET S /\ u \ {Pick(u)} \in SUBSET S
        BY <1>2, <1>3
    <2>2. total[u] = total[u \ {Pick(u)}] + w[Pick(u)]
        BY <2>1 DEF Additive
    <2>3. total[u \ {Pick(u)}] \in Int /\ w[Pick(u)] \in Int
        BY <2>1 DEF Additive
    <2> QED BY <2>2, <2>3
<1>4. known = Sums(known)
    BY <1>3 DEF Additive
<1> HIDE DEF Sums
<1>5. sum = Sums(sum)
    BY <1>4
<1> HIDE DEF sum
<1>6. \A u \in SUBSET t : sum[u] = IF u = {} THEN 0 ELSE w[Pick(u)] + sum[u \ {Pick(u)}]
    BY <1>5 DEF Sums
<1>7. \A u \in SUBSET t : IsFiniteSet(u) /\ Cardinality(u) \in Nat
    BY FS_Subset, FS_CardinalityType
<1> DEFINE Agrees(n) == \A u \in SUBSET t : Cardinality(u) = n => sum[u] = total[u]
           bad == {n \in Nat : ~Agrees(n)}
<1>8. bad = {}
    <2>1. SUFFICES ASSUME bad # {} PROVE FALSE
        OBVIOUS
    <2>2. PICK n \in bad : \A m \in bad : n <= m
        <3> HIDE DEF Agrees
        <3>1. bad \in SUBSET Nat
            OBVIOUS
        <3> HIDE DEF bad
        <3> QED BY <2>1, <3>1, LeastExists
    <2>3. PICK u \in SUBSET t : Cardinality(u) = n /\ sum[u] # total[u]
        OBVIOUS
    <2>4. CASE u = {}
        BY <1>6, <2>3, <2>4 DEF Additive
    <2>5. CASE u # {}
        <3> DEFINE c == Pick(u)
        <3>1. c \in u
            BY <1>2, <2>5
        <3>2. Cardinality(u \ {c}) = n - 1 /\ Cardinality(u \ {c}) \in Nat /\ u \ {c} \in SUBSET t
            BY <1>7, <2>3, <3>1, FS_RemoveElement
        <3>3. Agrees(n - 1)
            <4> HIDE DEF Agrees
            <4>1. n - 1 \in Nat /\ ~(n <= n - 1)
                BY <3>2
            <4> QED BY <2>2, <4>1
        <3>4. sum[u \ {c}] = total[u \ {c}]
            BY <3>2, <3>3
        <3>5. sum[u] = w[c] + sum[u \ {c}]
            BY <1>6, <2>5
        <3> QED BY <1>3, <2>3, <2>5, <3>4, <3>5
    <2> QED BY <2>4, <2>5
<1>9. sum[t] = total[t]
    BY <1>7, <1>8
<1> QED BY <1>1, <1>9

LEMMA SumOfParts ==
    ASSUME NEW S, IsFiniteSet(S), NEW w \in [S -> Int], NEW total, Additive(total, S, w),
           NEW X \in SUBSET S, NEW Y \in SUBSET S, X \cap Y = {}
    PROVE  total[X \cup Y] = total[X] + total[Y]
<1> DEFINE Adds(n) == \A t \in SUBSET Y : Cardinality(t) = n => total[X \cup t] = total[X] + total[t]
           bad == {n \in Nat : ~Adds(n)}
<1>1. \A u \in SUBSET S : IsFiniteSet(u) /\ Cardinality(u) \in Nat /\ total[u] \in Int
    BY FS_Subset, FS_CardinalityType DEF Additive
<1>2. bad = {}
    <2>1. SUFFICES ASSUME bad # {} PROVE FALSE
        OBVIOUS
    <2>2. PICK n \in bad : \A m \in bad : n <= m
        <3> HIDE DEF Adds
        <3>1. bad \in SUBSET Nat
            OBVIOUS
        <3> HIDE DEF bad
        <3> QED BY <2>1, <3>1, LeastExists
    <2>3. PICK t \in SUBSET Y : Cardinality(t) = n /\ total[X \cup t] # total[X] + total[t]
        OBVIOUS
    <2>4. t \in SUBSET S
        OBVIOUS
    <2>5. CASE t = {}
        <3>1. X \cup t = X
            BY <2>5
        <3>2. total[t] = 0 /\ total[X] \in Int
            BY <1>1, <2>5 DEF Additive
        <3> QED BY <2>3, <3>1, <3>2
    <2>6. CASE t # {}
        <3>1. PICK x \in t : TRUE
            BY <2>6
        <3>2. Cardinality(t \ {x}) = n - 1 /\ Cardinality(t \ {x}) \in Nat /\ t \ {x} \in SUBSET Y
            BY <1>1, <2>3, <2>4, FS_RemoveElement
        <3>3. Adds(n - 1)
            <4> HIDE DEF Adds
            <4>1. n - 1 \in Nat /\ ~(n <= n - 1)
                BY <3>2
            <4> QED BY <2>2, <4>1
        <3>4. total[X \cup (t \ {x})] = total[X] + total[t \ {x}]
            BY <3>2, <3>3
        <3>5. (X \cup t) \ {x} = X \cup (t \ {x}) /\ X \cup t \in SUBSET S /\ x \in X \cup t
            OBVIOUS
        <3>6. total[X \cup t] = total[X \cup (t \ {x})] + w[x] /\ total[t] = total[t \ {x}] + w[x]
            BY <2>4, <3>5 DEF Additive
        <3>7. total[X] \in Int /\ total[t \ {x}] \in Int /\ w[x] \in Int
            BY <1>1, <2>4
        <3> QED BY <2>3, <3>4, <3>6, <3>7
    <2> QED BY <2>5, <2>6
<1>3. total[X \cup Y] = total[X] + total[Y]
    <2>1. Cardinality(Y) \in Nat
        BY <1>1
    <2> QED BY <1>2, <2>1
<1> QED BY <1>3

\* v says of every group what there is in it.
PerGroup(v, G, S, key, total) == v = [g \in G |-> total[{i \in S : key[i] = g}]]

\* The sum over the groups of what there is in each is what there is in all of them.
LEMMA SumOfGroups ==
    ASSUME NEW S, IsFiniteSet(S), NEW w \in [S -> Int], NEW total, Additive(total, S, w),
           NEW G, IsFiniteSet(G), NEW key, \A i \in S : key[i] \in G,
           NEW v, PerGroup(v, G, S, key, total)
    PROVE  SumOf(v, G) = total[S]
<1> DEFINE In(u) == {i \in S : key[i] \in u}
           grouped == [u \in SUBSET G |-> total[In(u)]]
<1>0. v = [g \in G |-> total[{i \in S : key[i] = g}]]
    BY DEF PerGroup
<1>1. \A u \in SUBSET G : In(u) \in SUBSET S
    OBVIOUS
<1>2. grouped \in [SUBSET G -> Int] /\ v \in [G -> Int]
    <2>1. \A g \in G : {i \in S : key[i] = g} \in SUBSET S
        OBVIOUS
    <2> QED BY <1>0, <1>1, <2>1 DEF Additive
<1>3. grouped[{}] = 0
    <2>1. In({}) = {}
        OBVIOUS
    <2> QED BY <2>1 DEF Additive
<1>4. ASSUME NEW u \in SUBSET G, NEW g \in u PROVE grouped[u] = grouped[u \ {g}] + v[g]
    <2> DEFINE X == In(u \ {g})
               Y == {i \in S : key[i] = g}
    <2>1. In(u) = X \cup Y /\ X \cap Y = {} /\ X \in SUBSET S /\ Y \in SUBSET S
        OBVIOUS
    <2>2. grouped[u] = total[In(u)] /\ grouped[u \ {g}] = total[X] /\ v[g] = total[Y]
        BY <1>0, <1>1
    <2> HIDE DEF X, Y, grouped, In
    <2> QED BY <2>1, <2>2, SumOfParts
<1>5. Additive(grouped, G, v)
    <2> HIDE DEF grouped
    <2> QED BY <1>2, <1>3, <1>4 DEF Additive
<1>6. In(G) = S
    OBVIOUS
<1>7. grouped[G] = total[S]
    BY <1>6
<1> HIDE DEF grouped, In
<1>8. SumOf(v, G) = grouped[G]
    <2>1. SUFFICES ASSUME NEW x \in [G -> Int], Additive(grouped, G, x) PROVE SumOf(x, G) = grouped[G]
        BY <1>2, <1>5
    <2>2. G \in SUBSET G
        OBVIOUS
    <2> QED BY <2>1, <2>2, SumIsTotal
<1> QED BY <1>7, <1>8

\* Counting is adding ones.
LEMMA CountsAreSums ==
    ASSUME NEW S, IsFiniteSet(S)
    PROVE  Additive([t \in SUBSET S |-> Cardinality(t)], S, [i \in S |-> 1])
<1> DEFINE total == [t \in SUBSET S |-> Cardinality(t)]
<1>1. \A t \in SUBSET S : IsFiniteSet(t) /\ Cardinality(t) \in Nat
    BY FS_Subset, FS_CardinalityType
<1>2. total \in [SUBSET S -> Int]
    BY <1>1
<1>3. total[{}] = 0
    BY FS_EmptySet
<1>4. ASSUME NEW t \in SUBSET S, NEW x \in t PROVE Cardinality(t) = Cardinality(t \ {x}) + 1
    <2>1. Cardinality(t \ {x}) = Cardinality(t) - 1
        BY <1>1, FS_RemoveElement
    <2> QED BY <1>1, <2>1
<1> QED BY <1>2, <1>3, <1>4 DEF Additive

LEMMA ImageIsFinite ==
    ASSUME NEW S, IsFiniteSet(S), NEW f
    PROVE  IsFiniteSet({f[x] : x \in S})
<1> DEFINE g == [x \in S |-> f[x]]
<1>1. g \in Surjection(S, {f[x] : x \in S})
    BY DEF Surjection
<1> QED BY <1>1, FS_Surjection

LEMMA SumIsNumber ==
    ASSUME NEW S, IsFiniteSet(S), NEW w \in [S -> Int]
    PROVE  SumOf(w, S) \in Int
<1>1. PICK total : Additive(total, S, w)
    BY SumExists
<1>2. S \in SUBSET S
    OBVIOUS
<1>3. SumOf(w, S) = total[S]
    BY <1>1, <1>2, SumIsTotal
<1> QED BY <1>1, <1>2, <1>3 DEF Additive

LEMMA SumOfDifferences ==
    ASSUME NEW S, IsFiniteSet(S), NEW a \in [S -> Int], NEW b \in [S -> Int],
           NEW d \in [S -> Int], \A i \in S : d[i] = a[i] - b[i]
    PROVE  SumOf(d, S) = SumOf(a, S) - SumOf(b, S)
<1>1. PICK ta : Additive(ta, S, a)
    BY SumExists
<1>2. PICK tb : Additive(tb, S, b)
    BY SumExists
<1> DEFINE td == [t \in SUBSET S |-> ta[t] - tb[t]]
<1>3. /\ \A t \in SUBSET S : ta[t] \in Int /\ tb[t] \in Int
      /\ ta[{}] = 0 /\ tb[{}] = 0
      /\ \A t \in SUBSET S : \A x \in t : ta[t] = ta[t \ {x}] + a[x] /\ tb[t] = tb[t \ {x}] + b[x]
    BY <1>1, <1>2 DEF Additive
<1>4. td \in [SUBSET S -> Int] /\ td[{}] = 0
    BY <1>3
<1>5. ASSUME NEW t \in SUBSET S, NEW x \in t PROVE td[t] = td[t \ {x}] + d[x]
    <2>1. /\ ta[t] = ta[t \ {x}] + a[x] /\ tb[t] = tb[t \ {x}] + b[x]
          /\ ta[t \ {x}] \in Int /\ tb[t \ {x}] \in Int
        BY <1>3
    <2>2. a[x] \in Int /\ b[x] \in Int /\ d[x] = a[x] - b[x]
        OBVIOUS
    <2> QED BY <2>1, <2>2
<1>6. Additive(td, S, d)
    BY <1>4, <1>5 DEF Additive
<1>7. S \in SUBSET S /\ td[S] = ta[S] - tb[S]
    OBVIOUS
<1> HIDE DEF td
<1>8. SumOf(a, S) = ta[S] /\ SumOf(b, S) = tb[S] /\ SumOf(d, S) = td[S]
    BY <1>1, <1>2, <1>6, <1>7, SumIsTotal
<1> QED BY <1>7, <1>8

LEMMA SumNotNegative ==
    ASSUME NEW S, IsFiniteSet(S), NEW w \in [S -> Int], \A i \in S : w[i] >= 0
    PROVE  SumOf(w, S) >= 0
<1>1. PICK total : Additive(total, S, w)
    BY SumExists
<1> DEFINE Fine(n) == \A t \in SUBSET S : Cardinality(t) = n => total[t] >= 0
           bad == {n \in Nat : ~Fine(n)}
<1>2. \A u \in SUBSET S : IsFiniteSet(u) /\ Cardinality(u) \in Nat /\ total[u] \in Int
    BY <1>1, FS_Subset, FS_CardinalityType DEF Additive
<1>3. bad = {}
    <2>1. SUFFICES ASSUME bad # {} PROVE FALSE
        OBVIOUS
    <2>2. PICK n \in bad : \A m \in bad : n <= m
        <3> HIDE DEF Fine
        <3>1. bad \in SUBSET Nat
            OBVIOUS
        <3> HIDE DEF bad
        <3> QED BY <2>1, <3>1, LeastExists
    <2>3. PICK t \in SUBSET S : Cardinality(t) = n /\ ~(total[t] >= 0)
        OBVIOUS
    <2>4. t # {}
        <3>1. total[{}] = 0
            BY <1>1 DEF Additive
        <3>2. total[{}] >= 0
            BY <3>1
        <3> HIDE DEF bad
        <3> QED BY <2>3, <3>2
    <2>5. PICK x \in t : TRUE
        BY <2>4
    <2>6. Cardinality(t \ {x}) = n - 1 /\ Cardinality(t \ {x}) \in Nat /\ t \ {x} \in SUBSET S
        BY <1>2, <2>3, FS_RemoveElement
    <2>7. Fine(n - 1)
        <3> HIDE DEF Fine
        <3>1. n - 1 \in Nat /\ ~(n <= n - 1)
            BY <2>6
        <3> QED BY <2>2, <3>1
    <2>8. total[t \ {x}] >= 0
        BY <2>6, <2>7
    <2>9. total[t] = total[t \ {x}] + w[x] /\ total[t \ {x}] \in Int /\ w[x] \in Int /\ w[x] >= 0
        BY <1>1, <1>2, <2>6 DEF Additive
    <2> QED BY <2>3, <2>8, <2>9
<1>4. S \in SUBSET S /\ Cardinality(S) \in Nat
    BY <1>2
<1>5. total[S] >= 0
    BY <1>3, <1>4
<1>6. SumOf(w, S) = total[S]
    BY <1>1, <1>4, SumIsTotal
<1> QED BY <1>5, <1>6

LEMMA SumIsMonotone ==
    ASSUME NEW S, IsFiniteSet(S), NEW a \in [S -> Int], NEW b \in [S -> Int],
           \A i \in S : a[i] <= b[i]
    PROVE  SumOf(a, S) <= SumOf(b, S)
<1> DEFINE d == [i \in S |-> b[i] - a[i]]
<1>1. /\ d \in [S -> Int]
      /\ \A i \in S : d[i] = b[i] - a[i]
      /\ \A i \in S : d[i] >= 0
    OBVIOUS
<1> HIDE DEF d
<1>2. SumOf(d, S) >= 0
    BY <1>1, SumNotNegative
<1>3. SumOf(d, S) = SumOf(b, S) - SumOf(a, S)
    BY <1>1, SumOfDifferences
<1>4. SumOf(a, S) \in Int /\ SumOf(b, S) \in Int
    BY SumIsNumber
<1> QED BY <1>2, <1>3, <1>4

LEMMA SumOfConstant ==
    ASSUME NEW S, IsFiniteSet(S), NEW n \in Int, NEW w, w = [i \in S |-> n]
    PROVE  SumOf(w, S) = n * Cardinality(S)
<1> DEFINE total == [t \in SUBSET S |-> n * Cardinality(t)]
<1>1. \A t \in SUBSET S : IsFiniteSet(t) /\ Cardinality(t) \in Nat
    BY FS_Subset, FS_CardinalityType
<1>2. total \in [SUBSET S -> Int]
    BY <1>1
<1>3. total[{}] = 0
    BY FS_EmptySet
<1>4. ASSUME NEW t \in SUBSET S, NEW x \in t PROVE total[t] = total[t \ {x}] + w[x]
    <2>1. Cardinality(t \ {x}) = Cardinality(t) - 1
        BY <1>1, FS_RemoveElement
    <2> DEFINE c == Cardinality(t)
    <2> HIDE DEF c
    <2>2. c \in Int /\ Cardinality(t \ {x}) = c - 1
        BY <1>1, <2>1 DEF c
    <2>3. n * c = n * (c - 1) + n
        BY <2>2
    <2>4. total[t] = n * c /\ total[t \ {x}] = n * (c - 1) /\ w[x] = n
        BY <2>2 DEF c
    <2> QED BY <2>3, <2>4
<1> HIDE DEF total
<1>5. w \in [S -> Int] /\ Additive(total, S, w)
    BY <1>2, <1>3, <1>4 DEF Additive
<1>6. S \in SUBSET S
    OBVIOUS
<1>7. SumOf(w, S) = total[S]
    BY <1>5, <1>6, SumIsTotal
<1> QED BY <1>6, <1>7 DEF total

\* A sum of small numbers is no more than so much for each of them.
LEMMA SumIsWithin ==
    ASSUME NEW S, IsFiniteSet(S), NEW w \in [S -> Int], NEW low \in Int, NEW high \in Int,
           \A i \in S : low <= w[i] /\ w[i] <= high
    PROVE  low * Cardinality(S) <= SumOf(w, S) /\ SumOf(w, S) <= high * Cardinality(S)
<1> DEFINE a == [i \in S |-> low]
           b == [i \in S |-> high]
<1>1. a \in [S -> Int] /\ b \in [S -> Int] /\ \A i \in S : a[i] <= w[i] /\ w[i] <= b[i]
    OBVIOUS
<1>2. SumOf(a, S) = low * Cardinality(S) /\ SumOf(b, S) = high * Cardinality(S)
    BY SumOfConstant
<1> HIDE DEF a, b
<1>3. SumOf(a, S) <= SumOf(w, S) /\ SumOf(w, S) <= SumOf(b, S)
    BY <1>1, SumIsMonotone
<1> QED BY <1>2, <1>3

\* "key" gives every member of S a name of its own, and G is the names.
Renames(key, S, G) ==
    /\ \A i \in S : key[i] \in G
    /\ \A g \in G : \E i \in S : key[i] = g
    /\ \A i, j \in S : key[i] = key[j] => i = j

LEMMA RenamedIsFinite ==
    ASSUME NEW S, IsFiniteSet(S), NEW G, NEW key, Renames(key, S, G)
    PROVE  IsFiniteSet(G) /\ Cardinality(G) = Cardinality(S) /\ Cardinality(S) \in Nat
<1> DEFINE f == [i \in S |-> key[i]]
<1>1. f \in [S -> G] /\ \A i \in S : f[i] = key[i]
    BY DEF Renames
<1> HIDE DEF f
<1>2. f \in Bijection(S, G)
    <2>1. f \in Injection(S, G)
        BY <1>1 DEF Renames, Injection, IsInjective
    <2>2. f \in Surjection(S, G)
        BY <1>1 DEF Renames, Surjection
    <2> QED BY <2>1, <2>2 DEF Bijection
<1>3. ExistsBijection(S, G)
    BY <1>2 DEF ExistsBijection
<1> QED BY <1>3, FS_Bijection, FS_CardinalityType

\* A sum does not depend on what the members are called.
LEMMA SumOfRenamed ==
    ASSUME NEW S, IsFiniteSet(S), NEW w \in [S -> Int], NEW G, NEW v \in [G -> Int],
           NEW key, Renames(key, S, G), \A i \in S : v[key[i]] = w[i]
    PROVE  SumOf(v, G) = SumOf(w, S)
<1>1. PICK total : Additive(total, S, w)
    BY SumExists
<1>2. IsFiniteSet(G)
    BY RenamedIsFinite
<1>3. ASSUME NEW g \in G PROVE v[g] = total[{i \in S : key[i] = g}]
    <2>1. PICK i \in S : key[i] = g
        BY DEF Renames
    <2>2. {j \in S : key[j] = g} = {i}
        BY <2>1 DEF Renames
    <2>3. {i} \in SUBSET S /\ {i} \ {i} = {} /\ i \in {i}
        OBVIOUS
    <2>4. total[{i}] = total[{}] + w[i] /\ total[{}] = 0 /\ w[i] \in Int
        BY <1>1, <2>3 DEF Additive
    <2>5. v[g] = w[i]
        BY <2>1
    <2>6. total[{i}] = w[i]
        BY <2>4
    <2> QED BY <2>2, <2>5, <2>6, Zenon
<1>4. PerGroup(v, G, S, key, total)
    BY <1>3 DEF PerGroup
<1>5. \A i \in S : key[i] \in G
    BY DEF Renames
<1>6. SumOf(v, G) = total[S]
    BY <1>1, <1>2, <1>4, <1>5, SumOfGroups
<1>7. SumOf(w, S) = total[S]
    <2>1. S \in SUBSET S
        OBVIOUS
    <2> QED BY <1>1, <2>1, SumIsTotal
<1> QED BY <1>6, <1>7

-----------------------------------------------------------------------------
(* The record in force *)

\* Whatever sorts is a number.
LEMMA ColumnsAreNumbers ==
    /\ \A x \in People : x \in Int
    /\ \A x \in Names : x \in Int
    /\ \A x \in Countries : x \in Int
    /\ \A x \in Departments : x \in Int
    /\ \A x \in Levels : x \in Int
    /\ \A x \in Days : x \in Int /\ x >= 0
<1>1. \A x \in Days : x \in Int /\ x >= 0
    BY PayrollConstants DEF Days
<1>2. People \subseteq Nat /\ Names \subseteq Nat /\ Countries \subseteq Nat
      /\ Departments \subseteq Nat /\ Levels \subseteq Nat
    BY PayrollConstants
<1> QED BY <1>1, <1>2

\* A record of whatever can be paid; a raise may come to any amount.
PayableRecord ==
    [id : Nat, employee : People, amount : 1..MaxMinor, currency : Currencies, from : Days]

\* compensation_records: finitely many rows, told apart by their id.
RecordTable(T) ==
    /\ T \subseteq PayableRecord /\ IsFiniteSet(T)
    /\ \A c, d \in T : c.id = d.id => c = d

ByDay(S) == {p \in S \X S : Precedes(p[1], p[2])}

LEMMA DaysOrderRecords ==
    ASSUME NEW S, RecordTable(S)
    PROVE  StrictlyOrders(ByDay(S), S)
<1>1. \A c \in S : c.from \in Int /\ c.id \in Int
    BY PayrollConstants DEF RecordTable, PayableRecord, Days
<1>2. \A c \in S : ~Precedes(c, c)
    BY <1>1 DEF Precedes
<1>3. \A c, d, e \in S : Precedes(c, d) /\ Precedes(d, e) => Precedes(c, e)
    BY <1>1 DEF Precedes
<1>4. \A c, d \in S : c # d => Precedes(c, d) \/ Precedes(d, c)
    BY <1>1 DEF Precedes, RecordTable
<1> QED BY <1>2, <1>3, <1>4 DEF StrictlyOrders, ByDay

\* What the salary join picks is in force: it has begun, and every other record that has
\* begun comes before it.
LEMMA PayOnIsLatest ==
    ASSUME NEW db, RecordTable(db.records), NEW i, NEW day
    PROVE  LET begun == {c \in RecordsOf(db, i) : c.from <= day}
               pay   == PayOn(db, i, day)
           IN  \/ begun = {} /\ pay = NoPay
               \/ pay \in begun /\ pay # NoPay /\ \A d \in begun \ {pay} : Precedes(d, pay)
<1> DEFINE begun == {c \in RecordsOf(db, i) : c.from <= day}
<1>1. begun \subseteq db.records
    BY DEF RecordsOf
<1>2. RecordTable(begun)
    BY <1>1, FS_Subset DEF RecordTable
<1>3. CASE begun = {}
    BY <1>3 DEF PayOn
<1>4. CASE begun # {}
    <2> HIDE DEF begun
    <2>0. IsFiniteSet(begun) /\ StrictlyOrders(ByDay(begun), begun)
        BY <1>2, DaysOrderRecords DEF RecordTable
    <2>1. PICK c \in begun : \A d \in begun \ {c} : <<d, c>> \in ByDay(begun)
        BY <1>4, <2>0, GreatestExists
    <2>2. \A d \in begun \ {c} : Precedes(d, c)
        BY <2>1 DEF ByDay
    <2>3. PayOn(db, i, day) = CHOOSE e \in begun : \A d \in begun \ {e} : Precedes(d, e)
        BY <1>4 DEF PayOn, begun
    <2> DEFINE last(e) == \A d \in begun \ {e} : Precedes(d, e)
    <2>4. PayOn(db, i, day) = CHOOSE e \in begun : last(e)
        BY <2>3
    <2>5. \E e \in begun : last(e)
        BY <2>2
    <2>6. \A e \in begun : e # NoPay
        BY <1>2, PayrollConstants DEF RecordTable, PayableRecord, NoPay
    <2> HIDE DEF last, begun
    <2>7. PayOn(db, i, day) \in begun /\ last(PayOn(db, i, day))
        BY <2>4, <2>5
    <2> QED BY <2>6, <2>7 DEF last, begun
<1> QED BY <1>3, <1>4

-----------------------------------------------------------------------------
(* A history *)

\* Every record of somebody once, in the order of the days they are for.
LEMMA HistoryIsSorted ==
    ASSUME NEW db, RecordTable(db.records), NEW i
    PROVE  LET h == History(db, i)
               S == RecordsOf(db, i)
           IN  /\ h \in Seq(S) /\ Len(h) = Cardinality(S)
               /\ \A c \in S : \E k \in DOMAIN h : h[k] = c
               /\ \A j, k \in DOMAIN h : j < k <=> Precedes(h[j], h[k])
<1> DEFINE h == History(db, i)
           S == RecordsOf(db, i)
           R == ByDay(S)
<1>1. S \subseteq db.records
    BY DEF RecordsOf
<1>2. RecordTable(S)
    BY <1>1, FS_Subset DEF RecordTable
<1>3. IsFiniteSet(S) /\ StrictlyOrders(R, S)
    BY <1>2, DaysOrderRecords DEF RecordTable
<1>4. h = [k \in 1..Cardinality(S) |->
              CHOOSE x \in S : Cardinality({y \in S : Precedes(y, x)}) = k - 1]
    BY DEF History, OrderBy
<1> HIDE DEF h, S
<1>5. ASSUME NEW x \in S PROVE Rank(R, S, x) = Cardinality({y \in S : Precedes(y, x)})
    <2>1. Below(R, S, x) = {y \in S : Precedes(y, x)}
        BY DEF Below, ByDay
    <2> QED BY <2>1 DEF Rank
<1>6. ASSUME NEW k \in 1..Cardinality(S) PROVE h[k] \in S /\ Rank(R, S, h[k]) = k - 1
    <2> DEFINE at(x) == Cardinality({y \in S : Precedes(y, x)}) = k - 1
    <2>1. h[k] = CHOOSE x \in S : at(x)
        BY <1>4
    <2>2. \E x \in S : at(x)
        BY <1>3, <1>5, EveryRankIsHeld
    <2> HIDE DEF at
    <2>3. h[k] \in S /\ at(h[k])
        BY <2>1, <2>2
    <2> QED BY <1>5, <2>3 DEF at
<1>7. h = [k \in 1..Cardinality(S) |-> h[k]]
    BY <1>4
<1> HIDE DEF R
<1>8. /\ h \in Seq(S) /\ Len(h) = Cardinality(S) /\ Cardinality(S) \in Nat
      /\ \A x \in S : Rank(R, S, x) + 1 \in 1..Cardinality(S) /\ h[Rank(R, S, x) + 1] = x
      /\ \A j, k \in 1..Cardinality(S) : j < k <=> <<h[j], h[k]>> \in R
    BY <1>3, <1>6, <1>7, SortedByRank
<1>9. DOMAIN h = 1..Cardinality(S)
    BY <1>7
<1>10. \A j, k \in DOMAIN h : <<h[j], h[k]>> \in R <=> Precedes(h[j], h[k])
    BY <1>6, <1>9 DEF R, ByDay
<1> QED BY <1>8, <1>9, <1>10 DEF h, S

\* The last of a history that has begun is the record the salary join picks, and what comes
\* after it is what has not begun (src/domain/compensation.ts: a page that annotates a
\* history agrees with the list that summarises it).
LEMMA HistoryAgreesWithJoin ==
    ASSUME NEW db, RecordTable(db.records), NEW i, NEW day \in Int
    PROVE  LET h == History(db, i)
               n == CurrentRecordIndex(h, day)
           IN  /\ n \in 0..Len(h)
               /\ \A k \in DOMAIN h : k > n <=> h[k].from > day
               /\ n # 0 => h[n] = PayOn(db, i, day)
               /\ n = 0 => PayOn(db, i, day) = NoPay
<1> DEFINE h     == History(db, i)
           n     == CurrentRecordIndex(h, day)
           S     == RecordsOf(db, i)
           begun == {k \in DOMAIN h : h[k].from <= day}
           pay   == PayOn(db, i, day)
<1>1. /\ h \in Seq(S) /\ Len(h) \in Nat /\ DOMAIN h = 1..Len(h)
      /\ \A c \in S : \E k \in DOMAIN h : h[k] = c
      /\ \A j, k \in DOMAIN h : j < k <=> Precedes(h[j], h[k])
    BY HistoryIsSorted
<1>2. \A c \in S : c.from \in Nat /\ c.id \in Nat
    BY PayrollConstants DEF RecordTable, PayableRecord, Days, RecordsOf
<1>3. \/ {c \in S : c.from <= day} = {} /\ pay = NoPay
      \/ /\ pay \in S /\ pay.from <= day
         /\ \A d \in S : d.from <= day /\ d # pay => Precedes(d, pay)
    BY PayOnIsLatest
<1>4. n = Max({0} \cup begun)
    BY DEF CurrentRecordIndex
<1> HIDE DEF h, S, pay
<1>5. \A k \in DOMAIN h : h[k] \in S
    BY <1>1
<1>6. IsFiniteSet({0} \cup begun) /\ {0} \cup begun \subseteq 0..Len(h)
    <2>1. {0} \cup begun \subseteq 0..Len(h)
        BY <1>1
    <2>2. IsFiniteSet(0..Len(h))
        BY <1>1, FS_Interval
    <2> QED BY <2>1, <2>2, FS_Subset
<1>7. n \in {0} \cup begun /\ \A k \in begun : k <= n
    <2> DEFINE candidates == {0} \cup begun
    <2>1. candidates \in SUBSET Int /\ IsFiniteSet(candidates) /\ candidates # {}
        BY <1>6
    <2> HIDE DEF candidates
    <2>2. Max(candidates) \in candidates /\ \A k \in candidates : k <= Max(candidates)
        BY <2>1, MaxIsGreatest
    <2> QED BY <1>4, <2>2 DEF candidates
<1> HIDE DEF n
<1>8. n \in 0..Len(h)
    BY <1>6, <1>7
<1>9. ASSUME NEW k \in DOMAIN h PROVE k > n <=> h[k].from > day
    <2>1. CASE k <= n
        <3>1. n \in begun
            BY <1>1, <1>7, <2>1
        <3>2. k = n \/ Precedes(h[k], h[n])
            BY <1>1, <2>1, <3>1
        <3>3. h[k].from <= h[n].from
            BY <1>2, <1>5, <3>1, <3>2 DEF Precedes
        <3> QED BY <1>1, <1>2, <1>5, <1>8, <2>1, <3>1, <3>3
    <2>2. CASE k > n
        BY <1>1, <1>2, <1>5, <1>7, <1>8, <2>2
    <2> QED BY <1>1, <1>8, <2>1, <2>2
<1>10. ASSUME n # 0 PROVE h[n] = pay
    <2>1. n \in DOMAIN h /\ h[n] \in S /\ h[n].from <= day
        BY <1>5, <1>7, <1>10
    <2>2. pay \in S /\ pay.from <= day /\ (h[n] # pay => Precedes(h[n], pay))
        BY <1>3, <2>1
    <2>3. PICK k \in DOMAIN h : h[k] = pay
        BY <1>1, <2>2
    <2>4. k <= n
        BY <1>7, <2>2, <2>3
    <2>5. ~ n < k
        BY <1>1, <1>8, <2>4
    <2> QED BY <1>1, <2>1, <2>2, <2>3, <2>5
<1>11. ASSUME n = 0 PROVE pay = NoPay
    <2>1. SUFFICES ASSUME pay \in S, pay.from <= day PROVE FALSE
        BY <1>3
    <2>2. PICK k \in DOMAIN h : h[k] = pay
        BY <1>1, <2>1
    <2> QED BY <1>1, <1>7, <1>11, <2>1, <2>2
<1> QED BY <1>8, <1>9, <1>10, <1>11 DEF h, n, pay

-----------------------------------------------------------------------------
PayRecords == [id : Nat, employee : People, amount : Nat, currency : Currencies, from : Days]

-----------------------------------------------------------------------------
(* Bands *)

\* A band, or none, as a record; only the latter is in no currency.
LEMMA BandFields ==
    ASSUME NEW band \in Band \cup {NoBand}
    PROVE  /\ band # NoBand => /\ band.currency \in Currencies
                               /\ band.min \in Nat \ {0} /\ band.mid \in Nat /\ band.max \in Nat
                               /\ band.min <= band.mid /\ band.mid <= band.max
<1> SUFFICES ASSUME band \in Band
             PROVE  /\ band.currency \in Currencies
                    /\ band.min \in Nat \ {0} /\ band.mid \in Nat /\ band.max \in Nat
                    /\ band.min <= band.mid /\ band.mid <= band.max
    OBVIOUS
<1>1. band.currency \in Currencies /\ band.min \in Amounts /\ band.mid \in Amounts /\ band.max \in Amounts
    BY DEF Band
<1>2. band.min <= band.mid /\ band.mid <= band.max
    BY DEF Band
<1>3. \A a \in Amounts : a \in Nat \ {0}
    BY PayrollConstants, MoneyConstants DEF Payable
<1> QED BY <1>1, <1>2, <1>3

\* The filter of a list and the label on a person agree, whatever the pay and the band
\* (src/repositories/payBands.ts: the same comparison as bandStanding).
THEOREM FilterAgreesWithStanding ==
    ASSUME NEW band \in Band \cup {NoBand}, NEW pay \in PayRecords \cup {NoPay}, NEW fit \in Fits
    PROVE  BandFitCondition(fit, pay, band) <=> BandStanding(pay, band).fit = fit
<1>1. CASE band = NoBand
    BY <1>1 DEF BandFitCondition, BandStanding, NotCompared, Comparable, Fits
<1>2. CASE band # NoBand /\ pay = NoPay
    BY <1>2 DEF BandFitCondition, BandStanding, NotCompared, Comparable, Fits
<1>3. CASE band # NoBand /\ pay # NoPay /\ pay.currency # band.currency
    BY <1>3 DEF BandFitCondition, BandStanding, NotCompared, Comparable, Fits
<1>4. CASE band # NoBand /\ pay # NoPay /\ pay.currency = band.currency
    <2>1. pay.amount \in Nat /\ band.min \in Nat /\ band.max \in Nat /\ band.min <= band.max
        BY <1>4, BandFields DEF PayRecords
    <2>2. BandStanding(pay, band).fit = FitOf(pay.amount, band)
        BY <1>4 DEF BandStanding
    <2>3. (FitOf(pay.amount, band) = fit) <=>
              \/ fit = "BELOW" /\ pay.amount < band.min
              \/ fit = "WITHIN" /\ pay.amount \in band.min..band.max
              \/ fit = "ABOVE" /\ pay.amount > band.max
        BY <2>1 DEF FitOf, Fits
    <2>4. BandFitCondition(fit, pay, band) <=>
              \/ fit = "BELOW" /\ pay.amount < band.min
              \/ fit = "WITHIN" /\ pay.amount \in band.min..band.max
              \/ fit = "ABOVE" /\ pay.amount > band.max
        BY <1>4 DEF BandFitCondition, Comparable, Fits
    <2> QED BY <2>2, <2>3, <2>4
<1> QED BY <1>1, <1>2, <1>3, <1>4

\* A preview warns of exactly those who would then be shown as paid above their band
\* (src/services/bulkRaise.ts: the same rule bandStanding applies).
THEOREM BreachMeansAbove ==
    ASSUME NEW band \in Band \cup {NoBand}, NEW pay \in PayRecords, NEW newMinor \in Nat
    PROVE  BreachOf(pay.currency, newMinor, band)
               <=> BandStanding([pay EXCEPT !.amount = newMinor], band).fit = "ABOVE"
<1> DEFINE raised == [pay EXCEPT !.amount = newMinor]
<1>1. raised \in PayRecords /\ raised # NoPay /\ raised.amount = newMinor
                            /\ raised.currency = pay.currency
    BY DEF PayRecords, NoPay, Null
<1>2. BandStanding(raised, band).fit = "ABOVE" <=> BandFitCondition("ABOVE", raised, band)
    BY <1>1, FilterAgreesWithStanding DEF Fits
<1>3. BandFitCondition("ABOVE", raised, band) <=> Comparable(raised, band) /\ raised.amount > band.max
    BY DEF BandFitCondition
<1> QED BY <1>1, <1>2, <1>3 DEF BreachOf, Comparable

-----------------------------------------------------------------------------
(* Rounding *)

\* A quotient rounded down.
LEMMA Quotient ==
    ASSUME NEW x \in Int, NEW k \in Nat \ {0}
    PROVE  x \div k \in Int /\ k * (x \div k) <= x /\ x < k * (x \div k) + k
OBVIOUS

\* A rounded quotient is within half a unit of the exact one, and on the upper side of a half.
LEMMA RoundIsNearest ==
    ASSUME NEW n \in Int, NEW d \in Nat \ {0}
    PROVE  /\ Round(n, d) \in Int
           /\ 2 * n - d < 2 * (d * Round(n, d))
           /\ 2 * (d * Round(n, d)) <= 2 * n + d
<1> DEFINE x == 2 * n + d
           k == 2 * d
           q == x \div k
<1>1. x \in Int /\ k \in Nat \ {0}
    OBVIOUS
<1> HIDE DEF x, k
<1>2. q \in Int /\ k * q <= x /\ x < k * q + k
    BY <1>1, Quotient
<1>3. Round(n, d) = q
    BY DEF Round, x, k
<1> HIDE DEF q
<1>4. k * q = 2 * (d * q) /\ d * q \in Int
    BY <1>2 DEF k
<1> QED BY <1>2, <1>3, <1>4 DEF x, k

\* Of two quotients by one divisor the rounded ones come in the order of the exact ones.
LEMMA RoundKeepsOrder ==
    ASSUME NEW m \in Int, NEW n \in Int, NEW d \in Nat \ {0}, m <= n
    PROVE  Round(m, d) <= Round(n, d)
<1> DEFINE p == Round(m, d)
           q == Round(n, d)
<1>1. p \in Int /\ q \in Int /\ 2 * (d * p) <= 2 * m + d /\ 2 * n - d < 2 * (d * q)
    BY RoundIsNearest
<1> HIDE DEF p, q
<1>2. SUFFICES ASSUME q < p PROVE FALSE
    BY <1>1 DEF p, q
<1>3. d * p >= d * (q + 1)
    BY <1>1, <1>2, SMT
<1>4. d * (q + 1) = d * q + d
    BY <1>1, SMT
<1>5. 2 * (d * q) + 2 * d <= 2 * m + d
    BY <1>1, <1>3, <1>4, SMT
<1> QED BY <1>1, <1>5, SMT

-----------------------------------------------------------------------------
(* Raises *)

\* An exact multiple of a whole amount by a percentage is one number.
LEMMA Exact ==
    ASSUME NEW a \in Int, NEW b \in Int
    PROVE  a * b \in Int /\ a * (Unit + b) = Unit * a + a * b
BY DEF Unit

\* A raise of what can be paid is either refused or paid: what PayLedger takes Raised to be
\* (src/domain/raise.ts, and the checks of compensation_records).
THEOREM RaisedIsPayable ==
    ASSUME NEW a \in Int, NEW b \in Int
    PROVE  RaisedAmountMinor(a, b) = Refused \/ Payable(RaisedAmountMinor(a, b))
BY DEF RaisedAmountMinor

\* A raise is rounded to the nearest minor unit, and half a unit goes to the person, on a
\* cut as on a rise (src/domain/raise.ts: a rounding decision never leaves somebody worse
\* off).
THEOREM RaiseIsRounded ==
    ASSUME NEW a \in Int, NEW b \in BasisPoints, RaisedAmountMinor(a, b) # Refused
    PROVE  LET raised == RaisedAmountMinor(a, b)
           IN  /\ raised \in Nat
               /\ 2 * (a * (Unit + b)) - Unit < 2 * (Unit * raised)
               /\ 2 * (Unit * raised) <= 2 * (a * (Unit + b)) + Unit
<1> DEFINE up == Round(a * b, Unit)
<1>1. b \in Int /\ a * b \in Int
    BY DEF BasisPoints, Unit
<1>2. up \in Int /\ 2 * (a * b) - Unit < 2 * (Unit * up) /\ 2 * (Unit * up) <= 2 * (a * b) + Unit
    BY <1>1, RoundIsNearest DEF Unit
<1>3. RaisedAmountMinor(a, b) = a + up /\ a + up \in Nat
    BY <1>2, MoneyConstants DEF RaisedAmountMinor, Payable
<1>4. a * (Unit + b) = Unit * a + a * b
    BY <1>1, Exact
<1> HIDE DEF up
<1> QED BY <1>1, <1>2, <1>3, <1>4 DEF Unit

\* Whoever earned no more than somebody else earns no more after one raise of both
\* (src/domain/raise.ts).
THEOREM RaiseKeepsOrder ==
    ASSUME NEW a \in Int, NEW c \in Int, NEW b \in BasisPoints, a <= c,
           RaisedAmountMinor(a, b) # Refused, RaisedAmountMinor(c, b) # Refused
    PROVE  RaisedAmountMinor(a, b) <= RaisedAmountMinor(c, b)
<1>1. b \in Int /\ a * b \in Int /\ c * b \in Int /\ Unit + b \in Nat
    BY DEF BasisPoints, Unit
<1>2. a * (Unit + b) <= c * (Unit + b)
    <2>1. (c - a) * (Unit + b) >= 0
        BY <1>1
    <2> QED BY <1>1, <2>1 DEF Unit
<1>3. Unit * a + a * b <= Unit * c + c * b
    BY <1>1, <1>2, Exact
<1>4. Round(Unit * a + a * b, Unit) <= Round(Unit * c + c * b, Unit)
    BY <1>1, <1>3, RoundKeepsOrder DEF Unit
<1>5. ASSUME NEW x \in Int, NEW y \in Int
      PROVE  Round(Unit * x + y, Unit) = x + Round(y, Unit)
    BY DEF Round, Unit
<1> QED BY <1>1, <1>4, <1>5 DEF RaisedAmountMinor

-----------------------------------------------------------------------------
(* The estimate in dollars *)

Near(x, y, e) == x \in Int /\ y \in Int /\ e \in Int /\ x - e <= y /\ y <= x + e

LEMMA NearSymmetric ==
    ASSUME NEW x, NEW y, NEW e, Near(x, y, e)
    PROVE  Near(y, x, e)
BY DEF Near

LEMMA NearAdds ==
    ASSUME NEW x, NEW y, NEW z, NEW e, NEW f, Near(x, y, e), Near(y, z, f)
    PROVE  Near(x, z, e + f)
BY DEF Near

\* What is near a number is near its multiple, as many times over.
LEMMA NearScales ==
    ASSUME NEW x, NEW y, NEW e, NEW k \in Nat, Near(x, y, e)
    PROVE  Near(x * k, y * k, e * k)
<1>1. x \in Int /\ y \in Int /\ e \in Int /\ y - x + e \in Nat /\ x + e - y \in Nat
    BY DEF Near
<1>2. (y - x + e) * k \in Nat /\ (x + e - y) * k \in Nat
    BY <1>1
<1>3. (y - x + e) * k = y * k - x * k + e * k /\ (x + e - y) * k = x * k + e * k - y * k
    BY <1>1
<1> QED BY <1>1, <1>2, <1>3 DEF Near

LEMMA RoundIsNear ==
    ASSUME NEW n \in Int, NEW d \in Nat \ {0}, NEW h \in Int, 2 * h = d
    PROVE  Round(n, d) \in Int /\ Near(n, d * Round(n, d), h)
<1> DEFINE q == Round(n, d)
<1>1. q \in Int /\ 2 * n - d < 2 * (d * q) /\ 2 * (d * q) <= 2 * n + d
    BY RoundIsNearest
<1> HIDE DEF q
<1>2. d * q \in Int
    BY <1>1
<1> QED BY <1>1, <1>2 DEF Near, q

LEMMA RaiseIsNear ==
    ASSUME NEW a \in Int, NEW b \in BasisPoints, NEW h \in Int, 2 * h = Unit,
           RaisedAmountMinor(a, b) # Refused
    PROVE  RaisedAmountMinor(a, b) \in Int /\ Near(a * (Unit + b), Unit * RaisedAmountMinor(a, b), h)
<1> DEFINE raised == RaisedAmountMinor(a, b)
           exact == a * (Unit + b)
<1>1. raised \in Nat /\ 2 * exact - Unit < 2 * (Unit * raised) /\ 2 * (Unit * raised) <= 2 * exact + Unit
    BY RaiseIsRounded
<1>2. exact \in Int
    BY DEF BasisPoints, Unit
<1> HIDE DEF raised, exact
<1>3. Unit * raised \in Int
    BY <1>1 DEF Unit
<1> QED BY <1>1, <1>2, <1>3 DEF Near, raised, exact, Unit

\* The units of a rate and of a percentage, half of each, a rate below two and a raise of at
\* most 100%: the numbers under a name, which the provers match more easily than numbers.
Scales(c, d, p, q, r, k) ==
    c = RateUnit /\ d = Unit /\ 2 * p = c /\ 2 * q = d /\ r \in 0..(2 * c - 1) /\ k \in 0..(2 * Unit)

\* Whole numbers that differ by less than three times c when each is taken c times.
LEMMA WithinTwo ==
    ASSUME NEW x \in Int, NEW y \in Int, NEW c \in Nat \ {0},
           (c * x) - (c * y) < 3 * c, (c * y) - (c * x) < 3 * c
    PROVE  x - y \in -2..2
<1>1. (c * x) - (c * y) = c * (x - y) /\ (c * y) - (c * x) = c * (y - x)
    OBVIOUS
<1>2. ASSUME NEW z \in Int, c * z < 3 * c PROVE z <= 2
    <2>1. SUFFICES ASSUME z >= 3 PROVE FALSE
        BY <1>2
    <2>2. c * (z - 3) >= 0
        BY <2>1
    <2>3. c * (z - 3) = c * z - 3 * c
        OBVIOUS
    <2> QED BY <1>2, <2>2, <2>3
<1>3. x - y <= 2 /\ y - x <= 2
    BY <1>1, <1>2
<1> QED BY <1>3

LEMMA TwoWays ==
    ASSUME NEW a \in Int, NEW r \in Nat, NEW k \in Nat, NEW c \in Nat, NEW d \in Nat,
           NEW p \in Int, NEW q \in Int, Scales(c, d, p, q, r, k),
           NEW u \in Int, NEW est \in Int, NEW new \in Int, NEW paid \in Int,
           Near(a * r, c * u, p), Near(u * k, d * est, q),
           Near(a * k, d * new, q), Near(new * r, c * paid, p)
    PROVE  est - paid \in -2..2
<1>1. Near((a * r) * k, (c * u) * k, p * k)
    BY NearScales, Zenon
<1>2. Near((u * k) * c, (d * est) * c, q * c)
    BY NearScales, Zenon
<1>3. (c * u) * k = (u * k) * c
    OBVIOUS
<1>4. Near((a * r) * k, (d * est) * c, p * k + q * c)
    BY <1>1, <1>2, <1>3, NearAdds, Zenon
<1>5. Near((a * k) * r, (d * new) * r, q * r)
    BY NearScales, Zenon
<1>6. Near((new * r) * d, (c * paid) * d, p * d)
    BY NearScales, Zenon
<1>7. (d * new) * r = (new * r) * d
    OBVIOUS
<1>8. Near((a * k) * r, (c * paid) * d, q * r + p * d)
    BY <1>5, <1>6, <1>7, NearAdds, Zenon
<1>9. (a * r) * k = (a * k) * r
    OBVIOUS
<1>10. Near((d * est) * c, (a * r) * k, p * k + q * c)
    BY <1>4, NearSymmetric, Zenon
<1>11. Near((d * est) * c, (c * paid) * d, (p * k + q * c) + (q * r + p * d))
    BY <1>8, <1>9, <1>10, NearAdds, Zenon
<1>12. d = 10000 /\ q = 5000 /\ 2 * p = c /\ c \in Nat \ {0}
    BY PayrollConstants DEF Scales, Unit
<1>13. /\ (d * est) * c = 10000 * (c * est) /\ (c * paid) * d = 10000 * (c * paid)
       /\ q * c = 5000 * c /\ p * d = 10000 * p
    BY <1>12
<1>14. p * k <= 20000 * p /\ q * r <= 5000 * (2 * c - 1)
    <2>1. k <= 20000 /\ r <= 2 * c - 1 /\ p \in Nat
        BY <1>12 DEF Scales, Unit
    <2>2. p * (20000 - k) >= 0 /\ p * (20000 - k) = 20000 * p - p * k
        BY <2>1
    <2> QED BY <1>12, <2>1, <2>2
<1> DEFINE x == c * est
           y == c * paid
           pk == p * k
           qr == q * r
<1>15. x \in Int /\ y \in Int /\ pk \in Int /\ qr \in Int
    BY <1>12
<1>16. Near(10000 * x, 10000 * y, (pk + 5000 * c) + (qr + 10000 * p))
    BY <1>11, <1>13
<1>17. pk <= 20000 * p /\ qr <= 5000 * (2 * c - 1)
    BY <1>14
<1> HIDE DEF x, y, pk, qr
<1>18. x - y < 3 * c /\ y - x < 3 * c
    BY <1>12, <1>15, <1>16, <1>17 DEF Near
<1> QED BY <1>12, <1>18, WithinTwo DEF x, y

\* The rates of a currency whose unit is worth less than two dollars.
CheapRates == {r \in Nat \ {0} : r < 2 * RateUnit}

\* A report estimates a raise in dollars by raising the converted salary.  At any rate below
\* two, however many places it has, that is within two cents of converting the raised salary;
\* the "at most a cent" of src/services/bulkRaise.ts is not what the arithmetic gives.
THEOREM EstimateIsClose ==
    ASSUME NEW a \in Nat, NEW b \in BasisPoints, NEW r \in CheapRates,
           RaisedAmountMinor(a, b) # Refused, RaisedAmountMinor(Round(a * r, RateUnit), b) # Refused
    PROVE  RaisedAmountMinor(Round(a * r, RateUnit), b)
               - Round(RaisedAmountMinor(a, b) * r, RateUnit) \in -2..2
<1> DEFINE k == Unit + b
           u == Round(a * r, RateUnit)
           est == RaisedAmountMinor(u, b)
           new == RaisedAmountMinor(a, b)
           paid == Round(new * r, RateUnit)
<1>1. r \in Nat /\ a * r \in Int /\ k \in 0..(2 * Unit) /\ a \in Int
    BY DEF BasisPoints, Unit, CheapRates
<1>2. PICK c \in Nat \ {0}, d \in Nat, p \in Int, q \in Int :
          c = RateUnit /\ d = Unit /\ 2 * p = c /\ 2 * q = d
    <2>1. PICK c \in Nat \ {0} : c = RateUnit
        BY PayrollConstants
    <2>2. PICK d \in Nat : d = Unit
        BY DEF Unit
    <2>3. PICK p \in Int : 2 * p = c
        <3>1. RateUnit \div 2 \in Int /\ 2 * (RateUnit \div 2) = RateUnit
            BY PayrollConstants
        <3> QED BY <2>1, <3>1
    <2>4. PICK q \in Int : 2 * q = d
        BY <2>2, 5000 \in Int DEF Unit
    <2> QED BY <2>1, <2>2, <2>3, <2>4, Zenon
<1>3. Scales(c, d, p, q, r, k)
    <2>1. r \in 0..(2 * c - 1)
        BY <1>2 DEF CheapRates
    <2> HIDE DEF k
    <2> QED BY <1>1, <1>2, <2>1, Zenon DEF Scales
<1>4. u \in Int /\ Near(a * r, c * u, p)
    BY <1>1, <1>2, RoundIsNear
<1>5. est \in Int /\ Near(u * k, d * est, q)
    BY <1>2, <1>4, RaiseIsNear
<1>6. new \in Int /\ Near(a * k, d * new, q)
    BY <1>1, <1>2, RaiseIsNear
<1>7. paid \in Int /\ Near(new * r, c * paid, p)
    <2>1. new * r \in Int
        BY <1>1, <1>6
    <2> QED BY <1>2, <2>1, RoundIsNear
<1> HIDE DEF k, u, est, new, paid
<1>8. k \in Nat /\ c \in Nat
    BY <1>1, <1>2
<1>9. est - paid \in -2..2
    BY <1>1, <1>3, <1>4, <1>5, <1>6, <1>7, <1>8, TwoWays, ZenonT(60)
<1> QED BY <1>9 DEF est, paid, u, new

\* Two cents is what it may come to, at the rate the pound is seeded with, so no smaller bound
\* holds; src/services/bulkRaise.ts and docs/design-notes.md have "at most a cent per person".
THEOREM ACentIsNotEnough ==
    ASSUME MaxMinor >= 6000000, RateUnit = 100000000
    PROVE  \E a \in Nat, b \in BasisPoints, r \in CheapRates :
               /\ RaisedAmountMinor(a, b) # Refused
               /\ RaisedAmountMinor(Round(a * r, RateUnit), b) # Refused
               /\ RaisedAmountMinor(Round(a * r, RateUnit), b)
                      - Round(RaisedAmountMinor(a, b) * r, RateUnit) = 2
<1> DEFINE a == 2401339
           r == 127000000
<1>1. 250 \in BasisPoints /\ r \in CheapRates
    BY DEF BasisPoints, Unit, CheapRates
<1>2. Round(a * r, RateUnit) = 3049701 /\ Round(2461372 * r, RateUnit) = 3125942
    BY DEF Round
<1>3. RaisedAmountMinor(a, 250) = 2461372 /\ RaisedAmountMinor(3049701, 250) = 3125944
    BY MoneyConstants DEF RaisedAmountMinor, Round, Unit, Payable
<1>4. 2461372 # Refused /\ 3125944 # Refused
    BY DEF Refused
<1> QED BY <1>1, <1>2, <1>3, <1>4
=============================================================================
