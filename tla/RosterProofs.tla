---------------------------- MODULE RosterProofs ----------------------------
(***************************************************************************)
(* Proofs about Roster, for any number of wires, any REAC_ROSTER_MAX and   *)
(* any number of deaths of the server: what reac_roster_add and            *)
(* roster_collect compute, that the graph shows what was published, and    *)
(* that a tick leaves every wire on it.                                    *)
(***************************************************************************)
EXTENDS Roster, FiniteSetTheorems, SequenceTheorems, WellFoundedInduction, TLAPS

-----------------------------------------------------------------------------
(* Induction, stated with a set.                                           *)

\* A set of numbers that is not empty has a least one.
LEMMA LeastNumber ==
    ASSUME NEW T \in SUBSET Nat, T # {}
    PROVE  \E x \in T : \A y \in T : x <= y
<1>1. \E x \in T : \A y \in T : ~(<<y, x>> \in OpToRel(<, Nat))
    BY NatLessThanWellFounded, WFMin, Zenon
<1>2. \A x \in T, y \in T : ~(<<y, x>> \in OpToRel(<, Nat)) => x <= y
    BY DEF OpToRel
<1> QED BY <1>1, <1>2

\* A set that has 0 and with every number the next has them all.
LEMMA SetInduction ==
    ASSUME NEW P, 0 \in P, \A n \in Nat : n \in P => n + 1 \in P
    PROVE  \A n \in Nat : n \in P
<1>1. SUFFICES ASSUME \E n \in Nat : n \notin P PROVE FALSE
    OBVIOUS
<1>2. PICK x \in Nat \ P : \A y \in Nat \ P : x <= y
    BY <1>1, LeastNumber
<1>3. x # 0 /\ x - 1 \in Nat /\ x - 1 \in P
    BY <1>2
<1> QED BY <1>2, <1>3

-----------------------------------------------------------------------------
(* reac_roster_add.                                                        *)

\* What InsertAt of the sequence library holds, place by place.
LEMMA Inserted ==
    ASSUME NEW S, NEW s \in Seq(S), NEW e \in S, NEW at \in 1..(Len(s) + 1)
    PROVE  /\ InsertAt(s, at, e) \in Seq(S)
           /\ Len(InsertAt(s, at, e)) = Len(s) + 1
           /\ \A k \in 1..(Len(s) + 1) :
                 InsertAt(s, at, e)[k] =
                     IF k < at THEN s[k] ELSE IF k = at THEN e ELSE s[k - 1]
<1>1. PICK a : a = SubSeq(s, 1, at - 1)
    OBVIOUS
<1>2. PICK b : b = SubSeq(s, at, Len(s))
    OBVIOUS
<1>3. a \in Seq(S) /\ Len(a) = at - 1 /\ \A k \in 1..(at - 1) : a[k] = s[k]
    BY <1>1
<1>4. b \in Seq(S) /\ Len(b) = Len(s) - at + 1 /\ \A k \in 1..(Len(s) - at + 1) : b[k] = s[at + k - 1]
    BY <1>2
<1>5. PICK c : c = a \o <<e>>
    OBVIOUS
<1>6. c \in Seq(S) /\ Len(c) = at /\ c[at] = e /\ \A k \in 1..(at - 1) : c[k] = s[k]
    BY <1>3, <1>5
<1>7. InsertAt(s, at, e) = c \o b
    BY <1>1, <1>2, <1>5 DEF InsertAt
<1>8. /\ c \o b \in Seq(S) /\ Len(c \o b) = Len(s) + 1
      /\ \A k \in 1..(Len(s) + 1) : (c \o b)[k] = IF k <= at THEN c[k] ELSE b[k - at]
    <2>1. /\ c \o b \in Seq(S)
          /\ Len(c \o b) = Len(c) + Len(b)
          /\ \A i \in 1..(Len(c) + Len(b)) :
                 (c \o b)[i] = IF i <= Len(c) THEN c[i] ELSE b[i - Len(c)]
        BY <1>4, <1>6, ConcatProperties
    <2>2. Len(c) = at /\ Len(c) + Len(b) = Len(s) + 1
        BY <1>4, <1>6
    <2> QED BY <2>1, <2>2
<1>9. PICK d : d = c \o b
    OBVIOUS
<1>10. ASSUME NEW k \in 1..(Len(s) + 1)
       PROVE  d[k] = IF k < at THEN s[k] ELSE IF k = at THEN e ELSE s[k - 1]
    <2>1. d[k] = IF k <= at THEN c[k] ELSE b[k - at]
        BY <1>8, <1>9
    <2>2. CASE k <= at
        <3>1. c[k] = IF k < at THEN s[k] ELSE e
            BY <1>6, <2>2
        <3> QED BY <2>1, <2>2, <3>1
    <2>3. CASE k > at
        <3>1. k - at \in 1..(Len(s) - at + 1)
            BY <2>3
        <3>2. b[k - at] = s[k - 1]
            BY <3>1, <1>4
        <3>3. ~(k <= at) /\ ~(k < at) /\ k # at
            BY <2>3
        <3> QED BY <2>1, <3>2, <3>3
    <2> QED BY <2>2, <2>3
<1> QED BY <1>7, <1>8, <1>9, <1>10

\* The rows of a list.
Rows(w) == {w[k] : k \in 1..Len(w)}

Takes(w, r) == Len(w) < RosterMax /\ \A k \in 1..Len(w) : w[k].name # r.name

\* A list in the order of its names has a place for a name it does not hold.
LEMMA PlaceExists ==
    ASSUME NEW w \in Rosters, NEW r \in RosterRows, Takes(w, r)
    PROVE  \E p \in 1..(Len(w) + 1) : /\ p > 1 => w[p - 1].name < r.name
                                      /\ p <= Len(w) => r.name < w[p].name
<1> DEFINE T == {p \in 1..(Len(w) + 1) : p <= Len(w) => r.name < w[p].name}
<1>1. w \in Seq(RosterRows) /\ Len(w) \in Nat
    BY DEF Rosters
<1>2. \A k \in 1..Len(w) : w[k] \in RosterRows
    BY <1>1
<1>3. T \in SUBSET Nat /\ Len(w) + 1 \in T
    BY <1>1
<1>4. PICK p \in T : \A q \in T : p <= q
    BY <1>3, LeastNumber
<1>5. ASSUME p > 1 PROVE w[p - 1].name < r.name
    <2>1. p - 1 \in 1..Len(w) /\ p - 1 \notin T
        BY <1>1, <1>4, <1>5
    <2>2. w[p - 1].name \in Nat /\ r.name \in Nat /\ w[p - 1].name # r.name
        BY <1>2, <2>1, RosterAssumption DEF RosterRows, Names, Takes
    <2> QED BY <1>1, <2>1, <2>2
<1> QED BY <1>4, <1>5

\* reac_roster_add leaves a list within its bound, in the order of the names and without
\* a name twice; it keeps every row it had and takes the new one if there is room and no
\* row of that name.
LEMMA RosterAddKeeps ==
    ASSUME NEW w \in Rosters, NEW r \in RosterRows
    PROVE  /\ RosterAdd(w, r) \in Rosters
           /\ Rows(RosterAdd(w, r)) = IF Takes(w, r) THEN Rows(w) \cup {r} ELSE Rows(w)
<1>1. w \in Seq(RosterRows) /\ Len(w) \in Nat /\ Len(w) <= RosterMax /\ RosterMax \in Nat
    BY RosterAssumption DEF Rosters
<1>2. CASE ~Takes(w, r)
    <2>1. RosterAdd(w, r) = w
        BY <1>1, <1>2 DEF RosterAdd, Takes
    <2> QED BY <1>2, <2>1
<1>3. CASE Takes(w, r)
    <2>1. PICK at : at = CHOOSE p \in 1..(Len(w) + 1) :
                             /\ p > 1 => w[p - 1].name < r.name
                             /\ p <= Len(w) => r.name < w[p].name
        OBVIOUS
    <2>2. /\ at \in 1..(Len(w) + 1)
          /\ at > 1 => w[at - 1].name < r.name
          /\ at <= Len(w) => r.name < w[at].name
        BY <1>3, <2>1, PlaceExists
    <2>3. RosterAdd(w, r) = InsertAt(w, at, r)
        BY <1>1, <1>3, <2>1 DEF RosterAdd, Takes
    <2>4. PICK v : v = InsertAt(w, at, r)
        OBVIOUS
    <2>5. /\ v \in Seq(RosterRows) /\ Len(v) = Len(w) + 1
          /\ \A k \in 1..(Len(w) + 1) :
                v[k] = IF k < at THEN w[k] ELSE IF k = at THEN r ELSE w[k - 1]
        <3>1. at \in 1..(Len(w) + 1)
            BY <2>2
        <3>2. /\ InsertAt(w, at, r) \in Seq(RosterRows)
              /\ Len(InsertAt(w, at, r)) = Len(w) + 1
              /\ \A k \in 1..(Len(w) + 1) :
                    InsertAt(w, at, r)[k] =
                        IF k < at THEN w[k] ELSE IF k = at THEN r ELSE w[k - 1]
            BY <1>1, <3>1, Inserted
        <3> QED BY <2>4, <3>2
    <2>6. \A k \in 1..Len(w) : w[k].name \in Nat
        <3>1. \A k \in 1..Len(w) : w[k] \in RosterRows
            BY <1>1
        <3> QED BY <3>1, RosterAssumption DEF RosterRows, Names
    <2>7. r.name \in Nat
        BY RosterAssumption DEF RosterRows, Names
    <2>8. \A j, k \in 1..Len(w) : j < k => w[j].name < w[k].name
        BY DEF Rosters
    <2>9. \A k \in 1..Len(w) : k < at => w[k].name < r.name
        BY <1>1, <2>2, <2>6, <2>7, <2>8
    <2>10. \A k \in 1..Len(w) : k >= at => r.name < w[k].name
        BY <1>1, <2>2, <2>6, <2>7, <2>8
    <2>11. ASSUME NEW j \in 1..Len(v), NEW k \in 1..Len(v), j < k
           PROVE  v[j].name < v[k].name
        <3>1. CASE k < at
            <4>1. k \in 1..Len(w) /\ j \in 1..Len(w) /\ j < at
                BY <3>1, <1>1, <2>2, <2>5, <2>11
            <4>2. v[j] = w[j] /\ v[k] = w[k]
                BY <4>1, <3>1, <2>5
            <4> QED BY <4>1, <4>2, <2>8, <2>11
        <3>2. CASE k = at
            <4>1. j \in 1..Len(w) /\ j < at
                BY <3>2, <1>1, <2>2, <2>5, <2>11
            <4>2. v[j] = w[j] /\ v[k] = r
                BY <4>1, <3>2, <2>2, <2>5
            <4> QED BY <4>1, <4>2, <2>9
        <3>3. CASE k > at /\ j < at
            <4>1. k - 1 \in 1..Len(w) /\ j \in 1..Len(w) /\ j < k - 1
                BY <3>3, <1>1, <2>2, <2>5
            <4> QED BY <4>1, <3>3, <2>2, <2>5, <2>8
        <3>4. CASE k > at /\ j = at
            <4>1. k - 1 \in 1..Len(w) /\ k - 1 >= at
                BY <3>4, <1>1, <2>2, <2>5
            <4> QED BY <4>1, <3>4, <2>2, <2>5, <2>10
        <3>5. CASE k > at /\ j > at
            <4>1. k - 1 \in 1..Len(w) /\ j - 1 \in 1..Len(w) /\ j - 1 < k - 1
                BY <3>5, <1>1, <2>2, <2>5, <2>11
            <4>2. v[j] = w[j - 1] /\ v[k] = w[k - 1]
                BY <4>1, <3>5, <2>2, <2>5
            <4> QED BY <4>1, <4>2, <2>8
        <3> QED BY <3>1, <3>2, <3>3, <3>4, <3>5, <2>2
    <2>12. v \in Rosters
        BY <1>1, <1>3, <2>5, <2>11 DEF Rosters, Takes
    <2>13. Rows(v) \subseteq Rows(w) \cup {r}
        <3>1. SUFFICES ASSUME NEW k \in 1..Len(v) PROVE v[k] \in Rows(w) \cup {r}
            BY DEF Rows
        <3>2. v[k] = r \/ (k \in 1..Len(w) /\ v[k] = w[k]) \/ (k - 1 \in 1..Len(w) /\ v[k] = w[k - 1])
            BY <1>1, <2>2, <2>5
        <3> QED BY <3>2 DEF Rows
    <2>14. Rows(w) \subseteq Rows(v)
        <3>1. SUFFICES ASSUME NEW k \in 1..Len(w) PROVE w[k] \in Rows(v)
            BY DEF Rows
        <3>2. k \in 1..Len(v) /\ k + 1 \in 1..Len(v)
            BY <1>1, <2>5
        <3>3. w[k] = v[k] \/ w[k] = v[k + 1]
            BY <1>1, <2>2, <2>5, <3>2
        <3> QED BY <3>2, <3>3 DEF Rows
    <2>15. r \in Rows(v)
        <3>1. at \in 1..Len(v) /\ v[at] = r
            BY <2>2, <2>5
        <3> QED BY <3>1 DEF Rows
    <2> QED BY <1>3, <2>3, <2>4, <2>12, <2>13, <2>14, <2>15
<1> QED BY <1>2, <1>3

\* A list has a place left for a wire it does not name, as long as there are no more wires
\* than places.
LEMMA RoomForAnother ==
    ASSUME NEW w \in Rosters, NEW x \in Names, N <= RosterMax,
           \A k \in 1..Len(w) : w[k].name # x
    PROVE  Len(w) < RosterMax
<1>1. w \in Seq(RosterRows) /\ Len(w) \in Nat
    BY DEF Rosters
<1>2. \A k \in 1..Len(w) : w[k].name \in Names
    <2>1. \A k \in 1..Len(w) : w[k] \in RosterRows
        BY <1>1
    <2> QED BY <2>1 DEF RosterRows
<1>3. PICK f : f = [k \in 1..Len(w) |-> w[k].name]
    OBVIOUS
<1>4. f \in Injection(1..Len(w), Names \ {x})
    <2>1. f \in [1..Len(w) -> Names \ {x}]
        BY <1>2, <1>3
    <2>2. ASSUME NEW j \in 1..Len(w), NEW k \in 1..Len(w), f[j] = f[k] PROVE j = k
        <3>1. w[j].name = w[k].name
            BY <1>3, <2>2
        <3>2. w[j].name \in Nat
            BY <1>2, RosterAssumption DEF Names
        <3>3. ~(j < k) /\ ~(k < j)
            BY <3>1, <3>2 DEF Rosters
        <3> QED BY <1>1, <3>3
    <2> QED BY <2>1, <2>2 DEF Injection, IsInjective
<1>5. IsFiniteSet(Names) /\ Cardinality(Names) = N
    <2>1. N \in Nat /\ N >= 1 /\ 1 \in Int /\ N \in Int
        BY RosterAssumption DEF Names
    <2>2. IsFiniteSet(1..N) /\ Cardinality(1..N) = IF 1 > N THEN 0 ELSE N - 1 + 1
        BY <2>1, FS_Interval
    <2> QED BY <2>1, <2>2 DEF Names
<1>6. IsFiniteSet(Names \ {x}) /\ Cardinality(Names \ {x}) = N - 1
    BY <1>5, FS_RemoveElement
<1>7. Cardinality(1..Len(w)) <= N - 1
    BY <1>4, <1>6, FS_Injection
<1>8. Cardinality(1..Len(w)) = Len(w)
    BY <1>1, FS_Interval
<1> QED BY <1>1, <1>7, <1>8, RosterAssumption

-----------------------------------------------------------------------------
(* roster_collect.                                                         *)

\* The function AddAll defines by recursion, its steps being g.
IsWalk(f, n, S, g) ==
    f = [i \in 0..n |-> [l \in S |-> IF i = 0 THEN l ELSE f[i - 1][g[i][l]]]]

\* It exists, whatever the steps do.
LEMMA WalkExists ==
    ASSUME NEW n \in Nat, NEW S, NEW g \in [1..n -> [S -> S]]
    PROVE  \E f : IsWalk(f, n, S, g)
<1> DEFINE Good(m) ==
        \E f : f = [i \in 0..m |-> [l \in S |-> IF i = 0 THEN l ELSE f[i - 1][g[i][l]]]]
<1> DEFINE P == {m \in Nat : m <= n => Good(m)}
<1>1. 0 \in P
    <2>1. PICK f : f = [i \in 0..0 |-> [l \in S |-> l]]
        OBVIOUS
    <2>2. f = [i \in 0..0 |-> [l \in S |-> IF i = 0 THEN l ELSE f[i - 1][g[i][l]]]]
        BY <2>1
    <2> QED BY <2>2
<1>2. ASSUME NEW m \in Nat, m \in P PROVE m + 1 \in P
    <2>1. SUFFICES ASSUME m + 1 <= n PROVE Good(m + 1)
        OBVIOUS
    <2>2. PICK f : f = [i \in 0..m |-> [l \in S |-> IF i = 0 THEN l ELSE f[i - 1][g[i][l]]]]
        BY <1>2, <2>1
    <2>3. PICK h : h = [i \in 0..(m + 1) |->
                          [l \in S |-> IF i <= m THEN f[i][l] ELSE f[m][g[m + 1][l]]]]
        OBVIOUS
    <2>4. ASSUME NEW i \in 0..(m + 1), NEW l \in S
          PROVE  h[i][l] = IF i = 0 THEN l ELSE h[i - 1][g[i][l]]
        <3>1. CASE i = 0
            BY <2>2, <2>3, <3>1
        <3>2. CASE i \in 1..m
            <4>1. g[i][l] \in S /\ i - 1 \in 0..m /\ i \in 0..m
                BY <2>1, <3>2
            <4>2. h[i][l] = f[i][l] /\ h[i - 1][g[i][l]] = f[i - 1][g[i][l]]
                BY <2>3, <4>1
            <4>3. f[i] = [k \in S |-> IF i = 0 THEN k ELSE f[i - 1][g[i][k]]]
                BY <2>2, <4>1
            <4>4. f[i][l] = f[i - 1][g[i][l]]
                BY <4>3, <3>2
            <4> QED BY <4>2, <4>4, <3>2
        <3>3. CASE i = m + 1
            <4>1. g[i][l] \in S
                BY <2>1, <3>3
            <4>2. h[i][l] = f[m][g[i][l]] /\ h[i - 1][g[i][l]] = f[m][g[i][l]]
                BY <2>3, <4>1, <3>3
            <4> QED BY <4>2, <3>3
        <3> QED BY <3>1, <3>2, <3>3
    <2>5. h = [i \in 0..(m + 1) |-> [l \in S |-> IF i = 0 THEN l ELSE h[i - 1][g[i][l]]]]
        BY <2>3, <2>4
    <2> QED BY <2>5
<1>3. n \in P
    <2> HIDE DEF P
    <2> QED BY <1>1, <1>2, SetInduction
<1> QED BY <1>3 DEF IsWalk

\* What one table leaves: a list in order, every row that was there, no row but the
\* table's, and, as long as there are no more wires than places, a row for every wire of
\* the table.
LEMMA AddAllKeeps ==
    ASSUME NEW want \in Rosters, NEW T \in SUBSET Names,
           \A i \in T : Row(i, WireState(i)) \in RosterRows
    PROVE  /\ AddAll(want, T) \in Rosters
           /\ Rows(want) \subseteq Rows(AddAll(want, T))
           /\ Rows(AddAll(want, T)) \subseteq Rows(want) \cup {Row(i, WireState(i)) : i \in T}
           /\ N <= RosterMax =>
                 \A i \in T : \E q \in Rows(AddAll(want, T)) : q.name = i
<1>1. N \in Nat
    BY RosterAssumption
<1> DEFINE step(i, l) == IF i \in T THEN RosterAdd(l, Row(i, WireState(i))) ELSE l
<1> DEFINE walk[i \in 0..N] ==
        [list \in Rosters |->
            IF i = 0 THEN list
            ELSE walk[i - 1][IF i \in T THEN RosterAdd(list, Row(i, WireState(i))) ELSE list]]
<1>2. AddAll(want, T) = walk[N][want]
    BY DEF AddAll
<1>3. PICK g : g = [i \in 1..N |-> [l \in Rosters |-> step(i, l)]]
    OBVIOUS
<1>4. \A i \in 1..N : \A l \in Rosters : step(i, l) \in Rosters
    BY RosterAddKeeps
<1>5. g \in [1..N -> [Rosters -> Rosters]]
    BY <1>3, <1>4
<1>6. PICK f : IsWalk(f, N, Rosters, g)
    BY <1>1, <1>5, WalkExists
<1>7. f = [i \in 0..N |->
            [list \in Rosters |->
                IF i = 0 THEN list
                ELSE f[i - 1][IF i \in T THEN RosterAdd(list, Row(i, WireState(i))) ELSE list]]]
    <2>1. \A i \in 0..N : f[i] = [l \in Rosters |-> IF i = 0 THEN l ELSE f[i - 1][g[i][l]]]
        BY <1>6 DEF IsWalk
    <2>2. \A i \in 1..N : \A l \in Rosters : g[i][l] = step(i, l)
        BY <1>3
    <2>3. ASSUME NEW i \in 0..N
          PROVE  f[i] = [list \in Rosters |-> IF i = 0 THEN list ELSE f[i - 1][step(i, list)]]
        BY <2>1, <2>2, <1>1
    <2> HIDE DEF step
    <2>4. f = [i \in 0..N |->
                 [list \in Rosters |-> IF i = 0 THEN list ELSE f[i - 1][step(i, list)]]]
        BY <1>6, <2>3 DEF IsWalk
    <2> QED BY <2>4 DEF step
<1>8. walk = [i \in 0..N |->
            [list \in Rosters |->
                IF i = 0 THEN list
                ELSE walk[i - 1][IF i \in T THEN RosterAdd(list, Row(i, WireState(i))) ELSE list]]]
    BY <1>7
<1> HIDE DEF walk
<1>9. \A l \in Rosters : walk[0][l] = l
    <2>1. walk[0] = [l \in Rosters |-> l]
        BY <1>8, <1>1
    <2> QED BY <2>1
<1>10. ASSUME NEW i \in 1..N PROVE \A l \in Rosters : walk[i][l] = walk[i - 1][step(i, l)]
    <2>1. i \in 0..N /\ i # 0
        OBVIOUS
    <2>2. walk[i] = [l \in Rosters |-> IF i = 0 THEN l ELSE walk[i - 1][step(i, l)]]
        BY <1>8, <2>1
    <2> HIDE DEF step
    <2> QED BY <2>1, <2>2
<1> DEFINE Good(m) ==
        \A l \in Rosters :
            /\ walk[m][l] \in Rosters
            /\ Rows(l) \subseteq Rows(walk[m][l])
            /\ Rows(walk[m][l]) \subseteq Rows(l) \cup {Row(i, WireState(i)) : i \in T}
            /\ N <= RosterMax =>
                  \A i \in T : i <= m => \E q \in Rows(walk[m][l]) : q.name = i
<1> DEFINE P == {m \in Nat : m <= N => Good(m)}
<1>11. 0 \in P
    BY <1>9 DEF Names
<1>12. ASSUME NEW m \in Nat, m \in P PROVE m + 1 \in P
    <2>1. SUFFICES ASSUME m + 1 <= N PROVE Good(m + 1)
        OBVIOUS
    <2>2. Good(m)
        BY <1>1, <1>12, <2>1
    <2>3. TAKE l \in Rosters
    <2>4. PICK s : s = step(m + 1, l)
        OBVIOUS
    <2>5. s \in Rosters
        BY <1>4, <1>1, <2>1, <2>4
    <2>6. walk[m + 1][l] = walk[m][s]
        BY <1>10, <1>1, <2>1, <2>4
    <2>7. /\ walk[m][s] \in Rosters
          /\ Rows(s) \subseteq Rows(walk[m][s])
          /\ Rows(walk[m][s]) \subseteq Rows(s) \cup {Row(i, WireState(i)) : i \in T}
          /\ N <= RosterMax =>
                \A i \in T : i <= m => \E q \in Rows(walk[m][s]) : q.name = i
        BY <2>2, <2>5
    <2>8. Rows(l) \subseteq Rows(s)
        BY <2>4, RosterAddKeeps
    <2>9. Rows(s) \subseteq Rows(l) \cup {Row(i, WireState(i)) : i \in T}
        BY <2>4, RosterAddKeeps
    <2>10. ASSUME N <= RosterMax, m + 1 \in T PROVE \E q \in Rows(s) : q.name = m + 1
        <3>1. PICK r \in RosterRows : r = Row(m + 1, WireState(m + 1))
            BY <2>10
        <3>2. r.name = m + 1
            BY <3>1 DEF Row
        <3>3. s = RosterAdd(l, r)
            BY <2>4, <2>10, <3>1
        <3>4. CASE \E k \in 1..Len(l) : l[k].name = m + 1
            BY <3>4, <2>8 DEF Rows
        <3>5. CASE \A k \in 1..Len(l) : l[k].name # m + 1
            <4>1. Takes(l, r)
                BY <2>10, <3>2, <3>5, RoomForAnother DEF Takes
            <4>2. r \in Rows(s)
                BY <3>3, <4>1, RosterAddKeeps
            <4> QED BY <3>2, <4>2
        <3> QED BY <3>4, <3>5
    <2>11. ASSUME N <= RosterMax, NEW i \in T, i <= m + 1
           PROVE  \E q \in Rows(walk[m][s]) : q.name = i
        <3>1. CASE i = m + 1
            BY <2>7, <2>10, <2>11, <3>1
        <3>2. CASE i <= m
            BY <2>7, <2>11, <3>2
        <3>3. i \in Nat
            BY RosterAssumption DEF Names
        <3> QED BY <3>1, <3>2, <3>3, <2>11
    <2> QED BY <2>6, <2>7, <2>8, <2>9, <2>11
<1>13. N \in P
    <2> HIDE DEF P
    <2> QED BY <1>1, <1>11, <1>12, SetInduction
<1>14. Good(N)
    BY <1>13, <1>1
<1>15. \A i \in T : i <= N
    BY <1>1 DEF Names
<1> QED BY <1>2, <1>14, <1>15

\* The wires the daemon knows.
Known == ignored \cup Opened \cup Listened

\* Every known wire has a state that a row can carry.
LEMMA KnownHaveRows ==
    ASSUME ignored \in SUBSET Names, lis \in [Names -> Kinds], sn \in [Names -> Hears]
    PROVE  \A i \in Known : Row(i, WireState(i)) \in RosterRows
<1>1. SUFFICES ASSUME NEW i \in Known PROVE i \in Names /\ WireState(i) \in States
    BY DEF Row, RosterRows
<1>2. i \in Names
    BY DEF Known, Opened, Listened
<1>3. CASE i \in ignored
    BY <1>2, <1>3 DEF WireState, States
<1>4. CASE i \notin ignored /\ lis[i] # "none"
    <2>1. ListenerState(i) \in States
        BY <1>2, <1>4 DEF ListenerState, Kinds, States
    <2> QED BY <1>2, <1>4, <2>1 DEF WireState
<1>5. CASE i \notin ignored /\ lis[i] = "none"
    <2>1. sn[i] # "none"
        BY <1>5 DEF Known, Opened, Listened
    <2>2. SnifferState(i) \in States
        BY <1>2, <2>1 DEF SnifferState, Hears, States
    <2> QED BY <1>2, <1>5, <2>2 DEF WireState
<1> QED BY <1>3, <1>4, <1>5

\* roster_collect: a list in order, no row but of a known wire and with its state, and, as
\* long as there are no more wires than places, a row for every one.
LEMMA CollectedIsWhole ==
    ASSUME ignored \in SUBSET Names, lis \in [Names -> Kinds], sn \in [Names -> Hears]
    PROVE  /\ Collected \in Rosters
           /\ Rows(Collected) \subseteq {Row(i, WireState(i)) : i \in Known}
           /\ N <= RosterMax => \A i \in Known : \E q \in Rows(Collected) : q.name = i
<1>1. \A i \in Known : Row(i, WireState(i)) \in RosterRows
    BY KnownHaveRows
<1>2. ignored \in SUBSET Names /\ Opened \in SUBSET Names /\ Listened \in SUBSET Names
    BY DEF Opened, Listened
<1>3. <<>> \in Rosters /\ Rows(<<>>) = {}
    BY RosterAssumption DEF Rosters, Rows
<1>4. PICK a : a = AddAll(<<>>, ignored)
    OBVIOUS
<1>5. /\ a \in Rosters
      /\ Rows(a) \subseteq {Row(i, WireState(i)) : i \in ignored}
      /\ N <= RosterMax => \A i \in ignored : \E q \in Rows(a) : q.name = i
    BY <1>1, <1>2, <1>3, <1>4, AddAllKeeps DEF Known
<1>6. PICK b : b = AddAll(a, Opened)
    OBVIOUS
<1>7. /\ b \in Rosters
      /\ Rows(a) \subseteq Rows(b)
      /\ Rows(b) \subseteq Rows(a) \cup {Row(i, WireState(i)) : i \in Opened}
      /\ N <= RosterMax => \A i \in Opened : \E q \in Rows(b) : q.name = i
    BY <1>1, <1>2, <1>5, <1>6, AddAllKeeps DEF Known
<1>8. PICK c : c = AddAll(b, Listened)
    OBVIOUS
<1>9. /\ c \in Rosters
      /\ Rows(b) \subseteq Rows(c)
      /\ Rows(c) \subseteq Rows(b) \cup {Row(i, WireState(i)) : i \in Listened}
      /\ N <= RosterMax => \A i \in Listened : \E q \in Rows(c) : q.name = i
    BY <1>1, <1>2, <1>7, <1>8, AddAllKeeps DEF Known
<1>10. Collected = c
    BY <1>4, <1>6, <1>8 DEF Collected
<1>11. Rows(c) \subseteq {Row(i, WireState(i)) : i \in Known}
    BY <1>5, <1>7, <1>9 DEF Known
<1>12. ASSUME N <= RosterMax, NEW i \in Known PROVE \E q \in Rows(c) : q.name = i
    BY <1>5, <1>7, <1>9, <1>12 DEF Known
<1> QED BY <1>9, <1>10, <1>11, <1>12

-----------------------------------------------------------------------------
(* The server's copy.                                                      *)

\* What a server that had the published roster holds once the difference is merged: the
\* wanted roster, if it is not the shorter one.
LEMMA MergedIsShown ==
    ASSUME NEW want \in Rosters, pub \in Rosters, Len(pub) <= Len(want)
    PROVE  Merged(Shows(pub), want) = Shows(want)
<1>1. /\ want \in Seq(RosterRows) /\ Len(want) \in Nat /\ Len(want) <= RosterMax
      /\ pub \in Seq(RosterRows) /\ Len(pub) \in Nat
    BY DEF Rosters
<1>2. PICK v : v = Merged(Shows(pub), want)
    OBVIOUS
<1>3. v.n = Len(want)
    BY <1>2 DEF Merged, Shows
<1>4. ASSUME NEW k \in 1..RosterMax
      PROVE  v.row[k] = IF k <= Len(want) THEN want[k] ELSE Nothing
    <2>1. PICK h : h = Shows(pub).row[k]
        OBVIOUS
    <2>2. h = IF k <= Len(pub) THEN pub[k] ELSE Nothing
        BY <2>1 DEF Shows
    <2>3. v.row[k] = IF k > Len(want) THEN h
                     ELSE IF k > Len(pub) THEN want[k]
                     ELSE [name  |-> IF want[k].name # pub[k].name THEN want[k].name ELSE h.name,
                           state |-> IF want[k].state # pub[k].state THEN want[k].state
                                     ELSE h.state]
        BY <1>2, <2>1 DEF Merged
    <2>4. k \in Nat /\ RosterMax \in Nat
        BY RosterAssumption
    <2>5. CASE k > Len(want)
        BY <1>1, <2>2, <2>3, <2>4, <2>5
    <2>6. CASE k <= Len(want) /\ k > Len(pub)
        BY <1>1, <2>3, <2>4, <2>6
    <2>7. CASE k <= Len(want) /\ k <= Len(pub)
        <3>1. h = pub[k]
            BY <2>2, <2>7
        <3>2. v.row[k] = [name |-> want[k].name, state |-> want[k].state]
            BY <1>1, <2>3, <2>4, <2>7, <3>1
        <3>3. want[k] \in RosterRows
            BY <1>1, <2>4, <2>7
        <3>4. want[k] = [name |-> want[k].name, state |-> want[k].state]
            BY <3>3 DEF RosterRows
        <3> QED BY <2>7, <3>2, <3>4
    <2> QED BY <1>1, <2>4, <2>5, <2>6, <2>7
<1>5. v = [n |-> v.n, row |-> [k \in 1..RosterMax |-> v.row[k]]]
    BY <1>2 DEF Merged
<1> QED BY <1>2, <1>3, <1>4, <1>5 DEF Shows

\* The shape of what a whole roster leaves on the server.
LEMMA ShowsType ==
    ASSUME NEW want \in Rosters
    PROVE  Shows(want) \in [n : 0..RosterMax, row : [1..RosterMax -> RosterRows \cup {Nothing}]]
<1>1. want \in Seq(RosterRows) /\ Len(want) \in Nat /\ Len(want) <= RosterMax
    BY DEF Rosters
<1>2. RosterMax \in Nat /\ Len(want) \in 0..RosterMax
    BY <1>1, RosterAssumption
<1>3. \A k \in 1..RosterMax :
         (IF k <= Len(want) THEN want[k] ELSE Nothing) \in RosterRows \cup {Nothing}
    BY <1>1, <1>2
<1> QED BY <1>2, <1>3 DEF Shows

Inv == TypeOK /\ ShownIsPublished

\* What every tick does: whatever the node was, what is published is the roster of the
\* present wires or, without a node, nothing, and a node that is up shows it.
LEMMA TickPublishes ==
    ASSUME Inv, RosterTimer
    PROVE  /\ node' \in {"none", "up", "deaf"}
           /\ pub' \in {Collected, <<>>} /\ pub' \in Rosters
           /\ node' = "up" => pub' = Collected /\ shown' = Shows(Collected)
           /\ shown' \in {shown, Blank, Shows(Collected)}
           /\ UNCHANGED <<wires, server, deaths>>
           /\ ticks' \in 0..(RetryTicks - 1)
<1> USE DEF Inv
<1>1. Collected \in Rosters
    BY CollectedIsWhole DEF TypeOK
<1>2. <<>> \in Rosters
    BY RosterAssumption DEF Rosters
<1>3. (ticks + 1) % RetryTicks \in 0..(RetryTicks - 1)
    BY RosterAssumption DEF TypeOK
<1>4. CASE TickWithoutNode
    BY <1>1, <1>2, <1>3, <1>4 DEF TickWithoutNode
<1>5. CASE TickWithNode
    <2>1. PICK want : want = Collected
        OBVIOUS
    <2>2. /\ node \in {"up", "deaf"}
          /\ (Shrank(want) /\ Rebuilt(want)) \/ (~Shrank(want) /\ Published(want))
          /\ UNCHANGED <<wires, ticks, server, deaths>>
        BY <1>5, <2>1 DEF TickWithNode
    <2>3. ticks' \in 0..(RetryTicks - 1)
        BY <2>2 DEF TypeOK
    <2>4. CASE Shrank(want) /\ Rebuilt(want)
        BY <1>1, <1>2, <2>1, <2>2, <2>3, <2>4 DEF Rebuilt
    <2>5. CASE ~Shrank(want) /\ Published(want)
        <3>1. pub' = want /\ node' = node
            BY <2>5 DEF Published
        <3>2. CASE node = "up"
            <4>1. Len(pub) <= Len(want)
                BY <1>1, <2>1, <2>5 DEF Shrank, Rosters, TypeOK
            <4>2. shown = Shows(pub)
                BY <3>2 DEF ShownIsPublished
            <4>3. shown' = Shows(want)
                BY <1>1, <2>1, <2>5, <3>2, <4>1, <4>2, MergedIsShown DEF Published, TypeOK
            <4> QED BY <1>1, <2>1, <2>2, <2>3, <3>1, <3>2, <4>3
        <3>3. CASE node = "deaf"
            BY <1>1, <2>1, <2>2, <2>3, <2>5, <3>1, <3>3 DEF Published
        <3> QED BY <2>2, <3>2, <3>3
    <2> QED BY <2>2, <2>4, <2>5
<1> QED BY <1>4, <1>5 DEF RosterTimer

LEMMA InitInv == Init => Inv
<1>1. SUFFICES ASSUME Init PROVE Inv
    OBVIOUS
<1>2. <<>> \in Rosters
    BY RosterAssumption DEF Rosters
<1>3. Blank \in [n : 0..RosterMax, row : [1..RosterMax -> RosterRows \cup {Nothing}]]
    BY RosterAssumption DEF Blank
<1> QED BY <1>1, <1>2, <1>3, RosterAssumption DEF Init, Inv, TypeOK, ShownIsPublished, Kinds, Hears

LEMMA NextInv == Inv /\ [Next]_vars => Inv'
<1>1. SUFFICES ASSUME Inv, [Next]_vars PROVE Inv'
    OBVIOUS
<1>2. Blank \in [n : 0..RosterMax, row : [1..RosterMax -> RosterRows \cup {Nothing}]]
    BY RosterAssumption DEF Blank
<1>3. CASE RosterTimer
    <2>1. Collected \in Rosters
        BY <1>1, CollectedIsWhole DEF Inv, TypeOK
    <2>2. Shows(Collected) \in [n : 0..RosterMax, row : [1..RosterMax -> RosterRows \cup {Nothing}]]
        BY <2>1, ShowsType
    <2>3. /\ node' \in {"none", "up", "deaf"}
          /\ pub' \in Rosters
          /\ node' = "up" => pub' = Collected /\ shown' = Shows(Collected)
          /\ shown' \in {shown, Blank, Shows(Collected)}
          /\ UNCHANGED <<wires, server, deaths>>
          /\ ticks' \in 0..(RetryTicks - 1)
        BY <1>1, <1>3, TickPublishes
    <2>4. TypeOK'
        BY <1>1, <1>2, <2>2, <2>3 DEF Inv, TypeOK, wires
    <2>5. ShownIsPublished'
        BY <2>3 DEF ShownIsPublished, Shows
    <2> QED BY <2>4, <2>5 DEF Inv
<1>4. CASE \E i \in Names : WireMoves(i)
    <2>1. PICK i \in Names : WireMoves(i)
        BY <1>4
    <2>2. PICK k \in Kinds, h \in Hears :
             lis' = [lis EXCEPT ![i] = k] /\ sn' = [sn EXCEPT ![i] = h]
        <3>1. PICK k \in Kinds :
                 \E h \in IF k = "none" THEN Hears ELSE {"none", "LISTENING"} :
                     lis' = [lis EXCEPT ![i] = k] /\ sn' = [sn EXCEPT ![i] = h]
            BY <2>1 DEF WireMoves
        <3> QED BY <3>1 DEF Hears
    <2>3. lis' \in [Names -> Kinds] /\ sn' \in [Names -> Hears]
        BY <1>1, <2>2 DEF Inv, TypeOK
    <2>4. moves' \in 0..Moves
        BY <1>1, <2>1, RosterAssumption DEF Inv, TypeOK, WireMoves
    <2>5. UNCHANGED <<ignored, pub, ticks, node, server, shown, deaths>>
        BY <2>1 DEF WireMoves, graph
    <2>6. TypeOK'
        BY <1>1, <2>3, <2>4, <2>5 DEF Inv, TypeOK
    <2>7. ShownIsPublished'
        BY <1>1, <2>5 DEF Inv, ShownIsPublished, Shows
    <2> QED BY <2>6, <2>7 DEF Inv
<1>9. CASE \E i \in Names : ConfMoves(i)
    <2>1. PICK i \in Names : ConfMoves(i)
        BY <1>9
    <2>2. /\ ignored' \in SUBSET Names /\ moves' \in 0..Moves
          /\ UNCHANGED <<lis, sn, pub, ticks, node, server, shown, deaths>>
        BY <1>1, <2>1, RosterAssumption DEF Inv, TypeOK, ConfMoves, graph
    <2>3. TypeOK'
        BY <1>1, <2>2 DEF Inv, TypeOK
    <2>4. ShownIsPublished'
        BY <1>1, <2>2 DEF Inv, ShownIsPublished, Shows
    <2> QED BY <2>3, <2>4 DEF Inv
<1>5. CASE ServerDies
    <2>1. TypeOK'
        <3>1. deaths' \in 0..Deaths
            BY <1>1, <1>5, RosterAssumption DEF Inv, TypeOK, ServerDies
        <3>2. node' \in {"none", "up", "deaf", "lost"}
            BY <1>1, <1>5 DEF Inv, TypeOK, ServerDies
        <3>3. server' \in BOOLEAN /\ shown' = Blank /\ UNCHANGED <<ignored, lis, sn, moves, pub, ticks>>
            BY <1>5 DEF ServerDies, wires
        <3> QED BY <1>1, <1>2, <3>1, <3>2, <3>3 DEF Inv, TypeOK
    <2>2. ShownIsPublished'
        BY <1>1, <1>5 DEF Inv, TypeOK, ServerDies, ShownIsPublished
    <2> QED BY <2>1, <2>2 DEF Inv
<1>6. CASE ServerStarts
    BY <1>1, <1>6 DEF Inv, TypeOK, ServerStarts, wires, ShownIsPublished, Shows
<1>7. CASE NodeIsLost
    BY <1>1, <1>7 DEF Inv, TypeOK, NodeIsLost, wires, ShownIsPublished
<1>8. CASE UNCHANGED vars
    BY <1>1, <1>8 DEF Inv, TypeOK, vars, wires, graph, ShownIsPublished, Shows
<1> QED BY <1>1, <1>3, <1>4, <1>5, <1>6, <1>7, <1>8, <1>9 DEF Next, RosterTimer

LEMMA Invariance == Spec => []Inv
BY InitInv, NextInv, PTL DEF Spec

\* The lists stay within REAC_ROSTER_MAX, in the order of the names and without a name
\* twice, and the server's groups within the same bound, whatever the wires and the server
\* do (reac_roster_add, reac_roster_delta).
THEOREM TypeCorrect == Spec => []TypeOK
<1>1. Inv => TypeOK
    BY DEF Inv
<1> QED BY Invariance, <1>1, PTL

\* What a console reads on the graph is what the daemon believes it published: only
\* differences are sent, a roster that shrank goes onto a fresh node, and a server that
\* went away is never taken for one that still has the old properties (on_roster_timer,
\* reac_roster_delta, reac_roster_shrank).
THEOREM GraphShowsPublished == Spec => []ShownIsPublished
<1>1. Inv => ShownIsPublished
    BY DEF Inv
<1> QED BY Invariance, <1>1, PTL

\* The graph's rows are the present wires: none but known ones, with the state of their
\* listener or their knock, and every one of them unless there are more than fit.
GraphIsWhole ==
    /\ \A k \in 1..shown.n :
          shown.row[k].name \in Known /\ shown.row[k].state = WireState(shown.row[k].name)
    /\ N <= RosterMax => \A i \in Known : \E k \in 1..shown.n : shown.row[k].name = i

\* A tick that leaves a node leaves the whole present roster on it, also on a server that
\* only ever merges differences (on_roster_timer, roster_collect).
THEOREM TickShowsEveryWire == Spec => [][RosterTimer /\ node' = "up" => GraphIsWhole']_vars
<1>1. ASSUME Inv, RosterTimer, node' = "up" PROVE GraphIsWhole'
    <2>1. PICK want : want = Collected
        OBVIOUS
    <2>2. shown' = Shows(want) /\ UNCHANGED <<ignored, lis, sn>>
        BY <1>1, <2>1, TickPublishes DEF wires
    <2>3. /\ want \in Rosters
          /\ Rows(want) \subseteq {Row(i, WireState(i)) : i \in Known}
          /\ N <= RosterMax => \A i \in Known : \E q \in Rows(want) : q.name = i
        BY <1>1, <2>1, CollectedIsWhole DEF Inv, TypeOK
    <2>4. Known' = Known /\ \A i : WireState(i)' = WireState(i)
        BY <2>2 DEF Known, Opened, Listened, WireState, ListenerState, SnifferState
    <2>5. shown'.n = Len(want) /\ \A k \in 1..Len(want) : shown'.row[k] = want[k]
        BY <2>2, <2>3, RosterAssumption DEF Shows, Rosters
    <2>6. ASSUME NEW k \in 1..Len(want)
          PROVE  want[k].name \in Known /\ want[k].state = WireState(want[k].name)
        BY <2>3 DEF Rows, Row
    <2>7. ASSUME N <= RosterMax, NEW i \in Known PROVE \E k \in 1..Len(want) : want[k].name = i
        BY <2>3, <2>7 DEF Rows
    <2> QED BY <2>4, <2>5, <2>6, <2>7 DEF GraphIsWhole
<1>2. Inv /\ [Next]_vars => [RosterTimer /\ node' = "up" => GraphIsWhole']_vars
    BY <1>1
<1> QED BY Invariance, <1>2, PTL DEF Spec
=============================================================================
