--------------------------- MODULE PagedWalkProofs ---------------------------
(***************************************************************************)
(* What a walk through a changing list misses and what it reads twice, for  *)
(* every list, every length of a page and every order of its changes.       *)
(***************************************************************************)
EXTENDS PagedWalk, FiniteSetTheorems, TLAPS

-----------------------------------------------------------------------------
(* Counting *)

\* Whatever set of rows there is, it is finite.
LEMMA SomeRows ==
    ASSUME NEW S, S \subseteq Rows
    PROVE  IsFiniteSet(S) /\ Cardinality(S) \in Nat
BY FewRows, FS_Subset, FS_CardinalityType

\* A set of rows within another is no larger.
LEMMA FewerRows ==
    ASSUME NEW S, S \subseteq Rows, NEW T, T \subseteq S
    PROVE  Cardinality(T) <= Cardinality(S)
BY SomeRows, FS_Subset

\* What has one row at most that the other has not is larger by one at most.
LEMMA OneMoreRow ==
    ASSUME NEW S, S \subseteq Rows, NEW T, T \subseteq Rows,
           \A q, r \in T \ S : q = r
    PROVE  Cardinality(T) <= Cardinality(S) + 1
<1>1. IsFiniteSet(S) /\ Cardinality(S) \in Nat /\ Cardinality(T) \in Nat
  BY SomeRows
<1>2. CASE T \subseteq S
  <2>1. Cardinality(T) <= Cardinality(S)
    BY <1>2, FewerRows
  <2> QED  BY <1>1, <2>1
<1>3. ASSUME NEW q \in T \ S PROVE Cardinality(T) <= Cardinality(S) + 1
  <2>1. Cardinality(S \cup {q}) = Cardinality(S) + 1
    BY <1>1, <1>3, FS_AddElement
  <2>2. T \subseteq S \cup {q} /\ S \cup {q} \subseteq Rows
    BY <1>3
  <2>3. Cardinality(T) <= Cardinality(S \cup {q})
    BY <2>2, FewerRows
  <2> QED  BY <2>1, <2>3
<1> QED  BY <1>2, <1>3

\* Two sets that share no row have as many rows as both.
LEMMA ApartRows ==
    ASSUME NEW S, S \subseteq Rows, NEW T, T \subseteq Rows, S \cap T = {}
    PROVE  Cardinality(S \cup T) = Cardinality(S) + Cardinality(T)
<1>1. IsFiniteSet(S) /\ IsFiniteSet(T) /\ Cardinality(S) \in Nat
      /\ Cardinality(T) \in Nat
  BY SomeRows
<1>2. Cardinality(S \cup T) =
          Cardinality(S) + Cardinality(T) - Cardinality(S \cap T)
  BY <1>1, FS_Union
<1>3. Cardinality(S \cap T) = 0
  BY FS_EmptySet
<1> QED  BY <1>1, <1>2, <1>3

-----------------------------------------------------------------------------
(* The places of the rows that are found *)

Ahead(w, r) == {q \in Matching(w) : Precedes(w, q, r)}

LEMMA PlacesAreNumbers ==
    ASSUME TypeOK, NEW w, NEW r
    PROVE  /\ Matching(w) \subseteq table /\ Matching(w) \subseteq Rows
           /\ Ahead(w, r) \subseteq Rows /\ Place(w, r) = Cardinality(Ahead(w, r))
           /\ Place(w, r) \in Nat /\ Cardinality(Matching(w)) \in Nat
<1>1. /\ Matching(w) \subseteq table /\ Matching(w) \subseteq Rows
      /\ Ahead(w, r) \subseteq Rows
  BY DEF TypeOK, Matching, Ahead
<1> QED  BY <1>1, SomeRows DEF Place, Ahead

\* A row that comes before another has a lower place.
LEMMA PlacesAreOrdered ==
    ASSUME TypeOK, NEW w, NEW q \in Matching(w), NEW r \in Matching(w),
           Precedes(w, q, r)
    PROVE  Place(w, q) < Place(w, r)
<1>1. createdAt \in [Rows -> Nat] /\ q \in Rows /\ r \in Rows
      /\ Matching(w) \subseteq Rows
  BY PlacesAreNumbers DEF TypeOK
<1>2. q \notin Ahead(w, q) /\ q \in Ahead(w, r)
  BY <1>1 DEF Ahead, Precedes
<1>3. Ahead(w, q) \subseteq Ahead(w, r)
  BY <1>1 DEF Ahead, Precedes
<1>4. PICK A, B : A = Ahead(w, q) /\ B = Ahead(w, r)
  OBVIOUS
<1>5. /\ A \subseteq Rows /\ B \subseteq Rows
      /\ Place(w, q) = Cardinality(A) /\ Place(w, r) = Cardinality(B)
  BY <1>4, PlacesAreNumbers
<1>6. IsFiniteSet(A) /\ Cardinality(A) \in Nat /\ Cardinality(B) \in Nat
  BY <1>5, SomeRows
<1>7. Cardinality(A \cup {q}) = Cardinality(A) + 1
  BY <1>2, <1>4, <1>6, FS_AddElement
<1>8. Cardinality(A \cup {q}) <= Cardinality(B)
  BY <1>2, <1>3, <1>4, <1>5, FewerRows
<1> QED  BY <1>5, <1>6, <1>7, <1>8

\* No two rows have the same place, since no two have the same createdAt.
LEMMA PlacesDiffer ==
    ASSUME TypeOK, RowsDated, NEW w, NEW q \in Matching(w),
           NEW r \in Matching(w), Place(w, q) = Place(w, r)
    PROVE  q = r
<1>1. Place(w, q) \in Nat /\ Place(w, r) \in Nat
  BY PlacesAreNumbers
<1>2. ~Precedes(w, q, r) /\ ~Precedes(w, r, q)
  BY <1>1, PlacesAreOrdered
<1>3. /\ createdAt \in [Rows -> Nat] /\ q \in Rows /\ r \in Rows
      /\ q \in table /\ r \in table
  BY PlacesAreNumbers DEF TypeOK
<1>4. createdAt[q] = createdAt[r]
  BY <1>2, <1>3 DEF Precedes
<1> QED  BY <1>3, <1>4 DEF RowsDated

\* The last place is before the number of rows.
LEMMA PlacesAreBelowTotal ==
    ASSUME TypeOK, NEW w, NEW r \in Matching(w)
    PROVE  Place(w, r) < Cardinality(Matching(w))
<1>1. PICK A, S : A = Ahead(w, r) /\ S = Matching(w)
  OBVIOUS
<1>2. S \subseteq Rows /\ A \subseteq Rows /\ Place(w, r) = Cardinality(A)
  BY <1>1, PlacesAreNumbers
<1>3. createdAt \in [Rows -> Nat] /\ r \in Rows
  BY <1>1, <1>2 DEF TypeOK
<1>4. A \subseteq S \ {r}
  BY <1>1, <1>3 DEF Ahead, Precedes
<1>5. IsFiniteSet(S) /\ Cardinality(S) \in Nat /\ Cardinality(A) \in Nat
  BY <1>2, SomeRows
<1>6. Cardinality(S \ {r}) = Cardinality(S) - 1
  BY <1>1, <1>5, FS_RemoveElement
<1>7. Cardinality(A) <= Cardinality(S \ {r})
  BY <1>2, <1>4, FewerRows
<1> QED  BY <1>1, <1>2, <1>5, <1>6, <1>7

\* The rows of a page have as many places as the page takes rows.
LEMMA PagesFit ==
    ASSUME TypeOK, RowsDated, NEW w, Skip(w) \in Nat, Take(w) \in Nat
    PROVE  Find(w) \subseteq Rows /\ Cardinality(Find(w)) <= Take(w)
<1>1. PICK n, k, S : n = Skip(w) /\ k = Take(w) /\ S = Find(w)
  OBVIOUS
<1>2. S \subseteq Matching(w) /\ S \subseteq Rows
  BY <1>1, PlacesAreNumbers DEF Find
<1>3. \A r \in S : /\ Place(w, r) \in Nat
                   /\ n <= Place(w, r) /\ Place(w, r) < n + k
  BY <1>1, PlacesAreNumbers DEF Find
<1>4. n \in Nat /\ k \in Nat
  BY <1>1
<1>5. CASE k = 0
  <2>1. S = {}
    BY <1>3, <1>4, <1>5
  <2> QED  BY <1>1, <1>2, <1>5, <2>1, FS_EmptySet
<1>6. CASE k # 0
  <2> DEFINE f == [r \in S |-> Place(w, r)]
             places == n..(n + k - 1)
  <2>1. \A r \in S : Place(w, r) \in places
    BY <1>3, <1>4, <1>6
  <2>2. f \in [S -> places]
    BY <2>1
  <2>3. \A q, r \in S : f[q] = f[r] => q = r
    BY <1>2, PlacesDiffer
  <2>4. f \in Injection(S, places)
    BY <2>2, <2>3 DEF Injection, IsInjective
  <2>5. IsFiniteSet(places) /\ Cardinality(places) = k
    <3>1. n \in Int /\ n + k - 1 \in Int /\ n <= n + k - 1
      BY <1>4, <1>6
    <3>2. /\ IsFiniteSet(places)
          /\ Cardinality(places) =
                IF n > n + k - 1 THEN 0 ELSE (n + k - 1) - n + 1
      BY <3>1, FS_Interval
    <3> QED  BY <1>4, <3>1, <3>2
  <2>6. Cardinality(S) <= Cardinality(places)
    BY <2>4, <2>5, FS_Injection
  <2> QED  BY <1>1, <1>2, <2>5, <2>6
<1> QED  BY <1>5, <1>6

-----------------------------------------------------------------------------
(* The pages in numbers *)

LEMMA Divided ==
    ASSUME NEW k \in Nat, NEW t \in Nat \ {0}
    PROVE  (k * t) \div t = k
OBVIOUS

\* When there is no page after page k + 1, that many pages have all the rows.
LEMMA LastPageReached ==
    ASSUME NEW k \in Nat, NEW t \in Nat \ {0}, NEW n \in Nat,
           ~(k + 1 < (n + t - 1) \div t)
    PROVE  n <= k * t + t
<1> DEFINE q == (n + t - 1) \div t
<1>1. q \in Nat /\ n + t - 1 < q * t + t
  OBVIOUS
<1>2. q <= k + 1
  BY <1>1
<1> HIDE DEF q
<1>3. q * t <= (k + 1) * t
  BY <1>1, <1>2
<1>4. (k + 1) * t = k * t + t
  OBVIOUS
<1>5. k * t \in Nat /\ q * t \in Nat
  BY <1>1
<1> QED  BY <1>1, <1>3, <1>4, <1>5

-----------------------------------------------------------------------------
(* How rows move *)

\* A new row moves those behind it one place down; oldest first it is the last.
LEMMA InsertMoves ==
    ASSUME TypeOK, RowsDated, NEW n \in Rows, Insert(n), NEW w,
           NEW r \in Matching(w)
    PROVE  /\ Place(w, r)' \in Nat
           /\ Place(w, r) <= Place(w, r)' /\ Place(w, r)' <= Place(w, r) + 1
           /\ w.sort # "desc" => Place(w, r)' = Place(w, r)
<1>1. /\ createdAt \in [Rows -> Nat] /\ clock \in Nat /\ r \in Rows
      /\ Matching(w) \subseteq table /\ Matching(w) \subseteq Rows
  BY PlacesAreNumbers DEF TypeOK
<1>2. n \notin table /\ createdAt[r] <= clock
  BY <1>1 DEF RowsDated, Insert
<1>3. /\ createdAt'[n] = clock + 1
      /\ \A q \in Rows \ {n} : createdAt'[q] = createdAt[q]
  BY <1>1 DEF Insert
<1>4. Matching(w) \subseteq Matching(w)' /\ Matching(w)' \subseteq Matching(w) \cup {n}
  BY DEF Matching, Insert, Found
<1>5. ASSUME NEW q \in Matching(w)
      PROVE  Precedes(w, q, r)' <=> Precedes(w, q, r)
  BY <1>1, <1>2, <1>3 DEF Precedes
<1>6. w.sort # "desc" => ~Precedes(w, n, r)'
  BY <1>1, <1>2, <1>3 DEF Precedes
<1>7. PICK A, B : A = Ahead(w, r) /\ B = Ahead(w, r)'
  OBVIOUS
<1>8. A \subseteq B /\ B \subseteq A \cup {n}
  BY <1>4, <1>5, <1>7 DEF Ahead
<1>9. w.sort # "desc" => A = B
  BY <1>4, <1>5, <1>6, <1>7 DEF Ahead
<1>10. /\ A \subseteq Rows /\ Place(w, r) = Cardinality(A)
       /\ B \subseteq Rows /\ Place(w, r)' = Cardinality(B)
  <2>1. A \subseteq Rows /\ B \subseteq Rows
    BY <1>1, <1>7, <1>8 DEF Ahead
  <2> QED  BY <1>7, <2>1 DEF Place, Ahead
<1>11. Cardinality(A) <= Cardinality(B) /\ Cardinality(B) <= Cardinality(A) + 1
  BY <1>8, <1>10, FewerRows, OneMoreRow
<1>12. Cardinality(B) \in Nat
  BY <1>10, SomeRows
<1> QED  BY <1>9, <1>10, <1>11, <1>12

\* A removed row moves those behind it one place up.
LEMMA RemoveMoves ==
    ASSUME TypeOK, NEW n \in Rows, RemoveRow(n), NEW w, NEW r \in Matching(w)'
    PROVE  /\ r \in Matching(w) /\ Place(w, r)' \in Nat
           /\ Place(w, r)' <= Place(w, r) /\ Place(w, r) <= Place(w, r)' + 1
<1>1. /\ r \in Matching(w)
      /\ Matching(w) \subseteq Rows /\ Matching(w)' = Matching(w) \ {n}
  BY PlacesAreNumbers DEF Matching, RemoveRow, Found
<1>2. \A q : Precedes(w, q, r)' <=> Precedes(w, q, r)
  BY DEF Precedes, RemoveRow
<1>3. PICK A, B : A = Ahead(w, r) /\ B = Ahead(w, r)'
  OBVIOUS
<1>4. B = A \ {n}
  BY <1>1, <1>2, <1>3 DEF Ahead
<1>5. /\ A \subseteq Rows /\ Place(w, r) = Cardinality(A)
      /\ B \subseteq Rows /\ Place(w, r)' = Cardinality(B)
  <2>1. A \subseteq Rows /\ B \subseteq Rows
    BY <1>1, <1>3, <1>4 DEF Ahead
  <2> QED  BY <1>3, <2>1 DEF Place, Ahead
<1>6. Cardinality(B) <= Cardinality(A) /\ Cardinality(A) <= Cardinality(B) + 1
  BY <1>4, <1>5, FewerRows, OneMoreRow
<1>7. Cardinality(B) \in Nat
  BY <1>5, SomeRows
<1> QED  BY <1>1, <1>5, <1>6, <1>7

\* The places are the same while the list and the query are.
LEMMA PlacesStay ==
    ASSUME UNCHANGED rows, walk'.limit = walk.limit, walk'.sort = walk.sort,
           walk'.search = walk.search, walk'.fields = walk.fields
    PROVE  /\ Matching(walk)' = Matching(walk) /\ Take(walk)' = Take(walk)
           /\ \A r : /\ Place(walk, r)' = Place(walk, r)
                     /\ Found(walk, r)' <=> Found(walk, r)
<1>1. UNCHANGED <<table, createdAt>>
  BY DEF rows
<1>2. \A r : Found(walk, r)' <=> Found(walk, r)
  BY DEF Found
<1>3. Matching(walk)' = Matching(walk)
  BY <1>1, <1>2 DEF Matching
<1>4. \A q, r : Precedes(walk, q, r)' <=> Precedes(walk, q, r)
  BY <1>1 DEF Precedes
<1>5. \A r : Place(walk, r)' = Place(walk, r)
  BY <1>3, <1>4 DEF Place
<1> QED  BY <1>2, <1>3, <1>5 DEF Take

\* The walk skips whole pages.
LEMMA WholePages ==
    ASSUME TypeOK, walk.page = None \/ walk.page # 0
    PROVE  /\ Take(walk) \in Nat /\ Skip(walk) \in Nat /\ Passed \in Nat
           /\ \E k \in Nat : Skip(walk) = k * Take(walk)
<1>1. walk.page \in Nat \cup {None} /\ walk.limit \in Limits \cup {None}
  BY DEF TypeOK, Walk
<1>2. Take(walk) \in Nat
  BY <1>1, LimitsAreNatural DEF Take
<1>3. PICK t \in Nat : t = Take(walk)
  BY <1>2
<1>4. \E k \in Nat : Skip(walk) = k * t
  <2>1. CASE walk.page = None
    <3>1. Skip(walk) = 0 * t
      BY <1>3, <2>1 DEF Skip
    <3> QED  BY <3>1
  <2>2. CASE walk.page # None
    <3>1. walk.page - 1 \in Nat
      BY <1>1, <2>2
    <3>2. Skip(walk) = (walk.page - 1) * t
      BY <1>3, <2>2 DEF Skip
    <3> QED  BY <3>1, <3>2
  <2> QED  BY <2>1, <2>2
<1>5. Skip(walk) \in Nat
  BY <1>4
<1> QED  BY <1>2, <1>3, <1>4, <1>5 DEF Passed

-----------------------------------------------------------------------------
(* The list changes *)

LEMMA InsertKeeps ==
    ASSUME WalkInv, NEW n \in Rows, Insert(n)
    PROVE  WalkInv'
<1>1. /\ TypeOK /\ RowsDated /\ createdAt \in [Rows -> Nat] /\ clock \in Nat
      /\ {inserts, removes, repeats} \subseteq Nat
      /\ table \subseteq Rows /\ page \subseteq Rows
      /\ seen \subseteq Rows /\ initial \subseteq Rows
  BY DEF WalkInv, TypeOK
<1>2. /\ createdAt' = [createdAt EXCEPT ![n] = clock + 1]
      /\ clock' = clock + 1 /\ table' = table \cup {n} /\ createdAt[n] = 0
      /\ UNCHANGED <<walk, page, seen, initial, removes, repeats>>
      /\ inserts' = IF Walking THEN inserts + 1 ELSE inserts
  BY DEF Insert
<1>3. n \notin table \cup page \cup seen \cup initial
  BY <1>1, <1>2 DEF RowsDated
<1>4. TypeOK'
  BY <1>1, <1>2 DEF TypeOK, Take
<1>5. RowsDated'
  <2>1. /\ createdAt'[n] = clock + 1
        /\ \A r \in Rows \ {n} : /\ createdAt'[r] = createdAt[r]
                                 /\ createdAt[r] <= clock /\ createdAt[r] \in Nat
    BY <1>1, <1>2 DEF RowsDated
  <2>2. \A r \in table \cup page \cup seen \cup initial :
            r # n /\ createdAt[r] # 0 /\ r \in Rows
    BY <1>1, <1>3 DEF RowsDated
  <2>3. \A q, r \in table' : q # r => createdAt'[q] # createdAt'[r]
    BY <1>1, <1>2, <2>1, <2>2 DEF RowsDated
  <2>4. \A r \in Rows : createdAt'[r] <= clock'
    BY <1>1, <1>2, <2>1
  <2>5. /\ \A r \in table' : createdAt'[r] # 0
        /\ \A r \in page' \cup seen' \cup initial' : createdAt'[r] # 0
    BY <1>1, <1>2, <2>1, <2>2
  <2> QED  BY <2>3, <2>4, <2>5 DEF RowsDated
<1>6. PICK w, p : w = walk /\ p = Passed
  OBVIOUS
<1>7. walk' = w /\ Passed' = p /\ p \in Nat
  BY <1>1, <1>2, <1>6, WholePages DEF Passed, Skip, Take, WalkInv
<1>8. ASSUME NEW r \in Matching(w)
      PROVE  /\ Place(w, r) \in Nat /\ Place(w, r)' \in Nat
             /\ Place(w, r) <= Place(w, r)' /\ Place(w, r)' <= Place(w, r) + 1
             /\ w.sort # "desc" => Place(w, r)' = Place(w, r)
  BY <1>1, InsertMoves, PlacesAreNumbers
<1>9. Walking => Cardinality(MissedSoFar') <= removes'
  <2>1. MissedSoFar' \subseteq MissedSoFar
    <3>1. ASSUME NEW r \in (initial' \cap table') \ (seen' \cup page'),
                 Place(w, r)' < p
          PROVE  r \in MissedSoFar
      <4>1. r \in (initial \cap table) \ (seen \cup page)
        BY <1>2, <1>3, <3>1
      <4>2. r \in Matching(w)
        BY <1>6, <4>1 DEF WalkInv, Matching
      <4>3. Place(w, r) < p
        BY <1>7, <1>8, <3>1, <4>2
      <4> QED  BY <1>6, <4>1, <4>3 DEF MissedSoFar
    <3> QED  BY <1>7, <3>1 DEF MissedSoFar
  <2>2. PICK S, T : S = MissedSoFar /\ T = MissedSoFar'
    OBVIOUS
  <2>3. S \subseteq Rows /\ T \subseteq S
    BY <1>1, <2>1, <2>2 DEF MissedSoFar
  <2>4. /\ Cardinality(T) <= Cardinality(S)
        /\ Cardinality(S) \in Nat /\ Cardinality(T) \in Nat
    BY <2>3, FewerRows, SomeRows
  <2> QED  BY <1>1, <1>2, <2>2, <2>4 DEF WalkInv
<1>10. Walking => repeats' + Cardinality(page' \cap seen') + Cardinality(ToRepeat')
                     <= Allowed'
  <2>1. PICK S, T : S = ToRepeat /\ T = ToRepeat'
    OBVIOUS
  <2>2. ASSUME NEW r \in T
        PROVE  r \in Matching(w) /\ r \in seen \cup page /\ p <= Place(w, r)'
    <3>1. r \in Matching(w)' /\ r \in seen \cup page /\ p <= Place(w, r)'
      BY <1>2, <1>7, <2>1, <2>2 DEF ToRepeat
    <3>2. r # n
      BY <1>3, <3>1
    <3>3. r \in Matching(w)
      BY <1>2, <3>1, <3>2 DEF Matching, Found
    <3> QED  BY <3>1, <3>3
  <2>3. \A r \in Matching(w) \cap (seen \cup page) : p <= Place(w, r) => r \in S
    BY <1>6, <2>1 DEF ToRepeat
  <2>4. S \subseteq Rows /\ T \subseteq Rows
    BY <1>1, <2>1, <2>2 DEF ToRepeat
  <2>5. Cardinality(S) \in Nat /\ Cardinality(T) \in Nat
    BY <2>4, SomeRows
  <2>6. ASSUME w.sort # "desc" PROVE Cardinality(T) <= Cardinality(S)
    <3>1. T \subseteq S
      BY <1>8, <2>2, <2>3, <2>6
    <3> QED  BY <2>4, <3>1, FewerRows
  <2>7. Cardinality(T) <= Cardinality(S) + 1
    <3>1. ASSUME NEW r \in T \ S PROVE Place(w, r) = p - 1
      BY <1>7, <1>8, <2>2, <2>3, <3>1
    <3>2. \A q, r \in T \ S : q = r
      BY <1>1, <2>2, <3>1, PlacesDiffer
    <3> QED  BY <2>4, <3>2, OneMoreRow
  <2>8. PICK c : c = Cardinality(page \cap seen)
    OBVIOUS
  <2>9. c \in Nat
    BY <1>1, <2>8, SomeRows
  <2>10. Walking => repeats + c + Cardinality(S) <= Allowed
    BY <2>1, <2>8 DEF WalkInv
  <2>11. Walking => repeats + c + Cardinality(T) <= Allowed'
    <3>1. CASE w.sort = "desc"
      BY <1>1, <1>2, <1>6, <2>5, <2>7, <2>9, <2>10, <3>1 DEF Allowed
    <3>2. CASE w.sort # "desc"
      BY <1>1, <1>2, <1>6, <2>5, <2>6, <2>9, <2>10, <3>2 DEF Allowed
    <3> QED  BY <3>1, <3>2
  <2> QED  BY <1>2, <2>1, <2>8, <2>11
<1>11. MissesAtMostRemoved'
  <2>1. (initial' \cap table') \ seen' = (initial \cap table) \ seen
    BY <1>2, <1>3
  <2> QED  BY <1>2, <2>1 DEF WalkInv, MissesAtMostRemoved, Take
<1>12. RepeatsAtMostInserted'
  BY <1>1, <1>2 DEF WalkInv, RepeatsAtMostInserted
<1>13. initial' \subseteq {r \in Rows : Found(walk, r)'}
  BY <1>2 DEF WalkInv, Found
<1> QED
  BY <1>2, <1>4, <1>5, <1>9, <1>10, <1>11, <1>12, <1>13 DEF WalkInv, Walking

\* A removal brings one unread row at most under what was passed.
LEMMA RemoveKeeps ==
    ASSUME WalkInv, NEW n \in Rows, RemoveRow(n)
    PROVE  WalkInv'
<1>1. /\ TypeOK /\ RowsDated
      /\ {inserts, removes, repeats} \subseteq Nat
      /\ table \subseteq Rows /\ page \subseteq Rows
      /\ seen \subseteq Rows /\ initial \subseteq Rows
  BY DEF WalkInv, TypeOK
<1>2. /\ table' = table \ {n}
      /\ UNCHANGED <<createdAt, clock, walk, page, seen, initial, inserts,
                     repeats>>
      /\ removes' = IF Walking THEN removes + 1 ELSE removes
  BY DEF RemoveRow
<1>3. TypeOK' /\ RowsDated'
  BY <1>1, <1>2 DEF TypeOK, RowsDated, Take
<1>4. PICK w, p : w = walk /\ p = Passed
  OBVIOUS
<1>5. walk' = w /\ Passed' = p /\ p \in Nat
  BY <1>1, <1>2, <1>4, WholePages DEF Passed, Skip, Take, WalkInv
<1>6. ASSUME NEW r \in Matching(w)'
      PROVE  /\ r \in Matching(w)
             /\ Place(w, r) \in Nat /\ Place(w, r)' \in Nat
             /\ Place(w, r)' <= Place(w, r) /\ Place(w, r) <= Place(w, r)' + 1
  BY <1>1, RemoveMoves, PlacesAreNumbers
<1>7. Walking => Cardinality(MissedSoFar') <= removes'
  <2>1. PICK S, T : S = MissedSoFar /\ T = MissedSoFar'
    OBVIOUS
  <2>2. ASSUME NEW r \in T
        PROVE  /\ r \in (initial \cap table) \ (seen \cup page)
               /\ r \in Matching(w)' /\ Place(w, r)' < p
    <3>1. /\ r \in (initial \cap table') \ (seen \cup page)
          /\ Place(w, r)' < p
      BY <1>2, <1>5, <2>1, <2>2 DEF MissedSoFar
    <3>2. r \in Matching(w)'
      BY <1>2, <1>4, <3>1 DEF WalkInv, Matching, Found
    <3> QED  BY <1>2, <3>1, <3>2
  <2>3. ASSUME NEW r \in T \ S PROVE r \in Matching(w) /\ Place(w, r) = p
    <3>1. ~(Place(w, r) < p)
      BY <1>4, <2>1, <2>2, <2>3 DEF MissedSoFar
    <3> QED  BY <1>5, <1>6, <2>2, <2>3, <3>1
  <2>4. \A q, r \in T \ S : q = r
    BY <1>1, <2>3, PlacesDiffer
  <2>5. S \subseteq Rows /\ T \subseteq Rows
    BY <1>1, <2>1, <2>2 DEF MissedSoFar
  <2>6. /\ Cardinality(T) <= Cardinality(S) + 1
        /\ Cardinality(S) \in Nat /\ Cardinality(T) \in Nat
    BY <2>4, <2>5, OneMoreRow, SomeRows
  <2> QED  BY <1>1, <1>2, <2>1, <2>6 DEF WalkInv
<1>8. Walking => repeats' + Cardinality(page' \cap seen') + Cardinality(ToRepeat')
                    <= Allowed'
  <2>1. PICK S, T : S = ToRepeat /\ T = ToRepeat'
    OBVIOUS
  <2>2. T \subseteq S
    <3>1. ASSUME NEW r \in T PROVE r \in S
      <4>1. r \in Matching(w)' /\ r \in seen \cup page /\ p <= Place(w, r)'
        BY <1>2, <1>5, <2>1, <3>1 DEF ToRepeat
      <4>2. r \in Matching(w) /\ p <= Place(w, r)
        BY <1>5, <1>6, <4>1
      <4> QED  BY <1>4, <2>1, <4>1, <4>2 DEF ToRepeat
    <3> QED  BY <3>1
  <2>3. S \subseteq Rows
    BY <1>1, <2>1 DEF ToRepeat
  <2>4. PICK c : c = Cardinality(page \cap seen)
    OBVIOUS
  <2>5. /\ c \in Nat /\ Cardinality(T) <= Cardinality(S)
        /\ Cardinality(S) \in Nat /\ Cardinality(T) \in Nat
    BY <1>1, <2>2, <2>3, <2>4, FewerRows, SomeRows
  <2>6. Walking => repeats + c + Cardinality(S) <= Allowed
    BY <2>1, <2>4 DEF WalkInv
  <2>7. Allowed' = Allowed /\ Allowed \in Nat
    BY <1>1, <1>2 DEF Allowed
  <2> QED  BY <1>1, <1>2, <2>1, <2>4, <2>5, <2>6, <2>7
<1>9. MissesAtMostRemoved'
  <2>1. (initial \cap table) \ seen \subseteq Rows
    BY <1>1
  <2>2. (initial' \cap table') \ seen' \subseteq (initial \cap table) \ seen
    BY <1>2
  <2>3. PICK S, T : /\ S = (initial \cap table) \ seen
                    /\ T = (initial' \cap table') \ seen'
    OBVIOUS
  <2>4. /\ Cardinality(T) <= Cardinality(S)
        /\ Cardinality(S) \in Nat /\ Cardinality(T) \in Nat
    BY <2>1, <2>2, <2>3, FewerRows, SomeRows
  <2>5. walk.pc = "done" /\ Take(walk) # 0 => Cardinality(S) <= removes
    BY <2>3 DEF WalkInv, MissesAtMostRemoved
  <2> QED
    BY <1>1, <1>2, <2>3, <2>4, <2>5 DEF MissesAtMostRemoved, Take, Walking
<1>10. RepeatsAtMostInserted'
  BY <1>2 DEF WalkInv, RepeatsAtMostInserted
<1>11. initial' \subseteq {r \in Rows : Found(walk, r)'}
  BY <1>2 DEF WalkInv, Found
<1> QED
  BY <1>2, <1>3, <1>7, <1>8, <1>9, <1>10, <1>11 DEF WalkInv, Walking

-----------------------------------------------------------------------------
(* The walk *)

\* Before the first page nothing is passed and nothing was read.
LEMMA StartKeeps ==
    ASSUME WalkInv, Start
    PROVE  WalkInv'
<1>1. /\ TypeOK /\ RowsDated /\ walk \in Walk
      /\ {inserts, removes, repeats} \subseteq Nat
      /\ walk.page = None /\ seen = {} /\ initial = {} /\ page = {}
  BY DEF WalkInv, TypeOK, Start
<1>2. /\ walk' \in Walk /\ walk'.pc = "find" /\ walk'.page = walk.page
      /\ walk'.limit = walk.limit /\ walk'.sort = walk.sort
      /\ walk'.search = walk.search /\ walk'.fields = walk.fields
  BY <1>1 DEF Start, Walk
<1>3. /\ UNCHANGED <<rows, table, createdAt, clock, page, seen, inserts, removes,
                     repeats>>
      /\ initial' = Matching(walk)
  BY DEF Start, rows
<1>4. /\ Matching(walk) \subseteq Rows /\ Matching(walk) \subseteq table
  BY <1>1, PlacesAreNumbers
<1>5. /\ Matching(walk)' = Matching(walk) /\ Take(walk)' = Take(walk)
      /\ \A r : /\ Place(walk, r)' = Place(walk, r)
                /\ Found(walk, r)' <=> Found(walk, r)
  BY <1>2, <1>3, PlacesStay
<1>6. TypeOK'
  BY <1>1, <1>2, <1>3, <1>4, <1>5 DEF TypeOK
<1>7. RowsDated'
  BY <1>1, <1>3, <1>4 DEF RowsDated
<1>8. MissedSoFar' = {}
  <2>1. Passed' = 0
    BY <1>1, <1>2 DEF Passed, Skip
  <2>2. \A r : ~(Place(walk, r)' < 0)
    BY <1>1, <1>5, PlacesAreNumbers
  <2> QED  BY <2>1, <2>2 DEF MissedSoFar
<1>9. ToRepeat' = {} /\ page' \cap seen' = {}
  BY <1>1, <1>3 DEF ToRepeat
<1>10. /\ Cardinality(MissedSoFar') = 0 /\ Cardinality(ToRepeat') = 0
       /\ Cardinality(page' \cap seen') = 0
  BY <1>8, <1>9, FS_EmptySet
<1>11. repeats' <= Allowed' /\ Allowed' \in Nat
  BY <1>1, <1>2, <1>3 DEF WalkInv, RepeatsAtMostInserted, Allowed
<1>12. Cardinality(MissedSoFar') <= removes'
  BY <1>1, <1>3, <1>10
<1>13. repeats' + Cardinality(page' \cap seen') + Cardinality(ToRepeat') <= Allowed'
  BY <1>1, <1>3, <1>10, <1>11
<1>14. MissesAtMostRemoved' /\ RepeatsAtMostInserted'
  BY <1>2, <1>3, <1>11 DEF MissesAtMostRemoved, RepeatsAtMostInserted, Allowed
<1>15. initial' \subseteq {r \in Rows : Found(walk, r)'}
  BY <1>3, <1>4, <1>5 DEF Matching
<1> QED
  BY <1>1, <1>2, <1>3, <1>6, <1>7, <1>12, <1>13, <1>14, <1>15
     DEF WalkInv, Walking

\* A page reads what it passes, and what it reads twice was ahead.
LEMMA FindKeeps ==
    ASSUME WalkInv, FindMany
    PROVE  WalkInv'
<1>1. /\ TypeOK /\ RowsDated /\ walk \in Walk /\ walk.pc = "find"
      /\ {inserts, removes, repeats} \subseteq Nat
      /\ table \subseteq Rows /\ seen \subseteq Rows /\ initial \subseteq Rows
      /\ page = {}
  BY DEF WalkInv, TypeOK, FindMany
<1>2. /\ walk' \in Walk /\ walk'.pc = "count" /\ walk'.page = walk.page
      /\ walk'.limit = walk.limit /\ walk'.sort = walk.sort
      /\ walk'.search = walk.search /\ walk'.fields = walk.fields
  BY <1>1 DEF FindMany, Walk
<1>3. /\ UNCHANGED <<rows, table, createdAt, clock, seen, initial, inserts,
                     removes, repeats>>
      /\ page' = Find(walk)
  BY DEF FindMany, rows
<1>4. PICK n, t : /\ n = Skip(walk) /\ t = Take(walk)
                  /\ n \in Nat /\ t \in Nat
  BY <1>1, WholePages DEF WalkInv
<1>5. /\ Matching(walk)' = Matching(walk) /\ Take(walk)' = t
      /\ Skip(walk)' = n
      /\ \A r : /\ Place(walk, r)' = Place(walk, r)
                /\ Found(walk, r)' <=> Found(walk, r)
  BY <1>2, <1>3, <1>4, PlacesStay DEF Skip
<1>6. Passed = n /\ Passed' = n + t
  BY <1>1, <1>2, <1>4, <1>5 DEF Passed
<1>7. /\ page' \subseteq Rows /\ Cardinality(page') <= t
      /\ page' \subseteq Matching(walk)
  BY <1>1, <1>3, <1>4, PagesFit DEF Find
<1>8. Matching(walk) \subseteq Rows /\ Matching(walk) \subseteq table
      /\ \A r : Place(walk, r) \in Nat
  BY <1>1, PlacesAreNumbers
<1>9. TypeOK'
  BY <1>1, <1>2, <1>3, <1>5, <1>7 DEF TypeOK
<1>10. RowsDated'
  BY <1>1, <1>3, <1>7, <1>8 DEF RowsDated
<1>11. \A r \in Matching(walk) :
          r \in page' <=> n <= Place(walk, r) /\ Place(walk, r) < n + t
  BY <1>3, <1>4 DEF Find
<1>12. Cardinality(MissedSoFar') <= removes'
  <2>1. PICK S, T : S = MissedSoFar /\ T = MissedSoFar'
    OBVIOUS
  <2>2. ASSUME NEW r \in T PROVE r \in S
    <3>1. /\ r \in (initial \cap table) \ (seen \cup page')
          /\ Place(walk, r) < n + t
      BY <1>3, <1>5, <1>6, <2>1, <2>2 DEF MissedSoFar
    <3>2. r \in Matching(walk)
      BY <3>1 DEF WalkInv, Matching
    <3>3. Place(walk, r) < n
      BY <1>4, <1>8, <1>11, <3>1, <3>2
    <3> QED  BY <1>1, <1>6, <2>1, <3>1, <3>3 DEF MissedSoFar
  <2>3. S \subseteq Rows
    BY <1>1, <2>1 DEF MissedSoFar
  <2>4. T \subseteq S
    BY <2>2
  <2>5. /\ Cardinality(T) <= Cardinality(S)
        /\ Cardinality(S) \in Nat /\ Cardinality(T) \in Nat
    BY <2>3, <2>4, FewerRows, SomeRows
  <2>6. Cardinality(S) <= removes
    BY <1>1, <2>1 DEF WalkInv, Walking
  <2> QED  BY <1>1, <1>3, <2>1, <2>5, <2>6
<1>13. repeats' + Cardinality(page' \cap seen') + Cardinality(ToRepeat') <= Allowed'
  <2>1. PICK S, A, B : /\ S = ToRepeat /\ A = page' \cap seen'
                       /\ B = ToRepeat'
    OBVIOUS
  <2>2. \A r : r \in S <=> r \in Matching(walk) /\ r \in seen
                             /\ n <= Place(walk, r)
    BY <1>1, <1>6, <2>1 DEF ToRepeat
  <2>3. \A r : r \in A <=> r \in page' /\ r \in seen
    BY <1>3, <2>1
  <2>4. \A r : r \in B <=> r \in Matching(walk) /\ r \in seen \cup page'
                             /\ n + t <= Place(walk, r)
    BY <1>3, <1>5, <1>6, <2>1 DEF ToRepeat
  <2>5. A \cap B = {}
    BY <1>4, <1>7, <1>8, <1>11, <2>3, <2>4
  <2>6. A \cup B \subseteq S
    BY <1>4, <1>7, <1>8, <1>11, <2>2, <2>3, <2>4
  <2>7. S \subseteq Rows /\ A \subseteq Rows /\ B \subseteq Rows
    BY <1>8, <2>2, <2>6
  <2>8. /\ Cardinality(A) + Cardinality(B) <= Cardinality(S)
        /\ Cardinality(A) \in Nat /\ Cardinality(B) \in Nat
        /\ Cardinality(S) \in Nat
    <3>1. Cardinality(A \cup B) <= Cardinality(S)
      BY <2>6, <2>7, FewerRows
    <3>2. Cardinality(A \cup B) = Cardinality(A) + Cardinality(B)
      BY <2>5, <2>7, ApartRows
    <3> QED  BY <2>7, <3>1, <3>2, SomeRows
  <2>9. repeats + Cardinality(S) <= Allowed
    <3>1. page \cap seen = {} /\ Cardinality(page \cap seen) = 0
      BY <1>1, FS_EmptySet
    <3> QED  BY <1>1, <2>1, <2>8, <3>1 DEF WalkInv, Walking
  <2>10. Allowed' = Allowed /\ Allowed \in Nat
    BY <1>1, <1>2, <1>3 DEF Allowed
  <2> QED  BY <1>1, <1>3, <2>1, <2>8, <2>9, <2>10
<1>14. MissesAtMostRemoved' /\ RepeatsAtMostInserted'
  BY <1>2, <1>3 DEF WalkInv, MissesAtMostRemoved, RepeatsAtMostInserted
<1>15. initial' \subseteq {r \in Rows : Found(walk, r)'}
  BY <1>3, <1>5 DEF WalkInv
<1> QED
  BY <1>1, <1>2, <1>3, <1>9, <1>10, <1>12, <1>13, <1>14, <1>15
     DEF WalkInv, Walking

\* The next request skips what was passed.
LEMMA NextPageFollows ==
    ASSUME WalkInv, CountAndRespond, HasNext(Cardinality(Matching(walk)), walk)
    PROVE  /\ walk' \in Walk /\ walk'.pc = "find"
           /\ walk'.limit = walk.limit /\ walk'.sort = walk.sort
           /\ walk'.search = walk.search /\ walk'.fields = walk.fields
           /\ walk'.page # 0 /\ Passed' = Passed
<1>1. walk \in Walk /\ walk.pc = "count" /\ Take(walk) # 0 /\ TypeOK
  BY DEF WalkInv, TypeOK, CountAndRespond, HasNext
<1>2. PICK t \in Nat \ {0}, k \in Nat : t = Take(walk) /\ Skip(walk) = k * t
  BY <1>1, WholePages DEF WalkInv
<1>3. CurrentPage(walk) = k + 1
  BY <1>2, Divided DEF CurrentPage
<1>4. walk' = [walk EXCEPT !.pc = "find", !.page = CurrentPage(walk) + 1]
  BY DEF CountAndRespond
<1>5. PICK m \in Nat : m = CurrentPage(walk) + 1 /\ m = k + 2
  <2>1. CurrentPage(walk) + 1 \in Nat /\ CurrentPage(walk) + 1 = k + 2
    BY <1>2, <1>3
  <2> QED  BY <2>1
<1>6. walk' = [walk EXCEPT !.pc = "find", !.page = m]
  BY <1>4, <1>5
<1>7. /\ walk' \in Walk /\ walk'.pc = "find" /\ walk'.page = m
      /\ walk'.limit = walk.limit /\ walk'.sort = walk.sort
      /\ walk'.search = walk.search /\ walk'.fields = walk.fields
  BY <1>1, <1>5, <1>6 DEF Walk
<1>8. Take(walk)' = t
  BY <1>2, <1>7 DEF Take
<1>9. Passed' = (m - 1) * t
  BY <1>5, <1>7, <1>8, NoneIsNoLimit DEF Passed, Skip
<1>10. (m - 1) * t = k * t + t
  <2>1. m - 1 = k + 1
    BY <1>5
  <2>2. (k + 1) * t = k * t + t
    OBVIOUS
  <2> QED  BY <2>1, <2>2
<1>11. Passed = k * t + t
  BY <1>1, <1>2 DEF Passed
<1> QED  BY <1>5, <1>7, <1>9, <1>10, <1>11

\* With the last page everything that is found was passed.
LEMMA LastPagePassesAll ==
    ASSUME WalkInv, CountAndRespond, Take(walk) # 0,
           ~HasNext(Cardinality(Matching(walk)), walk), NEW r \in Matching(walk)
    PROVE  Place(walk, r) < Passed
<1>1. walk.pc = "count" /\ TypeOK
  BY DEF WalkInv, CountAndRespond
<1>2. PICK t \in Nat \ {0}, k \in Nat : t = Take(walk) /\ Skip(walk) = k * t
  BY <1>1, WholePages DEF WalkInv
<1>3. PICK n \in Nat : n = Cardinality(Matching(walk))
  BY <1>1, PlacesAreNumbers
<1>4. CurrentPage(walk) = k + 1
  BY <1>2, Divided DEF CurrentPage
<1>5. ~(k + 1 < (n + t - 1) \div t)
  BY <1>2, <1>3, <1>4 DEF HasNext, LastPage
<1>6. n <= k * t + t
  BY <1>5, LastPageReached
<1>7. Passed = k * t + t
  BY <1>1, <1>2 DEF Passed
<1>8. Place(walk, r) < n /\ Place(walk, r) \in Nat
  BY <1>1, <1>3, PlacesAreBelowTotal, PlacesAreNumbers
<1>9. k * t + t \in Nat
  BY <1>2
<1> QED  BY <1>6, <1>7, <1>8, <1>9

\* The response hands the page over: what was missed and what is to be repeated
\* stays, and what is repeated is counted.
LEMMA CountKeeps ==
    ASSUME WalkInv, CountAndRespond
    PROVE  WalkInv'
<1>1. /\ TypeOK /\ RowsDated /\ walk \in Walk /\ walk.pc = "count"
      /\ {inserts, removes, repeats} \subseteq Nat
      /\ table \subseteq Rows /\ page \subseteq Rows
      /\ seen \subseteq Rows /\ initial \subseteq Rows
  BY DEF WalkInv, TypeOK, CountAndRespond
<1>2. /\ UNCHANGED <<rows, table, createdAt, clock, initial, inserts, removes>>
      /\ page' = {} /\ seen' = seen \cup page
      /\ repeats' = AtMost(repeats + Cardinality(page \cap seen), RepeatsCap)
  BY DEF CountAndRespond, rows
<1>3. /\ walk' \in Walk /\ walk'.pc \in {"find", "done"}
      /\ walk'.limit = walk.limit /\ walk'.sort = walk.sort
      /\ walk'.search = walk.search /\ walk'.fields = walk.fields
      /\ walk'.page = None \/ walk'.page # 0
  <2>1. CASE HasNext(Cardinality(Matching(walk)), walk)
    BY <2>1, NextPageFollows
  <2>2. CASE ~HasNext(Cardinality(Matching(walk)), walk)
    <3>1. walk' = [walk EXCEPT !.pc = "done"]
      BY <2>2 DEF CountAndRespond
    <3> QED  BY <1>1, <3>1 DEF Walk, WalkInv
  <2> QED  BY <2>1, <2>2
<1>4. /\ Matching(walk)' = Matching(walk) /\ Take(walk)' = Take(walk)
      /\ \A r : /\ Place(walk, r)' = Place(walk, r)
                /\ Found(walk, r)' <=> Found(walk, r)
  BY <1>2, <1>3, PlacesStay
<1>5. PICK c : c = Cardinality(page \cap seen)
  OBVIOUS
<1>6. c \in Nat /\ repeats + c \in Nat /\ RepeatsCap \in Nat
  BY <1>1, <1>5, SomeRows DEF RepeatsCap
<1>7. repeats' \in Nat /\ repeats' <= repeats + c
  BY <1>2, <1>5, <1>6 DEF AtMost
<1>8. Take(walk) \in Nat /\ Cardinality(page') = 0 /\ Cardinality(page' \cap seen') = 0
  BY <1>1, <1>2, WholePages, FS_EmptySet DEF WalkInv
<1>9. TypeOK'
  BY <1>1, <1>2, <1>3, <1>4, <1>7, <1>8 DEF TypeOK
<1>10. RowsDated'
  BY <1>2, <1>1 DEF RowsDated
<1>11. PICK S, A : S = MissedSoFar /\ A = ToRepeat
  OBVIOUS
<1>12. /\ S \subseteq Rows /\ A \subseteq Rows
       /\ Cardinality(S) \in Nat /\ Cardinality(A) \in Nat
       /\ Cardinality(S) <= removes
       /\ repeats + c + Cardinality(A) <= Allowed
  <2>1. S \subseteq Rows /\ A \subseteq Rows
    BY <1>1, <1>11 DEF MissedSoFar, ToRepeat
  <2>2. /\ Cardinality(S) <= removes
        /\ repeats + c + Cardinality(A) <= Allowed
    BY <1>1, <1>5, <1>11 DEF WalkInv, Walking
  <2> QED  BY <2>1, <2>2, SomeRows
<1>13. Allowed' = Allowed /\ Allowed \in Nat
  BY <1>1, <1>2, <1>3 DEF Allowed
<1>14. repeats' + Cardinality(A) <= Allowed' /\ repeats' <= Allowed'
  BY <1>1, <1>6, <1>7, <1>12, <1>13
<1>15. ASSUME walk'.pc = "find"
       PROVE  /\ Cardinality(MissedSoFar') <= removes'
              /\ repeats' + Cardinality(page' \cap seen') + Cardinality(ToRepeat')
                    <= Allowed'
  <2>1. HasNext(Cardinality(Matching(walk)), walk)
    <3>1. ~HasNext(Cardinality(Matching(walk)), walk) => walk'.pc = "done"
      BY <1>1 DEF CountAndRespond, Walk
    <3> QED  BY <1>15, <3>1
  <2>2. Passed' = Passed
    BY <2>1, NextPageFollows
  <2>3. seen' \cup page' = seen \cup page
    BY <1>2
  <2>4. MissedSoFar' = S
    BY <1>2, <1>4, <1>11, <2>2, <2>3 DEF MissedSoFar
  <2>5. ToRepeat' = A
    BY <1>4, <1>11, <2>2, <2>3 DEF ToRepeat
  <2> QED  BY <1>2, <1>7, <1>8, <1>12, <1>14, <2>4, <2>5
<1>16. MissesAtMostRemoved'
  <2>1. ASSUME walk'.pc = "done", Take(walk) # 0
        PROVE  Cardinality((initial' \cap table') \ seen') <= removes'
    <3>1. ~HasNext(Cardinality(Matching(walk)), walk)
      <4>1. HasNext(Cardinality(Matching(walk)), walk) => walk'.pc = "find"
        BY NextPageFollows
      <4> QED  BY <2>1, <4>1
    <3>2. PICK T : T = (initial' \cap table') \ seen'
      OBVIOUS
    <3>3. ASSUME NEW r \in T PROVE r \in S
      <4>1. r \in (initial \cap table) \ (seen \cup page)
        BY <1>2, <3>2, <3>3
      <4>2. r \in Matching(walk)
        BY <4>1 DEF WalkInv, Matching
      <4>3. Place(walk, r) < Passed
        BY <2>1, <3>1, <4>2, LastPagePassesAll
      <4> QED  BY <1>11, <4>1, <4>3 DEF MissedSoFar
    <3>4. T \subseteq S
      BY <3>3
    <3>5. Cardinality(T) <= Cardinality(S) /\ Cardinality(T) \in Nat
      BY <1>12, <3>4, FewerRows, SomeRows
    <3> QED  BY <1>1, <1>2, <1>12, <3>2, <3>5
  <2> QED  BY <1>4, <2>1 DEF MissesAtMostRemoved
<1>17. RepeatsAtMostInserted'
  BY <1>14 DEF RepeatsAtMostInserted, Allowed
<1>18. initial' \subseteq {r \in Rows : Found(walk, r)'}
  BY <1>2, <1>4 DEF WalkInv
<1> QED
  BY <1>2, <1>3, <1>9, <1>10, <1>15, <1>16, <1>17, <1>18 DEF WalkInv, Walking

-----------------------------------------------------------------------------
(* The theorems *)

\* At first there is no row, and nobody walks.
LEMMA WalkBegins == Init => WalkInv
<1> SUFFICES ASSUME Init PROVE WalkInv
  OBVIOUS
<1>1. Take(walk) \in Nat
  BY LimitsAreNatural DEF Init, Take
<1>2. walk \in Walk /\ walk.pc = "idle" /\ walk.page = None
  BY DEF Init, Walk
<1>3. TypeOK
  BY <1>1, <1>2, FS_EmptySet DEF Init, TypeOK
<1>4. RowsDated
  BY DEF Init, RowsDated
<1> QED
  BY <1>2, <1>3, <1>4
     DEF Init, WalkInv, Walking, MissesAtMostRemoved, RepeatsAtMostInserted

\* However rows come and go between and inside the requests, what was passed
\* unread is owed to removals and what stands to be read again to insertions.
THEOREM WalkInvariant == Spec => []WalkInv
<1>1. ASSUME WalkInv, UNCHANGED vars PROVE WalkInv'
  BY <1>1
     DEF vars, WalkInv, TypeOK, RowsDated, Walking, MissedSoFar, ToRepeat, Allowed,
         Passed, Skip, Take, Place, Matching, Found, Precedes,
         MissesAtMostRemoved, RepeatsAtMostInserted
<1>2. WalkInv /\ [Next]_vars => WalkInv'
  BY <1>1, InsertKeeps, RemoveKeeps, StartKeeps, FindKeeps, CountKeeps DEF Next
<1> QED  BY <1>2, WalkBegins, PTL DEF Spec

\* Every state of the walk is well-typed, and no page has more rows than were
\* asked for.
THEOREM TypeCorrect == Spec => []TypeOK
<1>1. WalkInv => TypeOK
  BY DEF WalkInv
<1> QED  BY <1>1, WalkInvariant, PTL

\* A finished walk misses no more of its rows than were removed under it.
THEOREM MissesAreRemovals == Spec => []MissesAtMostRemoved
<1>1. WalkInv => MissesAtMostRemoved
  BY DEF WalkInv
<1> QED  BY <1>1, WalkInvariant, PTL

\* A walk reads no more rows twice than were inserted under it, and none at all
\* oldest first.
THEOREM RepeatsAreInsertions == Spec => []RepeatsAtMostInserted
<1>1. WalkInv => RepeatsAtMostInserted
  BY DEF WalkInv
<1> QED  BY <1>1, WalkInvariant, PTL

===============================================================================
