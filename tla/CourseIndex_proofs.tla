-------------------------- MODULE CourseIndex_proofs --------------------------
(***************************************************************************)
(* What holds of the index of a course and of reading it, whatever the     *)
(* documents, their texts and the size of pieces: no word of a section     *)
(* worth indexing is lost; each step of ingestion and deletion keeps every *)
(* document whole; sorting by fused rank respects agreement.               *)
(***************************************************************************)
EXTENDS CourseIndex, FiniteSetTheorems, SequenceTheorems, WellFoundedInduction, TLAPS

-----------------------------------------------------------------------------
(* Cutting a section                                                       *)

\* Division: every number lies in a step that starts at a multiple of Step.
LEMMA Multiple ==
  ASSUME NEW n \in Nat
  PROVE  \E s \in 0..n : s % Step = 0 /\ n < s + Step
<1>1. Step \in Nat \ {0}
  BY ChunkAssumption DEF Step
<1> DEFINE q == n \div Step
           s == q * Step
<1>2. q \in Nat /\ n = q * Step + (n % Step) /\ (n % Step) \in 0..(Step - 1)
  BY <1>1, Z3
<1>3. s \in Nat /\ s <= n /\ n < s + Step
  BY <1>1, <1>2
<1>4. s % Step = 0
  BY <1>1, <1>2, Z3
<1> QED BY <1>3, <1>4

\* A piece that is one of several, or the whole of a section, is not dropped:
\* the remainder behind the last but one is longer than the overlap.
LEMMA Kept ==
  ASSUME NEW section \in Section, Worthwhile(section), NEW s \in Starts(section)
  PROVE  LongEnough(section, Piece(section, s))
<1>1. /\ Items(section) \in Nat /\ s \in 0..(Items(section) - 1)
      /\ s = 0 \/ s - Step + Size < Items(section)
  BY DEF Starts, Items, Section
<1>2. CASE s = 0 /\ Items(section) <= Size
  BY <1>1, <1>2, ChunkAssumption
  DEF Section, Worthwhile, LongEnough, WordsIn, Piece, Items
<1>3. CASE s = 0 /\ Items(section) > Size
  BY <1>1, <1>3, ChunkAssumption DEF Section, LongEnough, WordsIn, Piece, Items
<1>4. CASE s # 0
  BY <1>1, <1>4, ChunkAssumption DEF Section, LongEnough, WordsIn, Piece, Step, Items
<1> QED BY <1>1, <1>2, <1>3, <1>4, ChunkAssumption

\* No word is lost (_chunk_section): for every size and overlap of pieces, and
\* every bound on short ones up to the overlap, each item of a section that has
\* enough words for a piece is in a piece that is kept.
THEOREM NoWordLost ==
  ASSUME NEW section \in Section, Worthwhile(section),
         NEW item \in 0..(Items(section) - 1)
  PROVE  \E s \in Starts(section) :
           /\ Holds(Piece(section, s), item)
           /\ LongEnough(section, Piece(section, s))
<1> DEFINE n == Items(section)
<1>1. n \in Nat /\ item \in Nat /\ item < n
  BY DEF Items, Section
<1>2. SUFFICES \E s \in Starts(section) : s <= item /\ item < s + Size
  BY <1>1, Kept DEF Holds, Piece, Starts
<1>3. Step \in Nat \ {0} /\ Step <= Size /\ Size \in Nat
  BY ChunkAssumption DEF Step
\* The multiple of Step at or before the item starts a piece, unless a piece
\* before it has reached the end.
<1>4. PICK s \in 0..item : s % Step = 0 /\ item < s + Step
  BY <1>1, Multiple
<1>5. CASE s = 0 \/ s - Step + Size < n
  <2>1. s \in Starts(section)
    BY <1>1, <1>4, <1>5 DEF Starts
  <2> QED BY <2>1, <1>1, <1>3, <1>4
<1>6. CASE n <= Size
  <2>1. 0 % Step = 0
    BY <1>3, Z3
  <2>2. 0 \in Starts(section)
    BY <1>1, <2>1 DEF Starts
  <2> QED BY <2>2, <1>1, <1>3, <1>6
\* Then the last of the multiples that do start one reaches the end.
<1>7. CASE s # 0 /\ s - Step + Size >= n /\ n > Size
  <2> DEFINE last == n - Size + Step - 1
  <2>1. last \in Nat /\ last < s
    BY <1>1, <1>3, <1>4, <1>7
  <2>2. PICK t \in 0..last : t % Step = 0 /\ last < t + Step
    BY <2>1, Multiple
  <2>3. t \in Starts(section)
    BY <1>1, <1>3, <2>1, <2>2 DEF Starts
  <2>4. t <= item /\ item < t + Size
    BY <1>1, <1>3, <1>4, <2>1, <2>2
  <2> QED BY <2>3, <2>4
<1> QED BY <1>1, <1>3, <1>4, <1>5, <1>6, <1>7

-----------------------------------------------------------------------------
(* Ranks, sorting and picking                                              *)

\* A strict total order on a set, as a set of pairs.
Orders(R, S) ==
  /\ \A i, j \in S : i # j => <<i, j>> \in R \/ <<j, i>> \in R
  /\ \A i \in S : <<i, i>> \notin R
  /\ \A i, j, k \in S : <<i, j>> \in R /\ <<j, k>> \in R => <<i, k>> \in R

Preceding(R, S, i) == {j \in S : <<j, i>> \in R}

\* The elements of a set one after the other.
Lines(at, R, S) ==
  /\ at \in [1..Cardinality(S) -> S]
  /\ \A i \in S : \E n \in 1..Cardinality(S) : at[n] = i
  /\ \A m, n \in 1..Cardinality(S) : m < n => <<at[m], at[n]>> \in R
  /\ \A n \in 1..Cardinality(S) : \A i \in S :
       Cardinality(Preceding(R, S, i)) = n - 1 <=> at[n] = i

\* So many numbers are there up to a number.
LEMMA UpTo == ASSUME NEW n \in Nat PROVE IsFiniteSet(1..n) /\ Cardinality(1..n) = n
BY FS_Interval

\* In a finite set each element has a rank of its own, and every rank is taken.
LEMMA Ranks ==
  ASSUME NEW S, IsFiniteSet(S), NEW R, Orders(R, S)
  PROVE  \E at : Lines(at, R, S)
<1> DEFINE card(i) == Cardinality(Preceding(R, S, i))
           N       == Cardinality(S)
           f       == [i \in S |-> card(i) + 1]
<1>1. N \in Nat
  BY FS_CardinalityType
<1>2. ASSUME NEW i \in S
      PROVE  card(i) \in Nat /\ card(i) < N /\ IsFiniteSet(Preceding(R, S, i))
  <2>1. Preceding(R, S, i) \in SUBSET S /\ i \notin Preceding(R, S, i)
    BY DEF Preceding, Orders
  <2>2. /\ IsFiniteSet(Preceding(R, S, i)) /\ card(i) <= N
        /\ N = card(i) => S = Preceding(R, S, i)
    BY <2>1, FS_Subset
  <2>3. card(i) \in Nat
    BY <2>2, FS_CardinalityType
  <2> QED
    BY <1>1, <2>1, <2>2, <2>3
<1>3. ASSUME NEW i \in S, NEW j \in S, <<i, j>> \in R
      PROVE  card(i) < card(j)
  <2>1. /\ Preceding(R, S, i) \in SUBSET Preceding(R, S, j)
        /\ i \in Preceding(R, S, j) /\ i \notin Preceding(R, S, i)
    BY <1>3 DEF Preceding, Orders
  <2>2. /\ card(i) <= card(j)
        /\ card(j) = card(i) => Preceding(R, S, j) = Preceding(R, S, i)
    BY <1>2, <2>1, FS_Subset
  <2>3. card(i) \in Nat /\ card(j) \in Nat /\ card(i) # card(j)
    BY <1>2, <2>1, <2>2
  <2> HIDE DEF card
  <2> QED
    BY <2>2, <2>3
<1>4. \A i, j \in S : card(i) = card(j) => i = j
  <2> SUFFICES ASSUME NEW i \in S, NEW j \in S, i # j PROVE card(i) # card(j)
    OBVIOUS
  <2>1. card(i) \in Nat /\ card(j) \in Nat /\ (card(i) < card(j) \/ card(j) < card(i))
    BY <1>2, <1>3 DEF Orders
  <2> HIDE DEF card
  <2> QED
    BY <2>1
<1>5. f \in [S -> 1..N] /\ \A i \in S : f[i] = card(i) + 1 /\ card(i) \in Nat
  <2>1. \A i \in S : card(i) \in Nat /\ card(i) + 1 \in 1..N
    BY <1>1, <1>2
  <2> HIDE DEF card
  <2> QED
    BY <2>1
<1> HIDE DEF card, f
<1>6. f \in Injection(S, 1..N)
  BY <1>4, <1>5 DEF Injection, IsInjective
<1>7. IsFiniteSet(1..N) /\ Cardinality(1..N) = N
  BY <1>1, FS_Interval
<1>8. f \in Surjection(S, 1..N)
  BY <1>6, <1>7, FS_Injection
<1>9. \A n \in 1..N : \E i \in S : f[i] = n
  BY <1>8 DEF Surjection
<1> DEFINE at == [n \in 1..N |-> CHOOSE i \in S : f[i] = n]
<1>10. /\ at \in [1..N -> S]
       /\ \A n \in 1..N : at[n] \in S /\ f[at[n]] = n
  BY <1>9
<1>11. \A n \in 1..N : \A i \in S : card(i) = n - 1 <=> at[n] = i
  <2> SUFFICES ASSUME NEW n \in 1..N, NEW i \in S
               PROVE  card(i) = n - 1 <=> at[n] = i
    OBVIOUS
  <2>1. n \in Nat /\ card(i) \in Nat /\ f[i] = card(i) + 1
    BY <1>1, <1>5
  <2>2. at[n] \in S /\ f[at[n]] = n /\ f[at[n]] = card(at[n]) + 1 /\ card(at[n]) \in Nat
    BY <1>5, <1>10
  <2> HIDE DEF at
  <2> QED
    BY <1>4, <2>1, <2>2
<1>12. \A i \in S : \E n \in 1..N : at[n] = i
  <2> SUFFICES ASSUME NEW i \in S PROVE at[f[i]] = i /\ f[i] \in 1..N
    OBVIOUS
  <2>1. f[i] \in 1..N /\ card(i) = f[i] - 1
    BY <1>1, <1>5
  <2> HIDE DEF at
  <2> QED
    BY <1>11, <2>1
<1>13. \A m, n \in 1..N : m < n => <<at[m], at[n]>> \in R
  <2> SUFFICES ASSUME NEW m \in 1..N, NEW n \in 1..N, m < n
               PROVE  <<at[m], at[n]>> \in R
    OBVIOUS
  <2>1. at[m] \in S /\ at[n] \in S /\ card(at[m]) = m - 1 /\ card(at[n]) = n - 1
    BY <1>10, <1>11
  <2>2. m \in Nat /\ n \in Nat
    BY <1>1
  <2> HIDE DEF at
  <2>3. at[m] # at[n] /\ ~(<<at[n], at[m]>> \in R)
    BY <1>3, <2>1, <2>2
  <2> QED
    BY <2>1, <2>3 DEF Orders
<1> HIDE DEF at
<1>14. \A n \in 1..N : \A i \in S : Cardinality(Preceding(R, S, i)) = n - 1 <=> at[n] = i
  BY <1>11 DEF card
<1>15. Lines(at, R, S)
  BY <1>10, <1>12, <1>13, <1>14 DEF Lines
<1> QED
  BY <1>15

Picks(at, s, P) ==
  /\ at \in [1..Cardinality(P) -> P]
  /\ \A i \in P : \E n \in 1..Cardinality(P) : at[n] = i
  /\ \A m, n \in 1..Cardinality(P) : m < n => at[m] < at[n]
  /\ Picked(s, P) = [n \in 1..Cardinality(P) |-> s[at[n]]]

\* What Picked takes are the elements at the positions, in their order.
LEMMA PickedIs ==
  ASSUME NEW s, NEW P, IsFiniteSet(P), P \subseteq Nat
  PROVE  \E at : Picks(at, s, P)
<1> DEFINE R == {e \in P \X P : e[1] < e[2]}
<1>1. Orders(R, P)
  BY DEF Orders
<1>2. \A i, j \in P : <<i, j>> \in R <=> i < j
  OBVIOUS
<1>3. \A i \in P : Preceding(R, P, i) = {j \in P : j < i}
  BY <1>2 DEF Preceding
<1> HIDE DEF R
<1>a. PICK at : Lines(at, R, P)
  BY <1>1, Ranks
<1>4. /\ at \in [1..Cardinality(P) -> P]
      /\ \A i \in P : \E n \in 1..Cardinality(P) : at[n] = i
      /\ \A m, n \in 1..Cardinality(P) : m < n => <<at[m], at[n]>> \in R
      /\ \A n \in 1..Cardinality(P) : \A i \in P :
           Cardinality(Preceding(R, P, i)) = n - 1 <=> at[n] = i
  BY <1>a DEF Lines
<1> DEFINE order == InOrder(P, <)
<1>5. order = [n \in 1..Cardinality(P) |->
                 CHOOSE i \in P : Cardinality({j \in P : j < i}) = n - 1]
  BY DEF InOrder
<1>6. \A n \in 1..Cardinality(P) :
        at[n] = CHOOSE i \in P : Cardinality({j \in P : j < i}) = n - 1
  <2> SUFFICES ASSUME NEW n \in 1..Cardinality(P)
               PROVE  at[n] = CHOOSE i \in P : Cardinality({j \in P : j < i}) = n - 1
    OBVIOUS
  <2>1. \A i \in P : Cardinality({j \in P : j < i}) = n - 1 <=> at[n] = i
    BY <1>3, <1>4
  <2>2. at[n] \in P
    BY <1>4
  <2> QED
    BY <2>1, <2>2
<1>7. DOMAIN order = 1..Cardinality(P) /\ \A n \in 1..Cardinality(P) : order[n] = at[n]
  BY <1>5, <1>6, Zenon
<1>8. Picked(s, P) = [n \in DOMAIN order |-> s[order[n]]]
  BY DEF Picked
<1> HIDE DEF order
<1>9. Picked(s, P) = [n \in 1..Cardinality(P) |-> s[at[n]]]
  BY <1>7, <1>8
<1> QED
  BY <1>2, <1>4, <1>9 DEF Picks

-----------------------------------------------------------------------------
(* The chunks of a document                                                *)

Chunk == [doc : Docs, n : Nat, section : Nat, piece : [from : Int, to : Int]]

\* What a function makes of a finite set is finite.
LEMMA FiniteImage ==
  ASSUME NEW S, IsFiniteSet(S), NEW f
  PROVE  IsFiniteSet({f[x] : x \in S})
<1> DEFINE T == {f[x] : x \in S}
           g == [x \in S |-> f[x]]
<1>1. g \in Surjection(S, T)
  BY DEF Surjection
<1> HIDE DEF g, T
<1>2. IsFiniteSet(T)
  BY <1>1, FS_Surjection
<1> QED
  BY <1>2 DEF T

\* The places where a text is cut are finitely many pairs of numbers.
LEMMA PlacesFinite ==
  ASSUME NEW t \in Seq(Section)
  PROVE  IsFiniteSet(Places(t)) /\ Places(t) \subseteq Nat \X Nat
<1> DEFINE Of(i) == {<<i, s>> : s \in {x \in Starts(t[i]) : LongEnough(t[i], Piece(t[i], x))}}
           f     == [i \in 1..Len(t) |-> Of(i)]
<1>1. ASSUME NEW i \in 1..Len(t)
      PROVE  IsFiniteSet(Of(i)) /\ Of(i) \subseteq Nat \X Nat
  <2> DEFINE cut == {x \in Starts(t[i]) : LongEnough(t[i], Piece(t[i], x))}
             g   == [s \in cut |-> <<i, s>>]
  <2>1. t[i] \in Section /\ i \in Nat
    OBVIOUS
  <2>2. Items(t[i]) \in Nat
    BY <2>1 DEF Items, Section
  <2>3. IsFiniteSet(0..(Items(t[i]) - 1))
    BY <2>2, FS_Interval
  <2>4. cut \in SUBSET (0..(Items(t[i]) - 1))
    BY DEF Starts
  <2>5. cut \subseteq Nat
    BY <2>2, <2>4
  <2>9. Of(i) = {g[s] : s \in cut}
    OBVIOUS
  <2> HIDE DEF cut
  <2>6. IsFiniteSet(cut)
    BY <2>3, <2>4, FS_Subset
  <2>7. IsFiniteSet({g[s] : s \in cut})
    <3> HIDE DEF g
    <3> QED
      BY <2>6, FiniteImage
  <2>8. {g[s] : s \in cut} \subseteq Nat \X Nat
    <3>1. \A s \in cut : g[s] = <<i, s>> /\ <<i, s>> \in Nat \X Nat
      BY <2>1, <2>5
    <3>2. \A s \in cut : g[s] \in Nat \X Nat
      BY <3>1, Zenon
    <3> HIDE DEF g
    <3> QED
      BY <3>2, Zenon
  <2> QED
    BY <2>7, <2>8, <2>9
<1>2. IsFiniteSet(1..Len(t))
  BY FS_Interval, LenProperties
<1>3. IsFiniteSet({f[i] : i \in 1..Len(t)})
  <2> HIDE DEF f
  <2> QED
    BY <1>2, FiniteImage
<1>4. {f[i] : i \in 1..Len(t)} = {Of(i) : i \in 1..Len(t)}
  OBVIOUS
<1>5. Places(t) = UNION {Of(i) : i \in 1..Len(t)}
  BY DEF Places
<1> HIDE DEF Of, f
<1>6. IsFiniteSet(UNION {Of(i) : i \in 1..Len(t)})
  BY <1>1, <1>3, <1>4, FS_UNION
<1> QED
  BY <1>1, <1>5, <1>6

\* The chunks of a text are one for each place, numbered from 1.
LEMMA ChunksAre ==
  ASSUME NEW d \in Docs, NEW t \in Seq(Section)
  PROVE  \E at \in [1..Cardinality(Places(t)) -> Places(t)] :
           /\ \A p \in Places(t) : \E n \in 1..Cardinality(Places(t)) : at[n] = p
           /\ Chunks(d, t) =
                [n \in 1..Cardinality(Places(t)) |->
                  [doc |-> d, n |-> n, section |-> at[n][1],
                   piece |-> Piece(t[at[n][1]], at[n][2])]]
<1> DEFINE S == Places(t)
           N == Cardinality(S)
<1>1. IsFiniteSet(S) /\ S \subseteq Nat \X Nat
  BY PlacesFinite
<1>2. N \in Nat /\ ExistsBijection(1..N, S)
  BY <1>1, FS_CardinalityType
<1> HIDE DEF S
<1> DEFINE R == {e \in S \X S : Earlier(e[1], e[2])}
<1>3. \A p, q \in S : <<p, q>> \in R <=> Earlier(p, q)
  OBVIOUS
<1>4. Orders(R, S)
  <2>1. \A p, q \in Nat \X Nat : p # q => Earlier(p, q) \/ Earlier(q, p)
    BY DEF Earlier
  <2>2. \A p \in Nat \X Nat : ~Earlier(p, p)
    BY DEF Earlier
  <2>3. \A p, q, r \in Nat \X Nat : Earlier(p, q) /\ Earlier(q, r) => Earlier(p, r)
    BY DEF Earlier
  <2> HIDE DEF R
  <2> QED
    BY <1>1, <1>3, <2>1, <2>2, <2>3 DEF Orders
<1>5. \A p \in S : Preceding(R, S, p) = {q \in S : Earlier(q, p)}
  BY <1>3 DEF Preceding
<1> HIDE DEF R
<1>a. PICK at : Lines(at, R, S)
  BY <1>1, <1>4, Ranks
<1>6. /\ at \in [1..N -> S]
      /\ \A p \in S : \E n \in 1..N : at[n] = p
      /\ \A m, n \in 1..N : m < n => <<at[m], at[n]>> \in R
      /\ \A n \in 1..N : \A p \in S : Cardinality(Preceding(R, S, p)) = n - 1 <=> at[n] = p
  BY <1>a DEF Lines
<1> DEFINE order == InOrder(S, Earlier)
<1>7. order = [n \in 1..N |-> CHOOSE p \in S : Cardinality({q \in S : Earlier(q, p)}) = n - 1]
  BY DEF InOrder
<1>8. \A n \in 1..N :
        at[n] = CHOOSE p \in S : Cardinality({q \in S : Earlier(q, p)}) = n - 1
  <2> SUFFICES ASSUME NEW n \in 1..N
               PROVE  at[n] = CHOOSE p \in S : Cardinality({q \in S : Earlier(q, p)}) = n - 1
    OBVIOUS
  <2>1. \A p \in S : Cardinality({q \in S : Earlier(q, p)}) = n - 1 <=> at[n] = p
    BY <1>5, <1>6
  <2>2. at[n] \in S
    BY <1>6
  <2> QED
    BY <2>1, <2>2
<1>9. DOMAIN order = 1..N /\ \A n \in 1..N : order[n] = at[n]
  BY <1>7, <1>8, Zenon
<1>10. Chunks(d, t) =
         [n \in DOMAIN order |->
           [doc |-> d, n |-> n, section |-> order[n][1],
            piece |-> Piece(t[order[n][1]], order[n][2])]]
  BY DEF Chunks, S
<1> HIDE DEF order
<1>11. Chunks(d, t) =
         [n \in 1..N |->
           [doc |-> d, n |-> n, section |-> at[n][1],
            piece |-> Piece(t[at[n][1]], at[n][2])]]
  BY <1>9, <1>10
<1> QED
  BY <1>6, <1>11 DEF S

-----------------------------------------------------------------------------
(* A collection of chunks                                                  *)

\* A collection never has two chunks of one id.
Distinct(s) == \A i, j \in DOMAIN s : SameId(s[i], s[j]) => i = j

\* The chunks of a document in a collection.
Its(s, d) == {ch \in ToSet(s) : ch.doc = d}

\* Picking keeps a sequence of a set one, takes what is at the positions and
\* nothing twice.
LEMMA PickedFrom ==
  ASSUME NEW S, NEW s \in Seq(S), NEW P \in SUBSET DOMAIN s
  PROVE  /\ Picked(s, P) \in Seq(S)
         /\ ToSet(Picked(s, P)) = {s[i] : i \in P}
         /\ Distinct(s) => Distinct(Picked(s, P))
<1>1. DOMAIN s = 1..Len(s) /\ Len(s) \in Nat /\ IsFiniteSet(1..Len(s))
  BY LenProperties, FS_Interval
<1>2. IsFiniteSet(P) /\ P \subseteq Nat
  BY <1>1, FS_Subset
<1>3. Cardinality(P) \in Nat
  BY <1>2, FS_CardinalityType
<1>a. PICK at : Picks(at, s, P)
  BY <1>2, PickedIs
<1>4. /\ at \in [1..Cardinality(P) -> P]
      /\ \A i \in P : \E n \in 1..Cardinality(P) : at[n] = i
      /\ \A m, n \in 1..Cardinality(P) : m < n => at[m] < at[n]
      /\ Picked(s, P) = [n \in 1..Cardinality(P) |-> s[at[n]]]
  BY <1>a DEF Picks
<1>5. \A n \in 1..Cardinality(P) : at[n] \in P /\ at[n] \in 1..Len(s) /\ s[at[n]] \in S
  BY <1>1, <1>4
<1>6. Picked(s, P) \in Seq(S)
  BY <1>3, <1>4, <1>5
<1>7. ToSet(Picked(s, P)) = {s[i] : i \in P}
  BY <1>4, <1>5 DEF ToSet
<1>8. ASSUME Distinct(s) PROVE Distinct(Picked(s, P))
  <2> SUFFICES ASSUME NEW m \in 1..Cardinality(P), NEW n \in 1..Cardinality(P),
                      SameId(s[at[m]], s[at[n]])
               PROVE  m = n
    BY <1>4 DEF Distinct
  <2>1. at[m] = at[n]
    BY <1>1, <1>5, <1>8 DEF Distinct
  <2>2. m \in Nat /\ n \in Nat /\ at[m] \in Nat
    BY <1>2, <1>3, <1>5
  <2> QED
    BY <1>4, <2>1, <2>2
<1> QED
  BY <1>6, <1>7, <1>8

\* Picking every position is the sequence itself.
LEMMA PickedAll ==
  ASSUME NEW S, NEW s \in Seq(S)
  PROVE  Picked(s, DOMAIN s) = s
<1> DEFINE N == Len(s)
<1>1. DOMAIN s = 1..N /\ N \in Nat
  BY LenProperties
<1>c. Cardinality(1..N) = N
  BY <1>1, FS_Interval
<1> DEFINE order == InOrder(1..N, <)
<1>2. order = [n \in 1..N |-> CHOOSE i \in 1..N : Cardinality({j \in 1..N : j < i}) = n - 1]
  BY <1>c, Zenon DEF InOrder
<1>3. \A n \in 1..N :
        n = CHOOSE i \in 1..N : Cardinality({j \in 1..N : j < i}) = n - 1
  <2> SUFFICES ASSUME NEW n \in 1..N
               PROVE  n = CHOOSE i \in 1..N : Cardinality({j \in 1..N : j < i}) = n - 1
    OBVIOUS
  <2>1. \A i \in 1..N : Cardinality({j \in 1..N : j < i}) = i - 1
    <3> SUFFICES ASSUME NEW i \in 1..N PROVE Cardinality({j \in 1..N : j < i}) = i - 1
      OBVIOUS
    <3>1. {j \in 1..N : j < i} = 1..(i - 1)
      BY <1>1
    <3>2. Cardinality(1..(i - 1)) = i - 1
      BY <1>1, FS_Interval
    <3> QED
      BY <3>1, <3>2
  <2>2. \A i \in 1..N : Cardinality({j \in 1..N : j < i}) = n - 1 <=> i = n
    <3> SUFFICES ASSUME NEW i \in 1..N PROVE i - 1 = n - 1 <=> i = n
      BY <2>1
    <3> QED
      BY <1>1
  <2> QED
    BY <2>2
<1>4. DOMAIN order = 1..N /\ \A n \in 1..N : order[n] = n
  BY <1>2, <1>3, Zenon
<1>5. Picked(s, 1..N) = [n \in DOMAIN order |-> s[order[n]]]
  BY DEF Picked
<1> HIDE DEF order
<1>6. Picked(s, 1..N) = [n \in 1..N |-> s[n]]
  BY <1>4, <1>5
<1>7. Picked(s, 1..N) = s
  BY <1>1, <1>6
<1> QED
  BY <1>1, <1>7

\* ingest_document: the chunks of a document are typed, of it, each of an id
\* of its own, and there is one for every piece that is long enough.
LEMMA ChunksTyped ==
  ASSUME NEW d \in Docs, NEW t \in Seq(Section)
  PROVE  /\ Chunks(d, t) \in Seq(Chunk)
         /\ Distinct(Chunks(d, t))
         /\ \A k \in DOMAIN Chunks(d, t) : Chunks(d, t)[k].doc = d
         /\ \A ch \in ToSet(Chunks(d, t)) : ch.doc = d
         /\ \A i \in 1..Len(t) : \A s \in Starts(t[i]) :
              LongEnough(t[i], Piece(t[i], s)) =>
                \E ch \in ToSet(Chunks(d, t)) : ch.section = i /\ ch.piece = Piece(t[i], s)
<1> DEFINE N == Cardinality(Places(t))
<1>1. IsFiniteSet(Places(t)) /\ Places(t) \subseteq Nat \X Nat
  BY PlacesFinite
<1>2. N \in Nat
  BY <1>1, FS_CardinalityType
<1>3. PICK at \in [1..N -> Places(t)] :
        /\ \A p \in Places(t) : \E n \in 1..N : at[n] = p
        /\ Chunks(d, t) =
             [n \in 1..N |->
               [doc |-> d, n |-> n, section |-> at[n][1],
                piece |-> Piece(t[at[n][1]], at[n][2])]]
  BY ChunksAre
<1>4. \A p \in Places(t) : p[1] \in 1..Len(t) /\ p[1] \in Nat /\ p[2] \in Nat
  BY <1>1 DEF Places
<1>5. \A p \in Places(t) : Piece(t[p[1]], p[2]) \in [from : Int, to : Int]
  <2> SUFFICES ASSUME NEW p \in Places(t)
               PROVE  Piece(t[p[1]], p[2]) \in [from : Int, to : Int]
    OBVIOUS
  <2>1. t[p[1]] \in Section
    BY <1>4
  <2>2. Items(t[p[1]]) \in Nat
    BY <2>1 DEF Items, Section
  <2>3. Size \in Nat /\ p[2] \in Nat
    BY <1>4, ChunkAssumption
  <2> QED
    BY <2>2, <2>3 DEF Piece
<1>6. \A n \in 1..N : at[n] \in Places(t) /\ n \in Nat
  BY <1>2, <1>3
<1>7. Chunks(d, t) \in Seq(Chunk)
  <2>1. \A n \in 1..N :
          [doc |-> d, n |-> n, section |-> at[n][1],
           piece |-> Piece(t[at[n][1]], at[n][2])] \in Chunk
    BY <1>4, <1>5, <1>6 DEF Chunk
  <2> QED
    BY <1>2, <1>3, <2>1
<1>8. \A k \in 1..N : Chunks(d, t)[k].doc = d /\ Chunks(d, t)[k].n = k
  BY <1>3
<1>9. DOMAIN Chunks(d, t) = 1..N
  BY <1>3
<1>10. Distinct(Chunks(d, t))
  BY <1>8, <1>9 DEF Distinct, SameId
<1>11. \A i \in 1..Len(t) : \A s \in Starts(t[i]) :
         LongEnough(t[i], Piece(t[i], s)) =>
           \E ch \in ToSet(Chunks(d, t)) : ch.section = i /\ ch.piece = Piece(t[i], s)
  <2> SUFFICES ASSUME NEW i \in 1..Len(t), NEW s \in Starts(t[i]),
                      LongEnough(t[i], Piece(t[i], s))
               PROVE  \E ch \in ToSet(Chunks(d, t)) :
                        ch.section = i /\ ch.piece = Piece(t[i], s)
    OBVIOUS
  <2>1. <<i, s>> \in Places(t)
    BY DEF Places
  <2>2. PICK n \in 1..N : at[n] = <<i, s>>
    BY <1>3, <2>1
  <2>3. Chunks(d, t)[n].section = i /\ Chunks(d, t)[n].piece = Piece(t[i], s)
    BY <1>3, <2>2
  <2>4. Chunks(d, t)[n] \in ToSet(Chunks(d, t))
    BY <1>9 DEF ToSet
  <2> QED
    BY <2>3, <2>4
<1>12. \A ch \in ToSet(Chunks(d, t)) : ch.doc = d
  BY <1>8, <1>9 DEF ToSet
<1> QED
  BY <1>7, <1>8, <1>9, <1>10, <1>11, <1>12

-----------------------------------------------------------------------------
(* Writing the index                                                       *)

Shape ==
  /\ live \subseteq Docs /\ withdrawn \subseteq Docs
  /\ job \in [Docs -> {"idle", "read", "purged"}] /\ text = [d \in Docs |-> text[d]]
  /\ index \in [Courses -> Seq(Chunk)] /\ removing \subseteq [doc : Docs, clean : BOOLEAN]

\* A collection has chunks of its course only, none twice.
Orderly(s, c) == Distinct(s) /\ \A ch \in ToSet(s) : CourseOf[ch.doc] = c

Held(d) == Its(index[CourseOf[d]], d)

\* A live document is in the index as its last text says, but between the
\* purge and the upsert, when it is not there at all; a withdrawn one has
\* neither chunks nor an ingestion, and never gets any, and one whose clean
\* deletion is half done has neither as long as it is clean.
Whole(d) ==
  /\ job[d] # "purged" /\ text[d] # NoText =>
       text[d] \in Texts[d] /\ Held(d) = ToSet(Chunks(d, text[d]))
  /\ job[d] = "purged" => text[d] \in Texts[d] /\ Held(d) = {}

Cleared(d) == job[d] = "idle" /\ Held(d) = {}
Gone(d)    == d \notin live /\ Cleared(d)

IndexInv ==
  /\ Shape
  /\ \A c \in Courses : Orderly(index[c], c)
  /\ \A d \in Docs : job[d] = "purged" => text[d] \in Texts[d] /\ Held(d) = {}
  /\ \A d \in live : Whole(d)
  /\ \A d \in withdrawn : Gone(d)
  /\ \A r \in removing : r.clean => Cleared(r.doc)

\* Deleting the chunks of a document leaves those of the others.
LEMMA WithoutDoes ==
  ASSUME IndexInv, NEW d \in Docs
  PROVE  LET old == index[CourseOf[d]] IN
         /\ Without(d) \in Seq(Chunk)
         /\ ToSet(Without(d)) = {ch \in ToSet(old) : ch.doc # d}
         /\ Orderly(Without(d), CourseOf[d])
<1> DEFINE c   == CourseOf[d]
           old == index[c]
           P   == {i \in DOMAIN old : old[i].doc # d}
<1>1. c \in Courses /\ old \in Seq(Chunk) /\ Orderly(old, c)
  BY IndexAssumption DEF IndexInv, Shape, IndexAssumption
<1>2. Without(d) = Picked(old, P)
  BY DEF Without
<1>3. {old[i] : i \in P} = {ch \in ToSet(old) : ch.doc # d}
  BY DEF ToSet
<1>4. P \in SUBSET DOMAIN old
  OBVIOUS
<1> HIDE DEF P, old
<1>5. /\ Without(d) \in Seq(Chunk) /\ ToSet(Without(d)) = {old[i] : i \in P}
      /\ Distinct(old) => Distinct(Without(d))
  BY <1>1, <1>2, <1>4, PickedFrom
<1>6. Orderly(Without(d), c)
  BY <1>1, <1>3, <1>5 DEF Orderly
<1> QED
  BY <1>3, <1>5, <1>6 DEF old

\* Nothing in a collection without a document has an id of its chunks: upsert
\* appends them.
LEMMA WithDoes ==
  ASSUME IndexInv, NEW d \in Docs, job[d] = "purged"
  PROVE  LET old == index[CourseOf[d]] IN
         /\ With(d) \in Seq(Chunk)
         /\ ToSet(With(d)) = ToSet(old) \cup ToSet(Chunks(d, text[d]))
         /\ Orderly(With(d), CourseOf[d])
<1> DEFINE c   == CourseOf[d]
           old == index[c]
           new == Chunks(d, text[d])
<1>1. /\ c \in Courses /\ old \in Seq(Chunk) /\ Orderly(old, c)
      /\ text[d] \in Seq(Section) /\ Its(old, d) = {}
  BY IndexAssumption DEF IndexInv, Shape, IndexAssumption, Held
<1>2. /\ new \in Seq(Chunk) /\ Distinct(new)
      /\ \A k \in DOMAIN new : new[k].doc = d
      /\ \A ch \in ToSet(new) : ch.doc = d
  BY <1>1, ChunksTyped
<1>3. \A i \in DOMAIN old : old[i].doc # d
  BY <1>1 DEF Its, ToSet
<1>4. \A i \in DOMAIN old, k \in DOMAIN new : ~SameId(old[i], new[k]) /\ ~SameId(new[k], old[i])
  BY <1>2, <1>3 DEF SameId
<1> DEFINE P     == {k \in DOMAIN new : \A i \in DOMAIN old : ~SameId(old[i], new[k])}
           first == [i \in DOMAIN old |->
                      IF \E k \in DOMAIN new : SameId(new[k], old[i])
                      THEN new[old[i].n] ELSE old[i]]
<1>5. With(d) = first \o Picked(new, P)
  BY DEF With
<1> HIDE DEF old, new
<1>6. P = DOMAIN new
  BY <1>4
<1>7. first = old
  <2>1. first = [i \in DOMAIN old |-> old[i]]
    BY <1>4
  <2>2. DOMAIN old = 1..Len(old) /\ old \in [1..Len(old) -> Chunk]
    BY <1>1, LenProperties
  <2> QED
    BY <2>1, <2>2
<1> HIDE DEF P, first
<1>8. With(d) = old \o new
  BY <1>2, <1>5, <1>6, <1>7, PickedAll
<1>9. DOMAIN old = 1..Len(old) /\ DOMAIN new = 1..Len(new) /\ Len(old) \in Nat /\ Len(new) \in Nat
  BY <1>1, <1>2, LenProperties
<1>10. /\ With(d) \in Seq(Chunk) /\ DOMAIN With(d) = 1..(Len(old) + Len(new))
       /\ \A i \in 1..(Len(old) + Len(new)) :
            With(d)[i] = IF i <= Len(old) THEN old[i] ELSE new[i - Len(old)]
  BY <1>1, <1>2, <1>8
<1>11. ToSet(With(d)) = ToSet(old) \cup ToSet(new)
  <2>1. ASSUME NEW x \in ToSet(With(d)) PROVE x \in ToSet(old) \cup ToSet(new)
    <3>1. PICK i \in 1..(Len(old) + Len(new)) : x = With(d)[i]
      BY <1>10 DEF ToSet
    <3>2. CASE i <= Len(old)
      BY <1>9, <1>10, <3>1, <3>2 DEF ToSet
    <3>3. CASE i > Len(old)
      <4>1. i - Len(old) \in 1..Len(new) /\ x = new[i - Len(old)]
        BY <1>9, <1>10, <3>1, <3>3
      <4> QED
        BY <1>9, <4>1 DEF ToSet
    <3> QED
      BY <1>9, <3>2, <3>3
  <2>2. ASSUME NEW x \in ToSet(old) PROVE x \in ToSet(With(d))
    BY <1>9, <1>10 DEF ToSet
  <2>3. ASSUME NEW x \in ToSet(new) PROVE x \in ToSet(With(d))
    <3>1. PICK k \in 1..Len(new) : x = new[k]
      BY <1>9 DEF ToSet
    <3>2. /\ Len(old) + k \in 1..(Len(old) + Len(new)) /\ ~(Len(old) + k <= Len(old))
          /\ Len(old) + k - Len(old) = k
      BY <1>9
    <3>3. With(d)[Len(old) + k] = x
      BY <1>10, <3>1, <3>2
    <3> QED
      BY <1>10, <3>2, <3>3 DEF ToSet
  <2> QED
    BY <2>1, <2>2, <2>3
<1>12. Distinct(With(d))
  <2> SUFFICES ASSUME NEW i \in 1..(Len(old) + Len(new)), NEW j \in 1..(Len(old) + Len(new)),
                      SameId(With(d)[i], With(d)[j])
               PROVE  i = j
    BY <1>10 DEF Distinct
  <2>1. CASE i <= Len(old) /\ j <= Len(old)
    <3>1. i \in DOMAIN old /\ j \in DOMAIN old
      BY <1>9, <2>1
    <3>2. With(d)[i] = old[i] /\ With(d)[j] = old[j]
      BY <1>10, <2>1
    <3> QED
      BY <1>1, <3>1, <3>2 DEF Orderly, Distinct
  <2>2. CASE i > Len(old) /\ j > Len(old)
    <3>1. /\ i - Len(old) \in DOMAIN new /\ j - Len(old) \in DOMAIN new
          /\ SameId(new[i - Len(old)], new[j - Len(old)])
      BY <1>9, <1>10, <2>2
    <3>2. i - Len(old) = j - Len(old)
      BY <1>2, <3>1 DEF Distinct
    <3> QED
      BY <1>9, <3>2
  <2>3. CASE i <= Len(old) /\ j > Len(old)
    <3>1. i \in DOMAIN old /\ j - Len(old) \in DOMAIN new /\ SameId(old[i], new[j - Len(old)])
      BY <1>9, <1>10, <2>3
    <3> QED
      BY <1>4, <3>1
  <2>4. CASE i > Len(old) /\ j <= Len(old)
    <3>1. j \in DOMAIN old /\ i - Len(old) \in DOMAIN new /\ SameId(new[i - Len(old)], old[j])
      BY <1>9, <1>10, <2>4
    <3> QED
      BY <1>4, <3>1
  <2> QED
    BY <1>9, <2>1, <2>2, <2>3, <2>4
<1>13. Orderly(With(d), c)
  BY <1>1, <1>2, <1>11, <1>12 DEF Orderly
<1> QED
  BY <1>10, <1>11, <1>13 DEF old, new

\* What is written for a document leaves the other documents as they are.
LEMMA OthersKept ==
  ASSUME IndexInv, NEW d \in Docs, NEW new \in Seq(Chunk), Orderly(new, CourseOf[d]),
         index' = [index EXCEPT ![CourseOf[d]] = new],
         \A ch : ch.doc # d => (ch \in ToSet(new) <=> ch \in ToSet(index[CourseOf[d]]))
  PROVE  /\ index' \in [Courses -> Seq(Chunk)]
         /\ \A c \in Courses : Orderly(index'[c], c)
         /\ \A e \in Docs \ {d} : Held(e)' = Held(e)
         /\ Held(d)' = Its(new, d)
<1>1. CourseOf \in [Docs -> Courses] /\ index \in [Courses -> Seq(Chunk)]
  BY IndexAssumption DEF IndexAssumption, IndexInv, Shape
<1>2. /\ index' \in [Courses -> Seq(Chunk)]
      /\ \A c \in Courses : index'[c] = IF c = CourseOf[d] THEN new ELSE index[c]
  BY <1>1
<1>3. \A c \in Courses : Orderly(index'[c], c)
  BY <1>2 DEF IndexInv
<1>4. ASSUME NEW e \in Docs \ {d} PROVE Its(index'[CourseOf[e]], e) = Its(index[CourseOf[e]], e)
  <2>1. CASE CourseOf[e] = CourseOf[d]
    BY <1>1, <1>2, <2>1 DEF Its
  <2>2. CASE CourseOf[e] # CourseOf[d]
    BY <1>1, <1>2, <2>2
  <2> QED
    BY <2>1, <2>2
<1> QED
  BY <1>1, <1>2, <1>3, <1>4 DEF Held

\* delete_document and the purge: the chunks of one document go.
LEMMA WithoutKeeps ==
  ASSUME IndexInv, NEW d \in Docs, index' = [index EXCEPT ![CourseOf[d]] = Without(d)]
  PROVE  /\ index' \in [Courses -> Seq(Chunk)]
         /\ \A c \in Courses : Orderly(index'[c], c)
         /\ \A e \in Docs \ {d} : Held(e)' = Held(e)
         /\ Held(d)' = {}
<1>1. /\ Without(d) \in Seq(Chunk) /\ Orderly(Without(d), CourseOf[d])
      /\ ToSet(Without(d)) = {ch \in ToSet(index[CourseOf[d]]) : ch.doc # d}
  BY WithoutDoes
<1>2. \A ch : ch.doc # d => (ch \in ToSet(Without(d)) <=> ch \in ToSet(index[CourseOf[d]]))
  BY <1>1
<1>3. Its(Without(d), d) = {}
  BY <1>1 DEF Its
<1> QED
  BY <1>1, <1>2, <1>3, OthersKept

\* The upsert: the chunks of one document come.
LEMMA WithKeeps ==
  ASSUME IndexInv, NEW d \in Docs, job[d] = "purged",
         index' = [index EXCEPT ![CourseOf[d]] = With(d)]
  PROVE  /\ index' \in [Courses -> Seq(Chunk)]
         /\ \A c \in Courses : Orderly(index'[c], c)
         /\ \A e \in Docs \ {d} : Held(e)' = Held(e)
         /\ Held(d)' = ToSet(Chunks(d, text[d]))
<1>1. /\ With(d) \in Seq(Chunk) /\ Orderly(With(d), CourseOf[d])
      /\ ToSet(With(d)) = ToSet(index[CourseOf[d]]) \cup ToSet(Chunks(d, text[d]))
  BY WithDoes
<1>2. text[d] \in Seq(Section) /\ Its(index[CourseOf[d]], d) = {}
  BY IndexAssumption DEF IndexInv, IndexAssumption, Held
<1>3. \A ch \in ToSet(Chunks(d, text[d])) : ch.doc = d
  BY <1>2, ChunksTyped
<1>4. \A ch : ch.doc # d => (ch \in ToSet(With(d)) <=> ch \in ToSet(index[CourseOf[d]]))
  BY <1>1, <1>3
<1>5. Its(With(d), d) = ToSet(Chunks(d, text[d]))
  BY <1>1, <1>2, <1>3 DEF Its
<1> QED
  BY <1>1, <1>4, <1>5, OthersKept

\* Every step of an ingestion and of a deletion keeps the documents whole.
LEMMA WriteKeeps == IndexInv /\ Write => IndexInv'
<1> SUFFICES ASSUME IndexInv, Write PROVE IndexInv'
  OBVIOUS
<1>s. /\ live \subseteq Docs /\ withdrawn \subseteq Docs
      /\ job \in [Docs -> {"idle", "read", "purged"}] /\ text = [d \in Docs |-> text[d]]
      /\ index \in [Courses -> Seq(Chunk)]
      /\ removing \subseteq [doc : Docs, clean : BOOLEAN]
  BY DEF IndexInv, Shape
\* A deletion that is clean still is when only a document with an ingestion
\* under way has changed.
<1>r. ASSUME NEW d \in Docs, job[d] # "idle", removing' = removing,
             \A e \in Docs \ {d} : job'[e] = job[e] /\ Held(e)' = Held(e)
      PROVE  \A r \in removing' : r.clean => Cleared(r.doc)'
  <2> SUFFICES ASSUME NEW r \in removing, r.clean PROVE Cleared(r.doc)'
    BY <1>r
  <2>1. r.doc \in Docs /\ Cleared(r.doc)
    BY <1>s DEF IndexInv
  <2>2. r.doc # d
    BY <1>r, <2>1 DEF Cleared
  <2> QED
    BY <1>r, <2>1, <2>2 DEF Cleared
<1>1. ASSUME NEW d \in Docs, ReadFile(d) PROVE IndexInv'
  <2>1. /\ d \in live /\ job[d] = "idle" /\ job' = [job EXCEPT ![d] = "read"]
        /\ removing' = {[r EXCEPT !.clean = @ /\ r.doc # d] : r \in removing}
        /\ UNCHANGED <<live, index, text, withdrawn>>
    BY <1>1 DEF ReadFile
  <2>r. ASSUME NEW q \in removing'
        PROVE  /\ q \in [doc : Docs, clean : BOOLEAN]
               /\ q.clean => q.doc # d /\ Cleared(q.doc)
    <3>1. PICK r \in removing : q = [r EXCEPT !.clean = @ /\ r.doc # d]
      BY <2>1
    <3>2. r \in [doc : Docs, clean : BOOLEAN] /\ (r.clean => Cleared(r.doc))
      BY <1>s DEF IndexInv
    <3>3. /\ q \in [doc : Docs, clean : BOOLEAN]
          /\ q.doc = r.doc /\ (q.clean <=> r.clean /\ r.doc # d)
      BY <3>1, <3>2
    <3> QED
      BY <3>2, <3>3
  <2>2. Shape'
    BY <1>s, <2>1, <2>r DEF Shape
  <2>3. \A e \in Docs : /\ Held(e)' = Held(e)
                       /\ job'[e] = IF e = d THEN "read" ELSE job[e]
    BY <1>s, <2>1 DEF Held
  <2>4. \A e \in live' : Whole(e)'
    BY <1>s, <2>1, <2>3 DEF IndexInv, Whole
  <2>5. \A e \in withdrawn' : Gone(e)'
    BY <1>s, <2>1, <2>3 DEF IndexInv, Gone, Cleared
  <2>6. \A q \in removing' : q.clean => Cleared(q.doc)'
    <3> SUFFICES ASSUME NEW q \in removing', q.clean PROVE Cleared(q.doc)'
      OBVIOUS
    <3>1. q.doc \in Docs /\ q.doc # d /\ Cleared(q.doc)
      BY <2>r
    <3> QED
      BY <2>3, <3>1 DEF Cleared
  <2> QED
    BY <1>s, <2>1, <2>2, <2>3, <2>4, <2>5, <2>6 DEF IndexInv
<1>2. ASSUME NEW d \in Docs, Upsert(d) PROVE IndexInv'
  <2>1. /\ job[d] = "purged" /\ index' = [index EXCEPT ![CourseOf[d]] = With(d)]
        /\ job' = [job EXCEPT ![d] = "idle"] /\ UNCHANGED <<live, text, removing, withdrawn>>
    BY <1>2 DEF Upsert
  <2>2. /\ index' \in [Courses -> Seq(Chunk)]
        /\ \A c \in Courses : Orderly(index'[c], c)
        /\ \A e \in Docs \ {d} : Held(e)' = Held(e)
        /\ Held(d)' = ToSet(Chunks(d, text[d]))
    BY <2>1, WithKeeps
  <2>3. Shape'
    BY <1>s, <2>1, <2>2 DEF Shape
  <2>4. \A e \in Docs : job'[e] = IF e = d THEN "idle" ELSE job[e]
    BY <1>s, <2>1
  <2>5. \A e \in live' : Whole(e)'
    BY <1>s, <2>1, <2>2, <2>4 DEF IndexInv, Whole
  <2>6. \A e \in withdrawn' : Gone(e)'
    BY <1>s, <2>1, <2>2, <2>4 DEF IndexInv, Gone, Cleared
  <2>7. \A r \in removing' : r.clean => Cleared(r.doc)'
    BY <1>r, <2>1, <2>2, <2>4
  <2> QED
    BY <1>s, <2>1, <2>2, <2>3, <2>4, <2>5, <2>6, <2>7 DEF IndexInv
<1>3. ASSUME NEW d \in Docs, IngestFails(d) PROVE IndexInv'
  <2>1. /\ job[d] # "idle" /\ job' = [job EXCEPT ![d] = "idle"]
        /\ text' = IF job[d] = "purged" THEN [text EXCEPT ![d] = NoText] ELSE text
        /\ UNCHANGED <<live, index, removing, withdrawn>>
    BY <1>3 DEF IngestFails
  <2>2. \A e \in Docs : /\ job'[e] = IF e = d THEN "idle" ELSE job[e]
                       /\ Held(e)' = Held(e)
    BY <1>s, <2>1 DEF Held
  <2>7. \A e \in Docs :
          IF e = d /\ job[d] = "purged" THEN text'[e] = NoText ELSE text'[e] = text[e]
    <3>1. CASE job[d] = "purged"
      <4>1. \A e \in Docs : text'[e] = IF e = d THEN NoText ELSE text[e]
        BY <1>s, <2>1, <3>1
      <4> QED
        BY <3>1, <4>1
    <3>2. CASE job[d] # "purged"
      BY <2>1, <3>2
    <3> QED
      BY <3>1, <3>2
  <2>3. text' = [e \in Docs |-> text'[e]]
    <3>1. CASE job[d] = "purged"
      BY <1>s, <2>1, <3>1
    <3>2. CASE job[d] # "purged"
      <4>1. text' = text
        BY <2>1, <3>2
      <4> QED
        BY <1>s, <4>1
    <3> QED
      BY <3>1, <3>2
  <2>4. Shape'
    BY <1>s, <2>1, <2>3 DEF Shape
  <2>5. \A e \in live' : Whole(e)'
    <3> SUFFICES ASSUME NEW e \in live PROVE Whole(e)'
      BY <2>1
    <3>1. Whole(e) /\ e \in Docs
      BY <1>s DEF IndexInv
    <3>2. CASE e = d
      BY <1>s, <2>2, <2>7, <3>1, <3>2 DEF Whole
    <3>3. CASE e # d
      BY <2>2, <2>7, <3>1, <3>3 DEF Whole
    <3> QED
      BY <3>2, <3>3
  <2>6. \A e \in withdrawn' : Gone(e)'
    BY <1>s, <2>1, <2>2 DEF IndexInv, Gone, Cleared
  <2>8. \A r \in removing' : r.clean => Cleared(r.doc)'
    BY <1>r, <2>1, <2>2
  <2> QED
    BY <1>s, <2>1, <2>2, <2>4, <2>5, <2>6, <2>7, <2>8 DEF IndexInv
<1>4. ASSUME NEW d \in Docs, NEW sections \in Texts[d], Purge(d, sections) PROVE IndexInv'
  <2>1. /\ job[d] = "read" /\ index' = [index EXCEPT ![CourseOf[d]] = Without(d)]
        /\ text' = [text EXCEPT ![d] = sections]
        /\ job' = [job EXCEPT ![d] = IF Chunks(d, sections) = <<>> THEN "idle" ELSE "purged"]
        /\ UNCHANGED <<live, removing, withdrawn>>
    BY <1>4 DEF Purge
  <2>2. /\ index' \in [Courses -> Seq(Chunk)]
        /\ \A c \in Courses : Orderly(index'[c], c)
        /\ \A e \in Docs \ {d} : Held(e)' = Held(e)
        /\ Held(d)' = {}
    BY <2>1, WithoutKeeps
  <2>3. \A e \in Docs :
          /\ text'[e] = IF e = d THEN sections ELSE text[e]
          /\ job'[e] = IF e = d THEN IF Chunks(d, sections) = <<>> THEN "idle" ELSE "purged"
                       ELSE job[e]
    BY <1>s, <2>1
  <2>4. text' = [e \in Docs |-> text'[e]]
    BY <1>s, <2>1
  <2>5. Shape'
    BY <1>s, <2>1, <2>2, <2>4 DEF Shape
  <2>6. job'[d] # "purged" => ToSet(Chunks(d, sections)) = {}
    <3>1. ToSet(<<>>) = {}
      BY DEF ToSet
    <3> QED
      BY <2>3, <3>1
  <2>7. \A e \in live' : Whole(e)'
    BY <1>s, <2>1, <2>2, <2>3, <2>6 DEF IndexInv, Whole
  <2>8. \A e \in withdrawn' : Gone(e)'
    BY <1>s, <2>1, <2>2, <2>3 DEF IndexInv, Gone, Cleared
  <2>9. \A r \in removing' : r.clean => Cleared(r.doc)'
    BY <1>r, <2>1, <2>2, <2>3
  <2> QED
    BY <1>s, <2>1, <2>2, <2>3, <2>5, <2>7, <2>8, <2>9 DEF IndexInv
<1>5. ASSUME NEW d \in Docs, NEW ok \in BOOLEAN, RemoveChunks(d, ok) PROVE IndexInv'
  <2>1. /\ index' = IF ok THEN [index EXCEPT ![CourseOf[d]] = Without(d)] ELSE index
        /\ text' = IF ok /\ job[d] # "purged" THEN [text EXCEPT ![d] = NoText] ELSE text
        /\ removing' = {[doc |-> d, clean |-> ok /\ job[d] = "idle"]}
        /\ UNCHANGED <<live, job, withdrawn>>
    BY <1>5 DEF RemoveChunks
  <2>2. /\ index' \in [Courses -> Seq(Chunk)]
        /\ \A c \in Courses : Orderly(index'[c], c)
        /\ \A e \in Docs \ {d} : Held(e)' = Held(e)
        /\ Held(d)' = IF ok THEN {} ELSE Held(d)
    <3>1. CASE ok
      BY <2>1, <3>1, WithoutKeeps
    <3>2. CASE ~ok
      BY <1>s, <2>1, <3>2 DEF IndexInv, Held
    <3> QED
      BY <3>1, <3>2
  <2>3. /\ text' = [e \in Docs |-> text'[e]]
        /\ \A e \in Docs \ {d} : text'[e] = text[e]
        /\ text'[d] = IF ok /\ job[d] # "purged" THEN NoText ELSE text[d]
    <3>1. CASE ok /\ job[d] # "purged"
      BY <1>s, <2>1, <3>1
    <3>2. CASE ~(ok /\ job[d] # "purged")
      <4>1. text' = text
        BY <2>1, <3>2
      <4> QED
        BY <1>s, <3>2, <4>1
    <3> QED
      BY <3>1, <3>2
  <2>4. /\ removing' \subseteq [doc : Docs, clean : BOOLEAN]
        /\ \A r \in removing' : r.doc = d /\ (r.clean <=> ok /\ job[d] = "idle")
    <3>1. PICK b \in BOOLEAN : b <=> ok /\ job[d] = "idle"
      OBVIOUS
    <3>2. b = (ok /\ job[d] = "idle")
      BY <3>1
    <3>3. removing' = {[doc |-> d, clean |-> b]}
      BY <2>1, <3>2
    <3> QED
      BY <3>1, <3>3
  <2>5. Shape'
    BY <1>s, <2>1, <2>2, <2>3, <2>4 DEF Shape
  <2>6. \A e \in live' : Whole(e)'
    <3> SUFFICES ASSUME NEW e \in live PROVE Whole(e)'
      BY <2>1
    <3>1. Whole(e) /\ e \in Docs
      BY <1>s DEF IndexInv
    <3>2. CASE e = d
      BY <2>1, <2>2, <2>3, <3>1, <3>2 DEF Whole
    <3>3. CASE e # d
      BY <2>1, <2>2, <2>3, <3>1, <3>3 DEF Whole
    <3> QED
      BY <3>2, <3>3
  <2>7. \A e \in withdrawn' : Gone(e)'
    BY <1>s, <2>1, <2>2 DEF IndexInv, Gone, Cleared
  <2>8. \A r \in removing' : r.clean => Cleared(r.doc)'
    BY <2>1, <2>2, <2>4 DEF Cleared
  <2>9. \A e \in Docs : job'[e] = "purged" => text'[e] \in Texts[e] /\ Held(e)' = {}
    BY <2>1, <2>2, <2>3 DEF IndexInv
  <2> QED
    BY <2>2, <2>5, <2>6, <2>7, <2>8, <2>9 DEF IndexInv
<1>6. ASSUME RemoveRow PROVE IndexInv'
  <2>1. PICK r \in removing :
          /\ live' = live \ {r.doc} /\ removing' = {}
          /\ withdrawn' = IF r.clean THEN withdrawn \cup {r.doc} ELSE withdrawn
          /\ UNCHANGED <<index, job, text>>
    BY <1>6 DEF RemoveRow
  <2>2. r.doc \in Docs /\ (r.clean => Cleared(r.doc))
    BY <1>s DEF IndexInv
  <2>3. \A e \in Docs : Held(e)' = Held(e)
    BY <2>1 DEF Held
  <2>4. Shape'
    BY <1>s, <2>1, <2>2 DEF Shape
  <2>5. \A e \in live' : Whole(e)'
    BY <1>s, <2>1, <2>3 DEF IndexInv, Whole
  <2>6. \A e \in withdrawn' : Gone(e)'
    BY <1>s, <2>1, <2>2, <2>3 DEF IndexInv, Gone, Cleared
  <2> QED
    BY <1>s, <2>1, <2>3, <2>4, <2>5, <2>6 DEF IndexInv
<1>7. ASSUME RemoveFails PROVE IndexInv'
  <2>1. removing' = {} /\ UNCHANGED <<live, index, job, text, withdrawn>>
    BY <1>7 DEF RemoveFails
  <2>2. Shape'
    BY <1>s, <2>1 DEF Shape
  <2> QED
    BY <1>s, <2>1, <2>2 DEF IndexInv, Whole, Gone, Cleared, Held
<1> QED
  BY <1>1, <1>2, <1>3, <1>4, <1>5, <1>6, <1>7 DEF Write

\* What does not write the index keeps it as it is.
LEMMA IndexStays ==
  IndexInv /\ UNCHANGED <<live, index, job, text, removing, withdrawn>> => IndexInv'
BY DEF IndexInv, Shape, Whole, Gone, Cleared, Held

\* At first nothing is indexed.
LEMMA IndexAtFirst == IndexInit => IndexInv
<1> SUFFICES ASSUME IndexInit PROVE IndexInv
  OBVIOUS
<1>1. \A c \in Courses : index[c] = <<>>
  BY DEF IndexInit
<1>2. \A c \in Courses : Orderly(index[c], c)
  BY <1>1 DEF Orderly, Distinct, ToSet
<1>3. Shape
  BY DEF IndexInit, Shape
<1> QED
  BY <1>2, <1>3 DEF IndexInit, IndexInv, Whole, NoText

\* A document that is whole is indexed with every word of it.
LEMMA WholeIsIndexed == IndexInv => FullyIndexed
<1> SUFFICES ASSUME IndexInv, NEW d \in live, job[d] = "idle", text[d] # NoText
             PROVE  /\ {index[CourseOf[d]][i] : i \in ChunksOf(d)} = ToSet(Chunks(d, text[d]))
                    /\ \A s \in 1..Len(text[d]) : Worthwhile(text[d][s]) =>
                         \A item \in 0..(Items(text[d][s]) - 1) :
                           \E i \in ChunksOf(d) :
                             /\ index[CourseOf[d]][i].section = s
                             /\ Holds(index[CourseOf[d]][i].piece, item)
  BY DEF FullyIndexed
<1>1. d \in Docs /\ text[d] \in Seq(Section) /\ Held(d) = ToSet(Chunks(d, text[d]))
  BY IndexAssumption DEF IndexInv, Shape, Whole, IndexAssumption
<1>2. {index[CourseOf[d]][i] : i \in ChunksOf(d)} = Held(d)
  BY DEF ChunksOf, Held, Its, ToSet
<1>3. ASSUME NEW s \in 1..Len(text[d]), Worthwhile(text[d][s]),
             NEW item \in 0..(Items(text[d][s]) - 1)
      PROVE  \E i \in ChunksOf(d) :
               /\ index[CourseOf[d]][i].section = s
               /\ Holds(index[CourseOf[d]][i].piece, item)
  <2>1. text[d][s] \in Section
    BY <1>1
  <2>2. PICK x \in Starts(text[d][s]) :
          /\ Holds(Piece(text[d][s], x), item)
          /\ LongEnough(text[d][s], Piece(text[d][s], x))
    BY <1>3, <2>1, NoWordLost
  <2>3. PICK ch \in ToSet(Chunks(d, text[d])) :
          ch.section = s /\ ch.piece = Piece(text[d][s], x)
    <3>1. \A i \in 1..Len(text[d]) : \A z \in Starts(text[d][i]) :
            LongEnough(text[d][i], Piece(text[d][i], z)) =>
              \E ch \in ToSet(Chunks(d, text[d])) :
                ch.section = i /\ ch.piece = Piece(text[d][i], z)
      BY <1>1, ChunksTyped
    <3> QED
      BY <2>2, <3>1
  <2>4. PICK i \in ChunksOf(d) : index[CourseOf[d]][i] = ch
    BY <1>1, <1>2, <2>3
  <2> QED
    BY <2>2, <2>3, <2>4
<1> QED
  BY <1>1, <1>2, <1>3

-----------------------------------------------------------------------------
(* Reciprocal rank fusion                                                  *)

Positive == Nat \ {0}

\* Multiplying by a positive number keeps the order of numbers.
LEMMA Times ==
  ASSUME NEW a \in Nat, NEW b \in Nat, NEW c \in Positive
  PROVE  /\ a * c \in Nat /\ b * c \in Nat
         /\ a > b <=> a * c > b * c
         /\ a = b <=> a * c = b * c
<1>1. ASSUME NEW x \in Nat, NEW y \in Nat, x > y PROVE x * c > y * c
  <2>1. (x - y) * c > 0
    BY <1>1 DEF Positive
  <2>2. (x - y) * c = x * c - y * c
    BY DEF Positive
  <2>3. x * c \in Nat /\ y * c \in Nat
    BY DEF Positive
  <2> QED
    BY <2>1, <2>2, <2>3
<1>2. a * c \in Nat /\ b * c \in Nat
  BY DEF Positive
<1> QED
  BY <1>1, <1>2

\* Fractions a/b, c/d and e/f, compared by multiplication, are ordered.
LEMMA FractionsOrdered ==
  ASSUME NEW a \in Positive, NEW b \in Positive, NEW c \in Positive,
         NEW d \in Positive, NEW e \in Positive, NEW f \in Positive
  PROVE  /\ a * d > c * b /\ c * f > e * d => a * f > e * b
         /\ a * d > c * b /\ c * f = e * d => a * f > e * b
         /\ a * d = c * b /\ c * f > e * d => a * f > e * b
         /\ a * d = c * b /\ c * f = e * d => a * f = e * b
<1> DEFINE x1 == a * d
           y1 == c * b
           x2 == c * f
           y2 == e * d
           x3 == a * f
           y3 == e * b
<1>1. /\ x1 \in Nat /\ y1 \in Nat /\ x2 \in Nat /\ y2 \in Nat /\ x3 \in Nat /\ y3 \in Nat
  BY DEF Positive
<1>2. x1 * f = x3 * d
  BY DEF Positive
<1>3. y1 * f = x2 * b
  BY DEF Positive
<1>4. y2 * b = y3 * d
  BY DEF Positive
<1> HIDE DEF x1, y1, x2, y2, x3, y3
<1>5. /\ x1 > y1 <=> x1 * f > y1 * f
      /\ x1 = y1 <=> x1 * f = y1 * f
      /\ x1 * f \in Nat /\ y1 * f \in Nat
  BY <1>1, Times
<1>6. /\ x2 > y2 <=> x2 * b > y2 * b
      /\ x2 = y2 <=> x2 * b = y2 * b
      /\ x2 * b \in Nat /\ y2 * b \in Nat
  BY <1>1, Times
<1>7. /\ x3 > y3 <=> x3 * d > y3 * d
      /\ x3 = y3 <=> x3 * d = y3 * d
      /\ x3 * d \in Nat /\ y3 * d \in Nat
  BY <1>1, Times
<1> DEFINE p == x1 * f
           q == y1 * f
           r == y2 * b
<1>8. /\ p \in Nat /\ q \in Nat /\ r \in Nat
      /\ x1 > y1 <=> p > q
      /\ x1 = y1 <=> p = q
      /\ x2 > y2 <=> q > r
      /\ x2 = y2 <=> q = r
      /\ x3 > y3 <=> p > r
      /\ x3 = y3 <=> p = r
  BY <1>2, <1>3, <1>4, <1>5, <1>6, <1>7
<1> HIDE DEF p, q, r
<1>9. /\ x1 > y1 /\ x2 > y2 => x3 > y3
      /\ x1 > y1 /\ x2 = y2 => x3 > y3
      /\ x1 = y1 /\ x2 > y2 => x3 > y3
      /\ x1 = y1 /\ x2 = y2 => x3 = y3
  BY <1>8
<1> QED
  BY <1>9 DEF x1, y1, x2, y2, x3, y3

\* What both rankings put ahead has the greater sum of reciprocals.
LEMMA GreaterSum ==
  ASSUME NEW a \in Positive, NEW b \in Positive, NEW r \in Positive, NEW q \in Positive,
         a < b
  PROVE  /\ r < q => (a + r) * (b * q) > (b + q) * (a * r)
         /\ (a + r) * b > 1 * (a * r)
<1>1. (a + r) * (b * q) = (a * b) * q + (r * q) * b
  BY DEF Positive
<1>2. (b + q) * (a * r) = (a * b) * r + (r * q) * a
  BY DEF Positive
<1>3. a * b \in Positive /\ r * q \in Positive /\ a * r \in Nat /\ b * r \in Nat
  BY DEF Positive
<1>4. b * (r * q) > a * (r * q) /\ b * (r * q) \in Nat /\ a * (r * q) \in Nat
  BY <1>3, Times DEF Positive
<1>5. b * (r * q) = (r * q) * b /\ a * (r * q) = (r * q) * a
  BY <1>3 DEF Positive
<1>6. ASSUME r < q PROVE (a + r) * (b * q) > (b + q) * (a * r)
  <2>1. q * (a * b) > r * (a * b) /\ q * (a * b) \in Nat /\ r * (a * b) \in Nat
    BY <1>3, <1>6, Times DEF Positive
  <2>2. q * (a * b) = (a * b) * q /\ r * (a * b) = (a * b) * r
    BY <1>3 DEF Positive
  <2> DEFINE u == (a * b) * q
             v == (a * b) * r
             w == (r * q) * b
             z == (r * q) * a
  <2>3. u \in Nat /\ v \in Nat /\ w \in Nat /\ z \in Nat /\ u > v /\ w > z
    BY <1>4, <1>5, <2>1, <2>2
  <2>4. (a + r) * (b * q) = u + w /\ (b + q) * (a * r) = v + z
    BY <1>1, <1>2
  <2> HIDE DEF u, v, w, z
  <2> QED
    BY <2>3, <2>4
<1>7. (a + r) * b > 1 * (a * r)
  <2>1. (a + r) * b = a * b + b * r
    BY DEF Positive
  <2>2. b * r > a * r
    BY Times DEF Positive
  <2>3. 1 * (a * r) = a * r
    BY <1>3
  <2> DEFINE u == a * b
             v == b * r
             w == a * r
  <2>4. u \in Positive /\ v \in Nat /\ w \in Nat /\ v > w
    BY <1>3, <2>2
  <2>5. (a + r) * b = u + v /\ 1 * (a * r) = w
    BY <2>1, <2>3
  <2> HIDE DEF u, v, w
  <2> QED
    BY <2>4, <2>5 DEF Positive
<1> QED
  BY <1>6, <1>7

\* The fused score is a fraction, and greater for what is ahead in both.
LEMMA FusedTyped ==
  ASSUME NEW a \in Positive, NEW D, D \subseteq Positive
  PROVE  Fused(a, D) \in [num : Positive, den : Positive]
<1>1. RankConstant + a \in Positive
  BY IndexAssumption DEF IndexAssumption, Positive
<1>2. CASE D = {}
  BY <1>1, <1>2 DEF Fused, Reciprocals, Positive
<1>3. CASE D # {}
  <2> DEFINE r == CHOOSE x \in D : TRUE
  <2>1. r \in Positive
    BY <1>3
  <2>2. Fused(a, D) = Reciprocals(<<a, r>>)
    BY <1>3 DEF Fused
  <2> HIDE DEF r
  <2>3. RankConstant + r \in Positive /\ r # 0
    BY <2>1, IndexAssumption DEF IndexAssumption, Positive
  <2> DEFINE x == RankConstant + a
             y == RankConstant + r
  <2>4. Fused(a, D) = [num |-> x + y, den |-> x * y]
    BY <2>2, <2>3 DEF Reciprocals
  <2>5. x \in Positive /\ y \in Positive
    BY <1>1, <2>3
  <2> HIDE DEF x, y
  <2>6. x + y \in Positive /\ x * y \in Positive
    BY <2>5 DEF Positive
  <2> QED
    BY <2>4, <2>6
<1> QED
  BY <1>2, <1>3

\* Reciprocal rank fusion: ahead in both rankings, ahead in their fusion, whether
\* or not the second ranking has the other one at all.
LEMMA FusedAgrees ==
  ASSUME NEW a \in Positive, NEW b \in Positive, a < b,
         NEW r \in Positive, NEW E, E \subseteq Positive, \A q \in E : r < q
  PROVE  Fused(a, {r}).num * Fused(b, E).den > Fused(b, E).num * Fused(a, {r}).den
<1> DEFINE x == RankConstant + a
           y == RankConstant + b
           u == RankConstant + r
<1>1. x \in Positive /\ y \in Positive /\ u \in Positive /\ x < y /\ r # 0
  BY IndexAssumption DEF IndexAssumption, Positive
<1>2. Fused(a, {r}) = [num |-> x + u, den |-> x * u]
  <2>1. {r} # {} /\ (CHOOSE z \in {r} : TRUE) = r
    OBVIOUS
  <2>2. Fused(a, {r}) = Reciprocals(<<a, r>>)
    BY <2>1 DEF Fused
  <2> QED
    BY <1>1, <2>2 DEF Reciprocals
<1>3. CASE E = {}
  <2>1. Fused(b, E) = [num |-> 1, den |-> y]
    BY <1>3 DEF Fused, Reciprocals
  <2> HIDE DEF x, y, u
  <2>2. (x + u) * y > 1 * (x * u)
    BY <1>1, GreaterSum
  <2> QED
    BY <1>2, <2>1, <2>2
<1>4. CASE E # {}
  <2> DEFINE q == CHOOSE z \in E : TRUE
             v == RankConstant + q
  <2>1. q \in E
    BY <1>4
  <2>2. Fused(b, E) = Reciprocals(<<b, q>>)
    BY <1>4 DEF Fused
  <2> HIDE DEF q
  <2>3. q \in Positive /\ r < q /\ q # 0
    BY <2>1 DEF Positive
  <2>4. Fused(b, E) = [num |-> y + v, den |-> y * v]
    BY <2>2, <2>3 DEF Reciprocals
  <2>5. v \in Positive /\ u < v
    BY <2>3, IndexAssumption DEF IndexAssumption, Positive
  <2> HIDE DEF x, y, u, v
  <2>6. (x + u) * (y * v) > (y + v) * (x * u)
    BY <1>1, <2>5, GreaterSum
  <2> QED
    BY <1>2, <2>4, <2>6
<1> QED
  BY <1>3, <1>4

-----------------------------------------------------------------------------
(* Reading the index                                                       *)

SortKey == [fused : [num : Positive, den : Positive], lexical : Int, cosine : Int, at : Nat]

\* The final sort is a strict order, total on keys of different records.
LEMMA BeforeTotal ==
  ASSUME NEW k \in SortKey, NEW l \in SortKey, k.at # l.at
  PROVE  Before(k, l) \/ Before(l, k)
<1>1. /\ k.fused.num * l.fused.den \in Nat /\ l.fused.num * k.fused.den \in Nat
      /\ k.lexical \in Int /\ l.lexical \in Int /\ k.cosine \in Int /\ l.cosine \in Int
      /\ k.at \in Nat /\ l.at \in Nat
  BY DEF SortKey, Positive
<1> QED
  BY <1>1 DEF Before

\* The final sort puts nothing before itself.
LEMMA BeforeIrreflexive == \A k \in SortKey : ~Before(k, k)
<1> SUFFICES ASSUME NEW k \in SortKey PROVE ~Before(k, k)
  OBVIOUS
<1>1. /\ k.fused.num * k.fused.den \in Nat
      /\ k.lexical \in Int /\ k.cosine \in Int /\ k.at \in Nat
  BY DEF SortKey, Positive
<1> QED
  BY <1>1 DEF Before

\* And what comes before something comes before all that follows it.
LEMMA BeforeTransitive ==
  ASSUME NEW k \in SortKey, NEW l \in SortKey, NEW m \in SortKey, Before(k, l), Before(l, m)
  PROVE  Before(k, m)
<1> DEFINE a  == k.fused.num
           b  == k.fused.den
           c  == l.fused.num
           d  == l.fused.den
           e  == m.fused.num
           f  == m.fused.den
           x1 == a * d
           y1 == c * b
           x2 == c * f
           y2 == e * d
           x3 == a * f
           y3 == e * b
<1>1. /\ a \in Positive /\ b \in Positive /\ c \in Positive
      /\ d \in Positive /\ e \in Positive /\ f \in Positive
  BY DEF SortKey
<1>2. /\ x1 > y1 /\ x2 > y2 => x3 > y3
      /\ x1 > y1 /\ x2 = y2 => x3 > y3
      /\ x1 = y1 /\ x2 > y2 => x3 > y3
      /\ x1 = y1 /\ x2 = y2 => x3 = y3
  <2> HIDE DEF a, b, c, d, e, f
  <2> QED
    BY <1>1, FractionsOrdered
<1>3. /\ k.lexical \in Int /\ l.lexical \in Int /\ m.lexical \in Int
      /\ k.cosine \in Int /\ l.cosine \in Int /\ m.cosine \in Int
      /\ k.at \in Nat /\ l.at \in Nat /\ m.at \in Nat
  BY DEF SortKey
<1>4. \/ x1 > y1
      \/ x1 = y1 /\ k.lexical > l.lexical
      \/ x1 = y1 /\ k.lexical = l.lexical /\ k.cosine > l.cosine
      \/ x1 = y1 /\ k.lexical = l.lexical /\ k.cosine = l.cosine /\ k.at < l.at
  BY DEF Before
<1>5. \/ x2 > y2
      \/ x2 = y2 /\ l.lexical > m.lexical
      \/ x2 = y2 /\ l.lexical = m.lexical /\ l.cosine > m.cosine
      \/ x2 = y2 /\ l.lexical = m.lexical /\ l.cosine = m.cosine /\ l.at < m.at
  BY DEF Before
<1>6. \/ x3 > y3
      \/ x3 = y3 /\ k.lexical > m.lexical
      \/ x3 = y3 /\ k.lexical = m.lexical /\ k.cosine > m.cosine
      \/ x3 = y3 /\ k.lexical = m.lexical /\ k.cosine = m.cosine /\ k.at < m.at
  <2> HIDE DEF x1, x2, x3, y1, y2, y3
  <2> QED
    BY <1>2, <1>3, <1>4, <1>5
<1> QED
  BY <1>6 DEF Before

\* The nearest chunks: no two of one id.
Ranking == [chunk : Chunk, score : Scores]

Nearest(dense) ==
  /\ dense \in Seq(Ranking)
  /\ \A q, r \in DOMAIN dense : SameId(dense[q].chunk, dense[r].chunk) => q = r

\* What a query of the collection returns has each chunk once.
LEMMA NearestTyped ==
  ASSUME NEW c \in Courses, IndexInv, NEW n \in Nat,
         NEW dense \in NearestOf(index[c], n) \cup {<<>>}
  PROVE  Nearest(dense)
<1>1. CASE dense = <<>>
  BY <1>1 DEF Nearest
<1>2. CASE dense \in NearestOf(index[c], n)
  <2> DEFINE chunks == index[c]
             m == IF n < Len(chunks) THEN n ELSE Len(chunks)
             found == {[chunk |-> chunks[i], score |-> s] : i \in DOMAIN chunks, s \in Scores}
  <2>1. chunks \in Seq(Chunk) /\ Distinct(chunks)
    BY DEF IndexInv, Shape, Orderly
  <2>2. m \in Nat
    BY <2>1
  <2>3. /\ dense \in [1..m -> found]
        /\ \A i, j \in 1..m : i < j => dense[i].chunk # dense[j].chunk
    BY <1>2 DEF NearestOf
  <2>4. \A x \in found : x \in Ranking /\ \E i \in DOMAIN chunks : x.chunk = chunks[i]
    BY <2>1 DEF Ranking
  <2> HIDE DEF chunks, m, found
  <2>5. dense \in Seq(Ranking) /\ DOMAIN dense = 1..m
    BY <2>2, <2>3, <2>4
  <2>6. ASSUME NEW q \in 1..m, NEW r \in 1..m, SameId(dense[q].chunk, dense[r].chunk)
        PROVE  q = r
    <3>1. PICK i \in DOMAIN chunks : dense[q].chunk = chunks[i]
      BY <2>3, <2>4
    <3>2. PICK j \in DOMAIN chunks : dense[r].chunk = chunks[j]
      BY <2>3, <2>4
    <3>3. i = j
      BY <2>1, <2>6, <3>1, <3>2 DEF Distinct
    <3> QED
      BY <2>2, <2>3, <3>1, <3>2, <3>3
  <2> QED
    BY <2>5, <2>6 DEF Nearest
<1> QED
  BY <1>1, <1>2

\* The place of a record by BM25 is a number from 1.
LEMMA LexicalRankTyped ==
  ASSUME NEW n \in Nat, NEW lexical \in [1..n -> Scores], NEW i \in 1..n
  PROVE  LexicalRank(lexical, i) \in Positive
<1> DEFINE S == {j \in DOMAIN lexical :
                   lexical[j] > lexical[i] \/ (lexical[j] = lexical[i] /\ j < i)}
<1>1. S \in SUBSET (1..n) /\ IsFiniteSet(1..n)
  BY FS_Interval
<1> HIDE DEF S
<1>2. Cardinality(S) \in Nat
  BY <1>1, FS_Subset, FS_CardinalityType
<1>3. LexicalRank(lexical, i) = 1 + Cardinality(S)
  BY DEF LexicalRank, S
<1> QED
  BY <1>2, <1>3 DEF Positive

\* Every record has a sort key, which says where the record is.
LEMMA KeysTyped ==
  ASSUME NEW records \in Seq(Chunk), NEW lexical \in [1..Len(records) -> Scores],
         NEW dense, Nearest(dense)
  PROVE  \A i \in 1..Len(records) :
           Keys(records, lexical, dense)[i] \in SortKey /\ Keys(records, lexical, dense)[i].at = i
<1> SUFFICES ASSUME NEW i \in 1..Len(records)
             PROVE  /\ Keys(records, lexical, dense)[i] \in SortKey
                    /\ Keys(records, lexical, dense)[i].at = i
  OBVIOUS
<1>1. DOMAIN records = 1..Len(records) /\ Len(records) \in Nat /\ i \in Nat
  BY LenProperties
<1> DEFINE a == LexicalRank(lexical, i)
           D == DenseRank(dense, records[i])
<1>2. a \in Positive
  BY <1>1, LexicalRankTyped
<1>3. D \subseteq Positive /\ D \subseteq DOMAIN dense
  BY DEF DenseRank, Nearest, Positive
<1>4. Cosine(dense, records[i]) \in Int
  <2>1. ASSUME NEW r \in D PROVE dense[r].score \in Int
    <3>1. dense[r] \in Ranking
      BY <1>3, ElementOfSeq DEF Nearest
    <3> QED
      BY <3>1, IndexAssumption DEF IndexAssumption, Ranking
  <2>2. Cosine(dense, records[i]) = IF D = {} THEN 0 ELSE dense[CHOOSE r \in D : TRUE].score
    BY DEF Cosine
  <2> HIDE DEF D
  <2> QED
    BY <2>1, <2>2
<1>5. Fused(a, D) \in [num : Positive, den : Positive]
  <2> HIDE DEF a, D
  <2> QED
    BY <1>2, <1>3, FusedTyped
<1>6. Keys(records, lexical, dense)[i] =
        [fused |-> Fused(a, D), lexical |-> lexical[i],
         cosine |-> Cosine(dense, records[i]), at |-> i]
  BY <1>1 DEF Keys
<1>7. lexical[i] \in Int
  BY IndexAssumption DEF IndexAssumption
<1> HIDE DEF a, D
<1> QED
  BY <1>1, <1>4, <1>5, <1>6, <1>7 DEF SortKey

\* What is returned is the front of the records in the final order.
LEMMA SelectedIs ==
  ASSUME NEW records \in Seq(Chunk), NEW lexical \in [1..Len(records) -> Scores],
         NEW dense, Nearest(dense)
  PROVE  LET keys == Keys(records, lexical, dense)
             N    == Len(records) IN
         \E at \in [1..N -> 1..N] :
           /\ \A i \in 1..N : \E n \in 1..N : at[n] = i
           /\ \A m, n \in 1..N : m < n => Before(keys[at[m]], keys[at[n]])
           /\ Selected(records, lexical, dense) =
                [i \in 1..(IF TopK < N THEN TopK ELSE N) |-> at[i]]
<1> DEFINE keys == Keys(records, lexical, dense)
           N    == Len(records)
           top  == IF TopK < N THEN TopK ELSE N
           S    == 1..N
           R    == {e \in S \X S : Before(keys[e[1]], keys[e[2]])}
<1>a. N \in Nat /\ DOMAIN records = S
  BY LenProperties
<1>b. IsFiniteSet(S) /\ Cardinality(S) = N
  BY <1>a, UpTo
<1>1. /\ N \in Nat /\ DOMAIN records = S /\ IsFiniteSet(S) /\ Cardinality(S) = N
  BY <1>a, <1>b
<1>2. \A i \in S : keys[i] \in SortKey /\ keys[i].at = i
  BY KeysTyped
<1>3. \A i, j \in S : <<i, j>> \in R <=> Before(keys[i], keys[j])
  OBVIOUS
<1>4. Orders(R, S)
  <2> HIDE DEF R, keys, S
  <2>1. \A i, j \in S : i # j => Before(keys[i], keys[j]) \/ Before(keys[j], keys[i])
    BY <1>2, BeforeTotal
  <2>2. \A i \in S : ~Before(keys[i], keys[i])
    BY <1>2, BeforeIrreflexive
  <2>3. \A i, j, k \in S : Before(keys[i], keys[j]) /\ Before(keys[j], keys[k])
                            => Before(keys[i], keys[k])
    BY <1>2, BeforeTransitive
  <2> QED
    BY <1>3, <2>1, <2>2, <2>3 DEF Orders
<1>5. \A i \in S : Preceding(R, S, i) = {j \in S : Before(keys[j], keys[i])}
  BY <1>3 DEF Preceding
<1> HIDE DEF R
<1>c. PICK at : Lines(at, R, S)
  <2> HIDE DEF S
  <2> QED
    BY <1>1, <1>4, Ranks
<1>6. /\ at \in [1..N -> S]
      /\ \A i \in S : \E n \in 1..N : at[n] = i
      /\ \A m, n \in 1..N : m < n => <<at[m], at[n]>> \in R
      /\ \A n \in 1..N : \A i \in S : Cardinality(Preceding(R, S, i)) = n - 1 <=> at[n] = i
  <2> HIDE DEF S
  <2> QED
    BY <1>1, <1>c DEF Lines
<1> DEFINE Sorted(T) == [n \in 1..Cardinality(T) |->
                          CHOOSE i \in T :
                            Cardinality({j \in T : Before(keys[j], keys[i])}) = n - 1]
           sorted    == Sorted(S)
<1>7. Selected(records, lexical, dense) = [i \in 1..top |-> sorted[i]]
  <2>1. Selected(records, lexical, dense) = [i \in 1..top |-> Sorted(DOMAIN records)[i]]
    BY DEF Selected, InOrder
  <2> HIDE DEF Sorted
  <2> QED
    BY <1>1, <2>1
<1>8. sorted = [n \in 1..N |->
                 CHOOSE i \in S : Cardinality({j \in S : Before(keys[j], keys[i])}) = n - 1]
  <2> HIDE DEF S, N, keys
  <2> QED
    BY <1>1, Zenon
<1>9. \A n \in 1..N :
        at[n] = CHOOSE i \in S : Cardinality({j \in S : Before(keys[j], keys[i])}) = n - 1
  <2> HIDE DEF S, keys
  <2> SUFFICES ASSUME NEW n \in 1..N
               PROVE  at[n] = CHOOSE i \in S :
                                Cardinality({j \in S : Before(keys[j], keys[i])}) = n - 1
    OBVIOUS
  <2>1. \A i \in S :
          Cardinality({j \in S : Before(keys[j], keys[i])}) = n - 1 <=> at[n] = i
    BY <1>5, <1>6
  <2>2. at[n] \in S
    BY <1>6
  <2> QED
    BY <2>1, <2>2
<1>10. \A n \in 1..N : sorted[n] = at[n]
  <2> HIDE DEF S, keys, sorted
  <2> QED
    BY <1>8, <1>9, Zenon
<1> HIDE DEF sorted, keys
<1>11. \A i \in 1..top : i \in 1..N
  BY <1>1, IndexAssumption DEF IndexAssumption
<1>12. Selected(records, lexical, dense) = [i \in 1..top |-> at[i]]
  BY <1>7, <1>10, <1>11
<1>13. \A m, n \in 1..N : m < n => Before(keys[at[m]], keys[at[n]])
  BY <1>3, <1>6
<1> QED
  BY <1>6, <1>12, <1>13 DEF keys

\* A question is asked of the documents there are: what was withdrawn before
\* has no chunks any more.
ReaderInv ==
  /\ reader.pc \in {"idle", "fetched", "answered"}
  /\ reader.pc \in {"fetched", "answered"} =>
       /\ reader.course \in Courses /\ reader.records \in Seq(Chunk)
       /\ \A ch \in ToSet(reader.records) : ch.doc \notin reader.gone
  /\ RankingRespected
  /\ RemovedNotCited

\* What a question reads has nothing of a document that was withdrawn.
LEMMA FetchKeeps ==
  ASSUME IndexInv, ReaderInv, NEW c \in Asked, NEW chapter \in BOOLEAN, Fetch(c, chapter)
  PROVE  ReaderInv'
<1>1. c \in Courses /\ index[c] \in Seq(Chunk) /\ Orderly(index[c], c)
  BY IndexAssumption DEF IndexAssumption, IndexInv, Shape
<1>2. CASE index[c] = <<>>
  BY <1>2 DEF Fetch, ReaderInv, RankingRespected, RemovedNotCited, NoReader
<1>3. CASE index[c] # <<>>
  <2> DEFINE records  == Records(index[c], chapter)
             matching == {i \in DOMAIN index[c] : InChapter(index[c][i])}
  <2>1. reader' = [pc |-> "fetched", course |-> c, gone |-> withdrawn, records |-> records]
    BY <1>3 DEF Fetch
  <2>2. records = Picked(index[c], matching) \/ records = index[c]
    BY DEF Records
  <2>3. /\ matching \in SUBSET DOMAIN index[c]
        /\ {index[c][i] : i \in matching} \subseteq ToSet(index[c])
    BY DEF ToSet
  <2> HIDE DEF matching, records
  <2>4. records \in Seq(Chunk) /\ ToSet(records) \subseteq ToSet(index[c])
    BY <1>1, <2>2, <2>3, PickedFrom
  <2>5. ASSUME NEW ch \in ToSet(records), ch.doc \in withdrawn PROVE FALSE
    <3>1. CourseOf[ch.doc] = c /\ ch \in ToSet(index[c])
      BY <1>1, <2>4 DEF Orderly
    <3>2. Held(ch.doc) = {}
      BY <2>5 DEF IndexInv, Gone, Cleared
    <3> QED
      BY <3>1, <3>2 DEF Held, Its
  <2> QED
    BY <1>1, <2>1, <2>4, <2>5 DEF ReaderInv, RankingRespected, RemovedNotCited
<1> QED
  BY <1>2, <1>3

\* What it returns is of what it read, and in an order both rankings allow,
\* whatever the index is by then.
LEMMA QueryKeeps ==
  ASSUME IndexInv, ReaderInv, reader.pc = "fetched",
         NEW lexical \in [1..Len(reader.records) -> Scores],
         NEW dense \in NearestOf(index[reader.course], Len(reader.records)) \cup {<<>>},
         Query(lexical, dense)
  PROVE  ReaderInv'
<1> DEFINE records == reader.records
           keys    == Keys(records, lexical, dense)
           N       == Len(records)
           top     == IF TopK < N THEN TopK ELSE N
<1>1. /\ reader.course \in Courses /\ records \in Seq(Chunk)
      /\ \A ch \in ToSet(records) : ch.doc \notin reader.gone
  BY DEF ReaderInv
<1>2. N \in Nat /\ DOMAIN records = 1..N
  BY <1>1, LenProperties
<1>3. Nearest(dense)
  BY <1>1, <1>2, NearestTyped
<1>4. PICK at \in [1..N -> 1..N] :
        /\ \A i \in 1..N : \E n \in 1..N : at[n] = i
        /\ \A m, n \in 1..N : m < n => Before(keys[at[m]], keys[at[n]])
        /\ Selected(records, lexical, dense) = [i \in 1..top |-> at[i]]
  BY <1>1, <1>3, SelectedIs
<1>5. reader' = [pc |-> "answered", course |-> reader.course, gone |-> reader.gone,
                 records |-> records, lexical |-> lexical, dense |-> dense,
                 result |-> Selected(records, lexical, dense)]
  BY DEF Query
<1>6. /\ reader'.pc = "answered" /\ reader'.course = reader.course
      /\ reader'.gone = reader.gone /\ reader'.records = records
      /\ reader'.lexical = lexical /\ reader'.dense = dense
      /\ reader'.result = [i \in 1..top |-> at[i]]
  BY <1>4, <1>5
<1>7. \A i \in 1..N : keys[i] \in SortKey /\ keys[i].at = i
  BY <1>1, <1>3, KeysTyped
<1>8. ASSUME NEW i \in 1..N, NEW j \in 1..N,
             LexicalRank(lexical, i) < LexicalRank(lexical, j),
             NEW r \in DenseRank(dense, records[i]),
             \A q \in DenseRank(dense, records[j]) : r < q
      PROVE  Before(keys[i], keys[j])
  <2> DEFINE a == LexicalRank(lexical, i)
             b == LexicalRank(lexical, j)
             D == DenseRank(dense, records[i])
             E == DenseRank(dense, records[j])
  <2>1. a \in Positive /\ b \in Positive /\ a < b
    BY <1>2, <1>8, LexicalRankTyped
  <2>2. D \subseteq Positive /\ E \subseteq Positive
    BY <1>3 DEF DenseRank, Nearest, Positive
  <2>3. D = {r}
    <3>1. ASSUME NEW q \in D PROVE q = r
      <4>1. SameId(dense[q].chunk, dense[r].chunk) /\ q \in DOMAIN dense /\ r \in DOMAIN dense
        BY <1>8 DEF DenseRank, SameId
      <4> QED
        BY <1>3, <4>1 DEF Nearest
    <3> QED
      BY <1>8, <3>1
  <2>4. /\ keys[i].fused = Fused(a, D) /\ keys[j].fused = Fused(b, E)
    BY <1>2 DEF Keys
  <2>5. \A q \in E : r < q
    BY <1>8
  <2>6. r \in Positive
    BY <2>2, <2>3
  <2> HIDE DEF a, b, D, E, keys
  <2>7. Fused(a, {r}).num * Fused(b, E).den > Fused(b, E).num * Fused(a, {r}).den
    BY <2>1, <2>2, <2>5, <2>6, FusedAgrees
  <2> QED
    BY <2>3, <2>4, <2>7 DEF Before
<1>9. ASSUME NEW i \in 1..N, NEW j \in 1..N, Before(keys[i], keys[j]),
             NEW n \in 1..top, at[n] = j
      PROVE  \E m \in 1..(n - 1) : m \in 1..top /\ at[m] = i
  <2>1. n \in 1..N /\ top <= N /\ n <= top
    BY <1>2, IndexAssumption DEF IndexAssumption
  <2>2. PICK m \in 1..N : at[m] = i
    BY <1>4
  <2> HIDE DEF keys
  <2>3. ~Before(keys[j], keys[i])
    BY <1>7, <1>9, BeforeIrreflexive, BeforeTransitive
  <2>4. i # j
    BY <1>9, <2>3
  <2>5. ~(n < m)
    BY <1>4, <1>9, <2>1, <2>2, <2>3
  <2>6. m \in Nat /\ n \in Nat /\ 1 <= m /\ m < n /\ m # n
    BY <1>2, <1>9, <2>1, <2>2, <2>4, <2>5
  <2>7. m \in 1..(n - 1) /\ m \in 1..top
    BY <1>2, <2>1, <2>6, IndexAssumption DEF IndexAssumption
  <2> HIDE DEF top
  <2> QED
    BY <2>2, <2>7
<1>10. RankingRespected'
  <2> SUFFICES ASSUME NEW i \in DOMAIN reader'.records, NEW j \in DOMAIN reader'.records,
                      Ahead(i, j)',
                      NEW n \in DOMAIN reader'.result, reader'.result[n] = j
               PROVE  \E m \in 1..(n - 1) : reader'.result[m] = i
    BY DEF RankingRespected
  <2>1. i \in 1..N /\ j \in 1..N /\ n \in 1..top /\ at[n] = j
    BY <1>2, <1>6
  <2>2. /\ LexicalRank(lexical, i) < LexicalRank(lexical, j)
        /\ \E r \in DenseRank(dense, records[i]) :
             \A q \in DenseRank(dense, records[j]) : r < q
    BY <1>6 DEF Ahead
  <2>3. Before(keys[i], keys[j])
    BY <1>8, <2>1, <2>2
  <2> HIDE DEF keys, top
  <2>4. PICK m \in 1..(n - 1) : m \in 1..top /\ at[m] = i
    BY <1>9, <2>1, <2>3
  <2> QED
    BY <1>6, <2>4
<1>11. RemovedNotCited'
  <2> SUFFICES ASSUME NEW n \in DOMAIN reader'.result
               PROVE  reader'.records[reader'.result[n]].doc \notin reader'.gone
    BY DEF RemovedNotCited
  <2>1. n \in 1..top /\ n \in 1..N
    BY <1>2, <1>6, IndexAssumption DEF IndexAssumption
  <2>2. reader'.result[n] \in DOMAIN records
    BY <1>2, <1>4, <1>6, <2>1
  <2>3. records[reader'.result[n]] \in ToSet(records)
    BY <2>2 DEF ToSet
  <2> QED
    BY <1>1, <1>6, <2>3
<1> QED
  BY <1>1, <1>6, <1>10, <1>11 DEF ReaderInv

\* No step of a question breaks what holds of it.
LEMMA ReadKeeps == IndexInv /\ ReaderInv /\ Read => ReaderInv'
<1> SUFFICES ASSUME IndexInv, ReaderInv, Read PROVE ReaderInv'
  OBVIOUS
<1>1. ASSUME NEW c \in Asked, NEW chapter \in BOOLEAN, Fetch(c, chapter) PROVE ReaderInv'
  BY <1>1, FetchKeeps
<1>2. ASSUME reader.pc = "fetched",
             NEW dense \in NearestOf(index[reader.course], Len(reader.records)) \cup {<<>>},
             NEW lexical \in [1..Len(reader.records) -> Scores], Query(lexical, dense)
      PROVE  ReaderInv'
  BY <1>2, QueryKeeps
<1>3. CASE Answered
  BY <1>3 DEF Answered, NoReader, ReaderInv, RankingRespected, RemovedNotCited
<1> QED
  BY <1>1, <1>2, <1>3 DEF Read

\* A step of something else leaves the question as it is.
LEMMA ReaderStays == ReaderInv /\ UNCHANGED reader => ReaderInv'
<1> SUFFICES ASSUME ReaderInv, UNCHANGED reader PROVE ReaderInv'
  OBVIOUS
<1>1. \A i, j : Ahead(i, j)' <=> Ahead(i, j)
  BY DEF Ahead
<1> QED
  BY <1>1 DEF ReaderInv, RankingRespected, RemovedNotCited
=============================================================================
