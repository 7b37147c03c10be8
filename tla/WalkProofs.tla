----------------------------- MODULE WalkProofs -----------------------------
(***************************************************************************)
(* Proofs about the walks of ElementHeap: what Met, Reach and Places find, *)
(* for every finite heap.  Recursion is by functions on an interval of     *)
(* numbers.  That such a function exists is a lemma for each, and what     *)
(* holds of all its values follows by induction over the interval.         *)
(***************************************************************************)
EXTENDS ElementHeap, FiniteSetTheorems, SequenceTheorems, WellFoundedInduction, TLAPS

\* A key at the end of a path can be told from the path.
LEMMA AppendOnce ==
  ASSUME NEW X, NEW s \in Seq(X), NEW t \in Seq(X), NEW a \in X, NEW b \in X,
         Append(s, a) = Append(t, b)
  PROVE  s = t /\ a = b
OBVIOUS

\* What Append and Front do to paths.
LEMMA AppendFacts ==
  ASSUME NEW X, NEW s \in Seq(X), NEW a \in X
  PROVE  /\ Append(s, a) \in Seq(X) /\ Append(s, a) # <<>>
         /\ Len(Append(s, a)) = Len(s) + 1
         /\ Front(Append(s, a)) = s /\ Last(Append(s, a)) = a
BY DEF Front, Last

\* A key added to a path that goes on from another.
LEMMA AppendConcat ==
  \A X : \A p \in Seq(X) : \A path \in Seq(X) : \A k \in X :
    Append(p \o path, k) = p \o Append(path, k)
OBVIOUS

\* A path that is not empty is its front and its last key.
LEMMA AppendToFront ==
  ASSUME NEW X, NEW s \in Seq(X), s # <<>>
  PROVE  /\ Front(s) \in Seq(X) /\ Last(s) \in X
         /\ Append(Front(s), Last(s)) = s
         /\ Len(Front(s)) = Len(s) - 1
<1>1. PICK t \in Seq(X), a \in X : s = Append(t, a)
  BY SequenceEmptyOrAppend
<1>2. Front(s) = t /\ Last(s) = a
  BY <1>1 DEF Front, Last
<1> QED
  BY <1>1, <1>2

\* Induction over the numbers, for a set of them.
LEMMA NatSetInduction ==
  ASSUME NEW S, 0 \in S, \A n \in Nat : n \in S => n + 1 \in S
  PROVE  Nat \subseteq S
<1> DEFINE T == {n \in Nat : n \notin S}
<1>1. SUFFICES ASSUME T # {} PROVE FALSE
  OBVIOUS
<1>2. T \subseteq Nat
  OBVIOUS
<1>3. PICK x \in T : \A y \in T : <<y, x>> \notin OpToRel(<, Nat)
  <2> HIDE DEF T
  <2> QED BY <1>1, <1>2, WFMin, NatLessThanWellFounded
<1>4. x \in Nat /\ x # 0 /\ x - 1 \in Nat /\ x - 1 < x
  OBVIOUS
<1>5. <<x - 1, x>> \in OpToRel(<, Nat)
  BY <1>4 DEF OpToRel
<1>6. x - 1 \in S
  BY <1>3, <1>4, <1>5
<1> QED
  BY <1>4, <1>6

\* The equation of the recursion in Met has a solution.
LEMMA MetExists ==
  ASSUME NEW heap, NEW start
  PROVE  \A n \in Nat : \E f :
           f = [i \in 0..n |-> IF i = 0 THEN start ELSE Onward(heap, f[i - 1])]
<1> DEFINE Upto(f, n) == f = [i \in 0..n |-> IF i = 0 THEN start ELSE Onward(heap, f[i - 1])]
           S == {n \in Nat : \E f : Upto(f, n)}
<1>1. 0 \in S
  <2>1. Upto([i \in 0..0 |-> start], 0)
    OBVIOUS
  <2> QED BY <2>1
<1>2. \A n \in Nat : n \in S => n + 1 \in S
  <2> SUFFICES ASSUME NEW n \in Nat, NEW f, Upto(f, n) PROVE \E g : Upto(g, n + 1)
    OBVIOUS
  <2> DEFINE g == [i \in 0..(n + 1) |-> IF i = n + 1 THEN Onward(heap, f[n]) ELSE f[i]]
  <2>1. \A i \in 0..(n + 1) : g[i] = IF i = 0 THEN start ELSE Onward(heap, g[i - 1])
    OBVIOUS
  <2>2. Upto(g, n + 1)
    BY <2>1
  <2> QED BY <2>2
<1> HIDE DEF S
<1>3. Nat \subseteq S
  BY <1>1, <1>2, NatSetInduction
<1> QED
  BY <1>3 DEF S

\* What holds of start, and of the next places if it holds of some, holds of Met.
LEMMA MetInduction ==
  ASSUME NEW heap, NEW start, IsFiniteSet(DOMAIN heap),
         NEW S, start \in S[0], \A n \in Nat : \A m \in S[n] : Onward(heap, m) \in S[n + 1]
  PROVE  Met(heap, start) \in S[Cardinality(DOMAIN heap)]
<1> DEFINE N == Cardinality(DOMAIN heap)
           F(f) == f = [i \in 0..N |-> IF i = 0 THEN start ELSE Onward(heap, f[i - 1])]
           met == CHOOSE f : F(f)
           I == {n \in Nat : n \in 0..N => met[n] \in S[n]}
<1>1. N \in Nat
  BY FS_CardinalityType
<1>2. F(met)
  BY <1>1, MetExists
<1> HIDE DEF met
<1>3. 0 \in I
  BY <1>2, <1>1
<1>4. \A n \in Nat : n \in I => n + 1 \in I
  BY <1>1, <1>2
<1> HIDE DEF I
<1>5. Nat \subseteq I
  BY <1>3, <1>4, NatSetInduction
<1>6. met[N] \in S[N]
  BY <1>5, <1>1 DEF I
<1> QED
  BY <1>6 DEF met, Met

\* Going on from the places in m leads to properties that exist.
LEMMA OnwardType ==
  ASSUME NEW heap, NEW X, Linked(heap, X), NEW m \in SUBSET (Seq(X) \X DOMAIN heap)
  PROVE  Onward(heap, m) \in SUBSET (Seq(X) \X DOMAIN heap)
<1> SUFFICES ASSUME NEW at \in m, NEW key \in DOMAIN heap[at[2]].children
             PROVE  <<Append(at[1], key), heap[at[2]].children[key]>> \in Seq(X) \X DOMAIN heap
  BY DEF Onward, Below
<1>1. at[1] \in Seq(X) /\ at[2] \in DOMAIN heap
  OBVIOUS
<1>2. key \in X /\ heap[at[2]].children[key] \in DOMAIN heap
  BY <1>1 DEF Linked
<1>3. Append(at[1], key) \in Seq(X)
  BY <1>1, <1>2
<1> QED
  BY <1>2, <1>3

\* Either there is nothing left to meet, or something new has been met at each step.
LEMMA MetClosed ==
  ASSUME NEW heap, NEW X, Linked(heap, X), IsFiniteSet(DOMAIN heap),
         NEW start \in SUBSET (Seq(X) \X DOMAIN heap)
  PROVE  Onward(heap, Met(heap, start)) = Met(heap, start)
<1> DEFINE U == SUBSET (Seq(X) \X DOMAIN heap)
           N == Cardinality(DOMAIN heap)
           S == [n \in Nat |-> {m \in U : Onward(heap, m) = m \/ Cardinality(Ends(m)) >= n}]
<1>1. \A m \in U : /\ Ends(m) \subseteq DOMAIN heap
                   /\ IsFiniteSet(Ends(m))
                   /\ Cardinality(Ends(m)) \in Nat
                   /\ Cardinality(Ends(m)) <= N
                   /\ Cardinality(Ends(m)) = N => Ends(m) = DOMAIN heap
  <2> SUFFICES ASSUME NEW m \in U
               PROVE  /\ Ends(m) \subseteq DOMAIN heap
                      /\ IsFiniteSet(Ends(m))
                      /\ Cardinality(Ends(m)) \in Nat
                      /\ Cardinality(Ends(m)) <= N
                      /\ Cardinality(Ends(m)) = N => Ends(m) = DOMAIN heap
    OBVIOUS
  <2>1. Ends(m) \subseteq DOMAIN heap
    BY DEF Ends
  <2> QED
    BY <2>1, FS_Subset, FS_CardinalityType
<1>2. start \in S[0]
  BY <1>1
<1>3. \A n \in Nat : \A m \in S[n] : Onward(heap, m) \in S[n + 1]
  <2> SUFFICES ASSUME NEW n \in Nat, NEW m \in S[n]
               PROVE  Onward(heap, m) \in S[n + 1]
    OBVIOUS
  <2>1. Onward(heap, m) \in U
    BY OnwardType
  <2>2. CASE Onward(heap, m) = m
    BY <2>2
  <2>3. CASE Onward(heap, m) # m
    <3>1. PICK next \in Onward(heap, m) : next[2] \notin Ends(m)
      BY <2>3 DEF Onward
    <3>2. Ends(m) \subseteq Ends(Onward(heap, m)) /\ next[2] \in Ends(Onward(heap, m))
      BY <3>1 DEF Ends, Onward
    <3>3. Cardinality(Ends(m)) < Cardinality(Ends(Onward(heap, m)))
      BY <2>1, <1>1, <3>1, <3>2, FS_Subset
    <3> QED
      BY <2>1, <2>3, <3>3, <1>1
  <2> QED
    BY <2>2, <2>3
<1>4. N \in Nat
  BY FS_CardinalityType
<1> DEFINE M == Met(heap, start)
<1>5. M \in S[N]
  BY <1>2, <1>3, MetInduction
<1>6. CASE Cardinality(Ends(M)) >= N
  <2>1. Ends(M) = DOMAIN heap
    BY <1>1, <1>4, <1>5, <1>6
  <2>2. Onward(heap, M) \in U
    BY <1>5, <1>4, OnwardType
  <2> QED
    BY <2>1, <2>2 DEF Onward
<1> QED
  BY <1>4, <1>5, <1>6

\* Every place that Met finds is a start or goes on from another, and every child
\* of a property that has been met has been met.
LEMMA MetFacts ==
  ASSUME NEW heap, NEW X, Linked(heap, X), IsFiniteSet(DOMAIN heap),
         NEW start \in SUBSET (Seq(X) \X DOMAIN heap)
  PROVE  /\ Met(heap, start) \in SUBSET (Seq(X) \X DOMAIN heap)
         /\ start \subseteq Met(heap, start)
         /\ \A place \in Met(heap, start) :
              \/ place \in start
              \/ /\ place[2] \notin Ends(start)
                 /\ \E at \in Met(heap, start) : place \in Below(heap, at)
         /\ \A at \in Met(heap, start) : \A place \in Below(heap, at) :
              place[2] \in Ends(Met(heap, start))
<1> DEFINE U == SUBSET (Seq(X) \X DOMAIN heap)
           N == Cardinality(DOMAIN heap)
           From(m, place) == \/ place \in start
                             \/ /\ place[2] \notin Ends(start)
                                /\ \E at \in m : place \in Below(heap, at)
           G == {m \in U : start \subseteq m /\ \A place \in m : From(m, place)}
           S == [n \in Nat |-> G]
           M == Met(heap, start)
<1>1. start \in S[0]
  OBVIOUS
<1>2. \A m \in G : Onward(heap, m) \in G
  <2> SUFFICES ASSUME NEW m \in G
               PROVE  Onward(heap, m) \in G
    OBVIOUS
  <2>1. Onward(heap, m) \in U
    BY OnwardType
  <2>2. m \subseteq Onward(heap, m)
    BY DEF Onward
  <2>3. ASSUME NEW place \in Onward(heap, m)
        PROVE  From(Onward(heap, m), place)
    <3>1. CASE place \in m
      BY <3>1, <2>2
    <3>2. CASE place \notin m
      <4>1. place[2] \notin Ends(m) /\ \E at \in m : place \in Below(heap, at)
        BY <3>2 DEF Onward
      <4>2. place[2] \notin Ends(start)
        BY <4>1 DEF Ends
      <4> QED
        BY <4>1, <4>2, <2>2
    <3> QED
      BY <3>1, <3>2
  <2> QED
    BY <2>1, <2>2, <2>3
<1>3. N \in Nat
  BY FS_CardinalityType
<1>4. M \in S[N]
  <2> HIDE DEF G
  <2>1. \A n \in Nat : \A m \in S[n] : Onward(heap, m) \in S[n + 1]
    BY <1>2
  <2> QED
    BY <1>1, <2>1, MetInduction
<1>5. M \in G
  BY <1>3, <1>4
<1>6. ASSUME NEW at \in M, NEW place \in Below(heap, at)
      PROVE  place[2] \in Ends(M)
  <2>1. Onward(heap, M) = M
    BY MetClosed
  <2>2. CASE place[2] \notin Ends(M)
    <3>1. place \in M
      BY <2>1, <2>2 DEF Onward
    <3> QED
      BY <3>1 DEF Ends
  <2> QED
    BY <2>2
<1> QED
  BY <1>5, <1>6

\* Each place has one property, and each property one place; a place of several
\* keys goes on from another.
Once(m) == \A x, y \in m : x[1] = y[1] <=> x[2] = y[2]

Known(heap, m) ==
  \A x \in m : x[1] # <<>> /\ (Len(x[1]) = 1 \/ \E at \in m : x \in Below(heap, at))

\* The places below another are one key longer.
LEMMA BelowFacts ==
  ASSUME NEW heap, NEW X, Linked(heap, X), NEW at \in Seq(X) \X DOMAIN heap,
         NEW x \in Below(heap, at)
  PROVE  /\ x \in Seq(X) \X DOMAIN heap
         /\ Len(x[1]) = Len(at[1]) + 1
         /\ \E key \in DOMAIN heap[at[2]].children :
              key \in X /\ x[1] = Append(at[1], key) /\ x[2] = heap[at[2]].children[key]
<1>1. PICK key \in DOMAIN heap[at[2]].children :
        x = <<Append(at[1], key), heap[at[2]].children[key]>>
  BY DEF Below
<1>2. at[1] \in Seq(X) /\ at[2] \in DOMAIN heap
  OBVIOUS
<1>3. key \in X /\ heap[at[2]].children[key] \in DOMAIN heap
  BY <1>2 DEF Linked
<1>4. Append(at[1], key) \in Seq(X) /\ Len(Append(at[1], key)) = Len(at[1]) + 1
  BY <1>2, <1>3
<1> QED
  BY <1>1, <1>3, <1>4

\* Where no property is held twice, two places are below each other's properties
\* only if they are the same.
LEMMA BelowOnce ==
  ASSUME NEW heap, NEW X, Linked(heap, X), HeldOnce(heap),
         NEW at \in Seq(X) \X DOMAIN heap, NEW b \in Seq(X) \X DOMAIN heap,
         at[1] = b[1] <=> at[2] = b[2],
         NEW x \in Below(heap, at), NEW y \in Below(heap, b)
  PROVE  x[1] = y[1] <=> x[2] = y[2]
<1>3. /\ at[1] \in Seq(X) /\ b[1] \in Seq(X)
      /\ at[2] \in DOMAIN heap /\ b[2] \in DOMAIN heap
  OBVIOUS
<1>1. PICK k \in DOMAIN heap[at[2]].children :
        k \in X /\ x[1] = Append(at[1], k) /\ x[2] = heap[at[2]].children[k]
  BY BelowFacts
<1>2. PICK l \in DOMAIN heap[b[2]].children :
        l \in X /\ y[1] = Append(b[1], l) /\ y[2] = heap[b[2]].children[l]
  BY BelowFacts
<1>4. ASSUME x[1] = y[1]
      PROVE  at[1] = b[1] /\ k = l
  <2>1. Append(at[1], k) = Append(b[1], l) /\ k \in X /\ l \in X
    BY <1>1, <1>2, <1>4
  <2> QED
    BY <2>1, <1>3, AppendOnce
<1>5. ASSUME x[2] = y[2]
      PROVE  at[2] = b[2] /\ k = l
  <2>1. heap[at[2]].children[k] = heap[b[2]].children[l]
    BY <1>1, <1>2, <1>5
  <2>2. k \in DOMAIN heap[at[2]].children /\ l \in DOMAIN heap[b[2]].children
    OBVIOUS
  <2> QED
    BY <2>1, <2>2, <1>3 DEF HeldOnce
<1> QED
  BY <1>1, <1>2, <1>4, <1>5

\* Going on keeps one place for each property.
LEMMA OnwardOnce ==
  ASSUME NEW heap, NEW X, Linked(heap, X), HeldOnce(heap),
         NEW m \in SUBSET (Seq(X) \X DOMAIN heap), Once(m), Known(heap, m)
  PROVE  Once(Onward(heap, m)) /\ Known(heap, Onward(heap, m))
<1> DEFINE IsNew(x) == x[2] \notin Ends(m) /\ \E at \in m : x \in Below(heap, at)
<1>1. m \subseteq Onward(heap, m) /\ \A x \in Onward(heap, m) : x \in m \/ IsNew(x)
  BY DEF Onward
<1>2. ASSUME NEW x, IsNew(x)
      PROVE  Len(x[1]) > 1 /\ x[1] # <<>>
  <2>1. PICK at \in m : x \in Below(heap, at)
    BY <1>2
  <2>2. at[1] \in Seq(X) /\ at[1] # <<>>
    BY DEF Known
  <2>3. Len(x[1]) = Len(at[1]) + 1 /\ x[1] \in Seq(X)
    BY <2>1, BelowFacts
  <2> QED
    BY <2>2, <2>3
<1>3. ASSUME NEW x, NEW y \in m, IsNew(x)
      PROVE  x[1] # y[1] /\ x[2] # y[2]
  <2>1. PICK at \in m : x \in Below(heap, at)
    BY <1>3
  <2>2. x[2] # y[2]
    BY <1>3 DEF Ends
  <2>3. CASE Len(y[1]) = 1
    BY <2>2, <2>3, <1>2, <1>3
  <2>4. CASE Len(y[1]) # 1
    <3>1. PICK b \in m : y \in Below(heap, b)
      BY <2>4 DEF Known
    <3>2. at[1] = b[1] <=> at[2] = b[2]
      BY DEF Once
    <3> QED
      BY <2>1, <2>2, <3>1, <3>2, BelowOnce
  <2> QED
    BY <2>3, <2>4
<1>4. ASSUME NEW x, NEW y, IsNew(x), IsNew(y)
      PROVE  x[1] = y[1] <=> x[2] = y[2]
  <2>1. PICK at \in m : x \in Below(heap, at)
    BY <1>4
  <2>2. PICK b \in m : y \in Below(heap, b)
    BY <1>4
  <2>3. at[1] = b[1] <=> at[2] = b[2]
    BY DEF Once
  <2> QED
    BY <2>1, <2>2, <2>3, BelowOnce
<1>5. Once(Onward(heap, m))
  <2> SUFFICES ASSUME NEW x \in Onward(heap, m), NEW y \in Onward(heap, m)
               PROVE  x[1] = y[1] <=> x[2] = y[2]
    BY DEF Once
  <2>1. CASE x \in m /\ y \in m
    BY <2>1 DEF Once
  <2>2. CASE x \in m /\ IsNew(y)
    BY <2>2, <1>3
  <2>3. CASE IsNew(x) /\ y \in m
    BY <2>3, <1>3
  <2>4. CASE IsNew(x) /\ IsNew(y)
    BY <2>4, <1>4
  <2> QED
    BY <1>1, <2>1, <2>2, <2>3, <2>4
<1>6. Known(heap, Onward(heap, m))
  BY <1>1, <1>2 DEF Known
<1> QED
  BY <1>5, <1>6

\* Then Met has one place for each property.
LEMMA MetOnce ==
  ASSUME NEW heap, NEW X, Linked(heap, X), HeldOnce(heap), IsFiniteSet(DOMAIN heap),
         NEW start \in SUBSET (Seq(X) \X DOMAIN heap), Once(start),
         \A x \in start : Len(x[1]) = 1
  PROVE  Once(Met(heap, start))
<1> DEFINE U == SUBSET (Seq(X) \X DOMAIN heap)
           G == {m \in U : Once(m) /\ Known(heap, m)}
           S == [n \in Nat |-> G]
<1>1. start \in G
  BY DEF Known
<1>2. \A m \in G : Onward(heap, m) \in G
  BY OnwardOnce, OnwardType
<1> HIDE DEF G
<1>3. start \in S[0] /\ \A n \in Nat : \A m \in S[n] : Onward(heap, m) \in S[n + 1]
  BY <1>1, <1>2
<1>4. Cardinality(DOMAIN heap) \in Nat
  BY FS_CardinalityType
<1>5. Met(heap, start) \in G
  BY <1>3, <1>4, MetInduction
<1> QED
  BY <1>5 DEF G

\* A set of properties that has the children of its members.
Shut(heap, C) ==
  \A p \in C \cap DOMAIN heap : \A key \in DOMAIN heap[p].children : heap[p].children[key] \in C

\* Reach is the least such set that has the members of P.
LEMMA ReachFacts ==
  ASSUME NEW heap, NEW X, Linked(heap, X), IsFiniteSet(DOMAIN heap),
         NEW P \in SUBSET DOMAIN heap
  PROVE  /\ P \subseteq Reach(heap, P)
         /\ Reach(heap, P) \subseteq DOMAIN heap
         /\ Shut(heap, Reach(heap, P))
         /\ \A C : P \subseteq C /\ Shut(heap, C) => Reach(heap, P) \subseteq C
<1> DEFINE start == {<<<<>>, p>> : p \in P}
           M == Met(heap, start)
<1>0. <<>> \in Seq(X)
  BY EmptySeq
<1>1. start \in SUBSET (Seq(X) \X DOMAIN heap)
  <2>1. \A p \in P : <<<<>>, p>> \in Seq(X) \X DOMAIN heap
    BY <1>0
  <2> QED
    BY <2>1
<1>2. Ends(start) = P
  <2>1. \A p \in P : <<<<>>, p>> \in start /\ <<<<>>, p>>[2] = p
    OBVIOUS
  <2>2. \A x \in start : x[2] \in P
    OBVIOUS
  <2> HIDE DEF start
  <2> QED
    BY <2>1, <2>2 DEF Ends
<1>3. /\ M \in SUBSET (Seq(X) \X DOMAIN heap)
      /\ start \subseteq M
      /\ \A at \in M : \A place \in Below(heap, at) : place[2] \in Ends(M)
  <2> HIDE DEF start
  <2> QED
    BY <1>1, MetFacts
<1>4. Reach(heap, P) = Ends(M)
  BY DEF Reach
<1>5. P \subseteq Ends(M)
  BY <1>2, <1>3 DEF Ends
<1>6. Ends(M) \subseteq DOMAIN heap
  BY <1>3 DEF Ends
<1>7. Shut(heap, Ends(M))
  <2> SUFFICES ASSUME NEW at \in M, NEW key \in DOMAIN heap[at[2]].children
               PROVE  heap[at[2]].children[key] \in Ends(M)
    BY DEF Shut, Ends
  <2>1. <<Append(at[1], key), heap[at[2]].children[key]>> \in Below(heap, at)
    BY DEF Below
  <2> QED
    BY <2>1, <1>3
<1>8. ASSUME NEW C, P \subseteq C, Shut(heap, C)
      PROVE  Ends(M) \subseteq C
  <2> DEFINE G == {m \in SUBSET (Seq(X) \X DOMAIN heap) : Ends(m) \subseteq C}
             S == [n \in Nat |-> G]
  <2>1. start \in G
    BY <1>1, <1>2, <1>8
  <2>2. ASSUME NEW m \in G
        PROVE  Onward(heap, m) \in G
    <3>1. Onward(heap, m) \in SUBSET (Seq(X) \X DOMAIN heap)
      BY OnwardType
    <3>2. ASSUME NEW at \in m, NEW next \in Below(heap, at)
          PROVE  next[2] \in C
      BY <1>8 DEF Below, Shut, Ends
    <3> QED
      BY <3>1, <3>2 DEF Onward, Ends
  <2> HIDE DEF G
  <2>3. start \in S[0] /\ \A n \in Nat : \A m \in S[n] : Onward(heap, m) \in S[n + 1]
    BY <2>1, <2>2
  <2>4. Cardinality(DOMAIN heap) \in Nat
    BY FS_CardinalityType
  <2>5. M \in G
    <3> HIDE DEF start
    <3> QED
      BY <2>3, <2>4, MetInduction
  <2> QED
    BY <2>5 DEF G
<1> QED
  BY <1>4, <1>5, <1>6, <1>7, <1>8

\* The equation of the recursion in Places has a solution.
LEMMA PlacesExist ==
  ASSUME NEW heap, NEW start
  PROVE  \A n \in Nat : \E f :
           f = [i \in 0..n |-> IF i = 0 THEN start ELSE Deeper(heap, f[i - 1])]
<1> DEFINE Upto(f, n) == f = [i \in 0..n |-> IF i = 0 THEN start ELSE Deeper(heap, f[i - 1])]
           S == {n \in Nat : \E f : Upto(f, n)}
<1>1. 0 \in S
  <2>1. Upto([i \in 0..0 |-> start], 0)
    OBVIOUS
  <2> QED BY <2>1
<1>2. \A n \in Nat : n \in S => n + 1 \in S
  <2> SUFFICES ASSUME NEW n \in Nat, NEW f, Upto(f, n) PROVE \E g : Upto(g, n + 1)
    OBVIOUS
  <2> DEFINE g == [i \in 0..(n + 1) |-> IF i = n + 1 THEN Deeper(heap, f[n]) ELSE f[i]]
  <2>1. \A i \in 0..(n + 1) : g[i] = IF i = 0 THEN start ELSE Deeper(heap, g[i - 1])
    OBVIOUS
  <2>2. Upto(g, n + 1)
    BY <2>1
  <2> QED BY <2>2
<1> HIDE DEF S
<1>3. Nat \subseteq S
  BY <1>1, <1>2, NatSetInduction
<1> QED
  BY <1>3 DEF S

\* What holds of the place of p, and of deeper ones if it holds of some, holds of
\* Places.
LEMMA PlacesInduction ==
  ASSUME NEW heap, NEW p, IsFiniteSet(DOMAIN heap),
         NEW S, {<<<<>>, p>>} \in S[0], \A n \in Nat : \A m \in S[n] : Deeper(heap, m) \in S[n + 1]
  PROVE  Places(heap, p) \in S[Cardinality(DOMAIN heap)]
<1> DEFINE start == {<<<<>>, p>>}
           N == Cardinality(DOMAIN heap)
           F(f) == f = [i \in 0..N |-> IF i = 0 THEN start ELSE Deeper(heap, f[i - 1])]
           places == CHOOSE f : F(f)
           I == {n \in Nat : n \in 0..N => places[n] \in S[n]}
<1>1. N \in Nat
  BY FS_CardinalityType
<1> HIDE DEF start
<1>2. F(places)
  BY <1>1, PlacesExist
<1> HIDE DEF places
<1>3. 0 \in I
  BY <1>2, <1>1 DEF start
<1>4. \A n \in Nat : n \in I => n + 1 \in I
  BY <1>1, <1>2
<1> HIDE DEF I
<1>5. Nat \subseteq I
  BY <1>3, <1>4, NatSetInduction
<1>6. places[N] \in S[N]
  BY <1>5, <1>1 DEF I
<1> QED
  BY <1>6 DEF places, Places, start

\* A tree, all of it in C, where each property has the address of the one that
\* holds it with its key at the end.
Structured(heap, X, C) ==
  /\ C \subseteq DOMAIN heap /\ C \subseteq Seq(X)
  /\ Shut(heap, C)
  /\ \A a \in C : \A key \in DOMAIN heap[a].children : heap[a].children[key] = Append(a, key)

\* Places in the tree below p, with every step of the way.
Rooted(heap, X, C, p, m) ==
  /\ m \subseteq Seq(X) \X C
  /\ <<<<>>, p>> \in m
  /\ \A x \in m : x[2] = p \o x[1]
  /\ \A x \in m : x[1] # <<>> => \E at \in m : x \in Below(heap, at)

\* In such a tree the address of a property below p is that of p with the path.
LEMMA BelowStructured ==
  ASSUME NEW heap, NEW X, Linked(heap, X), NEW C, Structured(heap, X, C), NEW p \in C,
         NEW at \in Seq(X) \X DOMAIN heap, at[2] \in C, NEW x \in Below(heap, at)
  PROVE  /\ x \in Seq(X) \X C
         /\ at[2] = p \o at[1] => x[2] = p \o x[1]
<1>1. at[1] \in Seq(X) /\ p \in Seq(X)
  BY DEF Structured
<1>2. /\ x \in Seq(X) \X DOMAIN heap
      /\ \E key \in DOMAIN heap[at[2]].children :
           key \in X /\ x[1] = Append(at[1], key) /\ x[2] = heap[at[2]].children[key]
  BY BelowFacts
<1>3. PICK key \in DOMAIN heap[at[2]].children :
        key \in X /\ x[1] = Append(at[1], key) /\ x[2] = heap[at[2]].children[key]
  BY <1>2
<1>4. x[2] \in C /\ x[2] = Append(at[2], key)
  BY <1>1, <1>3 DEF Structured, Shut
<1>5. PICK base \in Seq(X), path \in Seq(X), k \in X : base = p /\ path = at[1] /\ k = key
  BY <1>1, <1>3
<1>6. Append(base \o path, k) = base \o Append(path, k)
  BY AppendConcat
<1>7. ASSUME at[2] = p \o at[1]
      PROVE  x[2] = p \o x[1]
  BY <1>3, <1>4, <1>5, <1>6, <1>7, Zenon
<1> QED
  BY <1>2, <1>4, <1>7

\* Going deeper keeps within the tree and skips no step.
LEMMA DeeperRooted ==
  ASSUME NEW heap, NEW X, Linked(heap, X), NEW C, Structured(heap, X, C), NEW p \in C,
         NEW m, Rooted(heap, X, C, p, m)
  PROVE  /\ Rooted(heap, X, C, p, Deeper(heap, m))
         /\ \A x \in Deeper(heap, m) : x[2] \in Ends(m) => x \in m
<1>1. m \subseteq Deeper(heap, m)
  BY DEF Deeper
<1>2. \A x \in Deeper(heap, m) : x \in m \/ \E at \in m : x \in Below(heap, at)
  BY DEF Deeper
<1>3. \A x \in Deeper(heap, m) : x \in Seq(X) \X C /\ x[2] = p \o x[1]
  <2> SUFFICES ASSUME NEW x \in Deeper(heap, m)
               PROVE  x \in Seq(X) \X C /\ x[2] = p \o x[1]
    OBVIOUS
  <2>1. CASE x \in m
    BY <2>1 DEF Rooted
  <2>2. ASSUME NEW at \in m, x \in Below(heap, at)
        PROVE  x \in Seq(X) \X C /\ x[2] = p \o x[1]
    <3>1. at \in Seq(X) \X DOMAIN heap /\ at[2] \in C /\ at[2] = p \o at[1]
      BY DEF Rooted, Structured
    <3>2. x \in Seq(X) \X C /\ (at[2] = p \o at[1] => x[2] = p \o x[1])
      <4> DEFINE Goal(b, y) == y \in Seq(X) \X C /\ (b[2] = p \o b[1] => y[2] = p \o y[1])
      <4>1. \A b \in Seq(X) \X DOMAIN heap : b[2] \in C => \A y \in Below(heap, b) : Goal(b, y)
        BY BelowStructured
      <4> HIDE DEF Goal
      <4>2. Goal(at, x)
        BY <2>2, <3>1, <4>1, Zenon
      <4> QED
        BY <4>2 DEF Goal
    <3> QED
      BY <3>1, <3>2
  <2> QED
    BY <1>2, <2>1, <2>2
<1>4. Rooted(heap, X, C, p, Deeper(heap, m))
  <2>1. <<<<>>, p>> \in Deeper(heap, m)
    BY <1>1 DEF Rooted
  <2>2. \A x \in Deeper(heap, m) : x[1] # <<>> => \E at \in Deeper(heap, m) : x \in Below(heap, at)
    BY <1>1, <1>2 DEF Rooted
  <2> QED
    BY <1>3, <2>1, <2>2 DEF Rooted
<1>5. ASSUME NEW x \in Deeper(heap, m), NEW y \in m, x[2] = y[2]
      PROVE  x = y
  <2>1. x \in Seq(X) \X C /\ y \in Seq(X) \X C /\ p \o x[1] = p \o y[1]
    BY <1>1, <1>3, <1>5
  <2>2. p \in Seq(X) /\ x[1] \in Seq(X) /\ y[1] \in Seq(X)
    BY <2>1 DEF Structured
  <2>3. x[1] = y[1]
    BY <2>1, <2>2, ConcatSimplifications
  <2> QED
    BY <2>1, <2>3, <1>5
<1> QED
  BY <1>4, <1>5 DEF Ends

\* The walk through the tree begins with p itself.
LEMMA StartRooted ==
  ASSUME NEW heap, NEW X, NEW C, Structured(heap, X, C), NEW p \in C
  PROVE  Rooted(heap, X, C, p, {<<<<>>, p>>})
<1>1. p \in Seq(X) /\ <<>> \in Seq(X) /\ p \o <<>> = p
  BY EmptySeq, ConcatEmptySeq DEF Structured
<1>2. <<<<>>, p>> \in Seq(X) \X C
  BY <1>1
<1> QED
  BY <1>1, <1>2 DEF Rooted

\* Places finds the whole tree.
LEMMA PlacesFacts ==
  ASSUME NEW heap, NEW X, Linked(heap, X), IsFiniteSet(DOMAIN heap),
         NEW C, Structured(heap, X, C), NEW p \in C
  PROVE  /\ Rooted(heap, X, C, p, Places(heap, p))
         /\ \A at \in Places(heap, p) : Below(heap, at) \subseteq Places(heap, p)
<1> DEFINE N == Cardinality(DOMAIN heap)
           G == {m \in SUBSET (Seq(X) \X C) : Rooted(heap, X, C, p, m)}
           S == [n \in Nat |-> {m \in G : Deeper(heap, m) = m \/ Cardinality(Ends(m)) >= n}]
           P == Places(heap, p)
<1>0. N \in Nat
  BY FS_CardinalityType
<1>1. ASSUME NEW m, Rooted(heap, X, C, p, m)
      PROVE  /\ m \in G
             /\ IsFiniteSet(Ends(m))
             /\ Cardinality(Ends(m)) \in Nat
             /\ Cardinality(Ends(m)) <= N
             /\ Cardinality(Ends(m)) = N => Ends(m) = DOMAIN heap
  <2>1. Ends(m) \subseteq DOMAIN heap
    BY <1>1 DEF Ends, Rooted, Structured
  <2>2. m \in G
    BY <1>1 DEF Rooted
  <2> QED
    BY <2>1, <2>2, FS_Subset, FS_CardinalityType
<1>2. ASSUME NEW n \in Nat, NEW m \in S[n]
      PROVE  Deeper(heap, m) \in S[n + 1]
  <2>1. Rooted(heap, X, C, p, m) /\ (Deeper(heap, m) = m \/ Cardinality(Ends(m)) >= n)
    OBVIOUS
  <2> HIDE DEF G
  <2>2. /\ Rooted(heap, X, C, p, Deeper(heap, m))
        /\ \A x \in Deeper(heap, m) : x[2] \in Ends(m) => x \in m
    BY <2>1, DeeperRooted
  <2>3. m \in G /\ Deeper(heap, m) \in G
    BY <2>1, <2>2, <1>1
  <2>4. CASE Deeper(heap, m) = m
    BY <2>3, <2>4
  <2>5. CASE Deeper(heap, m) # m
    <3>1. m \subseteq Deeper(heap, m)
      BY DEF Deeper
    <3>2. PICK x \in Deeper(heap, m) : x \notin m
      BY <2>5, <3>1
    <3>3. x[2] \in Ends(Deeper(heap, m)) /\ x[2] \notin Ends(m) /\ Ends(m) \subseteq Ends(Deeper(heap, m))
      BY <2>2, <3>1, <3>2 DEF Ends
    <3>4. /\ IsFiniteSet(Ends(Deeper(heap, m)))
          /\ Cardinality(Ends(m)) \in Nat /\ Cardinality(Ends(Deeper(heap, m))) \in Nat
      BY <2>1, <2>2, <1>1
    <3>5. Cardinality(Ends(m)) < Cardinality(Ends(Deeper(heap, m)))
      BY <3>3, <3>4, FS_Subset
    <3>6. Cardinality(Ends(Deeper(heap, m))) >= n + 1
      BY <2>1, <2>5, <3>4, <3>5
    <3> QED
      BY <2>3, <3>6
  <2> QED
    BY <2>4, <2>5
<1>3. {<<<<>>, p>>} \in S[0]
  <2> HIDE DEF G
  <2>1. Rooted(heap, X, C, p, {<<<<>>, p>>})
    BY StartRooted
  <2> QED
    BY <1>1, <2>1
<1>4. P \in S[N]
  <2> HIDE DEF S
  <2> QED
    BY <1>2, <1>3, PlacesInduction
<1>5. Rooted(heap, X, C, p, P) /\ (Deeper(heap, P) = P \/ Cardinality(Ends(P)) >= N)
  BY <1>0, <1>4
<1>6. Deeper(heap, P) = P
  <2> HIDE DEF G, S, P
  <2>1. CASE Cardinality(Ends(P)) >= N
    <3>1. Ends(P) = DOMAIN heap
      BY <2>1, <1>0, <1>1, <1>5
    <3>2. /\ Rooted(heap, X, C, p, Deeper(heap, P))
          /\ \A x \in Deeper(heap, P) : x[2] \in Ends(P) => x \in P
      BY <1>5, DeeperRooted
    <3>3. \A x \in Deeper(heap, P) : x[2] \in DOMAIN heap
      BY <3>2 DEF Rooted, Structured
    <3>4. Deeper(heap, P) \subseteq P
      BY <3>1, <3>2, <3>3
    <3> QED
      BY <3>4 DEF Deeper
  <2> QED
    BY <1>5, <2>1
<1> QED
  BY <1>5, <1>6 DEF Deeper
=============================================================================
