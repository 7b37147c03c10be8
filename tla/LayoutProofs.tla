----------------------------- MODULE LayoutProofs -----------------------------
(***************************************************************************)
(* Proofs about ElementTree, for the programs of ElementTreeProofs: what   *)
(* documents and wrappers are to a program. A document is the tree that    *)
(* its properties lay out, before a call, in the middle of it and at its   *)
(* end; a wrapper that leads somewhere is an address in it.                *)
(***************************************************************************)
EXTENDS PathProofs
-----------------------------------------------------------------------------
(***************************************************************************)
(* Paths.                                                                  *)
(***************************************************************************)
\* A function, whatever it is a function of.
IsMap(f) == f = [x \in DOMAIN f |-> f[x]]

\* Functions of the same arguments with the same values are the same.
LEMMA SameMap ==
  ASSUME NEW f, IsMap(f), NEW g, IsMap(g), DOMAIN f = DOMAIN g, \A x \in DOMAIN f : f[x] = g[x]
  PROVE  f = g
<1>1. [x \in DOMAIN f |-> f[x]] = [x \in DOMAIN g |-> g[x]]
  OBVIOUS
<1> QED
  BY <1>1 DEF IsMap

\* A sequence put behind another can be told from it, and taken off again.
LEMMA Behind ==
  ASSUME NEW X, NEW p \in Seq(X), NEW r \in Seq(X)
  PROVE  /\ p \o r \in Seq(X) /\ p \o <<>> = p /\ <<>> \o p = p
         /\ IsPrefix(p, p \o r)
         /\ Promise!From(p, p \o r) = r
         /\ \A t \in Seq(X) : p \o r = p \o t => r = t
         /\ \A t \in Seq(X) : (p \o r) \o t = p \o (r \o t)
         /\ \A key \in X : Append(p \o r, key) = p \o Append(r, key)
         /\ p \o r = p => r = <<>>
<1> DEFINE w == p \o r
<1>1. /\ w \in Seq(X) /\ Len(w) = Len(p) + Len(r) /\ Len(p) \in Nat /\ Len(r) \in Nat
      /\ \A i \in 1..Len(p) : w[i] = p[i]
      /\ \A i \in 1..Len(r) : w[Len(p) + i] = r[i]
  OBVIOUS
<1> HIDE DEF w
<1>2. IsPrefix(p, w)
  <2> DEFINE a == SubSeq(p, 1, Len(p))
             b == SubSeq(w, 1, Len(p))
  <2>1. a \in Seq(X) /\ b \in Seq(X) /\ Len(a) = Len(p) /\ Len(b) = Len(p)
    BY <1>1
  <2>2. \A i \in 1..Len(p) : a[i] = p[i] /\ b[i] = w[i]
    BY <1>1
  <2> HIDE DEF a, b
  <2>3. a = b
    BY <1>1, <2>1, <2>2, SeqEqual
  <2> QED
    BY <1>1, <2>3 DEF IsPrefix, a, b
<1>3. SubSeq(w, Len(p) + 1, Len(w)) = r
  <2> DEFINE u == SubSeq(w, Len(p) + 1, Len(w))
  <2>1. u \in Seq(X) /\ Len(u) = Len(r)
    BY <1>1
  <2>2. \A i \in 1..Len(r) : u[i] = w[Len(p) + i]
    BY <1>1
  <2> HIDE DEF u
  <2>3. \A i \in 1..Len(u) : u[i] = r[i]
    BY <1>1, <2>1, <2>2
  <2>4. u = r
    BY <2>1, <2>3, SeqEqual
  <2> QED
    BY <2>4 DEF u
<1>4. /\ p \o <<>> = p /\ <<>> \o p = p
      /\ \A t \in Seq(X) : p \o r = p \o t => r = t
      /\ p \o r = p => r = <<>>
  BY ConcatEmptySeq, ConcatSimplifications, ZenonT(40)
<1>5. \A t \in Seq(X) : (p \o r) \o t = p \o (r \o t)
  BY ConcatAssociative
<1>6. ASSUME NEW key \in X
      PROVE  Append(p \o r, key) = p \o Append(r, key)
  <2>0. p \o r \in Seq(X) /\ <<key>> \in Seq(X)
    OBVIOUS
  <2>1. PICK u \in Seq(X), one \in Seq(X) : u = p \o r /\ one = <<key>>
    BY <2>0
  <2>2. Append(u, key) = u \o one /\ Append(r, key) = r \o one
    BY <2>1, AppendIsConcat
  <2>3. (p \o r) \o one = p \o (r \o one)
    BY ConcatAssociative, SMTT(20)
  <2> QED
    BY <2>1, <2>2, <2>3
<1> QED
  BY <1>1, <1>2, <1>3, <1>4, <1>5, <1>6 DEF w, Promise!From

\* Paths put behind one another.
LEMMA PathBehind ==
  \A p, r \in Seq(Keys) : /\ p \o r \in Seq(Keys) /\ p \o <<>> = p /\ <<>> \o p = p
                          /\ IsPrefix(p, p \o r)
                          /\ p \o r = p => r = <<>>
<1> TAKE p, r \in Seq(Keys)
<1> QED
  BY Behind

\* What is behind a path is determined.
LEMMA SamePath ==
  ASSUME NEW p \in Seq(Keys), NEW r \in Seq(Keys), NEW t \in Seq(Keys), p \o r = p \o t
  PROVE  r = t
BY ConcatSimplifications

\* Putting paths together is associative.
LEMMA ThreePaths ==
  ASSUME NEW p \in Seq(Keys), NEW r \in Seq(Keys), NEW t \in Seq(Keys)
  PROVE  (p \o r) \o t = p \o (r \o t)
BY ConcatAssociative

\* A sequence is a function of the places in it.
LEMMA SeqIsMap ==
  ASSUME NEW X, NEW s \in Seq(X)
  PROVE  s = [i \in 1..Len(s) |-> s[i]]
OBVIOUS

\* Three paths, one behind the other.
LEMMA PathsBehind ==
  \A p, r, t \in Seq(Keys) : /\ r \o t \in Seq(Keys)
                             /\ p \o r = p \o t => r = t
                             /\ (p \o r) \o t = p \o (r \o t)
<1> TAKE p, r, t \in Seq(Keys)
<1>1. r \o t \in Seq(Keys)
  OBVIOUS
<1>2. p \o r = p \o t => r = t
  BY ConcatSimplifications
<1>3. (p \o r) \o t = p \o (r \o t)
  BY ConcatAssociative
<1> QED
  BY <1>1, <1>2, <1>3

\* A key at the end of a path behind another.
LEMMA KeyBehind ==
  \A p, r \in Seq(Keys), key \in Keys : /\ p \o r \in Seq(Keys)
                                        /\ Append(r, key) \in Seq(Keys)
                                        /\ Append(p \o r, key) = p \o Append(r, key)
<1> TAKE p, r \in Seq(Keys), key \in Keys
<1>0. p \o r \in Seq(Keys) /\ <<key>> \in Seq(Keys)
  OBVIOUS
<1>1. PICK u \in Seq(Keys), one \in Seq(Keys) : u = p \o r /\ one = <<key>>
  BY <1>0
<1>2. Append(u, key) = u \o one /\ Append(r, key) = r \o one
  BY <1>1, AppendIsConcat
<1>3. (p \o r) \o one = p \o (r \o one)
  BY ConcatAssociative, SMTT(20)
<1> QED
  BY <1>1, <1>2, <1>3

\* A place behind a place.
LEMMA JourneyBehind ==
  \A p, r \in Seq(Steps) : /\ p \o r \in Seq(Steps) /\ p \o <<>> = p /\ <<>> \o p = p
                           /\ IsPrefix(p, p \o r)
                           /\ p \o r = p => r = <<>>
<1> TAKE p, r \in Seq(Steps)
<1> QED
  BY Behind

\* Three of them, one behind the other.
LEMMA JourneysBehind ==
  \A p, r, t \in Seq(Steps) : /\ r \o t \in Seq(Steps)
                              /\ p \o r = p \o t => r = t
                              /\ (p \o r) \o t = p \o (r \o t)
<1> TAKE p, r, t \in Seq(Steps)
<1>1. r \o t \in Seq(Steps)
  OBVIOUS
<1>2. p \o r = p \o t => r = t
  BY ConcatSimplifications
<1>3. (p \o r) \o t = p \o (r \o t)
  BY ConcatAssociative
<1> QED
  BY <1>1, <1>2, <1>3

\* A step at the end of one behind another.
LEMMA StepBehind ==
  \A p, r \in Seq(Steps), key \in Steps : /\ p \o r \in Seq(Steps)
                                          /\ Append(r, key) \in Seq(Steps)
                                          /\ Append(p \o r, key) = p \o Append(r, key)
<1> TAKE p, r \in Seq(Steps), key \in Steps
<1>0. p \o r \in Seq(Steps) /\ <<key>> \in Seq(Steps)
  OBVIOUS
<1>1. PICK u \in Seq(Steps), one \in Seq(Steps) : u = p \o r /\ one = <<key>>
  BY <1>0
<1>2. Append(u, key) = u \o one /\ Append(r, key) = r \o one
  BY <1>1, AppendIsConcat
<1>3. (p \o r) \o one = p \o (r \o one)
  BY ConcatAssociative, SMTT(20)
<1> QED
  BY <1>1, <1>2, <1>3

\* A sequence of what is in another set too.
LEMMA SeqInto ==
  ASSUME NEW X, NEW Y, NEW x \in Seq(X), \A i \in 1..Len(x) : x[i] \in Y
  PROVE  x \in Seq(Y)
<1>1. x \in [1..Len(x) -> X] /\ Len(x) \in Nat
  BY LenProperties
<1>2. x \in [1..Len(x) -> Y]
  BY <1>1
<1> QED
  BY <1>1, <1>2, SeqDef

\* A path that is not empty goes on by one key first.
LEMMA KeyFirst ==
  \A p, m \in Seq(Keys) : m # <<>> =>
    \E key \in Keys, r \in Seq(Keys) : /\ m = <<key>> \o r
                                       /\ Append(p, key) \in Seq(Keys)
                                       /\ p \o m = Append(p, key) \o r
<1> TAKE p, m \in Seq(Keys)
<1>0. SUFFICES ASSUME m # <<>>
               PROVE  \E key \in Keys, r \in Seq(Keys) : /\ m = <<key>> \o r
                                                         /\ Append(p, key) \in Seq(Keys)
                                                         /\ p \o m = Append(p, key) \o r
  OBVIOUS
<1>1. Head(m) \in Keys /\ Tail(m) \in Seq(Keys) /\ Len(Tail(m)) = Len(m) - 1 /\ Len(m) \in Nat
      /\ \A i \in 1..Len(Tail(m)) : Tail(m)[i] = m[i + 1]
  BY <1>0, HeadTailProperties
<1>2. PICK key \in Keys, r \in Seq(Keys) : key = Head(m) /\ r = Tail(m)
  BY <1>1
<1>3. m = <<key>> \o r
  <2> DEFINE w == <<key>> \o r
  <2>1. Len(r) = Len(m) - 1 /\ (\A i \in 1..Len(r) : r[i] = m[i + 1]) /\ key = m[1]
    BY <1>1, <1>2
  <2>2. w \in Seq(Keys) /\ Len(w) = 1 + Len(r) /\ w[1] = key /\ \A i \in 1..Len(r) : w[1 + i] = r[i]
    OBVIOUS
  <2> HIDE DEF w
  <2>3. \A i \in 1..Len(w) : i = 1 \/ (i - 1 \in 1..Len(r) /\ 1 + (i - 1) = i /\ (i - 1) + 1 = i)
    BY <2>2
  <2>4. \A i \in 1..Len(w) : w[i] = m[i]
    BY <2>1, <2>2, <2>3
  <2>5. Len(w) = Len(m)
    BY <1>1, <2>1, <2>2
  <2>6. w = m
    BY <2>2, <2>4, <2>5, SeqEqual
  <2> QED
    BY <2>6 DEF w
<1>4. p \o m = Append(p, key) \o r
  <2>1. <<key>> \in Seq(Keys) /\ p \o <<key>> = Append(p, key)
    OBVIOUS
  <2>2. (p \o <<key>>) \o r = p \o (<<key>> \o r)
    BY <2>1, Behind
  <2> QED
    BY <1>3, <2>1, <2>2
<1>5. Append(p, key) \in Seq(Keys)
  OBVIOUS
<1> QED
  BY <1>3, <1>4, <1>5

\* A beginning of a sequence is something it goes on from.
LEMMA PrefixGoesOn ==
  ASSUME NEW X, NEW p \in Seq(X), NEW q \in Seq(X), IsPrefix(p, q)
  PROVE  \E r \in Seq(X) : q = p \o r
<1> DEFINE r == SubSeq(q, Len(p) + 1, Len(q))
           w == p \o r
<1>1. Len(p) <= Len(q) /\ SubSeq(p, 1, Len(p)) = SubSeq(q, 1, Len(p))
  BY DEF IsPrefix
<1>2. r \in Seq(X) /\ Len(r) = Len(q) - Len(p)
  BY <1>1
<1>3. \A i \in 1..Len(p) : p[i] = q[i]
  <2>1. \A i \in 1..Len(p) : SubSeq(p, 1, Len(p))[i] = p[i] /\ SubSeq(q, 1, Len(p))[i] = q[i]
    BY <1>1
  <2> QED
    BY <1>1, <2>1
<1>4. \A i \in 1..Len(r) : r[i] = q[Len(p) + i]
  BY <1>1, <1>2
<1> HIDE DEF r
<1>5. /\ w \in Seq(X) /\ Len(w) = Len(q)
      /\ \A i \in 1..Len(p) : w[i] = p[i]
      /\ \A i \in 1..Len(r) : w[Len(p) + i] = r[i]
  BY <1>1, <1>2
<1>6. \A i \in 1..Len(q) : i <= Len(p) \/ i - Len(p) \in 1..Len(r)
  BY <1>1, <1>2
<1>7. \A i \in 1..Len(q) : i > Len(p) => i = Len(p) + (i - Len(p))
  OBVIOUS
<1> HIDE DEF w
<1>8. \A i \in 1..Len(w) : w[i] = q[i]
  <2> TAKE i \in 1..Len(w)
  <2>1. CASE i <= Len(p)
    BY <1>3, <1>5, <2>1
  <2>2. CASE i > Len(p)
    <3>1. i - Len(p) \in 1..Len(r)
      BY <1>5, <1>6, <2>2
    <3>2. w[Len(p) + (i - Len(p))] = q[Len(p) + (i - Len(p))]
      BY <1>4, <1>5, <3>1
    <3> QED
      BY <1>5, <1>7, <2>2, <3>2
  <2> QED
    BY <2>1, <2>2
<1>9. w = q
  BY <1>5, <1>8, SeqEqual
<1> QED
  BY <1>2, <1>9 DEF w

\* Beginnings of sequences.
LEMMA PrefixOrder ==
  ASSUME NEW X, NEW p \in Seq(X), NEW q \in Seq(X)
  PROVE  /\ IsPrefix(p, p) /\ IsPrefix(<<>>, p)
         /\ IsPrefix(p, <<>>) => p = <<>>
         /\ IsPrefix(p, q) /\ IsPrefix(q, p) => p = q
         /\ IsPrefix(p, q) => \A t \in Seq(X) : IsPrefix(q, t) => IsPrefix(p, t)
         /\ \A t \in Seq(X) : IsPrefix(p, t) /\ IsPrefix(q, t) => IsPrefix(p, q) \/ IsPrefix(q, p)
<1>1. IsPrefix(p, p) /\ IsPrefix(<<>>, p) /\ (IsPrefix(p, <<>>) => p = <<>>)
  <2>1. p \o <<>> = p /\ <<>> \o p = p
    BY Behind
  <2>0. <<>> \in Seq(X)
    OBVIOUS
  <2>2. PICK none \in Seq(X) : none = <<>>
    BY <2>0
  <2>3. IsPrefix(p, p \o none) /\ IsPrefix(none, none \o p)
    BY Behind
  <2>4. IsPrefix(p, <<>>) => Len(p) = 0
    BY DEF IsPrefix
  <2> QED
    BY <2>1, <2>2, <2>3, <2>4
<1>2. ASSUME IsPrefix(p, q), IsPrefix(q, p)
      PROVE  p = q
  <2>1. PICK r \in Seq(X) : q = p \o r
    BY <1>2, PrefixGoesOn
  <2>2. PICK t \in Seq(X) : p = q \o t
    BY <1>2, PrefixGoesOn
  <2>3. Len(q) = Len(p) + Len(r) /\ Len(p) = Len(q) + Len(t)
    BY <2>1, <2>2
  <2>4. r = <<>>
    BY <2>3
  <2> QED
    BY <2>1, <2>4, Behind
<1>3. ASSUME IsPrefix(p, q), NEW t \in Seq(X), IsPrefix(q, t)
      PROVE  IsPrefix(p, t)
  <2>1. PICK r \in Seq(X) : q = p \o r
    BY <1>3, PrefixGoesOn
  <2>2. PICK u \in Seq(X) : t = q \o u
    BY <1>3, PrefixGoesOn
  <2>3. t = p \o (r \o u) /\ r \o u \in Seq(X)
    BY <2>1, <2>2, Behind
  <2> QED
    BY <2>3, Behind
<1>4. ASSUME NEW t \in Seq(X), IsPrefix(p, t), IsPrefix(q, t)
      PROVE  IsPrefix(p, q) \/ IsPrefix(q, p)
  <2>1. /\ SubSeq(p, 1, Len(p)) = SubSeq(t, 1, Len(p)) /\ Len(p) <= Len(t)
        /\ SubSeq(q, 1, Len(q)) = SubSeq(t, 1, Len(q)) /\ Len(q) <= Len(t)
    BY <1>4 DEF IsPrefix
  <2>2. ASSUME NEW a \in Seq(X), NEW n \in Nat, n <= Len(a)
        PROVE  \A i \in 1..n : SubSeq(a, 1, n)[i] = a[i]
    BY <2>2
  <2>3. \A i \in 1..Len(p) : p[i] = t[i]
    BY <2>1, <2>2
  <2>4. \A i \in 1..Len(q) : q[i] = t[i]
    BY <2>1, <2>2
  <2>5. ASSUME NEW a \in Seq(X), NEW b \in Seq(X), Len(a) <= Len(b), \A i \in 1..Len(a) : a[i] = b[i]
        PROVE  IsPrefix(a, b)
    <3>1. SubSeq(a, 1, Len(a)) = SubSeq(b, 1, Len(a))
      BY <2>5
    <3> QED
      BY <2>5, <3>1 DEF IsPrefix
  <2>6. CASE Len(p) <= Len(q)
    BY <2>3, <2>4, <2>5, <2>6
  <2>7. CASE Len(q) <= Len(p)
    BY <2>3, <2>4, <2>5, <2>7
  <2> QED
    BY <2>6, <2>7
<1> QED
  BY <1>1, <1>2, <1>3, <1>4

\* A sequence that has one key more begins in the same ways, and with itself.
LEMMA PrefixAppend ==
  ASSUME NEW X, NEW p \in Seq(X), NEW q \in Seq(X), NEW key \in X
  PROVE  IsPrefix(p, Append(q, key)) <=> p = Append(q, key) \/ IsPrefix(p, q)
<1>0. Append(q, key) \in Seq(X) /\ <<key>> \in Seq(X) /\ Append(q, key) = q \o <<key>>
  BY AppendIsConcat
<1>1. PICK w \in Seq(X), one \in Seq(X) : w = Append(q, key) /\ one = <<key>> /\ w = q \o one
  BY <1>0
<1>2. ASSUME IsPrefix(p, w), p # w
      PROVE  IsPrefix(p, q)
  <2>1. PICK r \in Seq(X) : w = p \o r
    BY <1>1, <1>2, PrefixGoesOn, ZenonT(40)
  <2>2. r # <<>>
    BY <1>2, <2>1, Behind
  <2>3. PICK f \in Seq(X), k \in X : r = Append(f, k)
    BY <2>2, SequenceEmptyOrAppend
  <2>4. PICK b \in Seq(X) : b = p \o f
    BY Behind
  <2>5. w = Append(b, k)
    BY <2>1, <2>3, <2>4, Behind, SMTT(20)
  <2>6. Append(q, key) = Append(b, k)
    BY <1>1, <2>5
  <2>7. q = b
    BY <2>6, AppendOnce
  <2> QED
    BY <2>4, <2>7, Behind
<1>3. ASSUME IsPrefix(p, q)
      PROVE  IsPrefix(p, w)
  <2>1. IsPrefix(q, q \o one)
    BY Behind
  <2>2. IsPrefix(q, w)
    BY <1>1, <2>1
  <2> QED
    BY <1>3, <2>2, PrefixOrder
<1>4. IsPrefix(w, w)
  BY <1>1, PrefixOrder
<1> QED
  BY <1>1, <1>2, <1>3, <1>4

\* The beginnings of a sequence.
LEMMA PrefixesFacts ==
  ASSUME NEW X, NEW q \in Seq(X)
  PROVE  /\ \A p : p \in Prefixes(q) <=> p \in Seq(X) /\ IsPrefix(p, q)
         /\ \A key \in X : Prefixes(Append(q, key)) = Prefixes(q) \cup {Append(q, key)}
<1>1. ASSUME NEW X1, NEW q1 \in Seq(X1), NEW p, p \in Prefixes(q1)
      PROVE  p \in Seq(X1) /\ IsPrefix(p, q1)
  <2>1. PICK n \in 0..Len(q1) : p = SubSeq(q1, 1, n)
    BY <1>1 DEF Prefixes
  <2>2. p \in Seq(X1) /\ Len(p) = n /\ SubSeq(p, 1, n) = p
    BY <2>1
  <2> QED
    BY <2>1, <2>2 DEF IsPrefix
<1>2. ASSUME NEW X1, NEW q1 \in Seq(X1), NEW p \in Seq(X1), IsPrefix(p, q1)
      PROVE  p \in Prefixes(q1)
  <2>1. Len(p) \in 0..Len(q1) /\ SubSeq(p, 1, Len(p)) = SubSeq(q1, 1, Len(p))
    BY <1>2 DEF IsPrefix
  <2>2. SubSeq(p, 1, Len(p)) = p
    BY SubSeqFull
  <2> QED
    BY <2>1, <2>2 DEF Prefixes
<1>3. ASSUME NEW key \in X
      PROVE  Prefixes(Append(q, key)) = Prefixes(q) \cup {Append(q, key)}
  <2>0. Append(q, key) \in Seq(X)
    OBVIOUS
  <2>1. PICK w \in Seq(X) : w = Append(q, key)
    BY <2>0
  <2>2. \A p \in Seq(X) : IsPrefix(p, w) <=> p = w \/ IsPrefix(p, q)
    BY <2>1, PrefixAppend
  <2>3. \A p : p \in Prefixes(w) <=> p \in Prefixes(q) \cup {w}
    BY <1>1, <1>2, <2>2
  <2> QED
    BY <2>1, <2>3
<1> QED
  BY <1>1, <1>2, <1>3
-----------------------------------------------------------------------------
(***************************************************************************)
(* Trees, functions from paths: what is below a path, and what is grafted  *)
(* there.                                                                  *)
(***************************************************************************)
\* The operators on sequences that Forest uses are those used here.
LEMMA SameOperators ==
  /\ \A p, q : Promise!IsPrefix(p, q) <=> IsPrefix(p, q)
  /\ \A q : Promise!Prefixes(q) = Prefixes(q)
  /\ \A q : Promise!Front(q) = Front(q)
<1>1. \A p, q : Promise!IsPrefix(p, q) <=> IsPrefix(p, q)
  BY DEF Promise!IsPrefix, IsPrefix
<1>2. \A q : Promise!Prefixes(q) = Prefixes(q)
  BY DEF Promise!Prefixes, Prefixes
<1>3. \A q : Promise!Front(q) = Front(q)
  BY DEF Promise!Front, Front
<1> QED
  BY <1>1, <1>2, <1>3

\* A function from paths.
PathMap(T) == IsMap(T) /\ DOMAIN T \subseteq Seq(Keys)

\* Functions from paths that agree on every path are the same.
LEMMA SamePathMap ==
  ASSUME NEW F, PathMap(F), NEW G, PathMap(G),
         \A q \in Seq(Keys) : (q \in DOMAIN F <=> q \in DOMAIN G) /\ (q \in DOMAIN F => F[q] = G[q])
  PROVE  F = G
<1>1. DOMAIN F = DOMAIN G
  BY DEF PathMap
<1>2. \A q \in DOMAIN F : F[q] = G[q]
  BY DEF PathMap
<1> QED
  BY <1>1, <1>2, SameMap DEF PathMap

\* What is below a path.
LEMMA SubtreeFacts ==
  ASSUME NEW T, PathMap(T), NEW at \in Seq(Keys)
  PROVE  LET S == Promise!Subtree(T, at)
         IN  /\ PathMap(S)
             /\ \A r \in Seq(Keys) : r \in DOMAIN S <=> at \o r \in DOMAIN T
             /\ \A r \in DOMAIN S : S[r] = T[at \o r]
<1> DEFINE S == Promise!Subtree(T, at)
           left == {Promise!From(at, q) : q \in Promise!Below(T, at)}
<1>1. S = [r \in left |-> T[at \o r]]
  BY DEF Promise!Subtree
<1>2. ASSUME NEW r \in left
      PROVE  r \in Seq(Keys) /\ at \o r \in DOMAIN T
  <2>1. PICK q \in DOMAIN T : IsPrefix(at, q) /\ r = Promise!From(at, q)
    BY <1>2, SameOperators DEF Promise!Below
  <2>2. q \in Seq(Keys)
    BY DEF PathMap
  <2>3. PICK t \in Seq(Keys) : q = at \o t
    BY <2>1, <2>2, PrefixGoesOn
  <2>4. Promise!From(at, at \o t) = t
    BY Behind
  <2> QED
    BY <2>1, <2>3, <2>4
<1>3. ASSUME NEW r \in Seq(Keys), at \o r \in DOMAIN T
      PROVE  r \in left
  <2>1. IsPrefix(at, at \o r) /\ Promise!From(at, at \o r) = r
    BY Behind
  <2>2. at \o r \in Promise!Below(T, at)
    BY <1>3, <2>1, SameOperators DEF Promise!Below
  <2> QED
    BY <2>1, <2>2
<1> HIDE DEF left, S
<1>4. DOMAIN S = left /\ IsMap(S) /\ \A r \in left : S[r] = T[at \o r]
  BY <1>1 DEF IsMap
<1> QED
  BY <1>2, <1>3, <1>4 DEF S, PathMap

\* G is T with S in place of whatever is at a path.
IsGraft(G, T, at, S) ==
  /\ PathMap(G)
  /\ \A q \in Seq(Keys) : ~IsPrefix(at, q) => /\ q \in DOMAIN G <=> q \in DOMAIN T
                                              /\ q \in DOMAIN T => G[q] = T[q]
  /\ \A r \in Seq(Keys) : /\ at \o r \in DOMAIN G <=> r \in DOMAIN S
                          /\ r \in DOMAIN S => G[at \o r] = S[r]

\* That is what Graft makes.
LEMMA GraftFacts ==
  ASSUME NEW T, PathMap(T), NEW at \in Seq(Keys), NEW S, PathMap(S)
  PROVE  IsGraft(Promise!Graft(T, at, S), T, at, S)
<1> DEFINE G == Promise!Graft(T, at, S)
           kept == DOMAIN T \ Promise!Below(T, at)
           new == {at \o r : r \in DOMAIN S}
<1>1. G = [q \in kept \cup new |-> IF q \in kept THEN T[q] ELSE S[Promise!From(at, q)]]
  BY DEF Promise!Graft
<1>2. \A q \in Seq(Keys) : q \in kept <=> q \in DOMAIN T /\ ~IsPrefix(at, q)
  BY SameOperators DEF Promise!Below
<1>3. \A r \in Seq(Keys) : at \o r \in Seq(Keys) /\ IsPrefix(at, at \o r) /\ Promise!From(at, at \o r) = r
  BY Behind
<1>4. kept \subseteq Seq(Keys) /\ DOMAIN S \subseteq Seq(Keys)
  BY DEF PathMap
<1>5. new \subseteq Seq(Keys) /\ \A q \in new : IsPrefix(at, q)
  BY <1>3, <1>4
<1>6. \A r \in Seq(Keys) : at \o r \in new <=> r \in DOMAIN S
  <2> TAKE r \in Seq(Keys)
  <2>1. ASSUME at \o r \in new
        PROVE  r \in DOMAIN S
    <3>1. PICK t \in DOMAIN S : at \o r = at \o t
      BY <2>1
    <3>2. t \in Seq(Keys)
      BY <1>4
    <3>3. r = t
      BY <1>3, <3>1, <3>2
    <3> QED
      BY <3>3
  <2> QED
    BY <2>1
<1> HIDE DEF kept, new, G
<1>7. /\ IsMap(G) /\ DOMAIN G = kept \cup new
      /\ \A q \in kept : G[q] = T[q]
      /\ \A q \in new : q \notin kept => G[q] = S[Promise!From(at, q)]
  BY <1>1 DEF IsMap
<1>8. PathMap(G)
  BY <1>4, <1>5, <1>7 DEF PathMap
<1>9. \A q \in Seq(Keys) : ~IsPrefix(at, q) => /\ q \in DOMAIN G <=> q \in DOMAIN T
                                               /\ q \in DOMAIN T => G[q] = T[q]
  BY <1>2, <1>5, <1>7
<1>10. ASSUME NEW r \in Seq(Keys)
       PROVE  /\ at \o r \in DOMAIN G <=> r \in DOMAIN S
              /\ r \in DOMAIN S => G[at \o r] = S[r]
  <2>1. at \o r \notin kept
    BY <1>2, <1>3
  <2> QED
    BY <1>3, <1>6, <1>7, <2>1
<1> QED
  BY <1>8, <1>9, <1>10 DEF IsGraft, G

\* Nothing else is.
LEMMA GraftUnique ==
  ASSUME NEW T, NEW at \in Seq(Keys), NEW S, NEW G, IsGraft(G, T, at, S), NEW H, IsGraft(H, T, at, S)
  PROVE  G = H
<1>1. ASSUME NEW q \in Seq(Keys)
      PROVE  (q \in DOMAIN G <=> q \in DOMAIN H) /\ (q \in DOMAIN G => G[q] = H[q])
  <2>1. CASE ~IsPrefix(at, q)
    BY <2>1 DEF IsGraft
  <2>2. CASE IsPrefix(at, q)
    <3>1. PICK r \in Seq(Keys) : q = at \o r
      BY <2>2, PrefixGoesOn
    <3>2. /\ at \o r \in DOMAIN G <=> r \in DOMAIN S
          /\ at \o r \in DOMAIN H <=> r \in DOMAIN S
          /\ r \in DOMAIN S => G[at \o r] = S[r] /\ H[at \o r] = S[r]
      BY DEF IsGraft
    <3> QED
      BY <3>1, <3>2
  <2> QED
    BY <2>1, <2>2
<1> QED
  BY <1>1, SamePathMap DEF IsGraft
-----------------------------------------------------------------------------
(***************************************************************************)
(* The tree of the properties below one of them, each by its path.         *)
(***************************************************************************)
NodeOf(c) == [type |-> c.type, value |-> c.value]

\* D has the properties in the tree below p, each by its path.
Lays(h, p, D) ==
  /\ PathMap(D)
  /\ <<>> \in DOMAIN D /\ D[<<>>] = p
  /\ \A q \in DOMAIN D : D[q] \in DOMAIN h
  /\ \A q \in DOMAIN D : \A key \in DOMAIN h[D[q]].children :
       key \in Keys /\ Append(q, key) \in DOMAIN D /\ D[Append(q, key)] = h[D[q]].children[key]
  /\ \A q \in Seq(Keys), key \in Keys :
       Append(q, key) \in DOMAIN D => q \in DOMAIN D /\ key \in DOMAIN h[D[q]].children

\* The tree that a program sees there.
Picture(h, D) == [q \in DOMAIN D |-> NodeOf(h[D[q]])]

\* Its parts.
LEMMA PictureFacts ==
  ASSUME NEW h, NEW D, PathMap(D)
  PROVE  /\ PathMap(Picture(h, D)) /\ DOMAIN Picture(h, D) = DOMAIN D
         /\ \A q \in DOMAIN D : Picture(h, D)[q] = NodeOf(h[D[q]])
BY DEF Picture, PathMap, IsMap

\* There is one tree below a property.
LEMMA LaysOnce ==
  ASSUME NEW h, NEW p, NEW D, Lays(h, p, D), NEW E, Lays(h, p, E)
  PROVE  D = E
<1> DEFINE G == {q \in Seq(Keys) : (q \in DOMAIN D <=> q \in DOMAIN E) /\ (q \in DOMAIN D => D[q] = E[q])}
<1>1. <<>> \in G
  BY DEF Lays
<1>2. ASSUME NEW q \in Seq(Keys), NEW key \in Keys, q \in G
      PROVE  Append(q, key) \in G
  <2>1. ASSUME NEW B, Lays(h, p, B)
        PROVE  Append(q, key) \in DOMAIN B <=> q \in DOMAIN B /\ key \in DOMAIN h[B[q]].children
    BY <2>1 DEF Lays
  <2>2. /\ Append(q, key) \in DOMAIN D <=> Append(q, key) \in DOMAIN E
        /\ Append(q, key) \in DOMAIN D => /\ D[Append(q, key)] = h[D[q]].children[key]
                                          /\ E[Append(q, key)] = h[E[q]].children[key]
    <3>1. Append(q, key) \in DOMAIN D <=> Append(q, key) \in DOMAIN E
      BY <1>2, <2>1
    <3>2. ASSUME NEW B, Lays(h, p, B), Append(q, key) \in DOMAIN B
          PROVE  B[Append(q, key)] = h[B[q]].children[key]
      BY <3>2 DEF Lays
    <3> QED
      BY <3>1, <3>2
  <2>3. Append(q, key) \in Seq(Keys)
    OBVIOUS
  <2>4. q \in DOMAIN D => D[q] = E[q]
    BY <1>2
  <2>5. Append(q, key) \in DOMAIN D => q \in DOMAIN D
    BY <2>1
  <2> QED
    BY <2>2, <2>3, <2>4, <2>5
<1> HIDE DEF G
<1>3. Seq(Keys) \subseteq G
  BY <1>1, <1>2, PathInduction
<1>4. \A q \in Seq(Keys) : (q \in DOMAIN D <=> q \in DOMAIN E) /\ (q \in DOMAIN D => D[q] = E[q])
  BY <1>3 DEF G
<1> QED
  BY <1>4, SamePathMap DEF Lays

\* Two trees below properties that nobody holds have nothing in common, and one
\* has nothing twice.
LEMMA LaysApart ==
  ASSUME NEW h, HeldOnce(h), NEW p, Unheld(h, p), NEW r, Unheld(h, r),
         NEW D, Lays(h, p, D), NEW E, Lays(h, r, E),
         NEW x \in DOMAIN D, NEW y \in DOMAIN E, D[x] = E[y]
  PROVE  p = r /\ x = y
<1> DEFINE G == {a \in Seq(Keys) :
                   \A b \in Seq(Keys) : a \in DOMAIN D /\ b \in DOMAIN E /\ D[a] = E[b] => p = r /\ a = b}
<1>1. ASSUME NEW B, NEW top, Lays(h, top, B), Unheld(h, top), NEW b \in DOMAIN B, b # <<>>
      PROVE  \E f \in Seq(Keys), key \in Keys :
               /\ b = Append(f, key) /\ f \in DOMAIN B /\ B[f] \in DOMAIN h
               /\ key \in DOMAIN h[B[f]].children /\ h[B[f]].children[key] = B[b]
  <2>1. b \in Seq(Keys)
    BY <1>1 DEF Lays, PathMap
  <2>2. PICK f \in Seq(Keys), key \in Keys : b = Append(f, key)
    BY <1>1, <2>1, SequenceEmptyOrAppend
  <2>3. f \in DOMAIN B /\ key \in DOMAIN h[B[f]].children
    BY <1>1, <2>2 DEF Lays
  <2> QED
    BY <1>1, <2>2, <2>3 DEF Lays
<1>2. ASSUME NEW B, NEW top, Lays(h, top, B), Unheld(h, top), NEW b \in DOMAIN B, b # <<>>,
             NEW q, Unheld(h, q)
      PROVE  B[b] # q
  BY <1>1, <1>2 DEF Unheld, Holds
<1>3. <<>> \in G
  <2> SUFFICES ASSUME NEW b \in Seq(Keys), b \in DOMAIN E, D[<<>>] = E[b]
               PROVE  p = r /\ <<>> = b
    OBVIOUS
  <2>1. D[<<>>] = p /\ E[<<>>] = r
    BY DEF Lays
  <2>2. b = <<>>
    BY <1>2, <2>1
  <2> QED
    BY <2>1, <2>2
<1>4. ASSUME NEW a \in Seq(Keys), NEW key \in Keys, a \in G
      PROVE  Append(a, key) \in G
  <2> DEFINE c == Append(a, key)
  <2>0. c \in Seq(Keys) /\ c # <<>>
    OBVIOUS
  <2> SUFFICES ASSUME NEW b \in Seq(Keys), c \in DOMAIN D, b \in DOMAIN E, D[c] = E[b]
               PROVE  p = r /\ c = b
    BY <2>0
  <2>1. /\ a \in DOMAIN D /\ key \in DOMAIN h[D[a]].children /\ D[a] \in DOMAIN h
        /\ h[D[a]].children[key] = D[c]
    BY DEF Lays
  <2> HIDE DEF c
  <2>2. b # <<>>
    <3>1. E[<<>>] = r
      BY DEF Lays
    <3> QED
      BY <1>2, <2>0, <3>1
  <2>3. PICK f \in Seq(Keys), k \in Keys :
          /\ b = Append(f, k) /\ f \in DOMAIN E /\ E[f] \in DOMAIN h
          /\ k \in DOMAIN h[E[f]].children /\ h[E[f]].children[k] = E[b]
    BY <1>1, <2>2
  <2>4. D[a] = E[f] /\ key = k
    BY <2>1, <2>3 DEF HeldOnce
  <2>5. p = r /\ a = f
    BY <1>4, <2>1, <2>3, <2>4
  <2> QED
    BY <2>3, <2>4, <2>5 DEF c
<1> HIDE DEF G
<1>5. Seq(Keys) \subseteq G
  BY <1>3, <1>4, PathInduction
<1>6. x \in Seq(Keys) /\ y \in Seq(Keys)
  BY DEF Lays, PathMap
<1> QED
  BY <1>5, <1>6 DEF G

\* The tree stays while its properties have the same children.
LEMMA LaysStay ==
  ASSUME NEW h, NEW p, NEW D, Lays(h, p, D), NEW g,
         \A q \in DOMAIN D : D[q] \in DOMAIN g /\ g[D[q]].children = h[D[q]].children
  PROVE  Lays(g, p, D)
BY DEF Lays

\* Every way to something in the tree leads through the tree.
LEMMA LaysWay ==
  ASSUME NEW h, NEW p, NEW D, Lays(h, p, D), NEW q \in Seq(Keys)
  PROVE  \A r \in Seq(Keys) : q \o r \in DOMAIN D => q \in DOMAIN D
<1> DEFINE G == {r \in Seq(Keys) : q \o r \in DOMAIN D => q \in DOMAIN D}
<1>1. <<>> \in G
  BY Behind
<1>2. ASSUME NEW r \in Seq(Keys), NEW key \in Keys, r \in G
      PROVE  Append(r, key) \in G
  <2>1. q \o Append(r, key) = Append(q \o r, key) /\ q \o r \in Seq(Keys) /\ Append(r, key) \in Seq(Keys)
    BY KeyBehind
  <2>2. Append(q \o r, key) \in DOMAIN D => q \o r \in DOMAIN D
    BY <2>1 DEF Lays
  <2> QED
    BY <1>2, <2>1, <2>2
<1> HIDE DEF G
<1>3. Seq(Keys) \subseteq G
  BY <1>1, <1>2, PathInduction
<1> QED
  BY <1>3 DEF G

\* What is below one of the properties is a tree of its own.
LEMMA LaysBelow ==
  ASSUME NEW h, NEW p, NEW D, Lays(h, p, D), NEW at \in DOMAIN D
  PROVE  /\ Lays(h, D[at], Promise!Subtree(D, at))
         /\ Picture(h, Promise!Subtree(D, at)) = Promise!Subtree(Picture(h, D), at)
<1> DEFINE E == Promise!Subtree(D, at)
           F == Promise!Subtree(Picture(h, D), at)
<1>1. PathMap(D) /\ at \in Seq(Keys)
  BY DEF Lays, PathMap
<1>2. /\ PathMap(E)
      /\ \A r \in Seq(Keys) : r \in DOMAIN E <=> at \o r \in DOMAIN D
      /\ \A r \in DOMAIN E : E[r] = D[at \o r]
  BY <1>1, SubtreeFacts
<1>3. /\ PathMap(F)
      /\ \A r \in Seq(Keys) : r \in DOMAIN F <=> at \o r \in DOMAIN Picture(h, D)
      /\ \A r \in DOMAIN F : F[r] = Picture(h, D)[at \o r]
  BY <1>1, SubtreeFacts, PictureFacts
<1> HIDE DEF E, F
<1>4. ASSUME NEW r \in Seq(Keys), NEW key \in Keys
      PROVE  /\ at \o r \in Seq(Keys) /\ Append(r, key) \in Seq(Keys)
             /\ Append(at \o r, key) = at \o Append(r, key)
  BY <1>1, KeyBehind
<1>5. <<>> \in DOMAIN E /\ E[<<>>] = D[at]
  <2>1. <<>> \in Seq(Keys) /\ at \o <<>> = at
    BY <1>1
  <2> QED
    BY <1>2, <2>1
<1>6. DOMAIN E \subseteq Seq(Keys)
  BY <1>2 DEF PathMap
<1>7. \A q \in DOMAIN E : E[q] \in DOMAIN h
  BY <1>2, <1>6 DEF Lays
<1>8. ASSUME NEW q \in DOMAIN E, NEW key \in DOMAIN h[E[q]].children
      PROVE  /\ key \in Keys /\ Append(q, key) \in DOMAIN E
             /\ E[Append(q, key)] = h[E[q]].children[key]
  <2>1. at \o q \in DOMAIN D /\ E[q] = D[at \o q] /\ q \in Seq(Keys)
    BY <1>2, <1>6
  <2>2. key \in Keys /\ Append(at \o q, key) \in DOMAIN D /\ D[Append(at \o q, key)] = h[E[q]].children[key]
    BY <1>8, <2>1 DEF Lays
  <2>3. Append(at \o q, key) = at \o Append(q, key) /\ Append(q, key) \in Seq(Keys)
    BY <1>4, <2>1, <2>2, Zenon
  <2> QED
    BY <1>2, <2>2, <2>3
<1>9. ASSUME NEW q \in Seq(Keys), NEW key \in Keys, Append(q, key) \in DOMAIN E
      PROVE  q \in DOMAIN E /\ key \in DOMAIN h[E[q]].children
  <2>1. Append(at \o q, key) = at \o Append(q, key) /\ Append(q, key) \in Seq(Keys) /\ at \o q \in Seq(Keys)
    BY <1>4, Zenon
  <2>2. Append(at \o q, key) \in DOMAIN D
    BY <1>2, <1>9, <2>1
  <2>3. at \o q \in DOMAIN D /\ key \in DOMAIN h[D[at \o q]].children
    BY <2>1, <2>2 DEF Lays
  <2> QED
    BY <1>2, <2>3
<1>10. Lays(h, D[at], E)
  BY <1>2, <1>5, <1>7, <1>8, <1>9 DEF Lays
<1>11. Picture(h, E) = F
  <2>1. PathMap(Picture(h, E)) /\ DOMAIN Picture(h, E) = DOMAIN E /\ DOMAIN Picture(h, D) = DOMAIN D
    BY <1>1, <1>2, PictureFacts
  <2>2. DOMAIN Picture(h, E) = DOMAIN F
    BY <1>2, <1>3, <2>1 DEF PathMap
  <2>3. ASSUME NEW r \in DOMAIN E
        PROVE  Picture(h, E)[r] = F[r]
    <3>1. Picture(h, E)[r] = NodeOf(h[D[at \o r]])
      BY <1>2, PictureFacts
    <3>2. at \o r \in DOMAIN D /\ r \in DOMAIN F
      BY <1>2, <1>6, <2>1, <2>2
    <3>3. Picture(h, D)[at \o r] = NodeOf(h[D[at \o r]])
      BY <1>1, <3>2, PictureFacts
    <3> QED
      BY <1>3, <3>1, <3>2, <3>3
  <2> QED
    BY <1>3, <2>1, <2>2, <2>3, SameMap DEF PathMap
<1> QED
  BY <1>10, <1>11 DEF E, F

\* In g the property e has p under key, and its other children as before.
Replacing(h, g, e, key, p) ==
  /\ DOMAIN g[e].children = DOMAIN h[e].children \cup {key}
  /\ g[e].children[key] = p
  /\ \A k \in DOMAIN h[e].children : k # key => g[e].children[k] = h[e].children[k]

\* Then the tree has that of p in the place of whatever was there.
LEMMA LaysGrafted ==
  ASSUME NEW h, NEW top, NEW D, Lays(h, top, D), NEW b \in DOMAIN D, NEW key \in Keys,
         NEW g, NEW p, Replacing(h, g, D[b], key, p),
         \A q \in DOMAIN D : D[q] \in DOMAIN g,
         \A q \in DOMAIN D :
           q # b /\ ~IsPrefix(Append(b, key), q) => g[D[q]].children = h[D[q]].children,
         NEW E, Lays(g, p, E)
  PROVE  Lays(g, top, Promise!Graft(D, Append(b, key), E))
<1>1. /\ PathMap(D) /\ b \in Seq(Keys) /\ PathMap(E) /\ Append(b, key) \in Seq(Keys)
      /\ DOMAIN D \subseteq Seq(Keys)
  BY DEF Lays, PathMap
<1>2. PICK at \in Seq(Keys) : at = Append(b, key)
  BY <1>1
<1> DEFINE G == Promise!Graft(D, at, E)
<1>3. IsGraft(G, D, at, E)
  BY <1>1, <1>2, GraftFacts
<1> HIDE DEF G
<1>4. /\ PathMap(G) /\ DOMAIN G \subseteq Seq(Keys)
      /\ \A q \in Seq(Keys) : ~IsPrefix(at, q) => /\ q \in DOMAIN G <=> q \in DOMAIN D
                                                  /\ q \in DOMAIN D => G[q] = D[q]
      /\ \A r \in Seq(Keys) : /\ at \o r \in DOMAIN G <=> r \in DOMAIN E
                              /\ r \in DOMAIN E => G[at \o r] = E[r]
  BY <1>3 DEF IsGraft, PathMap
<1>5. ~IsPrefix(at, <<>>) /\ ~IsPrefix(at, b)
  <2>1. at # <<>> /\ Len(at) = Len(b) + 1 /\ Len(b) \in Nat
    BY <1>1, <1>2
  <2> QED
    BY <2>1, PrefixOrder DEF IsPrefix
<1>6. <<>> \in DOMAIN G /\ G[<<>>] = top
  <2>1. <<>> \in DOMAIN D /\ D[<<>>] = top
    BY DEF Lays
  <2>2. <<>> \in Seq(Keys)
    OBVIOUS
  <2>3. PICK none \in Seq(Keys) : none = <<>>
    BY <2>2
  <2> QED
    BY <1>4, <1>5, <2>1, <2>3
<1>7. ASSUME NEW q \in DOMAIN G
      PROVE  G[q] \in DOMAIN g
  <2>1. CASE ~IsPrefix(at, q)
    BY <1>4, <2>1
  <2>2. CASE IsPrefix(at, q)
    <3>1. PICK r \in Seq(Keys) : q = at \o r
      BY <1>4, <2>2, PrefixGoesOn
    <3>2. r \in DOMAIN E /\ G[q] = E[r]
      BY <1>4, <3>1
    <3> QED
      BY <3>2 DEF Lays
  <2> QED
    BY <2>1, <2>2
<1>8. \A q \in Seq(Keys), k \in Keys :
        /\ IsPrefix(at, Append(q, k)) <=> at = Append(q, k) \/ IsPrefix(at, q)
        /\ at = Append(q, k) <=> q = b /\ k = key
        /\ Append(q, k) \in Seq(Keys)
  <2> TAKE q \in Seq(Keys), k \in Keys
  <2>1. IsPrefix(at, Append(q, k)) <=> at = Append(q, k) \/ IsPrefix(at, q)
    BY PrefixAppend, Zenon
  <2>2. at = Append(q, k) <=> q = b /\ k = key
    BY <1>1, <1>2, AppendOnce
  <2> QED
    BY <2>1, <2>2
<1>9. at \o <<>> = at /\ <<>> \in DOMAIN E /\ E[<<>>] = p
  BY DEF Lays
<1>10. at \in DOMAIN G /\ G[at] = p
  <2>1. <<>> \in Seq(Keys)
    OBVIOUS
  <2> QED
    BY <1>4, <1>9, <2>1
<1>11. ASSUME NEW q \in DOMAIN G, NEW k \in DOMAIN g[G[q]].children
       PROVE  k \in Keys /\ Append(q, k) \in DOMAIN G /\ G[Append(q, k)] = g[G[q]].children[k]
  <2>1. CASE IsPrefix(at, q)
    <3>1. PICK r \in Seq(Keys) : q = at \o r
      BY <1>4, <2>1, PrefixGoesOn
    <3>2. r \in DOMAIN E /\ G[q] = E[r]
      BY <1>4, <3>1
    <3>3. k \in Keys /\ Append(r, k) \in DOMAIN E /\ E[Append(r, k)] = g[E[r]].children[k]
      BY <1>11, <3>2 DEF Lays
    <3>4. Append(q, k) = at \o Append(r, k) /\ Append(r, k) \in Seq(Keys)
      BY <3>1, <3>3, KeyBehind, Zenon
    <3> QED
      BY <1>4, <3>2, <3>3, <3>4
  <2>2. CASE ~IsPrefix(at, q)
    <3>1. q \in DOMAIN D /\ G[q] = D[q] /\ q \in Seq(Keys)
      BY <1>4, <2>2
    <3>2. CASE q = b /\ k = key
      BY <1>2, <1>10, <3>1, <3>2 DEF Replacing
    <3>3. CASE ~(q = b /\ k = key)
      <4>1. k \in DOMAIN h[D[q]].children /\ g[D[q]].children[k] = h[D[q]].children[k]
        <5>1. CASE q = b
          BY <1>11, <3>1, <3>3, <5>1 DEF Replacing
        <5>2. CASE q # b
          BY <1>2, <1>11, <2>2, <3>1, <5>2
        <5> QED
          BY <5>1, <5>2
      <4>2. k \in Keys /\ Append(q, k) \in DOMAIN D /\ D[Append(q, k)] = h[D[q]].children[k]
        BY <3>1, <4>1 DEF Lays
      <4>3. ~IsPrefix(at, Append(q, k)) /\ Append(q, k) \in Seq(Keys)
        BY <1>8, <2>2, <3>1, <3>3, <4>2
      <4>4. Append(q, k) \in DOMAIN G /\ G[Append(q, k)] = D[Append(q, k)]
        BY <1>4, <4>2, <4>3
      <4> QED
        BY <3>1, <4>1, <4>2, <4>4
    <3> QED
      BY <3>2, <3>3
  <2> QED
    BY <2>1, <2>2
<1>12. ASSUME NEW q \in Seq(Keys), NEW k \in Keys, Append(q, k) \in DOMAIN G
       PROVE  q \in DOMAIN G /\ k \in DOMAIN g[G[q]].children
  <2>1. CASE IsPrefix(at, q)
    <3>1. PICK r \in Seq(Keys) : q = at \o r
      BY <2>1, PrefixGoesOn
    <3>2. Append(q, k) = at \o Append(r, k) /\ Append(r, k) \in Seq(Keys)
      BY <3>1, KeyBehind, ZenonT(40)
    <3>3. Append(r, k) \in DOMAIN E
      BY <1>4, <1>12, <3>2
    <3>4. r \in DOMAIN E /\ k \in DOMAIN g[E[r]].children
      BY <3>3 DEF Lays
    <3> QED
      BY <1>4, <3>1, <3>4
  <2>2. CASE ~IsPrefix(at, q)
    <3>1. CASE q = b /\ k = key
      BY <1>1, <1>4, <2>2, <3>1 DEF Replacing
    <3>2. CASE ~(q = b /\ k = key)
      <4>1. Append(q, k) \in DOMAIN D
        BY <1>4, <1>8, <1>12, <2>2, <3>2
      <4>2. q \in DOMAIN D /\ k \in DOMAIN h[D[q]].children
        BY <4>1 DEF Lays
      <4>3. q \in DOMAIN G /\ G[q] = D[q]
        BY <1>4, <2>2, <4>2
      <4>4. k \in DOMAIN g[D[q]].children
        <5>1. CASE q = b
          BY <4>2, <5>1 DEF Replacing
        <5>2. CASE q # b
          BY <1>2, <2>2, <4>2, <5>2
        <5> QED
          BY <5>1, <5>2
      <4> QED
        BY <4>3, <4>4
    <3> QED
      BY <3>1, <3>2
  <2> QED
    BY <2>1, <2>2
<1>13. Lays(g, top, G)
  BY <1>4, <1>6, <1>7, <1>11, <1>12 DEF Lays
<1> QED
  BY <1>2, <1>13 DEF G

\* So does what a program sees, if the nodes on the outside stay.
LEMMA PictureGrafted ==
  ASSUME NEW h, NEW D, PathMap(D), NEW at \in Seq(Keys), NEW g, NEW E, PathMap(E),
         \A q \in DOMAIN D : ~IsPrefix(at, q) => NodeOf(g[D[q]]) = NodeOf(h[D[q]])
  PROVE  Picture(g, Promise!Graft(D, at, E)) = Promise!Graft(Picture(h, D), at, Picture(g, E))
<1> DEFINE G == Promise!Graft(D, at, E)
           P == Picture(g, G)
<1>1. IsGraft(G, D, at, E)
  BY GraftFacts
<1> HIDE DEF G
<1>2. PathMap(G) /\ DOMAIN G \subseteq Seq(Keys) /\ DOMAIN D \subseteq Seq(Keys)
  BY <1>1 DEF IsGraft, PathMap
<1>3. PathMap(P) /\ DOMAIN P = DOMAIN G /\ \A q \in DOMAIN G : P[q] = NodeOf(g[G[q]])
  BY <1>2, PictureFacts
<1>4. PathMap(Picture(h, D)) /\ DOMAIN Picture(h, D) = DOMAIN D
      /\ \A q \in DOMAIN D : Picture(h, D)[q] = NodeOf(h[D[q]])
  BY PictureFacts
<1>5. PathMap(Picture(g, E)) /\ DOMAIN Picture(g, E) = DOMAIN E
      /\ \A q \in DOMAIN E : Picture(g, E)[q] = NodeOf(g[E[q]])
  BY PictureFacts
<1> HIDE DEF P
<1>6. IsGraft(P, Picture(h, D), at, Picture(g, E))
  <2>1. \A q \in Seq(Keys) : ~IsPrefix(at, q) =>
          /\ q \in DOMAIN P <=> q \in DOMAIN Picture(h, D)
          /\ q \in DOMAIN Picture(h, D) => P[q] = Picture(h, D)[q]
    BY <1>1, <1>3, <1>4 DEF IsGraft
  <2>2. \A r \in Seq(Keys) : /\ at \o r \in DOMAIN P <=> r \in DOMAIN Picture(g, E)
                             /\ r \in DOMAIN Picture(g, E) => P[at \o r] = Picture(g, E)[r]
    BY <1>1, <1>3, <1>5 DEF IsGraft
  <2> QED
    BY <1>3, <2>1, <2>2 DEF IsGraft
<1>7. IsGraft(Promise!Graft(Picture(h, D), at, Picture(g, E)), Picture(h, D), at, Picture(g, E))
  BY <1>4, <1>5, GraftFacts
<1>8. P = Promise!Graft(Picture(h, D), at, Picture(g, E))
  BY <1>6, <1>7, GraftUnique
<1> QED
  BY <1>8 DEF P, G
-----------------------------------------------------------------------------
(***************************************************************************)
(* The trees of documents, between two calls and when a call ends.         *)
(***************************************************************************)
\* The tree of a document between two calls.
Layout(h, d) == [q \in {q \in Seq(Keys) : docs[d] \o q \in DOMAIN h} |-> docs[d] \o q]

\* Paths behind the place of a document.
LEMMA BehindDoc ==
  ASSUME NEW d \in Docs
  PROVE  /\ docs[d] = <<d>> /\ docs[d] \in Seq(Steps) \ {<<>>} /\ docs[d] \in Roots(docs)
         /\ docs[d] \o <<>> = docs[d]
         /\ \A q \in Seq(Keys) : /\ docs[d] \o q \in Seq(Steps) \ {<<>>}
                                 /\ \A r \in Seq(Keys) : docs[d] \o q = docs[d] \o r => q = r
                                 /\ \A key \in Keys : Append(docs[d] \o q, key) = docs[d] \o Append(q, key)
<1>1. docs[d] = <<d>> /\ d \in Steps /\ docs[d] \in Roots(docs) /\ Keys \subseteq Steps
  BY DEF docs, Steps, Roots
<1>2. PICK one \in Seq(Steps) : one = docs[d] /\ one # <<>>
  <2>1. <<d>> \in Seq(Steps) /\ <<d>> # <<>>
    BY <1>1
  <2> QED
    BY <1>1, <2>1
<1>3. Seq(Keys) \subseteq Seq(Steps)
  BY <1>1, SeqMonotonic
<1>4. \A q \in Seq(Keys) : one \o q \in Seq(Steps) /\ one \o <<>> = one
  BY <1>3, Behind
<1>5. \A q \in Seq(Keys) : one \o q # <<>>
  <2> TAKE q \in Seq(Keys)
  <2>1. PICK r \in Seq(Steps) : r = q
    BY <1>3
  <2>2. one \o r = <<>> => one = <<>>
    BY ConcatSimplifications
  <2> QED
    BY <1>2, <2>1, <2>2
<1>6. \A q, r \in Seq(Keys) : one \o q = one \o r => q = r
  <2> TAKE q, r \in Seq(Keys)
  <2>1. q \in Seq(Steps) /\ r \in Seq(Steps)
    BY <1>3
  <2>2. PICK a \in Seq(Steps), b \in Seq(Steps) : a = q /\ b = r
    BY <2>1
  <2>3. one \o a = one \o b => a = b
    BY ConcatSimplifications
  <2> QED
    BY <2>2, <2>3
<1>7. \A q \in Seq(Keys), key \in Keys : Append(one \o q, key) = one \o Append(q, key)
  <2> TAKE q \in Seq(Keys), key \in Keys
  <2>1. q \in Seq(Steps) /\ key \in Steps
    BY <1>1, <1>3
  <2> QED
    BY <2>1, StepBehind
<1>8. one \o <<>> = one
  BY JourneyBehind
<1> QED
  BY <1>1, <1>2, <1>4, <1>5, <1>6, <1>7, <1>8

\* That is the tree below the property of the document.
LEMMA LayoutLays ==
  ASSUME NEW h, Sound(h, Roots(docs)), IsTree(h), NEW d \in Docs
  PROVE  Lays(h, docs[d], Layout(h, d))
<1> DEFINE D == Layout(h, d)
           p == docs[d]
<1>1. /\ p \in Seq(Steps) \ {<<>>} /\ p \in Roots(docs) /\ p \o <<>> = p
      /\ \A q \in Seq(Keys) : /\ p \o q \in Seq(Steps) \ {<<>>}
                              /\ \A key \in Keys : Append(p \o q, key) = p \o Append(q, key)
  BY BehindDoc
<1>2. /\ PathMap(D) /\ \A q \in Seq(Keys) : q \in DOMAIN D <=> p \o q \in DOMAIN h
      /\ \A q \in DOMAIN D : q \in Seq(Keys) /\ D[q] = p \o q
  BY DEF Layout, PathMap, IsMap
<1> HIDE DEF D
<1>3. p \in DOMAIN h
  BY <1>1 DEF Sound, RootOK
<1>4. <<>> \in DOMAIN D /\ D[<<>>] = p
  <2>1. <<>> \in Seq(Keys)
    OBVIOUS
  <2> QED
    BY <1>1, <1>2, <1>3, <2>1
<1>5. ASSUME NEW q \in DOMAIN D, NEW key \in DOMAIN h[D[q]].children
      PROVE  key \in Keys /\ Append(q, key) \in DOMAIN D /\ D[Append(q, key)] = h[D[q]].children[key]
  <2>1. q \in Seq(Keys) /\ D[q] = p \o q /\ p \o q \in DOMAIN h
    BY <1>2
  <2>2. key \in Keys /\ h[D[q]].children[key] \in DOMAIN h
    BY <1>5, <2>1 DEF Sound, Linked
  <2>3. h[D[q]].children[key] = Append(p \o q, key)
    BY <1>5, <2>1 DEF IsTree
  <2>4. Append(p \o q, key) = p \o Append(q, key) /\ Append(q, key) \in Seq(Keys)
    <3>1. Append(q, key) \in Seq(Keys)
      BY <2>1, <2>2
    <3>2. \A k \in Keys : Append(docs[d] \o q, k) = docs[d] \o Append(q, k)
      BY <2>1, <1>1
    <3>3. Append(docs[d] \o q, key) = docs[d] \o Append(q, key)
      BY <2>2, <3>2
    <3> QED
      BY <3>1, <3>3
  <2> QED
    BY <1>2, <2>2, <2>3, <2>4
<1>6. ASSUME NEW q \in Seq(Keys), NEW key \in Keys, Append(q, key) \in DOMAIN D
      PROVE  q \in DOMAIN D /\ key \in DOMAIN h[D[q]].children
  <2>1. PICK at \in Seq(Steps) : at = p \o q /\ at # <<>>
    BY <1>1
  <2>2. Append(at, key) \in DOMAIN h
    BY <1>1, <1>2, <1>6, <2>1, ZenonT(40)
  <2>3. key \in Steps
    BY DEF Steps
  <2>4. Append(at, key) \notin Roots(docs)
    <3>1. \A e \in Docs : Append(at, key) # docs[e]
      <4> TAKE e \in Docs
      <4>1. docs[e] = <<e>> /\ docs[e] \in Seq(Steps)
        BY BehindDoc
      <4>2. Len(docs[e]) = 1
        BY <4>1
      <4> QED
        BY <2>1, <2>3, <4>1, <4>2, BehindFirst
    <3> QED
      BY <3>1 DEF Roots
  <2>5. PICK b \in DOMAIN h : \E k \in DOMAIN h[b].children : Append(at, key) = Append(b, k)
    BY <2>2, <2>4 DEF IsTree
  <2>6. PICK k \in DOMAIN h[b].children : Append(at, key) = Append(b, k)
    BY <2>5
  <2>7. b \in Seq(Steps) /\ k \in Steps
    BY <2>6 DEF Sound, Linked, Steps
  <2>8. at = b /\ key = k
    BY <2>3, <2>6, <2>7, AppendOnce
  <2> QED
    BY <1>2, <2>1, <2>6, <2>8
<1> QED
  BY <1>2, <1>4, <1>5, <1>6 DEF Lays, D

\* A tree that has at its paths what Places finds there, and only what is in C.
Planted(h, p, C, D) ==
  /\ Lays(h, p, D) /\ DOMAIN D = {x[1] : x \in Places(h, p)}
  /\ \A x \in Places(h, p) : D[x[1]] = x[2]
  /\ \A q \in DOMAIN D : D[q] = EndOf(Places(h, p), q) /\ D[q] \in C

\* Places are what such a tree has at its paths.
LEMMA PlacesLaid ==
  ASSUME NEW h, Linked(h, Keys), IsFiniteSet(DOMAIN h), NEW C, Structured(h, Steps, C), NEW p \in C
  PROVE  \E D : Planted(h, p, C, D)
<1> DEFINE places == Places(h, p)
           D == [q \in {x[1] : x \in places} |-> EndOf(places, q)]
<1>2. Linked(h, Keys) /\ Linked(h, Steps) /\ C \subseteq DOMAIN h
  BY StepsLinked DEF Structured
<1>3. /\ <<<<>>, p>> \in places
      /\ \A x \in places : /\ x[1] \in Seq(Steps) /\ x[2] \in C
                           /\ EndOf(places, x[1]) = x[2]
      /\ \A x, y \in places : x[1] = y[1] => x = y
      /\ \A x \in places : \A key \in DOMAIN h[x[2]].children :
           <<Append(x[1], key), h[x[2]].children[key]>> \in places
      /\ \A x \in places : x[1] # <<>> =>
           \E at \in places : \E key \in DOMAIN h[at[2]].children :
             x = <<Append(at[1], key), h[at[2]].children[key]>>
  BY <1>2, TreePlaces
<1> HIDE DEF places
<1>4. /\ IsMap(D) /\ \A q : q \in DOMAIN D <=> \E x \in places : x[1] = q
      /\ \A x \in places : D[x[1]] = x[2]
  BY <1>3 DEF IsMap
<1> HIDE DEF D
<1>5. Lays(h, p, D)
  <2>1. DOMAIN D \subseteq Seq(Keys)
    <3> DEFINE G == {q \in Seq(Steps) : q \in DOMAIN D => q \in Seq(Keys)}
    <3>1. <<>> \in G
      OBVIOUS
    <3>2. ASSUME NEW q \in Seq(Steps), NEW k \in Steps, q \in G
          PROVE  Append(q, k) \in G
      <4>1. SUFFICES ASSUME Append(q, k) \in DOMAIN D
                     PROVE  Append(q, k) \in Seq(Keys)
        OBVIOUS
      <4>2. PICK x \in places : x[1] = Append(q, k)
        BY <1>4, <4>1
      <4>3. x[1] # <<>>
        BY <4>2, AppendProperties
      <4>4. PICK at \in places : \E key \in DOMAIN h[at[2]].children :
              x = <<Append(at[1], key), h[at[2]].children[key]>>
        BY <1>3, <4>3
      <4>5. PICK key \in DOMAIN h[at[2]].children : x[1] = Append(at[1], key)
        BY <4>4
      <4>6. at[1] \in Seq(Steps) /\ key \in Keys /\ key \in Steps
        BY <1>2, <1>3 DEF Linked, Steps
      <4>7. Append(q, k) = Append(at[1], key)
        BY <4>2, <4>5
      <4>8. q = at[1] /\ k = key
        BY <4>6, <4>7, AppendOnce
      <4>9. q \in Seq(Keys)
        BY <1>4, <3>2, <4>8
      <4> QED
        BY <4>6, <4>8, <4>9
    <3> HIDE DEF G
    <3>3. Seq(Steps) \subseteq G
      BY <3>1, <3>2, PathInduction
    <3>4. DOMAIN D \subseteq Seq(Steps)
      BY <1>3, <1>4
    <3> QED
      BY <3>3, <3>4 DEF G
  <2>2. <<>> \in DOMAIN D /\ D[<<>>] = p
    <3>1. PICK x \in places : x = <<<<>>, p>>
      BY <1>3
    <3>2. x[1] = <<>> /\ x[2] = p
      BY <3>1
    <3> QED
      BY <1>4, <3>2
  <2>3. \A q \in DOMAIN D : D[q] \in DOMAIN h
    BY <1>2, <1>3, <1>4
  <2>4. ASSUME NEW q \in DOMAIN D, NEW key \in DOMAIN h[D[q]].children
        PROVE  key \in Keys /\ Append(q, key) \in DOMAIN D /\ D[Append(q, key)] = h[D[q]].children[key]
    <3>1. PICK x \in places : x[1] = q /\ D[q] = x[2]
      BY <1>4
    <3>2. PICK y \in places : y = <<Append(x[1], key), h[x[2]].children[key]>>
      BY <1>3, <2>4, <3>1
    <3>3. y[1] = Append(q, key) /\ y[2] = h[D[q]].children[key]
      BY <3>1, <3>2
    <3>4. key \in Keys
      BY <1>2, <2>3, <2>4 DEF Linked
    <3> QED
      BY <1>4, <3>3, <3>4
  <2>5. ASSUME NEW q \in Seq(Keys), NEW key \in Keys, Append(q, key) \in DOMAIN D
        PROVE  q \in DOMAIN D /\ key \in DOMAIN h[D[q]].children
    <3>1. PICK x \in places : x[1] = Append(q, key)
      BY <1>4, <2>5
    <3>2. x[1] # <<>>
      BY <3>1, AppendProperties
    <3>3. PICK at \in places : \E k \in DOMAIN h[at[2]].children :
            x = <<Append(at[1], k), h[at[2]].children[k]>>
      BY <1>3, <3>2
    <3>4. PICK k \in DOMAIN h[at[2]].children : x[1] = Append(at[1], k)
      BY <3>3
    <3>5. at[1] \in Seq(Keys) /\ k \in Keys
      BY <1>2, <1>3, <1>4, <2>1 DEF Linked
    <3>6. Append(q, key) = Append(at[1], k)
      BY <3>1, <3>4
    <3>7. q = at[1] /\ key = k
      BY <3>5, <3>6, AppendOnce
    <3> QED
      BY <1>4, <3>4, <3>7
  <2> QED
    BY <1>4, <2>1, <2>2, <2>3, <2>4, <2>5 DEF Lays, PathMap
<1>6. \A q \in DOMAIN D : D[q] = EndOf(places, q) /\ D[q] \in C
  BY <1>3, <1>4
<1>7. DOMAIN D = {x[1] : x \in places}
  BY DEF D
<1>8. Planted(h, p, C, D)
  BY <1>4, <1>5, <1>6, <1>7 DEF Planted, places
<1> QED
  BY <1>8

\* It is what TreeOf shows.
LEMMA TreeShown ==
  ASSUME NEW h, Sound(h, Roots(docs)), IsTree(h), NEW d \in Docs
  PROVE  TreeOf(h, docs[d]) = Picture(h, Layout(h, d))
<1> DEFINE p == docs[d]
           places == Places(h, p)
<1>1. Lays(h, p, Layout(h, d))
  BY LayoutLays
<1>2. /\ Linked(h, Keys) /\ IsFiniteSet(DOMAIN h) /\ p \in DOMAIN h
      /\ Structured(h, Steps, DOMAIN h)
  <2>1. Linked(h, Keys) /\ IsFiniteSet(DOMAIN h) /\ p \in DOMAIN h
    BY BehindDoc DEF Sound, RootOK
  <2>2. Structured(h, Steps, DOMAIN h)
    BY <2>1 DEF Structured, Shut, Linked, Sound, IsTree
  <2> QED
    BY <2>1, <2>2
<1> HIDE DEF p
<1>3. PICK D : /\ Lays(h, p, D) /\ DOMAIN D = {x[1] : x \in places}
               /\ \A q \in DOMAIN D : D[q] = EndOf(places, q)
  <2>1. PICK D : Planted(h, p, DOMAIN h, D)
    BY <1>2, PlacesLaid
  <2> QED
    BY <2>1 DEF Planted
<1> HIDE DEF places
<1>4. D = Layout(h, d)
  BY <1>1, <1>3, LaysOnce DEF p
<1>5. TreeOf(h, p) = Nodes(h, places)
  BY DEF TreeOf, places
<1>6. Nodes(h, places) = Picture(h, D)
  <2>1. Nodes(h, places) = [q \in DOMAIN D |-> NodeOf(h[EndOf(places, q)])]
    BY <1>3 DEF Nodes, NodeOf
  <2> QED
    BY <1>3, <2>1 DEF Picture
<1> QED
  BY <1>4, <1>5, <1>6 DEF p

\* The end of a call moves every property of a document to its place, and changes
\* nothing that a program sees there.
LEMMA EndShown ==
  ASSUME NEW h, NEW newDocs, Sound(h, Roots(newDocs)), NEW met, Placing(h, newDocs, met),
         NEW d \in Docs, NEW D, Lays(h, newDocs[d], D)
  PROVE  /\ TreeOf(Sweep(h, met), docs[d]) = Picture(h, D)
         /\ \A q \in DOMAIN D : Moved(met, D[q]) = docs[d] \o q
<1> DEFINE g == Sweep(h, met)
           E == [q \in DOMAIN D |-> docs[d] \o q]
<1>1. Relocated(h, met, g) /\ Sound(g, Roots(docs)) /\ IsTree(g)
  BY SweptCells, SweptSound
<1> HIDE DEF g
<1>2. /\ docs[d] = <<d>> /\ docs[d] \o <<>> = docs[d]
      /\ \A q \in Seq(Keys) : \A key \in Keys : Append(docs[d] \o q, key) = docs[d] \o Append(q, key)
  BY BehindDoc
<1>3. DOMAIN D \subseteq Seq(Keys) /\ DOMAIN E = DOMAIN D /\ \A q \in DOMAIN D : E[q] = docs[d] \o q
  BY DEF Lays, PathMap
<1> HIDE DEF E
<1> DEFINE G == {q \in Seq(Keys) : q \in DOMAIN D => <<docs[d] \o q, D[q]>> \in met}
<1>4. <<>> \in G
  <2>1. <<<<d>>, newDocs[d]>> \in met
    BY DEF Placing
  <2> QED
    BY <1>2, <2>1 DEF Lays
<1>5. ASSUME NEW q \in Seq(Keys), NEW key \in Keys, q \in G
      PROVE  Append(q, key) \in G
  <2>1. SUFFICES ASSUME Append(q, key) \in DOMAIN D
                 PROVE  <<docs[d] \o Append(q, key), D[Append(q, key)]>> \in met
    OBVIOUS
  <2>2. q \in DOMAIN D /\ key \in DOMAIN h[D[q]].children /\ D[Append(q, key)] = h[D[q]].children[key]
    BY <2>1 DEF Lays
  <2>3. PICK x \in met : x = <<docs[d] \o q, D[q]>>
    BY <1>5, <2>2
  <2>4. x[1] = docs[d] \o q /\ x[2] = D[q]
    BY <2>3
  <2>5. <<Append(x[1], key), h[x[2]].children[key]>> \in met
    BY <2>2, <2>4 DEF Placing
  <2> QED
    BY <1>2, <2>2, <2>4, <2>5
<1> HIDE DEF G
<1>6. Seq(Keys) \subseteq G
  BY <1>4, <1>5, PathInduction
<1>7. ASSUME NEW q \in DOMAIN D
      PROVE  \E x \in met : x[1] = E[q] /\ x[2] = D[q]
  <2>1. <<docs[d] \o q, D[q]>> \in met
    BY <1>3, <1>6 DEF G
  <2>2. PICK x \in met : x = <<docs[d] \o q, D[q]>>
    BY <2>1
  <2>3. x[1] = docs[d] \o q /\ x[2] = D[q]
    BY <2>2
  <2> QED
    BY <1>3, <2>3
<1>8. ASSUME NEW q \in DOMAIN D
      PROVE  /\ E[q] \in DOMAIN g /\ NodeOf(g[E[q]]) = NodeOf(h[D[q]])
             /\ DOMAIN g[E[q]].children = DOMAIN h[D[q]].children
             /\ \A key \in DOMAIN h[D[q]].children : g[E[q]].children[key] = Append(E[q], key)
             /\ Moved(met, D[q]) = E[q]
  <2>1. PICK x \in met : x[1] = E[q] /\ x[2] = D[q]
    BY <1>7
  <2>2. Moved(met, x[2]) = x[1]
    BY MovedFacts
  <2> QED
    BY <1>1, <2>1, <2>2 DEF Relocated, NodeOf
<1>9. Lays(g, docs[d], E)
  <2>1. PathMap(E)
    BY <1>3 DEF E, PathMap, IsMap
  <2>2. <<>> \in DOMAIN E /\ E[<<>>] = docs[d]
    BY <1>2, <1>3 DEF Lays
  <2>3. \A q \in DOMAIN E : E[q] \in DOMAIN g
    BY <1>3, <1>8
  <2>4. ASSUME NEW q \in DOMAIN E, NEW key \in DOMAIN g[E[q]].children
        PROVE  key \in Keys /\ Append(q, key) \in DOMAIN E /\ E[Append(q, key)] = g[E[q]].children[key]
    <3>1. q \in DOMAIN D /\ q \in Seq(Keys) /\ key \in DOMAIN h[D[q]].children
      BY <1>3, <1>8, <2>4
    <3>2. key \in Keys /\ Append(q, key) \in DOMAIN D
      BY <3>1 DEF Lays
    <3>3. g[E[q]].children[key] = Append(E[q], key)
      BY <1>8, <3>1
    <3> QED
      BY <1>2, <1>3, <3>1, <3>2, <3>3
  <2>5. ASSUME NEW q \in Seq(Keys), NEW key \in Keys, Append(q, key) \in DOMAIN E
        PROVE  q \in DOMAIN E /\ key \in DOMAIN g[E[q]].children
    <3>1. q \in DOMAIN D /\ key \in DOMAIN h[D[q]].children
      BY <1>3, <2>5 DEF Lays
    <3> QED
      BY <1>3, <1>8, <3>1
  <2> QED
    BY <2>1, <2>2, <2>3, <2>4, <2>5 DEF Lays
<1>10. E = Layout(g, d)
  BY <1>1, <1>9, LayoutLays, LaysOnce
<1>11. TreeOf(g, docs[d]) = Picture(g, E)
  BY <1>1, <1>10, TreeShown
<1>12. Picture(g, E) = Picture(h, D)
  BY <1>3, <1>8 DEF Picture
<1> QED
  BY <1>3, <1>8, <1>11, <1>12 DEF g
-----------------------------------------------------------------------------
(***************************************************************************)
(* Kept wrappers as addresses.                                             *)
(***************************************************************************)
\* What a kept wrapper is to a program.
AddressOf(kept) ==
  IF kept # Nowhere /\ ~OfNothing(kept.links) THEN [doc |-> kept.doc, path |-> kept.path]
  ELSE Nowhere

\* At the end of a call it stays that, unless it is lost.
LEMMA SweptAddress ==
  ASSUME NEW h, NEW newDocs, Sound(h, Roots(newDocs)), NEW met, Placing(h, newDocs, met),
         NEW kept, kept # Nowhere => KeptOK(h, kept)
  PROVE  /\ AddressOf(Swept(kept, met)) \in {AddressOf(kept), Nowhere}
         /\ kept = Nowhere \/ Usable(SweepLinks(kept.links, met)) =>
              AddressOf(Swept(kept, met)) = AddressOf(kept)
<1>1. CASE kept = Nowhere
  BY <1>1 DEF Swept
<1>2. CASE kept # Nowhere
  <2> DEFINE links == SweepLinks(kept.links, met)
             new == [kept EXCEPT !.links = links]
  <2>1. kept = Kept(kept.doc, kept.path, kept.links) /\ LinksOK(h, kept.links)
    BY <1>2 DEF KeptOK
  <2>2. links[1].prop = Moved(met, kept.links[1].prop)
    <3>1. 1 \in 1..Len(kept.links)
      BY <2>1, LinksFacts
    <3> QED
      BY <2>1, <3>1, SweptEach
  <2>3. OfNothing(links) <=> OfNothing(kept.links)
    BY <2>2, MovedFacts DEF OfNothing
  <2> HIDE DEF links
  <2>4. new.doc = kept.doc /\ new.path = kept.path /\ new.links = links
    BY <2>1 DEF Kept
  <2> HIDE DEF new
  <2>5. CASE Usable(links)
    <3>1. Swept(kept, met) = new
      BY <1>2, <2>5 DEF Swept, links, new
    <3>2. new # Nowhere => AddressOf(new) = AddressOf(kept)
      BY <1>2, <2>3, <2>4 DEF AddressOf
    <3>3. new # Nowhere
      <4>1. links \in Seq(LinkType(Sweep(h, met)))
        BY <2>1, SweptLinks DEF LinksOK, links
      <4>2. DOMAIN Sweep(h, met) \subseteq Seq(Steps)
        <5>1. DOMAIN Sweep(h, met) = {x[1] : x \in met}
          BY SweptCells DEF Relocated
        <5>2. \A x \in met : x[1] \in Seq(Steps)
          BY DEF Placing
        <5> QED
          BY <5>1, <5>2
      <4>3. LinkType(Sweep(h, met)) \subseteq
              [prop : Seq(Docs \cup Nat \cup Keys) \cup {Null, Gone}, propName : Seq(STRING)]
        <5>1. Seq(Steps) = Seq(Docs \cup Nat \cup Keys)
          <6>1. Steps = Docs \cup Nat \cup Keys
            BY DEF Steps
          <6> QED
            BY <6>1
        <5> QED
          BY <4>2, <5>1 DEF LinkType
      <4> DEFINE L == [prop : Seq(Docs \cup Nat \cup Keys) \cup {Null, Gone}, propName : Seq(STRING)]
      <4>4. LinkType(Sweep(h, met)) \subseteq L
        BY <4>3
      <4> HIDE DEF L
      <4>5. links \in Seq(L)
        BY <4>1, <4>4, SeqMonotonic
      <4>6. new = [doc |-> kept.doc, path |-> kept.path, links |-> links]
        BY <2>1 DEF new, Kept
      <4>7. kept.doc \in Docs /\ kept.path \in Paths
        BY <1>2 DEF KeptOK
      <4>8. new \in [doc : Docs, path : Paths, links : Seq(L)]
        BY <4>5, <4>6, <4>7
      <4> QED
        BY <4>8, NowhereAssumption DEF L
    <3> QED
      BY <3>1, <3>2, <3>3
  <2>6. CASE ~Usable(links)
    <3>1. Swept(kept, met) = Nowhere
      BY <1>2, <2>6 DEF Swept, links
    <3> QED
      BY <2>6, <1>2, <3>1 DEF AddressOf, links
  <2> QED
    BY <2>5, <2>6
<1> QED
  BY <1>1, <1>2

\* The last wrapper of a chain that has a property.
LEMMA LastResolved ==
  ASSUME NEW h, NEW links, LinksOK(h, links)
  PROVE  \/ \A i \in 1..Len(links) : links[i].prop = Null
         \/ \E j : Leading(links, j, Len(links)) /\ links[j].prop # Null
<1>1. Len(links) \in Nat
  BY LinksFacts
<1> DEFINE S == {n \in Nat : \/ \A i \in 1..n : links[i].prop = Null
                             \/ \E j : Leading(links, j, n) /\ links[j].prop # Null}
<1>2. 0 \in S
  OBVIOUS
<1>3. ASSUME NEW n \in Nat, n \in S
      PROVE  n + 1 \in S
  <2>1. CASE links[n + 1].prop # Null
    <3>1. Leading(links, n + 1, n + 1)
      BY DEF Leading
    <3> QED
      BY <2>1, <3>1
  <2>2. CASE links[n + 1].prop = Null
    <3>1. ASSUME NEW j, Leading(links, j, n)
          PROVE  Leading(links, j, n + 1)
      BY <2>2, <3>1 DEF Leading
    <3>2. ASSUME \A i \in 1..n : links[i].prop = Null
          PROVE  \A i \in 1..(n + 1) : links[i].prop = Null
      BY <2>2, <3>2
    <3> QED
      BY <1>3, <3>1, <3>2
  <2> QED
    BY <2>1, <2>2
<1> HIDE DEF S
<1>4. Nat \subseteq S
  BY <1>2, <1>3, NatSetInduction
<1> QED
  BY <1>1, <1>4 DEF S

\* A wrapper can still be used if the last property of its chain has survived.
LEMMA StaysUsable ==
  ASSUME NEW h, NEW R, Sound(h, R), NEW newDocs, NEW met, Placing(h, newDocs, met),
         NEW links, LinksOK(h, links),
         \A j : Leading(links, j, Len(links)) /\ links[j].prop # Null =>
           Moved(met, links[j].prop) # Gone
  PROVE  Usable(SweepLinks(links, met))
<1> DEFINE moved == SweepLinks(links, met)
<1>1. /\ Len(moved) = Len(links) /\ DOMAIN moved = 1..Len(links) /\ Len(links) \in Nat
      /\ \A i \in 1..Len(links) : moved[i].prop = Moved(met, links[i].prop)
  BY SweptEach, LinksFacts
<1> HIDE DEF moved
<1>2. Moved(met, Null) = Null /\ (\A p : p # Null => Moved(met, p) # Null) /\ Null # Gone
  BY MovedFacts, PointersAssumption
<1> SUFFICES ASSUME NEW i \in DOMAIN moved, moved[i].prop = Gone
             PROVE  \E j \in (i + 1)..Len(moved) : moved[j].prop \notin {Null, Gone}
  BY DEF Usable, moved
<1>3. i \in 1..Len(links) /\ links[i].prop # Null
  BY <1>1, <1>2
<1>4. PICK j : Leading(links, j, Len(links)) /\ links[j].prop # Null
  BY <1>3, LastResolved
<1>5. j \in 1..Len(links) /\ \A k \in (j + 1)..Len(links) : links[k].prop = Null
  BY <1>4 DEF Leading
<1>6. moved[j].prop \notin {Null, Gone}
  BY <1>1, <1>2, <1>4, <1>5
<1>7. ~(i >= j)
  <2>1. ASSUME i > j
        PROVE  FALSE
    <3>1. i \in (j + 1)..Len(links)
      BY <1>3, <1>5, <2>1
    <3> QED
      BY <1>3, <1>5, <3>1
  <2>2. i # j
    BY <1>6
  <2> QED
    BY <1>3, <1>5, <2>1, <2>2
<1>8. j \in (i + 1)..Len(moved)
  BY <1>1, <1>3, <1>5, <1>7
<1> QED
  BY <1>6, <1>8
-----------------------------------------------------------------------------
(***************************************************************************)
(* What a kept wrapper is resolved to, and what the end of a call leaves   *)
(* of documents and addresses.                                             *)
(***************************************************************************)
\* What a kept wrapper is resolved to is in its document, on the way to its path.
LEMMA HeldPlace ==
  ASSUME Consistent, WrappersOnPath, NEW w \in Held,
         NEW j, Leading(Links(w), j, Len(Links(w))), Links(w)[j].prop # Null
  PROVE  /\ j \in 1..Len(Links(w)) /\ KeysBetween(Links(w), j, Len(Links(w))) \in Seq(Keys)
         /\ \E x \in DOMAIN Layout(heap, wrapper[w].doc) :
              /\ Links(w)[j].prop = docs[wrapper[w].doc] \o x
              /\ x \o KeysBetween(Links(w), j, Len(Links(w))) = wrapper[w].path
<1> DEFINE d == wrapper[w].doc
           path == wrapper[w].path
           links == Links(w)
           n == Len(links)
           ks == KeysBetween(links, j, n)
           a == links[j].prop
<1>1. /\ w \in Wrappers /\ d \in Docs /\ path \in Seq(Keys)
      /\ LinksOK(heap, links) /\ Usable(links)
      /\ LeadsTo(links, HomeHere, docs[d] \o path)
  BY HeldFacts, HeldLeads, PathsAssumption, HereFacts DEF PathOf
<1>2. n \in Nat /\ DOMAIN links = 1..n /\ links[n] \in LinkType(heap) /\ n > 0
      /\ \A i \in 1..n : links[i] \in LinkType(heap)
  BY <1>1, LinksFacts
<1> HIDE DEF d, path, links, n, a, ks
<1>3. j \in 1..n /\ \A k \in (j + 1)..n : links[k].prop = Null
  BY DEF Leading, links, n
<1>4. a \in DOMAIN heap
  <2>1. a \in DOMAIN heap \cup {Null, Gone}
    BY <1>2, <1>3 DEF LinkType, a
  <2>2. a # Gone
    BY <1>1, <1>2, <1>3 DEF Usable, a, n
  <2> QED
    BY <2>1, <2>2 DEF a, links
<1>5. ks \in Seq(Keys)
  <2>1. j \in Nat /\ n \in Nat /\ j <= n
    BY <1>2, <1>3
  <2>2. \A k \in (j + 1)..n : links[k].propName \in Keys
    <3>1. n \in 1..Len(links) /\ Leading(links, j, n)
      BY <1>2 DEF n, links
    <3> QED
      BY <1>1, <3>1, NamesOfNothing
  <2> QED
    BY <2>1, <2>2, KeysGrow DEF ks
<1>6. a \o ks = docs[d] \o path
  <2>1. j \in DOMAIN links /\ links[j].prop \in DOMAIN HomeHere
    BY <1>2, <1>3, <1>4 DEF HomeHere, a
  <2>2. HomeHere[links[j].prop] \o KeysBetween(links, j, Len(links)) = docs[d] \o path
    BY <1>1, <1>3, <2>1 DEF LeadsTo, n
  <2> QED
    BY <1>4, <2>2 DEF HomeHere, a, ks, n
<1>7. a \in Seq(Steps) \ {<<>>} /\ docs[d] = <<d>> /\ docs[d] \in Seq(Steps) /\ ks \in Seq(Steps)
      /\ path \in Seq(Steps)
  <2>1. Keys \subseteq Steps
    BY DEF Steps
  <2>2. a \in Seq(Steps) \ {<<>>}
    BY <1>4 DEF Consistent, ConsistentState, Sound
  <2>3. ks \in Seq(Steps) /\ path \in Seq(Steps)
    BY <1>1, <1>5, <2>1, SeqMonotonic
  <2> QED
    BY <1>1, <2>2, <2>3, BehindDoc
<1>8. PICK one \in Seq(Steps), b \in Seq(Steps), all \in Seq(Steps) :
        one = docs[d] /\ b = a /\ all = b \o ks /\ all = one \o path
  BY <1>6, <1>7, Behind
<1>9. IsPrefix(one, all) /\ IsPrefix(b, all)
  <2>1. PICK k \in Seq(Steps), l \in Seq(Steps) : k = ks /\ l = path
    BY <1>7
  <2>2. IsPrefix(one, one \o l) /\ IsPrefix(b, b \o k)
    BY JourneyBehind
  <2> QED
    BY <1>8, <2>1, <2>2
<1>10. IsPrefix(one, b)
  <2>1. CASE IsPrefix(b, one)
    <3>1. Len(b) <= Len(one) /\ Len(one) = 1 /\ Len(b) \in Nat /\ Len(b) # 0
          /\ SubSeq(b, 1, Len(b)) = SubSeq(one, 1, Len(b))
      BY <1>7, <1>8, <2>1 DEF IsPrefix
    <3>2. Len(b) = Len(one)
      BY <3>1
    <3>3. SubSeq(b, 1, Len(b)) = b /\ SubSeq(one, 1, Len(one)) = one
      BY SubSeqFull
    <3>4. b = one
      BY <3>1, <3>2, <3>3
    <3> QED
      BY <2>1, <3>4
  <2> QED
    BY <1>9, <2>1, PrefixOrder
<1>11. PICK x \in Seq(Steps) : b = one \o x
  BY <1>10, PrefixGoesOn
<1>12. x \o ks = path
  <2>1. PICK k \in Seq(Steps), l \in Seq(Steps) : k = ks /\ l = path
    BY <1>7
  <2>0. x \o k \in Seq(Steps)
    OBVIOUS
  <2>2. (one \o x) \o k = one \o (x \o k)
    BY ConcatAssociative, SMTT(60)
  <2>3. PICK m \in Seq(Steps) : m = x \o k
    BY <2>0
  <2>4. one \o m = one \o l
    BY <1>8, <1>11, <2>1, <2>2, <2>3
  <2>5. m = l
    BY <2>4, ConcatSimplifications
  <2> QED
    BY <2>1, <2>3, <2>5
<1>13. x \in Seq(Keys)
  <2>1. \A i \in 1..Len(x) : (x \o ks)[i] = x[i] /\ i \in 1..Len(x \o ks)
    BY <1>7
  <2>2. \A i \in 1..Len(x) : x[i] \in Keys
    <3> TAKE i \in 1..Len(x)
    <3>1. path[i] = x[i] /\ i \in 1..Len(path)
      BY <1>12, <2>1
    <3>2. path[i] \in Keys
      BY <1>1, <3>1, ElementOfSeq
    <3> QED
      BY <3>1, <3>2
  <2> QED
    BY <2>2, SeqInto
<1>14. a = docs[d] \o x /\ x \in DOMAIN Layout(heap, d)
  BY <1>4, <1>8, <1>11, <1>13 DEF Layout
<1> QED
  BY <1>3, <1>5, <1>12, <1>14 DEF d, path, links, n, ks, a

\* The document e does not change in a call.
DocStays(s, newDocs, e) ==
  /\ Lays(s.heap, newDocs[e], Layout(heap, e))
  /\ Picture(s.heap, Layout(heap, e)) = Trees[e]

\* A call as it ends.
Ending(s, newDocs, newWrapper) ==
  /\ newDocs \in [Docs -> DOMAIN s.heap] /\ Distinct(newDocs) /\ Sound(s.heap, Roots(newDocs))
  /\ \A w \in Wrappers : newWrapper[w] # Nowhere => KeptOK(s.heap, newWrapper[w])
  /\ End(s, newDocs, newWrapper)

\* What End does.
LEMMA EndDoes ==
  ASSUME NEW s, NEW newDocs, NEW newWrapper, Ending(s, newDocs, newWrapper)
  PROVE  \E met : /\ Placing(s.heap, newDocs, met)
                  /\ heap' = Sweep(s.heap, met)
                  /\ wrapper' = [w \in Wrappers |-> Swept(newWrapper[w], met)]
<1> DEFINE met == Survivors(s, newDocs)
<1>1. heap' = Sweep(s.heap, met) /\ wrapper' = [w \in Wrappers |-> Swept(newWrapper[w], met)]
  BY DEF Ending, End
<1>2. Placing(s.heap, newDocs, met)
  BY SurvivorsPlaced DEF Ending
<1> HIDE DEF met
<1> QED
  BY <1>1, <1>2

\* The program then sees one document changed.
LEMMA DocChanges ==
  ASSUME NEW s, NEW newDocs, NEW newWrapper, Ending(s, newDocs, newWrapper),
         NEW d \in Docs, NEW D, Lays(s.heap, newDocs[d], D),
         \A e \in Docs \ {d} : DocStays(s, newDocs, e)
  PROVE  Trees' = [Trees EXCEPT ![d] = Picture(s.heap, D)]
<1>1. PICK met : /\ Placing(s.heap, newDocs, met) /\ heap' = Sweep(s.heap, met)
  BY EndDoes
<1>2. Sound(s.heap, Roots(newDocs))
  BY DEF Ending
<1>3. TreeOf(heap', docs[d]) = Picture(s.heap, D)
  BY <1>1, <1>2, EndShown
<1>4. \A e \in Docs \ {d} : TreeOf(heap', docs[e]) = Trees[e]
  BY <1>1, <1>2, EndShown DEF DocStays
<1>5. Trees' = [e \in Docs |-> TreeOf(heap', docs[e])]
  BY DEF Trees
<1>6. Trees = [e \in Docs |-> Trees[e]]
  BY DEF Trees
<1> HIDE DEF Trees
<1> QED
  BY <1>3, <1>4, <1>5, <1>6

\* Wrappers are what they were, unless they are lost.
LEMMA AddressesEnd ==
  ASSUME NEW s, NEW newDocs, NEW newWrapper, Ending(s, newDocs, newWrapper)
  PROVE  \A v \in Wrappers : Addresses'[v] \in {AddressOf(newWrapper[v]), Nowhere}
<1>1. PICK met : /\ Placing(s.heap, newDocs, met) /\ heap' = Sweep(s.heap, met)
                 /\ wrapper' = [w \in Wrappers |-> Swept(newWrapper[w], met)]
  BY EndDoes
<1> TAKE v \in Wrappers
<1>2. Addresses'[v] = AddressOf(wrapper'[v])
  BY DEF Addresses, Held, Links, AddressOf
<1>3. wrapper'[v] = Swept(newWrapper[v], met)
  BY <1>1
<1>4. Sound(s.heap, Roots(newDocs)) /\ (newWrapper[v] # Nowhere => KeptOK(s.heap, newWrapper[v]))
  BY DEF Ending
<1>5. AddressOf(Swept(newWrapper[v], met)) \in {AddressOf(newWrapper[v]), Nowhere}
  BY <1>1, <1>4, SweptAddress
<1> QED
  BY <1>2, <1>3, <1>5

\* They are not lost while their documents stay.
LEMMA AddressStays ==
  ASSUME Consistent, WrappersOnPath,
         NEW s, NEW newDocs, NEW newWrapper, Ending(s, newDocs, newWrapper),
         NEW v \in Wrappers, newWrapper[v] = wrapper[v],
         wrapper[v] # Nowhere => DocStays(s, newDocs, wrapper[v].doc)
  PROVE  Addresses'[v] = Addresses[v]
<1>1. PICK met : /\ Placing(s.heap, newDocs, met) /\ heap' = Sweep(s.heap, met)
                 /\ wrapper' = [w \in Wrappers |-> Swept(newWrapper[w], met)]
  BY EndDoes
<1>2. Addresses'[v] = AddressOf(wrapper'[v]) /\ Addresses[v] = AddressOf(wrapper[v])
  BY DEF Addresses, Held, Links, AddressOf
<1>3. wrapper'[v] = Swept(wrapper[v], met)
  BY <1>1
<1>4. Sound(s.heap, Roots(newDocs)) /\ (wrapper[v] # Nowhere => KeptOK(s.heap, wrapper[v]))
  BY DEF Ending
<1>5. wrapper[v] # Nowhere => Usable(SweepLinks(wrapper[v].links, met))
  <2> SUFFICES ASSUME wrapper[v] # Nowhere
               PROVE  Usable(SweepLinks(wrapper[v].links, met))
    OBVIOUS
  <2> DEFINE links == wrapper[v].links
             d == wrapper[v].doc
  <2>1. v \in Held /\ Links(v) = links
    BY DEF Held, Links
  <2>2. LinksOK(s.heap, links) /\ d \in Docs /\ Lays(s.heap, newDocs[d], Layout(heap, d))
    BY <1>4 DEF KeptOK, DocStays
  <2>3. ASSUME NEW j, Leading(links, j, Len(links)), links[j].prop # Null
        PROVE  Moved(met, links[j].prop) # Gone
    <3>1. PICK x \in DOMAIN Layout(heap, d) : links[j].prop = docs[d] \o x
      BY <2>1, <2>3, HeldPlace
    <3>2. Layout(heap, d)[x] = docs[d] \o x /\ x \in Seq(Keys)
      BY <3>1 DEF Layout
    <3>3. Moved(met, links[j].prop) = docs[d] \o x
      <4> DEFINE e == wrapper[v].doc
                 E == Layout(heap, e)
      <4>1. e \in Docs /\ Lays(s.heap, newDocs[e], E) /\ x \in DOMAIN E /\ E[x] = links[j].prop
        BY <2>2, <3>1, <3>2
      <4> HIDE DEF e, E
      <4>2. Moved(met, E[x]) = docs[e] \o x
        BY <1>1, <1>4, <4>1, EndShown
      <4> QED
        BY <4>1, <4>2 DEF e
    <3>4. docs[d] \o x \in Seq(Steps)
      BY <2>2, <3>2, BehindDoc
    <3> QED
      BY <3>3, <3>4, Pointer
  <2> HIDE DEF links
  <2> QED
    BY <1>1, <1>4, <2>2, <2>3, StaysUsable DEF links
<1>6. AddressOf(Swept(wrapper[v], met)) = AddressOf(wrapper[v])
  BY <1>1, <1>4, <1>5, SweptAddress
<1> QED
  BY <1>2, <1>3, <1>6
-----------------------------------------------------------------------------
(***************************************************************************)
(* What the documents are in the middle of a call, and what changes them   *)
(* there: a property that takes the place of another, or a value.          *)
(***************************************************************************)
\* Elements have no value, and children have keys that come up in paths or names.
Plain(h) ==
  \A p \in DOMAIN h : /\ h[p].type = "Element" => h[p].value = 0
                      /\ DOMAIN h[p].children \subseteq KeysInUse

\* A wrapper that leads to nothing does not lead anywhere further on.
NothingLeads ==
  \A w \in Held : OfNothing(Links(w)) => \A i \in DOMAIN Links(w) : Links(w)[i].prop = Null

\* In a call, the document d is the tree T, and has its properties by D; the other
\* documents are as before the call.
Shows(s, d, D, T) ==
  /\ Good(s) /\ s.roots = Roots(docs) /\ Plain(s.heap)
  /\ Lays(s.heap, docs[d], D) /\ Picture(s.heap, D) = T
  /\ \A e \in Docs \ {d} : DocStays(s, docs, e)

\* The tree below a property and what a program sees of it are as before.
LEMMA LaysKept ==
  ASSUME NEW h, NEW p, NEW D, Lays(h, p, D), NEW g,
         \A q \in DOMAIN D : /\ D[q] \in DOMAIN g /\ g[D[q]].children = h[D[q]].children
                             /\ NodeOf(g[D[q]]) = NodeOf(h[D[q]])
  PROVE  Lays(g, p, D) /\ Picture(g, D) = Picture(h, D)
<1>1. Lays(g, p, D)
  BY LaysStay
<1>2. Picture(g, D) = Picture(h, D)
  BY DEF Picture
<1> QED
  BY <1>1, <1>2

\* What documents hold is held by nothing else.
LEMMA DocUnheld ==
  ASSUME NEW s, Good(s), s.roots = Roots(docs), NEW d \in Docs
  PROVE  HeldOnce(s.heap) /\ Unheld(s.heap, docs[d]) /\ docs[d] \in s.roots
<1>1. docs[d] \in Roots(docs)
  BY BehindDoc
<1> QED
  BY <1>1 DEF Good, Sound, RootOK

\* No property is at two places of a document, or in two documents.
LEMMA ShownOnce ==
  ASSUME NEW s, NEW d \in Docs, NEW D, NEW T, Shows(s, d, D, T)
  PROVE  /\ \A x, y \in DOMAIN D : D[x] = D[y] => x = y
         /\ \A e \in Docs \ {d} : \A x \in DOMAIN D, y \in DOMAIN Layout(heap, e) :
              D[x] # Layout(heap, e)[y]
         /\ \A p, E : Unheld(s.heap, p) /\ p \notin s.roots /\ Lays(s.heap, p, E) =>
              \A x \in DOMAIN D, y \in DOMAIN E : D[x] # E[y]
         /\ \A x \in DOMAIN D : D[x] \in DOMAIN s.heap
<1>1. HeldOnce(s.heap) /\ Unheld(s.heap, docs[d]) /\ docs[d] \in s.roots
      /\ Lays(s.heap, docs[d], D)
  BY DocUnheld DEF Shows
<1>2. \A x, y \in DOMAIN D : D[x] = D[y] => x = y
  BY <1>1, LaysApart
<1>3. ASSUME NEW e \in Docs \ {d}, NEW x \in DOMAIN D, NEW y \in DOMAIN Layout(heap, e),
             D[x] = Layout(heap, e)[y]
      PROVE  FALSE
  <2>1. Unheld(s.heap, docs[e]) /\ Lays(s.heap, docs[e], Layout(heap, e))
    BY DocUnheld DEF Shows, DocStays
  <2>2. docs[d] = docs[e]
    BY <1>1, <1>3, <2>1, LaysApart
  <2>3. docs[d] = <<d>> /\ docs[e] = <<e>> /\ <<d>>[1] = d /\ <<e>>[1] = e
    BY DEF docs
  <2>4. d = e
    BY <2>2, <2>3, Zenon
  <2> QED
    BY <2>4
<1>4. ASSUME NEW p, NEW E, Unheld(s.heap, p), p \notin s.roots, Lays(s.heap, p, E),
             NEW x \in DOMAIN D, NEW y \in DOMAIN E, D[x] = E[y]
      PROVE  FALSE
  BY <1>1, <1>4, LaysApart
<1>5. \A x \in DOMAIN D : D[x] \in DOMAIN s.heap
  BY <1>1 DEF Lays
<1> QED
  BY <1>2, <1>3, <1>4, <1>5

\* What was made beside the documents changes none of them.
LEMMA ShowsBeside ==
  ASSUME NEW s, NEW d \in Docs, NEW D, NEW T, Shows(s, d, D, T),
         NEW t, Good(t), t.roots = s.roots, Plain(t.heap),
         \A a \in DOMAIN s.heap : a \in DOMAIN t.heap /\ t.heap[a] = s.heap[a]
  PROVE  Shows(t, d, D, T)
<1>1. ASSUME NEW p, NEW E, Lays(s.heap, p, E)
      PROVE  Lays(t.heap, p, E) /\ Picture(t.heap, E) = Picture(s.heap, E)
  <2>1. \A q \in DOMAIN E : E[q] \in DOMAIN s.heap
    BY <1>1 DEF Lays
  <2> QED
    BY <1>1, <2>1, LaysKept
<1> QED
  BY <1>1 DEF Shows, DocStays

\* Nodes are as before.
NodesStay(s, t) == \A a \in DOMAIN s.heap : NodeOf(t.heap[a]) = NodeOf(s.heap[a])

\* A property of the document is given a child, which nobody has held.
LEMMA ShowsTaken ==
  ASSUME NEW s, NEW d \in Docs, NEW D, NEW T, Shows(s, d, D, T),
         NEW b \in DOMAIN D, NEW key \in KeysInUse \cap Keys,
         NEW p, Unheld(s.heap, p), p \notin s.roots, NEW E, Lays(s.heap, p, E),
         NEW t, Good(t), t.roots = s.roots, Taken(s, t, D[b], key, p), NodesStay(s, t)
  PROVE  Shows(t, d, Promise!Graft(D, Append(b, key), E),
               Promise!Graft(T, Append(b, key), Picture(s.heap, E)))
<1>1. /\ \A x, y \in DOMAIN D : D[x] = D[y] => x = y
      /\ \A e \in Docs \ {d} : \A x \in DOMAIN D, y \in DOMAIN Layout(heap, e) :
           D[x] # Layout(heap, e)[y]
      /\ \A x \in DOMAIN D, y \in DOMAIN E : D[x] # E[y]
      /\ \A x \in DOMAIN D : D[x] \in DOMAIN s.heap
  BY ShownOnce
<1>2. /\ Lays(s.heap, docs[d], D) /\ PathMap(D) /\ b \in Seq(Keys) /\ Append(b, key) \in Seq(Keys)
      /\ Picture(s.heap, D) = T /\ Plain(s.heap) /\ s.roots = Roots(docs)
      /\ DOMAIN t.heap = DOMAIN s.heap
      /\ \A x \in DOMAIN E : E[x] \in DOMAIN s.heap
      /\ PathMap(E)
  BY DEF Shows, Lays, PathMap, Taken
<1>3. Lays(t.heap, p, E) /\ Picture(t.heap, E) = Picture(s.heap, E)
  <2>1. \A x \in DOMAIN E : E[x] \in DOMAIN t.heap /\ t.heap[E[x]].children = s.heap[E[x]].children
                            /\ NodeOf(t.heap[E[x]]) = NodeOf(s.heap[E[x]])
    BY <1>1, <1>2 DEF Taken, NodesStay
  <2> QED
    BY <2>1, LaysKept
<1>4. Lays(t.heap, docs[d], Promise!Graft(D, Append(b, key), E))
  <2>1. Replacing(s.heap, t.heap, D[b], key, p)
    <3>1. t.heap[D[b]].children = With(s.heap[D[b]].children, Only(key, p))
      BY DEF Taken
    <3>2. DOMAIN Only(key, p) = {key} /\ Only(key, p)[key] = p
      BY DEF Only
    <3> QED
      BY <3>1, <3>2 DEF Replacing, With
  <2>2. \A q \in DOMAIN D : D[q] \in DOMAIN t.heap
    BY <1>1, <1>2
  <2>3. \A q \in DOMAIN D : q # b => t.heap[D[q]].children = s.heap[D[q]].children
    BY <1>1 DEF Taken
  <2> QED
    BY <1>2, <1>3, <2>1, <2>2, <2>3, LaysGrafted
<1>5. Picture(t.heap, Promise!Graft(D, Append(b, key), E))
        = Promise!Graft(T, Append(b, key), Picture(s.heap, E))
  <2>1. \A q \in DOMAIN D : NodeOf(t.heap[D[q]]) = NodeOf(s.heap[D[q]])
    BY <1>1 DEF NodesStay
  <2> QED
    <3>1. PICK at \in Seq(Keys) : at = Append(b, key)
      BY <1>2
    <3>2. \A q \in DOMAIN D : ~IsPrefix(at, q) => NodeOf(t.heap[D[q]]) = NodeOf(s.heap[D[q]])
      BY <2>1
    <3>3. PathMap(D) /\ PathMap(E)
      BY <1>2
    <3>4. Picture(t.heap, Promise!Graft(D, at, E))
            = Promise!Graft(Picture(s.heap, D), at, Picture(t.heap, E))
      BY <3>2, <3>3, PictureGrafted
    <3> QED
      BY <1>2, <1>3, <3>1, <3>4
<1>6. ASSUME NEW e \in Docs \ {d}
      PROVE  DocStays(t, docs, e)
  <2> DEFINE L == Layout(heap, e)
  <2>1. Lays(s.heap, docs[e], L) /\ Picture(s.heap, L) = Trees[e]
    BY DEF Shows, DocStays
  <2>2. \A x \in DOMAIN L : /\ L[x] \in DOMAIN t.heap /\ t.heap[L[x]].children = s.heap[L[x]].children
                            /\ NodeOf(t.heap[L[x]]) = NodeOf(s.heap[L[x]])
    <3>1. \A x \in DOMAIN L : L[x] \in DOMAIN s.heap /\ L[x] # D[b]
      BY <1>1, <2>1 DEF Lays
    <3> HIDE DEF L
    <3> QED
      BY <1>2, <3>1 DEF Taken, NodesStay
  <2> HIDE DEF L
  <2>3. Lays(t.heap, docs[e], L) /\ Picture(t.heap, L) = Picture(s.heap, L)
    BY <2>1, <2>2, LaysKept
  <2> QED
    BY <2>1, <2>3 DEF DocStays, L
<1>7. Plain(t.heap)
  <2> SUFFICES ASSUME NEW a \in DOMAIN s.heap
               PROVE  /\ t.heap[a].type = "Element" => t.heap[a].value = 0
                      /\ DOMAIN t.heap[a].children \subseteq KeysInUse
    BY <1>2 DEF Plain
  <2>1. t.heap[a].type = s.heap[a].type /\ t.heap[a].value = s.heap[a].value
    BY DEF NodesStay, NodeOf
  <2>2. DOMAIN t.heap[a].children \subseteq DOMAIN s.heap[a].children \cup {key}
    <3>1. DOMAIN Only(key, p) = {key}
      BY DEF Only
    <3> QED
      BY <3>1 DEF Taken, With
  <2> QED
    BY <1>2, <2>1, <2>2 DEF Plain
<1> QED
  BY <1>2, <1>4, <1>5, <1>6, <1>7 DEF Shows

\* The value of a property of the document is set, not that of an element.
LEMMA ShowsValue ==
  ASSUME NEW s, NEW d \in Docs, NEW D, NEW T, Shows(s, d, D, T), NEW at \in DOMAIN D,
         s.heap[D[at]].type # "Element",
         NEW t, Good(t), Changed(s, t, D[at]), t.heap[D[at]].children = s.heap[D[at]].children
  PROVE  /\ Shows(t, d, D, [T EXCEPT ![at] = NodeOf(t.heap[D[at]])])
         /\ [T EXCEPT ![at] = NodeOf(t.heap[D[at]])]
              = Promise!Graft(T, at, Promise!Leaf(NodeOf(t.heap[D[at]])))
<1> DEFINE c == NodeOf(t.heap[D[at]])
           U == [T EXCEPT ![at] = c]
<1>1. /\ \A x, y \in DOMAIN D : D[x] = D[y] => x = y
      /\ \A e \in Docs \ {d} : \A x \in DOMAIN D, y \in DOMAIN Layout(heap, e) :
           D[x] # Layout(heap, e)[y]
      /\ \A x \in DOMAIN D : D[x] \in DOMAIN s.heap
  BY ShownOnce
<1>2. /\ Lays(s.heap, docs[d], D) /\ PathMap(D) /\ at \in Seq(Keys) /\ IsMap(D)
      /\ Picture(s.heap, D) = T /\ Plain(s.heap) /\ s.roots = Roots(docs) /\ Good(s)
      /\ DOMAIN t.heap = DOMAIN s.heap /\ t.roots = s.roots
  BY DEF Shows, Lays, PathMap, Changed
<1>3. \A a \in DOMAIN s.heap : t.heap[a].children = s.heap[a].children
                               /\ t.heap[a].type = s.heap[a].type
  BY <1>1 DEF Changed
<1>4. Lays(t.heap, docs[d], D)
  BY <1>1, <1>2, <1>3, LaysStay
<1>5. PathMap(T) /\ DOMAIN T = DOMAIN D /\ \A q \in DOMAIN D : T[q] = NodeOf(s.heap[D[q]])
  BY <1>2, PictureFacts
<1>6. PathMap(Picture(t.heap, D)) /\ DOMAIN Picture(t.heap, D) = DOMAIN D
      /\ \A q \in DOMAIN D : Picture(t.heap, D)[q] = NodeOf(t.heap[D[q]])
  BY <1>2, PictureFacts
<1>7. PathMap(U) /\ DOMAIN U = DOMAIN D /\ \A q \in DOMAIN D : U[q] = IF q = at THEN c ELSE T[q]
  BY <1>5 DEF PathMap, IsMap
<1>8. Picture(t.heap, D) = U
  <2>1. \A q \in DOMAIN D : q # at => NodeOf(t.heap[D[q]]) = NodeOf(s.heap[D[q]])
    BY <1>1 DEF Changed
  <2> HIDE DEF U
  <2>2. \A q \in DOMAIN D : Picture(t.heap, D)[q] = U[q]
    BY <1>5, <1>6, <1>7, <2>1 DEF c
  <2> QED
    BY <1>6, <1>7, <2>2, SamePathMap
<1>9. ASSUME NEW e \in Docs \ {d}
      PROVE  DocStays(t, docs, e)
  <2> DEFINE L == Layout(heap, e)
  <2>1. Lays(s.heap, docs[e], L) /\ Picture(s.heap, L) = Trees[e]
    BY DEF Shows, DocStays
  <2>2. \A x \in DOMAIN L : /\ L[x] \in DOMAIN t.heap /\ t.heap[L[x]].children = s.heap[L[x]].children
                            /\ NodeOf(t.heap[L[x]]) = NodeOf(s.heap[L[x]])
    <3>1. \A x \in DOMAIN L : L[x] \in DOMAIN s.heap /\ L[x] # D[at]
      BY <1>1, <2>1 DEF Lays
    <3> HIDE DEF L
    <3> QED
      BY <1>2, <3>1 DEF Changed
  <2> HIDE DEF L
  <2>3. Lays(t.heap, docs[e], L) /\ Picture(t.heap, L) = Picture(s.heap, L)
    BY <2>1, <2>2, LaysKept
  <2> QED
    BY <2>1, <2>3 DEF DocStays, L
<1>10. Plain(t.heap)
  <2>1. ASSUME NEW a \in DOMAIN s.heap, t.heap[a].type = "Element"
        PROVE  t.heap[a].value = 0
    <3>1. a # D[at] /\ t.heap[a] = s.heap[a]
      BY <1>1, <1>3, <2>1 DEF Changed
    <3> QED
      BY <1>2, <2>1, <3>1 DEF Plain
  <2> QED
    BY <1>2, <1>3, <2>1 DEF Plain
<1>11. Shows(t, d, D, U)
  BY <1>2, <1>4, <1>8, <1>9, <1>10 DEF Shows
<1>12. ASSUME NEW r \in Seq(Keys)
       PROVE  at \o r \in DOMAIN D <=> r = <<>>
  <2>1. at \o <<>> = at
    BY <1>2, Behind
  <2>2. ASSUME r # <<>>, at \o r \in DOMAIN D
        PROVE  FALSE
    <3>1. PICK key \in Keys, m \in Seq(Keys) : at \o r = Append(at, key) \o m
      <4>1. at \in Seq(Keys)
        BY <1>2
      <4> QED
        BY <2>2, <4>1, KeyFirst
    <3>2. Append(at, key) \in Seq(Keys)
      BY <1>2
    <3>3. Append(at, key) \in DOMAIN D
      BY <1>2, <2>2, <3>1, <3>2, LaysWay
    <3>4. key \in DOMAIN s.heap[D[at]].children
      BY <1>2, <3>3 DEF Lays
    <3>5. CellOK(s.heap, D[at])
      BY <1>1, <1>2 DEF Good, Sound
    <3> QED
      BY <3>4, <3>5 DEF CellOK
  <2> QED
    BY <2>1, <2>2
<1>13. U = Promise!Graft(T, at, Promise!Leaf(c))
  <2> DEFINE F == Promise!Leaf(c)
  <2>1. F = [path \in {<<>>} |-> c]
    BY DEF Promise!Leaf
  <2>2. PathMap(F) /\ DOMAIN F = {<<>>} /\ F[<<>>] = c
    <3>1. DOMAIN F = {<<>>} /\ <<>> \in Seq(Keys) /\ F[<<>>] = c
      BY <2>1
    <3>2. IsMap(F)
      BY <2>1, <3>1 DEF IsMap
    <3> QED
      BY <3>1, <3>2 DEF PathMap
  <2> HIDE DEF F
  <2>3. IsGraft(Promise!Graft(T, at, F), T, at, F)
    BY <1>2, <1>5, <2>2, GraftFacts
  <2>4. IsGraft(U, T, at, F)
    <3>1. at \o <<>> = at /\ IsPrefix(at, at)
      BY <1>2, Behind, PrefixOrder
    <3>2. \A q \in Seq(Keys) : ~IsPrefix(at, q) => /\ q \in DOMAIN U <=> q \in DOMAIN T
                                                   /\ q \in DOMAIN T => U[q] = T[q]
      BY <1>5, <1>7, <3>1
    <3>3. \A r \in Seq(Keys) : /\ at \o r \in DOMAIN U <=> r \in DOMAIN F
                               /\ r \in DOMAIN F => U[at \o r] = F[r]
      BY <1>7, <1>12, <2>2, <3>1
    <3> HIDE DEF U
    <3> QED
      BY <1>7, <3>2, <3>3 DEF IsGraft
  <2> HIDE DEF U
  <2> QED
    BY <1>2, <2>3, <2>4, GraftUnique DEF F
<1> QED
  BY <1>11, <1>13
-----------------------------------------------------------------------------
(***************************************************************************)
(* Properties that a call makes, one at a time or as the copy of others.   *)
(***************************************************************************)
\* What a new property without children is.
LEMMA MadeLays ==
  ASSUME NEW s, NEW t, NEW c, Made(s, t, c), DOMAIN c.children = {}
  PROVE  /\ Lays(t.heap, t.prop, Promise!Leaf(t.prop))
         /\ Picture(t.heap, Promise!Leaf(t.prop)) = Promise!Leaf(NodeOf(c))
<1> DEFINE E == Promise!Leaf(t.prop)
<1>1. E = [path \in {<<>>} |-> t.prop] /\ Promise!Leaf(NodeOf(c)) = [path \in {<<>>} |-> NodeOf(c)]
  BY DEF Promise!Leaf
<1>2. DOMAIN E = {<<>>} /\ <<>> \in Seq(Keys) /\ E[<<>>] = t.prop
  BY <1>1
<1>3. PathMap(E)
  BY <1>1, <1>2 DEF PathMap, IsMap
<1> HIDE DEF E
<1>4. t.prop \in DOMAIN t.heap /\ t.heap[t.prop] = c
  BY DEF Made
<1>5. \A q \in Seq(Keys), key \in Keys : Append(q, key) # <<>>
  BY AppendProperties
<1>6. Lays(t.heap, t.prop, E)
  BY <1>2, <1>3, <1>4, <1>5 DEF Lays
<1>7. Picture(t.heap, E) = [path \in {<<>>} |-> NodeOf(c)]
  <2>1. Picture(t.heap, E) = [path \in {<<>>} |-> NodeOf(t.heap[E[path]])]
    BY <1>2 DEF Picture
  <2> QED
    BY <1>2, <1>4, <2>1
<1> QED
  BY <1>1, <1>6, <1>7 DEF E

\* A state with another value of a property.
Revalued(s, a, x) == [s EXCEPT !.heap[a].value = x]

\* Nothing else changes with the value.
LEMMA RevaluedFacts ==
  ASSUME NEW s, Good(s), NEW a \in DOMAIN s.heap, NEW x
  PROVE  /\ Good(Revalued(s, a, x))
         /\ Grown(s, Revalued(s, a, x))
         /\ Changed(s, Revalued(s, a, x), a)
         /\ Revalued(s, a, x).heap[a].children = s.heap[a].children
         /\ Revalued(s, a, x).heap[a].value = x
<1>1. /\ Good(Revalued(s, a, x))
      /\ Grown(s, Revalued(s, a, x))
      /\ Changed(s, Revalued(s, a, x), a)
      /\ Revalued(s, a, x).heap[a].children = s.heap[a].children
  BY ValueSound DEF Revalued
<1>2. s = [heap |-> s.heap, roots |-> s.roots, outcome |-> s.outcome, prop |-> s.prop, links |-> s.links]
      /\ IsCell(s.heap[a])
  BY DEF Good, IsState, Sound, CellOK
<1>3. Revalued(s, a, x).heap[a].value = x
  BY <1>2 DEF IsCell, Revalued
<1> QED
  BY <1>1, <1>3

\* A value of a document, changed in place, is a leaf in the place of another.
LEMMA ShowsRevalued ==
  ASSUME NEW s, NEW d \in Docs, NEW D, NEW T, Shows(s, d, D, T), NEW at \in DOMAIN D,
         s.heap[D[at]].type # "Element", NEW x
  PROVE  /\ Shows(Revalued(s, D[at], x), d, D,
                  Promise!Graft(T, at, Promise!Leaf(Promise!Node(s.heap[D[at]].type, x))))
         /\ Grown(s, Revalued(s, D[at], x))
         /\ Revalued(s, D[at], x).links = s.links
<1> DEFINE a == D[at]
           t == Revalued(s, a, x)
           c == NodeOf(t.heap[a])
<1>1. Good(s) /\ a \in DOMAIN s.heap
  BY DEF Shows, Lays
<1> HIDE DEF a, t
<1>2. t = Revalued(s, a, x)
  BY DEF t
<1>3. /\ Good(t) /\ Grown(s, t) /\ Changed(s, t, a)
      /\ t.heap[a].children = s.heap[a].children /\ t.heap[a].value = x
  BY <1>1, <1>2, RevaluedFacts
<1>4. Shows(t, d, D, [T EXCEPT ![at] = c]) /\ [T EXCEPT ![at] = c] = Promise!Graft(T, at, Promise!Leaf(c))
  BY <1>3, ShowsValue DEF a
<1>5. c = Promise!Node(s.heap[a].type, x)
  BY <1>3 DEF NodeOf, Promise!Node, Changed
<1>6. t.links = s.links
  BY <1>3 DEF Changed
<1> QED
  BY <1>3, <1>4, <1>5, <1>6 DEF a, t

\* The property that the state t has come to is a new one, that holds nothing.
MadeOf(s, t, type, value) ==
  \E c : /\ Made(s, t, c) /\ IsCell(c) /\ c.type = type /\ c.value = value
         /\ DOMAIN c.children = {} /\ c.parentProperty = Null

\* Property::Create.
LEMMA CreateMakes ==
  ASSUME NEW s, Good(s), NEW type, NEW value
  PROVE  /\ Good(Create(s, type, value))
         /\ Grown(s, Create(s, type, value))
         /\ MadeOf(s, Create(s, type, value), type, value)
<1>1. Good(Create(s, type, value))
  BY CreateFacts
<1>2. Grown(s, Create(s, type, value))
  BY CreateFacts
<1>3. \E c : /\ Made(s, Create(s, type, value), c)
             /\ IsCell(c) /\ c.type = type /\ c.value = value
             /\ DOMAIN c.children = {}
             /\ c.parentProperty = Null
             /\ c.fromProperty = IF Collection(type) THEN Fresh(s) ELSE Null
  BY <1>1, CreateFacts
<1> QED
  BY <1>1, <1>2, <1>3 DEF MadeOf

\* The state t has come to a property that looks like T.
Copied(t, T) ==
  /\ Plain(t.heap)
  /\ \E E : Lays(t.heap, t.prop, E) /\ Picture(t.heap, E) = T

\* A copy looks like what it was made from.
LEMMA CopyShown ==
  ASSUME NEW s, Good(s), Plain(s.heap), NEW C, Structured(s.heap, Steps, C), NEW p \in C,
         NEW isRead \in BOOLEAN, NEW D, Lays(s.heap, p, D)
  PROVE  Copied(NewTree(s, p, isRead), Picture(s.heap, D))
<1> DEFINE t == NewTree(s, p, isRead)
           places == Places(s.heap, p)
<1>1. PICK made : Rebuilt(s, t, places, made)
  BY NewTreeMade
<1>2. Linked(s.heap, Keys) /\ IsFiniteSet(DOMAIN s.heap) /\ C \subseteq DOMAIN s.heap
  BY DEF Good, Sound, Structured
<1>3. PICK d : /\ Lays(s.heap, p, d) /\ DOMAIN d = {x[1] : x \in places}
               /\ \A x \in places : d[x[1]] = x[2]
               /\ \A q \in DOMAIN d : d[q] = EndOf(places, q) /\ d[q] \in C
  <2>1. PICK d : Planted(s.heap, p, C, d)
    BY <1>2, PlacesLaid
  <2> QED
    BY <2>1 DEF Planted
<1>4. d = D
  BY <1>3, LaysOnce
<1>5. PICK c \in Seq(Steps) : c = Fresh(s) /\ c # <<>>
  BY FreshFacts DEF Good, Sound
<1> HIDE DEF t, places
<1>6. /\ t.heap = With(s.heap, made) /\ t.prop = c /\ Image(s.heap, places, c, made)
  BY <1>1, <1>5 DEF Rebuilt
<1>7. DOMAIN D \subseteq Seq(Keys) /\ DOMAIN D \subseteq Seq(Steps)
  <2>1. Keys \subseteq Steps
    BY DEF Steps
  <2>2. Seq(Keys) \subseteq Seq(Steps)
    BY <2>1, SeqMonotonic
  <2> QED
    BY <2>2 DEF Lays, PathMap
<1>8. \A q \in DOMAIN D :
        /\ c \o q \in DOMAIN made
        /\ NodeOf(made[c \o q]) = NodeOf(s.heap[D[q]])
        /\ DOMAIN made[c \o q].children = DOMAIN s.heap[D[q]].children
        /\ \A key \in DOMAIN s.heap[D[q]].children : made[c \o q].children[key] = c \o Append(q, key)
  <2> TAKE q \in DOMAIN D
  <2>1. PICK x \in places : x[1] = q /\ x[2] = D[q]
    BY <1>3, <1>4
  <2> QED
    BY <1>6, <2>1 DEF Image, NodeOf
<1>9. DOMAIN made = {c \o q : q \in DOMAIN D}
  <2>1. DOMAIN made = {c \o x[1] : x \in places} /\ DOMAIN D = {x[1] : x \in places}
    BY <1>3, <1>4, <1>6 DEF Image
  <2> DEFINE X == DOMAIN D
             Y == DOMAIN made
  <2>2. X = {x[1] : x \in places} /\ Y = {c \o x[1] : x \in places}
    BY <2>1
  <2> HIDE DEF X, Y
  <2>3. Y = {c \o q : q \in X}
    BY <2>2
  <2> QED
    BY <2>3 DEF X, Y
<1>10. \A a \in DOMAIN made : t.heap[a] = made[a] /\ a \in DOMAIN t.heap
  BY <1>6 DEF With
<1> DEFINE E == [q \in DOMAIN D |-> c \o q]
<1>11. PathMap(E) /\ DOMAIN E = DOMAIN D /\ \A q \in DOMAIN D : E[q] = c \o q
  BY <1>7 DEF PathMap, IsMap
<1> HIDE DEF E
<1>12. Lays(t.heap, c, E)
  <2>1. <<>> \in DOMAIN E /\ E[<<>>] = c
    BY <1>5, <1>11, Behind DEF Lays
  <2>2. \A q \in DOMAIN E : E[q] \in DOMAIN t.heap
    BY <1>8, <1>10, <1>11
  <2>3. ASSUME NEW q \in DOMAIN E, NEW key \in DOMAIN t.heap[E[q]].children
        PROVE  key \in Keys /\ Append(q, key) \in DOMAIN E /\ E[Append(q, key)] = t.heap[E[q]].children[key]
    <3>1. t.heap[E[q]] = made[c \o q] /\ key \in DOMAIN s.heap[D[q]].children /\ q \in DOMAIN D
      BY <1>8, <1>10, <1>11, <2>3
    <3>2. key \in Keys /\ Append(q, key) \in DOMAIN D
      BY <3>1 DEF Lays
    <3> QED
      BY <1>8, <1>11, <3>1, <3>2
  <2>4. ASSUME NEW q \in Seq(Keys), NEW key \in Keys, Append(q, key) \in DOMAIN E
        PROVE  q \in DOMAIN E /\ key \in DOMAIN t.heap[E[q]].children
    <3>1. q \in DOMAIN D /\ key \in DOMAIN s.heap[D[q]].children
      BY <1>11, <2>4 DEF Lays
    <3> QED
      BY <1>8, <1>10, <1>11, <3>1
  <2> QED
    BY <1>11, <2>1, <2>2, <2>3, <2>4 DEF Lays
<1>13. Picture(t.heap, E) = Picture(s.heap, D)
  BY <1>8, <1>10, <1>11 DEF Picture
<1>14. Plain(t.heap)
  <2> SUFFICES ASSUME NEW a \in DOMAIN t.heap
               PROVE  /\ t.heap[a].type = "Element" => t.heap[a].value = 0
                      /\ DOMAIN t.heap[a].children \subseteq KeysInUse
    BY DEF Plain
  <2>1. CASE a \in DOMAIN made
    <3>1. PICK q \in DOMAIN D : a = c \o q
      BY <1>9, <2>1
    <3>2. /\ t.heap[a].type = s.heap[D[q]].type /\ t.heap[a].value = s.heap[D[q]].value
          /\ DOMAIN t.heap[a].children = DOMAIN s.heap[D[q]].children
      BY <1>8, <1>10, <2>1, <3>1 DEF NodeOf
    <3>3. D[q] \in DOMAIN s.heap
      BY DEF Lays
    <3> QED
      BY <3>2, <3>3 DEF Plain
  <2>2. CASE a \notin DOMAIN made
    <3>1. a \in DOMAIN s.heap /\ t.heap[a] = s.heap[a]
      BY <1>6, <2>2 DEF With
    <3> QED
      BY <3>1 DEF Plain
  <2> QED
    BY <2>1, <2>2
<1> QED
  BY <1>6, <1>12, <1>13, <1>14 DEF t, Copied

\* A tree whose inner nodes are elements.
Tidy(T) ==
  /\ PathMap(T) /\ <<>> \in DOMAIN T
  /\ \A q \in DOMAIN T : T[q].type = "Element" => T[q] = Promise!ElementNode
  /\ \A q \in Seq(Keys), key \in Keys :
       Append(q, key) \in DOMAIN T =>
         q \in DOMAIN T /\ T[q] = Promise!ElementNode /\ key \in KeysInUse

\* Properties are such trees.
LEMMA PictureTidy ==
  ASSUME NEW h, NEW R, Sound(h, R), Plain(h), NEW p, NEW D, Lays(h, p, D)
  PROVE  Tidy(Picture(h, D))
<1> DEFINE T == Picture(h, D)
<1>1. PathMap(T) /\ DOMAIN T = DOMAIN D /\ \A q \in DOMAIN D : T[q] = NodeOf(h[D[q]])
  BY PictureFacts DEF Lays
<1>2. \A q \in DOMAIN D : D[q] \in DOMAIN h
  BY DEF Lays
<1> HIDE DEF T
<1>3. ASSUME NEW q \in DOMAIN T, T[q].type = "Element"
      PROVE  T[q] = Promise!ElementNode
  <2>1. T[q] = [type |-> h[D[q]].type, value |-> h[D[q]].value] /\ D[q] \in DOMAIN h
    BY <1>1, <1>2 DEF NodeOf
  <2>2. h[D[q]].type = "Element" /\ h[D[q]].value = 0
    BY <1>3, <2>1 DEF Plain
  <2> QED
    BY <2>1, <2>2 DEF Promise!ElementNode, Promise!Node
<1>4. ASSUME NEW q \in Seq(Keys), NEW key \in Keys, Append(q, key) \in DOMAIN T
      PROVE  q \in DOMAIN T /\ T[q] = Promise!ElementNode /\ key \in KeysInUse
  <2>1. q \in DOMAIN D /\ key \in DOMAIN h[D[q]].children
    BY <1>1, <1>4 DEF Lays
  <2>2. D[q] \in DOMAIN h /\ CellOK(h, D[q])
    BY <1>2, <2>1 DEF Sound
  <2>3. h[D[q]].type = "Element"
    BY <2>1, <2>2 DEF CellOK
  <2>4. T[q].type = "Element"
    BY <1>1, <2>1, <2>3 DEF NodeOf
  <2> QED
    BY <1>1, <1>3, <2>1, <2>2, <2>4 DEF Plain
<1> QED
  BY <1>1, <1>3, <1>4 DEF Tidy, T, Lays

\* So are documents.
LEMMA ShowsPaths ==
  ASSUME NEW s, NEW d \in Docs, NEW D, NEW T, Shows(s, d, D, T)
  PROVE  Tidy(T) /\ DOMAIN T = DOMAIN D
<1>1. Sound(s.heap, s.roots) /\ Plain(s.heap) /\ Lays(s.heap, docs[d], D) /\ T = Picture(s.heap, D)
  BY DEF Shows, Good
<1>2. Tidy(T)
  BY <1>1, PictureTidy
<1>3. DOMAIN T = DOMAIN D
  BY <1>1, PictureFacts DEF Lays
<1> QED
  BY <1>2, <1>3

\* The roots of documents are elements.
LEMMA ShowsTidy ==
  ASSUME NEW s, NEW d \in Docs, NEW D, NEW T, Shows(s, d, D, T)
  PROVE  /\ Tidy(T) /\ T[<<>>] = Promise!ElementNode /\ DOMAIN T = DOMAIN D
         /\ \A q \in DOMAIN D : T[q] = NodeOf(s.heap[D[q]]) /\ D[q] \in DOMAIN s.heap
                                /\ (s.heap[D[q]].type = "Element" <=> T[q] = Promise!ElementNode)
<1>1. Sound(s.heap, s.roots) /\ Plain(s.heap) /\ Lays(s.heap, docs[d], D) /\ T = Picture(s.heap, D)
  BY DEF Shows, Good
<1>2. Tidy(T)
  BY <1>1, PictureTidy
<1>3. DOMAIN T = DOMAIN D /\ \A q \in DOMAIN D : T[q] = NodeOf(s.heap[D[q]]) /\ D[q] \in DOMAIN s.heap
  BY <1>1, PictureFacts DEF Lays
<1>4. \A q \in DOMAIN D : s.heap[D[q]].type = "Element" <=> T[q] = Promise!ElementNode
  <2> TAKE q \in DOMAIN D
  <2>1. T[q].type = s.heap[D[q]].type
    BY <1>3 DEF NodeOf
  <2>2. Promise!ElementNode.type = "Element"
    BY DEF Promise!ElementNode, Promise!Node
  <2> QED
    BY <1>2, <1>3, <2>1, <2>2 DEF Tidy
<1>5. T[<<>>] = Promise!ElementNode
  <2>1. docs[d] \in s.roots /\ <<>> \in DOMAIN D /\ D[<<>>] = docs[d]
    BY <1>1, DocUnheld DEF Shows, Lays
  <2>2. s.heap[docs[d]].type = "Element"
    BY <1>1, <2>1 DEF Sound, RootOK
  <2> QED
    BY <1>4, <2>1, <2>2
<1> QED
  BY <1>2, <1>3, <1>4, <1>5
-----------------------------------------------------------------------------
(***************************************************************************)
(* The elements on the way to a path, and what is added there.             *)
(***************************************************************************)
\* Whatever is on the way to something is an element.
LEMMA TidyWay ==
  ASSUME NEW T, Tidy(T), NEW q \in DOMAIN T, NEW r \in Seq(Keys), IsPrefix(r, q)
  PROVE  r \in DOMAIN T /\ (r # q => T[r] = Promise!ElementNode)
<1> DEFINE G == {x \in Seq(Keys) : x \in DOMAIN T =>
                   \A y \in Seq(Keys) : IsPrefix(y, x) =>
                     y \in DOMAIN T /\ (y # x => T[y] = Promise!ElementNode)}
<1>1. <<>> \in G
  BY PrefixOrder
<1>2. ASSUME NEW x \in Seq(Keys), NEW key \in Keys, x \in G
      PROVE  Append(x, key) \in G
  <2>1. Append(x, key) \in Seq(Keys)
    OBVIOUS
  <2>2. SUFFICES ASSUME Append(x, key) \in DOMAIN T, NEW y \in Seq(Keys), IsPrefix(y, Append(x, key))
                 PROVE  y \in DOMAIN T /\ (y # Append(x, key) => T[y] = Promise!ElementNode)
    BY <2>1
  <2>3. y = Append(x, key) \/ IsPrefix(y, x)
    BY <2>2, PrefixAppend
  <2>4. x \in DOMAIN T /\ T[x] = Promise!ElementNode
    BY <2>2 DEF Tidy
  <2> QED
    BY <1>2, <2>2, <2>3, <2>4
<1> HIDE DEF G
<1>3. q \in G
  BY <1>1, <1>2, PathInduction DEF Tidy, PathMap
<1> QED
  BY <1>3 DEF G

\* The node at one path.
LEMMA ShowsNode ==
  ASSUME NEW s, NEW d \in Docs, NEW D, NEW T, Shows(s, d, D, T), NEW q \in DOMAIN D
  PROVE  /\ D[q] \in DOMAIN s.heap /\ T[q] = NodeOf(s.heap[D[q]])
         /\ s.heap[D[q]].type = "Element" <=> T[q] = Promise!ElementNode
BY ShowsTidy

\* U is T with elements all along a path.
HasElements(U, T, at) ==
  /\ PathMap(U)
  /\ \A q \in Seq(Keys) : /\ q \in DOMAIN U <=> q \in DOMAIN T \/ IsPrefix(q, at)
                          /\ IsPrefix(q, at) => U[q] = Promise!ElementNode
                          /\ q \in DOMAIN T /\ ~IsPrefix(q, at) => U[q] = T[q]

\* That is what WithElements makes, and nothing else is.
LEMMA WithElementsFacts ==
  ASSUME NEW T, PathMap(T), NEW at \in Seq(Keys)
  PROVE  /\ HasElements(Promise!WithElements(T, at), T, at)
         /\ \A U : HasElements(U, T, at) => U = Promise!WithElements(T, at)
<1> DEFINE W == Promise!WithElements(T, at)
           N == Prefixes(at)
<1>1. \A p : p \in N <=> p \in Seq(Keys) /\ IsPrefix(p, at)
  BY PrefixesFacts
<1>2. W = [q \in DOMAIN T \cup N |-> IF q \in N THEN Promise!ElementNode ELSE T[q]]
  BY SameOperators DEF Promise!WithElements
<1> HIDE DEF W, N
<1>3. HasElements(W, T, at)
  <2>1. DOMAIN W = DOMAIN T \cup N
    BY <1>2
  <2>2. IsMap(W)
    BY <1>2 DEF IsMap
  <2>3. PathMap(W)
    BY <1>1, <2>1, <2>2 DEF PathMap
  <2>4. \A q \in DOMAIN W : W[q] = IF q \in N THEN Promise!ElementNode ELSE T[q]
    BY <1>2
  <2> QED
    BY <1>1, <2>1, <2>3, <2>4 DEF HasElements
<1>4. ASSUME NEW U, HasElements(U, T, at)
      PROVE  U = W
  <2>1. PathMap(U) /\ PathMap(W)
    BY <1>3, <1>4 DEF HasElements
  <2>2. \A q \in Seq(Keys) : (q \in DOMAIN U <=> q \in DOMAIN W) /\ (q \in DOMAIN U => U[q] = W[q])
    BY <1>3, <1>4 DEF HasElements
  <2> QED
    BY <2>1, <2>2, SamePathMap
<1> QED
  BY <1>3, <1>4 DEF W

\* Where there is an element already, nothing changes.
LEMMA ElementsThere ==
  ASSUME NEW T, Tidy(T), NEW at \in DOMAIN T, T[at] = Promise!ElementNode
  PROVE  Promise!WithElements(T, at) = T
<1>1. PathMap(T) /\ at \in Seq(Keys)
  BY DEF Tidy, PathMap
<1>2. \A q \in Seq(Keys) : IsPrefix(q, at) => q \in DOMAIN T /\ T[q] = Promise!ElementNode
  BY TidyWay
<1>3. HasElements(T, T, at)
  BY <1>1, <1>2 DEF HasElements
<1> QED
  BY <1>1, <1>3, WithElementsFacts

\* Below what is no element there is nothing.
LEMMA NothingBelow ==
  ASSUME NEW T, Tidy(T), NEW at \in Seq(Keys), at \in DOMAIN T => T[at] # Promise!ElementNode
  PROVE  \A q \in DOMAIN T : IsPrefix(at, q) => q = at
<1> SUFFICES ASSUME NEW q \in DOMAIN T, IsPrefix(at, q), q # at
             PROVE  FALSE
  OBVIOUS
<1> QED
  BY TidyWay

\* The parts of a tree that is one node.
LEMMA LeafFacts ==
  ASSUME NEW c
  PROVE  /\ PathMap(Promise!Leaf(c)) /\ Promise!Leaf(c)[<<>>] = c
         /\ \A r : r \in DOMAIN Promise!Leaf(c) <=> r = <<>>
<1>1. Promise!Leaf(c) = [path \in {<<>>} |-> c] /\ <<>> \in Seq(Keys)
  BY DEF Promise!Leaf
<1> QED
  BY <1>1 DEF PathMap, IsMap

\* A tree with a single node more, or another one, at a path.
LeafOn(G, T, at, c) ==
  /\ PathMap(G)
  /\ \A q \in Seq(Keys) : /\ q \in DOMAIN G <=> q \in DOMAIN T \/ q = at
                          /\ q \in DOMAIN T /\ q # at => G[q] = T[q]
  /\ G[at] = c

\* A single node grafted where there is nothing below.
LEMMA LeafGrafted ==
  ASSUME NEW T, Tidy(T), NEW at \in Seq(Keys), at \in DOMAIN T => T[at] # Promise!ElementNode,
         NEW c
  PROVE  LeafOn(Promise!Graft(T, at, Promise!Leaf(c)), T, at, c)
<1> DEFINE F == Promise!Leaf(c)
           G == Promise!Graft(T, at, F)
<1>1. PathMap(F) /\ F[<<>>] = c /\ \A r : r \in DOMAIN F <=> r = <<>>
  BY LeafFacts
<1> HIDE DEF F
<1>2. IsGraft(G, T, at, F)
  BY <1>1, GraftFacts DEF Tidy
<1> HIDE DEF G
<1>3. at \o <<>> = at /\ IsPrefix(at, at) /\ <<>> \in Seq(Keys)
  BY Behind, PrefixOrder
<1>4. \A q \in DOMAIN T : IsPrefix(at, q) => q = at
  BY NothingBelow
<1>5. at \in DOMAIN G /\ G[at] = c
  BY <1>1, <1>2, <1>3 DEF IsGraft
<1>6. ASSUME NEW q \in Seq(Keys), q # at
      PROVE  (q \in DOMAIN G <=> q \in DOMAIN T) /\ (q \in DOMAIN T => G[q] = T[q])
  <2>1. CASE ~IsPrefix(at, q)
    BY <1>2, <2>1 DEF IsGraft
  <2>2. CASE IsPrefix(at, q)
    <3>1. q \notin DOMAIN T
      BY <1>4, <1>6, <2>2
    <3>2. PICK r \in Seq(Keys) : q = at \o r
      BY <2>2, PrefixGoesOn
    <3>3. r # <<>>
      BY <1>3, <1>6, <3>2
    <3> QED
      BY <1>1, <1>2, <3>1, <3>2, <3>3 DEF IsGraft
  <2> QED
    BY <2>1, <2>2
<1> QED
  BY <1>2, <1>5, <1>6 DEF IsGraft, G, F, LeafOn

\* F with an element at the path "at".
OneMore(F, at) ==
  IF at \in DOMAIN F /\ F[at] = Promise!ElementNode THEN F
  ELSE Promise!Graft(F, at, Promise!Leaf(Promise!ElementNode))

\* One element more on the way.
LEMMA ElementsGrow ==
  ASSUME NEW T, PathMap(T), NEW b \in Seq(Keys), NEW key \in Keys,
         NEW F, F = Promise!WithElements(T, b), Tidy(F)
  PROVE  Promise!WithElements(T, Append(b, key)) = OneMore(F, Append(b, key))
<1> DEFINE at == Append(b, key)
<1>1. at \in Seq(Keys) /\ \A q \in Seq(Keys) : IsPrefix(q, at) <=> q = at \/ IsPrefix(q, b)
  BY PrefixAppend
<1>2. HasElements(F, T, b)
  BY WithElementsFacts
<1> HIDE DEF at
<1>3. CASE at \in DOMAIN F /\ F[at] = Promise!ElementNode
  <2>1. HasElements(F, T, at)
    BY <1>1, <1>2, <1>3 DEF HasElements
  <2> QED
    BY <1>1, <1>3, <2>1, WithElementsFacts DEF OneMore, at
<1>4. CASE ~(at \in DOMAIN F /\ F[at] = Promise!ElementNode)
  <2> DEFINE G == Promise!Graft(F, at, Promise!Leaf(Promise!ElementNode))
  <2>1. /\ PathMap(G)
        /\ \A q \in Seq(Keys) : /\ q \in DOMAIN G <=> q \in DOMAIN F \/ q = at
                                /\ q \in DOMAIN F /\ q # at => G[q] = F[q]
        /\ G[at] = Promise!ElementNode
    <3>1. at \in Seq(Keys) /\ (at \in DOMAIN F => F[at] # Promise!ElementNode)
      BY <1>1, <1>4
    <3>2. LeafOn(G, F, at, Promise!ElementNode)
      BY <3>1, LeafGrafted
    <3> QED
      BY <3>2 DEF LeafOn
  <2> HIDE DEF G
  <2>2. HasElements(G, T, at)
    BY <1>1, <1>2, <2>1 DEF HasElements
  <2>3. G = Promise!WithElements(T, at)
    BY <1>1, <2>2, WithElementsFacts
  <2> QED
    BY <1>4, <2>3 DEF G, OneMore, at
<1> QED
  BY <1>3, <1>4 DEF at

\* Element::Add of one name, as a program sees it.
NamedTree(T, at, type, isLast) ==
  IF at \in DOMAIN T /\ (isLast => T[at].type = type) THEN T
  ELSE Promise!Graft(T, at, Promise!Leaf(Promise!Node(type, Initial(type))))

\* In the state t the document d shows T, t.prop is at the path "at" and e, as
\* before, at b.
NamedAt(t, d, T, at, b, e) ==
  \E E : /\ Shows(t, d, E, T)
         /\ at \in DOMAIN E /\ E[at] = t.prop
         /\ b \in DOMAIN E /\ E[b] = e

\* Element::Add of one name adds at the path that has the name behind it.
LEMMA AddNamedShown ==
  ASSUME NEW s, NEW d \in Docs, NEW D, NEW T, Shows(s, d, D, T),
         NEW b \in DOMAIN D, s.heap[D[b]].type = "Element",
         NEW name \in KeysInUse \cap Keys, NEW type, NEW isLast \in BOOLEAN,
         NEW at, at = Append(b, name)
  PROVE  NamedAt(AddNamed(s, D[b], name, type, isLast), d, NamedTree(T, at, type, isLast),
                 at, b, D[b])
<1> DEFINE e == D[b]
           t == AddNamed(s, e, name, type, isLast)
           old == Child(s, e, name)
           made == Create(s, type, Initial(type))
<1>1. /\ Good(s) /\ s.roots = Roots(docs) /\ Plain(s.heap)
      /\ Lays(s.heap, docs[d], D) /\ PathMap(D) /\ b \in Seq(Keys) /\ at \in Seq(Keys)
      /\ e \in DOMAIN s.heap /\ name # <<>>
  BY DEF Shows, Lays, PathMap, Keys, NoName
<1>2. DOMAIN T = DOMAIN D /\ \A q \in DOMAIN D : T[q] = NodeOf(s.heap[D[q]])
  BY ShowsTidy, Z3
<1>3. /\ old # Null <=> at \in DOMAIN D
      /\ at \in DOMAIN D => old = D[at]
  <2>1. at \in DOMAIN D <=> name \in DOMAIN s.heap[e].children
    BY <1>1 DEF Lays
  <2>2. name \in DOMAIN s.heap[e].children => D[at] = s.heap[e].children[name]
    BY <1>1 DEF Lays
  <2> HIDE DEF e
  <2> QED
    BY <1>1, <2>1, <2>2, ChildFacts
<1>4. at \in DOMAIN T /\ (isLast => T[at].type = type)
        <=> old # Null /\ (isLast => s.heap[old].type = type)
  BY <1>2, <1>3 DEF NodeOf
<1> HIDE DEF e, old, made
<1>5. CASE old # Null /\ (isLast => s.heap[old].type = type)
  <2>1. t = Return(s, old)
    BY <1>1, <1>5 DEF AddNamed, old
  <2> HIDE DEF t
  <2>2. IsState(t) /\ t.heap = s.heap /\ t.roots = s.roots /\ t.prop = old
    BY <1>1, <2>1, ReturnFacts DEF Good
  <2>3. Shows(t, d, D, T)
    BY <1>1, <2>2 DEF Shows, DocStays, Good
  <2>4. NamedTree(T, at, type, isLast) = T
    BY <1>4, <1>5 DEF NamedTree
  <2> QED
    BY <1>3, <1>5, <2>2, <2>3, <2>4 DEF t, e, NamedAt
<1>6. CASE ~(old # Null /\ (isLast => s.heap[old].type = type))
  <2> DEFINE p == made.prop
  <2>1. t = AddChild(made, e, name, p)
    BY <1>1, <1>6 DEF AddNamed, old, made
  <2> HIDE DEF t
  <2>2. Good(made) /\ Grown(s, made)
    BY <1>1, CreateFacts DEF made
  <2>3. PICK c : /\ Made(s, made, c)
                 /\ c.type = type /\ c.value = Initial(type) /\ c.parentProperty = Null
                 /\ DOMAIN c.children = {}
    <3> DEFINE value == Initial(type)
    <3> HIDE DEF value
    <3>1. Good(Create(s, type, value))
      BY <1>1, CreateFacts
    <3>2. \E c : /\ Made(s, Create(s, type, value), c)
                 /\ IsCell(c) /\ c.type = type /\ c.value = value
                 /\ DOMAIN c.children = {}
                 /\ c.parentProperty = Null
                 /\ c.fromProperty = IF Collection(type) THEN Fresh(s) ELSE Null
      BY <1>1, <3>1, CreateFacts
    <3> QED
      BY <3>2 DEF made, value
  <2>4. /\ p \in DOMAIN made.heap /\ p \notin DOMAIN s.heap
        /\ made.heap[p] = c
        /\ Unheld(made.heap, p) /\ p \notin made.roots
        /\ DOMAIN made.heap = DOMAIN s.heap \cup {p}
        /\ \A a \in DOMAIN s.heap : made.heap[a] = s.heap[a]
    BY <2>3 DEF Made
  <2>5. e \in DOMAIN made.heap /\ made.heap[e].type = "Element" /\ p # e
    BY <1>1, <2>4 DEF e
  <2>6. p \notin {Null, Gone}
    BY <2>2, <2>4, Pointer DEF Good, Sound
  <2>7. Good(t) /\ Grown(made, t) /\ Taken(made, t, e, name, p)
    BY <2>1, <2>2, <2>3, <2>4, <2>5, <2>6, AddChildSound
  <2>8. Plain(made.heap)
    <3>1. c.type = "Element" => c.value = 0
      BY <2>3 DEF Initial, Collection
    <3> QED
      BY <1>1, <2>3, <2>4, <3>1 DEF Plain
  <2>9. Shows(made, d, D, T)
    BY <2>2, <2>4, <2>8, ShowsBeside DEF Grown, Larger
  <2> DEFINE E == Promise!Leaf(p)
             G == Promise!Graft(D, at, E)
  <2>10. Lays(made.heap, p, E) /\ Picture(made.heap, E) = Promise!Leaf(NodeOf(c))
    BY <2>3, MadeLays
  <2> HIDE DEF E
  <2>11. NodesStay(made, t)
    BY <2>7 DEF Grown, Larger, Taken, NodesStay, NodeOf
  <2>12. Shows(t, d, G, Promise!Graft(T, at, Picture(made.heap, E)))
    <3>1. t.roots = made.roots /\ made.roots = s.roots /\ Taken(made, t, D[b], name, p)
      BY <2>2, <2>7 DEF Grown, Larger, e
    <3> HIDE DEF G
    <3> QED
      BY <2>4, <2>7, <2>9, <2>10, <2>11, <3>1, ShowsTaken DEF G
  <2>13. NodeOf(c) = Promise!Node(type, Initial(type))
    BY <2>3 DEF NodeOf, Promise!Node
  <2>14. NamedTree(T, at, type, isLast) = Promise!Graft(T, at, Picture(made.heap, E))
    BY <1>4, <1>6, <2>10, <2>13 DEF NamedTree
  <2>15. at \in DOMAIN G /\ G[at] = p /\ b \in DOMAIN G /\ G[b] = D[b]
    <3>1. PathMap(E) /\ E[<<>>] = p /\ <<>> \in DOMAIN E
      BY LeafFacts DEF E
    <3>2. IsGraft(G, D, at, E)
      BY <1>1, <3>1, GraftFacts
    <3>3. at \o <<>> = at /\ <<>> \in Seq(Keys)
      BY <1>1, Behind
    <3>4. ~IsPrefix(at, b)
      <4>1. Len(at) = Len(b) + 1 /\ Len(b) \in Nat
        BY <1>1
      <4> QED
        BY <4>1 DEF IsPrefix
    <3> HIDE DEF G
    <3> QED
      BY <1>1, <3>1, <3>2, <3>3, <3>4 DEF IsGraft
  <2>16. t.prop = p
    BY <2>7 DEF Taken
  <2> HIDE DEF G
  <2> QED
    BY <2>12, <2>14, <2>15, <2>16 DEF t, e, NamedAt
<1> QED
  BY <1>5, <1>6
-----------------------------------------------------------------------------
(***************************************************************************)
(* PropertyWrapper::InitializeProperty: a wrapper that is resolved makes   *)
(* the elements on its way.                                                *)
(***************************************************************************)
\* The keys of paths and of names are in use.
LEMMA InUse ==
  /\ \A path \in Paths : \A i \in DOMAIN path : path[i] \in KeysInUse
  /\ \A name \in Names, b \in BOOLEAN : \A i \in DOMAIN Target(name, b) :
       Target(name, b)[i] \in KeysInUse
<1>1. \A f : \A i \in DOMAIN f : f[i] \in Range(f)
  BY DEF Range
<1>2. KeysInUse = UNION {Range(path) : path \in Paths \cup {Target(name, b) : name \in Names, b \in BOOLEAN}}
  BY DEF KeysInUse
<1>3. \A f : f \in Paths \cup {Target(name, b) : name \in Names, b \in BOOLEAN} => Range(f) \subseteq KeysInUse
  BY <1>2
<1>4. \A path \in Paths : Range(path) \subseteq KeysInUse
  BY <1>3
<1>5. \A name \in Names, b \in BOOLEAN : Range(Target(name, b)) \subseteq KeysInUse
  BY <1>3
<1> QED
  BY <1>1, <1>4, <1>5

\* Only the properties matter to what the documents are.
LEMMA ShowsSame ==
  ASSUME NEW s, NEW d, NEW D, NEW T, Shows(s, d, D, T),
         NEW t, IsState(t), t.heap = s.heap, t.roots = s.roots
  PROVE  Shows(t, d, D, T)
BY DEF Shows, DocStays, Good

\* A call begins with the documents as they are.
LEMMA HereShown ==
  ASSUME Consistent, Plain(heap), NEW d \in Docs
  PROVE  Shows(Here, d, Layout(heap, d), Trees[d])
<1>1. Good(Here) /\ Here.heap = heap /\ Here.roots = Roots(docs)
  BY HereFacts
<1>2. Sound(heap, Roots(docs)) /\ IsTree(heap)
  BY DEF Consistent, ConsistentState
<1>3. \A e \in Docs : Lays(heap, docs[e], Layout(heap, e)) /\ Picture(heap, Layout(heap, e)) = Trees[e]
  <2> TAKE e \in Docs
  <2>1. TreeOf(heap, docs[e]) = Picture(heap, Layout(heap, e))
    BY <1>2, TreeShown
  <2>2. Trees[e] = TreeOf(heap, docs[e])
    BY DEF Trees
  <2> QED
    BY <1>2, <2>1, <2>2, LayoutLays
<1> QED
  BY <1>1, <1>3 DEF Shows, DocStays

\* What a state is that only has other links.
Relinked(s, x) == [s EXCEPT !.links = x]

\* Only the links of such a state are others.
LEMMA NewLinks ==
  ASSUME NEW s, IsState(s), NEW x
  PROVE  /\ IsState(Relinked(s, x))
         /\ Relinked(s, x).heap = s.heap
         /\ Relinked(s, x).roots = s.roots
         /\ Relinked(s, x).outcome = s.outcome
         /\ Relinked(s, x).prop = s.prop
         /\ Relinked(s, x).links = x
BY DEF Relinked, IsState

\* A wrapper that leads to nothing is not resolved to anything.
LEMMA InitializeNothing ==
  ASSUME NEW s, Good(s), NEW links, LinksOK(s.heap, links),
         \A i \in 1..Len(links) : links[i].prop = Null
  PROVE  LET t == InitializeProperty(s, links, FALSE)
         IN  /\ t.heap = s.heap /\ t.prop = Null
             /\ Len(t.links) = Len(links) /\ \A i \in 1..Len(links) : t.links[i].prop = Null
<1> DEFINE N == Len(links)
<1>1. PICK after : Resolving(s, links, after) /\ InitializeProperty(s, links, FALSE) = after[N]
  BY InitializeResolves
<1>2. N \in Nat /\ N > 0
  BY LinksFacts
<1> DEFINE Done(t, i) == /\ t.heap = s.heap /\ t.prop = Null /\ IsState(t)
                         /\ Len(t.links) = i /\ \A k \in 1..i : t.links[k].prop = Null
           G == {i \in Nat : i \in 1..N => Done(after[i], i)}
<1>3. 0 \in G
  OBVIOUS
<1>4. ASSUME NEW i \in Nat, i \in G
      PROVE  i + 1 \in G
  <2> DEFINE n == i + 1
             t == after[n]
  <2> SUFFICES ASSUME n \in 1..N
               PROVE  Done(t, n)
    OBVIOUS
  <2>1. t = IF Begins(links, n) THEN Begun(s, links, n)
            ELSE ResolveLink(after[n - 1], links[n].propName, FALSE)
    BY <1>1 DEF Resolving
  <2>2. CASE Begins(links, n)
    <3>1. /\ LinksOK(s.heap, SubSeq(links, 1, n)) /\ Len(SubSeq(links, 1, n)) = n
          /\ links[n].prop = Null
      BY SubLinks
    <3>2. \A k \in 1..n : SubSeq(links, 1, n)[k] = links[k]
      OBVIOUS
    <3> DEFINE u == [s EXCEPT !.links = SubSeq(links, 1, n)]
    <3>3. IsState(u) /\ u.heap = s.heap /\ u.links = SubSeq(links, 1, n)
      BY LinksChanged DEF Good
    <3>4. t = Return(u, links[n].prop)
      BY <2>1, <2>2 DEF Begun, Return
    <3> HIDE DEF u, t
    <3>5. IsState(t) /\ t.heap = s.heap /\ t.prop = Null /\ t.links = SubSeq(links, 1, n)
      BY <3>1, <3>3, <3>4, ReturnFacts
    <3> QED
      BY <3>1, <3>2, <3>5 DEF t
  <2>3. CASE ~Begins(links, n)
    <3>1. i \in 1..N /\ n - 1 = i
      BY <2>3 DEF Begins
    <3> DEFINE v == after[i]
               u == Return(v, Null)
    <3>2. Done(v, i)
      BY <1>4, <3>1
    <3>3. t = [u EXCEPT !.links = Append(u.links, Link(u.prop, links[n].propName))]
      BY <2>1, <2>3, <3>1, <3>2 DEF ResolveLink, IsType
    <3>4. IsState(u) /\ u.heap = s.heap /\ u.prop = Null /\ u.links = v.links
      BY <3>2, ReturnFacts
    <3>5. LinksOK(v.heap, v.links)
      BY <1>1, <3>1 DEF Resolving, Initialized
    <3> HIDE DEF u, t, v
    <3>6. /\ IsState(t) /\ t.heap = s.heap /\ t.prop = Null
          /\ t.links = Append(v.links, Link(Null, links[n].propName))
      <4>1. IsState(u)
        BY <3>4
      <4> DEFINE z == Append(u.links, Link(u.prop, links[n].propName))
      <4>3. t = Relinked(u, z)
        BY <3>3 DEF Relinked
      <4> HIDE DEF z
      <4>4. /\ IsState(t) /\ t.heap = u.heap /\ t.prop = u.prop /\ t.links = z
        BY <4>1, <4>3, NewLinks
      <4>2. /\ IsState(t) /\ t.heap = u.heap /\ t.prop = u.prop
            /\ t.links = Append(u.links, Link(u.prop, links[n].propName))
        BY <4>4 DEF z
      <4> QED
        BY <3>4, <4>2
    <3> USE DEF t, v
    <3>7. Len(v.links) = i /\ v.links \in Seq(LinkType(v.heap))
      BY <3>2, <3>5 DEF LinksOK
    <3>8. /\ Len(Append(v.links, Link(Null, links[n].propName))) = n
          /\ \A k \in 1..i : Append(v.links, Link(Null, links[n].propName))[k] = v.links[k]
          /\ Append(v.links, Link(Null, links[n].propName))[n] = Link(Null, links[n].propName)
      BY <3>7
    <3>9. \A k \in 1..n : k \in 1..i \/ k = n
      OBVIOUS
    <3>10. Link(Null, links[n].propName).prop = Null
      BY DEF Link
    <3> HIDE DEF t, v
    <3> QED
      BY <3>2, <3>6, <3>8, <3>9, <3>10 DEF v, t
  <2> QED
    BY <2>2, <2>3
<1> HIDE DEF G
<1>5. N \in G
  BY <1>2, <1>3, <1>4, NatSetInduction
<1>6. Done(after[N], N)
  BY <1>2, <1>5 DEF G
<1> QED
  BY <1>1, <1>6

\* A wrapper keeps the property that it begins with.
LEMMA InitializeFirst ==
  ASSUME NEW s, Good(s), NEW links, LinksOK(s.heap, links)
  PROVE  InitializeProperty(s, links, FALSE).links[1] = links[1]
<1> DEFINE N == Len(links)
<1>1. PICK after : Resolving(s, links, after) /\ InitializeProperty(s, links, FALSE) = after[N]
  BY InitializeResolves
<1>2. N \in Nat /\ N > 0
  BY LinksFacts
<1> DEFINE G == {i \in Nat : i \in 1..N => after[i].links[1] = links[1]}
<1>3. 0 \in G
  OBVIOUS
<1>4. ASSUME NEW i \in Nat, i \in G
      PROVE  i + 1 \in G
  <2> DEFINE n == i + 1
             t == after[n]
  <2> SUFFICES ASSUME n \in 1..N
               PROVE  t.links[1] = links[1]
    OBVIOUS
  <2>1. t = IF Begins(links, n) THEN Begun(s, links, n)
            ELSE ResolveLink(after[n - 1], links[n].propName, FALSE)
    BY <1>1 DEF Resolving
  <2>2. CASE Begins(links, n)
    <3>1. SubSeq(links, 1, n)[1] = links[1]
      OBVIOUS
    <3> DEFINE u == [s EXCEPT !.links = SubSeq(links, 1, n)]
    <3>2. IsState(u) /\ u.links = SubSeq(links, 1, n)
      BY LinksChanged DEF Good
    <3>3. t = Return(u, links[n].prop)
      BY <2>1, <2>2 DEF Begun, Return
    <3> HIDE DEF u, t
    <3>4. t.links = SubSeq(links, 1, n)
      BY <3>2, <3>3, ReturnFacts
    <3> QED
      BY <3>1, <3>4 DEF t
  <2>3. CASE ~Begins(links, n)
    <3>1. i \in 1..N /\ n - 1 = i
      BY <2>3 DEF Begins
    <3> DEFINE v == after[i]
               name == links[n].propName
               u == IF IsType(v, v.prop, "Element") THEN AddNamed(v, v.prop, name, "Element", TRUE)
                    ELSE Return(v, Null)
    <3>2. v.links[1] = links[1]
      BY <1>4, <3>1
    <3>3. t = [u EXCEPT !.links = Append(u.links, Link(u.prop, name))]
      BY <2>1, <2>3, <3>1 DEF ResolveLink
    <3>4. Initialized(s, links, i, v) /\ name \in Keys
      BY <1>1, <2>3, <3>1 DEF Resolving
    <3>5. Good(v) /\ LinksOK(v.heap, v.links) /\ Resolved(v.links) = v.prop /\ Len(v.links) = i
      BY <3>4 DEF Initialized
    <3>6. v.prop \in DOMAIN v.heap \cup {Null, Gone}
      BY <3>5, LinksFacts
    <3> HIDE DEF v, t, name
    <3>7. IsState(u) /\ u.links = v.links
      <4>1. CASE IsType(v, v.prop, "Element")
        <5>1. v.prop \in DOMAIN v.heap /\ v.heap[v.prop].type = "Element"
          BY <3>6, <4>1 DEF IsType
        <5>2. Added(v, AddNamed(v, v.prop, name, "Element", TRUE), "Element")
          BY <3>4, <3>5, <5>1, AddNamedSound
        <5> QED
          BY <4>1, <5>2 DEF Added, Grown, Good
      <4>2. CASE ~IsType(v, v.prop, "Element")
        BY <3>5, <4>2, ReturnFacts DEF Good
      <4> QED
        BY <4>1, <4>2
    <3> HIDE DEF u
    <3>8. t.links = Append(v.links, Link(u.prop, name))
      BY <3>3, <3>7, LinksChanged
    <3>9. v.links \in Seq(LinkType(v.heap)) /\ Len(v.links) >= 1
      BY <3>1, <3>5 DEF LinksOK
    <3>10. Append(v.links, Link(u.prop, name))[1] = v.links[1]
      BY <3>9
    <3> QED
      BY <3>2, <3>8, <3>10 DEF t, v
  <2> QED
    BY <2>2, <2>3
<1> HIDE DEF G
<1>5. N \in G
  BY <1>2, <1>3, <1>4, NatSetInduction
<1>6. after[N].links[1] = links[1]
  BY <1>2, <1>5 DEF G
<1> QED
  BY <1>1, <1>6

\* A wrapper that is resolved in a call: the path of a wrapper exists then, and is
\* what the wrapper is resolved to; there are elements all along, unless there is a
\* value, where nothing is changed.
Reached(w, t, D, U) ==
  LET d == wrapper[w].doc
      path == wrapper[w].path
  IN  /\ Shows(t, d, D, U) /\ path \in DOMAIN D /\ D[path] = t.prop
      /\ t.heap[t.prop].type = "Element" => U = Promise!WithElements(Trees[d], path)
      /\ t.heap[t.prop].type # "Element" => U = Trees[d] /\ t.heap = heap /\ t.links = Links(w)

\* InitializeProperty of a kept wrapper leaves a state that shows a tree: the wrapper's
\* property is at its path, and the document's tree is the old one with elements made
\* on the way to that path, or the old one itself if the property is no element.
LEMMA InitializeShown ==
  ASSUME Consistent, WrappersOnPath, Plain(heap), NEW w \in Held,
         NEW j, Leading(Links(w), j, Len(Links(w))), Links(w)[j].prop # Null
  PROVE  \E D, U : Reached(w, InitializeProperty(Here, Links(w), FALSE), D, U)
<1> DEFINE links == Links(w)
           N == Len(links)
           d == wrapper[w].doc
           path == wrapper[w].path
           K(i) == KeysBetween(links, j, i)
<1>1. /\ Good(Here) /\ Here.heap = heap /\ d \in Docs /\ path \in Paths
      /\ LinksOK(heap, links)
  BY HereFacts, HeldFacts
<1>2. PICK after : Resolving(Here, links, after) /\ InitializeProperty(Here, links, FALSE) = after[N]
  BY <1>1, InitializeResolves
<1>3. PICK x \in DOMAIN Layout(heap, d) : links[j].prop = docs[d] \o x /\ x \o K(N) = path
  BY HeldPlace
<1>4. N \in Nat /\ N > 0 /\ j \in 1..N /\ \A k \in (j + 1)..N : links[k].prop = Null
      /\ \A i \in 1..N : links[i] \in LinkType(heap)
  BY <1>1, LinksFacts DEF Leading
<1> HIDE DEF d, path, links, N
<1>5. x \in Seq(Keys) /\ Layout(heap, d)[x] = links[j].prop /\ links[j].prop \in DOMAIN heap
  BY <1>3 DEF Layout
<1>6. \A i \in j..N : K(i) \in Seq(Keys) /\ K(j) = <<>> /\ x \o K(i) \in Seq(Keys)
  <2> TAKE i \in j..N
  <2>1. i \in 1..N /\ Leading(links, j, i)
    BY <1>4 DEF Leading
  <2>2. j \in Nat /\ i \in Nat /\ j <= i /\ \A k \in (j + 1)..i : links[k].propName \in Keys
    BY <1>1, <2>1, NamesOfNothing DEF N
  <2>3. K(i) \in Seq(Keys) /\ K(j) = <<>>
    BY <2>2, KeysGrow
  <2> HIDE DEF K
  <2> QED
    BY <1>5, <2>3, Behind
<1>7. \A i \in (j + 1)..N : /\ links[i].propName \in KeysInUse \cap Keys
                            /\ x \o K(i) = Append(x \o K(i - 1), links[i].propName)
  <2> TAKE i \in (j + 1)..N
  <2>1. i - 1 \in 1..N /\ i \in 1..N /\ Leading(links, j, i - 1) /\ Leading(links, j, i)
    BY <1>4 DEF Leading
  <2>2. /\ j \in Nat /\ i - 1 \in Nat /\ j <= i - 1
        /\ \A k \in (j + 1)..(i - 1) : links[k].propName \in Keys
        /\ links[i].propName \in Keys
    <3>1. j \in Nat /\ i - 1 \in Nat /\ j <= i - 1
          /\ \A k \in (j + 1)..(i - 1) : links[k].propName \in Keys
      BY <1>1, <2>1, NamesOfNothing DEF N
    <3>2. \A k \in (j + 1)..i : links[k].propName \in Keys
      BY <1>1, <2>1, NamesOfNothing DEF N
    <3> QED
      BY <1>4, <3>1, <3>2
  <2>3. i - 1 + 1 = i
    BY <2>1
  <2>4. K(i) = Append(K(i - 1), links[i].propName) /\ K(i - 1) \in Seq(Keys)
    BY <2>2, <2>3, KeysGrow
  <2>5. x \o K(i) = Append(x \o K(i - 1), links[i].propName)
    <3> HIDE DEF K
    <3> QED
      BY <1>5, <2>2, <2>4, Behind, SMTT(20)
  <2>6. links[i].propName \in KeysInUse
    <3>1. K(N)[i - j] = links[i].propName /\ i - j \in 1..Len(K(N))
      <4>1. i - j \in 1..(N - j) /\ j + (i - j) = i /\ N - j \in Nat
        BY <1>4
      <4> QED
        BY <4>1 DEF KeysBetween
    <3>2. K(N) \in Seq(Keys)
      BY <1>4, <1>6
    <3> HIDE DEF K
    <3>3. path[Len(x) + (i - j)] = links[i].propName /\ Len(x) + (i - j) \in DOMAIN path
      BY <1>3, <1>5, <3>1, <3>2
    <3> QED
      BY <1>1, <3>3, InUse
  <2> QED
    BY <2>2, <2>5, <2>6
<1>8. \A i \in (j + 1)..N : i \in 1..N /\ i - 1 \in 1..N /\ i - 1 \in 1..(N - 1) /\ ~Begins(links, i)
  <2> TAKE i \in (j + 1)..N
  <2>1. i \in 2..N /\ links[i].prop = Null /\ i \in 1..N /\ i - 1 \in 1..N /\ i - 1 \in 1..(N - 1)
    BY <1>4
  <2>2. links[i].propName # NoName
    BY <1>1, <2>1 DEF LinksOK, N
  <2> QED
    BY <2>1, <2>2 DEF Begins
<1>9. \A i \in 1..N : Initialized(Here, links, i, after[i])
  BY <1>2 DEF Resolving, N
<1>10. \A i \in 1..N : after[i] = IF Begins(links, i) THEN Begun(Here, links, i)
                                  ELSE ResolveLink(after[i - 1], links[i].propName, FALSE)
  BY <1>2 DEF Resolving, N
<1> DEFINE T == Trees[d]
           At(t, i) == \E D, U : /\ Shows(t, d, D, U) /\ x \o K(i) \in DOMAIN D /\ D[x \o K(i)] = t.prop
                                 /\ t.heap[t.prop].type = "Element" =>
                                      U = Promise!WithElements(T, x \o K(i))
                                 /\ t.heap[t.prop].type # "Element" =>
                                      i = j /\ U = T /\ t.heap = heap /\ t.links = SubSeq(links, 1, j)
           G == {k \in Nat : j + k <= N => At(after[j + k], j + k)}
<1> HIDE DEF T, K
<1>11. At(after[j], j)
  <2> DEFINE t == after[j]
             u == [Here EXCEPT !.links = SubSeq(links, 1, j)]
             L == Layout(heap, d)
  <2>1. t = Begun(Here, links, j) /\ links[j].prop # Null
    BY <1>4, <1>10 DEF Begins, links
  <2>2. IsState(u) /\ u.heap = Here.heap /\ u.roots = Here.roots /\ u.links = SubSeq(links, 1, j)
    <3> DEFINE z == SubSeq(links, 1, j)
    <3>1. IsState(Here) /\ u = Relinked(Here, z)
      BY <1>1 DEF Good, Relinked
    <3> HIDE DEF u, z
    <3>2. IsState(u) /\ u.heap = Here.heap /\ u.roots = Here.roots /\ u.links = z
      BY <3>1, NewLinks
    <3> QED
      BY <3>2 DEF z
  <2>3. t = Return(u, links[j].prop)
    BY <2>1 DEF Begun, Return
  <2> HIDE DEF t, u
  <2>4. IsState(t) /\ t.heap = heap /\ t.roots = Here.roots /\ t.links = SubSeq(links, 1, j)
        /\ t.prop = links[j].prop
    BY <1>1, <2>2, <2>3, ReturnFacts
  <2>5. Shows(Here, d, L, T)
    BY <1>1, HereShown DEF T
  <2> HIDE DEF L
  <2>6. Shows(t, d, L, T)
    BY <1>1, <2>4, <2>5, ShowsSame
  <2>7. x \o K(j) = x
    BY <1>4, <1>5, <1>6, Behind
  <2>8. x \in DOMAIN L /\ L[x] = t.prop
    BY <1>3, <1>5, <2>4 DEF L
  <2>9. t.heap[t.prop].type = "Element" => T = Promise!WithElements(T, x)
    <3> SUFFICES ASSUME t.heap[t.prop].type = "Element"
                 PROVE  T = Promise!WithElements(T, x)
      OBVIOUS
    <3>1. Tidy(T) /\ DOMAIN T = DOMAIN L
          /\ \A p \in DOMAIN L : t.heap[L[p]].type = "Element" <=> T[p] = Promise!ElementNode
      BY <1>1, <2>6, ShowsTidy
    <3>2. x \in DOMAIN T /\ T[x] = Promise!ElementNode
      BY <2>8, <3>1
    <3> QED
      BY <3>1, <3>2, ElementsThere
  <2> QED
    BY <2>4, <2>6, <2>7, <2>8, <2>9 DEF t
<1>12. 0 \in G
  BY <1>4, <1>11
<1>13. ASSUME NEW k \in Nat, k \in G
       PROVE  k + 1 \in G
  <2> SUFFICES ASSUME j + (k + 1) <= N
               PROVE  At(after[j + (k + 1)], j + (k + 1))
    OBVIOUS
  <2> DEFINE i == j + (k + 1)
             v == after[i - 1]
             name == links[i].propName
             e == v.prop
             b == x \o K(i - 1)
             t == after[i]
  <2>1. i \in (j + 1)..N /\ i - 1 = j + k /\ i \in 1..N
    BY <1>4
  <2>2. At(v, i - 1)
    <3> HIDE DEF At
    <3>1. j + k <= N => At(after[j + k], j + k)
      BY <1>13
    <3> QED
      BY <1>4, <2>1, <3>1
  <2>3. PICK D, F : /\ Shows(v, d, D, F) /\ b \in DOMAIN D /\ D[b] = e
                    /\ v.heap[e].type = "Element" => F = Promise!WithElements(T, b)
                    /\ v.heap[e].type # "Element" =>
                         i - 1 = j /\ F = T /\ v.heap = heap /\ v.links = SubSeq(links, 1, j)
    <3> HIDE DEF v, i
    <3> QED
      BY <2>2
  <2>4. Good(v) /\ e \in DOMAIN v.heap
    BY <2>3 DEF Shows, Lays
  <2>5. v.heap[e].type = "Element"
    <3>1. i - 1 \in 1..(Len(links) - 1) /\ Initialized(Here, links, i - 1, v)
      BY <1>8, <1>9, <2>1 DEF N
    <3>2. LinksOK(Here.heap, links)
      BY <1>1
    <3> QED
      BY <1>1, <2>4, <3>1, <3>2, BeforeLast
  <2>6. t = ResolveLink(v, name, FALSE)
    BY <1>8, <1>10, <2>1
  <2>7. /\ name \in KeysInUse \cap Keys
        /\ x \o K(i) = Append(b, name) /\ b \in Seq(Keys)
    <3>1. i - 1 \in j..N
      BY <1>4, <2>1
    <3> QED
      BY <1>6, <1>7, <2>1, <3>1
  <2> HIDE DEF i, v, name, b, t
  <2> DEFINE u == AddNamed(v, e, name, "Element", TRUE)
             at == x \o K(i)
  <2>8. IsType(v, e, "Element")
    <3>1. e \in Seq(Steps)
      BY <2>4 DEF Good, Sound
    <3> QED
      BY <2>5, <3>1, Pointer DEF IsType
  <2>9. t = [u EXCEPT !.links = Append(u.links, Link(u.prop, name))]
    BY <2>6, <2>8 DEF ResolveLink
  <2>10. PICK E : Shows(u, d, E, NamedTree(F, at, "Element", TRUE)) /\ at \in DOMAIN E /\ E[at] = u.prop
    <3>1. D[b] = e /\ v.heap[D[b]].type = "Element" /\ at = Append(b, name)
      BY <2>3, <2>5, <2>7
    <3>2. /\ Shows(v, d, D, F) /\ b \in DOMAIN D /\ name \in KeysInUse /\ d \in Docs
          /\ name \in Keys
      BY <1>1, <2>3, <2>7
    <3>3. u = AddNamed(v, D[b], name, "Element", TRUE)
      BY <3>1
    <3> HIDE DEF at, e, u
    <3>4. TRUE \in BOOLEAN
      OBVIOUS
    <3>5. NamedAt(u, d, NamedTree(F, at, "Element", TRUE), at, b, D[b])
      BY <3>1, <3>2, <3>3, <3>4, AddNamedShown
    <3> QED
      BY <3>5 DEF NamedAt
  <2>11. IsState(u) /\ Added(v, u, "Element")
    <3>1. name \in Keys /\ TRUE \in BOOLEAN
      BY <2>7
    <3>2. Added(v, u, "Element")
      BY <2>4, <2>5, <3>1, AddNamedSound
    <3> QED
      BY <3>2 DEF Added, Good
  <2> HIDE DEF u
  <2>12. IsState(t) /\ t.heap = u.heap /\ t.roots = u.roots /\ t.prop = u.prop
    <3> DEFINE z == Append(u.links, Link(u.prop, name))
    <3>1. t = Relinked(u, z)
      BY <2>9 DEF Relinked
    <3> HIDE DEF z
    <3> QED
      BY <2>11, <3>1, NewLinks
  <2>13. NamedTree(F, at, "Element", TRUE) = Promise!WithElements(T, at)
    <3>1. Tidy(F) /\ Promise!Node("Element", Initial("Element")) = Promise!ElementNode
      BY <1>1, <2>3, ShowsTidy DEF Promise!ElementNode, Promise!Node, Initial, Collection
    <3>2. at \in DOMAIN F => (F[at].type = "Element" <=> F[at] = Promise!ElementNode)
      BY <3>1 DEF Tidy, Promise!ElementNode, Promise!Node
    <3>3. PathMap(T)
      <4>1. Shows(Here, d, Layout(heap, d), T)
        BY <1>1, HereShown DEF T
      <4> QED
        BY <1>1, <4>1, ShowsTidy DEF Tidy
    <3>4. at = Append(b, name) /\ name \in Keys /\ b \in Seq(Keys) /\ F = Promise!WithElements(T, b)
      BY <2>3, <2>5, <2>7
    <3> HIDE DEF at, e
    <3>5. Promise!WithElements(T, at) = OneMore(F, at)
      <4>1. Tidy(F)
        BY <3>1
      <4>2. name \in Keys
        BY <3>4
      <4>3. b \in Seq(Keys)
        BY <3>4
      <4>4. F = Promise!WithElements(T, b)
        BY <3>4
      <4>5. at = Append(b, name)
        BY <3>4
      <4>6. Promise!WithElements(T, Append(b, name)) = OneMore(F, Append(b, name))
        BY <3>3, <4>1, <4>2, <4>3, <4>4, ElementsGrow
      <4> QED
        BY <4>5, <4>6
    <3> QED
      BY <3>1, <3>2, <3>5 DEF NamedTree, OneMore
  <2>14. Shows(t, d, E, Promise!WithElements(T, at))
    BY <2>10, <2>12, <2>13, ShowsSame
  <2>15. t.heap[t.prop].type = "Element"
    BY <2>11, <2>12 DEF Added
  <2> QED
    BY <2>10, <2>12, <2>14, <2>15 DEF t, i
<1> HIDE DEF G
<1>14. N - j \in G
  <2>1. N - j \in Nat
    BY <1>4
  <2> QED
    BY <1>12, <1>13, <2>1, NatSetInduction
<1> DEFINE t == after[N]
<1>15. At(t, N)
  <2>1. j + (N - j) = N /\ N <= N
    BY <1>4
  <2> QED
    BY <1>14, <2>1 DEF G
<1>16. PICK D, U : /\ Shows(t, d, D, U) /\ x \o K(N) \in DOMAIN D /\ D[x \o K(N)] = t.prop
                   /\ t.heap[t.prop].type = "Element" => U = Promise!WithElements(T, x \o K(N))
                   /\ t.heap[t.prop].type # "Element" =>
                        N = j /\ U = T /\ t.heap = heap /\ t.links = SubSeq(links, 1, j)
  BY <1>15
<1>17. SubSeq(links, 1, N) = links
  BY <1>1 DEF LinksOK, N
<1>18. Reached(w, t, D, U)
  <2>1. x \o K(N) = path
    BY <1>3 DEF K
  <2> QED
    BY <1>16, <1>17, <2>1 DEF Reached, d, path, T, links
<1> QED
  BY <1>2, <1>18 DEF links, N
-----------------------------------------------------------------------------
(***************************************************************************)
(* The end of a call, seen by the program.                                 *)
(***************************************************************************)
\* What is known between two calls.
Described == Consistent /\ WrappersOnPath /\ Plain(heap) /\ NothingLeads

\* What is kept as a wrapper to nothing leads nowhere further on.
OfNothingAtAll(kept) ==
  kept # Nowhere /\ OfNothing(kept.links) => \A i \in DOMAIN kept.links : kept.links[i].prop = Null

\* At the end of a call, elements and wrappers of nothing are what they have to be.
LEMMA EndDescribes ==
  ASSUME NEW s, NEW newDocs, NEW newWrapper, Ending(s, newDocs, newWrapper), Plain(s.heap),
         \A v \in Wrappers : OfNothingAtAll(newWrapper[v])
  PROVE  Plain(heap)' /\ NothingLeads'
<1>1. PICK met : /\ Placing(s.heap, newDocs, met) /\ heap' = Sweep(s.heap, met)
                 /\ wrapper' = [w \in Wrappers |-> Swept(newWrapper[w], met)]
  BY EndDoes
<1>2. Sound(s.heap, Roots(newDocs))
  BY DEF Ending
<1>3. Relocated(s.heap, met, heap')
  BY <1>1, <1>2, SweptCells
<1>4. Plain(heap')
  <2> DEFINE g == heap'
  <2>1. DOMAIN g = {x[1] : x \in met} /\ \A x \in met : x[2] \in DOMAIN s.heap
    BY <1>1, <1>3 DEF Relocated, Placing
  <2>2. \A x \in met : /\ g[x[1]].type = s.heap[x[2]].type /\ g[x[1]].value = s.heap[x[2]].value
                       /\ DOMAIN g[x[1]].children = DOMAIN s.heap[x[2]].children
    BY <1>3 DEF Relocated
  <2> HIDE DEF g
  <2>3. Plain(g)
    BY <2>1, <2>2 DEF Plain
  <2> QED
    BY <2>3 DEF g
<1>5. Plain(heap)'
  BY <1>4 DEF Plain
<1>6. /\ Moved(met, Null) = Null
      /\ \A p : p # Null => Moved(met, p) # Null
  BY <1>1, <1>2, MovedFacts
<1>7. ASSUME NEW v \in Wrappers, wrapper'[v] # Nowhere, OfNothing(wrapper'[v].links)
      PROVE  \A i \in DOMAIN wrapper'[v].links : wrapper'[v].links[i].prop = Null
  <2> DEFINE kept == newWrapper[v]
             links == kept.links
             new == SweepLinks(links, met)
  <2>1. wrapper'[v] = Swept(kept, met)
    BY <1>1
  <2>2. kept # Nowhere
    BY <1>7, <2>1 DEF Swept
  <2>3. KeptOK(s.heap, kept)
    BY <2>2 DEF Ending
  <2>4. kept = [doc |-> kept.doc, path |-> kept.path, links |-> links] /\ LinksOK(s.heap, links)
    BY <2>3 DEF KeptOK, Kept
  <2>5. wrapper'[v] = [kept EXCEPT !.links = new]
    BY <1>7, <2>1, <2>2 DEF Swept
  <2> HIDE DEF kept, links, new
  <2>6. wrapper'[v].links = new
    BY <2>4, <2>5
  <2>7. /\ Len(links) > 0 /\ Len(links) \in Nat /\ DOMAIN links = 1..Len(links)
        /\ \A i \in DOMAIN links : links[i] \in LinkType(s.heap)
    BY <2>4, LinksFacts
  <2>8. DOMAIN new = DOMAIN links /\ \A i \in DOMAIN links : new[i].prop = Moved(met, links[i].prop)
    BY <2>7 DEF new, SweepLinks, LinkType
  <2>9. 1 \in DOMAIN links
    BY <2>7
  <2>10. new[1].prop = Null
    BY <1>7, <2>6 DEF OfNothing
  <2>11. links[1].prop = Null
    BY <1>6, <2>8, <2>9, <2>10
  <2>12. \A i \in DOMAIN links : links[i].prop = Null
    BY <2>2, <2>11 DEF OfNothingAtAll, OfNothing, links, kept
  <2> QED
    BY <1>6, <2>6, <2>8, <2>12
<1>8. NothingLeads'
  BY <1>7 DEF NothingLeads, Held, Links
<1> QED
  BY <1>5, <1>8

\* What the wrappers are that a call has not touched.
LEMMA Untouched ==
  ASSUME Described, NEW s, NEW newDocs, NEW newWrapper, Ending(s, newDocs, newWrapper),
         NEW d \in Docs, \A e \in Docs \ {d} : DocStays(s, newDocs, e),
         NEW v \in Wrappers, newWrapper[v] = wrapper[v]
  PROVE  Promise!KeepsOrLoses(v, d)
<1>1. Addresses'[v] \in {AddressOf(newWrapper[v]), Nowhere}
  BY AddressesEnd
<1>2. AddressOf(wrapper[v]) = Addresses[v]
  BY DEF Addresses, Held, Links, AddressOf
<1>3. CASE Addresses'[v] = Addresses[v]
  BY <1>3 DEF Promise!KeepsOrLoses
<1>4. CASE Addresses'[v] # Addresses[v]
  <2>1. wrapper[v] # Nowhere /\ ~DocStays(s, newDocs, wrapper[v].doc)
    BY <1>4, AddressStays DEF Described
  <2>2. v \in Held
    BY <2>1 DEF Held
  <2>3. wrapper[v].doc \in Docs
    BY <2>2, HeldFacts DEF Described
  <2>4. wrapper[v].doc = d
    BY <2>1, <2>3
  <2>5. Addresses'[v] = Nowhere /\ Addresses[v] # Nowhere
    BY <1>1, <1>2, <1>4
  <2>6. Addresses[v] = [doc |-> wrapper[v].doc, path |-> wrapper[v].path]
    BY <1>2, <2>5 DEF AddressOf
  <2> QED
    BY <2>4, <2>5, <2>6 DEF Promise!KeepsOrLoses, Promise!Leads, Promise!Doc
<1> QED
  BY <1>3, <1>4

\* A call through a wrapper, which then is kept as another.
CallEnding(s, w, kept) ==
  Ending(s, docs, [wrapper EXCEPT ![w] = kept]) /\ OfNothingAtAll(kept)

\* What has come of it.
LEMMA CallShown ==
  ASSUME Described, NEW w \in Held, NEW s, NEW kept, CallEnding(s, w, kept),
         NEW d \in Docs, NEW D, NEW U, Shows(s, d, D, U)
  PROVE  /\ Plain(heap)' /\ NothingLeads'
         /\ Trees' = [Trees EXCEPT ![d] = U]
         /\ \A v \in Wrappers \ {w} : Promise!KeepsOrLoses(v, d)
         /\ Addresses'[w] \in {AddressOf(kept), Nowhere}
<1> DEFINE newWrapper == [wrapper EXCEPT ![w] = kept]
<1>1. Ending(s, docs, newWrapper) /\ w \in Wrappers
  BY DEF CallEnding, Held
<1>2. wrapper = [v \in Wrappers |-> wrapper[v]]
  BY DEF Described, Consistent, ConsistentState
<1>3. newWrapper[w] = kept /\ \A v \in Wrappers \ {w} : newWrapper[v] = wrapper[v]
  BY <1>1, <1>2
<1> HIDE DEF newWrapper
<1>4. /\ Lays(s.heap, docs[d], D) /\ Picture(s.heap, D) = U /\ Plain(s.heap)
      /\ \A e \in Docs \ {d} : DocStays(s, docs, e)
  BY DEF Shows
<1>5. \A v \in Wrappers : OfNothingAtAll(newWrapper[v])
  <2> TAKE v \in Wrappers
  <2>1. CASE v = w
    BY <1>3, <2>1 DEF CallEnding
  <2>2. CASE v # w
    BY <1>3, <2>2 DEF OfNothingAtAll, Described, NothingLeads, Held, Links
  <2> QED
    BY <2>1, <2>2
<1>6. Plain(heap)' /\ NothingLeads'
  BY <1>1, <1>4, <1>5, EndDescribes
<1>7. Trees' = [Trees EXCEPT ![d] = U]
  BY <1>1, <1>4, DocChanges
<1>8. \A v \in Wrappers \ {w} : Promise!KeepsOrLoses(v, d)
  BY <1>1, <1>3, <1>4, Untouched
<1>9. Addresses'[w] \in {AddressOf(kept), Nowhere}
  BY <1>1, <1>3, AddressesEnd
<1> QED
  BY <1>6, <1>7, <1>8, <1>9

\* A call that changes no property and no wrapper, unless it is a wrapper of nothing,
\* does nothing that a program sees.
LEMMA CallUnseen ==
  ASSUME Described, NEW w \in Held, NEW s, NEW kept, CallEnding(s, w, kept),
         Good(s), s.heap = heap, s.roots = Roots(docs),
         kept = wrapper[w] \/ (OfNothing(Links(w)) /\ OfNothing(kept.links))
  PROVE  Plain(heap)' /\ NothingLeads' /\ UNCHANGED <<Trees, Addresses>>
<1> DEFINE newWrapper == [wrapper EXCEPT ![w] = kept]
           d == wrapper[w].doc
<1>1. Ending(s, docs, newWrapper) /\ w \in Wrappers /\ d \in Docs
  BY HeldFacts DEF CallEnding, Described, Held
<1>2. wrapper = [v \in Wrappers |-> wrapper[v]]
  BY DEF Described, Consistent, ConsistentState
<1>3. newWrapper[w] = kept /\ \A v \in Wrappers \ {w} : newWrapper[v] = wrapper[v]
  BY <1>1, <1>2
<1> HIDE DEF newWrapper, d
<1>4. Shows(Here, d, Layout(heap, d), Trees[d]) /\ Here.heap = heap /\ Here.roots = Roots(docs)
  BY <1>1, HereShown, HereFacts DEF Described
<1>5. Shows(s, d, Layout(heap, d), Trees[d])
  BY <1>4, ShowsSame DEF Good
<1>6. /\ Plain(heap)' /\ NothingLeads'
      /\ Trees' = [Trees EXCEPT ![d] = Trees[d]]
      /\ Addresses'[w] \in {AddressOf(kept), Nowhere}
  BY <1>1, <1>5, CallShown
<1>7. Trees' = Trees
  <2>1. Trees = [e \in Docs |-> Trees[e]]
    BY DEF Trees
  <2> QED
    BY <1>1, <1>6, <2>1
<1>8. \A e \in Docs : DocStays(s, docs, e)
  BY <1>1, <1>5 DEF Shows, DocStays
<1>9. \A v \in Wrappers : newWrapper[v] = wrapper[v] => Addresses'[v] = Addresses[v]
  <2> TAKE v \in Wrappers
  <2> SUFFICES ASSUME newWrapper[v] = wrapper[v]
               PROVE  Addresses'[v] = Addresses[v]
    OBVIOUS
  <2>1. wrapper[v] # Nowhere => DocStays(s, docs, wrapper[v].doc)
    <3> SUFFICES ASSUME wrapper[v] # Nowhere
                 PROVE  DocStays(s, docs, wrapper[v].doc)
      OBVIOUS
    <3>1. v \in Held
      BY DEF Held
    <3>2. wrapper[v].doc \in Docs
      BY <3>1, HeldFacts DEF Described
    <3> QED
      BY <1>8, <3>2
  <2> QED
    BY <1>1, <2>1, AddressStays DEF Described
<1>10. Addresses'[w] = Addresses[w]
  <2>1. CASE kept = wrapper[w]
    BY <1>1, <1>3, <1>9, <2>1
  <2>2. CASE OfNothing(Links(w)) /\ OfNothing(kept.links)
    <3>1. AddressOf(kept) = Nowhere /\ Addresses[w] = Nowhere
      BY <1>1, <2>2 DEF AddressOf, Addresses
    <3> QED
      BY <1>6, <3>1
  <2> QED
    BY <2>1, <2>2
<1>11. Addresses' = Addresses
  <2>1. \A v \in Wrappers : Addresses'[v] = Addresses[v]
    BY <1>3, <1>9, <1>10
  <2>2. Addresses = [v \in Wrappers |-> Addresses[v]] /\ Addresses' = [v \in Wrappers |-> Addresses'[v]]
    BY DEF Addresses
  <2> QED
    BY <2>1, <2>2
<1> QED
  BY <1>6, <1>7, <1>11

\* A call through a wrapper that it resolves ends like that.
LEMMA EndCallEnding ==
  ASSUME Described, NEW s, CallDone(Here, s), NEW w \in Held, EndCall(s, w),
         OfNothingAtAll(ResolvedBy(s, w))
  PROVE  CallEnding(s, w, ResolvedBy(s, w))
<1>1. End(s, docs, [wrapper EXCEPT ![w] = ResolvedBy(s, w)])
  BY ResolvedKept DEF Described
<1>2. KeptOK(s.heap, ResolvedBy(s, w))
  BY EndCallConsistent DEF Described
<1>3. /\ docs \in [Docs -> DOMAIN s.heap] /\ Distinct(docs) /\ Sound(s.heap, Roots(docs))
      /\ \A v \in Wrappers : wrapper[v] # Nowhere => KeptOK(s.heap, wrapper[v])
  BY DocsStay DEF Described
<1>4. wrapper = [v \in Wrappers |-> wrapper[v]] /\ w \in Wrappers
  BY DEF Described, Consistent, ConsistentState, Held
<1>5. \A v \in Wrappers : [wrapper EXCEPT ![w] = ResolvedBy(s, w)][v] # Nowhere =>
        KeptOK(s.heap, [wrapper EXCEPT ![w] = ResolvedBy(s, w)][v])
  BY <1>2, <1>3, <1>4
<1> QED
  BY <1>1, <1>3, <1>5 DEF CallEnding, Ending
-----------------------------------------------------------------------------
(***************************************************************************)
(* What a program sees below any property.                                 *)
(***************************************************************************)
\* A tree that is laid out, as places.
Pairs(D) == {<<q, D[q]>> : q \in DOMAIN D}

\* The places below a property are the paths of the tree that it lays out with what they
\* lead to, in the middle of a call too, if no two paths lead to the same.
LEMMA LaidPlaces ==
  ASSUME NEW h, IsFiniteSet(DOMAIN h), NEW p, NEW D, Lays(h, p, D),
         \A x, y \in DOMAIN D : D[x] = D[y] => x = y
  PROVE  Places(h, p) = Pairs(D)
<1> DEFINE N == Cardinality(DOMAIN h)
           A == Pairs(D)
           G == {m \in SUBSET A : <<<<>>, p>> \in m}
           S == [n \in Nat |-> {m \in G : Deeper(h, m) = m \/ Cardinality(m) >= n}]
           P == Places(h, p)
<1>1. N \in Nat
  BY FS_CardinalityType
<1>2. /\ \A q \in DOMAIN D : q \in Seq(Keys) /\ D[q] \in DOMAIN h /\ <<q, D[q]>> \in A
      /\ \A x \in A : x[1] \in DOMAIN D /\ x[2] = D[x[1]] /\ x = <<x[1], D[x[1]]>>
      /\ <<>> \in DOMAIN D /\ D[<<>>] = p
  BY DEF Lays, PathMap, Pairs
<1>3. IsFiniteSet(A) /\ Cardinality(A) \in Nat /\ Cardinality(A) <= N
  <2> DEFINE f == [x \in A |-> x[2]]
  <2> HIDE DEF A
  <2>1. f \in [A -> DOMAIN h]
    BY <1>2
  <2>2. \A x, y \in A : f[x] = f[y] => x = y
    BY <1>2
  <2>3. f \in Injection(A, DOMAIN h)
    BY <2>1, <2>2 DEF Injection, IsInjective
  <2> HIDE DEF f
  <2> QED
    BY <2>3, FS_Injection, FS_CardinalityType
<1>4. ASSUME NEW x \in A, NEW y \in Below(h, x)
      PROVE  y \in A
  <2>1. PICK key \in DOMAIN h[x[2]].children : y = <<Append(x[1], key), h[x[2]].children[key]>>
    BY <1>4 DEF Below
  <2>2. x[1] \in DOMAIN D /\ x[2] = D[x[1]]
    BY <1>2
  <2>3. Append(x[1], key) \in DOMAIN D /\ D[Append(x[1], key)] = h[x[2]].children[key]
    BY <2>1, <2>2 DEF Lays
  <2> QED
    BY <1>2, <2>1, <2>3
<1> HIDE DEF A
<1>5. ASSUME NEW m \in G
      PROVE  /\ Deeper(h, m) \in G /\ m \subseteq Deeper(h, m)
             /\ IsFiniteSet(m) /\ Cardinality(m) \in Nat /\ Cardinality(m) <= Cardinality(A)
  <2>1. m \subseteq Deeper(h, m) /\ Deeper(h, m) \subseteq A
    BY <1>4 DEF Deeper
  <2>2. IsFiniteSet(m) /\ Cardinality(m) \in Nat /\ Cardinality(m) <= Cardinality(A)
    BY <1>3, FS_Subset, FS_CardinalityType
  <2> QED
    BY <2>1, <2>2
<1>6. ASSUME NEW n \in Nat, NEW m \in S[n]
      PROVE  Deeper(h, m) \in S[n + 1]
  <2>1. m \in G /\ (Deeper(h, m) = m \/ Cardinality(m) >= n)
    OBVIOUS
  <2> HIDE DEF G
  <2>2. /\ Deeper(h, m) \in G /\ m \subseteq Deeper(h, m)
        /\ IsFiniteSet(Deeper(h, m)) /\ Cardinality(Deeper(h, m)) \in Nat /\ Cardinality(m) \in Nat
    BY <1>5, <2>1
  <2>3. CASE Deeper(h, m) = m
    BY <2>1, <2>3
  <2>4. CASE Deeper(h, m) # m
    <3>1. Cardinality(m) < Cardinality(Deeper(h, m))
      BY <2>2, <2>4, FS_Subset
    <3>2. Cardinality(Deeper(h, m)) >= n + 1
      BY <2>1, <2>2, <2>4, <3>1
    <3> QED
      BY <2>2, <3>2
  <2> QED
    BY <2>3, <2>4
<1>7. {<<<<>>, p>>} \in S[0]
  <2>1. {<<<<>>, p>>} \in G
    BY <1>2
  <2>2. Cardinality({<<<<>>, p>>}) >= 0
    BY <1>5, <2>1
  <2> HIDE DEF G
  <2> QED
    BY <2>1, <2>2
<1>8. P \in S[N]
  <2> HIDE DEF S
  <2> QED
    BY <1>6, <1>7, PlacesInduction
<1>9. P \in G /\ (Deeper(h, P) = P \/ Cardinality(P) >= N)
  BY <1>1, <1>8
<1> HIDE DEF S, P
<1>10. Deeper(h, P) = P
  <2>1. CASE Cardinality(P) >= N
    <3>1. P \subseteq A
      BY <1>9
    <3> HIDE DEF G
    <3>2. Cardinality(P) = Cardinality(A)
      BY <1>1, <1>3, <1>5, <1>9, <2>1
    <3>3. P = A
      BY <1>3, <3>1, <3>2, FS_Subset
    <3>4. Deeper(h, P) \in G /\ P \subseteq Deeper(h, P)
      BY <1>5, <1>9
    <3>5. Deeper(h, P) \subseteq A
      BY <3>4 DEF G
    <3> QED
      BY <3>3, <3>4, <3>5
  <2> QED
    BY <1>9, <2>1
<1>11. \A q \in DOMAIN D : <<q, D[q]>> \in P
  <2> DEFINE J == {q \in Seq(Keys) : q \in DOMAIN D => <<q, D[q]>> \in P}
  <2>1. <<>> \in J
    BY <1>2, <1>9
  <2>2. ASSUME NEW q \in Seq(Keys), NEW key \in Keys, q \in J
        PROVE  Append(q, key) \in J
    <3> SUFFICES ASSUME Append(q, key) \in DOMAIN D
                 PROVE  <<Append(q, key), D[Append(q, key)]>> \in P
      OBVIOUS
    <3>1. q \in DOMAIN D /\ key \in DOMAIN h[D[q]].children
          /\ D[Append(q, key)] = h[D[q]].children[key]
      BY DEF Lays
    <3>2. PICK x \in P : x = <<q, D[q]>>
      BY <2>2, <3>1
    <3>3. x[1] = q /\ x[2] = D[q]
      BY <3>2
    <3>4. <<Append(q, key), D[Append(q, key)]>> \in Below(h, x)
      BY <3>1, <3>3 DEF Below
    <3> QED
      BY <1>10, <3>4 DEF Deeper
  <2> HIDE DEF J
  <2>3. Seq(Keys) \subseteq J
    BY <2>1, <2>2, PathInduction
  <2> QED
    BY <1>2, <2>3 DEF J
<1>12. A \subseteq P
  BY <1>11 DEF A, Pairs
<1> QED
  BY <1>9, <1>12 DEF P, A

\* What TreeOf shows below any property of the document that a call is made on.
LEMMA TreeBelow ==
  ASSUME NEW s, NEW d \in Docs, NEW D, NEW T, Shows(s, d, D, T), NEW at \in DOMAIN D
  PROVE  TreeOf(s.heap, D[at]) = Promise!Subtree(T, at)
<1> DEFINE h == s.heap
           E == Promise!Subtree(D, at)
           places == Pairs(E)
<1>1. Lays(h, docs[d], D) /\ Picture(h, D) = T /\ IsFiniteSet(DOMAIN h) /\ PathMap(D) /\ at \in Seq(Keys)
  BY DEF Shows, Good, Sound, Lays, PathMap
<1>2. /\ Lays(h, D[at], E) /\ Picture(h, E) = Promise!Subtree(T, at)
  BY <1>1, LaysBelow
<1>3. /\ \A r \in Seq(Keys) : r \in DOMAIN E <=> at \o r \in DOMAIN D
      /\ \A r \in DOMAIN E : r \in Seq(Keys) /\ E[r] = D[at \o r]
  BY <1>1, SubtreeFacts DEF PathMap
<1>4. \A x, y \in DOMAIN D : D[x] = D[y] => x = y
  BY ShownOnce
<1> HIDE DEF E, h
<1>5. ASSUME NEW x \in DOMAIN E, NEW y \in DOMAIN E, E[x] = E[y]
      PROVE  x = y
  <2>1. x \in Seq(Keys) /\ y \in Seq(Keys) /\ at \o x = at \o y
    BY <1>3, <1>4, <1>5
  <2> QED
    BY <1>1, <2>1, ConcatSimplifications
<1>6. Places(h, D[at]) = places
  BY <1>1, <1>2, <1>5, LaidPlaces
<1>7. {place[1] : place \in places} = DOMAIN E
  <2>1. \A x \in places : x[1] \in DOMAIN E
    BY DEF Pairs
  <2>2. \A q \in DOMAIN E : \E x \in places : q = x[1]
    <3> TAKE q \in DOMAIN E
    <3>1. PICK x : x = <<q, E[q]>>
      OBVIOUS
    <3>2. x \in places /\ x[1] = q
      BY <3>1 DEF Pairs
    <3> QED
      BY <3>2
  <2> HIDE DEF places
  <2> QED
    BY <2>1, <2>2
<1>8. \A q \in DOMAIN E : EndOf(places, q) = E[q]
  <2> SUFFICES ASSUME NEW q \in DOMAIN E
               PROVE  EndOf(places, q) = E[q]
    OBVIOUS
  <2>1. <<q, E[q]>> \in places /\ \A x \in places : x[2] = E[x[1]]
    BY DEF Pairs
  <2>2. \E x \in places : x[1] = q
    BY <2>1
  <2> HIDE DEF places
  <2>3. PICK x : x \in places /\ x[1] = q /\ EndOf(places, q) = x[2]
    BY <2>2 DEF EndOf
  <2> QED
    BY <2>1, <2>3
<1>9. Nodes(h, places) = Picture(h, E)
  <2>1. Nodes(h, places) = [q \in DOMAIN E |-> NodeOf(h[EndOf(places, q)])]
    BY <1>7 DEF Nodes, NodeOf
  <2> HIDE DEF places
  <2> QED
    BY <1>8, <2>1 DEF Picture
<1> HIDE DEF places
<1>10. TreeOf(h, D[at]) = Nodes(h, places)
  BY <1>6 DEF TreeOf
<1> QED
  BY <1>2, <1>9, <1>10 DEF h
=============================================================================
