----------------------------- MODULE MergeProofs -----------------------------
(***************************************************************************)
(* Property::Copy and Property::Read: what they make is a tree of its own, *)
(* beside what was there.  Element::Merge, deep, of elements that share    *)
(* nothing: only the target changes, so that what the loops go over stays  *)
(* alive.                                                                  *)
(***************************************************************************)
EXTENDS CallProofs

\* Keys are steps of addresses.
LEMMA StepsLinked ==
  ASSUME NEW h, Linked(h, Keys)
  PROVE  Linked(h, Steps)
BY DEF Linked, Steps

\* A path behind an address of one step.
LEMMA BehindOne ==
  ASSUME NEW X, NEW c \in Seq(X), Len(c) = 1, NEW path \in Seq(X)
  PROVE  /\ c \o path \in Seq(X) /\ c \o path # <<>>
         /\ Head(c \o path) = c[1]
         /\ Tail(c \o path) = path
<1>1. /\ c \o path \in Seq(X)
      /\ Len(c \o path) = Len(c) + Len(path)
      /\ \A i \in 1..Len(c) + Len(path) :
           (c \o path)[i] = IF i <= Len(c) THEN c[i] ELSE path[i - Len(c)]
  BY ConcatProperties, Zenon
<1>2. PICK whole \in Seq(X) : whole = c \o path
  BY <1>1, Zenon
<1>3. /\ Len(whole) = 1 + Len(path) /\ whole[1] = c[1]
      /\ \A i \in 1..Len(path) : whole[1 + i] = path[i]
  <2>1. Len(path) \in Nat
    OBVIOUS
  <2> QED
    BY <1>1, <1>2, <2>1
<1>4. whole # <<>> /\ Head(whole) = c[1]
  BY <1>3
<1>5. Tail(whole) = path
  <2>1. Tail(whole) \in Seq(X) /\ Len(Tail(whole)) = Len(path)
    BY <1>3
  <2>2. PICK tail \in Seq(X) : tail = Tail(whole)
    BY <2>1, Zenon
  <2>3. Len(tail) = Len(path) /\ \A i \in 1..Len(path) : tail[i] = path[i]
    BY <1>3, <2>1, <2>2
  <2> QED
    BY <2>2, <2>3, SeqEqual
<1> QED
  BY <1>2, <1>4, <1>5

\* There are no more places than properties if no property is at two.
LEMMA FinitelyMany ==
  ASSUME NEW P, NEW D, IsFiniteSet(D), \A x \in P : x[2] \in D,
         \A x, y \in P : x[2] = y[2] => x = y
  PROVE  IsFiniteSet(P)
<1> DEFINE place == [q \in Ends(P) |-> CHOOSE x \in P : x[2] = q]
<1>1. \A x \in P : x[2] \in Ends(P) /\ place[x[2]] = x
  BY DEF Ends
<1>2. \A q \in Ends(P) : place[q] \in P
  BY DEF Ends
<1>3. place \in Surjection(Ends(P), P)
  BY <1>1, <1>2 DEF Surjection
<1>4. Ends(P) \subseteq D
  BY DEF Ends
<1>5. IsFiniteSet(Ends(P))
  BY <1>4, FS_Subset
<1> QED
  BY <1>3, <1>5, FS_Surjection

\* The places of a tree, each with its property.
LEMMA TreePlaces ==
  ASSUME NEW h, Linked(h, Steps), IsFiniteSet(DOMAIN h),
         NEW C, Structured(h, Steps, C), NEW p \in C
  PROVE  LET places == Places(h, p)
         IN  /\ IsFiniteSet(places)
             /\ <<<<>>, p>> \in places
             /\ \A x \in places :
                  /\ x[1] \in Seq(Steps) /\ x[2] \in C
                  /\ EndOf(places, x[1]) = x[2]
             /\ \A x, y \in places : x[1] = y[1] => x = y
             /\ \A x \in places : \A key \in DOMAIN h[x[2]].children :
                  <<Append(x[1], key), h[x[2]].children[key]>> \in places
             /\ \A x \in places : x[1] # <<>> =>
                  \E at \in places : \E key \in DOMAIN h[at[2]].children :
                    x = <<Append(at[1], key), h[at[2]].children[key]>>
<1> DEFINE P == Places(h, p)
<1>1. /\ Rooted(h, Steps, C, p, P)
      /\ \A at \in P : Below(h, at) \subseteq P
  BY PlacesFacts
<1> HIDE DEF P
<1>2. /\ P \subseteq Seq(Steps) \X C /\ <<<<>>, p>> \in P
      /\ \A x \in P : x[2] = p \o x[1]
      /\ \A x \in P : x[1] # <<>> => \E at \in P : x \in Below(h, at)
  BY <1>1 DEF Rooted
<1>3. \A x \in P : x = <<x[1], x[2]>> /\ x[1] \in Seq(Steps) /\ x[2] \in C
  BY <1>2
<1>4. \A x, y \in P : x[1] = y[1] => x = y
  <2> SUFFICES ASSUME NEW x \in P, NEW y \in P, x[1] = y[1]
               PROVE  x = y
    OBVIOUS
  <2>1. x = <<x[1], x[2]>> /\ y = <<y[1], y[2]>>
    BY <1>3
  <2>2. x[2] = p \o x[1] /\ y[2] = p \o y[1]
    BY <1>2
  <2>3. x[2] = y[2]
    BY <2>2
  <2> QED
    BY <2>1, <2>3
<1>5. \A x, y \in P : x[2] = y[2] => x = y
  <2> SUFFICES ASSUME NEW x \in P, NEW y \in P, x[2] = y[2]
               PROVE  x = y
    OBVIOUS
  <2>1. p \in Seq(Steps) /\ x[1] \in Seq(Steps) /\ y[1] \in Seq(Steps)
    BY <1>3 DEF Structured
  <2>2. p \o x[1] = p \o y[1]
    BY <1>2
  <2>3. x[1] = y[1]
    BY <2>1, <2>2, ConcatSimplifications
  <2> QED
    BY <2>3, <1>4
<1>6. IsFiniteSet(P)
  BY <1>3, <1>5, FinitelyMany DEF Structured
<1>7. \A x \in P : EndOf(P, x[1]) = x[2]
  BY <1>4 DEF EndOf
<1>8. \A x \in P : \A key \in DOMAIN h[x[2]].children :
        <<Append(x[1], key), h[x[2]].children[key]>> \in P
  BY <1>1 DEF Below
<1>9. \A x \in P : x[1] # <<>> =>
        \E at \in P : \E key \in DOMAIN h[at[2]].children :
          x = <<Append(at[1], key), h[at[2]].children[key]>>
  BY <1>2 DEF Below
<1> QED
  BY <1>2, <1>3, <1>4, <1>6, <1>7, <1>8, <1>9 DEF P

\* A heap of copies of what is at places, under addresses that begin with c.
Image(h, places, c, made) ==
  /\ DOMAIN made = {c \o x[1] : x \in places}
  /\ \A x \in places : /\ IsCell(made[c \o x[1]])
                       /\ made[c \o x[1]].type = h[x[2]].type
                       /\ made[c \o x[1]].value = h[x[2]].value
                       /\ DOMAIN made[c \o x[1]].children = DOMAIN h[x[2]].children
                       /\ made[c \o x[1]].fromProperty \in {Null, c \o x[1]}
  /\ \A x \in places : \A key \in DOMAIN h[x[2]].children :
       made[c \o x[1]].children[key] = c \o Append(x[1], key)
  /\ \A x \in places : made[c \o x[1]].parentProperty # Null =>
       /\ x[1] # <<>> /\ h[x[2]].type = "Element"
       /\ made[c \o x[1]].parentProperty = c \o Front(x[1])

\* Such copies are a tree of their own.
LEMMA ImageSound ==
  ASSUME NEW h, NEW R, Sound(h, R), NEW C, Structured(h, Steps, C), NEW p \in C,
         NEW c \in Seq(Steps), Len(c) = 1,
         NEW made, Image(h, Places(h, p), c, made)
  PROVE  /\ Sound(made, {}) /\ Unheld(made, c) /\ c \in DOMAIN made
         /\ \A a \in DOMAIN made : Head(a) = c[1]
         /\ made[c].type = h[p].type /\ made[c].parentProperty = Null
<1> DEFINE P == Places(h, p)
           At(x) == c \o x[1]
<1>1. /\ IsFiniteSet(P)
      /\ <<<<>>, p>> \in P
      /\ \A x \in P : x[1] \in Seq(Steps) /\ x[2] \in C
      /\ \A x, y \in P : x[1] = y[1] => x = y
      /\ \A x \in P : \A key \in DOMAIN h[x[2]].children :
           <<Append(x[1], key), h[x[2]].children[key]>> \in P
      /\ \A x \in P : x[1] # <<>> =>
           \E at \in P : \E key \in DOMAIN h[at[2]].children :
             x = <<Append(at[1], key), h[at[2]].children[key]>>
  <2>1. Linked(h, Steps) /\ IsFiniteSet(DOMAIN h)
    BY StepsLinked DEF Sound
  <2> QED
    BY <2>1, TreePlaces
<1>2. /\ \A x \in P : \A key \in DOMAIN h[x[2]].children : key \in Keys /\ key \in Steps
      /\ \A x \in P : h[x[2]].type # "Element" => DOMAIN h[x[2]].children = {}
  BY <1>1 DEF Sound, Linked, CellOK, Structured, Steps
<1> HIDE DEF P
<1>3. /\ DOMAIN made = {At(x) : x \in P}
      /\ \A x \in P : /\ IsCell(made[At(x)])
                      /\ made[At(x)].type = h[x[2]].type
                      /\ DOMAIN made[At(x)].children = DOMAIN h[x[2]].children
                      /\ made[At(x)].fromProperty \in {Null, At(x)}
      /\ \A x \in P : \A key \in DOMAIN h[x[2]].children :
           made[At(x)].children[key] = c \o Append(x[1], key)
      /\ \A x \in P : made[At(x)].parentProperty # Null =>
           /\ x[1] # <<>> /\ h[x[2]].type = "Element"
           /\ made[At(x)].parentProperty = c \o Front(x[1])
  BY DEF Image, P
<1>4. \A x \in P : /\ At(x) \in Seq(Steps) \ {<<>>} /\ Head(At(x)) = c[1]
                   /\ Tail(At(x)) = x[1]
  BY <1>1, BehindOne
<1>5. \A x, y \in P : At(x) = At(y) => x = y
  BY <1>1, <1>4
<1> DEFINE Onto(x, key) == <<Append(x[1], key), h[x[2]].children[key]>>
<1>6. \A x \in P : \A key \in DOMAIN h[x[2]].children :
        Onto(x, key) \in P /\ At(Onto(x, key)) = made[At(x)].children[key]
  BY <1>1, <1>3
<1>7. \A x \in P : \A key \in DOMAIN made[At(x)].children :
        key \in Keys /\ made[At(x)].children[key] \in DOMAIN made
  <2> SUFFICES ASSUME NEW x \in P, NEW key \in DOMAIN h[x[2]].children
               PROVE  key \in Keys /\ made[At(x)].children[key] \in DOMAIN made
    BY <1>3
  <2> HIDE DEF Onto, At
  <2>1. Onto(x, key) \in P /\ At(Onto(x, key)) = made[At(x)].children[key]
    BY <1>6
  <2> QED
    BY <1>2, <1>3, <2>1
<1> HIDE DEF At
<1>8. Linked(made, Keys)
  BY <1>3, <1>7 DEF Linked
<1>9. HeldOnce(made)
  <2> SUFFICES ASSUME NEW x \in P, NEW y \in P,
                      NEW k \in DOMAIN h[x[2]].children, NEW l \in DOMAIN h[y[2]].children,
                      made[At(x)].children[k] = made[At(y)].children[l]
               PROVE  x = y /\ k = l
    BY <1>3 DEF HeldOnce
  <2>1. Onto(x, k) = Onto(y, l)
    <3> HIDE DEF Onto
    <3> QED
      BY <1>5, <1>6
  <2>2. Append(x[1], k) = Append(y[1], l)
    BY <2>1
  <2>3. PICK u \in Seq(Steps), v \in Seq(Steps) : u = x[1] /\ v = y[1]
    BY <1>1
  <2>4. k \in Steps /\ l \in Steps /\ Append(u, k) = Append(v, l)
    BY <1>2, <2>2, <2>3
  <2>6. u = v /\ k = l
    BY <2>4, AppendOnce
  <2>5. x[1] = y[1] /\ k = l
    BY <2>3, <2>6
  <2> QED
    BY <1>1, <2>5
<1>10. IsFiniteSet(DOMAIN made)
  <2> DEFINE at == [x \in P |-> At(x)]
  <2>1. at \in Surjection(P, DOMAIN made)
    BY <1>3 DEF Surjection
  <2> QED
    BY <1>1, <2>1, FS_Surjection
<1>11. ASSUME NEW x \in P
       PROVE  CellOK(made, At(x))
  <2>1. ASSUME made[At(x)].parentProperty # Null
        PROVE  /\ made[At(x)].parentProperty \in DOMAIN made
               /\ Holds(made, made[At(x)].parentProperty, At(x))
    <3>1. x[1] # <<>> /\ made[At(x)].parentProperty = c \o Front(x[1])
      BY <1>3, <2>1
    <3>2. PICK at \in P : \E key \in DOMAIN h[at[2]].children : x = Onto(at, key)
      BY <1>1, <3>1
    <3>3. PICK key \in DOMAIN h[at[2]].children : x = Onto(at, key)
      BY <3>2
    <3>4. at[1] \in Seq(Steps) /\ key \in Steps
      BY <1>1, <1>2
    <3>5. Front(x[1]) = at[1]
      BY <3>3, <3>4, AppendFacts
    <3>6. made[At(x)].parentProperty = At(at)
      BY <3>1, <3>5 DEF At
    <3>7. made[At(at)].children[key] = At(x) /\ key \in DOMAIN made[At(at)].children
      BY <1>3, <1>6, <3>3
    <3> QED
      BY <1>3, <3>6, <3>7 DEF Holds
  <2>2. made[At(x)].type # "Element" =>
          made[At(x)].parentProperty = Null /\ DOMAIN made[At(x)].children = {}
    BY <1>2, <1>3
  <2> QED
    BY <1>3, <2>1, <2>2 DEF CellOK
<1>12. \A a \in DOMAIN made : CellOK(made, a)
  BY <1>3, <1>11
<1>13. c = At(<<<<>>, p>>)
  BY ConcatEmptySeq DEF At
<1>14. Unheld(made, c)
  <2> SUFFICES ASSUME NEW x \in P, NEW key \in DOMAIN h[x[2]].children,
                      made[At(x)].children[key] = c
               PROVE  FALSE
    BY <1>3 DEF Unheld, Holds
  <2>1. Onto(x, key) = <<<<>>, p>>
    <3> HIDE DEF Onto
    <3> QED
      BY <1>1, <1>5, <1>6, <1>13
  <2>2. Append(x[1], key) = <<>>
    BY <2>1
  <2>3. PICK u \in Seq(Steps) : u = x[1]
    BY <1>1
  <2>4. key \in Steps /\ Append(u, key) = <<>>
    BY <1>2, <2>2, <2>3
  <2> QED
    BY <2>4
<1>15. /\ c \in DOMAIN made /\ made[c].type = h[p].type
       /\ made[c].parentProperty = Null
  <2>1. \A x \in P : x = <<<<>>, p>> => x[1] = <<>> /\ x[2] = p
    OBVIOUS
  <2> QED
    BY <1>1, <1>3, <1>13, <2>1
<1>16. /\ DOMAIN made \subseteq Seq(Steps) \ {<<>>}
       /\ \A a \in DOMAIN made : Head(a) = c[1]
  BY <1>3, <1>4
<1> QED
  BY <1>8, <1>9, <1>10, <1>12, <1>14, <1>15, <1>16 DEF Sound

\* Copying or reading the tree below p puts copies of it beside what is there.
Rebuilt(s, t, places, made) ==
  /\ IsState(t) /\ t.heap = With(s.heap, made) /\ t.prop = Fresh(s)
  /\ t.roots = s.roots /\ t.outcome = s.outcome /\ t.links = s.links
  /\ Image(s.heap, places, Fresh(s), made)

\* NewTree makes a tree.
LEMMA NewTreeMade ==
  ASSUME NEW s, Good(s), NEW C, Structured(s.heap, Steps, C), NEW p \in C,
         NEW isRead \in BOOLEAN
  PROVE  \E made : Rebuilt(s, NewTree(s, p, isRead), Places(s.heap, p), made)
<1> DEFINE places == Places(s.heap, p)
           c == Fresh(s)
           At(path) == c \o path
           Cell(path, old) ==
             LET inner == path # <<>> /\ old.type = "Element"
             IN  [type |-> old.type, value |-> old.value,
                  children |-> [key \in DOMAIN old.children |-> At(Append(path, key))],
                  fromProperty |->
                    IF inner \/ (old.type = "Array" /\ (isRead \/ path # <<>>)) THEN At(path) ELSE Null,
                  parentProperty |-> IF inner /\ isRead THEN At(Front(path)) ELSE Null]
           made == [a \in {At(place[1]) : place \in places} |->
                      Cell(Tail(a), s.heap[EndOf(places, Tail(a))])]
           u == [s EXCEPT !.heap = With(@, made)]
           t == NewTree(s, p, isRead)
<1>1. t = Return(u, c)
  BY DEF NewTree
<1>2. c \in Seq(Steps) /\ Len(c) = 1 /\ \A a \in DOMAIN s.heap : Head(a) # c[1]
  BY FreshFacts DEF Good, Sound
<1>3. \A x \in places : x[1] \in Seq(Steps) /\ EndOf(places, x[1]) = x[2]
  <2> DEFINE h == s.heap
  <2>1. Linked(h, Steps) /\ IsFiniteSet(DOMAIN h) /\ Structured(h, Steps, C)
    BY StepsLinked DEF Good, Sound
  <2>2. \A x \in Places(h, p) : x[1] \in Seq(Steps) /\ EndOf(Places(h, p), x[1]) = x[2]
    <3> HIDE DEF h
    <3> QED
      BY <2>1, TreePlaces
  <2> QED
    BY <2>2
<1>4. Image(s.heap, places, c, made)
  <2> HIDE DEF places, c
  <2>1. \A x \in places : Tail(At(x[1])) = x[1]
    BY <1>2, <1>3, BehindOne
  <2>2. \A x \in places : made[At(x[1])] = Cell(x[1], s.heap[x[2]])
    <3> HIDE DEF Cell, At
    <3> QED
      BY <1>3, <2>1
  <2>3. DOMAIN made = {At(x[1]) : x \in places}
    OBVIOUS
  <2> HIDE DEF made
  <2>4. \A path, old :
          /\ IsCell(Cell(path, old)) /\ Cell(path, old).type = old.type
          /\ Cell(path, old).value = old.value
          /\ DOMAIN Cell(path, old).children = DOMAIN old.children
          /\ Cell(path, old).fromProperty \in {Null, At(path)}
    <3> HIDE DEF At
    <3> QED
      BY DEF IsCell
  <2>5. \A path, old : \A key \in DOMAIN old.children :
          Cell(path, old).children[key] = At(Append(path, key))
    <3> HIDE DEF At
    <3> QED
      OBVIOUS
  <2>6. \A path, old : Cell(path, old).parentProperty # Null =>
          path # <<>> /\ old.type = "Element" /\ Cell(path, old).parentProperty = At(Front(path))
    <3> HIDE DEF At
    <3> QED
      OBVIOUS
  <2> HIDE DEF Cell, At
  <2>7. \A x \in places : /\ IsCell(made[At(x[1])])
                          /\ made[At(x[1])].type = s.heap[x[2]].type
                          /\ made[At(x[1])].value = s.heap[x[2]].value
                          /\ DOMAIN made[At(x[1])].children = DOMAIN s.heap[x[2]].children
                          /\ made[At(x[1])].fromProperty \in {Null, At(x[1])}
    BY <2>2, <2>4
  <2>8. \A x \in places : \A key \in DOMAIN s.heap[x[2]].children :
          made[At(x[1])].children[key] = At(Append(x[1], key))
    BY <2>2, <2>5
  <2>9. \A x \in places : made[At(x[1])].parentProperty # Null =>
          /\ x[1] # <<>> /\ s.heap[x[2]].type = "Element"
          /\ made[At(x[1])].parentProperty = At(Front(x[1]))
    BY <2>2, <2>6
  <2> QED
    BY <2>3, <2>7, <2>8, <2>9 DEF Image, At
<1>5. u = [s EXCEPT !.heap = With(s.heap, made)]
  <2> HIDE DEF made
  <2> QED
    OBVIOUS
<1> HIDE DEF made, u, t
<1>6. /\ IsState(u) /\ u.heap = With(s.heap, made)
      /\ u.roots = s.roots /\ u.outcome = s.outcome /\ u.links = s.links
  BY <1>5, HeapChanged DEF Good
<1>7. /\ IsState(t) /\ t.heap = With(s.heap, made)
      /\ t.roots = s.roots /\ t.outcome = s.outcome /\ t.links = s.links /\ t.prop = c
  BY <1>1, <1>6, ReturnFacts
<1>8. Rebuilt(s, t, places, made)
  BY <1>4, <1>7 DEF Rebuilt
<1> QED
  BY <1>8 DEF t

\* What copying or reading the tree below p makes.
LEMMA NewTreeSound ==
  ASSUME NEW s, Good(s), NEW C, Structured(s.heap, Steps, C), NEW p \in C,
         NEW isRead \in BOOLEAN
  PROVE  LET t == NewTree(s, p, isRead)
         IN  /\ Good(t) /\ Grown(s, t)
             /\ t.prop \in DOMAIN t.heap /\ t.prop \notin DOMAIN s.heap
             /\ Unheld(t.heap, t.prop) /\ t.prop \notin t.roots
             /\ t.heap[t.prop].type = s.heap[p].type /\ t.heap[t.prop].parentProperty = Null
             /\ \A a \in DOMAIN s.heap : t.heap[a] = s.heap[a]
             /\ Shut(t.heap, DOMAIN t.heap \ DOMAIN s.heap)
<1> DEFINE c == Fresh(s)
           t == NewTree(s, p, isRead)
<1>1. PICK made : Rebuilt(s, t, Places(s.heap, p), made)
  BY NewTreeMade
<1> HIDE DEF t, c
<1>2. c \in Seq(Steps) /\ Len(c) = 1 /\ \A a \in DOMAIN s.heap : Head(a) # c[1]
  BY FreshFacts DEF Good, Sound, c
<1>3. /\ IsState(t) /\ t.heap = With(s.heap, made) /\ t.prop = c
      /\ t.roots = s.roots /\ t.outcome = s.outcome /\ t.links = s.links
      /\ Image(s.heap, Places(s.heap, p), c, made)
  BY <1>1 DEF Rebuilt, c
<1>4. /\ Sound(made, {}) /\ Unheld(made, c) /\ c \in DOMAIN made
      /\ \A a \in DOMAIN made : Head(a) = c[1]
      /\ made[c].type = s.heap[p].type /\ made[c].parentProperty = Null
  <2>1. Sound(s.heap, s.roots)
    BY DEF Good
  <2> QED
    BY <1>2, <1>3, <2>1, ImageSound
<1>5. /\ DOMAIN With(s.heap, made) = DOMAIN s.heap \cup DOMAIN made
      /\ \A x \in DOMAIN made : With(s.heap, made)[x] = made[x]
      /\ \A x \in DOMAIN s.heap \ DOMAIN made : With(s.heap, made)[x] = s.heap[x]
  BY WithFacts
<1>6. DOMAIN s.heap \cap DOMAIN made = {}
  BY <1>2, <1>4
<1>7. /\ Sound(With(s.heap, made), s.roots)
      /\ \A a \in DOMAIN made : Unheld(made, a) => Unheld(With(s.heap, made), a)
  BY <1>4, <1>6, BesideSound DEF Good
<1>8. Good(t) /\ Grown(s, t)
  BY <1>3, <1>5, <1>6, <1>7 DEF Good, Grown, Larger
<1>9. t.prop \notin t.roots
  BY <1>4, <1>3, <1>6 DEF Good, Sound, RootOK
<1>10. Shut(t.heap, DOMAIN t.heap \ DOMAIN s.heap)
  BY <1>4, <1>3, <1>5, <1>6 DEF Shut, Sound, Linked
<1>11. /\ t.prop \in DOMAIN t.heap /\ t.prop \notin DOMAIN s.heap
       /\ Unheld(t.heap, t.prop)
       /\ t.heap[t.prop].type = s.heap[p].type /\ t.heap[t.prop].parentProperty = Null
       /\ \A a \in DOMAIN s.heap : t.heap[a] = s.heap[a]
  BY <1>4, <1>3, <1>5, <1>6, <1>7
<1> QED
  BY <1>8, <1>9, <1>10, <1>11 DEF t

-----------------------------------------------------------------------------

\* T is the tree that is merged into, S that of the source.
Grove(s0, s, T) == T \cup (DOMAIN s.heap \ DOMAIN s0.heap)

SetOut(s0, T, S) ==
  /\ Good(s0) /\ DOMAIN s0.heap = Reach(s0.heap, s0.roots)
  /\ T \subseteq DOMAIN s0.heap /\ Shut(s0.heap, T)
  /\ Structured(s0.heap, Steps, S) /\ S \cap T = {}

\* Only the target has changed.
Between(s0, s, T) ==
  /\ Good(s) /\ Grown(s0, s)
  /\ \A a \in DOMAIN s0.heap \ T : s.heap[a] = s0.heap[a]
  /\ Shut(s.heap, Grove(s0, s, T))

\* The source of a merge does not change.
LEMMA SourceStays ==
  ASSUME NEW s0, NEW T, NEW S, SetOut(s0, T, S), NEW s, Between(s0, s, T)
  PROVE  /\ Structured(s.heap, Steps, S)
         /\ S \subseteq DOMAIN s.heap
         /\ \A a \in S : s.heap[a] = s0.heap[a] /\ a \notin Grove(s0, s, T)
<1>1. S \subseteq DOMAIN s0.heap /\ S \cap T = {}
  BY DEF SetOut, Structured
<1>2. \A a \in S : s.heap[a] = s0.heap[a] /\ a \notin Grove(s0, s, T)
  BY <1>1 DEF Between, Grove
<1>3. S \subseteq DOMAIN s.heap
  BY <1>1 DEF Between, Grown, Larger
<1>4. Structured(s.heap, Steps, S)
  BY <1>1, <1>2, <1>3 DEF SetOut, Structured, Shut
<1> QED
  BY <1>2, <1>3, <1>4

\* Nothing of the source is destroyed while Element::Merge goes over it.
LEMMA SourceAlive ==
  ASSUME NEW s0, NEW T, NEW S, SetOut(s0, T, S), NEW s, Between(s0, s, T)
  PROVE  \A a \in S : Alive(s, a)
<1> DEFINE A == Reach(s.heap, s.roots)
           C == (A \cap DOMAIN s0.heap) \cup T
<1>1. Linked(s.heap, Keys) /\ IsFiniteSet(DOMAIN s.heap) /\ s.roots \subseteq DOMAIN s.heap
  BY DEF Between, Good, Sound, RootOK
<1>2. Linked(s0.heap, Keys) /\ IsFiniteSet(DOMAIN s0.heap) /\ s0.roots \subseteq DOMAIN s0.heap
  BY DEF SetOut, Good, Sound, RootOK
<1>3. s.roots = s0.roots
  BY DEF Between, Grown, Larger
<1>4. s.roots \subseteq A /\ Shut(s.heap, A) /\ A \subseteq DOMAIN s.heap
  BY <1>1, ReachFacts
<1> HIDE DEF A
<1>5. s0.roots \subseteq C
  BY <1>2, <1>3, <1>4
<1>6. Shut(s0.heap, C)
  <2> SUFFICES ASSUME NEW a \in C, NEW key \in DOMAIN s0.heap[a].children
               PROVE  s0.heap[a].children[key] \in C
    BY DEF Shut
  <2>1. CASE a \in T
    BY <2>1 DEF SetOut, Shut
  <2>2. CASE a \notin T
    <3>1. a \in A /\ a \in DOMAIN s0.heap /\ a \in DOMAIN s.heap /\ s.heap[a] = s0.heap[a]
      BY <1>4, <2>2 DEF Between
    <3>2. s0.heap[a].children[key] \in A
      BY <1>4, <3>1 DEF Shut
    <3>3. s0.heap[a].children[key] \in DOMAIN s0.heap
      BY <1>2, <3>1 DEF Linked
    <3> QED
      BY <3>2, <3>3
  <2> QED
    BY <2>1, <2>2
<1>7. Reach(s0.heap, s0.roots) \subseteq C
  BY <1>2, <1>5, <1>6, ReachFacts
<1>8. S \subseteq A
  BY <1>7 DEF SetOut, Structured
<1> QED
  BY <1>8 DEF Alive, A

\* Merging an array into one of the target.
LEMMA ArrayBetween ==
  ASSUME NEW s0, NEW T, NEW s, Between(s0, s, T), NEW a \in Grove(s0, s, T), a \in DOMAIN s.heap,
         NEW b, NEW overwrite
  PROVE  LET t == MergeArray(s, a, b, overwrite)
         IN  Between(s0, t, T) /\ Grown(s, t)
<1> DEFINE x == IF ~overwrite THEN s.heap[a].value + s.heap[b].value
                ELSE IF a = b THEN 0 ELSE s.heap[b].value
           t == MergeArray(s, a, b, overwrite)
<1>1. t = [s EXCEPT !.heap[a].value = x]
  BY DEF MergeArray
<1> HIDE DEF x, t
<1>2. /\ Good(t) /\ Grown(s, t) /\ Changed(s, t, a)
      /\ t.heap[a].children = s.heap[a].children
  BY <1>1, ValueSound DEF Between
<1>3. Grown(s0, t)
  BY <1>2 DEF Between, Grown, Larger
<1>4. a \notin DOMAIN s0.heap \ T
  BY DEF Grove
<1>5. \A c \in DOMAIN s0.heap \ T : t.heap[c] = s0.heap[c]
  BY <1>2, <1>4 DEF Between, Changed, Grown, Larger
<1>6. Shut(t.heap, Grove(s0, t, T))
  <2>1. Grove(s0, t, T) = Grove(s0, s, T)
    BY <1>2 DEF Changed, Grove
  <2>2. \A c \in DOMAIN s.heap : t.heap[c].children = s.heap[c].children
    BY <1>2 DEF Changed
  <2> QED
    BY <1>2, <2>1, <2>2 DEF Between, Shut, Changed
<1> QED
  BY <1>2, <1>3, <1>5, <1>6 DEF Between, t

\* Merging one child in a deep merge.
LEMMA ChildBetween ==
  ASSUME NEW s0, NEW T, NEW S, SetOut(s0, T, S), NEW s, Between(s0, s, T),
         NEW e \in Grove(s0, s, T), e \in DOMAIN s.heap, s.heap[e].type = "Element",
         NEW key \in Keys, NEW p \in S, NEW overwrite
  PROVE  LET t == MergeChild(s, e, key, p, overwrite, TRUE)
         IN  Between(s0, t, T) /\ Grown(s, t)
<1> DEFINE old == Child(s, e, key)
           c == Copy(s, p)
           t == MergeChild(s, e, key, p, overwrite, TRUE)
<1>0. Good(s)
  BY DEF Between
<1>1. CASE IsType(s, p, "Array") /\ IsType(s, old, "Array")
  <2>1. t = MergeArray(s, old, p, overwrite)
    BY <1>1 DEF MergeChild
  <2>2. old # Null
    BY <1>1 DEF IsType
  <2>3. old \in DOMAIN s.heap /\ key \in DOMAIN s.heap[e].children /\ old = s.heap[e].children[key]
    BY <1>0, <2>2, ChildFacts
  <2>4. old \in Grove(s0, s, T)
    BY <2>3 DEF Between, Shut
  <2> HIDE DEF old, t
  <2> QED
    BY <2>1, <2>3, <2>4, ArrayBetween DEF t
<1>2. CASE t = s
  <2> HIDE DEF t
  <2>1. Between(s0, t, T) /\ Grown(s, t)
    BY <1>2 DEF Grown, Larger
  <2> QED
    BY <2>1 DEF t
<1>3. CASE t = AddChild(c, e, key, c.prop)
  <2> HIDE DEF t, old
  <2>1. Structured(s.heap, Steps, S)
    BY SourceStays
  <2>2. /\ Good(c) /\ Grown(s, c)
        /\ c.prop \in DOMAIN c.heap /\ c.prop \notin DOMAIN s.heap
        /\ Unheld(c.heap, c.prop) /\ c.prop \notin c.roots
        /\ c.heap[c.prop].parentProperty = Null
        /\ \A a \in DOMAIN s.heap : c.heap[a] = s.heap[a]
        /\ Shut(c.heap, DOMAIN c.heap \ DOMAIN s.heap)
    <3>1. c = NewTree(s, p, FALSE)
      BY DEF Copy
    <3>2. FALSE \in BOOLEAN
      OBVIOUS
    <3> HIDE DEF c
    <3>3. LET u == NewTree(s, p, FALSE)
          IN  /\ Good(u) /\ Grown(s, u)
              /\ u.prop \in DOMAIN u.heap /\ u.prop \notin DOMAIN s.heap
              /\ Unheld(u.heap, u.prop) /\ u.prop \notin u.roots
              /\ u.heap[u.prop].type = s.heap[p].type /\ u.heap[u.prop].parentProperty = Null
              /\ \A a \in DOMAIN s.heap : u.heap[a] = s.heap[a]
              /\ Shut(u.heap, DOMAIN u.heap \ DOMAIN s.heap)
      BY <1>0, <2>1, <3>2, NewTreeSound, Zenon
    <3> QED
      BY <3>1, <3>3
  <2> HIDE DEF c
  <2>3. e \in DOMAIN c.heap /\ c.heap[e].type = "Element" /\ c.prop # e
    BY <2>2 DEF Grown, Larger
  <2>4. c.prop \notin {Null, Gone}
    BY <2>2, Pointer DEF Good, Sound
  <2>5. Good(t) /\ Grown(c, t) /\ Taken(c, t, e, key, c.prop)
    BY <1>3, <2>2, <2>3, <2>4, AddChildSound
  <2>6. Grown(s, t)
    BY <2>2, <2>5 DEF Grown, Larger
  <2>7. Grown(s0, t)
    BY <2>6 DEF Between, Grown, Larger
  <2>8. DOMAIN t.heap = DOMAIN c.heap /\ DOMAIN s.heap \subseteq DOMAIN c.heap
        /\ DOMAIN s0.heap \subseteq DOMAIN s.heap
    BY <2>2, <2>5 DEF Between, Grown, Larger, Taken
  <2>9. \A a \in DOMAIN s0.heap \ T : t.heap[a] = s0.heap[a]
    <3> SUFFICES ASSUME NEW a \in DOMAIN s0.heap \ T
                 PROVE  t.heap[a] = s0.heap[a]
      OBVIOUS
    <3>1. a \in DOMAIN s.heap /\ a # e /\ a # c.prop
      BY <2>2, <2>8 DEF Grove
    <3>2. t.heap[a] = c.heap[a]
      BY <2>5, <2>8, <3>1 DEF Taken
    <3> QED
      BY <2>2, <3>1, <3>2 DEF Between
  <2>10. Shut(t.heap, Grove(s0, t, T))
    <3> DEFINE G == Grove(s0, s, T)
               F == DOMAIN c.heap \ DOMAIN s.heap
    <3>1. Grove(s0, t, T) = G \cup F
      BY <2>8 DEF Grove
    <3>6. T \subseteq DOMAIN s.heap
      BY <2>8 DEF SetOut
    <3> HIDE DEF G, F
    <3> SUFFICES ASSUME NEW a \in G \cup F, a \in DOMAIN t.heap,
                        NEW k \in DOMAIN t.heap[a].children
                 PROVE  t.heap[a].children[k] \in G \cup F
      BY <3>1 DEF Shut
    <3>2. \A k1 \in DOMAIN c.heap[a].children : c.heap[a].children[k1] \in G \cup F
      <4>1. CASE a \in F
        BY <2>2, <4>1 DEF Shut, F
      <4>2. CASE a \notin F
        <5>1. a \in DOMAIN s.heap /\ c.heap[a] = s.heap[a] /\ a \in G
          BY <2>2, <2>8, <4>2 DEF F
        <5> QED
          BY <5>1 DEF Between, Shut, G
      <4> QED
        BY <4>1, <4>2
    <3>3. CASE a # e
      <4>1. t.heap[a].children = c.heap[a].children
        BY <2>5, <2>8, <3>3 DEF Taken
      <4> QED
        BY <3>2, <4>1
    <3>4. CASE a = e
      <4>1. t.heap[a].children = With(c.heap[a].children, Only(key, c.prop))
        BY <2>5, <3>4 DEF Taken
      <4>2. t.heap[a].children[k] \in {c.prop} \cup {c.heap[a].children[k1] : k1 \in DOMAIN c.heap[a].children}
        BY <4>1 DEF With, Only
      <4>3. c.prop \in F
        BY <2>2 DEF F
      <4> QED
        BY <3>2, <4>2, <4>3
    <3> QED
      BY <3>3, <3>4
  <2>11. Between(s0, t, T)
    BY <2>5, <2>7, <2>9, <2>10 DEF Between
  <2> QED
    BY <2>6, <2>11 DEF t
<1> QED
  BY <1>1, <1>2, <1>3 DEF MergeChild

VisitType(s0, s, T, S) ==
  [into : {a \in Grove(s0, s, T) \cap DOMAIN s.heap : s.heap[a].type = "Element"},
   key : Keys,
   sources : Seq({a \in S : s0.heap[a].type = "Element"}) \ {<<>>}]

Merging(s0, m, T, S) ==
  /\ m = [state |-> m.state, todo |-> m.todo]
  /\ Between(s0, m.state, T)
  /\ m.todo \in Seq(VisitType(s0, m.state, T, S))

\* What is still to be visited can still be visited after a step.
LEMMA VisitsStay ==
  ASSUME NEW s0, NEW T, NEW S, NEW s, NEW t, Grown(s, t), NEW todo \in Seq(VisitType(s0, s, T, S))
  PROVE  todo \in Seq(VisitType(s0, t, T, S))
<1>1. Grove(s0, s, T) \cap DOMAIN s.heap \subseteq Grove(s0, t, T) \cap DOMAIN t.heap
  BY DEF Grown, Larger, Grove
<1>2. VisitType(s0, s, T, S) \subseteq VisitType(s0, t, T, S)
  BY <1>1 DEF VisitType, Grown, Larger
<1> QED
  BY <1>2, SeqMonotonic

\* The visits for the children of an element of the source.
LEMMA VisitsMade ==
  ASSUME NEW s0, NEW T, NEW S, NEW s, NEW e \in Grove(s0, s, T), e \in DOMAIN s.heap,
         s.heap[e].type = "Element", NEW sources \in Seq({a \in S : s0.heap[a].type = "Element"}),
         sources # <<>>, NEW order \in Seq(Keys)
  PROVE  Visits(e, sources, order) \in Seq(VisitType(s0, s, T, S))
<1>1. Len(order) \in Nat /\ DOMAIN order = 1..Len(order) /\ \A i \in 1..Len(order) : order[i] \in Keys
  OBVIOUS
<1>2. \A key \in Keys : [into |-> e, key |-> key, sources |-> sources] \in VisitType(s0, s, T, S)
  BY DEF VisitType
<1>3. Visits(e, sources, order) \in [1..Len(order) -> VisitType(s0, s, T, S)]
  BY <1>1, <1>2 DEF Visits
<1> QED
  BY <1>1, <1>3

\* At each step one child is merged, or none.
ChildMerged(s0, s, t, T, S, overwrite) ==
  \/ t = s
  \/ \E e \in Grove(s0, s, T) \cap DOMAIN s.heap : \E key \in Keys, p \in S :
       s.heap[e].type = "Element" /\ t = MergeChild(s, e, key, p, overwrite, TRUE)

\* One step of the loops of a deep merge.
LEMMA VisitedMerging ==
  ASSUME NEW s0, NEW T, NEW S, SetOut(s0, T, S), NEW m, Merging(s0, m, T, S),
         NEW overwrite, NEW order \in Seq(Keys)
  PROVE  LET w == Visited(m, overwrite, TRUE, order)
         IN  Merging(s0, w, T, S) /\ ChildMerged(s0, m.state, w.state, T, S, overwrite)
<1> DEFINE s == m.state
           v == Head(m.todo)
           p == Child(s, Last(v.sources), v.key)
           old == Child(s, v.into, v.key)
           t == MergeChild(s, v.into, v.key, p, overwrite, TRUE)
           w == Visited(m, overwrite, TRUE, order)
           Src == {a \in S : s0.heap[a].type = "Element"}
<1> HIDE DEF Src
<1>1. /\ m = [state |-> m.state, todo |-> m.todo] /\ Between(s0, s, T) /\ Good(s)
      /\ m.todo \in Seq(VisitType(s0, s, T, S))
  BY DEF Merging, Between
<1>2. CASE w = m
  BY <1>2 DEF ChildMerged
<1>3. CASE m.todo # <<>>
  <2>1. Tail(m.todo) \in Seq(VisitType(s0, s, T, S)) /\ v \in VisitType(s0, s, T, S)
    BY <1>1, <1>3, HeadTailProperties
  <2>2. /\ v.into \in Grove(s0, s, T) /\ v.into \in DOMAIN s.heap
        /\ s.heap[v.into].type = "Element"
        /\ v.key \in Keys /\ v.sources \in Seq(Src) /\ v.sources # <<>>
    BY <2>1 DEF VisitType, Src
  <2>3. Last(v.sources) \in S /\ \A i \in DOMAIN v.sources : v.sources[i] \in S
    <3>1. Last(v.sources) \in Src
      BY <2>2, AppendToFront
    <3>2. \A i \in DOMAIN v.sources : v.sources[i] \in Src
      BY <2>2
    <3> QED
      BY <3>1, <3>2 DEF Src
  <2>4. p # Null => p \in S /\ p \in DOMAIN s.heap
    <3>1. Structured(s.heap, Steps, S) /\ S \subseteq DOMAIN s.heap
      BY <1>1, SourceStays
    <3> DEFINE b == Last(v.sources)
    <3>2. b \in S /\ b \in DOMAIN s.heap
      BY <2>3, <3>1
    <3> HIDE DEF b
    <3>3. Child(s, b, v.key) # Null =>
            Child(s, b, v.key) \in S /\ Child(s, b, v.key) \in DOMAIN s.heap
      BY <1>1, <3>1, <3>2, ChildFacts DEF Structured, Shut
    <3> QED
      BY <3>3 DEF b
  <2>5. CASE w = [m EXCEPT !.todo = Tail(@)]
    BY <1>1, <2>1, <2>5 DEF Merging, ChildMerged
  <2>6. CASE /\ p # Null /\ IsType(s, p, "Element") /\ IsType(s, old, "Element")
             /\ w = [m EXCEPT !.todo = Visits(old, Append(v.sources, p), order) \o Tail(@)]
    <3>1. old \in DOMAIN s.heap /\ s.heap[old].type = "Element" /\ old \in Grove(s0, s, T)
      <4>1. old # Null /\ s.heap[old].type = "Element"
        BY <2>6 DEF IsType
      <4> DEFINE e == v.into
                 k == v.key
      <4>2. e \in DOMAIN s.heap /\ e \in Grove(s0, s, T)
        BY <2>2
      <4> HIDE DEF e, k
      <4>3. Child(s, e, k) # Null => Child(s, e, k) \in DOMAIN s.heap /\ Child(s, e, k) \in Grove(s0, s, T)
        BY <1>1, <4>2, ChildFacts DEF Between, Shut
      <4> QED
        BY <4>1, <4>3 DEF e, k
    <3>2. p \in Src
      <4>1. s0.heap[p].type = "Element"
        BY <1>1, <2>4, <2>6, SourceStays DEF IsType
      <4> QED
        BY <2>4, <2>6, <4>1 DEF Src
    <3> HIDE DEF old, p
    <3>3. PICK more \in Seq(Src) : more = Append(v.sources, p) /\ more # <<>>
      <4>1. PICK seq \in Seq(Src) : seq = v.sources
        BY <2>2
      <4>2. Append(seq, p) \in Seq(Src) /\ Append(seq, p) # <<>>
        BY <3>2
      <4> QED
        BY <4>1, <4>2
    <3>4. Visits(old, more, order) \in Seq(VisitType(s0, s, T, S))
      BY <3>1, <3>3, VisitsMade DEF Src
    <3>5. Visits(old, more, order) \o Tail(m.todo) \in Seq(VisitType(s0, s, T, S))
      BY <2>1, <3>4, ConcatProperties
    <3>6. w = [m EXCEPT !.todo = Visits(old, more, order) \o Tail(m.todo)]
      BY <2>6, <3>3
    <3> HIDE DEF w, s, v
    <3>7. w.state = s /\ w.todo = Visits(old, more, order) \o Tail(m.todo)
          /\ w = [state |-> w.state, todo |-> w.todo]
      BY <1>1, <3>6 DEF s
    <3>8. Merging(s0, w, T, S) /\ ChildMerged(s0, s, w.state, T, S, overwrite)
      BY <1>1, <3>5, <3>7 DEF Merging, ChildMerged
    <3> QED
      BY <3>8 DEF w, s
  <2>7. CASE /\ p # Null
             /\ w = [state |-> IF \A i \in DOMAIN v.sources : Alive(t, v.sources[i]) THEN t
                               ELSE Undefined(t),
                     todo |-> Tail(m.todo)]
    <3>1. Between(s0, t, T) /\ Grown(s, t)
      <4> HIDE DEF p, s, v
      <4> QED
        BY <1>1, <2>2, <2>4, <2>7, ChildBetween
    <3>2. \A i \in DOMAIN v.sources : Alive(t, v.sources[i])
      <4> HIDE DEF t, v
      <4> QED
        BY <2>3, <3>1, SourceAlive
    <3> HIDE DEF w, t, v, s
    <3>3. w = [state |-> t, todo |-> Tail(m.todo)]
      BY <2>7, <3>2
    <3>4. Tail(m.todo) \in Seq(VisitType(s0, t, T, S))
      BY <2>1, <3>1, VisitsStay
    <3>5. Merging(s0, w, T, S)
      BY <3>1, <3>3, <3>4 DEF Merging
    <3>6. ChildMerged(s0, s, t, T, S, overwrite)
      <4> DEFINE e == v.into
                 k == v.key
      <4>1. e \in Grove(s0, s, T) \cap DOMAIN s.heap /\ s.heap[e].type = "Element" /\ k \in Keys
        BY <2>2
      <4>2. p \in S /\ t = MergeChild(s, e, k, p, overwrite, TRUE)
        BY <2>4, <2>7 DEF t
      <4> HIDE DEF e, k, p
      <4> QED
        BY <4>1, <4>2 DEF ChildMerged
    <3>7. w.state = t
      BY <3>3
    <3>8. Merging(s0, w, T, S) /\ ChildMerged(s0, s, w.state, T, S, overwrite)
      BY <3>5, <3>6, <3>7
    <3> QED
      BY <3>8 DEF w, s
  <2>8. \/ w = m \/ w = [m EXCEPT !.todo = Tail(@)]
        \/ /\ p # Null /\ IsType(s, p, "Element") /\ IsType(s, old, "Element")
           /\ w = [m EXCEPT !.todo = Visits(old, Append(v.sources, p), order) \o Tail(@)]
        \/ /\ p # Null
           /\ w = [state |-> IF \A i \in DOMAIN v.sources : Alive(t, v.sources[i]) THEN t
                             ELSE Undefined(t),
                   todo |-> Tail(m.todo)]
    BY DEF Visited
  <2> QED
    BY <1>2, <2>5, <2>6, <2>7, <2>8
<1>4. CASE m.todo = <<>>
  BY <1>2, <1>4 DEF Visited
<1> QED
  BY <1>3, <1>4

IsMerging(m0, overwrite, deep, order, n, f) ==
  f = [i \in 0..n |-> IF i = 0 THEN m0 ELSE Visited(f[i - 1], overwrite, deep, order)]

\* The equation of the recursion in Merge has a solution.
LEMMA MergingExists ==
  ASSUME NEW m0, NEW overwrite, NEW deep, NEW order
  PROVE  \A n \in Nat : \E f : IsMerging(m0, overwrite, deep, order, n, f)
<1> DEFINE S == {n \in Nat : \E f : IsMerging(m0, overwrite, deep, order, n, f)}
           Step(m) == Visited(m, overwrite, deep, order)
<1>1. 0 \in S
  <2>1. IsMerging(m0, overwrite, deep, order, 0, [i \in 0..0 |-> m0])
    BY DEF IsMerging
  <2> QED
    BY <2>1
<1>2. \A n \in Nat : n \in S => n + 1 \in S
  <2> SUFFICES ASSUME NEW n \in Nat, NEW f, IsMerging(m0, overwrite, deep, order, n, f)
               PROVE  \E g : IsMerging(m0, overwrite, deep, order, n + 1, g)
    OBVIOUS
  <2> DEFINE g == [i \in 0..(n + 1) |-> IF i = n + 1 THEN Step(f[n]) ELSE f[i]]
  <2> HIDE DEF Step
  <2>1. \A i \in 0..n : f[i] = IF i = 0 THEN m0 ELSE Step(f[i - 1])
    BY DEF IsMerging, Step
  <2>2. \A i \in 0..(n + 1) : g[i] = IF i = 0 THEN m0 ELSE Step(g[i - 1])
    BY <2>1
  <2>3. g = [i \in 0..(n + 1) |-> g[i]]
    OBVIOUS
  <2>4. IsMerging(m0, overwrite, deep, order, n + 1, g)
    <3> HIDE DEF g
    <3> QED
      BY <2>2, <2>3 DEF IsMerging, Step
  <2> QED
    BY <2>4
<1> HIDE DEF S
<1>3. Nat \subseteq S
  BY <1>1, <1>2, NatSetInduction
<1> QED
  BY <1>3 DEF S

\* A run of a deep merge.
MergeRun(s, t, T, S, overwrite, n, after) ==
  /\ n \in Nat /\ after[0].state = s /\ after[n].state = t
  /\ \A i \in 0..n : Merging(s, after[i], T, S)
  /\ \A i \in 0..n : i # 0 =>
       ChildMerged(s, after[i - 1].state, after[i].state, T, S, overwrite)

\* Before its first step.
AtFirst(s, e, q, order) == [state |-> s, todo |-> Visits(e, <<q>>, order)]

\* The steps of a deep merge, as the recursion in Merge has them.
Unfolds(s, e, q, overwrite, order, visits, after) ==
  /\ visits \in Nat /\ visits = Cardinality(Places(s.heap, q)) * Len(order)
  /\ Merge(s, e, q, overwrite, TRUE, order) = after[visits].state
  /\ \A i \in 0..visits :
       after[i] = IF i = 0 THEN AtFirst(s, e, q, order) ELSE Visited(after[i - 1], overwrite, TRUE, order)

\* A deep merge goes through such steps.
LEMMA MergeUnfolds ==
  ASSUME NEW s, NEW T, NEW S, SetOut(s, T, S), NEW e, NEW q \in S, NEW overwrite,
         NEW order \in Seq(Keys)
  PROVE  \E visits, after : Unfolds(s, e, q, overwrite, order, visits, after)
<1> DEFINE visits == Cardinality(Places(s.heap, q)) * Len(order)
           m0 == [state |-> s, todo |-> Visits(e, <<q>>, order)]
           after == CHOOSE f : IsMerging(m0, overwrite, TRUE, order, visits, f)
<1>1. visits \in Nat
  <2> DEFINE h == s.heap
             P == Places(h, q)
  <2>1. Linked(h, Steps) /\ IsFiniteSet(DOMAIN h) /\ Structured(h, Steps, S)
    BY StepsLinked DEF SetOut, Good, Sound
  <2>2. IsFiniteSet(P)
    <3> HIDE DEF h
    <3> QED
      BY <2>1, TreePlaces
  <2>3. Cardinality(P) \in Nat
    <3> HIDE DEF P
    <3> QED
      BY <2>2, FS_CardinalityType
  <2>4. Len(order) \in Nat
    OBVIOUS
  <2> HIDE DEF P
  <2>5. Cardinality(P) * Len(order) \in Nat
    BY <2>3, <2>4
  <2> QED
    BY <2>5 DEF P
<1>2. Merge(s, e, q, overwrite, TRUE, order) = after[visits].state
  <2> HIDE DEF visits
  <2>1. after = CHOOSE f : f = [i \in 0..visits |-> IF i = 0 THEN m0
                                                    ELSE Visited(f[i - 1], overwrite, TRUE, order)]
    BY DEF IsMerging
  <2> QED
    BY DEF Merge, IsMerging, visits
<1> HIDE DEF visits
<1>3. IsMerging(m0, overwrite, TRUE, order, visits, after)
  <2> HIDE DEF m0
  <2> QED
    BY <1>1, MergingExists
<1> HIDE DEF after
<1>4. m0 = AtFirst(s, e, q, order)
  BY DEF AtFirst
<1> HIDE DEF m0
<1>5. \A i \in 0..visits : after[i] = IF i = 0 THEN AtFirst(s, e, q, order)
                                      ELSE Visited(after[i - 1], overwrite, TRUE, order)
  BY <1>3, <1>4 DEF IsMerging
<1>6. Unfolds(s, e, q, overwrite, order, visits, after)
  BY <1>1, <1>2, <1>5 DEF Unfolds, visits
<1> QED
  BY <1>6

\* It starts well.
LEMMA MergeStarts ==
  ASSUME NEW s, NEW T, NEW S, SetOut(s, T, S), NEW e \in T, s.heap[e].type = "Element",
         NEW q \in S, s.heap[q].type = "Element", NEW order \in Seq(Keys)
  PROVE  Merging(s, AtFirst(s, e, q, order), T, S)
<1>1. Between(s, s, T)
  <2>1. Grove(s, s, T) = T
    BY DEF Grove
  <2> QED
    BY <2>1 DEF SetOut, Between, Grown, Larger
<1>2. e \in Grove(s, s, T) /\ e \in DOMAIN s.heap
  BY DEF SetOut, Grove
<1>3. PICK b \in {a \in S : s.heap[a].type = "Element"} : b = q
  OBVIOUS
<1>4. <<b>> \in Seq({a \in S : s.heap[a].type = "Element"}) /\ <<b>> # <<>>
  OBVIOUS
<1>5. Visits(e, <<b>>, order) \in Seq(VisitType(s, s, T, S))
  BY <1>2, <1>4, VisitsMade
<1>6. Visits(e, <<q>>, order) \in Seq(VisitType(s, s, T, S))
  BY <1>3, <1>5
<1> QED
  BY <1>1, <1>6 DEF Merging, AtFirst

\* A deep merge of an element into one that it shares nothing with.
LEMMA MergeRuns ==
  ASSUME NEW s, NEW T, NEW S, SetOut(s, T, S), NEW e \in T, s.heap[e].type = "Element",
         NEW q \in S, s.heap[q].type = "Element", NEW overwrite, NEW order \in Seq(Keys)
  PROVE  LET t == Merge(s, e, q, overwrite, TRUE, order)
         IN  \E n, after : MergeRun(s, t, T, S, overwrite, n, after)
<1> DEFINE t == Merge(s, e, q, overwrite, TRUE, order)
           m0 == AtFirst(s, e, q, order)
<1>1. PICK visits, after : Unfolds(s, e, q, overwrite, order, visits, after)
  BY MergeUnfolds
<1> DEFINE I == {n \in Nat : n \in 0..visits => Merging(s, after[n], T, S)}
<1>4. Merging(s, m0, T, S)
  BY MergeStarts
<1> HIDE DEF m0
<1>5. /\ visits \in Nat /\ t = after[visits].state
      /\ \A i \in 0..visits : after[i] = IF i = 0 THEN m0
                                         ELSE Visited(after[i - 1], overwrite, TRUE, order)
  BY <1>1 DEF Unfolds, m0
<1> HIDE DEF t
<1>6. 0 \in I
  BY <1>4, <1>5
<1>7. ASSUME NEW n \in Nat, n \in I
      PROVE  n + 1 \in I
  <2> SUFFICES ASSUME n + 1 \in 0..visits
               PROVE  Merging(s, after[n + 1], T, S)
    OBVIOUS
  <2>1. n \in 0..visits /\ n + 1 # 0 /\ (n + 1) - 1 = n
    BY <1>5
  <2>2. Merging(s, after[n], T, S)
    BY <1>7, <2>1
  <2>3. after[n + 1] = Visited(after[n], overwrite, TRUE, order)
    BY <1>5, <2>1
  <2> QED
    BY <2>2, <2>3, VisitedMerging
<1> HIDE DEF I
<1>8. Nat \subseteq I
  BY <1>6, <1>7, NatSetInduction
<1>9. \A i \in 0..visits : Merging(s, after[i], T, S)
  BY <1>5, <1>8 DEF I
<1>10. ASSUME NEW i \in 0..visits, i # 0
       PROVE  ChildMerged(s, after[i - 1].state, after[i].state, T, S, overwrite)
  <2>1. i - 1 \in 0..visits
    BY <1>5, <1>10
  <2>2. after[i] = Visited(after[i - 1], overwrite, TRUE, order)
    BY <1>5, <1>10
  <2> QED
    BY <1>9, <2>1, <2>2, VisitedMerging
<1>11. after[0].state = s
  <2>1. 0 \in 0..visits
    BY <1>5
  <2>2. m0.state = s
    BY DEF m0, AtFirst
  <2> QED
    BY <1>5, <2>1, <2>2
<1>13. MergeRun(s, t, T, S, overwrite, visits, after)
  BY <1>5, <1>9, <1>10, <1>11 DEF MergeRun
<1> QED
  BY <1>13 DEF t

\* All that it changes is the target, all that it gives the target is made for it.
LEMMA MergeKeepsApart ==
  ASSUME NEW s, NEW T, NEW S, SetOut(s, T, S), NEW e \in T, s.heap[e].type = "Element",
         NEW q \in S, s.heap[q].type = "Element", NEW overwrite, NEW order \in Seq(Keys)
  PROVE  Between(s, Merge(s, e, q, overwrite, TRUE, order), T)
<1> DEFINE t == Merge(s, e, q, overwrite, TRUE, order)
<1>1. \E n, after : MergeRun(s, t, T, S, overwrite, n, after)
  BY MergeRuns
<1> HIDE DEF t
<1>2. PICK n, after : MergeRun(s, t, T, S, overwrite, n, after)
  BY <1>1
<1>3. Merging(s, after[n], T, S) /\ after[n].state = t
  BY <1>2 DEF MergeRun
<1> QED
  BY <1>3 DEF Merging, t

\* It ends well.
LEMMA MergeDone ==
  ASSUME NEW s, NEW T, NEW S, SetOut(s, T, S), NEW e \in T, s.heap[e].type = "Element",
         NEW q \in S, s.heap[q].type = "Element", NEW overwrite, NEW order \in Seq(Keys)
  PROVE  LET t == Merge(s, e, q, overwrite, TRUE, order)
         IN  Good(t) /\ Grown(s, t)
BY MergeKeepsApart DEF Between
=============================================================================
