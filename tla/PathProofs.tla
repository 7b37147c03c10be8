------------------------------ MODULE PathProofs ------------------------------
(***************************************************************************)
(* Proofs about ElementTree, for the programs of ElementTreeProofs: kept   *)
(* wrappers mean their paths, and what is added is at its path.            *)
(*                                                                         *)
(* Addresses change at the end of a call only.  During a call a property   *)
(* has a home instead, the place where it would be found: a property that  *)
(* exists keeps its home for good, and one that is made gets the home that *)
(* goes with where it is put.                                              *)
(***************************************************************************)
EXTENDS ElementTreeProofs

Homed(h, home) ==
  /\ DOMAIN home = DOMAIN h
  /\ \A a \in DOMAIN h : home[a] \in Seq(Steps) \ {<<>>}
  /\ \A a \in DOMAIN h : \A key \in DOMAIN h[a].children :
       home[h[a].children[key]] = Append(home[a], key)

Extends(home, old) == DOMAIN old \subseteq DOMAIN home /\ \A a \in DOMAIN old : home[a] = old[a]

\* Homes that are extended twice are extended.
LEMMA ExtendsTwice ==
  ASSUME NEW f, NEW g, NEW home, Extends(g, f), Extends(home, g)
  PROVE  Extends(home, f)
BY DEF Extends

\* Where the cells have the same children, the same homes do.
LEMMA HomesStay ==
  ASSUME NEW h, NEW home, Homed(h, home), NEW g, DOMAIN g = DOMAIN h,
         \A a \in DOMAIN h : g[a].children = h[a].children
  PROVE  Homed(g, home)
BY DEF Homed

\* Putting a property into an element agrees with a home that is right for it.
LEMMA TakenHomed ==
  ASSUME NEW s, Good(s), NEW home, Homed(s.heap, home), NEW e \in DOMAIN s.heap, NEW key,
         NEW p \in DOMAIN s.heap, home[p] = Append(home[e], key), NEW t, Taken(s, t, e, key, p)
  PROVE  Homed(t.heap, home)
<1>1. ASSUME NEW a \in DOMAIN t.heap, NEW k \in DOMAIN t.heap[a].children
      PROVE  home[t.heap[a].children[k]] = Append(home[a], k)
  <2>1. CASE a # e
    <3>1. a \in DOMAIN s.heap /\ t.heap[a].children = s.heap[a].children
      BY <2>1 DEF Taken
    <3> QED
      BY <3>1 DEF Homed
  <2>2. CASE a = e /\ k = key
    <3>1. t.heap[e].children[key] = p
      BY WithFacts DEF Taken, With, Only
    <3> QED
      BY <2>2, <3>1
  <2>3. CASE a = e /\ k # key
    <3>1. t.heap[e].children = With(s.heap[e].children, Only(key, p))
      BY DEF Taken
    <3>2. k \in DOMAIN s.heap[e].children /\ t.heap[e].children[k] = s.heap[e].children[k]
      BY <2>3, <3>1 DEF With, Only
    <3> QED
      BY <2>3, <3>2 DEF Homed
  <2> QED
    BY <2>1, <2>2, <2>3
<1> QED
  BY <1>1 DEF Homed, Taken

\* What a call returns is at home there.
HomeIs(home, t, at) ==
  \E new : Homed(t.heap, new) /\ Extends(new, home) /\ new[t.prop] = at

\* A property that was just made can have any home.
LEMMA MadeHomed ==
  ASSUME NEW s, Good(s), NEW home, Homed(s.heap, home), NEW t, NEW c, Made(s, t, c),
         DOMAIN c.children = {}, NEW at \in Seq(Steps) \ {<<>>}
  PROVE  HomeIs(home, t, at)
<1> DEFINE new == [a \in DOMAIN t.heap |-> IF a = t.prop THEN at ELSE home[a]]
<1>1. /\ t.prop \notin DOMAIN s.heap /\ DOMAIN t.heap = DOMAIN s.heap \cup {t.prop}
      /\ t.heap[t.prop] = c /\ \A a \in DOMAIN s.heap : t.heap[a] = s.heap[a]
  BY DEF Made
<1>2. /\ DOMAIN new = DOMAIN t.heap /\ new[t.prop] = at
      /\ \A a \in DOMAIN s.heap : new[a] = home[a]
  BY <1>1
<1> HIDE DEF new
<1>3. \A a \in DOMAIN s.heap : \A key \in DOMAIN s.heap[a].children :
        s.heap[a].children[key] \in DOMAIN s.heap
  BY DEF Good, Sound, Linked
<1>4. Homed(t.heap, new)
  BY <1>1, <1>2, <1>3 DEF Homed
<1>5. Extends(new, home)
  BY <1>1, <1>2 DEF Homed, Extends
<1> QED
  BY <1>2, <1>4, <1>5 DEF HomeIs

\* So can what Property::Create makes.
LEMMA CreateHomed ==
  ASSUME NEW s, Good(s), NEW home, Homed(s.heap, home), NEW type, NEW value,
         NEW at \in Seq(Steps) \ {<<>>}
  PROVE  HomeIs(home, Create(s, type, value), at)
<1> DEFINE c == Property(type, value, IF Collection(type) THEN Fresh(s) ELSE Null)
<1>1. DOMAIN <<>> = {}
  OBVIOUS
<1>2. /\ IsCell(c) /\ DOMAIN c.children = {} /\ c.parentProperty = Null
      /\ c.fromProperty \in {Null, Fresh(s)}
  BY <1>1 DEF Property, IsCell
<1>3. Create(s, type, value) = New(s, c)
  BY DEF Create
<1> HIDE DEF c
<1>4. Made(s, New(s, c), c)
  BY <1>2, NewFacts
<1> QED
  BY <1>2, <1>3, <1>4, MadeHomed

-----------------------------------------------------------------------------
\* What documents hold, and what that holds, is alive.
LEMMA AliveFacts ==
  ASSUME NEW s, Good(s)
  PROVE  /\ \A r \in s.roots : Alive(s, r)
         /\ \A a : Alive(s, a) => a \in DOMAIN s.heap
         /\ \A a : Alive(s, a) => \A key \in DOMAIN s.heap[a].children : Alive(s, s.heap[a].children[key])
         /\ \A C : s.roots \subseteq C /\ Shut(s.heap, C) => \A a : Alive(s, a) => a \in C
<1> DEFINE h == s.heap
           R == s.roots
<1>1. Linked(h, Keys) /\ IsFiniteSet(DOMAIN h) /\ R \subseteq DOMAIN h
  BY DEF Good, Sound, RootOK
<1> HIDE DEF h, R
<1>2. /\ R \subseteq Reach(h, R) /\ Reach(h, R) \subseteq DOMAIN h
      /\ Shut(h, Reach(h, R))
      /\ \A C : R \subseteq C /\ Shut(h, C) => Reach(h, R) \subseteq C
  BY <1>1, ReachFacts
<1> QED
  BY <1>2 DEF Alive, Shut, h, R

\* What is put into an element that is alive is alive, and so is the element still.
LEMMA TakenAlive ==
  ASSUME NEW s, Good(s), NEW home, Homed(s.heap, home), NEW e, Alive(s, e), NEW key \in Keys,
         NEW p, NEW t, Good(t), t.roots = s.roots, Taken(s, t, e, key, p)
  PROVE  Alive(t, e) /\ Alive(t, p)
<1> DEFINE C == {a \in DOMAIN s.heap : Alive(t, a) \/ Len(home[a]) > Len(home[e])}
<1>1. \A a \in DOMAIN s.heap : Len(home[a]) \in Nat
  BY DEF Homed
<1>2. \A a \in DOMAIN s.heap : \A k \in DOMAIN s.heap[a].children :
        Len(home[s.heap[a].children[k]]) = Len(home[a]) + 1 /\ s.heap[a].children[k] \in DOMAIN s.heap
  <2> SUFFICES ASSUME NEW a \in DOMAIN s.heap, NEW k \in DOMAIN s.heap[a].children
               PROVE  Len(home[s.heap[a].children[k]]) = Len(home[a]) + 1
                      /\ s.heap[a].children[k] \in DOMAIN s.heap
    OBVIOUS
  <2>1. k \in Keys /\ s.heap[a].children[k] \in DOMAIN s.heap
    BY DEF Good, Sound, Linked
  <2>2. home[a] \in Seq(Steps) /\ k \in Steps
    BY <2>1 DEF Homed, Steps
  <2>3. Len(Append(home[a], k)) = Len(home[a]) + 1
    BY <2>2, AppendFacts
  <2> QED
    BY <2>1, <2>3 DEF Homed
<1>3. /\ \A r \in s.roots : Alive(t, r) /\ r \in DOMAIN s.heap
      /\ e \in DOMAIN s.heap
  BY AliveFacts DEF Taken
<1>4. ASSUME NEW a \in C, NEW k \in DOMAIN s.heap[a].children
      PROVE  s.heap[a].children[k] \in C
  <2>1. CASE Len(home[a]) > Len(home[e]) \/ a = e
    BY <1>1, <1>2, <1>3, <2>1
  <2>2. CASE Alive(t, a) /\ a # e
    <3>1. t.heap[a].children = s.heap[a].children
      BY <2>2 DEF Taken
    <3>2. Alive(t, s.heap[a].children[k])
      BY <2>2, <3>1, AliveFacts
    <3> QED
      BY <1>2, <3>2
  <2> QED
    BY <2>1, <2>2
<1>5. Shut(s.heap, C)
  BY <1>4 DEF Shut
<1>6. s.roots \subseteq C
  BY <1>3
<1> HIDE DEF C
<1>7. e \in C
  BY <1>5, <1>6, AliveFacts
<1>8. Alive(t, e)
  BY <1>1, <1>3, <1>7 DEF C
<1>9. key \in DOMAIN t.heap[e].children /\ t.heap[e].children[key] = p
  BY DEF Taken, With, Only
<1> QED
  BY <1>8, <1>9, AliveFacts

\* Life depends on the children only.
LEMMA AliveStays ==
  ASSUME NEW s, Good(s), NEW t, Good(t), t.roots = s.roots, DOMAIN s.heap \subseteq DOMAIN t.heap,
         \A a \in DOMAIN s.heap : t.heap[a].children = s.heap[a].children,
         NEW p, Alive(s, p)
  PROVE  Alive(t, p)
<1> DEFINE C == {a \in DOMAIN s.heap : Alive(t, a)}
<1>1. s.roots \subseteq C
  BY AliveFacts
<1>2. Shut(s.heap, C)
  <2> SUFFICES ASSUME NEW a \in C, NEW k \in DOMAIN s.heap[a].children
               PROVE  s.heap[a].children[k] \in C
    BY DEF Shut
  <2>1. Alive(t, t.heap[a].children[k])
    BY AliveFacts
  <2>2. s.heap[a].children[k] \in DOMAIN s.heap
    BY DEF Good, Sound, Linked
  <2> QED
    BY <2>1, <2>2
<1> HIDE DEF C
<1>3. p \in C
  BY <1>1, <1>2, AliveFacts
<1> QED
  BY <1>3 DEF C

\* What there was to be added has the home that goes with its name, and is alive if
\* what it was added to was.
Settled(home, t, new) == Homed(t.heap, new) /\ Extends(new, home)

Placed(s, home, e, t, path) ==
  \E new : /\ Settled(home, t, new)
           /\ new[t.prop] = home[e] \o path
           /\ Alive(s, e) => Alive(t, t.prop)

\* One key is the path to a child.
LEMMA OneKey ==
  ASSUME NEW at \in Seq(Steps), NEW key \in Keys
  PROVE  at \o <<key>> = Append(at, key) /\ Append(at, key) \in Seq(Steps) \ {<<>>}
<1>1. key \in Steps
  BY DEF Steps
<1> QED
  BY <1>1

\* Two keys, one after the other.
LEMMA TwoKeys ==
  ASSUME NEW X, NEW at \in Seq(X), NEW a \in X, NEW b \in X
  PROVE  (at \o <<a>>) \o <<b>> = at \o <<a, b>>
<1>1. at \o <<a>> = Append(at, a) /\ Append(at, a) \in Seq(X)
  OBVIOUS
<1>2. Append(at, a) \o <<b>> = Append(Append(at, a), b)
  OBVIOUS
<1>3. <<a, b>> = Append(<<a>>, b) /\ <<a>> \in Seq(X)
  OBVIOUS
<1>4. Append(at \o <<a>>, b) = at \o Append(<<a>>, b)
  BY <1>3, AppendConcat
<1> QED
  BY <1>1, <1>2, <1>3, <1>4

\* Element::Add of one name.
LEMMA AddNamedPlaced ==
  ASSUME NEW s, Good(s), NEW home, Homed(s.heap, home),
         NEW e \in DOMAIN s.heap, s.heap[e].type = "Element",
         NEW name \in Keys, NEW type, NEW isLast \in BOOLEAN
  PROVE  Placed(s, home, e, AddNamed(s, e, name, type, isLast), <<name>>)
<1> DEFINE t == AddNamed(s, e, name, type, isLast)
           old == Child(s, e, name)
           made == Create(s, type, Initial(type))
<1>0. /\ name # <<>> /\ home[e] \in Seq(Steps)
      /\ home[e] \o <<name>> = Append(home[e], name)
      /\ Append(home[e], name) \in Seq(Steps) \ {<<>>}
  BY OneKey DEF Keys, NoName, Homed
<1>1. CASE old # Null /\ (isLast => s.heap[old].type = type)
  <2>1. t = Return(s, old)
    BY <1>0, <1>1 DEF AddNamed
  <2>2. /\ name \in DOMAIN s.heap[e].children /\ old = s.heap[e].children[name]
    BY <1>1, ChildFacts
  <2> HIDE DEF old
  <2>3. t.heap = s.heap /\ t.roots = s.roots /\ t.prop = old
    BY <2>1, ReturnFacts DEF Good
  <2> HIDE DEF t
  <2>4. home[old] = Append(home[e], name)
    BY <2>2 DEF Homed
  <2>5. Alive(s, e) => Alive(t, old)
    BY <2>2, <2>3, AliveFacts DEF Alive
  <2>6. Placed(s, home, e, t, <<name>>)
    BY <1>0, <2>3, <2>4, <2>5 DEF Placed, Settled, Extends
  <2> QED
    BY <2>6 DEF t
<1>2. CASE ~(old # Null /\ (isLast => s.heap[old].type = type))
  <2> DEFINE p == made.prop
  <2>1. t = AddChild(made, e, name, p)
    BY <1>0, <1>2 DEF AddNamed
  <2> HIDE DEF old, t
  <2>2. Good(made) /\ Grown(s, made)
    BY CreateFacts
  <2> DEFINE value == Initial(type)
             at == Append(home[e], name)
  <2>14. at \in Seq(Steps) \ {<<>>} /\ made = Create(s, type, value)
    BY <1>0
  <2> HIDE DEF made, value, at
  <2>15. HomeIs(home, Create(s, type, value), at)
    BY <2>14, CreateHomed
  <2>3. PICK c : Made(s, made, c) /\ c.type = type /\ c.parentProperty = Null
    BY <2>14, CreateFacts
  <2>4. /\ p \in DOMAIN made.heap /\ p \notin DOMAIN s.heap
        /\ made.heap[p].type = type /\ made.heap[p].parentProperty = Null
        /\ Unheld(made.heap, p) /\ p \notin made.roots
        /\ \A a \in DOMAIN s.heap : made.heap[a] = s.heap[a]
    BY <2>3 DEF Made
  <2>5. e \in DOMAIN made.heap /\ made.heap[e].type = "Element" /\ p # e
    BY <2>2, <2>4 DEF Grown, Larger
  <2>6. p \notin {Null, Gone}
    BY <2>2, <2>4, Pointer DEF Good, Sound
  <2>7. Good(t) /\ Grown(made, t) /\ Taken(made, t, e, name, p)
    BY <2>1, <2>2, <2>4, <2>5, <2>6, AddChildSound
  <2>8. PICK new : /\ Homed(made.heap, new) /\ Extends(new, home)
                   /\ new[p] = Append(home[e], name)
    BY <2>14, <2>15 DEF HomeIs, at
  <2>9. new[e] = home[e]
    BY <2>8 DEF Extends, Homed
  <2>10. Homed(t.heap, new)
    BY <2>2, <2>4, <2>5, <2>7, <2>8, <2>9, TakenHomed
  <2>11. Alive(s, e) => Alive(t, p)
    <3> SUFFICES ASSUME Alive(s, e)
                 PROVE  Alive(t, p)
      OBVIOUS
    <3>1. Alive(made, e)
      BY <2>2, <2>4, AliveStays DEF Grown, Larger
    <3> QED
      BY <2>2, <2>7, <2>8, <3>1, TakenAlive DEF Grown, Larger
  <2>12. t.prop = p
    BY <2>7 DEF Taken
  <2>13. Placed(s, home, e, t, <<name>>)
    BY <1>0, <2>8, <2>10, <2>11, <2>12 DEF Placed, Settled
  <2> QED
    BY <2>13 DEF t
<1> QED
  BY <1>1, <1>2

\* Element::Add of a path.
LEMMA AddPlaced ==
  ASSUME NEW s, Good(s), NEW home, Homed(s.heap, home),
         NEW e \in DOMAIN s.heap, s.heap[e].type = "Element",
         NEW name \in Seq(STRING), name # NoName, NEW type, NEW pathToElements \in BOOLEAN,
         pathToElements => \/ Child(s, e, SubSeq(name, 1, 1)) = Null
                           \/ IsType(s, Child(s, e, SubSeq(name, 1, 1)), "Element")
  PROVE  Placed(s, home, e, Add(s, e, name, type, pathToElements), Target(name, pathToElements))
<1> DEFINE t == AddNamed(s, e, SubSeq(name, 1, 1), "Element", FALSE)
           u == Add(s, e, name, type, pathToElements)
<1>1. /\ name \in Keys /\ Len(name) \in Nat
      /\ \E first \in Keys : first = SubSeq(name, 1, 1)
      /\ Len(name) > 1 => \E rest \in Keys : rest = Tail(name)
  BY NameParts
<1>2. CASE ~pathToElements \/ Len(name) <= 1
  <2>1. u = AddNamed(s, e, name, type, TRUE)
    BY <1>2 DEF Add
  <2>2. Target(name, pathToElements) = <<name>>
    BY <1>1, <1>2 DEF Target, NoName
  <2>3. TRUE \in BOOLEAN
    OBVIOUS
  <2> HIDE DEF u
  <2>4. Placed(s, home, e, AddNamed(s, e, name, type, TRUE), <<name>>)
    BY <1>1, <2>3, AddNamedPlaced, Zenon
  <2> QED
    BY <2>1, <2>2, <2>4 DEF u
<1>3. CASE ~(~pathToElements \/ Len(name) <= 1)
  <2>1. Len(name) > 1
    BY <1>1, <1>3
  <2> PICK first \in Keys, rest \in Keys : first = SubSeq(name, 1, 1) /\ rest = Tail(name)
    BY <1>1, <2>1, Zenon
  <2>2. Target(name, pathToElements) = <<first, rest>>
    BY <1>3 DEF Target, NoName
  <2>3. FALSE \in BOOLEAN /\ TRUE \in BOOLEAN
    OBVIOUS
  <2>4. t = AddNamed(s, e, first, "Element", FALSE)
    OBVIOUS
  <2> HIDE DEF t
  <2>5. Added(s, t, "Element")
    BY <1>3, <2>4, AddNamedSound
  <2>6. Placed(s, home, e, AddNamed(s, e, first, "Element", FALSE), <<first>>)
    BY <2>3, AddNamedPlaced, Zenon
  <2>7. PICK new : /\ Homed(t.heap, new) /\ Extends(new, home)
                   /\ new[t.prop] = home[e] \o <<first>>
                   /\ Alive(s, e) => Alive(t, t.prop)
    BY <2>4, <2>6 DEF Placed, Settled
  <2>8. Good(t) /\ t.prop \in DOMAIN t.heap /\ t.heap[t.prop].type = "Element"
    BY <2>5 DEF Added
  <2>9. t.prop \notin {Null, Gone}
    BY <2>8, Pointer DEF Good, Sound
  <2>10. u = AddNamed(t, t.prop, rest, type, TRUE)
    BY <1>3, <2>8, <2>9 DEF Add, IsType, t
  <2> HIDE DEF u
  <2>11. Placed(t, new, t.prop, AddNamed(t, t.prop, rest, type, TRUE), <<rest>>)
    BY <2>3, <2>7, <2>8, AddNamedPlaced, Zenon
  <2>12. PICK newer : /\ Homed(u.heap, newer) /\ Extends(newer, new)
                      /\ newer[u.prop] = new[t.prop] \o <<rest>>
                      /\ Alive(t, t.prop) => Alive(u, u.prop)
    BY <2>10, <2>11 DEF Placed, Settled
  <2>13. newer[u.prop] = home[e] \o <<first, rest>>
    <3>1. home[e] \in Seq(Steps) /\ first \in Steps /\ rest \in Steps
      BY DEF Homed, Steps
    <3> DEFINE at == home[e]
    <3>2. (at \o <<first>>) \o <<rest>> = at \o <<first, rest>>
      BY <3>1, TwoKeys, ZenonT(40)
    <3> QED
      BY <2>7, <2>12, <3>2
  <2>14. Placed(s, home, e, u, <<first, rest>>)
    BY <2>7, <2>12, <2>13, ExtendsTwice DEF Placed, Settled
  <2> QED
    BY <2>2, <2>14 DEF u
<1> QED
  BY <1>2, <1>3

\* Element::AddArray of a path.
LEMMA AddArrayPlaced ==
  ASSUME NEW s, Good(s), s.outcome = "ok", NEW home, Homed(s.heap, home),
         NEW e \in DOMAIN s.heap, s.heap[e].type = "Element",
         NEW name \in Seq(STRING), name # NoName, NEW size, NEW pathToElements \in BOOLEAN,
         pathToElements => \/ Child(s, e, SubSeq(name, 1, 1)) = Null
                           \/ IsType(s, Child(s, e, SubSeq(name, 1, 1)), "Element")
  PROVE  Placed(s, home, e, AddArray(s, e, name, size, pathToElements), Target(name, pathToElements))
<1> DEFINE type == "Array"
           t == Add(s, e, name, type, pathToElements)
           u == [t EXCEPT !.heap[t.prop].value = size]
           path == Target(name, pathToElements)
<1>1. Added(s, t, type) /\ Placed(s, home, e, t, path)
  <2> HIDE DEF type
  <2>1. Added(s, Add(s, e, name, type, pathToElements), type)
    BY AddSound
  <2>2. Placed(s, home, e, Add(s, e, name, type, pathToElements), Target(name, pathToElements))
    BY AddPlaced
  <2> QED
    BY <2>1, <2>2
<1>2. AddArray(s, e, name, size, pathToElements) = IF t.outcome # "ok" \/ t.prop = Null THEN t
        ELSE IF IsType(t, t.prop, "Array") THEN u ELSE Undefined(t)
  BY DEF AddArray
<1> HIDE DEF t, path
<1>3. t.prop \notin {Null, Gone} /\ t.outcome = "ok"
  BY <1>1, Pointer DEF Added, Good, Sound, Grown, Larger
<1>4. AddArray(s, e, name, size, pathToElements) = u
  BY <1>1, <1>2, <1>3 DEF Added, IsType
<1>5. /\ Good(u) /\ Grown(t, u) /\ Changed(t, u, t.prop)
      /\ u.heap[t.prop].children = t.heap[t.prop].children
  <2>1. Good(t)
    BY <1>1 DEF Added
  <2>2. PICK p \in DOMAIN t.heap : p = t.prop
    BY <1>1 DEF Added
  <2>3. u = [t EXCEPT !.heap[p].value = size]
    BY <2>2
  <2> DEFINE v == [t EXCEPT !.heap[p].value = size]
  <2>4. Good(v) /\ Grown(t, v) /\ Changed(t, v, p) /\ v.heap[p].children = t.heap[p].children
    BY <2>1, ValueSound
  <2> HIDE DEF u, v
  <2> QED
    BY <2>2, <2>3, <2>4 DEF v
<1> HIDE DEF u
<1>6. PICK new : /\ Homed(t.heap, new) /\ Extends(new, home)
                 /\ new[t.prop] = home[e] \o path
                 /\ Alive(s, e) => Alive(t, t.prop)
  BY <1>1 DEF Placed, Settled
<1>7. /\ DOMAIN u.heap = DOMAIN t.heap /\ u.roots = t.roots /\ u.prop = t.prop
      /\ \A a \in DOMAIN t.heap : u.heap[a].children = t.heap[a].children
  BY <1>5 DEF Changed
<1>8. Homed(u.heap, new)
  BY <1>6, <1>7, HomesStay
<1>9. Alive(t, t.prop) => Alive(u, u.prop)
  BY <1>1, <1>5, <1>7, AliveStays DEF Added
<1>10. Placed(s, home, e, u, path)
  BY <1>6, <1>7, <1>8, <1>9 DEF Placed, Settled
<1> QED
  BY <1>4, <1>10 DEF path

-----------------------------------------------------------------------------
\* The keys between two wrappers, and those up to the next.
LEMMA KeysGrow ==
  ASSUME NEW links, NEW j \in Nat, NEW n \in Nat, j <= n,
         \A k \in (j + 1)..n : links[k].propName \in Keys
  PROVE  /\ KeysBetween(links, j, n) \in Seq(Keys)
         /\ KeysBetween(links, j, j) = <<>>
         /\ links[n + 1].propName \in Keys =>
              KeysBetween(links, j, n + 1) = Append(KeysBetween(links, j, n), links[n + 1].propName)
<1> DEFINE K(m) == KeysBetween(links, j, m)
<1>1. /\ n - j \in Nat /\ K(n) = [k \in 1..(n - j) |-> links[j + k].propName]
      /\ \A k \in 1..(n - j) : j + k \in (j + 1)..n
  BY DEF KeysBetween
<1>2. K(n) \in Seq(Keys) /\ Len(K(n)) = n - j
  <2>1. \A k \in 1..(n - j) : links[j + k].propName \in Keys
    BY <1>1
  <2>2. [k \in 1..(n - j) |-> links[j + k].propName] \in Seq(Keys)
    BY <1>1, <2>1, IsASeq
  <2>3. K(n) \in Seq(Keys)
    BY <1>1, <2>2
  <2>4. DOMAIN K(n) = 1..(n - j)
    BY <1>1
  <2> HIDE DEF K
  <2>5. Len(K(n)) = n - j
    BY <1>1, <2>3, <2>4, LenProperties
  <2> QED
    BY <2>3, <2>5
<1>3. K(j) = <<>>
  <2>1. j - j = 0 /\ 1..0 = {}
    OBVIOUS
  <2>2. K(j) = [k \in {} |-> links[j + k].propName]
    BY <2>1 DEF KeysBetween
  <2> QED
    BY <2>2
<1>4. ASSUME links[n + 1].propName \in Keys
      PROVE  K(n + 1) = Append(K(n), links[n + 1].propName)
  <2> DEFINE name == links[n + 1].propName
  <2>1. (n + 1) - j = (n - j) + 1 /\ j + ((n - j) + 1) = n + 1
    OBVIOUS
  <2>2. K(n + 1) = [k \in 1..((n - j) + 1) |-> links[j + k].propName]
    BY <2>1 DEF KeysBetween
  <2>3. Append(K(n), name) = [k \in 1..((n - j) + 1) |-> IF k = (n - j) + 1 THEN name ELSE K(n)[k]]
    <3>1. K(n) \in Seq(Keys) /\ Len(K(n)) = n - j /\ name \in Keys
      BY <1>2, <1>4
    <3> DEFINE y == Append(K(n), name)
    <3> HIDE DEF K, name
    <3>2. /\ y \in Seq(Keys) /\ Len(y) = (n - j) + 1
          /\ \A k \in 1..(n - j) : y[k] = K(n)[k]
          /\ y[(n - j) + 1] = name
      BY <3>1, AppendProperties
    <3> HIDE DEF y
    <3>3. y \in [1..((n - j) + 1) -> Keys]
      BY <3>2, LenProperties
    <3>4. \A k \in 1..((n - j) + 1) : y[k] = IF k = (n - j) + 1 THEN name ELSE K(n)[k]
      BY <1>1, <3>2
    <3> QED
      BY <3>3, <3>4 DEF y
  <2>4. \A k \in 1..((n - j) + 1) :
          links[j + k].propName = IF k = (n - j) + 1 THEN name ELSE K(n)[k]
    BY <1>1, <2>1
  <2> QED
    BY <2>2, <2>3, <2>4
<1> QED
  BY <1>2, <1>3, <1>4 DEF K

\* They go on from a place.
LEMMA KeysFacts ==
  ASSUME NEW links, NEW j \in Nat, NEW n \in Nat, j <= n,
         \A k \in (j + 1)..n : links[k].propName \in Keys
  PROVE  /\ KeysBetween(links, j, n) \in Seq(Steps)
         /\ KeysBetween(links, j, j) = <<>>
         /\ \A at \in Seq(Steps) : at \o <<>> = at
         /\ links[n + 1].propName \in Keys =>
              \A at \in Seq(Steps) :
                at \o KeysBetween(links, j, n + 1)
                  = Append(at \o KeysBetween(links, j, n), links[n + 1].propName)
<1> DEFINE K(m) == KeysBetween(links, j, m)
<1>1. Keys \subseteq Steps
  BY DEF Steps
<1>2. Seq(Keys) \subseteq Seq(Steps)
  BY <1>1, SeqMonotonic
<1>3. K(n) \in Seq(Steps) /\ K(j) = <<>>
  BY <1>2, KeysGrow
<1>4. links[n + 1].propName \in Keys => K(n + 1) = Append(K(n), links[n + 1].propName)
  BY KeysGrow
<1> HIDE DEF K
<1>5. ASSUME links[n + 1].propName \in Keys, NEW at \in Seq(Steps)
      PROVE  at \o K(n + 1) = Append(at \o K(n), links[n + 1].propName)
  <2> DEFINE name == links[n + 1].propName
  <2>1. name \in Steps /\ K(n + 1) = Append(K(n), name)
    BY <1>4, <1>5 DEF Steps
  <2> HIDE DEF name
  <2>2. Append(at \o K(n), name) = at \o Append(K(n), name)
    <3>1. PICK x \in Seq(Steps) : x = K(n)
      BY <1>3
    <3>2. Append(at \o x, name) = at \o Append(x, name)
      <4> DEFINE X == Steps
      <4>1. at \in Seq(X) /\ x \in Seq(X) /\ name \in X
        BY <2>1
      <4> HIDE DEF X, name
      <4> QED
        BY <4>1
    <3> QED
      BY <3>1, <3>2
  <2> QED
    BY <2>1, <2>2 DEF name
<1> QED
  BY <1>3, <1>5 DEF K

\* How far InitializeProperty has come: at the place of the last wrapper that has a
\* property, followed by the keys of the others.
Leading(links, j, i) == j \in 1..i /\ \A k \in (j + 1)..i : links[k].prop = Null

\* No wrapper that has a property is followed only by some that lead to nothing.
LeadsNowhere(t) ==
  \A j : Leading(t.links, j, Len(t.links)) => t.links[j].prop \notin DOMAIN t.heap

OnTheWay(s, links, home, i, t) ==
  /\ t.prop \notin DOMAIN t.heap => LeadsNowhere(t)
  /\ t.prop # Null => \E j : Leading(links, j, i) /\ links[j].prop # Null
  /\ \E new : /\ Settled(home, t, new)
              /\ \A j : Leading(links, j, i) /\ links[j].prop \in DOMAIN home =>
                   /\ t.prop \in DOMAIN t.heap
                   /\ new[t.prop] = home[links[j].prop] \o KeysBetween(links, j, i)
                   /\ Alive(s, links[j].prop) => Alive(t, t.prop)

\* The names of wrappers that lead to nothing yet are keys.
LEMMA NamesOfNothing ==
  ASSUME NEW h, NEW links, LinksOK(h, links), NEW i \in 1..Len(links), NEW j, Leading(links, j, i)
  PROVE  /\ j \in Nat /\ i \in Nat /\ j <= i
         /\ \A k \in (j + 1)..i : links[k].propName \in Keys
<1>1. /\ Len(links) \in Nat
      /\ \A k \in 1..Len(links) : links[k] \in LinkType(h)
  BY LinksFacts
<1>2. \A k \in (j + 1)..i : k \in 2..Len(links) /\ links[k].prop = Null
  BY <1>1 DEF Leading
<1>3. \A k \in (j + 1)..i : links[k].propName # NoName /\ links[k] \in LinkType(h)
  BY <1>1, <1>2 DEF LinksOK
<1> QED
  BY <1>1, <1>3 DEF Leading, LinkType, Keys

\* Where it begins.
LEMMA BegunOnTheWay ==
  ASSUME NEW s, Good(s), NEW home, Homed(s.heap, home), NEW links, LinksOK(s.heap, links),
         NEW i \in 1..Len(links), Begins(links, i)
  PROVE  OnTheWay(s, links, home, i, Begun(s, links, i))
<1> DEFINE u == [s EXCEPT !.links = SubSeq(links, 1, i)]
           t == Begun(s, links, i)
<1>1. /\ IsState(u) /\ u.heap = s.heap /\ u.roots = s.roots
  BY LinksChanged DEF Good
<1>2. t = Return(u, links[i].prop)
  BY DEF Begun, Return
<1> HIDE DEF u, t
<1>3. t.heap = s.heap /\ t.roots = s.roots /\ t.prop = links[i].prop
  BY <1>1, <1>2, ReturnFacts
<1>4. ASSUME NEW j, Leading(links, j, i), links[j].prop \in DOMAIN home
      PROVE  /\ t.prop \in DOMAIN t.heap
             /\ home[t.prop] = home[links[j].prop] \o KeysBetween(links, j, i)
             /\ Alive(s, links[j].prop) => Alive(t, t.prop)
  <2>1. j \in Nat /\ i \in Nat /\ j <= i
    BY <1>4, NamesOfNothing
  <2>2. links[i].prop # Null \/ i = 1
    BY <2>1 DEF Begins, LinksOK
  <2>3. j = i
    BY <1>4, <2>1, <2>2 DEF Leading
  <2>4. KeysBetween(links, i, i) = <<>> /\ \A at \in Seq(Steps) : at \o <<>> = at
    <3>1. i <= i /\ \A k \in (i + 1)..i : links[k].propName \in Keys
      BY <2>1
    <3> QED
      BY <2>1, <3>1, KeysFacts
  <2>5. home[links[i].prop] \in Seq(Steps) /\ links[i].prop \in DOMAIN s.heap
    BY <1>4, <2>3 DEF Homed
  <2> QED
    BY <1>3, <2>3, <2>4, <2>5 DEF Alive
<1>5. Settled(home, t, home)
  BY <1>3 DEF Settled, Extends
<1>6. t.prop # Null => Leading(links, i, i) /\ links[i].prop # Null
  BY <1>3, LinksFacts DEF Leading
<1>7. t.prop \notin DOMAIN t.heap => LeadsNowhere(t)
  <2>1. /\ i \in Nat
        /\ links[i].prop # Null \/ i = 1
    BY LinksFacts DEF Begins, LinksOK
  <2>2. Initialized(s, links, i, t)
    BY <2>1, BegunInitialized DEF t
  <2>3. Len(t.links) = i /\ t.links[i].prop = t.prop
    BY <2>2, LinksFacts DEF Initialized
  <2>4. \A j : Leading(t.links, j, i) => j = i
    BY <1>3, <2>1, <2>3 DEF Leading
  <2> QED
    BY <2>3, <2>4 DEF LeadsNowhere
<1>8. OnTheWay(s, links, home, i, t)
  BY <1>4, <1>5, <1>6, <1>7 DEF OnTheWay
<1> QED
  BY <1>8 DEF t

\* InitializeProperty stays on the way when it makes a missing element.
LEMMA MadeOnTheWay ==
  ASSUME NEW s, Good(s), NEW home, Homed(s.heap, home), NEW links, LinksOK(s.heap, links),
         NEW n \in 1..(Len(links) - 1), ~Begins(links, n + 1), links[n + 1].propName \in Keys,
         NEW t, Initialized(s, links, n, t), OnTheWay(s, links, home, n, t)
  PROVE  OnTheWay(s, links, home, n + 1, ResolveLink(t, links[n + 1].propName, FALSE))
<1> DEFINE name == links[n + 1].propName
           v == IF ~IsType(t, t.prop, "Element") THEN Return(t, Null)
                ELSE AddNamed(t, t.prop, name, "Element", TRUE)
           u == [v EXCEPT !.links = Append(v.links, Link(v.prop, name))]
<1>1. ResolveLink(t, name, FALSE) = u
  BY DEF ResolveLink
<1>2. /\ Good(t) /\ Larger(s, t)
      /\ t.prop \in DOMAIN t.heap \cup {Null, Gone}
      /\ t.prop \in DOMAIN t.heap => t.heap[t.prop].type = "Element"
      /\ links[n + 1].prop = Null /\ n \in Nat /\ name \in Keys
  BY BeforeLast, LinksFacts DEF Initialized, Begins
<1>3. PICK new :
        /\ Homed(t.heap, new) /\ Extends(new, home)
        /\ \A j : Leading(links, j, n) /\ links[j].prop \in DOMAIN home =>
             /\ t.prop \in DOMAIN t.heap
             /\ new[t.prop] = home[links[j].prop] \o KeysBetween(links, j, n)
             /\ Alive(s, links[j].prop) => Alive(t, t.prop)
  BY DEF OnTheWay, Settled
<1>4. \A p \in DOMAIN t.heap : p \notin {Null, Gone}
  BY <1>2, Pointer DEF Good, Sound
<1>5. Null \notin DOMAIN home
  BY Pointer DEF Good, Sound, Homed
<1>6. \A j : Leading(links, j, n + 1) /\ links[j].prop \in DOMAIN home => Leading(links, j, n)
  BY <1>2, <1>5 DEF Leading
<1>10. \A j : Leading(links, j, n) => Leading(links, j, n + 1)
  BY <1>2 DEF Leading
<1>11. t.prop # Null => \E j : Leading(links, j, n + 1) /\ links[j].prop # Null
  BY <1>10 DEF OnTheWay
<1>7. ASSUME IsState(v)
      PROVE  /\ u.heap = v.heap /\ u.roots = v.roots /\ u.prop = v.prop
             /\ u.links = Append(v.links, Link(v.prop, name))
  <2> HIDE DEF v
  <2> QED
    BY <1>7, LinksChanged
<1>8. CASE t.prop \in DOMAIN t.heap
  <2>1. v = AddNamed(t, t.prop, name, "Element", TRUE)
    BY <1>2, <1>4, <1>8 DEF IsType
  <2>2. TRUE \in BOOLEAN
    OBVIOUS
  <2> HIDE DEF v, u, name
  <2>3. Placed(t, new, t.prop, AddNamed(t, t.prop, name, "Element", TRUE), <<name>>)
    BY <1>2, <1>3, <1>8, <2>2, AddNamedPlaced, Zenon
  <2>4. Added(t, v, "Element")
    BY <1>2, <1>8, <2>1, AddNamedSound
  <2>5. u.heap = v.heap /\ u.roots = v.roots /\ u.prop = v.prop /\ v.prop \in DOMAIN v.heap
    BY <1>7, <2>4 DEF Added, Good
  <2>6. PICK newer : /\ Homed(v.heap, newer) /\ Extends(newer, new)
                     /\ newer[v.prop] = new[t.prop] \o <<name>>
                     /\ Alive(t, t.prop) => Alive(v, v.prop)
    BY <2>1, <2>3 DEF Placed, Settled
  <2>7. Settled(home, u, newer)
    BY <1>3, <2>5, <2>6, ExtendsTwice DEF Settled
  <2>8. ASSUME NEW j, Leading(links, j, n + 1), links[j].prop \in DOMAIN home
        PROVE  /\ newer[u.prop] = home[links[j].prop] \o KeysBetween(links, j, n + 1)
               /\ Alive(s, links[j].prop) => Alive(u, u.prop)
    <3>1. Leading(links, j, n)
      BY <1>6, <2>8
    <3>2. /\ j \in Nat /\ j <= n /\ \A k \in (j + 1)..n : links[k].propName \in Keys
      <4>1. n \in 1..Len(links)
        BY LinksFacts
      <4> QED
        BY <3>1, <4>1, NamesOfNothing
    <3> DEFINE at == home[links[j].prop]
               K == KeysBetween(links, j, n)
    <3>3. at \in Seq(Steps)
      BY <2>8 DEF Homed
    <3>4. K \in Seq(Steps) /\ at \o KeysBetween(links, j, n + 1) = Append(at \o K, name)
      BY <1>2, <3>2, <3>3, KeysFacts DEF name
    <3>5. new[t.prop] = at \o K /\ (Alive(s, links[j].prop) => Alive(t, t.prop))
      BY <1>3, <2>8, <3>1
    <3> HIDE DEF at, K
    <3>6. at \o K \in Seq(Steps)
      BY <3>3, <3>4
    <3>7. (at \o K) \o <<name>> = Append(at \o K, name)
      BY <1>2, <3>6, OneKey
    <3>8. newer[u.prop] = Append(at \o K, name)
      BY <2>5, <2>6, <3>5, <3>7
    <3>9. Alive(s, links[j].prop) => Alive(u, u.prop)
      BY <2>5, <2>6, <3>5 DEF Alive
    <3> QED
      BY <3>4, <3>8, <3>9 DEF at
  <2>9. OnTheWay(s, links, home, n + 1, u)
    BY <1>4, <1>8, <1>11, <2>5, <2>7, <2>8 DEF OnTheWay
  <2> QED
    BY <1>1, <2>9 DEF name
<1>9. CASE t.prop \notin DOMAIN t.heap
  <2>1. v = Return(t, Null)
    BY <1>2, <1>9 DEF IsType
  <2> HIDE DEF v, u, name
  <2>2. IsState(v) /\ v.heap = t.heap /\ v.prop = Null /\ v.links = t.links
    BY <1>2, <2>1, ReturnFacts DEF Good
  <2>3. u.heap = t.heap /\ u.prop = Null /\ u.links = Append(t.links, Link(Null, name))
    BY <1>7, <2>2
  <2>7. LeadsNowhere(u)
    <3>1. LinksOK(t.heap, t.links) /\ Len(t.links) = n
      BY DEF Initialized
    <3>2. PICK l \in Seq(LinkType(t.heap)), k \in LinkType(t.heap) :
            l = t.links /\ k = Link(Null, name)
      <4>1. Link(Null, name) \in LinkType(t.heap)
        BY <1>2 DEF Link, LinkType, Keys
      <4> QED
        BY <3>1, <4>1 DEF LinksOK
    <3>3. /\ Len(u.links) = n + 1 /\ u.links[n + 1] = k
          /\ \A i \in 1..n : u.links[i] = t.links[i]
      BY <1>2, <2>3, <3>1, <3>2
    <3>4. k.prop = Null /\ Null \notin DOMAIN t.heap
      BY <1>4, <3>2 DEF Link
    <3> SUFFICES ASSUME NEW i, Leading(u.links, i, n + 1)
                 PROVE  u.links[i].prop \notin DOMAIN t.heap
      BY <2>3, <3>3 DEF LeadsNowhere
    <3>5. CASE i = n + 1
      BY <3>3, <3>4, <3>5
    <3>6. CASE i # n + 1
      <4>1. i \in 1..n /\ Leading(t.links, i, n)
        BY <1>2, <3>3, <3>6 DEF Leading
      <4>2. LeadsNowhere(t)
        BY <1>9 DEF OnTheWay
      <4> QED
        BY <3>1, <3>3, <4>1, <4>2 DEF LeadsNowhere
    <3> QED
      BY <3>5, <3>6
  <2>4. Settled(home, u, new)
    BY <1>3, <2>3 DEF Settled
  <2>5. \A j : ~(Leading(links, j, n + 1) /\ links[j].prop \in DOMAIN home)
    BY <1>3, <1>6, <1>9
  <2>6. OnTheWay(s, links, home, n + 1, u)
    BY <2>3, <2>4, <2>5, <2>7 DEF OnTheWay
  <2> QED
    BY <1>1, <2>6 DEF name
<1> QED
  BY <1>8, <1>9

\* InitializeProperty comes to where the wrapper leads.
Arrived(s, home, t, path) ==
  \E new : /\ Settled(home, t, new)
           /\ LeadsTo(t.links, new, path)
           /\ t.prop # Null =>
                /\ new[t.prop] = path
                /\ (\A a \in DOMAIN s.heap : Alive(s, a)) => Alive(t, t.prop)

\* InitializeProperty arrives.
LEMMA InitializeArrives ==
  ASSUME NEW s, Good(s), NEW home, Homed(s.heap, home), NEW links, LinksOK(s.heap, links),
         Usable(links), NEW path, LeadsTo(links, home, path)
  PROVE  Arrived(s, home, InitializeProperty(s, links, FALSE), path)
<1> DEFINE N == Len(links)
<1>1. N \in Nat /\ N > 0 /\ DOMAIN links = 1..N /\ \A i \in 1..N : links[i] \in LinkType(s.heap)
  BY LinksFacts
<1>2. PICK after : Resolving(s, links, after) /\ InitializeProperty(s, links, FALSE) = after[N]
  BY InitializeResolves
<1> DEFINE S == {n \in Nat : n \in 1..N => OnTheWay(s, links, home, n, after[n])}
<1>3. 0 \in S
  BY <1>1
<1>4. ASSUME NEW n \in Nat, n \in S
      PROVE  n + 1 \in S
  <2> SUFFICES ASSUME n + 1 \in 1..N
               PROVE  OnTheWay(s, links, home, n + 1, after[n + 1])
    OBVIOUS
  <2>1. after[n + 1] = IF Begins(links, n + 1) THEN Begun(s, links, n + 1)
                       ELSE ResolveLink(after[n], links[n + 1].propName, FALSE)
    <3> HIDE DEF S, N
    <3>1. \A i \in 1..N : after[i] = IF Begins(links, i) THEN Begun(s, links, i)
                                     ELSE ResolveLink(after[i - 1], links[i].propName, FALSE)
      BY <1>2 DEF Resolving, N
    <3>2. n + 1 \in 1..N /\ (n + 1) - 1 = n
      OBVIOUS
    <3> QED
      BY <3>1, <3>2
  <2>2. CASE Begins(links, n + 1)
    BY <2>1, <2>2, BegunOnTheWay
  <2>3. CASE ~Begins(links, n + 1)
    <3>1. n + 1 # 1 /\ n \in 1..(N - 1) /\ n \in 1..N
      BY <1>1, <2>3 DEF Begins
    <3>2. Initialized(s, links, n, after[n]) /\ links[n + 1].propName \in Keys
      BY <1>2, <2>3, <3>1 DEF Resolving
    <3>3. OnTheWay(s, links, home, n, after[n])
      BY <1>4, <3>1
    <3> DEFINE t == after[n]
    <3> HIDE DEF S, t
    <3>4. OnTheWay(s, links, home, n + 1, ResolveLink(t, links[n + 1].propName, FALSE))
      BY <2>3, <3>1, <3>2, <3>3, MadeOnTheWay DEF t
    <3> QED
      BY <2>1, <2>3, <3>4 DEF t
  <2> QED
    BY <2>2, <2>3
<1> HIDE DEF S
<1>5. Nat \subseteq S
  BY <1>3, <1>4, NatSetInduction
<1> DEFINE t == after[N]
<1>6. Initialized(s, links, N, t) /\ OnTheWay(s, links, home, N, t)
  BY <1>1, <1>2, <1>5 DEF Resolving, S
<1> HIDE DEF t
<1>7. PICK new : /\ Settled(home, t, new)
                 /\ \A j : Leading(links, j, N) /\ links[j].prop \in DOMAIN home =>
                      /\ t.prop \in DOMAIN t.heap
                      /\ new[t.prop] = home[links[j].prop] \o KeysBetween(links, j, N)
                      /\ Alive(s, links[j].prop) => Alive(t, t.prop)
  BY <1>6 DEF OnTheWay
<1>8. ASSUME t.prop # Null
      PROVE  /\ t.prop \in DOMAIN t.heap /\ new[t.prop] = path
             /\ (\A a \in DOMAIN s.heap : Alive(s, a)) => Alive(t, t.prop)
  <2>1. PICK j : Leading(links, j, N) /\ links[j].prop # Null
    BY <1>6, <1>8 DEF OnTheWay
  <2>2. links[j].prop \in DOMAIN s.heap
    <3>1. links[j].prop # Gone
      BY <1>1, <2>1 DEF Usable, Leading
    <3>2. links[j] \in LinkType(s.heap)
      BY <1>1, <2>1 DEF Leading
    <3> QED
      BY <2>1, <3>1, <3>2 DEF LinkType
  <2>3. DOMAIN home = DOMAIN s.heap
    BY DEF Homed
  <2>4. home[links[j].prop] \o KeysBetween(links, j, N) = path
    BY <1>1, <2>1, <2>2, <2>3 DEF LeadsTo, Leading
  <2> QED
    BY <1>7, <2>1, <2>2, <2>3, <2>4
<1>9. LeadsTo(t.links, new, path)
  <2>1. /\ Len(t.links) = N /\ DOMAIN t.links = 1..N /\ t.links[N].prop = t.prop
        /\ Null \notin DOMAIN new /\ Good(t)
    <3>1. Good(t) /\ LinksOK(t.heap, t.links) /\ Resolved(t.links) = t.prop /\ Len(t.links) = N
      BY <1>6 DEF Initialized
    <3>2. Null \notin DOMAIN t.heap
      BY <3>1, Pointer DEF Good, Sound
    <3> QED
      BY <1>7, <3>1, <3>2, LinksFacts DEF Settled, Homed
  <2> SUFFICES ASSUME NEW i \in 1..N, t.links[i].prop \in DOMAIN new,
                      \A j \in (i + 1)..N : t.links[j].prop = Null
               PROVE  new[t.links[i].prop] \o KeysBetween(t.links, i, N) = path
    BY <2>1 DEF LeadsTo
  <2>2. CASE i = N
    <3>1. t.prop # Null /\ new[t.prop] = path
      BY <1>8, <2>1, <2>2
    <3>2. path \in Seq(Steps)
      BY <1>7, <1>8, <3>1 DEF Settled, Homed
    <3>3. KeysBetween(t.links, N, N) = <<>> /\ \A at \in Seq(Steps) : at \o <<>> = at
      <4>1. N <= N /\ \A k \in (N + 1)..N : t.links[k].propName \in Keys
        BY <1>1
      <4> QED
        BY <1>1, <4>1, KeysFacts
    <3> QED
      BY <2>1, <2>2, <3>1, <3>2, <3>3
  <2>3. CASE i # N
    <3>1. t.prop = Null
      <4>1. N \in (i + 1)..N
        <5> HIDE DEF N
        <5>1. i < N
          BY <1>1, <2>3
        <5> QED
          BY <1>1, <5>1
      <4> QED
        BY <2>1, <4>1
    <3>2. LeadsNowhere(t) /\ Leading(t.links, i, N)
      BY <1>6, <1>7, <2>1, <3>1 DEF OnTheWay, Leading, Settled, Homed
    <3>3. t.links[i].prop \notin DOMAIN t.heap
      BY <2>1, <3>2 DEF LeadsNowhere
    <3> QED
      BY <1>7, <3>3 DEF Settled, Homed
  <2> QED
    BY <2>2, <2>3
<1>10. Arrived(s, home, t, path)
  BY <1>7, <1>8, <1>9 DEF Arrived
<1> QED
  BY <1>2, <1>10 DEF t

\* A wrapper leads where it did while homes stay.
LEMMA StillLeads ==
  ASSUME NEW s, Good(s), NEW home, Homed(s.heap, home), NEW links, LinksOK(s.heap, links),
         NEW path, LeadsTo(links, home, path),
         NEW t, Good(t), NEW new, Homed(t.heap, new), Extends(new, home)
  PROVE  LeadsTo(links, new, path)
<1>1. /\ DOMAIN links = 1..Len(links)
      /\ \A i \in 1..Len(links) : links[i] \in LinkType(s.heap)
  BY LinksFacts
<1>2. Null \notin DOMAIN new /\ Gone \notin DOMAIN new
  BY Pointer DEF Good, Sound, Homed
<1>3. \A i \in DOMAIN links : links[i].prop \in DOMAIN new => links[i].prop \in DOMAIN home
  BY <1>1, <1>2 DEF LinkType, Homed
<1> QED
  BY <1>3 DEF LeadsTo, Extends

\* What PropertyWrapper::Add returns leads to what was added.
LEMMA ReturnedLeads ==
  ASSUME NEW u, NEW h, NEW home, Homed(h, home), Null \notin DOMAIN h, u.prop \in DOMAIN h
  PROVE  LeadsTo(Returned(u), home, home[u.prop])
<1> DEFINE a == Link(Resolved(u.links), NoName)
           b == Link(u.prop, NoName)
           links == <<a, b>>
<1>1. b.prop = u.prop
  BY DEF Link
<1>2. links = Returned(u)
  BY DEF Returned
<1> HIDE DEF a, b
<1>3. Len(links) = 2 /\ DOMAIN links = 1..2 /\ links[2] = b
  OBVIOUS
<1> HIDE DEF links
<1>4. KeysBetween(links, 2, 2) = <<>> /\ \A at \in Seq(Steps) : at \o <<>> = at
  <2>1. 2 \in Nat /\ 2 <= 2 /\ \A k \in (2 + 1)..2 : links[k].propName \in Keys
    OBVIOUS
  <2> QED
    BY <2>1, KeysFacts
<1>5. home[u.prop] \in Seq(Steps) /\ u.prop # Null
  BY DEF Homed
<1>6. LeadsTo(links, home, home[u.prop])
  <2> SUFFICES ASSUME NEW i \in 1..2, links[i].prop \in DOMAIN home,
                      \A j \in (i + 1)..2 : links[j].prop = Null
               PROVE  home[links[i].prop] \o KeysBetween(links, i, 2) = home[u.prop]
    BY <1>3 DEF LeadsTo
  <2>1. i = 2
    BY <1>1, <1>3, <1>5
  <2> QED
    BY <1>1, <1>3, <1>4, <1>5, <2>1
<1> QED
  BY <1>2, <1>6

\* What a call through a wrapper that leads to path leaves.
Ended(home, u, path) ==
  \E new : Settled(home, u, new) /\ LeadsTo(u.links, new, path)

\* What was added is at its path, and what is returned leads to it.
AddedAt(s, home, u, at, type) ==
  \E new : /\ Settled(home, u, new)
           /\ u.prop \in DOMAIN u.heap /\ new[u.prop] = at /\ u.heap[u.prop].type = type
           /\ (\A a \in DOMAIN s.heap : Alive(s, a)) => Alive(u, u.prop)
           /\ LeadsTo(Returned(u), new, at)

\* PropertyWrapper::Add as the program may call it.
LEMMA WrapperAddPlaced ==
  ASSUME NEW s, Good(s), s.outcome = "ok", NEW home, Homed(s.heap, home),
         NEW links, LinksOK(s.heap, links), Usable(links), ~OfNothing(links),
         NEW path, LeadsTo(links, home, path),
         NEW name \in Seq(STRING), name # NoName, NEW leaf, NEW pathToElements \in BOOLEAN,
         LET t == InitializeProperty(s, links, FALSE)
             first == Child(t, t.prop, SubSeq(name, 1, 1))
         IN  pathToElements /\ IsType(t, t.prop, "Element") =>
               first = Null \/ IsType(t, first, "Element")
  PROVE  LET u == WrapperAdd(s, links, name, leaf, pathToElements)
         IN  /\ Ended(home, u, path)
             /\ u.outcome = "ok" => AddedAt(s, home, u, path \o Target(name, pathToElements), leaf.type)
<1> DEFINE t == InitializeProperty(s, links, FALSE)
           u == WrapperAdd(s, links, name, leaf, pathToElements)
           target == Target(name, pathToElements)
<1>1. /\ Good(t) /\ Larger(s, t)
      /\ LinksOK(t.heap, t.links) /\ Resolved(t.links) = t.prop
      /\ t.prop \in DOMAIN t.heap /\ t.prop # Null
  BY InitializeMakes
<1>2. t.prop \notin {Null, Gone}
  BY <1>1, Pointer DEF Good, Sound
<1>3. Arrived(s, home, t, path)
  BY InitializeArrives
<1>4. CASE t.heap[t.prop].type # "Element"
  <2>1. u = Throw(t, "InvalidUsageError")
    BY <1>2, <1>4 DEF WrapperAdd, IsType
  <2> HIDE DEF t, u, target
  <2>2. u.heap = t.heap /\ u.links = t.links /\ u.outcome # "ok"
    BY <1>1, <2>1, ThrowFacts DEF Good
  <2>3. Ended(home, u, path)
    BY <1>3, <2>2 DEF Arrived, Ended, Settled
  <2> QED
    BY <2>2, <2>3 DEF u
<1>5. CASE t.heap[t.prop].type = "Element"
  <2>1. pathToElements => \/ Child(t, t.prop, SubSeq(name, 1, 1)) = Null
                          \/ IsType(t, Child(t, t.prop, SubSeq(name, 1, 1)), "Element")
    BY <1>2, <1>5 DEF IsType
  <2>2. u = IF leaf.type = "Array" THEN AddArray(t, t.prop, name, leaf.value, pathToElements)
            ELSE Add(t, t.prop, name, leaf.type, pathToElements)
    BY <1>2, <1>5 DEF WrapperAdd, IsType
  <2>3. PICK new : /\ Homed(t.heap, new) /\ Extends(new, home)
                   /\ LeadsTo(t.links, new, path)
                   /\ new[t.prop] = path
                   /\ (\A a \in DOMAIN s.heap : Alive(s, a)) => Alive(t, t.prop)
    BY <1>1, <1>3 DEF Arrived, Settled
  <2> HIDE DEF t, u, target
  <2>4. Added(t, u, leaf.type) /\ Placed(t, new, t.prop, u, target)
    <3>1. CASE leaf.type = "Array"
      <4>1. t.outcome = "ok"
        BY <1>1 DEF Larger
      <4>2. Added(t, AddArray(t, t.prop, name, leaf.value, pathToElements), "Array")
        BY <1>1, <1>5, <2>1, <4>1, AddArraySound
      <4>3. Placed(t, new, t.prop, AddArray(t, t.prop, name, leaf.value, pathToElements), target)
        BY <1>1, <1>5, <2>1, <2>3, <4>1, AddArrayPlaced DEF target
      <4> QED
        BY <2>2, <3>1, <4>2, <4>3
    <3>2. CASE leaf.type # "Array"
      <4>1. Added(t, Add(t, t.prop, name, leaf.type, pathToElements), leaf.type)
        BY <1>1, <1>5, <2>1, AddSound
      <4>2. Placed(t, new, t.prop, Add(t, t.prop, name, leaf.type, pathToElements), target)
        BY <1>1, <1>5, <2>1, <2>3, AddPlaced DEF target
      <4> QED
        BY <2>2, <3>2, <4>1, <4>2
    <3> QED
      BY <3>1, <3>2
  <2>5. PICK newer : /\ Homed(u.heap, newer) /\ Extends(newer, new)
                     /\ newer[u.prop] = new[t.prop] \o target
                     /\ Alive(t, t.prop) => Alive(u, u.prop)
    BY <2>4 DEF Placed, Settled
  <2>6. Settled(home, u, newer)
    BY <2>3, <2>5, ExtendsTwice DEF Settled
  <2>7. LeadsTo(u.links, newer, path)
    <3>1. LeadsTo(t.links, newer, path)
      BY <1>1, <2>3, <2>4, <2>5, StillLeads DEF Added
    <3> QED
      BY <2>4, <3>1 DEF Added, Grown
  <2>8. LeadsTo(Returned(u), newer, newer[u.prop])
    <3>1. Null \notin DOMAIN u.heap
      BY <2>4, Pointer DEF Added, Good, Sound
    <3> QED
      BY <2>4, <2>5, <3>1, ReturnedLeads DEF Added
  <2>9. AddedAt(s, home, u, path \o target, leaf.type)
    BY <2>3, <2>4, <2>5, <2>6, <2>8 DEF AddedAt, Added
  <2>10. Ended(home, u, path)
    BY <2>6, <2>7 DEF Ended
  <2> QED
    BY <2>9, <2>10 DEF u, target
<1> QED
  BY <1>4, <1>5

\* What replaces an element is at home where that was.
LEMMA SetValueHomed ==
  ASSUME NEW s, Good(s), NEW home, Homed(s.heap, home),
         NEW el \in DOMAIN s.heap, s.heap[el].type = "Element",
         NEW p \in DOMAIN s.heap, Unheld(s.heap, p), p \notin s.roots,
         s.heap[p].parentProperty = Null, home[p] = home[el], NEW order \in Seq(Keys)
  PROVE  Homed(SetValue(s, el, p, order).heap, home)
<1> DEFINE parent == s.heap[el].parentProperty
           held == {i \in DOMAIN order : Child(s, parent, order[i]) = el}
           t == SetValue(s, el, p, order)
<1>1. parent = Null \/ parent \in DOMAIN s.heap
  BY DEF Good, Sound, CellOK
<1>2. \A q \in DOMAIN s.heap : q \notin {Null, Gone}
  BY Pointer DEF Good, Sound
<1>3. CASE parent = Null
  <2>1. t = Throw(s, "InvalidUsageError")
    BY <1>3 DEF SetValue
  <2> HIDE DEF t
  <2>2. t.heap = s.heap
    BY <2>1, ThrowFacts DEF Good
  <2> QED
    BY <2>2 DEF t
<1>4. CASE parent # Null /\ held = {}
  <2>1. t = s
    BY <1>1, <1>2, <1>4 DEF SetValue
  <2> QED
    BY <2>1
<1>5. CASE parent # Null /\ held # {}
  <2>1. parent \in DOMAIN s.heap /\ parent # Gone
    BY <1>1, <1>2, <1>5
  <2>2. held \in SUBSET Nat
    OBVIOUS
  <2> DEFINE i == Min(held)
             key == order[i]
  <2>3. i \in held
    BY <1>5, <2>2, LeastExists
  <2>4. t = Put(s, parent, key, p)
    BY <1>5, <2>1 DEF SetValue
  <2>5. key \in Keys /\ Child(s, parent, key) = el
    BY <2>3
  <2> HIDE DEF i, key, held, t
  <2>6. key \in DOMAIN s.heap[parent].children /\ s.heap[parent].children[key] = el
    BY <1>2, <2>1, <2>5, ChildFacts
  <2>7. s.heap[parent].type = "Element"
    BY <2>1, <2>6 DEF Good, Sound, CellOK
  <2> HIDE DEF parent
  <2>8. Taken(s, t, parent, key, p)
    BY <2>1, <2>4, <2>5, <2>7, PutSound
  <2>9. home[p] = Append(home[parent], key)
    BY <2>1, <2>6 DEF Homed
  <2>10. Homed(t.heap, home)
    BY <2>1, <2>8, <2>9, TakenHomed
  <2> QED
    BY <2>10 DEF t
<1> QED
  BY <1>3, <1>4, <1>5

\* Assignment of a scalar as the program may do it.
LEMMA AssignPlaced ==
  ASSUME NEW s, Good(s), NEW home, Homed(s.heap, home),
         NEW links, LinksOK(s.heap, links), Usable(links), NEW path, LeadsTo(links, home, path),
         NEW leaf, NEW order \in Seq(Keys),
         Resolved(links) # Null => s.heap[Resolved(links)].type \in {"Element", "Array", leaf.type}
  PROVE  Ended(home, Assign(s, links, leaf, order), path)
<1> DEFINE t == InitializeProperty(s, links, FALSE)
           type == leaf.type
           value == leaf.value
           made == Create(t, type, value)
           u == Assign(s, links, leaf, order)
<1>1. /\ Good(t) /\ Larger(s, t) /\ LinksOK(t.heap, t.links)
      /\ t.prop = Null \/ t.prop \in DOMAIN t.heap
      /\ Resolved(links) # Null => t.prop = Resolved(links)
      /\ Resolved(links) = Null /\ t.prop # Null => t.heap[t.prop].type = "Element"
  BY InitializeMakes
<1>2. t.prop # Null => t.prop \in DOMAIN t.heap /\ t.prop # Gone
  BY <1>1, Pointer DEF Good, Sound
<1>3. PICK new : Homed(t.heap, new) /\ Extends(new, home) /\ LeadsTo(t.links, new, path)
  <2>1. Arrived(s, home, t, path)
    BY InitializeArrives
  <2> QED
    BY <2>1 DEF Arrived, Settled
<1>4. CASE t.prop = Null \/ t.heap[t.prop].type = "Array"
  <2>1. u = Throw(t, "LogicError")
    BY <1>2, <1>4 DEF Assign, IsType
  <2> HIDE DEF t, u
  <2>2. u.heap = t.heap /\ u.links = t.links
    BY <1>1, <2>1, ThrowFacts DEF Good
  <2>3. Ended(home, u, path)
    BY <1>3, <2>2 DEF Ended, Settled
  <2> QED
    BY <2>3 DEF u
<1>5. CASE t.prop # Null /\ t.heap[t.prop].type = "Element"
  <2>1. u = SetValue(made, t.prop, made.prop, order)
    BY <1>2, <1>5 DEF Assign, IsType
  <2> HIDE DEF t, u, type, value
  <2>2. Good(made) /\ Grown(t, made)
    BY <1>1, CreateFacts
  <2>4. PICK c : Made(t, made, c) /\ c.parentProperty = Null
    BY <1>1, CreateFacts
  <2> DEFINE p == made.prop
             at == new[t.prop]
  <2>5. at \in Seq(Steps) \ {<<>>}
    BY <1>2, <1>3, <1>5 DEF Homed
  <2> HIDE DEF at
  <2>6. HomeIs(new, made, at)
    BY <1>1, <1>3, <2>5, CreateHomed
  <2> HIDE DEF made
  <2>7. PICK newer : Homed(made.heap, newer) /\ Extends(newer, new) /\ newer[p] = at
    BY <2>6 DEF HomeIs
  <2>8. /\ p \in DOMAIN made.heap /\ Unheld(made.heap, p)
        /\ p \notin made.roots /\ made.heap[p].parentProperty = Null
    BY <2>4 DEF Made
  <2>9. /\ t.prop \in DOMAIN made.heap /\ made.heap[t.prop].type = "Element"
        /\ newer[p] = newer[t.prop]
    BY <1>2, <1>3, <1>5, <2>2, <2>7 DEF Grown, Larger, Extends, Homed, at
  <2>10. Homed(u.heap, newer)
    BY <2>1, <2>2, <2>7, <2>8, <2>9, SetValueHomed
  <2>11. Good(u) /\ u.links = made.links
    <3>1. u = Throw(made, "InvalidUsageError") \/ (Good(u) /\ Grown(made, u))
      BY <2>1, <2>2, <2>8, <2>9, SetValueSound
    <3> QED
      BY <2>2, <3>1, ThrowFacts DEF Good, Grown
  <2>12. LeadsTo(u.links, newer, path)
    <3>1. LeadsTo(t.links, newer, path)
      BY <1>1, <1>3, <2>2, <2>7, StillLeads
    <3> QED
      BY <2>2, <2>11, <3>1 DEF Grown
  <2>13. Extends(newer, home)
    BY <1>3, <2>7, ExtendsTwice
  <2>14. Ended(home, u, path)
    BY <2>10, <2>12, <2>13 DEF Ended, Settled
  <2> QED
    BY <2>14 DEF u
<1>6. CASE t.prop # Null /\ t.heap[t.prop].type \notin {"Element", "Array"}
  <2>1. Resolved(links) # Null /\ t.prop = Resolved(links)
    BY <1>1, <1>6
  <2>2. Resolved(links) \in DOMAIN s.heap
    <3>1. Resolved(links) \in DOMAIN s.heap \cup {Null, Gone}
      BY LinksFacts
    <3> QED
      BY <1>2, <1>6, <2>1, <3>1
  <2>3. t.heap[t.prop].type = leaf.type
    BY <1>1, <1>6, <2>1, <2>2 DEF Larger
  <2> DEFINE v == [t EXCEPT !.heap[t.prop].value = leaf.value]
  <2>4. u = v
    BY <1>2, <1>6, <2>3 DEF Assign, IsType
  <2> HIDE DEF t, u
  <2>5. Grown(t, v) /\ Changed(t, v, t.prop) /\ v.heap[t.prop].children = t.heap[t.prop].children
    BY <1>1, <1>2, <1>6, ValueSound
  <2> HIDE DEF v
  <2>6. /\ DOMAIN v.heap = DOMAIN t.heap /\ v.links = t.links
        /\ \A a \in DOMAIN t.heap : v.heap[a].children = t.heap[a].children
    BY <2>5 DEF Changed
  <2>7. Homed(v.heap, new)
    BY <1>3, <2>6, HomesStay
  <2>8. Ended(home, u, path)
    BY <1>3, <2>4, <2>6, <2>7 DEF Ended, Settled
  <2> QED
    BY <2>8 DEF u
<1> QED
  BY <1>4, <1>5, <1>6

-----------------------------------------------------------------------------
\* Nothing at the end of a sequence.
LEMMA EmptyEnd ==
  ASSUME NEW X, NEW s \in Seq(X)
  PROVE  s \o <<>> = s
OBVIOUS

\* A path behind a place, and a key behind both.
LEMMA BehindPlace ==
  ASSUME NEW X, NEW at \in Seq(X), at # <<>>, NEW path \in Seq(X)
  PROVE  /\ at \o path \in Seq(X) \ {<<>>}
         /\ \A key \in X : at \o Append(path, key) = Append(at \o path, key)
<1>1. at \o path \in Seq(X) /\ at \o path # <<>>
  OBVIOUS
<1>2. ASSUME NEW key \in X
      PROVE  Append(at \o path, key) = at \o Append(path, key)
  OBVIOUS
<1> QED
  BY <1>1, <1>2

\* Copying or reading a tree can make it anywhere.
LEMMA NewTreeHomed ==
  ASSUME NEW s, Good(s), NEW home, Homed(s.heap, home),
         NEW C, Structured(s.heap, Steps, C), NEW p \in C,
         NEW isRead \in BOOLEAN, NEW at \in Seq(Steps) \ {<<>>}
  PROVE  HomeIs(home, NewTree(s, p, isRead), at)
<1> DEFINE c == Fresh(s)
           t == NewTree(s, p, isRead)
           h == s.heap
           places == Places(h, p)
           new == [a \in DOMAIN t.heap |-> IF a \in DOMAIN h THEN home[a] ELSE at \o Tail(a)]
<1>1. PICK made : Rebuilt(s, t, places, made)
  BY NewTreeMade
<1>2. /\ <<<<>>, p>> \in places
      /\ \A x \in places : x[1] \in Seq(Steps)
      /\ \A x \in places : \A key \in DOMAIN h[x[2]].children :
           <<Append(x[1], key), h[x[2]].children[key]>> \in places
      /\ \A x \in places : x[2] \in C
  <2>1. Linked(h, Steps) /\ IsFiniteSet(DOMAIN h) /\ Structured(h, Steps, C)
    BY StepsLinked DEF Good, Sound
  <2> HIDE DEF h
  <2> QED
    BY <2>1, TreePlaces
<1>3. Linked(h, Steps)
  BY StepsLinked DEF Good, Sound
<1> HIDE DEF t, c, places, new
<1>4. c \in Seq(Steps) /\ Len(c) = 1 /\ \A a \in DOMAIN h : Head(a) # c[1]
  BY FreshFacts DEF Good, Sound, c
<1>5. t.heap = With(h, made) /\ t.prop = c /\ Image(h, places, c, made)
  BY <1>1 DEF Rebuilt, c
<1>6. /\ DOMAIN t.heap = DOMAIN h \cup DOMAIN made
      /\ \A a \in DOMAIN made : t.heap[a] = made[a]
      /\ \A a \in DOMAIN h \ DOMAIN made : t.heap[a] = h[a]
  <2>1. /\ DOMAIN With(h, made) = DOMAIN h \cup DOMAIN made
        /\ \A a \in DOMAIN made : With(h, made)[a] = made[a]
        /\ \A a \in DOMAIN h \ DOMAIN made : With(h, made)[a] = h[a]
    BY WithFacts
  <2> QED
    BY <1>5, <2>1
<1>7. \A x \in places : Head(c \o x[1]) = c[1] /\ Tail(c \o x[1]) = x[1]
  BY <1>2, <1>4, BehindOne
<1>8. \A x \in places : c \o x[1] \in DOMAIN made /\ c \o x[1] \notin DOMAIN h
  BY <1>4, <1>5, <1>7 DEF Image
<1>9. \A a \in DOMAIN made : a \notin DOMAIN h /\ \E x \in places : a = c \o x[1]
  BY <1>5, <1>8 DEF Image
<1>10. DOMAIN new = DOMAIN t.heap /\ \A a \in DOMAIN h : new[a] = home[a]
  BY <1>6 DEF new
<1>11. \A x \in places : new[c \o x[1]] = at \o x[1]
  BY <1>6, <1>7, <1>8 DEF new
<1>12. \A a \in DOMAIN t.heap : new[a] \in Seq(Steps) \ {<<>>}
  <2> TAKE a \in DOMAIN t.heap
  <2>1. CASE a \in DOMAIN h
    BY <1>10, <2>1 DEF Homed
  <2>2. CASE a \in DOMAIN made
    <3>1. PICK x \in places : a = c \o x[1]
      BY <1>9, <2>2
    <3>2. x[1] \in Seq(Steps)
      BY <1>2
    <3>3. at \o x[1] \in Seq(Steps) \ {<<>>}
      BY <3>2, BehindPlace
    <3> QED
      BY <1>11, <3>1, <3>3
  <2> QED
    BY <1>6, <2>1, <2>2
<1>13. \A a \in DOMAIN t.heap : \A key \in DOMAIN t.heap[a].children :
         new[t.heap[a].children[key]] = Append(new[a], key)
  <2> SUFFICES ASSUME NEW a \in DOMAIN t.heap, NEW key \in DOMAIN t.heap[a].children
               PROVE  new[t.heap[a].children[key]] = Append(new[a], key)
    OBVIOUS
  <2>1. CASE a \in DOMAIN made
    <3>1. PICK x \in places : a = c \o x[1]
      BY <1>9, <2>1
    <3>2. /\ DOMAIN made[a].children = DOMAIN h[x[2]].children
          /\ \A k \in DOMAIN h[x[2]].children : made[a].children[k] = c \o Append(x[1], k)
      BY <1>5, <3>1 DEF Image
    <3>3. key \in DOMAIN h[x[2]].children /\ t.heap[a].children[key] = c \o Append(x[1], key)
      BY <1>6, <2>1, <3>2
    <3>4. PICK y \in places : y[1] = Append(x[1], key)
      <4>1. <<Append(x[1], key), h[x[2]].children[key]>> \in places
        BY <1>2, <3>3
      <4> QED
        BY <4>1
    <3>5. new[t.heap[a].children[key]] = at \o Append(x[1], key)
      BY <1>11, <3>3, <3>4
    <3>6. x[1] \in Seq(Steps) /\ key \in Steps
      <4>1. x[2] \in DOMAIN h
        BY <1>2 DEF Structured
      <4> QED
        BY <1>2, <1>3, <3>3, <4>1 DEF Linked
    <3>7. at \o Append(x[1], key) = Append(at \o x[1], key)
      BY <3>6, BehindPlace
    <3> QED
      BY <1>11, <3>1, <3>5, <3>7
  <2>2. CASE a \notin DOMAIN made
    <3>1. a \in DOMAIN h /\ t.heap[a] = h[a]
      BY <1>6, <2>2
    <3>2. h[a].children[key] \in DOMAIN h
      BY <1>3, <3>1 DEF Linked
    <3> QED
      BY <1>10, <3>1, <3>2 DEF Homed
  <2> QED
    BY <2>1, <2>2
<1>14. Homed(t.heap, new)
  BY <1>10, <1>12, <1>13 DEF Homed
<1>15. Extends(new, home)
  BY <1>6, <1>10 DEF Homed, Extends
<1>16. new[t.prop] = at
  <2>1. new[c \o <<>>] = at \o <<>>
    BY <1>2, <1>11
  <2>2. c \o <<>> = c /\ at \o <<>> = at
    BY <1>4, EmptyEnd
  <2> QED
    BY <1>5, <2>1, <2>2
<1> QED
  BY <1>14, <1>15, <1>16 DEF HomeIs, t

\* Everything keeps its home.
Rehomed(home, t) == \E new : Settled(home, t, new)

\* Merging an array changes values only.
LEMMA ArrayHomed ==
  ASSUME NEW s, Good(s), NEW home, Homed(s.heap, home), NEW a \in DOMAIN s.heap, NEW b, NEW overwrite
  PROVE  Rehomed(home, MergeArray(s, a, b, overwrite))
<1> DEFINE x == IF ~overwrite THEN s.heap[a].value + s.heap[b].value
                ELSE IF a = b THEN 0 ELSE s.heap[b].value
           t == MergeArray(s, a, b, overwrite)
<1>1. t = [s EXCEPT !.heap[a].value = x]
  BY DEF MergeArray
<1> HIDE DEF x, t
<1>2. Changed(s, t, a) /\ t.heap[a].children = s.heap[a].children
  BY <1>1, ValueSound
<1>3. DOMAIN t.heap = DOMAIN s.heap /\ \A c \in DOMAIN s.heap : t.heap[c].children = s.heap[c].children
  BY <1>2 DEF Changed
<1>4. Homed(t.heap, home)
  BY <1>3, HomesStay
<1>5. Settled(home, t, home)
  BY <1>4 DEF Settled, Extends
<1> QED
  BY <1>5 DEF Rehomed, t

\* A child that is merged is a copy at home where it is put.
LEMMA ChildHomed ==
  ASSUME NEW s0, NEW T, NEW S, SetOut(s0, T, S), NEW s, Between(s0, s, T),
         NEW home, Homed(s.heap, home), NEW t, NEW overwrite,
         ChildMerged(s0, s, t, T, S, overwrite)
  PROVE  Rehomed(home, t)
<1>0. Good(s)
  BY DEF Between
<1>1. CASE t = s
  <2>1. Settled(home, t, home)
    BY <1>1 DEF Settled, Extends
  <2> QED
    BY <2>1 DEF Rehomed
<1>2. CASE t # s
  <2>1. PICK e \in DOMAIN s.heap, key \in Keys, p \in S :
          s.heap[e].type = "Element" /\ t = MergeChild(s, e, key, p, overwrite, TRUE)
    BY <1>2 DEF ChildMerged
  <2> DEFINE old == Child(s, e, key)
             c == Copy(s, p)
  <2>2. CASE IsType(s, p, "Array") /\ IsType(s, old, "Array")
    <3>1. t = MergeArray(s, old, p, overwrite)
      BY <2>1, <2>2 DEF MergeChild
    <3>2. old # Null
      BY <2>2 DEF IsType
    <3>3. old \in DOMAIN s.heap
      BY <1>0, <3>2, ChildFacts
    <3> HIDE DEF old
    <3> QED
      BY <1>0, <3>1, <3>3, ArrayHomed
  <2>3. CASE t = AddChild(c, e, key, c.prop)
    <3> HIDE DEF old
    <3> DEFINE at == Append(home[e], key)
    <3>1. Structured(s.heap, Steps, S)
      BY SourceStays
    <3>2. at \in Seq(Steps) \ {<<>>}
      <4>1. home[e] \in Seq(Steps)
        BY DEF Homed
      <4> QED
        BY <4>1, OneKey
    <3>3. c = NewTree(s, p, FALSE) /\ FALSE \in BOOLEAN
      BY DEF Copy
    <3> HIDE DEF c, at
    <3>4. LET u == NewTree(s, p, FALSE)
          IN  /\ Good(u) /\ Grown(s, u)
              /\ u.prop \in DOMAIN u.heap /\ u.prop \notin DOMAIN s.heap
              /\ Unheld(u.heap, u.prop) /\ u.prop \notin u.roots
              /\ u.heap[u.prop].type = s.heap[p].type /\ u.heap[u.prop].parentProperty = Null
              /\ \A a \in DOMAIN s.heap : u.heap[a] = s.heap[a]
              /\ Shut(u.heap, DOMAIN u.heap \ DOMAIN s.heap)
      BY <1>0, <3>1, <3>3, NewTreeSound, Zenon
    <3>5. /\ Good(c) /\ Grown(s, c) /\ c.prop \in DOMAIN c.heap /\ c.prop \notin DOMAIN s.heap
          /\ Unheld(c.heap, c.prop) /\ c.prop \notin c.roots /\ c.heap[c.prop].parentProperty = Null
      BY <3>3, <3>4
    <3>6. HomeIs(home, NewTree(s, p, FALSE), at)
      BY <1>0, <3>1, <3>2, <3>3, NewTreeHomed, Zenon
    <3>7. PICK new : Homed(c.heap, new) /\ Extends(new, home) /\ new[c.prop] = at
      BY <3>3, <3>6 DEF HomeIs
    <3>8. e \in DOMAIN c.heap /\ c.heap[e].type = "Element" /\ c.prop # e
      BY <2>1, <3>5 DEF Grown, Larger
    <3>9. c.prop \notin {Null, Gone}
      BY <3>5, Pointer DEF Good, Sound
    <3>10. Taken(c, t, e, key, c.prop)
      BY <2>3, <3>5, <3>8, <3>9, AddChildSound
    <3>11. new[c.prop] = Append(new[e], key)
      BY <3>7 DEF at, Extends, Homed
    <3>12. Homed(t.heap, new)
      BY <3>5, <3>7, <3>8, <3>10, <3>11, TakenHomed
    <3>13. Settled(home, t, new)
      BY <3>7, <3>12 DEF Settled
    <3> QED
      BY <3>13 DEF Rehomed
  <2> QED
    BY <1>2, <2>1, <2>2, <2>3 DEF MergeChild
<1> QED
  BY <1>1, <1>2

\* A deep merge leaves everything at home, and makes what it makes at home.
LEMMA MergeHomed ==
  ASSUME NEW s, NEW T, NEW S, SetOut(s, T, S), NEW e \in T, s.heap[e].type = "Element",
         NEW q \in S, s.heap[q].type = "Element", NEW overwrite, NEW order \in Seq(Keys),
         NEW home, Homed(s.heap, home)
  PROVE  Rehomed(home, Merge(s, e, q, overwrite, TRUE, order))
<1> DEFINE t == Merge(s, e, q, overwrite, TRUE, order)
<1>1. \E n, after : MergeRun(s, t, T, S, overwrite, n, after)
  BY MergeRuns
<1> HIDE DEF t
<1>2. PICK n, after : MergeRun(s, t, T, S, overwrite, n, after)
  BY <1>1
<1> DEFINE I == {i \in Nat : i \in 0..n => Rehomed(home, after[i].state)}
<1>3. 0 \in I
  <2>1. Settled(home, after[0].state, home)
    BY <1>2 DEF MergeRun, Settled, Extends
  <2> QED
    BY <2>1 DEF Rehomed
<1>4. ASSUME NEW i \in Nat, i \in I
      PROVE  i + 1 \in I
  <2> SUFFICES ASSUME i + 1 \in 0..n
               PROVE  Rehomed(home, after[i + 1].state)
    OBVIOUS
  <2>1. n \in Nat /\ i \in 0..n /\ i + 1 # 0 /\ (i + 1) - 1 = i
    BY <1>2 DEF MergeRun
  <2>2. PICK new : Settled(home, after[i].state, new)
    BY <1>4, <2>1 DEF Rehomed
  <2>3. Between(s, after[i].state, T)
    BY <1>2, <2>1 DEF MergeRun, Merging
  <2>4. ChildMerged(s, after[i].state, after[i + 1].state, T, S, overwrite)
    BY <1>2, <2>1 DEF MergeRun
  <2>5. Rehomed(new, after[i + 1].state)
    BY <2>2, <2>3, <2>4, ChildHomed DEF Settled
  <2>6. PICK newer : Settled(new, after[i + 1].state, newer)
    BY <2>5 DEF Rehomed
  <2>7. Settled(home, after[i + 1].state, newer)
    BY <2>2, <2>6, ExtendsTwice DEF Settled
  <2> QED
    BY <2>7 DEF Rehomed
<1> HIDE DEF I
<1>5. Nat \subseteq I
  BY <1>3, <1>4, NatSetInduction
<1>6. n \in I /\ n \in 0..n
  BY <1>2, <1>5 DEF MergeRun
<1>7. Rehomed(home, after[n].state)
  BY <1>6 DEF I
<1>8. after[n].state = t
  BY <1>2 DEF MergeRun
<1> QED
  BY <1>7, <1>8 DEF t

\* Every document is at home at its own name.
AtHome(newDocs, home) == \A d \in Docs : home[newDocs[d]] = <<d>>

\* At the end of a call, the places of properties are their homes.
LEMMA PlacesAtHome ==
  ASSUME NEW h, NEW newDocs, NEW met, Placing(h, newDocs, met),
         NEW home, Homed(h, home), AtHome(newDocs, home)
  PROVE  \A x \in met : x[1] = home[x[2]]
<1> DEFINE I == {n \in Nat : \A x \in met : Len(x[1]) = n => x[1] = home[x[2]]}
<1>1. \A x \in met : x[1] \in Seq(Steps) /\ x[1] # <<>> /\ x[2] \in DOMAIN h
  BY DEF Placing
<1>2. \A x \in met :
        \/ \E d \in Docs : x = <<<<d>>, newDocs[d]>>
        \/ \E at \in met : \E key \in DOMAIN h[at[2]].children :
             x = <<Append(at[1], key), h[at[2]].children[key]>>
  BY DEF Placing
<1>3. 0 \in I
  <2>1. \A path \in Seq(Steps) : path # <<>> => Len(path) # 0
    OBVIOUS
  <2> QED
    BY <1>1, <2>1
<1>4. ASSUME NEW n \in Nat, n \in I
      PROVE  n + 1 \in I
  <2> SUFFICES ASSUME NEW x \in met, Len(x[1]) = n + 1
               PROVE  x[1] = home[x[2]]
    OBVIOUS
  <2>1. CASE \E d \in Docs : x = <<<<d>>, newDocs[d]>>
    BY <2>1 DEF AtHome
  <2>2. ASSUME NEW at \in met, NEW key \in DOMAIN h[at[2]].children,
               x = <<Append(at[1], key), h[at[2]].children[key]>>
        PROVE  x[1] = home[x[2]]
    <3>1. x[1] = Append(at[1], key) /\ x[2] = h[at[2]].children[key]
      BY <2>2
    <3>2. home[x[2]] = Append(home[at[2]], key)
      BY <1>1, <3>1 DEF Homed
    <3>3. Len(at[1]) = n
      <4>1. at[1] \in Seq(Steps)
        BY <1>1
      <4>2. Len(Append(at[1], key)) = Len(at[1]) + 1 /\ Len(at[1]) \in Nat
        BY <4>1
      <4> QED
        BY <3>1, <4>2
    <3>4. at[1] = home[at[2]]
      BY <1>4, <3>3
    <3> QED
      BY <3>1, <3>2, <3>4
  <2> QED
    BY <1>2, <2>1, <2>2
<1> HIDE DEF I
<1>5. Nat \subseteq I
  BY <1>3, <1>4, NatSetInduction
<1> SUFFICES ASSUME NEW x \in met
             PROVE  x[1] = home[x[2]]
  OBVIOUS
<1>6. Len(x[1]) \in Nat
  BY <1>1
<1> QED
  BY <1>5, <1>6 DEF I

\* The wrappers of a chain keep their names.
LEMMA SweptEach ==
  ASSUME NEW h, NEW links, LinksOK(h, links), NEW met
  PROVE  LET moved == SweepLinks(links, met)
         IN  /\ Len(moved) = Len(links) /\ DOMAIN moved = 1..Len(links)
             /\ \A i \in 1..Len(links) : /\ moved[i].prop = Moved(met, links[i].prop)
                                         /\ moved[i].propName = links[i].propName
<1> DEFINE moved == SweepLinks(links, met)
           N == Len(links)
<1>1. N \in Nat /\ DOMAIN links = 1..N
  BY LinksFacts
<1>2. DOMAIN moved = 1..N /\ Len(moved) = N
  BY <1>1 DEF SweepLinks
<1>3. ASSUME NEW i \in 1..N
      PROVE  /\ moved[i].prop = Moved(met, links[i].prop)
             /\ moved[i].propName = links[i].propName
  <2> DEFINE p == Moved(met, links[i].prop)
  <2>1. moved[i] = [links[i] EXCEPT !.prop = p]
    BY <1>1 DEF SweepLinks
  <2>2. links[i] \in LinkType(h)
    BY LinksFacts
  <2> HIDE DEF moved, p
  <2>3. moved[i].prop = p /\ moved[i].propName = links[i].propName
    BY <2>1, <2>2 DEF LinkType
  <2> QED
    BY <2>3 DEF p
<1> QED
  BY <1>2, <1>3

\* There a kept wrapper leads where it did.
LEMMA SweptLeads ==
  ASSUME NEW h, NEW R, Sound(h, R), NEW newDocs, NEW met, Placing(h, newDocs, met),
         NEW home, Homed(h, home), AtHome(newDocs, home),
         NEW links, LinksOK(h, links), NEW path, LeadsTo(links, home, path),
         NEW g, Relocated(h, met, g)
  PROVE  LeadsTo(SweepLinks(links, met), [a \in DOMAIN g |-> a], path)
<1> DEFINE moved == SweepLinks(links, met)
           N == Len(links)
           id == [a \in DOMAIN g |-> a]
<1>1. N \in Nat /\ DOMAIN links = 1..N
  BY LinksFacts
<1>2. /\ DOMAIN moved = 1..N
      /\ \A i \in 1..N : /\ moved[i].prop = Moved(met, links[i].prop)
                         /\ moved[i].propName = links[i].propName
  BY SweptEach
<1>3. Len(moved) = N
  BY SweptEach
<1>4. /\ \A x \in met : Moved(met, x[2]) = x[1] /\ x[2] \in DOMAIN h /\ x[1] \in Seq(Steps)
      /\ \A p : p # Null => Moved(met, p) # Null
      /\ Moved(met, Null) = Null
      /\ \A p : p # Null => Moved(met, p) \in {x[1] : x \in met} \cup {Gone}
  <2>1. \A x \in met : x[2] \in DOMAIN h /\ x[1] \in Seq(Steps)
    BY DEF Placing
  <2> QED
    BY <2>1, MovedFacts
<1>5. DOMAIN g = {x[1] : x \in met}
  BY DEF Relocated
<1>6. \A x \in met : x[1] = home[x[2]]
  BY PlacesAtHome
<1> HIDE DEF moved, N
<1> SUFFICES ASSUME NEW i \in DOMAIN moved, moved[i].prop \in DOMAIN id,
                    \A j \in (i + 1)..Len(moved) : moved[j].prop = Null
             PROVE  id[moved[i].prop] \o KeysBetween(moved, i, Len(moved)) = path
  BY DEF LeadsTo, moved, id
<1>7. i \in 1..N /\ moved[i].prop = Moved(met, links[i].prop)
  BY <1>2
<1>8. PICK x \in met : moved[i].prop = x[1]
  BY <1>5
<1>9. links[i].prop \in Ends(met)
  <2>1. x[1] # Null /\ x[1] # Gone
    BY <1>4, Pointer
  <2> QED
    BY <1>7, <1>8, <2>1 DEF Moved
<1>10. PICK y \in met : links[i].prop = y[2]
  BY <1>9 DEF Ends
<1>11. moved[i].prop = y[1] /\ y[1] = home[links[i].prop] /\ links[i].prop \in DOMAIN h
  BY <1>4, <1>6, <1>7, <1>10
<1>12. \A j \in (i + 1)..N : links[j].prop = Null
  <2> TAKE j \in (i + 1)..N
  <2>1. j \in 1..N
    BY <1>1, <1>7
  <2>2. Moved(met, links[j].prop) = Null
    BY <1>2, <1>3, <2>1
  <2> QED
    BY <1>4, <2>2
<1>13. home[links[i].prop] \o KeysBetween(links, i, N) = path
  <2>1. i \in DOMAIN links /\ links[i].prop \in DOMAIN home
    BY <1>1, <1>7, <1>11 DEF Homed
  <2> QED
    BY <1>12, <2>1 DEF LeadsTo, N
<1>14. KeysBetween(moved, i, N) = KeysBetween(links, i, N)
  <2>1. \A k \in 1..(N - i) : moved[i + k].propName = links[i + k].propName
    <3> TAKE k \in 1..(N - i)
    <3>1. i + k \in 1..N
      BY <1>1, <1>7
    <3> QED
      BY <1>2, <3>1
  <2> QED
    BY <2>1 DEF KeysBetween
<1>15. id[moved[i].prop] = home[links[i].prop]
  BY <1>11
<1> QED
  BY <1>3, <1>13, <1>14, <1>15

\* Where a kept wrapper should lead.
PathOf(kept) == docs[kept.doc] \o kept.path

\* Every wrapper leads along its path by the homes of properties.
AllLead(newWrapper, home) ==
  \A w \in Wrappers : newWrapper[w] # Nowhere =>
    LeadsTo(newWrapper[w].links, home, PathOf(newWrapper[w]))

\* What a call keeps on its paths during the call is on them afterwards.
LEMMA EndOnPath ==
  ASSUME NEW s, NEW newDocs \in [Docs -> DOMAIN s.heap], Distinct(newDocs),
         Sound(s.heap, Roots(newDocs)),
         NEW home, Homed(s.heap, home), AtHome(newDocs, home),
         NEW newWrapper,
         \A w \in Wrappers : newWrapper[w] # Nowhere => KeptOK(s.heap, newWrapper[w]),
         AllLead(newWrapper, home),
         End(s, newDocs, newWrapper)
  PROVE  WrappersOnPath'
<1> DEFINE met == Survivors(s, newDocs)
           g == Sweep(s.heap, met)
<1>1. /\ heap' = g
      /\ wrapper' = [w \in Wrappers |-> Swept(newWrapper[w], met)]
  BY DEF End
<1>2. Placing(s.heap, newDocs, met)
  BY SurvivorsPlaced
<1> HIDE DEF met, g
<1>3. Relocated(s.heap, met, g)
  BY <1>2, SweptCells DEF g
<1> SUFFICES ASSUME NEW w \in Wrappers, wrapper'[w] # Nowhere
             PROVE  LeadsTo(wrapper'[w].links, [p \in DOMAIN g |-> p],
                            docs[wrapper'[w].doc] \o wrapper'[w].path)
  BY <1>1 DEF WrappersOnPath, Held, Links, docs
<1> DEFINE kept == newWrapper[w]
           links == SweepLinks(kept.links, met)
           path == PathOf(kept)
<1>4. kept # Nowhere /\ wrapper'[w] = [kept EXCEPT !.links = links]
  BY <1>1 DEF Swept
<1>5. /\ kept = Kept(kept.doc, kept.path, kept.links) /\ LinksOK(s.heap, kept.links)
      /\ LeadsTo(kept.links, home, path)
  BY <1>4 DEF KeptOK, AllLead
<1> HIDE DEF kept, links, path
<1>6. wrapper'[w] = Kept(kept.doc, kept.path, links)
  BY <1>4, <1>5 DEF Kept
<1>7. LeadsTo(links, [p \in DOMAIN g |-> p], path)
  BY <1>2, <1>3, <1>5, SweptLeads DEF links
<1>8. /\ wrapper'[w].links = links
      /\ docs[wrapper'[w].doc] \o wrapper'[w].path = path
  <2>1. wrapper'[w].links = links /\ wrapper'[w].doc = kept.doc /\ wrapper'[w].path = kept.path
    BY <1>6 DEF Kept
  <2> QED
    BY <2>1 DEF path, PathOf
<1> QED
  BY <1>7, <1>8

-----------------------------------------------------------------------------
\* Between two calls a property is at home at its address.
HomeHere == [p \in DOMAIN heap |-> p]

\* A call begins there.
LEMMA HereHomed ==
  ASSUME Consistent
  PROVE  /\ Homed(heap, HomeHere) /\ AtHome(docs, HomeHere)
         /\ WrappersOnPath => AllLead(wrapper, HomeHere)
         /\ \A a \in DOMAIN heap : Alive(Here, a)
<1>1. Sound(heap, Roots(docs)) /\ IsTree(heap)
  BY DEF Consistent, ConsistentState
<1>2. Homed(heap, HomeHere)
  <2>1. DOMAIN HomeHere = DOMAIN heap /\ \A a \in DOMAIN heap : HomeHere[a] = a
    BY DEF HomeHere
  <2>2. \A a \in DOMAIN heap : \A key \in DOMAIN heap[a].children :
          heap[a].children[key] \in DOMAIN heap /\ heap[a].children[key] = Append(a, key)
    BY <1>1 DEF IsTree, Sound, Linked
  <2>3. DOMAIN heap \subseteq Seq(Steps) \ {<<>>}
    BY <1>1 DEF Sound
  <2> QED
    BY <2>1, <2>2, <2>3 DEF Homed
<1>3. AtHome(docs, HomeHere)
  <2>1. \A d \in Docs : docs[d] \in DOMAIN heap /\ docs[d] = <<d>>
    BY HereFacts DEF docs
  <2> QED
    BY <2>1 DEF AtHome, HomeHere
<1>4. WrappersOnPath => AllLead(wrapper, HomeHere)
  BY DEF WrappersOnPath, AllLead, Held, Links, PathOf, HomeHere
<1>5. \A a \in DOMAIN heap : Alive(Here, a)
  BY HereFacts DEF Alive
<1> QED
  BY <1>2, <1>3, <1>4, <1>5

\* Where wrappers lead while a call makes properties.
LEMMA WrappersLead ==
  ASSUME Consistent, WrappersOnPath, NEW s, Good(s), NEW new, Settled(HomeHere, s, new)
  PROVE  AllLead(wrapper, new)
<1> SUFFICES ASSUME NEW w \in Wrappers, wrapper[w] # Nowhere
             PROVE  LeadsTo(wrapper[w].links, new, PathOf(wrapper[w]))
  BY DEF AllLead
<1> DEFINE x == Here
           links == wrapper[w].links
           path == PathOf(wrapper[w])
<1>1. Good(x) /\ x.heap = heap
  BY HereFacts
<1>2. LinksOK(heap, links)
  BY DEF Consistent, ConsistentState, KeptOK
<1>3. Homed(heap, HomeHere) /\ LeadsTo(links, HomeHere, path)
  BY HereHomed DEF AllLead
<1>4. Homed(s.heap, new) /\ Extends(new, HomeHere)
  BY DEF Settled
<1> HIDE DEF x, links, path
<1>5. LeadsTo(links, new, path)
  BY <1>1, <1>2, <1>3, <1>4, StillLeads
<1> QED
  BY <1>5 DEF links, path

\* A call through a wrapper, which then is kept as another.
LEMMA CallOnPath ==
  ASSUME Consistent, WrappersOnPath, NEW s, CallDone(Here, s),
         NEW new, Settled(HomeHere, s, new),
         NEW w \in Held, NEW kept, KeptOK(s.heap, kept), LeadsTo(kept.links, new, PathOf(kept)),
         End(s, docs, [wrapper EXCEPT ![w] = kept])
  PROVE  WrappersOnPath'
<1> DEFINE newer == [wrapper EXCEPT ![w] = kept]
<1>1. wrapper = [v \in Wrappers |-> wrapper[v]] /\ w \in Wrappers
  BY DEF Consistent, ConsistentState, Held
<1>2. \A v \in Wrappers : newer[v] # Nowhere => KeptOK(s.heap, newer[v])
  BY <1>1, DocsStay
<1>3. docs \in [Docs -> DOMAIN s.heap] /\ Distinct(docs) /\ Sound(s.heap, Roots(docs))
  BY DocsStay
<1>4. AllLead(newer, new)
  <2>1. AllLead(wrapper, new)
    BY WrappersLead DEF CallDone
  <2> QED
    BY <1>1, <2>1 DEF AllLead
<1>5. Homed(s.heap, new)
  BY DEF Settled
<1>6. AtHome(docs, new)
  <2>1. \A d \in Docs : docs[d] \in DOMAIN HomeHere
    BY HereFacts DEF HomeHere
  <2> QED
    BY <2>1, HereHomed DEF Settled, Extends, AtHome
<1> HIDE DEF newer
<1>7. End(s, docs, newer)
  BY DEF newer
<1> QED
  BY <1>2, <1>3, <1>4, <1>5, <1>6, <1>7, EndOnPath

\* A call through a wrapper, which it resolves.
LEMMA EndCallOnPath ==
  ASSUME Consistent, WrappersOnPath, NEW s, CallDone(Here, s),
         NEW new, Settled(HomeHere, s, new),
         NEW w \in Held, s.links # <<>> => LeadsTo(s.links, new, PathOf(wrapper[w])),
         EndCall(s, w)
  PROVE  WrappersOnPath'
<1> DEFINE kept == ResolvedBy(s, w)
<1>1. KeptOK(s.heap, kept)
  BY EndCallConsistent
<1>2. LeadsTo(kept.links, new, PathOf(kept))
  <2>1. /\ kept.links = IF s.links = <<>> THEN Links(w) ELSE s.links
        /\ PathOf(kept) = PathOf(wrapper[w])
    BY DEF ResolvedBy, Kept, PathOf
  <2>2. LeadsTo(Links(w), new, PathOf(wrapper[w]))
    BY WrappersLead DEF AllLead, Held, Links, CallDone
  <2> QED
    BY <2>1, <2>2
<1>3. End(s, docs, [wrapper EXCEPT ![w] = kept])
  BY ResolvedKept
<1> HIDE DEF kept
<1> QED
  BY <1>1, <1>2, <1>3, CallOnPath

\* A document that takes the place of another.
LEMMA DocumentOnPath ==
  ASSUME Consistent, WrappersOnPath, NEW d \in Docs, NEW s, NewDocument(s),
         HomeIs(HomeHere, s, <<d>>), End(s, Replaced(d, s), wrapper)
  PROVE  WrappersOnPath'
<1> DEFINE newDocs == Replaced(d, s)
<1>1. PICK new : Homed(s.heap, new) /\ Extends(new, HomeHere) /\ new[s.prop] = <<d>>
  BY DEF HomeIs
<1>2. /\ newDocs \in [Docs -> DOMAIN s.heap] /\ Distinct(newDocs)
      /\ newDocs[d] = s.prop /\ \A e \in Docs \ {d} : newDocs[e] = docs[e]
      /\ Sound(s.heap, Roots(newDocs))
      /\ \A v \in Wrappers : wrapper[v] # Nowhere => KeptOK(s.heap, wrapper[v])
  BY DocumentReplaced
<1>3. AllLead(wrapper, new)
  BY <1>1, WrappersLead DEF NewDocument, Settled
<1>4. AtHome(newDocs, new)
  <2>1. \A e \in Docs : docs[e] \in DOMAIN HomeHere
    BY HereFacts DEF HomeHere
  <2> HIDE DEF newDocs
  <2> QED
    BY <1>1, <1>2, <2>1, HereHomed DEF Extends, AtHome
<1>5. End(s, newDocs, wrapper)
  OBVIOUS
<1> HIDE DEF newDocs
<1> QED
  BY <1>1, <1>2, <1>3, <1>4, <1>5, EndOnPath

\* Data::Create.
LEMMA CreateOnPath ==
  ASSUME Consistent, WrappersOnPath, NEW d \in Docs, CallCreate(d)
  PROVE  WrappersOnPath'
<1> DEFINE s == Create(Here, "Element", 0)
<1>1. NewDocument(s)
  BY CreateConsistent
<1>2. HomeIs(HomeHere, s, <<d>>)
  <2> DEFINE x == Here
  <2>1. Good(x) /\ Homed(x.heap, HomeHere)
    BY HereFacts, HereHomed
  <2>2. <<d>> \in Seq(Steps) \ {<<>>}
    BY DEF Steps
  <2> HIDE DEF x
  <2>3. HomeIs(HomeHere, Create(x, "Element", 0), <<d>>)
    BY <2>1, <2>2, CreateHomed
  <2> QED
    BY <2>3 DEF x
<1>3. End(s, Replaced(d, s), wrapper)
  BY DEF CallCreate, Replaced
<1> HIDE DEF s
<1> QED
  BY <1>1, <1>2, <1>3, DocumentOnPath

\* Data::Save and Data::Load.
LEMMA LoadOnPath ==
  ASSUME Consistent, WrappersOnPath, NEW d \in Docs, NEW src \in Docs, CallLoad(d, src)
  PROVE  WrappersOnPath'
<1> DEFINE s == Read(Here, docs[src])
<1>1. NewDocument(s)
  BY LoadConsistent
<1>2. HomeIs(HomeHere, s, <<d>>)
  <2> DEFINE x == Here
             p == docs[src]
             C == DOMAIN heap
  <2>1. Good(x) /\ Homed(x.heap, HomeHere) /\ Structured(x.heap, Steps, C) /\ p \in C
    BY HereFacts, HereHomed
  <2>2. <<d>> \in Seq(Steps) \ {<<>>}
    BY DEF Steps
  <2>3. TRUE \in BOOLEAN
    OBVIOUS
  <2> HIDE DEF x, p, C
  <2>4. HomeIs(HomeHere, NewTree(x, p, TRUE), <<d>>)
    BY <2>1, <2>2, <2>3, NewTreeHomed, Zenon
  <2> QED
    BY <2>4 DEF x, p, Read
<1>3. End(s, Replaced(d, s), wrapper)
  BY DEF CallLoad, Replaced
<1> HIDE DEF s
<1> QED
  BY <1>1, <1>2, <1>3, DocumentOnPath

-----------------------------------------------------------------------------
\* Taking a path one key longer is one operator[] more.
LEMMA GetUnfolds ==
  ASSUME NEW s, NEW p
  PROVE  /\ GetFromPath(s, p, <<>>) = Wrapper(p)
         /\ \A path \in Seq(Keys), key \in Keys :
              GetFromPath(s, p, Append(path, key)) = Index(s, GetFromPath(s, p, path), key)
<1>1. ASSUME NEW path, NEW n \in Nat, Len(path) = n
      PROVE  \E f : /\ GetFromPath(s, p, path) = f[n]
                    /\ \A i \in 0..n : f[i] = IF i = 0 THEN Wrapper(p) ELSE Index(s, f[i - 1], path[i])
  <2> DEFINE f == CHOOSE g : IsTaking(s, p, path, n, g)
  <2>1. IsTaking(s, p, path, n, f)
    BY TakingExists
  <2>2. GetFromPath(s, p, path) = f[n]
    BY <1>1 DEF GetFromPath, IsTaking
  <2> HIDE DEF f
  <2>3. \A i \in 0..n : f[i] = IF i = 0 THEN Wrapper(p) ELSE Index(s, f[i - 1], path[i])
    BY <2>1 DEF IsTaking
  <2> QED
    BY <2>2, <2>3
<1>2. GetFromPath(s, p, <<>>) = Wrapper(p)
  <2>1. Len(<<>>) = 0 /\ 0 \in 0..0
    OBVIOUS
  <2> QED
    BY <1>1, <2>1
<1>3. ASSUME NEW path \in Seq(Keys), NEW key \in Keys
      PROVE  GetFromPath(s, p, Append(path, key)) = Index(s, GetFromPath(s, p, path), key)
  <2> DEFINE n == Len(path)
             longer == Append(path, key)
  <2>1. n \in Nat /\ Len(longer) = n + 1 /\ longer[n + 1] = key /\ \A i \in 1..n : longer[i] = path[i]
    OBVIOUS
  <2> HIDE DEF n, longer
  <2>2. PICK f : /\ GetFromPath(s, p, path) = f[n]
                 /\ \A i \in 0..n : f[i] = IF i = 0 THEN Wrapper(p) ELSE Index(s, f[i - 1], path[i])
    BY <1>1, <2>1 DEF n
  <2>3. PICK g : /\ GetFromPath(s, p, longer) = g[n + 1]
                 /\ \A i \in 0..(n + 1) :
                      g[i] = IF i = 0 THEN Wrapper(p) ELSE Index(s, g[i - 1], longer[i])
    <3>1. n + 1 \in Nat
      BY <2>1
    <3> QED
      BY <1>1, <2>1, <3>1
  <2> DEFINE I == {i \in Nat : i \in 0..n => g[i] = f[i]}
  <2>4. 0 \in I
    BY <2>1, <2>2, <2>3
  <2>5. ASSUME NEW i \in Nat, i \in I
        PROVE  i + 1 \in I
    <3> SUFFICES ASSUME i + 1 \in 0..n
                 PROVE  g[i + 1] = f[i + 1]
      OBVIOUS
    <3>1. /\ i \in 0..n /\ i + 1 \in 0..(n + 1) /\ i + 1 \in 1..n /\ i + 1 # 0 /\ (i + 1) - 1 = i
      BY <2>1
    <3>2. g[i] = f[i]
      BY <2>5, <3>1
    <3>3. longer[i + 1] = path[i + 1]
      BY <2>1, <3>1
    <3>4. g[i + 1] = Index(s, g[i], longer[i + 1])
      BY <2>3, <3>1
    <3>5. f[i + 1] = Index(s, f[i], path[i + 1])
      BY <2>2, <3>1
    <3> QED
      BY <3>2, <3>3, <3>4, <3>5
  <2> HIDE DEF I
  <2>6. Nat \subseteq I
    BY <2>4, <2>5, NatSetInduction
  <2>7. g[n] = f[n]
    <3>1. n \in I /\ n \in 0..n
      BY <2>1, <2>6
    <3> QED
      BY <3>1 DEF I
  <2>8. g[n + 1] = Index(s, g[n], longer[n + 1])
    <3>1. n + 1 \in 0..(n + 1) /\ n + 1 # 0 /\ (n + 1) - 1 = n
      BY <2>1
    <3> QED
      BY <2>3, <3>1
  <2> QED
    BY <2>1, <2>2, <2>3, <2>7, <2>8 DEF longer
<1> QED
  BY <1>2, <1>3

\* Where a wrapper with one key more leads.
LEMMA AppendLeads ==
  ASSUME NEW h, NEW home, Homed(h, home), Null \notin DOMAIN h,
         NEW links, LinksOK(h, links), NEW at \in Seq(Steps), LeadsTo(links, home, at),
         NEW key \in Keys, NEW p \in DOMAIN h \cup {Null},
         p \in DOMAIN h => home[p] = Append(at, key)
  PROVE  LeadsTo(Append(links, Link(p, key)), home, Append(at, key))
<1> DEFINE N == Len(links)
           more == Append(links, Link(p, key))
<1>1. N \in Nat /\ N > 0 /\ DOMAIN links = 1..N
  BY LinksFacts
<1>2. /\ Len(more) = N + 1 /\ DOMAIN more = 1..(N + 1)
      /\ more[N + 1].prop = p /\ more[N + 1].propName = key
      /\ \A i \in 1..N : more[i] = links[i]
  <2>1. links \in Seq(LinkType(h))
    BY DEF LinksOK
  <2> DEFINE l == Link(p, key)
             X == LinkType(h) \cup {l}
  <2>2. l.prop = p /\ l.propName = key
    BY DEF Link
  <2> HIDE DEF l
  <2>3. links \in Seq(X) /\ l \in X
    BY <2>1
  <2> HIDE DEF X
  <2>4. /\ Len(Append(links, l)) = N + 1 /\ DOMAIN Append(links, l) = 1..(N + 1)
        /\ Append(links, l)[N + 1] = l
        /\ \A i \in 1..N : Append(links, l)[i] = links[i]
    BY <2>3
  <2> QED
    BY <2>2, <2>4 DEF l
<1> HIDE DEF more, N
<1> SUFFICES ASSUME NEW i \in 1..(N + 1), more[i].prop \in DOMAIN home,
                    \A j \in (i + 1)..(N + 1) : more[j].prop = Null
             PROVE  home[more[i].prop] \o KeysBetween(more, i, N + 1) = Append(at, key)
  BY <1>2 DEF LeadsTo, more
<1>3. DOMAIN home = DOMAIN h
  BY DEF Homed
<1>4. CASE i = N + 1
  <2>1. N + 1 \in Nat
    BY <1>1
  <2>2. KeysBetween(more, i, N + 1) = <<>> /\ \A a \in Seq(Steps) : a \o <<>> = a
    <3>1. \A k \in (N + 1 + 1)..(N + 1) : more[k].propName \in Keys
      BY <1>1
    <3> QED
      BY <1>4, <2>1, <3>1, KeysFacts
  <2>3. home[more[i].prop] = Append(at, key)
    BY <1>2, <1>3, <1>4
  <2>4. Append(at, key) \in Seq(Steps)
    BY OneKey
  <2> QED
    BY <2>2, <2>3, <2>4
<1>5. CASE i # N + 1
  <2>1. i \in 1..N /\ i \in Nat /\ i <= N /\ N + 1 \in (i + 1)..(N + 1)
    BY <1>1, <1>5
  <2>2. links[i].prop \in DOMAIN home /\ more[i].prop = links[i].prop
    BY <1>2, <2>1
  <2>3. \A j \in (i + 1)..N : links[j].prop = Null
    <3> TAKE j \in (i + 1)..N
    <3>1. j \in (i + 1)..(N + 1) /\ j \in 1..N
      BY <1>1, <2>1
    <3> QED
      BY <1>2, <3>1
  <2>4. home[links[i].prop] \o KeysBetween(links, i, N) = at
    BY <1>1, <2>1, <2>2, <2>3 DEF LeadsTo, N
  <2>5. \A k \in (i + 1)..(N + 1) : more[k].propName \in Keys
    <3> TAKE k \in (i + 1)..(N + 1)
    <3>1. CASE k = N + 1
      BY <1>2, <3>1
    <3>2. CASE k # N + 1
      <4>1. k \in (i + 1)..N /\ k \in 2..N /\ k \in 1..N
        BY <1>1, <2>1, <3>2
      <4>2. links[k].propName # NoName
        BY <2>3, <4>1 DEF LinksOK, N
      <4>3. links[k] \in LinkType(h)
        BY <4>1, LinksFacts DEF N
      <4> QED
        BY <1>2, <4>1, <4>2, <4>3 DEF LinkType, Keys
    <3> QED
      BY <3>1, <3>2
  <2>6. home[links[i].prop] \in Seq(Steps)
    BY <1>3, <2>2 DEF Homed
  <2>7. /\ \A k \in (i + 1)..N : more[k].propName \in Keys
        /\ more[N + 1].propName \in Keys
    <3>1. (i + 1)..N \subseteq (i + 1)..(N + 1)
      BY <1>1, <2>1
    <3> QED
      BY <1>2, <2>5, <3>1
  <2>8. \A a \in Seq(Steps) : a \o KeysBetween(more, i, N + 1)
                                = Append(a \o KeysBetween(more, i, N), more[N + 1].propName)
    BY <1>1, <2>1, <2>7, KeysFacts
  <2>9. KeysBetween(more, i, N) = KeysBetween(links, i, N)
    <3>1. \A k \in 1..(N - i) : more[i + k].propName = links[i + k].propName
      <4> TAKE k \in 1..(N - i)
      <4>1. i + k \in 1..N
        BY <1>1, <2>1
      <4> QED
        BY <1>2, <4>1
    <3> QED
      BY <3>1 DEF KeysBetween
  <2> QED
    BY <1>2, <2>2, <2>4, <2>6, <2>8, <2>9
<1> QED
  BY <1>4, <1>5

\* What operator[] makes leads one key further.
LEMMA IndexLeads ==
  ASSUME NEW s, Good(s), NEW home, Homed(s.heap, home),
         NEW links, FoundOK(s.heap, links), NEW at \in Seq(Steps), LeadsTo(links, home, at),
         NEW key \in Keys
  PROVE  LeadsTo(Index(s, links, key), home, Append(at, key))
<1> DEFINE p == Resolved(links)
<1>1. /\ Len(links) \in Nat /\ Len(links) > 0 /\ DOMAIN links = 1..Len(links)
      /\ p = links[Len(links)].prop /\ p \in DOMAIN s.heap \cup {Null, Gone}
  BY LinksFacts DEF FoundOK
<1>2. p \in DOMAIN s.heap \cup {Null}
  BY <1>1 DEF FoundOK
<1>3. \A q \in DOMAIN s.heap : q \notin {Null, Gone}
  BY Pointer DEF Good, Sound
<1> HIDE DEF p
<1>4. ASSUME NEW q \in DOMAIN s.heap \cup {Null}, q \in DOMAIN s.heap => home[q] = Append(at, key)
      PROVE  LeadsTo(Append(links, Link(q, key)), home, Append(at, key))
  BY <1>3, <1>4, AppendLeads DEF FoundOK
<1>5. CASE p = Null
  <2>1. Index(s, links, key) = Append(links, Link(Null, key))
    BY <1>5 DEF Index, p
  <2> QED
    BY <1>3, <1>4, <2>1
<1>6. CASE p # Null /\ IsType(s, p, "Element")
  <2> DEFINE q == Child(s, p, key)
  <2>1. Index(s, links, key) = Append(links, Link(q, key))
    BY <1>6 DEF Index, p
  <2>2. p \in DOMAIN s.heap
    BY <1>2, <1>6
  <2>3. home[p] = at
    <3> DEFINE n == Len(links)
    <3>1. n \in DOMAIN links /\ links[n].prop \in DOMAIN home /\ (n + 1)..n = {}
      BY <1>1, <2>2 DEF Homed
    <3>2. home[links[n].prop] \o KeysBetween(links, n, n) = at
      BY <3>1 DEF LeadsTo
    <3>3. n \in Nat /\ \A k \in (n + 1)..n : links[k].propName \in Keys
      BY <1>1, <3>1
    <3> HIDE DEF n
    <3>4. KeysBetween(links, n, n) = <<>> /\ \A a \in Seq(Steps) : a \o <<>> = a
      BY <3>3, KeysFacts
    <3>5. home[p] \in Seq(Steps)
      BY <2>2 DEF Homed
    <3> QED
      BY <1>1, <3>2, <3>4, <3>5 DEF n
  <2>4. q # Null => q \in DOMAIN s.heap /\ home[q] = Append(at, key)
    <3>1. q # Null => key \in DOMAIN s.heap[p].children /\ q = s.heap[p].children[key] /\ q \in DOMAIN s.heap
      BY <2>2, ChildFacts
    <3> HIDE DEF q
    <3> QED
      BY <2>2, <2>3, <3>1 DEF Homed
  <2> HIDE DEF q
  <2> QED
    BY <1>3, <1>4, <2>1, <2>4
<1>7. CASE p # Null /\ ~IsType(s, p, "Element")
  <2>1. Index(s, links, key) = Wrapper(Null)
    BY <1>7 DEF Index, p
  <2>2. Wrapper(Null)[1].prop = Null /\ DOMAIN Wrapper(Null) = 1..1
    BY DEF Wrapper, Link
  <2>3. \A i \in DOMAIN Wrapper(Null) : Wrapper(Null)[i].prop \notin DOMAIN home
    BY <1>3, <2>2 DEF Homed
  <2> QED
    BY <2>1, <2>3 DEF LeadsTo
<1> QED
  BY <1>5, <1>6, <1>7

\* What follows from the empty path, and for a path that is one key longer, holds of
\* all paths.
LEMMA PathInduction ==
  ASSUME NEW X, NEW G, <<>> \in G, \A path \in Seq(X), key \in X : path \in G => Append(path, key) \in G
  PROVE  Seq(X) \subseteq G
<1> DEFINE I == {n \in Nat : \A path \in Seq(X) : Len(path) = n => path \in G}
<1>1. 0 \in I
  <2>1. \A path \in Seq(X) : Len(path) = 0 => path = <<>>
    OBVIOUS
  <2> QED
    BY <2>1
<1>2. ASSUME NEW n \in Nat, n \in I
      PROVE  n + 1 \in I
  <2> SUFFICES ASSUME NEW path \in Seq(X), Len(path) = n + 1
               PROVE  path \in G
    OBVIOUS
  <2>1. path # <<>>
    OBVIOUS
  <2>2. /\ Front(path) \in Seq(X) /\ Last(path) \in X
        /\ Append(Front(path), Last(path)) = path
        /\ Len(Front(path)) = Len(path) - 1
    BY <2>1, AppendToFront
  <2>3. Len(Front(path)) = n
    BY <2>2
  <2>4. Front(path) \in G
    BY <1>2, <2>2, <2>3
  <2> QED
    BY <2>2, <2>4
<1> HIDE DEF I
<1>3. Nat \subseteq I
  BY <1>1, <1>2, NatSetInduction
<1>4. \A path \in Seq(X) : Len(path) \in Nat
  OBVIOUS
<1> QED
  BY <1>3, <1>4 DEF I

\* A wrapper that is taken leads along its path.
LEMMA GetLeads ==
  ASSUME NEW s, Good(s), NEW home, Homed(s.heap, home), NEW p \in DOMAIN s.heap
  PROVE  \A path \in Seq(Keys) : LeadsTo(GetFromPath(s, p, path), home, home[p] \o path)
<1> DEFINE G == {path \in Seq(Keys) : LeadsTo(GetFromPath(s, p, path), home, home[p] \o path)}
<1>1. home[p] \in Seq(Steps) /\ DOMAIN home = DOMAIN s.heap
  BY DEF Homed
<1>2. <<>> \in G
  <2>1. GetFromPath(s, p, <<>>) = Wrapper(p)
    BY GetUnfolds
  <2>2. /\ DOMAIN Wrapper(p) = 1..1 /\ Len(Wrapper(p)) = 1 /\ Wrapper(p)[1].prop = p
    BY DEF Wrapper, Link
  <2>3. KeysBetween(Wrapper(p), 1, 1) = <<>>
    <3>1. 1 \in Nat /\ \A k \in (1 + 1)..1 : Wrapper(p)[k].propName \in Keys
      OBVIOUS
    <3> QED
      BY <3>1, KeysFacts
  <2>4. LeadsTo(Wrapper(p), home, home[p] \o <<>>)
    <3> DEFINE l == Wrapper(p)
    <3>1. DOMAIN l = 1..1 /\ Len(l) = 1 /\ l[1].prop = p /\ KeysBetween(l, 1, 1) = <<>>
      BY <2>2, <2>3
    <3> HIDE DEF l
    <3>2. \A i \in DOMAIN l : i = 1
      BY <3>1
    <3>3. LeadsTo(l, home, home[p] \o <<>>)
      BY <3>1, <3>2 DEF LeadsTo
    <3> QED
      BY <3>3 DEF l
  <2>5. <<>> \in Seq(Keys)
    OBVIOUS
  <2> QED
    BY <2>1, <2>4, <2>5
<1>3. ASSUME NEW path \in Seq(Keys), NEW key \in Keys, path \in G
      PROVE  Append(path, key) \in G
  <2> DEFINE links == GetFromPath(s, p, path)
             at == home[p] \o path
  <2>1. LeadsTo(links, home, at) /\ FoundOK(s.heap, links)
    BY <1>3, GetFromPathFacts
  <2>2. path \in Seq(Steps) /\ key \in Steps /\ home[p] # <<>>
    <3>1. Keys \subseteq Steps
      BY DEF Steps
    <3>2. Seq(Keys) \subseteq Seq(Steps)
      BY <3>1, SeqMonotonic
    <3> QED
      BY <3>1, <3>2 DEF Homed
  <2>3. at \in Seq(Steps) /\ home[p] \o Append(path, key) = Append(at, key)
    <3> DEFINE X == Steps
               a == home[p]
    <3>1. a \in Seq(X) /\ a # <<>> /\ path \in Seq(X) /\ key \in X
      BY <1>1, <2>2
    <3> HIDE DEF X, a
    <3>2. a \o path \in Seq(X) \ {<<>>} /\ \A k \in X : a \o Append(path, k) = Append(a \o path, k)
      BY <3>1, BehindPlace
    <3>3. a \o path \in Seq(X) /\ a \o Append(path, key) = Append(a \o path, key)
      BY <3>1, <3>2
    <3> QED
      BY <3>3 DEF X, a
  <2>4. GetFromPath(s, p, Append(path, key)) = Index(s, links, key)
    BY GetUnfolds
  <2>5. Append(path, key) \in Seq(Keys)
    OBVIOUS
  <2> HIDE DEF links, at
  <2>6. LeadsTo(Index(s, links, key), home, Append(at, key))
    BY <2>1, <2>3, IndexLeads
  <2> QED
    BY <2>3, <2>4, <2>5, <2>6
<1> HIDE DEF G
<1>4. Seq(Keys) \subseteq G
  BY <1>2, <1>3, PathInduction
<1> QED
  BY <1>4 DEF G

-----------------------------------------------------------------------------
\* Paths and names, after the step of a document, are places.
LEMMA PathSteps ==
  ASSUME NEW d \in Docs, NEW path \in Seq(Keys), NEW more \in Seq(Keys)
  PROVE  /\ docs[d] \in Seq(Steps) /\ path \in Seq(Steps)
         /\ docs[d] \o path \in Seq(Steps) \ {<<>>}
         /\ path \o more \in Seq(Keys)
         /\ docs[d] \o (path \o more) = (docs[d] \o path) \o more
<1>1. Keys \subseteq Steps
  BY DEF Steps
<1>2. Seq(Keys) \subseteq Seq(Steps)
  BY <1>1, SeqMonotonic
<1>3. docs[d] \in Seq(Steps) /\ docs[d] # <<>>
  BY DEF docs, Steps
<1>4. \A X : \A a \in Seq(X), b \in Seq(X), c \in Seq(X) : a \o (b \o c) = (a \o b) \o c
  OBVIOUS
<1>5. \A X : \A a \in Seq(X), b \in Seq(X) : a \o b \in Seq(X)
  OBVIOUS
<1>6. \A X : \A a \in Seq(X), b \in Seq(X) : a # <<>> => a \o b # <<>>
  OBVIOUS
<1> DEFINE Y == Steps
           Z == Keys
           a == docs[d]
<1>7. a \in Seq(Y) /\ a # <<>> /\ path \in Seq(Y) /\ more \in Seq(Y) /\ path \in Seq(Z) /\ more \in Seq(Z)
  BY <1>2, <1>3
<1> HIDE DEF Y, Z, a
<1>8. /\ a \o path \in Seq(Y) /\ a \o path # <<>> /\ path \o more \in Seq(Z)
      /\ a \o (path \o more) = (a \o path) \o more
  BY <1>4, <1>5, <1>6, <1>7
<1> QED
  BY <1>7, <1>8 DEF Y, Z, a

\* The names of what is added.
LEMMA TargetKeys ==
  ASSUME NEW name \in Seq(STRING), name # NoName, NEW pathToElements
  PROVE  Target(name, pathToElements) \in Seq(Keys)
<1>1. /\ name \in Keys
      /\ \E first \in Keys : first = SubSeq(name, 1, 1)
      /\ Len(name) > 1 => \E rest \in Keys : rest = Tail(name)
  BY NameParts
<1>2. \A k, l \in Keys : <<k>> \in Seq(Keys) /\ <<k, l>> \in Seq(Keys)
  OBVIOUS
<1> QED
  BY <1>1, <1>2 DEF Target, NoName

\* Data::operator[] and GetFromPath.
LEMMA TakeOnPath ==
  ASSUME Consistent, WrappersOnPath, NEW w \in Wrappers, NEW d \in Docs, NEW path \in Paths,
         CallTake(w, d, path)
  PROVE  WrappersOnPath'
<1> DEFINE links == Find(d, path)
<1>1. heap' = heap /\ wrapper' = [wrapper EXCEPT ![w] = Kept(d, path, links)]
  BY DEF CallTake
<1>2. wrapper = [v \in Wrappers |-> wrapper[v]]
  BY DEF Consistent, ConsistentState
<1>3. LeadsTo(links, HomeHere, docs[d] \o path)
  <2> DEFINE x == Here
             p == docs[d]
  <2>1. Good(x) /\ Homed(x.heap, HomeHere) /\ p \in DOMAIN x.heap
    BY HereFacts, HereHomed
  <2>2. path \in Seq(Keys) /\ HomeHere[p] = p
    BY HereFacts, PathsAssumption DEF HomeHere
  <2> HIDE DEF x, p
  <2>3. LeadsTo(GetFromPath(x, p, path), HomeHere, HomeHere[p] \o path)
    BY <2>1, <2>2, GetLeads
  <2> QED
    BY <2>2, <2>3 DEF x, p, Find
<1>4. AllLead(wrapper, HomeHere)
  BY HereHomed
<1> HIDE DEF links
<1>5. HomeHere' = HomeHere
  BY <1>1 DEF HomeHere
<1> SUFFICES ASSUME NEW v \in Wrappers, wrapper'[v] # Nowhere
             PROVE  LeadsTo(wrapper'[v].links, HomeHere, docs[wrapper'[v].doc] \o wrapper'[v].path)
  BY <1>1 DEF WrappersOnPath, Held, Links, docs, HomeHere
<1>6. CASE v = w
  <2>1. wrapper'[v] = Kept(d, path, links)
    BY <1>1, <1>2, <1>6
  <2> QED
    BY <1>3, <2>1 DEF Kept
<1>7. CASE v # w
  <2>1. wrapper'[v] = wrapper[v]
    BY <1>1, <1>2, <1>7
  <2> QED
    BY <1>4, <2>1 DEF AllLead, PathOf
<1> QED
  BY <1>6, <1>7

\* What is known of a wrapper that a call is made through.
LEMMA HeldLeads ==
  ASSUME Consistent, WrappersOnPath, NEW w \in Held
  PROVE  /\ Good(Here) /\ Here.outcome = "ok" /\ Homed(Here.heap, HomeHere)
         /\ LinksOK(Here.heap, Links(w)) /\ Usable(Links(w))
         /\ LeadsTo(Links(w), HomeHere, PathOf(wrapper[w]))
<1>1. LeadsTo(Links(w), HomeHere, PathOf(wrapper[w]))
  BY HereHomed DEF AllLead, Held, Links
<1> QED
  BY <1>1, HereFacts, HereHomed, HeldFacts

\* What PropertyWrapper::Add and AddArray do to the wrapper, and where they add.
LEMMA AddLeads ==
  ASSUME Careful \subseteq ClientRules, Consistent, WrappersOnPath,
         NEW w \in Held, NEW name \in Names, NEW leaf \in Leaves,
         NEW pathToElements \in BOOLEAN, Addable(w, name, leaf, pathToElements)
  PROVE  LET s == WrapperAdd(Here, Links(w), name, leaf, pathToElements)
             path == PathOf(wrapper[w])
         IN  /\ Ended(HomeHere, s, path)
             /\ s.outcome = "ok" =>
                  AddedAt(Here, HomeHere, s, path \o Target(name, pathToElements), leaf.type)
<1> DEFINE x == Here
           links == Links(w)
           path == PathOf(wrapper[w])
<1>1. /\ Good(x) /\ x.outcome = "ok" /\ Homed(x.heap, HomeHere)
      /\ LinksOK(x.heap, links) /\ Usable(links)
      /\ LeadsTo(links, HomeHere, path)
  BY HeldLeads
<1>2. /\ name \in Seq(STRING) /\ name # NoName /\ ~OfNothing(links)
      /\ LET t == InitializeProperty(x, links, FALSE)
             first == Child(t, t.prop, SubSeq(name, 1, 1))
         IN  pathToElements /\ IsType(t, t.prop, "Element") =>
               first = Null \/ IsType(t, first, "Element")
  BY AddRules
<1> HIDE DEF x, links, path
<1>3. LET u == WrapperAdd(x, links, name, leaf, pathToElements)
      IN  /\ Ended(HomeHere, u, path)
          /\ u.outcome = "ok" =>
               AddedAt(x, HomeHere, u, path \o Target(name, pathToElements), leaf.type)
  BY <1>1, <1>2, WrapperAddPlaced
<1> QED
  BY <1>3 DEF x, links, path

\* PropertyWrapper::Add and AddArray.
LEMMA AddOnPath ==
  ASSUME Careful \subseteq ClientRules, Consistent, WrappersOnPath,
         NEW w \in Held, NEW name \in Names, NEW leaf \in Leaves,
         NEW pathToElements \in BOOLEAN, CallAdd(w, name, leaf, pathToElements)
  PROVE  WrappersOnPath'
<1> DEFINE s == WrapperAdd(Here, Links(w), name, leaf, pathToElements)
           path == PathOf(wrapper[w])
           more == Target(name, pathToElements)
<1>1. Addable(w, name, leaf, pathToElements)
  BY DEF CallAdd
<1>2. CallDone(Here, s) /\ (s.outcome = "ok" => LinksOK(s.heap, Returned(s)))
  BY AddConsistent
<1>3. /\ Ended(HomeHere, s, path)
      /\ s.outcome = "ok" => AddedAt(Here, HomeHere, s, path \o more, leaf.type)
  BY <1>1, AddLeads
<1>4. more \in Seq(Keys)
  BY <1>1, AddRules, TargetKeys
<1>5. \/ EndCall(s, w)
      \/ \E at \in Paths :
           /\ at = Place(w, name, pathToElements) /\ s.outcome = "ok"
           /\ End(s, docs, [wrapper EXCEPT ![w] = Kept(wrapper[w].doc, at, Returned(s))])
  BY DEF CallAdd
<1> HIDE DEF s, path, more
<1>6. ASSUME EndCall(s, w)
      PROVE  WrappersOnPath'
  <2>1. PICK new : Settled(HomeHere, s, new) /\ LeadsTo(s.links, new, path)
    BY <1>3 DEF Ended
  <2> QED
    BY <1>2, <1>6, <2>1, EndCallOnPath DEF path
<1>7. ASSUME NEW at \in Paths, at = Place(w, name, pathToElements), s.outcome = "ok",
             End(s, docs, [wrapper EXCEPT ![w] = Kept(wrapper[w].doc, at, Returned(s))])
      PROVE  WrappersOnPath'
  <2> DEFINE kept == Kept(wrapper[w].doc, at, Returned(s))
  <2>1. KeptOK(s.heap, kept)
    BY <1>2, <1>7, HeldFacts DEF KeptOK, Kept
  <2>2. AddedAt(Here, HomeHere, s, path \o more, leaf.type)
    BY <1>3, <1>7
  <2>3. PICK new : Settled(HomeHere, s, new) /\ LeadsTo(Returned(s), new, path \o more)
    BY <2>2 DEF AddedAt
  <2>4. PathOf(kept) = path \o more
    <3>1. PathOf(kept) = docs[wrapper[w].doc] \o (wrapper[w].path \o more)
      BY <1>7 DEF PathOf, Kept, Place, more
    <3>2. wrapper[w].doc \in Docs /\ wrapper[w].path \in Seq(Keys)
      BY HeldFacts, PathsAssumption
    <3>3. docs[wrapper[w].doc] \o (wrapper[w].path \o more)
            = (docs[wrapper[w].doc] \o wrapper[w].path) \o more
      <4> DEFINE a == docs[wrapper[w].doc]
                 b == wrapper[w].path
                 X == Steps
      <4>1. a \in Seq(X) /\ b \in Seq(X) /\ more \in Seq(X)
        BY <1>4, <3>2, PathSteps
      <4> HIDE DEF a, b, X
      <4>2. a \o (b \o more) = (a \o b) \o more
        BY <4>1
      <4> QED
        BY <4>2 DEF a, b
    <3>4. path = docs[wrapper[w].doc] \o wrapper[w].path
      BY DEF path, PathOf
    <3> QED
      BY <3>1, <3>3, <3>4
  <2>5. LeadsTo(kept.links, new, PathOf(kept))
    BY <2>3, <2>4 DEF Kept
  <2> HIDE DEF kept
  <2>6. End(s, docs, [wrapper EXCEPT ![w] = kept])
    BY <1>7 DEF kept
  <2> QED
    BY <1>2, <2>1, <2>3, <2>5, <2>6, CallOnPath
<1> QED
  BY <1>5, <1>6, <1>7

\* Assignment of a scalar.
LEMMA AssignOnPath ==
  ASSUME Careful \subseteq ClientRules, Consistent, WrappersOnPath,
         NEW w \in Held, NEW leaf \in Leaves, NEW order \in Orders, CallAssign(w, leaf, order)
  PROVE  WrappersOnPath'
<1> DEFINE s == Assign(Here, Links(w), leaf, order)
           path == PathOf(wrapper[w])
<1>1. /\ CallDone(Here, s)
      /\ Resolved(Links(w)) # Null =>
           heap[Resolved(Links(w))].type \in {"Element", "Array", leaf.type}
  BY AssignConsistent
<1>2. Ended(HomeHere, s, path)
  <2> DEFINE x == Here
             links == Links(w)
  <2>1. /\ Good(x) /\ Homed(x.heap, HomeHere) /\ LinksOK(x.heap, links) /\ Usable(links)
        /\ LeadsTo(links, HomeHere, path) /\ order \in Seq(Keys)
        /\ Resolved(links) # Null => x.heap[Resolved(links)].type \in {"Element", "Array", leaf.type}
    BY <1>1, HeldLeads, HereFacts, OrdersAssumption
  <2> HIDE DEF x, links, path
  <2>2. Ended(HomeHere, Assign(x, links, leaf, order), path)
    BY <2>1, AssignPlaced
  <2> QED
    BY <2>2 DEF x, links
<1>3. EndCall(s, w)
  BY DEF CallAssign
<1> HIDE DEF s, path
<1>4. PICK new : Settled(HomeHere, s, new) /\ LeadsTo(s.links, new, path)
  BY <1>2 DEF Ended
<1> QED
  BY <1>1, <1>3, <1>4, EndCallOnPath DEF path

\* PropertyWrapper::Merge.
LEMMA MergeOnPath ==
  ASSUME Careful \subseteq ClientRules, Consistent, WrappersOnPath,
         NEW w \in Held, NEW d \in Docs, NEW path \in Paths,
         NEW overwrite, NEW deep \in BOOLEAN, NEW order \in Orders,
         CallMerge(w, d, path, overwrite, deep, order)
  PROVE  WrappersOnPath'
<1> DEFINE p == Resolved(Links(w))
           q == Resolved(Find(d, path))
           s == WrapperMerge(Here, p, q, overwrite, deep, order)
<1>1. deep = TRUE /\ Parted(p, q)
  BY MergeRules
<1>2. PICK T, S : SetOut(Here, T, S) /\ p \in T /\ q \in S
  BY <1>1 DEF Parted
<1>3. EndCall(s, w)
  BY DEF CallMerge
<1>4. order \in Seq(Keys)
  BY OrdersAssumption
<1>5. Good(s) /\ Grown(Here, s)
  BY MergeConsistent
<1> HIDE DEF p, q, s
<1>6. Rehomed(HomeHere, s)
  <2> DEFINE x == Here
  <2>1. Good(x) /\ Homed(x.heap, HomeHere) /\ SetOut(x, T, S) /\ p \in DOMAIN x.heap
    BY <1>1, <1>2, HeldLeads, HereFacts DEF Parted
  <2> HIDE DEF x
  <2>2. s = WrapperMerge(x, p, q, overwrite, TRUE, order)
    BY <1>1 DEF s, x
  <2>3. CASE IsType(x, p, "Element") /\ IsType(x, q, "Element")
    <3>1. x.heap[p].type = "Element" /\ x.heap[q].type = "Element"
      BY <2>3 DEF IsType
    <3>2. Rehomed(HomeHere, Merge(x, p, q, overwrite, TRUE, order))
      BY <1>2, <1>4, <2>1, <3>1, MergeHomed
    <3>3. s = Merge(x, p, q, overwrite, TRUE, order)
      BY <2>2, <2>3 DEF WrapperMerge
    <3> QED
      BY <3>2, <3>3
  <2>4. CASE /\ ~(IsType(x, p, "Element") /\ IsType(x, q, "Element"))
             /\ IsType(x, p, "Array") /\ IsType(x, q, "Array")
    <3>1. s = MergeArray(x, p, q, overwrite)
      BY <2>2, <2>4 DEF WrapperMerge
    <3> QED
      BY <2>1, <3>1, ArrayHomed
  <2>5. CASE /\ ~(IsType(x, p, "Element") /\ IsType(x, q, "Element"))
             /\ ~(IsType(x, p, "Array") /\ IsType(x, q, "Array"))
    <3>1. s = x
      BY <2>2, <2>5 DEF WrapperMerge
    <3>2. Settled(HomeHere, s, HomeHere)
      BY <2>1, <3>1 DEF Settled, Extends
    <3> QED
      BY <3>2 DEF Rehomed
  <2> QED
    BY <2>3, <2>4, <2>5
<1>7. PICK new : Settled(HomeHere, s, new)
  BY <1>6 DEF Rehomed
<1>8. s.links = <<>>
  BY <1>5, HereFacts DEF Grown
<1> QED
  BY <1>3, <1>5, <1>7, <1>8, GrownDone, EndCallOnPath

\* Every call keeps kept wrappers on their paths.
LEMMA NextOnPath ==
  ASSUME Careful \subseteq ClientRules, Consistent, WrappersOnPath, [Next]_vars
  PROVE  WrappersOnPath'
<1>1. ASSUME NEW d \in Docs, CallCreate(d)
      PROVE  WrappersOnPath'
  BY <1>1, CreateOnPath
<1>2. ASSUME NEW d \in Docs, NEW src \in Docs, CallLoad(d, src)
      PROVE  WrappersOnPath'
  BY <1>2, LoadOnPath
<1>3. ASSUME NEW w \in Wrappers, NEW d \in Docs, NEW path \in Paths, CallTake(w, d, path)
      PROVE  WrappersOnPath'
  BY <1>3, TakeOnPath
<1>4. ASSUME NEW w \in Held, NEW name \in Names, NEW leaf \in Leaves,
             NEW pathToElements \in BOOLEAN, CallAdd(w, name, leaf, pathToElements)
      PROVE  WrappersOnPath'
  BY <1>4, AddOnPath
<1>5. ASSUME NEW w \in Held, NEW leaf \in Leaves, NEW order \in Orders, CallAssign(w, leaf, order)
      PROVE  WrappersOnPath'
  BY <1>5, AssignOnPath
<1>6. ASSUME NEW w \in Held, NEW d \in Docs, NEW path \in Paths
      PROVE  /\ \A order : ~CallAssignElement(w, d, path, order)
             /\ ~CallAssignProperty(w, d, path)
  BY DEF CallAssignElement, CallAssignProperty, Rule, Careful, AllRules
<1>7. ASSUME NEW w \in Held, NEW d \in Docs, NEW path \in Paths, NEW overwrite \in BOOLEAN,
             NEW deep \in BOOLEAN, NEW order \in Orders,
             CallMerge(w, d, path, overwrite, deep, order)
      PROVE  WrappersOnPath'
  BY <1>7, MergeOnPath
<1>8. CASE UNCHANGED vars
  BY <1>8 DEF vars, WrappersOnPath, Held, Links, docs
<1> QED
  BY <1>1, <1>2, <1>3, <1>4, <1>5, <1>6, <1>7, <1>8 DEF Next

\* A kept wrapper stays on the way it was taken for: from the last property it is
\* resolved to, the keys it has yet to go lead to its path, whatever the calls
\* since it was taken have added, replaced, merged or loaded.
THEOREM AlwaysOnPath ==
  ASSUME Careful \subseteq ClientRules
  PROVE  Spec => []WrappersOnPath
<1>1. Init => Consistent /\ WrappersOnPath
  BY InitConsistent DEF Init, WrappersOnPath, Held
<1>2. Consistent /\ WrappersOnPath /\ [Next]_vars => Consistent' /\ WrappersOnPath'
  BY NextConsistent, NextOnPath
<1> QED
  BY <1>1, <1>2, PTL DEF Spec

-----------------------------------------------------------------------------
\* What operator[] resolves to.
LEMMA ResolvedIndex ==
  ASSUME NEW s, Good(s), NEW links, FoundOK(s.heap, links), NEW key \in Keys
  PROVE  Resolved(Index(s, links, key))
           = IF IsType(s, Resolved(links), "Element") THEN Child(s, Resolved(links), key) ELSE Null
<1> DEFINE p == Resolved(links)
<1>1. LinksOK(s.heap, links)
  BY DEF FoundOK
<1>2. p \in DOMAIN s.heap \cup {Null, Gone}
  BY <1>1, LinksFacts
<1>3. Null \notin DOMAIN s.heap
  BY Pointer DEF Good, Sound
<1>4. CASE p = Null
  <2>1. Index(s, links, key) = Append(links, Link(Null, key)) /\ ~IsType(s, p, "Element")
    BY <1>4 DEF Index, IsType
  <2>2. Resolved(Append(links, Link(Null, key))) = Null
    BY <1>1, <1>3, <1>4, AppendLinks
  <2> QED
    BY <2>1, <2>2
<1>5. CASE p # Null /\ IsType(s, p, "Element")
  <2> DEFINE q == Child(s, p, key)
  <2>1. Index(s, links, key) = Append(links, Link(q, key))
    BY <1>5 DEF Index
  <2>2. p \in DOMAIN s.heap /\ s.heap[p].type = "Element"
    BY <1>2, <1>5 DEF IsType
  <2>3. q \in DOMAIN s.heap \cup {Null, Gone}
    BY <2>2, ChildFacts
  <2> HIDE DEF q
  <2>4. Resolved(Append(links, Link(q, key))) = q
    BY <1>1, <2>2, <2>3, AppendLinks
  <2> QED
    BY <1>5, <2>1, <2>4 DEF q
<1>6. CASE p # Null /\ ~IsType(s, p, "Element")
  <2>1. Index(s, links, key) = Wrapper(Null)
    BY <1>6 DEF Index
  <2>2. Resolved(Wrapper(Null)) = Null
    BY WrapperOf
  <2> QED
    BY <1>6, <2>1, <2>2
<1> QED
  BY <1>4, <1>5, <1>6

\* A key behind a path is more than one step.
LEMMA BehindFirst ==
  ASSUME NEW X, NEW one \in Seq(X), Len(one) = 1, NEW at \in Seq(X), at # <<>>, NEW key \in X,
         Append(at, key) = one
  PROVE  FALSE
<1>1. Len(Append(at, key)) = Len(at) + 1 /\ Len(at) \in Nat /\ Len(at) # 0
  OBVIOUS
<1> QED
  BY <1>1

\* A property is found by the path that leads to its home.
FoundAtHome(s, home, a) ==
  \A d \in Docs, path \in Seq(Keys) :
    home[a] = docs[d] \o path => Resolved(GetFromPath(s, docs[d], path)) = a

\* What is alive is.
LEMMA FoundAlive ==
  ASSUME NEW s, Good(s), s.roots = Roots(docs), NEW home, Homed(s.heap, home), AtHome(docs, home)
  PROVE  \A a : Alive(s, a) => FoundAtHome(s, home, a)
<1> DEFINE C == {a \in DOMAIN s.heap : FoundAtHome(s, home, a)}
<1>1. \A d \in Docs : docs[d] \in DOMAIN s.heap /\ docs[d] = <<d>> /\ home[docs[d]] = <<d>>
  <2>1. \A d \in Docs : docs[d] \in s.roots
    BY DEF Roots
  <2> QED
    BY <2>1, AliveFacts DEF AtHome, docs
<1>2. s.roots \subseteq C
  <2> SUFFICES ASSUME NEW e \in Docs
               PROVE  docs[e] \in C
    BY DEF Roots
  <2> SUFFICES ASSUME NEW d \in Docs, NEW path \in Seq(Keys), home[docs[e]] = docs[d] \o path
               PROVE  Resolved(GetFromPath(s, docs[d], path)) = docs[e]
    BY <1>1 DEF FoundAtHome
  <2>1. <<e>> = <<d>> \o path
    BY <1>1
  <2>2. d = e /\ path = <<>>
    <3> DEFINE both == <<d>> \o path
    <3>1. Len(both) = 1 + Len(path) /\ both[1] = d
      OBVIOUS
    <3>2. Len(<<e>>) = 1 /\ <<e>>[1] = e
      OBVIOUS
    <3>3. d = e /\ Len(path) = 0
      BY <2>1, <3>1, <3>2
    <3> QED
      BY <3>3
  <2>3. GetFromPath(s, docs[d], <<>>) = Wrapper(docs[d])
    BY GetUnfolds
  <2>4. Resolved(Wrapper(docs[d])) = docs[d]
    BY <1>1, WrapperOf
  <2> QED
    BY <2>2, <2>3, <2>4
<1>3. Shut(s.heap, C)
  <2> SUFFICES ASSUME NEW a \in C, NEW key \in DOMAIN s.heap[a].children
               PROVE  s.heap[a].children[key] \in C
    BY DEF Shut
  <2> DEFINE c == s.heap[a].children[key]
  <2>1. /\ a \in DOMAIN s.heap /\ c \in DOMAIN s.heap /\ key \in Keys
        /\ s.heap[a].type = "Element" /\ Child(s, a, key) = c
    <3>1. Linked(s.heap, Keys) /\ CellOK(s.heap, a)
      BY DEF Good, Sound
    <3> QED
      BY <3>1, ChildFacts DEF Linked, CellOK
  <2>2. home[c] = Append(home[a], key) /\ home[a] \in Seq(Steps) \ {<<>>}
    BY <2>1 DEF Homed
  <2> HIDE DEF c
  <2>3. FoundAtHome(s, home, a)
    OBVIOUS
  <2> HIDE DEF C
  <2>4. ASSUME NEW d \in Docs, NEW path \in Seq(Keys), home[c] = docs[d] \o path
        PROVE  Resolved(GetFromPath(s, docs[d], path)) = c
    <3> DEFINE p == docs[d]
    <3>1. p \in DOMAIN s.heap
      BY <1>1
    <3> HIDE DEF p
    <3>2. Keys \subseteq Steps /\ Seq(Keys) \subseteq Seq(Steps)
      <4>1. Keys \subseteq Steps
        BY DEF Steps
      <4> QED
        BY <4>1, SeqMonotonic
    <3>3. PICK at \in Seq(Steps), k \in Steps, one \in Seq(Steps) :
            at = home[a] /\ k = key /\ one = p
      <4>1. d \in Steps /\ key \in Steps
        BY <2>1, <3>2 DEF Steps
      <4>2. <<d>> \in Seq(Steps)
        BY <4>1
      <4>3. p \in Seq(Steps)
        BY <1>1, <4>2 DEF p
      <4> QED
        BY <2>2, <4>1, <4>3
    <3>4. /\ at # <<>> /\ one # <<>> /\ Len(one) = 1
          /\ Append(at, k) = one \o path
      <4>1. at # <<>>
        BY <2>2, <3>3
      <4>2. Len(<<d>>) = 1 /\ <<d>> # <<>>
        OBVIOUS
      <4>3. Append(at, k) = one \o path
        BY <2>2, <2>4, <3>3 DEF p
      <4> QED
        BY <1>1, <3>3, <4>1, <4>2, <4>3 DEF p
    <3>5. path # <<>>
      <4>1. one \o <<>> = one
        OBVIOUS
      <4>2. Append(at, k) # one
        BY <3>4, BehindFirst
      <4> QED
        BY <3>4, <4>1, <4>2
    <3> DEFINE f == Front(path)
               l == Last(path)
    <3>6. f \in Seq(Keys) /\ l \in Keys /\ path = Append(f, l)
      BY <3>5, AppendToFront
    <3> HIDE DEF f, l
    <3>7. home[a] = p \o f /\ key = l
      <4>1. PICK g \in Seq(Steps), m \in Steps : g = f /\ m = l
        BY <3>2, <3>6
      <4>2. path = Append(g, m)
        BY <3>6, <4>1
      <4>3. at = one \o g /\ k = m
        <5> DEFINE X == Steps
        <5>1. /\ one \in Seq(X) /\ one # <<>> /\ g \in Seq(X) /\ m \in X
              /\ at \in Seq(X) /\ k \in X
          BY <3>4
        <5> HIDE DEF X
        <5>2. one \o g \in Seq(X) \ {<<>>} /\ \A x \in X : one \o Append(g, x) = Append(one \o g, x)
          BY <5>1, BehindPlace
        <5>3. PICK v \in Seq(X) : v = one \o g
          BY <5>2
        <5>4. Append(at, k) = Append(v, m)
          BY <3>4, <4>2, <5>1, <5>2, <5>3
        <5>5. at = v /\ k = m
          BY <5>1, <5>4, AppendOnce
        <5> QED
          BY <5>3, <5>5
      <4> QED
        BY <3>3, <4>1, <4>3
    <3>8. Resolved(GetFromPath(s, p, f)) = a
      BY <2>3, <3>6, <3>7 DEF p, FoundAtHome
    <3>9. GetFromPath(s, p, path) = Index(s, GetFromPath(s, p, f), l)
      BY <3>6, GetUnfolds
    <3>10. FoundOK(s.heap, GetFromPath(s, p, f))
      BY <3>1, <3>6, GetFromPathFacts
    <3>11. IsType(s, a, "Element")
      <4>1. a \notin {Null, Gone}
        BY <2>1, Pointer DEF Good, Sound
      <4> QED
        BY <2>1, <4>1 DEF IsType
    <3>12. Resolved(Index(s, GetFromPath(s, p, f), l)) = Child(s, a, l)
      BY <3>6, <3>8, <3>10, <3>11, ResolvedIndex
    <3> QED
      BY <2>1, <3>7, <3>9, <3>12 DEF p
  <2> QED
    BY <2>1, <2>4 DEF C, c, FoundAtHome
<1> HIDE DEF C
<1>4. \A a : Alive(s, a) => a \in C
  BY <1>2, <1>3, AliveFacts
<1> QED
  BY <1>4 DEF C

\* What there is at a place between two calls.
LookUp(at) == IF at \in DOMAIN heap THEN at ELSE Null

\* Between two calls, what a place holds is at that place.
LEMMA LookUpFacts ==
  ASSUME Consistent, NEW at \in Seq(Steps) \ {<<>>}, NEW key \in Keys
  PROVE  /\ at \in DOMAIN heap => Child(Here, at, key) = LookUp(Append(at, key))
         /\ LookUp(Append(at, key)) # Null => at \in DOMAIN heap /\ heap[at].type = "Element"
<1>1. Good(Here) /\ Here.heap = heap /\ Sound(heap, Roots(docs)) /\ IsTree(heap)
  BY HereFacts DEF Consistent, ConsistentState
<1> DEFINE x == Here
           longer == Append(at, key)
<1>2. x.heap = heap /\ Good(x)
  BY <1>1
<1> HIDE DEF x
<1>3. ASSUME longer \in DOMAIN heap
      PROVE  /\ at \in DOMAIN heap /\ key \in DOMAIN heap[at].children
             /\ heap[at].children[key] = longer
  <2>1. longer \notin Roots(docs)
    <3>1. Len(longer) = Len(at) + 1 /\ Len(at) \in Nat /\ Len(at) # 0
      OBVIOUS
    <3>2. \A d \in Docs : docs[d] = <<d>>
      BY DEF docs
    <3>3. \A d \in Docs : Len(<<d>>) = 1
      OBVIOUS
    <3> HIDE DEF longer
    <3> QED
      BY <3>1, <3>2, <3>3 DEF Roots
  <2>2. PICK b \in DOMAIN heap : \E k \in DOMAIN heap[b].children : longer = Append(b, k)
    BY <1>1, <1>3, <2>1 DEF IsTree
  <2>3. PICK k \in DOMAIN heap[b].children : longer = Append(b, k)
    BY <2>2
  <2>4. b \in Seq(Steps) /\ k \in Keys /\ heap[b].children[k] = Append(b, k)
    BY <1>1 DEF Sound, Linked, IsTree
  <2>5. PICK v \in Seq(Steps), l \in Steps, m \in Steps, a \in Seq(Steps) :
          v = b /\ l = k /\ m = key /\ a = at
    BY <2>4 DEF Steps
  <2>6. Append(v, l) = Append(a, m)
    BY <2>3, <2>5
  <2>7. v = a /\ l = m
    BY <2>6, AppendOnce
  <2>8. b = at /\ k = key
    BY <2>5, <2>7
  <2> QED
    BY <2>3, <2>4, <2>8
<1>4. Null \notin DOMAIN heap
  BY <1>1, Pointer DEF Sound
<1> HIDE DEF longer
<1>5. ASSUME at \in DOMAIN heap
      PROVE  Child(x, at, key) = LookUp(longer)
  <2>1. CASE longer \in DOMAIN heap
    BY <1>2, <1>3, <1>5, <2>1, ChildFacts DEF LookUp
  <2>2. CASE longer \notin DOMAIN heap
    <3>1. key \in DOMAIN heap[at].children => heap[at].children[key] \in DOMAIN heap
      BY <1>1, <1>5 DEF Sound, Linked
    <3>2. key \in DOMAIN heap[at].children => heap[at].children[key] = longer
      BY <1>1, <1>5 DEF IsTree, longer
    <3>3. key \notin DOMAIN heap[at].children
      BY <2>2, <3>1, <3>2
    <3> QED
      BY <1>2, <2>2, <3>3 DEF LookUp, Child, Children
  <2> QED
    BY <2>1, <2>2
<1>6. ASSUME LookUp(longer) # Null
      PROVE  at \in DOMAIN heap /\ heap[at].type = "Element"
  <2>1. longer \in DOMAIN heap
    BY <1>6 DEF LookUp
  <2>2. CellOK(heap, at)
    BY <1>1, <1>3, <2>1 DEF Sound
  <2> QED
    BY <1>3, <2>1, <2>2 DEF CellOK
<1> QED
  BY <1>5, <1>6 DEF x, longer

\* What a path leads to is what there is at its end.
LEMMA PathFound ==
  ASSUME Consistent, NEW p \in DOMAIN heap
  PROVE  \A path \in Seq(Keys) : Resolved(GetFromPath(Here, p, path)) = LookUp(p \o path)
<1> DEFINE x == Here
           G == {path \in Seq(Keys) : Resolved(GetFromPath(x, p, path)) = LookUp(p \o path)}
<1>1. /\ Good(x) /\ x.heap = heap /\ p \in Seq(Steps) /\ p # <<>>
      /\ Null \notin DOMAIN heap /\ DOMAIN heap \subseteq Seq(Steps) \ {<<>>}
  <2>1. Good(Here) /\ Here.heap = heap
    BY HereFacts
  <2>2. DOMAIN heap \subseteq Seq(Steps) \ {<<>>}
    BY <2>1 DEF Good, Sound
  <2> QED
    BY <2>1, <2>2, Pointer
<1>2. \A at \in Seq(Steps) \ {<<>>}, key \in Keys :
        /\ at \in DOMAIN heap => Child(x, at, key) = LookUp(Append(at, key))
        /\ LookUp(Append(at, key)) # Null => at \in DOMAIN heap /\ heap[at].type = "Element"
  BY LookUpFacts
<1> HIDE DEF x
<1>3. <<>> \in G
  <2>1. GetFromPath(x, p, <<>>) = Wrapper(p)
    BY GetUnfolds
  <2>2. Resolved(Wrapper(p)) = p
    BY WrapperOf
  <2>3. p \o <<>> = p
    BY <1>1, EmptyEnd
  <2>4. LookUp(p \o <<>>) = p
    BY <2>3 DEF LookUp
  <2>5. <<>> \in Seq(Keys)
    OBVIOUS
  <2> QED
    BY <2>1, <2>2, <2>4, <2>5
<1>4. ASSUME NEW path \in Seq(Keys), NEW key \in Keys, path \in G
      PROVE  Append(path, key) \in G
  <2>1. PICK at \in Seq(Steps) \ {<<>>} : at = p \o path /\ p \o Append(path, key) = Append(at, key)
    <3> DEFINE X == Steps
    <3>1. Keys \subseteq X
      BY DEF Steps
    <3>2. Seq(Keys) \subseteq Seq(X)
      BY <3>1, SeqMonotonic
    <3>3. p \in Seq(X) /\ p # <<>> /\ path \in Seq(X) /\ key \in X
      BY <1>1, <3>1, <3>2
    <3> HIDE DEF X
    <3>4. p \o path \in Seq(X) \ {<<>>} /\ \A k \in X : p \o Append(path, k) = Append(p \o path, k)
      BY <3>3, BehindPlace
    <3>5. p \o Append(path, key) = Append(p \o path, key)
      BY <3>3, <3>4
    <3> QED
      BY <3>4, <3>5 DEF X
  <2> DEFINE links == GetFromPath(x, p, path)
             q == Resolved(links)
  <2>2. q = LookUp(at)
    BY <1>4, <2>1
  <2>3. FoundOK(x.heap, links)
    BY <1>1, GetFromPathFacts
  <2>4. GetFromPath(x, p, Append(path, key)) = Index(x, links, key)
    BY GetUnfolds
  <2> HIDE DEF links
  <2>5. Resolved(Index(x, links, key)) = IF IsType(x, q, "Element") THEN Child(x, q, key) ELSE Null
    BY <1>1, <2>3, ResolvedIndex
  <2> HIDE DEF q
  <2>6. (IF IsType(x, q, "Element") THEN Child(x, q, key) ELSE Null) = LookUp(Append(at, key))
    <3>1. at \notin {Null, Gone}
      BY Pointer
    <3>2. CASE at \in DOMAIN heap /\ heap[at].type = "Element"
      BY <1>1, <1>2, <2>2, <3>1, <3>2 DEF IsType, LookUp
    <3>3. CASE ~(at \in DOMAIN heap /\ heap[at].type = "Element")
      BY <1>1, <1>2, <2>2, <3>1, <3>3 DEF IsType, LookUp
    <3> QED
      BY <3>2, <3>3
  <2>7. Append(path, key) \in Seq(Keys)
    OBVIOUS
  <2> QED
    BY <2>1, <2>4, <2>5, <2>6, <2>7
<1> HIDE DEF G
<1>5. Seq(Keys) \subseteq G
  BY <1>3, <1>4, PathInduction
<1> QED
  BY <1>5 DEF G, x

\* A reader is led by InitializeProperty where the keys lead from the last wrapper
\* that has a property.
LEMMA InitializeReads ==
  ASSUME NEW s, Good(s), NEW links, LinksOK(s.heap, links),
         NEW j, Leading(links, j, Len(links)), links[j].prop \in DOMAIN s.heap
  PROVE  InitializeProperty(s, links, TRUE).prop
           = Resolved(GetFromPath(s, links[j].prop, KeysBetween(links, j, Len(links))))
<1> DEFINE N == Len(links)
           p == links[j].prop
           Keyed(i) == KeysBetween(links, j, i)
           Is(t, i) == IsState(t) /\ t.heap = s.heap /\ t.prop = Resolved(GetFromPath(s, p, Keyed(i)))
<1>1. N \in Nat /\ N > 0 /\ DOMAIN links = 1..N /\ \A i \in 1..N : links[i] \in LinkType(s.heap)
  BY LinksFacts
<1>2. j \in 1..N /\ \A k \in (j + 1)..N : links[k].prop = Null
  BY DEF Leading
<1>3. PICK after : /\ IsInitializing(s, links, TRUE, N, after)
                   /\ InitializeProperty(s, links, TRUE) = after[N]
  BY <1>1, Initializing
<1>4. \A i \in 1..N : after[i] = IF Begins(links, i) THEN Begun(s, links, i)
                                 ELSE ResolveLink(after[i - 1], links[i].propName, TRUE)
  BY <1>3 DEF IsInitializing
<1>5. p \in DOMAIN s.heap /\ p # Null
  BY Pointer DEF Good, Sound
<1>6. IsState(s)
  BY DEF Good
<1>7. Is(after[j], j)
  <2>1. after[j] = Begun(s, links, j)
    BY <1>2, <1>4, <1>5 DEF Begins
  <2>2. /\ IsState(Begun(s, links, j))
        /\ Begun(s, links, j).heap = s.heap /\ Begun(s, links, j).prop = p
    <3>1. Begun(s, links, j).heap = s.heap /\ Begun(s, links, j).prop = p
      BY <1>6 DEF Begun, IsState
    <3>2. Initialized(s, links, j, Begun(s, links, j))
      BY <1>2, <1>5, BegunInitialized
    <3> QED
      BY <3>1, <3>2 DEF Initialized, Good
  <2>3. Keyed(j) = <<>>
    BY <1>2 DEF KeysBetween
  <2>4. GetFromPath(s, p, <<>>) = Wrapper(p) /\ Resolved(Wrapper(p)) = p
    BY <1>5, GetUnfolds, WrapperOf
  <2> QED
    BY <2>1, <2>2, <2>3, <2>4
<1>8. ASSUME NEW i \in j..(N - 1), Is(after[i], i)
      PROVE  Is(after[i + 1], i + 1)
  <2> DEFINE t == after[i]
             name == links[i + 1].propName
             path == Keyed(i)
             found == GetFromPath(s, p, path)
  <2>1. /\ j \in Nat /\ i \in Nat /\ j <= i /\ i \in 1..N /\ i + 1 \in 2..N /\ i + 1 \in (j + 1)..N
        /\ i + 1 \in 1..N /\ (i + 1) - 1 = i /\ i + 1 # 1
    BY <1>1, <1>2
  <2>2. \A k \in (j + 1)..(i + 1) : links[k].propName \in Keys
    <3> TAKE k \in (j + 1)..(i + 1)
    <3>1. k \in (j + 1)..N /\ k \in 2..N /\ k \in 1..N
      BY <1>1, <1>2, <2>1
    <3>2. links[k].propName # NoName
      BY <1>2, <3>1 DEF LinksOK
    <3> QED
      BY <1>1, <3>1, <3>2 DEF LinkType, Keys
  <2>3. path \in Seq(Keys) /\ name \in Keys /\ Keyed(i + 1) = Append(path, name)
    <3>1. (\A k \in (j + 1)..i : links[k].propName \in Keys) /\ name \in Keys
      <4>1. (j + 1)..i \subseteq (j + 1)..(i + 1) /\ i + 1 \in (j + 1)..(i + 1)
        BY <2>1
      <4> QED
        BY <2>2, <4>1
    <3> QED
      BY <2>1, <3>1, KeysGrow
  <2>4. after[i + 1] = ResolveLink(t, name, TRUE)
    <3>1. links[i + 1].prop = Null /\ name # NoName
      BY <1>2, <2>1, <2>3 DEF Keys
    <3>2. ~Begins(links, i + 1)
      BY <2>1, <3>1 DEF Begins
    <3> QED
      BY <1>4, <2>1, <3>2
  <2>5. IsState(t) /\ t.heap = s.heap /\ t.prop = Resolved(found)
    BY <1>8
  <2>6. GetFromPath(s, p, Keyed(i + 1)) = Index(s, found, name)
    BY <2>3, GetUnfolds, ZenonT(40)
  <2>7. FoundOK(s.heap, found)
    BY <1>5, <2>3, GetFromPathFacts
  <2> HIDE DEF t, name, path, found, Keyed
  <2>8. Resolved(Index(s, found, name))
          = IF IsType(s, t.prop, "Element") THEN Child(s, t.prop, name) ELSE Null
    BY <2>3, <2>5, <2>7, ResolvedIndex
  <2> DEFINE u == ResolveLink(t, name, TRUE)
  <2>9. /\ IsState(u) /\ u.heap = s.heap
        /\ u.prop = IF IsType(t, t.prop, "Element") THEN Child(t, t.prop, name) ELSE Null
    <3> DEFINE x == IF IsType(t, t.prop, "Element") THEN Child(t, t.prop, name) ELSE Null
               v == Return(t, x)
               more == Append(v.links, Link(v.prop, name))
    <3>1. u = [v EXCEPT !.links = more]
      BY DEF ResolveLink
    <3> HIDE DEF x, u
    <3>2. IsState(v) /\ v.heap = t.heap /\ v.prop = x
      BY <2>5 DEF IsState, Return
    <3> HIDE DEF v, more
    <3> QED
      BY <2>5, <3>1, <3>2, LinksChanged DEF x
  <2>10. /\ IsType(t, t.prop, "Element") = IsType(s, t.prop, "Element")
         /\ Child(t, t.prop, name) = Child(s, t.prop, name)
    BY <2>5 DEF IsType, Child, Children
  <2> HIDE DEF u
  <2> QED
    BY <2>4, <2>6, <2>8, <2>9, <2>10 DEF u
<1> HIDE DEF Is
<1> DEFINE I == {i \in Nat : i \in j..N => Is(after[i], i)}
<1>9. 0 \in I
  BY <1>2
<1>10. ASSUME NEW i \in Nat, i \in I
       PROVE  i + 1 \in I
  <2> SUFFICES ASSUME i + 1 \in j..N
               PROVE  Is(after[i + 1], i + 1)
    OBVIOUS
  <2>1. i + 1 = j \/ i \in j..(N - 1)
    BY <1>1, <1>2
  <2>2. i \in j..(N - 1) => i \in j..N
    BY <1>1, <1>2
  <2> QED
    BY <1>7, <1>8, <1>10, <2>1, <2>2
<1> HIDE DEF I
<1>11. N \in I
  <2>1. Nat \subseteq I
    BY <1>9, <1>10, NatSetInduction
  <2> QED
    BY <1>1, <2>1
<1>12. Is(after[N], N)
  BY <1>1, <1>2, <1>11 DEF I
<1> QED
  BY <1>3, <1>12 DEF Is

-----------------------------------------------------------------------------
\* A wrapper that is kept leads a reader to what is at its path.
LEMMA HeldReads ==
  ASSUME Consistent, WrappersOnPath
  PROVE  HeldLeadsToPath
<1> SUFFICES ASSUME NEW w \in Held, ~OfNothing(Links(w))
             PROVE  InitializeProperty(Here, Links(w), TRUE).prop
                      = Resolved(Find(wrapper[w].doc, wrapper[w].path))
  BY DEF HeldLeadsToPath
<1> DEFINE x == Here
           links == Links(w)
           N == Len(links)
           d == wrapper[w].doc
           path == wrapper[w].path
<1>1. /\ Good(x) /\ LinksOK(x.heap, links) /\ Usable(links)
      /\ LeadsTo(links, HomeHere, PathOf(wrapper[w]))
  BY HeldLeads
<1>2. x.heap = heap /\ d \in Docs /\ path \in Seq(Keys) /\ docs[d] \in DOMAIN heap
  BY HereFacts, HeldFacts, PathsAssumption
<1>3. links[1].prop # Null
  BY DEF OfNothing
<1>4. Find(d, path) = GetFromPath(x, docs[d], path)
  BY DEF Find
<1>5. \A p \in DOMAIN heap : \A more \in Seq(Keys) :
        Resolved(GetFromPath(x, p, more)) = LookUp(p \o more)
  BY PathFound
<1>6. Resolved(GetFromPath(x, docs[d], path)) = LookUp(docs[d] \o path)
  BY <1>2, <1>5
<1>7. PathOf(wrapper[w]) = docs[d] \o path
  BY DEF PathOf
<1> HIDE DEF x, links, d, path
<1>8. N \in Nat /\ N > 0 /\ DOMAIN links = 1..N /\ \A i \in 1..N : links[i] \in LinkType(x.heap)
  BY <1>1, LinksFacts
<1>9. PICK j : Leading(links, j, N) /\ links[j].prop # Null
  <2>1. PICK after : Resolving(x, links, after)
    BY <1>1, InitializeResolves
  <2>2. N \in 1..N
    BY <1>8
  <2>3. Initialized(x, links, N, after[N])
    BY <2>1, <2>2 DEF Resolving
  <2> QED
    BY <1>3, <2>3 DEF Initialized, Leading
<1>10. j \in 1..N /\ \A k \in (j + 1)..N : links[k].prop = Null
  BY <1>9 DEF Leading
<1>11. links[j].prop \in DOMAIN heap
  <2>1. links[j].prop # Gone
    BY <1>1, <1>8, <1>10 DEF Usable
  <2> QED
    BY <1>2, <1>8, <1>9, <1>10, <2>1 DEF LinkType
<1> DEFINE p == links[j].prop
           more == KeysBetween(links, j, N)
<1>12. InitializeProperty(x, links, TRUE).prop = Resolved(GetFromPath(x, p, more))
  BY <1>1, <1>2, <1>9, <1>11, InitializeReads
<1>13. more \in Seq(Keys)
  <2>1. \A k \in (j + 1)..N : links[k].propName \in Keys
    <3> TAKE k \in (j + 1)..N
    <3>1. k \in 2..N /\ k \in 1..N
      BY <1>8, <1>10
    <3>2. links[k].propName # NoName
      BY <1>1, <1>10, <3>1 DEF LinksOK
    <3> QED
      BY <1>8, <3>1, <3>2 DEF LinkType, Keys
  <2>2. j \in Nat /\ N \in Nat /\ j <= N
    BY <1>8, <1>10
  <2> QED
    BY <2>1, <2>2, KeysGrow
<1>14. p \o more = docs[d] \o path
  <2>1. HomeHere[p] \o more = PathOf(wrapper[w])
    BY <1>1, <1>8, <1>10, <1>11 DEF LeadsTo, HomeHere
  <2>2. HomeHere[p] = p
    BY <1>11 DEF HomeHere
  <2> QED
    BY <1>7, <2>1, <2>2
<1> HIDE DEF p, more
<1>15. Resolved(GetFromPath(x, p, more)) = LookUp(p \o more)
  BY <1>5, <1>11, <1>13 DEF p
<1> QED
  BY <1>4, <1>6, <1>12, <1>14, <1>15 DEF x, links, d, path

\* What is added is at once found at its path.
LEMMA AddedFound ==
  ASSUME Careful \subseteq ClientRules, Consistent, WrappersOnPath
  PROVE  AddedIsAtItsPath
<1> SUFFICES ASSUME NEW w \in Held, NEW name \in Names, NEW leaf \in Leaves,
                    NEW pathToElements \in BOOLEAN, Addable(w, name, leaf, pathToElements),
                    WrapperAdd(Here, Links(w), name, leaf, pathToElements).outcome = "ok"
             PROVE  LET s == WrapperAdd(Here, Links(w), name, leaf, pathToElements)
                    IN  /\ IsType(s, s.prop, leaf.type)
                        /\ Resolved(GetFromPath(s, docs[wrapper[w].doc], Place(w, name, pathToElements)))
                             = s.prop
  BY DEF AddedIsAtItsPath
<1> DEFINE x == Here
           links == Links(w)
           s == WrapperAdd(x, links, name, leaf, pathToElements)
           d == wrapper[w].doc
           more == Target(name, pathToElements)
           at == Place(w, name, pathToElements)
<1>1. AddedAt(x, HomeHere, s, PathOf(wrapper[w]) \o more, leaf.type)
  BY AddLeads
<1>2. d \in Docs /\ wrapper[w].path \in Seq(Keys) /\ more \in Seq(Keys)
  BY AddRules, TargetKeys, HeldFacts, PathsAssumption
<1>3. CallDone(x, s)
  <2>1. /\ Good(x) /\ x.outcome = "ok" /\ LinksOK(x.heap, links) /\ Usable(links)
    BY HeldLeads
  <2>2. /\ name \in Seq(STRING) /\ name # NoName /\ ~OfNothing(links)
        /\ LET t == InitializeProperty(x, links, FALSE)
               first == Child(t, t.prop, SubSeq(name, 1, 1))
           IN  pathToElements /\ IsType(t, t.prop, "Element") =>
                 first = Null \/ IsType(t, first, "Element")
    BY AddRules
  <2> HIDE DEF x, links
  <2> QED
    BY <2>1, <2>2, WrapperAddDone
<1>4. x.roots = Roots(docs) /\ x.heap = heap /\ docs \in [Docs -> DOMAIN heap]
  BY HereFacts
<1>5. \A a \in DOMAIN x.heap : Alive(x, a)
  BY <1>4, HereHomed
<1>6. at \in Seq(Keys) /\ PathOf(wrapper[w]) \o more = docs[d] \o at
  <2> DEFINE a == docs[d]
             b == wrapper[w].path
             X == Steps
  <2>1. a \in Seq(X) /\ b \in Seq(X) /\ more \in Seq(X) /\ b \o more \in Seq(Keys)
    BY <1>2, PathSteps
  <2>2. PathOf(wrapper[w]) = a \o b
    BY DEF PathOf
  <2>3. at = b \o more
    BY DEF Place
  <2> HIDE DEF a, b, X, more
  <2>4. (a \o b) \o more = a \o (b \o more)
    BY <2>1
  <2> QED
    BY <2>1, <2>2, <2>3, <2>4 DEF a
<1>7. AtHome(docs, HomeHere)
  BY HereHomed
<1> HIDE DEF x, s, d, more, at
<1>8. PICK new : /\ Settled(HomeHere, s, new)
                 /\ s.prop \in DOMAIN s.heap /\ new[s.prop] = PathOf(wrapper[w]) \o more
                 /\ s.heap[s.prop].type = leaf.type
                 /\ Alive(s, s.prop)
  BY <1>1, <1>5 DEF AddedAt
<1>9. Good(s) /\ s.roots = Roots(docs)
  BY <1>3, <1>4 DEF CallDone
<1>10. AtHome(docs, new)
  BY <1>4, <1>7, <1>8 DEF AtHome, Settled, Extends, HomeHere
<1>11. Resolved(GetFromPath(s, docs[d], at)) = s.prop
  <2>1. FoundAtHome(s, new, s.prop)
    BY <1>8, <1>9, <1>10, FoundAlive DEF Settled
  <2>2. new[s.prop] = docs[d] \o at
    BY <1>6, <1>8
  <2> QED
    BY <1>2, <1>6, <2>1, <2>2 DEF FoundAtHome
<1>12. IsType(s, s.prop, leaf.type)
  <2>1. s.prop \notin {Null, Gone}
    BY <1>8, <1>9, Pointer DEF Good, Sound
  <2> QED
    BY <1>8, <2>1 DEF IsType
<1> QED
  BY <1>11, <1>12 DEF x, s, d, at

\* A wrapper that the program keeps never leads a reader astray: however the
\* documents have changed since it was taken, it finds what is at its path now.
THEOREM HeldAlwaysLeadsToPath ==
  ASSUME Careful \subseteq ClientRules
  PROVE  Spec => []HeldLeadsToPath
<1>1. Consistent /\ WrappersOnPath => HeldLeadsToPath
  BY HeldReads
<1>2. Spec => []Consistent
  BY ConsistentAlways
<1>3. Spec => []WrappersOnPath
  BY AlwaysOnPath
<1> QED
  BY <1>1, <1>2, <1>3, PTL

\* What Add and AddArray return is of the type that was asked for and found under
\* the path of the wrapper and the name, however long ago the wrapper was taken.
THEOREM AddedAlwaysAtItsPath ==
  ASSUME Careful \subseteq ClientRules
  PROVE  Spec => []AddedIsAtItsPath
<1>1. Consistent /\ WrappersOnPath => AddedIsAtItsPath
  BY AddedFound
<1>2. Spec => []Consistent
  BY ConsistentAlways
<1>3. Spec => []WrappersOnPath
  BY AlwaysOnPath
<1> QED
  BY <1>1, <1>2, <1>3, PTL
=============================================================================
