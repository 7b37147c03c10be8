----------------------------- MODULE CallProofs -----------------------------
(***************************************************************************)
(* What the operations of ElementHeap keep: the properties stay sound, and *)
(* so do the wrappers that lead to them.  Making, adding, resolving,       *)
(* taking and assigning; copying and merging follow in MergeProofs.        *)
(***************************************************************************)
EXTENDS ElementTree, WalkProofs

\* No address of what exists begins like the one for what is made next.
LEMMA FreshFacts ==
  ASSUME NEW s, IsFiniteSet(DOMAIN s.heap), DOMAIN s.heap \subseteq Seq(Steps) \ {<<>>}
  PROVE  /\ Fresh(s) \in Seq(Steps) \ {<<>>}
         /\ Len(Fresh(s)) = 1
         /\ \A p \in DOMAIN s.heap : Head(p) # Fresh(s)[1]
<1> DEFINE D == DOMAIN s.heap
           N == Cardinality(D)
           H == {Head(p) : p \in D}
           head == [p \in D |-> Head(p)]
<1>1. head \in Surjection(D, H)
  BY DEF Surjection
<1>2. IsFiniteSet(H) /\ Cardinality(H) <= N /\ N \in Nat /\ Cardinality(H) \in Nat
  BY <1>1, FS_Surjection, FS_CardinalityType
<1>3. IsFiniteSet(0..N) /\ Cardinality(0..N) = N + 1
  BY <1>2, FS_Interval
<1>4. ~(0..N \subseteq H)
  <2> SUFFICES ASSUME 0..N \in SUBSET H
               PROVE  FALSE
    OBVIOUS
  <2> HIDE DEF H, N
  <2>1. Cardinality(0..N) <= Cardinality(H)
    BY <1>2, FS_Subset
  <2> QED
    BY <1>2, <1>3, <2>1
<1>5. \E n \in 0..N : \A p \in D : Head(p) # n
  BY <1>4
<1> DEFINE n == CHOOSE n \in 0..N : \A p \in D : Head(p) # n
<1>6. n \in 0..N /\ \A p \in D : Head(p) # n
  BY <1>5
<1>7. Fresh(s) = <<n>>
  BY DEF Fresh
<1>8. n \in Steps
  BY <1>2, <1>6 DEF Steps
<1> HIDE DEF n
<1> QED
  BY <1>6, <1>7, <1>8

\* Two functions put together, the second over the first.
LEMMA WithFacts ==
  ASSUME NEW f, NEW g
  PROVE  /\ DOMAIN With(f, g) = DOMAIN f \cup DOMAIN g
         /\ \A x \in DOMAIN g : With(f, g)[x] = g[x]
         /\ \A x \in DOMAIN f \ DOMAIN g : With(f, g)[x] = f[x]
BY DEF With, Only

\* Two heaps side by side.
LEMMA BesideSound ==
  ASSUME NEW h, NEW R, Sound(h, R), NEW made, Sound(made, {}),
         DOMAIN h \cap DOMAIN made = {}
  PROVE  /\ Sound(With(h, made), R)
         /\ \A p \in DOMAIN made : Unheld(made, p) => Unheld(With(h, made), p)
<1> DEFINE b == With(h, made)
<1>1. /\ DOMAIN b = DOMAIN h \cup DOMAIN made
      /\ \A p \in DOMAIN h : b[p] = h[p]
      /\ \A p \in DOMAIN made : b[p] = made[p]
  BY WithFacts
<1> HIDE DEF b
<1>2. IsFiniteSet(DOMAIN b) /\ DOMAIN b \subseteq Seq(Steps) \ {<<>>}
  BY <1>1, FS_Union DEF Sound
<1>3. Linked(b, Keys)
  BY <1>1 DEF Sound, Linked
<1>4. HeldOnce(b)
  BY <1>1 DEF Sound, Linked, HeldOnce
<1>5. \A p \in DOMAIN h : /\ \A q \in DOMAIN h : Holds(b, q, p) <=> Holds(h, q, p)
                          /\ Unheld(b, p) <=> Unheld(h, p)
  BY <1>1 DEF Sound, Linked, Holds, Unheld
<1>6. \A p \in DOMAIN made : /\ \A q \in DOMAIN made : Holds(b, q, p) <=> Holds(made, q, p)
                             /\ Unheld(b, p) <=> Unheld(made, p)
  BY <1>1 DEF Sound, Linked, Holds, Unheld
<1>7. \A p \in DOMAIN b : CellOK(b, p)
  BY <1>1, <1>5, <1>6 DEF Sound, CellOK
<1>8. \A r \in R : RootOK(b, r)
  BY <1>1, <1>5 DEF Sound, RootOK
<1> QED
  BY <1>2, <1>3, <1>4, <1>6, <1>7, <1>8 DEF Sound, b

\* Other values, in the same tree.
Valued(h, g) ==
  /\ DOMAIN g = DOMAIN h
  /\ \A a \in DOMAIN h : /\ IsCell(g[a]) /\ g[a].type = h[a].type
                         /\ g[a].children = h[a].children
                         /\ g[a].fromProperty = h[a].fromProperty
                         /\ g[a].parentProperty = h[a].parentProperty

\* Changing values breaks nothing.
LEMMA ValuedSound ==
  ASSUME NEW h, NEW R, Sound(h, R), NEW g, Valued(h, g)
  PROVE  Sound(g, R)
<1>1. \A b, q \in DOMAIN h : Holds(h, q, b) => Holds(g, q, b)
  BY DEF Valued, Holds
<1>5. \A b \in DOMAIN h : Unheld(h, b) => Unheld(g, b)
  BY DEF Valued, Holds, Unheld
<1>2. Linked(g, Keys) /\ HeldOnce(g)
  BY DEF Valued, Sound, Linked, HeldOnce
<1>3. ASSUME NEW b \in DOMAIN g
      PROVE  CellOK(g, b)
  <2>1. CellOK(h, b)
    BY DEF Valued, Sound
  <2>2. /\ DOMAIN g = DOMAIN h /\ b \in DOMAIN h
        /\ IsCell(g[b]) /\ g[b].type = h[b].type
        /\ g[b].children = h[b].children
        /\ g[b].fromProperty = h[b].fromProperty
        /\ g[b].parentProperty = h[b].parentProperty
    BY DEF Valued
  <2>3. h[b].parentProperty # Null => /\ h[b].parentProperty \in DOMAIN h
                                      /\ Holds(g, h[b].parentProperty, b) \/ Unheld(g, b)
    BY <1>1, <1>5, <2>1, <2>2 DEF CellOK
  <2> QED
    BY <2>1, <2>2, <2>3 DEF CellOK
<1>4. \A r \in R : RootOK(g, r)
  BY <1>5 DEF Valued, Sound, RootOK
<1> QED
  BY <1>2, <1>3, <1>4 DEF Sound, Valued

\* A child put into an element, in the place of another or of none.
Taking(h, g, e, key, p) ==
  /\ DOMAIN g = DOMAIN h
  /\ \A a \in DOMAIN h : IsCell(g[a]) /\ g[a].type = h[a].type
  /\ \A a \in DOMAIN h \ {e} : g[a].children = h[a].children
  /\ g[e].children = With(h[e].children, Only(key, p))
  /\ \A a \in DOMAIN h \ {p} : /\ g[a].fromProperty = h[a].fromProperty
                               /\ g[a].parentProperty = h[a].parentProperty
  /\ g[p].fromProperty \in {Null, p} /\ g[p].parentProperty \in {Null, e}
  /\ h[p].type # "Element" => g[p].parentProperty = Null

\* Putting a property that nobody holds into an element keeps the tree a tree.
LEMMA TakingSound ==
  ASSUME NEW h, NEW R, Sound(h, R), NEW e \in DOMAIN h, h[e].type = "Element", NEW key \in Keys,
         NEW p \in DOMAIN h, Unheld(h, p), p \notin R, NEW g, Taking(h, g, e, key, p)
  PROVE  Sound(g, R)
<1>0. /\ DOMAIN g = DOMAIN h
      /\ \A a \in DOMAIN h : IsCell(g[a]) /\ g[a].type = h[a].type
      /\ \A a \in DOMAIN h \ {e} : g[a].children = h[a].children
      /\ g[e].children = With(h[e].children, Only(key, p))
      /\ \A a \in DOMAIN h \ {p} : /\ g[a].fromProperty = h[a].fromProperty
                                   /\ g[a].parentProperty = h[a].parentProperty
      /\ g[p].fromProperty \in {Null, p} /\ g[p].parentProperty \in {Null, e}
      /\ h[p].type # "Element" => g[p].parentProperty = Null
  BY DEF Taking
<1>1. /\ DOMAIN g[e].children = DOMAIN h[e].children \cup {key}
      /\ g[e].children[key] = p
      /\ \A k \in DOMAIN h[e].children \ {key} : g[e].children[k] = h[e].children[k]
  BY <1>0 DEF With, Only
<1>2. Linked(g, Keys)
  BY <1>0, <1>1 DEF Sound, Linked
<1>3. HeldOnce(g)
  <2>1. \A q \in DOMAIN h : \A k \in DOMAIN g[q].children :
          g[q].children[k] = p => q = e /\ k = key
    BY <1>0, <1>1 DEF Unheld, Holds
  <2>4. \A q \in DOMAIN h : \A k \in DOMAIN g[q].children :
          g[q].children[k] # p =>
            k \in DOMAIN h[q].children /\ g[q].children[k] = h[q].children[k]
    BY <1>0, <1>1
  <2> SUFFICES ASSUME NEW a \in DOMAIN h, NEW b \in DOMAIN h,
                      NEW k \in DOMAIN g[a].children, NEW l \in DOMAIN g[b].children,
                      g[a].children[k] = g[b].children[l]
               PROVE  a = b /\ k = l
    BY <1>0 DEF HeldOnce
  <2>2. CASE g[a].children[k] = p
    BY <2>1, <2>2
  <2>3. CASE g[a].children[k] # p
    <3>1. /\ k \in DOMAIN h[a].children /\ l \in DOMAIN h[b].children
          /\ h[a].children[k] = h[b].children[l]
      BY <2>3, <2>4
    <3>2. HeldOnce(h)
      BY DEF Sound
    <3> QED
      BY <3>1, <3>2 DEF HeldOnce
  <2> QED
    BY <2>2, <2>3
<1>4. \A a \in DOMAIN h \ {p} : Unheld(h, a) => Unheld(g, a)
  BY <1>0, <1>1 DEF Unheld, Holds
<1>5. \A a \in DOMAIN h \ {p} : \A q \in DOMAIN h :
        Holds(h, q, a) => Holds(g, q, a) \/ Unheld(g, a)
  <2> SUFFICES ASSUME NEW a \in DOMAIN h \ {p}, NEW q \in DOMAIN h,
                      NEW k \in DOMAIN h[q].children, h[q].children[k] = a
               PROVE  Holds(g, q, a) \/ Unheld(g, a)
    BY <1>0 DEF Holds
  <2>1. CASE q # e \/ k # key
    BY <1>0, <1>1, <2>1 DEF Holds
  <2>2. CASE q = e /\ k = key
    <3> SUFFICES ASSUME NEW b \in DOMAIN h, NEW l \in DOMAIN g[b].children,
                        g[b].children[l] = a
                 PROVE  FALSE
      BY <1>0 DEF Holds, Unheld
    <3>1. b # e \/ l # key
      BY <1>0, <1>1
    <3>2. l \in DOMAIN h[b].children /\ h[b].children[l] = a
      BY <1>0, <1>1, <3>1
    <3> QED
      BY <2>2, <3>1, <3>2 DEF Sound, HeldOnce
  <2> QED
    BY <2>1, <2>2
<1>6. ASSUME NEW a \in DOMAIN h \ {p}
      PROVE  CellOK(g, a)
  <2>1. CellOK(h, a) /\ CellOK(h, e)
    BY DEF Sound
  <2>2. h[a].type # "Element" => a # e /\ g[a].children = h[a].children
    BY <1>0
  <2>3. h[a].parentProperty # Null =>
          Holds(g, h[a].parentProperty, a) \/ Unheld(g, a)
    BY <1>0, <1>4, <1>5, <2>1 DEF CellOK
  <2> QED
    BY <1>0, <2>1, <2>2, <2>3 DEF CellOK
<1>7. CellOK(g, p)
  BY <1>0, <1>1 DEF Sound, CellOK, Holds
<1>8. \A r \in R : RootOK(g, r)
  BY <1>0, <1>4 DEF Sound, RootOK
<1> QED
  BY <1>0, <1>1, <1>2, <1>3, <1>6, <1>7, <1>8 DEF Sound

\* A state of a call.
IsState(s) ==
  s = [heap |-> s.heap, roots |-> s.roots, outcome |-> s.outcome, prop |-> s.prop,
       links |-> s.links]

Good(s) == IsState(s) /\ Sound(s.heap, s.roots)

Larger(s, t) ==
  /\ t.roots = s.roots /\ t.outcome = s.outcome
  /\ DOMAIN s.heap \subseteq DOMAIN t.heap
  /\ \A a \in DOMAIN s.heap : t.heap[a].type = s.heap[a].type

Grown(s, t) == Larger(s, t) /\ t.links = s.links

\* The parts of a state of which another part was replaced.  The provers need them
\* spelt out.
LEMMA HeapChanged ==
  ASSUME NEW s, IsState(s), NEW h
  PROVE  /\ IsState([s EXCEPT !.heap = h])
         /\ [s EXCEPT !.heap = h].heap = h
         /\ [s EXCEPT !.heap = h].roots = s.roots
         /\ [s EXCEPT !.heap = h].outcome = s.outcome
         /\ [s EXCEPT !.heap = h].prop = s.prop
         /\ [s EXCEPT !.heap = h].links = s.links
BY DEF IsState

\* Returning a property changes nothing else.
LEMMA ReturnFacts ==
  ASSUME NEW s, IsState(s), NEW p
  PROVE  /\ IsState(Return(s, p))
         /\ Return(s, p).heap = s.heap
         /\ Return(s, p).roots = s.roots
         /\ Return(s, p).outcome = s.outcome
         /\ Return(s, p).prop = p
         /\ Return(s, p).links = s.links
BY DEF IsState, Return

\* Throwing an exception changes nothing else.
LEMMA ThrowFacts ==
  ASSUME NEW s, IsState(s), NEW exception
  PROVE  /\ IsState(Throw(s, exception))
         /\ Throw(s, exception).heap = s.heap
         /\ Throw(s, exception).roots = s.roots
         /\ Throw(s, exception).outcome = exception
         /\ Throw(s, exception).prop = s.prop
         /\ Throw(s, exception).links = s.links
BY DEF IsState, Throw

\* What making a property changes.
Made(s, t, c) ==
  /\ t.prop = Fresh(s) /\ t.prop \notin DOMAIN s.heap /\ t.prop \notin t.roots
  /\ DOMAIN t.heap = DOMAIN s.heap \cup {t.prop}
  /\ t.heap[t.prop] = c
  /\ \A a \in DOMAIN s.heap : t.heap[a] = s.heap[a]
  /\ Unheld(t.heap, t.prop)

\* What New makes is held by nobody, and all else stays as it was.
LEMMA NewFacts ==
  ASSUME NEW s, Good(s), NEW c, IsCell(c), DOMAIN c.children = {},
         c.parentProperty = Null, c.fromProperty \in {Null, Fresh(s)}
  PROVE  /\ Good(New(s, c))
         /\ Grown(s, New(s, c))
         /\ Made(s, New(s, c), c)
<1> DEFINE p == Fresh(s)
           made == Only(p, c)
           t == New(s, c)
<1>1. /\ p \in Seq(Steps) \ {<<>>}
      /\ \A a \in DOMAIN s.heap : Head(a) # p[1]
  BY FreshFacts DEF Good, Sound
<1>2. p \notin DOMAIN s.heap
  BY <1>1
<1>3. /\ t.heap = With(s.heap, made)
      /\ t.roots = s.roots /\ t.outcome = s.outcome /\ t.links = s.links /\ t.prop = p
      /\ IsState(t)
  <2> DEFINE u == [s EXCEPT !.heap = With(@, made)]
  <2>1. u = [s EXCEPT !.heap = With(s.heap, made)]
    OBVIOUS
  <2>2. /\ IsState(u) /\ u.heap = With(s.heap, made)
        /\ u.roots = s.roots /\ u.outcome = s.outcome /\ u.links = s.links
    BY <2>1, HeapChanged DEF Good
  <2>3. t = Return(u, p)
    BY DEF New
  <2> HIDE DEF u, t
  <2> QED
    BY <2>2, <2>3, ReturnFacts
<1>4. DOMAIN made = {p} /\ made[p] = c
  BY DEF Only
<1> HIDE DEF t, made, p
<1>5. Unheld(made, p)
  BY <1>4 DEF Unheld, Holds
<1>6. Sound(made, {})
  <2>1. IsFiniteSet(DOMAIN made)
    BY <1>4, FS_Singleton
  <2> QED
    BY <1>1, <1>4, <1>5, <2>1 DEF Sound, Linked, HeldOnce, CellOK, p
<1>7. /\ Sound(t.heap, t.roots)
      /\ Unheld(t.heap, p)
  BY <1>2, <1>3, <1>4, <1>5, <1>6, BesideSound DEF Good
<1>8. /\ DOMAIN t.heap = DOMAIN s.heap \cup {p}
      /\ t.heap[p] = c
      /\ \A a \in DOMAIN s.heap : t.heap[a] = s.heap[a]
  <2>1. /\ DOMAIN With(s.heap, made) = DOMAIN s.heap \cup DOMAIN made
        /\ \A x \in DOMAIN made : With(s.heap, made)[x] = made[x]
        /\ \A x \in DOMAIN s.heap \ DOMAIN made : With(s.heap, made)[x] = s.heap[x]
    BY WithFacts
  <2> QED
    BY <1>2, <1>3, <1>4, <2>1
<1>9. p \notin t.roots
  BY <1>2, <1>3 DEF Good, Sound, RootOK
<1> QED
  BY <1>2, <1>3, <1>7, <1>8, <1>9 DEF Good, Grown, Larger, Made, t, p

\* Property::Create makes a property without parent that nobody holds.
LEMMA CreateFacts ==
  ASSUME NEW s, Good(s), NEW type, NEW value
  PROVE  /\ Good(Create(s, type, value))
         /\ Grown(s, Create(s, type, value))
         /\ \E c : /\ Made(s, Create(s, type, value), c)
                   /\ IsCell(c) /\ c.type = type /\ c.value = value
                   /\ DOMAIN c.children = {}
                   /\ c.parentProperty = Null
                   /\ c.fromProperty = IF Collection(type) THEN Fresh(s) ELSE Null
<1> DEFINE c == Property(type, value, IF Collection(type) THEN Fresh(s) ELSE Null)
<1>1. DOMAIN <<>> = {}
  OBVIOUS
<1>2. /\ IsCell(c) /\ c.type = type /\ c.value = value
      /\ DOMAIN c.children = {}
      /\ c.parentProperty = Null
      /\ c.fromProperty = IF Collection(type) THEN Fresh(s) ELSE Null
  BY <1>1 DEF Property, IsCell
<1>3. Create(s, type, value) = New(s, c)
  BY DEF Create
<1> HIDE DEF c
<1> QED
  BY <1>2, <1>3, NewFacts

\* The cell at a is changed, but not its type, and nothing else.
Changed(s, t, a) ==
  /\ IsState(t) /\ DOMAIN t.heap = DOMAIN s.heap
  /\ t.roots = s.roots /\ t.outcome = s.outcome /\ t.prop = s.prop /\ t.links = s.links
  /\ \A b \in DOMAIN s.heap \ {a} : t.heap[b] = s.heap[b]
  /\ IsCell(t.heap[a]) /\ t.heap[a].type = s.heap[a].type

\* Replacing one cell by another of its type.
LEMMA CellChanged ==
  ASSUME NEW s, IsState(s), NEW a \in DOMAIN s.heap, NEW c, IsCell(c), c.type = s.heap[a].type
  PROVE  LET t == [s EXCEPT !.heap = [s.heap EXCEPT ![a] = c]]
         IN  Changed(s, t, a) /\ t.heap[a] = c
<1> DEFINE h == [s.heap EXCEPT ![a] = c]
           t == [s EXCEPT !.heap = h]
<1>1. DOMAIN h = DOMAIN s.heap /\ h[a] = c /\ \A b \in DOMAIN s.heap \ {a} : h[b] = s.heap[b]
  OBVIOUS
<1> HIDE DEF h
<1>2. /\ IsState(t) /\ t.heap = h
      /\ t.roots = s.roots /\ t.outcome = s.outcome /\ t.prop = s.prop /\ t.links = s.links
  BY HeapChanged
<1> HIDE DEF t
<1>3. Changed(s, t, a) /\ t.heap[a] = c
  BY <1>1, <1>2 DEF Changed
<1> QED
  BY <1>3 DEF t, h

\* Setting the children of an element.
LEMMA ChildrenChanged ==
  ASSUME NEW s, IsState(s), NEW a \in DOMAIN s.heap, IsCell(s.heap[a]), NEW x
  PROVE  LET t == [s EXCEPT !.heap[a].children = x]
         IN  /\ Changed(s, t, a) /\ t.heap[a].value = s.heap[a].value
             /\ t.heap[a].children = x
             /\ t.heap[a].fromProperty = s.heap[a].fromProperty
             /\ t.heap[a].parentProperty = s.heap[a].parentProperty
<1> DEFINE c == [s.heap[a] EXCEPT !.children = x]
           t == [s EXCEPT !.heap[a].children = x]
<1>1. /\ IsCell(c) /\ c.type = s.heap[a].type /\ c.value = s.heap[a].value /\ c.children = x
      /\ c.fromProperty = s.heap[a].fromProperty /\ c.parentProperty = s.heap[a].parentProperty
  BY DEF IsCell
<1>2. t = [s EXCEPT !.heap = [s.heap EXCEPT ![a] = c]]
  OBVIOUS
<1> HIDE DEF c, t
<1> QED
  BY <1>1, <1>2, CellChanged DEF t

\* Setting the value of a property.
LEMMA ValueChanged ==
  ASSUME NEW s, IsState(s), NEW a \in DOMAIN s.heap, IsCell(s.heap[a]), NEW x
  PROVE  LET t == [s EXCEPT !.heap[a].value = x]
         IN  /\ Changed(s, t, a)
             /\ t.heap[a].children = s.heap[a].children
             /\ t.heap[a].fromProperty = s.heap[a].fromProperty
             /\ t.heap[a].parentProperty = s.heap[a].parentProperty
<1> DEFINE c == [s.heap[a] EXCEPT !.value = x]
           t == [s EXCEPT !.heap[a].value = x]
<1>1. /\ IsCell(c) /\ c.type = s.heap[a].type /\ c.children = s.heap[a].children
      /\ c.fromProperty = s.heap[a].fromProperty /\ c.parentProperty = s.heap[a].parentProperty
  BY DEF IsCell
<1>2. t = [s EXCEPT !.heap = [s.heap EXCEPT ![a] = c]]
  OBVIOUS
<1> HIDE DEF c, t
<1> QED
  BY <1>1, <1>2, CellChanged DEF t

\* Setting fromProperty.
LEMMA FromChanged ==
  ASSUME NEW s, IsState(s), NEW a \in DOMAIN s.heap, IsCell(s.heap[a]), NEW x
  PROVE  LET t == [s EXCEPT !.heap[a].fromProperty = x]
         IN  /\ Changed(s, t, a) /\ t.heap[a].value = s.heap[a].value
             /\ t.heap[a].children = s.heap[a].children
             /\ t.heap[a].fromProperty = x
             /\ t.heap[a].parentProperty = s.heap[a].parentProperty
<1> DEFINE c == [s.heap[a] EXCEPT !.fromProperty = x]
           t == [s EXCEPT !.heap[a].fromProperty = x]
<1>1. /\ IsCell(c) /\ c.type = s.heap[a].type /\ c.value = s.heap[a].value /\ c.children = s.heap[a].children
      /\ c.fromProperty = x /\ c.parentProperty = s.heap[a].parentProperty
  BY DEF IsCell
<1>2. t = [s EXCEPT !.heap = [s.heap EXCEPT ![a] = c]]
  OBVIOUS
<1> HIDE DEF c, t
<1> QED
  BY <1>1, <1>2, CellChanged DEF t

\* Setting parentProperty.
LEMMA ParentChanged ==
  ASSUME NEW s, IsState(s), NEW a \in DOMAIN s.heap, IsCell(s.heap[a]), NEW x
  PROVE  LET t == [s EXCEPT !.heap[a].parentProperty = x]
         IN  /\ Changed(s, t, a) /\ t.heap[a].value = s.heap[a].value
             /\ t.heap[a].children = s.heap[a].children
             /\ t.heap[a].fromProperty = s.heap[a].fromProperty
             /\ t.heap[a].parentProperty = x
<1> DEFINE c == [s.heap[a] EXCEPT !.parentProperty = x]
           t == [s EXCEPT !.heap[a].parentProperty = x]
<1>1. /\ IsCell(c) /\ c.type = s.heap[a].type /\ c.value = s.heap[a].value /\ c.children = s.heap[a].children
      /\ c.fromProperty = s.heap[a].fromProperty /\ c.parentProperty = x
  BY DEF IsCell
<1>2. t = [s EXCEPT !.heap = [s.heap EXCEPT ![a] = c]]
  OBVIOUS
<1> HIDE DEF c, t
<1> QED
  BY <1>1, <1>2, CellChanged DEF t

\* Setting a value.
LEMMA ValueSound ==
  ASSUME NEW s, Good(s), NEW a \in DOMAIN s.heap, NEW x
  PROVE  LET t == [s EXCEPT !.heap[a].value = x]
         IN  /\ Good(t) /\ Grown(s, t) /\ Changed(s, t, a)
             /\ t.heap[a].children = s.heap[a].children
<1> DEFINE t == [s EXCEPT !.heap[a].value = x]
<1>1. IsCell(s.heap[a])
  BY DEF Good, Sound, CellOK
<1>2. /\ Changed(s, t, a)
      /\ t.heap[a].children = s.heap[a].children
      /\ t.heap[a].fromProperty = s.heap[a].fromProperty
      /\ t.heap[a].parentProperty = s.heap[a].parentProperty
  BY <1>1, ValueChanged DEF Good
<1> HIDE DEF t
<1>3. Valued(s.heap, t.heap)
  BY <1>2 DEF Valued, Changed, Good, Sound, CellOK
<1>4. Sound(t.heap, s.roots)
  BY <1>3, ValuedSound DEF Good
<1> QED
  BY <1>2, <1>4 DEF Good, Grown, Larger, Changed, t

\* What putting p into e under key changes.
Taken(s, t, e, key, p) ==
  /\ DOMAIN t.heap = DOMAIN s.heap
  /\ t.heap[e].children = With(s.heap[e].children, Only(key, p))
  /\ \A a \in DOMAIN s.heap \ {e} : t.heap[a].children = s.heap[a].children
  /\ \A a \in DOMAIN s.heap \ {e, p} : t.heap[a] = s.heap[a]
  /\ \A a \in DOMAIN s.heap : t.heap[a].value = s.heap[a].value
  /\ t.prop = s.prop

\* Put changes the children of the element and nothing else.
LEMMA PutFacts ==
  ASSUME NEW s, Good(s), NEW e \in DOMAIN s.heap, NEW key, NEW p
  PROVE  /\ Changed(s, Put(s, e, key, p), e)
         /\ Put(s, e, key, p).heap[e].value = s.heap[e].value
         /\ Put(s, e, key, p).heap[e].children = With(s.heap[e].children, Only(key, p))
         /\ Put(s, e, key, p).heap[e].fromProperty = s.heap[e].fromProperty
         /\ Put(s, e, key, p).heap[e].parentProperty = s.heap[e].parentProperty
<1> DEFINE x == With(s.heap[e].children, Only(key, p))
<1>1. IsCell(s.heap[e])
  BY DEF Good, Sound, CellOK
<1>2. Put(s, e, key, p) = [s EXCEPT !.heap[e].children = x]
  BY DEF Put, Children
<1> HIDE DEF x
<1> QED
  BY <1>1, <1>2, ChildrenChanged DEF Good, x

\* Put keeps the tree a tree if nobody holds the property yet.
LEMMA PutSound ==
  ASSUME NEW s, Good(s), NEW e \in DOMAIN s.heap, s.heap[e].type = "Element",
         NEW key \in Keys, NEW p \in DOMAIN s.heap, Unheld(s.heap, p), p \notin s.roots,
         s.heap[p].parentProperty \in {Null, e}
  PROVE  /\ Good(Put(s, e, key, p)) /\ Grown(s, Put(s, e, key, p))
         /\ Taken(s, Put(s, e, key, p), e, key, p)
         /\ Taking(s.heap, Put(s, e, key, p).heap, e, key, p)
<1> DEFINE t == Put(s, e, key, p)
<1>1. /\ Changed(s, t, e)
      /\ t.heap[e].children = With(s.heap[e].children, Only(key, p))
      /\ t.heap[e].fromProperty = s.heap[e].fromProperty
      /\ t.heap[e].parentProperty = s.heap[e].parentProperty
      /\ t.heap[e].value = s.heap[e].value
  BY PutFacts
<1> HIDE DEF t
<1>2. CellOK(s.heap, p)
  BY DEF Good, Sound
<1>3. Taking(s.heap, t.heap, e, key, p)
  BY <1>1, <1>2 DEF Taking, Changed, Good, Sound, CellOK
<1>4. Sound(t.heap, s.roots)
  BY <1>3, TakingSound DEF Good
<1> QED
  BY <1>1, <1>3, <1>4 DEF Good, Grown, Larger, Changed, Taken, t

\* The pointers of the property that was put into an element are set afterwards.
LEMMA TakingThen ==
  ASSUME NEW h, NEW g, NEW w, NEW e \in DOMAIN h, NEW key, NEW p \in DOMAIN h, p # e,
         Taking(h, g, e, key, p),
         DOMAIN w = DOMAIN g, \A a \in DOMAIN g \ {p} : w[a] = g[a],
         IsCell(w[p]), w[p].type = g[p].type, w[p].children = g[p].children,
         w[p].fromProperty \in {Null, p}, w[p].parentProperty \in {Null, e},
         h[p].type # "Element" => w[p].parentProperty = Null
  PROVE  Taking(h, w, e, key, p)
<1> USE DEF Taking
<1>1. \A a \in DOMAIN h : IsCell(w[a]) /\ w[a].type = h[a].type
  OBVIOUS
<1>2. \A a \in DOMAIN h \ {e} : w[a].children = h[a].children
  OBVIOUS
<1>3. w[e].children = With(h[e].children, Only(key, p))
  OBVIOUS
<1>4. \A a \in DOMAIN h \ {p} : /\ w[a].fromProperty = h[a].fromProperty
                                /\ w[a].parentProperty = h[a].parentProperty
  OBVIOUS
<1> QED
  BY <1>1, <1>2, <1>3, <1>4

\* Element::AddChild of a property that nobody holds.
LEMMA AddChildSound ==
  ASSUME NEW s, Good(s), NEW e \in DOMAIN s.heap, s.heap[e].type = "Element",
         NEW key \in Keys, NEW p \in DOMAIN s.heap, Unheld(s.heap, p), p \notin s.roots, p # e,
         s.heap[p].parentProperty = Null, p \notin {Null, Gone}
  PROVE  /\ Good(AddChild(s, e, key, p)) /\ Grown(s, AddChild(s, e, key, p))
         /\ Taken(s, AddChild(s, e, key, p), e, key, p)
<1> DEFINE t == Put(s, e, key, p)
           u == AddChild(s, e, key, p)
<1>1. /\ Good(t) /\ Grown(s, t) /\ Taken(s, t, e, key, p)
      /\ Taking(s.heap, t.heap, e, key, p)
  BY PutSound
<1>2. /\ Changed(s, t, e)
      /\ t.heap[e].children = With(s.heap[e].children, Only(key, p))
      /\ t.heap[e].fromProperty = s.heap[e].fromProperty
      /\ t.heap[e].parentProperty = s.heap[e].parentProperty
  BY PutFacts
<1>3. /\ CellOK(s.heap, p) /\ CellOK(s.heap, e) /\ Good(t) /\ IsState(t)
      /\ p \in DOMAIN t.heap /\ IsCell(t.heap[p]) /\ t.heap[p] = s.heap[p]
  BY <1>1, <1>2 DEF Changed, Good, Sound, CellOK
<1>4. CASE s.heap[p].type = "Element"
  <2> DEFINE v == [t EXCEPT !.heap[p].parentProperty = s.heap[e].fromProperty]
             w == [v EXCEPT !.heap[p].fromProperty = p]
  <2>1. u = w
    BY <1>4 DEF AddChild, IsType
  <2> HIDE DEF u, t
  <2>2. /\ Changed(t, v, p)
        /\ v.heap[p].children = t.heap[p].children
        /\ v.heap[p].fromProperty = t.heap[p].fromProperty
        /\ v.heap[p].parentProperty = s.heap[e].fromProperty
        /\ v.heap[p].value = t.heap[p].value
    BY <1>3, ParentChanged
  <2> HIDE DEF v
  <2>3. IsState(v) /\ p \in DOMAIN v.heap /\ IsCell(v.heap[p])
    BY <1>3, <2>2 DEF Changed
  <2>4. /\ Changed(v, w, p)
        /\ w.heap[p].children = v.heap[p].children
        /\ w.heap[p].fromProperty = p
        /\ w.heap[p].parentProperty = v.heap[p].parentProperty
        /\ w.heap[p].value = v.heap[p].value
    BY <2>3, FromChanged
  <2> HIDE DEF w
  <2>5. /\ Changed(t, w, p)
        /\ w.heap[p].children = t.heap[p].children
        /\ w.heap[p].fromProperty = p
        /\ w.heap[p].parentProperty = s.heap[e].fromProperty
        /\ w.heap[p].value = t.heap[p].value
    BY <2>2, <2>4 DEF Changed
  <2>6. Taking(s.heap, w.heap, e, key, p)
    <3>1. w.heap[p].parentProperty \in {Null, e} /\ w.heap[p].fromProperty \in {Null, p}
      BY <1>3, <2>5 DEF CellOK
    <3>2. /\ DOMAIN w.heap = DOMAIN t.heap
          /\ \A a \in DOMAIN t.heap \ {p} : w.heap[a] = t.heap[a]
          /\ IsCell(w.heap[p]) /\ w.heap[p].type = t.heap[p].type
      BY <2>5 DEF Changed
    <3> QED
      BY <1>1, <1>4, <2>5, <3>1, <3>2, TakingThen
  <2>7. Sound(w.heap, s.roots)
    BY <2>6, TakingSound DEF Good
  <2>8. \A a \in DOMAIN s.heap : w.heap[a].value = s.heap[a].value
    BY <1>1, <2>5 DEF Changed, Taken
  <2> QED
    BY <1>2, <1>3, <2>1, <2>5, <2>7, <2>8 DEF Good, Grown, Larger, Changed, Taken, u
<1>5. CASE s.heap[p].type = "Array"
  <2> DEFINE w == [t EXCEPT !.heap[p].fromProperty = p]
  <2>1. u = w
    BY <1>5 DEF AddChild, IsType
  <2> HIDE DEF u, t
  <2>2. /\ Changed(t, w, p)
        /\ w.heap[p].children = t.heap[p].children
        /\ w.heap[p].fromProperty = p
        /\ w.heap[p].parentProperty = t.heap[p].parentProperty
        /\ w.heap[p].value = t.heap[p].value
    BY <1>3, FromChanged
  <2> HIDE DEF w
  <2>3. Taking(s.heap, w.heap, e, key, p)
    <3>1. w.heap[p].parentProperty = Null /\ w.heap[p].fromProperty \in {Null, p}
      BY <1>3, <2>2
    <3>2. /\ DOMAIN w.heap = DOMAIN t.heap
          /\ \A a \in DOMAIN t.heap \ {p} : w.heap[a] = t.heap[a]
          /\ IsCell(w.heap[p]) /\ w.heap[p].type = t.heap[p].type
      BY <2>2 DEF Changed
    <3> QED
      BY <1>1, <2>2, <3>1, <3>2, TakingThen
  <2>4. Sound(w.heap, s.roots)
    BY <2>3, TakingSound DEF Good
  <2>5. \A a \in DOMAIN s.heap : w.heap[a].value = s.heap[a].value
    BY <1>1, <2>2 DEF Changed, Taken
  <2> QED
    BY <1>2, <1>3, <2>1, <2>2, <2>4, <2>5 DEF Good, Grown, Larger, Changed, Taken, u
<1>6. CASE s.heap[p].type \notin {"Element", "Array"}
  <2>1. u = t
    BY <1>6 DEF AddChild, IsType
  <2> QED
    BY <1>1, <2>1
<1> QED
  BY <1>4, <1>5, <1>6

\* What is an address is no null pointer and does not dangle.
LEMMA Pointer ==
  ASSUME NEW p \in Seq(Steps)
  PROVE  p \notin {Null, Gone}
BY PointersAssumption DEF Steps

\* The child found under a key exists.
LEMMA ChildFacts ==
  ASSUME NEW s, Good(s), NEW e \in DOMAIN s.heap, NEW key
  PROVE  /\ Child(s, e, key) # Null => Child(s, e, key) \in DOMAIN s.heap
         /\ key \in DOMAIN s.heap[e].children => Child(s, e, key) = s.heap[e].children[key]
         /\ key \in DOMAIN s.heap[e].children <=> Child(s, e, key) # Null
<1>1. key \in DOMAIN s.heap[e].children => s.heap[e].children[key] \in DOMAIN s.heap
  BY DEF Good, Sound, Linked
<1>2. \A p \in DOMAIN s.heap : p # Null
  BY Pointer DEF Good, Sound
<1> QED
  BY <1>1, <1>2 DEF Child, Children

\* A property of the type is there now.
Added(s, t, type) ==
  Good(t) /\ Grown(s, t) /\ t.prop \in DOMAIN t.heap /\ t.heap[t.prop].type = type

\* Element::Add of one name leads to a property of the type asked for.
LEMMA AddNamedSound ==
  ASSUME NEW s, Good(s), NEW e \in DOMAIN s.heap, s.heap[e].type = "Element",
         NEW name \in Keys, NEW type, NEW isLast \in BOOLEAN,
         isLast \/ Child(s, e, name) = Null \/ IsType(s, Child(s, e, name), type)
  PROVE  Added(s, AddNamed(s, e, name, type, isLast), type)
<1> DEFINE t == AddNamed(s, e, name, type, isLast)
           old == Child(s, e, name)
           made == Create(s, type, Initial(type))
<1>0. name # <<>>
  BY DEF Keys, NoName
<1>1. CASE old # Null /\ (isLast => s.heap[old].type = type)
  <2>1. t = Return(s, old)
    BY <1>0, <1>1 DEF AddNamed
  <2>2. old \in DOMAIN s.heap
    BY <1>1, ChildFacts
  <2>3. s.heap[old].type = type
    BY <1>1 DEF IsType
  <2> HIDE DEF old
  <2>4. /\ IsState(t) /\ t.heap = s.heap /\ t.roots = s.roots /\ t.outcome = s.outcome
        /\ t.prop = old /\ t.links = s.links
    BY <2>1, ReturnFacts DEF Good
  <2> HIDE DEF t
  <2>5. Added(s, t, type)
    BY <2>2, <2>3, <2>4 DEF Added, Good, Grown, Larger
  <2> QED
    BY <2>5 DEF t
<1>2. CASE ~(old # Null /\ (isLast => s.heap[old].type = type))
  <2> DEFINE p == made.prop
  <2>1. t = AddChild(made, e, name, p)
    BY <1>0, <1>2 DEF AddNamed
  <2> HIDE DEF old, t
  <2>2. Good(made) /\ Grown(s, made)
    BY CreateFacts
  <2>3. PICK c : /\ Made(s, made, c)
                 /\ c.type = type /\ c.parentProperty = Null
    BY CreateFacts
  <2> HIDE DEF made
  <2>4. /\ p \in DOMAIN made.heap /\ p \notin DOMAIN s.heap
        /\ made.heap[p].type = type /\ made.heap[p].parentProperty = Null
        /\ Unheld(made.heap, p) /\ p \notin made.roots
    BY <2>3 DEF Made
  <2>5. e \in DOMAIN made.heap /\ made.heap[e].type = "Element" /\ p # e
    BY <2>2, <2>4 DEF Grown, Larger
  <2>6. p \notin {Null, Gone}
    BY <2>2, <2>4, Pointer DEF Good, Sound
  <2>7. Good(t) /\ Grown(made, t) /\ Taken(made, t, e, name, p)
    BY <2>1, <2>2, <2>4, <2>5, <2>6, AddChildSound
  <2>8. Added(s, t, type)
    BY <2>2, <2>4, <2>7 DEF Added, Grown, Larger, Taken
  <2> QED
    BY <2>8 DEF t
<1> QED
  BY <1>1, <1>2

\* The first step of a name is a key, and so are the others together.
LEMMA NameParts ==
  ASSUME NEW name \in Seq(STRING), name # NoName
  PROVE  /\ name \in Keys /\ Len(name) \in Nat
         /\ \E first \in Keys : first = SubSeq(name, 1, 1)
         /\ Len(name) > 1 => \E rest \in Keys : rest = Tail(name)
<1>1. Len(name) \in Nat /\ Len(name) > 0
  BY EmptySeq DEF NoName
<1>2. PICK first \in Seq(STRING) : first = SubSeq(name, 1, 1) /\ Len(first) = 1
  <2>1. SubSeq(name, 1, 1) \in Seq(STRING) /\ Len(SubSeq(name, 1, 1)) = 1
    BY <1>1
  <2> QED
    BY <2>1, Zenon
<1>3. \E rest \in Seq(STRING) : rest = Tail(name) /\ Len(rest) = Len(name) - 1
  <2>1. Tail(name) \in Seq(STRING) /\ Len(Tail(name)) = Len(name) - 1
    BY <1>1
  <2> QED
    BY <2>1, Zenon
<1>4. \A seq \in Seq(STRING) : Len(seq) # 0 => seq # <<>>
  OBVIOUS
<1>5. first \in Keys
  BY <1>2, <1>4 DEF Keys, NoName
<1>6. Len(name) > 1 => \E rest \in Keys : rest = Tail(name)
  BY <1>1, <1>3, <1>4 DEF Keys, NoName
<1> QED
  BY <1>1, <1>2, <1>5, <1>6 DEF Keys, NoName

\* Element::Add of a path, whose first step names an element or nothing.
LEMMA AddSound ==
  ASSUME NEW s, Good(s), NEW e \in DOMAIN s.heap, s.heap[e].type = "Element",
         NEW name \in Seq(STRING), name # NoName, NEW type, NEW pathToElements \in BOOLEAN,
         pathToElements => \/ Child(s, e, SubSeq(name, 1, 1)) = Null
                           \/ IsType(s, Child(s, e, SubSeq(name, 1, 1)), "Element")
  PROVE  Added(s, Add(s, e, name, type, pathToElements), type)
<1> DEFINE t == AddNamed(s, e, SubSeq(name, 1, 1), "Element", FALSE)
<1>1. /\ name \in Keys /\ Len(name) \in Nat
      /\ \E first \in Keys : first = SubSeq(name, 1, 1)
      /\ Len(name) > 1 => \E rest \in Keys : rest = Tail(name)
  BY NameParts
<1>2. CASE ~pathToElements \/ Len(name) <= 1
  <2>1. Add(s, e, name, type, pathToElements) = AddNamed(s, e, name, type, TRUE)
    BY <1>2 DEF Add
  <2> QED
    BY <1>1, <2>1, AddNamedSound
<1>3. CASE ~(~pathToElements \/ Len(name) <= 1)
  <2>7. Len(name) > 1
    BY <1>1, <1>3
  <2> PICK first \in Keys, rest \in Keys : first = SubSeq(name, 1, 1) /\ rest = Tail(name)
    BY <1>1, <2>7, Zenon
  <2>1. Added(s, AddNamed(s, e, first, "Element", FALSE), "Element") /\ rest = Tail(name)
    BY <1>3, AddNamedSound
  <2>5. Added(s, t, "Element")
    BY <2>1
  <2> HIDE DEF t
  <2>2. t.prop \notin {Null, Gone}
    BY <2>5, Pointer DEF Added, Good, Sound
  <2>3. Add(s, e, name, type, pathToElements) = AddNamed(t, t.prop, Tail(name), type, TRUE)
    BY <1>3, <2>5, <2>2 DEF Add, Added, IsType, t
  <2>6. Good(t) /\ t.prop \in DOMAIN t.heap /\ t.heap[t.prop].type = "Element"
    BY <2>5 DEF Added
  <2>4. Added(t, AddNamed(t, t.prop, rest, type, TRUE), type)
    BY <2>6, AddNamedSound
  <2> QED
    BY <2>1, <2>3, <2>4, <2>5 DEF Added, Grown, Larger
<1> QED
  BY <1>2, <1>3

\* Element::AddArray of such a path.
LEMMA AddArraySound ==
  ASSUME NEW s, Good(s), s.outcome = "ok", NEW e \in DOMAIN s.heap, s.heap[e].type = "Element",
         NEW name \in Seq(STRING), name # NoName, NEW size, NEW pathToElements \in BOOLEAN,
         pathToElements => \/ Child(s, e, SubSeq(name, 1, 1)) = Null
                           \/ IsType(s, Child(s, e, SubSeq(name, 1, 1)), "Element")
  PROVE  Added(s, AddArray(s, e, name, size, pathToElements), "Array")
<1> DEFINE t == Add(s, e, name, "Array", pathToElements)
           u == [t EXCEPT !.heap[t.prop].value = size]
<1>1. Added(s, t, "Array")
  BY AddSound
<1> HIDE DEF t
<1>2. t.prop \notin {Null, Gone} /\ t.outcome = "ok"
  BY <1>1, Pointer DEF Added, Good, Sound, Grown, Larger
<1>3. AddArray(s, e, name, size, pathToElements) = u
  BY <1>1, <1>2 DEF AddArray, Added, IsType, t
<1> HIDE DEF u
<1>4. Good(u) /\ Grown(t, u) /\ Changed(t, u, t.prop)
  BY <1>1, ValueSound DEF Added, u
<1> QED
  BY <1>1, <1>3, <1>4 DEF Added, Grown, Larger, Changed

\* What the last wrapper of a chain is resolved to exists, is nothing or is gone.
LEMMA LinksFacts ==
  ASSUME NEW h, NEW links, LinksOK(h, links)
  PROVE  /\ Len(links) \in Nat /\ Len(links) > 0 /\ DOMAIN links = 1..Len(links)
         /\ \A i \in 1..Len(links) : links[i] \in LinkType(h)
         /\ Resolved(links) = links[Len(links)].prop
         /\ Resolved(links) \in DOMAIN h \cup {Null, Gone}
<1>1. PICK l \in Seq(LinkType(h)) : l = links /\ l # <<>>
  BY DEF LinksOK
<1>2. Len(l) \in Nat /\ Len(l) > 0 /\ DOMAIN l = 1..Len(l)
  BY <1>1, EmptySeq
<1>3. \A i \in 1..Len(l) : l[i] \in LinkType(h)
  OBVIOUS
<1>4. Last(l) = l[Len(l)]
  BY DEF Last
<1>5. l[Len(l)] \in LinkType(h)
  BY <1>2, <1>3
<1>6. l[Len(l)].prop \in DOMAIN h \cup {Null, Gone}
  BY <1>5 DEF LinkType
<1> QED
  BY <1>1, <1>2, <1>3, <1>4, <1>6 DEF Resolved

\* operator[] of an element, or of what may become one.
LEMMA AppendLinks ==
  ASSUME NEW h, NEW links, LinksOK(h, links),
         Resolved(links) \in DOMAIN h => h[Resolved(links)].type = "Element",
         NEW p \in DOMAIN h \cup {Null, Gone}, NEW name \in Keys
  PROVE  /\ LinksOK(h, Append(links, Link(p, name)))
         /\ Resolved(Append(links, Link(p, name))) = p
         /\ Len(Append(links, Link(p, name))) = Len(links) + 1
<1>1. PICK l \in Seq(LinkType(h)) : l = links /\ l # <<>>
  BY DEF LinksOK
<1>2. Len(l) \in Nat /\ Len(l) > 0
  BY <1>1, EmptySeq
<1>3. Link(p, name) \in LinkType(h)
  BY DEF Link, LinkType, Keys
<1>4. PICK k \in LinkType(h) : k = Link(p, name)
  BY <1>3
<1>5. k.prop = p /\ k.propName # NoName
  BY <1>4 DEF Link, Keys
<1>6. PICK m \in Seq(LinkType(h)) : m = Append(l, k)
  <2>1. Append(l, k) \in Seq(LinkType(h))
    OBVIOUS
  <2> QED
    BY <2>1, Zenon
<1>7. /\ Len(m) = Len(l) + 1 /\ m # <<>>
      /\ \A i \in 1..Len(l) : m[i] = l[i]
      /\ m[Len(l) + 1] = k
  BY <1>6
<1>8. Last(m) = k /\ Last(l) = l[Len(l)]
  BY <1>7 DEF Last
<1>9. \A i \in 1..Len(l) : l[i].prop \in DOMAIN h => h[l[i].prop].type = "Element"
  BY <1>1, <1>2, <1>8 DEF LinksOK, Resolved
<1>10. \A i \in 1..(Len(m) - 1) : m[i].prop \in DOMAIN h => h[m[i].prop].type = "Element"
  BY <1>2, <1>7, <1>9
<1>11. \A i \in 2..Len(m) : m[i].prop = Null => m[i].propName # NoName
  BY <1>1, <1>2, <1>5, <1>7 DEF LinksOK
<1> QED
  BY <1>1, <1>4, <1>5, <1>6, <1>7, <1>8, <1>10, <1>11 DEF LinksOK, Resolved

\* The wrappers from which one was made.
LEMMA SubLinks ==
  ASSUME NEW h, NEW links, LinksOK(h, links), NEW n \in 1..Len(links)
  PROVE  /\ LinksOK(h, SubSeq(links, 1, n))
         /\ Resolved(SubSeq(links, 1, n)) = links[n].prop
         /\ Len(SubSeq(links, 1, n)) = n
<1>1. PICK l \in Seq(LinkType(h)) : l = links /\ l # <<>>
  BY DEF LinksOK
<1>2. Len(l) \in Nat /\ Len(l) > 0 /\ n \in 1..Len(l)
  BY <1>1, EmptySeq
<1>3. SubSeq(l, 1, n) \in Seq(LinkType(h))
  BY <1>2
<1>4. PICK m \in Seq(LinkType(h)) : m = SubSeq(l, 1, n)
  BY <1>3, Zenon
<1>5. /\ Len(m) = n
      /\ \A i \in 1..n : m[i] = l[i]
  BY <1>2, <1>4
<1>6. Last(m) = l[n]
  BY <1>2, <1>5 DEF Last
<1>7. m # <<>>
  BY <1>2, <1>5, EmptySeq
<1>8. \A i \in 1..(Len(m) - 1) : m[i].prop \in DOMAIN h => h[m[i].prop].type = "Element"
  BY <1>1, <1>2, <1>5 DEF LinksOK
<1>9. \A i \in 2..Len(m) : m[i].prop = Null => m[i].propName # NoName
  BY <1>1, <1>2, <1>5 DEF LinksOK
<1> QED
  BY <1>1, <1>4, <1>5, <1>6, <1>7, <1>8, <1>9 DEF LinksOK, Resolved

\* A wrapper stays what it is while no property is destroyed.
LEMMA GrownLinks ==
  ASSUME NEW s, NEW t, Good(t), Larger(s, t), NEW links, LinksOK(s.heap, links)
  PROVE  LinksOK(t.heap, links)
<1>1. LinkType(s.heap) \subseteq LinkType(t.heap)
  BY DEF LinkType, Larger
<1>2. links \in Seq(LinkType(t.heap))
  BY <1>1, SeqMonotonic DEF LinksOK
<1>3. ASSUME NEW i \in 1..Len(links)
      PROVE  links[i].prop \in DOMAIN t.heap => links[i].prop \in DOMAIN s.heap
  <2>1. links[i] \in LinkType(s.heap)
    BY LinksFacts
  <2>2. links[i].prop \in DOMAIN s.heap \cup {Null, Gone}
    BY <2>1 DEF LinkType
  <2>3. Null \notin DOMAIN t.heap /\ Gone \notin DOMAIN t.heap
    BY Pointer DEF Good, Sound
  <2> QED
    BY <2>2, <2>3
<1> QED
  BY <1>2, <1>3 DEF LinksOK, Larger

\* InitializeProperty begins with a wrapper that has a property, or with the first.
Begins(links, i) == links[i].prop # Null \/ i = 1 \/ links[i].propName = NoName

Begun(s, links, i) == [s EXCEPT !.links = SubSeq(links, 1, i), !.prop = links[i].prop]

IsInitializing(s, links, getOnly, n, f) ==
  f = [i \in 1..n |->
         IF Begins(links, i) THEN Begun(s, links, i)
         ELSE ResolveLink(f[i - 1], links[i].propName, getOnly)]

\* The equation of the recursion in InitializeProperty has a solution.
LEMMA InitializingExists ==
  ASSUME NEW s, NEW links, NEW getOnly
  PROVE  \A n \in Nat : \E f : IsInitializing(s, links, getOnly, n, f)
<1> DEFINE S == {n \in Nat : \E f : IsInitializing(s, links, getOnly, n, f)}
<1>1. 0 \in S
  <2>1. IsInitializing(s, links, getOnly, 0, [i \in 1..0 |-> s])
    BY DEF IsInitializing
  <2> QED
    BY <2>1
<1>2. \A n \in Nat : n \in S => n + 1 \in S
  <2> SUFFICES ASSUME NEW n \in Nat, NEW f, IsInitializing(s, links, getOnly, n, f)
               PROVE  \E g : IsInitializing(s, links, getOnly, n + 1, g)
    OBVIOUS
  <2> DEFINE Value(i) == IF Begins(links, i) THEN Begun(s, links, i)
                         ELSE ResolveLink(f[i - 1], links[i].propName, getOnly)
             g == [i \in 1..(n + 1) |-> IF i = n + 1 THEN Value(i) ELSE f[i]]
  <2>1. \A i \in 1..n : f[i] = Value(i)
    BY DEF IsInitializing
  <2>2. \A i \in 1..(n + 1) : g[i] = Value(i)
    <3> HIDE DEF Value
    <3> QED
      BY <2>1
  <2>3. \A i \in 1..n : g[i] = f[i]
    OBVIOUS
  <2>4. \A i \in 1..(n + 1) : ~Begins(links, i) => i - 1 \in 1..n
    BY DEF Begins
  <2>5. \A i \in 1..(n + 1) :
          Value(i) = IF Begins(links, i) THEN Begun(s, links, i)
                     ELSE ResolveLink(g[i - 1], links[i].propName, getOnly)
    <3> HIDE DEF g
    <3> QED
      BY <2>3, <2>4
  <2>6. IsInitializing(s, links, getOnly, n + 1, g)
    <3>1. g = [i \in 1..(n + 1) |-> g[i]]
      OBVIOUS
    <3> HIDE DEF g, Value
    <3> QED
      BY <2>2, <2>5, <3>1 DEF IsInitializing
  <2> QED
    BY <2>6
<1> HIDE DEF S
<1>3. Nat \subseteq S
  BY <1>1, <1>2, NatSetInduction
<1> QED
  BY <1>3 DEF S

\* InitializeProperty is the last value of that recursion.
LEMMA Initializing ==
  ASSUME NEW s, NEW links, NEW getOnly, Len(links) \in Nat
  PROVE  \E after : /\ IsInitializing(s, links, getOnly, Len(links), after)
                    /\ InitializeProperty(s, links, getOnly) = after[Len(links)]
<1> DEFINE after == CHOOSE f : IsInitializing(s, links, getOnly, Len(links), f)
<1>1. IsInitializing(s, links, getOnly, Len(links), after)
  BY InitializingExists
<1>2. InitializeProperty(s, links, getOnly) = after[Len(links)]
  BY DEF InitializeProperty, IsInitializing, Begins, Begun
<1> QED
  BY <1>1, <1>2

\* The parts of a state whose wrapper was replaced.
LEMMA LinksChanged ==
  ASSUME NEW s, IsState(s), NEW x
  PROVE  /\ IsState([s EXCEPT !.links = x])
         /\ [s EXCEPT !.links = x].heap = s.heap
         /\ [s EXCEPT !.links = x].roots = s.roots
         /\ [s EXCEPT !.links = x].outcome = s.outcome
         /\ [s EXCEPT !.links = x].prop = s.prop
         /\ [s EXCEPT !.links = x].links = x
BY DEF IsState

\* Where InitializeProperty is when it has come to the wrapper i.
Initialized(s, links, i, t) ==
  /\ Good(t) /\ Larger(s, t)
  /\ LinksOK(t.heap, t.links) /\ Resolved(t.links) = t.prop /\ Len(t.links) = i
  /\ links[i].prop # Null => t.prop = links[i].prop
  /\ links[i].prop = Null =>
       t.prop = Null \/ (t.prop \in DOMAIN t.heap /\ t.heap[t.prop].type = "Element")
  /\ links[1].prop # Null =>
       \E j \in 1..i : /\ links[j].prop # Null
                       /\ \A k \in (j + 1)..i : links[k].prop = Null
                       /\ links[j].prop = Gone \/ t.prop \in DOMAIN t.heap

\* A wrapper that has a property, or is the first, needs nothing to be made.
LEMMA BegunInitialized ==
  ASSUME NEW s, Good(s), NEW links, LinksOK(s.heap, links), NEW i \in 1..Len(links),
         links[i].prop # Null \/ i = 1
  PROVE  Initialized(s, links, i, Begun(s, links, i))
<1> DEFINE u == [s EXCEPT !.links = SubSeq(links, 1, i)]
           t == Begun(s, links, i)
<1>1. /\ IsState(u) /\ u.heap = s.heap /\ u.roots = s.roots /\ u.outcome = s.outcome
      /\ u.links = SubSeq(links, 1, i)
  BY LinksChanged DEF Good
<1>2. t = Return(u, links[i].prop)
  BY DEF Begun, Return
<1> HIDE DEF u, t
<1>3. /\ IsState(t) /\ t.heap = s.heap /\ t.roots = s.roots /\ t.outcome = s.outcome
      /\ t.links = SubSeq(links, 1, i) /\ t.prop = links[i].prop
  BY <1>1, <1>2, ReturnFacts
<1>4. LinksOK(t.heap, t.links) /\ Resolved(t.links) = t.prop /\ Len(t.links) = i
  BY <1>3, SubLinks
<1>5. links[i] \in LinkType(s.heap)
  BY LinksFacts
<1>6. links[i].prop \in DOMAIN s.heap \cup {Null, Gone}
  BY <1>5 DEF LinkType
<1>7. links[1].prop # Null =>
        \E j \in 1..i : /\ links[j].prop # Null
                        /\ \A k \in (j + 1)..i : links[k].prop = Null
                        /\ links[j].prop = Gone \/ t.prop \in DOMAIN t.heap
  <2> SUFFICES ASSUME links[1].prop # Null
               PROVE  /\ links[i].prop # Null
                      /\ \A k \in (i + 1)..i : links[k].prop = Null
                      /\ links[i].prop = Gone \/ t.prop \in DOMAIN t.heap
    BY LinksFacts
  <2>1. i \in Nat
    BY LinksFacts
  <2> QED
    BY <1>3, <1>6, <2>1
<1>8. Good(t) /\ Larger(s, t)
  BY <1>3 DEF Good, Larger
<1>9. links[i].prop = Null =>
        t.prop = Null \/ (t.prop \in DOMAIN t.heap /\ t.heap[t.prop].type = "Element")
  BY <1>3
<1>10. Initialized(s, links, i, t)
  BY <1>3, <1>4, <1>7, <1>8, <1>9 DEF Initialized
<1> QED
  BY <1>10 DEF t

\* LinkedPropertyWrapper::InitializeProperty makes a missing element in the one
\* before.
LEMMA LinkMade ==
  ASSUME NEW t, Good(t), LinksOK(t.heap, t.links), Resolved(t.links) = t.prop,
         t.prop \in DOMAIN t.heap => t.heap[t.prop].type = "Element",
         NEW name \in Keys
  PROVE  LET u == ResolveLink(t, name, FALSE)
         IN  /\ Good(u) /\ Larger(t, u)
             /\ LinksOK(u.heap, u.links) /\ Resolved(u.links) = u.prop
             /\ Len(u.links) = Len(t.links) + 1
             /\ IF t.prop \in DOMAIN t.heap
                  THEN u.prop \in DOMAIN u.heap /\ u.heap[u.prop].type = "Element"
                  ELSE u.prop = Null
<1> DEFINE v == IF ~IsType(t, t.prop, "Element") THEN Return(t, Null)
                ELSE AddNamed(t, t.prop, name, "Element", TRUE)
           u == [v EXCEPT !.links = Append(v.links, Link(v.prop, name))]
<1>1. ResolveLink(t, name, FALSE) = u
  BY DEF ResolveLink
<1>2. t.prop \in DOMAIN t.heap \cup {Null, Gone}
  BY LinksFacts
<1>3. \A p \in DOMAIN t.heap : p \notin {Null, Gone}
  BY Pointer DEF Good, Sound
<1>4. /\ Good(v) /\ Grown(t, v)
      /\ IF t.prop \in DOMAIN t.heap
           THEN v.prop \in DOMAIN v.heap /\ v.heap[v.prop].type = "Element"
           ELSE v.prop = Null
  <2>1. CASE t.prop \in DOMAIN t.heap
    <3>1. v = AddNamed(t, t.prop, name, "Element", TRUE)
      BY <1>3, <2>1 DEF IsType
    <3> HIDE DEF v
    <3>2. Added(t, v, "Element")
      BY <2>1, <3>1, AddNamedSound
    <3> QED
      BY <2>1, <3>2 DEF Added
  <2>2. CASE t.prop \notin DOMAIN t.heap
    <3>1. v = Return(t, Null)
      BY <1>2, <2>2 DEF IsType
    <3> HIDE DEF v
    <3>2. /\ IsState(v) /\ v.heap = t.heap /\ v.roots = t.roots /\ v.outcome = t.outcome
          /\ v.prop = Null /\ v.links = t.links
      BY <3>1, ReturnFacts DEF Good
    <3> QED
      BY <2>2, <3>2 DEF Good, Grown, Larger
  <2> QED
    BY <2>1, <2>2
<1> HIDE DEF v
<1>5. /\ IsState(u) /\ u.heap = v.heap /\ u.roots = v.roots /\ u.outcome = v.outcome
      /\ u.prop = v.prop /\ u.links = Append(t.links, Link(v.prop, name))
  BY <1>4, LinksChanged DEF Good, Grown
<1> HIDE DEF u
<1>6. LinksOK(v.heap, t.links)
  BY <1>4, GrownLinks DEF Grown
<1>7. Resolved(t.links) \in DOMAIN v.heap => v.heap[Resolved(t.links)].type = "Element"
  <2>1. \A p \in DOMAIN v.heap : p \notin {Null, Gone}
    BY <1>4, Pointer DEF Good, Sound
  <2> QED
    BY <1>2, <1>4, <2>1 DEF Grown, Larger
<1>8. v.prop \in DOMAIN v.heap \cup {Null, Gone}
  BY <1>4
<1>9. /\ LinksOK(v.heap, u.links) /\ Resolved(u.links) = v.prop
      /\ Len(u.links) = Len(t.links) + 1
  <2> DEFINE x == Append(t.links, Link(v.prop, name))
  <2>1. LinksOK(v.heap, x) /\ Resolved(x) = v.prop /\ Len(x) = Len(t.links) + 1
    BY <1>6, <1>7, <1>8, AppendLinks
  <2>2. u.links = x
    BY <1>5
  <2> HIDE DEF x
  <2> QED
    BY <2>1, <2>2
<1>10. Good(u) /\ Larger(t, u)
  BY <1>4, <1>5 DEF Good, Grown, Larger
<1> QED
  BY <1>1, <1>4, <1>5, <1>9, <1>10

\* What a wrapper before the last is resolved to is an element.
LEMMA BeforeLast ==
  ASSUME NEW s, Good(s), NEW links, LinksOK(s.heap, links), NEW n \in 1..(Len(links) - 1),
         NEW t, Initialized(s, links, n, t)
  PROVE  t.prop \in DOMAIN t.heap => t.heap[t.prop].type = "Element"
<1>1. Good(t) /\ Larger(s, t)
  BY DEF Initialized
<1>2. CASE links[n].prop = Null
  BY <1>1, <1>2, Pointer DEF Initialized, Good, Sound
<1>3. CASE links[n].prop # Null
  <2>1. t.prop = links[n].prop
    BY <1>3 DEF Initialized
  <2>2. links[n] \in LinkType(s.heap)
    BY LinksFacts
  <2>3. links[n].prop \in DOMAIN s.heap \cup {Null, Gone}
    BY <2>2 DEF LinkType
  <2>4. links[n].prop \in DOMAIN s.heap => s.heap[links[n].prop].type = "Element"
    BY DEF LinksOK
  <2>5. Gone \notin DOMAIN t.heap /\ Null \notin DOMAIN t.heap
    BY <1>1, Pointer DEF Good, Sound
  <2> QED
    BY <1>1, <2>1, <2>3, <2>4, <2>5 DEF Larger
<1> QED
  BY <1>2, <1>3

\* The steps of InitializeProperty from wrapper to wrapper.
Resolving(s, links, after) ==
  /\ \A i \in 1..Len(links) :
       after[i] = IF Begins(links, i) THEN Begun(s, links, i)
                  ELSE ResolveLink(after[i - 1], links[i].propName, FALSE)
  /\ \A i \in 1..Len(links) : Initialized(s, links, i, after[i])
  /\ \A i \in 1..Len(links) : ~Begins(links, i) => links[i].propName \in Keys

\* InitializeProperty goes from wrapper to wrapper, each of which it resolves.
LEMMA InitializeResolves ==
  ASSUME NEW s, Good(s), NEW links, LinksOK(s.heap, links)
  PROVE  \E after : /\ Resolving(s, links, after)
                    /\ InitializeProperty(s, links, FALSE) = after[Len(links)]
<1> DEFINE N == Len(links)
<1>1. /\ N \in Nat /\ N > 0 /\ DOMAIN links = 1..N
      /\ \A i \in 1..N : links[i] \in LinkType(s.heap)
      /\ Resolved(links) = links[N].prop
  BY LinksFacts
<1>2. PICK after : /\ IsInitializing(s, links, FALSE, N, after)
                   /\ InitializeProperty(s, links, FALSE) = after[N]
  BY <1>1, Initializing
<1> DEFINE S == {n \in Nat : n \in 1..N => Initialized(s, links, n, after[n])}
<1>3. \A i \in 1..N : Begins(links, i) => links[i].prop # Null \/ i = 1
  BY <1>1 DEF Begins, LinksOK
<1>4. 0 \in S
  BY <1>1
<1>5. ASSUME NEW n \in Nat, n \in S
      PROVE  n + 1 \in S
  <2> SUFFICES ASSUME n + 1 \in 1..N
               PROVE  Initialized(s, links, n + 1, after[n + 1])
    OBVIOUS
  <2>1. after[n + 1] = IF Begins(links, n + 1) THEN Begun(s, links, n + 1)
                       ELSE ResolveLink(after[n], links[n + 1].propName, FALSE)
    <3> HIDE DEF S, N
    <3>1. \A i \in 1..N : after[i] = IF Begins(links, i) THEN Begun(s, links, i)
                                     ELSE ResolveLink(after[i - 1], links[i].propName, FALSE)
      BY <1>2 DEF IsInitializing
    <3>2. n + 1 \in 1..N /\ (n + 1) - 1 = n
      OBVIOUS
    <3> QED
      BY <3>1, <3>2
  <2>2. CASE Begins(links, n + 1)
    BY <1>3, <2>1, <2>2, BegunInitialized
  <2>3. CASE ~Begins(links, n + 1)
    <3> DEFINE t == after[n]
               u == after[n + 1]
               name == links[n + 1].propName
    <3>1. /\ links[n + 1].prop = Null /\ n \in 1..N /\ n + 1 # 1
          /\ u = ResolveLink(t, name, FALSE)
      BY <2>1, <2>3 DEF Begins
    <3>2. name \in Keys
      BY <1>1, <2>3 DEF Begins, LinkType, Keys
    <3>3. Initialized(s, links, n, t)
      BY <1>5, <3>1
    <3> HIDE DEF S, t, u, name
    <3>4. /\ Good(t) /\ Larger(s, t)
          /\ LinksOK(t.heap, t.links) /\ Resolved(t.links) = t.prop /\ Len(t.links) = n
      BY <3>3 DEF Initialized
    <3>5. t.prop \in DOMAIN t.heap => t.heap[t.prop].type = "Element"
      <4>1. n \in 1..(Len(links) - 1)
        BY <1>1, <3>1
      <4> QED
        BY <3>3, <4>1, BeforeLast
    <3>6. /\ Good(u) /\ Larger(t, u)
          /\ LinksOK(u.heap, u.links) /\ Resolved(u.links) = u.prop
          /\ Len(u.links) = Len(t.links) + 1
          /\ IF t.prop \in DOMAIN t.heap
               THEN u.prop \in DOMAIN u.heap /\ u.heap[u.prop].type = "Element"
               ELSE u.prop = Null
      BY <3>1, <3>2, <3>4, <3>5, LinkMade
    <3>7. Good(u) /\ Larger(s, u) /\ Len(u.links) = n + 1
      BY <3>4, <3>6 DEF Larger
    <3>8. links[1].prop # Null =>
            \E j \in 1..(n + 1) : /\ links[j].prop # Null
                                  /\ \A k \in (j + 1)..(n + 1) : links[k].prop = Null
                                  /\ links[j].prop = Gone \/ u.prop \in DOMAIN u.heap
      <4> SUFFICES ASSUME links[1].prop # Null
                   PROVE  \E j \in 1..(n + 1) :
                            /\ links[j].prop # Null
                            /\ \A k \in (j + 1)..(n + 1) : links[k].prop = Null
                            /\ links[j].prop = Gone \/ u.prop \in DOMAIN u.heap
        OBVIOUS
      <4>1. PICK j \in 1..n : /\ links[j].prop # Null
                              /\ \A k \in (j + 1)..n : links[k].prop = Null
                              /\ links[j].prop = Gone \/ t.prop \in DOMAIN t.heap
        BY <3>3 DEF Initialized
      <4>2. j \in 1..(n + 1) /\ \A k \in (j + 1)..(n + 1) : links[k].prop = Null
        BY <3>1, <4>1
      <4> QED
        BY <3>6, <4>1, <4>2
    <3>9. Initialized(s, links, n + 1, u)
      BY <3>1, <3>6, <3>7, <3>8 DEF Initialized
    <3> QED
      BY <3>9 DEF u
  <2> QED
    BY <2>2, <2>3
<1> HIDE DEF S
<1>6. Nat \subseteq S
  BY <1>4, <1>5, NatSetInduction
<1>7. \A i \in 1..N : after[i] = IF Begins(links, i) THEN Begun(s, links, i)
                                 ELSE ResolveLink(after[i - 1], links[i].propName, FALSE)
  <2> HIDE DEF N
  <2> QED
    BY <1>2 DEF IsInitializing
<1>8. \A i \in 1..N : ~Begins(links, i) => links[i].propName \in Keys
  BY <1>1 DEF Begins, LinkType, Keys
<1>9. \A i \in 1..N : Initialized(s, links, i, after[i])
  BY <1>1, <1>6 DEF S
<1>10. Resolving(s, links, after)
  BY <1>7, <1>8, <1>9 DEF Resolving
<1> QED
  BY <1>2, <1>10

\* A wrapper that can be used is resolved to what it was resolved to before, or to
\* an element made now, unless it leads nowhere.
LEMMA InitializeMakes ==
  ASSUME NEW s, Good(s), NEW links, LinksOK(s.heap, links), Usable(links)
  PROVE  LET t == InitializeProperty(s, links, FALSE)
         IN  /\ Good(t) /\ Larger(s, t)
             /\ LinksOK(t.heap, t.links) /\ Resolved(t.links) = t.prop
             /\ Len(t.links) = Len(links)
             /\ t.prop = Null \/ t.prop \in DOMAIN t.heap
             /\ Resolved(links) # Null => t.prop = Resolved(links)
             /\ Resolved(links) = Null /\ t.prop # Null => t.heap[t.prop].type = "Element"
             /\ ~OfNothing(links) => t.prop # Null
<1> DEFINE N == Len(links)
<1>1. /\ N \in Nat /\ N > 0 /\ DOMAIN links = 1..N
      /\ \A i \in 1..N : links[i] \in LinkType(s.heap)
      /\ Resolved(links) = links[N].prop
  BY LinksFacts
<1>2. PICK after : Resolving(s, links, after) /\ InitializeProperty(s, links, FALSE) = after[N]
  BY InitializeResolves
<1> DEFINE t == after[N]
<1>3. Initialized(s, links, N, t)
  BY <1>1, <1>2 DEF Resolving
<1> HIDE DEF t
<1>4. links[N].prop # Gone
  BY <1>1 DEF Usable
<1>5. t.prop = Null \/ t.prop \in DOMAIN t.heap
  <2>1. links[N] \in LinkType(s.heap)
    BY <1>1
  <2>2. links[N].prop \in DOMAIN s.heap \cup {Null}
    BY <1>4, <2>1 DEF LinkType
  <2> QED
    BY <1>3, <2>2 DEF Initialized, Larger
<1>6. ~OfNothing(links) => t.prop # Null
  <2> SUFFICES ASSUME links[1].prop # Null
               PROVE  t.prop # Null
    BY DEF OfNothing
  <2>1. PICK j \in 1..N : /\ links[j].prop # Null
                          /\ \A k \in (j + 1)..N : links[k].prop = Null
                          /\ links[j].prop = Gone \/ t.prop \in DOMAIN t.heap
    BY <1>3 DEF Initialized
  <2>2. links[j].prop # Gone
    BY <1>1, <2>1 DEF Usable
  <2>3. Null \notin DOMAIN t.heap
    BY <1>3, Pointer DEF Initialized, Good, Sound
  <2> QED
    BY <2>1, <2>2, <2>3
<1>7. /\ Good(t) /\ Larger(s, t)
      /\ LinksOK(t.heap, t.links) /\ Resolved(t.links) = t.prop /\ Len(t.links) = N
      /\ links[N].prop # Null => t.prop = links[N].prop
      /\ links[N].prop = Null =>
           t.prop = Null \/ (t.prop \in DOMAIN t.heap /\ t.heap[t.prop].type = "Element")
  BY <1>3 DEF Initialized
<1>8. InitializeProperty(s, links, FALSE) = t
  BY <1>2 DEF t
<1> QED
  BY <1>1, <1>5, <1>6, <1>7, <1>8

\* The first wrapper of a chain.
LEMMA WrapperOf ==
  ASSUME NEW h, NEW p \in DOMAIN h \cup {Null, Gone}
  PROVE  LinksOK(h, Wrapper(p)) /\ Resolved(Wrapper(p)) = p
<1>1. Link(p, NoName) \in LinkType(h)
  <2>1. NoName \in Seq(STRING)
    BY EmptySeq DEF NoName
  <2> QED
    BY <2>1 DEF Link, LinkType
<1>2. PICK l \in LinkType(h) : l = Link(p, NoName)
  BY <1>1
<1>3. <<l>> \in Seq(LinkType(h)) /\ Len(<<l>>) = 1 /\ <<l>>[1] = l /\ <<l>> # <<>>
  OBVIOUS
<1>4. l.prop = p
  BY <1>2 DEF Link
<1>5. Wrapper(p) = <<l>> /\ Last(<<l>>) = l
  BY <1>2, <1>3 DEF Wrapper, Last
<1> QED
  BY <1>3, <1>4, <1>5 DEF LinksOK, Resolved

\* Wrappers that were just taken.
FoundOK(h, links) == LinksOK(h, links) /\ \A i \in 1..Len(links) : links[i].prop # Gone

\* operator[] leads to what exists or may be made.
LEMMA IndexFacts ==
  ASSUME NEW s, Good(s), NEW links, FoundOK(s.heap, links), NEW key \in Keys
  PROVE  FoundOK(s.heap, Index(s, links, key))
<1>1. /\ Len(links) \in Nat /\ Len(links) > 0
      /\ Resolved(links) = links[Len(links)].prop
      /\ Resolved(links) \in DOMAIN s.heap \cup {Null, Gone}
  BY LinksFacts DEF FoundOK
<1>2. Resolved(links) \in DOMAIN s.heap \cup {Null}
  BY <1>1 DEF FoundOK
<1>3. \A q \in DOMAIN s.heap : q \notin {Null, Gone}
  BY Pointer DEF Good, Sound
<1>4. ASSUME NEW p \in DOMAIN s.heap \cup {Null},
             Resolved(links) \in DOMAIN s.heap => s.heap[Resolved(links)].type = "Element"
      PROVE  FoundOK(s.heap, Append(links, Link(p, key)))
  <2>1. LinksOK(s.heap, Append(links, Link(p, key)))
    BY <1>4, AppendLinks DEF FoundOK
  <2>2. PICK l \in Seq(LinkType(s.heap)) : l = links
    BY DEF FoundOK, LinksOK
  <2>3. p # Gone /\ Link(p, key).prop = p
    BY <1>3, PointersAssumption DEF Link
  <2>4. Link(p, key) \in LinkType(s.heap)
    BY DEF Link, LinkType, Keys
  <2>5. PICK k \in LinkType(s.heap) : k = Link(p, key)
    BY <2>4
  <2>6. \A i \in 1..Len(Append(l, k)) : Append(l, k)[i] = IF i <= Len(l) THEN l[i] ELSE k
    OBVIOUS
  <2>7. \A i \in 1..Len(Append(l, k)) : i <= Len(l) => i \in 1..Len(l)
    OBVIOUS
  <2> QED
    BY <2>1, <2>2, <2>3, <2>5, <2>6, <2>7 DEF FoundOK
<1>5. CASE Resolved(links) = Null
  BY <1>3, <1>4, <1>5 DEF Index
<1>6. CASE Resolved(links) # Null /\ IsType(s, Resolved(links), "Element")
  <2>1. Resolved(links) \in DOMAIN s.heap /\ s.heap[Resolved(links)].type = "Element"
    BY <1>2, <1>6 DEF IsType
  <2>2. Child(s, Resolved(links), key) \in DOMAIN s.heap \cup {Null}
    BY <2>1, ChildFacts
  <2> QED
    BY <1>4, <1>6, <2>1, <2>2 DEF Index
<1>7. CASE Resolved(links) # Null /\ ~IsType(s, Resolved(links), "Element")
  <2>1. Index(s, links, key) = Wrapper(Null)
    BY <1>7 DEF Index
  <2>2. LinksOK(s.heap, Wrapper(Null))
    BY WrapperOf
  <2>3. Len(Wrapper(Null)) = 1 /\ Wrapper(Null)[1].prop = Null
    BY DEF Wrapper, Link
  <2> QED
    BY <2>1, <2>2, <2>3, PointersAssumption DEF FoundOK
<1> QED
  BY <1>5, <1>6, <1>7

IsTaking(s, p, path, n, f) ==
  f = [i \in 0..n |-> IF i = 0 THEN Wrapper(p) ELSE Index(s, f[i - 1], path[i])]

\* The equation of the recursion in GetFromPath has a solution.
LEMMA TakingExists ==
  ASSUME NEW s, NEW p, NEW path
  PROVE  \A n \in Nat : \E f : IsTaking(s, p, path, n, f)
<1> DEFINE S == {n \in Nat : \E f : IsTaking(s, p, path, n, f)}
<1>1. 0 \in S
  <2>1. IsTaking(s, p, path, 0, [i \in 0..0 |-> Wrapper(p)])
    BY DEF IsTaking
  <2> QED
    BY <2>1
<1>2. \A n \in Nat : n \in S => n + 1 \in S
  <2> SUFFICES ASSUME NEW n \in Nat, NEW f, IsTaking(s, p, path, n, f)
               PROVE  \E g : IsTaking(s, p, path, n + 1, g)
    OBVIOUS
  <2> DEFINE g == [i \in 0..(n + 1) |-> IF i = n + 1 THEN Index(s, f[n], path[i]) ELSE f[i]]
  <2>1. \A i \in 0..n : f[i] = IF i = 0 THEN Wrapper(p) ELSE Index(s, f[i - 1], path[i])
    BY DEF IsTaking
  <2>2. \A i \in 0..(n + 1) : g[i] = IF i = 0 THEN Wrapper(p) ELSE Index(s, g[i - 1], path[i])
    BY <2>1
  <2>3. g = [i \in 0..(n + 1) |-> g[i]]
    OBVIOUS
  <2>4. IsTaking(s, p, path, n + 1, g)
    <3> HIDE DEF g
    <3> QED
      BY <2>2, <2>3 DEF IsTaking
  <2> QED
    BY <2>4
<1> HIDE DEF S
<1>3. Nat \subseteq S
  BY <1>1, <1>2, NatSetInduction
<1> QED
  BY <1>3 DEF S

\* A wrapper that was just taken has no pointer that dangles.
LEMMA GetFromPathFacts ==
  ASSUME NEW s, Good(s), NEW p \in DOMAIN s.heap, NEW path \in Seq(Keys)
  PROVE  FoundOK(s.heap, GetFromPath(s, p, path))
<1> DEFINE N == Len(path)
           links == CHOOSE f : IsTaking(s, p, path, N, f)
           S == {n \in Nat : n \in 0..N => FoundOK(s.heap, links[n])}
<1>1. N \in Nat /\ \A i \in 1..N : path[i] \in Keys
  OBVIOUS
<1>2. IsTaking(s, p, path, N, links)
  BY <1>1, TakingExists
<1>3. GetFromPath(s, p, path) = links[N]
  BY DEF GetFromPath, IsTaking
<1> HIDE DEF links, N
<1>4. \A i \in 0..N : links[i] = IF i = 0 THEN Wrapper(p) ELSE Index(s, links[i - 1], path[i])
  BY <1>2 DEF IsTaking
<1>5. FoundOK(s.heap, Wrapper(p))
  <2>1. LinksOK(s.heap, Wrapper(p))
    BY WrapperOf
  <2>2. Len(Wrapper(p)) = 1 /\ Wrapper(p)[1].prop = p
    BY DEF Wrapper, Link
  <2> QED
    BY <2>1, <2>2, Pointer DEF FoundOK, Good, Sound
<1>6. 0 \in S
  BY <1>1, <1>4, <1>5
<1>7. ASSUME NEW n \in Nat, n \in S
      PROVE  n + 1 \in S
  <2> SUFFICES ASSUME n + 1 \in 0..N
               PROVE  FoundOK(s.heap, links[n + 1])
    OBVIOUS
  <2>1. n \in 0..N /\ n + 1 \in 1..N /\ n + 1 # 0 /\ (n + 1) - 1 = n
    BY <1>1
  <2>2. FoundOK(s.heap, links[n]) /\ path[n + 1] \in Keys
    BY <1>1, <1>7, <2>1
  <2>3. links[n + 1] = Index(s, links[n], path[n + 1])
    BY <1>4, <2>1
  <2> QED
    BY <2>2, <2>3, IndexFacts
<1> HIDE DEF S
<1>8. Nat \subseteq S
  BY <1>6, <1>7, NatSetInduction
<1>9. N \in 0..N
  BY <1>1
<1> QED
  BY <1>1, <1>3, <1>8, <1>9 DEF S

\* A call that ends well.
CallDone(s, t) ==
  /\ Good(t) /\ t.roots = s.roots /\ t.outcome # "undefined"
  /\ LinksOK(t.heap, t.links) \/ t.links = s.links
  /\ \A links : LinksOK(s.heap, links) => LinksOK(t.heap, links)

\* A call that only makes properties ends well.
LEMMA LargerDone ==
  ASSUME NEW s, NEW t, NEW u, Good(t), Larger(s, t), LinksOK(t.heap, t.links),
         Good(u), Grown(t, u), s.outcome = "ok"
  PROVE  CallDone(s, u)
<1>1. Larger(s, u)
  BY DEF Larger, Grown
<1>2. LinksOK(u.heap, u.links)
  BY GrownLinks DEF Grown
<1>3. \A links : LinksOK(s.heap, links) => LinksOK(u.heap, links)
  BY <1>1, GrownLinks
<1> QED
  BY <1>1, <1>2, <1>3 DEF CallDone, Larger

\* A call that throws ends well.
LEMMA ThrowDone ==
  ASSUME NEW s, NEW t, Good(t), Larger(s, t), LinksOK(t.heap, t.links), s.outcome = "ok",
         NEW exception, exception # "undefined"
  PROVE  CallDone(s, Throw(t, exception))
<1> DEFINE u == Throw(t, exception)
<1>1. /\ IsState(u) /\ u.heap = t.heap /\ u.roots = t.roots
      /\ u.outcome = exception /\ u.links = t.links
  BY ThrowFacts DEF Good
<1> HIDE DEF u
<1>2. \A links : LinksOK(s.heap, links) => LinksOK(u.heap, links)
  BY <1>1, GrownLinks
<1>3. CallDone(s, u)
  BY <1>1, <1>2 DEF CallDone, Good, Larger
<1> QED
  BY <1>3 DEF u

\* PropertyWrapper::Add as the program may call it.
LEMMA WrapperAddDone ==
  ASSUME NEW s, Good(s), s.outcome = "ok", NEW links, LinksOK(s.heap, links), Usable(links),
         ~OfNothing(links),
         NEW name \in Seq(STRING), name # NoName, NEW leaf, NEW pathToElements \in BOOLEAN,
         LET t == InitializeProperty(s, links, FALSE)
             first == Child(t, t.prop, SubSeq(name, 1, 1))
         IN  pathToElements /\ IsType(t, t.prop, "Element") =>
               first = Null \/ IsType(t, first, "Element")
  PROVE  LET u == WrapperAdd(s, links, name, leaf, pathToElements)
         IN  /\ CallDone(s, u)
             /\ u.outcome = "ok" => LinksOK(u.heap, Returned(u))
<1> DEFINE t == InitializeProperty(s, links, FALSE)
           u == WrapperAdd(s, links, name, leaf, pathToElements)
<1>1. /\ Good(t) /\ Larger(s, t)
      /\ LinksOK(t.heap, t.links) /\ Resolved(t.links) = t.prop
      /\ t.prop \in DOMAIN t.heap /\ t.prop # Null
  BY InitializeMakes
<1>2. t.prop \notin {Null, Gone}
  BY <1>1, Pointer DEF Good, Sound
<1>3. CASE t.heap[t.prop].type # "Element"
  <2>1. u = Throw(t, "InvalidUsageError")
    BY <1>2, <1>3 DEF WrapperAdd, IsType
  <2> HIDE DEF t, u
  <2>2. CallDone(s, u) /\ u.outcome = "InvalidUsageError"
    BY <1>1, <2>1, ThrowDone, ThrowFacts DEF Good
  <2> QED
    BY <2>2 DEF u
<1>4. CASE t.heap[t.prop].type = "Element"
  <2>1. pathToElements => \/ Child(t, t.prop, SubSeq(name, 1, 1)) = Null
                          \/ IsType(t, Child(t, t.prop, SubSeq(name, 1, 1)), "Element")
    BY <1>2, <1>4 DEF IsType
  <2>2. u = IF leaf.type = "Array" THEN AddArray(t, t.prop, name, leaf.value, pathToElements)
            ELSE Add(t, t.prop, name, leaf.type, pathToElements)
    BY <1>2, <1>4 DEF WrapperAdd, IsType
  <2> HIDE DEF t, u
  <2>3. Added(t, u, leaf.type)
    <3>1. CASE leaf.type = "Array"
      <4>1. t.outcome = "ok"
        BY <1>1 DEF Larger
      <4>2. Added(t, AddArray(t, t.prop, name, leaf.value, pathToElements), "Array")
        BY <1>1, <1>4, <2>1, <4>1, AddArraySound
      <4> QED
        BY <2>2, <3>1, <4>2
    <3>2. CASE leaf.type # "Array"
      <4>1. Added(t, Add(t, t.prop, name, leaf.type, pathToElements), leaf.type)
        BY <1>1, <1>4, <2>1, AddSound
      <4> QED
        BY <2>2, <3>2, <4>1
    <3> QED
      BY <3>1, <3>2
  <2>4. CallDone(s, u)
    BY <1>1, <2>3, LargerDone DEF Added
  <2>5. LinksOK(u.heap, Returned(u))
    <3> DEFINE a == Link(Resolved(u.links), NoName)
               b == Link(u.prop, NoName)
    <3>1. /\ Resolved(u.links) = t.prop /\ t.prop \in DOMAIN u.heap
          /\ u.heap[t.prop].type = "Element" /\ u.prop \in DOMAIN u.heap
      BY <1>1, <1>4, <2>3 DEF Added, Grown, Larger
    <3>2. u.prop # Null
      BY <2>3, <3>1, Pointer DEF Added, Good, Sound
    <3>3. a \in LinkType(u.heap) /\ b \in LinkType(u.heap)
      <4>1. NoName \in Seq(STRING)
        BY EmptySeq DEF NoName
      <4> QED
        BY <3>1, <4>1 DEF Link, LinkType
    <3>4. a.prop = t.prop /\ b.prop = u.prop
      BY <3>1 DEF Link
    <3> HIDE DEF a, b
    <3>5. /\ <<a, b>> \in Seq(LinkType(u.heap)) /\ <<a, b>> # <<>> /\ Len(<<a, b>>) = 2
          /\ <<a, b>>[1] = a /\ <<a, b>>[2] = b
      BY <3>3
    <3>6. LinksOK(u.heap, <<a, b>>)
      BY <3>1, <3>2, <3>4, <3>5 DEF LinksOK
    <3> QED
      BY <3>6 DEF Returned, a, b
  <2> QED
    BY <2>4, <2>5 DEF u
<1> QED
  BY <1>3, <1>4

\* A set of numbers has a least one.
LEMMA LeastExists ==
  ASSUME NEW S \in SUBSET Nat, S # {}
  PROVE  Min(S) \in S
<1>1. ASSUME ~\E x \in S : \A y \in S : x <= y
      PROVE  FALSE
  <2> DEFINE G == {n \in Nat : \A y \in S : n <= y}
  <2>1. 0 \in G
    OBVIOUS
  <2>2. \A n \in Nat : n \in G => n + 1 \in G
    BY <1>1
  <2> HIDE DEF G
  <2>3. Nat \subseteq G
    BY <2>1, <2>2, NatSetInduction
  <2>4. PICK x \in S : TRUE
    OBVIOUS
  <2>5. x + 1 \in G
    BY <2>3
  <2> QED
    BY <2>4, <2>5 DEF G
<1> QED
  BY <1>1 DEF Min

\* An element is replaced in the element that its parentProperty leads to.
LEMMA SetValueSound ==
  ASSUME NEW s, Good(s), NEW el \in DOMAIN s.heap, s.heap[el].type = "Element",
         NEW p \in DOMAIN s.heap, Unheld(s.heap, p), p \notin s.roots,
         s.heap[p].parentProperty = Null, NEW order \in Seq(Keys)
  PROVE  LET t == SetValue(s, el, p, order)
         IN  t = Throw(s, "InvalidUsageError") \/ (Good(t) /\ Grown(s, t))
<1> DEFINE parent == s.heap[el].parentProperty
           held == {i \in DOMAIN order : Child(s, parent, order[i]) = el}
           t == SetValue(s, el, p, order)
<1>1. parent = Null \/ parent \in DOMAIN s.heap
  BY DEF Good, Sound, CellOK
<1>2. \A q \in DOMAIN s.heap : q \notin {Null, Gone}
  BY Pointer DEF Good, Sound
<1>3. CASE parent = Null
  BY <1>3 DEF SetValue
<1>4. CASE parent # Null /\ held = {}
  <2>1. t = s
    BY <1>1, <1>2, <1>4 DEF SetValue
  <2> HIDE DEF t
  <2> QED
    BY <2>1 DEF Grown, Larger, t
<1>5. CASE parent # Null /\ held # {}
  <2>1. parent \in DOMAIN s.heap /\ parent # Gone
    BY <1>1, <1>2, <1>5
  <2>2. held \in SUBSET Nat
    OBVIOUS
  <2> DEFINE i == Min(held)
  <2>3. i \in held
    BY <1>5, <2>2, LeastExists
  <2>4. t = Put(s, parent, order[i], p)
    BY <1>5, <2>1 DEF SetValue
  <2>5. order[i] \in Keys /\ Child(s, parent, order[i]) = el
    BY <2>3
  <2> HIDE DEF i, held, t, parent
  <2>6. order[i] \in DOMAIN s.heap[parent].children
    BY <1>2, <2>1, <2>5, ChildFacts
  <2>7. s.heap[parent].type = "Element"
    BY <2>1, <2>6 DEF Good, Sound, CellOK
  <2>8. Good(t) /\ Grown(s, t)
    BY <2>1, <2>4, <2>5, <2>7, PutSound
  <2> QED
    BY <2>8 DEF t
<1> QED
  BY <1>3, <1>4, <1>5

\* Assignment of a scalar, of the type of what is there if that is a scalar.
LEMMA AssignDone ==
  ASSUME NEW s, Good(s), s.outcome = "ok", NEW links, LinksOK(s.heap, links), Usable(links),
         NEW leaf, NEW order \in Seq(Keys),
         Resolved(links) # Null => s.heap[Resolved(links)].type \in {"Element", "Array", leaf.type}
  PROVE  CallDone(s, Assign(s, links, leaf, order))
<1> DEFINE t == InitializeProperty(s, links, FALSE)
           made == Create(t, leaf.type, leaf.value)
           u == Assign(s, links, leaf, order)
<1>1. /\ Good(t) /\ Larger(s, t) /\ LinksOK(t.heap, t.links)
      /\ t.prop = Null \/ t.prop \in DOMAIN t.heap
      /\ Resolved(links) # Null => t.prop = Resolved(links)
      /\ Resolved(links) = Null /\ t.prop # Null => t.heap[t.prop].type = "Element"
  BY InitializeMakes
<1>2. t.prop # Null => t.prop \in DOMAIN t.heap /\ t.prop # Gone
  BY <1>1, Pointer DEF Good, Sound
<1>3. CASE t.prop = Null \/ t.heap[t.prop].type = "Array"
  <2>1. u = Throw(t, "LogicError")
    BY <1>2, <1>3 DEF Assign, IsType
  <2> HIDE DEF t, u
  <2>2. CallDone(s, u)
    BY <1>1, <2>1, ThrowDone
  <2> QED
    BY <2>2 DEF u
<1>4. CASE t.prop # Null /\ t.heap[t.prop].type = "Element"
  <2>1. u = SetValue(made, t.prop, made.prop, order)
    BY <1>2, <1>4 DEF Assign, IsType
  <2> HIDE DEF t, u
  <2>2. Good(made) /\ Grown(t, made)
    BY <1>1, CreateFacts
  <2>3. PICK c : Made(t, made, c) /\ c.parentProperty = Null
    BY <1>1, CreateFacts
  <2> HIDE DEF made
  <2>4. /\ made.prop \in DOMAIN made.heap /\ Unheld(made.heap, made.prop)
        /\ made.prop \notin made.roots /\ made.heap[made.prop].parentProperty = Null
    BY <2>3 DEF Made
  <2>5. t.prop \in DOMAIN made.heap /\ made.heap[t.prop].type = "Element"
    BY <1>2, <1>4, <2>2 DEF Grown, Larger
  <2>6. u = Throw(made, "InvalidUsageError") \/ (Good(u) /\ Grown(made, u))
    BY <2>1, <2>2, <2>4, <2>5, SetValueSound
  <2>7. LinksOK(made.heap, made.links) /\ Larger(s, made)
    BY <1>1, <2>2, GrownLinks DEF Grown, Larger
  <2>8. CallDone(s, u)
    BY <2>2, <2>6, <2>7, ThrowDone, LargerDone
  <2> QED
    BY <2>8 DEF u
<1>5. CASE t.prop # Null /\ t.heap[t.prop].type \notin {"Element", "Array"}
  <2>1. Resolved(links) # Null /\ t.prop = Resolved(links)
    BY <1>1, <1>5
  <2>2. Resolved(links) \in DOMAIN s.heap
    <3>1. Resolved(links) \in DOMAIN s.heap \cup {Null, Gone}
      BY LinksFacts
    <3> QED
      BY <1>2, <1>5, <2>1, <3>1
  <2>3. t.heap[t.prop].type = leaf.type
    BY <1>1, <1>5, <2>1, <2>2 DEF Larger
  <2> DEFINE v == [t EXCEPT !.heap[t.prop].value = leaf.value]
  <2>4. u = v
    BY <1>2, <1>5, <2>3 DEF Assign, IsType
  <2> HIDE DEF t, u
  <2>5. Good(v) /\ Grown(t, v)
    BY <1>1, <1>2, <1>5, ValueSound
  <2>6. CallDone(s, u)
    <3> HIDE DEF v
    <3> QED
      BY <1>1, <2>4, <2>5, LargerDone
  <2> QED
    BY <2>6 DEF u
<1> QED
  BY <1>3, <1>4, <1>5
=============================================================================
