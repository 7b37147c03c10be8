-------------------------- MODULE ElementTreeProofs --------------------------
(***************************************************************************)
(* Proofs about ElementTree, for any documents, wrappers, paths, names,    *)
(* values, orders of hash tables and bounds, and every program that        *)
(* observes the rules in Careful.                                          *)
(***************************************************************************)
EXTENDS MergeProofs

\* The properties that documents hold, each with the place it is held at.
Placing(h, newDocs, met) ==
  /\ IsFiniteSet(met)
  /\ \A x \in met : /\ x[1] \in Seq(Steps) \ {<<>>} /\ x[2] \in DOMAIN h
                    /\ PlaceOf(met, x[2]) = x[1] /\ EndOf(met, x[1]) = x[2]
  /\ \A x \in met : \A key \in DOMAIN h[x[2]].children :
       <<Append(x[1], key), h[x[2]].children[key]>> \in met
  /\ \A x \in met :
       \/ \E d \in Docs : x = <<<<d>>, newDocs[d]>>
       \/ \E at \in met : \E key \in DOMAIN h[at[2]].children :
            x = <<Append(at[1], key), h[at[2]].children[key]>>
  /\ \A d \in Docs : <<<<d>>, newDocs[d]>> \in met

Distinct(newDocs) == \A d, e \in Docs : newDocs[d] = newDocs[e] => d = e

\* At the end of a call, what documents hold has one place each.
LEMMA SurvivorsPlaced ==
  ASSUME NEW s, NEW newDocs \in [Docs -> DOMAIN s.heap], Distinct(newDocs),
         Sound(s.heap, Roots(newDocs))
  PROVE  Placing(s.heap, newDocs, Survivors(s, newDocs))
<1> DEFINE h == s.heap
           start == {<<<<d>>, newDocs[d]>> : d \in Docs}
           M == Met(h, start)
<1>1. Survivors(s, newDocs) = M
  BY DEF Survivors
<1>2. Linked(h, Steps) /\ HeldOnce(h) /\ IsFiniteSet(DOMAIN h)
  BY StepsLinked DEF Sound
<1>3. \A d \in Docs : RootOK(h, newDocs[d])
  BY DEF Sound, Roots
<1> HIDE DEF h
<1>4. \A d \in Docs : <<d>> \in Seq(Steps) /\ Len(<<d>>) = 1 /\ newDocs[d] \in DOMAIN h
  BY DEF Steps, h
<1>5. start \in SUBSET (Seq(Steps) \X DOMAIN h)
  BY <1>4
<1>6. Once(start) /\ \A x \in start : Len(x[1]) = 1
  <2>1. \A d, e \in Docs : <<d>> = <<e>> <=> newDocs[d] = newDocs[e]
    BY DEF Distinct
  <2>2. \A x \in start : Len(x[1]) = 1
    BY <1>4
  <2> QED
    BY <2>1, <2>2 DEF Once
<1>7. \A d \in Docs : <<<<d>>, newDocs[d]>> \in start
  OBVIOUS
<1>8. \A x \in start : \E d \in Docs : x = <<<<d>>, newDocs[d]>>
  OBVIOUS
<1> HIDE DEF start
<1>9. /\ M \in SUBSET (Seq(Steps) \X DOMAIN h)
      /\ start \subseteq M
      /\ \A x \in M : x \in start \/ \E at \in M : x \in Below(h, at)
      /\ \A at \in M : \A x \in Below(h, at) : x[2] \in Ends(M)
  BY <1>2, <1>5, MetFacts
<1>10. Once(M)
  BY <1>2, <1>5, <1>6, MetOnce
<1> HIDE DEF M
<1>11. \A x \in M : x = <<x[1], x[2]>> /\ x[1] \in Seq(Steps) /\ x[2] \in DOMAIN h
  BY <1>9
<1>12. \A x, y \in M : x[1] = y[1] \/ x[2] = y[2] => x = y
  <2> SUFFICES ASSUME NEW x \in M, NEW y \in M, x[1] = y[1] \/ x[2] = y[2]
               PROVE  x = y
    OBVIOUS
  <2>1. x[1] = y[1] /\ x[2] = y[2]
    BY <1>10 DEF Once
  <2>2. x = <<x[1], x[2]>> /\ y = <<y[1], y[2]>>
    BY <1>11
  <2> QED
    BY <2>1, <2>2
<1>13. \A x \in M : PlaceOf(M, x[2]) = x[1] /\ EndOf(M, x[1]) = x[2]
  BY <1>12 DEF PlaceOf, EndOf
<1>14. \A x \in M :
         \/ \E d \in Docs : x = <<<<d>>, newDocs[d]>>
         \/ \E at \in M : \E key \in DOMAIN h[at[2]].children :
              x = <<Append(at[1], key), h[at[2]].children[key]>>
  BY <1>8, <1>9 DEF Below
<1>15. \A x \in M : x[1] # <<>>
  <2> SUFFICES ASSUME NEW x \in M
               PROVE  x[1] # <<>>
    OBVIOUS
  <2>1. CASE \E d \in Docs : x = <<<<d>>, newDocs[d]>>
    BY <2>1
  <2>2. ASSUME NEW at \in M, NEW key \in DOMAIN h[at[2]].children,
               x = <<Append(at[1], key), h[at[2]].children[key]>>
        PROVE  x[1] # <<>>
    <3>1. PICK u \in Seq(Steps), k \in Steps : u = at[1] /\ k = key
      BY <1>2, <1>11 DEF Linked
    <3>2. Append(u, k) # <<>>
      BY AppendFacts
    <3> QED
      BY <2>2, <3>1, <3>2
  <2> QED
    BY <1>14, <2>1, <2>2
<1>16. ASSUME NEW x \in M, NEW key \in DOMAIN h[x[2]].children
       PROVE  <<Append(x[1], key), h[x[2]].children[key]>> \in M
  <2> DEFINE y == <<Append(x[1], key), h[x[2]].children[key]>>
  <2>1. y[2] \in Ends(M)
    <3>1. y \in Below(h, x)
      BY DEF Below
    <3> QED
      BY <1>9, <3>1
  <2>2. PICK z \in M : z[2] = h[x[2]].children[key]
    BY <2>1 DEF Ends
  <2>3. ~\E d \in Docs : z = <<<<d>>, newDocs[d]>>
    BY <1>3, <1>11, <2>2 DEF RootOK, Unheld, Holds
  <2>4. PICK at \in M : \E k \in DOMAIN h[at[2]].children :
          z = <<Append(at[1], k), h[at[2]].children[k]>>
    BY <1>14, <2>3
  <2>5. PICK k \in DOMAIN h[at[2]].children :
          z = <<Append(at[1], k), h[at[2]].children[k]>>
    BY <2>4
  <2>6. h[at[2]].children[k] = h[x[2]].children[key]
    BY <2>2, <2>5
  <2>7. at[2] \in DOMAIN h /\ x[2] \in DOMAIN h
    BY <1>11
  <2>8. at[2] = x[2] /\ k = key
    BY <1>2, <2>6, <2>7 DEF HeldOnce
  <2>9. at = x
    BY <1>12, <2>8
  <2> QED
    BY <2>5, <2>8, <2>9
<1>17. IsFiniteSet(M)
  BY <1>2, <1>11, <1>12, FinitelyMany
<1>18. \A d \in Docs : <<<<d>>, newDocs[d]>> \in M
  BY <1>7, <1>9
<1>19. Placing(h, newDocs, M)
  BY <1>11, <1>13, <1>14, <1>15, <1>16, <1>17, <1>18 DEF Placing
<1> QED
  BY <1>1, <1>19 DEF h

\* Where raw pointers lead after it: to the place of what has survived, or nowhere.
LEMMA MovedFacts ==
  ASSUME NEW h, NEW R, Sound(h, R), NEW newDocs, NEW met, Placing(h, newDocs, met)
  PROVE  /\ Moved(met, Null) = Null
         /\ \A x \in met : Moved(met, x[2]) = x[1]
         /\ \A p : p # Null => Moved(met, p) \in {x[1] : x \in met} \cup {Gone}
         /\ \A p : p # Null => Moved(met, p) # Null
<1>1. \A x \in met : /\ x[1] \in Seq(Steps) /\ x[2] \in DOMAIN h
                     /\ PlaceOf(met, x[2]) = x[1]
  BY DEF Placing
<1>2. \A x \in met : x[2] # Null
  BY <1>1, Pointer DEF Sound
<1>3. \A x \in met : Moved(met, x[2]) = x[1]
  BY <1>1, <1>2 DEF Moved, Ends
<1>4. \A p : p # Null => Moved(met, p) \in {x[1] : x \in met} \cup {Gone}
  BY <1>1 DEF Moved, Ends
<1>5. \A x \in met : x[1] # Null
  BY <1>1, Pointer
<1>6. \A p : p # Null => Moved(met, p) # Null
  BY <1>4, <1>5, PointersAssumption
<1> QED
  BY <1>3, <1>4, <1>6 DEF Moved

\* What the end of a call makes of the properties.
Relocated(h, met, g) ==
  /\ DOMAIN g = {x[1] : x \in met}
  /\ \A x \in met :
       /\ IsCell(g[x[1]]) /\ g[x[1]].type = h[x[2]].type /\ g[x[1]].value = h[x[2]].value
       /\ g[x[1]].fromProperty = Moved(met, h[x[2]].fromProperty)
       /\ g[x[1]].parentProperty = Moved(met, h[x[2]].parentProperty)
       /\ DOMAIN g[x[1]].children = DOMAIN h[x[2]].children
  /\ \A x \in met : \A key \in DOMAIN h[x[2]].children :
       g[x[1]].children[key] = Append(x[1], key)

\* The cells of what has survived.
LEMMA SweptCells ==
  ASSUME NEW h, NEW R, Sound(h, R), NEW newDocs, NEW met, Placing(h, newDocs, met)
  PROVE  Relocated(h, met, Sweep(h, met))
<1> DEFINE g == Sweep(h, met)
           Cell(c) ==
             [type |-> c.type, value |-> c.value,
              children |-> [key \in DOMAIN c.children |-> Moved(met, c.children[key])],
              fromProperty |-> Moved(met, c.fromProperty),
              parentProperty |-> Moved(met, c.parentProperty)]
<1>1. g = [a \in {PlaceOf(met, p) : p \in Ends(met)} |-> Cell(h[EndOf(met, a)])]
  BY DEF Sweep
<1>2. /\ \A x \in met : PlaceOf(met, x[2]) = x[1] /\ EndOf(met, x[1]) = x[2] /\ x[2] \in DOMAIN h
      /\ \A x \in met : \A key \in DOMAIN h[x[2]].children :
           <<Append(x[1], key), h[x[2]].children[key]>> \in met
  BY DEF Placing
<1>3. {PlaceOf(met, p) : p \in Ends(met)} = {x[1] : x \in met}
  BY <1>2 DEF Ends
<1> HIDE DEF g
<1>4. DOMAIN g = {x[1] : x \in met} /\ \A x \in met : g[x[1]] = Cell(h[x[2]])
  <2> HIDE DEF Cell
  <2>1. g = [a \in {x[1] : x \in met} |-> Cell(h[EndOf(met, a)])]
    BY <1>1, <1>3
  <2> QED
    BY <1>2, <2>1
<1>5. ASSUME NEW c
      PROVE  /\ IsCell(Cell(c)) /\ Cell(c).type = c.type
             /\ Cell(c).value = c.value
             /\ Cell(c).fromProperty = Moved(met, c.fromProperty)
             /\ Cell(c).parentProperty = Moved(met, c.parentProperty)
             /\ DOMAIN Cell(c).children = DOMAIN c.children
             /\ \A key \in DOMAIN c.children : Cell(c).children[key] = Moved(met, c.children[key])
  BY DEF IsCell
<1> HIDE DEF Cell
<1>6. \A x \in met : IsCell(h[x[2]])
  BY <1>2 DEF Sound, CellOK
<1>7. \A x \in met :
        /\ IsCell(g[x[1]]) /\ g[x[1]].type = h[x[2]].type /\ g[x[1]].value = h[x[2]].value
        /\ g[x[1]].fromProperty = Moved(met, h[x[2]].fromProperty)
        /\ g[x[1]].parentProperty = Moved(met, h[x[2]].parentProperty)
        /\ DOMAIN g[x[1]].children = DOMAIN h[x[2]].children
  BY <1>4, <1>5, <1>6
<1>8. ASSUME NEW x \in met, NEW key \in DOMAIN h[x[2]].children
      PROVE  g[x[1]].children[key] = Append(x[1], key)
  <2>1. g[x[1]].children[key] = Moved(met, h[x[2]].children[key])
    BY <1>4, <1>5, <1>6
  <2> DEFINE y == <<Append(x[1], key), h[x[2]].children[key]>>
  <2>2. y \in met /\ y[1] = Append(x[1], key) /\ y[2] = h[x[2]].children[key]
    BY <1>2
  <2> HIDE DEF y
  <2>3. Moved(met, y[2]) = y[1]
    BY <2>2, MovedFacts
  <2> QED
    BY <2>1, <2>2, <2>3
<1> QED
  BY <1>4, <1>7, <1>8 DEF g, Relocated

\* What has survived is a tree, under addresses that are places.
LEMMA SweptSound ==
  ASSUME NEW h, NEW newDocs, Sound(h, Roots(newDocs)), NEW met, Placing(h, newDocs, met)
  PROVE  Sound(Sweep(h, met), Roots(docs)) /\ IsTree(Sweep(h, met))
<1> DEFINE g == Sweep(h, met)
<1>1. /\ DOMAIN g = {x[1] : x \in met}
      /\ \A x \in met :
           /\ IsCell(g[x[1]]) /\ g[x[1]].type = h[x[2]].type
           /\ g[x[1]].fromProperty = Moved(met, h[x[2]].fromProperty)
           /\ g[x[1]].parentProperty = Moved(met, h[x[2]].parentProperty)
           /\ DOMAIN g[x[1]].children = DOMAIN h[x[2]].children
      /\ \A x \in met : \A key \in DOMAIN h[x[2]].children :
           g[x[1]].children[key] = Append(x[1], key)
  <2>1. Relocated(h, met, g)
    BY SweptCells
  <2> HIDE DEF g
  <2> QED
    BY <2>1 DEF Relocated
<1> HIDE DEF g
<1>2. /\ IsFiniteSet(met)
      /\ \A x \in met : x[1] \in Seq(Steps) /\ x[1] # <<>> /\ x[2] \in DOMAIN h
      /\ \A x \in met : \A key \in DOMAIN h[x[2]].children :
           <<Append(x[1], key), h[x[2]].children[key]>> \in met
      /\ \A x \in met :
           \/ \E d \in Docs : x = <<<<d>>, newDocs[d]>>
           \/ \E at \in met : \E key \in DOMAIN h[at[2]].children :
                x = <<Append(at[1], key), h[at[2]].children[key]>>
      /\ \A d \in Docs : <<<<d>>, newDocs[d]>> \in met
  BY DEF Placing
<1>3. \A x \in met : \A key \in DOMAIN h[x[2]].children : key \in Keys /\ key \in Steps
  BY <1>2 DEF Sound, Linked, Steps
<1>4. \A d \in Docs : RootOK(h, newDocs[d])
  BY DEF Sound, Roots
<1>5. \A a \in DOMAIN g : \E x \in met : a = x[1]
  BY <1>1
<1>6. IsFiniteSet(DOMAIN g)
  <2> DEFINE first == [x \in met |-> x[1]]
  <2>1. first \in Surjection(met, DOMAIN g)
    BY <1>1 DEF Surjection
  <2> QED
    BY <1>2, <2>1, FS_Surjection
<1>7. \A x \in met : \A key \in DOMAIN h[x[2]].children :
        Append(x[1], key) \in DOMAIN g /\ Append(x[1], key) \in Seq(Steps)
  <2> SUFFICES ASSUME NEW x \in met, NEW key \in DOMAIN h[x[2]].children
               PROVE  Append(x[1], key) \in DOMAIN g /\ Append(x[1], key) \in Seq(Steps)
    OBVIOUS
  <2>1. PICK y \in met : y = <<Append(x[1], key), h[x[2]].children[key]>>
    BY <1>2
  <2> QED
    BY <1>1, <1>2, <2>1
<1>8. Linked(g, Keys)
  <2> SUFFICES ASSUME NEW x \in met, NEW key \in DOMAIN h[x[2]].children
               PROVE  key \in Keys /\ g[x[1]].children[key] \in DOMAIN g
    BY <1>1, <1>5 DEF Linked
  <2> QED
    BY <1>1, <1>3, <1>7
<1>9. HeldOnce(g)
  <2> SUFFICES ASSUME NEW x \in met, NEW y \in met,
                      NEW k \in DOMAIN h[x[2]].children, NEW l \in DOMAIN h[y[2]].children,
                      g[x[1]].children[k] = g[y[1]].children[l]
               PROVE  x[1] = y[1] /\ k = l
    BY <1>1, <1>5 DEF HeldOnce
  <2>1. Append(x[1], k) = Append(y[1], l)
    BY <1>1
  <2>2. PICK u \in Seq(Steps), v \in Seq(Steps) : u = x[1] /\ v = y[1]
    BY <1>2
  <2>3. k \in Steps /\ l \in Steps /\ Append(u, k) = Append(v, l)
    BY <1>3, <2>1, <2>2
  <2>4. u = v /\ k = l
    BY <2>3, AppendOnce
  <2> QED
    BY <2>2, <2>4
<1>10. ASSUME NEW x \in met
       PROVE  CellOK(g, x[1])
  <2>1. CellOK(h, x[2])
    BY <1>2 DEF Sound
  <2>2. Moved(met, Null) = Null /\ Moved(met, x[2]) = x[1]
    BY MovedFacts
  <2>3. ASSUME h[x[2]].parentProperty # Null
        PROVE  /\ g[x[1]].parentProperty \in DOMAIN g
               /\ Holds(g, g[x[1]].parentProperty, x[1])
    <3>1. ~\E d \in Docs : x = <<<<d>>, newDocs[d]>>
      <4> SUFFICES ASSUME NEW d \in Docs, x[2] = newDocs[d]
                   PROVE  FALSE
        OBVIOUS
      <4> QED
        BY <1>4, <2>3 DEF RootOK
    <3>2. PICK at \in met : \E key \in DOMAIN h[at[2]].children :
            x = <<Append(at[1], key), h[at[2]].children[key]>>
      BY <1>2, <3>1
    <3>3. PICK key \in DOMAIN h[at[2]].children :
            x = <<Append(at[1], key), h[at[2]].children[key]>>
      BY <3>2
    <3>4. x[1] = Append(at[1], key) /\ x[2] = h[at[2]].children[key] /\ at[2] \in DOMAIN h
      BY <1>2, <3>3
    <3>5. h[x[2]].parentProperty \in DOMAIN h /\ Holds(h, h[x[2]].parentProperty, x[2])
      BY <2>1, <2>3, <3>4 DEF CellOK, Unheld, Holds
    <3>6. h[x[2]].parentProperty = at[2]
      BY <3>4, <3>5 DEF Holds, Sound, HeldOnce
    <3>7. g[x[1]].parentProperty = at[1]
      BY <1>1, <3>6, MovedFacts
    <3>8. at[1] \in DOMAIN g /\ key \in DOMAIN g[at[1]].children /\ g[at[1]].children[key] = x[1]
      BY <1>1, <3>4
    <3> QED
      BY <3>7, <3>8 DEF Holds
  <2>4. h[x[2]].parentProperty = Null => g[x[1]].parentProperty = Null
    BY <1>1, <2>2
  <2>5. g[x[1]].fromProperty \in {Null, x[1]}
    BY <1>1, <2>1, <2>2 DEF CellOK
  <2>6. g[x[1]].type # "Element" =>
          g[x[1]].parentProperty = Null /\ DOMAIN g[x[1]].children = {}
    BY <1>1, <2>1, <2>4 DEF CellOK
  <2>7. IsCell(g[x[1]])
    BY <1>1
  <2> QED
    BY <2>3, <2>4, <2>5, <2>6, <2>7 DEF CellOK
<1>11. \A a \in DOMAIN g : CellOK(g, a)
  BY <1>5, <1>10
<1>12. ASSUME NEW d \in Docs
       PROVE  RootOK(g, <<d>>)
  <2>1. PICK x \in met : x = <<<<d>>, newDocs[d]>>
    BY <1>2
  <2>2. x[1] = <<d>> /\ x[2] = newDocs[d]
    BY <2>1
  <2>3. <<d>> \in DOMAIN g /\ g[<<d>>].type = "Element" /\ g[<<d>>].parentProperty = Null
    BY <1>1, <1>4, <2>2, MovedFacts DEF RootOK
  <2>4. Unheld(g, <<d>>)
    <3> SUFFICES ASSUME NEW a \in DOMAIN g, NEW key \in DOMAIN g[a].children,
                        g[a].children[key] = <<d>>
                 PROVE  FALSE
      BY DEF Unheld, Holds
    <3>6. PICK y \in met : a = y[1]
      BY <1>5
    <3>7. key \in DOMAIN h[y[2]].children /\ Append(y[1], key) = <<d>>
      BY <1>1, <3>6
    <3>1. PICK u \in Seq(Steps), k \in Steps : u = y[1] /\ k = key
      BY <1>2, <1>3, <3>7
    <3>2. u # <<>> /\ Len(u) \in Nat
      BY <1>2, <3>1
    <3>3. Len(Append(u, k)) = Len(u) + 1
      BY AppendFacts
    <3>4. Len(<<d>>) = 1 /\ Append(u, k) = <<d>>
      BY <3>1, <3>7
    <3>5. Len(u) # 0
      BY <3>2, EmptySeq
    <3> QED
      BY <3>2, <3>3, <3>4, <3>5
  <2> QED
    BY <2>3, <2>4 DEF RootOK
<1>13. \A r \in Roots(docs) : RootOK(g, r)
  BY <1>12 DEF Roots, docs
<1>14. Sound(g, Roots(docs))
  BY <1>1, <1>2, <1>6, <1>8, <1>9, <1>11, <1>13 DEF Sound
<1>15. IsTree(g)
  <2>1. \A x \in met : \A key \in DOMAIN g[x[1]].children : g[x[1]].children[key] = Append(x[1], key)
    BY <1>1
  <2>2. ASSUME NEW x \in met
        PROVE  \/ x[1] \in Roots(docs)
               \/ \E b \in DOMAIN g : \E key \in DOMAIN g[b].children : x[1] = Append(b, key)
    <3>1. CASE \E d \in Docs : x = <<<<d>>, newDocs[d]>>
      BY <3>1 DEF Roots, docs
    <3>2. ASSUME NEW at \in met, NEW key \in DOMAIN h[at[2]].children,
                 x = <<Append(at[1], key), h[at[2]].children[key]>>
          PROVE  \E b \in DOMAIN g : \E k \in DOMAIN g[b].children : x[1] = Append(b, k)
      <4>1. at[1] \in DOMAIN g /\ key \in DOMAIN g[at[1]].children /\ x[1] = Append(at[1], key)
        BY <1>1, <3>2
      <4> QED
        BY <4>1
    <3> QED
      BY <1>2, <3>1, <3>2
  <2>3. \A a \in DOMAIN g : \A key \in DOMAIN g[a].children : g[a].children[key] = Append(a, key)
    BY <1>5, <2>1
  <2>4. \A a \in DOMAIN g : \/ a \in Roots(docs)
                            \/ \E b \in DOMAIN g : \E key \in DOMAIN g[b].children : a = Append(b, key)
    BY <1>5, <2>2
  <2> QED
    BY <2>3, <2>4 DEF IsTree
<1> QED
  BY <1>14, <1>15 DEF g

\* The wrappers that are kept lead to what has survived, or dangle.
LEMMA SweptLinks ==
  ASSUME NEW h, NEW newDocs, Sound(h, Roots(newDocs)), NEW met, Placing(h, newDocs, met),
         NEW links, LinksOK(h, links)
  PROVE  LinksOK(Sweep(h, met), SweepLinks(links, met))
<1> DEFINE g == Sweep(h, met)
           moved == SweepLinks(links, met)
           N == Len(links)
<1>1. Relocated(h, met, g)
  BY SweptCells
<1> HIDE DEF g
<1>2. /\ N \in Nat /\ N > 0 /\ DOMAIN links = 1..N
      /\ \A i \in 1..N : links[i] \in LinkType(h)
  BY LinksFacts
<1>3. /\ Moved(met, Null) = Null
      /\ \A p : p # Null => Moved(met, p) \in {x[1] : x \in met} \cup {Gone}
      /\ \A p : p # Null => Moved(met, p) # Null
  BY MovedFacts
<1>4. \A i \in 1..N : /\ moved[i].prop = Moved(met, links[i].prop)
                      /\ moved[i].propName = links[i].propName
                      /\ moved[i] \in LinkType(g)
  <2> SUFFICES ASSUME NEW i \in 1..N
               PROVE  /\ moved[i].prop = Moved(met, links[i].prop)
                      /\ moved[i].propName = links[i].propName
                      /\ moved[i] \in LinkType(g)
    OBVIOUS
  <2>1. Moved(met, links[i].prop) \in DOMAIN g \cup {Null, Gone}
    BY <1>1, <1>3 DEF Relocated
  <2> DEFINE p == Moved(met, links[i].prop)
  <2>2. moved[i] = [links[i] EXCEPT !.prop = p]
    BY <1>2 DEF SweepLinks
  <2>3. links[i] \in LinkType(h)
    BY <1>2
  <2> HIDE DEF moved, p
  <2>4. moved[i].prop = p /\ moved[i].propName = links[i].propName /\ moved[i] \in LinkType(g)
    BY <2>1, <2>2, <2>3 DEF LinkType, p
  <2> QED
    BY <2>4 DEF p
<1>5. moved = [i \in 1..N |-> moved[i]]
  BY <1>2 DEF SweepLinks
<1> HIDE DEF moved, N
<1>6. moved \in Seq(LinkType(g)) /\ Len(moved) = N /\ moved # <<>>
  <2>1. moved \in [1..N -> LinkType(g)]
    BY <1>4, <1>5
  <2>2. moved \in Seq(LinkType(g))
    BY <1>2, <2>1
  <2>3. PICK m \in Seq(LinkType(g)) : m = moved
    BY <2>2
  <2>4. DOMAIN m = 1..N /\ DOMAIN m = 1..Len(m) /\ Len(m) \in Nat
    BY <2>1, <2>3
  <2>5. Len(m) = N
    BY <1>2, <2>4
  <2> QED
    BY <1>2, <2>3, <2>5
<1>7. ASSUME NEW i \in 1..(Len(moved) - 1), moved[i].prop \in DOMAIN g
      PROVE  g[moved[i].prop].type = "Element"
  <2>1. i \in 1..N /\ i \in 1..(N - 1)
    BY <1>2, <1>6
  <2>2. moved[i].prop = Moved(met, links[i].prop)
    BY <1>4, <2>1
  <2>8. \A x \in met : x[2] \in DOMAIN h /\ x[1] \in Seq(Steps)
    BY DEF Placing
  <2>9. \A x \in met : Moved(met, x[2]) = x[1]
    BY MovedFacts
  <2>10. \A x \in met : g[x[1]].type = h[x[2]].type
    BY <1>1 DEF Relocated
  <2>3. \A x \in met : /\ x[2] \in DOMAIN h /\ x[1] \in Seq(Steps)
                       /\ Moved(met, x[2]) = x[1]
                       /\ g[x[1]].type = h[x[2]].type
    BY <2>8, <2>9, <2>10
  <2>4. moved[i].prop # Null /\ moved[i].prop # Gone
    BY <1>1, <1>7, <2>3, Pointer DEF Relocated
  <2>5. links[i].prop # Null /\ links[i].prop \in Ends(met)
    BY <1>3, <2>2, <2>4 DEF Moved
  <2>6. PICK x \in met : x[2] = links[i].prop
    BY <2>5 DEF Ends
  <2>7. links[i].prop \in DOMAIN h => h[links[i].prop].type = "Element"
    BY <2>1 DEF LinksOK, N
  <2> QED
    BY <2>2, <2>3, <2>6, <2>7
<1>8. ASSUME NEW i \in 2..Len(moved), moved[i].prop = Null
      PROVE  moved[i].propName # NoName
  <2>1. i \in 1..N /\ i \in 2..N
    BY <1>2, <1>6
  <2>2. links[i].prop = Null
    BY <1>3, <1>4, <1>8, <2>1
  <2> QED
    BY <1>4, <2>1, <2>2 DEF LinksOK, N
<1>9. LinksOK(g, moved)
  BY <1>6, <1>7, <1>8 DEF LinksOK
<1> QED
  BY <1>9 DEF g, moved
-----------------------------------------------------------------------------
\* A call that ends in a sound state leads to a consistent one.
LEMMA EndConsistent ==
  ASSUME NEW s, NEW newDocs \in [Docs -> DOMAIN s.heap], Distinct(newDocs),
         Sound(s.heap, Roots(newDocs)), s.outcome # "undefined",
         NEW newWrapper,
         \A w \in Wrappers : newWrapper[w] # Nowhere => KeptOK(s.heap, newWrapper[w]),
         End(s, newDocs, newWrapper)
  PROVE  Consistent'
<1> DEFINE met == Survivors(s, newDocs)
           g == Sweep(s.heap, met)
<1>1. /\ undefined' = (s.outcome = "undefined")
      /\ heap' = g
      /\ wrapper' = [w \in Wrappers |-> Swept(newWrapper[w], met)]
  BY DEF End
<1>2. Placing(s.heap, newDocs, met)
  BY SurvivorsPlaced
<1> HIDE DEF met, g
<1>3. Sound(g, Roots(docs)) /\ IsTree(g)
  BY <1>2, SweptSound DEF g
<1>4. ASSUME NEW w \in Wrappers, wrapper'[w] # Nowhere
      PROVE  KeptOK(g, wrapper'[w]) /\ Usable(wrapper'[w].links)
  <2> DEFINE kept == newWrapper[w]
             links == SweepLinks(kept.links, met)
  <2>1. kept # Nowhere /\ Usable(links) /\ wrapper'[w] = [kept EXCEPT !.links = links]
    BY <1>1, <1>4 DEF Swept
  <2>2. /\ kept = Kept(kept.doc, kept.path, kept.links)
        /\ kept.doc \in Docs /\ kept.path \in Paths /\ LinksOK(s.heap, kept.links)
    BY <2>1 DEF KeptOK
  <2> HIDE DEF kept, links
  <2>3. LinksOK(g, links)
    BY <1>2, <2>2, SweptLinks DEF g, links
  <2>4. wrapper'[w] = Kept(kept.doc, kept.path, links)
    BY <2>1, <2>2 DEF Kept
  <2> QED
    BY <2>1, <2>2, <2>3, <2>4 DEF Kept, KeptOK
<1>5. wrapper' = [w \in Wrappers |-> wrapper'[w]]
  BY <1>1
<1>6. ConsistentState(heap', wrapper', undefined')
  BY <1>1, <1>3, <1>4, <1>5 DEF ConsistentState
<1> QED
  BY <1>6 DEF Consistent

\* Everything is reached from the documents.
LEMMA TreeReached ==
  ASSUME NEW h, Sound(h, Roots(docs)), IsTree(h)
  PROVE  DOMAIN h = Reach(h, Roots(docs))
<1> DEFINE A == Reach(h, Roots(docs))
           S == {n \in Nat : \A a \in DOMAIN h : Len(a) = n => a \in A}
<1>1. Linked(h, Keys) /\ IsFiniteSet(DOMAIN h) /\ Roots(docs) \subseteq DOMAIN h
  BY DEF Sound, RootOK
<1>2. Roots(docs) \subseteq A /\ A \subseteq DOMAIN h /\ Shut(h, A)
  BY <1>1, ReachFacts
<1> HIDE DEF A
<1>3. \A a \in DOMAIN h : a \in Seq(Steps) /\ a # <<>>
  BY DEF Sound
<1>4. ASSUME NEW n \in Nat, n = 0 \/ n - 1 \in S
      PROVE  n \in S
  <2> SUFFICES ASSUME NEW a \in DOMAIN h, Len(a) = n
               PROVE  a \in A
    OBVIOUS
  <2>1. CASE a \in Roots(docs)
    BY <1>2, <2>1
  <2>2. ASSUME NEW b \in DOMAIN h, NEW key \in DOMAIN h[b].children, a = Append(b, key)
        PROVE  a \in A
    <3>1. PICK u \in Seq(Steps), k \in Steps : u = b /\ k = key
      BY <1>1, <1>3 DEF Linked, Steps
    <3>2. Len(Append(u, k)) = Len(u) + 1 /\ Len(u) \in Nat
      BY AppendFacts
    <3>3. n = Len(b) + 1 /\ Len(b) \in Nat
      BY <2>2, <3>1, <3>2
    <3>4. b \in A
      BY <1>4, <3>3
    <3>5. h[b].children[key] = a
      BY <2>2 DEF IsTree
    <3> QED
      BY <1>2, <3>4, <3>5 DEF Shut
  <2> QED
    BY <2>1, <2>2 DEF IsTree
<1>5. 0 \in S
  BY <1>4
<1>6. \A n \in Nat : n \in S => n + 1 \in S
  <2> SUFFICES ASSUME NEW n \in Nat, n \in S
               PROVE  n + 1 \in S
    OBVIOUS
  <2>1. n + 1 \in Nat /\ (n + 1) - 1 = n
    OBVIOUS
  <2> HIDE DEF S
  <2> QED
    BY <1>4, <2>1
<1> HIDE DEF S
<1>7. Nat \subseteq S
  BY <1>5, <1>6, NatSetInduction
<1>8. \A a \in DOMAIN h : Len(a) \in Nat
  BY <1>3
<1>9. DOMAIN h \subseteq A
  BY <1>7, <1>8 DEF S
<1> QED
  BY <1>2, <1>9 DEF A

\* A call begins in a sound state.
LEMMA HereFacts ==
  ASSUME Consistent
  PROVE  /\ Good(Here) /\ Here.heap = heap /\ Here.roots = Roots(docs)
         /\ Here.outcome = "ok" /\ Here.links = <<>>
         /\ docs \in [Docs -> DOMAIN heap] /\ Distinct(docs)
         /\ DOMAIN heap = Reach(heap, Roots(docs))
         /\ Structured(heap, Steps, DOMAIN heap)
<1>1. Sound(heap, Roots(docs)) /\ IsTree(heap)
  BY DEF Consistent, ConsistentState
<1>2. /\ Here.heap = heap /\ Here.roots = Roots(docs)
      /\ Here.outcome = "ok" /\ Here.links = <<>> /\ IsState(Here)
  BY DEF Here, State, IsState
<1>3. docs \in [Docs -> DOMAIN heap]
  BY <1>1 DEF Sound, RootOK, Roots, docs
<1>4. Distinct(docs)
  BY DEF Distinct, docs
<1>5. Structured(heap, Steps, DOMAIN heap)
  BY <1>1 DEF Structured, Sound, Linked, Shut, IsTree
<1> QED
  BY <1>1, <1>2, <1>3, <1>4, <1>5, TreeReached DEF Good

\* Any path of any document can be taken.
LEMMA FindFacts ==
  ASSUME Consistent, NEW d \in Docs, NEW path \in Paths
  PROVE  FoundOK(heap, Find(d, path)) /\ Usable(Find(d, path))
<1>1. path \in Seq(Keys) /\ docs[d] \in DOMAIN heap
  BY PathsAssumption, HereFacts
<1>2. FoundOK(heap, Find(d, path))
  <2>1. Good(Here) /\ Here.heap = heap
    BY HereFacts
  <2> DEFINE s == Here
             p == docs[d]
  <2>2. Good(s) /\ s.heap = heap /\ p \in DOMAIN s.heap
    BY <1>1, <2>1
  <2> HIDE DEF s, p
  <2>3. FoundOK(s.heap, GetFromPath(s, p, path))
    BY <1>1, <2>2, GetFromPathFacts
  <2> QED
    BY <2>2, <2>3 DEF Find, s, p
<1>3. DOMAIN Find(d, path) = 1..Len(Find(d, path))
  BY <1>2, LinksFacts DEF FoundOK
<1> QED
  BY <1>2, <1>3 DEF Usable, FoundOK

\* Data::operator[] and GetFromPath.
LEMMA TakeConsistent ==
  ASSUME Consistent, NEW w \in Wrappers, NEW d \in Docs, NEW path \in Paths, CallTake(w, d, path)
  PROVE  Consistent'
<1> DEFINE links == Find(d, path)
<1>1. LinksOK(heap, links) /\ Usable(links)
  BY FindFacts DEF FoundOK
<1>2. heap' = heap /\ undefined' = undefined /\ wrapper' = [wrapper EXCEPT ![w] = Kept(d, path, links)]
  BY DEF CallTake
<1> HIDE DEF links
<1>3. wrapper = [v \in Wrappers |-> wrapper[v]]
  BY DEF Consistent, ConsistentState
<1>4. wrapper' = [v \in Wrappers |-> wrapper'[v]]
  BY <1>2, <1>3
<1>5. ASSUME NEW v \in Wrappers, wrapper'[v] # Nowhere
      PROVE  KeptOK(heap, wrapper'[v]) /\ Usable(wrapper'[v].links)
  <2>1. CASE v = w
    <3>1. wrapper'[v] = Kept(d, path, links)
      BY <1>2, <1>3, <2>1
    <3> QED
      BY <1>1, <3>1 DEF KeptOK, Kept
  <2>2. CASE v # w
    <3>1. wrapper'[v] = wrapper[v]
      BY <1>2, <1>3, <2>2
    <3> QED
      BY <1>5, <3>1 DEF Consistent, ConsistentState
  <2> QED
    BY <2>1, <2>2
<1>6. ConsistentState(heap', wrapper', undefined')
  BY <1>2, <1>4, <1>5 DEF Consistent, ConsistentState
<1> QED
  BY <1>6 DEF Consistent

\* What is known of a wrapper that is kept.
LEMMA HeldFacts ==
  ASSUME Consistent, NEW w \in Held
  PROVE  /\ w \in Wrappers /\ wrapper[w].doc \in Docs /\ wrapper[w].path \in Paths
         /\ wrapper[w] = Kept(wrapper[w].doc, wrapper[w].path, Links(w))
         /\ LinksOK(heap, Links(w)) /\ Usable(Links(w))
BY DEF Consistent, ConsistentState, KeptOK, Held, Links

\* A call that ends well keeps the documents and what wrappers lead to.
LEMMA DocsStay ==
  ASSUME Consistent, NEW s, CallDone(Here, s)
  PROVE  /\ docs \in [Docs -> DOMAIN s.heap] /\ Distinct(docs)
         /\ Sound(s.heap, Roots(docs)) /\ s.outcome # "undefined"
         /\ LinksOK(s.heap, s.links) \/ s.links = <<>>
         /\ \A v \in Wrappers : wrapper[v] # Nowhere => KeptOK(s.heap, wrapper[v])
<1>1. Good(s) /\ s.roots = Roots(docs) /\ s.outcome # "undefined"
  BY HereFacts DEF CallDone
<1>2. docs \in [Docs -> DOMAIN s.heap]
  BY <1>1 DEF Good, Sound, RootOK, Roots, docs
<1>3. LinksOK(s.heap, s.links) \/ s.links = <<>>
  BY HereFacts DEF CallDone
<1>4. \A links : LinksOK(heap, links) => LinksOK(s.heap, links)
  BY HereFacts DEF CallDone
<1>5. \A v \in Wrappers : wrapper[v] # Nowhere => KeptOK(s.heap, wrapper[v])
  BY <1>4 DEF Consistent, ConsistentState, KeptOK
<1> QED
  BY <1>1, <1>2, <1>3, <1>5, HereFacts DEF Good

\* A call through a wrapper, which then is kept as another.
LEMMA CallConsistent ==
  ASSUME Consistent, NEW s, CallDone(Here, s), NEW w \in Held, NEW kept, KeptOK(s.heap, kept),
         End(s, docs, [wrapper EXCEPT ![w] = kept])
  PROVE  Consistent'
<1> DEFINE new == [wrapper EXCEPT ![w] = kept]
<1>1. wrapper = [v \in Wrappers |-> wrapper[v]] /\ w \in Wrappers
  BY DEF Consistent, ConsistentState, Held
<1>2. \A v \in Wrappers : new[v] # Nowhere => KeptOK(s.heap, new[v])
  BY <1>1, DocsStay
<1>3. /\ docs \in [Docs -> DOMAIN s.heap] /\ Distinct(docs)
      /\ Sound(s.heap, Roots(docs)) /\ s.outcome # "undefined"
  BY DocsStay
<1> HIDE DEF new
<1>4. End(s, docs, new)
  BY DEF new
<1> QED
  BY <1>2, <1>3, <1>4, EndConsistent

\* What is kept of the wrapper that a call has resolved.
ResolvedBy(s, w) ==
  Kept(wrapper[w].doc, wrapper[w].path, IF s.links = <<>> THEN Links(w) ELSE s.links)

\* That is what the call leaves.
LEMMA ResolvedKept ==
  ASSUME Consistent, NEW s, NEW w \in Held, EndCall(s, w)
  PROVE  End(s, docs, [wrapper EXCEPT ![w] = ResolvedBy(s, w)])
<1> DEFINE links == IF s.links = <<>> THEN Links(w) ELSE s.links
           kept == Kept(wrapper[w].doc, wrapper[w].path, links)
<1>1. End(s, docs, [wrapper EXCEPT ![w].links = links])
  BY DEF EndCall
<1>2. [wrapper EXCEPT ![w].links = links] = [wrapper EXCEPT ![w] = kept]
  <2>1. [wrapper[w] EXCEPT !.links = links] = kept
    <3> DEFINE c == wrapper[w]
    <3>1. c = [doc |-> c.doc, path |-> c.path, links |-> Links(w)]
      BY HeldFacts DEF Kept
    <3> HIDE DEF c, links
    <3>2. [c EXCEPT !.links = links] = [doc |-> c.doc, path |-> c.path, links |-> links]
      BY <3>1
    <3> QED
      BY <3>2 DEF c, Kept
  <2> HIDE DEF kept, links
  <2>2. [wrapper EXCEPT ![w].links = links]
          = [wrapper EXCEPT ![w] = [wrapper[w] EXCEPT !.links = links]]
    OBVIOUS
  <2> QED
    BY <2>1, <2>2
<1>3. kept = ResolvedBy(s, w)
  BY DEF ResolvedBy
<1> HIDE DEF kept, links
<1> QED
  BY <1>1, <1>2, <1>3

\* A call through a wrapper, which it resolves.
LEMMA EndCallConsistent ==
  ASSUME Consistent, NEW s, CallDone(Here, s), NEW w \in Held, EndCall(s, w)
  PROVE  Consistent' /\ KeptOK(s.heap, ResolvedBy(s, w))
<1> DEFINE links == IF s.links = <<>> THEN Links(w) ELSE s.links
<1>1. LinksOK(s.heap, links)
  <2>1. LinksOK(s.heap, Links(w))
    BY DocsStay, HeldFacts DEF KeptOK, Held, Links
  <2> QED
    BY <2>1, DocsStay
<1>2. KeptOK(s.heap, Kept(wrapper[w].doc, wrapper[w].path, links))
  <2> HIDE DEF links
  <2> QED
    BY <1>1, HeldFacts DEF KeptOK, Kept
<1>3. KeptOK(s.heap, ResolvedBy(s, w))
  BY <1>2 DEF ResolvedBy
<1> QED
  BY <1>3, ResolvedKept, CallConsistent

\* What the rules AddToElement, Named and PathOfElements say of a call of
\* PropertyWrapper::Add or AddArray.
LEMMA AddRules ==
  ASSUME Careful \subseteq ClientRules, Consistent,
         NEW w \in Held, NEW name \in Names, NEW leaf \in Leaves,
         NEW pathToElements \in BOOLEAN, Addable(w, name, leaf, pathToElements)
  PROVE  /\ name \in Seq(STRING) /\ name # NoName /\ ~OfNothing(Links(w))
         /\ LET t == InitializeProperty(Here, Links(w), FALSE)
                first == Child(t, t.prop, SubSeq(name, 1, 1))
            IN  pathToElements /\ IsType(t, t.prop, "Element") =>
                  first = Null \/ IsType(t, first, "Element")
<1>1. /\ "AddToElement" \in ClientRules /\ "Named" \in ClientRules
      /\ "PathOfElements" \in ClientRules
  BY DEF Careful, AllRules
<1> QED
  BY <1>1, NamesAssumption DEF Addable, Rule

\* PropertyWrapper::Add and AddArray.
LEMMA AddConsistent ==
  ASSUME Careful \subseteq ClientRules, Consistent,
         NEW w \in Held, NEW name \in Names, NEW leaf \in Leaves,
         NEW pathToElements \in BOOLEAN, CallAdd(w, name, leaf, pathToElements)
  PROVE  /\ Consistent'
         /\ LET s == WrapperAdd(Here, Links(w), name, leaf, pathToElements)
            IN  CallDone(Here, s) /\ (s.outcome = "ok" => LinksOK(s.heap, Returned(s)))
<1> DEFINE s == WrapperAdd(Here, Links(w), name, leaf, pathToElements)
<1>2. Addable(w, name, leaf, pathToElements)
  BY DEF CallAdd
<1>3. /\ ~OfNothing(Links(w)) /\ name # NoName
      /\ LET t == InitializeProperty(Here, Links(w), FALSE)
             first == Child(t, t.prop, SubSeq(name, 1, 1))
         IN  pathToElements /\ IsType(t, t.prop, "Element") =>
               first = Null \/ IsType(t, first, "Element")
  BY <1>2, AddRules
<1>4. Good(Here) /\ Here.outcome = "ok" /\ Here.heap = heap
  BY HereFacts
<1>5. LinksOK(heap, Links(w)) /\ Usable(Links(w)) /\ name \in Seq(STRING)
  BY <1>2, AddRules, HeldFacts
<1>6. CallDone(Here, s) /\ (s.outcome = "ok" => LinksOK(s.heap, Returned(s)))
  <2> DEFINE x == Here
             links == Links(w)
  <2>1. /\ Good(x) /\ x.outcome = "ok" /\ LinksOK(x.heap, links) /\ Usable(links)
        /\ ~OfNothing(links)
    BY <1>3, <1>4, <1>5
  <2>2. LET t == InitializeProperty(x, links, FALSE)
            first == Child(t, t.prop, SubSeq(name, 1, 1))
        IN  pathToElements /\ IsType(t, t.prop, "Element") =>
              first = Null \/ IsType(t, first, "Element")
    BY <1>3
  <2> HIDE DEF x, links
  <2>3. LET u == WrapperAdd(x, links, name, leaf, pathToElements)
        IN  /\ CallDone(x, u)
            /\ u.outcome = "ok" => LinksOK(u.heap, Returned(u))
    BY <1>3, <1>5, <2>1, <2>2, WrapperAddDone
  <2> QED
    BY <2>3 DEF x, links
<1>7. \/ EndCall(s, w)
      \/ \E at \in Paths :
           s.outcome = "ok" /\ End(s, docs, [wrapper EXCEPT ![w] = Kept(wrapper[w].doc, at, Returned(s))])
  BY DEF CallAdd
<1> HIDE DEF s
<1>8. ASSUME EndCall(s, w)
      PROVE  Consistent'
  BY <1>6, <1>8, EndCallConsistent
<1>9. ASSUME NEW at \in Paths, s.outcome = "ok",
             End(s, docs, [wrapper EXCEPT ![w] = Kept(wrapper[w].doc, at, Returned(s))])
      PROVE  Consistent'
  <2> DEFINE kept == Kept(wrapper[w].doc, at, Returned(s))
  <2>1. KeptOK(s.heap, kept)
    BY <1>6, <1>9, HeldFacts DEF KeptOK, Kept
  <2> HIDE DEF kept
  <2>2. End(s, docs, [wrapper EXCEPT ![w] = kept])
    BY <1>9 DEF kept
  <2> QED
    BY <1>6, <2>1, <2>2, CallConsistent
<1>10. Consistent'
  BY <1>7, <1>8, <1>9
<1> QED
  BY <1>6, <1>10 DEF s

\* Assignment of a scalar, with the rule SameType.
LEMMA AssignConsistent ==
  ASSUME Careful \subseteq ClientRules, Consistent,
         NEW w \in Held, NEW leaf \in Leaves, NEW order \in Orders,
         CallAssign(w, leaf, order)
  PROVE  /\ Consistent' /\ CallDone(Here, Assign(Here, Links(w), leaf, order))
         /\ Resolved(Links(w)) # Null =>
              heap[Resolved(Links(w))].type \in {"Element", "Array", leaf.type}
<1> DEFINE s == Assign(Here, Links(w), leaf, order)
<1>1. /\ LinksOK(heap, Links(w)) /\ Usable(Links(w))
      /\ order \in Seq(Keys)
  BY HeldFacts, OrdersAssumption
<1>2. Resolved(Links(w)) # Null => heap[Resolved(Links(w))].type \in {"Element", "Array", leaf.type}
  BY DEF CallAssign, SameType, Rule, Careful, AllRules
<1>3. CallDone(Here, s)
  <2> DEFINE x == Here
             links == Links(w)
  <2>1. /\ Good(x) /\ x.outcome = "ok" /\ LinksOK(x.heap, links) /\ Usable(links)
        /\ Resolved(links) # Null => x.heap[Resolved(links)].type \in {"Element", "Array", leaf.type}
    BY <1>1, <1>2, HereFacts
  <2> HIDE DEF x, links
  <2>2. CallDone(x, Assign(x, links, leaf, order))
    BY <1>1, <2>1, AssignDone
  <2> QED
    BY <2>2 DEF x, links
<1>4. EndCall(s, w)
  BY DEF CallAssign
<1> HIDE DEF s
<1>5. Consistent'
  BY <1>3, <1>4, EndCallConsistent
<1> QED
  BY <1>2, <1>3, <1>5 DEF s

\* A call ends well that only makes properties and resolves no wrapper.
LEMMA GrownDone ==
  ASSUME Consistent, NEW s, Good(s), Grown(Here, s)
  PROVE  CallDone(Here, s)
<1>1. s.roots = Here.roots /\ s.outcome = "ok" /\ s.links = Here.links /\ Larger(Here, s)
  BY HereFacts DEF Grown, Larger
<1>2. ASSUME NEW links, LinksOK(Here.heap, links)
      PROVE  LinksOK(s.heap, links)
  <2> DEFINE x == Here
  <2>1. Larger(x, s) /\ LinksOK(x.heap, links)
    BY <1>1, <1>2
  <2> HIDE DEF x
  <2> QED
    BY <2>1, GrownLinks
<1> QED
  BY <1>1, <1>2 DEF CallDone

\* What the rules NoSharing and MergeApart say of a call of PropertyWrapper::Merge.
Parted(p, q) ==
  /\ p \in DOMAIN heap
  /\ \E T, S : SetOut(Here, T, S) /\ p \in T /\ q \in S

\* What a path leads to exists.
LEMMA FoundExists ==
  ASSUME Consistent, NEW d \in Docs, NEW path \in Paths, Resolved(Find(d, path)) # Null
  PROVE  Resolved(Find(d, path)) \in DOMAIN heap
<1> DEFINE links == Find(d, path)
<1>1. FoundOK(heap, links)
  BY FindFacts
<1> HIDE DEF links
<1>2. /\ Len(links) \in Nat /\ Len(links) > 0
      /\ Resolved(links) = links[Len(links)].prop
      /\ Resolved(links) \in DOMAIN heap \cup {Null, Gone}
  BY <1>1, LinksFacts DEF FoundOK
<1>3. links[Len(links)].prop # Gone
  BY <1>1, <1>2 DEF FoundOK
<1>4. Resolved(Find(d, path)) = Resolved(links)
  BY DEF links
<1> QED
  BY <1>2, <1>3, <1>4

\* Two properties that reach nothing in common may be merged.
LEMMA ApartSetOut ==
  ASSUME Consistent, NEW p \in DOMAIN heap, NEW q \in DOMAIN heap,
         NEW T, T = Reach(heap, {p}), NEW S, S = Reach(heap, {q}), T \cap S = {}
  PROVE  SetOut(Here, T, S) /\ p \in T /\ q \in S
<1>1. Linked(heap, Keys) /\ IsFiniteSet(DOMAIN heap)
  BY DEF Consistent, ConsistentState, Sound
<1>2. p \in T /\ T \subseteq DOMAIN heap /\ Shut(heap, T)
  BY <1>1, ReachFacts
<1>3. q \in S /\ S \subseteq DOMAIN heap /\ Shut(heap, S)
  BY <1>1, ReachFacts
<1>4. Structured(heap, Steps, S)
  BY <1>3, HereFacts DEF Structured
<1> QED
  BY <1>2, <1>3, <1>4, HereFacts DEF SetOut

\* The merge is deep, of two properties that share nothing.
LEMMA MergeRules ==
  ASSUME Careful \subseteq ClientRules, Consistent,
         NEW w \in Held, NEW d \in Docs, NEW path \in Paths,
         NEW overwrite, NEW deep \in BOOLEAN, NEW order \in Orders,
         CallMerge(w, d, path, overwrite, deep, order)
  PROVE  deep = TRUE /\ Parted(Resolved(Links(w)), Resolved(Find(d, path)))
<1> DEFINE p == Resolved(Links(w))
           q == Resolved(Find(d, path))
           T == Reach(heap, {p})
           S == Reach(heap, {q})
<1>1. "NoSharing" \in ClientRules /\ "MergeApart" \in ClientRules
  BY DEF Careful, AllRules
<1>2. deep /\ p # Null /\ q # Null /\ T \cap S = {}
  BY <1>1 DEF CallMerge, Apart, Rule
<1>3. deep = TRUE
  BY <1>2
<1>4. p \in DOMAIN heap
  <2> DEFINE links == Links(w)
  <2>1. LinksOK(heap, links) /\ Usable(links)
    BY HeldFacts
  <2> HIDE DEF links
  <2>2. /\ Len(links) \in Nat /\ Len(links) > 0 /\ DOMAIN links = 1..Len(links)
        /\ Resolved(links) = links[Len(links)].prop
        /\ Resolved(links) \in DOMAIN heap \cup {Null, Gone}
    BY <2>1, LinksFacts
  <2>3. Len(links) \in DOMAIN links
    BY <2>2
  <2>4. (Len(links) + 1)..Len(links) = {}
    BY <2>2
  <2>5. links[Len(links)].prop # Gone
    BY <2>1, <2>3, <2>4 DEF Usable
  <2>6. p = Resolved(links)
    BY DEF links
  <2> QED
    BY <1>2, <2>2, <2>5, <2>6
<1>5. q \in DOMAIN heap
  BY <1>2, FoundExists
<1> HIDE DEF p, q, T, S
<1>6. SetOut(Here, T, S) /\ p \in T /\ q \in S
  BY <1>2, <1>4, <1>5, ApartSetOut DEF T, S
<1>7. Parted(p, q)
  BY <1>4, <1>6 DEF Parted
<1> QED
  BY <1>3, <1>7 DEF p, q

\* PropertyWrapper::Merge.
LEMMA MergeConsistent ==
  ASSUME Careful \subseteq ClientRules, Consistent,
         NEW w \in Held, NEW d \in Docs, NEW path \in Paths,
         NEW overwrite, NEW deep \in BOOLEAN, NEW order \in Orders,
         CallMerge(w, d, path, overwrite, deep, order)
  PROVE  /\ Consistent'
         /\ LET s == WrapperMerge(Here, Resolved(Links(w)), Resolved(Find(d, path)),
                                  overwrite, deep, order)
            IN  Good(s) /\ Grown(Here, s)
<1> DEFINE p == Resolved(Links(w))
           q == Resolved(Find(d, path))
           s == WrapperMerge(Here, p, q, overwrite, deep, order)
<1>1. deep = TRUE /\ Parted(p, q)
  BY MergeRules
<1>2. PICK T, S : SetOut(Here, T, S) /\ p \in T /\ q \in S
  BY <1>1 DEF Parted
<1>3. EndCall(s, w)
  BY DEF CallMerge
<1>4. order \in Seq(Keys)
  BY OrdersAssumption
<1>5. Good(Here) /\ Here.heap = heap /\ p \in DOMAIN heap
  BY <1>1, HereFacts DEF Parted
<1> HIDE DEF p, q, s
<1>6. Good(s) /\ Grown(Here, s)
  <2> DEFINE x == Here
  <2>1. Good(x) /\ x.heap = heap /\ SetOut(x, T, S)
    BY <1>2, <1>5
  <2> HIDE DEF x
  <2>2. s = WrapperMerge(x, p, q, overwrite, TRUE, order)
    BY <1>1 DEF s, x
  <2>3. CASE IsType(x, p, "Element") /\ IsType(x, q, "Element")
    <3>1. x.heap[p].type = "Element" /\ x.heap[q].type = "Element"
      BY <2>3 DEF IsType
    <3>2. LET t == Merge(x, p, q, overwrite, TRUE, order)
          IN  Good(t) /\ Grown(x, t)
      BY <1>2, <1>4, <2>1, <3>1, MergeDone
    <3>3. s = Merge(x, p, q, overwrite, TRUE, order)
      BY <2>2, <2>3 DEF WrapperMerge
    <3>4. Good(s) /\ Grown(x, s)
      BY <3>2, <3>3
    <3> QED
      BY <3>4 DEF x
  <2>4. CASE /\ ~(IsType(x, p, "Element") /\ IsType(x, q, "Element"))
             /\ IsType(x, p, "Array") /\ IsType(x, q, "Array")
    <3>1. s = MergeArray(x, p, q, overwrite)
      BY <2>2, <2>4 DEF WrapperMerge
    <3>2. PICK size : s = [x EXCEPT !.heap[p].value = size]
      BY <3>1 DEF MergeArray
    <3>3. LET t == [x EXCEPT !.heap[p].value = size]
          IN  Good(t) /\ Grown(x, t)
      BY <1>5, <2>1, ValueSound
    <3> QED
      BY <3>2, <3>3 DEF x
  <2>5. CASE /\ ~(IsType(x, p, "Element") /\ IsType(x, q, "Element"))
             /\ ~(IsType(x, p, "Array") /\ IsType(x, q, "Array"))
    <3>1. s = x
      BY <2>2, <2>5 DEF WrapperMerge
    <3>2. Good(s) /\ Grown(x, s)
      BY <2>1, <3>1 DEF Grown, Larger
    <3> QED
      BY <3>2 DEF x
  <2> QED
    BY <2>3, <2>4, <2>5
<1>7. Consistent'
  BY <1>3, <1>6, GrownDone, EndCallConsistent
<1> QED
  BY <1>6, <1>7 DEF s, p, q

\* A document that was just made.
NewDocument(s) ==
  /\ Good(s) /\ Grown(Here, s)
  /\ s.prop \in DOMAIN s.heap /\ s.prop \notin DOMAIN heap /\ Unheld(s.heap, s.prop)
  /\ s.heap[s.prop].type = "Element" /\ s.heap[s.prop].parentProperty = Null

\* It takes the place of another.
Replaced(d, s) == [docs EXCEPT ![d] = s.prop]

\* The documents are still properties of their own, and sound.
LEMMA DocumentReplaced ==
  ASSUME Consistent, NEW d \in Docs, NEW s, NewDocument(s)
  PROVE  /\ Replaced(d, s) \in [Docs -> DOMAIN s.heap] /\ Distinct(Replaced(d, s))
         /\ Replaced(d, s)[d] = s.prop /\ \A e \in Docs \ {d} : Replaced(d, s)[e] = docs[e]
         /\ Sound(s.heap, Roots(Replaced(d, s))) /\ s.outcome # "undefined"
         /\ \A v \in Wrappers : wrapper[v] # Nowhere => KeptOK(s.heap, wrapper[v])
<1> DEFINE new == Replaced(d, s)
<1>1. CallDone(Here, s)
  BY GrownDone DEF NewDocument
<1>2. /\ docs \in [Docs -> DOMAIN s.heap] /\ Distinct(docs)
      /\ Sound(s.heap, Roots(docs)) /\ s.outcome # "undefined"
      /\ \A v \in Wrappers : wrapper[v] # Nowhere => KeptOK(s.heap, wrapper[v])
  BY <1>1, DocsStay
<1>3. docs \in [Docs -> DOMAIN heap]
  BY HereFacts
<1>4. new \in [Docs -> DOMAIN s.heap] /\ new[d] = s.prop /\ \A e \in Docs \ {d} : new[e] = docs[e]
  BY <1>2 DEF NewDocument, Replaced
<1> HIDE DEF new
<1>5. Distinct(new)
  BY <1>2, <1>3, <1>4 DEF Distinct, NewDocument
<1>6. Sound(s.heap, Roots(new))
  <2>1. \A e \in Docs : RootOK(s.heap, docs[e])
    BY <1>2 DEF Sound, Roots
  <2>2. RootOK(s.heap, s.prop)
    BY DEF RootOK, NewDocument
  <2>3. \A e \in Docs : RootOK(s.heap, new[e])
    BY <1>4, <2>1, <2>2
  <2> QED
    BY <1>2, <2>3 DEF Sound, Roots
<1> QED
  BY <1>2, <1>4, <1>5, <1>6 DEF new

\* A document that takes the place of another leaves a consistent state.
LEMMA DocumentConsistent ==
  ASSUME Consistent, NEW d \in Docs, NEW s, NewDocument(s), End(s, Replaced(d, s), wrapper)
  PROVE  Consistent'
<1> DEFINE new == Replaced(d, s)
<1>1. /\ new \in [Docs -> DOMAIN s.heap] /\ Distinct(new)
      /\ Sound(s.heap, Roots(new)) /\ s.outcome # "undefined"
      /\ \A v \in Wrappers : wrapper[v] # Nowhere => KeptOK(s.heap, wrapper[v])
  BY DocumentReplaced
<1>2. End(s, new, wrapper)
  OBVIOUS
<1> HIDE DEF new
<1> QED
  BY <1>1, <1>2, EndConsistent

\* Data::Create.
LEMMA CreateConsistent ==
  ASSUME Consistent, NEW d \in Docs, CallCreate(d)
  PROVE  Consistent' /\ NewDocument(Create(Here, "Element", 0))
<1> DEFINE s == Create(Here, "Element", 0)
<1>1. End(s, Replaced(d, s), wrapper)
  BY DEF CallCreate, Replaced
<1>2. Good(Here) /\ Here.heap = heap
  BY HereFacts
<1>3. Good(s) /\ Grown(Here, s)
  BY <1>2, CreateFacts
<1>4. \E c : Made(Here, s, c) /\ c.type = "Element" /\ c.parentProperty = Null
  BY <1>2, CreateFacts
<1> HIDE DEF s
<1>5. PICK c : Made(Here, s, c) /\ c.type = "Element" /\ c.parentProperty = Null
  BY <1>4
<1>6. NewDocument(s)
  BY <1>2, <1>3, <1>5 DEF Made, NewDocument
<1> QED
  BY <1>1, <1>6, DocumentConsistent DEF s

\* Data::Save and Data::Load.
LEMMA LoadConsistent ==
  ASSUME Consistent, NEW d \in Docs, NEW src \in Docs, CallLoad(d, src)
  PROVE  Consistent' /\ NewDocument(Read(Here, docs[src]))
<1> DEFINE s == Read(Here, docs[src])
<1>1. End(s, Replaced(d, s), wrapper)
  BY DEF CallLoad, Replaced
<1>2. /\ Good(Here) /\ Here.heap = heap /\ docs[src] \in DOMAIN heap
      /\ Structured(heap, Steps, DOMAIN heap)
  BY HereFacts
<1>3. heap[docs[src]].type = "Element"
  BY DEF Consistent, ConsistentState, Sound, RootOK, Roots
<1>4. NewDocument(s)
  <2> DEFINE x == Here
             p == docs[src]
  <2>1. Good(x) /\ x.heap = heap /\ p \in DOMAIN heap /\ heap[p].type = "Element"
    BY <1>2, <1>3
  <2>2. Structured(x.heap, Steps, DOMAIN heap)
    BY <1>2
  <2> HIDE DEF x, p
  <2>3. TRUE \in BOOLEAN
    OBVIOUS
  <2>4. LET t == NewTree(x, p, TRUE)
        IN  /\ Good(t) /\ Grown(x, t)
            /\ t.prop \in DOMAIN t.heap /\ t.prop \notin DOMAIN x.heap
            /\ Unheld(t.heap, t.prop) /\ t.prop \notin t.roots
            /\ t.heap[t.prop].type = x.heap[p].type /\ t.heap[t.prop].parentProperty = Null
            /\ \A a \in DOMAIN x.heap : t.heap[a] = x.heap[a]
            /\ Shut(t.heap, DOMAIN t.heap \ DOMAIN x.heap)
    BY <2>1, <2>2, <2>3, NewTreeSound, Zenon
  <2> QED
    BY <2>1, <2>4 DEF x, p, Read, NewDocument
<1> HIDE DEF s
<1>5. Consistent'
  BY <1>1, <1>4, DocumentConsistent
<1> QED
  BY <1>4, <1>5 DEF s

\* The program begins with empty documents.
LEMMA InitConsistent ==
  ASSUME Init
  PROVE  Consistent
<1>1. /\ heap = [p \in Roots(docs) |-> Property("Element", 0, p)]
      /\ wrapper = [w \in Wrappers |-> Nowhere] /\ ~undefined
  BY DEF Init
<1>2. \A d \in Docs : docs[d] = <<d>>
  BY DEF docs
<1>3. \A p \in Roots(docs) : p \in Seq(Steps) /\ p # <<>>
  <2>1. \A d \in Docs : <<d>> \in Seq(Steps) /\ <<d>> # <<>>
    BY DEF Steps
  <2> QED
    BY <1>2, <2>1 DEF Roots
<1>4. \A p \in DOMAIN heap :
        /\ IsCell(heap[p]) /\ heap[p].type = "Element"
        /\ heap[p].fromProperty = p /\ heap[p].parentProperty = Null
        /\ DOMAIN heap[p].children = {}
  <2> SUFFICES ASSUME NEW p \in DOMAIN heap
               PROVE  /\ IsCell(heap[p]) /\ heap[p].type = "Element"
                      /\ heap[p].fromProperty = p /\ heap[p].parentProperty = Null
                      /\ DOMAIN heap[p].children = {}
    OBVIOUS
  <2>1. heap[p] = Property("Element", 0, p)
    BY <1>1
  <2>2. DOMAIN <<>> = {}
    OBVIOUS
  <2> QED
    BY <2>1, <2>2 DEF Property, IsCell
<1>5. IsFiniteSet(Roots(docs))
  <2> DEFINE root == [d \in Docs |-> docs[d]]
  <2>1. root \in Surjection(Docs, Roots(docs))
    BY DEF Surjection, Roots
  <2> QED
    BY <2>1, DocsAssumption, FS_Surjection
<1>6. Sound(heap, Roots(docs))
  <2>1. DOMAIN heap = Roots(docs)
    BY <1>1
  <2>2. \A p \in DOMAIN heap : CellOK(heap, p)
    BY <1>4 DEF CellOK
  <2>3. \A r \in Roots(docs) : RootOK(heap, r)
    BY <1>4, <2>1 DEF RootOK, Unheld, Holds
  <2>4. Linked(heap, Keys) /\ HeldOnce(heap)
    BY <1>4 DEF Linked, HeldOnce
  <2> QED
    BY <1>3, <1>5, <2>1, <2>2, <2>3, <2>4 DEF Sound
<1>7. IsTree(heap)
  BY <1>1, <1>4 DEF IsTree
<1>8. /\ wrapper = [w \in Wrappers |-> wrapper[w]]
      /\ \A w \in Wrappers : wrapper[w] = Nowhere
  BY <1>1
<1> QED
  BY <1>1, <1>6, <1>7, <1>8 DEF Consistent, ConsistentState

\* Every call leads from a consistent state to a consistent one.
LEMMA NextConsistent ==
  ASSUME Careful \subseteq ClientRules, Consistent, [Next]_vars
  PROVE  Consistent'
<1>1. ASSUME NEW d \in Docs, CallCreate(d)
      PROVE  Consistent'
  BY <1>1, CreateConsistent
<1>2. ASSUME NEW d \in Docs, NEW src \in Docs, CallLoad(d, src)
      PROVE  Consistent'
  BY <1>2, LoadConsistent
<1>3. ASSUME NEW w \in Wrappers, NEW d \in Docs, NEW path \in Paths, CallTake(w, d, path)
      PROVE  Consistent'
  BY <1>3, TakeConsistent
<1>4. ASSUME NEW w \in Held, NEW name \in Names, NEW leaf \in Leaves,
             NEW pathToElements \in BOOLEAN, CallAdd(w, name, leaf, pathToElements)
      PROVE  Consistent'
  BY <1>4, AddConsistent
<1>5. ASSUME NEW w \in Held, NEW leaf \in Leaves, NEW order \in Orders, CallAssign(w, leaf, order)
      PROVE  Consistent'
  BY <1>5, AssignConsistent
<1>6. ASSUME NEW w \in Held, NEW d \in Docs, NEW path \in Paths
      PROVE  /\ \A order : ~CallAssignElement(w, d, path, order)
             /\ ~CallAssignProperty(w, d, path)
  BY DEF CallAssignElement, CallAssignProperty, Rule, Careful, AllRules
<1>7. ASSUME NEW w \in Held, NEW d \in Docs, NEW path \in Paths, NEW overwrite \in BOOLEAN,
             NEW deep \in BOOLEAN, NEW order \in Orders,
             CallMerge(w, d, path, overwrite, deep, order)
      PROVE  Consistent'
  BY <1>7, MergeConsistent
<1>8. CASE UNCHANGED vars
  BY <1>8 DEF vars, Consistent
<1> QED
  BY <1>1, <1>2, <1>3, <1>4, <1>5, <1>6, <1>7, <1>8 DEF Next

\* In a program that observes every rule, properties are the trees of their
\* documents after every call, kept wrappers can be used, and no call has met
\* undefined behaviour.
THEOREM ConsistentAlways ==
  ASSUME Careful \subseteq ClientRules
  PROVE  Spec => []Consistent
<1>1. Init => Consistent
  BY InitConsistent
<1>2. Consistent /\ [Next]_vars => Consistent'
  BY NextConsistent
<1> QED
  BY <1>1, <1>2, PTL DEF Spec

\* No call meets undefined behaviour: no pointer that dangles is followed, no child
\* is added to what is no element, no loop of a merge loses its source.
THEOREM NothingEverUndefined ==
  ASSUME Careful \subseteq ClientRules
  PROVE  Spec => []NothingUndefined
<1>1. Consistent => NothingUndefined
  BY DEF Consistent, ConsistentState, NothingUndefined
<1> QED
  BY <1>1, ConsistentAlways, PTL

\* Everything is of its type, and exactly what documents hold exists.
THEOREM TypeCorrect ==
  ASSUME Careful \subseteq ClientRules
  PROVE  Spec => []TypeOK
<1>1. ASSUME Consistent
      PROVE  TypeOK
  <2>1. DOMAIN heap = Reach(heap, Roots(docs))
    BY <1>1, HereFacts
  <2>2. ASSUME NEW p \in DOMAIN heap
        PROVE  /\ {heap[p].fromProperty, heap[p].parentProperty} \subseteq Pointers
               /\ heap[p].type # "Element" => DOMAIN heap[p].children = {}
    <3>1. CellOK(heap, p)
      BY <1>1 DEF Consistent, ConsistentState, Sound
    <3> QED
      BY <3>1 DEF CellOK, Pointers
  <2>3. ASSUME NEW w \in Held, NEW i \in DOMAIN Links(w)
        PROVE  Links(w)[i].prop \in Pointers
    <3> DEFINE links == Links(w)
    <3>1. LinksOK(heap, links) /\ i \in DOMAIN links
      BY <1>1, HeldFacts
    <3> HIDE DEF links
    <3>2. links[i] \in LinkType(heap)
      BY <3>1, LinksFacts
    <3>3. links[i].prop \in Pointers
      BY <3>2 DEF LinkType, Pointers
    <3> QED
      BY <3>3 DEF links
  <2> QED
    BY <2>1, <2>2, <2>3 DEF TypeOK
<1> QED
  BY <1>1, ConsistentAlways, PTL

\* fromProperty and parentProperty of an element are never stale: they lead to it
\* and to the one property that holds it, or nowhere.
THEOREM BackPointersAlwaysSound ==
  ASSUME Careful \subseteq ClientRules
  PROVE  Spec => []BackPointersSound
<1>1. ASSUME Consistent
      PROVE  BackPointersSound
  <2>1. Sound(heap, Roots(docs)) /\ IsTree(heap)
    BY <1>1 DEF Consistent, ConsistentState
  <2>2. ASSUME NEW p \in DOMAIN heap, heap[p].parentProperty # Null
        PROVE  Holders(p) = {heap[p].parentProperty}
    <3>1. CellOK(heap, p) /\ HeldOnce(heap)
      BY <2>1 DEF Sound
    <3>2. p \notin Roots(docs)
      BY <2>1, <2>2 DEF Sound, RootOK
    <3>3. PICK b \in DOMAIN heap : \E key \in DOMAIN heap[b].children : p = Append(b, key)
      BY <2>1, <3>2 DEF IsTree
    <3>4. Holds(heap, b, p)
      BY <2>1, <3>3 DEF Holds, IsTree
    <3>5. heap[p].parentProperty \in DOMAIN heap /\ Holds(heap, heap[p].parentProperty, p)
      BY <2>2, <3>1, <3>4 DEF CellOK, Unheld
    <3>6. \A q \in DOMAIN heap : Holds(heap, q, p) => q = heap[p].parentProperty
      BY <3>1, <3>5 DEF HeldOnce, Holds
    <3> QED
      BY <3>5, <3>6 DEF Holders, Holds
  <2>3. \A p \in DOMAIN heap : heap[p].fromProperty \in {Null, p}
    BY <2>1 DEF Sound, CellOK
  <2> QED
    BY <2>2, <2>3 DEF BackPointersSound
<1> QED
  BY <1>1, ConsistentAlways, PTL

\* Merging two properties that reach nothing in common gives the first no property
\* that exists.
LEMMA MergeGivesNew ==
  ASSUME Consistent, NEW p \in DOMAIN heap, NEW q \in DOMAIN heap,
         Reach(heap, {p}) \cap Reach(heap, {q}) = {}, NEW overwrite, NEW order \in Seq(Keys)
  PROVE  LET s == WrapperMerge(Here, p, q, overwrite, TRUE, order)
         IN  Reach(s.heap, {p}) \cap DOMAIN heap \subseteq Reach(heap, {p})
<1> DEFINE x == Here
           T == Reach(heap, {p})
           S == Reach(heap, {q})
           s == WrapperMerge(x, p, q, overwrite, TRUE, order)
<1>1. SetOut(x, T, S) /\ p \in T /\ q \in S
  BY ApartSetOut
<1>2. Good(x) /\ x.heap = heap
  BY HereFacts
<1> HIDE DEF x, T, S, s
<1>3. Between(x, x, T)
  <2>1. Grove(x, x, T) = T
    BY DEF Grove
  <2>2. Shut(x.heap, T)
    BY <1>1 DEF SetOut
  <2> QED
    BY <1>2, <2>1, <2>2 DEF Between, Grown, Larger
<1>4. Between(x, s, T)
  <2>1. CASE IsType(x, p, "Element") /\ IsType(x, q, "Element")
    <3>1. x.heap[p].type = "Element" /\ x.heap[q].type = "Element"
      BY <2>1 DEF IsType
    <3>2. Between(x, Merge(x, p, q, overwrite, TRUE, order), T)
      BY <1>1, <3>1, MergeKeepsApart
    <3>3. s = Merge(x, p, q, overwrite, TRUE, order)
      BY <2>1 DEF WrapperMerge, s
    <3> QED
      BY <3>2, <3>3
  <2>2. CASE /\ ~(IsType(x, p, "Element") /\ IsType(x, q, "Element"))
             /\ IsType(x, p, "Array") /\ IsType(x, q, "Array")
    <3>1. s = MergeArray(x, p, q, overwrite)
      BY <2>2 DEF WrapperMerge, s
    <3>2. p \in Grove(x, x, T) /\ p \in DOMAIN x.heap
      BY <1>1, <1>2 DEF Grove
    <3> QED
      BY <1>3, <3>1, <3>2, ArrayBetween
  <2>3. CASE /\ ~(IsType(x, p, "Element") /\ IsType(x, q, "Element"))
             /\ ~(IsType(x, p, "Array") /\ IsType(x, q, "Array"))
    <3>1. s = x
      BY <2>3 DEF WrapperMerge, s
    <3> QED
      BY <1>3, <3>1
  <2> QED
    BY <2>1, <2>2, <2>3
<1>5. Reach(s.heap, {p}) \subseteq Grove(x, s, T)
  <2> DEFINE h == s.heap
             G == Grove(x, s, T)
  <2>1. Linked(h, Keys) /\ IsFiniteSet(DOMAIN h) /\ Shut(h, G)
    BY <1>4 DEF Between, Good, Sound
  <2>2. p \in G /\ {p} \subseteq DOMAIN h
    BY <1>1, <1>2, <1>4 DEF Grove, Between, Grown, Larger
  <2> HIDE DEF h, G
  <2>3. Reach(h, {p}) \subseteq G
    BY <2>1, <2>2, ReachFacts
  <2> QED
    BY <2>3 DEF h, G
<1>6. Reach(s.heap, {p}) \cap DOMAIN heap \subseteq T
  BY <1>2, <1>5 DEF Grove
<1> QED
  BY <1>6 DEF s, x, T

\* A deep merge gives the target no property that exists already, so that it shares
\* none with its source, in whatever order the hash table of that is gone over.
THEOREM DeepMergeNeverShares ==
  ASSUME Careful \subseteq ClientRules
  PROVE  Spec => []DeepMergeSharesNothing
<1>1. ASSUME Consistent
      PROVE  DeepMergeSharesNothing
  <2> SUFFICES ASSUME NEW pq \in Mergeable, NEW overwrite \in BOOLEAN, NEW order \in Orders
               PROVE  LET s == Merged(pq, overwrite, TRUE, order)
                      IN  Reach(s.heap, {pq[1]}) \cap DOMAIN heap \subseteq Reach(heap, {pq[1]})
    BY DEF DeepMergeSharesNothing
  <2> DEFINE p == pq[1]
             q == pq[2]
  <2>1. p \in Found /\ q \in Found /\ Apart(p, q)
    BY DEF Mergeable
  <2>2. Reach(heap, {p}) \cap Reach(heap, {q}) = {}
    BY <2>1 DEF Apart, Rule, Careful, AllRules
  <2>3. Found \subseteq DOMAIN heap
    BY <1>1, FoundExists DEF Found
  <2>4. p \in DOMAIN heap /\ q \in DOMAIN heap /\ order \in Seq(Keys)
    BY <2>1, <2>3, OrdersAssumption
  <2> HIDE DEF p, q
  <2>5. LET s == WrapperMerge(Here, p, q, overwrite, TRUE, order)
        IN  Reach(s.heap, {p}) \cap DOMAIN heap \subseteq Reach(heap, {p})
    BY <1>1, <2>2, <2>4, MergeGivesNew
  <2> QED
    BY <2>5 DEF Merged, p, q
<1> QED
  BY <1>1, ConsistentAlways, PTL
=============================================================================
