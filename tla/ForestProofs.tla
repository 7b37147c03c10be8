----------------------------- MODULE ForestProofs -----------------------------
(***************************************************************************)
(* Proof that ElementTree implements Forest, for the programs of           *)
(* ElementTreeProofs: what each call does to documents and wrappers, by    *)
(* the trees of LayoutProofs, is what Forest promises.                     *)
(***************************************************************************)
EXTENDS LayoutProofs

\* A call does what Forest promises, and leaves what is known between two calls.
Fulfils == Plain(heap)' /\ NothingLeads' /\ [Promise!Next]_(Promise!vars)

\* A wrapper that is taken and leads to nothing does not lead anywhere further on.
LEMMA TakenOfNothing ==
  ASSUME NEW s, Good(s), NEW p \in DOMAIN s.heap
  PROVE  \A path \in Seq(Keys) :
           LET links == GetFromPath(s, p, path)
           IN  OfNothing(links) => \A i \in DOMAIN links : links[i].prop = Null
<1> DEFINE L(path) == GetFromPath(s, p, path)
           AllNull(links) == \A i \in DOMAIN links : links[i].prop = Null
           G == {path \in Seq(Keys) : OfNothing(L(path)) => AllNull(L(path))}
<1>1. <<>> \in G
  <2>1. L(<<>>) = Wrapper(p) /\ <<>> \in Seq(Keys)
    BY GetUnfolds
  <2>2. p # Null
    BY Pointer DEF Good, Sound
  <2> QED
    BY <2>1, <2>2 DEF Wrapper, Link, OfNothing
<1>2. ASSUME NEW path \in Seq(Keys), NEW key \in Keys, path \in G
      PROVE  Append(path, key) \in G
  <2> DEFINE links == L(path)
             next == L(Append(path, key))
  <2>1. next = Index(s, links, key) /\ Append(path, key) \in Seq(Keys)
    <3>1. GetFromPath(s, p, Append(path, key)) = Index(s, GetFromPath(s, p, path), key)
      BY GetUnfolds
    <3> QED
      BY <3>1
  <2>2. LinksOK(s.heap, links)
    BY GetFromPathFacts DEF FoundOK
  <2>3. OfNothing(links) => AllNull(links)
    BY <1>2
  <2> HIDE DEF links, next, L
  <2>4. /\ Len(links) \in Nat /\ Len(links) > 0 /\ DOMAIN links = 1..Len(links)
        /\ Resolved(links) = links[Len(links)].prop /\ links \in Seq(LinkType(s.heap))
    BY <2>2, LinksFacts DEF LinksOK
  <2> SUFFICES ASSUME OfNothing(next)
               PROVE  AllNull(next)
    BY <2>1 DEF next
  <2>5. ASSUME NEW q, next = Append(links, Link(q, key))
        PROVE  links[1].prop = Null
    <3>1. Append(links, Link(q, key))[1] = links[1]
      BY <2>4
    <3> QED
      BY <2>5, <3>1 DEF OfNothing
  <2>6. CASE Resolved(links) = Null
    <3>1. next = Append(links, Link(Null, key))
      BY <2>1, <2>6 DEF Index
    <3>2. AllNull(links)
      BY <2>3, <2>5, <3>1 DEF OfNothing
    <3>3. \A i \in DOMAIN next : next[i] = IF i \in DOMAIN links THEN links[i] ELSE Link(Null, key)
      BY <2>4, <3>1
    <3> QED
      BY <3>2, <3>3 DEF Link
  <2>7. CASE Resolved(links) # Null /\ IsType(s, Resolved(links), "Element")
    <3>1. next = Append(links, Link(Child(s, Resolved(links), key), key))
      BY <2>1, <2>7 DEF Index
    <3>2. AllNull(links)
      BY <2>3, <2>5, <3>1 DEF OfNothing
    <3> QED
      BY <2>4, <2>7, <3>2
  <2>8. CASE Resolved(links) # Null /\ ~IsType(s, Resolved(links), "Element")
    <3>1. next = Wrapper(Null)
      BY <2>1, <2>8 DEF Index
    <3> QED
      BY <3>1 DEF Wrapper, Link
  <2> QED
    BY <2>6, <2>7, <2>8
<1> HIDE DEF G
<1>3. Seq(Keys) \subseteq G
  BY <1>1, <1>2, PathInduction
<1> QED
  BY <1>3 DEF G

\* Data::operator[] and GetFromPath.
LEMMA TakeFulfils ==
  ASSUME Described, NEW w \in Wrappers, NEW d \in Docs, NEW path \in Paths, CallTake(w, d, path)
  PROVE  Fulfils
<1> DEFINE links == Find(d, path)
<1>1. /\ heap' = heap /\ wrapper' = [wrapper EXCEPT ![w] = Kept(d, path, links)]
      /\ wrapper = [v \in Wrappers |-> wrapper[v]]
  BY DEF CallTake, Described, Consistent, ConsistentState
<1>2. OfNothing(links) => \A i \in DOMAIN links : links[i].prop = Null
  <2>1. Good(Here) /\ docs[d] \in DOMAIN Here.heap /\ path \in Seq(Keys)
    BY HereFacts, PathsAssumption DEF Described
  <2> QED
    BY <2>1, TakenOfNothing DEF Find
<1> HIDE DEF links
<1>3. /\ wrapper'[w] = [doc |-> d, path |-> path, links |-> links]
      /\ \A v \in Wrappers \ {w} : wrapper'[v] = wrapper[v]
  BY <1>1 DEF Kept
<1>4. Plain(heap)'
  BY <1>1 DEF Described, Plain
<1>5. NothingLeads'
  <2> SUFFICES ASSUME NEW v \in Wrappers, wrapper'[v] # Nowhere, OfNothing(wrapper'[v].links)
               PROVE  \A i \in DOMAIN wrapper'[v].links : wrapper'[v].links[i].prop = Null
    BY DEF NothingLeads, Held, Links
  <2>1. CASE v = w
    BY <1>2, <1>3, <2>1
  <2>2. CASE v # w
    BY <1>3, <2>2 DEF Described, NothingLeads, Held, Links
  <2> QED
    BY <2>1, <2>2
<1>6. Trees' = Trees
  BY <1>1 DEF Trees
<1>7. \A v \in Wrappers \ {w} : Addresses'[v] = Addresses[v]
  BY <1>3 DEF Addresses, Held, Links
<1>8. Addresses'[w] \in {Promise!Address(d, path), Nowhere}
  BY <1>3 DEF Addresses, Held, Links, Promise!Address
<1>9. Addresses' = [Addresses EXCEPT ![w] = Addresses'[w]]
  <2>1. Addresses = [v \in Wrappers |-> Addresses[v]] /\ Addresses' = [v \in Wrappers |-> Addresses'[v]]
    BY DEF Addresses
  <2> QED
    BY <1>7, <2>1
<1>10. Promise!Take(w, d, path)
  <2>1. Addresses' \in {[Addresses EXCEPT ![w] = at] : at \in {Promise!Address(d, path), Nowhere}}
    BY <1>8, <1>9
  <2> QED
    BY <1>6, <2>1 DEF Promise!Take
<1>11. Promise!Next
  BY <1>10 DEF Promise!Next
<1> QED
  BY <1>4, <1>5, <1>11 DEF Fulfils

\* A document that takes the place of another.
LEMMA DocumentFulfils ==
  ASSUME Described, NEW d \in Docs, NEW s, NewDocument(s), Plain(s.heap),
         \A a \in DOMAIN heap : s.heap[a] = heap[a],
         NEW D, Lays(s.heap, s.prop, D), End(s, Replaced(d, s), wrapper)
  PROVE  /\ Plain(heap)' /\ NothingLeads'
         /\ Promise!OthersStay(d) /\ Trees' = [Trees EXCEPT ![d] = Picture(s.heap, D)]
<1> DEFINE new == Replaced(d, s)
<1>1. /\ new \in [Docs -> DOMAIN s.heap] /\ Distinct(new)
      /\ new[d] = s.prop /\ \A e \in Docs \ {d} : new[e] = docs[e]
      /\ Sound(s.heap, Roots(new))
      /\ \A v \in Wrappers : wrapper[v] # Nowhere => KeptOK(s.heap, wrapper[v])
  BY DocumentReplaced DEF Described
<1> HIDE DEF new
<1>2. Ending(s, new, wrapper)
  BY <1>1 DEF Ending, new
<1>3. \A v \in Wrappers : OfNothingAtAll(wrapper[v])
  BY DEF OfNothingAtAll, Described, NothingLeads, Held, Links
<1>4. Plain(heap)' /\ NothingLeads'
  BY <1>2, <1>3, EndDescribes
<1>5. \A e \in Docs \ {d} : DocStays(s, new, e)
  <2> TAKE e \in Docs \ {d}
  <2>1. Sound(heap, Roots(docs)) /\ IsTree(heap)
    BY DEF Described, Consistent, ConsistentState
  <2>2. /\ Lays(heap, docs[e], Layout(heap, e))
        /\ Trees[e] = Picture(heap, Layout(heap, e))
    BY <2>1, LayoutLays, TreeShown DEF Trees
  <2>3. DOMAIN heap \subseteq DOMAIN s.heap
    BY HereFacts DEF NewDocument, Grown, Larger, Described
  <2>4. \A q \in DOMAIN Layout(heap, e) : Layout(heap, e)[q] \in DOMAIN heap
    BY <2>2 DEF Lays
  <2> DEFINE L == Layout(heap, e)
  <2> HIDE DEF L
  <2>5. Lays(s.heap, docs[e], L) /\ Picture(s.heap, L) = Picture(heap, L)
    <3>1. Lays(heap, docs[e], L)
      BY <2>2 DEF L
    <3>2. \A q \in DOMAIN L : /\ L[q] \in DOMAIN s.heap /\ s.heap[L[q]].children = heap[L[q]].children
                              /\ NodeOf(s.heap[L[q]]) = NodeOf(heap[L[q]])
      BY <2>3, <2>4 DEF L
    <3> QED
      BY <3>1, <3>2, LaysKept
  <2> QED
    BY <1>1, <2>2, <2>5 DEF DocStays, L
<1>6. Trees' = [Trees EXCEPT ![d] = Picture(s.heap, D)]
  BY <1>1, <1>2, <1>5, DocChanges
<1>7. Promise!OthersStay(d)
  BY <1>2, <1>5, Untouched DEF Promise!OthersStay
<1> QED
  BY <1>4, <1>6, <1>7

\* Data::Create.
LEMMA CreateFulfils ==
  ASSUME Described, NEW d \in Docs, CallCreate(d)
  PROVE  Fulfils
<1> DEFINE s == Create(Here, "Element", 0)
<1>1. NewDocument(s) /\ End(s, Replaced(d, s), wrapper)
  BY CreateConsistent DEF Described, CallCreate, Replaced
<1>2. Good(Here) /\ Here.heap = heap
  BY HereFacts DEF Described
<1> HIDE DEF s
<1>3. PICK c : /\ Made(Here, s, c) /\ IsCell(c) /\ c.type = "Element" /\ c.value = 0
               /\ DOMAIN c.children = {}
  BY <1>2, CreateFacts, Z3 DEF s
<1>4. /\ Lays(s.heap, s.prop, Promise!Leaf(s.prop))
      /\ Picture(s.heap, Promise!Leaf(s.prop)) = Promise!Leaf(NodeOf(c))
  BY <1>3, MadeLays
<1>5. NodeOf(c) = Promise!ElementNode
  BY <1>3 DEF NodeOf, Promise!ElementNode, Promise!Node
<1>6. Plain(s.heap) /\ \A a \in DOMAIN heap : s.heap[a] = heap[a]
  BY <1>2, <1>3 DEF Made, Plain, Described
<1>7. /\ Plain(heap)' /\ NothingLeads'
      /\ Promise!OthersStay(d) /\ Trees' = [Trees EXCEPT ![d] = Promise!EmptyTree]
  BY <1>1, <1>4, <1>5, <1>6, DocumentFulfils DEF Promise!EmptyTree
<1>8. Promise!Create(d)
  BY <1>7 DEF Promise!Create, Promise!Change
<1>9. Promise!Next
  BY <1>8 DEF Promise!Next
<1> QED
  BY <1>7, <1>9 DEF Fulfils

\* Data::Save and Data::Load.
LEMMA LoadFulfils ==
  ASSUME Described, NEW d \in Docs, NEW src \in Docs, CallLoad(d, src)
  PROVE  Fulfils
<1> DEFINE s == Read(Here, docs[src])
<1>1. NewDocument(s) /\ End(s, Replaced(d, s), wrapper)
  BY LoadConsistent DEF Described, CallLoad, Replaced
<1>2. Good(Here) /\ Here.heap = heap /\ Structured(Here.heap, Steps, DOMAIN heap)
  BY HereFacts DEF Described
<1>3. docs[src] \in DOMAIN heap /\ Plain(Here.heap)
  BY <1>2, HereFacts DEF Described
<1>4. Sound(heap, Roots(docs)) /\ IsTree(heap)
  BY DEF Described, Consistent, ConsistentState
<1>5. Lays(heap, docs[src], Layout(heap, src)) /\ Trees[src] = Picture(heap, Layout(heap, src))
  BY <1>4, LayoutLays, TreeShown DEF Trees
<1>10. s = NewTree(Here, docs[src], TRUE) /\ TRUE \in BOOLEAN
  BY DEF Read
<1> HIDE DEF s
<1>6. /\ Plain(s.heap)
      /\ \E D : Lays(s.heap, s.prop, D) /\ Picture(s.heap, D) = Trees[src]
  <2>1. /\ Structured(Here.heap, Steps, DOMAIN heap) /\ docs[src] \in DOMAIN heap
        /\ Lays(Here.heap, docs[src], Layout(heap, src)) /\ Good(Here) /\ Plain(Here.heap)
        /\ Trees[src] = Picture(Here.heap, Layout(heap, src))
    BY <1>2, <1>3, <1>5
  <2>2. /\ Plain(s.heap)
        /\ \E D : Lays(s.heap, s.prop, D) /\ Picture(s.heap, D) = Picture(Here.heap, Layout(heap, src))
    <3>1. PICK C : C = DOMAIN heap
      OBVIOUS
    <3>2. PICK t : t = Here
      OBVIOUS
    <3>3. PICK L : L = Layout(heap, src)
      OBVIOUS
    <3>4. PICK p : p = docs[src]
      OBVIOUS
    <3>5. /\ Structured(t.heap, Steps, C) /\ p \in C /\ Lays(t.heap, p, L) /\ Good(t)
          /\ Plain(t.heap) /\ s = NewTree(t, p, TRUE)
      BY <1>10, <2>1, <3>1, <3>2, <3>3, <3>4
    <3>6. Copied(NewTree(t, p, TRUE), Picture(t.heap, L))
      BY <1>10, <3>5, CopyShown
    <3>7. Copied(s, Picture(Here.heap, Layout(heap, src)))
      BY <3>2, <3>3, <3>5, <3>6
    <3> QED
      BY <3>7 DEF Copied
  <2> QED
    BY <2>1, <2>2
<1>7. \A a \in DOMAIN heap : s.heap[a] = heap[a]
  <2>1. \A a \in DOMAIN Here.heap : s.heap[a] = Here.heap[a]
    <3>1. PICK C : C = DOMAIN heap
      OBVIOUS
    <3>2. PICK t : t = Here
      OBVIOUS
    <3>4. PICK p : p = docs[src]
      OBVIOUS
    <3>5. /\ Structured(t.heap, Steps, C) /\ p \in C /\ Good(t) /\ s = NewTree(t, p, TRUE)
      BY <1>2, <1>3, <1>10, <3>1, <3>2, <3>4
    <3>6. \A a \in DOMAIN t.heap : NewTree(t, p, TRUE).heap[a] = t.heap[a]
      BY <1>10, <3>5, NewTreeSound, Zenon
    <3> QED
      BY <3>2, <3>5, <3>6
  <2> QED
    BY <1>2, <2>1
<1>8. /\ Plain(heap)' /\ NothingLeads'
      /\ Promise!OthersStay(d) /\ Trees' = [Trees EXCEPT ![d] = Trees[src]]
  BY <1>1, <1>6, <1>7, DocumentFulfils
<1>9. Promise!Load(d)
  BY <1>8 DEF Promise!Load, Promise!Change
<1>11. Promise!Next
  BY <1>9 DEF Promise!Next
<1> QED
  BY <1>8, <1>11 DEF Fulfils
-----------------------------------------------------------------------------
(***************************************************************************)
(* Assignment of a scalar.                                                 *)
(***************************************************************************)
\* What a call has come to through a wrapper that leads somewhere.
LEMMA ThroughWrapper ==
  ASSUME Described, NEW w \in Held, ~OfNothing(Links(w)),
         NEW s, CallDone(Here, s), EndCall(s, w), s.links = <<>> \/ s.links[1] = Links(w)[1],
         NEW d, d = wrapper[w].doc, NEW D, NEW U, Shows(s, d, D, U)
  PROVE  /\ Plain(heap)' /\ NothingLeads' /\ Trees' = [Trees EXCEPT ![d] = U]
         /\ Promise!OthersStay(d)
         /\ Promise!Leads(w) /\ Promise!Doc(w) = d /\ Promise!Path(w) = wrapper[w].path
<1> DEFINE kept == ResolvedBy(s, w)
<1>1. /\ kept.doc = d /\ kept.path = wrapper[w].path /\ kept.links[1] = Links(w)[1]
  BY DEF ResolvedBy, Kept
<1>2. ~OfNothing(kept.links) /\ d \in Docs /\ w \in Wrappers
  BY <1>1, HeldFacts DEF OfNothing, Described
<1>3. CallEnding(s, w, kept)
  BY <1>2, EndCallEnding DEF OfNothingAtAll
<1> HIDE DEF kept
<1>4. /\ Plain(heap)' /\ NothingLeads' /\ Trees' = [Trees EXCEPT ![d] = U]
      /\ \A v \in Wrappers \ {w} : Promise!KeepsOrLoses(v, d)
      /\ Addresses'[w] \in {AddressOf(kept), Nowhere}
  BY <1>2, <1>3, CallShown
<1>5. Addresses[w] = [doc |-> d, path |-> wrapper[w].path]
  BY <1>2 DEF Addresses
<1>6. AddressOf(kept) \in {Addresses[w], Nowhere}
  BY <1>1, <1>5 DEF AddressOf
<1>7. Addresses[w] # Nowhere
  BY <1>2, <1>5, HeldFacts, NowhereAssumption DEF Described
<1>8. Promise!KeepsOrLoses(w, d)
  BY <1>4, <1>5, <1>6, <1>7 DEF Promise!KeepsOrLoses, Promise!Leads, Promise!Doc
<1>9. Promise!OthersStay(d)
  BY <1>4, <1>8 DEF Promise!OthersStay
<1> QED
  BY <1>4, <1>5, <1>7, <1>9 DEF Promise!Leads, Promise!Doc, Promise!Path

\* A value in the place of another needs no elements to be made on the way.
LEMMA GraftOverElements ==
  ASSUME NEW T, Tidy(T), NEW at \in DOMAIN T, NEW F, PathMap(F)
  PROVE  Promise!Graft(Promise!WithElements(T, at), at, F) = Promise!Graft(T, at, F)
<1> DEFINE U == Promise!WithElements(T, at)
           G == Promise!Graft(U, at, F)
           H == Promise!Graft(T, at, F)
<1>1. PathMap(T) /\ at \in Seq(Keys)
  BY DEF Tidy, PathMap
<1>2. HasElements(U, T, at)
  BY <1>1, WithElementsFacts
<1> HIDE DEF U
<1>3. PathMap(U)
  BY <1>2 DEF HasElements
<1>4. IsGraft(G, U, at, F) /\ IsGraft(H, T, at, F)
  BY <1>1, <1>3, GraftFacts
<1> HIDE DEF G, H
<1>5. ASSUME NEW q \in Seq(Keys), ~IsPrefix(at, q)
      PROVE  (q \in DOMAIN U <=> q \in DOMAIN T) /\ (q \in DOMAIN T => U[q] = T[q])
  <2>1. CASE IsPrefix(q, at)
    <3>1. q # at
      BY <1>1, <1>5, PrefixOrder
    <3>2. q \in DOMAIN T /\ T[q] = Promise!ElementNode
      BY <2>1, <3>1, TidyWay
    <3> QED
      BY <1>2, <2>1, <3>2 DEF HasElements
  <2>2. CASE ~IsPrefix(q, at)
    BY <1>2, <2>2 DEF HasElements
  <2> QED
    BY <2>1, <2>2
<1>6. IsGraft(G, T, at, F)
  BY <1>4, <1>5 DEF IsGraft
<1> QED
  BY <1>1, <1>4, <1>6, GraftUnique DEF G, H, U

\* The state t is s with F at the path "at" of the document d, which shows T, or
\* is unchanged there.
SetAt(t, s, d, T, at, F) ==
  \E C, U : /\ Shows(t, d, C, U) /\ t.links = s.links
            /\ U = T \/ (at # <<>> /\ U = Promise!Graft(T, at, F))

\* An element of a document is replaced in its parent, by a property that nobody
\* holds, unless it has none or does not know it.
LEMMA SetValueShown ==
  ASSUME NEW s, NEW d \in Docs, NEW D, NEW T, Shows(s, d, D, T),
         NEW at \in DOMAIN D, s.heap[D[at]].type = "Element",
         NEW p \in DOMAIN s.heap, Unheld(s.heap, p), p \notin s.roots,
         s.heap[p].parentProperty = Null, NEW E, Lays(s.heap, p, E), NEW order \in Seq(Keys)
  PROVE  SetAt(SetValue(s, D[at], p, order), s, d, T, at, Picture(s.heap, E))
<1> DEFINE el == D[at]
           parent == s.heap[el].parentProperty
           held == {i \in DOMAIN order : Child(s, parent, order[i]) = el}
           t == SetValue(s, el, p, order)
<1>1. Good(s) /\ el \in DOMAIN s.heap /\ HeldOnce(s.heap) /\ Unheld(s.heap, docs[d])
  BY DocUnheld DEF Shows, Lays
<1>2. parent = Null \/ parent \in DOMAIN s.heap
  BY <1>1 DEF Good, Sound, CellOK
<1>3. \A q \in DOMAIN s.heap : q \notin {Null, Gone}
  BY <1>1, Pointer DEF Good, Sound
<1>4. CASE parent = Null
  <2>1. t = Throw(s, "InvalidUsageError")
    BY <1>4 DEF SetValue
  <2>2. IsState(t) /\ t.heap = s.heap /\ t.roots = s.roots /\ t.links = s.links
    BY <1>1, <2>1, ThrowFacts DEF Good
  <2> HIDE DEF t
  <2>3. Shows(t, d, D, T)
    BY <2>2, ShowsSame
  <2> QED
    BY <2>2, <2>3 DEF t, SetAt
<1>5. CASE parent # Null /\ held = {}
  <2>1. t = s
    BY <1>2, <1>3, <1>5 DEF SetValue
  <2> HIDE DEF t
  <2> QED
    BY <2>1 DEF t, SetAt
<1>6. CASE parent # Null /\ held # {}
  <2>1. parent \in DOMAIN s.heap /\ parent # Gone
    BY <1>2, <1>3, <1>6
  <2>2. held \in SUBSET Nat
    OBVIOUS
  <2> DEFINE i == Min(held)
             key == order[i]
  <2>3. i \in held
    BY <1>6, <2>2, LeastExists
  <2>4. t = Put(s, parent, key, p)
    BY <1>6, <2>1 DEF SetValue
  <2>5. key \in Keys /\ Child(s, parent, key) = el
    BY <2>3
  <2> HIDE DEF i, held, t, key, parent, el
  <2>6. key \in DOMAIN s.heap[parent].children /\ s.heap[parent].children[key] = el
    BY <1>1, <1>3, <2>1, <2>5, ChildFacts
  <2>7. s.heap[parent].type = "Element"
    BY <1>1, <2>1, <2>6 DEF Good, Sound, CellOK
  <2>8. Good(t) /\ Grown(s, t) /\ Taken(s, t, parent, key, p)
    BY <1>1, <2>1, <2>4, <2>5, <2>7, PutSound
  <2>9. /\ at \in Seq(Keys) /\ D[<<>>] = docs[d]
        /\ \A q \in Seq(Keys), k \in Keys :
             Append(q, k) \in DOMAIN D => q \in DOMAIN D /\ k \in DOMAIN s.heap[D[q]].children
        /\ \A q \in DOMAIN D : D[q] \in DOMAIN s.heap
        /\ \A q \in DOMAIN D : \A k \in DOMAIN s.heap[D[q]].children :
             D[Append(q, k)] = s.heap[D[q]].children[k]
    BY DEF Shows, Lays, PathMap
  <2>10. at # <<>>
    <3> SUFFICES ASSUME at = <<>>
                 PROVE  FALSE
      OBVIOUS
    <3>1. el = docs[d]
      BY <2>9 DEF el
    <3> QED
      BY <1>1, <2>1, <2>6, <3>1 DEF Unheld, Holds
  <2> DEFINE b == Front(at)
             k == Last(at)
  <2>11. b \in Seq(Keys) /\ k \in Keys /\ Append(b, k) = at
    BY <2>9, <2>10, AppendToFront
  <2> HIDE DEF b, k
  <2>12. b \in DOMAIN D /\ k \in DOMAIN s.heap[D[b]].children
    BY <2>9, <2>11
  <2>13. s.heap[D[b]].children[k] = el /\ D[b] \in DOMAIN s.heap
    BY <2>9, <2>11, <2>12 DEF el
  <2>14. D[b] = parent /\ k = key
    BY <1>1, <2>1, <2>6, <2>12, <2>13 DEF HeldOnce
  <2>15. k \in KeysInUse \cap Keys
    BY <2>11, <2>12, <2>13 DEF Shows, Plain
  <2>16. NodesStay(s, t)
    BY <2>8 DEF NodesStay, NodeOf, Grown, Larger, Taken
  <2>17. t.roots = s.roots /\ Taken(s, t, D[b], k, p)
    BY <2>8, <2>14 DEF Grown, Larger
  <2>18. Shows(t, d, Promise!Graft(D, Append(b, k), E), Promise!Graft(T, Append(b, k), Picture(s.heap, E)))
    BY <2>8, <2>12, <2>15, <2>16, <2>17, ShowsTaken
  <2>19. t.links = s.links
    BY <2>8 DEF Grown
  <2> QED
    BY <2>10, <2>11, <2>18, <2>19 DEF t, el, SetAt
<1> QED
  BY <1>4, <1>5, <1>6

\* What a wrapper that leads somewhere is resolved to for a call.
LEMMA ResolvedShown ==
  ASSUME Described, NEW w \in Held, ~OfNothing(Links(w))
  PROVE  LET t == InitializeProperty(Here, Links(w), FALSE)
         IN  /\ Good(t) /\ Larger(Here, t) /\ t.prop \in DOMAIN t.heap /\ t.prop \notin {Null, Gone}
             /\ Resolved(Links(w)) # Null => t.prop = Resolved(Links(w))
             /\ t.links # <<>> /\ t.links[1] = Links(w)[1]
             /\ \E D, U : Reached(w, t, D, U)
<1> DEFINE links == Links(w)
           t == InitializeProperty(Here, links, FALSE)
<1>1. Good(Here) /\ LinksOK(Here.heap, links) /\ Usable(links) /\ Here.heap = heap
  BY HereFacts, HeldFacts DEF Described
<1>2. /\ Good(t) /\ Larger(Here, t)
      /\ LinksOK(t.heap, t.links)
      /\ t.prop = Null \/ t.prop \in DOMAIN t.heap
      /\ Resolved(links) # Null => t.prop = Resolved(links)
      /\ t.prop # Null
  BY <1>1, InitializeMakes
<1>3. t.links[1] = links[1]
  BY <1>1, InitializeFirst
<1>4. \E j : Leading(links, j, Len(links)) /\ links[j].prop # Null
  <2>1. Len(links) \in Nat /\ Len(links) > 0
    BY <1>1, LinksFacts
  <2>2. 1 \in 1..Len(links)
    BY <2>1
  <2> QED
    BY <1>1, <2>2, LastResolved DEF OfNothing
<1>5. \E D, U : Reached(w, t, D, U)
  BY <1>4, InitializeShown DEF Described
<1> HIDE DEF t, links
<1>6. t.prop \notin {Null, Gone} /\ t.links # <<>>
  BY <1>2, Pointer DEF Good, Sound, LinksOK
<1> QED
  BY <1>2, <1>3, <1>5, <1>6 DEF t, links

\* Assignment of a scalar through a wrapper that leads to nothing.
LEMMA AssignUnseen ==
  ASSUME Careful \subseteq ClientRules, Described,
         NEW w \in Held, NEW leaf \in Leaves, NEW order \in Orders, CallAssign(w, leaf, order),
         OfNothing(Links(w))
  PROVE  Fulfils
<1> DEFINE links == Links(w)
           t == InitializeProperty(Here, links, FALSE)
           s == Assign(Here, links, leaf, order)
           kept == ResolvedBy(s, w)
<1>1. Good(Here) /\ LinksOK(Here.heap, links) /\ Here.heap = heap /\ Here.roots = Roots(docs)
  BY HereFacts, HeldFacts DEF Described
<1>2. \A i \in DOMAIN links : links[i].prop = Null
  BY DEF Described, NothingLeads
<1>3. Len(links) \in Nat /\ Len(links) > 0 /\ DOMAIN links = 1..Len(links)
  BY <1>1, LinksFacts
<1>4. /\ t.heap = heap /\ t.prop = Null /\ Len(t.links) = Len(links)
      /\ \A i \in 1..Len(links) : t.links[i].prop = Null
  BY <1>1, <1>2, <1>3, InitializeNothing
<1>5. CallDone(Here, s) /\ EndCall(s, w)
  BY AssignConsistent DEF CallAssign, Described
<1>6. s = Throw(t, "LogicError")
  BY <1>4 DEF Assign
<1>7. Good(t) /\ t.roots = Here.roots /\ LinksOK(t.heap, t.links)
  <2>1. Usable(links)
    BY HeldFacts DEF Described
  <2> QED
    BY <1>1, <2>1, InitializeMakes DEF Larger
<1> HIDE DEF s, t, links
<1>8. Good(s) /\ s.heap = heap /\ s.roots = Roots(docs) /\ s.links = t.links
  BY <1>1, <1>4, <1>6, <1>7, ThrowFacts DEF Good
<1>9. s.links # <<>> /\ DOMAIN s.links = 1..Len(links) /\ \A i \in DOMAIN s.links : s.links[i].prop = Null
  BY <1>4, <1>7, <1>8, LinksFacts DEF LinksOK
<1>10. kept.links = s.links
  BY <1>9 DEF ResolvedBy, Kept
<1>11. OfNothingAtAll(kept) /\ OfNothing(kept.links)
  BY <1>3, <1>9, <1>10 DEF OfNothingAtAll, OfNothing
<1>12. CallEnding(s, w, kept)
  BY <1>5, <1>11, EndCallEnding
<1> HIDE DEF kept
<1>13. Plain(heap)' /\ NothingLeads' /\ UNCHANGED <<Trees, Addresses>>
  BY <1>8, <1>11, <1>12, CallUnseen DEF links
<1> QED
  BY <1>13 DEF Fulfils, Promise!vars

\* A call through a wrapper that only finds the wrapper to be that of a value.
LEMMA ValueUnseen ==
  ASSUME Described, NEW w \in Held, ~OfNothing(Links(w)),
         NEW t, Good(t), t.heap = heap, t.roots = Roots(docs), t.links = Links(w),
         NEW exception, NEW s, s = Throw(t, exception), CallDone(Here, s), EndCall(s, w)
  PROVE  Fulfils
<1>1. Good(s) /\ s.heap = heap /\ s.roots = Roots(docs) /\ s.links = Links(w)
  BY ThrowFacts DEF Good
<1>2. wrapper[w] = Kept(wrapper[w].doc, wrapper[w].path, Links(w))
  BY HeldFacts DEF Described
<1>3. ResolvedBy(s, w) = wrapper[w]
  BY <1>1, <1>2 DEF ResolvedBy
<1>4. OfNothingAtAll(wrapper[w])
  BY DEF OfNothingAtAll, Links
<1>5. CallEnding(s, w, wrapper[w])
  BY <1>3, <1>4, EndCallEnding
<1>6. Plain(heap)' /\ NothingLeads' /\ UNCHANGED <<Trees, Addresses>>
  BY <1>1, <1>5, CallUnseen
<1> QED
  BY <1>6 DEF Fulfils, Promise!vars

\* Assignment of a scalar.
LEMMA AssignFulfils ==
  ASSUME Careful \subseteq ClientRules, Described,
         NEW w \in Held, NEW leaf \in Leaves, NEW order \in Orders, CallAssign(w, leaf, order)
  PROVE  Fulfils
<1> DEFINE links == Links(w)
           d == wrapper[w].doc
           path == wrapper[w].path
           t == InitializeProperty(Here, links, FALSE)
           made == Create(t, leaf.type, leaf.value)
           s == Assign(Here, links, leaf, order)
           T == Promise!WithElements(Trees[d], path)
<1>1. CallDone(Here, s) /\ EndCall(s, w) /\ ~Collection(leaf.type)
      /\ (Resolved(links) # Null => heap[Resolved(links)].type \in {"Element", "Array", leaf.type})
  BY AssignConsistent DEF CallAssign, Described
<1>2. CASE OfNothing(links)
  BY <1>2, AssignUnseen
<1>3. CASE ~OfNothing(links)
  <2>1. /\ Good(t) /\ Larger(Here, t) /\ t.prop \in DOMAIN t.heap /\ t.prop \notin {Null, Gone}
        /\ Resolved(links) # Null => t.prop = Resolved(links)
        /\ t.links # <<>> /\ t.links[1] = links[1]
        /\ \E D, U : Reached(w, t, D, U)
    BY <1>3, ResolvedShown
  <2>2. PICK D, U : Reached(w, t, D, U)
    BY <2>1
  <2>3. /\ d \in Docs /\ path \in Paths /\ path \in Seq(Keys) /\ order \in Seq(Keys)
        /\ Here.heap = heap /\ Here.roots = Roots(docs)
    BY HeldFacts, HereFacts, PathsAssumption, OrdersAssumption DEF Described
  <2>4. /\ Shows(t, d, D, U) /\ path \in DOMAIN D /\ D[path] = t.prop
        /\ t.heap[t.prop].type = "Element" => U = T
        /\ t.heap[t.prop].type # "Element" => U = Trees[d] /\ t.heap = heap /\ t.links = links
    BY <2>2 DEF Reached
  <2>5. leaf = [type |-> leaf.type, value |-> leaf.value]
    BY LeavesAssumption
  <2>6. ASSUME NEW V, V = T \/ (path # <<>> /\ V = Promise!Graft(T, path, Promise!Leaf(leaf))),
               NEW C, Shows(s, d, C, V), s.links = t.links
        PROVE  Fulfils
    <3> HIDE DEF s, t, d, T
    <3>1. s.links = <<>> \/ s.links[1] = Links(w)[1]
      BY <2>1, <2>6 DEF links
    <3>2. /\ Plain(heap)' /\ NothingLeads' /\ Trees' = [Trees EXCEPT ![d] = V]
          /\ Promise!OthersStay(d)
          /\ Promise!Leads(w) /\ Promise!Doc(w) = d /\ Promise!Path(w) = path
      BY <1>1, <1>3, <2>6, <3>1, ThroughWrapper DEF d
    <3>3. V \in {T} \cup {Promise!Graft(T, path, Promise!Leaf(l)) :
                             l \in {l \in Leaves : ~Promise!Collection(l) /\ path # <<>>}}
      <4>1. ~Promise!Collection(leaf)
        BY <1>1 DEF Collection, Promise!Collection
      <4> QED
        BY <2>6, <4>1
    <3>4. Promise!Assign(w)
      BY <3>2, <3>3 DEF Promise!Assign, Promise!Change, T
    <3>5. Promise!Next
      BY <3>2, <3>4 DEF Promise!Next, Held
    <3> QED
      BY <3>2, <3>5 DEF Fulfils
  <2>7. CASE t.heap[t.prop].type = "Array"
    <3>1. s = Throw(t, "LogicError")
      BY <2>1, <2>7 DEF Assign, IsType
    <3>2. t.heap = heap /\ t.links = links /\ t.roots = Roots(docs)
      BY <2>1, <2>3, <2>4, <2>7 DEF Larger
    <3> HIDE DEF s, t
    <3> QED
      BY <1>1, <1>3, <2>1, <3>1, <3>2, ValueUnseen DEF links
  <2>8. CASE t.heap[t.prop].type = "Element"
    <3>1. s = SetValue(made, t.prop, made.prop, order)
      BY <2>1, <2>8 DEF Assign, IsType
    <3> HIDE DEF s, t, d, T, path
    <3>2. Good(made) /\ Grown(t, made) /\ MadeOf(t, made, leaf.type, leaf.value)
      BY <2>1, CreateMakes
    <3>3. PICK c : /\ Made(t, made, c) /\ c.type = leaf.type /\ c.value = leaf.value
                   /\ DOMAIN c.children = {} /\ c.parentProperty = Null
      <4> HIDE DEF made
      <4> QED
        BY <3>2 DEF MadeOf
    <3> HIDE DEF made
    <3>4. /\ Lays(made.heap, made.prop, Promise!Leaf(made.prop))
          /\ Picture(made.heap, Promise!Leaf(made.prop)) = Promise!Leaf(leaf)
      BY <2>5, <3>3, MadeLays DEF NodeOf
    <3>5. /\ \A a \in DOMAIN t.heap : a \in DOMAIN made.heap /\ made.heap[a] = t.heap[a]
          /\ made.prop \in DOMAIN made.heap /\ made.heap[made.prop] = c
          /\ made.prop \notin made.roots /\ Unheld(made.heap, made.prop)
          /\ DOMAIN made.heap = DOMAIN t.heap \cup {made.prop}
      BY <3>3 DEF Made
    <3>6. Plain(made.heap)
      <4>1. leaf.type # "Element"
        BY <1>1 DEF Collection
      <4> QED
        BY <2>4, <3>3, <3>5, <4>1 DEF Shows, Plain
    <3>7. Shows(made, d, D, U)
      BY <2>3, <2>4, <3>2, <3>5, <3>6, ShowsBeside DEF Grown, Larger
    <3>8. PICK C, V : /\ Shows(s, d, C, V) /\ s.links = made.links
                      /\ V = U \/ (path # <<>> /\ V = Promise!Graft(U, path, Promise!Leaf(leaf)))
      <4>1. made.heap[D[path]].type = "Element"
        BY <2>1, <2>4, <2>8, <3>5
      <4>2. made.heap[made.prop].parentProperty = Null
        BY <3>3, <3>5
      <4>3. path \in DOMAIN D /\ d \in Docs /\ order \in Seq(Keys)
        BY <2>3, <2>4
      <4> DEFINE r == SetValue(made, D[path], made.prop, order)
      <4>4. \E C, V : /\ Shows(r, d, C, V) /\ r.links = made.links
                      /\ V = U \/ (path # <<>> /\ V = Promise!Graft(U, path, Picture(made.heap, Promise!Leaf(made.prop))))
        <5>1. SetAt(r, made, d, U, path, Picture(made.heap, Promise!Leaf(made.prop)))
          BY <3>4, <3>5, <3>7, <4>1, <4>2, <4>3, SetValueShown
        <5> HIDE DEF r
        <5> QED
          BY <5>1 DEF SetAt
      <4>5. s = r
        BY <2>4, <3>1
      <4> HIDE DEF r
      <4> QED
        BY <3>4, <4>4, <4>5
    <3>9. s.links = t.links /\ U = T
      BY <2>4, <2>8, <3>2, <3>8 DEF Grown
    <3> QED
      BY <2>6, <3>8, <3>9
  <2>9. CASE t.heap[t.prop].type \notin {"Element", "Array"}
    <3>1. t.heap[t.prop].type = leaf.type
      <4>1. Resolved(links) # Null
        <5>1. LinksOK(Here.heap, links) /\ Usable(links) /\ Good(Here)
          BY HereFacts, HeldFacts DEF Described
        <5> QED
          BY <2>1, <2>9, <5>1, InitializeMakes
      <4>2. heap[t.prop].type \in {"Element", "Array", leaf.type}
        BY <1>1, <2>1, <4>1
      <4>3. t.heap = heap
        BY <2>4, <2>9
      <4> QED
        BY <2>9, <4>2, <4>3
    <3>2. s = Revalued(t, t.prop, leaf.value)
      BY <2>1, <2>9, <3>1 DEF Assign, IsType, Revalued
    <3> HIDE DEF s, t, d, T, path
    <3>7. Shows(s, d, D, Promise!Graft(U, path, Promise!Leaf(leaf))) /\ s.links = t.links
      <4>1. t.heap[D[path]].type # "Element" /\ path \in DOMAIN D /\ d \in Docs /\ Shows(t, d, D, U)
        BY <2>3, <2>4, <2>9
      <4>2. /\ Shows(Revalued(t, D[path], leaf.value), d, D,
                     Promise!Graft(U, path, Promise!Leaf(Promise!Node(t.heap[D[path]].type, leaf.value))))
            /\ Revalued(t, D[path], leaf.value).links = t.links
        BY <4>1, ShowsRevalued
      <4>3. Promise!Node(t.heap[D[path]].type, leaf.value) = leaf
        BY <2>4, <2>5, <3>1 DEF Promise!Node
      <4> QED
        BY <2>4, <3>2, <4>2, <4>3
    <3>8. Tidy(U) /\ path \in DOMAIN U /\ path # <<>>
      <4>1. Tidy(U) /\ U[<<>>] = Promise!ElementNode /\ DOMAIN U = DOMAIN D
            /\ \A q \in DOMAIN D : U[q] = NodeOf(t.heap[D[q]])
        BY <2>3, <2>4, ShowsTidy
      <4>2. U[path] = NodeOf(t.heap[t.prop])
        BY <2>4, <4>1
      <4> QED
        BY <2>4, <2>9, <4>1, <4>2 DEF NodeOf, Promise!ElementNode, Promise!Node
    <3>9. Promise!Graft(U, path, Promise!Leaf(leaf)) = Promise!Graft(T, path, Promise!Leaf(leaf))
      <4>1. U = Trees[d]
        BY <2>4, <2>9
      <4> QED
        BY <3>8, <4>1, GraftOverElements, LeafFacts DEF T
    <3> QED
      BY <2>6, <3>7, <3>8, <3>9
  <2> QED
    BY <2>7, <2>8, <2>9
<1> QED
  BY <1>2, <1>3
-----------------------------------------------------------------------------
(***************************************************************************)
(* PropertyWrapper::Add and AddArray.                                      *)
(***************************************************************************)
\* What is grafted in the place of a graft replaces it.
LEMMA GraftTwice ==
  ASSUME NEW T, PathMap(T), NEW at \in Seq(Keys), NEW A, PathMap(A), NEW B, PathMap(B)
  PROVE  Promise!Graft(Promise!Graft(T, at, A), at, B) = Promise!Graft(T, at, B)
<1> DEFINE F == Promise!Graft(T, at, A)
           G == Promise!Graft(F, at, B)
           H == Promise!Graft(T, at, B)
<1>1. IsGraft(F, T, at, A) /\ IsGraft(H, T, at, B)
  BY GraftFacts
<1> HIDE DEF F, H
<1>2. PathMap(F)
  BY <1>1 DEF IsGraft
<1>3. IsGraft(G, F, at, B)
  BY <1>2, GraftFacts
<1> HIDE DEF G
<1>4. IsGraft(G, T, at, B)
  BY <1>1, <1>3 DEF IsGraft
<1> QED
  BY <1>1, <1>4, GraftUnique DEF F, G, H

\* There is an element at the path b of the document d, which shows T with elements
\* up to there, and the name may be added to it.
CanAddTo(s, d, D, T, b, name, pathToElements) ==
  /\ s.outcome = "ok" /\ d \in Docs /\ PathMap(T)
  /\ b \in DOMAIN D /\ Shows(s, d, D, Promise!WithElements(T, b)) /\ s.heap[D[b]].type = "Element"
  /\ name \in Seq(STRING) /\ name # NoName /\ pathToElements \in BOOLEAN
  /\ \A i \in DOMAIN Target(name, pathToElements) : Target(name, pathToElements)[i] \in KeysInUse
  /\ pathToElements => /\ Len(name) > 1
                       /\ \/ Child(s, D[b], SubSeq(name, 1, 1)) = Null
                          \/ IsType(s, Child(s, D[b], SubSeq(name, 1, 1)), "Element")

\* The state t has come to a property of the type, which is at the path "at".
NowAdded(t, d, T, at, type) ==
  LET F == Promise!WithElements(T, Front(at))
  IN  \E E : /\ Shows(t, d, E, NamedTree(F, at, type, TRUE)) /\ Tidy(F)
             /\ at \in DOMAIN E /\ E[at] = t.prop
             /\ at \in Seq(Keys)

\* Element::Add of a path of names, as a program sees it.
LEMMA AddShown ==
  ASSUME NEW s, NEW d, NEW D, NEW T, NEW b, NEW name, NEW type, NEW pathToElements,
         CanAddTo(s, d, D, T, b, name, pathToElements)
  PROVE  NowAdded(Add(s, D[b], name, type, pathToElements), d, T, b \o Target(name, pathToElements), type)
<1> DEFINE e == D[b]
           U == Promise!WithElements(T, b)
           t == Add(s, e, name, type, pathToElements)
           at == b \o Target(name, pathToElements)
           F == Promise!WithElements(T, Front(at))
<1> USE DEF CanAddTo
<1>1. Good(s) /\ e \in DOMAIN s.heap /\ b \in Seq(Keys) /\ Tidy(U)
  BY ShowsTidy DEF Shows, Lays, PathMap
<1>2. name \in Keys /\ Len(name) \in Nat
  BY NameParts
<1>3. CASE ~pathToElements
  <2>1. t = AddNamed(s, e, name, type, TRUE)
    BY <1>3 DEF Add
  <2>2. Target(name, pathToElements) = <<name>> /\ name \in KeysInUse
    <3>1. Target(name, pathToElements) = <<name>>
      BY <1>3 DEF Target, NoName
    <3> QED
      BY <3>1
  <2>3. at = Append(b, name) /\ Front(at) = b
    <3>1. b \o <<name>> = Append(b, name)
      BY <1>1
    <3> QED
      BY <1>1, <1>2, <2>2, <3>1, AppendFacts
  <2>4. at \in Seq(Keys) /\ F = U
    BY <1>1, <1>2, <2>3
  <2> HIDE DEF t, U, e, at, F
  <2> DEFINE r == AddNamed(s, D[b], name, type, TRUE)
  <2>5. \E E : /\ Shows(r, d, E, NamedTree(U, at, type, TRUE)) /\ at \in DOMAIN E /\ E[at] = r.prop
    <3>1. NamedAt(r, d, NamedTree(U, at, type, TRUE), at, b, D[b])
      BY <1>2, <2>2, <2>3, AddNamedShown DEF U
    <3> HIDE DEF r
    <3> QED
      BY <3>1 DEF NamedAt
  <2>6. t = r
    BY <2>1 DEF e
  <2> HIDE DEF r
  <2> QED
    BY <1>1, <2>4, <2>5, <2>6 DEF t, e, at, F, NowAdded
<1>4. CASE pathToElements
  <2> DEFINE first == SubSeq(name, 1, 1)
             rest == Tail(name)
             one == Append(b, first)
             v == AddNamed(s, e, first, "Element", FALSE)
             r == AddNamed(v, v.prop, rest, type, TRUE)
  <2>1. first \in Keys /\ rest \in Keys
    BY <1>4, NameParts
  <2>2. Target(name, pathToElements) = <<first, rest>> /\ first \in KeysInUse /\ rest \in KeysInUse
    <3>1. Target(name, pathToElements) = <<first, rest>>
      BY <1>4 DEF Target, NoName
    <3>2. DOMAIN <<first, rest>> = {1, 2} /\ <<first, rest>>[1] = first /\ <<first, rest>>[2] = rest
      OBVIOUS
    <3> QED
      BY <3>1, <3>2
  <2>3. ~(~pathToElements \/ Len(name) <= 1)
    BY <1>2, <1>4
  <2>4. t = IF IsType(v, v.prop, "Element") THEN r ELSE Undefined(v)
    BY <2>3 DEF Add
  <2> HIDE DEF first, rest
  <2>5. Added(s, v, "Element")
    <3>1. FALSE \in BOOLEAN
      OBVIOUS
    <3>2. Child(s, e, first) = Null \/ IsType(s, Child(s, e, first), "Element")
      BY <1>4 DEF first
    <3> HIDE DEF e
    <3> QED
      BY <1>1, <2>1, <3>1, <3>2, AddNamedSound DEF e
  <2>6. IsType(v, v.prop, "Element") /\ v.heap[v.prop].type = "Element"
    <3>1. v.prop \in DOMAIN v.heap /\ v.heap[v.prop].type = "Element" /\ v.prop \in Seq(Steps)
      BY <2>5 DEF Added, Good, Sound
    <3> HIDE DEF v
    <3> QED
      BY <3>1, Pointer DEF IsType
  <2>7. t = r
    BY <2>4, <2>6
  <2>8. one \in Seq(Keys) /\ at = Append(one, rest) /\ Front(at) = one /\ at \in Seq(Keys)
    <3>1. one \in Seq(Keys)
      BY <1>1, <2>1
    <3>2. b \o <<first, rest>> = Append(one, rest)
      <4>1. b \o <<first>> = one
        BY <1>1, <2>1
      <4>2. (b \o <<first>>) \o <<rest>> = b \o <<first, rest>>
        BY <1>1, <2>1, TwoKeys
      <4> HIDE DEF one
      <4>3. one \o <<rest>> = Append(one, rest)
        BY <2>1, <3>1
      <4> QED
        BY <4>1, <4>2, <4>3
    <3>3. at = Append(one, rest)
      BY <2>2, <3>2
    <3> HIDE DEF one, at
    <3>4. Append(one, rest) \in Seq(Keys) /\ Front(Append(one, rest)) = one
      BY <2>1, <3>1, AppendFacts
    <3> QED
      BY <3>1, <3>3, <3>4
  <2> HIDE DEF at
  <2>9. \E C : /\ Shows(v, d, C, NamedTree(U, one, "Element", FALSE)) /\ one \in DOMAIN C /\ C[one] = v.prop
    <3> HIDE DEF U, one
    <3>1. FALSE \in BOOLEAN /\ one = Append(b, first)
      BY DEF one
    <3>2. NamedAt(AddNamed(s, D[b], first, "Element", FALSE), d,
                  NamedTree(U, one, "Element", FALSE), one, b, D[b])
      BY <2>1, <2>2, <3>1, AddNamedShown DEF U
    <3>3. v = AddNamed(s, D[b], first, "Element", FALSE)
      OBVIOUS
    <3> HIDE DEF v
    <3> QED
      BY <3>2, <3>3 DEF NamedAt
  <2>10. NamedTree(U, one, "Element", FALSE) = F
    <3>1. Promise!Node("Element", Initial("Element")) = Promise!ElementNode
      BY DEF Promise!ElementNode, Promise!Node, Initial, Collection
    <3>2. one \in DOMAIN U => U[one] = Promise!ElementNode
      <4> SUFFICES ASSUME one \in DOMAIN U
                   PROVE  U[one] = Promise!ElementNode
        OBVIOUS
      <4>1. /\ DOMAIN U = DOMAIN D
            /\ \A q \in DOMAIN D : D[q] \in DOMAIN s.heap /\
                                   (s.heap[D[q]].type = "Element" <=> U[q] = Promise!ElementNode)
        <5>1. Shows(s, d, D, U) /\ d \in Docs
          OBVIOUS
        <5> HIDE DEF U, CanAddTo
        <5>2. PICK x \in Docs : x = d
          BY <5>1
        <5>3. PICK W : W = U
          OBVIOUS
        <5>4. Shows(s, x, D, W)
          BY <5>1, <5>2, <5>3
        <5>5. DOMAIN W = DOMAIN D
          BY <5>4, ShowsPaths
        <5>6. \A q \in DOMAIN D : D[q] \in DOMAIN s.heap
                                  /\ (s.heap[D[q]].type = "Element" <=> W[q] = Promise!ElementNode)
          <6> TAKE q \in DOMAIN D
          <6> QED
            BY <5>4, ShowsNode
        <5> QED
          BY <5>3, <5>5, <5>6
      <4>2. /\ \A q \in Seq(Keys), k \in Keys :
                 Append(q, k) \in DOMAIN D => q \in DOMAIN D /\ k \in DOMAIN s.heap[D[q]].children
            /\ \A q \in DOMAIN D : \A k \in DOMAIN s.heap[D[q]].children :
                 D[Append(q, k)] = s.heap[D[q]].children[k]
        BY DEF Shows, Lays
      <4>3. first \in DOMAIN s.heap[e].children /\ s.heap[e].children[first] = D[one]
        BY <1>1, <2>1, <4>1, <4>2
      <4>4. Child(s, e, first) = D[one] /\ D[one] \in DOMAIN s.heap
        BY <4>1, <4>3 DEF Child, Children
      <4>5. Child(s, e, first) = Null \/ IsType(s, Child(s, e, first), "Element")
        BY <1>4 DEF first
      <4>6. D[one] # Null
        <5>1. D[one] \in Seq(Steps)
          BY <1>1, <4>4 DEF Good, Sound
        <5> QED
          BY <5>1, Pointer
      <4> QED
        BY <4>1, <4>4, <4>5, <4>6 DEF IsType
    <3> HIDE DEF U
    <3>3. F = OneMore(U, one)
      <4>1. U = Promise!WithElements(T, b) /\ one = Append(b, first) /\ F = Promise!WithElements(T, one)
        BY <2>8 DEF U
      <4> HIDE DEF one, F
      <4>2. Promise!WithElements(T, Append(b, first)) = OneMore(U, Append(b, first))
        BY <1>1, <2>1, <4>1, ElementsGrow
      <4> QED
        BY <4>1, <4>2
    <3> HIDE DEF F
    <3> QED
      BY <3>1, <3>2, <3>3 DEF NamedTree, OneMore
  <2> HIDE DEF F
  <2>11. PICK C : Shows(v, d, C, F) /\ one \in DOMAIN C /\ C[one] = v.prop
    BY <2>9, <2>10
  <2> HIDE DEF t, v, one
  <2>12. \E E : Shows(r, d, E, NamedTree(F, at, type, TRUE)) /\ at \in DOMAIN E /\ E[at] = r.prop
    <3>1. rest \in KeysInUse \cap Keys /\ TRUE \in BOOLEAN /\ v.heap[C[one]].type = "Element"
      BY <2>1, <2>2, <2>6, <2>11
    <3> DEFINE x == AddNamed(v, C[one], rest, type, TRUE)
    <3>2. \E E : Shows(x, d, E, NamedTree(F, at, type, TRUE)) /\ at \in DOMAIN E /\ E[at] = x.prop
      <4>1. NamedAt(x, d, NamedTree(F, at, type, TRUE), at, one, C[one])
        BY <2>8, <2>11, <3>1, AddNamedShown
      <4> HIDE DEF x
      <4> QED
        BY <4>1 DEF NamedAt
    <3>3. r = x
      BY <2>11
    <3> HIDE DEF x, r
    <3> QED
      BY <3>2, <3>3
  <2>13. Tidy(F)
    BY <2>11, ShowsTidy
  <2> HIDE DEF r
  <2> QED
    BY <2>7, <2>8, <2>12, <2>13 DEF t, F, at, NowAdded
<1> QED
  BY <1>3, <1>4

\* What Forest promises of what is added, in parts: an array gets its size afterwards.
LEMMA AddedTree ==
  ASSUME NEW F, Tidy(F), NEW at \in Seq(Keys), NEW leaf \in Leaves
  PROVE  /\ leaf.type # "Array" =>
              NamedTree(F, at, leaf.type, TRUE) = Promise!Added(F, at, leaf)
         /\ leaf.type = "Array" =>
              Promise!Graft(NamedTree(F, at, leaf.type, TRUE), at, Promise!Leaf(leaf))
                = Promise!Added(F, at, leaf)
<1> DEFINE type == leaf.type
           node == Promise!Node(type, Initial(type))
           V == NamedTree(F, at, type, TRUE)
<1>1. leaf = [type |-> type, value |-> leaf.value] /\ (type = "Element" => leaf.value = 0)
  BY LeavesAssumption
<1>2. type # "Array" => node = Promise!New(leaf)
  <2>1. Promise!Collection(leaf) <=> type \in {"Element", "Array"}
    BY DEF Promise!Collection
  <2> QED
    BY <1>1, <2>1 DEF Promise!New, Promise!Node, Initial, Collection
<1>3. type = "Array" => Promise!New(leaf) = leaf
  BY DEF Promise!New, Promise!Collection
<1>4. ASSUME type # "Array"
      PROVE  V = Promise!Added(F, at, leaf)
  BY <1>2, <1>4 DEF NamedTree, Promise!Added
<1>5. ASSUME type = "Array"
      PROVE  Promise!Graft(V, at, Promise!Leaf(leaf)) = Promise!Added(F, at, leaf)
  <2>1. CASE at \in DOMAIN F /\ F[at].type = type
    <3>1. V = F
      BY <2>1 DEF NamedTree
    <3> HIDE DEF V
    <3> DEFINE G == Promise!Graft(F, at, Promise!Leaf(leaf))
               H == [F EXCEPT ![at] = leaf]
    <3>2. F[at] # Promise!ElementNode
      BY <1>5, <2>1 DEF Promise!ElementNode, Promise!Node
    <3>3. LeafOn(G, F, at, leaf)
      BY <3>2, LeafGrafted
    <3>4. PathMap(F)
      BY DEF Tidy
    <3>5. PathMap(H) /\ DOMAIN H = DOMAIN F /\ \A q \in DOMAIN F : H[q] = IF q = at THEN leaf ELSE F[q]
      BY <3>4 DEF PathMap, IsMap
    <3>6. H = Promise!Added(F, at, leaf)
      BY <1>5, <2>1 DEF Promise!Added
    <3> HIDE DEF G, H
    <3>7. G = H
      BY <2>1, <3>3, <3>5, SamePathMap DEF LeafOn
    <3> QED
      BY <3>1, <3>6, <3>7 DEF G
  <2>2. CASE ~(at \in DOMAIN F /\ F[at].type = type)
    <3>1. V = Promise!Graft(F, at, Promise!Leaf(node))
      BY <2>2 DEF NamedTree
    <3>2. Promise!Added(F, at, leaf) = Promise!Graft(F, at, Promise!Leaf(leaf))
      BY <1>3, <1>5, <2>2 DEF Promise!Added
    <3> HIDE DEF V, node
    <3>3. PathMap(F) /\ PathMap(Promise!Leaf(node)) /\ PathMap(Promise!Leaf(leaf))
      BY LeafFacts DEF Tidy
    <3>4. Promise!Graft(V, at, Promise!Leaf(leaf)) = Promise!Graft(F, at, Promise!Leaf(leaf))
      BY <3>1, <3>3, GraftTwice
    <3> QED
      BY <1>5, <3>2, <3>4
  <2> QED
    BY <2>1, <2>2
<1> HIDE DEF V, type
<1> QED
  BY <1>4, <1>5 DEF V, type

\* Element::Add, or AddArray for an array.
AnyAdd(s, e, name, leaf, pathToElements) ==
  IF leaf.type = "Array" THEN AddArray(s, e, name, leaf.value, pathToElements)
  ELSE Add(s, e, name, leaf.type, pathToElements)

\* They do what Forest promises.
LEMMA AnyAddShown ==
  ASSUME NEW s, NEW d, NEW D, NEW T, NEW b, NEW name, NEW leaf \in Leaves, NEW pathToElements,
         CanAddTo(s, d, D, T, b, name, pathToElements),
         NEW at, at = b \o Target(name, pathToElements)
  PROVE  \E E : Shows(AnyAdd(s, D[b], name, leaf, pathToElements), d, E,
                      Promise!Added(Promise!WithElements(T, Front(at)), at, leaf))
<1> DEFINE e == D[b]
           u == Add(s, e, name, leaf.type, pathToElements)
           t == AnyAdd(s, e, name, leaf, pathToElements)
           F == Promise!WithElements(T, Front(at))
           V == NamedTree(F, at, leaf.type, TRUE)
<1>1. Good(s) /\ e \in DOMAIN s.heap /\ d \in Docs
  BY DEF Shows, Lays, CanAddTo
<1>2. NowAdded(u, d, T, at, leaf.type)
  BY AddShown
<1>3. PICK E : Shows(u, d, E, V) /\ Tidy(F) /\ at \in DOMAIN E /\ E[at] = u.prop /\ at \in Seq(Keys)
  <2> HIDE DEF u
  <2> QED
    BY <1>2 DEF NowAdded
<1>4. Added(s, u, leaf.type)
  <2>1. pathToElements => Child(s, e, SubSeq(name, 1, 1)) = Null \/ IsType(s, Child(s, e, SubSeq(name, 1, 1)), "Element")
    BY DEF CanAddTo
  <2>2. /\ s.heap[e].type = "Element" /\ s.outcome = "ok" /\ pathToElements \in BOOLEAN
        /\ name \in Seq(STRING) /\ name # NoName
    BY DEF CanAddTo
  <2> HIDE DEF e
  <2> QED
    BY <1>1, <2>1, <2>2, AddSound
<1> HIDE DEF V, F
<1>5. CASE leaf.type # "Array"
  <2>1. t = u
    BY <1>5 DEF AnyAdd
  <2>2. V = Promise!Added(F, at, leaf)
    BY <1>3, <1>5, AddedTree DEF V
  <2> HIDE DEF u, t, e
  <2> QED
    BY <1>3, <2>1, <2>2 DEF F, t, e
<1>6. CASE leaf.type = "Array"
  <2>1. t = AddArray(s, e, name, leaf.value, pathToElements)
    BY <1>6 DEF AnyAdd
  <2> HIDE DEF e
  <2>2. u.prop \in DOMAIN u.heap /\ u.heap[u.prop].type = "Array" /\ u.outcome = "ok" /\ Good(u)
    <3>1. s.outcome = "ok"
      BY DEF CanAddTo
    <3> HIDE DEF u
    <3> QED
      BY <1>4, <1>6, <3>1 DEF Added, Grown, Larger
  <2>3. u.prop \notin {Null, Gone}
    BY <2>2, Pointer DEF Good, Sound
  <2>4. t = Revalued(u, u.prop, leaf.value)
    <3>1. t = IF u.outcome # "ok" \/ u.prop = Null THEN u
              ELSE IF IsType(u, u.prop, "Array") THEN [u EXCEPT !.heap[u.prop].value = leaf.value]
              ELSE Undefined(u)
      BY <1>6, <2>1 DEF AddArray
    <3> HIDE DEF u
    <3> QED
      BY <2>2, <2>3, <3>1 DEF IsType, Revalued
  <2> HIDE DEF u
  <2>8. Promise!Node(u.heap[u.prop].type, leaf.value) = leaf
    BY <1>6, <2>2, LeavesAssumption DEF Promise!Node
  <2>9. /\ Shows(t, d, E, Promise!Graft(V, at, Promise!Leaf(leaf)))
        /\ Grown(u, t)
    <3>1. /\ u.heap[E[at]].type # "Element" /\ at \in DOMAIN E /\ Shows(u, d, E, V) /\ E[at] = u.prop
          /\ d \in Docs
      BY <1>1, <1>3, <2>2
    <3>2. /\ Shows(Revalued(u, E[at], leaf.value), d, E,
                   Promise!Graft(V, at, Promise!Leaf(Promise!Node(u.heap[E[at]].type, leaf.value))))
          /\ Grown(u, Revalued(u, E[at], leaf.value))
      BY <3>1, ShowsRevalued
    <3> QED
      BY <2>4, <2>8, <3>1, <3>2
  <2>11. Promise!Graft(V, at, Promise!Leaf(leaf)) = Promise!Added(F, at, leaf)
    BY <1>3, <1>6, AddedTree DEF V
  <2> HIDE DEF t
  <2> QED
    BY <2>9, <2>11 DEF F, t, e
<1> QED
  BY <1>5, <1>6

\* PropertyWrapper::Add and AddArray.
LEMMA AddFulfils ==
  ASSUME Careful \subseteq ClientRules, Described,
         NEW w \in Held, NEW name \in Names, NEW leaf \in Leaves,
         NEW pathToElements \in BOOLEAN, CallAdd(w, name, leaf, pathToElements)
  PROVE  Fulfils
<1> DEFINE links == Links(w)
           d == wrapper[w].doc
           path == wrapper[w].path
           target == Target(name, pathToElements)
           at == path \o target
           t == InitializeProperty(Here, links, FALSE)
           s == WrapperAdd(Here, links, name, leaf, pathToElements)
           F == Promise!WithElements(Trees[d], Front(at))
<1>1. CallDone(Here, s) /\ (s.outcome = "ok" => LinksOK(s.heap, Returned(s)))
  BY AddConsistent DEF Described
<1>2. Addable(w, name, leaf, pathToElements)
  BY DEF CallAdd
<1>3. /\ name \in Seq(STRING) /\ name # NoName /\ ~OfNothing(links)
      /\ pathToElements => Len(name) > 1
      /\ pathToElements /\ IsType(t, t.prop, "Element") =>
           Child(t, t.prop, SubSeq(name, 1, 1)) = Null
           \/ IsType(t, Child(t, t.prop, SubSeq(name, 1, 1)), "Element")
  BY <1>2, AddRules DEF Addable, Described
<1>4. /\ Good(t) /\ Larger(Here, t) /\ t.prop \in DOMAIN t.heap /\ t.prop \notin {Null, Gone}
      /\ t.links # <<>> /\ t.links[1] = links[1]
      /\ \E D, U : Reached(w, t, D, U)
  BY <1>3, ResolvedShown
<1>5. PICK D, U : Reached(w, t, D, U)
  BY <1>4
<1>6. /\ d \in Docs /\ path \in Paths /\ path \in Seq(Keys)
      /\ Here.heap = heap /\ Here.roots = Roots(docs) /\ Here.outcome = "ok"
  BY HeldFacts, HereFacts, PathsAssumption DEF Described
<1>7. /\ Shows(t, d, D, U) /\ path \in DOMAIN D /\ D[path] = t.prop
      /\ t.heap[t.prop].type = "Element" => U = Promise!WithElements(Trees[d], path)
      /\ t.heap[t.prop].type # "Element" => U = Trees[d] /\ t.heap = heap /\ t.links = links
  BY <1>5 DEF Reached
<1>8. \/ EndCall(s, w)
      \/ /\ s.outcome = "ok" /\ at \in Paths
         /\ End(s, docs, [wrapper EXCEPT ![w] = Kept(d, at, Returned(s))])
  BY DEF CallAdd, Place
<1>9. Resolved(t.links) = t.prop
  <2>1. Good(Here) /\ LinksOK(Here.heap, links) /\ Usable(links)
    BY HereFacts, HeldFacts DEF Described
  <2> QED
    BY <2>1, InitializeMakes
<1>10. CASE t.heap[t.prop].type # "Element"
  <2>1. s = Throw(t, "InvalidUsageError")
    BY <1>4, <1>10 DEF WrapperAdd, IsType
  <2>2. t.heap = heap /\ t.links = links /\ t.roots = Roots(docs)
    BY <1>4, <1>6, <1>7, <1>10 DEF Larger
  <2> HIDE DEF s, t
  <2>3. s.outcome = "InvalidUsageError"
    BY <1>4, <2>1, ThrowFacts DEF Good
  <2>4. EndCall(s, w)
    BY <1>8, <2>3
  <2> QED
    BY <1>1, <1>3, <1>4, <2>1, <2>2, <2>4, ValueUnseen DEF links
<1>11. CASE t.heap[t.prop].type = "Element"
  <2>1. s = IF leaf.type = "Array" THEN AddArray(t, t.prop, name, leaf.value, pathToElements)
            ELSE Add(t, t.prop, name, leaf.type, pathToElements)
    BY <1>4, <1>11 DEF WrapperAdd, IsType
  <2> HIDE DEF s, t, d, path, links, F
  <2>2. PathMap(Trees[d])
    <3>1. Shows(Here, d, Layout(heap, d), Trees[d])
      BY <1>6, HereShown DEF Described
    <3> QED
      BY <1>6, <3>1, ShowsTidy DEF Tidy
  <2>3. /\ target \in Seq(Keys) /\ target # <<>>
        /\ \A i \in DOMAIN target : target[i] \in KeysInUse
    <3>1. target \in Seq(Keys)
      BY <1>3, TargetKeys
    <3>2. target # <<>>
      BY <1>3 DEF Target, NoName
    <3> QED
      BY <3>1, <3>2, InUse
  <2>4. PICK E : Shows(s, d, E, Promise!Added(F, at, leaf))
    <3>1. t.outcome = "ok" /\ IsType(t, t.prop, "Element")
      BY <1>4, <1>6, <1>11 DEF Larger, IsType
    <3>2. pathToElements => /\ Len(name) > 1
                            /\ \/ Child(t, D[path], SubSeq(name, 1, 1)) = Null
                               \/ IsType(t, Child(t, D[path], SubSeq(name, 1, 1)), "Element")
      BY <1>3, <1>7, <3>1
    <3>3. /\ path \in DOMAIN D /\ Shows(t, d, D, Promise!WithElements(Trees[d], path))
          /\ t.heap[D[path]].type = "Element"
      BY <1>7, <1>11
    <3>4. s = IF leaf.type = "Array" THEN AddArray(t, D[path], name, leaf.value, pathToElements)
              ELSE Add(t, D[path], name, leaf.type, pathToElements)
      BY <1>7, <2>1
    <3>5. /\ at = path \o Target(name, pathToElements)
          /\ F = Promise!WithElements(Trees[d], Front(at))
          /\ \A i \in DOMAIN Target(name, pathToElements) : Target(name, pathToElements)[i] \in KeysInUse
      BY <2>3 DEF F
    <3>6. /\ CanAddTo(t, d, D, Trees[d], path, name, pathToElements)
          /\ s = AnyAdd(t, D[path], name, leaf, pathToElements)
      BY <1>3, <1>6, <2>2, <3>1, <3>2, <3>3, <3>4, <3>5 DEF CanAddTo, AnyAdd
    <3> HIDE DEF at, target
    <3>7. \E E : Shows(AnyAdd(t, D[path], name, leaf, pathToElements), d, E,
                       Promise!Added(Promise!WithElements(Trees[d], Front(at)), at, leaf))
      BY <3>5, <3>6, AnyAddShown
    <3> QED
      BY <3>5, <3>6, <3>7
  <2>5. s.links = t.links
    <3>1. Good(t) /\ t.prop \in DOMAIN t.heap
      BY <1>4
    <3>2. pathToElements => Child(t, t.prop, SubSeq(name, 1, 1)) = Null
                            \/ IsType(t, Child(t, t.prop, SubSeq(name, 1, 1)), "Element")
      BY <1>3, <1>4, <1>11 DEF IsType
    <3>3. t.outcome = "ok"
      BY <1>4, <1>6 DEF Larger
    <3>4. CASE leaf.type = "Array"
      <4>1. Added(t, AddArray(t, t.prop, name, leaf.value, pathToElements), "Array")
        BY <1>3, <1>11, <3>1, <3>2, <3>3, AddArraySound
      <4> QED
        BY <2>1, <3>4, <4>1 DEF Added, Grown
    <3>5. CASE leaf.type # "Array"
      <4>1. Added(t, Add(t, t.prop, name, leaf.type, pathToElements), leaf.type)
        BY <1>3, <1>11, <3>1, <3>2, AddSound
      <4> QED
        BY <2>1, <3>5, <4>1 DEF Added, Grown
    <3> QED
      BY <3>4, <3>5
  <2> DEFINE V == Promise!Added(F, at, leaf)
             Done == /\ Plain(heap)' /\ NothingLeads' /\ Trees' = [Trees EXCEPT ![d] = V]
                     /\ Promise!Leads(w) /\ Promise!Doc(w) = d /\ Promise!Path(w) = path
                     /\ \A v \in Wrappers :
                          Promise!KeepsOrLoses(v, d) \/ (v = w /\ Addresses'[v] = Promise!Address(d, at))
  <2>6. Addresses[w] = [doc |-> d, path |-> path] /\ Addresses[w] # Nowhere /\ w \in Wrappers
    <3>1. w \in Wrappers
      BY HeldFacts DEF Described
    <3>2. Addresses[w] = [doc |-> d, path |-> path]
      BY <1>3, <3>1 DEF Addresses, links, d, path
    <3> QED
      BY <1>6, <3>1, <3>2, NowhereAssumption
  <2> HIDE DEF V, at, target
  <2>7. ASSUME EndCall(s, w)
        PROVE  Done
    <3>1. s.links[1] = Links(w)[1]
      BY <1>4, <2>5 DEF links
    <3>2. /\ Plain(heap)' /\ NothingLeads' /\ Trees' = [Trees EXCEPT ![d] = V]
          /\ Promise!OthersStay(d)
          /\ Promise!Leads(w) /\ Promise!Doc(w) = d /\ Promise!Path(w) = wrapper[w].path
      <4>1. Shows(s, d, E, V) /\ d = wrapper[w].doc /\ ~OfNothing(Links(w))
        BY <1>3, <2>4 DEF V, d, links
      <4> QED
        BY <1>1, <2>7, <3>1, <4>1, ThroughWrapper, ZenonT(40)
    <3>3. \A v \in Wrappers : Promise!KeepsOrLoses(v, d)
      BY <3>2 DEF Promise!OthersStay
    <3>4. Promise!Path(w) = path
      BY <3>2 DEF path
    <3> QED
      BY <3>2, <3>3, <3>4
  <2>8. ASSUME s.outcome = "ok", at \in Paths,
               End(s, docs, [wrapper EXCEPT ![w] = Kept(d, at, Returned(s))])
        PROVE  Done
    <3> DEFINE kept == Kept(d, at, Returned(s))
    <3>1. KeptOK(s.heap, kept)
      BY <1>1, <1>6, <2>8 DEF KeptOK, Kept
    <3>2. /\ docs \in [Docs -> DOMAIN s.heap] /\ Distinct(docs) /\ Sound(s.heap, Roots(docs))
          /\ \A v \in Wrappers : wrapper[v] # Nowhere => KeptOK(s.heap, wrapper[v])
      BY <1>1, DocsStay DEF Described
    <3>3. wrapper = [v \in Wrappers |-> wrapper[v]]
      BY DEF Described, Consistent, ConsistentState
    <3>4. ~OfNothing(kept.links)
      <4>1. kept.links[1] = Link(Resolved(s.links), NoName)
        BY DEF Kept, Returned
      <4> QED
        BY <1>4, <1>9, <2>5, <4>1 DEF OfNothing, Link
    <3>5. kept = [doc |-> d, path |-> at, links |-> kept.links]
      BY DEF Kept
    <3> HIDE DEF kept
    <3>6. CallEnding(s, w, kept)
      <4>1. \A v \in Wrappers : [wrapper EXCEPT ![w] = kept][v] # Nowhere =>
              KeptOK(s.heap, [wrapper EXCEPT ![w] = kept][v])
        BY <2>6, <3>1, <3>2, <3>3
      <4> QED
        BY <2>8, <3>2, <3>4, <4>1 DEF CallEnding, Ending, OfNothingAtAll, kept
    <3>7. /\ Plain(heap)' /\ NothingLeads' /\ Trees' = [Trees EXCEPT ![d] = V]
          /\ \A v \in Wrappers \ {w} : Promise!KeepsOrLoses(v, d)
          /\ Addresses'[w] \in {AddressOf(kept), Nowhere}
      BY <1>6, <2>4, <3>6, CallShown DEF V
    <3>8. AddressOf(kept) \in {Promise!Address(d, at), Nowhere}
      <4>1. kept.doc = d /\ kept.path = at
        BY <3>5
      <4> QED
        BY <4>1 DEF AddressOf, Promise!Address
    <3>9. Promise!KeepsOrLoses(w, d) \/ Addresses'[w] = Promise!Address(d, at)
      BY <2>6, <3>7, <3>8 DEF Promise!KeepsOrLoses, Promise!Leads, Promise!Doc
    <3> QED
      BY <2>6, <3>7, <3>9 DEF Promise!Leads, Promise!Doc, Promise!Path
  <2>9. Done
    BY <1>8, <2>7, <2>8
  <2>10. V = Promise!Added(Promise!WithElements(Trees[d], IF target = <<>> THEN at ELSE Promise!Front(at)), at, leaf)
    BY <2>3, SameOperators DEF V, F
  <2>11. target \in {Target(n, b) : n \in Names, b \in BOOLEAN}
    BY DEF target
  <2>12. Promise!Add(w, target)
    <3>1. Promise!Path(w) \o target = at /\ Promise!Doc(w) = d
      BY <2>9 DEF at
    <3>2. V \in {Promise!Added(Promise!WithElements(Trees[d], IF target = <<>> THEN at ELSE Promise!Front(at)), at, l) :
                   l \in Leaves}
      BY <2>10
    <3> HIDE DEF V
    <3> QED
      BY <2>9, <3>1, <3>2 DEF Promise!Add, Promise!Change
  <2>13. Promise!Next
    BY <2>6, <2>9, <2>11, <2>12 DEF Promise!Next
  <2> QED
    BY <2>9, <2>13 DEF Fulfils
<1> QED
  BY <1>10, <1>11
-----------------------------------------------------------------------------
(***************************************************************************)
(* Merging trees.                                                          *)
(***************************************************************************)
\* Where the trees that are merged part, and what is there afterwards.
Border(T, S) ==
  {q \in DOMAIN T \cup DOMAIN S :
     q \notin Promise!Common(T, S) /\ (q # <<>> => Front(q) \in Promise!Common(T, S))}

Yields(T, S, overwrite, q) ==
  q \in DOMAIN S /\ (q \in DOMAIN T => ~Promise!Collection(S[q]) \/ overwrite)

Winner(T, S, overwrite, q) ==
  IF q \in DOMAIN T \cap DOMAIN S /\ {T[q].type, S[q].type} = {"Array"}
    THEN Promise!Leaf(Promise!Node("Array", IF overwrite THEN S[q].value ELSE T[q].value + S[q].value))
  ELSE Promise!Subtree(IF Yields(T, S, overwrite, q) THEN S ELSE T, q)

\* Elements.
Elements(T, S) == /\ Tidy(T) /\ T[<<>>] = Promise!ElementNode
                  /\ Tidy(S) /\ S[<<>>] = Promise!ElementNode

\* What both have.
LEMMA CommonFacts ==
  ASSUME NEW T, NEW S, Elements(T, S)
  PROVE  LET C == Promise!Common(T, S)
         IN  /\ \A q : q \in C <=> /\ q \in DOMAIN T \cap DOMAIN S
                                   /\ T[q] = Promise!ElementNode /\ S[q] = Promise!ElementNode
             /\ C \subseteq Seq(Keys) /\ <<>> \in C
             /\ \A q \in C, r \in Seq(Keys) : IsPrefix(r, q) => r \in C
<1> DEFINE C == Promise!Common(T, S)
           EN == Promise!ElementNode
<1>1. /\ DOMAIN T \subseteq Seq(Keys) /\ DOMAIN S \subseteq Seq(Keys)
      /\ <<>> \in DOMAIN T /\ <<>> \in DOMAIN S
  BY DEF Elements, Tidy, PathMap
<1>2. ASSUME NEW q \in C
      PROVE  q \in DOMAIN T \cap DOMAIN S /\ T[q] = EN /\ S[q] = EN
  <2>1. q \in Seq(Keys) /\ q \in DOMAIN T \cap DOMAIN S
    BY <1>1 DEF Promise!Common
  <2>2. q \in Prefixes(q)
    BY <2>1, PrefixesFacts, PrefixOrder
  <2>3. {T[q], S[q]} = {EN}
    BY <2>2, SameOperators DEF Promise!Common
  <2> QED
    BY <2>1, <2>3
<1>3. ASSUME NEW q \in DOMAIN T \cap DOMAIN S, T[q] = EN, S[q] = EN
      PROVE  q \in C
  <2>1. q \in Seq(Keys)
    BY <1>1
  <2>2. \A r \in Prefixes(q) : r \in Seq(Keys) /\ IsPrefix(r, q)
    BY <2>1, PrefixesFacts
  <2>3. \A r \in Prefixes(q) : T[r] = EN /\ S[r] = EN
    BY <1>3, <2>2, TidyWay DEF Elements
  <2> QED
    BY <2>3, SameOperators DEF Promise!Common
<1>4. ASSUME NEW q \in C, NEW r \in Seq(Keys), IsPrefix(r, q)
      PROVE  r \in C
  <2>1. r \in DOMAIN T /\ (r # q => T[r] = EN) /\ r \in DOMAIN S /\ (r # q => S[r] = EN)
    BY <1>2, <1>4, TidyWay DEF Elements
  <2> QED
    BY <1>2, <1>3, <2>1
<1>5. <<>> \in C
  BY <1>1, <1>3 DEF Elements
<1> HIDE DEF C
<1> QED
  BY <1>1, <1>2, <1>3, <1>4, <1>5 DEF C

\* Where they part is not on the way to anything that both have, nor to another such
\* place.
LEMMA BorderFacts ==
  ASSUME NEW T, NEW S, Elements(T, S)
  PROVE  LET C == Promise!Common(T, S)
             B == Border(T, S)
         IN  /\ B \subseteq Seq(Keys) /\ B \cap C = {} /\ <<>> \notin B
             /\ \A b \in B, x \in C : ~IsPrefix(b, x)
             /\ \A a, b \in B : IsPrefix(a, b) => a = b
             /\ \A x \in C, key \in Keys :
                  Append(x, key) \in DOMAIN T \cup DOMAIN S => Append(x, key) \in C \cup B
             /\ \A b \in B, z \in Seq(Keys) : IsPrefix(z, b) => z = b \/ z \in C
<1> DEFINE C == Promise!Common(T, S)
           B == Border(T, S)
<1>1. /\ C \subseteq Seq(Keys) /\ <<>> \in C
      /\ \A q \in C, r \in Seq(Keys) : IsPrefix(r, q) => r \in C
  BY CommonFacts
<1>2. DOMAIN T \subseteq Seq(Keys) /\ DOMAIN S \subseteq Seq(Keys)
  BY DEF Elements, Tidy, PathMap
<1>3. /\ B \subseteq Seq(Keys) /\ B \cap C = {}
      /\ \A b \in B : b # <<>> => Front(b) \in C
  BY <1>2 DEF Border
<1>4. \A x \in C, key \in Keys :
        Append(x, key) \in DOMAIN T \cup DOMAIN S => Append(x, key) \in C \cup B
  <2> SUFFICES ASSUME NEW x \in C, NEW key \in Keys, Append(x, key) \in DOMAIN T \cup DOMAIN S
               PROVE  Append(x, key) \in C \cup B
    OBVIOUS
  <2>1. Front(Append(x, key)) = x
    BY <1>1, AppendFacts
  <2> QED
    BY <2>1 DEF Border
<1> HIDE DEF C, B
<1>5. <<>> \notin B
  BY <1>1, <1>3
<1>6. \A b \in B, x \in C : ~IsPrefix(b, x)
  BY <1>1, <1>3
<1>7. \A b \in B, z \in Seq(Keys) : IsPrefix(z, b) => z = b \/ z \in C
  <2> SUFFICES ASSUME NEW b \in B, NEW z \in Seq(Keys), IsPrefix(z, b), z # b
               PROVE  z \in C
    OBVIOUS
  <2>1. b \in Seq(Keys) /\ b # <<>>
    BY <1>3, <1>5
  <2>2. Front(b) \in Seq(Keys) /\ Last(b) \in Keys /\ Append(Front(b), Last(b)) = b
    BY <2>1, AppendToFront
  <2>3. IsPrefix(z, Front(b))
    BY <2>2, PrefixAppend
  <2> QED
    BY <1>1, <1>3, <2>1, <2>3
<1>8. \A a, b \in B : IsPrefix(a, b) => a = b
  BY <1>3, <1>7
<1> QED
  BY <1>3, <1>4, <1>5, <1>6, <1>7, <1>8 DEF B, C

\* While T and S are merged: what is at places on the way to which there is one in Z
\* is that of T still, else it is what there has to be.
Pending(Z, b) == \E z \in Z : IsPrefix(z, b)

Mixes(F, T, S, overwrite, Z) ==
  /\ PathMap(F)
  /\ \A x \in Promise!Common(T, S) : x \in DOMAIN F /\ F[x] = Promise!ElementNode
  /\ \A b \in Border(T, S) :
       Promise!Subtree(F, b)
         = IF Pending(Z, b) THEN Promise!Subtree(T, b) ELSE Winner(T, S, overwrite, b)
  /\ \A m \in DOMAIN F : m \in Promise!Common(T, S) \/ \E b \in Border(T, S) : IsPrefix(b, m)

\* It begins with T.
LEMMA MixBegins ==
  ASSUME NEW T, NEW S, Elements(T, S), NEW overwrite
  PROVE  Mixes(T, T, S, overwrite, {<<>>})
<1> DEFINE C == Promise!Common(T, S)
           B == Border(T, S)
<1>1. /\ \A q \in C : q \in DOMAIN T /\ T[q] = Promise!ElementNode
      /\ <<>> \in C /\ C \subseteq Seq(Keys)
  BY CommonFacts
<1>2. /\ B \subseteq Seq(Keys)
      /\ \A x \in C, key \in Keys :
           Append(x, key) \in DOMAIN T \cup DOMAIN S => Append(x, key) \in C \cup B
  BY BorderFacts
<1>3. /\ PathMap(T) /\ DOMAIN T \subseteq Seq(Keys)
      /\ \A q \in Seq(Keys), key \in Keys : Append(q, key) \in DOMAIN T => q \in DOMAIN T
  BY DEF Elements, Tidy, PathMap
<1> HIDE DEF C, B
<1> DEFINE Sorted(m) == m \in C \/ \E b \in B : IsPrefix(b, m)
           G == {m \in Seq(Keys) : m \in DOMAIN T => Sorted(m)}
<1>4. <<>> \in G
  BY <1>1
<1>5. ASSUME NEW m \in Seq(Keys), NEW key \in Keys, m \in G
      PROVE  Append(m, key) \in G
  <2>1. Append(m, key) \in Seq(Keys)
    OBVIOUS
  <2> SUFFICES ASSUME Append(m, key) \in DOMAIN T
               PROVE  Sorted(Append(m, key))
    BY <2>1
  <2>2. Sorted(m)
    BY <1>3, <1>5
  <2>3. CASE m \in C
    <3>1. Append(m, key) \in C \cup B
      BY <1>2, <2>3
    <3>2. IsPrefix(Append(m, key), Append(m, key))
      BY <2>1, PrefixOrder
    <3> QED
      BY <3>1, <3>2
  <2>4. ASSUME NEW b \in B, IsPrefix(b, m)
        PROVE  Sorted(Append(m, key))
    <3>1. IsPrefix(b, Append(m, key))
      BY <1>2, <2>4, PrefixAppend
    <3> QED
      BY <3>1
  <2> QED
    BY <2>2, <2>3, <2>4
<1> HIDE DEF G
<1>6. Seq(Keys) \subseteq G
  BY <1>4, <1>5, PathInduction
<1>7. \A m \in DOMAIN T : Sorted(m)
  BY <1>3, <1>6 DEF G
<1>8. \A b \in B : Pending({<<>>}, b)
  BY <1>2, PrefixOrder DEF Pending
<1> QED
  BY <1>1, <1>3, <1>7, <1>8 DEF Mixes, C, B

\* The result is a tree.
LEMMA WinnerTree ==
  ASSUME NEW T, PathMap(T), NEW S, PathMap(S), NEW overwrite, NEW q \in Seq(Keys)
  PROVE  PathMap(Winner(T, S, overwrite, q))
<1>1. PathMap(Promise!Subtree(T, q)) /\ PathMap(Promise!Subtree(S, q))
  BY SubtreeFacts
<1>2. \A c : PathMap(Promise!Leaf(c))
  BY LeafFacts
<1> QED
  BY <1>1, <1>2 DEF Winner

\* The place z gets what there has to be.
LEMMA MixGrafts ==
  ASSUME NEW T, NEW S, Elements(T, S), NEW overwrite, NEW F, NEW Z,
         NEW z \in Border(T, S), Mixes(F, T, S, overwrite, Z \cup {z}), ~Pending(Z, z)
  PROVE  Mixes(Promise!Graft(F, z, Winner(T, S, overwrite, z)), T, S, overwrite, Z)
<1> DEFINE C == Promise!Common(T, S)
           B == Border(T, S)
           W == Winner(T, S, overwrite, z)
           G == Promise!Graft(F, z, W)
<1>1. /\ B \subseteq Seq(Keys) /\ C \subseteq Seq(Keys) /\ z \in Seq(Keys)
      /\ \A b \in B, x \in C : ~IsPrefix(b, x)
      /\ \A a, b \in B : IsPrefix(a, b) => a = b
  BY BorderFacts, CommonFacts
<1>2. PathMap(F) /\ PathMap(W) /\ DOMAIN F \subseteq Seq(Keys)
  BY <1>1, WinnerTree DEF Mixes, Elements, Tidy, PathMap
<1>3. IsGraft(G, F, z, W)
  BY <1>1, <1>2, GraftFacts
<1> HIDE DEF W, G
<1>4. PathMap(G) /\ DOMAIN G \subseteq Seq(Keys)
  BY <1>3 DEF IsGraft, PathMap
<1>5. \A x \in C : x \in DOMAIN G /\ G[x] = Promise!ElementNode
  BY <1>1, <1>3 DEF IsGraft, Mixes
<1>6. ASSUME NEW b \in B
      PROVE  Promise!Subtree(G, b)
               = IF Pending(Z, b) THEN Promise!Subtree(T, b) ELSE Winner(T, S, overwrite, b)
  <2>1. b \in Seq(Keys)
    BY <1>1
  <2>2. /\ PathMap(Promise!Subtree(G, b))
        /\ \A r \in Seq(Keys) : r \in DOMAIN Promise!Subtree(G, b) <=> b \o r \in DOMAIN G
        /\ \A r \in DOMAIN Promise!Subtree(G, b) : Promise!Subtree(G, b)[r] = G[b \o r]
    BY <1>4, <2>1, SubtreeFacts
  <2> DEFINE N == Promise!Subtree(G, b)
  <2> HIDE DEF N
  <2>3. CASE b = z
    <3>1. \A r \in Seq(Keys) : (r \in DOMAIN N <=> r \in DOMAIN W) /\ (r \in DOMAIN N => N[r] = W[r])
      BY <1>3, <2>2, <2>3 DEF IsGraft, N
    <3>2. N = W
      BY <1>2, <2>2, <3>1, SamePathMap DEF N
    <3> QED
      BY <2>3, <3>2 DEF N, W
  <2>4. CASE b # z
    <3>1. ~IsPrefix(z, b) /\ ~IsPrefix(b, z)
      BY <1>1, <2>4
    <3>2. \A r \in Seq(Keys) : b \o r \in Seq(Keys) /\ IsPrefix(b, b \o r)
      BY <2>1, Behind
    <3>3. \A r \in Seq(Keys) : ~IsPrefix(z, b \o r)
      BY <1>1, <2>1, <3>1, <3>2, PrefixOrder
    <3>4. /\ PathMap(Promise!Subtree(F, b))
          /\ \A r \in Seq(Keys) : r \in DOMAIN Promise!Subtree(F, b) <=> b \o r \in DOMAIN F
          /\ \A r \in DOMAIN Promise!Subtree(F, b) : Promise!Subtree(F, b)[r] = F[b \o r]
      BY <1>2, <2>1, SubtreeFacts
    <3> DEFINE M == Promise!Subtree(F, b)
    <3> HIDE DEF M
    <3>5. \A r \in Seq(Keys) : (r \in DOMAIN N <=> r \in DOMAIN M) /\ (r \in DOMAIN N => N[r] = M[r])
      BY <1>3, <2>2, <3>2, <3>3, <3>4 DEF IsGraft, N, M
    <3>6. N = M
      BY <2>2, <3>4, <3>5, SamePathMap DEF N, M
    <3>7. Pending(Z \cup {z}, b) <=> Pending(Z, b)
      BY <3>1 DEF Pending
    <3>8. M = IF Pending(Z \cup {z}, b) THEN Promise!Subtree(T, b) ELSE Winner(T, S, overwrite, b)
      BY DEF Mixes, M
    <3> QED
      BY <3>6, <3>7, <3>8 DEF N
  <2> QED
    BY <2>3, <2>4
<1>7. \A m \in DOMAIN G : m \in C \/ \E b \in B : IsPrefix(b, m)
  BY <1>3, <1>4 DEF IsGraft, Mixes
<1> HIDE DEF C, B
<1> QED
  BY <1>4, <1>5, <1>6, <1>7 DEF Mixes, C, B, G, W

\* The place z needs nothing to be done to it.
LEMMA MixSkips ==
  ASSUME NEW T, NEW S, Elements(T, S), NEW overwrite, NEW F, NEW Z, NEW z \in Seq(Keys),
         Mixes(F, T, S, overwrite, Z \cup {z}),
         z \notin DOMAIN S
           \/ (z \in Border(T, S) /\ Winner(T, S, overwrite, z) = Promise!Subtree(T, z))
  PROVE  Mixes(F, T, S, overwrite, Z)
<1> DEFINE B == Border(T, S)
<1>1. B \subseteq Seq(Keys) /\ \A a, b \in B : IsPrefix(a, b) => a = b
  BY BorderFacts
<1>2. ASSUME NEW b \in B, IsPrefix(z, b)
      PROVE  Winner(T, S, overwrite, b) = Promise!Subtree(T, b)
  <2>1. CASE z \notin DOMAIN S
    <3>1. b \notin DOMAIN S
      BY <1>2, <2>1, TidyWay DEF Elements
    <3> QED
      BY <3>1 DEF Winner, Yields
  <2>2. CASE z \in B /\ Winner(T, S, overwrite, z) = Promise!Subtree(T, z)
    BY <1>1, <1>2, <2>2
  <2> QED
    BY <2>1, <2>2
<1>3. ASSUME NEW b \in B
      PROVE  Promise!Subtree(F, b)
               = IF Pending(Z, b) THEN Promise!Subtree(T, b) ELSE Winner(T, S, overwrite, b)
  <2>1. Promise!Subtree(F, b)
          = IF Pending(Z \cup {z}, b) THEN Promise!Subtree(T, b) ELSE Winner(T, S, overwrite, b)
    BY DEF Mixes
  <2>2. Pending(Z \cup {z}, b) <=> Pending(Z, b) \/ IsPrefix(z, b)
    BY DEF Pending
  <2> QED
    BY <1>2, <2>1, <2>2
<1> QED
  BY <1>3 DEF Mixes

\* The places below z under some keys.
Following(z, K) == {Append(z, key) : key \in K}

\* The places that follow come in the place of one that both have.
LEMMA MixExpands ==
  ASSUME NEW T, NEW S, Elements(T, S), NEW overwrite, NEW F, NEW Z,
         NEW z \in Promise!Common(T, S), Mixes(F, T, S, overwrite, Z \cup {z}),
         NEW K, K \subseteq Keys, KeysInUse \subseteq K
  PROVE  Mixes(F, T, S, overwrite, Following(z, K) \cup Z)
<1> DEFINE C == Promise!Common(T, S)
           B == Border(T, S)
           Y == {Append(z, key) : key \in K} \cup Z
<1>1. B \subseteq Seq(Keys) /\ B \cap C = {} /\ z \in Seq(Keys)
  BY BorderFacts, CommonFacts
<1>2. ASSUME NEW b \in B, IsPrefix(z, b)
      PROVE  \E key \in K : IsPrefix(Append(z, key), b)
  <2>1. b \in Seq(Keys) /\ b # z
    BY <1>1
  <2>2. PICK r \in Seq(Keys) : b = z \o r
    BY <1>1, <1>2, <2>1, PrefixGoesOn
  <2>3. r # <<>>
    BY <1>1, <2>1, <2>2, Behind
  <2>4. PICK key \in Keys, t \in Seq(Keys) : z \o r = Append(z, key) \o t
    <3>1. PICK p \in Seq(Keys) : p = z
      BY <1>1
    <3>2. \E key \in Keys, t \in Seq(Keys) : /\ r = <<key>> \o t
                                             /\ Append(p, key) \in Seq(Keys)
                                             /\ p \o r = Append(p, key) \o t
      BY <2>3, KeyFirst
    <3> QED
      BY <3>1, <3>2
  <2>5. Append(z, key) \in Seq(Keys)
    BY <1>1
  <2>6. IsPrefix(Append(z, key), b)
    <3>1. PICK p \in Seq(Keys) : p = Append(z, key)
      BY <2>5
    <3>2. IsPrefix(p, p \o t)
      BY PathBehind
    <3> QED
      BY <2>2, <2>4, <3>1, <3>2
  <2>7. b \in DOMAIN T \/ b \in DOMAIN S
    BY DEF Border
  <2>8. Append(z, key) \in DOMAIN T \/ Append(z, key) \in DOMAIN S
    BY <2>5, <2>6, <2>7, TidyWay DEF Elements
  <2>9. key \in KeysInUse
    BY <1>1, <2>8 DEF Elements, Tidy
  <2> QED
    BY <2>6, <2>9
<1>3. ASSUME NEW b \in B, NEW key \in K, IsPrefix(Append(z, key), b)
      PROVE  IsPrefix(z, b)
  <2>1. b \in Seq(Keys) /\ Append(z, key) \in Seq(Keys) /\ key \in Keys
    BY <1>1
  <2>2. IsPrefix(z, Append(z, key))
    BY <1>1, <2>1, PrefixAppend, PrefixOrder
  <2> QED
    BY <1>1, <1>3, <2>1, <2>2, PrefixOrder
<1>4. ASSUME NEW b \in B
      PROVE  Pending(Z \cup {z}, b) <=> Pending(Y, b)
  <2>1. Pending(Z \cup {z}, b) <=> Pending(Z, b) \/ IsPrefix(z, b)
    BY DEF Pending
  <2>2. Pending(Y, b) <=> Pending(Z, b) \/ \E key \in K : IsPrefix(Append(z, key), b)
    BY DEF Pending
  <2> QED
    BY <1>2, <1>3, <2>1, <2>2
<1> QED
  BY <1>4 DEF Mixes, Following

\* When nothing is pending, it has become T with S merged over it.
LEMMA MixEnds ==
  ASSUME NEW T, NEW S, Elements(T, S), NEW overwrite, NEW F, Mixes(F, T, S, overwrite, {})
  PROVE  F = Promise!Overlay(T, S, overwrite)
<1> DEFINE C == Promise!Common(T, S)
           B == Border(T, S)
           A == {q \in DOMAIN T \cup DOMAIN S : q \notin C /\ (q # <<>> => Promise!Front(q) \in C)}
           W(q) == Winner(T, S, overwrite, q)
           At(p) == CHOOSE q \in A : Promise!IsPrefix(q, p)
           won == UNION {{q \o r : r \in DOMAIN W(q)} : q \in A}
           O == Promise!Overlay(T, S, overwrite)
<1>1. O = [p \in C \cup won |->
             IF p \in C THEN Promise!ElementNode ELSE W(At(p))[Promise!From(At(p), p)]]
  BY DEF Promise!Overlay, Winner, Yields
<1>0. A = B
  BY SameOperators DEF Border
<1>2. /\ B \subseteq Seq(Keys) /\ C \subseteq Seq(Keys)
      /\ \A b \in B, x \in C : ~IsPrefix(b, x)
      /\ \A a, b \in B : IsPrefix(a, b) => a = b
  BY BorderFacts, CommonFacts
<1>3. /\ PathMap(F) /\ IsMap(F) /\ DOMAIN F \subseteq Seq(Keys)
      /\ \A x \in C : x \in DOMAIN F /\ F[x] = Promise!ElementNode
      /\ \A m \in DOMAIN F : m \in C \/ \E b \in B : IsPrefix(b, m)
  BY DEF Mixes, PathMap
<1>4. ASSUME NEW b \in B
      PROVE  /\ PathMap(W(b))
             /\ \A r \in Seq(Keys) : r \in DOMAIN W(b) <=> b \o r \in DOMAIN F
             /\ \A r \in DOMAIN W(b) : W(b)[r] = F[b \o r]
  <2>1. Promise!Subtree(F, b) = W(b)
    BY DEF Mixes, Pending
  <2>2. b \in Seq(Keys)
    BY <1>2
  <2> QED
    BY <1>3, <2>1, <2>2, SubtreeFacts
<1> HIDE DEF C, B, W, A
<1>5. ASSUME NEW b \in B, NEW r \in Seq(Keys)
      PROVE  At(b \o r) = b /\ Promise!From(b, b \o r) = r /\ b \o r \in Seq(Keys) /\ b \o r \notin C
  <2>1. b \in Seq(Keys)
    BY <1>2
  <2>2. b \o r \in Seq(Keys) /\ IsPrefix(b, b \o r) /\ Promise!From(b, b \o r) = r
    BY <2>1, Behind
  <2>3. \A a \in B : IsPrefix(a, b \o r) => a = b
    BY <1>2, <2>1, <2>2, PrefixOrder
  <2>4. \A a \in A : Promise!IsPrefix(a, b \o r) <=> a = b
    BY <1>0, <2>2, <2>3, SameOperators
  <2>5. At(b \o r) = b
    BY <1>0, <2>4
  <2> QED
    BY <1>2, <2>2, <2>5
<1>6. DOMAIN O = C \cup won
  BY <1>1
<1>7. won \subseteq DOMAIN F
  <2>1. \A q \in A : \A r \in DOMAIN W(q) : q \o r \in DOMAIN F
    <3> TAKE q \in A
    <3> TAKE r \in DOMAIN W(q)
    <3>1. r \in Seq(Keys)
      BY <1>0, <1>4 DEF PathMap
    <3> QED
      BY <1>0, <1>4, <3>1
  <2> SUFFICES ASSUME NEW m \in won
               PROVE  m \in DOMAIN F
    OBVIOUS
  <2>2. PICK q \in A : m \in {q \o r : r \in DOMAIN W(q)}
    OBVIOUS
  <2>3. PICK r \in DOMAIN W(q) : m = q \o r
    BY <2>2
  <2> QED
    BY <2>1, <2>3
<1>8. \A m \in DOMAIN F : m \in C \/ m \in won
  <2> SUFFICES ASSUME NEW m \in DOMAIN F, NEW b \in B, IsPrefix(b, m)
               PROVE  m \in won
    BY <1>3
  <2>1. b \in Seq(Keys) /\ m \in Seq(Keys)
    BY <1>2, <1>3
  <2>2. PICK r \in Seq(Keys) : m = b \o r
    BY <2>1, PrefixGoesOn
  <2>3. r \in DOMAIN W(b)
    BY <1>4, <2>2
  <2>4. m \in {b \o t : t \in DOMAIN W(b)} /\ b \in A
    BY <1>0, <2>2, <2>3
  <2> QED
    BY <2>4
<1>9. DOMAIN O = DOMAIN F
  BY <1>3, <1>6, <1>7, <1>8
<1>10. ASSUME NEW m \in DOMAIN F
       PROVE  F[m] = O[m]
  <2>1. CASE m \in C
    BY <1>1, <1>3, <2>1
  <2>2. CASE m \notin C
    <3>1. m \in won
      BY <1>8, <2>2
    <3>2. PICK b \in B : \E r \in DOMAIN W(b) : m = b \o r
      BY <1>0, <3>1
    <3>3. PICK r \in DOMAIN W(b) : m = b \o r
      BY <3>2
    <3>4. r \in Seq(Keys) /\ W(b)[r] = F[b \o r]
      BY <1>4 DEF PathMap
    <3>5. At(m) = b /\ Promise!From(b, m) = r
      BY <1>5, <3>3, <3>4
    <3> HIDE DEF At
    <3>6. O[m] = W(At(m))[Promise!From(At(m), m)]
      BY <1>1, <2>2, <3>1
    <3> QED
      BY <3>3, <3>4, <3>5, <3>6
  <2> QED
    BY <2>1, <2>2
<1>11. IsMap(O)
  <2> HIDE DEF O, won, At
  <2> QED
    BY <1>1, <1>6 DEF IsMap
<1> HIDE DEF O
<1>12. F = O
  BY <1>3, <1>9, <1>10, <1>11, SameMap
<1> QED
  BY <1>12 DEF O

\* at \o t goes through at \o r.
Through(at, r, u, t) == at \o t = (at \o r) \o u

\* Then t goes through r.
LEMMA SameFurther ==
  \A at, r, u, t \in Seq(Keys) : Through(at, r, u, t) => IsPrefix(r, t)
<1> TAKE at, r, u, t \in Seq(Keys)
<1>1. (at \o r) \o u = at \o (r \o u)
  BY ThreePaths
<1>2. r \o u \in Seq(Keys)
  OBVIOUS
<1>3. at \o t = at \o (r \o u) => t = r \o u
  BY <1>2, ConcatSimplifications
<1>4. IsPrefix(r, r \o u)
  BY PathBehind
<1>5. Through(at, r, u, t) => t = r \o u
  BY <1>1, <1>3 DEF Through
<1> QED
  BY <1>4, <1>5

\* What two paths have in front can be left out.
LEMMA PrefixBehind ==
  ASSUME NEW at \in Seq(Keys), NEW r \in Seq(Keys), NEW t \in Seq(Keys), IsPrefix(at \o r, at \o t)
  PROVE  IsPrefix(r, t)
<1>1. PICK x \in Seq(Keys), y \in Seq(Keys) : x = at \o r /\ y = at \o t
  BY PathBehind
<1>2. IsPrefix(x, y)
  BY <1>1
<1>3. PICK u \in Seq(Keys) : y = x \o u
  BY <1>2, PrefixGoesOn
<1>4. Through(at, r, u, t)
  BY <1>1, <1>3 DEF Through
<1> QED
  BY <1>4, SameFurther

\* Three paths, one behind the other.
LEMMA BehindTwice ==
  ASSUME NEW X, NEW p \in Seq(X), NEW r \in Seq(X), NEW t \in Seq(X)
  PROVE  (p \o r) \o t = p \o (r \o t)
BY Behind

\* A graft in a tree that was grafted itself.
DeepGraft(T, at, F, r, G) ==
  Promise!Graft(Promise!Graft(T, at, F), at \o r, G) = Promise!Graft(T, at, Promise!Graft(F, r, G))

\* It is a graft in the tree that was grafted first.
LEMMA GraftDeep ==
  ASSUME NEW T, PathMap(T), NEW at \in Seq(Keys), NEW F, PathMap(F), NEW r \in Seq(Keys),
         NEW G, PathMap(G)
  PROVE  DeepGraft(T, at, F, r, G)
<1> DEFINE A == Promise!Graft(T, at, F)
           L == Promise!Graft(A, at \o r, G)
           Inner == Promise!Graft(F, r, G)
           R == Promise!Graft(T, at, Inner)
<1>1. at \o r \in Seq(Keys) /\ IsPrefix(at, at \o r)
  BY Behind
<1>2. IsGraft(A, T, at, F) /\ IsGraft(Inner, F, r, G)
  BY GraftFacts
<1> HIDE DEF A, Inner
<1>3. PathMap(A) /\ PathMap(Inner)
  BY <1>2 DEF IsGraft
<1>4. IsGraft(R, T, at, Inner) /\ IsGraft(L, A, at \o r, G)
  BY <1>1, <1>3, GraftFacts
<1> HIDE DEF L, R
<1>5. ASSUME NEW q \in Seq(Keys), ~IsPrefix(at, q)
      PROVE  ~IsPrefix(at \o r, q)
  BY <1>1, <1>5, PrefixOrder
<1>6. ASSUME NEW t \in Seq(Keys)
      PROVE  /\ at \o t \in DOMAIN L <=> t \in DOMAIN Inner
             /\ t \in DOMAIN Inner => L[at \o t] = Inner[t]
  <2>0. at \o t \in Seq(Keys)
    BY Behind
  <2>1. CASE IsPrefix(r, t)
    <3>1. PICK u \in Seq(Keys) : t = r \o u
      BY <2>1, PrefixGoesOn
    <3>2. at \o t = (at \o r) \o u
      <4>1. (at \o r) \o u = at \o (r \o u)
        BY BehindTwice
      <4> QED
        BY <3>1, <4>1
    <3>3. /\ (at \o r) \o u \in DOMAIN L <=> u \in DOMAIN G
          /\ u \in DOMAIN G => L[(at \o r) \o u] = G[u]
      BY <1>4 DEF IsGraft
    <3>4. /\ r \o u \in DOMAIN Inner <=> u \in DOMAIN G
          /\ u \in DOMAIN G => Inner[r \o u] = G[u]
      BY <1>2 DEF IsGraft
    <3> QED
      BY <3>1, <3>2, <3>3, <3>4
  <2>2. CASE ~IsPrefix(r, t)
    <3>1. ~IsPrefix(at \o r, at \o t)
      BY <2>2, PrefixBehind
    <3> QED
      BY <1>2, <1>4, <2>0, <2>2, <3>1 DEF IsGraft
  <2> QED
    BY <2>1, <2>2
<1>7. IsGraft(L, T, at, Inner)
  BY <1>2, <1>4, <1>5, <1>6 DEF IsGraft
<1>8. L = R
  BY <1>4, <1>7, GraftUnique
<1> QED
  BY <1>8 DEF L, R, A, Inner, DeepGraft

\* What the trees have where something is pending is what it was.
LEMMA MixHead ==
  ASSUME NEW T, NEW S, Elements(T, S), NEW overwrite, NEW F, NEW Z,
         NEW x \in Promise!Common(T, S), NEW key \in Keys, NEW z, z = Append(x, key),
         Mixes(F, T, S, overwrite, Z \cup {z})
  PROVE  /\ z \in Seq(Keys)
         /\ z \in DOMAIN F <=> z \in DOMAIN T
         /\ z \in DOMAIN T => F[z] = T[z]
         /\ z \in DOMAIN T \cup DOMAIN S => z \in Promise!Common(T, S) \cup Border(T, S)
<1> DEFINE C == Promise!Common(T, S)
           B == Border(T, S)
<1>1. /\ C \subseteq Seq(Keys) /\ B \subseteq Seq(Keys)
      /\ \A q \in C : q \in DOMAIN T /\ T[q] = Promise!ElementNode
      /\ \A b \in B : ~IsPrefix(b, x)
      /\ z \in DOMAIN T \cup DOMAIN S => z \in C \cup B
  BY BorderFacts, CommonFacts
<1>2. x \in Seq(Keys) /\ z \in Seq(Keys)
  BY <1>1
<1>3. /\ PathMap(F) /\ PathMap(T)
      /\ \A q \in C : q \in DOMAIN F /\ F[q] = Promise!ElementNode
      /\ \A m \in DOMAIN F : m \in C \/ \E b \in B : IsPrefix(b, m)
  BY DEF Mixes, Elements, Tidy
<1>4. CASE z \in C
  BY <1>1, <1>2, <1>3, <1>4
<1>5. CASE z \in B
  <2>1. Promise!Subtree(F, z) = Promise!Subtree(T, z)
    <3>1. IsPrefix(z, z)
      BY <1>2, PrefixOrder
    <3> QED
      BY <1>5, <3>1 DEF Mixes, Pending
  <2>2. <<>> \in Seq(Keys) /\ z \o <<>> = z
    BY <1>2, Behind
  <2>3. /\ <<>> \in DOMAIN Promise!Subtree(F, z) <=> z \o <<>> \in DOMAIN F
        /\ <<>> \in DOMAIN Promise!Subtree(F, z) => Promise!Subtree(F, z)[<<>>] = F[z \o <<>>]
    BY <1>2, <1>3, <2>2, SubtreeFacts
  <2>4. /\ <<>> \in DOMAIN Promise!Subtree(T, z) <=> z \o <<>> \in DOMAIN T
        /\ <<>> \in DOMAIN Promise!Subtree(T, z) => Promise!Subtree(T, z)[<<>>] = T[z \o <<>>]
    BY <1>2, <1>3, <2>2, SubtreeFacts
  <2> QED
    BY <1>1, <1>2, <2>1, <2>2, <2>3, <2>4
<1>6. CASE z \notin C \cup B
  <2>1. z \notin DOMAIN T
    BY <1>1, <1>6
  <2>2. \A b \in B : IsPrefix(b, z) => b = z
    BY <1>1, <1>2, PrefixAppend
  <2>3. z \notin DOMAIN F
    BY <1>3, <1>6, <2>2
  <2> QED
    BY <1>1, <1>2, <2>1, <2>3
<1> QED
  BY <1>4, <1>5, <1>6
-----------------------------------------------------------------------------
(***************************************************************************)
(* The places that the loops of a merge have yet to come to.               *)
(***************************************************************************)
Spread(Q) == \A i, j \in 1..Len(Q) : i # j => ~IsPrefix(Q[i], Q[j])

Deepened(z, order) == [i \in DOMAIN order |-> Append(z, order[i])]

\* The first of two sequences put together, and the second.
LEMMA ConcatParts ==
  ASSUME NEW X, NEW s \in Seq(X), NEW t \in Seq(X)
  PROVE  /\ s \o t \in Seq(X) /\ Len(s \o t) = Len(s) + Len(t)
         /\ \A i \in 1..Len(s) : (s \o t)[i] = s[i]
         /\ \A i \in 1..Len(t) : (s \o t)[Len(s) + i] = t[i]
         /\ \A i \in 1..Len(s \o t) : i \in 1..Len(s) \/ \E j \in 1..Len(t) : i = Len(s) + j
         /\ Range(s \o t) = Range(s) \cup Range(t)
<1>1. /\ s \o t \in Seq(X) /\ Len(s \o t) = Len(s) + Len(t)
      /\ \A i \in 1..Len(s) : (s \o t)[i] = s[i]
      /\ \A i \in 1..Len(t) : (s \o t)[Len(s) + i] = t[i]
  BY ConcatProperties
<1>2. Len(s) \in Nat /\ Len(t) \in Nat /\ DOMAIN s = 1..Len(s) /\ DOMAIN t = 1..Len(t)
      /\ DOMAIN (s \o t) = 1..Len(s \o t)
  BY <1>1
<1>3. \A i \in 1..Len(s \o t) : i \in 1..Len(s) \/ \E j \in 1..Len(t) : i = Len(s) + j
  <2> SUFFICES ASSUME NEW i \in 1..Len(s \o t), i \notin 1..Len(s)
               PROVE  \E j \in 1..Len(t) : i = Len(s) + j
    OBVIOUS
  <2>1. i - Len(s) \in 1..Len(t) /\ i = Len(s) + (i - Len(s))
    BY <1>1, <1>2
  <2> QED
    BY <2>1
<1>4. \A i \in 1..Len(t) : Len(s) + i \in 1..Len(s \o t)
  BY <1>1, <1>2
<1>5. \A i \in 1..Len(s) : i \in 1..Len(s \o t)
  BY <1>1, <1>2
<1> DEFINE c == s \o t
<1> HIDE DEF c
<1>7. /\ DOMAIN c = 1..Len(c) /\ DOMAIN s = 1..Len(s) /\ DOMAIN t = 1..Len(t)
      /\ \A i \in 1..Len(s) : i \in 1..Len(c) /\ c[i] = s[i]
      /\ \A i \in 1..Len(t) : Len(s) + i \in 1..Len(c) /\ c[Len(s) + i] = t[i]
      /\ \A i \in 1..Len(c) : i \in 1..Len(s) \/ \E j \in 1..Len(t) : i = Len(s) + j
  BY <1>1, <1>2, <1>3, <1>4, <1>5 DEF c
<1>6. Range(c) = Range(s) \cup Range(t)
  <2>1. \A i \in 1..Len(c) : c[i] \in Range(s) \cup Range(t)
    BY <1>7 DEF Range
  <2>2. \A i \in 1..Len(s) : s[i] \in Range(c)
    BY <1>7 DEF Range
  <2>3. \A i \in 1..Len(t) : t[i] \in Range(c)
    <3> TAKE i \in 1..Len(t)
    <3>1. PICK k \in 1..Len(c) : c[k] = t[i]
      BY <1>7
    <3> QED
      BY <1>7, <3>1 DEF Range
  <2>4. Range(c) \subseteq Range(s) \cup Range(t)
    BY <1>7, <2>1 DEF Range
  <2>5. Range(s) \subseteq Range(c) /\ Range(t) \subseteq Range(c)
    BY <1>7, <2>2, <2>3 DEF Range
  <2> QED
    BY <2>4, <2>5
<1> QED
  BY <1>1, <1>3, <1>6 DEF c

\* c is the sequence s and then the sequence t.
JoinOf(c, s, t) ==
  /\ Len(c) = Len(s) + Len(t)
  /\ \A i \in 1..Len(s) : c[i] = s[i]
  /\ \A i \in 1..Len(t) : c[Len(s) + i] = t[i]
  /\ \A i \in 1..Len(c) : i \in 1..Len(s) \/ \E j \in 1..Len(t) : i = Len(s) + j
  /\ Range(c) = Range(s) \cup Range(t)

\* Two sequences of paths put together.
LEMMA PathsJoined ==
  ASSUME NEW s \in Seq(Seq(Keys)), NEW t \in Seq(Seq(Keys))
  PROVE  s \o t \in Seq(Seq(Keys)) /\ JoinOf(s \o t, s, t)
<1> DEFINE X == Seq(Keys)
<1> HIDE DEF X
<1>1. s \in Seq(X) /\ t \in Seq(X)
  BY DEF X
<1>2. s \o t \in Seq(X) /\ JoinOf(s \o t, s, t)
  BY <1>1, ConcatParts DEF JoinOf
<1> QED
  BY <1>2 DEF X

\* The sequence without its first.
LEMMA TailParts ==
  ASSUME NEW X, NEW s \in Seq(X), s # <<>>
  PROVE  /\ Head(s) \in X /\ Head(s) = s[1] /\ 1 \in 1..Len(s)
         /\ Tail(s) \in Seq(X)
         /\ \A i \in 1..Len(Tail(s)) : Tail(s)[i] = s[i + 1] /\ i + 1 \in 1..Len(s) /\ i + 1 # 1
         /\ Range(s) = {Head(s)} \cup Range(Tail(s))
<1>1. /\ Head(s) \in X /\ Head(s) = s[1] /\ Tail(s) \in Seq(X) /\ Len(Tail(s)) = Len(s) - 1
      /\ Len(s) \in Nat \ {0} /\ DOMAIN s = 1..Len(s) /\ DOMAIN Tail(s) = 1..Len(Tail(s))
      /\ \A i \in 1..Len(Tail(s)) : Tail(s)[i] = s[i + 1]
  BY HeadTailProperties
<1>2. \A i \in 1..Len(Tail(s)) : i + 1 \in 1..Len(s) /\ i + 1 # 1
  BY <1>1
<1>3. ASSUME NEW i \in 1..Len(s), i # 1
      PROVE  \E j \in 1..Len(Tail(s)) : i = j + 1
  <2>1. i - 1 \in 1..Len(Tail(s)) /\ i = (i - 1) + 1
    BY <1>1, <1>3
  <2> QED
    BY <2>1
<1>4. 1 \in 1..Len(s)
  BY <1>1
<1> DEFINE t == Tail(s)
<1> HIDE DEF t
<1>6. /\ DOMAIN s = 1..Len(s) /\ DOMAIN t = 1..Len(t)
      /\ \A i \in 1..Len(t) : t[i] = s[i + 1] /\ i + 1 \in 1..Len(s)
  BY <1>1, <1>2 DEF t
<1>5. Range(s) = {s[1]} \cup Range(t)
  <2>1. \A i \in 1..Len(s) : s[i] \in {s[1]} \cup Range(t)
    <3> SUFFICES ASSUME NEW i \in 1..Len(s), i # 1
                 PROVE  s[i] \in Range(t)
      OBVIOUS
    <3>1. PICK j \in 1..Len(t) : i = j + 1
      BY <1>3 DEF t
    <3> QED
      BY <1>6, <3>1 DEF Range
  <2>2. \A i \in 1..Len(t) : t[i] \in Range(s)
    <3> TAKE i \in 1..Len(t)
    <3>1. PICK k \in 1..Len(s) : t[i] = s[k]
      BY <1>6
    <3> QED
      BY <1>6, <3>1 DEF Range
  <2>3. s[1] \in Range(s)
    BY <1>4, <1>6 DEF Range
  <2>4. Range(s) \subseteq {s[1]} \cup Range(t)
    BY <1>6, <2>1 DEF Range
  <2>5. Range(t) \subseteq Range(s)
    BY <1>6, <2>2 DEF Range
  <2> QED
    BY <2>3, <2>4, <2>5
<1> QED
  BY <1>1, <1>2, <1>4, <1>5 DEF t

\* The places below z, one for each key.
LEMMA DeepenedParts ==
  ASSUME NEW z \in Seq(Keys), NEW order \in Seq(Keys), IsInjective(order)
  PROVE  /\ Deepened(z, order) \in Seq(Seq(Keys)) /\ Spread(Deepened(z, order))
         /\ Len(Deepened(z, order)) = Len(order)
         /\ \A i \in 1..Len(order) : order[i] \in Keys /\ Deepened(z, order)[i] = Append(z, order[i])
         /\ Range(Deepened(z, order)) = {Append(z, key) : key \in Range(order)}
<1> DEFINE Q == Deepened(z, order)
<1>1. DOMAIN order = 1..Len(order) /\ Len(order) \in Nat /\ \A i \in 1..Len(order) : order[i] \in Keys
  OBVIOUS
<1>2. \A i \in 1..Len(order) : Append(z, order[i]) \in Seq(Keys)
  BY <1>1
<1>3. Q \in Seq(Seq(Keys)) /\ Len(Q) = Len(order) /\ DOMAIN Q = 1..Len(order)
      /\ \A i \in 1..Len(order) : Q[i] = Append(z, order[i])
  BY <1>1, <1>2 DEF Deepened
<1> HIDE DEF Q
<1>4. ASSUME NEW i \in 1..Len(Q), NEW j \in 1..Len(Q), IsPrefix(Q[i], Q[j])
      PROVE  i = j
  <2>1. order[i] \in Keys /\ order[j] \in Keys /\ Q[i] = Append(z, order[i]) /\ Q[j] = Append(z, order[j])
    BY <1>1, <1>3
  <2>2. ~IsPrefix(Append(z, order[i]), z)
    <3>1. IsPrefix(z, Append(z, order[i]))
      BY <2>1, PrefixAppend, PrefixOrder
    <3>2. Append(z, order[i]) # z
      BY <2>1
    <3> QED
      BY <1>2, <1>3, <3>1, <3>2, PrefixOrder
  <2>3. Append(z, order[i]) = Append(z, order[j])
    BY <1>2, <1>3, <1>4, <2>1, <2>2, PrefixAppend
  <2>4. order[i] = order[j]
    BY <2>1, <2>3
  <2> QED
    BY <1>1, <1>3, <2>4 DEF IsInjective
<1>5. Range(Q) = {Append(z, key) : key \in Range(order)}
  BY <1>1, <1>3 DEF Range
<1> QED
  BY <1>1, <1>3, <1>4, <1>5 DEF Spread, Q

\* One step of the loops: the first place goes, and may be followed by those below it.
Onwards(Q, R, order) == R \in {Tail(Q), Deepened(Head(Q), order) \o Tail(Q)}

\* A step of the loops over children keeps the pending places spread: what follows the
\* first place lies below it, apart from all others.
LEMMA SpreadGoesOn ==
  ASSUME NEW Q \in Seq(Seq(Keys)), Q # <<>>, Spread(Q), NEW order \in Seq(Keys), IsInjective(order),
         NEW R, Onwards(Q, R, order)
  PROVE  /\ R \in Seq(Seq(Keys)) /\ Spread(R)
         /\ ~Pending(Range(R), Head(Q))
         /\ \A a \in Seq(Keys) : Pending(Range(R), a) => Pending(Range(Q), a)
<1> DEFINE z == Head(Q)
           L == Tail(Q)
           N == Deepened(z, order)
<1>1. /\ z \in Seq(Keys) /\ z = Q[1] /\ 1 \in 1..Len(Q) /\ L \in Seq(Seq(Keys))
      /\ \A i \in 1..Len(L) : L[i] = Q[i + 1] /\ i + 1 \in 1..Len(Q) /\ i + 1 # 1
      /\ Range(Q) = {z} \cup Range(L)
  BY TailParts
<1>2. \A i \in 1..Len(L) : L[i] \in Seq(Keys) /\ ~IsPrefix(L[i], z) /\ ~IsPrefix(z, L[i])
  BY <1>1 DEF Spread
<1> HIDE DEF z, L
<1>3. DOMAIN L = 1..Len(L) /\ Len(L) \in Nat
  BY <1>1
<1>4. Spread(L)
  <2> SUFFICES ASSUME NEW i \in 1..Len(L), NEW j \in 1..Len(L), i # j
               PROVE  ~IsPrefix(L[i], L[j])
    BY DEF Spread
  <2>1. i + 1 \in 1..Len(Q) /\ j + 1 \in 1..Len(Q) /\ i + 1 # j + 1
    BY <1>1, <1>3
  <2>2. ~IsPrefix(Q[i + 1], Q[j + 1])
    BY <2>1 DEF Spread
  <2> QED
    BY <1>1, <2>2
<1>5. ~Pending(Range(L), z) /\ \A a : Pending(Range(L), a) => Pending(Range(Q), a)
  BY <1>1, <1>2, <1>3 DEF Pending, Range
<1>6. CASE R = L
  BY <1>1, <1>4, <1>5, <1>6 DEF z
<1>7. CASE R = N \o L
  <2>1. /\ N \in Seq(Seq(Keys)) /\ Spread(N) /\ Len(N) = Len(order)
        /\ \A i \in 1..Len(order) : order[i] \in Keys /\ N[i] = Append(z, order[i])
        /\ Range(N) = {Append(z, key) : key \in Range(order)}
    BY <1>1, DeepenedParts
  <2> HIDE DEF N
  <2>2. /\ R \in Seq(Seq(Keys)) /\ Len(R) = Len(N) + Len(L)
        /\ \A i \in 1..Len(N) : R[i] = N[i]
        /\ \A i \in 1..Len(L) : R[Len(N) + i] = L[i]
        /\ \A i \in 1..Len(R) : i \in 1..Len(N) \/ \E j \in 1..Len(L) : i = Len(N) + j
        /\ Range(R) = Range(N) \cup Range(L)
    <3>1. N \in Seq(Seq(Keys)) /\ L \in Seq(Seq(Keys)) /\ R = N \o L
      BY <1>1, <1>7, <2>1
    <3>2. R \in Seq(Seq(Keys)) /\ JoinOf(R, N, L)
      BY <3>1, PathsJoined
    <3> QED
      BY <3>2 DEF JoinOf
  <2>3. ASSUME NEW key \in Keys
        PROVE  /\ Append(z, key) \in Seq(Keys) /\ IsPrefix(z, Append(z, key))
               /\ ~IsPrefix(Append(z, key), z)
    <3>1. Append(z, key) \in Seq(Keys) /\ Append(z, key) # z
      BY <1>1
    <3>2. IsPrefix(z, Append(z, key))
      BY <1>1, PrefixAppend, PrefixOrder
    <3> QED
      BY <1>1, <3>1, <3>2, PrefixOrder
  <2>4. ASSUME NEW i \in 1..Len(N), NEW j \in 1..Len(L)
        PROVE  ~IsPrefix(N[i], L[j]) /\ ~IsPrefix(L[j], N[i])
    <3>1. PICK key \in Keys : N[i] = Append(z, key)
      BY <2>1
    <3>2. /\ Append(z, key) \in Seq(Keys) /\ IsPrefix(z, Append(z, key))
      BY <2>3
    <3>3. L[j] \in Seq(Keys) /\ ~IsPrefix(L[j], z) /\ ~IsPrefix(z, L[j])
      BY <1>2
    <3>6. PICK a \in Seq(Keys), b \in Seq(Keys) : a = Append(z, key) /\ b = L[j]
      BY <3>2, <3>3
    <3>7. z \in Seq(Keys) /\ IsPrefix(z, a) /\ ~IsPrefix(b, z) /\ ~IsPrefix(z, b)
      BY <1>1, <3>2, <3>3, <3>6
    <3>4. ~IsPrefix(a, b)
      BY <3>7, PrefixOrder
    <3>8. b # a
      BY <3>7
    <3>9. IsPrefix(b, Append(z, key)) <=> b = Append(z, key) \/ IsPrefix(b, z)
      BY <3>7, PrefixAppend
    <3>5. ~IsPrefix(b, a)
      BY <3>6, <3>7, <3>8, <3>9
    <3> QED
      BY <3>1, <3>4, <3>5, <3>6
  <2>5. Spread(R)
    <3> SUFFICES ASSUME NEW i \in 1..Len(R), NEW j \in 1..Len(R), i # j
                 PROVE  ~IsPrefix(R[i], R[j])
      BY DEF Spread
    <3>1. CASE i \in 1..Len(N) /\ j \in 1..Len(N)
      BY <2>1, <2>2, <3>1 DEF Spread
    <3>2. CASE i \in 1..Len(N) /\ \E l \in 1..Len(L) : j = Len(N) + l
      BY <2>2, <2>4, <3>2
    <3>3. CASE j \in 1..Len(N) /\ \E l \in 1..Len(L) : i = Len(N) + l
      BY <2>2, <2>4, <3>3
    <3>4. ASSUME NEW k \in 1..Len(L), i = Len(N) + k, NEW l \in 1..Len(L), j = Len(N) + l
          PROVE  ~IsPrefix(R[i], R[j])
      BY <1>4, <2>2, <3>4 DEF Spread
    <3> QED
      BY <2>2, <3>1, <3>2, <3>3, <3>4
  <2>6. \A y \in Range(N) : y \in Seq(Keys) /\ IsPrefix(z, y) /\ ~IsPrefix(y, z)
    <3>1. \A key \in Range(order) : key \in Keys
      BY DEF Range
    <3> QED
      BY <2>1, <2>3, <3>1
  <2>7. ~Pending(Range(R), z)
    BY <1>5, <2>2, <2>6 DEF Pending
  <2>8. ASSUME NEW a \in Seq(Keys), NEW y \in Range(N), IsPrefix(y, a)
        PROVE  IsPrefix(z, a)
    BY <1>1, <2>6, <2>8, PrefixOrder
  <2>9. \A a \in Seq(Keys) : Pending(Range(R), a) => Pending(Range(Q), a)
    BY <1>1, <1>5, <2>2, <2>8 DEF Pending
  <2> QED
    BY <2>2, <2>5, <2>7, <2>9 DEF z
<1> QED
  BY <1>6, <1>7 DEF Onwards, z, L, N
-----------------------------------------------------------------------------
(***************************************************************************)
(* A deep merge of q, which has the tree E, into the property at a path of *)
(* a document.  T are the properties of the target, S those of the source. *)
(***************************************************************************)
Under(d, at) == Promise!Subtree(Trees[d], at)

Over(E) == Picture(heap, E)

Setting(d, at, T, S, q, E) ==
  /\ SetOut(Here, T, S) /\ Plain(heap) /\ d \in Docs /\ at \in Seq(Keys)
  /\ q \in Seq(Steps) /\ Lays(heap, q, E)
  /\ \A r \in DOMAIN E : E[r] = q \o r /\ E[r] \in S
  /\ PathMap(Trees[d]) /\ Elements(Under(d, at), Over(E))

\* The source stays what it is.
LEMMA SourceShown ==
  ASSUME NEW d, NEW at, NEW T, NEW S, NEW q, NEW E, Setting(d, at, T, S, q, E),
         NEW s, Between(Here, s, T)
  PROVE  /\ Lays(s.heap, q, E) /\ Picture(s.heap, E) = Over(E)
         /\ Structured(s.heap, Steps, S)
         /\ \A r \in DOMAIN E : E[r] \in DOMAIN s.heap /\ NodeOf(s.heap[E[r]]) = Over(E)[r]
         /\ DOMAIN Over(E) = DOMAIN E /\ DOMAIN E \subseteq Seq(Keys)
<1>1. /\ Structured(s.heap, Steps, S)
      /\ \A a \in S : a \in DOMAIN s.heap /\ s.heap[a] = heap[a]
  BY SourceStays DEF Setting, Here, State
<1>2. Lays(heap, q, E) /\ PathMap(E) /\ \A r \in DOMAIN E : E[r] \in S
  BY DEF Setting, Lays
<1>3. \A r \in DOMAIN E : /\ E[r] \in DOMAIN s.heap /\ s.heap[E[r]].children = heap[E[r]].children
                          /\ NodeOf(s.heap[E[r]]) = NodeOf(heap[E[r]])
  BY <1>1, <1>2
<1>4. Lays(s.heap, q, E) /\ Picture(s.heap, E) = Picture(heap, E)
  BY <1>2, <1>3, LaysKept
<1>5. DOMAIN Over(E) = DOMAIN E /\ DOMAIN E \subseteq Seq(Keys)
      /\ \A r \in DOMAIN E : Over(E)[r] = NodeOf(heap[E[r]])
  BY <1>2, PictureFacts DEF Over, PathMap
<1> QED
  BY <1>1, <1>3, <1>4, <1>5 DEF Over

\* D has places for all of F behind the path at.
Targets(s, D, at, F) ==
  \A r \in Seq(Keys) :
    /\ at \o r \in DOMAIN D <=> r \in DOMAIN F
    /\ at \o r \in DOMAIN D =>
         /\ NodeOf(s.heap[D[at \o r]]) = F[r]
         /\ D[at \o r] \in DOMAIN s.heap
         /\ \A key \in Keys :
              /\ key \in DOMAIN s.heap[D[at \o r]].children <=> at \o Append(r, key) \in DOMAIN D
              /\ key \in DOMAIN s.heap[D[at \o r]].children =>
                   s.heap[D[at \o r]].children[key] = D[at \o Append(r, key)]

\* What is there of the target.
LEMMA TargetShown ==
  ASSUME NEW d, NEW at, NEW T, NEW S, NEW q, NEW E, Setting(d, at, T, S, q, E),
         NEW s, NEW D, NEW F, PathMap(F), Shows(s, d, D, Promise!Graft(Trees[d], at, F))
  PROVE  Targets(s, D, at, F)
<1> DEFINE P == Promise!Graft(Trees[d], at, F)
<1>1. d \in Docs /\ at \in Seq(Keys) /\ PathMap(Trees[d])
  BY DEF Setting
<1>2. IsGraft(P, Trees[d], at, F)
  BY <1>1, GraftFacts
<1> HIDE DEF P
<1>3. Shows(s, d, D, P) /\ Lays(s.heap, docs[d], D)
  BY DEF Shows, P
<1>4. DOMAIN P = DOMAIN D /\ \A y \in DOMAIN D : P[y] = NodeOf(s.heap[D[y]]) /\ D[y] \in DOMAIN s.heap
  BY <1>1, <1>3, ShowsPaths, ShowsNode
<1> SUFFICES ASSUME NEW r \in Seq(Keys)
             PROVE  /\ at \o r \in DOMAIN D <=> r \in DOMAIN F
                    /\ at \o r \in DOMAIN D =>
                         /\ NodeOf(s.heap[D[at \o r]]) = F[r]
                         /\ D[at \o r] \in DOMAIN s.heap
                         /\ \A key \in Keys :
                              /\ key \in DOMAIN s.heap[D[at \o r]].children
                                   <=> at \o Append(r, key) \in DOMAIN D
                              /\ key \in DOMAIN s.heap[D[at \o r]].children =>
                                   s.heap[D[at \o r]].children[key] = D[at \o Append(r, key)]
  BY DEF Targets
<1>5. at \o r \in DOMAIN D <=> r \in DOMAIN F
  BY <1>2, <1>4 DEF IsGraft
<1>6. at \o r \in DOMAIN D => NodeOf(s.heap[D[at \o r]]) = F[r] /\ D[at \o r] \in DOMAIN s.heap
  BY <1>2, <1>4, <1>5 DEF IsGraft
<1>7. at \o r \in Seq(Keys) /\ \A key \in Keys : Append(at \o r, key) = at \o Append(r, key)
  <2>1. at \o r \in Seq(Keys)
    BY <1>1, PathBehind
  <2>2. ASSUME NEW key \in Keys
        PROVE  Append(at \o r, key) = at \o Append(r, key)
    BY <1>1, KeyBehind
  <2> QED
    BY <2>1, <2>2
<1>8. ASSUME at \o r \in DOMAIN D, NEW key \in Keys
      PROVE  /\ key \in DOMAIN s.heap[D[at \o r]].children <=> at \o Append(r, key) \in DOMAIN D
             /\ key \in DOMAIN s.heap[D[at \o r]].children =>
                  s.heap[D[at \o r]].children[key] = D[at \o Append(r, key)]
  <2> DEFINE y == at \o r
             e == D[y]
  <2>1. Append(y, key) = at \o Append(r, key) /\ y \in Seq(Keys) /\ y \in DOMAIN D
    BY <1>7, <1>8
  <2> HIDE DEF y
  <2>2. key \in DOMAIN s.heap[e].children =>
          Append(y, key) \in DOMAIN D /\ D[Append(y, key)] = s.heap[e].children[key]
    BY <1>3, <2>1 DEF Lays
  <2>3. Append(y, key) \in DOMAIN D => key \in DOMAIN s.heap[e].children
    BY <1>3, <2>1 DEF Lays
  <2> QED
    BY <2>1, <2>2, <2>3 DEF y
<1> QED
  BY <1>5, <1>6, <1>8

\* A step of the loops: in the state s, e is the property at x of the target, and the
\* children of that and of the source at x under the same key are to be merged.
Visiting(d, at, T, S, q, E, overwrite, s, D, F, Z, x, key, e) ==
  /\ Setting(d, at, T, S, q, E) /\ Between(Here, s, T)
  /\ Shows(s, d, D, Promise!Graft(Trees[d], at, F))
  /\ x \in Promise!Common(Under(d, at), Over(E)) /\ key \in Keys
  /\ at \o x \in DOMAIN D /\ D[at \o x] = e
  /\ Mixes(F, Under(d, at), Over(E), overwrite, Z \cup {Append(x, key)})

\* What the step finds of the source, and of the target.
Sees(s, p, tree, z) ==
  /\ p = Null <=> z \notin DOMAIN tree
  /\ p # Null => p \in DOMAIN s.heap /\ NodeOf(s.heap[p]) = tree[z]
  /\ IsType(s, p, "Element") <=> z \in DOMAIN tree /\ tree[z] = Promise!ElementNode

SeesBoth(d, at, S, q, E, s, D, x, key, e, z) ==
  /\ z \in Seq(Keys) /\ at \o z \in Seq(Keys) /\ Append(at \o x, key) = at \o z
  /\ z \in DOMAIN Under(d, at) \cup DOMAIN Over(E) =>
       z \in Promise!Common(Under(d, at), Over(E)) \cup Border(Under(d, at), Over(E))
  /\ q \o x \in S
  /\ Sees(s, Child(s, q \o x, key), Over(E), z)
  /\ Child(s, q \o x, key) # Null =>
       /\ z \in DOMAIN E /\ Child(s, q \o x, key) = E[z] /\ E[z] = q \o z /\ E[z] \in S
       /\ key \in KeysInUse
  /\ Sees(s, Child(s, e, key), Under(d, at), z)
  /\ Child(s, e, key) # Null => at \o z \in DOMAIN D /\ Child(s, e, key) = D[at \o z]

\* In a step both are seen.
LEMMA StepSees ==
  ASSUME NEW d, NEW at, NEW T, NEW S, NEW q, NEW E, NEW overwrite, NEW s, NEW D, NEW F, NEW Z,
         NEW x, NEW key, NEW e, Visiting(d, at, T, S, q, E, overwrite, s, D, F, Z, x, key, e),
         NEW z, z = Append(x, key)
  PROVE  SeesBoth(d, at, S, q, E, s, D, x, key, e, z)
<1> DEFINE U == Under(d, at)
           O == Over(E)
           C == Promise!Common(U, O)
<1>1. /\ Setting(d, at, T, S, q, E) /\ Between(Here, s, T)
      /\ Shows(s, d, D, Promise!Graft(Trees[d], at, F))
      /\ x \in C /\ key \in Keys /\ at \o x \in DOMAIN D /\ D[at \o x] = e
      /\ Mixes(F, U, O, overwrite, Z \cup {z})
  BY DEF Visiting
<1>2. /\ at \in Seq(Keys) /\ Elements(U, O) /\ PathMap(F)
      /\ \A r \in DOMAIN E : E[r] = q \o r /\ E[r] \in S
  BY <1>1 DEF Setting, Mixes
<1>3. /\ z \in Seq(Keys)
      /\ z \in DOMAIN F <=> z \in DOMAIN U
      /\ z \in DOMAIN U => F[z] = U[z]
      /\ z \in DOMAIN U \cup DOMAIN O => z \in C \cup Border(U, O)
  <2> HIDE DEF U, O, C
  <2>1. Elements(U, O) /\ x \in C /\ key \in Keys /\ z = Append(x, key) /\ Mixes(F, U, O, overwrite, Z \cup {z})
    BY <1>1, <1>2
  <2>2. x \in Promise!Common(U, O)
    BY <2>1 DEF C
  <2>3. /\ z \in Seq(Keys)
        /\ z \in DOMAIN F <=> z \in DOMAIN U
        /\ z \in DOMAIN U => F[z] = U[z]
        /\ z \in DOMAIN U \cup DOMAIN O => z \in Promise!Common(U, O) \cup Border(U, O)
    BY <2>1, <2>2, MixHead, Zenon
  <2> QED
    BY <2>3 DEF C
<1>4. x \in Seq(Keys) /\ x \in DOMAIN O
  BY <1>2, <1>1, CommonFacts
<1>5. at \o z \in Seq(Keys) /\ Append(at \o x, key) = at \o z
  <2>1. at \in Seq(Keys) /\ x \in Seq(Keys) /\ key \in Keys /\ z \in Seq(Keys)
    BY <1>1, <1>2, <1>3, <1>4
  <2>2. at \o z \in Seq(Keys)
    BY <2>1, PathBehind
  <2>3. Append(at \o x, key) = at \o Append(x, key)
    BY <2>1, KeyBehind
  <2> QED
    BY <2>2, <2>3
<1>6. /\ Lays(s.heap, q, E) /\ DOMAIN O = DOMAIN E
      /\ \A r \in DOMAIN E : E[r] \in DOMAIN s.heap /\ NodeOf(s.heap[E[r]]) = O[r]
  BY <1>1, SourceShown
<1>7. Good(s) /\ Tidy(O) /\ Tidy(U) /\ Null \notin DOMAIN s.heap /\ Gone \notin DOMAIN s.heap
  <2>1. Good(s)
    BY <1>1 DEF Between
  <2>2. DOMAIN s.heap \subseteq Seq(Steps)
    BY <2>1 DEF Good, Sound
  <2> QED
    BY <1>2, <2>1, <2>2, Pointer DEF Elements
<1> HIDE DEF U, O, C
<1> DEFINE p == Child(s, q \o x, key)
           old == Child(s, e, key)
<1>8. /\ q \o x = E[x] /\ E[x] \in DOMAIN s.heap /\ x \in DOMAIN E /\ E[x] \in S
  BY <1>2, <1>4, <1>6
<1>9. key \in DOMAIN s.heap[E[x]].children <=> z \in DOMAIN E
  BY <1>1, <1>4, <1>6, <1>8 DEF Lays
<1>10. z \in DOMAIN E => E[z] = s.heap[E[x]].children[key]
  BY <1>8, <1>6, <1>9 DEF Lays
<1>11. p = Null <=> z \notin DOMAIN E
  BY <1>7, <1>8, <1>9, ChildFacts
<1>12. p # Null => p = E[z] /\ z \in DOMAIN E
  BY <1>7, <1>8, <1>9, <1>10, <1>11, ChildFacts
<1>13. p # Null => /\ E[z] = q \o z /\ E[z] \in S /\ p \in DOMAIN s.heap /\ NodeOf(s.heap[p]) = O[z]
                   /\ key \in KeysInUse
  BY <1>1, <1>2, <1>4, <1>6, <1>7, <1>12 DEF Tidy
<1>20. Targets(s, D, at, F)
  BY <1>1, <1>2, TargetShown
<1>14. /\ e \in DOMAIN s.heap
       /\ key \in DOMAIN s.heap[e].children <=> at \o z \in DOMAIN D
       /\ key \in DOMAIN s.heap[e].children => s.heap[e].children[key] = D[at \o z]
  BY <1>1, <1>4, <1>20 DEF Targets
<1>15. /\ at \o z \in DOMAIN D <=> z \in DOMAIN F
       /\ at \o z \in DOMAIN D => NodeOf(s.heap[D[at \o z]]) = F[z] /\ D[at \o z] \in DOMAIN s.heap
  BY <1>3, <1>20 DEF Targets
<1>16. old = Null <=> z \notin DOMAIN U
  BY <1>3, <1>7, <1>14, <1>15, ChildFacts
<1>17. old # Null => /\ old = D[at \o z] /\ at \o z \in DOMAIN D /\ old \in DOMAIN s.heap
                     /\ NodeOf(s.heap[old]) = U[z]
  BY <1>3, <1>7, <1>14, <1>15, ChildFacts
<1> HIDE DEF p, old
<1>18. ASSUME NEW a, NEW tree, Tidy(tree), a = Null <=> z \notin DOMAIN tree,
              a # Null => a \in DOMAIN s.heap /\ NodeOf(s.heap[a]) = tree[z]
       PROVE  Sees(s, a, tree, z)
  <2>1. a # Null => a # Gone /\ z \in DOMAIN tree
    BY <1>7, <1>18
  <2>2. a # Null => (s.heap[a].type = "Element" <=> tree[z] = Promise!ElementNode)
    BY <1>18, <2>1 DEF Tidy, NodeOf, Promise!ElementNode, Promise!Node
  <2> QED
    BY <1>18, <2>1, <2>2 DEF Sees, IsType
<1>19. Sees(s, p, O, z) /\ Sees(s, old, U, z)
  BY <1>6, <1>7, <1>11, <1>13, <1>16, <1>17, <1>18
<1> QED
  BY <1>3, <1>5, <1>8, <1>12, <1>13, <1>17, <1>19 DEF p, old, U, O, C, SeesBoth

\* An array is merged into another, of a document.
LEMMA ArrayShown ==
  ASSUME NEW s, NEW d \in Docs, NEW D, NEW P, Shows(s, d, D, P), NEW y \in DOMAIN D,
         NEW a, a = D[y], s.heap[a].type = "Array", NEW b, b # a, NEW overwrite \in BOOLEAN
  PROVE  LET t == MergeArray(s, a, b, overwrite)
             size == IF overwrite THEN s.heap[b].value ELSE s.heap[a].value + s.heap[b].value
         IN  /\ Shows(t, d, D, Promise!Graft(P, y, Promise!Leaf(Promise!Node("Array", size))))
             /\ Grown(s, t)
<1> DEFINE t == MergeArray(s, a, b, overwrite)
           size == IF overwrite THEN s.heap[b].value ELSE s.heap[a].value + s.heap[b].value
<1>1. Good(s) /\ a \in DOMAIN s.heap
  BY DEF Shows, Lays
<1>2. t = Revalued(s, D[y], size)
  BY DEF MergeArray, Revalued
<1> HIDE DEF t, size
<1>3. Grown(s, t)
  BY <1>1, <1>2, RevaluedFacts
<1>7. Shows(t, d, D, Promise!Graft(P, y, Promise!Leaf(Promise!Node("Array", size))))
  <2>1. Shows(Revalued(s, D[y], size), d, D,
              Promise!Graft(P, y, Promise!Leaf(Promise!Node(s.heap[D[y]].type, size))))
    BY ShowsRevalued
  <2> QED
    BY <1>2, <2>1
<1> QED
  BY <1>3, <1>7 DEF t, size

\* A copy is put into an element of a document.
LEMMA CopyPut ==
  ASSUME NEW s, NEW d \in Docs, NEW D, NEW P, Shows(s, d, D, P),
         NEW y \in DOMAIN D, s.heap[D[y]].type = "Element", NEW key \in KeysInUse \cap Keys,
         NEW C, Structured(s.heap, Steps, C), NEW p \in C, NEW L, Lays(s.heap, p, L)
  PROVE  LET c == Copy(s, p)
             t == AddChild(c, D[y], key, c.prop)
         IN  \E G : /\ PathMap(G)
                    /\ Shows(t, d, Promise!Graft(D, Append(y, key), G),
                             Promise!Graft(P, Append(y, key), Picture(s.heap, L)))
<1> DEFINE e == D[y]
           c == Copy(s, p)
           t == AddChild(c, e, key, c.prop)
<1>1. Good(s) /\ e \in DOMAIN s.heap /\ Plain(s.heap)
  BY DEF Shows, Lays
<1>2. /\ Good(c) /\ Grown(s, c)
      /\ c.prop \in DOMAIN c.heap /\ c.prop \notin DOMAIN s.heap
      /\ Unheld(c.heap, c.prop) /\ c.prop \notin c.roots
      /\ c.heap[c.prop].parentProperty = Null
      /\ \A a \in DOMAIN s.heap : c.heap[a] = s.heap[a]
  <2>1. c = NewTree(s, p, FALSE)
    BY DEF Copy
  <2>2. FALSE \in BOOLEAN
    OBVIOUS
  <2> HIDE DEF c
  <2>3. LET u == NewTree(s, p, FALSE)
        IN  /\ Good(u) /\ Grown(s, u)
            /\ u.prop \in DOMAIN u.heap /\ u.prop \notin DOMAIN s.heap
            /\ Unheld(u.heap, u.prop) /\ u.prop \notin u.roots
            /\ u.heap[u.prop].type = s.heap[p].type /\ u.heap[u.prop].parentProperty = Null
            /\ \A a \in DOMAIN s.heap : u.heap[a] = s.heap[a]
            /\ Shut(u.heap, DOMAIN u.heap \ DOMAIN s.heap)
    BY <1>1, <2>2, NewTreeSound, Zenon
  <2> QED
    BY <2>1, <2>3
<1>3. Plain(c.heap) /\ \E G : Lays(c.heap, c.prop, G) /\ Picture(c.heap, G) = Picture(s.heap, L)
  <2>1. c = NewTree(s, p, FALSE) /\ FALSE \in BOOLEAN
    BY DEF Copy
  <2> HIDE DEF c
  <2>2. Copied(NewTree(s, p, FALSE), Picture(s.heap, L))
    BY <1>1, <2>1, CopyShown
  <2>3. Copied(c, Picture(s.heap, L))
    BY <2>1, <2>2
  <2> QED
    BY <2>3 DEF Copied
<1> HIDE DEF c
<1>4. PICK G : Lays(c.heap, c.prop, G) /\ Picture(c.heap, G) = Picture(s.heap, L)
  BY <1>3
<1>5. c.roots = s.roots /\ \A a \in DOMAIN s.heap : a \in DOMAIN c.heap
  BY <1>2 DEF Grown, Larger
<1>6. Shows(c, d, D, P)
  BY <1>2, <1>3, <1>5, ShowsBeside
<1>7. /\ e \in DOMAIN c.heap /\ c.heap[e].type = "Element" /\ c.prop # e
      /\ c.prop \notin {Null, Gone}
  BY <1>1, <1>2, <1>5, Pointer DEF Good, Sound
<1> HIDE DEF e
<1>8. Good(t) /\ Grown(c, t) /\ Taken(c, t, e, key, c.prop)
  BY <1>2, <1>7, AddChildSound
<1> HIDE DEF t
<1>9. NodesStay(c, t) /\ t.roots = c.roots
  BY <1>8 DEF NodesStay, NodeOf, Taken, Grown, Larger
<1>10. Shows(t, d, Promise!Graft(D, Append(y, key), G),
             Promise!Graft(P, Append(y, key), Picture(c.heap, G)))
  BY <1>2, <1>4, <1>6, <1>8, <1>9, ShowsTaken DEF e
<1>11. PathMap(G)
  BY <1>4 DEF Lays
<1> QED
  BY <1>4, <1>10, <1>11 DEF c, t, e

\* What both have stays in its place.
Holding(C, at, D, N) ==
  \A x \in C : at \o x \in DOMAIN D => at \o x \in DOMAIN N /\ N[at \o x] = D[at \o x]

\* One more place of a merge is done.
MergedOne(t, d, at, E, overwrite, D, Z) ==
  \E N, G : /\ Shows(t, d, N, Promise!Graft(Trees[d], at, G))
            /\ Mixes(G, Under(d, at), Over(E), overwrite, Z)
            /\ Holding(Promise!Common(Under(d, at), Over(E)), at, D, N)

\* One child is merged.
LEMMA ChildShown ==
  ASSUME NEW d, NEW at, NEW T, NEW S, NEW q, NEW E, NEW overwrite \in BOOLEAN,
         NEW s, NEW D, NEW F, NEW Z, NEW x, NEW key, NEW e,
         Visiting(d, at, T, S, q, E, overwrite, s, D, F, Z, x, key, e),
         e \in Grove(Here, s, T), s.heap[e].type = "Element",
         NEW z, z = Append(x, key), ~Pending(Z, z), NEW p, p = Child(s, q \o x, key), p # Null,
         ~(IsType(s, p, "Element") /\ IsType(s, Child(s, e, key), "Element"))
  PROVE  MergedOne(MergeChild(s, e, key, p, overwrite, TRUE), d, at, E, overwrite, D, Z)
<1> DEFINE U == Under(d, at)
           O == Over(E)
           C == Promise!Common(U, O)
           B == Border(U, O)
           P == Promise!Graft(Trees[d], at, F)
           W == Winner(U, O, overwrite, z)
           old == Child(s, e, key)
           t == MergeChild(s, e, key, p, overwrite, TRUE)
<1>1. /\ Setting(d, at, T, S, q, E) /\ Between(Here, s, T) /\ Shows(s, d, D, P)
      /\ x \in C /\ key \in Keys /\ at \o x \in DOMAIN D /\ D[at \o x] = e
      /\ Mixes(F, U, O, overwrite, Z \cup {z})
  BY DEF Visiting
<1>2. /\ d \in Docs /\ at \in Seq(Keys) /\ Elements(U, O) /\ PathMap(F) /\ PathMap(Trees[d])
      /\ PathMap(U) /\ PathMap(O) /\ SetOut(Here, T, S)
  BY <1>1 DEF Setting, Mixes, Elements, Tidy
<1>3. /\ z \in Seq(Keys) /\ at \o z \in Seq(Keys) /\ Append(at \o x, key) = at \o z
      /\ z \in DOMAIN U \cup DOMAIN O => z \in C \cup B
      /\ Sees(s, p, O, z) /\ Sees(s, old, U, z)
      /\ z \in DOMAIN E /\ p = E[z] /\ p \in S /\ key \in KeysInUse
      /\ old # Null => at \o z \in DOMAIN D /\ old = D[at \o z]
  <2>1. SeesBoth(d, at, S, q, E, s, D, x, key, e, z)
    BY StepSees
  <2> QED
    BY <2>1 DEF SeesBoth
<1>4. /\ z \in DOMAIN O /\ p \in DOMAIN s.heap /\ NodeOf(s.heap[p]) = O[z]
      /\ old = Null <=> z \notin DOMAIN U
      /\ old # Null => old \in DOMAIN s.heap /\ NodeOf(s.heap[old]) = U[z]
  BY <1>3 DEF Sees
<1>5. z \in B
  <2>1. z \notin C
    <3>1. C = Promise!Common(U, O)
      OBVIOUS
    <3> HIDE DEF C, U, O, old
    <3>2. z \in C => z \in DOMAIN U /\ U[z] = Promise!ElementNode /\ O[z] = Promise!ElementNode
      BY <1>2, <3>1, CommonFacts
    <3> QED
      BY <1>3, <1>4, <3>2 DEF Sees, old
  <2> QED
    BY <1>3, <1>4, <2>1
<1>6. Good(s) /\ Plain(s.heap) /\ PathMap(D)
  BY <1>1 DEF Shows, Lays
<1>7. p # Gone /\ (old # Null => old # Gone)
  <2>1. Gone \notin DOMAIN s.heap
    BY <1>6, Pointer DEF Good, Sound
  <2> QED
    BY <1>4, <2>1
<1>8. s.heap[p].type = O[z].type /\ s.heap[p].value = O[z].value
      /\ (old # Null => s.heap[old].type = U[z].type /\ s.heap[old].value = U[z].value)
  BY <1>4 DEF NodeOf
<1> HIDE DEF P, old, t, W
<1>9. \A G, N : PathMap(G) /\ N = Promise!Graft(D, at \o z, G) => Holding(C, at, D, N)
  <2> SUFFICES ASSUME NEW G, PathMap(G), NEW N, N = Promise!Graft(D, at \o z, G),
                      NEW y \in C, at \o y \in DOMAIN D
               PROVE  at \o y \in DOMAIN N /\ N[at \o y] = D[at \o y]
    BY DEF Holding
  <2>1. y \in Seq(Keys) /\ ~IsPrefix(z, y)
    BY <1>2, <1>5, BorderFacts, CommonFacts
  <2>2. at \o y \in Seq(Keys) /\ at \o z \in Seq(Keys)
    BY <1>2, <1>3, <2>1, PathBehind
  <2>3. ~IsPrefix(at \o z, at \o y)
    BY <1>2, <1>3, <2>1, PrefixBehind
  <2>4. IsGraft(N, D, at \o z, G)
    BY <1>6, <2>2, GraftFacts
  <2> QED
    BY <2>2, <2>3, <2>4 DEF IsGraft
<1>10. PathMap(W) /\ Mixes(Promise!Graft(F, z, W), U, O, overwrite, Z)
  BY <1>1, <1>2, <1>3, <1>5, WinnerTree, MixGrafts DEF W
<1>11. Promise!Graft(P, at \o z, W) = Promise!Graft(Trees[d], at, Promise!Graft(F, z, W))
  <2> HIDE DEF U
  <2>1. PathMap(Trees[d]) /\ at \in Seq(Keys) /\ PathMap(F) /\ z \in Seq(Keys) /\ PathMap(W)
    BY <1>2, <1>3, <1>10
  <2>2. Promise!Graft(Promise!Graft(Trees[d], at, F), at \o z, W)
          = Promise!Graft(Trees[d], at, Promise!Graft(F, z, W))
    <3>1. DeepGraft(Trees[d], at, F, z, W)
      BY <2>1, GraftDeep
    <3> QED
      BY <3>1 DEF DeepGraft
  <2> QED
    BY <2>2 DEF P
<1>12. CASE IsType(s, p, "Array") /\ IsType(s, old, "Array")
  <2>1. t = MergeArray(s, old, p, overwrite)
    BY <1>12 DEF MergeChild, t, old
  <2>2. old # Null /\ s.heap[old].type = "Array" /\ s.heap[p].type = "Array"
    BY <1>12 DEF IsType
  <2>3. p # old
    <3>1. p \notin Grove(Here, s, T)
      BY <1>1, <1>2, <1>3, SourceStays
    <3>2. e \in DOMAIN s.heap
      BY <1>1 DEF Shows, Lays
    <3>3. key \in DOMAIN s.heap[e].children /\ old = s.heap[e].children[key]
      BY <1>6, <2>2, <3>2, ChildFacts DEF old
    <3>4. old \in Grove(Here, s, T)
      BY <1>1, <3>2, <3>3 DEF Between, Shut
    <3> QED
      BY <3>1, <3>4
  <2>4. W = Promise!Leaf(Promise!Node("Array", IF overwrite THEN s.heap[p].value
                                                ELSE s.heap[old].value + s.heap[p].value))
    <3>1. z \in DOMAIN U \cap DOMAIN O /\ {U[z].type, O[z].type} = {"Array"}
      BY <1>4, <1>8, <2>2
    <3> QED
      BY <1>8, <2>2, <3>1 DEF Winner, W
  <2>5. Shows(t, d, D, Promise!Graft(P, at \o z, W))
    BY <1>1, <1>2, <1>3, <2>1, <2>2, <2>3, <2>4, ArrayShown
  <2>6. Holding(C, at, D, D)
    BY DEF Holding
  <2> QED
    BY <1>10, <1>11, <2>5, <2>6 DEF t, MergedOne
<1>13. CASE ~(IsType(s, p, "Array") /\ IsType(s, old, "Array"))
  <2>1. ~({U[z].type, O[z].type} = {"Array"} /\ z \in DOMAIN U \cap DOMAIN O)
    BY <1>4, <1>7, <1>8, <1>13 DEF IsType
  <2>2. Collection(s.heap[p].type) <=> Promise!Collection(O[z])
    BY <1>8 DEF Collection, Promise!Collection
  <2>3. CASE Collection(s.heap[p].type) /\ old # Null /\ ~overwrite
    <3>1. t = s
      BY <1>13, <2>3 DEF MergeChild, t, old
    <3>2. W = Promise!Subtree(U, z)
      BY <1>4, <2>1, <2>2, <2>3 DEF Winner, Yields, W
    <3>3. Mixes(F, U, O, overwrite, Z)
      BY <1>1, <1>2, <1>3, <1>5, <3>2, MixSkips DEF W
    <3>4. Holding(C, at, D, D)
      BY DEF Holding
    <3> QED
      BY <1>1, <3>1, <3>3, <3>4 DEF t, P, MergedOne
  <2>4. CASE ~(Collection(s.heap[p].type) /\ old # Null /\ ~overwrite)
    <3>1. t = AddChild(Copy(s, p), e, key, Copy(s, p).prop)
      BY <1>13, <2>4 DEF MergeChild, t, old
    <3>2. W = Promise!Subtree(O, z)
      BY <1>4, <2>1, <2>2, <2>4 DEF Winner, Yields, W
    <3> DEFINE L == Promise!Subtree(E, z)
    <3>3. Lays(s.heap, q, E) /\ Picture(s.heap, E) = O /\ Structured(s.heap, Steps, S)
      BY <1>1, SourceShown
    <3>4. Lays(s.heap, p, L) /\ Picture(s.heap, L) = W
      BY <1>3, <3>2, <3>3, LaysBelow
    <3> HIDE DEF L
    <3>5. D[at \o x] = e /\ s.heap[D[at \o x]].type = "Element" /\ key \in KeysInUse \cap Keys
      BY <1>1, <1>3
    <3>6. \E G : /\ PathMap(G)
                 /\ Shows(t, d, Promise!Graft(D, Append(at \o x, key), G),
                          Promise!Graft(P, Append(at \o x, key), Picture(s.heap, L)))
      BY <1>1, <1>2, <1>3, <3>1, <3>3, <3>4, <3>5, CopyPut
    <3>7. PICK G : PathMap(G) /\ Shows(t, d, Promise!Graft(D, at \o z, G), Promise!Graft(P, at \o z, W))
      BY <1>3, <3>4, <3>6
    <3>8. Holding(C, at, D, Promise!Graft(D, at \o z, G))
      BY <1>9, <3>7
    <3> QED
      BY <1>10, <1>11, <3>7, <3>8 DEF t, MergedOne
  <2> QED
    BY <2>3, <2>4
<1> QED
  BY <1>12, <1>13

\* Where a visit is to merge something, by its way from q.
Slot(q, v) == Append(Promise!From(q, Last(v.sources)), v.key)

Slots(q, todo) == [i \in 1..Len(todo) |-> Slot(q, todo[i])]

\* The places of visits that were put together, and of all but the first.
LEMMA SlotsParts ==
  ASSUME NEW X, NEW todo \in Seq(X), NEW q, Slots(q, todo) \in Seq(Seq(Keys))
  PROVE  /\ Len(Slots(q, todo)) = Len(todo)
         /\ \A i \in 1..Len(todo) : Slots(q, todo)[i] = Slot(q, todo[i])
         /\ todo # <<>> => /\ Slots(q, todo) # <<>> /\ Head(Slots(q, todo)) = Slot(q, Head(todo))
                           /\ Slots(q, Tail(todo)) = Tail(Slots(q, todo))
         /\ \A more \in Seq(X) : Slots(q, more) \in Seq(Seq(Keys)) =>
              Slots(q, more \o todo) = Slots(q, more) \o Slots(q, todo)
<1>1. Len(todo) \in Nat
  OBVIOUS
<1>2. \A y \in Seq(X) : Slots(q, y) \in Seq(Seq(Keys)) =>
        /\ Len(Slots(q, y)) = Len(y)
        /\ \A i \in 1..Len(y) : Slots(q, y)[i] = Slot(q, y[i])
  BY DEF Slots
<1>3. ASSUME todo # <<>>
      PROVE  /\ Slots(q, todo) # <<>> /\ Head(Slots(q, todo)) = Slot(q, Head(todo))
             /\ Slots(q, Tail(todo)) = Tail(Slots(q, todo))
  <2> DEFINE L == Slots(q, todo)
             rest == Tail(todo)
  <2>1. Len(L) = Len(todo) /\ \A i \in 1..Len(todo) : L[i] = Slot(q, todo[i])
    BY <1>2
  <2>2. /\ rest \in Seq(X) /\ Len(rest) = Len(todo) - 1 /\ Head(todo) = todo[1] /\ Len(todo) # 0
        /\ \A i \in 1..Len(rest) : rest[i] = todo[i + 1]
    BY <1>3, HeadTailProperties
  <2> HIDE DEF L
  <2>3. L # <<>> /\ L \in Seq(Seq(Keys))
    BY <1>1, <2>1, <2>2 DEF L
  <2>4. /\ Head(L) = L[1] /\ Tail(L) \in Seq(Seq(Keys)) /\ Len(Tail(L)) = Len(L) - 1
        /\ \A i \in 1..Len(Tail(L)) : Tail(L)[i] = L[i + 1]
    BY <2>3, HeadTailProperties
  <2> HIDE DEF rest
  <2>5. \A i \in 1..Len(rest) : i + 1 \in 1..Len(todo) /\ Tail(L)[i] = Slot(q, rest[i])
    <3> TAKE i \in 1..Len(rest)
    <3>1. PICK k \in 1..Len(todo) : k = i + 1
      BY <1>1, <2>2
    <3>2. Tail(L)[i] = L[k] /\ rest[i] = todo[k]
      BY <2>1, <2>2, <2>4, <3>1
    <3>3. L[k] = Slot(q, todo[k])
      BY <2>1
    <3> QED
      BY <3>1, <3>2, <3>3
  <2>6. Tail(L) = [i \in 1..Len(rest) |-> Tail(L)[i]]
    <3>1. Tail(L) = [i \in 1..Len(Tail(L)) |-> Tail(L)[i]]
      BY <2>4, SeqIsMap
    <3>2. Len(Tail(L)) = Len(rest)
      BY <2>1, <2>2, <2>4
    <3> QED
      BY <3>1, <3>2
  <2>7. Slots(q, rest) = Tail(L)
    BY <2>5, <2>6 DEF Slots
  <2>8. Head(L) = Slot(q, Head(todo))
    BY <1>1, <2>1, <2>2, <2>4
  <2> QED
    BY <2>3, <2>7, <2>8 DEF L, rest
<1>4. ASSUME NEW more \in Seq(X), Slots(q, more) \in Seq(Seq(Keys))
      PROVE  Slots(q, more \o todo) = Slots(q, more) \o Slots(q, todo)
  <2> DEFINE all == more \o todo
             M == Slots(q, more)
             L == Slots(q, todo)
  <2>1. /\ Len(L) = Len(todo) /\ \A i \in 1..Len(todo) : L[i] = Slot(q, todo[i])
        /\ Len(M) = Len(more) /\ \A i \in 1..Len(more) : M[i] = Slot(q, more[i])
    BY <1>2, <1>4
  <2>2. /\ all \in Seq(X) /\ Len(all) = Len(more) + Len(todo) /\ Len(more) \in Nat
        /\ \A i \in 1..Len(more) : all[i] = more[i]
        /\ \A i \in 1..Len(todo) : all[Len(more) + i] = todo[i]
        /\ \A i \in 1..Len(all) : i \in 1..Len(more) \/ \E j \in 1..Len(todo) : i = Len(more) + j
    BY ConcatParts
  <2> HIDE DEF M, L, all
  <2>3. M \in Seq(Seq(Keys)) /\ L \in Seq(Seq(Keys))
    BY <1>4 DEF M, L
  <2>4. /\ M \o L \in Seq(Seq(Keys)) /\ Len(M \o L) = Len(M) + Len(L)
        /\ \A i \in 1..Len(M) : (M \o L)[i] = M[i]
        /\ \A i \in 1..Len(L) : (M \o L)[Len(M) + i] = L[i]
    BY <2>3, ConcatParts
  <2>5. \A i \in 1..Len(all) : (M \o L)[i] = Slot(q, all[i])
    <3> SUFFICES ASSUME NEW i \in 1..Len(all)
                 PROVE  (M \o L)[i] = Slot(q, all[i])
      OBVIOUS
    <3>1. CASE i \in 1..Len(more)
      BY <2>1, <2>2, <2>4, <3>1
    <3>2. ASSUME NEW j \in 1..Len(todo), i = Len(more) + j
          PROVE  (M \o L)[i] = Slot(q, all[i])
      <4>1. (M \o L)[Len(M) + j] = L[j]
        BY <2>1, <2>4
      <4>2. all[Len(more) + j] = todo[j] /\ L[j] = Slot(q, todo[j])
        BY <2>1, <2>2
      <4> QED
        BY <2>1, <3>2, <4>1, <4>2
    <3> QED
      BY <2>2, <3>1, <3>2
  <2>6. M \o L = [i \in 1..Len(all) |-> (M \o L)[i]]
    <3>1. M \o L = [i \in 1..Len(M \o L) |-> (M \o L)[i]]
      BY <2>4, SeqIsMap
    <3>2. Len(M \o L) = Len(all)
      BY <2>1, <2>2, <2>4
    <3> QED
      BY <3>1, <3>2
  <2> DEFINE N == M \o L
  <2> HIDE DEF N
  <2>7. Slots(q, all) = N
    BY <2>5, <2>6 DEF Slots, N
  <2> QED
    BY <2>7 DEF N, M, L, all
<1> QED
  BY <1>2, <1>3, <1>4

\* The places of visits that were put together.
SlotsJoin(q, more, todo) == Slots(q, more \o todo) = Slots(q, more) \o Slots(q, todo)

\* They are the places of both.
LEMMA SlotsJoined ==
  ASSUME NEW X, NEW todo \in Seq(X), NEW q, Slots(q, todo) \in Seq(Seq(Keys)),
         NEW more \in Seq(X), Slots(q, more) \in Seq(Seq(Keys))
  PROVE  SlotsJoin(q, more, todo)
BY SlotsParts DEF SlotsJoin

\* A visit is to the property at the same place in the target.
Aimed(v, q, C, at, D) ==
  LET x == Promise!From(q, Last(v.sources))
  IN  /\ x \in C /\ q \o x = Last(v.sources) /\ v.key \in Keys
      /\ at \o x \in DOMAIN D /\ D[at \o x] = v.into

\* They are, for each key, to the place below z.
AimedAll(V, q, C, at, D, z, order) ==
  /\ Len(V) = Len(order) /\ Slots(q, V) = Deepened(z, order)
  /\ \A i \in 1..Len(V) : Aimed(V[i], q, C, at, D)

\* The visits that merge the children of what is at z.
LEMMA VisitsAimed ==
  ASSUME NEW q \in Seq(Steps), NEW C, C \subseteq Seq(Keys), NEW at, NEW D, NEW z \in C,
         at \o z \in DOMAIN D, NEW e, e = D[at \o z],
         NEW X, NEW sources \in Seq(X), sources # <<>>, Last(sources) = q \o z,
         NEW order \in Seq(Keys), IsInjective(order)
  PROVE  AimedAll(Visits(e, sources, order), q, C, at, D, z, order)
<1> DEFINE V == Visits(e, sources, order)
<1>1. DOMAIN order = 1..Len(order) /\ Len(order) \in Nat /\ \A i \in 1..Len(order) : order[i] \in Keys
  OBVIOUS
<1>2. /\ V \in Seq({V[i] : i \in 1..Len(order)}) /\ Len(V) = Len(order)
      /\ \A i \in 1..Len(order) : V[i] = [into |-> e, key |-> order[i], sources |-> sources]
  BY <1>1 DEF Visits
<1> HIDE DEF V
<1>3. Promise!From(q, Last(sources)) = z
  <2>1. z \in Seq(Steps)
    <3>1. Keys \subseteq Steps /\ z \in Seq(Keys)
      BY DEF Steps
    <3> QED
      BY <3>1
  <2> QED
    BY <2>1, Behind
<1>4. \A i \in 1..Len(order) : Slot(q, V[i]) = Append(z, order[i])
  <2> TAKE i \in 1..Len(order)
  <2>0. V[i] = [into |-> e, key |-> order[i], sources |-> sources]
    BY <1>2
  <2>1. V[i].sources = sources /\ V[i].key = order[i]
    BY <2>0
  <2> QED
    BY <1>3, <2>1 DEF Slot
<1>5. Slots(q, V) = Deepened(z, order)
  BY <1>1, <1>2, <1>4 DEF Slots, Deepened
<1>6. \A i \in 1..Len(V) : Aimed(V[i], q, C, at, D)
  <2> TAKE i \in 1..Len(V)
  <2>0. V[i] = [into |-> e, key |-> order[i], sources |-> sources] /\ order[i] \in Keys
    BY <1>1, <1>2
  <2>1. V[i].sources = sources /\ V[i].key = order[i] /\ V[i].into = e /\ order[i] \in Keys
    BY <2>0
  <2>2. PICK x \in C : x = Promise!From(q, Last(V[i].sources)) /\ x = z
    BY <1>3, <2>1
  <2>3. q \o x = Last(V[i].sources) /\ at \o x \in DOMAIN D /\ D[at \o x] = V[i].into
    BY <2>1, <2>2
  <2> QED
    BY <2>1, <2>2, <2>3 DEF Aimed
<1> QED
  BY <1>2, <1>5, <1>6 DEF V, AimedAll

\* The property at a path of the document is the one that was there before the call.
Standing(d, at, D) == at \in DOMAIN D /\ D[at] = docs[d] \o at

\* What is known of a merge while its loops go on.
Mixing(m, d, at, T, S, q, E, overwrite) ==
  /\ Merging(Here, m, T, S)
  /\ Slots(q, m.todo) \in Seq(Seq(Keys)) /\ Spread(Slots(q, m.todo))
  /\ \E D, F :
       /\ Shows(m.state, d, D, Promise!Graft(Trees[d], at, F)) /\ Standing(d, at, D)
       /\ Mixes(F, Under(d, at), Over(E), overwrite, Range(Slots(q, m.todo)))
       /\ \A i \in 1..Len(m.todo) :
            Aimed(m.todo[i], q, Promise!Common(Under(d, at), Over(E)), at, D)

\* One step of the loops.
LEMMA StepMixes ==
  ASSUME NEW d, NEW at, NEW T, NEW S, NEW q, NEW E, Setting(d, at, T, S, q, E),
         NEW overwrite \in BOOLEAN, NEW order \in Seq(Keys), IsInjective(order),
         KeysInUse \subseteq Range(order),
         NEW m, Mixing(m, d, at, T, S, q, E, overwrite), m.todo # <<>>
  PROVE  LET w == Visited(m, overwrite, TRUE, order)
         IN  /\ Mixing(w, d, at, T, S, q, E, overwrite)
             /\ Onwards(Slots(q, m.todo), Slots(q, w.todo), order)
<1> DEFINE w == Visited(m, overwrite, TRUE, order)
           U == Under(d, at)
           O == Over(E)
           C == Promise!Common(U, O)
           X == VisitType(Here, m.state, T, S)
           s == m.state
           todo == m.todo
           Q == Slots(q, todo)
           v == Head(todo)
           rest == Tail(todo)
           x == Promise!From(q, Last(v.sources))
           key == v.key
           e == v.into
           z == Append(x, key)
           Z == Range(Tail(Q))
           p == Child(s, Last(v.sources), key)
           old == Child(s, e, key)
<1>1. /\ Merging(Here, m, T, S) /\ m = [state |-> s, todo |-> todo] /\ Between(Here, s, T)
      /\ todo \in Seq(X) /\ todo # <<>> /\ Q \in Seq(Seq(Keys)) /\ Spread(Q)
  BY DEF Mixing, Merging
<1>2. PICK D, F : /\ Shows(s, d, D, Promise!Graft(Trees[d], at, F))
                  /\ Mixes(F, U, O, overwrite, Range(Q)) /\ Standing(d, at, D)
                  /\ \A i \in 1..Len(todo) : Aimed(todo[i], q, C, at, D)
  BY DEF Mixing
<1>3. /\ d \in Docs /\ at \in Seq(Keys) /\ q \in Seq(Steps) /\ Elements(U, O) /\ SetOut(Here, T, S)
      /\ C \subseteq Seq(Keys) /\ <<>> \in C
      /\ \A y \in DOMAIN U \cap DOMAIN O :
           U[y] = Promise!ElementNode /\ O[y] = Promise!ElementNode => y \in C
  <2>1. Setting(d, at, T, S, q, E) => Elements(U, O)
    BY DEF Setting
  <2> QED
    BY <2>1, CommonFacts DEF Setting
<1>4. Merging(Here, w, T, S)
  BY <1>1, <1>3, VisitedMerging
<1>5. /\ Q # <<>> /\ Head(Q) = Slot(q, v) /\ Slots(q, rest) = Tail(Q)
      /\ rest \in Seq(X) /\ v = todo[1] /\ v \in X /\ 1 \in 1..Len(todo)
      /\ \A i \in 1..Len(rest) : rest[i] = todo[i + 1] /\ i + 1 \in 1..Len(todo)
  <2>1. todo \in Seq(X) /\ todo # <<>> /\ Q \in Seq(Seq(Keys))
    BY <1>1
  <2> HIDE DEF X, todo
  <2> QED
    BY <2>1, SlotsParts, TailParts
<1>6. Head(Q) = z /\ Range(Q) = Z \cup {z} /\ Tail(Q) \in Seq(Seq(Keys))
  <2>1. Head(Q) = z
    BY <1>5 DEF Slot
  <2> QED
    BY <1>1, <1>5, <2>1, TailParts
<1>7. ~Pending(Z, z) /\ Spread(Tail(Q))
  <2>1. Onwards(Q, Tail(Q), order)
    BY DEF Onwards
  <2> HIDE DEF Q, z
  <2> QED
    BY <1>1, <1>5, <1>6, <2>1, SpreadGoesOn
<1>8. /\ x \in C /\ q \o x = Last(v.sources) /\ key \in Keys /\ at \o x \in DOMAIN D /\ D[at \o x] = e
  BY <1>2, <1>5 DEF Aimed
<1>9. /\ e \in Grove(Here, s, T) /\ s.heap[e].type = "Element"
      /\ v.sources \in Seq({a \in S : Here.heap[a].type = "Element"}) /\ v.sources # <<>>
  BY <1>5 DEF VisitType
<1>10. \A i \in 1..Len(rest) : Aimed(rest[i], q, C, at, D)
  BY <1>2, <1>5
<1>11. s.outcome = "ok"
  BY <1>1 DEF Between, Grown, Larger, Here, State
<1> HIDE DEF X, Q, v, rest, s, todo, U, O, C
<1>12. p = Child(s, q \o x, key)
  BY <1>8
<1>13. Visiting(d, at, T, S, q, E, overwrite, s, D, F, Z, x, key, e)
  BY <1>1, <1>2, <1>6, <1>8 DEF Visiting, U, O, C
<1> HIDE DEF x, key, e, Z
<1>14. /\ z \in Seq(Keys)
       /\ q \o x \in S
       /\ Sees(s, Child(s, q \o x, key), O, z)
       /\ Child(s, q \o x, key) # Null =>
              /\ z \in DOMAIN E /\ Child(s, q \o x, key) = E[z] /\ E[z] = q \o z /\ E[z] \in S
       /\ Sees(s, old, U, z)
       /\ old # Null => at \o z \in DOMAIN D /\ old = D[at \o z]
  <2>1. PICK y : y = Append(x, key)
    OBVIOUS
  <2>2. SeesBoth(d, at, S, q, E, s, D, x, key, e, y)
    BY <1>13, <2>1, StepSees
  <2> QED
    BY <2>1, <2>2 DEF SeesBoth, U, O
<1> HIDE DEF z, p, old
<1>15. /\ Sees(s, p, O, z) /\ Sees(s, old, U, z)
       /\ p # Null => p \in S /\ p = q \o z
       /\ old # Null => at \o z \in DOMAIN D /\ old = D[at \o z]
  BY <1>12, <1>14
<1>16. \A y : y.todo = rest => /\ Slots(q, y.todo) \in Seq(Seq(Keys)) /\ Spread(Slots(q, y.todo))
                              /\ Range(Slots(q, y.todo)) = Z
                              /\ Onwards(Q, Slots(q, y.todo), order)
  BY <1>5, <1>6, <1>7 DEF Onwards, Z
<1>17. CASE p = Null
  <2>1. w = [m EXCEPT !.todo = rest]
    BY <1>1, <1>11, <1>17 DEF Visited, p, v, s, todo, rest, key
  <2>2. w.state = s /\ w.todo = rest
    BY <1>1, <2>1
  <2> HIDE DEF w
  <2>3. Mixes(F, U, O, overwrite, Z)
    <3>1. z \notin DOMAIN O
      BY <1>15, <1>17 DEF Sees
    <3> QED
      BY <1>2, <1>3, <1>6, <1>14, <3>1, MixSkips
  <2>4. Mixing(w, d, at, T, S, q, E, overwrite)
    BY <1>2, <1>4, <1>10, <1>16, <2>2, <2>3 DEF Mixing, U, O, C
  <2> QED
    BY <1>16, <2>2, <2>4 DEF w, Q, todo
<1>18. CASE p # Null /\ IsType(s, p, "Element") /\ IsType(s, old, "Element")
  <2> DEFINE sources == Append(v.sources, p)
             V == Visits(old, sources, order)
  <2>1. w = [m EXCEPT !.todo = V \o rest]
    BY <1>1, <1>11, <1>18 DEF Visited, p, v, s, todo, rest, key, old, e
  <2>2. w.state = s /\ w.todo = V \o rest
    BY <1>1, <2>1
  <2> HIDE DEF w
  <2>3. z \in C
    BY <1>3, <1>15, <1>18 DEF Sees
  <2>4. old # Null /\ at \o z \in DOMAIN D /\ old = D[at \o z] /\ p \in S /\ p = q \o z
    BY <1>15, <1>18 DEF IsType
  <2>5. sources \in Seq(S) /\ sources # <<>> /\ Last(sources) = q \o z
    <3>1. PICK y \in Seq(S) : y = v.sources
      BY <1>9
    <3>2. Append(y, p) \in Seq(S) /\ Append(y, p) # <<>> /\ Last(Append(y, p)) = p
      BY <2>4, AppendFacts
    <3> QED
      BY <2>4, <3>1, <3>2
  <2> HIDE DEF sources
  <2>6. /\ Len(V) = Len(order) /\ Slots(q, V) = Deepened(z, order)
        /\ \A i \in 1..Len(V) : Aimed(V[i], q, C, at, D)
    <3>1. PICK f : f = old
      OBVIOUS
    <3>2. f = D[at \o z] /\ at \o z \in DOMAIN D
      BY <2>4, <3>1
    <3>3. AimedAll(Visits(f, sources, order), q, C, at, D, z, order)
      BY <1>3, <2>3, <2>5, <3>2, VisitsAimed
    <3> QED
      BY <3>1, <3>3 DEF AimedAll
  <2>7. /\ Deepened(z, order) \in Seq(Seq(Keys))
        /\ Range(Deepened(z, order)) = {Append(z, k) : k \in Range(order)}
    BY <1>14, DeepenedParts
  <2>8. V \in Seq({V[i] : i \in DOMAIN order} \cup X) /\ rest \in Seq({V[i] : i \in DOMAIN order} \cup X)
    <3>1. V \in Seq({V[i] : i \in DOMAIN order})
      BY DEF Visits
    <3> DEFINE A == {V[i] : i \in DOMAIN order}
    <3> HIDE DEF A, V
    <3> QED
      BY <1>5, <3>1 DEF A
  <2> DEFINE Y == {V[i] : i \in DOMAIN order} \cup X
  <2> HIDE DEF Y, V
  <2>9. /\ V \o rest \in Seq(Y)
        /\ \A i \in 1..Len(V) : (V \o rest)[i] = V[i]
        /\ \A i \in 1..Len(rest) : (V \o rest)[Len(V) + i] = rest[i]
        /\ \A i \in 1..Len(V \o rest) : i \in 1..Len(V) \/ \E j \in 1..Len(rest) : i = Len(V) + j
    BY <2>8, ConcatParts DEF Y
  <2>10. \A i \in 1..Len(w.todo) : Aimed(w.todo[i], q, C, at, D)
    BY <1>10, <2>2, <2>6, <2>9
  <2>11. Slots(q, w.todo) = Deepened(z, order) \o Tail(Q)
    <3>1. Slots(q, V \o rest) = Slots(q, V) \o Slots(q, rest)
      <4>1. Slots(q, V) \in Seq(Seq(Keys)) /\ Slots(q, rest) \in Seq(Seq(Keys))
        BY <1>5, <1>6, <2>6, <2>7
      <4>2. V \in Seq(Y) /\ rest \in Seq(Y)
        BY <2>8 DEF Y
      <4>3. SlotsJoin(q, V, rest)
        BY <4>1, <4>2, SlotsJoined
      <4> QED
        BY <4>3 DEF SlotsJoin
    <3> QED
      BY <1>5, <2>2, <2>6, <3>1
  <2>12. Onwards(Q, Slots(q, w.todo), order)
    BY <1>6, <2>11 DEF Onwards
  <2>13. Slots(q, w.todo) \in Seq(Seq(Keys)) /\ Spread(Slots(q, w.todo))
    BY <1>1, <1>5, <2>12, SpreadGoesOn
  <2>14. Range(Slots(q, w.todo)) = {Append(z, k) : k \in Range(order)} \cup Z
    <3>1. PICK a \in Seq(Seq(Keys)), b \in Seq(Seq(Keys)) : a = Deepened(z, order) /\ b = Tail(Q)
      BY <1>6, <2>7
    <3>2. JoinOf(a \o b, a, b)
      BY PathsJoined
    <3>3. Range(a \o b) = Range(a) \cup Range(b)
      BY <3>2 DEF JoinOf
    <3> QED
      BY <2>7, <2>11, <3>1, <3>3 DEF Z
  <2>15. Mixes(F, U, O, overwrite, {Append(z, k) : k \in Range(order)} \cup Z)
    <3>1. Range(order) \subseteq Keys
      BY DEF Range
    <3>2. Mixes(F, U, O, overwrite, Z \cup {z})
      BY <1>2, <1>6
    <3> QED
      <4>1. Mixes(F, U, O, overwrite, Following(z, Range(order)) \cup Z)
        BY <1>3, <2>3, <3>1, <3>2, MixExpands DEF C
      <4> QED
        BY <4>1 DEF Following
  <2>16. Mixing(w, d, at, T, S, q, E, overwrite)
    BY <1>2, <1>4, <2>2, <2>10, <2>13, <2>14, <2>15 DEF Mixing, U, O, C
  <2> QED
    BY <2>12, <2>16 DEF w, Q, todo
<1>19. CASE p # Null /\ ~(IsType(s, p, "Element") /\ IsType(s, old, "Element"))
  <2> DEFINE t == MergeChild(s, e, key, p, overwrite, TRUE)
  <2>1. w = [state |-> IF \A i \in DOMAIN v.sources : Alive(t, v.sources[i]) THEN t ELSE Undefined(t),
             todo |-> rest]
    BY <1>1, <1>11, <1>19 DEF Visited, p, v, s, todo, rest, key, old, e
  <2>2. e \in DOMAIN s.heap /\ p \in S /\ key \in Keys
    BY <1>2, <1>8, <1>15, <1>19 DEF Shows, Lays
  <2>3. Between(Here, t, T)
    BY <1>1, <1>3, <1>9, <2>2, ChildBetween DEF e, s
  <2> HIDE DEF t
  <2>4. \A i \in DOMAIN v.sources : Alive(t, v.sources[i])
    <3>1. \A i \in DOMAIN v.sources : v.sources[i] \in S
      BY <1>9
    <3> QED
      BY <1>3, <2>3, <3>1, SourceAlive
  <2>5. w.state = t /\ w.todo = rest
    <3>1. w = [state |-> t, todo |-> rest]
      BY <2>1, <2>4, Zenon
    <3> HIDE DEF w
    <3> QED
      BY <3>1
  <2> HIDE DEF w
  <2>6. \E N, G : /\ Shows(t, d, N, Promise!Graft(Trees[d], at, G))
                  /\ Mixes(G, U, O, overwrite, Z)
                  /\ Holding(C, at, D, N)
    <3>1. e \in Grove(Here, s, T) /\ s.heap[e].type = "Element"
      BY <1>9 DEF e
    <3>2. PICK y : y = z /\ y = Append(x, key)
      BY DEF z
    <3>3. ~Pending(Z, y)
      BY <1>7, <3>2
    <3>4. ~(IsType(s, p, "Element") /\ IsType(s, Child(s, e, key), "Element"))
      BY <1>19 DEF old
    <3>5. MergedOne(MergeChild(s, e, key, p, overwrite, TRUE), d, at, E, overwrite, D, Z)
      BY <1>12, <1>13, <1>19, <3>1, <3>2, <3>3, <3>4, ChildShown
    <3> QED
      BY <3>5 DEF t, U, O, C, MergedOne
  <2>7. PICK N, G : /\ Shows(t, d, N, Promise!Graft(Trees[d], at, G))
                    /\ Mixes(G, U, O, overwrite, Z)
                    /\ Holding(C, at, D, N)
    BY <2>6
  <2>8. \A i \in 1..Len(rest) : Aimed(rest[i], q, C, at, N)
    BY <1>10, <2>7 DEF Aimed, Holding
  <2>9. Standing(d, at, N)
    <3>1. at \o <<>> = at
      BY <1>3, PathBehind
    <3>2. PICK y \in C : y = <<>>
      BY <1>3
    <3>3. at \o y \in DOMAIN D => at \o y \in DOMAIN N /\ N[at \o y] = D[at \o y]
      BY <2>7 DEF Holding
    <3> QED
      BY <1>2, <3>1, <3>2, <3>3 DEF Standing
  <2>10. Mixing(w, d, at, T, S, q, E, overwrite)
    BY <1>4, <1>16, <2>5, <2>7, <2>8, <2>9 DEF Mixing, U, O, C
  <2> QED
    BY <1>16, <2>5, <2>10 DEF w, Q, todo
<1> QED
  BY <1>17, <1>18, <1>19
-----------------------------------------------------------------------------
(***************************************************************************)
(* The loops of a merge come to an end, in as many steps as Merge takes.   *)
(***************************************************************************)

\* Those of the places A that are still to come.
Ahead(Q, A) == {a \in A : Pending(Range(Q), a)}

\* A step leaves fewer of them.
Falls(Q, R, A) ==
  /\ Cardinality(Ahead(Q, A)) \in Nat /\ Cardinality(Ahead(R, A)) \in Nat
  /\ Cardinality(Ahead(R, A)) + 1 <= Cardinality(Ahead(Q, A))

\* Every step does.
LEMMA AheadFalls ==
  ASSUME NEW Q \in Seq(Seq(Keys)), Q # <<>>, Spread(Q), NEW order \in Seq(Keys), IsInjective(order),
         NEW R, Onwards(Q, R, order), NEW A, A \subseteq Seq(Keys), IsFiniteSet(A), Head(Q) \in A
  PROVE  Falls(Q, R, A)
<1> DEFINE z == Head(Q)
           X == Ahead(Q, A)
           Y == Ahead(R, A)
<1>1. /\ ~Pending(Range(R), z)
      /\ \A a \in Seq(Keys) : Pending(Range(R), a) => Pending(Range(Q), a)
  BY SpreadGoesOn
<1>2. z \in X
  <2>1. z \in Range(Q) /\ z \in Seq(Keys)
    BY TailParts
  <2>2. IsPrefix(z, z)
    BY <2>1, PrefixOrder
  <2> QED
    BY <2>1, <2>2 DEF Ahead, Pending
<1>3. Y \in SUBSET (X \ {z})
  BY <1>1 DEF Ahead
<1>4. IsFiniteSet(X)
  <2>1. X \in SUBSET A
    BY DEF Ahead
  <2> QED
    BY <2>1, FS_Subset
<1> HIDE DEF X, Y, z
<1>5. IsFiniteSet(X \ {z}) /\ Cardinality(X \ {z}) = Cardinality(X) - 1
  BY <1>2, <1>4, FS_RemoveElement
<1>6. IsFiniteSet(Y) /\ Cardinality(Y) <= Cardinality(X \ {z})
  BY <1>3, <1>5, FS_Subset
<1>7. Cardinality(X) \in Nat /\ Cardinality(Y) \in Nat
  BY <1>4, <1>6, FS_CardinalityType
<1>8. Cardinality(Y) + 1 <= Cardinality(X)
  BY <1>5, <1>6, <1>7
<1> QED
  BY <1>7, <1>8 DEF Falls, X, Y

\* Each of the places is below another, under a key of the order.
Keyed(Q, order) ==
  \A i \in 1..Len(Q) : \E x \in Seq(Keys) : \E key \in Range(order) : Q[i] = Append(x, key)

\* It is after a step.
LEMMA KeyedGoesOn ==
  ASSUME NEW Q \in Seq(Seq(Keys)), Q # <<>>, NEW order \in Seq(Keys), IsInjective(order),
         NEW R, Onwards(Q, R, order), Keyed(Q, order)
  PROVE  Keyed(R, order)
<1> DEFINE z == Head(Q)
           L == Tail(Q)
           N == Deepened(z, order)
<1>1. /\ z \in Seq(Keys) /\ L \in Seq(Seq(Keys))
      /\ \A i \in 1..Len(L) : L[i] = Q[i + 1] /\ i + 1 \in 1..Len(Q)
  BY TailParts
<1>2. /\ N \in Seq(Seq(Keys)) /\ Len(N) = Len(order)
      /\ \A i \in 1..Len(order) : N[i] = Append(z, order[i])
  BY <1>1, DeepenedParts
<1>3. R = L \/ R = N \o L
  BY DEF Onwards
<1> HIDE DEF z, L, N
<1>4. Keyed(L, order)
  <2> SUFFICES ASSUME NEW i \in 1..Len(L)
               PROVE  \E x \in Seq(Keys) : \E key \in Range(order) : L[i] = Append(x, key)
    BY DEF Keyed
  <2>1. PICK k \in 1..Len(Q) : L[i] = Q[k]
    BY <1>1
  <2>2. \E x \in Seq(Keys) : \E key \in Range(order) : Q[k] = Append(x, key)
    BY DEF Keyed
  <2> QED
    BY <2>1, <2>2
<1>5. Keyed(N, order)
  <2> SUFFICES ASSUME NEW i \in 1..Len(N)
               PROVE  \E x \in Seq(Keys) : \E key \in Range(order) : N[i] = Append(x, key)
    BY DEF Keyed
  <2>1. i \in 1..Len(order)
    BY <1>2
  <2>2. order[i] \in Range(order) /\ N[i] = Append(z, order[i])
    BY <1>2, <2>1 DEF Range
  <2> QED
    BY <1>1, <2>2
<1>6. ASSUME R = N \o L
      PROVE  Keyed(R, order)
  <2>1. JoinOf(N \o L, N, L)
    BY <1>1, <1>2, PathsJoined
  <2>2. JoinOf(R, N, L)
    BY <1>6, <2>1
  <2> SUFFICES ASSUME NEW i \in 1..Len(R)
               PROVE  \E x \in Seq(Keys) : \E key \in Range(order) : R[i] = Append(x, key)
    BY DEF Keyed
  <2>3. CASE i \in 1..Len(N)
    <3>1. R[i] = N[i]
      BY <2>2, <2>3 DEF JoinOf
    <3> QED
      BY <1>5, <2>3, <3>1 DEF Keyed
  <2>4. ASSUME NEW j \in 1..Len(L), i = Len(N) + j
        PROVE  \E x \in Seq(Keys) : \E key \in Range(order) : R[i] = Append(x, key)
    <3>1. R[i] = L[j]
      BY <2>2, <2>4 DEF JoinOf
    <3> QED
      BY <1>4, <3>1 DEF Keyed
  <2> QED
    BY <2>2, <2>3, <2>4 DEF JoinOf
<1> QED
  BY <1>3, <1>4, <1>6

\* The places below those of D, one for each key.
Spots(D, order) == {Append(x, key) : x \in D, key \in Range(order)}

\* There are as many as that makes, at the most.
LEMMA SpotsCounted ==
  ASSUME NEW D, D \subseteq Seq(Keys), IsFiniteSet(D), NEW order \in Seq(Keys)
  PROVE  /\ Spots(D, order) \subseteq Seq(Keys) /\ IsFiniteSet(Spots(D, order))
         /\ Cardinality(D) \in Nat /\ Len(order) \in Nat
         /\ Cardinality(Spots(D, order)) <= Cardinality(D) * Len(order)
<1> DEFINE I == 1..Len(order)
           P == D \X I
           A == Spots(D, order)
           f == [x \in P |-> Append(x[1], order[x[2]])]
<1>1. Len(order) \in Nat /\ Range(order) \subseteq Keys /\ DOMAIN order = I
  BY DEF Range
<1>2. A \subseteq Seq(Keys)
  BY <1>1 DEF Spots
<1>3. IsFiniteSet(I) /\ Cardinality(I) = Len(order)
  BY <1>1, FS_Interval
<1>4. \A i \in I : order[i] \in Range(order)
  BY <1>1 DEF Range
<1>5. ASSUME NEW a \in A
      PROVE  \E x \in P : f[x] = a
  <2>1. PICK x \in D, key \in Range(order) : a = Append(x, key)
    BY DEF Spots
  <2>2. PICK i \in I : order[i] = key
    BY <1>1 DEF Range
  <2>3. <<x, i>> \in P /\ f[<<x, i>>] = Append(x, order[i])
    OBVIOUS
  <2> QED
    BY <2>1, <2>2, <2>3
<1>6. ASSUME NEW x \in P
      PROVE  f[x] \in A
  <2>1. PICK y \in D, i \in I : x = <<y, i>>
    OBVIOUS
  <2>2. f[x] = Append(y, order[i])
    BY <2>1
  <2>3. order[i] \in Range(order)
    BY <1>4
  <2> QED
    BY <2>2, <2>3 DEF Spots
<1>7. f \in [P -> A]
  BY <1>6
<1> HIDE DEF f
<1>8. f \in Surjection(P, A)
  BY <1>5, <1>7 DEF Surjection
<1> HIDE DEF I
<1>9. IsFiniteSet(P) /\ Cardinality(P) = Cardinality(D) * Cardinality(I)
  BY <1>3, FS_Product
<1> HIDE DEF P, A
<1>10. IsFiniteSet(A) /\ Cardinality(A) <= Cardinality(P)
  BY <1>8, <1>9, FS_Surjection
<1>11. Cardinality(D) \in Nat
  BY FS_CardinalityType
<1> QED
  BY <1>1, <1>2, <1>3, <1>9, <1>10, <1>11 DEF A

\* A tree has no more properties than there are places.
LEMMA LaidCounted ==
  ASSUME NEW h, Linked(h, Keys), IsFiniteSet(DOMAIN h), NEW C, Structured(h, Steps, C), NEW p \in C,
         NEW E, Lays(h, p, E)
  PROVE  /\ IsFiniteSet(DOMAIN E) /\ DOMAIN E \subseteq Seq(Keys)
         /\ Cardinality(DOMAIN E) \in Nat /\ Cardinality(Places(h, p)) \in Nat
         /\ Cardinality(DOMAIN E) <= Cardinality(Places(h, p))
<1> DEFINE P == Places(h, p)
           f == [x \in P |-> x[1]]
           A == DOMAIN E
<1>1. PICK D : Planted(h, p, C, D)
  BY PlacesLaid
<1>2. D = E
  BY <1>1, LaysOnce DEF Planted
<1>3. A = {x[1] : x \in P}
  BY <1>1, <1>2 DEF Planted
<1>4. IsFiniteSet(P)
  <2>1. Linked(h, Steps)
    BY StepsLinked
  <2> QED
    BY <2>1, TreePlaces
<1> HIDE DEF P, A
<1>5. f \in Surjection(P, A)
  <2>1. f \in [P -> A]
    BY <1>3
  <2>2. \A a \in A : \E x \in P : f[x] = a
    BY <1>3
  <2> QED
    BY <2>1, <2>2 DEF Surjection
<1> HIDE DEF f
<1>6. IsFiniteSet(A) /\ Cardinality(A) <= Cardinality(P)
  BY <1>4, <1>5, FS_Surjection
<1>7. Cardinality(A) \in Nat /\ Cardinality(P) \in Nat
  BY <1>4, <1>6, FS_CardinalityType
<1>8. A \subseteq Seq(Keys)
  BY DEF A, Lays, PathMap
<1> QED
  BY <1>6, <1>7, <1>8 DEF P, A

\* What goes on in the loops of a merge, and how much is left to be done.
Going(m, d, at, T, S, q, E, overwrite, order) ==
  Mixing(m, d, at, T, S, q, E, overwrite) /\ Keyed(Slots(q, m.todo), order)

Left(m, q, E, order) == Cardinality(Ahead(Slots(q, m.todo), Spots(DOMAIN E, order)))

\* The first of the places that are left is one of those that can be.
LEMMA HeadSpot ==
  ASSUME NEW d, NEW at, NEW T, NEW S, NEW q, NEW E, Setting(d, at, T, S, q, E),
         NEW overwrite, NEW order \in Seq(Keys), NEW m, m.todo # <<>>,
         Going(m, d, at, T, S, q, E, overwrite, order)
  PROVE  LET Q == Slots(q, m.todo)
         IN  Q \in Seq(Seq(Keys)) /\ Q # <<>> /\ Spread(Q) /\ Head(Q) \in Spots(DOMAIN E, order)
<1> DEFINE U == Under(d, at)
           O == Over(E)
           C == Promise!Common(U, O)
           X == VisitType(Here, m.state, T, S)
           todo == m.todo
           Q == Slots(q, todo)
           v == Head(todo)
           x == Promise!From(q, Last(v.sources))
<1>1. /\ todo \in Seq(X) /\ todo # <<>> /\ Q \in Seq(Seq(Keys)) /\ Spread(Q) /\ Keyed(Q, order)
  BY DEF Going, Mixing, Merging
<1>2. PICK D : \A i \in 1..Len(todo) : Aimed(todo[i], q, C, at, D)
  BY DEF Going, Mixing
<1>3. Elements(U, O) /\ DOMAIN O = DOMAIN E
  <2>1. Lays(heap, q, E) /\ Elements(U, O)
    BY DEF Setting
  <2>2. DOMAIN O = DOMAIN E
    BY <2>1, PictureFacts DEF Over, Lays
  <2> QED
    BY <2>1, <2>2
<1>4. C \subseteq DOMAIN E /\ C \subseteq Seq(Keys)
  <2> HIDE DEF U, O
  <2> QED
    BY <1>3, CommonFacts
<1>5. v = todo[1] /\ 1 \in 1..Len(todo) /\ Q # <<>> /\ Head(Q) = Slot(q, v)
  <2> HIDE DEF X, todo
  <2> QED
    BY <1>1, SlotsParts, TailParts
<1>6. x \in C /\ v.key \in Keys
  BY <1>2, <1>5 DEF Aimed
<1>7. Head(Q) = Append(x, v.key)
  BY <1>5 DEF Slot
<1>8. Head(Q) = Q[1] /\ 1 \in 1..Len(Q)
  <2> HIDE DEF Q
  <2> QED
    BY <1>1, <1>5, TailParts
<1>9. PICK y \in Seq(Keys), key \in Range(order) : Q[1] = Append(y, key)
  <2> HIDE DEF Q
  <2> QED
    BY <1>1, <1>8 DEF Keyed
<1> HIDE DEF Q, x, v, C
<1>10. key \in Keys
  BY DEF Range
<1>11. PICK k : k = v.key /\ k \in Keys
  BY <1>6
<1>12. Append(x, k) = Append(y, key)
  BY <1>7, <1>8, <1>9, <1>11
<1>13. x = y /\ k = key
  BY <1>4, <1>6, <1>10, <1>11, <1>12, AppendOnce
<1>14. Head(Q) \in Spots(DOMAIN E, order)
  BY <1>4, <1>6, <1>8, <1>9, <1>13 DEF Spots
<1> QED
  BY <1>1, <1>5, <1>14 DEF Q

\* After a step of the loops less is left.
LeftLess(m, w, q, E, order) ==
  /\ Left(m, q, E, order) \in Nat /\ Left(w, q, E, order) \in Nat
  /\ Left(w, q, E, order) + 1 <= Left(m, q, E, order)

\* Every step goes on, and leaves less.
LEMMA MixingFalls ==
  ASSUME NEW d, NEW at, NEW T, NEW S, NEW q \in S, NEW E, Setting(d, at, T, S, q, E),
         NEW overwrite \in BOOLEAN, NEW order \in Seq(Keys), IsInjective(order),
         KeysInUse \subseteq Range(order),
         NEW m, Going(m, d, at, T, S, q, E, overwrite, order), m.todo # <<>>,
         NEW w, w = Visited(m, overwrite, TRUE, order)
  PROVE  Going(w, d, at, T, S, q, E, overwrite, order) /\ LeftLess(m, w, q, E, order)
<1> DEFINE A == Spots(DOMAIN E, order)
           Q == Slots(q, m.todo)
           R == Slots(q, w.todo)
<1>1. Mixing(m, d, at, T, S, q, E, overwrite) /\ Keyed(Q, order)
  BY DEF Going
<1>2. Mixing(w, d, at, T, S, q, E, overwrite) /\ Onwards(Q, R, order)
  BY <1>1, StepMixes
<1>3. Q \in Seq(Seq(Keys)) /\ Q # <<>> /\ Spread(Q) /\ Head(Q) \in A
  BY HeadSpot
<1>4. A \subseteq Seq(Keys) /\ IsFiniteSet(A)
  <2>1. /\ Linked(heap, Keys) /\ IsFiniteSet(DOMAIN heap) /\ Structured(heap, Steps, S)
        /\ Lays(heap, q, E)
    BY DEF Setting, SetOut, Good, Sound, Here, State
  <2>2. IsFiniteSet(DOMAIN E) /\ DOMAIN E \subseteq Seq(Keys)
    BY <2>1, LaidCounted
  <2> QED
    BY <2>2, SpotsCounted
<1> HIDE DEF A, Q, R
<1>5. Keyed(R, order)
  BY <1>1, <1>2, <1>3, KeyedGoesOn
<1>6. Falls(Q, R, A)
  BY <1>2, <1>3, <1>4, AheadFalls
<1>7. LeftLess(m, w, q, E, order)
  BY <1>6 DEF Falls, LeftLess, Left, A, Q, R
<1> QED
  BY <1>2, <1>5, <1>7 DEF Going, R

\* To graft what is there changes nothing.
LEMMA GraftBack ==
  ASSUME NEW T, PathMap(T), NEW at \in Seq(Keys)
  PROVE  Promise!Graft(T, at, Promise!Subtree(T, at)) = T
<1> DEFINE S == Promise!Subtree(T, at)
<1>1. /\ PathMap(S)
      /\ \A r \in Seq(Keys) : r \in DOMAIN S <=> at \o r \in DOMAIN T
      /\ \A r \in DOMAIN S : S[r] = T[at \o r]
  BY SubtreeFacts
<1> HIDE DEF S
<1>2. IsGraft(T, T, at, S)
  BY <1>1 DEF IsGraft
<1>3. IsGraft(Promise!Graft(T, at, S), T, at, S)
  BY <1>1, GraftFacts
<1>4. Promise!Graft(T, at, S) = T
  BY <1>2, <1>3, GraftUnique
<1> QED
  BY <1>4 DEF S

\* Before the first step of the loops.
LEMMA MergeGoes ==
  ASSUME NEW d, NEW at, NEW T, NEW S, NEW q \in S, NEW E, Setting(d, at, T, S, q, E),
         NEW overwrite \in BOOLEAN, NEW order \in Seq(Keys), IsInjective(order),
         KeysInUse \subseteq Range(order),
         NEW e \in T, heap[e].type = "Element", heap[q].type = "Element",
         NEW D, Shows(Here, d, D, Trees[d]), Standing(d, at, D), D[at] = e
  PROVE  Going(AtFirst(Here, e, q, order), d, at, T, S, q, E, overwrite, order)
<1> DEFINE U == Under(d, at)
           O == Over(E)
           C == Promise!Common(U, O)
           V == Visits(e, <<q>>, order)
           m == AtFirst(Here, e, q, order)
<1>1. /\ Elements(U, O) /\ d \in Docs /\ at \in Seq(Keys) /\ q \in Seq(Steps) /\ PathMap(Trees[d])
      /\ SetOut(Here, T, S)
  BY DEF Setting
<1>2. Merging(Here, m, T, S)
  <2>1. Here.heap[e].type = "Element" /\ Here.heap[q].type = "Element"
    BY DEF Here, State
  <2> QED
    BY <1>1, <2>1, MergeStarts
<1>3. <<>> \in C /\ C \subseteq Seq(Keys)
  <2> HIDE DEF U, O
  <2> QED
    BY <1>1, CommonFacts
<1>4. AimedAll(V, q, C, at, D, <<>>, order)
  <2>1. PICK z \in C : z = <<>>
    BY <1>3
  <2>0. <<q>> \in Seq({q})
    <3>1. PICK b \in {q} : b = q
      OBVIOUS
    <3>2. <<b>> \in Seq({q})
      OBVIOUS
    <3> QED
      BY <3>1, <3>2
  <2>2. PICK sources \in Seq({q}) : sources = <<q>>
    BY <2>0
  <2>3. sources # <<>> /\ Last(sources) = q
    BY <2>2 DEF Last
  <2>4. at \o z = at
    BY <1>1, <2>1, PathBehind
  <2>5. q \o z = q
    BY <1>1, <2>1, JourneyBehind
  <2>6. at \o z \in DOMAIN D /\ e = D[at \o z] /\ Last(sources) = q \o z
    BY <2>3, <2>4, <2>5 DEF Standing
  <2> HIDE DEF C
  <2>7. AimedAll(Visits(e, sources, order), q, C, at, D, z, order)
    BY <1>1, <1>3, <2>3, <2>6, VisitsAimed
  <2> QED
    BY <2>1, <2>2, <2>7
<1>5. /\ Deepened(<<>>, order) \in Seq(Seq(Keys)) /\ Spread(Deepened(<<>>, order))
      /\ Len(Deepened(<<>>, order)) = Len(order)
      /\ \A i \in 1..Len(order) : Deepened(<<>>, order)[i] = Append(<<>>, order[i])
      /\ Range(Deepened(<<>>, order)) = Following(<<>>, Range(order))
  <2>1. PICK z \in Seq(Keys) : z = <<>>
    BY <1>3
  <2>2. /\ Deepened(z, order) \in Seq(Seq(Keys)) /\ Spread(Deepened(z, order))
        /\ Len(Deepened(z, order)) = Len(order)
        /\ \A i \in 1..Len(order) : Deepened(z, order)[i] = Append(z, order[i])
        /\ Range(Deepened(z, order)) = Following(z, Range(order))
    BY DeepenedParts DEF Following
  <2> QED
    BY <2>1, <2>2
<1>6. m.state = Here /\ m.todo = V
  BY DEF AtFirst
<1> HIDE DEF V, m
<1>7. Slots(q, V) = Deepened(<<>>, order) /\ \A i \in 1..Len(V) : Aimed(V[i], q, C, at, D)
  BY <1>4 DEF AimedAll
<1>8. Mixes(U, U, O, overwrite, Following(<<>>, Range(order)))
  <2> HIDE DEF U, O
  <2>1. PICK z : z = <<>>
    OBVIOUS
  <2>2. PICK none : none = {}
    OBVIOUS
  <2>3. Mixes(U, U, O, overwrite, {<<>>})
    BY <1>1, MixBegins
  <2>4. Mixes(U, U, O, overwrite, none \cup {z}) /\ z \in Promise!Common(U, O)
    BY <1>3, <2>1, <2>2, <2>3 DEF C
  <2>5. Range(order) \subseteq Keys
    BY DEF Range
  <2>6. Mixes(U, U, O, overwrite, Following(z, Range(order)) \cup none)
    BY <1>1, <2>4, <2>5, MixExpands
  <2> QED
    BY <2>1, <2>2, <2>6
<1>9. Shows(Here, d, D, Promise!Graft(Trees[d], at, U))
  BY <1>1, GraftBack DEF Under
<1> HIDE DEF U, O, C
<1>10. Mixing(m, d, at, T, S, q, E, overwrite)
  BY <1>2, <1>5, <1>6, <1>7, <1>8, <1>9 DEF Mixing, U, O, C
<1>11. Keyed(Slots(q, m.todo), order)
  <2> DEFINE Q == Deepened(<<>>, order)
  <2>1. Slots(q, m.todo) = Q
    BY <1>6, <1>7
  <2>2. Len(Q) = Len(order) /\ \A i \in 1..Len(order) : Q[i] = Append(<<>>, order[i])
    BY <1>5
  <2> HIDE DEF Q
  <2>3. <<>> \in Seq(Keys) /\ \A i \in 1..Len(order) : order[i] \in Range(order)
    BY DEF Range
  <2> QED
    BY <2>1, <2>2, <2>3 DEF Keyed
<1> QED
  BY <1>10, <1>11 DEF Going, m

\* No more is left at first than Merge takes steps.
LEMMA LeftAtFirst ==
  ASSUME NEW d, NEW at, NEW T, NEW S, NEW q \in S, NEW E, Setting(d, at, T, S, q, E),
         NEW order \in Seq(Keys), NEW m
  PROVE  /\ Left(m, q, E, order) \in Nat
         /\ Left(m, q, E, order) <= Cardinality(Places(heap, q)) * Len(order)
<1> DEFINE A == Spots(DOMAIN E, order)
           X == Ahead(Slots(q, m.todo), A)
           P == Places(heap, q)
           D == DOMAIN E
<1>1. /\ Linked(heap, Keys) /\ IsFiniteSet(DOMAIN heap) /\ Structured(heap, Steps, S)
      /\ Lays(heap, q, E)
  BY DEF Setting, SetOut, Good, Sound, Here, State
<1>2. /\ IsFiniteSet(D) /\ D \subseteq Seq(Keys) /\ Cardinality(D) \in Nat /\ Cardinality(P) \in Nat
      /\ Cardinality(D) <= Cardinality(P)
  BY <1>1, LaidCounted
<1>3. X \in SUBSET A
  BY DEF Ahead
<1> HIDE DEF X, P, D
<1>4. IsFiniteSet(A) /\ Len(order) \in Nat /\ Cardinality(A) <= Cardinality(D) * Len(order)
  BY <1>2, SpotsCounted DEF D
<1> HIDE DEF A
<1>5. IsFiniteSet(X) /\ Cardinality(X) <= Cardinality(A)
  BY <1>3, <1>4, FS_Subset
<1>6. Cardinality(X) \in Nat /\ Cardinality(A) \in Nat
  BY <1>4, <1>5, FS_CardinalityType
<1>7. ASSUME NEW a \in Nat, NEW b \in Nat, NEW n \in Nat, a <= b
      PROVE  a * n \in Nat /\ b * n \in Nat /\ a * n <= b * n
  BY <1>7
<1>8. Cardinality(D) * Len(order) \in Nat /\ Cardinality(P) * Len(order) \in Nat
      /\ Cardinality(D) * Len(order) <= Cardinality(P) * Len(order)
  BY <1>2, <1>4, <1>7
<1>9. Cardinality(X) <= Cardinality(P) * Len(order)
  BY <1>4, <1>5, <1>6, <1>8
<1> QED
  BY <1>6, <1>9 DEF Left, X, P, A

\* A call has made the tree P of a document, where what was at the path is still there.
Turned(t, d, at, P) == \E N : Shows(t, d, N, P) /\ Standing(d, at, N)

\* A deep merge of an element makes what the forest promises.
LEMMA MergeShown ==
  ASSUME NEW d, NEW at, NEW T, NEW S, NEW q \in S, NEW E, Setting(d, at, T, S, q, E),
         NEW overwrite \in BOOLEAN, NEW order \in Seq(Keys), IsInjective(order),
         KeysInUse \subseteq Range(order),
         NEW e \in T, heap[e].type = "Element", heap[q].type = "Element",
         NEW D, Shows(Here, d, D, Trees[d]), Standing(d, at, D), D[at] = e
  PROVE  LET O == Promise!Overlay(Under(d, at), Over(E), overwrite)
         IN  /\ Turned(Merge(Here, e, q, overwrite, TRUE, order), d, at, Promise!Graft(Trees[d], at, O))
             /\ PathMap(O)
<1>1. PICK visits, after : Unfolds(Here, e, q, overwrite, order, visits, after)
  BY MergeUnfolds DEF Setting
<1> DEFINE first == AtFirst(Here, e, q, order)
           Runs(m) == Going(m, d, at, T, S, q, E, overwrite, order)
           Rest(m) == Left(m, q, E, order)
           J == {n \in Nat : n \in 0..visits =>
                   Runs(after[n]) /\ (after[n].todo # <<>> => Rest(after[n]) + n <= visits)}
<1>2. Runs(first)
  BY MergeGoes
<1>3. /\ visits \in Nat /\ visits = Cardinality(Places(heap, q)) * Len(order)
      /\ Merge(Here, e, q, overwrite, TRUE, order) = after[visits].state
      /\ \A i \in 0..visits : after[i] = IF i = 0 THEN first ELSE Visited(after[i - 1], overwrite, TRUE, order)
  <2>1. Here.heap = heap
    BY DEF Here, State
  <2> QED
    BY <1>1, <2>1 DEF Unfolds
<1> HIDE DEF first
<1>4. \A m : Rest(m) \in Nat /\ Rest(m) <= visits
  BY <1>3, LeftAtFirst
<1>5. ASSUME NEW m, Runs(m), m.todo # <<>>, NEW w, w = Visited(m, overwrite, TRUE, order)
      PROVE  Runs(w) /\ Rest(w) + 1 <= Rest(m)
  BY <1>5, MixingFalls DEF LeftLess
<1>6. \A m : m.todo = <<>> => Visited(m, overwrite, TRUE, order) = m
  BY DEF Visited
<1> HIDE DEF Runs, Rest
<1>7. 0 \in J
  <2>1. PICK m : m = after[0]
    OBVIOUS
  <2>2. m = first
    <3>1. 0 \in 0..visits
      BY <1>3
    <3> QED
      BY <1>3, <2>1, <3>1
  <2>3. Runs(m) /\ Rest(m) + 0 <= visits
    BY <1>2, <1>4, <2>2
  <2> QED
    BY <2>1, <2>3
<1>8. ASSUME NEW n \in Nat, n \in J
      PROVE  n + 1 \in J
  <2> SUFFICES ASSUME n + 1 \in 0..visits
               PROVE  /\ Runs(after[n + 1])
                      /\ after[n + 1].todo # <<>> => Rest(after[n + 1]) + (n + 1) <= visits
    OBVIOUS
  <2>1. n \in 0..visits /\ n + 1 # 0 /\ (n + 1) - 1 = n
    BY <1>3
  <2>2. PICK m, w : m = after[n] /\ w = after[n + 1]
    OBVIOUS
  <2>3. Runs(m) /\ (m.todo # <<>> => Rest(m) + n <= visits)
    BY <1>8, <2>1, <2>2
  <2>4. w = Visited(m, overwrite, TRUE, order)
    BY <1>3, <2>1, <2>2
  <2>5. CASE m.todo = <<>>
    BY <1>6, <2>2, <2>3, <2>4, <2>5
  <2>6. CASE m.todo # <<>>
    <3>1. Runs(w) /\ Rest(w) + 1 <= Rest(m)
      BY <1>5, <2>3, <2>4, <2>6
    <3>2. Rest(w) \in Nat /\ Rest(m) \in Nat /\ Rest(m) + n <= visits
      BY <1>4, <2>3, <2>6
    <3>3. Rest(w) + (n + 1) <= visits
      BY <1>3, <3>1, <3>2
    <3> QED
      BY <2>2, <3>1, <3>3
  <2> QED
    BY <2>5, <2>6
<1> HIDE DEF J
<1>9. Nat \subseteq J
  BY <1>7, <1>8, NatSetInduction
<1>10. PICK m : m = after[visits]
  OBVIOUS
<1>11. Runs(m) /\ (m.todo # <<>> => Rest(m) + visits <= visits)
  BY <1>3, <1>9, <1>10 DEF J
<1>12. m.todo = <<>>
  <2> SUFFICES ASSUME m.todo # <<>>
               PROVE  FALSE
    OBVIOUS
  <2>1. PICK w : w = Visited(m, overwrite, TRUE, order)
    OBVIOUS
  <2>2. Rest(w) + 1 <= Rest(m) /\ Rest(w) \in Nat /\ Rest(m) \in Nat
    BY <1>4, <1>5, <1>11, <2>1
  <2> QED
    BY <1>3, <1>11, <2>2
<1>13. Mixing(m, d, at, T, S, q, E, overwrite)
  BY <1>11 DEF Runs, Going
<1>14. Range(Slots(q, m.todo)) = {}
  <2>1. Slots(q, <<>>) = <<>>
    BY DEF Slots
  <2> QED
    BY <1>12, <2>1 DEF Range
<1>15. PICK N, F : /\ Shows(m.state, d, N, Promise!Graft(Trees[d], at, F)) /\ Standing(d, at, N)
                   /\ Mixes(F, Under(d, at), Over(E), overwrite, {})
  BY <1>13, <1>14 DEF Mixing
<1>16. F = Promise!Overlay(Under(d, at), Over(E), overwrite) /\ PathMap(F)
  <2>1. PathMap(F)
    BY <1>15 DEF Mixes
  <2> QED
    BY <1>15, <2>1, MixEnds DEF Setting
<1> QED
  BY <1>3, <1>10, <1>15, <1>16 DEF Turned
-----------------------------------------------------------------------------
(***************************************************************************)
(* PropertyWrapper::Merge.                                                 *)
(***************************************************************************)
\* What a resolved wrapper leads to is what its document has at its path.
LEMMA TargetPlace ==
  ASSUME Described, NEW w \in Held, Resolved(Links(w)) # Null
  PROVE  LET D == Layout(heap, wrapper[w].doc)
         IN  /\ wrapper[w].path \in DOMAIN D /\ D[wrapper[w].path] = Resolved(Links(w))
             /\ ~OfNothing(Links(w))
<1> DEFINE links == Links(w)
           n == Len(links)
           d == wrapper[w].doc
           path == wrapper[w].path
<1>1. LinksOK(heap, links)
  BY HeldFacts DEF Described
<1>2. /\ n \in Nat /\ n > 0 /\ DOMAIN links = 1..n
      /\ Resolved(links) = links[n].prop
  BY <1>1, LinksFacts
<1>3. Leading(links, n, n)
  BY <1>2 DEF Leading
<1>4. /\ KeysBetween(links, n, n) \in Seq(Keys)
      /\ \E x \in DOMAIN Layout(heap, d) :
           /\ links[n].prop = docs[d] \o x
           /\ x \o KeysBetween(links, n, n) = path
  BY <1>2, <1>3, HeldPlace DEF Described
<1>5. KeysBetween(links, n, n) = <<>>
  BY <1>2 DEF KeysBetween
<1>6. PICK x \in DOMAIN Layout(heap, d) : /\ links[n].prop = docs[d] \o x
                                          /\ x \o KeysBetween(links, n, n) = path
  BY <1>4
<1>7. x \in Seq(Keys) /\ Layout(heap, d)[x] = docs[d] \o x
  BY <1>6 DEF Layout
<1>8. x = path
  <2>1. x \o <<>> = x
    BY <1>7, PathBehind
  <2> QED
    BY <1>5, <1>6, <2>1
<1>9. ~OfNothing(links)
  <2> SUFFICES ASSUME OfNothing(links)
               PROVE  FALSE
    OBVIOUS
  <2>1. \A i \in DOMAIN links : links[i].prop = Null
    BY DEF Described, NothingLeads
  <2> QED
    BY <1>2, <2>1
<1> QED
  BY <1>2, <1>6, <1>7, <1>8, <1>9

\* What a path leads to is what its document has there.
LEMMA SourcePlace ==
  ASSUME Described, NEW src \in Docs, NEW path \in Paths, Resolved(Find(src, path)) # Null
  PROVE  /\ path \in DOMAIN Layout(heap, src)
         /\ Layout(heap, src)[path] = Resolved(Find(src, path))
<1>1. path \in Seq(Keys) /\ docs[src] \in DOMAIN heap
  BY PathsAssumption, HereFacts DEF Described
<1>2. Resolved(Find(src, path)) = LookUp(docs[src] \o path)
  BY <1>1, PathFound DEF Described, Find
<1>3. docs[src] \o path \in DOMAIN heap /\ Resolved(Find(src, path)) = docs[src] \o path
  BY <1>2 DEF LookUp
<1> QED
  BY <1>1, <1>3 DEF Layout

\* A property that is merged has the tree E, all of it in S.
SourceAt(src, path, q, S, E) ==
  /\ Lays(heap, q, E) /\ Over(E) = Promise!Subtree(Trees[src], path)
  /\ \A r \in DOMAIN E : E[r] = q \o r /\ E[r] \in S

\* There is such a tree.
LEMMA SourceTree ==
  ASSUME Described, NEW src \in Docs, NEW path \in DOMAIN Layout(heap, src),
         NEW q, q = Layout(heap, src)[path],
         NEW S, Structured(heap, Steps, S), q \in S
  PROVE  \E E : SourceAt(src, path, q, S, E)
<1> DEFINE L == Layout(heap, src)
           E == Promise!Subtree(Layout(heap, src), path)
<1>1. Sound(heap, Roots(docs)) /\ IsTree(heap)
  BY DEF Described, Consistent, ConsistentState
<1>2. Lays(heap, docs[src], L) /\ Trees[src] = Picture(heap, L)
  BY <1>1, LayoutLays, TreeShown DEF Trees
<1>3. path \in Seq(Keys) /\ PathMap(L) /\ q = docs[src] \o path
      /\ \A x \in DOMAIN L : L[x] = docs[src] \o x
  BY DEF Layout, PathMap, IsMap
<1>4. Lays(heap, q, E) /\ Over(E) = Promise!Subtree(Trees[src], path)
  <2> HIDE DEF L
  <2>1. /\ Lays(heap, L[path], Promise!Subtree(L, path))
        /\ Picture(heap, Promise!Subtree(L, path)) = Promise!Subtree(Picture(heap, L), path)
    <3>1. path \in DOMAIN L
      BY DEF L
    <3> QED
      BY <1>2, <3>1, LaysBelow
  <2>2. E = Promise!Subtree(L, path) /\ L[path] = q
    BY DEF L
  <2> QED
    BY <1>2, <2>1, <2>2 DEF Over
<1>5. \A r \in DOMAIN E : E[r] = q \o r
  <2>1. /\ PathMap(E) /\ \A r \in DOMAIN E : E[r] = L[path \o r] /\ path \o r \in DOMAIN L
    BY <1>3, SubtreeFacts DEF PathMap
  <2> HIDE DEF L
  <2> TAKE r \in DOMAIN E
  <2>2. r \in Seq(Keys) /\ path \o r \in DOMAIN L /\ E[r] = L[path \o r]
    BY <2>1 DEF PathMap
  <2>3. E[r] = docs[src] \o (path \o r)
    BY <1>3, <2>2
  <2>4. docs[src] \in Seq(Steps) /\ path \in Seq(Steps) /\ r \in Seq(Steps)
    <3>1. Keys \subseteq Steps
      BY DEF Steps
    <3>2. Seq(Keys) \subseteq Seq(Steps)
      BY <3>1, SeqMonotonic
    <3> QED
      BY <1>3, <2>2, <3>2, BehindDoc
  <2>5. PICK a \in Seq(Steps) : a = docs[src]
    BY <2>4
  <2>6. (a \o path) \o r = a \o (path \o r)
    <3>1. \A x, y, z \in Seq(Steps) : (x \o y) \o z = x \o (y \o z)
      BY BehindTwice, SMTT(20)
    <3> QED
      BY <2>4, <3>1
  <2> QED
    BY <1>3, <2>3, <2>5, <2>6
<1>6. \A r \in DOMAIN E : E[r] \in S
  <2>1. Linked(heap, Keys) /\ IsFiniteSet(DOMAIN heap)
    BY <1>1 DEF Sound
  <2>2. PICK F : Planted(heap, q, S, F)
    BY <2>1, PlacesLaid
  <2>3. E = F
    BY <1>4, <2>2, LaysOnce DEF Planted
  <2> QED
    BY <2>2, <2>3 DEF Planted
<1>7. SourceAt(src, path, q, S, E)
  BY <1>4, <1>5, <1>6 DEF SourceAt
<1> QED
  BY <1>7

\* What there is in the place of a property that is an element, or an array.
LEMMA PlaceTree ==
  ASSUME Described, NEW d \in Docs, NEW at \in DOMAIN Layout(heap, d),
         NEW p, p = Layout(heap, d)[at]
  PROVE  LET U == Promise!Subtree(Trees[d], at)
         IN  /\ at \in DOMAIN Trees[d] /\ at \in Seq(Keys) /\ PathMap(Trees[d])
             /\ p \in DOMAIN heap /\ Trees[d][at] = NodeOf(heap[p])
             /\ Tidy(U) /\ U[<<>>] = NodeOf(heap[p])
             /\ heap[p].type = "Element" => NodeOf(heap[p]) = Promise!ElementNode
             /\ heap[p].type = "Array" => U = Promise!Leaf(NodeOf(heap[p]))
<1> DEFINE L == Layout(heap, d)
           T == Trees[d]
           U == Promise!Subtree(T, at)
           E == Promise!Subtree(L, at)
<1>1. Sound(heap, Roots(docs)) /\ IsTree(heap)
  BY DEF Described, Consistent, ConsistentState
<1>2. Lays(heap, docs[d], L) /\ T = Picture(heap, L)
  BY <1>1, LayoutLays, TreeShown DEF Trees
<1> HIDE DEF L, T
<1>3. at \in DOMAIN L /\ p = L[at]
  BY DEF L
<1>4. PathMap(L) /\ at \in Seq(Keys) /\ p \in DOMAIN heap
  BY <1>2, <1>3 DEF Lays, PathMap
<1>5. PathMap(T) /\ DOMAIN T = DOMAIN L /\ T[at] = NodeOf(heap[p])
  BY <1>2, <1>3, <1>4, PictureFacts
<1>6. Lays(heap, p, E) /\ U = Picture(heap, E)
  BY <1>2, <1>3, LaysBelow
<1> HIDE DEF U, E
<1>7. Tidy(U)
  BY <1>1, <1>6, PictureTidy DEF Described
<1>8. PathMap(E) /\ <<>> \in DOMAIN E /\ E[<<>>] = p
  BY <1>6 DEF Lays
<1>9. PathMap(U) /\ DOMAIN U = DOMAIN E /\ U[<<>>] = NodeOf(heap[p])
  BY <1>6, <1>8, PictureFacts
<1>10. heap[p].type = "Element" => NodeOf(heap[p]) = Promise!ElementNode
  BY <1>4 DEF NodeOf, Promise!ElementNode, Promise!Node, Described, Plain
<1>11. ASSUME heap[p].type = "Array"
       PROVE  U = Promise!Leaf(NodeOf(heap[p]))
  <2>1. U[<<>>] # Promise!ElementNode
    BY <1>9, <1>11 DEF NodeOf, Promise!ElementNode, Promise!Node
  <2>2. \A r \in DOMAIN U : r = <<>>
    <3> SUFFICES ASSUME NEW r \in DOMAIN U, r # <<>>
                 PROVE  FALSE
      OBVIOUS
    <3>1. r \in Seq(Keys)
      BY <1>9 DEF PathMap
    <3>2. IsPrefix(<<>>, r) /\ <<>> \in Seq(Keys)
      BY <3>1, PrefixOrder
    <3> QED
      BY <1>7, <2>1, <3>1, <3>2, TidyWay
  <2>3. PICK V : V = Promise!Leaf(NodeOf(heap[p]))
    OBVIOUS
  <2>4. PathMap(V) /\ V[<<>>] = NodeOf(heap[p]) /\ \A r : r \in DOMAIN V <=> r = <<>>
    BY <2>3, LeafFacts
  <2>5. \A r : r \in DOMAIN U <=> r = <<>>
    BY <1>8, <1>9, <2>2
  <2>6. \A r \in Seq(Keys) : (r \in DOMAIN U <=> r \in DOMAIN V) /\ (r \in DOMAIN U => U[r] = V[r])
    BY <1>9, <2>4, <2>5
  <2>7. U = V
    BY <1>9, <2>4, <2>6, SamePathMap
  <2> QED
    BY <2>3, <2>7
<1> QED
  BY <1>3, <1>4, <1>5, <1>7, <1>9, <1>10, <1>11 DEF U, T, L

\* An array over an array replaces it or joins it.
LEMMA ArraysOverlaid ==
  ASSUME NEW a, a.type = "Array", NEW b, b.type = "Array", NEW overwrite, NEW T, T = Promise!Leaf(a),
         NEW S, S = Promise!Leaf(b)
  PROVE  Promise!Overlay(T, S, overwrite)
           = Promise!Leaf(Promise!Node("Array", IF overwrite THEN b.value ELSE a.value + b.value))
<1> DEFINE C == Promise!Common(T, S)
           A == {q \in DOMAIN T \cup DOMAIN S : q \notin C /\ (q # <<>> => Promise!Front(q) \in C)}
           W(q) == Winner(T, S, overwrite, q)
           At(p) == CHOOSE q \in A : Promise!IsPrefix(q, p)
           won == UNION {{q \o r : r \in DOMAIN W(q)} : q \in A}
           O == Promise!Overlay(T, S, overwrite)
           V == Promise!Leaf(Promise!Node("Array", IF overwrite THEN b.value ELSE a.value + b.value))
<1>1. O = [p \in C \cup won |->
             IF p \in C THEN Promise!ElementNode ELSE W(At(p))[Promise!From(At(p), p)]]
  BY DEF Promise!Overlay, Winner, Yields
<1>2. /\ DOMAIN T = {<<>>} /\ T[<<>>] = a
      /\ DOMAIN S = {<<>>} /\ S[<<>>] = b
  BY DEF Promise!Leaf
<1>3. /\ PathMap(V) /\ DOMAIN V = {<<>>}
  <2>1. PathMap(V)
    BY LeafFacts
  <2>2. DOMAIN V = {<<>>}
    BY DEF Promise!Leaf
  <2> QED
    BY <2>1, <2>2
<1>4. PICK none \in Seq(Keys) : none = <<>>
  <2>1. <<>> \in Seq(Keys)
    OBVIOUS
  <2> QED
    BY <2>1
<1>5. C = {}
  <2> SUFFICES ASSUME NEW q \in C
               PROVE  FALSE
    OBVIOUS
  <2>1. q = <<>> /\ \A r \in Prefixes(q) : {T[r], S[r]} = {Promise!ElementNode}
    BY <1>2, SameOperators DEF Promise!Common
  <2>2. none \in Prefixes(none)
    BY <1>4, PrefixesFacts, PrefixOrder
  <2>3. {a, b} = {Promise!ElementNode}
    BY <1>2, <1>4, <2>1, <2>2
  <2>4. a = Promise!ElementNode
    BY <2>3
  <2> QED
    BY <2>4 DEF Promise!ElementNode, Promise!Node
<1>6. A = {<<>>}
  BY <1>2, <1>5
<1>7. W(<<>>) = V
  <2>1. {T[<<>>].type, S[<<>>].type} = {"Array"} /\ <<>> \in DOMAIN T \cap DOMAIN S
    BY <1>2
  <2> QED
    BY <1>2, <2>1 DEF Winner
<1> HIDE DEF C, W, V, A
<1>8. At(none) = none /\ Promise!From(none, none) = none
  <2>1. Promise!IsPrefix(none, none)
    BY <1>4, SameOperators, PrefixOrder
  <2>2. At(none) = none
    BY <1>4, <1>6, <2>1
  <2>3. none \o none = none /\ Promise!From(none, none \o none) = none
    <3>1. none \o none = none
      BY <1>4, PathBehind
    <3>2. \A x, y \in Seq(Keys) : Promise!From(x, x \o y) = y
      BY Behind
    <3> QED
      BY <3>1, <3>2
  <2> QED
    BY <2>2, <2>3
<1>9. won = {none}
  <2>1. {none \o r : r \in DOMAIN W(none)} = {none}
    <3>1. none \o none = none
      BY <1>4, PathBehind
    <3>2. DOMAIN W(none) = {none}
      BY <1>3, <1>4, <1>7
    <3> QED
      BY <3>1, <3>2
  <2>2. A = {none}
    BY <1>4, <1>6
  <2>3. {{q \o r : r \in DOMAIN W(q)} : q \in A} = {{none \o r : r \in DOMAIN W(none)}}
    BY <2>2
  <2>4. won = UNION {{none}}
    BY <2>1, <2>3
  <2> QED
    BY <2>4
<1> HIDE DEF won, At
<1>10. DOMAIN O = {none} /\ O[none] = V[none]
  <2>1. DOMAIN O = C \cup won
    BY <1>1
  <2>2. O[none] = W(At(none))[Promise!From(At(none), none)]
    BY <1>1, <1>5, <1>9
  <2>3. O[none] = W(none)[none]
    BY <1>8, <2>2
  <2> QED
    BY <1>4, <1>5, <1>7, <1>9, <2>1, <2>3
<1>11. IsMap(O)
  <2> HIDE DEF O
  <2> QED
    BY <1>1 DEF IsMap
<1>12. O = V
  <2> HIDE DEF O
  <2>1. IsMap(V)
    BY <1>3 DEF PathMap
  <2> QED
    BY <1>3, <1>4, <1>10, <1>11, <2>1, SameMap
<1> QED
  BY <1>12 DEF O, V

\* A call has merged what is at a path of one document into what is at one of another.
MergedInto(s, d, at, src, path, overwrite) ==
  LET O == Promise!Overlay(Promise!Subtree(Trees[d], at), Promise!Subtree(Trees[src], path), overwrite)
  IN  Turned(s, d, at, Promise!Graft(Trees[d], at, O)) /\ PathMap(O)

\* What a merge is made of: the target is at a path of one document, the source at one of
\* another, and they share nothing.
MergeOf(d, at, p, src, path, q, T, S) ==
  /\ d \in Docs /\ at \in DOMAIN Layout(heap, d) /\ p = Layout(heap, d)[at]
  /\ src \in Docs /\ path \in DOMAIN Layout(heap, src) /\ q = Layout(heap, src)[path]
  /\ SetOut(Here, T, S) /\ p \in T /\ q \in S

\* Element::Merge.
LEMMA ElementsMerge ==
  ASSUME Described, NEW d, NEW at, NEW p, NEW src, NEW path, NEW q, NEW T, NEW S,
         MergeOf(d, at, p, src, path, q, T, S),
         NEW overwrite \in BOOLEAN, NEW order \in Orders,
         heap[p].type = "Element", heap[q].type = "Element"
  PROVE  MergedInto(Merge(Here, p, q, overwrite, TRUE, order), d, at, src, path, overwrite)
<1> DEFINE D == Layout(heap, d)
<1>1. /\ d \in Docs /\ at \in DOMAIN D /\ p = D[at] /\ p \in T
      /\ src \in Docs /\ path \in DOMAIN Layout(heap, src) /\ q = Layout(heap, src)[path]
      /\ q \in S /\ SetOut(Here, T, S) /\ Structured(heap, Steps, S)
  BY DEF MergeOf, SetOut, Here, State
<1>0. PICK E : SourceAt(src, path, q, S, E)
  BY <1>1, SourceTree
<1>2. /\ Lays(heap, q, E) /\ Over(E) = Promise!Subtree(Trees[src], path)
      /\ \A r \in DOMAIN E : E[r] = q \o r /\ E[r] \in S
  BY <1>0 DEF SourceAt
<1>3. /\ at \in Seq(Keys) /\ PathMap(Trees[d])
      /\ Tidy(Under(d, at)) /\ Under(d, at)[<<>>] = Promise!ElementNode
  <2>1. LET U == Promise!Subtree(Trees[d], at)
        IN  /\ at \in Seq(Keys) /\ PathMap(Trees[d]) /\ Tidy(U)
            /\ U[<<>>] = NodeOf(heap[p]) /\ NodeOf(heap[p]) = Promise!ElementNode
    BY <1>1, PlaceTree
  <2> QED
    BY <2>1 DEF Under
<1>4. Tidy(Over(E)) /\ Over(E)[<<>>] = Promise!ElementNode
  <2>1. LET U == Promise!Subtree(Trees[src], path)
        IN  /\ Tidy(U) /\ U[<<>>] = NodeOf(heap[q]) /\ NodeOf(heap[q]) = Promise!ElementNode
    BY <1>1, PlaceTree
  <2> QED
    BY <1>2, <2>1
<1> HIDE DEF D
<1>5. q \in Seq(Steps)
  BY <1>1 DEF Structured
<1>6. Setting(d, at, T, S, q, E)
  BY <1>1, <1>2, <1>3, <1>4, <1>5 DEF Setting, Elements, Described
<1>7. order \in Seq(Keys) /\ IsInjective(order) /\ KeysInUse \subseteq Range(order)
  BY OrdersAssumption, HashTablesAssumption
<1>8. Shows(Here, d, D, Trees[d]) /\ Standing(d, at, D)
  BY <1>1, HereShown DEF Described, D, Standing, Layout
<1>9. /\ Turned(Merge(Here, p, q, overwrite, TRUE, order), d, at,
                Promise!Graft(Trees[d], at, Promise!Overlay(Under(d, at), Over(E), overwrite)))
      /\ PathMap(Promise!Overlay(Under(d, at), Over(E), overwrite))
  BY <1>1, <1>6, <1>7, <1>8, MergeShown
<1> QED
  BY <1>2, <1>9 DEF MergedInto, Under

\* Array::Merge.
LEMMA ArraysMerge ==
  ASSUME Described, NEW d, NEW at, NEW p, NEW src, NEW path, NEW q, NEW T, NEW S,
         MergeOf(d, at, p, src, path, q, T, S), NEW overwrite \in BOOLEAN,
         heap[p].type = "Array", heap[q].type = "Array"
  PROVE  MergedInto(MergeArray(Here, p, q, overwrite), d, at, src, path, overwrite)
<1> DEFINE D == Layout(heap, d)
           a == NodeOf(heap[p])
           b == NodeOf(heap[q])
           U == Promise!Subtree(Trees[d], at)
           O == Promise!Subtree(Trees[src], path)
           size == IF overwrite THEN heap[q].value ELSE heap[p].value + heap[q].value
           t == MergeArray(Here, p, q, overwrite)
<1>1. /\ d \in Docs /\ at \in DOMAIN D /\ p = D[at] /\ src \in Docs
      /\ path \in DOMAIN Layout(heap, src) /\ q = Layout(heap, src)[path] /\ q # p
  BY DEF MergeOf, SetOut
<1>2. U = Promise!Leaf(a)
  BY <1>1, PlaceTree
<1>3. O = Promise!Leaf(b)
  BY <1>1, PlaceTree
<1>4. a.type = "Array" /\ a.value = heap[p].value /\ b.type = "Array" /\ b.value = heap[q].value
  BY DEF NodeOf
<1> HIDE DEF U, O, a, b
<1>5. Promise!Overlay(U, O, overwrite) = Promise!Leaf(Promise!Node("Array", size))
  <2>1. Promise!Overlay(U, O, overwrite)
          = Promise!Leaf(Promise!Node("Array", IF overwrite THEN b.value ELSE a.value + b.value))
    BY <1>2, <1>3, <1>4, ArraysOverlaid
  <2> QED
    BY <1>4, <2>1
<1>6. Shows(Here, d, D, Trees[d]) /\ Here.heap = heap /\ Standing(d, at, D)
  BY <1>1, HereShown, HereFacts DEF Described, Standing, Layout
<1> HIDE DEF D
<1>7. Shows(t, d, D, Promise!Graft(Trees[d], at, Promise!Leaf(Promise!Node("Array", size))))
  BY <1>1, <1>6, ArrayShown
<1> HIDE DEF size, t
<1>8. /\ Turned(t, d, at, Promise!Graft(Trees[d], at, Promise!Overlay(U, O, overwrite)))
      /\ PathMap(Promise!Overlay(U, O, overwrite))
  BY <1>5, <1>6, <1>7, LeafFacts DEF Turned
<1> QED
  BY <1>8 DEF MergedInto, U, O, t

\* A merge of a value, or of different kinds, does nothing.
LEMMA NothingMerged ==
  ASSUME Described, NEW w \in Held, NEW s, CallDone(Here, s), EndCall(s, w), s = Here
  PROVE  Fulfils
<1>1. Good(s) /\ s.heap = heap /\ s.roots = Roots(docs) /\ s.links = <<>>
  BY HereFacts DEF Described
<1>2. wrapper[w] = Kept(wrapper[w].doc, wrapper[w].path, Links(w))
  BY HeldFacts DEF Described
<1>3. ResolvedBy(s, w) = wrapper[w]
  BY <1>1, <1>2 DEF ResolvedBy
<1>4. OfNothingAtAll(wrapper[w])
  BY DEF OfNothingAtAll, Described, NothingLeads, Links
<1>5. CallEnding(s, w, wrapper[w])
  BY <1>3, <1>4, EndCallEnding
<1>6. Plain(heap)' /\ NothingLeads' /\ UNCHANGED <<Trees, Addresses>>
  BY <1>1, <1>5, CallUnseen
<1> QED
  BY <1>6 DEF Fulfils, Promise!vars

\* What a merge through a wrapper has come to.
LEMMA MergePromised ==
  ASSUME Described, NEW w \in Held, ~OfNothing(Links(w)),
         NEW s, CallDone(Here, s), EndCall(s, w), s.links = <<>>,
         NEW d, d = wrapper[w].doc, NEW at, at = wrapper[w].path, NEW p,
         NEW src, NEW path \in Paths, NEW q, NEW T, NEW S, MergeOf(d, at, p, src, path, q, T, S),
         heap[p].type = heap[q].type, Collection(heap[p].type),
         NEW overwrite \in BOOLEAN, MergedInto(s, d, at, src, path, overwrite)
  PROVE  Fulfils
<1> DEFINE V == Promise!Graft(Trees[d], at,
                  Promise!Overlay(Promise!Subtree(Trees[d], at), Promise!Subtree(Trees[src], path), overwrite))
<1>1. PICK N : Shows(s, d, N, V)
  BY DEF MergedInto, Turned
<1>2. /\ at \in DOMAIN Trees[d] /\ Trees[d][at] = NodeOf(heap[p])
      /\ path \in DOMAIN Trees[src] /\ Trees[src][path] = NodeOf(heap[q])
      /\ src \in Docs
  <2>1. at \in DOMAIN Trees[d] /\ Trees[d][at] = NodeOf(heap[p])
    BY PlaceTree DEF MergeOf
  <2>2. path \in DOMAIN Trees[src] /\ Trees[src][path] = NodeOf(heap[q])
    BY PlaceTree DEF MergeOf
  <2> QED
    BY <2>1, <2>2 DEF MergeOf
<1> HIDE DEF V
<1>3. /\ Plain(heap)' /\ NothingLeads' /\ Trees' = [Trees EXCEPT ![d] = V]
      /\ Promise!OthersStay(d)
      /\ Promise!Leads(w) /\ Promise!Doc(w) = d /\ Promise!Path(w) = at
  <2>1. /\ Plain(heap)' /\ NothingLeads' /\ Trees' = [Trees EXCEPT ![d] = V]
        /\ Promise!OthersStay(d)
        /\ Promise!Leads(w) /\ Promise!Doc(w) = d /\ Promise!Path(w) = wrapper[w].path
    BY <1>1, ThroughWrapper, ZenonT(40)
  <2> QED
    BY <2>1
<1>4. Promise!Collection(Trees[d][at]) /\ Trees[src][path].type = Trees[d][at].type
  BY <1>2 DEF NodeOf, Promise!Collection, Collection
<1>5. Promise!Merge(w, src)
  <2> DEFINE U == Trees[Promise!Doc(w)]
             O == Trees[src]
             Alike(x) == x \in DOMAIN O /\ O[x].type = U[Promise!Path(w)].type
             Results(x, b) ==
               Promise!Graft(U, Promise!Path(w),
                 Promise!Overlay(Promise!Subtree(U, Promise!Path(w)), Promise!Subtree(O, x), b))
             results == {Results(x, b) : x \in {x \in Paths : Alike(x)}, b \in BOOLEAN}
  <2>1. path \in {x \in Paths : Alike(x)}
    BY <1>2, <1>3, <1>4
  <2>2. V = Results(path, overwrite)
    BY <1>3 DEF V
  <2> HIDE DEF Results, Alike
  <2>3. V \in results
    BY <2>1, <2>2
  <2> HIDE DEF results
  <2>4. Promise!Change(Promise!Doc(w), results)
    BY <1>3, <2>3 DEF Promise!Change
  <2>5. /\ Promise!OthersStay(Promise!Doc(w))
        /\ Promise!Path(w) \in DOMAIN U /\ Promise!Collection(U[Promise!Path(w)])
    BY <1>2, <1>3, <1>4
  <2> QED
    BY <2>4, <2>5 DEF Promise!Merge, results, Results, Alike
<1>6. Promise!Next
  BY <1>2, <1>3, <1>5 DEF Promise!Next, Held
<1> QED
  BY <1>3, <1>6 DEF Fulfils

\* PropertyWrapper::Merge.
LEMMA MergeFulfils ==
  ASSUME Careful \subseteq ClientRules, Described,
         NEW w \in Held, NEW src \in Docs, NEW path \in Paths,
         NEW overwrite \in BOOLEAN, NEW deep \in BOOLEAN, NEW order \in Orders,
         CallMerge(w, src, path, overwrite, deep, order)
  PROVE  Fulfils
<1> DEFINE p == Resolved(Links(w))
           q == Resolved(Find(src, path))
           d == wrapper[w].doc
           at == wrapper[w].path
           s == WrapperMerge(Here, p, q, overwrite, deep, order)
<1>1. deep = TRUE /\ Parted(p, q)
  BY MergeRules DEF Described
<1>2. p # Null /\ q # Null /\ EndCall(s, w)
  BY DEF CallMerge
<1>3. Good(s) /\ Grown(Here, s)
  BY MergeConsistent DEF Described
<1>4. d \in Docs /\ Here.links = <<>> /\ Here.heap = heap
  BY HeldFacts, HereFacts DEF Described
<1>5. CallDone(Here, s) /\ s.links = <<>>
  BY <1>3, <1>4, GrownDone DEF Described, Grown
<1>6. at \in DOMAIN Layout(heap, d) /\ p = Layout(heap, d)[at] /\ ~OfNothing(Links(w))
  BY <1>2, TargetPlace
<1>7. path \in DOMAIN Layout(heap, src) /\ q = Layout(heap, src)[path]
  BY <1>2, SourcePlace
<1> HIDE DEF p, q, s, d, at
<1>8. PICK T, S : MergeOf(d, at, p, src, path, q, T, S)
  BY <1>1, <1>4, <1>6, <1>7 DEF Parted, MergeOf
<1>9. s = IF IsType(Here, p, "Element") /\ IsType(Here, q, "Element")
            THEN Merge(Here, p, q, overwrite, TRUE, order)
          ELSE IF IsType(Here, p, "Array") /\ IsType(Here, q, "Array")
            THEN MergeArray(Here, p, q, overwrite)
          ELSE Here
  BY <1>1 DEF s, WrapperMerge
<1>10. CASE IsType(Here, p, "Element") /\ IsType(Here, q, "Element")
  <2>1. heap[p].type = "Element" /\ heap[q].type = "Element"
    BY <1>4, <1>10 DEF IsType
  <2>2. MergedInto(s, d, at, src, path, overwrite)
    BY <1>8, <1>9, <1>10, <2>1, ElementsMerge
  <2> QED
    BY <1>2, <1>5, <1>6, <1>8, <2>1, <2>2, MergePromised DEF d, at, Collection
<1>11. CASE /\ ~(IsType(Here, p, "Element") /\ IsType(Here, q, "Element"))
            /\ IsType(Here, p, "Array") /\ IsType(Here, q, "Array")
  <2>1. heap[p].type = "Array" /\ heap[q].type = "Array"
    BY <1>4, <1>11 DEF IsType
  <2>2. MergedInto(s, d, at, src, path, overwrite)
    BY <1>8, <1>9, <1>11, <2>1, ArraysMerge
  <2> QED
    BY <1>2, <1>5, <1>6, <1>8, <2>1, <2>2, MergePromised DEF d, at, Collection
<1>12. CASE /\ ~(IsType(Here, p, "Element") /\ IsType(Here, q, "Element"))
            /\ ~(IsType(Here, p, "Array") /\ IsType(Here, q, "Array"))
  <2>1. s = Here
    BY <1>9, <1>12
  <2> QED
    BY <1>2, <1>5, <2>1, NothingMerged
<1> QED
  BY <1>10, <1>11, <1>12
-----------------------------------------------------------------------------
(***************************************************************************)
(* The tree of elements implements the forest.                             *)
(***************************************************************************)
\* What a document is at first: an element without children.
LEMMA FirstTree ==
  ASSUME Init, NEW d \in Docs
  PROVE  Trees[d] = Promise!EmptyTree
<1> DEFINE E == Promise!Leaf(docs[d])
           L == Layout(heap, d)
<1>1. /\ docs[d] \in DOMAIN heap /\ DOMAIN heap[docs[d]].children = {}
      /\ NodeOf(heap[docs[d]]) = Promise!ElementNode
  <2>1. PICK p \in Roots(docs) : p = docs[d]
    BY BehindDoc
  <2>2. p \in DOMAIN heap /\ heap[p] = Property("Element", 0, p)
    BY DEF Init
  <2>3. heap[p].type = "Element" /\ heap[p].value = 0 /\ heap[p].children = <<>>
    BY <2>2 DEF Property
  <2>4. DOMAIN heap[p].children = {}
    BY <2>3
  <2> QED
    BY <2>1, <2>2, <2>3, <2>4 DEF NodeOf, Promise!ElementNode, Promise!Node
<1>2. PathMap(E) /\ E[<<>>] = docs[d] /\ \A r : r \in DOMAIN E <=> r = <<>>
  BY LeafFacts
<1>3. \A q \in Seq(Keys), key \in Keys : Append(q, key) # <<>>
  BY AppendProperties
<1> HIDE DEF E, L
<1>4. Lays(heap, docs[d], E)
  <2>1. PICK p : p = docs[d]
    OBVIOUS
  <2>2. <<>> \in DOMAIN E /\ \A q \in DOMAIN E : E[q] = p
    BY <1>2, <2>1
  <2>3. \A q \in Seq(Keys), key \in Keys : Append(q, key) \notin DOMAIN E
    <3> SUFFICES ASSUME NEW q \in Seq(Keys), NEW key \in Keys
                 PROVE  Append(q, key) \notin DOMAIN E
      OBVIOUS
    <3>1. PICK r : r = Append(q, key)
      OBVIOUS
    <3>2. r # <<>>
      BY <1>3, <3>1
    <3> QED
      BY <1>2, <3>1, <3>2
  <2>4. Lays(heap, p, E)
    BY <1>1, <1>2, <2>1, <2>2, <2>3 DEF Lays
  <2> QED
    BY <2>1, <2>4
<1>5. Sound(heap, Roots(docs)) /\ IsTree(heap)
  BY InitConsistent DEF Consistent, ConsistentState
<1>6. Lays(heap, docs[d], L) /\ Trees[d] = Picture(heap, L)
  BY <1>5, LayoutLays, TreeShown DEF Trees, L
<1>7. L = E
  BY <1>4, <1>6, LaysOnce
<1>8. Picture(heap, E) = Promise!Leaf(Promise!ElementNode)
  <2>1. DOMAIN E = {<<>>}
    BY <1>2
  <2>2. Picture(heap, E) = [q \in {<<>>} |-> NodeOf(heap[E[q]])]
    BY <2>1 DEF Picture
  <2>3. Picture(heap, E) = [q \in {<<>>} |-> Promise!ElementNode]
    BY <1>1, <1>2, <2>2
  <2> QED
    BY <2>3 DEF Promise!Leaf
<1> QED
  BY <1>6, <1>7, <1>8 DEF Promise!EmptyTree

\* Documents are empty at first, and no wrapper leads anywhere.
LEMMA InitPromised ==
  ASSUME Init
  PROVE  Plain(heap) /\ NothingLeads /\ Promise!Init
<1>1. Plain(heap)
  BY DEF Init, Property, Plain
<1>2. Held = {}
  BY DEF Init, Held
<1>3. NothingLeads
  BY <1>2 DEF NothingLeads
<1>4. Trees = [d \in Docs |-> Promise!EmptyTree]
  <2>1. Trees = [d \in Docs |-> Trees[d]]
    BY DEF Trees
  <2> QED
    BY <2>1, FirstTree
<1>5. Addresses = [w \in Wrappers |-> Nowhere]
  BY <1>2 DEF Addresses
<1> QED
  BY <1>1, <1>3, <1>4, <1>5 DEF Promise!Init

\* Every call does what the forest promises of it.
LEMMA NextFulfils ==
  ASSUME Careful \subseteq ClientRules, Described, [Next]_vars
  PROVE  Fulfils
<1>1. ASSUME NEW d \in Docs, CallCreate(d)
      PROVE  Fulfils
  BY <1>1, CreateFulfils
<1>2. ASSUME NEW d \in Docs, NEW src \in Docs, CallLoad(d, src)
      PROVE  Fulfils
  BY <1>2, LoadFulfils
<1>3. ASSUME NEW w \in Wrappers, NEW d \in Docs, NEW path \in Paths, CallTake(w, d, path)
      PROVE  Fulfils
  BY <1>3, TakeFulfils
<1>4. ASSUME NEW w \in Held, NEW name \in Names, NEW leaf \in Leaves,
             NEW pathToElements \in BOOLEAN, CallAdd(w, name, leaf, pathToElements)
      PROVE  Fulfils
  BY <1>4, AddFulfils
<1>5. ASSUME NEW w \in Held, NEW leaf \in Leaves, NEW order \in Orders, CallAssign(w, leaf, order)
      PROVE  Fulfils
  BY <1>5, AssignFulfils
<1>6. ASSUME NEW w \in Held, NEW d \in Docs, NEW path \in Paths
      PROVE  /\ \A order : ~CallAssignElement(w, d, path, order)
             /\ ~CallAssignProperty(w, d, path)
  BY DEF CallAssignElement, CallAssignProperty, Rule, Careful, AllRules
<1>7. ASSUME NEW w \in Held, NEW d \in Docs, NEW path \in Paths, NEW overwrite \in BOOLEAN,
             NEW deep \in BOOLEAN, NEW order \in Orders,
             CallMerge(w, d, path, overwrite, deep, order)
      PROVE  Fulfils
  BY <1>7, MergeFulfils
<1>8. CASE UNCHANGED vars
  <2>1. heap' = heap /\ wrapper' = wrapper
    BY <1>8 DEF vars
  <2>2. Plain(heap)'
    BY <2>1 DEF Described, Plain
  <2>3. NothingLeads'
    BY <2>1 DEF Described, NothingLeads, Held, Links
  <2>4. Trees' = Trees /\ Addresses' = Addresses
    BY <2>1 DEF Trees, Addresses, Held, Links
  <2> QED
    BY <2>2, <2>3, <2>4 DEF Fulfils, Promise!vars
<1> QED
  BY <1>1, <1>2, <1>3, <1>4, <1>5, <1>6, <1>7, <1>8 DEF Next

\* Between two calls, elements have no value of their own, children have keys that come
\* up in paths or names, and a wrapper of nothing never leads anywhere again.
THEOREM AlwaysDescribed ==
  ASSUME Careful \subseteq ClientRules
  PROVE  Spec => []Described
<1>1. Init => Described
  BY InitConsistent, InitPromised DEF Described, Init, WrappersOnPath, Held
<1>2. Described /\ [Next]_vars => Described'
  BY NextConsistent, NextOnPath, NextFulfils DEF Described, Fulfils
<1> QED
  BY <1>1, <1>2, PTL DEF Spec

\* To a program that observes its rules, the properties that elements hold, the pointers
\* back to their parents and the wrappers that are resolved late are a forest of trees
\* and addresses in it: no call changes another document than that of its wrapper, nor
\* that one anywhere but at the path of the wrapper, however long ago that was taken.
THEOREM ImplementsForest ==
  ASSUME Careful \subseteq ClientRules
  PROVE  Spec => KeepsPromise
<1>1. Init => Promise!Init
  BY InitPromised
<1>2. Described /\ [Next]_vars => [Promise!Next]_(Promise!vars)
  BY NextFulfils DEF Fulfils
<1>3. Spec => []Described
  BY AlwaysDescribed
<1> QED
  BY <1>1, <1>2, <1>3, PTL DEF Spec, KeepsPromise, Promise!Spec
-----------------------------------------------------------------------------
(***************************************************************************)
(* A merge that does nothing is a step of the forest, too.  But deep       *)
(* merges do what they are for, between any two elements or arrays that    *)
(* may be merged: this is what MergeOverlays says of them.                 *)
(***************************************************************************)
DeepMergeOverlays ==
  \A pq \in Mergeable, overwrite \in BOOLEAN, order \in Orders :
    TreeOf(Merged(pq, overwrite, TRUE, order).heap, pq[1])
      = Promise!Overlay(TreeOf(heap, pq[1]), TreeOf(heap, pq[2]), overwrite)

\* What is put into a tree is there.
LEMMA SubtreeOfGraft ==
  ASSUME NEW T, PathMap(T), NEW at \in Seq(Keys), NEW F, PathMap(F)
  PROVE  Promise!Subtree(Promise!Graft(T, at, F), at) = F
<1> DEFINE G == Promise!Graft(T, at, F)
           S == Promise!Subtree(G, at)
<1>1. IsGraft(G, T, at, F)
  BY GraftFacts
<1> HIDE DEF G
<1>2. /\ PathMap(S)
      /\ \A r \in Seq(Keys) : r \in DOMAIN S <=> at \o r \in DOMAIN G
      /\ \A r \in DOMAIN S : S[r] = G[at \o r]
  BY <1>1, SubtreeFacts DEF IsGraft
<1> HIDE DEF S
<1>3. \A r \in Seq(Keys) : (r \in DOMAIN S <=> r \in DOMAIN F) /\ (r \in DOMAIN S => S[r] = F[r])
  BY <1>1, <1>2 DEF IsGraft
<1>4. S = F
  BY <1>2, <1>3, SamePathMap
<1> QED
  BY <1>4 DEF S, G

\* What a merge has made of its target, as a tree of its own.
LEMMA MergedTree ==
  ASSUME Described, NEW d, NEW at, NEW p, NEW src, NEW path, NEW q, NEW T, NEW S,
         MergeOf(d, at, p, src, path, q, T, S), NEW overwrite,
         NEW s, MergedInto(s, d, at, src, path, overwrite)
  PROVE  TreeOf(s.heap, p) = Promise!Overlay(TreeOf(heap, p), TreeOf(heap, q), overwrite)
<1> DEFINE D == Layout(heap, d)
           L == Layout(heap, src)
           O == Promise!Overlay(Promise!Subtree(Trees[d], at), Promise!Subtree(Trees[src], path), overwrite)
<1>1. /\ d \in Docs /\ at \in DOMAIN D /\ p = D[at]
      /\ src \in Docs /\ path \in DOMAIN L /\ q = L[path]
  BY DEF MergeOf
<1>2. p = docs[d] \o at /\ at \in Seq(Keys) /\ PathMap(Trees[d])
  <2>1. p = docs[d] \o at
    BY <1>1 DEF Layout
  <2> QED
    BY <1>1, <2>1, PlaceTree
<1>3. /\ Shows(Here, d, D, Trees[d]) /\ Shows(Here, src, L, Trees[src]) /\ Here.heap = heap
  BY <1>1, HereShown, HereFacts DEF Described
<1> HIDE DEF D, L
<1>4. TreeOf(heap, p) = Promise!Subtree(Trees[d], at)
  BY <1>1, <1>3, TreeBelow
<1>5. TreeOf(heap, q) = Promise!Subtree(Trees[src], path)
  BY <1>1, <1>3, TreeBelow
<1>6. PICK N : Shows(s, d, N, Promise!Graft(Trees[d], at, O)) /\ at \in DOMAIN N /\ N[at] = p
  BY <1>2 DEF MergedInto, Turned, Standing
<1> HIDE DEF O
<1>7. TreeOf(s.heap, p) = Promise!Subtree(Promise!Graft(Trees[d], at, O), at)
  BY <1>1, <1>6, TreeBelow
<1>8. PathMap(O)
  BY DEF MergedInto, O
<1>9. TreeOf(s.heap, p) = O
  BY <1>2, <1>7, <1>8, SubtreeOfGraft
<1> QED
  BY <1>4, <1>5, <1>9 DEF O

\* What a path has found is at that path of its document.
LEMMA FoundPlace ==
  ASSUME Described, NEW p \in Found
  PROVE  \E d \in Docs, path \in Paths : path \in DOMAIN Layout(heap, d) /\ p = Layout(heap, d)[path]
<1>1. PICK d \in Docs, path \in Paths : p = Resolved(Find(d, path)) /\ p # Null
  BY DEF Found
<1>2. path \in DOMAIN Layout(heap, d) /\ Layout(heap, d)[path] = p
  BY <1>1, SourcePlace
<1> QED
  BY <1>2

\* A deep merge, of whatever is in any two documents, makes of its target the tree that
\* had the target's and has the source's over it, in every order of the hash table: it
\* neither stops before it is done nor loses what it should keep.
THEOREM DeepMergesOverlay ==
  ASSUME Careful \subseteq ClientRules
  PROVE  Spec => []DeepMergeOverlays
<1>1. ASSUME Described
      PROVE  DeepMergeOverlays
  <2> SUFFICES ASSUME NEW pq \in Mergeable, NEW overwrite \in BOOLEAN, NEW order \in Orders
               PROVE  TreeOf(Merged(pq, overwrite, TRUE, order).heap, pq[1])
                        = Promise!Overlay(TreeOf(heap, pq[1]), TreeOf(heap, pq[2]), overwrite)
    BY DEF DeepMergeOverlays
  <2> DEFINE p == pq[1]
             q == pq[2]
             T == Reach(heap, {p})
             S == Reach(heap, {q})
             s == WrapperMerge(Here, p, q, overwrite, TRUE, order)
  <2>1. /\ p \in Found /\ q \in Found /\ T \cap S = {}
        /\ Collection(heap[p].type) /\ heap[p].type = heap[q].type
    BY DEF Mergeable, Apart, Rule, Careful, AllRules
  <2> HIDE DEF p, q
  <2>2. PICK d \in Docs, at \in Paths : at \in DOMAIN Layout(heap, d) /\ p = Layout(heap, d)[at]
    BY <1>1, <2>1, FoundPlace
  <2>3. PICK src \in Docs, path \in Paths : path \in DOMAIN Layout(heap, src) /\ q = Layout(heap, src)[path]
    BY <1>1, <2>1, FoundPlace
  <2>4. p \in DOMAIN heap /\ q \in DOMAIN heap
    BY <1>1, <2>2, <2>3, PlaceTree
  <2> HIDE DEF T, S, s
  <2>5. SetOut(Here, T, S) /\ p \in T /\ q \in S
    BY <1>1, <2>1, <2>4, ApartSetOut DEF Described, T, S
  <2>6. MergeOf(d, at, p, src, path, q, T, S)
    BY <2>2, <2>3, <2>5 DEF MergeOf
  <2>7. Here.heap = heap /\ p \notin {Null, Gone} /\ q \notin {Null, Gone}
    BY <1>1, <2>4, HereFacts, Pointer DEF Described, Good, Sound
  <2>8. s = IF heap[p].type = "Element" /\ heap[q].type = "Element"
              THEN Merge(Here, p, q, overwrite, TRUE, order)
            ELSE IF heap[p].type = "Array" /\ heap[q].type = "Array"
              THEN MergeArray(Here, p, q, overwrite)
            ELSE Here
    BY <2>7 DEF s, WrapperMerge, IsType
  <2>9. MergedInto(s, d, at, src, path, overwrite)
    <3>1. CASE heap[p].type = "Element"
      BY <1>1, <2>1, <2>6, <2>8, <3>1, ElementsMerge
    <3>2. CASE heap[p].type = "Array"
      BY <1>1, <2>1, <2>6, <2>8, <3>2, ArraysMerge
    <3> QED
      BY <2>1, <3>1, <3>2 DEF Collection
  <2>10. TreeOf(s.heap, p) = Promise!Overlay(TreeOf(heap, p), TreeOf(heap, q), overwrite)
    BY <1>1, <2>6, <2>9, MergedTree
  <2> QED
    BY <2>10 DEF s, p, q, Merged
<1>2. Spec => []Described
  BY AlwaysDescribed
<1> QED
  BY <1>1, <1>2, PTL
=============================================================================
