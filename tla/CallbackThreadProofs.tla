------------------------ MODULE CallbackThreadProofs ------------------------
(***************************************************************************)
(* Theorems about the callback thread and what it works on: the dictionary *)
(* that is iterated while a user thread inserts, for every set of keys,    *)
(* and the clock, for every length of a second and of the system time.     *)
(***************************************************************************)
EXTENDS CallbackThread, TLAPS, FiniteSetTheorems, SequenceTheorems

-----------------------------------------------------------------------------
(***************************************************************************)
(* The tree and the iterator.                                              *)
(***************************************************************************)

Over(k, l) == l = NULL \/ l < k
Under(k, h) == h = NULL \/ k < h

\* Every node has the bounds lo and hi of the keys that may be below it: the
\* nearest node to whose right, and to whose left, it is.
Bounded(lo, hi) ==
    /\ lo \in [Key -> Pointer] /\ hi \in [Key -> Pointer]
    /\ root # NULL => lo[root] = NULL /\ hi[root] = NULL /\ parent[root] = NULL
    /\ root = NULL => Present = {}
    /\ \A n \in Present : Over(n, lo[n]) /\ Under(n, hi[n])
    /\ \A n \in Present : lo[n] # NULL => lo[n] \in Present /\ right[lo[n]] # NULL
    /\ \A n \in Present : hi[n] # NULL => hi[n] \in Present /\ left[hi[n]] # NULL

Linked(lo, hi) ==
    /\ \A p \in Key : left[p] # NULL =>
        p \in Present /\ lo[left[p]] = lo[p] /\ hi[left[p]] = p /\ parent[left[p]] = p
    /\ \A p \in Key : right[p] # NULL =>
        p \in Present /\ lo[right[p]] = p /\ hi[right[p]] = hi[p] /\ parent[right[p]] = p

\* A node without a left (right) child is the next one after lo (before hi) in the whole tree.
Dense(lo, hi) ==
    /\ \A n, k \in Present : left[n] = NULL /\ k < n => lo[n] # NULL /\ k <= lo[n]
    /\ \A n, k \in Present : right[n] = NULL /\ n < k => hi[n] # NULL /\ hi[n] <= k

Tree(lo, hi) == Bounded(lo, hi) /\ Linked(lo, hi) /\ Dense(lo, hi)

\* The key that is being inserted belongs where insert is.
Inserts(lo, hi) ==
    inserting.step # "none" =>
        /\ inserting.key \in Key
        /\ inserting.at # NULL =>
            /\ inserting.at \in Present /\ inserting.at # inserting.key
            /\ Over(inserting.key, lo[inserting.at]) /\ Under(inserting.key, hi[inserting.at])
        /\ inserting.step = "new" => Child(inserting.at, inserting.key) = NULL

\* What the iteration has returned, by the bounds of the node it is at.
Iterates(lo, hi) ==
    LET n == it.node IN
    /\ owed \subseteq Present
    /\ it.step \in {"leftmost", "at", "climb"} => n \in Present
    /\ it.step = "leftmost" =>
        /\ \A k \in owed : lo[n] # NULL /\ k <= lo[n] => k \in visited
        /\ \A k \in visited : lo[n] # NULL /\ k <= lo[n]
    /\ it.step = "at" =>
        /\ \A k \in owed : k < n => k \in visited
        /\ \A k \in visited : k < n
    /\ it.step = "climb" =>
        /\ it.base = parent[n]
        /\ \A k \in owed : Under(k, hi[n]) => k \in visited
        /\ \A k \in visited : Under(k, hi[n])
    /\ it.step = "end" => owed \subseteq visited

DictionaryInv ==
    /\ DictionaryTypeOK
    /\ \E lo, hi : Tree(lo, hi) /\ Inserts(lo, hi) /\ Iterates(lo, hi)

LEMMA InitDictionary == DictionaryInit => DictionaryInv
<1> SUFFICES ASSUME DictionaryInit PROVE DictionaryInv
  OBVIOUS
<1> USE DEF DictionaryInit
<1>1. Present = {}
  BY DictionaryAssumption DEF Present
<1>2. DictionaryTypeOK
  BY DEF DictionaryTypeOK, Pointer, NotInserting, NotIterating
<1> DEFINE none == [k \in Key |-> NULL]
<1>3. none \in [Key -> Pointer]
  BY DEF Pointer
<1>4. Tree(none, none)
  BY <1>1, <1>3 DEF Tree, Bounded, Linked, Dense
<1>5. Inserts(none, none) /\ Iterates(none, none)
  BY DEF Inserts, Iterates, NotInserting, NotIterating
<1> QED  BY <1>2, <1>4, <1>5 DEF DictionaryInv

\* The tree stays as it is.
SameTree == UNCHANGED <<root, left, right, parent>>

LEMMA SameTreeKeeps ==
    ASSUME SameTree, NEW lo, NEW hi
    PROVE  Present' = Present /\ (Tree(lo, hi) => Tree(lo, hi)')
BY DEF SameTree, Present, Tree, Bounded, Linked, Dense

\* The nodes of the tree are keys.
LEMMA PresentKeys == Present \subseteq Key /\ Key \subseteq Nat /\ NULL \notin Key
BY DictionaryAssumption DEF Present

LEMMA AddKeeps ==
    ASSUME DictionaryInv, NEW key \in Key, dictionary_add(key)
    PROVE  DictionaryInv'
<1>1. PICK lo, hi : Tree(lo, hi) /\ Inserts(lo, hi) /\ Iterates(lo, hi)
  BY DEF DictionaryInv
<1>2. Present' = Present /\ Tree(lo, hi)'
  BY <1>1, SameTreeKeeps DEF dictionary_add, SameTree
<1>3. Inserts(lo, hi)'
  BY DEF dictionary_add, Inserts
<1>4. Iterates(lo, hi)'
  BY <1>1, <1>2 DEF dictionary_add, Iterates
<1>5. DictionaryTypeOK'
  BY DEF DictionaryInv, DictionaryTypeOK, dictionary_add, Pointer
<1> QED  BY <1>2, <1>3, <1>4, <1>5 DEF DictionaryInv

LEMMA GoDownKeeps ==
    ASSUME DictionaryInv, insert
    PROVE  DictionaryInv'
<1>1. PICK lo, hi : Tree(lo, hi) /\ Inserts(lo, hi) /\ Iterates(lo, hi)
  BY DEF DictionaryInv
<1>2. Present' = Present /\ Tree(lo, hi)'
  BY <1>1, SameTreeKeeps DEF insert, SameTree
<1>3. Iterates(lo, hi)'
  BY <1>1, <1>2 DEF insert, Iterates
<1>4. /\ inserting \in [step : {"none", "read", "new"}, key : Pointer, at : Pointer]
      /\ root \in Pointer /\ left \in [Key -> Pointer] /\ right \in [Key -> Pointer]
  BY DEF DictionaryInv, DictionaryTypeOK
<1>5. PICK at, key : at = inserting.at /\ key = inserting.key
  OBVIOUS
<1>6. /\ inserting.step = "read" /\ key \in Key /\ at \in Pointer
      /\ at # NULL => at \in Present /\ at # key /\ Over(key, lo[at]) /\ Under(key, hi[at])
  BY <1>1, <1>4, <1>5 DEF insert, Inserts
<1>7. Child(at, key)' = Child(at, key)
  BY DEF insert, Child
<1>8. PICK child \in Pointer : child = Child(at, key)
  BY <1>4, <1>6 DEF Child, Pointer
<1>9. inserting' = CASE child = NULL -> [inserting EXCEPT !.step = "new"]
                     [] child = key -> NotInserting
                     [] OTHER -> [inserting EXCEPT !.at = child]
  BY <1>5, <1>8, Zenon DEF insert
<1>10. key # NULL
  BY <1>6, PresentKeys
<1>11. CASE child = NULL
  <2>1. inserting' = [inserting EXCEPT !.step = "new"]
    BY <1>9, <1>10, <1>11
  <2>2. /\ inserting'.step = "new" /\ inserting'.key = key /\ inserting'.at = at
        /\ inserting' \in [step : {"none", "read", "new"}, key : Pointer, at : Pointer]
    BY <1>4, <1>5, <2>1
  <2>3. Child(inserting.at, inserting.key)' = NULL
    BY <1>7, <1>8, <1>11, <2>2 DEF Child
  <2>4. Inserts(lo, hi)'
    BY <1>2, <1>6, <2>2, <2>3 DEF Inserts
  <2>5. DictionaryTypeOK'
    BY <2>2 DEF DictionaryInv, DictionaryTypeOK, insert
  <2> QED  BY <1>2, <1>3, <2>4, <2>5 DEF DictionaryInv
<1>12. CASE child = key
  <2>1. inserting' = NotInserting
    BY <1>9, <1>10, <1>12
  <2>2. Inserts(lo, hi)'
    BY <2>1 DEF Inserts, NotInserting
  <2>3. DictionaryTypeOK'
    BY <2>1 DEF DictionaryInv, DictionaryTypeOK, insert, NotInserting, Pointer
  <2> QED  BY <1>2, <1>3, <2>2, <2>3 DEF DictionaryInv
<1>13. CASE child # NULL /\ child # key
  <2>1. inserting' = [inserting EXCEPT !.at = child]
    BY <1>9, <1>13
  <2>2. /\ inserting'.step = "read" /\ inserting'.key = key /\ inserting'.at = child
        /\ inserting' \in [step : {"none", "read", "new"}, key : Pointer, at : Pointer]
    BY <1>4, <1>5, <1>6, <1>8, <2>1
  <2>3. child \in Present
    BY <1>6, <1>8, <1>13, PresentKeys DEF Child, Present, Pointer
  <2>4. Over(key, lo[child]) /\ Under(key, hi[child])
    <3>1. CASE at = NULL
      BY <1>1, <1>8, <1>13, <3>1 DEF Child, Tree, Bounded, Linked, Over, Under
    <3>2. CASE at # NULL /\ key < at
      BY <1>1, <1>6, <1>8, <1>13, <3>2, PresentKeys DEF Child, Tree, Bounded, Linked, Over, Under
    <3>3. CASE at # NULL /\ at < key
      BY <1>1, <1>6, <1>8, <1>13, <3>3, PresentKeys DEF Child, Tree, Bounded, Linked, Over, Under
    <3>4. at # NULL => at \in Nat /\ key \in Nat /\ at # key
      BY <1>6, PresentKeys
    <3>5. at # NULL => key < at \/ at < key
      BY <3>4
    <3> QED  BY <3>1, <3>2, <3>3, <3>5
  <2>5. Inserts(lo, hi)'
    BY <1>2, <1>6, <1>13, <2>2, <2>3, <2>4 DEF Inserts
  <2>6. DictionaryTypeOK'
    BY <2>2 DEF DictionaryInv, DictionaryTypeOK, insert
  <2> QED  BY <1>2, <1>3, <2>5, <2>6 DEF DictionaryInv
<1> QED  BY <1>11, <1>12, <1>13

\* A key that is not in the tree has no children.
LEMMA NoChildren ==
    ASSUME NEW lo, NEW hi, Tree(lo, hi), NEW z \in Key, z \notin Present
    PROVE  left[z] = NULL /\ right[z] = NULL
BY DEF Tree, Linked

\* The pointers of a node, and the node itself, are in the tree.
LEMMA ChildPresent ==
    ASSUME DictionaryTypeOK, NEW p \in Key
    PROVE  /\ left[p] # NULL => left[p] \in Present
           /\ right[p] # NULL => right[p] \in Present
           /\ root # NULL => root \in Present
BY DEF DictionaryTypeOK, Pointer, Present

\* node_new stores the first node.
LEMMA NewRoot ==
    ASSUME NEW lo, NEW hi, Tree(lo, hi), DictionaryTypeOK,
           NEW z \in Key, root = NULL, root' = z,
           left' = left, right' = right, parent' = [parent EXCEPT ![z] = NULL]
    PROVE  /\ Present \subseteq Present' /\ z \notin Present
           /\ \E l, h : Tree(l, h)' /\ \A n \in Present : l[n] = lo[n] /\ h[n] = hi[n]
<1> DEFINE none == [k \in Key |-> NULL]
<1>1. Present = {} /\ \A k \in Key : left[k] = NULL /\ right[k] = NULL
  BY NoChildren DEF Tree, Bounded
<1>2. Present' = {z}
  BY <1>1, PresentKeys DEF Present
<1>3. parent'[z] = NULL
  BY DEF DictionaryTypeOK
<1>4. none \in [Key -> Pointer] /\ \A k \in Key : none[k] = NULL
  BY DEF Pointer
<1> HIDE DEF none
<1>5. Bounded(none, none)'
  <2>1. root' = z /\ none[z] = NULL
    BY <1>4
  <2>2. z # NULL
    BY PresentKeys
  <2> QED  BY <1>2, <1>3, <1>4, <2>1, <2>2 DEF Bounded, Over, Under
<1>6. Linked(none, none)' /\ Dense(none, none)'
  BY <1>1, <1>2, PresentKeys DEF Linked, Dense
<1> QED  BY <1>1, <1>5, <1>6 DEF Tree

\* node_new stores a node to the left of p.
StoresLeft(z, p) ==
    /\ root' = root /\ right' = right
    /\ left' = [left EXCEPT ![p] = z] /\ parent' = [parent EXCEPT ![z] = p]

LEMMA NewLeft ==
    ASSUME NEW lo, NEW hi, Tree(lo, hi), DictionaryTypeOK,
           NEW z \in Key, NEW p \in Present, z < p, left[p] = NULL, Over(z, lo[p]),
           StoresLeft(z, p)
    PROVE  /\ Present \subseteq Present' /\ z \notin Present
           /\ \E l, h : Tree(l, h)' /\ \A n \in Present : l[n] = lo[n] /\ h[n] = hi[n]
<1> DEFINE l == [lo EXCEPT ![z] = lo[p]]
           h == [hi EXCEPT ![z] = p]
<1> USE PresentKeys DEF StoresLeft
<1>1. /\ lo \in [Key -> Pointer] /\ hi \in [Key -> Pointer]
      /\ left \in [Key -> Pointer] /\ right \in [Key -> Pointer] /\ parent \in [Key -> Pointer]
      /\ p \in Key
  BY DEF Tree, Bounded, DictionaryTypeOK
<1>2. z \notin Present
  <2>1. lo[p] # NULL => lo[p] \in Nat /\ lo[p] < z
    BY <1>1 DEF Over, Pointer
  <2> QED  BY <2>1 DEF Tree, Dense
<1>3. left[z] = NULL /\ right[z] = NULL /\ z # p /\ z # NULL
  BY <1>2, NoChildren
<1>4. /\ \A n \in Key : n # z => l[n] = lo[n] /\ h[n] = hi[n] /\ parent'[n] = parent[n]
      /\ l[z] = lo[p] /\ h[z] = p /\ parent'[z] = p
      /\ \A n \in Key : n # p => left'[n] = left[n]
      /\ left'[p] = z
      /\ l \in [Key -> Pointer] /\ h \in [Key -> Pointer]
  BY <1>1 DEF Pointer
<1> HIDE DEF l, h
<1>5. Present' = Present \cup {z}
  <2>1. \A k \in Key : k \in Present' <=> k = root \/ \E q \in Key : k \in {left'[q], right[q]}
    BY DEF Present
  <2>2. z \in Present'
    BY <1>1, <1>4, <2>1
  <2>3. \A k \in Present : k \in Present'
    <3> SUFFICES ASSUME NEW k \in Present PROVE k \in Present'
      OBVIOUS
    <3>1. k \in Key /\ (k = root \/ \E q \in Key : k \in {left[q], right[q]})
      BY DEF Present
    <3>2. CASE k = root
      BY <2>1, <3>1, <3>2
    <3>3. ASSUME NEW q \in Key, k \in {left[q], right[q]} PROVE k \in Present'
      <4>1. k = left[q] => q # p
        OBVIOUS
      <4>2. k \in {left'[q], right[q]}
        BY <1>4, <3>3, <4>1
      <4> QED  BY <2>1, <3>1, <4>2
    <3> QED  BY <3>1, <3>2, <3>3
  <2>4. \A k \in Present' : k \in Present \/ k = z
    <3> SUFFICES ASSUME NEW k \in Present', k # z PROVE k \in Present
      OBVIOUS
    <3>1. k \in Key /\ (k = root \/ \E q \in Key : k \in {left'[q], right[q]})
      BY <2>1 DEF Present
    <3>2. ASSUME NEW q \in Key, k \in {left'[q], right[q]} PROVE k \in {left[q], right[q]}
      BY <1>4, <3>2
    <3> QED  BY <3>1, <3>2 DEF Present
  <2> QED  BY <2>2, <2>3, <2>4
<1>6. Bounded(l, h)'
  <2>1. root # NULL => root \in Key /\ root # z /\ l[root] = NULL /\ h[root] = NULL /\ parent'[root] = NULL
    BY <1>2, <1>4, ChildPresent DEF Tree, Bounded
  <2>2. root # NULL
    BY DEF Tree, Bounded
  <2>3. \A n \in Present : Over(n, l[n]) /\ Under(n, h[n])
    BY <1>2, <1>4 DEF Tree, Bounded
  <2>4. Over(z, l[z]) /\ Under(z, h[z])
    BY <1>4 DEF Under
  <2>5. \A n \in Present : l[n] # NULL => l[n] \in Present /\ right[l[n]] # NULL
    BY <1>2, <1>4 DEF Tree, Bounded
  <2>6. l[z] # NULL => l[z] \in Present /\ right[l[z]] # NULL
    BY <1>2, <1>4 DEF Tree, Bounded
  <2>7. \A n \in Present : h[n] # NULL => h[n] \in Present /\ left'[h[n]] # NULL
    BY <1>2, <1>3, <1>4 DEF Tree, Bounded
  <2>8. h[z] \in Present /\ left'[h[z]] # NULL
    BY <1>3, <1>4
  <2> QED  BY <1>4, <1>5, <2>1, <2>2, <2>3, <2>4, <2>5, <2>6, <2>7, <2>8 DEF Bounded
<1>7. Linked(l, h)'
  <2>1. ASSUME NEW q \in Key, left'[q] # NULL
        PROVE  q \in Present' /\ l[left'[q]] = l[q] /\ h[left'[q]] = q /\ parent'[left'[q]] = q
    <3>1. CASE q = p
      BY <1>2, <1>4, <1>5, <3>1
    <3>2. CASE q # p
      <4>1. left[q] # NULL /\ left'[q] = left[q] /\ q # z /\ left[q] # z
        BY <1>2, <1>3, <1>4, <2>1, <3>2, ChildPresent
      <4>2. q \in Present /\ lo[left[q]] = lo[q] /\ hi[left[q]] = q /\ parent[left[q]] = q
        BY <4>1 DEF Tree, Linked
      <4>3. left[q] \in Key
        BY <4>1, ChildPresent
      <4>4. PICK c \in Key : c = left[q] /\ c = left'[q] /\ c # z
        BY <4>1, <4>3
      <4>5. l[c] = lo[c] /\ h[c] = hi[c] /\ parent'[c] = parent[c] /\ l[q] = lo[q]
        BY <1>4, <4>1, <4>4
      <4> QED  BY <1>5, <4>2, <4>4, <4>5
    <3> QED  BY <3>1, <3>2
  <2>2. ASSUME NEW q \in Key, right[q] # NULL
        PROVE  q \in Present' /\ l[right[q]] = q /\ h[right[q]] = h[q] /\ parent'[right[q]] = q
    <3>1. q # z /\ right[q] # z /\ right[q] \in Key
      BY <1>2, <1>3, <2>2, ChildPresent
    <3>2. q \in Present /\ lo[right[q]] = q /\ hi[right[q]] = hi[q] /\ parent[right[q]] = q
      BY <2>2 DEF Tree, Linked
    <3> QED  BY <1>4, <1>5, <3>1, <3>2
  <2> QED  BY <2>1, <2>2 DEF Linked
<1>8. Dense(l, h)'
  <2>1. \A n, k \in Present : left[n] = NULL /\ k < n => lo[n] # NULL /\ k <= lo[n]
    BY DEF Tree, Dense
  <2>2. \A n, k \in Present : right[n] = NULL /\ n < k => hi[n] # NULL /\ hi[n] <= k
    BY DEF Tree, Dense
  <2>3. \A n \in Present : /\ lo[n] # NULL => lo[n] \in Nat /\ lo[n] < n
                           /\ hi[n] # NULL => hi[n] \in Nat /\ n < hi[n]
    BY <1>1 DEF Tree, Bounded, Over, Under, Pointer
  <2>4. lo[p] # NULL => lo[p] < z
    BY DEF Over
  <2>5. ASSUME NEW n \in Present', NEW k \in Present', left'[n] = NULL, k < n
        PROVE  l[n] # NULL /\ k <= l[n]
    <3>1. CASE n = z
      BY <1>2, <1>4, <1>5, <2>1, <2>5, <3>1
    <3>2. CASE n # z
      <4>1. n \in Present /\ n # p /\ left[n] = NULL /\ l[n] = lo[n]
        BY <1>3, <1>4, <1>5, <2>5, <3>2
      <4>2. CASE k \in Present
        BY <2>1, <2>5, <4>1, <4>2
      <4>3. CASE k = z
        <5>1. CASE n < p
          BY <2>1, <2>3, <2>4, <2>5, <4>1, <4>3, <5>1
        <5>2. CASE p < n
          BY <2>1, <2>3, <4>1, <4>3, <5>2
        <5> QED  BY <4>1, <5>1, <5>2
      <4> QED  BY <1>5, <4>2, <4>3
    <3> QED  BY <3>1, <3>2
  <2>6. ASSUME NEW n \in Present', NEW k \in Present', right[n] = NULL, n < k
        PROVE  h[n] # NULL /\ h[n] <= k
    <3>1. CASE n = z
      <4>1. k \in Present /\ z < k
        BY <1>5, <2>6, <3>1
      <4>2. p <= k
        BY <2>1, <2>3, <2>4, <4>1
      <4> QED  BY <1>3, <1>4, <3>1, <4>2
    <3>2. CASE n # z /\ k \in Present
      BY <1>4, <1>5, <2>2, <2>6, <3>2
    <3>3. CASE n # z /\ k = z
      <4>1. n \in Present /\ h[n] = hi[n] /\ n < z /\ n < p
        BY <1>4, <1>5, <2>6, <3>3
      <4>2. lo[p] # NULL /\ n <= lo[p] /\ lo[p] < z
        BY <2>1, <2>4, <4>1
      <4>3. lo[p] \in Present /\ right[lo[p]] # NULL /\ n # lo[p] /\ lo[p] \in Nat
        BY <2>3, <2>6, <4>2 DEF Tree, Bounded
      <4>4. n < lo[p]
        BY <4>1, <4>2, <4>3
      <4>5. hi[n] # NULL /\ hi[n] <= lo[p] /\ hi[n] \in Nat
        BY <2>2, <2>3, <2>6, <4>1, <4>3, <4>4
      <4>6. hi[n] <= z
        BY <4>2, <4>3, <4>5
      <4> QED  BY <3>3, <4>1, <4>5, <4>6
    <3> QED  BY <1>5, <3>1, <3>2, <3>3
  <2> QED  BY <2>5, <2>6 DEF Dense
<1>9. Tree(l, h)'
  BY <1>6, <1>7, <1>8 DEF Tree
<1> QED  BY <1>2, <1>4, <1>5, <1>9

\* node_new stores a node to the right of p.
StoresRight(z, p) ==
    /\ root' = root /\ left' = left
    /\ right' = [right EXCEPT ![p] = z] /\ parent' = [parent EXCEPT ![z] = p]

LEMMA NewRight ==
    ASSUME NEW lo, NEW hi, Tree(lo, hi), DictionaryTypeOK,
           NEW z \in Key, NEW p \in Present, p < z, right[p] = NULL, Under(z, hi[p]),
           StoresRight(z, p)
    PROVE  /\ Present \subseteq Present' /\ z \notin Present
           /\ \E l, h : Tree(l, h)' /\ \A n \in Present : l[n] = lo[n] /\ h[n] = hi[n]
<1> DEFINE h == [hi EXCEPT ![z] = hi[p]]
           l == [lo EXCEPT ![z] = p]
<1> USE PresentKeys DEF StoresRight
<1>1. /\ hi \in [Key -> Pointer] /\ lo \in [Key -> Pointer]
      /\ right \in [Key -> Pointer] /\ left \in [Key -> Pointer] /\ parent \in [Key -> Pointer]
      /\ p \in Key
  BY DEF Tree, Bounded, DictionaryTypeOK
<1>2. z \notin Present
  <2>1. hi[p] # NULL => hi[p] \in Nat /\ z < hi[p]
    BY <1>1 DEF Under, Pointer
  <2> QED  BY <2>1 DEF Tree, Dense
<1>3. right[z] = NULL /\ left[z] = NULL /\ z # p /\ z # NULL
  BY <1>2, NoChildren
<1>4. /\ \A n \in Key : n # z => h[n] = hi[n] /\ l[n] = lo[n] /\ parent'[n] = parent[n]
      /\ h[z] = hi[p] /\ l[z] = p /\ parent'[z] = p
      /\ \A n \in Key : n # p => right'[n] = right[n]
      /\ right'[p] = z
      /\ h \in [Key -> Pointer] /\ l \in [Key -> Pointer]
  BY <1>1 DEF Pointer
<1> HIDE DEF h, l
<1>5. Present' = Present \cup {z}
  <2>1. \A k \in Key : k \in Present' <=> k = root \/ \E q \in Key : k \in {right'[q], left[q]}
    BY DEF Present
  <2>2. z \in Present'
    BY <1>1, <1>4, <2>1
  <2>3. \A k \in Present : k \in Present'
    <3> SUFFICES ASSUME NEW k \in Present PROVE k \in Present'
      OBVIOUS
    <3>1. k \in Key /\ (k = root \/ \E q \in Key : k \in {right[q], left[q]})
      BY DEF Present
    <3>2. CASE k = root
      BY <2>1, <3>1, <3>2
    <3>3. ASSUME NEW q \in Key, k \in {right[q], left[q]} PROVE k \in Present'
      <4>1. k = right[q] => q # p
        OBVIOUS
      <4>2. k \in {right'[q], left[q]}
        BY <1>4, <3>3, <4>1
      <4> QED  BY <2>1, <3>1, <4>2
    <3> QED  BY <3>1, <3>2, <3>3
  <2>4. \A k \in Present' : k \in Present \/ k = z
    <3> SUFFICES ASSUME NEW k \in Present', k # z PROVE k \in Present
      OBVIOUS
    <3>1. k \in Key /\ (k = root \/ \E q \in Key : k \in {right'[q], left[q]})
      BY <2>1 DEF Present
    <3>2. ASSUME NEW q \in Key, k \in {right'[q], left[q]} PROVE k \in {right[q], left[q]}
      BY <1>4, <3>2
    <3> QED  BY <3>1, <3>2 DEF Present
  <2> QED  BY <2>2, <2>3, <2>4
<1>6. Bounded(l, h)'
  <2>1. root # NULL => root \in Key /\ root # z /\ h[root] = NULL /\ l[root] = NULL /\ parent'[root] = NULL
    BY <1>2, <1>4, ChildPresent DEF Tree, Bounded
  <2>2. root # NULL
    BY DEF Tree, Bounded
  <2>3. \A n \in Present : Under(n, h[n]) /\ Over(n, l[n])
    BY <1>2, <1>4 DEF Tree, Bounded
  <2>4. Under(z, h[z]) /\ Over(z, l[z])
    BY <1>4 DEF Over
  <2>5. \A n \in Present : h[n] # NULL => h[n] \in Present /\ left[h[n]] # NULL
    BY <1>2, <1>4 DEF Tree, Bounded
  <2>6. h[z] # NULL => h[z] \in Present /\ left[h[z]] # NULL
    BY <1>2, <1>4 DEF Tree, Bounded
  <2>7. \A n \in Present : l[n] # NULL => l[n] \in Present /\ right'[l[n]] # NULL
    BY <1>2, <1>3, <1>4 DEF Tree, Bounded
  <2>8. l[z] \in Present /\ right'[l[z]] # NULL
    BY <1>3, <1>4
  <2> QED  BY <1>4, <1>5, <2>1, <2>2, <2>3, <2>4, <2>5, <2>6, <2>7, <2>8 DEF Bounded
<1>7. Linked(l, h)'
  <2>1. ASSUME NEW q \in Key, right'[q] # NULL
        PROVE  q \in Present' /\ h[right'[q]] = h[q] /\ l[right'[q]] = q /\ parent'[right'[q]] = q
    <3>1. CASE q = p
      BY <1>2, <1>4, <1>5, <3>1
    <3>2. CASE q # p
      <4>1. right[q] # NULL /\ right'[q] = right[q] /\ q # z /\ right[q] # z
        BY <1>2, <1>3, <1>4, <2>1, <3>2, ChildPresent
      <4>2. q \in Present /\ hi[right[q]] = hi[q] /\ lo[right[q]] = q /\ parent[right[q]] = q
        BY <4>1 DEF Tree, Linked
      <4>3. right[q] \in Key
        BY <4>1, ChildPresent
      <4>4. PICK c \in Key : c = right[q] /\ c = right'[q] /\ c # z
        BY <4>1, <4>3
      <4>5. h[c] = hi[c] /\ l[c] = lo[c] /\ parent'[c] = parent[c] /\ h[q] = hi[q]
        BY <1>4, <4>1, <4>4
      <4> QED  BY <1>5, <4>2, <4>4, <4>5
    <3> QED  BY <3>1, <3>2
  <2>2. ASSUME NEW q \in Key, left[q] # NULL
        PROVE  q \in Present' /\ h[left[q]] = q /\ l[left[q]] = l[q] /\ parent'[left[q]] = q
    <3>1. q # z /\ left[q] # z /\ left[q] \in Key
      BY <1>2, <1>3, <2>2, ChildPresent
    <3>2. q \in Present /\ hi[left[q]] = q /\ lo[left[q]] = lo[q] /\ parent[left[q]] = q
      BY <2>2 DEF Tree, Linked
    <3> QED  BY <1>4, <1>5, <3>1, <3>2
  <2> QED  BY <2>1, <2>2 DEF Linked
<1>8. Dense(l, h)'
  <2>1. \A n, k \in Present : right[n] = NULL /\ n < k => hi[n] # NULL /\ hi[n] <= k
    BY DEF Tree, Dense
  <2>2. \A n, k \in Present : left[n] = NULL /\ k < n => lo[n] # NULL /\ k <= lo[n]
    BY DEF Tree, Dense
  <2>3. \A n \in Present : /\ hi[n] # NULL => hi[n] \in Nat /\ n < hi[n]
                           /\ lo[n] # NULL => lo[n] \in Nat /\ lo[n] < n
    BY <1>1 DEF Tree, Bounded, Under, Over, Pointer
  <2>4. hi[p] # NULL => z < hi[p]
    BY DEF Under
  <2>5. ASSUME NEW n \in Present', NEW k \in Present', right'[n] = NULL, n < k
        PROVE  h[n] # NULL /\ h[n] <= k
    <3>1. CASE n = z
      BY <1>2, <1>4, <1>5, <2>1, <2>5, <3>1
    <3>2. CASE n # z
      <4>1. n \in Present /\ n # p /\ right[n] = NULL /\ h[n] = hi[n]
        BY <1>3, <1>4, <1>5, <2>5, <3>2
      <4>2. CASE k \in Present
        BY <2>1, <2>5, <4>1, <4>2
      <4>3. CASE k = z
        <5>1. CASE p < n
          BY <2>1, <2>3, <2>4, <2>5, <4>1, <4>3, <5>1
        <5>2. CASE n < p
          BY <2>1, <2>3, <4>1, <4>3, <5>2
        <5> QED  BY <4>1, <5>1, <5>2
      <4> QED  BY <1>5, <4>2, <4>3
    <3> QED  BY <3>1, <3>2
  <2>6. ASSUME NEW n \in Present', NEW k \in Present', left[n] = NULL, k < n
        PROVE  l[n] # NULL /\ k <= l[n]
    <3>1. CASE n = z
      <4>1. k \in Present /\ k < z
        BY <1>5, <2>6, <3>1
      <4>2. k <= p
        BY <2>1, <2>3, <2>4, <4>1
      <4> QED  BY <1>3, <1>4, <3>1, <4>2
    <3>2. CASE n # z /\ k \in Present
      BY <1>4, <1>5, <2>2, <2>6, <3>2
    <3>3. CASE n # z /\ k = z
      <4>1. n \in Present /\ l[n] = lo[n] /\ z < n /\ p < n
        BY <1>4, <1>5, <2>6, <3>3
      <4>2. hi[p] # NULL /\ hi[p] <= n /\ z < hi[p]
        BY <2>1, <2>4, <4>1
      <4>3. hi[p] \in Present /\ left[hi[p]] # NULL /\ n # hi[p] /\ hi[p] \in Nat
        BY <2>3, <2>6, <4>2 DEF Tree, Bounded
      <4>4. hi[p] < n
        BY <4>1, <4>2, <4>3
      <4>5. lo[n] # NULL /\ hi[p] <= lo[n] /\ lo[n] \in Nat
        BY <2>2, <2>3, <2>6, <4>1, <4>3, <4>4
      <4>6. z <= lo[n]
        BY <4>2, <4>3, <4>5
      <4> QED  BY <3>3, <4>1, <4>5, <4>6
    <3> QED  BY <1>5, <3>1, <3>2, <3>3
  <2> QED  BY <2>5, <2>6 DEF Dense
<1>9. Tree(l, h)'
  BY <1>6, <1>7, <1>8 DEF Tree
<1> QED  BY <1>2, <1>4, <1>5, <1>9

LEMMA NodeNewKeeps ==
    ASSUME DictionaryInv, node_new
    PROVE  DictionaryInv'
<1>1. PICK lo, hi : Tree(lo, hi) /\ Inserts(lo, hi) /\ Iterates(lo, hi)
  BY DEF DictionaryInv
<1>2. DictionaryTypeOK
  BY DEF DictionaryInv
<1>3. PICK p, z : p = inserting.at /\ z = inserting.key
  OBVIOUS
<1>4. /\ z \in Key /\ z # NULL
      /\ p # NULL => p \in Present /\ p # z /\ Over(z, lo[p]) /\ Under(z, hi[p])
      /\ Child(p, z) = NULL
  BY <1>1, <1>3, PresentKeys DEF node_new, Inserts
<1>5. /\ inserting' = NotInserting /\ it' = it /\ visited' = visited /\ owed' = owed
      /\ \/ /\ parent' = [parent EXCEPT ![z] = p]
            /\ root' = IF p = NULL THEN z ELSE root
            /\ left' = IF p # NULL /\ z < p THEN [left EXCEPT ![p] = z] ELSE left
            /\ right' = IF p # NULL /\ z > p THEN [right EXCEPT ![p] = z] ELSE right
         \/ SameTree
  BY <1>3, Zenon DEF node_new, SameTree
<1>6. Inserts(lo, hi)' /\ \A l, h : Inserts(l, h)'
  BY <1>5 DEF Inserts, NotInserting
<1>7. /\ root \in Pointer /\ left \in [Key -> Pointer] /\ right \in [Key -> Pointer]
      /\ parent \in [Key -> Pointer]
  BY <1>2 DEF DictionaryTypeOK
<1>8. CASE SameTree
  <2>1. Present' = Present /\ Tree(lo, hi)'
    BY <1>1, <1>8, SameTreeKeeps
  <2>2. Iterates(lo, hi)'
    BY <1>1, <1>5, <1>8, <2>1 DEF Iterates, SameTree
  <2>3. DictionaryTypeOK'
    BY <1>2, <1>5, <1>8 DEF DictionaryTypeOK, SameTree, NotInserting, Pointer
  <2> QED  BY <1>6, <2>1, <2>2, <2>3 DEF DictionaryInv
<1>9. CASE /\ parent' = [parent EXCEPT ![z] = p]
           /\ root' = IF p = NULL THEN z ELSE root
           /\ left' = IF p # NULL /\ z < p THEN [left EXCEPT ![p] = z] ELSE left
           /\ right' = IF p # NULL /\ z > p THEN [right EXCEPT ![p] = z] ELSE right
  <2>1. /\ Present \subseteq Present' /\ z \notin Present
        /\ \E l, h : Tree(l, h)' /\ \A n \in Present : l[n] = lo[n] /\ h[n] = hi[n]
    <3>1. CASE p = NULL
      <4>1. root = NULL /\ root' = z /\ left' = left /\ right' = right
            /\ parent' = [parent EXCEPT ![z] = NULL]
        BY <1>4, <1>9, <3>1 DEF Child
      <4>2. Present = {}
        BY <1>1, <4>1 DEF Tree, Bounded
      <4> QED  BY <1>1, <1>2, <1>4, <4>1, <4>2, NewRoot
    <3>2. CASE p # NULL /\ z < p
      <4>1. p \in Nat /\ z \in Nat /\ p \in Present /\ Over(z, lo[p])
        BY <1>4, <3>2, PresentKeys
      <4>2. ~ (z > p)
        BY <3>2, <4>1
      <4>3. /\ left[p] = NULL /\ StoresLeft(z, p)
        BY <1>4, <1>9, <3>2, <4>2 DEF Child, StoresLeft
      <4>4. Tree(lo, hi) /\ DictionaryTypeOK /\ z \in Key /\ z < p
        BY <1>1, <1>2, <1>4, <3>2
      <4> QED  BY <4>1, <4>3, <4>4, NewLeft
    <3>3. CASE p # NULL /\ ~ (z < p)
      <4>1. p \in Nat /\ z \in Nat /\ p \in Present /\ Under(z, hi[p]) /\ p # z
        BY <1>4, <3>3, PresentKeys
      <4>2. z > p /\ p < z
        BY <3>3, <4>1
      <4>3. /\ right[p] = NULL /\ StoresRight(z, p)
        BY <1>4, <1>9, <3>3, <4>2 DEF Child, StoresRight
      <4>4. Tree(lo, hi) /\ DictionaryTypeOK /\ z \in Key
        BY <1>1, <1>2, <1>4
      <4> QED  BY <4>1, <4>2, <4>3, <4>4, NewRight
    <3> QED  BY <3>1, <3>2, <3>3
  <2>2. PICK l, h : Tree(l, h)' /\ \A n \in Present : l[n] = lo[n] /\ h[n] = hi[n]
    BY <2>1
  <2>3. \A n \in Present : parent'[n] = parent[n]
    BY <1>7, <1>9, <2>1, PresentKeys
  <2>4. Iterates(l, h)'
    BY <1>1, <1>5, <2>1, <2>2, <2>3 DEF Iterates
  <2>5. DictionaryTypeOK'
    <3>1. p \in Pointer /\ z \in Pointer
      BY <1>4, PresentKeys DEF Pointer
    <3>2. root' \in Pointer /\ left' \in [Key -> Pointer] /\ right' \in [Key -> Pointer]
      BY <1>7, <1>9, <3>1
    <3>3. parent' \in [Key -> Pointer]
      BY <1>7, <1>9, <3>1
    <3> QED  BY <1>2, <1>5, <3>2, <3>3 DEF DictionaryTypeOK, NotInserting, Pointer
  <2> QED  BY <1>6, <2>2, <2>4, <2>5 DEF DictionaryInv
<1> QED  BY <1>5, <1>8, <1>9

\* The place of a node in the tree.
LEMMA Place ==
    ASSUME DictionaryTypeOK, NEW lo, NEW hi, Tree(lo, hi), NEW n \in Present
    PROVE  /\ parent[n] = NULL => hi[n] = NULL
           /\ parent[n] # NULL => /\ parent[n] \in Present
                                  /\ n = right[parent[n]] => hi[n] = hi[parent[n]]
                                  /\ n # right[parent[n]] => hi[n] = parent[n]
<1>1. n \in Key /\ (n = root \/ \E p \in Key : n \in {left[p], right[p]})
  BY DEF Present
<1>2. CASE n = root
  BY <1>1, <1>2, PresentKeys DEF Tree, Bounded
<1>3. ASSUME NEW p \in Key, n = left[p]
      PROVE  parent[n] = p /\ p \in Present /\ p # NULL /\ hi[n] = p /\ hi[p] # p
  BY <1>1, <1>3, PresentKeys DEF Tree, Bounded, Linked, Under
<1>4. ASSUME NEW p \in Key, n = right[p]
      PROVE  parent[n] = p /\ p \in Present /\ p # NULL /\ hi[n] = hi[p]
  BY <1>1, <1>4, PresentKeys DEF Tree, Linked
<1>5. ASSUME NEW p \in Key, n = left[p]
      PROVE  n # right[p]
  BY <1>3, <1>4, <1>5
<1> QED  BY <1>1, <1>2, <1>3, <1>4, <1>5

-----------------------------------------------------------------------------
(***************************************************************************)
(* The iteration, which leaves the tree and the insertion as they are.     *)
(***************************************************************************)

SameInsert == SameTree /\ UNCHANGED inserting

LEMMA SameInsertKeeps ==
    ASSUME SameInsert, NEW lo, NEW hi, Tree(lo, hi), Inserts(lo, hi)
    PROVE  Present' = Present /\ Tree(lo, hi)' /\ Inserts(lo, hi)'
<1>1. Present' = Present /\ Tree(lo, hi)'
  BY SameTreeKeeps DEF SameInsert
<1>2. Inserts(lo, hi)'
  BY <1>1 DEF SameInsert, SameTree, Inserts, Child
<1> QED  BY <1>1, <1>2

IteratorType == [step : {"none", "leftmost", "at", "climb", "end"}, node : Pointer, base : Pointer]

\* It is enough that the iterator keeps its place and its type.
LEMMA IteratorKeeps ==
    ASSUME DictionaryInv, SameInsert, it' \in IteratorType,
           visited' \subseteq Key, owed' \subseteq Key,
           ASSUME NEW lo, NEW hi, Tree(lo, hi), Iterates(lo, hi), Present' = Present
           PROVE  Iterates(lo, hi)'
    PROVE  DictionaryInv'
<1>1. PICK lo, hi : Tree(lo, hi) /\ Inserts(lo, hi) /\ Iterates(lo, hi)
  BY DEF DictionaryInv
<1>2. Present' = Present /\ Tree(lo, hi)' /\ Inserts(lo, hi)'
  BY <1>1, SameInsertKeeps
<1>3. Iterates(lo, hi)'
  BY <1>1, <1>2
<1>4. DictionaryTypeOK'
  BY DEF DictionaryInv, DictionaryTypeOK, SameInsert, SameTree, IteratorType
<1> QED  BY <1>2, <1>3, <1>4 DEF DictionaryInv

LEMMA AtType ==
    ASSUME NEW step \in {"none", "leftmost", "at", "climb", "end"},
           NEW node \in Pointer, NEW base \in Pointer
    PROVE  /\ At(step, node, base) \in IteratorType
           /\ At(step, node, base).step = step
           /\ At(step, node, base).node = node
           /\ At(step, node, base).base = base
BY DEF At, IteratorType

\* What the type invariant says of the iterator and the pointers.
LEMMA IteratorTypes ==
    ASSUME DictionaryInv
    PROVE  /\ it \in IteratorType /\ visited \subseteq Key /\ owed \subseteq Key
           /\ root \in Pointer /\ left \in [Key -> Pointer] /\ right \in [Key -> Pointer]
           /\ parent \in [Key -> Pointer] /\ NULL \in Pointer /\ Key \subseteq Pointer
           /\ DictionaryTypeOK
           /\ it.step \in {"leftmost", "at", "climb"} => it.node \in Present
           /\ it.step = "climb" => it.base = parent[it.node]
BY DEF DictionaryInv, DictionaryTypeOK, IteratorType, Pointer, Iterates

\* dictionary_get_iterator
LEMMA BeginKeeps ==
    ASSUME DictionaryInv, SameInsert, dictionary_get_iterator
    PROVE  DictionaryInv'
<1> USE IteratorTypes
<1>1. /\ it' \in IteratorType
      /\ root = NULL => it'.step = "end"
      /\ root # NULL => it'.step = "leftmost" /\ it'.node = root
  BY AtType DEF dictionary_get_iterator
<1>2. visited' = {} /\ owed' = Present
  BY DEF dictionary_get_iterator
<1>3. ASSUME NEW lo, NEW hi, Tree(lo, hi), Present' = Present
      PROVE  Iterates(lo, hi)'
  <2>1. root = NULL => Present = {}
    BY <1>3 DEF Tree, Bounded
  <2>2. root # NULL => lo[root] = NULL /\ root \in Present
    BY <1>3 DEF Tree, Bounded, Present, Pointer
  <2> QED  BY <1>1, <1>2, <1>3, <2>1, <2>2 DEF Iterates
<1> QED  BY <1>1, <1>2, <1>3, PresentKeys, IteratorKeeps

LEMMA LeftmostKeeps ==
    ASSUME DictionaryInv, SameInsert, Leftmost
    PROVE  DictionaryInv'
<1> USE IteratorTypes
<1> DEFINE n == it.node
<1>1. it.step = "leftmost" /\ n \in Present /\ n \in Key
  BY PresentKeys DEF Leftmost
<1>2. visited' = visited /\ owed' = owed
  BY DEF Leftmost
<1>3. CASE left[n] # NULL
  <2>1. /\ it' \in IteratorType /\ it'.step = "leftmost" /\ it'.node = left[n]
    BY <1>1, <1>3 DEF Leftmost, IteratorType
  <2>2. ASSUME NEW lo, NEW hi, Tree(lo, hi), Iterates(lo, hi), Present' = Present
        PROVE  Iterates(lo, hi)'
    <3>1. left[n] \in Present /\ lo[left[n]] = lo[n]
      BY <1>1, <1>3, <2>2, ChildPresent DEF Tree, Linked
    <3> QED  BY <1>1, <1>2, <2>1, <2>2, <3>1 DEF Iterates
  <2> QED  BY <1>2, <2>1, <2>2, IteratorKeeps
<1>4. CASE left[n] = NULL
  <2>1. /\ it' \in IteratorType /\ it'.step = "at" /\ it'.node = n
    BY <1>1, <1>4 DEF Leftmost, IteratorType
  <2>2. ASSUME NEW lo, NEW hi, Tree(lo, hi), Iterates(lo, hi), Present' = Present
        PROVE  Iterates(lo, hi)'
    <3>1. \A k \in Present : k < n => lo[n] # NULL /\ k <= lo[n]
      BY <1>1, <1>4, <2>2 DEF Tree, Dense
    <3>2. lo[n] # NULL => lo[n] \in Nat /\ lo[n] < n
      BY <1>1, <2>2, PresentKeys DEF Tree, Bounded, Over, Pointer
    <3>3. \A k \in visited : k < n
      <4> SUFFICES ASSUME NEW k \in visited PROVE k < n
        OBVIOUS
      <4>1. lo[n] # NULL /\ k <= lo[n]
        BY <1>1, <2>2 DEF Iterates
      <4>2. k \in Nat /\ n \in Nat
        BY <1>1, PresentKeys
      <4> HIDE DEF n
      <4> QED  BY <3>2, <4>1, <4>2
    <3>4. \A k \in owed : k < n => k \in visited
      BY <1>1, <2>2, <3>1 DEF Iterates
    <3> QED  BY <1>1, <1>2, <2>1, <2>2, <3>3, <3>4 DEF Iterates
  <2> QED  BY <1>2, <2>1, <2>2, IteratorKeeps
<1> QED  BY <1>3, <1>4

LEMMA IterateKeeps ==
    ASSUME DictionaryInv, SameInsert, dictionary_iterate
    PROVE  DictionaryInv'
<1> USE IteratorTypes
<1> DEFINE n == it.node
<1>1. it.step = "at" /\ n \in Present /\ n \in Key
  BY PresentKeys DEF dictionary_iterate
<1>2. visited' = visited \cup {n} /\ owed' = owed /\ visited' \subseteq Key
  BY <1>1 DEF dictionary_iterate
<1>3. ASSUME NEW lo, NEW hi, Iterates(lo, hi)
      PROVE  /\ \A k \in owed : k <= n => k \in visited'
             /\ \A k \in visited' : k <= n
  <2>1. /\ \A k \in owed : k < n => k \in visited
        /\ \A k \in visited : k < n
    BY <1>1, <1>3 DEF Iterates
  <2>2. n \in Nat /\ visited \subseteq Nat /\ owed \subseteq Nat
    BY <1>1, PresentKeys
  <2>3. visited' = visited \cup {n}
    BY <1>2
  <2> HIDE DEF n
  <2>4. \A k \in owed : k <= n => k < n \/ k = n
    BY <2>2
  <2>5. \A k \in visited : k <= n
    BY <2>1, <2>2
  <2> QED  BY <2>1, <2>2, <2>3, <2>4, <2>5
<1>4. CASE right[n] # NULL
  <2>1. /\ it' \in IteratorType /\ it'.step = "leftmost" /\ it'.node = right[n]
    BY <1>1, <1>4, AtType DEF dictionary_iterate
  <2>2. ASSUME NEW lo, NEW hi, Tree(lo, hi), Iterates(lo, hi), Present' = Present
        PROVE  Iterates(lo, hi)'
    <3>1. right[n] \in Present /\ lo[right[n]] = n /\ n # NULL
      BY <1>1, <1>4, <2>2, ChildPresent, PresentKeys DEF Tree, Linked
    <3>2. owed \subseteq Present
      BY <2>2 DEF Iterates
    <3> QED  BY <1>2, <1>3, <2>1, <2>2, <3>1, <3>2 DEF Iterates
  <2> QED  BY <1>2, <2>1, <2>2, IteratorKeeps
<1>5. CASE right[n] = NULL
  <2>1. /\ it' \in IteratorType /\ it'.step = "climb" /\ it'.node = n /\ it'.base = parent[n]
    BY <1>1, <1>5, AtType DEF dictionary_iterate
  <2>2. ASSUME NEW lo, NEW hi, Tree(lo, hi), Iterates(lo, hi), Present' = Present
        PROVE  Iterates(lo, hi)'
    <3>1. \A k \in Present : n < k => hi[n] # NULL /\ hi[n] <= k
      BY <1>1, <1>5, <2>2 DEF Tree, Dense
    <3>2. hi[n] # NULL => hi[n] \in Nat /\ n < hi[n]
      BY <1>1, <2>2, PresentKeys DEF Tree, Bounded, Under, Pointer
    <3>3. owed \subseteq Present /\ parent' = parent
      BY <2>2 DEF Iterates, SameInsert, SameTree
    <3>4. \A k \in owed : Under(k, hi[n]) => k \in visited'
      <4> SUFFICES ASSUME NEW k \in owed, Under(k, hi[n]) PROVE k <= n
        BY <1>3, <2>2
      <4>1. k \in Present /\ k \in Nat /\ n \in Nat
        BY <1>1, <3>3, PresentKeys
      <4>2. CASE n < k
        BY <3>1, <3>2, <4>1, <4>2 DEF Under
      <4> QED  BY <4>1, <4>2
    <3>5. \A k \in visited' : Under(k, hi[n])
      <4> SUFFICES ASSUME NEW k \in visited' PROVE Under(k, hi[n])
        OBVIOUS
      <4>1. k <= n /\ k \in Nat /\ n \in Nat
        BY <1>1, <1>2, <1>3, <2>2, PresentKeys
      <4> HIDE DEF n
      <4> QED  BY <3>2, <4>1 DEF Under
    <3> QED  BY <1>1, <1>2, <2>1, <2>2, <3>3, <3>4, <3>5 DEF Iterates
  <2> QED  BY <1>2, <2>1, <2>2, IteratorKeeps
<1> QED  BY <1>4, <1>5

LEMMA ClimbKeeps ==
    ASSUME DictionaryInv, SameInsert, Climb
    PROVE  DictionaryInv'
<1> USE IteratorTypes
<1> DEFINE n == it.node
           b == it.base
<1>1. it.step = "climb" /\ n \in Present /\ b = parent[n] /\ b \in Pointer
  BY PresentKeys DEF Climb
<1>2. visited' = visited /\ owed' = owed /\ parent' = parent
  BY DEF Climb, SameInsert, SameTree
<1>3. ASSUME NEW lo, NEW hi, Tree(lo, hi), Iterates(lo, hi)
      PROVE  /\ \A k \in owed : Under(k, hi[n]) => k \in visited
             /\ \A k \in visited : Under(k, hi[n])
             /\ owed \subseteq Present
  BY <1>1, <1>3 DEF Iterates
<1>4. ASSUME NEW lo, NEW hi, Tree(lo, hi)
      PROVE  /\ b = NULL => hi[n] = NULL
             /\ b # NULL => /\ b \in Present
                            /\ n = right[b] => hi[n] = hi[b]
                            /\ n # right[b] => hi[n] = b
  BY <1>1, <1>4, Place
<1>5. it' = CASE b = NULL -> At("end", NULL, NULL)
              [] b # NULL /\ n = right[b] -> At("climb", b, parent[b])
              [] OTHER -> At("at", b, NULL)
  BY Zenon DEF Climb
<1> HIDE DEF n, b
<1>6. CASE b = NULL
  <2>1. /\ it' \in IteratorType /\ it'.step = "end"
    BY <1>5, <1>6, AtType
  <2>2. ASSUME NEW lo, NEW hi, Tree(lo, hi), Iterates(lo, hi), Present' = Present
        PROVE  Iterates(lo, hi)'
    <3>1. owed \subseteq visited /\ owed \subseteq Present
      BY <1>3, <1>4, <1>6, <2>2 DEF Under
    <3> QED  BY <1>2, <2>1, <2>2, <3>1 DEF Iterates
  <2> QED  BY <1>2, <2>1, <2>2, IteratorKeeps
<1>7. CASE b # NULL /\ n = right[b]
  <2>1. b \in Key /\ parent[b] \in Pointer
    BY <1>1, <1>7 DEF Pointer
  <2>2. /\ it' \in IteratorType /\ it'.step = "climb" /\ it'.node = b /\ it'.base = parent[b]
    <3>1. it' = At("climb", b, parent[b])
      BY <1>5, <1>7, Zenon
    <3> QED  BY <2>1, <3>1, AtType
  <2>3. ASSUME NEW lo, NEW hi, Tree(lo, hi), Iterates(lo, hi), Present' = Present
        PROVE  Iterates(lo, hi)'
    <3>1. hi[n] = hi[b] /\ b \in Present
      BY <1>4, <1>7, <2>3
    <3> QED  BY <1>2, <1>3, <2>2, <2>3, <3>1 DEF Iterates
  <2> QED  BY <1>2, <2>2, <2>3, IteratorKeeps
<1>8. CASE b # NULL /\ n # right[b]
  <2>1. /\ it' \in IteratorType /\ it'.step = "at" /\ it'.node = b
    <3>1. it' = At("at", b, NULL)
      BY <1>5, <1>8, Zenon
    <3>2. b \in Pointer /\ NULL \in Pointer
      BY <1>1
    <3>3. /\ At("at", b, NULL) \in IteratorType
          /\ At("at", b, NULL).step = "at" /\ At("at", b, NULL).node = b
      BY <3>2, AtType
    <3> QED  BY <3>1, <3>3
  <2>2. ASSUME NEW lo, NEW hi, Tree(lo, hi), Iterates(lo, hi), Present' = Present
        PROVE  Iterates(lo, hi)'
    <3>1. hi[n] = b /\ b \in Present
      BY <1>4, <1>8, <2>2
    <3>2. \A k : Under(k, b) <=> k < b
      BY <1>8 DEF Under
    <3> QED  BY <1>2, <1>3, <2>1, <2>2, <3>1, <3>2 DEF Iterates
  <2> QED  BY <1>2, <2>1, <2>2, IteratorKeeps
<1> QED  BY <1>6, <1>7, <1>8

\* activate_sm drops the iterator at its end.
LEMMA EndKeeps ==
    ASSUME DictionaryInv, SameInsert, it' = NotIterating, visited' = {}, owed' = {}
    PROVE  DictionaryInv'
<1>1. it' \in IteratorType /\ it'.step = "none"
  BY DEF NotIterating, IteratorType, Pointer
<1>2. ASSUME NEW lo, NEW hi, Present' = Present
      PROVE  Iterates(lo, hi)'
  BY <1>1 DEF Iterates
<1> QED  BY <1>1, <1>2, IteratorKeeps

-----------------------------------------------------------------------------
(***************************************************************************)
(* Arithmetic: quotients and remainders.                                   *)
(***************************************************************************)

\* The quotient and the remainder of an integer.
LEMMA DivMod ==
    ASSUME NEW x \in Int, NEW M \in Nat \ {0}
    PROVE  x \div M \in Int /\ x % M \in 0 .. M - 1 /\ x = M * (x \div M) + (x % M)
OBVIOUS

\* The remainder is the only number below M that differs by a multiple of M.
LEMMA RemainderIs ==
    ASSUME NEW M \in Nat \ {0}, NEW k \in Int, NEW r \in 0 .. M - 1
    PROVE  (M * k + r) % M = r
<1> DEFINE x == M * k + r
           d == x \div M
           s == x % M
<1>1. x \in Int /\ d \in Int /\ s \in 0 .. M - 1 /\ x = M * d + s
  BY DivMod
<1>2. M * (k - d) = s - r
  <2>1. x = M * k + r
    OBVIOUS
  <2> HIDE DEF x, d, s
  <2> QED  BY <1>1, <2>1
<1>3. CASE k - d >= 1
  <2> HIDE DEF x, d, s
  <2>1. M * (k - d) >= M
    BY <1>1, <1>3
  <2> QED BY <1>1, <1>2, <2>1
<1>4. CASE k - d <= -1
  <2> HIDE DEF x, d, s
  <2>1. M * (k - d) <= 0 - M
    BY <1>1, <1>4
  <2> QED BY <1>1, <1>2, <2>1
<1>5. CASE k = d
  <2> HIDE DEF x, d
  <2>1. M * (k - d) = 0
    BY <1>1, <1>5
  <2> QED  BY <1>1, <1>2, <2>1
<1> QED
  <2> HIDE DEF x, d
  <2> QED BY <1>1, <1>3, <1>4, <1>5

\* The difference of two times within one turn.
LEMMA Turn ==
    ASSUME NEW M \in Nat \ {0}, NEW b \in Nat, NEW d \in 0 .. M - 1
    PROVE  (((b + d) % M) - (b % M)) % M = d
<1> DEFINE k == b \div M
           r == b % M
           l == (b + d) \div M
           s == (b + d) % M
<1>1. k \in Int /\ r \in 0 .. M - 1 /\ b = M * k + r
  BY DivMod
<1>2. l \in Int /\ s \in 0 .. M - 1 /\ b + d = M * l + s
  <2>1. b + d \in Int
    OBVIOUS
  <2>2. PICK x \in Int : x = b + d
    BY <2>1
  <2>3. x \div M \in Int /\ x % M \in 0 .. M - 1 /\ x = M * (x \div M) + (x % M)
    BY DivMod
  <2> QED  BY <2>2, <2>3
<1> HIDE DEF k, r, l, s
<1>3. s - r = M * (k - l) + d
  <2>1. M * (k - l) = M * k - M * l
    BY <1>1, <1>2
  <2>2. M * k \in Int /\ M * l \in Int
    BY <1>1, <1>2
  <2> QED  BY <1>1, <1>2, <2>1, <2>2
<1>4. (M * (k - l) + d) % M = d
  BY <1>1, <1>2, RemainderIs
<1>5. (s - r) % M = d
  BY <1>3, <1>4
<1> QED  BY <1>5 DEF s, r

\* A remainder may be taken before a subtraction.
LEMMA Residue ==
    ASSUME NEW M \in Nat \ {0}, NEW t \in Nat, NEW y \in Nat, y <= t
    PROVE  ((t % M) - y) % M = (t - y) % M
<1> DEFINE k == t \div M
           r == t % M
           l == (t - y) \div M
           s == (t - y) % M
<1>1. k \in Int /\ r \in 0 .. M - 1 /\ t = M * k + r
  BY DivMod
<1>2. l \in Int /\ s \in 0 .. M - 1 /\ t - y = M * l + s
  <2>1. t - y \in Int
    OBVIOUS
  <2>2. PICK x \in Int : x = t - y
    BY <2>1
  <2>3. x \div M \in Int /\ x % M \in 0 .. M - 1 /\ x = M * (x \div M) + (x % M)
    BY DivMod
  <2> QED  BY <2>2, <2>3
<1> HIDE DEF k, r, l, s
<1>3. r - y = M * (l - k) + s
  <2>1. M * (l - k) = M * l - M * k
    BY <1>1, <1>2
  <2>2. M * k \in Int /\ M * l \in Int
    BY <1>1, <1>2
  <2> QED  BY <1>1, <1>2, <2>1, <2>2
<1>4. (M * (l - k) + s) % M = s
  <2>1. l - k \in Int
    BY <1>1, <1>2
  <2> QED  BY <1>2, <2>1, RemainderIs
<1>5. (r - y) % M = s
  BY <1>3, <1>4
<1> QED  BY <1>5, Zenon DEF s, r

-----------------------------------------------------------------------------
(***************************************************************************)
(* The registered callbacks, the task and the clock.                       *)
(***************************************************************************)

PlanInv == plan \in [callbacks : SUBSET Callback, aliases : SUBSET Key, time : Nat]

\* The user threads between the critical section of pclb_register and clb_num++.
Busy == {u \in User : user[u].step # "idle"}

\* Whatever value of clb_num a thread holds, all the threads that are in pclb_register can still
\* add one to it.
LinkInv ==
    /\ shadow \in Seq(Callback) /\ \E n \in DOMAIN shadow : shadow[n] = "rtc"
    /\ user \in [User -> [step : {"idle", "read", "write"}, num : Nat]]
    /\ IsFiniteSet(Busy)
    /\ clb_num \in Nat \ {0} /\ clb_num + Cardinality(Busy) <= Len(shadow)
    /\ \A u \in User : user[u].num <= Len(shadow)
    /\ \A u \in User : user[u].step = "write" => user[u].num + Cardinality(Busy) <= Len(shadow)

TaskInv ==
    /\ walk \in Seq(Callback) /\ calling \in Callback \cup {None} /\ cnt \in [Callback -> Nat]
    /\ \A c \in Callback : cnt[c] <= Period[c] + (IF calling = c THEN 1 ELSE 0)

\* The moment up to which the clock has counted, and what it has still to count.
Base == set.time + (system_time_linux - set.linux) * Second
Lag == time - Base

\* rtc_periodic is still to be counted by this pclb_task.
Waiting == \E n \in DOMAIN walk : walk[n] = "rtc"

\* The clock lags behind by a residue below a second, and by a sleep for every pclb_task since.
ClockInv ==
    /\ {time, system_time_linux, set.time, set.linux, Base, Lag} \subseteq Nat
    /\ previous_system_time = Base % SysTime
    /\ Lag < Second + (Period["rtc"] + 1) * MaxSleep
    /\ Lag < Second + cnt["rtc"] * MaxSleep + (IF Waiting THEN MaxSleep ELSE 0)

CallbackInv == DictionaryInv /\ PlanInv /\ LinkInv /\ TaskInv /\ ClockInv

LEMMA ConstantTypes ==
    /\ Callback = {"rtc", "pcsm", "sm"} /\ Period \in [Callback -> Nat]
    /\ SysTime \in Nat \ {0} /\ Second \in Nat \ {0} /\ MaxSleep \in Nat \ {0}
    /\ Period["rtc"] \in Nat /\ (Period["rtc"] + 1) * MaxSleep \in Nat
    /\ (Period["rtc"] + 1) * MaxSleep + Second <= SysTime
<1>1. /\ Callback = {"rtc", "pcsm", "sm"} /\ Period \in [Callback -> Nat]
      /\ SysTime \in Nat \ {0} /\ Second \in Nat \ {0} /\ MaxSleep \in Nat \ {0}
      /\ (Period["rtc"] + 1) * MaxSleep + Second <= SysTime
  BY CallbackAssumption
<1>2. Period["rtc"] \in Nat
  BY <1>1
<1>3. (Period["rtc"] + 1) * MaxSleep \in Nat
  BY <1>1, <1>2
<1> QED  BY <1>1, <1>2, <1>3

LEMMA SameParts ==
    /\ DictionaryInv /\ UNCHANGED dictionary => DictionaryInv'
    /\ PlanInv /\ UNCHANGED plan => PlanInv'
    /\ LinkInv /\ UNCHANGED <<shadow, clb_num, user>> => LinkInv'
    /\ TaskInv /\ UNCHANGED <<walk, calling, cnt>> => TaskInv'
    /\ ClockInv /\ UNCHANGED <<clock, walk, cnt>> => ClockInv'
<1>1. ASSUME DictionaryInv, UNCHANGED dictionary
      PROVE  DictionaryInv'
  <2>1. SameInsert /\ it' = it /\ visited' = visited /\ owed' = owed
    BY <1>1 DEF dictionary, SameInsert, SameTree
  <2>2. ASSUME NEW lo, NEW hi, Iterates(lo, hi), Present' = Present
        PROVE  Iterates(lo, hi)'
    BY <2>1, <2>2 DEF Iterates, SameInsert, SameTree
  <2>3. it' \in IteratorType /\ visited' \subseteq Key /\ owed' \subseteq Key
    BY <1>1, <2>1, IteratorTypes
  <2> QED  BY <1>1, <2>1, <2>2, <2>3, IteratorKeeps
<1>2. PlanInv /\ UNCHANGED plan => PlanInv'
  BY DEF PlanInv
<1>3. LinkInv /\ UNCHANGED <<shadow, clb_num, user>> => LinkInv'
  BY DEF LinkInv, Busy
<1>4. TaskInv /\ UNCHANGED <<walk, calling, cnt>> => TaskInv'
  BY DEF TaskInv
<1>5. ClockInv /\ UNCHANGED <<clock, walk, cnt>> => ClockInv'
  BY DEF ClockInv, clock, Base, Lag, Waiting
<1> QED  BY <1>1, <1>2, <1>3, <1>4, <1>5

LEMMA InitCallback == Init => CallbackInv
<1> SUFFICES ASSUME Init PROVE CallbackInv
  OBVIOUS
<1> USE ConstantTypes
<1>1. DictionaryInv
  BY InitDictionary DEF Init
<1>2. PlanInv
  BY CallbackAssumption DEF Init, PlanInv
<1>3. LinkInv
  <2>1. Busy = {} /\ IsFiniteSet(Busy) /\ Cardinality(Busy) = 0
    BY FS_EmptySet DEF Init, Busy
  <2>2. shadow = <<"rtc">> /\ shadow \in Seq(Callback) /\ Len(shadow) = 1 /\ shadow[1] = "rtc"
    BY DEF Init
  <2>3. /\ user \in [User -> [step : {"idle", "read", "write"}, num : Nat]]
        /\ \A u \in User : user[u].num = 0 /\ user[u].step = "idle"
    BY DEF Init
  <2> QED  BY <2>1, <2>2, <2>3 DEF Init, LinkInv
<1>4. TaskInv
  BY DEF Init, TaskInv, None
<1>5. ClockInv
  <2>1. Base = 0 /\ Lag = 0
    BY DEF Init, Base, Lag
  <2>2. 0 % SysTime = 0
    BY ConstantTypes
  <2>3. cnt["rtc"] * MaxSleep = 0 /\ ~ Waiting
    BY DEF Init, Waiting
  <2> QED  BY <2>1, <2>2, <2>3 DEF Init, ClockInv
<1> QED  BY <1>1, <1>2, <1>3, <1>4, <1>5 DEF CallbackInv

LEMMA RegisterKeeps ==
    ASSUME CallbackInv, NEW u \in User, NEW c \in Callback, pclb_register(u, c)
    PROVE  CallbackInv'
<1> USE DEF CallbackInv
<1>1. DictionaryInv' /\ TaskInv' /\ ClockInv'
  BY SameParts DEF pclb_register
<1>2. PlanInv'
  BY DEF pclb_register, PlanInv
<1>3. LinkInv'
  <2>1. /\ shadow' = Append(shadow, c) /\ shadow \in Seq(Callback) /\ clb_num' = clb_num
        /\ clb_num \in Nat \ {0}
    BY DEF pclb_register, LinkInv
  <2>2. /\ shadow' \in Seq(Callback) /\ Len(shadow') = Len(shadow) + 1 /\ Len(shadow) \in Nat
        /\ \E n \in DOMAIN shadow' : shadow'[n] = "rtc"
    BY <2>1 DEF LinkInv
  <2>3. /\ user' \in [User -> [step : {"idle", "read", "write"}, num : Nat]]
        /\ user'[u].step = "read" /\ user'[u].num = 0
        /\ \A v \in User : v # u => user'[v] = user[v]
        /\ user[u].step = "idle"
    BY DEF pclb_register, LinkInv
  <2>4. Busy' = Busy \cup {u} /\ u \notin Busy
    BY <2>3 DEF Busy
  <2>5. IsFiniteSet(Busy') /\ Cardinality(Busy') = Cardinality(Busy) + 1 /\ Cardinality(Busy) \in Nat
    BY <2>4, FS_AddElement, FS_CardinalityType DEF LinkInv
  <2>6. clb_num' + Cardinality(Busy') <= Len(shadow')
    BY <2>1, <2>2, <2>5 DEF LinkInv
  <2>7. \A v \in User : user'[v].num <= Len(shadow')
    <3>1. \A v \in User : user[v].num \in Nat /\ user[v].num <= Len(shadow)
      BY DEF LinkInv
    <3> QED  BY <2>2, <2>3, <3>1
  <2>8. \A v \in User : user'[v].step = "write" => user'[v].num + Cardinality(Busy') <= Len(shadow')
    <3> SUFFICES ASSUME NEW v \in User, user'[v].step = "write"
                 PROVE  user'[v].num + Cardinality(Busy') <= Len(shadow')
      OBVIOUS
    <3>1. v # u /\ user'[v] = user[v]
      BY <2>3
    <3>2. user[v].num \in Nat /\ user[v].num + Cardinality(Busy) <= Len(shadow)
      BY <3>1 DEF LinkInv
    <3> QED  BY <2>2, <2>5, <3>1, <3>2
  <2> QED  BY <2>1, <2>2, <2>3, <2>5, <2>6, <2>7, <2>8 DEF LinkInv
<1> QED  BY <1>1, <1>2, <1>3

LEMMA ReadNumKeeps ==
    ASSUME CallbackInv, NEW u \in User, ReadNum(u)
    PROVE  CallbackInv'
<1> USE DEF CallbackInv
<1>1. DictionaryInv' /\ TaskInv' /\ ClockInv' /\ PlanInv'
  BY SameParts DEF ReadNum
<1>2. LinkInv'
  <2>1. shadow' = shadow /\ clb_num' = clb_num /\ Len(shadow) \in Nat /\ clb_num \in Nat
    BY DEF ReadNum, LinkInv
  <2>2. /\ user' \in [User -> [step : {"idle", "read", "write"}, num : Nat]]
        /\ user[u].step = "read" /\ user'[u].step = "write" /\ user'[u].num = clb_num
        /\ \A v \in User : v # u => user'[v] = user[v]
    BY <2>1 DEF ReadNum, LinkInv
  <2>3. Busy' = Busy /\ Cardinality(Busy) \in Nat
    BY <2>2, FS_CardinalityType DEF Busy, LinkInv
  <2>4. clb_num + Cardinality(Busy) <= Len(shadow) /\ clb_num <= Len(shadow)
    BY <2>1, <2>3 DEF LinkInv
  <2> QED  BY <2>1, <2>2, <2>3, <2>4 DEF LinkInv
<1> QED  BY <1>1, <1>2

LEMMA WriteNumKeeps ==
    ASSUME CallbackInv, NEW u \in User, WriteNum(u)
    PROVE  CallbackInv'
<1> USE DEF CallbackInv
<1>1. DictionaryInv' /\ TaskInv' /\ ClockInv' /\ PlanInv'
  BY SameParts DEF WriteNum
<1>2. LinkInv'
  <2>1. shadow' = shadow /\ clb_num' = user[u].num + 1 /\ Len(shadow) \in Nat /\ user[u].num \in Nat
    BY DEF WriteNum, LinkInv
  <2>2. /\ user' \in [User -> [step : {"idle", "read", "write"}, num : Nat]]
        /\ user[u].step = "write" /\ user'[u].step = "idle" /\ user'[u].num = 0
        /\ \A v \in User : v # u => user'[v] = user[v]
    BY <2>1 DEF WriteNum, LinkInv
  <2>3. Busy' = Busy \ {u} /\ u \in Busy
    BY <2>2 DEF Busy
  <2>4. /\ IsFiniteSet(Busy') /\ Cardinality(Busy') = Cardinality(Busy) - 1
        /\ Cardinality(Busy) \in Nat /\ Cardinality(Busy') \in Nat
    BY <2>3, FS_RemoveElement, FS_CardinalityType DEF LinkInv
  <2>5. user[u].num + Cardinality(Busy) <= Len(shadow)
    BY <2>2 DEF LinkInv
  <2>6. clb_num' \in Nat \ {0} /\ clb_num' + Cardinality(Busy') <= Len(shadow)
    BY <2>1, <2>4, <2>5
  <2>7. \A v \in User : user'[v].num <= Len(shadow)
    BY <2>1, <2>2 DEF LinkInv
  <2>8. \A v \in User : user'[v].step = "write" => user'[v].num + Cardinality(Busy') <= Len(shadow)
    <3> SUFFICES ASSUME NEW v \in User, user'[v].step = "write"
                 PROVE  user'[v].num + Cardinality(Busy') <= Len(shadow)
      OBVIOUS
    <3>1. user'[v] = user[v]
      BY <2>2
    <3>2. user[v].num \in Nat /\ user[v].num + Cardinality(Busy) <= Len(shadow)
      BY <3>1 DEF LinkInv
    <3> QED  BY <2>1, <2>4, <3>1, <3>2
  <2> QED  BY <2>1, <2>2, <2>4, <2>6, <2>7, <2>8 DEF LinkInv
<1> QED  BY <1>1, <1>2

LEMMA SubscribeKeeps ==
    ASSUME CallbackInv, exosite_subscribe \/ Subscribing
    PROVE  CallbackInv'
<1> USE DEF CallbackInv
<1>1. LinkInv' /\ TaskInv' /\ ClockInv'
  BY SameParts DEF exosite_subscribe, Subscribing, pclb
<1>2. PlanInv'
  BY DEF exosite_subscribe, Subscribing, PlanInv
<1>3. DictionaryInv'
  <2>1. CASE exosite_subscribe
    <3>1. PICK key \in plan.aliases : dictionary_add(key)
      BY <2>1 DEF exosite_subscribe
    <3>2. key \in Key
      BY DEF PlanInv
    <3> QED  BY <3>1, <3>2, AddKeeps
  <2>2. CASE Subscribing
    BY <2>2, GoDownKeeps, NodeNewKeeps DEF Subscribing, Insert
  <2> QED  BY <2>1, <2>2
<1> QED  BY <1>1, <1>2, <1>3

LEMMA TakeOverKeeps ==
    ASSUME CallbackInv, pclb_task
    PROVE  CallbackInv'
<1> USE DEF CallbackInv
<1> USE ConstantTypes
<1>1. DictionaryInv' /\ LinkInv' /\ PlanInv'
  BY SameParts DEF pclb_task
<1>2. TaskInv'
  BY DEF pclb_task, TaskInv, LinkInv
<1>3. ClockInv'
  <2>1. /\ system_time_linux' = system_time_linux /\ set' = set
        /\ previous_system_time' = previous_system_time /\ cnt' = cnt /\ walk' = shadow
    BY DEF pclb_task
  <2>2. Base' = Base /\ Waiting' /\ ~ Waiting
    BY <2>1 DEF Base, Waiting, LinkInv, pclb_task
  <2>3. time \in Nat /\ Base \in Nat /\ Lag \in Nat /\ Lag = time - Base
    BY DEF ClockInv, Lag
  <2>4. PICK ms \in 0 .. MaxSleep : time' = time + ms
    <3>1. PICK ms \in 1 .. MaxSleep : time' = IF time + ms <= plan.time THEN time + ms ELSE time
      BY DEF pclb_task
    <3>2. time' = time + ms \/ time' = time + 0
      BY <2>3, <3>1
    <3> QED  BY <3>1, <3>2
  <2>5. Lag' = Lag + ms
    BY <2>2, <2>3, <2>4 DEF Lag
  <2>6. cnt["rtc"] \in Nat /\ cnt["rtc"] <= Period["rtc"]
    BY DEF pclb_task, TaskInv, None
  <2>7. /\ cnt["rtc"] * MaxSleep \in Nat
        /\ (Period["rtc"] + 1) * MaxSleep = Period["rtc"] * MaxSleep + MaxSleep
        /\ cnt["rtc"] * MaxSleep <= Period["rtc"] * MaxSleep
        /\ Period["rtc"] * MaxSleep \in Nat
    BY <2>6
  <2>8. Lag < Second + cnt["rtc"] * MaxSleep
    <3>1. Lag < Second + cnt["rtc"] * MaxSleep + 0
      BY <2>2 DEF ClockInv
    <3> QED  BY <2>7, <3>1
  <2> DEFINE x == cnt["rtc"] * MaxSleep
             y == Period["rtc"] * MaxSleep
  <2>9. /\ Lag' \in Nat /\ time' \in Nat
        /\ Lag' < Second + (Period["rtc"] + 1) * MaxSleep
        /\ Lag' < Second + x + MaxSleep
    <3> HIDE DEF x, y
    <3>1. /\ x \in Nat /\ y \in Nat /\ x <= y /\ Lag < Second + x
          /\ (Period["rtc"] + 1) * MaxSleep = y + MaxSleep
      BY <2>7, <2>8 DEF x, y
    <3> QED  BY <2>3, <2>4, <2>5, <3>1
  <2> QED  BY <2>1, <2>2, <2>9 DEF ClockInv
<1> QED  BY <1>1, <1>2, <1>3

LEMMA CountKeeps ==
    ASSUME CallbackInv, Count
    PROVE  CallbackInv'
<1> USE DEF CallbackInv
<1> USE ConstantTypes
<1>1. DictionaryInv' /\ LinkInv' /\ PlanInv'
  BY SameParts DEF Count
<1> DEFINE c == Head(walk)
<1>2. /\ walk # <<>> /\ calling = None /\ walk \in Seq(Callback) /\ cnt \in [Callback -> Nat]
      /\ walk' = Tail(walk) /\ cnt' = [cnt EXCEPT ![c] = @ + 1]
      /\ calling' = IF Period[c] < cnt[c] + 1 THEN c ELSE None
  BY DEF Count, TaskInv
<1>3. c \in Callback /\ walk' \in Seq(Callback) /\ None \notin Callback
  BY <1>2 DEF None
<1>4. \A n \in DOMAIN walk : n = 1 \/ (n - 1 \in DOMAIN walk' /\ walk'[n - 1] = walk[n])
  <2>1. /\ Len(walk') = Len(walk) - 1 /\ DOMAIN walk = 1 .. Len(walk) /\ Len(walk) \in Nat
        /\ DOMAIN walk' = 1 .. Len(walk') /\ \A i \in 1 .. Len(walk) - 1 : walk'[i] = walk[i + 1]
    BY <1>2, <1>3
  <2> SUFFICES ASSUME NEW n \in DOMAIN walk, n # 1
               PROVE  n - 1 \in DOMAIN walk' /\ walk'[n - 1] = walk[n]
    OBVIOUS
  <2> DEFINE length == Len(walk)
  <2>2. n \in 1 .. length /\ length \in Nat
    BY <2>1
  <2> HIDE DEF length
  <2>3. n - 1 \in 1 .. length - 1 /\ (n - 1) + 1 = n
    BY <2>2
  <2> QED  BY <2>1, <2>3 DEF length
<1>5. c = walk[1]
  BY <1>2
<1> HIDE DEF c
<1>6. TaskInv'
  <2>1. \A d \in Callback : cnt[d] <= Period[d] /\ cnt[d] \in Nat /\ Period[d] \in Nat
    <3> SUFFICES ASSUME NEW d \in Callback
                 PROVE  cnt[d] <= Period[d] /\ cnt[d] \in Nat /\ Period[d] \in Nat
      OBVIOUS
    <3>1. calling # d
      BY <1>2, <1>3
    <3>2. cnt[d] \in Nat /\ Period[d] \in Nat
      BY <1>2
    <3>3. cnt[d] <= Period[d] + 0
      BY <3>1 DEF TaskInv
    <3> QED  BY <3>2, <3>3
  <2>2. \A d \in Callback : cnt'[d] <= Period[d] + (IF calling' = d THEN 1 ELSE 0)
    <3> SUFFICES ASSUME NEW d \in Callback
                 PROVE  cnt'[d] <= Period[d] + (IF calling' = d THEN 1 ELSE 0)
      OBVIOUS
    <3>1. CASE d = c
      <4>1. cnt'[d] = cnt[d] + 1 /\ calling' = IF Period[d] < cnt[d] + 1 THEN d ELSE None
        BY <1>2, <1>3, <3>1
      <4>2. cnt[d] \in Nat /\ Period[d] \in Nat /\ cnt[d] <= Period[d] /\ d # None
        BY <1>3, <2>1
      <4>3. CASE Period[d] < cnt[d] + 1
        <5>1. calling' = d /\ cnt[d] + 1 <= Period[d] + 1
          BY <4>1, <4>2, <4>3
        <5> QED  BY <4>1, <5>1
      <4>4. CASE ~ (Period[d] < cnt[d] + 1)
        <5>1. calling' # d /\ cnt[d] + 1 <= Period[d] + 0
          BY <4>1, <4>2, <4>4
        <5> QED  BY <4>1, <5>1
      <4> QED  BY <4>3, <4>4
    <3>2. CASE d # c
      <4>1. cnt'[d] = cnt[d] /\ calling' # d
        BY <1>2, <1>3, <3>2
      <4> QED  BY <2>1, <4>1
    <3> QED  BY <3>1, <3>2
  <2> QED  BY <1>2, <1>3, <2>2 DEF TaskInv
<1>7. ClockInv'
  <2>1. Base' = Base /\ Lag' = Lag /\ UNCHANGED clock
    BY DEF Count, clock, Base, Lag
  <2>2. Lag < Second + cnt'["rtc"] * MaxSleep + (IF Waiting' THEN MaxSleep ELSE 0)
    <3>1. cnt["rtc"] \in Nat /\ cnt["rtc"] * MaxSleep \in Nat /\ Lag \in Nat
      <4>1. cnt["rtc"] \in Nat /\ Lag \in Nat
        BY <1>2 DEF ClockInv
      <4> QED  BY <4>1
    <3>2. CASE c = "rtc"
      <4>1. cnt'["rtc"] = cnt["rtc"] + 1
        BY <1>2, <3>2
      <4>2. cnt'["rtc"] * MaxSleep = cnt["rtc"] * MaxSleep + MaxSleep
        BY <3>1, <4>1
      <4>3. Lag < Second + cnt["rtc"] * MaxSleep + MaxSleep
        BY <3>1 DEF ClockInv
      <4> QED  BY <3>1, <4>2, <4>3
    <3>3. CASE c # "rtc"
      <4>1. Waiting => Waiting'
        BY <1>4, <1>5, <3>3 DEF Waiting
      <4>2. cnt'["rtc"] = cnt["rtc"]
        BY <1>2, <3>3
      <4> QED  BY <3>1, <4>1, <4>2 DEF ClockInv
    <3> QED  BY <3>2, <3>3
  <2> QED  BY <2>1, <2>2 DEF ClockInv, clock
<1> QED  BY <1>1, <1>6, <1>7

LEMMA ReturnsKeeps ==
    ASSUME CallbackInv, NEW c \in Callback, Returns(c)
    PROVE  PlanInv' /\ LinkInv' /\ TaskInv'
<1> USE DEF CallbackInv
<1>1. PlanInv' /\ LinkInv'
  BY SameParts DEF Returns
<1>2. /\ walk' = walk /\ calling = c /\ calling' = None /\ cnt' = [cnt EXCEPT ![c] = 0]
      /\ walk \in Seq(Callback) /\ cnt \in [Callback -> Nat] /\ None \notin Callback
  BY ConstantTypes DEF Returns, TaskInv, None
<1>3. ASSUME NEW d \in Callback
      PROVE  cnt'[d] <= Period[d] + (IF calling' = d THEN 1 ELSE 0)
  <2>1. Period[d] \in Nat /\ calling' # d
    BY <1>2, ConstantTypes
  <2>2. CASE d = c
    BY <1>2, <2>1, <2>2
  <2>3. CASE d # c
    <3>1. calling # d /\ cnt'[d] = cnt[d]
      BY <1>2, <2>3
    <3>2. cnt[d] <= Period[d] + 0
      BY <3>1 DEF TaskInv
    <3> QED  BY <2>1, <3>1, <3>2
  <2> QED  BY <2>2, <2>3
<1> QED  BY <1>1, <1>2, <1>3 DEF TaskInv

\* The clock measures what it has still to count, for the system time does not come round meanwhile.
LEMMA DiffIsLag ==
    ASSUME ClockInv
    PROVE  Minus(system_get_time, previous_system_time) = Lag
<1> USE ConstantTypes
<1>1. Base \in Nat /\ Lag \in Nat /\ time = Base + Lag /\ previous_system_time = Base % SysTime
  BY DEF ClockInv, Lag
<1>2. Lag \in 0 .. SysTime - 1
  <2>1. Lag < Second + (Period["rtc"] + 1) * MaxSleep
    BY DEF ClockInv
  <2> DEFINE x == (Period["rtc"] + 1) * MaxSleep
  <2>2. x \in Nat /\ x + Second <= SysTime /\ Lag < Second + x
    BY <2>1
  <2> HIDE DEF x
  <2> QED  BY <1>1, <2>2
<1>3. (((Base + Lag) % SysTime) - (Base % SysTime)) % SysTime = Lag
  BY <1>1, <1>2, Turn
<1> QED  BY <1>1, <1>3, Zenon DEF Minus, system_get_time

LEMMA RtcKeeps ==
    ASSUME CallbackInv, rtc_periodic
    PROVE  CallbackInv'
<1> USE DEF CallbackInv
<1> USE ConstantTypes
<1>1. Returns("rtc") /\ PlanInv' /\ LinkInv' /\ TaskInv'
  BY ReturnsKeeps DEF rtc_periodic
<1>2. DictionaryInv'
  BY SameParts DEF rtc_periodic
<1>3. ClockInv'
  <2> DEFINE lag == Lag
             s == lag \div Second
             r == lag % Second
             m == Second * s
  <2>1. /\ system_time_linux' = system_time_linux + s
        /\ previous_system_time' = ((time % SysTime) - r) % SysTime
        /\ time' = time /\ set' = set
    BY DiffIsLag, Zenon DEF rtc_periodic, Minus, system_get_time
  <2>2. /\ lag \in Nat /\ time \in Nat /\ time = Base + lag /\ Base \in Nat
        /\ system_time_linux \in Nat /\ set.linux \in Nat /\ set.time \in Nat
        /\ Base = set.time + (system_time_linux - set.linux) * Second
    BY DEF ClockInv, Lag, Base
  <2>3. s \in Int /\ r \in 0 .. Second - 1 /\ lag = m + r
    <3>1. PICK x \in Int : x = lag
      BY <2>2
    <3>2. x \div Second \in Int /\ x % Second \in 0 .. Second - 1 /\ x = Second * (x \div Second) + (x % Second)
      BY DivMod
    <3> QED  BY <3>1, <3>2
  <2>4. m \in Int /\ s \in Nat /\ m \in Nat
    <3>1. lag \in Nat
      BY <2>2
    <3> HIDE DEF lag
    <3>2. s \in Nat
      BY <3>1
    <3> QED  BY <3>2
  <2>5. Base' = Base + m
    <3>1. Base' = set.time + (system_time_linux + s - set.linux) * Second
      <4>1. Base' = set'.time + (system_time_linux' - set'.linux) * Second
        BY DEF Base
      <4>2. system_time_linux' = system_time_linux + s /\ set' = set
        BY <2>1, Zenon
      <4> HIDE DEF s, lag, r, m
      <4>3. system_time_linux' - set'.linux = system_time_linux + s - set.linux
        BY <2>2, <2>4, <4>2
      <4>4. set'.time = set.time
        BY <4>2
      <4> QED  BY <4>1, <4>3, <4>4, Zenon
    <3> HIDE DEF s
    <3> DEFINE q == system_time_linux - set.linux
    <3>2. q \in Int /\ system_time_linux + s - set.linux = q + s
      BY <2>2, <2>4
    <3>3. (q + s) * Second = q * Second + Second * s /\ q * Second \in Int /\ Second * s \in Int
      BY <2>4, <3>2
    <3> HIDE DEF q
    <3>4. Base = set.time + q * Second /\ Base' = set.time + (q + s) * Second
      BY <2>2, <3>1, <3>2 DEF q
    <3> QED  BY <2>2, <3>3, <3>4
  <2> HIDE DEF lag, s, r, m
  <2>6. Base' = time - r /\ r <= time /\ r \in Nat /\ Base' \in Nat
    BY <2>2, <2>3, <2>4, <2>5
  <2>7. Lag' = r
    BY <2>1, <2>2, <2>6 DEF Lag
  <2>8. previous_system_time' = Base' % SysTime
    <3>1. ((time % SysTime) - r) % SysTime = (time - r) % SysTime
      <4>1. time \in Nat /\ r \in Nat /\ r <= time /\ SysTime \in Nat \ {0}
        BY <2>2, <2>6, Zenon
      <4> QED  BY <4>1, Residue, Zenon
    <3> QED  BY <2>1, <2>6, <3>1
  <2>9. cnt'["rtc"] = 0
    BY <1>1 DEF Returns, TaskInv
  <2>10. r < Second + (Period["rtc"] + 1) * MaxSleep
    <3> DEFINE x == (Period["rtc"] + 1) * MaxSleep
    <3>1. x \in Nat
      OBVIOUS
    <3> HIDE DEF x
    <3> QED  BY <2>3, <3>1 DEF x
  <2>11. r < Second + cnt'["rtc"] * MaxSleep + (IF Waiting' THEN MaxSleep ELSE 0)
    <3>1. cnt'["rtc"] * MaxSleep = 0
      BY <2>9
    <3> QED  BY <2>3, <3>1
  <2>12. {time', system_time_linux', set'.time, set'.linux, Base', Lag'} \subseteq Nat
    BY <2>1, <2>2, <2>4, <2>6, <2>7
  <2> QED  BY <2>7, <2>8, <2>10, <2>11, <2>12 DEF ClockInv
<1> QED  BY <1>1, <1>2, <1>3

LEMMA PcsmKeeps ==
    ASSUME CallbackInv, protocol_client_sm_task
    PROVE  CallbackInv'
<1> USE DEF CallbackInv
<1> USE ConstantTypes
<1>1. Returns("pcsm") /\ PlanInv' /\ LinkInv' /\ TaskInv'
  BY ReturnsKeeps DEF protocol_client_sm_task
<1>2. DictionaryInv'
  BY SameParts DEF protocol_client_sm_task
<1>3. cnt'["rtc"] = cnt["rtc"] /\ cnt["rtc"] \in Nat /\ Waiting' = Waiting /\ time' = time
  BY <1>1 DEF Returns, TaskInv, Waiting, protocol_client_sm_task
<1>4. ClockInv'
  <2>1. CASE UNCHANGED <<system_time_linux, previous_system_time, set>>
    <3>1. Base' = Base /\ Lag' = Lag
      BY <1>3, <2>1 DEF Base, Lag
    <3> QED  BY <1>3, <2>1, <3>1 DEF ClockInv
  <2>2. ASSUME NEW new_time \in 0 .. 1, previous_system_time' = system_get_time,
               system_time_linux' = new_time, set' = [time |-> time, linux |-> new_time]
        PROVE  ClockInv'
    <3>1. time \in Nat /\ new_time \in Nat /\ new_time - new_time = 0
      BY DEF ClockInv
    <3>2. Base' = time /\ Lag' = 0
      BY <1>3, <2>2, <3>1 DEF Base, Lag
    <3>3. previous_system_time' = Base' % SysTime
      BY <2>2, <3>2 DEF system_get_time
    <3>4. 0 < Second + (Period["rtc"] + 1) * MaxSleep
      OBVIOUS
    <3>5. 0 < Second + cnt'["rtc"] * MaxSleep + (IF Waiting' THEN MaxSleep ELSE 0)
      <4>1. cnt'["rtc"] * MaxSleep \in Nat
        BY <1>3
      <4> QED  BY <4>1
    <3>6. {time', system_time_linux', set'.time, set'.linux, Base', Lag'} \subseteq Nat
      BY <1>3, <2>2, <3>1, <3>2
    <3> QED  BY <3>2, <3>3, <3>4, <3>5, <3>6 DEF ClockInv
  <2> QED  BY <2>1, <2>2 DEF protocol_client_sm_task
<1> QED  BY <1>1, <1>2, <1>4

LEMMA ActivateKeeps ==
    ASSUME CallbackInv, activate_sm
    PROVE  CallbackInv'
<1> USE DEF CallbackInv
<1>1. SameInsert
  BY DEF activate_sm, SameInsert, SameTree
<1>2. CASE UNCHANGED <<plan, pclb, clock>> /\ (dictionary_get_iterator \/ Iterate)
  <2>1. PlanInv' /\ LinkInv' /\ TaskInv' /\ ClockInv'
    BY <1>2, SameParts DEF pclb
  <2>2. DictionaryInv'
    BY <1>1, <1>2, BeginKeeps, LeftmostKeeps, IterateKeeps, ClimbKeeps DEF Iterate
  <2> QED  BY <2>1, <2>2
<1>3. CASE it' = NotIterating /\ visited' = {} /\ owed' = {} /\ Returns("sm") /\ UNCHANGED clock
  <2>1. PlanInv' /\ LinkInv' /\ TaskInv'
    BY <1>3, ReturnsKeeps, ConstantTypes
  <2>2. DictionaryInv'
    BY <1>1, <1>3, EndKeeps
  <2>3. ClockInv'
    <3>1. cnt'["rtc"] = cnt["rtc"] /\ Waiting' = Waiting
      BY <1>3, ConstantTypes DEF Returns, TaskInv, Waiting
    <3> QED  BY <1>3, <3>1 DEF ClockInv, clock, Base, Lag
  <2> QED  BY <2>1, <2>2, <2>3
<1> QED  BY <1>2, <1>3 DEF activate_sm

LEMMA CallbackInductive ==
    ASSUME CallbackInv, [Next]_vars
    PROVE  CallbackInv'
<1>1. CASE UNCHANGED vars
  BY <1>1, SameParts DEF CallbackInv, vars, pclb
<1>2. CASE Next
  BY <1>2, RegisterKeeps, ReadNumKeeps, WriteNumKeeps, SubscribeKeeps, TakeOverKeeps, CountKeeps,
     RtcKeeps, PcsmKeeps, ActivateKeeps DEF Next, CallbackThread
<1> QED  BY <1>1, <1>2

LEMMA CallbackAlways == Spec => []CallbackInv
BY InitCallback, CallbackInductive, PTL DEF Spec

\* Whatever is registered and subscribed, in whatever order, every variable keeps its type; clb_num,
\* whose increments get lost, counts at least one callback and never more than are linked.
THEOREM CallbackTypes == Spec => []TypeOK
<1>1. CallbackInv => TypeOK
  <2> SUFFICES ASSUME CallbackInv PROVE TypeOK
    OBVIOUS
  <2> USE ConstantTypes DEF CallbackInv
  <2>1. DictionaryTypeOK
    BY DEF DictionaryInv
  <2>2. \A n \in DOMAIN shadow : shadow[n] \in Callback
    BY DEF LinkInv
  <2>3. cnt \in [Callback -> Nat] /\ \A c \in Callback : cnt[c] <= Period[c] + 1
    <3> SUFFICES ASSUME NEW c \in Callback PROVE cnt[c] <= Period[c] + 1
      BY DEF TaskInv
    <3>1. cnt[c] <= Period[c] + (IF calling = c THEN 1 ELSE 0) /\ cnt[c] \in Nat /\ Period[c] \in Nat
      BY DEF TaskInv
    <3> QED  BY <3>1
  <2>4. clb_num \in 1 .. Len(shadow)
    <3>1. Cardinality(Busy) \in Nat /\ Len(shadow) \in Nat /\ clb_num \in Nat \ {0}
          /\ clb_num + Cardinality(Busy) <= Len(shadow)
      BY FS_CardinalityType DEF LinkInv
    <3> QED  BY <3>1
  <2>5. \A u \in User : user[u].step \in {"idle", "read", "write"} /\ user[u].num \in 0 .. Len(shadow)
    <3> SUFFICES ASSUME NEW u \in User
                 PROVE  user[u].step \in {"idle", "read", "write"} /\ user[u].num \in 0 .. Len(shadow)
      OBVIOUS
    <3>1. /\ user[u].step \in {"idle", "read", "write"} /\ user[u].num \in Nat
          /\ user[u].num <= Len(shadow) /\ Len(shadow) \in Nat
      BY DEF LinkInv
    <3> QED  BY <3>1
  <2>6. calling \in Callback \cup {None}
    BY DEF TaskInv
  <2>7. {time, system_time_linux, set.time, set.linux} \subseteq Nat
    BY DEF ClockInv
  <2>8. {system_get_time, previous_system_time} \subseteq 0 .. SysTime - 1
    <3>1. time \in Int /\ Base \in Int /\ previous_system_time = Base % SysTime
      BY DEF ClockInv
    <3>2. time % SysTime \in 0 .. SysTime - 1 /\ Base % SysTime \in 0 .. SysTime - 1
      BY <3>1, DivMod
    <3> QED  BY <3>1, <3>2 DEF system_get_time
  <2> QED  BY <2>1, <2>2, <2>3, <2>4, <2>5, <2>6, <2>7, <2>8 DEF TypeOK
<1> QED  BY <1>1, CallbackAlways, PTL

\* rtc_periodic and rtc_set, for every period, length of a second and range of the system time: as
\* long as the task is run before the system time comes round, no millisecond is lost or counted twice.
THEOREM ClockNeverDrifts == Spec => []ClockExact
<1>1. CallbackInv => ClockExact
  <2> SUFFICES ASSUME CallbackInv PROVE ClockExact
    OBVIOUS
  <2>1. Minus(system_get_time, previous_system_time) = Lag
    BY DiffIsLag DEF CallbackInv
  <2>2. /\ time \in Nat /\ set.time \in Nat /\ system_time_linux \in Nat /\ set.linux \in Nat
        /\ Base \in Nat /\ Base = set.time + (system_time_linux - set.linux) * Second
        /\ Lag = time - Base
    BY DEF CallbackInv, ClockInv, Base, Lag
  <2> DEFINE x == (system_time_linux - set.linux) * Second
  <2>3. x \in Int
    BY <2>2, ConstantTypes
  <2> HIDE DEF x
  <2>4. x + Lag = time - set.time
    BY <2>2, <2>3 DEF x
  <2> QED  BY <2>1, <2>4 DEF ClockExact, x
<1> QED  BY <1>1, CallbackAlways, PTL

\* The iterator of the dictionary against its insert, for every set of keys: the keys come in their
\* order, and an iteration that ends has returned every key that was in the tree when it began.
THEOREM IteratesAll == Spec => []IterationComplete
<1>1. CallbackInv => IterationComplete
  BY DEF CallbackInv, DictionaryInv, Iterates, IterationComplete
<1> QED  BY <1>1, CallbackAlways, PTL

-----------------------------------------------------------------------------
(***************************************************************************)
(* lookup, whose path is a recursive function: induction over the numbers. *)
(***************************************************************************)

\* A set that has 0 and with every number the next one has them all: the finite sets of numbers
\* below those that are missing would have a smallest one.
LEMMA SetInduction ==
    ASSUME NEW S, 0 \in S, \A n \in Nat : n \in S => n + 1 \in S
    PROVE  Nat \subseteq S
<1> SUFFICES ASSUME NEW k \in Nat, k \notin S PROVE FALSE
  OBVIOUS
<1> DEFINE T == {U \in FiniteSubsetsOf(Nat) : \E n \in Nat : n \notin S /\ U = 0 .. n - 1}
<1>1. \A n \in Nat : 0 .. n - 1 \in FiniteSubsetsOf(Nat)
  <2> SUFFICES ASSUME NEW n \in Nat PROVE 0 .. n - 1 \in FiniteSubsetsOf(Nat)
    OBVIOUS
  <2>1. n - 1 \in Int
    OBVIOUS
  <2>2. IsFiniteSet(0 .. n - 1)
    BY <2>1, FS_Interval
  <2>3. 0 .. n - 1 \subseteq Nat
    OBVIOUS
  <2> QED  BY <2>2, <2>3 DEF FiniteSubsetsOf
<1>2. 0 .. k - 1 \in T
  BY <1>1
<1>3. PICK U \in T : \A V \in T : ~ (<<V, U>> \in StrictSubsetOrdering(Nat))
  <2>1. T \subseteq FiniteSubsetsOf(Nat) /\ T # {}
    BY <1>2
  <2> HIDE DEF T
  <2> QED  BY <2>1, FS_StrictSubsetOrderingWellFounded, WFMin
<1>4. PICK n \in Nat : n \notin S /\ U = 0 .. n - 1
  BY <1>3
<1>5. n - 1 \in Nat /\ n - 1 \notin S
  <2>1. n # 0
    BY <1>4
  <2>2. n - 1 \in Nat /\ (n - 1) + 1 = n
    BY <2>1
  <2> QED  BY <1>4, <2>2
<1>6. 0 .. (n - 1) - 1 \in T
  BY <1>1, <1>5
<1>7. <<0 .. (n - 1) - 1, U>> \in StrictSubsetOrdering(Nat)
  <2>1. 0 .. (n - 1) - 1 \subseteq 0 .. n - 1 /\ 0 .. (n - 1) - 1 \in SUBSET Nat /\ 0 .. n - 1 \in SUBSET Nat
    BY <1>5
  <2>2. n - 1 \in 0 .. n - 1 /\ n - 1 \notin 0 .. (n - 1) - 1
    BY <1>5
  <2> QED  BY <1>4, <2>1, <2>2 DEF StrictSubsetOrdering
<1> QED  BY <1>3, <1>6, <1>7

\* Where lookup goes on from the node p.
Onward(key, p) ==
    IF p \in {NULL, key} THEN p ELSE IF key < p THEN left[p] ELSE right[p]

IsPath(f, key, n) == f = [i \in 0 .. n |-> IF i = 0 THEN root ELSE Onward(key, f[i - 1])]

\* The path has one node for every number of steps.
LEMMA PathExists ==
    ASSUME NEW key
    PROVE  \A n \in Nat : \E f : IsPath(f, key, n)
<1> DEFINE S == {n \in Nat : \E f : IsPath(f, key, n)}
<1>1. 0 \in S
  <2> DEFINE f == [i \in 0 .. 0 |-> root]
  <2>1. f = [i \in 0 .. 0 |-> IF i = 0 THEN root ELSE Onward(key, f[i - 1])]
    OBVIOUS
  <2> QED  BY <2>1 DEF IsPath
<1>2. ASSUME NEW n \in Nat, n \in S
      PROVE  n + 1 \in S
  <2>1. PICK f : IsPath(f, key, n)
    BY <1>2
  <2>2. f = [i \in 0 .. n |-> IF i = 0 THEN root ELSE Onward(key, f[i - 1])]
    BY <2>1 DEF IsPath
  <2> DEFINE g == [i \in 0 .. n + 1 |-> IF i = n + 1 THEN Onward(key, f[n]) ELSE f[i]]
  <2>3. \A i \in 0 .. n : g[i] = f[i]
    OBVIOUS
  <2>4. \A i \in 0 .. n + 1 : g[i] = IF i = 0 THEN root ELSE Onward(key, g[i - 1])
    <3> SUFFICES ASSUME NEW i \in 0 .. n + 1
                 PROVE  g[i] = IF i = 0 THEN root ELSE Onward(key, g[i - 1])
      OBVIOUS
    <3>1. CASE i = n + 1
      <4>1. i # 0 /\ i - 1 = n /\ n \in 0 .. n
        BY <3>1
      <4>2. g[i] = Onward(key, f[n])
        BY <3>1
      <4> HIDE DEF g
      <4> QED  BY <2>3, <4>1, <4>2
    <3>2. CASE i # n + 1 /\ i # 0
      <4>1. i \in 0 .. n /\ i - 1 \in 0 .. n
        BY <3>2
      <4>2. g[i] = f[i] /\ g[i - 1] = f[i - 1]
        BY <2>3, <4>1
      <4>3. f[i] = Onward(key, f[i - 1])
        BY <2>2, <3>2, <4>1
      <4> HIDE DEF g
      <4> QED  BY <3>2, <4>2, <4>3
    <3>3. CASE i = 0
      <4>1. i \in 0 .. n
        BY <3>3
      <4>2. g[i] = f[i] /\ f[i] = root
        BY <2>2, <2>3, <3>3, <4>1
      <4> HIDE DEF g
      <4> QED  BY <3>3, <4>2
    <3> QED  BY <3>1, <3>2, <3>3
  <2>5. DOMAIN g = 0 .. n + 1 /\ g = [i \in 0 .. n + 1 |-> g[i]]
    OBVIOUS
  <2> HIDE DEF g
  <2>6. g = [i \in 0 .. n + 1 |-> IF i = 0 THEN root ELSE Onward(key, g[i - 1])]
    BY <2>4, <2>5
  <2> QED  BY <2>6 DEF IsPath
<1> HIDE DEF S
<1>3. Nat \subseteq S
  BY <1>1, <1>2, SetInduction
<1> QED  BY <1>3 DEF S

LEMMA PathSteps ==
    ASSUME NEW key
    PROVE  /\ LookupPath(key)[0] = root
           /\ \A i \in 1 .. Cardinality(Key) :
                LookupPath(key)[i] = Onward(key, LookupPath(key)[i - 1])
<1> DEFINE n == Cardinality(Key)
           f == LookupPath(key)
<1>1. n \in Nat
  BY DictionaryAssumption, FS_CardinalityType
<1>2. f = CHOOSE path : IsPath(path, key, n)
  BY DEF LookupPath, IsPath, Onward
<1>3. IsPath(f, key, n)
  BY <1>1, <1>2, PathExists
<1>4. f = [i \in 0 .. n |-> IF i = 0 THEN root ELSE Onward(key, f[i - 1])]
  BY <1>3 DEF IsPath
<1> HIDE DEF f, n
<1>5. f[0] = root /\ \A i \in 1 .. n : f[i] = Onward(key, f[i - 1])
  BY <1>1, <1>4
<1> QED  BY <1>5 DEF f, n

\* The keys that may be below p, by its bounds.
Below(lo, hi, p) == {n \in Key : Over(n, lo[p]) /\ Under(n, hi[p])}

\* The path goes down by one level with each step, among fewer and fewer keys.
LEMMA OnwardShrinks ==
    ASSUME DictionaryTypeOK, NEW lo, NEW hi, Tree(lo, hi),
           NEW k \in Present, NEW p \in Present, k # p, k \in Below(lo, hi, p)
    PROVE  /\ Onward(k, p) \in Present
           /\ k \in Below(lo, hi, Onward(k, p))
           /\ Below(lo, hi, Onward(k, p)) \subseteq Below(lo, hi, p) \ {p}
           /\ p \in Below(lo, hi, p)
<1>1. /\ p \in Key /\ k \in Key /\ Key \subseteq Nat /\ p # NULL
      /\ lo \in [Key -> Pointer] /\ hi \in [Key -> Pointer]
  BY PresentKeys DEF Tree, Bounded
<1>2. /\ Over(k, lo[p]) /\ Under(k, hi[p]) /\ Over(p, lo[p]) /\ Under(p, hi[p])
      /\ lo[p] # NULL => lo[p] \in Nat
      /\ hi[p] # NULL => hi[p] \in Nat
  BY <1>1 DEF Tree, Bounded, Below, Pointer
<1>3. p \in Below(lo, hi, p)
  BY <1>1, <1>2 DEF Below
<1>4. CASE k < p
  <2>1. left[p] # NULL
    BY <1>1, <1>2, <1>4 DEF Tree, Dense, Over
  <2>2. Onward(k, p) = left[p]
    BY <1>1, <1>4 DEF Onward
  <2>3. left[p] \in Present /\ lo[left[p]] = lo[p] /\ hi[left[p]] = p
    BY <1>1, <2>1, ChildPresent DEF Tree, Linked
  <2>4. \A n \in Key : n < p => n # p /\ Under(n, hi[p])
    BY <1>1, <1>2 DEF Under
  <2>5. \A n \in Key : n \in Below(lo, hi, left[p]) <=> Over(n, lo[p]) /\ n < p
    BY <1>1, <2>3 DEF Below, Under
  <2>6. Below(lo, hi, left[p]) \subseteq Below(lo, hi, p) \ {p}
    BY <2>4, <2>5 DEF Below
  <2> QED  BY <1>1, <1>2, <1>3, <1>4, <2>2, <2>3, <2>5, <2>6
<1>5. CASE p < k
  <2>1. right[p] # NULL
    BY <1>1, <1>2, <1>5 DEF Tree, Dense, Under
  <2>2. Onward(k, p) = right[p]
    BY <1>1, <1>5 DEF Onward
  <2>3. right[p] \in Present /\ lo[right[p]] = p /\ hi[right[p]] = hi[p]
    BY <1>1, <2>1, ChildPresent DEF Tree, Linked
  <2>4. \A n \in Key : p < n => n # p /\ Over(n, lo[p])
    BY <1>1, <1>2 DEF Over
  <2>5. \A n \in Key : n \in Below(lo, hi, right[p]) <=> Under(n, hi[p]) /\ p < n
    BY <1>1, <2>3 DEF Below, Over
  <2>6. Below(lo, hi, right[p]) \subseteq Below(lo, hi, p) \ {p}
    BY <2>4, <2>5 DEF Below
  <2> QED  BY <1>1, <1>2, <1>3, <1>5, <2>2, <2>3, <2>5, <2>6
<1>6. k \in Nat /\ p \in Nat
  BY <1>1
<1>7. k < p \/ p < k
  BY <1>6
<1> QED  BY <1>4, <1>5, <1>7

LEMMA BelowFinite ==
    ASSUME NEW lo, NEW hi, NEW p
    PROVE  /\ IsFiniteSet(Below(lo, hi, p)) /\ Cardinality(Below(lo, hi, p)) \in Nat
           /\ Cardinality(Below(lo, hi, p)) <= Cardinality(Key)
<1>1. Below(lo, hi, p) \in SUBSET Key /\ IsFiniteSet(Key)
  BY DictionaryAssumption DEF Below
<1> QED  BY <1>1, FS_Subset, FS_CardinalityType

LEMMA TreeFinds ==
    ASSUME DictionaryTypeOK, NEW lo, NEW hi, Tree(lo, hi), NEW k \in Present
    PROVE  LookupPath(k)[Cardinality(Key)] = k
<1> DEFINE c == Cardinality(Key)
           path == LookupPath(k)
           Left(p) == Cardinality(Below(lo, hi, p))
           Near(i) == path[i] = k \/ /\ path[i] \in Present /\ k \in Below(lo, hi, path[i])
                                     /\ Left(path[i]) <= c - i
           S == {i \in Nat : i <= c => Near(i)}
<1>1. c \in Nat
  BY DictionaryAssumption, FS_CardinalityType
<1>2. path[0] = root /\ \A i \in 1 .. c : path[i] = Onward(k, path[i - 1])
  BY PathSteps
<1>3. k # NULL /\ k \in Key
  BY PresentKeys
<1>4. 0 \in S
  <2>1. root # NULL /\ lo[root] = NULL /\ hi[root] = NULL
    BY DEF Tree, Bounded
  <2>2. root \in Present /\ k \in Below(lo, hi, root)
    BY <1>3, <2>1 DEF DictionaryTypeOK, Pointer, Present, Below, Over, Under
  <2>3. Left(root) <= c /\ Left(root) \in Nat
    BY BelowFinite
  <2> HIDE DEF Left, path, c
  <2>4. Left(root) <= c - 0
    BY <1>1, <2>3
  <2>5. Near(0)
    BY <1>2, <2>2, <2>4
  <2> QED  BY <2>5
<1>5. ASSUME NEW i \in Nat, i \in S
      PROVE  i + 1 \in S
  <2> SUFFICES ASSUME i + 1 <= c PROVE Near(i + 1)
    OBVIOUS
  <2>1. i <= c /\ i + 1 \in 1 .. c /\ (i + 1) - 1 = i
    <3> HIDE DEF c
    <3> QED  BY <1>1
  <2>2. Near(i)
    BY <1>5, <2>1
  <2> DEFINE p == path[i]
  <2>3. path[i + 1] = Onward(k, p)
    <3> HIDE DEF path, c
    <3> QED  BY <1>2, <2>1
  <2>4. CASE p = k
    <3>1. Onward(k, p) = k
      BY <2>4 DEF Onward
    <3> QED  BY <2>3, <3>1
  <2>5. CASE p # k
    <3> DEFINE q == Onward(k, p)
    <3>1. p \in Present /\ k \in Below(lo, hi, p) /\ Left(p) <= c - i
      BY <2>2, <2>5
    <3>2. /\ q \in Present /\ k \in Below(lo, hi, q) /\ p \in Below(lo, hi, p)
          /\ Below(lo, hi, q) \subseteq Below(lo, hi, p) \ {p}
      BY <2>5, <3>1, OnwardShrinks
    <3> HIDE DEF q, p, path, c
    <3> DEFINE A == Below(lo, hi, p)
               B == Below(lo, hi, q)
    <3>3. IsFiniteSet(A) /\ IsFiniteSet(B) /\ Cardinality(A) \in Nat /\ Cardinality(B) \in Nat
      BY BelowFinite
    <3>4. p \in A /\ B \subseteq A \ {p} /\ Cardinality(A) <= c - i
      BY <3>1, <3>2
    <3> HIDE DEF A, B
    <3>5. IsFiniteSet(A \ {p}) /\ Cardinality(A \ {p}) = Cardinality(A) - 1
      BY <3>3, <3>4, FS_RemoveElement
    <3>6. Cardinality(B) <= Cardinality(A) - 1
      BY <3>4, <3>5, FS_Subset
    <3>7. Cardinality(B) <= c - (i + 1)
      BY <1>1, <3>3, <3>4, <3>6
    <3>8. Left(q) <= c - (i + 1)
      BY <3>7 DEF B
    <3> QED  BY <2>3, <3>2, <3>8 DEF q
  <2> QED  BY <2>4, <2>5
<1>6. Near(c)
  <2> HIDE DEF Near
  <2>1. Nat \subseteq S
    <3> HIDE DEF S
    <3> QED  BY <1>4, <1>5, SetInduction
  <2>2. c \in S /\ c <= c
    BY <1>1, <2>1
  <2> QED  BY <2>2
<1>7. CASE path[c] # k
  <2> DEFINE A == Below(lo, hi, path[c])
  <2>1. k \in A /\ Cardinality(A) <= c - c
    BY <1>6, <1>7
  <2>2. IsFiniteSet(A) /\ Cardinality(A) \in Nat
    BY BelowFinite
  <2> HIDE DEF A, path, c
  <2>3. Cardinality(A) = 0
    BY <1>1, <2>1, <2>2
  <2>4. A = {}
    BY <2>2, <2>3, FS_EmptySet
  <2> QED  BY <2>1, <2>4
<1> QED  BY <1>7

\* lookup against insert, for every set of keys: whatever pointer insert is about to store, every node
\* of the tree is found by its key, within as many steps as there are keys.
THEOREM EveryKeyFound == Spec => []LookupFinds
<1>1. CallbackInv => LookupFinds
  BY TreeFinds DEF CallbackInv, DictionaryInv, LookupFinds
<1> QED  BY <1>1, CallbackAlways, PTL

=============================================================================
