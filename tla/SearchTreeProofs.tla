-------------------------- MODULE SearchTreeProofs --------------------------
(***************************************************************************)
(* Proofs about SearchTree.                                                *)
(***************************************************************************)
EXTENDS SearchTree, SequenceTheorems, FiniteSetTheorems, WellFoundedInduction, TLAPS

Node ==
    [key : Keys, parent : Nat, children : Seq(Nat \ {0}), visits : Nat,
     sum : Finite \cup {Inf, NegInf}, best : Finite \cup {NegInf}]

(***************************************************************************)
(* A sound tree: what every sequence of calls and restarts keeps.          *)
(***************************************************************************)
WellFormed(t) ==
    /\ t = [root |-> t.root, nodes |-> t.nodes, index |-> t.index, persist |-> t.persist,
            config |-> t.config]
    /\ t.nodes \in Seq(Node)
    /\ t.root \in 1..Len(t.nodes)
    /\ t.persist \in BOOLEAN /\ t.config \in Configs

Indexed(t) ==
    /\ t.index = [k \in {t.nodes[i].key : i \in 1..Len(t.nodes)} |-> t.index[k]]
    /\ \A i \in 1..Len(t.nodes) : t.index[t.nodes[i].key] = i

Linked(t) ==
    /\ t.nodes[t.root].parent = 0
    /\ \A i \in 1..Len(t.nodes) : t.nodes[i].parent # 0 =>
           t.nodes[i].parent \in 1..Len(t.nodes) /\ i \in Kids(t, t.nodes[i].parent)
    /\ \A i \in 1..Len(t.nodes) : \A c \in Kids(t, i) :
           c \in 1..Len(t.nodes) /\ t.nodes[c].parent = i

Sound(t) == WellFormed(t) /\ Indexed(t) /\ Linked(t)

LEMMA LeastOf ==
    ASSUME NEW T, T \subseteq Nat, T # {}
    PROVE  \E x \in T : \A y \in T : x <= y
<1> DEFINE R == OpToRel(<, Nat)
<1>1. IsWellFoundedOn(R, Nat)
  BY NatLessThanWellFounded
<1> HIDE DEF R
<1>2. \E x \in T : \A y \in T : ~(<<y, x>> \in R)
  BY <1>1, WFMin
<1>3. \A x, y \in Nat : y < x => <<y, x>> \in R
  BY DEF R, OpToRel
<1>4. PICK x \in T : \A y \in T : ~(<<y, x>> \in R)
  BY <1>2
<1>5. ASSUME NEW y \in T PROVE x <= y
  <2>1. x \in Nat /\ y \in Nat
    OBVIOUS
  <2>2. ~(y < x)
    BY <1>3, <1>4, <2>1
  <2>. QED
    BY <2>1, <2>2
<1>. QED
  BY <1>5

(***************************************************************************)
(* Walks down from the root.                                               *)
(***************************************************************************)
Descends(t, p, m) ==
    /\ p \in [1..m -> 1..Len(t.nodes)]
    /\ m > 0 => p[1] = t.root
    /\ \A j \in 1..(m - 1) : p[j + 1] \in Kids(t, p[j])

\* A walk down from the root never comes back to a node: two nodes that are
\* the same have the same parent, and the root has none.
LEMMA NoReturn ==
    ASSUME NEW t, Sound(t), NEW m \in Nat, NEW p, Descends(t, p, m),
           NEW i \in 1..m, NEW j \in 1..m, p[i] = p[j]
    PROVE  i = j
<1> DEFINE S == {a \in 1..m : \E b \in 1..m : a < b /\ p[a] = p[b]}
<1> SUFFICES ASSUME S # {} PROVE FALSE
  <2>1. CASE i < j
    BY <2>1
  <2>2. CASE j < i
    BY <2>2
  <2>. QED
    BY <2>1, <2>2
<1>1. PICK a \in S : \A b \in S : a <= b
  <2>1. S \subseteq Nat
    OBVIOUS
  <2>. QED
    BY <2>1, LeastOf
<1>2. PICK b \in 1..m : a < b /\ p[a] = p[b]
  OBVIOUS
<1>3. a \in 1..m /\ b - 1 \in 1..(m - 1) /\ m > 0 /\ (b - 1) + 1 = b
  BY <1>2
<1>4. p[b] \in Kids(t, p[b - 1]) /\ p[b - 1] \in 1..Len(t.nodes)
  BY <1>3 DEF Descends
<1>5. t.nodes[p[b]].parent = p[b - 1] /\ p[b - 1] # 0
  BY <1>4 DEF Sound, Linked
<1>6. CASE a = 1
  BY <1>2, <1>3, <1>5, <1>6 DEF Descends, Sound, Linked
<1>7. CASE a # 1
  <2>1. a - 1 \in 1..(m - 1) /\ a - 1 \in 1..m /\ b - 1 \in 1..m /\ (a - 1) + 1 = a /\ a - 1 < b - 1
    BY <1>2, <1>3, <1>7
  <2>2. p[a] \in Kids(t, p[a - 1]) /\ p[a - 1] \in 1..Len(t.nodes)
    BY <2>1 DEF Descends
  <2>3. t.nodes[p[a]].parent = p[a - 1]
    BY <2>2 DEF Sound, Linked
  <2>4. p[a - 1] = p[b - 1]
    BY <1>2, <1>5, <2>3
  <2>5. a - 1 \in S
    BY <2>1, <2>4
  <2>. QED
    BY <1>1, <1>3, <2>5
<1>. QED
  BY <1>6, <1>7

\* No walk is longer than there are nodes.
LEMMA WalksEnd ==
    ASSUME NEW t, Sound(t), NEW p, Descends(t, p, Len(t.nodes) + 1)
    PROVE  FALSE
<1>1. PICK n \in Nat : n = Len(t.nodes)
  BY DEF Sound, WellFormed
<1>2. /\ IsFiniteSet(1..(n + 1)) /\ Cardinality(1..(n + 1)) = n + 1
      /\ IsFiniteSet(1..n) /\ Cardinality(1..n) = n
  <2>1. n + 1 \in Int /\ n \in Int /\ 1 \in Int
    BY <1>1
  <2>2. /\ IsFiniteSet(1..(n + 1)) /\ Cardinality(1..(n + 1)) = IF 1 > n + 1 THEN 0 ELSE n + 1 - 1 + 1
        /\ IsFiniteSet(1..n) /\ Cardinality(1..n) = IF 1 > n THEN 0 ELSE n - 1 + 1
    BY <2>1, FS_Interval
  <2>. QED
    BY <1>1, <2>2
<1>3. p \in [1..(n + 1) -> 1..n]
  BY <1>1 DEF Descends
<1>4. PICK x, y \in 1..(n + 1) : x # y /\ p[x] = p[y]
  <2>1. Cardinality(1..n) < Cardinality(1..(n + 1))
    BY <1>1, <1>2
  <2>. QED
    BY <1>2, <1>3, <2>1, FS_PigeonHole
<1>5. Descends(t, p, n + 1) /\ n + 1 \in Nat
  BY <1>1
<1>. QED
  BY <1>4, <1>5, NoReturn

(***************************************************************************)
(* One tree grown out of another.                                          *)
(***************************************************************************)
Grows(t, u) ==
    /\ u.root = t.root /\ u.persist = t.persist
    /\ Len(t.nodes) <= Len(u.nodes)
    /\ \A i \in 1..Len(t.nodes) :
         /\ u.nodes[i].key = t.nodes[i].key /\ u.nodes[i].parent = t.nodes[i].parent
         /\ Len(t.nodes[i].children) <= Len(u.nodes[i].children)
         /\ Kids(t, i) \subseteq Kids(u, i)
         /\ t.nodes[i].visits <= u.nodes[i].visits
         /\ t.nodes[i].visits = u.nodes[i].visits => t.nodes[i].sum = u.nodes[i].sum
         /\ t.nodes[i].best <= u.nodes[i].best

LEMMA FloatFacts ==
    /\ Finite \subseteq Int /\ 0 \in Finite
    /\ Inf \in Int /\ NegInf \in Int /\ NotFinite \in Int
    /\ Inf \notin Finite /\ NegInf \notin Finite /\ NotFinite \notin Finite
    /\ Inf # NegInf /\ NegInf # NotFinite /\ \A x \in Finite : NegInf < x
    /\ \A x \in Finite \cup {NegInf} : NegInf <= x
<1>1. FMax \in Nat
  BY SearchAssumption
<1>. QED
  BY <1>1 DEF Finite, Inf, NegInf, NotFinite

LEMMA NodeFacts ==
    ASSUME NEW t, Sound(t), NEW i \in 1..Len(t.nodes)
    PROVE  /\ t.nodes[i] \in Node /\ t.nodes[i].children \in Seq(Nat \ {0})
           /\ Len(t.nodes) \in Nat /\ Len(t.nodes[i].children) \in Nat
           /\ t.nodes[i].best \in Int /\ t.nodes[i].visits \in Nat /\ t.nodes[i].parent \in Nat
           /\ t.nodes[i].key \in Keys
<1>1. PICK s \in Seq(Node) : s = t.nodes
  BY DEF Sound, WellFormed
<1>2. PICK x \in Node : x = s[i]
  BY <1>1
<1>3. x.children \in Seq(Nat \ {0}) /\ x.best \in Int /\ x.visits \in Nat /\ x.parent \in Nat /\ x.key \in Keys
  BY FloatFacts DEF Node
<1>4. Len(s) \in Nat /\ Len(x.children) \in Nat
  BY <1>3
<1>. QED
  BY <1>1, <1>2, <1>3, <1>4

LEMMA GrowsSelf ==
    ASSUME NEW t, Sound(t)
    PROVE  Grows(t, t)
<1>1. Len(t.nodes) <= Len(t.nodes)
  BY DEF Sound, WellFormed
<1>2. ASSUME NEW i \in 1..Len(t.nodes)
      PROVE  /\ Len(t.nodes[i].children) <= Len(t.nodes[i].children)
             /\ t.nodes[i].visits <= t.nodes[i].visits
             /\ t.nodes[i].best <= t.nodes[i].best
  <2>1. Len(t.nodes[i].children) \in Nat /\ t.nodes[i].visits \in Nat /\ t.nodes[i].best \in Int
    BY NodeFacts
  <2>2. \A x \in Int : x <= x
    OBVIOUS
  <2>3. PICK x \in Nat : x = Len(t.nodes[i].children)
    BY <2>1
  <2>4. x <= x /\ t.nodes[i].visits <= t.nodes[i].visits
    BY <2>1
  <2>. QED
    BY <2>1, <2>2, <2>3, <2>4
<1>. QED
  BY <1>1, <1>2 DEF Grows

\* A key is in the index of a sound tree if some node has it.
LEMMA IndexFacts ==
    ASSUME NEW t, Sound(t), NEW k \in DOMAIN t.index
    PROVE  t.index[k] \in 1..Len(t.nodes) /\ t.nodes[t.index[k]].key = k /\ k \in Keys
<1>1. DOMAIN t.index = {t.nodes[i].key : i \in 1..Len(t.nodes)}
  BY DEF Sound, Indexed
<1>2. PICK i \in 1..Len(t.nodes) : k = t.nodes[i].key
  BY <1>1
<1>. QED
  BY <1>2, NodeFacts DEF Sound, Indexed, Node

LEMMA KeyIndexed ==
    ASSUME NEW t, Sound(t), NEW i \in 1..Len(t.nodes)
    PROVE  t.nodes[i].key \in DOMAIN t.index /\ t.index[t.nodes[i].key] = i
BY DEF Sound, Indexed

(***************************************************************************)
(* ensure_child: nothing changes, or one leaf is new.                      *)
(***************************************************************************)
NewLeaf(t, u, parent, key) ==
    /\ u = [root |-> t.root, nodes |-> u.nodes, index |-> u.index, persist |-> t.persist,
            config |-> t.config]
    /\ u.nodes \in Seq(Node) /\ Len(u.nodes) = Len(t.nodes) + 1
    /\ \A i \in 1..Len(t.nodes) : i # parent => u.nodes[i] = t.nodes[i]
    /\ u.nodes[parent] = [t.nodes[parent] EXCEPT !.children = Append(@, Len(t.nodes) + 1)]
    /\ u.nodes[Len(t.nodes) + 1] = NodeAt(key, parent)
    /\ u.index = [k \in DOMAIN t.index \cup {key} |->
                     IF k = key THEN Len(t.nodes) + 1 ELSE t.index[k]]

LEMMA EnsureForm ==
    ASSUME NEW t, Sound(t), NEW pk, NEW ck \in Keys, Ensurable(t, pk, ck)
    PROVE  /\ t.index[pk] \in 1..Len(t.nodes)
           /\ IF ck \in DOMAIN t.index THEN ensure_child(t, pk, ck) = t
              ELSE NewLeaf(t, ensure_child(t, pk, ck), t.index[pk], ck)
<1>1. PICK parent \in 1..Len(t.nodes) : parent = t.index[pk]
  BY IndexFacts DEF Ensurable
<1>2. CASE ck \in DOMAIN t.index
  <2>1. t.index[ck] \in 1..Len(t.nodes) /\ t.nodes[t.index[ck]].parent = parent /\ parent # 0
    BY <1>1, <1>2, IndexFacts DEF Ensurable
  <2>2. t.index[ck] \in Kids(t, parent)
    BY <2>1 DEF Sound, Linked
  <2>. QED
    BY <1>1, <1>2, <2>2 DEF ensure_child
<1>3. CASE ck \notin DOMAIN t.index
  <2>1. PICK n \in Nat : n = Len(t.nodes)
    BY DEF Sound, WellFormed
  <2>2. n + 1 \notin Kids(t, parent)
    BY <2>1, <1>1 DEF Sound, Linked
  <2>3. PICK old \in Seq(Node) : old = t.nodes
    BY DEF Sound, WellFormed
  <2>4. PICK mother \in Node : mother = [old[parent] EXCEPT !.children = Append(@, n + 1)]
    <3>1. old[parent] \in Node
      BY <1>1, <2>3
    <3>2. Append(old[parent].children, n + 1) \in Seq(Nat \ {0})
      BY <3>1, <2>1 DEF Node
    <3>. QED
      BY <3>1, <3>2 DEF Node
  <2>5. PICK adopted \in Seq(Node) : adopted = [old EXCEPT ![parent] = mother]
    <3>1. parent \in 1..Len(old)
      BY <1>1, <2>3
    <3>2. [old EXCEPT ![parent] = mother] \in Seq(Node)
      BY <3>1, ExceptSeq
    <3>. QED
      BY <3>2
  <2>6. Len(adopted) = n /\ adopted[parent] = mother
        /\ \A i \in 1..n : i # parent => adopted[i] = old[i]
    BY <1>1, <2>1, <2>3, <2>5
  <2>7. PICK leaf \in Node : leaf = NodeAt(ck, parent)
    <3>1. parent \in Nat /\ << >> \in Seq(Nat \ {0}) /\ 0 \in Nat
      BY <1>1, <2>1
    <3>2. NodeAt(ck, parent) \in Node
      BY <3>1, FloatFacts DEF NodeAt, Node
    <3>. QED
      BY <3>2
  <2>8. PICK nodes \in Seq(Node) : nodes = Append(adopted, leaf)
    BY <2>5, <2>7, AppendProperties
  <2>9. Len(nodes) = n + 1 /\ nodes[n + 1] = leaf /\ \A i \in 1..n : nodes[i] = adopted[i]
    BY <2>1, <2>6, <2>8, AppendProperties
  <2>10. PICK index : index = [k \in DOMAIN t.index \cup {ck} |->
                                  IF k = ck THEN n + 1 ELSE t.index[k]]
    OBVIOUS
  <2>11. ensure_child(t, pk, ck) =
           [root |-> t.root, nodes |-> nodes, index |-> index, persist |-> t.persist,
            config |-> t.config]
    <3>1. t.nodes # old \/ [t.nodes EXCEPT ![parent].children = Append(@, n + 1)] = adopted
      BY <2>4, <2>5
    <3>2. ensure_child(t, pk, ck) = [t EXCEPT !.nodes = nodes, !.index = index]
      BY <1>1, <1>3, <2>1, <2>2, <2>3, <2>7, <2>8, <2>10, <3>1 DEF ensure_child
    <3>3. t = [root |-> t.root, nodes |-> t.nodes, index |-> t.index, persist |-> t.persist,
               config |-> t.config]
      BY DEF Sound, WellFormed
    <3>. QED
      BY <3>2, <3>3
  <2>12. PICK u : u = ensure_child(t, pk, ck)
    OBVIOUS
  <2>13. u.nodes = nodes /\ u.index = index
    BY <2>11, <2>12
  <2>14. NewLeaf(t, u, parent, ck)
    BY <1>1, <2>1, <2>3, <2>4, <2>6, <2>7, <2>9, <2>10, <2>11, <2>12, <2>13 DEF NewLeaf
  <2>. QED
    BY <1>1, <1>3, <2>12, <2>14
<1>. QED
  BY <1>1, <1>2, <1>3

LEMMA AppendMembers ==
    ASSUME NEW S, NEW s \in Seq(S), NEW e \in S
    PROVE  Members(Append(s, e)) = Members(s) \cup {e}
<1>1. PICK u \in Seq(S) : u = Append(s, e)
  BY AppendProperties
<1>2. Len(s) \in Nat /\ Len(u) = Len(s) + 1 /\ u[Len(s) + 1] = e /\ \A i \in 1..Len(s) : u[i] = s[i]
  BY <1>1, AppendProperties
<1>3. Members(u) \subseteq Members(s) \cup {e}
  BY <1>2 DEF Members
<1>4. Members(s) \subseteq Members(u)
  BY <1>2 DEF Members
<1>5. e \in Members(u)
  BY <1>2 DEF Members
<1>. QED
  BY <1>1, <1>3, <1>4, <1>5

LeafFacts(t, u, parent, key, n) ==
    /\ Len(t.nodes) = n /\ Len(u.nodes) = n + 1 /\ u.root = t.root
    /\ u.persist = t.persist /\ u.config = t.config
    /\ \A i \in 1..n : i # parent => Kids(u, i) = Kids(t, i)
    /\ Kids(u, parent) = Kids(t, parent) \cup {n + 1}
    /\ Kids(u, n + 1) = {}
    /\ u.nodes[n + 1].key = key /\ u.nodes[n + 1].parent = parent
    /\ u.nodes[n + 1].visits = 0 /\ u.nodes[n + 1].best = NegInf
    /\ \A i \in 1..n :
         /\ u.nodes[i].key = t.nodes[i].key /\ u.nodes[i].parent = t.nodes[i].parent
         /\ u.nodes[i].visits = t.nodes[i].visits /\ u.nodes[i].best = t.nodes[i].best
         /\ u.nodes[i].sum = t.nodes[i].sum
         /\ Len(t.nodes[i].children) <= Len(u.nodes[i].children)

LEMMA NewLeafKids ==
    ASSUME NEW t, Sound(t), NEW u, NEW parent \in 1..Len(t.nodes), NEW key,
           NewLeaf(t, u, parent, key)
    PROVE  \E n \in Nat : LeafFacts(t, u, parent, key, n)
<1>1. PICK n \in Nat : n = Len(t.nodes)
  BY DEF Sound, WellFormed
<1>2. PICK s \in Seq(Nat \ {0}) : s = t.nodes[parent].children
  BY NodeFacts
<1>3. t.nodes[parent] \in Node
  BY NodeFacts
<1>4. /\ u.nodes[parent].children = Append(s, n + 1)
      /\ u.nodes[parent].key = t.nodes[parent].key /\ u.nodes[parent].parent = t.nodes[parent].parent
      /\ u.nodes[parent].visits = t.nodes[parent].visits /\ u.nodes[parent].best = t.nodes[parent].best
      /\ u.nodes[parent].sum = t.nodes[parent].sum
  BY <1>1, <1>2, <1>3 DEF NewLeaf, Node
<1>5. Kids(u, parent) = Kids(t, parent) \cup {n + 1}
  <2>1. n + 1 \in Nat \ {0}
    BY <1>1
  <2>2. Members(Append(s, n + 1)) = Members(s) \cup {n + 1}
    BY <2>1, AppendMembers
  <2>. QED
    BY <1>2, <1>4, <2>2 DEF Kids
<1>6. Len(s) \in Nat /\ Len(s) <= Len(Append(s, n + 1))
  BY <1>1, AppendProperties
<1>7. Kids(u, n + 1) = {}
  <2>1. u.nodes[n + 1].children = << >>
    BY <1>1 DEF NewLeaf, NodeAt
  <2>. QED
    BY <2>1 DEF Kids, Members
<1>8. \A i \in 1..n : i # parent => u.nodes[i] = t.nodes[i] /\ Kids(u, i) = Kids(t, i)
  BY <1>1 DEF NewLeaf, Kids
<1>9. \A i \in 1..n : Len(t.nodes[i].children) <= Len(u.nodes[i].children)
  <2> SUFFICES ASSUME NEW i \in 1..n PROVE Len(t.nodes[i].children) <= Len(u.nodes[i].children)
    OBVIOUS
  <2>1. Len(t.nodes[i].children) \in Nat
    BY <1>1, NodeFacts
  <2>2. CASE i = parent
    BY <2>2, <1>2, <1>4, <1>6
  <2>3. CASE i # parent
    BY <2>1, <2>3, <1>8
  <2>. QED
    BY <2>2, <2>3
<1>10. u.nodes[n + 1].key = key /\ u.nodes[n + 1].parent = parent
       /\ u.nodes[n + 1].visits = 0 /\ u.nodes[n + 1].best = NegInf
  BY <1>1 DEF NewLeaf, NodeAt
<1>11. Len(u.nodes) = n + 1 /\ u.root = t.root /\ u.persist = t.persist /\ u.config = t.config
  BY <1>1 DEF NewLeaf
<1>12. \A i \in 1..n :
         /\ u.nodes[i].key = t.nodes[i].key /\ u.nodes[i].parent = t.nodes[i].parent
         /\ u.nodes[i].visits = t.nodes[i].visits /\ u.nodes[i].best = t.nodes[i].best
         /\ u.nodes[i].sum = t.nodes[i].sum
  BY <1>4, <1>8
<1>. QED
  BY <1>1, <1>5, <1>7, <1>8, <1>9, <1>10, <1>11, <1>12 DEF LeafFacts

LEMMA NewLeafGrows ==
    ASSUME NEW t, Sound(t), NEW u, NEW parent \in 1..Len(t.nodes), NEW key,
           NewLeaf(t, u, parent, key)
    PROVE  Grows(t, u)
<1>1. PICK n \in Nat : LeafFacts(t, u, parent, key, n)
  BY NewLeafKids
<1>2. n = Len(t.nodes) /\ Len(t.nodes) <= Len(u.nodes)
  BY <1>1 DEF LeafFacts
<1>3. ASSUME NEW i \in 1..n
      PROVE  /\ t.nodes[i].visits <= u.nodes[i].visits
             /\ t.nodes[i].best <= u.nodes[i].best
             /\ Kids(t, i) \subseteq Kids(u, i)
  <2>1. t.nodes[i].visits \in Nat /\ t.nodes[i].best \in Int
    BY <1>2, NodeFacts
  <2>. QED
    BY <1>1, <2>1 DEF LeafFacts
<1>. QED
  BY <1>1, <1>2, <1>3 DEF Grows, LeafFacts

LEMMA NewLeafSound ==
    ASSUME NEW t, Sound(t), NEW u, NEW parent \in 1..Len(t.nodes), NEW key,
           key \notin DOMAIN t.index, NewLeaf(t, u, parent, key)
    PROVE  Sound(u)
<1>1. PICK n \in Nat : LeafFacts(t, u, parent, key, n)
  BY NewLeafKids
<1>2. Len(u.nodes) = n + 1 /\ u.root = t.root /\ n = Len(t.nodes)
      /\ u.persist = t.persist /\ u.config = t.config
  BY <1>1 DEF LeafFacts
<1>3. /\ \A i \in 1..n : u.nodes[i].key = t.nodes[i].key /\ u.nodes[i].parent = t.nodes[i].parent
      /\ u.nodes[n + 1].key = key /\ u.nodes[n + 1].parent = parent
  BY <1>1 DEF LeafFacts
<1>4. WellFormed(u)
  BY <1>2 DEF WellFormed, NewLeaf, Sound
<1>5. Indexed(u)
  <2>1. DOMAIN t.index = {t.nodes[i].key : i \in 1..n}
    BY <1>2 DEF Sound, Indexed
  <2>2. {u.nodes[i].key : i \in 1..(n + 1)} = DOMAIN t.index \cup {key}
    <3>1. ASSUME NEW i \in 1..(n + 1) PROVE u.nodes[i].key \in DOMAIN t.index \cup {key}
      <4>1. CASE i \in 1..n
        BY <1>3, <2>1, <4>1
      <4>2. CASE i = n + 1
        BY <1>3, <4>2
      <4>. QED
        BY <4>1, <4>2
    <3>2. ASSUME NEW k \in DOMAIN t.index PROVE \E i \in 1..(n + 1) : k = u.nodes[i].key
      BY <1>3, <2>1
    <3>3. \E i \in 1..(n + 1) : key = u.nodes[i].key
      BY <1>3
    <3>. QED
      BY <3>1, <3>2, <3>3
  <2>3. DOMAIN u.index = DOMAIN t.index \cup {key} /\ u.index = [k \in DOMAIN t.index \cup {key} |-> u.index[k]]
    BY DEF NewLeaf
  <2>4. ASSUME NEW i \in 1..(n + 1) PROVE u.index[u.nodes[i].key] = i
    <3>1. CASE i = n + 1
      BY <1>2, <1>3, <3>1 DEF NewLeaf
    <3>2. CASE i \in 1..n
      <4>1. t.nodes[i].key \in DOMAIN t.index /\ t.index[t.nodes[i].key] = i
        BY <1>2, <3>2, KeyIndexed
      <4>. QED
        BY <1>3, <3>2, <4>1 DEF NewLeaf
    <3>. QED
      BY <3>1, <3>2
  <2>. QED
    BY <1>2, <2>2, <2>3, <2>4 DEF Indexed
<1>6. Linked(u)
  <2>1. u.nodes[u.root].parent = 0
    BY <1>2, <1>3 DEF Sound, Linked, WellFormed
  <2>2. ASSUME NEW i \in 1..(n + 1), u.nodes[i].parent # 0
        PROVE  u.nodes[i].parent \in 1..(n + 1) /\ i \in Kids(u, u.nodes[i].parent)
    <3>1. CASE i = n + 1
      BY <1>1, <1>2, <3>1 DEF LeafFacts
    <3>2. CASE i \in 1..n
      <4>1. t.nodes[i].parent \in 1..n /\ i \in Kids(t, t.nodes[i].parent)
        BY <1>2, <1>3, <2>2, <3>2 DEF Sound, Linked
      <4>2. Kids(t, t.nodes[i].parent) \subseteq Kids(u, t.nodes[i].parent)
        BY <1>1, <4>1 DEF LeafFacts
      <4>. QED
        BY <1>3, <3>2, <4>1, <4>2
    <3>. QED
      BY <3>1, <3>2
  <2>3. ASSUME NEW i \in 1..(n + 1), NEW c \in Kids(u, i)
        PROVE  c \in 1..(n + 1) /\ u.nodes[c].parent = i
    <3>1. i \in 1..n
      BY <1>1, <2>3 DEF LeafFacts
    <3>2. c \in Kids(t, i) \/ (i = parent /\ c = n + 1)
      BY <1>1, <2>3, <3>1 DEF LeafFacts
    <3>3. c \in Kids(t, i) => c \in 1..n /\ t.nodes[c].parent = i
      BY <1>2, <3>1 DEF Sound, Linked
    <3>. QED
      BY <1>3, <3>1, <3>2, <3>3
  <2>. QED
    BY <1>2, <2>1, <2>2, <2>3 DEF Linked
<1>. QED
  BY <1>4, <1>5, <1>6 DEF Sound

(***************************************************************************)
(* backpropagate_path: the shape of the tree stays as it is.               *)
(***************************************************************************)
LEMMA FcnSeq ==
    ASSUME NEW S, NEW n \in Nat, NEW f \in [1..n -> S]
    PROVE  f \in Seq(S) /\ Len(f) = n
OBVIOUS

LEMMA FAddType ==
    ASSUME NEW a \in Finite \cup {Inf, NegInf}, NEW b \in Int
    PROVE  FAdd(a, b) \in Finite \cup {Inf, NegInf}
<1>0. FMax \in Nat /\ a \in Int
  BY SearchAssumption, FloatFacts
<1>1. CASE a \notin Finite
  BY <1>1 DEF FAdd
<1>2. CASE a \in Finite /\ a + b > FMax
  BY <1>2 DEF FAdd
<1>3. CASE a \in Finite /\ a + b < -FMax
  <2>1. ~(a + b > FMax)
    BY <1>0, <1>3
  <2>. QED
    BY <1>3, <2>1 DEF FAdd
<1>4. CASE a \in Finite /\ ~(a + b > FMax) /\ ~(a + b < -FMax)
  <2>1. a + b \in Finite
    BY <1>0, <1>4 DEF Finite
  <2>2. FAdd(a, b) = a + b
    BY <1>4 DEF FAdd
  <2>. QED
    BY <2>1, <2>2
<1>. QED
  BY <1>1, <1>2, <1>3, <1>4

Times(t, path, n) == Cardinality({i \in Counted(t, path) : t.index[path[i]] = n})

LEMMA TimesType ==
    ASSUME NEW t, NEW path \in Seq(Keys), NEW n
    PROVE  Times(t, path, n) \in Nat
<1>1. {i \in Counted(t, path) : t.index[path[i]] = n} \subseteq 1..Len(path)
  BY DEF Counted
<1>2. IsFiniteSet(1..Len(path))
  <2>1. 1 \in Int /\ Len(path) \in Int
    OBVIOUS
  <2>. QED
    BY <2>1, FS_Interval
<1>3. IsFiniteSet({i \in Counted(t, path) : t.index[path[i]] = n})
  BY <1>1, <1>2, FS_Subset
<1>. QED
  BY <1>3, FS_CardinalityType DEF Times

\* A node after a reward was counted at it so many times.
Credited(node, times, reward) ==
    IF times = 0 THEN node
    ELSE [node EXCEPT !.visits = @ + times, !.sum = FAdd(@, times * reward),
                      !.best = IF reward > @ THEN reward ELSE @]

LEMMA CreditedFacts ==
    ASSUME NEW node \in Node, NEW times \in Nat, NEW reward \in Finite
    PROVE  /\ Credited(node, times, reward) \in Node
           /\ Credited(node, times, reward).key = node.key
           /\ Credited(node, times, reward).parent = node.parent
           /\ Credited(node, times, reward).children = node.children
           /\ Credited(node, times, reward).visits = node.visits + times
           /\ Credited(node, times, reward).best =
                IF times # 0 /\ reward > node.best THEN reward ELSE node.best
           /\ node.best <= Credited(node, times, reward).best
           /\ times = 0 => Credited(node, times, reward).sum = node.sum
<1>0. reward \in Int /\ times * reward \in Int /\ node.best \in Int /\ node.visits \in Nat
  <2>1. reward \in Int /\ node.best \in Int /\ node.visits \in Nat
    BY FloatFacts DEF Node
  <2>2. \A x, y \in Int : x * y \in Int
    OBVIOUS
  <2>. QED
    BY <2>1, <2>2
<1>1. CASE times = 0
  BY <1>0, <1>1 DEF Credited, Node
<1>2. CASE times # 0
  <2>1. PICK sum \in Finite \cup {Inf, NegInf} : sum = FAdd(node.sum, times * reward)
    BY <1>0, FAddType DEF Node
  <2>2. PICK best \in Finite \cup {NegInf} : best = IF reward > node.best THEN reward ELSE node.best
    BY DEF Node
  <2>3. Credited(node, times, reward) = [node EXCEPT !.visits = @ + times, !.sum = sum, !.best = best]
    BY <1>2, <2>1, <2>2 DEF Credited
  <2>4. node.best <= best
    BY <1>0, <2>2
  <2>5. PICK visits \in Nat : visits = node.visits + times
    BY <1>0
  <2>6. PICK c : c = [node EXCEPT !.visits = visits, !.sum = sum, !.best = best]
    OBVIOUS
  <2>7. c \in Node
    BY <2>6 DEF Node
  <2>8. c.key = node.key /\ c.parent = node.parent /\ c.children = node.children
        /\ c.visits = visits /\ c.best = best
    BY <2>6 DEF Node
  <2>9. Credited(node, times, reward) = c
    BY <2>3, <2>5, <2>6
  <2>. QED
    BY <1>2, <2>2, <2>4, <2>5, <2>7, <2>8, <2>9
<1>. QED
  BY <1>1, <1>2

Rewarded(t, u, path, reward) ==
    /\ u = [root |-> t.root, nodes |-> u.nodes, index |-> t.index, persist |-> t.persist,
            config |-> t.config]
    /\ u.nodes \in Seq(Node) /\ Len(u.nodes) = Len(t.nodes)
    /\ \A n \in 1..Len(t.nodes) : u.nodes[n] = Credited(t.nodes[n], Times(t, path, n), reward)

LEMMA BackForm ==
    ASSUME NEW t, Sound(t), NEW path \in Seq(Keys), NEW reward \in Finite
    PROVE  Rewarded(t, backpropagate_path(t, path, reward), path, reward)
<1>1. PICK m \in Nat : m = Len(t.nodes)
  BY DEF Sound, WellFormed
<1>2. PICK f : f = [n \in 1..m |-> Credited(t.nodes[n], Times(t, path, n), reward)]
  OBVIOUS
<1>3. f \in [1..m -> Node]
  <2>1. ASSUME NEW n \in 1..m PROVE Credited(t.nodes[n], Times(t, path, n), reward) \in Node
    BY <1>1, NodeFacts, TimesType, CreditedFacts
  <2>. QED
    BY <1>2, <2>1
<1>4. f \in Seq(Node) /\ Len(f) = m
  BY <1>3, FcnSeq
<1>5. backpropagate_path(t, path, reward) = [t EXCEPT !.nodes = f]
  BY <1>1, <1>2 DEF backpropagate_path, Credited, Times
<1>6. t = [root |-> t.root, nodes |-> t.nodes, index |-> t.index, persist |-> t.persist,
           config |-> t.config]
  BY DEF Sound, WellFormed
<1>7. backpropagate_path(t, path, reward) =
        [root |-> t.root, nodes |-> f, index |-> t.index, persist |-> t.persist, config |-> t.config]
  BY <1>5, <1>6
<1>. QED
  BY <1>1, <1>2, <1>4, <1>7 DEF Rewarded

LEMMA RewardedNodes ==
    ASSUME NEW t, Sound(t), NEW u, NEW path \in Seq(Keys), NEW reward \in Finite,
           Rewarded(t, u, path, reward), NEW n \in 1..Len(t.nodes)
    PROVE  /\ u.nodes[n] \in Node
           /\ u.nodes[n].key = t.nodes[n].key /\ u.nodes[n].parent = t.nodes[n].parent
           /\ u.nodes[n].children = t.nodes[n].children /\ Kids(u, n) = Kids(t, n)
           /\ u.nodes[n].visits = t.nodes[n].visits + Times(t, path, n)
           /\ t.nodes[n].best <= u.nodes[n].best
           /\ t.nodes[n].visits <= u.nodes[n].visits
           /\ t.nodes[n].visits = u.nodes[n].visits => t.nodes[n].sum = u.nodes[n].sum
<1>1. PICK node \in Node : node = t.nodes[n]
  BY NodeFacts
<1>2. PICK times \in Nat : times = Times(t, path, n)
  BY TimesType
<1>3. u.nodes[n] = Credited(node, times, reward)
  BY <1>1, <1>2 DEF Rewarded
<1>4. node.visits \in Nat
  BY DEF Node
<1>5. /\ u.nodes[n] \in Node
      /\ u.nodes[n].key = node.key /\ u.nodes[n].parent = node.parent
      /\ u.nodes[n].children = node.children
      /\ u.nodes[n].visits = node.visits + times
      /\ node.best <= u.nodes[n].best
      /\ times = 0 => u.nodes[n].sum = node.sum
  BY <1>3, CreditedFacts
<1>6. node.visits <= node.visits + times /\ (node.visits = node.visits + times => times = 0)
  BY <1>4
<1>. QED
  BY <1>1, <1>2, <1>5, <1>6 DEF Kids

LEMMA RewardedGrows ==
    ASSUME NEW t, Sound(t), NEW u, NEW path \in Seq(Keys), NEW reward \in Finite,
           Rewarded(t, u, path, reward)
    PROVE  Grows(t, u) /\ Sound(u)
<1>1. PICK m \in Nat : m = Len(t.nodes)
  BY DEF Sound, WellFormed
<1>2. Len(u.nodes) = m /\ u.root = t.root /\ u.index = t.index
      /\ u.persist = t.persist /\ u.config = t.config
  BY <1>1 DEF Rewarded
<1>3. \A n \in 1..m : /\ u.nodes[n].key = t.nodes[n].key /\ u.nodes[n].parent = t.nodes[n].parent
                      /\ u.nodes[n].children = t.nodes[n].children /\ Kids(u, n) = Kids(t, n)
                      /\ t.nodes[n].best <= u.nodes[n].best
                      /\ t.nodes[n].visits <= u.nodes[n].visits
                      /\ t.nodes[n].visits = u.nodes[n].visits => t.nodes[n].sum = u.nodes[n].sum
                      /\ Len(t.nodes[n].children) \in Nat
  BY <1>1, RewardedNodes, NodeFacts
<1>4. Grows(t, u)
  <2>1. \A n \in 1..m : Len(t.nodes[n].children) <= Len(u.nodes[n].children)
    BY <1>3
  <2>2. m <= m
    BY <1>1
  <2>. QED
    BY <1>1, <1>2, <1>3, <2>1, <2>2 DEF Grows
<1>5. WellFormed(u)
  BY <1>1, <1>2 DEF WellFormed, Rewarded, Sound
<1>6. Indexed(u)
  <2>1. {u.nodes[i].key : i \in 1..m} = {t.nodes[i].key : i \in 1..m}
    BY <1>3
  <2>2. t.index = [k \in {t.nodes[i].key : i \in 1..m} |-> t.index[k]]
    BY <1>1 DEF Sound, Indexed
  <2>3. \A i \in 1..m : t.index[t.nodes[i].key] = i
    BY <1>1 DEF Sound, Indexed
  <2>. QED
    BY <1>2, <1>3, <2>1, <2>2, <2>3 DEF Indexed
<1>7. Linked(u)
  <2>1. t.root \in 1..m /\ t.nodes[t.root].parent = 0
    BY <1>1 DEF Sound, Linked, WellFormed
  <2>2. ASSUME NEW i \in 1..m, u.nodes[i].parent # 0
        PROVE  u.nodes[i].parent \in 1..m /\ i \in Kids(u, u.nodes[i].parent)
    <3>1. t.nodes[i].parent \in 1..m /\ i \in Kids(t, t.nodes[i].parent)
      BY <1>1, <1>3, <2>2 DEF Sound, Linked
    <3>. QED
      BY <1>3, <3>1
  <2>3. ASSUME NEW i \in 1..m, NEW c \in Kids(u, i)
        PROVE  c \in 1..m /\ u.nodes[c].parent = i
    <3>1. c \in 1..m /\ t.nodes[c].parent = i
      BY <1>1, <1>3 DEF Sound, Linked
    <3>. QED
      BY <1>3, <3>1
  <2>. QED
    BY <1>2, <1>3, <2>1, <2>2, <2>3 DEF Linked
<1>. QED
  BY <1>4, <1>5, <1>6, <1>7 DEF Sound

(***************************************************************************)
(* The file.                                                               *)
(***************************************************************************)
Files == PersistedMcts \cup {Missing, Torn}

\* A node as from_persisted makes it of what the file holds, read by r, and
\* the other way round.
Loaded(node, r) ==
    [node EXCEPT !.sum = r[@], !.best = IF @ \in Finite THEN r[@] ELSE NegInf]

Stored(node) ==
    [node EXCEPT !.sum = IF @ \in Finite THEN @ ELSE NotFinite,
                 !.best = IF @ \in Finite THEN @ ELSE NotFinite]

LEMMA RereadFacts ==
    ASSUME NEW r \in Rereads, NEW x \in Finite
    PROVE  r[x] \in Finite /\ r[x] \in Int /\ Near(r[x], x) /\ x <= r[x] + 1
<1>1. r[x] \in Finite /\ Near(r[x], x)
  BY DEF Rereads
<1>2. r[x] \in Int /\ x \in Int
  BY <1>1, FloatFacts
<1>3. x <= r[x] + 1
  BY <1>1, <1>2 DEF Near
<1>. QED
  BY <1>1, <1>2, <1>3

LEMMA LoadedFacts ==
    ASSUME NEW node \in PersistedNode, node.sum \in Finite, NEW r \in Rereads
    PROVE  /\ Loaded(node, r) \in Node
           /\ Loaded(node, r).key = node.key /\ Loaded(node, r).parent = node.parent
           /\ Loaded(node, r).children = node.children /\ Loaded(node, r).visits = node.visits
           /\ Near(Loaded(node, r).sum, node.sum)
           /\ node.best # NotFinite =>
                /\ Loaded(node, r).best \in Finite /\ Near(Loaded(node, r).best, node.best)
                /\ node.best <= Loaded(node, r).best + 1
           /\ node.best = NotFinite => Loaded(node, r).best = NegInf
<1>1. PICK best \in Finite \cup {NegInf} : best = IF node.best \in Finite THEN r[node.best] ELSE NegInf
  BY RereadFacts
<1>2. PICK sum \in Finite : sum = r[node.sum]
  BY RereadFacts
<1>3. PICK x : x = [node EXCEPT !.sum = sum, !.best = best]
  OBVIOUS
<1>4. x \in Node
  BY <1>3 DEF Node, PersistedNode
<1>5. x.key = node.key /\ x.parent = node.parent /\ x.children = node.children
      /\ x.visits = node.visits /\ x.sum = sum /\ x.best = best
  BY <1>3 DEF PersistedNode
<1>6. Loaded(node, r) = x
  BY <1>1, <1>2, <1>3 DEF Loaded
<1>7. Near(sum, node.sum)
  BY <1>2, RereadFacts
<1>8. node.best \in Finite \cup {NotFinite} /\ NotFinite \notin Finite
  BY FloatFacts DEF PersistedNode
<1>9. ASSUME node.best # NotFinite
      PROVE  best \in Finite /\ Near(best, node.best) /\ node.best <= best + 1
  <2>1. node.best \in Finite /\ best = r[node.best]
    BY <1>1, <1>8, <1>9
  <2>. QED
    BY <2>1, RereadFacts
<1>10. node.best = NotFinite => best = NegInf
  BY <1>1, <1>8
<1>. QED
  BY <1>4, <1>5, <1>6, <1>7, <1>9, <1>10

LEMMA StoredFacts ==
    ASSUME NEW node \in Node
    PROVE  /\ Stored(node) \in PersistedNode
           /\ Stored(node).key = node.key /\ Stored(node).parent = node.parent
           /\ Stored(node).children = node.children /\ Stored(node).visits = node.visits
           /\ Stored(node).best # NotFinite => Stored(node).best = node.best
           /\ Stored(node).best = NotFinite <=> node.best = NegInf
           /\ Stored(node).sum \in Finite <=> node.sum \in Finite
           /\ Stored(node).sum \in Finite => Stored(node).sum = node.sum
<1>1. PICK sum \in Finite \cup {NotFinite} : sum = IF node.sum \in Finite THEN node.sum ELSE NotFinite
  OBVIOUS
<1>2. PICK best \in Finite \cup {NotFinite} : best = IF node.best \in Finite THEN node.best ELSE NotFinite
  OBVIOUS
<1>3. PICK x : x = [node EXCEPT !.sum = sum, !.best = best]
  OBVIOUS
<1>4. x \in PersistedNode
  BY <1>3 DEF Node, PersistedNode
<1>5. x.key = node.key /\ x.parent = node.parent /\ x.children = node.children
      /\ x.visits = node.visits /\ x.best = best /\ x.sum = sum
  BY <1>3 DEF Node
<1>6. Stored(node) = x
  BY <1>1, <1>2, <1>3 DEF Stored
<1>7. /\ best # NotFinite => best = node.best
      /\ sum \in Finite <=> node.sum \in Finite
      /\ sum \in Finite => sum = node.sum
  BY <1>1, <1>2, FloatFacts
<1>8. best = NotFinite <=> node.best = NegInf
  BY <1>2, FloatFacts DEF Node
<1>. QED
  BY <1>4, <1>5, <1>6, <1>7, <1>8

LEMMA AcceptedFacts ==
    ASSUME NEW f \in Files, Accepted(f)
    PROVE  \E n \in Nat :
             /\ n = Len(f.nodes) /\ f.nodes \in Seq(PersistedNode)
             /\ f.root \in 1..n /\ f.nodes[f.root].parent = 0
             /\ \A i \in 1..n : f.nodes[i] \in PersistedNode /\ f.nodes[i].sum \in Finite
             /\ \A i, j \in 1..n : f.nodes[i].key = f.nodes[j].key => i = j
             /\ \A i \in 1..n : f.nodes[i].parent # 0 =>
                  f.nodes[i].parent \in 1..n /\ i \in Members(f.nodes[f.nodes[i].parent].children)
             /\ \A i \in 1..n : \A c \in Members(f.nodes[i].children) :
                  c \in 1..n /\ f.nodes[c].parent = i
<1>1. f \in PersistedMcts
  BY DEF Files, Accepted, Missing, Torn
<1>2. PICK s \in Seq(PersistedNode) : s = f.nodes
  BY <1>1 DEF PersistedMcts
<1>3. PICK n \in Nat : n = Len(s)
  OBVIOUS
<1>4. \A i \in 1..n : s[i] \in PersistedNode
  BY <1>3
<1>5. \A i \in 1..n : s[i].parent \in Nat /\ s[i].children \in Seq(Nat \ {0})
  BY <1>4 DEF PersistedNode
<1>6. \A i \in 1..n : s[i].parent # 0 => s[i].parent \in 1..n /\ i \in Members(s[s[i].parent].children)
  BY <1>2, <1>3, <1>5 DEF Accepted
<1>7. ASSUME NEW i \in 1..n, NEW c \in Members(s[i].children) PROVE c \in 1..n /\ s[c].parent = i
  <2>1. c \in Nat \ {0}
    <3>1. PICK q \in Seq(Nat \ {0}) : q = s[i].children
      BY <1>5
    <3>2. PICK k \in 1..Len(q) : c = q[k]
      BY <3>1, <1>7 DEF Members
    <3>. QED
      BY <3>2
  <2>. QED
    BY <1>2, <1>3, <1>7, <2>1 DEF Accepted
<1>8. /\ f.root \in 1..n /\ s[f.root].parent = 0
      /\ \A i \in 1..n : s[i].sum \in Finite
      /\ \A i, j \in 1..n : s[i].key = s[j].key => i = j
  BY <1>2, <1>3 DEF Accepted
<1>. QED
  BY <1>2, <1>3, <1>4, <1>6, <1>7, <1>8

\* The tree from_persisted makes of a file.
IsLoaded(f, t, r, persist, config) ==
    /\ t = [root |-> f.root, nodes |-> t.nodes, index |-> t.index, persist |-> persist,
            config |-> config]
    /\ t.nodes \in Seq(Node) /\ Len(t.nodes) = Len(f.nodes)
    /\ \A i \in 1..Len(f.nodes) : t.nodes[i] = Loaded(f.nodes[i], r)
    /\ t.index = [k \in {f.nodes[i].key : i \in 1..Len(f.nodes)} |-> t.index[k]]
    /\ \A i \in 1..Len(f.nodes) : t.index[f.nodes[i].key] = i

LEMMA LoadForm ==
    ASSUME NEW f \in Files, Accepted(f), NEW r \in Rereads, NEW persist, NEW config
    PROVE  IsLoaded(f, from_persisted(f, r, persist, config), r, persist, config)
<1>1. PICK n \in Nat :
             /\ n = Len(f.nodes)
             /\ \A i \in 1..n : f.nodes[i] \in PersistedNode /\ f.nodes[i].sum \in Finite
             /\ \A i, j \in 1..n : f.nodes[i].key = f.nodes[j].key => i = j
  BY AcceptedFacts
<1>2. PICK g : g = [i \in 1..n |-> Loaded(f.nodes[i], r)]
  OBVIOUS
<1>3. \A i \in 1..n : Loaded(f.nodes[i], r) \in Node
  BY <1>1, LoadedFacts
<1>4. g \in [1..n -> Node]
  BY <1>2, <1>3
<1>5. g \in Seq(Node) /\ Len(g) = n
  BY <1>4, FcnSeq
<1>6. PICK K : K = {f.nodes[i].key : i \in 1..n}
  OBVIOUS
<1>7. PICK x : x = [k \in K |-> CHOOSE i \in 1..n : f.nodes[i].key = k]
  OBVIOUS
<1>8. from_persisted(f, r, persist, config) =
        [root |-> f.root, persist |-> persist, config |-> config, nodes |-> g, index |-> x]
  BY <1>1, <1>2, <1>6, <1>7 DEF from_persisted, Loaded
<1>9. ASSUME NEW i \in 1..n PROVE x[f.nodes[i].key] = i
  <2>1. f.nodes[i].key \in K
    BY <1>6
  <2>2. x[f.nodes[i].key] = CHOOSE j \in 1..n : f.nodes[j].key = f.nodes[i].key
    BY <1>7, <2>1
  <2>. QED
    BY <1>1, <2>2
<1>10. x = [k \in K |-> x[k]]
  BY <1>7
<1>11. PICK t : t = from_persisted(f, r, persist, config)
  OBVIOUS
<1>12. /\ t.nodes = g /\ t.index = x
       /\ t = [root |-> f.root, nodes |-> g, index |-> x, persist |-> persist, config |-> config]
  BY <1>8, <1>11
<1>13. IsLoaded(f, t, r, persist, config)
  BY <1>1, <1>2, <1>5, <1>6, <1>9, <1>10, <1>12 DEF IsLoaded
<1>. QED
  BY <1>11, <1>13

LEMMA LoadSound ==
    ASSUME NEW f \in Files, Accepted(f), NEW r \in Rereads, NEW persist \in BOOLEAN,
           NEW config \in Configs, NEW t, IsLoaded(f, t, r, persist, config)
    PROVE  Sound(t)
<1>1. PICK n \in Nat :
             /\ n = Len(f.nodes)
             /\ f.root \in 1..n /\ f.nodes[f.root].parent = 0
             /\ \A i \in 1..n : f.nodes[i] \in PersistedNode /\ f.nodes[i].sum \in Finite
             /\ \A i, j \in 1..n : f.nodes[i].key = f.nodes[j].key => i = j
             /\ \A i \in 1..n : f.nodes[i].parent # 0 =>
                  f.nodes[i].parent \in 1..n /\ i \in Members(f.nodes[f.nodes[i].parent].children)
             /\ \A i \in 1..n : \A c \in Members(f.nodes[i].children) :
                  c \in 1..n /\ f.nodes[c].parent = i
  BY AcceptedFacts
<1>2. Len(t.nodes) = n /\ t.root = f.root /\ t.persist = persist /\ t.config = config
  BY <1>1 DEF IsLoaded
<1>3. \A i \in 1..n : /\ t.nodes[i].key = f.nodes[i].key /\ t.nodes[i].parent = f.nodes[i].parent
                       /\ Kids(t, i) = Members(f.nodes[i].children)
  BY <1>1, LoadedFacts DEF IsLoaded, Kids
<1>4. WellFormed(t)
  BY <1>1, <1>2 DEF WellFormed, IsLoaded
<1>5. Indexed(t)
  <2>1. {t.nodes[i].key : i \in 1..n} = {f.nodes[i].key : i \in 1..n}
    BY <1>3
  <2>. QED
    BY <1>1, <1>2, <1>3, <2>1 DEF Indexed, IsLoaded
<1>6. Linked(t)
  <2>1. t.nodes[t.root].parent = 0
    BY <1>1, <1>2, <1>3
  <2>2. \A i \in 1..n : t.nodes[i].parent # 0 =>
           t.nodes[i].parent \in 1..n /\ i \in Kids(t, t.nodes[i].parent)
    BY <1>1, <1>3
  <2>3. ASSUME NEW i \in 1..n, NEW c \in Kids(t, i) PROVE c \in 1..n /\ t.nodes[c].parent = i
    <3>1. c \in Members(f.nodes[i].children)
      BY <1>3
    <3>2. c \in 1..n /\ f.nodes[c].parent = i
      BY <1>1, <3>1
    <3>3. t.nodes[c].parent = f.nodes[c].parent
      BY <1>3, <3>2
    <3>. QED
      BY <3>2, <3>3
  <2>. QED
    BY <1>2, <2>1, <2>2, <2>3 DEF Linked
<1>. QED
  BY <1>4, <1>5, <1>6 DEF Sound

LEMMA StoreForm ==
    ASSUME NEW t, Sound(t)
    PROVE  /\ to_persisted(t) \in PersistedMcts
           /\ to_persisted(t).root = t.root /\ Len(to_persisted(t).nodes) = Len(t.nodes)
           /\ to_persisted(t).kind = "tree"
           /\ to_persisted(t).config = "finite" <=> t.config = "finite"
           /\ \A i \in 1..Len(t.nodes) : to_persisted(t).nodes[i] = Stored(t.nodes[i])
<1>1. PICK n \in Nat : n = Len(t.nodes)
  BY DEF Sound, WellFormed
<1>2. PICK g : g = [i \in 1..n |-> Stored(t.nodes[i])]
  OBVIOUS
<1>3. \A i \in 1..n : Stored(t.nodes[i]) \in PersistedNode
  BY <1>1, NodeFacts, StoredFacts
<1>4. g \in [1..n -> PersistedNode]
  BY <1>2, <1>3
<1>5. g \in Seq(PersistedNode) /\ Len(g) = n
  BY <1>4, FcnSeq
<1>6. PICK c \in {"finite", "null"} : c = IF t.config = "finite" THEN "finite" ELSE "null"
  OBVIOUS
<1>7. to_persisted(t) = [kind |-> "tree", root |-> t.root, config |-> c, nodes |-> g]
  BY <1>1, <1>2, <1>6 DEF to_persisted, Stored
<1>8. t.root \in Nat
  BY <1>1 DEF Sound, WellFormed
<1>. QED
  BY <1>1, <1>2, <1>5, <1>6, <1>7, <1>8 DEF PersistedMcts

\* A tree whose floats are all finite is accepted once it is written.
LEMMA StoreAccepted ==
    ASSUME NEW t, Sound(t), t.config = "finite", \A i \in 1..Len(t.nodes) : t.nodes[i].sum \in Finite
    PROVE  Accepted(to_persisted(t))
<1>1. PICK n \in Nat : n = Len(t.nodes)
  BY DEF Sound, WellFormed
<1>2. PICK f : f = to_persisted(t)
  OBVIOUS
<1>3. /\ f.root = t.root /\ Len(f.nodes) = n /\ f.kind = "tree" /\ f.config = "finite"
      /\ \A i \in 1..n : f.nodes[i] = Stored(t.nodes[i])
  BY <1>1, <1>2, StoreForm
<1>4. \A i \in 1..n : /\ f.nodes[i].key = t.nodes[i].key /\ f.nodes[i].parent = t.nodes[i].parent
                       /\ f.nodes[i].children = t.nodes[i].children
                       /\ f.nodes[i].sum \in Finite
  <2> SUFFICES ASSUME NEW i \in 1..n
               PROVE  /\ f.nodes[i].key = t.nodes[i].key /\ f.nodes[i].parent = t.nodes[i].parent
                      /\ f.nodes[i].children = t.nodes[i].children
                      /\ f.nodes[i].sum \in Finite
    OBVIOUS
  <2>1. PICK x \in Node : x = t.nodes[i] /\ x.sum \in Finite
    BY <1>1, NodeFacts
  <2>2. /\ Stored(x).key = x.key /\ Stored(x).parent = x.parent /\ Stored(x).children = x.children
        /\ Stored(x).sum \in Finite
    BY <2>1, StoredFacts
  <2>. QED
    BY <1>3, <2>1, <2>2
<1>5. t.root \in 1..n /\ n > 0
  BY <1>1 DEF Sound, WellFormed
<1>6. \A i, j \in 1..n : f.nodes[i].key = f.nodes[j].key => i = j
  BY <1>1, <1>4, KeyIndexed
<1>7. ASSUME NEW i \in 1..n
      PROVE  /\ f.nodes[i].parent # 0 =>
                  /\ f.nodes[i].parent <= n
                  /\ i \in Members(f.nodes[f.nodes[i].parent].children)
             /\ \A c \in Members(f.nodes[i].children) : c <= n /\ f.nodes[c].parent = i
  <2>1. ASSUME f.nodes[i].parent # 0
        PROVE  f.nodes[i].parent <= n /\ i \in Members(f.nodes[f.nodes[i].parent].children)
    <3>1. t.nodes[i].parent \in 1..n /\ i \in Kids(t, t.nodes[i].parent)
      BY <1>1, <1>4, <2>1 DEF Sound, Linked
    <3>. QED
      BY <1>4, <3>1 DEF Kids
  <2>2. ASSUME NEW c \in Members(f.nodes[i].children) PROVE c <= n /\ f.nodes[c].parent = i
    <3>1. c \in Kids(t, i)
      BY <1>4 DEF Kids
    <3>2. c \in 1..n /\ t.nodes[c].parent = i
      BY <1>1, <3>1 DEF Sound, Linked
    <3>. QED
      BY <1>4, <3>2
  <2>. QED
    BY <2>1, <2>2
<1>8. f.nodes[f.root].parent = 0
  BY <1>3, <1>4, <1>5 DEF Sound, Linked
<1>9. Accepted(f)
  BY <1>3, <1>4, <1>5, <1>6, <1>7, <1>8 DEF Accepted
<1>. QED
  BY <1>2, <1>9

\* And only such a tree is.
LEMMA AcceptedStored ==
    ASSUME NEW t, Sound(t), Accepted(to_persisted(t))
    PROVE  t.config = "finite" /\ \A i \in 1..Len(t.nodes) : t.nodes[i].sum \in Finite
<1>1. PICK f : f = to_persisted(t)
  OBVIOUS
<1>2. Len(f.nodes) = Len(t.nodes) /\ (f.config = "finite" <=> t.config = "finite")
      /\ \A i \in 1..Len(t.nodes) : f.nodes[i] = Stored(t.nodes[i])
  BY <1>1, StoreForm
<1>3. f.config = "finite" /\ \A i \in 1..Len(f.nodes) : f.nodes[i].sum \in Finite
  BY <1>1 DEF Accepted
<1>4. ASSUME NEW i \in 1..Len(t.nodes) PROVE t.nodes[i].sum \in Finite
  <2>1. PICK x \in Node : x = t.nodes[i]
    BY NodeFacts
  <2>2. Stored(x).sum \in Finite
    BY <1>2, <1>3, <2>1
  <2>. QED
    BY <2>1, <2>2, StoredFacts
<1>. QED
  BY <1>2, <1>3, <1>4

\* A node after its tree was written and read: only its floats may differ.
Reread(new, old) ==
    /\ new.key = old.key /\ new.parent = old.parent
    /\ new.children = old.children /\ new.visits = old.visits
    /\ Near(new.sum, old.sum)
    /\ IF old.best = NegInf THEN new.best = NegInf
                           ELSE new.best \in Finite /\ Near(new.best, old.best)

LEMMA NodeReread ==
    ASSUME NEW node \in Node, node.sum \in Finite, NEW r \in Rereads
    PROVE  Reread(Loaded(Stored(node), r), node)
<1>1. PICK x \in PersistedNode : x = Stored(node)
  BY StoredFacts
<1>2. /\ x.key = node.key /\ x.parent = node.parent
      /\ x.children = node.children /\ x.visits = node.visits
      /\ x.best # NotFinite => x.best = node.best
      /\ x.best = NotFinite <=> node.best = NegInf
      /\ x.sum \in Finite /\ x.sum = node.sum
  BY <1>1, StoredFacts
<1>3. PICK y : y = Loaded(x, r)
  OBVIOUS
<1>4. /\ y.key = x.key /\ y.parent = x.parent /\ y.children = x.children /\ y.visits = x.visits
      /\ Near(y.sum, x.sum)
      /\ x.best # NotFinite => y.best \in Finite /\ Near(y.best, x.best)
      /\ x.best = NotFinite => y.best = NegInf
  BY <1>2, <1>3, LoadedFacts
<1>5. Reread(y, node)
  BY <1>2, <1>4 DEF Reread
<1>. QED
  BY <1>1, <1>3, <1>5

\* What persist_to_disk writes whole comes back from maybe_load_from_disk.
LEMMA StoreBack ==
    ASSUME NEW t, Sound(t), Accepted(to_persisted(t)), NEW r \in Rereads, NEW persist, NEW config,
           NEW u, u = from_persisted(to_persisted(t), r, persist, config)
    PROVE  /\ u.root = t.root /\ u.index = t.index /\ Len(u.nodes) = Len(t.nodes)
           /\ \A i \in 1..Len(t.nodes) : Reread(u.nodes[i], t.nodes[i])
<1>1. PICK n \in Nat : n = Len(t.nodes)
  BY DEF Sound, WellFormed
<1>2. PICK f : f = to_persisted(t)
  OBVIOUS
<1>3. f \in PersistedMcts /\ f.root = t.root /\ Len(f.nodes) = n
      /\ \A i \in 1..n : f.nodes[i] = Stored(t.nodes[i])
  BY <1>1, <1>2, StoreForm
<1>4. \A i \in 1..n : t.nodes[i].sum \in Finite
  BY <1>1, AcceptedStored
<1>5. IsLoaded(f, u, r, persist, config)
  BY <1>2, <1>3, LoadForm DEF Files
<1>6. u.root = t.root /\ Len(u.nodes) = n /\ \A i \in 1..n : u.nodes[i] = Loaded(f.nodes[i], r)
  BY <1>3, <1>5 DEF IsLoaded
<1>7. ASSUME NEW i \in 1..n PROVE Reread(u.nodes[i], t.nodes[i]) /\ f.nodes[i].key = t.nodes[i].key
  <2>1. PICK x \in Node : x = t.nodes[i] /\ x.sum \in Finite
    BY <1>1, <1>4, NodeFacts
  <2>2. Reread(Loaded(Stored(x), r), x) /\ Stored(x).key = x.key
    BY <2>1, NodeReread, StoredFacts
  <2>. QED
    BY <1>3, <1>6, <2>1, <2>2
<1>8. u.index = t.index
  <2>1. {f.nodes[i].key : i \in 1..n} = {t.nodes[i].key : i \in 1..n}
    BY <1>7
  <2>2. PICK K : K = {t.nodes[i].key : i \in 1..n}
    OBVIOUS
  <2>3. u.index = [k \in K |-> u.index[k]] /\ t.index = [k \in K |-> t.index[k]]
    BY <1>1, <1>3, <1>5, <2>1, <2>2 DEF IsLoaded, Sound, Indexed
  <2>4. ASSUME NEW k \in K PROVE u.index[k] = t.index[k]
    <3>1. PICK i \in 1..n : k = t.nodes[i].key
      BY <2>2
    <3>2. t.index[k] = i
      BY <1>1, <3>1, KeyIndexed
    <3>3. u.index[f.nodes[i].key] = i
      BY <1>3, <1>5 DEF IsLoaded
    <3>. QED
      BY <1>7, <3>1, <3>2, <3>3
  <2>. QED
    BY <2>3, <2>4
<1>. QED
  BY <1>1, <1>6, <1>7, <1>8

(***************************************************************************)
(* Paths.                                                                  *)
(***************************************************************************)
IsPath(t, p) ==
    /\ p[1] = root_key_of(t)
    /\ \A i \in 1..Len(p) : ~RefusedAt(t, p, i)

Steps(t, p) == [i \in 1..Len(p) |-> t.index[p[i]]]

LEMMA GrowsIndex ==
    ASSUME NEW t, Sound(t), NEW u, Sound(u), Grows(t, u), NEW k \in DOMAIN t.index
    PROVE  k \in DOMAIN u.index /\ u.index[k] = t.index[k]
<1>1. PICK i \in 1..Len(t.nodes) : i = t.index[k] /\ t.nodes[i].key = k
  BY IndexFacts
<1>2. i \in 1..Len(u.nodes) /\ u.nodes[i].key = k
  <2>1. Len(t.nodes) \in Nat /\ Len(u.nodes) \in Nat /\ Len(t.nodes) <= Len(u.nodes)
    BY DEF Grows, Sound, WellFormed
  <2>. QED
    BY <1>1, <2>1 DEF Grows
<1>. QED
  BY <1>1, <1>2, KeyIndexed

LEMMA PathKept ==
    ASSUME NEW t, Sound(t), NEW u, Sound(u), Grows(t, u), NEW p \in Seq(Keys), IsPath(t, p)
    PROVE  IsPath(u, p)
<1>1. t.root \in 1..Len(t.nodes) /\ u.root = t.root
  BY DEF Sound, WellFormed, Grows
<1>2. root_key_of(u) = root_key_of(t)
  BY <1>1 DEF Grows, root_key_of
<1>3. ASSUME NEW i \in 1..Len(p) PROVE ~RefusedAt(u, p, i)
  <2>1. p[i] \in DOMAIN t.index
    BY DEF IsPath, RefusedAt
  <2>2. p[i] \in DOMAIN u.index /\ u.index[p[i]] = t.index[p[i]]
    BY <2>1, GrowsIndex
  <2>3. CASE i = 1
    BY <2>2, <2>3 DEF RefusedAt
  <2>4. CASE i > 1
    <3>1. i - 1 \in 1..Len(p) /\ Len(p) \in Nat
      BY <2>4
    <3>2. p[i - 1] \in DOMAIN t.index
      BY <3>1 DEF IsPath, RefusedAt
    <3>3. t.index[p[i]] \in Kids(t, t.index[p[i - 1]])
      BY <2>4 DEF IsPath, RefusedAt
    <3>4. u.index[p[i - 1]] = t.index[p[i - 1]] /\ t.index[p[i - 1]] \in 1..Len(t.nodes)
      BY <3>2, GrowsIndex, IndexFacts
    <3>5. Kids(t, t.index[p[i - 1]]) \subseteq Kids(u, t.index[p[i - 1]])
      BY <3>4 DEF Grows
    <3>. QED
      BY <2>2, <3>3, <3>4, <3>5 DEF RefusedAt
  <2>. QED
    BY <2>3, <2>4
<1>. QED
  BY <1>2, <1>3 DEF IsPath

LEMMA PathDescends ==
    ASSUME NEW t, Sound(t), NEW p \in Seq(Keys), IsPath(t, p)
    PROVE  Descends(t, Steps(t, p), Len(p))
<1>1. PICK m \in Nat : m = Len(p)
  OBVIOUS
<1>2. PICK f : f = Steps(t, p)
  OBVIOUS
<1>3. \A i \in 1..m : f[i] = t.index[p[i]] /\ p[i] \in DOMAIN t.index
  BY <1>1, <1>2 DEF Steps, IsPath, RefusedAt
<1>4. f \in [1..m -> 1..Len(t.nodes)]
  <2>1. \A i \in 1..m : t.index[p[i]] \in 1..Len(t.nodes)
    BY <1>3, IndexFacts
  <2>. QED
    BY <1>1, <1>2, <2>1 DEF Steps
<1>5. ASSUME m > 0 PROVE f[1] = t.root
  <2>1. f[1] = t.index[root_key_of(t)]
    BY <1>1, <1>3, <1>5 DEF IsPath
  <2>2. t.root \in 1..Len(t.nodes)
    BY DEF Sound, WellFormed
  <2>. QED
    BY <2>1, <2>2, KeyIndexed DEF root_key_of
<1>6. ASSUME NEW j \in 1..(m - 1) PROVE f[j + 1] \in Kids(t, f[j])
  <2>1. j + 1 \in 1..m /\ j + 1 > 1 /\ (j + 1) - 1 = j /\ j \in 1..m
    BY <1>1
  <2>2. t.index[p[j + 1]] \in Kids(t, t.index[p[(j + 1) - 1]])
    BY <1>1, <2>1 DEF IsPath, RefusedAt
  <2>. QED
    BY <1>3, <2>1, <2>2
<1>. QED
  BY <1>1, <1>2, <1>4, <1>5, <1>6 DEF Descends

LEMMA SelectedPath ==
    ASSUME NEW t, Sound(t), NEW d, NEW p \in select_path(t, d)
    PROVE  p \in Seq(Keys) /\ p # << >> /\ IsPath(t, p)
<1>1. PICK w \in Walks(t, d) : p = KeysOf(t, w)
  BY DEF select_path
<1>2. PICK N \in Nat : N = Len(t.nodes)
  BY DEF Sound, WellFormed
<1>3. PICK n \in 1..N :
             /\ w \in [1..n -> 1..N] /\ w[1] = t.root
             /\ \A j \in 1..(n - 1) : w[j + 1] \in select_best_child_by_ucb(t, w[j])
  BY <1>1, <1>2, Zenon DEF Walks
<1>4. n \in Nat /\ Len(w) = n
  BY <1>3, FcnSeq
<1>5. w[1] = t.root /\ \A j \in 1..(n - 1) : w[j + 1] \in Kids(t, w[j])
  <2>1. \A i : ScoredInfinite(t, i) \subseteq Kids(t, i) /\ ScoredFinite(t, i) \subseteq Kids(t, i)
    BY DEF ScoredInfinite, ScoredFinite
  <2>2. \A i : select_best_child_by_ucb(t, i) \subseteq Kids(t, i)
    BY <2>1 DEF select_best_child_by_ucb
  <2>. QED
    BY <1>3, <2>2
<1>6. p = [j \in 1..n |-> t.nodes[w[j]].key]
  BY <1>1, <1>4 DEF KeysOf
<1>7. \A j \in 1..n : /\ t.nodes[w[j]].key \in Keys /\ t.nodes[w[j]].key \in DOMAIN t.index
                       /\ t.index[t.nodes[w[j]].key] = w[j]
  BY <1>2, <1>3, NodeFacts, KeyIndexed
<1>8. p \in [1..n -> Keys]
  BY <1>6, <1>7
<1>9. p \in Seq(Keys) /\ Len(p) = n
  BY <1>4, <1>8, FcnSeq
<1>10. p[1] = root_key_of(t)
  BY <1>3, <1>5, <1>6 DEF root_key_of
<1>11. ASSUME NEW i \in 1..n PROVE ~RefusedAt(t, p, i)
  <2>1. p[i] \in DOMAIN t.index /\ t.index[p[i]] = w[i]
    BY <1>6, <1>7
  <2>2. ASSUME i > 1 PROVE t.index[p[i]] \in Kids(t, t.index[p[i - 1]])
    <3>1. i - 1 \in 1..(n - 1) /\ i - 1 \in 1..n /\ (i - 1) + 1 = i
      BY <1>4, <2>2
    <3>2. t.index[p[i - 1]] = w[i - 1]
      BY <1>6, <1>7, <3>1
    <3>. QED
      BY <1>5, <2>1, <3>1, <3>2
  <2>. QED
    BY <2>1, <2>2 DEF RefusedAt
<1>. QED
  BY <1>3, <1>4, <1>9, <1>10, <1>11 DEF IsPath

\* The path of backpropagate_and_select ends in a node of the tree; with a
\* child of that node it is a path as well.
LEMMA PathExtended ==
    ASSUME NEW t, Sound(t), NEW p \in Seq(Keys), p # << >>, IsPath(t, p), NEW k \in Keys,
           k \in DOMAIN t.index, t.index[k] \in Kids(t, t.index[p[Len(p)]])
    PROVE  IsPath(t, Append(p, k))
<1>1. PICK m \in Nat : m = Len(p) /\ m > 0
  BY EmptySeq
<1>2. PICK q \in Seq(Keys) : q = Append(p, k)
  BY AppendProperties
<1>3. Len(q) = m + 1 /\ q[m + 1] = k /\ \A i \in 1..m : q[i] = p[i]
  BY <1>1, <1>2, AppendProperties
<1>4. q[1] = root_key_of(t)
  BY <1>1, <1>3 DEF IsPath
<1>5. ASSUME NEW i \in 1..(m + 1) PROVE ~RefusedAt(t, q, i)
  <2>1. CASE i = m + 1
    <3>1. i - 1 = m /\ m \in 1..m
      BY <1>1, <2>1
    <3>. QED
      BY <1>1, <1>3, <2>1, <3>1 DEF RefusedAt
  <2>2. CASE i \in 1..m
    <3>1. ~RefusedAt(t, p, i)
      BY <1>1, <2>2 DEF IsPath
    <3>2. q[i] = p[i] /\ (i > 1 => q[i - 1] = p[i - 1])
      BY <1>1, <1>3, <2>2
    <3>. QED
      BY <3>1, <3>2 DEF RefusedAt
  <2>. QED
    BY <1>1, <2>1, <2>2
<1>. QED
  BY <1>2, <1>3, <1>4, <1>5 DEF IsPath

LEMMA PathCounted ==
    ASSUME NEW t, NEW p \in Seq(Keys), IsPath(t, p)
    PROVE  Counted(t, p) = 1..Len(p)
BY DEF Counted, IsPath

(***************************************************************************)
(* Visits flow down: what PendingTreeSearch keeps.                         *)
(***************************************************************************)
Flows(t) ==
    \A i \in 1..Len(t.nodes) :
      /\ Cardinality(VisitsBelow(t, i)) <= t.nodes[i].visits
      /\ \A c \in Kids(t, i) : t.nodes[c].visits <= t.nodes[i].visits

LEMMA BelowForm ==
    ASSUME NEW t, NEW i
    PROVE  \A x : x \in VisitsBelow(t, i) <=>
               \E c \in Kids(t, i) : \E k \in 1..t.nodes[c].visits : x = <<c, k>>
<1>1. ASSUME NEW x \in VisitsBelow(t, i)
      PROVE  \E c \in Kids(t, i) : \E k \in 1..t.nodes[c].visits : x = <<c, k>>
  <2>1. PICK c \in Kids(t, i) : x \in {c} \X (1..t.nodes[c].visits)
    BY DEF VisitsBelow
  <2>. QED
    BY <2>1
<1>2. ASSUME NEW c \in Kids(t, i), NEW k \in 1..t.nodes[c].visits
      PROVE  <<c, k>> \in VisitsBelow(t, i)
  <2>1. <<c, k>> \in {c} \X (1..t.nodes[c].visits)
    OBVIOUS
  <2>. QED
    BY <2>1 DEF VisitsBelow
<1>. QED
  BY <1>1, <1>2

LEMMA BelowFinite ==
    ASSUME NEW t, Sound(t), Flows(t), NEW i \in 1..Len(t.nodes)
    PROVE  IsFiniteSet(VisitsBelow(t, i)) /\ Cardinality(VisitsBelow(t, i)) \in Nat
<1>1. PICK n \in Nat : n = Len(t.nodes)
  BY DEF Sound, WellFormed
<1>2. PICK v \in Nat : v = t.nodes[i].visits
  BY NodeFacts
<1>3. IsFiniteSet(1..n) /\ IsFiniteSet(1..v)
  <2>1. 1 \in Int /\ n \in Int /\ v \in Int
    OBVIOUS
  <2>. QED
    BY <2>1, FS_Interval
<1>4. IsFiniteSet((1..n) \X (1..v))
  BY <1>3, FS_Product
<1>5. VisitsBelow(t, i) \subseteq (1..n) \X (1..v)
  <2> SUFFICES ASSUME NEW c \in Kids(t, i), NEW k \in 1..t.nodes[c].visits
               PROVE  <<c, k>> \in (1..n) \X (1..v)
    BY BelowForm
  <2>1. c \in 1..n /\ t.nodes[c].visits <= v
    BY <1>1, <1>2 DEF Sound, Linked, Flows
  <2>2. t.nodes[c].visits \in Nat
    BY <1>1, <2>1, NodeFacts
  <2>3. k \in 1..v
    BY <1>2, <2>1, <2>2
  <2>. QED
    BY <2>1, <2>3
<1>6. IsFiniteSet(VisitsBelow(t, i))
  BY <1>4, <1>5, FS_Subset
<1>. QED
  BY <1>6, FS_CardinalityType

LEMMA NewLeafFlows ==
    ASSUME NEW t, Sound(t), NEW u, NEW parent \in 1..Len(t.nodes), NEW key,
           NewLeaf(t, u, parent, key), Flows(t)
    PROVE  Flows(u)
<1>1. PICK n \in Nat : LeafFacts(t, u, parent, key, n)
  BY NewLeafKids
<1>2. Len(u.nodes) = n + 1 /\ n = Len(t.nodes) /\ n + 1 \notin 1..n
  BY <1>1 DEF LeafFacts
<1>3. ASSUME NEW i \in 1..n
      PROVE  /\ VisitsBelow(u, i) = VisitsBelow(t, i)
             /\ \A c \in Kids(u, i) : u.nodes[c].visits <= u.nodes[i].visits
  <2>1. \A c \in Kids(t, i) : c \in 1..n /\ u.nodes[c].visits = t.nodes[c].visits
    BY <1>1, <1>2 DEF Sound, Linked, LeafFacts
  <2>2. Kids(t, i) \subseteq Kids(u, i) /\ \A c \in Kids(u, i) : c \in Kids(t, i) \/ c = n + 1
    BY <1>1 DEF LeafFacts
  <2>3. u.nodes[n + 1].visits = 0
    BY <1>1 DEF LeafFacts
  <2>4. VisitsBelow(u, i) \subseteq VisitsBelow(t, i)
    <3> SUFFICES ASSUME NEW c \in Kids(u, i), NEW k \in 1..u.nodes[c].visits
                 PROVE  <<c, k>> \in VisitsBelow(t, i)
      BY BelowForm
    <3>1. c \in Kids(t, i)
      BY <2>2, <2>3
    <3>2. k \in 1..t.nodes[c].visits
      BY <2>1, <3>1
    <3>. QED
      BY <3>1, <3>2, BelowForm
  <2>5. VisitsBelow(t, i) \subseteq VisitsBelow(u, i)
    <3> SUFFICES ASSUME NEW c \in Kids(t, i), NEW k \in 1..t.nodes[c].visits
                 PROVE  <<c, k>> \in VisitsBelow(u, i)
      BY BelowForm
    <3>1. c \in Kids(u, i) /\ k \in 1..u.nodes[c].visits
      BY <2>1, <2>2
    <3>. QED
      BY <3>1, BelowForm
  <2>6. ASSUME NEW c \in Kids(u, i) PROVE u.nodes[c].visits <= u.nodes[i].visits
    <3>1. u.nodes[i].visits = t.nodes[i].visits /\ t.nodes[i].visits \in Nat
      BY <1>1, <1>2, NodeFacts DEF LeafFacts
    <3>2. CASE c \in Kids(t, i)
      BY <1>2, <2>1, <3>1, <3>2 DEF Flows
    <3>3. CASE c = n + 1
      BY <2>3, <3>1, <3>3
    <3>. QED
      BY <2>2, <3>2, <3>3
  <2>. QED
    BY <2>4, <2>5, <2>6
<1>4. VisitsBelow(u, n + 1) = {} /\ Kids(u, n + 1) = {} /\ u.nodes[n + 1].visits = 0
  <2>1. Kids(u, n + 1) = {} /\ u.nodes[n + 1].visits = 0
    BY <1>1 DEF LeafFacts
  <2>. QED
    BY <2>1, BelowForm
<1>5. ASSUME NEW i \in 1..n PROVE Cardinality(VisitsBelow(u, i)) <= u.nodes[i].visits
  BY <1>1, <1>2, <1>3 DEF Flows, LeafFacts
<1>6. Cardinality(VisitsBelow(u, n + 1)) <= u.nodes[n + 1].visits
  <2>1. Cardinality({}) = 0
    BY FS_EmptySet
  <2>2. PICK B : B = VisitsBelow(u, n + 1)
    OBVIOUS
  <2>3. Cardinality(B) = 0
    BY <1>4, <2>1, <2>2, Zenon
  <2>. QED
    BY <1>4, <2>2, <2>3
<1>7. \A i \in 1..(n + 1) : i \in 1..n \/ i = n + 1
  OBVIOUS
<1>. QED
  BY <1>2, <1>3, <1>4, <1>5, <1>6, <1>7 DEF Flows

\* Along a path each node is counted once.
LEMMA TimesOnPath ==
    ASSUME NEW t, Sound(t), NEW p \in Seq(Keys), IsPath(t, p), NEW n
    PROVE  Times(t, p, n) = IF \E i \in 1..Len(p) : t.index[p[i]] = n THEN 1 ELSE 0
<1>1. PICK S : S = {i \in Counted(t, p) : t.index[p[i]] = n}
  OBVIOUS
<1>2. S = {i \in 1..Len(p) : t.index[p[i]] = n}
  BY <1>1, PathCounted
<1>3. CASE \E i \in 1..Len(p) : t.index[p[i]] = n
  <2>1. PICK i \in 1..Len(p) : t.index[p[i]] = n
    BY <1>3
  <2>2. \A j \in 1..Len(p) : t.index[p[j]] = n => i = j
    <3> SUFFICES ASSUME NEW j \in 1..Len(p), t.index[p[j]] = n PROVE i = j
      OBVIOUS
    <3>1. PICK f : f = Steps(t, p)
      OBVIOUS
    <3>2. Descends(t, f, Len(p)) /\ f[i] = f[j] /\ Len(p) \in Nat
      BY <2>1, <3>1, PathDescends DEF Steps
    <3>. QED
      BY <3>2, NoReturn
  <2>3. S = {i}
    BY <1>2, <2>1, <2>2
  <2>. QED
    BY <1>1, <1>3, <2>3, FS_Singleton DEF Times
<1>4. CASE ~ \E i \in 1..Len(p) : t.index[p[i]] = n
  BY <1>1, <1>2, <1>4, FS_EmptySet DEF Times
<1>. QED
  BY <1>3, <1>4

\* The one child of a node that is on a path with it gets its reward too.
LEMMA RewardedFlows ==
    ASSUME NEW t, Sound(t), NEW u, NEW p \in Seq(Keys), NEW reward \in Finite,
           IsPath(t, p), Rewarded(t, u, p, reward), Flows(t)
    PROVE  Flows(u)
<1>1. PICK m \in Nat : m = Len(t.nodes)
  BY DEF Sound, WellFormed
<1>2. PICK N \in Nat : N = Len(p)
  OBVIOUS
<1>3. PICK f : f = Steps(t, p)
  OBVIOUS
<1>4. Descends(t, f, N) /\ \A j \in 1..N : f[j] = t.index[p[j]] /\ f[j] \in 1..m
  <2>1. Descends(t, f, N)
    BY <1>2, <1>3, PathDescends
  <2>2. \A j \in 1..N : f[j] = t.index[p[j]]
    BY <1>2, <1>3 DEF Steps
  <2>3. \A j \in 1..N : f[j] \in 1..m
    BY <1>1, <2>1 DEF Descends
  <2>. QED
    BY <2>1, <2>2, <2>3
<1> DEFINE On(x) == \E j \in 1..N : f[j] = x
<1>5. \A n : Times(t, p, n) = IF On(n) THEN 1 ELSE 0
  <2> SUFFICES ASSUME NEW n PROVE Times(t, p, n) = IF On(n) THEN 1 ELSE 0
    OBVIOUS
  <2>1. On(n) <=> \E j \in 1..Len(p) : t.index[p[j]] = n
    BY <1>2, <1>4
  <2>. QED
    BY <2>1, TimesOnPath
<1>6. ASSUME NEW n \in 1..m
      PROVE  /\ Kids(u, n) = Kids(t, n)
             /\ t.nodes[n].visits \in Nat
             /\ u.nodes[n].visits = t.nodes[n].visits + (IF On(n) THEN 1 ELSE 0)
  <2>1. n \in 1..Len(t.nodes)
    BY <1>1
  <2>2. Kids(u, n) = Kids(t, n) /\ u.nodes[n].visits = t.nodes[n].visits + Times(t, p, n)
    BY <2>1, RewardedNodes
  <2>3. t.nodes[n].visits \in Nat
    BY <2>1, NodeFacts
  <2>. QED
    BY <1>5, <2>2, <2>3
<1>7. ASSUME NEW i \in 1..m, NEW c \in Kids(t, i), On(c)
      PROVE  On(i) /\ \A d \in Kids(t, i) : On(d) => d = c
  <2>1. c \in 1..m /\ t.nodes[c].parent = i
    BY <1>1 DEF Sound, Linked
  <2>2. PICK j \in 1..N : f[j] = c
    BY <1>7
  <2>3. \A d \in Kids(t, i) : \A k \in 1..N : f[k] = d => k - 1 \in 1..(N - 1) /\ f[k - 1] = i
    <3> SUFFICES ASSUME NEW d \in Kids(t, i), NEW k \in 1..N, f[k] = d
                 PROVE  k - 1 \in 1..(N - 1) /\ f[k - 1] = i
      OBVIOUS
    <3>1. d \in 1..m /\ t.nodes[d].parent = i /\ i # 0
      BY <1>1 DEF Sound, Linked
    <3>2. k # 1
      BY <1>2, <1>4, <3>1 DEF Descends, Sound, Linked
    <3>3. k - 1 \in 1..(N - 1) /\ k - 1 \in 1..N /\ (k - 1) + 1 = k
      BY <1>2, <3>2
    <3>4. f[k] \in Kids(t, f[k - 1]) /\ f[k - 1] \in 1..m
      BY <1>4, <3>3 DEF Descends
    <3>5. t.nodes[d].parent = f[k - 1]
      BY <1>1, <3>4 DEF Sound, Linked
    <3>. QED
      BY <3>1, <3>3, <3>5
  <2>4. j - 1 \in 1..N /\ f[j - 1] = i
    BY <1>2, <2>2, <2>3
  <2>5. ASSUME NEW d \in Kids(t, i), On(d) PROVE d = c
    <3>1. PICK k \in 1..N : f[k] = d
      BY <2>5
    <3>2. k - 1 \in 1..N /\ f[k - 1] = i
      BY <1>2, <2>3, <3>1
    <3>3. k - 1 = j - 1
      BY <1>4, <2>4, <3>2, NoReturn
    <3>4. k = j
      BY <1>2, <3>3
    <3>. QED
      BY <2>2, <3>1, <3>4
  <2>. QED
    BY <2>4, <2>5
<1> HIDE DEF On
<1>8. ASSUME NEW i \in 1..m, NEW c \in Kids(t, i)
      PROVE  u.nodes[c].visits <= u.nodes[i].visits
  <2>1. c \in 1..m
    BY <1>1 DEF Sound, Linked
  <2>2. t.nodes[c].visits <= t.nodes[i].visits
    BY <1>1 DEF Flows
  <2>3. On(c) => On(i)
    BY <1>7
  <2>4. /\ t.nodes[i].visits \in Nat
        /\ u.nodes[i].visits = t.nodes[i].visits + (IF On(i) THEN 1 ELSE 0)
    BY <1>6
  <2>5. /\ t.nodes[c].visits \in Nat
        /\ u.nodes[c].visits = t.nodes[c].visits + (IF On(c) THEN 1 ELSE 0)
    BY <1>6, <2>1
  <2>. QED
    BY <2>2, <2>3, <2>4, <2>5
<1>9. ASSUME NEW i \in 1..m PROVE Cardinality(VisitsBelow(u, i)) <= u.nodes[i].visits
  <2>1. Kids(u, i) = Kids(t, i) /\ \A c \in Kids(t, i) : c \in 1..m
    BY <1>1, <1>6 DEF Sound, Linked
  <2>2. PICK B : B = VisitsBelow(t, i)
    OBVIOUS
  <2>3. IsFiniteSet(B) /\ Cardinality(B) \in Nat /\ Cardinality(B) <= t.nodes[i].visits
    BY <1>1, <2>2, BelowFinite DEF Flows
  <2>4. /\ t.nodes[i].visits \in Nat
        /\ u.nodes[i].visits = t.nodes[i].visits + (IF On(i) THEN 1 ELSE 0)
    BY <1>6
  <2>5. CASE \E c \in Kids(t, i) : On(c)
    <3>1. PICK c \in Kids(t, i) : On(c)
      BY <2>5
    <3>2. On(i) /\ \A d \in Kids(t, i) : On(d) => d = c
      BY <1>7, <3>1
    <3>3. PICK v \in Nat : v = t.nodes[c].visits
      BY <1>6, <2>1
    <3>4. u.nodes[c].visits = v + 1
      BY <1>6, <2>1, <3>1, <3>3
    <3>5. \A d \in Kids(t, i) : d # c => u.nodes[d].visits = t.nodes[d].visits
      BY <1>6, <2>1, <3>2
    <3>6. VisitsBelow(u, i) \subseteq B \cup {<<c, v + 1>>}
      <4> SUFFICES ASSUME NEW d \in Kids(t, i), NEW k \in 1..u.nodes[d].visits
                   PROVE  <<d, k>> \in B \cup {<<c, v + 1>>}
        BY <2>1, BelowForm
      <4>1. k \in 1..t.nodes[d].visits \/ (d = c /\ k = v + 1)
        BY <3>3, <3>4, <3>5
      <4>2. k \in 1..t.nodes[d].visits => <<d, k>> \in VisitsBelow(t, i)
        BY BelowForm
      <4>. QED
        BY <2>2, <4>1, <4>2
    <3>7. IsFiniteSet(B \cup {<<c, v + 1>>}) /\ Cardinality(B \cup {<<c, v + 1>>}) <= Cardinality(B) + 1
      <4>1. PICK x : x = <<c, v + 1>>
        OBVIOUS
      <4>2. IsFiniteSet(B \cup {x}) /\ Cardinality(B \cup {x}) = IF x \in B THEN Cardinality(B) ELSE Cardinality(B) + 1
        BY <2>3, FS_AddElement
      <4>3. Cardinality(B \cup {x}) <= Cardinality(B) + 1
        BY <2>3, <4>2
      <4>. QED
        BY <4>1, <4>2, <4>3
    <3>8. PICK C : C = B \cup {<<c, v + 1>>}
      OBVIOUS
    <3>9. Cardinality(VisitsBelow(u, i)) <= Cardinality(C) /\ IsFiniteSet(VisitsBelow(u, i))
      BY <3>6, <3>7, <3>8, FS_Subset
    <3>10. Cardinality(VisitsBelow(u, i)) \in Nat /\ Cardinality(C) \in Nat
      BY <3>7, <3>8, <3>9, FS_CardinalityType
    <3>11. Cardinality(C) <= Cardinality(B) + 1
      BY <3>7, <3>8
    <3>. QED
      BY <2>3, <2>4, <3>2, <3>9, <3>10, <3>11
  <2>6. CASE ~ \E c \in Kids(t, i) : On(c)
    <3>1. \A d \in Kids(t, i) : u.nodes[d].visits = t.nodes[d].visits
      BY <1>6, <2>1, <2>6
    <3>2. VisitsBelow(u, i) \subseteq B
      <4> SUFFICES ASSUME NEW d \in Kids(t, i), NEW k \in 1..u.nodes[d].visits
                   PROVE  <<d, k>> \in B
        BY <2>1, BelowForm
      <4>1. k \in 1..t.nodes[d].visits
        BY <3>1
      <4>. QED
        BY <2>2, <4>1, BelowForm
    <3>3. Cardinality(VisitsBelow(u, i)) <= Cardinality(B) /\ IsFiniteSet(VisitsBelow(u, i))
      BY <2>3, <3>2, FS_Subset
    <3>4. Cardinality(VisitsBelow(u, i)) \in Nat
      BY <3>3, FS_CardinalityType
    <3>. QED
      BY <2>3, <2>4, <3>3, <3>4
  <2>. QED
    BY <2>5, <2>6
<1>10. Len(u.nodes) = m /\ \A i \in 1..m : Kids(u, i) = Kids(t, i)
  BY <1>1, <1>6 DEF Rewarded
<1>. QED
  BY <1>8, <1>9, <1>10 DEF Flows

\* The keys counted are the first ones of the path.
LEMMA CountedPrefix ==
    ASSUME NEW t, NEW p \in Seq(Keys)
    PROVE  \E m \in 0..Len(p) : Counted(t, p) = 1..m
<1>1. PICK N \in Nat : N = Len(p)
  OBVIOUS
<1>2. PICK T : T = {i \in 1..N : RefusedAt(t, p, i)}
  OBVIOUS
<1>3. CASE T = {}
  <2>1. Counted(t, p) = 1..N
    BY <1>1, <1>2, <1>3 DEF Counted
  <2>. QED
    BY <1>1, <2>1
<1>4. CASE T # {}
  <2>1. T \subseteq Nat
    BY <1>2
  <2>2. PICK k \in T : \A i \in T : k <= i
    BY <1>4, <2>1, LeastOf
  <2>3. k \in 1..N /\ RefusedAt(t, p, k)
    BY <1>2, <2>2
  <2>4. PICK m \in 0..N : m = k - 1 /\ k = m + 1
    BY <1>1, <2>3
  <2>5. ASSUME NEW i \in 1..m PROVE i \in Counted(t, p)
    <3>1. \A j \in 1..i : j \in 1..N /\ ~(k <= j)
      BY <1>1, <2>3, <2>4
    <3>2. \A j \in 1..i : ~RefusedAt(t, p, j)
      BY <1>2, <2>2, <3>1
    <3>3. i \in 1..Len(p)
      BY <1>1, <2>4
    <3>. QED
      BY <3>2, <3>3 DEF Counted
  <2>6. ASSUME NEW i \in Counted(t, p) PROVE i \in 1..m
    <3>1. i \in 1..N /\ \A j \in 1..i : ~RefusedAt(t, p, j)
      BY <1>1 DEF Counted
    <3>2. ~(k \in 1..i)
      BY <2>3, <3>1
    <3>. QED
      BY <1>1, <2>3, <2>4, <3>1, <3>2
  <2>7. Counted(t, p) = 1..m
    BY <2>5, <2>6
  <2>. QED
    BY <1>1, <2>4, <2>7
<1>. QED
  BY <1>3, <1>4

\* Of a path that begins at the root, a way down from the root is counted.
LEMMA PrefixPath ==
    ASSUME NEW t, Sound(t), NEW p \in Seq(Keys), p # << >>, p[1] = root_key_of(t)
    PROVE  \E q \in Seq(Keys) : IsPath(t, q) /\ \A n : Times(t, q, n) = Times(t, p, n)
<1>1. PICK N \in Nat : N = Len(p) /\ N > 0
  BY EmptySeq
<1>2. PICK m \in 0..N : Counted(t, p) = 1..m
  BY <1>1, CountedPrefix
<1>3. m \in Nat /\ 1..m \subseteq 1..N
  BY <1>1, <1>2
<1>4. \A i \in 1..m : ~RefusedAt(t, p, i)
  <2> SUFFICES ASSUME NEW i \in 1..m PROVE ~RefusedAt(t, p, i)
    OBVIOUS
  <2>1. \A j \in 1..i : ~RefusedAt(t, p, j)
    BY <1>2 DEF Counted
  <2>2. i \in 1..i
    BY <1>3
  <2>. QED
    BY <2>1, <2>2
<1>5. 1 \in 1..m
  <2>1. p[1] \in DOMAIN t.index
    BY KeyIndexed DEF root_key_of, Sound, WellFormed
  <2>2. ~RefusedAt(t, p, 1)
    BY <2>1 DEF RefusedAt
  <2>3. 1 \in 1..Len(p) /\ \A j \in 1..1 : j = 1
    BY <1>1
  <2>4. 1 \in Counted(t, p)
    BY <2>2, <2>3 DEF Counted
  <2>. QED
    BY <1>2, <2>4
<1>6. PICK q : q = [i \in 1..m |-> p[i]]
  OBVIOUS
<1>7. q \in [1..m -> Keys]
  <2>1. \A i \in 1..m : p[i] \in Keys
    BY <1>1, <1>3
  <2>. QED
    BY <1>6, <2>1
<1>8. q \in Seq(Keys) /\ Len(q) = m /\ \A i \in 1..m : q[i] = p[i]
  BY <1>3, <1>6, <1>7, FcnSeq
<1>9. ASSUME NEW i \in 1..m PROVE ~RefusedAt(t, q, i)
  <2>1. ~RefusedAt(t, p, i) /\ q[i] = p[i]
    BY <1>4, <1>8
  <2>2. i > 1 => q[i - 1] = p[i - 1]
    BY <1>3, <1>8
  <2>. QED
    BY <2>1, <2>2 DEF RefusedAt
<1>10. IsPath(t, q)
  BY <1>5, <1>8, <1>9 DEF IsPath
<1>11. ASSUME NEW n PROVE Times(t, q, n) = Times(t, p, n)
  <2>1. Counted(t, q) = 1..m
    BY <1>8, <1>10, PathCounted
  <2>2. {i \in Counted(t, q) : t.index[q[i]] = n} = {i \in Counted(t, p) : t.index[p[i]] = n}
    BY <1>2, <1>8, <2>1
  <2>. QED
    BY <2>2 DEF Times
<1>. QED
  BY <1>8, <1>10, <1>11

LEMMA PrefixFlows ==
    ASSUME NEW t, Sound(t), NEW u, NEW p \in Seq(Keys), NEW reward \in Finite,
           p # << >>, p[1] = root_key_of(t), Rewarded(t, u, p, reward), Flows(t)
    PROVE  Flows(u)
<1>1. PICK q \in Seq(Keys) : IsPath(t, q) /\ \A n : Times(t, q, n) = Times(t, p, n)
  BY PrefixPath
<1>2. Rewarded(t, u, q, reward)
  BY <1>1 DEF Rewarded
<1>. QED
  BY <1>1, <1>2, RewardedFlows

\* Flows is about nothing but children and visits.
LEMMA SameFlows ==
    ASSUME NEW t, Sound(t), Flows(t), NEW u, Len(u.nodes) = Len(t.nodes),
           \A i \in 1..Len(t.nodes) : /\ u.nodes[i].children = t.nodes[i].children
                                      /\ u.nodes[i].visits = t.nodes[i].visits
    PROVE  Flows(u)
<1>1. ASSUME NEW i \in 1..Len(t.nodes)
      PROVE  /\ Kids(u, i) = Kids(t, i) /\ VisitsBelow(u, i) = VisitsBelow(t, i)
             /\ \A c \in Kids(t, i) : u.nodes[c].visits = t.nodes[c].visits
  <2>1. Kids(u, i) = Kids(t, i)
    BY DEF Kids
  <2>2. \A c \in Kids(t, i) : u.nodes[c].visits = t.nodes[c].visits
    BY DEF Sound, Linked
  <2>3. \A x : x \in VisitsBelow(u, i) <=> x \in VisitsBelow(t, i)
    BY <2>1, <2>2, BelowForm
  <2>4. VisitsBelow(u, i) = VisitsBelow(t, i)
    BY <2>3
  <2>. QED
    BY <2>1, <2>2, <2>4
<1>. QED
  BY <1>1, Zenon DEF Flows

(***************************************************************************)
(* The file is behind the tree.                                            *)
(***************************************************************************)
Behind(f, t) ==
    /\ f.root = t.root
    /\ Len(f.nodes) <= Len(t.nodes)
    /\ \A i \in 1..Len(f.nodes) :
         LET old == f.nodes[i] now == t.nodes[i] IN
         /\ old.key = now.key /\ old.parent = now.parent
         /\ Len(old.children) <= Len(now.children)
         /\ old.visits <= now.visits
         /\ old.visits = now.visits => Near(now.sum, old.sum)
         /\ old.best # NotFinite => old.best <= now.best + 1

DiskOK(f, t) ==
    t.persist /\ Accepted(f) /\ f.nodes[f.root].key = root_key_of(t) => Behind(f, t)

FileFlows(f) ==
    Accepted(f) => \A r \in Rereads, persist \in BOOLEAN, config \in Configs :
                      Flows(from_persisted(f, r, persist, config))

LEMMA PersistedFacts ==
    ASSUME NEW f \in Files, Accepted(f), NEW i \in 1..Len(f.nodes)
    PROVE  /\ Len(f.nodes) \in Nat /\ f.nodes[i].visits \in Nat
           /\ Len(f.nodes[i].children) \in Nat
           /\ f.nodes[i].best # NotFinite => f.nodes[i].best \in Int
<1>1. Len(f.nodes) \in Nat /\ f.nodes[i] \in PersistedNode
  BY AcceptedFacts
<1>2. f.nodes[i].visits \in Nat /\ f.nodes[i].children \in Seq(Nat \ {0})
      /\ f.nodes[i].best \in Finite \cup {NotFinite}
  BY <1>1 DEF PersistedNode
<1>3. PICK s \in Seq(Nat \ {0}) : s = f.nodes[i].children
  BY <1>2
<1>4. Len(s) \in Nat
  OBVIOUS
<1>. QED
  BY <1>1, <1>2, <1>3, <1>4, FloatFacts

LEMMA BehindKept ==
    ASSUME NEW t, Sound(t), NEW u, Sound(u), Grows(t, u), NEW f \in Files, Accepted(f), Behind(f, t)
    PROVE  Behind(f, u)
<1>1. PICK a \in Nat : a = Len(f.nodes)
  BY AcceptedFacts
<1>2. PICK b \in Nat : b = Len(t.nodes)
  BY DEF Sound, WellFormed
<1>3. PICK c \in Nat : c = Len(u.nodes)
  BY DEF Sound, WellFormed
<1>4. a <= b /\ b <= c
  BY <1>1, <1>2, <1>3 DEF Behind, Grows
<1>5. ASSUME NEW i \in 1..a
      PROVE  /\ f.nodes[i].key = u.nodes[i].key /\ f.nodes[i].parent = u.nodes[i].parent
             /\ Len(f.nodes[i].children) <= Len(u.nodes[i].children)
             /\ f.nodes[i].visits <= u.nodes[i].visits
             /\ f.nodes[i].visits = u.nodes[i].visits => Near(u.nodes[i].sum, f.nodes[i].sum)
             /\ f.nodes[i].best # NotFinite => f.nodes[i].best <= u.nodes[i].best + 1
  <2>1. i \in 1..b /\ i \in 1..c
    BY <1>4
  <2>2. /\ f.nodes[i].visits \in Nat /\ Len(f.nodes[i].children) \in Nat
        /\ f.nodes[i].best # NotFinite => f.nodes[i].best \in Int
    BY <1>1, PersistedFacts
  <2>3. t.nodes[i].visits \in Nat /\ Len(t.nodes[i].children) \in Nat /\ t.nodes[i].best \in Int
    BY <1>2, <2>1, NodeFacts
  <2>4. u.nodes[i].visits \in Nat /\ Len(u.nodes[i].children) \in Nat /\ u.nodes[i].best \in Int
    BY <1>3, <2>1, NodeFacts
  <2>5. /\ f.nodes[i].key = t.nodes[i].key /\ f.nodes[i].parent = t.nodes[i].parent
        /\ Len(f.nodes[i].children) <= Len(t.nodes[i].children)
        /\ f.nodes[i].visits <= t.nodes[i].visits
        /\ f.nodes[i].visits = t.nodes[i].visits => Near(t.nodes[i].sum, f.nodes[i].sum)
        /\ f.nodes[i].best # NotFinite => f.nodes[i].best <= t.nodes[i].best + 1
    BY <1>1 DEF Behind
  <2>6. /\ u.nodes[i].key = t.nodes[i].key /\ u.nodes[i].parent = t.nodes[i].parent
        /\ Len(t.nodes[i].children) <= Len(u.nodes[i].children)
        /\ t.nodes[i].visits <= u.nodes[i].visits
        /\ t.nodes[i].visits = u.nodes[i].visits => t.nodes[i].sum = u.nodes[i].sum
        /\ t.nodes[i].best <= u.nodes[i].best
    BY <1>2, <2>1 DEF Grows
  <2>7. \A x, y, z \in Int : x <= y + 1 /\ y <= z => x <= z + 1
    OBVIOUS
  <2>8. Len(f.nodes[i].children) <= Len(u.nodes[i].children) /\ f.nodes[i].visits <= u.nodes[i].visits
    <3>1. f.nodes[i].visits <= u.nodes[i].visits
      BY <2>2, <2>3, <2>4, <2>5, <2>6
    <3>2. PICK x \in Int : x = Len(f.nodes[i].children)
      BY <2>2
    <3>3. PICK y \in Int : y = Len(t.nodes[i].children)
      BY <2>3
    <3>4. PICK z \in Int : z = Len(u.nodes[i].children)
      BY <2>4
    <3>5. x <= y /\ y <= z
      BY <2>5, <2>6, <3>2, <3>3, <3>4
    <3>6. x <= z
      BY <3>5
    <3>. QED
      BY <3>1, <3>2, <3>4, <3>6
  <2>9. f.nodes[i].best # NotFinite => f.nodes[i].best <= u.nodes[i].best + 1
    BY <2>2, <2>3, <2>4, <2>5, <2>6, <2>7
  <2>10. ASSUME f.nodes[i].visits = u.nodes[i].visits PROVE Near(u.nodes[i].sum, f.nodes[i].sum)
    <3>1. f.nodes[i].visits = t.nodes[i].visits /\ t.nodes[i].visits = u.nodes[i].visits
      BY <2>2, <2>3, <2>5, <2>6, <2>10
    <3>. QED
      BY <2>5, <2>6, <3>1
  <2>. QED
    BY <2>5, <2>6, <2>8, <2>9, <2>10
<1>6. f.root = u.root
  BY DEF Behind, Grows
<1>. QED
  BY <1>1, <1>3, <1>4, <1>5, <1>6 DEF Behind

LEMMA BehindStored ==
    ASSUME NEW t, Sound(t), Accepted(to_persisted(t))
    PROVE  Behind(to_persisted(t), t)
<1>1. PICK f : f = to_persisted(t)
  OBVIOUS
<1>2. PICK n \in Nat : n = Len(t.nodes)
  BY DEF Sound, WellFormed
<1>3. f.root = t.root /\ Len(f.nodes) = n /\ \A i \in 1..n : f.nodes[i] = Stored(t.nodes[i])
  BY <1>1, <1>2, StoreForm
<1>4. ASSUME NEW i \in 1..n
      PROVE  /\ f.nodes[i].key = t.nodes[i].key /\ f.nodes[i].parent = t.nodes[i].parent
             /\ Len(f.nodes[i].children) <= Len(t.nodes[i].children)
             /\ f.nodes[i].visits <= t.nodes[i].visits
             /\ Near(t.nodes[i].sum, f.nodes[i].sum)
             /\ f.nodes[i].best # NotFinite => f.nodes[i].best <= t.nodes[i].best + 1
  <2>1. PICK x \in Node : x = t.nodes[i] /\ x.sum \in Finite
    BY <1>2, NodeFacts, AcceptedStored
  <2>2. x.visits \in Nat /\ Len(x.children) \in Nat /\ x.best \in Int
    BY <1>2, <2>1, NodeFacts
  <2>3. /\ Stored(x).key = x.key /\ Stored(x).parent = x.parent
        /\ Stored(x).children = x.children /\ Stored(x).visits = x.visits
        /\ Stored(x).best # NotFinite => Stored(x).best = x.best
        /\ Stored(x).sum = x.sum
    BY <2>1, StoredFacts
  <2>4. Near(x.sum, x.sum) /\ x.best <= x.best + 1
    BY <2>1, <2>2, FloatFacts DEF Near
  <2>5. f.nodes[i] = Stored(x)
    BY <1>3, <2>1
  <2>. QED
    BY <2>1, <2>2, <2>3, <2>4, <2>5
<1>5. n <= n
  OBVIOUS
<1>. QED
  BY <1>1, <1>2, <1>3, <1>4, <1>5 DEF Behind

LEMMA BehindLoaded ==
    ASSUME NEW f \in Files, Accepted(f), NEW r \in Rereads, NEW persist, NEW config,
           NEW t, IsLoaded(f, t, r, persist, config)
    PROVE  Behind(f, t) /\ root_key_of(t) = f.nodes[f.root].key
<1>1. PICK n \in Nat : n = Len(f.nodes)
  BY AcceptedFacts
<1>2. Len(t.nodes) = n /\ t.root = f.root /\ f.root \in 1..n
  BY <1>1, AcceptedFacts DEF IsLoaded
<1>3. ASSUME NEW i \in 1..n
      PROVE  /\ f.nodes[i].key = t.nodes[i].key /\ f.nodes[i].parent = t.nodes[i].parent
             /\ Len(f.nodes[i].children) <= Len(t.nodes[i].children)
             /\ f.nodes[i].visits <= t.nodes[i].visits
             /\ Near(t.nodes[i].sum, f.nodes[i].sum)
             /\ f.nodes[i].best # NotFinite => f.nodes[i].best <= t.nodes[i].best + 1
  <2>1. PICK x \in PersistedNode : x = f.nodes[i] /\ x.sum \in Finite
    BY <1>1, AcceptedFacts
  <2>2. PICK y : y = Loaded(x, r) /\ t.nodes[i] = y
    BY <1>1, <2>1 DEF IsLoaded
  <2>3. x.visits \in Nat /\ Len(x.children) \in Nat /\ (x.best # NotFinite => x.best \in Int)
    BY <1>1, <2>1, PersistedFacts
  <2>4. /\ y.key = x.key /\ y.parent = x.parent
        /\ y.children = x.children /\ y.visits = x.visits
        /\ Near(y.sum, x.sum)
        /\ x.best # NotFinite => x.best <= y.best + 1
    BY <2>1, <2>2, LoadedFacts
  <2>. QED
    BY <2>1, <2>2, <2>3, <2>4
<1>4. n <= n
  OBVIOUS
<1>. QED
  BY <1>1, <1>2, <1>3, <1>4 DEF Behind, root_key_of

LEMMA DiskKept ==
    ASSUME NEW t, Sound(t), NEW u, Sound(u), Grows(t, u), NEW f \in Files, DiskOK(f, t)
    PROVE  DiskOK(f, u)
<1>1. t.root \in 1..Len(t.nodes) /\ u.root = t.root /\ u.persist = t.persist
  BY DEF Sound, WellFormed, Grows
<1>2. root_key_of(u) = root_key_of(t)
  BY <1>1 DEF Grows, root_key_of
<1>. QED
  BY <1>1, <1>2, BehindKept DEF DiskOK

LEMMA DiskWritten ==
    ASSUME NEW t, Sound(t), NEW f \in Files, DiskOK(f, t), NEW g \in persist_to_disk(f, t)
    PROVE  g \in Files /\ DiskOK(g, t)
<1>1. g = f \/ g = Torn \/ g = to_persisted(t)
  BY DEF persist_to_disk
<1>2. CASE g = Torn
  BY <1>2 DEF Files, DiskOK, Accepted, Torn
<1>3. CASE g = to_persisted(t)
  BY <1>3, StoreForm, BehindStored DEF Files, DiskOK
<1>. QED
  BY <1>1, <1>2, <1>3

LEMMA FlowsWritten ==
    ASSUME NEW t, Sound(t), Flows(t), NEW f, FileFlows(f), NEW g \in persist_to_disk(f, t)
    PROVE  FileFlows(g)
<1>1. g = f \/ (t.persist /\ (g = Torn \/ g = to_persisted(t)))
  BY DEF persist_to_disk
<1>2. CASE g = Torn
  BY <1>2 DEF FileFlows, Accepted, Torn
<1>3. CASE g = to_persisted(t) /\ t.persist
  <2> SUFFICES ASSUME Accepted(g), NEW r \in Rereads, NEW persist \in BOOLEAN, NEW config \in Configs
               PROVE  Flows(from_persisted(g, r, persist, config))
    BY DEF FileFlows
  <2>1. PICK u : u = from_persisted(g, r, persist, config)
    OBVIOUS
  <2>2. Len(u.nodes) = Len(t.nodes) /\ \A i \in 1..Len(t.nodes) : Reread(u.nodes[i], t.nodes[i])
    BY <1>3, <2>1, StoreBack
  <2>3. Flows(u)
    BY <2>2, SameFlows DEF Reread
  <2>. QED
    BY <2>1, <2>3
<1>. QED
  BY <1>1, <1>2, <1>3

(***************************************************************************)
(* The inductive invariant.                                                *)
(***************************************************************************)
SInv ==
    /\ Running => Sound(tree)
    /\ file \in Files
    /\ pending \in Seq(Keys)
    /\ ~Running => pending = << >>
    /\ Running /\ pending # << >> => IsPath(tree, pending)
    /\ Running => DiskOK(file, tree)
    /\ pure => (Running => Flows(tree)) /\ FileFlows(file)
    /\ rounds \in 0..MaxRounds /\ pure \in BOOLEAN

LEMMA SoundRuns ==
    ASSUME NEW t, Sound(t)
    PROVE  t # NoTree
<1>1. t.root \in 1..Len(t.nodes) /\ Len(t.nodes) \in Nat
  BY DEF Sound, WellFormed
<1>2. t.root # 0
  BY <1>1
<1>. QED
  BY <1>2 DEF NoTree

LEMMA FreshSound ==
    ASSUME NEW k \in Keys, NEW persist \in BOOLEAN, NEW config \in Configs
    PROVE  /\ Sound(fresh(k, persist, config)) /\ Flows(fresh(k, persist, config))
           /\ root_key_of(fresh(k, persist, config)) = k /\ fresh(k, persist, config).persist = persist
<1>1. PICK x : x = NodeAt(k, 0)
  OBVIOUS
<1>2. x \in Node /\ x.key = k /\ x.parent = 0 /\ x.children = << >> /\ x.visits = 0
  <2>1. << >> \in Seq(Nat \ {0}) /\ 0 \in Nat
    OBVIOUS
  <2>. QED
    BY <1>1, <2>1, FloatFacts DEF NodeAt, Node
<1>3. PICK s : s = <<x>>
  OBVIOUS
<1>4. s \in Seq(Node) /\ Len(s) = 1 /\ s[1] = x
  BY <1>2, <1>3
<1>5. PICK f : f = [j \in {k} |-> 1]
  OBVIOUS
<1>6. PICK t : t = fresh(k, persist, config)
  OBVIOUS
<1>7. t = [root |-> 1, nodes |-> s, index |-> f, persist |-> persist, config |-> config]
  BY <1>1, <1>3, <1>5, <1>6 DEF fresh
<1>8. t.root = 1 /\ t.nodes = s /\ t.index = f /\ t.persist = persist /\ t.config = config
  BY <1>7
<1>9. 1..Len(s) = {1}
  BY <1>4
<1>10. WellFormed(t)
  BY <1>4, <1>7, <1>8, <1>9 DEF WellFormed
<1>11. {t.nodes[i].key : i \in 1..Len(t.nodes)} = {k}
  BY <1>2, <1>4, <1>8, <1>9
<1>12. Indexed(t)
  <2>1. f = [j \in {k} |-> f[j]] /\ f[k] = 1
    BY <1>5
  <2>2. \A i \in 1..Len(t.nodes) : t.index[t.nodes[i].key] = i
    BY <1>2, <1>4, <1>8, <1>9, <2>1
  <2>3. t.index = [j \in {t.nodes[i].key : i \in 1..Len(t.nodes)} |-> t.index[j]]
    BY <1>8, <1>11, <2>1
  <2>. QED
    BY <2>2, <2>3 DEF Indexed
<1>13. Kids(t, 1) = {}
  BY <1>2, <1>4, <1>8 DEF Kids, Members
<1>14. Linked(t)
  BY <1>2, <1>4, <1>8, <1>9, <1>13 DEF Linked
<1>15. Flows(t)
  <2>1. VisitsBelow(t, 1) = {}
    BY <1>13, BelowForm
  <2>2. PICK B : B = VisitsBelow(t, 1)
    OBVIOUS
  <2>3. Cardinality({}) = 0
    BY FS_EmptySet
  <2>4. Cardinality(B) = 0
    BY <2>1, <2>2, <2>3, Zenon
  <2>5. t.nodes[1].visits = 0 /\ 1..Len(t.nodes) = {1}
    BY <1>2, <1>4, <1>8, <1>9
  <2>6. Cardinality(VisitsBelow(t, 1)) <= t.nodes[1].visits
    BY <2>2, <2>4, <2>5
  <2>. QED
    BY <1>13, <2>5, <2>6 DEF Flows
<1>. QED
  BY <1>2, <1>4, <1>6, <1>8, <1>10, <1>12, <1>14, <1>15 DEF Sound, root_key_of

LEMMA EnsureFacts ==
    ASSUME NEW t, Sound(t), NEW pk, NEW ck \in Keys, Ensurable(t, pk, ck), NEW u, u = ensure_child(t, pk, ck)
    PROVE  /\ Sound(u) /\ Grows(t, u) /\ (Flows(t) => Flows(u))
           /\ ck \in DOMAIN u.index /\ pk \in DOMAIN u.index
           /\ u.index[ck] \in Kids(u, u.index[pk])
<1>1. PICK parent \in 1..Len(t.nodes) : parent = t.index[pk]
  BY EnsureForm
<1>2. pk \in DOMAIN t.index
  BY DEF Ensurable
<1>3. CASE ck \in DOMAIN t.index
  <2>1. u = t
    BY <1>3, EnsureForm
  <2>2. t.index[ck] \in 1..Len(t.nodes) /\ t.nodes[t.index[ck]].parent = parent /\ parent # 0
    BY <1>1, <1>3, IndexFacts DEF Ensurable
  <2>3. t.index[ck] \in Kids(t, parent)
    BY <2>2 DEF Sound, Linked
  <2>. QED
    BY <1>1, <1>2, <1>3, <2>1, <2>3, GrowsSelf
<1>4. CASE ck \notin DOMAIN t.index
  <2>1. NewLeaf(t, u, parent, ck)
    BY <1>1, <1>4, EnsureForm
  <2>2. Sound(u) /\ Grows(t, u) /\ (Flows(t) => Flows(u))
    BY <1>4, <2>1, NewLeafSound, NewLeafGrows, NewLeafFlows
  <2>3. PICK n \in Nat : LeafFacts(t, u, parent, ck, n)
    BY <2>1, NewLeafKids
  <2>4. n + 1 \in Kids(u, parent) /\ n = Len(t.nodes)
    BY <2>3 DEF LeafFacts
  <2>5. ck \in DOMAIN u.index /\ u.index[ck] = n + 1
    BY <2>1, <2>4 DEF NewLeaf
  <2>6. pk \in DOMAIN u.index /\ u.index[pk] = parent
    BY <1>1, <1>2, <2>2, GrowsIndex
  <2>. QED
    BY <2>2, <2>4, <2>5, <2>6
<1>. QED
  BY <1>3, <1>4

LEMMA BranchPath ==
    ASSUME SInv, Running
    PROVE  Branch \in Seq(Keys) /\ Branch # << >> /\ IsPath(tree, Branch)
<1>1. Sound(tree)
  BY DEF SInv
<1>2. CASE pending # << >>
  BY <1>2 DEF Branch, SInv
<1>3. CASE pending = << >>
  <2>1. PICK k \in Keys : k = root_key_of(tree) /\ k \in DOMAIN tree.index
    <3>1. tree.root \in 1..Len(tree.nodes)
      BY <1>1 DEF Sound, WellFormed
    <3>. QED
      BY <1>1, <3>1, NodeFacts, KeyIndexed DEF root_key_of
  <2>2. PICK p : p = <<k>>
    OBVIOUS
  <2>3. p \in Seq(Keys) /\ p # << >> /\ Len(p) = 1 /\ p[1] = k
    BY <2>2
  <2>4. \A i \in 1..Len(p) : ~RefusedAt(tree, p, i)
    BY <2>1, <2>3 DEF RefusedAt
  <2>5. Branch = p
    BY <1>3, <2>1, <2>2 DEF Branch
  <2>. QED
    BY <2>1, <2>3, <2>4, <2>5 DEF IsPath
<1>. QED
  BY <1>2, <1>3

LEMMA GrownFacts ==
    ASSUME SInv, Running, NEW current \in Keys, Attachable(current)
    PROVE  /\ Sound(Grown(current)) /\ Grows(tree, Grown(current))
           /\ Flows(tree) => Flows(Grown(current))
           /\ Scored(current) \in Seq(Keys) /\ IsPath(Grown(current), Scored(current))
<1>1. Sound(tree)
  BY DEF SInv
<1>2. PICK b \in Seq(Keys) : b = Branch /\ b # << >> /\ IsPath(tree, b)
  BY BranchPath
<1>3. CASE b[Len(b)] = current
  BY <1>1, <1>2, <1>3, GrowsSelf DEF Grown, Scored
<1>4. CASE b[Len(b)] # current
  <2>1. PICK u : u = ensure_child(tree, b[Len(b)], current)
    OBVIOUS
  <2>2. Grown(current) = u /\ Scored(current) = Append(b, current) /\ Ensurable(tree, b[Len(b)], current)
    BY <1>2, <1>4, <2>1 DEF Grown, Scored, Attachable
  <2>3. /\ Sound(u) /\ Grows(tree, u) /\ (Flows(tree) => Flows(u))
        /\ current \in DOMAIN u.index /\ u.index[current] \in Kids(u, u.index[b[Len(b)]])
    BY <1>1, <2>1, <2>2, EnsureFacts
  <2>4. IsPath(u, b)
    BY <1>1, <1>2, <2>3, PathKept
  <2>5. IsPath(u, Append(b, current))
    BY <1>2, <2>3, <2>4, PathExtended
  <2>6. Append(b, current) \in Seq(Keys)
    BY AppendProperties
  <2>. QED
    BY <2>2, <2>3, <2>5, <2>6
<1>. QED
  BY <1>3, <1>4

\* What a step that only adds to the tree leaves in place.
LEMMA GrowthKeeps ==
    ASSUME SInv, Running, Sound(tree'), file' \in Files, DiskOK(file', tree'),
           pending' \in Seq(Keys), pending' # << >> => IsPath(tree', pending'),
           pure' => Flows(tree') /\ FileFlows(file'),
           rounds' \in 0..MaxRounds, pure' \in BOOLEAN
    PROVE  SInv'
<1>1. Running'
  BY SoundRuns DEF Running
<1>. QED
  BY <1>1 DEF SInv

LEMMA InvInit == Init => SInv
<1> SUFFICES ASSUME Init PROVE SInv
  OBVIOUS
<1>1. ~Running /\ pending = << >> /\ pending \in Seq(Keys)
  BY DEF Init, Running
<1>2. file \in Files
  BY SearchAssumption DEF Init, Files
<1>3. pure => FileFlows(file)
  <2>1. pure => file = Missing
    BY Zenon DEF Init
  <2>2. ~Accepted(Missing)
    BY DEF Accepted, Missing
  <2>. QED
    BY <2>1, <2>2 DEF FileFlows
<1>4. rounds \in 0..MaxRounds /\ pure \in BOOLEAN
  BY SearchAssumption DEF Init
<1>. QED
  BY <1>1, <1>2, <1>3, <1>4 DEF SInv

LEMMA InvBuild ==
    ASSUME SInv, NEW b \in Builders, Build(b.root_key, b.persist, b.config)
    PROVE  SInv'
<1>1. PICK k \in Keys, persist \in BOOLEAN, config \in Configs :
         k = b.root_key /\ persist = b.persist /\ config = b.config
  BY SearchAssumption DEF MctsBuilder
<1>2. file \in Files /\ pending = << >> /\ pending' = pending /\ file' = file
      /\ rounds' = rounds /\ pure' = pure
  BY DEF Build, SInv
<1>3. CASE persist /\ Accepted(file) /\ file.nodes[file.root].key = k
  <2>1. PICK r \in Rereads : tree' = from_persisted(file, r, persist, config)
    BY <1>1, <1>3, Zenon DEF Build
  <2>2. PICK t : t = from_persisted(file, r, persist, config)
    OBVIOUS
  <2>3. IsLoaded(file, t, r, persist, config)
    BY <1>2, <1>3, <2>2, LoadForm
  <2>4. Sound(t) /\ Behind(file, t)
    BY <1>2, <1>3, <2>3, LoadSound, BehindLoaded
  <2>5. pure => Flows(t)
    BY <1>3, <2>2 DEF SInv, FileFlows
  <2>6. tree' = t /\ tree' # NoTree
    BY <2>1, <2>2, <2>4, SoundRuns
  <2>. QED
    BY <1>2, <2>4, <2>5, <2>6 DEF SInv, Running, DiskOK
<1>4. CASE ~(persist /\ Accepted(file) /\ file.nodes[file.root].key = k)
  <2>1. PICK t : t = fresh(k, persist, config)
    OBVIOUS
  <2>2. tree' = t
    BY <1>1, <1>4, <2>1 DEF Build
  <2>3. Sound(t) /\ Flows(t) /\ root_key_of(t) = k /\ t.persist = persist
    BY <2>1, FreshSound
  <2>4. DiskOK(file, t)
    BY <1>4, <2>3 DEF DiskOK
  <2>5. tree' # NoTree
    BY <2>2, <2>3, SoundRuns
  <2>. QED
    BY <1>2, <2>2, <2>3, <2>4, <2>5 DEF SInv, Running
<1>. QED
  BY <1>3, <1>4

LEMMA InvExit == ASSUME SInv, Exit PROVE SInv'
<1>1. ~Running' /\ pending' = << >> /\ pending' \in Seq(Keys)
  BY DEF Exit, Running
<1>. QED
  BY <1>1 DEF Exit, SInv

LEMMA InvFlush == ASSUME SInv, FlushPersistence PROVE SInv'
<1>1. Sound(tree) /\ file \in Files /\ DiskOK(file, tree) /\ tree' = tree /\ Running /\ Running'
  BY DEF SInv, FlushPersistence, Running
<1>2. file' \in persist_to_disk(file, tree)
  BY DEF FlushPersistence
<1>3. file' \in Files /\ DiskOK(file', tree)
  BY <1>1, <1>2, DiskWritten
<1>4. pure => FileFlows(file')
  BY <1>1, <1>2, FlowsWritten DEF SInv
<1>. QED
  BY <1>1, <1>3, <1>4 DEF SInv, FlushPersistence

\* The tree grew, and its new state was written or not.
LEMMA ChangeWritten ==
    ASSUME NEW t, Sound(t), NEW u, Sound(u), Grows(t, u), NEW f \in Files, DiskOK(f, t),
           NEW g, g \in PersistChange(f, t, u) \/ g \in persist_to_disk(f, u) \/ g = f
    PROVE  g \in Files /\ DiskOK(g, u) /\ (Flows(u) /\ FileFlows(f) => FileFlows(g))
<1>1. g = f \/ g \in persist_to_disk(f, u)
  BY DEF PersistChange
<1>2. DiskOK(f, u)
  BY DiskKept
<1>. QED
  BY <1>1, <1>2, DiskWritten, FlowsWritten

LEMMA InvEnsure ==
    ASSUME SInv, NEW k \in Keys, NEW c \in Keys, EnsureChild(k, c)
    PROVE  SInv'
<1>1. Running /\ Sound(tree) /\ file \in Files /\ DiskOK(file, tree)
  BY DEF SInv, EnsureChild
<1>2. Sound(tree') /\ Grows(tree, tree') /\ (Flows(tree) => Flows(tree'))
  BY <1>1, EnsureFacts DEF EnsureChild
<1>3. /\ file' \in Files /\ DiskOK(file', tree')
      /\ Flows(tree') /\ FileFlows(file) => FileFlows(file')
  BY <1>1, <1>2, ChangeWritten DEF EnsureChild
<1>4. pending' \in Seq(Keys) /\ (pending' # << >> => IsPath(tree', pending'))
  BY <1>1, <1>2, PathKept DEF SInv, EnsureChild
<1>5. rounds' \in 0..MaxRounds /\ pure' = pure /\ pure \in BOOLEAN
  BY DEF SInv, EnsureChild
<1>6. pure' => Flows(tree') /\ FileFlows(file')
  BY <1>1, <1>2, <1>3, <1>5 DEF SInv
<1>. QED
  BY <1>1, <1>2, <1>3, <1>4, <1>5, <1>6, GrowthKeeps

LEMMA InvBackpropagatePath ==
    ASSUME SInv, NEW p \in Paths, NEW r \in Rewards, BackpropagatePath(p, r)
    PROVE  SInv'
<1>1. Running /\ Sound(tree) /\ file \in Files /\ DiskOK(file, tree) /\ r \in Finite
  BY DEF SInv, BackpropagatePath
<1>2. p \in Seq(Keys)
  <2>1. PICK n \in 1..2 : p \in [1..n -> Keys]
    BY DEF Paths
  <2>. QED
    BY <2>1, FcnSeq
<1>3. Rewarded(tree, tree', p, r) /\ Sound(tree') /\ Grows(tree, tree')
  BY <1>1, <1>2, BackForm, RewardedGrows DEF BackpropagatePath
<1>4. file' \in persist_to_disk(file, tree') \/ file' = file
  BY DEF BackpropagatePath
<1>5. /\ file' \in Files /\ DiskOK(file', tree')
      /\ Flows(tree') /\ FileFlows(file) => FileFlows(file')
  BY <1>1, <1>3, <1>4, ChangeWritten
<1>6. pending' \in Seq(Keys) /\ (pending' # << >> => IsPath(tree', pending'))
  BY <1>1, <1>3, PathKept DEF SInv, BackpropagatePath
<1>7. rounds' \in 0..MaxRounds /\ pure' \in BOOLEAN
  BY SearchAssumption DEF SInv, BackpropagatePath
<1>8. ASSUME pure' PROVE Flows(tree') /\ FileFlows(file')
  <2>1. pure /\ p[1] = root_key_of(tree) /\ p # << >>
    BY <1>8, Zenon DEF BackpropagatePath
  <2>2. Flows(tree) /\ FileFlows(file)
    BY <1>1, <2>1 DEF SInv
  <2>3. Flows(tree')
    BY <1>1, <1>2, <1>3, <2>1, <2>2, PrefixFlows
  <2>. QED
    BY <1>5, <2>2, <2>3
<1>. QED
  BY <1>1, <1>3, <1>5, <1>6, <1>7, <1>8, GrowthKeeps

LEMMA InvSelect ==
    ASSUME SInv, NEW d \in Depths, SelectNext(d)
    PROVE  SInv'
<1>1. Running /\ Sound(tree) /\ pending' \in select_path(tree, d) /\ tree' = tree
  BY DEF SInv, SelectNext
<1>2. pending' \in Seq(Keys) /\ IsPath(tree, pending')
  BY <1>1, SelectedPath
<1>. QED
  BY <1>1, <1>2 DEF SInv, SelectNext, Running

LEMMA InvRefuse ==
    ASSUME SInv, NEW k \in Keys, NEW r, RefuseReward(k, r)
    PROVE  SInv'
<1>1. Running /\ Sound(tree) /\ file \in Files /\ DiskOK(file, tree) /\ Attachable(k)
  BY DEF SInv, RefuseReward
<1>2. Sound(tree') /\ Grows(tree, tree') /\ (Flows(tree) => Flows(tree'))
  BY <1>1, GrownFacts DEF RefuseReward
<1>3. /\ file' \in Files /\ DiskOK(file', tree')
      /\ Flows(tree') /\ FileFlows(file) => FileFlows(file')
  BY <1>1, <1>2, ChangeWritten DEF RefuseReward
<1>4. pending' \in Seq(Keys) /\ (pending' # << >> => IsPath(tree', pending'))
  BY <1>1, <1>2, PathKept DEF SInv, RefuseReward
<1>5. rounds' \in 0..MaxRounds /\ pure' = pure /\ pure \in BOOLEAN
  BY DEF SInv, RefuseReward
<1>6. pure' => Flows(tree') /\ FileFlows(file')
  BY <1>1, <1>2, <1>3, <1>5 DEF SInv
<1>. QED
  BY <1>1, <1>2, <1>3, <1>4, <1>5, <1>6, GrowthKeeps

LEMMA InvBackpropagate ==
    ASSUME SInv, NEW k \in Keys, NEW r \in Rewards, NEW d \in Depths, BackpropagateAndSelect(k, r, d)
    PROVE  SInv'
<1>1. Running /\ Sound(tree) /\ file \in Files /\ DiskOK(file, tree) /\ Attachable(k) /\ r \in Finite
  BY DEF SInv, BackpropagateAndSelect
<1>2. PICK t : t = Grown(k)
  OBVIOUS
<1>3. PICK p \in Seq(Keys) : p = Scored(k)
  BY <1>1, GrownFacts
<1>4. Sound(t) /\ Grows(tree, t) /\ (Flows(tree) => Flows(t)) /\ IsPath(t, p)
  BY <1>1, <1>2, <1>3, GrownFacts
<1>5. Rewarded(t, tree', p, r)
  BY <1>1, <1>2, <1>3, <1>4, BackForm DEF BackpropagateAndSelect
<1>6. Sound(tree') /\ Grows(t, tree') /\ (Flows(t) => Flows(tree'))
  BY <1>1, <1>4, <1>5, RewardedGrows, RewardedFlows
<1>7. PICK f \in PersistChange(file, tree, t) : f = file' \/ file' \in persist_to_disk(f, tree')
  BY <1>2 DEF BackpropagateAndSelect
<1>8. f \in Files /\ DiskOK(f, t) /\ (Flows(t) /\ FileFlows(file) => FileFlows(f))
  BY <1>1, <1>4, <1>7, ChangeWritten
<1>9. file' \in Files /\ DiskOK(file', tree') /\ (Flows(tree') /\ FileFlows(f) => FileFlows(file'))
  BY <1>4, <1>6, <1>7, <1>8, ChangeWritten
<1>10. pending' \in Seq(Keys) /\ (pending' # << >> => IsPath(tree', pending'))
  <2>1. pending' \in select_path(tree', d) \/ pending' = pending
    BY DEF BackpropagateAndSelect
  <2>2. CASE pending' \in select_path(tree', d)
    BY <1>6, <2>2, SelectedPath
  <2>3. CASE pending' = pending
    <3>1. pending \in Seq(Keys) /\ (pending # << >> => IsPath(tree, pending))
      BY <1>1 DEF SInv
    <3>2. pending # << >> => IsPath(t, pending)
      BY <1>1, <1>4, <3>1, PathKept
    <3>3. pending # << >> => IsPath(tree', pending)
      BY <1>4, <1>6, <3>1, <3>2, PathKept
    <3>. QED
      BY <2>3, <3>1, <3>3
  <2>. QED
    BY <2>1, <2>2, <2>3
<1>11. rounds' \in 0..MaxRounds /\ pure' = pure /\ pure \in BOOLEAN
  BY SearchAssumption DEF SInv, BackpropagateAndSelect
<1>12. pure' => Flows(tree') /\ FileFlows(file')
  BY <1>1, <1>4, <1>6, <1>8, <1>9, <1>11 DEF SInv
<1>13. Running'
  BY <1>6, SoundRuns DEF Running
<1>. QED
  BY <1>6, <1>9, <1>10, <1>11, <1>12, <1>13 DEF SInv

LEMMA InvNext == SInv /\ [Next]_vars => SInv'
<1> SUFFICES ASSUME SInv, [Next]_vars PROVE SInv'
  OBVIOUS
<1>1. CASE Next
  BY <1>1, InvBuild, InvExit, InvFlush, InvEnsure, InvBackpropagatePath, InvSelect, InvRefuse,
     InvBackpropagate DEF Next
<1>2. CASE UNCHANGED vars
  BY <1>2 DEF vars, SInv, Running
<1>. QED
  BY <1>1, <1>2

LEMMA SearchCorrect == Spec => []SInv
BY InvInit, InvNext, PTL DEF Spec

(***************************************************************************)
(* What follows.                                                           *)
(***************************************************************************)
LEMMA SoundTyped ==
    ASSUME NEW t, Sound(t), NEW i \in 1..Len(t.nodes)
    PROVE  t.nodes[i] \in NodeOf(Len(t.nodes))
<1>1. PICK n \in Nat : n = Len(t.nodes)
  BY DEF Sound, WellFormed
<1>2. PICK x \in Node : x = t.nodes[i]
  BY NodeFacts
<1>3. x.parent \in 0..n
  <2>1. x.parent \in Nat /\ (x.parent # 0 => x.parent \in 1..n)
    BY <1>1, <1>2 DEF Node, Sound, Linked
  <2>. QED
    BY <1>1, <2>1
<1>4. PICK s \in Seq(Nat \ {0}) : s = x.children
  BY DEF Node
<1>5. s \in Seq(1..n)
  <2>1. \A j \in 1..Len(s) : s[j] \in 1..n
    BY <1>1, <1>2, <1>4 DEF Sound, Linked, Kids, Members
  <2>2. s \in [1..Len(s) -> 1..n] /\ Len(s) \in Nat
    BY <2>1
  <2>. QED
    BY <2>2, FcnSeq
<1>6. x \in [key : Keys, parent : 0..n, children : Seq(1..n), visits : Nat,
              sum : Finite \cup {Inf, NegInf}, best : Finite \cup {NegInf}]
  BY <1>3, <1>4, <1>5 DEF Node
<1>. QED
  BY <1>1, <1>2, <1>6 DEF NodeOf

LEMMA SoundTree == SInv => TreeSound
<1> SUFFICES ASSUME SInv PROVE TreeSound
  OBVIOUS
<1>1. \A i \in 1..Len(pending) : pending[i] \in Keys
  BY DEF SInv
<1>2. file.kind \in {"missing", "torn", "tree"}
  BY DEF SInv, Files, PersistedMcts, Missing, Torn
<1>3. tree.persist \in BOOLEAN /\ tree.config \in Configs
  <2>1. CASE Running
    BY <2>1 DEF SInv, Sound, WellFormed
  <2>2. CASE ~Running
    <3>1. tree = NoTree
      BY <2>2 DEF Running
    <3>2. NoTree.persist = FALSE /\ NoTree.config \in Configs
      BY DEF NoTree, Configs
    <3>. QED
      BY <3>1, <3>2
  <2>. QED
    BY <2>1, <2>2
<1>4. ASSUME Running
      PROVE  /\ \A i \in 1..Len(tree.nodes) : tree.nodes[i] \in NodeOf(Len(tree.nodes))
             /\ tree.root \in 1..Len(tree.nodes)
             /\ DOMAIN tree.index \subseteq Keys
             /\ \A k \in DOMAIN tree.index : tree.index[k] \in 1..Len(tree.nodes)
  <2>1. Sound(tree)
    BY <1>4 DEF SInv
  <2>. QED
    BY <2>1, SoundTyped, IndexFacts DEF Sound, WellFormed
<1>5. TypeOK
  BY <1>1, <1>2, <1>3, <1>4 DEF TypeOK, SInv
<1>6. ASSUME Running
      PROVE  /\ DOMAIN tree.index = {tree.nodes[i].key : i \in 1..Len(tree.nodes)}
             /\ \A i \in 1..Len(tree.nodes) : tree.index[tree.nodes[i].key] = i
             /\ tree.nodes[tree.root].parent = 0
             /\ \A i \in 1..Len(tree.nodes) :
                  /\ tree.nodes[i].parent # 0 => i \in Kids(tree, tree.nodes[i].parent)
                  /\ \A c \in Kids(tree, i) : tree.nodes[c].parent = i
  <2>1. Sound(tree)
    BY <1>6 DEF SInv
  <2>. QED
    BY <2>1 DEF Sound, Indexed, Linked
<1>7. ASSUME Running,
             NEW p \in [1..(Len(tree.nodes) + 1) -> 1..Len(tree.nodes)], p[1] = tree.root,
             \A j \in 1..Len(tree.nodes) : p[j + 1] \in Kids(tree, p[j])
      PROVE  FALSE
  <2>1. Sound(tree)
    BY <1>7 DEF SInv
  <2>2. PICK n \in Nat : n = Len(tree.nodes)
    BY <2>1 DEF Sound, WellFormed
  <2>3. (n + 1) - 1 = n
    BY <2>2
  <2>4. Descends(tree, p, n + 1)
    BY <1>7, <2>2, <2>3 DEF Descends
  <2>. QED
    BY <2>1, <2>2, <2>4, WalksEnd
<1>. QED
  BY <1>5, <1>6, <1>7 DEF TreeSound

\* Whatever calls a policy makes, whatever file it finds and wherever it ends
\* and starts again, the index, the parents and the children of the tree
\* agree, no access is out of range and the walk of select_path ends.
THEOREM TreeKept == Spec => []TreeSound
BY SearchCorrect, SoundTree, PTL

\* What persist_to_disk writes whole, maybe_load_from_disk accepts exactly if
\* no float of the config and no sum is infinite or NaN; then keys, links,
\* visits and index are the same and a float is the one written or next to it.
THEOREM TripKept == Spec => []RoundTrip
<1>1. SInv => RoundTrip
  <2> SUFFICES ASSUME SInv, Running PROVE RoundTrip
    BY DEF RoundTrip
  <2>1. Sound(tree)
    BY DEF SInv
  <2>2. PICK f : f = to_persisted(tree)
    OBVIOUS
  <2>3. Accepted(f) <=>
          /\ tree.config = "finite"
          /\ \A i \in 1..Len(tree.nodes) : tree.nodes[i].sum \in Finite
    BY <2>1, <2>2, StoreAccepted, AcceptedStored
  <2>4. ASSUME Accepted(f), NEW r \in Rereads, NEW u,
               u = from_persisted(f, r, tree.persist, tree.config)
        PROVE  /\ u.root = tree.root /\ u.index = tree.index /\ Len(u.nodes) = Len(tree.nodes)
               /\ \A i \in 1..Len(tree.nodes) : Reread(u.nodes[i], tree.nodes[i])
    BY <2>1, <2>2, <2>4, StoreBack
  <2>. QED
    BY <2>2, <2>3, <2>4 DEF RoundTrip, Reread
<1>. QED
  BY <1>1, SearchCorrect, PTL

\* The path select_next remembers stays a way down from the root until its
\* reward arrives, so that backpropagate_path never refuses it half way.
THEOREM PathStays == Spec => []PendingIsPath
<1>1. SInv => PendingIsPath
  <2> SUFFICES ASSUME SInv, Running, pending # << >>
               PROVE  pending[1] = root_key_of(tree) /\ Counted(tree, pending) = 1..Len(pending)
    BY DEF PendingIsPath
  <2>1. pending \in Seq(Keys) /\ IsPath(tree, pending)
    BY DEF SInv
  <2>. QED
    BY <2>1, PathCounted DEF IsPath
<1>. QED
  BY <1>1, SearchCorrect, PTL

\* A file that maybe_load_from_disk would accept for this root is an earlier
\* state of the tree in memory, however its writes failed.
THEOREM DiskStaysBehind == Spec => []DiskBehind
<1>1. SInv => DiskBehind
  BY DEF SInv, DiskBehind, DiskOK, Behind
<1>. QED
  BY <1>1, SearchCorrect, PTL

\* On a file of its own every visit of a node is also one of its parent, as
\* long as paths begin at the root: backpropagate_path counts each node of
\* what it accepts of a path once, and always from the top.
THEOREM CountsKept == Spec => []CountsFlowDown
<1>1. SInv => CountsFlowDown
  BY DEF SInv, CountsFlowDown, Flows
<1>. QED
  BY <1>1, SearchCorrect, PTL

=============================================================================
