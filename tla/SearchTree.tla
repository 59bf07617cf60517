----------------------------- MODULE SearchTree -----------------------------
(***************************************************************************)
(* The Monte Carlo tree search of the SDK (mitb-sdk/src/search/mcts.rs):   *)
(* the tree `Mcts`, the search `PendingTreeSearch` built on it, and the    *)
(* file in which the tree is kept.  The tree is owned by one policy, which *)
(* may end at any moment and be started again; what it finds then is what  *)
(* the last writes left in the file.                                       *)
(*                                                                         *)
(* Indices count from 1, and 0 stands for the parent None.  A float is an  *)
(* integer in Finite, or Inf or NegInf when a sum leaves that range; two   *)
(* integers that follow each other stand for neighbouring floats.  The     *)
(* values of UCB scores are not computed: see select_best_child_by_ucb.    *)
(***************************************************************************)
EXTENDS Integers, Sequences, FiniteSets

CONSTANTS Keys,          \* node keys: numbers, in the order of the strings
          Builders,      \* what a policy may set in an MctsBuilder
          Rewards,       \* rewards a policy may pass, finite or not
          FMax,          \* largest finite float
          KNum, KDen,    \* progressive_widening_k as a fraction, when it is
                         \* finite; alpha is 0.5
          Depths,        \* the max_depth arguments a policy passes
          ForeignFiles,  \* files the policy may find at its very first start
          MaxRounds      \* bound: backpropagations in a behaviour

Finite == -FMax..FMax
Inf == FMax + 1
NegInf == -FMax - 1
NotFinite == FMax + 2    \* a reward that is NaN, and the null of a JSON file
Near(x, y) == x - y \in -1..1

(* What serde_json may make of a float it has written: this or, since it   *)
(* is built without float_roundtrip, a neighbour; zero is read as it was,  *)
(* and so is the sign.                                                     *)
Rereads == {r \in [Finite -> Finite] :
               \A x \in Finite : Near(r[x], x) /\ r[-x] = -r[x]}

(* What a file may hold for a node: PersistedNode, with indices from 1 and *)
(* 0 for None.                                                             *)
PersistedNode ==
    [key : Keys, parent : Nat, children : Seq(Nat \ {0}), visits : Nat,
     sum : Finite \cup {NotFinite}, best : Finite \cup {NotFinite}]
PersistedMcts == [kind : {"tree"}, config : {"finite", "null"}, root : Nat,
                  nodes : Seq(PersistedNode)]

(* The root key, whether there is a persistence path, and the MctsConfig,  *)
(* of which nothing checks that its floats are finite: here either all     *)
(* are, or progressive_widening_k or exploration_constant is infinite.     *)
Configs == {"finite", "infinite_k", "infinite_c"}
MctsBuilder == [root_key : Keys, persist : BOOLEAN, config : Configs]

ASSUME SearchAssumption ==
    /\ Keys \subseteq Nat
    /\ Builders \subseteq MctsBuilder
    /\ FMax \in Nat
    /\ Rewards \subseteq Finite \cup {NotFinite}
    /\ KNum \in Nat /\ KDen \in Nat \ {0}
    /\ Depths \subseteq Nat
    /\ ForeignFiles \subseteq PersistedMcts
    /\ MaxRounds \in Nat

VARIABLES
    tree,      \* the Mcts, or NoTree while no policy runs
    pending,   \* pending_selection_path; << >> is None
    file,      \* what is at the persistence path
    rounds,    \* bound: the number of backpropagations so far
    pure       \* history: the tree stems from no foreign file, and every
               \* path rewarded through tree_mut began at the root

vars == <<tree, pending, file, rounds, pure>>

NodeAt(key, parent) ==
    [key |-> key, parent |-> parent, children |-> << >>,
     visits |-> 0, sum |-> 0, best |-> NegInf]

NoTree == [root |-> 0, nodes |-> << >>, index |-> << >>, persist |-> FALSE,
           config |-> "finite"]
Running == tree # NoTree

fresh(root_key, persist, config) ==
    [root |-> 1, nodes |-> <<NodeAt(root_key, 0)>>,
     index |-> [k \in {root_key} |-> 1], persist |-> persist, config |-> config]

root_key_of(t) == t.nodes[t.root].key
Members(s) == {s[i] : i \in 1..Len(s)}
Kids(t, i) == Members(t.nodes[i].children)

(***************************************************************************)
(* ensure_child                                                            *)
(***************************************************************************)
(* The calls that are not refused.                                         *)
Ensurable(t, parent_key, child_key) ==
    /\ parent_key \in DOMAIN t.index
    /\ child_key \in DOMAIN t.index =>
           t.nodes[t.index[child_key]].parent = t.index[parent_key]

(* The tree after a call that is not refused.                              *)
ensure_child(t, parent_key, child_key) ==
    LET parent == t.index[parent_key]
        child == IF child_key \in DOMAIN t.index
                   THEN t.index[child_key] ELSE Len(t.nodes) + 1
    IN IF child \in Kids(t, parent) THEN t
       ELSE LET adopted == [t.nodes EXCEPT ![parent].children = Append(@, child)]
            IN IF child_key \in DOMAIN t.index THEN [t EXCEPT !.nodes = adopted]
               ELSE [t EXCEPT !.nodes = Append(adopted, NodeAt(child_key, parent)),
                              !.index = [k \in DOMAIN t.index \cup {child_key} |->
                                            IF k = child_key THEN child ELSE t.index[k]]]

(***************************************************************************)
(* backpropagate_path                                                      *)
(***************************************************************************)
(* The path is refused at its i-th key.                                    *)
RefusedAt(t, path, i) ==
    \/ path[i] \notin DOMAIN t.index
    \/ i > 1 /\ t.index[path[i]] \notin Kids(t, t.index[path[i - 1]])

(* The keys before the first one refused are counted all the same.         *)
Counted(t, path) ==
    {i \in 1..Len(path) : \A j \in 1..i : ~RefusedAt(t, path, j)}

FAdd(a, b) ==
    CASE a \notin Finite -> a
      [] a \in Finite /\ a + b > FMax -> Inf
      [] a \in Finite /\ a + b < -FMax -> NegInf
      [] OTHER -> a + b

(* Mutant: only the last node of the path is counted.                      *)
backpropagate_leaf(t, path, reward) ==
    IF path[Len(path)] \notin DOMAIN t.index THEN t
    ELSE [t EXCEPT !.nodes[t.index[path[Len(path)]]] =
        [@ EXCEPT !.visits = @ + 1, !.sum = FAdd(@, reward),
                  !.best = IF reward > @ THEN reward ELSE @]]

(* A node occurs more than once on a path only within a cycle that a       *)
(* foreign file brought along.                                             *)
backpropagate_path(t, path, reward) ==
    [t EXCEPT !.nodes = [n \in 1..Len(t.nodes) |->
        LET times == Cardinality({i \in Counted(t, path) : t.index[path[i]] = n}) IN
        IF times = 0 THEN t.nodes[n]
        ELSE [t.nodes[n] EXCEPT !.visits = @ + times,
                                !.sum = FAdd(@, times * reward),
                                !.best = IF reward > @ THEN reward ELSE @]]]

(***************************************************************************)
(* select_path                                                             *)
(***************************************************************************)
should_expand_here(t, i) ==
    LET n == Len(t.nodes[i].children)
        visits == IF t.nodes[i].visits = 0 THEN 1 ELSE t.nodes[i].visits
    IN \/ n = 0
       \/ t.config = "infinite_k"
       \/ (n * KDen) * (n * KDen) < (KNum * KNum) * visits

(* The children whose score is infinite, and those whose score is finite.  *)
(* An infinite exploration_constant leaves no score finite: it is infinite *)
(* times the square root of ln(visits of the parent) / visits, and that is *)
(* NaN where the logarithm is zero, and when minus infinity is added to it.*)
ScoredInfinite(t, i) ==
    {c \in Kids(t, i) :
        \/ t.nodes[c].visits = 0
        \/ IF t.config = "infinite_c" THEN t.nodes[i].visits > 1 /\ t.nodes[c].sum # NegInf
                                      ELSE t.nodes[c].sum = Inf}
ScoredFinite(t, i) ==
    {c \in Kids(t, i) : t.config # "infinite_c" /\ t.nodes[c].sum \in Finite}

(* The children the comparison of UCB scores may settle on: the least key  *)
(* of those whose score is infinite, else any whose score is finite.  A    *)
(* score of minus infinity never wins, nor does NaN.                       *)
select_best_child_by_ucb(t, i) ==
    LET infinite == ScoredInfinite(t, i)
    IN IF infinite # {}
         THEN {c \in infinite : \A d \in infinite : t.nodes[c].key <= t.nodes[d].key}
         ELSE ScoredFinite(t, i)

(* Mutant: the walk may begin at any node.                                 *)
WalksFromAnywhere(t, max_depth) ==
    UNION {{p \in [1..n -> 1..Len(t.nodes)] :
               \A j \in 1..(n - 1) :
                  /\ ~should_expand_here(t, p[j])
                  /\ p[j + 1] \in select_best_child_by_ucb(t, p[j])} :
           n \in {k \in 1..Len(t.nodes) : k <= max_depth}}

(* The walks down from the root; none is longer than there are nodes       *)
(* (TreeSound).                                                            *)
Walks(t, max_depth) ==
    UNION {{p \in [1..n -> 1..Len(t.nodes)] :
               /\ p[1] = t.root
               /\ \A j \in 1..(n - 1) :
                  /\ ~should_expand_here(t, p[j])
                  /\ p[j + 1] \in select_best_child_by_ucb(t, p[j])} :
           n \in {k \in 1..Len(t.nodes) : k <= max_depth}}

KeysOf(t, p) == [j \in 1..Len(p) |-> t.nodes[p[j]].key]

(* The paths select_path may return, and whether it may fail.              *)
select_path(t, max_depth) ==
    {KeysOf(t, p) : p \in {w \in Walks(t, max_depth) :
        Len(w) = max_depth \/ should_expand_here(t, w[Len(w)])}}

SelectFails(t, max_depth) ==
    \/ max_depth = 0
    \/ \E w \in Walks(t, max_depth) :
           /\ Len(w) < max_depth /\ ~should_expand_here(t, w[Len(w)])
           /\ select_best_child_by_ucb(t, w[Len(w)]) = {}

(***************************************************************************)
(* The file: to_persisted, from_persisted and what a write leaves behind.  *)
(* A best reward of minus infinity is an Option None; JSON writes a float  *)
(* that is not finite as null, which is not read back as a float, whether  *)
(* it is the sum of a node or a field of the MctsConfig.                   *)
(***************************************************************************)
Missing == [kind |-> "missing", config |-> "finite", root |-> 0, nodes |-> << >>]
Torn == [kind |-> "torn", config |-> "finite", root |-> 0, nodes |-> << >>]

to_persisted(t) ==
    [kind |-> "tree", root |-> t.root,
     config |-> IF t.config = "finite" THEN "finite" ELSE "null",
     nodes |-> [i \in 1..Len(t.nodes) |->
         [t.nodes[i] EXCEPT !.sum = IF @ \in Finite THEN @ ELSE NotFinite,
                            !.best = IF @ \in Finite THEN @ ELSE NotFinite]]]

(* Mutant: the root may have a parent.                                     *)
AcceptedAnyRoot(f) ==
    LET n == Len(f.nodes) IN
    /\ f.kind = "tree" /\ f.config = "finite" /\ n > 0 /\ f.root \in 1..n
    /\ \A i \in 1..n : f.nodes[i].sum \in Finite
    /\ \A i, j \in 1..n : f.nodes[i].key = f.nodes[j].key => i = j
    /\ \A i \in 1..n :
           /\ f.nodes[i].parent # 0 =>
                  /\ f.nodes[i].parent <= n
                  /\ i \in Members(f.nodes[f.nodes[i].parent].children)
           /\ \A c \in Members(f.nodes[i].children) : c <= n /\ f.nodes[c].parent = i

(* The file is parsed and passes from_persisted.                           *)
Accepted(f) ==
    LET n == Len(f.nodes) IN
    /\ f.kind = "tree" /\ f.config = "finite" /\ n > 0 /\ f.root \in 1..n
    /\ f.nodes[f.root].parent = 0
    /\ \A i \in 1..n : f.nodes[i].sum \in Finite
    /\ \A i, j \in 1..n : f.nodes[i].key = f.nodes[j].key => i = j
    /\ \A i \in 1..n :
           /\ f.nodes[i].parent # 0 =>
                  /\ f.nodes[i].parent <= n
                  /\ i \in Members(f.nodes[f.nodes[i].parent].children)
           /\ \A c \in Members(f.nodes[i].children) : c <= n /\ f.nodes[c].parent = i

(* Mutant: a best reward of None comes back as zero.                       *)
from_persisted_zero(f, r, persist, config) ==
    [root |-> f.root, persist |-> persist, config |-> config,
     nodes |-> [i \in 1..Len(f.nodes) |->
         [f.nodes[i] EXCEPT !.sum = r[@], !.best = IF @ \in Finite THEN r[@] ELSE 0]],
     index |-> [k \in {f.nodes[i].key : i \in 1..Len(f.nodes)} |->
         CHOOSE i \in 1..Len(f.nodes) : f.nodes[i].key = k]]

(* The tree of an accepted file, read by r; try_build then replaces the    *)
(* config of the file by the one the builder was given.                    *)
from_persisted(f, r, persist, config) ==
    [root |-> f.root, persist |-> persist, config |-> config,
     nodes |-> [i \in 1..Len(f.nodes) |->
         [f.nodes[i] EXCEPT !.sum = r[@], !.best = IF @ \in Finite THEN r[@] ELSE NegInf]],
     index |-> [k \in {f.nodes[i].key : i \in 1..Len(f.nodes)} |->
         CHOOSE i \in 1..Len(f.nodes) : f.nodes[i].key = k]]

(* persist_to_disk: fs::write truncates the file and then fills it.  It    *)
(* may fail before, in the middle, or not at all.                          *)
persist_to_disk(f, t) == IF t.persist THEN {f, Torn, to_persisted(t)} ELSE {f}

(* ensure_child writes the file only if it changed the tree.               *)
PersistChange(f, t, after) == IF after = t THEN {f} ELSE persist_to_disk(f, after)

(***************************************************************************)
(* The policy.                                                             *)
(***************************************************************************)
Init ==
    /\ tree = NoTree
    /\ pending = << >>
    /\ file \in {Missing} \cup ForeignFiles
    /\ rounds = 0
    /\ pure = (file = Missing)

(* Mutant: the file is not looked at.                                      *)
BuildFresh(root_key, persist, config) ==
    /\ ~Running
    /\ tree' = fresh(root_key, persist, config)
    /\ UNCHANGED <<pending, file, rounds, pure>>

(* MctsBuilder::build: a file that cannot be read, or is the tree of       *)
(* another root, is passed over.  (try_build returns the error instead.)   *)
Build(root_key, persist, config) ==
    /\ ~Running
    /\ tree' \in IF persist /\ Accepted(file) /\ file.nodes[file.root].key = root_key
                   THEN {from_persisted(file, r, persist, config) : r \in Rereads}
                   ELSE {fresh(root_key, persist, config)}
    /\ UNCHANGED <<pending, file, rounds, pure>>

(* The policy ends, in the middle of a write if the file is torn.          *)
Exit ==
    /\ Running
    /\ tree' = NoTree /\ pending' = << >>
    /\ UNCHANGED <<file, rounds, pure>>

FlushPersistence ==
    /\ Running
    /\ file' \in persist_to_disk(file, tree)
    /\ UNCHANGED <<tree, pending, rounds, pure>>

(* Calls on PendingTreeSearch::tree_mut().  A call refused changes nothing. *)
EnsureChild(parent_key, child_key) ==
    /\ Running
    /\ Ensurable(tree, parent_key, child_key)
    /\ tree' = ensure_child(tree, parent_key, child_key)
    /\ file' \in PersistChange(file, tree, tree')
    /\ UNCHANGED <<pending, rounds, pure>>

(* A path that is refused half way is not written to the file.             *)
BackpropagatePath(path, reward) ==
    /\ Running /\ rounds < MaxRounds
    /\ reward \in Finite /\ path # << >>
    /\ rounds' = rounds + 1
    /\ tree' = backpropagate_path(tree, path, reward)
    /\ file' \in IF Counted(tree, path) = 1..Len(path)
                   THEN persist_to_disk(file, tree') ELSE {file}
    /\ pure' = (pure /\ path[1] = root_key_of(tree))
    /\ UNCHANGED pending

SelectNext(max_depth) ==
    /\ Running
    /\ pending' \in select_path(tree, max_depth)
    /\ UNCHANGED <<tree, file, rounds, pure>>

(* backpropagate_and_select: where the evaluated node hangs, the tree with *)
(* it, and the path its reward is counted along.                           *)
Branch == IF pending = << >> THEN <<root_key_of(tree)>> ELSE pending
Grown(current) ==
    IF Branch[Len(Branch)] = current THEN tree
    ELSE ensure_child(tree, Branch[Len(Branch)], current)
Scored(current) ==
    IF Branch[Len(Branch)] = current THEN Branch ELSE Append(Branch, current)
Attachable(current) ==
    \/ Branch[Len(Branch)] = current
    \/ Ensurable(tree, Branch[Len(Branch)], current)

Followed(current) ==
    Counted(Grown(current), Scored(current)) = 1..Len(Scored(current))

(* The reward is refused after the node was added.                         *)
RefuseReward(current, reward) ==
    /\ Running /\ Attachable(current) /\ reward \notin Finite
    /\ tree' = Grown(current)
    /\ file' \in PersistChange(file, tree, tree')
    /\ UNCHANGED <<pending, rounds, pure>>

(* The reward is counted; only then may the selection fail.                *)
BackpropagateAndSelect(current, reward, max_depth) ==
    /\ Running /\ rounds < MaxRounds
    /\ Attachable(current) /\ reward \in Finite
    /\ rounds' = rounds + 1
    /\ tree' = backpropagate_path(Grown(current), Scored(current), reward)
    /\ \E f \in PersistChange(file, tree, Grown(current)) :
           file' \in IF Followed(current) THEN persist_to_disk(f, tree') ELSE {f}
    /\ pending' \in
           (IF Followed(current) THEN select_path(tree', max_depth) ELSE {})
           \cup (IF Followed(current) /\ ~SelectFails(tree', max_depth)
                   THEN {} ELSE {pending})
    /\ UNCHANGED pure

Paths == UNION {[1..n -> Keys] : n \in 1..2}

Next ==
    \/ \E b \in Builders : Build(b.root_key, b.persist, b.config)
    \/ Exit
    \/ FlushPersistence
    \/ \E k, c \in Keys : EnsureChild(k, c)
    \/ \E p \in Paths, r \in Rewards : BackpropagatePath(p, r)
    \/ \E d \in Depths : SelectNext(d)
    \/ \E k \in Keys, r \in Rewards : RefuseReward(k, r)
    \/ \E k \in Keys, r \in Rewards, d \in Depths : BackpropagateAndSelect(k, r, d)

Spec == Init /\ [][Next]_vars

(***************************************************************************)
(* Properties                                                              *)
(***************************************************************************)
NodeOf(n) ==
    [key : Keys, parent : 0..n, children : Seq(1..n), visits : Nat,
     sum : Finite \cup {Inf, NegInf}, best : Finite \cup {NegInf}]

(* Every index the tree holds is the index of a node, and so is every      *)
(* entry of index_by_key: nodes[..] never panics.                          *)
TypeOK ==
    /\ Running =>
         LET n == Len(tree.nodes) IN
         /\ \A i \in 1..n : tree.nodes[i] \in NodeOf(n)
         /\ tree.root \in 1..n
         /\ DOMAIN tree.index \subseteq Keys
         /\ \A k \in DOMAIN tree.index : tree.index[k] \in 1..n
    /\ tree.persist \in BOOLEAN
    /\ tree.config \in Configs
    /\ \A i \in 1..Len(pending) : pending[i] \in Keys
    /\ file.kind \in {"missing", "torn", "tree"}
    /\ rounds \in 0..MaxRounds
    /\ pure \in BOOLEAN

(* index_by_key finds each node by its key, parents and children name each *)
(* other, by indices that exist, and no walk from the root is longer than  *)
(* there are nodes, so that the loop of select_path ends: whatever calls   *)
(* and restarts there were (ensure_child, from_persisted, select_path).    *)
TreeSound ==
    /\ TypeOK
    /\ Running =>
         /\ DOMAIN tree.index = {tree.nodes[i].key : i \in 1..Len(tree.nodes)}
         /\ \A i \in 1..Len(tree.nodes) : tree.index[tree.nodes[i].key] = i
         /\ tree.nodes[tree.root].parent = 0
         /\ \A i \in 1..Len(tree.nodes) :
              /\ tree.nodes[i].parent # 0 => i \in Kids(tree, tree.nodes[i].parent)
              /\ \A c \in Kids(tree, i) : tree.nodes[c].parent = i
         /\ LET n == Len(tree.nodes) IN
            ~ \E p \in [1..(n + 1) -> 1..n] :
                  p[1] = tree.root /\ \A j \in 1..n : p[j + 1] \in Kids(tree, p[j])

(* A tree that is written whole is read back exactly when its config and   *)
(* all its sums are finite.  Then the keys, links, visits and the index    *)
(* are what they were, a node without a reward comes back without one, and *)
(* a sum or a best reward is at most one float off: persist_to_disk, then  *)
(* maybe_load_from_disk.                                                   *)
RoundTrip ==
    Running =>
      LET written == to_persisted(tree) IN
      /\ Accepted(written) <=>
            /\ tree.config = "finite"
            /\ \A i \in 1..Len(tree.nodes) : tree.nodes[i].sum \in Finite
      /\ Accepted(written) =>
           \A r \in Rereads :
             LET back == from_persisted(written, r, tree.persist, tree.config) IN
             /\ back.root = tree.root
             /\ back.index = tree.index
             /\ Len(back.nodes) = Len(tree.nodes)
             /\ \A i \in 1..Len(tree.nodes) :
                  LET old == tree.nodes[i] new == back.nodes[i] IN
                  /\ new.key = old.key /\ new.parent = old.parent
                  /\ new.children = old.children /\ new.visits = old.visits
                  /\ Near(new.sum, old.sum)
                  /\ IF old.best = NegInf THEN new.best = NegInf
                                         ELSE new.best \in Finite /\ Near(new.best, old.best)

(* The file is an earlier state of the tree in memory: whatever a restart  *)
(* loads has happened, in this order, and nothing was counted twice.  A    *)
(* float in memory that was read from the file may be a neighbour of the   *)
(* one there.                                                              *)
DiskBehind ==
    Running /\ tree.persist /\ Accepted(file)
            /\ file.nodes[file.root].key = root_key_of(tree) =>
      /\ file.root = tree.root
      /\ Len(file.nodes) <= Len(tree.nodes)
      /\ \A i \in 1..Len(file.nodes) :
           LET old == file.nodes[i] now == tree.nodes[i] IN
           /\ old.key = now.key /\ old.parent = now.parent
           /\ Len(old.children) <= Len(now.children)
           /\ old.visits <= now.visits
           /\ old.visits = now.visits => Near(now.sum, old.sum)
           /\ old.best # NotFinite => old.best <= now.best + 1

(* The pending path stays a way down from the root, whatever is added to   *)
(* the tree before its reward arrives, so that backpropagate_and_select    *)
(* never fails half way.                                                   *)
PendingIsPath ==
    Running /\ pending # << >> =>
      /\ pending[1] = root_key_of(tree)
      /\ Counted(tree, pending) = 1..Len(pending)

(* The visits of a node's children, one by one.                            *)
VisitsBelow(t, i) == UNION {{c} \X (1..t.nodes[c].visits) : c \in Kids(t, i)}

(* Rewards reach the root: a node has been visited at least as often as    *)
(* its children together, whatever was added through tree_mut, however     *)
(* selection, refused paths and restarts went, as long as paths rewarded   *)
(* through tree_mut began at the root (backpropagate_path).                *)
CountsFlowDown ==
    Running /\ pure =>
      \A i \in 1..Len(tree.nodes) :
        Cardinality(VisitsBelow(tree, i)) <= tree.nodes[i].visits
=============================================================================
