------------------------------ MODULE MCSearch ------------------------------
(* Instances of SearchTree for TLC.                                        *)
EXTENDS SearchTree

Node(key, parent, children) ==
    [key |-> key, parent |-> parent, children |-> children,
     visits |-> 0, sum |-> 0, best |-> NotFinite]
File(root, nodes) ==
    [kind |-> "tree", config |-> "finite", root |-> root, nodes |-> nodes]

(* Files not written by this program: a cycle apart from the root, a root  *)
(* on a cycle, two parents for a child.                                    *)
MCForeignFiles ==
    { File(1, <<Node(1, 0, << >>), Node(2, 3, <<3>>), Node(3, 2, <<2>>)>>),
      File(1, <<Node(1, 2, <<2>>), Node(2, 1, <<1>>)>>),
      File(1, <<Node(1, 0, <<3>>), Node(2, 0, <<3>>), Node(3, 1, << >>)>>) }

Builder(root_key, persist, config) ==
    [root_key |-> root_key, persist |-> persist, config |-> config]
MCBuilders ==
    { Builder(1, TRUE, "finite"), Builder(2, TRUE, "infinite_c"),
      Builder(1, FALSE, "infinite_k") }

MCRewards == {-1, 1, NotFinite}
=============================================================================
