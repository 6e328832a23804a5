------------------------------- MODULE RbTree -------------------------------
(***************************************************************************)
(* The red-black tree of src/rbtree.c, as operators on trees of nodes that *)
(* point to one another.  What runs them keeps the tree in a variable.     *)
(*                                                                         *)
(* The code has each rotation twice, mirrored; here a side is an argument. *)
(*                                                                         *)
(* A definition named X_Y, with a capital Y, is X with a defect; nothing   *)
(* uses it.                                                                *)
(***************************************************************************)
EXTENDS Integers, FiniteSets

CONSTANTS
  Nodes,
  Key,    \* of each node: what the callers' compare functions compare
  None    \* the NULL pointer

ASSUME RbTreeAssumption == IsFiniteSet(Nodes) /\ None \notin Nodes /\ Key \in [Nodes -> Int]

Pointers == Nodes \cup {None}

\* A tree: where the root pointer points, and the fields of the nodes.  The
\* colour, the lowest bit of the parent pointer in the code, is a field here.  The
\* fields of a node that is in no tree, which an insertion sets, are kept at the
\* values it sets them to.
Trees == [root : Pointers, left : [Nodes -> Pointers], right : [Nodes -> Pointers],
          parent : [Nodes -> Pointers], red : [Nodes -> BOOLEAN]]

NoPointers == [n \in Nodes |-> None]
EmptyTree == [root |-> None, left |-> NoPointers, right |-> NoPointers, parent |-> NoPointers,
              red |-> [n \in Nodes |-> FALSE]]

Red(tree, n) == n # None /\ tree.red[n]
Sides == {"left", "right"}
Other(side) == IF side = "left" THEN "right" ELSE "left"
\* The side of its parent on which a node is.
SideOf(tree, n) == IF tree.left[tree.parent[n]] = n THEN "left" ELSE "right"
Sibling(tree, n) == tree[Other(SideOf(tree, n))][tree.parent[n]]

-----------------------------------------------------------------------------
(***************************************************************************)
(* Walks.                                                                  *)
(***************************************************************************)

\* As far as one can go to a side.
Outermost(tree, n, side) ==
  LET from[m \in Nodes] == IF tree[side][m] = None THEN m ELSE from[tree[side][m]]
  IN  from[n]

u80211_rbtree_first(tree) == Outermost(tree, tree.root, "left")
u80211_rbtree_last(tree) == Outermost(tree, tree.root, "right")

\* The nearest node on a side: down on that side and then always the other way,
\* or, where there is nothing, up until a parent is on that side.
Neighbour(tree, n, side) ==
  LET above[m \in Nodes] ==
        LET parent == tree.parent[m]
        IN  IF parent = None \/ tree[Other(side)][parent] = m THEN parent ELSE above[parent]
  IN  IF tree[side][n] = None THEN above[n] ELSE Outermost(tree, tree[side][n], Other(side))

u80211_rbtree_successor(tree, n) == Neighbour(tree, n, "right")
u80211_rbtree_predecessor(tree, n) == Neighbour(tree, n, "left")

u80211_rbtree_lookup(tree, key) ==
  LET from[n \in Pointers] ==
        IF n = None \/ Key[n] = key THEN n
        ELSE from[IF key > Key[n] THEN tree.right[n] ELSE tree.left[n]]
  IN  from[tree.root]

\* On the way down, the last node at which the key was smaller.
u80211_rbtree_find_first_larger_equal(tree, key) ==
  LET from[n \in Pointers] ==
        IF n = None \/ Key[n] = key THEN n
        ELSE IF key > Key[n] THEN from[tree.right[n]]
        ELSE LET found == from[tree.left[n]] IN IF found = None THEN n ELSE found
  IN  from[tree.root]

-----------------------------------------------------------------------------
(***************************************************************************)
(* Changes.                                                                *)
(***************************************************************************)

SetColours(tree, red, black) ==
  [tree EXCEPT !.red = [n \in Nodes |-> n \in red \/ (n \notin black /\ tree.red[n])]]

SetParent(tree, n, parent) == IF n = None THEN tree ELSE [tree EXCEPT !.parent[n] = parent]

\* What pointed down to a node points to another.
Redirect(tree, n, to) ==
  IF tree.parent[n] = None THEN [tree EXCEPT !.root = to]
  ELSE [tree EXCEPT ![SideOf(tree, n)][tree.parent[n]] = to]

\* rotate_right, of the left child of a parent, and rotate_left, of the right
\* one: the node rises, the parent sinks and takes the subtree between them.
rotate(tree, node, from) ==
  LET parent == tree.parent[node]
      inner == tree[Other(from)][node]
      risen == SetParent(Redirect(tree, parent, node), node, tree.parent[parent])
      sunk == SetParent([risen EXCEPT ![Other(from)][node] = parent], parent, node)
  IN  SetParent([sunk EXCEPT ![from][parent] = inner], inner, parent)

\* A loop: turns are taken while it goes on.  None of them passes a node twice.
Loop(GoesOn(_), Turn(_), start) ==
  LET after[i \in 0 .. Cardinality(Nodes)] ==
        IF i = 0 THEN start
        ELSE LET x == after[i - 1] IN IF GoesOn(x) THEN Turn(x) ELSE x
  IN  after[Cardinality(Nodes)]

\* Under a red parent: while the uncle is red too, both become black and the
\* grandparent red, unless it is the root.
Recoloured(start) ==
  Loop(LAMBDA x : LET parent == x.tree.parent[x.node]
                  IN  Red(x.tree, parent) /\ Red(x.tree, Sibling(x.tree, parent)),
       LAMBDA x : LET parent == x.tree.parent[x.node]
                      grand_parent == x.tree.parent[parent]
                      root == x.tree.parent[grand_parent] = None
                  IN  [tree |-> SetColours(x.tree, IF root THEN {} ELSE {grand_parent},
                                           {parent, Sibling(x.tree, parent)}),
                       node |-> grand_parent],
       start)

\* Under a red parent whose sibling is black: a node that is on the inner side
\* is first exchanged with its parent, then the upper of the two rises.
RotatedUp(tree, node) ==
  LET parent == tree.parent[node]
      grand_parent == tree.parent[parent]
      side == SideOf(tree, parent)
      inner == SideOf(tree, node) # side
      straight == IF inner THEN rotate(tree, node, Other(side)) ELSE tree
      upper == IF inner THEN node ELSE parent
  IN  SetColours(rotate(straight, upper, side), {grand_parent}, {upper})

\* Under which node the walk down ends.
LastOnWay(tree, key) ==
  LET from[n \in Nodes] ==
        LET next == IF key > Key[n] THEN tree.right[n] ELSE tree.left[n]
        IN  IF next = None THEN n ELSE from[next]
  IN  from[tree.root]

u80211_rbtree_insert(tree, node) ==
  IF tree.root = None THEN [tree EXCEPT !.root = node]
  ELSE LET last == LastOnWay(tree, Key[node])
           side == IF Key[node] > Key[last] THEN "right" ELSE "left"
           linked == [tree EXCEPT ![side][last] = node, !.parent[node] = last, !.red[node] = TRUE]
           end == Recoloured([tree |-> linked, node |-> node])
       IN  IF Red(end.tree, end.tree.parent[end.node]) THEN RotatedUp(end.tree, end.node)
           ELSE end.tree

\* A black node that goes leaves its side one black short.  While parent, sibling
\* and nephews are all black the sibling becomes red, and the parent is short.
Raised(start) ==
  Loop(LAMBDA x : LET parent == x.tree.parent[x.node]
                      sibling == Sibling(x.tree, x.node)
                  IN  /\ parent # None
                      /\ \A n \in {parent, sibling, x.tree.left[sibling], x.tree.right[sibling]} :
                           ~Red(x.tree, n),
       LAMBDA x : [tree |-> SetColours(x.tree, {Sibling(x.tree, x.node)}, {}),
                   node |-> x.tree.parent[x.node]],
       start)

\* The red sibling of a node that is short rises, and leaves it a black one.
WithBlackSibling(tree, node) ==
  LET sibling == Sibling(tree, node)
  IN  IF ~Red(tree, sibling) THEN tree
      ELSE rotate(SetColours(tree, {tree.parent[node]}, {sibling}), sibling, SideOf(tree, sibling))

\* The far nephew is made red by the near one, which rises over the sibling.
WithRedFarNephew(tree, node) ==
  LET sibling == Sibling(tree, node)
      side == SideOf(tree, sibling)
      near == tree[Other(side)][sibling]
  IN  IF ~Red(tree, near) \/ Red(tree, tree[side][sibling]) THEN tree
      ELSE SetColours(rotate(tree, near, Other(side)), {sibling}, {near})

\* A sibling with a red far nephew rises, and takes the parent's colour.
RiseOfSibling(tree, node) ==
  LET parent == tree.parent[node]
      sibling == Sibling(tree, node)
      side == SideOf(tree, sibling)
      rotated == rotate(tree, sibling, side)
  IN  SetColours(rotated, IF tree.red[parent] THEN {sibling} ELSE {},
                 {parent, tree[side][sibling]} \cup (IF tree.red[parent] THEN {} ELSE {sibling}))

\* A node that is short, with somebody around it red.
Repaired_NearIgnored(tree, node) ==
  LET black == WithBlackSibling(tree, node)
      parent == black.parent[node]
      sibling == Sibling(black, node)
  IN  IF /\ Red(black, parent)
         /\ ~Red(black, black[SideOf(black, sibling)][sibling])
      THEN SetColours(black, {sibling}, {parent})
      ELSE RiseOfSibling(WithRedFarNephew(black, node), node)
Repaired(tree, node) ==
  LET black == WithBlackSibling(tree, node)
      parent == black.parent[node]
      sibling == Sibling(black, node)
  IN  IF /\ Red(black, parent)
         /\ ~Red(black, black.left[sibling]) /\ ~Red(black, black.right[sibling])
      THEN SetColours(black, {sibling}, {parent})
      ELSE RiseOfSibling(WithRedFarNephew(black, node), node)

u80211_rbtree_remove_leaf(tree, node) ==
  IF tree.root = node THEN [tree EXCEPT !.root = None]
  ELSE IF tree.red[node] THEN Redirect(tree, node, None)
  ELSE LET short == Raised([tree |-> tree, node |-> node])
           end == IF short.tree.parent[short.node] = None THEN short.tree
                  ELSE Repaired(short.tree, short.node)
       IN  Redirect(end, node, None)

\* The successor of a node with two children takes its place and its colour ...
SuccessorPlaced(tree, node, succ) ==
  LET is_right == tree.parent[succ] = node
  IN  [Redirect(tree, node, succ) EXCEPT
         !.parent[succ] = tree.parent[node], !.left[succ] = tree.left[node],
         !.right[succ] = IF is_right THEN node ELSE tree.right[node],
         !.red[succ] = tree.red[node],
         !.parent[tree.left[node]] = succ,
         !.parent[tree.right[node]] = IF is_right THEN tree.parent[node] ELSE succ]

\* ... and the node those of the successor.
Exchanged(tree, node, succ) ==
  LET succ_parent == tree.parent[succ]
      below == [SuccessorPlaced(tree, node, succ) EXCEPT
                  !.left[succ_parent] = IF succ_parent = node THEN @ ELSE node,
                  !.parent[node] = IF succ_parent = node THEN succ ELSE succ_parent,
                  !.red[node] = tree.red[succ]]
  IN  SetParent([below EXCEPT !.left[node] = None, !.right[node] = tree.right[succ]],
                tree.right[succ], node)

\* A node with one child is replaced by it, and the child becomes black.
Spliced(tree, node) ==
  LET child == IF tree.left[node] # None THEN tree.left[node] ELSE tree.right[node]
  IN  SetColours(SetParent(Redirect(tree, node, child), child, tree.parent[node]), {}, {child})

u80211_rbtree_remove(tree, node) ==
  LET exchanged == IF tree.left[node] # None /\ tree.right[node] # None
                   THEN Exchanged(tree, node, u80211_rbtree_successor(tree, node)) ELSE tree
      removed == IF exchanged.left[node] = None /\ exchanged.right[node] = None
                 THEN u80211_rbtree_remove_leaf(exchanged, node)
                 ELSE Spliced(exchanged, node)
  IN  [removed EXCEPT !.left[node] = None, !.right[node] = None, !.parent[node] = None,
                      !.red[node] = FALSE]

-----------------------------------------------------------------------------
(***************************************************************************)
(* What the trees must be.                                                 *)
(***************************************************************************)

\* A node and all that is under it.
Under(tree, n) ==
  LET from[m \in Pointers] ==
        IF m = None THEN {} ELSE {m} \cup from[tree.left[m]] \cup from[tree.right[m]]
  IN  from[n]
Members(tree) == Under(tree, tree.root)

IsSearchTree(tree) ==
  /\ tree.root # None => tree.parent[tree.root] = None
  /\ \A n \in Members(tree), side \in Sides :
       LET child == tree[side][n]
       IN  /\ child # None => tree.parent[child] = n
           /\ \A m \in Under(tree, child) : IF side = "left" THEN Key[m] < Key[n] ELSE Key[m] > Key[n]

\* No red node has a red parent or is the root, and the same number of black
\* nodes is above every place at which a node could be hung.
IsBalanced(tree) ==
  LET up[n \in Pointers] ==
        IF n = None THEN 0 ELSE up[tree.parent[n]] + IF tree.red[n] THEN 0 ELSE 1
  IN  /\ ~Red(tree, tree.root)
      /\ \A n \in Members(tree) : tree.red[n] => ~Red(tree, tree.parent[n])
      /\ \A n, m \in Members(tree) :
           None \in {tree.left[n], tree.right[n]} /\ None \in {tree.left[m], tree.right[m]}
             => up[n] = up[m]

\* The walks find their way: in the order of the keys, from end to end.
WalksInOrder(tree) ==
  LET members == Members(tree)
      smallest(set) == IF set = {} THEN None ELSE CHOOSE n \in set : \A m \in set : Key[n] <= Key[m]
      largest(set) == IF set = {} THEN None ELSE CHOOSE n \in set : \A m \in set : Key[n] >= Key[m]
  IN  /\ members # {} => /\ u80211_rbtree_first(tree) = smallest(members)
                         /\ u80211_rbtree_last(tree) = largest(members)
      /\ \A n \in members :
           /\ u80211_rbtree_successor(tree, n) = smallest({m \in members : Key[m] > Key[n]})
           /\ u80211_rbtree_predecessor(tree, n) = largest({m \in members : Key[m] < Key[n]})
      /\ \A key \in {Key[n] : n \in Nodes} :
           /\ u80211_rbtree_lookup(tree, key) = smallest({m \in members : Key[m] = key})
           /\ u80211_rbtree_find_first_larger_equal(tree, key)
                = smallest({m \in members : Key[m] >= key})

=============================================================================
