---------------------------- MODULE RbTreeProofs ----------------------------
(***************************************************************************)
(* Proofs about RbTree: whatever the nodes and their keys, insertions and  *)
(* removals keep the tree a search tree that is linked both ways and has   *)
(* its colours right, and walks go through it in order.                    *)
(***************************************************************************)
EXTENDS RbTree, TLAPS, FiniteSetTheorems, WellFoundedInduction

-----------------------------------------------------------------------------
(***************************************************************************)
(* Recursion over finite sets.                                             *)
(***************************************************************************)

\* T is smaller than U.
Smaller(T, U) == T \subseteq U /\ T # U

\* Among finite sets there is one that none of the others is smaller than.
LEMMA SmallestSet ==
  ASSUME NEW S, IsFiniteSet(S), NEW F \in SUBSET (SUBSET S), F # {}
  PROVE  \E T \in F : \A U \in F : ~Smaller(U, T)
<1>1. IsWellFoundedOn(StrictSubsetOrdering(S), FiniteSubsetsOf(S))
  BY FS_StrictSubsetOrderingWellFounded
<1>2. F \subseteq FiniteSubsetsOf(S) BY FS_Subset DEF FiniteSubsetsOf
<1>3. PICK T \in F : \A U \in F : <<U, T>> \notin StrictSubsetOrdering(S)
  BY <1>1, <1>2, WFMin, Zenon
<1>4. ASSUME NEW U \in F PROVE ~Smaller(U, T)
  BY <1>3 DEF StrictSubsetOrdering, Smaller
<1> QED BY <1>4

\* Of those that have a set each, one whose set is smallest ...
LEMMA Lowest ==
  ASSUME NEW S, IsFiniteSet(S), NEW D, NEW V \in [D -> SUBSET S], NEW T \in SUBSET D, T # {}
  PROVE  \E n \in T : \A m \in T : ~Smaller(V[m], V[n])
<1> DEFINE F == {V[n] : n \in T}
<1>1. F \in SUBSET (SUBSET S) /\ F # {} OBVIOUS
<1>2. PICK X \in F : \A U \in F : ~Smaller(U, X)
  <2> HIDE DEF F
  <2> QED BY <1>1, SmallestSet
<1>3. PICK n \in T : X = V[n] BY <1>2
<1> QED BY <1>2, <1>3

\* ... and one whose set is largest.
LEMMA Highest ==
  ASSUME NEW S, IsFiniteSet(S), NEW D, NEW V \in [D -> SUBSET S], NEW T \in SUBSET D, T # {}
  PROVE  \E n \in T : \A m \in T : ~Smaller(V[n], V[m])
<1> DEFINE W == [n \in D |-> S \ V[n]]
<1>1. W \in [D -> SUBSET S] OBVIOUS
<1>2. PICK n \in T : \A m \in T : ~Smaller(W[m], W[n])
  <2> HIDE DEF W
  <2> QED BY <1>1, Lowest
<1>3. ASSUME NEW m \in T, Smaller(V[n], V[m]) PROVE FALSE
  <2>1. W[m] = S \ V[m] /\ W[n] = S \ V[n] /\ V[m] \subseteq S /\ V[n] \subseteq S OBVIOUS
  <2>2. Smaller(W[m], W[n]) BY <1>3, <2>1 DEF Smaller
  <2> QED BY <1>2, <2>2
<1> QED BY <1>3

\* What a recursive function returns for n, if f is what it returns for the next.
Returned(n, stop, value, G, next, f) == IF n \in stop THEN value[n] ELSE G[n][f[next[n]]]

\* The recursion comes to an end: V is smaller for the next.
Ends(S, D, V, X, stop, value, G, next) ==
  /\ IsFiniteSet(S) /\ IsFiniteSet(D) /\ V \in [D -> SUBSET S]
  /\ stop \in SUBSET D /\ \A n \in stop : value[n] \in X
  /\ \A n \in D \ stop : next[n] \in D /\ Smaller(V[next[n]], V[n]) /\ G[n] \in [X -> X]

\* A recursion that comes to an end defines a function.
LEMMA Recursion ==
  ASSUME NEW S, NEW D, NEW V, NEW X, NEW stop, NEW value, NEW G, NEW next,
         Ends(S, D, V, X, stop, value, G, next)
  PROVE  \E f \in [D -> X] : \A n \in D : f[n] = Returned(n, stop, value, G, next, f)
<1> DEFINE Solves(E, f) ==
             \A n \in E : /\ n \notin stop => next[n] \in E
                          /\ f[n] \in X /\ f[n] = Returned(n, stop, value, G, next, f)
           Good == {E \in SUBSET D : \E f : Solves(E, f)}
           W == [E \in Good |-> E]
<1> USE DEF Ends
<1>1. {} \in Good OBVIOUS
<1>2. W \in [Good -> SUBSET D] OBVIOUS
<1>3. PICK E \in Good : \A F \in Good : ~Smaller(W[E], W[F])
  <2> HIDE DEF Good, W
  <2> QED BY <1>1, <1>2, Highest
<1>4. PICK f : Solves(E, f) BY <1>3
<1>5. E = D
  <2> SUFFICES ASSUME E # D PROVE FALSE OBVIOUS
  <2> DEFINE T == D \ E
  <2>1. T \in SUBSET D /\ T # {} BY <1>3
  <2>2. PICK n \in T : \A m \in T : ~Smaller(V[m], V[n])
    <3> HIDE DEF T
    <3> QED BY <2>1, Lowest
  <2>3. n \in D /\ n \notin E BY <2>2
  <2>4. n \notin stop => next[n] \in E BY <2>2, <2>3
  <2> DEFINE y == Returned(n, stop, value, G, next, f)
             g == [m \in D |-> IF m = n THEN y ELSE f[m]]
             F == E \cup {n}
  <2>5. y \in X BY <1>4, <2>3, <2>4 DEF Returned
  <2>6. g[n] = y /\ \A m \in E : g[m] = f[m] BY <1>3, <2>3
  <2> HIDE DEF y, g
  <2>7. Solves(F, g)
    <3> TAKE m \in F
    <3>1. m \notin stop => next[m] \in E BY <1>4, <2>4
    <3>2. Returned(m, stop, value, G, next, g) = Returned(m, stop, value, G, next, f)
      BY <2>6, <3>1 DEF Returned
    <3>3. CASE m = n BY <2>5, <2>6, <3>1, <3>2, <3>3 DEF y
    <3>4. CASE m \in E BY <1>4, <2>6, <3>1, <3>2, <3>4
    <3> QED BY <3>3, <3>4
  <2>8. F \in SUBSET D BY <1>3, <2>3
  <2>9. F \in Good BY <2>7, <2>8
  <2>10. Smaller(W[E], W[F]) BY <1>3, <2>3, <2>9 DEF Smaller
  <2> QED BY <1>3, <2>9, <2>10
<1> DEFINE h == [n \in D |-> f[n]]
<1>6. h \in [D -> X] BY <1>4, <1>5
<1>7. ASSUME NEW n \in D PROVE h[n] = Returned(n, stop, value, G, next, h)
  <2>1. n \notin stop => next[n] \in D OBVIOUS
  <2>2. Returned(n, stop, value, G, next, h) = Returned(n, stop, value, G, next, f)
    BY <2>1 DEF Returned
  <2> QED BY <1>4, <1>5, <2>2
<1> HIDE DEF h
<1> QED BY <1>6, <1>7

-----------------------------------------------------------------------------
(***************************************************************************)
(* What is under the nodes, and their order.                               *)
(***************************************************************************)

\* n is on a side of m.
OnSide(key, side, n, m) == IF side = "left" THEN key[n] < key[m] ELSE key[n] > key[m]

\* U gives for each node it and all that is under it.
Spans(tree, U) ==
  /\ U \in [Pointers -> SUBSET Nodes] /\ U[None] = {}
  /\ \A n \in Nodes : U[n] = {n} \cup U[tree.left[n]] \cup U[tree.right[n]]

\* All that is under a node is on the side on which it hangs.
Sorted(tree, U, key) ==
  \A n \in Nodes, side \in Sides : \A m \in U[tree[side][n]] : OnSide(key, side, m, n)

\* Parents and children point to each other.
Paired(tree) ==
  /\ \A n \in Nodes, side \in Sides : tree[side][n] # None => tree.parent[tree[side][n]] = n
  /\ \A n \in Nodes :
             tree.parent[n] # None => \E side \in Sides : tree[side][tree.parent[n]] = n
  /\ tree.root # None => tree.parent[tree.root] = None

Blank(tree, n) ==
  tree.left[n] = None /\ tree.right[n] = None /\ tree.parent[n] = None /\ ~tree.red[n]

\* A search tree, in the order of the keys.
Shaped(tree, U, key) ==
  /\ tree \in Trees /\ Spans(tree, U) /\ Sorted(tree, U, key) /\ Paired(tree)
  /\ \A n \in Nodes : n \notin U[tree.root] => Blank(tree, n)

\* Fields of a tree have pointers.
LEMMA Fields ==
  ASSUME NEW tree \in Trees
  PROVE  /\ tree.root \in Pointers
         /\ \A n \in Nodes : /\ tree.left[n] \in Pointers /\ tree.right[n] \in Pointers
                             /\ tree.parent[n] \in Pointers /\ tree.red[n] \in BOOLEAN
                             /\ \A side \in Sides : tree[side][n] \in Pointers
  BY DEF Trees, Sides

\* One is on one side or on the other.
LEMMA Order ==
  ASSUME NEW key \in [Nodes -> Int]
  PROVE  /\ \A side \in Sides, n \in Nodes : ~OnSide(key, side, n, n)
         /\ \A side \in Sides, n, m \in Nodes :
              OnSide(key, side, n, m) <=> OnSide(key, Other(side), m, n)
         /\ \A side \in Sides, n, m \in Nodes :
              OnSide(key, side, n, m) => ~OnSide(key, Other(side), n, m) /\ n # m
         /\ \A side \in Sides, n, m, q \in Nodes :
              OnSide(key, side, n, m) /\ OnSide(key, side, m, q) => OnSide(key, side, n, q)
         /\ \A side \in Sides : Other(side) \in Sides /\ Other(side) # side
                                /\ Other(Other(side)) = side
         /\ \A side, other \in Sides : other = side \/ other = Other(side)
<1>1. \A n \in Nodes : key[n] \in Int OBVIOUS
<1> QED BY <1>1 DEF OnSide, Other, Sides

\* What hangs on either side of a node is under it, and is not the node.
LEMMA UnderChild ==
  ASSUME NEW key \in [Nodes -> Int], NEW tree, NEW U, Shaped(tree, U, key),
         NEW n \in Nodes, NEW side \in Sides
  PROVE  /\ n \in U[n] /\ U[tree[side][n]] \subseteq U[n] /\ n \notin U[tree[side][n]]
         /\ Smaller(U[tree[side][n]], U[n])
         /\ U[n] = {n} \cup U[tree[side][n]] \cup U[tree[Other(side)][n]]
         /\ U[tree[side][n]] \cap U[tree[Other(side)][n]] = {}
         /\ U[tree[side][n]] \subseteq Nodes /\ U[n] \subseteq Nodes
<1>1. tree \in Trees /\ Spans(tree, U) /\ Sorted(tree, U, key) BY DEF Shaped
<1>2. tree[side][n] \in Pointers /\ tree[Other(side)][n] \in Pointers /\ n \in Pointers
  BY <1>1, Fields, Order DEF Pointers
<1>3. U[n] = {n} \cup U[tree[side][n]] \cup U[tree[Other(side)][n]]
  BY <1>1 DEF Spans, Sides, Other
<1>4. U[tree[side][n]] \subseteq Nodes /\ U[n] \subseteq Nodes BY <1>1, <1>2 DEF Spans
<1>5. n \notin U[tree[side][n]]
  <2>1. \A m \in U[tree[side][n]] : OnSide(key, side, m, n) BY <1>1 DEF Sorted
  <2> QED BY <2>1, Order
<1>6. U[tree[side][n]] \cap U[tree[Other(side)][n]] = {}
  <2>1. \A m \in U[tree[side][n]] : OnSide(key, side, m, n) BY <1>1 DEF Sorted
  <2>2. \A m \in U[tree[Other(side)][n]] : OnSide(key, Other(side), m, n)
    BY <1>1, Order DEF Sorted
  <2> QED BY <1>4, <2>1, <2>2, Order
<1> QED BY <1>3, <1>4, <1>5, <1>6 DEF Smaller

\* What is under what is under a node is under it, and so is, of all but itself,
\* the parent.
LEMMA UnderUnder ==
  ASSUME NEW key \in [Nodes -> Int], NEW tree, NEW U, Shaped(tree, U, key)
  PROVE  \A n \in Nodes : \A m \in U[n] : /\ U[m] \subseteq U[n]
                                          /\ m # n => tree.parent[m] \in U[n]
<1> DEFINE Good(n) == \A m \in U[n] : U[m] \subseteq U[n] /\ (m # n => tree.parent[m] \in U[n])
           T == {n \in Nodes : ~Good(n)}
<1> SUFFICES ASSUME T # {} PROVE FALSE OBVIOUS
<1>1. tree \in Trees /\ Spans(tree, U) /\ Paired(tree) BY DEF Shaped
<1>2. U \in [Pointers -> SUBSET Nodes] /\ T \in SUBSET Pointers /\ IsFiniteSet(Nodes)
  BY <1>1, RbTreeAssumption DEF Spans, Pointers
<1>3. PICK n \in T : \A m \in T : ~Smaller(U[m], U[n])
  <2> HIDE DEF T
  <2> QED BY <1>2, Lowest
<1>4. n \in Nodes /\ ~Good(n) BY <1>3
<1>5. ASSUME NEW side \in Sides, NEW m \in U[tree[side][n]]
      PROVE  U[m] \subseteq U[n] /\ tree.parent[m] \in U[n]
  <2> DEFINE c == tree[side][n]
  <2>1. c \in Nodes
    <3>1. c \in Pointers BY <1>1, <1>4, Fields
    <3>2. c # None BY <1>1, <1>5 DEF Spans
    <3> QED BY <3>1, <3>2 DEF Pointers
  <2>2. Smaller(U[c], U[n]) /\ n \in U[n] /\ c \in U[c] BY <1>4, <2>1, UnderChild
  <2>3. Good(c) BY <1>3, <2>1, <2>2
  <2>4. CASE m = c
    <3>1. tree.parent[c] = n BY <1>1, <1>4, <2>1, RbTreeAssumption DEF Paired
    <3> QED BY <2>2, <2>4, <3>1 DEF Smaller
  <2>5. CASE m # c BY <2>2, <2>3, <2>5, <1>5 DEF Smaller
  <2> QED BY <2>4, <2>5
<1>6. U[n] = {n} \cup U[tree["left"][n]] \cup U[tree["right"][n]] BY <1>1, <1>4 DEF Spans
<1>7. "left" \in Sides /\ "right" \in Sides BY DEF Sides
<1>8. Good(n)
  <2> TAKE m \in U[n]
  <2>1. CASE m = n BY <2>1
  <2>2. CASE m \in U[tree["left"][n]] BY <1>5, <1>7, <2>2
  <2>3. CASE m \in U[tree["right"][n]] BY <1>5, <1>7, <2>3
  <2> QED BY <1>6, <2>1, <2>2, <2>3
<1> QED BY <1>4, <1>8

\* What has a parent is in the tree, and the root alone has none.
LEMMA Parents ==
  ASSUME NEW key \in [Nodes -> Int], NEW tree, NEW U, Shaped(tree, U, key)
  PROVE  /\ \A n \in Nodes : tree.parent[n] # None =>
              /\ tree.parent[n] \in Nodes /\ n \in U[tree.root] /\ tree.parent[n] \in U[tree.root]
              /\ Smaller(U[n], U[tree.parent[n]])
              /\ n # tree.parent[n]
         /\ \A n \in U[tree.root] : n # tree.root => tree.parent[n] # None
         /\ U[tree.root] \subseteq Nodes
         /\ tree.root = None <=> U[tree.root] = {}
         /\ tree.root # None => tree.root \in U[tree.root]
<1>1. tree \in Trees /\ Spans(tree, U) /\ Paired(tree) BY DEF Shaped
<1>2. /\ tree.root \in Pointers /\ U[tree.root] \subseteq Nodes
      /\ tree.root # None => tree.root \in Nodes
  BY <1>1, Fields DEF Spans, Pointers
<1>3. tree.root # None => tree.root \in U[tree.root]
  BY <1>2, UnderChild DEF Sides
<1>4. tree.root = None => U[tree.root] = {} BY <1>1 DEF Spans
<1>5. ASSUME NEW n \in U[tree.root], n # tree.root PROVE tree.parent[n] \in U[tree.root]
  <2>1. tree.root # None BY <1>4, <1>5
  <2> QED BY <1>2, <1>5, <2>1, UnderUnder
<1>6. ASSUME NEW n \in Nodes, tree.parent[n] # None
      PROVE  /\ tree.parent[n] \in Nodes /\ n \in U[tree.root] /\ tree.parent[n] \in U[tree.root]
             /\ Smaller(U[n], U[tree.parent[n]]) /\ n # tree.parent[n]
  <2>1. tree.parent[n] \in Nodes BY <1>1, <1>6, Fields DEF Pointers
  <2>2. n \in U[tree.root] BY <1>6 DEF Shaped, Blank
  <2>3. n # tree.root BY <1>1, <1>6, RbTreeAssumption DEF Paired
  <2>4. PICK side \in Sides : tree[side][tree.parent[n]] = n BY <1>1, <1>6 DEF Paired
  <2>5. Smaller(U[n], U[tree.parent[n]]) /\ tree.parent[n] \notin U[n] /\ n \in U[n]
    BY <2>1, <2>4, UnderChild
  <2> QED BY <1>5, <2>1, <2>2, <2>3, <2>5
<1>7. \A n \in U[tree.root] : n # tree.root => tree.parent[n] # None
  BY <1>2, <1>5, RbTreeAssumption
<1> QED BY <1>2, <1>3, <1>4, <1>6, <1>7

-----------------------------------------------------------------------------
(***************************************************************************)
(* Rotations.                                                              *)
(***************************************************************************)

\* s is the tree with one pointer to a child set ...
ChildSet(tree, side, n, x, s) ==
  /\ s \in Trees /\ s.parent = tree.parent /\ s.red = tree.red /\ s.root = tree.root
  /\ \A other \in Sides, m \in Nodes :
       s[other][m] = IF other = side /\ m = n THEN x ELSE tree[other][m]

SetChild(tree, side, n, x) == [tree EXCEPT ![side][n] = x]

LEMMA SetsChild ==
  ASSUME NEW tree \in Trees, NEW side \in Sides, NEW n \in Nodes, NEW x \in Pointers
  PROVE  ChildSet(tree, side, n, x, SetChild(tree, side, n, x))
<1> DEFINE s == [tree EXCEPT ![side][n] = x]
<1>1. s \in Trees /\ s.parent = tree.parent /\ s.red = tree.red /\ s.root = tree.root
  BY DEF Trees, Sides
<1>2. /\ s[side] = [tree[side] EXCEPT ![n] = x]
      /\ \A other \in Sides : other # side => s[other] = tree[other]
  BY DEF Trees, Sides
<1>3. \A other \in Sides : tree[other] \in [Nodes -> Pointers] BY DEF Trees, Sides
<1>4. s = SetChild(tree, side, n, x) BY DEF SetChild
<1> HIDE DEF s
<1>5. \A other \in Sides, m \in Nodes :
        s[other][m] = IF other = side /\ m = n THEN x ELSE tree[other][m]
  BY <1>2, <1>3
<1> QED BY <1>1, <1>4, <1>5 DEF ChildSet

\* ... or one to a parent, of what there may be ...
ParentSet(tree, n, x, s) ==
  /\ s \in Trees /\ s.red = tree.red /\ s.root = tree.root
  /\ \A m \in Nodes : s.parent[m] = IF m = n THEN x ELSE tree.parent[m]
  /\ \A side \in Sides, m \in Nodes : s[side][m] = tree[side][m]

LEMMA SetsParent ==
  ASSUME NEW tree \in Trees, NEW n \in Pointers, NEW x \in Pointers
  PROVE  ParentSet(tree, n, x, SetParent(tree, n, x))
<1>1. CASE n = None
  <2>1. SetParent(tree, n, x) = tree BY <1>1 DEF SetParent
  <2> QED BY <1>1, <2>1, RbTreeAssumption DEF ParentSet
<1>2. CASE n # None
  <2> DEFINE s == [tree EXCEPT !.parent[n] = x]
  <2>1. SetParent(tree, n, x) = s /\ n \in Nodes BY <1>2 DEF SetParent, Pointers
  <2>2. /\ s \in Trees /\ s.red = tree.red /\ s.root = tree.root
        /\ s.parent = [tree.parent EXCEPT ![n] = x]
        /\ \A side \in Sides : s[side] = tree[side]
    BY <2>1 DEF Trees, Sides
  <2>3. tree.parent \in [Nodes -> Pointers] BY DEF Trees
  <2> HIDE DEF s
  <2> QED BY <2>1, <2>2, <2>3 DEF ParentSet
<1> QED BY <1>1, <1>2

\* ... or with what pointed down to a node redirected.
Redirected(tree, n, x, s) ==
  /\ s \in Trees /\ s.parent = tree.parent /\ s.red = tree.red
  /\ s.root = IF tree.parent[n] = None THEN x ELSE tree.root
  /\ \A side \in Sides, m \in Nodes :
       s[side][m] = IF m = tree.parent[n] /\ side = SideOf(tree, n) THEN x ELSE tree[side][m]

LEMMA Redirects ==
  ASSUME NEW tree \in Trees, NEW n \in Nodes, NEW x \in Pointers
  PROVE  Redirected(tree, n, x, Redirect(tree, n, x))
<1>1. CASE tree.parent[n] = None
  <2> DEFINE s == [tree EXCEPT !.root = x]
  <2>1. Redirect(tree, n, x) = s BY <1>1 DEF Redirect
  <2>2. /\ s \in Trees /\ s.red = tree.red /\ s.root = x /\ s.parent = tree.parent
        /\ \A side \in Sides : s[side] = tree[side]
    BY DEF Trees, Sides
  <2> QED BY <1>1, <2>1, <2>2, RbTreeAssumption DEF Redirected
<1>2. CASE tree.parent[n] # None
  <2> DEFINE s == Redirect(tree, n, x)
  <2>1. tree.parent[n] \in Nodes BY <1>2, Fields DEF Pointers
  <2>2. SideOf(tree, n) \in Sides BY DEF SideOf, Sides
  <2>3. s = SetChild(tree, SideOf(tree, n), tree.parent[n], x)
    BY <1>2 DEF Redirect, SetChild
  <2> HIDE DEF s
  <2>4. ChildSet(tree, SideOf(tree, n), tree.parent[n], x, s) BY <2>1, <2>2, <2>3, SetsChild
  <2>5. Redirected(tree, n, x, s) BY <1>2, <2>4 DEF ChildSet, Redirected
  <2> QED BY <2>5 DEF s
<1> QED BY <1>1, <1>2

\* The node rises over its parent; both are of a tree.
Rises(tree, U, key, node, from) ==
  /\ Shaped(tree, U, key) /\ node \in Nodes /\ from \in Sides
  /\ tree.parent[node] # None /\ tree[from][tree.parent[node]] = node

\* The pointers after that.
Risen(tree, node, from, s) ==
  LET parent == tree.parent[node]
      above == tree.parent[parent]
      inner == tree[Other(from)][node]
  IN  /\ s \in Trees /\ s.red = tree.red
      /\ s.root = IF above = None THEN node ELSE tree.root
      /\ \A m \in Nodes : s.parent[m] =
           IF m = node THEN above ELSE IF m = parent THEN node
           ELSE IF m = inner THEN parent ELSE tree.parent[m]
      /\ \A side \in Sides, m \in Nodes : s[side][m] =
           IF m = parent /\ side = from THEN inner
           ELSE IF m = node /\ side = Other(from) THEN parent
           ELSE IF m = above /\ side = SideOf(tree, parent) THEN node ELSE tree[side][m]

\* Who is who in a rotation.
LEMMA Relatives ==
  ASSUME NEW key \in [Nodes -> Int], NEW tree, NEW U, NEW node, NEW from,
         Rises(tree, U, key, node, from)
  PROVE  LET parent == tree.parent[node]
             above == tree.parent[parent]
             inner == tree[Other(from)][node]
             outer == tree[from][node]
             sibling == tree[Other(from)][parent]
         IN  /\ parent \in Nodes /\ above \in Pointers /\ inner \in Pointers
             /\ outer \in Pointers /\ sibling \in Pointers
             /\ parent # node /\ above # node /\ above # parent
             /\ inner # node /\ inner # parent
             /\ outer # node /\ outer # parent /\ sibling # node /\ sibling # parent
             /\ above # None => /\ above \in Nodes /\ inner # above /\ sibling # above
                                /\ outer # above
                                /\ tree[SideOf(tree, parent)][above] = parent
                                /\ tree[Other(SideOf(tree, parent))][above] # parent
             /\ SideOf(tree, parent) \in Sides /\ Other(from) \in Sides /\ Other(from) # from
             /\ {node, parent} \subseteq U[tree.root]
<1> DEFINE parent == tree.parent[node]
           above == tree.parent[parent]
           inner == tree[Other(from)][node]
           outer == tree[from][node]
           sibling == tree[Other(from)][parent]
<1>1. /\ Shaped(tree, U, key) /\ node \in Nodes /\ from \in Sides
      /\ parent # None /\ tree[from][parent] = node
      /\ tree \in Trees /\ Spans(tree, U) /\ Paired(tree) /\ None \notin Nodes
  BY RbTreeAssumption DEF Rises, Shaped
<1>2. /\ parent \in Nodes /\ above \in Pointers /\ inner \in Pointers /\ outer \in Pointers
      /\ sibling \in Pointers /\ {node, parent} \subseteq U[tree.root] /\ parent # node
      /\ Other(from) \in Sides /\ Other(from) # from
  BY <1>1, Parents, Fields, Order DEF Pointers
<1>3. \A x \in Pointers : x # None => x \in Nodes /\ x \in U[x]
  BY <1>1, UnderChild DEF Pointers, Sides
<1>4. /\ U[node] \subseteq U[parent] /\ parent \notin U[node]
      /\ U[sibling] \subseteq U[parent] /\ parent \notin U[sibling]
      /\ U[node] \cap U[sibling] = {} /\ node \in U[node] /\ parent \in U[parent]
  BY <1>1, <1>2, UnderChild
<1>5. /\ U[inner] \subseteq U[node] /\ node \notin U[inner]
      /\ U[outer] \subseteq U[node] /\ node \notin U[outer]
  BY <1>1, <1>2, UnderChild
<1>6. inner # None => inner \in U[inner] BY <1>2, <1>3
<1>7. outer # None => outer \in U[outer] BY <1>2, <1>3
<1>8. sibling # None => sibling \in U[sibling] BY <1>2, <1>3
<1>9. SideOf(tree, parent) \in Sides BY DEF SideOf, Sides
<1>10. ASSUME above # None
       PROVE  /\ above \in Nodes /\ above \notin U[parent]
              /\ tree[SideOf(tree, parent)][above] = parent
              /\ tree[Other(SideOf(tree, parent))][above] # parent
  <2>1. above \in Nodes BY <1>2, <1>10 DEF Pointers
  <2>2. PICK side \in Sides : tree[side][above] = parent BY <1>1, <1>2, <1>10 DEF Paired
  <2>3. above \notin U[parent] /\ U[tree[Other(side)][above]] \cap U[parent] = {}
    <3> HIDE DEF above, parent
    <3>1. /\ above \notin U[tree[side][above]]
          /\ U[tree[side][above]] \cap U[tree[Other(side)][above]] = {}
      BY <1>1, <2>1, UnderChild
    <3> QED BY <2>2, <3>1
  <2>4. tree[Other(side)][above] # parent BY <1>4, <2>3
  <2>5. SideOf(tree, parent) = side
    <3>1. CASE side = "left" BY <2>2, <3>1 DEF SideOf
    <3>2. CASE side = "right" BY <2>2, <2>4, <3>2 DEF SideOf, Other
    <3> QED BY <3>1, <3>2 DEF Sides
  <2> QED BY <2>1, <2>2, <2>3, <2>4, <2>5
<1> HIDE DEF parent, above, inner, outer, sibling
<1>11. above # node /\ above # parent
  BY <1>1, <1>2, <1>4, <1>10
<1>12. /\ inner # node /\ inner # parent /\ outer # node /\ outer # parent
       /\ sibling # node /\ sibling # parent
  BY <1>1, <1>2, <1>4, <1>5, <1>6, <1>7, <1>8
<1>13. above # None => inner # above /\ outer # above /\ sibling # above
  BY <1>4, <1>5, <1>6, <1>7, <1>8, <1>10
<1> QED BY <1>2, <1>9, <1>10, <1>11, <1>12, <1>13
        DEF parent, above, inner, outer, sibling

\* What rotate does to the pointers.
LEMMA Rotates ==
  ASSUME NEW key \in [Nodes -> Int], NEW tree, NEW U, NEW node, NEW from,
         Rises(tree, U, key, node, from)
  PROVE  Risen(tree, node, from, rotate(tree, node, from))
<1> DEFINE parent == tree.parent[node]
           above == tree.parent[parent]
           inner == tree[Other(from)][node]
           a == Redirect(tree, parent, node)
           b == SetParent(a, node, above)
           c == SetChild(b, Other(from), node, parent)
           d == SetParent(c, parent, node)
           e == SetChild(d, from, parent, inner)
           f == SetParent(e, inner, parent)
<1>1. /\ parent \in Nodes /\ above \in Pointers /\ inner \in Pointers
      /\ node \in Nodes /\ node \in Pointers /\ parent \in Pointers /\ from \in Sides
      /\ parent # node /\ above # node /\ above # parent /\ inner # node /\ inner # parent
      /\ Other(from) \in Sides /\ Other(from) # from /\ tree \in Trees
  BY Relatives DEF Rises, Shaped, Pointers
<1>2. rotate(tree, node, from) = f BY ONLY DEF rotate, SetChild, a, b, c, d, e, f
<1> HIDE DEF a, b, c, d, e, f, parent, above, inner
<1>3. Redirected(tree, parent, node, a) BY <1>1, Redirects DEF a
<1>4. a \in Trees BY <1>3 DEF Redirected
<1>5. ParentSet(a, node, above, b) BY <1>1, <1>4, SetsParent DEF b
<1>6. b \in Trees BY <1>5 DEF ParentSet
<1>7. ChildSet(b, Other(from), node, parent, c) BY <1>1, <1>6, SetsChild DEF c
<1>8. c \in Trees BY <1>7 DEF ChildSet
<1>9. ParentSet(c, parent, node, d) BY <1>1, <1>8, SetsParent DEF d
<1>10. d \in Trees BY <1>9 DEF ParentSet
<1>11. ChildSet(d, from, parent, inner, e) BY <1>1, <1>10, SetsChild DEF e
<1>12. e \in Trees BY <1>11 DEF ChildSet
<1>13. ParentSet(e, inner, parent, f) BY <1>1, <1>12, SetsParent DEF f
<1>14. /\ f \in Trees /\ f.red = e.red /\ e.red = d.red /\ d.red = c.red /\ c.red = b.red
       /\ b.red = a.red /\ a.red = tree.red
       /\ f.root = e.root /\ e.root = d.root /\ d.root = c.root /\ c.root = b.root
       /\ b.root = a.root /\ a.root = IF above = None THEN node ELSE tree.root
  BY <1>3, <1>5, <1>7, <1>9, <1>11, <1>13 DEF ParentSet, ChildSet, Redirected, above
<1>15. \A m \in Nodes : f.parent[m] =
         IF m = node THEN above ELSE IF m = parent THEN node
         ELSE IF m = inner THEN parent ELSE tree.parent[m]
  <2> TAKE m \in Nodes
  <2>1. /\ a.parent = tree.parent /\ c.parent = b.parent /\ e.parent = d.parent
        /\ b.parent[m] = IF m = node THEN above ELSE a.parent[m]
        /\ d.parent[m] = IF m = parent THEN node ELSE c.parent[m]
        /\ f.parent[m] = IF m = inner THEN parent ELSE e.parent[m]
    BY <1>3, <1>5, <1>7, <1>9, <1>11, <1>13 DEF ParentSet, ChildSet, Redirected
  <2> QED BY <1>1, <2>1
<1>16. \A side \in Sides, m \in Nodes : f[side][m] =
         IF m = parent /\ side = from THEN inner
         ELSE IF m = node /\ side = Other(from) THEN parent
         ELSE IF m = above /\ side = SideOf(tree, parent) THEN node ELSE tree[side][m]
  <2> TAKE side \in Sides, m \in Nodes
  <2>1. /\ f[side][m] = e[side][m] /\ d[side][m] = c[side][m] /\ b[side][m] = a[side][m]
        /\ e[side][m] = IF side = from /\ m = parent THEN inner ELSE d[side][m]
        /\ c[side][m] = IF side = Other(from) /\ m = node THEN parent ELSE b[side][m]
    BY <1>5, <1>7, <1>9, <1>11, <1>13 DEF ParentSet, ChildSet
  <2>2. a[side][m] = IF m = above /\ side = SideOf(tree, parent) THEN node ELSE tree[side][m]
    BY <1>3 DEF Redirected, above
  <2> QED BY <1>1, <2>1, <2>2
<1> QED BY <1>2, <1>14, <1>15, <1>16 DEF Risen, parent, above, inner

\* What is under the nodes once a node has risen.
UnderRisen(tree, U, node, from) ==
  LET parent == tree.parent[node]
  IN  [m \in Pointers |->
         IF m = node THEN U[parent]
         ELSE IF m = parent
              THEN {parent} \cup U[tree[Other(from)][node]] \cup U[tree[Other(from)][parent]]
         ELSE U[m]]

\* The tree is still a search tree, of the same nodes.
LEMMA RisenIsShaped ==
  ASSUME NEW key \in [Nodes -> Int], NEW tree, NEW U, NEW node, NEW from, NEW s,
         Rises(tree, U, key, node, from), Risen(tree, node, from, s)
  PROVE  LET V == UnderRisen(tree, U, node, from)
         IN  Shaped(s, V, key) /\ V[s.root] = U[tree.root]
<1> DEFINE parent == tree.parent[node]
           above == tree.parent[parent]
           inner == tree[Other(from)][node]
           outer == tree[from][node]
           sibling == tree[Other(from)][parent]
           V == UnderRisen(tree, U, node, from)
<1>1. /\ parent \in Nodes /\ above \in Pointers /\ inner \in Pointers
      /\ outer \in Pointers /\ sibling \in Pointers
      /\ parent # node /\ above # node /\ above # parent
      /\ inner # node /\ inner # parent
      /\ outer # node /\ outer # parent /\ sibling # node /\ sibling # parent
      /\ Other(from) \in Sides /\ Other(from) # from
      /\ SideOf(tree, parent) \in Sides
      /\ {node, parent} \subseteq U[tree.root]
  BY Relatives
<1>2. above # None => /\ above \in Nodes /\ inner # above /\ sibling # above /\ outer # above
                      /\ tree[SideOf(tree, parent)][above] = parent
                      /\ tree[Other(SideOf(tree, parent))][above] # parent
  BY Relatives
<1>3. /\ Shaped(tree, U, key) /\ node \in Nodes /\ from \in Sides /\ parent # None
      /\ tree[from][parent] = node
      /\ tree \in Trees /\ Spans(tree, U) /\ Sorted(tree, U, key) /\ Paired(tree)
      /\ None \notin Nodes
  BY RbTreeAssumption DEF Rises, Shaped
<1>4. /\ s \in Trees /\ s.red = tree.red /\ s.root = IF above = None THEN node ELSE tree.root
      /\ \A m \in Nodes : s.parent[m] =
           IF m = node THEN above ELSE IF m = parent THEN node
           ELSE IF m = inner THEN parent ELSE tree.parent[m]
  BY DEF Risen
<1>5. \A side \in Sides, m \in Nodes : s[side][m] =
        IF m = parent /\ side = from THEN inner
        ELSE IF m = node /\ side = Other(from) THEN parent
        ELSE IF m = above /\ side = SideOf(tree, parent) THEN node ELSE tree[side][m]
  BY DEF Risen
<1>6. \A m \in Pointers : V[m] = IF m = node THEN U[parent]
                                 ELSE IF m = parent THEN {parent} \cup U[inner] \cup U[sibling]
                                 ELSE U[m]
  BY DEF UnderRisen
<1>7. U[parent] = {parent} \cup U[node] \cup U[sibling]
      /\ U[node] = {node} \cup U[outer] \cup U[inner]
      /\ U[inner] \subseteq Nodes /\ U[outer] \subseteq Nodes /\ U[sibling] \subseteq Nodes
  BY <1>1, <1>3, UnderChild
<1>8. U \in [Pointers -> SUBSET Nodes] /\ U[None] = {} /\ V = [m \in Pointers |-> V[m]]
  BY <1>3 DEF Spans, UnderRisen
<1> HIDE DEF parent, above, inner, outer, sibling, V
\* Of children that are neither, all is as before.
<1>9. ASSUME NEW n \in Nodes, n # node, n # parent, NEW side \in Sides
      PROVE  /\ V[s[side][n]] = U[tree[side][n]]
             /\ s[side][n] = IF tree[side][n] = parent THEN node ELSE tree[side][n]
  <2>1. CASE n = above /\ side = SideOf(tree, parent)
    <3>1. above # None BY <1>3, <1>9, <2>1
    <3>2. s[side][n] = node /\ tree[side][n] = parent BY <1>2, <1>5, <1>9, <2>1, <3>1
    <3> QED BY <1>6, <3>2, <1>3 DEF Pointers
  <2>2. CASE ~(n = above /\ side = SideOf(tree, parent))
    <3>1. s[side][n] = tree[side][n] BY <1>5, <1>9, <2>2
    <3>2. tree[side][n] # node
      <4>1. tree[side][n] = node => tree.parent[node] = n BY <1>3, <1>9 DEF Paired
      <4> QED BY <4>1, <1>9 DEF parent
    <3>3. tree[side][n] # parent
      <4>1. SUFFICES ASSUME tree[side][n] = parent PROVE FALSE OBVIOUS
      <4>2. tree.parent[parent] = n BY <1>1, <1>3, <1>9, <4>1 DEF Paired
      <4>3. above = n /\ above # None BY <1>3, <1>9, <4>2 DEF above
      <4>4. side = Other(SideOf(tree, parent)) BY <1>1, <2>2, <4>3, Order
      <4> QED BY <1>2, <4>1, <4>3, <4>4
    <3>4. tree[side][n] \in Pointers BY <1>3, Fields
    <3> QED BY <1>6, <3>1, <3>2, <3>3, <3>4
  <2> QED BY <2>1, <2>2
<1>10. /\ V[node] = U[parent] /\ V[parent] = {parent} \cup U[inner] \cup U[sibling]
       /\ V[inner] = U[inner] /\ V[outer] = U[outer] /\ V[sibling] = U[sibling]
       /\ V[None] = {}
  BY <1>1, <1>3, <1>6, <1>8 DEF Pointers
<1>11. /\ s[from][parent] = inner /\ s[Other(from)][parent] = sibling
       /\ s[from][node] = outer /\ s[Other(from)][node] = parent
  BY <1>1, <1>3, <1>5 DEF sibling, outer
<1>12. Spans(s, V)
  <2>1. V \in [Pointers -> SUBSET Nodes]
    <3>1. ASSUME NEW m \in Pointers PROVE V[m] \in SUBSET Nodes
      BY <1>1, <1>6, <1>7, <1>8 DEF Pointers
    <3> QED BY <1>8, <3>1
  <2>2. ASSUME NEW n \in Nodes, NEW side \in Sides
        PROVE  V[n] = {n} \cup V[s[side][n]] \cup V[s[Other(side)][n]]
    <3>1. CASE n = node
      <4>1. V[n] = {n} \cup V[s[from][n]] \cup V[s[Other(from)][n]]
        BY <1>7, <1>10, <1>11, <3>1
      <4> QED BY <1>3, <4>1, Order
    <3>2. CASE n = parent
      <4>1. V[n] = {n} \cup V[s[from][n]] \cup V[s[Other(from)][n]]
        BY <1>7, <1>10, <1>11, <3>2
      <4> QED BY <1>3, <4>1, Order
    <3>3. CASE n # node /\ n # parent
      <4>1. U[n] = {n} \cup U[tree[side][n]] \cup U[tree[Other(side)][n]]
        BY <1>3, UnderChild
      <4>2. V[n] = U[n] BY <1>6, <3>3 DEF Pointers
      <4>3. Other(side) \in Sides BY Order
      <4> QED BY <1>9, <3>3, <4>1, <4>2, <4>3
    <3> QED BY <3>1, <3>2, <3>3
  <2>3. "left" \in Sides /\ Other("left") = "right" BY DEF Sides, Other
  <2>4. \A n \in Nodes : V[n] = {n} \cup V[s.left[n]] \cup V[s.right[n]] BY <2>2, <2>3
  <2> QED BY <1>10, <2>1, <2>4 DEF Spans
<1>13. Sorted(s, V, key)
  <2> SUFFICES ASSUME NEW n \in Nodes, NEW side \in Sides, NEW m \in V[s[side][n]]
               PROVE  OnSide(key, side, m, n)
    BY DEF Sorted
  <2>1. \A q \in Nodes, other \in Sides : \A r \in U[tree[other][q]] : OnSide(key, other, r, q)
    BY <1>3 DEF Sorted
  <2>2. node \in U[node] BY <1>7
  <2>3. OnSide(key, from, node, parent) /\ OnSide(key, Other(from), parent, node)
    <3>1. OnSide(key, from, node, parent) BY <1>1, <1>3, <2>1, <2>2
    <3> QED BY <1>1, <1>3, <3>1, Order
  <2>4. \A r \in U[inner] : OnSide(key, from, r, parent) /\ OnSide(key, Other(from), r, node)
    <3>1. \A r \in U[inner] : OnSide(key, Other(from), r, node) BY <1>1, <1>3, <2>1 DEF inner
    <3>2. \A r \in U[node] : OnSide(key, from, r, parent) BY <1>1, <1>3, <2>1
    <3> QED BY <1>7, <3>1, <3>2
  <2>5. \A r \in U[sibling] : /\ OnSide(key, Other(from), r, parent)
                              /\ OnSide(key, Other(from), r, node)
    <3>1. \A r \in U[sibling] : OnSide(key, Other(from), r, parent)
      BY <1>1, <1>3, <2>1 DEF sibling
    <3> QED BY <1>1, <1>3, <1>7, <2>3, <3>1, Order
  <2>6. \A r \in U[outer] : OnSide(key, from, r, node) BY <1>1, <1>3, <2>1 DEF outer
  <2>7. side = from \/ side = Other(from) BY <1>3, Order
  <2>8. CASE n = node
    <3>1. CASE side = from BY <1>10, <1>11, <2>6, <2>8, <3>1
    <3>2. CASE side = Other(from) BY <1>10, <1>11, <2>3, <2>4, <2>5, <2>8, <3>2
    <3> QED BY <2>7, <3>1, <3>2
  <2>9. CASE n = parent
    <3>1. CASE side = from BY <1>10, <1>11, <2>4, <2>9, <3>1
    <3>2. CASE side = Other(from) BY <1>10, <1>11, <2>5, <2>9, <3>2
    <3> QED BY <2>7, <3>1, <3>2
  <2>10. CASE n # node /\ n # parent BY <1>9, <2>1, <2>10
  <2> QED BY <2>8, <2>9, <2>10
<1>14. Paired(s)
  <2>1. ASSUME NEW n \in Nodes, NEW side \in Sides, s[side][n] # None
        PROVE  s.parent[s[side][n]] = n
    <3>1. s[side][n] \in Nodes BY <1>4, <2>1, Fields DEF Pointers
    <3>2. \A q \in Nodes, other \in Sides : tree[other][q] # None => tree.parent[tree[other][q]] = q
      BY <1>3 DEF Paired
    <3>3. side = from \/ side = Other(from) BY <1>3, Order
    <3>4. CASE n = node
      <4>1. outer # None => outer # inner
        <5>1. outer # None => tree.parent[outer] = node /\ outer \in U[outer] /\ outer \in Nodes
          BY <1>1, <1>3, <3>2, UnderChild DEF outer, Pointers
        <5>2. U[tree[from][node]] \cap U[tree[Other(from)][node]] = {}
          BY <1>3, UnderChild
        <5> QED BY <5>1, <5>2 DEF outer, inner
      <4>2. outer # None => tree.parent[outer] = node /\ outer \in Nodes
        BY <1>1, <1>3, <3>2 DEF outer, Pointers
      <4>3. CASE side = from BY <1>1, <1>4, <1>11, <2>1, <3>4, <4>1, <4>2, <4>3
      <4>4. CASE side = Other(from) BY <1>1, <1>4, <1>11, <3>4, <4>4
      <4> QED BY <3>3, <4>3, <4>4
    <3>5. CASE n = parent
      <4>1. sibling # None => sibling # inner
        <5>1. sibling # None => tree.parent[sibling] = parent
          BY <1>1, <1>3, <3>2 DEF sibling
        <5>2. inner # None => tree.parent[inner] = node BY <1>1, <1>3, <3>2 DEF inner
        <5> QED BY <1>1, <5>1, <5>2
      <4>2. sibling # None => tree.parent[sibling] = parent /\ sibling \in Nodes
        BY <1>1, <1>3, <3>2 DEF sibling, Pointers
      <4>3. CASE side = from
        <5>1. inner \in Nodes BY <1>11, <3>1, <3>5, <4>3
        <5> QED BY <1>1, <1>4, <1>11, <3>5, <4>3, <5>1
      <4>4. CASE side = Other(from) BY <1>1, <1>4, <1>11, <2>1, <3>5, <4>1, <4>2, <4>4
      <4> QED BY <3>3, <4>3, <4>4
    <3>6. CASE n # node /\ n # parent
      <4>1. s[side][n] = IF tree[side][n] = parent THEN node ELSE tree[side][n]
        BY <1>9, <3>6
      <4>2. CASE tree[side][n] = parent
        <5>1. above = n BY <1>3, <1>1, <3>2, <4>2 DEF above
        <5> QED BY <1>3, <1>4, <4>1, <4>2, <5>1
      <4>3. CASE tree[side][n] # parent
        <5>1. tree.parent[tree[side][n]] = n BY <2>1, <3>2, <4>1, <4>3
        <5>2. tree[side][n] # node BY <5>1, <3>6 DEF parent
        <5>3. tree[side][n] # inner
          <6>1. inner # None => tree.parent[inner] = node BY <1>1, <1>3, <3>2 DEF inner
          <6> QED BY <2>1, <3>6, <4>1, <4>3, <5>1, <6>1
        <5> QED BY <1>4, <3>1, <4>1, <4>3, <5>1, <5>2, <5>3
      <4> QED BY <4>2, <4>3
    <3> QED BY <3>4, <3>5, <3>6
  <2>2. ASSUME NEW n \in Nodes, s.parent[n] # None
        PROVE  \E side \in Sides : s[side][s.parent[n]] = n
    <3>1. CASE n = node
      <4>1. s.parent[n] = above BY <1>4, <3>1
      <4>2. s[SideOf(tree, parent)][above] = node BY <1>1, <1>2, <1>5, <2>2, <4>1
      <4> QED BY <1>1, <3>1, <4>1, <4>2
    <3>2. CASE n = parent
      <4>1. s.parent[n] = node BY <1>1, <1>4, <3>2
      <4> QED BY <1>1, <1>11, <3>2, <4>1
    <3>3. CASE n = inner
      <4>1. s.parent[n] = parent BY <1>1, <1>4, <3>3
      <4> QED BY <1>3, <1>11, <3>3, <4>1
    <3>4. CASE n # node /\ n # parent /\ n # inner
      <4>1. s.parent[n] = tree.parent[n] /\ tree.parent[n] # None BY <1>4, <2>2, <3>4
      <4>2. tree.parent[n] \in Nodes BY <1>3, <4>1, Fields DEF Pointers
      <4>3. PICK side \in Sides : tree[side][tree.parent[n]] = n BY <1>3, <4>1 DEF Paired
      <4>4. s[side][tree.parent[n]] = n
        <5>1. ~(tree.parent[n] = parent /\ side = from) BY <1>3, <3>4, <4>3
        <5>2. ~(tree.parent[n] = node /\ side = Other(from)) BY <3>4, <4>3 DEF inner
        <5>3. ~(tree.parent[n] = above /\ side = SideOf(tree, parent))
          BY <1>2, <3>4, <4>1, <4>3
        <5> QED BY <1>5, <4>2, <4>3, <5>1, <5>2, <5>3
      <4> QED BY <4>1, <4>4
    <3> QED BY <3>1, <3>2, <3>3, <3>4
  <2>3. s.root # None => s.parent[s.root] = None
    <3>1. CASE above = None BY <1>3, <1>4, <3>1
    <3>2. CASE above # None
      <4>1. s.root = tree.root BY <1>4, <3>2
      <4>2. tree.root # None => tree.parent[tree.root] = None BY <1>3 DEF Paired
      <4>3. tree.parent[node] # None /\ tree.parent[parent] # None
        BY <1>3, <3>2 DEF parent, above
      <4>4. inner # None => tree.parent[inner] = node BY <1>1, <1>3 DEF inner, Paired
      <4>5. tree.root # None => tree.root \in Nodes BY <1>3, Fields DEF Pointers
      <4> QED BY <1>3, <1>4, <4>1, <4>2, <4>3, <4>4, <4>5
    <3> QED BY <3>1, <3>2
  <2> QED BY <2>1, <2>2, <2>3 DEF Paired
<1>15. V[s.root] = U[tree.root]
  <2>1. CASE above = None
    <3>1. parent = tree.root BY <1>1, <1>3, <2>1, Parents DEF above
    <3> QED BY <1>4, <1>10, <2>1, <3>1
  <2>2. CASE above # None
    <3>1. tree.root # parent /\ tree.root # node
      <4>1. tree.root # None => tree.parent[tree.root] = None BY <1>3 DEF Paired
      <4> QED BY <1>1, <1>3, <2>2, <4>1 DEF above, parent
    <3>2. tree.root \in Pointers BY <1>3, Fields
    <3> QED BY <1>4, <1>6, <2>2, <3>1, <3>2
  <2> QED BY <2>1, <2>2
<1>16. ASSUME NEW n \in Nodes, n \notin U[tree.root] PROVE Blank(s, n)
  <2>1. Blank(tree, n) BY <1>3, <1>16 DEF Shaped
  <2>2. n # node /\ n # parent BY <1>1, <1>16
  <2>3. tree["left"][n] = None /\ tree["right"][n] = None BY <2>1 DEF Blank
  <2>4. s["left"][n] = None /\ s["right"][n] = None
    <3>1. parent # None BY <1>3
    <3>2. "left" \in Sides /\ "right" \in Sides BY DEF Sides
    <3> QED BY <1>9, <2>2, <2>3, <3>1, <3>2
  <2>5. s.parent[n] = None
    <3>1. tree.parent[n] = None BY <2>1 DEF Blank
    <3>2. inner # None => tree.parent[inner] = node BY <1>1, <1>3 DEF inner, Paired
    <3> QED BY <1>3, <1>4, <2>2, <3>1, <3>2
  <2> QED BY <1>4, <2>1, <2>4, <2>5 DEF Blank
<1> QED BY <1>4, <1>12, <1>13, <1>14, <1>15, <1>16 DEF Shaped, V

-----------------------------------------------------------------------------
(***************************************************************************)
(* Loops.                                                                  *)
(***************************************************************************)

\* If a step leads from each number to the next, all are reached.
LEMMA UpToLength ==
  ASSUME NEW n \in Nat, NEW Reached \in SUBSET (0 .. n), 0 \in Reached,
         \A i \in Reached : i # n => i + 1 \in Reached
  PROVE  n \in Reached
<1> DEFINE left == {i \in 0 .. n : i \notin Reached}
<1> SUFFICES ASSUME n \notin Reached PROVE FALSE OBVIOUS
<1>1. left \subseteq Nat /\ left # {} OBVIOUS
<1> HIDE DEF left
<1>2. PICK i \in left : \A j \in left : <<j, i>> \notin OpToRel(<, Nat)
  BY <1>1, NatLessThanWellFounded, WFMin, Zenon
<1>3. i \in 0 .. n /\ i \notin Reached /\ i # 0 BY <1>2 DEF left
<1>4. i - 1 \in 0 .. n /\ i - 1 + 1 = i /\ i - 1 < i /\ i - 1 # n BY <1>3
<1>5. i - 1 \notin left
  <2>1. i - 1 \in Nat /\ i \in Nat BY <1>3, <1>4
  <2>2. <<i - 1, i>> \in OpToRel(<, Nat) BY <1>4, <2>1 DEF OpToRel
  <2> QED BY <1>2, <2>2
<1>6. i - 1 \in Reached BY <1>4, <1>5 DEF left
<1> QED BY <1>3, <1>4, <1>6

\* A smaller set has fewer elements.
LEMMA SmallerIsLess ==
  ASSUME NEW S, IsFiniteSet(S), NEW T, Smaller(T, S)
  PROVE  /\ IsFiniteSet(T) /\ Cardinality(T) \in Nat /\ Cardinality(S) \in Nat
         /\ Cardinality(T) < Cardinality(S)
<1>1. T \in SUBSET S /\ T # S BY DEF Smaller
<1>2. IsFiniteSet(T) /\ Cardinality(T) <= Cardinality(S) /\ Cardinality(T) # Cardinality(S)
  BY <1>1, FS_Subset
<1>3. Cardinality(T) \in Nat /\ Cardinality(S) \in Nat BY <1>2, FS_CardinalityType
<1> QED BY <1>2, <1>3

\* f has what x is after each number of turns.
Turns(f, start, X, Go, Turn) ==
  LET last == Cardinality(Nodes)
  IN  /\ f[0] = start
      /\ \A i \in 1 .. last : /\ f[i - 1] \in Go => f[i] = Turn[f[i - 1]]
                              /\ f[i - 1] \in X \ Go => f[i] = f[i - 1]

\* If each turn passes more nodes, the turns suffice.
LEMMA LoopEnds ==
  ASSUME NEW X, NEW start \in X, NEW Go \in SUBSET X, NEW Turn, NEW V \in [X -> SUBSET Nodes],
         \A x \in Go : Turn[x] \in X /\ Smaller(V[x], V[Turn[x]]),
         NEW f, Turns(f, start, X, Go, Turn)
  PROVE  f[Cardinality(Nodes)] \in X \ Go
<1> DEFINE last == Cardinality(Nodes)
           Passed(x) == Cardinality(V[x])
           Reached == {i \in 0 .. last : f[i] \in X /\ (f[i] \in Go => Passed(f[i]) >= i)}
<1>1. last \in Nat /\ IsFiniteSet(Nodes) BY RbTreeAssumption, FS_CardinalityType
<1>2. ASSUME NEW x \in X PROVE IsFiniteSet(V[x]) /\ Passed(x) \in Nat /\ Passed(x) <= last
  <2>1. V[x] \in SUBSET Nodes OBVIOUS
  <2>2. IsFiniteSet(V[x]) /\ Passed(x) <= last BY <1>1, <2>1, FS_Subset
  <2> QED BY <2>2, FS_CardinalityType
<1>3. ASSUME NEW x \in Go PROVE Passed(x) < Passed(Turn[x])
  <2>1. Turn[x] \in X /\ Smaller(V[x], V[Turn[x]]) OBVIOUS
  <2> QED BY <1>2, <2>1, SmallerIsLess
<1>4. 0 \in Reached
  <2>1. f[0] \in X BY DEF Turns
  <2> QED BY <1>1, <1>2, <2>1
<1> HIDE DEF last, Passed
<1>5. ASSUME NEW i \in Reached, i # last PROVE i + 1 \in Reached
  <2>1. /\ i \in Nat /\ i + 1 \in 1 .. last /\ i + 1 \in 0 .. last /\ (i + 1) - 1 = i
        /\ f[i] \in X
    BY <1>1, <1>5
  <2>2. /\ f[i] \in Go => f[i + 1] = Turn[f[i]]
        /\ f[i] \in X \ Go => f[i + 1] = f[i]
    <3>1. /\ f[(i + 1) - 1] \in Go => f[i + 1] = Turn[f[(i + 1) - 1]]
          /\ f[(i + 1) - 1] \in X \ Go => f[i + 1] = f[(i + 1) - 1]
      BY <2>1 DEF Turns, last
    <3> QED BY <2>1, <3>1
  <2>3. CASE f[i] \in Go
    <3>1. f[i + 1] \in X /\ f[i + 1] = Turn[f[i]] BY <2>2, <2>3
    <3>2. Passed(f[i]) >= i /\ Passed(f[i]) < Passed(f[i + 1]) BY <1>3, <2>3, <3>1
    <3>3. Passed(f[i]) \in Nat /\ Passed(f[i + 1]) \in Nat BY <1>2, <2>1, <3>1
    <3>4. Passed(f[i + 1]) >= i + 1 BY <2>1, <3>2, <3>3
    <3> QED BY <2>1, <3>1, <3>4
  <2>4. CASE f[i] \notin Go BY <2>1, <2>2, <2>4
  <2> QED BY <2>3, <2>4
<1> HIDE DEF Reached
<1>6. Reached \in SUBSET (0 .. last) BY DEF Reached
<1>7. last \in Reached BY <1>1, <1>4, <1>5, <1>6, UpToLength
<1>8. f[last] \in X /\ (f[last] \in Go => Passed(f[last]) >= last) BY <1>7 DEF Reached
<1>9. f[last] \notin Go
  <2> SUFFICES ASSUME f[last] \in Go PROVE FALSE OBVIOUS
  <2> DEFINE x == f[last]
             y == Turn[f[last]]
  <2>1. x \in Go /\ y \in X /\ Passed(x) >= last /\ Passed(x) < Passed(y) BY <1>3, <1>8
  <2>2. x \in X /\ Passed(x) \in Nat /\ Passed(y) \in Nat /\ Passed(y) <= last BY <1>2, <2>1
  <2> HIDE DEF x, y
  <2> QED BY <1>1, <2>1, <2>2
<1> QED BY <1>8, <1>9 DEF last

\* There are such turns.
Runs(f, start, Go, Turn) ==
  f = [i \in 0 .. Cardinality(Nodes) |->
         IF i = 0 THEN start ELSE IF f[i - 1] \in Go THEN Turn[f[i - 1]] ELSE f[i - 1]]

LEMMA LoopRuns ==
  ASSUME NEW X, NEW start \in X, NEW Go \in SUBSET X, NEW Turn,
         \A x \in Go : Turn[x] \in X
  PROVE  \E f \in [0 .. Cardinality(Nodes) -> X] : Runs(f, start, Go, Turn)
<1> DEFINE last == Cardinality(Nodes)
           D == 0 .. last
           V == [i \in D |-> 0 .. i - 1]
           stop == {0}
           value == [i \in D |-> start]
           next == [i \in D |-> i - 1]
           F == [x \in X |-> IF x \in Go THEN Turn[x] ELSE x]
           G == [i \in D |-> F]
<1>1. last \in Nat BY RbTreeAssumption, FS_CardinalityType
<1>2. IsFiniteSet(D)
  <2>1. \A a, b \in Int : IsFiniteSet(a .. b) BY FS_Interval
  <2> QED BY <1>1, <2>1
<1>3. V \in [D -> SUBSET D] /\ stop \in SUBSET D /\ \A n \in stop : value[n] \in X BY <1>1
<1>4. F \in [X -> X] OBVIOUS
<1>5. ASSUME NEW n \in D \ stop
      PROVE  next[n] \in D /\ Smaller(V[next[n]], V[n]) /\ G[n] \in [X -> X]
  <2>1. n \in D /\ n - 1 \in D /\ next[n] = n - 1 /\ G[n] = F BY <1>1
  <2>2. V[n] = 0 .. n - 1 /\ V[n - 1] = 0 .. (n - 1) - 1 BY <2>1
  <2>3. n - 1 \in V[n] /\ n - 1 \notin V[n - 1] /\ V[n - 1] \subseteq V[n]
    BY <1>1, <2>1, <2>2
  <2> QED BY <1>4, <2>1, <2>3 DEF Smaller
<1> HIDE DEF last, D, V, stop, value, next, G, F
<1>6. PICK f \in [D -> X] : \A n \in D : f[n] = Returned(n, stop, value, G, next, f)
  <2>1. Ends(D, D, V, X, stop, value, G, next) BY <1>2, <1>3, <1>5 DEF Ends
  <2> QED BY <2>1, Recursion
<1>7. ASSUME NEW i \in D
      PROVE  f[i] = IF i = 0 THEN start ELSE IF f[i - 1] \in Go THEN Turn[f[i - 1]] ELSE f[i - 1]
  <2>1. CASE i = 0 BY <1>6, <2>1 DEF Returned, stop, value
  <2>2. CASE i # 0
    <3>1. next[i] = i - 1 /\ i - 1 \in D /\ G[i] = F /\ i \notin stop
      BY <1>1, <2>2 DEF next, D, G, stop
    <3>2. f[i] = F[f[i - 1]] BY <1>6, <3>1 DEF Returned
    <3>3. f[i - 1] \in X BY <1>6, <3>1
    <3> QED BY <2>2, <3>2, <3>3 DEF F
  <2> QED BY <2>1, <2>2
<1>8. f = [i \in D |-> IF i = 0 THEN start
                       ELSE IF f[i - 1] \in Go THEN Turn[f[i - 1]] ELSE f[i - 1]]
  BY <1>6, <1>7
<1> QED BY <1>6, <1>8 DEF D, last, Runs

-----------------------------------------------------------------------------
(***************************************************************************)
(* Colours.                                                                *)
(***************************************************************************)

\* s has the pointers of the tree.
SamePointers(tree, s) ==
  /\ s \in Trees /\ s.root = tree.root /\ s.left = tree.left /\ s.right = tree.right
  /\ s.parent = tree.parent

\* s is the tree with some nodes made red and some black.
ColoursSet(tree, red, black, s) ==
  /\ SamePointers(tree, s)
  /\ \A n \in Nodes : s.red[n] = (n \in red \/ (n \notin black /\ tree.red[n]))

LEMMA SetsColours ==
  ASSUME NEW tree \in Trees, NEW red, NEW black
  PROVE  ColoursSet(tree, red, black, SetColours(tree, red, black))
<1> DEFINE s == SetColours(tree, red, black)
<1>1. s = [tree EXCEPT !.red = [n \in Nodes |-> n \in red \/ (n \notin black /\ tree.red[n])]]
  BY DEF SetColours
<1>2. \A n \in Nodes : tree.red[n] \in BOOLEAN BY Fields
<1>3. \A n \in Nodes : (n \in red \/ (n \notin black /\ tree.red[n])) \in BOOLEAN OBVIOUS
<1>4. /\ s.red = [n \in Nodes |-> n \in red \/ (n \notin black /\ tree.red[n])]
      /\ s.red \in [Nodes -> BOOLEAN]
      /\ s.root = tree.root /\ s.left = tree.left /\ s.right = tree.right
      /\ s.parent = tree.parent
      /\ s = [root |-> s.root, left |-> s.left, right |-> s.right, parent |-> s.parent,
              red |-> s.red]
  BY <1>1 DEF Trees
<1>5. s \in Trees
  <2> HIDE DEF s
  <2> QED BY <1>4 DEF Trees
<1> HIDE DEF s
<1> QED BY <1>4, <1>5 DEF ColoursSet, SamePointers, s

\* Colours do not matter to the shape, as long as what is not in the tree is not red.
LEMMA SameShape ==
  ASSUME NEW key, NEW tree, NEW U, Shaped(tree, U, key), NEW s, SamePointers(tree, s),
         \A n \in Nodes : n \notin U[tree.root] => ~s.red[n]
  PROVE  Shaped(s, U, key) /\ s.root = tree.root
<1>1. /\ s.root = tree.root /\ s.parent = tree.parent /\ s.left = tree.left
      /\ s.right = tree.right /\ s \in Trees
      /\ \A side \in Sides : s[side] = tree[side]
  BY DEF SamePointers, Sides
<1>2. tree \in Trees /\ Spans(tree, U) /\ Sorted(tree, U, key) /\ Paired(tree) BY DEF Shaped
<1>3. Spans(s, U) BY <1>1, <1>2 DEF Spans
<1>4. Sorted(s, U, key) BY <1>1, <1>2 DEF Sorted
<1>5. Paired(s) BY <1>1, <1>2 DEF Paired
<1>6. \A n \in Nodes : n \notin U[s.root] => Blank(s, n) BY <1>1 DEF Shaped, Blank
<1> QED BY <1>1, <1>3, <1>4, <1>5, <1>6 DEF Shaped

Weight(tree, n) == IF tree.red[n] THEN 0 ELSE 1

\* B counts the black nodes on the way down from a node, the same on either side.
HeightAt(tree, B, n) == \A side \in Sides : B[n] = B[tree[side][n]] + Weight(tree, n)

Heights(B) == B \in [Pointers -> Nat] /\ B[None] = 0

\* A red node has a black parent.
RedAt(tree, n) == tree.red[n] => ~Red(tree, tree.parent[n])

\* The rules of the colours.
Coloured(tree, B) ==
  /\ Heights(B) /\ \A n \in Nodes : HeightAt(tree, B, n) /\ RedAt(tree, n)
  /\ ~Red(tree, tree.root)

-----------------------------------------------------------------------------
(***************************************************************************)
(* The way down.                                                           *)
(***************************************************************************)

\* f goes down as far as it can, from each node on the side that d says.
GoesDown(tree, d, f) ==
  f = [n \in Nodes |-> IF tree[d[n]][n] = None THEN n ELSE f[tree[d[n]][n]]]

\* What hangs on a side of a node is None or a node.
LEMMA Child ==
  ASSUME NEW tree \in Trees, NEW n \in Nodes, NEW side \in Sides
  PROVE  tree[side][n] \in Pointers /\ (tree[side][n] # None => tree[side][n] \in Nodes)
  BY Fields DEF Pointers

LEMMA WaysDown ==
  ASSUME NEW key \in [Nodes -> Int], NEW tree, NEW U, Shaped(tree, U, key),
         NEW d \in [Nodes -> Sides]
  PROVE  \E f \in [Nodes -> Nodes] : GoesDown(tree, d, f)
<1> DEFINE next == [n \in Nodes |-> tree[d[n]][n]]
           stop == {n \in Nodes : tree[d[n]][n] = None}
           value == [n \in Nodes |-> n]
           G == [n \in Nodes |-> [m \in Nodes |-> m]]
           V == [n \in Nodes |-> U[n]]
<1>1. tree \in Trees /\ Spans(tree, U) BY DEF Shaped
<1>2. IsFiniteSet(Nodes) BY RbTreeAssumption
<1>3. V \in [Nodes -> SUBSET Nodes]
  <2>1. \A n \in Nodes : U[n] \in SUBSET Nodes BY <1>1 DEF Spans, Pointers
  <2> QED BY <2>1
<1>4. ASSUME NEW n \in Nodes \ stop
      PROVE  next[n] \in Nodes /\ Smaller(V[next[n]], V[n]) /\ G[n] \in [Nodes -> Nodes]
  <2>1. d[n] \in Sides /\ tree[d[n]][n] # None BY <1>4
  <2>2. tree[d[n]][n] \in Nodes BY <1>1, <2>1, Child
  <2>3. Smaller(U[tree[d[n]][n]], U[n]) BY <2>1, UnderChild
  <2> QED BY <2>2, <2>3
<1>5. stop \in SUBSET Nodes /\ \A n \in stop : value[n] \in Nodes OBVIOUS
<1> HIDE DEF next, stop, value, G, V
<1>6. Ends(Nodes, Nodes, V, Nodes, stop, value, G, next) BY <1>2, <1>3, <1>4, <1>5 DEF Ends
<1>7. PICK f \in [Nodes -> Nodes] : \A n \in Nodes : f[n] = Returned(n, stop, value, G, next, f)
  BY <1>6, Recursion
<1>8. ASSUME NEW n \in Nodes
      PROVE  f[n] = IF tree[d[n]][n] = None THEN n ELSE f[tree[d[n]][n]]
  <2>1. CASE n \in stop BY <1>7, <2>1 DEF Returned, stop, value
  <2>2. CASE n \notin stop
    <3>1. f[n] = G[n][f[next[n]]] BY <1>7, <2>2 DEF Returned
    <3>2. next[n] \in Nodes /\ next[n] = tree[d[n]][n] /\ tree[d[n]][n] # None
      BY <1>4, <2>2 DEF next, stop
    <3>3. f[next[n]] \in Nodes BY <1>7, <3>2
    <3>4. f[n] = f[next[n]] BY <3>1, <3>3 DEF G
    <3> QED BY <3>2, <3>4
  <2> QED BY <2>1, <2>2
<1>9. GoesDown(tree, d, f) BY <1>7, <1>8 DEF GoesDown
<1> QED BY <1>7, <1>9

\* It comes to a node on whose side there is nothing, and everything that it
\* passes it leaves on that side.
EndOfWay(tree, U, d, n, x) ==
  /\ x \in U[n] /\ tree[d[x]][x] = None
  /\ \A a \in U[n], side \in Sides : x \in U[tree[side][a]] => side = d[a]

LEMMA WayDown ==
  ASSUME NEW key \in [Nodes -> Int], NEW tree, NEW U, Shaped(tree, U, key),
         NEW d \in [Nodes -> Sides], NEW f, GoesDown(tree, d, f)
  PROVE  \A n \in Nodes : EndOfWay(tree, U, d, n, f[n])
<1> DEFINE T == {n \in Nodes : ~EndOfWay(tree, U, d, n, f[n])}
<1> SUFFICES ASSUME T # {} PROVE FALSE OBVIOUS
<1>1. tree \in Trees /\ Spans(tree, U) BY DEF Shaped
<1>2. U \in [Pointers -> SUBSET Nodes] /\ T \in SUBSET Pointers /\ IsFiniteSet(Nodes)
  BY <1>1, RbTreeAssumption DEF Spans, Pointers
<1>3. PICK n \in T : \A m \in T : ~Smaller(U[m], U[n])
  <2> HIDE DEF T
  <2> QED BY <1>2, Lowest
<1>4. n \in Nodes /\ ~EndOfWay(tree, U, d, n, f[n]) /\ d[n] \in Sides BY <1>3
<1>5. f[n] = IF tree[d[n]][n] = None THEN n ELSE f[tree[d[n]][n]] BY <1>4 DEF GoesDown
<1> DEFINE c == tree[d[n]][n]
           o == tree[Other(d[n])][n]
<1>6. /\ n \in U[n] /\ U[n] = {n} \cup U[c] \cup U[o] /\ n \notin U[c] /\ Smaller(U[c], U[n])
      /\ U[c] \cap U[o] = {} /\ U[c] \subseteq Nodes /\ U[o] \subseteq Nodes
      /\ c # None => c \in Nodes
      /\ Other(d[n]) \in Sides
  BY <1>1, <1>4, UnderChild, Child, Order
<1>7. n \notin U[o]
  <2>1. n \notin U[tree[Other(d[n])][n]] BY <1>4, <1>6, UnderChild
  <2> QED BY <2>1
<1>8. CASE c = None
  <2>1. f[n] = n BY <1>5, <1>8
  <2>2. ASSUME NEW a \in U[n], NEW side \in Sides, n \in U[tree[side][a]] PROVE FALSE
    <3>1. CASE a = n BY <1>4, <2>2, <3>1, UnderChild
    <3>2. CASE a # n
      <4>1. a \in Nodes /\ a \in U[o] BY <1>1, <1>6, <1>8, <3>2 DEF Spans
      <4>2. n \in U[a] BY <2>2, <4>1, UnderChild
      <4>3. o \in Nodes
        <5>1. o \in Pointers /\ o # None BY <1>1, <1>4, <1>6, <4>1, Child DEF Spans
        <5> QED BY <5>1 DEF Pointers
      <4>4. n \in U[o] BY <4>1, <4>2, <4>3, UnderUnder
      <4> QED BY <1>7, <4>4
    <3> QED BY <3>1, <3>2
  <2>3. EndOfWay(tree, U, d, n, n) BY <1>6, <1>8, <2>2 DEF EndOfWay
  <2> QED BY <1>4, <2>1, <2>3
<1>9. CASE c # None
  <2> DEFINE x == f[c]
  <2>1. f[n] = x /\ c \in Nodes /\ c \notin T BY <1>3, <1>5, <1>6, <1>9
  <2>2. EndOfWay(tree, U, d, c, x) BY <2>1
  <2> HIDE DEF x, c, o
  <2>3. x \in U[c] /\ x \in U[n] BY <1>6, <2>2 DEF EndOfWay
  <2>4. ASSUME NEW a \in U[n], NEW side \in Sides, x \in U[tree[side][a]] PROVE side = d[a]
    <3>1. CASE a = n
      <4>1. side # Other(d[n]) BY <1>6, <2>3, <2>4, <3>1 DEF o
      <4> QED BY <1>4, <3>1, <4>1, Order
    <3>2. CASE a \in U[c] BY <2>2, <2>4, <3>2 DEF EndOfWay
    <3>3. CASE a \in U[o]
      <4>1. a \in Nodes /\ x \in U[a]
        <5>1. a \in Nodes BY <1>6, <3>3
        <5> QED BY <2>4, <5>1, UnderChild
      <4>2. o \in Nodes
        <5>1. o \in Pointers /\ o # None BY <1>1, <1>4, <1>6, <3>3, Child DEF Spans, o
        <5> QED BY <5>1 DEF Pointers
      <4>3. x \in U[o] BY <3>3, <4>1, <4>2, UnderUnder
      <4> QED BY <1>6, <2>3, <4>3
    <3> QED BY <1>6, <3>1, <3>2, <3>3
  <2>5. EndOfWay(tree, U, d, n, x) BY <2>2, <2>3, <2>4 DEF EndOfWay
  <2> QED BY <1>4, <2>1, <2>5
<1> QED BY <1>8, <1>9

\* Where a key that is not in the tree is to hang: under whom, and on which side.
Hanging(tree, U, k, last, side) ==
  /\ last \in U[tree.root] /\ side \in Sides /\ tree[side][last] = None
  /\ IF side = "left" THEN k < Key[last] ELSE k > Key[last]
  /\ \A n \in Nodes, other \in Sides : last \in U[tree[other][n]] =>
       IF other = "left" THEN k < Key[n] ELSE k > Key[n]

LEMMA LastOnWayHangs ==
  ASSUME NEW tree, NEW U, Shaped(tree, U, Key), tree.root # None,
         NEW k \in Int, \A m \in U[tree.root] : Key[m] # k
  PROVE  LET last == LastOnWay(tree, k)
         IN  Hanging(tree, U, k, last, IF k > Key[last] THEN "right" ELSE "left")
<1> DEFINE d == [n \in Nodes |-> IF k > Key[n] THEN "right" ELSE "left"]
           way == CHOOSE f : f = [n \in Nodes |->
                    LET next == IF k > Key[n] THEN tree.right[n] ELSE tree.left[n]
                    IN  IF next = None THEN n ELSE f[next]]
           last == way[tree.root]
<1>1. Key \in [Nodes -> Int] /\ d \in [Nodes -> Sides] BY RbTreeAssumption DEF Sides
<1>2. LastOnWay(tree, k) = last BY DEF LastOnWay
<1>3. ASSUME NEW f
      PROVE  GoesDown(tree, d, f) <=>
               f = [n \in Nodes |->
                    LET next == IF k > Key[n] THEN tree.right[n] ELSE tree.left[n]
                    IN  IF next = None THEN n ELSE f[next]]
  <2>1. \A n \in Nodes : tree[d[n]][n] = IF k > Key[n] THEN tree.right[n] ELSE tree.left[n]
    OBVIOUS
  <2> HIDE DEF d
  <2> QED BY <2>1 DEF GoesDown
<1> HIDE DEF d
<1>4. \E f : GoesDown(tree, d, f) BY <1>1, WaysDown
<1>5. GoesDown(tree, d, way) BY <1>3, <1>4
<1> HIDE DEF way
<1>6. tree.root \in U[tree.root] /\ U[tree.root] \subseteq Nodes BY <1>1, Parents
<1>7. EndOfWay(tree, U, d, tree.root, last) BY <1>1, <1>5, <1>6, WayDown
<1> HIDE DEF last
<1>8. last \in U[tree.root] /\ last \in Nodes /\ tree[d[last]][last] = None
  BY <1>6, <1>7 DEF EndOfWay
<1>9. \A n \in U[tree.root] : Key[n] \in Int /\ Key[n] # k BY <1>1, <1>6
<1>10. ASSUME NEW n \in Nodes, NEW other \in Sides, last \in U[tree[other][n]]
       PROVE  IF other = "left" THEN k < Key[n] ELSE k > Key[n]
  <2>1. n \in U[tree.root]
    <3>1. tree[other][n] # None BY <1>10 DEF Shaped, Spans
    <3> QED BY <3>1, <1>10 DEF Shaped, Blank, Sides
  <2>2. other = d[n] BY <1>7, <1>10, <2>1 DEF EndOfWay
  <2> QED BY <1>9, <1>10, <2>1, <2>2 DEF d
<1>11. d[last] = IF k > Key[last] THEN "right" ELSE "left" BY <1>8 DEF d
<1>12. d[last] \in Sides BY <1>1, <1>8
<1>13. IF d[last] = "left" THEN k < Key[last] ELSE k > Key[last] BY <1>8, <1>9, <1>11
<1>14. Hanging(tree, U, k, last, d[last]) BY <1>8, <1>10, <1>12, <1>13 DEF Hanging
<1> QED BY <1>2, <1>11, <1>14

-----------------------------------------------------------------------------
(***************************************************************************)
(* Insertion.                                                              *)
(***************************************************************************)

\* s is the tree with a red node hung under last.
Hung(tree, node, last, side, s) ==
  /\ s \in Trees /\ s.root = tree.root
  /\ \A m \in Nodes : s.parent[m] = IF m = node THEN last ELSE tree.parent[m]
  /\ \A other \in Sides, m \in Nodes :
       s[other][m] = IF other = side /\ m = last THEN node ELSE tree[other][m]
  /\ \A m \in Nodes : s.red[m] = (m = node \/ tree.red[m])

LEMMA Hangs ==
  ASSUME NEW tree \in Trees, NEW node \in Nodes, NEW last \in Nodes, NEW side \in Sides
  PROVE  Hung(tree, node, last, side,
              [tree EXCEPT ![side][last] = node, !.parent[node] = last, !.red[node] = TRUE])
<1> DEFINE a == SetChild(tree, side, last, node)
           b == [a EXCEPT !.parent[node] = last]
           c == [b EXCEPT !.red[node] = TRUE]
           s == [tree EXCEPT ![side][last] = node, !.parent[node] = last, !.red[node] = TRUE]
<1>1. s = c BY DEF SetChild
<1>2. node \in Pointers /\ last \in Pointers BY DEF Pointers
<1>3. ChildSet(tree, side, last, node, a) BY <1>2, SetsChild
<1> HIDE DEF a, s
<1>4. a \in Trees BY <1>3 DEF ChildSet
<1>5. /\ b \in Trees /\ b.root = a.root /\ b.red = a.red
      /\ b.parent = [a.parent EXCEPT ![node] = last]
      /\ \A other \in Sides : b[other] = a[other]
  BY <1>2, <1>4 DEF Trees, Sides
<1> HIDE DEF b
<1>6. /\ c \in Trees /\ c.root = b.root /\ c.parent = b.parent
      /\ c.red = [b.red EXCEPT ![node] = TRUE]
      /\ \A other \in Sides : c[other] = b[other]
  BY <1>5 DEF Trees, Sides
<1> HIDE DEF c
<1>7. /\ a.parent \in [Nodes -> Pointers] /\ tree.red \in [Nodes -> BOOLEAN]
      /\ b.red = tree.red /\ a.parent = tree.parent /\ c.root = tree.root
  BY <1>3, <1>4, <1>5, <1>6 DEF Trees, ChildSet
<1>8. \A m \in Nodes : c.parent[m] = IF m = node THEN last ELSE tree.parent[m]
  BY <1>5, <1>6, <1>7
<1>9. \A other \in Sides, m \in Nodes :
        c[other][m] = IF other = side /\ m = last THEN node ELSE tree[other][m]
  BY <1>3, <1>5, <1>6 DEF ChildSet
<1>10. \A m \in Nodes : c.red[m] = (m = node \/ tree.red[m])
  <2> TAKE m \in Nodes
  <2>1. c.red[m] = IF m = node THEN TRUE ELSE tree.red[m] BY <1>6, <1>7
  <2>2. tree.red[m] \in BOOLEAN BY <1>7
  <2> QED BY <2>1, <2>2
<1>11. Hung(tree, node, last, side, c) BY <1>6, <1>7, <1>8, <1>9, <1>10 DEF Hung
<1> QED BY <1>1, <1>11 DEF s

\* What is under the nodes then.
UnderHung(U, node, last) ==
  [m \in Pointers |-> IF last \in U[m] THEN U[m] \cup {node} ELSE U[m]]

\* What is not in the tree is under no node of it.
LEMMA Outside ==
  ASSUME NEW key \in [Nodes -> Int], NEW tree, NEW U, Shaped(tree, U, key),
         NEW node \in Nodes, node \notin U[tree.root]
  PROVE  /\ U[node] = {node} /\ Blank(tree, node)
         /\ \A n \in Nodes : node \in U[n] => n = node
         /\ \A n \in Nodes, side \in Sides : tree[side][n] # node
         /\ \A n \in Nodes : tree.parent[n] # node
<1>1. Blank(tree, node) /\ tree \in Trees /\ Spans(tree, U) /\ Paired(tree) BY DEF Shaped
<1>2. U[node] = {node} BY <1>1 DEF Blank, Spans
<1>3. ASSUME NEW n \in Nodes, node \in U[n], n # node PROVE FALSE
  <2>1. tree.parent[node] \in U[n] /\ U[n] \subseteq Nodes BY <1>3, UnderUnder, UnderChild DEF Sides
  <2> QED BY <1>1, <2>1, RbTreeAssumption DEF Blank
<1>4. ASSUME NEW n \in Nodes, NEW side \in Sides, tree[side][n] = node PROVE FALSE
  <2>1. tree.parent[node] = n BY <1>1, <1>4, RbTreeAssumption DEF Paired
  <2> QED BY <1>1, <2>1, RbTreeAssumption DEF Blank
<1>5. ASSUME NEW n \in Nodes, tree.parent[n] = node PROVE FALSE
  <2>1. PICK side \in Sides : tree[side][node] = n BY <1>1, <1>5, RbTreeAssumption DEF Paired
  <2>2. tree[side][node] = None BY <1>1 DEF Blank, Sides
  <2> QED BY <2>1, <2>2, RbTreeAssumption
<1> QED BY <1>1, <1>2, <1>3, <1>4, <1>5

LEMMA HungIsShaped ==
  ASSUME NEW tree, NEW U, Shaped(tree, U, Key), NEW node \in Nodes, node \notin U[tree.root],
         NEW last, NEW side, Hanging(tree, U, Key[node], last, side),
         NEW s, Hung(tree, node, last, side, s)
  PROVE  LET V == UnderHung(U, node, last)
         IN  Shaped(s, V, Key) /\ V[s.root] = U[tree.root] \cup {node}
<1> DEFINE V == UnderHung(U, node, last)
<1>1. /\ Key \in [Nodes -> Int] /\ tree \in Trees /\ Spans(tree, U) /\ Sorted(tree, U, Key)
      /\ Paired(tree) /\ None \notin Nodes /\ IsFiniteSet(Nodes)
  BY RbTreeAssumption DEF Shaped
<1>2. U[node] = {node} /\ Blank(tree, node) BY <1>1, Outside
<1>3. /\ \A n \in Nodes : node \in U[n] => n = node
      /\ \A n \in Nodes, other \in Sides : tree[other][n] # node
      /\ \A n \in Nodes : tree.parent[n] # node
  BY <1>1, Outside
<1>4. /\ last \in Nodes /\ last \in U[tree.root] /\ side \in Sides /\ tree[side][last] = None
      /\ last # node
  BY <1>1, Parents DEF Hanging
<1>5. /\ s \in Trees /\ s.root = tree.root
      /\ \A m \in Nodes : s.parent[m] = IF m = node THEN last ELSE tree.parent[m]
      /\ \A other \in Sides, m \in Nodes :
           s[other][m] = IF other = side /\ m = last THEN node ELSE tree[other][m]
      /\ \A m \in Nodes : s.red[m] = (m = node \/ tree.red[m])
  BY DEF Hung
<1>6. /\ \A m \in Pointers : V[m] = IF last \in U[m] THEN U[m] \cup {node} ELSE U[m]
      /\ U \in [Pointers -> SUBSET Nodes] /\ U[None] = {} /\ tree.root \in Pointers
      /\ V \in [Pointers -> SUBSET Nodes]
  <2>1. U \in [Pointers -> SUBSET Nodes] /\ U[None] = {} BY <1>1 DEF Spans
  <2>2. \A m \in Pointers : (IF last \in U[m] THEN U[m] \cup {node} ELSE U[m]) \in SUBSET Nodes
    BY <2>1
  <2> QED BY <1>1, <2>1, <2>2, Fields DEF UnderHung
<1> HIDE DEF V
<1>7. V[s.root] = U[tree.root] \cup {node} BY <1>4, <1>5, <1>6
<1>8. V[node] = {node} BY <1>2, <1>4, <1>6 DEF Pointers
<1>9. V[None] = {} BY <1>6 DEF Pointers
<1>10. ASSUME NEW n \in Nodes, NEW other \in Sides
       PROVE  /\ tree[other][n] \in Pointers
              /\ V[s[other][n]] = IF last \in U[tree[other][n]] \/ (n = last /\ other = side)
                                  THEN U[tree[other][n]] \cup {node} ELSE U[tree[other][n]]
  <2>1. tree[other][n] \in Pointers BY <1>1, Child
  <2>2. CASE n = last /\ other = side
    <3>1. s[other][n] = node /\ U[tree[other][n]] = {} BY <1>4, <1>5, <1>6, <2>2
    <3> QED BY <1>8, <2>1, <2>2, <3>1
  <2>3. CASE ~(n = last /\ other = side)
    <3> DEFINE c == tree[other][n]
    <3>1. s[other][n] = c /\ c \in Pointers BY <1>5, <2>1, <2>3
    <3> HIDE DEF c
    <3>2. V[c] = IF last \in U[c] THEN U[c] \cup {node} ELSE U[c] BY <1>6, <3>1
    <3>3. V[s[other][n]] = IF last \in U[c] \/ (n = last /\ other = side)
                           THEN U[c] \cup {node} ELSE U[c]
      BY <2>3, <3>1, <3>2
    <3> QED BY <2>1, <3>3 DEF c
  <2> QED BY <2>2, <2>3
<1>11. Spans(s, V)
  <2>1. ASSUME NEW n \in Nodes PROVE V[n] = {n} \cup V[s["left"][n]] \cup V[s["right"][n]]
    <3>1. U[n] = {n} \cup U[tree["left"][n]] \cup U[tree["right"][n]] BY <1>1 DEF Spans
    <3>2. "left" \in Sides /\ "right" \in Sides BY DEF Sides
    <3>3. side = "left" \/ side = "right" BY <1>4 DEF Sides
    <3>4. V[n] = IF last \in U[n] THEN U[n] \cup {node} ELSE U[n] BY <1>6 DEF Pointers
    <3>5. /\ V[s["left"][n]] = IF last \in U[tree["left"][n]] \/ (n = last /\ "left" = side)
                               THEN U[tree["left"][n]] \cup {node} ELSE U[tree["left"][n]]
          /\ V[s["right"][n]] = IF last \in U[tree["right"][n]] \/ (n = last /\ "right" = side)
                                THEN U[tree["right"][n]] \cup {node} ELSE U[tree["right"][n]]
      BY <1>10, <3>2
    <3> QED BY <3>1, <3>3, <3>4, <3>5
  <2> QED BY <1>6, <1>9, <2>1 DEF Spans
<1>12. Sorted(s, V, Key)
  <2> SUFFICES ASSUME NEW n \in Nodes, NEW other \in Sides, NEW m \in V[s[other][n]]
               PROVE  OnSide(Key, other, m, n)
    BY DEF Sorted
  <2>0. \/ m \in U[tree[other][n]]
        \/ m = node /\ (last \in U[tree[other][n]] \/ (n = last /\ other = side))
    <3>1. m \in IF last \in U[tree[other][n]] \/ (n = last /\ other = side)
                THEN U[tree[other][n]] \cup {node} ELSE U[tree[other][n]]
      BY <1>10
    <3> QED BY <3>1
  <2>1. CASE m \in U[tree[other][n]] BY <1>1, <2>1 DEF Sorted
  <2>2. CASE m = node /\ last \in U[tree[other][n]]
    BY <2>2 DEF Hanging, OnSide
  <2>3. CASE m = node /\ n = last /\ other = side BY <2>3 DEF Hanging, OnSide
  <2> QED BY <2>0, <2>1, <2>2, <2>3
<1>13. Paired(s)
  <2>1. ASSUME NEW n \in Nodes, NEW other \in Sides, s[other][n] # None
        PROVE  s.parent[s[other][n]] = n
    <3>1. CASE n = last /\ other = side BY <1>5, <3>1
    <3>2. CASE ~(n = last /\ other = side)
      <4>1. s[other][n] = tree[other][n] /\ tree[other][n] \in Nodes
        BY <1>1, <1>5, <2>1, <3>2, Child
      <4> QED BY <1>1, <1>3, <1>5, <2>1, <4>1 DEF Paired
    <3> QED BY <3>1, <3>2
  <2>2. ASSUME NEW n \in Nodes, s.parent[n] # None
        PROVE  \E other \in Sides : s[other][s.parent[n]] = n
    <3>1. CASE n = node
      <4>1. s.parent[n] = last /\ s[side][last] = n BY <1>4, <1>5, <3>1
      <4> QED BY <1>4, <4>1
    <3>2. CASE n # node
      <4>1. s.parent[n] = tree.parent[n] /\ tree.parent[n] \in Nodes
        BY <1>1, <1>5, <2>2, <3>2, Fields DEF Pointers
      <4>2. PICK other \in Sides : tree[other][tree.parent[n]] = n
        BY <1>1, <2>2, <4>1 DEF Paired
      <4>3. ~(tree.parent[n] = last /\ other = side) BY <1>1, <1>4, <4>2
      <4> QED BY <1>5, <4>1, <4>2, <4>3
    <3> QED BY <3>1, <3>2
  <2>3. tree.root # node /\ (tree.root # None => tree.root \in Nodes)
    BY <1>1, <1>4, Parents
  <2>4. s.root # None => s.parent[s.root] = None BY <1>1, <1>5, <2>3 DEF Paired
  <2> QED BY <2>1, <2>2, <2>4 DEF Paired
<1>14. ASSUME NEW n \in Nodes, n \notin V[s.root] PROVE Blank(s, n)
  <2>1. n \notin U[tree.root] /\ n # node /\ n # last BY <1>4, <1>7, <1>14
  <2>2. Blank(tree, n) BY <2>1 DEF Shaped
  <2>3. s["left"][n] = tree["left"][n] /\ s["right"][n] = tree["right"][n]
    BY <1>5, <2>1 DEF Sides
  <2> QED BY <1>5, <2>1, <2>2, <2>3 DEF Blank
<1> QED BY <1>5, <1>7, <1>11, <1>12, <1>13, <1>14 DEF Shaped, V

\* A node, its parent and its sibling.
LEMMA Family ==
  ASSUME NEW key \in [Nodes -> Int], NEW tree, NEW U, Shaped(tree, U, key),
         NEW n \in Nodes, tree.parent[n] # None
  PROVE  LET parent == tree.parent[n]
             side == SideOf(tree, n)
             sibling == Sibling(tree, n)
         IN  /\ parent \in Nodes /\ side \in Sides /\ Other(side) \in Sides
             /\ tree[side][parent] = n /\ tree[Other(side)][parent] = sibling
             /\ sibling \in Pointers /\ sibling # n /\ sibling # parent /\ n # parent
             /\ sibling # None => /\ sibling \in Nodes /\ tree.parent[sibling] = parent
                                  /\ SideOf(tree, sibling) = Other(side)
                                  /\ Sibling(tree, sibling) = n
                                  /\ U[sibling] \cap U[n] = {}
             /\ n \in U[tree.root] /\ parent \in U[tree.root]
             /\ \A m \in Nodes, other \in Sides :
                  tree[other][m] = n => m = parent /\ other = side
<1> DEFINE parent == tree.parent[n]
           side == SideOf(tree, n)
           sibling == Sibling(tree, n)
<1>1. tree \in Trees /\ Paired(tree) /\ None \notin Nodes BY RbTreeAssumption DEF Shaped
<1>2. /\ parent \in Nodes /\ n # parent /\ n \in U[tree.root] /\ parent \in U[tree.root]
  BY Parents
<1>3. side \in Sides BY DEF SideOf, Sides
<1>4. Other(side) \in Sides /\ side # Other(side) /\ Other(Other(side)) = side BY <1>3, Order
<1>5. PICK s \in Sides : tree[s][parent] = n BY <1>1 DEF Paired
<1>6. n \in U[n] /\ U[tree[s][parent]] \cap U[tree[Other(s)][parent]] = {}
  <2>1. n \in U[n] BY <1>5, UnderChild
  <2>2. parent \in Nodes /\ s \in Sides BY <1>2, <1>5
  <2> HIDE DEF parent
  <2> QED BY <2>1, <2>2, UnderChild
<1>7. tree[Other(s)][parent] # n
  <2>1. U[n] \cap U[tree[Other(s)][parent]] = {} BY <1>5, <1>6
  <2> QED BY <1>6, <2>1
<1>8. side = s
  <2>1. CASE s = "left" BY <1>5, <2>1 DEF SideOf
  <2>2. CASE s = "right" BY <1>7, <2>2 DEF SideOf, Other
  <2> QED BY <2>1, <2>2 DEF Sides
<1>9. tree[side][parent] = n /\ tree[Other(side)][parent] = sibling BY <1>5, <1>8 DEF Sibling
<1> HIDE DEF parent, side, sibling
<1>10. sibling \in Pointers /\ (sibling # None => sibling \in Nodes)
  BY <1>1, <1>2, <1>4, <1>9, Child
<1>11. U[n] \cap U[sibling] = {} /\ sibling # n BY <1>6, <1>7, <1>8, <1>9
<1>12. sibling # None => tree.parent[sibling] = parent
  BY <1>1, <1>2, <1>4, <1>9 DEF Paired
<1>13. sibling # parent
  <2> SUFFICES ASSUME sibling = parent PROVE FALSE OBVIOUS
  <2>1. parent \notin U[tree[Other(side)][parent]] /\ parent \in U[parent]
    BY <1>2, <1>4, UnderChild
  <2> QED BY <1>9, <2>1
<1>14. sibling # None => SideOf(tree, sibling) = Other(side) /\ Sibling(tree, sibling) = n
  <2> SUFFICES ASSUME sibling # None
               PROVE  SideOf(tree, sibling) = Other(side) /\ Sibling(tree, sibling) = n
    OBVIOUS
  <2>1. tree.parent[sibling] = parent BY <1>12
  <2>2. CASE side = "left"
    <3>1. tree.left[parent] = n /\ tree.right[parent] = sibling BY <1>9, <2>2 DEF Other
    <3>2. SideOf(tree, sibling) = "right" BY <1>11, <2>1, <3>1 DEF SideOf
    <3> QED BY <2>1, <2>2, <3>1, <3>2 DEF Sibling, Other
  <2>3. CASE side = "right"
    <3>1. tree.right[parent] = n /\ tree.left[parent] = sibling BY <1>9, <2>3 DEF Other
    <3>2. SideOf(tree, sibling) = "left" BY <2>1, <3>1 DEF SideOf
    <3> QED BY <2>1, <2>3, <3>1, <3>2 DEF Sibling, Other
  <2> QED BY <1>3, <2>2, <2>3 DEF Sides
<1>15. ASSUME NEW m \in Nodes, NEW other \in Sides, tree[other][m] = n
       PROVE  m = parent /\ other = side
  <2>1. m = parent BY <1>1, <1>15 DEF Paired, parent
  <2>2. other # Other(side) BY <1>9, <1>11, <1>15, <2>1
  <2> QED BY <1>3, <2>1, <2>2, Order
<1> QED BY <1>2, <1>3, <1>4, <1>9, <1>10, <1>11, <1>12, <1>13, <1>14, <1>15
        DEF parent, side, sibling

\* The colours are right but for a red node under a red parent.
Clashing(tree, U, key, B, node) ==
  /\ Shaped(tree, U, key) /\ node \in U[tree.root] /\ Heights(B)
  /\ \A n \in Nodes : HeightAt(tree, B, n) /\ (n # node => RedAt(tree, n))
  /\ ~Red(tree, tree.root)
  /\ Red(tree, tree.parent[node]) => tree.red[node]

\* Who is who above such a node.
LEMMA Clash ==
  ASSUME NEW key \in [Nodes -> Int], NEW tree, NEW U, NEW B, NEW node,
         Clashing(tree, U, key, B, node), Red(tree, tree.parent[node])
  PROVE  LET parent == tree.parent[node]
             grand_parent == tree.parent[parent]
         IN  /\ node \in Nodes /\ parent \in Nodes /\ grand_parent \in Nodes
             /\ grand_parent # node /\ grand_parent # parent /\ parent # node
             /\ tree.red[node] /\ tree.red[parent] /\ ~tree.red[grand_parent]
             /\ Smaller(U[node], U[grand_parent]) /\ Smaller(U[parent], U[grand_parent])
<1> DEFINE parent == tree.parent[node]
           grand_parent == tree.parent[parent]
<1>1. Shaped(tree, U, key) /\ tree \in Trees /\ None \notin Nodes
  BY RbTreeAssumption DEF Clashing, Shaped
<1>2. node \in Nodes BY <1>1, Parents DEF Clashing
<1>3. parent # None /\ tree.red[parent] /\ tree.red[node] BY DEF Red, Clashing
<1>4. parent \in Nodes /\ Smaller(U[node], U[parent]) /\ parent # node /\ parent \in U[tree.root]
  BY <1>1, <1>2, <1>3, Parents
<1> HIDE DEF parent
<1>5. parent # tree.root BY <1>3, <1>4 DEF Clashing, Red
<1>6. grand_parent # None BY <1>1, <1>4, <1>5, Parents
<1>7. /\ grand_parent \in Nodes /\ Smaller(U[parent], U[grand_parent])
      /\ grand_parent # parent
  BY <1>1, <1>4, <1>6, Parents
<1>8. RedAt(tree, parent) BY <1>4 DEF Clashing
<1>9. ~tree.red[grand_parent] BY <1>3, <1>6, <1>8 DEF RedAt, Red
<1>10. Smaller(U[node], U[grand_parent]) BY <1>4, <1>7 DEF Smaller
<1>11. grand_parent # node
  <2> SUFFICES ASSUME grand_parent = node PROVE FALSE OBVIOUS
  <2> QED BY <1>10 DEF Smaller
<1> QED BY <1>2, <1>3, <1>4, <1>7, <1>9, <1>10, <1>11 DEF parent

\* One turn of Recoloured.
ColoursMoved(tree, node, s) ==
  LET parent == tree.parent[node]
      grand_parent == tree.parent[parent]
  IN  ColoursSet(tree, IF tree.parent[grand_parent] = None THEN {} ELSE {grand_parent},
                 {parent, Sibling(tree, parent)}, s)

LEMMA RecolourTurn ==
  ASSUME NEW key \in [Nodes -> Int], NEW tree, NEW U, NEW B, NEW node,
         Clashing(tree, U, key, B, node), Red(tree, tree.parent[node]),
         Red(tree, Sibling(tree, tree.parent[node])),
         NEW s, ColoursMoved(tree, node, s)
  PROVE  /\ \E C : Clashing(s, U, key, C, tree.parent[tree.parent[node]])
         /\ s.root = tree.root
<1> DEFINE parent == tree.parent[node]
           g == tree.parent[parent]
           uncle == Sibling(tree, parent)
           C == [m \in Pointers |->
                   IF m = parent \/ m = uncle \/ (m = g /\ tree.parent[g] = None) THEN B[m] + 1
                   ELSE B[m]]
<1>1. /\ node \in Nodes /\ parent \in Nodes /\ g \in Nodes /\ g # node /\ g # parent
      /\ parent # node /\ tree.red[node] /\ tree.red[parent] /\ ~tree.red[g]
  BY Clash
<1>2. /\ Shaped(tree, U, key) /\ tree \in Trees /\ Paired(tree) /\ None \notin Nodes
      /\ B \in [Pointers -> Nat] /\ B[None] = 0
      /\ \A n \in Nodes : HeightAt(tree, B, n)
      /\ \A n \in Nodes : n # node => RedAt(tree, n)
      /\ ~Red(tree, tree.root)
  BY RbTreeAssumption DEF Clashing, Shaped, Heights
<1>3. uncle # None /\ tree.red[uncle] BY DEF Red
<1>4. g # None BY <1>1, <1>2
<1> DEFINE side == SideOf(tree, parent)
<1>5. /\ side \in Sides /\ Other(side) \in Sides /\ tree[side][g] = parent
      /\ tree[Other(side)][g] = uncle /\ uncle \in Nodes /\ uncle # parent /\ uncle # g
      /\ tree.parent[uncle] = g /\ g \in U[tree.root]
  BY <1>1, <1>2, <1>3, <1>4, Family
<1>6. /\ s \in Trees /\ s.root = tree.root /\ s.left = tree.left /\ s.right = tree.right
      /\ s.parent = tree.parent /\ SamePointers(tree, s)
      /\ \A n \in Nodes : s.red[n] = \/ n \in (IF tree.parent[g] = None THEN {} ELSE {g})
                                     \/ n \notin {parent, uncle} /\ tree.red[n]
  BY DEF ColoursMoved, ColoursSet, SamePointers
<1>7. uncle # node
  <2> SUFFICES ASSUME uncle = node PROVE FALSE OBVIOUS
  <2> QED BY <1>1, <1>5
<1>8. \A m \in Pointers : C[m] = IF m = parent \/ m = uncle \/ (m = g /\ tree.parent[g] = None)
                                 THEN B[m] + 1 ELSE B[m]
  OBVIOUS
<1>9. C \in [Pointers -> Nat]
  <2>1. \A m \in Pointers : B[m] \in Nat BY <1>2
  <2> QED BY <2>1
<1>10. C[None] = 0 BY <1>1, <1>2, <1>3, <1>8 DEF Pointers
<1> HIDE DEF C
<1>11. tree.parent[parent] = g OBVIOUS
<1>12. tree.parent[node] = parent OBVIOUS
<1> HIDE DEF parent, g, uncle, side
<1>13. ASSUME NEW n \in Nodes PROVE HeightAt(s, C, n)
  <2> SUFFICES ASSUME NEW other \in Sides
               PROVE  C[n] = C[s[other][n]] + Weight(s, n)
    BY DEF HeightAt
  <2> DEFINE c == tree[other][n]
  <2>1. s[other][n] = c /\ c \in Pointers /\ (c # None => c \in Nodes /\ tree.parent[c] = n)
    BY <1>2, <1>6, Child DEF Sides, Paired
  <2>2. B[n] = B[c] + Weight(tree, n) /\ B[n] \in Nat /\ B[c] \in Nat /\ n \in Pointers
    BY <1>2, <2>1 DEF HeightAt, Pointers
  <2> HIDE DEF c
  <2>3. CASE n = parent \/ n = uncle
    <3>1. (c # parent /\ c # uncle /\ c # g) \/ c = None
      <4> SUFFICES ASSUME c # None PROVE c # parent /\ c # uncle /\ c # g OBVIOUS
      <4>1. c # parent /\ c # uncle BY <1>1, <1>5, <1>11, <2>1, <2>3
      <4>2. c # g
        <5> SUFFICES ASSUME c = g PROVE FALSE OBVIOUS
        <5>1. tree.parent[g] = n /\ tree.parent[n] = g BY <1>5, <1>11, <2>1, <2>3
        <5>2. Smaller(U[n], U[g]) /\ Smaller(U[g], U[n]) BY <1>1, <1>2, <1>4, <5>1, Parents
        <5> QED BY <5>2 DEF Smaller
      <4> QED BY <4>1, <4>2
    <3>2. C[c] = B[c] BY <1>2, <1>8, <1>10, <2>1, <3>1
    <3>3. C[n] = B[n] + 1 BY <1>8, <2>2, <2>3
    <3>4. tree.red[n] /\ ~s.red[n] BY <1>1, <1>3, <1>5, <1>6, <2>3
    <3> QED BY <2>1, <2>2, <3>2, <3>3, <3>4 DEF Weight
  <2>4. CASE n = g
    <3>1. c = parent \/ c = uncle
      <4>1. other = side \/ other = Other(side) BY <1>5, Order
      <4> QED BY <1>5, <2>4, <4>1 DEF c
    <3>2. C[c] = B[c] + 1 BY <1>8, <2>1, <3>1
    <3>3. CASE tree.parent[g] = None
      <4>1. C[n] = B[n] + 1 /\ ~s.red[n] BY <1>1, <1>5, <1>6, <1>8, <2>2, <2>4, <3>3
      <4> QED BY <1>1, <2>1, <2>2, <2>4, <3>2, <4>1 DEF Weight
    <3>4. CASE tree.parent[g] # None
      <4>1. C[n] = B[n] /\ s.red[n] BY <1>1, <1>5, <1>6, <1>8, <2>2, <2>4, <3>4
      <4> QED BY <1>1, <2>1, <2>2, <2>4, <3>2, <4>1 DEF Weight
    <3> QED BY <3>3, <3>4
  <2>5. CASE n # parent /\ n # uncle /\ n # g
    <3>1. C[n] = B[n] /\ (s.red[n] <=> tree.red[n])
      <4>1. C[n] = B[n] BY <1>8, <2>2, <2>5
      <4>2. n \notin (IF tree.parent[g] = None THEN {} ELSE {g}) /\ n \notin {parent, uncle}
        BY <2>5
      <4> QED BY <1>6, <4>1, <4>2
    <3>2. C[c] = B[c]
      <4>1. CASE c = None BY <1>2, <1>10, <4>1
      <4>2. CASE c # None
        <5>1. c # parent /\ c # uncle BY <1>5, <1>11, <2>1, <2>5, <4>2
        <5>2. c = g => tree.parent[g] # None BY <1>2, <2>1, <4>2
        <5> QED BY <1>8, <2>1, <5>1, <5>2
      <4> QED BY <4>1, <4>2
    <3> QED BY <2>1, <2>2, <3>1, <3>2 DEF Weight
  <2> QED BY <2>3, <2>4, <2>5
<1>14. ASSUME NEW n \in Nodes, n # g PROVE RedAt(s, n)
  <2> SUFFICES ASSUME s.red[n], s.parent[n] # None PROVE ~s.red[s.parent[n]]
    BY DEF RedAt, Red
  <2>1. n # parent /\ n # uncle /\ tree.red[n] BY <1>6, <1>14
  <2>2. s.parent[n] = tree.parent[n] /\ tree.parent[n] \in Nodes
    BY <1>2, <1>6, Fields DEF Pointers
  <2>3. tree.parent[n] # g
    <3> SUFFICES ASSUME tree.parent[n] = g PROVE FALSE OBVIOUS
    <3>1. PICK other \in Sides : tree[other][g] = n BY <1>2, <1>4 DEF Paired
    <3>2. other = side \/ other = Other(side) BY <1>5, Order
    <3> QED BY <1>5, <2>1, <3>1, <3>2
  <2>4. CASE tree.parent[n] = parent \/ tree.parent[n] = uncle
    BY <1>1, <1>5, <1>6, <2>2, <2>4
  <2>5. CASE tree.parent[n] # parent /\ tree.parent[n] # uncle
    <3>1. n # node BY <1>12, <2>5
    <3>2. ~tree.red[tree.parent[n]] BY <1>2, <2>1, <2>2, <3>1 DEF RedAt, Red
    <3> QED BY <1>6, <2>2, <2>3, <3>2
  <2> QED BY <2>4, <2>5
<1>15. ~Red(s, s.root)
  <2> SUFFICES ASSUME s.root # None PROVE ~s.red[s.root] BY DEF Red
  <2>1. s.root = tree.root /\ tree.root \in Nodes /\ ~tree.red[tree.root]
    BY <1>2, <1>6, Fields DEF Red, Pointers
  <2>2. tree.root # None => tree.parent[tree.root] = None BY <1>2 DEF Paired
  <2> QED BY <1>2, <1>6, <2>1, <2>2
<1>16. Shaped(s, U, key)
  <2>1. ASSUME NEW n \in Nodes, n \notin U[tree.root] PROVE ~s.red[n]
    <3>1. ~tree.red[n] BY <1>2, <2>1 DEF Shaped, Blank
    <3> QED BY <1>5, <1>6, <2>1, <3>1
  <2> QED BY <1>2, <1>6, <2>1, SameShape
<1>17. Red(s, s.parent[g]) => s.red[g] BY <1>1, <1>6 DEF Red
<1>18. Clashing(s, U, key, C, g)
  BY <1>5, <1>6, <1>9, <1>10, <1>13, <1>14, <1>15, <1>16, <1>17 DEF Clashing, Heights
<1> QED BY <1>6, <1>18 DEF g, parent

\* The loop ends, where a parent is not red or its sibling is black.
LEMMA RecolouredEnds ==
  ASSUME NEW key \in [Nodes -> Int], NEW tree, NEW U, NEW B, NEW node,
         Clashing(tree, U, key, B, node)
  PROVE  LET end == Recoloured([tree |-> tree, node |-> node])
         IN  /\ \E C : Clashing(end.tree, U, key, C, end.node)
             /\ end.tree.root = tree.root
             /\ Red(end.tree, end.tree.parent[end.node]) =>
                  ~Red(end.tree, Sibling(end.tree, end.tree.parent[end.node]))
<1> DEFINE GoesOn(x) == LET parent == x.tree.parent[x.node]
                        IN  Red(x.tree, parent) /\ Red(x.tree, Sibling(x.tree, parent))
           Turn(x) == LET parent == x.tree.parent[x.node]
                          grand_parent == x.tree.parent[parent]
                          root == x.tree.parent[grand_parent] = None
                      IN  [tree |-> SetColours(x.tree, IF root THEN {} ELSE {grand_parent},
                                               {parent, Sibling(x.tree, parent)}),
                           node |-> grand_parent]
           last == Cardinality(Nodes)
           start == [tree |-> tree, node |-> node]
           after == CHOOSE f : f = [i \in 0 .. last |->
                      IF i = 0 THEN start
                      ELSE LET x == f[i - 1] IN IF GoesOn(x) THEN Turn(x) ELSE x]
           X == {x \in [tree : Trees, node : Nodes] :
                   x.tree.root = tree.root /\ \E C : Clashing(x.tree, U, key, C, x.node)}
           Go == {x \in X : GoesOn(x)}
           T == [x \in X |-> Turn(x)]
           V == [x \in X |-> U[x.node]]
<1>1. Recoloured(start) = after[last] BY DEF Recoloured, Loop
<1>2. start \in X
  <2>1. tree \in Trees /\ node \in Nodes BY Parents DEF Clashing, Shaped
  <2> QED BY <2>1
<1>3. ASSUME NEW x \in X, GoesOn(x) PROVE Turn(x) \in X /\ Smaller(U[x.node], U[Turn(x).node])
  <2> DEFINE t == x.tree
             parent == t.parent[x.node]
             g == t.parent[parent]
             s == SetColours(t, IF t.parent[g] = None THEN {} ELSE {g},
                             {parent, Sibling(t, parent)})
  <2>1. PICK C : Clashing(t, U, key, C, x.node) BY <1>3
  <2>2. Red(t, t.parent[x.node]) /\ Red(t, Sibling(t, t.parent[x.node])) /\ t \in Trees
        /\ t.root = tree.root
    BY <1>3
  <2>3. g \in Nodes /\ Smaller(U[x.node], U[g])
    <3> HIDE DEF t
    <3> QED BY <2>1, <2>2, Clash
  <2>4. Turn(x) = [tree |-> s, node |-> g] OBVIOUS
  <2> HIDE DEF t, Turn, X
  <2>5. ColoursSet(t, IF t.parent[g] = None THEN {} ELSE {g}, {parent, Sibling(t, parent)}, s)
    BY <2>2, SetsColours
  <2>9. ColoursMoved(t, x.node, s) BY <2>5 DEF ColoursMoved
  <2> HIDE DEF s
  <2>6. (\E D : Clashing(s, U, key, D, g)) /\ s.root = t.root
    BY <2>1, <2>2, <2>9, RecolourTurn
  <2>7. s \in Trees BY <2>5 DEF ColoursSet, SamePointers
  <2> HIDE DEF g
  <2>8. Turn(x).tree = s /\ Turn(x).node = g /\ Turn(x) \in [tree : Trees, node : Nodes]
    BY <2>3, <2>4, <2>7
  <2> QED BY <2>2, <2>3, <2>6, <2>8 DEF X
<1>4. Go \in SUBSET X /\ \A x \in Go : T[x] \in X /\ T[x] = Turn(x) BY <1>3
<1>5. V \in [X -> SUBSET Nodes]
  <2>1. U \in [Pointers -> SUBSET Nodes] BY DEF Clashing, Shaped, Spans
  <2>2. \A x \in X : x.node \in Pointers BY DEF Pointers
  <2> QED BY <2>1, <2>2
<1>6. \A x \in Go : T[x] \in X /\ Smaller(V[x], V[T[x]])
  <2> TAKE x \in Go
  <2>1. x \in X /\ GoesOn(x) /\ T[x] \in X /\ T[x] = Turn(x) BY <1>4
  <2>2. Smaller(U[x.node], U[Turn(x).node]) BY <1>3, <2>1
  <2>3. V[x] = U[x.node] /\ V[T[x]] = U[Turn(x).node] BY <2>1
  <2> QED BY <2>1, <2>2, <2>3
<1> HIDE DEF start
<1>7. \E f : f = [i \in 0 .. last |-> IF i = 0 THEN start
                                     ELSE LET x == f[i - 1] IN IF GoesOn(x) THEN Turn(x) ELSE x]
  <2> HIDE DEF X, Go, T
  <2>0. PICK f \in [0 .. last -> X] : Runs(f, start, Go, T) BY <1>2, <1>4, LoopRuns
  <2>1. f = [i \in 0 .. last |-> IF i = 0 THEN start
                                 ELSE IF f[i - 1] \in Go THEN T[f[i - 1]] ELSE f[i - 1]]
    BY <2>0 DEF Runs
  <2>2. ASSUME NEW x \in X
        PROVE  (IF x \in Go THEN T[x] ELSE x) = (IF GoesOn(x) THEN Turn(x) ELSE x)
    BY DEF Go, T
  <2>3. last \in Nat BY RbTreeAssumption, FS_CardinalityType
  <2> HIDE DEF GoesOn, Turn, last
  <2>4. \A i \in 0 .. last : i # 0 => f[i - 1] \in X BY <2>0, <2>3
  <2>5. f = [i \in 0 .. last |-> IF i = 0 THEN start
                                 ELSE IF GoesOn(f[i - 1]) THEN Turn(f[i - 1]) ELSE f[i - 1]]
    BY <2>1, <2>2, <2>4
  <2> QED BY <2>5
<1>8. after = [i \in 0 .. last |-> IF i = 0 THEN start
                                   ELSE LET x == after[i - 1]
                                        IN  IF GoesOn(x) THEN Turn(x) ELSE x]
  BY <1>7
<1> HIDE DEF after
<1>9. Turns(after, start, X, Go, T)
  <2>1. last \in Nat BY RbTreeAssumption, FS_CardinalityType
  <2> HIDE DEF GoesOn, Turn, X, last
  <2>2. after[0] = start BY <1>8, <2>1
  <2>3. ASSUME NEW i \in 1 .. last
        PROVE  after[i] = IF GoesOn(after[i - 1]) THEN Turn(after[i - 1]) ELSE after[i - 1]
    <3>1. i \in 0 .. last /\ i # 0 BY <2>1
    <3> QED BY <1>8, <3>1
  <2>4. ASSUME NEW i \in 1 .. last
        PROVE  /\ after[i - 1] \in Go => after[i] = T[after[i - 1]]
               /\ after[i - 1] \in X \ Go => after[i] = after[i - 1]
    BY <2>3
  <2> QED BY <2>2, <2>4 DEF Turns, last
<1>10. after[last] \in X \ Go
  <2> HIDE DEF X, Go, T, V
  <2> QED BY <1>2, <1>4, <1>5, <1>6, <1>9, LoopEnds
<1> DEFINE end == after[last]
<1>11. /\ \E C : Clashing(end.tree, U, key, C, end.node)
       /\ end.tree.root = tree.root /\ ~GoesOn(end)
  BY <1>10
<1> HIDE DEF end
<1>12. Red(end.tree, end.tree.parent[end.node]) =>
         ~Red(end.tree, Sibling(end.tree, end.tree.parent[end.node]))
  BY <1>11
<1> QED BY <1>1, <1>11, <1>12 DEF end, start

\* The upper of two red nodes on the same side rises, and changes colours with
\* what was above it.
LEMMA StraightUp ==
  ASSUME NEW key \in [Nodes -> Int], NEW tree, NEW U, NEW B, NEW node, NEW upper, NEW g,
         Clashing(tree, U, key, B, node), Red(tree, upper), upper = tree.parent[node],
         g = tree.parent[upper],
         ~Red(tree, Sibling(tree, upper)), NEW side, side = SideOf(tree, upper),
         SideOf(tree, node) = side,
         NEW s, s = SetColours(rotate(tree, upper, side), {g}, {upper})
  PROVE  \E V, C : Shaped(s, V, key) /\ V[s.root] = U[tree.root] /\ Coloured(s, C)
<1>1. /\ node \in Nodes /\ upper \in Nodes /\ g \in Nodes /\ g # node /\ g # upper
      /\ upper # node /\ tree.red[node] /\ tree.red[upper] /\ ~tree.red[g]
  BY Clash
<1>2. /\ Shaped(tree, U, key) /\ tree \in Trees /\ Paired(tree) /\ None \notin Nodes
      /\ B \in [Pointers -> Nat] /\ B[None] = 0
      /\ \A n \in Nodes : HeightAt(tree, B, n)
      /\ \A n \in Nodes : n # node => RedAt(tree, n)
      /\ ~Red(tree, tree.root)
  BY RbTreeAssumption DEF Clashing, Shaped, Heights
<1> DEFINE uncle == Sibling(tree, upper)
           inner == Sibling(tree, node)
           above == tree.parent[g]
<1>3. /\ side \in Sides /\ Other(side) \in Sides /\ tree[side][g] = upper
      /\ tree[Other(side)][g] = uncle /\ uncle \in Pointers /\ uncle # upper /\ uncle # g
      /\ (uncle # None => tree.parent[uncle] = g) /\ g \in U[tree.root]
      /\ \A m \in Nodes, other \in Sides : tree[other][m] = upper => m = g /\ other = side
  BY <1>1, <1>2, Family
<1>4. /\ tree[side][upper] = node /\ tree[Other(side)][upper] = inner /\ inner \in Pointers
      /\ inner # node /\ inner # upper /\ (inner # None => tree.parent[inner] = upper)
  BY <1>1, <1>2, Family
<1>5. Rises(tree, U, key, upper, side) BY <1>1, <1>2, <1>3 DEF Rises
<1> DEFINE r == rotate(tree, upper, side)
           V == UnderRisen(tree, U, upper, side)
<1>6. Risen(tree, upper, side, r) BY <1>5, Rotates
<1>7. Shaped(r, V, key) /\ V[r.root] = U[tree.root] BY <1>5, <1>6, RisenIsShaped
<1>8. /\ above \in Pointers /\ above # upper /\ above # g
      /\ (above # None => tree[SideOf(tree, g)][above] = g /\ above \in Nodes)
      /\ upper \in U[tree.root]
  <2>1. /\ tree.parent[g] \in Pointers /\ tree.parent[g] # upper /\ tree.parent[g] # g
        /\ (tree.parent[g] # None => /\ tree[Other(side)][upper] # tree.parent[g]
                                     /\ tree[SideOf(tree, g)][tree.parent[g]] = g
                                     /\ tree.parent[g] \in Nodes)
        /\ upper \in U[tree.root]
    BY <1>5, Relatives
  <2> QED BY <1>4, <2>1
<1> HIDE DEF r, V, uncle, inner, above
<1>9. /\ r \in Trees /\ r.red = tree.red /\ r.root = IF above = None THEN upper ELSE tree.root
      /\ \A m \in Nodes : r.parent[m] =
           IF m = upper THEN above ELSE IF m = g THEN upper
           ELSE IF m = inner THEN g ELSE tree.parent[m]
      /\ \A other \in Sides, m \in Nodes : r[other][m] =
           IF m = g /\ other = side THEN inner
           ELSE IF m = upper /\ other = Other(side) THEN g
           ELSE IF m = above /\ other = SideOf(tree, g) THEN upper ELSE tree[other][m]
  BY <1>4, <1>6 DEF Risen, above
<1>10. ColoursSet(r, {g}, {upper}, s) BY <1>9, SetsColours DEF r
<1>11. /\ s \in Trees /\ SamePointers(r, s) /\ s.root = r.root /\ s.parent = r.parent
       /\ \A other \in Sides : s[other] = r[other]
       /\ \A n \in Nodes : s.red[n] = (n \in {g} \/ (n \notin {upper} /\ tree.red[n]))
  BY <1>9, <1>10 DEF ColoursSet, SamePointers, Sides
<1>20. \A m \in Nodes : s.parent[m] =
         IF m = upper THEN above ELSE IF m = g THEN upper
         ELSE IF m = inner THEN g ELSE tree.parent[m]
  BY <1>9, <1>11
<1>21. \A other \in Sides, m \in Nodes : s[other][m] =
         IF m = g /\ other = side THEN inner
         ELSE IF m = upper /\ other = Other(side) THEN g
         ELSE IF m = above /\ other = SideOf(tree, g) THEN upper ELSE tree[other][m]
  <2> TAKE other \in Sides, m \in Nodes
  <2>1. s[other][m] = r[other][m] BY <1>11
  <2>2. r[other][m] =
         IF m = g /\ other = side THEN inner
         ELSE IF m = upper /\ other = Other(side) THEN g
         ELSE IF m = above /\ other = SideOf(tree, g) THEN upper ELSE tree[other][m]
    BY <1>9
  <2> QED BY <2>1, <2>2
<1>22. s.root = IF above = None THEN upper ELSE tree.root BY <1>9, <1>11
<1>23. \A n \in Nodes : s.red[n] = (n = g \/ (n # upper /\ tree.red[n])) BY <1>11
<1>12. Shaped(s, V, key) /\ V[s.root] = U[tree.root]
  <2>1. ASSUME NEW n \in Nodes, n \notin V[r.root] PROVE ~s.red[n]
    <3>1. ~tree.red[n] BY <1>2, <1>7, <2>1 DEF Shaped, Blank
    <3> QED BY <1>3, <1>7, <1>11, <2>1, <3>1
  <2> QED BY <1>7, <1>11, <2>1, SameShape
<1> DEFINE C == [m \in Pointers |-> IF m = upper THEN B[upper] + 1
                                    ELSE IF m = g THEN B[upper] ELSE B[m]]
<1>13. C \in [Pointers -> Nat] /\ C[None] = 0
  <2>1. \A m \in Pointers : B[m] \in Nat BY <1>2
  <2> QED BY <1>1, <1>2, <2>1 DEF Pointers
<1>14. \A m \in Pointers : C[m] = IF m = upper THEN B[upper] + 1
                                  ELSE IF m = g THEN B[upper] ELSE B[m]
  OBVIOUS
<1> HIDE DEF C
<1>15. /\ B[g] = B[upper] + 1 /\ B[uncle] = B[upper] /\ B[inner] = B[upper]
       /\ B[node] = B[upper] /\ B[upper] \in Nat
  <2>1. /\ B[g] = B[tree[side][g]] + Weight(tree, g)
        /\ B[g] = B[tree[Other(side)][g]] + Weight(tree, g)
        /\ B[upper] = B[tree[side][upper]] + Weight(tree, upper)
        /\ B[upper] = B[tree[Other(side)][upper]] + Weight(tree, upper)
    BY <1>1, <1>2, <1>3 DEF HeightAt
  <2>2. B[g] \in Nat /\ B[upper] \in Nat /\ B[uncle] \in Nat /\ B[inner] \in Nat
        /\ B[node] \in Nat
    BY <1>1, <1>2, <1>3, <1>4 DEF Pointers
  <2> QED BY <1>1, <1>3, <1>4, <2>1, <2>2 DEF Weight
<1>16. ASSUME NEW n \in Nodes PROVE HeightAt(s, C, n)
  <2> SUFFICES ASSUME NEW other \in Sides
               PROVE  C[n] = C[s[other][n]] + Weight(s, n)
    BY DEF HeightAt
  <2>1. other = side \/ other = Other(side) BY <1>3, Order
  <2>2. n \in Pointers /\ Other(side) # side BY <1>3, Order DEF Pointers
  <2>3. CASE n = g
    <3>1. s.red[n] BY <1>11, <2>3
    <3>2. C[n] = B[upper] BY <1>1, <1>14, <2>2, <2>3
    <3>3. s[side][n] = inner /\ s[Other(side)][n] = uncle
      <4>1. s[side][n] = inner BY <1>3, <1>21, <2>3
      <4>2. s[Other(side)][n] = tree[Other(side)][n]
        <5>1. n \in Nodes /\ n # upper /\ n # above BY <1>1, <1>8, <2>3
        <5> QED BY <1>3, <1>21, <2>2, <5>1
      <4> QED BY <1>3, <2>3, <4>1, <4>2
    <3>4. inner # g /\ uncle # g
      <4>1. inner # g
        <5> SUFFICES ASSUME inner = g PROVE FALSE OBVIOUS
        <5>1. tree.parent[g] = upper BY <1>1, <1>2, <1>4
        <5> QED BY <1>8, <5>1 DEF above
      <4> QED BY <1>3, <4>1
    <3>5. C[inner] = B[upper] /\ C[uncle] = B[upper] BY <1>3, <1>4, <1>14, <1>15, <3>4
    <3> QED BY <1>15, <2>1, <3>1, <3>2, <3>3, <3>5 DEF Weight
  <2>4. CASE n = upper
    <3>1. ~s.red[n] BY <1>1, <1>11, <2>4
    <3>2. C[n] = B[upper] + 1 BY <1>14, <2>2, <2>4
    <3>3. s[side][n] = node /\ s[Other(side)][n] = g
      <4>1. /\ n \in Nodes /\ n # g /\ n # above /\ side \in Sides /\ Other(side) \in Sides
            /\ side # Other(side) /\ tree[side][n] = node
        BY <1>1, <1>3, <1>4, <1>8, <2>2, <2>4
      <4>2. s[side][n] = tree[side][n] BY ONLY <1>21, <2>4, <4>1
      <4>3. s[Other(side)][n] = g BY ONLY <1>21, <2>4, <4>1
      <4> QED BY <4>1, <4>2, <4>3
    <3>4. C[node] = B[upper] /\ C[g] = B[upper] BY <1>1, <1>14, <1>15 DEF Pointers
    <3> QED BY <1>15, <2>1, <3>1, <3>2, <3>3, <3>4 DEF Weight
  <2>5. CASE n # g /\ n # upper
    <3>1. C[n] = B[n] /\ (s.red[n] <=> tree.red[n])
      <4>1. C[n] = B[n] BY <1>14, <2>2, <2>5
      <4>2. n \notin {g} /\ n \notin {upper} BY <2>5
      <4> QED BY <1>11, <4>1, <4>2
    <3>2. B[n] = B[tree[other][n]] + Weight(tree, n) BY <1>2 DEF HeightAt
    <3>3. C[s[other][n]] = B[tree[other][n]]
      <4>1. CASE n = above /\ other = SideOf(tree, g)
        <5>1. s[other][n] = upper /\ tree[other][n] = g
          BY <1>2, <1>8, <1>21, <2>5, <4>1
        <5> QED BY <1>1, <1>14, <1>15, <5>1 DEF Pointers
      <4>2. CASE ~(n = above /\ other = SideOf(tree, g))
        <5>1. s[other][n] = tree[other][n] BY <1>21, <2>5, <4>2
        <5>2. tree[other][n] # upper BY <1>3, <2>5
        <5>3. tree[other][n] # g
          <6> SUFFICES ASSUME tree[other][n] = g PROVE FALSE OBVIOUS
          <6>1. tree.parent[g] = n BY <1>1, <1>2 DEF Paired
          <6>2. above # None /\ n = above BY <1>2, <6>1 DEF above
          <6>3. other = SideOf(tree, g) BY <1>1, <1>2, <6>1, Family
          <6> QED BY <4>2, <6>2, <6>3
        <5>4. tree[other][n] \in Pointers BY <1>2, Child
        <5> QED BY <1>14, <5>1, <5>2, <5>3, <5>4
      <4> QED BY <4>1, <4>2
    <3> QED BY <3>1, <3>2, <3>3 DEF Weight
  <2> QED BY <2>3, <2>4, <2>5
<1>17. ASSUME NEW n \in Nodes PROVE RedAt(s, n)
  <2> SUFFICES ASSUME s.red[n], s.parent[n] # None PROVE ~s.red[s.parent[n]]
    BY DEF RedAt, Red
  <2>1. n # upper BY <1>1, <1>11
  <2>2. CASE n = g
    <3>1. s.parent[n] = upper BY <1>1, <1>20, <2>2
    <3> QED BY <1>1, <1>11, <3>1
  <2>3. CASE n # g
    <3>1. tree.red[n] BY <1>11, <2>3
    <3>2. n # inner
      <4> SUFFICES ASSUME n = inner PROVE FALSE OBVIOUS
      <4>1. RedAt(tree, n) /\ tree.parent[n] = upper BY <1>2, <1>4
      <4> QED BY <1>1, <1>2, <3>1, <4>1 DEF RedAt, Red
    <3>3. s.parent[n] = tree.parent[n] /\ tree.parent[n] \in Nodes
      <4>1. s.parent[n] = tree.parent[n] BY <1>20, <2>1, <2>3, <3>2
      <4> QED BY <1>2, <4>1, Fields DEF Pointers
    <3>4. CASE n = node
      <4>1. s.parent[n] = upper BY <3>3, <3>4
      <4> QED BY <1>1, <1>11, <4>1
    <3>5. CASE n # node
      <4>1. ~tree.red[tree.parent[n]] BY <1>2, <3>1, <3>3, <3>5 DEF RedAt, Red
      <4>2. tree.parent[n] # g
        <5> SUFFICES ASSUME tree.parent[n] = g PROVE FALSE OBVIOUS
        <5>1. PICK other \in Sides : tree[other][g] = n BY <1>1, <1>2 DEF Paired
        <5>2. n = uncle BY <1>3, <2>1, <5>1, Order
        <5> QED BY <1>2, <2>3, <3>1, <5>2 DEF Red, uncle
      <4> QED BY <1>11, <3>3, <4>1, <4>2
    <3> QED BY <3>4, <3>5
  <2> QED BY <2>2, <2>3
<1>18. ~Red(s, s.root)
  <2> SUFFICES ASSUME s.root # None PROVE ~s.red[s.root] BY DEF Red
  <2>1. CASE above = None BY <1>1, <1>22, <1>23, <2>1
  <2>2. CASE above # None
    <3>1. s.root = tree.root /\ tree.root \in Nodes /\ ~tree.red[tree.root]
      BY <1>2, <1>22, <2>2, Fields DEF Red, Pointers
    <3>2. tree.root # None => tree.parent[tree.root] = None BY <1>2 DEF Paired
    <3>3. tree.root # g BY <1>1, <1>2, <2>2, <3>2 DEF above
    <3> QED BY <1>11, <3>1, <3>3
  <2> QED BY <2>1, <2>2
<1>19. Coloured(s, C) BY <1>13, <1>16, <1>17, <1>18 DEF Coloured, Heights
<1> QED BY <1>12, <1>19

\* Where the pointers are once a node has risen, seen from each node.
AroundRisen(tree, node, from, s) ==
  LET parent == tree.parent[node]
      above == tree.parent[parent]
      inner == tree[Other(from)][node]
      outer == tree[from][node]
      sibling == tree[Other(from)][parent]
  IN  /\ s[from][parent] = inner /\ s[Other(from)][parent] = sibling
      /\ s[from][node] = outer /\ s[Other(from)][node] = parent
      /\ \A n \in Nodes, side \in Sides : n # node /\ n # parent =>
           /\ s[side][n] = IF tree[side][n] = parent THEN node ELSE tree[side][n]
           /\ tree[side][n] # node
           /\ tree[side][n] # None => tree[side][n] \notin {inner, outer, sibling}
      /\ s.parent[node] = above /\ s.parent[parent] = node
      /\ inner # None => s.parent[inner] = parent /\ tree.parent[inner] = node
      /\ \A n \in Nodes : n # node /\ n # parent /\ n # inner => s.parent[n] = tree.parent[n]
      /\ s.root = IF above = None THEN node ELSE tree.root
      /\ above = None => tree.root = parent
      /\ above # None => tree.root # parent /\ tree.root # node

LEMMA Around ==
  ASSUME NEW key \in [Nodes -> Int], NEW tree, NEW U, NEW node, NEW from,
         Rises(tree, U, key, node, from),
         NEW r, Risen(tree, node, from, r), NEW s, SamePointers(r, s)
  PROVE  AroundRisen(tree, node, from, s)
<1> DEFINE parent == tree.parent[node]
           above == tree.parent[parent]
           inner == tree[Other(from)][node]
           outer == tree[from][node]
           sibling == tree[Other(from)][parent]
<1>1. /\ parent \in Nodes /\ above \in Pointers /\ inner \in Pointers
      /\ outer \in Pointers /\ sibling \in Pointers
      /\ parent # node /\ above # node /\ above # parent
      /\ inner # node /\ inner # parent /\ Other(from) \in Sides /\ Other(from) # from
      /\ SideOf(tree, parent) \in Sides
  BY Relatives
<1>2. above # None => /\ above \in Nodes
                      /\ tree[SideOf(tree, parent)][above] = parent
                      /\ tree[Other(SideOf(tree, parent))][above] # parent
  BY Relatives
<1>3. /\ Shaped(tree, U, key) /\ node \in Nodes /\ from \in Sides /\ parent # None
      /\ tree[from][parent] = node /\ tree \in Trees /\ Paired(tree) /\ None \notin Nodes
  BY RbTreeAssumption DEF Rises, Shaped
<1>4. /\ r.root = IF above = None THEN node ELSE tree.root
      /\ \A m \in Nodes : r.parent[m] =
           IF m = node THEN above ELSE IF m = parent THEN node
           ELSE IF m = inner THEN parent ELSE tree.parent[m]
  BY DEF Risen
<1>5. \A side \in Sides, m \in Nodes : r[side][m] =
        IF m = parent /\ side = from THEN inner
        ELSE IF m = node /\ side = Other(from) THEN parent
        ELSE IF m = above /\ side = SideOf(tree, parent) THEN node ELSE tree[side][m]
  BY DEF Risen
<1>6. s.root = r.root /\ s.parent = r.parent /\ \A side \in Sides : s[side] = r[side]
  BY DEF SamePointers, Sides
<1>7. \A n \in Nodes, side \in Sides : tree[side][n] # None => tree.parent[tree[side][n]] = n
  BY <1>3 DEF Paired
<1> HIDE DEF parent, above, inner, outer, sibling
<1>8. \A m \in Nodes : s.parent[m] =
           IF m = node THEN above ELSE IF m = parent THEN node
           ELSE IF m = inner THEN parent ELSE tree.parent[m]
  BY <1>4, <1>6
<1>9. \A side \in Sides, m \in Nodes : s[side][m] =
        IF m = parent /\ side = from THEN inner
        ELSE IF m = node /\ side = Other(from) THEN parent
        ELSE IF m = above /\ side = SideOf(tree, parent) THEN node ELSE tree[side][m]
  BY <1>5, <1>6
<1>10. s[from][parent] = inner BY <1>1, <1>3, <1>9
<1>11. s[Other(from)][parent] = sibling
  <2>1. s[Other(from)][parent] = tree[Other(from)][parent] BY <1>1, <1>3, <1>9
  <2> QED BY <2>1 DEF sibling
<1>12. s[from][node] = outer
  <2>1. s[from][node] = tree[from][node] BY <1>1, <1>3, <1>9
  <2> QED BY <2>1 DEF outer
<1>13. s[Other(from)][node] = parent BY <1>1, <1>3, <1>9
<1>14. ASSUME NEW n \in Nodes, NEW side \in Sides, n # node, n # parent
       PROVE  /\ s[side][n] = IF tree[side][n] = parent THEN node ELSE tree[side][n]
              /\ tree[side][n] # node
              /\ tree[side][n] # None => tree[side][n] \notin {inner, outer, sibling}
  <2>1. tree[side][n] # node
    <3> SUFFICES ASSUME tree[side][n] = node PROVE FALSE OBVIOUS
    <3>1. tree.parent[node] = n BY <1>3, <1>7
    <3> QED BY <1>14, <3>1 DEF parent
  <2>2. tree[side][n] # None => tree[side][n] \notin {inner, outer, sibling}
    <3>1. /\ inner # None => tree.parent[inner] = node
          /\ outer # None => tree.parent[outer] = node
          /\ sibling # None => tree.parent[sibling] = parent
      BY <1>1, <1>3, <1>7 DEF inner, outer, sibling
    <3>2. tree[side][n] # None => tree.parent[tree[side][n]] = n BY <1>7
    <3> QED BY <1>14, <3>1, <3>2
  <2>3. CASE tree[side][n] = parent
    <3>1. tree.parent[parent] = n BY <1>3, <1>7, <2>3
    <3>2. above = n /\ above # None BY <1>3, <3>1 DEF above
    <3>3. side = SideOf(tree, parent) BY <1>1, <1>2, <2>3, <3>2, Order
    <3> QED BY <1>9, <1>14, <2>1, <2>2, <2>3, <3>2, <3>3
  <2>4. CASE tree[side][n] # parent
    <3>1. ~(n = above /\ side = SideOf(tree, parent)) BY <1>2, <1>3, <2>4
    <3>2. s[side][n] = tree[side][n] BY <1>9, <1>14, <3>1
    <3> QED BY <2>1, <2>2, <2>4, <3>2
  <2> QED BY <2>3, <2>4
<1>15. s.parent[node] = above /\ s.parent[parent] = node BY <1>1, <1>3, <1>8
<1>16. inner # None => s.parent[inner] = parent /\ tree.parent[inner] = node
  <2>1. inner # None => inner \in Nodes /\ tree.parent[inner] = node
    BY <1>1, <1>3, <1>7 DEF Pointers, inner
  <2> QED BY <1>1, <1>8, <2>1
<1>17. \A n \in Nodes : n # node /\ n # parent /\ n # inner => s.parent[n] = tree.parent[n]
  BY <1>8
<1>18. s.root = IF above = None THEN node ELSE tree.root BY <1>4, <1>6
<1>19. above = None => tree.root = parent
  <2>1. parent \in U[tree.root] BY Relatives DEF parent
  <2>2. parent # tree.root => tree.parent[parent] # None BY <1>3, <2>1, Parents
  <2> QED BY <2>2 DEF above
<1>20. above # None => tree.root # parent /\ tree.root # node
  <2>1. tree.root # None => tree.parent[tree.root] = None BY <1>3 DEF Paired
  <2> QED BY <1>3, <1>1, <2>1 DEF above, parent
<1> QED BY <1>10, <1>11, <1>12, <1>13, <1>14, <1>15, <1>16, <1>17, <1>18, <1>19, <1>20
        DEF AroundRisen, parent, above, inner, outer, sibling

\* A rotation as such keeps the shape, and shows its pointers.
LEMMA Rotation ==
  ASSUME NEW key \in [Nodes -> Int], NEW tree, NEW U, NEW node, NEW from,
         Rises(tree, U, key, node, from), NEW r, r = rotate(tree, node, from),
         NEW s, SamePointers(r, s), \A n \in Nodes : n \notin U[tree.root] => ~s.red[n]
  PROVE  /\ \E V : Shaped(s, V, key) /\ V[s.root] = U[tree.root]
         /\ AroundRisen(tree, node, from, s)
         /\ r \in Trees /\ r.red = tree.red
<1>1. Risen(tree, node, from, r) BY Rotates
<1>2. Shaped(r, UnderRisen(tree, U, node, from), key)
      /\ UnderRisen(tree, U, node, from)[r.root] = U[tree.root]
  BY <1>1, RisenIsShaped
<1> DEFINE V == UnderRisen(tree, U, node, from)
<1> HIDE DEF V
<1>3. Shaped(r, V, key) /\ V[r.root] = U[tree.root] BY <1>2 DEF V
<1>4. Shaped(s, V, key) /\ s.root = r.root BY <1>3, SameShape
<1>5. AroundRisen(tree, node, from, s) BY <1>1, Around
<1> QED BY <1>1, <1>3, <1>4, <1>5 DEF Risen

\* A node on the inner side is exchanged with its parent.
LEMMA Straightened ==
  ASSUME NEW key \in [Nodes -> Int], NEW tree, NEW U, NEW B, NEW node, NEW parent, NEW g,
         Clashing(tree, U, key, B, node), Red(tree, parent), parent = tree.parent[node],
         g = tree.parent[parent],
         ~Red(tree, Sibling(tree, parent)), NEW side, side = SideOf(tree, parent),
         SideOf(tree, node) # side,
         NEW q, q = rotate(tree, node, Other(side))
  PROVE  /\ \E V : Clashing(q, V, key, B, parent) /\ V[q.root] = U[tree.root]
         /\ q.parent[parent] = node /\ q.parent[node] = g
         /\ SideOf(q, node) = side /\ SideOf(q, parent) = side
         /\ Red(q, node) /\ ~Red(q, Sibling(q, node))
<1>1. /\ node \in Nodes /\ parent \in Nodes /\ g \in Nodes /\ g # node /\ g # parent
      /\ parent # node /\ tree.red[node] /\ tree.red[parent] /\ ~tree.red[g]
  BY Clash
<1>2. /\ Shaped(tree, U, key) /\ tree \in Trees /\ None \notin Nodes /\ Paired(tree)
      /\ B \in [Pointers -> Nat] /\ B[None] = 0
      /\ \A n \in Nodes : HeightAt(tree, B, n)
      /\ \A n \in Nodes : n # node => RedAt(tree, n)
      /\ ~Red(tree, tree.root)
  BY RbTreeAssumption DEF Clashing, Shaped, Heights
<1>3. /\ side \in Sides /\ Other(side) \in Sides /\ tree[side][g] = parent
      /\ tree[Other(side)][g] = Sibling(tree, parent) /\ parent \in U[tree.root]
      /\ Sibling(tree, parent) # parent
  BY <1>1, <1>2, Family
<1>4. SideOf(tree, node) = Other(side) /\ Other(Other(side)) = side /\ Other(side) # side
  <2>1. SideOf(tree, node) \in Sides BY DEF SideOf, Sides
  <2> QED BY <1>3, <2>1, Order
<1>5. tree[Other(side)][parent] = node BY <1>1, <1>2, <1>4, Family
<1>6. Rises(tree, U, key, node, Other(side)) BY <1>1, <1>2, <1>3, <1>5 DEF Rises
<1>7. q \in Trees /\ q.red = tree.red
  <2>1. Risen(tree, node, Other(side), q) BY <1>6, Rotates
  <2> QED BY <2>1 DEF Risen
<1>8. SamePointers(q, q) BY <1>7 DEF SamePointers
<1>9. \A n \in Nodes : n \notin U[tree.root] => ~q.red[n] BY <1>2, <1>7 DEF Shaped, Blank
<1>10. /\ \E V : Shaped(q, V, key) /\ V[q.root] = U[tree.root]
       /\ AroundRisen(tree, node, Other(side), q)
  BY <1>6, <1>8, <1>9, Rotation
<1>11. PICK V : Shaped(q, V, key) /\ V[q.root] = U[tree.root] BY <1>10
<1> DEFINE inner == tree[side][node]
           outer == tree[Other(side)][node]
           sibling == tree[side][parent]
<1>12. /\ q[Other(side)][parent] = inner /\ q[side][parent] = sibling
       /\ q[Other(side)][node] = outer /\ q[side][node] = parent
       /\ \A n \in Nodes, other \in Sides : n # node /\ n # parent =>
            /\ q[other][n] = IF tree[other][n] = parent THEN node ELSE tree[other][n]
            /\ tree[other][n] # node
       /\ q.parent[node] = g /\ q.parent[parent] = node
       /\ inner # None => q.parent[inner] = parent /\ tree.parent[inner] = node
       /\ \A n \in Nodes : n # node /\ n # parent /\ n # inner => q.parent[n] = tree.parent[n]
       /\ q.root = tree.root
  <2>0. AroundRisen(tree, node, Other(side), q) BY <1>10
  <2>1. /\ Other(Other(side)) = side /\ g # None /\ parent = tree.parent[node]
        /\ g = tree.parent[parent]
    BY <1>1, <1>2, <1>4
  <2>2. /\ q[Other(side)][parent] = inner /\ q[side][parent] = sibling
        /\ q[Other(side)][node] = outer /\ q[side][node] = parent
    BY ONLY <2>0, <2>1 DEF AroundRisen, inner, outer, sibling
  <2>3. \A n \in Nodes, other \in Sides : n # node /\ n # parent =>
            /\ q[other][n] = IF tree[other][n] = parent THEN node ELSE tree[other][n]
            /\ tree[other][n] # node
    BY ONLY <2>0, <2>1 DEF AroundRisen, inner, outer, sibling
  <2>4. /\ q.parent[node] = g /\ q.parent[parent] = node
        /\ inner # None => q.parent[inner] = parent /\ tree.parent[inner] = node
    BY ONLY <2>0, <2>1 DEF AroundRisen, inner, outer, sibling
  <2>5. \A n \in Nodes : n # node /\ n # parent /\ n # inner => q.parent[n] = tree.parent[n]
    BY ONLY <2>0, <2>1 DEF AroundRisen, inner, outer, sibling
  <2>6. q.root = tree.root BY <1>10, <2>1 DEF AroundRisen
  <2> QED BY <2>2, <2>3, <2>4, <2>5, <2>6
<1>13. /\ B[parent] = B[inner] /\ B[parent] = B[sibling] /\ B[node] = B[outer]
       /\ B[node] = B[parent] /\ B[node] \in Nat
  <2>1. /\ B[node] = B[tree[side][node]] + 0 /\ B[node] = B[tree[Other(side)][node]] + 0
        /\ B[parent] = B[tree[side][parent]] + 0 /\ B[parent] = B[tree[Other(side)][parent]] + 0
    BY <1>1, <1>2, <1>3 DEF HeightAt, Weight
  <2>2. /\ inner \in Pointers /\ outer \in Pointers /\ sibling \in Pointers
        /\ node \in Pointers /\ parent \in Pointers
    BY <1>1, <1>2, <1>3, Child DEF Pointers
  <2>3. B[inner] \in Nat /\ B[outer] \in Nat /\ B[sibling] \in Nat /\ B[node] \in Nat
        /\ B[parent] \in Nat
    BY <1>2, <2>2
  <2> QED BY ONLY <1>5, <2>1, <2>3 DEF inner, outer, sibling
<1> HIDE DEF inner, outer, sibling
<1>14. ASSUME NEW n \in Nodes PROVE HeightAt(q, B, n)
  <2> SUFFICES ASSUME NEW other \in Sides
               PROVE  B[n] = B[q[other][n]] + Weight(q, n)
    BY DEF HeightAt
  <2>1. other = side \/ other = Other(side) BY <1>3, Order
  <2>2. CASE n = node
    <3>1. Weight(q, n) = 0 BY <1>1, <1>7, <2>2 DEF Weight
    <3>2. B[q[side][n]] = B[n] BY <1>12, <1>13, <2>2
    <3>3. B[q[Other(side)][n]] = B[n] BY <1>12, <1>13, <2>2
    <3>4. B[q[other][n]] = B[n] BY <2>1, <3>2, <3>3
    <3> QED BY <1>13, <2>2, <3>1, <3>4
  <2>3. CASE n = parent
    <3>1. Weight(q, n) = 0 BY <1>1, <1>7, <2>3 DEF Weight
    <3>2. B[q[other][n]] = B[n] BY <1>12, <1>13, <2>1, <2>3
    <3> QED BY <1>13, <2>3, <3>1, <3>2
  <2>4. CASE n # node /\ n # parent
    <3>1. B[n] = B[tree[other][n]] + Weight(tree, n) BY <1>2 DEF HeightAt
    <3>2. B[q[other][n]] = B[tree[other][n]] BY <1>12, <1>13, <2>4
    <3> QED BY <1>7, <3>1, <3>2 DEF Weight
  <2> QED BY <2>2, <2>3, <2>4
<1>15. ASSUME NEW n \in Nodes, n # parent PROVE RedAt(q, n)
  <2> SUFFICES ASSUME tree.red[n], q.parent[n] # None PROVE ~tree.red[q.parent[n]]
    BY <1>7 DEF RedAt, Red
  <2>1. CASE n = node BY <1>1, <1>12, <2>1
  <2>2. CASE n # node
    <3>1. n # inner
      <4> SUFFICES ASSUME n = inner PROVE FALSE OBVIOUS
      <4>1. tree.parent[n] = node /\ RedAt(tree, n) BY <1>2, <1>12, <2>2
      <4> QED BY <1>1, <1>2, <4>1 DEF RedAt, Red
    <3>2. q.parent[n] = tree.parent[n] BY <1>12, <1>15, <2>2, <3>1
    <3> QED BY <1>2, <2>2, <3>2 DEF RedAt, Red
  <2> QED BY <2>1, <2>2
<1>16. ~Red(q, q.root) /\ (Red(q, q.parent[parent]) => q.red[parent])
  BY <1>1, <1>2, <1>7, <1>12 DEF Red
<1>17. Clashing(q, V, key, B, parent)
  BY <1>2, <1>3, <1>11, <1>14, <1>15, <1>16 DEF Clashing, Heights
<1>18. q[side][g] = node /\ q[Other(side)][g] = Sibling(tree, parent)
  BY <1>1, <1>3, <1>12
<1>19. SideOf(q, node) = side /\ Sibling(q, node) = Sibling(tree, parent)
  <2>1. \A m \in Nodes, other \in Sides : q[other][m] = node => m = g /\ other = SideOf(q, node)
    BY <1>1, <1>2, <1>11, <1>12, Family
  <2>2. SideOf(q, node) = side BY <1>1, <1>3, <1>18, <2>1
  <2> QED BY <1>12, <1>18, <2>2 DEF Sibling
<1>20. SideOf(q, parent) = side
  <2>1. \A m \in Nodes, other \in Sides :
          q[other][m] = parent => m = node /\ other = SideOf(q, parent)
    BY <1>1, <1>2, <1>11, <1>12, Family
  <2>2. node \in Nodes /\ side \in Sides /\ q[side][node] = parent BY <1>1, <1>3, <1>12
  <2> QED BY ONLY <2>1, <2>2
<1>21. Red(q, node) /\ ~Red(q, Sibling(q, node)) BY <1>1, <1>2, <1>7, <1>19 DEF Red
<1> QED BY <1>11, <1>12, <1>17, <1>19, <1>20, <1>21

\* RotatedUp ends the clash.
LEMMA RotatedUpEnds ==
  ASSUME NEW key \in [Nodes -> Int], NEW tree, NEW U, NEW B, NEW node,
         Clashing(tree, U, key, B, node), Red(tree, tree.parent[node]),
         ~Red(tree, Sibling(tree, tree.parent[node]))
  PROVE  \E V, C : /\ Shaped(RotatedUp(tree, node), V, key)
                   /\ V[RotatedUp(tree, node).root] = U[tree.root]
                   /\ Coloured(RotatedUp(tree, node), C)
<1> DEFINE parent == tree.parent[node]
           g == tree.parent[parent]
           side == SideOf(tree, parent)
           q == rotate(tree, node, Other(side))
           s == RotatedUp(tree, node)
<1>1. CASE SideOf(tree, node) = side
  <2>1. s = SetColours(rotate(tree, parent, side), {g}, {parent}) BY <1>1 DEF RotatedUp
  <2> HIDE DEF parent, g, side, s
  <2>2. /\ parent = tree.parent[node] /\ g = tree.parent[parent] /\ side = SideOf(tree, parent)
        /\ Red(tree, parent) /\ ~Red(tree, Sibling(tree, parent))
    BY DEF parent, g, side
  <2>3. \E V, C : Shaped(s, V, key) /\ V[s.root] = U[tree.root] /\ Coloured(s, C)
    BY <1>1, <2>1, <2>2, StraightUp
  <2> QED BY <2>3 DEF s
<1>2. CASE SideOf(tree, node) # side
  <2>1. s = SetColours(rotate(q, node, side), {g}, {node}) BY <1>2 DEF RotatedUp
  <2> HIDE DEF parent, g, side, s, q
  <2>2. /\ parent = tree.parent[node] /\ g = tree.parent[parent] /\ side = SideOf(tree, parent)
        /\ Red(tree, parent) /\ ~Red(tree, Sibling(tree, parent))
        /\ q = rotate(tree, node, Other(side))
    BY DEF parent, g, side, q
  <2>3. /\ \E V : Clashing(q, V, key, B, parent) /\ V[q.root] = U[tree.root]
        /\ q.parent[parent] = node /\ q.parent[node] = g
        /\ SideOf(q, node) = side /\ SideOf(q, parent) = side
        /\ Red(q, node) /\ ~Red(q, Sibling(q, node))
    BY <1>2, <2>2, Straightened
  <2>4. PICK W : Clashing(q, W, key, B, parent) /\ W[q.root] = U[tree.root] BY <2>3
  <2>5. \E V, C : Shaped(s, V, key) /\ V[s.root] = W[q.root] /\ Coloured(s, C)
    BY <2>1, <2>3, <2>4, StraightUp
  <2> QED BY <2>4, <2>5 DEF s
<1> QED BY <1>1, <1>2

-----------------------------------------------------------------------------
\* The tree is a search tree of these nodes and keeps the rules of the colours.
Sound(tree, members) ==
  \E U, B : Shaped(tree, U, Key) /\ U[tree.root] = members /\ Coloured(tree, B)

\* An empty one is.
LEMMA EmptyIsSound == Sound(EmptyTree, {})
<1> DEFINE U == [n \in Pointers |-> IF n = None THEN {} ELSE {n}]
           B == [n \in Pointers |-> IF n = None THEN 0 ELSE 1]
<1>1. None \notin Nodes /\ None \in Pointers /\ Nodes \subseteq Pointers
  BY RbTreeAssumption DEF Pointers
<1>2. EmptyTree \in Trees BY <1>1 DEF EmptyTree, Trees, NoPointers
<1>3. /\ EmptyTree.root = None
      /\ \A n \in Nodes : /\ EmptyTree.left[n] = None /\ EmptyTree.right[n] = None
                          /\ EmptyTree.parent[n] = None /\ ~EmptyTree.red[n]
                          /\ \A side \in Sides : EmptyTree[side][n] = None
  BY DEF EmptyTree, NoPointers, Sides
<1>4. /\ U \in [Pointers -> SUBSET Nodes] /\ U[None] = {} /\ \A n \in Nodes : U[n] = {n}
      /\ B \in [Pointers -> Nat] /\ B[None] = 0 /\ \A n \in Nodes : B[n] = 1
  BY <1>1 DEF Pointers
<1> HIDE DEF U, B
<1>5. Spans(EmptyTree, U) BY <1>3, <1>4 DEF Spans
<1>6. Sorted(EmptyTree, U, Key) BY <1>3, <1>4 DEF Sorted
<1>7. Paired(EmptyTree) BY <1>3 DEF Paired
<1>8. Shaped(EmptyTree, U, Key) BY <1>2, <1>3, <1>5, <1>6, <1>7 DEF Shaped, Blank
<1>9. Coloured(EmptyTree, B)
  BY <1>3, <1>4 DEF Coloured, Heights, HeightAt, RedAt, Red, Weight
<1> QED BY <1>3, <1>4, <1>8, <1>9 DEF Sound

\* Insertion of a node whose key no member has leaves a sound tree of one node more:
\* u80211_rbtree_insert, with whatever recolouring and rotations the repair takes.
THEOREM InsertIsSound ==
  ASSUME NEW tree, NEW members, Sound(tree, members),
         NEW node \in Nodes, node \notin members, \A m \in members : Key[m] # Key[node]
  PROVE  Sound(u80211_rbtree_insert(tree, node), members \cup {node})
<1>1. Key \in [Nodes -> Int] /\ None \notin Nodes BY RbTreeAssumption
<1>2. PICK U, B : Shaped(tree, U, Key) /\ U[tree.root] = members /\ Coloured(tree, B)
  BY DEF Sound
<1>3. /\ tree \in Trees /\ Spans(tree, U) /\ Sorted(tree, U, Key) /\ Paired(tree)
      /\ B \in [Pointers -> Nat] /\ B[None] = 0
      /\ \A n \in Nodes : HeightAt(tree, B, n) /\ RedAt(tree, n)
      /\ ~Red(tree, tree.root)
  BY <1>2 DEF Shaped, Coloured, Heights
<1>4. /\ U[node] = {node} /\ Blank(tree, node)
      /\ \A n \in Nodes, side \in Sides : tree[side][n] # node
      /\ \A n \in Nodes : tree.parent[n] # node
  BY <1>1, <1>2, Outside
<1>5. CASE tree.root = None
  <2> DEFINE s == [tree EXCEPT !.root = node]
  <2>1. u80211_rbtree_insert(tree, node) = s BY <1>5 DEF u80211_rbtree_insert
  <2>2. /\ s \in Trees /\ s.root = node /\ s.left = tree.left /\ s.right = tree.right
        /\ s.parent = tree.parent /\ s.red = tree.red
        /\ \A side \in Sides : s[side] = tree[side]
    BY <1>3 DEF Trees, Pointers, Sides
  <2> HIDE DEF s
  <2>3. members = {} BY <1>2, <1>3, <1>5 DEF Spans
  <2>4. Spans(s, U) BY <1>3, <2>2 DEF Spans
  <2>5. Sorted(s, U, Key) BY <1>3, <2>2 DEF Sorted
  <2>6. Paired(s) BY <1>3, <1>4, <2>2 DEF Paired, Blank
  <2>7. \A n \in Nodes : n \notin U[s.root] => Blank(s, n)
    BY <1>2, <1>4, <2>2, <2>3 DEF Shaped, Blank
  <2>8. Shaped(s, U, Key) BY <2>2, <2>4, <2>5, <2>6, <2>7 DEF Shaped
  <2>9. Coloured(s, B)
    BY <1>2, <1>4, <2>2 DEF Coloured, HeightAt, RedAt, Red, Weight, Blank
  <2> QED BY <1>4, <2>1, <2>2, <2>3, <2>8, <2>9 DEF Sound
<1>6. CASE tree.root # None
  <2> DEFINE k == Key[node]
             last == LastOnWay(tree, k)
             side == IF k > Key[last] THEN "right" ELSE "left"
             s == [tree EXCEPT ![side][last] = node, !.parent[node] = last, !.red[node] = TRUE]
             end == Recoloured([tree |-> s, node |-> node])
             V == UnderHung(U, node, last)
  <2>1. u80211_rbtree_insert(tree, node) =
          IF Red(end.tree, end.tree.parent[end.node]) THEN RotatedUp(end.tree, end.node)
          ELSE end.tree
    BY <1>6 DEF u80211_rbtree_insert
  <2>2. k \in Int /\ \A m \in U[tree.root] : Key[m] # k BY <1>1, <1>2
  <2> HIDE DEF k
  <2>3. Hanging(tree, U, k, last, side) BY <1>2, <1>6, <2>2, LastOnWayHangs
  <2> HIDE DEF last, side, s, end, V
  <2>4. /\ last \in Nodes /\ last \in U[tree.root] /\ side \in Sides /\ tree[side][last] = None
        /\ last # node
    BY <1>1, <1>2, <2>3, Parents DEF Hanging
  <2>5. Hung(tree, node, last, side, s) BY <1>3, <2>4, Hangs DEF s
  <2>6. Shaped(s, V, Key) /\ V[s.root] = members \cup {node}
    BY <1>2, <2>3, <2>5, HungIsShaped DEF V, k
  <2>7. /\ s.root = tree.root
        /\ \A m \in Nodes : s.parent[m] = IF m = node THEN last ELSE tree.parent[m]
        /\ \A other \in Sides, m \in Nodes :
             s[other][m] = IF other = side /\ m = last THEN node ELSE tree[other][m]
        /\ \A m \in Nodes : s.red[m] = (m = node \/ tree.red[m])
    BY <2>5 DEF Hung
  <2> DEFINE C == [m \in Pointers |-> IF m = node THEN 0 ELSE B[m]]
  <2>8. C \in [Pointers -> Nat] /\ C[None] = 0 /\ C[node] = 0
        /\ \A m \in Pointers : m # node => C[m] = B[m]
    <3>1. \A m \in Pointers : B[m] \in Nat BY <1>3
    <3> QED BY <1>1, <1>3, <3>1 DEF Pointers
  <2> HIDE DEF C
  <2>9. ASSUME NEW n \in Nodes PROVE HeightAt(s, C, n)
    <3> SUFFICES ASSUME NEW other \in Sides
                 PROVE  C[n] = C[s[other][n]] + Weight(s, n)
      BY DEF HeightAt
    <3>1. CASE n = node
      <4>1. tree[other][n] = None BY <1>4, <3>1 DEF Blank, Sides
      <4>2. s[other][n] = None BY <2>4, <2>7, <3>1, <4>1
      <4>3. s.red[n] BY <2>7, <3>1
      <4> QED BY <2>8, <3>1, <4>2, <4>3 DEF Weight
    <3>2. CASE n # node
      <4>1. C[n] = B[n] BY <2>8, <3>2 DEF Pointers
      <4>2. B[n] = B[tree[other][n]] + Weight(tree, n) BY <1>3 DEF HeightAt
      <4>3. C[s[other][n]] = B[tree[other][n]]
        <5>1. CASE other = side /\ n = last BY <1>3, <2>4, <2>7, <2>8, <5>1
        <5>2. CASE ~(other = side /\ n = last)
          <6>1. s[other][n] = tree[other][n] BY <2>7, <5>2
          <6>2. tree[other][n] \in Pointers /\ tree[other][n] # node BY <1>3, <1>4, Child
          <6> QED BY <2>8, <6>1, <6>2
        <5> QED BY <5>1, <5>2
      <4>4. s.red[n] <=> tree.red[n] BY <2>7, <3>2
      <4> QED BY <4>1, <4>2, <4>3, <4>4 DEF Weight
    <3> QED BY <3>1, <3>2
  <2>10. ASSUME NEW n \in Nodes, n # node PROVE RedAt(s, n)
    <3>1. s.parent[n] = tree.parent[n] /\ tree.parent[n] # node BY <1>4, <2>7, <2>10
    <3>2. s.red[n] <=> tree.red[n] BY <2>7, <2>10
    <3>3. tree.parent[n] # None => (s.red[tree.parent[n]] <=> tree.red[tree.parent[n]])
      <4>1. tree.parent[n] # None => tree.parent[n] \in Nodes BY <1>3, Fields DEF Pointers
      <4> QED BY <2>7, <3>1, <4>1
    <3> QED BY <1>3, <3>1, <3>2, <3>3 DEF RedAt, Red
  <2>11. ~Red(s, s.root)
    <3>1. tree.root # node /\ tree.root \in Nodes BY <1>2, <1>1, <1>6, Parents
    <3>2. ~tree.red[tree.root] BY <1>3, <1>6 DEF Red
    <3> QED BY <2>7, <3>1, <3>2 DEF Red
  <2>12. s.red[node] BY <2>7
  <2>13. Clashing(s, V, Key, C, node)
    BY <2>6, <2>8, <2>9, <2>10, <2>11, <2>12 DEF Clashing, Heights
  <2>14. /\ \E D : Clashing(end.tree, V, Key, D, end.node)
         /\ end.tree.root = s.root
         /\ Red(end.tree, end.tree.parent[end.node]) =>
              ~Red(end.tree, Sibling(end.tree, end.tree.parent[end.node]))
    BY <1>1, <2>13, RecolouredEnds DEF end
  <2>15. PICK D : Clashing(end.tree, V, Key, D, end.node) BY <2>14
  <2>16. CASE Red(end.tree, end.tree.parent[end.node])
    <3> DEFINE u == RotatedUp(end.tree, end.node)
    <3>1. \E W, E : Shaped(u, W, Key) /\ W[u.root] = V[end.tree.root] /\ Coloured(u, E)
      BY <1>1, <2>14, <2>15, <2>16, RotatedUpEnds
    <3> HIDE DEF u
    <3>2. Sound(u, members \cup {node}) BY <2>6, <2>14, <3>1 DEF Sound
    <3> QED BY <2>1, <2>16, <3>2 DEF u
  <2>17. CASE ~Red(end.tree, end.tree.parent[end.node])
    <3>1. Coloured(end.tree, D) BY <2>15, <2>17 DEF Clashing, Coloured, RedAt
    <3>2. Sound(end.tree, members \cup {node})
      BY <2>6, <2>14, <2>15, <3>1 DEF Sound, Clashing
    <3> QED BY <2>1, <2>17, <3>2
  <2> QED BY <2>16, <2>17
<1> QED BY <1>5, <1>6

-----------------------------------------------------------------------------
(***************************************************************************)
(* Rotations and colours.                                                  *)
(***************************************************************************)

\* E gives for each node how many black ones are on the way down from it, the
\* same on either side, if n counts for L[n].
Heavy(tree, E, L) ==
  \A n \in Nodes, side \in Sides : E[n] = E[tree[side][n]] + L[n]

\* A rotation changes the counts of those it turns, and of the two that it leaves
\* where they are on the outside if they count for more or less.
Reweighed(tree, node, from, E, L, F, M) ==
  LET parent == tree.parent[node]
      inner == tree[Other(from)][node]
      outer == tree[from][node]
      sibling == tree[Other(from)][parent]
  IN  /\ \A n \in Pointers : n \notin {node, parent, outer, sibling} => F[n] = E[n]
      /\ \A n \in Nodes : n \notin {node, parent, outer, sibling} => M[n] = L[n]
      /\ F[None] = E[None]
      /\ \A n \in {outer, sibling} : n # None => \E gain \in Int : /\ F[n] = E[n] + gain
                                                                  /\ M[n] = L[n] + gain
      /\ F[parent] = E[inner] + M[parent] /\ F[parent] = F[sibling] + M[parent]
      /\ F[node] = F[outer] + M[node] /\ F[node] = F[parent] + M[node]
      /\ F[node] = E[parent]

LEMMA RotatedWeights ==
  ASSUME NEW key \in [Nodes -> Int], NEW tree, NEW U, NEW node, NEW from,
         Rises(tree, U, key, node, from), NEW s, AroundRisen(tree, node, from, s),
         NEW E \in [Pointers -> Int], NEW L \in [Nodes -> Int], Heavy(tree, E, L),
         NEW F, NEW M, Reweighed(tree, node, from, E, L, F, M)
  PROVE  Heavy(s, F, M)
<1> DEFINE parent == tree.parent[node]
           inner == tree[Other(from)][node]
           outer == tree[from][node]
           sibling == tree[Other(from)][parent]
<1>1. /\ parent \in Nodes /\ inner \in Pointers /\ outer \in Pointers /\ sibling \in Pointers
      /\ parent # node /\ inner # node /\ inner # parent
      /\ outer # node /\ outer # parent /\ sibling # node /\ sibling # parent
      /\ Other(from) \in Sides /\ Other(from) # from
  BY Relatives
<1>2. /\ Shaped(tree, U, key) /\ node \in Nodes /\ from \in Sides /\ tree[from][parent] = node
      /\ tree \in Trees /\ Paired(tree) /\ None \notin Nodes
  BY RbTreeAssumption DEF Rises, Shaped
<1>3. /\ s[from][parent] = inner /\ s[Other(from)][parent] = sibling
      /\ s[from][node] = outer /\ s[Other(from)][node] = parent
  BY DEF AroundRisen
<1>4. \A n \in Nodes, side \in Sides : n # node /\ n # parent =>
           /\ s[side][n] = IF tree[side][n] = parent THEN node ELSE tree[side][n]
           /\ tree[side][n] # node
           /\ tree[side][n] # None => tree[side][n] \notin {inner, outer, sibling}
  BY DEF AroundRisen
<1>5. inner # None => inner # outer /\ inner # sibling
  <2>1. inner # None => tree.parent[inner] = node /\ tree.parent[node] = parent
    BY <1>1, <1>2 DEF Paired
  <2>2. sibling # None => tree.parent[sibling] = parent BY <1>1, <1>2 DEF Paired
  <2>3. inner # None => inner # outer
    <3>1. Other(from) = from => FALSE BY <1>1
    <3>2. U[tree[from][node]] \cap U[tree[Other(from)][node]] = {} BY <1>2, UnderChild
    <3>3. inner # None => inner \in U[inner] BY <1>1, <1>2, UnderChild DEF Pointers
    <3> QED BY <3>2, <3>3
  <2> QED BY <1>1, <2>1, <2>2, <2>3
<1>6. /\ \A n \in Pointers : n \notin {node, parent, outer, sibling} => F[n] = E[n]
      /\ \A n \in Nodes : n \notin {node, parent, outer, sibling} => M[n] = L[n]
      /\ F[None] = E[None]
  BY DEF Reweighed
<1>7. \A n \in {outer, sibling} : n # None => \E gain \in Int : /\ F[n] = E[n] + gain
                                                                /\ M[n] = L[n] + gain
  BY DEF Reweighed
<1>8. /\ F[parent] = E[inner] + M[parent] /\ F[parent] = F[sibling] + M[parent]
      /\ F[node] = F[outer] + M[node] /\ F[node] = F[parent] + M[node]
      /\ F[node] = E[parent]
  BY DEF Reweighed
<1> HIDE DEF parent, inner, outer, sibling
<1>9. F[inner] = E[inner]
  <2>1. CASE inner = None BY <1>6, <2>1
  <2>2. CASE inner # None BY <1>1, <1>5, <1>6, <2>2
  <2> QED BY <2>1, <2>2
<1> SUFFICES ASSUME NEW n \in Nodes, NEW side \in Sides
             PROVE  F[n] = F[s[side][n]] + M[n]
  BY DEF Heavy
<1>10. side = from \/ side = Other(from) BY <1>2, Order
<1>11. CASE n = parent BY <1>3, <1>8, <1>9, <1>10, <1>11
<1>12. CASE n = node BY <1>3, <1>8, <1>10, <1>12
<1>13. CASE n # node /\ n # parent
  <2>1. E[n] = E[tree[side][n]] + L[n] BY DEF Heavy
  <2>2. F[s[side][n]] = E[tree[side][n]]
    <3>1. tree[side][n] \in Pointers BY <1>2, Child
    <3>2. CASE tree[side][n] = parent BY <1>4, <1>8, <1>13, <3>2
    <3>3. CASE tree[side][n] # parent
      <4>1. s[side][n] = tree[side][n] /\ tree[side][n] # node BY <1>4, <1>13, <3>3
      <4>2. tree[side][n] = None \/ tree[side][n] \notin {outer, sibling} BY <1>4, <1>13
      <4> QED BY <1>6, <3>1, <3>3, <4>1, <4>2
    <3> QED BY <3>2, <3>3
  <2>3. n \in Pointers /\ n # None /\ E[n] \in Int /\ L[n] \in Int /\ E[tree[side][n]] \in Int
    <3>1. tree[side][n] \in Pointers BY <1>2, Child
    <3> QED BY <1>2, <3>1 DEF Pointers
  <2>4. CASE n \notin {outer, sibling} BY <1>6, <1>13, <2>1, <2>2, <2>3, <2>4
  <2>5. CASE n \in {outer, sibling}
    <3>1. PICK gain \in Int : F[n] = E[n] + gain /\ M[n] = L[n] + gain BY <1>7, <2>3, <2>5
    <3> QED BY <2>1, <2>2, <2>3, <3>1
  <2> QED BY <2>4, <2>5
<1> QED BY <1>11, <1>12, <1>13

\* No red node has a red parent, and the root is black.
BlackAbove(tree) == (\A n \in Nodes : RedAt(tree, n)) /\ ~Red(tree, tree.root)

\* The colours once a node has risen: only it, its parent and its outer child may
\* have changed.
RedsTurned(tree, node, from, s) ==
  LET parent == tree.parent[node]
      inner == tree[Other(from)][node]
      outer == tree[from][node]
      sibling == tree[Other(from)][parent]
  IN  /\ \A n \in Nodes : n \notin {node, parent, outer} => (s.red[n] <=> tree.red[n])
      /\ s.red[node] => tree.red[parent] /\ ~s.red[parent] /\ ~Red(s, outer)
      /\ s.red[parent] => ~Red(tree, inner) /\ ~Red(tree, sibling)
      /\ Red(s, outer) => Red(tree, outer)

LEMMA RotatedReds ==
  ASSUME NEW key \in [Nodes -> Int], NEW tree, NEW U, NEW node, NEW from,
         Rises(tree, U, key, node, from), NEW s \in Trees, AroundRisen(tree, node, from, s),
         BlackAbove(tree), RedsTurned(tree, node, from, s)
  PROVE  BlackAbove(s)
<1> DEFINE parent == tree.parent[node]
           above == tree.parent[parent]
           inner == tree[Other(from)][node]
           outer == tree[from][node]
           sibling == tree[Other(from)][parent]
<1>1. /\ parent \in Nodes /\ inner \in Pointers /\ outer \in Pointers /\ sibling \in Pointers
      /\ parent # node /\ inner # node /\ inner # parent /\ above # node /\ above # parent
      /\ outer # node /\ outer # parent /\ sibling # node /\ sibling # parent
      /\ Other(from) \in Sides /\ Other(from) # from
      /\ above \in Pointers
  BY Relatives
<1>2. /\ Shaped(tree, U, key) /\ node \in Nodes /\ from \in Sides /\ tree[from][parent] = node
      /\ tree \in Trees /\ Paired(tree) /\ None \notin Nodes
  BY RbTreeAssumption DEF Rises, Shaped
<1>3. /\ s.parent[node] = above /\ s.parent[parent] = node
      /\ inner # None => s.parent[inner] = parent /\ tree.parent[inner] = node
  BY DEF AroundRisen
<1>4. \A n \in Nodes : n # node /\ n # parent /\ n # inner => s.parent[n] = tree.parent[n]
  BY DEF AroundRisen
<1>5. /\ s.root = IF above = None THEN node ELSE tree.root
      /\ above = None => tree.root = parent
      /\ above # None => tree.root # parent /\ tree.root # node
  BY DEF AroundRisen
<1>6. \A n \in Nodes : n \notin {node, parent, outer} => (s.red[n] <=> tree.red[n])
  BY DEF RedsTurned
<1>7. s.red[node] => tree.red[parent] /\ ~s.red[parent] /\ ~Red(s, outer)
  BY DEF RedsTurned
<1>8. s.red[parent] => ~Red(tree, inner) /\ ~Red(tree, sibling) BY DEF RedsTurned
<1>9. Red(s, outer) => Red(tree, outer) BY DEF RedsTurned
<1>10. /\ outer # None => tree.parent[outer] = node
       /\ sibling # None => tree.parent[sibling] = parent
  BY <1>1, <1>2 DEF Paired
<1>11. /\ \A n \in Nodes, side \in Sides : tree[side][n] # None => tree.parent[tree[side][n]] = n
       /\ \A n \in Nodes :
             tree.parent[n] # None => \E side \in Sides : tree[side][tree.parent[n]] = n
       /\ tree.root # None => tree.parent[tree.root] = None
  BY <1>2 DEF Paired
<1>12. \A side \in Sides : side = from \/ side = Other(from) BY <1>2, Order
<1>20. inner # None => inner # outer
  <2>1. U[tree[from][node]] \cap U[tree[Other(from)][node]] = {} BY <1>2, UnderChild
  <2>2. inner # None => inner \in U[inner] BY <1>1, <1>2, UnderChild DEF Pointers
  <2> QED BY <2>1, <2>2
<1> HIDE DEF inner, outer, sibling, parent
<1>13. \A n \in Nodes : /\ tree.parent[n] = node => n = inner \/ n = outer
                        /\ tree.parent[n] = parent => n = node \/ n = sibling
  BY <1>1, <1>2, <1>11, <1>12 DEF inner, outer, sibling
<1>14. \A n \in Nodes : tree.red[n] => ~Red(tree, tree.parent[n]) BY DEF BlackAbove, RedAt
<1>15. \A n \in Pointers : n \notin {node, parent, outer} => (Red(s, n) <=> Red(tree, n))
  BY <1>6 DEF Pointers, Red
<1>16. ASSUME NEW n \in Nodes PROVE RedAt(s, n)
  <2> SUFFICES ASSUME s.red[n] PROVE ~Red(s, s.parent[n]) BY DEF RedAt
  <2>1. CASE n = node
    <3>1. tree.red[parent] /\ ~Red(tree, above) BY <1>1, <1>7, <1>14, <2>1
    <3>2. above = None \/ above \notin {node, parent, outer}
      <4>1. ASSUME above = outer, above # None PROVE FALSE
        <5>1. tree.parent[outer] = node /\ Smaller(U[outer], U[node])
          BY <1>1, <1>2, <1>10, <4>1, UnderChild DEF outer
        <5>2. Smaller(U[node], U[parent]) BY <1>2, UnderChild, <1>1
        <5>3. Smaller(U[parent], U[above]) BY <1>1, <1>2, <4>1, Parents
        <5> QED BY <4>1, <5>1, <5>2, <5>3 DEF Smaller
      <4> QED BY <1>1, <4>1
    <3> QED BY <1>1, <1>3, <1>15, <2>1, <3>1, <3>2 DEF Red
  <2>2. CASE n = parent BY <1>3, <1>7, <2>2 DEF Red
  <2>3. CASE n = inner
    <3>1. n \notin {node, parent, outer} BY <1>1, <1>2, <1>20, <2>3
    <3>2. tree.red[n] BY <1>6, <3>1
    <3>3. s.parent[n] = parent BY <1>2, <1>3, <2>3
    <3>4. Red(tree, inner) BY <1>2, <2>3, <3>2 DEF Red
    <3> QED BY <1>8, <3>3, <3>4 DEF Red
  <2>4. CASE n = outer
    <3>1. s.parent[n] = node BY <1>1, <1>2, <1>4, <1>10, <1>20, <2>4
    <3>2. Red(s, outer) BY <1>2, <2>4 DEF Red
    <3> QED BY <1>7, <3>1, <3>2 DEF Red
  <2>5. CASE n \notin {node, parent, inner, outer}
    <3>1. s.parent[n] = tree.parent[n] /\ tree.red[n] BY <1>4, <1>6, <2>5
    <3>2. ~Red(tree, tree.parent[n]) /\ tree.parent[n] # node /\ tree.parent[n] \in Pointers
      BY <1>2, <1>13, <1>14, <2>5, <3>1, Fields
    <3>3. CASE tree.parent[n] = parent
      <4>1. n = sibling BY <1>13, <2>5, <3>3
      <4>2. Red(tree, sibling) BY <1>2, <3>1, <4>1 DEF Red
      <4> QED BY <1>8, <3>1, <3>3, <4>2 DEF Red
    <3>4. CASE tree.parent[n] = outer BY <1>9, <3>1, <3>2, <3>4
    <3>5. CASE tree.parent[n] \notin {node, parent, outer} BY <1>15, <3>1, <3>2, <3>5
    <3> QED BY <3>2, <3>3, <3>4, <3>5
  <2> QED BY <2>1, <2>2, <2>3, <2>4, <2>5
<1>17. ~Red(s, s.root)
  <2>1. ~Red(tree, tree.root) /\ tree.root \in Pointers BY <1>2, Fields DEF BlackAbove
  <2>2. CASE above = None BY <1>1, <1>2, <1>5, <1>7, <2>1, <2>2 DEF Red
  <2>3. CASE above # None
    <3>1. tree.root = None \/ tree.root # outer BY <1>2, <1>10, <1>11
    <3>2. s.root = tree.root /\ tree.root # parent /\ tree.root # node BY <1>5, <2>3
    <3> QED BY <1>15, <2>1, <3>1, <3>2 DEF Red
  <2> QED BY <2>2, <2>3
<1> QED BY <1>16, <1>17 DEF BlackAbove

-----------------------------------------------------------------------------
(***************************************************************************)
(* A node that is short.                                                   *)
(***************************************************************************)

\* For how much the nodes count when a leaf is not counted, as it is to go, and a
\* node from which one black node too few is under the parent counts for one more.
Loads(tree, leaf, x) ==
  [n \in Nodes |-> (IF n = leaf \/ tree.red[n] THEN 0 ELSE 1) + (IF n = x THEN 1 ELSE 0)]

\* But for the node that is short, if there is one, all is right without the leaf.
Short(tree, U, key, E, leaf, x) ==
  /\ Shaped(tree, U, key) /\ leaf \in U[tree.root]
  /\ tree.left[leaf] = None /\ tree.right[leaf] = None
  /\ Heights(E) /\ Heavy(tree, E, Loads(tree, leaf, x)) /\ BlackAbove(tree)
  /\ x # None => x \in U[tree.root] /\ leaf \in U[x] /\ ~tree.red[x]

\* Those around a node that is short.
Kin(tree, U, key, E, leaf, x, p, s, side) ==
  /\ p \in Nodes /\ s \in Nodes /\ side \in Sides /\ Other(side) \in Sides
  /\ x \in Nodes /\ x # p /\ x # s /\ p # s /\ leaf # p /\ leaf # s
  /\ tree.parent[x] = p /\ tree.parent[s] = p
  /\ SideOf(tree, s) = side /\ Sibling(tree, x) = s
  /\ tree[side][p] = s /\ tree[Other(side)][p] = x
  /\ \A other \in Sides : /\ tree[other][s] \in Pointers
                          /\ tree[other][s] \notin {x, p, s, leaf}
                          /\ tree[other][s] # None => /\ tree[other][s] \in Nodes
                                                      /\ tree.parent[tree[other][s]] = s
  /\ Rises(tree, U, key, s, side)
  /\ E[x] \in Nat /\ E[x] > 0 /\ E[s] = E[x] /\ E[p] = E[x] + Weight(tree, p)
  /\ \A other \in Sides : E[s] = E[tree[other][s]] + Weight(tree, s)
  /\ ~tree.red[x]

LEMMA ShortKin ==
  ASSUME NEW key \in [Nodes -> Int], NEW tree, NEW U, NEW E, NEW leaf, NEW x \in Nodes,
         Short(tree, U, key, E, leaf, x), tree.parent[x] # None
  PROVE  LET s == Sibling(tree, x)
         IN  Kin(tree, U, key, E, leaf, x, tree.parent[x], s, SideOf(tree, s))
<1> DEFINE p == tree.parent[x]
           s == Sibling(tree, x)
           to == SideOf(tree, x)
           L == Loads(tree, leaf, x)
<1>1. /\ Shaped(tree, U, key) /\ leaf \in U[tree.root] /\ leaf \in U[x] /\ ~tree.red[x]
      /\ tree.left[leaf] = None /\ tree.right[leaf] = None /\ Heavy(tree, E, L)
      /\ E \in [Pointers -> Nat] /\ E[None] = 0 /\ None \notin Nodes
      /\ tree \in Trees /\ Paired(tree)
  BY RbTreeAssumption DEF Short, Heights, Shaped
<1>2. /\ p \in Nodes /\ to \in Sides /\ Other(to) \in Sides
      /\ tree[to][p] = x /\ tree[Other(to)][p] = s
      /\ s \in Pointers /\ s # x /\ s # p /\ x # p
      /\ s # None => /\ s \in Nodes /\ tree.parent[s] = p /\ SideOf(tree, s) = Other(to)
                     /\ U[s] \cap U[x] = {}
  BY <1>1, Family
<1>3. /\ Smaller(U[x], U[p]) /\ p \notin U[x] /\ Other(Other(to)) = to
  BY <1>1, <1>2, UnderChild, Order
<1>4. leaf # p BY <1>1, <1>3
<1>5. leaf \in Nodes BY <1>1, Parents
<1> HIDE DEF p, s, to, L
<1>6. \A n \in Nodes, side \in Sides : E[n] = E[tree[side][n]] + L[n] BY <1>1 DEF Heavy
<1>7. \A n \in Nodes : L[n] = (IF n = leaf \/ tree.red[n] THEN 0 ELSE 1) + (IF n = x THEN 1 ELSE 0)
  BY DEF L, Loads
<1>8. E[x] \in Nat /\ E[x] > 0
  <2>1. tree[to][x] \in Pointers BY <1>1, <1>2, Child
  <2>2. E[x] = E[tree[to][x]] + L[x] /\ E[tree[to][x]] \in Nat BY <1>1, <1>2, <1>6, <2>1
  <2>3. L[x] \in Nat /\ L[x] > 0 BY <1>7
  <2> QED BY <2>2, <2>3
<1>9. /\ L[p] = Weight(tree, p) /\ E[p] = E[x] + L[p] /\ E[p] = E[s] + L[p] /\ E[s] \in Nat
  BY <1>1, <1>2, <1>4, <1>6, <1>7 DEF Weight
<1>10. E[s] = E[x] /\ E[p] = E[x] + Weight(tree, p)
  <2>1. Weight(tree, p) \in Nat BY DEF Weight
  <2> QED BY <1>8, <1>9, <2>1
<1>11. s \in Nodes /\ tree.parent[s] = p /\ SideOf(tree, s) = Other(to) /\ U[s] \cap U[x] = {}
  BY <1>1, <1>2, <1>8, <1>10
<1>12. leaf # s
  <2>1. s \in U[s] BY <1>1, <1>2, <1>11, UnderChild
  <2> QED BY <1>1, <1>11, <2>1
<1>13. ASSUME NEW other \in Sides
       PROVE  /\ tree[other][s] \in Pointers /\ tree[other][s] \notin {x, p, s, leaf}
              /\ tree[other][s] # None => /\ tree[other][s] \in Nodes
                                          /\ tree.parent[tree[other][s]] = s
              /\ E[s] = E[tree[other][s]] + Weight(tree, s)
  <2> DEFINE c == tree[other][s]
  <2>1. c \in Pointers /\ (c # None => c \in Nodes /\ tree.parent[c] = s)
    BY <1>1, <1>11, Child DEF Paired
  <2>2. c # None => c \in U[c] /\ Smaller(U[c], U[s]) /\ s \notin U[c]
    BY <1>1, <1>11, <2>1, UnderChild
  <2>3. c # p
    <3>1. Smaller(U[s], U[p]) BY <1>1, <1>2, UnderChild
    <3> QED BY <1>1, <1>2, <2>2, <3>1 DEF Smaller
  <2>4. c # x BY <1>1, <1>2, <2>1 DEF p
  <2>5. c # leaf /\ c # s
    <3>1. c # None => c \in U[s] BY <2>2 DEF Smaller
    <3> QED BY <1>1, <1>5, <1>11, <2>2, <3>1
  <2>6. E[s] = E[c] + Weight(tree, s)
    <3>1. L[s] = Weight(tree, s) + 0 BY <1>2, <1>7, <1>11, <1>12 DEF Weight
    <3>2. Weight(tree, s) \in Nat BY DEF Weight
    <3> QED BY <1>6, <1>11, <3>1, <3>2
  <2> QED BY <2>1, <2>3, <2>4, <2>5, <2>6
<1>14. Rises(tree, U, key, s, Other(to)) BY <1>1, <1>2, <1>11 DEF Rises
<1>15. Kin(tree, U, key, E, leaf, x, p, s, Other(to))
  BY <1>1, <1>2, <1>3, <1>4, <1>8, <1>10, <1>11, <1>12, <1>13, <1>14 DEF Kin, p, s
<1> QED BY <1>11, <1>15 DEF p, s

\* What a node counts for, from its colour.
LEMMA Loading ==
  ASSUME NEW tree, NEW leaf, NEW x
  PROVE  /\ Loads(tree, leaf, x) \in [Nodes -> Int]
         /\ \A n \in Nodes : n # leaf /\ n # x => Loads(tree, leaf, x)[n] = Weight(tree, n)
         /\ \A n \in Nodes : Weight(tree, n) \in Nat
         /\ \A n \in Nodes : Loads(tree, leaf, x)[n] =
              (IF n = leaf \/ tree.red[n] THEN 0 ELSE 1) + (IF n = x THEN 1 ELSE 0)
<1>1. /\ Loads(tree, leaf, x) = [n \in Nodes |-> Loads(tree, leaf, x)[n]]
      /\ \A n \in Nodes : Loads(tree, leaf, x)[n] =
           (IF n = leaf \/ tree.red[n] THEN 0 ELSE 1) + (IF n = x THEN 1 ELSE 0)
  BY DEF Loads
<1>2. \A n \in Nodes : Loads(tree, leaf, x)[n] \in Int BY <1>1
<1> QED BY <1>1, <1>2 DEF Weight

\* One turn of Raised: the sibling becomes red, and the parent is short.
LEMMA RaiseTurn ==
  ASSUME NEW key \in [Nodes -> Int], NEW tree, NEW U, NEW E, NEW leaf, NEW x \in Nodes,
         Short(tree, U, key, E, leaf, x), NEW p, NEW s, NEW side,
         Kin(tree, U, key, E, leaf, x, p, s, side),
         ~tree.red[p], ~tree.red[s], \A other \in Sides : ~Red(tree, tree[other][s]),
         NEW t, ColoursSet(tree, {s}, {}, t)
  PROVE  \E F : Short(t, U, key, F, leaf, p)
<1> DEFINE L == Loads(tree, leaf, x)
           M == Loads(t, leaf, p)
           F == [n \in Pointers |-> IF n = x \/ n = s THEN E[n] - 1 ELSE E[n]]
<1>1. /\ Shaped(tree, U, key) /\ leaf \in U[tree.root] /\ leaf \in U[x] /\ ~tree.red[x]
      /\ tree.left[leaf] = None /\ tree.right[leaf] = None /\ Heavy(tree, E, L)
      /\ E \in [Pointers -> Nat] /\ E[None] = 0 /\ None \notin Nodes
      /\ tree \in Trees /\ Paired(tree) /\ BlackAbove(tree)
  BY RbTreeAssumption DEF Short, Heights, Shaped
<1>2. /\ p \in Nodes /\ s \in Nodes /\ side \in Sides /\ Other(side) \in Sides
      /\ x # p /\ x # s /\ p # s /\ leaf # p /\ leaf # s
      /\ tree.parent[x] = p /\ tree.parent[s] = p
      /\ tree[side][p] = s /\ tree[Other(side)][p] = x
      /\ E[x] \in Nat /\ E[x] > 0 /\ E[s] = E[x] /\ E[p] = E[x] + Weight(tree, p)
  BY DEF Kin
<1>3. \A other \in Sides : /\ tree[other][s] \in Pointers
                           /\ tree[other][s] \notin {x, p, s, leaf}
                           /\ E[s] = E[tree[other][s]] + Weight(tree, s)
  BY DEF Kin
<1>4. SamePointers(tree, t) /\ \A n \in Nodes : t.red[n] <=> n = s \/ tree.red[n]
  BY DEF ColoursSet
<1>5. t \in Trees /\ t.root = tree.root /\ t.parent = tree.parent
      /\ \A other \in Sides : t[other] = tree[other]
  BY <1>4 DEF SamePointers, Sides
<1>6. p \in U[tree.root] /\ s \in U[tree.root] /\ Smaller(U[x], U[p])
  BY <1>1, <1>2, Parents
<1>7. Shaped(t, U, key)
  <2>1. \A n \in Nodes : n \notin U[tree.root] => ~tree.red[n] BY <1>1 DEF Shaped, Blank
  <2>2. \A n \in Nodes : n \notin U[tree.root] => ~t.red[n] BY <1>4, <1>6, <2>1
  <2> QED BY <1>1, <1>4, <2>2, SameShape
<1>8. \A n \in Nodes : L[n] = (IF n = leaf \/ tree.red[n] THEN 0 ELSE 1) + (IF n = x THEN 1 ELSE 0)
  BY Loading
<1>9. \A n \in Nodes : M[n] = (IF n = leaf \/ t.red[n] THEN 0 ELSE 1) + (IF n = p THEN 1 ELSE 0)
  BY Loading
<1>10. \A n \in Nodes, other \in Sides : E[n] = E[tree[other][n]] + L[n] BY <1>1 DEF Heavy
<1>11. /\ F \in [Pointers -> Nat] /\ F[None] = 0 /\ F[x] = E[x] - 1 /\ F[s] = E[s] - 1
       /\ \A n \in Pointers : n # x /\ n # s => F[n] = E[n]
  <2>1. \A n \in Pointers : E[n] \in Nat BY <1>1
  <2> QED BY <1>1, <1>2, <2>1 DEF Pointers
<1> HIDE DEF L, M, F
<1>12. ASSUME NEW n \in Nodes, NEW other \in Sides PROVE F[n] = F[t[other][n]] + M[n]
  <2>1. t[other][n] = tree[other][n] /\ tree[other][n] \in Pointers /\ n \in Pointers
    BY <1>1, <1>5, Child DEF Pointers
  <2>2. E[n] = E[tree[other][n]] + L[n] /\ E[n] \in Nat /\ E[tree[other][n]] \in Nat
    BY <1>1, <1>10, <2>1
  <2>3. other = side \/ other = Other(side) BY <1>2, Order
  <2>4. CASE n = p
    <3>1. M[n] = 2 BY <1>2, <1>4, <1>9, <2>4
    <3>2. F[tree[other][n]] = E[x] - 1 BY <1>2, <1>11, <2>3, <2>4
    <3>3. F[n] = E[x] + 1 BY <1>2, <1>11, <2>1, <2>4 DEF Weight
    <3> QED BY <1>2, <2>1, <3>1, <3>2, <3>3
  <2>5. CASE n = s
    <3>1. M[n] = 0 BY <1>2, <1>4, <1>9, <2>5
    <3>2. E[s] = E[tree[other][s]] + 1 /\ tree[other][s] \notin {x, s} BY <1>3 DEF Weight
    <3>3. F[tree[other][n]] = E[tree[other][n]] BY <1>11, <2>1, <2>5, <3>2
    <3> QED BY <1>11, <2>1, <2>2, <2>5, <3>1, <3>2, <3>3
  <2>6. CASE n # p /\ n # s
    <3>1. tree[other][n] # x /\ tree[other][n] # s
      <4>1. tree[other][n] # None => tree.parent[tree[other][n]] = n BY <1>1 DEF Paired
      <4> QED BY <1>1, <1>2, <2>6, <4>1
    <3>2. F[tree[other][n]] = E[tree[other][n]] BY <1>11, <2>1, <3>1
    <3>3. t.red[n] <=> tree.red[n] BY <1>4, <2>6
    <3>4. CASE n = x
      <4>1. L[n] = M[n] + 1 /\ M[n] \in Nat BY <1>2, <1>8, <1>9, <3>3, <3>4
      <4> QED BY <1>11, <2>1, <2>2, <3>2, <3>4, <4>1
    <3>5. CASE n # x
      <4>1. L[n] = M[n] BY <1>8, <1>9, <2>6, <3>3, <3>5
      <4> QED BY <1>11, <2>1, <2>2, <2>6, <3>2, <3>5, <4>1
    <3> QED BY <3>4, <3>5
  <2> QED BY <2>4, <2>5, <2>6
<1>13. BlackAbove(t)
  <2>1. ASSUME NEW n \in Nodes PROVE RedAt(t, n)
    <3> SUFFICES ASSUME t.red[n] PROVE ~Red(t, tree.parent[n]) BY <1>5 DEF RedAt
    <3>1. tree.parent[n] \in Pointers BY <1>1, Fields
    <3>2. CASE n = s BY <1>2, <1>4, <3>2 DEF Red
    <3>3. CASE n # s
      <4>1. tree.red[n] /\ ~Red(tree, tree.parent[n])
        BY <1>1, <1>4, <3>3 DEF BlackAbove, RedAt
      <4>2. tree.parent[n] # s
        <5> SUFFICES ASSUME tree.parent[n] = s PROVE FALSE OBVIOUS
        <5>1. PICK other \in Sides : tree[other][s] = n BY <1>1, <1>2 DEF Paired
        <5> QED BY <1>1, <4>1, <5>1 DEF Red
      <4> QED BY <1>4, <3>1, <4>1, <4>2 DEF Red, Pointers
    <3> QED BY <3>2, <3>3
  <2>2. ~Red(t, t.root)
    <3>1. ~Red(tree, tree.root) /\ tree.root \in Pointers BY <1>1, Fields DEF BlackAbove
    <3>2. tree.root # s BY <1>1, <1>2 DEF Paired
    <3> QED BY <1>4, <1>5, <3>1, <3>2 DEF Red, Pointers
  <2> QED BY <2>1, <2>2 DEF BlackAbove
<1>14. Heavy(t, F, M) BY <1>12 DEF Heavy
<1>15. ~t.red[p] /\ leaf \in U[p] BY <1>1, <1>2, <1>4, <1>6 DEF Smaller
<1>16. t.left[leaf] = None /\ t.right[leaf] = None BY <1>1, <1>4 DEF SamePointers
<1>17. Short(t, U, key, F, leaf, p)
  BY <1>1, <1>5, <1>6, <1>7, <1>11, <1>13, <1>14, <1>15, <1>16 DEF Short, Heights, M
<1> QED BY <1>17

\* The loop of Raised ends, at the root or where somebody around is red.
LEMMA RaisedEnds ==
  ASSUME NEW key \in [Nodes -> Int], NEW tree, NEW U, NEW E, NEW leaf, NEW node \in Nodes,
         Short(tree, U, key, E, leaf, node)
  PROVE  LET end == Raised([tree |-> tree, node |-> node])
             sibling == Sibling(end.tree, end.node)
         IN  /\ \E F : Short(end.tree, U, key, F, leaf, end.node)
             /\ end.tree.root = tree.root /\ end.node \in Nodes
             /\ end.tree.parent[end.node] # None =>
                  \E n \in {end.tree.parent[end.node], sibling, end.tree.left[sibling],
                            end.tree.right[sibling]} : Red(end.tree, n)
<1> DEFINE GoesOn(x) == LET parent == x.tree.parent[x.node]
                            sibling == Sibling(x.tree, x.node)
                        IN  /\ parent # None
                            /\ \A n \in {parent, sibling, x.tree.left[sibling],
                                         x.tree.right[sibling]} :
                                 ~Red(x.tree, n)
           Turn(x) == [tree |-> SetColours(x.tree, {Sibling(x.tree, x.node)}, {}),
                       node |-> x.tree.parent[x.node]]
           last == Cardinality(Nodes)
           start == [tree |-> tree, node |-> node]
           after == CHOOSE f : f = [i \in 0 .. last |->
                      IF i = 0 THEN start
                      ELSE LET x == f[i - 1] IN IF GoesOn(x) THEN Turn(x) ELSE x]
           X == {x \in [tree : Trees, node : Nodes] :
                   x.tree.root = tree.root /\ \E F : Short(x.tree, U, key, F, leaf, x.node)}
           Go == {x \in X : GoesOn(x)}
           T == [x \in X |-> Turn(x)]
           V == [x \in X |-> U[x.node]]
<1>1. Raised(start) = after[last] BY DEF Raised, Loop
<1>2. start \in X
  <2>1. tree \in Trees BY DEF Short, Shaped
  <2> QED BY <2>1
<1>3. ASSUME NEW x \in X, GoesOn(x) PROVE Turn(x) \in X /\ Smaller(U[x.node], U[Turn(x).node])
  <2> DEFINE t == x.tree
             n == x.node
             p == t.parent[n]
             s == Sibling(t, n)
             side == SideOf(t, s)
             u == SetColours(t, {s}, {})
  <2>1. PICK F : Short(t, U, key, F, leaf, n) BY <1>3
  <2>2. t \in Trees /\ n \in Nodes /\ p # None /\ t.root = tree.root
        /\ ~Red(t, p) /\ ~Red(t, s) /\ ~Red(t, t.left[s]) /\ ~Red(t, t.right[s])
    BY <1>3
  <2>3. Turn(x) = [tree |-> u, node |-> p] OBVIOUS
  <2> HIDE DEF t, n, Turn, X
  <2>4. Kin(t, U, key, F, leaf, n, p, s, side) BY <2>1, <2>2, ShortKin
  <2>5. ColoursSet(t, {s}, {}, u) BY <2>2, SetsColours
  <2> HIDE DEF u, s, p, side
  <2>6. p \in Nodes /\ s \in Nodes /\ t.parent[n] = p /\ None \notin Nodes
    BY <2>4, RbTreeAssumption DEF Kin
  <2>7. ~t.red[p] /\ ~t.red[s] /\ \A other \in Sides : ~Red(t, t[other][s])
    BY <2>2, <2>6 DEF Red, Sides
  <2>8. \E G : Short(u, U, key, G, leaf, p) BY <2>1, <2>2, <2>4, <2>5, <2>7, RaiseTurn
  <2>9. u \in Trees /\ u.root = t.root BY <2>5 DEF ColoursSet, SamePointers
  <2>10. Smaller(U[n], U[p])
    <3>1. Shaped(t, U, key) BY <2>1 DEF Short
    <3> QED BY <2>2, <2>6, <3>1, Parents
  <2>11. Turn(x).tree = u /\ Turn(x).node = p /\ Turn(x) \in [tree : Trees, node : Nodes]
    BY <2>3, <2>6, <2>9
  <2> QED BY <2>2, <2>8, <2>9, <2>10, <2>11 DEF X, n
<1>4. Go \in SUBSET X /\ \A x \in Go : T[x] \in X /\ T[x] = Turn(x) BY <1>3
<1>5. V \in [X -> SUBSET Nodes]
  <2>1. U \in [Pointers -> SUBSET Nodes] BY DEF Short, Shaped, Spans
  <2>2. \A x \in X : x.node \in Pointers BY DEF Pointers
  <2> QED BY <2>1, <2>2
<1>6. \A x \in Go : T[x] \in X /\ Smaller(V[x], V[T[x]])
  <2> TAKE x \in Go
  <2>1. x \in X /\ GoesOn(x) /\ T[x] \in X /\ T[x] = Turn(x) BY <1>4
  <2>2. Smaller(U[x.node], U[Turn(x).node]) BY <1>3, <2>1
  <2>3. V[x] = U[x.node] /\ V[T[x]] = U[Turn(x).node] BY <2>1
  <2> QED BY <2>1, <2>2, <2>3
<1> HIDE DEF start
<1>7. \E f : f = [i \in 0 .. last |-> IF i = 0 THEN start
                                     ELSE LET x == f[i - 1] IN IF GoesOn(x) THEN Turn(x) ELSE x]
  <2> HIDE DEF X, Go, T
  <2>0. PICK f \in [0 .. last -> X] : Runs(f, start, Go, T) BY <1>2, <1>4, LoopRuns
  <2>1. f = [i \in 0 .. last |-> IF i = 0 THEN start
                                 ELSE IF f[i - 1] \in Go THEN T[f[i - 1]] ELSE f[i - 1]]
    BY <2>0 DEF Runs
  <2>2. ASSUME NEW x \in X
        PROVE  (IF x \in Go THEN T[x] ELSE x) = (IF GoesOn(x) THEN Turn(x) ELSE x)
    BY DEF Go, T
  <2>3. last \in Nat BY RbTreeAssumption, FS_CardinalityType
  <2> HIDE DEF GoesOn, Turn, last
  <2>4. \A i \in 0 .. last : i # 0 => f[i - 1] \in X BY <2>0, <2>3
  <2>5. f = [i \in 0 .. last |-> IF i = 0 THEN start
                                 ELSE IF GoesOn(f[i - 1]) THEN Turn(f[i - 1]) ELSE f[i - 1]]
    BY <2>1, <2>2, <2>4
  <2> QED BY <2>5
<1>8. after = [i \in 0 .. last |-> IF i = 0 THEN start
                                   ELSE LET x == after[i - 1]
                                        IN  IF GoesOn(x) THEN Turn(x) ELSE x]
  BY <1>7
<1> HIDE DEF after
<1>9. Turns(after, start, X, Go, T)
  <2>1. last \in Nat BY RbTreeAssumption, FS_CardinalityType
  <2> HIDE DEF GoesOn, Turn, X, last
  <2>2. after[0] = start BY <1>8, <2>1
  <2>3. ASSUME NEW i \in 1 .. last
        PROVE  after[i] = IF GoesOn(after[i - 1]) THEN Turn(after[i - 1]) ELSE after[i - 1]
    <3>1. i \in 0 .. last /\ i # 0 BY <2>1
    <3> QED BY <1>8, <3>1
  <2>4. ASSUME NEW i \in 1 .. last
        PROVE  /\ after[i - 1] \in Go => after[i] = T[after[i - 1]]
               /\ after[i - 1] \in X \ Go => after[i] = after[i - 1]
    BY <2>3
  <2> QED BY <2>2, <2>4 DEF Turns, last
<1>10. after[last] \in X \ Go
  <2> HIDE DEF X, Go, T, V
  <2> QED BY <1>2, <1>4, <1>5, <1>6, <1>9, LoopEnds
<1> DEFINE end == after[last]
<1>11. /\ \E F : Short(end.tree, U, key, F, leaf, end.node)
       /\ end.tree.root = tree.root /\ end.node \in Nodes /\ ~GoesOn(end)
  BY <1>10
<1> HIDE DEF end
<1>12. end.tree.parent[end.node] # None =>
         \E n \in {end.tree.parent[end.node], Sibling(end.tree, end.node),
                   end.tree.left[Sibling(end.tree, end.node)],
                   end.tree.right[Sibling(end.tree, end.node)]} : Red(end.tree, n)
  BY <1>11
<1> QED BY <1>1, <1>11, <1>12 DEF end, start

\* At the root nobody is short.
LEMMA RootNotShort ==
  ASSUME NEW key \in [Nodes -> Int], NEW tree, NEW U, NEW E, NEW leaf, NEW x \in Nodes,
         Short(tree, U, key, E, leaf, x), tree.parent[x] = None
  PROVE  \E F : Short(tree, U, key, F, leaf, None)
<1> DEFINE L == Loads(tree, leaf, x)
           M == Loads(tree, leaf, None)
           F == [n \in Pointers |-> IF n = x THEN E[n] - 1 ELSE E[n]]
<1>1. /\ Shaped(tree, U, key) /\ leaf \in U[tree.root] /\ leaf \in U[x]
      /\ tree.left[leaf] = None /\ tree.right[leaf] = None /\ Heavy(tree, E, L)
      /\ E \in [Pointers -> Nat] /\ E[None] = 0 /\ None \notin Nodes
      /\ tree \in Trees /\ Paired(tree) /\ BlackAbove(tree)
  BY RbTreeAssumption DEF Short, Heights, Shaped
<1>2. \A n \in Nodes : L[n] = (IF n = leaf \/ tree.red[n] THEN 0 ELSE 1) + (IF n = x THEN 1 ELSE 0)
  BY Loading
<1>3. \A n \in Nodes :
        M[n] = (IF n = leaf \/ tree.red[n] THEN 0 ELSE 1) + (IF n = None THEN 1 ELSE 0)
  BY Loading
<1>4. \A n \in Nodes, side \in Sides : E[n] = E[tree[side][n]] + L[n] BY <1>1 DEF Heavy
<1> HIDE DEF L, M
<1>5. E[x] \in Nat /\ E[x] > 0
  <2>1. "left" \in Sides BY DEF Sides
  <2>2. tree["left"][x] \in Pointers BY <1>1, <2>1, Child
  <2>3. E[x] = E[tree["left"][x]] + L[x] /\ E[tree["left"][x]] \in Nat BY <1>1, <1>4, <2>1, <2>2
  <2>4. L[x] \in Nat /\ L[x] > 0 BY <1>2
  <2> QED BY <2>3, <2>4
<1>6. /\ F \in [Pointers -> Nat] /\ F[None] = 0 /\ F[x] = E[x] - 1
      /\ \A n \in Pointers : n # x => F[n] = E[n]
  <2>1. \A n \in Pointers : E[n] \in Nat BY <1>1
  <2> QED BY <1>1, <1>5, <2>1 DEF Pointers
<1> HIDE DEF F
<1>7. ASSUME NEW n \in Nodes, NEW side \in Sides PROVE F[n] = F[tree[side][n]] + M[n]
  <2>1. tree[side][n] \in Pointers /\ n \in Pointers BY <1>1, Child DEF Pointers
  <2>2. tree[side][n] # x BY <1>1 DEF Paired
  <2>3. F[tree[side][n]] = E[tree[side][n]] /\ E[tree[side][n]] \in Nat BY <1>1, <1>6, <2>1, <2>2
  <2>4. E[n] = E[tree[side][n]] + L[n] BY <1>4
  <2>5. CASE n = x
    <3>1. L[n] = M[n] + 1 /\ M[n] \in Nat BY <1>1, <1>2, <1>3, <2>5
    <3> QED BY <1>5, <1>6, <2>3, <2>4, <2>5, <3>1
  <2>6. CASE n # x
    <3>1. L[n] = M[n] BY <1>1, <1>2, <1>3, <2>6
    <3> QED BY <1>6, <2>1, <2>3, <2>4, <2>6, <3>1
  <2> QED BY <2>5, <2>6
<1>8. Heavy(tree, F, M) BY <1>7 DEF Heavy
<1>9. Short(tree, U, key, F, leaf, None) BY <1>1, <1>6, <1>8 DEF Short, Heights, M
<1> QED BY <1>9

\* A rotation, with the colours of some nodes set before it or after it.
Turned(tree, U, key, node, from, q, V) ==
  /\ Shaped(q, V, key) /\ V[q.root] = U[tree.root]
  /\ \A m \in Pointers : m # node /\ m # tree.parent[node] => V[m] = U[m]
  /\ AroundRisen(tree, node, from, q)

LEMMA ColouredRotation ==
  ASSUME NEW key \in [Nodes -> Int], NEW tree, NEW U, NEW node, NEW from,
         Rises(tree, U, key, node, from),
         NEW c, SamePointers(tree, c), \A n \in Nodes : n \notin U[tree.root] => ~c.red[n],
         NEW r, r = rotate(c, node, from), NEW q, SamePointers(r, q),
         \A n \in Nodes : n \notin U[tree.root] => ~q.red[n]
  PROVE  r.red = c.red /\ \E V : Turned(tree, U, key, node, from, q, V)
<1>1. /\ Shaped(tree, U, key) /\ node \in Nodes /\ from \in Sides /\ Other(from) \in Sides
      /\ tree.parent[node] # None /\ tree[from][tree.parent[node]] = node
      /\ tree.parent[node] \in Nodes
  <2>1. /\ Shaped(tree, U, key) /\ node \in Nodes /\ from \in Sides /\ tree.parent[node] # None
        /\ tree[from][tree.parent[node]] = node
    BY DEF Rises
  <2> QED BY <2>1, Order, Parents
<1>2. /\ c \in Trees /\ c.root = tree.root /\ c.parent = tree.parent
      /\ \A side \in Sides : c[side] = tree[side]
  BY DEF SamePointers, Sides
<1>3. Shaped(c, U, key) BY <1>1, SameShape
<1>4. Rises(c, U, key, node, from) BY <1>1, <1>2, <1>3 DEF Rises
<1>5. Risen(c, node, from, r) BY <1>4, Rotates
<1>6. r \in Trees /\ r.red = c.red BY <1>5 DEF Risen
<1>7. SamePointers(r, r) BY <1>6 DEF SamePointers
<1>8. AroundRisen(c, node, from, q) BY <1>4, <1>5, Around
<1>9. AroundRisen(tree, node, from, q)
  <2>1. c[from] = tree[from] /\ c[Other(from)] = tree[Other(from)] BY <1>1, <1>2
  <2>2. /\ c.root = tree.root /\ c.parent = tree.parent
        /\ \A n \in Nodes, side \in Sides : c[side][n] = tree[side][n]
    BY <1>2
  <2> QED BY ONLY <1>8, <2>1, <2>2 DEF AroundRisen
<1> DEFINE V == UnderRisen(c, U, node, from)
<1>10. Shaped(r, V, key) /\ V[r.root] = U[c.root] BY <1>4, <1>5, RisenIsShaped
<1>11. \A m \in Pointers : m # node /\ m # tree.parent[node] => V[m] = U[m]
  BY <1>2 DEF UnderRisen
<1> HIDE DEF V
<1>12. \A n \in Nodes : n \notin V[r.root] => ~q.red[n] BY <1>2, <1>10
<1>13. Shaped(q, V, key) /\ q.root = r.root BY <1>10, <1>12, SameShape
<1>14. Turned(tree, U, key, node, from, q, V)
  BY <1>2, <1>9, <1>10, <1>11, <1>13 DEF Turned
<1> QED BY <1>6, <1>14

\* Of a tree with a node that is short, by a node above the leaf.
LEMMA TurnedShort ==
  ASSUME NEW key \in [Nodes -> Int], NEW tree, NEW U, NEW E, NEW leaf, NEW x,
         Short(tree, U, key, E, leaf, x), x \in Nodes, NEW node, NEW from,
         Rises(tree, U, key, node, from), x # node, x # tree.parent[node],
         leaf # node, leaf # tree.parent[node],
         NEW q, NEW V, Turned(tree, U, key, node, from, q, V),
         RedsTurned(tree, node, from, q), NEW y \in {x, None}, ~q.red[x],
         NEW F, Heights(F),
         Reweighed(tree, node, from, E, Loads(tree, leaf, x), F, Loads(q, leaf, y))
  PROVE  Short(q, V, key, F, leaf, y)
<1> DEFINE parent == tree.parent[node]
<1>1. /\ Shaped(tree, U, key) /\ leaf \in U[tree.root] /\ leaf \in U[x] /\ x \in U[tree.root]
      /\ tree.left[leaf] = None /\ tree.right[leaf] = None
      /\ Heavy(tree, E, Loads(tree, leaf, x))
      /\ E \in [Pointers -> Nat] /\ None \notin Nodes /\ tree \in Trees /\ BlackAbove(tree)
  BY RbTreeAssumption DEF Short, Heights, Shaped
<1>2. E \in [Pointers -> Int]
  <2>1. \A n \in Pointers : E[n] \in Int BY <1>1
  <2> QED BY <1>1, <2>1
<1>3. AroundRisen(tree, node, from, q) /\ Shaped(q, V, key) /\ V[q.root] = U[tree.root]
      /\ q \in Trees
  BY DEF Turned, Shaped
<1>4. Heavy(q, F, Loads(q, leaf, y)) BY <1>1, <1>2, <1>3, RotatedWeights, Loading
<1>5. BlackAbove(q) BY <1>1, <1>3, RotatedReds
<1>6. V[x] = U[x] BY DEF Turned, Pointers
<1>7. q.left[leaf] = None /\ q.right[leaf] = None
  <2>1. leaf \in Nodes BY <1>1, Parents
  <2>2. parent # None BY DEF Rises
  <2>3. \A side \in Sides : tree[side][leaf] = None BY <1>1 DEF Sides
  <2>4. \A side \in Sides : q[side][leaf] = IF tree[side][leaf] = parent THEN node
                                            ELSE tree[side][leaf]
    BY <1>3, <2>1 DEF AroundRisen
  <2>5. \A side \in Sides : q[side][leaf] = None BY <2>2, <2>3, <2>4
  <2> QED BY <2>5 DEF Sides
<1>8. Short(q, V, key, F, leaf, y)
  BY <1>1, <1>3, <1>4, <1>5, <1>6, <1>7 DEF Short
<1> QED BY <1>8

\* A tree of these nodes in which there is one that is short.
ShortThere(q, key, leaf, x, members) ==
  \E V, F : Short(q, V, key, F, leaf, x) /\ V[q.root] = members

\* The sibling is black, and the parent red.
SiblingBlack(q, x, p) == q.parent[x] = p /\ q.red[p] /\ ~Red(q, Sibling(q, x))

\* WithBlackSibling, where the sibling is red.
LEMMA RedSibling ==
  ASSUME NEW key \in [Nodes -> Int], NEW tree, NEW U, NEW E, NEW leaf, NEW x \in Nodes,
         Short(tree, U, key, E, leaf, x), NEW p, NEW s, NEW side,
         Kin(tree, U, key, E, leaf, x, p, s, side), Red(tree, s),
         NEW q, q = rotate(SetColours(tree, {p}, {s}), s, side)
  PROVE  /\ ShortThere(q, key, leaf, x, U[tree.root])
         /\ SiblingBlack(q, x, p)
<1> DEFINE c == SetColours(tree, {p}, {s})
           inner == tree[Other(side)][s]
           outer == tree[side][s]
           L == Loads(tree, leaf, x)
           M == Loads(q, leaf, x)
           F == [n \in Pointers |-> IF n = p THEN E[x] ELSE IF n = s THEN E[p] ELSE E[n]]
<1>1. /\ Shaped(tree, U, key) /\ leaf \in U[tree.root] /\ ~tree.red[x] /\ tree.red[s]
      /\ E \in [Pointers -> Nat] /\ E[None] = 0 /\ None \notin Nodes
      /\ tree \in Trees /\ BlackAbove(tree)
      /\ \A n \in Nodes : n \notin U[tree.root] => ~tree.red[n]
  BY RbTreeAssumption DEF Short, Heights, Shaped, Blank, Red
<1>2. /\ p \in Nodes /\ s \in Nodes /\ side \in Sides /\ Other(side) \in Sides
      /\ x # p /\ x # s /\ p # s /\ leaf # p /\ leaf # s
      /\ tree.parent[x] = p /\ tree.parent[s] = p
      /\ tree[side][p] = s /\ tree[Other(side)][p] = x
      /\ E[x] \in Nat /\ E[x] > 0 /\ E[s] = E[x] /\ E[p] = E[x] + Weight(tree, p)
      /\ Rises(tree, U, key, s, side)
  BY DEF Kin
<1>3. /\ inner \in Pointers /\ inner \notin {x, p, s, leaf}
      /\ inner # None => inner \in Nodes /\ tree.parent[inner] = s
      /\ E[s] = E[inner] + Weight(tree, s)
      /\ outer \in Pointers /\ outer \notin {x, p, s, leaf}
      /\ outer # None => outer \in Nodes /\ tree.parent[outer] = s
      /\ E[s] = E[outer] + Weight(tree, s)
  BY <1>2 DEF Kin
<1>4. \A n \in Nodes : tree.red[n] => ~Red(tree, tree.parent[n]) BY <1>1 DEF BlackAbove, RedAt
<1>5. ~tree.red[p] /\ ~Red(tree, inner) /\ ~Red(tree, outer)
  <2>1. ~Red(tree, p) BY <1>1, <1>2, <1>4
  <2>2. inner # None => ~tree.red[inner] BY <1>1, <1>2, <1>3, <1>4 DEF Red
  <2>3. outer # None => ~tree.red[outer] BY <1>1, <1>2, <1>3, <1>4 DEF Red
  <2> QED BY <1>1, <1>2, <2>1, <2>2, <2>3 DEF Red
<1>6. E[inner] = E[x] /\ E[outer] = E[x] /\ E[p] = E[x] + 1
  <2>1. Weight(tree, s) = 0 /\ Weight(tree, p) = 1 BY <1>1, <1>5 DEF Weight
  <2>2. E[inner] \in Nat /\ E[outer] \in Nat BY <1>1, <1>3
  <2> QED BY <1>2, <1>3, <2>1, <2>2
<1> HIDE DEF c, inner, outer, L, M, F
<1>7. SamePointers(tree, c) /\ \A n \in Nodes : c.red[n] <=> n = p \/ (n # s /\ tree.red[n])
  <2>1. ColoursSet(tree, {p}, {s}, c) BY <1>1, SetsColours DEF c
  <2> QED BY <2>1 DEF ColoursSet
<1>8. p \in U[tree.root] BY <1>1, <1>2, Parents
<1>9. \A n \in Nodes : n \notin U[tree.root] => ~c.red[n] BY <1>1, <1>7, <1>8
<1>10. q = rotate(c, s, side) BY DEF c
<1>11. q.red = c.red
  <2>1. Rises(c, U, key, s, side)
    <3>1. Shaped(c, U, key) BY <1>1, <1>7, <1>9, SameShape
    <3>2. c.parent = tree.parent /\ c[side] = tree[side] BY <1>2, <1>7 DEF SamePointers, Sides
    <3> QED BY <1>2, <3>1, <3>2 DEF Rises
  <2>2. Risen(c, s, side, q) BY <1>10, <2>1, Rotates
  <2> QED BY <2>2 DEF Risen
<1>12. SamePointers(q, q)
  <2>1. Rises(c, U, key, s, side)
    <3>1. Shaped(c, U, key) BY <1>1, <1>7, <1>9, SameShape
    <3>2. c.parent = tree.parent /\ c[side] = tree[side] BY <1>2, <1>7 DEF SamePointers, Sides
    <3> QED BY <1>2, <3>1, <3>2 DEF Rises
  <2>2. Risen(c, s, side, q) BY <1>10, <2>1, Rotates
  <2> QED BY <2>2 DEF Risen, SamePointers
<1>13. \A n \in Nodes : q.red[n] <=> n = p \/ (n # s /\ tree.red[n]) BY <1>7, <1>11
<1>14. PICK V : Turned(tree, U, key, s, side, q, V)
  <2>1. \A n \in Nodes : n \notin U[tree.root] => ~q.red[n] BY <1>9, <1>11
  <2>2. Rises(tree, U, key, s, side) /\ SamePointers(tree, c) BY <1>2, <1>7
  <2>3. key \in [Nodes -> Int] OBVIOUS
  <2> QED BY ONLY <1>9, <1>10, <1>12, <2>1, <2>2, <2>3, ColouredRotation
<1>15. RedsTurned(tree, s, side, q)
  <2>1. /\ \A n \in Nodes : n \notin {s, p, outer} => (q.red[n] <=> tree.red[n])
        /\ ~q.red[s] /\ ~Red(tree, x)
        /\ Red(q, outer) => Red(tree, outer)
    BY <1>1, <1>2, <1>3, <1>13 DEF Red
  <2> QED BY <1>2, <1>5, <2>1 DEF RedsTurned, inner, outer
<1>16. F \in [Pointers -> Nat] /\ F[None] = 0 /\ F[p] = E[x] /\ F[s] = E[p]
       /\ \A n \in Pointers : n # p /\ n # s => F[n] = E[n]
  <2>1. \A n \in Pointers : E[n] \in Nat BY <1>1
  <2> QED BY <1>1, <1>2, <2>1 DEF Pointers, F
<1>17. /\ \A n \in Nodes : n # s /\ n # p => M[n] = L[n]
       /\ M[s] = 1 /\ M[p] = 0
  <2>1. \A n \in Nodes :
          L[n] = (IF n = leaf \/ tree.red[n] THEN 0 ELSE 1) + (IF n = x THEN 1 ELSE 0)
    BY Loading DEF L
  <2>2. \A n \in Nodes : M[n] = (IF n = leaf \/ q.red[n] THEN 0 ELSE 1) + (IF n = x THEN 1 ELSE 0)
    BY Loading DEF M
  <2>3. ASSUME NEW n \in Nodes, n # s, n # p PROVE M[n] = L[n]
    <3>1. q.red[n] <=> tree.red[n] BY <1>13, <2>3
    <3> QED BY <2>1, <2>2, <3>1
  <2>4. q.red[p] /\ ~q.red[s] BY <1>2, <1>13
  <2>5. M[s] = 1 BY <1>2, <2>2, <2>4
  <2>6. M[p] = 0 BY <1>2, <2>2, <2>4
  <2> QED BY <2>3, <2>5, <2>6
<1>18. Reweighed(tree, s, side, E, L, F, M)
  <2>1. F[outer] = E[outer] /\ F[x] = E[x] BY <1>2, <1>3, <1>16 DEF Pointers
  <2>2. ASSUME NEW n \in {outer, x}, n # None
        PROVE  \E gain \in Int : F[n] = E[n] + gain /\ M[n] = L[n] + gain
    <3>1. n \in Nodes /\ n # s /\ n # p BY <1>2, <1>3, <2>2
    <3>2. E[n] \in Int /\ L[n] \in Int BY <1>1, <3>1, Loading DEF L, Pointers
    <3>3. F[n] = E[n] + 0 /\ M[n] = L[n] + 0 BY <1>16, <1>17, <3>1, <3>2 DEF Pointers
    <3> QED BY <3>3
  <2>3. \A n \in Pointers : n \notin {s, p, outer, x} => F[n] = E[n] BY <1>16
  <2>4. \A n \in Nodes : n \notin {s, p, outer, x} => M[n] = L[n] BY <1>17
  <2>5. F[None] = E[None] BY <1>1, <1>16
  <2>6. F[p] = E[inner] + M[p] /\ F[p] = F[x] + M[p] BY <1>2, <1>6, <1>16, <1>17, <2>1
  <2>7. F[s] = F[outer] + M[s] /\ F[s] = F[p] + M[s] /\ F[s] = E[p]
    BY <1>2, <1>6, <1>16, <1>17, <2>1
  <2> QED BY <1>2, <2>2, <2>3, <2>4, <2>5, <2>6, <2>7 DEF Reweighed, inner, outer
<1>19. Short(q, V, key, F, leaf, x)
  <2>1. ~q.red[x] BY <1>1, <1>2, <1>13
  <2>2. Heights(F) BY <1>16 DEF Heights
  <2> QED BY <1>2, <1>14, <1>15, <1>18, <2>1, <2>2, TurnedShort DEF L, M
<1>20. q.parent[x] = p /\ q[side][p] = inner /\ q[Other(side)][p] = x
  <2>1. AroundRisen(tree, s, side, q) BY <1>14 DEF Turned
  <2> QED BY <1>2, <1>3, <2>1 DEF AroundRisen, inner
<1>21. Sibling(q, x) = inner
  <2>1. Shaped(q, V, key) BY <1>14 DEF Turned
  <2>2. \A m \in Nodes, other \in Sides : q[other][m] = x => m = p /\ other = SideOf(q, x)
    BY <1>1, <1>2, <1>20, <2>1, Family
  <2>3. SideOf(q, x) = Other(side) BY <1>2, <1>20, <2>2
  <2>4. Other(Other(side)) = side BY <1>2, Order
  <2> QED BY <1>20, <2>3, <2>4 DEF Sibling
<1>22. ~Red(q, inner)
  <2>1. inner # None => inner \in Nodes /\ inner # p /\ inner # s BY <1>3
  <2> QED BY <1>5, <1>13, <2>1 DEF Red
<1> QED BY <1>13, <1>14, <1>19, <1>20, <1>21, <1>22, <1>2 DEF Turned, ShortThere,
        SiblingBlack

\* The far nephew is red, and the sibling black.
FarNephewRed(q, x, p, near, s, side) ==
  /\ q.parent[x] = p /\ Sibling(q, x) = near /\ ~q.red[near]
  /\ SideOf(q, near) = side /\ q[side][near] = s /\ q.red[s]

\* WithRedFarNephew, where only the near one is red.
LEMMA RedNearNephew ==
  ASSUME NEW key \in [Nodes -> Int], NEW tree, NEW U, NEW E, NEW leaf, NEW x \in Nodes,
         Short(tree, U, key, E, leaf, x), NEW p, NEW s, NEW side,
         Kin(tree, U, key, E, leaf, x, p, s, side), ~Red(tree, s),
         NEW near, near = tree[Other(side)][s], Red(tree, near), ~Red(tree, tree[side][s]),
         NEW q, q = SetColours(rotate(tree, near, Other(side)), {s}, {near})
  PROVE  /\ ShortThere(q, key, leaf, x, U[tree.root])
         /\ FarNephewRed(q, x, p, near, s, side)
<1> DEFINE r == rotate(tree, near, Other(side))
           inner == tree[side][near]
           outer == tree[Other(side)][near]
           far == tree[side][s]
           L == Loads(tree, leaf, x)
           M == Loads(q, leaf, x)
           F == [n \in Pointers |-> IF n = s THEN E[near] ELSE IF n = near THEN E[s] ELSE E[n]]
<1>1. /\ Shaped(tree, U, key) /\ leaf \in U[tree.root] /\ ~tree.red[x] /\ ~tree.red[s]
      /\ E \in [Pointers -> Nat] /\ E[None] = 0 /\ None \notin Nodes
      /\ tree \in Trees /\ BlackAbove(tree)
      /\ \A n \in Nodes : n \notin U[tree.root] => ~tree.red[n]
  BY RbTreeAssumption DEF Short, Heights, Shaped, Blank, Kin, Red
<1>2. /\ p \in Nodes /\ s \in Nodes /\ side \in Sides /\ Other(side) \in Sides
      /\ x # p /\ x # s /\ p # s /\ leaf # p /\ leaf # s
      /\ tree.parent[x] = p /\ tree.parent[s] = p
      /\ tree[side][p] = s /\ tree[Other(side)][p] = x
      /\ E[x] \in Nat /\ E[x] > 0 /\ E[s] = E[x]
      /\ SideOf(tree, s) = side
  BY DEF Kin
<1>3. /\ near \in Nodes /\ near \notin {x, p, s, leaf} /\ tree.parent[near] = s
      /\ E[s] = E[near] + Weight(tree, s) /\ tree.red[near]
      /\ far \in Pointers /\ far \notin {x, p, s, leaf}
      /\ E[s] = E[far] + Weight(tree, s)
  BY <1>1, <1>2 DEF Kin, Red
<1>4. \A n \in Nodes : tree.red[n] => ~Red(tree, tree.parent[n]) BY <1>1 DEF BlackAbove, RedAt
<1>5. Other(Other(side)) = side /\ Other(side) # side BY <1>2, Order
<1>6. Rises(tree, U, key, near, Other(side)) BY <1>1, <1>2, <1>3 DEF Rises
<1>7. /\ inner \in Pointers /\ outer \in Pointers /\ inner # near /\ inner # s
      /\ outer # near /\ outer # s /\ far # near
      /\ (inner # None => inner \in Nodes /\ tree.parent[inner] = near)
      /\ (outer # None => outer \in Nodes /\ tree.parent[outer] = near)
  <2>3. key \in [Nodes -> Int] OBVIOUS
  <2>1. /\ tree[Other(Other(side))][near] \in Pointers /\ tree[Other(side)][near] \in Pointers
        /\ tree[Other(Other(side))][near] \notin {near, tree.parent[near]}
        /\ tree[Other(side)][near] \notin {near, tree.parent[near]}
        /\ tree[Other(Other(side))][tree.parent[near]] # near
    BY ONLY <1>6, <2>3, Relatives
  <2>2. \A other \in Sides : tree[other][near] # None =>
          tree[other][near] \in Nodes /\ tree.parent[tree[other][near]] = near
    BY <1>1, <1>3, Child DEF Shaped, Paired
  <2> QED BY <1>2, <1>3, <1>5, <2>1, <2>2
<1>8. ~Red(tree, inner) /\ ~Red(tree, outer)
  BY <1>3, <1>4, <1>7 DEF Red
<1>9. /\ E[s] = E[near] + 1 /\ E[far] = E[near] /\ E[inner] = E[near] /\ E[outer] = E[near]
      /\ E[near] \in Nat
  <2>1. Weight(tree, s) = 1 BY <1>1 DEF Weight
  <2>2. E[near] \in Nat /\ E[far] \in Nat /\ E[inner] \in Nat /\ E[outer] \in Nat
    BY <1>1, <1>3, <1>7 DEF Pointers
  <2>3. L[near] = 0
    <3>1. Loads(tree, leaf, x)[near] = Weight(tree, near) BY <1>3, Loading
    <3> QED BY <1>3, <3>1 DEF Weight
  <2>4. E[near] = E[inner] + L[near] /\ E[near] = E[outer] + L[near]
    BY <1>2, <1>3 DEF Short, Heavy
  <2> QED BY <1>3, <2>1, <2>2, <2>3, <2>4
<1>24. ~Red(tree, far) OBVIOUS
<1>25. E[far] = E[inner] BY <1>9
<1> HIDE DEF r, inner, outer, far, L, M, F
<1>10. r \in Trees /\ r.red = tree.red
  <2>1. Risen(tree, near, Other(side), r) BY <1>6, Rotates DEF r
  <2> QED BY <2>1 DEF Risen
<1>11. SamePointers(r, q) /\ \A n \in Nodes : q.red[n] <=> n = s \/ (n # near /\ tree.red[n])
  <2>1. ColoursSet(r, {s}, {near}, q) BY <1>10, SetsColours DEF r
  <2> QED BY <1>10, <2>1 DEF ColoursSet
<1>12. s \in U[tree.root] BY <1>1, <1>2, <1>3, Parents
<1>13. \A n \in Nodes : n \notin U[tree.root] => ~q.red[n] BY <1>1, <1>11, <1>12
<1>14. PICK V : Turned(tree, U, key, near, Other(side), q, V)
  <2>1. SamePointers(tree, tree) BY <1>1 DEF SamePointers
  <2> QED BY <1>1, <1>6, <1>11, <1>13, <2>1, ColouredRotation DEF r
<1>15. RedsTurned(tree, near, Other(side), q)
  <2>1. \A n \in Nodes : n \notin {near, s, outer} => (q.red[n] <=> tree.red[n]) BY <1>11
  <2>2. ~q.red[near] BY <1>3, <1>11
  <2>3. Red(q, outer) => Red(tree, outer) BY <1>7, <1>11 DEF Red
  <2> QED BY <1>3, <1>5, <1>8, <1>24, <2>1, <2>2, <2>3 DEF RedsTurned, inner, outer, far
<1>16. F \in [Pointers -> Nat] /\ F[None] = 0 /\ F[s] = E[near] /\ F[near] = E[s]
       /\ \A n \in Pointers : n # s /\ n # near => F[n] = E[n]
  <2>1. \A n \in Pointers : E[n] \in Nat BY <1>1
  <2> QED BY <1>1, <1>2, <1>3, <2>1 DEF Pointers, F
<1>17. /\ \A n \in Nodes : n # s /\ n # near => M[n] = L[n]
       /\ M[near] = 1 /\ M[s] = 0
  <2>1. \A n \in Nodes :
          L[n] = (IF n = leaf \/ tree.red[n] THEN 0 ELSE 1) + (IF n = x THEN 1 ELSE 0)
    BY Loading DEF L
  <2>2. \A n \in Nodes : M[n] = (IF n = leaf \/ q.red[n] THEN 0 ELSE 1) + (IF n = x THEN 1 ELSE 0)
    BY Loading DEF M
  <2>3. ASSUME NEW n \in Nodes, n # s, n # near PROVE M[n] = L[n]
    <3>1. q.red[n] <=> tree.red[n] BY <1>11, <2>3
    <3> QED BY <2>1, <2>2, <3>1
  <2>4. q.red[s] /\ ~q.red[near] BY <1>2, <1>3, <1>11
  <2>7. near \in Nodes /\ near # leaf /\ near # x /\ s \in Nodes /\ s # x BY <1>2, <1>3
  <2>5. M[near] = 1 BY ONLY <2>2, <2>4, <2>7
  <2>6. M[s] = 0 BY ONLY <2>2, <2>4, <2>7
  <2> QED BY <2>3, <2>5, <2>6
<1>18. Reweighed(tree, near, Other(side), E, L, F, M)
  <2>1. F[outer] = E[outer] /\ F[far] = E[far] BY <1>3, <1>7, <1>16
  <2>2. ASSUME NEW n \in {outer, far}, n # None
        PROVE  \E gain \in Int : F[n] = E[n] + gain /\ M[n] = L[n] + gain
    <3>1. n \in Nodes /\ n # s /\ n # near BY <1>3, <1>7, <2>2 DEF Pointers
    <3>2. E[n] \in Int /\ L[n] \in Int BY <1>1, <3>1, Loading DEF L, Pointers
    <3>3. F[n] = E[n] + 0 /\ M[n] = L[n] + 0 BY <1>16, <1>17, <3>1, <3>2 DEF Pointers
    <3> QED BY <3>3
  <2>3. \A n \in Pointers : n \notin {near, s, outer, far} => F[n] = E[n] BY <1>16
  <2>4. \A n \in Nodes : n \notin {near, s, outer, far} => M[n] = L[n] BY <1>17
  <2>5. F[None] = E[None] BY <1>1, <1>16
  <2>6. F[s] = E[inner] + M[s] /\ F[s] = F[far] + M[s] BY <1>9, <1>16, <1>17, <2>1
  <2>7. F[near] = F[outer] + M[near] /\ F[near] = F[s] + M[near] /\ F[near] = E[s]
    BY <1>9, <1>16, <1>17, <2>1
  <2>8. tree.parent[near] = s /\ Other(Other(side)) = side BY <1>3, <1>5
  <2> QED BY ONLY <2>2, <2>3, <2>4, <2>5, <2>6, <2>7, <2>8 DEF Reweighed, inner, outer, far
<1>19. Short(q, V, key, F, leaf, x)
  <2>1. ~q.red[x] BY <1>1, <1>2, <1>11
  <2>2. Heights(F) BY <1>16 DEF Heights
  <2> QED BY <1>2, <1>3, <1>6, <1>14, <1>15, <1>18, <2>1, <2>2, TurnedShort DEF L, M
<1>20. q.parent[x] = p /\ q[side][p] = near /\ q[Other(side)][p] = x /\ q[side][near] = s
       /\ q.parent[near] = p
  <2>1. AroundRisen(tree, near, Other(side), q) BY <1>14 DEF Turned
  <2>2. inner # x BY <1>1, <1>2, <1>3, <1>7
  <2>6. tree.parent[near] = s /\ tree.parent[s] = p /\ Other(Other(side)) = side
        /\ tree[side][near] = inner /\ near # x /\ near # p
    BY <1>2, <1>3, <1>5 DEF inner
  <2>7. \A n \in Nodes : n # near /\ n # s /\ n # inner => q.parent[n] = tree.parent[n]
    BY ONLY <2>1, <2>6 DEF AroundRisen
  <2>3. q.parent[x] = p BY <1>2, <2>2, <2>6, <2>7
  <2>4. q[side][near] = s /\ q.parent[near] = p BY <2>1, <2>6 DEF AroundRisen
  <2>8. \A n \in Nodes, other \in Sides : n # near /\ n # s =>
          q[other][n] = IF tree[other][n] = s THEN near ELSE tree[other][n]
    BY ONLY <2>1, <2>6 DEF AroundRisen
  <2>5. \A other \in Sides : q[other][p] = IF tree[other][p] = s THEN near ELSE tree[other][p]
    BY <1>2, <2>6, <2>8
  <2> QED BY <1>2, <2>3, <2>4, <2>5
<1>21. Sibling(q, x) = near /\ SideOf(q, near) = side
  <2>1. Shaped(q, V, key) BY <1>14 DEF Turned
  <2>2. \A m \in Nodes, other \in Sides : q[other][m] = x => m = p /\ other = SideOf(q, x)
    BY <1>1, <1>2, <1>20, <2>1, Family
  <2>3. SideOf(q, x) = Other(side) BY <1>2, <1>20, <2>2
  <2>4. \A m \in Nodes, other \in Sides : q[other][m] = near => m = p /\ other = SideOf(q, near)
    BY <1>1, <1>2, <1>3, <1>20, <2>1, Family
  <2> QED BY <1>2, <1>5, <1>20, <2>3, <2>4 DEF Sibling
<1> QED BY <1>2, <1>3, <1>11, <1>14, <1>19, <1>20, <1>21 DEF Turned, ShortThere,
        FarNephewRed

\* RiseOfSibling, where the far nephew is red: nobody is short any more.
LEMMA SiblingRises ==
  ASSUME NEW key \in [Nodes -> Int], NEW tree, NEW U, NEW E, NEW leaf, NEW x \in Nodes,
         Short(tree, U, key, E, leaf, x), NEW p, NEW s, NEW side,
         Kin(tree, U, key, E, leaf, x, p, s, side), ~Red(tree, s), Red(tree, tree[side][s])
  PROVE  ShortThere(RiseOfSibling(tree, x), key, leaf, None, U[tree.root])
<1> DEFINE q == RiseOfSibling(tree, x)
           r == rotate(tree, s, side)
           inner == tree[Other(side)][s]
           far == tree[side][s]
           L == Loads(tree, leaf, x)
           M == Loads(q, leaf, None)
           F == [n \in Pointers |-> IF n = p THEN E[s] ELSE IF n = s THEN E[p]
                                    ELSE IF n = x THEN E[x] - 1
                                    ELSE IF n = far THEN E[far] + 1 ELSE E[n]]
<1>1. /\ Shaped(tree, U, key) /\ leaf \in U[tree.root] /\ ~tree.red[x] /\ ~tree.red[s]
      /\ E \in [Pointers -> Nat] /\ E[None] = 0 /\ None \notin Nodes
      /\ tree \in Trees /\ BlackAbove(tree)
      /\ \A n \in Nodes : n \notin U[tree.root] => ~tree.red[n]
  BY RbTreeAssumption DEF Short, Heights, Shaped, Blank, Kin, Red
<1>2. /\ p \in Nodes /\ s \in Nodes /\ side \in Sides /\ Other(side) \in Sides
      /\ x # p /\ x # s /\ p # s /\ leaf # p /\ leaf # s
      /\ tree.parent[x] = p /\ tree.parent[s] = p
      /\ tree[side][p] = s /\ tree[Other(side)][p] = x
      /\ E[x] \in Nat /\ E[x] > 0 /\ E[s] = E[x] /\ E[p] = E[x] + Weight(tree, p)
      /\ Rises(tree, U, key, s, side) /\ Sibling(tree, x) = s /\ SideOf(tree, s) = side
  BY DEF Kin
<1>3. /\ inner \in Pointers /\ inner \notin {x, p, s, leaf}
      /\ E[s] = E[inner] + Weight(tree, s)
      /\ far \in Nodes /\ far \notin {x, p, s, leaf} /\ tree.parent[far] = s
      /\ E[s] = E[far] + Weight(tree, s) /\ tree.red[far]
  BY <1>2 DEF Kin, Red
<1>4. inner # far
  <2>1. U[tree[side][s]] \cap U[tree[Other(side)][s]] = {} BY <1>1, <1>2, UnderChild
  <2>2. far \in U[far] BY <1>1, <1>2, <1>3, UnderChild
  <2> QED BY <2>1, <2>2
<1>5. E[s] = E[inner] + 1 /\ E[far] = E[inner] /\ E[inner] \in Nat /\ E[p] \in Nat
      /\ Weight(tree, p) \in Nat
  <2>1. Weight(tree, s) = 1 BY <1>1 DEF Weight
  <2>2. E[far] \in Nat /\ E[inner] \in Nat /\ E[p] \in Nat BY <1>1, <1>2, <1>3 DEF Pointers
  <2>3. Weight(tree, p) \in Nat BY DEF Weight
  <2> QED BY <1>3, <2>1, <2>2, <2>3
<1>6. q = SetColours(r, IF tree.red[p] THEN {s} ELSE {},
                     {p, far} \cup (IF tree.red[p] THEN {} ELSE {s}))
  BY <1>2 DEF RiseOfSibling
<1> HIDE DEF q, r, inner, far, L, M, F
<1>7. r \in Trees /\ r.red = tree.red
  <2>1. Risen(tree, s, side, r) BY <1>2, Rotates DEF r
  <2> QED BY <2>1 DEF Risen
<1>8. SamePointers(r, q) /\ \A n \in Nodes : q.red[n] <=>
         IF n = s THEN tree.red[p] ELSE n # p /\ n # far /\ tree.red[n]
  <2>1. ColoursSet(r, IF tree.red[p] THEN {s} ELSE {},
                   {p, far} \cup (IF tree.red[p] THEN {} ELSE {s}), q)
    BY <1>6, <1>7, SetsColours
  <2>2. \A n \in Nodes : q.red[n] <=>
          (n \in (IF tree.red[p] THEN {s} ELSE {})
           \/ (n \notin {p, far} \cup (IF tree.red[p] THEN {} ELSE {s}) /\ tree.red[n]))
    BY <1>7, <2>1 DEF ColoursSet
  <2> QED BY <1>2, <1>3, <2>1, <2>2 DEF ColoursSet
<1>9. s \in U[tree.root] BY <1>1, <1>2, Parents
<1>10. \A n \in Nodes : n \notin U[tree.root] => ~q.red[n] BY <1>1, <1>8, <1>9
<1>11. PICK V : Turned(tree, U, key, s, side, q, V)
  <2>1. SamePointers(tree, tree) BY <1>1 DEF SamePointers
  <2> QED BY <1>1, <1>2, <1>8, <1>10, <2>1, ColouredRotation DEF r
<1>12. ~q.red[p] /\ ~q.red[far] /\ (q.red[s] <=> tree.red[p]) BY <1>2, <1>3, <1>8
<1>13. RedsTurned(tree, s, side, q)
  <2>1. \A n \in Nodes : n \notin {s, p, far} => (q.red[n] <=> tree.red[n]) BY <1>8
  <2> QED BY <1>2, <1>12, <2>1 DEF RedsTurned, inner, far, Red
<1>14. /\ F \in [Pointers -> Nat] /\ F[None] = 0 /\ F[p] = E[s] /\ F[s] = E[p]
       /\ F[x] = E[x] - 1 /\ F[far] = E[far] + 1
       /\ \A n \in Pointers : n \notin {p, s, x, far} => F[n] = E[n]
  <2>1. \A n \in Pointers : E[n] \in Nat BY <1>1
  <2> QED BY <1>1, <1>2, <1>3, <2>1 DEF Pointers, F
<1>15. \A n \in Nodes : L[n] = (IF n = leaf \/ tree.red[n] THEN 0 ELSE 1) + (IF n = x THEN 1 ELSE 0)
  BY Loading DEF L
<1>16. \A n \in Nodes : M[n] = IF n = leaf \/ q.red[n] THEN 0 ELSE 1
  <2>1. \A n \in Nodes : M[n] = (IF n = leaf \/ q.red[n] THEN 0 ELSE 1)
                                + (IF n = None THEN 1 ELSE 0)
    BY Loading DEF M
  <2> QED BY <1>1, <2>1
<1>17. M[p] = 1 /\ M[s] = Weight(tree, p) BY <1>2, <1>12, <1>16 DEF Weight
<1>18. M[far] = L[far] + 1 /\ L[far] = 0 BY <1>3, <1>12, <1>15, <1>16
<1>19. M[x] = L[x] + (-1)
  <2>1. q.red[x] <=> tree.red[x] BY <1>2, <1>3, <1>8
  <2> QED BY <1>15, <1>16, <2>1
<1>20. ASSUME NEW n \in Nodes, n \notin {p, s, x, far} PROVE M[n] = L[n]
  <2>1. q.red[n] <=> tree.red[n] BY <1>8, <1>20
  <2> QED BY <1>15, <1>16, <1>20, <2>1
<1>21. Reweighed(tree, s, side, E, L, F, M)
  <2>1. ASSUME NEW n \in {far, x}, n # None
        PROVE  \E gain \in Int : F[n] = E[n] + gain /\ M[n] = L[n] + gain
    <3>1. F[far] = E[far] + 1 /\ M[far] = L[far] + 1 BY <1>14, <1>18
    <3>2. F[x] = E[x] + (-1) BY <1>2, <1>14
    <3> QED BY <1>19, <2>1, <3>1, <3>2
  <2>2. \A n \in Pointers : n \notin {s, p, far, x} => F[n] = E[n] BY <1>14
  <2>3. \A n \in Nodes : n \notin {s, p, far, x} => M[n] = L[n] BY <1>20
  <2>4. F[None] = E[None] BY <1>1, <1>14
  <2>7. F[p] = E[inner] + M[p] BY <1>5, <1>14, <1>17
  <2>8. F[p] = E[x] /\ F[x] = E[x] - 1 /\ E[x] \in Nat /\ M[p] = 1 BY <1>2, <1>14, <1>17
  <2>5. F[p] = E[inner] + M[p] /\ F[p] = F[x] + M[p] BY <2>7, <2>8
  <2>6. F[s] = F[far] + M[s] /\ F[s] = F[p] + M[s] /\ F[s] = E[p]
    <3>1. F[s] = E[p] BY <1>14
    <3>2. F[far] = E[inner] + 1 /\ F[p] = E[inner] + 1 BY <1>5, <1>14
    <3>3. E[p] = E[inner] + 1 + Weight(tree, p) BY <1>2, <1>5
    <3> QED BY <1>5, <1>17, <3>1, <3>2, <3>3
  <2> QED BY <1>2, <2>1, <2>2, <2>3, <2>4, <2>5, <2>6 DEF Reweighed, inner, far
<1>22. Short(q, V, key, F, leaf, None)
  <2>1. ~q.red[x] BY <1>1, <1>2, <1>8
  <2>2. Heights(F) BY <1>14 DEF Heights
  <2>3. None \in {x, None} OBVIOUS
  <2> QED BY <1>2, <1>11, <1>13, <1>21, <2>1, <2>2, <2>3, TurnedShort DEF L, M
<1> QED BY <1>11, <1>22 DEF Turned, q, ShortThere

\* Where only the parent is red, it gives its colour to the sibling.
LEMMA RedParent ==
  ASSUME NEW key \in [Nodes -> Int], NEW tree, NEW U, NEW E, NEW leaf, NEW x \in Nodes,
         Short(tree, U, key, E, leaf, x), NEW p, NEW s, NEW side,
         Kin(tree, U, key, E, leaf, x, p, s, side),
         tree.red[p], ~tree.red[s], \A other \in Sides : ~Red(tree, tree[other][s]),
         NEW t, ColoursSet(tree, {s}, {p}, t)
  PROVE  \E F : Short(t, U, key, F, leaf, None) /\ t.root = tree.root
<1> DEFINE L == Loads(tree, leaf, x)
           M == Loads(t, leaf, None)
           F == [n \in Pointers |-> IF n = x \/ n = s THEN E[n] - 1 ELSE E[n]]
<1>1. /\ Shaped(tree, U, key) /\ leaf \in U[tree.root]
      /\ tree.left[leaf] = None /\ tree.right[leaf] = None /\ Heavy(tree, E, L)
      /\ E \in [Pointers -> Nat] /\ E[None] = 0 /\ None \notin Nodes
      /\ tree \in Trees /\ Paired(tree) /\ BlackAbove(tree)
  BY RbTreeAssumption DEF Short, Heights, Shaped
<1>2. /\ p \in Nodes /\ s \in Nodes /\ side \in Sides /\ Other(side) \in Sides
      /\ x # p /\ x # s /\ p # s /\ leaf # p /\ leaf # s
      /\ tree.parent[x] = p /\ tree.parent[s] = p
      /\ tree[side][p] = s /\ tree[Other(side)][p] = x
      /\ E[x] \in Nat /\ E[x] > 0 /\ E[s] = E[x] /\ E[p] = E[x] + Weight(tree, p)
  BY DEF Kin
<1>3. \A other \in Sides : /\ tree[other][s] \in Pointers
                           /\ tree[other][s] \notin {x, p, s, leaf}
                           /\ E[s] = E[tree[other][s]] + Weight(tree, s)
  BY DEF Kin
<1>4. SamePointers(tree, t) /\ \A n \in Nodes : t.red[n] <=> n = s \/ (n # p /\ tree.red[n])
  BY DEF ColoursSet
<1>5. t \in Trees /\ t.root = tree.root /\ t.parent = tree.parent
      /\ \A other \in Sides : t[other] = tree[other]
  BY <1>4 DEF SamePointers, Sides
<1>6. s \in U[tree.root] BY <1>1, <1>2, Parents
<1>7. Shaped(t, U, key)
  <2>1. \A n \in Nodes : n \notin U[tree.root] => ~tree.red[n] BY <1>1 DEF Shaped, Blank
  <2>2. \A n \in Nodes : n \notin U[tree.root] => ~t.red[n] BY <1>4, <1>6, <2>1
  <2> QED BY <1>1, <1>4, <2>2, SameShape
<1>8. \A n \in Nodes : L[n] = (IF n = leaf \/ tree.red[n] THEN 0 ELSE 1) + (IF n = x THEN 1 ELSE 0)
  BY Loading
<1>9. \A n \in Nodes : M[n] = IF n = leaf \/ t.red[n] THEN 0 ELSE 1
  <2>1. \A n \in Nodes : M[n] = (IF n = leaf \/ t.red[n] THEN 0 ELSE 1)
                                + (IF n = None THEN 1 ELSE 0)
    BY Loading
  <2> QED BY <1>1, <2>1
<1>10. \A n \in Nodes, other \in Sides : E[n] = E[tree[other][n]] + L[n] BY <1>1 DEF Heavy
<1>11. /\ F \in [Pointers -> Nat] /\ F[None] = 0 /\ F[x] = E[x] - 1 /\ F[s] = E[s] - 1
       /\ \A n \in Pointers : n # x /\ n # s => F[n] = E[n]
  <2>1. \A n \in Pointers : E[n] \in Nat BY <1>1
  <2> QED BY <1>1, <1>2, <2>1 DEF Pointers
<1> HIDE DEF L, M, F
<1>12. ASSUME NEW n \in Nodes, NEW other \in Sides PROVE F[n] = F[t[other][n]] + M[n]
  <2>1. t[other][n] = tree[other][n] /\ tree[other][n] \in Pointers /\ n \in Pointers
    BY <1>1, <1>5, Child DEF Pointers
  <2>2. E[n] = E[tree[other][n]] + L[n] /\ E[n] \in Nat /\ E[tree[other][n]] \in Nat
    BY <1>1, <1>10, <2>1
  <2>3. other = side \/ other = Other(side) BY <1>2, Order
  <2>4. CASE n = p
    <3>1. M[n] = 1 BY <1>2, <1>4, <1>9, <2>4
    <3>2. F[tree[other][n]] = E[x] - 1 BY <1>2, <1>11, <2>3, <2>4
    <3>3. F[n] = E[x] BY <1>2, <1>11, <2>1, <2>4 DEF Weight
    <3> QED BY <1>2, <2>1, <3>1, <3>2, <3>3
  <2>5. CASE n = s
    <3>1. M[n] = 0 BY <1>2, <1>4, <1>9, <2>5
    <3>2. E[s] = E[tree[other][s]] + 1 /\ tree[other][s] \notin {x, s} BY <1>3 DEF Weight
    <3>3. F[tree[other][n]] = E[tree[other][n]] BY <1>11, <2>1, <2>5, <3>2
    <3> QED BY <1>11, <2>1, <2>2, <2>5, <3>1, <3>2, <3>3
  <2>6. CASE n # p /\ n # s
    <3>1. tree[other][n] # x /\ tree[other][n] # s
      <4>1. tree[other][n] # None => tree.parent[tree[other][n]] = n BY <1>1 DEF Paired
      <4> QED BY <1>1, <1>2, <2>6, <4>1
    <3>2. F[tree[other][n]] = E[tree[other][n]] BY <1>11, <2>1, <3>1
    <3>3. t.red[n] <=> tree.red[n] BY <1>4, <2>6
    <3>4. CASE n = x
      <4>1. L[n] = M[n] + 1 /\ M[n] \in Nat BY <1>2, <1>8, <1>9, <3>3, <3>4
      <4> QED BY <1>11, <2>1, <2>2, <3>2, <3>4, <4>1
    <3>5. CASE n # x
      <4>1. L[n] = M[n] BY <1>8, <1>9, <2>6, <3>3, <3>5
      <4> QED BY <1>11, <2>1, <2>2, <2>6, <3>2, <3>5, <4>1
    <3> QED BY <3>4, <3>5
  <2> QED BY <2>4, <2>5, <2>6
<1>13. BlackAbove(t)
  <2>1. ASSUME NEW n \in Nodes PROVE RedAt(t, n)
    <3> SUFFICES ASSUME t.red[n] PROVE ~Red(t, tree.parent[n]) BY <1>5 DEF RedAt
    <3>1. tree.parent[n] \in Pointers BY <1>1, Fields
    <3>2. CASE n = s BY <1>2, <1>4, <3>2 DEF Red
    <3>3. CASE n # s
      <4>1. tree.red[n] /\ ~Red(tree, tree.parent[n])
        BY <1>1, <1>4, <3>3 DEF BlackAbove, RedAt
      <4>2. tree.parent[n] # s
        <5> SUFFICES ASSUME tree.parent[n] = s PROVE FALSE OBVIOUS
        <5>1. PICK other \in Sides : tree[other][s] = n BY <1>1, <1>2 DEF Paired
        <5> QED BY <1>1, <4>1, <5>1 DEF Red
      <4> QED BY <1>4, <3>1, <4>1, <4>2 DEF Red, Pointers
    <3> QED BY <3>2, <3>3
  <2>2. ~Red(t, t.root)
    <3>1. ~Red(tree, tree.root) /\ tree.root \in Pointers BY <1>1, Fields DEF BlackAbove
    <3>2. tree.root # s BY <1>1, <1>2 DEF Paired
    <3> QED BY <1>4, <1>5, <3>1, <3>2 DEF Red, Pointers
  <2> QED BY <2>1, <2>2 DEF BlackAbove
<1>14. Heavy(t, F, M) BY <1>12 DEF Heavy
<1>15. t.left[leaf] = None /\ t.right[leaf] = None BY <1>1, <1>4 DEF SamePointers
<1>16. Short(t, U, key, F, leaf, None)
  BY <1>1, <1>5, <1>7, <1>11, <1>13, <1>14, <1>15 DEF Short, Heights, M
<1> QED BY <1>5, <1>16

\* Repaired, where the sibling is black.
LEMMA RepairsBlack ==
  ASSUME NEW key \in [Nodes -> Int], NEW tree, NEW U, NEW E, NEW leaf, NEW x \in Nodes,
         Short(tree, U, key, E, leaf, x), tree.parent[x] # None,
         NEW p, p = tree.parent[x], NEW s, s = Sibling(tree, x), ~Red(tree, s),
         Red(tree, p) \/ Red(tree, tree.left[s]) \/ Red(tree, tree.right[s]),
         NEW q,
         q = IF Red(tree, p) /\ ~Red(tree, tree.left[s]) /\ ~Red(tree, tree.right[s])
             THEN SetColours(tree, {s}, {p}) ELSE RiseOfSibling(WithRedFarNephew(tree, x), x)
  PROVE  ShortThere(q, key, leaf, None, U[tree.root])
<1> DEFINE side == SideOf(tree, s)
           near == tree[Other(side)][s]
           far == tree[side][s]
<1>1. Kin(tree, U, key, E, leaf, x, p, s, side) BY ShortKin
<1>2. /\ p \in Nodes /\ s \in Nodes /\ side \in Sides /\ Other(side) \in Sides
      /\ tree \in Trees /\ None \notin Nodes
  BY <1>1, RbTreeAssumption DEF Kin, Short, Shaped
<1>3. ~tree.red[s] BY <1>2 DEF Red
<1> HIDE DEF side, near, far
<1>4. CASE Red(tree, p) /\ ~Red(tree, tree.left[s]) /\ ~Red(tree, tree.right[s])
  <2>1. q = SetColours(tree, {s}, {p}) BY <1>4
  <2>2. ColoursSet(tree, {s}, {p}, q) BY <1>2, <2>1, SetsColours
  <2>3. \A other \in Sides : ~Red(tree, tree[other][s]) BY <1>4 DEF Sides
  <2>4. tree.red[p] BY <1>4 DEF Red
  <2>5. \E F : Short(q, U, key, F, leaf, None) /\ q.root = tree.root
    BY <1>1, <1>3, <2>2, <2>3, <2>4, RedParent
  <2> QED BY <2>5 DEF ShortThere
<1>5. CASE ~(Red(tree, p) /\ ~Red(tree, tree.left[s]) /\ ~Red(tree, tree.right[s]))
  <2>1. q = RiseOfSibling(WithRedFarNephew(tree, x), x) BY <1>5
  <2>2. Red(tree, near) \/ Red(tree, far)
    <3>1. Red(tree, tree["left"][s]) \/ Red(tree, tree["right"][s]) BY <1>5
    <3> QED BY <1>2, <3>1 DEF near, far, Other, Sides
  <2>3. WithRedFarNephew(tree, x) =
          IF ~Red(tree, near) \/ Red(tree, far) THEN tree
          ELSE SetColours(rotate(tree, near, Other(side)), {s}, {near})
    BY DEF WithRedFarNephew, side, near, far
  <2>4. CASE Red(tree, far)
    <3>1. q = RiseOfSibling(tree, x) BY <2>1, <2>3, <2>4
    <3>2. Red(tree, tree[side][s]) BY <2>4 DEF far
    <3> QED BY <1>1, <1>3, <3>1, <3>2, SiblingRises
  <2>5. CASE ~Red(tree, far)
    <3> DEFINE c == SetColours(rotate(tree, near, Other(side)), {s}, {near})
    <3>1. q = RiseOfSibling(c, x) BY <2>1, <2>2, <2>3, <2>5
    <3>2. near = tree[Other(side)][s] /\ Red(tree, near) /\ ~Red(tree, tree[side][s])
      BY <2>2, <2>5 DEF near, far
    <3>8. c = SetColours(rotate(tree, near, Other(side)), {s}, {near}) OBVIOUS
    <3> HIDE DEF c
    <3>3. ShortThere(c, key, leaf, x, U[tree.root]) /\ FarNephewRed(c, x, p, near, s, side)
      BY <1>1, <1>3, <3>2, <3>8, RedNearNephew
    <3>4. PICK W, G : Short(c, W, key, G, leaf, x) /\ W[c.root] = U[tree.root]
      BY <3>3 DEF ShortThere
    <3>5. Kin(c, W, key, G, leaf, x, p, near, side) BY <1>2, <3>3, <3>4, ShortKin DEF FarNephewRed
    <3>6. Red(c, c[side][near]) /\ ~Red(c, near) BY <1>2, <3>3 DEF Red, FarNephewRed
    <3>7. ShortThere(q, key, leaf, None, W[c.root])
      BY <3>1, <3>3, <3>4, <3>5, <3>6, SiblingRises
    <3> QED BY <3>4, <3>7
  <2> QED BY <2>4, <2>5
<1> QED BY <1>4, <1>5

\* Repaired, where somebody around is red.
LEMMA Repairs ==
  ASSUME NEW key \in [Nodes -> Int], NEW tree, NEW U, NEW E, NEW leaf, NEW x \in Nodes,
         Short(tree, U, key, E, leaf, x), tree.parent[x] # None,
         NEW s, s = Sibling(tree, x),
         \/ Red(tree, tree.parent[x]) \/ Red(tree, s)
         \/ Red(tree, tree.left[s]) \/ Red(tree, tree.right[s])
  PROVE  ShortThere(Repaired(tree, x), key, leaf, None, U[tree.root])
<1> DEFINE p == tree.parent[x]
           side == SideOf(tree, s)
           b == WithBlackSibling(tree, x)
           bs == Sibling(b, x)
           q == Repaired(tree, x)
<1>1. Kin(tree, U, key, E, leaf, x, p, s, side) BY ShortKin
<1>2. p \in Nodes /\ s \in Nodes /\ None \notin Nodes BY <1>1, RbTreeAssumption DEF Kin
<1>3. q = IF Red(b, b.parent[x]) /\ ~Red(b, b.left[bs]) /\ ~Red(b, b.right[bs])
          THEN SetColours(b, {bs}, {b.parent[x]})
          ELSE RiseOfSibling(WithRedFarNephew(b, x), x)
  BY DEF Repaired
<1>4. b = IF ~Red(tree, s) THEN tree ELSE rotate(SetColours(tree, {p}, {s}), s, side)
  BY DEF WithBlackSibling
<1> HIDE DEF p, side, b, bs, q
<1>5. /\ ShortThere(b, key, leaf, x, U[tree.root])
      /\ b.parent[x] # None /\ ~Red(b, bs)
      /\ Red(b, b.parent[x]) \/ Red(b, b.left[bs]) \/ Red(b, b.right[bs])
  <2>1. CASE Red(tree, s)
    <3>1. b = rotate(SetColours(tree, {p}, {s}), s, side) BY <1>4, <2>1
    <3>3. ShortThere(b, key, leaf, x, U[tree.root]) /\ SiblingBlack(b, x, p)
      BY <1>1, <2>1, <3>1, RedSibling
    <3>4. Red(b, b.parent[x]) /\ b.parent[x] # None BY <1>2, <3>3 DEF Red, SiblingBlack
    <3> QED BY <3>3, <3>4 DEF bs, SiblingBlack
  <2>2. CASE ~Red(tree, s)
    <3>1. b = tree /\ bs = s BY <1>4, <2>2 DEF bs
    <3>2. ShortThere(tree, key, leaf, x, U[tree.root]) BY DEF ShortThere
    <3>3. Red(tree, tree.parent[x]) \/ Red(tree, tree.left[s]) \/ Red(tree, tree.right[s])
      BY <2>2
    <3> QED BY <2>2, <3>1, <3>2, <3>3
  <2> QED BY <2>1, <2>2
<1>6. PICK W, G : Short(b, W, key, G, leaf, x) /\ W[b.root] = U[tree.root]
  BY <1>5 DEF ShortThere
<1>7. bs = Sibling(b, x) BY DEF bs
<1>8. ShortThere(q, key, leaf, None, W[b.root])
  BY <1>3, <1>5, <1>6, <1>7, RepairsBlack
<1> QED BY <1>6, <1>8 DEF q

-----------------------------------------------------------------------------
(***************************************************************************)
(* A node that goes.                                                       *)
(***************************************************************************)

\* A node that has no child but c, and perhaps not even that.
OnlyChild(tree, node, c) ==
  \E side \in Sides : tree[side][node] = c /\ tree[Other(side)][node] = None

\* s is the tree without the node, whose place c has taken and become black.
Cut(tree, node, c, s) ==
  /\ s \in Trees
  /\ s.root = IF tree.parent[node] = None THEN c ELSE tree.root
  /\ \A m \in Nodes : s.parent[m] = IF m = node THEN None
                                    ELSE IF m = c THEN tree.parent[node] ELSE tree.parent[m]
  /\ \A side \in Sides, m \in Nodes : s[side][m] =
       IF m = node THEN None
       ELSE IF m = tree.parent[node] /\ side = SideOf(tree, node) THEN c ELSE tree[side][m]
  /\ \A m \in Nodes : s.red[m] <=> m # node /\ m # c /\ tree.red[m]

UnderCut(U, node) == [m \in Pointers |-> IF m = node THEN {node} ELSE U[m] \ {node}]

\* Who is who.
CutKin(tree, U, node, c, p, at) ==
  /\ p \in Pointers /\ p = tree.parent[node] /\ p # node /\ c \in Pointers /\ c # node
  /\ c # None => c \in Nodes /\ tree.parent[c] = node /\ c # p /\ c \in U[tree.root]
  /\ p # None => p \in Nodes /\ tree[at][p] = node /\ at \in Sides /\ p \in U[tree.root]
  /\ U[node] = {node} \cup U[c] /\ node \notin U[c]
  /\ \A n \in Nodes, side \in Sides : tree[side][n] = node => n = p /\ side = at
  /\ \A n \in Nodes : tree.parent[n] = node => n = c
  /\ \A side \in Sides : tree[side][node] \in {c, None}
  /\ p = None => tree.root = node
  /\ p # None => tree.root # node

LEMMA CutFamily ==
  ASSUME NEW key \in [Nodes -> Int], NEW tree, NEW U, Shaped(tree, U, key),
         NEW node \in U[tree.root], NEW c, OnlyChild(tree, node, c)
  PROVE  node \in Nodes /\ CutKin(tree, U, node, c, tree.parent[node], SideOf(tree, node))
<1> DEFINE p == tree.parent[node]
           at == SideOf(tree, node)
<1>1. /\ tree \in Trees /\ Spans(tree, U) /\ Paired(tree) /\ None \notin Nodes
      /\ node \in Nodes /\ node \in Pointers
  BY RbTreeAssumption, Parents DEF Shaped, Pointers
<1>2. PICK to \in Sides : tree[to][node] = c /\ tree[Other(to)][node] = None
  BY DEF OnlyChild
<1>3. Other(to) \in Sides /\ Other(to) # to /\ \A side \in Sides : side = to \/ side = Other(to)
  BY Order
<1>4. c \in Pointers /\ (c # None => c \in Nodes /\ tree.parent[c] = node)
  BY <1>1, <1>2, Child DEF Paired
<1>5. c # node
  <2>1. Smaller(U[tree[to][node]], U[node]) BY <1>1, UnderChild
  <2> QED BY <1>2, <2>1 DEF Smaller
<1>6. p \in Pointers /\ p # node
  <2>1. p \in Pointers BY <1>1, Fields
  <2>2. p # None => node # p BY <1>1, Parents
  <2> QED BY <1>1, <2>1, <2>2
<1>7. p # None => p \in Nodes /\ tree[at][p] = node /\ at \in Sides /\ p \in U[tree.root]
  BY <1>1, Family
<1>8. c # None => c # p /\ c \in U[tree.root]
  <2> SUFFICES ASSUME c # None PROVE c # p /\ c \in U[tree.root] OBVIOUS
  <2>1. c \in U[tree.root] /\ Smaller(U[c], U[node]) BY <1>1, <1>4, Parents
  <2>2. p # None => Smaller(U[node], U[p]) BY <1>1, Parents
  <2> QED BY <1>4, <2>1, <2>2, <1>1 DEF Smaller
<1>9. U[node] = {node} \cup U[c] /\ node \notin U[c]
  <2>1. U[node] = {node} \cup U[tree[to][node]] \cup U[tree[Other(to)][node]]
        /\ node \notin U[tree[to][node]]
    BY <1>1, UnderChild
  <2> QED BY <1>1, <1>2, <2>1 DEF Spans
<1>10. \A n \in Nodes, side \in Sides : tree[side][n] = node => n = p /\ side = at
  <2>1. CASE p = None BY <1>1, <2>1 DEF Paired
  <2>2. CASE p # None BY <1>1, <2>2, Family
  <2> QED BY <2>1, <2>2
<1>11. \A side \in Sides : tree[side][node] \in {c, None} BY <1>2, <1>3
<1>12. \A n \in Nodes : tree.parent[n] = node => n = c
  BY <1>1, <1>11 DEF Paired
<1>13. p = None => tree.root = node BY <1>1, Parents
<1>14. p # None => tree.root # node BY <1>1 DEF Paired
<1> HIDE DEF p, at
<1>15. CutKin(tree, U, node, c, p, at)
  BY <1>4, <1>5, <1>6, <1>7, <1>8, <1>9, <1>10, <1>11, <1>12, <1>13, <1>14 DEF CutKin, p
<1> QED BY <1>1, <1>15 DEF p, at

LEMMA CutIsShaped ==
  ASSUME NEW key \in [Nodes -> Int], NEW tree, NEW U, Shaped(tree, U, key),
         NEW node \in U[tree.root], NEW c, OnlyChild(tree, node, c),
         NEW s, Cut(tree, node, c, s)
  PROVE  LET V == UnderCut(U, node)
         IN  Shaped(s, V, key) /\ V[s.root] = U[tree.root] \ {node}
<1> DEFINE p == tree.parent[node]
           at == SideOf(tree, node)
           V == UnderCut(U, node)
<1>1. node \in Nodes /\ CutKin(tree, U, node, c, p, at) BY CutFamily
<1>2. /\ tree \in Trees /\ Spans(tree, U) /\ Sorted(tree, U, key) /\ Paired(tree)
      /\ None \notin Nodes /\ U \in [Pointers -> SUBSET Nodes] /\ U[None] = {}
      /\ \A n \in Nodes : n \notin U[tree.root] => Blank(tree, n)
  BY RbTreeAssumption DEF Shaped, Spans
<1>3. /\ s \in Trees /\ s.root = IF p = None THEN c ELSE tree.root
      /\ \A m \in Nodes : s.parent[m] = IF m = node THEN None
                                        ELSE IF m = c THEN p ELSE tree.parent[m]
  BY DEF Cut
<1>4. \A side \in Sides, m \in Nodes : s[side][m] =
        IF m = node THEN None ELSE IF m = p /\ side = at THEN c ELSE tree[side][m]
  BY DEF Cut
<1>5. \A m \in Nodes : s.red[m] <=> m # node /\ m # c /\ tree.red[m] BY DEF Cut
<1> HIDE DEF p, at
<1>6. /\ p \in Pointers /\ p # node /\ c \in Pointers /\ c # node
      /\ c # None => c \in Nodes /\ tree.parent[c] = node /\ c # p /\ c \in U[tree.root]
      /\ p # None => p \in Nodes /\ tree[at][p] = node /\ at \in Sides /\ p \in U[tree.root]
      /\ p = None => tree.root = node
      /\ p # None => tree.root # node
  BY <1>1 DEF CutKin
<1>7. U[node] = {node} \cup U[c] /\ node \notin U[c] BY <1>1 DEF CutKin
<1>8. /\ \A n \in Nodes, side \in Sides : tree[side][n] = node => n = p /\ side = at
      /\ \A n \in Nodes : tree.parent[n] = node => n = c
  BY <1>1 DEF CutKin
<1>9. V \in [Pointers -> SUBSET Nodes] /\ V[None] = {} /\ V[node] = {node}
      /\ \A m \in Pointers : m # node => V[m] = U[m] \ {node}
  <2>1. \A m \in Pointers : U[m] \subseteq Nodes BY <1>2
  <2> QED BY <1>1, <1>2, <2>1 DEF UnderCut, Pointers
<1> HIDE DEF V
<1>10. \A n \in Nodes, side \in Sides :
         n # node => V[s[side][n]] = U[tree[side][n]] \ {node}
  <2> TAKE n \in Nodes, side \in Sides
  <2> HAVE n # node
  <2>1. CASE n = p /\ side = at
    <3>1. s[side][n] = c /\ tree[side][n] = node BY <1>2, <1>4, <1>6, <2>1
    <3> QED BY <1>6, <1>7, <1>9, <3>1
  <2>2. CASE ~(n = p /\ side = at)
    <3>1. s[side][n] = tree[side][n] /\ tree[side][n] # node BY <1>4, <1>8, <2>2
    <3>2. tree[side][n] \in Pointers BY <1>2, Child
    <3> QED BY <1>9, <3>1, <3>2
  <2> QED BY <2>1, <2>2
<1>11. Sides = {"left", "right"} BY DEF Sides
<1>12. Spans(s, V)
  <2> SUFFICES ASSUME NEW n \in Nodes PROVE V[n] = {n} \cup V[s.left[n]] \cup V[s.right[n]]
    BY <1>9 DEF Spans
  <2>1. CASE n = node
    <3>1. s["left"][n] = None /\ s["right"][n] = None BY <1>4, <1>11, <2>1
    <3> QED BY <1>9, <2>1, <3>1
  <2>2. CASE n # node
    <3>1. U[n] = {n} \cup U[tree.left[n]] \cup U[tree.right[n]] BY <1>2 DEF Spans
    <3>2. V[s["left"][n]] = U[tree["left"][n]] \ {node}
          /\ V[s["right"][n]] = U[tree["right"][n]] \ {node}
      BY <1>10, <1>11, <2>2
    <3>3. V[n] = U[n] \ {node} BY <1>9, <2>2 DEF Pointers
    <3> QED BY <2>2, <3>1, <3>2, <3>3
  <2> QED BY <2>1, <2>2
<1>13. Sorted(s, V, key)
  <2> SUFFICES ASSUME NEW n \in Nodes, NEW side \in Sides, NEW m \in V[s[side][n]]
               PROVE  OnSide(key, side, m, n)
    BY DEF Sorted
  <2>1. n # node BY <1>4, <1>9
  <2>2. m \in U[tree[side][n]] BY <1>10, <2>1
  <2> QED BY <1>2, <2>2 DEF Sorted
<1>14. Paired(s)
  <2>1. ASSUME NEW n \in Nodes, NEW side \in Sides, s[side][n] # None
        PROVE  s.parent[s[side][n]] = n
    <3>1. n # node BY <1>4, <2>1
    <3>2. CASE n = p /\ side = at
      <4>1. s[side][n] = c BY <1>4, <3>1, <3>2
      <4> QED BY <1>3, <1>6, <2>1, <3>2, <4>1
    <3>3. CASE ~(n = p /\ side = at)
      <4>1. s[side][n] = tree[side][n] /\ tree[side][n] # node BY <1>4, <1>8, <3>1, <3>3
      <4>2. tree[side][n] \in Nodes /\ tree.parent[tree[side][n]] = n
        BY <1>2, <2>1, <4>1, Child DEF Paired
      <4>3. tree[side][n] # c BY <1>2, <1>6, <3>1, <4>2
      <4> QED BY <1>3, <4>1, <4>2, <4>3
    <3> QED BY <3>2, <3>3
  <2>2. ASSUME NEW n \in Nodes, s.parent[n] # None
        PROVE  \E side \in Sides : s[side][s.parent[n]] = n
    <3>1. n # node BY <1>3, <2>2
    <3>2. CASE n = c
      <4>1. s.parent[n] = p /\ p # None BY <1>3, <2>2, <3>1, <3>2
      <4>2. s[at][p] = n BY <1>4, <1>6, <3>2, <4>1
      <4> QED BY <1>6, <4>1, <4>2
    <3>3. CASE n # c
      <4>1. s.parent[n] = tree.parent[n] /\ tree.parent[n] # node BY <1>3, <1>8, <3>1, <3>3
      <4>2. PICK side \in Sides : tree[side][tree.parent[n]] = n BY <1>2, <2>2, <4>1 DEF Paired
      <4>3. tree.parent[n] \in Nodes BY <1>2, <2>2, <4>1, Fields DEF Pointers
      <4>4. ~(tree.parent[n] = p /\ side = at) BY <1>2, <1>6, <3>1, <4>2, <4>3
      <4>5. s[side][tree.parent[n]] = n BY <1>4, <4>1, <4>2, <4>3, <4>4
      <4> QED BY <4>1, <4>5
    <3> QED BY <3>2, <3>3
  <2>3. ASSUME s.root # None PROVE s.parent[s.root] = None
    <3>1. CASE p = None BY <1>3, <1>6, <2>3, <3>1
    <3>2. CASE p # None
      <4>1. s.root = tree.root /\ tree.root # node BY <1>3, <1>6, <3>2
      <4>2. tree.root \in Nodes /\ tree.parent[tree.root] = None
        BY <1>2, <2>3, <4>1, Fields DEF Pointers, Paired
      <4>3. tree.root # c BY <1>1, <1>2, <1>6, <4>2
      <4> QED BY <1>3, <4>1, <4>2, <4>3
    <3> QED BY <3>1, <3>2
  <2> QED BY <2>1, <2>2, <2>3 DEF Paired
<1>15. V[s.root] = U[tree.root] \ {node}
  <2>1. CASE p = None BY <1>3, <1>6, <1>7, <1>9, <2>1
  <2>2. CASE p # None
    <3>1. s.root = tree.root /\ tree.root # node /\ tree.root \in Pointers
      BY <1>2, <1>3, <1>6, <2>2, Fields
    <3> QED BY <1>9, <3>1
  <2> QED BY <2>1, <2>2
<1>16. ASSUME NEW n \in Nodes, n \notin V[s.root] PROVE Blank(s, n)
  <2>1. \A side \in Sides : s[side][n] = None
    <3>1. CASE n = node BY <1>4, <3>1
    <3>2. CASE n # node
      <4>1. Blank(tree, n) /\ n # p BY <1>2, <1>6, <1>15, <1>16, <3>2
      <4> QED BY <1>4, <3>2, <4>1 DEF Blank, Sides
    <3> QED BY <3>1, <3>2
  <2>2. s.parent[n] = None
    <3>1. CASE n = node BY <1>3, <3>1
    <3>2. CASE n # node
      <4>1. Blank(tree, n) /\ n # c BY <1>2, <1>6, <1>15, <1>16, <3>2
      <4> QED BY <1>3, <3>2, <4>1 DEF Blank
    <3> QED BY <3>1, <3>2
  <2>3. ~s.red[n]
    <3>1. n # node => Blank(tree, n) BY <1>2, <1>15, <1>16
    <3> QED BY <1>5, <3>1 DEF Blank
  <2> QED BY <1>11, <2>1, <2>2, <2>3 DEF Blank
<1>17. Shaped(s, V, key) BY <1>3, <1>12, <1>13, <1>14, <1>16 DEF Shaped
<1> QED BY <1>15, <1>17 DEF V

\* E counts right for all others, and the same from the node as from c in its place.
CutWeighed(tree, node, c, E, F) ==
  /\ Heights(E) /\ Heights(F) /\ F[node] = 1 /\ F[c] = E[node]
  /\ \A m \in Pointers : m # node /\ m # c => F[m] = E[m]
  /\ c # None => \A side \in Sides : F[c] = E[tree[side][c]] + 1
  /\ \A n \in Nodes : n # node /\ n # c => HeightAt(tree, E, n)

LEMMA CutIsColoured ==
  ASSUME NEW key \in [Nodes -> Int], NEW tree, NEW U, Shaped(tree, U, key),
         NEW node \in U[tree.root], NEW c, OnlyChild(tree, node, c),
         NEW s, Cut(tree, node, c, s), BlackAbove(tree),
         NEW E, NEW F, CutWeighed(tree, node, c, E, F)
  PROVE  Coloured(s, F)
<1> DEFINE p == tree.parent[node]
           at == SideOf(tree, node)
<1>1. node \in Nodes /\ CutKin(tree, U, node, c, p, at) BY CutFamily
<1>2. /\ tree \in Trees /\ Paired(tree) /\ None \notin Nodes
  BY RbTreeAssumption DEF Shaped
<1>3. /\ s \in Trees /\ s.root = IF p = None THEN c ELSE tree.root
      /\ \A m \in Nodes : s.parent[m] = IF m = node THEN None
                                        ELSE IF m = c THEN p ELSE tree.parent[m]
  BY DEF Cut
<1>4. \A side \in Sides, m \in Nodes : s[side][m] =
        IF m = node THEN None ELSE IF m = p /\ side = at THEN c ELSE tree[side][m]
  BY DEF Cut
<1>5. \A m \in Nodes : s.red[m] <=> m # node /\ m # c /\ tree.red[m] BY DEF Cut
<1> HIDE DEF p, at
<1>6. /\ p \in Pointers /\ p # node /\ c \in Pointers /\ c # node
      /\ c # None => c \in Nodes /\ tree.parent[c] = node /\ c # p
      /\ p # None => p \in Nodes /\ tree[at][p] = node /\ at \in Sides
      /\ p = None => tree.root = node
      /\ p # None => tree.root # node
  BY <1>1 DEF CutKin
<1>7. /\ \A n \in Nodes, side \in Sides : tree[side][n] = node => n = p /\ side = at
      /\ \A n \in Nodes : tree.parent[n] = node => n = c
  BY <1>1 DEF CutKin
<1>8. /\ Heights(E) /\ Heights(F) /\ F[node] = 1 /\ F[c] = E[node]
      /\ \A m \in Pointers : m # node /\ m # c => F[m] = E[m]
      /\ c # None => \A side \in Sides : F[c] = E[tree[side][c]] + 1
      /\ \A n \in Nodes : n # node /\ n # c => HeightAt(tree, E, n)
  BY DEF CutWeighed
<1>9. ASSUME NEW n \in Nodes PROVE HeightAt(s, F, n)
  <2> SUFFICES ASSUME NEW side \in Sides PROVE F[n] = F[s[side][n]] + Weight(s, n)
    BY DEF HeightAt
  <2>1. CASE n = node
    <3>1. s[side][n] = None /\ Weight(s, n) = 1 BY <1>4, <1>5, <2>1 DEF Weight
    <3> QED BY <1>8, <2>1, <3>1 DEF Heights
  <2>2. CASE n # node
    <3>1. CASE n = p /\ side = at
      <4>1. s[side][n] = c /\ tree[side][n] = node /\ n # c BY <1>2, <1>4, <1>6, <2>2, <3>1
      <4>2. E[n] = E[node] + Weight(tree, n) BY <1>8, <2>2, <4>1 DEF HeightAt
      <4>3. Weight(s, n) = Weight(tree, n) BY <1>5, <2>2, <4>1 DEF Weight
      <4>4. F[n] = E[n] BY <1>8, <2>2, <4>1 DEF Pointers
      <4> QED BY <1>8, <4>1, <4>2, <4>3, <4>4
    <3>2. CASE ~(n = p /\ side = at)
      <4>1. s[side][n] = tree[side][n] /\ tree[side][n] # node /\ tree[side][n] \in Pointers
        BY <1>2, <1>4, <1>7, <2>2, <3>2, Child
      <4>2. F[tree[side][n]] = E[tree[side][n]]
        <5>1. CASE tree[side][n] = None
          BY <1>8, <5>1 DEF Heights
        <5>2. CASE tree[side][n] # None
          <6>1. tree.parent[tree[side][n]] = n BY <1>2, <5>2 DEF Paired
          <6>2. tree[side][n] # c BY <1>2, <1>6, <2>2, <5>2, <6>1
          <6> QED BY <1>8, <4>1, <6>2
        <5> QED BY <5>1, <5>2
      <4>3. CASE n = c
        <5>1. Weight(s, n) = 1 BY <1>5, <4>3 DEF Weight
        <5> QED BY <1>2, <1>8, <4>1, <4>2, <4>3, <5>1
      <4>4. CASE n # c
        <5>1. Weight(s, n) = Weight(tree, n) BY <1>5, <2>2, <4>4 DEF Weight
        <5>2. E[n] = E[tree[side][n]] + Weight(tree, n) BY <1>8, <2>2, <4>4 DEF HeightAt
        <5> QED BY <1>8, <2>2, <4>1, <4>2, <4>4, <5>1, <5>2 DEF Pointers
      <4> QED BY <4>3, <4>4
    <3> QED BY <3>1, <3>2
  <2> QED BY <2>1, <2>2
<1>10. \A m \in Pointers : Red(s, m) => Red(tree, m) /\ m # node /\ m # c
  BY <1>5 DEF Red, Pointers
<1>11. ASSUME NEW n \in Nodes PROVE RedAt(s, n)
  <2> SUFFICES ASSUME s.red[n] PROVE ~Red(s, s.parent[n]) BY DEF RedAt
  <2>1. n # node /\ n # c /\ tree.red[n] BY <1>5
  <2>2. s.parent[n] = tree.parent[n] /\ tree.parent[n] \in Pointers
    BY <1>2, <1>3, <2>1, Fields
  <2>3. ~Red(tree, tree.parent[n]) BY <2>1 DEF BlackAbove, RedAt
  <2> QED BY <1>10, <2>2, <2>3
<1>12. ~Red(s, s.root)
  <2>1. tree.root \in Pointers /\ ~Red(tree, tree.root) BY <1>2, Fields DEF BlackAbove
  <2> QED BY <1>3, <1>6, <1>10, <2>1
<1> QED BY <1>8, <1>9, <1>11, <1>12 DEF Coloured

\* What is made of the fields of a node that has gone.
Blanked(t, node) == [t EXCEPT !.left[node] = None, !.right[node] = None, !.parent[node] = None,
                              !.red[node] = FALSE]

\* s is the tree with one colour set.
RedSet(tree, n, red, s) ==
  /\ s \in Trees /\ s.root = tree.root /\ s.parent = tree.parent
  /\ \A side \in Sides, m \in Nodes : s[side][m] = tree[side][m]
  /\ \A m \in Nodes : s.red[m] = IF m = n THEN red ELSE tree.red[m]

SetRed(tree, n, red) == [tree EXCEPT !.red[n] = red]

LEMMA SetsRed ==
  ASSUME NEW tree \in Trees, NEW n \in Nodes, NEW red \in BOOLEAN
  PROVE  RedSet(tree, n, red, SetRed(tree, n, red))
<1> DEFINE s == SetRed(tree, n, red)
<1>1. /\ s \in Trees /\ s.root = tree.root /\ s.parent = tree.parent
      /\ s.left = tree.left /\ s.right = tree.right
      /\ s.red = [tree.red EXCEPT ![n] = red]
      /\ tree.red \in [Nodes -> BOOLEAN]
  BY DEF Trees, SetRed
<1> HIDE DEF s
<1>2. \A m \in Nodes : s.red[m] = IF m = n THEN red ELSE tree.red[m] BY <1>1
<1>3. \A side \in Sides : s[side] = tree[side] BY <1>1 DEF Sides
<1> QED BY <1>1, <1>2, <1>3 DEF RedSet, s

LEMMA Blanks ==
  ASSUME NEW t \in Trees, NEW node \in Nodes
  PROVE  LET b == Blanked(t, node)
         IN  /\ b \in Trees /\ b.root = t.root
             /\ \A m \in Nodes : b.parent[m] = IF m = node THEN None ELSE t.parent[m]
             /\ \A side \in Sides, m \in Nodes :
                  b[side][m] = IF m = node THEN None ELSE t[side][m]
             /\ \A m \in Nodes : b.red[m] = (m # node /\ t.red[m])
<1> DEFINE u == SetChild(t, "left", node, None)
           v == SetChild(u, "right", node, None)
           w == SetParent(v, node, None)
           b == SetRed(w, node, FALSE)
<1>1. None \in Pointers /\ None \notin Nodes /\ node \in Pointers /\ node # None
      /\ "left" \in Sides /\ "right" \in Sides
  BY RbTreeAssumption DEF Pointers, Sides
<1>2. Blanked(t, node) = b BY <1>1 DEF Blanked, SetChild, SetParent, SetRed
<1>3. ChildSet(t, "left", node, None, u) BY <1>1, SetsChild
<1> HIDE DEF u
<1>4. ChildSet(u, "right", node, None, v) BY <1>1, <1>3, SetsChild DEF ChildSet
<1> HIDE DEF v
<1>5. ParentSet(v, node, None, w) BY <1>1, <1>4, SetsParent DEF ChildSet
<1> HIDE DEF w
<1>6. RedSet(w, node, FALSE, b) BY <1>5, SetsRed DEF ParentSet
<1> HIDE DEF b
<1>7. b \in Trees /\ b.root = t.root
  BY <1>3, <1>4, <1>5, <1>6 DEF ChildSet, ParentSet, RedSet
<1>8. \A m \in Nodes : b.parent[m] = IF m = node THEN None ELSE t.parent[m]
  BY <1>3, <1>4, <1>5, <1>6 DEF ChildSet, ParentSet, RedSet
<1>9. \A m \in Nodes : b.red[m] = (m # node /\ t.red[m])
  <2> TAKE m \in Nodes
  <2>1. b.red[m] = IF m = node THEN FALSE ELSE t.red[m]
    <3>1. b.red[m] = IF m = node THEN FALSE ELSE w.red[m] BY <1>6 DEF RedSet
    <3>2. w.red = v.red BY <1>5 DEF ParentSet
    <3>3. v.red = u.red BY <1>4 DEF ChildSet
    <3>4. u.red = t.red BY <1>3 DEF ChildSet
    <3> QED BY <3>1, <3>2, <3>3, <3>4
  <2>2. t.red[m] \in BOOLEAN BY Fields
  <2> QED BY <2>1, <2>2
<1>10. ASSUME NEW side \in Sides, NEW m \in Nodes
       PROVE  b[side][m] = IF m = node THEN None ELSE t[side][m]
  <2>1. b[side][m] = v[side][m] BY <1>5, <1>6 DEF ParentSet, RedSet
  <2>2. v[side][m] = IF side = "right" /\ m = node THEN None ELSE u[side][m]
    BY <1>4 DEF ChildSet
  <2>3. u[side][m] = IF side = "left" /\ m = node THEN None ELSE t[side][m]
    BY <1>3 DEF ChildSet
  <2>4. side = "left" \/ side = "right" BY DEF Sides
  <2> QED BY <2>1, <2>2, <2>3, <2>4
<1> QED BY <1>2, <1>7, <1>8, <1>9, <1>10

\* A tree of these nodes whose colours are right.
SoundThere(t, key, members) ==
  \E V, C : Shaped(t, V, key) /\ V[t.root] = members /\ Coloured(t, C)

\* A leaf that is redirected and blanked is cut.
LEMMA LeafIsCut ==
  ASSUME NEW tree \in Trees, NEW node \in Nodes, NEW t, Redirected(tree, node, None, t)
  PROVE  Cut(tree, node, None, Blanked(t, node))
<1> DEFINE b == Blanked(t, node)
<1>1. /\ t \in Trees /\ t.parent = tree.parent /\ t.red = tree.red
      /\ t.root = IF tree.parent[node] = None THEN None ELSE tree.root
  BY DEF Redirected
<1>2. \A side \in Sides, m \in Nodes :
        t[side][m] = IF m = tree.parent[node] /\ side = SideOf(tree, node) THEN None
                     ELSE tree[side][m]
  BY DEF Redirected
<1>3. /\ b \in Trees /\ b.root = t.root
      /\ \A m \in Nodes : b.parent[m] = IF m = node THEN None ELSE t.parent[m]
      /\ \A side \in Sides, m \in Nodes : b[side][m] = IF m = node THEN None ELSE t[side][m]
      /\ \A m \in Nodes : b.red[m] = (m # node /\ t.red[m])
  BY <1>1, Blanks
<1> HIDE DEF b
<1>4. None \notin Nodes BY RbTreeAssumption
<1>5. \A m \in Nodes : b.parent[m] = IF m = node THEN None
                                     ELSE IF m = None THEN tree.parent[node] ELSE tree.parent[m]
  BY <1>1, <1>3, <1>4
<1>6. \A side \in Sides, m \in Nodes : b[side][m] =
        IF m = node THEN None
        ELSE IF m = tree.parent[node] /\ side = SideOf(tree, node) THEN None ELSE tree[side][m]
  BY <1>2, <1>3
<1>7. \A m \in Nodes : b.red[m] <=> m # node /\ m # None /\ tree.red[m] BY <1>1, <1>3, <1>4
<1> QED BY <1>1, <1>3, <1>5, <1>6, <1>7 DEF Cut, b

\* A leaf that is not counted may go.
LEMMA UncountedLeafGoes ==
  ASSUME NEW key \in [Nodes -> Int], NEW tree, NEW U, NEW E, NEW node,
         Short(tree, U, key, E, node, None), NEW t, Redirected(tree, node, None, t)
  PROVE  SoundThere(Blanked(t, node), key, U[tree.root] \ {node})
<1> DEFINE s == Blanked(t, node)
           F == [m \in Pointers |-> IF m = node THEN 1 ELSE E[m]]
           L == Loads(tree, node, None)
<1>1. /\ Shaped(tree, U, key) /\ node \in U[tree.root]
      /\ tree.left[node] = None /\ tree.right[node] = None /\ Heavy(tree, E, L)
      /\ E \in [Pointers -> Nat] /\ E[None] = 0 /\ None \notin Nodes
      /\ tree \in Trees /\ BlackAbove(tree)
  BY RbTreeAssumption DEF Short, Heights, Shaped
<1>2. node \in Nodes BY <1>1, Parents
<1>3. Cut(tree, node, None, s) BY <1>1, <1>2, LeafIsCut
<1>4. OnlyChild(tree, node, None) BY <1>1 DEF OnlyChild, Sides, Other
<1>5. F \in [Pointers -> Nat] /\ F[None] = 0 /\ F[node] = 1
      /\ \A m \in Pointers : m # node => F[m] = E[m]
  <2>1. \A m \in Pointers : E[m] \in Nat BY <1>1
  <2> QED BY <1>1, <1>2, <2>1 DEF Pointers
<1>6. \A n \in Nodes : L[n] = (IF n = node \/ tree.red[n] THEN 0 ELSE 1)
                              + (IF n = None THEN 1 ELSE 0)
  BY Loading
<1> HIDE DEF s, F, L
<1>7. \A n \in Nodes, side \in Sides : E[n] = E[tree[side][n]] + L[n] BY <1>1 DEF Heavy
<1>8. E[node] = 0
  <2>1. L[node] = 0 BY <1>1, <1>2, <1>6
  <2>2. E[node] = E[tree["left"][node]] + L[node] BY <1>2, <1>7 DEF Sides
  <2> QED BY <1>1, <2>1, <2>2
<1>9. ASSUME NEW n \in Nodes, n # node PROVE HeightAt(tree, E, n)
  <2>1. L[n] = Weight(tree, n) BY <1>1, <1>6, <1>9 DEF Weight
  <2> QED BY <1>7, <2>1 DEF HeightAt
<1>10. CutWeighed(tree, node, None, E, F)
  BY <1>1, <1>5, <1>8, <1>9 DEF CutWeighed, Heights
<1>11. Coloured(s, F) BY <1>1, <1>3, <1>4, <1>10, CutIsColoured
<1>12. \E V : Shaped(s, V, key) /\ V[s.root] = U[tree.root] \ {node}
  BY <1>1, <1>3, <1>4, CutIsShaped
<1> QED BY <1>11, <1>12 DEF SoundThere, s

\* u80211_rbtree_remove_leaf.
LEMMA LeafGoes ==
  ASSUME NEW key \in [Nodes -> Int], NEW tree, NEW U, NEW B, NEW node \in U[tree.root],
         Shaped(tree, U, key), Coloured(tree, B),
         tree.left[node] = None, tree.right[node] = None
  PROVE  SoundThere(Blanked(u80211_rbtree_remove_leaf(tree, node), node), key,
                    U[tree.root] \ {node})
<1> DEFINE t == u80211_rbtree_remove_leaf(tree, node)
<1>1. /\ tree \in Trees /\ Paired(tree) /\ None \notin Nodes /\ node \in Nodes
      /\ B \in [Pointers -> Nat] /\ B[None] = 0 /\ None \in Pointers
      /\ \A n \in Nodes : HeightAt(tree, B, n)
      /\ BlackAbove(tree)
  BY RbTreeAssumption, Parents DEF Shaped, Coloured, Heights, BlackAbove, Pointers
<1>2. \A x : \A n \in Nodes : Loads(tree, node, x)[n] =
        (IF n = node \/ tree.red[n] THEN 0 ELSE 1) + (IF n = x THEN 1 ELSE 0)
  BY Loading
<1>3. \A n \in Nodes, side \in Sides : B[n] = B[tree[side][n]] + Weight(tree, n)
  BY <1>1 DEF HeightAt
<1>4. \A side \in Sides : tree[side][node] = None BY DEF Sides
<1>5. CASE tree.root = node
  <2> DEFINE E == [m \in Pointers |-> IF m = node THEN 0 ELSE B[m]]
             L == Loads(tree, node, None)
  <2>1. t = [tree EXCEPT !.root = None] BY <1>5 DEF u80211_rbtree_remove_leaf
  <2>2. tree.parent[node] = None BY <1>1, <1>5 DEF Paired
  <2>3. Redirected(tree, node, None, t)
    <3>1. t \in Trees BY <1>1, <2>1 DEF Trees
    <3>2. t.root = None /\ t.parent = tree.parent /\ t.red = tree.red
          /\ t.left = tree.left /\ t.right = tree.right
      BY <1>1, <2>1 DEF Trees
    <3> HIDE DEF t
    <3>3. \A side \in Sides : t[side] = tree[side] BY <3>2 DEF Sides
    <3> QED BY <1>1, <2>2, <3>1, <3>2, <3>3 DEF Redirected
  <2>4. E \in [Pointers -> Nat] /\ E[None] = 0 /\ E[node] = 0
        /\ \A m \in Pointers : m # node => E[m] = B[m]
    <3>1. \A m \in Pointers : B[m] \in Nat BY <1>1
    <3> QED BY <1>1, <3>1 DEF Pointers
  <2> HIDE DEF E, L, t
  <2>5. ASSUME NEW n \in Nodes, NEW side \in Sides PROVE E[n] = E[tree[side][n]] + L[n]
    <3>1. L[n] = (IF n = node \/ tree.red[n] THEN 0 ELSE 1) + (IF n = None THEN 1 ELSE 0)
      BY <1>2 DEF L
    <3>2. CASE n = node
      <4>1. L[n] = 0 BY <1>1, <3>1, <3>2
      <4> QED BY <1>4, <2>4, <3>2, <4>1
    <3>3. CASE n # node
      <4>1. L[n] = Weight(tree, n) BY <1>1, <3>1, <3>3 DEF Weight
      <4>2. tree[side][n] # node BY <1>1, <2>2 DEF Paired
      <4>3. tree[side][n] \in Pointers /\ n \in Pointers BY <1>1, Child DEF Pointers
      <4> QED BY <1>3, <2>4, <3>3, <4>1, <4>2, <4>3
    <3> QED BY <3>2, <3>3
  <2>6. Short(tree, U, key, E, node, None)
    <3>1. Heavy(tree, E, L) BY <2>5 DEF Heavy
    <3> QED BY <1>1, <2>4, <3>1 DEF Short, Heights, L
  <2> QED BY <2>3, <2>6, UncountedLeafGoes DEF t
<1>6. CASE tree.root # node /\ tree.red[node]
  <2>1. t = Redirect(tree, node, None) BY <1>6 DEF u80211_rbtree_remove_leaf
  <2>2. Redirected(tree, node, None, t) BY <1>1, <2>1, Redirects
  <2> HIDE DEF t
  <2>3. ASSUME NEW n \in Nodes PROVE Loads(tree, node, None)[n] = Weight(tree, n)
    BY <1>1, <1>2, <1>6 DEF Weight
  <2>4. Heavy(tree, B, Loads(tree, node, None)) BY <1>3, <2>3 DEF Heavy
  <2>5. Short(tree, U, key, B, node, None) BY <1>1, <2>4 DEF Short, Heights
  <2> QED BY <2>2, <2>5, UncountedLeafGoes DEF t
<1>7. CASE tree.root # node /\ ~tree.red[node]
  <2> DEFINE end == Raised([tree |-> tree, node |-> node])
             x == end.node
             last == IF end.tree.parent[x] = None THEN end.tree ELSE Repaired(end.tree, x)
             sibling == Sibling(end.tree, x)
  <2>1. t = Redirect(last, node, None) BY <1>7 DEF u80211_rbtree_remove_leaf
  <2>2. ASSUME NEW n \in Nodes PROVE Loads(tree, node, node)[n] = Weight(tree, n)
    <3>1. Loads(tree, node, node)[n] =
            (IF n = node \/ tree.red[n] THEN 0 ELSE 1) + (IF n = node THEN 1 ELSE 0)
      BY <1>2
    <3> QED BY <1>7, <3>1 DEF Weight
  <2>3. Heavy(tree, B, Loads(tree, node, node)) BY <1>3, <2>2 DEF Heavy
  <2>4. node \in U[node] BY <1>1, UnderChild DEF Sides
  <2>5. Short(tree, U, key, B, node, node) BY <1>1, <1>7, <2>3, <2>4 DEF Short, Heights
  <2>6. /\ \E F : Short(end.tree, U, key, F, node, x)
        /\ end.tree.root = tree.root /\ x \in Nodes
        /\ end.tree.parent[x] # None =>
             \E n \in {end.tree.parent[x], sibling, end.tree.left[sibling],
                       end.tree.right[sibling]} : Red(end.tree, n)
    BY <1>1, <2>5, RaisedEnds
  <2>7. PICK F : Short(end.tree, U, key, F, node, x) BY <2>6
  <2> HIDE DEF end, t
  <2>8. ShortThere(last, key, node, None, U[tree.root])
    <3>1. CASE end.tree.parent[x] = None
      <4> HIDE DEF x
      <4>1. \E G : Short(end.tree, U, key, G, node, None) BY <2>6, <2>7, <3>1, RootNotShort
      <4> QED BY <2>6, <3>1, <4>1 DEF ShortThere
    <3>2. CASE end.tree.parent[x] # None
      <4> DEFINE et == end.tree
      <4>1. last = Repaired(et, x) BY <3>2
      <4>2. /\ Short(et, U, key, F, node, x) /\ et.parent[x] # None /\ sibling = Sibling(et, x)
            /\ et.root = tree.root /\ x \in Nodes
        BY <2>6, <2>7, <3>2
      <4>3. \/ Red(et, et.parent[x]) \/ Red(et, sibling)
            \/ Red(et, et.left[sibling]) \/ Red(et, et.right[sibling])
        BY <2>6, <3>2
      <4> HIDE DEF x, last, sibling, et
      <4>4. ShortThere(Repaired(et, x), key, node, None, U[et.root]) BY <4>2, <4>3, Repairs
      <4> QED BY <4>1, <4>2, <4>4
    <3> QED BY <3>1, <3>2
  <2> HIDE DEF last
  <2>9. PICK V, G : Short(last, V, key, G, node, None) /\ V[last.root] = U[tree.root]
    BY <2>8 DEF ShortThere
  <2>10. Redirected(last, node, None, t)
    <3>1. last \in Trees BY <2>9 DEF Short, Shaped
    <3> QED BY <1>1, <2>1, <3>1, Redirects
  <2>11. SoundThere(Blanked(t, node), key, V[last.root] \ {node})
    BY <2>9, <2>10, UncountedLeafGoes
  <2> QED BY <2>9, <2>11 DEF t
<1> QED BY <1>5, <1>6, <1>7

\* Spliced, of a node with one child.
LEMMA SplicedGoes ==
  ASSUME NEW key \in [Nodes -> Int], NEW tree, NEW U, NEW B, NEW node \in U[tree.root],
         Shaped(tree, U, key), Coloured(tree, B),
         NEW c, c # None, OnlyChild(tree, node, c)
  PROVE  SoundThere(Blanked(Spliced(tree, node), node), key, U[tree.root] \ {node})
<1> DEFINE p == tree.parent[node]
           at == SideOf(tree, node)
           red == Redirect(tree, node, c)
           set == SetParent(red, c, p)
           t == SetColours(set, {}, {c})
           s == Blanked(t, node)
           F == [m \in Pointers |-> IF m = node \/ m = c THEN 1 ELSE B[m]]
<1>1. /\ tree \in Trees /\ None \notin Nodes /\ node \in Nodes
      /\ B \in [Pointers -> Nat] /\ B[None] = 0
      /\ \A n \in Nodes : HeightAt(tree, B, n)
      /\ BlackAbove(tree)
  BY RbTreeAssumption, Parents DEF Shaped, Coloured, Heights, BlackAbove
<1>2. CutKin(tree, U, node, c, p, at) BY CutFamily
<1>3. c \in Nodes /\ c \in Pointers /\ p \in Pointers /\ tree.parent[c] = node /\ c # node
  BY <1>2 DEF CutKin
<1>4. PICK to \in Sides : tree[to][node] = c /\ tree[Other(to)][node] = None
  BY DEF OnlyChild
<1>5. Spliced(tree, node) = t
  BY <1>1, <1>4 DEF Spliced, Sides, Other
<1>6. Redirected(tree, node, c, red) BY <1>1, <1>3, Redirects
<1>7. ParentSet(red, c, p, set)
  <2>1. red \in Trees BY <1>6 DEF Redirected
  <2> QED BY <1>3, <2>1, SetsParent
<1>8. ColoursSet(set, {}, {c}, t)
  <2>1. set \in Trees BY <1>7 DEF ParentSet
  <2> QED BY <2>1, SetsColours
<1> HIDE DEF p, at, red, set, t, s, F
<1>9. /\ red \in Trees /\ red.parent = tree.parent /\ red.red = tree.red
      /\ red.root = IF p = None THEN c ELSE tree.root
  BY <1>6 DEF Redirected, p
<1>10. \A side \in Sides, m \in Nodes :
         red[side][m] = IF m = p /\ side = at THEN c ELSE tree[side][m]
  BY <1>6 DEF Redirected, p, at
<1>11. /\ set \in Trees /\ set.red = red.red /\ set.root = red.root
       /\ \A m \in Nodes : set.parent[m] = IF m = c THEN p ELSE red.parent[m]
       /\ \A side \in Sides, m \in Nodes : set[side][m] = red[side][m]
  BY <1>7 DEF ParentSet
<1>12. /\ t \in Trees /\ t.root = set.root /\ t.parent = set.parent
       /\ \A side \in Sides : t[side] = set[side]
       /\ \A m \in Nodes : t.red[m] <=> m # c /\ set.red[m]
  BY <1>8 DEF ColoursSet, SamePointers, Sides
<1>13. /\ s \in Trees /\ s.root = t.root
       /\ \A m \in Nodes : s.parent[m] = IF m = node THEN None ELSE t.parent[m]
       /\ \A side \in Sides, m \in Nodes : s[side][m] = IF m = node THEN None ELSE t[side][m]
       /\ \A m \in Nodes : s.red[m] = (m # node /\ t.red[m])
  BY <1>1, <1>12, Blanks DEF s
<1>14. Cut(tree, node, c, s)
  <2>1. s.root = IF p = None THEN c ELSE tree.root BY <1>9, <1>11, <1>12, <1>13
  <2>2. \A m \in Nodes : s.parent[m] = IF m = node THEN None
                                       ELSE IF m = c THEN p ELSE tree.parent[m]
    BY <1>9, <1>11, <1>12, <1>13
  <2>3. \A side \in Sides, m \in Nodes : s[side][m] =
          IF m = node THEN None ELSE IF m = p /\ side = at THEN c ELSE tree[side][m]
    BY <1>10, <1>11, <1>12, <1>13
  <2>4. \A m \in Nodes : s.red[m] <=> m # node /\ m # c /\ tree.red[m]
    BY <1>9, <1>11, <1>12, <1>13
  <2> QED BY <1>13, <2>1, <2>2, <2>3, <2>4 DEF Cut, p, at
<1>15. /\ B[node] = B[c] + Weight(tree, node) /\ B[node] = 0 + Weight(tree, node)
       /\ B[c] \in Nat /\ \A side \in Sides : B[c] = B[tree[side][c]] + Weight(tree, c)
  <2>1. Other(to) \in Sides BY Order
  <2> QED BY <1>1, <1>3, <1>4, <2>1 DEF HeightAt
<1>16. B[c] = 0 /\ Weight(tree, node) \in Nat /\ Weight(tree, c) \in Nat
  <2>1. Weight(tree, node) \in Nat /\ Weight(tree, c) \in Nat BY DEF Weight
  <2> QED BY <1>15, <2>1
<1>17. \A side \in Sides : B[tree[side][c]] = 0 /\ Weight(tree, c) = 0
  <2> TAKE side \in Sides
  <2>1. tree[side][c] \in Pointers BY <1>1, <1>3, Child
  <2>2. B[tree[side][c]] \in Nat BY <1>1, <2>1
  <2>3. B[c] = B[tree[side][c]] + Weight(tree, c) BY <1>15
  <2> QED BY <1>16, <2>2, <2>3
<1>18. B[node] = 1
  <2>1. Weight(tree, c) = 0 BY <1>4, <1>17
  <2>2. tree.red[c] BY <2>1 DEF Weight
  <2>3. ~tree.red[node] BY <1>1, <1>3, <2>2 DEF BlackAbove, RedAt, Red
  <2> QED BY <1>15, <2>3 DEF Weight
<1>19. F \in [Pointers -> Nat] /\ F[None] = 0 /\ F[node] = 1 /\ F[c] = 1
       /\ \A m \in Pointers : m # node /\ m # c => F[m] = B[m]
  <2>1. \A m \in Pointers : B[m] \in Nat BY <1>1
  <2> QED BY <1>1, <1>3, <2>1 DEF Pointers, F
<1>20. CutWeighed(tree, node, c, B, F)
  BY <1>1, <1>17, <1>18, <1>19 DEF CutWeighed, Heights
<1>21. Coloured(s, F) BY <1>1, <1>14, <1>20, CutIsColoured
<1>22. \E V : Shaped(s, V, key) /\ V[s.root] = U[tree.root] \ {node} BY <1>14, CutIsShaped
<1> QED BY <1>5, <1>21, <1>22 DEF SoundThere, s

-----------------------------------------------------------------------------
(***************************************************************************)
(* As far as one can go.                                                   *)
(***************************************************************************)

\* Where the ways to two nodes part.
Fork(tree, U, x, m, a) ==
  /\ x \in U[a] /\ m \in U[a]
  /\ \/ x = a
     \/ m = a
     \/ \E side \in Sides : x \in U[tree[side][a]] /\ m \in U[tree[Other(side)][a]]

LEMMA Forks ==
  ASSUME NEW key \in [Nodes -> Int], NEW tree, NEW U, Shaped(tree, U, key),
         NEW n \in Nodes, NEW x \in U[n], NEW m \in U[n]
  PROVE  \E a \in U[n] : Fork(tree, U, x, m, a)
<1> DEFINE T == {a \in U[n] : x \in U[a] /\ m \in U[a]}
<1>1. tree \in Trees /\ Spans(tree, U) BY DEF Shaped
<1>2. U \in [Pointers -> SUBSET Nodes] /\ IsFiniteSet(Nodes) /\ U[n] \subseteq Nodes
  BY <1>1, RbTreeAssumption DEF Spans, Pointers
<1>3. T \in SUBSET Pointers /\ T # {}
  <2>1. n \in T BY UnderChild DEF Sides
  <2> QED BY <1>2, <2>1 DEF Pointers
<1>4. PICK a \in T : \A b \in T : ~Smaller(U[b], U[a])
  <2> HIDE DEF T
  <2> QED BY <1>2, <1>3, Lowest
<1>5. a \in Nodes /\ a \in U[n] /\ x \in U[a] /\ m \in U[a] BY <1>2, <1>4
<1>6. ASSUME NEW side \in Sides, x \in U[tree[side][a]] PROVE m \notin U[tree[side][a]]
  <2> SUFFICES ASSUME m \in U[tree[side][a]] PROVE FALSE OBVIOUS
  <2> DEFINE b == tree[side][a]
  <2>1. b \in Pointers /\ b # None BY <1>1, <1>5, <1>6, Child DEF Spans
  <2>2. b \in Nodes BY <2>1 DEF Pointers
  <2>3. U[b] \subseteq U[a] /\ Smaller(U[b], U[a]) /\ b \in U[b]
    BY <1>5, <2>2, UnderChild
  <2>4. b \in U[n]
    <3>1. U[a] \subseteq U[n] BY <1>5, UnderUnder
    <3> QED BY <2>3, <3>1
  <2>5. b \in T BY <1>6, <2>4
  <2> QED BY <1>4, <2>3, <2>5
<1>7. CASE x # a /\ m # a
  <2>1. U[a] = {a} \cup U[tree["left"][a]] \cup U[tree["right"][a]] BY <1>1, <1>5 DEF Spans
  <2>2. CASE x \in U[tree["left"][a]]
    <3>1. m \in U[tree[Other("left")][a]] BY <1>5, <1>6, <1>7, <2>1, <2>2 DEF Sides, Other
    <3> QED BY <1>5, <2>2, <3>1 DEF Fork, Sides
  <2>3. CASE x \in U[tree["right"][a]]
    <3>1. m \in U[tree[Other("right")][a]] BY <1>5, <1>6, <1>7, <2>1, <2>3 DEF Sides, Other
    <3> QED BY <1>5, <2>3, <3>1 DEF Fork, Sides
  <2> QED BY <1>5, <1>7, <2>1, <2>2, <2>3
<1> QED BY <1>5, <1>7 DEF Fork

\* On one side as far as one can go: everybody else is on the other side.
Furthest(tree, U, key, n, side, x) ==
  /\ x \in U[n] /\ tree[side][x] = None
  /\ \A m \in U[n] : m = x \/ OnSide(key, Other(side), m, x)
  /\ \A a \in U[n], other \in Sides : x \in U[tree[other][a]] => other = side

LEMMA OutermostIsFurthest ==
  ASSUME NEW key \in [Nodes -> Int], NEW tree, NEW U, Shaped(tree, U, key),
         NEW n \in Nodes, NEW side \in Sides
  PROVE  Furthest(tree, U, key, n, side, Outermost(tree, n, side))
<1> DEFINE d == [m \in Nodes |-> side]
           way == CHOOSE f : f = [m \in Nodes |->
                    IF tree[side][m] = None THEN m ELSE f[tree[side][m]]]
           x == way[n]
<1>1. d \in [Nodes -> Sides] OBVIOUS
<1>2. Outermost(tree, n, side) = x BY DEF Outermost
<1>3. ASSUME NEW f
      PROVE  GoesDown(tree, d, f) <=>
               f = [m \in Nodes |-> IF tree[side][m] = None THEN m ELSE f[tree[side][m]]]
  <2>1. \A m \in Nodes : d[m] = side OBVIOUS
  <2> HIDE DEF d
  <2> QED BY <2>1 DEF GoesDown
<1>4. \A m \in Nodes : d[m] = side OBVIOUS
<1> HIDE DEF d
<1>5. \E f : GoesDown(tree, d, f) BY <1>1, WaysDown
<1>6. GoesDown(tree, d, way) BY <1>3, <1>5
<1> HIDE DEF way
<1>7. EndOfWay(tree, U, d, n, x) BY <1>1, <1>6, WayDown
<1> HIDE DEF x
<1>8. /\ tree \in Trees /\ Spans(tree, U) /\ Sorted(tree, U, key) /\ U[n] \subseteq Nodes
      /\ U[None] = {}
  BY UnderChild DEF Shaped, Spans, Sides
<1>9. /\ x \in U[n] /\ x \in Nodes /\ tree[side][x] = None
      /\ \A a \in U[n], other \in Sides : x \in U[tree[other][a]] => other = side
  BY <1>4, <1>7, <1>8 DEF EndOfWay
<1>10. ASSUME NEW m \in U[n], m # x PROVE OnSide(key, Other(side), m, x)
  <2>1. PICK a \in U[n] : Fork(tree, U, x, m, a) BY <1>9, Forks
  <2>2. a \in Nodes /\ m \in Nodes /\ Other(side) \in Sides BY <1>8, Order
  <2>3. U[a] = {a} \cup U[tree[side][a]] \cup U[tree[Other(side)][a]] BY <2>2, UnderChild
  <2>4. CASE x = a
    <3>1. m \in U[tree[Other(side)][x]] BY <1>8, <1>9, <1>10, <2>1, <2>3, <2>4 DEF Fork
    <3> QED BY <1>8, <1>9, <2>2, <3>1 DEF Sorted
  <2>5. CASE m = a
    <3>1. x \in U[tree[side][m]] \/ x \in U[tree[Other(side)][m]]
      BY <1>10, <2>1, <2>3, <2>5 DEF Fork
    <3>2. x \in U[tree[side][m]] BY <1>9, <2>2, <3>1, Order
    <3>3. OnSide(key, side, x, m) BY <1>8, <2>2, <3>2 DEF Sorted
    <3> QED BY <1>9, <2>2, <3>3, Order
  <2>6. CASE \E other \in Sides : x \in U[tree[other][a]] /\ m \in U[tree[Other(other)][a]]
    <3>1. PICK other \in Sides : x \in U[tree[other][a]] /\ m \in U[tree[Other(other)][a]]
      BY <2>6
    <3>2. other = side BY <1>9, <3>1
    <3>3. OnSide(key, side, x, a) /\ OnSide(key, Other(side), m, a)
      BY <1>8, <2>2, <3>1, <3>2 DEF Sorted
    <3>4. OnSide(key, Other(side), a, x) BY <1>9, <2>2, <3>3, Order
    <3> QED BY <1>9, <2>2, <3>3, <3>4, Order
  <2> QED BY <2>1, <2>4, <2>5, <2>6 DEF Fork
<1>11. Furthest(tree, U, key, n, side, x) BY <1>9, <1>10 DEF Furthest
<1> QED BY <1>2, <1>11

\* x is the nearest on a side of n.
Nearest(U, key, root, n, side, x) ==
  /\ x \in U[root] /\ OnSide(key, side, x, n)
  /\ \A m \in U[root] : OnSide(key, side, m, n) => m = x \/ OnSide(key, side, m, x)

\* Down on a side, and then the other way as far as one can go.
LEMMA NearestBelow ==
  ASSUME NEW key \in [Nodes -> Int], NEW tree, NEW U, Shaped(tree, U, key),
         NEW n \in U[tree.root], NEW side \in Sides, tree[side][n] # None, NEW x,
         Furthest(tree, U, key, tree[side][n], Other(side), x)
  PROVE  Nearest(U, key, tree.root, n, side, x)
<1> DEFINE r == tree[side][n]
           other == Other(side)
<1>1. /\ tree \in Trees /\ Spans(tree, U) /\ Sorted(tree, U, key) /\ n \in Nodes
      /\ tree.root \in Nodes /\ U[tree.root] \subseteq Nodes /\ other \in Sides
      /\ Other(other) = side /\ \A s \in Sides : s = side \/ s = other
  <2>1. n \in Nodes /\ U[tree.root] # {} BY Parents
  <2> QED BY <2>1, Parents, Fields, Order DEF Shaped, Pointers
<1>2. r \in Nodes /\ U[r] \subseteq U[n] /\ U[n] \subseteq U[tree.root]
  <2>1. r \in Nodes BY <1>1, Child
  <2> QED BY <1>1, <2>1, UnderChild, UnderUnder
<1>3. x \in U[r] /\ \A m \in U[r] : m = x \/ OnSide(key, side, m, x)
  BY <1>1 DEF Furthest
<1>4. x \in U[n] /\ x \in U[tree.root] /\ x \in Nodes BY <1>1, <1>2, <1>3
<1>5. OnSide(key, side, x, n) BY <1>1, <1>3 DEF Sorted
<1>6. ASSUME NEW m \in U[tree.root], OnSide(key, side, m, n)
      PROVE  m = x \/ OnSide(key, side, m, x)
  <2>1. PICK a \in U[tree.root] : Fork(tree, U, n, m, a) BY <1>1, Forks
  <2>2. a \in Nodes /\ m \in Nodes BY <1>1
  <2>3. U[a] = {a} \cup U[tree[side][a]] \cup U[tree[other][a]] BY <2>2, UnderChild
  <2>4. n # m /\ ~OnSide(key, other, m, n) /\ ~OnSide(key, side, n, m)
    BY <1>1, <1>6, <2>2, Order
  <2>5. CASE n = a
    <3>1. m \in U[r] \/ m \in U[tree[other][n]] BY <2>1, <2>3, <2>4, <2>5 DEF Fork
    <3>2. m \notin U[tree[other][n]] BY <1>1, <2>4 DEF Sorted
    <3> QED BY <1>3, <3>1, <3>2
  <2>6. CASE m = a
    <3>1. n \in U[tree[side][m]] \/ n \in U[tree[other][m]]
      BY <2>1, <2>3, <2>4, <2>6 DEF Fork
    <3>2. n \notin U[tree[side][m]] BY <1>1, <2>2, <2>4 DEF Sorted
    <3>3. n \in U[tree[other][m]] BY <3>1, <3>2
    <3>4. x \in U[tree[other][m]]
      <4>1. tree[other][m] \in Nodes BY <1>1, <2>2, <3>3, Child DEF Spans
      <4>2. U[n] \subseteq U[tree[other][m]] BY <3>3, <4>1, UnderUnder
      <4> QED BY <1>4, <4>2
    <3>5. OnSide(key, other, x, m) BY <1>1, <2>2, <3>4 DEF Sorted
    <3> QED BY <1>1, <1>4, <2>2, <3>5, Order
  <2>7. CASE \E s \in Sides : n \in U[tree[s][a]] /\ m \in U[tree[Other(s)][a]]
    <3>1. PICK s \in Sides : n \in U[tree[s][a]] /\ m \in U[tree[Other(s)][a]] BY <2>7
    <3>2. OnSide(key, s, n, a) /\ OnSide(key, Other(s), m, a)
      BY <1>1, <2>2, <3>1, Order DEF Sorted
    <3>3. OnSide(key, s, a, m) BY <2>2, <3>2, Order
    <3>4. OnSide(key, s, n, m) BY <1>1, <2>2, <3>2, <3>3, Order
    <3>5. s = other BY <1>1, <2>4, <3>4
    <3>6. x \in U[tree[other][a]]
      <4>1. tree[s][a] \in Nodes BY <1>1, <2>2, <3>1, Child DEF Spans
      <4>2. U[n] \subseteq U[tree[s][a]] BY <3>1, <4>1, UnderUnder
      <4> QED BY <1>4, <3>5, <4>2
    <3>7. OnSide(key, other, x, a) BY <1>1, <2>2, <3>6 DEF Sorted
    <3>8. OnSide(key, other, x, m) BY <1>1, <1>4, <2>2, <3>3, <3>5, <3>7, Order
    <3> QED BY <1>1, <1>4, <2>2, <3>8, Order
  <2> QED BY <2>1, <2>5, <2>6, <2>7 DEF Fork
<1> QED BY <1>4, <1>5, <1>6 DEF Nearest

-----------------------------------------------------------------------------
(***************************************************************************)
(* Nodes that change places.                                               *)
(***************************************************************************)

\* Two pointers exchanged.
Swap(a, b) == [m \in Pointers |-> IF m = a THEN b ELSE IF m = b THEN a ELSE m]

\* s is the tree with a and b in each other's places.
Swapped(tree, a, b, s) ==
  LET pi == Swap(a, b)
  IN  /\ s \in Trees /\ s.root = pi[tree.root]
      /\ \A m \in Nodes : /\ s.parent[m] = pi[tree.parent[pi[m]]]
                          /\ s.red[m] = tree.red[pi[m]]
      /\ \A side \in Sides, m \in Nodes : s[side][m] = pi[tree[side][pi[m]]]

UnderSwap(U, pi) == [m \in Pointers |-> {q \in Nodes : pi[q] \in U[pi[m]]}]

LEMMA SwapTwice ==
  ASSUME NEW a \in Nodes, NEW b \in Nodes
  PROVE  LET pi == Swap(a, b)
         IN  /\ pi \in [Pointers -> Pointers] /\ pi[None] = None
             /\ \A m \in Nodes : pi[m] \in Nodes
             /\ \A m \in Pointers : pi[pi[m]] = m
             /\ pi[a] = b /\ pi[b] = a /\ \A m \in Pointers : m # a /\ m # b => pi[m] = m
  BY RbTreeAssumption DEF Swap, Pointers

\* What pi is when it exchanges a and b.
Exchanges(pi, a, b) ==
  /\ pi \in [Pointers -> Pointers] /\ pi[None] = None
  /\ \A m \in Nodes : pi[m] \in Nodes
  /\ pi[a] = b /\ pi[b] = a /\ \A m \in Pointers : m # a /\ m # b => pi[m] = m

LEMMA SwapIs ==
  ASSUME NEW a \in Nodes, NEW b \in Nodes
  PROVE  Exchanges(Swap(a, b), a, b)
  BY RbTreeAssumption DEF Swap, Pointers, Exchanges

LEMMA SwappedIsShaped ==
  ASSUME NEW key \in [Nodes -> Int], NEW tree, NEW U, Shaped(tree, U, key),
         NEW a \in U[tree.root], NEW b \in U[tree.root], NEW s, Swapped(tree, a, b, s)
  PROVE  LET pi == Swap(a, b)
             V == UnderSwap(U, pi)
             other == [m \in Nodes |-> key[pi[m]]]
         IN  Shaped(s, V, other) /\ V[s.root] = U[tree.root]
<1> DEFINE pi == Swap(a, b)
           V == UnderSwap(U, pi)
           other == [m \in Nodes |-> key[pi[m]]]
<1>1. /\ tree \in Trees /\ Spans(tree, U) /\ Sorted(tree, U, key) /\ Paired(tree)
      /\ U \in [Pointers -> SUBSET Nodes] /\ U[None] = {} /\ None \notin Nodes
      /\ None \in Pointers /\ Nodes \subseteq Pointers
      /\ \A n \in Nodes : n \notin U[tree.root] => Blank(tree, n)
      /\ a \in Nodes /\ b \in Nodes
  BY RbTreeAssumption, Parents DEF Shaped, Spans, Pointers
<1>2. /\ pi \in [Pointers -> Pointers] /\ pi[None] = None
      /\ \A m \in Nodes : pi[m] \in Nodes
      /\ \A m \in Pointers : pi[pi[m]] = m
      /\ pi[a] = b /\ pi[b] = a /\ \A m \in Pointers : m # a /\ m # b => pi[m] = m
  <2>1. a \in Nodes /\ b \in Nodes BY <1>1
  <2> QED BY ONLY <2>1, SwapTwice
<1>3. /\ s \in Trees /\ s.root = pi[tree.root]
      /\ \A m \in Nodes : s.parent[m] = pi[tree.parent[pi[m]]] /\ s.red[m] = tree.red[pi[m]]
      /\ \A side \in Sides, m \in Nodes : s[side][m] = pi[tree[side][pi[m]]]
  BY DEF Swapped
<1>4. /\ V \in [Pointers -> SUBSET Nodes]
      /\ \A m \in Pointers : V[m] = {q \in Nodes : pi[q] \in U[pi[m]]}
  BY DEF UnderSwap
<1>5. other \in [Nodes -> Int] /\ \A m \in Nodes : other[m] = key[pi[m]] BY <1>2
<1> HIDE DEF pi, V, other
<1>6. V[None] = {} BY <1>1, <1>2, <1>4
<1>7. ASSUME NEW side \in Sides, NEW m \in Nodes
      PROVE  /\ tree[side][pi[m]] \in Pointers
             /\ V[s[side][m]] = {q \in Nodes : pi[q] \in U[tree[side][pi[m]]]}
  <2>1. pi[m] \in Nodes BY <1>2
  <2>2. tree[side][pi[m]] \in Pointers BY <1>1, <2>1, Child
  <2>3. s[side][m] = pi[tree[side][pi[m]]] BY <1>3
  <2>4. s[side][m] \in Pointers /\ pi[s[side][m]] = tree[side][pi[m]] BY <1>2, <2>2, <2>3
  <2> QED BY <1>4, <2>2, <2>4
<1>8. Spans(s, V)
  <2> SUFFICES ASSUME NEW n \in Nodes PROVE V[n] = {n} \cup V[s.left[n]] \cup V[s.right[n]]
    BY <1>4, <1>6 DEF Spans
  <2>1. pi[n] \in Nodes /\ n \in Pointers BY <1>1, <1>2
  <2>2. U[pi[n]] = {pi[n]} \cup U[tree["left"][pi[n]]] \cup U[tree["right"][pi[n]]]
    BY <1>1, <2>1 DEF Spans
  <2>3. /\ V[s["left"][n]] = {q \in Nodes : pi[q] \in U[tree["left"][pi[n]]]}
        /\ V[s["right"][n]] = {q \in Nodes : pi[q] \in U[tree["right"][pi[n]]]}
    BY <1>7 DEF Sides
  <2>4. V[n] = {q \in Nodes : pi[q] \in U[pi[n]]} BY <1>4, <2>1
  <2>5. \A q \in Nodes : pi[q] = pi[n] <=> q = n BY <1>1, <1>2
  <2> QED BY <2>2, <2>3, <2>4, <2>5
<1>9. Sorted(s, V, other)
  <2> SUFFICES ASSUME NEW n \in Nodes, NEW side \in Sides, NEW m \in V[s[side][n]]
               PROVE  OnSide(other, side, m, n)
    BY DEF Sorted
  <2>1. m \in Nodes /\ pi[m] \in U[tree[side][pi[n]]] BY <1>7
  <2>2. OnSide(key, side, pi[m], pi[n]) BY <1>1, <1>2, <2>1 DEF Sorted
  <2> QED BY <1>5, <2>1, <2>2 DEF OnSide
<1>10. Paired(s)
  <2>1. ASSUME NEW n \in Nodes, NEW side \in Sides, s[side][n] # None
        PROVE  s.parent[s[side][n]] = n
    <3> DEFINE c == tree[side][pi[n]]
    <3>1. pi[n] \in Nodes /\ c \in Pointers /\ s[side][n] = pi[c] BY <1>2, <1>3, <1>7
    <3>2. c # None BY <1>2, <2>1, <3>1
    <3>3. tree.parent[c] = pi[n] /\ c \in Nodes BY <1>1, <3>1, <3>2 DEF Paired, Pointers
    <3> HIDE DEF c
    <3>4. pi[c] \in Nodes /\ pi[pi[c]] = c /\ pi[pi[n]] = n BY <1>1, <1>2, <3>3
    <3> QED BY <1>3, <3>1, <3>3, <3>4
  <2>2. ASSUME NEW n \in Nodes, s.parent[n] # None
        PROVE  \E side \in Sides : s[side][s.parent[n]] = n
    <3> DEFINE p == tree.parent[pi[n]]
    <3>1. pi[n] \in Nodes /\ s.parent[n] = pi[p] BY <1>2, <1>3
    <3>2. p \in Pointers BY <1>1, <3>1, Fields
    <3>3. p # None BY <1>2, <2>2, <3>1
    <3>4. p \in Nodes BY <3>2, <3>3 DEF Pointers
    <3>5. PICK side \in Sides : tree[side][p] = pi[n] BY <1>1, <3>1, <3>3 DEF Paired
    <3> HIDE DEF p
    <3>6. pi[p] \in Nodes /\ pi[pi[p]] = p /\ pi[pi[n]] = n BY <1>1, <1>2, <3>4
    <3> QED BY <1>3, <3>1, <3>5, <3>6
  <2>3. s.root # None => s.parent[s.root] = None
    <3> SUFFICES ASSUME s.root # None PROVE s.parent[s.root] = None OBVIOUS
    <3>1. tree.root \in Pointers /\ tree.root # None BY <1>1, <1>2, <1>3, Fields
    <3>2. tree.root \in Nodes /\ tree.parent[tree.root] = None BY <1>1, <3>1 DEF Pointers, Paired
    <3>3. s.root \in Nodes /\ pi[s.root] = tree.root BY <1>1, <1>2, <1>3, <3>2
    <3> QED BY <1>2, <1>3, <3>2, <3>3
  <2> QED BY <2>1, <2>2, <2>3 DEF Paired
<1>11. V[s.root] = U[tree.root]
  <2>1. tree.root \in Pointers /\ U[tree.root] \subseteq Nodes BY <1>1, Fields
  <2>2. s.root \in Pointers /\ pi[s.root] = tree.root BY <1>2, <1>3, <2>1
  <2>3. V[s.root] = {q \in Nodes : pi[q] \in U[tree.root]} BY <1>4, <2>2
  <2>4. \A q \in Nodes : pi[q] \in U[tree.root] <=> q \in U[tree.root]
    BY <1>1, <1>2
  <2> QED BY <2>1, <2>3, <2>4
<1>12. ASSUME NEW n \in Nodes, n \notin U[tree.root] PROVE Blank(s, n)
  <2>1. Blank(tree, n) /\ pi[n] = n BY <1>1, <1>2, <1>12
  <2>2. tree["left"][n] = None /\ tree["right"][n] = None BY <2>1 DEF Blank
  <2>3. s["left"][n] = None /\ s["right"][n] = None BY <1>2, <1>3, <2>1, <2>2 DEF Sides
  <2> QED BY <1>2, <1>3, <2>1, <2>3 DEF Blank
<1>13. Shaped(s, V, other) BY <1>3, <1>8, <1>9, <1>10, <1>11, <1>12 DEF Shaped
<1> QED BY <1>11, <1>13 DEF pi, V, other

LEMMA SwappedIsColoured ==
  ASSUME NEW tree \in Trees, NEW B, Coloured(tree, B), NEW a \in Nodes, NEW b \in Nodes,
         NEW s, Swapped(tree, a, b, s)
  PROVE  LET pi == Swap(a, b) IN Coloured(s, [m \in Pointers |-> B[pi[m]]])
<1> DEFINE pi == Swap(a, b)
           C == [m \in Pointers |-> B[pi[m]]]
<1>1. /\ pi \in [Pointers -> Pointers] /\ pi[None] = None
      /\ \A m \in Nodes : pi[m] \in Nodes
      /\ \A m \in Pointers : pi[pi[m]] = m
  BY SwapTwice
<1>2. /\ s \in Trees
      /\ \A m \in Nodes : s.parent[m] = pi[tree.parent[pi[m]]] /\ s.red[m] = tree.red[pi[m]]
      /\ \A side \in Sides, m \in Nodes : s[side][m] = pi[tree[side][pi[m]]]
  BY DEF Swapped
<1>3. B \in [Pointers -> Nat] /\ B[None] = 0 BY DEF Coloured, Heights
<1>4. None \in Pointers /\ Nodes \subseteq Pointers BY DEF Pointers
<1>5. C \in [Pointers -> Nat] /\ \A m \in Pointers : C[m] = B[pi[m]] BY <1>1, <1>3
<1> HIDE DEF pi, C
<1>6. Heights(C) BY <1>1, <1>3, <1>4, <1>5 DEF Heights
<1>7. ASSUME NEW n \in Nodes PROVE HeightAt(s, C, n)
  <2>1. pi[n] \in Nodes /\ HeightAt(tree, B, pi[n]) BY <1>1 DEF Coloured
  <2>2. Weight(s, n) = Weight(tree, pi[n]) BY <1>2 DEF Weight
  <2>3. ASSUME NEW side \in Sides PROVE C[s[side][n]] = B[tree[side][pi[n]]]
    <3>1. tree[side][pi[n]] \in Pointers BY <2>1, Child
    <3>2. s[side][n] = pi[tree[side][pi[n]]] BY <1>2
    <3> QED BY <1>1, <1>5, <3>1, <3>2
  <2>4. C[n] = B[pi[n]] BY <1>4, <1>5
  <2> QED BY <2>1, <2>2, <2>3, <2>4 DEF HeightAt
<1>8. ASSUME NEW n \in Nodes PROVE RedAt(s, n)
  <2>1. pi[n] \in Nodes /\ RedAt(tree, pi[n]) BY <1>1 DEF Coloured
  <2>2. tree.parent[pi[n]] \in Pointers BY <2>1, Fields
  <2>3. s.red[n] = tree.red[pi[n]] /\ s.parent[n] = pi[tree.parent[pi[n]]] BY <1>2
  <2> DEFINE p == tree.parent[pi[n]]
  <2>4. Red(s, s.parent[n]) <=> Red(tree, p)
    <3>1. CASE p = None BY <1>1, <2>3, <3>1 DEF Red
    <3>2. CASE p # None
      <4>1. p \in Nodes BY <2>2, <3>2 DEF Pointers
      <4>2. pi[p] \in Nodes /\ pi[pi[p]] = p BY <1>1, <1>4, <4>1
      <4>3. s.red[pi[p]] = tree.red[p] /\ pi[p] # None /\ p # None
        BY <1>2, <4>1, <4>2, RbTreeAssumption
      <4> QED BY <2>3, <4>3 DEF Red
    <3> QED BY <3>1, <3>2
  <2> HIDE DEF p
  <2> QED BY <2>1, <2>3, <2>4 DEF RedAt, p
<1>9. ~Red(s, s.root)
  <2>1. tree.root \in Pointers /\ ~Red(tree, tree.root) /\ s.root = pi[tree.root]
    BY Fields DEF Coloured, Swapped, pi
  <2>2. CASE tree.root = None BY <1>1, <2>1, <2>2 DEF Red
  <2>3. CASE tree.root # None
    <3>1. tree.root \in Nodes /\ pi[tree.root] \in Nodes /\ pi[pi[tree.root]] = tree.root
      BY <1>1, <1>4, <2>1, <2>3 DEF Pointers
    <3>2. s.red[s.root] = tree.red[tree.root] BY <1>2, <2>1, <3>1
    <3> QED BY <2>1, <2>3, <3>2 DEF Red
  <2> QED BY <2>2, <2>3
<1>10. Coloured(s, C) BY <1>6, <1>7, <1>8, <1>9 DEF Coloured
<1> QED BY <1>10 DEF pi, C

\* Who is who when a node changes places with its successor.
ExchangeKin(tree, node, x, l, r, c, p, sp) ==
  /\ {node, x, l, r, sp} \subseteq Nodes /\ {p, c} \subseteq Pointers
  /\ l = tree.left[node] /\ r = tree.right[node] /\ p = tree.parent[node]
  /\ sp = tree.parent[x] /\ c = tree.right[x] /\ tree.left[x] = None
  /\ x # node /\ l # node /\ r # node /\ l # x /\ l # r /\ l # c /\ l # sp
  /\ c # node /\ c # x /\ c # r /\ p # node /\ p # x /\ p # l /\ p # r /\ p # sp
  /\ sp # x /\ (sp = node <=> r = x)
  /\ \A m \in Nodes : /\ tree.parent[m] = node <=> m = l \/ m = r
                      /\ tree.parent[m] = x <=> m = c
  /\ \A side \in Sides, m \in Nodes :
       /\ tree[side][m] = node <=> m = p /\ side = SideOf(tree, node)
       /\ tree[side][m] = x <=> m = sp /\ side = IF sp = node THEN "right" ELSE "left"
  /\ tree.root # x /\ (p = None <=> tree.root = node)

LEMMA ExchangeFamily ==
  ASSUME NEW key \in [Nodes -> Int], NEW tree, NEW U, Shaped(tree, U, key),
         NEW node \in U[tree.root], tree.left[node] # None, tree.right[node] # None, NEW x,
         Furthest(tree, U, key, tree.right[node], "left", x)
  PROVE  ExchangeKin(tree, node, x, tree.left[node], tree.right[node], tree.right[x],
                     tree.parent[node], tree.parent[x])
<1> DEFINE l == tree.left[node]
           r == tree.right[node]
           c == tree.right[x]
           p == tree.parent[node]
           sp == tree.parent[x]
<1>1. /\ tree \in Trees /\ Spans(tree, U) /\ Paired(tree) /\ None \notin Nodes
      /\ node \in Nodes /\ Nodes \subseteq Pointers /\ U[None] = {}
  BY RbTreeAssumption, Parents DEF Shaped, Pointers, Spans
<1>2. "left" \in Sides /\ "right" \in Sides /\ Other("left") = "right" /\ Other("right") = "left"
      /\ \A side \in Sides : side = "left" \/ side = "right"
  BY DEF Sides, Other
<1>3. l = tree["left"][node] /\ r = tree["right"][node] /\ c = tree["right"][x] OBVIOUS
<1>4. \A n \in Nodes, side \in Sides : tree[side][n] # None =>
        tree[side][n] \in Nodes /\ tree.parent[tree[side][n]] = n
  BY <1>1, Child DEF Paired
<1>5. l \in Nodes /\ r \in Nodes /\ tree.parent[l] = node /\ tree.parent[r] = node
  BY <1>1, <1>2, <1>3, <1>4
<1>6. /\ node \notin U[r] /\ node \notin U[l] /\ U[l] \cap U[r] = {}
      /\ U[r] \subseteq Nodes /\ U[r] \subseteq U[node]
  <2>1. /\ node \notin U[tree["right"][node]] /\ node \notin U[tree["left"][node]]
        /\ U[tree["left"][node]] \cap U[tree[Other("left")][node]] = {}
        /\ U[tree["right"][node]] \subseteq Nodes
        /\ U[tree["right"][node]] \subseteq U[node]
    BY <1>1, <1>2, UnderChild
  <2> QED BY <1>2, <2>1
<1>7. /\ x \in U[r] /\ tree["left"][x] = None
      /\ \A a \in U[r], side \in Sides : x \in U[tree[side][a]] => side = "left"
  BY DEF Furthest
<1>8. x \in Nodes /\ l \in U[l] /\ r \in U[r] /\ x \in U[x] BY <1>2, <1>5, <1>6, <1>7, UnderChild
<1>9. x # node /\ l # node /\ r # node /\ l # x /\ l # r BY <1>5, <1>6, <1>7, <1>8
<1>10. c \in Pointers /\ (c # None => c \in Nodes /\ tree.parent[c] = x)
  BY <1>1, <1>2, <1>3, <1>4, <1>8, Child
<1>11. l # c /\ c # r /\ c # x
  <2>1. c # None => c # x
    <3>1. c # None => c # tree.parent[c] BY <1>10, Parents, <1>8, <1>1
    <3> QED BY <1>10, <3>1
  <2> QED BY <1>1, <1>5, <1>8, <1>9, <1>10, <2>1
<1>12. c # node
  <2>1. U[tree["right"][x]] \subseteq U[x] BY <1>2, <1>8, UnderChild
  <2>2. U[x] \subseteq U[r] BY <1>5, <1>7, UnderUnder
  <2>3. node \in U[node] BY <1>1, <1>2, UnderChild
  <2> QED BY <1>3, <1>6, <2>1, <2>2, <2>3
<1>13. x # r => sp \in U[r] BY <1>5, <1>7, UnderUnder
<1>14. sp = node <=> r = x BY <1>5, <1>6, <1>13
<1>15. sp \in Nodes /\ sp # x /\ l # sp
  <2>1. CASE r = x BY <1>1, <1>9, <1>14, <2>1
  <2>2. CASE r # x
    <3>1. sp \in Nodes /\ sp # l BY <1>6, <1>8, <1>13, <2>2
    <3>2. sp # None BY <1>1, <3>1
    <3>3. sp # x BY <1>8, <3>2, Parents
    <3> QED BY <3>1, <3>3
  <2> QED BY <2>1, <2>2
<1>16. /\ p \in Pointers /\ p # node
       /\ p # None => p \in Nodes /\ p \notin U[node] /\ tree[SideOf(tree, node)][p] = node
                      /\ \A m \in Nodes, other \in Sides :
                           tree[other][m] = node => m = p /\ other = SideOf(tree, node)
  <2>1. p \in Pointers BY <1>1, Fields
  <2>2. CASE p = None BY <1>1, <2>1, <2>2
  <2>3. CASE p # None
    <3>1. /\ p \in Nodes /\ node # p /\ SideOf(tree, node) \in Sides
          /\ tree[SideOf(tree, node)][p] = node
          /\ \A m \in Nodes, other \in Sides :
               tree[other][m] = node => m = p /\ other = SideOf(tree, node)
      BY <1>1, <2>3, Family
    <3>2. p \notin U[node] BY <3>1, UnderChild
    <3> QED BY <2>1, <3>1, <3>2
  <2> QED BY <2>2, <2>3
<1>17. l \in U[node] /\ r \in U[node] /\ x \in U[node] /\ (x # r => sp \in U[node])
  <2>1. U[tree["left"][node]] \subseteq U[node] BY <1>1, <1>2, UnderChild
  <2> QED BY <1>3, <1>6, <1>7, <1>8, <1>13, <2>1
<1>18. p # x /\ p # l /\ p # r /\ p # sp
  <2>1. CASE p = None BY <1>1, <1>5, <1>8, <1>15, <2>1
  <2>2. CASE p # None
    <3>1. p # x /\ p # l /\ p # r BY <1>16, <1>17, <2>2
    <3>2. p # sp BY <1>14, <1>16, <1>17, <2>2
    <3> QED BY <3>1, <3>2
  <2> QED BY <2>1, <2>2
<1>19. ASSUME NEW m \in Nodes
       PROVE  /\ tree.parent[m] = node <=> m = l \/ m = r
              /\ tree.parent[m] = x <=> m = c
  <2>1. tree.parent[m] = node => m = l \/ m = r
    <3> SUFFICES ASSUME tree.parent[m] = node PROVE m = l \/ m = r OBVIOUS
    <3>1. PICK side \in Sides : tree[side][tree.parent[m]] = m BY <1>1 DEF Paired
    <3> QED BY <1>2, <1>3, <3>1
  <2>2. tree.parent[m] = x => m = c
    <3> SUFFICES ASSUME tree.parent[m] = x PROVE m = c OBVIOUS
    <3>1. PICK side \in Sides : tree[side][tree.parent[m]] = m BY <1>1, <1>8 DEF Paired
    <3>2. m # None BY <1>1
    <3> QED BY <1>2, <1>3, <1>7, <3>1, <3>2
  <2>3. m = c => tree.parent[m] = x BY <1>1, <1>10
  <2> QED BY <1>5, <2>1, <2>2, <2>3
<1>20. tree[IF sp = node THEN "right" ELSE "left"][sp] = x
  <2>1. CASE sp = node BY <1>3, <1>14, <2>1
  <2>2. CASE sp # node
    <3>1. PICK side \in Sides : tree[side][tree.parent[x]] = x
      BY <1>1, <1>8, <1>15 DEF Paired
    <3>2. sp \in U[r] BY <1>13, <1>14, <2>2
    <3>3. side = "left" BY <1>7, <1>8, <3>1, <3>2
    <3> QED BY <2>2, <3>1, <3>3
  <2> QED BY <2>1, <2>2
<1>21. ASSUME NEW side \in Sides, NEW m \in Nodes
       PROVE  /\ tree[side][m] = node <=> m = p /\ side = SideOf(tree, node)
              /\ tree[side][m] = x <=> m = sp /\ side = IF sp = node THEN "right" ELSE "left"
  <2>1. tree[side][m] = node => m = p /\ side = SideOf(tree, node)
    <3>1. tree[side][m] = node => m = p BY <1>1, <1>4
    <3>2. m = p => p # None BY <1>1
    <3> QED BY <1>16, <3>1, <3>2
  <2>2. m = p /\ side = SideOf(tree, node) => tree[side][m] = node
    <3>1. m = p => p # None BY <1>1
    <3> QED BY <1>16, <3>1
  <2>3. m = sp /\ side = (IF sp = node THEN "right" ELSE "left") => tree[side][m] = x
    BY <1>20
  <2>4. tree[side][m] = x => m = sp /\ side = (IF sp = node THEN "right" ELSE "left")
    <3> SUFFICES ASSUME tree[side][m] = x
                 PROVE  m = sp /\ side = IF sp = node THEN "right" ELSE "left"
      OBVIOUS
    <3>1. m = sp /\ sp # None BY <1>1, <1>4, <1>8
    <3>2. /\ SideOf(tree, x) \in Sides
          /\ \A q \in Nodes, other \in Sides :
               tree[other][q] = x => other = SideOf(tree, x)
      BY <1>8, <3>1, Family
    <3>3. (IF sp = node THEN "right" ELSE "left") \in Sides BY <1>2
    <3>4. side = SideOf(tree, x) BY <3>2
    <3>5. (IF sp = node THEN "right" ELSE "left") = SideOf(tree, x)
      <4> DEFINE at == IF sp = node THEN "right" ELSE "left"
      <4>1. at \in Sides /\ tree[at][sp] = x BY <1>20, <3>3
      <4> HIDE DEF at
      <4>2. at = SideOf(tree, x) BY <1>15, <3>2, <4>1
      <4> QED BY <4>2 DEF at
    <3> QED BY <3>1, <3>4, <3>5
  <2> QED BY <2>1, <2>2, <2>3, <2>4
<1>22. tree.root # x
  <2>1. tree.root # None => tree.parent[tree.root] = None BY <1>1 DEF Paired
  <2> QED BY <1>1, <1>8, <1>15, <2>1
<1>23. p = None <=> tree.root = node
  <2>1. tree.root # None => tree.parent[tree.root] = None BY <1>1 DEF Paired
  <2>2. p = None => tree.root = node BY Parents
  <2> QED BY <1>1, <2>1, <2>2
<1> HIDE DEF l, r, c, p, sp
<1>24. l = tree.left[node] /\ r = tree.right[node] /\ p = tree.parent[node]
       /\ sp = tree.parent[x] /\ c = tree.right[x] /\ tree.left[x] = None
  BY <1>7 DEF l, r, c, p, sp
<1>25. ExchangeKin(tree, node, x, l, r, c, p, sp)
  BY <1>1, <1>5, <1>8, <1>9, <1>10, <1>11, <1>12, <1>14, <1>15, <1>16, <1>18, <1>19, <1>21,
     <1>22, <1>23, <1>24 DEF ExchangeKin
<1> QED BY <1>25 DEF l, r, c, p, sp

\* What Exchanged does to the fields.
LEMMA ExchangedIsSwapped ==
  ASSUME NEW tree \in Trees, NEW node, NEW x,
         ExchangeKin(tree, node, x, tree.left[node], tree.right[node], tree.right[x],
                     tree.parent[node], tree.parent[x])
  PROVE  Swapped(tree, node, x, Exchanged(tree, node, x))
<1> DEFINE l == tree.left[node]
           r == tree.right[node]
           c == tree.right[x]
           p == tree.parent[node]
           sp == tree.parent[x]
           a1 == Redirect(tree, node, x)
           a2 == SetParent(a1, x, p)
           a3 == SetChild(a2, "left", x, l)
           a4 == SetChild(a3, "right", x, IF sp = node THEN node ELSE r)
           a5 == SetRed(a4, x, tree.red[node])
           a6 == SetParent(a5, l, x)
           a7 == SetParent(a6, r, IF sp = node THEN p ELSE x)
           b1 == SetChild(a7, "left", sp, IF sp = node THEN a7.left[sp] ELSE node)
           b2 == SetParent(b1, node, IF sp = node THEN x ELSE sp)
           b3 == SetRed(b2, node, tree.red[x])
           c1 == SetChild(b3, "left", node, None)
           c2 == SetChild(c1, "right", node, c)
           s == SetParent(c2, c, node)
           pi == Swap(node, x)
<1>1. /\ node \in Nodes /\ x \in Nodes /\ l \in Nodes /\ r \in Nodes /\ sp \in Nodes
      /\ p \in Pointers /\ c \in Pointers /\ None \in Pointers /\ None \notin Nodes
      /\ Nodes \subseteq Pointers /\ "left" \in Sides /\ "right" \in Sides /\ "left" # "right"
      /\ \A side \in Sides : side = "left" \/ side = "right"
  BY RbTreeAssumption DEF ExchangeKin, Pointers, Sides
<1>2. Exchanged(tree, node, x) = s
  <2> DEFINE first == [a1 EXCEPT !.parent[x] = p, !.left[x] = l,
                                 !.right[x] = IF sp = node THEN node ELSE r,
                                 !.red[x] = tree.red[node]]
             placed == [a1 EXCEPT !.parent[x] = p, !.left[x] = l,
                                  !.right[x] = IF sp = node THEN node ELSE r,
                                  !.red[x] = tree.red[node], !.parent[l] = x,
                                  !.parent[r] = IF sp = node THEN p ELSE x]
             below == [placed EXCEPT !.left[sp] = IF sp = node THEN @ ELSE node,
                                     !.parent[node] = IF sp = node THEN x ELSE sp,
                                     !.red[node] = tree.red[x]]
  <2>1. first = a5 BY <1>1 DEF SetParent, SetChild, SetRed
  <2>2. placed = [first EXCEPT !.parent[l] = x, !.parent[r] = IF sp = node THEN p ELSE x]
    OBVIOUS
  <2>3. placed = a7
    <3> HIDE DEF first, a5, placed
    <3> QED BY <1>1, <2>1, <2>2 DEF SetParent
  <2>4. below = b3
    <3> HIDE DEF placed, a7
    <3> QED BY <1>1, <2>3 DEF SetParent, SetChild, SetRed
  <2>5. SuccessorPlaced(tree, node, x) = placed BY DEF SuccessorPlaced
  <2> HIDE DEF placed
  <2>6. Exchanged(tree, node, x)
          = SetParent([below EXCEPT !.left[node] = None, !.right[node] = c], c, node)
    BY <2>5 DEF Exchanged
  <2> HIDE DEF below, b3
  <2> QED BY <2>4, <2>6 DEF SetChild
<1>3. /\ tree.red[node] \in BOOLEAN /\ tree.red[x] \in BOOLEAN BY <1>1, Fields
<1>4. Redirected(tree, node, x, a1) BY <1>1, Redirects
<1> HIDE DEF a1, l, r, c, p, sp
<1>5. ParentSet(a1, x, p, a2) BY <1>1, <1>4, SetsParent DEF Redirected
<1> HIDE DEF a2
<1>6. ChildSet(a2, "left", x, l, a3) BY <1>1, <1>5, SetsChild DEF ParentSet
<1> HIDE DEF a3
<1>7. ChildSet(a3, "right", x, IF sp = node THEN node ELSE r, a4)
  <2> DEFINE y == IF sp = node THEN node ELSE r
  <2>1. a3 \in Trees /\ y \in Pointers BY <1>1, <1>6 DEF ChildSet
  <2> HIDE DEF y
  <2>2. ChildSet(a3, "right", x, y, SetChild(a3, "right", x, y)) BY <1>1, <2>1, SetsChild
  <2> QED BY <2>2 DEF y
<1> HIDE DEF a4
<1>8. RedSet(a4, x, tree.red[node], a5) BY <1>1, <1>3, <1>7, SetsRed DEF ChildSet
<1> HIDE DEF a5
<1>9. ParentSet(a5, l, x, a6) BY <1>1, <1>8, SetsParent DEF RedSet
<1> HIDE DEF a6
<1>10. ParentSet(a6, r, IF sp = node THEN p ELSE x, a7)
  <2> DEFINE y == IF sp = node THEN p ELSE x
  <2>1. a6 \in Trees /\ y \in Pointers BY <1>1, <1>9 DEF ParentSet
  <2> HIDE DEF y
  <2>2. ParentSet(a6, r, y, SetParent(a6, r, y)) BY <1>1, <2>1, SetsParent
  <2> QED BY <2>2 DEF y
<1> HIDE DEF a7
<1>11. ChildSet(a7, "left", sp, IF sp = node THEN a7.left[sp] ELSE node, b1)
  <2>1. a7 \in Trees /\ a7.left[sp] \in Pointers BY <1>1, <1>10, Fields DEF ParentSet
  <2> QED BY <1>1, <2>1, SetsChild
<1> HIDE DEF b1
<1>12. ParentSet(b1, node, IF sp = node THEN x ELSE sp, b2)
  BY <1>1, <1>11, SetsParent DEF ChildSet
<1> HIDE DEF b2
<1>13. RedSet(b2, node, tree.red[x], b3) BY <1>1, <1>3, <1>12, SetsRed DEF ParentSet
<1> HIDE DEF b3
<1>14. ChildSet(b3, "left", node, None, c1) BY <1>1, <1>13, SetsChild DEF RedSet
<1> HIDE DEF c1
<1>15. ChildSet(c1, "right", node, c, c2)
  <2>1. c1 \in Trees BY <1>14 DEF ChildSet
  <2> QED BY <1>1, <2>1, SetsChild
<1> HIDE DEF c2
<1>16. ParentSet(c2, c, node, s) BY <1>1, <1>15, SetsParent DEF ChildSet
<1> HIDE DEF s
<1>17. s \in Trees /\ s.root = IF p = None THEN x ELSE tree.root
  BY <1>4, <1>5, <1>6, <1>7, <1>8, <1>9, <1>10, <1>11, <1>12, <1>13, <1>14, <1>15, <1>16
     DEF Redirected, ParentSet, ChildSet, RedSet, p
<1>18. ASSUME NEW m \in Nodes
       PROVE  s.red[m] = IF m = node THEN tree.red[x] ELSE IF m = x THEN tree.red[node]
                         ELSE tree.red[m]
  BY <1>4, <1>5, <1>6, <1>7, <1>8, <1>9, <1>10, <1>11, <1>12, <1>13, <1>14, <1>15, <1>16
     DEF Redirected, ParentSet, ChildSet, RedSet
<1>19. ASSUME NEW m \in Nodes
       PROVE  s.parent[m] = IF m = c THEN node
                            ELSE IF m = node THEN IF sp = node THEN x ELSE sp
                            ELSE IF m = r THEN IF sp = node THEN p ELSE x
                            ELSE IF m = l THEN x ELSE IF m = x THEN p ELSE tree.parent[m]
  <2>1. a1.parent = tree.parent /\ a4.parent = a3.parent /\ a3.parent = a2.parent
        /\ a5.parent = a4.parent
    BY <1>4, <1>6, <1>7, <1>8 DEF Redirected, ChildSet, RedSet
  <2>2. b1.parent = a7.parent /\ b3.parent = b2.parent /\ c1.parent = b3.parent
        /\ c2.parent = c1.parent
    BY <1>11, <1>13, <1>14, <1>15 DEF ChildSet, RedSet
  <2>3. a2.parent[m] = IF m = x THEN p ELSE tree.parent[m] BY <1>5, <2>1 DEF ParentSet
  <2>4. a6.parent[m] = IF m = l THEN x ELSE a2.parent[m] BY <1>9, <2>1 DEF ParentSet
  <2>5. a7.parent[m] = IF m = r THEN IF sp = node THEN p ELSE x ELSE a6.parent[m]
    BY <1>10 DEF ParentSet
  <2>6. b2.parent[m] = IF m = node THEN IF sp = node THEN x ELSE sp ELSE a7.parent[m]
    BY <1>12, <2>2 DEF ParentSet
  <2>7. s.parent[m] = IF m = c THEN node ELSE b2.parent[m] BY <1>16, <2>2 DEF ParentSet
  <2> QED BY <2>3, <2>4, <2>5, <2>6, <2>7
<1>20. ASSUME NEW side \in Sides, NEW m \in Nodes
       PROVE  s[side][m] = IF m = node THEN IF side = "left" THEN None ELSE c
                           ELSE IF m = sp /\ side = "left" THEN node
                           ELSE IF m = x THEN IF side = "left" THEN l
                                              ELSE IF sp = node THEN node ELSE r
                           ELSE IF m = p /\ side = SideOf(tree, node) THEN x
                           ELSE tree[side][m]
  <2>1. a1[side][m] = IF m = p /\ side = SideOf(tree, node) THEN x ELSE tree[side][m]
    BY <1>4 DEF Redirected, p
  <2>2. a2[side][m] = a1[side][m] BY <1>5 DEF ParentSet
  <2>3. a3[side][m] = IF side = "left" /\ m = x THEN l ELSE a2[side][m] BY <1>6 DEF ChildSet
  <2>4. a4[side][m] = IF side = "right" /\ m = x THEN IF sp = node THEN node ELSE r
                      ELSE a3[side][m]
    BY <1>7 DEF ChildSet
  <2>5. a7[side][m] = a4[side][m] BY <1>8, <1>9, <1>10 DEF ParentSet, RedSet
  <2>6. m = sp /\ side = "left" => a7[side][m] = a7.left[sp] OBVIOUS
  <2>7. b1[side][m] = IF side = "left" /\ m = sp /\ sp # node THEN node ELSE a7[side][m]
    BY <1>11, <2>6 DEF ChildSet
  <2>8. b3[side][m] = b1[side][m] BY <1>12, <1>13 DEF ParentSet, RedSet
  <2>9. c1[side][m] = IF side = "left" /\ m = node THEN None ELSE b3[side][m]
    BY <1>14 DEF ChildSet
  <2>10. c2[side][m] = IF side = "right" /\ m = node THEN c ELSE c1[side][m]
    BY <1>15 DEF ChildSet
  <2>11. s[side][m] = c2[side][m] BY <1>16 DEF ParentSet
  <2>12. side = "left" \/ side = "right" BY <1>1
  <2>13. CASE m = node BY <1>1, <2>9, <2>10, <2>11, <2>12, <2>13
  <2>14. CASE m # node
    <3>1. s[side][m] = b1[side][m] BY <2>8, <2>9, <2>10, <2>11, <2>14
    <3>2. a7[side][m] = IF m = x THEN IF side = "left" THEN l ELSE IF sp = node THEN node ELSE r
                        ELSE a1[side][m]
      BY <1>1, <2>2, <2>3, <2>4, <2>5, <2>12
    <3> QED BY <2>1, <2>7, <2>14, <3>1, <3>2
  <2> QED BY <2>13, <2>14
<1>21. ExchangeKin(tree, node, x, l, r, c, p, sp) BY DEF l, r, c, p, sp
<1>31. pi = Swap(node, x) OBVIOUS
<1> HIDE DEF pi
<1>22. /\ pi \in [Pointers -> Pointers] /\ pi[None] = None
       /\ \A m \in Nodes : pi[m] \in Nodes
       /\ pi[node] = x /\ pi[x] = node /\ \A m \in Pointers : m # node /\ m # x => pi[m] = m
  <2>1. node \in Nodes /\ x \in Nodes BY <1>1
  <2>2. Exchanges(Swap(node, x), node, x) BY ONLY <2>1, SwapIs
  <2>3. Exchanges(pi, node, x) BY ONLY <1>31, <2>2
  <2> QED BY ONLY <2>3 DEF Exchanges
<1>23. s.root = pi[tree.root]
  <2>1. tree.root # x /\ (p = None <=> tree.root = node) BY <1>21 DEF ExchangeKin
  <2>2. tree.root \in Pointers BY Fields
  <2> QED BY <1>17, <1>22, <2>1, <2>2
<1>24. ASSUME NEW m \in Nodes PROVE s.parent[m] = pi[tree.parent[pi[m]]]
  <2>1. /\ x # node /\ l # node /\ r # node /\ l # x /\ l # r /\ l # c
        /\ c # node /\ c # x /\ c # r /\ p # node /\ p # x /\ sp # x /\ (sp = node <=> r = x)
        /\ tree.parent[node] = p /\ tree.parent[x] = sp
    BY <1>21 DEF ExchangeKin
  <2>2. \A q \in Nodes : /\ tree.parent[q] = node <=> q = l \/ q = r
                         /\ tree.parent[q] = x <=> q = c
    BY <1>21 DEF ExchangeKin
  <2>3. tree.parent[m] \in Pointers BY Fields
  <2>4. CASE m = node
    <3>1. s.parent[m] = IF sp = node THEN x ELSE sp BY <1>19, <2>1, <2>4
    <3>2. pi[tree.parent[pi[m]]] = pi[sp] BY <1>22, <2>1, <2>4
    <3>3. pi[sp] = IF sp = node THEN x ELSE sp BY <1>1, <1>22, <2>1
    <3> QED BY <3>1, <3>2, <3>3
  <2>5. CASE m = x
    <3>1. s.parent[m] = p BY <1>19, <2>1, <2>5
    <3>2. pi[tree.parent[pi[m]]] = pi[p] BY <1>22, <2>1, <2>5
    <3>3. pi[p] = p BY <1>1, <1>22, <2>1
    <3> QED BY <3>1, <3>2, <3>3
  <2>6. CASE m # node /\ m # x
    <3>1. pi[m] = m BY <1>1, <1>22, <2>6
    <3>2. CASE m = c
      <4>1. tree.parent[m] = x BY <2>2, <3>2
      <4> QED BY <1>19, <1>22, <3>1, <3>2, <4>1
    <3>3. CASE m = l \/ m = r
      <4>1. tree.parent[m] = node BY <2>2, <3>3
      <4>2. s.parent[m] = x
        <5>1. m = r => sp # node BY <2>1, <2>6
        <5> QED BY <1>19, <2>1, <2>6, <3>3, <5>1
      <4> QED BY <1>22, <3>1, <4>1, <4>2
    <3>4. CASE m # c /\ m # l /\ m # r
      <4>1. tree.parent[m] # node /\ tree.parent[m] # x BY <2>2, <3>4
      <4>2. s.parent[m] = tree.parent[m] BY <1>19, <2>6, <3>4
      <4> QED BY <1>22, <2>3, <3>1, <4>1, <4>2
    <3> QED BY <3>2, <3>3, <3>4
  <2> QED BY <2>4, <2>5, <2>6
<1>25. ASSUME NEW side \in Sides, NEW m \in Nodes
       PROVE  s[side][m] = pi[tree[side][pi[m]]]
  <2>1. /\ x # node /\ l # node /\ r # node /\ l # x /\ c # node /\ c # x /\ p # node
        /\ p # x /\ p # sp /\ sp # x /\ (sp = node <=> r = x) /\ tree["left"][x] = None
        /\ tree["left"][node] = l /\ tree["right"][node] = r /\ tree["right"][x] = c
    BY <1>21 DEF ExchangeKin
  <2>2. /\ tree[side][m] = node <=> m = p /\ side = SideOf(tree, node)
        /\ tree[side][m] = x <=> m = sp /\ side = IF sp = node THEN "right" ELSE "left"
    BY <1>21 DEF ExchangeKin
  <2>3. tree[side][m] \in Pointers BY Fields
  <2>4. CASE m = node /\ side = "left"
    <3>1. s[side][m] = None BY <1>20, <2>4
    <3> QED BY <1>22, <2>1, <2>4, <3>1
  <2>5. CASE m = node /\ side = "right"
    <3>1. s[side][m] = c BY <1>20, <2>5
    <3>2. pi[c] = c BY <1>1, <1>22, <2>1
    <3> QED BY <1>22, <2>1, <2>5, <3>1, <3>2
  <2>6. CASE m = x /\ side = "left"
    <3>1. s[side][m] = l BY <1>20, <2>1, <2>6
    <3>2. pi[l] = l BY <1>1, <1>22, <2>1
    <3> QED BY <1>22, <2>1, <2>6, <3>1, <3>2
  <2>7. CASE m = x /\ side = "right"
    <3>1. s[side][m] = IF sp = node THEN node ELSE r BY <1>20, <2>1, <2>7
    <3>2. pi[r] = IF sp = node THEN node ELSE r BY <1>1, <1>22, <2>1
    <3> QED BY <1>22, <2>1, <2>7, <3>1, <3>2
  <2>8. CASE m # node /\ m # x
    <3>1. pi[m] = m BY <1>1, <1>22, <2>8
    <3>2. CASE m = sp /\ side = "left"
      <4>1. s[side][m] = node /\ tree[side][m] = x BY <1>20, <2>2, <2>8, <3>2
      <4> QED BY <1>22, <3>1, <4>1
    <3>3. CASE m = p /\ side = SideOf(tree, node)
      <4>1. s[side][m] = x /\ tree[side][m] = node BY <1>20, <2>1, <2>2, <2>8, <3>3
      <4> QED BY <1>22, <3>1, <4>1
    <3>4. CASE ~(m = sp /\ side = "left") /\ ~(m = p /\ side = SideOf(tree, node))
      <4>1. s[side][m] = tree[side][m] BY <1>20, <2>8, <3>4
      <4>2. tree[side][m] # node /\ tree[side][m] # x BY <2>2, <2>8, <3>4
      <4> QED BY <1>22, <2>3, <3>1, <4>1, <4>2
    <3> QED BY <3>2, <3>3, <3>4
  <2> QED BY <1>1, <2>4, <2>5, <2>6, <2>7, <2>8
<1>26. ASSUME NEW m \in Nodes PROVE s.red[m] = tree.red[pi[m]]
  <2>1. m # node /\ m # x => pi[m] = m BY <1>1, <1>22
  <2> QED BY <1>18, <1>22, <2>1
<1>27. Swapped(tree, node, x, s) BY <1>17, <1>23, <1>24, <1>25, <1>26 DEF Swapped, pi
<1> QED BY <1>2, <1>27

-----------------------------------------------------------------------------
(***************************************************************************)
(* Removal.                                                                *)
(***************************************************************************)

\* Other keys do as well if they order the members in the same way.
LEMMA Rekeyed ==
  ASSUME NEW key \in [Nodes -> Int], NEW other \in [Nodes -> Int], NEW t, NEW members,
         SoundThere(t, key, members),
         \A side \in Sides, m, n \in members :
           OnSide(key, side, m, n) => OnSide(other, side, m, n)
  PROVE  SoundThere(t, other, members)
<1>1. PICK V, C : Shaped(t, V, key) /\ V[t.root] = members /\ Coloured(t, C) BY DEF SoundThere
<1>2. /\ t \in Trees /\ Spans(t, V) /\ Sorted(t, V, key) /\ Paired(t) /\ V[None] = {}
      /\ \A n \in Nodes : n \notin V[t.root] => Blank(t, n)
      /\ V[t.root] \subseteq Nodes
  BY <1>1, Parents DEF Shaped, Spans
<1>3. Sorted(t, V, other)
  <2> SUFFICES ASSUME NEW n \in Nodes, NEW side \in Sides, NEW m \in V[t[side][n]]
               PROVE  OnSide(other, side, m, n)
    BY DEF Sorted
  <2>1. OnSide(key, side, m, n) BY <1>2 DEF Sorted
  <2>2. t[side][n] # None BY <1>2
  <2>3. n \in members
    <3> SUFFICES ASSUME n \notin members PROVE FALSE OBVIOUS
    <3>1. Blank(t, n) BY <1>1, <1>2
    <3>2. t["left"][n] = None /\ t["right"][n] = None BY <3>1 DEF Blank
    <3> QED BY <2>2, <3>2 DEF Sides
  <2>4. m \in members
    <3>1. t.root \in Nodes /\ n \in Nodes
      <4>1. t.root \in Pointers /\ t.root # None BY <1>1, <1>2, <2>3, Fields
      <4> QED BY <4>1 DEF Pointers
    <3>2. V[t[side][n]] \subseteq V[n] BY <1>1, UnderChild
    <3>3. V[n] \subseteq V[t.root] BY <1>1, <2>3, <3>1, UnderUnder
    <3> QED BY <1>1, <3>2, <3>3
  <2> QED BY <2>1, <2>3, <2>4
<1>4. Shaped(t, V, other) BY <1>2, <1>3 DEF Shaped
<1> QED BY <1>1, <1>4 DEF SoundThere

\* What is left of a tree without a node that has at most one child.
Without(tree, node) ==
  Blanked(IF tree.left[node] = None /\ tree.right[node] = None
          THEN u80211_rbtree_remove_leaf(tree, node) ELSE Spliced(tree, node), node)

LEMMA WithoutOne ==
  ASSUME NEW key \in [Nodes -> Int], NEW tree, NEW U, NEW B, NEW node \in U[tree.root],
         Shaped(tree, U, key), Coloured(tree, B),
         tree.left[node] = None \/ tree.right[node] = None
  PROVE  SoundThere(Without(tree, node), key, U[tree.root] \ {node})
<1>1. CASE tree.left[node] = None /\ tree.right[node] = None
  <2>1. Without(tree, node) = Blanked(u80211_rbtree_remove_leaf(tree, node), node)
    BY <1>1 DEF Without
  <2> QED BY <1>1, <2>1, LeafGoes
<1>2. CASE ~(tree.left[node] = None /\ tree.right[node] = None)
  <2>1. Without(tree, node) = Blanked(Spliced(tree, node), node) BY <1>2 DEF Without
  <2> DEFINE c == IF tree.left[node] # None THEN tree.left[node] ELSE tree.right[node]
  <2>2. c # None /\ OnlyChild(tree, node, c) BY <1>2 DEF OnlyChild, Sides, Other
  <2> HIDE DEF c
  <2>3. SoundThere(Blanked(Spliced(tree, node), node), key, U[tree.root] \ {node})
    BY <2>2, SplicedGoes
  <2> QED BY <2>1, <2>3
<1> QED BY <1>1, <1>2

LEMMA WithoutExchanged ==
  ASSUME NEW tree, NEW U, NEW B, NEW node \in U[tree.root],
         Shaped(tree, U, Key), Coloured(tree, B),
         tree.left[node] # None, tree.right[node] # None
  PROVE  SoundThere(Without(Exchanged(tree, node, u80211_rbtree_successor(tree, node)), node),
                    Key, U[tree.root] \ {node})
<1> DEFINE r == tree.right[node]
           x == u80211_rbtree_successor(tree, node)
           s == Exchanged(tree, node, x)
           pi == Swap(node, x)
           V == UnderSwap(U, pi)
           other == [m \in Nodes |-> Key[pi[m]]]
           C == [m \in Pointers |-> B[pi[m]]]
           members == U[tree.root]
<1>1. /\ Key \in [Nodes -> Int] /\ tree \in Trees /\ node \in Nodes /\ members \subseteq Nodes
      /\ "left" \in Sides /\ "right" \in Sides /\ Other("right") = "left"
  BY RbTreeAssumption, Parents DEF Shaped, Sides, Other
<1>2. r \in Nodes /\ r = tree["right"][node]
  <2>1. tree["right"][node] # None => tree["right"][node] \in Nodes BY <1>1, Child
  <2> QED BY <2>1
<1>3. x = Outermost(tree, r, "left")
  <2>1. u80211_rbtree_successor(tree, node) = Neighbour(tree, node, "right")
    BY DEF u80211_rbtree_successor
  <2>2. Neighbour(tree, node, "right") = Outermost(tree, tree["right"][node], Other("right"))
    BY DEF Neighbour
  <2> QED BY <1>1, <2>1, <2>2
<1>4. Furthest(tree, U, Key, r, "left", x) BY <1>1, <1>2, <1>3, OutermostIsFurthest
<1>5. ExchangeKin(tree, node, x, tree.left[node], tree.right[node], tree.right[x],
                  tree.parent[node], tree.parent[x])
  BY <1>1, <1>4, ExchangeFamily
<1>6. Nearest(U, Key, tree.root, node, "right", x)
  BY <1>1, <1>2, <1>4, NearestBelow
<1>7. Swapped(tree, node, x, s) BY <1>1, <1>5, ExchangedIsSwapped
<1>8. x \in Nodes /\ x # node /\ tree.left[x] = None BY <1>5 DEF ExchangeKin
<1>9. x \in members BY <1>6 DEF Nearest
<1>10. Shaped(s, V, other) /\ V[s.root] = members BY <1>1, <1>7, <1>9, SwappedIsShaped
<1>11. Coloured(s, C) BY <1>1, <1>7, <1>8, SwappedIsColoured
<1>12. /\ pi[None] = None /\ pi[node] = x /\ pi[x] = node /\ \A m \in Nodes : pi[m] \in Nodes
       /\ \A m \in Pointers : m # node /\ m # x => pi[m] = m
  <2>1. node \in Nodes /\ x \in Nodes BY <1>1, <1>8
  <2> QED BY ONLY <2>1, SwapTwice
<1>13. other \in [Nodes -> Int] /\ \A m \in Nodes : other[m] = Key[pi[m]] BY <1>1, <1>12
<1> HIDE DEF r, x, s, V, other, C
<1>14. s.left[node] = None
  <2>1. s["left"][node] = pi[tree["left"][pi[node]]] BY <1>1, <1>7 DEF Swapped
  <2> QED BY <1>8, <1>12, <2>1
<1>15. SoundThere(Without(s, node), other, members \ {node})
  <2>1. node \in V[s.root] BY <1>10
  <2>2. SoundThere(Without(s, node), other, V[s.root] \ {node})
    BY <1>10, <1>11, <1>13, <1>14, <2>1, WithoutOne
  <2> QED BY <1>10, <2>2
<1> HIDE DEF pi, members
<1>16. /\ x \in members /\ OnSide(Key, "right", x, node)
       /\ \A m \in members : OnSide(Key, "right", m, node) => m = x \/ OnSide(Key, "right", m, x)
  BY <1>6, <1>9 DEF Nearest, members
<1>17. ASSUME NEW side \in Sides, NEW m \in members \ {node}, NEW n \in members \ {node},
              OnSide(other, side, m, n)
       PROVE  OnSide(Key, side, m, n)
  <2>1. /\ m \in Nodes /\ n \in Nodes /\ m # node /\ n # node /\ m \in Pointers /\ n \in Pointers
        /\ side = "left" \/ side = "right"
    BY <1>1 DEF Pointers, Sides
  <2>2. m # n BY <1>13, <1>17, <2>1, Order
  <2>3. other[x] = Key[node] /\ \A q \in Nodes : q # node /\ q # x => other[q] = Key[q]
    BY <1>8, <1>12, <1>13 DEF Pointers
  <2>4. \A q \in Nodes : Key[q] \in Int BY <1>1
  <2>5. CASE m = x
    <3>1. OnSide(Key, side, node, n) BY <1>17, <2>1, <2>2, <2>3, <2>5 DEF OnSide
    <3> QED BY <1>1, <1>16, <2>1, <2>2, <2>4, <2>5, <3>1 DEF OnSide
  <2>6. CASE n = x
    <3>1. OnSide(Key, side, m, node) BY <1>17, <2>1, <2>2, <2>3, <2>6 DEF OnSide
    <3> QED BY <1>1, <1>16, <2>1, <2>2, <2>4, <2>6, <3>1 DEF OnSide
  <2>7. CASE m # x /\ n # x BY <1>17, <2>1, <2>3, <2>7 DEF OnSide
  <2> QED BY <2>5, <2>6, <2>7
<1>18. SoundThere(Without(s, node), Key, members \ {node})
  BY <1>1, <1>13, <1>15, <1>17, Rekeyed
<1> QED BY <1>18 DEF s, members, x

\* Removal of a member leaves a sound tree of the others: u80211_rbtree_remove, with
\* whatever exchange, recolouring and rotations it takes.
THEOREM RemoveIsSound ==
  ASSUME NEW tree, NEW members, Sound(tree, members), NEW node \in members
  PROVE  Sound(u80211_rbtree_remove(tree, node), members \ {node})
<1>1. PICK U, B : Shaped(tree, U, Key) /\ U[tree.root] = members /\ Coloured(tree, B) BY DEF Sound
<1> DEFINE exchanged == IF tree.left[node] # None /\ tree.right[node] # None
                        THEN Exchanged(tree, node, u80211_rbtree_successor(tree, node)) ELSE tree
<1>2. u80211_rbtree_remove(tree, node) = Without(exchanged, node)
  BY DEF u80211_rbtree_remove, Without, Blanked
<1>3. SoundThere(Without(exchanged, node), Key, members \ {node})
  <2>1. CASE tree.left[node] # None /\ tree.right[node] # None
    <3>1. exchanged = Exchanged(tree, node, u80211_rbtree_successor(tree, node)) BY <2>1
    <3> QED BY <1>1, <2>1, <3>1, WithoutExchanged
  <2>2. CASE tree.left[node] = None \/ tree.right[node] = None
    <3>1. exchanged = tree BY <2>2
    <3>2. Key \in [Nodes -> Int] BY RbTreeAssumption
    <3> HIDE DEF exchanged
    <3> QED BY <1>1, <2>2, <3>1, <3>2, WithoutOne
  <2> QED BY <2>1, <2>2
<1> HIDE DEF exchanged
<1> QED BY <1>2, <1>3 DEF SoundThere, Sound

-----------------------------------------------------------------------------
(***************************************************************************)
(* What a sound tree is for those who look at it.                          *)
(***************************************************************************)

LEMMA UnderIs ==
  ASSUME NEW key \in [Nodes -> Int], NEW tree, NEW U, Shaped(tree, U, key)
  PROVE  \A n \in Pointers : Under(tree, n) = U[n]
<1> DEFINE from == CHOOSE f : f = [m \in Pointers |->
                     IF m = None THEN {} ELSE {m} \cup f[tree.left[m]] \cup f[tree.right[m]]]
<1>1. /\ tree \in Trees /\ U \in [Pointers -> SUBSET Nodes] /\ U[None] = {} /\ IsFiniteSet(Nodes)
      /\ \A n \in Nodes : U[n] = {n} \cup U[tree["left"][n]] \cup U[tree["right"][n]]
      /\ None \in Pointers /\ None \notin Nodes
  BY RbTreeAssumption DEF Shaped, Spans, Pointers
<1>2. \A n : Under(tree, n) = from[n] BY DEF Under
<1>3. U = [m \in Pointers |->
             IF m = None THEN {} ELSE {m} \cup U[tree.left[m]] \cup U[tree.right[m]]]
  <2>1. \A m \in Pointers :
          U[m] = IF m = None THEN {} ELSE {m} \cup U[tree.left[m]] \cup U[tree.right[m]]
    BY <1>1 DEF Pointers
  <2> QED BY <1>1, <2>1
<1>4. from = [m \in Pointers |->
                IF m = None THEN {} ELSE {m} \cup from[tree.left[m]] \cup from[tree.right[m]]]
  BY <1>3
<1> HIDE DEF from
<1>5. from[None] = {} BY <1>1, <1>4
<1>6. \A m \in Nodes : from[m] = {m} \cup from[tree["left"][m]] \cup from[tree["right"][m]]
  BY <1>1, <1>4 DEF Pointers
<1> DEFINE T == {n \in Nodes : from[n] # U[n]}
<1>7. T = {}
  <2> SUFFICES ASSUME T # {} PROVE FALSE OBVIOUS
  <2>1. T \in SUBSET Pointers BY DEF Pointers
  <2>2. PICK n \in T : \A m \in T : ~Smaller(U[m], U[n])
    <3> HIDE DEF T
    <3> QED BY <1>1, <2>1, Lowest
  <2>3. ASSUME NEW side \in Sides PROVE from[tree[side][n]] = U[tree[side][n]]
    <3>1. Smaller(U[tree[side][n]], U[n]) BY <2>2, UnderChild
    <3>2. tree[side][n] \in Pointers BY <1>1, <2>2, Child
    <3> QED BY <1>1, <1>5, <2>2, <3>1, <3>2 DEF Pointers
  <2>4. from[tree["left"][n]] = U[tree["left"][n]] /\ from[tree["right"][n]] = U[tree["right"][n]]
    BY <2>3 DEF Sides
  <2>5. n \in Nodes /\ from[n] # U[n] BY <2>2
  <2>6. from[n] = {n} \cup from[tree["left"][n]] \cup from[tree["right"][n]]
    BY <1>6, <2>5
  <2>7. U[n] = {n} \cup U[tree["left"][n]] \cup U[tree["right"][n]] BY <1>1, <2>5
  <2> QED BY ONLY <2>4, <2>5, <2>6, <2>7
<1> QED BY <1>1, <1>2, <1>5, <1>7 DEF Pointers

LEMMA MembersAre ==
  ASSUME NEW tree, NEW U, Shaped(tree, U, Key)
  PROVE  Members(tree) = U[tree.root]
<1>1. Key \in [Nodes -> Int] /\ tree.root \in Pointers BY RbTreeAssumption, Fields DEF Shaped
<1> QED BY <1>1, UnderIs DEF Members

LEMMA SearchTree ==
  ASSUME NEW tree, NEW U, Shaped(tree, U, Key)
  PROVE  IsSearchTree(tree)
<1>1. /\ Key \in [Nodes -> Int] /\ tree \in Trees /\ Paired(tree) /\ Sorted(tree, U, Key)
      /\ Spans(tree, U)
  BY RbTreeAssumption DEF Shaped
<1>2. Members(tree) \subseteq Nodes BY <1>1, MembersAre, Parents
<1>3. ASSUME NEW n \in Members(tree), NEW side \in Sides
      PROVE  /\ tree[side][n] # None => tree.parent[tree[side][n]] = n
             /\ \A m \in Under(tree, tree[side][n]) :
                  IF side = "left" THEN Key[m] < Key[n] ELSE Key[m] > Key[n]
  <2>1. n \in Nodes /\ tree[side][n] \in Pointers BY <1>1, <1>2, Child
  <2>2. Under(tree, tree[side][n]) = U[tree[side][n]] BY <1>1, <2>1, UnderIs
  <2>3. \A m \in U[tree[side][n]] : OnSide(Key, side, m, n) BY <1>1, <2>1 DEF Sorted
  <2> QED BY <1>1, <2>1, <2>2, <2>3 DEF Paired, OnSide
<1>4. tree.root # None => tree.parent[tree.root] = None BY <1>1 DEF Paired
<1> QED BY <1>3, <1>4 DEF IsSearchTree

-----------------------------------------------------------------------------
(***************************************************************************)
(* The way up.                                                             *)
(***************************************************************************)

\* What is not under a node, which gets smaller on the way up.
Beyond(U) == [n \in Pointers |-> IF n = None THEN {} ELSE Pointers \ U[n]]

LEMMA UpIsSmaller ==
  ASSUME NEW key \in [Nodes -> Int], NEW tree, NEW U, Shaped(tree, U, key)
  PROVE  LET V == Beyond(U)
         IN  /\ V \in [Pointers -> SUBSET Pointers] /\ IsFiniteSet(Pointers)
             /\ \A n \in Nodes : Smaller(V[tree.parent[n]], V[n])
             /\ \A n, m \in Nodes : Smaller(U[n], U[m]) => Smaller(V[m], V[n])
<1> DEFINE V == Beyond(U)
<1>1. /\ tree \in Trees /\ U \in [Pointers -> SUBSET Nodes] /\ None \in Pointers
      /\ None \notin Nodes /\ Nodes \subseteq Pointers
  BY RbTreeAssumption DEF Shaped, Spans, Pointers
<1>2. V \in [Pointers -> SUBSET Pointers] BY DEF Beyond
<1>3. IsFiniteSet(Pointers) BY RbTreeAssumption, FS_AddElement DEF Pointers
<1>4. V[None] = {} /\ \A n \in Nodes : V[n] = Pointers \ U[n] BY <1>1 DEF Beyond
<1> HIDE DEF V
<1>5. \A n \in Nodes : None \in V[n] /\ U[n] \subseteq Pointers BY <1>1, <1>4
<1>6. \A n, m \in Nodes : Smaller(U[n], U[m]) => Smaller(V[m], V[n])
  BY <1>4, <1>5 DEF Smaller
<1>7. ASSUME NEW n \in Nodes PROVE Smaller(V[tree.parent[n]], V[n])
  <2>1. CASE tree.parent[n] = None BY <1>4, <1>5, <2>1 DEF Smaller
  <2>2. CASE tree.parent[n] # None
    <3>1. tree.parent[n] \in Nodes /\ Smaller(U[n], U[tree.parent[n]]) BY <2>2, Parents
    <3> QED BY <1>6, <3>1
  <2> QED BY <2>1, <2>2
<1> QED BY <1>2, <1>3, <1>6, <1>7 DEF V

\* How many black nodes are on the way up from a node, it included.
CountsUp(tree, up) ==
  up = [n \in Pointers |->
          IF n = None THEN 0 ELSE up[tree.parent[n]] + IF tree.red[n] THEN 0 ELSE 1]

LEMMA CountUp ==
  ASSUME NEW key \in [Nodes -> Int], NEW tree, NEW U, Shaped(tree, U, key)
  PROVE  \E up \in [Pointers -> Nat] : CountsUp(tree, up)
<1> DEFINE V == Beyond(U)
           stop == {None}
           value == [n \in Pointers |-> 0]
           next == [n \in Pointers |-> tree.parent[n]]
           G == [n \in Pointers |-> [x \in Nat |-> x + IF tree.red[n] THEN 0 ELSE 1]]
<1>1. tree \in Trees /\ None \in Pointers /\ None \notin Nodes /\ Nodes \subseteq Pointers
  BY RbTreeAssumption DEF Shaped, Pointers
<1>2. /\ V \in [Pointers -> SUBSET Pointers] /\ IsFiniteSet(Pointers)
      /\ \A n \in Nodes : Smaller(V[tree.parent[n]], V[n])
  BY UpIsSmaller
<1> HIDE DEF V
<1>3. ASSUME NEW n \in Pointers \ stop
      PROVE  next[n] \in Pointers /\ Smaller(V[next[n]], V[n]) /\ G[n] \in [Nat -> Nat]
  <2>1. n \in Nodes BY <1>3 DEF Pointers
  <2>2. next[n] = tree.parent[n] /\ tree.parent[n] \in Pointers BY <1>1, <2>1, Fields
  <2>3. G[n] \in [Nat -> Nat] BY <1>3
  <2> QED BY <1>2, <2>1, <2>2, <2>3
<1>4. stop \in SUBSET Pointers /\ \A n \in stop : value[n] \in Nat BY <1>1
<1> HIDE DEF next, stop, value, G
<1>5. Ends(Pointers, Pointers, V, Nat, stop, value, G, next) BY <1>2, <1>3, <1>4 DEF Ends
<1>6. PICK up \in [Pointers -> Nat] :
        \A n \in Pointers : up[n] = Returned(n, stop, value, G, next, up)
  BY <1>5, Recursion
<1>7. ASSUME NEW n \in Pointers
      PROVE  up[n] = IF n = None THEN 0 ELSE up[tree.parent[n]] + IF tree.red[n] THEN 0 ELSE 1
  <2>1. CASE n = None BY <1>1, <1>6, <2>1 DEF Returned, stop, value
  <2>2. CASE n # None
    <3>1. n \notin stop BY <2>2 DEF stop
    <3>2. up[n] = G[n][up[next[n]]] BY <1>6, <3>1 DEF Returned
    <3>3. next[n] = tree.parent[n] /\ next[n] \in Pointers BY <1>3, <3>1 DEF next
    <3>4. up[next[n]] \in Nat BY <3>3
    <3>5. G[n][up[next[n]]] = up[next[n]] + IF tree.red[n] THEN 0 ELSE 1 BY <3>4 DEF G
    <3> QED BY <2>2, <3>2, <3>3, <3>5
  <2> QED BY <2>1, <2>2
<1>8. CountsUp(tree, up) BY <1>6, <1>7 DEF CountsUp
<1> QED BY <1>6, <1>8

\* What is counted on the way up and on the way down is the same for all.
LEMMA UpAndDown ==
  ASSUME NEW key \in [Nodes -> Int], NEW tree, NEW U, Shaped(tree, U, key),
         NEW B, Coloured(tree, B), NEW up \in [Pointers -> Nat], CountsUp(tree, up)
  PROVE  \A m \in U[tree.root] : up[m] + B[m] = B[tree.root] + Weight(tree, m)
<1> DEFINE V == Beyond(U)
           T == {m \in U[tree.root] : up[m] + B[m] # B[tree.root] + Weight(tree, m)}
<1> SUFFICES ASSUME T # {} PROVE FALSE OBVIOUS
<1>1. /\ tree \in Trees /\ None \in Pointers /\ None \notin Nodes /\ Nodes \subseteq Pointers
      /\ Paired(tree) /\ U[tree.root] \subseteq Nodes /\ tree.root \in Pointers
      /\ B \in [Pointers -> Nat] /\ \A n \in Nodes : HeightAt(tree, B, n)
  BY RbTreeAssumption, Parents, Fields DEF Shaped, Pointers, Coloured, Heights
<1>2. /\ V \in [Pointers -> SUBSET Pointers] /\ IsFiniteSet(Pointers)
      /\ \A n \in Nodes : Smaller(V[tree.parent[n]], V[n])
  BY UpIsSmaller
<1> HIDE DEF V
<1>3. PICK m \in T : \A n \in T : ~Smaller(V[n], V[m])
  <2>1. T \in SUBSET Pointers BY <1>1
  <2> HIDE DEF T
  <2> QED BY <1>2, <2>1, Lowest
<1>4. m \in Nodes /\ m \in U[tree.root] /\ m \in Pointers BY <1>1, <1>3
<1>5. up[None] = 0 /\ \A n \in Nodes : up[n] = up[tree.parent[n]] + Weight(tree, n)
  BY <1>1 DEF CountsUp, Weight
<1>6. \A n \in Nodes : Weight(tree, n) \in Nat BY DEF Weight
<1>7. CASE tree.parent[m] = None
  <2>1. m = tree.root BY <1>4, <1>7, Parents
  <2>2. up[m] = Weight(tree, m) BY <1>4, <1>5, <1>6, <1>7
  <2>3. B[tree.root] \in Nat /\ Weight(tree, m) \in Nat BY <1>1, <1>4, <1>6
  <2> QED BY <1>3, <2>1, <2>2, <2>3
<1>8. CASE tree.parent[m] # None
  <2> DEFINE p == tree.parent[m]
  <2>1. p \in Nodes /\ p \in U[tree.root] BY <1>4, <1>8, Parents
  <2>2. p \notin T BY <1>2, <1>3, <1>4
  <2>3. up[p] + B[p] = B[tree.root] + Weight(tree, p) BY <2>1, <2>2
  <2>4. PICK side \in Sides : tree[side][p] = m BY <1>1, <1>4, <1>8 DEF Paired
  <2> HIDE DEF p
  <2>5. B[p] = B[m] + Weight(tree, p) BY <1>1, <2>1, <2>4 DEF HeightAt
  <2>6. up[m] = up[p] + Weight(tree, m) BY <1>4, <1>5 DEF p
  <2>7. /\ up[p] \in Nat /\ up[m] \in Nat /\ B[p] \in Nat /\ B[m] \in Nat
        /\ B[tree.root] \in Nat /\ Weight(tree, m) \in Nat /\ Weight(tree, p) \in Nat
    BY <1>1, <1>4, <1>6, <2>1
  <2>8. up[m] + B[m] = B[tree.root] + Weight(tree, m)
    BY ONLY <2>3, <2>5, <2>6, <2>7
  <2> QED BY <1>3, <2>8
<1> QED BY <1>7, <1>8

LEMMA Balanced ==
  ASSUME NEW tree, NEW U, Shaped(tree, U, Key), NEW B, Coloured(tree, B)
  PROVE  IsBalanced(tree)
<1> DEFINE up == CHOOSE f : f = [n \in Pointers |->
                   IF n = None THEN 0 ELSE f[tree.parent[n]] + IF tree.red[n] THEN 0 ELSE 1]
<1>1. /\ Key \in [Nodes -> Int] /\ Members(tree) = U[tree.root] /\ U[tree.root] \subseteq Nodes
      /\ tree \in Trees
  BY RbTreeAssumption, MembersAre, Parents DEF Shaped
<1>2. PICK v \in [Pointers -> Nat] : CountsUp(tree, v) BY <1>1, CountUp
<1>3. CountsUp(tree, up) BY <1>2 DEF CountsUp
<1> HIDE DEF up
<1>4. up \in [Pointers -> Nat]
  <2> DEFINE V == Beyond(U)
             T == {n \in Nodes : up[n] # v[n]}
  <2>1. /\ V \in [Pointers -> SUBSET Pointers] /\ IsFiniteSet(Pointers)
        /\ \A n \in Nodes : Smaller(V[tree.parent[n]], V[n])
    BY <1>1, UpIsSmaller
  <2> HIDE DEF V
  <2>2. T = {}
    <3> SUFFICES ASSUME T # {} PROVE FALSE OBVIOUS
    <3>1. PICK n \in T : \A m \in T : ~Smaller(V[m], V[n])
      <4>1. T \in SUBSET Pointers BY DEF Pointers
      <4> HIDE DEF T
      <4> QED BY <2>1, <4>1, Lowest
    <3>2. n \in Nodes /\ tree.parent[n] \in Pointers BY <1>1, <3>1, Fields
    <3>3. up[tree.parent[n]] = v[tree.parent[n]]
      <4>1. tree.parent[n] \notin T BY <2>1, <3>1, <3>2
      <4>2. up[None] = 0 /\ v[None] = 0 BY <1>2, <1>3 DEF CountsUp, Pointers
      <4> QED BY <3>2, <4>1, <4>2 DEF Pointers
    <3>4. n \in Pointers /\ n # None BY <3>2, RbTreeAssumption DEF Pointers
    <3>5. up[n] = up[tree.parent[n]] + IF tree.red[n] THEN 0 ELSE 1 BY <1>3, <3>4 DEF CountsUp
    <3>6. v[n] = v[tree.parent[n]] + IF tree.red[n] THEN 0 ELSE 1 BY <1>2, <3>4 DEF CountsUp
    <3> QED BY <3>1, <3>3, <3>5, <3>6
  <2>3. up[None] = 0 /\ v[None] = 0 BY <1>2, <1>3 DEF CountsUp, Pointers
  <2>4. DOMAIN up = Pointers /\ up = [n \in Pointers |-> up[n]] BY <1>3 DEF CountsUp
  <2>5. \A n \in Pointers : up[n] = v[n] BY <2>2, <2>3 DEF Pointers
  <2> QED BY <2>4, <2>5
<1>5. \A m \in U[tree.root] : up[m] + B[m] = B[tree.root] + Weight(tree, m)
  BY <1>1, <1>3, <1>4, UpAndDown
<1>6. ASSUME NEW m \in U[tree.root], None \in {tree.left[m], tree.right[m]}
      PROVE  up[m] = B[tree.root]
  <2>1. m \in Nodes /\ m \in Pointers /\ tree.root \in Pointers BY <1>1, Fields DEF Pointers
  <2>2. B[None] = 0 /\ B \in [Pointers -> Nat] /\ HeightAt(tree, B, m)
    BY <2>1 DEF Coloured, Heights
  <2>3. PICK side \in Sides : tree[side][m] = None BY <1>6 DEF Sides
  <2>4. B[m] = 0 + Weight(tree, m) BY <2>2, <2>3 DEF HeightAt
  <2>5. Weight(tree, m) \in Nat /\ up[m] \in Nat /\ B[tree.root] \in Nat
    BY <1>4, <2>1, <2>2 DEF Weight
  <2> QED BY <1>5, <2>4, <2>5
<1>7. /\ ~Red(tree, tree.root)
      /\ \A n \in Members(tree) : tree.red[n] => ~Red(tree, tree.parent[n])
  BY <1>1 DEF Coloured, RedAt
<1>8. \A n, m \in Members(tree) :
        None \in {tree.left[n], tree.right[n]} /\ None \in {tree.left[m], tree.right[m]}
          => up[n] = up[m]
  BY <1>1, <1>6
<1> QED BY <1>7, <1>8 DEF IsBalanced, up

-----------------------------------------------------------------------------
(***************************************************************************)
(* Walks.                                                                  *)
(***************************************************************************)

\* x is furthest to a side in a set.
Extreme(key, side, set, x) == x \in set /\ \A m \in set : m = x \/ OnSide(key, Other(side), m, x)

\* What WalksInOrder compares the walks with.
SmallestOf(set) == IF set = {} THEN None ELSE CHOOSE n \in set : \A m \in set : Key[n] <= Key[m]
LargestOf(set) == IF set = {} THEN None ELSE CHOOSE n \in set : \A m \in set : Key[n] >= Key[m]

\* What is found, if anything.
FoundIn(side, set, x) ==
  \/ x = None /\ set = {}
  \/ x # None /\ Extreme(Key, side, set, x)

LEMMA FoundIsSmallest ==
  ASSUME NEW set \in SUBSET Nodes, NEW x, FoundIn("left", set, x)
  PROVE  x = SmallestOf(set)
<1>1. CASE set = {} BY <1>1 DEF FoundIn, Extreme, SmallestOf
<1>2. CASE set # {}
  <2>1. x \in set /\ \A m \in set : m = x \/ Key[m] > Key[x]
    BY <1>2 DEF FoundIn, Extreme, OnSide, Other
  <2>2. \A n \in set : Key[n] \in Int BY RbTreeAssumption
  <2>3. \A n \in set : (\A m \in set : Key[n] <= Key[m]) <=> n = x BY <2>1, <2>2
  <2>4. (CHOOSE n \in set : \A m \in set : Key[n] <= Key[m]) = x BY <2>1, <2>3
  <2> QED BY <1>2, <2>4 DEF SmallestOf
<1> QED BY <1>1, <1>2

LEMMA FoundIsLargest ==
  ASSUME NEW set \in SUBSET Nodes, NEW x, FoundIn("right", set, x)
  PROVE  x = LargestOf(set)
<1>1. CASE set = {} BY <1>1 DEF FoundIn, Extreme, LargestOf
<1>2. CASE set # {}
  <2>1. x \in set /\ \A m \in set : m = x \/ Key[m] < Key[x]
    BY <1>2 DEF FoundIn, Extreme, OnSide, Other
  <2>2. \A n \in set : Key[n] \in Int BY RbTreeAssumption
  <2>3. \A n \in set : (\A m \in set : Key[n] >= Key[m]) <=> n = x BY <2>1, <2>2
  <2>4. (CHOOSE n \in set : \A m \in set : Key[n] >= Key[m]) = x BY <2>1, <2>3
  <2> QED BY <1>2, <2>4 DEF LargestOf
<1> QED BY <1>1, <1>2

\* All that is under a node is on the same side of a node that is not.
LEMMA Beside ==
  ASSUME NEW key \in [Nodes -> Int], NEW tree, NEW U, Shaped(tree, U, key),
         NEW a \in U[tree.root], NEW q \in U[tree.root], q \notin U[a],
         NEW side \in Sides, NEW n \in U[a], OnSide(key, side, q, n)
  PROVE  \A m \in U[a] : OnSide(key, side, q, m)
<1>1. /\ tree \in Trees /\ Spans(tree, U) /\ Sorted(tree, U, key) /\ U[tree.root] \subseteq Nodes
      /\ tree.root \in Nodes /\ U[None] = {}
  BY Parents, Fields DEF Shaped, Spans, Pointers
<1>2. a \in Nodes /\ q \in Nodes /\ U[a] \subseteq Nodes /\ a \in U[a] /\ Other(side) \in Sides
  BY <1>1, UnderChild, Order
<1>3. PICK z \in U[tree.root] : Fork(tree, U, a, q, z) BY <1>1, Forks
<1>4. z \in Nodes BY <1>1, <1>3
<1>5. z # a BY <1>2, <1>3 DEF Fork
<1>6. ASSUME NEW s \in Sides, NEW y \in Nodes, a \in U[tree[s][y]]
      PROVE  \A m \in U[a] : OnSide(key, s, m, y)
  <2>1. tree[s][y] \in Nodes BY <1>1, <1>6, Child
  <2>2. U[a] \subseteq U[tree[s][y]] BY <1>6, <2>1, UnderUnder
  <2> QED BY <1>1, <2>2 DEF Sorted
<1>7. CASE z = q
  <2>1. U[q] = {q} \cup U[tree[side][q]] \cup U[tree[Other(side)][q]] BY <1>2, UnderChild
  <2>2. a \in U[tree[side][q]] \/ a \in U[tree[Other(side)][q]] BY <1>3, <1>5, <1>7, <2>1 DEF Fork
  <2>3. a \notin U[tree[side][q]]
    <3> SUFFICES ASSUME a \in U[tree[side][q]] PROVE FALSE OBVIOUS
    <3>1. OnSide(key, side, n, q) BY <1>2, <1>6
    <3>2. OnSide(key, Other(side), n, q) BY <1>2, Order
    <3> QED BY <1>2, <3>1, <3>2, Order
  <2>4. \A m \in U[a] : OnSide(key, Other(side), m, q) BY <1>2, <1>6, <2>2, <2>3
  <2> QED
    <3> TAKE m \in U[a]
    <3>1. m \in Nodes /\ OnSide(key, Other(side), m, q) BY <1>2, <2>4
    <3> QED BY <1>2, <3>1, Order
<1>8. CASE z # q
  <2>1. PICK s \in Sides : a \in U[tree[s][z]] /\ q \in U[tree[Other(s)][z]]
    BY <1>3, <1>5, <1>8 DEF Fork
  <2>2. \A m \in U[a] : OnSide(key, s, m, z) BY <1>4, <1>6, <2>1
  <2>3. Other(s) \in Sides /\ OnSide(key, Other(s), q, z) BY <1>1, <1>4, <2>1, Order DEF Sorted
  <2>4. ASSUME NEW m \in U[a] PROVE OnSide(key, Other(s), q, m)
    <3>1. m \in Nodes /\ OnSide(key, s, m, z) BY <1>2, <2>2
    <3>2. OnSide(key, Other(s), z, m) BY <1>4, <3>1, Order
    <3> QED BY <1>2, <1>4, <2>3, <3>1, <3>2, Order
  <2>5. Other(s) = side
    <3>1. OnSide(key, Other(s), q, n) /\ n \in Nodes BY <1>2, <2>4
    <3>2. side = s \/ side = Other(s) BY <2>1, Order
    <3>3. OnSide(key, s, q, n) => ~OnSide(key, Other(s), q, n) BY <1>2, <3>1, Order
    <3> QED BY <3>1, <3>2, <3>3
  <2> QED BY <2>4, <2>5
<1> QED BY <1>7, <1>8

\* Up from m until a parent is on a side: that is a, and what is passed is all
\* on the other side of m.
UpTo(tree, U, key, side, m, a) ==
  /\ a = None => \A q \in U[tree.root] : q \in U[m] \/ OnSide(key, Other(side), q, m)
  /\ a # None =>
       /\ a \in U[tree.root] /\ m \in U[tree[Other(side)][a]]
       /\ \A q \in U[a] : \/ q = a \/ q \in U[tree[side][a]] \/ q \in U[m]
                          \/ OnSide(key, Other(side), q, m)

\* The way of Neighbour up.
GoesUp(tree, side, above) ==
  above = [m \in Nodes |->
    LET parent == tree.parent[m]
    IN  IF parent = None \/ tree[Other(side)][parent] = m THEN parent ELSE above[parent]]

LEMMA WayUp ==
  ASSUME NEW key \in [Nodes -> Int], NEW tree, NEW U, Shaped(tree, U, key), NEW side \in Sides
  PROVE  \E above \in [Nodes -> Pointers] : GoesUp(tree, side, above)
<1> DEFINE V == [n \in Nodes |-> Beyond(U)[n]]
           stop == {n \in Nodes : tree.parent[n] = None \/ tree[Other(side)][tree.parent[n]] = n}
           value == [n \in Nodes |-> tree.parent[n]]
           next == [n \in Nodes |-> tree.parent[n]]
           G == [n \in Nodes |-> [x \in Pointers |-> x]]
<1>1. tree \in Trees /\ None \in Pointers /\ None \notin Nodes /\ Nodes \subseteq Pointers
  BY RbTreeAssumption DEF Shaped, Pointers
<1>2. /\ V \in [Nodes -> SUBSET Pointers] /\ IsFiniteSet(Pointers)
      /\ \A n, m \in Nodes : Smaller(U[n], U[m]) => Smaller(V[m], V[n])
  <2> DEFINE W == Beyond(U)
  <2>1. /\ W \in [Pointers -> SUBSET Pointers] /\ IsFiniteSet(Pointers)
        /\ \A n, m \in Nodes : Smaller(U[n], U[m]) => Smaller(W[m], W[n])
    BY UpIsSmaller
  <2>2. V = [n \in Nodes |-> W[n]] OBVIOUS
  <2> HIDE DEF V, W
  <2>3. V \in [Nodes -> SUBSET Pointers] /\ \A n \in Nodes : V[n] = W[n] BY <1>1, <2>1, <2>2
  <2> QED BY <2>1, <2>3
<1> HIDE DEF V
<1>3. ASSUME NEW n \in Nodes \ stop
      PROVE  next[n] \in Nodes /\ Smaller(V[next[n]], V[n]) /\ G[n] \in [Pointers -> Pointers]
  <2>1. tree.parent[n] # None /\ next[n] = tree.parent[n] BY <1>3
  <2>2. tree.parent[n] \in Nodes /\ Smaller(U[n], U[tree.parent[n]]) BY <2>1, Parents
  <2> QED BY <1>2, <2>1, <2>2
<1>4. stop \in SUBSET Nodes /\ \A n \in stop : value[n] \in Pointers BY <1>1, Fields
<1>5. IsFiniteSet(Nodes) BY RbTreeAssumption
<1> HIDE DEF next, stop, value, G
<1>6. Ends(Pointers, Nodes, V, Pointers, stop, value, G, next)
  BY <1>2, <1>3, <1>4, <1>5 DEF Ends
<1>7. PICK f \in [Nodes -> Pointers] :
        \A n \in Nodes : f[n] = Returned(n, stop, value, G, next, f)
  BY <1>6, Recursion
<1>8. ASSUME NEW n \in Nodes
      PROVE  f[n] = IF tree.parent[n] = None \/ tree[Other(side)][tree.parent[n]] = n
                    THEN tree.parent[n] ELSE f[tree.parent[n]]
  <2>1. CASE n \in stop BY <1>7, <2>1 DEF Returned, stop, value
  <2>2. CASE n \notin stop
    <3>1. f[n] = G[n][f[next[n]]] BY <1>7, <2>2 DEF Returned
    <3>2. next[n] \in Nodes BY <1>3, <2>2
    <3>3. next[n] = tree.parent[n] BY DEF next
    <3>4. f[next[n]] \in Pointers BY <3>2
    <3>5. f[n] = f[next[n]] BY <3>1, <3>4 DEF G
    <3> QED BY <2>2, <3>3, <3>5 DEF stop
  <2> QED BY <2>1, <2>2
<1>9. GoesUp(tree, side, f) BY <1>7, <1>8 DEF GoesUp
<1> QED BY <1>7, <1>9

LEMMA EndOfWayUp ==
  ASSUME NEW key \in [Nodes -> Int], NEW tree, NEW U, Shaped(tree, U, key), NEW side \in Sides,
         NEW above, GoesUp(tree, side, above)
  PROVE  \A m \in U[tree.root] : UpTo(tree, U, key, side, m, above[m])
<1> DEFINE V == Beyond(U)
           T == {m \in U[tree.root] : ~UpTo(tree, U, key, side, m, above[m])}
           other == Other(side)
<1> SUFFICES ASSUME T # {} PROVE FALSE OBVIOUS
<1>1. /\ tree \in Trees /\ None \in Pointers /\ None \notin Nodes /\ Nodes \subseteq Pointers
      /\ Paired(tree) /\ Spans(tree, U) /\ Sorted(tree, U, key)
      /\ U[tree.root] \subseteq Nodes /\ tree.root \in Pointers
      /\ other \in Sides /\ Other(other) = side
  BY RbTreeAssumption, Parents, Fields, Order DEF Shaped, Pointers
<1>2. /\ V \in [Pointers -> SUBSET Pointers] /\ IsFiniteSet(Pointers)
      /\ \A n \in Nodes : Smaller(V[tree.parent[n]], V[n])
  BY UpIsSmaller
<1> HIDE DEF V
<1>3. PICK m \in T : \A n \in T : ~Smaller(V[n], V[m])
  <2>1. T \in SUBSET Pointers BY <1>1
  <2> HIDE DEF T
  <2> QED BY <1>2, <2>1, Lowest
<1>4. m \in Nodes /\ m \in U[tree.root] /\ ~UpTo(tree, U, key, side, m, above[m])
  BY <1>1, <1>3
<1> DEFINE p == tree.parent[m]
<1>5. above[m] = IF p = None \/ tree[other][p] = m THEN p ELSE above[p]
  BY <1>4 DEF GoesUp
<1>6. m \in U[m] BY <1>4, UnderChild
<1>7. CASE p = None
  <2>1. m = tree.root BY <1>4, <1>7, Parents
  <2>2. above[m] = None BY <1>5, <1>7
  <2>3. UpTo(tree, U, key, side, m, None) BY <2>1 DEF UpTo
  <2> QED BY <1>4, <2>2, <2>3
<1>8. CASE p # None
  <2>1. p \in Nodes /\ p \in U[tree.root] BY <1>4, <1>8, Parents
  <2>2. U[p] = {p} \cup U[tree[side][p]] \cup U[tree[other][p]] BY <2>1, UnderChild
  <2>3. CASE tree[other][p] = m
    <3>1. above[m] = p BY <1>5, <2>3
    <3>2. UpTo(tree, U, key, side, m, p) BY <1>6, <1>8, <2>1, <2>2, <2>3 DEF UpTo
    <3> QED BY <1>4, <3>1, <3>2
  <2>4. CASE tree[other][p] # m
    <3> DEFINE a == above[p]
    <3>1. above[m] = a BY <1>5, <1>8, <2>4
    <3>2. p \notin T BY <1>2, <1>3, <1>4
    <3>3. UpTo(tree, U, key, side, p, a) BY <2>1, <3>2
    <3>4. PICK s \in Sides : tree[s][p] = m BY <1>1, <1>4, <1>8 DEF Paired
    <3>5. s = side BY <2>4, <3>4, Order
    <3> HIDE DEF a, p
    <3>6. tree[side][p] = m BY <3>4, <3>5
    <3>7. OnSide(key, side, m, p)
      <4>1. m \in U[tree[side][p]] BY <1>6, <3>6
      <4> QED BY <1>1, <2>1, <4>1 DEF Sorted
    <3>8. OnSide(key, other, p, m) BY <1>4, <2>1, <3>7, Order
    <3>9. ASSUME NEW q \in Nodes, OnSide(key, other, q, p) PROVE OnSide(key, other, q, m)
      BY <1>1, <1>4, <2>1, <3>8, <3>9, Order
    <3>10. ASSUME NEW q \in U[p] PROVE q \in U[m] \/ OnSide(key, other, q, m)
      <4>1. CASE q \in U[tree[other][p]]
        <5>1. OnSide(key, other, q, p) BY <1>1, <2>1, <4>1 DEF Sorted
        <5>2. q \in Nodes
          <6>1. U[p] \subseteq Nodes BY <2>1, UnderChild
          <6> QED BY <3>10, <6>1
        <5> QED BY <3>9, <5>1, <5>2
      <4> QED BY <2>2, <3>6, <3>8, <3>10, <4>1
    <3>11. CASE a = None
      <4>1. ASSUME NEW q \in U[tree.root] PROVE q \in U[m] \/ OnSide(key, other, q, m)
        <5>1. q \in U[p] \/ OnSide(key, other, q, p) BY <3>3, <3>11 DEF UpTo
        <5>2. q \in Nodes BY <1>1
        <5> QED BY <3>9, <3>10, <5>1, <5>2
      <4>2. UpTo(tree, U, key, side, m, a) BY <3>11, <4>1 DEF UpTo
      <4> QED BY <1>4, <3>1, <4>2
    <3>12. CASE a # None
      <4>1. a \in U[tree.root] /\ p \in U[tree[other][a]] BY <3>3, <3>12 DEF UpTo
      <4>2. a \in Nodes /\ U[a] \subseteq Nodes
        <5>1. a \in Nodes BY <1>1, <4>1
        <5> QED BY <5>1, UnderChild
      <4>3. m \in U[tree[other][a]]
        <5>1. tree[other][a] \in Nodes BY <1>1, <4>1, <4>2, Child DEF Spans
        <5>2. U[p] \subseteq U[tree[other][a]] BY <4>1, <5>1, UnderUnder
        <5>3. m \in U[p] BY <1>6, <2>2, <3>6
        <5> QED BY <5>2, <5>3
      <4>4. ASSUME NEW q \in U[a]
            PROVE  \/ q = a \/ q \in U[tree[side][a]] \/ q \in U[m] \/ OnSide(key, other, q, m)
        <5>1. \/ q = a \/ q \in U[tree[side][a]] \/ q \in U[p] \/ OnSide(key, other, q, p)
          BY <3>3, <3>12 DEF UpTo
        <5>2. q \in Nodes BY <4>2
        <5> QED BY <3>9, <3>10, <5>1, <5>2
      <4>5. UpTo(tree, U, key, side, m, a) BY <3>12, <4>1, <4>3, <4>4 DEF UpTo
      <4> QED BY <1>4, <3>1, <4>5
    <3> QED BY <3>11, <3>12
  <2> QED BY <2>3, <2>4
<1> QED BY <1>7, <1>8

\* The nearest member on a side, or None.
LEMMA NeighbourIs ==
  ASSUME NEW tree, NEW U, Shaped(tree, U, Key), NEW n \in U[tree.root], NEW side \in Sides
  PROVE  FoundIn(Other(side), {m \in U[tree.root] : OnSide(Key, side, m, n)},
                 Neighbour(tree, n, side))
<1> DEFINE above == CHOOSE f : f = [m \in Nodes |->
                      LET parent == tree.parent[m]
                      IN  IF parent = None \/ tree[Other(side)][parent] = m THEN parent
                          ELSE f[parent]]
           x == IF tree[side][n] = None THEN above[n]
                ELSE Outermost(tree, tree[side][n], Other(side))
           other == Other(side)
           set == {m \in U[tree.root] : OnSide(Key, side, m, n)}
<1>1. /\ Key \in [Nodes -> Int] /\ tree \in Trees /\ Sorted(tree, U, Key) /\ Spans(tree, U)
      /\ U[tree.root] \subseteq Nodes /\ n \in Nodes /\ None \notin Nodes /\ U[None] = {}
      /\ other \in Sides /\ Other(other) = side
  BY RbTreeAssumption, Parents, Order DEF Shaped, Spans
<1>2. Neighbour(tree, n, side) = x BY DEF Neighbour
<1>3. GoesUp(tree, side, above)
  <2>1. \E f : GoesUp(tree, side, f) BY <1>1, WayUp
  <2> QED BY <2>1 DEF GoesUp
<1> HIDE DEF above
<1>4. CASE tree[side][n] # None
  <2> DEFINE r == tree[side][n]
  <2>1. r \in Nodes BY <1>1, <1>4, Child
  <2>2. x = Outermost(tree, r, other) BY <1>4
  <2> HIDE DEF x
  <2>3. Furthest(tree, U, Key, r, other, x) BY <1>1, <2>1, <2>2, OutermostIsFurthest
  <2>4. Nearest(U, Key, tree.root, n, side, x) BY <1>1, <1>4, <2>3, NearestBelow
  <2>5. x \in set /\ x # None /\ \A m \in set : m = x \/ OnSide(Key, side, m, x)
    BY <1>1, <2>4 DEF Nearest
  <2>6. FoundIn(other, set, x) BY <1>1, <2>5 DEF FoundIn, Extreme
  <2> QED BY <1>2, <2>6
<1>5. CASE tree[side][n] = None
  <2>1. x = above[n] BY <1>5
  <2>2. UpTo(tree, U, Key, side, n, x)
    <3>1. UpTo(tree, U, Key, side, n, above[n]) BY <1>1, <1>3, EndOfWayUp
    <3> QED BY <2>1, <3>1
  <2> HIDE DEF x, set
  <2>3. \A q \in U[n] : ~OnSide(Key, side, q, n)
    <3> TAKE q \in U[n]
    <3>1. U[n] = {n} \cup U[tree[side][n]] \cup U[tree[other][n]] /\ U[n] \subseteq Nodes
      BY <1>1, UnderChild
    <3>2. q \in Nodes /\ (q = n \/ q \in U[tree[other][n]]) BY <1>1, <1>5, <3>1
    <3>3. q \in U[tree[other][n]] => OnSide(Key, other, q, n) BY <1>1 DEF Sorted
    <3> QED BY <1>1, <3>2, <3>3, Order
  <2>4. \A q \in Nodes : OnSide(Key, side, q, n) => ~OnSide(Key, other, q, n) BY <1>1, Order
  <2>5. CASE x = None
    <3>1. \A q \in U[tree.root] : ~OnSide(Key, side, q, n)
      BY <1>1, <2>2, <2>3, <2>4, <2>5 DEF UpTo
    <3>2. set = {} BY <3>1 DEF set
    <3>3. FoundIn(other, set, x) BY <2>5, <3>2 DEF FoundIn
    <3> QED BY <1>2, <3>3 DEF set
  <2>6. CASE x # None
    <3>1. /\ x \in U[tree.root] /\ n \in U[tree[other][x]]
          /\ \A q \in U[x] : \/ q = x \/ q \in U[tree[side][x]] \/ q \in U[n]
                             \/ OnSide(Key, other, q, n)
      BY <2>2, <2>6 DEF UpTo
    <3>2. x \in Nodes /\ x \in U[x] /\ U[x] \subseteq Nodes
      BY <1>1, <3>1, UnderChild
    <3>3. n \in U[x]
      <4>1. U[tree[other][x]] \subseteq U[x] BY <1>1, <3>2, UnderChild
      <4> QED BY <3>1, <4>1
    <3>4. OnSide(Key, side, x, n)
      <4>1. OnSide(Key, other, n, x) BY <1>1, <3>1, <3>2 DEF Sorted
      <4> QED BY <1>1, <3>2, <4>1, Order
    <3>5. ASSUME NEW q \in U[tree.root], OnSide(Key, side, q, n)
          PROVE  q = x \/ OnSide(Key, side, q, x)
      <4>1. q \in Nodes BY <1>1
      <4>2. CASE q \in U[x]
        <5>1. q = x \/ q \in U[tree[side][x]] BY <2>3, <2>4, <3>1, <3>5, <4>1, <4>2
        <5> QED BY <1>1, <3>2, <5>1 DEF Sorted
      <4>3. CASE q \notin U[x] BY <1>1, <3>1, <3>2, <3>3, <3>5, <4>3, Beside
      <4> QED BY <4>2, <4>3
    <3>6. x \in set /\ \A m \in set : m = x \/ OnSide(Key, side, m, x)
      BY <3>1, <3>4, <3>5 DEF set
    <3>7. FoundIn(other, set, x) BY <1>1, <2>6, <3>6 DEF FoundIn, Extreme
    <3> QED BY <1>2, <3>7 DEF set
  <2> QED BY <2>5, <2>6
<1> QED BY <1>4, <1>5

LEMMA FirstAndLast ==
  ASSUME NEW tree, NEW U, Shaped(tree, U, Key), tree.root # None
  PROVE  /\ FoundIn("left", U[tree.root], u80211_rbtree_first(tree))
         /\ FoundIn("right", U[tree.root], u80211_rbtree_last(tree))
<1>1. /\ Key \in [Nodes -> Int] /\ tree.root \in Nodes /\ U[tree.root] \subseteq Nodes
      /\ None \notin Nodes /\ "left" \in Sides /\ "right" \in Sides
  BY RbTreeAssumption, Parents, Fields DEF Shaped, Pointers, Sides
<1>2. ASSUME NEW side \in Sides
      PROVE  FoundIn(side, U[tree.root], Outermost(tree, tree.root, side))
  <2> DEFINE x == Outermost(tree, tree.root, side)
  <2>1. Furthest(tree, U, Key, tree.root, side, x) BY <1>1, OutermostIsFurthest
  <2> HIDE DEF x
  <2>2. x # None BY <1>1, <2>1 DEF Furthest
  <2>3. Extreme(Key, side, U[tree.root], x) BY <2>1 DEF Furthest, Extreme
  <2>4. FoundIn(side, U[tree.root], x) BY <2>2, <2>3 DEF FoundIn
  <2> QED BY <2>4 DEF x
<1> QED BY <1>1, <1>2 DEF u80211_rbtree_first, u80211_rbtree_last

-----------------------------------------------------------------------------
(***************************************************************************)
(* Searches.                                                               *)
(***************************************************************************)

\* A search in the subtree of n: it goes on, on the side on which the key is,
\* until G says what it makes of what was found there.
Searches(tree, key, G, from) ==
  from = [n \in Pointers |-> IF n = None \/ Key[n] = key THEN n
                             ELSE G[n][from[IF key > Key[n] THEN tree.right[n] ELSE tree.left[n]]]]

LEMMA WaySearched ==
  ASSUME NEW tree, NEW U, Shaped(tree, U, Key), NEW key \in Int,
         NEW G \in [Nodes -> [Pointers -> Pointers]]
  PROVE  \E from \in [Pointers -> Pointers] : Searches(tree, key, G, from)
<1> DEFINE stop == {n \in Pointers : n = None \/ Key[n] = key}
           value == [n \in Pointers |-> n]
           next == [n \in Pointers |-> IF key > Key[n] THEN tree.right[n] ELSE tree.left[n]]
<1>1. /\ tree \in Trees /\ None \in Pointers /\ None \notin Nodes /\ Nodes \subseteq Pointers
      /\ U \in [Pointers -> SUBSET Nodes] /\ Key \in [Nodes -> Int]
      /\ IsFiniteSet(Nodes) /\ IsFiniteSet(Pointers)
  BY RbTreeAssumption, FS_AddElement DEF Shaped, Spans, Pointers
<1>2. ASSUME NEW n \in Pointers \ stop
      PROVE  next[n] \in Pointers /\ Smaller(U[next[n]], U[n]) /\ G[n] \in [Pointers -> Pointers]
  <2>1. n \in Nodes BY <1>2 DEF Pointers
  <2> DEFINE side == IF key > Key[n] THEN "right" ELSE "left"
  <2>2. side \in Sides /\ next[n] = tree[side][n] BY DEF Sides
  <2> HIDE DEF side, next
  <2> QED BY <1>1, <2>1, <2>2, Child, UnderChild
<1>3. stop \in SUBSET Pointers /\ \A n \in stop : value[n] \in Pointers OBVIOUS
<1> HIDE DEF next, stop, value
<1>4. Ends(Nodes, Pointers, U, Pointers, stop, value, G, next) BY <1>1, <1>2, <1>3 DEF Ends
<1>5. PICK f \in [Pointers -> Pointers] :
        \A n \in Pointers : f[n] = Returned(n, stop, value, G, next, f)
  BY <1>4, Recursion
<1>6. ASSUME NEW n \in Pointers
      PROVE  f[n] = IF n = None \/ Key[n] = key THEN n
                    ELSE G[n][f[IF key > Key[n] THEN tree.right[n] ELSE tree.left[n]]]
  BY <1>5 DEF Returned, stop, value, next
<1>7. Searches(tree, key, G, f) BY <1>5, <1>6 DEF Searches
<1> QED BY <1>5, <1>7

\* The way of a search, one step.
LEMMA SearchStep ==
  ASSUME NEW tree, NEW U, Shaped(tree, U, Key), NEW key \in Int, NEW n \in Nodes, Key[n] # key
  PROVE  LET c == IF key > Key[n] THEN tree.right[n] ELSE tree.left[n]
             o == IF key > Key[n] THEN tree.left[n] ELSE tree.right[n]
         IN  /\ c \in Pointers /\ Smaller(U[c], U[n]) /\ U[n] = {n} \cup U[c] \cup U[o]
             /\ key > Key[n] => \A m \in U[o] : Key[m] < Key[n]
             /\ key < Key[n] => \A m \in U[o] : Key[m] > Key[n]
             /\ key < Key[n] => \A m \in U[c] : Key[m] < Key[n]
             /\ U[n] \subseteq Nodes /\ key \in Int /\ Key[n] \in Int
             /\ \A m \in U[n] : Key[m] \in Int
<1>1. /\ tree \in Trees /\ Sorted(tree, U, Key) /\ Spans(tree, U) /\ Key \in [Nodes -> Int]
      /\ "left" \in Sides /\ "right" \in Sides
  BY RbTreeAssumption DEF Shaped, Sides
<1>2. /\ tree["left"][n] \in Pointers /\ Smaller(U[tree["left"][n]], U[n])
      /\ tree["right"][n] \in Pointers /\ Smaller(U[tree["right"][n]], U[n])
      /\ U[n] = {n} \cup U[tree["left"][n]] \cup U[tree["right"][n]] /\ U[n] \subseteq Nodes
  BY <1>1, Child, UnderChild DEF Spans
<1>3. /\ \A m \in U[tree["left"][n]] : Key[m] < Key[n]
      /\ \A m \in U[tree["right"][n]] : Key[m] > Key[n]
  <2>1. /\ \A m \in U[tree["left"][n]] : OnSide(Key, "left", m, n)
        /\ \A m \in U[tree["right"][n]] : OnSide(Key, "right", m, n)
    BY <1>1 DEF Sorted
  <2> QED BY <2>1 DEF OnSide
<1>4. Key[n] \in Int /\ \A m \in U[n] : Key[m] \in Int BY <1>1, <1>2
<1>5. CASE key > Key[n] BY <1>2, <1>3, <1>4, <1>5
<1>6. CASE ~(key > Key[n])
  <2>1. key < Key[n] BY <1>4, <1>6
  <2> QED BY <1>2, <1>3, <1>4, <1>6, <2>1
<1> QED BY <1>5, <1>6

\* The member with the key, or None.
Holds(U, key, n, x) ==
  \/ x = None /\ \A m \in U[n] : Key[m] # key
  \/ x \in U[n] /\ Key[x] = key

LEMMA LookupIs ==
  ASSUME NEW tree, NEW U, Shaped(tree, U, Key), NEW key \in Int
  PROVE  Holds(U, key, tree.root, u80211_rbtree_lookup(tree, key))
<1> DEFINE from == CHOOSE f : f = [n \in Pointers |->
                     IF n = None \/ Key[n] = key THEN n
                     ELSE f[IF key > Key[n] THEN tree.right[n] ELSE tree.left[n]]]
           G == [n \in Nodes |-> [x \in Pointers |-> x]]
           T == {n \in Pointers : ~Holds(U, key, n, from[n])}
<1>1. /\ tree \in Trees /\ None \in Pointers /\ None \notin Nodes /\ Nodes \subseteq Pointers
      /\ U \in [Pointers -> SUBSET Nodes] /\ Key \in [Nodes -> Int] /\ U[None] = {}
      /\ IsFiniteSet(Nodes) /\ tree.root \in Pointers
  BY RbTreeAssumption, Fields DEF Shaped, Spans, Pointers
<1>2. u80211_rbtree_lookup(tree, key) = from[tree.root] BY DEF u80211_rbtree_lookup
<1>3. G \in [Nodes -> [Pointers -> Pointers]] /\ \A n \in Nodes, x \in Pointers : G[n][x] = x
  OBVIOUS
<1> HIDE DEF G
<1>4. PICK v \in [Pointers -> Pointers] : Searches(tree, key, G, v) BY <1>1, <1>3, WaySearched
<1>5. v = [n \in Pointers |-> IF n = None \/ Key[n] = key THEN n
                              ELSE v[IF key > Key[n] THEN tree.right[n] ELSE tree.left[n]]]
  <2>1. ASSUME NEW n \in Pointers
        PROVE  v[n] = IF n = None \/ Key[n] = key THEN n
                      ELSE v[IF key > Key[n] THEN tree.right[n] ELSE tree.left[n]]
    <3>1. v[n] = IF n = None \/ Key[n] = key THEN n
                 ELSE G[n][v[IF key > Key[n] THEN tree.right[n] ELSE tree.left[n]]]
      BY <1>4 DEF Searches
    <3> DEFINE c == IF key > Key[n] THEN tree.right[n] ELSE tree.left[n]
    <3>2. CASE n \in Nodes
      <4>1. c \in Pointers BY <1>1, <3>2, Fields
      <4> HIDE DEF c
      <4>2. v[c] \in Pointers BY <4>1
      <4>3. G[n][v[c]] = v[c] BY <1>3, <3>2, <4>2
      <4> QED BY <3>1, <4>3 DEF c
    <3>3. CASE n = None BY <3>1, <3>3
    <3> QED BY <3>2, <3>3 DEF Pointers
  <2> QED BY <1>4, <2>1
<1>6. from = [n \in Pointers |-> IF n = None \/ Key[n] = key THEN n
                                 ELSE from[IF key > Key[n] THEN tree.right[n] ELSE tree.left[n]]]
  BY <1>5
<1> HIDE DEF from
<1>7. T = {}
  <2> SUFFICES ASSUME T # {} PROVE FALSE OBVIOUS
  <2>1. T \in SUBSET Pointers OBVIOUS
  <2>2. PICK n \in T : \A m \in T : ~Smaller(U[m], U[n])
    <3> HIDE DEF T
    <3> QED BY <1>1, <2>1, Lowest
  <2>3. n \in Pointers /\ ~Holds(U, key, n, from[n]) BY <2>2
  <2> DEFINE c == IF key > Key[n] THEN tree.right[n] ELSE tree.left[n]
             o == IF key > Key[n] THEN tree.left[n] ELSE tree.right[n]
  <2>4. from[n] = IF n = None \/ Key[n] = key THEN n ELSE from[c] BY <1>6, <2>3
  <2>5. CASE n = None BY <1>1, <2>3, <2>4, <2>5 DEF Holds
  <2>6. CASE n \in Nodes /\ Key[n] = key
    <3>1. n \in U[n] BY <1>1, <2>6, UnderChild DEF Sides
    <3> QED BY <2>3, <2>4, <2>6, <3>1 DEF Holds
  <2>7. CASE n \in Nodes /\ Key[n] # key
    <3>1. /\ c \in Pointers /\ Smaller(U[c], U[n]) /\ U[n] = {n} \cup U[c] \cup U[o]
          /\ key > Key[n] => \A m \in U[o] : Key[m] < Key[n]
          /\ key < Key[n] => \A m \in U[o] : Key[m] > Key[n]
          /\ key \in Int /\ Key[n] \in Int /\ \A m \in U[n] : Key[m] \in Int
      BY <2>7, SearchStep
    <3>2. from[n] = from[c] BY <1>1, <2>4, <2>7
    <3> HIDE DEF c, o
    <3>3. Holds(U, key, c, from[c]) BY <2>2, <3>1
    <3>4. \A m \in U[o] : Key[m] # key BY <2>7, <3>1
    <3>5. Holds(U, key, n, from[n]) BY <2>7, <3>1, <3>2, <3>3, <3>4 DEF Holds
    <3> QED BY <2>3, <3>5
  <2> QED BY <2>3, <2>5, <2>6, <2>7 DEF Pointers
<1> QED BY <1>1, <1>2, <1>7

\* The first member whose key is not smaller, or None.
NotSmaller(U, key, n, x) ==
  \/ x = None /\ \A m \in U[n] : Key[m] < key
  \/ /\ x \in U[n] /\ Key[x] >= key
     /\ \A m \in U[n] : Key[m] >= key => m = x \/ Key[m] > Key[x]

LEMMA FirstLargerEqualIs ==
  ASSUME NEW tree, NEW U, Shaped(tree, U, Key), NEW key \in Int
  PROVE  NotSmaller(U, key, tree.root, u80211_rbtree_find_first_larger_equal(tree, key))
<1> DEFINE from == CHOOSE f : f = [n \in Pointers |->
                     IF n = None \/ Key[n] = key THEN n
                     ELSE IF key > Key[n] THEN f[tree.right[n]]
                     ELSE LET found == f[tree.left[n]] IN IF found = None THEN n ELSE found]
           G == [n \in Nodes |-> [x \in Pointers |-> IF key > Key[n] THEN x
                                                     ELSE IF x = None THEN n ELSE x]]
           T == {n \in Pointers : ~NotSmaller(U, key, n, from[n])}
<1>1. /\ tree \in Trees /\ None \in Pointers /\ None \notin Nodes /\ Nodes \subseteq Pointers
      /\ U \in [Pointers -> SUBSET Nodes] /\ Key \in [Nodes -> Int] /\ U[None] = {}
      /\ IsFiniteSet(Nodes) /\ tree.root \in Pointers /\ Sorted(tree, U, Key)
  BY RbTreeAssumption, Fields DEF Shaped, Spans, Pointers
<1>2. u80211_rbtree_find_first_larger_equal(tree, key) = from[tree.root]
  BY DEF u80211_rbtree_find_first_larger_equal
<1>3. /\ G \in [Nodes -> [Pointers -> Pointers]]
      /\ \A n \in Nodes, x \in Pointers :
           G[n][x] = IF key > Key[n] THEN x ELSE IF x = None THEN n ELSE x
  BY <1>1
<1> HIDE DEF G
<1>4. PICK v \in [Pointers -> Pointers] : Searches(tree, key, G, v) BY <1>1, <1>3, WaySearched
<1>5. v = [n \in Pointers |->
             IF n = None \/ Key[n] = key THEN n
             ELSE IF key > Key[n] THEN v[tree.right[n]]
             ELSE LET found == v[tree.left[n]] IN IF found = None THEN n ELSE found]
  <2>1. ASSUME NEW n \in Pointers
        PROVE  v[n] = IF n = None \/ Key[n] = key THEN n
                      ELSE IF key > Key[n] THEN v[tree.right[n]]
                      ELSE IF v[tree.left[n]] = None THEN n ELSE v[tree.left[n]]
    <3>1. v[n] = IF n = None \/ Key[n] = key THEN n
                 ELSE G[n][v[IF key > Key[n] THEN tree.right[n] ELSE tree.left[n]]]
      BY <1>4 DEF Searches
    <3>2. CASE n \in Nodes
      <4>1. tree.left[n] \in Pointers /\ tree.right[n] \in Pointers BY <1>1, <3>2, Fields
      <4>2. v[tree.left[n]] \in Pointers /\ v[tree.right[n]] \in Pointers BY <4>1
      <4>3. CASE key > Key[n]
        <5>1. G[n][v[tree.right[n]]] = v[tree.right[n]] BY <1>3, <3>2, <4>2, <4>3
        <5> QED BY <3>1, <4>3, <5>1
      <4>4. CASE ~(key > Key[n])
        <5>1. G[n][v[tree.left[n]]] = IF v[tree.left[n]] = None THEN n ELSE v[tree.left[n]]
          BY <1>3, <3>2, <4>2, <4>4
        <5> QED BY <3>1, <4>4, <5>1
      <4> QED BY <4>3, <4>4
    <3>3. CASE n = None BY <3>1, <3>3
    <3> QED BY <3>2, <3>3 DEF Pointers
  <2> QED BY <1>4, <2>1
<1>6. from = [n \in Pointers |->
                IF n = None \/ Key[n] = key THEN n
                ELSE IF key > Key[n] THEN from[tree.right[n]]
                ELSE LET found == from[tree.left[n]] IN IF found = None THEN n ELSE found]
  BY <1>5
<1> HIDE DEF from
<1>7. T = {}
  <2> SUFFICES ASSUME T # {} PROVE FALSE OBVIOUS
  <2>1. T \in SUBSET Pointers OBVIOUS
  <2>2. PICK n \in T : \A m \in T : ~Smaller(U[m], U[n])
    <3> HIDE DEF T
    <3> QED BY <1>1, <2>1, Lowest
  <2>3. n \in Pointers /\ ~NotSmaller(U, key, n, from[n]) BY <2>2
  <2> DEFINE c == IF key > Key[n] THEN tree.right[n] ELSE tree.left[n]
             o == IF key > Key[n] THEN tree.left[n] ELSE tree.right[n]
  <2>4. from[n] = IF n = None \/ Key[n] = key THEN n
                  ELSE IF key > Key[n] THEN from[c] ELSE IF from[c] = None THEN n ELSE from[c]
    BY <1>6, <2>3
  <2>5. CASE n = None BY <1>1, <2>3, <2>4, <2>5 DEF NotSmaller
  <2>6. CASE n \in Nodes /\ Key[n] = key
    <3>1. /\ n \in U[n] /\ U[n] = {n} \cup U[tree["left"][n]] \cup U[tree["right"][n]]
          /\ U[n] \subseteq Nodes
      BY <1>1, <2>6, UnderChild DEF Shaped, Spans, Sides
    <3>2. /\ \A m \in U[tree["left"][n]] : Key[m] < Key[n]
          /\ \A m \in U[tree["right"][n]] : Key[m] > Key[n]
      <4>1. /\ \A m \in U[tree["left"][n]] : OnSide(Key, "left", m, n)
            /\ \A m \in U[tree["right"][n]] : OnSide(Key, "right", m, n)
        BY <1>1, <2>6 DEF Sorted, Sides
      <4> QED BY <4>1 DEF OnSide
    <3>3. from[n] = n /\ \A m \in U[n] : Key[m] \in Int BY <1>1, <2>4, <2>6, <3>1
    <3>4. NotSmaller(U, key, n, n) BY <2>6, <3>1, <3>2, <3>3 DEF NotSmaller
    <3> QED BY <2>3, <3>3, <3>4
  <2>7. CASE n \in Nodes /\ Key[n] # key
    <3>1. /\ c \in Pointers /\ Smaller(U[c], U[n]) /\ U[n] = {n} \cup U[c] \cup U[o]
          /\ key > Key[n] => \A m \in U[o] : Key[m] < Key[n]
          /\ key < Key[n] => \A m \in U[o] : Key[m] > Key[n]
          /\ key < Key[n] => \A m \in U[c] : Key[m] < Key[n]
          /\ key \in Int /\ Key[n] \in Int /\ \A m \in U[n] : Key[m] \in Int
      BY <2>7, SearchStep
    <3>2. from[n] = IF key > Key[n] THEN from[c] ELSE IF from[c] = None THEN n ELSE from[c]
      BY <1>1, <2>4, <2>7
    <3> HIDE DEF c, o
    <3>3. NotSmaller(U, key, c, from[c]) BY <2>2, <3>1
    <3>4. CASE key > Key[n]
      <4>1. \A m \in U[n] : m \in U[c] \/ Key[m] < key BY <3>1, <3>4
      <4>2. NotSmaller(U, key, n, from[c]) BY <3>1, <3>3, <4>1 DEF NotSmaller
      <4> QED BY <2>3, <3>2, <3>4, <4>2
    <3>5. CASE key < Key[n] /\ from[c] = None
      <4>1. \A m \in U[c] : Key[m] < key BY <1>1, <3>1, <3>3, <3>5 DEF NotSmaller, Smaller
      <4>2. NotSmaller(U, key, n, n) BY <3>1, <3>5, <4>1 DEF NotSmaller
      <4> QED BY <2>3, <3>1, <3>2, <3>5, <4>2
    <3>6. CASE key < Key[n] /\ from[c] # None
      <4>1. from[c] \in U[c] /\ Key[from[c]] < Key[n] BY <3>1, <3>3, <3>6 DEF NotSmaller
      <4>2. \A m \in U[n] : m \in U[c] \/ Key[m] > Key[from[c]] BY <3>1, <3>6, <4>1
      <4>3. NotSmaller(U, key, n, from[c]) BY <3>1, <3>3, <3>6, <4>1, <4>2 DEF NotSmaller
      <4> QED BY <2>3, <3>1, <3>2, <3>6, <4>3
    <3> QED BY <2>7, <3>1, <3>4, <3>5, <3>6
  <2> QED BY <2>3, <2>5, <2>6, <2>7 DEF Pointers
<1> QED BY <1>1, <1>2, <1>7

\* No two members have the same key.
LEMMA KeysDiffer ==
  ASSUME NEW tree, NEW U, Shaped(tree, U, Key)
  PROVE  \A m, n \in U[tree.root] : Key[m] = Key[n] => m = n
<1> SUFFICES ASSUME NEW m \in U[tree.root], NEW n \in U[tree.root], Key[m] = Key[n], m # n
             PROVE  FALSE
  OBVIOUS
<1>1. /\ Key \in [Nodes -> Int] /\ tree.root \in Nodes /\ U[tree.root] \subseteq Nodes
      /\ Sorted(tree, U, Key) /\ "left" \in Sides
  BY RbTreeAssumption, Parents, Fields DEF Shaped, Pointers, Sides
<1>2. PICK a \in U[tree.root] : Fork(tree, U, m, n, a) BY <1>1, Forks
<1>3. /\ a \in Nodes /\ \A q \in Nodes : Key[q] \in Int
      /\ U[a] = {a} \cup U[tree["left"][a]] \cup U[tree["right"][a]]
  BY <1>1, <1>2 DEF Shaped, Spans
<1>4. \A side \in Sides : \A q \in U[tree[side][a]] : OnSide(Key, side, q, a)
  BY <1>1, <1>3 DEF Sorted
<1>5. \A q \in U[tree["left"][a]] : Key[q] < Key[a] BY <1>4 DEF OnSide, Sides
<1>6. \A q \in U[tree["right"][a]] : Key[q] > Key[a] BY <1>4 DEF OnSide, Sides
<1>7. CASE m = a \/ n = a BY <1>1, <1>2, <1>3, <1>5, <1>6, <1>7 DEF Fork
<1>8. CASE \E side \in Sides : m \in U[tree[side][a]] /\ n \in U[tree[Other(side)][a]]
  BY <1>1, <1>3, <1>5, <1>6, <1>8 DEF Sides, Other
<1> QED BY <1>2, <1>7, <1>8 DEF Fork

LEMMA InOrder ==
  ASSUME NEW tree, NEW U, Shaped(tree, U, Key)
  PROVE  WalksInOrder(tree)
<1> DEFINE members == U[tree.root]
<1>1. /\ Key \in [Nodes -> Int] /\ members \subseteq Nodes /\ Members(tree) = members
      /\ None \notin Nodes
  BY RbTreeAssumption, MembersAre, Parents DEF Shaped
<1>2. members # {} => /\ u80211_rbtree_first(tree) = SmallestOf(members)
                      /\ u80211_rbtree_last(tree) = LargestOf(members)
  <2> SUFFICES ASSUME members # {}
               PROVE  /\ u80211_rbtree_first(tree) = SmallestOf(members)
                      /\ u80211_rbtree_last(tree) = LargestOf(members)
    OBVIOUS
  <2>1. tree.root # None BY <1>1, Parents
  <2>2. /\ FoundIn("left", members, u80211_rbtree_first(tree))
        /\ FoundIn("right", members, u80211_rbtree_last(tree))
    BY <2>1, FirstAndLast
  <2> HIDE DEF members
  <2> QED BY <1>1, <2>2, FoundIsSmallest, FoundIsLargest
<1>3. ASSUME NEW n \in members
      PROVE  /\ u80211_rbtree_successor(tree, n) = SmallestOf({m \in members : Key[m] > Key[n]})
             /\ u80211_rbtree_predecessor(tree, n) = LargestOf({m \in members : Key[m] < Key[n]})
  <2>1. /\ FoundIn(Other("right"), {m \in members : OnSide(Key, "right", m, n)},
                   Neighbour(tree, n, "right"))
        /\ FoundIn(Other("left"), {m \in members : OnSide(Key, "left", m, n)},
                   Neighbour(tree, n, "left"))
    BY NeighbourIs DEF Sides
  <2>2. /\ {m \in members : OnSide(Key, "right", m, n)} = {m \in members : Key[m] > Key[n]}
        /\ {m \in members : OnSide(Key, "left", m, n)} = {m \in members : Key[m] < Key[n]}
    BY DEF OnSide
  <2>3. Other("right") = "left" /\ Other("left") = "right" BY DEF Other
  <2> HIDE DEF members
  <2>4. /\ {m \in members : Key[m] > Key[n]} \in SUBSET Nodes
        /\ {m \in members : Key[m] < Key[n]} \in SUBSET Nodes
    BY <1>1
  <2>5. FoundIn("left", {m \in members : Key[m] > Key[n]}, u80211_rbtree_successor(tree, n))
    BY <2>1, <2>2, <2>3 DEF u80211_rbtree_successor
  <2>6. FoundIn("right", {m \in members : Key[m] < Key[n]}, u80211_rbtree_predecessor(tree, n))
    BY <2>1, <2>2, <2>3 DEF u80211_rbtree_predecessor
  <2>7. u80211_rbtree_successor(tree, n) = SmallestOf({m \in members : Key[m] > Key[n]})
    BY <2>4, <2>5, FoundIsSmallest
  <2>8. u80211_rbtree_predecessor(tree, n) = LargestOf({m \in members : Key[m] < Key[n]})
    BY <2>4, <2>6, FoundIsLargest
  <2> QED BY <2>7, <2>8
<1>4. ASSUME NEW key \in {Key[n] : n \in Nodes}
      PROVE  /\ u80211_rbtree_lookup(tree, key) = SmallestOf({m \in members : Key[m] = key})
             /\ u80211_rbtree_find_first_larger_equal(tree, key)
                  = SmallestOf({m \in members : Key[m] >= key})
  <2>1. key \in Int BY <1>1
  <2> DEFINE x == u80211_rbtree_lookup(tree, key)
             y == u80211_rbtree_find_first_larger_equal(tree, key)
             equal == {m \in members : Key[m] = key}
             larger == {m \in members : Key[m] >= key}
  <2>2. Holds(U, key, tree.root, x) BY <2>1, LookupIs
  <2>3. NotSmaller(U, key, tree.root, y) BY <2>1, FirstLargerEqualIs
  <2>4. \A m, n \in members : Key[m] = Key[n] => m = n BY KeysDiffer
  <2> HIDE DEF x, y
  <2>5. FoundIn("left", equal, x)
    <3>1. \/ x = None /\ equal = {}
          \/ x \in equal /\ \A m \in equal : m = x
      BY <2>2, <2>4 DEF Holds
    <3> QED BY <1>1, <3>1 DEF FoundIn, Extreme
  <2>6. FoundIn("left", larger, y)
    <3>1. \/ y = None /\ larger = {}
          \/ y \in larger /\ \A m \in larger : m = y \/ Key[m] > Key[y]
      <4>1. \A m \in members : Key[m] \in Int BY <1>1
      <4> QED BY <2>1, <2>3, <4>1 DEF NotSmaller
    <3> QED BY <1>1, <3>1 DEF FoundIn, Extreme, OnSide, Other
  <2>7. equal \in SUBSET Nodes /\ larger \in SUBSET Nodes BY <1>1
  <2> HIDE DEF equal, larger
  <2>8. x = SmallestOf(equal) BY <2>5, <2>7, FoundIsSmallest
  <2>9. y = SmallestOf(larger) BY <2>6, <2>7, FoundIsSmallest
  <2> QED BY <2>8, <2>9 DEF x, y, equal, larger
<1> HIDE DEF members
<1> QED BY <1>1, <1>2, <1>3, <1>4 DEF WalksInOrder, SmallestOf, LargestOf

\* A sound tree is what a tree must be: it has its members, is a search tree that is
\* linked both ways and keeps the rules of the colours, and the walks and searches
\* of src/rbtree.c, whatever its shape, find what they should.
THEOREM SoundTreeServes ==
  ASSUME NEW tree, NEW members, Sound(tree, members)
  PROVE  /\ tree \in Trees /\ Members(tree) = members /\ members \subseteq Nodes
         /\ IsSearchTree(tree) /\ IsBalanced(tree) /\ WalksInOrder(tree)
<1>1. PICK U, B : Shaped(tree, U, Key) /\ U[tree.root] = members /\ Coloured(tree, B) BY DEF Sound
<1>2. members \subseteq Nodes BY <1>1, RbTreeAssumption, Parents
<1> QED BY <1>1, <1>2, MembersAre, SearchTree, Balanced, InOrder DEF Shaped
=============================================================================
