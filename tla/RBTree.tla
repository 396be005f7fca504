-------------------------------- MODULE RBTree --------------------------------
(***************************************************************************)
(* The red-black tree of rbtree.c with the search of its user, balloc.c.   *)
(* One step is one turn of a loop: linking or unlinking a node, then the   *)
(* turns of rb_insert and rb_erase_fix that balance the tree again.  The   *)
(* code has two mirror images of everything; here a side is a parameter.   *)
(* A node is the number that is its key; 0 is the null pointer.            *)
(***************************************************************************)
EXTENDS Integers, FiniteSets, SequencesExt

CONSTANT MaxNode

ASSUME RBTreeAssumption == MaxNode \in Nat \ {0}

VARIABLES
    tree,    \* root, the children kid[side][node], the parents up[node], the red nodes
    busy,    \* the balancing loop that runs, or "none"
    at,      \* node of rb_insert, child of rb_erase_fix
    above    \* parent of rb_erase_fix

rb_vars == <<tree, busy, at, above>>

NULL == 0
Node == 1 .. MaxNode
Side == {"left", "right"}
Other(s) == IF s = "left" THEN "right" ELSE "left"

rb_red(t, n) == n \in t.red
Paint(t, red, black) == [t EXCEPT !.red = (@ \cup red) \ black]

BlackRoot(t) == Paint(t, {}, {t.root})

\* rb_set_color of n to that of m
Take(t, n, m) == IF rb_red(t, m) THEN Paint(t, {n}, {}) ELSE Paint(t, {}, {n})

\* rb_set_parent, if there is a node
SetParent(t, n, p) == IF n = NULL THEN t ELSE [t EXCEPT !.up[n] = p]

SideOf(t, p, n) == IF t.kid["left"][p] = n THEN "left" ELSE "right"

\* the link that leads to n leads to r
Replace(t, p, n, r) ==
    IF p = NULL THEN [t EXCEPT !.root = r] ELSE [t EXCEPT !.kid[SideOf(t, p, n)][p] = r]

\* variant: the parent of the subtree that changes sides is not set
RotateLoose(t, x, s) ==
    LET r == t.kid[Other(s)][x]
        u == [t EXCEPT !.kid[Other(s)][x] = t.kid[s][r], !.kid[s][r] = x]
    IN  SetParent(Replace(SetParent(u, r, t.up[x]), t.up[x], x, r), x, r)

\* rb_rotate_left for s = "left", rb_rotate_right for "right"
Rotate(t, x, s) ==
    LET r == t.kid[Other(s)][x]
        c == t.kid[s][r]
        u == [t EXCEPT !.kid[Other(s)][x] = c, !.kid[s][r] = x]
        v == SetParent(SetParent(u, c, x), r, t.up[x])
    IN  SetParent(Replace(v, t.up[x], x, r), x, r)

\* __rb_leftmost, __rb_rightmost
Outermost(t, n, s) ==
    LET f[m \in Node \cup {NULL}] ==
          IF m = NULL \/ t.kid[s][m] = NULL THEN m ELSE f[t.kid[s][m]]
    IN  f[n]

\* rb_next for s = "right", rb_prev for "left"
Neighbour(t, n, s) ==
    LET climb[m \in Node] ==
          LET p == t.up[m] IN IF p # NULL /\ t.kid[s][p] = m THEN climb[p] ELSE p
    IN  IF t.kid[s][n] # NULL THEN Outermost(t, t.kid[s][n], Other(s)) ELSE climb[n]

\* where the search of __balloc_add_range ends: a parent and the side of its free link
Place(t, n) ==
    LET down[m \in Node] ==
          LET s == IF m < n THEN "right" ELSE "left"
          IN  IF t.kid[s][m] = NULL THEN <<m, s>> ELSE down[t.kid[s][m]]
    IN  down[t.root]

\* the search of __balloc_remove_range and __balloc_alloc: the first node above k
FirstAbove(t, k) ==
    LET down[m \in Node \cup {NULL}, found \in Node \cup {NULL}] ==
          IF m = NULL THEN found
          ELSE IF m > k THEN down[t.kid["left"][m], m] ELSE down[t.kid["right"][m], found]
    IN  down[t.root, NULL]

-----------------------------------------------------------------------------
Rest == busy' = "none" /\ at' = NULL /\ above' = NULL

RBInit ==
    /\ tree = [root |-> NULL, kid |-> [s \in Side |-> [n \in Node |-> NULL]],
               up |-> [n \in Node |-> NULL], red |-> {}]
    /\ busy = "none" /\ at = NULL /\ above = NULL

Linked(n) == tree.root = n \/ tree.up[n] # NULL

\* rb_link; an untagged parent pointer makes the node red
Link(t, n) ==
    IF t.root = NULL THEN Paint([t EXCEPT !.root = n], {n}, {})
    ELSE LET p == Place(t, n)
         IN  Paint([t EXCEPT !.kid[p[2]][p[1]] = n, !.up[n] = p[1]], {n}, {})

insert(n) ==
    /\ busy = "none" /\ ~Linked(n)
    /\ tree' = Link(tree, n)
    /\ busy' = "rb_insert" /\ at' = n /\ above' = NULL

Parent == tree.up[at]
Grandparent == tree.up[Parent]
Uncle == tree.kid[Other(SideOf(tree, Grandparent, Parent))][Grandparent]

\* variant: the loop goes on at the same node
ClimbNowhere == at
\* a red uncle: repaint, and look at the grandparent
ClimbTo == Grandparent

InsertRepaint ==
    /\ busy = "rb_insert"
    /\ rb_red(tree, Parent) /\ rb_red(tree, Uncle)
    /\ tree' = Paint(tree, {Grandparent}, {Parent, Uncle})
    /\ at' = ClimbTo
    /\ UNCHANGED <<busy, above>>

\* an inner node is first rotated above its parent
Straight(t, n) ==
    LET p == t.up[n]
        s == SideOf(t, t.up[p], p)
    IN  IF t.kid[Other(s)][p] = n THEN Rotate(t, p, s) ELSE t

InsertRotate ==
    /\ busy = "rb_insert"
    /\ rb_red(tree, Parent) /\ ~rb_red(tree, Uncle)
    /\ LET g == Grandparent
           s == SideOf(tree, g, Parent)
           u == Straight(tree, at)
       IN  tree' = BlackRoot(Paint(Rotate(u, g, Other(s)), {g}, {u.kid[s][g]}))
    /\ Rest

InsertDone ==
    /\ busy = "rb_insert"
    /\ ~rb_red(tree, Parent)
    /\ tree' = BlackRoot(tree)
    /\ Rest

-----------------------------------------------------------------------------
\* the memory of a node that is out of the tree is its owner's again
Forget(t, n) ==
    Paint([t EXCEPT !.kid["left"][n] = NULL, !.kid["right"][n] = NULL, !.up[n] = NULL], {}, {n})

\* a node without a left or a right child: its child moves up
Splice(t, n, c) == Replace(SetParent(t, c, t.up[n]), t.up[n], n, c)

\* variant: the successor keeps its own colour
CopyLinks(t, n, x) ==
    [t EXCEPT !.kid["left"][x] = t.kid["left"][n], !.up[x] = t.up[n]]

\* x gets the left child, the parent and the colour of n
Copy(t, n, x) ==
    Take([t EXCEPT !.kid["left"][x] = t.kid["left"][n], !.up[x] = t.up[n]], x, n)

\* a node with two children: its successor x takes its place, whose right child c
\* takes the place of x, unless x is the child of n itself
Substitute(t, n, x, c) ==
    LET p == t.up[x]
        u == Copy(t, n, x)
        v == IF p = n THEN u
             ELSE SetParent([u EXCEPT !.kid["right"][x] = t.kid["right"][n], !.kid["left"][p] = c], c, p)
        w == SetParent(v, v.kid["left"][x], x)
    IN  Replace(IF p = n THEN w ELSE SetParent(w, w.kid["right"][x], x), t.up[n], n, x)

\* variant: only a left child is thought of
LeftChild(t, n) == t.kid["left"][n]

OnlyChild(t, n) == IF t.kid["left"][n] # NULL THEN t.kid["left"][n] ELSE t.kid["right"][n]

\* what leaves a gap in the tree: the node whose colour goes missing, the child that
\* moves up and the parent of that child
Gap(t, n) ==
    LET x == Neighbour(t, n, "right")
    IN  IF t.kid["left"][n] # NULL /\ t.kid["right"][n] # NULL
        THEN [out |-> x, c |-> t.kid["right"][x], p |-> IF t.up[x] = n THEN x ELSE t.up[x]]
        ELSE [out |-> n, c |-> OnlyChild(t, n), p |-> t.up[n]]

erase(n) ==
    /\ busy = "none" /\ Linked(n)
    /\ LET gap == Gap(tree, n)
       IN  /\ tree' = Forget(IF gap.out = n THEN Splice(tree, n, gap.c)
                             ELSE Substitute(tree, n, gap.out, gap.c), n)
           /\ IF rb_red(tree, gap.out) THEN Rest
              ELSE busy' = "rb_erase_fix" /\ at' = gap.c /\ above' = gap.p

Lacking == busy = "rb_erase_fix" /\ ~rb_red(tree, at) /\ at # tree.root

\* a red brother is first rotated above the parent
BlackBrother(t, p, s) ==
    LET b == t.kid[Other(s)][p]
    IN  IF rb_red(t, b) THEN Rotate(Paint(t, {p}, {b}), p, s) ELSE t

NephewsBlack(t, b) == \A s \in Side : ~rb_red(t, t.kid[s][b])

EraseClimb ==
    /\ Lacking
    /\ LET s == SideOf(tree, above, at)
           t == BlackBrother(tree, above, s)
           b == t.kid[Other(s)][above]
       IN  /\ NephewsBlack(t, b)
           /\ tree' = Paint(t, {b}, {})
           /\ at' = above
           /\ above' = t.up[above]
           /\ UNCHANGED busy

\* a black far nephew: the near one is rotated above the brother
FarRed(t, b, s) ==
    IF rb_red(t, t.kid[Other(s)][b]) THEN t
    ELSE Rotate(Paint(t, {b}, {t.kid[s][b]}), b, Other(s))

EraseRotate ==
    /\ Lacking
    /\ LET s == SideOf(tree, above, at)
           t == BlackBrother(tree, above, s)
           u == FarRed(t, t.kid[Other(s)][above], s)
           b == u.kid[Other(s)][above]
           v == Paint(Take(u, b, above), {}, {above, u.kid[Other(s)][b]})
       IN  /\ ~NephewsBlack(t, t.kid[Other(s)][above])
           /\ tree' = BlackRoot(Rotate(v, above, s))
    /\ Rest

EraseDone ==
    /\ busy = "rb_erase_fix" /\ ~Lacking
    /\ tree' = Paint(tree, {}, {at})
    /\ Rest

Balance ==
    InsertRepaint \/ InsertRotate \/ InsertDone \/ EraseClimb \/ EraseRotate \/ EraseDone

RBNext == (\E n \in Node : insert(n) \/ erase(n)) \/ Balance

RBSpec == RBInit /\ [][RBNext]_rb_vars

-----------------------------------------------------------------------------
Members == {n \in Node : Linked(n)}

\* the nodes below the root, from left to right
InOrder ==
    LET below[n \in Node \cup {NULL}] ==
          IF n = NULL THEN <<>>
          ELSE below[tree.kid["left"][n]] \o <<n>> \o below[tree.kid["right"][n]]
    IN  below[tree.root]

\* the members from one end to the other, as rb_next and rb_prev visit them
Walk(s) ==
    LET from[n \in Node \cup {NULL}] ==
          IF n = NULL THEN <<>> ELSE <<n>> \o from[Neighbour(tree, n, s)]
    IN  from[Outermost(tree, tree.root, Other(s))]

\* the link that lacks a black node while rb_erase_fix runs
Lacks(n, s) == busy = "rb_erase_fix" /\ n = above /\ s = SideOf(tree, above, at)

\* whether all ways down cross the same number of black nodes, a lacking one included
BlackBalanced ==
    LET h[n \in Node \cup {NULL}] ==     \* that number, or 0 if ways differ
          IF n = NULL THEN 1
          ELSE LET way == [s \in Side |-> h[tree.kid[s][n]] + IF Lacks(n, s) THEN 1 ELSE 0]
               IN  IF way["left"] # way["right"] \/ h[tree.kid["left"][n]] = 0 THEN 0
                   ELSE IF rb_red(tree, n) THEN way["left"] ELSE way["left"] + 1
    IN  h[tree.root] > 0

\* Type invariant.
RBTypeOK ==
    /\ tree \in [root : Node \cup {NULL}, kid : [Side -> [Node -> Node \cup {NULL}]],
                 up : [Node -> Node \cup {NULL}], red : SUBSET Node]
    /\ busy \in {"none", "rb_insert", "rb_erase_fix"}
    /\ at \in Node \cup {NULL} /\ above \in Node \cup {NULL}

\* At every turn of every loop, each link down has its link up; both walks visit
\* exactly the members from one end to the other; and the search of the boot
\* allocator finds the least member above a bound (rbtree.c:31-126, balloc.c:81-90).
WalksAgree ==
    /\ RBTypeOK
    /\ \A n \in Members, s \in Side :
         tree.kid[s][n] # NULL => tree.up[tree.kid[s][n]] = n
    /\ ToSet(InOrder) = Members
    /\ Walk("right") = InOrder
    /\ Walk("left") = Reverse(InOrder)
    /\ \A k \in 0 .. MaxNode :
         LET higher == {n \in Members : n > k}
         IN  FirstAbove(tree, k) =
               IF higher = {} THEN NULL ELSE CHOOSE n \in higher : \A m \in higher : n <= m

\* Between calls no red node has a red parent, the root is black and all ways down
\* cross the same number of black nodes, so that no way is more than twice as long as
\* another.  While a loop runs, all of it holds but at the place the loop looks at: a
\* red node next to a red one, and in rb_erase_fix a black node that lacks
\* (rbtree.c:128-181, 183-247).
RedBlack ==
    /\ BlackBalanced
    /\ rb_red(tree, tree.root) => at = tree.root
    /\ \A n \in tree.red :
         rb_red(tree, tree.up[n]) =>
           at = n \/ (busy = "rb_erase_fix" /\ at = tree.up[n])

\* the number of nodes above n
Depth(n) ==
    LET d[m \in Node] == IF tree.up[m] = NULL THEN 0 ELSE 1 + d[tree.up[m]]
    IN  d[n]

\* the depth of the place a loop looks at, which may be an empty link
DepthOfPlace == IF at = NULL THEN Depth(above) + 1 ELSE Depth(at)

\* Every loop comes to its end: a turn that is not the last brings the place it looks
\* at nearer to the root or, after the rotation of a red brother, leaves it at a red
\* node, with which rb_erase_fix stops (rbtree.c:132-176, 186-243).
Climbs ==
    [][busy # "none" /\ busy' = busy =>
         DepthOfPlace' < DepthOfPlace \/ (busy = "rb_erase_fix" /\ rb_red(tree', at'))]_rb_vars

Set == INSTANCE OrderedSet WITH order <- InOrder

\* The tree is an ordered set: linking and unlinking a node adds and takes that member
\* only, at the right place, and balancing it changes neither the members nor their
\* order; so a pointer to a member stays good while others come and go
\* (rbtree.c:31-70, 249-294, balloc.c:35-54, 92-103).
ImplementsSet == Set!OrderedSpec
===============================================================================
