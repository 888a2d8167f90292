------------------------------- MODULE RbTree -------------------------------
(***************************************************************************)
(* The red-black tree of rbtree.c, as operators on a tree value.  A tree   *)
(* is a record                                                             *)
(*    root    the root node or Null,                                       *)
(*    kid     kid["l"][n] is n->rb_left and kid["r"][n] is n->rb_right,    *)
(*    up      up[n] is rb_parent(n),                                       *)
(*    red     the set of the red nodes.                                    *)
(* RbNodes are the keys themselves, so a tree can be read off directly.    *)
(* The code spells every case twice, for the left and for the right; here  *)
(* the side is a parameter, and Other(side) is the mirror image.           *)
(* rb_link_node and rb_erase are called by epoll.c and defined nowhere in  *)
(* the repository: they are external.                                      *)
(***************************************************************************)
EXTENDS Integers, FiniteSets

CONSTANTS
    RbNodes,       \* what a node holds: the file descriptors of epoll.c
    Null

Sides == {"l", "r"}
Other(side) == IF side = "l" THEN "r" ELSE "l"

EmptyTree == [root |-> Null,
              kid  |-> [side \in Sides |-> [n \in RbNodes |-> Null]],
              up   |-> [n \in RbNodes |-> Null],
              red  |-> {}]

IsRed(t, n) == n # Null /\ n \in t.red

\* The new top of a rotation always becomes a left child.
ReplaceLeft(t, n, m, p) ==
    IF p = Null THEN [t EXCEPT !.root = m] ELSE [t EXCEPT !.kid["l"][p] = m]

(***************************************************************************)
(* n's place under its parent p is taken by m (the tail of both rotations).*)
(***************************************************************************)
Replace(t, n, m, p) ==
    IF p = Null THEN [t EXCEPT !.root = m]
    ELSE [t EXCEPT !.kid = [side \in Sides |->
             [t.kid[side] EXCEPT ![p] = IF @ = n THEN m ELSE @]]]

(***************************************************************************)
(* rb_rotate_left is Rotate(t, n, "l"), rb_rotate_right Rotate(t, n, "r"). *)
(***************************************************************************)
Rotate(t, n, side) ==
    LET far    == Other(side)
        m      == t.kid[far][n]
        inner  == t.kid[side][m]
        parent == t.up[n]
        placed == Replace(t, n, m, parent)
    IN  [placed EXCEPT !.kid[far][n]  = inner,
                       !.kid[side][m] = n,
                       !.up = [x \in RbNodes |-> CASE x = n     -> m
                                                [] x = m     -> parent
                                                [] x = inner -> n
                                                [] OTHER     -> @[x]]]

(***************************************************************************)
(* rb_insert_color: the loop climbs from the new red node while its parent *)
(* is red too.                                                             *)
(***************************************************************************)
RECURSIVE Recolour(_, _)
Recolour(t, node) ==
    LET parent  == t.up[node]
        gparent == t.up[parent]
        side    == IF t.kid["l"][gparent] = parent THEN "l" ELSE "r"
        uncle   == t.kid[Other(side)][gparent]
        inside  == t.kid[Other(side)][parent] = node
        turned  == IF inside THEN Rotate(t, parent, side) ELSE t
        top     == IF inside THEN node ELSE parent
        low     == IF inside THEN parent ELSE node
        painted == [turned EXCEPT !.red = (@ \ {top}) \cup {gparent}]
    IN  IF ~IsRed(t, parent) THEN t
        ELSE IF IsRed(t, uncle)
        THEN Recolour([t EXCEPT !.red = (@ \ {uncle, parent}) \cup {gparent}], gparent)
        ELSE Recolour(Rotate(painted, gparent, Other(side)), low)

rb_insert_color(t, node) ==
    LET done == Recolour(t, node) IN [done EXCEPT !.red = @ \ {done.root}]

(***************************************************************************)
(* rb_erase_color: node (perhaps Null) under parent is one black short.    *)
(***************************************************************************)
RECURSIVE Rebalance(_, _, _)
Rebalance(t, node, parent) ==
    LET side     == IF t.kid["l"][parent] = node THEN "l" ELSE "r"
        far      == Other(side)
        sibling  == t.kid[far][parent]
        redCase  == IsRed(t, sibling)
        t1       == IF redCase
                    THEN Rotate([t EXCEPT !.red = (@ \ {sibling}) \cup {parent}], parent, side)
                    ELSE t
        other    == t1.kid[far][parent]
        near     == t1.kid[side][other]
        outer    == t1.kid[far][other]
        t2       == IF IsRed(t1, outer) THEN t1
                    ELSE Rotate([t1 EXCEPT !.red = (@ \ {near}) \cup {other}], other, far)
        top      == t2.kid[far][parent]
        repaint  == IF parent \in t2.red THEN t2.red \cup {top} ELSE t2.red \ {top}
        t3       == [t2 EXCEPT !.red = repaint \ {parent, t2.kid[far][top]}]
    IN  IF IsRed(t, node) \/ node = t.root
        THEN [t EXCEPT !.red = @ \ {node}]
        ELSE IF ~IsRed(t1, near) /\ ~IsRed(t1, outer)
        THEN Rebalance([t1 EXCEPT !.red = @ \cup {other}], parent, t1.up[parent])
        ELSE LET done == Rotate(t3, parent, side) IN [done EXCEPT !.red = @ \ {done.root}]

rb_erase_color(t, node, parent) == Rebalance(t, node, parent)

(***************************************************************************)
(* External.  rb_link_node hangs a new red node under parent; rb_erase     *)
(* splices a node out, putting its in-order successor in its place when it *)
(* has two children, and calls rb_erase_color when a black node went.      *)
(***************************************************************************)
rb_link_node(t, n, parent, side) ==
    LET linked == [t EXCEPT !.up[n] = parent, !.red = @ \cup {n},
                            !.kid["l"][n] = Null, !.kid["r"][n] = Null]
    IN  IF parent = Null THEN [linked EXCEPT !.root = n]
                         ELSE [linked EXCEPT !.kid[side][parent] = n]

RECURSIVE Leftmost(_, _)
Leftmost(t, n) == IF t.kid["l"][n] = Null THEN n ELSE Leftmost(t, t.kid["l"][n])

SpliceOut(t, n) ==
    LET child  == IF t.kid["l"][n] # Null THEN t.kid["l"][n] ELSE t.kid["r"][n]
        parent == t.up[n]
        cut    == Replace(t, n, child, parent)
        joined == [cut EXCEPT !.up = [x \in RbNodes |-> IF x = child THEN parent
                                                   ELSE IF x = n THEN Null ELSE @[x]],
                              !.red = @ \ {n},
                              !.kid["l"][n] = Null, !.kid["r"][n] = Null]
    IN  IF n \in t.red THEN joined ELSE rb_erase_color(joined, child, parent)

\* The node s takes over n's links and colour.
TakeOver(t, n, s) ==
    LET swap(x) == IF x = n THEN s ELSE x
    IN  [root |-> swap(t.root),
         kid  |-> [side \in Sides |-> [x \in RbNodes |->
                     IF x = n THEN Null
                     ELSE IF x = s THEN t.kid[side][n] ELSE swap(t.kid[side][x])]],
         up   |-> [x \in RbNodes |-> IF x = n THEN Null
                                  ELSE IF x = s THEN t.up[n] ELSE swap(t.up[x])],
         red  |-> IF n \in t.red THEN (t.red \ {n}) \cup {s} ELSE t.red \ {n, s}]

(***************************************************************************)
(* The two-children case moves s, splices out its old place and rebalances *)
(* from there; TakeOver first and a stand-in for the hole afterwards come  *)
(* to the same as the pointer moves of the usual implementation.           *)
(***************************************************************************)
rb_erase(t, n) ==
    IF t.kid["l"][n] = Null \/ t.kid["r"][n] = Null THEN SpliceOut(t, n)
    ELSE LET s      == Leftmost(t, t.kid["r"][n])
             child  == t.kid["r"][s]
             above  == t.up[s]
             cut    == [Replace(t, s, child, above) EXCEPT
                          !.up = [x \in RbNodes |-> IF x = child THEN above ELSE @[x]]]
             moved  == TakeOver(cut, n, s)
             parent == IF above = n THEN s ELSE above
         IN  IF s \in t.red THEN moved ELSE rb_erase_color(moved, child, parent)
=============================================================================
