------------------------------- MODULE Rbtree -------------------------------
(***************************************************************************)
(* spe_rbtree.c, with the descent by which spe_task.c inserts: the nodes'  *)
(* pointers and colours, each call of the library one step.                *)
(*                                                                         *)
(* Half of the code is the mirror image of the other half; here it is      *)
(* written once, for a side s and the opposite one.                        *)
(***************************************************************************)
EXTENDS Integers, Sequences, FiniteSets

CONSTANTS
  Nodes,
  Key(_),   \* expiry times
  NULL

VARIABLE tree
\* root; parent, color and the two kids of each node in the tree

Sides == {"left", "right"}
Opp(s) == IF s = "left" THEN "right" ELSE "left"

Leaf == [s \in Sides |-> NULL]
Init == tree = [root |-> NULL, parent |-> [n \in Nodes |-> NULL],
                color |-> [n \in Nodes |-> "red"], kid |-> [n \in Nodes |-> Leaf]]

Red(t, n)   == t.color[n] = "red"
Black(t, n) == n = NULL \/ ~Red(t, n)

Parent(t, n, p)   == IF n = NULL THEN t ELSE [t EXCEPT !.parent[n] = p]
Color(t, n, c)    == [t EXCEPT !.color[n] = c]
Kid(t, n, s, m)   == [t EXCEPT !.kid[n][s] = m]
SideOf(t, n, p)   == IF t.kid[p]["left"] = n THEN "left" ELSE "right"
\* What points to n from above now points to m.
Above(t, p, n, m) ==
  IF p = NULL THEN [t EXCEPT !.root = m] ELSE Kid(t, p, SideOf(t, n, p), m)

\* __rb_rotate_left and __rb_rotate_right: n goes down on side s.
Rotate(t, n, s) ==
  LET up    == t.kid[n][Opp(s)]
      inner == t.kid[up][s]
      p     == t.parent[n]
      freed == Parent(Kid(t, n, Opp(s), inner), inner, n)
      lift  == Above(Parent(Kid(freed, up, s, n), up, p), p, n, up)
  IN Parent(lift, n, up)

RECURSIVE rb_insert_color(_, _)
rb_insert_color(t, n) ==
  LET p == t.parent[n] IN
  IF p = NULL \/ ~Red(t, p) THEN Color(t, t.root, "black")
  ELSE
    LET g     == t.parent[p]
        s     == SideOf(t, p, g)
        uncle == t.kid[g][Opp(s)]
        bent  == t.kid[p][Opp(s)] = n
        t1    == IF bent THEN Rotate(t, p, s) ELSE t
        low   == IF bent THEN p ELSE n
        mid   == IF bent THEN n ELSE p
    IN IF uncle # NULL /\ Red(t, uncle)
       THEN rb_insert_color(
              Color(Color(Color(t, uncle, "black"), p, "black"), g, "red"), g)
       ELSE rb_insert_color(
              Rotate(Color(Color(t1, mid, "black"), g, "red"), g, Opp(s)), low)

\* The nephews of n are both black; a slip looks only at the far one.
FarBlack(t, w, s) == Black(t, t.kid[w][Opp(s)])
BothBlack(t, w, s) == Black(t, t.kid[w]["left"]) /\ Black(t, t.kid[w]["right"])

\* __rb_erase_color: below n there is one black node less than beside it.
RECURSIVE EraseColor(_, _, _)
EraseColor(t, n, p) ==
  IF ~Black(t, n) \/ n = t.root
  THEN IF n = NULL THEN t ELSE Color(t, n, "black")
  ELSE
    LET s  == SideOf(t, n, p)
        o  == Opp(s)
        w0 == t.kid[p][o]
        t1 == IF Red(t, w0) THEN Rotate(Color(Color(t, w0, "black"), p, "red"), p, s) ELSE t
        w1 == t1.kid[p][o]
        t2 == IF Black(t1, t1.kid[w1][o])
              THEN Rotate(Color(Color(t1, t1.kid[w1][s], "black"), w1, "red"), w1, o)
              ELSE t1
        w2 == t2.kid[p][o]
        t3 == Color(Color(Color(t2, w2, t2.color[p]), p, "black"), t2.kid[w2][o], "black")
        t4 == Rotate(t3, p, s)
    IN IF BothBlack(t1, w1, s)
       THEN EraseColor(Color(t1, w1, "red"), p, t1.parent[p])
       ELSE Color(t4, t4.root, "black")

RECURSIVE Farthest(_, _, _)
Farthest(t, n, s) == IF t.kid[n][s] = NULL THEN n ELSE Farthest(t, t.kid[n][s], s)

\* The first ancestor reached from side s, NULL if there is none.
RECURSIVE Ancestor(_, _, _)
Ancestor(t, n, s) ==
  LET p == t.parent[n]
  IN IF p # NULL /\ n # t.kid[p][s] THEN Ancestor(t, p, s) ELSE p

rb_first(t) == IF t.root = NULL THEN NULL ELSE Farthest(t, t.root, "left")
rb_last(t)  == IF t.root = NULL THEN NULL ELSE Farthest(t, t.root, "right")

\* rb_next (s is "right") and rb_prev ("left").
Beside(t, n, s) ==
  IF t.kid[n][s] # NULL THEN Farthest(t, t.kid[n][s], Opp(s)) ELSE Ancestor(t, n, Opp(s))

\* A node with two kids gives its place and colour to the next one.
Erased(t, n) ==
  LET kids == {s \in Sides : t.kid[n][s] # NULL} IN
  IF kids # Sides
  THEN
    LET child == IF t.kid[n]["left"] = NULL THEN t.kid[n]["right"] ELSE t.kid[n]["left"]
        p     == t.parent[n]
        t1    == Above(Parent(t, child, p), p, n, child)
    IN IF Red(t, n) THEN t1 ELSE EraseColor(t1, child, p)
  ELSE
    LET y     == Farthest(t, t.kid[n]["right"], "left")
        child == t.kid[y]["right"]
        near  == t.parent[y] = n
        p     == IF near THEN y ELSE t.parent[y]
        t1    == Above(t, t.parent[n], n, y)
        t2    == IF near THEN t1
                 ELSE Parent(Kid(Kid(Parent(t1, child, p), p, "left", child),
                                 y, "right", t.kid[n]["right"]), t.kid[n]["right"], y)
        t3    == Color(Parent(t2, y, t.parent[n]), y, t.color[n])
        t4    == Parent(Kid(t3, y, "left", t.kid[n]["left"]), t.kid[n]["left"], y)
    IN IF Red(t, y) THEN t4 ELSE EraseColor(t4, child, p)

\* What a node outside the tree points to is not read.
Forgotten(t, n) == [t EXCEPT !.parent[n] = NULL, !.color[n] = "red", !.kid[n] = Leaf]

\* spe_task_schedule_timeout: the descent goes right where keys are equal.  A
\* slip goes left.
GoesLeftIfEqual(n, m) == Key(n) <= Key(m)
GoesLeft(n, m) == Key(n) < Key(m)

RECURSIVE Descend(_, _, _)
Descend(t, n, p) ==
  LET s == IF GoesLeft(n, p) THEN "left" ELSE "right"
  IN IF t.kid[p][s] = NULL THEN Parent(Kid(t, p, s, n), n, p) ELSE Descend(t, n, t.kid[p][s])

InTree(n) == tree.root = n \/ tree.parent[n] # NULL

Insert(n) ==
  /\ ~InTree(n)
  /\ tree' = rb_insert_color(IF tree.root = NULL THEN [tree EXCEPT !.root = n]
                             ELSE Descend(tree, n, tree.root), n)

rb_erase(n) == InTree(n) /\ tree' = Forgotten(Erased(tree, n), n)

\* For a node with the same key.
rb_replace_node(victim, new) ==
  /\ InTree(victim) /\ ~InTree(new) /\ Key(victim) = Key(new)
  /\ LET p    == tree.parent[victim]
         kids == tree.kid[victim]
         t1   == Parent(Parent(Above(tree, p, victim, new), kids["left"], new),
                        kids["right"], new)
     IN tree' = Forgotten([t1 EXCEPT !.parent[new] = p, !.kid[new] = kids,
                                     !.color[new] = tree.color[victim]], victim)

Next ==
  \E n \in Nodes : Insert(n) \/ rb_erase(n) \/ \E m \in Nodes : rb_replace_node(m, n)

Spec == Init /\ [][Next]_tree
----------------------------------------------------------------------------
RECURSIVE InOrder(_, _)
InOrder(t, n) ==
  IF n = NULL THEN <<>>
  ELSE InOrder(t, t.kid[n]["left"]) \o <<n>> \o InOrder(t, t.kid[n]["right"])

RECURSIVE BlackHeight(_, _)
\* The number of black nodes on the way down, -1 if it depends on the way.
BlackHeight(t, n) ==
  IF n = NULL THEN 0
  ELSE LET l == BlackHeight(t, t.kid[n]["left"])
           r == BlackHeight(t, t.kid[n]["right"])
       IN IF l = -1 \/ l # r THEN -1 ELSE l + IF Red(t, n) THEN 0 ELSE 1

\* After any insertions and removals no red node has a red kid, every way down
\* passes the same number of black nodes, and walks along the tree, in both
\* directions, see the nodes in order (spe_rbtree.c:71-281, 354-428).
Balanced ==
  LET q == InOrder(tree, tree.root) IN
  /\ BlackHeight(tree, tree.root) # -1
  /\ Black(tree, tree.root)
  /\ \A n \in Nodes, s \in Sides :
       LET m == tree.kid[n][s] IN
       m # NULL => tree.parent[m] = n /\ ~(Red(tree, n) /\ Red(tree, m))
  /\ rb_first(tree) = (IF q = <<>> THEN NULL ELSE q[1])
  /\ rb_last(tree) = (IF q = <<>> THEN NULL ELSE q[Len(q)])
  /\ \A i \in DOMAIN q :
       /\ Beside(tree, q[i], "right") = (IF i = Len(q) THEN NULL ELSE q[i + 1])
       /\ Beside(tree, q[i], "left") = (IF i = 1 THEN NULL ELSE q[i - 1])

\* The tree is the sorted sequence that the task queue takes it for.
Queue == INSTANCE SortedQueue WITH queue <- InOrder(tree, tree.root)
IsSortedQueue == []Balanced /\ Queue!Spec
=============================================================================
