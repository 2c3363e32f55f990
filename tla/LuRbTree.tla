------------------------------- MODULE LuRbTree -------------------------------
(***************************************************************************)
(* The red-black tree of a bucket, src/src/lu_hash_table.c: its functions  *)
(* as operators on the record of all nodes.  The two mirror images of      *)
(* every case are one case with a parameter, the side it happens on.       *)
(*                                                                         *)
(* The sentinel Nil is a node with links and a color of its own, as in the *)
(* code: the fix-ups color it and may link it.                             *)
(***************************************************************************)
EXTENDS Integers, FiniteSets

CONSTANTS
  MaxNodes, \* how many nodes the trees and lists have together
  NULL

ASSUME NodesAssumption == MaxNodes \in Nat \ {0}

Nil == 0
Nodes == 1 .. MaxNodes
Places == Nodes \cup {Nil}
Sides == {"left", "right"}

Opposite(side) == IF side = "left" THEN "right" ELSE "left"

NoKids == [s \in Sides |-> Nil]

\* lu_rb_tree_init.
EmptyTree ==
  [root |-> Nil,
   used |-> {},                       \* the nodes that are allocated
   kid |-> [n \in Places |-> NoKids],
   parent |-> [n \in Places |-> Nil],
   red |-> {},
   key |-> [n \in Nodes |-> 0],
   value |-> [n \in Nodes |-> NULL]]

SideOf(t, n) == IF n = t.kid[t.parent[n]]["left"] THEN "left" ELSE "right"

Black(t, n) == n \notin t.red

Paint(t, n, color) ==
  [t EXCEPT !.red = IF color = "red" THEN @ \cup {n} ELSE @ \ {n}]

ColorOf(t, n) == IF Black(t, n) THEN "black" ELSE "red"

-----------------------------------------------------------------------------
\* The link that leads to u leads to v; u is looked for on the side `first` first.
Relink(t, u, v, first) ==
  LET p == t.parent[u]
      side == IF u = t.kid[p][first] THEN first ELSE Opposite(first)
  IN IF p = Nil THEN [t EXCEPT !.root = v] ELSE [t EXCEPT !.kid[p][side] = v]

SetParent(t, n, p) == IF n = Nil THEN t ELSE [t EXCEPT !.parent[n] = p]

Transplant(t, u, v) == SetParent(Relink(t, u, v, "left"), v, t.parent[u])

\* The child of n takes its place, and n becomes its child on the side `far`.
Rise(t, n, child, far) ==
  LET risen == Relink([t EXCEPT !.parent[child] = t.parent[n]], n, child, far)
  IN [risen EXCEPT !.kid[child][far] = n, !.parent[n] = child]

\* m becomes the child of n on the given side.
Hang(t, n, side, m) == SetParent([t EXCEPT !.kid[n][side] = m], m, n)

\* The child of n on the given side rises: the rotate functions of deletion, which
\* do not look whether there is such a child.
Lift(t, n, side) ==
  LET child == t.kid[n][side]
  IN Rise(Hang(t, n, side, t.kid[child][Opposite(side)]), n, child, Opposite(side))

\* Mutated: the functions of insertion do not look either.
LiftIfAny_always(t, n, side) == Lift(t, n, side)

\* The rotate functions of insertion.  (Both look on the left first, which is the
\* same where n is not on both sides of its parent.)
LiftIfAny(t, n, side) == IF t.kid[n][side] = Nil THEN t ELSE Lift(t, n, side)

(***************************************************************************)
(* The loops.  Each is the function from the number of its turns to where  *)
(* it is then, and stays there when it is over, which it is after as many  *)
(* turns as there are nodes.                                               *)
(***************************************************************************)

\* One turn of lu_rb_tree_insert_fixup; s is the tree and the loop's node.
\* `parent` is not read again after the first rotation, by which the node that
\* was the parent has become the child.
InsertTurn(s) ==
  LET t == s.tree
      n == s.node
      p == t.parent[n]
      g == t.parent[p]
      side == IF p = t.kid[g]["left"] THEN "left" ELSE "right"
      uncle == t.kid[g][Opposite(side)]
      inner == n = t.kid[p][Opposite(side)]
      turned == IF inner THEN LiftIfAny(t, p, Opposite(side)) ELSE t
  IN IF n = t.root \/ p = Nil \/ Black(t, p)
     THEN s
     ELSE IF uncle # Nil /\ ~Black(t, uncle)
     THEN [tree |-> [t EXCEPT !.red = (@ \ {p, uncle}) \cup {g}], node |-> g]
     ELSE [tree |-> LiftIfAny([turned EXCEPT !.red = (@ \ {p}) \cup {g}], g, side),
           node |-> IF inner THEN p ELSE n]

InsertTurns(t, n) ==
  LET loop[i \in Nat] == IF i = 0 THEN [tree |-> t, node |-> n] ELSE InsertTurn(loop[i - 1])
  IN loop

InsertFixup(t, n) ==
  LET end == InsertTurns(t, n)[MaxNodes].tree IN Paint(end, end.root, "black")

\* Where a key goes on from n.
Toward(t, n, k) == t.kid[n][IF k < t.key[n] THEN "left" ELSE "right"]

\* The way down to the node under which a new one with this key is hung.
Descent(t, k) ==
  LET next(n) == IF Toward(t, n, k) = Nil THEN n ELSE Toward(t, n, k)
      at[i \in Nat] == IF i = 0 THEN t.root ELSE next(at[i - 1])
  IN at

\* The node that is allocated.  No code depends on which one it is; taking the
\* one named like the key, when that is free, makes fewer states.
Allocated(t, k) ==
  IF k \in Nodes \ t.used THEN k
  ELSE CHOOSE n \in Nodes \ t.used : \A m \in Nodes \ t.used : m <= n

\* lu_rb_tree_insert: a node is added even when the key is in the tree.
TreeInsert(t, k, v) ==
  LET new == Allocated(t, k)
      filled == [t EXCEPT !.used = @ \cup {new}, !.key[new] = k, !.value[new] = v,
                          !.red = @ \cup {new}, !.kid[new] = NoKids, !.parent[new] = Nil]
      p == Descent(t, k)[MaxNodes]
      hung == [filled EXCEPT !.parent[new] = p,
                             !.kid[p][IF k < t.key[p] THEN "left" ELSE "right"] = new]
  IN IF t.root = Nil THEN Paint([filled EXCEPT !.root = new], new, "black")
     ELSE InsertFixup(hung, new)

\* lu_hash_rb_tree_find: the node with this key, or Nil.
Search(t, k) ==
  LET next(n) == IF n = Nil \/ t.key[n] = k THEN n ELSE Toward(t, n, k)
      at[i \in Nat] == IF i = 0 THEN t.root ELSE next(at[i - 1])
  IN at

TreeFind(t, k) == Search(t, k)[MaxNodes]

\* The way down from n on one side.
Outward(t, n, side) ==
  LET next(m) == IF t.kid[m][side] = Nil THEN m ELSE t.kid[m][side]
      at[i \in Nat] == IF i = 0 THEN n ELSE next(at[i - 1])
  IN at

\* Mutated: the other end.
Minimum_last(t, n) == Outward(t, n, "right")[MaxNodes]

Minimum(t, n) == Outward(t, n, "left")[MaxNodes]

\* One turn of lu_rb_tree_delete_fixup.
DeleteTurn(s) ==
  LET t == s.tree
      n == s.node
      p == t.parent[n]
      side == SideOf(t, n)
      far == Opposite(side)
      first == t.kid[p][far]
      t1 == IF Black(t, first) THEN t
            ELSE Lift([t EXCEPT !.red = (@ \ {first}) \cup {p}], p, far)
      p1 == t1.parent[n]
      s1 == t1.kid[p1][far]
      t2 == IF ~Black(t1, t1.kid[s1][far]) THEN t1
            ELSE Lift([t1 EXCEPT !.red = (@ \ {t1.kid[s1][side]}) \cup {s1}], s1, side)
      p2 == t2.parent[n]
      s2 == t2.kid[p2][far]
      t3 == Paint(Paint(Paint(t2, s2, ColorOf(t2, p2)), p2, "black"), t2.kid[s2][far], "black")
      t4 == Lift(t3, p2, far)
  IN IF n = t.root \/ ~Black(t, n)
     THEN s
     ELSE IF Black(t1, t1.kid[s1]["left"]) /\ Black(t1, t1.kid[s1]["right"])
     THEN [tree |-> Paint(t1, s1, "red"), node |-> p1]
     ELSE [tree |-> t4, node |-> t4.root]

DeleteTurns(t, n) ==
  LET loop[i \in Nat] == IF i = 0 THEN [tree |-> t, node |-> n] ELSE DeleteTurn(loop[i - 1])
  IN loop

DeleteFixup(t, n) ==
  LET end == DeleteTurns(t, n)[MaxNodes] IN Paint(end.tree, end.node, "black")

Free(t, n) ==
  [t EXCEPT !.used = @ \ {n}, !.key[n] = 0, !.value[n] = NULL, !.red = @ \ {n},
            !.parent[n] = Nil, !.kid[n] = NoKids]

\* A node with two children is replaced by the least one behind it.
ReplaceBySuccessor(t, n) ==
  LET y == Minimum(t, t.kid[n]["right"])
      cut == Transplant(t, y, t.kid[y]["right"])
      t1 == IF t.parent[y] = n THEN t
            ELSE [cut EXCEPT !.kid[y]["right"] = cut.kid[n]["right"],
                             !.parent[cut.kid[n]["right"]] = y]
      t2 == Transplant(t1, n, y)
      t3 == [t2 EXCEPT !.kid[y]["left"] = t2.kid[n]["left"],
                       !.parent[t2.kid[n]["left"]] = y]
  IN Paint(t3, y, ColorOf(t3, n))

\* lu_hash_rb_tree_delete of node n.
TreeDelete(t, n) ==
  LET left == t.kid[n]["left"]
      right == t.kid[n]["right"]
      y == IF left = Nil \/ right = Nil THEN n ELSE Minimum(t, right)
      x == IF left = Nil THEN right ELSE IF right = Nil THEN left ELSE t.kid[y]["right"]
      taken == IF y = n THEN Transplant(t, n, x) ELSE ReplaceBySuccessor(t, n)
  IN Free(IF Black(t, y) THEN DeleteFixup(taken, x) ELSE taken, n)

-----------------------------------------------------------------------------
(***************************************************************************)
(* What a tree should be.                                                  *)
(***************************************************************************)

\* The nodes that n leads to, n among them, by as many steps down as there are
\* nodes.
Under(t, n) ==
  LET more(set) == set \cup ({t.kid[m][s] : m \in set, s \in Sides} \ {Nil})
      reached[i \in Nat] == IF i = 0 THEN {n} \ {Nil} ELSE more(reached[i - 1])
  IN reached[MaxNodes]

\* Every node is reached from the root and hangs where it says it does; the
\* sentinel has no links.
Linked(t) ==
  /\ t.kid[Nil] = NoKids
  /\ t.parent[Nil] = Nil
  /\ Under(t, t.root) = t.used
  /\ \A n \in t.used : LET p == t.parent[n]
                       IN IF p = Nil THEN n = t.root ELSE \E s \in Sides : t.kid[p][s] = n

\* The order a search relies on.
Sorted(t) ==
  \A n \in t.used :
    /\ \A m \in Under(t, t.kid[n]["left"]) : t.key[m] <= t.key[n]
    /\ \A m \in Under(t, t.kid[n]["right"]) : t.key[m] >= t.key[n]

\* The black nodes on the way down to n.
BlackAbove(t, n) == {m \in t.used : Black(t, m) /\ n \in Under(t, m)}

\* The sentinel and the root are black, no red node has a red parent, and every
\* way down passes the same number of black nodes.
RedBlack(t) ==
  /\ Black(t, Nil)
  /\ Black(t, t.root)
  /\ \A n \in t.used \cap t.red : t.parent[n] \notin t.red
  /\ \A m, n \in {n \in t.used : \E s \in Sides : t.kid[n][s] = Nil} :
       Cardinality(BlackAbove(t, m)) = Cardinality(BlackAbove(t, n))
=============================================================================
