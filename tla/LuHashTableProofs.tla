-------------------------- MODULE LuHashTableProofs --------------------------
(***************************************************************************)
(* The hash table is a dictionary, for any keys, values, sizes and         *)
(* thresholds and trees of any size.                                       *)
(*                                                                         *)
(* Most of this is about trees.  A record of nodes is a tree of a set S    *)
(* (IsTree) when there is a function U that gives for every node the nodes *)
(* under it: that is a witness which each operation changes at a few       *)
(* places, where "reachable" would have to be computed anew.  A rotation,  *)
(* a new leaf, a node cut out and a node put in the place of another keep  *)
(* it (RotationKeepsShape, LeafKeepsShape, CutKeepsShape,                  *)
(* ReplaceKeepsShape); loops are functions of the number of their turns,   *)
(* with invariants that are sets of numbers (Induction).  A rotation of    *)
(* deletion that lifts the sentinel gives it a child, which no later step  *)
(* takes away (NilLifted, LostStays), so that a tree whose sentinel has    *)
(* none was only rotated as it should be.  A search is followed down the   *)
(* tree (TreeFindIs).                                                      *)
(*                                                                         *)
(* Then the buckets (Orderly), by what they hold before and after a call   *)
(* (AddedTo, TakenFrom); the table with its inductive invariant            *)
(* (TableIInv); and the dictionary.                                        *)
(***************************************************************************)
EXTENDS LuHashTable, FiniteSetTheorems, SequenceTheorems, WellFoundedInduction, TLAPS

(***************************************************************************)
(* Induction, and functions that are defined by it.                        *)
(***************************************************************************)

LEMMA Induction ==
  ASSUME NEW T, 0 \in T, \A k \in Nat : k \in T => k + 1 \in T
  PROVE  Nat \subseteq T
<1> SUFFICES ASSUME Nat \ T # {} PROVE FALSE
    OBVIOUS
<1>1. PICK m \in Nat \ T : \A j \in Nat \ T : ~(<<j, m>> \in OpToRel(<, Nat))
      BY NatLessThanWellFounded, WFMin, Nat \ T \subseteq Nat
<1>2. \A j \in Nat \ T : ~(j < m)
      BY <1>1 DEF OpToRel
<1>3. m # 0 /\ m - 1 \in Nat /\ m - 1 < m
      OBVIOUS
<1>4. m - 1 \in T
      BY <1>2, <1>3
<1> QED BY <1>3, <1>4

\* The first p turns of a loop.
Turns(S, start, step, p) ==
  {g \in [0 .. p -> S] : g[0] = start /\ \A k \in 0 .. p - 1 : g[k + 1] = step[g[k]]}

LEMMA TurnsExist ==
  ASSUME NEW S, NEW start \in S, NEW step \in [S -> S]
  PROVE  \A p \in Nat : Turns(S, start, step, p) # {}
<1> DEFINE Good == {p \in Nat : Turns(S, start, step, p) # {}}
<1>1. 0 \in Good
  <2>1. [k \in 0 .. 0 |-> start] \in Turns(S, start, step, 0)
        BY DEF Turns
  <2> QED BY <2>1
<1>2. ASSUME NEW p \in Nat, p \in Good PROVE p + 1 \in Good
  <2>1. PICK g : g \in Turns(S, start, step, p)
        BY <1>2
  <2>2. /\ g \in [0 .. p -> S] /\ g[0] = start
        /\ \A k \in 0 .. p - 1 : g[k + 1] = step[g[k]]
        BY <2>1 DEF Turns
  <2> DEFINE f == [k \in 0 .. p + 1 |-> IF k = p + 1 THEN step[g[p]] ELSE g[k]]
  <2>3. f \in [0 .. p + 1 -> S] /\ f[0] = start
        BY <2>2
  <2>4. ASSUME NEW k \in 0 .. (p + 1) - 1 PROVE f[k + 1] = step[f[k]]
        BY <2>2
  <2>5. f \in Turns(S, start, step, p + 1)
        BY <2>3, <2>4 DEF Turns
  <2> QED BY <2>5
<1> HIDE DEF Good
<1>3. Nat \subseteq Good
      BY <1>1, <1>2, Induction
<1> QED BY <1>3 DEF Good

LEMMA TurnsAgree ==
  ASSUME NEW S, NEW start \in S, NEW step \in [S -> S], NEW p \in Nat, NEW q \in Nat,
         p <= q, NEW f \in Turns(S, start, step, p), NEW g \in Turns(S, start, step, q)
  PROVE  \A k \in 0 .. p : f[k] = g[k]
<1> DEFINE Same == {k \in Nat : k <= p => f[k] = g[k]}
<1>1. 0 \in Same
      BY DEF Turns
<1>2. ASSUME NEW k \in Nat, k \in Same PROVE k + 1 \in Same
  <2> SUFFICES ASSUME k + 1 <= p PROVE f[k + 1] = g[k + 1]
      OBVIOUS
  <2>1. k \in 0 .. p - 1 /\ k \in 0 .. q - 1
        OBVIOUS
  <2> QED BY <1>2, <2>1 DEF Turns
<1> HIDE DEF Same
<1>3. Nat \subseteq Same
      BY <1>1, <1>2, Induction
<1> QED BY <1>3 DEF Same

\* A loop whose turns stay in a set is a function.
LEMMA LoopExists ==
  ASSUME NEW S, NEW start \in S, NEW step \in [S -> S]
  PROVE  \E f \in [Nat -> S] :
           f = [k \in Nat |-> IF k = 0 THEN start ELSE step[f[k - 1]]]
<1> DEFINE Nth(p) == CHOOSE g : g \in Turns(S, start, step, p)
           f == [k \in Nat |-> Nth(k)[k]]
<1>1. ASSUME NEW p \in Nat PROVE Nth(p) \in Turns(S, start, step, p)
      BY TurnsExist
<1> HIDE DEF Nth
<1>2. f \in [Nat -> S]
      BY <1>1 DEF Turns
<1>3. f[0] = start
      BY <1>1 DEF Turns
<1>4. ASSUME NEW k \in Nat, k # 0 PROVE f[k] = step[f[k - 1]]
  <2>1. k - 1 \in Nat /\ k - 1 <= k /\ k - 1 \in 0 .. k - 1 /\ (k - 1) + 1 = k
        BY <1>4
  <2>2. Nth(k - 1)[k - 1] = Nth(k)[k - 1]
        BY <1>1, <2>1, TurnsAgree
  <2>3. Nth(k)[k] = step[Nth(k)[k - 1]]
        BY <1>1, <2>1 DEF Turns
  <2> QED BY <2>1, <2>2, <2>3
<1>5. f = [k \in Nat |-> IF k = 0 THEN start ELSE step[f[k - 1]]]
      BY <1>2, <1>3, <1>4
<1> QED BY <1>2, <1>5

-----------------------------------------------------------------------------
(***************************************************************************)
(* The shape of a tree.                                                    *)
(***************************************************************************)

\* U says of every node of the set S which nodes are under it, itself among
\* them.  With such a function a set of linked nodes is a tree.
Shape(S, root, kid, parent, U) ==
  /\ root \in S \cup {Nil} /\ U[root] = S /\ U[Nil] = {}
  /\ kid[Nil] = NoKids /\ parent[Nil] = Nil /\ parent[root] = Nil
  /\ \A n \in S :
       /\ U[n] \subseteq S
       /\ n # root => parent[n] \in S /\ \E s \in Sides : kid[parent[n]][s] = n
       /\ \A s \in Sides :
            /\ kid[n][s] \in S \cup {Nil}
            /\ kid[n][s] # Nil => parent[kid[n][s]] = n
            /\ n \notin U[kid[n][s]]
            /\ U[n] = {n} \cup U[kid[n][s]] \cup U[kid[n][Opposite(s)]]
            /\ U[kid[n][s]] \cap U[kid[n][Opposite(s)]] = {}
       /\ \A m \in U[n] : U[m] \subseteq U[n] /\ (m # n => parent[m] \in U[n])

\* The order of keys on a side.
Before(side, i, j) == IF side = "left" THEN i <= j ELSE j <= i

Ordered(S, kid, key, U) ==
  \A n \in S, s \in Sides : \A m \in U[kid[n][s]] : Before(s, key[m], key[n])

Unders == [Places -> SUBSET Nodes]
Kids == [Places -> [Sides -> Places]]
Parents == [Places -> Places]

LEMMA SidesAre ==
  ASSUME NEW s \in Sides
  PROVE  /\ Opposite(s) \in Sides /\ Opposite(s) # s /\ Opposite(Opposite(s)) = s
         /\ \A r \in Sides : r = s \/ r = Opposite(s)
BY DEF Sides, Opposite

LEMMA BeforeIs ==
  ASSUME NEW s \in Sides, NEW i \in Int, NEW j \in Int
  PROVE  /\ Before(Opposite(s), j, i) <=> Before(s, i, j)
         /\ \A h \in Int : Before(s, h, i) /\ Before(s, i, j) => Before(s, h, j)
BY DEF Before, Opposite, Sides

LEMMA NilIsNoNode == Nil \notin Nodes /\ Nil \in Places /\ Nodes \subseteq Places
BY NodesAssumption DEF Nil, Nodes, Places

LEMMA Itself ==
  ASSUME NEW S, NEW root, NEW kid, NEW parent, NEW U, Shape(S, root, kid, parent, U),
         NEW n \in S
  PROVE  n \in U[n]
<1>1. "left" \in Sides
      BY DEF Sides
<1> QED BY <1>1 DEF Shape

LEMMA ShapeIs ==
  ASSUME NEW S, NEW root, NEW kid, NEW parent, NEW U, Shape(S, root, kid, parent, U)
  PROVE  /\ root \in S \cup {Nil} /\ U[root] = S /\ U[Nil] = {}
         /\ kid[Nil] = NoKids /\ parent[Nil] = Nil /\ parent[root] = Nil
         /\ \A n \in S : n \in U[n] /\ U[n] \subseteq S
         /\ \A n \in S : n # root => parent[n] \in S /\ \E s \in Sides : kid[parent[n]][s] = n
         /\ \A n \in S, s \in Sides :
              /\ kid[n][s] \in S \cup {Nil}
              /\ kid[n][s] # Nil => parent[kid[n][s]] = n
              /\ n \notin U[kid[n][s]]
              /\ U[n] = {n} \cup U[kid[n][s]] \cup U[kid[n][Opposite(s)]]
              /\ U[kid[n][s]] \cap U[kid[n][Opposite(s)]] = {}
         /\ \A n, m : n \in S /\ m \in U[n] => m \in S
         /\ \A n, m \in S : m \in U[n] => U[m] \subseteq U[n] /\ (m # n => parent[m] \in U[n])
<1>1. \A n \in S : n \in U[n] /\ U[n] \subseteq S
      BY Itself DEF Shape
<1>2. \A n, m : n \in S /\ m \in U[n] => m \in S
      BY <1>1
<1> QED BY <1>1, <1>2 DEF Shape

-----------------------------------------------------------------------------
(***************************************************************************)
(* A rotation.                                                             *)
(***************************************************************************)

\* The links of a tree after the child c of n has risen: who led to n leads to c.
Risen(S, n, side, root, kid, parent, root2, kid2, parent2) ==
  LET c == kid[n][side]
      m == kid[c][Opposite(side)]
  IN /\ root2 = IF root = n THEN c ELSE root
     /\ \A x \in S \cup {Nil} : \A s \in Sides :
          kid2[x][s] = IF x = n /\ s = side THEN m
                       ELSE IF x = c /\ s = Opposite(side) THEN n
                       ELSE IF kid[x][s] = n THEN c ELSE kid[x][s]
     /\ \A x \in S \cup {Nil} :
          parent2[x] = IF x = n THEN c ELSE IF x = c THEN parent[n]
                       ELSE IF x = m /\ m # Nil THEN n ELSE parent[x]

LEMMA RotationKeepsShape ==
  ASSUME NEW S \in SUBSET Nodes, NEW root \in Places, NEW kid \in Kids,
         NEW parent \in Parents, NEW U \in Unders, NEW key \in [Nodes -> Int],
         Shape(S, root, kid, parent, U), Ordered(S, kid, key, U),
         NEW n \in S, NEW side \in Sides, kid[n][side] # Nil,
         NEW root2 \in Places, NEW kid2 \in Kids, NEW parent2 \in Parents,
         Risen(S, n, side, root, kid, parent, root2, kid2, parent2)
  PROVE  \E U2 \in Unders :
           /\ Shape(S, root2, kid2, parent2, U2)
           /\ Ordered(S, kid2, key, U2)
           /\ \A x \in S \ {n, kid[n][side]} : U2[x] = U[x]
           /\ U2[kid[n][side]] = U[n]
<1> DEFINE o == Opposite(side)
           c == kid[n][side]
           a == kid[c][side]
           m == kid[c][o]
           b == kid[n][o]
           U2 == [U EXCEPT ![c] = U[n], ![n] = {n} \cup U[m] \cup U[b]]
<1>0. /\ o \in Sides /\ o # side /\ Opposite(o) = side
      /\ \A s \in Sides : s = side \/ s = o
      BY SidesAre
<1> HIDE DEF o
<1>a. \A x \in S, s \in Sides :
        /\ kid[x][s] \in S \cup {Nil}
        /\ kid[x][s] # Nil => parent[kid[x][s]] = x
        /\ x \notin U[kid[x][s]]
        /\ U[x] = {x} \cup U[kid[x][s]] \cup U[kid[x][Opposite(s)]]
        /\ U[kid[x][s]] \cap U[kid[x][Opposite(s)]] = {}
      BY ShapeIs
<1>1. c \in S /\ parent[c] = n
      BY <1>a
<1>2. a \in S \cup {Nil} /\ m \in S \cup {Nil} /\ b \in S \cup {Nil}
      BY <1>0, <1>1 DEF Shape
<1>3. \A x \in S : x \in U[x] /\ U[x] \subseteq S
      BY Itself, SMTT(30) DEF Shape
<1>4. /\ U[c] = {c} \cup U[a] \cup U[m] /\ U[a] \cap U[m] = {} /\ c \notin U[a] /\ c \notin U[m]
      /\ U[n] = {n} \cup U[c] \cup U[b] /\ U[c] \cap U[b] = {} /\ n \notin U[c] /\ n \notin U[b]
  <2>1. /\ U[c] = {c} \cup U[a] \cup U[m] /\ U[a] \cap U[m] = {} /\ c \notin U[a]
    <3>1. \A s \in Sides : /\ U[c] = {c} \cup U[kid[c][s]] \cup U[kid[c][Opposite(s)]]
                            /\ U[kid[c][s]] \cap U[kid[c][Opposite(s)]] = {}
                            /\ c \notin U[kid[c][s]]
          BY <1>1, <1>a
    <3> QED BY <3>1 DEF o
  <2>2. c \notin U[m]
        BY <1>0, <1>1 DEF Shape
  <2>3. U[n] = {n} \cup U[c] \cup U[b] /\ U[c] \cap U[b] = {} /\ n \notin U[c]
    <3>1. \A s \in Sides : /\ U[n] = {n} \cup U[kid[n][s]] \cup U[kid[n][Opposite(s)]]
                            /\ U[kid[n][s]] \cap U[kid[n][Opposite(s)]] = {}
                            /\ n \notin U[kid[n][s]]
          BY DEF Shape
    <3> QED BY <3>1 DEF o
  <2>4. n \notin U[b]
        BY <1>0 DEF Shape
  <2> QED BY <2>1, <2>2, <2>3, <2>4
<1>5. U[Nil] = {} /\ Nil \notin S
      BY NilIsNoNode, SMTT(30) DEF Shape
<1>6. n # c /\ a \notin {n, c} /\ m \notin {n, c} /\ b \notin {n, c}
      BY <1>1, <1>2, <1>3, <1>4, <1>5
<1> HIDE DEF c, a, m, b
<1>7. n \in Places /\ c \in Places /\ a \in Places /\ m \in Places /\ b \in Places
      BY <1>1, <1>2, NilIsNoNode
<1>8. /\ U2 \in Unders /\ U2[c] = U[n] /\ U2[n] = {n} \cup U[m] \cup U[b]
      /\ \A x \in Places \ {n, c} : U2[x] = U[x]
  <2>1. U[m] \subseteq Nodes /\ U[b] \subseteq Nodes /\ U[n] \subseteq Nodes
        BY <1>7 DEF Unders
  <2> QED BY <1>6, <1>7, <2>1 DEF Unders
<1> HIDE DEF U2
<1>9. /\ kid2[n][side] = m /\ kid2[n][o] = b /\ kid2[c][side] = a /\ kid2[c][o] = n
      BY <1>0, <1>1, <1>6, <1>7 DEF Risen, a, b, c, m, o
<1>10. /\ parent2[n] = c /\ parent2[c] = parent[n] /\ (m # Nil => parent2[m] = n)
       /\ \A x \in S \ {n, c, m} : parent2[x] = parent[x]
       /\ parent2[Nil] = parent[Nil]
       BY <1>0, <1>1, <1>2, <1>5, <1>6, <1>7, NilIsNoNode DEF Risen, c, m, o
<1>11. ASSUME NEW x \in S \ {n, c}, NEW s \in Sides
       PROVE  /\ kid2[x][s] = IF kid[x][s] = n THEN c ELSE kid[x][s]
              /\ kid[x][s] # c
              /\ U2[kid2[x][s]] = U[kid[x][s]]
  <2>1. x \in Places
        BY NilIsNoNode
  <2>2. kid2[x][s] = IF kid[x][s] = n THEN c ELSE kid[x][s]
        BY <2>1 DEF Risen, c
  <2>3. kid[x][s] # c
        BY <1>1, <1>5 DEF Shape
  <2>4. kid[x][s] \in Places
        BY <2>1 DEF Kids
  <2> QED BY <2>2, <2>3, <2>4, <1>8
<1>12. /\ U2[kid2[c][side]] = U[a] /\ U2[kid2[c][o]] = U2[n]
       /\ U2[kid2[n][side]] = U[m] /\ U2[kid2[n][o]] = U[b]
       BY <1>6, <1>7, <1>8, <1>9
<1>13. /\ root2 \in S \cup {Nil} /\ U2[root2] = S /\ U2[Nil] = {}
       /\ kid2[Nil] = NoKids /\ parent2[Nil] = Nil /\ parent2[root2] = Nil
  <2>1. root2 = IF root = n THEN c ELSE root
        BY DEF Risen, c
  <2>2. root # c
        BY <1>1, <1>5 DEF Shape
  <2>3. kid2[Nil] = NoKids
    <3>1. \A s \in Sides : kid2[Nil][s] = kid[Nil][s]
          BY <1>1, <1>5, NilIsNoNode DEF Risen, c, Shape, NoKids
    <3>2. kid2[Nil] \in [Sides -> Places] /\ kid[Nil] \in [Sides -> Places]
          BY NilIsNoNode DEF Kids
    <3> QED BY <3>1, <3>2 DEF Shape
  <2>4. root # m \/ root = Nil
        BY <1>1, <1>0, <1>5 DEF Shape, m
  <2> QED BY <2>1, <2>2, <2>3, <2>4, <1>1, <1>5, <1>8, <1>10, NilIsNoNode DEF Shape
<1>14. ASSUME NEW x \in S
       PROVE  U2[x] \subseteq S /\ (x # root2 => parent2[x] \in S)
  <2>1. U2[x] \subseteq S
        BY <1>1, <1>2, <1>3, <1>5, <1>8, NilIsNoNode
  <2>2. \A y \in S : y # root => parent[y] \in S
        BY DEF Shape
  <2>3. root2 = IF root = n THEN c ELSE root
        BY DEF Risen, c
  <2> QED BY <2>1, <2>2, <2>3, <1>1, <1>10, NilIsNoNode
<1>15. ASSUME NEW x \in S, x # root2 PROVE \E s \in Sides : kid2[parent2[x]][s] = x
  <2>1. root2 = IF root = n THEN c ELSE root
        BY DEF Risen, c
  <2>2. CASE x = n
        BY <2>2, <1>0, <1>9, <1>10
  <2>3. CASE x = m
        BY <2>3, <1>0, <1>5, <1>9, <1>10
  <2>4. CASE x = a
    <3>1. parent[a] = c
          BY <2>4, <1>0, <1>1, <1>5 DEF Shape, a
    <3> QED BY <3>1, <2>4, <1>0, <1>4, <1>3, <1>5, <1>6, <1>7, <1>9, <1>10
  <2>5. CASE x = b
    <3>1. parent[b] = n
          BY <2>5, <1>0, <1>1, <1>5 DEF Shape, b
    <3>2. b # m
          BY <1>3, <1>4, <2>5
    <3> QED BY <3>1, <3>2, <2>5, <1>0, <1>6, <1>7, <1>9, <1>10
  <2>6. CASE x = c
    <3>1. n # root
          BY <2>1, <2>6, x # root2
    <3>2. PICK s \in Sides : kid[parent[n]][s] = n
          BY <3>1 DEF Shape
    <3>3. parent[n] \in S
          BY <3>1 DEF Shape
    <3>4. parent[n] # n /\ parent[n] # c
          BY <3>2, <3>3, <1>0, <1>6 DEF a, b, c, m
    <3> QED BY <3>2, <3>3, <3>4, <1>10, <1>11, <2>6
  <2>7. CASE x \notin {n, c, a, b, m}
    <3>1. x # root
          BY <1>15, <2>1, <2>7
    <3>2. PICK s \in Sides : kid[parent[x]][s] = x
          BY <3>1 DEF Shape
    <3>3. parent[x] \in S
          BY <3>1 DEF Shape
    <3>4. parent[x] # n /\ parent[x] # c
          BY <3>2, <3>3, <1>0, <2>7 DEF a, b, c, m
    <3>5. parent2[x] = parent[x]
          BY <2>7, <1>10, NilIsNoNode
    <3> QED BY <3>2, <3>3, <3>4, <3>5, <1>11, <2>7
  <2> QED BY <2>2, <2>3, <2>4, <2>5, <2>6, <2>7
<1>16. ASSUME NEW x \in S, NEW s \in Sides
       PROVE  /\ kid2[x][s] \in S \cup {Nil}
              /\ kid2[x][s] # Nil => parent2[kid2[x][s]] = x
  <2>0. \A y \in S, r \in Sides : kid[y][r] # Nil => kid[y][r] \in S /\ parent[kid[y][r]] = y
        BY DEF Shape
  <2>1. CASE x = n
    <3>1. b # Nil => b # m /\ parent[b] = n
          BY <1>0, <1>2, <1>3, <1>4, <2>0 DEF b
    <3>2. b # Nil => parent2[b] = n
          BY <3>1, <1>2, <1>6, <1>7, <1>10
    <3> QED BY <1>0, <1>2, <1>9, <1>10, <2>1, <3>2
  <2>2. CASE x = c
    <3>1. a # Nil => a # m /\ parent[a] = c
          BY <1>0, <1>1, <1>2, <1>3, <1>4, <2>0 DEF a
    <3>2. a # Nil => parent2[a] = c
          BY <3>1, <1>2, <1>6, <1>7, <1>10
    <3> QED BY <1>0, <1>2, <1>9, <1>10, <2>2, <3>2
  <2>3. CASE x \notin {n, c}
    <3>1. m # Nil => parent[m] = c
          BY <1>0, <1>1, <2>0 DEF m
    <3>2. CASE kid[x][s] = n
          BY <3>2, <1>1, <1>10, <1>11, <2>0, <2>3, <1>5
    <3>3. CASE kid[x][s] # n
      <4>1. kid2[x][s] = kid[x][s] /\ kid[x][s] # c
            BY <3>3, <1>11, <2>3
      <4>2. kid[x][s] # Nil => kid[x][s] \notin {n, c, m} /\ kid[x][s] \in Places
            BY <4>1, <3>1, <3>3, <2>0, <2>3, NilIsNoNode
      <4>3. kid[x][s] \in S \cup {Nil}
            BY <2>0
      <4> QED BY <4>1, <4>2, <4>3, <2>0, <1>10
    <3> QED BY <3>2, <3>3
  <2> QED BY <2>1, <2>2, <2>3
<1>17. ASSUME NEW x \in S, NEW s \in Sides
       PROVE  /\ x \notin U2[kid2[x][s]]
              /\ U2[x] = {x} \cup U2[kid2[x][s]] \cup U2[kid2[x][Opposite(s)]]
              /\ U2[kid2[x][s]] \cap U2[kid2[x][Opposite(s)]] = {}
  <2>0. Opposite(side) = o /\ Opposite(o) = side /\ (s = side \/ s = o)
        BY <1>0 DEF o
  <2>1. CASE x = n
        BY <2>0, <2>1, <1>4, <1>8, <1>12
  <2>2. CASE x = c
        BY <2>0, <2>2, <1>4, <1>6, <1>8, <1>12
  <2>3. CASE x \notin {n, c}
    <3>1. /\ U2[x] = U[x] /\ U2[kid2[x][s]] = U[kid[x][s]]
          /\ U2[kid2[x][Opposite(s)]] = U[kid[x][Opposite(s)]]
          BY <2>3, <1>8, <1>11, SidesAre, NilIsNoNode
    <3>2. /\ x \notin U[kid[x][s]]
          /\ U[x] = {x} \cup U[kid[x][s]] \cup U[kid[x][Opposite(s)]]
          /\ U[kid[x][s]] \cap U[kid[x][Opposite(s)]] = {}
          BY DEF Shape
    <3> QED BY <3>1, <3>2
  <2> QED BY <2>1, <2>2, <2>3
<1>18. ASSUME NEW x \in S, NEW y \in U2[x]
       PROVE  U2[y] \subseteq U2[x] /\ (y # x => parent2[y] \in U2[x])
  <2>0. \A z, w \in S : w \in U[z] => U[w] \subseteq U[z] /\ (w # z => parent[w] \in U[z])
        BY DEF Shape
  <2>00. \A z, w : z \in S /\ w \in U[z] => w \in S
        BY <1>3
  <2>1. U2[n] \subseteq U[n]
        BY <1>4, <1>8
  <2>2. m # Nil => m \in U[c] /\ m \in U[n] /\ parent[m] = c
        BY <1>0, <1>1, <1>2, <1>3, <1>4 DEF Shape, m
  <2>3. b # Nil => parent[b] = n /\ b # m
        BY <1>0, <1>2, <1>3, <1>4 DEF Shape, b
  <2>4. y \in Places
        BY <1>14, NilIsNoNode
  <2>5. CASE x = c
    <3>1. y \in U[n]
          BY <2>5, <1>8
    <3>2. U2[y] \subseteq U[n]
          BY <3>1, <2>0, <2>00, <2>1, <2>4, <1>8
    <3>3. y # c => parent2[y] \in U[n]
          BY <3>1, <2>0, <2>00, <2>2, <2>4, <1>1, <1>3, <1>4, <1>10
    <3> QED BY <3>2, <3>3, <2>5, <1>8
  <2>6. CASE x = n
    <3>1. CASE y = n
          BY <3>1, <2>6
    <3>2. CASE y \in U[m]
      <4>1. m \in S /\ y \notin {n, c}
            BY <3>2, <1>2, <1>4, <1>5
      <4>2. U[y] \subseteq U[m] /\ (y # m => parent[y] \in U[m])
            BY <3>2, <4>1, <2>0, <2>00
      <4>3. parent2[y] = IF y = m THEN n ELSE parent[y]
            BY <4>1, <2>00, <3>2, <1>5, <1>10
      <4> QED BY <4>1, <4>2, <4>3, <2>4, <2>6, <1>8
    <3>3. CASE y \in U[b]
      <4>1. b \in S /\ y \notin {n, c}
            BY <3>3, <1>1, <1>2, <1>3, <1>4, <1>5
      <4>2. U[y] \subseteq U[b] /\ (y # b => parent[y] \in U[b])
            BY <3>3, <4>1, <2>0, <2>00
      <4>3. y # m
            BY <3>3, <1>2, <1>3, <1>4, <1>5, <4>1, <2>0, <2>00
      <4>4. parent2[y] = parent[y]
            BY <4>1, <4>3, <3>3, <2>00, <1>10
      <4> QED BY <4>1, <4>2, <4>4, <2>3, <2>4, <2>6, <1>5, <1>8
    <3> QED BY <3>1, <3>2, <3>3, <2>6, <1>8
  <2>7. CASE x \notin {n, c}
    <3>1. U2[x] = U[x] /\ y \in U[x]
          BY <2>7, <1>8, NilIsNoNode
    <3>2. c \in U[x] => n \in U[x]
          BY <2>0, <2>00, <2>7, <1>1
    <3>3. n \in U[x] => U[n] \subseteq U[x] /\ c \in U[x] /\ parent[n] \in U[x]
          BY <2>0, <2>00, <2>7, <1>3, <1>1, <1>4
    <3>4. m # Nil /\ m \in U[x] => m = x \/ n \in U[x]
          BY <2>0, <2>00, <2>2, <3>2
    <3>5. U2[y] \subseteq U[x]
          BY <3>1, <3>2, <3>3, <2>0, <2>00, <2>1, <2>4, <1>8
    <3>6. y # x => parent2[y] \in U[x]
      <4>1. CASE y \in {n, c}
            BY <4>1, <3>1, <3>2, <3>3, <1>10
      <4>2. CASE y \notin {n, c} /\ y = m
            BY <4>2, <3>1, <3>4, <1>10, <1>5, <2>0, <2>00
      <4>3. CASE y \notin {n, c, m}
            BY <4>3, <3>1, <2>0, <2>00, <2>4, <1>10
      <4> QED BY <4>1, <4>2, <4>3
    <3> QED BY <3>1, <3>5, <3>6
  <2> QED BY <2>5, <2>6, <2>7
<1>19. Ordered(S, kid2, key, U2)
  <2> SUFFICES ASSUME NEW x \in S, NEW s \in Sides, NEW y \in U2[kid2[x][s]]
               PROVE  Before(s, key[y], key[x])
      BY DEF Ordered
  <2>0. \A z \in S, r \in Sides : \A w \in U[kid[z][r]] : Before(r, key[w], key[z])
        BY DEF Ordered
  <2>1. \A z \in S : key[z] \in Int
        OBVIOUS
  <2>2. CASE x = n
        BY <2>0, <2>2, <1>0, <1>4, <1>12 DEF b, c
  <2>3. CASE x = c /\ s = side
        BY <2>0, <2>3, <1>1, <1>12 DEF a
  <2>4. CASE x = c /\ s = o
    <3>1. Before(o, key[n], key[c])
      <4>1. Before(side, key[c], key[n])
            BY <2>0, <1>1, <1>3 DEF c
      <4> QED BY <4>1, <2>1, <1>1, BeforeIs DEF o
    <3>2. y = n \/ y \in U[m] \/ y \in U[b]
          BY <2>4, <1>8, <1>12
    <3>3. y \in U[m] => Before(o, key[y], key[c])
          BY <2>0, <1>0, <1>1 DEF m
    <3>4. y \in U[b] => Before(o, key[y], key[n]) /\ y \in S
          BY <2>0, <1>0, <1>3, <1>2, <1>5 DEF b
    <3>5. y \in U[b] => Before(o, key[y], key[c])
          BY <3>1, <3>4, <2>1, <1>0, <1>1, BeforeIs
    <3> QED BY <3>1, <3>2, <3>3, <3>5, <2>4
  <2>5. CASE x \notin {n, c}
        BY <2>0, <2>5, <1>11
  <2> QED BY <2>2, <2>3, <2>4, <2>5, <1>0
<1> QED
  <2>1. Shape(S, root2, kid2, parent2, U2)
        BY <1>13, <1>14, <1>15, <1>16, <1>17, <1>18 DEF Shape
  <2> QED BY <2>1, <1>8, <1>19, NilIsNoNode DEF c
-----------------------------------------------------------------------------
(***************************************************************************)
(* Trees, and what the operators that link and paint do to their fields.   *)
(***************************************************************************)

Trees == [root : Places, used : SUBSET Nodes, kid : Kids, parent : Parents, red : SUBSET Places,
          key : [Nodes -> Int], value : [Nodes -> Values \cup {NULL}]]

\* Both hold the same nodes with the same keys and values.
SameNodes(t, t2) == t2.used = t.used /\ t2.key = t.key /\ t2.value = t.value

\* Both have the same links.
SameLinks(t, t2) == t2.root = t.root /\ t2.kid = t.kid /\ t2.parent = t.parent

LEMMA TreeFields ==
  ASSUME NEW t \in Trees
  PROVE  /\ t.root \in Places /\ t.used \in SUBSET Nodes
         /\ t.kid \in Kids /\ t.parent \in Parents /\ t.red \in SUBSET Places
         /\ t.key \in [Nodes -> Int] /\ t.value \in [Nodes -> Values \cup {NULL}]
         /\ \A n \in Places : t.parent[n] \in Places
         /\ \A n \in Places, s \in Sides : t.kid[n][s] \in Places
         /\ \A n \in Nodes : t.key[n] \in Int
BY DEF Trees, Kids, Parents

LEMMA WithRoot ==
  ASSUME NEW t \in Trees, NEW v \in Places
  PROVE  LET t2 == [t EXCEPT !.root = v]
         IN /\ t2 \in Trees /\ SameNodes(t, t2) /\ t2.red = t.red
            /\ t2.root = v /\ t2.kid = t.kid /\ t2.parent = t.parent
BY DEF Trees, SameNodes

LEMMA WithParent ==
  ASSUME NEW t \in Trees, NEW n \in Places, NEW v \in Places
  PROVE  LET t2 == [t EXCEPT !.parent[n] = v]
         IN /\ t2 \in Trees /\ SameNodes(t, t2) /\ t2.red = t.red
            /\ t2.root = t.root /\ t2.kid = t.kid
            /\ \A x \in Places : t2.parent[x] = IF x = n THEN v ELSE t.parent[x]
<1>1. [t.parent EXCEPT ![n] = v] \in Parents
      BY TreeFields DEF Parents
<1>2. \A x \in Places : [t.parent EXCEPT ![n] = v][x] = IF x = n THEN v ELSE t.parent[x]
      BY TreeFields DEF Parents
<1> QED BY <1>1, <1>2 DEF Trees, SameNodes

LEMMA WithKid ==
  ASSUME NEW t \in Trees, NEW n \in Places, NEW s \in Sides, NEW v \in Places
  PROVE  LET t2 == [t EXCEPT !.kid[n][s] = v]
         IN /\ t2 \in Trees /\ SameNodes(t, t2) /\ t2.red = t.red
            /\ t2.root = t.root /\ t2.parent = t.parent
            /\ \A x \in Places : \A r \in Sides :
                 t2.kid[x][r] = IF x = n /\ r = s THEN v ELSE t.kid[x][r]
<1> DEFINE f == [t.kid EXCEPT ![n][s] = v]
<1>1. f \in Kids
      BY TreeFields DEF Kids
<1>2. \A x \in Places : \A r \in Sides : f[x][r] = IF x = n /\ r = s THEN v ELSE t.kid[x][r]
      BY TreeFields DEF Kids
<1> HIDE DEF f
<1> DEFINE t2 == [t EXCEPT !.kid[n][s] = v]
           t3 == [t EXCEPT !.kid = f]
<1>3. t2 = t3
      BY DEF f, Trees
<1>4. /\ t3 \in Trees /\ SameNodes(t, t3) /\ t3.red = t.red
      /\ t3.root = t.root /\ t3.parent = t.parent /\ t3.kid = f
      BY <1>1 DEF Trees, SameNodes
<1> HIDE DEF t2, t3
<1>5. /\ t2 \in Trees /\ SameNodes(t, t2) /\ t2.red = t.red
      /\ t2.root = t.root /\ t2.parent = t.parent
      /\ \A x \in Places : \A r \in Sides :
           t2.kid[x][r] = IF x = n /\ r = s THEN v ELSE t.kid[x][r]
      BY <1>2, <1>3, <1>4
<1> QED BY <1>5 DEF t2

LEMMA WithRed ==
  ASSUME NEW t \in Trees, NEW R \in SUBSET Places
  PROVE  LET t2 == [t EXCEPT !.red = R]
         IN t2 \in Trees /\ SameNodes(t, t2) /\ SameLinks(t, t2) /\ t2.red = R
BY DEF Trees, SameNodes, SameLinks

LEMMA PaintIs ==
  ASSUME NEW t \in Trees, NEW n \in Places, NEW color
  PROVE  /\ Paint(t, n, color) \in Trees
         /\ SameNodes(t, Paint(t, n, color)) /\ SameLinks(t, Paint(t, n, color))
         /\ Paint(t, n, color).red = IF color = "red" THEN t.red \cup {n} ELSE t.red \ {n}
<1>1. t.red \cup {n} \in SUBSET Places /\ t.red \ {n} \in SUBSET Places
      BY TreeFields
<1> QED BY <1>1, WithRed DEF Paint

LEMMA SetParentIs ==
  ASSUME NEW t \in Trees, NEW n \in Places, NEW v \in Places
  PROVE  /\ SetParent(t, n, v) \in Trees /\ SameNodes(t, SetParent(t, n, v))
         /\ SetParent(t, n, v).red = t.red /\ SetParent(t, n, v).root = t.root
         /\ SetParent(t, n, v).kid = t.kid
         /\ \A x \in Places :
              SetParent(t, n, v).parent[x] = IF x = n /\ n # Nil THEN v ELSE t.parent[x]
BY WithParent DEF SetParent, SameNodes

LEMMA HangIs ==
  ASSUME NEW t \in Trees, NEW n \in Places, NEW side \in Sides, NEW m \in Places
  PROVE  /\ Hang(t, n, side, m) \in Trees /\ SameNodes(t, Hang(t, n, side, m))
         /\ Hang(t, n, side, m).red = t.red /\ Hang(t, n, side, m).root = t.root
         /\ \A x \in Places : \A s \in Sides :
              Hang(t, n, side, m).kid[x][s] = IF x = n /\ s = side THEN m ELSE t.kid[x][s]
         /\ \A x \in Places :
              Hang(t, n, side, m).parent[x] = IF x = m /\ m # Nil THEN n ELSE t.parent[x]
<1> DEFINE a == [t EXCEPT !.kid[n][side] = m]
<1>1. /\ a \in Trees /\ SameNodes(t, a) /\ a.red = t.red /\ a.root = t.root /\ a.parent = t.parent
      /\ \A x \in Places : \A s \in Sides :
           a.kid[x][s] = IF x = n /\ s = side THEN m ELSE t.kid[x][s]
      BY WithKid
<1>2. Hang(t, n, side, m) = SetParent(a, m, n)
      BY DEF Hang
<1> HIDE DEF a
<1> DEFINE b == SetParent(a, m, n)
<1>3. /\ b \in Trees /\ SameNodes(a, b) /\ b.red = a.red /\ b.root = a.root /\ b.kid = a.kid
      /\ \A x \in Places : b.parent[x] = IF x = m /\ m # Nil THEN n ELSE a.parent[x]
      BY <1>1, SetParentIs
<1> HIDE DEF b
<1>4. SameNodes(t, b)
      BY <1>1, <1>3 DEF SameNodes
<1> QED BY <1>1, <1>2, <1>3, <1>4 DEF b

LEMMA RelinkIs ==
  ASSUME NEW t \in Trees, NEW u \in Places, NEW v \in Places, NEW first \in Sides,
         NEW p, p = t.parent[u],
         NEW side, side = (IF u = t.kid[p][first] THEN first ELSE Opposite(first)),
         NEW t2, t2 = Relink(t, u, v, first)
  PROVE  /\ t2 \in Trees /\ SameNodes(t, t2) /\ t2.red = t.red /\ t2.parent = t.parent
         /\ t2.root = IF p = Nil THEN v ELSE t.root
         /\ \A x \in Places : \A s \in Sides :
              t2.kid[x][s] = IF p # Nil /\ x = p /\ s = side THEN v ELSE t.kid[x][s]
<1>1. p \in Places /\ side \in Sides
      BY TreeFields, SidesAre
<1>2. CASE p = Nil
  <2>1. t2 = [t EXCEPT !.root = v]
        BY <1>2 DEF Relink
  <2> QED BY <1>2, <2>1, WithRoot
<1>3. CASE p # Nil
  <2>0. PICK m \in Places, d \in Sides : m = p /\ d = side
        BY <1>1
  <2> DEFINE b == [t EXCEPT !.kid[m][d] = v]
  <2>1. t2 = b
        BY <1>3, <2>0 DEF Relink
  <2>2. /\ b \in Trees /\ SameNodes(t, b) /\ b.red = t.red
        /\ b.root = t.root /\ b.parent = t.parent
        /\ \A x \in Places : \A s \in Sides :
             b.kid[x][s] = IF x = m /\ s = d THEN v ELSE t.kid[x][s]
        BY WithKid
  <2> HIDE DEF b
  <2> QED BY <1>3, <2>0, <2>1, <2>2
<1> QED BY <1>2, <1>3

LEMMA RiseIs ==
  ASSUME NEW t \in Trees, NEW n \in Places, NEW c \in Places, NEW far \in Sides,
         NEW p, p = t.parent[n], NEW q, q = (IF n = c THEN p ELSE t.parent[n]),
         NEW r, r = (IF n = t.kid[q][far] THEN far ELSE Opposite(far)),
         NEW t2, t2 = Rise(t, n, c, far)
  PROVE  /\ t2 \in Trees /\ SameNodes(t, t2) /\ t2.red = t.red
         /\ t2.root = IF q = Nil THEN c ELSE t.root
         /\ \A x \in Places : \A s \in Sides :
              t2.kid[x][s] = IF x = c /\ s = far THEN n
                             ELSE IF q # Nil /\ x = q /\ s = r THEN c
                             ELSE t.kid[x][s]
         /\ \A x \in Places :
              t2.parent[x] = IF x = n THEN c ELSE IF x = c THEN p ELSE t.parent[x]
<1> DEFINE b == [t EXCEPT !.parent[c] = t.parent[n]]
           risen == Relink(b, n, c, far)
           d == [risen EXCEPT !.kid[c][far] = n]
<1>1. p \in Places /\ q \in Places
      BY TreeFields
<1>2. /\ b \in Trees /\ SameNodes(t, b) /\ b.red = t.red /\ b.root = t.root /\ b.kid = t.kid
      /\ \A x \in Places : b.parent[x] = IF x = c THEN p ELSE t.parent[x]
      BY <1>1, WithParent
<1>3. b.parent[n] = q
      BY <1>2
<1> HIDE DEF b
<1>4. /\ risen \in Trees /\ SameNodes(b, risen) /\ risen.red = b.red /\ risen.parent = b.parent
      /\ risen.root = IF q = Nil THEN c ELSE b.root
      /\ \A x \in Places : \A s \in Sides :
            risen.kid[x][s] = IF q # Nil /\ x = q /\ s = r THEN c ELSE b.kid[x][s]
  <2>1. r = IF n = b.kid[q][far] THEN far ELSE Opposite(far)
        BY <1>2
  <2> QED BY <1>2, <1>3, <2>1, RelinkIs
<1>5. Rise(t, n, c, far) = [risen EXCEPT !.kid[c][far] = n, !.parent[n] = c]
      BY DEF Rise, b
<1> HIDE DEF risen
<1>6. /\ d \in Trees /\ SameNodes(risen, d) /\ d.red = risen.red /\ d.root = risen.root
      /\ d.parent = risen.parent
      /\ \A x \in Places : \A s \in Sides :
            d.kid[x][s] = IF x = c /\ s = far THEN n ELSE risen.kid[x][s]
      BY <1>4, WithKid, SMTT(30)
<1>7. t2 = [d EXCEPT !.parent[n] = c]
      BY <1>5
<1> HIDE DEF d
<1>8. /\ t2 \in Trees /\ SameNodes(d, t2) /\ t2.red = d.red /\ t2.root = d.root /\ t2.kid = d.kid
      /\ \A x \in Places : t2.parent[x] = IF x = n THEN c ELSE d.parent[x]
      BY <1>6, <1>7, WithParent
<1>9. SameNodes(t, t2) /\ t2.red = t.red
      BY <1>2, <1>4, <1>6, <1>8 DEF SameNodes
<1> QED BY <1>2, <1>4, <1>6, <1>8, <1>9

\* The subtree that changes sides in a rotation.
Moved(t, n, side) == t.kid[t.kid[n][side]][Opposite(side)]

LEMMA LiftIs ==
  ASSUME NEW t \in Trees, NEW n \in Places, NEW side \in Sides
  PROVE  /\ Lift(t, n, side) =
              Rise(Hang(t, n, side, Moved(t, n, side)), n, t.kid[n][side], Opposite(side))
         /\ t.kid[n][side] \in Places /\ Moved(t, n, side) \in Places
         /\ Opposite(side) \in Sides
<1>1. Lift(t, n, side) =
        Rise(Hang(t, n, side, Moved(t, n, side)), n, t.kid[n][side], Opposite(side))
      BY DEF Lift, Moved
<1>2. Opposite(side) \in Sides
      BY SidesAre
<1>3. t.kid[n][side] \in Places
      BY TreeFields
<1>4. Moved(t, n, side) \in Places
      BY <1>2, <1>3, TreeFields DEF Moved
<1> QED BY <1>1, <1>2, <1>3, <1>4, SMTT(30)

LEMMA LiftKeeps ==
  ASSUME NEW t \in Trees, NEW n \in Places, NEW side \in Sides
  PROVE  /\ Lift(t, n, side) \in Trees /\ SameNodes(t, Lift(t, n, side))
         /\ Lift(t, n, side).red = t.red
<1> DEFINE f == Hang(t, n, side, Moved(t, n, side))
           c == t.kid[n][side]
           t2 == Rise(f, n, c, Opposite(side))
<1>1. Lift(t, n, side) = t2 /\ c \in Places /\ Opposite(side) \in Sides
      BY LiftIs
<1>2. f \in Trees /\ SameNodes(t, f) /\ f.red = t.red
      BY LiftIs, HangIs
<1> HIDE DEF f, c
<1>3. t2 \in Trees /\ SameNodes(f, t2) /\ t2.red = f.red
      BY <1>1, <1>2, RiseIs
<1> HIDE DEF t2
<1> QED BY <1>1, <1>2, <1>3 DEF SameNodes

\* The sentinel rises where there is no child: it is linked from then on.
LEMMA LostByLift ==
  ASSUME NEW t \in Trees, NEW n \in Nodes, NEW side \in Sides, t.kid[n][side] = Nil
  PROVE  Lift(t, n, side).kid[Nil][Opposite(side)] = n
<1> DEFINE f == Hang(t, n, side, Moved(t, n, side))
           t2 == Rise(f, n, Nil, Opposite(side))
<1>1. n \in Places /\ Nil \in Places /\ n # Nil
      BY NilIsNoNode
<1>2. Lift(t, n, side) = t2 /\ Opposite(side) \in Sides
      BY <1>1, LiftIs
<1>3. f \in Trees
      BY <1>1, LiftIs, HangIs
<1> HIDE DEF f
<1>4. \A x \in Places : \A s \in Sides : x = Nil /\ s = Opposite(side) => t2.kid[x][s] = n
      BY <1>1, <1>2, <1>3, RiseIs
<1> HIDE DEF t2
<1> QED BY <1>1, <1>2, <1>4

\* The nodes of S are linked into a tree that is ordered by the keys.
TreeOn(t, S, U) ==
  Shape(S, t.root, t.kid, t.parent, U) /\ Ordered(S, t.kid, t.key, U)

LEMMA LiftRises ==
  ASSUME NEW t \in Trees, NEW S \in SUBSET Nodes, NEW U \in Unders, TreeOn(t, S, U),
         NEW n \in S, NEW side \in Sides, t.kid[n][side] # Nil,
         NEW t2, t2 = Lift(t, n, side)
  PROVE  Risen(S, n, side, t.root, t.kid, t.parent, t2.root, t2.kid, t2.parent)
<1> DEFINE c == t.kid[n][side]
           o == Opposite(side)
           m == t.kid[c][o]
           p == t.parent[n]
<1>0. Nil \notin S /\ n \in Places /\ c \in Places
      BY TreeFields, NilIsNoNode
<1>a. Shape(S, t.root, t.kid, t.parent, U)
      BY DEF TreeOn
<1>1. /\ \A x \in S, s \in Sides :
           /\ t.kid[x][s] \in S \cup {Nil}
           /\ t.kid[x][s] # Nil => t.parent[t.kid[x][s]] = x
           /\ x \notin U[t.kid[x][s]]
           /\ U[x] = {x} \cup U[t.kid[x][s]] \cup U[t.kid[x][Opposite(s)]]
           /\ U[t.kid[x][s]] \cap U[t.kid[x][Opposite(s)]] = {}
      /\ t.kid[Nil] = NoKids /\ t.parent[Nil] = Nil /\ t.parent[t.root] = Nil
      /\ \A x \in S : x # t.root => t.parent[x] \in S /\ \E s \in Sides : t.kid[t.parent[x]][s] = x
      /\ \A x \in S : x \in U[x]
      /\ U[Nil] = {} /\ U[t.root] = S
  <2>1. \A x \in S, s \in Sides :
           /\ t.kid[x][s] \in S \cup {Nil}
           /\ t.kid[x][s] # Nil => t.parent[t.kid[x][s]] = x
           /\ x \notin U[t.kid[x][s]]
           /\ U[x] = {x} \cup U[t.kid[x][s]] \cup U[t.kid[x][Opposite(s)]]
           /\ U[t.kid[x][s]] \cap U[t.kid[x][Opposite(s)]] = {}
        BY <1>a, ShapeIs
  <2>2. /\ t.kid[Nil] = NoKids /\ t.parent[Nil] = Nil /\ t.parent[t.root] = Nil
        /\ \A x \in S : x # t.root => t.parent[x] \in S /\ \E s \in Sides : t.kid[t.parent[x]][s] = x
        /\ \A x \in S : x \in U[x]
        /\ U[Nil] = {} /\ U[t.root] = S
        BY <1>a, ShapeIs
  <2> QED BY <2>1, <2>2
<1>2. o \in Sides /\ o # side /\ Opposite(o) = side
      BY SidesAre
<1>3. c \in S /\ t.parent[c] = n /\ c # n
      BY <1>0, <1>1
<1>4. m \in S \cup {Nil} /\ m # n
  <2>1. m \in S \cup {Nil}
        BY <1>1, <1>2, <1>3
  <2>2. n \notin U[c] /\ U[m] \subseteq U[c]
        BY <1>1, <1>2, <1>3
  <2> QED BY <2>1, <2>2, <1>1, <1>0
<1>5. p # c /\ p # n
  <2>1. n = t.root => p = Nil
        BY <1>1
  <2>2. n # t.root => \E s \in Sides : p \in S /\ t.kid[p][s] = n
        BY <1>1
  <2>3. \A s \in Sides : U[t.kid[c][s]] \subseteq U[c] /\ U[t.kid[n][s]] \subseteq U[n]
        BY <1>1, <1>3
  <2>4. n \notin U[c]
        BY <1>1
  <2> QED BY <2>1, <2>2, <2>3, <2>4, <1>0, <1>1, <1>3
<1> HIDE DEF c, m, o, p
<1> DEFINE f == Hang(t, n, side, m)
<1>6. /\ f \in Trees /\ t2 = Rise(f, n, c, o)
      /\ f.root = t.root
      /\ \A x \in Places : \A s \in Sides :
             f.kid[x][s] = IF x = n /\ s = side THEN m ELSE t.kid[x][s]
      /\ \A x \in Places : f.parent[x] = IF x = m /\ m # Nil THEN n ELSE t.parent[x]
  <2>1. m = Moved(t, n, side)
        BY DEF Moved, c, m, o
  <2>2. m \in Places /\ t2 = Rise(f, n, c, o)
        BY <1>0, <2>1, LiftIs DEF c, o
  <2> QED BY <1>0, <2>2, HangIs, SMTT(30)
<1> HIDE DEF f
<1>7. f.parent[n] = p
      BY <1>0, <1>4, <1>6 DEF p
<1> DEFINE r == IF n = f.kid[p][o] THEN o ELSE side
<1>8. /\ t2.root = IF p = Nil THEN c ELSE t.root
      /\ \A x \in Places : \A s \in Sides :
           t2.kid[x][s] = IF x = c /\ s = o THEN n
                          ELSE IF p # Nil /\ x = p /\ s = r THEN c
                          ELSE f.kid[x][s]
      /\ \A x \in Places :
           t2.parent[x] = IF x = n THEN c ELSE IF x = c THEN p ELSE f.parent[x]
  <2>1. p = IF n = c THEN p ELSE f.parent[n]
        BY <1>7
  <2>2. r = IF n = f.kid[p][o] THEN o ELSE Opposite(o)
        BY <1>2
  <2> HIDE DEF r
  <2> QED BY <2>1, <2>2, <1>0, <1>2, <1>6, <1>7, RiseIs, SMTT(30)
<1>9. p = Nil <=> n = t.root
      BY <1>0, <1>1 DEF p
<1>10. p # Nil => /\ p \in S /\ p \in Places /\ f.kid[p][o] = t.kid[p][o]
                  /\ \A s \in Sides : t.kid[p][s] = n <=> s = r
  <2> SUFFICES ASSUME p # Nil PROVE /\ p \in S /\ p \in Places /\ f.kid[p][o] = t.kid[p][o]
                                    /\ \A s \in Sides : t.kid[p][s] = n <=> s = r
      OBVIOUS
  <2>1. p \in S /\ p \in Places
        BY <1>1, <1>9, NilIsNoNode DEF p
  <2>2. f.kid[p][o] = t.kid[p][o]
        BY <2>1, <1>2, <1>5, <1>6
  <2>3. PICK s \in Sides : t.kid[p][s] = n
        BY <1>1, <1>9 DEF p
  <2>4. \A q \in Sides : t.kid[p][q] = n => q = s
    <3>1. t.kid[p][Opposite(s)] # n
          BY <2>1, <2>3, <1>1, ZenonT(40)
    <3> QED BY <3>1, SidesAre
  <2>5. s = o \/ s = side
        BY <1>2, SidesAre DEF o
  <2> QED BY <2>1, <2>2, <2>3, <2>4, <2>5, <1>2
<1> HIDE DEF r
<1>11. ASSUME NEW x \in S \cup {Nil}, NEW s \in Sides
       PROVE  t2.kid[x][s] = IF x = n /\ s = side THEN m
                             ELSE IF x = c /\ s = o THEN n
                             ELSE IF t.kid[x][s] = n THEN c ELSE t.kid[x][s]
  <2>1. t.kid[x][s] = n => x = p
    <3>1. x \in S => (t.kid[x][s] = n => x = p)
          BY <1>0, <1>1 DEF p
    <3>2. t.kid[Nil][s] = Nil
          BY <1>1 DEF NoKids
    <3> QED BY <3>1, <3>2, <1>0
  <2>2. x \in Places
        BY NilIsNoNode
  <2>3. CASE x = n
        BY <2>1, <2>2, <2>3, <1>3, <1>5, <1>6, <1>8
  <2>4. CASE x = c
        BY <2>1, <2>2, <2>4, <1>3, <1>5, <1>6, <1>8
  <2>5. CASE x \notin {n, c} /\ x = p /\ p # Nil
        BY <2>2, <2>5, <1>6, <1>8, <1>10
  <2>6. CASE x \notin {n, c} /\ ~(x = p /\ p # Nil)
    <3>1. t.kid[x][s] # n
      <4>1. t.kid[Nil][s] = Nil
            BY <1>1 DEF NoKids
      <4> QED BY <4>1, <2>1, <2>6, <1>0
    <3> QED BY <3>1, <2>2, <2>6, <1>6, <1>8
  <2> QED BY <2>3, <2>4, <2>5, <2>6
<1>12. ASSUME NEW x \in S \cup {Nil}
       PROVE  t2.parent[x] = IF x = n THEN c ELSE IF x = c THEN p
                             ELSE IF x = m /\ m # Nil THEN n ELSE t.parent[x]
       BY <1>6, <1>8, NilIsNoNode
<1>13. t2.root = IF t.root = n THEN c ELSE t.root
       BY <1>8, <1>9
<1> QED BY <1>11, <1>12, <1>13 DEF Risen, c, m, o, p

LEMMA LiftShapes ==
  ASSUME NEW t \in Trees, NEW S \in SUBSET Nodes, NEW U \in Unders, TreeOn(t, S, U),
         NEW n \in S, NEW side \in Sides, t.kid[n][side] # Nil
  PROVE  \E U2 \in Unders : /\ TreeOn(Lift(t, n, side), S, U2)
                            /\ \A x \in S \ {n, t.kid[n][side]} : U2[x] = U[x]
                            /\ U2[t.kid[n][side]] = U[n]
<1> DEFINE t2 == Lift(t, n, side)
<1>1. n \in Places
      BY NilIsNoNode
<1>2. t2 \in Trees /\ t2.key = t.key
      BY <1>1, LiftKeeps DEF SameNodes
<1>3. Risen(S, n, side, t.root, t.kid, t.parent, t2.root, t2.kid, t2.parent)
      BY LiftRises
<1>4. Shape(S, t.root, t.kid, t.parent, U) /\ Ordered(S, t.kid, t.key, U)
      BY DEF TreeOn
<1> HIDE DEF t2
<1>5. /\ t.root \in Places /\ t.kid \in Kids /\ t.parent \in Parents /\ t.key \in [Nodes -> Int]
      /\ t2.root \in Places /\ t2.kid \in Kids /\ t2.parent \in Parents
      BY <1>2, TreeFields
<1>6. \E U2 \in Unders :
           /\ Shape(S, t2.root, t2.kid, t2.parent, U2)
           /\ Ordered(S, t2.kid, t.key, U2)
           /\ \A x \in S \ {n, t.kid[n][side]} : U2[x] = U[x]
           /\ U2[t.kid[n][side]] = U[n]
      BY <1>3, <1>4, <1>5, RotationKeepsShape, SMTT(30)
<1> QED BY <1>2, <1>6 DEF TreeOn, t2

\* Colors do not matter.
LEMMA PaintShapes ==
  ASSUME NEW t, NEW t2, SameNodes(t, t2), SameLinks(t, t2), NEW S, NEW U, TreeOn(t, S, U)
  PROVE  TreeOn(t2, S, U)
BY DEF TreeOn, SameNodes, SameLinks

-----------------------------------------------------------------------------
(***************************************************************************)
(* A new leaf.                                                             *)
(***************************************************************************)

\* The links after new has been hung at p; to its place leads the way of its key.
Leafed(S, U, p, side, new, kid, parent, key, kid2, parent2, key2) ==
  /\ \A x \in S \cup {Nil} : \A s \in Sides :
       kid2[x][s] = IF x = p /\ s = side THEN new ELSE kid[x][s]
  /\ kid2[Nil] = kid[Nil] /\ \A s \in Sides : kid2[new][s] = Nil
  /\ \A x \in S \cup {Nil} : parent2[x] = parent[x]
  /\ parent2[new] = p
  /\ \A x \in S : key2[x] = key[x]
  /\ Before(side, key2[new], key[p])
  /\ \A x \in S, s \in Sides : p \in U[kid[x][s]] => Before(s, key2[new], key[x])

LEMMA LeafKeepsShape ==
  ASSUME NEW S \in SUBSET Nodes, NEW root, NEW kid, NEW parent, NEW U \in Unders,
         NEW key, Shape(S, root, kid, parent, U), Ordered(S, kid, key, U),
         NEW p \in S, NEW side \in Sides, kid[p][side] = Nil, NEW new \in Nodes \ S,
         NEW kid2, NEW parent2, NEW key2,
         Leafed(S, U, p, side, new, kid, parent, key, kid2, parent2, key2)
  PROVE  \E U2 \in Unders :
           /\ Shape(S \cup {new}, root, kid2, parent2, U2)
           /\ Ordered(S \cup {new}, kid2, key2, U2)
<1> DEFINE U2 == [x \in Places |-> IF x = new THEN {new}
                                   ELSE IF p \in U[x] THEN U[x] \cup {new} ELSE U[x]]
           T == S \cup {new}
<1>a. /\ \A x \in S \cup {Nil} : \A s \in Sides :
           kid2[x][s] = IF x = p /\ s = side THEN new ELSE kid[x][s]
      /\ kid2[Nil] = kid[Nil] /\ \A s \in Sides : kid2[new][s] = Nil
      /\ \A x \in S \cup {Nil} : parent2[x] = parent[x]
      /\ parent2[new] = p
      /\ \A x \in S : key2[x] = key[x]
      /\ Before(side, key2[new], key[p])
      /\ \A x \in S, s \in Sides : p \in U[kid[x][s]] => Before(s, key2[new], key[x])
      BY DEF Leafed
<1> USE <1>a
<1>0. Nil \notin T /\ new \notin S /\ T \subseteq Nodes /\ Nodes \subseteq Places /\ Nil \in Places
      BY NilIsNoNode
<1>1. /\ root \in S \cup {Nil} /\ U[root] = S /\ U[Nil] = {}
      /\ kid[Nil] = NoKids /\ parent[Nil] = Nil /\ parent[root] = Nil
      /\ \A n \in S : n \in U[n] /\ U[n] \subseteq S
      /\ \A n \in S : n # root => parent[n] \in S /\ \E s \in Sides : kid[parent[n]][s] = n
      BY ShapeIs
<1>2. \A n \in S, s \in Sides :
        /\ kid[n][s] \in S \cup {Nil}
        /\ kid[n][s] # Nil => parent[kid[n][s]] = n
        /\ n \notin U[kid[n][s]]
        /\ U[n] = {n} \cup U[kid[n][s]] \cup U[kid[n][Opposite(s)]]
        /\ U[kid[n][s]] \cap U[kid[n][Opposite(s)]] = {}
      BY ShapeIs
<1>3. /\ \A n, m : n \in S /\ m \in U[n] => m \in S
      /\ \A n, m \in S : m \in U[n] => U[m] \subseteq U[n] /\ (m # n => parent[m] \in U[n])
      BY ShapeIs
<1>4. U2 \in Unders
      BY DEF Unders
<1>5. /\ U2[new] = {new} /\ U2[Nil] = {}
      /\ \A x \in S \cup {Nil} : U2[x] = IF p \in U[x] THEN U[x] \cup {new} ELSE U[x]
      BY <1>0, <1>1
<1>5a. \A n \in S : n \in U[n] /\ U[n] \subseteq S
      BY <1>1
<1> HIDE DEF U2
<1>6. root \in T \cup {Nil} /\ U2[root] = T
      BY <1>0, <1>1, <1>5
<1>7. kid2[Nil] = NoKids /\ parent2[Nil] = Nil /\ parent2[root] = Nil
      BY <1>0, <1>1
<1>8. ASSUME NEW x \in T
      PROVE  /\ U2[x] \subseteq T
             /\ x # root => parent2[x] \in T /\ \E s \in Sides : kid2[parent2[x]][s] = x
  <2>1. U2[x] \subseteq T
    <3>1. CASE x = new
          BY <3>1, <1>5
    <3>2. CASE x \in S
      <4>1. U2[x] \in {U[x] \cup {new}, U[x]}
            BY <3>2, <1>5
      <4>2. U[x] \subseteq S
            BY <3>2, <1>5a
      <4> QED BY <4>1, <4>2
    <3> QED BY <3>1, <3>2
  <2>2. x = new => parent2[x] = p /\ p \in T /\ kid2[p][side] = x
        OBVIOUS
  <2>3. x \in S /\ x # root => parent2[x] \in T /\ \E s \in Sides : kid2[parent2[x]][s] = x
    <3> SUFFICES ASSUME x \in S, x # root PROVE parent2[x] \in T /\ \E s \in Sides : kid2[parent2[x]][s] = x
        OBVIOUS
    <3>1. PICK s \in Sides : parent[x] \in S /\ kid[parent[x]][s] = x
          BY <1>1
    <3>2. x # Nil
          BY <1>0
    <3>3. kid2[parent[x]][s] = x
          BY <3>1, <3>2
    <3> QED BY <3>1, <3>3
  <2> QED BY <2>1, <2>2, <2>3
<1>9. ASSUME NEW x \in T, NEW s \in Sides
      PROVE  /\ kid2[x][s] \in T \cup {Nil}
             /\ kid2[x][s] # Nil => parent2[kid2[x][s]] = x
      BY <1>0, <1>2
<1>10. ASSUME NEW x \in S, NEW s \in Sides
       PROVE  U2[kid2[x][s]] = IF x = p /\ s = side THEN {new}
                               ELSE IF p \in U[kid[x][s]] THEN U[kid[x][s]] \cup {new}
                               ELSE U[kid[x][s]]
  <2>1. CASE x = p /\ s = side
        BY <2>1, <1>5
  <2>2. CASE ~(x = p /\ s = side)
    <3>1. kid2[x][s] = kid[x][s]
          BY <2>2
    <3>2. kid[x][s] \in S \cup {Nil}
          BY <1>2
    <3>3. U2[kid[x][s]] = IF p \in U[kid[x][s]] THEN U[kid[x][s]] \cup {new} ELSE U[kid[x][s]]
          BY <3>2, <1>5
    <3> QED BY <3>1, <3>3, <2>2
  <2> QED BY <2>1, <2>2
<1>11. ASSUME NEW x \in T, NEW s \in Sides
       PROVE  /\ x \notin U2[kid2[x][s]]
              /\ U2[x] = {x} \cup U2[kid2[x][s]] \cup U2[kid2[x][Opposite(s)]]
              /\ U2[kid2[x][s]] \cap U2[kid2[x][Opposite(s)]] = {}
  <2>0. Opposite(s) \in Sides /\ Opposite(s) # s /\ Opposite(Opposite(s)) = s
        /\ (s = side \/ Opposite(s) = side)
        BY SidesAre
  <2>1. CASE x = new
        BY <2>0, <2>1, <1>5
  <2>2. CASE x = p
    <3>1. U[p] = {p} \cup U[kid[p][Opposite(side)]] /\ p \notin U[kid[p][Opposite(side)]]
          BY <1>1, <1>2, SidesAre
    <3>2. U2[p] = U[p] \cup {new}
          BY <1>1, <1>5
    <3>3. U2[kid2[p][side]] = {new} /\ U2[kid2[p][Opposite(side)]] = U[kid[p][Opposite(side)]]
      <4>1. Opposite(side) \in Sides /\ Opposite(side) # side
            BY SidesAre
      <4> QED BY <1>10, <3>1, <4>1, ZenonT(40)
    <3>4. U[kid[p][Opposite(side)]] \subseteq U[p] /\ new \notin U[p]
          BY <3>1, <1>1, <1>0
    <3>5. (s = side) \/ (s = Opposite(side) /\ Opposite(s) = side)
          BY SidesAre
    <3> QED BY <3>1, <3>2, <3>3, <3>4, <3>5, <2>2, <1>0
  <2>3. CASE x \in S /\ x # p
    <3>1. /\ x \notin U[kid[x][s]]
          /\ U[x] = {x} \cup U[kid[x][s]] \cup U[kid[x][Opposite(s)]]
          /\ U[kid[x][s]] \cap U[kid[x][Opposite(s)]] = {}
          BY <2>3, <1>2
    <3>2. new \notin U[x] /\ x # new
          BY <2>3, <1>0, <1>1
    <3>3. /\ U2[kid2[x][s]] = IF p \in U[kid[x][s]] THEN U[kid[x][s]] \cup {new} ELSE U[kid[x][s]]
          /\ U2[kid2[x][Opposite(s)]] = IF p \in U[kid[x][Opposite(s)]]
                                        THEN U[kid[x][Opposite(s)]] \cup {new}
                                        ELSE U[kid[x][Opposite(s)]]
          BY <2>0, <2>3, <1>10, SMTT(30)
    <3>4. U2[x] = IF p \in U[x] THEN U[x] \cup {new} ELSE U[x]
          BY <2>3, <1>5
    <3> QED BY <3>1, <3>2, <3>3, <3>4, <2>3
  <2> QED BY <2>1, <2>2, <2>3
<1>12. ASSUME NEW x \in T, NEW y \in U2[x]
       PROVE  U2[y] \subseteq U2[x] /\ (y # x => parent2[y] \in U2[x])
  <2>1. CASE x = new
        BY <2>1, <1>5
  <2>2. CASE x \in S /\ y = new
    <3>1. p \in U[x] /\ U2[x] = U[x] \cup {new}
          BY <2>2, <1>0, <1>1, <1>5
    <3> QED BY <3>1, <2>2, <1>5
  <2>3. CASE x \in S /\ y # new
    <3>1. y \in U[x] /\ y \in S
      <4>1. U2[x] \in {U[x] \cup {new}, U[x]}
            BY <2>3, <1>5
      <4>2. y \in U[x]
            BY <4>1, <2>3, <1>12
      <4>3. U[x] \subseteq S
            BY <2>3, <1>5a
      <4> QED BY <4>2, <4>3
    <3>2. U[y] \subseteq U[x] /\ (y # x => parent[y] \in U[x])
          BY <3>1, <2>3, <1>3
    <3>3. U2[x] = (IF p \in U[x] THEN U[x] \cup {new} ELSE U[x])
          BY <2>3, <1>5
    <3>4. U2[y] = (IF p \in U[y] THEN U[y] \cup {new} ELSE U[y])
          BY <3>1, <1>5
    <3>5. parent2[y] = parent[y]
          BY <3>1
    <3>6. U2[y] \subseteq U2[x]
          BY <3>2, <3>3, <3>4
    <3>7. y # x => parent2[y] \in U2[x]
          BY <3>2, <3>3, <3>5
    <3> QED BY <3>6, <3>7
  <2> QED BY <2>1, <2>2, <2>3
<1>13. Ordered(T, kid2, key2, U2)
  <2> SUFFICES ASSUME NEW x \in T, NEW s \in Sides, NEW y \in U2[kid2[x][s]]
               PROVE  Before(s, key2[y], key2[x])
      BY DEF Ordered
  <2>1. CASE x = new
        BY <2>1, <1>5
  <2>2. CASE x \in S /\ y = new
    <3>1. (x = p /\ s = side) \/ p \in U[kid[x][s]]
      <4>1. kid[x][s] \in S \cup {Nil}
            BY <2>2, <1>2
      <4>2. new \notin U[kid[x][s]]
            BY <4>1, <1>0, <1>1
      <4> QED BY <4>2, <2>2, <1>10
    <3> QED BY <3>1, <2>2
  <2>3. CASE x \in S /\ y # new
    <3>1. y \in U[kid[x][s]]
      <4>1. U2[kid2[x][s]] \subseteq {new} \cup U[kid[x][s]]
            <5>1. U2[kid2[x][s]] \in {{new}, U[kid[x][s]] \cup {new}, U[kid[x][s]]}
          <6>1. U2[kid2[x][s]] = IF x = p /\ s = side THEN {new}
                                 ELSE IF p \in U[kid[x][s]] THEN U[kid[x][s]] \cup {new}
                                 ELSE U[kid[x][s]]
                BY <2>3, <1>10
          <6> QED BY <6>1
        <5> QED BY <5>1
      <4> QED BY <4>1, <2>3
    <3>2. y \in S
          BY <3>1, <2>3, <1>1, <1>2
    <3> QED BY <3>1, <3>2, <2>3 DEF Ordered
  <2> QED BY <2>1, <2>2, <2>3
<1>14. Shape(T, root, kid2, parent2, U2)
  <2>1. \A x \in T : x # root => parent2[x] \in T /\ \E s \in Sides : kid2[parent2[x]][s] = x
        BY <1>8
  <2>2. \A x \in T : U2[x] \subseteq T
        BY <1>8
  <2>3. \A x \in T : \A y \in U2[x] : U2[y] \subseteq U2[x] /\ (y # x => parent2[y] \in U2[x])
        BY <1>12
  <2> HIDE DEF T
  <2> QED BY <1>5, <1>6, <1>7, <1>9, <1>11, <2>1, <2>2, <2>3 DEF Shape
<1> QED BY <1>4, <1>13, <1>14

-----------------------------------------------------------------------------
(***************************************************************************)
(* A node is taken out.                                                    *)
(***************************************************************************)

\* y has at most one child x, which takes its place.
Cut(S, y, x, root, kid, parent, root2, kid2, parent2) ==
  /\ root2 = (IF root = y THEN x ELSE root)
  /\ kid2[Nil] = kid[Nil]
  /\ \A z \in S \ {y}, s \in Sides : kid2[z][s] = IF kid[z][s] = y THEN x ELSE kid[z][s]
  /\ \A z \in (S \ {y}) \cup {Nil} :
       parent2[z] = IF z = x /\ x # Nil THEN parent[y] ELSE parent[z]

\* What is left of a tree without y.
CutInto(S, y, root2, kid2, parent2, key, U) ==
  \E U2 \in Unders :
     /\ Shape(S \ {y}, root2, kid2, parent2, U2)
     /\ Ordered(S \ {y}, kid2, key, U2)
     /\ \A z \in Places : U2[z] = U[z] \ {y}

LEMMA CutKeepsShape ==
  ASSUME NEW S \in SUBSET Nodes, NEW root, NEW kid, NEW parent, NEW U \in Unders, NEW key,
         Shape(S, root, kid, parent, U), Ordered(S, kid, key, U),
         NEW y \in S, NEW side \in Sides, kid[y][Opposite(side)] = Nil,
         NEW root2, NEW kid2, NEW parent2,
         Cut(S, y, kid[y][side], root, kid, parent, root2, kid2, parent2)
  PROVE  CutInto(S, y, root2, kid2, parent2, key, U)
<1> DEFINE U2 == [z \in Places |-> U[z] \ {y}]
           T == S \ {y}
           x == kid[y][side]
<1>a. /\ root2 = (IF root = y THEN x ELSE root)
      /\ kid2[Nil] = kid[Nil]
      /\ \A z \in S \ {y}, s \in Sides : kid2[z][s] = IF kid[z][s] = y THEN x ELSE kid[z][s]
      /\ \A z \in (S \ {y}) \cup {Nil} :
           parent2[z] = IF z = x /\ x # Nil THEN parent[y] ELSE parent[z]
      BY DEF Cut
<1> USE <1>a
<1>0. Nil \notin S /\ S \subseteq Nodes /\ Nodes \subseteq Places /\ Nil \in Places /\ y # Nil
      BY NilIsNoNode
<1>1. /\ root \in S \cup {Nil} /\ U[root] = S /\ U[Nil] = {}
      /\ kid[Nil] = NoKids /\ parent[Nil] = Nil /\ parent[root] = Nil
      BY ShapeIs
<1>2. \A n \in S : n \in U[n] /\ U[n] \subseteq S
      BY ShapeIs
<1>3. \A n \in S : n # root => parent[n] \in S /\ \E s \in Sides : kid[parent[n]][s] = n
      BY ShapeIs
<1>4. \A n \in S, s \in Sides :
        /\ kid[n][s] \in S \cup {Nil}
        /\ kid[n][s] # Nil => parent[kid[n][s]] = n
        /\ n \notin U[kid[n][s]]
        /\ U[n] = {n} \cup U[kid[n][s]] \cup U[kid[n][Opposite(s)]]
        /\ U[kid[n][s]] \cap U[kid[n][Opposite(s)]] = {}
      BY ShapeIs
<1>5. /\ \A n, m : n \in S /\ m \in U[n] => m \in S
      /\ \A n, m \in S : m \in U[n] => U[m] \subseteq U[n] /\ (m # n => parent[m] \in U[n])
      BY ShapeIs
<1>6. U2 \in Unders /\ \A z \in S \cup {Nil} : U2[z] = U[z] \ {y}
  <2>1. \A z \in Places : U[z] \subseteq Nodes
        BY DEF Unders
  <2>2. U2 \in Unders
        BY <2>1 DEF Unders
  <2> QED BY <2>2, <1>0
<1>7. /\ x \in S \cup {Nil} /\ x # y /\ (x # Nil => parent[x] = y)
      /\ U[y] = {y} \cup U[x] /\ y \notin U[x]
  <2>1. x \in S \cup {Nil} /\ (x # Nil => parent[x] = y) /\ y \notin U[x]
        BY <1>4
  <2>2. U[y] = {y} \cup U[kid[y][side]] \cup U[kid[y][Opposite(side)]]
        BY <1>4
  <2> QED BY <2>1, <2>2, <1>0, <1>1, <1>2
<1>8. \A z \in S : z # x => parent[z] # y \/ z = root
  <2> SUFFICES ASSUME NEW z \in S, z # x, parent[z] = y, z # root PROVE FALSE
      OBVIOUS
  <2>1. PICK s \in Sides : kid[y][s] = z
        BY <1>3
  <2>2. s = side \/ s = Opposite(side)
        BY SidesAre
  <2> QED BY <2>1, <2>2, <1>0
<1>9. \A s \in Sides : kid[y][s] # y
      BY <1>0, <1>2, <1>4
<1> HIDE DEF U2
<1>10. root2 \in T \cup {Nil} /\ U2[root2] = T /\ parent2[root2] = Nil
  <2>1. CASE root = y
        BY <2>1, <1>1, <1>6, <1>7
  <2>2. CASE root # y
    <3>1. root \in S
          BY <1>1, <1>0
    <3>2. root # x
          BY <3>1, <1>0, <1>1, <1>7
    <3> QED BY <2>2, <3>1, <3>2, <1>1, <1>6
  <2> QED BY <2>1, <2>2
<1>11. kid2[Nil] = NoKids /\ parent2[Nil] = Nil /\ U2[Nil] = {}
       BY <1>1, <1>6
<1>12. ASSUME NEW z \in T, z # root2
       PROVE  parent2[z] \in T /\ \E s \in Sides : kid2[parent2[z]][s] = z
  <2>1. CASE z = x
    <3>1. y # root
          BY <1>12, <2>1
    <3>2. PICK s \in Sides : parent[y] \in S /\ kid[parent[y]][s] = y
          BY <3>1, <1>3
    <3>3. parent[y] \in T
          BY <3>2, <1>9
    <3>4. parent2[z] = parent[y]
          BY <2>1, <1>0
    <3>5. kid2[parent[y]][s] = x
          BY <3>2, <3>3
    <3> QED BY <3>3, <3>4, <3>5, <2>1
  <2>2. CASE z # x
    <3>1. z # root
          BY <1>12, <2>2, <1>7
    <3>2. PICK s \in Sides : parent[z] \in S /\ kid[parent[z]][s] = z
          BY <3>1, <1>3
    <3>3. parent[z] \in T
          BY <3>1, <3>2, <2>2, <1>8
    <3>4. parent2[z] = parent[z]
          BY <2>2
    <3> QED BY <3>2, <3>3, <3>4
  <2> QED BY <2>1, <2>2
<1>13. ASSUME NEW z \in T, NEW s \in Sides
       PROVE  /\ kid2[z][s] \in T \cup {Nil}
              /\ kid2[z][s] # Nil => parent2[kid2[z][s]] = z
              /\ U2[kid2[z][s]] = U[kid[z][s]] \ {y}
  <2>1. CASE kid[z][s] = y
    <3>1. kid2[z][s] = x /\ parent[y] = z
          BY <2>1, <1>0, <1>4
    <3>2. U2[x] = U[y] \ {y}
          BY <1>6, <1>7
    <3> QED BY <3>1, <3>2, <2>1, <1>7
  <2>2. CASE kid[z][s] # y
    <3>1. kid2[z][s] = kid[z][s] /\ kid[z][s] \in T \cup {Nil}
          BY <2>2, <1>4
    <3>2. kid[z][s] # Nil => parent[kid[z][s]] = z
          BY <1>4
    <3>3. kid[z][s] = x => x = Nil
          BY <3>2, <1>7
    <3>4. U2[kid[z][s]] = U[kid[z][s]] \ {y}
          BY <3>1, <1>6
    <3> QED BY <3>1, <3>2, <3>3, <3>4
  <2> QED BY <2>1, <2>2
<1>14. ASSUME NEW z \in T, NEW s \in Sides
       PROVE  /\ z \notin U2[kid2[z][s]]
              /\ U2[z] = {z} \cup U2[kid2[z][s]] \cup U2[kid2[z][Opposite(s)]]
              /\ U2[kid2[z][s]] \cap U2[kid2[z][Opposite(s)]] = {}
  <2>1. U2[kid2[z][s]] = U[kid[z][s]] \ {y}
        BY <1>13
  <2>2. U2[kid2[z][Opposite(s)]] = U[kid[z][Opposite(s)]] \ {y}
        BY <1>13, SidesAre
  <2>3. /\ z \notin U[kid[z][s]]
        /\ U[z] = {z} \cup U[kid[z][s]] \cup U[kid[z][Opposite(s)]]
        /\ U[kid[z][s]] \cap U[kid[z][Opposite(s)]] = {}
        BY <1>4
  <2>4. U2[z] = U[z] \ {y}
        BY <1>6
  <2> QED BY <2>1, <2>2, <2>3, <2>4
<1>15. ASSUME NEW z \in T
       PROVE  U2[z] \subseteq T
  <2>1. U2[z] = U[z] \ {y} /\ U[z] \subseteq S
        BY <1>2, <1>6
  <2> QED BY <2>1
<1>16. ASSUME NEW z \in T, NEW w \in U2[z]
       PROVE  U2[w] \subseteq U2[z] /\ (w # z => parent2[w] \in U2[z])
  <2>1. w \in U[z] /\ w \in T /\ U2[z] = U[z] \ {y} /\ U2[w] = U[w] \ {y}
        BY <1>5, <1>6
  <2>2. U[w] \subseteq U[z] /\ (w # z => parent[w] \in U[z])
        BY <2>1, <1>5
  <2>3. w # z => parent2[w] \in U[z] \ {y}
    <3>1. CASE w = x /\ w # z
      <4>1. y \in U[z]
            BY <3>1, <2>1, <2>2, <1>0, <1>7
      <4>2. parent[y] \in U[z]
            BY <4>1, <1>5
      <4>3. parent[y] # y
        <5>1. parent[y] = Nil \/ \E s \in Sides : kid[parent[y]][s] = y
              BY <1>1, <1>3
        <5> QED BY <5>1, <1>0, <1>9
      <4> QED BY <3>1, <4>2, <4>3, <2>1, <1>0
    <3>2. CASE w # x /\ w # z
      <4>1. parent[w] # y
        <5>1. w = root => parent[w] = Nil
              BY <1>1
        <5> QED BY <5>1, <3>2, <2>1, <1>0, <1>8
      <4> QED BY <3>2, <4>1, <2>1, <2>2
    <3> QED BY <3>1, <3>2
  <2> QED BY <2>1, <2>2, <2>3
<1>17. Ordered(T, kid2, key, U2)
  <2> SUFFICES ASSUME NEW z \in T, NEW s \in Sides, NEW w \in U2[kid2[z][s]]
               PROVE  Before(s, key[w], key[z])
      BY DEF Ordered
  <2>1. w \in U[kid[z][s]]
        BY <1>13
  <2> QED BY <2>1 DEF Ordered
<1>18. Shape(T, root2, kid2, parent2, U2)
  <2>1. \A z \in T : z # root2 => parent2[z] \in T /\ \E s \in Sides : kid2[parent2[z]][s] = z
        BY <1>12
  <2>2. \A z \in T : U2[z] \subseteq T
        BY <1>15
  <2>3. \A z \in T : \A w \in U2[z] : U2[w] \subseteq U2[z] /\ (w # z => parent2[w] \in U2[z])
        BY <1>16
  <2>4. \A z \in T, s \in Sides : /\ kid2[z][s] \in T \cup {Nil}
                                  /\ kid2[z][s] # Nil => parent2[kid2[z][s]] = z
        BY <1>13
  <2> HIDE DEF T
  <2> QED BY <1>10, <1>11, <1>14, <2>1, <2>2, <2>3, <2>4 DEF Shape
<1>19. \A z \in Places : U2[z] = U[z] \ {y}
       BY DEF U2
<1> QED BY <1>6, <1>17, <1>18, <1>19 DEF CutInto

-----------------------------------------------------------------------------
(***************************************************************************)
(* A node takes the place of another.                                      *)
(***************************************************************************)

\* Every n in the set becomes y.
Renamed(A, n, y) == IF n \in A THEN (A \ {n}) \cup {y} ELSE A

LEMMA RenamedIs ==
  ASSUME NEW S, NEW n \in S, NEW y, y \notin S
  PROVE  /\ \A A \in SUBSET S : /\ Renamed(A, n, y) \subseteq Renamed(S, n, y)
                                /\ y \in Renamed(A, n, y) <=> n \in A
                                /\ n \notin Renamed(A, n, y)
                                /\ \A z : z # n /\ z # y => (z \in Renamed(A, n, y) <=> z \in A)
         /\ \A A, B \in SUBSET S :
              /\ Renamed(A \cup B, n, y) = Renamed(A, n, y) \cup Renamed(B, n, y)
              /\ A \cap B = {} => Renamed(A, n, y) \cap Renamed(B, n, y) = {}
              /\ A \subseteq B => Renamed(A, n, y) \subseteq Renamed(B, n, y)
         /\ Renamed({n}, n, y) = {y}
         /\ \A z \in S : z # n => Renamed({z}, n, y) = {z}
         /\ Renamed({}, n, y) = {}
<1>1. \A A \in SUBSET S : /\ y \in Renamed(A, n, y) <=> n \in A
                          /\ n \notin Renamed(A, n, y)
                          /\ \A z : z # n /\ z # y => (z \in Renamed(A, n, y) <=> z \in A)
      BY DEF Renamed
<1>2. \A A, B \in SUBSET S : A \subseteq B => Renamed(A, n, y) \subseteq Renamed(B, n, y)
      BY DEF Renamed
<1>3. \A A, B \in SUBSET S :
        Renamed(A \cup B, n, y) = Renamed(A, n, y) \cup Renamed(B, n, y)
      BY DEF Renamed
<1>4. \A A, B \in SUBSET S : A \cap B = {} => Renamed(A, n, y) \cap Renamed(B, n, y) = {}
      BY DEF Renamed
<1> QED BY <1>1, <1>2, <1>3, <1>4 DEF Renamed

\* The links after y, which was not in the tree, has taken the place of n.
Replaced(S, n, y, root, kid, parent, root2, kid2, parent2) ==
  /\ root2 = (IF root = n THEN y ELSE root)
  /\ kid2[Nil] = kid[Nil] /\ parent2[Nil] = parent[Nil]
  /\ \A z \in S \ {n}, s \in Sides : kid2[z][s] = IF kid[z][s] = n THEN y ELSE kid[z][s]
  /\ \A s \in Sides : kid2[y][s] = kid[n][s]
  /\ parent2[y] = parent[n]
  /\ \A z \in S \ {n} : parent2[z] = IF parent[z] = n THEN y ELSE parent[z]

LEMMA ReplaceKeepsShape ==
  ASSUME NEW S \in SUBSET Nodes, NEW root, NEW kid, NEW parent, NEW U \in Unders, NEW key,
         Shape(S, root, kid, parent, U), Ordered(S, kid, key, U),
         NEW n \in S, NEW y \in Nodes \ S,
         NEW root2, NEW kid2, NEW parent2,
         Replaced(S, n, y, root, kid, parent, root2, kid2, parent2),
         \A s \in Sides : \A z \in U[kid[n][s]] : Before(s, key[z], key[y]),
         \A z \in S, s \in Sides : n \in U[kid[z][s]] => Before(s, key[y], key[z])
  PROVE  \E U2 \in Unders : /\ Shape((S \ {n}) \cup {y}, root2, kid2, parent2, U2)
                            /\ Ordered((S \ {n}) \cup {y}, kid2, key, U2)
<1> DEFINE r(z) == IF z = n THEN y ELSE z
           R(A) == Renamed(A, n, y)
           U2 == [z \in Places |-> IF z = y THEN R(U[n]) ELSE IF z \in S THEN R(U[z]) ELSE {}]
           T == (S \ {n}) \cup {y}
<1>a. /\ root2 = (IF root = n THEN y ELSE root)
      /\ kid2[Nil] = kid[Nil] /\ parent2[Nil] = parent[Nil]
      /\ \A z \in S \ {n}, s \in Sides : kid2[z][s] = IF kid[z][s] = n THEN y ELSE kid[z][s]
      /\ \A s \in Sides : kid2[y][s] = kid[n][s]
      /\ parent2[y] = parent[n]
      /\ \A z \in S \ {n} : parent2[z] = IF parent[z] = n THEN y ELSE parent[z]
      BY DEF Replaced
<1> USE <1>a
<1>0. /\ Nil \notin S /\ S \subseteq Nodes /\ Nodes \subseteq Places /\ Nil \in Places
      /\ y # Nil /\ n # Nil /\ y # n /\ y \notin S
      BY NilIsNoNode
<1>1. /\ root \in S \cup {Nil} /\ U[root] = S /\ U[Nil] = {}
      /\ kid[Nil] = NoKids /\ parent[Nil] = Nil /\ parent[root] = Nil
      BY ShapeIs
<1>2. \A z \in S : z \in U[z] /\ U[z] \subseteq S
      BY ShapeIs
<1>3. \A z \in S : z # root => parent[z] \in S /\ \E s \in Sides : kid[parent[z]][s] = z
      BY ShapeIs
<1>4. \A z \in S, s \in Sides :
        /\ kid[z][s] \in S \cup {Nil}
        /\ kid[z][s] # Nil => parent[kid[z][s]] = z
        /\ z \notin U[kid[z][s]]
        /\ U[z] = {z} \cup U[kid[z][s]] \cup U[kid[z][Opposite(s)]]
        /\ U[kid[z][s]] \cap U[kid[z][Opposite(s)]] = {}
      BY ShapeIs
<1>5. /\ \A z, w : z \in S /\ w \in U[z] => w \in S
      /\ \A z, w \in S : w \in U[z] => U[w] \subseteq U[z] /\ (w # z => parent[w] \in U[z])
      BY ShapeIs
<1>6. T = R(S)
      BY DEF Renamed
<1>7. /\ \A A \in SUBSET S : /\ R(A) \subseteq T
                             /\ y \in R(A) <=> n \in A
                             /\ n \notin R(A)
                             /\ \A z : z # n /\ z # y => (z \in R(A) <=> z \in A)
      /\ \A A, B \in SUBSET S : /\ R(A \cup B) = R(A) \cup R(B)
                                /\ A \cap B = {} => R(A) \cap R(B) = {}
                                /\ A \subseteq B => R(A) \subseteq R(B)
      /\ R({n}) = {y} /\ R({}) = {}
      /\ \A z \in S : z # n => R({z}) = {z}
  <2>1. /\ \A A \in SUBSET S : /\ R(A) \subseteq R(S)
                               /\ y \in R(A) <=> n \in A
                               /\ n \notin R(A)
                               /\ \A z : z # n /\ z # y => (z \in R(A) <=> z \in A)
        /\ R({n}) = {y} /\ R({}) = {}
        /\ \A z \in S : z # n => R({z}) = {z}
        BY <1>0, RenamedIs
  <2>2. \A A, B \in SUBSET S : /\ R(A \cup B) = R(A) \cup R(B)
                               /\ A \cap B = {} => R(A) \cap R(B) = {}
                               /\ A \subseteq B => R(A) \subseteq R(B)
        BY <1>0, RenamedIs
  <2> HIDE DEF R, T
  <2> QED BY <1>6, <2>1, <2>2
<1> HIDE DEF R
<1>8. \A z \in S \cup {Nil}, A \in SUBSET S : r(z) \in R(A) <=> z \in A
      BY <1>0, <1>7
<1>9. \A w \in T : \E z \in S : w = r(z)
      OBVIOUS
<1>10. \A z \in S : R({z}) = {r(z)} /\ r(z) \in T
      BY <1>7
<1>11. U2 \in Unders /\ \A z \in S \cup {Nil} : U2[r(z)] = R(U[z])
  <2>1. T \subseteq Nodes
        BY <1>0
  <2>2. \A z \in S : R(U[z]) \subseteq Nodes
        BY <1>2, <1>7, <2>1
  <2>3. U2 \in Unders
        BY <2>2 DEF Unders
  <2>4. y \in Places /\ r(Nil) = Nil /\ U2[Nil] = {} /\ R(U[Nil]) = {}
        BY <1>0, <1>1, <1>7
  <2>5. \A z \in S : U2[r(z)] = R(U[z])
        BY <1>0, <2>4
  <2> QED BY <2>3, <2>4, <2>5
<1> HIDE DEF U2
<1>12. \A z \in S, s \in Sides : kid2[r(z)][s] = r(kid[z][s])
  <2>1. \A s \in Sides : kid[n][s] # n
        BY <1>0, <1>2, <1>4
  <2> QED BY <2>1
<1>13. \A z \in S \cup {Nil} : parent2[r(z)] = r(parent[z])
  <2>1. parent[n] # n
    <3>1. \A s \in Sides : kid[n][s] # n
          BY <1>0, <1>2, <1>4
    <3> QED BY <3>1, <1>0, <1>1, <1>3
  <2> QED BY <2>1, <1>0, <1>1
<1>14. root2 = r(root) /\ r(Nil) = Nil
       BY <1>0
<1>15. /\ root2 \in T \cup {Nil} /\ U2[root2] = T /\ U2[Nil] = {}
       /\ kid2[Nil] = NoKids /\ parent2[Nil] = Nil /\ parent2[root2] = Nil
       BY <1>0, <1>1, <1>6, <1>7, <1>11, <1>13, <1>14
<1>16. \A z, w \in S \cup {Nil} : r(z) = r(w) => z = w
       BY <1>0
<1> HIDE DEF r, T
<1>17. ASSUME NEW z \in S, NEW s \in Sides
       PROVE  /\ kid2[r(z)][s] \in T \cup {Nil}
              /\ kid2[r(z)][s] # Nil => parent2[kid2[r(z)][s]] = r(z)
              /\ r(z) \notin U2[kid2[r(z)][s]]
              /\ U2[r(z)] = {r(z)} \cup U2[kid2[r(z)][s]] \cup U2[kid2[r(z)][Opposite(s)]]
              /\ U2[kid2[r(z)][s]] \cap U2[kid2[r(z)][Opposite(s)]] = {}
  <2> DEFINE a == kid[z][s]
             b == kid[z][Opposite(s)]
  <2>1. /\ a \in S \cup {Nil} /\ b \in S \cup {Nil} /\ (a # Nil => parent[a] = z)
        /\ z \notin U[a] /\ U[z] = {z} \cup U[a] \cup U[b] /\ U[a] \cap U[b] = {}
        BY <1>4, SidesAre
  <2>2. /\ kid2[r(z)][s] = r(a) /\ kid2[r(z)][Opposite(s)] = r(b)
        /\ U2[r(a)] = R(U[a]) /\ U2[r(b)] = R(U[b]) /\ U2[r(z)] = R(U[z])
        BY <1>11, <1>12, <2>1, SidesAre
  <2> HIDE DEF a, b
  <2>3. U[a] \in SUBSET S /\ U[b] \in SUBSET S /\ U[z] \in SUBSET S /\ {z} \in SUBSET S
        BY <1>1, <1>2, <2>1
  <2>4. R(U[z]) = R({z}) \cup R(U[a]) \cup R(U[b])
    <3>1. {z} \cup U[a] \in SUBSET S
          BY <2>3
    <3> QED BY <1>7, <2>1, <2>3, <3>1
  <2>5. R(U[a]) \cap R(U[b]) = {} /\ r(z) \notin R(U[a])
        BY <1>7, <1>8, <2>1, <2>3
  <2>6. r(a) \in T \cup {Nil} /\ (r(a) # Nil => parent2[r(a)] = r(z))
        BY <1>10, <1>13, <1>14, <2>1
  <2> QED BY <1>10, <2>2, <2>4, <2>5, <2>6
<1>18. ASSUME NEW z \in S
       PROVE  /\ U2[r(z)] \subseteq T
              /\ r(z) # root2 => parent2[r(z)] \in T /\ \E s \in Sides : kid2[parent2[r(z)]][s] = r(z)
  <2>1. U2[r(z)] \subseteq T
        BY <1>2, <1>7, <1>11
  <2>2. ASSUME r(z) # root2
        PROVE  parent2[r(z)] \in T /\ \E s \in Sides : kid2[parent2[r(z)]][s] = r(z)
    <3>1. PICK s \in Sides : parent[z] \in S /\ kid[parent[z]][s] = z
          BY <1>3, <1>14, <2>2
    <3>2. parent2[r(z)] = r(parent[z])
          BY <1>13
    <3>3. kid2[r(parent[z])][s] = r(z)
          BY <1>12, <3>1
    <3> QED BY <1>10, <3>1, <3>2, <3>3
  <2> QED BY <2>1, <2>2
<1>19. ASSUME NEW z \in S, NEW w \in S, r(w) \in U2[r(z)]
       PROVE  U2[r(w)] \subseteq U2[r(z)] /\ (r(w) # r(z) => parent2[r(w)] \in U2[r(z)])
  <2>1. U[w] \in SUBSET S /\ U[z] \in SUBSET S
        BY <1>2
  <2>2. U2[r(w)] = R(U[w]) /\ U2[r(z)] = R(U[z]) /\ w \in U[z]
        BY <1>8, <1>11, <1>19, <2>1
  <2>3. U[w] \subseteq U[z] /\ (w # z => parent[w] \in U[z])
        BY <1>5, <2>2
  <2>4. w # z => r(parent[w]) \in R(U[z])
        BY <1>8, <2>1, <2>3
  <2>5. parent2[r(w)] = r(parent[w])
        BY <1>13
  <2> QED BY <1>7, <2>1, <2>2, <2>3, <2>4, <2>5
<1>20. Shape(T, root2, kid2, parent2, U2)
  <2>1. ASSUME NEW x \in T
        PROVE  /\ x # root2 => parent2[x] \in T /\ \E s \in Sides : kid2[parent2[x]][s] = x
               /\ U2[x] \subseteq T
    <3>1. PICK z \in S : x = r(z)
          BY <1>9
    <3> QED BY <3>1, <1>18
  <2>2. ASSUME NEW x \in T, NEW s \in Sides
        PROVE  /\ kid2[x][s] \in T \cup {Nil}
               /\ kid2[x][s] # Nil => parent2[kid2[x][s]] = x
               /\ x \notin U2[kid2[x][s]]
               /\ U2[x] = {x} \cup U2[kid2[x][s]] \cup U2[kid2[x][Opposite(s)]]
               /\ U2[kid2[x][s]] \cap U2[kid2[x][Opposite(s)]] = {}
    <3>1. PICK z \in S : x = r(z)
          BY <1>9
    <3> QED BY <3>1, <1>17
  <2>3. ASSUME NEW x \in T, NEW w \in U2[x]
        PROVE  U2[w] \subseteq U2[x] /\ (w # x => parent2[w] \in U2[x])
    <3>1. PICK z \in S : x = r(z)
          BY <1>9
    <3>2. w \in T
          BY <2>1
    <3>3. PICK v \in S : w = r(v)
          BY <1>9, <3>2
    <3> QED BY <3>1, <3>3, <2>3, <1>19
  <2> QED BY <1>15, <2>1, <2>2, <2>3 DEF Shape
<1>21. Ordered(T, kid2, key, U2)
  <2> SUFFICES ASSUME NEW x \in T, NEW s \in Sides, NEW w \in U2[kid2[x][s]]
               PROVE  Before(s, key[w], key[x])
      BY DEF Ordered
  <2>1. PICK z \in S : x = r(z)
        BY <1>9
  <2>2. /\ U2[kid2[x][s]] = R(U[kid[z][s]]) /\ U[kid[z][s]] \in SUBSET S
    <3>1. kid[z][s] \in S \cup {Nil}
          BY <1>4
    <3> QED BY <3>1, <2>1, <1>1, <1>2, <1>11, <1>12
  <2>3. w \in T
        BY <2>2, <1>7
  <2>4. PICK v \in S : w = r(v)
        BY <2>3, <1>9
  <2>5. v \in U[kid[z][s]]
        BY <2>2, <2>4, <1>8
  <2>6. v # z
        BY <2>5, <1>4
  <2>7. CASE z = n
        BY <2>1, <2>4, <2>5, <2>6, <2>7 DEF r
  <2>8. CASE z # n /\ v = n
        BY <2>1, <2>4, <2>5, <2>8 DEF r
  <2>9. CASE z # n /\ v # n
        BY <2>1, <2>4, <2>5, <2>9 DEF r, Ordered
  <2> QED BY <2>7, <2>8, <2>9
<1> QED BY <1>11, <1>20, <1>21 DEF T

-----------------------------------------------------------------------------
(***************************************************************************)
(* Ways through a tree.                                                    *)
(***************************************************************************)

\* As many steps down as there are nodes lead past the last one.
LEMMA Smaller ==
  ASSUME NEW t, NEW S \in SUBSET Nodes, NEW U, TreeOn(t, S, U),
         NEW n \in S
  PROVE  /\ Cardinality(U[n]) \in Nat /\ Cardinality(U[n]) > 0 /\ Cardinality(U[n]) <= MaxNodes
         /\ \A s \in Sides : /\ t.kid[n][s] \in S \cup {Nil}
                             /\ Cardinality(U[t.kid[n][s]]) \in Nat
                             /\ Cardinality(U[t.kid[n][s]]) < Cardinality(U[n])
<1>1. IsFiniteSet(Nodes) /\ Cardinality(Nodes) = MaxNodes
      BY NodesAssumption, FS_Interval DEF Nodes
<1>2. n \in U[n] /\ U[n] \subseteq S
      BY ShapeIs DEF TreeOn
<1>3. /\ IsFiniteSet(U[n]) /\ Cardinality(U[n]) \in Nat /\ Cardinality(U[n]) <= MaxNodes
      /\ Cardinality(U[n]) # 0
      BY <1>1, <1>2, FS_Subset, FS_CardinalityType, FS_EmptySet
<1>4. ASSUME NEW s \in Sides
      PROVE  /\ t.kid[n][s] \in S \cup {Nil}
             /\ Cardinality(U[t.kid[n][s]]) \in Nat
             /\ Cardinality(U[t.kid[n][s]]) < Cardinality(U[n])
  <2>1. /\ t.kid[n][s] \in S \cup {Nil} /\ n \notin U[t.kid[n][s]]
        /\ U[n] = {n} \cup U[t.kid[n][s]] \cup U[t.kid[n][Opposite(s)]]
        BY ShapeIs DEF TreeOn
  <2>2. U[t.kid[n][s]] \subseteq U[n] \ {n}
        BY <2>1
  <2>3. IsFiniteSet(U[n] \ {n}) /\ Cardinality(U[n] \ {n}) = Cardinality(U[n]) - 1
        BY <1>2, <1>3, FS_RemoveElement
  <2>4. /\ Cardinality(U[t.kid[n][s]]) \in Nat
        /\ Cardinality(U[t.kid[n][s]]) <= Cardinality(U[n] \ {n})
        BY <2>2, <2>3, FS_Subset, FS_CardinalityType
  <2> QED BY <1>3, <2>1, <2>3, <2>4
<1> QED BY <1>3, <1>4

LEMMA RootIsNoKid ==
  ASSUME NEW t, NEW S \in SUBSET Nodes, NEW U, TreeOn(t, S, U),
         NEW n \in S, NEW s \in Sides
  PROVE  t.root \notin U[t.kid[n][s]]
<1> SUFFICES ASSUME t.root \in U[t.kid[n][s]] PROVE FALSE
    OBVIOUS
<1>1. t.kid[n][s] \in S \cup {Nil} /\ n \notin U[t.kid[n][s]]
      BY ShapeIs DEF TreeOn
<1>2. U[Nil] = {} /\ U[t.root] = S
      BY ShapeIs DEF TreeOn
<1>3. t.kid[n][s] \in S
      BY <1>1, <1>2
<1>4. t.root \in S
      BY <1>3, ShapeIs DEF TreeOn
<1>5. U[t.root] \subseteq U[t.kid[n][s]]
      BY <1>3, <1>4, ShapeIs DEF TreeOn
<1> QED BY <1>1, <1>2, <1>5

\* The way down to where a key belongs.
LEMMA DescentIs ==
  ASSUME NEW t \in Trees, NEW k \in Int
  PROVE  /\ Descent(t, k)[0] = t.root
         /\ \A i \in Nat :
              Descent(t, k)[i + 1] = IF Toward(t, Descent(t, k)[i], k) = Nil THEN Descent(t, k)[i]
                                     ELSE Toward(t, Descent(t, k)[i], k)
<1> DEFINE next(n) == IF Toward(t, n, k) = Nil THEN n ELSE Toward(t, n, k)
           step == [n \in Places |-> next(n)]
           Is(f) == f = [i \in Nat |-> IF i = 0 THEN t.root ELSE next(f[i - 1])]
<1>1. t.root \in Places /\ step \in [Places -> Places]
      BY TreeFields DEF Toward, Sides
<1> HIDE DEF step
<1>2. PICK g \in [Nat -> Places] : g = [i \in Nat |-> IF i = 0 THEN t.root ELSE step[g[i - 1]]]
      BY <1>1, LoopExists
<1>3. \A i \in Nat : g[i] = IF i = 0 THEN t.root ELSE step[g[i - 1]]
      BY <1>2
<1>4. \A i \in Nat : g[i] = IF i = 0 THEN t.root ELSE next(g[i - 1])
      BY <1>2, <1>3 DEF step
<1> HIDE DEF next
<1>5. Is(g)
      BY <1>2, <1>4
<1>6. Descent(t, k) = CHOOSE f : Is(f)
      BY DEF Descent, next
<1> DEFINE r == Descent(t, k)
<1>7. Is(r)
      BY <1>5, <1>6
<1> HIDE DEF r
<1>8. r[0] = t.root /\ \A i \in Nat : r[i + 1] = next(r[i])
      BY <1>7
<1> QED BY <1>8 DEF r, next

DirectionAt(t, p, k) == IF k < t.key[p] THEN "left" ELSE "right"

LEMMA DescentEnds ==
  ASSUME NEW t \in Trees, NEW S \in SUBSET Nodes, NEW U, TreeOn(t, S, U), t.root # Nil,
         NEW k \in Int
  PROVE  LET p == Descent(t, k)[MaxNodes]
             side == DirectionAt(t, p, k)
         IN /\ p \in S /\ side \in Sides /\ t.kid[p][side] = Nil /\ Before(side, k, t.key[p])
            /\ \A x \in S, s \in Sides : p \in U[t.kid[x][s]] => Before(s, k, t.key[x])
<1> DEFINE p == Descent(t, k)[MaxNodes]
           side == DirectionAt(t, p, k)
<1> DEFINE r == Descent(t, k)
           Over(n) == \A x \in S, s \in Sides : n \in U[t.kid[x][s]] => Before(s, k, t.key[x])
           Deep(n, i) == Toward(t, n, k) = Nil \/ Cardinality(U[n]) + i <= MaxNodes
           Good == {i \in Nat : r[i] \in S /\ Over(r[i]) /\ Deep(r[i], i)}
<1>a. Shape(S, t.root, t.kid, t.parent, U)
      BY DEF TreeOn
<1>0. \A z \in S, q \in Sides : U[t.kid[z][q]] \cap U[t.kid[z][Opposite(q)]] = {}
      BY <1>a DEF Shape
<1>1. t.root \in S /\ U[Nil] = {} /\ Nil \notin S
      BY ShapeIs, NilIsNoNode DEF TreeOn
<1>2. 0 \in Good
  <2>1. r[0] = t.root
        BY DescentIs
  <2>2. Over(t.root)
        BY RootIsNoKid
  <2>3. Cardinality(U[t.root]) \in Nat /\ Cardinality(U[t.root]) <= MaxNodes
        BY <1>1, Smaller
  <2> QED BY <1>1, <2>1, <2>2, <2>3, NodesAssumption
<1>3. ASSUME NEW i \in Nat, i \in Good PROVE i + 1 \in Good
  <2> DEFINE a == r[i]
             d == IF k < t.key[a] THEN "left" ELSE "right"
             c == t.kid[a][d]
  <2>1. a \in S /\ Over(a) /\ Deep(a, i)
        BY <1>3
  <2>2. Toward(t, a, k) = c /\ d \in Sides
        BY DEF Toward, Sides
  <2>3. r[i + 1] = IF c = Nil THEN a ELSE c
        BY <2>2, DescentIs
  <2>4. Before(d, k, t.key[a])
    <3>1. t.key[a] \in Int
          BY <2>1, TreeFields
    <3> QED BY <3>1 DEF Before
  <2> HIDE DEF r
  <2>5. CASE c = Nil
    <3>1. r[i + 1] = a /\ Deep(a, i + 1)
          BY <2>2, <2>3, <2>5
    <3> QED BY <2>1, <3>1
  <2>6. CASE c # Nil
    <3>0. r[i + 1] = c
          BY <2>3, <2>6
    <3>1. c \in S /\ t.parent[c] = a /\ a \notin U[c]
          BY <2>1, <2>2, <2>6, ShapeIs DEF TreeOn
    <3>2. Cardinality(U[c]) + (i + 1) <= MaxNodes
      <4>1. Cardinality(U[a]) + i <= MaxNodes
            BY <2>1, <2>2, <2>6
      <4>2. /\ Cardinality(U[c]) \in Nat /\ Cardinality(U[a]) \in Nat
            /\ Cardinality(U[c]) < Cardinality(U[a])
            BY <2>1, <2>2, Smaller
      <4> QED BY <4>1, <4>2, NodesAssumption
    <3>3. ASSUME NEW x \in S, NEW s \in Sides, c \in U[t.kid[x][s]]
          PROVE  Before(s, k, t.key[x])
      <4>1. t.kid[x][s] \in S /\ (t.parent[t.kid[x][s]] = x)
            BY <3>3, <1>1, ShapeIs DEF TreeOn
      <4>2. CASE t.kid[x][s] = c
        <5>1. x = a
              BY <4>1, <4>2, <3>1, SMTT(30)
        <5>2. s = d
          <6>1. s = d \/ s = Opposite(d)
                BY <2>2, SidesAre, SMTT(30)
          <6>2. U[t.kid[a][d]] \cap U[t.kid[a][Opposite(d)]] = {}
                BY <2>1, <2>2, <1>0, SMTT(30)
          <6>3. c \in U[c]
                BY <3>1, ShapeIs DEF TreeOn
          <6> QED BY <6>1, <6>2, <6>3, <4>2, <5>1
        <5> QED BY <5>1, <5>2, <2>4
      <4>3. CASE t.kid[x][s] # c
        <5>1. a \in U[t.kid[x][s]]
              BY <3>1, <3>3, <4>1, <4>3, ShapeIs, SMTT(30) DEF TreeOn
        <5> QED BY <5>1, <2>1, SMTT(30)
      <4> QED BY <4>2, <4>3
    <3>4. Over(c) /\ Deep(c, i + 1)
          BY <3>2, <3>3
    <3> HIDE DEF Over, Deep, c
    <3> QED BY <3>0, <3>1, <3>4
  <2> QED BY <2>5, <2>6
<1> HIDE DEF Good
<1>4. Nat \subseteq Good
      BY <1>2, <1>3, Induction
<1>5. MaxNodes \in Good
      BY <1>4, NodesAssumption
<1>6. p \in S /\ Over(p) /\ Deep(p, MaxNodes)
      BY <1>5 DEF Good
<1> HIDE DEF p
<1>7. side \in Sides /\ Toward(t, p, k) = t.kid[p][side]
      BY DEF Toward, Sides, DirectionAt
<1>8. t.kid[p][side] = Nil
  <2>1. Cardinality(U[p]) \in Nat /\ Cardinality(U[p]) > 0
        BY <1>6, Smaller
  <2> QED BY <1>6, <1>7, <2>1, NodesAssumption
<1>9. Before(side, k, t.key[p])
  <2>1. t.key[p] \in Int
        BY <1>6, TreeFields
  <2> QED BY <2>1 DEF Before, DirectionAt
<1> QED BY <1>6, <1>7, <1>8, <1>9 DEF p

\* A search.
LEMMA SearchIs ==
  ASSUME NEW t \in Trees, NEW k \in Int
  PROVE  /\ Search(t, k)[0] = t.root
         /\ \A i \in Nat :
              Search(t, k)[i + 1] = IF Search(t, k)[i] = Nil \/ t.key[Search(t, k)[i]] = k
                                    THEN Search(t, k)[i] ELSE Toward(t, Search(t, k)[i], k)
<1> DEFINE next(n) == IF n = Nil \/ t.key[n] = k THEN n ELSE Toward(t, n, k)
           step == [n \in Places |-> next(n)]
           Is(f) == f = [i \in Nat |-> IF i = 0 THEN t.root ELSE next(f[i - 1])]
<1>1. t.root \in Places /\ step \in [Places -> Places]
      BY TreeFields DEF Toward, Sides
<1>0. \A n \in Places : step[n] = next(n)
      OBVIOUS
<1> HIDE DEF step, next
<1>2. PICK g \in [Nat -> Places] : g = [i \in Nat |-> IF i = 0 THEN t.root ELSE step[g[i - 1]]]
      BY <1>1, LoopExists
<1>3. \A i \in Nat : g[i] = IF i = 0 THEN t.root ELSE step[g[i - 1]]
      BY <1>2
<1>4. \A i \in Nat : g[i] = IF i = 0 THEN t.root ELSE next(g[i - 1])
      BY <1>0, <1>2, <1>3
<1>5. Is(g)
      BY <1>2, <1>4
<1>6. Search(t, k) = CHOOSE f : Is(f)
      BY DEF Search, next
<1> DEFINE r == Search(t, k)
<1>7. Is(r)
      BY <1>5, <1>6
<1> HIDE DEF r
<1>8. r[0] = t.root /\ \A i \in Nat : r[i + 1] = next(r[i])
      BY <1>7
<1> QED BY <1>8 DEF r, next

\* A search finds a node with the key when there is one.
LEMMA TreeFindIs ==
  ASSUME NEW t \in Trees, NEW S \in SUBSET Nodes, NEW U, TreeOn(t, S, U), NEW k \in Int
  PROVE  /\ TreeFind(t, k) = Nil => \A x \in S : t.key[x] # k
         /\ TreeFind(t, k) # Nil => TreeFind(t, k) \in S /\ t.key[TreeFind(t, k)] = k
<1> DEFINE r == Search(t, k)
           All(n) == \A x \in S : t.key[x] = k => x \in U[n]
           Deep(n, i) == n = Nil \/ t.key[n] = k \/ Cardinality(U[n]) + i <= MaxNodes
           Good == {i \in Nat : r[i] \in S \cup {Nil} /\ ((r[i] # Nil /\ t.key[r[i]] = k) \/ All(r[i])) /\ Deep(r[i], i)}
<1>1. t.root \in S \cup {Nil} /\ U[t.root] = S /\ U[Nil] = {} /\ Nil \notin S
      BY ShapeIs, NilIsNoNode DEF TreeOn
<1>2. 0 \in Good
  <2>1. r[0] = t.root
        BY SearchIs
  <2>2. t.root \in S => Cardinality(U[t.root]) \in Nat /\ Cardinality(U[t.root]) <= MaxNodes
        BY Smaller
  <2>3. Deep(t.root, 0)
        BY <1>1, <2>2, NodesAssumption
  <2> QED BY <1>1, <2>1, <2>3
<1>3. ASSUME NEW i \in Nat, i \in Good PROVE i + 1 \in Good
  <2> DEFINE a == r[i]
             d == IF k < t.key[a] THEN "left" ELSE "right"
             c == t.kid[a][d]
  <2>1. a \in S \cup {Nil} /\ ((a # Nil /\ t.key[a] = k) \/ All(a)) /\ Deep(a, i)
        BY <1>3
  <2>2. Toward(t, a, k) = c /\ d \in Sides
        BY DEF Toward, Sides
  <2>3. r[i + 1] = IF a = Nil \/ t.key[a] = k THEN a ELSE c
        BY <2>2, SearchIs
  <2> HIDE DEF r
  <2>4. CASE a = Nil \/ t.key[a] = k
    <3>1. r[i + 1] = a /\ Deep(a, i + 1)
          BY <2>3, <2>4
    <3> QED BY <2>1, <3>1
  <2>5. CASE ~(a = Nil \/ t.key[a] = k)
    <3>0. r[i + 1] = c /\ a \in S
          BY <2>1, <2>3, <2>5
    <3>1. c \in S \cup {Nil}
          BY <3>0, <2>2, ShapeIs DEF TreeOn
    <3>2. Deep(c, i + 1)
      <4>1. Cardinality(U[a]) + i <= MaxNodes
            BY <2>1, <2>5
      <4>2. /\ Cardinality(U[c]) \in Nat /\ Cardinality(U[a]) \in Nat
            /\ Cardinality(U[c]) < Cardinality(U[a])
            BY <3>0, <2>2, Smaller
      <4> QED BY <4>1, <4>2, NodesAssumption
    <3>3. ASSUME NEW x \in S, t.key[x] = k
          PROVE  x \in U[c]
      <4>1. x \in U[a] /\ x # a
            BY <3>3, <2>1, <2>5, SMTT(30)
      <4>2. U[a] = {a} \cup U[c] \cup U[t.kid[a][Opposite(d)]]
            BY <3>0, <2>2, ShapeIs DEF TreeOn
      <4>3. x \notin U[t.kid[a][Opposite(d)]]
        <5> SUFFICES ASSUME x \in U[t.kid[a][Opposite(d)]] PROVE FALSE
            OBVIOUS
        <5>1. Opposite(d) \in Sides
              BY <2>2, SidesAre
        <5>2. Before(Opposite(d), k, t.key[a])
              BY <5>1, <3>0, <3>3 DEF TreeOn, Ordered
        <5>3. t.key[a] \in Int /\ t.key[a] # k
              BY <3>0, <2>5, TreeFields
        <5> QED BY <5>2, <5>3 DEF Before, Opposite
      <4> QED BY <4>1, <4>2, <4>3, Zenon
    <3>4. All(c)
          BY <3>3
    <3> HIDE DEF All, Deep, c
    <3> QED BY <3>0, <3>1, <3>2, <3>4
  <2> QED BY <2>4, <2>5
<1> HIDE DEF Good
<1>4. Nat \subseteq Good
      BY <1>2, <1>3, Induction
<1>5. MaxNodes \in Good
      BY <1>4, NodesAssumption
<1> DEFINE n == TreeFind(t, k)
<1>6. n = r[MaxNodes]
      BY DEF TreeFind
<1>7. n \in S \cup {Nil} /\ ((n # Nil /\ t.key[n] = k) \/ All(n)) /\ Deep(n, MaxNodes)
      BY <1>5, <1>6 DEF Good
<1> HIDE DEF n
<1>8. n = Nil \/ t.key[n] = k
  <2>1. n # Nil => Cardinality(U[n]) \in Nat /\ Cardinality(U[n]) > 0
        BY <1>7, Smaller
  <2> QED BY <1>7, <2>1, NodesAssumption
<1>9. n = Nil => \A x \in S : t.key[x] # k
      BY <1>1, <1>7
<1> QED BY <1>7, <1>8, <1>9 DEF n

\* The least node under another.
LEMMA OutwardIs ==
  ASSUME NEW t \in Trees, NEW n \in Places, NEW side \in Sides
  PROVE  /\ Outward(t, n, side)[0] = n
         /\ \A i \in Nat :
              Outward(t, n, side)[i + 1] = IF t.kid[Outward(t, n, side)[i]][side] = Nil
                                           THEN Outward(t, n, side)[i]
                                           ELSE t.kid[Outward(t, n, side)[i]][side]
<1> DEFINE next(m) == IF t.kid[m][side] = Nil THEN m ELSE t.kid[m][side]
           step == [m \in Places |-> next(m)]
           Is(f) == f = [i \in Nat |-> IF i = 0 THEN n ELSE next(f[i - 1])]
<1>0. \A m \in Places : step[m] = next(m)
      OBVIOUS
<1>1. step \in [Places -> Places]
      BY TreeFields
<1> HIDE DEF step, next
<1>2. PICK g \in [Nat -> Places] : g = [i \in Nat |-> IF i = 0 THEN n ELSE step[g[i - 1]]]
      BY <1>1, LoopExists
<1>3. \A i \in Nat : g[i] = IF i = 0 THEN n ELSE step[g[i - 1]]
      BY <1>2
<1>4. \A i \in Nat : g[i] = IF i = 0 THEN n ELSE next(g[i - 1])
      BY <1>0, <1>2, <1>3
<1>5. Is(g)
      BY <1>2, <1>4
<1>6. Outward(t, n, side) = CHOOSE f : Is(f)
      BY DEF Outward, next
<1> DEFINE r == Outward(t, n, side)
<1>7. Is(r)
      BY <1>5, <1>6
<1> HIDE DEF r
<1>8. r[0] = n /\ \A i \in Nat : r[i + 1] = next(r[i])
      BY <1>7
<1> QED BY <1>8 DEF r, next

LEMMA MinimumIs ==
  ASSUME NEW t \in Trees, NEW S \in SUBSET Nodes, NEW U, TreeOn(t, S, U), NEW n \in S,
         NEW y, y = Minimum(t, n)
  PROVE  /\ y \in U[n] /\ y \in S /\ t.kid[y]["left"] = Nil
         /\ \A x \in U[n] : t.key[y] <= t.key[x]
<1> DEFINE r == Outward(t, n, "left")
           Least(a) == \A x \in U[n] \ U[a] : \A w \in U[a] : t.key[w] <= t.key[x]
           Deep(a, i) == t.kid[a]["left"] = Nil \/ Cardinality(U[a]) + i <= MaxNodes
           Good == {i \in Nat : r[i] \in U[n] /\ Least(r[i]) /\ Deep(r[i], i)}
<1>0. /\ "left" \in Sides /\ "right" \in Sides /\ Opposite("left") = "right"
      /\ n \in Places
      BY NilIsNoNode DEF Sides, Opposite
<1>1. /\ \A a \in S : a \in U[a] /\ U[a] \subseteq S
      /\ \A a, x : a \in S /\ x \in U[a] => x \in S
      /\ \A a, x \in S : x \in U[a] => U[x] \subseteq U[a]
      BY ShapeIs DEF TreeOn
<1>2. \A a \in S : /\ t.kid[a]["left"] \in S \cup {Nil} /\ t.kid[a]["right"] \in S \cup {Nil}
                   /\ U[a] = {a} \cup U[t.kid[a]["left"]] \cup U[t.kid[a]["right"]]
  <2>1. \A a \in S, s \in Sides :
          /\ t.kid[a][s] \in S \cup {Nil}
          /\ U[a] = {a} \cup U[t.kid[a][s]] \cup U[t.kid[a][Opposite(s)]]
        BY ShapeIs DEF TreeOn
  <2> QED BY <1>0, <2>1
<1>3. \A a \in S : /\ \A x \in U[t.kid[a]["left"]] : t.key[x] <= t.key[a]
                   /\ \A x \in U[t.kid[a]["right"]] : t.key[a] <= t.key[x]
  <2>1. \A a \in S, s \in Sides : \A x \in U[t.kid[a][s]] : Before(s, t.key[x], t.key[a])
        BY DEF TreeOn, Ordered
  <2> QED BY <1>0, <2>1 DEF Before
<1>4. \A a \in S : t.key[a] \in Int
      BY TreeFields
<1>5. U[Nil] = {} /\ Nil \notin S
      BY ShapeIs, NilIsNoNode DEF TreeOn
<1>6. \A a \in S : /\ Cardinality(U[a]) \in Nat /\ Cardinality(U[a]) > 0
                   /\ Cardinality(U[a]) <= MaxNodes
                   /\ Cardinality(U[t.kid[a]["left"]]) \in Nat
                   /\ Cardinality(U[t.kid[a]["left"]]) < Cardinality(U[a])
      BY <1>0, Smaller
<1>7. r[0] = n /\ \A i \in Nat : r[i + 1] = IF t.kid[r[i]]["left"] = Nil THEN r[i] ELSE t.kid[r[i]]["left"]
      BY <1>0, OutwardIs
<1>8. 0 \in Good
  <2>1. Deep(n, 0)
        BY <1>6
  <2> QED BY <1>1, <1>7, <2>1
<1> HIDE DEF r
<1>9. ASSUME NEW i \in Nat, i \in Good PROVE i + 1 \in Good
  <2> DEFINE a == r[i]
             c == t.kid[a]["left"]
             b == t.kid[a]["right"]
  <2>1. a \in U[n] /\ Least(a) /\ Deep(a, i) /\ a \in S
        BY <1>1, <1>9
  <2>2. r[i + 1] = IF c = Nil THEN a ELSE c
        BY <1>7
  <2>3. CASE c = Nil
    <3>1. r[i + 1] = a /\ Deep(a, i + 1)
          BY <2>2, <2>3
    <3> HIDE DEF a, Least, Deep
    <3> QED BY <2>1, <3>1
  <2>4. CASE c # Nil
    <3>1. c \in S /\ r[i + 1] = c
          BY <1>2, <2>1, <2>2, <2>4
    <3>2. /\ Cardinality(U[a]) + i <= MaxNodes
          /\ Cardinality(U[a]) \in Nat /\ Cardinality(U[c]) \in Nat
          /\ Cardinality(U[c]) < Cardinality(U[a])
          BY <1>6, <2>1, <2>4
    <3>3. Deep(c, i + 1)
          BY <3>2, NodesAssumption
    <3>4. U[a] = {a} \cup U[c] \cup U[b] /\ U[a] \subseteq U[n]
          BY <1>1, <1>2, <2>1
    <3>5. c \in U[n]
          BY <1>1, <3>1, <3>4
    <3>6. ASSUME NEW x \in U[n] \ U[c], NEW w \in U[c]
          PROVE  t.key[w] <= t.key[x]
      <4>1. t.key[w] <= t.key[a]
            BY <1>3, <2>1
      <4>2. w \in S /\ x \in S
            BY <1>1, <3>1, SMTT(30)
      <4>3. x \notin U[a] => t.key[w] <= t.key[x]
            BY <2>1, <3>4, SMTT(30)
      <4>4. x \in U[a] => t.key[a] <= t.key[x]
            BY <1>3, <1>4, <2>1, <3>4
      <4>5. t.key[w] \in Int /\ t.key[x] \in Int /\ t.key[a] \in Int
            BY <1>4, <2>1, <4>2
      <4> QED BY <4>1, <4>3, <4>4, <4>5
    <3>7. Least(c)
          BY <3>6
    <3> HIDE DEF c, Least, Deep
    <3> QED BY <3>1, <3>3, <3>5, <3>7
  <2> QED BY <2>3, <2>4
<1> HIDE DEF Good
<1>10. Nat \subseteq Good
       BY <1>8, <1>9, Induction
<1>11. MaxNodes \in Good /\ y = r[MaxNodes]
       BY <1>10, NodesAssumption DEF Minimum, r
<1>12. y \in U[n] /\ y \in S /\ Least(y) /\ Deep(y, MaxNodes)
       BY <1>1, <1>11 DEF Good
<1>13. t.kid[y]["left"] = Nil
       BY <1>6, <1>12, NodesAssumption
<1>14. ASSUME NEW x \in U[n] PROVE t.key[y] <= t.key[x]
  <2>1. x \in U[y] => x = y \/ x \in U[t.kid[y]["right"]]
        BY <1>2, <1>5, <1>12, <1>13
  <2> QED BY <2>1, <1>1, <1>3, <1>4, <1>12
<1> QED BY <1>12, <1>13, <1>14

\* What is under a node.
LEMMA ReachedIs ==
  ASSUME NEW t \in Trees, NEW n \in Places
  PROVE  \E r :
           /\ r[0] = {n} \ {Nil} /\ Under(t, n) = r[MaxNodes]
           /\ \A i \in Nat : r[i + 1] = r[i] \cup ({t.kid[m][s] : m \in r[i], s \in Sides} \ {Nil})
<1> DEFINE start == {n} \ {Nil}
           next(set) == set \cup ({t.kid[m][s] : m \in set, s \in Sides} \ {Nil})
           step == [set \in SUBSET Places |-> next(set)]
           Is(f) == f = [i \in Nat |-> IF i = 0 THEN start ELSE next(f[i - 1])]
           C == CHOOSE f : Is(f)
           Sets == SUBSET Places
<1>0. \A set \in SUBSET Places : step[set] = next(set)
      OBVIOUS
<1>1. start \in Sets /\ step \in [Sets -> Sets]
  <2>1. ASSUME NEW set \in SUBSET Places PROVE next(set) \in SUBSET Places
    <3>1. {t.kid[m][s] : m \in set, s \in Sides} \subseteq Places
          BY TreeFields
    <3> QED BY <3>1
  <2> HIDE DEF next
  <2> QED BY <2>1
<1>6. Under(t, n) = C[MaxNodes]
      BY DEF Under
<1>7. \A set \in SUBSET Places : next(set) = set \cup ({t.kid[m][s] : m \in set, s \in Sides} \ {Nil})
      OBVIOUS
<1> HIDE DEF step, next, start, Sets
<1>2. PICK g \in [Nat -> Sets] : g = [i \in Nat |-> IF i = 0 THEN start ELSE step[g[i - 1]]]
      BY <1>1, LoopExists
<1>3. \A i \in Nat : g[i] = IF i = 0 THEN start ELSE step[g[i - 1]]
      BY <1>2
<1>4. \A i \in Nat : g[i] = IF i = 0 THEN start ELSE next(g[i - 1])
      BY <1>0, <1>2, <1>3 DEF Sets
<1>5. Is(g)
      BY <1>2, <1>4
<1>8. Is(C)
      BY <1>5
<1> HIDE DEF C
<1>9. C[0] = start /\ \A i \in Nat : C[i + 1] = next(C[i])
      BY <1>8
<1>10. /\ C[0] = {n} \ {Nil} /\ Under(t, n) = C[MaxNodes]
       /\ \A i \in Nat : C[i + 1] = C[i] \cup ({t.kid[m][s] : m \in C[i], s \in Sides} \ {Nil})
       BY <1>6, <1>9 DEF start, next
<1> QED BY <1>10

\* A set that holds n and the children of its members holds all that is under n.
LEMMA ClosedIsAll ==
  ASSUME NEW t, NEW S \in SUBSET Nodes, NEW U, TreeOn(t, S, U), NEW n \in S,
         NEW R, R \subseteq U[n], n \in R,
         \A m \in R, s \in Sides : t.kid[m][s] \in R \cup {Nil}
  PROVE  R = U[n]
<1> SUFFICES ASSUME U[n] \ R # {} PROVE FALSE
    OBVIOUS
<1> DEFINE Good == {i \in Nat : \E x \in U[n] \ R : Cardinality(U[x]) >= i}
<1>1. \A x \in S : Cardinality(U[x]) \in Nat /\ Cardinality(U[x]) <= MaxNodes
      BY Smaller
<1>2. U[n] \subseteq S /\ t.root \in S \cup {Nil} /\ U[t.root] = S /\ U[Nil] = {} /\ t.parent[t.root] = Nil
      BY ShapeIs DEF TreeOn
<1>3. Nil \notin S
      BY NilIsNoNode
<1>4. 0 \in Good
      BY <1>1, <1>2
<1>5. ASSUME NEW i \in Nat, i \in Good PROVE i + 1 \in Good
  <2>1. PICK x \in U[n] \ R : Cardinality(U[x]) >= i
        BY <1>5
  <2>2. x \in S /\ x # n
        BY <2>1, <1>2
  <2>3. t.parent[x] \in U[n]
        BY <2>1, <2>2, ShapeIs DEF TreeOn
  <2>4. t.parent[x] \in S /\ x # t.root
        BY <2>3, <1>2, <1>3
  <2>5. PICK s \in Sides : t.kid[t.parent[x]][s] = x
        BY <2>2, <2>4, ShapeIs DEF TreeOn
  <2>6. t.parent[x] \notin R
        BY <2>1, <2>2, <2>5, <1>3
  <2>7. Cardinality(U[x]) < Cardinality(U[t.parent[x]])
        BY <2>4, <2>5, Smaller
  <2>8. Cardinality(U[t.parent[x]]) >= i + 1
        BY <2>1, <2>2, <2>4, <2>7, <1>1
  <2> QED BY <2>3, <2>6, <2>8
<1> HIDE DEF Good
<1>6. Nat \subseteq Good
      BY <1>4, <1>5, Induction
<1>7. MaxNodes + 1 \in Good
      BY <1>6, NodesAssumption
<1> QED BY <1>1, <1>2, <1>7, NodesAssumption DEF Good

LEMMA UnderIs ==
  ASSUME NEW t \in Trees, NEW S \in SUBSET Nodes, NEW U, TreeOn(t, S, U), NEW n \in S \cup {Nil}
  PROVE  Under(t, n) = U[n]
<1>0. n \in Places /\ Nil \notin S
      BY NilIsNoNode
<1>1. PICK r :
        /\ r[0] = {n} \ {Nil} /\ Under(t, n) = r[MaxNodes]
        /\ \A i \in Nat : r[i + 1] = r[i] \cup ({t.kid[m][s] : m \in r[i], s \in Sides} \ {Nil})
      BY <1>0, ReachedIs
<1>2. MaxNodes \in Nat
      BY NodesAssumption
<1>3. /\ U[Nil] = {} /\ \A a, m : a \in S /\ m \in U[a] => m \in S
      /\ \A a \in S : a \in U[a] /\ U[a] \subseteq S
      BY ShapeIs DEF TreeOn
<1>4. CASE n = Nil
  <2> DEFINE Good == {i \in Nat : r[i] = {}}
  <2>1. 0 \in Good
        BY <1>1, <1>4
  <2>3. ASSUME NEW i \in Nat, r[i] = {} PROVE r[i + 1] = {}
    <3>1. r[i + 1] = r[i] \cup ({t.kid[m][s] : m \in r[i], s \in Sides} \ {Nil})
          BY <1>1
    <3>2. {t.kid[m][s] : m \in r[i], s \in Sides} = {}
          BY <2>3
    <3> QED BY <2>3, <3>1, <3>2
  <2>4. \A i \in Nat : i \in Good => i + 1 \in Good
        BY <2>3
  <2> HIDE DEF Good
  <2>2. Nat \subseteq Good
        BY <2>1, <2>4, Induction
  <2> QED BY <1>1, <1>2, <1>3, <1>4, <2>2 DEF Good
<1>5. CASE n \in S
  <2>0. ASSUME NEW m \in U[n], NEW s \in Sides PROVE t.kid[m][s] \in U[n] \cup {Nil}
    <3>1. m \in S /\ U[m] \subseteq U[n]
          BY <1>5, <1>3, ShapeIs DEF TreeOn
    <3>2. t.kid[m][s] \in S \cup {Nil} /\ U[t.kid[m][s]] \subseteq U[m]
          BY <3>1, ShapeIs DEF TreeOn
    <3> QED BY <3>1, <3>2, <1>3
  <2> DEFINE Part == {i \in Nat : r[i] \subseteq U[n] /\ n \in r[i]}
  <2>1. 0 \in Part
        BY <1>0, <1>1, <1>3, <1>5
  <2>2. \A i \in Nat : i \in Part => i + 1 \in Part
        BY <1>1, <2>0
  <2> HIDE DEF Part
  <2>3. Nat \subseteq Part
        BY <2>1, <2>2, Induction
  <2>4. \A i \in Nat : r[i] \subseteq U[n] /\ n \in r[i]
        BY <2>3 DEF Part
  <2>5. IsFiniteSet(U[n]) /\ Cardinality(U[n]) \in Nat /\ Cardinality(U[n]) <= MaxNodes
    <3>1. IsFiniteSet(Nodes)
          BY NodesAssumption, FS_Interval DEF Nodes
    <3> QED BY <3>1, <1>3, <1>5, FS_Subset, Smaller
  <2>6. \A i \in Nat : IsFiniteSet(r[i]) /\ Cardinality(r[i]) \in Nat
        BY <2>4, <2>5, FS_Subset, FS_CardinalityType
  <2> DEFINE Good == {i \in Nat : r[i] = U[n] \/ Cardinality(r[i]) > i}
  <2>7. 0 \in Good
    <3>1. Cardinality(r[0]) # 0
          BY <2>4, <2>6, FS_EmptySet
    <3> QED BY <3>1, <2>6
  <2>8. ASSUME NEW i \in Nat, i \in Good PROVE i + 1 \in Good
    <3>1. r[i] \subseteq r[i + 1] /\ r[i + 1] \subseteq U[n]
          BY <1>1, <2>4
    <3>2. CASE r[i] = U[n]
          BY <3>1, <3>2
    <3>3. CASE r[i] # U[n]
      <4>1. PICK m \in r[i], s \in Sides : t.kid[m][s] \notin r[i] \cup {Nil}
            BY <3>3, <2>4, <1>5, ClosedIsAll
      <4>2. t.kid[m][s] \in r[i + 1]
            BY <4>1, <1>1
      <4>3. r[i] # r[i + 1]
            BY <4>1, <4>2
      <4>4. Cardinality(r[i]) < Cardinality(r[i + 1])
            BY <3>1, <4>3, <2>6, FS_Subset
      <4> QED BY <4>4, <3>3, <2>6, <2>8
    <3> QED BY <3>2, <3>3
  <2> HIDE DEF Good
  <2>9. Nat \subseteq Good
        BY <2>7, <2>8, Induction
  <2>10. r[MaxNodes] = U[n] \/ Cardinality(r[MaxNodes]) > MaxNodes
         BY <2>9, <1>2 DEF Good
  <2>11. Cardinality(r[MaxNodes]) <= Cardinality(U[n])
         BY <2>4, <2>5, <1>2, FS_Subset
  <2> QED BY <1>1, <1>2, <2>5, <2>6, <2>10, <2>11
<1> QED BY <1>4, <1>5

\* Such a tree is linked and sorted.
LEMMA TreeOnIsLinked ==
  ASSUME NEW t \in Trees, NEW U, TreeOn(t, t.used, U)
  PROVE  Linked(t)
<1>1. t.used \in SUBSET Nodes
      BY TreeFields
<1>2. /\ t.root \in t.used \cup {Nil} /\ U[t.root] = t.used
      /\ t.kid[Nil] = NoKids /\ t.parent[Nil] = Nil
      BY <1>1, ShapeIs DEF TreeOn
<1>3. Under(t, t.root) = t.used
      BY <1>1, <1>2, UnderIs
<1>4. ASSUME NEW n \in t.used
      PROVE  IF t.parent[n] = Nil THEN n = t.root ELSE \E s \in Sides : t.kid[t.parent[n]][s] = n
  <2>1. n # t.root => t.parent[n] \in t.used /\ \E s \in Sides : t.kid[t.parent[n]][s] = n
        BY <1>1, ShapeIs DEF TreeOn
  <2>2. t.parent[t.root] = Nil
        BY <1>1, ShapeIs DEF TreeOn
  <2> QED BY <2>1, <2>2, <1>1, NilIsNoNode
<1> QED BY <1>2, <1>3, <1>4 DEF Linked

LEMMA TreeOnIsSorted ==
  ASSUME NEW t \in Trees, NEW U, TreeOn(t, t.used, U)
  PROVE  Sorted(t)
<1>1. t.used \in SUBSET Nodes
      BY TreeFields
<1>2. ASSUME NEW n \in t.used, NEW s \in Sides, NEW m \in Under(t, t.kid[n][s])
      PROVE  Before(s, t.key[m], t.key[n])
  <2>1. t.kid[n][s] \in t.used \cup {Nil}
        BY <1>1, ShapeIs DEF TreeOn
  <2>2. m \in U[t.kid[n][s]]
        BY <1>1, <2>1, UnderIs
  <2> QED BY <2>2 DEF TreeOn, Ordered
<1>3. "left" \in Sides /\ "right" \in Sides
      BY DEF Sides
<1>4. ASSUME NEW n \in t.used
      PROVE  /\ \A m \in Under(t, t.kid[n]["left"]) : t.key[m] <= t.key[n]
             /\ \A m \in Under(t, t.kid[n]["right"]) : t.key[n] <= t.key[m]
      BY <1>2, <1>3 DEF Before
<1>5. \A n \in t.used : t.key[n] \in Int
      BY <1>1, TreeFields
<1>6. ASSUME NEW n \in t.used, NEW m \in Under(t, t.kid[n]["right"])
      PROVE  t.key[m] \in Int
  <2>1. t.kid[n]["right"] \in t.used \cup {Nil} /\ U[Nil] = {}
        BY <1>1, <1>3, ShapeIs DEF TreeOn
  <2>2. m \in U[t.kid[n]["right"]]
        BY <1>1, <2>1, UnderIs
  <2>3. m \in t.used
        BY <1>1, <2>1, <2>2, ShapeIs DEF TreeOn
  <2> QED BY <2>3, <1>5
<1> QED BY <1>4, <1>5, <1>6 DEF Sorted

-----------------------------------------------------------------------------
(***************************************************************************)
(* Insertion.                                                              *)
(***************************************************************************)

IsTree(t, S) == \E U \in Unders : TreeOn(t, S, U)

\* t2 has the nodes of t, linked into a tree of S.
Kept(t, t2, S) == t2 \in Trees /\ SameNodes(t, t2) /\ IsTree(t2, S)

LEMMA KeptOn ==
  ASSUME NEW t, NEW t2, NEW t3, NEW S, Kept(t, t2, S), Kept(t2, t3, S)
  PROVE  Kept(t, t3, S)
BY DEF Kept, SameNodes

LEMMA ColorsKeep ==
  ASSUME NEW t \in Trees, NEW S, IsTree(t, S), NEW R \in SUBSET Places
  PROVE  Kept(t, [t EXCEPT !.red = R], S)
<1> DEFINE t2 == [t EXCEPT !.red = R]
<1>1. t2 \in Trees /\ SameNodes(t, t2) /\ SameLinks(t, t2)
      BY WithRed
<1> HIDE DEF t2
<1>2. IsTree(t2, S)
      BY <1>1, PaintShapes DEF IsTree
<1> QED BY <1>1, <1>2 DEF Kept, t2

LEMMA PaintKeeps ==
  ASSUME NEW t \in Trees, NEW S, IsTree(t, S), NEW n \in Places, NEW color
  PROVE  Kept(t, Paint(t, n, color), S)
<1> DEFINE t2 == Paint(t, n, color)
<1>1. t2 \in Trees /\ SameNodes(t, t2) /\ SameLinks(t, t2)
      BY PaintIs
<1> HIDE DEF t2
<1>2. IsTree(t2, S)
      BY <1>1, PaintShapes DEF IsTree
<1> QED BY <1>1, <1>2 DEF Kept, t2

LEMMA LiftKeepsTree ==
  ASSUME NEW t \in Trees, NEW S \in SUBSET Nodes, IsTree(t, S), NEW n \in S,
         NEW side \in Sides, t.kid[n][side] # Nil
  PROVE  Kept(t, Lift(t, n, side), S)
<1>1. Lift(t, n, side) \in Trees /\ SameNodes(t, Lift(t, n, side))
      BY NilIsNoNode, LiftKeeps
<1>2. PICK U \in Unders : TreeOn(t, S, U)
      BY DEF IsTree
<1>3. IsTree(Lift(t, n, side), S)
      BY <1>2, LiftShapes DEF IsTree
<1> QED BY <1>1, <1>3 DEF Kept

LEMMA LiftIfAnyKeeps ==
  ASSUME NEW t \in Trees, NEW S \in SUBSET Nodes, IsTree(t, S), NEW n \in S \cup {Nil},
         NEW side \in Sides
  PROVE  Kept(t, LiftIfAny(t, n, side), S)
<1>1. t.kid[Nil] = NoKids
      BY ShapeIs DEF IsTree, TreeOn
<1>2. CASE t.kid[n][side] = Nil
      BY <1>2 DEF LiftIfAny, Kept, SameNodes
<1>3. CASE t.kid[n][side] # Nil
      BY <1>1, <1>3, LiftKeepsTree DEF LiftIfAny, NoKids
<1> QED BY <1>2, <1>3

LEMMA ParentIs ==
  ASSUME NEW t, NEW S \in SUBSET Nodes, IsTree(t, S)
  PROVE  /\ \A n \in S \cup {Nil} : t.parent[n] \in S \cup {Nil}
         /\ \A n \in S \cup {Nil} : \A s \in Sides : t.kid[n][s] \in S \cup {Nil}
         /\ t.root \in S \cup {Nil} /\ t.kid[Nil] = NoKids /\ t.parent[Nil] = Nil
<1>1. PICK U \in Unders : Shape(S, t.root, t.kid, t.parent, U)
      BY DEF IsTree, TreeOn
<1>2. /\ t.root \in S \cup {Nil} /\ t.kid[Nil] = NoKids /\ t.parent[Nil] = Nil
      /\ t.parent[t.root] = Nil
      BY <1>1, ShapeIs
<1>3. \A n \in S : n # t.root => t.parent[n] \in S
      BY <1>1, ShapeIs
<1>4. \A n \in S, s \in Sides : t.kid[n][s] \in S \cup {Nil}
      BY <1>1, ShapeIs
<1> QED BY <1>2, <1>3, <1>4 DEF NoKids

\* Where the loop of an insertion may be: at any node of the same tree.
Turned(t, S) ==
  {s \in [tree : Trees, node : S \cup {Nil}] : Kept(t, s.tree, S)}

LEMMA InsertTurnKeeps ==
  ASSUME NEW t, NEW S \in SUBSET Nodes, NEW s \in Turned(t, S)
  PROVE  InsertTurn(s) \in Turned(t, S)
<1> DEFINE u == s.tree
           n == s.node
           p == u.parent[n]
           g == u.parent[p]
           side == IF p = u.kid[g]["left"] THEN "left" ELSE "right"
           uncle == u.kid[g][Opposite(side)]
           inner == n = u.kid[p][Opposite(side)]
           turned == IF inner THEN LiftIfAny(u, p, Opposite(side)) ELSE u
           red2 == [u EXCEPT !.red = (@ \ {p, uncle}) \cup {g}]
           red3 == [turned EXCEPT !.red = (@ \ {p}) \cup {g}]
           last == LiftIfAny(red3, g, side)
           m == IF inner THEN p ELSE n
<1>1. InsertTurn(s) = IF n = u.root \/ p = Nil \/ Black(u, p) THEN s
                      ELSE IF uncle # Nil /\ ~Black(u, uncle)
                      THEN [tree |-> red2, node |-> g]
                      ELSE [tree |-> last, node |-> m]
      BY DEF InsertTurn
<1>2. u \in Trees /\ n \in S \cup {Nil} /\ Kept(t, u, S) /\ IsTree(u, S)
      BY DEF Turned, Kept
<1> HIDE DEF u, n
<1>3. p \in S \cup {Nil} /\ side \in Sides /\ Opposite(side) \in Sides
      BY <1>2, ParentIs, SidesAre DEF Sides
<1> HIDE DEF p
<1>4. g \in S \cup {Nil}
      BY <1>2, <1>3, ParentIs
<1> HIDE DEF g, side
<1>5. S \cup {Nil} \subseteq Places /\ u.red \in SUBSET Places
      BY <1>2, TreeFields, NilIsNoNode
<1>6. Kept(u, red2, S)
      BY <1>2, <1>4, <1>5, ColorsKeep
<1>7. Kept(u, turned, S)
  <2>1. Kept(u, u, S)
        BY <1>2 DEF Kept, SameNodes
  <2> QED BY <2>1, <1>2, <1>3, LiftIfAnyKeeps
<1> HIDE DEF turned, red2
<1>8. Kept(turned, red3, S)
  <2>1. turned \in Trees /\ IsTree(turned, S)
        BY <1>7 DEF Kept
  <2>2. (turned.red \ {p}) \cup {g} \in SUBSET Places
        BY <2>1, <1>4, <1>5, TreeFields
  <2> QED BY <2>1, <2>2, ColorsKeep
<1> HIDE DEF red3
<1>9. Kept(red3, last, S)
  <2>1. red3 \in Trees /\ IsTree(red3, S)
        BY <1>8 DEF Kept
  <2> QED BY <2>1, <1>3, <1>4, LiftIfAnyKeeps
<1> HIDE DEF last
<1>10. Kept(t, red2, S) /\ Kept(t, last, S)
       BY <1>2, <1>6, <1>7, <1>8, <1>9, KeptOn
<1>11. m \in S \cup {Nil}
       BY <1>2, <1>3
<1>12. red2 \in Trees /\ last \in Trees
       BY <1>10 DEF Kept
<1> HIDE DEF m
<1>13. [tree |-> red2, node |-> g] \in Turned(t, S) /\ [tree |-> last, node |-> m] \in Turned(t, S)
       BY <1>4, <1>10, <1>11, <1>12 DEF Turned
<1> QED BY <1>1, <1>13

LEMMA InsertTurnsKeep ==
  ASSUME NEW t \in Trees, NEW S \in SUBSET Nodes, IsTree(t, S), NEW n \in S
  PROVE  \A i \in Nat : InsertTurns(t, n)[i] \in Turned(t, S)
<1> DEFINE start == [tree |-> t, node |-> n]
           T == Turned(t, S)
           step == [s \in T |-> InsertTurn(s)]
           Is(f) == f = [i \in Nat |-> IF i = 0 THEN start ELSE InsertTurn(f[i - 1])]
           r == InsertTurns(t, n)
<1>1. start \in T
  <2>1. Kept(t, t, S)
        BY DEF Kept, SameNodes
  <2> QED BY <2>1 DEF Turned
<1>2. \A s \in T : InsertTurn(s) \in T
      BY InsertTurnKeeps
<1>3. r = CHOOSE f : Is(f)
      BY DEF InsertTurns
<1> HIDE DEF T, start
<1>4. step \in [T -> T] /\ \A s \in T : step[s] = InsertTurn(s)
      BY <1>2
<1> HIDE DEF step
<1>5. PICK f \in [Nat -> T] : f = [i \in Nat |-> IF i = 0 THEN start ELSE step[f[i - 1]]]
      BY <1>1, <1>4, LoopExists
<1>6. \A i \in Nat : f[i] = IF i = 0 THEN start ELSE step[f[i - 1]]
      BY <1>5
<1>7. \A i \in Nat : f[i] = IF i = 0 THEN start ELSE InsertTurn(f[i - 1])
      BY <1>4, <1>5, <1>6
<1>8. Is(f)
      BY <1>5, <1>7
<1>9. Is(r)
      BY <1>3, <1>8
<1> HIDE DEF r
<1>10. r[0] = start /\ \A i \in Nat : r[i + 1] = InsertTurn(r[i])
       BY <1>9
<1> DEFINE Good == {i \in Nat : r[i] \in T}
<1>11. 0 \in Good /\ \A i \in Nat : i \in Good => i + 1 \in Good
       BY <1>1, <1>2, <1>10
<1> HIDE DEF Good
<1>12. Nat \subseteq Good
       BY <1>11, Induction
<1> QED BY <1>12 DEF Good, T, r

LEMMA InsertFixupKeeps ==
  ASSUME NEW t \in Trees, NEW S \in SUBSET Nodes, IsTree(t, S), NEW n \in S
  PROVE  Kept(t, InsertFixup(t, n), S)
<1> DEFINE end == InsertTurns(t, n)[MaxNodes].tree
<1>1. Kept(t, end, S)
      BY InsertTurnsKeep, NodesAssumption DEF Turned
<1>2. InsertFixup(t, n) = Paint(end, end.root, "black")
      BY DEF InsertFixup
<1> HIDE DEF end
<1>3. end \in Trees /\ IsTree(end, S) /\ end.root \in Places
      BY <1>1, TreeFields DEF Kept
<1>4. Kept(end, Paint(end, end.root, "black"), S)
      BY <1>3, PaintKeeps
<1> QED BY <1>1, <1>2, <1>4, KeptOn

LEMMA GreatestExists ==
  ASSUME NEW A \in SUBSET Nodes, A # {}
  PROVE  \E n \in A : \A m \in A : m <= n
<1> SUFFICES ASSUME \A n \in A : \E m \in A : ~(m <= n) PROVE FALSE
    OBVIOUS
<1>1. A \subseteq Nat /\ \A n \in A : n <= MaxNodes
      BY NodesAssumption DEF Nodes
<1> DEFINE Good == {i \in Nat : \E n \in A : i <= n}
<1>2. 0 \in Good
  <2>1. PICK n \in A : TRUE
        OBVIOUS
  <2> QED BY <2>1, <1>1
<1>3. ASSUME NEW i \in Nat, i \in Good PROVE i + 1 \in Good
  <2>1. PICK n \in A : i <= n
        BY <1>3
  <2>2. PICK m \in A : ~(m <= n)
        OBVIOUS
  <2>3. i + 1 <= m
        BY <2>1, <2>2, <1>1
  <2> QED BY <2>3
<1> HIDE DEF Good
<1>4. Nat \subseteq Good
      BY <1>2, <1>3, Induction
<1>5. MaxNodes + 1 \in Good
      BY <1>4, NodesAssumption
<1> QED BY <1>1, <1>5, NodesAssumption DEF Good

LEMMA AllocatedIs ==
  ASSUME NEW t, t.used \in SUBSET Nodes, t.used # Nodes, NEW k
  PROVE  Allocated(t, k) \in Nodes \ t.used
<1>1. PICK n \in Nodes \ t.used : \A m \in Nodes \ t.used : m <= n
      BY GreatestExists
<1> QED BY <1>1 DEF Allocated

\* The new node before it is hung into the tree.
Filled(t, k, v) ==
  [t EXCEPT !.used = @ \cup {Allocated(t, k)}, !.key[Allocated(t, k)] = k,
            !.value[Allocated(t, k)] = v, !.red = @ \cup {Allocated(t, k)},
            !.kid[Allocated(t, k)] = NoKids, !.parent[Allocated(t, k)] = Nil]

LEMMA FilledIs ==
  ASSUME NEW t \in Trees, t.used # Nodes, NEW k \in Int, NEW v \in Values,
         NEW new, new = Allocated(t, k), NEW f, f = Filled(t, k, v)
  PROVE  /\ f \in Trees /\ f.root = t.root /\ f.used = t.used \cup {new}
         /\ f.key = [t.key EXCEPT ![new] = k] /\ f.value = [t.value EXCEPT ![new] = v]
         /\ f.kid = [t.kid EXCEPT ![new] = NoKids] /\ f.parent = [t.parent EXCEPT ![new] = Nil]
<1>1. new \in Nodes /\ new \in Places /\ Nil \in Places
      BY TreeFields, AllocatedIs, NilIsNoNode
<1>2. NoKids \in [Sides -> Places]
      BY <1>1 DEF NoKids
<1>3. f = [t EXCEPT !.used = @ \cup {new}, !.key[new] = k, !.value[new] = v,
                    !.red = @ \cup {new}, !.kid[new] = NoKids, !.parent[new] = Nil]
      BY DEF Filled
<1>4. /\ f.root = t.root /\ f.used = t.used \cup {new} /\ f.red = t.red \cup {new}
      /\ f.key = [t.key EXCEPT ![new] = k] /\ f.value = [t.value EXCEPT ![new] = v]
      /\ f.kid = [t.kid EXCEPT ![new] = NoKids] /\ f.parent = [t.parent EXCEPT ![new] = Nil]
      BY <1>3 DEF Trees
<1>5. f = [root |-> f.root, used |-> f.used, kid |-> f.kid, parent |-> f.parent,
           red |-> f.red, key |-> f.key, value |-> f.value]
      BY <1>3 DEF Trees
<1>6. f.root \in Places /\ f.used \in SUBSET Nodes /\ f.red \in SUBSET Places
      BY <1>1, <1>4, TreeFields
<1>7. f.kid \in Kids
      BY <1>1, <1>2, <1>4, TreeFields DEF Kids
<1>8. f.parent \in Parents
      BY <1>1, <1>4, TreeFields DEF Parents
<1>9. f.key \in [Nodes -> Int]
      BY <1>1, <1>4, TreeFields
<1>10. f.value \in [Nodes -> Values \cup {NULL}]
       BY <1>1, <1>4, TreeFields
<1>11. f \in Trees
       BY <1>5, <1>6, <1>7, <1>8, <1>9, <1>10 DEF Trees
<1> QED BY <1>4, <1>11

\* The first node of a tree.
LEMMA OnlyNode ==
  ASSUME NEW new \in Nodes, NEW root, root = new, NEW kid, NEW parent, NEW key,
         kid[Nil] = NoKids, kid[new] = NoKids, parent[Nil] = Nil, parent[new] = Nil
  PROVE  \E U \in Unders : Shape({new}, root, kid, parent, U) /\ Ordered({new}, kid, key, U)
<1> DEFINE U == [x \in Places |-> IF x = new THEN {new} ELSE {}]
<1>1. new \in Places /\ Nil \in Places /\ new # Nil
      BY NilIsNoNode
<1>2. U \in Unders /\ U[new] = {new} /\ U[Nil] = {}
      BY <1>1 DEF Unders
<1> HIDE DEF U
<1>3. \A s \in Sides : kid[new][s] = Nil /\ Opposite(s) \in Sides
      BY SidesAre DEF NoKids
<1>4. Shape({new}, root, kid, parent, U)
      BY <1>1, <1>2, <1>3 DEF Shape
<1>5. Ordered({new}, kid, key, U)
      BY <1>2, <1>3 DEF Ordered
<1> QED BY <1>2, <1>4, <1>5

\* The node hung into the tree.
Hung(f, new, p, side) == [f EXCEPT !.parent[new] = p, !.kid[p][side] = new]

LEMMA TreeInsertUnfolds ==
  ASSUME NEW t, NEW k, NEW v, NEW new, new = Allocated(t, k),
         NEW p, p = Descent(t, k)[MaxNodes]
  PROVE  TreeInsert(t, k, v) =
           IF t.root = Nil THEN Paint([Filled(t, k, v) EXCEPT !.root = new], new, "black")
           ELSE InsertFixup(Hung(Filled(t, k, v), new, p, DirectionAt(t, p, k)), new)
BY DEF TreeInsert, Filled, Hung, DirectionAt

LEMMA HungIs ==
  ASSUME NEW f \in Trees, NEW new \in Places, NEW p \in Places, NEW side \in Sides,
         NEW h, h = Hung(f, new, p, side)
  PROVE  /\ h \in Trees /\ SameNodes(f, h) /\ h.root = f.root
         /\ \A x \in Places : h.parent[x] = IF x = new THEN p ELSE f.parent[x]
         /\ \A x \in Places : \A s \in Sides :
              h.kid[x][s] = IF x = p /\ s = side THEN new ELSE f.kid[x][s]
<1> DEFINE g == [f EXCEPT !.parent[new] = p]
<1>2. /\ g \in Trees /\ SameNodes(f, g) /\ g.root = f.root /\ g.kid = f.kid
      /\ \A x \in Places : g.parent[x] = IF x = new THEN p ELSE f.parent[x]
      BY WithParent
<1> DEFINE d == [g EXCEPT !.kid[p][side] = new]
<1>3. h = d
      BY DEF Hung
<1> HIDE DEF g
<1>4. /\ d \in Trees /\ SameNodes(g, d) /\ d.root = g.root /\ d.parent = g.parent
      /\ \A x \in Places : \A s \in Sides :
           d.kid[x][s] = IF x = p /\ s = side THEN new ELSE g.kid[x][s]
      BY <1>2, WithKid, SMTT(30)
<1> HIDE DEF d
<1> QED BY <1>2, <1>3, <1>4 DEF SameNodes

\* A new node at the end of a way down.
LEMMA HungIsTree ==
  ASSUME NEW t \in Trees, NEW S \in SUBSET Nodes, NEW U \in Unders, TreeOn(t, S, U),
         NEW k \in Int, NEW new \in Nodes \ S,
         NEW p \in S, NEW side \in Sides, t.kid[p][side] = Nil, Before(side, k, t.key[p]),
         \A x \in S, s \in Sides : p \in U[t.kid[x][s]] => Before(s, k, t.key[x]),
         NEW h \in Trees, h.root = t.root,
         \A x \in Nodes : h.key[x] = IF x = new THEN k ELSE t.key[x],
         \A x \in Places : h.parent[x] = IF x = new THEN p ELSE t.parent[x],
         \A x \in Places : \A s \in Sides :
           h.kid[x][s] = IF x = p /\ s = side THEN new ELSE IF x = new THEN Nil ELSE t.kid[x][s]
  PROVE  IsTree(h, S \cup {new})
<1>1. /\ \A x \in S \cup {Nil} : x \in Places /\ x # new
      /\ new \in Places /\ Nil \in Places /\ Nil # new /\ p # Nil
      BY NilIsNoNode
<1>2. \A x \in S \cup {Nil} : \A s \in Sides :
        h.kid[x][s] = IF x = p /\ s = side THEN new ELSE t.kid[x][s]
      BY <1>1
<1>3. h.kid[Nil] = t.kid[Nil]
  <2>1. \A s \in Sides : h.kid[Nil][s] = t.kid[Nil][s]
        BY <1>1
  <2>2. h.kid[Nil] \in [Sides -> Places] /\ t.kid[Nil] \in [Sides -> Places]
        BY <1>1, TreeFields DEF Kids
  <2> QED BY <2>1, <2>2
<1>4. \A s \in Sides : h.kid[new][s] = Nil
      BY <1>1
<1>5. (\A x \in S \cup {Nil} : h.parent[x] = t.parent[x]) /\ h.parent[new] = p
      BY <1>1
<1>6. (\A x \in S : h.key[x] = t.key[x]) /\ h.key[new] = k
      BY TreeFields
<1>7. Shape(S, t.root, t.kid, t.parent, U) /\ Ordered(S, t.kid, t.key, U)
      BY DEF TreeOn
<1>8. /\ Before(side, h.key[new], t.key[p])
      /\ \A x \in S, s \in Sides : p \in U[t.kid[x][s]] => Before(s, h.key[new], t.key[x])
      BY <1>6
<1>9. \E U2 \in Unders :
        /\ Shape(S \cup {new}, t.root, h.kid, h.parent, U2)
        /\ Ordered(S \cup {new}, h.kid, h.key, U2)
  <2>1. Leafed(S, U, p, side, new, t.kid, t.parent, t.key, h.kid, h.parent, h.key)
        BY <1>2, <1>3, <1>4, <1>5, <1>6, <1>8 DEF Leafed
  <2> QED BY <1>7, <2>1, LeafKeepsShape
<1> QED BY <1>9 DEF IsTree, TreeOn

LEMMA FixedUpIsTree ==
  ASSUME NEW t \in Trees, NEW S \in SUBSET Nodes, NEW U \in Unders, TreeOn(t, S, U),
         NEW k \in Int, NEW new \in Nodes \ S,
         NEW p \in S, NEW side \in Sides, t.kid[p][side] = Nil, Before(side, k, t.key[p]),
         \A x \in S, s \in Sides : p \in U[t.kid[x][s]] => Before(s, k, t.key[x]),
         NEW f \in Trees, f.root = t.root,
         \A x \in Nodes : f.key[x] = IF x = new THEN k ELSE t.key[x],
         \A x \in Places : f.parent[x] = IF x = new THEN Nil ELSE t.parent[x],
         \A x \in Places : \A s \in Sides : f.kid[x][s] = IF x = new THEN Nil ELSE t.kid[x][s]
  PROVE  Kept(f, InsertFixup(Hung(f, new, p, side), new), S \cup {new})
<1> DEFINE h == Hung(f, new, p, side)
<1>3. new \in Places /\ p \in Places
      BY NilIsNoNode
<1>4. /\ h \in Trees /\ SameNodes(f, h) /\ h.root = f.root
      /\ \A x \in Places : h.parent[x] = IF x = new THEN p ELSE f.parent[x]
      /\ \A x \in Places : \A s \in Sides :
           h.kid[x][s] = IF x = p /\ s = side THEN new ELSE f.kid[x][s]
      BY <1>3, HungIs
<1> HIDE DEF h
<1>6. \A x \in Places : h.parent[x] = IF x = new THEN p ELSE t.parent[x]
      BY <1>4
<1>7. \A x \in Places : \A s \in Sides :
        h.kid[x][s] = IF x = p /\ s = side THEN new ELSE IF x = new THEN Nil ELSE t.kid[x][s]
      BY <1>4
<1>8. (\A x \in Nodes : h.key[x] = IF x = new THEN k ELSE t.key[x]) /\ h.root = t.root
      BY <1>4 DEF SameNodes
<1>9. IsTree(h, S \cup {new})
      BY <1>4, <1>6, <1>7, <1>8, HungIsTree, SMTT(30)
<1>10. Kept(h, InsertFixup(h, new), S \cup {new})
  <2>1. S \cup {new} \in SUBSET Nodes /\ new \in S \cup {new}
        OBVIOUS
  <2> QED BY <1>4, <1>9, <2>1, InsertFixupKeeps
<1> QED BY <1>4, <1>10 DEF Kept, SameNodes, h

\* An insertion adds one node with the key and the value.
LEMMA TreeInsertIs ==
  ASSUME NEW t \in Trees, IsTree(t, t.used), t.used # Nodes, NEW k \in Int, NEW v \in Values,
         NEW new, new = Allocated(t, k), NEW t2, t2 = TreeInsert(t, k, v)
  PROVE  /\ new \in Nodes \ t.used /\ t2 \in Trees /\ t2.used = t.used \cup {new}
         /\ IsTree(t2, t2.used)
         /\ t2.key = [t.key EXCEPT ![new] = k] /\ t2.value = [t.value EXCEPT ![new] = v]
<1> DEFINE f == Filled(t, k, v)
           S == t.used
<1>1. new \in Nodes \ S /\ S \in SUBSET Nodes
      BY TreeFields, AllocatedIs
<1>2. new \in Places /\ Nil \in Places /\ new # Nil /\ Nil \notin S
      BY <1>1, NilIsNoNode
<1>3. /\ f \in Trees /\ f.root = t.root /\ f.used = t.used \cup {new}
      /\ f.key = [t.key EXCEPT ![new] = k] /\ f.value = [t.value EXCEPT ![new] = v]
      /\ f.kid = [t.kid EXCEPT ![new] = NoKids] /\ f.parent = [t.parent EXCEPT ![new] = Nil]
      BY FilledIs
<1>4. PICK U \in Unders : TreeOn(t, S, U)
      BY DEF IsTree
<1>5. /\ t.kid[Nil] = NoKids /\ t.parent[Nil] = Nil /\ U[Nil] = {} /\ U[t.root] = S
      BY <1>1, <1>4, ShapeIs DEF TreeOn
<1>6. CASE t.root = Nil
  <2> DEFINE g == [f EXCEPT !.root = new]
  <2>1. t2 = Paint(g, new, "black")
        BY <1>6, TreeInsertUnfolds
  <2> HIDE DEF f
  <2>2. g \in Trees /\ SameNodes(f, g) /\ g.root = new /\ g.kid = f.kid /\ g.parent = f.parent
        BY <1>2, <1>3, WithRoot
  <2> HIDE DEF g
  <2>3. g.kid[Nil] = NoKids /\ g.kid[new] = NoKids /\ g.parent[Nil] = Nil /\ g.parent[new] = Nil
    <3>1. g.kid = [t.kid EXCEPT ![new] = NoKids] /\ g.parent = [t.parent EXCEPT ![new] = Nil]
          BY <1>3, <2>2
    <3>2. t.kid \in Kids /\ t.parent \in Parents
          BY TreeFields
    <3> QED BY <1>2, <1>5, <3>1, <3>2 DEF Kids, Parents
  <2>4. S = {}
        BY <1>5, <1>6
  <2>5. IsTree(g, {new})
        BY <1>1, <2>2, <2>3, OnlyNode DEF IsTree, TreeOn
  <2>6. Kept(g, t2, {new})
        BY <1>2, <2>1, <2>2, <2>5, PaintKeeps
  <2> QED BY <1>1, <1>3, <2>2, <2>4, <2>6, ZenonT(40) DEF Kept, SameNodes
<1>7. CASE t.root # Nil
  <2> DEFINE p == Descent(t, k)[MaxNodes]
             side == DirectionAt(t, p, k)
             h == Hung(f, new, p, side)
  <2>1. t2 = InsertFixup(h, new)
        BY <1>7, TreeInsertUnfolds
  <2> HIDE DEF f
  <2>0. /\ p \in S /\ side \in Sides /\ t.kid[p][side] = Nil /\ Before(side, k, t.key[p])
        /\ \A x \in S, s \in Sides : p \in U[t.kid[x][s]] => Before(s, k, t.key[x])
        BY <1>1, <1>4, <1>7, DescentEnds
  <2> HIDE DEF p, side
  <2>2. \A x \in Nodes : f.key[x] = IF x = new THEN k ELSE t.key[x]
        BY <1>1, <1>3, TreeFields
  <2>3. \A x \in Places : f.parent[x] = IF x = new THEN Nil ELSE t.parent[x]
        BY <1>2, <1>3, TreeFields DEF Parents
  <2>4. \A x \in Places : \A s \in Sides : f.kid[x][s] = IF x = new THEN Nil ELSE t.kid[x][s]
        BY <1>2, <1>3, TreeFields DEF Kids, NoKids
  <2>6. Kept(f, InsertFixup(h, new), S \cup {new})
    <3>1. f \in Trees /\ f.root = t.root
          BY <1>3
    <3> HIDE DEF S
    <3> QED BY <1>1, <1>4, <2>0, <2>2, <2>3, <2>4, <3>1, FixedUpIsTree
  <2> QED BY <1>1, <1>3, <2>1, <2>6 DEF Kept, SameNodes
<1> QED BY <1>6, <1>7

LEMMA EmptyTreeIs ==
  /\ EmptyTree \in Trees /\ IsTree(EmptyTree, {}) /\ EmptyTree.used = {}
  /\ EmptyTree.kid[Nil] = NoKids
<1>1. NoKids \in [Sides -> Places] /\ Nil \in Places
      BY NilIsNoNode DEF NoKids
<1>2. EmptyTree \in Trees
      BY <1>1 DEF EmptyTree, Trees, Kids, Parents
<1>3. EmptyTree.used = {} /\ EmptyTree.root = Nil /\ EmptyTree.kid[Nil] = NoKids /\ EmptyTree.parent[Nil] = Nil
      BY <1>1 DEF EmptyTree
<1> DEFINE U == [x \in Places |-> {}]
<1>4. U \in Unders /\ U[Nil] = {}
      BY <1>1 DEF Unders
<1> HIDE DEF U
<1>5. TreeOn(EmptyTree, {}, U)
      BY <1>3, <1>4 DEF TreeOn, Shape, Ordered
<1> QED BY <1>2, <1>3, <1>4, <1>5 DEF IsTree

LEMMA NodesAreFinite == IsFiniteSet(Nodes) /\ Cardinality(Nodes) = MaxNodes /\ MaxNodes \in Nat
BY NodesAssumption, FS_Interval DEF Nodes

-----------------------------------------------------------------------------
(***************************************************************************)
(* Deletion.                                                               *)
(***************************************************************************)

\* The sentinel rises: it becomes the parent of n.
LEMMA NilLifted ==
  ASSUME NEW t \in Trees, t.kid[Nil] = NoKids, NEW n \in Nodes, t.parent[n] # n,
         NEW side \in Sides, t.kid[n][side] = Nil
  PROVE  /\ Lift(t, n, side).kid[Nil] # NoKids
         /\ Lift(t, n, side).kid[Nil][Opposite(side)] = n
         /\ Lift(t, n, side).kid[Nil][side] = Nil
         /\ Lift(t, n, side).kid[n][side] = Nil
         /\ \A x \in Nodes : x # n => Lift(t, n, side).parent[x] = t.parent[x]
<1> DEFINE o == Opposite(side)
           f == Hang(t, n, side, Nil)
           t2 == Rise(f, n, Nil, o)
<1>1. n \in Places /\ Nil \in Places /\ n # Nil /\ Nodes \subseteq Places /\ Nil \notin Nodes
      BY NilIsNoNode
<1>2. o \in Sides /\ o # side
      BY SidesAre
<1>3. Lift(t, n, side) = t2
  <2>1. Moved(t, n, side) = Nil
        BY <1>2 DEF Moved, NoKids
  <2> QED BY <1>1, <2>1, LiftIs
<1>4. f \in Trees /\ \A x \in Places : f.parent[x] = t.parent[x]
      BY <1>1, HangIs
<1>5. f.kid[Nil][side] = Nil /\ f.kid[n][side] = Nil
  <2>1. \A x \in Places : \A w \in Sides :
          f.kid[x][w] = IF x = n /\ w = side THEN Nil ELSE t.kid[x][w]
        BY <1>1, HangIs
  <2> QED BY <2>1, <1>1 DEF NoKids
<1>6. t2.kid[Nil][o] = n
      BY <1>1, <1>3, LostByLift
<1> HIDE DEF f, o
<1> DEFINE p == f.parent[n]
           r == IF n = f.kid[p][o] THEN o ELSE Opposite(o)
<1>7. /\ \A x \in Places : \A w \in Sides :
            t2.kid[x][w] = IF x = Nil /\ w = o THEN n
                           ELSE IF p # Nil /\ x = p /\ w = r THEN Nil ELSE f.kid[x][w]
      /\ \A x \in Places : t2.parent[x] = IF x = n THEN Nil ELSE IF x = Nil THEN p ELSE f.parent[x]
  <2> HIDE DEF p, r, t2
  <2>1. p = f.parent[n] /\ p = (IF n = Nil THEN p ELSE f.parent[n])
        BY DEF p
  <2>2. r = (IF n = f.kid[p][o] THEN o ELSE Opposite(o)) /\ t2 = Rise(f, n, Nil, o)
        BY DEF r, t2
  <2> QED BY <2>1, <2>2, <1>1, <1>2, <1>4, RiseIs
<1>8. p # n
      BY <1>1, <1>4
<1> HIDE DEF p, r, t2
<1>9. t2.kid[Nil][side] = Nil /\ t2.kid[n][side] = Nil
      BY <1>1, <1>2, <1>5, <1>7, <1>8
<1>10. \A x \in Nodes : x # n => t2.parent[x] = t.parent[x]
       BY <1>1, <1>4, <1>7
<1> QED BY <1>1, <1>2, <1>3, <1>6, <1>9, <1>10 DEF NoKids, o

\* The sentinel goes down again.
LEMMA NilLowered ==
  ASSUME NEW t \in Trees, NEW n \in Nodes, NEW side \in Sides, t.kid[Nil][side] = n,
         t.kid[n][Opposite(side)] = Nil
  PROVE  /\ Lift(t, Nil, side).kid[n][Opposite(side)] = Nil
         /\ \A x \in Nodes : x # n => Lift(t, Nil, side).parent[x] = t.parent[x]
<1> DEFINE o == Opposite(side)
           f == Hang(t, Nil, side, Nil)
           t2 == Rise(f, Nil, n, o)
<1>1. n \in Places /\ Nil \in Places /\ n # Nil /\ Nodes \subseteq Places /\ Nil \notin Nodes
      BY NilIsNoNode
<1>2. o \in Sides
      BY SidesAre
<1>3. Lift(t, Nil, side) = t2
  <2>1. Moved(t, Nil, side) = Nil
        BY DEF Moved
  <2> QED BY <1>1, <2>1, LiftIs
<1>4. f \in Trees /\ \A x \in Places : f.parent[x] = t.parent[x]
      BY <1>1, HangIs
<1> HIDE DEF f, o
<1> DEFINE p == f.parent[Nil]
           r == IF Nil = f.kid[p][o] THEN o ELSE Opposite(o)
<1>5. /\ \A x \in Places : \A w \in Sides :
            t2.kid[x][w] = IF x = n /\ w = o THEN Nil
                           ELSE IF p # Nil /\ x = p /\ w = r THEN n ELSE f.kid[x][w]
      /\ \A x \in Places : t2.parent[x] = IF x = Nil THEN n ELSE IF x = n THEN p ELSE f.parent[x]
  <2> HIDE DEF p, r, t2
  <2>1. p = f.parent[Nil] /\ p = (IF Nil = n THEN p ELSE f.parent[Nil])
        BY DEF p
  <2>2. r = (IF Nil = f.kid[p][o] THEN o ELSE Opposite(o)) /\ t2 = Rise(f, Nil, n, o)
        BY DEF r, t2
  <2> QED BY <2>1, <2>2, <1>1, <1>2, <1>4, RiseIs
<1> HIDE DEF p, r, t2
<1>6. t2.kid[n][o] = Nil /\ \A x \in Nodes : x # n => t2.parent[x] = t.parent[x]
      BY <1>1, <1>2, <1>4, <1>5
<1> QED BY <1>3, <1>6 DEF o

\* No rotation gives the sentinel back.
LEMMA LostStays ==
  ASSUME NEW t \in Trees, t.kid[Nil] # NoKids, NEW n \in Nodes, NEW side \in Sides
  PROVE  Lift(t, n, side).kid[Nil] # NoKids
<1> DEFINE f == Hang(t, n, side, Moved(t, n, side))
           c == t.kid[n][side]
           o == Opposite(side)
           t2 == Rise(f, n, c, o)
<1>1. n \in Places /\ Nil \in Places /\ n # Nil
      BY NilIsNoNode
<1>2. Lift(t, n, side) = t2 /\ o \in Sides /\ c \in Places
      BY <1>1, LiftIs
<1>3. PICK s \in Sides : t.kid[Nil][s] # Nil
  <2>1. t.kid[Nil] \in [Sides -> Places]
        BY <1>1, TreeFields DEF Kids
  <2> QED BY <2>1 DEF NoKids
<1>4. f \in Trees /\ f.kid[Nil][s] = t.kid[Nil][s]
  <2> DEFINE m == Moved(t, n, side)
  <2>0. m \in Places
        BY <1>1, LiftIs
  <2> HIDE DEF m
  <2>1. f \in Trees /\ \A x \in Places : \A w \in Sides :
            f.kid[x][w] = IF x = n /\ w = side THEN m ELSE t.kid[x][w]
    <3>1. f = Hang(t, n, side, m)
          BY DEF m
    <3> QED BY <2>0, <3>1, <1>1, HangIs
  <2> QED BY <2>1, <1>1
<1> HIDE DEF f, c, o
<1> DEFINE p == f.parent[n]
           q == IF n = c THEN p ELSE f.parent[n]
           r == IF n = f.kid[q][o] THEN o ELSE Opposite(o)
<1>5. \A x \in Places : \A w \in Sides :
        t2.kid[x][w] = IF x = c /\ w = o THEN n
                       ELSE IF q # Nil /\ x = q /\ w = r THEN c ELSE f.kid[x][w]
  <2> HIDE DEF p, q, r, t2
  <2>1. p = f.parent[n] /\ q = (IF n = c THEN p ELSE f.parent[n])
        BY DEF p, q
  <2>2. r = (IF n = f.kid[q][o] THEN o ELSE Opposite(o)) /\ t2 = Rise(f, n, c, o)
        BY DEF r, t2
  <2> QED BY <2>1, <2>2, <1>1, <1>2, <1>4, RiseIs
<1> HIDE DEF p, q, r, t2
<1>6. t2.kid[Nil][s] # Nil
      BY <1>1, <1>3, <1>4, <1>5
<1> QED BY <1>2, <1>6 DEF NoKids

\* A node keeps its place while another one is lifted.
LEMMA KidStays ==
  ASSUME NEW t \in Trees, NEW S \in SUBSET Nodes, NEW U \in Unders, TreeOn(t, S, U),
         NEW q \in S, NEW up \in Sides, t.kid[q][up] # Nil,
         NEW p \in S, NEW side \in Sides, t.kid[p][side] # q, p # t.kid[q][up],
         p # q \/ side # up
  PROVE  Lift(t, q, up).kid[p][side] = t.kid[p][side]
<1> DEFINE t2 == Lift(t, q, up)
<1>1. Risen(S, q, up, t.root, t.kid, t.parent, t2.root, t2.kid, t2.parent)
  <2> HIDE DEF t2
  <2>1. t2 = Lift(t, q, up)
        BY DEF t2
  <2> QED BY <2>1, LiftRises
<1> HIDE DEF t2
<1>2. t2.kid[p][side] = t.kid[p][side]
      BY <1>1 DEF Risen
<1> QED BY <1>2 DEF t2

LEMMA LinkedByLift ==
  ASSUME NEW t \in Trees, NEW n \in Nodes, NEW side \in Sides, t.kid[n][side] = Nil
  PROVE  Lift(t, n, side).kid[Nil] # NoKids
<1>1. Opposite(side) \in Sides /\ n # Nil
      BY SidesAre, NilIsNoNode
<1> QED BY <1>1, LostByLift DEF NoKids

LEMMA LiftEither ==
  ASSUME NEW t \in Trees, NEW S \in SUBSET Nodes, IsTree(t, S), NEW n \in S, NEW side \in Sides
  PROVE  Kept(t, Lift(t, n, side), S) \/ Lift(t, n, side).kid[Nil] # NoKids
<1>1. CASE t.kid[n][side] = Nil
      BY <1>1, LinkedByLift
<1>2. CASE t.kid[n][side] # Nil
      BY <1>2, LiftKeepsTree
<1> QED BY <1>1, <1>2

LEMMA ParentIsAnother ==
  ASSUME NEW t, NEW S \in SUBSET Nodes, IsTree(t, S), NEW n \in S
  PROVE  t.parent[n] # n
<1>1. PICK U \in Unders : Shape(S, t.root, t.kid, t.parent, U)
      BY DEF IsTree, TreeOn
<1>2. t.parent[t.root] = Nil /\ Nil \notin S
      BY <1>1, ShapeIs, NilIsNoNode
<1>3. n # t.root => \E s \in Sides : t.kid[t.parent[n]][s] = n
      BY <1>1, ShapeIs
<1>4. n \in U[n] /\ \A s \in Sides : n \notin U[t.kid[n][s]]
      BY <1>1, ShapeIs
<1> QED BY <1>2, <1>3, <1>4

\* The node n is the child of p on this side of a tree of S that has the nodes of t.
Sided(t, u, S, n, p, side) ==
  Kept(t, u, S) /\ n \in S /\ p \in S /\ u.kid[p][side] = n

\* Neither the node nor its parent is at or below the sibling.
Beside(u, S, n, p, side) ==
  /\ u.parent[n] = p /\ n # u.root /\ n # p
  /\ u.kid[p][Opposite(side)] \in S \cup {Nil}
  /\ u.kid[p][Opposite(side)] # n /\ u.kid[p][Opposite(side)] # p
  /\ \A s \in Sides : /\ u.kid[u.kid[p][Opposite(side)]][s] # n
                      /\ u.kid[u.kid[p][Opposite(side)]][s] # p

LEMMA SidedIs ==
  ASSUME NEW t, NEW S \in SUBSET Nodes, NEW u, NEW n, NEW p, NEW side \in Sides,
         Sided(t, u, S, n, p, side)
  PROVE  Beside(u, S, n, p, side)
<1> DEFINE o == Opposite(side)
           c == u.kid[p][o]
<1>0. o \in Sides /\ Opposite(o) = side
      BY SidesAre
<1>1. PICK U \in Unders : Shape(S, u.root, u.kid, u.parent, U)
      BY DEF Sided, Kept, IsTree, TreeOn
<1>2. n \in S /\ p \in S /\ u.kid[p][side] = n /\ Nil \notin S
      BY NilIsNoNode DEF Sided
<1>3. \A x \in S, s \in Sides :
        /\ u.kid[x][s] \in S \cup {Nil}
        /\ u.kid[x][s] # Nil => u.parent[u.kid[x][s]] = x
        /\ x \notin U[u.kid[x][s]]
        /\ U[x] = {x} \cup U[u.kid[x][s]] \cup U[u.kid[x][Opposite(s)]]
        /\ U[u.kid[x][s]] \cap U[u.kid[x][Opposite(s)]] = {}
  <2> SUFFICES ASSUME NEW x \in S, NEW s \in Sides
               PROVE  /\ u.kid[x][s] \in S \cup {Nil}
                      /\ u.kid[x][s] # Nil => u.parent[u.kid[x][s]] = x
                      /\ x \notin U[u.kid[x][s]]
                      /\ U[x] = {x} \cup U[u.kid[x][s]] \cup U[u.kid[x][Opposite(s)]]
                      /\ U[u.kid[x][s]] \cap U[u.kid[x][Opposite(s)]] = {}
      OBVIOUS
  <2>1. /\ u.kid[x][s] \in S \cup {Nil}
        /\ u.kid[x][s] # Nil => u.parent[u.kid[x][s]] = x
        BY <1>1, ShapeIs
  <2>2. x \notin U[u.kid[x][s]]
        BY <1>1, ShapeIs
  <2>3. U[x] = {x} \cup U[u.kid[x][s]] \cup U[u.kid[x][Opposite(s)]]
        BY <1>1, ShapeIs
  <2>4. U[u.kid[x][s]] \cap U[u.kid[x][Opposite(s)]] = {}
        BY <1>1 DEF Shape
  <2> QED BY <2>1, <2>2, <2>3, <2>4
<1>4. \A x \in S : x \in U[x]
      BY <1>1, ShapeIs
<1>5. u.kid[Nil] = NoKids /\ u.parent[u.root] = Nil /\ U[Nil] = {}
      BY <1>1, ShapeIs
<1>6. u.parent[n] = p /\ n # u.root /\ n # p
      BY <1>2, <1>3, <1>4, <1>5
<1>7. c \in S \cup {Nil} /\ c # n /\ c # p /\ n \notin U[c] /\ p \notin U[c]
  <2>1. c \in S \cup {Nil} /\ p \notin U[c] /\ U[u.kid[p][side]] \cap U[c] = {}
        BY <1>0, <1>2, <1>3
  <2> HIDE DEF c
  <2> QED BY <2>1, <1>2, <1>4
<1> HIDE DEF c
<1>8. ASSUME NEW s \in Sides PROVE u.kid[c][s] # n /\ u.kid[c][s] # p
  <2>1. CASE c = Nil
        BY <2>1, <1>2, <1>5 DEF NoKids
  <2>2. CASE c \in S
    <3>1. u.kid[c][s] \in S => u.kid[c][s] \in U[c]
          BY <2>2, <1>3, <1>4
    <3> QED BY <3>1, <1>2, <1>7
  <2> QED BY <2>1, <2>2, <1>7
<1> QED BY <1>6, <1>7, <1>8 DEF Beside, c, o

\* A rotation at the parent, or at the sibling, of a node leaves it where it is.
LEMMA LiftKeepsSided ==
  ASSUME NEW t, NEW S \in SUBSET Nodes, NEW u, NEW n, NEW p, NEW side \in Sides,
         Sided(t, u, S, n, p, side),
         NEW q, NEW up \in Sides,
         \/ q = p /\ up = Opposite(side)
         \/ q = u.kid[p][Opposite(side)],
         u.kid[q][up] # Nil
  PROVE  Sided(t, Lift(u, q, up), S, n, p, side)
<1>1. /\ u \in Trees /\ Kept(t, u, S) /\ IsTree(u, S) /\ n \in S /\ p \in S
      /\ u.kid[p][side] = n
      BY DEF Sided, Kept
<1>2. /\ n # p /\ u.kid[p][Opposite(side)] \in S \cup {Nil}
      /\ u.kid[p][Opposite(side)] # n /\ u.kid[p][Opposite(side)] # p
      /\ \A s \in Sides : u.kid[u.kid[p][Opposite(side)]][s] # p
  <2>1. Beside(u, S, n, p, side)
        BY SidedIs
  <2> QED BY <2>1 DEF Beside
<1>3. u.kid[Nil] = NoKids
      BY <1>1, ParentIs
<1>4. q \in S
      BY <1>1, <1>2, <1>3 DEF NoKids
<1>5. PICK U \in Unders : TreeOn(u, S, U)
      BY <1>1 DEF IsTree
<1>6. u.kid[p][side] # q /\ p # u.kid[q][up] /\ (p # q \/ side # up)
      BY <1>1, <1>2, SidesAre
<1>7. Lift(u, q, up).kid[p][side] = n
      BY <1>1, <1>4, <1>5, <1>6, KidStays, ZenonT(40)
<1>8. Kept(u, Lift(u, q, up), S)
      BY <1>1, <1>4, LiftKeepsTree
<1>9. Kept(t, Lift(u, q, up), S)
      BY <1>1, <1>8, KeptOn
<1> QED BY <1>1, <1>7, <1>9 DEF Sided

LEMMA PaintKeepsSided ==
  ASSUME NEW t, NEW S \in SUBSET Nodes, NEW u, NEW n, NEW p, NEW side \in Sides,
         Sided(t, u, S, n, p, side), NEW R \in SUBSET Places
  PROVE  /\ Sided(t, [u EXCEPT !.red = R], S, n, p, side)
         /\ [u EXCEPT !.red = R] \in Trees
         /\ SameLinks(u, [u EXCEPT !.red = R])
<1> DEFINE u2 == [u EXCEPT !.red = R]
<1>1. u \in Trees /\ Kept(t, u, S) /\ IsTree(u, S)
      BY DEF Sided, Kept
<1>2. Kept(u, u2, S) /\ SameLinks(u, u2)
      BY <1>1, ColorsKeep, WithRed
<1> HIDE DEF u2
<1>3. Kept(t, u2, S) /\ u2 \in Trees
      BY <1>1, <1>2, KeptOn DEF Kept
<1> QED BY <1>2, <1>3 DEF Sided, SameLinks, u2

\* Where the loop of a deletion may be: at a node of the same tree or, once the
\* sentinel is linked, at the root, where it ends.
Fixing(t, S) ==
  {s \in [tree : Trees, node : Places] :
     /\ SameNodes(t, s.tree)
     /\ \/ IsTree(s.tree, S) /\ s.node \in S \cup {Nil}
        \/ s.tree.kid[Nil] # NoKids /\ s.node = s.tree.root}

LEMMA SameNodesOn ==
  ASSUME NEW t, NEW t2, NEW t3, SameNodes(t, t2), SameNodes(t2, t3)
  PROVE  SameNodes(t, t3)
BY DEF SameNodes

\* The last rotation, before which only colors have changed.
LEMMA LastLiftIs ==
  ASSUME NEW t, NEW S \in SUBSET Nodes, NEW u \in Trees, SameNodes(t, u),
         NEW p \in S, NEW far \in Sides,
         IsTree(u, S) \/ u.kid[Nil] # NoKids \/ u.kid[p][far] = Nil, NEW v \in Trees, SameNodes(u, v), SameLinks(u, v)
  PROVE  [tree |-> Lift(v, p, far), node |-> Lift(v, p, far).root] \in Fixing(t, S)
<1> DEFINE w == Lift(v, p, far)
<1>1. w \in Trees /\ SameNodes(v, w) /\ p \in Nodes
      BY NilIsNoNode, LiftKeeps
<1>2. w.root \in Places
      BY <1>1, TreeFields
<1>3. SameNodes(t, w)
      BY <1>1, SameNodesOn
<1>4. IsTree(u, S) => IsTree(v, S)
      BY PaintShapes DEF IsTree
<1>5. IsTree(w, S) \/ w.kid[Nil] # NoKids
  <2>1. CASE IsTree(u, S)
        BY <2>1, <1>4, LiftEither DEF Kept
  <2>2. CASE u.kid[Nil] # NoKids
        BY <2>2, <1>1, LostStays DEF SameLinks
  <2>3. CASE u.kid[p][far] = Nil
        BY <2>3, <1>1, LinkedByLift DEF SameLinks
  <2> QED BY <2>1, <2>2, <2>3
<1>6. IsTree(w, S) => w.root \in S \cup {Nil}
      BY ParentIs
<1> HIDE DEF w
<1>7. [tree |-> w, node |-> w.root] \in Fixing(t, S)
      BY <1>1, <1>2, <1>3, <1>5, <1>6 DEF Fixing
<1> QED BY <1>7 DEF w

\* The rotation at the sibling: when it lifts the sentinel, the node keeps its parent.
LEMMA SiblingLiftIs ==
  ASSUME NEW t, NEW S \in SUBSET Nodes, NEW u, NEW n, NEW p, NEW side \in Sides,
         Sided(t, u, S, n, p, side),
         NEW q, q = u.kid[p][Opposite(side)], q # Nil,
         NEW u2, u2 = Lift(u, q, side)
  PROVE  /\ u2 \in Trees /\ SameNodes(t, u2) /\ u2.parent[n] = p
         /\ IsTree(u2, S) \/ u2.kid[Nil] # NoKids
<1>0. u \in Trees /\ SameNodes(t, u) /\ IsTree(u, S) /\ n \in S /\ p \in S
      BY DEF Sided, Kept
<1>1. Beside(u, S, n, p, side)
      BY SidedIs
<1>2. q \in S /\ q # n /\ u.kid[Nil] = NoKids
      BY <1>0, <1>1, ParentIs DEF Beside
<1>3. u2 \in Trees /\ SameNodes(t, u2)
  <2>1. u2 \in Trees /\ SameNodes(u, u2)
        BY <1>0, <1>2, NilIsNoNode, LiftKeeps
  <2> QED BY <2>1, <1>0, SameNodesOn
<1>4. CASE u.kid[q][side] = Nil
  <2>1. u.parent[q] # q
        BY <1>0, <1>2, ParentIsAnother
  <2>2. u2.kid[Nil] # NoKids /\ \A x \in Nodes : x # q => u2.parent[x] = u.parent[x]
        BY <2>1, <1>0, <1>2, <1>4, NilLifted, SMTT(30)
  <2> QED BY <2>2, <1>0, <1>1, <1>2, <1>3 DEF Beside
<1>5. CASE u.kid[q][side] # Nil
  <2>1. Sided(t, u2, S, n, p, side)
        BY <1>5, LiftKeepsSided
  <2>2. Beside(u2, S, n, p, side)
        BY <2>1, SidedIs
  <2> QED BY <2>1, <2>2, <1>3, Zenon DEF Sided, Kept, Beside
<1> QED BY <1>4, <1>5

LEMMA DeleteTurnKeeps ==
  ASSUME NEW t, NEW S \in SUBSET Nodes, NEW s \in Fixing(t, S)
  PROVE  DeleteTurn(s) \in Fixing(t, S)
<1> DEFINE u == s.tree
           n == s.node
           p == u.parent[n]
           side == SideOf(u, n)
           far == Opposite(side)
           first == u.kid[p][far]
           painted == [u EXCEPT !.red = (@ \ {first}) \cup {p}]
           t1 == IF Black(u, first) THEN u ELSE Lift(painted, p, far)
           p1 == t1.parent[n]
           s1 == t1.kid[p1][far]
           painted1 == [t1 EXCEPT !.red = (@ \ {t1.kid[s1][side]}) \cup {s1}]
           t2 == IF ~Black(t1, t1.kid[s1][far]) THEN t1 ELSE Lift(painted1, s1, side)
           p2 == t2.parent[n]
           s2 == t2.kid[p2][far]
           t3 == Paint(Paint(Paint(t2, s2, ColorOf(t2, p2)), p2, "black"), t2.kid[s2][far], "black")
           t4 == Lift(t3, p2, far)
           both == Black(t1, t1.kid[s1]["left"]) /\ Black(t1, t1.kid[s1]["right"])
           up == [tree |-> Paint(t1, s1, "red"), node |-> p1]
           last == [tree |-> t4, node |-> t4.root]
<1>1. DeleteTurn(s) = IF n = u.root \/ ~Black(u, n) THEN s ELSE IF both THEN up ELSE last
      BY DEF DeleteTurn
<1>2. /\ u \in Trees /\ n \in Places /\ SameNodes(t, u)
      /\ \/ IsTree(u, S) /\ n \in S \cup {Nil}
         \/ u.kid[Nil] # NoKids /\ n = u.root
      BY DEF Fixing
<1> HIDE DEF u, n, up, last, both
<1> SUFFICES ASSUME n # u.root, Black(u, n) PROVE IF both THEN up \in Fixing(t, S)
                                                           ELSE last \in Fixing(t, S)
    BY <1>1
<1>3. IsTree(u, S) /\ n \in S \cup {Nil} /\ Nil \notin S /\ S \cup {Nil} \subseteq Places
      BY <1>2, NilIsNoNode
<1>4. side \in Sides /\ far \in Sides /\ Opposite(far) = side
      BY SidesAre DEF SideOf, Sides
<1>5. u.kid[Nil] = NoKids /\ u.parent[Nil] = Nil
      BY <1>3, ParentIs
<1>6. CASE n = Nil
  <2>1. p = Nil
        BY <1>5, <1>6
  <2>2. first = Nil
        BY <2>1, <1>4, <1>5 DEF NoKids
  <2>3. t1 = u
        BY <2>2, <1>6
  <2>4. p1 = Nil /\ s1 = Nil
        BY <2>1, <2>2, <2>3, SMTT(30)
  <2>5. both
    <3>1. t1.kid[s1]["left"] = Nil /\ t1.kid[s1]["right"] = Nil
          BY <2>3, <2>4, <1>5, ZenonT(40) DEF NoKids, Sides
    <3> QED BY <3>1, <2>3, <1>6, ZenonT(40) DEF both
  <2>6. up = [tree |-> Paint(u, Nil, "red"), node |-> Nil]
        BY <2>3, <2>4, Zenon DEF up
  <2>7. Kept(u, Paint(u, Nil, "red"), S)
        BY <1>2, <1>3, PaintKeeps
  <2>8. up \in Fixing(t, S)
        BY <2>6, <2>7, <1>2, <1>3, SameNodesOn DEF Fixing, Kept
  <2> QED BY <2>5, <2>8
<1>7. CASE n # Nil
  <2>1. Sided(t, u, S, n, p, side)
    <3>1. PICK U \in Unders : Shape(S, u.root, u.kid, u.parent, U)
          BY <1>3 DEF IsTree, TreeOn
    <3>2. u.parent[n] \in S /\ \E r \in Sides : u.kid[u.parent[n]][r] = n
          BY <3>1, <1>3, <1>7, ShapeIs
    <3>3. u.kid[p][side] = n
      <4>1. PICK r \in Sides : u.kid[u.parent[n]][r] = n
            BY <3>2
      <4> QED BY <4>1 DEF SideOf, Sides
    <3>4. Kept(t, u, S)
          BY <1>2, <1>3 DEF Kept
    <3> QED BY <3>2, <3>3, <3>4, <1>3, <1>7 DEF Sided
  <2> HIDE DEF p, side
  <2>2. p \in S /\ n \in S /\ n # p /\ first \in S \cup {Nil}
    <3>1. Beside(u, S, n, p, side)
          BY <2>1, <1>4, SidedIs
    <3> QED BY <2>1, <3>1 DEF Beside, Sided
  <2> HIDE DEF first, far
  <2> DEFINE lost == first = Nil /\ ~Black(u, Nil)
  <2>3. ~lost => Sided(t, t1, S, n, p, side)
    <3>1. CASE Black(u, first)
          BY <3>1, <2>1
    <3>2. CASE ~Black(u, first) /\ first # Nil
      <4>1. t1 = Lift(painted, p, far)
            BY <3>2
      <4>2. Sided(t, painted, S, n, p, side) /\ painted \in Trees /\ SameLinks(u, painted)
        <5>1. (u.red \ {first}) \cup {p} \in SUBSET Places
              BY <2>2, <1>2, <1>3, TreeFields
        <5> QED BY <5>1, <2>1, <1>4, PaintKeepsSided
      <4> HIDE DEF painted, t1
      <4>3. painted.kid[p][far] # Nil
            BY <4>2, <3>2 DEF SameLinks, first
      <4>4. Sided(t, Lift(painted, p, far), S, n, p, side)
            BY <4>2, <4>3, <1>4, LiftKeepsSided DEF far
      <4> QED BY <4>1, <4>4
    <3> QED BY <3>1, <3>2
  <2>4. lost => /\ t1 \in Trees /\ SameNodes(t, t1) /\ t1.parent[n] = p
                /\ t1.kid[Nil][side] = p /\ t1.kid[Nil][far] = Nil /\ t1.kid[p][far] = Nil
                /\ Black(t1, Nil) /\ ~Black(t1, p)
    <3> SUFFICES ASSUME lost
                 PROVE  /\ t1 \in Trees /\ SameNodes(t, t1) /\ t1.parent[n] = p
                        /\ t1.kid[Nil][side] = p /\ t1.kid[Nil][far] = Nil /\ t1.kid[p][far] = Nil
                        /\ Black(t1, Nil) /\ ~Black(t1, p)
        OBVIOUS
    <3>1. t1 = Lift(painted, p, far)
          OBVIOUS
    <3>2. (u.red \ {first}) \cup {p} \in SUBSET Places
          BY <2>2, <1>2, <1>3, TreeFields
    <3>3. Sided(t, painted, S, n, p, side) /\ painted \in Trees /\ SameLinks(u, painted)
          BY <3>2, <2>1, <1>4, PaintKeepsSided
    <3>4. painted.red = (u.red \ {first}) \cup {p}
          BY <3>2, <1>2, WithRed
    <3> HIDE DEF painted, t1
    <3>5. /\ painted.kid[p][far] = Nil /\ painted.kid[Nil] = NoKids /\ painted.parent[n] = p
          /\ painted.parent[p] # p
      <4>1. painted.kid[p][far] = Nil /\ painted.kid[Nil] = NoKids /\ painted.parent = u.parent
            BY <3>3, <1>5 DEF SameLinks, first
      <4> QED BY <4>1, <2>2, <1>3, ParentIsAnother DEF p
    <3>6. p \in Nodes /\ n \in Nodes /\ n # p
          BY <2>2
    <3>7. /\ t1.kid[Nil][side] = p /\ t1.kid[Nil][far] = Nil /\ t1.kid[p][far] = Nil
          /\ \A x \in Nodes : x # p => t1.parent[x] = painted.parent[x]
          BY <3>1, <3>3, <3>5, <3>6, <1>4, NilLifted
    <3>8. t1 \in Trees /\ SameNodes(painted, t1) /\ t1.red = painted.red
          BY <3>1, <3>3, <3>6, <1>4, NilIsNoNode, LiftKeeps
    <3>9. SameNodes(t, t1)
          BY <3>3, <3>8, SameNodesOn DEF Sided, Kept
    <3> QED BY <3>4, <3>5, <3>6, <3>7, <3>8, <3>9, NilIsNoNode DEF Black
  <2> HIDE DEF t1
  <2>5. p1 = p /\ t1 \in Trees /\ SameNodes(t, t1) /\ p \in Places /\ s1 \in Places
    <3>1. ~lost => p1 = p /\ t1 \in Trees /\ SameNodes(t, t1)
          BY <2>3, <1>4, SidedIs DEF Sided, Kept, Beside
    <3>2. p1 = p /\ t1 \in Trees /\ SameNodes(t, t1) /\ p \in Places
          BY <3>1, <2>2, <2>4, <1>3
    <3> QED BY <3>2, <1>4, TreeFields
  <2>6. CASE both
    <3>1. ~lost
      <4> SUFFICES ASSUME lost PROVE FALSE
          OBVIOUS
      <4>1. s1 = Nil
            BY <2>4, <2>5
      <4>2. t1.kid[Nil]["left"] = p \/ t1.kid[Nil]["right"] = p
            BY <2>4, <1>4 DEF Sides
      <4> QED BY <4>1, <4>2, <2>4, <2>6 DEF both
    <3>2. Kept(t, t1, S) /\ IsTree(t1, S)
          BY <2>3, <3>1 DEF Sided, Kept
    <3>3. Kept(t, Paint(t1, s1, "red"), S)
          BY <3>2, <2>5, PaintKeeps, KeptOn
    <3>4. [tree |-> Paint(t1, s1, "red"), node |-> p] \in Fixing(t, S)
          BY <3>3, <2>2, <2>5 DEF Fixing, Kept
    <3> QED BY <3>4, <2>5, <2>6 DEF up
  <2>7. CASE ~both
    <3>1. /\ t2 \in Trees /\ SameNodes(t, t2) /\ t2.parent[n] = p
          /\ IsTree(t2, S) \/ t2.kid[Nil] # NoKids \/ t2.kid[p][far] = Nil
      <4>0. s1 = t1.kid[p][far]
            BY <2>5
      <4> HIDE DEF p1, s1
      <4>1. CASE ~lost /\ ~Black(t1, t1.kid[s1][far])
        <5>1. t2 = t1
              BY <4>1
        <5>2. Sided(t, t1, S, n, p, side)
              BY <4>1, <2>3
        <5>3. Beside(t1, S, n, p, side)
              BY <5>2, <1>4, SidedIs
        <5> QED BY <5>1, <5>2, <5>3 DEF Sided, Kept, Beside
      <4>2. CASE ~lost /\ Black(t1, t1.kid[s1][far])
        <5>1. t2 = Lift(painted1, s1, side)
              BY <4>2
        <5>2. Sided(t, t1, S, n, p, side)
              BY <4>2, <2>3
        <5>3. s1 # Nil
          <6> SUFFICES ASSUME s1 = Nil PROVE FALSE
              OBVIOUS
          <6>1. t1.kid[Nil] = NoKids
                BY <5>2, ParentIs DEF Sided, Kept
          <6>2. \A r \in Sides : t1.kid[s1][r] = Nil
                BY <6>1 DEF NoKids
          <6>3. Black(t1, Nil)
                BY <6>2, <4>2, <1>4
          <6>4. Black(t1, t1.kid[s1]["left"]) /\ Black(t1, t1.kid[s1]["right"])
                BY <6>2, <6>3 DEF Sides
          <6> QED BY <6>4, <2>7 DEF both, s1, p1
        <5>4. Sided(t, painted1, S, n, p, side) /\ painted1 \in Trees /\ SameLinks(t1, painted1)
          <6>1. (t1.red \ {t1.kid[s1][side]}) \cup {s1} \in SUBSET Places
                BY <2>5, TreeFields
          <6> QED BY <6>1, <5>2, <1>4, PaintKeepsSided
        <5> HIDE DEF painted1, t2
        <5>5. s1 = painted1.kid[p][Opposite(side)]
              BY <5>4, <4>0 DEF SameLinks, far
        <5> QED BY <5>1, <5>3, <5>4, <5>5, <1>4, SiblingLiftIs
      <4>3. CASE lost
        <5>1. s1 = Nil
              BY <4>0, <4>3, <2>4
        <5>2. t2 = Lift(painted1, Nil, side)
          <6>1. t1.kid[s1][far] = Nil /\ Black(t1, Nil)
                BY <5>1, <4>3, <2>4
          <6> QED BY <5>1, <6>1
        <5>3. (t1.red \ {t1.kid[s1][side]}) \cup {s1} \in SUBSET Places
              BY <2>5, <5>1, <1>3, TreeFields
        <5>4. painted1 \in Trees /\ SameNodes(t1, painted1) /\ SameLinks(t1, painted1)
              BY <5>3, <2>5, WithRed
        <5> HIDE DEF painted1, t2
        <5>5. /\ painted1.kid[Nil][side] = p /\ painted1.kid[p][far] = Nil
              /\ painted1.parent[n] = p
              BY <5>4, <4>3, <2>4 DEF SameLinks
        <5>6. p \in Nodes /\ n \in Nodes /\ n # p
              BY <2>2
        <5>7. /\ Lift(painted1, Nil, side).kid[p][Opposite(side)] = Nil
              /\ \A x \in Nodes : x # p =>
                    Lift(painted1, Nil, side).parent[x] = painted1.parent[x]
              BY <5>4, <5>5, <5>6, <1>4, NilLowered DEF far
        <5>8. t2 \in Trees /\ SameNodes(painted1, t2)
              BY <5>2, <5>4, <1>3, <1>4, LiftKeeps
        <5>9. SameNodes(t, t2)
              BY <5>4, <5>8, <2>5, SameNodesOn
        <5> QED BY <5>2, <5>5, <5>6, <5>7, <5>8, <5>9 DEF far
      <4> QED BY <4>1, <4>2, <4>3
    <3> HIDE DEF t2, lost
    <3>2. t3 \in Trees /\ SameNodes(t2, t3) /\ SameLinks(t2, t3) /\ p2 = p
      <4>1. p2 = p
            BY <3>1
      <4>2. s2 \in Places
            BY <3>1, <4>1, <2>5, <1>4, TreeFields
      <4>3. t2.kid[s2][far] \in Places
            BY <3>1, <4>2, <1>4, TreeFields
      <4> DEFINE a == Paint(t2, s2, ColorOf(t2, p2))
                 b == Paint(a, p2, "black")
      <4>4. a \in Trees /\ SameNodes(t2, a) /\ SameLinks(t2, a)
            BY <3>1, <4>2, PaintIs
      <4>5. t3 = Paint(b, t2.kid[s2][far], "black")
            OBVIOUS
      <4> HIDE DEF a, p2, s2
      <4>6. b \in Trees /\ SameNodes(a, b) /\ SameLinks(a, b)
            BY <4>1, <4>4, <2>5, PaintIs
      <4> HIDE DEF b, t3
      <4>7. t3 \in Trees /\ SameNodes(b, t3) /\ SameLinks(b, t3)
            BY <4>3, <4>5, <4>6, PaintIs
      <4> QED BY <4>1, <4>4, <4>6, <4>7 DEF SameNodes, SameLinks
    <3> HIDE DEF t3, p2
    <3>3. [tree |-> Lift(t3, p, far), node |-> Lift(t3, p, far).root] \in Fixing(t, S)
          BY <3>1, <3>2, <2>2, <1>4, LastLiftIs
    <3> QED BY <3>2, <3>3, <2>7 DEF last
  <2> QED BY <2>6, <2>7
<1> QED BY <1>6, <1>7, SMTT(30)

LEMMA DeleteTurnsKeep ==
  ASSUME NEW t \in Trees, NEW S \in SUBSET Nodes, IsTree(t, S), NEW n \in S \cup {Nil}
  PROVE  \A i \in Nat : DeleteTurns(t, n)[i] \in Fixing(t, S)
<1> DEFINE start == [tree |-> t, node |-> n]
           T == Fixing(t, S)
           step == [s \in T |-> DeleteTurn(s)]
           Is(f) == f = [i \in Nat |-> IF i = 0 THEN start ELSE DeleteTurn(f[i - 1])]
           r == DeleteTurns(t, n)
<1>1. start \in T
  <2>1. SameNodes(t, t) /\ n \in Places
        BY NilIsNoNode DEF SameNodes
  <2> QED BY <2>1 DEF Fixing
<1>2. \A s \in T : DeleteTurn(s) \in T
      BY DeleteTurnKeeps
<1>3. r = CHOOSE f : Is(f)
      BY DEF DeleteTurns
<1> HIDE DEF T, start
<1>4. step \in [T -> T] /\ \A s \in T : step[s] = DeleteTurn(s)
      BY <1>2
<1> HIDE DEF step
<1>5. PICK f \in [Nat -> T] : f = [i \in Nat |-> IF i = 0 THEN start ELSE step[f[i - 1]]]
      BY <1>1, <1>4, LoopExists
<1>6. \A i \in Nat : f[i] = IF i = 0 THEN start ELSE step[f[i - 1]]
      BY <1>5
<1>7. \A i \in Nat : f[i] = IF i = 0 THEN start ELSE DeleteTurn(f[i - 1])
      BY <1>4, <1>5, <1>6
<1>8. Is(f)
      BY <1>5, <1>7
<1>9. Is(r)
      BY <1>3, <1>8
<1> HIDE DEF r
<1>10. r[0] = start /\ \A i \in Nat : r[i + 1] = DeleteTurn(r[i])
       BY <1>9
<1> DEFINE Good == {i \in Nat : r[i] \in T}
<1>11. 0 \in Good /\ \A i \in Nat : i \in Good => i + 1 \in Good
       BY <1>1, <1>2, <1>10
<1> HIDE DEF Good
<1>12. Nat \subseteq Good
       BY <1>11, Induction
<1> QED BY <1>12 DEF Good, T, r

LEMMA DeleteFixupIs ==
  ASSUME NEW t \in Trees, NEW S \in SUBSET Nodes, IsTree(t, S), NEW n \in S \cup {Nil},
         NEW t2, t2 = DeleteFixup(t, n)
  PROVE  /\ t2 \in Trees /\ SameNodes(t, t2)
         /\ IsTree(t2, S) \/ t2.kid[Nil] # NoKids
<1> DEFINE end == DeleteTurns(t, n)[MaxNodes]
<1>1. end \in Fixing(t, S)
      BY DeleteTurnsKeep, NodesAssumption
<1> HIDE DEF end
<1> DEFINE u == end.tree
           m == end.node
<1>3. /\ u \in Trees /\ m \in Places /\ SameNodes(t, u)
      /\ IsTree(u, S) \/ u.kid[Nil] # NoKids
      BY <1>1 DEF Fixing
<1>2. t2 = Paint(u, m, "black")
      BY DEF DeleteFixup, end
<1> HIDE DEF u, m
<1> DEFINE v == Paint(u, m, "black")
<1>a. v \in Trees /\ SameNodes(u, v) /\ SameLinks(u, v)
      BY <1>3, PaintIs
<1> HIDE DEF v
<1>4. t2 \in Trees /\ SameNodes(u, t2) /\ SameLinks(u, t2)
      BY <1>2, <1>a DEF v
<1>5. SameNodes(t, t2)
      BY <1>3, <1>4, SameNodesOn
<1>6. IsTree(u, S) => IsTree(t2, S)
      BY <1>4, PaintShapes DEF IsTree
<1> QED BY <1>3, <1>4, <1>5, <1>6 DEF SameLinks

\* A shape is a matter of the links of its own nodes.
LEMMA SameShape ==
  ASSUME NEW S, NEW root, NEW kid, NEW parent, NEW U, Shape(S, root, kid, parent, U),
         NEW kid2, NEW parent2,
         \A x \in S \cup {Nil} : kid2[x] = kid[x] /\ parent2[x] = parent[x]
  PROVE  Shape(S, root, kid2, parent2, U)
<1>1. /\ root \in S \cup {Nil} /\ U[root] = S /\ U[Nil] = {}
      /\ kid[Nil] = NoKids /\ parent[Nil] = Nil /\ parent[root] = Nil
      BY DEF Shape
<1>2. \A n \in S : n # root => parent[n] \in S /\ \E s \in Sides : kid[parent[n]][s] = n
      BY ShapeIs
<1>3. \A n \in S : n # root => parent2[n] \in S /\ \E s \in Sides : kid2[parent2[n]][s] = n
      BY <1>2
<1>4. \A n \in S, s \in Sides : kid[n][s] \in S \cup {Nil}
      BY ShapeIs
<1>5. \A n \in S : U[n] \subseteq S
      BY ShapeIs
<1>a. \A n \in S, s \in Sides :
        /\ kid[n][s] \in S \cup {Nil}
        /\ kid[n][s] # Nil => parent[kid[n][s]] = n
        /\ n \notin U[kid[n][s]]
        /\ U[n] = {n} \cup U[kid[n][s]] \cup U[kid[n][Opposite(s)]]
        /\ U[kid[n][s]] \cap U[kid[n][Opposite(s)]] = {}
      BY ShapeIs
<1>b. \A n \in S : kid2[n] = kid[n]
      OBVIOUS
<1>c. \A n \in S, s \in Sides : kid[n][s] # Nil => parent2[kid[n][s]] = n
      BY <1>a
<1>6. \A n \in S : \A s \in Sides :
        /\ kid2[n][s] \in S \cup {Nil}
        /\ kid2[n][s] # Nil => parent2[kid2[n][s]] = n
        /\ n \notin U[kid2[n][s]]
        /\ U[n] = {n} \cup U[kid2[n][s]] \cup U[kid2[n][Opposite(s)]]
        /\ U[kid2[n][s]] \cap U[kid2[n][Opposite(s)]] = {}
      BY <1>a, <1>b, <1>c
<1>7. \A n \in S : \A m \in U[n] : U[m] \subseteq U[n] /\ (m # n => parent2[m] \in U[n])
      BY <1>5 DEF Shape
<1> QED BY <1>1, <1>3, <1>5, <1>6, <1>7 DEF Shape

LEMMA SameTree ==
  ASSUME NEW t, NEW S \in SUBSET Nodes, IsTree(t, S), NEW t2, t2.root = t.root,
         \A x \in S \cup {Nil} : t2.kid[x] = t.kid[x] /\ t2.parent[x] = t.parent[x],
         \A x \in S : t2.key[x] = t.key[x]
  PROVE  IsTree(t2, S)
<1>1. PICK U \in Unders : Shape(S, t.root, t.kid, t.parent, U) /\ Ordered(S, t.kid, t.key, U)
      BY DEF IsTree, TreeOn
<1> DEFINE kid2 == t2.kid
           parent2 == t2.parent
           key2 == t2.key
<1>2. /\ \A x \in S \cup {Nil} : kid2[x] = t.kid[x] /\ parent2[x] = t.parent[x]
      /\ \A x \in S : key2[x] = t.key[x]
      OBVIOUS
<1> HIDE DEF kid2, parent2, key2
<1>3. Shape(S, t.root, kid2, parent2, U)
      BY <1>1, <1>2, SameShape
<1>4. \A x \in S, s \in Sides : \A m \in U[t.kid[x][s]] : m \in S
      BY <1>1, ShapeIs
<1>5. Ordered(S, kid2, key2, U)
      BY <1>1, <1>2, <1>4 DEF Ordered
<1> QED BY <1>3, <1>5 DEF IsTree, TreeOn, kid2, parent2, key2

\* The memory of n is given back: a tree without n is not touched.
LEMMA FreeIs ==
  ASSUME NEW t \in Trees, NEW n \in Nodes, NEW t2, t2 = Free(t, n)
  PROVE  /\ t2 \in Trees /\ t2.used = t.used \ {n}
         /\ \A x \in Nodes : x # n => t2.key[x] = t.key[x] /\ t2.value[x] = t.value[x]
         /\ t2.kid[Nil] = t.kid[Nil]
         /\ \A S \in SUBSET Nodes : n \notin S /\ IsTree(t, S) => IsTree(t2, S)
<1>1. n \in Places /\ Nil \in Places /\ n # Nil /\ Nodes \subseteq Places
      BY NilIsNoNode
<1>2. NoKids \in [Sides -> Places]
      BY <1>1 DEF NoKids
<1>3. t2 = [t EXCEPT !.used = @ \ {n}, !.key[n] = 0, !.value[n] = NULL, !.red = @ \ {n},
                     !.parent[n] = Nil, !.kid[n] = NoKids]
      BY DEF Free
<1>4. /\ t2.root = t.root /\ t2.used = t.used \ {n} /\ t2.red = t.red \ {n}
      /\ t2.key = [t.key EXCEPT ![n] = 0] /\ t2.value = [t.value EXCEPT ![n] = NULL]
      /\ t2.kid = [t.kid EXCEPT ![n] = NoKids] /\ t2.parent = [t.parent EXCEPT ![n] = Nil]
      BY <1>3 DEF Trees
<1>5. t2 = [root |-> t2.root, used |-> t2.used, kid |-> t2.kid, parent |-> t2.parent,
            red |-> t2.red, key |-> t2.key, value |-> t2.value]
      BY <1>3 DEF Trees
<1>6. t2.root \in Places /\ t2.used \in SUBSET Nodes /\ t2.red \in SUBSET Places
      BY <1>4, TreeFields
<1>7. t2.kid \in Kids
      BY <1>1, <1>2, <1>4, TreeFields DEF Kids
<1>8. t2.parent \in Parents
      BY <1>1, <1>4, TreeFields DEF Parents
<1>9. t2.key \in [Nodes -> Int]
      BY <1>4, TreeFields
<1>10. t2.value \in [Nodes -> Values \cup {NULL}]
       BY <1>4, TreeFields
<1>11. t2 \in Trees
       BY <1>5, <1>6, <1>7, <1>8, <1>9, <1>10 DEF Trees
<1>12. \A x \in Nodes : x # n => t2.key[x] = t.key[x] /\ t2.value[x] = t.value[x]
       BY <1>4, TreeFields
<1>13. \A x \in Places : x # n => t2.kid[x] = t.kid[x] /\ t2.parent[x] = t.parent[x]
       BY <1>4, TreeFields DEF Kids, Parents
<1>14. ASSUME NEW S \in SUBSET Nodes, n \notin S, IsTree(t, S) PROVE IsTree(t2, S)
  <2>1. \A x \in S \cup {Nil} : t2.kid[x] = t.kid[x] /\ t2.parent[x] = t.parent[x]
        BY <1>1, <1>13, <1>14
  <2>2. \A x \in S : t2.key[x] = t.key[x]
        BY <1>12, <1>14
  <2>3. PICK t3 : t3 = t2
        OBVIOUS
  <2>4. t3.root = t.root
        BY <2>3, <1>4
  <2>5. \A x \in S \cup {Nil} : t3.kid[x] = t.kid[x] /\ t3.parent[x] = t.parent[x]
        BY <2>1, <2>3
  <2>6. \A x \in S : t3.key[x] = t.key[x]
        BY <2>2, <2>3
  <2>7. IsTree(t3, S)
        BY <2>4, <2>5, <2>6, <1>14, SameTree
  <2> QED BY <2>3, <2>7
<1> QED BY <1>1, <1>4, <1>11, <1>12, <1>13, <1>14

ParentSet(t, t2, n, v) ==
  /\ t2 \in Trees /\ SameNodes(t, t2) /\ t2.root = t.root /\ t2.kid = t.kid
  /\ \A x \in Places : t2.parent[x] = IF x = n /\ n # Nil THEN v ELSE t.parent[x]

LEMMA SetParentDoes ==
  ASSUME NEW t \in Trees, NEW n \in Places, NEW v \in Places
  PROVE  ParentSet(t, SetParent(t, n, v), n, v)
BY SetParentIs DEF ParentSet

LEMMA TransplantIs ==
  ASSUME NEW t \in Trees, NEW u \in Places, NEW v \in Places,
         NEW p, p = t.parent[u],
         NEW side, side = (IF u = t.kid[p]["left"] THEN "left" ELSE "right"),
         NEW t2, t2 = Transplant(t, u, v)
  PROVE  /\ t2 \in Trees /\ SameNodes(t, t2) /\ side \in Sides
         /\ t2.root = IF p = Nil THEN v ELSE t.root
         /\ \A x \in Places : \A s \in Sides :
              t2.kid[x][s] = IF p # Nil /\ x = p /\ s = side THEN v ELSE t.kid[x][s]
         /\ \A x \in Places : t2.parent[x] = IF x = v /\ v # Nil THEN p ELSE t.parent[x]
<1> DEFINE r == Relink(t, u, v, "left")
<1>1. "left" \in Sides /\ side = (IF u = t.kid[p]["left"] THEN "left" ELSE Opposite("left"))
      BY DEF Sides, Opposite
<1>2. side \in Sides
      BY DEF Sides
<1>3. p \in Places
      BY TreeFields
<1>4. /\ r \in Trees /\ SameNodes(t, r) /\ r.parent = t.parent
      /\ r.root = IF p = Nil THEN v ELSE t.root
      /\ \A x \in Places : \A s \in Sides :
           r.kid[x][s] = IF p # Nil /\ x = p /\ s = side THEN v ELSE t.kid[x][s]
  <2> DEFINE q == p
             w == side
  <2>1. q = t.parent[u] /\ w = (IF u = t.kid[q]["left"] THEN "left" ELSE Opposite("left"))
        BY <1>1
  <2> HIDE DEF q, w
  <2>2. /\ r \in Trees /\ SameNodes(t, r) /\ r.red = t.red /\ r.parent = t.parent
        /\ r.root = IF q = Nil THEN v ELSE t.root
        /\ \A x \in Places : \A s \in Sides :
             r.kid[x][s] = IF q # Nil /\ x = q /\ s = w THEN v ELSE t.kid[x][s]
        BY <1>1, <2>1, RelinkIs
  <2> QED BY <2>2 DEF q, w
<1>5. t2 = SetParent(r, v, p)
      BY DEF Transplant
<1> HIDE DEF r
<1> DEFINE w == SetParent(r, v, p)
<1>6. /\ w \in Trees /\ SameNodes(r, w) /\ w.root = r.root /\ w.kid = r.kid
      /\ \A x \in Places : w.parent[x] = IF x = v /\ v # Nil THEN p ELSE r.parent[x]
  <2>1. PICK q \in Places : q = p
        BY <1>3
  <2>2. w = SetParent(r, v, q)
        BY <2>1
  <2> HIDE DEF w
  <2>3. ParentSet(r, w, v, q)
        BY <2>2, <1>4, SetParentDoes
  <2> QED BY <2>1, <2>3 DEF ParentSet
<1> HIDE DEF w
<1>7. t2 = w
      BY <1>5 DEF w
<1>8. SameNodes(t, w)
      BY <1>4, <1>6 DEF SameNodes
<1> QED BY <1>2, <1>4, <1>6, <1>7, <1>8

KidsAre(S, kid, parent, U) ==
  \A n \in S, s \in Sides :
     /\ kid[n][s] \in S \cup {Nil}
     /\ kid[n][s] # Nil => parent[kid[n][s]] = n
     /\ n \notin U[kid[n][s]]
     /\ U[n] = {n} \cup U[kid[n][s]] \cup U[kid[n][Opposite(s)]]
     /\ U[kid[n][s]] \cap U[kid[n][Opposite(s)]] = {}

LEMMA ShapeKids ==
  ASSUME NEW S, NEW root, NEW kid, NEW parent, NEW U, Shape(S, root, kid, parent, U)
  PROVE  KidsAre(S, kid, parent, U)
BY DEF Shape, KidsAre

\* Who led to u leads to v.
Led(S, t, t2, u, v) ==
  /\ t2.root = IF t.root = u THEN v ELSE t.root
  /\ \A x \in S \cup {Nil} : \A s \in Sides :
       t2.kid[x][s] = IF t.kid[x][s] = u THEN v ELSE t.kid[x][s]
  /\ \A x \in Places \ S : \A s \in Sides : t2.kid[x][s] = t.kid[x][s]
  /\ \A x \in Places : t2.parent[x] = IF x = v /\ v # Nil THEN t.parent[u] ELSE t.parent[x]

LEMMA TransplantLeads ==
  ASSUME NEW t \in Trees, NEW S \in SUBSET Nodes, NEW U \in Unders, TreeOn(t, S, U),
         NEW u \in S, NEW v \in Places
  PROVE  /\ Transplant(t, u, v) \in Trees /\ SameNodes(t, Transplant(t, u, v))
         /\ Led(S, t, Transplant(t, u, v), u, v)
<1> DEFINE p == t.parent[u]
           side == IF u = t.kid[p]["left"] THEN "left" ELSE "right"
           t2 == Transplant(t, u, v)
<1>0. u \in Places /\ Nil \notin S /\ S \subseteq Places /\ Nil \in Places
      BY NilIsNoNode
<1>1. /\ t2 \in Trees /\ SameNodes(t, t2) /\ side \in Sides
      /\ t2.root = IF p = Nil THEN v ELSE t.root
      /\ \A x \in Places : \A s \in Sides :
           t2.kid[x][s] = IF p # Nil /\ x = p /\ s = side THEN v ELSE t.kid[x][s]
      /\ \A x \in Places : t2.parent[x] = IF x = v /\ v # Nil THEN p ELSE t.parent[x]
  <2>1. /\ p = t.parent[u] /\ side = (IF u = t.kid[p]["left"] THEN "left" ELSE "right")
        /\ t2 = Transplant(t, u, v)
        OBVIOUS
  <2> HIDE DEF p, side, t2
  <2> QED BY <1>0, <2>1, TransplantIs
<1>2. Shape(S, t.root, t.kid, t.parent, U)
      BY DEF TreeOn
<1>3. \A x \in S, s \in Sides : t.kid[x][s] # Nil => t.parent[t.kid[x][s]] = x
      BY <1>2, ShapeIs
<1>4. t.kid[Nil] = NoKids /\ t.parent[t.root] = Nil
      BY <1>2, ShapeIs
<1>5. u # t.root => p \in S /\ \E s \in Sides : t.kid[p][s] = u
      BY <1>2, ShapeIs
<1>6. KidsAre(S, t.kid, t.parent, U)
      BY <1>2, ShapeKids
<1>7. \A x \in S : x \in U[x]
      BY <1>2, ShapeIs
<1>8. p # Nil => p \in S /\ \A s \in Sides : t.kid[p][s] = u <=> s = side
  <2> SUFFICES ASSUME p # Nil PROVE p \in S /\ \A s \in Sides : t.kid[p][s] = u <=> s = side
      OBVIOUS
  <2>1. p \in S /\ \E s \in Sides : t.kid[p][s] = u
        BY <1>4, <1>5
  <2>2. PICK s \in Sides : t.kid[p][s] = u
        BY <2>1
  <2>3. t.kid[p][Opposite(s)] # u
        BY <2>1, <2>2, <1>6, <1>7 DEF KidsAre
  <2> QED BY <2>1, <2>2, <2>3 DEF Sides, Opposite
<1>9. p = Nil <=> u = t.root
      BY <1>0, <1>4, <1>5
<1> HIDE DEF side, t2
<1>10. ASSUME NEW x \in S \cup {Nil}, NEW s \in Sides
       PROVE  t2.kid[x][s] = IF t.kid[x][s] = u THEN v ELSE t.kid[x][s]
  <2>1. t.kid[x][s] = u => x = p /\ p # Nil
        BY <1>0, <1>3, <1>4 DEF NoKids
  <2> HIDE DEF p
  <2> QED BY <2>1, <1>0, <1>1, <1>8
<1>11. \A x \in Places \ S : \A s \in Sides : t2.kid[x][s] = t.kid[x][s]
       BY <1>1, <1>8
<1> QED BY <1>1, <1>9, <1>10, <1>11 DEF Led, t2

\* A node with at most one child is taken out.
LEMMA CutIs ==
  ASSUME NEW t \in Trees, NEW S \in SUBSET Nodes, NEW U \in Unders, TreeOn(t, S, U),
         NEW y \in S, NEW side \in Sides, t.kid[y][Opposite(side)] = Nil,
         NEW t2 \in Trees, SameNodes(t, t2), Led(S, t, t2, y, t.kid[y][side])
  PROVE  /\ t.kid[y][side] \in (S \ {y}) \cup {Nil}
         /\ \E U2 \in Unders : TreeOn(t2, S \ {y}, U2) /\ \A z \in Places : U2[z] = U[z] \ {y}
<1> DEFINE x == t.kid[y][side]
<1>1. Shape(S, t.root, t.kid, t.parent, U) /\ Ordered(S, t.kid, t.key, U)
      BY DEF TreeOn
<1>2. x \in S \cup {Nil} /\ y \notin U[x]
      BY <1>1, ShapeIs
<1>3. \A z \in S : z \in U[z]
      BY <1>1, ShapeIs
<1>4. x \in (S \ {y}) \cup {Nil}
      BY <1>2, <1>3
<1>5. t.kid[Nil] = NoKids /\ Nil \in Places /\ Nil \notin S /\ S \subseteq Places
      BY <1>1, ShapeIs, NilIsNoNode
<1>6. t2.kid[Nil] = t.kid[Nil]
  <2>1. t2.kid[Nil] \in [Sides -> Places] /\ t.kid[Nil] \in [Sides -> Places]
        BY <1>5, TreeFields DEF Kids
  <2>2. \A s \in Sides : t2.kid[Nil][s] = t.kid[Nil][s]
        BY <1>5 DEF Led
  <2> QED BY <2>1, <2>2
<1>7. Cut(S, y, x, t.root, t.kid, t.parent, t2.root, t2.kid, t2.parent)
      BY <1>5, <1>6 DEF Led, Cut
<1>8. CutInto(S, y, t2.root, t2.kid, t2.parent, t.key, U)
      BY <1>1, <1>7, CutKeepsShape
<1> QED BY <1>4, <1>8 DEF CutInto, TreeOn, SameNodes

\* A node with two children: the least node behind it, y, is taken out (c is the
\* tree then) and has the right child of n, if n has one still, for its own (t1).
Spliced(c, t1, T, n, y) ==
  /\ t1.root = c.root
  /\ \A z \in (T \ {n}) \cup {Nil} : \A s \in Sides : t1.kid[z][s] = c.kid[z][s]
  /\ t1.kid[n]["left"] = c.kid[n]["left"]
  /\ t1.kid[y]["right"] = c.kid[n]["right"]
  /\ \A z \in T \cup {Nil} :
       t1.parent[z] = IF z = c.kid[n]["right"] /\ z # Nil THEN y ELSE c.parent[z]

Hooks(t, t2, y, s, m) ==
  /\ t2 \in Trees /\ SameNodes(t, t2) /\ t2.root = t.root
  /\ \A x \in Places : \A r \in Sides :
       t2.kid[x][r] = IF x = y /\ r = s THEN m ELSE t.kid[x][r]
  /\ \A x \in Places : t2.parent[x] = IF x = m THEN y ELSE t.parent[x]

Hooked(t, y, s, m) == [t EXCEPT !.kid[y][s] = m, !.parent[m] = y]

LEMMA HookedIs ==
  ASSUME NEW t \in Trees, NEW y \in Places, NEW s \in Sides, NEW m \in Places
  PROVE  Hooks(t, Hooked(t, y, s, m), y, s, m)
<1> DEFINE g == [t EXCEPT !.kid[y][s] = m]
<1>1. /\ g \in Trees /\ SameNodes(t, g) /\ g.root = t.root /\ g.parent = t.parent
      /\ \A x \in Places : \A r \in Sides :
           g.kid[x][r] = IF x = y /\ r = s THEN m ELSE t.kid[x][r]
      BY WithKid
<1> DEFINE d == [g EXCEPT !.parent[m] = y]
<1>2. Hooked(t, y, s, m) = d
      BY DEF Hooked
<1> HIDE DEF g
<1>3. /\ d \in Trees /\ SameNodes(g, d) /\ d.root = g.root /\ d.kid = g.kid
      /\ \A x \in Places : d.parent[x] = IF x = m THEN y ELSE g.parent[x]
      BY <1>1, WithParent
<1> HIDE DEF d
<1>4. Hooks(t, d, y, s, m)
      BY <1>1, <1>3 DEF SameNodes, Hooks
<1> QED BY <1>2, <1>4

\* y was the right child of n.
LEMMA NextIsSpliced ==
  ASSUME NEW t \in Trees, NEW S \in SUBSET Nodes, NEW U \in Unders, TreeOn(t, S, U),
         NEW n \in S, NEW y \in S, t.kid[n]["right"] = y,
         NEW c, Led(S, t, c, y, t.kid[y]["right"])
  PROVE  Spliced(c, t, S \ {y}, n, y)
<1> DEFINE x == t.kid[y]["right"]
<1>1. Shape(S, t.root, t.kid, t.parent, U) /\ Nil \notin S /\ S \subseteq Places /\ Nil \in Places
      BY NilIsNoNode DEF TreeOn
<1>2. KidsAre(S, t.kid, t.parent, U)
      BY <1>1, ShapeKids
<1>3. t.kid[Nil] = NoKids /\ t.parent[t.root] = Nil
      BY <1>1, ShapeIs
<1>4. \A z \in S : z \in U[z]
      BY <1>1, ShapeIs
<1>5. "left" \in Sides /\ "right" \in Sides /\ Opposite("right") = "left"
      BY DEF Sides, Opposite
<1>6. t.parent[y] = n /\ y # t.root
      BY <1>1, <1>2, <1>3, <1>5 DEF KidsAre
<1>7. t.kid[n]["left"] # y
      BY <1>2, <1>4, <1>5 DEF KidsAre
<1>8. x \in S \cup {Nil} /\ (x # Nil => t.parent[x] = y)
      BY <1>2, <1>5 DEF KidsAre
<1> HIDE DEF x
<1>9. /\ c.root = IF t.root = y THEN x ELSE t.root
      /\ \A z \in S \cup {Nil} : \A s \in Sides :
           c.kid[z][s] = IF t.kid[z][s] = y THEN x ELSE t.kid[z][s]
      /\ \A z \in Places : c.parent[z] = IF z = x /\ x # Nil THEN n ELSE t.parent[z]
      BY <1>6 DEF Led, x
<1>10. \A z \in (S \ {n}) \cup {Nil} : \A s \in Sides : t.kid[z][s] # y
       BY <1>1, <1>2, <1>3, <1>6 DEF KidsAre, NoKids
<1>11. \A z \in ((S \ {y}) \ {n}) \cup {Nil} : \A s \in Sides : t.kid[z][s] = c.kid[z][s]
       BY <1>9, <1>10
<1>12. c.kid[n]["right"] = x /\ t.kid[n]["left"] = c.kid[n]["left"]
       BY <1>5, <1>7, <1>9
<1>13. \A z \in (S \ {y}) \cup {Nil} :
          t.parent[z] = IF z = c.kid[n]["right"] /\ z # Nil THEN y ELSE c.parent[z]
       BY <1>1, <1>8, <1>9, <1>12
<1>14. t.kid[y]["right"] = c.kid[n]["right"] /\ t.root = c.root
       BY <1>6, <1>9, <1>12 DEF x
<1> QED BY <1>11, <1>12, <1>13, <1>14 DEF Spliced

\* y was further down.
LEMMA DeepIsSpliced ==
  ASSUME NEW t \in Trees, NEW S \in SUBSET Nodes, NEW U \in Unders, TreeOn(t, S, U),
         NEW n \in S, NEW y \in S, t.kid[n]["right"] # Nil, t.parent[y] # n, y # n,
         NEW c \in Trees, Led(S, t, c, y, t.kid[y]["right"]),
         NEW t1, t1 = [c EXCEPT !.kid[y]["right"] = c.kid[n]["right"],
                                !.parent[c.kid[n]["right"]] = y]
  PROVE  t1 \in Trees /\ SameNodes(c, t1) /\ Spliced(c, t1, S \ {y}, n, y)
<1> DEFINE r == c.kid[n]["right"]
           u == Hooked(c, y, "right", r)
<1>1. /\ Shape(S, t.root, t.kid, t.parent, U) /\ Nil \notin S /\ S \subseteq Places /\ Nil \in Places
      /\ "left" \in Sides /\ "right" \in Sides
      BY NilIsNoNode DEF TreeOn, Sides
<1>2. KidsAre(S, t.kid, t.parent, U)
      BY <1>1, ShapeKids
<1>3. r # Nil
  <2>1. t.kid[n]["right"] # y
        BY <1>1, <1>2 DEF KidsAre
  <2> QED BY <2>1, <1>1 DEF Led
<1>4. r \in Places /\ t1 = u
      BY <1>1, TreeFields DEF Hooked
<1> HIDE DEF r
<1>5. /\ u \in Trees /\ SameNodes(c, u) /\ u.root = c.root
      /\ \A x \in Places : \A s \in Sides :
           u.kid[x][s] = IF x = y /\ s = "right" THEN r ELSE c.kid[x][s]
      /\ \A x \in Places : u.parent[x] = IF x = r THEN y ELSE c.parent[x]
  <2>1. Hooks(c, u, y, "right", r)
        BY <1>1, <1>4, HookedIs
  <2> HIDE DEF u
  <2> QED BY <2>1 DEF Hooks
<1> HIDE DEF u
<1>6. \A z \in ((S \ {y}) \ {n}) \cup {Nil} : \A s \in Sides : u.kid[z][s] = c.kid[z][s]
      BY <1>1, <1>5
<1>7. u.kid[n]["left"] = c.kid[n]["left"] /\ u.kid[y]["right"] = r
      BY <1>1, <1>5
<1>8. \A z \in (S \ {y}) \cup {Nil} : u.parent[z] = IF z = r /\ z # Nil THEN y ELSE c.parent[z]
      BY <1>1, <1>3, <1>5
<1>9. Spliced(c, u, S \ {y}, n, y)
      BY <1>5, <1>6, <1>7, <1>8 DEF Spliced, r
<1> QED BY <1>4, <1>5, <1>9

\* Then y takes the place of n.
LEMMA SplicedIsReplaced ==
  ASSUME NEW c \in Trees, NEW T \in SUBSET Nodes, NEW U \in Unders, TreeOn(c, T, U),
         NEW n \in T, NEW y \in Nodes \ T, NEW t1 \in Trees, SameNodes(c, t1),
         Spliced(c, t1, T, n, y), c.kid[n]["left"] # Nil,
         NEW t3, t3 = [Transplant(t1, n, y) EXCEPT
                         !.kid[y]["left"] = Transplant(t1, n, y).kid[n]["left"],
                         !.parent[Transplant(t1, n, y).kid[n]["left"]] = y]
  PROVE  /\ t3 \in Trees /\ SameNodes(c, t3)
         /\ Replaced(T, n, y, c.root, c.kid, c.parent, t3.root, t3.kid, t3.parent)
<1> DEFINE p == t1.parent[n]
           side == IF n = t1.kid[p]["left"] THEN "left" ELSE "right"
           t2 == Transplant(t1, n, y)
           l == c.kid[n]["left"]
           r == c.kid[n]["right"]
<1>0. /\ n \in Places /\ Nil \notin T /\ T \subseteq Places /\ Nil \in Places /\ y \in Places /\ y # Nil
      /\ "left" \in Sides /\ "right" \in Sides /\ Opposite("left") = "right"
      BY NilIsNoNode DEF Sides, Opposite
<1>1. /\ t2 \in Trees /\ SameNodes(t1, t2) /\ side \in Sides
      /\ t2.root = IF p = Nil THEN y ELSE t1.root
      /\ \A x \in Places : \A s \in Sides :
           t2.kid[x][s] = IF p # Nil /\ x = p /\ s = side THEN y ELSE t1.kid[x][s]
      /\ \A x \in Places : t2.parent[x] = IF x = y /\ y # Nil THEN p ELSE t1.parent[x]
  <2>1. /\ p = t1.parent[n] /\ side = (IF n = t1.kid[p]["left"] THEN "left" ELSE "right")
        /\ t2 = Transplant(t1, n, y)
        OBVIOUS
  <2> HIDE DEF p, side, t2
  <2> QED BY <1>0, <2>1, TransplantIs
<1>2. Shape(T, c.root, c.kid, c.parent, U)
      BY DEF TreeOn
<1>3. KidsAre(T, c.kid, c.parent, U)
      BY <1>2, ShapeKids
<1>4. c.kid[Nil] = NoKids /\ c.parent[c.root] = Nil /\ c.parent[Nil] = Nil
      BY <1>2, ShapeIs
<1>5. \A x \in T : x # c.root => c.parent[x] \in T /\ \E s \in Sides : c.kid[c.parent[x]][s] = x
      BY <1>2, ShapeIs, SMTT(30)
<1>6. \A x \in T : x \in U[x]
      BY <1>2, ShapeIs
<1>7. l \in T /\ r \in T \cup {Nil} /\ l # r /\ l # n /\ r # n /\ c.parent[l] = n
      /\ (r # Nil => c.parent[r] = n)
      BY <1>0, <1>3, <1>6 DEF KidsAre
<1>8. p = c.parent[n]
      BY <1>7 DEF Spliced
<1>9. p # n
      BY <1>0, <1>3, <1>4, <1>5, <1>6, <1>8 DEF KidsAre
<1>10. p = Nil <=> n = c.root
      BY <1>0, <1>4, <1>5, <1>8
<1>11. p # Nil => p \in T /\ \A s \in Sides : c.kid[p][s] = n <=> s = side
  <2> SUFFICES ASSUME p # Nil PROVE p \in T /\ \A s \in Sides : c.kid[p][s] = n <=> s = side
      OBVIOUS
  <2>1. p \in T /\ \E s \in Sides : c.kid[p][s] = n
        BY <1>4, <1>5, <1>8
  <2>2. PICK s \in Sides : c.kid[p][s] = n
        BY <2>1
  <2>3. c.kid[p][Opposite(s)] # n
        BY <2>1, <2>2, <1>3, <1>6 DEF KidsAre
  <2>4. t1.kid[p]["left"] = c.kid[p]["left"]
        BY <2>1, <1>0, <1>9 DEF Spliced
  <2> QED BY <2>1, <2>2, <2>3, <2>4 DEF Sides, Opposite
<1>12. /\ t1.root = c.root
       /\ \A z \in (T \ {n}) \cup {Nil} : \A s \in Sides : t1.kid[z][s] = c.kid[z][s]
       /\ t1.kid[n]["left"] = l
       /\ t1.kid[y]["right"] = r
       /\ \A z \in T \cup {Nil} : t1.parent[z] = IF z = r /\ z # Nil THEN y ELSE c.parent[z]
       BY DEF Spliced
<1>13. t2.kid[n]["left"] = l
       BY <1>0, <1>1, <1>9, <1>12
<1>14. \A z \in T : \A s \in Sides : c.kid[z][s] = n => z = p /\ p # Nil
       BY <1>0, <1>3, <1>8 DEF KidsAre
<1>15. \A z \in T : c.parent[z] = n <=> z \in {l, r}
  <2>1. ASSUME NEW z \in T, c.parent[z] = n PROVE z \in {l, r}
    <3>1. z # c.root
          BY <2>1, <1>0, <1>4
    <3>2. PICK s \in Sides : c.kid[n][s] = z
          BY <2>1, <3>1, <1>5
    <3> QED BY <3>2 DEF Sides
  <2> QED BY <2>1, <1>0, <1>7
<1>16. t3 = [t2 EXCEPT !.kid[y]["left"] = l, !.parent[l] = y]
       BY <1>13
<1> HIDE DEF t2, side, p, l, r
<1> DEFINE u == Hooked(t2, y, "left", l)
<1>17. /\ u \in Trees /\ SameNodes(t2, u) /\ u.root = t2.root
       /\ \A x \in Places : \A s \in Sides :
            u.kid[x][s] = IF x = y /\ s = "left" THEN l ELSE t2.kid[x][s]
       /\ \A x \in Places : u.parent[x] = IF x = l THEN y ELSE t2.parent[x]
  <2>1. l \in Places
        BY <1>0, <1>7
  <2>2. Hooks(t2, u, y, "left", l)
        BY <2>1, <1>0, <1>1, HookedIs
  <2> HIDE DEF u
  <2> QED BY <2>2 DEF Hooks
<1> HIDE DEF u
<1>18. SameNodes(c, u)
       BY <1>1, <1>17 DEF SameNodes
<1>19. u.root = IF c.root = n THEN y ELSE c.root
       BY <1>1, <1>10, <1>12, <1>17
<1>20. ASSUME NEW z \in T \ {n}, NEW s \in Sides
       PROVE  u.kid[z][s] = IF c.kid[z][s] = n THEN y ELSE c.kid[z][s]
       BY <1>0, <1>1, <1>11, <1>12, <1>14, <1>17
<1>21. u.kid[y]["left"] = l /\ u.kid[y]["right"] = r
       BY <1>0, <1>1, <1>11, <1>12, <1>17
<1>22. \A s \in Sides : u.kid[y][s] = c.kid[n][s]
       BY <1>21 DEF Sides, l, r
<1>23. u.kid[Nil] = c.kid[Nil] /\ u.parent[Nil] = c.parent[Nil]
  <2>1. \A s \in Sides : u.kid[Nil][s] = c.kid[Nil][s]
        BY <1>0, <1>1, <1>11, <1>12, <1>17
  <2>2. u.kid[Nil] \in [Sides -> Places] /\ c.kid[Nil] \in [Sides -> Places]
        BY <1>0, <1>17, TreeFields DEF Kids
  <2>3. u.parent[Nil] = c.parent[Nil]
        BY <1>0, <1>1, <1>7, <1>12, <1>17
  <2> QED BY <2>1, <2>2, <2>3
<1>24. u.parent[y] = c.parent[n]
       BY <1>0, <1>1, <1>7, <1>8, <1>17
<1>25. \A z \in T \ {n} : u.parent[z] = IF c.parent[z] = n THEN y ELSE c.parent[z]
       BY <1>0, <1>1, <1>7, <1>12, <1>15, <1>17
<1>26. Replaced(T, n, y, c.root, c.kid, c.parent, u.root, u.kid, u.parent)
       BY <1>19, <1>20, <1>22, <1>23, <1>24, <1>25 DEF Replaced
<1>27. t3 = u
       BY <1>16 DEF u, Hooked
<1> QED BY <1>17, <1>18, <1>26, <1>27

\* The least node behind n may take its place.
LEMMA SuccessorFits ==
  ASSUME NEW t \in Trees, NEW S \in SUBSET Nodes, NEW U \in Unders, TreeOn(t, S, U),
         NEW n \in S, NEW y \in U[t.kid[n]["right"]],
         \A z \in U[t.kid[n]["right"]] : t.key[y] <= t.key[z],
         NEW c, Led(S, t, c, y, t.kid[y]["right"]),
         NEW V \in Unders, \A z \in Places : V[z] = U[z] \ {y}
  PROVE  /\ \A s \in Sides : \A z \in V[c.kid[n][s]] : Before(s, t.key[z], t.key[y])
         /\ \A z \in S, s \in Sides : n \in V[c.kid[z][s]] => Before(s, t.key[y], t.key[z])
<1>1. /\ Shape(S, t.root, t.kid, t.parent, U) /\ Ordered(S, t.kid, t.key, U)
      /\ "left" \in Sides /\ "right" \in Sides /\ Opposite("right") = "left"
      BY DEF TreeOn, Sides, Opposite
<1>2. KidsAre(S, t.kid, t.parent, U)
      BY <1>1, ShapeKids
<1>3. \A z \in S : z \in U[z] /\ U[z] \subseteq S
      BY <1>1, ShapeIs
<1>4. \A a, b \in S : b \in U[a] => U[b] \subseteq U[a]
      BY <1>1, ShapeIs
<1>5. U[Nil] = {} /\ S \subseteq Places /\ Nil \in Places /\ S \cup {Nil} \subseteq Places
      BY <1>1, ShapeIs, NilIsNoNode
<1>6. t.kid[n]["right"] \in S /\ y \in S /\ y \in U[n]
      BY <1>1, <1>2, <1>3, <1>5 DEF KidsAre
<1>7. ASSUME NEW z \in S, NEW s \in Sides PROVE V[c.kid[z][s]] \subseteq U[t.kid[z][s]]
  <2>1. t.kid[z][s] \in S \cup {Nil} /\ t.kid[y]["right"] \in S \cup {Nil}
        BY <1>1, <1>2, <1>6 DEF KidsAre
  <2>2. CASE t.kid[z][s] = y
    <3>1. c.kid[z][s] = t.kid[y]["right"]
          BY <2>2 DEF Led
    <3>2. U[t.kid[y]["right"]] \subseteq U[y]
          BY <1>1, <1>2, <1>6 DEF KidsAre
    <3> QED BY <2>1, <2>2, <3>1, <3>2, <1>5
  <2>3. CASE t.kid[z][s] # y
        BY <2>1, <2>3, <1>5 DEF Led
  <2> QED BY <2>2, <2>3
<1>8. \A z \in S : t.key[z] \in Int
      BY TreeFields
<1>9. ASSUME NEW s \in Sides, NEW z \in V[c.kid[n][s]] PROVE Before(s, t.key[z], t.key[y])
  <2>1. z \in U[t.kid[n][s]] /\ t.kid[n][s] \in S \cup {Nil}
        BY <1>2, <1>7 DEF KidsAre
  <2>2. z \in S
        BY <2>1, <1>3, <1>5
  <2>3. CASE s = "left"
    <3>1. t.key[z] <= t.key[n]
          BY <2>1, <2>3, <1>1 DEF Ordered, Before
    <3>2. t.key[n] <= t.key[y]
          BY <1>1 DEF Ordered, Before
    <3> QED BY <3>1, <3>2, <2>2, <2>3, <1>6, <1>8 DEF Before
  <2>4. CASE s = "right"
        BY <2>1, <2>4 DEF Before
  <2> QED BY <2>3, <2>4 DEF Sides
<1>10. ASSUME NEW z \in S, NEW s \in Sides, n \in V[c.kid[z][s]] PROVE Before(s, t.key[y], t.key[z])
  <2>1. n \in U[t.kid[z][s]] /\ t.kid[z][s] \in S \cup {Nil}
        BY <1>2, <1>7, <1>10 DEF KidsAre
  <2>2. y \in U[t.kid[z][s]]
        BY <2>1, <1>4, <1>5, <1>6
  <2> QED BY <2>2, <1>1 DEF Ordered
<1> QED BY <1>9, <1>10

\* A part of ReplaceBySuccessor: the tree after y has been cut off.
LooseSuccessor(t, n, y) ==
  LET cut == Transplant(t, y, t.kid[y]["right"])
  IN IF t.parent[y] = n THEN t
     ELSE [cut EXCEPT !.kid[y]["right"] = cut.kid[n]["right"], !.parent[cut.kid[n]["right"]] = y]

Seated(t1, n, y) ==
  [Transplant(t1, n, y) EXCEPT !.kid[y]["left"] = Transplant(t1, n, y).kid[n]["left"],
                               !.parent[Transplant(t1, n, y).kid[n]["left"]] = y]

LEMMA SuccessorUnfolds ==
  ASSUME NEW t, NEW n
  PROVE  LET y == Minimum(t, t.kid[n]["right"])
             t3 == Seated(LooseSuccessor(t, n, y), n, y)
         IN ReplaceBySuccessor(t, n) = Paint(t3, y, ColorOf(t3, n))
BY DEF ReplaceBySuccessor, Seated, LooseSuccessor

LEMMA SeatedIs ==
  ASSUME NEW c \in Trees, NEW T \in SUBSET Nodes, NEW U \in Unders, TreeOn(c, T, U),
         NEW n \in T, NEW y \in Nodes \ T, NEW t1 \in Trees, SameNodes(c, t1),
         Spliced(c, t1, T, n, y), c.kid[n]["left"] # Nil
  PROVE  /\ Seated(t1, n, y) \in Trees /\ SameNodes(c, Seated(t1, n, y))
         /\ Replaced(T, n, y, c.root, c.kid, c.parent, Seated(t1, n, y).root,
                     Seated(t1, n, y).kid, Seated(t1, n, y).parent)
BY SplicedIsReplaced DEF Seated

LeastUnder(t, S, U, n, y) ==
  /\ y \in U[n] /\ y \in S /\ t.kid[y]["left"] = Nil
  /\ \A x \in U[n] : t.key[y] <= t.key[x]

LEMMA MinimumFound ==
  ASSUME NEW t \in Trees, NEW S \in SUBSET Nodes, NEW U, TreeOn(t, S, U), NEW n \in S
  PROVE  LeastUnder(t, S, U, n, Minimum(t, n))
BY MinimumIs, ZenonT(40) DEF LeastUnder

LEMMA SuccessorIs ==
  ASSUME NEW t \in Trees, NEW S \in SUBSET Nodes, NEW U \in Unders, TreeOn(t, S, U),
         NEW n \in S, t.kid[n]["left"] # Nil, t.kid[n]["right"] # Nil
  PROVE  /\ ReplaceBySuccessor(t, n) \in Trees /\ SameNodes(t, ReplaceBySuccessor(t, n))
         /\ IsTree(ReplaceBySuccessor(t, n), S \ {n})
         /\ Minimum(t, t.kid[n]["right"]) \in S \ {n}
         /\ t.kid[Minimum(t, t.kid[n]["right"])]["right"] \in (S \ {n}) \cup {Nil}
<1> DEFINE right == t.kid[n]["right"]
           y == Minimum(t, right)
           x == t.kid[y]["right"]
           T == S \ {y}
           c == Transplant(t, y, x)
           t1 == LooseSuccessor(t, n, y)
           t3 == Seated(t1, n, y)
<1>1. /\ Shape(S, t.root, t.kid, t.parent, U) /\ Nil \notin S /\ S \subseteq Places /\ Nil \in Places
      /\ "left" \in Sides /\ "right" \in Sides /\ Opposite("left") = "right"
      /\ Opposite("right") = "left"
      BY NilIsNoNode DEF TreeOn, Sides, Opposite
<1>2. KidsAre(S, t.kid, t.parent, U)
      BY <1>1, ShapeKids
<1>3. \A z \in S : z \in U[z] /\ U[z] \subseteq S
      BY <1>1, ShapeIs
<1>4. ReplaceBySuccessor(t, n) = Paint(t3, y, ColorOf(t3, n))
      BY SuccessorUnfolds
<1>5. right \in S /\ n \notin U[right] /\ U[right] \subseteq U[n]
      BY <1>1, <1>2 DEF KidsAre
<1>6. y \in U[right] /\ y \in S /\ t.kid[y]["left"] = Nil /\ \A z \in U[right] : t.key[y] <= t.key[z]
  <2>1. LeastUnder(t, S, U, right, y)
        BY <1>5, MinimumFound
  <2> HIDE DEF y, right
  <2> QED BY <2>1 DEF LeastUnder
<1> HIDE DEF y
<1>7. y # n /\ x \in S \cup {Nil} /\ U[x] \subseteq U[y]
      BY <1>1, <1>2, <1>5, <1>6 DEF KidsAre
<1>8. x # n
  <2>1. \A a, b \in S : b \in U[a] => U[b] \subseteq U[a]
        BY <1>1, ShapeIs
  <2> QED BY <2>1, <1>1, <1>3, <1>5, <1>6, <1>7
<1> HIDE DEF x, right
<1>9. c \in Trees /\ SameNodes(t, c) /\ Led(S, t, c, y, x)
      BY <1>1, <1>6, <1>7, TransplantLeads
<1> HIDE DEF c
<1>10. PICK V \in Unders : TreeOn(c, T, V) /\ \A z \in Places : V[z] = U[z] \ {y}
       BY <1>1, <1>6, <1>9, CutIs DEF x
<1>11. t1 \in Trees /\ SameNodes(c, t1) /\ Spliced(c, t1, T, n, y)
  <2>1. CASE t.parent[y] = n
    <3>1. t1 = t
          BY <2>1 DEF LooseSuccessor
    <3>2. right = y
      <4>1. y # right => t.parent[y] \in U[right]
            BY <1>1, <1>5, <1>6, ShapeIs
      <4> QED BY <4>1, <2>1, <1>5
    <3>3. Spliced(c, t, T, n, y)
          BY <3>2, <1>6, <1>9, NextIsSpliced DEF x, right
    <3> QED BY <3>1, <3>3, <1>9 DEF SameNodes
  <2>2. CASE t.parent[y] # n
    <3> DEFINE u == [c EXCEPT !.kid[y]["right"] = c.kid[n]["right"],
                              !.parent[c.kid[n]["right"]] = y]
    <3>1. t1 = u
          BY <2>2 DEF LooseSuccessor, c, x
    <3>2. t.kid[n]["right"] # Nil /\ t.parent[y] # n
          BY <2>2
    <3>3. u \in Trees /\ SameNodes(c, u) /\ Spliced(c, u, S \ {y}, n, y)
          BY <3>2, <1>6, <1>7, <1>9, DeepIsSpliced DEF x
    <3> QED BY <3>1, <3>3
  <2> QED BY <2>1, <2>2
<1> HIDE DEF t1
<1>12. n \in T /\ y \in Nodes \ T /\ T \in SUBSET Nodes /\ c.kid[n]["left"] # Nil
  <2>1. t.kid[n]["left"] # y
    <3>1. U[t.kid[n]["left"]] \cap U[t.kid[n]["right"]] = {}
          BY <1>1, <1>2, ZenonT(40) DEF KidsAre
    <3> QED BY <3>1, <1>3, <1>6 DEF right
  <2>2. c.kid[n]["left"] = t.kid[n]["left"]
        BY <2>1, <1>1, <1>9 DEF Led
  <2> QED BY <2>2, <1>6, <1>7
<1>13. /\ t3 \in Trees /\ SameNodes(c, t3)
       /\ Replaced(T, n, y, c.root, c.kid, c.parent, t3.root, t3.kid, t3.parent)
       BY <1>9, <1>10, <1>11, <1>12, SeatedIs
<1> HIDE DEF t3
<1>14. /\ \A s \in Sides : \A z \in V[c.kid[n][s]] : Before(s, t.key[z], t.key[y])
       /\ \A z \in S, s \in Sides : n \in V[c.kid[z][s]] => Before(s, t.key[y], t.key[z])
       BY <1>6, <1>9, <1>10, SuccessorFits, ZenonT(40) DEF right, x
<1>15. \E W \in Unders : /\ Shape((T \ {n}) \cup {y}, t3.root, t3.kid, t3.parent, W)
                         /\ Ordered((T \ {n}) \cup {y}, t3.kid, t.key, W)
  <2>1. Shape(T, c.root, c.kid, c.parent, V) /\ Ordered(T, c.kid, t.key, V)
        BY <1>9, <1>10 DEF TreeOn, SameNodes
  <2>2. \A z \in T, s \in Sides : n \in V[c.kid[z][s]] => Before(s, t.key[y], t.key[z])
        BY <1>14
  <2> HIDE DEF T
  <2> QED BY <2>1, <2>2, <1>12, <1>13, <1>14, ReplaceKeepsShape
<1>16. (T \ {n}) \cup {y} = S \ {n}
       BY <1>6, <1>7
<1>17. SameNodes(t, t3)
       BY <1>9, <1>13 DEF SameNodes
<1>18. IsTree(t3, S \ {n})
       BY <1>15, <1>16, <1>17 DEF IsTree, TreeOn, SameNodes
<1>19. Kept(t3, Paint(t3, y, ColorOf(t3, n)), S \ {n})
       BY <1>1, <1>6, <1>13, <1>18, PaintKeeps
<1>20. Kept(t, ReplaceBySuccessor(t, n), S \ {n})
       BY <1>4, <1>17, <1>19, SameNodesOn DEF Kept
<1> QED BY <1>6, <1>7, <1>8, <1>20 DEF Kept, y, x, right

\* The node with at most one child.
LEMMA OnlyChildIs ==
  ASSUME NEW t \in Trees, NEW S \in SUBSET Nodes, NEW U \in Unders, TreeOn(t, S, U),
         NEW n \in S, NEW side \in Sides, t.kid[n][Opposite(side)] = Nil
  PROVE  /\ Transplant(t, n, t.kid[n][side]) \in Trees
         /\ SameNodes(t, Transplant(t, n, t.kid[n][side]))
         /\ IsTree(Transplant(t, n, t.kid[n][side]), S \ {n})
         /\ t.kid[n][side] \in (S \ {n}) \cup {Nil}
<1> DEFINE x == t.kid[n][side]
           c == Transplant(t, n, x)
<1>1. x \in Places
      BY TreeFields, NilIsNoNode
<1>2. c \in Trees /\ SameNodes(t, c) /\ Led(S, t, c, n, x)
      BY <1>1, TransplantLeads
<1> HIDE DEF c
<1>3. /\ x \in (S \ {n}) \cup {Nil}
      /\ \E V \in Unders : TreeOn(c, S \ {n}, V) /\ \A z \in Places : V[z] = U[z] \ {n}
      BY <1>2, CutIs
<1> QED BY <1>2, <1>3 DEF IsTree, c

\* A deletion takes n out, and leaves a tree if the fix-up has not linked the sentinel.
LEMMA TreeDeleteIs ==
  ASSUME NEW t \in Trees, IsTree(t, t.used), NEW n \in t.used
  PROVE  /\ TreeDelete(t, n) \in Trees /\ TreeDelete(t, n).used = t.used \ {n}
         /\ \A z \in Nodes : z # n => /\ TreeDelete(t, n).key[z] = t.key[z]
                                      /\ TreeDelete(t, n).value[z] = t.value[z]
         /\ \/ IsTree(TreeDelete(t, n), t.used \ {n})
            \/ TreeDelete(t, n).kid[Nil] # NoKids
<1> DEFINE S == t.used
           left == t.kid[n]["left"]
           right == t.kid[n]["right"]
           y == IF left = Nil \/ right = Nil THEN n ELSE Minimum(t, right)
           x == IF left = Nil THEN right ELSE IF right = Nil THEN left ELSE t.kid[y]["right"]
           taken == IF y = n THEN Transplant(t, n, x) ELSE ReplaceBySuccessor(t, n)
           fixed == IF Black(t, y) THEN DeleteFixup(taken, x) ELSE taken
           freed == Free(fixed, n)
<1>1. TreeDelete(t, n) = freed
      BY DEF TreeDelete
<1>2. S \in SUBSET Nodes /\ n \in Nodes
      BY TreeFields
<1>3. PICK U \in Unders : TreeOn(t, S, U)
      BY DEF IsTree
<1>4. /\ "left" \in Sides /\ "right" \in Sides
      /\ Opposite("left") = "right" /\ Opposite("right") = "left"
      BY DEF Sides, Opposite
<1> HIDE DEF S
<1>n. n \in S
      BY SMTT(30) DEF S
<1>5. /\ taken \in Trees /\ SameNodes(t, taken) /\ IsTree(taken, S \ {n})
      /\ x \in (S \ {n}) \cup {Nil}
  <2>1. CASE left = Nil
    <3>1. taken = Transplant(t, n, right) /\ x = right
          BY <2>1
    <3>2. /\ Transplant(t, n, right) \in Trees /\ SameNodes(t, Transplant(t, n, right))
          /\ IsTree(Transplant(t, n, right), S \ {n}) /\ right \in (S \ {n}) \cup {Nil}
          BY <2>1, <1>2, <1>3, <1>4, <1>n, OnlyChildIs
    <3> QED BY <3>1, <3>2
  <2>2. CASE left # Nil /\ right = Nil
    <3>1. taken = Transplant(t, n, left) /\ x = left
          BY <2>2
    <3>2. /\ Transplant(t, n, left) \in Trees /\ SameNodes(t, Transplant(t, n, left))
          /\ IsTree(Transplant(t, n, left), S \ {n}) /\ left \in (S \ {n}) \cup {Nil}
          BY <2>2, <1>2, <1>3, <1>4, <1>n, OnlyChildIs
    <3> QED BY <3>1, <3>2
  <2>3. CASE left # Nil /\ right # Nil
    <3>1. /\ ReplaceBySuccessor(t, n) \in Trees /\ SameNodes(t, ReplaceBySuccessor(t, n))
          /\ IsTree(ReplaceBySuccessor(t, n), S \ {n})
          /\ Minimum(t, right) \in S \ {n}
          /\ t.kid[Minimum(t, right)]["right"] \in (S \ {n}) \cup {Nil}
          BY <2>3, <1>2, <1>3, <1>n, SuccessorIs
    <3>2. y = Minimum(t, right) /\ y # n
          BY <2>3, <3>1
    <3>3. taken = ReplaceBySuccessor(t, n) /\ x = t.kid[Minimum(t, right)]["right"]
          BY <2>3, <3>2
    <3> QED BY <3>1, <3>3
  <2> QED BY <2>1, <2>2, <2>3
<1> HIDE DEF taken, x, y
<1>6. /\ fixed \in Trees /\ SameNodes(t, fixed)
      /\ IsTree(fixed, S \ {n}) \/ fixed.kid[Nil] # NoKids
  <2>1. CASE Black(t, y)
    <3> DEFINE w == DeleteFixup(taken, x)
    <3>1. /\ w \in Trees /\ SameNodes(taken, w)
          /\ IsTree(w, S \ {n}) \/ w.kid[Nil] # NoKids
      <4>1. S \ {n} \in SUBSET Nodes
            BY <1>2
      <4> QED BY <4>1, <1>5, DeleteFixupIs
    <3> HIDE DEF w
    <3>2. fixed = w
          BY <2>1 DEF w
    <3> HIDE DEF fixed
    <3> QED BY <3>1, <3>2, <1>5, SameNodesOn
  <2>2. CASE ~Black(t, y)
        BY <2>2, <1>5
  <2> QED BY <2>1, <2>2
<1> HIDE DEF fixed
<1>7. /\ freed \in Trees /\ freed.used = fixed.used \ {n}
      /\ \A z \in Nodes : z # n => freed.key[z] = fixed.key[z] /\ freed.value[z] = fixed.value[z]
      /\ freed.kid[Nil] = fixed.kid[Nil]
      /\ \A T \in SUBSET Nodes : n \notin T /\ IsTree(fixed, T) => IsTree(freed, T)
      BY <1>2, <1>6, FreeIs
<1> HIDE DEF freed
<1>8. S \ {n} \in SUBSET Nodes /\ n \notin S \ {n}
      BY <1>2
<1>9. IsTree(freed, S \ {n}) \/ freed.kid[Nil] # NoKids
      BY <1>6, <1>7, <1>8
<1>10. /\ freed.used = t.used \ {n}
       /\ \A z \in Nodes : z # n => freed.key[z] = t.key[z] /\ freed.value[z] = t.value[z]
       BY <1>6, <1>7 DEF SameNodes
<1> QED BY <1>1, <1>7, <1>9, <1>10 DEF S

-----------------------------------------------------------------------------
(***************************************************************************)
(* The conversion of a list to a tree.                                     *)
(***************************************************************************)

Entries == [key : Keys, value : Values]

\* The trees that hold the first i nodes of the list.
Grown(list, i) ==
  {t \in Trees : /\ IsTree(t, t.used)
                 /\ IsFiniteSet(t.used) /\ Cardinality(t.used) = i
                 /\ \A n \in t.used : \E j \in 1 .. i : t.key[n] = list[j].key /\ t.value[n] = list[j].value
                 /\ \A j \in 1 .. i : \E n \in t.used : t.key[n] = list[j].key /\ t.value[n] = list[j].value}

LEMMA TreeGrows ==
  ASSUME NEW list \in Seq(Entries), Len(list) <= MaxNodes,
         NEW i \in 0 .. Len(list) - 1, NEW t \in Grown(list, i)
  PROVE  TreeInsert(t, list[i + 1].key, list[i + 1].value) \in Grown(list, i + 1)
<1> DEFINE k == list[i + 1].key
           v == list[i + 1].value
           new == Allocated(t, k)
           t2 == TreeInsert(t, k, v)
<1>1. k \in Int /\ v \in Values
  <2>1. list[i + 1] \in Entries
        OBVIOUS
  <2> QED BY <2>1, TableAssumption DEF Entries
<1>a. t \in Trees /\ IsTree(t, t.used)
      BY DEF Grown
<1>b. IsFiniteSet(t.used) /\ Cardinality(t.used) = i
      BY DEF Grown
<1>2. /\ \A n \in t.used : \E j \in 1 .. i : t.key[n] = list[j].key /\ t.value[n] = list[j].value
      /\ \A j \in 1 .. i : \E n \in t.used : t.key[n] = list[j].key /\ t.value[n] = list[j].value
      BY DEF Grown
<1>3. t.used # Nodes
      BY <1>b, NodesAreFinite
<1> HIDE DEF k, v
<1>4. /\ new \in Nodes \ t.used /\ t2 \in Trees /\ t2.used = t.used \cup {new}
      /\ IsTree(t2, t2.used)
      /\ t2.key = [t.key EXCEPT ![new] = k] /\ t2.value = [t.value EXCEPT ![new] = v]
  <2>1. PICK x \in Int : x = k
        BY <1>1
  <2> HIDE DEF new, t2
  <2>2. new = Allocated(t, x) /\ t2 = TreeInsert(t, x, v)
        BY <2>1 DEF new, t2
  <2> QED BY <1>1, <1>a, <1>3, <2>1, <2>2, TreeInsertIs
<1> HIDE DEF new, t2
<1>5. /\ \A n \in t.used : t2.key[n] = t.key[n] /\ t2.value[n] = t.value[n]
      /\ t2.key[new] = k /\ t2.value[new] = v
  <2>1. t.key \in [Nodes -> Int] /\ t.value \in [Nodes -> Values \cup {NULL}] /\ t.used \subseteq Nodes
        BY <1>a, TreeFields
  <2> QED BY <2>1, <1>4
<1>6. IsFiniteSet(t2.used) /\ Cardinality(t2.used) = i + 1
  <2>1. IsFiniteSet(t.used \cup {new}) /\ Cardinality(t.used \cup {new}) = Cardinality(t.used) + 1
        BY <1>b, <1>4, FS_AddElement
  <2> QED BY <2>1, <1>b, <1>4
<1>7. ASSUME NEW n \in t2.used
      PROVE  \E j \in 1 .. i + 1 : t2.key[n] = list[j].key /\ t2.value[n] = list[j].value
  <2>1. CASE n = new
        BY <2>1, <1>5 DEF k, v
  <2>2. CASE n \in t.used
    <3>1. PICK j \in 1 .. i : t.key[n] = list[j].key /\ t.value[n] = list[j].value
          BY <1>2, <2>2
    <3>2. j \in 1 .. i + 1
          OBVIOUS
    <3> QED BY <3>1, <3>2, <2>2, <1>5
  <2> QED BY <2>1, <2>2, <1>4
<1>8. ASSUME NEW j \in 1 .. i + 1
      PROVE  \E n \in t2.used : t2.key[n] = list[j].key /\ t2.value[n] = list[j].value
  <2>1. CASE j = i + 1
        BY <2>1, <1>4, <1>5 DEF k, v
  <2>2. CASE j \in 1 .. i
    <3>1. PICK n \in t.used : t.key[n] = list[j].key /\ t.value[n] = list[j].value
          BY <1>2, <2>2
    <3> QED BY <3>1, <1>4, <1>5
  <2> QED BY <2>1, <2>2
<1>9. t2 \in Grown(list, i + 1)
      BY <1>4, <1>6, <1>7, <1>8 DEF Grown
<1> QED BY <1>9 DEF t2, k, v

\* What the conversion of a list gives.
LEMMA PlantedIs ==
  ASSUME NEW list \in Seq(Entries), Len(list) <= MaxNodes
  PROVE  Planted(list)[Len(list)] \in Grown(list, Len(list))
<1> DEFINE L == Len(list)
           Put(t, i) == TreeInsert(t, list[i].key, list[i].value)
           Is(f) == f = [i \in 0 .. L |-> IF i = 0 THEN EmptyTree ELSE Put(f[i - 1], i)]
           r == Planted(list)
           Chain(g, p) == /\ g \in [0 .. p -> Trees] /\ g[0] = EmptyTree
                          /\ \A i \in 0 .. p - 1 : g[i + 1] = Put(g[i], i + 1)
                          /\ \A i \in 0 .. p : g[i] \in Grown(list, i)
           Good == {p \in Nat : p <= L => \E g : Chain(g, p)}
<1>1. r = CHOOSE f : Is(f)
      BY DEF Planted
<1>2. \A i \in 0 .. L - 1 : \A t \in Grown(list, i) : Put(t, i + 1) \in Grown(list, i + 1)
      BY TreeGrows
<1>3. EmptyTree \in Grown(list, 0)
  <2> DEFINE e == EmptyTree
  <2>1. e \in Trees /\ e.used = {} /\ IsTree(e, e.used)
        BY EmptyTreeIs
  <2>2. IsFiniteSet({}) /\ Cardinality({}) = 0
        BY FS_EmptySet
  <2> HIDE DEF e
  <2>3. e \in Grown(list, 0)
    <3>1. 1 .. 0 = {}
          OBVIOUS
    <3> QED BY <2>1, <2>2, <3>1, Zenon DEF Grown
  <2> QED BY <2>3 DEF e
<1>4. L \in Nat
      OBVIOUS
<1>5. \A i : \A t \in Grown(list, i) : t \in Trees
      BY DEF Grown
<1> HIDE DEF Put, L, r
<1>6. 0 \in Good
  <2> DEFINE g == [i \in 0 .. 0 |-> EmptyTree]
  <2>1. Chain(g, 0)
        BY <1>3, EmptyTreeIs
  <2> QED BY <2>1
<1>7. ASSUME NEW p \in Nat, p \in Good PROVE p + 1 \in Good
  <2> SUFFICES ASSUME p + 1 <= L PROVE \E g : Chain(g, p + 1)
      OBVIOUS
  <2>1. PICK g : Chain(g, p)
        BY <1>4, <1>7
  <2> DEFINE f == [i \in 0 .. p + 1 |-> IF i = p + 1 THEN Put(g[p], p + 1) ELSE g[i]]
  <2>2. g[p] \in Grown(list, p) /\ p \in 0 .. L - 1
        BY <1>4, <2>1
  <2>3. Put(g[p], p + 1) \in Grown(list, p + 1)
        BY <1>2, <2>2
  <2>4. \A i \in 0 .. p + 1 : f[i] \in Grown(list, i)
        BY <2>1, <2>3
  <2>5. f \in [0 .. p + 1 -> Trees] /\ f[0] = EmptyTree
        BY <2>1, <2>3, <1>5
  <2>6. ASSUME NEW i \in 0 .. (p + 1) - 1 PROVE f[i + 1] = Put(f[i], i + 1)
    <3>1. CASE i = p
          BY <3>1
    <3>2. CASE i # p
      <4>1. i \in 0 .. p - 1 /\ i + 1 \in 0 .. p /\ i \in 0 .. p
            BY <3>2
      <4> QED BY <4>1, <2>1
    <3> QED BY <3>1, <3>2
  <2> HIDE DEF f
  <2>7. Chain(f, p + 1)
        BY <2>4, <2>5, <2>6
  <2> QED BY <2>7
<1> HIDE DEF Good
<1>8. Nat \subseteq Good
      BY <1>6, <1>7, Induction
<1>9. PICK g : Chain(g, L)
  <2> HIDE DEF Chain
  <2>1. L \in Good /\ L <= L
        BY <1>4, <1>8
  <2> QED BY <2>1 DEF Good
<1>10. Is(g)
  <2>1. ASSUME NEW i \in 0 .. L, i # 0 PROVE g[i] = Put(g[i - 1], i)
    <3>1. i - 1 \in 0 .. L - 1 /\ (i - 1) + 1 = i
          BY <1>4, <2>1
    <3> QED BY <3>1, <1>9
  <2> QED BY <2>1, <1>4, <1>9
<1>11. Is(r)
       BY <1>1, <1>10
<1>12. r[0] = EmptyTree /\ \A i \in 0 .. L - 1 : r[i + 1] = Put(r[i], i + 1)
  <2>1. \A i \in 0 .. L : r[i] = IF i = 0 THEN EmptyTree ELSE Put(r[i - 1], i)
        BY <1>11
  <2>2. 0 \in 0 .. L
        BY <1>4
  <2>3. ASSUME NEW i \in 0 .. L - 1 PROVE r[i + 1] = Put(r[i], i + 1)
    <3>1. i + 1 \in 0 .. L /\ i + 1 # 0 /\ (i + 1) - 1 = i
          BY <1>4
    <3> QED BY <3>1, <2>1
  <2> QED BY <2>1, <2>2, <2>3
<1> DEFINE Fine == {i \in Nat : i <= L => r[i] \in Grown(list, i)}
<1>13. 0 \in Fine
       BY <1>3, <1>12
<1>14. ASSUME NEW i \in Nat, i \in Fine PROVE i + 1 \in Fine
  <2> SUFFICES ASSUME i + 1 <= L PROVE r[i + 1] \in Grown(list, i + 1)
      OBVIOUS
  <2>1. i \in 0 .. L - 1 /\ r[i] \in Grown(list, i)
        BY <1>4, <1>14
  <2> QED BY <2>1, <1>2, <1>12
<1> HIDE DEF Fine
<1>15. Nat \subseteq Fine
       BY <1>13, <1>14, Induction
<1> QED BY <1>4, <1>15 DEF Fine, r, L

-----------------------------------------------------------------------------
(***************************************************************************)
(* The index, and the search in a list.                                    *)
(***************************************************************************)

LEMMA RemainderIs ==
  ASSUME NEW a \in Int, NEW n \in Nat \ {0}
  PROVE  a % n \in 0 .. n - 1
OBVIOUS

\* Whatever the key, its index is that of a bucket.
LEMMA IndexInTable ==
  ASSUME NEW k \in Int, NEW size \in Nat \ {0}
  PROVE  HashFunction(k, size) \in 0 .. size - 1
<1> DEFINE scaled == (IF k < 0 THEN -k ELSE k) * 618
           hash == (size * (scaled % 1000)) \div 1000
           word == IF k < 0 THEN (WordSize - hash) % WordSize ELSE hash
<1>1. scaled \in Int
      OBVIOUS
<1>2. scaled % 1000 \in 0 .. 999
      BY <1>1, RemainderIs
<1> HIDE DEF scaled
<1>3. size * (scaled % 1000) \in Int
      BY <1>2
<1>4. hash \in Int
      BY <1>3
<1> HIDE DEF hash
<1>5. word \in Int
  <2>1. WordSize \in Nat \ {0}
        BY TableAssumption
  <2>2. (WordSize - hash) % WordSize \in 0 .. WordSize - 1
        BY <2>1, <1>4, RemainderIs
  <2> QED BY <2>1, <2>2, <1>4
<1> HIDE DEF word
<1>6. word % size \in 0 .. size - 1
      BY <1>5, RemainderIs
<1> QED BY <1>6 DEF HashFunction, word, hash, scaled

LEMMA CountIs ==
  ASSUME NEW c \in 0 .. WordSize - 1
  PROVE  Plus(c) \in 0 .. WordSize - 1 /\ Minus(c) \in 0 .. WordSize - 1
<1>1. WordSize \in Nat \ {0}
      BY TableAssumption
<1>2. c + 1 \in Int /\ c + WordSize - 1 \in Int
      BY <1>1
<1> QED BY <1>1, <1>2, RemainderIs DEF Plus, Minus

LEMMA LeastExists ==
  ASSUME NEW T \in SUBSET Nat, T # {}
  PROVE  Min(T) \in T /\ \A j \in T : Min(T) <= j
<1>1. PICK m \in T : \A j \in T : ~(<<j, m>> \in OpToRel(<, Nat))
      BY NatLessThanWellFounded, WFMin
<1>2. \A j \in T : ~(j < m)
      BY <1>1 DEF OpToRel
<1>3. \A j \in T : m <= j
      BY <1>2
<1> QED BY <1>3 DEF Min

LEMMA PositionIs ==
  ASSUME NEW b, b.list \in Seq(Entries), NEW k
  PROVE  /\ Position(b, k) = 0 => \A i \in 1 .. Len(b.list) : b.list[i].key # k
         /\ Position(b, k) # 0 => /\ Position(b, k) \in 1 .. Len(b.list)
                                  /\ b.list[Position(b, k)].key = k
<1> DEFINE I == {i \in 1 .. Len(b.list) : b.list[i].key = k}
<1>1. Position(b, k) = IF I # {} THEN Min(I) ELSE 0
      BY DEF Position, SelectInSeq
<1>2. I \in SUBSET Nat /\ 0 \notin I
      OBVIOUS
<1>3. CASE I = {}
      BY <1>1, <1>3
<1>4. CASE I # {}
  <2>1. Min(I) \in I
        BY <1>2, <1>4, LeastExists
  <2> QED BY <1>1, <1>2, <1>4, <2>1
<1> QED BY <1>3, <1>4

\* No key twice.
OnceEach(list) == \A m, n \in DOMAIN list : list[m].key = list[n].key => m = n

LEMMA RemovedIs ==
  ASSUME NEW s \in Seq(Entries), NEW p \in 1 .. Len(s)
  PROVE  /\ RemoveAt(s, p) \in Seq(Entries) /\ Len(RemoveAt(s, p)) = Len(s) - 1
         /\ \A i \in 1 .. Len(s) - 1 : RemoveAt(s, p)[i] = s[IF i < p THEN i ELSE i + 1]
<1> DEFINE a == SubSeq(s, 1, p - 1)
           c == SubSeq(s, p + 1, Len(s))
<1>1. a \in Seq(Entries) /\ Len(a) = p - 1 /\ \A i \in 1 .. p - 1 : a[i] = s[i]
      OBVIOUS
<1>2. c \in Seq(Entries) /\ Len(c) = Len(s) - p /\ \A i \in 1 .. Len(s) - p : c[i] = s[p + i]
      OBVIOUS
<1>3. RemoveAt(s, p) = a \o c
      BY DEF RemoveAt
<1> HIDE DEF a, c
<1>4. a \o c \in Seq(Entries) /\ Len(a \o c) = Len(s) - 1
  <2>1. a \o c \in Seq(Entries)
        BY <1>1, <1>2, ConcatProperties
  <2>2. Len(a \o c) = Len(a) + Len(c)
        BY <1>1, <1>2, ConcatProperties
  <2> QED BY <2>1, <2>2, <1>1, <1>2
<1>5. ASSUME NEW i \in 1 .. Len(s) - 1 PROVE (a \o c)[i] = s[IF i < p THEN i ELSE i + 1]
  <2>1. CASE i < p
        BY <2>1, <1>1, <1>2
  <2>2. CASE ~(i < p)
    <3>1. (a \o c)[i] = c[i - (p - 1)]
          BY <2>2, <1>1, <1>2
    <3>2. i - (p - 1) \in 1 .. Len(s) - p /\ p + (i - (p - 1)) = i + 1
          BY <2>2
    <3> QED BY <3>1, <3>2, <2>2, <1>2
  <2> QED BY <2>1, <2>2
<1> QED BY <1>3, <1>4, <1>5

-----------------------------------------------------------------------------
(***************************************************************************)
(* Buckets.                                                                *)
(***************************************************************************)

Buckets == [type : {"list", "tree"}, list : Seq(Entries), tree : Trees, esize : 0 .. WordSize - 1]

\* What is true of every bucket: only once the sentinel was lifted need its tree
\* not be one.
Orderly(b) ==
  /\ b \in Buckets
  /\ b.type = "list" => OnceEach(b.list)
  /\ b.tree.kid[Nil] = NoKids => IsTree(b.tree, b.tree.used)

Holds(b, j, w) == \E e \in Contents(b) : e[2] = j /\ e[3] = w

OneEach(b) == \A d, e \in Contents(b) : d[2] = e[2] => d = e

Found(b, k) ==
  IF b.type = "tree" THEN
     LET n == TreeFind(b.tree, k) IN IF n = Nil THEN NULL ELSE b.tree.value[n]
  ELSE IF Position(b, k) = 0 THEN NULL ELSE b.list[Position(b, k)].value

LEMMA BucketFields ==
  ASSUME NEW b \in Buckets
  PROVE  /\ b.type \in {"list", "tree"} /\ b.list \in Seq(Entries) /\ b.tree \in Trees
         /\ b.esize \in 0 .. WordSize - 1
         /\ \A i \in 1 .. Len(b.list) : b.list[i].key \in Keys /\ b.list[i].value \in Values
<1>1. b.list \in Seq(Entries)
      BY DEF Buckets
<1>2. ASSUME NEW i \in 1 .. Len(b.list) PROVE b.list[i].key \in Keys /\ b.list[i].value \in Values
  <2>1. b.list[i] \in Entries
        BY <1>1
  <2> QED BY <2>1 DEF Entries
<1> QED BY <1>2 DEF Buckets

LEMMA ContentsAre ==
  ASSUME NEW b \in Buckets
  PROVE  /\ b.type = "list" => /\ Contents(b) = {<<i, b.list[i].key, b.list[i].value>> : i \in 1 .. Len(b.list)}
                               /\ \A i \in 1 .. Len(b.list) : <<i, b.list[i].key, b.list[i].value>> \in Contents(b)
         /\ b.type = "tree" => /\ Contents(b) = {<<n, b.tree.key[n], b.tree.value[n]>> : n \in b.tree.used}
                               /\ \A n \in b.tree.used : <<n, b.tree.key[n], b.tree.value[n]>> \in Contents(b)
<1>1. b.list \in Seq(Entries)
      BY BucketFields
<1>2. DOMAIN b.list = 1 .. Len(b.list)
      BY <1>1
<1> QED BY <1>2 DEF Contents

LEMMA HoldsIs ==
  ASSUME NEW b \in Buckets, NEW j, NEW w
  PROVE  /\ b.type = "list" =>
              (Holds(b, j, w) <=> \E i \in 1 .. Len(b.list) : b.list[i].key = j /\ b.list[i].value = w)
         /\ b.type = "tree" =>
              (Holds(b, j, w) <=> \E n \in b.tree.used : b.tree.key[n] = j /\ b.tree.value[n] = w)
<1>1. ASSUME b.type = "list"
      PROVE  Holds(b, j, w) <=> \E i \in 1 .. Len(b.list) : b.list[i].key = j /\ b.list[i].value = w
  <2>1. ASSUME NEW e \in Contents(b), e[2] = j, e[3] = w
        PROVE  \E i \in 1 .. Len(b.list) : b.list[i].key = j /\ b.list[i].value = w
    <3>1. PICK i \in 1 .. Len(b.list) : e = <<i, b.list[i].key, b.list[i].value>>
          BY <1>1, ContentsAre
    <3> QED BY <3>1, <2>1
  <2>2. ASSUME NEW i \in 1 .. Len(b.list), b.list[i].key = j, b.list[i].value = w
        PROVE  \E e \in Contents(b) : e[2] = j /\ e[3] = w
    <3>1. <<i, b.list[i].key, b.list[i].value>> \in Contents(b)
          BY <1>1, ContentsAre
    <3> QED BY <3>1, <2>2
  <2> QED BY <2>1, <2>2 DEF Holds
<1>2. ASSUME b.type = "tree"
      PROVE  Holds(b, j, w) <=> \E n \in b.tree.used : b.tree.key[n] = j /\ b.tree.value[n] = w
  <2>1. ASSUME NEW e \in Contents(b), e[2] = j, e[3] = w
        PROVE  \E n \in b.tree.used : b.tree.key[n] = j /\ b.tree.value[n] = w
    <3>1. PICK n \in b.tree.used : e = <<n, b.tree.key[n], b.tree.value[n]>>
          BY <1>2, ContentsAre
    <3> QED BY <3>1, <2>1
  <2>2. ASSUME NEW n \in b.tree.used, b.tree.key[n] = j, b.tree.value[n] = w
        PROVE  \E e \in Contents(b) : e[2] = j /\ e[3] = w
    <3>1. <<n, b.tree.key[n], b.tree.value[n]>> \in Contents(b)
          BY <1>2, ContentsAre
    <3> QED BY <3>1, <2>2
  <2> QED BY <2>1, <2>2 DEF Holds
<1> QED BY <1>1, <1>2

LEMMA TreeIsSound ==
  ASSUME NEW t \in Trees, IsTree(t, t.used)
  PROVE  Linked(t) /\ Sorted(t) /\ t.kid[Nil] = NoKids
<1>1. PICK U \in Unders : TreeOn(t, t.used, U)
      BY DEF IsTree
<1>2. Linked(t)
      BY <1>1, TreeOnIsLinked
<1>3. Sorted(t)
      BY <1>1, TreeOnIsSorted
<1> QED BY <1>2, <1>3 DEF Linked

\* A search finds what the bucket holds of the key, when it holds it once.
LEMMA FoundIs ==
  ASSUME NEW b, Orderly(b), b.tree.kid[Nil] = NoKids, OneEach(b), NEW k \in Int
  PROVE  /\ \A w : Holds(b, k, w) => Found(b, k) = w
         /\ (\A w : ~Holds(b, k, w)) => Found(b, k) = NULL
<1>1. b \in Buckets
      BY DEF Orderly
<1>2. \A d, e : d \in Contents(b) /\ e \in Contents(b) /\ d[2] = e[2] => d[3] = e[3]
      BY DEF OneEach
<1>3. ASSUME NEW w, NEW v, Holds(b, k, w), Holds(b, k, v) PROVE w = v
      BY <1>2, <1>3 DEF Holds
<1>4. CASE b.type = "list"
  <2>1. b.list \in Seq(Entries)
        BY <1>1, BucketFields
  <2>2. CASE Position(b, k) = 0
    <3>1. \A i \in 1 .. Len(b.list) : b.list[i].key # k
          BY <2>1, <2>2, PositionIs
    <3>2. \A w : ~Holds(b, k, w)
          BY <1>1, <1>4, <3>1, HoldsIs
    <3>3. Found(b, k) = NULL
          BY <1>4, <2>2 DEF Found
    <3> QED BY <3>2, <3>3
  <2>3. CASE Position(b, k) # 0
    <3>1. Position(b, k) \in 1 .. Len(b.list) /\ b.list[Position(b, k)].key = k
          BY <2>1, <2>3, PositionIs
    <3>2. Holds(b, k, b.list[Position(b, k)].value)
          BY <1>1, <1>4, <3>1, HoldsIs
    <3>3. Found(b, k) = b.list[Position(b, k)].value
          BY <1>4, <2>3 DEF Found
    <3> QED BY <3>2, <3>3, <1>3
  <2> QED BY <2>2, <2>3
<1>5. CASE b.type = "tree"
  <2> DEFINE t == b.tree
             n == TreeFind(t, k)
  <2>1. t \in Trees /\ t.used \in SUBSET Nodes /\ IsTree(t, t.used)
        BY <1>1, BucketFields, TreeFields DEF Orderly
  <2>2. PICK U \in Unders : TreeOn(t, t.used, U)
        BY <2>1 DEF IsTree
  <2>3. /\ n = Nil => \A x \in t.used : t.key[x] # k
        /\ n # Nil => n \in t.used /\ t.key[n] = k
        BY <2>1, <2>2, TreeFindIs
  <2>4. Found(b, k) = IF n = Nil THEN NULL ELSE t.value[n]
        BY <1>5 DEF Found
  <2> HIDE DEF n
  <2>5. CASE n = Nil
    <3>1. \A w : ~Holds(b, k, w)
          BY <1>1, <1>5, <2>3, <2>5, HoldsIs
    <3> QED BY <3>1, <2>4, <2>5
  <2>6. CASE n # Nil
    <3>1. Holds(b, k, t.value[n])
          BY <1>1, <1>5, <2>3, <2>6, HoldsIs
    <3>2. Found(b, k) = t.value[n]
          BY <2>4, <2>6
    <3> QED BY <3>1, <3>2, <1>3
  <2> QED BY <2>5, <2>6
<1>6. b.type = "list" \/ b.type = "tree"
      BY <1>1, BucketFields
<1> QED BY <1>4, <1>5, <1>6

\* b2 is b with the key set to the value.
AddedTo(b, b2, k, v) ==
  /\ Orderly(b2) /\ Linked(b2.tree) /\ Holds(b2, k, v)
  /\ \A j, w : Holds(b2, j, w) => Holds(b, j, w) \/ (j = k /\ w = v)
  /\ \A j, w : j # k /\ Holds(b, j, w) => Holds(b2, j, w)

LEMMA UpdatedIs ==
  ASSUME NEW b, Orderly(b), Linked(b.tree), b.type = "list", NEW k \in Keys, NEW v \in Values,
         Position(b, k) # 0
  PROVE  AddedTo(b, [b EXCEPT !.list[Position(b, k)] = Node(k, v)], k, v)
<1> DEFINE p == Position(b, k)
           b2 == [b EXCEPT !.list[p] = Node(k, v)]
           l == b.list
           l2 == [l EXCEPT ![p] = Node(k, v)]
<1>1. b \in Buckets /\ l \in Seq(Entries) /\ OnceEach(l)
      BY BucketFields DEF Orderly
<1>2. p \in 1 .. Len(l) /\ l[p].key = k
      BY <1>1, PositionIs
<1> HIDE DEF p
<1>3. Node(k, v) \in Entries /\ Node(k, v).key = k /\ Node(k, v).value = v
      BY DEF Node, Entries
<1>4. l2 \in Seq(Entries) /\ Len(l2) = Len(l) /\ \A i \in 1 .. Len(l) : l2[i] = IF i = p THEN Node(k, v) ELSE l[i]
      BY <1>1, <1>2, <1>3
<1>5. b2.list = l2 /\ b2.tree = b.tree /\ b2.type = "list" /\ b2.esize = b.esize /\ b2 = [b EXCEPT !.list = l2]
      BY <1>1 DEF Buckets
<1> HIDE DEF l2
<1>6. b2 \in Buckets
      BY <1>1, <1>4, <1>5 DEF Buckets
<1> HIDE DEF b2
<1>7. OnceEach(l2)
  <2>1. \A i \in 1 .. Len(l) : l2[i].key = l[i].key
        BY <1>2, <1>3, <1>4
  <2>2. DOMAIN l2 = 1 .. Len(l) /\ DOMAIN l = 1 .. Len(l)
        BY <1>1, <1>4
  <2> QED BY <1>1, <2>1, <2>2 DEF OnceEach
<1>8. Orderly(b2)
      BY <1>5, <1>6, <1>7 DEF Orderly
<1>9. \A j, w : Holds(b2, j, w) <=> \E i \in 1 .. Len(l2) : l2[i].key = j /\ l2[i].value = w
  <2>1. b2.type = "list" /\ b2.list = l2
        BY <1>5
  <2>2. \A j, w : Holds(b2, j, w) <=> \E i \in 1 .. Len(b2.list) : b2.list[i].key = j /\ b2.list[i].value = w
        BY <2>1, <1>6, HoldsIs
  <2> QED BY <2>1, <2>2
<1>10. Holds(b2, k, v)
  <2>1. p \in 1 .. Len(l2) /\ l2[p].key = k /\ l2[p].value = v
        BY <1>2, <1>3, <1>4
  <2> QED BY <2>1, <1>9
<1>11. ASSUME NEW j, NEW w, Holds(b2, j, w) PROVE Holds(b, j, w) \/ (j = k /\ w = v)
  <2>1. PICK i \in 1 .. Len(l) : l2[i].key = j /\ l2[i].value = w
        BY <1>4, <1>11, <1>9
  <2> QED BY <2>1, <1>1, <1>3, <1>4, HoldsIs
<1>12. ASSUME NEW j, NEW w, j # k, Holds(b, j, w) PROVE Holds(b2, j, w)
  <2>1. PICK i \in 1 .. Len(l) : l[i].key = j /\ l[i].value = w
        BY <1>1, <1>12, HoldsIs
  <2>2. l2[i].key = j /\ l2[i].value = w
        BY <2>1, <1>2, <1>4, <1>12
  <2> QED BY <2>2, <1>4, <1>9
<1> QED BY <1>5, <1>8, <1>10, <1>11, <1>12 DEF AddedTo, b2, p

LEMMA PrependedIs ==
  ASSUME NEW b, Orderly(b), Linked(b.tree), b.type = "list", NEW k \in Keys, NEW v \in Values,
         Position(b, k) = 0, Len(b.list) < MaxNodes
  PROVE  AddedTo(b, Prepended(b, k, v), k, v)
<1> DEFINE l == b.list
           l2 == <<Node(k, v)>> \o l
           longer == [b EXCEPT !.list = <<Node(k, v)>> \o @, !.esize = Plus(@)]
<1>1. b \in Buckets /\ l \in Seq(Entries) /\ OnceEach(l) /\ Len(l) \in Nat
      BY BucketFields DEF Orderly
<1>2. \A i \in 1 .. Len(l) : l[i].key # k
      BY <1>1, PositionIs
<1>3. Node(k, v) \in Entries /\ Node(k, v).key = k /\ Node(k, v).value = v
      BY DEF Node, Entries
<1>4. l2 \in Seq(Entries) /\ Len(l2) = Len(l) + 1 /\ l2[1] = Node(k, v) /\ \A i \in 1 .. Len(l) : l2[i + 1] = l[i]
      BY <1>1, <1>3
<1>5. longer.list = l2 /\ longer.tree = b.tree /\ longer.type = "list" /\ longer.esize = Plus(b.esize)
      /\ longer = [b EXCEPT !.list = l2, !.esize = Plus(b.esize)]
      BY <1>1 DEF Buckets
<1> HIDE DEF l2
<1>6. longer \in Buckets
  <2>1. Plus(b.esize) \in 0 .. WordSize - 1
        BY <1>1, BucketFields, CountIs
  <2> QED BY <1>1, <1>4, <1>5, <2>1 DEF Buckets
<1>7. Prepended(b, k, v) = IF longer.esize > Threshold THEN Converted(longer) ELSE longer
      BY DEF Prepended
<1> HIDE DEF longer
<1>8. ASSUME NEW i \in 1 .. Len(l2) PROVE i = 1 \/ \E h \in 1 .. Len(l) : i = h + 1 /\ l2[i] = l[h]
  <2>1. CASE i # 1
    <3>1. i - 1 \in 1 .. Len(l) /\ i = (i - 1) + 1
          BY <2>1, <1>1, <1>4
    <3> QED BY <3>1, <1>4
  <2> QED BY <2>1
<1>9. OnceEach(l2)
  <2>1. DOMAIN l2 = 1 .. Len(l2) /\ DOMAIN l = 1 .. Len(l)
        BY <1>1, <1>4
  <2>2. ASSUME NEW m \in 1 .. Len(l2), NEW n \in 1 .. Len(l2), l2[m].key = l2[n].key PROVE m = n
    <3>1. m = 1 \/ \E h \in 1 .. Len(l) : m = h + 1 /\ l2[m] = l[h]
          BY <1>8
    <3>2. n = 1 \/ \E h \in 1 .. Len(l) : n = h + 1 /\ l2[n] = l[h]
          BY <1>8
    <3>3. CASE m = 1 /\ n = 1
          BY <3>3
    <3>4. CASE m = 1 /\ n # 1
          BY <3>4, <3>2, <2>2, <1>2, <1>3, <1>4
    <3>5. CASE n = 1 /\ m # 1
          BY <3>5, <3>1, <2>2, <1>2, <1>3, <1>4
    <3>6. CASE m # 1 /\ n # 1
      <4>1. PICK g \in 1 .. Len(l) : m = g + 1 /\ l2[m] = l[g]
            BY <3>1, <3>6
      <4>2. PICK h \in 1 .. Len(l) : n = h + 1 /\ l2[n] = l[h]
            BY <3>2, <3>6
      <4>3. g = h
            BY <4>1, <4>2, <2>1, <2>2, <1>1 DEF OnceEach
      <4> QED BY <4>1, <4>2, <4>3
    <3> QED BY <3>3, <3>4, <3>5, <3>6
  <2> QED BY <2>1, <2>2 DEF OnceEach
<1>10. ASSUME NEW j, NEW w
       PROVE  (\E i \in 1 .. Len(l2) : l2[i].key = j /\ l2[i].value = w) <=>
                Holds(b, j, w) \/ (j = k /\ w = v)
  <2>1. ASSUME NEW i \in 1 .. Len(l2), l2[i].key = j, l2[i].value = w
        PROVE  Holds(b, j, w) \/ (j = k /\ w = v)
    <3>1. CASE i = 1
          BY <3>1, <2>1, <1>3, <1>4
    <3>2. CASE i # 1
      <4>1. PICK h \in 1 .. Len(l) : l2[i] = l[h]
            BY <3>2, <1>8
      <4> QED BY <4>1, <2>1, <1>1, HoldsIs
    <3> QED BY <3>1, <3>2
  <2>2. ASSUME Holds(b, j, w) PROVE \E i \in 1 .. Len(l2) : l2[i].key = j /\ l2[i].value = w
    <3>1. PICK h \in 1 .. Len(l) : l[h].key = j /\ l[h].value = w
          BY <2>2, <1>1, HoldsIs
    <3>2. h + 1 \in 1 .. Len(l2) /\ l2[h + 1] = l[h]
          BY <1>1, <1>4
    <3> QED BY <3>1, <3>2
  <2>3. 1 \in 1 .. Len(l2) /\ l2[1].key = k /\ l2[1].value = v
        BY <1>1, <1>3, <1>4
  <2> QED BY <2>1, <2>2, <2>3
<1>11. ASSUME NEW b2, Orderly(b2), Linked(b2.tree),
              \A j, w : Holds(b2, j, w) <=> \E i \in 1 .. Len(l2) : l2[i].key = j /\ l2[i].value = w
       PROVE  AddedTo(b, b2, k, v)
       BY <1>10, <1>11 DEF AddedTo
<1>12. CASE ~(longer.esize > Threshold)
  <2>1. Orderly(longer) /\ Linked(longer.tree)
        BY <1>5, <1>6, <1>9 DEF Orderly
  <2>2. \A j, w : Holds(longer, j, w) <=> \E i \in 1 .. Len(l2) : l2[i].key = j /\ l2[i].value = w
    <3>1. longer.type = "list" /\ longer.list = l2
          BY <1>5
    <3>2. \A j, w : Holds(longer, j, w) <=>
                       \E i \in 1 .. Len(longer.list) : longer.list[i].key = j /\ longer.list[i].value = w
          BY <3>1, <1>6, HoldsIs
    <3> QED BY <3>1, <3>2
  <2>3. AddedTo(b, longer, k, v)
        BY <2>1, <2>2, <1>11
  <2> QED BY <2>3, <1>7, <1>12
<1>13. CASE longer.esize > Threshold
  <2> DEFINE b2 == Converted(longer)
             t == Planted(l2)[Len(l2)]
  <2>1. t \in Grown(l2, Len(l2))
        BY <1>1, <1>4, NodesAssumption, PlantedIs
  <2>2. b2.type = "tree" /\ b2.list = <<>> /\ b2.tree = t /\ b2.esize = longer.esize
        BY <1>5, <1>6 DEF Converted, Buckets
  <2>3. b2 = [longer EXCEPT !.type = "tree", !.list = <<>>, !.tree = t]
        BY <1>5 DEF Converted
  <2> HIDE DEF t, b2
  <2>4. /\ t \in Trees /\ IsTree(t, t.used)
        /\ \A n \in t.used : \E i \in 1 .. Len(l2) : t.key[n] = l2[i].key /\ t.value[n] = l2[i].value
        /\ \A i \in 1 .. Len(l2) : \E n \in t.used : t.key[n] = l2[i].key /\ t.value[n] = l2[i].value
        BY <2>1 DEF Grown
  <2>5. b2 \in Buckets
    <3>1. <<>> \in Seq(Entries)
          OBVIOUS
    <3> QED BY <3>1, <2>3, <2>4, <1>6 DEF Buckets
  <2>6. Linked(b2.tree)
        BY <2>2, <2>4, TreeIsSound
  <2>7. Orderly(b2)
        BY <2>2, <2>4, <2>5 DEF Orderly
  <2>8. \A j, w : Holds(b2, j, w) <=> \E i \in 1 .. Len(l2) : l2[i].key = j /\ l2[i].value = w
    <3>1. \A j, w : Holds(b2, j, w) <=> \E n \in t.used : t.key[n] = j /\ t.value[n] = w
          BY <2>2, <2>5, HoldsIs
    <3> QED BY <3>1, <2>4
  <2>9. AddedTo(b, b2, k, v)
        BY <2>6, <2>7, <2>8, <1>11
  <2> QED BY <2>9, <1>7, <1>13 DEF b2
<1> QED BY <1>12, <1>13

LEMMA AddedToTreeIs ==
  ASSUME NEW b, Orderly(b), Linked(b.tree), b.type = "tree", NEW k \in Keys, NEW v \in Values,
         b.tree.used # Nodes
  PROVE  LET b2 == [b EXCEPT !.tree = TreeInsert(@, k, v), !.esize = Plus(@)]
         IN AddedTo(b, b2, k, v)
<1> DEFINE t == b.tree
           t2 == TreeInsert(t, k, v)
           new == Allocated(t, k)
           b2 == [b EXCEPT !.tree = TreeInsert(@, k, v), !.esize = Plus(@)]
<1>1. b \in Buckets /\ t \in Trees /\ IsTree(t, t.used) /\ t.used \in SUBSET Nodes
      BY BucketFields, TreeFields DEF Orderly, Linked
<1>2. k \in Int
      BY TableAssumption
<1>3. /\ new \in Nodes \ t.used /\ t2 \in Trees /\ t2.used = t.used \cup {new} /\ IsTree(t2, t2.used)
      /\ t2.key = [t.key EXCEPT ![new] = k] /\ t2.value = [t.value EXCEPT ![new] = v]
      BY <1>1, <1>2, TreeInsertIs
<1>4. b2.tree = t2 /\ b2.type = "tree" /\ b2 = [b EXCEPT !.tree = t2, !.esize = Plus(b.esize)]
      BY <1>1 DEF Buckets
<1> HIDE DEF t2, new
<1>5. t.key \in [Nodes -> Int] /\ t.value \in [Nodes -> Values \cup {NULL}]
      BY <1>1, TreeFields
<1>6. /\ t2.key[new] = k /\ t2.value[new] = v
      /\ \A n \in t.used : t2.key[n] = t.key[n] /\ t2.value[n] = t.value[n]
      BY <1>1, <1>3, <1>5
<1>7. b2 \in Buckets
  <2>1. Plus(b.esize) \in 0 .. WordSize - 1
        BY <1>1, BucketFields, CountIs
  <2> QED BY <1>1, <1>3, <1>4, <2>1 DEF Buckets
<1> HIDE DEF b2
<1>8. Orderly(b2) /\ Linked(b2.tree)
      BY <1>3, <1>4, <1>7, TreeIsSound DEF Orderly
<1>9. \A j, w : Holds(b, j, w) <=> \E n \in t.used : t.key[n] = j /\ t.value[n] = w
      BY <1>1, HoldsIs
<1>10. \A j, w : Holds(b2, j, w) <=> \E n \in t2.used : t2.key[n] = j /\ t2.value[n] = w
  <2>1. b2.type = "tree"
        BY <1>4
  <2>2. \A j, w : Holds(b2, j, w) <=> \E n \in b2.tree.used : b2.tree.key[n] = j /\ b2.tree.value[n] = w
        BY <2>1, <1>7, HoldsIs
  <2> QED BY <2>2, <1>4
<1>11. \A j, w : Holds(b2, j, w) <=> Holds(b, j, w) \/ (j = k /\ w = v)
  <2>1. ASSUME NEW j, NEW w, Holds(b2, j, w) PROVE Holds(b, j, w) \/ (j = k /\ w = v)
    <3>1. PICK n \in t2.used : t2.key[n] = j /\ t2.value[n] = w
          BY <2>1, <1>10
    <3>2. CASE n = new
          BY <3>1, <3>2, <1>6
    <3>3. CASE n \in t.used
          BY <3>1, <3>3, <1>6, <1>9
    <3> QED BY <3>2, <3>3, <1>3
  <2>2. ASSUME NEW j, NEW w, Holds(b, j, w) PROVE Holds(b2, j, w)
    <3>1. PICK n \in t.used : t.key[n] = j /\ t.value[n] = w
          BY <2>2, <1>9
    <3> QED BY <3>1, <1>3, <1>6, <1>10
  <2>3. Holds(b2, k, v)
        BY <1>3, <1>6, <1>10
  <2> QED BY <2>1, <2>2, <2>3
<1>12. AddedTo(b, b2, k, v)
       BY <1>8, <1>11 DEF AddedTo
<1> QED BY <1>12 DEF b2

\* b2 is b without the key.
TakenFrom(b, b2, k) ==
  /\ Orderly(b2)
  /\ \A j, w : Holds(b2, j, w) => Holds(b, j, w)
  /\ \A j, w : j # k /\ Holds(b, j, w) => Holds(b2, j, w)
  /\ OneEach(b) => \A w : ~Holds(b2, k, w)

LEMMA DeletedFromListIs ==
  ASSUME NEW b, Orderly(b), b.type = "list", NEW k \in Keys
  PROVE  TakenFrom(b, DeletedFromList(b, k), k)
<1> DEFINE p == Position(b, k)
           l == b.list
           b2 == DeletedFromList(b, k)
<1>1. b \in Buckets /\ l \in Seq(Entries) /\ OnceEach(l) /\ Len(l) \in Nat /\ b.esize \in 0 .. WordSize - 1
      BY BucketFields DEF Orderly
<1>2. \A j, w : Holds(b, j, w) <=> \E i \in 1 .. Len(l) : l[i].key = j /\ l[i].value = w
      BY <1>1, HoldsIs
<1>3. CASE p = 0
  <2>1. b2 = [b EXCEPT !.esize = Minus(b.esize)]
        BY <1>3 DEF DeletedFromList
  <2>2. Minus(b.esize) \in 0 .. WordSize - 1
        BY <1>1, CountIs
  <2>3. b2 \in Buckets /\ b2.type = "list" /\ b2.list = l /\ b2.tree = b.tree
        BY <1>1, <2>1, <2>2 DEF Buckets
  <2> HIDE DEF b2
  <2>4. Orderly(b2)
        BY <1>1, <2>3 DEF Orderly
  <2>5. \A j, w : Holds(b2, j, w) <=> Holds(b, j, w)
    <3>1. \A j, w : Holds(b2, j, w) <=> \E i \in 1 .. Len(b2.list) : b2.list[i].key = j /\ b2.list[i].value = w
          BY <2>3, HoldsIs
    <3> QED BY <3>1, <2>3, <1>2
  <2>6. \A w : ~Holds(b, k, w)
        BY <1>1, <1>2, <1>3, PositionIs
  <2> QED BY <2>4, <2>5, <2>6 DEF TakenFrom, b2
<1>4. CASE p # 0
  <2> DEFINE l2 == RemoveAt(l, p)
             Old(i) == IF i < p THEN i ELSE i + 1
  <2>1. p \in 1 .. Len(l) /\ l[p].key = k
        BY <1>1, <1>4, PositionIs
  <2>2. b2 = [b EXCEPT !.list = l2]
        BY <1>4 DEF DeletedFromList
  <2>3. l2 \in Seq(Entries) /\ Len(l2) = Len(l) - 1 /\ \A i \in 1 .. Len(l) - 1 : l2[i] = l[Old(i)]
        BY <1>1, <2>1, RemovedIs
  <2> HIDE DEF l2, p
  <2>4. b2 \in Buckets /\ b2.type = "list" /\ b2.list = l2 /\ b2.tree = b.tree
        BY <1>1, <2>2, <2>3 DEF Buckets
  <2> HIDE DEF b2
  <2>5. \A i \in 1 .. Len(l2) : Old(i) \in 1 .. Len(l) /\ Old(i) # p /\ l2[i] = l[Old(i)]
        BY <1>1, <2>1, <2>3
  <2>6. \A i \in 1 .. Len(l) : i # p => \E h \in 1 .. Len(l2) : Old(h) = i
    <3>1. ASSUME NEW i \in 1 .. Len(l), i # p PROVE \E h \in 1 .. Len(l2) : Old(h) = i
      <4>1. CASE i < p
        <5>1. i \in 1 .. Len(l2) /\ Old(i) = i
              BY <4>1, <1>1, <2>1, <2>3
        <5> QED BY <5>1
      <4>2. CASE ~(i < p)
        <5>1. i - 1 \in 1 .. Len(l2) /\ Old(i - 1) = i
              BY <4>2, <3>1, <1>1, <2>1, <2>3
        <5> QED BY <5>1
      <4> QED BY <4>1, <4>2
    <3> QED BY <3>1
  <2>7. OnceEach(l2)
    <3>1. DOMAIN l2 = 1 .. Len(l2) /\ DOMAIN l = 1 .. Len(l)
          BY <1>1, <2>3
    <3>2. ASSUME NEW m \in 1 .. Len(l2), NEW n \in 1 .. Len(l2), l2[m].key = l2[n].key PROVE m = n
      <4>1. Old(m) = Old(n)
            BY <3>1, <3>2, <2>5, <1>1 DEF OnceEach
      <4> QED BY <4>1, <2>1
    <3> QED BY <3>1, <3>2 DEF OnceEach
  <2>8. Orderly(b2)
        BY <2>4, <2>7 DEF Orderly
  <2>9. \A j, w : Holds(b2, j, w) <=> \E i \in 1 .. Len(l2) : l2[i].key = j /\ l2[i].value = w
    <3>1. \A j, w : Holds(b2, j, w) <=> \E i \in 1 .. Len(b2.list) : b2.list[i].key = j /\ b2.list[i].value = w
          BY <2>4, HoldsIs
    <3> QED BY <3>1, <2>4
  <2> HIDE DEF Old
  <2>10. ASSUME NEW j, NEW w, Holds(b2, j, w) PROVE Holds(b, j, w) /\ j # k
    <3>1. PICK i \in 1 .. Len(l2) : l2[i].key = j /\ l2[i].value = w
          BY <2>9, <2>10
    <3>2. Old(i) \in 1 .. Len(l) /\ Old(i) # p /\ l[Old(i)].key = j /\ l[Old(i)].value = w
          BY <2>5, <3>1
    <3>3. DOMAIN l = 1 .. Len(l)
          BY <1>1
    <3>4. j # k
          BY <3>2, <3>3, <2>1, <1>1 DEF OnceEach
    <3> QED BY <3>2, <3>4, <1>2
  <2>11. ASSUME NEW j, NEW w, j # k, Holds(b, j, w) PROVE Holds(b2, j, w)
    <3>1. PICK i \in 1 .. Len(l) : l[i].key = j /\ l[i].value = w
          BY <2>11, <1>2
    <3>2. PICK h \in 1 .. Len(l2) : Old(h) = i
          BY <3>1, <2>1, <2>6, <2>11
    <3>3. l2[h].key = j /\ l2[h].value = w
          BY <3>1, <3>2, <2>5
    <3> QED BY <3>3, <2>9
  <2> QED BY <2>8, <2>10, <2>11 DEF TakenFrom, b2
<1> QED BY <1>3, <1>4

\* A deletion from a tree, after which the sentinel may have risen.
LEMMA DeletedFromTreeIs ==
  ASSUME NEW b, Orderly(b), Linked(b.tree), b.type = "tree", NEW k \in Keys
  PROVE  /\ TakenFrom(b, DeletedFromTree(b, k), k)
         /\ HoldsKey(b, k) => \E e \in Contents(b) : e[2] = k /\ Contents(DeletedFromTree(b, k)) = Contents(b) \ {e}
<1> DEFINE t == b.tree
           n == TreeFind(t, k)
           t2 == TreeDelete(t, n)
           b2 == DeletedFromTree(b, k)
<1>1. b \in Buckets /\ t \in Trees /\ IsTree(t, t.used) /\ t.used \in SUBSET Nodes /\ b.esize \in 0 .. WordSize - 1
      BY BucketFields, TreeFields DEF Orderly, Linked
<1>2. k \in Int
      BY TableAssumption
<1>3. PICK U \in Unders : TreeOn(t, t.used, U)
      BY <1>1 DEF IsTree
<1>4. /\ n = Nil => \A x \in t.used : t.key[x] # k
      /\ n # Nil => n \in t.used /\ t.key[n] = k
      BY <1>1, <1>2, <1>3, TreeFindIs
<1>5. \A j, w : Holds(b, j, w) <=> \E m \in t.used : t.key[m] = j /\ t.value[m] = w
      BY <1>1, HoldsIs
<1>6. Contents(b) = {<<m, t.key[m], t.value[m]>> : m \in t.used}
      BY <1>1, ContentsAre
<1> HIDE DEF n
<1>7. CASE n = Nil
  <2>1. b2 = b
        BY <1>7 DEF DeletedFromTree, n
  <2>2. \A w : ~Holds(b, k, w)
        BY <1>4, <1>5, <1>7
  <2>3. ~HoldsKey(b, k)
    <3> SUFFICES ASSUME NEW e \in Contents(b), e[2] = k PROVE FALSE
        BY DEF HoldsKey
    <3>1. PICK m \in t.used : e = <<m, t.key[m], t.value[m]>>
          BY <1>6
    <3> QED BY <3>1, <1>4, <1>7
  <2> HIDE DEF b2
  <2>4. TakenFrom(b, b2, k)
        BY <2>1, <2>2 DEF TakenFrom
  <2> QED BY <2>3, <2>4 DEF b2
<1>8. CASE n # Nil
  <2>1. /\ t2 \in Trees /\ t2.used = t.used \ {n}
        /\ \A z \in Nodes : z # n => t2.key[z] = t.key[z] /\ t2.value[z] = t.value[z]
        /\ IsTree(t2, t.used \ {n}) \/ t2.kid[Nil] # NoKids
        BY <1>1, <1>4, <1>8, TreeDeleteIs
  <2>2. Minus(b.esize) \in 0 .. WordSize - 1
        BY <1>1, CountIs
  <2>3. b2 = [b EXCEPT !.tree = t2, !.esize = Minus(b.esize)]
        BY <1>8 DEF DeletedFromTree, n
  <2> HIDE DEF t2
  <2>4. b2 \in Buckets /\ b2.type = "tree" /\ b2.tree = t2
        BY <1>1, <2>1, <2>2, <2>3 DEF Buckets
  <2> HIDE DEF b2
  <2>5. Orderly(b2)
        BY <2>1, <2>4 DEF Orderly
  <2>6. \A j, w : Holds(b2, j, w) <=> \E m \in t2.used : t2.key[m] = j /\ t2.value[m] = w
    <3>1. \A j, w : Holds(b2, j, w) <=> \E m \in b2.tree.used : b2.tree.key[m] = j /\ b2.tree.value[m] = w
          BY <2>4, HoldsIs
    <3> QED BY <3>1, <2>4
  <2>7. \A m \in t2.used : m \in t.used /\ m # n /\ t2.key[m] = t.key[m] /\ t2.value[m] = t.value[m]
        BY <1>1, <2>1
  <2>8. \A j, w : Holds(b2, j, w) => Holds(b, j, w)
        BY <1>5, <2>6, <2>7
  <2>9. \A j, w : j # k /\ Holds(b, j, w) => Holds(b2, j, w)
    <3>1. ASSUME NEW j, NEW w, j # k, Holds(b, j, w) PROVE Holds(b2, j, w)
      <4>1. PICK m \in t.used : t.key[m] = j /\ t.value[m] = w
            BY <3>1, <1>5
      <4>2. m \in t2.used
            BY <4>1, <3>1, <1>4, <1>8, <2>1
      <4> QED BY <4>1, <4>2, <2>6, <2>7
    <3> QED BY <3>1
  <2> DEFINE e == <<n, t.key[n], t.value[n]>>
  <2>10. n \in t.used /\ e \in Contents(b) /\ e[2] = k /\ e[1] = n
         BY <1>4, <1>6, <1>8
  <2>11. Contents(b2) = Contents(b) \ {e}
    <3>1. Contents(b2) = {<<m, t2.key[m], t2.value[m]>> : m \in t2.used}
      <4>1. Contents(b2) = {<<m, b2.tree.key[m], b2.tree.value[m]>> : m \in b2.tree.used}
            BY <2>4, ContentsAre
      <4> QED BY <4>1, <2>4
    <3>2. Contents(b2) = {<<m, t.key[m], t.value[m]>> : m \in t.used \ {n}}
          BY <3>1, <2>1, <2>7
    <3> QED BY <3>2, <1>6
  <2>12. OneEach(b) => \A w : ~Holds(b2, k, w)
    <3> SUFFICES ASSUME OneEach(b), NEW w, Holds(b2, k, w) PROVE FALSE
        OBVIOUS
    <3>1. PICK d \in Contents(b2) : d[2] = k
          BY DEF Holds
    <3> HIDE DEF e
    <3> QED BY <3>1, <2>10, <2>11 DEF OneEach
  <2> QED BY <2>5, <2>8, <2>9, <2>10, <2>11, <2>12 DEF TakenFrom, b2
<1> QED BY <1>7, <1>8

-----------------------------------------------------------------------------
(***************************************************************************)
(* The table.                                                              *)
(***************************************************************************)

\* The inductive invariant.
TableIInv ==
  /\ table_size \in Nat \ {0}
  /\ DOMAIN buckets = 0 .. table_size - 1
  /\ buckets = [i \in 0 .. table_size - 1 |-> buckets[i]]
  /\ \A i \in 0 .. table_size - 1 :
        /\ Orderly(buckets[i])
        /\ \A j, w : Holds(buckets[i], j, w) => HashFunction(j, table_size) = i
  /\ element_count \in 0 .. WordSize - 1
  /\ live \in BOOLEAN

LEMMA FindIs ==
  ASSUME NEW k PROVE Find(k) = Found(buckets[HashFunction(k, table_size)], k)
BY DEF Find, Found, Bucket, Index

LEMMA FindNext ==
  ASSUME NEW k PROVE Find(k)' = Found(buckets'[HashFunction(k, table_size')], k)
<1>1. (Find(k) = Found(buckets[HashFunction(k, table_size)], k))'
      BY DEF Find, Found, Bucket, Index
<1> QED BY <1>1

LEMMA SoundNext ==
  Sound' <=> \A i \in DOMAIN buckets' : Linked(buckets'[i].tree)
BY DEF Sound

LEMMA UniqueNext ==
  Unique' <=> \A i \in DOMAIN buckets' : OneEach(buckets'[i])
BY DEF Unique, OneEach

LEMMA IInvNext ==
  /\ table_size' \in Nat \ {0}
  /\ DOMAIN buckets' = 0 .. table_size' - 1
  /\ buckets' = [i \in 0 .. table_size' - 1 |-> buckets'[i]]
  /\ \A i \in 0 .. table_size' - 1 :
        /\ Orderly(buckets'[i])
        /\ \A j, w : Holds(buckets'[i], j, w) => HashFunction(j, table_size') = i
  /\ element_count' \in 0 .. WordSize - 1
  /\ live' \in BOOLEAN
  => TableIInv'
BY DEF TableIInv

LEMMA DictNext ==
  ASSUME UNCHANGED vars
  PROVE  [k \in Keys |-> Find(k)]' = [k \in Keys |-> Find(k)]
BY FindIs, FindNext DEF vars

LEMMA ContentsFinite ==
  ASSUME NEW b \in Buckets
  PROVE  /\ IsFiniteSet(Contents(b))
         /\ b.type = "list" => Cardinality(Contents(b)) = Len(b.list)
         /\ b.type = "tree" => Cardinality(Contents(b)) = Cardinality(b.tree.used)
<1>1. b.list \in Seq(Entries) /\ Len(b.list) \in Nat /\ b.tree.used \in SUBSET Nodes /\ b.type \in {"list", "tree"}
      BY BucketFields, TreeFields
<1>2. CASE b.type = "list"
  <2> DEFINE D == 1 .. Len(b.list)
             f == [i \in D |-> <<i, b.list[i].key, b.list[i].value>>]
             C == Contents(b)
  <2>1. C = {<<i, b.list[i].key, b.list[i].value>> : i \in D}
        BY <1>2, ContentsAre
  <2>2. \A i \in D : f[i] = <<i, b.list[i].key, b.list[i].value>> /\ f[i][1] = i /\ f[i] \in C
        BY <2>1
  <2>3. IsFiniteSet(D) /\ Cardinality(D) = Len(b.list)
        BY <1>1, FS_Interval
  <2>4. \A c \in C : \E i \in D : f[i] = c
        BY <2>1
  <2>5. f \in [D -> C]
        BY <2>2
  <2> HIDE DEF f, C, D
  <2>6. f \in Surjection(D, C)
        BY <2>4, <2>5 DEF Surjection
  <2>7. f \in Injection(D, C)
    <3>1. \A m, n \in D : f[m] = f[n] => m = n
          BY <2>2
    <3> QED BY <3>1, <2>5 DEF Injection, IsInjective
  <2> QED BY <2>3, <2>6, <2>7, <1>2, FS_Surjection DEF C
<1>3. CASE b.type = "tree"
  <2> DEFINE D == b.tree.used
             f == [i \in D |-> <<i, b.tree.key[i], b.tree.value[i]>>]
             C == Contents(b)
  <2>1. C = {<<i, b.tree.key[i], b.tree.value[i]>> : i \in D}
        BY <1>3, ContentsAre
  <2>2. \A i \in D : f[i] = <<i, b.tree.key[i], b.tree.value[i]>> /\ f[i][1] = i /\ f[i] \in C
        BY <2>1
  <2>3. IsFiniteSet(D)
        BY <1>1, NodesAreFinite, FS_Subset
  <2>4. \A c \in C : \E i \in D : f[i] = c
        BY <2>1
  <2>5. f \in [D -> C]
        BY <2>2
  <2> HIDE DEF f, C
  <2>6. f \in Surjection(D, C)
        BY <2>4, <2>5 DEF Surjection
  <2>7. f \in Injection(D, C)
    <3>1. \A m, n \in D : f[m] = f[n] => m = n
          BY <2>2
    <3> QED BY <3>1, <2>5 DEF Injection, IsInjective
  <2> QED BY <2>3, <2>6, <2>7, <1>3, FS_Surjection DEF C
<1> QED BY <1>1, <1>2, <1>3

\* While there is room, no bucket has all the nodes.
LEMMA RoomIs ==
  ASSUME TableIInv, Room, NEW i \in 0 .. table_size - 1
  PROVE  /\ buckets[i].type = "list" => Len(buckets[i].list) < MaxNodes
         /\ buckets[i].type = "tree" => buckets[i].tree.used # Nodes
<1> DEFINE D == 0 .. table_size - 1
           Part(h) == {h} \X Contents(buckets[h])
           Parts == {Part(h) : h \in D}
           f == [h \in D |-> Part(h)]
           All == UNION Parts
           b == buckets[i]
<1>1. DOMAIN buckets = D /\ table_size \in Nat \ {0} /\ \A h \in D : buckets[h] \in Buckets
      BY DEF TableIInv, Orderly
<1>2. Cardinality(All) < MaxNodes
      BY <1>1 DEF Room
<1>3. \A h \in D : IsFiniteSet(Part(h)) /\ Cardinality(Part(h)) = Cardinality(Contents(buckets[h]))
  <2>1. ASSUME NEW h \in D
        PROVE  IsFiniteSet(Part(h)) /\ Cardinality(Part(h)) = Cardinality(Contents(buckets[h]))
    <3> DEFINE C == Contents(buckets[h])
    <3>1. IsFiniteSet(C) /\ IsFiniteSet({h}) /\ Cardinality({h}) = 1
          BY <1>1, ContentsFinite, FS_Singleton
    <3>2. Cardinality(C) \in Nat
          BY <3>1, FS_CardinalityType
    <3> HIDE DEF C
    <3>3. IsFiniteSet({h} \X C) /\ Cardinality({h} \X C) = 1 * Cardinality(C)
          BY <3>1, FS_Product
    <3> QED BY <3>2, <3>3 DEF C
  <2> QED BY <2>1
<1> HIDE DEF Part
<1>4. IsFiniteSet(Parts)
  <2>1. f \in Surjection(D, Parts)
        BY DEF Surjection
  <2>2. IsFiniteSet(D)
        BY <1>1, FS_Interval
  <2> HIDE DEF f, D, Parts
  <2> QED BY <2>1, <2>2, FS_Surjection
<1>5. \A P \in Parts : IsFiniteSet(P)
      BY <1>3
<1>6. IsFiniteSet(All) /\ Part(i) \in SUBSET All
  <2>1. Part(i) \in Parts
        OBVIOUS
  <2> HIDE DEF Parts
  <2> QED BY <2>1, <1>4, <1>5, FS_UNION
<1>7. IsFiniteSet(Part(i)) /\ Cardinality(Part(i)) = Cardinality(Contents(b))
      BY <1>3
<1> HIDE DEF All
<1>8. Cardinality(Part(i)) <= Cardinality(All) /\ Cardinality(All) \in Nat /\ Cardinality(Part(i)) \in Nat
      BY <1>6, <1>7, FS_Subset, FS_CardinalityType
<1>9. Cardinality(Contents(b)) < MaxNodes
      BY <1>2, <1>7, <1>8, NodesAssumption
<1>10. b \in Buckets
       BY <1>1
<1> HIDE DEF b
<1>11. /\ b.type = "list" => Len(b.list) < MaxNodes
       /\ b.type = "tree" => Cardinality(b.tree.used) < MaxNodes
       BY <1>9, <1>10, ContentsFinite
<1>12. b.tree.used = Nodes => ~(Cardinality(b.tree.used) < MaxNodes)
       BY NodesAreFinite
<1> QED BY <1>11, <1>12 DEF b

LEMMA EmptyBucketIs ==
  /\ Orderly(EmptyBucket) /\ EmptyBucket.tree = EmptyTree
  /\ \A j, w : ~Holds(EmptyBucket, j, w)
  /\ OneEach(EmptyBucket)
<1> DEFINE b == EmptyBucket
<1>1. EmptyTree \in Trees /\ IsTree(EmptyTree, EmptyTree.used)
      BY EmptyTreeIs
<1>2. 0 \in 0 .. WordSize - 1 /\ <<>> \in Seq(Entries)
      BY TableAssumption
<1>3. b \in Buckets /\ b.type = "list" /\ b.list = <<>> /\ b.tree = EmptyTree
      BY <1>1, <1>2 DEF EmptyBucket, Buckets
<1> HIDE DEF b
<1>4. Len(b.list) = 0 /\ DOMAIN b.list = {}
      BY <1>3
<1>5. OnceEach(b.list)
      BY <1>4 DEF OnceEach
<1>6. Orderly(b)
      BY <1>1, <1>3, <1>5 DEF Orderly
<1>7. \A j, w : ~Holds(b, j, w)
      BY <1>3, <1>4, HoldsIs
<1>8. Contents(b) = {}
      BY <1>3, <1>4, ContentsAre
<1>9. OneEach(b)
      BY <1>8 DEF OneEach
<1> QED BY <1>3, <1>6, <1>7, <1>9 DEF b

LEMMA InitKeeps == Init => TableIInv
<1> SUFFICES ASSUME Init PROVE TableIInv
    OBVIOUS
<1>1. table_size \in Nat \ {0} /\ 0 \in 0 .. WordSize - 1
      BY TableAssumption DEF Init
<1>2. buckets = [i \in 0 .. table_size - 1 |-> EmptyBucket] /\ element_count = 0 /\ live = TRUE
      BY DEF Init
<1>3. /\ DOMAIN buckets = 0 .. table_size - 1
      /\ buckets = [i \in 0 .. table_size - 1 |-> buckets[i]]
      /\ \A i \in 0 .. table_size - 1 : buckets[i] = EmptyBucket
      BY <1>2
<1> QED BY <1>1, <1>2, <1>3, EmptyBucketIs DEF TableIInv

\* The bucket of a key is one of the table.
LEMMA BucketOf ==
  ASSUME TableIInv, NEW k \in Keys
  PROVE  /\ k \in Int /\ Index(k) = HashFunction(k, table_size) /\ Index(k) \in 0 .. table_size - 1
         /\ Bucket(k) = buckets[Index(k)] /\ Orderly(Bucket(k))
<1>1. k \in Int
      BY TableAssumption
<1>2. Index(k) \in 0 .. table_size - 1
      BY <1>1, IndexInTable DEF TableIInv, Index
<1> QED BY <1>1, <1>2 DEF TableIInv, Index, Bucket

\* What an insertion does.
Inserted(k, v, b) ==
  /\ AddedTo(Bucket(k), b, k, v)
  /\ InBucket(k, b)
  /\ element_count' \in 0 .. WordSize - 1
  /\ UNCHANGED <<table_size, live>>

LEMMA InsertDoes ==
  ASSUME TableIInv, NEW k \in Keys, NEW v \in Values, Insert(k, v)
  PROVE  Sound /\ \E b : Inserted(k, v, b)
<1> DEFINE b == Bucket(k)
<1>1. Sound /\ UNCHANGED <<table_size, live>>
      BY DEF Insert
<1>2. Index(k) \in 0 .. table_size - 1 /\ b = buckets[Index(k)] /\ Orderly(b) /\ k \in Int
      BY BucketOf
<1>3. Linked(b.tree)
      BY <1>1, <1>2 DEF Sound, TableIInv
<1>4. element_count \in 0 .. WordSize - 1 /\ Plus(element_count) \in 0 .. WordSize - 1
      BY CountIs DEF TableIInv
<1>5. CASE UpdateInList(k, v)
  <2> DEFINE b2 == [b EXCEPT !.list[Position(b, k)] = Node(k, v)]
  <2>1. b.type = "list" /\ Position(b, k) # 0 /\ InBucket(k, b2) /\ UNCHANGED element_count
        BY <1>5 DEF UpdateInList
  <2>2. AddedTo(b, b2, k, v)
        BY <1>2, <1>3, <2>1, UpdatedIs
  <2> HIDE DEF b2, b
  <2>3. Inserted(k, v, b2)
        BY <1>1, <1>4, <2>1, <2>2 DEF Inserted, b
  <2> QED BY <1>1, <2>3
<1>6. CASE AddToList(k, v)
  <2> DEFINE b2 == Prepended(b, k, v)
  <2>1. b.type = "list" /\ Position(b, k) = 0 /\ Room /\ InBucket(k, b2) /\ element_count' = Plus(element_count)
        BY <1>6 DEF AddToList
  <2>2. Len(b.list) < MaxNodes
        BY <1>2, <2>1, RoomIs
  <2>3. AddedTo(b, b2, k, v)
        BY <1>2, <1>3, <2>1, <2>2, PrependedIs
  <2> HIDE DEF b2, b
  <2>4. Inserted(k, v, b2)
        BY <1>1, <1>4, <2>1, <2>3 DEF Inserted, b
  <2> QED BY <1>1, <2>4
<1>7. CASE AddToTree(k, v)
  <2> DEFINE b2 == [b EXCEPT !.tree = TreeInsert(@, k, v), !.esize = Plus(@)]
  <2>1. b.type = "tree" /\ Room /\ InBucket(k, b2) /\ element_count' = Plus(element_count)
        BY <1>7 DEF AddToTree
  <2>2. b.tree.used # Nodes
        BY <1>2, <2>1, RoomIs
  <2>3. AddedTo(b, b2, k, v)
        BY <1>2, <1>3, <2>1, <2>2, AddedToTreeIs
  <2> HIDE DEF b2, b
  <2>4. Inserted(k, v, b2)
        BY <1>1, <1>4, <2>1, <2>3 DEF Inserted, b
  <2> QED BY <1>1, <2>4
<1> QED BY <1>5, <1>6, <1>7 DEF Insert

\* What a deletion does.
Deleted(k, b) ==
  /\ TakenFrom(Bucket(k), b, k)
  /\ InBucket(k, b)
  /\ element_count' \in 0 .. WordSize - 1
  /\ UNCHANGED <<table_size, live>>

LEMMA DeleteDoes ==
  ASSUME TableIInv, NEW k \in Keys, Delete(k)
  PROVE  Sound /\ \E b : Deleted(k, b)
<1> DEFINE b == Bucket(k)
           b2 == IF b.type = "list" THEN DeletedFromList(b, k) ELSE DeletedFromTree(b, k)
<1>1. Sound /\ UNCHANGED <<table_size, live>> /\ InBucket(k, b2) /\ element_count' = Minus(element_count)
      BY DEF Delete
<1>2. Index(k) \in 0 .. table_size - 1 /\ b = buckets[Index(k)] /\ Orderly(b)
      BY BucketOf
<1>3. Linked(b.tree)
      BY <1>1, <1>2 DEF Sound, TableIInv
<1>4. element_count' \in 0 .. WordSize - 1
      BY <1>1, CountIs DEF TableIInv
<1>5. b.type \in {"list", "tree"}
      BY <1>2, BucketFields DEF Orderly
<1>6. TakenFrom(b, b2, k)
      BY <1>2, <1>3, <1>5, DeletedFromListIs, DeletedFromTreeIs
<1> HIDE DEF b2, b
<1>7. Deleted(k, b2)
      BY <1>1, <1>4, <1>6 DEF Deleted, b
<1> QED BY <1>1, <1>7

\* A bucket that is as it should be is put in the place of another.
LEMMA PutKeeps ==
  ASSUME TableIInv, NEW k \in Keys, NEW b, Orderly(b), InBucket(k, b),
         \A j, w : Holds(b, j, w) => Holds(Bucket(k), j, w) \/ j = k,
         element_count' \in 0 .. WordSize - 1, UNCHANGED <<table_size, live>>
  PROVE  TableIInv'
<1>1. /\ Index(k) \in 0 .. table_size - 1 /\ Bucket(k) = buckets[Index(k)]
      /\ Index(k) = HashFunction(k, table_size)
      BY BucketOf
<1>2. buckets' = [buckets EXCEPT ![Index(k)] = b]
      BY DEF InBucket
<1>3. /\ DOMAIN buckets' = 0 .. table_size - 1
      /\ buckets' = [i \in 0 .. table_size - 1 |-> buckets'[i]]
      /\ \A i \in 0 .. table_size - 1 : buckets'[i] = IF i = Index(k) THEN b ELSE buckets[i]
      BY <1>1, <1>2 DEF TableIInv
<1>4. ASSUME NEW i \in 0 .. table_size - 1
      PROVE  /\ Orderly(buckets'[i])
             /\ \A j, w : Holds(buckets'[i], j, w) => HashFunction(j, table_size) = i
  <2>1. CASE i = Index(k)
    <3>1. buckets'[i] = b
          BY <1>3, <2>1
    <3>2. \A j, w : Holds(buckets[i], j, w) => HashFunction(j, table_size) = i
          BY DEF TableIInv
    <3> QED BY <3>1, <3>2, <2>1, <1>1
  <2>2. CASE i # Index(k)
        BY <2>2, <1>3 DEF TableIInv
  <2> QED BY <2>1, <2>2
<1> QED BY <1>3, <1>4, IInvNext DEF TableIInv

LEMMA NextKeeps == TableIInv /\ [Next]_vars => TableIInv'
<1> SUFFICES ASSUME TableIInv, [Next]_vars PROVE TableIInv'
    OBVIOUS
<1>1. ASSUME NEW k \in Keys, NEW v \in Values, Insert(k, v) PROVE TableIInv'
  <2>1. PICK b : Inserted(k, v, b)
        BY <1>1, InsertDoes
  <2>2. /\ Orderly(b) /\ \A j, w : Holds(b, j, w) => Holds(Bucket(k), j, w) \/ j = k
        /\ InBucket(k, b) /\ element_count' \in 0 .. WordSize - 1 /\ UNCHANGED <<table_size, live>>
        BY <2>1 DEF Inserted, AddedTo
  <2> QED BY <2>2, PutKeeps
<1>2. ASSUME NEW k \in Keys, Delete(k) PROVE TableIInv'
  <2>1. PICK b : Deleted(k, b)
        BY <1>2, DeleteDoes
  <2>2. /\ Orderly(b) /\ \A j, w : Holds(b, j, w) => Holds(Bucket(k), j, w) \/ j = k
        /\ InBucket(k, b) /\ element_count' \in 0 .. WordSize - 1 /\ UNCHANGED <<table_size, live>>
        BY <2>1 DEF Deleted, TakenFrom
  <2> QED BY <2>2, PutKeeps
<1>3. CASE Destroy
  <2>1. /\ DOMAIN buckets' = 0 .. table_size - 1
        /\ buckets' = [i \in 0 .. table_size - 1 |-> buckets'[i]]
        /\ \A i \in 0 .. table_size - 1 : buckets'[i] = EmptyBucket
        /\ live' = FALSE /\ UNCHANGED <<table_size, element_count>>
        BY <1>3 DEF Destroy, TableIInv
  <2> QED BY <2>1, EmptyBucketIs, IInvNext DEF TableIInv
<1>4. CASE UNCHANGED vars
      BY <1>4, IInvNext DEF vars, TableIInv
<1> QED BY <1>1, <1>2, <1>3, <1>4 DEF Next

LEMMA TableAlways == Spec => []TableIInv
BY InitKeeps, NextKeeps, PTL DEF Spec

\* Every variable keeps its type and the counts their width, every key's bucket
\* exists and every node lies in the bucket its key is looked for in, and a list
\* holds a key at most once.
THEOREM TableHolds == Spec => []TableInv
<1>1. TableIInv => TableInv
  <2> SUFFICES ASSUME TableIInv PROVE TableInv
      OBVIOUS
  <2>1. \A i \in DOMAIN buckets : Orderly(buckets[i]) /\ buckets[i] \in Buckets
        BY DEF TableIInv, Orderly
  <2>2. TypeOK
    <3>1. ASSUME NEW i \in DOMAIN buckets
          PROVE  /\ buckets[i].type \in {"list", "tree"}
                 /\ buckets[i].list \in Seq([key : Keys, value : Values])
                 /\ buckets[i].esize \in 0 .. WordSize - 1
                 /\ buckets[i].tree.used \subseteq Nodes
          BY <2>1, BucketFields, TreeFields DEF Entries
    <3> QED BY <3>1 DEF TableIInv, TypeOK
  <2>3. InTheirBucket
    <3>1. \A k \in Keys : Index(k) \in DOMAIN buckets
          BY BucketOf DEF TableIInv
    <3>2. ASSUME NEW i \in DOMAIN buckets, NEW e \in Contents(buckets[i]) PROVE Index(e[2]) = i
      <4>1. Holds(buckets[i], e[2], e[3])
            BY DEF Holds
      <4> QED BY <4>1 DEF TableIInv, Index
    <3> QED BY <3>1, <3>2 DEF InTheirBucket
  <2>4. ListsUnique
        BY <2>1 DEF ListsUnique, Orderly, OnceEach
  <2> QED BY <2>2, <2>3, <2>4 DEF TableInv
<1> QED BY <1>1, TableAlways, PTL

\* As long as no rotation has given the sentinel a child, a tree has all its nodes,
\* each where its parent says, and in whatever shape the fix-ups leave it, a search
\* that goes left for less and right for more passes every node.
THEOREM SearchOrderHolds == Spec => []SearchOrder
<1>1. TableIInv => SearchOrder
  <2> SUFFICES ASSUME TableIInv, NEW i \in DOMAIN buckets, buckets[i].tree.kid[Nil] = NoKids
               PROVE  Linked(buckets[i].tree) /\ Sorted(buckets[i].tree)
      BY DEF SearchOrder
  <2>1. buckets[i].tree \in Trees /\ IsTree(buckets[i].tree, buckets[i].tree.used)
        BY BucketFields DEF TableIInv, Orderly
  <2> QED BY <2>1, TreeIsSound
<1> QED BY <1>1, TableAlways, PTL

\* An insertion, that of a node into a tree and that of a whole list into a new
\* one included, never lifts the sentinel and never cuts off a node.
THEOREM InsertionsKeepLinks == Spec => InsertKeepsLinks
<1>1. TableIInv /\ [Next]_vars => [\A k \in Keys, v \in Values : Insert(k, v) => Sound']_vars
  <2> SUFFICES ASSUME TableIInv, NEW k \in Keys, NEW v \in Values, Insert(k, v) PROVE Sound'
      OBVIOUS
  <2>1. PICK b : Inserted(k, v, b)
        BY InsertDoes
  <2>2. Linked(b.tree) /\ buckets' = [buckets EXCEPT ![Index(k)] = b]
        BY <2>1 DEF Inserted, AddedTo, InBucket
  <2>3. \A i \in DOMAIN buckets : Linked(buckets[i].tree)
        BY InsertDoes DEF Sound
  <2>4. ASSUME NEW i \in DOMAIN buckets' PROVE Linked(buckets'[i].tree)
    <3>1. i \in DOMAIN buckets /\ buckets'[i] = IF i = Index(k) THEN b ELSE buckets[i]
          BY <2>2
    <3> QED BY <3>1, <2>2, <2>3
  <2> QED BY <2>4, SoundNext
<1> QED BY <1>1, TableAlways, PTL DEF Spec, InsertKeepsLinks

\* Whatever rotations follow, a deletion from a tree that has the key frees one
\* node with the key and leaves the keys and values of all others.
THEOREM DeletionsTakeOne == Spec => DeleteTakesOne
<1> DEFINE One(k) == \E e \in Contents(Bucket(k)) :
                        e[2] = k /\ Contents(Bucket(k))' = Contents(Bucket(k)) \ {e}
           Had(k) == Delete(k) /\ Sound' /\ Bucket(k).type = "tree" /\ HoldsKey(Bucket(k), k)
<1>1. TableIInv /\ [Next]_vars => [\A k \in Keys : Had(k) => One(k)]_vars
  <2> SUFFICES ASSUME TableIInv, NEW k \in Keys, Had(k) PROVE One(k)
      OBVIOUS
  <2> DEFINE b == Bucket(k)
             b2 == DeletedFromTree(b, k)
  <2>1. b.type = "tree" /\ HoldsKey(b, k) /\ InBucket(k, b2) /\ Sound /\ UNCHANGED table_size
        BY DEF Delete
  <2>2. Index(k) \in DOMAIN buckets /\ b = buckets[Index(k)] /\ Orderly(b)
        BY BucketOf DEF TableIInv
  <2>3. Linked(b.tree)
        BY <2>1, <2>2 DEF Sound
  <2>4. \E e \in Contents(b) : e[2] = k /\ Contents(b2) = Contents(b) \ {e}
        BY <2>1, <2>2, <2>3, DeletedFromTreeIs
  <2>5. Contents(Bucket(k))' = Contents(buckets'[HashFunction(k, table_size')])
        BY DEF Bucket, Index
  <2>6. buckets'[HashFunction(k, table_size')] = b2
        BY <2>1, <2>2 DEF InBucket, Index
  <2> QED BY <2>4, <2>5, <2>6
<1> QED BY <1>1, TableAlways, PTL DEF Spec, DeleteTakesOne

-----------------------------------------------------------------------------
(***************************************************************************)
(* The dictionary.                                                         *)
(***************************************************************************)

Dict == [k \in Keys |-> Find(k)]

LEMMA FoundNow ==
  ASSUME TableIInv, Sound, Unique, NEW k \in Keys
  PROVE  /\ \A w : Holds(Bucket(k), k, w) => Find(k) = w
         /\ (\A w : ~Holds(Bucket(k), k, w)) => Find(k) = NULL
<1>1. k \in Int /\ Index(k) \in DOMAIN buckets /\ Bucket(k) = buckets[Index(k)] /\ Orderly(Bucket(k))
      /\ Index(k) = HashFunction(k, table_size)
      BY BucketOf DEF TableIInv
<1>2. OneEach(Bucket(k)) /\ Bucket(k).tree.kid[Nil] = NoKids
      BY <1>1 DEF Unique, OneEach, Sound, Linked
<1>3. Find(k) = Found(Bucket(k), k)
      BY <1>1, FindIs
<1> QED BY <1>1, <1>2, <1>3, FoundIs

\* The same after a step.
LEMMA FoundNext ==
  ASSUME TableIInv', Sound', Unique', NEW k \in Keys
  PROVE  LET b == buckets'[HashFunction(k, table_size')]
         IN /\ \A w : Holds(b, k, w) => Find(k)' = w
            /\ (\A w : ~Holds(b, k, w)) => Find(k)' = NULL
<1>1. k \in Int /\ table_size' \in Nat \ {0}
      BY TableAssumption DEF TableIInv
<1>2. HashFunction(k, table_size') \in DOMAIN buckets'
      BY <1>1, IndexInTable DEF TableIInv
<1> DEFINE b == buckets'[HashFunction(k, table_size')]
<1>3. Orderly(b) /\ OneEach(b) /\ b.tree.kid[Nil] = NoKids
      BY <1>2, UniqueNext, SoundNext DEF TableIInv, Linked
<1>4. Find(k)' = Found(b, k)
      BY FindNext
<1> QED BY <1>1, <1>3, <1>4, FoundIs

\* Which keys the bucket of j holds after a step that replaces the bucket of k.
LEMMA OtherBuckets ==
  ASSUME TableIInv, NEW k \in Keys, NEW j \in Keys, NEW b, InBucket(k, b), UNCHANGED table_size
  PROVE  LET b2 == buckets'[HashFunction(j, table_size')]
         IN IF Index(j) = Index(k) THEN b2 = b /\ Bucket(j) = Bucket(k) ELSE b2 = Bucket(j)
<1>1. Index(k) \in DOMAIN buckets /\ Index(j) \in DOMAIN buckets /\ Bucket(j) = buckets[Index(j)]
      /\ Bucket(k) = buckets[Index(k)] /\ Index(j) = HashFunction(j, table_size)
      BY BucketOf DEF TableIInv
<1>2. buckets' = [buckets EXCEPT ![Index(k)] = b]
      BY DEF InBucket
<1> QED BY <1>1, <1>2

LEMMA InsertIsPromised ==
  ASSUME TableIInv, TableIInv', Unique, Unique', Sound', NEW k \in Keys, NEW v \in Values, Insert(k, v)
  PROVE  Dict' = [Dict EXCEPT ![k] = v]
<1>1. PICK b : Inserted(k, v, b)
      BY InsertDoes
<1>2. Sound
      BY InsertDoes
<1>3. AddedTo(Bucket(k), b, k, v) /\ InBucket(k, b) /\ UNCHANGED table_size
      BY <1>1 DEF Inserted
<1>4. ASSUME NEW j \in Keys PROVE Find(j)' = IF j = k THEN v ELSE Find(j)
  <2> DEFINE b2 == buckets'[HashFunction(j, table_size')]
  <2>1. IF Index(j) = Index(k) THEN b2 = b /\ Bucket(j) = Bucket(k) ELSE b2 = Bucket(j)
        BY <1>3, OtherBuckets
  <2>2. /\ \A w : Holds(b2, j, w) => Find(j)' = w
        /\ (\A w : ~Holds(b2, j, w)) => Find(j)' = NULL
        BY FoundNext
  <2>3. /\ \A w : Holds(Bucket(j), j, w) => Find(j) = w
        /\ (\A w : ~Holds(Bucket(j), j, w)) => Find(j) = NULL
        BY <1>2, FoundNow
  <2> HIDE DEF b2
  <2>4. CASE j = k
    <3>1. Holds(b2, j, v)
          BY <1>3, <2>1, <2>4 DEF AddedTo
    <3> QED BY <3>1, <2>2, <2>4
  <2>5. CASE j # k
    <3>1. \A w : Holds(b2, j, w) <=> Holds(Bucket(j), j, w)
          BY <1>3, <2>1, <2>5 DEF AddedTo
    <3> QED BY <3>1, <2>2, <2>3, <2>5
  <2> QED BY <2>4, <2>5
<1>5. Dict' = [j \in Keys |-> Find(j)']
      BY DEF Dict
<1>6. Dict' = [j \in Keys |-> IF j = k THEN v ELSE Find(j)]
      BY <1>4, <1>5
<1> QED BY <1>6 DEF Dict

LEMMA DeleteIsPromised ==
  ASSUME TableIInv, TableIInv', Unique, Unique', Sound', NEW k \in Keys, Delete(k)
  PROVE  Dict' = [Dict EXCEPT ![k] = NULL]
<1>1. PICK b : Deleted(k, b)
      BY DeleteDoes
<1>2. Sound
      BY DeleteDoes
<1>3. TakenFrom(Bucket(k), b, k) /\ InBucket(k, b) /\ UNCHANGED table_size
      BY <1>1 DEF Deleted
<1>4. OneEach(Bucket(k))
      BY BucketOf DEF Unique, OneEach, TableIInv
<1>5. ASSUME NEW j \in Keys PROVE Find(j)' = IF j = k THEN NULL ELSE Find(j)
  <2> DEFINE b2 == buckets'[HashFunction(j, table_size')]
  <2>1. IF Index(j) = Index(k) THEN b2 = b /\ Bucket(j) = Bucket(k) ELSE b2 = Bucket(j)
        BY <1>3, OtherBuckets
  <2>2. /\ \A w : Holds(b2, j, w) => Find(j)' = w
        /\ (\A w : ~Holds(b2, j, w)) => Find(j)' = NULL
        BY FoundNext
  <2>3. /\ \A w : Holds(Bucket(j), j, w) => Find(j) = w
        /\ (\A w : ~Holds(Bucket(j), j, w)) => Find(j) = NULL
        BY <1>2, FoundNow
  <2> HIDE DEF b2
  <2>4. CASE j = k
    <3>1. \A w : ~Holds(b2, j, w)
          BY <1>3, <1>4, <2>1, <2>4 DEF TakenFrom
    <3> QED BY <3>1, <2>2, <2>4
  <2>5. CASE j # k
    <3>1. \A w : Holds(b2, j, w) <=> Holds(Bucket(j), j, w)
          BY <1>3, <2>1, <2>5 DEF TakenFrom
    <3> QED BY <3>1, <2>2, <2>3, <2>5
  <2> QED BY <2>4, <2>5
<1>6. Dict' = [j \in Keys |-> Find(j)']
      BY DEF Dict
<1>7. Dict' = [j \in Keys |-> IF j = k THEN NULL ELSE Find(j)]
      BY <1>5, <1>6
<1> QED BY <1>7 DEF Dict

LEMMA DestroyIsPromised ==
  ASSUME TableIInv, TableIInv', Unique', Sound', Destroy
  PROVE  Dict' = [k \in Keys |-> NULL]
<1>1. buckets' = [i \in DOMAIN buckets |-> EmptyBucket] /\ UNCHANGED table_size
      BY DEF Destroy
<1>2. ASSUME NEW j \in Keys PROVE Find(j)' = NULL
  <2>1. buckets'[HashFunction(j, table_size')] = EmptyBucket
        BY <1>1, BucketOf DEF TableIInv
  <2> QED BY <2>1, EmptyBucketIs, FoundNext
<1>3. Dict' = [j \in Keys |-> Find(j)']
      BY DEF Dict
<1> QED BY <1>2, <1>3

\* Every call is a step of the dictionary: an insertion sets the value a search for
\* its key finds, a deletion removes it, and the searches for all other keys find
\* what they found, through the conversion of a list and the fix-ups of a tree,
\* unless a key is inserted that is in a tree already or a deletion lifts the
\* sentinel.
THEOREM PromiseIsKept == Spec => KeepsPromise
<1>1. TableIInv /\ TableIInv' /\ [Next]_vars
        => [Unique /\ Unique' /\ Sound' => Promise!Next]_<<Dict>>
  <2> SUFFICES ASSUME TableIInv, TableIInv', [Next]_vars, Unique, Unique', Sound', Dict' # Dict
               PROVE  Promise!Next
      OBVIOUS
  <2>1. ASSUME NEW k \in Keys, NEW v \in Values, Insert(k, v) PROVE Promise!Next
    <3>1. Dict' = [Dict EXCEPT ![k] = v]
          BY <2>1, InsertIsPromised
    <3>2. Promise!Insert(k, v)
          BY <3>1 DEF Promise!Insert, Dict
    <3> QED BY <3>2 DEF Promise!Next
  <2>2. ASSUME NEW k \in Keys, Delete(k) PROVE Promise!Next
    <3>1. Dict' = [Dict EXCEPT ![k] = NULL]
          BY <2>2, DeleteIsPromised
    <3>2. Promise!Delete(k)
          BY <3>1 DEF Promise!Delete, Dict
    <3> QED BY <3>2 DEF Promise!Next
  <2>3. CASE Destroy
    <3>1. Dict' = [k \in Keys |-> NULL]
          BY <2>3, DestroyIsPromised
    <3>2. Promise!Destroy
          BY <3>1 DEF Promise!Destroy, Dict
    <3> QED BY <3>2 DEF Promise!Next
  <2>4. CASE UNCHANGED vars
    <3>1. Dict' = Dict
          BY <2>4, DictNext DEF Dict
    <3> QED BY <3>1
  <2> QED BY <2>1, <2>2, <2>3, <2>4 DEF Next
<1>2. TableIInv /\ TableIInv' /\ [Next]_vars
        => [Unique /\ Unique' /\ Sound' => Promise!Next]_<<[k \in Keys |-> Find(k)]>>
      BY <1>1 DEF Dict
<1> QED BY <1>2, TableAlways, PTL DEF Spec, KeepsPromise

\* A table starts as an empty dictionary.
THEOREM PromiseStarts == Init => Promise!Init
<1> SUFFICES ASSUME Init PROVE \A k \in Keys : Find(k) = NULL
    BY DEF Promise!Init
<1>1. TableIInv /\ \A i \in 0 .. table_size - 1 : buckets[i] = EmptyBucket
      BY InitKeeps DEF Init
<1>2. ASSUME NEW k \in Keys PROVE Find(k) = NULL
  <2>1. k \in Int /\ buckets[HashFunction(k, table_size)] = EmptyBucket
        BY <1>1, BucketOf
  <2>2. EmptyBucket.tree.kid[Nil] = NoKids
        BY EmptyBucketIs, EmptyTreeIs
  <2>3. Found(EmptyBucket, k) = NULL
        BY <2>1, <2>2, EmptyBucketIs, FoundIs
  <2> QED BY <2>1, <2>3, FindIs
<1> QED BY <1>2
=============================================================================
