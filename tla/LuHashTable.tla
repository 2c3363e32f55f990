----------------------------- MODULE LuHashTable -----------------------------
(***************************************************************************)
(* The hash table, src/src/lu_hash_table.c: buckets that are lists until   *)
(* they grow beyond a threshold and red-black trees ever after.            *)
(*                                                                         *)
(* The table has no lock of its own: its callers take theirs around each   *)
(* call, so each call is one action.  An allocation that fails ends the    *)
(* process (luhash_mm_malloc calls exit) and is left out with the checks   *)
(* for it.  lu_hash_table_resize is never called (its call is commented    *)
(* out), nor are lu_rb_tree_successor and lu_rb_tree_maximum.              *)
(***************************************************************************)
EXTENDS LuRbTree, SequencesExt

CONSTANTS
  Keys,        \* ints, negative ones too
  Values,
  Sizes,       \* the arguments of lu_hash_table_init
  DefaultSize, \* LU_HASH_TABLE_DEFAULT_SIZE, 16
  Threshold,   \* LU_HASH_BUCKET_LIST_THRESHOLD, 8
  WordSize     \* the number of values of size_t, 2^64

ASSUME TableAssumption ==
  /\ Keys \subseteq Int
  /\ NULL \notin Values
  /\ Sizes \subseteq Nat
  /\ DefaultSize \in Nat \ {0}
  /\ Threshold \in Nat \ {0}
  /\ WordSize \in Nat \ {0}

VARIABLES
  table_size,
  buckets,       \* index -> bucket
  element_count,
  live           \* the table was not destroyed

vars == <<table_size, buckets, element_count, live>>

-----------------------------------------------------------------------------
\* Mutated: the sign of the product is kept.
HashFunction_signed(key, size) ==
  LET scaled == (IF key < 0 THEN -key ELSE key) * 618
      hash == (size * (scaled % 1000)) \div 1000
  IN IF key < 0 THEN -hash ELSE hash

\* The fractional part of key times the golden ratio, to three places, times
\* the size; both are truncated towards zero, so a negative key gives a negative
\* product, which is converted to size_t before the remainder (or, for a power of
\* two, the mask that gives the same) is taken.
HashFunction(key, size) ==
  LET scaled == (IF key < 0 THEN -key ELSE key) * 618
      hash == (size * (scaled % 1000)) \div 1000
      word == IF key < 0 THEN (WordSize - hash) % WordSize ELSE hash
  IN word % size

EmptyBucket == [type |-> "list", list |-> <<>>, tree |-> EmptyTree, esize |-> 0]

Init ==
  /\ table_size \in {IF s = 0 THEN DefaultSize ELSE s : s \in Sizes}
  /\ buckets = [i \in 0 .. table_size - 1 |-> EmptyBucket]
  /\ element_count = 0
  /\ live = TRUE

Index(k) == HashFunction(k, table_size)
Bucket(k) == buckets[Index(k)]

Node(k, v) == [key |-> k, value |-> v]

\* The first node of a list with this key, 0 when there is none.
Position(b, k) == SelectInSeq(b.list, LAMBDA node : node.key = k)

\* lu_hash_table_find: lu_hash_list_find or lu_hash_rb_tree_find.
Find(k) ==
  LET b == Bucket(k)
  IN IF b.type = "tree" THEN
        LET n == TreeFind(b.tree, k) IN IF n = Nil THEN NULL ELSE b.tree.value[n]
     ELSE IF Position(b, k) = 0 THEN NULL ELSE b.list[Position(b, k)].value

\* No rotation has lifted the sentinel of a tree.  After one has, a search or a
\* deletion may meet any part of the tree, and nothing more is modelled.
Sound == \A i \in DOMAIN buckets : Linked(buckets[i].tree)

Plus(count) == (count + 1) % WordSize

Minus(count) == (count + WordSize - 1) % WordSize

\* The tree after each node of the list, from its head on.
Planted(list) ==
  LET tree[i \in 0 .. Len(list)] ==
        IF i = 0 THEN EmptyTree ELSE TreeInsert(tree[i - 1], list[i].key, list[i].value)
  IN tree

\* Mutated: the list is put into the tree without its last node.
Converted_dropsLast(b) ==
  [b EXCEPT !.type = "tree", !.list = <<>>, !.tree = Planted(b.list)[Len(b.list) - 1]]

\* lu_convert_bucket_to_rbtree.
Converted(b) ==
  [b EXCEPT !.type = "tree", !.list = <<>>, !.tree = Planted(b.list)[Len(b.list)]]

Prepended(b, k, v) ==
  LET longer == [b EXCEPT !.list = <<Node(k, v)>> \o @, !.esize = Plus(@)]
  IN IF longer.esize > Threshold THEN Converted(longer) ELSE longer

InBucket(k, b) == buckets' = [buckets EXCEPT ![Index(k)] = b]

\* What a bucket holds: its nodes, by their names in the tree or their places in
\* the list.
Contents(b) ==
  IF b.type = "list" THEN {<<i, b.list[i].key, b.list[i].value>> : i \in DOMAIN b.list}
  ELSE {<<n, b.tree.key[n], b.tree.value[n]>> : n \in b.tree.used}

\* The model has only MaxNodes nodes for all buckets together.
Room == Cardinality(UNION {{i} \X Contents(buckets[i]) : i \in DOMAIN buckets}) < MaxNodes

\* The node allocated before the search is forgotten, which no code can notice.
UpdateInList(k, v) ==
  /\ Bucket(k).type = "list"
  /\ Position(Bucket(k), k) # 0
  /\ InBucket(k, [Bucket(k) EXCEPT !.list[Position(Bucket(k), k)] = Node(k, v)])
  /\ UNCHANGED element_count

AddToList(k, v) ==
  /\ Bucket(k).type = "list"
  /\ Position(Bucket(k), k) = 0 /\ Room
  /\ InBucket(k, Prepended(Bucket(k), k, v))
  /\ element_count' = Plus(element_count)

AddToTree(k, v) ==
  LET b == Bucket(k)
  IN /\ b.type = "tree" /\ Room
     /\ InBucket(k, [b EXCEPT !.tree = TreeInsert(@, k, v), !.esize = Plus(@)])
     /\ element_count' = Plus(element_count)

Insert(k, v) ==
  /\ live /\ Sound
  /\ UpdateInList(k, v) \/ AddToList(k, v) \/ AddToTree(k, v)
  /\ UNCHANGED <<table_size, live>>

\* lu_hash_list_delete returns from the loop when it has found the key, and
\* counts down when it has not.
DeletedFromList(b, k) ==
  IF Position(b, k) # 0
  THEN [b EXCEPT !.list = RemoveAt(@, Position(b, k))]
  ELSE [b EXCEPT !.esize = Minus(@)]

\* Mutated: the node is freed with all that is below it.
DeletedFromTree_under(b, k) ==
  LET n == TreeFind(b.tree, k)
  IN IF n = Nil THEN b
     ELSE [b EXCEPT !.tree = FoldSet(LAMBDA m, t : Free(t, m), Relink(@, n, Nil, "left"), Under(@, n)),
                    !.esize = Minus(@)]

DeletedFromTree(b, k) ==
  LET n == TreeFind(b.tree, k)
  IN IF n = Nil THEN b ELSE [b EXCEPT !.tree = TreeDelete(@, n), !.esize = Minus(@)]

\* element_count goes down whether or not the key was there.
Delete(k) ==
  /\ live /\ Sound
  /\ InBucket(k, IF Bucket(k).type = "list" THEN DeletedFromList(Bucket(k), k)
                 ELSE DeletedFromTree(Bucket(k), k))
  /\ element_count' = Minus(element_count)
  /\ UNCHANGED <<table_size, live>>

\* lu_hash_table_destroy frees what it can reach.
Destroy ==
  /\ live /\ Sound
  /\ buckets' = [i \in DOMAIN buckets |-> EmptyBucket]
  /\ live' = FALSE
  /\ UNCHANGED <<table_size, element_count>>

Next ==
  \/ \E k \in Keys, v \in Values : Insert(k, v)
  \/ \E k \in Keys : Delete(k)
  \/ Destroy

Spec == Init /\ [][Next]_vars

-----------------------------------------------------------------------------
(***************************************************************************)
(* Properties.                                                             *)
(***************************************************************************)

HoldsKey(b, k) == \E e \in Contents(b) : e[2] = k

Unique == \A i \in DOMAIN buckets : \A d, e \in Contents(buckets[i]) : d[2] = e[2] => d = e

TypeOK ==
  /\ table_size \in Nat \ {0}
  /\ DOMAIN buckets = 0 .. table_size - 1
  /\ \A i \in DOMAIN buckets :
       /\ buckets[i].type \in {"list", "tree"}
       /\ buckets[i].list \in Seq([key : Keys, value : Values])
       /\ buckets[i].esize \in 0 .. WordSize - 1
       /\ buckets[i].tree.used \subseteq Nodes
  /\ element_count \in 0 .. WordSize - 1
  /\ live \in BOOLEAN

\* Whatever the sign of the key and the size of the table, the bucket a key is
\* looked for in exists, and every node lies in the bucket its key is looked for
\* in.
InTheirBucket ==
  /\ \A k \in Keys : Index(k) \in DOMAIN buckets
  /\ \A i \in DOMAIN buckets : \A e \in Contents(buckets[i]) : Index(e[2]) = i

\* A list holds a key at most once: the search before a node is added misses
\* none.  (A tree may hold it several times.)
ListsUnique ==
  \A i \in DOMAIN buckets : buckets[i].type = "list" =>
     \A m, n \in DOMAIN buckets[i].list :
        buckets[i].list[m].key = buckets[i].list[n].key => m = n

\* Every variable keeps its type, the counts their width, and a search in a list
\* finds all there is of a key.
TableInv == TypeOK /\ InTheirBucket /\ ListsUnique

Promise == INSTANCE HashPromise WITH dict <- [k \in Keys |-> Find(k)]

\* Every call is a step of the dictionary, the conversion of a bucket in the
\* middle of an insertion included, unless a key is inserted that is in a tree
\* already or a deletion lifts the sentinel.
KeepsPromise == [][Unique /\ Unique' /\ Sound' => Promise!Next]_<<[k \in Keys |-> Find(k)]>>

\* As long as no rotation has given the sentinel a child, a tree has all its nodes,
\* each where its parent says, and in whatever shape the fix-ups leave it, a search
\* that goes left for less and right for more passes every node
\* (lu_rb_tree_insert, lu_hash_rb_tree_delete).
SearchOrder ==
  \A i \in DOMAIN buckets :
     LET t == buckets[i].tree IN t.kid[Nil] = NoKids => Linked(t) /\ Sorted(t)

\* An insertion never lifts the sentinel and never cuts off a node, the insertions
\* of a conversion included: a tree that is only added to has all its nodes, each
\* where its parent says (lu_rb_tree_insert_fixup).
InsertKeepsLinks == [][\A k \in Keys, v \in Values : Insert(k, v) => Sound']_vars

\* A deletion from a tree that has the key takes out one node with the key and
\* leaves the others in the tree with the keys they had, while the sentinel stays
\* where it is (lu_hash_rb_tree_delete).
DeleteTakesOne ==
  [][\A k \in Keys :
       Delete(k) /\ Sound' /\ Bucket(k).type = "tree" /\ HoldsKey(Bucket(k), k) =>
         \E e \in Contents(Bucket(k)) :
            e[2] = k /\ Contents(Bucket(k))' = Contents(Bucket(k)) \ {e}]_vars

\* lu_hash_table.c:150 "@param key The key to be inserted or updated": a search
\* finds the value of the last insertion.
InsertedIsFound == [][\A k \in Keys, v \in Values : Insert(k, v) => Find(k)' = v]_vars

\* lu_hash_table-internal.h:124: esize_bucket is the "Number of elements in the
\* bucket".
BucketCountExact ==
  \A i \in DOMAIN buckets : live => buckets[i].esize = Cardinality(Contents(buckets[i]))

\* lu_hash_table-internal.h:133: element_count is the "Current number of elements
\* in the hash table".
ElementCountExact ==
  live => element_count =
            FoldFunction(LAMBDA b, sum : Cardinality(Contents(b)) + sum, 0, buckets)
=============================================================================
