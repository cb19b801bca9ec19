--------------------------- MODULE CollectionWalk ---------------------------
(***************************************************************************)
(* collection::to_vector() and map::to_entries(): native code copies the   *)
(* elements of a Java container out of its fields, without a lock, while   *)
(* Java code changes the container (external, modelled as the fields that  *)
(* java.util writes).                                                      *)
(*                                                                         *)
(* A container is a backing array ("array"), a chain of nodes ("linked"),  *)
(* an array of chains ("hash"), a search tree ("tree"), a list known only  *)
(* by its methods ("generic") or a plain Java array ("raw").  The elements *)
(* are numbers, so that a tree has an order; each has a node of its own.   *)
(* Java code excludes its own threads from each other, and its methods on  *)
(* a "generic" list from the walk's; an ArrayList that is inserted into or *)
(* removed from is seen between any two of its stores.  A walk begins      *)
(* between two operations.                                                 *)
(* The definitions that every module has are called InitWalk, NextWalk,    *)
(* ... here, so that one module can extend this one and JavaHeap.          *)
(***************************************************************************)
EXTENDS Integers, Sequences, FiniteSets, SequencesExt

CONSTANTS
    Element,     \* the elements that are ever in the container
    Kind,        \* the layouts that to_vector() recognises
    Buckets,     \* length of the first table of a hash map, and of an ArrayList's array
    MaxGuard,    \* nodes walked in one bucket, 1 << 20 in the code
    MaxVisited   \* a tree walk stops once it has visited more nodes, 1 << 24 in the code

Null == 0

ASSUME CollectionWalkAssumption ==
    /\ Element \subseteq Nat \ {Null} /\ IsFiniteSet(Element)
    /\ Kind \subseteq {"array", "linked", "hash", "tree", "generic", "raw"}
    /\ Buckets \in Nat \ {0} /\ MaxGuard \in Nat \ {0} /\ MaxVisited \in Nat

VARIABLES
    kind,        \* the layout of this container
    arrays,      \* the first and the second backing array
    table,       \* which of them the container uses
    size,        \* its field "size"
    next,        \* "next" of a node, or "right" in a tree
    left,        \* "left" of a tree node
    item,        \* "item" of a node: the element, or Null once it was unlinked
    content,     \* the elements, a list in its order, others as they came (history)
    shift,       \* what add(int, E) or remove() of an ArrayList is doing
    walk,        \* the locals of the walk
    result,      \* the vector it fills
    initial,     \* the elements when the walk began (history)
    ever,        \* and those added since, as they came or in the order of the chain (history)
    changes      \* the kinds of change during the walk (history)

container == <<arrays, table, size, next, left, item, content, shift>>
walkVars == <<kind, container, walk, result, initial, ever, changes>>

\* Members of a sequence without repetitions, their places, and the others without one.
Members(s) == {s[i] : i \in DOMAIN s}
Position(s, e) == CHOOSE i \in DOMAIN s : s[i] = e
Without(s, e) == RemoveAt(s, Position(s, e))

\* The first element behind place i that is in S, and the last one of all.
FirstIn(s, S, i) ==
    LET places == {j \in DOMAIN s : j > i /\ s[j] \in S} IN
    IF places = {} THEN Null ELSE s[Min(places)]
LastIn(s, S) == s[Max({j \in DOMAIN s : s[j] \in S})]

-----------------------------------------------------------------------------
(* Containers.                                                             *)

\* The elements and room for more.
Padded(s, n) == [i \in 1..n |-> IF i <= Len(s) THEN s[i] ELSE Null]

NoLinks == [e \in Element |-> Null]

\* Each element of s points to the one behind it.
Chain(s) == [e \in Element |->
                IF e \in Members(s) THEN FirstIn(s, Element, Position(s, e)) ELSE Null]

\* The bucket of an element in the first table t of a hash map, and in the second one,
\* which splits every bucket in two.
BucketOf(e, t) ==
    1 + (e % Buckets) + (IF t = 1 THEN 0 ELSE Buckets * ((e \div Buckets) % 2))
InBucket(b, t) == {e \in Element : BucketOf(e, t) = b}

\* The links within the buckets of table t that holds s, and their first nodes.
HashLinks(s, t) == [e \in Element |->
                       IF e \in Members(s)
                       THEN FirstIn(s, InBucket(BucketOf(e, t), t), Position(s, e)) ELSE Null]
Heads(s, t) == [b \in 1..(t * Buckets) |-> FirstIn(s, InBucket(b, t), 0)]

\* The search tree into which the elements of s were put in this order: below p are those
\* that no element put before p separates from p, and the first one put there is the child.
Between(x, y) == {z \in Element : (x < z /\ z < y) \/ (y < z /\ z < x)}
Below(s, p) ==
    {x \in Element : \A i \in 1..(Position(s, p) - 1) : s[i] # x /\ s[i] \notin Between(x, p)}
Smaller(s) == [p \in Element |->
                  IF p \in Members(s) THEN FirstIn(s, {x \in Below(s, p) : x < p}, 0) ELSE Null]
Larger(s) == [p \in Element |->
                  IF p \in Members(s) THEN FirstIn(s, {x \in Below(s, p) : x > p}, 0) ELSE Null]

\* The backing array: the elements and room, the table, or just "first" or "root".
ArrayOf(k, s) ==
    IF k \in {"array", "generic"} THEN Padded(s, Buckets)
    ELSE IF k = "raw" THEN s
    ELSE IF k = "hash" THEN Heads(s, 1) ELSE <<FirstIn(s, Element, 0)>>

\* The elements between "gap" and "to" are still to be moved, then "elem" is stored there
\* and the list is "list".
NoShift == [elem |-> Null, gap |-> 0, to |-> 0, list |-> <<>>]

NoWalk == [pc |-> "begin", n |-> 0, arr |-> 1, index |-> 0, node |-> Null, stack |-> <<>>, count |-> 0]

\* Any container with some of the elements.
Filled(k, s) ==
    /\ kind = k
    /\ arrays = <<ArrayOf(k, s), <<>>>>
    /\ table = 1
    /\ size = Len(s)
    /\ next = (IF k = "linked" THEN Chain(s) ELSE IF k = "hash" THEN HashLinks(s, 1)
               ELSE IF k = "tree" THEN Larger(s) ELSE NoLinks)
    /\ left = (IF k = "tree" THEN Smaller(s) ELSE NoLinks)
    /\ item = [e \in Element |-> e]
    /\ content = s
    /\ shift = NoShift
    /\ walk = NoWalk
    /\ result = <<>>
    /\ initial = Members(s)
    /\ ever = s
    /\ changes = {}

InitWalk ==
    \E k \in Kind : \E S \in SUBSET Element : \E s \in SetToSeqs(S) :
        (k \in {"array", "generic"} => Len(s) <= Buckets) /\ Filled(k, s)

-----------------------------------------------------------------------------
(* Java code that changes the container; "fresh" elements get new nodes.   *)

Running == walk.pc \notin {"begin", "done"}
Changed(what) == changes' = changes \cup {what}

\* Earlier changes make another initial container.
Underway == Running /\ UNCHANGED <<kind, walk, result, initial>>

\* The next operation comes when the last one is complete.
Java == Underway /\ shift = NoShift /\ UNCHANGED shift

\* ArrayList.add(E): into the array, or into a copy of twice the length.
ArrayAdd(e) ==
    LET length == Len(arrays[table]) IN
    /\ Java /\ kind \in {"array", "generic"}
    /\ \/ /\ size < length
          /\ arrays' = [arrays EXCEPT ![table][size + 1] = e]
          /\ UNCHANGED table
       \/ /\ size = length /\ table = 1
          /\ arrays' = [arrays EXCEPT ![2] = Padded(Append(content, e), 2 * length)]
          /\ table' = 2
    /\ size' = size + 1
    /\ content' = Append(content, e)
    /\ Changed("added")
    /\ UNCHANGED <<next, left, item>>

\* add(int, E) and remove() of a list whose methods are all there is to see.
ListInsert(e) ==
    /\ Java /\ kind = "generic" /\ size < Len(arrays[table])
    /\ \E i \in DOMAIN content :
          /\ content' = InsertAt(content, i, e)
          /\ arrays' = [arrays EXCEPT ![table] = Padded(InsertAt(content, i, e), Len(@))]
    /\ size' = size + 1
    /\ Changed("shifted")
    /\ UNCHANGED <<table, next, left, item>>

ListRemove(e) ==
    LET rest == Without(content, e) IN
    /\ Java /\ kind = "generic" /\ e \in Members(content)
    /\ arrays' = [arrays EXCEPT ![table] = Padded(rest, Len(@))]
    /\ size' = size - 1
    /\ content' = rest
    /\ Changed("removed")
    /\ UNCHANGED <<table, next, left, item>>

\* ArrayList.add(int, E): a copy of twice the length when the array is full; then the
\* elements from place i on move up, the last one first, and the new one is stored.
ArrayInsert(e) ==
    LET length == Len(arrays[table]) IN
    /\ Underway /\ shift = NoShift /\ kind = "array"
    /\ \/ size < length /\ UNCHANGED <<arrays, table>>
       \/ /\ size = length /\ table = 1
          /\ arrays' = [arrays EXCEPT ![2] = Padded(content, 2 * length)]
          /\ table' = 2
    /\ \E i \in DOMAIN content :
          shift' = [elem |-> e, gap |-> size + 1, to |-> i, list |-> InsertAt(content, i, e)]
    /\ Changed("shifted")
    /\ UNCHANGED <<size, next, left, item, content>>

\* ArrayList.remove(): the elements behind e move down, the first one first, and the last
\* place is nulled.
ArrayRemove(e) ==
    /\ Underway /\ shift = NoShift /\ kind = "array" /\ e \in Members(content)
    /\ shift' = [elem |-> Null, gap |-> Position(content, e), to |-> size, list |-> Without(content, e)]
    /\ Changed("shifted")
    /\ UNCHANGED <<arrays, table, size, next, left, item, content>>

\* System.arraycopy(), element by element, into the place of the one before.
ShiftOne ==
    LET from == IF shift.gap > shift.to THEN shift.gap - 1 ELSE shift.gap + 1 IN
    /\ Underway /\ shift.gap # shift.to
    /\ arrays' = [arrays EXCEPT ![table][shift.gap] = arrays[table][from]]
    /\ shift' = [shift EXCEPT !.gap = from]
    /\ UNCHANGED <<table, size, next, left, item, content, changes>>

ShiftEnd ==
    /\ Underway /\ shift # NoShift /\ shift.gap = shift.to
    /\ arrays' = [arrays EXCEPT ![table][shift.gap] = shift.elem]
    /\ content' = shift.list
    /\ size' = Len(shift.list)
    /\ shift' = NoShift
    /\ UNCHANGED <<table, next, left, item, changes>>

\* A store into a plain array replaces an element.
ArrayStore(e) ==
    /\ Java /\ kind = "raw"
    /\ \E i \in DOMAIN content :
          /\ arrays' = [arrays EXCEPT ![1][i] = e]
          /\ content' = [content EXCEPT ![i] = e]
    /\ Changed("removed")
    /\ UNCHANGED <<table, size, next, left, item>>

\* LinkedList.add().
LinkLast(e) ==
    /\ Java /\ kind = "linked"
    /\ IF content = <<>>
       THEN arrays' = [arrays EXCEPT ![1] = <<e>>] /\ UNCHANGED next
       ELSE next' = [next EXCEPT ![Last(content)] = e] /\ UNCHANGED arrays
    /\ size' = size + 1
    /\ content' = Append(content, e)
    /\ Changed("added")
    /\ UNCHANGED <<table, left, item>>

\* LinkedList.linkBefore(), for add(int, E): in front of place i.
LinkBefore(e, i) ==
    LET place == Position(ever, content[i]) IN
    /\ Java /\ kind = "linked"
    /\ IF i = 1
       THEN /\ arrays' = [arrays EXCEPT ![1] = <<e>>]
            /\ next' = [next EXCEPT ![e] = content[i]]
       ELSE /\ next' = [next EXCEPT ![content[i - 1]] = e, ![e] = content[i]]
            /\ UNCHANGED arrays
    /\ size' = size + 1
    /\ content' = InsertAt(content, i, e)
    /\ ever' = InsertAt(ever, place, e)
    /\ Changed("inserted")
    /\ UNCHANGED <<table, left, item>>

\* LinkedList.unlink() also nulls the fields of the node.
Unlink(e) ==
    LET rest == Without(content, e) IN
    /\ Java /\ kind = "linked" /\ e \in Members(content)
    /\ arrays' = [arrays EXCEPT ![1] = <<FirstIn(rest, Element, 0)>>]
    /\ next' = [[f \in Element |-> IF next[f] = e THEN next[e] ELSE next[f]] EXCEPT ![e] = Null]
    /\ item' = [item EXCEPT ![e] = Null]
    /\ size' = size - 1
    /\ content' = rest
    /\ Changed("removed")
    /\ UNCHANGED <<table, left>>

\* HashMap.put(): at the end of the bucket.
HashPut(e) ==
    LET bucket == InBucket(BucketOf(e, table), table) IN
    /\ Java /\ kind = "hash"
    /\ IF bucket \cap Members(content) = {}
       THEN arrays' = [arrays EXCEPT ![table][BucketOf(e, table)] = e] /\ UNCHANGED next
       ELSE next' = [next EXCEPT ![LastIn(content, bucket)] = e] /\ UNCHANGED arrays
    /\ size' = size + 1
    /\ content' = Append(content, e)
    /\ Changed("added")
    /\ UNCHANGED <<table, left, item>>

\* HashMap.remove(): the node keeps its own "next".
HashRemove(e) ==
    LET b == BucketOf(e, table)
        rest == Without(content, e) IN
    /\ Java /\ kind = "hash" /\ e \in Members(content)
    /\ arrays' = [arrays EXCEPT ![table][b] = FirstIn(rest, InBucket(b, table), 0)]
    /\ next' = [f \in Element |-> IF next[f] = e /\ f \in Members(content) THEN next[e] ELSE next[f]]
    /\ size' = size - 1
    /\ content' = rest
    /\ Changed("removed")
    /\ UNCHANGED <<table, left, item>>

\* HashMap.resize(): a table of twice the length; the old one is emptied, nodes are relinked.
HashResize ==
    /\ Java /\ kind = "hash" /\ table = 1
    /\ arrays' = <<[b \in DOMAIN arrays[1] |-> Null], Heads(content, 2)>>
    /\ table' = 2
    /\ next' = [e \in Element |-> IF e \in Members(content) THEN HashLinks(content, 2)[e] ELSE next[e]]
    /\ Changed("resized")
    /\ UNCHANGED <<size, left, item, content>>

\* TreeMap.put(): a leaf below one of the two neighbours.
TreePut(e) ==
    /\ Java /\ kind = "tree"
    /\ IF content = <<>>
       THEN arrays' = [arrays EXCEPT ![1] = <<e>>] /\ UNCHANGED <<next, left>>
       ELSE /\ UNCHANGED arrays
            /\ \E p \in Members(content) :
                  /\ Between(p, e) \cap Members(content) = {}
                  /\ \/ p < e /\ next[p] = Null /\ next' = [next EXCEPT ![p] = e] /\ UNCHANGED left
                     \/ p > e /\ left[p] = Null /\ left' = [left EXCEPT ![p] = e] /\ UNCHANGED next
    /\ size' = size + 1
    /\ content' = Append(content, e)
    /\ Changed("added")
    /\ UNCHANGED <<table, item>>

\* TreeMap.rotateLeft() and rotateRight(), part of rebalancing: the child c of p on the
\* side "down" takes the place of p, and p becomes its child on the other side.
Rotated(p, c, down, other) ==
    LET lift(f) == [e \in Element |-> IF f[e] = p THEN c ELSE f[e]] IN
    [down |-> [lift(down) EXCEPT ![p] = other[c]], other |-> [lift(other) EXCEPT ![c] = p]]

Lifted(p, c) ==
    /\ arrays' = IF arrays[1] = <<p>> THEN [arrays EXCEPT ![1] = <<c>>] ELSE arrays
    /\ Changed("rotated")
    /\ UNCHANGED <<table, size, item, content>>

RotateLeft(p) ==
    LET rotated == Rotated(p, next[p], next, left) IN
    /\ Java /\ kind = "tree" /\ next[p] # Null
    /\ next' = rotated.down /\ left' = rotated.other
    /\ Lifted(p, next[p])

RotateRight(p) ==
    LET rotated == Rotated(p, left[p], left, next) IN
    /\ Java /\ kind = "tree" /\ left[p] # Null
    /\ left' = rotated.down /\ next' = rotated.other
    /\ Lifted(p, left[p])

Mutate ==
    \/ \E e \in Element \ Members(ever) :
          /\ \/ ArrayAdd(e) \/ ArrayStore(e) \/ ArrayInsert(e) \/ ListInsert(e)
             \/ LinkLast(e) \/ HashPut(e) \/ TreePut(e)
          /\ ever' = Append(ever, e)
    \/ \E e \in Element \ Members(ever) : \E i \in DOMAIN content : LinkBefore(e, i)
    \/ \E e \in Element :
          /\ \/ ListRemove(e) \/ ArrayRemove(e) \/ Unlink(e) \/ HashRemove(e)
             \/ RotateLeft(e) \/ RotateRight(e)
          /\ UNCHANGED ever
    \/ (HashResize \/ ShiftOne \/ ShiftEnd) /\ UNCHANGED ever

-----------------------------------------------------------------------------
(* The walk.  A step reads one field that Java code may change; keys never *)
(* change, so the read of a key goes with the read of the next link.       *)

Step == UNCHANGED <<kind, container, initial, ever, changes>>
Push(x) == result' = Append(result, x)
GoOn(condition, pc) == IF condition THEN pc ELSE "done"

\* to_vector() recognises the layout by its fields, and reads "size", the length of the
\* array, "table", or "root".
BeginWalk ==
    LET first == arrays[1][1] IN
    /\ walk.pc = "begin"
    /\ walk' = IF kind = "hash"
               THEN [walk EXCEPT !.arr = table, !.n = Len(arrays[table]), !.pc = "bucket"]
               ELSE IF kind = "tree"
               THEN [walk EXCEPT !.node = first, !.pc = GoOn(first # Null, "spine")]
               ELSE [walk EXCEPT !.n = size,
                                 !.pc = GoOn(size > 0, IF kind \in {"array", "linked"}
                                                       THEN "fields" ELSE "element")]
    /\ Step /\ UNCHANGED result

\* "elementData", or "first", after "size".
ReadFields ==
    /\ walk.pc = "fields"
    /\ walk' = IF kind = "array" THEN [walk EXCEPT !.arr = table, !.pc = "element"]
               ELSE [walk EXCEPT !.node = arrays[1][1], !.pc = GoOn(arrays[1][1] # Null, "item")]
    /\ Step /\ UNCHANGED result

\* get_array_element(): no element behind the end of the array.
GetArrayElement(array, index) == IF index < Len(array) THEN array[index + 1] ELSE Null

\* Mutant: the loop compares with the size of the moment.
ReadElement_LiveSize ==
    /\ walk.pc = "element"
    /\ Push(IF kind = "generic" THEN GetArrayElement(content, walk.index)
            ELSE GetArrayElement(arrays[walk.arr], walk.index))
    /\ walk' = [walk EXCEPT !.index = @ + 1, !.pc = GoOn(walk.index + 1 < size, "element")]
    /\ Step

\* The next place of the array, or the call of get(index).  Only a "generic" list follows
\* the container to its new array; an index behind its end throws, and the call yields null.
ReadElement ==
    /\ walk.pc = "element"
    /\ Push(IF kind = "generic" THEN GetArrayElement(content, walk.index)
            ELSE GetArrayElement(arrays[walk.arr], walk.index))
    /\ walk' = [walk EXCEPT !.index = @ + 1, !.pc = GoOn(walk.index + 1 < walk.n, "element")]
    /\ Step

\* linked_list_walk_items(): "item" of a node, then its "next", at most n times.
ReadItem ==
    /\ walk.pc = "item"
    /\ Push(item[walk.node])
    /\ walk' = [walk EXCEPT !.pc = "next"]
    /\ Step

ReadNext ==
    LET node == next[walk.node] IN
    /\ walk.pc = "next"
    /\ walk' = [walk EXCEPT !.node = node, !.index = @ + 1,
                            !.pc = GoOn(node # Null /\ walk.index + 1 < walk.n, "item")]
    /\ Step /\ UNCHANGED result

\* Mutant: the table is read again for every bucket.
ReadBucket_LiveTable ==
    /\ walk.pc = "bucket"
    /\ walk' = IF walk.index < Len(arrays[table])
               THEN [walk EXCEPT !.node = GetArrayElement(arrays[table], walk.index),
                                 !.index = @ + 1, !.count = 0, !.pc = "node"]
               ELSE [walk EXCEPT !.pc = "done"]
    /\ Step /\ UNCHANGED result

\* Mutant: an empty bucket is skipped without advancing.
ReadBucket_Stuck ==
    LET head == GetArrayElement(arrays[walk.arr], walk.index) IN
    /\ walk.pc = "bucket"
    /\ walk' = IF walk.index < walk.n
               THEN [walk EXCEPT !.node = head, !.index = IF head = Null THEN @ ELSE @ + 1,
                                 !.count = 0, !.pc = "node"]
               ELSE [walk EXCEPT !.pc = "done"]
    /\ Step /\ UNCHANGED result

\* hash_map_walk_entries() and hash_map_walk_keys(): the head of the next bucket.
ReadBucket ==
    /\ walk.pc = "bucket"
    /\ walk' = IF walk.index < walk.n
               THEN [walk EXCEPT !.node = GetArrayElement(arrays[walk.arr], walk.index),
                                 !.index = @ + 1, !.count = 0, !.pc = "node"]
               ELSE [walk EXCEPT !.pc = "done"]
    /\ Step /\ UNCHANGED result

\* A node of the bucket, no more than MaxGuard of them.
ReadNode ==
    /\ walk.pc = "node"
    /\ IF walk.node # Null /\ walk.count < MaxGuard
       THEN /\ Push(walk.node)
            /\ walk' = [walk EXCEPT !.node = next[walk.node], !.count = @ + 1]
       ELSE /\ walk' = [walk EXCEPT !.pc = "bucket"]
            /\ UNCHANGED result
    /\ Step

\* tree_map_walk_entries() and tree_map_walk_keys(): down the left spine, the nodes on a stack.
Spine ==
    /\ walk.pc = "spine" /\ walk.node # Null
    /\ walk' = [walk EXCEPT !.stack = Append(@, walk.node), !.node = left[walk.node]]
    /\ Step /\ UNCHANGED result

\* At the end of the spine its last node is visited, then what is right of it, until the
\* stack is empty or more than MaxVisited nodes were visited.
Visit ==
    /\ walk.pc = "spine" /\ walk.node = Null
    /\ IF walk.stack = <<>>
       THEN /\ walk' = [walk EXCEPT !.pc = "done"]
            /\ UNCHANGED result
       ELSE LET node == Last(walk.stack) IN
            /\ Push(node)
            /\ walk' = [walk EXCEPT !.stack = Front(@), !.node = next[node], !.count = @ + 1,
                                    !.pc = GoOn(walk.count + 1 <= MaxVisited, "spine")]
    /\ Step

Walk == \/ BeginWalk \/ ReadFields \/ ReadElement \/ ReadItem \/ ReadNext
        \/ ReadBucket \/ ReadNode \/ Spine \/ Visit

NextWalk == Mutate \/ Walk

WalkSpec == InitWalk /\ [][NextWalk]_walkVars

\* The thread that walks is scheduled; Java code need not do anything.
FairWalkSpec == WalkSpec /\ WF_walkVars(Walk)

-----------------------------------------------------------------------------
(* Properties.                                                             *)

Done == walk.pc = "done"
Once(S) == \A x \in S : Cardinality({i \in DOMAIN result : result[i] = x}) = 1
Uncut == /\ kind = "hash" => Len(ever) <= MaxGuard
         /\ kind = "tree" => Len(ever) <= MaxVisited + 1

\* While Java code only appends to a list, or puts keys into a map that neither grows its
\* table nor rotates its tree meanwhile, a walk (to_vector, to_entries) delivers each element
\* that was there when it began, once, and no null: "size" is read before "elementData",
\* which only grows.  A walk that Java code leaves alone copies the container, a list in its
\* order and a tree ascending.  (Insertions in front of an element, removals, the growth of a
\* table and rotations may each make a walk miss an element that was there all the time.)
NothingLost ==
    Done /\ changes \subseteq {"added"} /\ Uncut =>
        /\ Once(initial) /\ Null \notin Members(result)
        /\ changes = {} =>
              /\ Members(result) = Members(content)
              /\ kind = "tree" => \A i, j \in DOMAIN result : i < j => result[i] < result[j]
              /\ kind \notin {"hash", "tree"} => result = content

\* Whichever of these operations Java code does under it, a walk delivers only what was in the
\* container at some time of it; and nothing twice, unless a tree was rotated under it or an
\* add(int, E) or remove() shifted the elements of an array list.
NoStrangers ==
    /\ Members(result) \subseteq Members(ever) \cup {Null}
    /\ changes \cap {"rotated", "shifted"} = {} => Once(Members(result) \ {Null})

\* Every walk ends, however Java code relinks the nodes under it: the counts bound the
\* outer loops, and a step down a left spine always leads to a smaller key.
WalkEnds == <>Done
=============================================================================
