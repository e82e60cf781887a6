------------------------------- MODULE JsonTree -------------------------------
(***************************************************************************)
(* JSON values in memory, as cJSON keeps them and as the database builds   *)
(* and changes them.  A value is a tree of nodes: the elements of an array *)
(* or object are a list through `next' and `prev', whose first element the *)
(* parent points to with `child' and has the last one as its `prev'.       *)
(*                                                                         *)
(* `items' says what callers have put where; the pointers have to agree    *)
(* with it.  Names, numbers and texts are left out, so that an object is   *)
(* an array here, and so are references, which nobody uses: callers add    *)
(* values that they have made and not added before.  Memory may run out:   *)
(* then nothing is made.                                                   *)
(***************************************************************************)
EXTENDS Integers, SequencesExt

CONSTANTS Node, NULL

ASSUME JsonTreeAssumption == NULL \notin Node

VARIABLES
  heap,      \* type, next, prev and child of each node
  items,     \* history: the elements that callers gave each node, in their order
  held       \* history: the values that callers have and have not added to another

treeVars == <<heap, items, held>>

NodeType == {"array", "scalar"}
Pointer == Node \cup {NULL}
Heap == [type : [Node -> NodeType \cup {"free"}],
         next : [Node -> Pointer], prev : [Node -> Pointer], child : [Node -> Pointer]]

Allocated(h) == {n \in Node : h.type[n] # "free"}
Arrays(h) == {n \in Node : h.type[n] = "array"}

\* What is reached from a node in any number of steps.
Reach(step, n) ==
  {m \in Node : \A S \in SUBSET Node :
                  n \in S /\ (\A x \in S : step[x] \subseteq S) => m \in S}

\* Along the pointers, and as callers see it.
Pointed(h) == [n \in Node |-> {h.next[n], h.child[n]} \cap Node]
Given == [n \in Node |-> ToSet(items[n])]

-----------------------------------------------------------------------------
(***************************************************************************)
(* The functions of cJSON, as what they make of the heap                   *)
(***************************************************************************)
cJSON_New_Item(h, n, type) ==
  [type  |-> [h.type EXCEPT ![n] = type],
   next  |-> [h.next EXCEPT ![n] = NULL],
   prev  |-> [h.prev EXCEPT ![n] = NULL],
   child |-> [h.child EXCEPT ![n] = NULL]]

\* The elements first, then the node, then what follows it.
cJSON_Delete(h, n) ==
  LET gone == Reach(Pointed(h), n)
      Cleared(f, value) == [m \in Node |-> IF m \in gone THEN value ELSE f[m]]
  IN [type |-> Cleared(h.type, "free"), next |-> Cleared(h.next, NULL),
      prev |-> Cleared(h.prev, NULL), child |-> Cleared(h.child, NULL)]

\* `next' of the new element is NULL already, unless the list is empty and it is set.
suffix_object(h, last, item) ==
  [h EXCEPT !.next = [@ EXCEPT ![last] = item], !.prev = [@ EXCEPT ![item] = last]]

add_item_to_array(h, array, item) ==
  LET first == h.child[array]
  IN IF first = NULL
     THEN [h EXCEPT !.child = [@ EXCEPT ![array] = item],
                    !.prev = [@ EXCEPT ![item] = item], !.next = [@ EXCEPT ![item] = NULL]]
     ELSE IF h.prev[first] = NULL THEN h
     ELSE [suffix_object(h, h.prev[first], item) EXCEPT !.prev = [@ EXCEPT ![first] = item]]

\* The walk from the first element, if it gets as far as that.
Walk(h, array, index) ==
  {p \in [0 .. index -> Node] : /\ p[0] = h.child[array]
                                /\ \A k \in 1 .. index : p[k] = h.next[p[k - 1]]}
get_array_item(h, array, index) ==
  IF Walk(h, array, index) = {} THEN NULL ELSE (CHOOSE p \in Walk(h, array, index) : TRUE)[index]

\* Mutant: the first element goes on to have the one that left as the last.
detachWithoutTail(h, parent, item) ==
  [h EXCEPT !.next = [x \in Node |-> CASE x = item -> NULL
                                       [] item # h.child[parent] /\ x = h.prev[item] -> h.next[item]
                                       [] OTHER -> @[x]],
            !.prev = [x \in Node |-> CASE x = item -> NULL
                                       [] x = h.next[item] -> h.prev[item]
                                       [] OTHER -> @[x]],
            !.child = [@ EXCEPT ![parent] = IF item = @ THEN h.next[item] ELSE @]]

cJSON_DetachItemViaPointer(h, parent, item) ==
  [h EXCEPT !.next = [x \in Node |-> CASE x = item -> NULL
                                       [] item # h.child[parent] /\ x = h.prev[item] -> h.next[item]
                                       [] OTHER -> @[x]],
            !.prev = [x \in Node |-> CASE x = item -> NULL
                                       [] x = h.next[item] -> h.prev[item]
                                       [] /\ item # h.child[parent] /\ h.next[item] = NULL
                                          /\ x = h.child[parent] -> h.prev[item]
                                       [] OTHER -> @[x]],
            !.child = [@ EXCEPT ![parent] = IF item = @ THEN h.next[item] ELSE @]]

\* In the place of the item; the only element is its own last one.
Replaced(h, parent, item, replacement) ==
  LET first == h.child[parent]
  IN [h EXCEPT !.next = [x \in Node |-> CASE x = item -> NULL
                                          [] x = replacement -> h.next[item]
                                          [] item # first /\ x = h.prev[item] -> replacement
                                          [] OTHER -> @[x]],
               !.prev = [x \in Node |-> CASE x = item -> NULL
                                          [] x = replacement ->
                                               IF first = item /\ h.prev[first] = first
                                               THEN replacement ELSE h.prev[item]
                                          [] x = h.next[item] -> replacement
                                          [] item # first /\ h.next[item] = NULL /\ x = first -> replacement
                                          [] OTHER -> @[x]],
               !.child = [@ EXCEPT ![parent] = IF item = @ THEN replacement ELSE @]]

cJSON_ReplaceItemViaPointer(h, parent, item, replacement) ==
  IF replacement = item THEN h
  ELSE cJSON_Delete(Replaced(h, parent, item, replacement), item)

-----------------------------------------------------------------------------
(***************************************************************************)
(* The callers                                                             *)
(***************************************************************************)
\* The history of what is deleted with a node.
Emptied(f, n) == [m \in Node |-> IF m \in Reach(Given, n) THEN << >> ELSE f[m]]

TreeInit ==
  /\ heap = [type |-> [n \in Node |-> "free"], next |-> [n \in Node |-> NULL],
             prev |-> [n \in Node |-> NULL], child |-> [n \in Node |-> NULL]]
  /\ items = [n \in Node |-> << >>]
  /\ held = {}

\* cJSON_CreateObject, cJSON_CreateArray, cJSON_CreateNumber, cJSON_CreateString.
CreateValue(n, type) ==
  /\ heap.type[n] = "free"
  /\ heap' = cJSON_New_Item(heap, n, type)
  /\ held' = held \cup {n}
  /\ UNCHANGED items

\* cJSON_AddItemToArray, cJSON_AddItemToObject.
AddItem(a, i) ==
  /\ a \in Arrays(heap) /\ i \in held /\ a \notin Reach(Given, i)
  /\ heap' = add_item_to_array(heap, a, i)
  /\ items' = [items EXCEPT ![a] = Append(@, i)]
  /\ held' = held \ {i}

\* cJSON_AddNumberToObject and the like: a new value, added at once.
AddNewItem(a, n, type) ==
  /\ a \in Arrays(heap) /\ heap.type[n] = "free"
  /\ heap' = add_item_to_array(cJSON_New_Item(heap, n, type), a, n)
  /\ items' = [items EXCEPT ![a] = Append(@, n)]
  /\ UNCHANGED held

DeleteItemFromArray(a, which) ==
  LET item == get_array_item(heap, a, which)
  IN /\ a \in Arrays(heap) /\ item # NULL
     /\ heap' = cJSON_Delete(cJSON_DetachItemViaPointer(heap, a, item), item)
     /\ items' = Emptied([items EXCEPT ![a] = RemoveAt(@, which + 1)], items[a][which + 1])
     /\ UNCHANGED held

ReplaceItemInArray(a, which, r) ==
  LET item == get_array_item(heap, a, which)
  IN /\ a \in Arrays(heap) /\ item # NULL
     /\ r \in held /\ a \notin Reach(Given, r)
     /\ heap' = cJSON_ReplaceItemViaPointer(heap, a, item, r)
     /\ items' = Emptied([items EXCEPT ![a] = ReplaceAt(@, which + 1, r)], items[a][which + 1])
     /\ held' = held \ {r}

DeleteValue(r) ==
  /\ r \in held
  /\ heap' = cJSON_Delete(heap, r)
  /\ items' = Emptied(items, r)
  /\ held' = held \ {r}

\* An array has all other nodes at most; beyond its end there is nothing.
Index == 0 .. Cardinality(Node) - 2

TreeNext ==
  \/ \E n \in Node, type \in NodeType : CreateValue(n, type)
  \/ \E a, i \in Node : AddItem(a, i)
  \/ \E a, n \in Node, type \in NodeType : AddNewItem(a, n, type)
  \/ \E a \in Node, which \in Index : DeleteItemFromArray(a, which)
  \/ \E a, r \in Node, which \in Index : ReplaceItemInArray(a, which, r)
  \/ \E r \in Node : DeleteValue(r)

-----------------------------------------------------------------------------
(***************************************************************************)
(* Properties                                                              *)
(***************************************************************************)
\* The list of node a is s.
Links(h, a, s) ==
  /\ h.child[a] = IF s = << >> THEN NULL ELSE s[1]
  /\ \A k \in DOMAIN s :
       /\ h.next[s[k]] = IF k = Len(s) THEN NULL ELSE s[k + 1]
       /\ h.prev[s[k]] = IF k = 1 THEN s[Len(s)] ELSE s[k - 1]

(* Every array and object has the elements that were put there, in their   *)
(* order and linked both ways, whatever was added, replaced and deleted    *)
(* before; and memory is taken by exactly the values that callers have,    *)
(* each of them in one place: nothing leaks, nothing is freed in use.      *)
ListsHoldTheirItems ==
  /\ \A a \in Allocated(heap) : Links(heap, a, items[a])
  /\ Allocated(heap) = held \cup UNION {ToSet(items[a]) : a \in Node}
  /\ \A a, b \in Node : \A k \in DOMAIN items[a], l \in DOMAIN items[b] :
       items[a][k] = items[b][l] => a = b /\ k = l
  /\ \A a \in Node : ToSet(items[a]) \cap held = {}

================================================================================
