----------------------------- MODULE Dictionary -----------------------------
(***************************************************************************)
(* The binary tree of src/lib/tdictionary.c, which keeps the subscriptions *)
(* of a device: one thread inserts (exosite_subscribe) while the callback  *)
(* thread iterates (activate_sm), and neither takes a lock.  A step reads  *)
(* or writes one pointer that both threads use.                            *)
(*                                                                         *)
(* A node is named by its key.  The stores of node_new keep their order:   *)
(* *new_node is written when the node is complete.                         *)
(***************************************************************************)
EXTENDS Integers, FiniteSets

CONSTANTS
    Key,    \* the keys, in the order of strcmp
    NULL

ASSUME DictionaryAssumption == Key \subseteq Nat /\ IsFiniteSet(Key) /\ NULL \notin Key

VARIABLES
    root, left, right, parent,  \* struct node of every key, and the root
    inserting,                  \* insert: the key, and the node whose pointer it is about to read
    it,                         \* the iterator
    visited,                    \* history: the keys this iteration has returned
    owed                        \* history: the keys that were in the tree when it began

dictionary == <<root, left, right, parent, inserting, it, visited, owed>>

Pointer == Key \cup {NULL}

\* Faulty: the smaller keys go to the right.
Child_Swapped(p, key) == IF p = NULL THEN root ELSE IF key < p THEN right[p] ELSE left[p]

\* The pointer at which insert looks for key below p, or in the root.
Child(p, key) == IF p = NULL THEN root ELSE IF key < p THEN left[p] ELSE right[p]

\* The nodes that are in the tree.
Present == {k \in Key : k = root \/ \E p \in Key : k \in {left[p], right[p]}}

-----------------------------------------------------------------------------
(* dictionary_add                                                          *)

NotInserting == [step |-> "none", key |-> NULL, at |-> NULL]

dictionary_add(key) ==
    /\ inserting = NotInserting
    /\ inserting' = [step |-> "read", key |-> key, at |-> NULL]
    /\ UNCHANGED <<root, left, right, parent, it, visited, owed>>

\* insert goes down, or finds the key (ERR_DUPLICATE), or finds no node.
insert ==
    LET child == Child(inserting.at, inserting.key)
    IN /\ inserting.step = "read"
       /\ inserting' = CASE child = NULL -> [inserting EXCEPT !.step = "new"]
                         [] child = inserting.key -> NotInserting
                         [] OTHER -> [inserting EXCEPT !.at = child]
       /\ UNCHANGED <<root, left, right, parent, it, visited, owed>>

\* node_new: the node is published in the pointer that was NULL, or there is no memory.
node_new ==
    LET key == inserting.key
        at == inserting.at
    IN /\ inserting.step = "new"
       /\ inserting' = NotInserting
       /\ \/ /\ parent' = [parent EXCEPT ![key] = at]
             /\ root' = IF at = NULL THEN key ELSE root
             /\ left' = IF at # NULL /\ key < at THEN [left EXCEPT ![at] = key] ELSE left
             /\ right' = IF at # NULL /\ key > at THEN [right EXCEPT ![at] = key] ELSE right
          \/ UNCHANGED <<root, left, right, parent>>
       /\ UNCHANGED <<it, visited, owed>>

Insert == insert \/ node_new

-----------------------------------------------------------------------------
(* The iterator: "leftmost" is get_begin or the loop to the left, "at" has *)
(* returned a node, "climb" is the loop to the parents.                    *)

NotIterating == [step |-> "none", node |-> NULL, base |-> NULL]

At(step, node, base) == [step |-> step, node |-> node, base |-> base]

dictionary_get_iterator ==
    /\ it = NotIterating
    /\ it' = IF root = NULL THEN At("end", NULL, NULL) ELSE At("leftmost", root, NULL)
    /\ visited' = {} /\ owed' = Present

Leftmost ==
    /\ it.step = "leftmost"
    /\ it' = IF left[it.node] # NULL THEN [it EXCEPT !.node = left[it.node]]
                                     ELSE [it EXCEPT !.step = "at"]
    /\ UNCHANGED <<visited, owed>>

\* dictionary_iterate from the node that was returned.
dictionary_iterate ==
    /\ it.step = "at"
    /\ visited' = visited \cup {it.node}
    /\ it' = IF right[it.node] # NULL THEN At("leftmost", right[it.node], NULL)
                                      ELSE At("climb", it.node, parent[it.node])
    /\ UNCHANGED owed

\* Faulty: the parent is taken for the next node, whichever child it is reached from.
Climb_Once ==
    /\ it.step = "climb"
    /\ it' = IF it.base = NULL THEN At("end", NULL, NULL) ELSE At("at", it.base, NULL)
    /\ UNCHANGED <<visited, owed>>

Climb ==
    /\ it.step = "climb"
    /\ it' = CASE it.base = NULL -> At("end", NULL, NULL)
               [] it.base # NULL /\ it.node = right[it.base] -> At("climb", it.base, parent[it.base])
               [] OTHER -> At("at", it.base, NULL)
    /\ UNCHANGED <<visited, owed>>

Iterate == Leftmost \/ dictionary_iterate \/ Climb

DictionaryInit ==
    /\ root = NULL
    /\ left = [k \in Key |-> NULL] /\ right = [k \in Key |-> NULL] /\ parent = [k \in Key |-> NULL]
    /\ inserting = NotInserting /\ it = NotIterating
    /\ visited = {} /\ owed = {}

-----------------------------------------------------------------------------
\* The pointers, the insertion and the iterator have their types.
DictionaryTypeOK ==
    /\ root \in Pointer
    /\ {left, right, parent} \subseteq [Key -> Pointer]
    /\ inserting \in [step : {"none", "read", "new"}, key : Pointer, at : Pointer]
    /\ it \in [step : {"none", "leftmost", "at", "climb", "end"}, node : Pointer, base : Pointer]
    /\ visited \subseteq Key /\ owed \subseteq Key

\* The nodes lookup goes through in its search for key.
LookupPath(key) ==
    LET path[i \in 0 .. Cardinality(Key)] ==
            IF i = 0 THEN root
            ELSE IF path[i - 1] \in {NULL, key} THEN path[i - 1]
            ELSE IF key < path[i - 1] THEN left[path[i - 1]] ELSE right[path[i - 1]]
    IN path

\* lookup: every node of the tree is found by its key, whatever insert is doing.
LookupFinds == \A k \in Present : LookupPath(k)[Cardinality(Key)] = k

\* dictionary_get_iterator and dictionary_iterate against insert: the keys come in their order, hence
\* none of them twice, and an iteration that ends has returned every key that was in the tree when it
\* began, wherever nodes were inserted meanwhile.
IterationComplete ==
    /\ it.step = "at" => \A k \in visited : k < it.node
    /\ it.step = "end" => owed \subseteq visited

=============================================================================
