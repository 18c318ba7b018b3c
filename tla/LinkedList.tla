----------------------------- MODULE LinkedList -----------------------------
(***************************************************************************)
(* The doubly linked list of linkedlist.c, which holds the hashes a peer   *)
(* offers.  A Linlist is a record of the pointers of all nodes: node 0 is  *)
(* the head, and the nodes of the list form a ring with it.                *)
(*                                                                         *)
(* A node taken out by ll_remove is leaked (peer_server.c:138).  Nothing   *)
(* points to it any more, so its number may be used again: what            *)
(* new_ll_Node then returns cannot be told from fresh memory.              *)
(***************************************************************************)
EXTENDS Integers, Sequences, FiniteSets

CONSTANT NODES   \* model bound: nodes in use at a time

ASSUME LinkedListAssumption == NODES \in Nat

Head0 == 0
Nodes == Head0..NODES
NoItem == [hash |-> "not set", upper |-> FALSE]

\* a ring of the head alone; the pointers of the other nodes are not set
init_linkedlist ==
    [ next |-> [n \in Nodes |-> Head0], prev |-> [n \in Nodes |-> Head0],
      item |-> [n \in Nodes |-> NoItem], count |-> 0 ]

ll_start(ll) == ll.next[Head0]
ll_end == Head0

\* the k-th node from the start, along next
walk(ll) ==
    LET at[k \in 1..(NODES + 1)] == IF k = 1 THEN ll_start(ll) ELSE ll.next[at[k - 1]]
    IN  at

\* the same from the end, along prev
walk_back(ll) ==
    LET at[k \in 1..(NODES + 1)] == IF k = 1 THEN ll.prev[Head0] ELSE ll.prev[at[k - 1]]
    IN  at

\* the nodes an iteration from ll_start to ll_end meets
iteration(ll) ==
    LET at  == walk(ll)
        len == CHOOSE k \in 0..NODES : at[k + 1] = ll_end /\ \A j \in 1..k : at[j] # ll_end
    IN  [k \in 1..len |-> at[k]]

items(ll) == [k \in 1..Len(iteration(ll)) |-> ll.item[iteration(ll)[k]]]

\* mutant: the head does not learn of its new last node
ll_insert_last_no_prev(ll, node, item) ==
    LET last == ll.prev[Head0] IN
    [ next  |-> [ll.next EXCEPT ![last] = node, ![node] = Head0],
      prev  |-> [ll.prev EXCEPT ![node] = last],
      item  |-> [ll.item EXCEPT ![node] = item],
      count |-> ll.count + 1 ]

ll_insert_last(ll, node, item) ==
    LET last == ll.prev[Head0] IN
    [ next  |-> [ll.next EXCEPT ![last] = node, ![node] = Head0],
      prev  |-> [ll.prev EXCEPT ![node] = last, ![Head0] = node],
      item  |-> [ll.item EXCEPT ![node] = item],
      count |-> ll.count + 1 ]

ll_remove(ll, node) ==
    [ next  |-> [ll.next EXCEPT ![ll.prev[node]] = ll.next[node]],
      prev  |-> [ll.prev EXCEPT ![ll.next[node]] = ll.prev[node]],
      item  |-> ll.item,
      count |-> ll.count - 1 ]

\* ll_delete_allnodes and the init_linkedlist that follows each call of it,
\* both left out when the list counts no nodes
empty_list(ll) == IF ll.count # 0 THEN init_linkedlist ELSE ll

\* the pointers of a list agree with each other and with its count
well_formed(ll) ==
    /\ ll.count \in 0..NODES
    /\ walk(ll)[ll.count + 1] = Head0 /\ walk_back(ll)[ll.count + 1] = Head0
    /\ \A k \in 1..ll.count : /\ walk(ll)[k] # Head0
                              /\ walk_back(ll)[ll.count + 1 - k] = walk(ll)[k]
=============================================================================
