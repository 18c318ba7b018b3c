-------------------------- MODULE DiscoveryProofs ---------------------------
(***************************************************************************)
(* Proofs about Discovery, and on the way about LinkedList and             *)
(* PacketCodec: for hashes, counts, headers and packets of any size, every *)
(* chunk file and every set of chunks held.                                *)
(*                                                                         *)
(* First the recursive definitions are shown to have a solution, as the    *)
(* least place without one would have one.  Then linkedlist.c: a list is a *)
(* Ring, an insertion or a removal leaves a Ring.  Then packet.c: what was *)
(* put into a packet is what comes out of it.  The invariant says that the *)
(* queue lists chunks of the holder and that every packet on its way is    *)
(* one that send_packet makes.  Last, a round of WHOHAS: the slots of one  *)
(* packet follow on those of the packet before, so that the packets        *)
(* together are read as the whole list.                                    *)
(***************************************************************************)
EXTENDS Discovery, NatFacts, SequenceTheorems

(***************************************************************************)
(* Walks along a list                                                      *)
(***************************************************************************)
\* n places from a on, each the g of the one before: what walk defines
chain(a, g, n) == CHOOSE f : f = [k \in 1..n |-> IF k = 1 THEN a ELSE g[f[k - 1]]]

\* Such a chain exists, so that its places are what the definition says.
LEMMA ChainIs ==
    ASSUME NEW a, NEW g, NEW n \in Nat
    PROVE  \A k \in 1..n : chain(a, g, n)[k] = IF k = 1 THEN a ELSE g[chain(a, g, n)[k - 1]]
<1> DEFINE Chain(m) == \E f : f = [k \in 1..m |-> IF k = 1 THEN a ELSE g[f[k - 1]]]
           T == {m \in Nat : ~Chain(m)}
<1>1. Chain(0)
  <2> DEFINE f == [k \in 1..0 |-> a]
  <2>1. f = [k \in 1..0 |-> IF k = 1 THEN a ELSE g[f[k - 1]]]
    OBVIOUS
  <2> QED
    BY <2>1, Zenon
<1>2. ASSUME NEW m \in Nat, m # 0, Chain(m - 1) PROVE Chain(m)
  <2>1. PICK f : f = [k \in 1..(m - 1) |-> IF k = 1 THEN a ELSE g[f[k - 1]]]
    BY <1>2, Zenon
  <2> DEFINE h == [k \in 1..m |-> IF k = 1 THEN a ELSE g[f[k - 1]]]
  <2>2. \A k \in 1..(m - 1) : h[k] = f[k]
    BY <2>1, <1>2
  <2>3. h = [k \in 1..m |-> IF k = 1 THEN a ELSE g[f[k - 1]]]
    OBVIOUS
  <2> HIDE DEF h
  <2>4. \A k \in 1..m : k # 1 => h[k - 1] = f[k - 1]
    <3>1. \A k \in 1..m : k # 1 => k - 1 \in 1..(m - 1)
      BY <1>2
    <3> QED
      BY <3>1, <2>2
  <2>5. h = [k \in 1..m |-> IF k = 1 THEN a ELSE g[h[k - 1]]]
    <3>1. \A k \in 1..m : (IF k = 1 THEN a ELSE g[f[k - 1]]) = (IF k = 1 THEN a ELSE g[h[k - 1]])
      BY <2>4, Zenon
    <3> QED
      BY <3>1, <2>3, Zenon
  <2> QED
    BY <2>5, Zenon
<1>3. T \subseteq Nat /\ (\A m \in Nat : m \in T <=> ~Chain(m))
  OBVIOUS
<1> HIDE DEF Chain, T
<1>4. T = {}
  <2>0. SUFFICES ASSUME T # {} PROVE FALSE
    OBVIOUS
  <2>1. PICK m \in T : \A y \in T : m <= y
    BY <1>3, <2>0, LeastElement
  <2>2. m \in Nat /\ m # 0
    BY <1>1, <1>3, <2>1
  <2>3. m - 1 \in Nat /\ m - 1 \notin T
    BY <2>1, <2>2
  <2> QED
    BY <1>2, <1>3, <2>1, <2>2, <2>3
<1>5. Chain(n)
  BY <1>3, <1>4
<1> DEFINE c == chain(a, g, n)
<1>6. c = [k \in 1..n |-> IF k = 1 THEN a ELSE g[c[k - 1]]]
  BY <1>5, Zenon DEF Chain, chain
<1> HIDE DEF c
<1>7. \A k \in 1..n : c[k] = IF k = 1 THEN a ELSE g[c[k - 1]]
  BY <1>6, Zenon
<1> QED
  BY <1>7 DEF c

\* walk and walk_back go from node to node along next and along prev.
LEMMA WalkIs ==
    ASSUME NEW ll
    PROVE  \A k \in 1..(NODES + 1) :
              /\ walk(ll)[k] = IF k = 1 THEN ll.next[Head0] ELSE ll.next[walk(ll)[k - 1]]
              /\ walk_back(ll)[k] = IF k = 1 THEN ll.prev[Head0] ELSE ll.prev[walk_back(ll)[k - 1]]
<1>1. NODES + 1 \in Nat
  BY LinkedListAssumption
<1>2. walk(ll) = chain(ll.next[Head0], ll.next, NODES + 1)
  BY DEF walk, ll_start, chain
<1>3. walk_back(ll) = chain(ll.prev[Head0], ll.prev, NODES + 1)
  BY DEF walk_back, chain
<1> QED
  BY <1>1, <1>2, <1>3, ChainIs

(***************************************************************************)
(* Rings                                                                   *)
(***************************************************************************)
\* the list has the nodes r[1], ..., r[count] between its head at either end
Ring(ll, r) ==
    LET n == ll.count IN
    /\ n \in 0..NODES
    /\ r \in [0..(n + 1) -> Nodes]
    /\ r[0] = Head0 /\ r[n + 1] = Head0
    /\ \A i \in 1..n : r[i] # Head0
    /\ \A i, j \in 1..n : r[i] = r[j] => i = j
    /\ \A i \in 0..n : ll.next[r[i]] = r[i + 1] /\ ll.prev[r[i + 1]] = r[i]

\* From either end the nodes of a ring are met in its order.
LEMMA RingWalk ==
    ASSUME NEW ll, NEW r, Ring(ll, r)
    PROVE  /\ \A k \in 1..(ll.count + 1) : walk(ll)[k] = r[k]
           /\ \A k \in 1..(ll.count + 1) : walk_back(ll)[k] = r[ll.count + 1 - k]
<1> DEFINE n == ll.count
           Met(k) == walk(ll)[k] = r[k] /\ walk_back(ll)[k] = r[n + 1 - k]
           T == {k \in 1..(n + 1) : ~Met(k)}
<1>0. NODES \in Nat /\ n \in 0..NODES
  BY LinkedListAssumption DEF Ring
<1>1. Met(1)
  <2>1. 1 \in 1..(NODES + 1) /\ 0 \in 0..n /\ n \in 0..n /\ n + 1 - 1 = n
    BY <1>0
  <2>2. walk(ll)[1] = ll.next[Head0] /\ walk_back(ll)[1] = ll.prev[Head0]
    BY <2>1, WalkIs
  <2> QED
    BY <2>1, <2>2 DEF Ring
<1>2. ASSUME NEW k \in 1..(n + 1), k # 1, Met(k - 1) PROVE Met(k)
  <2>1. /\ k \in 1..(NODES + 1) /\ k - 1 \in 0..n /\ (k - 1) + 1 = k
        /\ n + 1 - k \in 0..n /\ (n + 1 - k) + 1 = n + 1 - (k - 1)
    BY <1>0, <1>2
  <2>2. walk(ll)[k] = ll.next[walk(ll)[k - 1]] /\ walk_back(ll)[k] = ll.prev[walk_back(ll)[k - 1]]
    BY <2>1, <1>2, WalkIs
  <2>3. ll.next[r[k - 1]] = r[k] /\ ll.prev[r[n + 1 - (k - 1)]] = r[n + 1 - k]
    BY <2>1 DEF Ring
  <2> QED
    BY <2>2, <2>3, <1>2
<1>3. T \subseteq Nat /\ (\A k \in 1..(n + 1) : k \in T <=> ~Met(k)) /\ T \subseteq 1..(n + 1)
  BY <1>0
<1> HIDE DEF Met, T
<1>4. T = {}
  <2>1. SUFFICES ASSUME T # {} PROVE FALSE
    OBVIOUS
  <2>2. PICK k \in T : \A y \in T : k <= y
    BY <1>3, <2>1, LeastElement
  <2>3. k \in 1..(n + 1) /\ k # 1
    BY <1>1, <1>3, <2>2
  <2>4. k - 1 \in 1..(n + 1) /\ k - 1 \notin T
    BY <1>0, <2>2, <2>3
  <2> QED
    BY <1>2, <1>3, <2>2, <2>3, <2>4
<1> QED
  BY <1>3, <1>4 DEF Met

\* A ring is well formed.
LEMMA RingWellFormed ==
    ASSUME NEW ll, NEW r, Ring(ll, r)
    PROVE  well_formed(ll)
<1> DEFINE n == ll.count
<1>1. NODES \in Nat /\ n \in 0..NODES
  BY LinkedListAssumption DEF Ring
<1>2. n + 1 \in 1..(n + 1) /\ n + 1 - (n + 1) = 0
  BY <1>1
<1>3. walk(ll)[n + 1] = Head0 /\ walk_back(ll)[n + 1] = Head0
  <2>1. walk(ll)[n + 1] = r[n + 1] /\ walk_back(ll)[n + 1] = r[n + 1 - (n + 1)]
    BY <1>2, RingWalk
  <2> QED
    BY <1>2, <2>1 DEF Ring
<1>4. ASSUME NEW k \in 1..n
      PROVE  walk(ll)[k] # Head0 /\ walk_back(ll)[n + 1 - k] = walk(ll)[k]
  <2>1. k \in 1..(n + 1) /\ n + 1 - k \in 1..(n + 1) /\ n + 1 - (n + 1 - k) = k
    BY <1>1
  <2>2. walk(ll)[k] = r[k] /\ walk_back(ll)[n + 1 - k] = r[k]
    BY <2>1, RingWalk
  <2> QED
    BY <2>2 DEF Ring
<1> QED
  BY <1>1, <1>3, <1>4 DEF well_formed

\* An iteration from ll_start to ll_end meets the nodes of the ring.
LEMMA RingIteration ==
    ASSUME NEW ll, NEW r, Ring(ll, r)
    PROVE  iteration(ll) = [k \in 1..ll.count |-> r[k]]
<1> DEFINE n == ll.count
           at == walk(ll)
           Ends(k) == at[k + 1] = ll_end /\ \A j \in 1..k : at[j] # ll_end
           len == CHOOSE k \in 0..NODES : Ends(k)
<1>1. NODES \in Nat /\ n \in 0..NODES /\ n + 1 \in 1..(n + 1)
  BY LinkedListAssumption DEF Ring
<1>2. at[n + 1] = ll_end /\ \A j \in 1..n : at[j] # ll_end /\ at[j] = r[j]
  <2>1. \A j \in 1..n : j \in 1..(n + 1)
    BY <1>1
  <2>2. at[n + 1] = r[n + 1] /\ \A j \in 1..n : at[j] = r[j]
    BY <1>1, <2>1, RingWalk
  <2> HIDE DEF at
  <2> QED
    BY <2>2 DEF Ring, ll_end
<1>3. Ends(n)
  BY <1>2
<1>4. ASSUME NEW k \in 0..NODES, Ends(k) PROVE k = n
  <2>1. CASE k < n
    <3>1. k + 1 \in 1..n
      BY <1>1, <2>1
    <3> QED
      BY <3>1, <1>2, <1>4
  <2>2. CASE n < k
    <3>1. n + 1 \in 1..k
      BY <1>1, <2>2
    <3> QED
      BY <3>1, <1>2, <1>4
  <2> QED
    BY <2>1, <2>2, <1>1
<1>5. len = n
  <2> HIDE DEF Ends
  <2>1. len \in 0..NODES /\ Ends(len)
    BY <1>1, <1>3, Zenon
  <2> QED
    BY <2>1, <1>4
<1>6. iteration(ll) = [k \in 1..len |-> at[k]]
  BY DEF iteration
<1> QED
  BY <1>2, <1>5, <1>6

\* the pointers and items of all nodes
Shape(ll) ==
    /\ ll.next \in [Nodes -> Nodes] /\ ll.prev \in [Nodes -> Nodes]
    /\ ll.item = [n \in Nodes |-> ll.item[n]]

\* a list whose items are among S
Lists(ll, S) ==
    /\ Shape(ll)
    /\ \E r : Ring(ll, r) /\ \A i \in 1..ll.count : ll.item[r[i]] \in S

\* A list as init_linkedlist leaves it is a ring of the head alone.
LEMMA InitLists == ASSUME NEW S PROVE Lists(init_linkedlist, S)
<1> DEFINE ll == init_linkedlist
           r == [i \in 0..1 |-> Head0]
<1>1. Head0 \in Nodes
  BY LinkedListAssumption DEF Head0, Nodes
<1>2. /\ ll.next = [n \in Nodes |-> Head0] /\ ll.prev = [n \in Nodes |-> Head0]
      /\ ll.item = [n \in Nodes |-> NoItem] /\ ll.count = 0
  BY DEF init_linkedlist
<1> HIDE DEF ll
<1>3. Shape(ll)
  BY <1>1, <1>2 DEF Shape
<1>4. Ring(ll, r)
  BY <1>1, <1>2, LinkedListAssumption DEF Ring
<1>5. \A i \in 1..ll.count : ll.item[r[i]] \in S
  BY <1>2
<1> QED
  BY <1>3, <1>4, <1>5 DEF Lists, ll

\* ll_remove takes one node out of the middle and leaves the others a ring.
LEMMA RemoveRing ==
    ASSUME NEW ll, NEW r, Shape(ll), Ring(ll, r), NEW k \in 1..ll.count
    PROVE  /\ Shape(ll_remove(ll, r[k]))
           /\ Ring(ll_remove(ll, r[k]), [i \in 0..ll.count |-> IF i < k THEN r[i] ELSE r[i + 1]])
<1> DEFINE n == ll.count
           new == ll_remove(ll, r[k])
           s == [i \in 0..n |-> IF i < k THEN r[i] ELSE r[i + 1]]
<1>1. /\ NODES \in Nat /\ n \in 0..NODES /\ k \in 1..n
      /\ k - 1 \in 0..n /\ k + 1 \in 0..(n + 1) /\ k \in 0..n /\ (k - 1) + 1 = k
  BY LinkedListAssumption DEF Ring
<1>2. /\ r \in [0..(n + 1) -> Nodes] /\ r[0] = Head0 /\ r[n + 1] = Head0
      /\ \A i \in 1..n : r[i] # Head0
      /\ \A i, j \in 1..n : r[i] = r[j] => i = j
      /\ \A i \in 0..n : ll.next[r[i]] = r[i + 1] /\ ll.prev[r[i + 1]] = r[i]
  BY DEF Ring
<1>3. /\ ll.prev[r[k]] = r[k - 1] /\ ll.next[r[k]] = r[k + 1]
      /\ r[k - 1] \in Nodes /\ r[k + 1] \in Nodes
  <2>1. ll.prev[r[(k - 1) + 1]] = r[k - 1] /\ ll.next[r[k]] = r[k + 1]
    BY <1>1, <1>2
  <2>2. k - 1 \in 0..(n + 1)
    BY <1>1
  <2> QED
    BY <2>1, <2>2, <1>1, <1>2
<1>4. /\ new.next = [ll.next EXCEPT ![r[k - 1]] = r[k + 1]]
      /\ new.prev = [ll.prev EXCEPT ![r[k + 1]] = r[k - 1]]
      /\ new.item = ll.item /\ new.count = n - 1
  BY <1>3 DEF ll_remove
<1> HIDE DEF new
<1>5. Shape(new)
  BY <1>3, <1>4 DEF Shape
<1>6. \A i, j \in 0..n : r[i] = r[j] => i = j
  <2>1. \A i \in 0..n : i = 0 \/ i \in 1..n
    BY <1>1
  <2> QED
    BY <2>1, <1>2
<1>7. \A i, j \in 1..(n + 1) : r[i] = r[j] => i = j
  <2>1. \A i \in 1..(n + 1) : i = n + 1 \/ i \in 1..n
    BY <1>1
  <2> QED
    BY <2>1, <1>2
<1>8. ASSUME NEW i \in 0..(n - 1)
      PROVE  new.next[s[i]] = s[i + 1] /\ new.prev[s[i + 1]] = s[i]
  <2>0. i \in 0..n /\ i + 1 \in 0..n /\ i + 1 \in 1..(n + 1) /\ i + 2 \in 1..(n + 1) /\ i \in Int
        /\ i \in 0..(n + 1) /\ i + 1 \in 0..(n + 1) /\ i + 2 \in 0..(n + 1)
        /\ k - 1 \in 0..n /\ k + 1 \in 1..(n + 1) /\ (i + 1) + 1 = i + 2
    BY <1>1, <1>8
  <2>1. CASE i < k - 1
    <3>1. s[i] = r[i] /\ s[i + 1] = r[i + 1] /\ i # k - 1 /\ i + 1 # k + 1
      BY <2>0, <2>1, <1>1
    <3>2. r[i] # r[k - 1] /\ r[i + 1] # r[k + 1] /\ r[i] \in Nodes /\ r[i + 1] \in Nodes
      BY <2>0, <3>1, <1>6, <1>7, <1>2
    <3> QED
      BY <3>1, <3>2, <2>0, <1>2, <1>4 DEF Shape
  <2>2. CASE i = k - 1
    <3>1. s[i] = r[k - 1] /\ s[i + 1] = r[k + 1]
      BY <2>0, <2>2, <1>1
    <3> QED
      BY <3>1, <1>3, <1>4 DEF Shape
  <2>3. CASE i > k - 1
    <3>1. s[i] = r[i + 1] /\ s[i + 1] = r[i + 2] /\ i + 1 # k - 1 /\ i + 2 # k + 1
      BY <2>0, <2>3, <1>1
    <3>2. r[i + 1] # r[k - 1] /\ r[i + 2] # r[k + 1] /\ r[i + 1] \in Nodes /\ r[i + 2] \in Nodes
      BY <2>0, <3>1, <1>6, <1>7, <1>2
    <3>3. ll.next[r[i + 1]] = r[i + 2] /\ ll.prev[r[i + 2]] = r[i + 1]
      BY <2>0, <1>2
    <3> QED
      BY <3>1, <3>2, <3>3, <1>4 DEF Shape
  <2> QED
    BY <2>1, <2>2, <2>3, <2>0, <1>1
<1>9. \A i \in 0..n : s[i] \in Nodes
  <2>1. \A i \in 0..n : i \in 0..(n + 1) /\ i + 1 \in 0..(n + 1)
    BY <1>1
  <2> QED
    BY <2>1, <1>2
<1>10. s[0] = Head0 /\ s[n] = Head0 /\ s \in [0..n -> Nodes]
  BY <1>1, <1>2, <1>9
<1>11. ASSUME NEW i \in 1..(n - 1) PROVE s[i] # Head0
  <2>1. i \in 0..n /\ i \in 1..n /\ i + 1 \in 1..n
    BY <1>1
  <2> QED
    BY <2>1, <1>2
<1>12. ASSUME NEW i \in 1..(n - 1), NEW j \in 1..(n - 1), s[i] = s[j] PROVE i = j
  <2>1. /\ i \in 0..n /\ i \in 1..n /\ i + 1 \in 1..n
        /\ j \in 0..n /\ j \in 1..n /\ j + 1 \in 1..n
    BY <1>1
  <2>2. /\ s[i] = IF i < k THEN r[i] ELSE r[i + 1]
        /\ s[j] = IF j < k THEN r[j] ELSE r[j + 1]
    BY <2>1
  <2> HIDE DEF s
  <2>3. CASE i < k /\ j < k
    BY <2>1, <2>2, <2>3, <1>12, <1>2
  <2>4. CASE i < k /\ ~(j < k)
    <3>1. i = j + 1
      BY <2>1, <2>2, <2>4, <1>12, <1>2
    <3> QED
      BY <3>1, <2>1, <2>4, <1>1
  <2>5. CASE ~(i < k) /\ j < k
    <3>1. i + 1 = j
      BY <2>1, <2>2, <2>5, <1>12, <1>2
    <3> QED
      BY <3>1, <2>1, <2>5, <1>1
  <2>6. CASE ~(i < k) /\ ~(j < k)
    <3>1. i + 1 = j + 1
      BY <2>1, <2>2, <2>6, <1>12, <1>2
    <3> QED
      BY <3>1, <2>1
  <2> QED
    BY <2>3, <2>4, <2>5, <2>6
<1>13. n - 1 \in 0..NODES /\ (n - 1) + 1 = n
  BY <1>1
<1> HIDE DEF s
<1>14. Ring(new, s)
  BY <1>4, <1>8, <1>10, <1>11, <1>12, <1>13 DEF Ring
<1> QED
  BY <1>5, <1>14 DEF new, s

\* What is left in the list after ll_remove was in it before.
LEMMA RemoveLists ==
    ASSUME NEW S, NEW ll, NEW r, Shape(ll), Ring(ll, r), NEW k \in 1..ll.count,
           \A i \in 1..ll.count : ll.item[r[i]] \in S
    PROVE  Lists(ll_remove(ll, r[k]), S)
<1> DEFINE n == ll.count
           new == ll_remove(ll, r[k])
           s == [i \in 0..n |-> IF i < k THEN r[i] ELSE r[i + 1]]
<1>1. Shape(new) /\ Ring(new, s)
  BY RemoveRing
<1>2. new.item = ll.item /\ new.count = n - 1
  BY DEF ll_remove
<1>3. n \in Nat
  BY LinkedListAssumption DEF Ring
<1> HIDE DEF new
<1>4. ASSUME NEW i \in 1..new.count PROVE new.item[s[i]] \in S
  <2>1. i \in 0..n /\ i \in 1..n /\ i + 1 \in 1..n
    BY <1>2, <1>3
  <2> QED
    BY <2>1, <1>2
<1> HIDE DEF s
<1> QED
  BY <1>1, <1>4 DEF Lists, new

\* empty_list frees the nodes of a list, and a list that counts none has none.
LEMMA EmptyLists ==
    ASSUME NEW S, NEW ll, Lists(ll, S)
    PROVE  Lists(empty_list(ll), S) /\ empty_list(ll).count = 0
<1>1. init_linkedlist.count = 0
  BY DEF init_linkedlist
<1> QED
  BY <1>1, InitLists DEF empty_list

\* the list after n nodes were filled with the first n texts
Row(ll, texts, n) ==
    /\ Shape(ll) /\ ll.count = n
    /\ Ring(ll, [i \in 0..(n + 1) |-> IF i = n + 1 THEN Head0 ELSE i])
    /\ \A i \in 1..n : ll.item[i] = texts[i]

\* ll_insert_last puts the next node between the last one and the head.
LEMMA InsertRow ==
    ASSUME NEW ll, NEW texts, NEW n \in Nat, n < NODES, Row(ll, texts, n)
    PROVE  Row(ll_insert_last(ll, n + 1, texts[n + 1]), texts, n + 1)
<1> DEFINE new == ll_insert_last(ll, n + 1, texts[n + 1])
           r == [i \in 0..(n + 1) |-> IF i = n + 1 THEN Head0 ELSE i]
           s == [i \in 0..(n + 2) |-> IF i = n + 2 THEN Head0 ELSE i]
<1>1. NODES \in Nat /\ Nodes = 0..NODES /\ Head0 = 0
  BY LinkedListAssumption DEF Nodes, Head0
<1>2. /\ \A i \in 0..(n - 1) : ll.next[i] = i + 1 /\ ll.prev[i + 1] = i
      /\ ll.next[n] = 0 /\ ll.prev[0] = n
  <2>1. \A i \in 0..n : ll.next[r[i]] = r[i + 1] /\ ll.prev[r[i + 1]] = r[i]
    BY DEF Row, Ring
  <2>2. \A i \in 0..n : r[i] = i /\ r[i + 1] = IF i = n THEN 0 ELSE i + 1
    BY <1>1
  <2> HIDE DEF r
  <2>3. \A i \in 0..(n - 1) : i \in 0..n /\ i # n
    OBVIOUS
  <2> QED
    BY <2>1, <2>2, <2>3
<1>3. /\ new.next = [ll.next EXCEPT ![n] = n + 1, ![n + 1] = 0]
      /\ new.prev = [ll.prev EXCEPT ![n + 1] = n, ![0] = n + 1]
      /\ new.item = [ll.item EXCEPT ![n + 1] = texts[n + 1]]
      /\ new.count = n + 1
  BY <1>1, <1>2 DEF ll_insert_last, Row
<1> HIDE DEF new
<1>4. n \in Nodes /\ n + 1 \in Nodes /\ 0 \in Nodes
  BY <1>1
<1>5. Shape(new)
  <2>1. new.item = [i \in Nodes |-> new.item[i]]
    BY <1>3, <1>4 DEF Row, Shape
  <2> QED
    BY <2>1, <1>3, <1>4 DEF Row, Shape
<1>6. /\ \A i \in 0..n : new.next[i] = i + 1 /\ new.prev[i + 1] = i
      /\ new.next[n + 1] = 0 /\ new.prev[0] = n + 1
  <2>1. ll.next \in [Nodes -> Nodes] /\ ll.prev \in [Nodes -> Nodes]
    BY DEF Row, Shape
  <2>2. ASSUME NEW i \in 0..(n - 1) PROVE new.next[i] = i + 1 /\ new.prev[i + 1] = i
    <3>1. i \in Nodes /\ i + 1 \in Nodes /\ i # n /\ i # n + 1 /\ i + 1 # n + 1 /\ i + 1 # 0
      BY <1>1
    <3> QED
      BY <3>1, <2>1, <1>2, <1>3
  <2>3. new.next[n] = n + 1 /\ new.prev[n + 1] = n /\ new.next[n + 1] = 0 /\ new.prev[0] = n + 1
    BY <2>1, <1>3, <1>4
  <2>4. \A i \in 0..n : i \in 0..(n - 1) \/ i = n
    OBVIOUS
  <2> QED
    BY <2>2, <2>3, <2>4
<1>7. Ring(new, s)
  <2>1. s \in [0..(n + 2) -> Nodes] /\ (n + 1) + 1 = n + 2 /\ n + 1 \in 0..NODES
    BY <1>1
  <2>2. /\ s[0] = 0 /\ s[n + 2] = 0 /\ \A i \in 0..(n + 1) : s[i] = i
    BY <1>1
  <2> HIDE DEF s
  <2>3. /\ \A i \in 1..(n + 1) : s[i] # 0
        /\ \A i, j \in 1..(n + 1) : s[i] = s[j] => i = j
    <3>1. \A i \in 1..(n + 1) : i \in 0..(n + 1) /\ i # 0
      OBVIOUS
    <3> QED
      BY <3>1, <2>2
  <2>4. ASSUME NEW i \in 0..(n + 1)
        PROVE  new.next[s[i]] = s[i + 1] /\ new.prev[s[i + 1]] = s[i]
    <3>1. CASE i = n + 1
      BY <3>1, <2>1, <2>2, <1>6
    <3>2. CASE i # n + 1
      <4>1. i \in 0..n /\ i + 1 \in 0..(n + 1)
        BY <3>2
      <4> QED
        BY <4>1, <2>2, <1>6
    <3> QED
      BY <3>1, <3>2
  <2> QED
    BY <1>1, <1>3, <2>1, <2>2, <2>3, <2>4 DEF Ring
<1>8. ASSUME NEW i \in 1..(n + 1) PROVE new.item[i] = texts[i]
  <2>1. i \in Nodes
    BY <1>1
  <2>2. CASE i = n + 1
    BY <2>1, <2>2, <1>3 DEF Row, Shape
  <2>3. CASE i # n + 1
    <3>1. i \in 1..n
      BY <2>3
    <3> QED
      BY <2>1, <2>3, <3>1, <1>3 DEF Row, Shape
  <2> QED
    BY <2>2, <2>3
<1>9. (n + 1) + 1 = n + 2
  OBVIOUS
<1> QED
  BY <1>3, <1>5, <1>7, <1>8, <1>9 DEF Row, new

\* the lists that parse_download goes through, from the empty one e on
built(e, texts, n) ==
    CHOOSE f : f = [k \in 0..n |-> IF k = 0 THEN e ELSE ll_insert_last(f[k - 1], k, texts[k])]

\* They exist, so that each is what the recursive definition of filled says.
LEMMA BuiltIs ==
    ASSUME NEW e, NEW texts, NEW n \in Nat
    PROVE  \A k \in 0..n : built(e, texts, n)[k] =
              IF k = 0 THEN e ELSE ll_insert_last(built(e, texts, n)[k - 1], k, texts[k])
<1> DEFINE Built(m) == \E f : f = [k \in 0..m |->
                          IF k = 0 THEN e ELSE ll_insert_last(f[k - 1], k, texts[k])]
           T == {m \in Nat : ~Built(m)}
<1>1. Built(0)
  <2> DEFINE f == [k \in 0..0 |-> e]
  <2>1. \A k \in 0..0 : k = 0
    OBVIOUS
  <2>2. f = [k \in 0..0 |-> IF k = 0 THEN e ELSE ll_insert_last(f[k - 1], k, texts[k])]
    BY <2>1, Zenon
  <2> QED
    BY <2>2, Zenon
<1>2. ASSUME NEW m \in Nat, m # 0, Built(m - 1) PROVE Built(m)
  <2>1. PICK f : f = [k \in 0..(m - 1) |->
                        IF k = 0 THEN e ELSE ll_insert_last(f[k - 1], k, texts[k])]
    BY <1>2, Zenon
  <2> DEFINE h == [k \in 0..m |-> IF k = 0 THEN e ELSE ll_insert_last(f[k - 1], k, texts[k])]
  <2>2. \A k \in 0..(m - 1) : k \in 0..m
    BY <1>2
  <2>3. \A k \in 0..(m - 1) : h[k] = f[k]
    <3>1. \A k \in 0..(m - 1) : f[k] = IF k = 0 THEN e ELSE ll_insert_last(f[k - 1], k, texts[k])
      BY <2>1, Zenon
    <3> QED
      BY <2>2, <3>1, Zenon
  <2>4. h = [k \in 0..m |-> IF k = 0 THEN e ELSE ll_insert_last(f[k - 1], k, texts[k])]
    OBVIOUS
  <2> HIDE DEF h
  <2>5. \A k \in 0..m : k # 0 => h[k - 1] = f[k - 1]
    <3>1. \A k \in 0..m : k # 0 => k - 1 \in 0..(m - 1)
      BY <1>2
    <3> QED
      BY <3>1, <2>3
  <2>6. h = [k \in 0..m |-> IF k = 0 THEN e ELSE ll_insert_last(h[k - 1], k, texts[k])]
    <3>1. \A k \in 0..m : (IF k = 0 THEN e ELSE ll_insert_last(f[k - 1], k, texts[k]))
                        = (IF k = 0 THEN e ELSE ll_insert_last(h[k - 1], k, texts[k]))
      BY <2>5, Zenon
    <3> QED
      BY <3>1, <2>4, Zenon
  <2> QED
    BY <2>6, Zenon
<1>3. T \subseteq Nat /\ (\A m \in Nat : m \in T <=> ~Built(m))
  OBVIOUS
<1> HIDE DEF Built, T
<1>4. T = {}
  <2>1. SUFFICES ASSUME T # {} PROVE FALSE
    OBVIOUS
  <2>2. PICK m \in T : \A y \in T : m <= y
    BY <1>3, <2>1, LeastElement
  <2>3. m \in Nat /\ m # 0
    BY <1>1, <1>3, <2>2
  <2>4. m - 1 \in Nat /\ m - 1 \notin T
    BY <2>2, <2>3
  <2> QED
    BY <1>2, <1>3, <2>2, <2>3, <2>4
<1>5. Built(n)
  BY <1>3, <1>4
<1> DEFINE b == built(e, texts, n)
<1>6. b = [k \in 0..n |-> IF k = 0 THEN e ELSE ll_insert_last(b[k - 1], k, texts[k])]
  BY <1>5, Zenon DEF Built, built
<1> HIDE DEF b
<1>7. \A k \in 0..n : b[k] = IF k = 0 THEN e ELSE ll_insert_last(b[k - 1], k, texts[k])
  BY <1>6, Zenon
<1> QED
  BY <1>7 DEF b

\* parse_download leaves a ring of the offered hashes, if there are nodes for
\* all of them.
LEMMA FilledLists ==
    ASSUME NEW S, NEW ll, Lists(ll, S), NEW texts, Len(texts) \in 0..NODES,
           \A i \in 1..Len(texts) : texts[i] \in S
    PROVE  Lists(filled(ll, texts), S)
<1> DEFINE e == empty_list(ll)
           n == Len(texts)
           b == built(e, texts, n)
           T == {k \in 0..n : ~Row(b[k], texts, k)}
<1>0. NODES \in Nat /\ n \in Nat /\ n <= NODES
  BY LinkedListAssumption
<1>1. filled(ll, texts) = b[n]
  BY DEF filled, built
<1>2. \A k \in 0..n : b[k] = IF k = 0 THEN e ELSE ll_insert_last(b[k - 1], k, texts[k])
  BY <1>0, BuiltIs
<1> HIDE DEF b
<1>3. Row(b[0], texts, 0)
  <2>1. b[0] = e
    BY <1>0, <1>2
  <2>2. Lists(e, S) /\ e.count = 0
    BY EmptyLists
  <2>3. Shape(e) /\ (\E r : Ring(e, r))
    BY <2>2 DEF Lists
  <2> HIDE DEF e
  <2>4. PICK r : Ring(e, r)
    BY <2>3
  <2>5. r = [i \in 0..(0 + 1) |-> IF i = 0 + 1 THEN Head0 ELSE i]
    BY <2>2, <2>4 DEF Ring, Head0
  <2> QED
    BY <2>1, <2>2, <2>3, <2>4, <2>5 DEF Row
<1>4. ASSUME NEW k \in 0..n, k # 0, Row(b[k - 1], texts, k - 1) PROVE Row(b[k], texts, k)
  <2>1. k - 1 \in Nat /\ k - 1 < NODES /\ (k - 1) + 1 = k
    BY <1>0, <1>4
  <2>2. Row(ll_insert_last(b[k - 1], (k - 1) + 1, texts[(k - 1) + 1]), texts, (k - 1) + 1)
    BY <1>4, <2>1, InsertRow
  <2> QED
    BY <1>2, <1>4, <2>1, <2>2
<1>5. T \subseteq Nat /\ T \subseteq 0..n /\ (\A k \in 0..n : k \in T <=> ~Row(b[k], texts, k))
  BY <1>0
<1> HIDE DEF T
<1>6. T = {}
  <2>1. SUFFICES ASSUME T # {} PROVE FALSE
    OBVIOUS
  <2>2. PICK k \in T : \A y \in T : k <= y
    BY <1>5, <2>1, LeastElement
  <2>3. k \in 0..n /\ k # 0
    BY <1>3, <1>5, <2>2
  <2>4. k - 1 \in 0..n /\ k - 1 \notin T
    BY <2>2, <2>3, <1>0
  <2> QED
    BY <1>4, <1>5, <2>2, <2>3, <2>4
<1>7. Row(b[n], texts, n)
  BY <1>0, <1>5, <1>6
<1> DEFINE r == [i \in 0..(n + 1) |-> IF i = n + 1 THEN Head0 ELSE i]
<1>8. \A i \in 1..n : r[i] = i /\ b[n].item[r[i]] \in S
  BY <1>0, <1>7 DEF Row
<1>9. Shape(b[n]) /\ b[n].count = n /\ Ring(b[n], r)
  BY <1>7 DEF Row
<1> HIDE DEF r
<1> QED
  BY <1>1, <1>8, <1>9 DEF Lists

(***************************************************************************)
(* Sequences of hashes                                                     *)
(***************************************************************************)
\* A solution of the equations of kept gives what kept is.
LEMMA KeptIs ==
    ASSUME NEW seq, NEW S, Len(seq) \in Nat, NEW g,
           \A k \in 0..Len(seq) : g[k] =
              IF k = 0 THEN <<>> ELSE IF seq[k] \in S THEN Append(g[k - 1], seq[k]) ELSE g[k - 1]
    PROVE  kept(seq, S) = g[Len(seq)]
<1> DEFINE n == Len(seq)
           b == sifted(seq, S, n)
           T == {k \in 0..n : b[k] = g[k]}
<1>1. kept(seq, S) = b[n]
  BY DEF kept, sifted
<1>2. \A k \in 0..n : b[k] =
         IF k = 0 THEN <<>> ELSE IF seq[k] \in S THEN Append(b[k - 1], seq[k]) ELSE b[k - 1]
  BY SiftedIs
<1>3. n \in Nat /\ \A k \in 0..n : g[k] =
         IF k = 0 THEN <<>> ELSE IF seq[k] \in S THEN Append(g[k - 1], seq[k]) ELSE g[k - 1]
  OBVIOUS
<1> HIDE DEF b, n
<1>4. 0 \in T
  BY <1>2, <1>3
<1>5. ASSUME NEW k \in 1..n, k - 1 \in T PROVE k \in T
  <2>1. k \in 0..n /\ k # 0 /\ b[k - 1] = g[k - 1]
    BY <1>3, <1>5
  <2>2. b[k] = g[k]
    BY <2>1, <1>2, <1>3, Zenon
  <2> QED
    BY <2>1, <2>2
<1>6. 0..n \subseteq T
  <2> HIDE DEF T
  <2> QED
    BY <1>3, <1>4, <1>5, Upward
<1> QED
  BY <1>1, <1>3, <1>6 DEF n

\* Appending to the second of two sequences in a row.
LEMMA AppendRight ==
    ASSUME NEW X, NEW u \in Seq(X), NEW v \in Seq(X), NEW x \in X
    PROVE  /\ u \o Append(v, x) = Append(u \o v, x)
           /\ u \o <<>> = u
<1> DEFINE p == u \o Append(v, x)
           q == Append(u \o v, x)
           l == Len(u) + Len(v) + 1
<1>1. /\ Len(u) \in Nat /\ Len(v) \in Nat
      /\ p \in Seq(X) /\ Len(p) = l /\ q \in Seq(X) /\ Len(q) = l
  OBVIOUS
<1>2. ASSUME NEW i \in 1..l PROVE p[i] = q[i]
  <2>1. CASE i <= Len(u)
    BY <2>1, <1>1
  <2>2. CASE i > Len(u) /\ i <= Len(u) + Len(v)
    <3>1. i - Len(u) \in 1..Len(v)
      BY <2>2, <1>1
    <3>2. p[i] = v[i - Len(u)]
      BY <2>2, <3>1, <1>1
    <3>3. q[i] = (u \o v)[i]
      BY <2>2, <1>1
    <3> QED
      BY <2>2, <3>1, <3>2, <3>3, <1>1
  <2>3. CASE i = l
    <3>1. p[i] = x
      BY <2>3, <1>1
    <3>2. q[i] = x
      BY <2>3, <1>1
    <3> QED
      BY <3>1, <3>2
  <2> QED
    BY <2>1, <2>2, <2>3, <1>1
<1> HIDE DEF p, q
<1>3. p = q
  BY <1>1, <1>2
<1> QED
  BY <1>3 DEF p, q

\* What is kept of two sequences in a row is what is kept of each.
LEMMA KeptConcat ==
    ASSUME NEW X, NEW S, NEW s \in Seq(X), NEW t \in Seq(X)
    PROVE  kept(s \o t, S) = kept(s, S) \o kept(t, S)
<1> DEFINE m == Len(s)
           n == Len(t)
           q == s \o t
           a == sifted(s, S, m)
           b == sifted(t, S, n)
           both(k) == a[m] \o b[k]
           g == [k \in 0..(m + n) |-> IF k <= m THEN a[k] ELSE both(k - m)]
<1>1. /\ m \in Nat /\ n \in Nat /\ Len(q) = m + n
      /\ \A k \in 1..m : q[k] = s[k]
      /\ \A k \in (m + 1)..(m + n) : q[k] = t[k - m]
  OBVIOUS
<1>2. kept(s, S) = a[m] /\ kept(t, S) = b[n]
  BY DEF kept, sifted
<1>3. \A k \in 0..m : a[k] =
         IF k = 0 THEN <<>> ELSE IF s[k] \in S THEN Append(a[k - 1], s[k]) ELSE a[k - 1]
  BY <1>1, SiftedIs
<1>4. \A k \in 0..n : b[k] =
         IF k = 0 THEN <<>> ELSE IF t[k] \in S THEN Append(b[k - 1], t[k]) ELSE b[k - 1]
  BY <1>1, SiftedIs
<1>5. a[m] \in Seq(X) /\ b[0] = <<>>
  <2>1. kept(s, S) \in Seq(X \cap S)
    BY KeptSound
  <2>2. kept(s, S) \in Seq(X)
    BY <2>1
  <2> HIDE DEF a, b
  <2> QED
    BY <2>2, <1>1, <1>2, <1>4
<1> HIDE DEF a, b, q, both
<1>51. \A k \in 0..n : b[k] \in Seq(X)
  <2> DEFINE T == {k \in 0..n : b[k] \in Seq(X)}
  <2>1. 0 \in T
    <3>1. <<>> \in Seq(X) /\ 0 \in 0..n
      BY <1>1
    <3> QED
      BY <3>1, <1>5
  <2>2. ASSUME NEW k \in 1..n, k - 1 \in T PROVE k \in T
    <3>1. k \in 0..n /\ k # 0 /\ b[k - 1] \in Seq(X) /\ t[k] \in X
      BY <1>1, <2>2
    <3>2. b[k] \in {Append(b[k - 1], t[k]), b[k - 1]}
      BY <3>1, <1>4
    <3>3. \A u \in Seq(X), x \in X : Append(u, x) \in Seq(X)
      OBVIOUS
    <3>4. b[k] \in Seq(X)
      BY <3>1, <3>2, <3>3, Zenon
    <3> QED
      BY <3>1, <3>4
  <2>3. 0..n \subseteq T
    <3> HIDE DEF T
    <3> QED
      BY <1>1, <2>1, <2>2, Upward
  <2> QED
    BY <2>3
<1>52. both(0) = a[m]
  BY <1>5 DEF both
<1>6. ASSUME NEW k \in 0..(m + n)
      PROVE  g[k] = IF k = 0 THEN <<>> ELSE IF q[k] \in S THEN Append(g[k - 1], q[k]) ELSE g[k - 1]
  <2>1. CASE k <= m
    <3>1. k \in 0..m /\ g[k] = a[k]
      BY <2>1, <1>1
    <3>2. k # 0 => k \in 1..m /\ g[k - 1] = a[k - 1] /\ q[k] = s[k]
      BY <2>1, <1>1
    <3> HIDE DEF g
    <3> QED
      BY <3>1, <3>2, <1>3, Zenon
  <2>2. CASE k > m
    <3>1. /\ k \in (m + 1)..(m + n) /\ k # 0 /\ q[k] = t[k - m] /\ k - m \in 0..n /\ k - m # 0
          /\ k - m \in 1..n
      BY <2>2, <1>1
    <3>2. g[k] = both(k - m)
      BY <3>1, <1>1
    <3>3. g[k - 1] = both(k - m - 1)
      <4>1. CASE k - 1 > m
        BY <4>1, <3>1, <1>1
      <4>2. CASE k - 1 = m
        <5>1. g[k - 1] = a[m] /\ k - m - 1 = 0
          BY <4>2, <3>1, <1>1
        <5>2. both(0) = a[m]
          BY <1>52
        <5> HIDE DEF g
        <5> QED
          BY <5>1, <5>2
      <4> QED
        BY <4>1, <4>2, <3>1, <1>1
    <3> HIDE DEF g
    <3>4. b[k - m] = IF q[k] \in S THEN Append(b[k - m - 1], q[k]) ELSE b[k - m - 1]
      BY <3>1, <1>4, Zenon
    <3>5. b[k - m - 1] \in Seq(X) /\ q[k] \in X
      <4>1. k - m - 1 \in 0..n /\ t[k - m] \in X
        BY <3>1, <1>1
      <4> QED
        BY <4>1, <3>1, <1>51
    <3>6. a[m] \o Append(b[k - m - 1], q[k]) = Append(a[m] \o b[k - m - 1], q[k])
      <4>1. \A u, v \in Seq(X), x \in X : u \o Append(v, x) = Append(u \o v, x)
        BY AppendRight
      <4>2. a[m] \in Seq(X)
        BY <1>5
      <4> QED
        BY <4>1, <4>2, <3>5, Zenon
    <3>7. both(k - m) = IF q[k] \in S THEN Append(both(k - m - 1), q[k]) ELSE both(k - m - 1)
      BY <3>4, <3>6, Zenon DEF both
    <3> QED
      BY <3>1, <3>2, <3>3, <3>7, Zenon
  <2> QED
    BY <2>1, <2>2, <1>1
<1>7. g[m + n] = both(n)
  BY <1>1, <1>52
<1> HIDE DEF g
<1>8. kept(q, S) = g[m + n]
  <2>1. Len(q) \in Nat
    BY <1>1
  <2>2. \A k \in 0..Len(q) : g[k] =
           IF k = 0 THEN <<>> ELSE IF q[k] \in S THEN Append(g[k - 1], q[k]) ELSE g[k - 1]
    BY <1>1, <1>6, Zenon
  <2>3. kept(q, S) = g[Len(q)]
    BY <2>1, <2>2, KeptIs
  <2> QED
    BY <2>3, <1>1
<1> QED
  BY <1>2, <1>7, <1>8 DEF q, both

\* A solution of the equations of FlattenSeq gives what it is.
LEMMA FlattenIs ==
    \A seqs : \A n \in Nat \ {0} : \A g :
       /\ Len(seqs) = n /\ g = [i \in 1..n |-> g[i]]
       /\ \A i \in 1..n : g[i] = IF i = 1 THEN seqs[i] ELSE g[i - 1] \o seqs[i]
       => FlattenSeq(seqs) = g[n]
<1> TAKE seqs
<1> TAKE n \in Nat \ {0}
<1> TAKE g
<1> HAVE /\ Len(seqs) = n /\ g = [i \in 1..n |-> g[i]]
         /\ \A i \in 1..n : g[i] = IF i = 1 THEN seqs[i] ELSE g[i - 1] \o seqs[i]
<1> DEFINE f == CHOOSE f : f = [i \in 1..n |-> IF i = 1 THEN seqs[i] ELSE f[i - 1] \o seqs[i]]
           T == {0} \cup {i \in 1..n : f[i] = g[i]}
<1>1. FlattenSeq(seqs) = f[n]
  BY DEF FlattenSeq
<1>2. f = [i \in 1..n |-> IF i = 1 THEN seqs[i] ELSE f[i - 1] \o seqs[i]]
  <2>1. g = [i \in 1..n |-> IF i = 1 THEN seqs[i] ELSE g[i - 1] \o seqs[i]]
    BY Zenon
  <2> QED
    BY <2>1, Zenon
<1> HIDE DEF f
<1>3. \A i \in 1..n : f[i] = IF i = 1 THEN seqs[i] ELSE f[i - 1] \o seqs[i]
  BY <1>2, Zenon
<1>4. \A i \in 1..n : g[i] = IF i = 1 THEN seqs[i] ELSE g[i - 1] \o seqs[i]
  BY Zenon
<1>5. ASSUME NEW k \in 1..n, k - 1 \in T PROVE k \in T
  <2>1. k = 1 \/ (k # 1 /\ f[k - 1] = g[k - 1])
    BY <1>5
  <2>2. f[k] = g[k]
    BY <2>1, <1>3, <1>4, ZenonT(60)
  <2> QED
    BY <2>2
<1>6. 0..n \subseteq T
  <2>1. 0 \in T /\ n \in Nat
    OBVIOUS
  <2> HIDE DEF T
  <2> QED
    BY <2>1, <1>5, Upward
<1>7. f[n] = g[n]
  <2>1. n \in 0..n /\ n # 0
    OBVIOUS
  <2> QED
    BY <2>1, <1>6
<1> QED
  BY <1>1, <1>7, Zenon

(***************************************************************************)
(* Packets                                                                 *)
(***************************************************************************)
\* MIN of packet.h.
LEMMA LeastIs ==
    ASSUME NEW m \in Int, NEW n \in Int
    PROVE  least(m, n) = IF m <= n THEN m ELSE n
<1>1. \E k \in {m, n} : k <= m /\ k <= n
  OBVIOUS
<1>2. least(m, n) \in {m, n} /\ least(m, n) <= m /\ least(m, n) <= n
  BY <1>1 DEF least
<1> QED
  BY <1>2

\* HASH_NUM_PKT hashes and their count fit a packet, and one hash does.
LEMMA Sizes ==
    /\ MAX_PAYLOAD_SIZE \in Nat \ {0} /\ MAX_PAYLOAD_SIZE >= CNT_SIZE + SHA1_HASH_SIZE
    /\ HASH_NUM_PKT \in Nat \ {0}
    /\ \A n \in 0..HASH_NUM_PKT : /\ n * SHA1_HASH_SIZE \in Nat
                                  /\ CNT_SIZE + n * SHA1_HASH_SIZE <= MAX_PAYLOAD_SIZE
<1> DEFINE b == MAX_PAYLOAD_SIZE - CNT_SIZE
           S == SHA1_HASH_SIZE
           H == HASH_NUM_PKT
<1>1. /\ S \in Nat \ {0} /\ CNT_SIZE \in Nat \ {0} /\ b \in Nat /\ b >= S
      /\ MAX_PAYLOAD_SIZE \in Nat \ {0} /\ MAX_PAYLOAD_SIZE >= CNT_SIZE + S
  BY CodecAssumption DEF MAX_PAYLOAD_SIZE
<1>2. H = b \div S
  BY DEF HASH_NUM_PKT
<1> HIDE DEF b, H, S
<1>3. H \in Nat
  BY <1>1, <1>2, PieceOf
<1>4. b \in (H * S)..(H * S + S - 1)
  BY <1>1, <1>2, <1>3, PieceOf
<1>5. H # 0
  <2>1. SUFFICES ASSUME H = 0 PROVE FALSE
    OBVIOUS
  <2>2. H * S = 0
    BY <1>1, <2>1
  <2> QED
    BY <1>1, <1>4, <2>2
<1>6. ASSUME NEW n \in 0..H PROVE n * S \in Nat /\ CNT_SIZE + n * S <= MAX_PAYLOAD_SIZE
  <2>1. n \in Nat /\ n <= H
    BY <1>3
  <2>2. n * S <= H * S /\ n * S \in Nat /\ H * S \in Nat
    BY <2>1, <1>1, <1>3, ProductOrder, ProductNat
  <2> QED
    BY <2>2, <1>1, <1>4 DEF b
<1> QED
  BY <1>1, <1>3, <1>5, <1>6 DEF S, H

\* The lists of hashes that go into one packet of a type: a WHOHAS may have
\* nothing to ask for, an offer never is empty.
Fits(type, texts) ==
    /\ type \in {"WHOHAS", "IHAVE", "GET"}
    /\ Len(texts) \in 0..HASH_NUM_PKT
    /\ type = "GET" => Len(texts) = 1
    /\ type = "IHAVE" => Len(texts) > 0

\* what arrives of them
arrived(type, texts) == DECODE_PKT(ENCODE_PKT(hash_packet(type, texts)))

\* The header arrives as it was sent: htons and ntohs undo each other.
LEMMA HeaderArrives ==
    ASSUME NEW type, NEW texts, Fits(type, texts)
    PROVE  LET pkt == arrived(type, texts)
               len == HEADER_SIZE + count_size(type) + Len(texts) * SHA1_HASH_SIZE IN
           /\ pkt.magic = MAGIC /\ pkt.version = VERSION /\ pkt.type = type
           /\ pkt.hdr_len = HEADER_SIZE /\ pkt.pkt_len = len
           /\ len \in Nat /\ len <= PACKET_SIZE
           /\ pkt.payload = [b \in PayloadBytes |->
                 IF b \in 0..(len - HEADER_SIZE - 1) THEN hash_payload(type, texts)[b] ELSE Junk]
<1> DEFINE pkt == arrived(type, texts)
           len == HEADER_SIZE + count_size(type) + Len(texts) * SHA1_HASH_SIZE
           sent == hash_packet(type, texts)
           w == ENCODE_PKT(sent)
<1>1. \A v \in Nat : ntohs(htons(v)) = v
  BY DEF htons, ntohs
<1>2. Len(texts) * SHA1_HASH_SIZE = SHA1_HASH_SIZE * Len(texts)
  BY CodecAssumption, Sizes DEF Fits
<1>3. len \in Nat /\ len <= PACKET_SIZE
  <2>1. /\ Len(texts) * SHA1_HASH_SIZE \in Nat
        /\ CNT_SIZE + Len(texts) * SHA1_HASH_SIZE <= MAX_PAYLOAD_SIZE
    BY Sizes DEF Fits
  <2>2. count_size(type) \in Nat /\ count_size(type) <= CNT_SIZE
    BY CodecAssumption DEF count_size
  <2> HIDE DEF pkt
  <2> QED
    BY <2>1, <2>2, CodecAssumption DEF MAX_PAYLOAD_SIZE
<1>4. /\ sent.magic = MAGIC /\ sent.version = VERSION /\ sent.type = type
      /\ sent.hdr_len = HEADER_SIZE /\ sent.pkt_len = len
      /\ sent.payload = hash_payload(type, texts)
  BY <1>2 DEF hash_packet
<1> HIDE DEF sent
<1>5. /\ w.magic = htons(MAGIC) /\ w.version = VERSION /\ w.type = type
      /\ w.hdr_len = htons(HEADER_SIZE) /\ w.pkt_len = htons(len)
      /\ w.payload = [b \in 0..(len - HEADER_SIZE - 1) |-> hash_payload(type, texts)[b]]
  BY <1>4 DEF ENCODE_PKT
<1>6. pkt = DECODE_PKT(w)
  BY DEF arrived, sent
<1> HIDE DEF pkt, w, len
<1>7. /\ pkt.magic = ntohs(w.magic) /\ pkt.version = w.version /\ pkt.type = w.type
      /\ pkt.hdr_len = ntohs(w.hdr_len) /\ pkt.pkt_len = ntohs(w.pkt_len)
      /\ pkt.payload = [b \in PayloadBytes |-> IF b \in DOMAIN w.payload THEN w.payload[b] ELSE Junk]
  BY <1>6 DEF DECODE_PKT
<1>8. pkt.payload = [b \in PayloadBytes |->
                 IF b \in 0..(len - HEADER_SIZE - 1) THEN hash_payload(type, texts)[b] ELSE Junk]
  BY <1>5, <1>7, Zenon
<1>9. MAGIC \in Nat /\ HEADER_SIZE \in Nat
  BY CodecAssumption DEF MAGIC
<1> QED
  BY <1>1, <1>3, <1>5, <1>7, <1>8, <1>9 DEF pkt, len

\* and so does its type
LEMMA TypeArrives ==
    ASSUME NEW type, NEW texts, Fits(type, texts)
    PROVE  arrived(type, texts).type = type
<1> DEFINE pkt == arrived(type, texts)
<1>1. pkt.type = type
  BY HeaderArrives
<1> QED
  BY <1>1

\* GET_CHUNK_CNT reads the number of hashes that were put in.
LEMMA CountArrives ==
    ASSUME NEW type, NEW texts, Fits(type, texts), type # "GET"
    PROVE  GET_CHUNK_CNT(arrived(type, texts)) = Len(texts)
<1> DEFINE pkt == arrived(type, texts)
           len == HEADER_SIZE + CNT_SIZE + Len(texts) * SHA1_HASH_SIZE
<1>0. count_size(type) = CNT_SIZE
  BY DEF count_size
<1>1. /\ pkt.hdr_len = HEADER_SIZE /\ pkt.pkt_len = len
      /\ len \in Nat /\ len <= PACKET_SIZE
      /\ pkt.payload = [b \in PayloadBytes |->
                 IF b \in 0..(len - HEADER_SIZE - 1) THEN hash_payload(type, texts)[b] ELSE Junk]
  BY <1>0, HeaderArrives
<1>2. Len(texts) * SHA1_HASH_SIZE \in Nat
  BY Sizes DEF Fits
<1> HIDE DEF pkt
<1>3. EXT_HEADER_SIZE(pkt) = 0 /\ MAX_OFFSET(pkt) \in Nat
  BY <1>1, <1>2, CodecAssumption DEF EXT_HEADER_SIZE, MAX_OFFSET, GET_DATA_LEN
<1>4. least(MAX_OFFSET(pkt), EXT_HEADER_SIZE(pkt)) = 0
  BY <1>3, LeastIs
<1>5. 0 \in PayloadBytes /\ 0 \in 0..(len - HEADER_SIZE - 1)
  BY <1>2, Sizes, CodecAssumption DEF PayloadBytes
<1>6. pkt.payload[0] = hash_payload(type, texts)[0]
  BY <1>1, <1>5
<1>7. hash_payload(type, texts)[0] = <<"count", Len(texts)>>
  BY <1>0, <1>5, CodecAssumption DEF hash_payload
<1> QED
  BY <1>4, <1>6, <1>7 DEF GET_CHUNK_CNT, pkt

\* GET_HASH reads the n-th hash that was put in, in lower case.
LEMMA HashArrives ==
    ASSUME NEW type, NEW texts, Fits(type, texts), type # "GET",
           NEW n \in 0..(Len(texts) - 1)
    PROVE  GET_HASH(arrived(type, texts), n) = Text(texts[n + 1].hash, FALSE)
<1> DEFINE pkt == arrived(type, texts)
           S == SHA1_HASH_SIZE
           L == Len(texts)
           len == HEADER_SIZE + CNT_SIZE + L * S
           h == texts[n + 1].hash
<1>0. count_size(type) = CNT_SIZE
  BY DEF count_size
<1>1. /\ pkt.hdr_len = HEADER_SIZE /\ pkt.pkt_len = len /\ pkt.type = type
      /\ len \in Nat /\ len <= PACKET_SIZE
      /\ pkt.payload = [b \in PayloadBytes |->
                 IF b \in 0..(len - HEADER_SIZE - 1) THEN hash_payload(type, texts)[b] ELSE Junk]
  BY <1>0, HeaderArrives
<1>2. /\ L \in Nat /\ n \in Nat /\ n + 1 <= L /\ S \in Nat \ {0}
      /\ CNT_SIZE \in Nat \ {0} /\ HEADER_SIZE \in Nat
  BY Sizes, CodecAssumption DEF Fits
<1>3. /\ L * S \in Nat /\ n * S \in Nat /\ n * S + S <= L * S
      /\ CNT_SIZE + L * S <= MAX_PAYLOAD_SIZE
  <2>1. (n + 1) * S <= L * S /\ (n + 1) * S = n * S + S
    BY <1>2, ProductOrder
  <2>2. L * S \in Nat /\ CNT_SIZE + L * S <= MAX_PAYLOAD_SIZE
    BY Sizes DEF Fits
  <2>3. n * S \in Nat
    BY <1>2, ProductNat
  <2> QED
    BY <2>1, <2>2, <2>3
<1> HIDE DEF pkt, L, S
<1>4. HASH_OFFSET(pkt, n) = CNT_SIZE + n * S
  <2>1. EXT_HEADER_SIZE(pkt) = 0 /\ MAX_OFFSET(pkt) = CNT_SIZE + L * S - S
    BY <1>1, <1>2, <1>3 DEF EXT_HEADER_SIZE, MAX_OFFSET, GET_DATA_LEN, S
  <2>2. CNT_SIZE + n * S <= CNT_SIZE + L * S - S /\ CNT_SIZE + L * S - S \in Int
    BY <1>2, <1>3
  <2>3. HASH_OFFSET(pkt, n) = least(CNT_SIZE + L * S - S, 0 + CNT_SIZE + n * S)
    BY <1>0, <1>1, <2>1 DEF HASH_OFFSET, S
  <2>4. 0 + CNT_SIZE + n * S = CNT_SIZE + n * S /\ CNT_SIZE + n * S \in Int
    BY <1>2, <1>3
  <2> QED
    BY <2>2, <2>3, <2>4, LeastIs
<1>5. ASSUME NEW j \in 0..(S - 1) PROVE pkt.payload[HASH_OFFSET(pkt, n) + j] = <<h, j>>
  <2> DEFINE b == CNT_SIZE + n * S + j
  <2>1. /\ j \in Nat /\ j < S /\ b \in Nat /\ b >= CNT_SIZE /\ b - CNT_SIZE = n * S + j
        /\ b < CNT_SIZE + L * S /\ b # 0
    BY <1>2, <1>3
  <2>2. b \in PayloadBytes /\ b \in 0..(len - HEADER_SIZE - 1)
    BY <2>1, <1>2, <1>3, Sizes DEF PayloadBytes
  <2>3. (b - CNT_SIZE) \div S = n
    <3>1. n * S + j \in Nat /\ n * S + j \in (n * S)..(n * S + S - 1)
      BY <2>1, <1>2, <1>3
    <3>2. (n * S + j) \div S = n
      BY <3>1, <1>2, PieceOf
    <3> QED
      BY <3>2, <2>1
  <2>4. (b - CNT_SIZE) % S = j
    <3>1. (n * S + j) % S = j
      BY <1>2, <1>3, <2>1, <2>3
    <3> QED
      BY <3>1, <2>1
  <2> HIDE DEF b
  <2>5. hash_payload(type, texts)[b] = hex2binary(texts[n + 1])[j]
    <3>1. n < L
      BY <1>2
    <3> QED
      BY <1>0, <2>1, <2>2, <2>3, <2>4, <3>1 DEF hash_payload, L, S
  <2>6. hex2binary(texts[n + 1])[j] = <<h, j>>
    BY DEF hex2binary, S
  <2>7. pkt.payload[b] = hash_payload(type, texts)[b]
    BY <1>1, <2>2
  <2> QED
    BY <1>4, <2>5, <2>6, <2>7 DEF b
<1> DEFINE bytes == [i \in 0..(S - 1) |-> pkt.payload[HASH_OFFSET(pkt, n) + i]]
<1>6. /\ 0 \in 0..(S - 1) /\ DOMAIN bytes = 0..(S - 1)
      /\ \A j \in 0..(S - 1) : bytes[j] = <<h, j>>
  BY <1>2, <1>5
<1>7. GET_HASH(pkt, n) = binary2hex(bytes)
  BY DEF GET_HASH, S
<1> HIDE DEF bytes
<1>8. bytes[0][1] = h
  <2>1. bytes[0] = <<h, 0>>
    BY <1>6
  <2> QED
    BY <2>1
<1>9. \A i \in DOMAIN bytes : bytes[i] = <<bytes[0][1], i>>
  BY <1>6, <1>8
<1>10. binary2hex(bytes) = Text(h, FALSE)
  BY <1>8, <1>9, Zenon DEF binary2hex
<1> QED
  BY <1>7, <1>10 DEF pkt

\* A packet arrives valid unless it was to name hashes and names none.
LEMMA ValidArrives ==
    ASSUME NEW type, NEW texts, Fits(type, texts)
    PROVE  valid_packet(arrived(type, texts)) <=> (type # "GET" => Len(texts) > 0)
<1> DEFINE pkt == arrived(type, texts)
           S == SHA1_HASH_SIZE
           L == Len(texts)
           len == HEADER_SIZE + count_size(type) + L * S
<1>1. /\ pkt.magic = MAGIC /\ pkt.version = VERSION /\ pkt.type = type
      /\ pkt.hdr_len = HEADER_SIZE /\ pkt.pkt_len = len
      /\ len \in Nat /\ len <= PACKET_SIZE
      /\ pkt.payload = [b \in PayloadBytes |->
                 IF b \in 0..(len - HEADER_SIZE - 1) THEN hash_payload(type, texts)[b] ELSE Junk]
  BY HeaderArrives
<1>2. L \in Nat /\ L * S \in Nat /\ S \in Nat \ {0} /\ CNT_SIZE \in Nat \ {0} /\ HEADER_SIZE \in Nat
  BY Sizes, CodecAssumption DEF Fits
<1>3. count_size(type) = IF type = "GET" THEN 0 ELSE CNT_SIZE
  BY DEF count_size
<1>4. GET_DATA_LEN(pkt) = count_size(type) + L * S
  BY <1>1, <1>2, <1>3 DEF GET_DATA_LEN
<1>5. type # "GET" => GET_CHUNK_CNT(pkt) = L
  BY CountArrives
<1> HIDE DEF pkt, L, S
<1>6. CASE type = "GET"
  <2>0. L = 1
    BY <1>6 DEF Fits, L
  <2>1. L * S = S
    BY <1>2, <2>0
  <2> QED
    BY <1>1, <1>2, <1>3, <1>4, <1>6, <2>1 DEF valid_packet, pkt, S
<1>7. CASE type # "GET"
  <2>1. type \in {"WHOHAS", "IHAVE"}
    BY <1>7 DEF Fits
  <2>2. (GET_DATA_LEN(pkt) - CNT_SIZE) \div S = L
    <3>1. GET_DATA_LEN(pkt) - CNT_SIZE = L * S /\ L * S \in (L * S)..(L * S + S - 1)
      BY <1>2, <1>3, <1>4, <1>7
    <3> QED
      BY <3>1, <1>2, PieceOf
  <2>3. GET_DATA_LEN(pkt) >= CNT_SIZE
    BY <1>2, <1>3, <1>4, <1>7
  <2>4. pkt.pkt_len >= pkt.hdr_len /\ pkt.hdr_len >= HEADER_SIZE /\ pkt.pkt_len <= PACKET_SIZE
    BY <1>1, <1>2, <1>3
  <2>5. valid_packet(pkt) <=> L > 0
    BY <1>1, <1>2, <1>5, <1>7, <2>1, <2>2, <2>3, <2>4 DEF valid_packet, S
  <2> QED
    BY <1>7, <2>5 DEF pkt, L
<1> QED
  BY <1>6, <1>7

\* send_packet makes a natural number of packets, and one for a list that fits.
LEMMA PacketNumber ==
    /\ \A c \in Nat : pkt_num(c) \in Nat
    /\ \A c \in 1..HASH_NUM_PKT : pkt_num(c) = 1
<1> DEFINE M == MAX_PAYLOAD_SIZE
           S == SHA1_HASH_SIZE
           H == HASH_NUM_PKT
<1>1. /\ M \in Nat \ {0} /\ S \in Nat \ {0} /\ H \in Nat
      /\ \A c \in 0..H : c * S \in Nat /\ c * S <= M
  BY Sizes, CodecAssumption
<1> HIDE DEF M, S, H
<1>2. ASSUME NEW c \in Nat PROVE (c * S + M - 1) \div M \in Nat
  <2>1. c * S \in Nat
    BY <1>1, ProductNat
  <2>2. c * S + M - 1 \in Nat
    BY <2>1, <1>1
  <2> QED
    BY <2>2, <1>1, PieceOf
<1>3. ASSUME NEW c \in 1..H PROVE (c * S + M - 1) \div M = 1
  <2>1. PICK b \in Nat : b = c * S /\ b <= M /\ b >= 1
    <3>1. c * S \in Nat /\ c * S <= M
      BY <1>1
    <3>2. 1 * S <= c * S
      BY <1>1, ProductOrder
    <3> QED
      BY <3>1, <3>2, <1>1
  <2>2. b + M - 1 \in Nat /\ b + M - 1 \in (1 * M)..(1 * M + M - 1)
    BY <2>1, <1>1
  <2>3. (b + M - 1) \div M = 1
    BY <2>2, <1>1, PieceOf
  <2> QED
    BY <2>1, <2>3
<1> QED
  BY <1>2, <1>3 DEF pkt_num, M, S, H

\* The slots of one packet are among those asked for, and fit it.
LEMMA SlotsSound ==
    ASSUME NEW c_index \in Nat, NEW c_count \in Nat, NEW i \in Nat \ {0}
    PROVE  LET slots == packet_slots(c_index, c_count, i) IN
           /\ slots \in Seq(c_index..(c_index + c_count - 1))
           /\ Len(slots) <= HASH_NUM_PKT
           /\ c_count \in 1..HASH_NUM_PKT /\ i = 1 => Len(slots) = c_count
<1> DEFINE H == HASH_NUM_PKT
           first == H * (i - 1)
           last == least(c_count, H * i)
           d == IF first <= last THEN last - first ELSE 0
           slots == packet_slots(c_index, c_count, i)
<1>1. H \in Nat \ {0}
  BY Sizes
<1> HIDE DEF H
<1>2. first \in Nat /\ H * i = first + H /\ H * i \in Nat
  <2>1. (i - 1) * H \in Nat /\ (i - 1) * H = H * (i - 1)
    BY <1>1, ProductNat
  <2>2. H * i = H * (i - 1) + H
    BY <1>1
  <2> QED
    BY <2>1, <2>2, <1>1
<1>3. last = IF c_count <= H * i THEN c_count ELSE H * i
  BY <1>2, LeastIs
<1>4. c_count \in 1..H /\ i = 1 => first = 0 /\ last = c_count
  <2>1. SUFFICES ASSUME c_count \in 1..H, i = 1 PROVE first = 0 /\ last = c_count
    OBVIOUS
  <2>2. first = 0
    BY <2>1, <1>1
  <2> HIDE DEF first
  <2> QED
    BY <2>1, <2>2, <1>1, <1>2, <1>3
<1>5. slots = [n \in 1..(last - first) |-> c_index + first + n - 1]
  BY DEF packet_slots, H
<1> HIDE DEF first, last, slots
<1>6. d \in Nat /\ d <= H /\ 1..(last - first) = 1..d
  BY <1>1, <1>2, <1>3
<1>7. ASSUME NEW n \in 1..d PROVE c_index + first + n - 1 \in c_index..(c_index + c_count - 1)
  BY <1>2, <1>3, <1>6
<1> HIDE DEF d
<1>8. slots \in [1..d -> c_index..(c_index + c_count - 1)]
  BY <1>5, <1>6, <1>7
<1>9. slots \in Seq(c_index..(c_index + c_count - 1)) /\ Len(slots) = d
  BY <1>6, <1>8
<1>10. c_count \in 1..H /\ i = 1 => d = c_count
  BY <1>4 DEF d
<1> QED
  BY <1>6, <1>9, <1>10 DEF slots, H

\* what a call of send_packet may put on the wire, with hashes of X
Wires(type, X) ==
    {ENCODE_PKT(hash_packet(type, texts)) : texts \in {t \in Seq(X) : Fits(type, t)}}

\* the hashes of the i-th packet of a call of send_packet
slots_of(list, c_index, c_count, skip, i) ==
    kept(packet_slots(c_index, c_count, i), DOMAIN list \ skip)
texts_of(list, c_index, c_count, skip, i) ==
    LET slots == slots_of(list, c_index, c_count, skip, i)
    IN  [n \in 1..Len(slots) |-> list[slots[n]]]

\* The calls of send_packet: WHOHAS of a whole list, IHAVE of one that was
\* asked for in one packet, GET of one of its slots.
Call(type, list, c_index, c_count, skip) ==
    \/ type = "WHOHAS" /\ c_index = 1 /\ c_count = Len(list)
    \/ /\ type = "IHAVE" /\ c_index = 1 /\ c_count = Len(list) /\ skip = {}
       /\ c_count \in 1..HASH_NUM_PKT
    \/ type = "GET" /\ c_index \in 1..Len(list) /\ c_count = 1 /\ skip = {}

\* Every packet of a call fits.
LEMMA PacketFits ==
    ASSUME NEW X, NEW list \in Seq(X), NEW type, NEW c_index \in Nat, NEW c_count \in Nat, NEW skip,
           Call(type, list, c_index, c_count, skip), NEW i \in 1..pkt_num(c_count)
    PROVE  LET t == texts_of(list, c_index, c_count, skip, i)
           IN  t \in Seq(X) /\ Fits(type, t)
<1> DEFINE slots == slots_of(list, c_index, c_count, skip, i)
           texts == texts_of(list, c_index, c_count, skip, i)
<1>0. Len(list) \in Nat /\ c_index >= 1 /\ c_index + c_count - 1 <= Len(list)
  <2>1. Len(list) \in Nat
    OBVIOUS
  <2>2. CASE c_index = 1 /\ c_count = Len(list)
    BY <2>1, <2>2
  <2>3. CASE c_index \in 1..Len(list) /\ c_count = 1
    BY <2>1, <2>3
  <2> QED
    BY <2>1, <2>2, <2>3 DEF Call
<1>12. /\ pkt_num(c_count) \in Nat /\ 1 \in 1..HASH_NUM_PKT
       /\ c_count \in 1..HASH_NUM_PKT => pkt_num(c_count) = 1
  BY PacketNumber, Sizes
<1> DEFINE all == packet_slots(c_index, c_count, i)
           D == DOMAIN list \ skip
           C == c_index..(c_index + c_count - 1)
<1>1. /\ all \in Seq(C) /\ Len(all) <= HASH_NUM_PKT
      /\ c_count \in 1..HASH_NUM_PKT /\ i = 1 => Len(all) = c_count
  <2>1. i \in Nat \ {0}
    BY <1>12
  <2> QED
    BY <2>1, SlotsSound, Zenon
<1>2. DOMAIN list = 1..Len(list) /\ Len(list) \in Nat /\ \A n \in 1..Len(list) : list[n] \in X
  OBVIOUS
<1>3. C \subseteq 1..Len(list)
  <2>1. ASSUME NEW x \in C PROVE x \in 1..Len(list)
    BY <1>0, <2>1
  <2> QED
    BY <2>1
<1>4. slots = kept(all, D)
  BY DEF slots_of
<1>13. texts = [n \in 1..Len(slots) |-> list[slots[n]]]
  BY DEF texts_of
<1> HIDE DEF all, slots, texts, D, C
<1>5. /\ slots \in Seq(C \cap D) /\ Len(slots) <= Len(all)
      /\ (\A n \in 1..Len(all) : all[n] \in D) => Len(slots) = Len(all)
  <2>1. /\ kept(all, D) \in Seq(C \cap D) /\ Len(kept(all, D)) <= Len(all)
        /\ (\A n \in 1..Len(all) : all[n] \in D) => Len(kept(all, D)) = Len(all)
    <3>1. all \in Seq(C)
      BY <1>1
    <3> QED
      BY <3>1, KeptSound, ZenonT(60)
  <2> QED
    BY <2>1, <1>4, Zenon
<1>6. Len(slots) \in Nat /\ Len(all) \in Nat /\ \A n \in 1..Len(slots) : slots[n] \in C \cap D
  BY <1>1, <1>5
<1>7. \A n \in 1..Len(slots) : list[slots[n]] \in X
  BY <1>2, <1>3, <1>6
<1>8. texts \in Seq(X) /\ Len(texts) = Len(slots)
  <2>1. texts \in [1..Len(slots) -> X]
    BY <1>7, <1>13
  <2> QED
    BY <2>1, <1>6
<1>9. Len(texts) \in 0..HASH_NUM_PKT
  BY <1>1, <1>5, <1>6, <1>8, Sizes
<1>10. type \in {"GET", "IHAVE"} => Len(texts) = c_count
  <2>1. SUFFICES ASSUME type \in {"GET", "IHAVE"} PROVE Len(slots) = c_count
    BY <1>8
  <2>2. c_count \in 1..HASH_NUM_PKT /\ i = 1 /\ skip = {}
    <3>1. c_count \in 1..HASH_NUM_PKT /\ skip = {}
      BY <2>1, <1>12 DEF Call
    <3> QED
      BY <3>1, <1>12
  <2>3. \A n \in 1..Len(all) : all[n] \in D
    <3>1. \A n \in 1..Len(all) : all[n] \in C
      BY <1>1
    <3> QED
      BY <3>1, <1>2, <1>3, <2>2 DEF D
  <2> QED
    BY <1>1, <1>5, <2>2, <2>3
<1>11. /\ type \in {"WHOHAS", "IHAVE", "GET"}
       /\ type = "GET" => c_count = 1
       /\ type = "IHAVE" => c_count \in 1..HASH_NUM_PKT
  BY DEF Call
<1> QED
  BY <1>8, <1>9, <1>10, <1>11, Sizes DEF Fits, texts

\* So do the packets that a call puts on the wire.
LEMMA SendSound ==
    ASSUME NEW X, NEW list \in Seq(X), NEW type, NEW c_index \in Nat, NEW c_count \in Nat, NEW skip,
           Call(type, list, c_index, c_count, skip)
    PROVE  wire(send_packet(type, list, c_index, c_count, skip)) \in Seq(Wires(type, X))
<1> DEFINE num == pkt_num(c_count)
           texts(i) == texts_of(list, c_index, c_count, skip, i)
           packets == send_packet(type, list, c_index, c_count, skip)
<1>1. num \in Nat
  BY PacketNumber
<1>2. packets = [i \in 1..num |-> hash_packet(type, texts(i))]
  BY DEF send_packet, texts_of, slots_of
<1>3. ASSUME NEW i \in 1..num PROVE texts(i) \in Seq(X) /\ Fits(type, texts(i))
  BY PacketFits
<1> HIDE DEF texts, packets
<1>4. Len(packets) = num
  BY <1>1, <1>2
<1>5. ASSUME NEW i \in 1..num PROVE ENCODE_PKT(packets[i]) \in Wires(type, X)
  <2>1. packets[i] = hash_packet(type, texts(i))
    BY <1>2
  <2> QED
    BY <1>3, <2>1, Zenon DEF Wires
<1>6. wire(packets) \in [1..num -> Wires(type, X)]
  BY <1>4, <1>5 DEF wire
<1> QED
  BY <1>1, <1>6 DEF packets

(***************************************************************************)
(* The invariant                                                           *)
(***************************************************************************)
\* the texts of the chunk files
Asked == UNION {{Text(f[i], UPPER) : i \in 1..Len(f)} : f \in Files}

States == {"unfetched", "fetching", "fetched"}
Chunks == [sha1 : Asked, state : States]
Requests == Wires("WHOHAS", Asked) \cup Wires("GET", Asked)

DsInv ==
    /\ getchunks \in Seq(Chunks)
    /\ \A t \in haschunks : t = Text(t.hash, FALSE)
    /\ Lists(hasqueue, haschunks)
    /\ to_holder \in Seq(Requests)
    /\ to_asker \in Seq(Wires("IHAVE", haschunks))

\* Changing the state of a slot leaves a chunk list.
LEMMA MarkChunk ==
    ASSUME NEW g \in Seq(Chunks), NEW i, NEW st \in States
    PROVE  [g EXCEPT ![i].state = st] \in Seq(Chunks)
<1> DEFINE new == [g EXCEPT ![i].state = st]
           n == Len(g)
<1>1. n \in Nat /\ g \in [1..n -> Chunks]
  BY LenProperties
<1>2. new \in [1..n -> Chunks]
  BY <1>1 DEF Chunks
<1> QED
  BY <1>1, <1>2

\* The texts of the list are those of the chunk file.
LEMMA TextsTyped ==
    ASSUME getchunks \in Seq(Chunks)
    PROVE  Texts \in Seq(Asked) /\ Len(Texts) = Len(getchunks) /\ Len(getchunks) \in Nat
<1>1. Len(getchunks) \in Nat /\ \A i \in 1..Len(getchunks) : getchunks[i] \in Chunks
  OBVIOUS
<1>2. Texts \in [1..Len(getchunks) -> Asked]
  BY <1>1 DEF Texts, Slots, Chunks
<1> QED
  BY <1>1, <1>2

\* What is on the wire is what arrived speaks of.
LEMMA OffWire ==
    ASSUME NEW type, NEW X, NEW w \in Wires(type, X)
    PROVE  \E texts \in Seq(X) : Fits(type, texts) /\ DECODE_PKT(w) = arrived(type, texts)
  BY DEF Wires, arrived

\* try_send_get: the list stays a ring, and what it sends fits.
LEMMA GetKeeps ==
    ASSUME DsInv, NEW ll, Lists(ll, haschunks), try_send_get(ll)
    PROVE  /\ Lists(hasqueue', haschunks)
           /\ getchunks' \in Seq(Chunks)
           /\ to_holder' \in Seq(Requests)
<1>1. CASE NothingWanted(ll) /\ hasqueue' = ll /\ UNCHANGED <<getchunks, to_holder>>
  BY <1>1 DEF DsInv
<1>2. ASSUME NEW k \in DOMAIN iteration(ll), NEW i \in Slots, StartDownload(ll, iteration(ll)[k], i)
      PROVE  /\ Lists(hasqueue', haschunks)
             /\ getchunks' \in Seq(Chunks)
             /\ to_holder' \in Seq(Requests)
  <2>1. PICK r : Ring(ll, r) /\ \A j \in 1..ll.count : ll.item[r[j]] \in haschunks
    BY DEF Lists
  <2>2. iteration(ll) = [j \in 1..ll.count |-> r[j]]
    BY <2>1, RingIteration
  <2>3. k \in 1..ll.count /\ iteration(ll)[k] = r[k]
    BY <2>2, <1>2
  <2>4. Lists(hasqueue', haschunks)
    <3>1. Lists(ll_remove(ll, r[k]), haschunks)
      BY <2>1, <2>3, RemoveLists DEF Lists
    <3> QED
      BY <3>1, <2>3, <1>2 DEF StartDownload
  <2>5. getchunks' \in Seq(Chunks)
    BY <1>2, MarkChunk DEF StartDownload, DsInv, States
  <2>6. wire(send_packet("GET", Texts, i, 1, {})) \in Seq(Wires("GET", Asked))
    <3>1. Texts \in Seq(Asked) /\ i \in 1..Len(Texts) /\ i \in Nat
      BY <1>2, TextsTyped DEF DsInv, Slots
    <3>2. Call("GET", Texts, i, 1, {})
      BY <3>1 DEF Call
    <3> QED
      BY <3>1, <3>2, SendSound
  <2>7. to_holder' \in Seq(Requests)
    <3> DEFINE sent == wire(send_packet("GET", Texts, i, 1, {}))
    <3>1. to_holder' = to_holder \o sent
      BY <1>2 DEF StartDownload
    <3> HIDE DEF sent
    <3>2. sent \in Seq(Requests)
      BY <2>6, ElementOfSeq DEF Requests, sent
    <3> QED
      BY <3>1, <3>2, ConcatProperties DEF DsInv
  <2> QED
    BY <2>4, <2>5, <2>7
<1> QED
  BY <1>1, <1>2 DEF try_send_get

\* parse_download, with the hashes of any IHAVE that may arrive, refills the
\* list with chunks the holder has.
LEMMA OfferListed ==
    ASSUME DsInv, NEW w \in Wires("IHAVE", haschunks)
    PROVE  Lists(filled(hasqueue, hashes_of(DECODE_PKT(w))), haschunks)
<1>1. PICK texts \in Seq(haschunks) : /\ Fits("IHAVE", texts)
                                      /\ DECODE_PKT(w) = arrived("IHAVE", texts)
  BY OffWire
<1> DEFINE pkt == arrived("IHAVE", texts)
           L == Len(texts)
<1>2. GET_CHUNK_CNT(pkt) = L
  BY <1>1, CountArrives
<1>3. L \in Nat /\ L <= NODES /\ \A n \in 1..L : texts[n] \in haschunks
  BY <1>1, Sizes, DiscoveryAssumption, LinkedListAssumption DEF Fits
<1>4. ASSUME NEW n \in 1..L PROVE GET_HASH(pkt, n - 1) \in haschunks
  <2>1. n - 1 \in 0..(L - 1) /\ (n - 1) + 1 = n
    BY <1>3
  <2>2. GET_HASH(pkt, n - 1) = Text(texts[(n - 1) + 1].hash, FALSE)
    BY <1>1, <2>1, HashArrives
  <2>3. texts[n] = Text(texts[n].hash, FALSE)
    BY <1>3 DEF DsInv
  <2> QED
    BY <1>3, <2>1, <2>2, <2>3
<1> HIDE DEF pkt, L
<1>5. hashes_of(pkt) \in [1..L -> haschunks]
  BY <1>2, <1>4 DEF hashes_of
<1>6. Len(hashes_of(pkt)) = L /\ \A n \in 1..L : hashes_of(pkt)[n] \in haschunks
  BY <1>3, <1>5
<1>7. Lists(filled(hasqueue, hashes_of(pkt)), haschunks)
  <2>1. Len(hashes_of(pkt)) \in 0..NODES
    BY <1>3, <1>6, LinkedListAssumption
  <2> QED
    BY <1>6, <2>1, FilledLists DEF DsInv
<1> QED
  BY <1>1, <1>7 DEF pkt

\* send_ihave: whatever a WHOHAS asks for, the answer fits and names only
\* chunks the holder has.
LEMMA AnswerFits ==
    ASSUME DsInv, NEW w \in Requests, DECODE_PKT(w).type = "WHOHAS"
    PROVE  wire(ihave_packets(found_in(DECODE_PKT(w)))) \in Seq(Wires("IHAVE", haschunks))
<1>1. PICK texts \in Seq(Asked) : /\ Fits("WHOHAS", texts)
                                  /\ DECODE_PKT(w) = arrived("WHOHAS", texts)
  <2>1. CASE w \in Wires("WHOHAS", Asked)
    BY <2>1, OffWire
  <2>2. CASE w \in Wires("GET", Asked)
    <3>1. PICK texts : Fits("GET", texts) /\ DECODE_PKT(w) = arrived("GET", texts)
      BY <2>2, OffWire
    <3>2. arrived("GET", texts).type = "GET"
      BY <3>1, HeaderArrives
    <3> QED
      BY <3>1, <3>2
  <2> QED
    BY <2>1, <2>2 DEF Requests
<1> DEFINE pkt == DECODE_PKT(w)
           L == Len(texts)
           X == {GET_HASH(pkt, n - 1) : n \in 1..L}
           found == found_in(pkt)
<1>2. GET_CHUNK_CNT(pkt) = L /\ L \in Nat /\ L <= HASH_NUM_PKT
  BY <1>1, CountArrives, LenProperties, Sizes DEF Fits
<1> HIDE DEF pkt, L
<1>3. hashes_of(pkt) \in [1..L -> X]
  BY <1>2 DEF hashes_of
<1> HIDE DEF X
<1>4. hashes_of(pkt) \in Seq(X) /\ Len(hashes_of(pkt)) = L
  BY <1>2, <1>3
<1>5. found \in Seq(X \cap haschunks) /\ Len(found) <= L
  BY <1>4, KeptSound DEF found_in
<1> HIDE DEF found
<1>6. found \in Seq(haschunks)
  BY <1>5
<1>7. CASE found = <<>>
  <2>1. ihave_packets(found) = <<>>
    BY <1>7 DEF ihave_packets
  <2>2. wire(<<>>) = <<>>
    BY DEF wire
  <2>0. \A Y : <<>> \in Seq(Y)
    OBVIOUS
  <2>3. wire(ihave_packets(found)) \in Seq(Wires("IHAVE", haschunks))
    BY <2>0, <2>1, <2>2, Zenon
  <2> QED
    BY <2>3 DEF found, pkt
<1>8. CASE found # <<>>
  <2>1. ihave_packets(found) = send_packet("IHAVE", found, 1, Len(found), {})
    BY <1>8 DEF ihave_packets
  <2>2. Len(found) \in 1..HASH_NUM_PKT /\ Len(found) \in Nat
    BY <1>2, <1>5, <1>6, <1>8, EmptySeq, Sizes
  <2>4. Call("IHAVE", found, 1, Len(found), {})
    BY <2>2 DEF Call
  <2>3. wire(send_packet("IHAVE", found, 1, Len(found), {})) \in Seq(Wires("IHAVE", haschunks))
    BY <1>6, <2>2, <2>4, SendSound
  <2> QED
    BY <2>1, <2>3 DEF found, pkt
<1> QED
  BY <1>7, <1>8

\* Taking the first packet off the wire.
LEMMA FirstOff ==
    ASSUME NEW X, NEW q \in Seq(X), q # <<>>
    PROVE  Head(q) \in X /\ Tail(q) \in Seq(X)
  OBVIOUS

\* A step keeps the invariant: one case per action.
LEMMA DsStep == ASSUME DsInv, [DsNext]_dsvars PROVE DsInv'
<1>1. CASE RecvAsker
  <2> DEFINE pkt == DECODE_PKT(Head(to_asker))
  <2>1. to_asker # <<>> /\ to_asker' = Tail(to_asker) /\ UNCHANGED haschunks
    BY <1>1 DEF RecvAsker, holdervars
  <2>2. /\ Head(to_asker) \in Wires("IHAVE", haschunks)
        /\ to_asker' \in Seq(Wires("IHAVE", haschunks))
    BY <2>1, FirstOff DEF DsInv
  <2>3. Lists(filled(hasqueue, hashes_of(pkt)), haschunks)
    BY <2>2, OfferListed
  <2> HIDE DEF pkt
  <2>4. CASE UNCHANGED <<askervars, to_holder, fails>>
    BY <2>1, <2>2, <2>4 DEF DsInv, askervars
  <2>5. CASE RecvIhave(pkt)
    <3>1. CASE UNCHANGED <<hasqueue, getchunks, to_holder>>
      BY <2>1, <2>2, <3>1 DEF DsInv
    <3>2. CASE try_send_get(filled(hasqueue, hashes_of(pkt)))
      BY <2>1, <2>2, <2>3, <3>2, GetKeeps DEF DsInv
    <3>3. CASE hasqueue' = empty_list(hasqueue) /\ UNCHANGED <<getchunks, to_holder>>
      BY <2>1, <2>2, <3>3, EmptyLists DEF DsInv
    <3> QED
      BY <2>5, <3>1, <3>2, <3>3 DEF RecvIhave
  <2> QED
    BY <1>1, <2>4, <2>5 DEF RecvAsker, pkt
<1>2. CASE NextFromQueue
  <2>1. Lists(hasqueue', haschunks) /\ getchunks' \in Seq(Chunks) /\ to_holder' \in Seq(Requests)
    BY <1>2, GetKeeps DEF NextFromQueue, DsInv
  <2>2. UNCHANGED <<haschunks, to_asker>>
    BY <1>2 DEF NextFromQueue, holdervars
  <2> QED
    BY <2>1, <2>2 DEF DsInv
<1>3. CASE AskAgain
  <2>1. /\ to_holder' = to_holder \o wire(whohas_packets)
        /\ UNCHANGED <<getchunks, hasqueue, haschunks, to_asker>>
    BY <1>3 DEF AskAgain, holdervars
  <2>2. Texts \in Seq(Asked) /\ Len(Texts) = Len(getchunks) /\ Len(getchunks) \in Nat
    BY TextsTyped DEF DsInv
  <2> DEFINE skip == Slots \ Unfetched
             L == Len(getchunks)
  <2>6. Call("WHOHAS", Texts, 1, L, skip) /\ 1 \in Nat
    BY <2>2 DEF Call
  <2>7. whohas_packets = send_packet("WHOHAS", Texts, 1, L, skip)
    BY DEF whohas_packets
  <2> HIDE DEF skip
  <2>3. wire(whohas_packets) \in Seq(Wires("WHOHAS", Asked))
    BY <2>2, <2>6, <2>7, SendSound
  <2>4. wire(whohas_packets) \in Seq(Requests)
    BY <2>3 DEF Requests
  <2>5. to_holder' \in Seq(Requests)
    BY <2>1, <2>4, ConcatProperties DEF DsInv
  <2> QED
    BY <2>1, <2>5 DEF DsInv
<1>4. CASE WhohasAges
  BY <1>4 DEF WhohasAges, DsInv, holdervars
<1>5. CASE DownloadCompletes
  <2>1. /\ getchunks' = [getchunks EXCEPT ![get_index].state = "fetched"]
        /\ UNCHANGED <<hasqueue, haschunks, to_holder, to_asker>>
    BY <1>5 DEF DownloadCompletes
  <2>2. getchunks' \in Seq(Chunks)
    BY <2>1, MarkChunk DEF DsInv, States
  <2> QED
    BY <2>1, <2>2 DEF DsInv
<1>6. ASSUME NEW dies \in BOOLEAN, DownloadFails(dies) PROVE DsInv'
  <2>1. /\ getchunks' = [getchunks EXCEPT ![get_index].state = "unfetched"]
        /\ UNCHANGED <<hasqueue, haschunks, to_holder, to_asker>>
    BY <1>6 DEF DownloadFails, holdervars
  <2>2. getchunks' \in Seq(Chunks)
    BY <2>1, MarkChunk DEF DsInv, States
  <2> QED
    BY <2>1, <2>2 DEF DsInv
<1>7. CASE RecvHolder
  <2> DEFINE pkt == DECODE_PKT(Head(to_holder))
  <2>1. /\ to_holder # <<>> /\ to_holder' = Tail(to_holder)
        /\ UNCHANGED <<getchunks, hasqueue>>
    BY <1>7 DEF RecvHolder, askervars
  <2>2. Head(to_holder) \in Requests /\ to_holder' \in Seq(Requests)
    BY <2>1, FirstOff DEF DsInv
  <2>3. CASE UNCHANGED <<haschunks, to_asker>>
    BY <2>1, <2>2, <2>3 DEF DsInv
  <2>4. CASE pkt.type = "WHOHAS" /\ RecvWhohas(pkt)
    <3>1. wire(ihave_packets(found_in(pkt))) \in Seq(Wires("IHAVE", haschunks))
      BY <2>2, <2>4, AnswerFits
    <3> HIDE DEF pkt
    <3>2. /\ UNCHANGED haschunks
          /\ UNCHANGED to_asker \/ to_asker' = to_asker \o wire(ihave_packets(found_in(pkt)))
      BY <2>4 DEF RecvWhohas
    <3>3. to_asker' \in Seq(Wires("IHAVE", haschunks))
      BY <3>1, <3>2, ConcatProperties DEF DsInv
    <3> QED
      BY <2>1, <2>2, <3>2, <3>3 DEF DsInv
  <2> QED
    BY <1>7, <2>3, <2>4 DEF RecvHolder, RecvGet, holdervars
<1>8. CASE UploadFails
  BY <1>8 DEF UploadFails, DsInv, askervars
<1>9. CASE Lose
  <2>1. UNCHANGED <<getchunks, hasqueue, haschunks>>
    BY <1>9 DEF Lose, askervars, holdervars
  <2>2. CASE to_holder # <<>> /\ to_holder' = Tail(to_holder) /\ UNCHANGED to_asker
    <3>1. to_holder' \in Seq(Requests)
      BY <2>2, FirstOff DEF DsInv
    <3> QED
      BY <2>1, <2>2, <3>1 DEF DsInv
  <2>3. CASE to_asker # <<>> /\ to_asker' = Tail(to_asker) /\ UNCHANGED to_holder
    <3>1. to_asker' \in Seq(Wires("IHAVE", haschunks))
      BY <2>3, FirstOff DEF DsInv
    <3> QED
      BY <2>1, <2>3, <3>1 DEF DsInv
  <2> QED
    BY <1>9, <2>2, <2>3 DEF Lose
<1>10. CASE UNCHANGED dsvars
  BY <1>10 DEF dsvars, askervars, holdervars, DsInv
<1> QED
  BY <1>1, <1>2, <1>3, <1>4, <1>5, <1>6, <1>7, <1>8, <1>9, <1>10 DEF DsNext

\* The invariant holds in every state, for every size of packets and hashes,
\* every chunk file and every set of chunks held.
THEOREM DiscoveryInvariant == DsSpec => []DsInv
<1>1. DsInit => DsInv
  <2> SUFFICES ASSUME DsInit PROVE DsInv
    OBVIOUS
  <2>1. getchunks \in Seq(Chunks)
    <3>1. PICK f \in Files : getchunks = [i \in 1..Len(f) |->
                                 [sha1 |-> Text(f[i], UPPER), state |-> "unfetched"]]
      BY DEF DsInit
    <3>2. Len(f) \in Nat
      BY DiscoveryAssumption
    <3>3. \A i \in 1..Len(f) : Text(f[i], UPPER) \in Asked
      BY DEF Asked
    <3>4. getchunks \in [1..Len(f) -> Chunks]
      BY <3>1, <3>3 DEF Chunks, States
    <3> QED
      BY <3>2, <3>4
  <2>2. \A t \in haschunks : t = Text(t.hash, FALSE)
    <3>1. PICK h \in Holdings : haschunks = {Text(x, FALSE) : x \in h}
      BY DEF DsInit
    <3> QED
      BY <3>1 DEF Text
  <2>3. Lists(hasqueue, haschunks)
    BY InitLists DEF DsInit
  <2>4. to_holder = <<>> /\ to_asker = <<>>
    BY DEF DsInit
  <2>5. to_holder \in Seq(Requests) /\ to_asker \in Seq(Wires("IHAVE", haschunks))
    BY <2>4
  <2> QED
    BY <2>1, <2>2, <2>3, <2>5 DEF DsInv
<1>2. DsInv /\ [DsNext]_dsvars => DsInv'
  BY DsStep
<1> QED
  BY <1>1, <1>2, PTL DEF DsSpec

\* QueueWellFormed: through every IHAVE, every failing allocation and every
\* removal from the middle, the pointers of linkedlist.c form one ring of
\* count nodes.
THEOREM DiscoveryQueue == DsSpec => []QueueWellFormed
<1>1. DsInv => QueueWellFormed
  BY RingWellFormed DEF DsInv, Lists, QueueWellFormed
<1> QED
  BY <1>1, DiscoveryInvariant, PTL

\* OffersAreReal: every hash in the queue of the asker is one of the holder's
\* chunks, after two codecs and a linked list.
THEOREM DiscoveryOffers == DsSpec => []OffersAreReal
<1>1. DsInv => OffersAreReal
  <2> SUFFICES ASSUME DsInv PROVE OffersAreReal
    OBVIOUS
  <2> DEFINE ll == hasqueue
  <2>1. PICK r : Ring(ll, r) /\ \A j \in 1..ll.count : ll.item[r[j]] \in haschunks
    BY DEF DsInv, Lists
  <2>2. iteration(ll) = [j \in 1..ll.count |-> r[j]]
    BY <2>1, RingIteration
  <2>3. ll.count \in Nat
    BY <2>1, LinkedListAssumption DEF Ring
  <2>4. Len(iteration(ll)) = ll.count
    BY <2>2, <2>3
  <2>5. items(ll) = [k \in 1..ll.count |-> ll.item[r[k]]]
    BY <2>2, <2>4 DEF items
  <2> QED
    BY <2>1, <2>5 DEF OffersAreReal
<1> QED
  BY <1>1, DiscoveryInvariant, PTL

\* What is in two sequences in a row is in one of them.
LEMMA BothRange ==
    ASSUME NEW X, NEW Y, NEW q \in Seq(X), NEW d \in Seq(Y), NEW w \in Range(q \o d)
    PROVE  w \in X \cup Y
<1>1. q \in Seq(X \cup Y) /\ d \in Seq(X \cup Y)
  BY SeqMonotonic
<1>2. q \o d \in Seq(X \cup Y)
  BY <1>1, ConcatProperties
<1> DEFINE both == q \o d
<1> HIDE DEF both
<1>3. both \in Seq(X \cup Y)
  BY <1>2 DEF both
<1>4. \A i \in DOMAIN both : both[i] \in X \cup Y
  BY <1>3, ElementOfSeq, LenProperties
<1> QED
  BY <1>4 DEF Range, both

\* ValidOnTheWire: valid_packet accepts every WHOHAS, GET and IHAVE on its
\* way that names a hash, which every GET and IHAVE does, and refuses a WHOHAS
\* that names none.
THEOREM DiscoveryValid == DsSpec => []ValidOnTheWire
<1> DEFINE Judged(w) == LET pkt == DECODE_PKT(w) IN
                        valid_packet(pkt) <=> (pkt.type = "WHOHAS" => GET_CHUNK_CNT(pkt) > 0)
<1>1. ASSUME NEW X, NEW w \in Wires("WHOHAS", X) PROVE Judged(w)
  <2>1. PICK texts : Fits("WHOHAS", texts) /\ DECODE_PKT(w) = arrived("WHOHAS", texts)
    BY <1>1, OffWire
  <2> DEFINE pkt == DECODE_PKT(w)
  <2>2. GET_CHUNK_CNT(pkt) = Len(texts) /\ (valid_packet(pkt) <=> Len(texts) > 0)
    BY <2>1, CountArrives, ValidArrives
  <2>3. pkt.type = "WHOHAS"
    BY <2>1, TypeArrives
  <2> QED
    BY <2>2, <2>3
<1>2. ASSUME NEW X, NEW type \in {"GET", "IHAVE"}, NEW w \in Wires(type, X) PROVE Judged(w)
  <2>1. PICK texts : Fits(type, texts) /\ DECODE_PKT(w) = arrived(type, texts)
    BY <1>2, OffWire
  <2> DEFINE pkt == DECODE_PKT(w)
  <2>2. valid_packet(pkt)
    BY <1>2, <2>1, ValidArrives DEF Fits
  <2>3. pkt.type = type
    BY <2>1, TypeArrives
  <2> QED
    BY <1>2, <2>2, <2>3
<1>3. DsInv => ValidOnTheWire
  <2> HIDE DEF Judged
  <2> SUFFICES ASSUME DsInv, NEW w \in Range(to_holder \o to_asker) PROVE Judged(w)
    BY DEF ValidOnTheWire, Judged
  <2>1. to_holder \in Seq(Requests) /\ to_asker \in Seq(Wires("IHAVE", haschunks))
    BY DEF DsInv
  <2>2. w \in Requests \cup Wires("IHAVE", haschunks)
    BY <2>1, BothRange
  <2>3. w \in Wires("WHOHAS", Asked) \/ w \in Wires("GET", Asked) \/ w \in Wires("IHAVE", haschunks)
    BY <2>2 DEF Requests
  <2> QED
    BY <2>3, <1>1, <1>2
<1> QED
  BY <1>3, DiscoveryInvariant, PTL

(***************************************************************************)
(* A round of WHOHAS                                                       *)
(***************************************************************************)
\* the first m slots
upto(m) == [j \in 1..m |-> j]

\* the hashes of a sequence of slots, as binary2hex writes them
low(s) == [n \in 1..Len(s) |-> Text(Texts[s[n]].hash, FALSE)]

\* The hashes of two sequences in a row are those of each.
LEMMA LowConcat ==
    ASSUME NEW X, NEW u \in Seq(X), NEW v \in Seq(X)
    PROVE  low(u \o v) = low(u) \o low(v)
<1> DEFINE name(x) == Text(Texts[x].hash, FALSE)
           N == {name(x) : x \in X}
           w == u \o v
           l == Len(u) + Len(v)
<1>1. /\ Len(u) \in Nat /\ Len(v) \in Nat /\ Len(w) = l
      /\ \A n \in 1..Len(u) : u[n] \in X /\ w[n] = u[n]
      /\ \A n \in 1..Len(v) : v[n] \in X /\ w[Len(u) + n] = v[n]
  OBVIOUS
<1>2. /\ low(u) = [n \in 1..Len(u) |-> name(u[n])]
      /\ low(v) = [n \in 1..Len(v) |-> name(v[n])]
      /\ low(w) = [n \in 1..l |-> name(w[n])]
  BY <1>1 DEF low
<1>3. \A x \in X : name(x) \in N
  OBVIOUS
<1> HIDE DEF name, N, w
<1>4. low(u) \in Seq(N) /\ Len(low(u)) = Len(u) /\ low(v) \in Seq(N) /\ Len(low(v)) = Len(v)
  <2>1. low(u) \in [1..Len(u) -> N] /\ low(v) \in [1..Len(v) -> N]
    BY <1>1, <1>2, <1>3
  <2>2. \A m \in Nat : \A z \in [1..m -> N] : z \in Seq(N) /\ Len(z) = m
    OBVIOUS
  <2> QED
    BY <2>1, <2>2, <1>1, Zenon
<1>5. ASSUME NEW n \in 1..l PROVE (low(u) \o low(v))[n] = name(w[n])
  <2>1. CASE n <= Len(u)
    <3>1. (low(u) \o low(v))[n] = low(u)[n] /\ n \in 1..Len(u)
      BY <2>1, <1>1, <1>4
    <3> QED
      BY <3>1, <1>1, <1>2
  <2>2. CASE n > Len(u)
    <3>1. (low(u) \o low(v))[n] = low(v)[n - Len(u)] /\ n - Len(u) \in 1..Len(v)
      BY <2>2, <1>1, <1>4
    <3>2. w[Len(u) + (n - Len(u))] = v[n - Len(u)] /\ Len(u) + (n - Len(u)) = n
      BY <3>1, <1>1
    <3> QED
      BY <3>1, <3>2, <1>2
  <2>3. n <= Len(u) \/ n > Len(u)
    BY <1>1
  <2> QED
    BY <2>1, <2>2, <2>3, Zenon
<1>6. low(u) \o low(v) \in Seq(N) /\ Len(low(u) \o low(v)) = l
  BY <1>4, SMTT(30)
<1>7. low(u) \o low(v) = [n \in 1..l |-> name(w[n])]
  <2> DEFINE z == low(u) \o low(v)
  <2>1. z \in Seq(N) /\ Len(z) = l /\ \A n \in 1..l : z[n] = name(w[n])
    BY <1>5, <1>6
  <2> HIDE DEF z
  <2>2. z = [n \in 1..l |-> z[n]]
    BY <2>1
  <2>3. [n \in 1..l |-> z[n]] = [n \in 1..l |-> name(w[n])]
    BY <2>1
  <2> QED
    BY <2>2, <2>3 DEF z
<1> QED
  BY <1>2, <1>7 DEF w

\* The slots of the first i packets are those of the first i - 1 and those
\* of packet i: no slot is left out between two packets.
LEMMA SlotsJoin ==
    ASSUME NEW L \in Nat, NEW i \in Nat \ {0}
    PROVE  LET H == HASH_NUM_PKT IN
           /\ least(L, H * i) \in Nat /\ least(L, H * (i - 1)) \in Nat
           /\ packet_slots(1, L, i) \in Seq(Nat)
           /\ upto(least(L, H * i)) = upto(least(L, H * (i - 1))) \o packet_slots(1, L, i)
<1> DEFINE H == HASH_NUM_PKT
           first == H * (i - 1)
           a == least(L, first)
           b == least(L, H * i)
           d == IF first <= b THEN b - first ELSE 0
           slots == packet_slots(1, L, i)
<1>1. H \in Nat \ {0}
  BY Sizes
<1> HIDE DEF H
<1>2. first \in Nat /\ H * i = first + H /\ H * i \in Nat
  <2>1. (i - 1) * H \in Nat /\ (i - 1) * H = H * (i - 1)
    BY <1>1, ProductNat
  <2>2. H * i = H * (i - 1) + H
    BY <1>1
  <2> QED
    BY <2>1, <2>2, <1>1
<1>3. b = IF L <= H * i THEN L ELSE H * i
  BY <1>2, LeastIs
<1>4. a = IF L <= first THEN L ELSE first
  BY <1>2, LeastIs
<1>5. slots = [n \in 1..(b - first) |-> 1 + first + n - 1]
  BY DEF packet_slots, H
<1> HIDE DEF first, a, b, slots
<1>6. d \in Nat /\ 1..(b - first) = 1..d /\ a \in Nat /\ b \in Nat /\ a + d = b /\ (d # 0 => a = first)
  BY <1>1, <1>2, <1>3, <1>4
<1> HIDE DEF d
<1>7. slots \in [1..d -> Nat] /\ \A n \in 1..d : slots[n] = a + n
  BY <1>2, <1>5, <1>6, SMTT(30)
<1>8. slots \in Seq(Nat) /\ Len(slots) = d
  BY <1>6, <1>7
<1>9. upto(a) \in Seq(Nat) /\ Len(upto(a)) = a /\ \A n \in 1..a : upto(a)[n] = n
  <2>1. upto(a) \in [1..a -> Nat] /\ \A n \in 1..a : upto(a)[n] = n
    BY <1>6 DEF upto
  <2> QED
    BY <2>1, <1>6
<1>10. upto(a) \o slots = upto(b)
  <2> DEFINE z == upto(a) \o slots
  <2>1. z \in Seq(Nat) /\ Len(z) = b
    BY <1>6, <1>8, <1>9
  <2>2. ASSUME NEW n \in 1..b PROVE z[n] = n
    <3>1. CASE n <= a
      BY <3>1, <1>6, <1>8, <1>9
    <3>2. CASE n > a
      <4>1. n - a \in 1..d
        BY <3>2, <1>6
      <4>2. z[n] = slots[n - a]
        <5>1. n \in 1..(Len(upto(a)) + Len(slots)) /\ ~(n <= Len(upto(a)))
          BY <3>2, <1>6, <1>8, <1>9
        <5> QED
          BY <5>1, <1>8, <1>9, ConcatProperties
      <4> QED
        BY <4>1, <4>2, <1>6, <1>7
    <3>3. n <= a \/ n > a
      BY <1>6
    <3> QED
      BY <3>1, <3>2, <3>3, Zenon
  <2> HIDE DEF z
  <2>3. z = [n \in 1..b |-> z[n]]
    BY <2>1
  <2>4. z = [n \in 1..b |-> n]
    BY <2>2, <2>3
  <2> QED
    BY <2>4 DEF upto, z
<1> QED
  BY <1>6, <1>8, <1>10 DEF H, a, b, first, slots

\* Enough packets are made for every chunk of the list: with the sizes of the
\* program up to 370 chunks, see DiscoveryProgram.
EnoughPackets(L) == L <= HASH_NUM_PKT * pkt_num(L)

\* What the holder reads from the i-th packet of a round.
LEMMA PacketReads ==
    ASSUME DsInv, NEW i \in 1..pkt_num(Len(getchunks))
    PROVE  /\ Len(wire(whohas_packets)) = pkt_num(Len(getchunks))
           /\ hashes_of(DECODE_PKT(wire(whohas_packets)[i])) =
                 low(kept(packet_slots(1, Len(getchunks), i), Unfetched))
           /\ whohas_packets[i].pkt_len <= PACKET_SIZE
<1> DEFINE L == Len(getchunks)
           num == pkt_num(L)
           skip == Slots \ Unfetched
           slots == kept(packet_slots(1, L, i), Unfetched)
           texts == [n \in 1..Len(slots) |-> Texts[slots[n]]]
<1>1. Texts \in Seq(Asked) /\ Len(Texts) = L /\ L \in Nat
  BY TextsTyped DEF DsInv
<1>2. num \in Nat
  BY <1>1, PacketNumber
<1>3. DOMAIN Texts \ skip = Unfetched
  <2>1. DOMAIN Texts = Slots
    BY DEF Texts
  <2>2. Unfetched \subseteq Slots
    BY DEF Unfetched
  <2> QED
    BY <2>1, <2>2
<1>4. slots = slots_of(Texts, 1, L, skip, i) /\ texts = texts_of(Texts, 1, L, skip, i)
  BY <1>3 DEF slots_of, texts_of
<1>5. texts \in Seq(Asked) /\ Fits("WHOHAS", texts)
  <2>1. Call("WHOHAS", Texts, 1, L, skip) /\ 1 \in Nat
    BY <1>1 DEF Call
  <2> HIDE DEF texts, skip, L
  <2> QED
    BY <1>1, <1>4, <2>1, PacketFits, Zenon DEF L
<1>6. /\ Len(whohas_packets) = num
      /\ whohas_packets[i] = hash_packet("WHOHAS", texts)
  <2>1. whohas_packets = [j \in 1..num |-> hash_packet("WHOHAS", texts_of(Texts, 1, L, skip, j))]
    BY DEF whohas_packets, send_packet, texts_of, slots_of
  <2> HIDE DEF num, texts
  <2>2. Len(whohas_packets) = num
    BY <2>1, <1>2
  <2> QED
    BY <2>1, <2>2, <1>4 DEF num
<1>7. /\ Len(wire(whohas_packets)) = num
      /\ DECODE_PKT(wire(whohas_packets)[i]) = arrived("WHOHAS", texts)
  <2>1. wire(whohas_packets) = [j \in 1..num |-> ENCODE_PKT(whohas_packets[j])]
    BY <1>6 DEF wire
  <2> HIDE DEF num, texts
  <2>2. Len(wire(whohas_packets)) = num
    BY <2>1, <1>2
  <2> QED
    BY <2>1, <2>2, <1>6, Zenon DEF arrived, num
<1>8. slots \in Seq(Nat)
  <2>1. packet_slots(1, L, i) \in Seq(Nat)
    BY <1>1, <1>2, SlotsJoin
  <2>2. slots \in Seq(Nat \cap Unfetched)
    BY <2>1, KeptSound
  <2> QED
    BY <2>2
<1> HIDE DEF slots
<1>9. Len(slots) \in Nat /\ Len(texts) = Len(slots)
  <2>1. Len(slots) \in Nat
    BY <1>8
  <2>2. DOMAIN texts = 1..Len(slots)
    OBVIOUS
  <2> HIDE DEF texts
  <2> QED
    BY <2>1, <2>2, <1>5
<1>10. hashes_of(arrived("WHOHAS", texts)) = low(slots)
  <2> DEFINE pkt == arrived("WHOHAS", texts)
  <2>1. GET_CHUNK_CNT(pkt) = Len(slots)
    BY <1>5, <1>9, CountArrives
  <2>2. \A n \in 0..(Len(slots) - 1) : GET_HASH(pkt, n) = Text(texts[n + 1].hash, FALSE)
    <3> HIDE DEF texts, pkt
    <3> QED
      BY <1>5, <1>9, HashArrives DEF pkt
  <2> HIDE DEF pkt
  <2>3. ASSUME NEW n \in 1..Len(slots)
        PROVE  GET_HASH(pkt, n - 1) = Text(Texts[slots[n]].hash, FALSE)
    <3>1. n - 1 \in 0..(Len(slots) - 1) /\ n - 1 + 1 = n
      BY <1>9
    <3>2. texts[n] = Texts[slots[n]]
      OBVIOUS
    <3> HIDE DEF texts
    <3> QED
      BY <2>2, <3>1, <3>2
  <2>4. hashes_of(pkt) = [n \in 1..Len(slots) |-> GET_HASH(pkt, n - 1)]
    BY <2>1 DEF hashes_of
  <2>5. hashes_of(pkt) = [n \in 1..Len(slots) |-> Text(Texts[slots[n]].hash, FALSE)]
    BY <2>3, <2>4
  <2> QED
    BY <2>5 DEF low, pkt
<1>11. whohas_packets[i].pkt_len <= PACKET_SIZE
  <2>1. whohas_packets[i].pkt_len = HEADER_SIZE + CNT_SIZE + SHA1_HASH_SIZE * Len(texts)
    BY <1>6 DEF hash_packet, count_size
  <2>2. Len(texts) \in 0..HASH_NUM_PKT
    BY <1>5 DEF Fits
  <2> HIDE DEF texts
  <2>3. /\ Len(texts) * SHA1_HASH_SIZE \in Nat
        /\ CNT_SIZE + Len(texts) * SHA1_HASH_SIZE <= MAX_PAYLOAD_SIZE
        /\ Len(texts) * SHA1_HASH_SIZE = SHA1_HASH_SIZE * Len(texts)
    BY <2>2, Sizes, CodecAssumption
  <2> QED
    BY <2>1, <2>3, CodecAssumption DEF MAX_PAYLOAD_SIZE
<1> QED
  BY <1>7, <1>10, <1>11 DEF slots

\* The packets of a round are read as the whole list of unfetched chunks.
LEMMA RoundReads ==
    ASSUME DsInv, Len(getchunks) # 0, EnoughPackets(Len(getchunks))
    PROVE  WhohasNamesAll
<1> DEFINE L == Len(getchunks)
           num == pkt_num(L)
           H == HASH_NUM_PKT
           w == wire(whohas_packets)
           seqs == [i \in 1..Len(w) |-> hashes_of(DECODE_PKT(w[i]))]
           slots(i) == packet_slots(1, L, i)
           sofar(i) == low(kept(upto(least(L, H * i)), Unfetched))
           g == [i \in 1..num |-> sofar(i)]
<1>1. L \in Nat \ {0} /\ num \in Nat /\ H \in Nat \ {0} /\ L <= H * num
  <2>1. L \in Nat
    BY TextsTyped DEF DsInv
  <2> QED
    BY <2>1, PacketNumber, Sizes DEF EnoughPackets
<1>2. num # 0
  <2>1. num = 0 => H * num = 0
    BY <1>1
  <2> QED
    BY <1>1, <2>1
<1>3. ASSUME NEW i \in 1..num
      PROVE  /\ Len(w) = num /\ hashes_of(DECODE_PKT(w[i])) = low(kept(slots(i), Unfetched))
             /\ whohas_packets[i].pkt_len <= PACKET_SIZE
  BY PacketReads
<1>4. Len(w) = num
  BY <1>1, <1>2, <1>3
<1>5. Len(seqs) = num /\ \A i \in 1..num : seqs[i] = low(kept(slots(i), Unfetched))
  <2>1. seqs = [i \in 1..num |-> hashes_of(DECODE_PKT(w[i]))]
    BY <1>4
  <2> HIDE DEF seqs, num, w, slots
  <2>2. Len(seqs) = num
    BY <2>1, <1>1
  <2> QED
    BY <2>1, <2>2, <1>3
<1>6. ASSUME NEW i \in Nat \ {0}
      PROVE  sofar(i) = sofar(i - 1) \o low(kept(slots(i), Unfetched))
  <2> DEFINE a == upto(least(L, H * (i - 1)))
             b == upto(least(L, H * i))
  <2>1. slots(i) \in Seq(Nat) /\ b = a \o slots(i) /\ least(L, H * (i - 1)) \in Nat
    BY <1>1, SlotsJoin
  <2>2. a \in Seq(Nat)
    <3>1. \A m \in Nat : upto(m) \in [1..m -> Nat]
      BY DEF upto
    <3>2. \A m \in Nat : upto(m) \in Seq(Nat)
      BY <3>1
    <3> QED
      BY <3>2, <2>1
  <2> HIDE DEF a, b, slots
  <2>3. kept(b, Unfetched) = kept(a, Unfetched) \o kept(slots(i), Unfetched)
    BY <2>1, <2>2, KeptConcat
  <2>4. kept(a, Unfetched) \in Seq(Nat) /\ kept(slots(i), Unfetched) \in Seq(Nat)
    <3>1. kept(a, Unfetched) \in Seq(Nat \cap Unfetched)
      BY <2>2, KeptSound
    <3>2. kept(slots(i), Unfetched) \in Seq(Nat \cap Unfetched)
      BY <2>1, KeptSound
    <3> QED
      BY <3>1, <3>2
  <2>5. low(kept(b, Unfetched)) = low(kept(a, Unfetched)) \o low(kept(slots(i), Unfetched))
    BY <2>3, <2>4, LowConcat
  <2> QED
    BY <2>5 DEF a, b
<1>61. slots(1) \in Seq(Nat)
  BY <1>1, SlotsJoin
<1>7. sofar(0) = <<>>
  <2>1. least(L, H * 0) = 0
    <3>1. H * 0 = 0
      BY <1>1
    <3> QED
      BY <3>1, <1>1, LeastIs
  <2>2. upto(0) = <<>>
    BY DEF upto
  <2>3. kept(<<>>, Unfetched) = <<>>
    <3>1. <<>> \in Seq({})
      OBVIOUS
    <3>2. kept(<<>>, Unfetched) \in Seq({} \cap Unfetched)
      BY <3>1, KeptSound
    <3> QED
      BY <3>2
  <2>4. low(<<>>) = <<>>
    BY DEF low
  <2> QED
    BY <2>1, <2>2, <2>3, <2>4
<1> HIDE DEF sofar, slots, L, num, H
<1>8. \A i \in 1..num : g[i] = IF i = 1 THEN seqs[i] ELSE g[i - 1] \o seqs[i]
  <2> SUFFICES ASSUME NEW i \in 1..num
               PROVE  g[i] = IF i = 1 THEN seqs[i] ELSE g[i - 1] \o seqs[i]
    OBVIOUS
  <2>1. i \in Nat \ {0} /\ g[i] = sofar(i) /\ seqs[i] = low(kept(slots(i), Unfetched))
    <3>1. i \in Nat \ {0}
      BY <1>1
    <3>2. g[i] = sofar(i)
      BY Zenon
    <3> HIDE DEF seqs
    <3> QED
      BY <3>1, <3>2, <1>5, Zenon
  <2>2. CASE i = 1
    <3>1. sofar(1) = <<>> \o seqs[1]
      <4>1. sofar(1) = sofar(1 - 1) \o low(kept(slots(1), Unfetched))
        BY <1>6
      <4>2. 1 - 1 = 0
        OBVIOUS
      <4> QED
        BY <4>1, <4>2, <2>1, <2>2, <1>7, Zenon
    <3>2. seqs[1] \in Seq({Text(Texts[x].hash, FALSE) : x \in Nat})
      <4> DEFINE s == kept(slots(1), Unfetched)
                 N == {Text(Texts[x].hash, FALSE) : x \in Nat}
      <4>1. slots(1) \in Seq(Nat)
        BY <1>61
      <4>2. s \in Seq(Nat \cap Unfetched)
        BY <4>1, KeptSound
      <4> HIDE DEF s
      <4>3. Len(s) \in Nat /\ \A n \in 1..Len(s) : s[n] \in Nat
        BY <4>2
      <4>4. low(s) \in [1..Len(s) -> N]
        BY <4>3 DEF low
      <4> HIDE DEF N
      <4>5. low(s) \in Seq(N)
        BY <4>3, <4>4
      <4> QED
        BY <4>5, <2>1, <2>2, Zenon DEF s, N
    <3>3. <<>> \o seqs[1] = seqs[1]
      <4> HIDE DEF seqs
      <4> QED
        BY <3>2
    <3> QED
      BY <3>1, <3>3, <2>1, <2>2
  <2>3. CASE i # 1
    <3>1. i - 1 \in 1..num
      BY <1>1, <2>3
    <3>2. g[i - 1] = sofar(i - 1)
      BY <3>1
    <3> QED
      BY <2>1, <2>3, <3>2, <1>6
  <2> QED
    BY <2>2, <2>3
<1>9. FlattenSeq(seqs) = g[num]
  <2>1. g = [i \in 1..num |-> g[i]]
    OBVIOUS
  <2> HIDE DEF g, seqs
  <2>2. num \in Nat \ {0}
    BY <1>1, <1>2
  <2>3. Len(seqs) = num
    BY <1>5
  <2> QED
    BY <2>1, <2>2, <2>3, <1>8, FlattenIs, Zenon
<1>10. g[num] = low(kept([i \in Slots |-> i], Unfetched))
  <2>1. num \in 1..num
    BY <1>1, <1>2
  <2>2. least(L, H * num) = L
    <3>1. H * num \in Nat
      BY <1>1
    <3> QED
      BY <3>1, <1>1, LeastIs
  <2>3. upto(L) = [i \in Slots |-> i]
    BY DEF upto, L, Slots
  <2> QED
    BY <2>1, <2>2, <2>3 DEF sofar
<1>11. DOMAIN whohas_packets = 1..num
  BY DEF whohas_packets, send_packet, num, L
<1>12. read_from(w) = low(kept([i \in Slots |-> i], Unfetched))
  BY <1>9, <1>10, Zenon DEF read_from
<1>13. \A i \in DOMAIN whohas_packets : whohas_packets[i].pkt_len <= PACKET_SIZE
  BY <1>3, <1>11
<1> HIDE DEF w
<1> QED
  BY <1>12, <1>13 DEF WhohasNamesAll, low, w

\* No step changes the number of chunks of the list.
LEMMA LengthStep ==
    ASSUME DsInv, [DsNext]_dsvars
    PROVE  Len(getchunks') = Len(getchunks)
<1>1. ASSUME NEW i, NEW st, getchunks' = [getchunks EXCEPT ![i].state = st]
      PROVE  Len(getchunks') = Len(getchunks)
  <2>1. Len(getchunks) \in Nat /\ DOMAIN getchunks = 1..Len(getchunks)
    BY DEF DsInv
  <2>2. DOMAIN getchunks' = 1..Len(getchunks)
    BY <1>1, <2>1
  <2>3. getchunks' = [n \in 1..Len(getchunks) |-> getchunks'[n]]
    BY <1>1, <2>1
  <2> QED
    BY <2>1, <2>3
<1>2. ASSUME NEW ll, try_send_get(ll) PROVE Len(getchunks') = Len(getchunks)
  BY <1>1, <1>2 DEF try_send_get, StartDownload
<1>3. CASE RecvAsker
  <2>1. CASE UNCHANGED getchunks
    BY <2>1
  <2>2. CASE \E ll : try_send_get(ll)
    BY <1>2, <2>2
  <2> QED
    BY <1>3, <2>1, <2>2 DEF RecvAsker, RecvIhave, askervars
<1>4. CASE NextFromQueue
  BY <1>2, <1>4 DEF NextFromQueue
<1>5. CASE DownloadCompletes
  BY <1>1, <1>5 DEF DownloadCompletes
<1>6. CASE \E peer_dies \in BOOLEAN : DownloadFails(peer_dies)
  BY <1>1, <1>6 DEF DownloadFails
<1>7. CASE AskAgain \/ WhohasAges \/ RecvHolder \/ UploadFails \/ Lose \/ UNCHANGED dsvars
  <2>1. UNCHANGED getchunks
    BY <1>7 DEF AskAgain, WhohasAges, RecvHolder, UploadFails, Lose, dsvars, askervars
  <2> QED
    BY <2>1
<1> QED
  BY <1>3, <1>4, <1>5, <1>6, <1>7 DEF DsNext

\* WhohasNamesAll: whatever is fetched, fetching or failed by then, the next
\* round of WHOHAS asks for every unfetched chunk, for every chunk file for
\* which the number of packets that packet.c:83 computes is enough.
THEOREM DiscoveryNamesAll ==
    ASSUME \A f \in Files : EnoughPackets(Len(f))
    PROVE  DsSpec => []WhohasNamesAll
<1> DEFINE Sized == \E f \in Files : Len(getchunks) = Len(f)
<1>1. DsInit => Sized
  <2> SUFFICES ASSUME DsInit PROVE Sized
    OBVIOUS
  <2>1. PICK f \in Files : getchunks = [i \in 1..Len(f) |->
                               [sha1 |-> Text(f[i], UPPER), state |-> "unfetched"]]
    BY DEF DsInit
  <2>2. Len(f) \in Nat
    BY DiscoveryAssumption
  <2> QED
    BY <2>1, <2>2
<1>2. DsInv /\ Sized /\ [DsNext]_dsvars => Sized'
  BY LengthStep
<1>3. DsInv /\ Sized => WhohasNamesAll
  BY RoundReads, DiscoveryAssumption
<1> QED
  BY <1>1, <1>2, <1>3, DiscoveryInvariant, PTL DEF DsSpec

\* That number is enough in the program, whose packets have 1500 bytes, for
\* lists of up to 370 chunks (run "hashes" shows the next one failing).
THEOREM DiscoveryProgram ==
    ASSUME SHA1_HASH_SIZE = 20, CNT_SIZE = 4, HEADER_SIZE = 16, PACKET_SIZE = 1500,
           \A f \in Files : Len(f) <= 370
    PROVE  DsSpec => []WhohasNamesAll
<1>1. MAX_PAYLOAD_SIZE = 1484 /\ HASH_NUM_PKT = 74
  <2>1. MAX_PAYLOAD_SIZE = 1484
    BY DEF MAX_PAYLOAD_SIZE
  <2>2. (1484 - 4) \div 20 = 74
    OBVIOUS
  <2> QED
    BY <2>1, <2>2 DEF HASH_NUM_PKT
<1>2. ASSUME NEW L \in Nat, L <= 370 PROVE EnoughPackets(L)
  <2>1. L <= 74 * ((L * 20 + 1484 - 1) \div 1484)
    BY <1>2
  <2> QED
    BY <2>1, <1>1 DEF EnoughPackets, pkt_num
<1>3. \A f \in Files : EnoughPackets(Len(f))
  BY <1>2, DiscoveryAssumption
<1> QED
  BY <1>3, DiscoveryNamesAll
=============================================================================
