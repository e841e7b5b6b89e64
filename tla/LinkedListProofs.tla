--------------------------- MODULE LinkedListProofs ---------------------------
(* The links of a list spell it, for every set of nodes.                   *)
EXTENDS LinkedList, SequenceTheorems, TLAPS

(* What holds of the links between operations and inside traversals.       *)
LinksInv == TypeOK /\ LinksSpellOrder /\ CountIsLength

(* Every position of the list, the two ends included, is a place.          *)
LEMMA AtPlaces ==
    ASSUME TypeOK, NEW i \in Nat
    PROVE  /\ At(order, i) \in Places
           /\ i \in 1..Len(order) => At(order, i) = order[i] /\ order[i] \in Nodes
           /\ i \notin 1..Len(order) => At(order, i) = ListHead
<1>1. order \in Seq(Nodes) /\ DOMAIN order = 1..Len(order)
    BY DEF TypeOK
<1>. QED BY <1>1 DEF At, Places

(* A node is on the list when it has links. *)
LEMMA LinkedIsListed ==
    ASSUME LinksInv, NEW n \in Nodes
    PROVE  /\ next[n] # Null => n \in InList
           /\ next[n] = Null => n \notin InList
<1>1. next[n] # Null => n \in InList
    BY DEF LinksInv, LinksSpellOrder
<1>2. ASSUME n \in InList PROVE next[n] # Null
    <2>1. PICK i \in 1..Len(order) : order[i] = n
        BY <1>2 DEF InList, LinksInv, TypeOK
    <2>2. next[n] = At(order, i + 1)
        BY <2>1, AtPlaces DEF LinksInv, LinksSpellOrder, TypeOK
    <2>3. At(order, i + 1) \in Places
        BY <2>1, AtPlaces DEF LinksInv, TypeOK
    <2>. QED BY <2>2, <2>3, LinkedListAssumption DEF Places
<1>. QED BY <1>1, <1>2

LEMMA InitLinks == Init => LinksInv
<1>. SUFFICES ASSUME Init PROVE LinksInv
    OBVIOUS
<1>1. TypeOK
    BY DEF Init, TypeOK, Places
<1>2. LinksSpellOrder
    BY LinkedListAssumption DEF Init, LinksSpellOrder, At, InList, Places
<1>3. CountIsLength
    BY DEF Init, CountIsLength, InList
<1>. QED BY <1>1, <1>2, <1>3 DEF LinksInv

(* list_add_node puts the node between the head and the first one.         *)
LEMMA AddLinks ==
    ASSUME LinksInv, NEW n \in Nodes, Add(n)
    PROVE  LinksInv'
<1>. DEFINE L == Len(order)
<1>0. order \in Seq(Nodes) /\ L \in Nat /\ DOMAIN order = 1..L /\ ListHead \notin Nodes
    BY LinkedListAssumption DEF LinksInv, TypeOK
<1>1. n \notin InList
    BY LinkedIsListed DEF Add
<1>2. /\ order' \in Seq(Nodes) /\ Len(order') = L + 1 /\ DOMAIN order' = 1..(L + 1)
      /\ order'[1] = n
      /\ \A i \in 1..L : order'[i + 1] = order[i]
      /\ \A i \in 2..(L + 1) : order'[i] = order[i - 1]
    BY <1>0 DEF Add
<1>3. \A i \in 1..L : order[i] \in Nodes /\ order[i] # n
    BY <1>0, <1>1 DEF InList
<1>4. InList' = InList \cup {n}
    <2>1. ASSUME NEW x \in InList' PROVE x \in InList \cup {n}
        <3>1. PICK i \in 1..(L + 1) : order'[i] = x
            BY <1>2, <2>1 DEF InList
        <3>2. CASE i = 1
            BY <3>1, <3>2, <1>2
        <3>3. CASE i # 1
            BY <3>1, <3>3, <1>0, <1>2 DEF InList
        <3>. QED BY <3>2, <3>3
    <2>2. ASSUME NEW x \in InList PROVE x \in InList'
        <3>1. PICK i \in 1..L : order[i] = x
            BY <1>0, <2>2 DEF InList
        <3>2. i + 1 \in DOMAIN order' /\ order'[i + 1] = x
            BY <3>1, <1>0, <1>2
        <3>. QED BY <3>2 DEF InList
    <2>3. n \in InList'
        BY <1>0, <1>2 DEF InList
    <2>. QED BY <2>1, <2>2, <2>3
<1>5. next[ListHead] = At(order, 1) /\ At(order, 1) \in Places
    BY <1>0, AtPlaces DEF LinksInv, LinksSpellOrder, At
<1>6. TypeOK'
    <2>1. next' \in [Places -> Places \cup {Null}] /\ prev' \in [Places -> Places \cup {Null}]
        BY <1>5 DEF LinksInv, TypeOK, Add, Places
    <2>2. counted' \subseteq Places /\ count' \in Nat
        BY DEF LinksInv, TypeOK, Add, Places
    <2>. QED BY <1>2, <2>1, <2>2 DEF LinksInv, TypeOK, Add, traversal, Places
<1>7. /\ At(order', 0) = ListHead /\ At(order', 1) = n
      /\ \A i \in 2..(L + 2) : At(order', i) = At(order, i - 1)
    BY <1>0, <1>2 DEF At
<1>8. ASSUME NEW i \in 0..(L + 1)
      PROVE  /\ next'[At(order', i)] = At(order', i + 1)
             /\ prev'[At(order', i + 1)] = At(order', i)
    <2>1. CASE i = 0
        BY <2>1, <1>0, <1>5, <1>7 DEF Add, LinksInv, TypeOK, Places
    <2>2. CASE i = 1
        <3>1. At(order', 2) = At(order, 1)
            BY <1>0, <1>7
        <3>2. At(order, 1) # n
            BY <1>0, <1>3 DEF At
        <3>. QED BY <2>2, <3>1, <3>2, <1>0, <1>5, <1>7 DEF Add, LinksInv, TypeOK, Places
    <2>3. CASE i \in 2..(L + 1)
        <3>1. At(order', i) = order[i - 1] /\ At(order', i + 1) = At(order, i)
            BY <2>3, <1>0, <1>7 DEF At
        <3>2. order[i - 1] \in Nodes /\ order[i - 1] # n /\ order[i - 1] # ListHead
            BY <2>3, <1>0, <1>3
        <3>3. next[order[i - 1]] = At(order, i) /\ prev[At(order, i)] = order[i - 1]
            <4>1. i - 1 \in 0..L /\ (i - 1) + 1 = i /\ At(order, i - 1) = order[i - 1]
                BY <2>3, <1>0 DEF At
            <4>. QED BY <4>1 DEF LinksInv, LinksSpellOrder
        <3>4. At(order, i) \in Places /\ At(order, i) # n /\ At(order, i) # At(order, 1)
            <4>1. CASE i = L + 1
                BY <4>1, <1>0, <1>3, <2>3 DEF At, Places
            <4>2. CASE i \in 2..L
                BY <4>2, <1>0, <1>3 DEF At, Places, LinksInv, LinksSpellOrder
            <4>. QED BY <4>1, <4>2, <2>3
        <3>. QED BY <3>1, <3>2, <3>3, <3>4, <1>5 DEF Add, LinksInv, TypeOK, Places
    <2>. QED BY <2>1, <2>2, <2>3, <1>0
<1>9. \A i, j \in DOMAIN order' : order'[i] = order'[j] => i = j
    <2>. SUFFICES ASSUME NEW i \in 1..(L + 1), NEW j \in 1..(L + 1), order'[i] = order'[j]
                  PROVE  i = j
        BY <1>2
    <2>1. CASE i = 1 /\ j # 1
        BY <2>1, <1>0, <1>2, <1>3
    <2>2. CASE i # 1 /\ j = 1
        BY <2>2, <1>0, <1>2, <1>3
    <2>3. CASE i # 1 /\ j # 1
        <3>1. i - 1 \in DOMAIN order /\ j - 1 \in DOMAIN order /\ order[i - 1] = order[j - 1]
            BY <2>3, <1>0, <1>2
        <3>. QED BY <3>1, <1>0 DEF LinksInv, LinksSpellOrder
    <2>. QED BY <2>1, <2>2, <2>3
<1>10. \A m \in Nodes \ InList' : next'[m] = Null /\ prev'[m] = Null
    <2>. SUFFICES ASSUME NEW m \in Nodes, m \notin InList' PROVE next'[m] = Null /\ prev'[m] = Null
        OBVIOUS
    <2>1. m # n /\ m \notin InList /\ m # ListHead
        BY <1>0, <1>4
    <2>2. m # At(order, 1)
        BY <2>1, <1>0 DEF At, InList
    <2>. QED BY <2>1, <2>2, <1>5 DEF Add, LinksInv, LinksSpellOrder, TypeOK, Places
<1>11. LinksSpellOrder'
    BY <1>2, <1>8, <1>9, <1>10 DEF LinksSpellOrder
<1>12. CountIsLength'
    BY <1>2, <1>4 DEF CountIsLength, Add, LinksInv
<1>. QED BY <1>6, <1>11, <1>12 DEF LinksInv

(* The list without its k-th node, position by position. *)
LEMMA CutPlaces ==
    ASSUME LinksInv, NEW k \in DOMAIN order, order' = Cut(order, k)
    PROVE  /\ order' \in Seq(Nodes)
           /\ Len(order') = Len(order) - 1
           /\ \A i \in 0..(k - 1) : At(order', i) = At(order, i)
           /\ \A i \in k..Len(order) : At(order', i) = At(order, i + 1)
           /\ InList' = InList \ {order[k]}
<1>. DEFINE L == Len(order)
<1>0. order \in Seq(Nodes) /\ L \in Nat /\ DOMAIN order = 1..L /\ k \in 1..L
      /\ \A i \in 1..L : order[i] \in Nodes
    BY DEF LinksInv, TypeOK
<1>1. /\ order' \in Seq(Nodes) /\ Len(order') = L - 1 /\ DOMAIN order' = 1..(L - 1)
      /\ \A i \in 1..(L - 1) : order'[i] = IF i < k THEN order[i] ELSE order[i + 1]
    BY <1>0 DEF Cut
<1>2. \A i \in 0..(k - 1) : At(order', i) = At(order, i)
    BY <1>0, <1>1 DEF At
<1>3. \A i \in k..L : At(order', i) = At(order, i + 1)
    BY <1>0, <1>1 DEF At
<1>4. InList' = InList \ {order[k]}
    <2>1. ASSUME NEW x \in InList' PROVE x \in InList \ {order[k]}
        <3>1. PICK i \in 1..(L - 1) : order'[i] = x
            BY <1>1, <2>1 DEF InList
        <3>2. PICK j \in 1..L : j # k /\ order[j] = x
            BY <3>1, <1>0, <1>1
        <3>. QED BY <3>2, <1>0 DEF InList, LinksInv, LinksSpellOrder
    <2>2. ASSUME NEW x \in InList, x # order[k] PROVE x \in InList'
        <3>1. PICK j \in 1..L : order[j] = x
            BY <1>0, <2>2 DEF InList
        <3>2. CASE j < k
            BY <3>1, <3>2, <1>0, <1>1 DEF InList
        <3>3. CASE j > k
            <4>1. j - 1 \in DOMAIN order' /\ order'[j - 1] = x
                BY <3>1, <3>3, <1>0, <1>1
            <4>. QED BY <4>1 DEF InList
        <3>. QED BY <3>1, <3>2, <3>3, <2>2, <1>0
    <2>. QED BY <2>1, <2>2
<1>. QED BY <1>1, <1>2, <1>3, <1>4

(* list_delete_node joins the neighbours and clears the node.              *)
LEMMA UnlinkLinks ==
    ASSUME LinksInv, NEW n \in InList, Unlink(n), Drop(n),
           pos' \in Places \cup {Null}, ahead' \in Places \cup {Null},
           todo' \in Seq(Nodes), visited' \in Seq(Nodes)
    PROVE  LinksInv'
<1>. DEFINE L == Len(order)
<1>0. order \in Seq(Nodes) /\ L \in Nat /\ DOMAIN order = 1..L /\ ListHead \notin Nodes
      /\ \A i \in 1..L : order[i] \in Nodes
    BY LinkedListAssumption DEF LinksInv, TypeOK
<1>1. PICK k \in DOMAIN order : order[k] = n /\ order' = Cut(order, k)
    BY DEF Drop
<1>2. /\ order' \in Seq(Nodes) /\ Len(order') = L - 1
      /\ \A i \in 0..(k - 1) : At(order', i) = At(order, i)
      /\ \A i \in k..L : At(order', i) = At(order, i + 1)
      /\ InList' = InList \ {n}
    BY <1>1, CutPlaces
<1>3. n \in Nodes /\ n # ListHead /\ n \in Places
    BY <1>0, <1>1 DEF Places
<1>4. prev[n] = At(order, k - 1) /\ next[n] = At(order, k + 1)
    <2>1. At(order, k) = n
        BY <1>0, <1>1 DEF At
    <2>2. k - 1 \in 0..L /\ k \in 0..L /\ (k - 1) + 1 = k
        BY <1>0, <1>1
    <2>. QED BY <2>1, <2>2 DEF LinksInv, LinksSpellOrder
<1>5. \A i \in 0..(L + 1) : At(order, i) \in Places /\ (i # k => At(order, i) # n)
    BY <1>0, <1>1, <1>3 DEF At, Places, LinksInv, LinksSpellOrder
<1>6. prev[n] \in Places /\ next[n] \in Places /\ prev[n] # n /\ next[n] # n
    BY <1>0, <1>1, <1>4, <1>5
<1>7. TypeOK'
    <2>1. next' \in [Places -> Places \cup {Null}] /\ prev' \in [Places -> Places \cup {Null}]
        BY <1>3, <1>6 DEF LinksInv, TypeOK, Unlink
    <2>2. counted' \subseteq Places /\ count' \in Nat
        BY <1>0, <1>1 DEF LinksInv, TypeOK, Unlink, CountIsLength
    <2>. QED BY <1>2, <2>1, <2>2 DEF TypeOK, Places
<1>8. /\ \A p \in Places : next'[p] = IF p = n THEN Null ELSE IF p = prev[n] THEN next[n] ELSE next[p]
      /\ \A p \in Places : prev'[p] = IF p = n THEN Null ELSE IF p = next[n] THEN prev[n] ELSE prev[p]
    BY <1>3, <1>6 DEF Unlink, LinksInv, TypeOK
<1>a. \A i, j \in 1..L : order[i] = order[j] => i = j
    BY <1>0 DEF LinksInv, LinksSpellOrder
<1>b. \A i \in 0..(L + 1) : At(order, i) = IF i \in 1..L THEN order[i] ELSE ListHead
    BY <1>0 DEF At
<1>9. \A i, j \in 0..L : At(order, i) = At(order, j) => i = j
    BY <1>0, <1>a, <1>b
<1>10. \A i, j \in 1..(L + 1) : At(order, i) = At(order, j) => i = j
    BY <1>0, <1>a, <1>b
<1>11. ASSUME NEW i \in 0..(L - 1)
       PROVE  /\ next'[At(order', i)] = At(order', i + 1)
              /\ prev'[At(order', i + 1)] = At(order', i)
    <2>1. CASE i < k - 1
        <3>1. At(order', i) = At(order, i) /\ At(order', i + 1) = At(order, i + 1)
            <4>1. i \in 0..(k - 1) /\ i + 1 \in 0..(k - 1)
                BY <2>1, <1>0, <1>1
            <4>. QED BY <4>1, <1>2
        <3>2. At(order, i) # n /\ At(order, i + 1) # n
              /\ At(order, i) \in Places /\ At(order, i + 1) \in Places
            BY <2>1, <1>0, <1>1, <1>5
        <3>3. At(order, i) # prev[n] /\ At(order, i + 1) # next[n]
            BY <2>1, <1>0, <1>1, <1>4, <1>9, <1>10
        <3>4. next[At(order, i)] = At(order, i + 1) /\ prev[At(order, i + 1)] = At(order, i)
            BY <1>0 DEF LinksInv, LinksSpellOrder
        <3>. QED BY <3>1, <3>2, <3>3, <3>4, <1>8
    <2>2. CASE i = k - 1
        <3>1. At(order', i) = prev[n] /\ At(order', i + 1) = next[n]
            BY <2>2, <1>0, <1>1, <1>2, <1>4
        <3>. QED BY <3>1, <1>6, <1>8
    <2>3. CASE i > k - 1
        <3>1. At(order', i) = At(order, i + 1) /\ At(order', i + 1) = At(order, i + 2)
            <4>1. i \in k..L /\ i + 1 \in k..L /\ (i + 1) + 1 = i + 2
                BY <2>3, <1>0, <1>1
            <4>. QED BY <4>1, <1>2
        <3>2. At(order, i + 1) # n /\ At(order, i + 2) # n
              /\ At(order, i + 1) \in Places /\ At(order, i + 2) \in Places
            BY <2>3, <1>0, <1>1, <1>5
        <3>3. At(order, i + 1) # prev[n] /\ At(order, i + 2) # next[n]
            <4>1. /\ i + 1 \in 0..L /\ k - 1 \in 0..L /\ i + 1 # k - 1
                  /\ i + 2 \in 1..(L + 1) /\ k + 1 \in 1..(L + 1) /\ i + 2 # k + 1
                BY <2>3, <1>0, <1>1
            <4>. QED BY <4>1, <1>4, <1>9, <1>10
        <3>4. next[At(order, i + 1)] = At(order, i + 2) /\ prev[At(order, i + 2)] = At(order, i + 1)
            <4>1. i + 1 \in 0..L /\ (i + 1) + 1 = i + 2
                BY <1>0
            <4>. QED BY <4>1 DEF LinksInv, LinksSpellOrder
        <3>. QED BY <3>1, <3>2, <3>3, <3>4, <1>8
    <2>. QED BY <2>1, <2>2, <2>3, <1>0, <1>1
<1>12. \A i, j \in DOMAIN order' : order'[i] = order'[j] => i = j
    <2>1. DOMAIN order' = 1..(L - 1)
        BY <1>0, <1>2
    <2>2. \A i \in 1..(L - 1) : order'[i] = order[IF i < k THEN i ELSE i + 1]
        BY <1>0, <1>1 DEF Cut
    <2>3. ASSUME NEW i \in 1..(L - 1), NEW j \in 1..(L - 1), order'[i] = order'[j] PROVE i = j
        <3>1. order[IF i < k THEN i ELSE i + 1] = order[IF j < k THEN j ELSE j + 1]
            BY <2>2, <2>3
        <3>2. (IF i < k THEN i ELSE i + 1) \in 1..L /\ (IF j < k THEN j ELSE j + 1) \in 1..L
            BY <1>0, <1>1
        <3>3. (IF i < k THEN i ELSE i + 1) = (IF j < k THEN j ELSE j + 1)
            BY <3>1, <3>2, <1>a
        <3>. QED BY <3>3, <1>0, <1>1
    <2>. QED BY <2>1, <2>3
<1>13. \A m \in Nodes \ InList' : next'[m] = Null /\ prev'[m] = Null
    <2>. SUFFICES ASSUME NEW m \in Nodes, m \notin InList' PROVE next'[m] = Null /\ prev'[m] = Null
        OBVIOUS
    <2>1. CASE m = n
        BY <2>1, <1>3, <1>8
    <2>2. CASE m # n
        <3>1. m \notin InList /\ m # ListHead /\ m \in Places
            BY <2>2, <1>0, <1>2 DEF Places
        <3>2. m # prev[n] /\ m # next[n]
            BY <3>1, <1>0, <1>1, <1>4 DEF At, InList
        <3>. QED BY <2>2, <3>1, <3>2, <1>8 DEF LinksInv, LinksSpellOrder
    <2>. QED BY <2>1, <2>2
<1>14. LinksSpellOrder'
    BY <1>0, <1>2, <1>11, <1>12, <1>13 DEF LinksSpellOrder
<1>15. CountIsLength'
    BY <1>0, <1>1, <1>2, <1>3 DEF CountIsLength, Unlink, LinksInv
<1>. QED BY <1>7, <1>14, <1>15 DEF LinksInv

(* The link of a node on the list, or of the head, leads to another one.   *)
LEMMA NextIsListed ==
    ASSUME LinksInv, NEW p \in InList \cup {ListHead}
    PROVE  next[p] \in InList \cup {ListHead}
<1>. DEFINE L == Len(order)
<1>0. order \in Seq(Nodes) /\ L \in Nat /\ DOMAIN order = 1..L
    BY DEF LinksInv, TypeOK
<1>1. PICK i \in 0..L : At(order, i) = p
    BY <1>0 DEF At, InList
<1>2. next[p] = At(order, i + 1)
    BY <1>1 DEF LinksInv, LinksSpellOrder
<1>. QED BY <1>0, <1>2 DEF At, InList

LEMMA NextIsOther ==
    ASSUME LinksInv, NEW n \in InList
    PROVE  next[n] # n
<1>. DEFINE L == Len(order)
<1>0. order \in Seq(Nodes) /\ L \in Nat /\ DOMAIN order = 1..L /\ ListHead \notin Nodes
    BY LinkedListAssumption DEF LinksInv, TypeOK
<1>1. PICK i \in DOMAIN order : order[i] = n /\ n \in Nodes /\ i \in Nat /\ i <= L
    BY <1>0 DEF InList
<1>2. next[n] = At(order, i + 1)
    BY <1>0, <1>1 DEF LinksInv, LinksSpellOrder, At
<1>3. CASE i = L
    BY <1>0, <1>1, <1>2, <1>3 DEF At
<1>4. CASE i < L
    <2>1. i + 1 \in DOMAIN order /\ order[i + 1] # order[i]
        BY <1>0, <1>4 DEF LinksInv, LinksSpellOrder
    <2>. QED BY <1>1, <1>2, <2>1 DEF At
<1>5. i = L \/ i < L
    BY <1>0, <1>1
<1>. QED BY <1>3, <1>4, <1>5

-----------------------------------------------------------------------------
(* The nodes a traversal holds are on the list: after the deletion of the  *)
(* one, n is still linked, and so is the one after it.                     *)
TraversalInv ==
    /\ TraversalIsSafe
    /\ Traversing => ahead = next[pos]

(* Every step keeps the links, and a traversal on them.                    *)
LEMMA LinksInductive == LinksInv /\ TraversalInv /\ [Next]_vars => LinksInv'
<1>. SUFFICES ASSUME LinksInv, TraversalInv, [Next]_vars PROVE LinksInv'
    OBVIOUS
<1>0. /\ \A p \in InList \cup {ListHead} : p \in Places /\ next[p] \in Places
      /\ Null \notin Places
    BY LinkedListAssumption, NextIsListed DEF LinksInv, TypeOK, InList, Places
<1>1. ASSUME NEW n \in Nodes, Add(n) PROVE LinksInv'
    BY <1>1, AddLinks
<1>2. ASSUME NEW n \in Nodes, Delete(n) PROVE LinksInv'
    BY <1>2, LinkedIsListed, UnlinkLinks DEF Delete, traversal, LinksInv, TypeOK
<1>3. CASE Begin
    <2>1. pos' \in Places /\ ahead' \in Places
        BY <1>0, <1>3, NextIsListed DEF Begin
    <2>. QED BY <1>3, <2>1 DEF Begin, links, LinksInv, TypeOK, LinksSpellOrder, CountIsLength, InList
<1>4. CASE Visit
    <2>1. pos \in InList /\ ahead \in InList \cup {ListHead} /\ pos \in Nodes
        BY <1>4 DEF Visit, TraversalInv, TraversalIsSafe, LinksInv, TypeOK, InList
    <2>2. visited' \in Seq(Nodes) /\ todo' \in Seq(Nodes) /\ pos' \in Places
        BY <1>0, <1>4, <2>1 DEF Visit, Move, LinksInv, TypeOK
    <2>3. CASE UNCHANGED links
        <3>1. ahead' \in Places
            BY <1>0, <1>4, <2>1, <2>3 DEF Visit, Move, links
        <3>. QED BY <2>2, <2>3, <3>1 DEF links, LinksInv, TypeOK, LinksSpellOrder, CountIsLength, InList
    <2>4. CASE Unlink(pos) /\ Drop(pos)
        <3>1. ahead' \in Places \cup {Null}
            BY <1>0, <1>4, <2>1, <2>4 DEF Visit, Move, Unlink, LinksInv, TypeOK
        <3>. QED BY <2>1, <2>2, <2>4, <3>1, UnlinkLinks
    <2>. QED BY <1>4, <2>3, <2>4 DEF Visit
<1>5. CASE End
    BY <1>5 DEF End, links, LinksInv, TypeOK, LinksSpellOrder, CountIsLength, InList
<1>6. CASE UNCHANGED vars
    BY <1>6 DEF vars, links, traversal, LinksInv, TypeOK, LinksSpellOrder, CountIsLength, InList
<1>. QED BY <1>1, <1>2, <1>3, <1>4, <1>5, <1>6 DEF Next

(* Links lead from the list to the list. *)
Closed == \A p \in InList \cup {ListHead} : next[p] \in InList \cup {ListHead}

LEMMA ListedAfter == LinksInv' => Closed'
<1>1. LinksInv => Closed
    BY NextIsListed DEF Closed
<1>. QED BY <1>1, PTL

LEMMA TraversalInductive == LinksInv /\ TraversalInv /\ [Next]_vars => TraversalInv'
<1>. SUFFICES ASSUME LinksInv, TraversalInv, [Next]_vars PROVE TraversalInv'
    OBVIOUS
<1>0. Null \notin InList /\ Null # ListHead /\ ListHead \notin InList
    BY LinkedListAssumption DEF LinksInv, TypeOK, InList
<1>1. ASSUME NEW n \in Nodes, Add(n) \/ Delete(n) PROVE TraversalInv'
    BY <1>1 DEF Add, Delete, traversal, TraversalInv, TraversalIsSafe, Traversing
<1>2. CASE Begin
    BY <1>2, NextIsListed DEF Begin, links, TraversalInv, TraversalIsSafe, InList
<1>3. CASE Visit
    <2>1. pos \in InList /\ ahead \in InList \cup {ListHead} /\ ahead = next[pos]
        BY <1>3 DEF Visit, TraversalInv, TraversalIsSafe
    <2>2. CASE UNCHANGED links
        BY <1>3, <2>1, <2>2, NextIsListed DEF Visit, Move, links, TraversalInv, TraversalIsSafe, InList
    <2>3. CASE Unlink(pos) /\ Drop(pos)
        <3>1. LinksInv'
            BY LinksInductive
        <3>2. InList' = InList \ {pos}
            BY <2>3, CutPlaces DEF Drop
        <3>3. ahead # pos
            BY <2>1, NextIsOther
        <3>4. pos' = ahead /\ ahead' = next'[ahead] /\ pos' \in InList' \cup {ListHead}
            BY <1>3, <2>1, <3>2, <3>3 DEF Visit, Move
        <3>5. next'[ahead] \in InList' \cup {ListHead}
            BY <3>1, <3>4, ListedAfter DEF Closed
        <3>. QED BY <3>4, <3>5 DEF TraversalInv, TraversalIsSafe
    <2>. QED BY <1>3, <2>2, <2>3 DEF Visit
<1>4. CASE End
    BY <1>4 DEF End, TraversalInv, TraversalIsSafe, Traversing
<1>5. CASE UNCHANGED vars
    BY <1>5 DEF vars, links, traversal, TraversalInv, TraversalIsSafe, Traversing, InList
<1>. QED BY <1>1, <1>2, <1>3, <1>4, <1>5 DEF Next

LEMMA Inductive == Spec => [](LinksInv /\ TraversalInv)
<1>1. Init => LinksInv /\ TraversalInv
    BY InitLinks DEF Init, TraversalInv, TraversalIsSafe, Traversing
<1>. QED BY <1>1, LinksInductive, TraversalInductive, PTL DEF Spec

(* The variables of the list stay in their domains. *)
THEOREM TypeCorrect == Spec => []TypeOK
<1>1. LinksInv => TypeOK
    BY DEF LinksInv
<1>. QED BY Inductive, <1>1, PTL

(* For any set of nodes, the links spell the list in both directions.      *)
THEOREM LinksCorrect == Spec => []LinksSpellOrder
<1>1. LinksInv => LinksSpellOrder
    BY DEF LinksInv
<1>. QED BY Inductive, <1>1, PTL

(* For any set of nodes, list_count is the length of the list.             *)
THEOREM CountCorrect == Spec => []CountIsLength
<1>1. LinksInv => CountIsLength
    BY DEF LinksInv
<1>. QED BY Inductive, <1>1, PTL

(* For any set of nodes, links and count agree on one list.                *)
THEOREM IsListCorrect == Spec => []IsList
<1>1. LinksInv => IsList
    BY DEF LinksInv, IsList
<1>. QED BY Inductive, <1>1, PTL

(* A traversal that deletes never uses a deleted node.                     *)
THEOREM TraversalCorrect == Spec => []TraversalIsSafe
<1>1. TraversalInv => TraversalIsSafe
    BY DEF TraversalInv
<1>. QED BY Inductive, <1>1, PTL

-----------------------------------------------------------------------------
(* The place `at' where a traversal stands: what it visited is the         *)
(* beginning of the list it began with, and what is left of the list from  *)
(* there on is the rest.                                                   *)
StandsAt(at) ==
    /\ at \in 1..(Len(order) + 1) /\ At(order, at) = pos
    /\ Len(todo) = Len(visited) + (Len(order) + 1 - at)
    /\ \A i \in 1..Len(visited) : todo[i] = visited[i]
    /\ \A j \in at..Len(order) : todo[Len(visited) + 1 + (j - at)] = order[j]

VisitInv == Traversing => \E at \in 1..(Len(order) + 1) : StandsAt(at)

(* The node a traversal goes on to stands behind the one it leaves.        *)
LEMMA NextPlace ==
    ASSUME LinksInv, TraversalInv, NEW at \in 1..(Len(order) + 1), StandsAt(at), pos # ListHead
    PROVE  /\ at \in 1..Len(order) /\ order[at] = pos /\ At(order, at + 1) = ahead
           /\ pos \in Nodes /\ todo[Len(visited) + 1] = pos
<1>. DEFINE L == Len(order)
<1>0. order \in Seq(Nodes) /\ L \in Nat /\ DOMAIN order = 1..L /\ Len(visited) \in Nat
      /\ \A i \in 1..L : order[i] \in Nodes
    BY DEF LinksInv, TypeOK
<1>1. at \in 1..L /\ order[at] = pos
    BY <1>0 DEF StandsAt, At
<1>2. next[At(order, at)] = At(order, at + 1)
    BY <1>0, <1>1 DEF LinksInv, LinksSpellOrder
<1>3. pos # Null
    BY <1>0, <1>1, LinkedListAssumption
<1>4. ahead = next[pos]
    BY <1>3 DEF TraversalInv, Traversing
<1>5. todo[Len(visited) + 1 + (at - at)] = order[at]
    BY <1>0, <1>1 DEF StandsAt
<1>. QED BY <1>0, <1>1, <1>2, <1>4, <1>5 DEF StandsAt

LEMMA VisitStands ==
    ASSUME LinksInv, TraversalInv, Visit, NEW at \in 1..(Len(order) + 1), StandsAt(at)
    PROVE  \E a \in 1..(Len(order') + 1) : StandsAt(a)'
<1>. DEFINE L == Len(order)
            v == Len(visited)
<1>0. order \in Seq(Nodes) /\ L \in Nat /\ v \in Nat /\ visited \in Seq(Nodes) /\ todo \in Seq(Nodes)
    BY DEF LinksInv, TypeOK
<1>1. /\ at \in 1..L /\ order[at] = pos /\ At(order, at + 1) = ahead /\ pos \in Nodes
      /\ todo[v + 1] = pos
    BY NextPlace DEF Visit
<1>2. pos' = ahead /\ visited' = Append(visited, pos) /\ todo' = todo
    BY DEF Visit, Move
<1>3. Len(visited') = v + 1 /\ \A i \in 1..(v + 1) : todo'[i] = visited'[i]
    <2>1. /\ Len(visited') = v + 1 /\ visited'[v + 1] = pos
          /\ \A i \in 1..v : visited'[i] = visited[i]
        BY <1>0, <1>1, <1>2, AppendProperties
    <2>2. \A i \in 1..v : todo[i] = visited[i]
        BY DEF StandsAt
    <2>. QED BY <1>0, <1>1, <1>2, <2>1, <2>2
<1>4. /\ Len(todo) = v + (L + 1 - at)
      /\ \A j \in at..L : todo[v + 1 + (j - at)] = order[j]
    BY DEF StandsAt
<1>5. CASE UNCHANGED links
    <2>1. order' = order
        BY <1>5 DEF links
    <2>2. Len(todo') = (v + 1) + (L + 1 - (at + 1)) /\ at + 1 \in 1..(L + 1)
        BY <1>0, <1>1, <1>2, <1>4
    <2>3. ASSUME NEW j \in (at + 1)..L PROVE todo'[(v + 1) + 1 + (j - (at + 1))] = order'[j]
        <3>1. j \in at..L /\ (v + 1) + 1 + (j - (at + 1)) = v + 1 + (j - at)
            <4>1. v \in Nat /\ L \in Nat /\ at \in 1..L
                BY <1>0, <1>1
            <4>. HIDE DEF v, L
            <4>. QED BY <4>1
        <3>. QED BY <1>2, <1>4, <2>1, <3>1
    <2>4. StandsAt(at + 1)'
        BY <1>1, <1>2, <1>3, <2>1, <2>2, <2>3 DEF StandsAt
    <2>. QED BY <2>1, <2>2, <2>4
<1>6. CASE Drop(pos)
    <2>1. PICK k \in DOMAIN order : order[k] = pos /\ order' = Cut(order, k)
        BY <1>6 DEF Drop
    <2>2. k = at
        BY <1>0, <1>1, <2>1 DEF LinksInv, LinksSpellOrder
    <2>3. /\ Len(order') = L - 1
          /\ \A i \in at..L : At(order', i) = At(order, i + 1)
          /\ order' \in Seq(Nodes)
        BY <2>1, <2>2, CutPlaces
    <2>4. /\ at \in 1..(Len(order') + 1) /\ At(order', at) = pos'
          /\ Len(todo') = (v + 1) + (Len(order') + 1 - at)
        BY <1>0, <1>1, <1>2, <1>4, <2>3
    <2>5. ASSUME NEW j \in at..Len(order') PROVE todo'[(v + 1) + 1 + (j - at)] = order'[j]
        <3>1. j \in at..L /\ j + 1 \in at..L /\ (v + 1) + 1 + (j - at) = v + 1 + ((j + 1) - at)
            BY <1>0, <1>1, <2>3
        <3>2. j \in DOMAIN order' /\ j + 1 \in DOMAIN order
            BY <1>0, <1>1, <2>3
        <3>3. order'[j] = order[j + 1]
            BY <2>3, <3>1, <3>2 DEF At
        <3>. QED BY <1>2, <1>4, <3>1, <3>3
    <2>6. StandsAt(at)'
        BY <1>3, <2>4, <2>5 DEF StandsAt
    <2>. QED BY <2>4, <2>6
<1>. QED BY <1>5, <1>6 DEF Visit

LEMMA BeginStands ==
    ASSUME LinksInv, Begin
    PROVE  StandsAt(1)' /\ 1 \in 1..(Len(order') + 1)
<1>0. order \in Seq(Nodes) /\ Len(order) \in Nat /\ DOMAIN order = 1..Len(order)
    BY DEF LinksInv, TypeOK
<1>1. /\ order' = order /\ pos' = next[ListHead] /\ todo' = order /\ visited' = <<>>
      /\ Len(visited') = 0
    BY DEF Begin, links
<1>2. At(order, 0) = ListHead /\ next[At(order, 0)] = At(order, 0 + 1)
    BY <1>0 DEF At, LinksInv, LinksSpellOrder
<1>3. \A j \in 1..Len(order) : todo'[0 + 1 + (j - 1)] = order[j]
    BY <1>0, <1>1
<1>. QED BY <1>0, <1>1, <1>2, <1>3 DEF StandsAt

LEMMA VisitInductive == LinksInv /\ TraversalInv /\ VisitInv /\ [Next]_vars => VisitInv'
<1>. SUFFICES ASSUME LinksInv, TraversalInv, VisitInv, [Next]_vars PROVE VisitInv'
    OBVIOUS
<1>1. ASSUME NEW n \in Nodes, Add(n) \/ Delete(n) PROVE VisitInv'
    BY <1>1 DEF Add, Delete, traversal, VisitInv, Traversing
<1>2. CASE Begin
    BY <1>2, BeginStands DEF VisitInv
<1>3. CASE Visit
    <2>1. PICK at \in 1..(Len(order) + 1) : StandsAt(at)
        BY <1>3 DEF Visit, VisitInv
    <2>. QED BY <1>3, <2>1, VisitStands DEF VisitInv
<1>4. CASE End
    BY <1>4 DEF End, VisitInv, Traversing
<1>5. CASE UNCHANGED vars
    BY <1>5 DEF vars, links, traversal, VisitInv, Traversing, StandsAt
<1>. QED BY <1>1, <1>2, <1>3, <1>4, <1>5 DEF Next

(* A traversal visits every node that was on the list when it began, once, *)
(* in order, and no other, whichever of them its body deletes.             *)
THEOREM VisitsEachOnceCorrect == Spec => []VisitsEachOnce
<1>1. LinksInv /\ VisitInv => VisitsEachOnce
    <2>. SUFFICES ASSUME LinksInv, VisitInv, Traversing PROVE VisitsEachOnce
        BY DEF VisitsEachOnce
    <2>. DEFINE L == Len(order)
                v == Len(visited)
                c == CHOOSE i \in DOMAIN order : order[i] = pos
                rest == IF pos = ListHead THEN <<>> ELSE SubSeq(order, c, L)
    <2>0. /\ order \in Seq(Nodes) /\ L \in Nat /\ DOMAIN order = 1..L /\ v \in Nat
          /\ visited \in Seq(Nodes) /\ todo \in Seq(Nodes) /\ ListHead \notin Nodes
          /\ \A i \in 1..L : order[i] \in Nodes
        BY LinkedListAssumption DEF LinksInv, TypeOK
    <2>1. PICK at \in 1..(L + 1) : StandsAt(at)
        BY DEF VisitInv
    <2>2. /\ At(order, at) = pos /\ Len(todo) = v + (L + 1 - at)
          /\ \A i \in 1..v : todo[i] = visited[i]
          /\ \A j \in at..L : todo[v + 1 + (j - at)] = order[j]
        BY <2>1 DEF StandsAt
    <2>3. /\ rest \in Seq(Nodes) /\ Len(rest) = L + 1 - at
          /\ \A i \in 1..Len(rest) : rest[i] = order[at + i - 1]
        <3>1. CASE at = L + 1
            <4>1. pos = ListHead
                BY <2>0, <2>2, <3>1 DEF At
            <4>. QED BY <2>0, <3>1, <4>1
        <3>2. CASE at # L + 1
            <4>1. at \in 1..L /\ pos = order[at] /\ pos # ListHead
                BY <2>0, <2>2, <3>2 DEF At
            <4>2. c = at
                BY <2>0, <4>1 DEF LinksInv, LinksSpellOrder
            <4>3. rest = SubSeq(order, at, L)
                BY <4>1, <4>2
            <4>4. \A i \in at..L : order[i] \in Nodes
                BY <2>0, <4>1
            <4>. HIDE DEF rest
            <4>5. /\ rest \in Seq(Nodes) /\ Len(rest) = L - at + 1
                  /\ \A i \in 1..(L - at + 1) : rest[i] = order[at + i - 1]
                BY <2>0, <4>1, <4>3, <4>4, SubSeqProperties
            <4>. QED BY <2>0, <4>1, <4>5
        <3>. QED BY <3>1, <3>2
    <2>. HIDE DEF rest
    <2>4. /\ visited \o rest \in Seq(Nodes) /\ Len(visited \o rest) = v + Len(rest)
          /\ \A i \in 1..(v + Len(rest)) :
                (visited \o rest)[i] = IF i <= v THEN visited[i] ELSE rest[i - v]
        BY <2>0, <2>3, ConcatProperties
    <2>a. PICK n \in Nat : n = L + 1 - at
        BY <2>0
    <2>5. ASSUME NEW i \in 1..(v + n) PROVE todo[i] = (visited \o rest)[i]
        <3>1. CASE i <= v
            BY <2>0, <2>2, <2>3, <2>4, <2>a, <3>1
        <3>2. CASE i > v
            <4>0. v \in Nat /\ L \in Nat
                BY <2>0
            <4>. DEFINE m == i - v
                        j == at + m - 1
            <4>1. m \in 1..n /\ j \in at..L /\ v + 1 + (j - at) = i
                <5>. HIDE DEF v, L
                <5>. QED BY <4>0, <2>a, <3>2
            <4>2. todo[i] = order[j]
                BY <2>2, <4>1
            <4>3. rest[m] = order[j]
                BY <2>3, <2>a, <4>1
            <4>4. (visited \o rest)[i] = rest[m]
                BY <2>3, <2>4, <2>a, <3>2, <4>0
            <4>. QED BY <4>2, <4>3, <4>4
        <3>3. i <= v \/ i > v
            <4>1. v \in Nat
                BY <2>0
            <4>. HIDE DEF v
            <4>. QED BY <4>1, <2>a
        <3>. QED BY <3>1, <3>2, <3>3
    <2>6. Len(todo) = Len(visited \o rest) /\ Len(todo) = v + n
        BY <2>2, <2>3, <2>4, <2>a
    <2>7. todo = visited \o rest
        BY <2>0, <2>4, <2>5, <2>6, SeqEqual
    <2>. QED BY <2>7 DEF VisitsEachOnce, rest
<1>2. Init => VisitInv
    BY DEF Init, VisitInv, Traversing
<1>. QED BY Inductive, VisitInductive, <1>1, <1>2, PTL DEF Spec
==============================================================================
