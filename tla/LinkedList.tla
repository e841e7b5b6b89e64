------------------------------ MODULE LinkedList ------------------------------
(***************************************************************************)
(* src/core/list.c and the traversals of list.h: a circular doubly linked  *)
(* list whose head is a node of its own and whose length is counted in one *)
(* block that all nodes point to.                                          *)
(*                                                                         *)
(* `order' is history: the nodes that have been added and not yet deleted, *)
(* the latest first.  The properties say that the links spell it.          *)
(***************************************************************************)
EXTENDS Naturals, Sequences

CONSTANTS Nodes,        \* the list_node_t inside the records
          ListHead,     \* the list_node_t a list starts from
          Null

ASSUME LinkedListAssumption == ListHead \notin Nodes /\ Null \notin Nodes \cup {ListHead}

VARIABLES
    next, prev,     \* the links of every node
    counted,        \* the nodes whose count pointer is set
    count,          \* what it points to
    pos, ahead,     \* pos and n of a LIST_FOREACH_SAFE, or Null
    order,          \* history: the list
    todo, visited   \* history: the list when the traversal began, and so far

links == <<next, prev, counted, count, order>>
traversal == <<pos, ahead, todo, visited>>
vars == <<links, traversal>>

Places == Nodes \cup {ListHead}
InList == {order[i] : i \in DOMAIN order}
Traversing == pos # Null

TypeOK ==
    /\ next \in [Places -> Places \cup {Null}]
    /\ prev \in [Places -> Places \cup {Null}]
    /\ counted \subseteq Places
    /\ count \in Nat
    /\ order \in Seq(Nodes)
    /\ pos \in Places \cup {Null} /\ ahead \in Places \cup {Null}
    /\ todo \in Seq(Nodes) /\ visited \in Seq(Nodes)

-----------------------------------------------------------------------------
(* list_init; the other nodes are fresh from calloc. *)
Init ==
    /\ next = [p \in Places |-> IF p = ListHead THEN ListHead ELSE Null]
    /\ prev = [p \in Places |-> IF p = ListHead THEN ListHead ELSE Null]
    /\ counted = {ListHead}
    /\ count = 0
    /\ pos = Null /\ ahead = Null
    /\ order = <<>> /\ todo = <<>> /\ visited = <<>>

(* Plausible mistakes. *)
AddWithoutBackLink(n) ==
    /\ ~Traversing /\ next[n] = Null
    /\ next' = [next EXCEPT ![n] = next[ListHead], ![ListHead] = n]
    /\ prev' = [prev EXCEPT ![n] = ListHead]
    /\ counted' = counted \cup {n}
    /\ count' = count + 1
    /\ order' = <<n>> \o order
    /\ UNCHANGED traversal

AddUncounted(n) ==
    /\ ~Traversing /\ next[n] = Null
    /\ next' = [next EXCEPT ![n] = next[ListHead], ![ListHead] = n]
    /\ prev' = [prev EXCEPT ![n] = ListHead, ![next[ListHead]] = n]
    /\ counted' = counted \cup {n}
    /\ order' = <<n>> \o order
    /\ UNCHANGED <<count, traversal>>

UnlinkUncounted(n) ==
    /\ prev' = [prev EXCEPT ![next[n]] = prev[n], ![n] = Null]
    /\ next' = [next EXCEPT ![prev[n]] = next[n], ![n] = Null]
    /\ counted' = counted \ {n}
    /\ UNCHANGED count

(* list_add_node on a record that is not on a list. *)
Add(n) ==
    /\ ~Traversing /\ next[n] = Null
    /\ next' = [next EXCEPT ![n] = next[ListHead], ![ListHead] = n]
    /\ prev' = [prev EXCEPT ![n] = ListHead, ![next[ListHead]] = n]
    /\ counted' = counted \cup {n}
    /\ count' = count + 1
    /\ order' = <<n>> \o order
    /\ UNCHANGED traversal

(* list_delete_node *)
Unlink(n) ==
    /\ prev' = [prev EXCEPT ![next[n]] = prev[n], ![n] = Null]
    /\ next' = [next EXCEPT ![prev[n]] = next[n], ![n] = Null]
    /\ counted' = counted \ {n}
    /\ count' = count - 1

(* A sequence without its k-th element. *)
Cut(s, k) == [i \in 1..(Len(s) - 1) |-> IF i < k THEN s[i] ELSE s[i + 1]]

Drop(n) == \E k \in DOMAIN order : order[k] = n /\ order' = Cut(order, k)

Delete(n) ==
    /\ ~Traversing /\ next[n] # Null
    /\ Unlink(n)
    /\ Drop(n)
    /\ UNCHANGED traversal

-----------------------------------------------------------------------------
(* LIST_FOREACH_SAFE: pos = head->next, n = pos->next. *)
Begin ==
    /\ ~Traversing
    /\ pos' = next[ListHead] /\ ahead' = next[next[ListHead]]
    /\ todo' = order /\ visited' = <<>>
    /\ UNCHANGED links

(* A plausible mistake: n is read through the node the loop body may just  *)
(* have deleted.                                                           *)
MoveFromDeleted == pos' = ahead /\ ahead' = next'[pos]

(* pos = n, n = pos->next, after the loop body. *)
Move == pos' = ahead /\ ahead' = next'[ahead]

(* The loop body keeps the node, or deletes it as in                       *)
(* remove_inactive_processes; the record is then freed.                    *)
Visit ==
    /\ Traversing /\ pos # ListHead
    /\ \/ UNCHANGED links
       \/ Unlink(pos) /\ Drop(pos)
    /\ Move
    /\ visited' = Append(visited, pos)
    /\ UNCHANGED todo

End ==
    /\ pos = ListHead
    /\ pos' = Null /\ ahead' = Null
    /\ todo' = <<>> /\ visited' = <<>>
    /\ UNCHANGED links

Next ==
    \/ \E n \in Nodes : Add(n) \/ Delete(n)
    \/ Begin \/ Visit \/ End

Spec == Init /\ [][Next]_vars

-----------------------------------------------------------------------------
(* The node at a position of the list; the head is at both ends.           *)
At(s, i) == IF i \in DOMAIN s THEN s[i] ELSE ListHead

(* Following next from the head passes exactly the nodes of the list, in   *)
(* order, and comes back; following prev does so backwards; and a node off *)
(* the list has no links.                                                  *)
LinksSpellOrder ==
    /\ \A i \in 0..Len(order) :
          /\ next[At(order, i)] = At(order, i + 1)
          /\ prev[At(order, i + 1)] = At(order, i)
    /\ \A i, j \in DOMAIN order : order[i] = order[j] => i = j
    /\ \A n \in Nodes \ InList : next[n] = Null /\ prev[n] = Null

(* list_count is the number of nodes, whichever node it is asked, and only *)
(* nodes on the list can be asked.                                         *)
CountIsLength == count = Len(order) /\ counted = InList \cup {ListHead}

(* Links and count, each written in several places by every call, agree on *)
(* one list after every sequence of calls.                                 *)
IsList == LinksSpellOrder /\ CountIsLength

(* A traversal that deletes as it goes never stands on, or holds as its    *)
(* next, a node that was deleted and freed.                                *)
TraversalIsSafe ==
    Traversing => /\ pos \in InList \cup {ListHead}
                  /\ ahead \in InList \cup {ListHead}

(* It visits every node that was there once, in order, and no other,       *)
(* whichever of them it deletes.                                           *)
VisitsEachOnce ==
    Traversing => todo = visited \o
        (IF pos = ListHead THEN <<>>
         ELSE LET at == CHOOSE i \in DOMAIN order : order[i] = pos
              IN  SubSeq(order, at, Len(order)))
==============================================================================
