------------------------------------ MODULE DLL ------------------------------------
(***************************************************************************)
(* The doubly linked list library DLL.sol.  A list is a function from node *)
(* ids to links; node 0 (NULL_NODE_ID) is the sentinel that holds the      *)
(* start (its next) and the end (its prev) of the list.  A mapping entry   *)
(* that was never written, or was deleted, reads as the zero link.         *)
(***************************************************************************)
EXTENDS Naturals

NULL_NODE_ID == 0

Node(p, n) == [prev |-> p, next |-> n]
ZeroNode   == Node(NULL_NODE_ID, NULL_NODE_ID)

(* Every list over the node ids in ids. *)
Lists(ids) == [ids -> [prev : ids, next : ids]]

EmptyList(ids) == [i \in ids |-> ZeroNode]

IsEmpty(d) == d[NULL_NODE_ID].next = NULL_NODE_ID

ContainsNeighbour(d, curr) ==                                  \* faulty Contains
    ~IsEmpty(d) /\ curr # NULL_NODE_ID /\ d[curr] # ZeroNode

(* A node is in the list if it is its only node, or has a neighbour. *)
Contains(d, curr) ==
    /\ ~IsEmpty(d)
    /\ curr # NULL_NODE_ID
    /\ \/ d[NULL_NODE_ID] = Node(curr, curr)
       \/ d[curr] # ZeroNode

RemoveForward(d, curr) ==                                      \* faulty Remove
    IF ~Contains(d, curr) THEN d
    ELSE [d EXCEPT ![d[curr].prev].next = d[curr].next, ![curr] = ZeroNode]

Remove(d, curr) ==
    IF ~Contains(d, curr) THEN d
    ELSE LET next == d[curr].next
             prev == d[curr].prev
         IN  [d EXCEPT ![next].prev = prev, ![prev].next = next, ![curr] = ZeroNode]

(* The require()s of insert, which look at the list after curr left its old *)
(* position.                                                                *)
CanInsert(d, prev, curr, next) ==
    LET r == Remove(d, curr)
    IN  /\ curr # NULL_NODE_ID
        /\ prev = NULL_NODE_ID \/ Contains(r, prev)
        /\ next = NULL_NODE_ID \/ Contains(r, next)
        /\ r[prev].next = next
        /\ r[next].prev = prev

Insert(d, prev, curr, next) ==
    [Remove(d, curr) EXCEPT ![curr] = Node(prev, next), ![prev].next = curr, ![next].prev = curr]
====================================================================================
