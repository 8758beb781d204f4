----------------------------- MODULE PLCRVoting_proofs -----------------------------
(***************************************************************************)
(* Theorems about PLCRVoting, for every set of voters and every value of   *)
(* the bounds, on lemmas about the list operations of DLL.                 *)
(*                                                                         *)
(* That a list is properly linked is not a local property: two cycles      *)
(* would satisfy every condition on neighbours.  It is stated with a rank  *)
(* for each node, that grows along next and leaves no node out between two *)
(* neighbours; the ranks are the proof's, the code keeps none.             *)
(***************************************************************************)
EXTENDS PLCRVoting, Sums_proofs

USE DEF NULL_NODE_ID

------------------------------------------------------------------------------------
(* Removing a node keeps every link inside the node ids. *)
LEMMA RemoveType ==
    ASSUME NEW ids, 0 \in ids, NEW d \in Lists(ids), NEW c \in ids
    PROVE  Remove(d, c) \in Lists(ids)
<1> DEFINE a == d[c].prev
           b == d[c].next
           e == [d EXCEPT ![b] = [@ EXCEPT !.prev = a]]
           f == [e EXCEPT ![a] = [@ EXCEPT !.next = b]]
<1>1. a \in ids /\ b \in ids /\ ZeroNode \in [prev : ids, next : ids]
  BY DEF Lists, ZeroNode, Node
<1>2. e \in Lists(ids)
  BY <1>1 DEF Lists
<1>3. f \in Lists(ids)
  <2> HIDE DEF e
  <2>1. QED
    BY <1>1, <1>2 DEF Lists
<1>4. [f EXCEPT ![c] = ZeroNode] \in Lists(ids)
  <2> HIDE DEF f
  <2>1. QED
    BY <1>1, <1>3 DEF Lists
<1>5. Remove(d, c) \in {d, [f EXCEPT ![c] = ZeroNode]}
  BY DEF Remove
<1>6. QED
  BY <1>4, <1>5

(* Inserting a node between two nodes keeps every link inside the node ids. *)
LEMMA InsertType ==
    ASSUME NEW ids, 0 \in ids, NEW d \in Lists(ids),
           NEW p \in ids, NEW c \in ids, NEW n \in ids
    PROVE  Insert(d, p, c, n) \in Lists(ids)
<1> DEFINE r == Remove(d, c)
           e == [r EXCEPT ![c] = Node(p, n)]
           f == [e EXCEPT ![p] = [@ EXCEPT !.next = c]]
           g == [f EXCEPT ![n] = [@ EXCEPT !.prev = c]]
<1>1. r \in Lists(ids)
  BY RemoveType
<1>2. e \in Lists(ids)
  <2> HIDE DEF r
  <2>1. QED
    BY <1>1 DEF Lists, Node
<1>3. f \in Lists(ids)
  <2> HIDE DEF e
  <2>1. QED
    BY <1>2 DEF Lists
<1>4. g \in Lists(ids)
  <2> HIDE DEF f
  <2>1. QED
    BY <1>3 DEF Lists
<1>5. Insert(d, p, c, n) = g
  BY DEF Insert
<1>6. QED
  BY <1>4, <1>5

------------------------------------------------------------------------------------
(* The ranks of the sentinel and of the nodes S of a list. *)
Ranking(ids, S, r) ==
    /\ S \subseteq ids \ {0}
    /\ r \in [ids -> Nat]
    /\ r[0] = 0
    /\ \A i \in S : r[i] > 0
    /\ \A i, j \in S : r[i] = r[j] => i = j

(* The two directions agree, and stay among the nodes of the list. *)
TwoWay(d, S) ==
    \A i \in S \cup {0} :
        /\ d[i].next \in S \cup {0}
        /\ d[i].prev \in S \cup {0}
        /\ d[d[i].next].prev = i
        /\ d[d[i].prev].next = i

(* next goes to the node of the next higher rank, or back to the sentinel *)
(* from the highest.                                                      *)
Ascending(d, S, r) ==
    \A i \in S \cup {0} :
        /\ d[i].next # 0 => r[i] < r[d[i].next]
        /\ \A k \in S : r[k] <= r[i] \/ (d[i].next # 0 /\ r[d[i].next] <= r[k])

(* d is a list of exactly the nodes in S, in the order of their ranks. *)
Linked(d, ids, S, r) ==
    /\ Ranking(ids, S, r)
    /\ TwoWay(d, S)
    /\ Ascending(d, S, r)
    /\ \A i \in ids \ (S \cup {0}) : d[i] = ZeroNode

(* The weights of the nodes never decrease along the list. *)
Monotone(w, S, r) == \A i, j \in S : r[i] < r[j] => w[i] <= w[j]

------------------------------------------------------------------------------------
(* The empty list is linked. *)
LEMMA EmptyLinked ==
    ASSUME NEW ids, 0 \in ids
    PROVE  Linked(EmptyList(ids), ids, {}, [i \in ids |-> 0])
  BY DEF Linked, Ranking, TwoWay, Ascending, EmptyList, ZeroNode, Node

(* contains() answers for exactly the nodes of the list, also for the only *)
(* node of a list, whose links are both zero.                              *)
LEMMA ContainsMember ==
    ASSUME NEW ids, 0 \in ids, NEW d \in Lists(ids), NEW S, NEW r,
           Linked(d, ids, S, r), NEW c \in ids
    PROVE  Contains(d, c) <=> c \in S
<1>1. ASSUME c \in S PROVE Contains(d, c)
  <2>1. d[0].next # 0
    BY <1>1 DEF Linked, Ranking, Ascending
  <2>2. d[c] # ZeroNode \/ d[0] = Node(c, c)
    BY <1>1 DEF Linked, TwoWay, Lists, ZeroNode, Node
  <2>3. QED
    BY <1>1, <2>1, <2>2 DEF Contains, IsEmpty, Linked, Ranking
<1>2. ASSUME Contains(d, c) PROVE c \in S
  <2>1. c # 0 /\ (d[0].next = c \/ d[c] # ZeroNode)
    BY <1>2 DEF Contains, Node
  <2>2. QED
    BY <2>1 DEF Linked, TwoWay
<1>3. QED
  BY <1>1, <1>2

(* The last node of a list that has one is the node of the highest rank. *)
LEMMA LastIsHighest ==
    ASSUME NEW ids, 0 \in ids, NEW d \in Lists(ids), NEW S, NEW r,
           Linked(d, ids, S, r), NEW k \in S
    PROVE  /\ d[0].prev \in S
           /\ k = d[0].prev \/ r[k] < r[d[0].prev]
<1> DEFINE last == d[0].prev
<1>1. last \in S \cup {0} /\ d[last].next = 0
  BY DEF Linked, TwoWay
<1>2. r[k] <= r[last]
  BY <1>1 DEF Linked, Ascending
<1>3. /\ r[0] = 0 /\ r[k] > 0 /\ r[k] \in Nat /\ r[last] \in Nat
      /\ last \in S => (r[k] = r[last] => k = last)
  BY <1>1 DEF Linked, Ranking
<1>4. QED
  BY <1>1, <1>2, <1>3

(* The last node of a monotone list weighs most. *)
LEMMA LastIsHeaviest ==
    ASSUME NEW ids, 0 \in ids, NEW d \in Lists(ids), NEW S, NEW r,
           Linked(d, ids, S, r), NEW w \in [ids -> Nat], Monotone(w, S, r), NEW k \in S
    PROVE  w[k] <= w[d[0].prev]
  BY LastIsHighest DEF Monotone, Linked, Ranking

(* remove() takes out exactly one node and keeps the order of the others. *)
LEMMA RemoveLinked ==
    ASSUME NEW ids, 0 \in ids, NEW d \in Lists(ids), NEW S, NEW r,
           Linked(d, ids, S, r), NEW c \in ids
    PROVE  Linked(Remove(d, c), ids, S \ {c}, r)
<1> DEFINE e == Remove(d, c)
           T == S \ {c}
           a == d[c].prev
           b == d[c].next
<1>1. CASE c \notin S
  <2>1. e = d /\ T = S
    BY <1>1, ContainsMember DEF Remove
  <2>2. QED
    BY <2>1
<1>2. CASE c \in S
  <2>1. /\ a \in T \cup {0} /\ b \in T \cup {0} /\ c # 0
        /\ d[a].next = c /\ d[b].prev = c
    BY <1>2 DEF Linked, TwoWay, Ascending, Ranking
  <2>2. e = [d EXCEPT ![b].prev = a, ![a].next = b, ![c] = ZeroNode]
    BY <1>2, ContainsMember DEF Remove
  <2>3. T \cup {0} \subseteq ids
    BY DEF Linked, Ranking
  <2>4. /\ \A i \in ids : i # c => e[i].next = IF i = a THEN b ELSE d[i].next
        /\ \A i \in ids : i # c => e[i].prev = IF i = b THEN a ELSE d[i].prev
        /\ \A i \in ids : i # a /\ i # b /\ i # c => e[i] = d[i]
        /\ e[c] = ZeroNode
    BY <2>1, <2>2, <2>3 DEF Lists
  <2>5. Ranking(ids, T, r)
    BY DEF Linked, Ranking
  <2>6. TwoWay(e, T)
    <3> SUFFICES ASSUME NEW i \in T \cup {0}
                 PROVE  /\ e[i].next \in T \cup {0}
                        /\ e[i].prev \in T \cup {0}
                        /\ e[e[i].next].prev = i
                        /\ e[e[i].prev].next = i
      BY DEF TwoWay
    <3>1. i \in S \cup {0} /\ i # c /\ i \in ids
      BY <2>1, <2>3
    <3>2. /\ d[i].next \in S \cup {0} /\ d[d[i].next].prev = i
          /\ d[i].prev \in S \cup {0} /\ d[d[i].prev].next = i
      BY <3>1 DEF Linked, TwoWay
    <3>3. (d[i].next = c <=> i = a) /\ (d[i].prev = c <=> i = b)
      BY <3>1, <3>2, <2>1 DEF Linked, TwoWay
    <3>4. QED
      BY <2>1, <2>3, <2>4, <3>1, <3>2, <3>3
  <2>7. Ascending(e, T, r)
    <3> SUFFICES ASSUME NEW i \in T \cup {0}
                 PROVE  /\ e[i].next # 0 => r[i] < r[e[i].next]
                        /\ \A k \in T : r[k] <= r[i] \/ (e[i].next # 0 /\ r[e[i].next] <= r[k])
      BY DEF Ascending
    <3>1. i \in S \cup {0} /\ i # c /\ i \in ids
      BY <2>1, <2>3
    <3>2. /\ \A j \in S \cup {0} : r[j] \in Nat
          /\ \A j, k \in S : r[j] = r[k] => j = k
      BY <2>3 DEF Linked, Ranking
    <3>3. \A j \in S \cup {0} :
             /\ d[j].next # 0 => r[j] < r[d[j].next]
             /\ \A k \in S : r[k] <= r[j] \/ (d[j].next # 0 /\ r[d[j].next] <= r[k])
      BY DEF Linked, Ascending
    <3>4. CASE i # a
      BY <3>1, <3>3, <3>4, <2>4
    <3>5. CASE i = a
      <4>1. e[i].next = b /\ r[i] < r[c]
        BY <3>1, <3>3, <3>5, <2>1, <2>4
      <4>2. b # 0 => r[c] < r[b]
        BY <1>2, <3>3
      <4>3. b # 0 => r[i] < r[b]
        BY <4>1, <4>2, <3>1, <3>2, <2>1, <1>2
      <4>4. ASSUME NEW k \in T PROVE r[k] <= r[i] \/ (b # 0 /\ r[b] <= r[k])
        <5>1. r[k] <= r[i] \/ r[c] <= r[k]
          BY <3>1, <3>3, <3>5, <2>1
        <5>2. r[k] <= r[c] \/ (b # 0 /\ r[b] <= r[k])
          BY <1>2, <3>3
        <5>3. r[k] # r[c]
          BY <1>2, <3>2
        <5>4. QED
          BY <5>1, <5>2, <5>3, <3>1, <3>2, <1>2
      <4>5. QED
        BY <4>1, <4>3, <4>4
    <3>6. QED
      BY <3>4, <3>5
  <2>8. \A i \in ids \ (T \cup {0}) : e[i] = ZeroNode
    BY <2>1, <2>4 DEF Linked
  <2>9. QED
    BY <2>5, <2>6, <2>7, <2>8 DEF Linked
<1>3. QED
  BY <1>1, <1>2

(* insert() adds exactly one node, or moves it, and keeps the order of the *)
(* others; if the weight of the node fits between its neighbours, the list *)
(* stays monotone.                                                         *)
LEMMA InsertLinked ==
    ASSUME NEW ids, 0 \in ids, NEW d \in Lists(ids), NEW S, NEW r,
           Linked(d, ids, S, r), NEW w \in [ids -> Nat], Monotone(w, S, r),
           NEW c \in ids, NEW p \in ids, NEW n \in ids, CanInsert(d, p, c, n),
           NEW x \in Nat, p = 0 \/ w[p] <= x, n = 0 \/ x <= w[n]
    PROVE  \E q \in [ids -> Nat] :
               /\ Linked(Insert(d, p, c, n), ids, S \cup {c}, q)
               /\ Monotone([w EXCEPT ![c] = x], S \cup {c}, q)
<1> DEFINE e == Remove(d, c)
           T == S \ {c}
           U == S \cup {c}
           f == Insert(d, p, c, n)
           q == [i \in ids |-> IF i = c THEN 2 * r[p] + 1 ELSE 2 * r[i]]
           y == [w EXCEPT ![c] = x]
<1>1. Linked(e, ids, T, r) /\ e \in Lists(ids)
  BY RemoveLinked, RemoveType
<1>2. /\ c # 0 /\ p \in T \cup {0} /\ n \in T \cup {0}
      /\ e[p].next = n /\ e[n].prev = p
  BY <1>1, ContainsMember DEF CanInsert
<1>3. /\ T \subseteq ids \ {0} /\ U = T \cup {c} /\ c \notin T \cup {0}
      /\ r \in [ids -> Nat] /\ r[0] = 0
      /\ \A i \in T : r[i] > 0
      /\ \A i, j \in T : r[i] = r[j] => i = j
  BY <1>1, <1>2 DEF Linked, Ranking
<1>4. f = [e EXCEPT ![c] = Node(p, n), ![p].next = c, ![n].prev = c]
  BY DEF Insert
<1> HIDE DEF e, f
<1>5. /\ f[c].prev = p /\ f[c].next = n
      /\ \A i \in ids : i # c => f[i].next = IF i = p THEN c ELSE e[i].next
      /\ \A i \in ids : i # c => f[i].prev = IF i = n THEN c ELSE e[i].prev
      /\ \A i \in ids : i # p /\ i # n /\ i # c => f[i] = e[i]
  BY <1>1, <1>2, <1>3, <1>4 DEF Lists, Node
<1>6. q \in [ids -> Nat]
  BY <1>3
<1>7. /\ q[c] = 2 * r[p] + 1
      /\ \A i \in T \cup {0} : q[i] = 2 * r[i] /\ r[i] \in Nat
  BY <1>3
<1> HIDE DEF q, T
<1>8. Ranking(ids, U, q)
  BY <1>2, <1>3, <1>6, <1>7 DEF Ranking
<1>9. TwoWay(f, U)
  <2> SUFFICES ASSUME NEW i \in U \cup {0}
               PROVE  /\ f[i].next \in U \cup {0}
                      /\ f[i].prev \in U \cup {0}
                      /\ f[f[i].next].prev = i
                      /\ f[f[i].prev].next = i
    BY DEF TwoWay
  <2>1. CASE i = c
    BY <1>2, <1>3, <1>5, <2>1
  <2>2. CASE i # c
    <3>1. i \in T \cup {0} /\ i \in ids
      BY <1>3, <2>2
    <3>2. /\ e[i].next \in T \cup {0} /\ e[e[i].next].prev = i
          /\ e[i].prev \in T \cup {0} /\ e[e[i].prev].next = i
      BY <1>1, <3>1 DEF Linked, TwoWay
    <3>3. (e[i].next = n <=> i = p) /\ (e[i].prev = p <=> i = n)
      BY <1>2, <3>2
    <3>4. QED
      BY <1>2, <1>3, <1>5, <2>2, <3>1, <3>2, <3>3
  <2>3. QED
    BY <2>1, <2>2
<1>10. \A j \in T \cup {0} :
          /\ e[j].next # 0 => r[j] < r[e[j].next]
          /\ \A k \in T : r[k] <= r[j] \/ (e[j].next # 0 /\ r[e[j].next] <= r[k])
  BY <1>1 DEF Linked, Ascending
<1>11. /\ n # 0 => r[p] < r[n]
       /\ \A k \in T : r[k] <= r[p] \/ (n # 0 /\ r[n] <= r[k])
  BY <1>2, <1>10
<1>12. Ascending(f, U, q)
  <2> SUFFICES ASSUME NEW i \in U \cup {0}
               PROVE  /\ f[i].next # 0 => q[i] < q[f[i].next]
                      /\ \A k \in U : q[k] <= q[i] \/ (f[i].next # 0 /\ q[f[i].next] <= q[k])
    BY DEF Ascending
  <2>1. CASE i = c
    BY <1>2, <1>3, <1>5, <1>7, <1>11, <2>1
  <2>2. CASE i = p
    BY <1>2, <1>3, <1>5, <1>7, <1>11, <2>2
  <2>3. CASE i # c /\ i # p
    <3>1. i \in T \cup {0} /\ i \in ids
      BY <1>3, <2>3
    <3>2. f[i].next = e[i].next /\ e[i].next \in T \cup {0}
      BY <1>1, <1>5, <2>3, <3>1 DEF Linked, TwoWay
    <3>3. e[i].next # 0 => q[i] < q[e[i].next]
      BY <1>7, <1>10, <3>1, <3>2
    <3>4. ASSUME NEW k \in T PROVE q[k] <= q[i] \/ (e[i].next # 0 /\ q[e[i].next] <= q[k])
      BY <1>7, <1>10, <3>1, <3>2
    <3>5. q[c] <= q[i] \/ (e[i].next # 0 /\ q[e[i].next] <= q[c])
      <4>1. CASE p = 0
        <5>1. i \in T /\ r[i] > 0
          BY <1>3, <2>3, <3>1, <4>1
        <5>2. QED
          BY <1>3, <1>7, <3>1, <4>1, <5>1
      <4>2. CASE p \in T
        <5>1. r[p] <= r[i] \/ (e[i].next # 0 /\ r[e[i].next] <= r[p])
          BY <1>10, <3>1, <4>2
        <5>2. r[p] # r[i]
          BY <1>3, <2>3, <3>1, <4>2
        <5>3. QED
          BY <1>7, <3>1, <3>2, <4>2, <5>1, <5>2
      <4>3. QED
        BY <1>2, <4>1, <4>2
    <3>6. QED
      BY <1>3, <3>2, <3>3, <3>4, <3>5
  <2>4. QED
    BY <2>1, <2>2, <2>3
<1>13. \A i \in ids \ (U \cup {0}) : f[i] = ZeroNode
  BY <1>1, <1>2, <1>3, <1>5 DEF Linked
<1>14. Monotone(y, U, q)
  <2> SUFFICES ASSUME NEW i \in U, NEW j \in U, q[i] < q[j] PROVE y[i] <= y[j]
    BY DEF Monotone
  <2>1. /\ y[c] = x /\ \A k \in T : y[k] = w[k] /\ w[k] \in Nat
        /\ \A k, m \in T : r[k] < r[m] => w[k] <= w[m]
    BY <1>3 DEF Monotone
  <2>2. CASE i = c /\ j = c
    BY <2>1, <2>2
  <2>3. CASE i \in T /\ j \in T
    BY <1>7, <2>1, <2>3
  <2>4. CASE i \in T /\ j = c
    <3>1. r[i] <= r[p]
      BY <1>2, <1>7, <2>4
    <3>2. p \in T
      BY <1>2, <1>3, <2>4, <3>1
    <3>3. w[i] <= w[p]
      BY <1>3, <1>7, <2>1, <2>4, <3>1, <3>2
    <3>4. QED
      BY <1>3, <2>1, <2>4, <3>2, <3>3
  <2>5. CASE i = c /\ j \in T
    <3>1. r[p] < r[j]
      BY <1>2, <1>7, <2>5
    <3>2. n \in T /\ r[n] <= r[j]
      BY <1>2, <1>7, <1>11, <2>5, <3>1
    <3>3. w[n] <= w[j]
      BY <1>3, <1>7, <2>1, <2>5, <3>2
    <3>4. QED
      BY <1>3, <2>1, <2>5, <3>2, <3>3
  <2>6. QED
    BY <1>3, <2>2, <2>3, <2>4, <2>5
<1>15. QED
  BY <1>6, <1>8, <1>9, <1>12, <1>13, <1>14 DEF Linked, T, f

------------------------------------------------------------------------------------
(* Type correctness. *)

LEMMA TypeInit == Init => TypeOK
  BY MaxTimeAssumption, MaxPollsAssumption, SupplyAssumption
  DEF Init, TypeOK, Poll, NoPoll, Polls, Nodes, EmptyList, Lists, ZeroNode, Node

LEMMA TypeNext == TypeOK /\ [Next]_vars => TypeOK'
<1> SUFFICES ASSUME TypeOK, [Next]_vars PROVE TypeOK'
  OBVIOUS
<1> USE MaxTimeAssumption, MaxPollsAssumption, SupplyAssumption
<1>n. /\ 0 \in Nodes
      /\ Polls \subseteq Nodes
  BY DEF Nodes, Polls
<1>1. CASE Tick
  BY <1>1 DEF TypeOK, Tick, pollVars, voteVars, fundVars
<1>2. ASSUME NEW quorum \in Quorums, NEW d \in Durations, StartPoll(quorum, d[1], d[2])
      PROVE  TypeOK'
  <2>1. quorum \in Nat /\ d[1] \in Nat /\ d[2] \in Nat
    BY QuorumsAssumption, DurationsAssumption
  <2>2. pollNonce + 1 \in Polls /\ pollNonce + 1 \in Nodes
    BY <1>2 DEF StartPoll, TypeOK, Polls, Nodes
  <2>3. pollMap' \in [Polls -> Poll]
    BY <1>2, <2>1, <2>2 DEF StartPoll, TypeOK, Poll
  <2>4. QED
    BY <1>2, <2>2, <2>3 DEF StartPoll, TypeOK, voteVars, fundVars
<1>3. ASSUME NEW v \in Voters, NEW n \in Amounts(v), RequestVotingRights(v, n)
      PROVE  TypeOK'
  <2>1. n \in Nat
    BY DEF Amounts
  <2>2. QED
    BY <1>3, <2>1 DEF RequestVotingRights, TypeOK, pollVars, voteVars
<1>4. ASSUME NEW v \in Voters, NEW n \in Amounts(v), WithdrawVotingRights(v, n)
      PROVE  TypeOK'
  <2>1. n \in Nat /\ GetLockedTokens(v) \in Nat
    BY <1>n DEF Amounts, TypeOK, GetLockedTokens, GetLastNode, Lists
  <2>2. voteTokenBalance[v] - n \in Nat /\ held - n \in Nat
    BY <1>4, <2>1 DEF WithdrawVotingRights, Available, TypeOK
  <2>3. QED
    BY <1>4, <2>1, <2>2 DEF WithdrawVotingRights, TypeOK, pollVars, voteVars
<1>5. ASSUME NEW v \in Voters, NEW p \in Polls, RescueTokens(v, p)
      PROVE  TypeOK'
  <2>1. Remove(dllMap[v], p) \in Lists(Nodes)
    BY <1>n, RemoveType DEF TypeOK
  <2>2. QED
    BY <1>5, <2>1 DEF RescueTokens, TypeOK, pollVars, fundVars
<1>6. ASSUME NEW v \in Voters, NEW p \in Polls, NEW hash \in Options, NEW n \in Amounts(v),
             NEW prev \in Nodes, CommitVote(v, p, hash, n, prev)
      PROVE  TypeOK'
  <2> DEFINE short == voteTokenBalance[v] < n
             remainder == IF short THEN n - voteTokenBalance[v] ELSE 0
  <2>1. n \in Nat
    BY DEF Amounts
  <2>2. NextFor(v, prev, p) \in Nodes
    BY <1>n DEF NextFor, TypeOK, Lists
  <2>3. Insert(dllMap[v], prev, p, NextFor(v, prev, p)) \in Lists(Nodes)
    BY <1>n, <2>2, InsertType DEF TypeOK
  <2>4. remainder \in Nat /\ balanceOf[v] - remainder \in Nat
    BY <1>6, <2>1 DEF CommitVote, TypeOK
  <2>5. /\ dllMap' \in [Voters -> Lists(Nodes)]
        /\ numTokens' \in [Voters -> [Nodes -> Nat]]
        /\ commitHash' \in [Voters -> [Nodes -> Options \cup {NoHash}]]
        /\ didCommit' \in [Polls -> SUBSET Voters]
    BY <1>6, <1>n, <2>1, <2>3 DEF CommitVote, TypeOK
  <2>6. /\ voteTokenBalance' = [voteTokenBalance EXCEPT ![v] = @ + remainder]
        /\ balanceOf' = [balanceOf EXCEPT ![v] = @ - remainder]
        /\ held' = held + remainder
        /\ unlockedList' \subseteq Voters
    BY <1>6 DEF CommitVote, TypeOK
  <2>7. /\ voteTokenBalance' \in [Voters -> Nat]
        /\ balanceOf' \in [Voters -> Nat]
        /\ held' \in Nat
    BY <2>4, <2>6 DEF TypeOK
  <2>8. UNCHANGED <<now, pollNonce, pollMap, didReveal>>
    BY <1>6 DEF CommitVote, pollVars
  <2>9. QED
    BY <2>5, <2>6, <2>7, <2>8 DEF TypeOK
<1>7. ASSUME NEW v \in Voters, NEW p \in Polls, NEW option \in Options, RevealVote(v, p, option)
      PROVE  TypeOK'
  <2>1. Remove(dllMap[v], p) \in Lists(Nodes)
    BY <1>n, RemoveType DEF TypeOK
  <2>2. numTokens[v][p] \in Nat /\ pollMap \in [Polls -> Poll]
    BY <1>n DEF TypeOK
  <2>3. /\ [pollMap EXCEPT ![p].votesFor = @ + numTokens[v][p]] \in [Polls -> Poll]
        /\ [pollMap EXCEPT ![p].votesAgainst = @ + numTokens[v][p]] \in [Polls -> Poll]
    BY <2>2 DEF Poll
  <2>4. pollMap' \in [Polls -> Poll]
    BY <1>7, <2>3 DEF RevealVote
  <2>5. QED
    BY <1>7, <2>1, <2>4 DEF RevealVote, TypeOK, fundVars
<1>8. CASE UNCHANGED vars
  BY <1>8 DEF TypeOK, vars, pollVars, voteVars, fundVars
<1>9. QED
  BY <1>1, <1>2, <1>3, <1>4, <1>5, <1>6, <1>7, <1>8 DEF Next

(* Every reachable state is well typed: in particular no balance, no lock *)
(* and no link ever leaves its range.                                     *)
THEOREM TypeCorrect == Spec => []TypeOK
<1>1. Init => TypeOK
  BY TypeInit
<1>2. TypeOK /\ [Next]_vars => TypeOK'
  BY TypeNext
<1>3. QED
  BY <1>1, <1>2, PTL DEF Spec
------------------------------------------------------------------------------------
(* The lists of votes, in terms of the lemmas on lists. *)

Members(d) == {p \in Polls : Contains(d, p)}

(* d links its members, in the order of their weights w. *)
WellFormed(d, w) ==
    \E r \in [Nodes -> Nat] : Linked(d, Nodes, Members(d), r) /\ Monotone(w, Members(d), r)

LEMMA NodesAndPolls == 0 \in Nodes /\ Polls = Nodes \ {0}
  BY MaxPollsAssumption DEF Nodes, Polls

(* The nodes that are linked are those that contains() answers for. *)
LEMMA LinkedMembers ==
    ASSUME NEW d \in Lists(Nodes), NEW S, NEW r, Linked(d, Nodes, S, r)
    PROVE  Members(d) = S
<1>1. S \subseteq Polls
  BY NodesAndPolls DEF Linked, Ranking
<1>2. \A p \in Polls : Contains(d, p) <=> p \in S
  BY NodesAndPolls, ContainsMember
<1>3. QED
  BY <1>1, <1>2 DEF Members

(* A fresh list is well formed. *)
LEMMA WellFormedEmpty ==
    ASSUME NEW w \in [Nodes -> Nat]
    PROVE  WellFormed(EmptyList(Nodes), w) /\ Members(EmptyList(Nodes)) = {}
<1>1. Linked(EmptyList(Nodes), Nodes, {}, [i \in Nodes |-> 0])
  BY NodesAndPolls, EmptyLinked
<1>2. EmptyList(Nodes) \in Lists(Nodes)
  BY NodesAndPolls DEF EmptyList, Lists, ZeroNode, Node
<1>3. Members(EmptyList(Nodes)) = {}
  BY <1>1, <1>2, LinkedMembers
<1>4. QED
  BY <1>1, <1>3 DEF WellFormed, Monotone

(* remove() keeps a list well formed, and without that node. *)
LEMMA WellFormedRemove ==
    ASSUME NEW d \in Lists(Nodes), NEW w \in [Nodes -> Nat], WellFormed(d, w), NEW p \in Polls
    PROVE  WellFormed(Remove(d, p), w) /\ Members(Remove(d, p)) = Members(d) \ {p}
<1>1. PICK r \in [Nodes -> Nat] :
          Linked(d, Nodes, Members(d), r) /\ Monotone(w, Members(d), r)
  BY DEF WellFormed
<1>2. Linked(Remove(d, p), Nodes, Members(d) \ {p}, r)
  BY <1>1, NodesAndPolls, RemoveLinked
<1>3. Remove(d, p) \in Lists(Nodes)
  BY NodesAndPolls, RemoveType
<1>4. Members(Remove(d, p)) = Members(d) \ {p}
  BY <1>2, <1>3, LinkedMembers
<1>5. QED
  BY <1>1, <1>2, <1>4 DEF WellFormed, Monotone

(* insert() at a position validPosition() accepts keeps a list well formed, *)
(* and with that node.                                                      *)
LEMMA WellFormedInsert ==
    ASSUME NEW d \in Lists(Nodes), NEW w \in [Nodes -> Nat], WellFormed(d, w),
           NEW p \in Polls, NEW prev \in Nodes, NEW next \in Nodes, NEW n \in Nat,
           CanInsert(d, prev, p, next), w[prev] <= n, n <= w[next] \/ next = 0
    PROVE  /\ WellFormed(Insert(d, prev, p, next), [w EXCEPT ![p] = n])
           /\ Members(Insert(d, prev, p, next)) = Members(d) \cup {p}
<1>1. PICK r \in [Nodes -> Nat] :
          Linked(d, Nodes, Members(d), r) /\ Monotone(w, Members(d), r)
  BY DEF WellFormed
<1>2. PICK q \in [Nodes -> Nat] :
          /\ Linked(Insert(d, prev, p, next), Nodes, Members(d) \cup {p}, q)
          /\ Monotone([w EXCEPT ![p] = n], Members(d) \cup {p}, q)
  BY <1>1, NodesAndPolls, InsertLinked
<1>3. Insert(d, prev, p, next) \in Lists(Nodes)
  BY NodesAndPolls, InsertType
<1>4. Members(Insert(d, prev, p, next)) = Members(d) \cup {p}
  BY <1>2, <1>3, LinkedMembers
<1>5. QED
  BY <1>2, <1>4 DEF WellFormed

(* In a well formed list no member weighs more than the last node. *)
LEMMA WellFormedLast ==
    ASSUME NEW d \in Lists(Nodes), NEW w \in [Nodes -> Nat], WellFormed(d, w), NEW p \in Members(d)
    PROVE  w[p] <= w[d[0].prev]
  BY NodesAndPolls, LastIsHeaviest DEF WellFormed

------------------------------------------------------------------------------------
(* The inductive invariant.  A withdrawal looks only at the last node of    *)
(* the list, so that it leaves every lock covered rests on the order of the *)
(* list; that a vote keeps its lock until it is revealed rests on the dates *)
(* of its poll.                                                             *)

ListsWellFormed == \A v \in Voters : WellFormed(dllMap[v], numTokens[v])

PollsInOrder ==
    \A p \in Polls :
        /\ pollMap[p].commitEndDate <= pollMap[p].revealEndDate
        /\ didReveal[p] \subseteq didCommit[p]
        /\ didCommit[p] # {} => PollExists(p)
        /\ didReveal[p] # {} => ~CommitPeriodActive(p)

VotingInv ==
    /\ TypeOK
    /\ ListsWellFormed
    /\ PollsInOrder
    /\ LocksCovered
    /\ LocksAreUnrevealedVotes

LEMMA VotingInit == Init => VotingInv
<1> SUFFICES ASSUME Init PROVE VotingInv
  OBVIOUS
<1>1. TypeOK
  BY TypeInit
<1>2. \A v \in Voters : /\ WellFormed(dllMap[v], numTokens[v])
                        /\ LockedPolls(v) = {}
  BY <1>1, WellFormedEmpty DEF Init, LockedPolls, Members, TypeOK
<1>3. PollsInOrder
  BY DEF Init, PollsInOrder, NoPoll
<1>4. \A p \in Polls : didCommit[p] = {}
  BY DEF Init
<1>5. QED
  BY <1>1, <1>2, <1>3, <1>4 DEF VotingInv, ListsWellFormed, LocksCovered, LocksAreUnrevealedVotes
LEMMA VotingNext == VotingInv /\ [Next]_vars => VotingInv'
<1> SUFFICES ASSUME VotingInv, [Next]_vars PROVE VotingInv'
  OBVIOUS
<1> USE NodesAndPolls
<1>t. TypeOK /\ TypeOK'
  BY TypeNext DEF VotingInv
<1>d. /\ dllMap \in [Voters -> Lists(Nodes)] /\ numTokens \in [Voters -> [Nodes -> Nat]]
      /\ voteTokenBalance \in [Voters -> Nat]
      /\ didCommit \in [Polls -> SUBSET Voters] /\ didReveal \in [Polls -> SUBSET Voters]
  BY <1>t DEF TypeOK
<1>m. \A v \in Voters : LockedPolls(v) = Members(dllMap[v])
  BY DEF LockedPolls, Members
<1>p. /\ pollMap \in [Polls -> Poll] /\ now \in Nat /\ pollNonce \in Nat
      /\ \A p \in Polls : /\ pollMap[p].commitEndDate \in Nat
                          /\ pollMap[p].revealEndDate \in Nat
  BY <1>t, MaxTimeAssumption, MaxPollsAssumption DEF TypeOK, Poll, Nodes
<1>1. CASE Tick
  <2>1. UNCHANGED <<pollNonce, pollMap, didCommit, didReveal, dllMap, numTokens, voteTokenBalance>>
    BY <1>1 DEF Tick, pollVars, voteVars, fundVars
  <2>2. ListsWellFormed' /\ \A v \in Voters : LockedPolls(v)' = LockedPolls(v)
    BY <2>1 DEF VotingInv, ListsWellFormed, LockedPolls
  <2>3. LocksCovered'
    BY <2>1, <2>2 DEF VotingInv, LocksCovered
  <2>4. \A p \in Polls : /\ (PollExists(p)' <=> PollExists(p))
                        /\ (PollEnded(p) => PollEnded(p)')
                        /\ (CommitPeriodActive(p)' => CommitPeriodActive(p))
    BY <1>1, <1>p, <2>1 DEF Tick, PollExists, PollEnded, CommitPeriodActive, IsExpired
  <2>5. PollsInOrder'
    BY <2>1, <2>4 DEF VotingInv, PollsInOrder
  <2>6. LocksAreUnrevealedVotes'
    BY <2>1, <2>2, <2>4 DEF VotingInv, LocksAreUnrevealedVotes
  <2>7. QED
    BY <1>t, <2>2, <2>3, <2>5, <2>6 DEF VotingInv
<1>2. ASSUME NEW quorum \in Quorums, NEW d \in Durations, StartPoll(quorum, d[1], d[2])
      PROVE  VotingInv'
  <2> DEFINE new == pollNonce + 1
  <2>1. UNCHANGED <<now, didCommit, didReveal, dllMap, numTokens, voteTokenBalance>>
    BY <1>2 DEF StartPoll, voteVars, fundVars
  <2>2. ListsWellFormed' /\ \A v \in Voters : LockedPolls(v)' = LockedPolls(v)
    BY <2>1 DEF VotingInv, ListsWellFormed, LockedPolls
  <2>3. LocksCovered'
    BY <2>1, <2>2 DEF VotingInv, LocksCovered
  <2>4. d[1] \in Nat /\ d[2] \in Nat
    BY DurationsAssumption
  <2>5. /\ new \in Polls /\ pollNonce' = new
        /\ pollMap'[new].commitEndDate = now + d[1]
        /\ pollMap'[new].revealEndDate = now + d[1] + d[2]
        /\ \A p \in Polls : p # new => pollMap'[p] = pollMap[p]
    BY <1>2, <1>p, <1>t DEF StartPoll, TypeOK, Nodes, Polls
  <2>6. \A p \in Polls : p # new => /\ (PollExists(p)' <=> PollExists(p))
                                   /\ (PollEnded(p)' <=> PollEnded(p))
                                   /\ (CommitPeriodActive(p)' <=> CommitPeriodActive(p))
    BY <1>p, <2>1, <2>5 DEF PollExists, PollEnded, CommitPeriodActive, IsExpired, Polls
  <2>7. ~PollExists(new) /\ didCommit[new] = {} /\ didReveal[new] = {}
    BY <1>p, <2>5 DEF VotingInv, PollsInOrder, PollExists
  <2>8. PollsInOrder'
    BY <1>p, <2>1, <2>4, <2>5, <2>6, <2>7 DEF VotingInv, PollsInOrder
  <2>9. LocksAreUnrevealedVotes'
    BY <2>1, <2>2, <2>6, <2>7 DEF VotingInv, LocksAreUnrevealedVotes
  <2>10. QED
    BY <1>t, <2>2, <2>3, <2>8, <2>9 DEF VotingInv
<1>3. ASSUME NEW v \in Voters, NEW n \in Amounts(v),
             RequestVotingRights(v, n) \/ WithdrawVotingRights(v, n)
      PROVE  VotingInv'
  <2>1. UNCHANGED <<now, pollNonce, pollMap, didCommit, didReveal, dllMap, numTokens>>
    BY <1>3 DEF RequestVotingRights, WithdrawVotingRights, pollVars, voteVars
  <2>2. ListsWellFormed' /\ \A u \in Voters : LockedPolls(u)' = LockedPolls(u)
    BY <2>1 DEF VotingInv, ListsWellFormed, LockedPolls
  <2>3. n \in Nat
    BY DEF Amounts
  <2>4. LocksCovered'
    <3> SUFFICES ASSUME NEW u \in Voters, NEW p \in LockedPolls(u)
                 PROVE  numTokens[u][p] <= voteTokenBalance'[u]
      BY <2>1, <2>2 DEF LocksCovered
    <3>1. numTokens[u][p] <= voteTokenBalance[u] /\ numTokens[u][p] \in Nat
      BY <1>d DEF VotingInv, LocksCovered, LockedPolls
    <3>2. CASE RequestVotingRights(v, n)
      BY <3>1, <3>2, <2>3, <1>d DEF RequestVotingRights
    <3>3. CASE WithdrawVotingRights(v, n)
      <4>1. numTokens[u][p] <= GetLockedTokens(u)
        BY <1>d, <1>m, WellFormedLast DEF VotingInv, ListsWellFormed, GetLockedTokens, GetLastNode
      <4>2. GetLockedTokens(u) \in Nat
        BY <1>d DEF GetLockedTokens, GetLastNode, Lists
      <4>3. CASE u = v
        BY <3>1, <3>3, <4>1, <4>2, <4>3, <2>3, <1>d DEF WithdrawVotingRights, Available
      <4>4. CASE u # v
        BY <3>1, <3>3, <4>4, <1>d DEF WithdrawVotingRights
      <4>5. QED
        BY <4>3, <4>4
    <3>4. QED
      BY <1>3, <3>2, <3>3
  <2>5. PollsInOrder'
    BY <2>1 DEF VotingInv, PollsInOrder, PollExists, CommitPeriodActive, IsExpired
  <2>6. LocksAreUnrevealedVotes'
    BY <2>1, <2>2 DEF VotingInv, LocksAreUnrevealedVotes, PollEnded, PollExists, IsExpired
  <2>7. QED
    BY <1>t, <2>2, <2>4, <2>5, <2>6 DEF VotingInv
<1>4. ASSUME NEW v \in Voters, NEW p \in Polls, RescueTokens(v, p)
      PROVE  VotingInv'
  <2>1. /\ UNCHANGED <<now, pollNonce, pollMap, didCommit, didReveal, numTokens, voteTokenBalance>>
        /\ dllMap' = [dllMap EXCEPT ![v] = Remove(@, p)]
    BY <1>4 DEF RescueTokens, pollVars, fundVars
  <2>2. /\ \A u \in Voters : u # v => dllMap'[u] = dllMap[u]
        /\ dllMap'[v] = Remove(dllMap[v], p)
    BY <1>d, <2>1
  <2>3. /\ ListsWellFormed'
        /\ LockedPolls(v)' = LockedPolls(v) \ {p}
        /\ \A u \in Voters : u # v => LockedPolls(u)' = LockedPolls(u)
    BY <1>d, <1>m, <2>1, <2>2, WellFormedRemove DEF VotingInv, ListsWellFormed, LockedPolls, Members
  <2>4. LocksCovered'
    BY <2>1, <2>3 DEF VotingInv, LocksCovered
  <2>5. PollsInOrder'
    BY <2>1 DEF VotingInv, PollsInOrder, PollExists, CommitPeriodActive, IsExpired
  <2>6. PollEnded(p)'
    <3>1. p \in LockedPolls(v) /\ IsExpired(pollMap[p].revealEndDate)
      BY <1>4 DEF RescueTokens, LockedPolls
    <3>2. PollExists(p)
      BY <3>1 DEF VotingInv, LocksAreUnrevealedVotes, PollsInOrder
    <3>3. QED
      BY <2>1, <3>1, <3>2 DEF PollEnded, PollExists, IsExpired
  <2>7. LocksAreUnrevealedVotes'
    BY <2>1, <2>3, <2>6
    DEF VotingInv, LocksAreUnrevealedVotes, PollEnded, PollExists, IsExpired
  <2>8. QED
    BY <1>t, <2>3, <2>4, <2>5, <2>7 DEF VotingInv
<1>5. ASSUME NEW v \in Voters, NEW p \in Polls, NEW hash \in Options, NEW n \in Amounts(v),
             NEW prev \in Nodes, CommitVote(v, p, hash, n, prev)
      PROVE  VotingInv'
  <2> DEFINE next == NextFor(v, prev, p)
             remainder == IF voteTokenBalance[v] < n THEN n - voteTokenBalance[v] ELSE 0
  <2>1. /\ UNCHANGED <<now, pollNonce, pollMap, didReveal>>
        /\ CommitPeriodActive(p)
        /\ ValidPosition(v, prev, next, n)
        /\ CanInsert(dllMap[v], prev, p, next)
        /\ dllMap' = [dllMap EXCEPT ![v] = Insert(@, prev, p, next)]
        /\ numTokens' = [numTokens EXCEPT ![v][p] = n]
        /\ didCommit' = [didCommit EXCEPT ![p] = @ \cup {v}]
        /\ voteTokenBalance' = [voteTokenBalance EXCEPT ![v] = @ + remainder]
    BY <1>5 DEF CommitVote, pollVars
  <2>2. n \in Nat /\ next \in Nodes
    BY <1>d DEF Amounts, NextFor, Lists
  <2>3. /\ \A u \in Voters : u # v => /\ dllMap'[u] = dllMap[u]
                                      /\ numTokens'[u] = numTokens[u]
                                      /\ voteTokenBalance'[u] = voteTokenBalance[u]
        /\ dllMap'[v] = Insert(dllMap[v], prev, p, next)
        /\ numTokens'[v] = [numTokens[v] EXCEPT ![p] = n]
        /\ voteTokenBalance'[v] = voteTokenBalance[v] + remainder
    BY <1>d, <2>1
  <2>4. numTokens[v][prev] <= n /\ (n <= numTokens[v][next] \/ next = 0)
    BY <1>d, <2>1, <2>2 DEF ValidPosition
  <2>5. /\ ListsWellFormed'
        /\ LockedPolls(v)' = LockedPolls(v) \cup {p}
        /\ \A u \in Voters : u # v => LockedPolls(u)' = LockedPolls(u)
    <3>1. /\ WellFormed(Insert(dllMap[v], prev, p, next), [numTokens[v] EXCEPT ![p] = n])
          /\ Members(Insert(dllMap[v], prev, p, next)) = Members(dllMap[v]) \cup {p}
      <4>1. /\ dllMap[v] \in Lists(Nodes) /\ numTokens[v] \in [Nodes -> Nat]
            /\ WellFormed(dllMap[v], numTokens[v])
        BY <1>d DEF VotingInv, ListsWellFormed
      <4>2. CanInsert(dllMap[v], prev, p, next)
        BY <2>1
      <4> HIDE DEF next
      <4>3. QED
        BY <2>2, <2>4, <4>1, <4>2, WellFormedInsert
    <3>2. QED
      BY <1>m, <2>3, <3>1 DEF VotingInv, ListsWellFormed, LockedPolls, Members
  <2>6. LocksCovered'
    <3>1. /\ n <= voteTokenBalance[v] + remainder
          /\ remainder \in Nat
      BY <1>d, <2>2
    <3>2. ASSUME NEW u \in Voters, NEW q \in LockedPolls(u)'
          PROVE  numTokens'[u][q] <= voteTokenBalance'[u]
      <4>1. CASE u # v
        BY <2>3, <2>5, <4>1 DEF VotingInv, LocksCovered
      <4>2. CASE u = v /\ q = p
        BY <1>d, <2>3, <3>1, <4>2
      <4>3. CASE u = v /\ q # p
        <5>1. q \in LockedPolls(v) /\ q \in Nodes
          BY <2>5, <4>3 DEF LockedPolls
        <5>2. numTokens[v][q] <= voteTokenBalance[v]
          BY <5>1 DEF VotingInv, LocksCovered
        <5>3. numTokens'[v][q] = numTokens[v][q]
          BY <1>d, <2>3, <4>3, <5>1
        <5>4. QED
          <6> HIDE DEF remainder
          <6>1. QED
            BY <1>d, <2>3, <3>1, <4>3, <5>1, <5>2, <5>3
      <4>4. QED
        BY <4>1, <4>2, <4>3
    <3>3. QED
      BY <3>2 DEF LocksCovered
  <2>7. /\ v \notin didReveal[p] /\ PollExists(p)
        /\ \A q \in Polls : didCommit'[q] = IF q = p THEN didCommit[p] \cup {v} ELSE didCommit[q]
    BY <1>d, <2>1 DEF VotingInv, PollsInOrder, CommitPeriodActive
  <2>8. PollsInOrder'
    BY <2>1, <2>7 DEF VotingInv, PollsInOrder, PollExists, CommitPeriodActive, IsExpired
  <2>9. LocksAreUnrevealedVotes'
    BY <2>1, <2>5, <2>7
    DEF VotingInv, LocksAreUnrevealedVotes, PollEnded, PollExists, IsExpired
  <2>10. QED
    BY <1>t, <2>5, <2>6, <2>8, <2>9 DEF VotingInv
<1>6. ASSUME NEW v \in Voters, NEW p \in Polls, NEW option \in Options, RevealVote(v, p, option)
      PROVE  VotingInv'
  <2>1. /\ UNCHANGED <<now, pollNonce, didCommit, numTokens, voteTokenBalance>>
        /\ RevealPeriodActive(p) /\ v \in didCommit[p]
        /\ dllMap' = [dllMap EXCEPT ![v] = Remove(@, p)]
        /\ didReveal' = [didReveal EXCEPT ![p] = @ \cup {v}]
    BY <1>6 DEF RevealVote, fundVars
  <2>2. /\ \A u \in Voters : u # v => dllMap'[u] = dllMap[u]
        /\ dllMap'[v] = Remove(dllMap[v], p)
    BY <1>d, <2>1
  <2>3. /\ ListsWellFormed'
        /\ LockedPolls(v)' = LockedPolls(v) \ {p}
        /\ \A u \in Voters : u # v => LockedPolls(u)' = LockedPolls(u)
    BY <1>d, <1>m, <2>1, <2>2, WellFormedRemove DEF VotingInv, ListsWellFormed, LockedPolls, Members
  <2>4. LocksCovered'
    BY <2>1, <2>3 DEF VotingInv, LocksCovered
  <2>5. \A q \in Polls : /\ pollMap'[q].commitEndDate = pollMap[q].commitEndDate
                        /\ pollMap'[q].revealEndDate = pollMap[q].revealEndDate
    BY <1>6, <1>p DEF RevealVote, Poll
  <2>6. \A q \in Polls : /\ (PollExists(q)' <=> PollExists(q))
                        /\ (PollEnded(q)' <=> PollEnded(q))
                        /\ (CommitPeriodActive(q)' <=> CommitPeriodActive(q))
    BY <2>1, <2>5 DEF PollExists, PollEnded, CommitPeriodActive, IsExpired
  <2>7. \A q \in Polls : didReveal'[q] = IF q = p THEN didReveal[p] \cup {v} ELSE didReveal[q]
    BY <1>d, <2>1
  <2>8. PollsInOrder'
    BY <2>1, <2>5, <2>6, <2>7 DEF VotingInv, PollsInOrder, RevealPeriodActive
  <2>9. LocksAreUnrevealedVotes'
    BY <2>1, <2>3, <2>6, <2>7 DEF VotingInv, LocksAreUnrevealedVotes
  <2>10. QED
    BY <1>t, <2>3, <2>4, <2>8, <2>9 DEF VotingInv
<1>7. CASE UNCHANGED vars
  <2>1. UNCHANGED <<now, pollNonce, pollMap, didCommit, didReveal, dllMap, numTokens, voteTokenBalance>>
    BY <1>7 DEF vars, pollVars, voteVars, fundVars
  <2>2. ListsWellFormed' /\ \A v \in Voters : LockedPolls(v)' = LockedPolls(v)
    BY <2>1 DEF VotingInv, ListsWellFormed, LockedPolls
  <2>3. LocksCovered' /\ PollsInOrder' /\ LocksAreUnrevealedVotes'
    BY <2>1, <2>2 DEF VotingInv, LocksCovered, PollsInOrder, LocksAreUnrevealedVotes,
                      PollExists, PollEnded, CommitPeriodActive, IsExpired
  <2>4. QED
    BY <1>t, <2>2, <2>3 DEF VotingInv
<1>8. QED
  BY <1>1, <1>2, <1>3, <1>4, <1>5, <1>6, <1>7 DEF Next

LEMMA VotingInvariant == Spec => []VotingInv
<1>1. QED
  BY VotingInit, VotingNext, PTL DEF Spec

(* Every lock is backed by voting rights, whatever the voters do and however *)
(* many polls there are: the one comparison with the last node of the list  *)
(* that withdrawVotingRights makes is enough.                                *)
THEOREM LocksAlwaysCovered == Spec => []LocksCovered
<1>1. VotingInv => LocksCovered
  BY DEF VotingInv
<1>2. QED
  BY <1>1, VotingInvariant, PTL

(* A vote keeps its lock until it is revealed or its poll ends, and no longer *)
(* than until it is revealed.                                                 *)
THEOREM UnrevealedVotesLocked == Spec => []LocksAreUnrevealedVotes
<1>1. VotingInv => LocksAreUnrevealedVotes
  BY DEF VotingInv
<1>2. QED
  BY <1>1, VotingInvariant, PTL
------------------------------------------------------------------------------------
(* The outcome of a poll. *)

(* What is settled once poll p has ended. *)
Settled(p) ==
    /\ pollMap'[p] = pollMap[p]
    /\ didReveal'[p] = didReveal[p]
    /\ \A v \in didReveal[p] : /\ numTokens'[v][p] = numTokens[v][p]
                               /\ commitHash'[v][p] = commitHash[v][p]

LEMMA SettledNext ==
    ASSUME VotingInv, [Next]_vars, NEW p \in Polls, PollEnded(p)
    PROVE  Settled(p)
<1>d. /\ pollMap \in [Polls -> Poll] /\ didReveal \in [Polls -> SUBSET Voters]
      /\ numTokens \in [Voters -> [Nodes -> Nat]]
      /\ commitHash \in [Voters -> [Nodes -> Options \cup {NoHash}]]
      /\ now \in Nat /\ pollNonce \in Nat /\ p \in Nodes
      /\ pollMap[p].commitEndDate \in Nat /\ pollMap[p].revealEndDate \in Nat
  BY NodesAndPolls, MaxTimeAssumption, MaxPollsAssumption DEF VotingInv, TypeOK, Poll, Nodes
<1>1. pollMap[p].commitEndDate <= pollMap[p].revealEndDate
  BY DEF VotingInv, PollsInOrder
<1>2. ~CommitPeriodActive(p) /\ ~RevealPeriodActive(p) /\ p # pollNonce + 1
  BY <1>d, <1>1 DEF PollEnded, CommitPeriodActive, RevealPeriodActive, PollExists, IsExpired
<1>3. CASE UNCHANGED <<pollMap, didReveal, numTokens, commitHash>>
  BY <1>3 DEF Settled
<1>4. ASSUME NEW quorum \in Quorums, NEW d \in Durations, StartPoll(quorum, d[1], d[2])
      PROVE  Settled(p)
  BY <1>d, <1>2, <1>4 DEF StartPoll, voteVars, Settled
<1>5. ASSUME NEW v \in Voters, NEW q \in Polls, NEW hash \in Options, NEW n \in Amounts(v),
             NEW prev \in Nodes, CommitVote(v, q, hash, n, prev)
      PROVE  Settled(p)
  <2>1. q # p /\ q \in Nodes
    BY <1>2, <1>5, NodesAndPolls DEF CommitVote
  <2>2. /\ UNCHANGED <<pollMap, didReveal>>
        /\ numTokens' = [numTokens EXCEPT ![v][q] = n]
        /\ commitHash' = [commitHash EXCEPT ![v][q] = hash]
    BY <1>5 DEF CommitVote, pollVars
  <2>3. \A u \in Voters : numTokens'[u][p] = numTokens[u][p] /\ commitHash'[u][p] = commitHash[u][p]
    BY <1>d, <2>1, <2>2
  <2>4. QED
    BY <1>d, <2>2, <2>3 DEF Settled
<1>6. ASSUME NEW v \in Voters, NEW q \in Polls, NEW option \in Options, RevealVote(v, q, option)
      PROVE  Settled(p)
  <2>1. q # p
    BY <1>2, <1>6 DEF RevealVote
  <2>2. QED
    BY <1>d, <1>6, <2>1 DEF RevealVote, Settled
<1>7. CASE Tick
  BY <1>3, <1>7 DEF Tick, pollVars, voteVars
<1>8. ASSUME NEW v \in Voters, NEW n \in Amounts(v),
             RequestVotingRights(v, n) \/ WithdrawVotingRights(v, n)
      PROVE  Settled(p)
  BY <1>3, <1>8 DEF RequestVotingRights, WithdrawVotingRights, pollVars, voteVars
<1>9. ASSUME NEW v \in Voters, NEW q \in Polls, RescueTokens(v, q)
      PROVE  Settled(p)
  BY <1>3, <1>9 DEF RescueTokens, pollVars
<1>10. CASE UNCHANGED vars
  BY <1>3, <1>10 DEF vars, pollVars, voteVars
<1>11. QED
  BY <1>4, <1>5, <1>6, <1>7, <1>8, <1>9, <1>10 DEF Next

(* No step of anybody changes the outcome of a poll that has ended, or what *)
(* its voters can claim for it.                                             *)
THEOREM OutcomesAreFinal == Spec => OutcomeFinal
<1>1. VotingInv /\ [Next]_vars => [\A p \in Polls : PollEnded(p) =>
          /\ pollMap'[p] = pollMap[p]
          /\ didReveal'[p] = didReveal[p]
          /\ \A v \in didReveal[p] : /\ numTokens'[v][p] = numTokens[v][p]
                                     /\ commitHash'[v][p] = commitHash[v][p]]_vars
  BY SettledNext DEF Settled
<1>2. QED
  BY <1>1, VotingInvariant, PTL DEF Spec, OutcomeFinal
------------------------------------------------------------------------------------
(* The lists implement locks that are plain sets.  What a step does to the *)
(* locks of the voter that takes it:                                       *)

LockSet(v) == {<<p, numTokens[v][p]>> : p \in LockedPolls(v)}

LockMap == [v \in Voters |-> LockSet(v)]

LEMMA LocksKept ==
    ASSUME UNCHANGED <<dllMap, numTokens>>
    PROVE  LockMap' = LockMap
  BY DEF LockMap, LockSet, LockedPolls

LEMMA LocksLessOne ==
    ASSUME VotingInv, NEW v \in Voters, NEW p \in Polls,
           dllMap' = [dllMap EXCEPT ![v] = Remove(@, p)], UNCHANGED numTokens
    PROVE  LockMap' = [LockMap EXCEPT ![v] = {l \in LockSet(v) : l[1] # p}]
<1>d. /\ dllMap \in [Voters -> Lists(Nodes)]
      /\ \A u \in Voters : /\ dllMap[u] \in Lists(Nodes)
                           /\ numTokens[u] \in [Nodes -> Nat]
                           /\ WellFormed(dllMap[u], numTokens[u])
  BY DEF VotingInv, TypeOK, ListsWellFormed
<1>1. \A u \in Voters : dllMap'[u] = IF u = v THEN Remove(dllMap[v], p) ELSE dllMap[u]
  BY <1>d
<1>2. /\ LockedPolls(v)' = LockedPolls(v) \ {p}
      /\ \A u \in Voters : u # v => LockedPolls(u)' = LockedPolls(u)
  BY <1>d, <1>1, WellFormedRemove DEF LockedPolls, Members
<1>3. LockSet(v)' = {l \in LockSet(v) : l[1] # p}
  BY <1>2 DEF LockSet
<1>4. \A u \in Voters : u # v => LockSet(u)' = LockSet(u)
  BY <1>2 DEF LockSet
<1>5. QED
  BY <1>3, <1>4 DEF LockMap

LEMMA LocksPlusOne ==
    ASSUME VotingInv, NEW v \in Voters, NEW p \in Polls, NEW hash \in Options,
           NEW n \in Amounts(v), NEW prev \in Nodes, CommitVote(v, p, hash, n, prev)
    PROVE  LockMap' = [LockMap EXCEPT ![v] = {l \in LockSet(v) : l[1] # p} \cup {<<p, n>>}]
<1> DEFINE next == NextFor(v, prev, p)
<1>d. /\ dllMap \in [Voters -> Lists(Nodes)] /\ numTokens \in [Voters -> [Nodes -> Nat]]
      /\ \A u \in Voters : /\ dllMap[u] \in Lists(Nodes)
                           /\ WellFormed(dllMap[u], numTokens[u])
      /\ p \in Nodes /\ n \in Nat /\ next \in Nodes
  BY NodesAndPolls DEF VotingInv, TypeOK, ListsWellFormed, Amounts, NextFor, Lists
<1>1. /\ CanInsert(dllMap[v], prev, p, next)
      /\ numTokens[v][prev] <= n /\ (n <= numTokens[v][next] \/ next = 0)
      /\ dllMap' = [dllMap EXCEPT ![v] = Insert(@, prev, p, next)]
      /\ numTokens' = [numTokens EXCEPT ![v][p] = n]
  BY <1>d DEF CommitVote, ValidPosition
<1> HIDE DEF next
<1>2. /\ WellFormed(Insert(dllMap[v], prev, p, next), [numTokens[v] EXCEPT ![p] = n])
      /\ Members(Insert(dllMap[v], prev, p, next)) = Members(dllMap[v]) \cup {p}
  <2>1. numTokens[v] \in [Nodes -> Nat] /\ dllMap[v] \in Lists(Nodes)
        /\ WellFormed(dllMap[v], numTokens[v])
    BY <1>d
  <2>2. CanInsert(dllMap[v], prev, p, next)
    BY <1>1
  <2>3. numTokens[v][prev] <= n /\ (n <= numTokens[v][next] \/ next = 0)
    BY <1>1
  <2>4. n \in Nat /\ next \in Nodes
    BY <1>d
  <2>5. QED
    BY <2>1, <2>2, <2>3, <2>4, WellFormedInsert
<1>3. /\ LockedPolls(v)' = LockedPolls(v) \cup {p}
      /\ \A u \in Voters : u # v => LockedPolls(u)' = LockedPolls(u)
  BY <1>d, <1>1, <1>2 DEF LockedPolls, Members
<1>4. /\ \A u \in Voters : u # v => numTokens'[u] = numTokens[u]
      /\ numTokens'[v][p] = n
      /\ \A q \in LockedPolls(v) : q # p => numTokens'[v][q] = numTokens[v][q]
  BY <1>d, <1>1, NodesAndPolls DEF LockedPolls
<1>5. LockSet(v)' = {l \in LockSet(v) : l[1] # p} \cup {<<p, n>>}
  BY <1>3, <1>4 DEF LockSet
<1>6. \A u \in Voters : u # v => LockSet(u)' = LockSet(u)
  BY <1>3, <1>4 DEF LockSet
<1>7. QED
  BY <1>5, <1>6 DEF LockMap

LEMMA LocksInit == Init => Locks!LocksInit
<1> SUFFICES ASSUME Init PROVE Locks!LocksInit
  OBVIOUS
<1>1. \A v \in Voters : LockedPolls(v) = {}
  BY TypeInit, WellFormedEmpty DEF Init, TypeOK, LockedPolls, Members
<1>2. QED
  BY <1>1 DEF Init, Locks!LocksInit

LEMMA LocksNext == VotingInv /\ [Next]_vars => [Locks!LocksNext]_(Locks!lockVars)
<1> SUFFICES ASSUME VotingInv, [Next]_vars PROVE [Locks!LocksNext]_(Locks!lockVars)
  OBVIOUS
<1> USE DEF Locks!lockVars
<1>d. /\ balanceOf \in [Voters -> Nat] /\ voteTokenBalance \in [Voters -> Nat]
      /\ numTokens \in [Voters -> [Nodes -> Nat]]
      /\ \A u \in Voters : /\ dllMap[u] \in Lists(Nodes)
                           /\ WellFormed(dllMap[u], numTokens[u])
  BY DEF VotingInv, TypeOK, ListsWellFormed
<1>m. LockMap = [v \in Voters |-> {<<p, numTokens[v][p]>> : p \in LockedPolls(v)}]
  BY DEF LockMap, LockSet
<1>a. \A v \in Voters : Amounts(v) \subseteq Nat
  BY DEF Amounts
<1>1. CASE UNCHANGED <<balanceOf, voteTokenBalance, dllMap, numTokens>>
  BY <1>1 DEF LockedPolls
<1>2. ASSUME NEW v \in Voters, NEW n \in Amounts(v), RequestVotingRights(v, n)
      PROVE  Locks!LocksNext
  <2>1. Locks!Deposit(v, n)
    BY <1>2, <1>a, <1>d, LocksKept
    DEF RequestVotingRights, voteVars, Locks!Deposit, LockMap, LockSet
  <2>2. n \in 0 .. balanceOf[v]
    BY <1>2, <1>a, <1>d DEF RequestVotingRights
  <2>3. QED
    BY <2>1, <2>2 DEF Locks!LocksNext
<1>3. ASSUME NEW v \in Voters, NEW n \in Amounts(v), WithdrawVotingRights(v, n)
      PROVE  Locks!LocksNext
  <2>1. /\ GetLockedTokens(v) \in Nat /\ n \in Nat
        /\ n <= voteTokenBalance[v] - GetLockedTokens(v)
    <3>1. dllMap[v][0].prev \in Nodes /\ n \in Nat
      BY <1>a, <1>d, NodesAndPolls DEF Lists
    <3>2. GetLockedTokens(v) \in Nat
      BY <1>d, <3>1 DEF GetLockedTokens, GetLastNode
    <3>3. QED
      BY <1>3, <1>d, <3>1, <3>2 DEF WithdrawVotingRights, Available
  <2>2. \A p \in LockedPolls(v) : numTokens[v][p] <= GetLockedTokens(v) /\ numTokens[v][p] \in Nat
    BY <1>d, WellFormedLast, NodesAndPolls DEF LockedPolls, Members, GetLockedTokens, GetLastNode
  <2>3. \A l \in LockMap[v] : l[2] <= voteTokenBalance[v] - n
    BY <1>d, <2>1, <2>2 DEF LockMap, LockSet
  <2>4. Locks!Withdraw(v, n)
    BY <1>3, <1>d, <2>1, <2>3, LocksKept
    DEF WithdrawVotingRights, voteVars, Locks!Withdraw, LockMap, LockSet
  <2>5. QED
    BY <1>d, <2>1, <2>4 DEF Locks!LocksNext
<1>4. ASSUME NEW v \in Voters, NEW p \in Polls,
             dllMap' = [dllMap EXCEPT ![v] = Remove(@, p)],
             UNCHANGED <<numTokens, voteTokenBalance, balanceOf>>
      PROVE  Locks!LocksNext
  <2>1. LockMap' = [LockMap EXCEPT ![v] = {l \in LockSet(v) : l[1] # p}]
    BY <1>4, LocksLessOne
  <2>2. Locks!Unlock(v, p)
    BY <1>4, <2>1 DEF Locks!Unlock, Locks!Without, LockMap, LockSet
  <2>3. QED
    BY <2>2 DEF Locks!LocksNext
<1>5. ASSUME NEW v \in Voters, NEW p \in Polls, NEW hash \in Options, NEW n \in Amounts(v),
             NEW prev \in Nodes, CommitVote(v, p, hash, n, prev)
      PROVE  Locks!LocksNext
  <2>1. LockMap' = [LockMap EXCEPT ![v] = {l \in LockSet(v) : l[1] # p} \cup {<<p, n>>}]
    BY <1>5, LocksPlusOne
  <2>2. n \in 0 .. balanceOf[v] + voteTokenBalance[v]
    BY <1>5, <1>a, <1>d DEF CommitVote
  <2>3. Locks!Lock(v, p, n)
    BY <1>5, <1>a, <1>d, <2>1
    DEF CommitVote, Locks!Lock, Locks!Without, LockMap, LockSet
  <2>4. QED
    BY <2>2, <2>3 DEF Locks!LocksNext
<1>6. CASE Tick
  BY <1>1, <1>6 DEF Tick, voteVars, fundVars
<1>7. ASSUME NEW quorum \in Quorums, NEW d \in Durations, StartPoll(quorum, d[1], d[2])
      PROVE  UNCHANGED <<balanceOf, voteTokenBalance, dllMap, numTokens>>
  BY <1>7 DEF StartPoll, voteVars, fundVars
<1>8. ASSUME NEW v \in Voters, NEW p \in Polls, RescueTokens(v, p)
      PROVE  Locks!LocksNext
  BY <1>4, <1>8 DEF RescueTokens, fundVars
<1>9. ASSUME NEW v \in Voters, NEW p \in Polls, NEW option \in Options, RevealVote(v, p, option)
      PROVE  Locks!LocksNext
  BY <1>4, <1>9 DEF RevealVote, fundVars
<1>10. CASE UNCHANGED vars
  BY <1>1, <1>10 DEF vars, voteVars, fundVars
<1>11. QED
  BY <1>1, <1>2, <1>3, <1>5, <1>6, <1>7, <1>8, <1>9, <1>10 DEF Next

(* To its voters the contract is one that keeps, for each of them, a set of *)
(* locks: the linked lists do not show.                                     *)
THEOREM ListsImplementLocks == Spec => ImplementsVoteLocks
<1>1. Spec => Locks!LocksSpec
  BY LocksInit, LocksNext, VotingInvariant, PTL DEF Spec, Locks!LocksSpec
<1>2. QED
  BY <1>1 DEF ImplementsVoteLocks
------------------------------------------------------------------------------------
(* Commits and reveals implement polls that collect one vote per voter. *)

(* What a voter commits is no more than the voter ever owned, and nothing is *)
(* ever committed to the sentinel.                                           *)
AmountsOwned ==
    \A v \in Voters : /\ \A p \in Polls : numTokens[v][p] \in Amounts(v)
                      /\ numTokens[v][0] = 0

LEMMA AmountsInvariant == Spec => []AmountsOwned
<1>1. Init => AmountsOwned
  BY SupplyAssumption, NodesAndPolls DEF Init, AmountsOwned, Amounts
<1>2. VotingInv /\ AmountsOwned /\ [Next]_vars => AmountsOwned'
  <2> SUFFICES ASSUME VotingInv, AmountsOwned, [Next]_vars PROVE AmountsOwned'
    OBVIOUS
  <2>1. CASE UNCHANGED numTokens
    BY <2>1 DEF AmountsOwned, Amounts
  <2>2. ASSUME NEW v \in Voters, NEW p \in Polls, NEW hash \in Options, NEW n \in Amounts(v),
               NEW prev \in Nodes, CommitVote(v, p, hash, n, prev)
        PROVE  AmountsOwned'
    <3>1. numTokens' = [numTokens EXCEPT ![v][p] = n] /\ numTokens \in [Voters -> [Nodes -> Nat]]
      BY <2>2 DEF CommitVote, VotingInv, TypeOK
    <3>2. QED
      BY <3>1, NodesAndPolls DEF AmountsOwned, Amounts
  <2>3. CASE UNCHANGED vars \/ Tick
    BY <2>1, <2>3 DEF vars, voteVars, Tick
  <2>4. ASSUME NEW quorum \in Quorums, NEW d \in Durations, StartPoll(quorum, d[1], d[2])
        PROVE  UNCHANGED numTokens
    BY <2>4 DEF StartPoll, voteVars
  <2>5. ASSUME NEW v \in Voters, NEW n \in Amounts(v),
               RequestVotingRights(v, n) \/ WithdrawVotingRights(v, n)
        PROVE  UNCHANGED numTokens
    BY <2>5 DEF RequestVotingRights, WithdrawVotingRights, voteVars
  <2>6. ASSUME NEW v \in Voters, NEW p \in Polls, NEW option \in Options,
               RescueTokens(v, p) \/ RevealVote(v, p, option)
        PROVE  UNCHANGED numTokens
    BY <2>6 DEF RescueTokens, RevealVote
  <2>7. ASSUME NEW v \in Voters, NEW p \in Polls, RescueTokens(v, p)
        PROVE  UNCHANGED numTokens
    BY <2>7 DEF RescueTokens
  <2>8. QED
    BY <2>1, <2>2, <2>3, <2>4, <2>5, <2>6, <2>7 DEF Next
<1>3. QED
  BY <1>1, <1>2, VotingInvariant, PTL DEF Spec

(* The votes and the dates of the abstract polls. *)
VoteOf(v, p) == IF v \in didReveal[p] THEN <<commitHash[v][p], numTokens[v][p]>> ELSE <<>>
VoteMap == [p \in Polls |-> [v \in Voters |-> VoteOf(v, p)]]
Dates(p) == [quorum    |-> pollMap[p].voteQuorum,
             commitEnd |-> pollMap[p].commitEndDate,
             revealEnd |-> pollMap[p].revealEndDate]
DateMap == [p \in Polls |-> Dates(p)]

TallyStep == Tally!TallyNext(Quorums, 0 .. MaxTime, UNION {Amounts(v) : v \in Voters})

LEMMA TallyInit == Init => Tally!TallyInit
  BY DEF Init, NoPoll, Tally!TallyInit, Tally!NotStarted

LEMMA TallyStarts ==
    ASSUME NEW quorum \in Quorums, NEW commitEnd \in 0 .. MaxTime, NEW revealEnd \in 0 .. MaxTime,
           Tally!StartPoll(quorum, commitEnd, revealEnd)
    PROVE  TallyStep
  BY Zenon DEF TallyStep, Tally!TallyNext

LEMMA TallyReveals ==
    ASSUME NEW v \in Voters, NEW p \in Polls, NEW option \in Options, NEW n \in Amounts(v),
           Tally!Reveal(v, p, option, n)
    PROVE  TallyStep
<1>1. n \in UNION {Amounts(u) : u \in Voters}
  OBVIOUS
<1>2. QED
  BY <1>1, Zenon DEF TallyStep, Tally!TallyNext

LEMMA TallyNext == VotingInv /\ AmountsOwned /\ [Next]_vars => [TallyStep]_(Tally!tallyVars)
<1> SUFFICES ASSUME VotingInv, AmountsOwned, [Next]_vars PROVE [TallyStep]_(Tally!tallyVars)
  OBVIOUS
<1> USE NodesAndPolls
<1>d. /\ pollMap \in [Polls -> Poll] /\ didReveal \in [Polls -> SUBSET Voters]
      /\ numTokens \in [Voters -> [Nodes -> Nat]]
      /\ commitHash \in [Voters -> [Nodes -> Options \cup {NoHash}]]
      /\ now \in Nat /\ now <= MaxTime /\ pollNonce \in Nat
  BY MaxTimeAssumption, MaxPollsAssumption DEF VotingInv, TypeOK, Nodes
<1>v. /\ Tally!tallyVars = <<now, pollNonce, DateMap, VoteMap>>
      /\ Tally!tallyVars' = <<now', pollNonce', DateMap', VoteMap'>>
  BY DEF Tally!tallyVars, DateMap, Dates, VoteMap, VoteOf
<1>1. ASSUME UNCHANGED <<now, pollNonce, pollMap, didReveal, commitHash, numTokens>>
      PROVE  UNCHANGED Tally!tallyVars
  BY <1>v, <1>1 DEF DateMap, Dates, VoteMap, VoteOf
<1>2. CASE Tick
  <2>1. Tally!Pass
    BY <1>2 DEF Tick, pollVars, voteVars, Tally!Pass
  <2>2. QED
    BY <2>1 DEF TallyStep, Tally!TallyNext
<1>3. ASSUME NEW quorum \in Quorums, NEW d \in Durations, StartPoll(quorum, d[1], d[2])
      PROVE  TallyStep
  <2>0. /\ d[1] \in Nat /\ d[2] \in Nat /\ MaxTime \in Nat
        /\ now + d[1] \in 0 .. MaxTime /\ now + d[1] + d[2] \in 0 .. MaxTime
    BY <1>3, <1>d, DurationsAssumption, MaxTimeAssumption DEF StartPoll
  <2>1. PICK commitEnd \in 0 .. MaxTime, revealEnd \in 0 .. MaxTime :
            commitEnd = now + d[1] /\ revealEnd = now + d[1] + d[2]
    BY <2>0
  <2>2. /\ pollNonce + 1 \in Polls /\ UNCHANGED <<now, didReveal, commitHash, numTokens>>
        /\ pollNonce' = pollNonce + 1
    BY <1>3, <1>d, MaxPollsAssumption DEF StartPoll, voteVars, Polls
  <2>3. DateMap' = [DateMap EXCEPT ![pollNonce + 1] =
            [quorum |-> quorum, commitEnd |-> commitEnd, revealEnd |-> revealEnd]]
    <3>1. pollMap' = [pollMap EXCEPT ![pollNonce + 1] =
              [voteQuorum |-> quorum, commitEndDate |-> commitEnd, revealEndDate |-> revealEnd,
               votesFor |-> 0, votesAgainst |-> 0]]
      BY <1>3, <2>1 DEF StartPoll
    <3>2. QED
      BY <1>d, <2>2, <3>1 DEF DateMap, Dates
  <2>4. VoteMap' = VoteMap
    BY <2>2 DEF VoteMap, VoteOf
  <2>5. now <= commitEnd /\ commitEnd <= revealEnd
    BY <1>d, <2>0, <2>1
  <2>6. Tally!StartPoll(quorum, commitEnd, revealEnd)
    BY <2>2, <2>3, <2>4, <2>5 DEF Tally!StartPoll, DateMap, Dates, VoteMap, VoteOf
  <2>7. QED
    BY <2>6, TallyStarts
<1>4. ASSUME NEW v \in Voters, NEW p \in Polls, NEW hash \in Options, NEW n \in Amounts(v),
             NEW prev \in Nodes, CommitVote(v, p, hash, n, prev)
      PROVE  UNCHANGED Tally!tallyVars
  <2>1. /\ UNCHANGED <<now, pollNonce, pollMap, didReveal>> /\ CommitPeriodActive(p)
        /\ numTokens' = [numTokens EXCEPT ![v][p] = n]
        /\ commitHash' = [commitHash EXCEPT ![v][p] = hash]
    BY <1>4 DEF CommitVote, pollVars
  <2>2. didReveal[p] = {}
    BY <2>1 DEF VotingInv, PollsInOrder
  <2>3. \A u \in Voters, q \in Polls : VoteOf(u, q)' = VoteOf(u, q)
    BY <1>d, <2>1, <2>2 DEF VoteOf
  <2>4. VoteMap' = VoteMap /\ DateMap' = DateMap
    BY <2>1, <2>3 DEF VoteMap, DateMap, Dates
  <2>5. QED
    BY <1>v, <2>1, <2>4
<1>5. ASSUME NEW v \in Voters, NEW p \in Polls, NEW option \in Options, RevealVote(v, p, option)
      PROVE  TallyStep
  <2>1. /\ UNCHANGED <<now, pollNonce, commitHash, numTokens>>
        /\ RevealPeriodActive(p) /\ v \notin didReveal[p] /\ commitHash[v][p] = option
        /\ didReveal' = [didReveal EXCEPT ![p] = @ \cup {v}]
    BY <1>5 DEF RevealVote
  <2>2. \A q \in Polls : /\ pollMap'[q].commitEndDate = pollMap[q].commitEndDate
                        /\ pollMap'[q].revealEndDate = pollMap[q].revealEndDate
                        /\ pollMap'[q].voteQuorum = pollMap[q].voteQuorum
    BY <1>5, <1>d DEF RevealVote, Poll
  <2>3. DateMap' = DateMap
    BY <2>2 DEF DateMap, Dates
  <2>4. \A u \in Voters, q \in Polls :
            VoteOf(u, q)' = IF u = v /\ q = p THEN <<option, numTokens[v][p]>> ELSE VoteOf(u, q)
    BY <1>d, <2>1 DEF VoteOf
  <2>5. VoteMap' = [VoteMap EXCEPT ![p][v] = <<option, numTokens[v][p]>>]
    BY <2>4 DEF VoteMap
  <2>6. Tally!Revealing(p)
    BY <1>d, <2>1 DEF RevealPeriodActive, CommitPeriodActive, PollExists, IsExpired, Poll, Polls,
                      Tally!Revealing, Tally!Exists
  <2>7. VoteMap[p][v] = <<>>
    BY <2>1 DEF VoteMap, VoteOf
  <2>8. PICK n \in Amounts(v) : n = numTokens[v][p]
    BY DEF AmountsOwned
  <2>9. Tally!Reveal(v, p, option, n)
    BY <2>1, <2>3, <2>5, <2>6, <2>7, <2>8 DEF Tally!Reveal, DateMap, Dates, VoteMap, VoteOf
  <2>10. QED
    BY <2>9, TallyReveals
<1>6. ASSUME NEW v \in Voters, NEW n \in Amounts(v),
             RequestVotingRights(v, n) \/ WithdrawVotingRights(v, n)
      PROVE  UNCHANGED Tally!tallyVars
  BY <1>1, <1>6 DEF RequestVotingRights, WithdrawVotingRights, pollVars, voteVars
<1>7. ASSUME NEW v \in Voters, NEW p \in Polls, RescueTokens(v, p)
      PROVE  UNCHANGED Tally!tallyVars
  BY <1>1, <1>7 DEF RescueTokens, pollVars
<1>8. CASE UNCHANGED vars
  BY <1>1, <1>8 DEF vars, pollVars, voteVars
<1>9. QED
  BY <1>2, <1>3, <1>4, <1>5, <1>6, <1>7, <1>8 DEF Next

(* To the contracts that start polls, the voting contract is one that       *)
(* collects at most one vote per voter, between two dates, and never       *)
(* changes it.                                                             *)
THEOREM VotesImplementTally == Spec => ImplementsPollTally
<1>1. Spec => Tally!TallyInit /\ [][TallyStep]_(Tally!tallyVars)
  BY TallyInit, TallyNext, VotingInvariant, AmountsInvariant, PTL DEF Spec
<1>2. QED
  BY <1>1, PTL DEF ImplementsPollTally, TallyStep
------------------------------------------------------------------------------------
(* The running totals of a poll. *)

Ballot(p) == [v \in Voters |-> IF v \in didReveal[p] THEN numTokens[v][p] ELSE 0]
ForVoters(p) == {v \in didReveal[p] : commitHash[v][p] = 1}
Totals ==
    \A p \in Polls :
        /\ pollMap[p].votesFor = SumOver(Ballot(p), ForVoters(p))
        /\ pollMap[p].votesAgainst = SumOver(Ballot(p), didReveal[p] \ ForVoters(p))

LEMMA TotalsAreTallied == TypeOK => (Totals <=> TotalsMatchVotes)
<1> SUFFICES ASSUME TypeOK, NEW p \in Polls
             PROVE  /\ Tally!VotesFor(p) = SumOver(Ballot(p), ForVoters(p))
                    /\ Tally!VotesAgainst(p) = SumOver(Ballot(p), didReveal[p] \ ForVoters(p))
  BY DEF Totals, TotalsMatchVotes
<1>1. didReveal[p] \subseteq Voters
  BY DEF TypeOK
<1>2. Tally!Revealed(p) = didReveal[p]
  BY <1>1 DEF Tally!Revealed
<1>3. Tally!VotedFor(p) = ForVoters(p)
  BY <1>1, <1>2 DEF Tally!VotedFor, ForVoters
<1>4. Tally!TokensOn(p) = Ballot(p)
  BY <1>1, <1>2 DEF Tally!TokensOn, Ballot
<1>5. \A w, S : Tally!SumOver(w, S) = SumOver(w, S)
  BY DEF Tally!SumOver, SumOver, Tally!MapThenSumSet, MapThenSumSet,
         Tally!MapThenFoldSet, MapThenFoldSet
<1>6. QED
  BY <1>2, <1>3, <1>4, <1>5 DEF Tally!VotesFor, Tally!VotesAgainst, Tally!TokensOf

LEMMA TotalsInit == Init => Totals
<1> SUFFICES ASSUME Init, NEW p \in Polls
             PROVE  /\ pollMap[p].votesFor = SumOver(Ballot(p), ForVoters(p))
                    /\ pollMap[p].votesAgainst = SumOver(Ballot(p), didReveal[p] \ ForVoters(p))
  BY DEF Totals
<1>1. didReveal[p] = {} /\ ForVoters(p) = {} /\ didReveal[p] \ ForVoters(p) = {}
  BY DEF Init, ForVoters
<1>2. pollMap[p].votesFor = 0 /\ pollMap[p].votesAgainst = 0
  BY DEF Init, NoPoll
<1>3. QED
  BY <1>1, <1>2, SumEmpty

(* A revealed vote adds its tokens to one side of one poll. *)
LEMMA TotalsReveal ==
    ASSUME VotingInv, Totals, NEW v \in Voters, NEW p \in Polls, NEW option \in Options,
           RevealVote(v, p, option)
    PROVE  Totals'
<1>d. /\ pollMap \in [Polls -> Poll] /\ didReveal \in [Polls -> SUBSET Voters]
      /\ numTokens \in [Voters -> [Nodes -> Nat]] /\ p \in Nodes
      /\ \A u \in Voters : numTokens[u][p] \in Nat
  BY NodesAndPolls DEF VotingInv, TypeOK
<1>r. /\ v \notin didReveal[p] /\ commitHash[v][p] = option
      /\ UNCHANGED <<numTokens, commitHash>>
      /\ didReveal' = [didReveal EXCEPT ![p] = @ \cup {v}]
  BY DEF RevealVote
<1> DEFINE R == didReveal[p]
           b == Ballot(p)
           c == Ballot(p)'
<1>1. ASSUME NEW q \in Polls, q # p
      PROVE  /\ pollMap'[q] = pollMap[q] /\ didReveal'[q] = didReveal[q]
             /\ Ballot(q)' = Ballot(q) /\ ForVoters(q)' = ForVoters(q)
  BY <1>1, <1>d, <1>r DEF RevealVote, Ballot, ForVoters
<1>2. /\ R \subseteq Voters /\ IsFiniteSet(R) /\ ForVoters(p) \subseteq R
      /\ IsFiniteSet(ForVoters(p)) /\ IsFiniteSet(R \ ForVoters(p))
      /\ v \notin ForVoters(p) /\ v \notin R \ ForVoters(p)
  <2>1. R \subseteq Voters /\ ForVoters(p) \subseteq R /\ v \notin R
    BY <1>d, <1>r DEF ForVoters
  <2>2. QED
    BY <2>1, VotersAssumption, FS_Subset
<1>3. /\ \A u \in R : c[u] = b[u] /\ b[u] \in Nat /\ c[u] \in Nat
      /\ c[v] = numTokens[v][p] /\ c[v] \in Nat
  BY <1>d, <1>r, <1>2 DEF Ballot
<1>4. didReveal'[p] = R \cup {v}
  BY <1>d, <1>r
<1> HIDE DEF b, c
<1>5. /\ SumOver(c, ForVoters(p)) = SumOver(b, ForVoters(p))
      /\ SumOver(c, R \ ForVoters(p)) = SumOver(b, R \ ForVoters(p))
  <2>1. SumOver(c, ForVoters(p)) = SumOver(b, ForVoters(p))
    BY <1>2, <1>3, SumSame
  <2>2. SumOver(c, R \ ForVoters(p)) = SumOver(b, R \ ForVoters(p))
    BY <1>2, <1>3, SumSame
  <2>3. QED
    BY <2>1, <2>2
<1>6. /\ pollMap[p].votesFor = SumOver(b, ForVoters(p))
      /\ pollMap[p].votesAgainst = SumOver(b, R \ ForVoters(p))
  BY DEF Totals, b
<1>7. /\ pollMap'[p].votesFor = SumOver(c, ForVoters(p)')
      /\ pollMap'[p].votesAgainst = SumOver(c, didReveal'[p] \ ForVoters(p)')
  <2>1. CASE option = 1
    <3>1. ForVoters(p)' = ForVoters(p) \cup {v} /\ didReveal'[p] \ ForVoters(p)' = R \ ForVoters(p)
      BY <1>r, <1>2, <1>4, <2>1 DEF ForVoters
    <3>2. /\ pollMap'[p].votesFor = pollMap[p].votesFor + numTokens[v][p]
          /\ pollMap'[p].votesAgainst = pollMap[p].votesAgainst
      BY <1>d, <2>1 DEF RevealVote, Poll
    <3>3. SumOver(c, ForVoters(p) \cup {v}) = SumOver(c, ForVoters(p)) + c[v]
      BY <1>2, <1>3, SumAdd
    <3>4. QED
      BY <1>3, <1>5, <1>6, <3>1, <3>2, <3>3
  <2>2. CASE option # 1
    <3>1. /\ ForVoters(p)' = ForVoters(p)
          /\ didReveal'[p] \ ForVoters(p)' = (R \ ForVoters(p)) \cup {v}
      BY <1>r, <1>2, <1>4, <2>2 DEF ForVoters
    <3>2. /\ pollMap'[p].votesFor = pollMap[p].votesFor
          /\ pollMap'[p].votesAgainst = pollMap[p].votesAgainst + numTokens[v][p]
      BY <1>d, <2>2 DEF RevealVote, Poll
    <3>3. SumOver(c, (R \ ForVoters(p)) \cup {v}) = SumOver(c, R \ ForVoters(p)) + c[v]
      BY <1>2, <1>3, SumAdd
    <3>4. QED
      BY <1>3, <1>5, <1>6, <3>1, <3>2, <3>3
  <2>3. QED
    BY <2>1, <2>2
<1>8. QED
  BY <1>1, <1>7 DEF Totals, c

LEMMA TotalsNext == VotingInv /\ Totals /\ [Next]_vars => Totals'
<1> SUFFICES ASSUME VotingInv, Totals, [Next]_vars PROVE Totals'
  OBVIOUS
<1>d. /\ pollMap \in [Polls -> Poll] /\ didReveal \in [Polls -> SUBSET Voters]
      /\ numTokens \in [Voters -> [Nodes -> Nat]] /\ Polls \subseteq Nodes
      /\ commitHash \in [Voters -> [Nodes -> Options \cup {NoHash}]]
      /\ pollNonce \in Nat
  BY NodesAndPolls, MaxPollsAssumption DEF VotingInv, TypeOK, Nodes
<1>1. ASSUME UNCHANGED <<pollMap, didReveal, numTokens, commitHash>>
      PROVE  Totals'
  BY <1>1 DEF Totals, Ballot, ForVoters
<1>2. ASSUME NEW quorum \in Quorums, NEW d \in Durations, StartPoll(quorum, d[1], d[2])
      PROVE  Totals'
  <2> DEFINE new == pollNonce + 1
  <2>1. didReveal[new] = {} \/ new \notin Polls
    BY <1>d DEF VotingInv, PollsInOrder, PollExists
  <2>2. \A p \in Polls : Ballot(p)' = Ballot(p) /\ ForVoters(p)' = ForVoters(p)
    BY <1>2 DEF StartPoll, voteVars, Ballot, ForVoters
  <2>3. \A p \in Polls : p # new => pollMap'[p] = pollMap[p]
    BY <1>2, <1>d DEF StartPoll
  <2>4. new \in Polls => /\ pollMap'[new].votesFor = 0 /\ pollMap'[new].votesAgainst = 0
                         /\ ForVoters(new) = {} /\ didReveal[new] \ ForVoters(new) = {}
    BY <1>2, <1>d, <2>1 DEF StartPoll, ForVoters
  <2>5. didReveal' = didReveal
    BY <1>2 DEF StartPoll, voteVars
  <2> HIDE DEF new
  <2>6. QED
    BY <2>2, <2>3, <2>4, <2>5, SumEmpty DEF Totals
<1>3. ASSUME NEW v \in Voters, NEW p \in Polls, NEW hash \in Options, NEW n \in Amounts(v),
             NEW prev \in Nodes, CommitVote(v, p, hash, n, prev)
      PROVE  Totals'
  <2>1. /\ UNCHANGED <<pollMap, didReveal>> /\ CommitPeriodActive(p)
        /\ numTokens' = [numTokens EXCEPT ![v][p] = n]
        /\ commitHash' = [commitHash EXCEPT ![v][p] = hash]
    BY <1>3 DEF CommitVote, pollVars
  <2>2. didReveal[p] = {}
    BY <2>1 DEF VotingInv, PollsInOrder
  <2>3. \A q \in Polls : \A u \in didReveal[q] : /\ numTokens'[u][q] = numTokens[u][q]
                                                /\ commitHash'[u][q] = commitHash[u][q]
    BY <1>d, <2>1, <2>2
  <2>4. \A q \in Polls : Ballot(q)' = Ballot(q) /\ ForVoters(q)' = ForVoters(q)
    BY <2>1, <2>3 DEF Ballot, ForVoters
  <2>5. QED
    BY <2>1, <2>4 DEF Totals
<1>4. ASSUME NEW v \in Voters, NEW p \in Polls, NEW option \in Options, RevealVote(v, p, option)
      PROVE  Totals'
  BY <1>4, TotalsReveal
<1>5. ASSUME NEW v \in Voters, NEW n \in Amounts(v),
             RequestVotingRights(v, n) \/ WithdrawVotingRights(v, n)
      PROVE  Totals'
  BY <1>1, <1>5 DEF RequestVotingRights, WithdrawVotingRights, pollVars, voteVars
<1>6. ASSUME NEW v \in Voters, NEW p \in Polls, RescueTokens(v, p)
      PROVE  Totals'
  BY <1>1, <1>6 DEF RescueTokens, pollVars
<1>7. CASE Tick
  BY <1>1, <1>7 DEF Tick, pollVars, voteVars
<1>8. CASE UNCHANGED vars
  BY <1>1, <1>8 DEF vars, pollVars, voteVars
<1>9. QED
  BY <1>2, <1>3, <1>4, <1>5, <1>6, <1>7, <1>8 DEF Next

(* The totals a poll keeps are at all times the sums of the revealed votes, *)
(* each with the tokens and the option the store holds for it now, so that *)
(* no claim ever disagrees with the total it is a share of.                 *)
THEOREM TotalsAreVotes == Spec => []TotalsMatchVotes
<1>1. VotingInv => TypeOK
  BY DEF VotingInv
<1>2. QED
  BY <1>1, TotalsInit, TotalsNext, TotalsAreTallied, VotingInvariant, PTL DEF Spec

------------------------------------------------------------------------------------
(* What walks along a list find: the functions that walk are defined by        *)
(* recursion, so both that they exist and what they return is shown by looking *)
(* at the first step, or the node of least rank, at which it would fail.       *)

(* A set of numbers has a smallest one. *)
LEMMA SmallestNumber ==
    ASSUME NEW T, T \subseteq Nat, T # {}
    PROVE  \E m \in T : \A k \in T : m <= k
<1>1. PICK n \in T : TRUE
  OBVIOUS
<1> DEFINE B == {U \in SUBSET (0 .. n) : \E m \in T : U = 0 .. m}
<1>2. n \in Nat /\ IsFiniteSet(0 .. n)
  BY <1>1, FS_Interval
<1>3. B # {} /\ B \subseteq SUBSET (0 .. n)
  BY <1>1
<1> HIDE DEF B
<1>4. PICK U \in B : \A V \in SUBSET U : V # U => V \notin B
  BY <1>2, <1>3, SmallestSubset
<1> USE DEF B
<1>5. PICK m \in T : U = 0 .. m
  BY <1>4
<1>6. ASSUME NEW k \in T, k < m PROVE FALSE
  <2>1. 0 .. k \subseteq 0 .. m /\ m \in 0 .. m /\ m \notin 0 .. k
    BY <1>6
  <2>2. 0 .. k \in B
    BY <1>4, <1>5, <2>1
  <2>3. QED
    BY <1>4, <1>5, <2>1, <2>2
<1>7. QED
  BY <1>5, <1>6

(* A set of nodes has one of least rank. *)
LEMMA LeastRanked ==
    ASSUME NEW ids, NEW r \in [ids -> Nat], NEW B, B \subseteq ids, B # {}
    PROVE  \E i \in B : \A j \in B : r[i] <= r[j]
<1> DEFINE T == {r[i] : i \in B}
<1>1. T \subseteq Nat /\ T # {}
  OBVIOUS
<1>2. PICK m \in T : \A k \in T : m <= k
  <2> HIDE DEF T
  <2>1. QED
    BY <1>1, SmallestNumber
<1>3. QED
  BY <1>2

------------------------------------------------------------------------------------
(* Walking a list along next. *)

(* The nodes of rank up to that of i. *)
UpTo(S, r, i) == {j \in S : r[j] <= r[i]}

IsWalk(at, d, n) == at = [i \in 0 .. n |-> IF i = 0 THEN 0 ELSE d[at[i - 1]].next]

LEMMA WalkExists ==
    ASSUME NEW d, NEW n \in Nat
    PROVE  \E at : IsWalk(at, d, n)
<1> DEFINE B == {m \in 0 .. n : ~\E at : IsWalk(at, d, m)}
<1> SUFFICES ASSUME B # {} PROVE FALSE
  OBVIOUS
<1>1. PICK m \in B : \A k \in B : m <= k
  <2>1. B \subseteq Nat
    OBVIOUS
  <2> HIDE DEF B
  <2>2. QED
    BY <2>1, SmallestNumber
<1>2. CASE m = 0
  <2>1. IsWalk([i \in 0 .. 0 |-> 0], d, 0)
    BY DEF IsWalk
  <2>2. QED
    BY <1>1, <1>2, <2>1
<1>3. CASE m # 0
  <2>1. m - 1 \in 0 .. n /\ m - 1 \notin B
    BY <1>1, <1>3
  <2>2. PICK g : IsWalk(g, d, m - 1)
    BY <2>1
  <2> DEFINE h == [i \in 0 .. m |-> IF i = m THEN d[g[m - 1]].next ELSE g[i]]
  <2>3. \A i \in 0 .. m - 1 : g[i] = IF i = 0 THEN 0 ELSE d[g[i - 1]].next
    BY <2>2 DEF IsWalk
  <2>4. \A i \in 0 .. m : h[i] = IF i = 0 THEN 0 ELSE d[h[i - 1]].next
    <3> SUFFICES ASSUME NEW i \in 0 .. m PROVE h[i] = IF i = 0 THEN 0 ELSE d[h[i - 1]].next
      OBVIOUS
    <3>1. i = m => h[i] = d[g[m - 1]].next /\ i # 0 /\ h[i - 1] = g[i - 1]
      BY <1>1, <1>3
    <3>2. i # m => i \in 0 .. m - 1 /\ h[i] = g[i] /\ (i # 0 => h[i - 1] = g[i - 1])
      BY <1>1, <1>3
    <3>3. QED
      BY <2>3, <3>1, <3>2
  <2>5. IsWalk(h, d, m)
    <3> DEFINE e == [i \in 0 .. m |-> IF i = 0 THEN 0 ELSE d[h[i - 1]].next]
    <3>1. h = e
      BY <2>4
    <3>2. QED
      BY <3>1 DEF IsWalk
  <2>6. QED
    BY <1>1, <2>5
<1>4. QED
  BY <1>2, <1>3

LEMMA WalkSolves ==
    ASSUME NEW d, NEW n \in Nat
    PROVE  IsWalk(Walk(d, n), d, n)
<1>1. Walk(d, n) = CHOOSE at : IsWalk(at, d, n)
  BY DEF Walk, IsWalk
<1>2. QED
  BY <1>1, WalkExists

(* Of a finite list, next leads from a node to the one that has one more below. *)
LEMMA StepUp ==
    ASSUME NEW ids, 0 \in ids, NEW d, NEW S, NEW r, Linked(d, ids, S, r), IsFiniteSet(S),
           NEW i \in S \cup {0}
    PROVE  /\ IsFiniteSet(UpTo(S, r, i)) /\ Cardinality(UpTo(S, r, i)) \in Nat
           /\ d[i].next # 0 =>
                 Cardinality(UpTo(S, r, d[i].next)) = Cardinality(UpTo(S, r, i)) + 1
           /\ d[i].next = 0 => UpTo(S, r, i) = S
<1> DEFINE n == d[i].next
           A == UpTo(S, r, i)
<1>1. IsFiniteSet(A) /\ Cardinality(A) \in Nat
  BY FS_Subset, FS_CardinalityType DEF UpTo
<1>2. /\ \A j \in S \cup {0} : r[j] \in Nat
      /\ \A j, k \in S : r[j] = r[k] => j = k
      /\ n \in S \cup {0}
      /\ n # 0 => r[i] < r[n]
      /\ \A k \in S : r[k] <= r[i] \/ (n # 0 /\ r[n] <= r[k])
  BY DEF Linked, Ranking, TwoWay, Ascending
<1>3. ASSUME n # 0 PROVE Cardinality(UpTo(S, r, n)) = Cardinality(A) + 1
  <2>1. UpTo(S, r, n) = A \cup {n} /\ n \notin A
    BY <1>2, <1>3 DEF UpTo
  <2>2. QED
    BY <1>1, <2>1, FS_AddElement
<1>4. n = 0 => A = S
  BY <1>2 DEF UpTo
<1>5. QED
  BY <1>1, <1>3, <1>4

(* A walk is at the i-th node after i steps... *)
LEMMA WalkCounts ==
    ASSUME NEW ids, 0 \in ids, NEW d, NEW S, NEW r, Linked(d, ids, S, r), IsFiniteSet(S),
           NEW at, IsWalk(at, d, Cardinality(S) + 1), NEW i \in 0 .. Cardinality(S)
    PROVE  at[i] \in S \cup {0} /\ Cardinality(UpTo(S, r, at[i])) = i
<1> DEFINE k == Cardinality(S)
           Good(j) == at[j] \in S \cup {0} /\ Cardinality(UpTo(S, r, at[j])) = j
           B == {j \in 0 .. k : ~Good(j)}
<1>1. k \in Nat
  BY FS_CardinalityType
<1>2. \A j \in 0 .. k + 1 : at[j] = IF j = 0 THEN 0 ELSE d[at[j - 1]].next
  BY <1>1 DEF IsWalk
<1>3. ASSUME B # {} PROVE FALSE
  <2>1. PICK m \in B : \A j \in B : m <= j
    <3>1. B \subseteq Nat
      BY <1>1
    <3> HIDE DEF B
    <3>2. QED
      BY <1>3, <3>1, SmallestNumber
  <2>2. CASE m = 0
    <3>1. at[0] = 0
      BY <1>1, <1>2
    <3>2. UpTo(S, r, 0) = {}
      BY DEF UpTo, Linked, Ranking
    <3>3. QED
      BY <2>1, <2>2, <3>1, <3>2, FS_EmptySet
  <2>3. CASE m # 0
    <3>1. m \in 1 .. k /\ m - 1 \in 0 .. k /\ Good(m - 1)
      BY <1>1, <2>1, <2>3
    <3>2. at[m] = d[at[m - 1]].next
      BY <1>1, <1>2, <3>1
    <3>3. at[m] # 0
      <4>1. UpTo(S, r, at[m - 1]) # S
        BY <1>1, <3>1
      <4>2. QED
        BY <3>1, <3>2, <4>1, StepUp
    <3>4. Cardinality(UpTo(S, r, at[m])) = m
      BY <3>1, <3>2, <3>3, StepUp
    <3>5. at[m] \in S \cup {0}
      BY <3>1, <3>2 DEF Linked, TwoWay
    <3>6. QED
      BY <2>1, <3>4, <3>5
  <2>4. QED
    BY <2>2, <2>3
<1>4. QED
  BY <1>3

(* ... so it passes through every node, in their order, and returns to the *)
(* sentinel.                                                               *)
LEMMA WalkPasses ==
    ASSUME NEW ids, 0 \in ids, NEW d, NEW S, NEW r, Linked(d, ids, S, r), IsFiniteSet(S),
           NEW w, Monotone(w, S, r), NEW at, IsWalk(at, d, Cardinality(S) + 1)
    PROVE  /\ {at[i] : i \in 1 .. Cardinality(S)} = S
           /\ at[Cardinality(S) + 1] = 0
           /\ \A i \in 1 .. Cardinality(S) + 1 : d[at[i]].prev = at[i - 1]
           /\ \A i \in 1 .. Cardinality(S) - 1 : w[at[i]] <= w[at[i + 1]]
<1> DEFINE k == Cardinality(S)
<1>1. k \in Nat
  BY FS_CardinalityType
<1>2. \A j \in 1 .. k + 1 : at[j] = d[at[j - 1]].next
  BY <1>1 DEF IsWalk
<1>3. \A i \in 0 .. k : at[i] \in S \cup {0} /\ Cardinality(UpTo(S, r, at[i])) = i
  BY WalkCounts
<1>4. /\ \A j \in S \cup {0} : r[j] \in Nat
      /\ \A i, j \in S : r[i] = r[j] => i = j
      /\ r[0] = 0 /\ 0 \notin S
      /\ \A j \in S : r[j] > 0
  BY DEF Linked, Ranking
<1>5. \A i \in 1 .. k : at[i] \in S
  <2>1. Cardinality(UpTo(S, r, 0)) = 0
    <3>1. UpTo(S, r, 0) = {}
      BY <1>4 DEF UpTo
    <3>2. QED
      BY <3>1, FS_EmptySet
  <2>2. QED
    BY <1>1, <1>3, <2>1
<1>6. ASSUME NEW m \in S PROVE \E i \in 1 .. k : at[i] = m
  <2> DEFINE i == Cardinality(UpTo(S, r, m))
  <2>1. UpTo(S, r, m) \subseteq S /\ m \in UpTo(S, r, m)
    BY <1>4 DEF UpTo
  <2>2. i \in 1 .. k
    BY <1>1, <2>1, FS_Subset, FS_CardinalityType, FS_EmptySet
  <2>3. at[i] \in S /\ Cardinality(UpTo(S, r, at[i])) = i
    BY <1>3, <1>5, <2>2
  <2>4. UpTo(S, r, at[i]) \subseteq UpTo(S, r, m) \/ UpTo(S, r, m) \subseteq UpTo(S, r, at[i])
    BY <1>4, <2>3 DEF UpTo
  <2>5. UpTo(S, r, at[i]) = UpTo(S, r, m)
    <3>1. IsFiniteSet(UpTo(S, r, at[i])) /\ IsFiniteSet(UpTo(S, r, m))
      BY <2>3, StepUp
    <3>2. QED
      BY <2>3, <2>4, <3>1, FS_Subset
  <2>6. at[i] = m
    <3>1. m \in UpTo(S, r, at[i]) /\ at[i] \in UpTo(S, r, m)
      BY <1>4, <2>1, <2>3, <2>5 DEF UpTo
    <3>2. QED
      BY <1>4, <2>3, <3>1 DEF UpTo
  <2>7. QED
    BY <2>2, <2>6
<1>7. at[k + 1] = 0
  <2>1. k + 1 \in 1 .. k + 1 /\ at[k] \in S \cup {0} /\ Cardinality(UpTo(S, r, at[k])) = k
    BY <1>1, <1>3
  <2>2. at[k + 1] = d[at[k]].next /\ at[k + 1] \in S \cup {0}
    BY <1>1, <1>2, <2>1 DEF Linked, TwoWay
  <2>3. ASSUME at[k + 1] # 0 PROVE FALSE
    <3>1. Cardinality(UpTo(S, r, at[k + 1])) = k + 1
      BY <2>1, <2>2, <2>3, StepUp
    <3>2. UpTo(S, r, at[k + 1]) \subseteq S
      BY DEF UpTo
    <3>3. QED
      BY <1>1, <3>1, <3>2, FS_Subset
  <2>4. QED
    BY <2>3
<1>8. \A i \in 1 .. k + 1 : d[at[i]].prev = at[i - 1]
  BY <1>1, <1>2, <1>3 DEF Linked, TwoWay
<1>9. ASSUME NEW i \in 1 .. k - 1 PROVE w[at[i]] <= w[at[i + 1]]
  <2>1. at[i] \in S /\ at[i + 1] \in S /\ at[i + 1] = d[at[i]].next
    BY <1>1, <1>2, <1>5
  <2>2. r[at[i]] < r[at[i + 1]]
    BY <1>4, <2>1 DEF Linked, Ascending
  <2>3. QED
    BY <2>1, <2>2 DEF Monotone
<1>10. QED
  BY <1>5, <1>6, <1>7, <1>8, <1>9

(* Walked along next, the list of a voter passes exactly once through each *)
(* poll with locked tokens, in order of the tokens, and prev runs back the *)
(* same way, after every insert, update, move, reveal and rescue.          *)
THEOREM ListsSorted == Spec => []ListSorted
<1>1. VotingInv => ListSorted
  <2> SUFFICES ASSUME VotingInv PROVE ListSorted
    OBVIOUS
  <2> SUFFICES
        ASSUME NEW v \in Voters
        PROVE  LET k == Cardinality(LockedPolls(v))
                   at == Walk(dllMap[v], k + 1)
               IN  /\ {at[i] : i \in 1 .. k} = LockedPolls(v)
                   /\ at[k + 1] = NULL_NODE_ID
                   /\ \A i \in 1 .. k + 1 : dllMap[v][at[i]].prev = at[i - 1]
                   /\ \A i \in 1 .. k - 1 : numTokens[v][at[i]] <= numTokens[v][at[i + 1]]
    BY DEF ListSorted
  <2> DEFINE d == dllMap[v]
             S == LockedPolls(v)
             k == Cardinality(S)
             at == Walk(d, k + 1)
  <2>1. PICK r : Linked(d, Nodes, S, r) /\ Monotone(numTokens[v], S, r)
    BY DEF VotingInv, ListsWellFormed, WellFormed, Members, LockedPolls
  <2>2. IsFiniteSet(S) /\ k \in Nat
    <3>1. IsFiniteSet(Polls)
      BY MaxPollsAssumption, FS_Interval DEF Polls
    <3>2. QED
      BY <3>1, FS_Subset, FS_CardinalityType DEF LockedPolls
  <2>3. IsWalk(at, d, k + 1)
    <3> HIDE DEF d, S, k
    <3>1. QED
      BY <2>2, WalkSolves
  <2>4. /\ {at[i] : i \in 1 .. k} = S
        /\ at[k + 1] = 0
        /\ \A i \in 1 .. k + 1 : d[at[i]].prev = at[i - 1]
        /\ \A i \in 1 .. k - 1 : numTokens[v][at[i]] <= numTokens[v][at[i + 1]]
    <3> HIDE DEF d, S, at
    <3>1. QED
      BY <2>1, <2>2, <2>3, NodesAndPolls, WalkPasses
  <2>5. QED
    BY <2>4
<1>2. QED
  BY <1>1, VotingInvariant, PTL

------------------------------------------------------------------------------------
(* Searching a list backwards for the place of a new weight. *)

IsSearch(from, d, w, n, p) ==
    from = [id \in Nodes |-> IF id = 0 THEN 0
                             ELSE IF w[id] > n THEN from[d[id].prev]
                             ELSE IF id = p THEN d[id].prev
                             ELSE id]

(* All nodes that weigh more than n follow the lightest of them, so from each *)
(* the search ends at the same place.                                         *)
LEMMA SearchExists ==
    ASSUME NEW d, NEW S, NEW r, Linked(d, Nodes, S, r),
           NEW w \in [Nodes -> Nat], Monotone(w, S, r), NEW n \in Nat, NEW p \in Polls
    PROVE  \E from : IsSearch(from, d, w, n, p)
<1> DEFINE H == {k \in S : w[k] > n}
           m == CHOOSE k \in H : \A j \in H : r[k] <= r[j]
           q == d[m].prev
           c == IF q # 0 /\ q = p THEN d[q].prev ELSE q
           g == [id \in Nodes |-> IF id = 0 THEN 0
                                  ELSE IF w[id] > n THEN IF id \in S THEN c ELSE 0
                                  ELSE IF id = p THEN d[id].prev
                                  ELSE id]
<1>1. /\ S \subseteq Nodes \ {0}
      /\ \A j \in S \cup {0} : r[j] \in Nat
      /\ \A i, j \in S : r[i] = r[j] => i = j
      /\ r \in [Nodes -> Nat]
      /\ r[0] = 0 /\ \A j \in S : r[j] > 0
  BY NodesAndPolls DEF Linked, Ranking
<1>2. ASSUME H # {} PROVE m \in H /\ \A j \in H : r[m] <= r[j]
  <2>1. H \subseteq Nodes
    BY <1>1
  <2> HIDE DEF H
  <2>2. QED
    BY <1>1, <1>2, <2>1, LeastRanked
<1> HIDE DEF m
<1>3. ASSUME NEW i \in S
      PROVE  /\ d[i].prev \in S \cup {0} /\ r[d[i].prev] < r[i]
             /\ \A k \in S : r[k] < r[i] => r[k] <= r[d[i].prev]
  <2>1. d[i].prev \in S \cup {0} /\ d[d[i].prev].next = i /\ i # 0
    BY <1>1 DEF Linked, TwoWay
  <2>2. QED
    BY <1>1, <2>1 DEF Linked, Ascending
<1>4. ASSUME NEW i \in S, w[i] > n PROVE g[d[i].prev] = c
  <2>1. m \in S /\ w[m] > n /\ r[m] <= r[i]
    BY <1>2, <1>4
  <2>2. CASE i = m
    <3>1. q \in S \cup {0} /\ r[q] < r[m]
      BY <1>3, <2>1
    <3>2. ~(q \in H)
      BY <1>1, <1>2, <2>1, <3>1
    <3>3. q \in Nodes /\ (q # 0 => ~(w[q] > n))
      BY <1>1, <3>1, <3>2, NodesAndPolls
    <3>4. QED
      BY <2>2, <3>3
  <2>3. CASE i # m
    <3>1. r[m] < r[i]
      BY <1>1, <2>1, <2>3
    <3>2. r[m] <= r[d[i].prev] /\ d[i].prev \in S
      BY <1>1, <1>3, <2>1, <3>1
    <3>3. w[d[i].prev] > n
      BY <1>1, <2>1, <3>2 DEF Monotone
    <3>4. QED
      BY <1>1, <3>2, <3>3
  <2>4. QED
    BY <2>2, <2>3
<1>5. \A i \in Nodes \ (S \cup {0}) : d[i].prev = 0
  BY DEF Linked, ZeroNode, Node
<1>6. ASSUME NEW id \in Nodes
      PROVE  g[id] = IF id = 0 THEN 0
                     ELSE IF w[id] > n THEN g[d[id].prev]
                     ELSE IF id = p THEN d[id].prev
                     ELSE id
  <2>1. g[0] = 0
    BY NodesAndPolls
  <2>2. CASE id # 0 /\ w[id] > n /\ id \in S
    BY <1>4, <2>2
  <2>3. CASE id # 0 /\ w[id] > n /\ id \notin S
    BY <1>5, <2>1, <2>3
  <2>4. CASE id = 0 \/ ~(w[id] > n)
    BY <2>4
  <2>5. QED
    BY <2>2, <2>3, <2>4
<1>7. IsSearch(g, d, w, n, p)
  <2> DEFINE h == [id \in Nodes |-> IF id = 0 THEN 0
                                    ELSE IF w[id] > n THEN g[d[id].prev]
                                    ELSE IF id = p THEN d[id].prev
                                    ELSE id]
  <2>1. g = h
    BY <1>6
  <2>2. QED
    BY <2>1 DEF IsSearch
<1>8. QED
  BY <1>7

(* Where the search from node i may end: at the sentinel or a node other than *)
(* p of at most the weight n, above which, up to i, all but p weigh more.     *)
Place(m, i, S, r, w, n, p) ==
    /\ m \in (S \cup {0}) \ {p}
    /\ m # 0 => w[m] <= n
    /\ \A k \in S : r[m] < r[k] /\ r[k] <= r[i] /\ k # p => w[k] > n

LEMMA SearchFinds ==
    ASSUME NEW d, NEW S, NEW r, Linked(d, Nodes, S, r),
           NEW w \in [Nodes -> Nat], Monotone(w, S, r), NEW n \in Nat, NEW p \in Polls,
           NEW from, IsSearch(from, d, w, n, p), NEW i \in S \cup {0}
    PROVE  Place(from[i], i, S, r, w, n, p)
<1> DEFINE B == {j \in S \cup {0} : ~Place(from[j], j, S, r, w, n, p)}
<1>1. /\ S \subseteq Nodes \ {0}
      /\ \A j \in S \cup {0} : r[j] \in Nat
      /\ \A j, k \in S : r[j] = r[k] => j = k
      /\ r \in [Nodes -> Nat]
      /\ r[0] = 0 /\ \A j \in S : r[j] > 0
      /\ p # 0 /\ 0 \in Nodes
  BY NodesAndPolls DEF Linked, Ranking
<1>2. \A id \in S \cup {0} :
          from[id] = IF id = 0 THEN 0
                     ELSE IF w[id] > n THEN from[d[id].prev]
                     ELSE IF id = p THEN d[id].prev
                     ELSE id
  BY <1>1 DEF IsSearch
<1>3. ASSUME B # {} PROVE FALSE
  <2>1. PICK j \in B : \A k \in B : r[j] <= r[k]
    <3>1. B \subseteq Nodes
      BY <1>1
    <3> HIDE DEF B
    <3>2. QED
      BY <1>1, <1>3, <3>1, LeastRanked
  <2>2. j \in S \cup {0} /\ ~Place(from[j], j, S, r, w, n, p)
    BY <2>1
  <2>3. j # 0
    <3>1. Place(0, 0, S, r, w, n, p)
      BY <1>1 DEF Place
    <3>2. from[0] = 0
      BY <1>2
    <3>3. QED
      BY <2>2, <3>1, <3>2
  <2> DEFINE a == d[j].prev
  <2>4. a \in S \cup {0} /\ d[a].next = j
    BY <2>2 DEF Linked, TwoWay
  <2>5. r[a] < r[j] /\ \A k \in S : r[k] <= r[a] \/ r[j] <= r[k]
    BY <2>2, <2>3, <2>4 DEF Linked, Ascending
  <2>6. CASE w[j] > n
    <3>1. from[j] = from[a]
      BY <1>2, <2>2, <2>3, <2>6
    <3>2. Place(from[a], a, S, r, w, n, p)
      BY <1>1, <2>1, <2>2, <2>4, <2>5
    <3>3. Place(from[a], j, S, r, w, n, p)
      <4>1. ASSUME NEW k \in S, r[k] <= r[j] PROVE k = j \/ r[k] <= r[a]
        BY <1>1, <2>2, <2>3, <2>4, <2>5, <4>1
      <4>2. QED
        BY <2>6, <3>2, <4>1 DEF Place
    <3>4. QED
      BY <2>2, <3>1, <3>3
  <2>7. CASE w[j] <= n /\ j = p
    <3>1. from[j] = a
      BY <1>1, <1>2, <2>2, <2>3, <2>7
    <3>2. a # p /\ (a # 0 => w[a] <= n)
      <4>1. a # j
        BY <1>1, <2>2, <2>4, <2>5
      <4>2. a # 0 => w[a] <= w[j] /\ w[a] \in Nat /\ w[j] \in Nat
        BY <1>1, <2>2, <2>3, <2>4, <2>5 DEF Monotone
      <4>3. QED
        BY <2>7, <4>1, <4>2
    <3>3. \A k \in S : r[a] < r[k] /\ r[k] <= r[j] => k = p
      BY <1>1, <2>2, <2>3, <2>4, <2>5, <2>7
    <3>4. QED
      BY <2>2, <2>4, <3>1, <3>2, <3>3 DEF Place
  <2>8. CASE w[j] <= n /\ j # p
    <3>1. from[j] = j
      BY <1>1, <1>2, <2>2, <2>3, <2>8
    <3>2. \A k \in S : ~(r[j] < r[k] /\ r[k] <= r[j])
      BY <1>1, <2>2
    <3>3. QED
      BY <2>2, <2>8, <3>1, <3>2 DEF Place
  <2>9. w[j] > n \/ w[j] <= n
    BY <1>1, <2>2, <2>3
  <2>10. QED
    BY <2>6, <2>7, <2>8, <2>9
<1>4. QED
  BY <1>3

(* From the last node, that is a place where commitVote inserts. *)
LEMMA PlaceFits ==
    ASSUME NEW d \in Lists(Nodes), NEW S, NEW r, Linked(d, Nodes, S, r),
           NEW w \in [Nodes -> Nat], w[0] = 0, NEW n \in Nat, NEW p \in Polls,
           NEW m, Place(m, d[0].prev, S, r, w, n, p), NEW next,
           next = IF d[m].next = p THEN d[p].next ELSE d[m].next
    PROVE  /\ m = 0 \/ Contains(d, m)
           /\ n >= w[m]
           /\ n <= w[next] \/ next = 0
           /\ CanInsert(d, m, p, next)
<1> DEFINE e == Remove(d, p)
           T == S \ {p}
<1>1. /\ S \subseteq Nodes \ {0}
      /\ \A j \in S \cup {0} : r[j] \in Nat
      /\ \A j, k \in S : r[j] = r[k] => j = k
      /\ r[0] = 0
      /\ p # 0 /\ p \in Nodes /\ 0 \in Nodes
  BY NodesAndPolls DEF Linked, Ranking
<1>2. m \in T \cup {0} /\ m \in Nodes /\ (m # 0 => w[m] <= n)
  BY <1>1 DEF Place
<1>3. Linked(e, Nodes, T, r) /\ e \in Lists(Nodes)
  BY <1>1, RemoveLinked, RemoveType
<1>4. \A k \in Nodes : (Contains(d, k) <=> k \in S) /\ (Contains(e, k) <=> k \in T)
  BY <1>1, <1>3, ContainsMember
<1>5. /\ \A j \in S \cup {0} : /\ d[j].next \in S \cup {0}
                               /\ d[j].prev \in S \cup {0}
                               /\ d[d[j].next].prev = j
                               /\ d[d[j].prev].next = j
      /\ \A j \in S \cup {0} : d[j].next # 0 => r[j] < r[d[j].next]
  BY DEF Linked, TwoWay, Ascending
<1>6. e[m].next = next
  <2>1. CASE p \notin S
    <3>1. e = d
      BY <1>1, <1>4, <2>1 DEF Remove
    <3>2. d[m].next # p
      BY <1>1, <1>2, <1>5, <2>1
    <3>3. QED
      BY <3>1, <3>2
  <2>2. CASE p \in S
    <3> DEFINE a == d[p].prev
               b == d[p].next
    <3>1. e = [d EXCEPT ![b].prev = a, ![a].next = b, ![p] = ZeroNode]
      BY <1>1, <1>4, <2>2 DEF Remove
    <3>2. a \in Nodes /\ b \in Nodes /\ m # p
      BY <1>1, <1>2, <1>5, <2>2
    <3>3. e[m].next = IF m = a THEN b ELSE d[m].next
      BY <1>1, <1>2, <3>1, <3>2 DEF Lists
    <3>4. m = a <=> d[m].next = p
      BY <1>2, <1>5, <2>2
    <3>5. QED
      BY <3>3, <3>4
  <2>3. QED
    BY <2>1, <2>2
<1>7. next \in T \cup {0} /\ e[next].prev = m
  BY <1>2, <1>3, <1>6 DEF Linked, TwoWay
<1>8. CanInsert(d, m, p, next)
  BY <1>1, <1>2, <1>4, <1>6, <1>7 DEF CanInsert
<1>9. ASSUME next # 0 PROVE n <= w[next]
  <2>1. r[m] < r[next] /\ next \in S /\ next # p
    BY <1>3, <1>2, <1>6, <1>7, <1>9 DEF Linked, Ascending
  <2>2. d[0].prev \in S /\ r[next] <= r[d[0].prev]
    <3>1. next = d[0].prev \/ r[next] < r[d[0].prev]
      BY <1>1, <2>1, LastIsHighest
    <3>2. d[0].prev \in S
      BY <1>1, <2>1, LastIsHighest
    <3>3. QED
      BY <1>1, <2>1, <3>1, <3>2
  <2>3. w[next] > n
    BY <2>1, <2>2 DEF Place
  <2>4. QED
    BY <1>1, <2>1, <2>3
<1>10. n >= w[m]
  BY <1>1, <1>2
<1>11. m = 0 \/ Contains(d, m)
  BY <1>2, <1>4
<1>12. QED
  BY <1>8, <1>9, <1>10, <1>11

(* A client that asks getInsertPointForNumTokens where to put a vote, new or  *)
(* updated, of any number of tokens the voter may own, gets a place at which  *)
(* commitVote accepts it.                                                     *)
THEOREM InsertPointsAccepted == Spec => []InsertPointAccepted
<1>1. VotingInv /\ AmountsOwned => InsertPointAccepted
  <2> SUFFICES ASSUME VotingInv, AmountsOwned, NEW v \in Voters, NEW p \in Polls, NEW n \in Amounts(v)
               PROVE  LET prev == GetInsertPointForNumTokens(v, n, p)
                          next == NextFor(v, prev, p)
                      IN  /\ prev = NULL_NODE_ID \/ Contains(dllMap[v], prev)
                          /\ ValidPosition(v, prev, next, n)
                          /\ CanInsert(dllMap[v], prev, p, next)
    BY DEF InsertPointAccepted
  <2> DEFINE d == dllMap[v]
             w == numTokens[v]
             S == Members(d)
             prev == GetInsertPointForNumTokens(v, n, p)
             next == NextFor(v, prev, p)
             search == CHOOSE from : IsSearch(from, d, w, n, p)
  <2>1. d \in Lists(Nodes) /\ w \in [Nodes -> Nat] /\ w[0] = 0 /\ n \in Nat
    BY SupplyAssumption DEF VotingInv, TypeOK, AmountsOwned, Amounts
  <2>2. PICK r \in [Nodes -> Nat] : Linked(d, Nodes, S, r) /\ Monotone(w, S, r)
    BY DEF VotingInv, ListsWellFormed, WellFormed
  <2>3. IsSearch(search, d, w, n, p)
    <3> HIDE DEF d, w, S
    <3>1. \E from : IsSearch(from, d, w, n, p)
      BY <2>1, <2>2, SearchExists
    <3>2. QED
      BY <3>1
  <2>4. prev = search[d[0].prev]
    BY DEF GetInsertPointForNumTokens, IsSearch, GetLastNode
  <2>5. Place(prev, d[0].prev, S, r, w, n, p)
    <3> HIDE DEF d, w, S, search, prev
    <3>1. d[0].prev \in S \cup {0}
      BY <2>2 DEF Linked, TwoWay
    <3>2. QED
      BY <2>1, <2>2, <2>3, <2>4, <3>1, SearchFinds
  <2>6. next = IF d[prev].next = p THEN d[p].next ELSE d[prev].next
    <3> HIDE DEF prev
    <3>1. QED
      BY DEF NextFor
  <2>7. /\ prev = 0 \/ Contains(d, prev)
        /\ n >= w[prev]
        /\ n <= w[next] \/ next = 0
        /\ CanInsert(d, prev, p, next)
    <3> HIDE DEF d, w, S, prev, next
    <3>1. QED
      BY <2>1, <2>2, <2>5, <2>6, PlaceFits
  <2>8. QED
    BY <2>7 DEF ValidPosition
<1>2. QED
  BY <1>1, VotingInvariant, AmountsInvariant, PTL
====================================================================================
