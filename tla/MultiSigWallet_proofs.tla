--------------------------- MODULE MultiSigWallet_proofs ---------------------------
(***************************************************************************)
(* Theorems about MultiSigWallet, for any owners, calls and depth of calls *)
(* that come back.                                                         *)
(***************************************************************************)
EXTENDS MultiSigWallet, FiniteSetTheorems, FunctionTheorems, TLAPS

(* What holds of the storage at every time, so also of what a failing call *)
(* goes back to.                                                           *)
Good(w) ==
    /\ w \in Storage
    /\ Distinct(w.owners)
    /\ \A a \in OwnerValues : (w.isOwner[a] <=> \E i \in DOMAIN w.owners : w.owners[i] = a)
    /\ w.required \in 1 .. Len(w.owners)
    /\ Len(w.owners) <= MAX_OWNER_COUNT

(* Changing the owners leaves the books alone, and keeping the books the owners. *)
SameBooks(v, w) ==
    /\ w.transactionCount = v.transactionCount /\ w.transactions = v.transactions
    /\ w.executed = v.executed /\ w.confirmations = v.confirmations
    /\ w.carriedOut = v.carriedOut
SameOwners(v, w) == w.owners = v.owners /\ w.isOwner = v.isOwner /\ w.required = v.required

------------------------------------------------------------------------------------
LEMMA StorageFields ==
    ASSUME NEW w \in Storage
    PROVE  /\ w.owners \in Seq(OwnerValues) /\ w.isOwner \in [OwnerValues -> BOOLEAN]
           /\ w.required \in Nat \ {0} /\ w.transactionCount \in 0 .. MaxTransactions
           /\ w.transactions \in [Ids -> Calls] /\ w.executed \in [Ids -> BOOLEAN]
           /\ w.confirmations \in [Ids -> SUBSET OwnerValues] /\ w.carriedOut \in [Ids -> Nat]
  BY DEF Storage

LEMMA CallFields ==
    ASSUME WalletAssumption, NEW c \in Calls
    PROVE  /\ c.fn \in Functions /\ c.owner \in OwnerValues /\ c.newOwner \in OwnerValues
           /\ c.number \in Nat
  BY DEF WalletAssumption

LEMMA AddKeeps ==
    ASSUME WalletAssumption, NEW w, Good(w), NEW c \in Calls, MayAdd(w, c)
    PROVE  Good(Add(w, c)) /\ SameBooks(w, Add(w, c))
<1> DEFINE e == Add(w, c)
<1>1. /\ e.owners = Append(w.owners, c.owner) /\ e.required = w.required
      /\ e.isOwner = [w.isOwner EXCEPT ![c.owner] = TRUE]
      /\ SameBooks(w, e)
  BY DEF Good, Add, Storage, SameBooks
<1>2. /\ w.owners \in Seq(OwnerValues) /\ c.owner \in OwnerValues /\ w.isOwner \in [OwnerValues -> BOOLEAN]
      /\ w.required \in Nat \ {0} /\ Len(w.owners) \in Nat /\ MAX_OWNER_COUNT \in Nat
  BY StorageFields, CallFields DEF Good, WalletAssumption
<1>3. e \in Storage
  <2>1. Append(w.owners, c.owner) \in Seq(OwnerValues)
    BY <1>2
  <2>2. QED
    BY <1>2, <2>1 DEF Good, Add, Storage
<1>4. /\ Len(e.owners) = Len(w.owners) + 1 /\ DOMAIN e.owners = 1 .. Len(w.owners) + 1
      /\ \A i \in DOMAIN w.owners : e.owners[i] = w.owners[i]
      /\ e.owners[Len(w.owners) + 1] = c.owner
      /\ DOMAIN w.owners = 1 .. Len(w.owners)
  BY <1>1, <1>2
<1>5. \A i \in DOMAIN w.owners : w.owners[i] # c.owner
  BY <1>2 DEF Good, MayAdd
<1>6. Distinct(e.owners)
  <2> SUFFICES ASSUME NEW i \in DOMAIN e.owners, NEW j \in DOMAIN e.owners,
                      e.owners[i] = e.owners[j]
               PROVE  i = j
    BY DEF Distinct
  <2> HIDE DEF e
  <2>1. QED
    BY <1>2, <1>4, <1>5 DEF Good, Distinct
<1>7. ASSUME NEW a \in OwnerValues
      PROVE  (e.isOwner[a] <=> \E i \in DOMAIN e.owners : e.owners[i] = a)
  <2>1. w.isOwner[a] <=> \E i \in DOMAIN w.owners : w.owners[i] = a
    BY DEF Good
  <2> HIDE DEF e
  <2>2. QED
    BY <1>1, <1>2, <1>4, <2>1
<1>8. e.required \in 1 .. Len(e.owners) /\ Len(e.owners) <= MAX_OWNER_COUNT
  <2>1. w.required \in 1 .. Len(w.owners) /\ Len(w.owners) + 1 <= MAX_OWNER_COUNT
    BY DEF Good, MayAdd, ValidRequirement
  <2> HIDE DEF e
  <2>2. QED
    BY <1>1, <1>2, <1>4, <2>1
<1>9. QED
  BY <1>1, <1>3, <1>6, <1>7, <1>8 DEF Good

LEMMA RemoveKeeps ==
    ASSUME WalletAssumption, NEW w, Good(w), NEW c \in Calls, MayRemove(w, c)
    PROVE  Good(Remove(w, c)) /\ SameBooks(w, Remove(w, c))
<1> DEFINE e == Remove(w, c)
           n == Len(w.owners) - 1
<1>1. /\ e.owners = Without(w.owners, c.owner) /\ e.required = RequirementFor(w, n)
      /\ e.isOwner = [w.isOwner EXCEPT ![c.owner] = FALSE]
      /\ SameBooks(w, e)
  BY DEF Good, Remove, Storage, SameBooks
<1>2. /\ w.owners \in Seq(OwnerValues) /\ c.owner \in OwnerValues /\ w.isOwner \in [OwnerValues -> BOOLEAN]
      /\ w.required \in 1 .. Len(w.owners) /\ Len(w.owners) \in Nat /\ MAX_OWNER_COUNT \in Nat
      /\ DOMAIN w.owners = 1 .. Len(w.owners) /\ Len(w.owners) <= MAX_OWNER_COUNT
  BY StorageFields, CallFields DEF Good, WalletAssumption
<1>3. PICK k \in 1 .. Len(w.owners) : w.owners[k] = c.owner
  BY <1>2 DEF Good, MayRemove
<1>4. \A i \in 1 .. Len(w.owners) : (w.owners[i] = c.owner <=> i = k)
  BY <1>2, <1>3 DEF Good, Distinct
<1>5. n \in Nat /\ n # 0 /\ RequirementFor(w, n) \in 1 .. n
  <2>1. n \in Nat
    BY <1>2
  <2>2. w.required > n => n # 0
    BY DEF MayRemove, ValidRequirement
  <2>3. w.required \in Nat \ {0}
    BY <1>2
  <2> HIDE DEF n
  <2>4. n # 0
    BY <2>1, <2>2, <2>3
  <2>5. QED
    BY <2>1, <2>3, <2>4 DEF RequirementFor
<1>6. Without(w.owners, c.owner) =
          [i \in 1 .. n |-> IF i = k THEN w.owners[Len(w.owners)] ELSE w.owners[i]]
  BY <1>2, <1>4, <1>5 DEF Without, FirstAt
<1> HIDE DEF n
<1>n. n = Len(w.owners) - 1
  BY DEF n
<1>7. e.owners \in Seq(OwnerValues) /\ Len(e.owners) = n /\ DOMAIN e.owners = 1 .. n
  <2>1. \A i \in 1 .. n : (IF i = k THEN w.owners[Len(w.owners)] ELSE w.owners[i]) \in OwnerValues
    BY <1>2, <1>5, <1>n
  <2> HIDE DEF e
  <2>2. QED
    BY <1>1, <1>5, <1>6, <2>1
<1>8. e \in Storage
  <2>1. /\ Without(w.owners, c.owner) \in Seq(OwnerValues)
        /\ RequirementFor(w, Len(w.owners) - 1) \in Nat \ {0}
    BY <1>1, <1>2, <1>5, <1>7, <1>n
  <2>2. QED
    BY <1>2, <2>1 DEF Good, Remove, Storage
<1>9. \A i \in 1 .. n : e.owners[i] = IF i = k THEN w.owners[Len(w.owners)] ELSE w.owners[i]
  BY <1>1, <1>6
<1> HIDE DEF e
<1>10. Distinct(e.owners)
  <2> SUFFICES ASSUME NEW i \in 1 .. n, NEW j \in 1 .. n, e.owners[i] = e.owners[j]
               PROVE  i = j
    BY <1>7 DEF Distinct
  <2>1. \A x, y \in 1 .. Len(w.owners) : w.owners[x] = w.owners[y] => x = y
    BY <1>2 DEF Good, Distinct
  <2>2. Len(w.owners) \in 1 .. Len(w.owners) /\ i \in 1 .. Len(w.owners) /\ j \in 1 .. Len(w.owners)
        /\ i # Len(w.owners) /\ j # Len(w.owners)
    BY <1>2, <1>5, <1>n
  <2>3. QED
    BY <1>9, <2>1, <2>2
<1>11. ASSUME NEW a \in OwnerValues
       PROVE  (e.isOwner[a] <=> \E i \in DOMAIN e.owners : e.owners[i] = a)
  <2>1. w.isOwner[a] <=> \E i \in DOMAIN w.owners : w.owners[i] = a
    BY DEF Good
  <2>2. CASE a = c.owner
    <3>1. \A i \in 1 .. n : e.owners[i] # a
      BY <1>2, <1>3, <1>4, <1>5, <1>9, <1>n, <2>2
    <3>2. QED
      BY <1>1, <1>2, <1>7, <2>2, <3>1
  <2>3. CASE a # c.owner
    <3>1. (\E i \in 1 .. n : e.owners[i] = a) => w.isOwner[a]
      BY <1>2, <1>5, <1>9, <1>n, <2>1
    <3>2. ASSUME NEW j \in 1 .. Len(w.owners), w.owners[j] = a
          PROVE  \E i \in 1 .. n : e.owners[i] = a
      <4>1. CASE j = Len(w.owners)
        BY <1>2, <1>3, <1>4, <1>5, <1>9, <1>n, <2>3, <3>2, <4>1
      <4>2. CASE j # Len(w.owners)
        BY <1>2, <1>3, <1>4, <1>5, <1>9, <1>n, <2>3, <3>2, <4>2
      <4>3. QED
        BY <4>1, <4>2
    <3>3. QED
      BY <1>1, <1>2, <1>7, <2>1, <2>3, <3>1, <3>2
  <2>4. QED
    BY <2>2, <2>3
<1>12. QED
  BY <1>1, <1>2, <1>5, <1>7, <1>8, <1>10, <1>11, <1>n DEF Good, e
LEMMA ReplaceKeeps ==
    ASSUME WalletAssumption, NEW w, Good(w), NEW c \in Calls, MayReplace(w, c)
    PROVE  Good(Replace(w, c)) /\ SameBooks(w, Replace(w, c))
<1> DEFINE e == Replace(w, c)
           n == Len(w.owners)
           f == [[w.isOwner EXCEPT ![c.owner] = FALSE] EXCEPT ![c.newOwner] = TRUE]
<1>1. /\ w.owners \in Seq(OwnerValues) /\ c.owner \in OwnerValues /\ c.newOwner \in OwnerValues
      /\ w.isOwner \in [OwnerValues -> BOOLEAN] /\ n \in Nat /\ DOMAIN w.owners = 1 .. n
  BY StorageFields, CallFields DEF Good
<1>2. /\ e.required = w.required /\ SameBooks(w, e) /\ e.isOwner = f
      /\ e.owners = [i \in 1 .. n |-> IF FirstAt(w.owners, c.owner, i) THEN c.newOwner ELSE w.owners[i]]
  BY <1>1 DEF Good, Replace, Storage, SameBooks
<1>3. PICK k \in 1 .. n : w.owners[k] = c.owner
  BY <1>1 DEF Good, MayReplace
<1>4. \A x, y \in 1 .. n : w.owners[x] = w.owners[y] => x = y
  BY <1>1 DEF Good, Distinct
<1>5. \A i \in 1 .. n : (FirstAt(w.owners, c.owner, i) <=> i = k)
  BY <1>1, <1>3, <1>4 DEF FirstAt
<1>6. \A i \in 1 .. n : w.owners[i] # c.newOwner
  BY <1>1 DEF Good, MayReplace
<1> HIDE DEF e, n, f
<1>7. \A i \in 1 .. n : e.owners[i] = IF i = k THEN c.newOwner ELSE w.owners[i]
  BY <1>2, <1>5
<1>8. e.owners \in Seq(OwnerValues) /\ Len(e.owners) = n /\ DOMAIN e.owners = 1 .. n
  <2>1. \A i \in 1 .. n : (IF FirstAt(w.owners, c.owner, i) THEN c.newOwner ELSE w.owners[i]) \in OwnerValues
    BY <1>1
  <2>2. QED
    BY <1>1, <1>2, <2>1
<1>9. f \in [OwnerValues -> BOOLEAN]
  BY <1>1 DEF f
<1>10. e \in Storage
  <2>1. e = [[w EXCEPT !.isOwner = f] EXCEPT !.owners = e.owners]
    BY <1>1, <1>2 DEF e, f, n, Replace, Good, Storage
  <2>2. QED
    BY <1>8, <1>9, <2>1 DEF Good, Storage
<1>11. Distinct(e.owners)
  <2> SUFFICES ASSUME NEW i \in 1 .. n, NEW j \in 1 .. n, e.owners[i] = e.owners[j]
               PROVE  i = j
    BY <1>8 DEF Distinct
  <2>1. QED
    BY <1>4, <1>6, <1>7
<1>12. ASSUME NEW a \in OwnerValues
       PROVE  (e.isOwner[a] <=> \E i \in DOMAIN e.owners : e.owners[i] = a)
  <2>1. w.isOwner[a] <=> \E i \in 1 .. n : w.owners[i] = a
    BY <1>1 DEF Good
  <2>2. c.newOwner # c.owner
    BY <1>3, <1>6
  <2>3. e.isOwner[a] <=> IF a = c.newOwner THEN TRUE ELSE IF a = c.owner THEN FALSE ELSE w.isOwner[a]
    BY <1>1, <1>2, <2>2 DEF f
  <2>4. QED
    BY <1>3, <1>4, <1>6, <1>7, <1>8, <2>1, <2>2, <2>3
<1>13. QED
  BY <1>2, <1>8, <1>10, <1>11, <1>12 DEF Good, e, n

LEMMA RequireKeeps ==
    ASSUME WalletAssumption, NEW w, Good(w), NEW c \in Calls, MayRequire(w, c)
    PROVE  Good(Require(w, c)) /\ SameBooks(w, Require(w, c))
<1>1. c.number \in Nat \ {0} /\ c.number <= Len(w.owners) /\ Len(w.owners) \in Nat
  BY StorageFields, CallFields DEF Good, MayRequire, ValidRequirement
<1>2. /\ Require(w, c).owners = w.owners /\ Require(w, c).isOwner = w.isOwner
      /\ Require(w, c).required = c.number /\ Require(w, c) \in Storage
      /\ SameBooks(w, Require(w, c))
  BY <1>1 DEF Good, Require, Storage, SameBooks
<1>3. QED
  BY <1>1, <1>2 DEF Good

(* A call of the wallet's own functions keeps the owners and the books sound. *)
LEMMA EffectKeeps ==
    ASSUME WalletAssumption, NEW w, Good(w), NEW c \in Calls, c.fn # "external", Accepts(w, c)
    PROVE  Good(Effect(w, c)) /\ SameBooks(w, Effect(w, c))
<1>1. c.fn \in Functions \ {"external"}
  BY CallFields
<1>2. CASE c.fn = "addOwner"
  BY <1>2, AddKeeps DEF Accepts, Effect
<1>3. CASE c.fn = "removeOwner"
  BY <1>3, RemoveKeeps DEF Accepts, Effect
<1>4. CASE c.fn = "replaceOwner"
  BY <1>4, ReplaceKeeps DEF Accepts, Effect
<1>5. CASE c.fn = "changeRequirement"
  BY <1>5, RequireKeeps DEF Accepts, Effect
<1>6. QED
  BY <1>1, <1>2, <1>3, <1>4, <1>5 DEF Functions
------------------------------------------------------------------------------------
(* The books: a transaction is marked while its call is in progress and once *)
(* it was carried out, which is never both.                                  *)
InProgress(t, k) == \E j \in 1 .. k : running[j].id = t
Booked(w, k) ==
    \A t \in Ids :
        /\ w.carriedOut[t] \in {0, 1}
        /\ (w.executed[t] <=> (w.carriedOut[t] = 1 \/ InProgress(t, k)))
        /\ ~(w.carriedOut[t] = 1 /\ InProgress(t, k))

(* What was carried out before stays carried out. *)
Later(v, w) == \A t \in Ids : v.carriedOut[t] = 1 => w.carriedOut[t] = 1

Depth == Len(running)
Frame == [id : Ids, before : Storage]

(* The inductive invariant: owners and books are sound now and in every state *)
(* a call in progress may go back to, each in the order of the calls.         *)
RunningInv ==
    /\ running \in Seq(Frame)
    /\ \A j, k \in 1 .. Depth : running[j].id = running[k].id => j = k
    /\ \A k \in 1 .. Depth : Good(running[k].before) /\ Booked(running[k].before, k)
    /\ \A j, k \in 1 .. Depth : j <= k => Later(running[j].before, running[k].before)
    /\ \A k \in 1 .. Depth : Later(running[k].before, wallet)
WalletInv == Good(wallet) /\ Booked(wallet, Depth) /\ RunningInv

(* What BackedByOwners says of a step. *)
BackedStep == \A t \in Ids : Begins(t) => Cardinality(Backing(t)) >= wallet.required

LEMMA DepthType ==
    ASSUME RunningInv
    PROVE  /\ Depth \in Nat /\ DOMAIN running = 1 .. Depth
           /\ \A k \in 1 .. Depth : running[k] \in Frame /\ running[k].id \in Ids
                                     /\ running[k].before \in Storage
<1>1. running \in Seq(Frame)
  BY DEF RunningInv
<1>2. \A k \in 1 .. Len(running) : running[k] \in Frame
  BY <1>1
<1>3. QED
  BY <1>1, <1>2 DEF Depth, Frame

LEMMA WalletInvInit == WalletAssumption /\ WalletInit => WalletInv
<1> SUFFICES ASSUME WalletAssumption, WalletInit PROVE WalletInv
  OBVIOUS
<1>1. /\ InitialOwners \in Seq(OwnerValues) /\ Distinct(InitialOwners)
      /\ InitialRequired \in 1 .. Len(InitialOwners) /\ Len(InitialOwners) <= MAX_OWNER_COUNT
      /\ DOMAIN InitialOwners = 1 .. Len(InitialOwners)
  BY DEF WalletAssumption, OwnerValues, Distinct, ValidRequirement
<1>2. (CHOOSE c \in Calls : TRUE) \in Calls /\ MaxTransactions \in Nat
  BY DEF WalletAssumption
<1>3. wallet \in Storage
  BY <1>1, <1>2 DEF WalletInit, Storage
<1>4. Good(wallet)
  BY <1>1, <1>3 DEF WalletInit, Good
<1>5. running = <<>> /\ Depth = 0
  BY DEF WalletInit, Depth
<1>6. Booked(wallet, Depth)
  BY <1>5 DEF Booked, InProgress, WalletInit
<1>7. RunningInv
  BY <1>5 DEF RunningInv
<1>8. QED
  BY <1>4, <1>6, <1>7 DEF WalletInv

(* Confirmations are counted along a list without repetitions, so they are those *)
(* of as many different owners.                                                  *)
LEMMA ConfirmationsBack ==
    ASSUME WalletAssumption, NEW w, Good(w), NEW t \in Ids, IsConfirmed(w, t)
    PROVE  Cardinality({a \in OwnerValues : w.isOwner[a] /\ a \in w.confirmations[t]}) >= w.required
<1> DEFINE S == {a \in OwnerValues : w.isOwner[a] /\ a \in w.confirmations[t]}
<1>1. PICK i \in DOMAIN w.owners : Cardinality(Confirming(w, t, i)) = w.required
  BY DEF IsConfirmed
<1>2. w.owners \in Seq(OwnerValues) /\ DOMAIN w.owners = 1 .. Len(w.owners) /\ w.required \in Nat
  BY StorageFields DEF Good
<1>3. IsFiniteSet(S)
  <2>1. IsFiniteSet(Addresses \cup {Nobody})
    BY FS_AddElement DEF WalletAssumption
  <2>2. QED
    BY <2>1, FS_Subset DEF OwnerValues
<1> DEFINE C == Confirming(w, t, i)
           f == [j \in C |-> w.owners[j]]
<1>4. C \subseteq DOMAIN w.owners /\ \A j \in C : w.owners[j] \in w.confirmations[t]
  BY <1>2 DEF Confirming
<1>5. \A j \in DOMAIN w.owners : w.isOwner[w.owners[j]] /\ w.owners[j] \in OwnerValues
  <2>1. \A j \in DOMAIN w.owners : w.owners[j] \in OwnerValues
    BY <1>2
  <2>2. QED
    BY <2>1 DEF Good
<1>6. \A j \in C : w.owners[j] \in S
  BY <1>4, <1>5
<1>7. f \in Injection(C, S)
  <2>1. \A x, y \in C : w.owners[x] = w.owners[y] => x = y
    BY <1>4 DEF Good, Distinct
  <2> HIDE DEF C, S
  <2>2. f \in [C -> S] /\ \A x, y \in C : f[x] = f[y] => x = y
    BY <1>6, <2>1
  <2>3. QED
    BY <2>2 DEF Injection, IsInjective
<1>8. Cardinality(C) <= Cardinality(S)
  <2> HIDE DEF C, S, f
  <2>1. QED
    BY <1>3, <1>7, FS_Injection
<1>9. QED
  BY <1>1, <1>2, <1>3, <1>8, FS_CardinalityType

LEMMA OwnersStayGood ==
    ASSUME NEW v, NEW w \in Storage, Good(v), SameOwners(v, w)
    PROVE  Good(w)
<1>1. w.owners = v.owners /\ w.isOwner = v.isOwner /\ w.required = v.required
  BY DEF SameOwners
<1>2. QED
  BY <1>1 DEF Good

(* What marking, unmarking and booking do. *)
LEMMA BooksChange ==
    ASSUME NEW w, Good(w), NEW t \in Ids
    PROVE  /\ Good(Marked(w, t)) /\ Good(Unmarked(w, t)) /\ Good(Done(w, t))
           /\ Marked(w, t).executed = [w.executed EXCEPT ![t] = TRUE]
           /\ Unmarked(w, t).executed = [w.executed EXCEPT ![t] = FALSE]
           /\ Done(w, t).executed = w.executed
           /\ Marked(w, t).carriedOut = w.carriedOut /\ Unmarked(w, t).carriedOut = w.carriedOut
           /\ Done(w, t).carriedOut = [w.carriedOut EXCEPT ![t] = @ + 1]
           /\ Marked(w, t).confirmations = w.confirmations
           /\ Unmarked(w, t).confirmations = w.confirmations
           /\ Done(w, t).confirmations = w.confirmations
           /\ SameOwners(w, Marked(w, t)) /\ Marked(w, t).transactions = w.transactions
<1>1. w \in Storage
  BY DEF Good
<1>2. /\ Marked(w, t).owners = w.owners /\ Marked(w, t).isOwner = w.isOwner
      /\ Marked(w, t).required = w.required /\ Marked(w, t) \in Storage
      /\ Marked(w, t).executed = [w.executed EXCEPT ![t] = TRUE]
      /\ Marked(w, t).carriedOut = w.carriedOut /\ Marked(w, t).confirmations = w.confirmations
      /\ Marked(w, t).transactions = w.transactions
  BY <1>1 DEF Marked, Storage
<1>3. /\ Unmarked(w, t).owners = w.owners /\ Unmarked(w, t).isOwner = w.isOwner
      /\ Unmarked(w, t).required = w.required /\ Unmarked(w, t) \in Storage
      /\ Unmarked(w, t).executed = [w.executed EXCEPT ![t] = FALSE]
      /\ Unmarked(w, t).carriedOut = w.carriedOut /\ Unmarked(w, t).confirmations = w.confirmations
  BY <1>1 DEF Unmarked, Storage
<1>4. /\ Done(w, t).owners = w.owners /\ Done(w, t).isOwner = w.isOwner
      /\ Done(w, t).required = w.required /\ Done(w, t) \in Storage
      /\ Done(w, t).carriedOut = [w.carriedOut EXCEPT ![t] = @ + 1]
      /\ Done(w, t).executed = w.executed /\ Done(w, t).confirmations = w.confirmations
  <2>1. [w.carriedOut EXCEPT ![t] = @ + 1] \in [Ids -> Nat]
    BY <1>1, StorageFields
  <2>2. QED
    BY <1>1, <2>1 DEF Done, Storage
<1>5. Good(Marked(w, t)) /\ Good(Unmarked(w, t)) /\ Good(Done(w, t))
  <2>1. Good(Marked(w, t))
    BY <1>2, OwnersStayGood DEF SameOwners
  <2>2. Good(Unmarked(w, t))
    BY <1>3, OwnersStayGood DEF SameOwners
  <2>3. Good(Done(w, t))
    BY <1>4, OwnersStayGood DEF SameOwners
  <2>4. QED
    BY <2>1, <2>2, <2>3
<1>6. QED
  BY <1>2, <1>3, <1>4, <1>5 DEF SameOwners
(* Within a step that leaves the calls in progress alone, the books go on. *)
LEMMA SameCallsKeep ==
    ASSUME WalletInv, running' = running, Good(wallet'), Booked(wallet', Depth), Later(wallet, wallet')
    PROVE  WalletInv'
<1>1. Depth' = Depth
  BY DEF Depth
<1>2. Booked(wallet, Depth)'
  BY <1>1 DEF Booked, InProgress
<1>3. RunningInv'
  <2>1. \A k \in 1 .. Depth : Later(running[k].before, wallet')
    BY DEF WalletInv, RunningInv, Later
  <2>2. \A k \in 1 .. Depth : Booked(running[k].before, k)'
    BY DEF WalletInv, RunningInv, Booked, InProgress
  <2>3. QED
    BY <1>1, <2>1, <2>2 DEF WalletInv, RunningInv, Good, Later
<1>4. QED
  BY <1>2, <1>3 DEF WalletInv, Good

(* executeTransaction, continuing from a wallet w with the books of this one. *)
LEMMA ExecuteKeeps ==
    ASSUME WalletAssumption, WalletInv, NEW w, Good(w), NEW t \in Ids,
           w.executed = wallet.executed, w.carriedOut = wallet.carriedOut, SameOwners(wallet, w),
           ExecuteTransaction(w, t)
    PROVE  WalletInv' /\ BackedStep
<1> DEFINE c == w.transactions[t]
           m == Marked(w, t)
<1>1. Depth \in Nat /\ DOMAIN running = 1 .. Depth /\ Booked(w, Depth) /\ ~w.executed[t]
  BY DepthType DEF WalletInv, Booked, ExecuteTransaction
<1>2. /\ w.executed \in [Ids -> BOOLEAN] /\ w.carriedOut \in [Ids -> Nat] /\ c \in Calls
      /\ w.carriedOut[t] = 0 /\ ~InProgress(t, Depth)
  BY <1>1, StorageFields DEF Good, Booked
<1>3. /\ Good(m) /\ m.executed = [w.executed EXCEPT ![t] = TRUE] /\ m.carriedOut = w.carriedOut
      /\ m.confirmations = w.confirmations /\ SameOwners(w, m)
  BY BooksChange
(* Whatever the call does, a transaction that begins is t, and is confirmed. *)
<1>4. ASSUME IsConfirmed(w, t), wallet'.confirmations = w.confirmations,
             \A s \in Ids \ {t} : wallet'.executed[s] => w.executed[s]
      PROVE  BackedStep
  <2> SUFFICES ASSUME NEW s \in Ids, Begins(s) PROVE Cardinality(Backing(s)) >= wallet.required
    BY DEF BackedStep
  <2>1. s = t
    BY <1>4 DEF Begins
  <2>2. Backing(s) = {a \in OwnerValues : w.isOwner[a] /\ a \in w.confirmations[t]}
    BY <1>4, <2>1 DEF Backing, SameOwners
  <2>3. QED
    BY <1>4, <2>2, ConfirmationsBack DEF SameOwners
<1>5. CASE ~IsConfirmed(w, t) /\ wallet' = w /\ UNCHANGED running
  <2>1. Later(wallet, w)
    BY DEF Later
  <2>2. WalletInv'
    BY <1>1, <1>5, <2>1, SameCallsKeep
  <2>3. BackedStep
    BY <1>5 DEF BackedStep, Begins
  <2>4. QED
    BY <2>2, <2>3
<1>6. CASE /\ IsConfirmed(w, t) /\ c.fn # "external" /\ UNCHANGED running
           /\ wallet' = IF Accepts(m, c) THEN Done(Effect(m, c), t) ELSE Unmarked(m, t)
  <2>1. CASE Accepts(m, c)
    <3>1. Good(Effect(m, c)) /\ SameBooks(m, Effect(m, c))
      BY <1>2, <1>3, <1>6, <2>1, EffectKeeps
    <3>2. /\ wallet' = Done(Effect(m, c), t) /\ Good(wallet') /\ wallet'.executed = m.executed
          /\ wallet'.carriedOut = [w.carriedOut EXCEPT ![t] = @ + 1]
          /\ wallet'.confirmations = w.confirmations
      <4>1. wallet' = Done(Effect(m, c), t)
        BY <1>6, <2>1
      <4>2. /\ Good(wallet') /\ wallet'.executed = Effect(m, c).executed
            /\ wallet'.carriedOut = [Effect(m, c).carriedOut EXCEPT ![t] = @ + 1]
            /\ wallet'.confirmations = Effect(m, c).confirmations
        BY <3>1, <4>1, BooksChange
      <4>3. /\ Effect(m, c).executed = m.executed /\ Effect(m, c).carriedOut = w.carriedOut
            /\ Effect(m, c).confirmations = w.confirmations
        BY <1>3, <3>1 DEF SameBooks
      <4>4. QED
        BY <4>1, <4>2, <4>3
    <3>3. Booked(wallet', Depth)
      BY <1>1, <1>2, <1>3, <3>2 DEF Booked
    <3>4. Later(wallet, wallet')
      BY <1>2, <3>2 DEF Later
    <3>5. \A s \in Ids \ {t} : wallet'.executed[s] => w.executed[s]
      BY <1>2, <1>3, <3>2
    <3>6. QED
      BY <1>4, <1>6, <3>2, <3>3, <3>4, <3>5, SameCallsKeep
  <2>2. CASE ~Accepts(m, c)
    <3>1. /\ wallet' = Unmarked(m, t) /\ Good(wallet') /\ wallet'.executed = w.executed
          /\ wallet'.carriedOut = w.carriedOut /\ wallet'.confirmations = w.confirmations
      <4>1. wallet' = Unmarked(m, t)
        BY <1>6, <2>2
      <4>2. /\ Good(wallet') /\ wallet'.executed = [m.executed EXCEPT ![t] = FALSE]
            /\ wallet'.carriedOut = w.carriedOut /\ wallet'.confirmations = w.confirmations
        BY <1>3, <4>1, BooksChange
      <4>3. QED
        BY <1>1, <1>2, <1>3, <4>1, <4>2
    <3>2. Booked(wallet', Depth) /\ Later(wallet, wallet')
      BY <1>1, <3>1 DEF Booked, Later
    <3>3. QED
      BY <1>4, <1>6, <3>1, <3>2, SameCallsKeep
  <2>3. QED
    BY <2>1, <2>2
<1>7. CASE /\ IsConfirmed(w, t) /\ c.fn = "external" /\ wallet' = m
           /\ running' = Append(running, [id |-> t, before |-> m])
  <2> DEFINE frame == [id |-> t, before |-> m]
  <2>1. frame \in Frame /\ running \in Seq(Frame)
    BY <1>3 DEF Frame, Good, WalletInv, RunningInv
  <2>2. /\ running' \in Seq(Frame) /\ Depth' = Depth + 1 /\ running'[Depth + 1] = frame
        /\ \A k \in 1 .. Depth : running'[k] = running[k]
    <3> HIDE DEF frame
    <3>1. running' = Append(running, frame)
      BY <1>7 DEF frame
    <3>2. QED
      BY <2>1, <3>1 DEF Depth
  <2>3. ASSUME NEW k \in 1 .. Depth, NEW s \in Ids
        PROVE  InProgress(s, k)' <=> InProgress(s, k)
    BY <1>1, <2>2 DEF InProgress
  <2>4. ASSUME NEW s \in Ids PROVE InProgress(s, Depth)' <=> (InProgress(s, Depth) \/ s = t)
    BY <1>1, <2>2 DEF InProgress
  <2>5. Booked(m, Depth)'
    BY <1>1, <1>2, <1>3, <2>4 DEF Booked
  <2>6. \A k \in 1 .. Depth : Booked(running[k].before, k)'
    BY <2>2, <2>3 DEF Booked, WalletInv, RunningInv
  <2>7. \A k \in 1 .. Depth : Later(running[k].before, m)
    BY <1>3 DEF WalletInv, RunningInv, Later
  <2>8. RunningInv'
    <3>0. \A k \in 1 .. Depth + 1 : k \in 1 .. Depth \/ k = Depth + 1
      BY <1>1
    <3>1. \A j, k \in 1 .. Depth + 1 : running'[j].id = running'[k].id => j = k
      <4>1. \A j \in 1 .. Depth : running'[j].id # running'[Depth + 1].id
        BY <1>2, <2>2 DEF InProgress
      <4>2. \A j, k \in 1 .. Depth : running'[j].id = running'[k].id => j = k
        BY <2>2 DEF WalletInv, RunningInv
      <4>3. QED
        BY <3>0, <4>1, <4>2
    <3>2. \A k \in 1 .. Depth + 1 : Good(running'[k].before) /\ Booked(running[k].before, k)'
      <4>1. ASSUME NEW k \in 1 .. Depth + 1, k = Depth + 1
            PROVE  Good(running'[k].before) /\ Booked(running[k].before, k)'
        <5>1. k = Depth' /\ running'[k].before = m
          BY <2>2, <4>1
        <5>2. QED
          BY <1>3, <2>5, <5>1 DEF Booked
      <4>2. \A k \in 1 .. Depth : Good(running'[k].before)
        BY <2>2 DEF WalletInv, RunningInv
      <4>3. QED
        BY <3>0, <2>6, <4>1, <4>2
    <3>3. \A j, k \in 1 .. Depth + 1 : j <= k => Later(running'[j].before, running'[k].before)
      <4> SUFFICES ASSUME NEW j \in 1 .. Depth + 1, NEW k \in 1 .. Depth + 1, j <= k
                   PROVE  Later(running'[j].before, running'[k].before)
        OBVIOUS
      <4>1. CASE k \in 1 .. Depth
        BY <1>1, <2>2, <4>1 DEF WalletInv, RunningInv
      <4>2. CASE k = Depth + 1 /\ j \in 1 .. Depth
        BY <2>2, <2>7, <4>2
      <4>3. CASE k = Depth + 1 /\ j = Depth + 1
        BY <4>3 DEF Later
      <4>4. QED
        BY <3>0, <4>1, <4>2, <4>3
    <3>4. \A k \in 1 .. Depth + 1 : Later(running'[k].before, wallet')
      BY <1>1, <1>7, <2>2, <2>7 DEF Later
    <3>5. QED
      BY <2>2, <3>1, <3>2, <3>3, <3>4 DEF RunningInv, Good, Later
  <2>9. WalletInv'
    BY <1>3, <1>7, <2>2, <2>5, <2>8 DEF WalletInv, Good
  <2>10. \A s \in Ids \ {t} : wallet'.executed[s] => w.executed[s]
    BY <1>2, <1>3, <1>7
  <2>11. QED
    BY <1>3, <1>4, <1>7, <2>9, <2>10
<1>8. QED
  BY <1>5, <1>6, <1>7 DEF ExecuteTransaction
LEMMA CallReturnsKeeps ==
    ASSUME WalletAssumption, WalletInv, CallReturns
    PROVE  WalletInv' /\ BackedStep
<1> DEFINE before == running[Depth].before
           d      == Depth - 1
<1>1. /\ running \in Seq(Frame) /\ Depth \in Nat /\ Depth # 0 /\ DOMAIN running = 1 .. Depth
      /\ Depth \in 1 .. Depth /\ running[Depth].id \in Ids
  <2>1. running \in Seq(Frame) /\ running # <<>>
    BY DEF WalletInv, RunningInv, CallReturns
  <2>2. Depth # 0
    BY <2>1 DEF Depth
  <2>3. QED
    BY <2>1, <2>2, DepthType DEF WalletInv
<1>id. PICK id \in Ids : id = running[Depth].id
  BY <1>1
<1>2. /\ running' \in Seq(Frame) /\ Depth' = d /\ d \in Nat
      /\ \A k \in 1 .. d : running'[k] = running[k] /\ k \in 1 .. Depth
  BY <1>1 DEF CallReturns, Depth
<1>3. /\ Good(wallet) /\ Booked(wallet, Depth) /\ Good(before) /\ Booked(before, Depth)
      /\ Later(before, wallet) /\ RunningInv
  BY <1>1 DEF WalletInv, RunningInv
<1>4. /\ wallet.executed \in [Ids -> BOOLEAN] /\ wallet.carriedOut \in [Ids -> Nat]
      /\ before.executed \in [Ids -> BOOLEAN]
  BY <1>3, StorageFields DEF Good
<1>5. InProgress(id, Depth) /\ wallet.carriedOut[id] = 0 /\ before.carriedOut[id] = 0
  <2>1. InProgress(id, Depth)
    BY <1>1, <1>id DEF InProgress
  <2>2. QED
    BY <1>1, <1>3, <2>1 DEF Booked
<1>6. ASSUME NEW s \in Ids
      PROVE  (InProgress(s, Depth) <=> (InProgress(s, Depth)' \/ s = id)) /\ ~InProgress(id, Depth)'
  <2>1. InProgress(s, Depth)' <=> \E j \in 1 .. d : running[j].id = s
    BY <1>2 DEF InProgress
  <2>2. InProgress(s, Depth) <=> ((\E j \in 1 .. d : running[j].id = s) \/ s = id)
    BY <1>1, <1>2, <1>id DEF InProgress
  <2>3. \A j \in 1 .. d : running[j].id # id
    BY <1>1, <1>2, <1>id DEF WalletInv, RunningInv
  <2>4. ~InProgress(id, Depth)'
    BY <1>2, <2>3 DEF InProgress
  <2>5. QED
    BY <2>1, <2>2, <2>4
<1> HIDE DEF before, d
(* The calls that go on stay as they are, if the wallet only gains by the return. *)
<1>7. ASSUME \A k \in 1 .. d : Later(running[k].before, wallet')
      PROVE  RunningInv'
  <2>1. \A k \in 1 .. d : Booked(running[k].before, k)'
    BY <1>1, <1>2, <1>3 DEF RunningInv, Booked, InProgress
  <2>2. \A k \in 1 .. d : Good(running'[k].before)
    BY <1>2, <1>3 DEF RunningInv
  <2>3. \A j, k \in 1 .. d : j <= k => Later(running'[j].before, running'[k].before)
    BY <1>2, <1>3 DEF RunningInv
  <2>4. \A j, k \in 1 .. d : running'[j].id = running'[k].id => j = k
    BY <1>2, <1>3 DEF RunningInv
  <2>5. \A k \in 1 .. d : Later(running'[k].before, wallet')
    BY <1>2, <1>7
  <2>6. QED
    BY <1>2, <2>1, <2>2, <2>3, <2>4, <2>5 DEF RunningInv, Good, Later
<1>8. CASE wallet' = Done(wallet, id)
  <2>1. /\ Good(wallet') /\ wallet'.executed = wallet.executed
        /\ wallet'.carriedOut = [wallet.carriedOut EXCEPT ![id] = @ + 1]
    BY <1>1, <1>3, <1>8, BooksChange
  <2>2. Booked(wallet, Depth)'
    BY <1>1, <1>3, <1>4, <1>5, <1>6, <2>1 DEF Booked
  <2>3. \A k \in 1 .. d : Later(running[k].before, wallet')
    BY <1>1, <1>2, <1>3, <1>4, <1>5, <2>1 DEF RunningInv, Later
  <2>4. BackedStep
    BY <2>1 DEF BackedStep, Begins
  <2>5. QED
    BY <1>7, <2>1, <2>2, <2>3, <2>4 DEF WalletInv, Good
<1>9. CASE wallet' = Unmarked(before, id)
  <2>1. /\ Good(wallet') /\ wallet'.executed = [before.executed EXCEPT ![id] = FALSE]
        /\ wallet'.carriedOut = before.carriedOut
    BY <1>1, <1>3, <1>9, BooksChange
  <2>2. Booked(wallet, Depth)'
    BY <1>1, <1>3, <1>4, <1>5, <1>6, <2>1 DEF Booked
  <2>3. \A k \in 1 .. d : Later(running[k].before, wallet')
    <3>1. \A k \in 1 .. d : Later(running[k].before, before)
      BY <1>1, <1>2, <1>3 DEF RunningInv, before
    <3>2. QED
      BY <2>1, <3>1 DEF Later
  <2>4. BackedStep
    <3>1. ASSUME NEW s \in Ids, wallet'.executed[s] PROVE wallet.executed[s]
      <4>1. s # id /\ before.executed[s]
        BY <1>1, <1>4, <2>1, <3>1
      <4>2. wallet.carriedOut[s] = 1 \/ InProgress(s, Depth)
        BY <1>3, <4>1 DEF Booked, Later
      <4>3. QED
        BY <1>3, <4>2 DEF Booked
    <3>2. QED
      BY <3>1 DEF BackedStep, Begins
  <2>5. QED
    BY <1>7, <2>1, <2>2, <2>3, <2>4 DEF WalletInv, Good
<1>10. QED
  BY <1>8, <1>9, <1>id DEF CallReturns, before, Depth

LEMMA ConfirmedKeeps ==
    ASSUME NEW w, Good(w), NEW a \in OwnerValues, NEW t \in Ids
    PROVE  /\ Good(Confirmed(w, a, t)) /\ SameOwners(w, Confirmed(w, a, t))
           /\ Confirmed(w, a, t).executed = w.executed
           /\ Confirmed(w, a, t).carriedOut = w.carriedOut
<1>1. /\ SameOwners(w, Confirmed(w, a, t)) /\ Confirmed(w, a, t).executed = w.executed
      /\ Confirmed(w, a, t).carriedOut = w.carriedOut
  BY DEF Good, Storage, Confirmed, SameOwners
<1>2. Confirmed(w, a, t) \in Storage
  <2>1. [w.confirmations EXCEPT ![t] = @ \cup {a}] \in [Ids -> SUBSET OwnerValues]
    BY StorageFields DEF Good
  <2>2. QED
    BY <2>1 DEF Good, Storage, Confirmed
<1>3. QED
  BY <1>1, <1>2, OwnersStayGood

LEMMA SubmitKeeps ==
    ASSUME WalletAssumption, WalletInv, NEW a \in Addresses, NEW c \in Calls,
           SubmitTransaction(a, c)
    PROVE  WalletInv' /\ BackedStep
<1> DEFINE t == wallet.transactionCount + 1
           w == Added(wallet, c)
<1>1. t \in Ids /\ a \in OwnerValues /\ Good(wallet)
  BY DEF SubmitTransaction, OwnerValues, WalletInv
<1>2. /\ SameOwners(wallet, w) /\ w.executed = wallet.executed
      /\ w.carriedOut = wallet.carriedOut
  BY <1>1 DEF Good, Storage, Added, SameOwners
<1>3. w \in Storage
  <2>1. /\ [wallet.transactions EXCEPT ![t] = c] \in [Ids -> Calls]
        /\ t \in 0 .. MaxTransactions
    BY <1>1, StorageFields DEF Good, Ids
  <2>2. QED
    BY <1>1, <2>1 DEF Good, Storage, Added
<1>4. Good(w)
  BY <1>1, <1>2, <1>3, OwnersStayGood
<1>5. ExecuteTransaction(Confirmed(w, a, t), t)
  BY DEF SubmitTransaction
<1> HIDE DEF w, t
<1>6. /\ Good(Confirmed(w, a, t)) /\ SameOwners(wallet, Confirmed(w, a, t))
      /\ Confirmed(w, a, t).executed = wallet.executed
      /\ Confirmed(w, a, t).carriedOut = wallet.carriedOut
  BY <1>1, <1>2, <1>4, ConfirmedKeeps DEF SameOwners
<1>7. QED
  BY <1>1, <1>5, <1>6, ExecuteKeeps

LEMMA WalletInvNext == WalletAssumption /\ WalletInv /\ [WalletNext]_walletVars => WalletInv' /\ BackedStep
<1> SUFFICES ASSUME WalletAssumption, WalletInv, [WalletNext]_walletVars PROVE WalletInv' /\ BackedStep
  OBVIOUS
<1>g. Good(wallet) /\ \A a \in Addresses : a \in OwnerValues
  BY DEF WalletInv, OwnerValues
<1>1. CASE UNCHANGED walletVars
  <2>1. Good(wallet') /\ Booked(wallet', Depth) /\ Later(wallet, wallet') /\ running' = running
    BY <1>1 DEF walletVars, WalletInv, Later
  <2>2. BackedStep
    BY <1>1 DEF walletVars, BackedStep, Begins
  <2>3. QED
    BY <2>1, <2>2, SameCallsKeep
<1>2. ASSUME NEW a \in Addresses, NEW t \in Ids, ConfirmTransaction(a, t)
      PROVE  WalletInv' /\ BackedStep
  <2>1. ExecuteTransaction(Confirmed(wallet, a, t), t)
    BY <1>2 DEF ConfirmTransaction
  <2>2. QED
    BY <1>g, <2>1, ConfirmedKeeps, ExecuteKeeps
<1>3. ASSUME NEW a \in Addresses, NEW t \in Ids, RetryTransaction(a, t)
      PROVE  WalletInv' /\ BackedStep
  <2>1. ExecuteTransaction(wallet, t)
    BY <1>3 DEF RetryTransaction
  <2>2. SameOwners(wallet, wallet)
    BY DEF SameOwners
  <2>3. QED
    BY <1>g, <2>1, <2>2, ExecuteKeeps
<1>4. ASSUME NEW a \in Addresses, NEW t \in Ids, RevokeConfirmation(a, t)
      PROVE  WalletInv' /\ BackedStep
  <2>1. wallet' = [wallet EXCEPT !.confirmations[t] = @ \ {a}] /\ running' = running
    BY <1>4 DEF RevokeConfirmation
  <2>2. SameOwners(wallet, wallet') /\ wallet'.executed = wallet.executed
        /\ wallet'.carriedOut = wallet.carriedOut
    BY <1>g, <2>1 DEF Good, Storage, SameOwners
  <2>3. wallet' \in Storage
    <3>1. [wallet.confirmations EXCEPT ![t] = @ \ {a}] \in [Ids -> SUBSET OwnerValues]
      BY <1>g, StorageFields DEF Good
    <3>2. QED
      BY <1>g, <2>1, <3>1 DEF Good, Storage
  <2>4. Good(wallet') /\ Booked(wallet', Depth) /\ Later(wallet, wallet')
    BY <1>g, <2>2, <2>3, OwnersStayGood DEF WalletInv, Booked, Later
  <2>5. BackedStep
    BY <2>2 DEF BackedStep, Begins
  <2>6. QED
    BY <2>1, <2>4, <2>5, SameCallsKeep
<1>5. CASE WalletNext
  BY <1>2, <1>3, <1>4, <1>5, CallReturnsKeeps, SubmitKeeps DEF WalletNext
<1>6. QED
  BY <1>1, <1>5

LEMMA WalletInvariant == WalletAssumption /\ WalletSpec => []WalletInv
<1> SUFFICES ASSUME WalletAssumption PROVE WalletSpec => []WalletInv
  OBVIOUS
<1>1. WalletInit => WalletInv
  BY WalletInvInit
<1>2. WalletInv /\ [WalletNext]_walletVars => WalletInv'
  BY WalletInvNext
<1>3. QED
  BY <1>1, <1>2, PTL DEF WalletSpec

LEMMA SoundBooks == WalletInv => CarriedOutOnce /\ Settled
<1> SUFFICES ASSUME WalletInv PROVE CarriedOutOnce /\ Settled
  OBVIOUS
<1>d. /\ Depth \in Nat /\ DOMAIN running = 1 .. Depth /\ Booked(wallet, Depth)
      /\ \A j, k \in 1 .. Depth : running[j].id = running[k].id => j = k
  BY DepthType DEF WalletInv, RunningInv
<1>1. ASSUME NEW t \in Ids
      PROVE  wallet.carriedOut[t] + Cardinality({i \in DOMAIN running : running[i].id = t}) <= 1
  <2> DEFINE S == {i \in DOMAIN running : running[i].id = t}
  <2>1. CASE InProgress(t, Depth)
    <3>1. PICK j \in 1 .. Depth : running[j].id = t
      BY <2>1 DEF InProgress
    <3>2. S = {j}
      BY <1>d, <3>1
    <3>3. Cardinality(S) = 1 /\ wallet.carriedOut[t] = 0
      BY <1>d, <2>1, <3>2, FS_Singleton DEF Booked
    <3>4. QED
      BY <3>3
  <2>2. CASE ~InProgress(t, Depth)
    <3>1. S = {}
      BY <1>d, <2>2 DEF InProgress
    <3>2. Cardinality(S) = 0 /\ wallet.carriedOut[t] \in {0, 1}
      BY <1>d, <3>1, FS_EmptySet DEF Booked
    <3>3. QED
      BY <3>2
  <2>3. QED
    BY <2>1, <2>2
<1>2. Settled
  BY <1>d DEF Settled, Booked, InProgress, Depth
<1>3. QED
  BY <1>1, <1>2 DEF CarriedOutOnce

(* Every place of the list is another owner's: as many owners as places, those who *)
(* can sign and, in one place at most, address 0.                                  *)
LEMMA OwnersCounted ==
    ASSUME WalletAssumption, Good(wallet)
    PROVE  /\ Cardinality(Signers) \in Nat
           /\ ~wallet.isOwner[Nobody] => Cardinality(Signers) = Len(wallet.owners)
           /\ wallet.isOwner[Nobody] => Cardinality(Signers) + 1 = Len(wallet.owners)
<1> DEFINE s == wallet.owners
           A == {a \in OwnerValues : wallet.isOwner[a]}
           f == [i \in 1 .. Len(s) |-> s[i]]
<1>1. /\ s \in Seq(OwnerValues) /\ Distinct(s) /\ Len(s) \in Nat /\ DOMAIN s = 1 .. Len(s)
      /\ \A a \in OwnerValues : wallet.isOwner[a] <=> \E i \in DOMAIN s : s[i] = a
  BY DEF Good, Storage
<1>2. \A i \in 1 .. Len(s) : s[i] \in A
  BY <1>1
<1>3. f \in Bijection(1 .. Len(s), A)
  <2>1. f \in [1 .. Len(s) -> A]
    BY <1>2
  <2>2. \A i, j \in 1 .. Len(s) : f[i] = f[j] => i = j
    BY <1>1 DEF Distinct
  <2>3. \A a \in A : \E i \in 1 .. Len(s) : f[i] = a
    BY <1>1
  <2>4. QED
    BY <2>1, <2>2, <2>3, Fun_IsBij
<1>4. IsFiniteSet(1 .. Len(s)) /\ Cardinality(1 .. Len(s)) = Len(s)
  BY <1>1, FS_Interval
<1>5. IsFiniteSet(A) /\ Cardinality(A) = Len(s)
  BY <1>3, <1>4, FS_Bijection DEF ExistsBijection
<1>6. Nobody \notin Signers
  BY DEF Signers, WalletAssumption
<1>7. CASE wallet.isOwner[Nobody]
  <2>1. A = Signers \cup {Nobody} /\ Signers = A \ {Nobody} /\ Nobody \in A
    BY <1>6, <1>7 DEF Signers, OwnerValues
  <2>2. IsFiniteSet(Signers) /\ Cardinality(Signers) = Cardinality(A) - 1
    BY <1>5, <2>1, FS_RemoveElement
  <2>3. QED
    BY <1>1, <1>5, <1>7, <2>2, FS_CardinalityType
<1>8. CASE ~wallet.isOwner[Nobody]
  <2>1. A = Signers
    BY <1>8 DEF Signers, OwnerValues
  <2>2. QED
    BY <1>1, <1>5, <1>8, <2>1
<1>9. QED
  BY <1>7, <1>8

(* Owners and flags agree, the owners who can sign are enough for the requirement, *)
(* or one short when address 0 is an owner, and no transaction is carried out      *)
(* twice or lost when its call fails, whatever is called back and retried          *)
(* (MultiSigWallet.sol:160, 229).                                                  *)
THEOREM WalletStaysSound == WalletAssumption /\ WalletSpec => []WalletSound
<1> SUFFICES ASSUME WalletAssumption PROVE WalletSpec => []WalletSound
  OBVIOUS
<1>1. WalletInv => WalletSound
  <2> SUFFICES ASSUME WalletInv PROVE WalletSound
    OBVIOUS
  <2>1. WalletTypeOK
    BY DEF WalletInv, RunningInv, Good, Frame, WalletTypeOK
  <2>2. OwnersAgree
    BY DEF WalletInv, Good, OwnersAgree
  <2>3. RequirementMet
    <3>1. Good(wallet)
      BY DEF WalletInv
    <3>2. wallet.required \in 1 .. Len(wallet.owners) /\ Len(wallet.owners) <= MAX_OWNER_COUNT
          /\ wallet.isOwner[Nobody] \in BOOLEAN
      BY <3>1, StorageFields DEF Good, OwnerValues
    <3>3. /\ Cardinality(Signers) \in Nat
          /\ ~wallet.isOwner[Nobody] => Cardinality(Signers) = Len(wallet.owners)
          /\ wallet.isOwner[Nobody] => Cardinality(Signers) + 1 = Len(wallet.owners)
      BY <3>1, OwnersCounted
    <3>4. QED
      BY <3>2, <3>3 DEF RequirementMet
  <2>4. QED
    BY <2>1, <2>2, <2>3, SoundBooks DEF WalletSound
<1>2. QED
  BY <1>1, WalletInvariant, PTL

(* What the wallet does has the confirmations of as many different present *)
(* owners as are required (MultiSigWallet.sol:251).                        *)
THEOREM OwnersBackCalls == WalletAssumption /\ WalletSpec => BackedByOwners
<1> SUFFICES ASSUME WalletAssumption PROVE WalletSpec => BackedByOwners
  OBVIOUS
<1>1. WalletSpec => []WalletInv
  BY WalletInvariant
<1>2. WalletInv /\ [WalletNext]_walletVars => [BackedStep]_walletVars
  BY WalletInvNext
<1>3. QED
  BY <1>1, <1>2, PTL DEF WalletSpec, BackedByOwners, BackedStep
====================================================================================
