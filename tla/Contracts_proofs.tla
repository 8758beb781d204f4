------------------------------ MODULE Contracts_proofs -----------------------------
(***************************************************************************)
(* Theorems about Newsroom, for any accounts, hashes and bounds; about      *)
(* Government, for any voters, proposals and dates; and about CVLToken, for *)
(* any holders, supply, amounts and lists.                                  *)
(***************************************************************************)
EXTENDS Newsroom, Government, CVLToken, Sums_proofs, TLAPS

(* The newsroom. *)

Content  == [author : Authors, revisions : Seq(Revision)]
LastId   == Len(contents)

(* The inductive invariant: whoever is shown as the signer signed this hash, *)
(* and it is noted in which content the hash was signed.                     *)
Backed(id, r) ==
    Signed(id, r) =>
        /\ contents[id].author \in Accounts
        /\ contents[id].revisions[r].signature = [by |-> contents[id].author, hash |-> HashOf(id, r)]
        /\ usedSignatures[HashOf(id, r)] = id
AllBacked == \A id \in DOMAIN contents : \A r \in DOMAIN contents[id].revisions : Backed(id, r)

HasCharter  == 1 \in DOMAIN contents
NewsroomInv == NewsroomTypeOK /\ HasCharter /\ AllBacked

(* What NothingTakenBack and CharterIsTheOwners say of a step. *)
KeepsContents ==
    /\ \A id \in DOMAIN contents :
         /\ contents[id].author # Nobody => contents'[id].author = contents[id].author
         /\ \A r \in DOMAIN contents[id].revisions :
              /\ r \in DOMAIN contents'[id].revisions
              /\ contents'[id].revisions[r].contentHash = HashOf(id, r)
              /\ Signed(id, r) => contents'[id].revisions[r] = contents[id].revisions[r]
KeepsCharter == owner = Nobody => contents'[1] = contents[1]

------------------------------------------------------------------------------------
(* What verifyRevisionSignature grants whoever passes it: a signature is the *)
(* author's on this hash, which is now noted as used in this content.        *)
LEMMA VerifiedMeans ==
    ASSUME NewsroomAssumption, NewsroomTypeOK,
           NEW author \in Authors, NEW id \in 1 .. LastId + 1, NEW h \in Hashes, NEW signature,
           NEW isSigned, Verified(author, id, h, signature, isSigned)
    PROVE  /\ usedSignatures' \in [Hashes -> 0 .. LastId + 1]
           /\ id <= LastId => usedSignatures' \in [Hashes -> 0 .. LastId]
           /\ \A g \in Hashes : usedSignatures[g] # 0 => usedSignatures'[g] = usedSignatures[g]
           /\ signature # Unsigned =>
                /\ author \in Accounts
                /\ signature = [by |-> author, hash |-> h]
                /\ usedSignatures'[h] = id
<1>1. LastId \in Nat
  BY DEF NewsroomTypeOK, LastId
<1>2. usedSignatures \in [Hashes -> 0 .. LastId]
  BY DEF NewsroomTypeOK, LastId
<1> HIDE DEF LastId
<1>3. QED
  BY <1>1, <1>2 DEF Verified, Recovers, NotUsedElsewhere, Authors

LEMMA RevisionType ==
    ASSUME NewsroomTypeOK, NEW i \in DOMAIN contents, NEW s \in DOMAIN contents[i].revisions
    PROVE  contents[i].revisions[s] \in Revision /\ HashOf(i, s) \in Hashes
<1>0. contents \in Seq(Content)
  BY DEF NewsroomTypeOK, Content
<1>1. contents[i] \in Content
  BY <1>0
<1>2. contents[i].revisions \in Seq(Revision)
  BY <1>1 DEF Content
<1>3. contents[i].revisions[s] \in Revision
  BY <1>2
<1>4. QED
  BY <1>3 DEF HashOf, Revision

LEMMA NewsroomInvInit == NewsroomAssumption /\ NewsroomInit => NewsroomInv
<1> SUFFICES ASSUME NewsroomAssumption, NewsroomInit PROVE NewsroomInv
  OBVIOUS
<1>1. PICK h \in Hashes : contents = <<[author |-> Nobody,
                               revisions |-> <<[contentHash |-> h, signature |-> Unsigned]>>]>>
  BY DEF NewsroomInit
<1>2. Nobody \in Authors /\ Unsigned \in Signatures
  BY DEF Authors, Signatures
<1>3. NewsroomTypeOK
  BY <1>1, <1>2 DEF NewsroomTypeOK, NewsroomInit, NewsroomAssumption, Authors, Revision
<1>4. AllBacked
  BY <1>1 DEF AllBacked, Backed, Signed
<1>5. HasCharter
  BY <1>1 DEF HasCharter
<1>6. QED
  BY <1>3, <1>4, <1>5 DEF NewsroomInv

(* Steps that change roles only. *)
LEMMA RolesKeep ==
    ASSUME NewsroomInv, UNCHANGED <<contents, usedSignatures>>,
           owner' \in Authors, editors' \subseteq Accounts \cup {Group}
    PROVE  NewsroomInv' /\ KeepsContents /\ KeepsCharter
<1>1. NewsroomTypeOK'
  BY DEF NewsroomInv, NewsroomTypeOK
<1>2. AllBacked'
  BY DEF NewsroomInv, AllBacked, Backed, Signed, HashOf
<1>3. HasCharter'
  BY DEF NewsroomInv, HasCharter
<1>4. QED
  BY <1>1, <1>2, <1>3 DEF NewsroomInv, KeepsContents, KeepsCharter, HashOf

LEMMA PublishKeeps ==
    ASSUME NewsroomAssumption, NewsroomInv, NEW u \in Accounts, NEW h \in Hashes,
           NEW author \in Authors, NEW signature \in Signatures,
           PublishContent(u, h, author, signature)
    PROVE  NewsroomInv' /\ KeepsContents /\ KeepsCharter
<1> DEFINE new == [author |-> author,
                   revisions |-> <<[contentHash |-> h, signature |-> signature]>>]
<1>t. NewsroomTypeOK /\ HasCharter /\ AllBacked
  BY DEF NewsroomInv
<1>n. /\ LastId \in Nat /\ 1 <= LastId
      /\ contents \in Seq(Content) /\ DOMAIN contents = 1 .. LastId
  BY <1>t DEF NewsroomTypeOK, LastId, Content, HasCharter
<1>1. PICK isSigned \in BOOLEAN : Verified(author, LastId + 1, h, signature, isSigned)
  BY DEF PublishContent, NewId, LastId
<1>2. /\ usedSignatures' \in [Hashes -> 0 .. LastId + 1]
      /\ \A g \in Hashes : usedSignatures[g] # 0 => usedSignatures'[g] = usedSignatures[g]
      /\ signature # Unsigned => /\ author \in Accounts
                                 /\ signature = [by |-> author, hash |-> h]
                                 /\ usedSignatures'[h] = LastId + 1
  BY <1>t, <1>n, <1>1, VerifiedMeans
<1>3. new \in Content
  BY DEF Content, Revision
<1>4. contents' = Append(contents, new)
  BY DEF PublishContent
<1>5. /\ contents' \in Seq(Content) /\ Len(contents') = LastId + 1
      /\ DOMAIN contents' = 1 .. LastId + 1
      /\ \A id \in 1 .. LastId : contents'[id] = contents[id]
      /\ contents'[LastId + 1] = new
  <2> HIDE DEF new
  <2>1. QED
    BY <1>n, <1>3, <1>4 DEF LastId
<1>6. NewsroomTypeOK'
  BY <1>t, <1>2, <1>5 DEF NewsroomTypeOK, PublishContent, access, Content
<1>7. AllBacked'
  <2> SUFFICES ASSUME NEW id \in 1 .. LastId + 1, NEW r \in DOMAIN contents'[id].revisions
               PROVE  Backed(id, r)'
    BY <1>5 DEF AllBacked
  <2>1. CASE id <= LastId
    <3>1. id \in DOMAIN contents /\ contents'[id] = contents[id] /\ contents[id] \in Content
      BY <1>n, <1>5, <2>1
    <3>2. r \in DOMAIN contents[id].revisions /\ Backed(id, r)
      BY <1>t, <3>1 DEF AllBacked
    <3>3. HashOf(id, r) \in Hashes
      BY <1>t, <3>1, <3>2, RevisionType
    <3>4. HashOf(id, r)' = HashOf(id, r) /\ (Signed(id, r)' <=> Signed(id, r))
      BY <3>1 DEF HashOf, Signed
    <3>5. ASSUME Signed(id, r) PROVE usedSignatures'[HashOf(id, r)] = id
      <4>1. usedSignatures[HashOf(id, r)] = id /\ id # 0
        BY <3>2, <3>5 DEF Backed
      <4>2. QED
        BY <1>2, <3>3, <4>1
    <3>6. QED
      BY <3>1, <3>2, <3>4, <3>5 DEF Backed
  <2>2. CASE id = LastId + 1
    BY <1>2, <1>5, <2>2 DEF Backed, Signed, HashOf
  <2>3. QED
    BY <1>n, <2>1, <2>2
<1>8. KeepsContents
  BY <1>n, <1>5 DEF KeepsContents, HashOf
<1>9. KeepsCharter
  BY <1>n, <1>5 DEF KeepsCharter
<1>10. HasCharter'
  BY <1>n, <1>5 DEF HasCharter
<1>11. QED
  BY <1>6, <1>7, <1>8, <1>9, <1>10 DEF NewsroomInv
(* Update and signing change one revision of one content, the rest is kept. *)
LEMMA OneRevisionKeeps ==
    ASSUME NewsroomAssumption, NewsroomInv, access' = access,
           NEW id \in 1 .. LastId, NEW r \in Nat \ {0}, NEW author \in Authors, NEW h \in Hashes,
           NEW signature \in Signatures, NEW isSigned \in BOOLEAN,
           Verified(author, id, h, signature, isSigned),
           contents[id].author # Nobody => author = contents[id].author,
           \A s \in DOMAIN contents[id].revisions \ {r} :
               Signed(id, s) => author = contents[id].author,
           contents' \in Seq(Content), DOMAIN contents' = DOMAIN contents,
           \A i \in DOMAIN contents \ {id} : contents'[i] = contents[i],
           contents'[id].author = author,
           DOMAIN contents'[id].revisions = DOMAIN contents[id].revisions \cup {r},
           \A s \in DOMAIN contents[id].revisions \ {r} :
               contents'[id].revisions[s] = contents[id].revisions[s],
           contents'[id].revisions[r] = [contentHash |-> h, signature |-> signature],
           r \in DOMAIN contents[id].revisions =>
               h = HashOf(id, r) /\ (Signed(id, r) => signature # Unsigned)
    PROVE  NewsroomInv' /\ KeepsContents
<1>t. NewsroomTypeOK /\ HasCharter /\ AllBacked
  BY DEF NewsroomInv
<1>n. LastId \in Nat /\ contents \in Seq(Content) /\ DOMAIN contents = 1 .. LastId
  BY <1>t DEF NewsroomTypeOK, LastId, Content
<1>1. /\ usedSignatures' \in [Hashes -> 0 .. LastId]
      /\ \A g \in Hashes : usedSignatures[g] # 0 => usedSignatures'[g] = usedSignatures[g]
      /\ signature # Unsigned => /\ author \in Accounts
                                 /\ signature = [by |-> author, hash |-> h]
                                 /\ usedSignatures'[h] = id
  BY <1>t, <1>n, VerifiedMeans
<1>2. NewsroomTypeOK'
  <2>1. Len(contents') = LastId
    BY <1>n
  <2>2. QED
    BY <1>t, <1>1, <2>1 DEF NewsroomTypeOK, Content, access
<1>3. ASSUME NEW i \in DOMAIN contents, NEW s \in DOMAIN contents[i].revisions, Signed(i, s)
      PROVE  /\ HashOf(i, s) \in Hashes /\ usedSignatures'[HashOf(i, s)] = i
             /\ contents[i].author \in Accounts
             /\ contents[i].revisions[s].signature = [by |-> contents[i].author, hash |-> HashOf(i, s)]
  <2>1. Backed(i, s)
    BY <1>t DEF AllBacked
  <2>2. HashOf(i, s) \in Hashes
    BY <1>t, RevisionType
  <2>3. usedSignatures[HashOf(i, s)] = i /\ i # 0
    BY <1>n, <1>3, <2>1 DEF Backed
  <2>4. QED
    BY <1>1, <1>3, <2>1, <2>2, <2>3 DEF Backed
<1>4. AllBacked'
  <2> SUFFICES ASSUME NEW i \in DOMAIN contents, NEW s \in DOMAIN contents'[i].revisions,
                      Signed(i, s)'
               PROVE  Backed(i, s)'
    BY DEF AllBacked, Backed
  <2>1. CASE i # id
    <3>1. contents'[i] = contents[i]
      BY <2>1
    <3>2. s \in DOMAIN contents[i].revisions /\ Signed(i, s) /\ HashOf(i, s)' = HashOf(i, s)
      BY <3>1 DEF Signed, HashOf
    <3>3. QED
      BY <1>3, <3>1, <3>2 DEF Backed
  <2>2. CASE i = id /\ s # r
    <3>1. s \in DOMAIN contents[id].revisions \ {r}
      BY <2>2
    <3>2. contents'[id].revisions[s] = contents[id].revisions[s]
      BY <3>1
    <3>3. Signed(id, s) /\ HashOf(id, s)' = HashOf(id, s)
      BY <2>2, <3>2 DEF Signed, HashOf
    <3>4. QED
      BY <1>3, <1>n, <2>2, <3>1, <3>2, <3>3 DEF Backed
  <2>3. CASE i = id /\ s = r
    BY <1>1, <2>3 DEF Backed, Signed, HashOf
  <2>4. QED
    BY <2>1, <2>2, <2>3
<1>5. KeepsContents
  <2> SUFFICES ASSUME NEW i \in DOMAIN contents
               PROVE  /\ contents[i].author # Nobody => contents'[i].author = contents[i].author
                      /\ \A s \in DOMAIN contents[i].revisions :
                           /\ s \in DOMAIN contents'[i].revisions
                           /\ contents'[i].revisions[s].contentHash = HashOf(i, s)
                           /\ Signed(i, s) => contents'[i].revisions[s] = contents[i].revisions[s]
    BY DEF KeepsContents
  <2>1. CASE i # id
    BY <2>1 DEF HashOf
  <2>2. CASE i = id
    <3>1. contents[id].author # Nobody => contents'[id].author = contents[id].author
      OBVIOUS
    <3>2. ASSUME NEW s \in DOMAIN contents[id].revisions
          PROVE  /\ s \in DOMAIN contents'[id].revisions
                 /\ contents'[id].revisions[s].contentHash = HashOf(id, s)
                 /\ Signed(id, s) => contents'[id].revisions[s] = contents[id].revisions[s]
      <4>1. CASE s # r
        BY <4>1 DEF HashOf
      <4>2. CASE s = r
        <5>1. contents[id].revisions[r] \in Revision
          BY <1>t, <1>n, <4>2, RevisionType
        <5>2. ASSUME Signed(id, r) PROVE contents'[id].revisions[r] = contents[id].revisions[r]
          <6>1. /\ contents[id].revisions[r].signature = [by |-> contents[id].author, hash |-> h]
                /\ contents[id].author \in Accounts
            BY <1>3, <1>n, <4>2, <5>2
          <6>2. signature = [by |-> contents[id].author, hash |-> h]
            BY <1>1, <4>2, <5>2, <6>1 DEF NewsroomAssumption
          <6>3. contents[id].revisions[r] = [contentHash |-> h, signature |-> signature]
            BY <4>2, <5>1, <6>1, <6>2 DEF Revision, HashOf
          <6>4. QED
            BY <6>3
        <5>3. QED
          BY <4>2, <5>2 DEF HashOf
      <4>3. QED
        BY <4>1, <4>2
    <3>3. QED
      BY <2>2, <3>1, <3>2
  <2>3. QED
    BY <2>1, <2>2
<1>6. QED
  BY <1>2, <1>4, <1>5, <1>t DEF NewsroomInv, HasCharter
LEMMA UpdateKeeps ==
    ASSUME NewsroomAssumption, NewsroomInv, NEW u \in Accounts, NEW id \in DOMAIN contents,
           NEW h \in Hashes, NEW signature \in Signatures, UpdateRevision(u, id, h, signature)
    PROVE  NewsroomInv' /\ KeepsContents /\ KeepsCharter
<1> DEFINE revs == contents[id].revisions
           rev  == [contentHash |-> h, signature |-> signature]
<1>n. /\ NewsroomTypeOK /\ LastId \in Nat /\ contents \in Seq(Content) /\ DOMAIN contents = 1 .. LastId
      /\ HasCharter
  BY DEF NewsroomInv, NewsroomTypeOK, LastId, Content
<1>1. PICK isSigned \in BOOLEAN : Verified(contents[id].author, id, h, signature, isSigned)
  BY DEF UpdateRevision
<1>2. contents[id] \in Content
  BY <1>n
<1>3. contents[id].author \in Authors /\ revs \in Seq(Revision) /\ rev \in Revision
  BY <1>2 DEF Content, Revision
<1>4. contents' = [contents EXCEPT ![id].revisions = Append(revs, rev)]
  BY DEF UpdateRevision, WithRevision
<1>5. /\ Append(revs, rev) \in Seq(Revision)
      /\ DOMAIN Append(revs, rev) = DOMAIN revs \cup {Len(revs) + 1}
      /\ Len(revs) + 1 \in Nat \ {0} /\ Len(revs) + 1 \notin DOMAIN revs
      /\ \A s \in DOMAIN revs : Append(revs, rev)[s] = revs[s]
      /\ Append(revs, rev)[Len(revs) + 1] = rev
  <2> HIDE DEF revs, rev
  <2>1. QED
    BY <1>3
<1>6. contents'[id] = [author |-> contents[id].author, revisions |-> Append(revs, rev)]
  BY <1>2, <1>4 DEF Content
<1>7. contents'[id] \in Content
  BY <1>3, <1>5, <1>6 DEF Content
<1>8. /\ contents' \in Seq(Content) /\ DOMAIN contents' = DOMAIN contents
      /\ \A i \in DOMAIN contents \ {id} : contents'[i] = contents[i]
  <2>1. DOMAIN contents' = DOMAIN contents /\ \A i \in DOMAIN contents \ {id} : contents'[i] = contents[i]
    BY <1>4
  <2>2. contents' = [i \in 1 .. LastId |-> contents'[i]]
    BY <1>n, <1>4
  <2>3. \A i \in 1 .. LastId : contents'[i] \in Content
    BY <1>n, <1>7, <2>1
  <2>4. QED
    BY <1>n, <2>1, <2>2, <2>3
<1>9. access' = access
  BY DEF UpdateRevision
<1>10. NewsroomInv' /\ KeepsContents
  <2> DEFINE r == Len(revs) + 1
  <2> HIDE DEF rev, r
  <2>1. \A s \in DOMAIN contents[id].revisions \ {r} :
            contents'[id].revisions[s] = contents[id].revisions[s]
    BY <1>5, <1>6 DEF r
  <2>2. DOMAIN contents'[id].revisions = DOMAIN contents[id].revisions \cup {r}
    BY <1>5, <1>6 DEF r
  <2>3. contents'[id].revisions[r] = [contentHash |-> h, signature |-> signature]
    BY <1>5, <1>6 DEF r, rev
  <2>4. r \in Nat \ {0} /\ (r \notin DOMAIN contents[id].revisions)
    BY <1>5 DEF r
  <2>5. contents'[id].author = contents[id].author /\ id \in 1 .. LastId
    BY <1>6, <1>n
  <2>6. QED
    BY <1>1, <1>3, <1>8, <1>9, <2>1, <2>2, <2>3, <2>4, <2>5, OneRevisionKeeps
<1>11. KeepsCharter
  BY <1>n, <1>8 DEF UpdateRevision, MayChange, KeepsCharter, NewsroomAssumption, HasCharter
<1>12. QED
  BY <1>10, <1>11
LEMMA SignKeeps ==
    ASSUME NewsroomAssumption, NewsroomInv, NEW u \in Accounts, NEW id \in DOMAIN contents,
           NEW r \in DOMAIN contents[id].revisions, NEW author \in Authors,
           NEW signature \in Signatures, SignRevision(u, id, r, author, signature)
    PROVE  NewsroomInv' /\ KeepsContents /\ KeepsCharter
<1> DEFINE revs == contents[id].revisions
           h    == HashOf(id, r)
           rev  == [contentHash |-> h, signature |-> signature]
<1>n. /\ NewsroomTypeOK /\ LastId \in Nat /\ contents \in Seq(Content) /\ DOMAIN contents = 1 .. LastId
      /\ HasCharter /\ AllBacked
  BY DEF NewsroomInv, NewsroomTypeOK, LastId, Content
<1>1. PICK isSigned \in BOOLEAN :
          Verified(author, id, h, signature, isSigned) /\ MustBeSigned(isSigned)
  BY DEF SignRevision, HashOf
<1>2. contents[id] \in Content
  BY <1>n
<1>3. revs \in Seq(Revision) /\ revs[r] \in Revision /\ h \in Hashes /\ r \in Nat \ {0}
  BY <1>n, <1>2, RevisionType DEF Content
<1>4. signature # Unsigned
  BY <1>1 DEF Verified, MustBeSigned
<1>5. contents' = [contents EXCEPT ![id] =
          [author |-> author, revisions |-> [revs EXCEPT ![r] = rev]]]
  <2>1. contents' = [contents EXCEPT ![id] =
            [[contents[id] EXCEPT !.author = author] EXCEPT
                !.revisions = [revs EXCEPT ![r] = [revs[r] EXCEPT !.signature = signature]]]]
    BY DEF SignRevision
  <2>2. [revs[r] EXCEPT !.signature = signature] = rev
    BY <1>3 DEF Revision, HashOf
  <2>3. \A x : [[contents[id] EXCEPT !.author = author] EXCEPT !.revisions = x]
                = [author |-> author, revisions |-> x]
    <3>1. contents[id] = [author |-> contents[id].author, revisions |-> revs]
      BY <1>2 DEF Content
    <3>2. [contents[id] EXCEPT !.author = author] = [author |-> author, revisions |-> revs]
      BY <3>1
    <3>3. \A x : [[author |-> author, revisions |-> revs] EXCEPT !.revisions = x]
                  = [author |-> author, revisions |-> x]
      OBVIOUS
    <3>4. QED
      BY <3>2, <3>3, Zenon
  <2> HIDE DEF revs, rev
  <2>4. [[contents[id] EXCEPT !.author = author] EXCEPT !.revisions = [revs EXCEPT ![r] = rev]]
          = [author |-> author, revisions |-> [revs EXCEPT ![r] = rev]]
    BY <2>3, Zenon
  <2>5. QED
    BY <2>1, <2>2, <2>4, Zenon
<1>6. contents'[id] = [author |-> author, revisions |-> [revs EXCEPT ![r] = rev]]
  BY <1>5
<1>7. [revs EXCEPT ![r] = rev] \in Seq(Revision)
  <2>1. rev \in Revision
    BY <1>3 DEF Revision
  <2> HIDE DEF revs, rev
  <2>2. QED
    BY <1>3, <2>1 DEF revs
<1>8. contents'[id] \in Content
  BY <1>6, <1>7 DEF Content
<1>9. /\ contents' \in Seq(Content) /\ DOMAIN contents' = DOMAIN contents
      /\ \A i \in DOMAIN contents \ {id} : contents'[i] = contents[i]
  <2>1. DOMAIN contents' = DOMAIN contents /\ \A i \in DOMAIN contents \ {id} : contents'[i] = contents[i]
    BY <1>5
  <2>2. contents' = [i \in 1 .. LastId |-> contents'[i]]
    BY <1>n, <1>5
  <2>3. \A i \in 1 .. LastId : contents'[i] \in Content
    BY <1>n, <1>8, <2>1
  <2>4. QED
    BY <1>n, <2>1, <2>2, <2>3
<1>10. NewsroomInv' /\ KeepsContents
  <2> HIDE DEF rev
  <2>1. \A s \in DOMAIN contents[id].revisions \ {r} :
            contents'[id].revisions[s] = contents[id].revisions[s]
    BY <1>6
  <2>2. DOMAIN contents'[id].revisions = DOMAIN contents[id].revisions \cup {r}
    BY <1>6
  <2>3. contents'[id].revisions[r] = [contentHash |-> h, signature |-> signature]
    BY <1>6 DEF rev
  <2>4. contents[id].author # Nobody => author = contents[id].author
    BY DEF SignRevision, MaySignFor
  <2>5. \A s \in DOMAIN contents[id].revisions \ {r} : Signed(id, s) => author = contents[id].author
    BY <1>n, <2>4 DEF AllBacked, Backed, NewsroomAssumption
  <2>6. contents'[id].author = author /\ id \in 1 .. LastId /\ access' = access
    BY <1>6, <1>n DEF SignRevision
  <2> HIDE DEF h
  <2>7. QED
    BY <1>1, <1>3, <1>4, <1>9, <2>1, <2>2, <2>3, <2>4, <2>5, <2>6, OneRevisionKeeps DEF h
<1>11. KeepsCharter
  BY <1>n, <1>9 DEF SignRevision, MayChange, KeepsCharter, NewsroomAssumption, HasCharter
<1>12. QED
  BY <1>10, <1>11

LEMMA NewsroomInvNext ==
    NewsroomAssumption /\ NewsroomInv /\ [NewsroomNext]_newsroomVars => NewsroomInv' /\ KeepsContents /\ KeepsCharter
<1> SUFFICES ASSUME NewsroomAssumption, NewsroomInv, [NewsroomNext]_newsroomVars
             PROVE  NewsroomInv' /\ KeepsContents /\ KeepsCharter
  OBVIOUS
<1>t. owner \in Authors /\ editors \subseteq Accounts \cup {Group}
  BY DEF NewsroomInv, NewsroomTypeOK
<1>1. CASE UNCHANGED newsroomVars
  BY <1>1, <1>t, RolesKeep DEF newsroomVars, access
<1>2. ASSUME NEW u \in Accounts, NEW who \in Accounts,
             TransferOwnership(u, who) \/ AddEditor(u, who) \/ RemoveEditor(u, who) \/ RenounceOwnership(u)
      PROVE  NewsroomInv' /\ KeepsContents /\ KeepsCharter
  <2>1. UNCHANGED <<contents, usedSignatures>>
    BY <1>2 DEF TransferOwnership, AddEditor, RemoveEditor, RenounceOwnership
  <2>2. owner' \in Authors /\ editors' \subseteq Accounts \cup {Group}
    BY <1>2, <1>t DEF TransferOwnership, AddEditor, RemoveEditor, RenounceOwnership, Authors
  <2>3. QED
    BY <2>1, <2>2, RolesKeep
<1>3. CASE NewsroomNext
  BY <1>2, <1>3, PublishKeeps, UpdateKeeps, SignKeeps DEF NewsroomNext
<1>4. QED
  BY <1>1, <1>3

LEMMA NewsroomInvariant == NewsroomAssumption /\ NewsroomSpec => []NewsroomInv
<1> SUFFICES ASSUME NewsroomAssumption PROVE NewsroomSpec => []NewsroomInv
  OBVIOUS
<1>1. NewsroomInit => NewsroomInv
  BY NewsroomInvInit
<1>2. NewsroomInv /\ [NewsroomNext]_newsroomVars => NewsroomInv'
  BY NewsroomInvNext
<1>3. QED
  BY <1>1, <1>2, PTL DEF NewsroomSpec

(* Types hold, a signature shown with a revision is the author's on that very *)
(* hash, and no hash is shown as signed in two contents (Newsroom.sol:220).   *)
THEOREM SignaturesHold == NewsroomAssumption /\ NewsroomSpec => []ContentsSound
<1>1. NewsroomInv => ContentsSound
  <2> SUFFICES ASSUME NewsroomInv PROVE ContentsSound
    OBVIOUS
  <2>1. SignedByAuthor
    BY DEF NewsroomInv, AllBacked, Backed, SignedByAuthor, Recovers
  <2>2. OneContentPerHash
    <3> SUFFICES ASSUME NEW i \in DOMAIN contents, NEW j \in DOMAIN contents,
                        NEW r \in DOMAIN contents[i].revisions,
                        NEW s \in DOMAIN contents[j].revisions,
                        Signed(i, r), Signed(j, s), HashOf(i, r) = HashOf(j, s)
                 PROVE  i = j
      BY DEF OneContentPerHash
    <3>1. Backed(i, r) /\ Backed(j, s)
      BY DEF NewsroomInv, AllBacked
    <3>2. QED
      BY <3>1 DEF Backed
  <2>3. QED
    BY <2>1, <2>2 DEF NewsroomInv, ContentsSound
<1>2. QED
  BY <1>1, NewsroomInvariant, PTL

(* Nothing published is taken back, no author replaced, and the charter of a *)
(* newsroom nobody owns stands, whatever the editors do (Newsroom.sol:141).  *)
THEOREM PublishedStays == NewsroomAssumption /\ NewsroomSpec => ContentsKept
<1> SUFFICES ASSUME NewsroomAssumption PROVE NewsroomSpec => ContentsKept
  OBVIOUS
<1>1. NewsroomSpec => []NewsroomInv
  BY NewsroomInvariant
<1>2. NewsroomInv /\ [NewsroomNext]_newsroomVars => KeepsContents /\ KeepsCharter
  BY NewsroomInvNext
<1>3. QED
  BY <1>1, <1>2, PTL DEF NewsroomSpec, ContentsKept, NothingTakenBack, CharterIsTheOwners,
     KeepsContents, KeepsCharter

------------------------------------------------------------------------------------
(* The government. *)

(* What makes the invariants inductive: who is out of range is never pending, *)
(* and only a pending proposal has a poll.                                    *)
OnlyPendingHavePolls == \A id \in PropIds \ Pending : proposals[id].pollID = 0
PendingWithinRange   == \A id \in Pending : WithinRange(id)

GovernmentInv == ProposalsSound /\ OnlyPendingHavePolls /\ PendingWithinRange

(* What ChangedByVote says of a step. *)
VotedFor1(n) ==
    \E id \in Pending :
       LET p == proposals[id].pollID
       IN  /\ id.name = n /\ id.value = params'[n]
           /\ now > poll[p].revealEnd /\ now < poll[p].revealEnd + PROCESSBY
           /\ 100 * VotesFor(p) > poll[p].quorum * (VotesFor(p) + VotesAgainst(p))
ChangesByVote == \A n \in Names : params'[n] # params[n] => VotedFor1(n)

SettingsStep == [Settings!SettingsNext]_(Settings!settingVars)

------------------------------------------------------------------------------------
LEMMA Numbers ==
    ASSUME GovernmentAssumption, GovernmentTypeOK
    PROVE  /\ now \in Nat /\ now > 0 /\ pollNonce \in Nat /\ PROCESSBY \in Nat
           /\ \A n \in Names : params[n] \in Nat
           /\ \A p \in Polls : poll[p].revealEnd \in Nat /\ p \in Nat /\ p > 0
           /\ \A id \in PropIds : /\ proposals[id].pollID \in {0} \cup Polls
                                  /\ proposals[id].processBy \in Nat
                                  /\ id.name \in Names /\ id.value \in Nat
  BY DEF GovernmentAssumption, GovernmentTypeOK, GovtParamProposal

LEMMA GovernmentInvInit == GovernmentAssumption /\ GovernmentInit => GovernmentInv
<1> SUFFICES ASSUME GovernmentAssumption, GovernmentInit PROVE GovernmentInv
  OBVIOUS
<1>1. GovernmentTypeOK
  BY DEF GovernmentInit, TallyInit, GovernmentAssumption, GovernmentTypeOK, NoProposal, GovtParamProposal, NotStarted
<1>2. Pending = {} /\ \A id \in PropIds : proposals[id].pollID = 0
  BY DEF GovernmentInit, Pending, PropExists, NoProposal
<1>3. PercentagesBounded
  BY DEF GovernmentInit, GovernmentAssumption, PercentagesBounded
<1>4. QED
  BY <1>1, <1>2, <1>3
     DEF GovernmentInv, ProposalsSound, PollsApart, OnlyPendingHavePolls, PendingWithinRange

(* Steps that leave proposals and parameters alone, and polls but for votes. *)
LEMMA ElsewhereKeeps ==
    ASSUME GovernmentAssumption, GovernmentInv, GovernmentTypeOK',
           UNCHANGED <<params, proposals, poll, pollNonce>>
    PROVE  GovernmentInv' /\ ChangesByVote /\ SettingsStep
<1>1. Pending' = Pending
  BY DEF Pending, PropExists
<1>2. PollsApart' /\ PercentagesBounded'
  BY <1>1 DEF GovernmentInv, ProposalsSound, PollsApart, PercentagesBounded, Exists
<1>3. OnlyPendingHavePolls' /\ PendingWithinRange'
  BY <1>1 DEF GovernmentInv, OnlyPendingHavePolls, PendingWithinRange, WithinRange
<1>4. SettingsStep
  BY <1>1 DEF SettingsStep, Settings!settingVars
<1>5. QED
  BY <1>2, <1>3, <1>4 DEF GovernmentInv, ProposalsSound, ChangesByVote

LEMMA ProposeKeeps ==
    ASSUME GovernmentAssumption, GovernmentInv, NEW u \in Appellates, NEW id \in PropIds,
           ProposeReparameterization(u, id)
    PROVE  GovernmentInv' /\ ChangesByVote /\ SettingsStep
<1> DEFINE p == pollNonce + 1
           revealEnd == now + params["govtPCommitStageLen"] + params["govtPRevealStageLen"]
<1>t. GovernmentTypeOK
  BY DEF GovernmentInv, ProposalsSound
<1>n. revealEnd \in Nat /\ revealEnd + PROCESSBY > 0 /\ now + params["govtPCommitStageLen"] \in Nat
  BY <1>t, Numbers DEF Names
<1>1. /\ p \in Polls /\ pollNonce' = p /\ now' = now /\ votes' = votes
      /\ poll' = [poll EXCEPT ![p] = [quorum |-> params["appealVotePercentage"],
                                      commitEnd |-> now + params["govtPCommitStageLen"],
                                      revealEnd |-> revealEnd]]
      /\ proposals' = [proposals EXCEPT ![id] =
                          [pollID |-> p, processBy |-> revealEnd + PROCESSBY]]
      /\ UNCHANGED <<params, appellate, constitution>>
  BY DEF ProposeReparameterization, StartPoll, office, NewPoll
<1>2. id \notin Pending /\ params[id.name] # id.value /\ WithinRange(id)
  BY DEF ProposeReparameterization, Pending
<1> HIDE DEF revealEnd
<1>3. GovernmentTypeOK'
  <2>1. poll' \in [Polls -> [quorum : Nat, commitEnd : Nat, revealEnd : Nat]]
    BY <1>t, <1>1, <1>n, Numbers DEF GovernmentTypeOK, Names
  <2>2. proposals' \in [PropIds -> GovtParamProposal]
    BY <1>t, <1>1, <1>n, Numbers DEF GovernmentTypeOK, GovtParamProposal
  <2>3. QED
    BY <1>t, <1>1, <2>1, <2>2 DEF GovernmentTypeOK
<1>4. Pending' = Pending \cup {id}
  BY <1>t, <1>1, <1>n, Numbers DEF Pending, PropExists, GovernmentTypeOK
<1>5. \A i \in Pending : /\ proposals'[i] = proposals[i] /\ proposals[i].pollID \in 1 .. pollNonce
                         /\ proposals[i].pollID \in Polls
                         /\ poll'[proposals[i].pollID] = poll[proposals[i].pollID]
                         /\ proposals[i].processBy = poll[proposals[i].pollID].revealEnd + PROCESSBY
  <2> SUFFICES ASSUME NEW i \in Pending
               PROVE  /\ proposals'[i] = proposals[i] /\ proposals[i].pollID \in 1 .. pollNonce
                      /\ proposals[i].pollID \in Polls
                      /\ poll'[proposals[i].pollID] = poll[proposals[i].pollID]
                      /\ proposals[i].processBy = poll[proposals[i].pollID].revealEnd + PROCESSBY
    OBVIOUS
  <2>1. i \in PropIds /\ i # id
    BY <1>2 DEF Pending
  <2>2. /\ proposals[i].pollID \in 1 .. pollNonce
        /\ proposals[i].processBy = poll[proposals[i].pollID].revealEnd + PROCESSBY
    BY DEF GovernmentInv, ProposalsSound, PollsApart, Exists
  <2>3. proposals[i].pollID \in Polls /\ proposals[i].pollID # p
    BY <1>t, <2>1, <2>2, Numbers
  <2>4. QED
    BY <1>t, <1>1, <2>1, <2>2, <2>3 DEF GovernmentTypeOK
<1>6. proposals'[id] = [pollID |-> p, processBy |-> revealEnd + PROCESSBY]
      /\ poll'[p].revealEnd = revealEnd
  BY <1>t, <1>1 DEF GovernmentTypeOK
<1>7. PollsApart'
  <2>1. ASSUME NEW i \in Pending'
        PROVE  /\ Exists(proposals[i].pollID)'
               /\ proposals'[i].processBy = poll'[proposals'[i].pollID].revealEnd + PROCESSBY
    BY <1>t, <1>1, <1>4, <1>5, <1>6, <2>1, Numbers DEF Exists
  <2>2. ASSUME NEW i \in Pending', NEW j \in Pending', i # j
        PROVE  proposals'[i].pollID # proposals'[j].pollID
    <3>1. CASE i = id \/ j = id
      BY <1>t, <1>4, <1>5, <1>6, <2>2, <3>1, Numbers
    <3>2. CASE i # id /\ j # id
      <4>1. i \in Pending /\ j \in Pending
        BY <1>4, <3>2
      <4>2. proposals[i].pollID # proposals[j].pollID
        BY <4>1, <2>2 DEF GovernmentInv, ProposalsSound, PollsApart
      <4>3. QED
        BY <1>5, <4>1, <4>2
    <3>3. QED
      BY <3>1, <3>2
  <2>3. QED
    BY <2>1, <2>2 DEF PollsApart
<1>8. OnlyPendingHavePolls' /\ PendingWithinRange' /\ PercentagesBounded'
  BY <1>t, <1>1, <1>2, <1>4 DEF GovernmentInv, OnlyPendingHavePolls, PendingWithinRange, WithinRange,
     ProposalsSound, PercentagesBounded, Pending, GovernmentTypeOK
<1>9. SettingsStep
  BY <1>1, <1>2, <1>4 DEF SettingsStep, Settings!SettingsNext, Settings!Propose
<1>10. QED
  BY <1>1, <1>3, <1>7, <1>8, <1>9 DEF GovernmentInv, ProposalsSound, ChangesByVote

LEMMA ProcessKeeps ==
    ASSUME GovernmentAssumption, GovernmentInv, NEW id \in PropIds, ProcessProposal(id)
    PROVE  GovernmentInv' /\ ChangesByVote /\ SettingsStep
<1> DEFINE p == proposals[id].pollID
<1>t. GovernmentTypeOK
  BY DEF GovernmentInv, ProposalsSound
<1>1. id \in Pending
  BY <1>t, Numbers DEF ProcessProposal, PropCanBeResolved, GovernmentInv, OnlyPendingHavePolls
<1>2. /\ Exists(p) /\ now > poll[p].revealEnd
      /\ proposals[id].processBy = poll[p].revealEnd + PROCESSBY
  BY <1>1 DEF ProcessProposal, PropCanBeResolved, Ended, GovernmentInv, ProposalsSound, PollsApart
<1>3. /\ UNCHANGED <<now, pollNonce, poll, votes, appellate, constitution>>
      /\ proposals' = [proposals EXCEPT ![id] = NoProposal]
      /\ params' = IF Accepted(id) THEN [params EXCEPT ![id.name] = id.value] ELSE params
  BY DEF ProcessProposal, tallyVars, office
<1>4. GovernmentTypeOK'
  <2>1. params' \in [Names -> Nat]
    BY <1>t, <1>3, Numbers DEF GovernmentTypeOK
  <2>2. proposals' \in [PropIds -> GovtParamProposal]
    BY <1>t, <1>3 DEF GovernmentTypeOK, NoProposal, GovtParamProposal
  <2>3. QED
    BY <1>t, <1>3, <2>1, <2>2 DEF GovernmentTypeOK
<1>5. Pending' = Pending \ {id} /\ \A i \in Pending \ {id} : proposals'[i] = proposals[i]
  BY <1>t, <1>3 DEF Pending, PropExists, NoProposal, GovernmentTypeOK
<1>6. PollsApart'
  BY <1>3, <1>5 DEF GovernmentInv, ProposalsSound, PollsApart, Exists
<1>7. OnlyPendingHavePolls' /\ PendingWithinRange'
  BY <1>t, <1>3, <1>5 DEF GovernmentInv, OnlyPendingHavePolls, PendingWithinRange, WithinRange,
     NoProposal, GovernmentTypeOK, Pending
<1>8. PercentagesBounded'
  <2>1. WithinRange(id) /\ PercentagesBounded
    BY <1>1 DEF GovernmentInv, PendingWithinRange, ProposalsSound
  <2>2. QED
    BY <1>t, <1>3, <2>1, Numbers DEF WithinRange, PercentagesBounded, GovernmentTypeOK, Percentages, Names
<1>9. ChangesByVote
  <2> SUFFICES ASSUME NEW n \in Names, params'[n] # params[n] PROVE VotedFor1(n)
    BY DEF ChangesByVote
  <2>1. Accepted(id) /\ params' = [params EXCEPT ![id.name] = id.value]
    BY <1>3
  <2>2. id.name = n /\ id.value = params'[n]
    BY <1>t, <2>1 DEF GovernmentTypeOK
  <2>3. now < poll[p].revealEnd + PROCESSBY
    BY <1>2, <1>t, <2>1, Numbers DEF Accepted
  <2>4. 100 * VotesFor(p) > poll[p].quorum * (VotesFor(p) + VotesAgainst(p))
    BY <2>1 DEF Accepted, Passed
  <2>5. QED
    BY <1>1, <1>2, <2>2, <2>3, <2>4 DEF VotedFor1
<1>10. SettingsStep
  BY <1>1, <1>3, <1>5 DEF SettingsStep, Settings!SettingsNext, Settings!Enact, Settings!Drop
<1>11. QED
  BY <1>4, <1>6, <1>7, <1>8, <1>9, <1>10 DEF GovernmentInv, ProposalsSound

LEMMA GovernmentInvNext ==
    GovernmentAssumption /\ GovernmentInv /\ [GovernmentNext]_governmentVars => GovernmentInv' /\ ChangesByVote /\ SettingsStep
<1> SUFFICES ASSUME GovernmentAssumption, GovernmentInv, [GovernmentNext]_governmentVars
             PROVE  GovernmentInv' /\ ChangesByVote /\ SettingsStep
  OBVIOUS
<1>t. GovernmentTypeOK
  BY DEF GovernmentInv, ProposalsSound
<1>1. CASE UNCHANGED governmentVars
  <2>1. GovernmentTypeOK'
    BY <1>t, <1>1 DEF GovernmentTypeOK, governmentVars, tallyVars, office
  <2>2. QED
    BY <1>1, <2>1, ElsewhereKeeps DEF governmentVars, tallyVars
<1>2. CASE Tick
  <2>1. GovernmentTypeOK'
    BY <1>t, <1>2 DEF GovernmentTypeOK, Tick, Pass, office, GovernmentAssumption
  <2>2. QED
    BY <1>2, <2>1, ElsewhereKeeps DEF Tick, Pass
<1>3. ASSUME NEW v \in Voters, NEW p \in Polls, NEW option \in Options, Vote(v, p, option)
      PROVE  GovernmentInv' /\ ChangesByVote /\ SettingsStep
  <2>1. votes' \in [Polls -> [Voters -> {NoVote} \cup (Options \X Nat)]]
    BY <1>t, <1>3 DEF GovernmentTypeOK, Vote, Reveal, GovernmentAssumption
  <2>2. GovernmentTypeOK'
    BY <1>t, <1>3, <2>1 DEF GovernmentTypeOK, Vote, Reveal, office
  <2>3. QED
    BY <1>3, <2>2, ElsewhereKeeps DEF Vote, Reveal
<1>4. ASSUME NEW u \in Appellates, NEW c \in Constitutions, SetNewConstitution(u, c)
      PROVE  GovernmentInv' /\ ChangesByVote /\ SettingsStep
  <2>1. GovernmentTypeOK'
    BY <1>t, <1>4 DEF GovernmentTypeOK, SetNewConstitution, tallyVars
  <2>2. QED
    BY <1>4, <2>1, ElsewhereKeeps DEF SetNewConstitution, tallyVars
<1>5. ASSUME NEW u \in Appellates \cup {Nobody}, SetAppellate(u)
      PROVE  GovernmentInv' /\ ChangesByVote /\ SettingsStep
  <2>1. GovernmentTypeOK'
    BY <1>t, <1>5 DEF GovernmentTypeOK, SetAppellate, tallyVars
  <2>2. QED
    BY <1>5, <2>1, ElsewhereKeeps DEF SetAppellate, tallyVars
<1>6. CASE GovernmentNext
  BY <1>2, <1>3, <1>4, <1>5, <1>6, ProposeKeeps, ProcessKeeps DEF GovernmentNext
<1>7. QED
  BY <1>1, <1>6

LEMMA GovernmentInvariant == GovernmentAssumption /\ GovernmentSpec => []GovernmentInv
<1> SUFFICES ASSUME GovernmentAssumption PROVE GovernmentSpec => []GovernmentInv
  OBVIOUS
<1>1. GovernmentInit => GovernmentInv
  BY GovernmentInvInit
<1>2. GovernmentInv /\ [GovernmentNext]_governmentVars => GovernmentInv'
  BY GovernmentInvNext
<1>3. QED
  BY <1>1, <1>2, PTL DEF GovernmentSpec

(* Types hold, no percentage exceeds 100 (Government.sol:137), and every     *)
(* pending proposal has a poll of its own with PROCESSBY left after it.      *)
THEOREM ProposalsAreSound == GovernmentAssumption /\ GovernmentSpec => []ProposalsSound
<1>1. GovernmentInv => ProposalsSound
  BY DEF GovernmentInv
<1>2. QED
  BY <1>1, GovernmentInvariant, PTL

(* A parameter changes only by a supermajority of the votes in the poll of a *)
(* proposal for that value, processed in time (Government.sol:186).          *)
THEOREM ParametersFollowVotes == GovernmentAssumption /\ GovernmentSpec => ChangedByVote
<1> SUFFICES ASSUME GovernmentAssumption PROVE GovernmentSpec => ChangedByVote
  OBVIOUS
<1>1. GovernmentSpec => []GovernmentInv
  BY GovernmentInvariant
<1>2. GovernmentInv /\ [GovernmentNext]_governmentVars => [ChangesByVote]_governmentVars
  BY GovernmentInvNext
<1>3. QED
  BY <1>1, <1>2, PTL DEF GovernmentSpec, ChangedByVote, ChangesByVote, VotedFor1

(* The government keeps settings the way SettingsLifecycle promises. *)
THEOREM GovernmentKeepsSettings == GovernmentAssumption /\ GovernmentSpec => ImplementsSettings
<1> SUFFICES ASSUME GovernmentAssumption PROVE GovernmentSpec => ImplementsSettings
  OBVIOUS
<1>1. GovernmentInit => Settings!SettingsInit
  BY DEF GovernmentInit, Settings!SettingsInit, Pending, PropExists, NoProposal
<1>2. GovernmentSpec => []GovernmentInv
  BY GovernmentInvariant
<1>3. GovernmentInv /\ [GovernmentNext]_governmentVars => SettingsStep
  BY GovernmentInvNext
<1>4. QED
  BY <1>1, <1>2, <1>3, PTL DEF GovernmentSpec, ImplementsSettings, Settings!SettingsSpec, SettingsStep

------------------------------------------------------------------------------------
(* The token. *)

(* Balances as Moved needs them; that none exceeds the supply is a consequence. *)
Tokens   == balanceOf \in [Holders -> Nat]
TokenInv == /\ Tokens /\ voteTokenBalance \in [Users -> Nat]
            /\ lists \in [ListNames -> SUBSET Holders]
            /\ managers \subseteq Listed /\ restricted \in BOOLEAN
            /\ SupplyConserved /\ RightsBacked

LEMMA FiniteHolders ==
    ASSUME TokenAssumption
    PROVE  IsFiniteSet(Holders) /\ IsFiniteSet(Users) /\ Users \subseteq Holders /\ Voting \in Holders
  BY FS_AddElement DEF TokenAssumption, Holders

(* What a transfer does to every balance, the one to oneself included. *)
Shifts(b, taken, moved, from, to, n) ==
    /\ moved = Moved(b, from, to, n)
    /\ taken[from] = b[from] - n /\ \A h \in Holders \ {from} : taken[h] = b[h]
    /\ moved[to] = taken[to] + n /\ \A h \in Holders \ {to} : moved[h] = taken[h]

LEMMA MovedBalances ==
    ASSUME NEW b \in [Holders -> Nat], NEW from \in Holders, NEW to \in Holders, NEW n \in Nat,
           b[from] >= n
    PROVE  \E taken \in [Holders -> Nat], moved \in [Holders -> Nat] :
              Shifts(b, taken, moved, from, to, n)
<1>1. PICK taken \in [Holders -> Nat] : taken = [b EXCEPT ![from] = @ - n]
  <2>1. b[from] - n \in Nat
    OBVIOUS
  <2>2. [b EXCEPT ![from] = @ - n] \in [Holders -> Nat]
    BY <2>1
  <2>3. QED
    BY <2>2
<1>2. PICK moved \in [Holders -> Nat] : moved = [taken EXCEPT ![to] = @ + n]
  <2>1. taken[to] + n \in Nat
    OBVIOUS
  <2>2. [taken EXCEPT ![to] = @ + n] \in [Holders -> Nat]
    BY <2>1
  <2>3. QED
    BY <2>2
<1>3. moved = Moved(b, from, to, n)
  BY <1>1, <1>2 DEF Moved
<1>4. Shifts(b, taken, moved, from, to, n)
  BY <1>1, <1>2, <1>3 DEF Shifts
<1>5. QED
  BY <1>4

LEMMA MovedSum ==
    ASSUME TokenAssumption, NEW b \in [Holders -> Nat], NEW from \in Holders, NEW to \in Holders,
           NEW n \in Nat, b[from] >= n
    PROVE  SumOver(Moved(b, from, to, n), Holders) = SumOver(b, Holders)
<1>1. PICK taken \in [Holders -> Nat], moved \in [Holders -> Nat] :
          Shifts(b, taken, moved, from, to, n)
  BY MovedBalances
<1>2. /\ moved = Moved(b, from, to, n)
      /\ taken[from] = b[from] - n /\ (\A h \in Holders \ {from} : taken[h] = b[h])
      /\ moved[to] = taken[to] + n /\ (\A h \in Holders \ {to} : moved[h] = taken[h])
      /\ (\A h \in Holders : b[h] \in Nat /\ taken[h] \in Nat /\ moved[h] \in Nat)
  BY <1>1 DEF Shifts
<1>3. SumOver(taken, Holders) = SumOver(b, Holders) - b[from] + taken[from]
  BY <1>2, FiniteHolders, SumChange
<1>4. SumOver(moved, Holders) = SumOver(taken, Holders) - taken[to] + moved[to]
  BY <1>2, FiniteHolders, SumChange
<1>5. SumOver(b, Holders) \in Nat
  BY <1>2, FiniteHolders, SumNat
<1>6. SumOver(taken, Holders) = SumOver(b, Holders) - n
  BY <1>2, <1>3, <1>5
<1>7. SumOver(moved, Holders) = SumOver(b, Holders)
  BY <1>2, <1>4, <1>5, <1>6
<1>8. QED
  BY <1>2, <1>7

LEMMA TokenInvInit == TokenAssumption /\ TokenInit => TokenInv
<1> SUFFICES ASSUME TokenAssumption, TokenInit PROVE TokenInv
  OBVIOUS
<1> USE FiniteHolders
<1>1. Tokens /\ voteTokenBalance \in [Users -> Nat]
  BY DEF TokenInit, TokenAssumption, Tokens
<1>2. SupplyConserved
  <2> DEFINE none == [h \in Holders |-> 0]
  <2>1. SumOver(none, Holders) = 0
    BY SumOfNothing
  <2>2. /\ \A h \in Holders : none[h] \in Nat /\ balanceOf[h] \in Nat
        /\ none[Owner] = 0 /\ balanceOf[Owner] = Supply /\ Owner \in Holders
        /\ \A h \in Holders \ {Owner} : balanceOf[h] = none[h]
    BY DEF TokenInit, TokenAssumption
  <2> HIDE DEF none
  <2>3. SumOver(balanceOf, Holders) = SumOver(none, Holders) - none[Owner] + balanceOf[Owner]
    BY <2>2, SumChange
  <2>4. QED
    BY <2>1, <2>2, <2>3 DEF SupplyConserved, TokenAssumption
<1>3. RightsBacked
  <2>1. SumOver(voteTokenBalance, Users) = 0
    BY SumOfNothing DEF TokenInit
  <2>2. QED
    BY <1>1, <2>1 DEF RightsBacked, Tokens
<1>4. QED
  BY <1>1, <1>2, <1>3 DEF TokenInv, TokenInit, TokenAssumption, Listed

(* A transfer, and what it leaves of the voting contract's tokens. *)
LEMMA MoveKeeps ==
    ASSUME TokenAssumption, TokenInv, NEW from \in Holders, NEW to \in Holders, NEW n \in Nat,
           Move(from, to, n)
    PROVE  /\ Tokens' /\ SupplyConserved'
           /\ (from # Voting /\ to # Voting => balanceOf'[Voting] = balanceOf[Voting])
           /\ (from # Voting /\ to = Voting => balanceOf'[Voting] = balanceOf[Voting] + n)
           /\ (from = Voting /\ to # Voting => balanceOf'[Voting] = balanceOf[Voting] - n)
           /\ (from = to => balanceOf' = balanceOf)
           /\ \A h \in Holders : balanceOf'[h] > balanceOf[h] =>
                 h = to /\ from # to /\ balanceOf'[from] < balanceOf[from]
<1> USE FiniteHolders
<1>1. PICK b \in [Holders -> Nat] : b = balanceOf /\ b[from] >= n
  BY DEF Move, TokenInv, Tokens
<1>2. PICK taken \in [Holders -> Nat], moved \in [Holders -> Nat] :
          Shifts(b, taken, moved, from, to, n)
  BY <1>1, MovedBalances
<1>3. moved = balanceOf'
  BY <1>1, <1>2 DEF Move, Shifts
<1>4. SumOver(moved, Holders) = SumOver(b, Holders)
  BY <1>1, <1>2, MovedSum DEF Shifts
<1>5. /\ moved[to] = taken[to] + n /\ \A h \in Holders \ {to} : moved[h] = taken[h]
      /\ taken[from] = b[from] - n /\ \A h \in Holders \ {from} : taken[h] = b[h]
      /\ \A h \in Holders : b[h] \in Nat /\ taken[h] \in Nat /\ moved[h] \in Nat
  BY <1>2 DEF Shifts
<1>6. /\ Voting \in Holders
      /\ (from # Voting /\ to # Voting => moved[Voting] = b[Voting])
      /\ (from # Voting /\ to = Voting => moved[Voting] = b[Voting] + n)
      /\ (from = Voting /\ to # Voting => moved[Voting] = b[Voting] - n)
  BY <1>5
<1>7. from = to => moved = b
  <2>1. from = to => \A h \in Holders : moved[h] = b[h]
    BY <1>5
  <2>2. QED
    BY <2>1
<1>8. \A h \in Holders : moved[h] > b[h] => h = to /\ from # to /\ moved[from] < b[from]
  BY <1>1, <1>5
<1>9. Tokens' /\ SupplyConserved'
  BY <1>1, <1>3, <1>4 DEF Tokens, SupplyConserved, TokenInv
<1>10. QED
  BY <1>1, <1>3, <1>6, <1>7, <1>8, <1>9

------------------------------------------------------------------------------------
(* Steps that move tokens, and steps that move none. *)
Moves ==
    \E from \in Holders, to \in Holders, n \in Nat :
        /\ Move(from, to, n) /\ UNCHANGED <<managers, restricted>>
        /\ \/ from \in Users /\ UNCHANGED <<voteTokenBalance, lists>>
           \/ /\ from \in Users /\ to = Voting
              /\ voteTokenBalance' = [voteTokenBalance EXCEPT ![from] = @ + n]
              /\ lists' = [lists EXCEPT !["unlocked"] = @ \cup {from}]
           \/ /\ from = Voting /\ to \in Users /\ voteTokenBalance[to] >= n
              /\ voteTokenBalance' = [voteTokenBalance EXCEPT ![to] = @ - n]
              /\ UNCHANGED lists
Administers ==
    /\ UNCHANGED <<balanceOf, voteTokenBalance>>
    /\ lists' \in [ListNames -> SUBSET Holders]
    /\ managers' \subseteq Listed /\ restricted' \in BOOLEAN

LEMMA TokenSteps ==
    ASSUME TokenAssumption, TokenInv, [TokenNext]_tokenVars
    PROVE  Moves \/ Administers
<1> USE FiniteHolders
<1>1. /\ lists \in [ListNames -> SUBSET Holders] /\ managers \subseteq Listed
      /\ restricted \in BOOLEAN
  BY DEF TokenInv
<1>2. ASSUME NEW u \in Users, NEW n \in Amounts, NEW to \in Holders, Transfer(u, to, n)
      PROVE  Moves
  BY <1>2 DEF Transfer, Moves, TokenAssumption
<1>3. ASSUME NEW u \in Users, NEW n \in Amounts, RequestVotingRights(u, n) PROVE Moves
  BY <1>3 DEF RequestVotingRights, Moves, TokenAssumption
<1>4. ASSUME NEW u \in Users, NEW n \in Amounts, WithdrawVotingRights(u, n) PROVE Moves
  BY <1>4 DEF WithdrawVotingRights, HasRights, RightsLeft, Moves, TokenAssumption
<1>5. ASSUME NEW list \in ListNames, NEW a \in Holders, AddTo(list, a) \/ RemoveFrom(list, a)
      PROVE  Administers
  BY <1>1, <1>5 DEF AddTo, RemoveFrom, Administers
<1>6. ASSUME NEW wallet \in Users, CreateNewsroom(wallet) PROVE Administers
  BY <1>5, <1>6 DEF CreateNewsroom, ListNames
<1>7. ASSUME NEW a \in {Voting, GroupFactory}, AddManager(a) \/ RemoveManager(a)
      PROVE  Administers
  BY <1>1, <1>7 DEF AddManager, RemoveManager, Administers, Listed
<1>8. CASE ChangeController
  BY <1>1, <1>8 DEF ChangeController, Administers
<1>9. CASE UNCHANGED tokenVars
  BY <1>1, <1>9 DEF tokenVars, Administers
<1>10. ManagedLists \subseteq ListNames
  BY DEF TokenAssumption
<1>11. QED
  BY <1>2, <1>3, <1>4, <1>5, <1>6, <1>7, <1>8, <1>9, <1>10 DEF TokenNext

(* What a change of one user's rights does to their sum. *)
Changes(old, new, u, left) ==
    /\ old \in [Users -> Nat] /\ new \in [Users -> Nat]
    /\ SumOver(old, Users) \in Nat
    /\ SumOver(new, Users) = SumOver(old, Users) - old[u] + left

LEMMA RightsChange ==
    ASSUME TokenAssumption, TokenInv, NEW u \in Users, NEW left \in Nat,
           voteTokenBalance' = [voteTokenBalance EXCEPT ![u] = left]
    PROVE  Changes(voteTokenBalance, voteTokenBalance', u, left)
<1>1. PICK old \in [Users -> Nat], new \in [Users -> Nat] :
         old = voteTokenBalance /\ new = voteTokenBalance' /\ new[u] = left
         /\ (\A x \in Users \ {u} : new[x] = old[x])
  BY DEF TokenInv
<1>2. \A x \in Users : old[x] \in Nat /\ new[x] \in Nat
  OBVIOUS
<1>3. SumOver(new, Users) = SumOver(old, Users) - old[u] + new[u]
  <2>1. IsFiniteSet(Users)
    BY FiniteHolders
  <2>2. \A x \in Users \ {u} : new[x] = old[x]
    BY <1>1
  <2>3. QED
    BY <1>2, <2>1, <2>2, SumChange
<1>4. SumOver(old, Users) \in Nat
  BY <1>2, FiniteHolders, SumNat
<1>5. QED
  BY <1>1, <1>3, <1>4 DEF Changes

LEMMA TokenInvNext == TokenAssumption /\ TokenInv /\ [TokenNext]_tokenVars => TokenInv'
<1> SUFFICES ASSUME TokenAssumption, TokenInv, [TokenNext]_tokenVars PROVE TokenInv'
  OBVIOUS
<1> USE FiniteHolders
<1>1. CASE Administers
  BY <1>1 DEF Administers, TokenInv, Tokens, SupplyConserved, RightsBacked
<1>2. CASE Moves
  <2>1. PICK from \in Holders, to \in Holders, n \in Nat :
            /\ Move(from, to, n) /\ UNCHANGED <<managers, restricted>>
            /\ \/ from \in Users /\ UNCHANGED <<voteTokenBalance, lists>>
               \/ /\ from \in Users /\ to = Voting
                  /\ voteTokenBalance' = [voteTokenBalance EXCEPT ![from] = @ + n]
                  /\ lists' = [lists EXCEPT !["unlocked"] = @ \cup {from}]
               \/ /\ from = Voting /\ to \in Users /\ voteTokenBalance[to] >= n
                  /\ voteTokenBalance' = [voteTokenBalance EXCEPT ![to] = @ - n]
                  /\ UNCHANGED lists
    BY <1>2 DEF Moves
  <2>2. /\ Tokens' /\ SupplyConserved'
        /\ (from # Voting /\ to # Voting => balanceOf'[Voting] = balanceOf[Voting])
        /\ (from # Voting /\ to = Voting => balanceOf'[Voting] = balanceOf[Voting] + n)
        /\ (from = Voting /\ to # Voting => balanceOf'[Voting] = balanceOf[Voting] - n)
    BY <2>1, MoveKeeps
  <2>3. Voting \notin Users
    BY DEF TokenAssumption
  <2>4. PICK had \in Nat, rights \in Nat :
           had = balanceOf[Voting] /\ rights = SumOver(voteTokenBalance, Users) /\ had >= rights
    <3>1. \A u \in Users : voteTokenBalance[u] \in Nat
      BY DEF TokenInv
    <3>2. SumOver(voteTokenBalance, Users) \in Nat
      BY <3>1, SumNat
    <3>3. QED
      BY <3>2 DEF TokenInv, Tokens, RightsBacked
  <2>5. /\ voteTokenBalance' \in [Users -> Nat] /\ lists' \in [ListNames -> SUBSET Holders]
        /\ RightsBacked'
    <3>1. CASE from \in Users /\ UNCHANGED <<voteTokenBalance, lists>>
      BY <2>2, <2>3, <2>4, <3>1 DEF TokenInv, RightsBacked
    <3>2. CASE /\ from \in Users /\ to = Voting
               /\ voteTokenBalance' = [voteTokenBalance EXCEPT ![from] = @ + n]
               /\ lists' = [lists EXCEPT !["unlocked"] = @ \cup {from}]
      <4>1. PICK old \in Nat : old = voteTokenBalance[from]
        BY <3>2 DEF TokenInv
      <4>2. /\ voteTokenBalance' \in [Users -> Nat]
            /\ SumOver(voteTokenBalance', Users) = rights + n
        <5>1. PICK left \in Nat : left = old + n
          BY <4>1
        <5>2. voteTokenBalance' = [voteTokenBalance EXCEPT ![from] = left]
          BY <3>2, <4>1, <5>1
        <5>3. Changes(voteTokenBalance, voteTokenBalance', from, left)
          BY <3>2, <5>2, RightsChange
        <5>4. QED
          BY <2>4, <4>1, <5>1, <5>3 DEF Changes
      <4>3. lists' \in [ListNames -> SUBSET Holders]
        BY <3>2 DEF TokenInv
      <4>4. QED
        BY <2>2, <2>3, <2>4, <3>2, <4>2, <4>3 DEF RightsBacked
    <3>3. CASE /\ from = Voting /\ to \in Users /\ voteTokenBalance[to] >= n
               /\ voteTokenBalance' = [voteTokenBalance EXCEPT ![to] = @ - n]
               /\ UNCHANGED lists
      <4>1. PICK old \in Nat : old = voteTokenBalance[to] /\ old - n \in Nat
        BY <3>3 DEF TokenInv
      <4>2. /\ voteTokenBalance' \in [Users -> Nat]
            /\ SumOver(voteTokenBalance', Users) = rights - n
        <5>1. PICK left \in Nat : left = old - n
          BY <4>1
        <5>2. voteTokenBalance' = [voteTokenBalance EXCEPT ![to] = left]
          BY <3>3, <4>1, <5>1
        <5>3. Changes(voteTokenBalance, voteTokenBalance', to, left)
          BY <3>3, <5>2, RightsChange
        <5>4. QED
          BY <2>4, <4>1, <5>1, <5>3 DEF Changes
      <4>3. QED
        BY <2>2, <2>3, <2>4, <3>3, <4>2 DEF RightsBacked, TokenInv
    <3>4. QED
      BY <2>1, <3>1, <3>2, <3>3
  <2>6. QED
    BY <2>1, <2>2, <2>5 DEF TokenInv
<1>3. QED
  BY <1>1, <1>2, TokenSteps

LEMMA TokenInvariant == TokenAssumption /\ TokenSpec => []TokenInv
<1> SUFFICES ASSUME TokenAssumption PROVE TokenSpec => []TokenInv
  OBVIOUS
<1>1. TokenInit => TokenInv
  BY TokenInvInit
<1>2. TokenInv /\ [TokenNext]_tokenVars => TokenInv'
  BY TokenInvNext
<1>3. QED
  BY <1>1, <1>2, PTL DEF TokenSpec

(* Tokens are neither made nor destroyed, and every voting right can be turned *)
(* back into a token, for any lists and any controller.                        *)
THEOREM TokensAlwaysAddUp == TokenAssumption /\ TokenSpec => []TokensAddUp
<1> SUFFICES ASSUME TokenAssumption PROVE TokenSpec => []TokensAddUp
  OBVIOUS
<1>1. TokenInv => TokensAddUp
  <2> SUFFICES ASSUME TokenInv PROVE TokensAddUp
    OBVIOUS
  <2>1. ASSUME NEW h \in Holders PROVE balanceOf[h] \in 0 .. Supply
    <3>1. \A x \in Holders : balanceOf[x] \in Nat
      BY DEF TokenInv, Tokens
    <3>2. Supply = balanceOf[h] + SumOver(balanceOf, Holders \ {h})
      BY <3>1, FiniteHolders, SumRemove DEF TokenInv, SupplyConserved
    <3>3. SumOver(balanceOf, Holders \ {h}) \in Nat
      BY <3>1, FiniteHolders, FS_RemoveElement, SumNat
    <3>4. QED
      BY <3>1, <3>2, <3>3 DEF TokenAssumption
  <2>2. balanceOf \in [Holders -> 0 .. Supply]
    BY <2>1 DEF TokenInv, Tokens
  <2>3. QED
    BY <2>2 DEF TokenInv, TokensAddUp, TokenTypeOK
<1>2. QED
  BY <1>1, TokenInvariant, PTL

(* While the controller restricts transfers, nobody outside its lists receives *)
(* tokens from anybody who is neither core nor unlocked.                       *)
THEOREM OutsidersServedByUnlocked == TokenAssumption /\ TokenSpec => OutsidersReceiveFromUnlocked
<1> SUFFICES ASSUME TokenAssumption PROVE TokenSpec => OutsidersReceiveFromUnlocked
  OBVIOUS
<1> DEFINE Served == \A a \in Holders : restricted /\ Outsider(a) /\ balanceOf'[a] > balanceOf[a] =>
              \E from \in Holders : /\ balanceOf'[from] < balanceOf[from]
                                   /\ (On("core", from) \/ On("unlocked", from))
<1>1. ASSUME TokenInv, [TokenNext]_tokenVars PROVE Served
  <2> SUFFICES ASSUME NEW a \in Holders, restricted, Outsider(a), balanceOf'[a] > balanceOf[a]
               PROVE  \E from \in Holders : /\ balanceOf'[from] < balanceOf[from]
                                            /\ (On("core", from) \/ On("unlocked", from))
    OBVIOUS
  <2>1. ~Administers
    BY <1>1 DEF Administers, TokenInv, Tokens
  <2>2. PICK from \in Holders, to \in Holders, n \in Nat : Move(from, to, n)
    BY <1>1, <2>1, TokenSteps DEF Moves
  <2>3. a = to /\ balanceOf'[from] < balanceOf[from]
    BY <1>1, <2>2, MoveKeeps
  <2>4. Allowed(from, to)
    BY <2>2 DEF Move, Unrestricted
  <2>5. On("core", from) \/ On("unlocked", from)
    BY <2>3, <2>4 DEF Allowed, Outsider, ListNames
  <2>6. QED
    BY <2>3, <2>5
<1>2. ASSUME TokenInv, [TokenNext]_tokenVars PROVE [Served]_tokenVars
  BY <1>1, <1>2
<1>3. QED
  BY <1>2, TokenInvariant, PTL DEF TokenSpec, OutsidersReceiveFromUnlocked
====================================================================================
