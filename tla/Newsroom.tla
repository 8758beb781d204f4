--------------------------------- MODULE Newsroom ---------------------------------
(***************************************************************************)
(* Newsroom.sol on ACL.sol and Ownable: content with revisions that the    *)
(* author of the content may have signed.  Content 1 is the charter, which *)
(* the code numbers 0.  A signature is represented by what verifying it    *)
(* yields, the signer and the signed hash; URIs, times and the name only   *)
(* go along.  It is deployed by NewsroomFactory.sol or through             *)
(* CreateNewsroomInGroup.sol.                                              *)
(*                                                                         *)
(* Definitions marked "faulty" are what a plausible slip in the code would *)
(* make of the definition they precede; nothing uses them.                 *)
(***************************************************************************)
EXTENDS Chain, Naturals, Sequences

CONSTANTS
    Accounts,       \* the accounts that can have roles, or write
    Wallet,         \* the multisig wallet the factory makes the owner
    Group,          \* CreateNewsroomInGroup, which calls the factory for its caller
    Hashes,         \* content hashes
    Unsigned,       \* the empty signature
    Garbage,        \* a signature nobody made
    MaxContents,    \* bound
    MaxRevisions    \* bound: revisions of one content

Signatures == {Unsigned, Garbage} \cup [by : Accounts, hash : Hashes]
Authors    == Accounts \cup {Nobody}

NewsroomAssumption ==
    /\ Nobody \notin Accounts /\ Wallet \in Accounts /\ Group \notin Accounts
    /\ Unsigned # Garbage /\ {Unsigned, Garbage} \cap [by : Accounts, hash : Hashes] = {}
    /\ MaxContents \in Nat \ {0} /\ MaxRevisions \in Nat \ {0}

VARIABLES
    owner,
    editors,            \* the accounts with ROLE_EDITOR
    contents,           \* content id -> author and revisions
    usedSignatures      \* hash -> the content its signature was first used for, or 0

access       == <<owner, editors>>
newsroomVars == <<access, contents, usedSignatures>>

Revision == [contentHash : Hashes, signature : Signatures]

NewsroomTypeOK ==
    /\ owner \in Authors
    /\ editors \subseteq Accounts \cup {Group}
    /\ contents \in Seq([author : Authors, revisions : Seq(Revision)])
    /\ usedSignatures \in [Hashes -> 0 .. Len(contents)]

(* The constructor publishes the charter, unsigned; the factory makes its *)
(* caller an editor and hands the newsroom over to the wallet.            *)
NewsroomInit ==
    /\ owner = Wallet
    /\ \E caller \in Accounts \cup {Group} : editors = {caller}
    /\ \E h \in Hashes : contents = <<[author |-> Nobody,
                                      revisions |-> <<[contentHash |-> h, signature |-> Unsigned]>>]>>
    /\ usedSignatures = [h \in Hashes |-> 0]

-----------------------------------------------------------------------------------
IsEditor(u) == u = owner \/ u \in editors

(* Ownable; address 0 is refused as the new owner. *)
TransferOwnership(u, to) ==
    u = owner /\ owner' = to /\ UNCHANGED <<editors, contents, usedSignatures>>
RenounceOwnership(u) ==
    u = owner /\ owner' = Nobody /\ UNCHANGED <<editors, contents, usedSignatures>>

AddEditor(u, who) ==
    IsEditor(u) /\ editors' = editors \cup {who} /\ UNCHANGED <<owner, contents, usedSignatures>>
RemoveEditor(u, who) ==
    IsEditor(u) /\ editors' = editors \ {who} /\ UNCHANGED <<owner, contents, usedSignatures>>

(* recover yields the signer only for the hash that was signed. *)
Recovers(author, h, signature) == signature = [by |-> author, hash |-> h]

NotUsedElsewhere(h, id) == usedSignatures[h] \in {0, id}

(* verifyRevisionSignature reverts, or says whether the revision is signed. *)
Verified(author, id, h, signature, isSigned) ==
    IF author = Nobody \/ signature = Unsigned
    THEN signature = Unsigned /\ ~isSigned /\ UNCHANGED usedSignatures
    ELSE /\ Recovers(author, h, signature)
         /\ NotUsedElsewhere(h, id)
         /\ isSigned
         /\ usedSignatures' = [usedSignatures EXCEPT ![h] = id]

MayChangeAny(u, id) == IsEditor(u)                                 \* faulty MayChange
MayChange(u, id) == IsEditor(u) /\ (id = 1 => u = owner)

NewId      == Len(contents) + 1

PublishContent(u, h, author, signature) ==
    LET id == NewId IN
    /\ IsEditor(u)
    /\ id <= MaxContents
    /\ author = Nobody <=> signature = Unsigned
    /\ \E isSigned \in BOOLEAN : Verified(author, id, h, signature, isSigned)
    /\ contents' = Append(contents, [author |-> author, revisions |->
                                         <<[contentHash |-> h, signature |-> signature]>>])
    /\ UNCHANGED access

WithRevision(s, r) == Append(s, r)

UpdateRevision(u, id, h, signature) ==
    /\ MayChange(u, id)
    /\ Len(contents[id].revisions) < MaxRevisions
    /\ \E isSigned \in BOOLEAN : Verified(contents[id].author, id, h, signature, isSigned)
    /\ contents' = [contents EXCEPT ![id].revisions =
                      WithRevision(@, [contentHash |-> h, signature |-> signature])]
    /\ UNCHANGED access

AuthorFreeForSigning(id, author) == TRUE                           \* faulty MaySignFor
MaySignFor(id, author) == contents[id].author \in {Nobody, author}

MustBeSigned(isSigned) == isSigned

SignRevision(u, id, r, author, signature) ==
    /\ MayChange(u, id)
    /\ MaySignFor(id, author)
    /\ \E isSigned \in BOOLEAN :
          /\ Verified(author, id, contents[id].revisions[r].contentHash, signature, isSigned)
          /\ MustBeSigned(isSigned)
    /\ contents' = [contents EXCEPT ![id].author = author,
                                    ![id].revisions[r].signature = signature]
    /\ UNCHANGED access

(* The group contract only creates newsrooms and never acts as an editor. *)
NewsroomNext ==
    \E u \in Accounts :
      \/ \E who \in Accounts : TransferOwnership(u, who) \/ AddEditor(u, who) \/ RemoveEditor(u, who)
      \/ RenounceOwnership(u)
      \/ \E author \in Authors, signature \in Signatures :
           \/ \E h \in Hashes : PublishContent(u, h, author, signature)
           \/ \E id \in DOMAIN contents : \E r \in DOMAIN contents[id].revisions :
                 SignRevision(u, id, r, author, signature)
      \/ \E id \in DOMAIN contents, h \in Hashes, signature \in Signatures :
           UpdateRevision(u, id, h, signature)

NewsroomSpec == NewsroomInit /\ [][NewsroomNext]_newsroomVars

-----------------------------------------------------------------------------------
(* Properties. *)

Signed(id, r) == contents[id].revisions[r].signature # Unsigned
HashOf(id, r) == contents[id].revisions[r].contentHash

(* A signature shown with a revision is that of the content's author on the *)
(* hash of this very revision, though author and signature come separately. *)
SignedByAuthor ==
    \A id \in DOMAIN contents : \A r \in DOMAIN contents[id].revisions :
        Signed(id, r) => Recovers(contents[id].author, HashOf(id, r),
                                  contents[id].revisions[r].signature)

(* No hash is signed in two contents: approving a text once does not approve *)
(* it a second time elsewhere, whoever publishes, updates and signs when.    *)
OneContentPerHash ==
    \A i, j \in DOMAIN contents :
        \A r \in DOMAIN contents[i].revisions, s \in DOMAIN contents[j].revisions :
            Signed(i, r) /\ Signed(j, s) /\ HashOf(i, r) = HashOf(j, s) => i = j

(* Readers can rely on what is shown as signed. *)
ContentsSound == NewsroomTypeOK /\ SignedByAuthor /\ OneContentPerHash

(* Nothing that was published goes away: revisions keep hash and place, a    *)
(* signature once given is not withdrawn, and an author is not replaced.     *)
NothingTakenBack ==
    [][\A id \in DOMAIN contents :
         /\ contents[id].author # Nobody => contents'[id].author = contents[id].author
         /\ \A r \in DOMAIN contents[id].revisions :
              /\ r \in DOMAIN contents'[id].revisions
              /\ contents'[id].revisions[r].contentHash = HashOf(id, r)
              /\ Signed(id, r) => contents'[id].revisions[r] = contents[id].revisions[r]]_newsroomVars

(* A newsroom nobody owns keeps its charter, whatever its editors do. *)
CharterIsTheOwners == [][owner = Nobody => contents'[1] = contents[1]]_newsroomVars

(* Readers can rely on what was published, and on the charter. *)
ContentsKept == NothingTakenBack /\ CharterIsTheOwners
====================================================================================
