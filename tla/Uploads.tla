------------------------------ MODULE Uploads ------------------------------
(***************************************************************************)
(* Files: uploadAttachment of internal/handler/uploads.go, uploadSticker   *)
(* and uploadEmoji of stickers.go, and the deletes of what they insert.    *)
(*                                                                         *)
(* An upload writes an object to MinIO and then a row with its URL to the  *)
(* database; nothing spans the two.  The owner of a file is the message of *)
(* an attachment, the pack of a sticker or the server of an emoji; its kind*)
(* determines the bucket.  An object is known by the upload that wrote it. *)
(* There is one server, to which all owners belong.                        *)
(*                                                                         *)
(* The replicas are assumed to agree on the second and to see it grow.     *)
(***************************************************************************)
EXTENDS Naturals

CONSTANTS
    Uploads,     \* the requests to upload a file
    Owners,      \* the IDs of the messages, packs and servers
    Kind,        \* Kind[o] is "attachment", "sticker" or "emoji"
    Names,       \* names of emojis
    MaxSecond,   \* bound on the clock
    None

Kinds == {"attachment", "sticker", "emoji"}

ASSUME UploadsAssumption ==
    /\ Kind \in [Owners -> Kinds]
    /\ \A o, p \in Owners : Kind[o] = "emoji" /\ Kind[p] = "emoji" => o = p
    /\ MaxSecond \in Nat
    /\ None \notin Uploads \cup Owners \cup Names

VARIABLES
    second,    \* time.Now() to the second
    owners,    \* the owners whose rows are in the database
    unborn,    \* the packs that are not yet created
    buckets,   \* the kinds whose bucket exists
    objects,   \* per object name, the upload whose file it holds, or None
    rows,      \* uploads whose row is in attachments, stickers or emojis
    pc,        \* progress of an upload
    owner, name,
    object,    \* objectName
    namedAt    \* the second in which it was formed

vars == <<second, owners, unborn, buckets, objects, rows, pc, owner, name, object,
          namedAt>>

\* <<owner, second>>; the extension is the same for all files here.
ObjectNames == Owners \X (0..MaxSecond)

TypeOK ==
    /\ second \in 0..MaxSecond
    /\ owners \in SUBSET Owners
    /\ unborn \in SUBSET Owners
    /\ buckets \in SUBSET Kinds
    /\ objects \in [ObjectNames -> Uploads \cup {None}]
    /\ rows \in SUBSET Uploads
    /\ pc \in [Uploads -> {"idle", "allowed", "absent", "ready", "named",
                           "stored", "saved", "failed"}]
    /\ owner \in [Uploads -> Owners \cup {None}]
    /\ name \in [Uploads -> Names \cup {None}]
    /\ object \in [Uploads -> ObjectNames \cup {None}]
    /\ namedAt \in [Uploads -> 0..MaxSecond]

Init ==
    /\ second = 0
    /\ unborn = {o \in Owners : Kind[o] = "sticker"}
    /\ owners = Owners \ unborn
    /\ buckets = {}
    /\ objects = [n \in ObjectNames |-> None]
    /\ rows = {}
    /\ pc = [u \in Uploads |-> "idle"]
    /\ owner = [u \in Uploads |-> None]
    /\ name = [u \in Uploads |-> None]
    /\ object = [u \in Uploads |-> None]
    /\ namedAt = [u \in Uploads |-> 0]

Tick ==
    /\ second < MaxSecond
    /\ second' = second + 1
    /\ UNCHANGED <<owners, unborn, buckets, objects, rows, pc, owner, name, object,
                   namedAt>>

-----------------------------------------------------------------------------
Advance(u, to) == pc' = [pc EXCEPT ![u] = to]

\* What the check of the permission finds out: nobody has one in a server that is
\* gone.
ServerLive == \A o \in Owners : Kind[o] = "emoji" => o \in owners

createStickerPack(o) ==
    /\ ServerLive
    /\ o \in unborn
    /\ unborn' = unborn \ {o}
    /\ owners' = owners \cup {o}
    /\ UNCHANGED <<second, buckets, objects, rows, pc, owner, name, object, namedAt>>

\* The checks before anything is stored.  The message of an attachment is looked
\* up; a pack that is gone shows in the INSERT.
Upload(u, o, n) ==
    /\ pc[u] = "idle"
    /\ ServerLive
    /\ o \notin unborn
    /\ Kind[o] = "attachment" => o \in owners
    /\ Advance(u, "allowed")
    /\ owner' = [owner EXCEPT ![u] = o]
    /\ name' = [name EXCEPT ![u] = n]
    /\ UNCHANGED <<second, owners, unborn, buckets, objects, rows, object, namedAt>>

\* ensureBucket asks first, and makes the bucket if there is none; making one
\* that exists by now is an error.
BucketExists(u) ==
    /\ pc[u] = "allowed"
    /\ Advance(u, IF Kind[owner[u]] \in buckets THEN "ready" ELSE "absent")
    /\ UNCHANGED <<second, owners, unborn, buckets, objects, rows, owner, name,
                   object, namedAt>>

MakeBucket(u) ==
    /\ pc[u] = "absent"
    /\ Advance(u, IF Kind[owner[u]] \in buckets THEN "failed" ELSE "ready")
    /\ buckets' = buckets \cup {Kind[owner[u]]}
    /\ UNCHANGED <<second, owners, unborn, objects, rows, owner, name, object,
                   namedAt>>

\* The object is named after its owner and the second.
RoundedUp(o) == <<o, second + 1>>  \* mutant: the next second
Untimed(o) == <<o, 0>>  \* mutant: the time is left out of the name
Stamped(o) == <<o, second>>

NameObject(u) ==
    /\ pc[u] = "ready"
    /\ Advance(u, "named")
    /\ object' = [object EXCEPT ![u] = Stamped(owner[u])]
    /\ namedAt' = [namedAt EXCEPT ![u] = second]
    /\ UNCHANGED <<second, owners, unborn, buckets, objects, rows, owner, name>>

\* The object appears when all of the file has arrived, and replaces one of the
\* same name.
Lost(u) == UNCHANGED objects  \* mutant: the error of PutObject is not looked at
Stored(u) == objects' = [objects EXCEPT ![object[u]] = u]

PutObject(u) ==
    /\ pc[u] = "named"
    /\ Advance(u, "stored")
    /\ Stored(u)
    /\ UNCHANGED <<second, owners, unborn, buckets, rows, owner, name, object,
                   namedAt>>

\* Names of emojis are unique in a server.
NameTaken(u) ==
    /\ Kind[owner[u]] = "emoji"
    /\ \E v \in rows : owner[v] = owner[u] /\ name[v] = name[u]

InsertAllowed(u) == owner[u] \in owners /\ ~NameTaken(u)

\* When the row is refused the object stays.
InsertRow(u) ==
    /\ pc[u] = "stored"
    /\ IF InsertAllowed(u)
         THEN rows' = rows \cup {u} /\ Advance(u, "saved")
         ELSE UNCHANGED rows /\ Advance(u, "failed")
    /\ UNCHANGED <<second, owners, unborn, buckets, objects, owner, name, object,
                   namedAt>>

\* A call to MinIO or to the database fails, or the process ends.  A call whose
\* effect is there and whose answer is lost is that call and then this action.
Fails(u) ==
    /\ pc[u] \in {"allowed", "absent", "ready", "named", "stored"}
    /\ Advance(u, "failed")
    /\ UNCHANGED <<second, owners, unborn, buckets, objects, rows, owner, name, object,
                   namedAt>>

-----------------------------------------------------------------------------
\* deleteSticker, deleteEmoji: the row goes, the object stays.  There is no such
\* operation for an attachment.
DeleteRow(u) ==
    /\ u \in rows
    /\ Kind[owner[u]] # "attachment"
    /\ rows' = rows \ {u}
    /\ UNCHANGED <<second, owners, unborn, buckets, objects, pc, owner, name, object,
                   namedAt>>

\* deleteMessage, deleteStickerPack, deleteServer: the rows of the files of the
\* owner go with it, and everything goes with the server.
Within(o) == IF Kind[o] = "emoji" THEN owners ELSE {o}
WithoutFiles(O) == {u \in rows : owner[u] \notin O}

DeleteOwner(o) ==
    /\ o \in owners
    /\ owners' = owners \ Within(o)
    /\ rows' = WithoutFiles(Within(o))
    /\ UNCHANGED <<second, unborn, buckets, objects, pc, owner, name, object, namedAt>>

Next ==
    \/ Tick
    \/ \E u \in Uploads, o \in Owners, n \in Names : Upload(u, o, n)
    \/ \E u \in Uploads :
          \/ BucketExists(u) \/ MakeBucket(u)
          \/ NameObject(u)
          \/ PutObject(u)
          \/ InsertRow(u)
          \/ Fails(u)
          \/ DeleteRow(u)
    \/ \E o \in Owners : createStickerPack(o) \/ DeleteOwner(o)

Spec == Init /\ [][Next]_vars

-----------------------------------------------------------------------------
(* Properties                                                              *)

\* What serveFile gives for the URL of upload u.
serveFile(u) == objects[object[u]]

\* Every row belongs to an owner that exists, has its own name if it is an
\* emoji, and its URL serves a file of that owner: deletes and lost answers
\* between the two writes leave objects without a row, never a row without an
\* object (uploads.go:88-105, stickers.go:136-153, 245-262).
RowsServed ==
    /\ \A u \in rows : owner[u] \in owners
    /\ \A u, v \in rows :
          u # v /\ owner[u] = owner[v] /\ Kind[owner[u]] = "emoji" => name[u] # name[v]
    /\ \A u \in rows : serveFile(u) # None /\ owner[serveFile(u)] = owner[u]

\* The file behind a row is only ever replaced by one whose upload was named in
\* the same second, however long the uploads take: a path is not used again
\* later (uploads.go:82, stickers.go:130, 239).
FilesSettle ==
    [][\A u \in rows : objects'[object[u]] # serveFile(u) =>
          namedAt[objects'[object[u]]] = namedAt[u]]_vars

\* "URLs contain unique paths" (handler.go:37): the URL of a row serves the file
\* that was uploaded with it.
UniquePaths == \A u \in rows : serveFile(u) = u
=============================================================================
