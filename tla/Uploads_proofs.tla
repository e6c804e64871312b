--------------------------- MODULE Uploads_proofs ---------------------------
(***************************************************************************)
(* Proofs about Uploads, for any numbers of uploads and owners and however *)
(* long the clock runs.                                                    *)
(*                                                                         *)
(* That a row has a file of its owner, and keeps one of its second, holds  *)
(* because the name of an object says whose it is and when it was formed   *)
(* (Titled), and an object never disappears (Kept).                        *)
(***************************************************************************)
EXTENDS Uploads, TLAPS

\* The uploads that have formed the name of their object, while they run.
Named == {"named", "stored", "saved"}

\* The name of an object is that of the upload.
Titled ==
    \A u \in Uploads :
        pc[u] \in Named => owner[u] \in Owners /\ object[u] = <<owner[u], namedAt[u]>>

\* What is stored under a name was uploaded under it.
Labelled ==
    \A n \in ObjectNames :
        objects[n] # None => owner[objects[n]] = n[1] /\ namedAt[objects[n]] = n[2]

\* An upload that has stored its object finds one under its name.
Kept == \A u \in Uploads : pc[u] \in {"stored", "saved"} => objects[object[u]] # None

\* Who waits for nothing any more, or has asked, has an owner.
Begun ==
    /\ \A u \in Uploads : pc[u] # "idle" => owner[u] \in Owners
    /\ \A n \in ObjectNames :
          objects[n] # None => pc[objects[n]] \in {"stored", "saved", "failed"}
    /\ \A u \in rows : pc[u] = "saved"
    /\ owners \cap unborn = {}

IInv == TypeOK /\ Titled /\ Labelled /\ Kept /\ Begun /\ RowsServed

-----------------------------------------------------------------------------
LEMMA InitInv == Init => IInv
  <1> SUFFICES ASSUME Init PROVE IInv OBVIOUS
  <1> USE UploadsAssumption DEF Init
  <1>1. TypeOK BY DEF TypeOK, ObjectNames
  <1>2. Titled /\ Labelled /\ Kept BY DEF Titled, Labelled, Kept, Named
  <1>3. Begun /\ RowsServed BY DEF Begun, RowsServed
  <1> QED BY <1>1, <1>2, <1>3 DEF IInv

LEMMA NameOf ==
    ASSUME TypeOK, Titled, NEW u \in Uploads, pc[u] \in Named
    PROVE  object[u] \in ObjectNames /\ object[u] = <<owner[u], namedAt[u]>>
  <1>1. owner[u] \in Owners /\ object[u] = <<owner[u], namedAt[u]>> BY DEF Titled
  <1>2. namedAt[u] \in 0..MaxSecond BY DEF TypeOK
  <1> QED BY <1>1, <1>2 DEF ObjectNames

\* A step that adds no row, changes no object, and no upload that has formed the
\* name of its object except to let it fail.
LEMMA QuietKeeps ==
    ASSUME IInv, TypeOK', UNCHANGED objects, rows' \subseteq rows,
           \A u \in rows' : owner[u] \in owners',
           owners' \cap unborn' = {},
           \A u \in Uploads :
              /\ pc[u] = "saved" => pc'[u] = "saved"
              /\ pc[u] \in Named => pc'[u] \in {pc[u], "failed"}
              /\ pc[u] \in Named \cup {"failed"}
                    => UNCHANGED <<owner[u], object[u], namedAt[u], name[u]>>
              /\ pc[u] = "failed" => pc'[u] = "failed"
              /\ pc'[u] \in Named /\ pc[u] \notin Named
                    => pc'[u] = "named" /\ object'[u] = <<owner'[u], namedAt'[u]>>
              /\ pc'[u] # "idle" => owner'[u] \in Owners
    PROVE  IInv'
  <1> USE DEF IInv
  <1>1. Titled' BY DEF Titled, Begun, Named
  <1>2. Labelled'
    <2> SUFFICES ASSUME NEW n \in ObjectNames, objects[n] # None
                 PROVE  owner'[objects[n]] = n[1] /\ namedAt'[objects[n]] = n[2]
      BY DEF Labelled
    <2>1. objects[n] \in Uploads BY DEF TypeOK
    <2>2. pc[objects[n]] \in Named \cup {"failed"} BY DEF Begun, Named
    <2> QED BY <2>1, <2>2 DEF Labelled
  <1>3. Kept' BY DEF Kept, Named
  <1>4. Begun'
    <2>1. \A n \in ObjectNames :
             objects'[n] # None => pc'[objects'[n]] \in {"stored", "saved", "failed"}
      <3> SUFFICES ASSUME NEW n \in ObjectNames, objects[n] # None
                   PROVE  pc'[objects[n]] \in {"stored", "saved", "failed"}
        OBVIOUS
      <3>1. objects[n] \in Uploads BY DEF TypeOK
      <3> QED BY <3>1 DEF Begun, Named
    <2>2. \A u \in rows' : pc'[u] = "saved" BY DEF Begun, TypeOK, Named
    <2> QED BY <2>1, <2>2 DEF Begun
  <1>5. RowsServed'
    <2>1. \A u \in rows' :
             /\ u \in rows /\ u \in Uploads
             /\ owner'[u] = owner[u] /\ object'[u] = object[u] /\ name'[u] = name[u]
      BY DEF Begun, TypeOK, Named
    <2>2. \A u \in rows' : owner'[u] \in owners' BY <2>1
    <2>3. \A u, v \in rows' :
             u # v /\ owner'[u] = owner'[v] /\ Kind[owner'[u]] = "emoji"
                => name'[u] # name'[v]
      BY <2>1 DEF RowsServed
    <2>4. ASSUME NEW u \in rows'
          PROVE  serveFile(u)' # None /\ owner'[serveFile(u)'] = owner'[u]
      <3>1. serveFile(u)' = objects[object[u]] BY <2>1 DEF serveFile
      <3>2. objects[object[u]] # None /\ owner[objects[object[u]]] = owner[u]
        BY <2>1 DEF RowsServed, serveFile
      <3>3. object[u] \in ObjectNames
        BY <2>1, NameOf DEF Begun, Named
      <3>4. objects[object[u]] \in Uploads BY <3>2, <3>3 DEF TypeOK
      <3>5. owner'[objects[object[u]]] = owner[objects[object[u]]]
        BY <3>2, <3>3, <3>4 DEF Begun, Named
      <3> QED BY <2>1, <3>1, <3>2, <3>5
    <2> QED BY <2>2, <2>3, <2>4 DEF RowsServed
  <1> QED BY <1>1, <1>2, <1>3, <1>4, <1>5

\* A new object is one of the upload its name is from.
LEMMA PutKeeps == ASSUME IInv, NEW w \in Uploads, PutObject(w) PROVE IInv'
  <1> USE DEF IInv, PutObject, Advance, Stored
  <1>1. object[w] \in ObjectNames /\ object[w] = <<owner[w], namedAt[w]>>
    BY NameOf DEF Named
  <1>2. TypeOK' BY <1>1 DEF TypeOK
  <1>3. Titled' BY DEF Titled, Named, TypeOK
  <1>4. Labelled' BY <1>1 DEF Labelled, TypeOK
  <1>5. w # None BY UploadsAssumption
  <1>6. Kept'
    <2> SUFFICES ASSUME NEW u \in Uploads, pc'[u] \in {"stored", "saved"}
                 PROVE  objects'[object[u]] # None
      BY DEF Kept
    <2>1. u = w \/ pc[u] \in {"stored", "saved"} BY DEF TypeOK
    <2>2. object[u] \in ObjectNames BY <1>1, <2>1, NameOf DEF Named
    <2> QED BY <1>1, <1>5, <2>1, <2>2 DEF Kept, TypeOK
  <1>7. Begun' BY <1>1 DEF Begun, TypeOK
  <1>8. RowsServed'
    <2>1. ASSUME NEW u \in rows
          PROVE  objects'[object[u]] # None /\ owner[objects'[object[u]]] = owner[u]
      <3>1. u \in Uploads /\ pc[u] = "saved" BY DEF Begun, TypeOK
      <3>2. object[u] \in ObjectNames /\ object[u] = <<owner[u], namedAt[u]>>
        BY <3>1, NameOf DEF Named
      <3>3. CASE object[u] = object[w] BY <1>1, <1>5, <3>2, <3>3 DEF TypeOK
      <3>4. CASE object[u] # object[w]
        BY <1>1, <3>2, <3>4 DEF TypeOK, RowsServed, serveFile
      <3> QED BY <3>3, <3>4
    <2> QED BY <2>1 DEF RowsServed, serveFile
  <1> QED BY <1>2, <1>3, <1>4, <1>6, <1>7, <1>8

\* The row of an upload that has stored its object.
LEMMA InsertKeeps == ASSUME IInv, NEW w \in Uploads, InsertRow(w) PROVE IInv'
  <1> USE DEF IInv, InsertRow, Advance
  <1>1. CASE InsertAllowed(w)
    <2>1. TypeOK' BY <1>1 DEF TypeOK
    <2>2. Titled' BY <1>1 DEF Titled, Named, TypeOK
    <2>3. Labelled' BY <1>1 DEF Labelled
    <2>4. Kept' BY <1>1 DEF Kept, TypeOK
    <2>5. Begun' BY <1>1 DEF Begun, TypeOK
    <2>6. object[w] \in ObjectNames /\ object[w] = <<owner[w], namedAt[w]>>
      BY NameOf DEF Named
    <2>7. objects[object[w]] # None /\ owner[objects[object[w]]] = owner[w]
      BY <2>6 DEF Kept, Labelled
    <2>8. RowsServed' BY <1>1, <2>7 DEF RowsServed, serveFile, InsertAllowed, NameTaken
    <2> QED BY <2>1, <2>2, <2>3, <2>4, <2>5, <2>8
  <1>2. CASE ~InsertAllowed(w)
    <2>1. TypeOK' BY <1>2 DEF TypeOK
    <2> QED BY <1>2, <2>1, QuietKeeps DEF TypeOK, Begun, RowsServed, Named
  <1> QED BY <1>1, <1>2

\* The steps of an upload before it has formed a name, and its failure.
LEMMA UploadKeeps ==
    ASSUME IInv, NEW w \in Uploads,
           \/ \E o \in Owners, n \in Names : Upload(w, o, n)
           \/ BucketExists(w) \/ MakeBucket(w) \/ NameObject(w) \/ Fails(w)
    PROVE  IInv'
  <1> USE DEF IInv, Advance
  <1>1. /\ owners \cap unborn = {}
        /\ \A u \in rows : u \in Uploads /\ pc[u] = "saved" /\ owner[u] \in owners
        /\ \A u \in Uploads : pc[u] # "idle" => owner[u] \in Owners
    BY DEF Begun, RowsServed, TypeOK
  <1>2. ASSUME NEW o \in Owners, NEW n \in Names, Upload(w, o, n) PROVE IInv'
    <2>1. TypeOK' BY <1>2 DEF Upload, TypeOK
    <2> QED BY <1>1, <1>2, <2>1, QuietKeeps DEF Upload, TypeOK, Named
  <1>3. CASE BucketExists(w)
    <2>1. TypeOK' BY <1>3 DEF BucketExists, TypeOK
    <2> QED BY <1>1, <1>3, <2>1, QuietKeeps DEF BucketExists, TypeOK, Named
  <1>4. CASE MakeBucket(w)
    <2>1. Kind[owner[w]] \in Kinds BY <1>1, <1>4, UploadsAssumption DEF MakeBucket
    <2>2. TypeOK' BY <1>4, <2>1 DEF MakeBucket, TypeOK
    <2> QED BY <1>1, <1>4, <2>2, QuietKeeps DEF MakeBucket, TypeOK, Named
  <1>5. CASE NameObject(w)
    <2>1. Stamped(owner[w]) \in ObjectNames
      BY <1>1, <1>5 DEF NameObject, Stamped, ObjectNames, TypeOK
    <2>2. TypeOK' BY <1>5, <2>1 DEF NameObject, TypeOK
    <2> QED BY <1>1, <1>5, <2>2, QuietKeeps DEF NameObject, Stamped, TypeOK, Named
  <1>6. CASE Fails(w)
    <2>1. TypeOK' BY <1>6 DEF Fails, TypeOK
    <2> QED BY <1>1, <1>6, <2>1, QuietKeeps DEF Fails, TypeOK, Named
  <1> QED BY <1>2, <1>3, <1>4, <1>5, <1>6

\* The clock, and what comes and goes with its rows.
LEMMA OwnerKeeps ==
    ASSUME IInv,
           \/ Tick
           \/ \E u \in Uploads : DeleteRow(u)
           \/ \E o \in Owners : createStickerPack(o) \/ DeleteOwner(o)
    PROVE  IInv'
  <1> USE DEF IInv
  <1>1. /\ owners \cap unborn = {}
        /\ \A u \in rows : u \in Uploads /\ pc[u] = "saved" /\ owner[u] \in owners
        /\ \A u \in Uploads : pc[u] # "idle" => owner[u] \in Owners
    BY DEF Begun, RowsServed, TypeOK
  <1>2. CASE Tick
    <2>1. TypeOK' BY <1>2, UploadsAssumption DEF Tick, TypeOK
    <2> QED BY <1>1, <1>2, <2>1, QuietKeeps DEF Tick, Named
  <1>3. ASSUME NEW w \in Uploads, DeleteRow(w) PROVE IInv'
    <2>1. TypeOK' BY <1>3 DEF DeleteRow, TypeOK
    <2> QED BY <1>1, <1>3, <2>1, QuietKeeps DEF DeleteRow, Named
  <1>4. ASSUME NEW o \in Owners, createStickerPack(o) PROVE IInv'
    <2>1. TypeOK' BY <1>4 DEF createStickerPack, TypeOK
    <2> QED BY <1>1, <1>4, <2>1, QuietKeeps DEF createStickerPack, Named
  <1>5. ASSUME NEW o \in Owners, DeleteOwner(o) PROVE IInv'
    <2>1. TypeOK' BY <1>5 DEF DeleteOwner, WithoutFiles, TypeOK
    <2>2. rows' \subseteq rows /\ \A u \in rows' : owner[u] \in owners'
      BY <1>1, <1>5 DEF DeleteOwner, WithoutFiles
    <2> QED BY <1>1, <1>5, <2>1, <2>2, QuietKeeps DEF DeleteOwner, Named
  <1> QED BY <1>2, <1>3, <1>4, <1>5

LEMMA StepInv == IInv /\ [Next]_vars => IInv'
  <1> SUFFICES ASSUME IInv, [Next]_vars PROVE IInv' OBVIOUS
  <1>1. CASE UNCHANGED vars
    BY <1>1 DEF vars, IInv, TypeOK, Titled, Labelled, Kept, Begun, RowsServed, serveFile
  <1>2. CASE Next
    BY <1>2, PutKeeps, InsertKeeps, UploadKeeps, OwnerKeeps DEF Next
  <1> QED BY <1>1, <1>2

LEMMA Invariance == Spec => []IInv
  BY InitInv, StepInv, PTL DEF Spec

\* Every variable of the uploads keeps its type.
THEOREM TypeCorrect == Spec => []TypeOK
  <1>1. IInv => TypeOK BY DEF IInv
  <1> QED BY Invariance, <1>1, PTL

\* No order of uploads, failures and deletes leaves a row whose owner is gone or
\* whose URL serves nothing, or a file of another owner.
THEOREM AlwaysServed == Spec => []RowsServed
  <1>1. IInv => RowsServed BY DEF IInv
  <1> QED BY Invariance, <1>1, PTL

\* The file behind a row is only replaced by one named in the same second.
THEOREM Settled == Spec => FilesSettle
  <1>1. ASSUME IInv, [Next]_vars, NEW u \in rows, objects'[object[u]] # serveFile(u)
        PROVE  namedAt[objects'[object[u]]] = namedAt[u]
    <2>1. PICK w \in Uploads : PutObject(w)
      BY <1>1 DEF Next, vars, serveFile, Tick, Upload, BucketExists, MakeBucket,
         NameObject, InsertRow, Fails, DeleteRow, createStickerPack, DeleteOwner
    <2>2. u \in Uploads /\ object[u] = <<owner[u], namedAt[u]>> /\ object[u] \in ObjectNames
      BY <1>1, NameOf DEF IInv, Begun, TypeOK, Named
    <2>3. object[w] = <<owner[w], namedAt[w]>> /\ object[w] \in ObjectNames
      BY <1>1, <2>1, NameOf DEF IInv, Named, PutObject
    <2>4. object[u] = object[w] /\ objects'[object[u]] = w
      BY <1>1, <2>1, <2>2, <2>3 DEF PutObject, Stored, serveFile, IInv, TypeOK
    <2> QED BY <2>2, <2>3, <2>4
  <1>2. IInv /\ [Next]_vars
           => [\A u \in rows : objects'[object[u]] # serveFile(u) =>
                   namedAt[objects'[object[u]]] = namedAt[u]]_vars
    BY <1>1
  <1> QED BY Invariance, <1>2, PTL DEF Spec, FilesSettle
=============================================================================
