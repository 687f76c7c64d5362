------------------------- MODULE SignedDocumentsProofs --------------------------
(***************************************************************************)
(* The certificate of a company and what is signed with it, for every      *)
(* number of uploads, files, receipts, approvals, workers and documents:   *)
(* a renewed certificate is kept, a rotation is all or nothing, what a     *)
(* received document says happened did, and no ACECF is left half done.    *)
(***************************************************************************)
EXTENDS SignedDocuments, FiniteSetTheorems, SequenceTheorems, TLAPS

-----------------------------------------------------------------------------
(* The certificates *)

EncryptionKeys == {"old", "new"}
FileType == [opens : BOOLEAN, cert : BOOLEAN, key : BOOLEAN, from : Int, to : Int]
CertRow == [file : FileType, active : BOOLEAN, key : EncryptionKeys]

\* Type invariant of the certificates.
CertTypeOK ==
  /\ now \in Int
  /\ certs \in Seq(CertRow)
  /\ upload \in [Uploads -> [step : {"idle", "create"}, file : FileType]]
  /\ died \in BOOLEAN
  /\ check \in [on : BOOLEAN, at : Int, left : SUBSET (DOMAIN certs)]
  /\ rotation \in [on : BOOLEAN, left : SUBSET (DOMAIN certs), done : SUBSET (DOMAIN certs)]
  /\ secretKey \in EncryptionKeys /\ appKey \in EncryptionKeys

\* What was accepted can be opened, and its validity has begun.
AcceptedFiles ==
  /\ \A i \in DOMAIN certs : Extracted(certs[i].file) /\ certs[i].file.from <= now
  /\ \A u \in Uploads : upload[u].step = "create" =>
       Extracted(upload[u].file) /\ upload[u].file.from <= now

\* The check judges by a time that has been.
CheckedInThePast == check.on => check.at <= now

\* The certificate created last is active or in its last day, unless an upload is
\* about to create another or died before it did.
LastIsActive ==
  (Len(certs) > 0 /\ ~died /\ \A u \in Uploads : upload[u].step = "idle") =>
    certs[Len(certs)].active \/ certs[Len(certs)].file.to - now < 2

\* A rotation splits the first rows, all that there were when it began, into those
\* rewritten and those left; it commits once.
RotationKnown ==
  /\ secretKey = "old" => appKey = "old" /\ \A i \in DOMAIN certs : certs[i].key = "old"
  /\ rotation.on => /\ secretKey = "old" /\ rotation.left \cap rotation.done = {}
                    /\ \E n \in 0 .. Len(certs) : rotation.left \cup rotation.done = 1 .. n
  /\ ~rotation.on /\ secretKey = "old" => rotation.done = {}
  /\ secretKey = "new" =>
       \E n \in 0 .. Len(certs) :
         rotation.done = 1 .. n /\ \A i \in 1 .. n : certs[i].key = "new"

CertInv == CertTypeOK /\ AcceptedFiles /\ CheckedInThePast /\ LastIsActive /\ RotationKnown

\* A function on 1 .. n is a sequence of length n.
LEMMA FunctionIsSeq ==
  ASSUME NEW S, NEW n \in Nat, NEW f \in [1 .. n -> S]
  PROVE  f \in Seq(S) /\ Len(f) = n /\ DOMAIN f = 1 .. n
<1>1. f = [i \in 1 .. n |-> f[i]] /\ \A i \in 1 .. n : f[i] \in S
  OBVIOUS
<1>2. [i \in 1 .. n |-> f[i]] \in Seq(S)
  BY <1>1, IsASeq
<1>3. f \in Seq(S) /\ DOMAIN f = 1 .. n
  BY <1>1, <1>2
<1>4. QED
  BY <1>3, LenProperties

\* What the type invariant says of a row.
LEMMA RowTypes ==
  ASSUME CertTypeOK, NEW i \in DOMAIN certs
  PROVE  /\ certs[i] \in CertRow /\ certs[i].file \in FileType
         /\ certs[i].file.from \in Int /\ certs[i].file.to \in Int
<1>1. certs[i] \in CertRow
  BY DEF CertTypeOK
<1>2. certs[i].file \in FileType
  BY <1>1 DEF CertRow
<1>3. QED
  BY <1>1, <1>2 DEF FileType

LEMMA NothingStarted ==
  /\ NoUpload \in [step : {"idle", "create"}, file : FileType]
  /\ \A n : NoCheck \in [on : BOOLEAN, at : Int, left : SUBSET n]
  /\ \A n : NoRotation \in [on : BOOLEAN, left : SUBSET n, done : SUBSET n]
<1>1. NoFile \in FileType
  BY DEF NoFile, FileType
<1>2. NoUpload \in [step : {"idle", "create"}, file : FileType]
  BY <1>1 DEF NoUpload
<1>3. QED
  BY <1>2 DEF NoCheck, NoRotation

LEMMA CertInitInv == CertInit => CertInv
<1> SUFFICES ASSUME CertInit PROVE CertInv
  OBVIOUS
<1>1. /\ now = 0 /\ upload = [u \in Uploads |-> NoUpload] /\ died = FALSE
      /\ check = NoCheck /\ rotation = NoRotation /\ secretKey = "old" /\ appKey = "old"
  BY DEF CertInit
<1>0. /\ now \in Int /\ died \in BOOLEAN
      /\ upload \in [Uploads -> [step : {"idle", "create"}, file : FileType]]
      /\ check \in [on : BOOLEAN, at : Int, left : SUBSET (DOMAIN certs)]
      /\ rotation \in [on : BOOLEAN, left : SUBSET (DOMAIN certs), done : SUBSET (DOMAIN certs)]
      /\ secretKey \in EncryptionKeys /\ appKey \in EncryptionKeys
  <2>1. upload \in [Uploads -> [step : {"idle", "create"}, file : FileType]]
    BY <1>1, NothingStarted
  <2>2. /\ check \in [on : BOOLEAN, at : Int, left : SUBSET (DOMAIN certs)]
        /\ rotation \in [on : BOOLEAN, left : SUBSET (DOMAIN certs), done : SUBSET (DOMAIN certs)]
    BY <1>1, NothingStarted, Zenon
  <2>3. now \in Int
    BY <1>1
  <2>4. died \in BOOLEAN /\ secretKey \in EncryptionKeys /\ appKey \in EncryptionKeys
    BY <1>1, Zenon DEF EncryptionKeys
  <2>5. QED
    BY <2>1, <2>2, <2>3, <2>4, Zenon
<1>2. CASE certs = <<>>
  <2>1. certs \in Seq(CertRow) /\ Len(certs) = 0 /\ DOMAIN certs = {}
    BY <1>2
  <2>2. CertTypeOK
    BY <1>0, <2>1 DEF CertTypeOK
  <2>3. AcceptedFiles /\ CheckedInThePast /\ LastIsActive /\ RotationKnown
    BY <1>1, <2>1 DEF AcceptedFiles, CheckedInThePast, LastIsActive, RotationKnown, NoUpload, NoCheck,
                      NoRotation
  <2>4. QED
    BY <2>2, <2>3 DEF CertInv
<1>3. CASE certs # <<>>
  <2>1. PICK f \in Files : Acceptable(f) /\ certs = <<[file |-> f, active |-> TRUE, key |-> "old"]>>
    BY <1>3 DEF CertInit
  <2>2. f \in FileType
    BY CertificatesAssumption DEF FileType
  <2>3. /\ certs \in Seq(CertRow) /\ Len(certs) = 1 /\ DOMAIN certs = {1}
        /\ certs[1].file = f /\ certs[1].active /\ certs[1].key = "old"
    BY <2>1, <2>2 DEF CertRow, EncryptionKeys
  <2>4. CertTypeOK
    BY <1>0, <2>3 DEF CertTypeOK
  <2>5. AcceptedFiles
    BY <1>1, <2>1, <2>3 DEF AcceptedFiles, Acceptable, NoUpload
  <2>6. CheckedInThePast /\ LastIsActive /\ RotationKnown
    BY <1>1, <2>3 DEF CheckedInThePast, LastIsActive, RotationKnown, NoCheck, NoRotation
  <2>7. QED
    BY <2>4, <2>5, <2>6 DEF CertInv
<1>4. QED
  BY <1>2, <1>3

\* The rows are rewritten in place: what each step that does so has to show.
LEMMA RowsRewritten ==
  ASSUME CertInv, certs' \in [DOMAIN certs -> CertRow],
         \A i \in DOMAIN certs : certs'[i].file = certs[i].file
  PROVE  /\ certs' \in Seq(CertRow) /\ Len(certs') = Len(certs) /\ DOMAIN certs' = DOMAIN certs
         /\ DOMAIN certs = 1 .. Len(certs) /\ Len(certs) \in Nat
<1>1. certs \in Seq(CertRow)
  BY DEF CertInv, CertTypeOK
<1>2. DOMAIN certs = 1 .. Len(certs) /\ Len(certs) \in Nat
  BY <1>1
<1>3. QED
  BY <1>2, FunctionIsSeq

LEMMA UploadDeactivateInv ==
  ASSUME CertInv, NEW u \in Uploads, NEW file \in Files, UploadDeactivate(u, file)
  PROVE  CertInv'
<1> USE DEF CertInv
<1>1. /\ certs' = [i \in DOMAIN certs |-> [certs[i] EXCEPT !.active = FALSE]]
      /\ upload' = [upload EXCEPT ![u] = [step |-> "create", file |-> file]]
      /\ UNCHANGED <<now, died, check, rotation, secretKey, appKey>>
  BY DEF UploadDeactivate, Deactivated
<1>2. \A i \in DOMAIN certs : certs[i] \in CertRow
  BY DEF CertTypeOK
<1>3. /\ certs' \in [DOMAIN certs -> CertRow]
      /\ \A i \in DOMAIN certs : certs'[i].file = certs[i].file /\ certs'[i].key = certs[i].key
  BY <1>1, <1>2 DEF CertRow
<1>4. /\ certs' \in Seq(CertRow) /\ Len(certs') = Len(certs) /\ DOMAIN certs' = DOMAIN certs
      /\ DOMAIN certs = 1 .. Len(certs) /\ Len(certs) \in Nat
  BY <1>3, RowsRewritten
<1>5. file \in FileType /\ Extracted(file) /\ file.from <= now
  BY CertificatesAssumption DEF UploadDeactivate, Acceptable, FileType
<1>6. CertTypeOK'
  BY <1>1, <1>4, <1>5 DEF CertTypeOK
<1>7. AcceptedFiles'
  BY <1>1, <1>3, <1>4, <1>5 DEF AcceptedFiles, CertTypeOK, Extracted
<1>8. CheckedInThePast'
  BY <1>1 DEF CheckedInThePast
<1>9. LastIsActive'
  BY <1>1 DEF LastIsActive, CertTypeOK
<1>10. RotationKnown'
  BY <1>1, <1>3, <1>4 DEF RotationKnown
<1>11. QED
  BY <1>6, <1>7, <1>8, <1>9, <1>10

LEMMA UploadCreateInv ==
  ASSUME CertInv, NEW u \in Uploads, UploadCreate(u)
  PROVE  CertInv'
<1> DEFINE row == [file |-> upload[u].file, active |-> TRUE, key |-> appKey]
           n == Len(certs)
<1> USE DEF CertInv
<1>1. /\ certs' = Append(certs, row) /\ upload' = [upload EXCEPT ![u] = NoUpload]
      /\ upload[u].step = "create" /\ UNCHANGED <<now, died, check, rotation, secretKey, appKey>>
  BY DEF UploadCreate
<1>2. upload[u].file \in FileType
  BY DEF CertTypeOK
<1>3. row \in CertRow /\ row.file = upload[u].file /\ row.active /\ row.key = appKey
  BY <1>2 DEF CertRow, CertTypeOK
<1> HIDE DEF row
<1>4. /\ certs' \in Seq(CertRow) /\ Len(certs') = n + 1 /\ n \in Nat
      /\ DOMAIN certs = 1 .. n /\ DOMAIN certs' = 1 .. n + 1
      /\ \A i \in 1 .. n : certs'[i] = certs[i]
      /\ certs'[n + 1] = row
  BY <1>1, <1>3, AppendProperties DEF CertTypeOK
<1> HIDE DEF n
<1>5. CertTypeOK'
  <2>1. upload' \in [Uploads -> [step : {"idle", "create"}, file : FileType]]
    BY <1>1 DEF CertTypeOK, NoUpload, NoFile, FileType
  <2>2. DOMAIN certs \subseteq DOMAIN certs'
    BY <1>4
  <2>3. /\ check' \in [on : BOOLEAN, at : Int, left : SUBSET (DOMAIN certs')]
        /\ rotation' \in [on : BOOLEAN, left : SUBSET (DOMAIN certs'), done : SUBSET (DOMAIN certs')]
    BY <1>1, <2>2 DEF CertTypeOK
  <2>4. QED
    BY <1>1, <1>4, <2>1, <2>3 DEF CertTypeOK
<1>6. AcceptedFiles'
  <2>1. \A i \in DOMAIN certs' : Extracted(certs'[i].file) /\ certs'[i].file.from <= now
    BY <1>1, <1>3, <1>4 DEF AcceptedFiles
  <2>2. \A w \in Uploads : upload'[w].step = "create" => upload'[w] = upload[w]
    BY <1>1 DEF CertTypeOK, NoUpload
  <2>3. QED
    BY <1>1, <2>1, <2>2 DEF AcceptedFiles, Extracted
<1>7. CheckedInThePast'
  BY <1>1 DEF CheckedInThePast
<1>8. LastIsActive'
  BY <1>3, <1>4 DEF LastIsActive
<1>9. RotationKnown'
  <2>1. secretKey' = "old" => appKey' = "old" /\ \A i \in DOMAIN certs' : certs'[i].key = "old"
    BY <1>1, <1>3, <1>4 DEF RotationKnown
  <2>2. rotation'.on => \E m \in 0 .. Len(certs') : rotation'.left \cup rotation'.done = 1 .. m
    BY <1>1, <1>4 DEF RotationKnown, n
  <2>3. secretKey' = "new" =>
          \E m \in 0 .. Len(certs') : rotation'.done = 1 .. m /\ \A i \in 1 .. m : certs'[i].key = "new"
    <3> SUFFICES ASSUME secretKey' = "new"
                 PROVE  \E m \in 0 .. Len(certs') :
                          rotation'.done = 1 .. m /\ \A i \in 1 .. m : certs'[i].key = "new"
      OBVIOUS
    <3>1. PICK m \in 0 .. n : rotation.done = 1 .. m /\ \A i \in 1 .. m : certs[i].key = "new"
      BY <1>1 DEF RotationKnown, n
    <3>2. m \in 0 .. Len(certs') /\ \A i \in 1 .. m : certs'[i].key = "new"
      BY <1>4, <3>1
    <3>3. QED
      BY <1>1, <3>1, <3>2
  <2>4. QED
    BY <1>1, <2>1, <2>2, <2>3 DEF RotationKnown
<1>10. QED
  BY <1>5, <1>6, <1>7, <1>8, <1>9

LEMMA UploadDiesInv ==
  ASSUME CertInv, NEW u \in Uploads, UploadDies(u)
  PROVE  CertInv'
<1> USE DEF CertInv
<1>1. /\ upload' = [upload EXCEPT ![u] = NoUpload] /\ died' = TRUE
      /\ UNCHANGED <<now, certs, check, rotation, secretKey, appKey>>
  BY DEF UploadDies
<1>2. CertTypeOK'
  BY <1>1 DEF CertTypeOK, NoUpload, NoFile, FileType
<1>3. \A w \in Uploads : upload'[w].step = "create" => upload'[w] = upload[w]
  BY <1>1 DEF CertTypeOK, NoUpload
<1>4. AcceptedFiles'
  BY <1>1, <1>3 DEF AcceptedFiles, Extracted
<1>5. CheckedInThePast' /\ LastIsActive' /\ RotationKnown'
  BY <1>1 DEF CheckedInThePast, LastIsActive, RotationKnown
<1>6. QED
  BY <1>2, <1>4, <1>5

LEMMA CheckInv ==
  ASSUME CertInv, CheckStart \/ CheckEnd
  PROVE  CertInv'
<1> USE DEF CertInv
<1>1. UNCHANGED <<now, certs, upload, died, rotation, secretKey, appKey>>
  BY DEF CheckStart, CheckEnd
<1>2. check' \in [on : BOOLEAN, at : Int, left : SUBSET (DOMAIN certs)] /\ (check'.on => check'.at <= now)
  <2>1. CASE CheckStart
    <3>1. check' = [on |-> TRUE, at |-> now, left |-> ActiveCerts] /\ ActiveCerts \subseteq DOMAIN certs
      BY <2>1 DEF CheckStart, ActiveCerts
    <3>2. now \in Int
      BY DEF CertTypeOK
    <3>3. QED
      BY <3>1, <3>2
  <2>2. CASE CheckEnd
    BY <2>2, NothingStarted DEF CheckEnd, NoCheck
  <2>3. QED
    BY <2>1, <2>2
<1>3. QED
  BY <1>1, <1>2 DEF CertTypeOK, AcceptedFiles, CheckedInThePast, LastIsActive, RotationKnown

\* The check turns off only rows in their last day, by a clock that is behind.
LEMMA CheckRowInv ==
  ASSUME CertInv, CheckRow
  PROVE  CertInv'
<1> USE DEF CertInv
<1>1. PICK i \in check.left :
        /\ check' = [check EXCEPT !.left = @ \ {i}]
        /\ certs' = IF InLastDay(i) THEN [certs EXCEPT ![i].active = FALSE] ELSE certs
  BY DEF CheckRow
<1>2. check.on /\ UNCHANGED <<now, upload, died, rotation, secretKey, appKey>>
  BY DEF CheckRow
<1>3. i \in DOMAIN certs /\ \A j \in DOMAIN certs : certs[j] \in CertRow
  BY DEF CertTypeOK
<1>4. /\ certs' \in [DOMAIN certs -> CertRow]
      /\ \A j \in DOMAIN certs :
           /\ certs'[j].file = certs[j].file /\ certs'[j].key = certs[j].key
           /\ certs'[j].active = certs[j].active \/ InLastDay(j)
  <2>1. CASE InLastDay(i)
    <3>1. certs' = [certs EXCEPT ![i] = [certs[i] EXCEPT !.active = FALSE]]
      BY <1>1, <2>1
    <3>2. QED
      BY <2>1, <3>1, <1>3 DEF CertRow, CertTypeOK
  <2>2. CASE ~InLastDay(i)
    BY <1>1, <1>3, <2>2 DEF CertTypeOK
  <2>3. QED
    BY <2>1, <2>2
<1>5. /\ certs' \in Seq(CertRow) /\ Len(certs') = Len(certs) /\ DOMAIN certs' = DOMAIN certs
      /\ DOMAIN certs = 1 .. Len(certs) /\ Len(certs) \in Nat
  BY <1>4, RowsRewritten
<1>6. check'.on = check.on /\ check'.at = check.at /\ check' \in [on : BOOLEAN, at : Int, left : SUBSET (DOMAIN certs)]
  BY <1>1 DEF CertTypeOK
<1>7. CertTypeOK'
  BY <1>2, <1>5, <1>6 DEF CertTypeOK
<1>8. AcceptedFiles'
  BY <1>2, <1>4, <1>5 DEF AcceptedFiles, Extracted
<1>9. CheckedInThePast'
  BY <1>2, <1>6 DEF CheckedInThePast
<1>10. LastIsActive'
  <2> SUFFICES ASSUME Len(certs) > 0, ~died, \A u \in Uploads : upload[u].step = "idle"
               PROVE  certs'[Len(certs)].active \/ certs'[Len(certs)].file.to - now < 2
    BY <1>2, <1>5 DEF LastIsActive
  <2> DEFINE n == Len(certs)
  <2>1. n \in DOMAIN certs
    BY <1>5
  <2>2. certs[n].active \/ certs[n].file.to - now < 2
    BY DEF LastIsActive
  <2>3. InLastDay(n) => certs[n].file.to - now < 2
    <3>1. certs[n].file.to \in Int /\ now \in Int /\ check.at \in Int /\ check.at <= now
      BY <1>2, <1>3, <2>1 DEF CertTypeOK, CertRow, FileType, CheckedInThePast
    <3>2. QED
      BY <3>1 DEF InLastDay
  <2>4. QED
    BY <1>4, <2>1, <2>2, <2>3
<1>11. RotationKnown'
  BY <1>2, <1>4, <1>5 DEF RotationKnown
<1>12. QED
  BY <1>7, <1>8, <1>9, <1>10, <1>11

LEMMA RotateStartInv ==
  ASSUME CertInv, RotateStart
  PROVE  CertInv'
<1> USE DEF CertInv
<1>1. /\ rotation' = [on |-> TRUE, left |-> DOMAIN certs, done |-> {}] /\ secretKey = "old"
      /\ UNCHANGED <<now, certs, upload, died, check, secretKey, appKey>>
  BY DEF RotateStart
<1>2. DOMAIN certs = 1 .. Len(certs) /\ Len(certs) \in Nat
  BY DEF CertTypeOK
<1>3. CertTypeOK'
  BY <1>1 DEF CertTypeOK
<1>4. RotationKnown'
  BY <1>1, <1>2 DEF RotationKnown
<1>5. QED
  BY <1>1, <1>3, <1>4 DEF AcceptedFiles, CheckedInThePast, LastIsActive

LEMMA RotateRowInv ==
  ASSUME CertInv, RotateRow
  PROVE  CertInv'
<1> USE DEF CertInv
<1>1. PICK i \in rotation.left :
        rotation' = IF certs[i].key = "old" THEN [rotation EXCEPT !.left = @ \ {i}, !.done = @ \cup {i}]
                                            ELSE NoRotation
  BY DEF RotateRow
<1>2. rotation.on /\ UNCHANGED <<now, certs, upload, died, check, secretKey, appKey>>
  BY DEF RotateRow
<1>3. i \in DOMAIN certs
  BY DEF CertTypeOK
<1>4. certs[i].key = "old"
  BY <1>2, <1>3 DEF RotationKnown
<1>5. /\ rotation'.on = rotation.on /\ rotation'.left = rotation.left \ {i}
      /\ rotation'.done = rotation.done \cup {i}
      /\ rotation' \in [on : BOOLEAN, left : SUBSET (DOMAIN certs), done : SUBSET (DOMAIN certs)]
  BY <1>1, <1>3, <1>4 DEF CertTypeOK
<1>6. CertTypeOK'
  BY <1>2, <1>5 DEF CertTypeOK
<1>7. RotationKnown'
  <2>1. rotation'.left \cup rotation'.done = rotation.left \cup rotation.done
    BY <1>5
  <2>2. QED
    BY <1>2, <1>5, <2>1 DEF RotationKnown
<1>8. QED
  BY <1>2, <1>6, <1>7 DEF AcceptedFiles, CheckedInThePast, LastIsActive

\* The commit rewrites exactly the rows that were there when the rotation began.
LEMMA RotateCommitInv ==
  ASSUME CertInv, RotateCommit
  PROVE  CertInv'
<1> USE DEF CertInv
<1>1. /\ rotation.on /\ rotation.left = {}
      /\ certs' = [i \in DOMAIN certs |->
                     IF i \in rotation.done THEN [certs[i] EXCEPT !.key = "new"] ELSE certs[i]]
      /\ secretKey' = "new" /\ rotation' = [rotation EXCEPT !.on = FALSE]
      /\ UNCHANGED <<now, upload, died, check, appKey>>
  BY DEF RotateCommit, Rotated
<1>2. \A i \in DOMAIN certs : certs[i] \in CertRow
  BY DEF CertTypeOK
<1>3. /\ certs' \in [DOMAIN certs -> CertRow]
      /\ \A i \in DOMAIN certs :
           /\ certs'[i].file = certs[i].file /\ certs'[i].active = certs[i].active
           /\ i \in rotation.done => certs'[i].key = "new"
  BY <1>1, <1>2 DEF CertRow, EncryptionKeys
<1>4. /\ certs' \in Seq(CertRow) /\ Len(certs') = Len(certs) /\ DOMAIN certs' = DOMAIN certs
      /\ DOMAIN certs = 1 .. Len(certs) /\ Len(certs) \in Nat
  BY <1>3, RowsRewritten
<1>5. /\ rotation'.on = FALSE /\ rotation'.done = rotation.done
      /\ rotation' \in [on : BOOLEAN, left : SUBSET (DOMAIN certs), done : SUBSET (DOMAIN certs)]
  BY <1>1 DEF CertTypeOK
<1>6. CertTypeOK'
  BY <1>1, <1>4, <1>5 DEF CertTypeOK, EncryptionKeys
<1>7. AcceptedFiles'
  BY <1>1, <1>3, <1>4 DEF AcceptedFiles, Extracted
<1>8. CheckedInThePast'
  BY <1>1 DEF CheckedInThePast
<1>9. LastIsActive'
  BY <1>1, <1>3, <1>4 DEF LastIsActive
<1>10. RotationKnown'
  <2>1. PICK n \in 0 .. Len(certs) : rotation.done = 1 .. n
    BY <1>1 DEF RotationKnown
  <2>2. \A i \in 1 .. n : certs'[i].key = "new"
    BY <1>3, <1>4, <2>1
  <2>3. QED
    BY <1>1, <1>4, <1>5, <2>1, <2>2 DEF RotationKnown
<1>11. QED
  BY <1>6, <1>7, <1>8, <1>9, <1>10

LEMMA RotateDiesInv ==
  ASSUME CertInv, RotateDies
  PROVE  CertInv'
<1> USE DEF CertInv
<1>1. rotation' = NoRotation /\ rotation.on /\ UNCHANGED <<now, certs, upload, died, check, secretKey, appKey>>
  BY DEF RotateDies
<1>2. CertTypeOK' /\ RotationKnown'
  BY <1>1 DEF CertTypeOK, RotationKnown, NoRotation
<1>3. QED
  BY <1>1, <1>2 DEF AcceptedFiles, CheckedInThePast, LastIsActive

LEMMA RedeployInv ==
  ASSUME CertInv, Redeploy
  PROVE  CertInv'
<1> USE DEF CertInv
<1>1. appKey' = "new" /\ secretKey = "new" /\ UNCHANGED <<now, certs, upload, died, check, rotation, secretKey>>
  BY DEF Redeploy
<1>2. CertTypeOK' /\ RotationKnown'
  BY <1>1 DEF CertTypeOK, RotationKnown, EncryptionKeys
<1>3. QED
  BY <1>1, <1>2 DEF AcceptedFiles, CheckedInThePast, LastIsActive

LEMMA TickInv ==
  ASSUME CertInv, Tick
  PROVE  CertInv'
<1> USE DEF CertInv
<1>1. now' = now + 1 /\ UNCHANGED <<certs, upload, died, check, rotation, secretKey, appKey>>
  BY DEF Tick
<1>2. CertTypeOK'
  BY <1>1 DEF CertTypeOK
<1>3. /\ \A i \in DOMAIN certs : certs[i].file.from \in Int /\ certs[i].file.to \in Int
      /\ \A u \in Uploads : upload[u].file.from \in Int
      /\ now \in Int /\ check.at \in Int
  <2>1. \A u \in Uploads : upload[u].file \in FileType
    BY DEF CertTypeOK
  <2>2. now \in Int /\ check.at \in Int
    BY DEF CertTypeOK
  <2>3. QED
    BY <2>1, <2>2, RowTypes DEF FileType
<1>4. AcceptedFiles'
  BY <1>1, <1>3 DEF AcceptedFiles, Extracted
<1>5. CheckedInThePast' /\ RotationKnown'
  BY <1>1, <1>3 DEF CheckedInThePast, RotationKnown
<1>6. LastIsActive'
  <2>1. Len(certs) > 0 => Len(certs) \in DOMAIN certs
    BY DEF CertTypeOK
  <2>2. QED
    BY <1>1, <1>3, <2>1 DEF LastIsActive
<1>7. QED
  BY <1>2, <1>4, <1>5, <1>6

LEMMA CertNextInv == CertInv /\ [CertNext]_certVars => CertInv'
<1> SUFFICES ASSUME CertInv, [CertNext]_certVars PROVE CertInv'
  OBVIOUS
<1>1. CASE CertNext
  BY <1>1, UploadDeactivateInv, UploadCreateInv, UploadDiesInv, CheckInv, CheckRowInv, RotateStartInv,
     RotateRowInv, RotateCommitInv, RotateDiesInv, RedeployInv, TickInv DEF CertNext
<1>2. CASE UNCHANGED certVars
  BY <1>2 DEF certVars, CertInv, CertTypeOK, AcceptedFiles, CheckedInThePast, LastIsActive, RotationKnown,
              Extracted
<1>3. QED
  BY <1>1, <1>2

\* A row that is active, accepted and not in its last day signs under its key.
LEMMA CertInvRenewalKept == CertInv => RenewalKept
<1> SUFFICES ASSUME CertInv, Len(certs) > 0, ~died, \A u \in Uploads : upload[u].step = "idle"
             PROVE  \/ certs[Len(certs)].file.to - now < 2
                    \/ certs[Len(certs)].active /\ (certs[Len(certs)].key = appKey => Signs(Len(certs)))
  BY DEF RenewalKept
<1> DEFINE last == Len(certs)
<1>1. last \in DOMAIN certs /\ certs[last].file.to \in Int /\ now \in Int
  <2>1. last \in DOMAIN certs /\ now \in Int
    BY DEF CertInv, CertTypeOK
  <2>2. QED
    BY <2>1, RowTypes DEF CertInv
<1>2. certs[last].active \/ certs[last].file.to - now < 2
  BY DEF CertInv, LastIsActive
<1>3. Extracted(certs[last].file) /\ certs[last].file.from <= now
  BY <1>1 DEF CertInv, AcceptedFiles
<1> HIDE DEF last
<1>4. ~(certs[last].file.to - now < 2) => now <= certs[last].file.to /\ certs[last].file.to >= now
  BY <1>1
<1>5. QED
  BY <1>2, <1>3, <1>4 DEF Signs, Decrypted, ExtractFromP12, InValidity, last

LEMMA CertInvRotatedTogether == CertInv => RotatedTogether
<1> SUFFICES ASSUME CertInv, NEW i \in DOMAIN certs
             PROVE  /\ secretKey = "old" => certs[i].key = "old"
                    /\ secretKey = "new" /\ i <= Cardinality(rotation.done) => certs[i].key = "new"
  BY DEF RotatedTogether
<1>1. secretKey = "old" => certs[i].key = "old"
  BY DEF CertInv, RotationKnown
<1>2. ASSUME secretKey = "new", i <= Cardinality(rotation.done)
      PROVE  certs[i].key = "new"
  <2>1. PICK n \in 0 .. Len(certs) : rotation.done = 1 .. n /\ \A j \in 1 .. n : certs[j].key = "new"
    BY <1>2 DEF CertInv, RotationKnown
  <2>2. n \in Nat /\ i \in Nat /\ i >= 1
    BY DEF CertInv, CertTypeOK
  <2>3. Cardinality(rotation.done) = n
    BY <2>1, <2>2, FS_Interval
  <2>4. QED
    BY <1>2, <2>1, <2>2, <2>3
<1>3. QED
  BY <1>1, <1>2

-----------------------------------------------------------------------------
(* The received document *)

Statuses == {NoDoc, "RECEIVED", "ACKNOWLEDGED"} \cup Verdicts

ReceptionTypeOK ==
  /\ doc \in [status : Statuses, from : Emitters \cup {NoDoc}]
  /\ receipt \in [Receipts -> [step : {"idle", "find", "create", "arecf", "send", "acknowledge",
                                       "note", "answer"},
                               from : Emitters \cup {NoDoc}]]
  /\ approval \in [Approvals -> [step : {"idle", "sign", "send", "write"},
                                 verdict : Verdicts \cup {NoDoc}]]
  /\ thanked \subseteq Emitters \cup {NoDoc}
  /\ delivered \in BOOLEAN
  /\ acecfs \subseteq Verdicts \cup {NoDoc}

\* What a call is about to write has happened, and there is a row to write it to.
CallsBacked ==
  /\ \A r \in Receipts : /\ receipt[r].step = "acknowledge" => delivered
                         /\ receipt[r].step \notin {"idle", "find", "create"} => doc.status # NoDoc
  /\ \A a \in Approvals : /\ approval[a].step # "idle" => approval[a].verdict \in Verdicts
                          /\ approval[a].step = "write" => approval[a].verdict \in acecfs

ReceptionInv == ReceptionTypeOK /\ CallsBacked /\ StatusBacked

LEMMA ReceptionInitInv == ReceptionInit => ReceptionInv
<1> SUFFICES ASSUME ReceptionInit PROVE ReceptionInv
  OBVIOUS
<1>1. /\ doc = [status |-> NoDoc, from |-> NoDoc] /\ doc.status = NoDoc
      /\ \A r \in Receipts : receipt[r].step = "idle"
      /\ \A a \in Approvals : approval[a].step = "idle"
      /\ thanked = {} /\ acecfs = {}
  BY DEF ReceptionInit, NoReceipt, NoApproval
<1>2. ReceptionTypeOK
  <2>1. /\ doc \in [status : Statuses, from : Emitters \cup {NoDoc}]
        /\ receipt \in [Receipts -> [step : {"idle", "find", "create", "arecf", "send", "acknowledge",
                                       "note", "answer"},
                               from : Emitters \cup {NoDoc}]]
        /\ approval \in [Approvals -> [step : {"idle", "sign", "send", "write"},
                                 verdict : Verdicts \cup {NoDoc}]]
    BY DEF ReceptionInit, NoReceipt, NoApproval, Statuses
  <2>2. delivered \in BOOLEAN
    BY Zenon DEF ReceptionInit
  <2>3. QED
    BY <1>1, <2>1, <2>2 DEF ReceptionTypeOK
<1>3. CallsBacked /\ StatusBacked
  BY <1>1 DEF CallsBacked, StatusBacked, NoDoc, Verdicts
<1>4. QED
  BY <1>2, <1>3 DEF ReceptionInv

\* A receipt goes from one step to the next, and keeps its emitter until it ends.
LEMMA OneReceipt ==
  ASSUME ReceptionTypeOK, NEW r \in Receipts, NEW from, NEW to \in {"idle", "find", "create", "arecf",
           "send", "acknowledge", "note", "answer"}, RStep(r, from, to)
  PROVE  /\ receipt' \in [Receipts -> [step : {"idle", "find", "create", "arecf", "send",
                                               "acknowledge", "note", "answer"},
                                       from : Emitters \cup {NoDoc}]]
         /\ receipt[r].step = from /\ receipt'[r].step = to
         /\ \A q \in Receipts \ {r} : receipt'[q] = receipt[q]
<1> DEFINE next == IF to = "idle" THEN NoReceipt ELSE [receipt[r] EXCEPT !.step = to]
<1>1. receipt' = [receipt EXCEPT ![r] = next] /\ receipt[r].step = from
  BY DEF RStep
<1>2. next \in [step : {"idle", "find", "create", "arecf", "send", "acknowledge", "note", "answer"},
                from : Emitters \cup {NoDoc}] /\ next.step = to
  BY DEF NoReceipt, ReceptionTypeOK
<1> HIDE DEF next
<1>3. QED
  BY <1>1, <1>2 DEF ReceptionTypeOK

LEMMA OneApproval ==
  ASSUME ReceptionTypeOK, NEW a \in Approvals, NEW from, NEW to \in {"idle", "sign", "send", "write"},
         AStep(a, from, to)
  PROVE  /\ approval' \in [Approvals -> [step : {"idle", "sign", "send", "write"},
                                         verdict : Verdicts \cup {NoDoc}]]
         /\ approval[a].step = from /\ approval'[a].step = to
         /\ to # "idle" => approval'[a].verdict = approval[a].verdict
         /\ \A b \in Approvals \ {a} : approval'[b] = approval[b]
<1> DEFINE next == IF to = "idle" THEN NoApproval ELSE [approval[a] EXCEPT !.step = to]
<1>1. approval' = [approval EXCEPT ![a] = next] /\ approval[a].step = from
  BY DEF AStep
<1>2. /\ next \in [step : {"idle", "sign", "send", "write"}, verdict : Verdicts \cup {NoDoc}]
      /\ next.step = to /\ (to # "idle" => next.verdict = approval[a].verdict)
  BY DEF NoApproval, ReceptionTypeOK
<1> HIDE DEF next
<1>3. QED
  BY <1>1, <1>2 DEF ReceptionTypeOK

\* The receipts: each step but Create, ArecfWrite and Thank moves its call alone.
LEMMA ReceiptInv ==
  ASSUME ReceptionInv, NEW r \in Receipts,
         \/ \E e \in Emitters : Receive(r, e)
         \/ Find(r) \/ Create(r) \/ CreateFails(r) \/ ArecfSign(r) \/ ArecfSend(r)
         \/ ArecfWrite(r) \/ Thank(r) \/ ReceiptDies(r)
  PROVE  ReceptionInv'
<1> USE DEF ReceptionInv
<1> DEFINE Steps == {"idle", "find", "create", "arecf", "send", "acknowledge", "note", "answer"}
<1>1. UNCHANGED <<approval, acecfs>>
  BY DEF Receive, Find, Create, CreateFails, ArecfSign, ArecfSend, ArecfWrite, Thank, ReceiptDies
<1>2. PICK to \in Steps :
        /\ receipt' \in [Receipts -> [step : Steps, from : Emitters \cup {NoDoc}]]
        /\ receipt'[r].step = to
        /\ \A q \in Receipts \ {r} : receipt'[q] = receipt[q]
        /\ to = "acknowledge" => delivered'
        /\ to \notin {"idle", "find", "create"} => doc'.status # NoDoc
  <2>1. CASE \E e \in Emitters : Receive(r, e)
    BY <2>1 DEF Receive, ReceptionTypeOK
  <2>2. CASE Find(r)
    BY <2>2, OneReceipt DEF Find
  <2>3. CASE Create(r)
    BY <2>3, OneReceipt DEF Create, NoDoc
  <2>4. CASE CreateFails(r)
    BY <2>4, OneReceipt DEF CreateFails
  <2>5. CASE ArecfSign(r)
    BY <2>5, OneReceipt DEF ArecfSign, CallsBacked
  <2>6. CASE ArecfSend(r)
    BY <2>6, OneReceipt DEF ArecfSend, CallsBacked
  <2>7. CASE ArecfWrite(r)
    <3>1. RStep(r, "acknowledge", "answer") \/ RStep(r, "note", "answer")
      BY <2>7 DEF ArecfWrite
    <3>2. /\ receipt' \in [Receipts -> [step : Steps, from : Emitters \cup {NoDoc}]]
          /\ receipt[r].step \in {"acknowledge", "note"} /\ receipt'[r].step = "answer"
          /\ \A q \in Receipts \ {r} : receipt'[q] = receipt[q]
      BY <3>1, OneReceipt
    <3>3. doc.status # NoDoc
      BY <3>2 DEF CallsBacked
    <3>4. doc'.status \in {doc.status, "ACKNOWLEDGED"}
      BY <2>7 DEF ArecfWrite, ReceptionTypeOK
    <3>5. QED
      BY <3>2, <3>3, <3>4 DEF NoDoc
  <2>8. CASE Thank(r)
    BY <2>8, OneReceipt DEF Thank
  <2>9. CASE ReceiptDies(r)
    BY <2>9 DEF ReceiptDies, NoReceipt, ReceptionTypeOK
  <2>10. QED
    BY <2>1, <2>2, <2>3, <2>4, <2>5, <2>6, <2>7, <2>8, <2>9
<1>3. /\ doc' \in [status : Statuses, from : Emitters \cup {NoDoc}]
      /\ doc'.status # doc.status =>
           doc'.status = "RECEIVED" \/ (doc'.status = "ACKNOWLEDGED" /\ receipt[r].step = "acknowledge")
      /\ doc.status # NoDoc => doc'.status # NoDoc
  <2>1. CASE Create(r)
    BY <2>1 DEF Create, Statuses, ReceptionTypeOK, NoDoc
  <2>2. CASE ArecfWrite(r)
    BY <2>2 DEF ArecfWrite, Acknowledges, Statuses, ReceptionTypeOK, NoDoc
  <2>3. CASE doc' = doc
    BY <2>3 DEF ReceptionTypeOK
  <2>4. QED
    BY <2>1, <2>2, <2>3
       DEF Receive, Find, CreateFails, ArecfSign, ArecfSend, Thank, ReceiptDies
<1>4. delivered' \in BOOLEAN /\ (delivered => delivered')
  BY Zenon DEF Receive, Find, Create, CreateFails, ArecfSign, ArecfSend, ArecfWrite, Thank, ReceiptDies,
               ReceptionTypeOK
<1>5. /\ thanked' \subseteq Emitters \cup {NoDoc}
      /\ thanked' # {} => doc.status # NoDoc
  <2>1. CASE Thank(r)
    <3>1. receipt[r].step = "answer" /\ thanked' = thanked \cup {receipt[r].from}
      BY <2>1 DEF Thank, RStep
    <3>2. QED
      BY <3>1 DEF CallsBacked, ReceptionTypeOK
  <2>2. CASE thanked' = thanked
    BY <2>2 DEF ReceptionTypeOK, StatusBacked
  <2>3. QED
    BY <2>1, <2>2
       DEF Receive, Find, Create, CreateFails, ArecfSign, ArecfSend, ArecfWrite, ReceiptDies
<1>6. ReceptionTypeOK'
  BY <1>1, <1>2, <1>3, <1>4, <1>5 DEF ReceptionTypeOK
<1>7. CallsBacked'
  BY <1>1, <1>2, <1>3, <1>4 DEF CallsBacked
<1>8. StatusBacked'
  <2>1. doc'.status = "ACKNOWLEDGED" => delivered'
    BY <1>3, <1>4 DEF CallsBacked, StatusBacked
  <2>2. doc'.status \in Verdicts => doc'.status \in acecfs'
    BY <1>1, <1>3 DEF StatusBacked, Verdicts
  <2>3. thanked' # {} => doc'.status # NoDoc
    BY <1>3, <1>5
  <2>4. QED
    BY <2>1, <2>2, <2>3 DEF StatusBacked
<1>9. QED
  BY <1>6, <1>7, <1>8

\* The approvals: a verdict is written only after DGII took the ACECF with it.
LEMMA ApprovalInv ==
  ASSUME ReceptionInv, NEW a \in Approvals,
         \/ \E v \in Verdicts : Approve(a, v)
         \/ ApprovalSign(a) \/ ApprovalSend(a) \/ ApprovalFails(a) \/ ApprovalWrite(a)
         \/ ApprovalDies(a)
  PROVE  ReceptionInv'
<1> USE DEF ReceptionInv
<1> DEFINE Steps == {"idle", "sign", "send", "write"}
<1>1. UNCHANGED <<receipt, thanked, delivered>>
  BY DEF Approve, ApprovalSign, ApprovalSend, ApprovalFails, ApprovalWrite, ApprovalDies
<1>2. acecfs' \subseteq Verdicts \cup {NoDoc} /\ acecfs \subseteq acecfs'
  <2>1. CASE ApprovalSend(a)
    <3>1. acecfs' = acecfs \cup {approval[a].verdict}
      BY <2>1 DEF ApprovalSend
    <3>2. QED
      BY <3>1 DEF ReceptionTypeOK
  <2>2. CASE acecfs' = acecfs
    BY <2>2 DEF ReceptionTypeOK
  <2>3. QED
    BY <2>1, <2>2 DEF Approve, ApprovalSign, ApprovalFails, ApprovalWrite, ApprovalDies
<1>3. /\ approval' \in [Approvals -> [step : Steps, verdict : Verdicts \cup {NoDoc}]]
      /\ \A b \in Approvals \ {a} : approval'[b] = approval[b]
      /\ approval'[a].step # "idle" => approval'[a].verdict \in Verdicts
      /\ approval'[a].step = "write" => approval'[a].verdict \in acecfs'
  <2>1. CASE \E v \in Verdicts : Approve(a, v)
    BY <2>1 DEF Approve, ReceptionTypeOK
  <2>2. CASE ApprovalSign(a)
    BY <2>2, OneApproval DEF ApprovalSign, CallsBacked
  <2>3. CASE ApprovalSend(a)
    BY <2>3, OneApproval DEF ApprovalSend, CallsBacked
  <2>4. CASE ApprovalFails(a)
    BY <2>4, OneApproval DEF ApprovalFails
  <2>5. CASE ApprovalWrite(a)
    BY <2>5, OneApproval DEF ApprovalWrite
  <2>6. CASE ApprovalDies(a)
    BY <2>6 DEF ApprovalDies, NoApproval, ReceptionTypeOK
  <2>7. QED
    BY <2>1, <2>2, <2>3, <2>4, <2>5, <2>6
<1>4. doc' = doc \/ (doc' = [doc EXCEPT !.status = approval[a].verdict] /\ approval[a].step = "write")
  BY DEF Approve, ApprovalSign, ApprovalSend, ApprovalFails, ApprovalWrite, ApprovalDies, AStep
<1>5. /\ doc' \in [status : Statuses, from : Emitters \cup {NoDoc}]
      /\ doc'.status = doc.status \/ (doc'.status \in Verdicts /\ doc'.status \in acecfs)
  <2>1. approval[a].step = "write" => approval[a].verdict \in Verdicts /\ approval[a].verdict \in acecfs
    BY DEF CallsBacked
  <2>2. QED
    BY <1>4, <2>1 DEF ReceptionTypeOK, Statuses
<1>6. ReceptionTypeOK'
  BY <1>1, <1>2, <1>3, <1>5 DEF ReceptionTypeOK
<1>7. \A v \in Verdicts : v # NoDoc /\ v # "ACKNOWLEDGED"
  BY DEF Verdicts, NoDoc
<1>8. CallsBacked'
  BY <1>1, <1>2, <1>3, <1>5, <1>7 DEF CallsBacked
<1>9. StatusBacked'
  BY <1>1, <1>2, <1>5, <1>7 DEF StatusBacked
<1>10. QED
  BY <1>6, <1>8, <1>9

LEMMA ReceptionNextInv == ReceptionInv /\ [ReceptionNext]_receptionVars => ReceptionInv'
<1> SUFFICES ASSUME ReceptionInv, [ReceptionNext]_receptionVars PROVE ReceptionInv'
  OBVIOUS
<1>1. CASE ReceptionNext
  BY <1>1, ReceiptInv, ApprovalInv DEF ReceptionNext
<1>2. CASE UNCHANGED receptionVars
  BY <1>2 DEF receptionVars, ReceptionInv, ReceptionTypeOK, CallsBacked, StatusBacked
<1>3. QED
  BY <1>1, <1>2

-----------------------------------------------------------------------------
(* The ACECFs of step 3 *)

Settled == {"none", "PENDING", "ERROR", "SENT"}
Unsettled == {"BUILDING", "SIGNING", "SUBMITTING"}
InHand == {"signing", "certificate", "send", "sent", "error"}

Step3TypeOK ==
  /\ acecf \in [Numbers -> [status : Settled \cup Unsettled, version : Nat, id : Nat]]
  /\ worker \in [Workers -> [step : {"idle", "next"} \cup InHand, left : SUBSET Numbers,
                             at : Numbers \cup {Nobody}, version : Nat, id : Nat]]
  /\ stranded \in BOOLEAN
  /\ sent \in [Numbers -> SUBSET Nat]

HasInHand(w, n) ==
  worker[w].step \in InHand /\ worker[w].at = n /\ worker[w].id = acecf[n].id

\* A document between two statuses is in the hands of a processAll that read this row.
UnsettledInHand ==
  ~stranded => \A n \in Numbers : acecf[n].status \in Unsettled => \E w \in Workers : HasInHand(w, n)

\* SENT is written after DGII accepted.
SentIsAccepted ==
  /\ \A n \in Numbers : acecf[n].status = "SENT" => sent[n] # {}
  /\ \A w \in Workers : /\ worker[w].step \in InHand => worker[w].at \in Numbers
                        /\ worker[w].step = "sent" => sent[worker[w].at] # {}

Step3Inv == Step3TypeOK /\ UnsettledInHand /\ SentIsAccepted

AcecfRow == [status : Settled \cup Unsettled, version : Nat, id : Nat]
WorkerRow == [step : {"idle", "next"} \cup InHand, left : SUBSET Numbers, at : Numbers \cup {Nobody},
              version : Nat, id : Nat]

LEMMA Step3InitInv == CertificationInit => Step3Inv
<1> SUFFICES ASSUME CertificationInit PROVE Step3Inv
  OBVIOUS
<1>1. /\ acecf = [n \in Numbers |-> NoAcecf] /\ worker = [w \in Workers |-> NoWorker]
      /\ sent = [n \in Numbers |-> {}]
  BY DEF CertificationInit
<1>2. NoAcecf \in AcecfRow /\ NoAcecf.status = "none"
  BY DEF NoAcecf, AcecfRow, Settled
<1>3. NoWorker \in WorkerRow /\ NoWorker.step = "idle"
  BY DEF NoWorker, WorkerRow
<1>4. stranded \in BOOLEAN
  BY Zenon DEF CertificationInit
<1>5. /\ acecf \in [Numbers -> AcecfRow] /\ worker \in [Workers -> WorkerRow]
      /\ sent \in [Numbers -> SUBSET Nat]
      /\ \A n \in Numbers : acecf[n].status = "none"
      /\ \A w \in Workers : worker[w].step = "idle"
  BY <1>1, <1>2, <1>3
<1>6. QED
  BY <1>4, <1>5 DEF Step3Inv, Step3TypeOK, UnsettledInHand, SentIsAccepted, AcecfRow, WorkerRow,
                    Unsettled, InHand

\* The rows of the documents change, and no processAll moves.
LEMMA OnlyRowsMove ==
  ASSUME Step3Inv, acecf' \in [Numbers -> AcecfRow], UNCHANGED <<worker, stranded, sent>>,
         \A n \in Numbers : acecf'[n] = acecf[n] \/ acecf'[n].status \in {"none", "PENDING"}
  PROVE  Step3Inv'
<1> USE DEF Step3Inv
<1>1. Step3TypeOK'
  BY DEF Step3TypeOK, AcecfRow
<1>2. UnsettledInHand'
  <2> SUFFICES ASSUME ~stranded, NEW n \in Numbers, acecf'[n].status \in Unsettled
               PROVE  \E w \in Workers : HasInHand(w, n)'
    BY DEF UnsettledInHand
  <2>1. acecf'[n] = acecf[n]
    BY DEF Unsettled
  <2>2. PICK w \in Workers : HasInHand(w, n)
    BY <2>1 DEF UnsettledInHand
  <2>3. QED
    BY <2>1, <2>2 DEF HasInHand
<1>3. SentIsAccepted'
  BY DEF SentIsAccepted
<1>4. QED
  BY <1>1, <1>2, <1>3

\* One processAll moves; the row it has in hand, if that is still there, is written
\* to a status it stays in hand of or that is settled.
LEMMA OneWorkerMoves ==
  ASSUME Step3Inv, NEW w \in Workers, NEW n \in Numbers,
         worker' \in [Workers -> WorkerRow], acecf' \in [Numbers -> AcecfRow], stranded' = stranded,
         sent' \in [Numbers -> SUBSET Nat], \A m \in Numbers : sent[m] \subseteq sent'[m],
         \A v \in Workers \ {w} : worker'[v] = worker[v],
         \A m \in Numbers : acecf'[m].id = acecf[m].id /\ (m # n => acecf'[m] = acecf[m]),
         worker'[w].step \in InHand => worker'[w].at = n,
         worker[w].step \in InHand => worker[w].at = n,
         worker'[w].step = "sent" => sent'[n] # {},
         acecf'[n].status = "SENT" => acecf[n].status = "SENT" \/ sent'[n] # {},
         acecf'[n].status \in Unsettled =>
           HasInHand(w, n)' \/ (acecf[n].status \in Unsettled /\ ~HasInHand(w, n))
  PROVE  Step3Inv'
<1> USE DEF Step3Inv
<1>1. Step3TypeOK'
  BY DEF Step3TypeOK, AcecfRow, WorkerRow
<1>2. UnsettledInHand'
  <2> SUFFICES ASSUME ~stranded, NEW m \in Numbers, acecf'[m].status \in Unsettled
               PROVE  \E v \in Workers : HasInHand(v, m)'
    BY DEF UnsettledInHand
  <2>1. CASE HasInHand(w, m)'
    BY <2>1
  <2>2. CASE ~HasInHand(w, m)'
    <3>1. acecf[m].status \in Unsettled /\ ~HasInHand(w, m)
      BY <2>2 DEF HasInHand
    <3>2. PICK v \in Workers : HasInHand(v, m)
      BY <3>1 DEF UnsettledInHand
    <3>3. v # w
      BY <3>1, <3>2
    <3>4. HasInHand(v, m)'
      BY <3>2, <3>3 DEF HasInHand
    <3>5. QED
      BY <3>4
  <2>3. QED
    BY <2>1, <2>2
<1>3. SentIsAccepted'
  <2>1. \A m \in Numbers : acecf'[m].status = "SENT" => sent'[m] # {}
    BY DEF SentIsAccepted
  <2>2. \A v \in Workers : /\ worker'[v].step \in InHand => worker'[v].at \in Numbers
                           /\ worker'[v].step = "sent" => sent'[worker'[v].at] # {}
    BY DEF SentIsAccepted, InHand
  <2>3. QED
    BY <2>1, <2>2 DEF SentIsAccepted
<1>4. QED
  BY <1>1, <1>2, <1>3

\* An update by id writes the row in hand, or, when the row is gone, nothing.
LEMMA WriteStepInv ==
  ASSUME Step3Inv, NEW w \in Workers, NEW from \in InHand, NEW to \in {"next"} \cup InHand,
         NEW status \in Settled \cup Unsettled, WriteStep(w, from, to, status),
         to = "sent" => from = "sent",
         status = "SENT" => from = "sent",
         to = "next" <=> status \in Settled
  PROVE  Step3Inv'
<1> DEFINE next == IF Exists(w) THEN to ELSE IF from = "error" THEN "next" ELSE "error"
<1>0. worker[w].step = from /\ worker[w].at \in Numbers
  BY DEF WriteStep, WStep, Step3Inv, SentIsAccepted
<1>. PICK n \in Numbers : worker[w].at = n
  BY <1>0
<1>1. worker[w].step = from /\ n \in Numbers /\ (from = "sent" => sent[n] # {})
  BY <1>0 DEF Step3Inv, SentIsAccepted
<1>2. /\ worker' = [worker EXCEPT ![w].step = next]
      /\ acecf' = IF Exists(w) THEN [acecf EXCEPT ![n].status = status] ELSE acecf
      /\ UNCHANGED <<stranded, sent>>
  BY DEF WriteStep, WStep
<1>3. next \in {"next"} \cup InHand /\ (next = "sent" => from = "sent")
  BY DEF InHand
<1>4. /\ worker \in [Workers -> WorkerRow] /\ acecf \in [Numbers -> AcecfRow]
      /\ sent \in [Numbers -> SUBSET Nat]
  BY DEF Step3Inv, Step3TypeOK, AcecfRow, WorkerRow
<1>5. Exists(w) => acecf[n].id = worker[w].id
  BY DEF Exists
<1>6. ~Exists(w) => acecf[n].status = "none" \/ acecf[n].id # worker[w].id
  BY DEF Exists
<1>7. Exists(w) => next = to
  OBVIOUS
<1> HIDE DEF next
<1>8. /\ worker' \in [Workers -> WorkerRow]
      /\ \A v \in Workers \ {w} : worker'[v] = worker[v]
      /\ worker'[w].step = next /\ worker'[w].at = worker[w].at /\ worker'[w].id = worker[w].id
  BY <1>2, <1>3, <1>4 DEF WorkerRow
<1>9. /\ acecf' \in [Numbers -> AcecfRow]
      /\ \A m \in Numbers : acecf'[m].id = acecf[m].id /\ (m # n => acecf'[m] = acecf[m])
      /\ acecf'[n].status = IF Exists(w) THEN status ELSE acecf[n].status
  <2>1. CASE Exists(w)
    <3>1. acecf' = [acecf EXCEPT ![n].status = status]
      BY <1>2, <2>1
    <3>2. QED
      BY <1>1, <1>4, <2>1, <3>1 DEF AcecfRow
  <2>2. CASE ~Exists(w)
    BY <1>2, <1>4, <2>2
  <2>3. QED
    BY <2>1, <2>2
<1>10. acecf'[n].status \in Unsettled =>
         HasInHand(w, n)' \/ (acecf[n].status \in Unsettled /\ ~HasInHand(w, n))
  <2>1. CASE Exists(w)
    BY <1>1, <1>5, <1>7, <1>8, <1>9, <2>1 DEF HasInHand, Settled, Unsettled
  <2>2. CASE ~Exists(w)
    BY <1>6, <1>9, <2>2 DEF HasInHand, Unsettled
  <2>3. QED
    BY <2>1, <2>2
<1>11. /\ worker[w].at = n
       /\ worker'[w].step = "sent" => sent'[n] # {}
       /\ acecf'[n].status = "SENT" => acecf[n].status = "SENT" \/ sent'[n] # {}
  BY <1>1, <1>2, <1>3, <1>8, <1>9
<1>12. /\ stranded' = stranded /\ sent' \in [Numbers -> SUBSET Nat]
       /\ \A m \in Numbers : sent[m] \subseteq sent'[m]
  BY <1>2, <1>4
<1>13. \A m \in Numbers : acecf'[m].id = acecf[m].id /\ (m # n => acecf'[m] = acecf[m])
  BY <1>9
<1>14. /\ worker'[w].step \in InHand => worker'[w].at = n
       /\ worker[w].step \in InHand => worker[w].at = n
  BY <1>8, <1>11
<1>15. n \in Numbers /\ worker' \in [Workers -> WorkerRow] /\ acecf' \in [Numbers -> AcecfRow]
       /\ \A v \in Workers \ {w} : worker'[v] = worker[v]
  BY <1>1, <1>8, <1>9
<1>16. QED
  BY <1>10, <1>11, <1>12, <1>13, <1>14, <1>15, OneWorkerMoves

\* A processAll goes on without writing the row it has in hand.
LEMMA WorkerOnlyInv ==
  ASSUME Step3Inv, NEW w \in Workers, NEW from \in InHand, NEW to \in InHand, WStep(w, from, to),
         sent' \in [Numbers -> SUBSET Nat], \A m \in Numbers : sent[m] \subseteq sent'[m],
         to = "sent" => sent'[worker[w].at] # {},
         UNCHANGED <<acecf, stranded>>
  PROVE  Step3Inv'
<1>1. worker[w].step = from /\ worker[w].at \in Numbers /\ worker' = [worker EXCEPT ![w].step = to]
  BY DEF WStep, Step3Inv, SentIsAccepted
<1>. PICK n \in Numbers : worker[w].at = n
  BY <1>1
<1>2. worker \in [Workers -> WorkerRow] /\ acecf \in [Numbers -> AcecfRow]
  BY DEF Step3Inv, Step3TypeOK, AcecfRow, WorkerRow
<1>3. /\ worker' \in [Workers -> WorkerRow]
      /\ \A v \in Workers \ {w} : worker'[v] = worker[v]
      /\ worker'[w].step = to /\ worker'[w].at = worker[w].at /\ worker'[w].id = worker[w].id
  BY <1>1, <1>2 DEF WorkerRow
<1>4. HasInHand(w, n) => HasInHand(w, n)'
  BY <1>1, <1>3 DEF HasInHand
<1>5. /\ worker[w].at = n /\ n \in Numbers /\ stranded' = stranded
      /\ acecf' \in [Numbers -> AcecfRow]
      /\ \A m \in Numbers : acecf'[m].id = acecf[m].id /\ (m # n => acecf'[m] = acecf[m])
      /\ worker'[w].step = "sent" => sent'[n] # {}
      /\ acecf'[n].status = acecf[n].status
  BY <1>1, <1>2, <1>3
<1>6. acecf'[n].status \in Unsettled =>
        HasInHand(w, n)' \/ (acecf[n].status \in Unsettled /\ ~HasInHand(w, n))
  BY <1>4, <1>5
<1>7. worker'[w].step \in InHand => worker'[w].at = n
  BY <1>3, <1>5
<1>8. QED
  BY <1>3, <1>5, <1>6, <1>7, OneWorkerMoves

LEMMA BuildInv ==
  ASSUME Step3Inv, NEW w \in Workers, Build(w)
  PROVE  Step3Inv'
<1>1. /\ worker[w].step = "next" /\ UNCHANGED <<stranded, sent>>
      /\ worker \in [Workers -> WorkerRow] /\ acecf \in [Numbers -> AcecfRow]
      /\ sent \in [Numbers -> SUBSET Nat]
  BY DEF Build, Step3Inv, Step3TypeOK, AcecfRow, WorkerRow
<1>2. PICK n \in worker[w].left :
        IF acecf[n].status = "none"
          THEN worker' = [worker EXCEPT ![w].left = worker[w].left \ {n}] /\ UNCHANGED acecf
          ELSE /\ worker' = [worker EXCEPT ![w] =
                               [step |-> "signing", left |-> worker[w].left \ {n}, at |-> n,
                                version |-> acecf[n].version, id |-> acecf[n].id]]
               /\ acecf' = [acecf EXCEPT ![n].status = "BUILDING"]
  BY <1>1 DEF Build
<1>3. n \in Numbers /\ worker[w] \in WorkerRow /\ acecf[n] \in AcecfRow
  BY <1>1 DEF WorkerRow
<1>4. CASE acecf[n].status = "none"
  <2>1. worker' = [worker EXCEPT ![w].left = worker[w].left \ {n}] /\ acecf' = acecf
    BY <1>2, <1>4
  <2>2. /\ worker' \in [Workers -> WorkerRow]
        /\ \A v \in Workers \ {w} : worker'[v] = worker[v]
        /\ worker'[w].step = "next"
    BY <1>1, <1>3, <2>1 DEF WorkerRow
  <2>3. "next" \notin InHand
    BY DEF InHand
  <2>4. acecf[n].status \notin Unsettled
    BY <1>4 DEF Unsettled
  <2>5. QED
    BY <1>1, <1>3, <2>1, <2>2, <2>3, <2>4, OneWorkerMoves
<1>5. CASE acecf[n].status # "none"
  <2> DEFINE r == [step |-> "signing", left |-> worker[w].left \ {n}, at |-> n,
                   version |-> acecf[n].version, id |-> acecf[n].id]
  <2>1. worker' = [worker EXCEPT ![w] = r] /\ acecf' = [acecf EXCEPT ![n].status = "BUILDING"]
    BY <1>2, <1>5
  <2>2. r \in WorkerRow /\ r.step = "signing" /\ r.at = n /\ r.id = acecf[n].id
    BY <1>3 DEF WorkerRow, InHand, AcecfRow
  <2> HIDE DEF r
  <2>3. /\ worker' \in [Workers -> WorkerRow] /\ worker'[w] = r
        /\ \A v \in Workers \ {w} : worker'[v] = worker[v]
    BY <1>1, <2>1, <2>2
  <2>4. /\ acecf' \in [Numbers -> AcecfRow] /\ acecf'[n].status = "BUILDING"
        /\ \A m \in Numbers : acecf'[m].id = acecf[m].id /\ (m # n => acecf'[m] = acecf[m])
    BY <1>1, <1>3, <2>1 DEF AcecfRow, Unsettled
  <2>5. HasInHand(w, n)'
    BY <1>3, <2>2, <2>3, <2>4 DEF HasInHand, InHand
  <2>6. worker[w].step \notin InHand /\ worker'[w].step # "sent"
    BY <1>1, <2>2, <2>3 DEF InHand
  <2>7. QED
    BY <1>1, <1>3, <2>2, <2>3, <2>4, <2>5, <2>6, OneWorkerMoves
<1>6. QED
  BY <1>4, <1>5

LEMMA SubmitInv ==
  ASSUME Step3Inv, NEW w \in Workers, Submit(w)
  PROVE  Step3Inv'
<1>1. CASE WriteStep(w, "certificate", "send", "SUBMITTING")
  BY <1>1, WriteStepInv DEF InHand, Settled, Unsettled
<1>2. CASE WStep(w, "certificate", "error") /\ UNCHANGED <<acecf, stranded, sent>>
  <2>1. sent' \in [Numbers -> SUBSET Nat]
    BY <1>2 DEF Step3Inv, Step3TypeOK
  <2>2. QED
    BY <1>2, <2>1, WorkerOnlyInv DEF InHand
<1>3. QED
  BY <1>1, <1>2 DEF Submit, OnError

\* What DGII accepted is known to have been accepted from then on.
LEMMA SendInv ==
  ASSUME Step3Inv, NEW w \in Workers, Send(w)
  PROVE  Step3Inv'
<1> DEFINE n == worker[w].at
<1>1. /\ worker[w].step = "send" /\ UNCHANGED <<acecf, stranded>>
      /\ sent \in [Numbers -> SUBSET Nat] /\ worker[w].version \in Nat
  BY DEF Send, WStep, Step3Inv, Step3TypeOK
<1>2. n \in Numbers
  BY <1>1 DEF Step3Inv, SentIsAccepted, InHand
<1>3. CASE sent' = [sent EXCEPT ![n] = @ \cup {worker[w].version}]
  <2>1. sent' \in [Numbers -> SUBSET Nat] /\ (\A m \in Numbers : sent[m] \subseteq sent'[m]) /\ sent'[n] # {}
    BY <1>1, <1>2, <1>3
  <2>2. PICK to \in {"sent", "error"} : WStep(w, "send", to)
    BY DEF Send, OnError
  <2>3. QED
    BY <1>1, <2>1, <2>2, WorkerOnlyInv DEF InHand
<1>4. CASE sent' = sent /\ WStep(w, "send", "error")
  BY <1>1, <1>4, WorkerOnlyInv DEF InHand
<1>5. QED
  BY <1>3, <1>4 DEF Send, OnError

LEMMA ProcessInv ==
  ASSUME Step3Inv, NEW w \in Workers, ProcessAll(w) \/ ProcessEnd(w)
  PROVE  Step3Inv'
<1> USE DEF Step3Inv
<1>1. /\ UNCHANGED <<acecf, stranded, sent>> /\ worker[w].step \in {"idle", "next"}
      /\ worker \in [Workers -> WorkerRow]
  BY DEF ProcessAll, ProcessEnd, Step3TypeOK, WorkerRow
<1>2. /\ worker' \in [Workers -> WorkerRow] /\ worker'[w].step \in {"idle", "next"}
      /\ \A v \in Workers \ {w} : worker'[v] = worker[v]
  <2>1. CASE ProcessAll(w)
    <3>1. {m \in Numbers : Processable(m)} \in SUBSET Numbers
      OBVIOUS
    <3>2. worker' = [worker EXCEPT ![w].step = "next", ![w].left = {m \in Numbers : Processable(m)}]
      BY <2>1 DEF ProcessAll
    <3>3. QED
      BY <1>1, <3>1, <3>2 DEF WorkerRow
  <2>2. CASE ProcessEnd(w)
    <3>1. NoWorker \in WorkerRow /\ NoWorker.step = "idle"
      BY DEF NoWorker, WorkerRow
    <3>2. QED
      BY <1>1, <2>2, <3>1 DEF ProcessEnd
  <2>3. QED
    BY <2>1, <2>2
<1>3. \A m \in Numbers, v \in Workers : HasInHand(v, m) => HasInHand(v, m)'
  BY <1>1, <1>2 DEF HasInHand, InHand
<1>4. Step3TypeOK' /\ UnsettledInHand'
  BY <1>1, <1>2, <1>3 DEF Step3TypeOK, UnsettledInHand, WorkerRow
<1>5. SentIsAccepted'
  BY <1>1, <1>2 DEF SentIsAccepted, InHand
<1>6. QED
  BY <1>4, <1>5

LEMMA ProcessDiesInv ==
  ASSUME Step3Inv, NEW w \in Workers, ProcessDies(w)
  PROVE  Step3Inv'
<1> USE DEF Step3Inv
<1>1. /\ UNCHANGED <<acecf, sent>> /\ stranded' = TRUE /\ worker' = [worker EXCEPT ![w] = NoWorker]
  BY DEF ProcessDies
<1>2. NoWorker \in WorkerRow /\ NoWorker.step = "idle"
  BY DEF NoWorker, WorkerRow
<1>3. worker' \in [Workers -> WorkerRow]
  BY <1>1, <1>2 DEF Step3TypeOK, WorkerRow
<1>4. Step3TypeOK'
  BY <1>1, <1>3 DEF Step3TypeOK, WorkerRow
<1>5. UnsettledInHand'
  BY <1>1 DEF UnsettledInHand
<1>6. SentIsAccepted'
  BY <1>1, <1>2 DEF SentIsAccepted, Step3TypeOK, InHand
<1>7. QED
  BY <1>4, <1>5, <1>6

LEMMA RowsInv ==
  ASSUME Step3Inv, ResetDocuments \/ \E ns \in SUBSET Numbers \ {{}} : UploadAcecfs(ns)
  PROVE  Step3Inv'
<1>1. acecf \in [Numbers -> AcecfRow]
  BY DEF Step3Inv, Step3TypeOK, AcecfRow
<1>2. CASE ResetDocuments
  <2>1. acecf' = [n \in Numbers |-> [acecf[n] EXCEPT !.status = "none"]] /\ UNCHANGED <<worker, stranded, sent>>
    BY <1>2 DEF ResetDocuments
  <2>2. \A n \in Numbers : acecf'[n] \in AcecfRow /\ acecf'[n].status = "none"
    BY <1>1, <2>1 DEF AcecfRow, Settled
  <2>3. acecf' \in [Numbers -> AcecfRow]
    BY <2>1, <2>2
  <2>4. QED
    BY <2>1, <2>2, <2>3, OnlyRowsMove
<1>3. ASSUME NEW ns \in SUBSET Numbers, UploadAcecfs(ns)
      PROVE  Step3Inv'
  <2> DEFINE row(n) == [status |-> "PENDING", version |-> acecf[n].version + 1,
                        id |-> IF acecf[n].status = "none" THEN acecf[n].id + 1 ELSE acecf[n].id]
  <2>1. /\ acecf' = [n \in Numbers |-> IF n \notin ns THEN acecf[n] ELSE row(n)]
        /\ UNCHANGED <<worker, stranded, sent>>
    BY <1>3 DEF UploadAcecfs
  <2>2. \A n \in Numbers : row(n) \in AcecfRow /\ row(n).status = "PENDING"
    BY <1>1 DEF AcecfRow, Settled
  <2> HIDE DEF row
  <2>3. /\ acecf' \in [Numbers -> AcecfRow]
        /\ \A n \in Numbers : acecf'[n] = acecf[n] \/ acecf'[n].status \in {"none", "PENDING"}
    BY <1>1, <2>1, <2>2
  <2>4. QED
    BY <2>1, <2>3, OnlyRowsMove
<1>4. QED
  BY <1>2, <1>3

LEMMA Step3NextInv == Step3Inv /\ [Step3Next]_step3Vars => Step3Inv'
<1> SUFFICES ASSUME Step3Inv, [Step3Next]_step3Vars PROVE Step3Inv'
  OBVIOUS
<1>1. CASE ResetDocuments \/ \E ns \in SUBSET Numbers \ {{}} : UploadAcecfs(ns)
  BY <1>1, RowsInv
<1>2. ASSUME NEW w \in Workers,
             \/ ProcessAll(w) \/ Build(w) \/ Sign(w) \/ Submit(w) \/ Send(w)
             \/ SentWrite(w) \/ ErrorWrite(w) \/ ProcessEnd(w) \/ ProcessDies(w)
      PROVE  Step3Inv'
  <2>1. CASE Sign(w)
    BY <2>1, WriteStepInv DEF Sign, InHand, Settled, Unsettled
  <2>2. CASE SentWrite(w)
    BY <2>2, WriteStepInv DEF SentWrite, InHand, Settled, Unsettled
  <2>3. CASE ErrorWrite(w)
    BY <2>3, WriteStepInv DEF ErrorWrite, InHand, Settled, Unsettled
  <2>4. QED
    BY <1>2, <2>1, <2>2, <2>3, BuildInv, SubmitInv, SendInv, ProcessInv, ProcessDiesInv
<1>3. CASE UNCHANGED step3Vars
  BY <1>3 DEF step3Vars, Step3Inv, Step3TypeOK, UnsettledInHand, SentIsAccepted, HasInHand
<1>4. QED
  BY <1>1, <1>2, <1>3 DEF Step3Next

LEMMA Step3InvSettled == Step3Inv => AcecfSettled
BY DEF Step3Inv, Step3TypeOK, UnsettledInHand, SentIsAccepted, HasInHand, AcecfSettled, Settled, Unsettled,
       InHand

-----------------------------------------------------------------------------

SignedInv == CertInv /\ ReceptionInv /\ Step3Inv

LEMMA SignedNextInv == SignedInv /\ [Next]_vars => SignedInv'
<1> SUFFICES ASSUME SignedInv, [Next]_vars PROVE SignedInv'
  OBVIOUS
<1>1. [CertNext]_certVars
  BY DEF Next, vars, ReceptionNext, Receive, Find, Create, CreateFails, ArecfSign, ArecfSend, ArecfWrite,
         Thank, ReceiptDies, Approve, ApprovalSign, ApprovalSend, ApprovalFails, ApprovalWrite,
         ApprovalDies, Step3Next, UploadAcecfs, ResetDocuments, ProcessAll, Build, Sign, Submit, Send,
         SentWrite, ErrorWrite, ProcessEnd, ProcessDies, WriteStep, Step2Next, UploadExcel, Row, Item,
         FailedRow, ExcelEnd
<1>2. [ReceptionNext]_receptionVars
  BY DEF Next, vars
<1>3. [Step3Next]_step3Vars
  BY DEF Next, vars, certificationVars, step3Vars, Step2Next, UploadExcel, Row, Item, FailedRow, ExcelEnd
<1>4. QED
  BY <1>1, <1>2, <1>3, CertNextInv, ReceptionNextInv, Step3NextInv DEF SignedInv

\* The invariants of the certificates, of what is received and of step 3 hold together.
THEOREM SignedInvariant == Spec => []SignedInv
<1>1. Init => SignedInv
  BY CertInitInv, ReceptionInitInv, Step3InitInv DEF Init, SignedInv
<1>2. QED
  BY <1>1, SignedNextInv, PTL DEF Spec

\* A renewed certificate stays active up to its last day and signs.
THEOREM RenewedCertificateKept == Spec => []RenewalKept
<1>1. SignedInv => RenewalKept
  BY CertInvRenewalKept DEF SignedInv
<1>2. QED
  BY <1>1, SignedInvariant, PTL

\* The rotation changes the key of every row it read and of the webhook secrets, or of none.
THEOREM RotationAllOrNothing == Spec => []RotatedTogether
<1>1. SignedInv => RotatedTogether
  BY CertInvRotatedTogether DEF SignedInv
<1>2. QED
  BY <1>1, SignedInvariant, PTL

\* The status of a received document says what happened, and who was thanked has a row.
THEOREM ReceivedStatusBacked == Spec => []StatusBacked
<1>1. SignedInv => StatusBacked
  BY DEF SignedInv, ReceptionInv
<1>2. QED
  BY <1>1, SignedInvariant, PTL

\* No document of step 3 stays between two statuses once every processAll has ended.
THEOREM AcecfsSettled == Spec => []AcecfSettled
<1>1. SignedInv => AcecfSettled
  BY Step3InvSettled DEF SignedInv
<1>2. QED
  BY <1>1, SignedInvariant, PTL
=============================================================================
