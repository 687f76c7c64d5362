-------------------------- MODULE CompanyCertificates --------------------------
(***************************************************************************)
(* The certificates of one company: uploads (two at a time), the daily     *)
(* expiry check, what signing does with a stored file, and the rotation of *)
(* CERT_ENCRYPTION_KEY, with the webhook secrets it re-encrypts in the     *)
(* same transaction.  Time goes by half days, so that a certificate has a  *)
(* last day.                                                               *)
(***************************************************************************)
EXTENDS Integers, Sequences, SequencesExt, FiniteSets

CONSTANTS
  Uploads,    \* concurrent calls of upload
  MaxCerts,   \* bound on the rows of certificates
  MaxNow,     \* bound on the clock
  Files       \* the .p12 files uploaded: whether they open, what they hold, their dates

ASSUME CertificatesAssumption ==
  /\ MaxCerts \in Nat /\ MaxNow \in Nat
  /\ Files \subseteq [opens : BOOLEAN, cert : BOOLEAN, key : BOOLEAN, from : Int, to : Int]

VARIABLES
  now,
  certs,      \* rows of certificates in order: file, isActive, key
  upload,     \* each upload: step, its file
  died,       \* an upload died between its two writes
  check,      \* the check job: the time it read, the rows left
  rotation,   \* rotateEncryptionKeys: whether it runs, the rows left, those rewritten,
              \* which it reports when it has committed
  secretKey,  \* the key of the webhook secrets
  appKey      \* CERT_ENCRYPTION_KEY of the application

certVars == <<now, certs, upload, died, check, rotation, secretKey, appKey>>

NoFile == [opens |-> FALSE, cert |-> FALSE, key |-> FALSE, from |-> 0, to |-> 0]
NoUpload == [step |-> "idle", file |-> NoFile]
NoCheck == [on |-> FALSE, at |-> 0, left |-> {}]
NoRotation == [on |-> FALSE, left |-> {}, done |-> {}]

-----------------------------------------------------------------------------
(* A file *)

\* extractCertInfo: the password opens it, and it holds a certificate and a private key.
Extracted(file) == file.opens /\ file.cert /\ file.key

\* upload: refused if it has expired or is not valid yet.
Acceptable(file) == Extracted(file) /\ file.to >= now /\ file.from <= now

\* validateCertificate, on every signature.
InValidity(file) == file.from <= now /\ now <= file.to

\* extractFromP12 opens the stored file again.
ExtractFromP12(file) == Extracted(file) /\ InValidity(file)

CertInit ==
  /\ now = 0
  /\ certs \in {<<>>} \cup {<<[file |-> f, active |-> TRUE, key |-> "old"]>> : f \in {g \in Files : Acceptable(g)}}
  /\ upload = [u \in Uploads |-> NoUpload]
  /\ died = FALSE
  /\ check = NoCheck
  /\ rotation = NoRotation
  /\ secretKey = "old" /\ appKey = "old"

ActiveCerts == {i \in DOMAIN certs : certs[i].active}

-----------------------------------------------------------------------------
(* upload *)

\* updateMany: the active rows of the company.
Deactivated == [i \in DOMAIN certs |-> [certs[i] EXCEPT !.active = FALSE]]

\* The file is read and its dates checked, then the active rows are deactivated.
UploadDeactivate(u, file) ==
  /\ upload[u].step = "idle" /\ Len(certs) + Cardinality({w \in Uploads : upload[w].step # "idle"}) < MaxCerts
  /\ Acceptable(file)
  /\ certs' = Deactivated
  /\ upload' = [upload EXCEPT ![u] = [step |-> "create", file |-> file]]
  /\ UNCHANGED <<now, died, check, rotation, secretKey, appKey>>

\* create; the rotation's transaction does not see the row.
UploadCreate(u) ==
  /\ upload[u].step = "create"
  /\ certs' = Append(certs, [file |-> upload[u].file, active |-> TRUE, key |-> appKey])
  /\ upload' = [upload EXCEPT ![u] = NoUpload]
  /\ UNCHANGED <<now, died, check, rotation, secretKey, appKey>>

\* The process dies, or the insert fails: the two writes are not one transaction.
UploadDies(u) ==
  /\ upload[u].step = "create"
  /\ upload' = [upload EXCEPT ![u] = NoUpload]
  /\ died' = TRUE
  /\ UNCHANGED <<now, certs, check, rotation, secretKey, appKey>>

-----------------------------------------------------------------------------
(* CertificateCheckProcessor *)

CheckStart ==
  /\ ~check.on
  /\ ActiveCerts # {}
  /\ check' = [on |-> TRUE, at |-> now, left |-> ActiveCerts]
  /\ UNCHANGED <<now, certs, upload, died, rotation, secretKey, appKey>>

InLastDay_Week(i) == certs[i].file.to - check.at < 3
\* daysUntilExpiry <= 0: less than a whole day is left.
InLastDay(i) == certs[i].file.to - check.at < 2

CheckRow ==
  /\ check.on /\ check.left # {}
  /\ \E i \in check.left :
       /\ check' = [check EXCEPT !.left = @ \ {i}]
       /\ certs' = IF InLastDay(i) THEN [certs EXCEPT ![i].active = FALSE] ELSE certs
  /\ UNCHANGED <<now, upload, died, rotation, secretKey, appKey>>

\* The job is done, or its worker dies and a later job starts over.
CheckEnd ==
  /\ check.on
  /\ check' = NoCheck
  /\ UNCHANGED <<now, certs, upload, died, rotation, secretKey, appKey>>

-----------------------------------------------------------------------------
(* rotateEncryptionKeys, from "old" to "new" *)

RotateStart ==
  /\ ~rotation.on
  /\ secretKey = "old"
  /\ rotation' = [on |-> TRUE, left |-> DOMAIN certs, done |-> {}]
  /\ UNCHANGED <<now, certs, upload, died, check, secretKey, appKey>>

\* A row is decrypted with the old key; one under another key throws, and the
\* transaction is rolled back.
RotateRow ==
  /\ rotation.on
  /\ \E i \in rotation.left :
       rotation' = IF certs[i].key = "old"
                     THEN [rotation EXCEPT !.left = @ \ {i}, !.done = @ \cup {i}]
                     ELSE NoRotation
  /\ UNCHANGED <<now, certs, upload, died, check, secretKey, appKey>>

Rotated_Active(i) == i \in rotation.done /\ certs[i].active
\* Every row it read, active or not.
Rotated(i) == i \in rotation.done

\* The webhook secrets follow, and the transaction commits.
RotateCommit ==
  /\ rotation.on /\ rotation.left = {}
  /\ certs' = [i \in DOMAIN certs |-> IF Rotated(i) THEN [certs[i] EXCEPT !.key = "new"] ELSE certs[i]]
  /\ secretKey' = "new"
  /\ rotation' = [rotation EXCEPT !.on = FALSE]
  /\ UNCHANGED <<now, upload, died, check, appKey>>

RotateDies ==
  /\ rotation.on
  /\ rotation' = NoRotation
  /\ UNCHANGED <<now, certs, upload, died, check, secretKey, appKey>>

\* "After the script succeeds, deploy the application with the NEW key".
Redeploy ==
  /\ secretKey = "new" /\ appKey = "old"
  /\ appKey' = "new"
  /\ UNCHANGED <<now, certs, upload, died, check, rotation, secretKey>>

Tick ==
  /\ now < MaxNow
  /\ now' = now + 1
  /\ UNCHANGED <<certs, upload, died, check, rotation, secretKey, appKey>>

-----------------------------------------------------------------------------
(* Signing *)

\* getDecryptedCertificate: any active row, not expired, under the key of the application.
Decrypted(i) == certs[i].active /\ certs[i].file.to >= now /\ certs[i].key = appKey

Signs(i) == Decrypted(i) /\ ExtractFromP12(certs[i].file)

CanSign == \E i \in DOMAIN certs : Signs(i)
\* With two active rows findFirst may return the one that does not sign.
MayNotSign == ActiveCerts = {} \/ \E i \in ActiveCerts : ~Signs(i)

CertNext ==
  \/ \E u \in Uploads, file \in Files : UploadDeactivate(u, file)
  \/ \E u \in Uploads : UploadCreate(u) \/ UploadDies(u)
  \/ CheckStart \/ CheckRow \/ CheckEnd
  \/ RotateStart \/ RotateRow \/ RotateCommit \/ RotateDies \/ Redeploy
  \/ Tick

-----------------------------------------------------------------------------
(* Properties *)

\* Whatever uploads, checks and rotations overlap, the certificate uploaded last is
\* active up to its last day, unless another upload is, or died, between its two
\* writes: a renewed certificate is never lost.  "A cert that passes upload can always
\* sign": once its key is the one of the application, it signs.
RenewalKept ==
  LET last == Len(certs) IN
    (last > 0 /\ ~died /\ \A u \in Uploads : upload[u].step = "idle") =>
      \/ certs[last].file.to - now < 2
      \/ certs[last].active /\ (certs[last].key = appKey => Signs(last))

\* "All work happens inside a single Prisma transaction so a failure halfway
\* through rolls back every row": the rows that the rotation read and the webhook
\* secrets change key together, or not at all.
RotatedTogether ==
  \A i \in DOMAIN certs :
    /\ secretKey = "old" => certs[i].key = "old"
    /\ secretKey = "new" /\ i <= Cardinality(rotation.done) => certs[i].key = "new"
=============================================================================
