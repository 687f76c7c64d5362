--------------------------- MODULE MCSignedDocuments ---------------------------
(* Finite instances of SignedDocuments for TLC. *)
EXTENDS SignedDocuments

CONSTANTS u1, u2, e1, e2, r1, r2, a1, a2, n1, n2, w1, w2, k1, k2

TwoUploads == {u1, u2}
TwoEmitters == {e1, e2}
TwoReceipts == {r1, r2}
TwoApprovals == {a1, a2}
OneNumber == {n1}
TwoNumbers == {n1, n2}
TwoWorkers == {w1, w2}
TwoCompanies == {k1, k2}

P12(opens, cert, key, from, to) == [opens |-> opens, cert |-> cert, key |-> key, from |-> from, to |-> to]
\* A file that is good, one that is valid later, one that has expired, and three that do not open
\* or lack a part.
Uploaded == {P12(TRUE, TRUE, TRUE, 0, 3), P12(TRUE, TRUE, TRUE, 2, 4), P12(TRUE, TRUE, TRUE, -4, -1),
             P12(FALSE, TRUE, TRUE, 0, 3), P12(TRUE, FALSE, TRUE, 0, 3), P12(TRUE, TRUE, FALSE, 0, 3)}

Symmetric == Permutations(TwoReceipts) \cup Permutations(TwoApprovals)

CertificatesBusy ==
  Len(certs) > 1 \/ secretKey = "new" \/ died \/ check.on \/ rotation.on \/ \E u \in Uploads : upload[u].step # "idle"

\* The receipts and the two steps work with one certificate, a missing one or one that
\* expires meanwhile.
OneCertificate == part = "certificates" \/ ~CertificatesBusy
=============================================================================
