---------------------------- MODULE CertLifecycle ----------------------------
(***************************************************************************)
(* One Cert object of scapy/layers/tls/cert.py over its life: built by    *)
(* Cert(path), its tbsCertificate edited in place (by                     *)
(* setSubjectPublicKeyFromPrivateKey, or by assigning a field as the      *)
(* module docstring shows), re-signed by resignWith(key), asked           *)
(* isSelfSigned(), and written out by export(filename, fmt).               *)
(*                                                                         *)
(* self.tbsCertificate and self.x509Cert.tbsCertificate are one object, so *)
(* the tree is tbs plus the signature sigVal of x509Cert.  The derived    *)
(* fields import_from_asn1pkt sets are the record view.  A body carries   *)
(* the fields some property tells apart: the key of subjectPublicKeyInfo, *)
(* the serial, notAfter, and whether it has an authorityKeyIdentifier.  A *)
(* signature is the key that made it and the body it was computed over;   *)
(* it verifies under key p against body b iff it was made by p over b.    *)
(***************************************************************************)
EXTENDS Naturals, FiniteSets

CONSTANTS
  Keys,     \* key pairs (PrivKey objects; key.pubkey is named by the key)
  Serials,  \* serial numbers
  Dates,    \* notAfter values
  BadDate,  \* a notAfter whose .datetime raises ValueError
  NotAKey   \* an argument that is neither a PubKey nor a PrivKey

ASSUME NotAKey \notin Keys

VARIABLES
  tbs,       \* self.tbsCertificate (the body of self.x509Cert)
  sigVal,    \* self.x509Cert.signatureValue
  view,      \* the derived fields: serial, notAfter, pubKey, signatureValue, authorityKeyID
  oidKnown,  \* tbsCertificate.signature.algorithm is a key of hash_by_oid
  sameName,  \* issuer_hash = subject_hash
  file,      \* the trees the export file holds: {} (none or empty) or one
  result     \* the last call and what it returned

vars == <<tbs, sigVal, view, oidKnown, sameName, file, result>>

Abs == INSTANCE CertObject WITH body <- tbs, sig <- sigVal

Returns == {"none", "raised", "True", "False"}
Ops == {"init", "set", "edit", "resign", "isSelfSigned", "export"}

(* Export file names (only the ".pem" suffix matters) and fmt arguments;  *)
(* "pem" stands for any string other than "DER" and "PEM".               *)
FileNames == {"cert.pem", "cert.der"}
Fmts == {"None", "DER", "PEM", "pem"}

TypeOK ==
  /\ tbs \in Abs!Bodies
  /\ sigVal \in Abs!Sigs
  /\ view \in [serial : Serials, notAfter : Dates, pubKey : Keys,
               signatureValue : Abs!Sigs, akid : BOOLEAN]
  /\ oidKnown \in BOOLEAN /\ sameName \in BOOLEAN
  /\ file \in SUBSET [body : Abs!Bodies, sig : Abs!Sigs] /\ Cardinality(file) <= 1
  /\ result \in [op : Ops, ret : Returns]

(* import_from_asn1pkt(cert): x509Cert, tbsCertificate, version, serial,  *)
(* names and their hashes are set, and authorityKeyID = None, before the  *)
(* validity is parsed; a ValueError there raises with those fields set    *)
(* and the rest (dates, pubKey, extensions, signatureValue) left as they  *)
(* were.  BadDate stands for a notBefore or a notAfter that raises: the   *)
(* modelled fields end the same either way.  PubKey(raw(spki)) does not  *)
(* raise in the model: every spki is a key of Keys, which PubKey imports. *)
ImportFromAsn1pktStaleSerial(v, b, s) ==
  LET head == [v EXCEPT !.akid = FALSE]
  IN IF b.notAfter = BadDate THEN head
     ELSE [head EXCEPT !.notAfter = b.notAfter, !.pubKey = b.spki,
                       !.signatureValue = s, !.akid = b.akid]
ImportFromAsn1pktStaleKey(v, b, s) ==
  LET head == [v EXCEPT !.serial = b.serial, !.akid = FALSE]
  IN IF b.notAfter = BadDate THEN head
     ELSE [head EXCEPT !.notAfter = b.notAfter,
                       !.signatureValue = s, !.akid = b.akid]
ImportFromAsn1pkt(v, b, s) ==
  LET head == [v EXCEPT !.serial = b.serial, !.akid = FALSE]
  IN IF b.notAfter = BadDate THEN head
     ELSE [head EXCEPT !.notAfter = b.notAfter, !.pubKey = b.spki,
                       !.signatureValue = s, !.akid = b.akid]

(* PubKey.verifyCert(cert) for the key p: hash_by_oid[...] raises KeyError *)
(* for an unknown algorithm; otherwise the cert's signatureValue field is *)
(* checked against raw(cert.tbsCertificate).                              *)
VerifyCert(p, v, b) ==
  CASE ~oidKnown -> "raised"
    [] v.signatureValue = [by |-> p, over |-> b] -> "True"
    [] OTHER -> "False"

(* isSelfSigned(): hashes first, then isIssuerCert(self), which checks    *)
(* the hashes again and calls self.pubKey.verifyCert(self).               *)
SelfSignedAnswer(v, b) ==
  IF sameName THEN VerifyCert(v.pubKey, v, b) ELSE "False"

(* Cert(path): the file's tree is imported in full; an unparsable date    *)
(* makes the constructor raise, so no object exists.  The file is a       *)
(* certificate as its signer issued it: the signature is over its body.   *)
Init ==
  /\ tbs \in {b \in Abs!Bodies : b.notAfter # BadDate}
  /\ sigVal \in {s \in Abs!Sigs : s.over = tbs}
  /\ view = Abs!Decode(tbs, sigVal)
  /\ oidKnown \in BOOLEAN
  /\ sameName \in BOOLEAN
  /\ file = {}
  /\ result = [op |-> "init", ret |-> "none"]

SetSubjectPublicKeyFromPrivateKeyUnchecked(k) ==
  /\ tbs' = [tbs EXCEPT !.spki = k]
  /\ result' = [op |-> "set", ret |-> "none"]
  /\ UNCHANGED <<sigVal, view, oidKnown, sameName, file>>
SetSubjectPublicKeyFromPrivateKey(k) ==
  /\ k \in Keys
  /\ tbs' = [tbs EXCEPT !.spki = k]
  /\ result' = [op |-> "set", ret |-> "none"]
  /\ UNCHANGED <<sigVal, view, oidKnown, sameName, file>>

SetSubjectPublicKeyRejects(k) ==
  /\ k \notin Keys
  /\ result' = [op |-> "set", ret |-> "raised"]
  /\ UNCHANGED <<tbs, sigVal, view, oidKnown, sameName, file>>

(* The caller assigns tbsCertificate.serialNumber or the validity, as in  *)
(* the module docstring.                                                  *)
EditTbs ==
  \E s \in Serials, d \in Dates :
    /\ tbs' = [tbs EXCEPT !.serial = s, !.notAfter = d]
    /\ result' = [op |-> "edit", ret |-> "none"]
    /\ UNCHANGED <<sigVal, view, oidKnown, sameName, file>>

(* resignWith(key) = import_from_asn1pkt(key.resignCert(self)); resignCert *)
(* calls signTBSCert(tbs, h=None), whose hash_by_oid lookup raises first  *)
(* for an unknown algorithm.                                               *)
ResignUnknownHash ==
  /\ ~oidKnown
  /\ result' = [op |-> "resign", ret |-> "raised"]
  /\ UNCHANGED <<tbs, sigVal, view, oidKnown, sameName, file>>

(* signTBSCert(tbsCert, h): the key signs raw(tbsCert); the new X509_Cert *)
(* shares tbsCert and carries that signature.                              *)
SignTBSCert(k, b) == [by |-> k, over |-> b]

(* import_from_asn1pkt(key.resignCert(self)) replaces x509Cert with the    *)
(* new X509_Cert and re-reads every field from it.                         *)
ResignWith(k) ==
  /\ oidKnown
  /\ sigVal' = SignTBSCert(k, tbs)
  /\ view' = ImportFromAsn1pkt(view, tbs, sigVal')
  /\ result' = [op |-> "resign",
                ret |-> IF tbs.notAfter = BadDate THEN "raised" ELSE "none"]
  /\ UNCHANGED <<tbs, oidKnown, sameName, file>>

IsSelfSigned ==
  /\ result' = [op |-> "isSelfSigned", ret |-> SelfSignedAnswer(view, tbs)]
  /\ UNCHANGED <<tbs, sigVal, view, oidKnown, sameName, file>>

(* export: with fmt None the format is PEM for a name ending in ".pem"   *)
(* and DER otherwise.                                                     *)
ExportFmt(name, fmt) ==
  IF fmt = "None" THEN IF name = "cert.pem" THEN "PEM" ELSE "DER" ELSE fmt

(* open(filename, "wb") truncates the file; f.write(self.der) or          *)
(* f.write(self.pem.encode()) writes bytes(self.x509Cert), the current    *)
(* tree, and any other fmt writes nothing.                                *)
Export ==
  \E name \in FileNames, fmt \in Fmts :
    /\ file' = IF ExportFmt(name, fmt) \in {"DER", "PEM"}
               THEN {[body |-> tbs, sig |-> sigVal]} ELSE {}
    /\ result' = [op |-> "export", ret |-> "none"]
    /\ UNCHANGED <<tbs, sigVal, view, oidKnown, sameName>>

Next ==
  \/ \E k \in Keys \cup {NotAKey} :
       SetSubjectPublicKeyFromPrivateKey(k) \/ SetSubjectPublicKeyRejects(k)
  \/ EditTbs
  \/ ResignUnknownHash
  \/ \E k \in Keys : ResignWith(k)
  \/ IsSelfSigned
  \/ Export

Spec == Init /\ [][Next]_vars

-----------------------------------------------------------------------------
(* isSelfSigned() on the object answers what it answers on Cert(der) of   *)
(* the object's export (whenever that import succeeds): the in-memory     *)
(* pubKey and signatureValue, although left stale by body edits, never    *)
(* make the object claim a signature its exported certificate lacks, or   *)
(* deny one it has.                                                        *)
SelfSignedMatchesExport ==
  result.op = "isSelfSigned" /\ tbs.notAfter # BadDate =>
    result.ret = SelfSignedAnswer(Abs!Decode(tbs, sigVal), tbs)

(* For validity values that all parse, the object implements CertObject: *)
(* body edits leave signature and derived fields alone; resignWith either *)
(* replaces the signature and every derived field together or, on an     *)
(* unknown hash, changes nothing; export writes the tree as it is, never  *)
(* one rebuilt from the stale derived fields.  With an unparsable         *)
(* notAfter a failed resignWith is no CertObject step: it replaces the    *)
(* signature and only some derived fields (run cert_resign_partial).      *)
AbsSpec == Abs!Spec
==============================================================================
