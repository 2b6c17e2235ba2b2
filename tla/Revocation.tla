----------------------------- MODULE Revocation -----------------------------
(***************************************************************************)
(* Revocation checking in scapy/layers/tls/cert.py: the caller imports a   *)
(* list of CRLs (CRL.import_from_asn1pkt, whose loop over the revoked      *)
(* certificates builds revoked_cert_serials and raises on a bad date),     *)
(* then calls Cert.isRevoked(crl_list) for one certificate.                *)
(*                                                                         *)
(* A CRL's parsed tree is a record: its issuer, the keyIdentifier of an   *)
(* authorityKeyIdentifier extension (NoKey if none) and the sequence of   *)
(* revokedCertificates entries, each a serial and whether its date string *)
(* parses.  An imported CRL object is a record whose fields are exactly   *)
(* the attributes the code sets that isRevoked reads: a field that is not *)
(* in DOMAIN is an attribute the object does not have.                     *)
(***************************************************************************)
EXTENDS Naturals, Sequences, SequencesExt

CONSTANTS
  Names,       \* issuer names
  Keys,        \* key identifiers
  Serials,     \* serial numbers
  NoKey,       \* authorityKeyID = None / no AKID extension
  MaxEntries,  \* longest revokedCertificates sequence
  MaxCrls      \* longest crl_list

ASSUME NoKey \notin Keys /\ MaxEntries \in Nat /\ MaxCrls \in Nat

Entries == [serial : Serials, dateOk : BOOLEAN]
CrlTrees == [issuer : Names, akid : Keys \cup {NoKey}, headerOk : BOOLEAN,
             entries : SeqOf(Entries, MaxEntries)]
CertFields == [issuer : Names, akid : Keys \cup {NoKey}, serial : Serials]

VARIABLES
  cert,     \* the Cert whose isRevoked is called
  trees,    \* the X509_CRL trees the caller imports, in crl_list order
  crls,     \* the CRL objects imported so far
  j,        \* index of the revokedCertificates entry being imported
  revoked,  \* the local list "revoked" of the import in progress
  i,        \* index of the CRL the isRevoked loop is at
  pc,       \* "import", "check", "done" or "raised"
  result    \* the value isRevoked returned

vars == <<cert, trees, crls, j, revoked, i, pc, result>>

Tree == trees[Len(crls) + 1]

-----------------------------------------------------------------------------
TypeOK ==
  /\ cert \in CertFields
  /\ trees \in Seq([issuer : Names, akid : Keys \cup {NoKey}, headerOk : BOOLEAN,
                     entries : Seq(Entries)])
  /\ Len(trees) <= MaxCrls /\ \A k \in 1..Len(trees) : Len(trees[k].entries) <= MaxEntries
  /\ crls \in Seq([issuer : Names, revoked_cert_serials : Seq(Serials)])
  /\ Len(crls) <= Len(trees)
  /\ j \in 1..MaxEntries + 1 /\ revoked \in Seq(Serials)
  /\ i \in 1..Len(trees) + 1
  /\ pc \in {"import", "check", "done", "raised"}
  /\ result \in BOOLEAN

Init ==
  /\ cert \in CertFields
  /\ trees \in SeqOf(CrlTrees, MaxCrls)
  /\ crls = <<>> /\ j = 1 /\ revoked = <<>> /\ i = 1
  /\ pc = "import" /\ result = FALSE

(* Before the revocation loop the import parses thisUpdate, and          *)
(* nextUpdate when present, with time.strptime(..., "%y%m%d%H%M%S") after *)
(* dropping a trailing "Z"; either failing raises "Unable to import CRL". *)
(* headerOk is whether both parse.                                         *)
ImportHeaderRaises ==
  /\ pc = "import" /\ Len(crls) < Len(trees) /\ ~Tree.headerOk
  /\ pc' = "raised"
  /\ UNCHANGED <<cert, trees, crls, j, revoked, i, result>>

(* Mutant: the whole revokedCertificates entry appended, not its serial. *)
ImportEntryWhole ==
  /\ pc = "import" /\ Len(crls) < Len(trees) /\ Tree.headerOk
  /\ j <= Len(Tree.entries)
  /\ Tree.entries[j].dateOk
  /\ revoked' = Append(revoked, Tree.entries[j])
  /\ j' = j + 1
  /\ UNCHANGED <<cert, trees, crls, i, pc, result>>

(* revoked.append((serial, date)) for an entry whose date parses. *)
ImportEntry ==
  /\ pc = "import" /\ Len(crls) < Len(trees) /\ Tree.headerOk
  /\ j <= Len(Tree.entries)
  /\ Tree.entries[j].dateOk
  /\ revoked' = Append(revoked, Tree.entries[j].serial)
  /\ j' = j + 1
  /\ UNCHANGED <<cert, trees, crls, i, pc, result>>

(* time.strptime fails on the revocation date: the constructor raises. *)
ImportBadDate ==
  /\ pc = "import" /\ Len(crls) < Len(trees) /\ Tree.headerOk
  /\ j <= Len(Tree.entries)
  /\ ~Tree.entries[j].dateOk
  /\ pc' = "raised"
  /\ UNCHANGED <<cert, trees, crls, j, revoked, i, result>>

(* Mutant: the list "revoked" is not started afresh for the next CRL. *)
ImportDoneNoReset ==
  /\ pc = "import" /\ Len(crls) < Len(trees) /\ Tree.headerOk
  /\ j > Len(Tree.entries)
  /\ crls' = Append(crls, [issuer |-> Tree.issuer, revoked_cert_serials |-> revoked])
  /\ j' = 1
  /\ UNCHANGED <<cert, trees, i, pc, result, revoked>>

(* The import sets issuer and revoked_cert_serials; no line of it sets     *)
(* authorityKeyID, whatever extensions the tree carries.                   *)
ImportDone ==
  /\ pc = "import" /\ Len(crls) < Len(trees) /\ Tree.headerOk
  /\ j > Len(Tree.entries)
  /\ crls' = Append(crls, [issuer |-> Tree.issuer, revoked_cert_serials |-> revoked])
  /\ j' = 1 /\ revoked' = <<>>
  /\ UNCHANGED <<cert, trees, i, pc, result>>

(* Every CRL is imported: cert.isRevoked(crl_list) is called. *)
CallIsRevoked ==
  /\ pc = "import" /\ Len(crls) = Len(trees)
  /\ pc' = "check"
  /\ UNCHANGED <<cert, trees, crls, j, revoked, i, result>>

(* The if-test evaluates c.authorityKeyID only when self.authorityKeyID   *)
(* is not None; on an object without that attribute the read raises.     *)
ReadsCrlAkid == cert.akid # NoKey
HasAkidAttr(c) == "authorityKeyID" \in DOMAIN c
RaisesOn(c) == ReadsCrlAkid /\ ~HasAkidAttr(c)
AkidMatch(c) ==
  /\ ReadsCrlAkid /\ HasAkidAttr(c)
  /\ c.authorityKeyID # NoKey /\ c.authorityKeyID = cert.akid

(* AttributeError on c.authorityKeyID. *)
CheckRaises ==
  /\ pc = "check" /\ i <= Len(crls)
  /\ RaisesOn(crls[i])
  /\ pc' = "raised"
  /\ UNCHANGED <<cert, trees, crls, j, revoked, i, result>>

(* The AKIDs match, or else the issuers are equal: return whether the     *)
(* serial is among c.revoked_cert_serials.                                 *)
CheckReturn ==
  /\ pc = "check" /\ i <= Len(crls)
  /\ ~RaisesOn(crls[i])
  /\ AkidMatch(crls[i]) \/ cert.issuer = crls[i].issuer
  /\ result' = Contains(crls[i].revoked_cert_serials, cert.serial)
  /\ pc' = "done"
  /\ UNCHANGED <<cert, trees, crls, j, revoked, i>>

(* Neither test holds: the for loop goes to the next CRL. *)
CheckNext ==
  /\ pc = "check" /\ i <= Len(crls)
  /\ ~RaisesOn(crls[i])
  /\ ~AkidMatch(crls[i]) /\ cert.issuer # crls[i].issuer
  /\ i' = i + 1
  /\ UNCHANGED <<cert, trees, crls, j, revoked, pc, result>>

(* The loop ends without a match: return False. *)
CheckExhausted ==
  /\ pc = "check" /\ i > Len(crls)
  /\ result' = FALSE
  /\ pc' = "done"
  /\ UNCHANGED <<cert, trees, crls, j, revoked, i>>

Finished ==
  /\ pc \in {"done", "raised"}
  /\ UNCHANGED vars

Next ==
  \/ ImportHeaderRaises \/ ImportEntry \/ ImportBadDate \/ ImportDone
  \/ CallIsRevoked
  \/ CheckRaises \/ CheckReturn \/ CheckNext \/ CheckExhausted
  \/ Finished

Spec == Init /\ [][Next]_vars /\ WF_vars(Next)

-----------------------------------------------------------------------------
(* Spec section 3: a CRL's revoked_cert_serials keeps the tree's entries  *)
(* in insertion order, not deduplicated, and nothing of another CRL.      *)
RevokedListFaithful ==
  \A k \in 1..Len(crls) :
    crls[k].revoked_cert_serials
      = [n \in 1..Len(trees[k].entries) |-> trees[k].entries[n].serial]

(* Spec section 8, scenario 3, and the isRevoked docstring: a CRL with an *)
(* authority key identifier equal to the certificate's that lists its     *)
(* serial makes isRevoked return True.                                     *)
AkidMatchRevokes ==
  ( /\ pc \in {"done", "raised"} /\ Len(trees) = 1 /\ Len(crls) = 1
    /\ cert.akid # NoKey /\ trees[1].akid = cert.akid
    /\ Contains(crls[1].revoked_cert_serials, cert.serial) )
  => pc = "done" /\ result
=============================================================================
