------------------------------- MODULE CALoad -------------------------------
(***************************************************************************)
(* Chain.verifyChainFromCAFile and Chain.verifyChainFromCAPath of         *)
(* scapy/layers/tls/cert.py: they load the anchors (and the optional      *)
(* untrusted certificates) from files, then call verifyChain, which        *)
(* ChainVerify models.  This module composes the loading with the object  *)
(* maker of PemCodec: every Cert(c) of the loading is a _CertMaker call,   *)
(* whose _PKIObjMaker part ends in one of MakerResults(c).               *)
(*                                                                         *)
(* The text segs is the cafile for verifyChainFromCAFile, and the          *)
(* directory for verifyChainFromCAPath, one segment per file in           *)
(* os.listdir order.  A certificate is named by its one-line DER, a Data  *)
(* value; X509_Cert (not under src/) parses a DER whose first block is a  *)
(* certificate, and on trailing bytes may keep the first or raise.        *)
(***************************************************************************)
EXTENDS PemCodec

CONSTANTS
  MaxCaSegs   \* most segments of a cafile, or files of a directory

VARIABLES
  caller,     \* "none" (a plain object import), "cafile" or "capath"
  utKind,     \* untrusted_file: "none", "unreadable", or a readable "file"
  utText,     \* the content of untrusted_file
  todo,       \* the texts still to go through Cert(...)
  anchors,    \* the anchors list built so far
  untrusted,  \* the untrusted list built so far
  cpc         \* "read", "anchors", "untrusted", "verify", "raised"

caVars == <<caller, utKind, utText, todo, anchors, untrusted, cpc>>
allVars == <<vars, caVars>>

UntrustedTexts == {Der2Pem(x) : x \in DERs} \cup {<<BEGIN, NL>>}

(* X509_Cert(der) and import_from_asn1pkt: the certificate, or a raise. *)
CertFailed == [ok |-> FALSE, cert |-> GARBLE]
ParseCert(d) ==
  IF d # <<>> /\ d[1] \in Data
  THEN {[ok |-> TRUE, cert |-> d[1]]} \cup (IF Len(d) > 1 THEN {CertFailed} ELSE {})
  ELSE {CertFailed}

(* Cert(c) for bytes c that are not a file name: the maker on c, then     *)
(* the parse.                                                              *)
CertCall(c) ==
  UNION {IF r.ok THEN ParseCert(r.der) ELSE {CertFailed} : r \in MakerResults(c)}

CAInit ==
  \/ /\ Init
     /\ caller = "none" /\ utKind = "none" /\ utText = <<>>
     /\ todo = <<>> /\ anchors = <<>> /\ untrusted = <<>> /\ cpc = "verify"
  \/ /\ caller \in {"cafile", "capath"}
     /\ src = "none" /\ segs \in SeqOf(Segments, MaxCaSegs)
     /\ raw = <<>> /\ frmt = "none" /\ s = <<>>
     /\ pieces = <<>> /\ k = 1 /\ der = <<>> /\ pc = "open"
     /\ \/ utKind \in {"none", "unreadable"} /\ utText = <<>>
        \/ utKind = "file" /\ utText \in UntrustedTexts
     /\ todo = <<>> /\ anchors = <<>> /\ untrusted = <<>> /\ cpc = "read"

(* open(cafile, "rb") or f.read() fails: "Could not read from cafile". *)
CafileReadFails ==
  /\ caller = "cafile" /\ cpc = "read"
  /\ cpc' = "raised"
  /\ UNCHANGED <<caller, utKind, utText, todo, anchors, untrusted>>

(* [Cert(c) for c in split_pem(ca_certs)]: split_pem raises on a BEGIN   *)
(* without END (not caught), else each piece is imported in turn.         *)
CafileRead ==
  /\ caller = "cafile" /\ cpc = "read"
  /\ IF SplitPem(Text).ok
     THEN todo' = SplitPem(Text).pieces /\ cpc' = "anchors"
     ELSE cpc' = "raised" /\ UNCHANGED todo
  /\ UNCHANGED <<caller, utKind, utText, anchors, untrusted>>

(* os.listdir(capath) fails (not a directory): "capath provided is not a  *)
(* valid cert path".                                                       *)
CapathListFails ==
  /\ caller = "capath" /\ cpc = "read"
  /\ cpc' = "raised"
  /\ UNCHANGED <<caller, utKind, utText, todo, anchors, untrusted>>

(* for cafile in os.listdir(capath): the files, in listing order. *)
CapathList ==
  /\ caller = "capath" /\ cpc = "read"
  /\ todo' = segs /\ cpc' = "anchors"
  /\ UNCHANGED <<caller, utKind, utText, anchors, untrusted>>

(* open(os.path.join(capath, cafile)) or fd.read() fails (a directory, no *)
(* permission): the whole call raises.                                    *)
CapathReadFails ==
  /\ caller = "capath" /\ cpc = "anchors" /\ todo # <<>>
  /\ cpc' = "raised"
  /\ UNCHANGED <<caller, utKind, utText, todo, anchors, untrusted>>

(* Cert(c) returns: append to anchors (or untrusted) and go on. *)
LoadCert ==
  /\ cpc \in {"anchors", "untrusted"} /\ todo # <<>>
  /\ \E r \in CertCall(Head(todo)) :
       /\ r.ok
       /\ IF cpc = "anchors"
          THEN anchors' = Append(anchors, r.cert) /\ UNCHANGED untrusted
          ELSE untrusted' = Append(untrusted, r.cert) /\ UNCHANGED anchors
  /\ todo' = Tail(todo)
  /\ UNCHANGED <<caller, utKind, utText, cpc>>

(* Mutant: a file that does not import is skipped. *)
LoadCertSkips ==
  /\ cpc \in {"anchors", "untrusted"} /\ todo # <<>>
  /\ CertFailed \in CertCall(Head(todo))
  /\ todo' = Tail(todo)
  /\ UNCHANGED <<caller, utKind, utText, anchors, untrusted, cpc>>

(* Cert(c) raises: the list comprehension, and the call, raise. *)
LoadCertRaises ==
  /\ cpc \in {"anchors", "untrusted"} /\ todo # <<>>
  /\ CertFailed \in CertCall(Head(todo))
  /\ cpc' = "raised"
  /\ UNCHANGED <<caller, utKind, utText, todo, anchors, untrusted>>

(* Anchors done; untrusted_file is None: verifyChain(anchors, None). *)
AnchorsLoaded ==
  /\ cpc = "anchors" /\ todo = <<>> /\ utKind = "none"
  /\ cpc' = "verify"
  /\ UNCHANGED <<caller, utKind, utText, todo, anchors, untrusted>>

(* open(untrusted_file) or its read fails: "Could not read from           *)
(* untrusted_file".                                                        *)
UntrustedReadFails ==
  /\ cpc = "anchors" /\ todo = <<>> /\ utKind = "unreadable"
  /\ cpc' = "raised"
  /\ UNCHANGED <<caller, utKind, utText, todo, anchors, untrusted>>

(* [Cert(c) for c in split_pem(untrusted_certs)]. *)
UntrustedRead ==
  /\ cpc = "anchors" /\ todo = <<>> /\ utKind = "file"
  /\ IF SplitPem(utText).ok
     THEN todo' = SplitPem(utText).pieces /\ cpc' = "untrusted"
     ELSE cpc' = "raised" /\ UNCHANGED todo
  /\ UNCHANGED <<caller, utKind, utText, anchors, untrusted>>

(* return self.verifyChain(anchors, untrusted) *)
UntrustedLoaded ==
  /\ cpc = "untrusted" /\ todo = <<>>
  /\ cpc' = "verify"
  /\ UNCHANGED <<caller, utKind, utText, todo, anchors, untrusted>>

CAFinished ==
  /\ caller # "none" /\ cpc \in {"verify", "raised"}
  /\ UNCHANGED allVars

CANext ==
  \/ caller = "none" /\ Next /\ UNCHANGED caVars
  \/ /\ caller # "none"
     /\ \/ CafileReadFails \/ CafileRead
        \/ CapathListFails \/ CapathList \/ CapathReadFails
        \/ LoadCert \/ LoadCertRaises
        \/ AnchorsLoaded \/ UntrustedReadFails \/ UntrustedRead
        \/ UntrustedLoaded
     /\ UNCHANGED vars
  \/ CAFinished

CASpec == CAInit /\ [][CANext]_allVars /\ WF_allVars(CANext)

-----------------------------------------------------------------------------
(* Spec section 6: loading anchors from a directory imports every file as *)
(* a certificate, and any failure aborts the whole operation.  When        *)
(* verifyChainFromCAPath goes on past the directory, each file gave        *)
(* exactly one anchor, in listing order: none was skipped or merged.       *)
CapathAllOrNothing ==
  (caller = "capath" /\ cpc \in {"untrusted", "verify"})
    => /\ Len(anchors) = Len(segs)
       /\ \A i \in 1..Len(segs) : [ok |-> TRUE, cert |-> anchors[i]] \in CertCall(segs[i])
=============================================================================
