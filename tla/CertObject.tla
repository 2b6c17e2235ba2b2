------------------------------ MODULE CertObject ------------------------------
(***************************************************************************)
(* What a Cert object promises (scapy/layers/tls/cert.py, spec section 3): *)
(* it holds a structural tree, a body and a signature over some body, and *)
(* derived fields read from that tree.  The body may be edited in place   *)
(* (setSubjectPublicKeyFromPrivateKey, or assigning a field of            *)
(* tbsCertificate as the module docstring shows); the derived fields are  *)
(* then stale until the caller re-signs.  Re-signing replaces the tree    *)
(* wholesale and recomputes every derived field from it, or fails and     *)
(* changes nothing (CertLifecycle refines this only while every validity  *)
(* value parses).  export(filename) writes the tree as it is now (DER or  *)
(* PEM, which import back to the same tree), or, for a format it does not *)
(* know, leaves the file empty.  file is the set of trees the export file *)
(* holds: none before an export or after an empty one, else one.          *)
(***************************************************************************)
CONSTANTS
  Keys,     \* key pairs; a public key is named by its private key
  Serials,  \* serial numbers
  Dates     \* validity values

VARIABLES body, sig, view, file

Bodies == [spki : Keys, serial : Serials, notAfter : Dates, akid : BOOLEAN]
Sigs == [by : Keys, over : Bodies]

\* The derived fields of a tree with body b and signature s.
Decode(b, s) ==
  [serial |-> b.serial, notAfter |-> b.notAfter, pubKey |-> b.spki,
   signatureValue |-> s, akid |-> b.akid]

Init ==
  /\ body \in Bodies
  /\ sig \in Sigs
  /\ view = Decode(body, sig)
  /\ file = {}

EditBody ==
  /\ body' \in Bodies
  /\ UNCHANGED <<sig, view, file>>

Resign ==
  \E k \in Keys :
    /\ sig' = [by |-> k, over |-> body]
    /\ view' = Decode(body, sig')
    /\ UNCHANGED <<body, file>>

Export ==
  /\ file' \in {{[body |-> body, sig |-> sig]}, {}}
  /\ UNCHANGED <<body, sig, view>>

Spec == Init /\ [][EditBody \/ Resign \/ Export]_<<body, sig, view, file>>
==============================================================================
