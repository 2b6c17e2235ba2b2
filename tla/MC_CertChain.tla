---------------------------- MODULE MC_CertChain ----------------------------
(* Three objects: c3 is a CRL, c1 and c2 are certificates, and three     *)
(* (name, key) labels.  That covers a root and a certificate it issued,   *)
(* two certificates with the same issuer (two ways to extend a chain),    *)
(* self-signed certificates, a certificate nobody in the pool issued, and *)
(* a CRL met by the root search or by the growth loop.  Pools up to       *)
(* length 3 let the same object appear twice, as in self + untrusted in   *)
(* verifyChain.  l1 and l2 share a name hash with different keys, so a    *)
(* CRL can match a certificate's subject hash without being signed by    *)
(* its key.                                                                *)
EXTENDS CertChain

CONSTANTS c1, c2, c3, l1, l2, l3

MCCerts == {c1, c2, c3}
MCLabels == {l1, l2, l3}
MCNameOf == [l \in MCLabels |-> IF l = l3 THEN 2 ELSE 1]
MCCrls == {c3}
MCUnknownHashChoices == {{}, {c2}}
=============================================================================
