--------------------------- MODULE MC_ChainVerify ---------------------------
(***************************************************************************)
(* Three certificates, labels 1..4.  Inputs are taken up to renaming:     *)
(*  - certificates are interchangeable, so the anchors list is written    *)
(*    with c1 first and c2 second;                                         *)
(*  - labels are interchangeable, so subj numbers the labels in order of  *)
(*    first use along c1, c2, c3, and label 4 is an issuer no certificate *)
(*    has as subject.                                                      *)
(* Every input of three certificates is a renaming of one of these, so   *)
(* nothing is lost by the choice.  The Chain under test is built from any *)
(* list of distinct certificates with or without cert0; untrusted has at *)
(* most one certificate; one or two anchors.                              *)
(***************************************************************************)
EXTENDS ChainVerify

CONSTANTS c1, c2, c3

MCCerts == {c1, c2, c3}
MCLabels == 1..4

MCSubjects ==
  {f \in [MCCerts -> 1..3] :
     /\ f[c1] = 1
     /\ f[c2] <= 2
     /\ f[c3] <= IF f[c2] = 2 THEN 3 ELSE 2}

MCSelfPools == SetToAllKPermutations(MCCerts)

MCAnchorLists == {<<c1>>, <<c1, c2>>}

MCUntrustedLists == {s \in SetToAllKPermutations(MCCerts) : Len(s) <= 1}

MCUnknownHashChoices == {{}, {c3}}
MCNone == {{}}
=============================================================================
