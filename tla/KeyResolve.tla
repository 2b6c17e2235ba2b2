----------------------------- MODULE KeyResolve -----------------------------
(***************************************************************************)
(* The key factories of scapy/layers/tls/cert.py: _PubKeyFactory.__call__ *)
(* and _PrivKeyFactory.__call__, with the fill_and_store /                 *)
(* import_from_asn1pkt / import_from_der each branch calls.                *)
(*                                                                         *)
(* The ASN.1 decoder and the crypto library are outside: an input is the  *)
(* set of structural forms obj._der decodes under (forms), whether the     *)
(* library accepts the key material (materialOk; else ValueError and the  *)
(* like), and conf.crypto_valid (cryptoValid; when FALSE every            *)
(* crypto_validator method raises ImportError).  A key handle is its       *)
(* algorithm; the object's class, marker, handle and derived public key   *)
(* are the state the code builds.                                          *)
(***************************************************************************)
EXTENDS Naturals, Sequences, FiniteSets, SequencesExt

NONE == "none"

PubClasses == {"PubKeyRSA", "PubKeyECDSA", "PubKeyEdDSA"}
PrivClasses == {"PrivKeyRSA", "PrivKeyECDSA", "PrivKeyEdDSA"}
AlgOfClass ==
  [c \in PubClasses \cup PrivClasses |->
     IF c \in {"PubKeyRSA", "PrivKeyRSA"} THEN "RSA"
     ELSE IF c \in {"PubKeyECDSA", "PrivKeyECDSA"} THEN "ECDSA" ELSE "EdDSA"]

(* The forms X509_SubjectPublicKeyInfo / RSAPublicKey decode; the kind of *)
(* an SPKI is the class of its subjectPublicKey.                           *)
PubForms == {"SPKI_RSA", "SPKI_ECDSA", "SPKI_EdDSA", "SPKI_other", "RSAPublicKey"}
SpkiClass == [f \in {"SPKI_RSA", "SPKI_ECDSA", "SPKI_EdDSA"} |->
                IF f = "SPKI_RSA" THEN "PubKeyRSA"
                ELSE IF f = "SPKI_ECDSA" THEN "PubKeyECDSA" ELSE "PubKeyEdDSA"]

(* Mutant: the ECDSA wrapper tried after the bare RSA structure. *)
PrivOrderSwapped ==
  <<[form |-> "RSAPrivateKey_OpenSSL", cls |-> "PrivKeyRSA", marker |-> "PRIVATE KEY"],
    [form |-> "RSAPrivateKey", cls |-> "PrivKeyRSA", marker |-> "RSA PRIVATE KEY"],
    [form |-> "ECDSAPrivateKey_OpenSSL", cls |-> "PrivKeyECDSA", marker |-> "EC PRIVATE KEY"],
    [form |-> "ECDSAPrivateKey", cls |-> "PrivKeyECDSA", marker |-> "EC PRIVATE KEY"],
    [form |-> "EdDSAPrivateKey", cls |-> "PrivKeyEdDSA", marker |-> "PRIVATE KEY"]>>

(* The private-key trials in the order of the nested try blocks, with the *)
(* class and marker each one sets.                                         *)
PrivOrder ==
  <<[form |-> "RSAPrivateKey_OpenSSL", cls |-> "PrivKeyRSA", marker |-> "PRIVATE KEY"],
    [form |-> "ECDSAPrivateKey_OpenSSL", cls |-> "PrivKeyECDSA", marker |-> "EC PRIVATE KEY"],
    [form |-> "RSAPrivateKey", cls |-> "PrivKeyRSA", marker |-> "RSA PRIVATE KEY"],
    [form |-> "ECDSAPrivateKey", cls |-> "PrivKeyECDSA", marker |-> "EC PRIVATE KEY"],
    [form |-> "EdDSAPrivateKey", cls |-> "PrivKeyEdDSA", marker |-> "PRIVATE KEY"]>>
PrivForms == {PrivOrder[i].form : i \in 1..Len(PrivOrder)}

(* Mutant: the ECDSA/EdDSA cryptography public key stored unwrapped. *)
PrivMaterialUnwrapped(c, gen) ==
  CASE c = "PrivKeyRSA" ->
         [key |-> "RSA", pub |-> [cls |-> "PubKeyRSA", alg |-> "RSA"], marker |-> "PRIVATE KEY"]
    [] c \in {"PrivKeyECDSA", "PrivKeyEdDSA"} ->
         [key |-> AlgOfClass[c], pub |-> [cls |-> "cryptography", alg |-> AlgOfClass[c]],
          marker |-> "PRIVATE KEY"]

(* PrivKeyRSA.fill_and_store, also at the end of import_from_asn1pkt: the *)
(* key, a PubKeyRSA built from its numbers, marker "PRIVATE KEY".         *)
PrivRSAMaterial ==
  [key |-> "RSA", pub |-> [cls |-> "PubKeyRSA", alg |-> "RSA"], marker |-> "PRIVATE KEY"]

(* PrivKeyECDSA.fill_and_store / import_from_asn1pkt. *)
PrivECDSAMaterial ==
  [key |-> "ECDSA", pub |-> [cls |-> "PubKeyECDSA", alg |-> "ECDSA"], marker |-> "EC PRIVATE KEY"]

(* PrivKeyEdDSA.fill_and_store generates an X25519 key (gen);            *)
(* import_from_asn1pkt loads the EdDSA key; both wrap its public key in   *)
(* PubKeyECDSA.                                                            *)
PrivEdDSAMaterial(gen) ==
  LET alg == IF gen THEN "X25519" ELSE "EdDSA"
  IN [key |-> alg, pub |-> [cls |-> "PubKeyECDSA", alg |-> alg], marker |-> "PRIVATE KEY"]

(* The method of obj's class that obj.fill_and_store() or                 *)
(* obj.import_from_asn1pkt(privkey) runs.                                  *)
PrivMaterial(c, gen) ==
  CASE c = "PrivKeyRSA" -> PrivRSAMaterial
    [] c = "PrivKeyECDSA" -> PrivECDSAMaterial
    [] c = "PrivKeyEdDSA" -> PrivEdDSAMaterial(gen)

(* PubKeyRSA.fill_and_store, with or without a modulus: marker set. *)
PubRSAFilled == [key |-> "RSA", marker |-> "PUBLIC KEY"]

(* PubKeyECDSA / PubKeyEdDSA.fill_and_store(): a generated handle (X25519 *)
(* by default for EdDSA), no marker.                                       *)
PubECDSAGenerated == [key |-> "ECDSA", marker |-> NONE]
PubEdDSAGenerated == [key |-> "X25519", marker |-> NONE]

PubGenerated(c) ==
  CASE c = "PubKeyRSA" -> PubRSAFilled
    [] c = "PubKeyECDSA" -> PubECDSAGenerated
    [] c = "PubKeyEdDSA" -> PubEdDSAGenerated

NoPub == [cls |-> NONE, alg |-> NONE]

VARIABLES
  factory,      \* "PubKey" or "PrivKey"
  called,       \* the class the factory was called on
  arg,          \* "path" (key_path given), "none", "cryptoObj", "tuple"
  handleAlg,    \* algorithm of a cryptography_obj argument
  forms,        \* the structural forms obj._der decodes under
  materialOk,   \* the crypto library accepts the key material
  cryptoValid,  \* conf.crypto_valid
  trial,        \* index in PrivOrder of the private-key trial under way
  cls,          \* obj.__class__
  marker,       \* obj.marker (NONE if unset)
  key,          \* algorithm of obj.key / obj.pubkey handle (NONE if unset)
  pub,          \* a private key's derived pubkey (NoPub if unset)
  pc            \* "call", "spki", "bareRSA", "trial", "import", "done", "raised"

vars == <<factory, called, arg, handleAlg, forms, materialOk, cryptoValid,
          trial, cls, marker, key, pub, pc>>

Markers == {"PUBLIC KEY", "RSA PUBLIC KEY", "PRIVATE KEY", "EC PRIVATE KEY",
            "RSA PRIVATE KEY", NONE}
Algs == {"RSA", "ECDSA", "EdDSA", "X25519", NONE}

TypeOK ==
  /\ factory \in {"PubKey", "PrivKey"}
  /\ called \in {"PubKey", "PrivKey"} \cup PubClasses \cup PrivClasses
  /\ arg \in {"path", "none", "cryptoObj", "tuple"}
  /\ forms \subseteq PubForms \cup PrivForms
  /\ materialOk \in BOOLEAN /\ cryptoValid \in BOOLEAN
  /\ trial \in 1..Len(PrivOrder) + 1
  /\ cls \in {"_PKIObj", "PubKey"} \cup PubClasses \cup PrivClasses
  /\ marker \in Markers /\ key \in Algs
  /\ pub \in [cls : PubClasses \cup {NONE}, alg : Algs]
  /\ pc \in {"call", "spki", "bareRSA", "trial", "import", "done", "raised"}

(* The calls: PubKey or a subclass with a path, with nothing, with a      *)
(* cryptography object of the class's algorithm, or with a tuple (RSA);   *)
(* PrivKey or a subclass with a path or with nothing.  A path's bytes     *)
(* decode as at most one public-key form, or as any private-key forms.    *)
Calls ==
  {[f |-> "PubKey", c |-> c, a |-> a] : c \in {"PubKey"} \cup PubClasses,
                                        a \in {"path", "none", "cryptoObj", "tuple"}}
  \cup {[f |-> "PrivKey", c |-> c, a |-> a] : c \in {"PrivKey"} \cup PrivClasses,
                                             a \in {"path", "none"}}

Init ==
  /\ \E call \in Calls : factory = call.f /\ called = call.c /\ arg = call.a
  /\ handleAlg \in IF arg = "cryptoObj" /\ called \in PubClasses
                   THEN {AlgOfClass[called]} ELSE IF arg = "cryptoObj"
                   THEN {"RSA", "ECDSA", "EdDSA"} ELSE {NONE}
  /\ forms \in IF arg # "path" THEN {{}}
               ELSE IF factory = "PubKey" THEN {{}} \cup {{f} : f \in PubForms}
               ELSE SUBSET PrivForms
  /\ materialOk \in BOOLEAN /\ cryptoValid \in BOOLEAN
  /\ trial = 1 /\ cls = "_PKIObj" /\ marker = NONE /\ key = NONE /\ pub = NoPub
  /\ pc = "call"

(* The crypto_validator methods and the library both succeed. *)
Imports == cryptoValid /\ materialOk

Done(c, m, k, p) ==
  /\ cls' = c /\ marker' = m /\ key' = k /\ pub' = p /\ pc' = "done"
  /\ UNCHANGED <<factory, called, arg, handleAlg, forms, materialOk, cryptoValid, trial>>

Raise ==
  /\ pc' = "raised"
  /\ UNCHANGED <<factory, called, arg, handleAlg, forms, materialOk, cryptoValid,
                 trial, cls, marker, key, pub>>

-----------------------------------------------------------------------------
(* _PubKeyFactory: cryptography_obj given: the object takes the class it  *)
(* was called on, marker "PUBLIC KEY" and the handle as it is.             *)
PubFromCryptoObj ==
  /\ pc = "call" /\ factory = "PubKey" /\ arg = "cryptoObj"
  /\ Done(called, "PUBLIC KEY", handleAlg, NoPub)

(* key_path None: PubKey becomes PubKeyRSA, then fill_and_store()        *)
(* generates a key (crypto_validator: ImportError without the library).   *)
PubGenerate ==
  /\ pc = "call" /\ factory = "PubKey" /\ arg = "none"
  /\ IF cryptoValid
       THEN LET c == IF called = "PubKey" THEN "PubKeyRSA" ELSE called
            IN Done(c, PubGenerated(c).marker, PubGenerated(c).key, NoPub)
       ELSE Raise

(* A tuple: PubKeyRSA, import_from_tuple -> fill_and_store(modulus, e). *)
PubFromTuple ==
  /\ pc = "call" /\ factory = "PubKey" /\ arg = "tuple"
  /\ IF Imports THEN Done("PubKeyRSA", PubRSAFilled.marker, PubRSAFilled.key, NoPub) ELSE Raise

(* A path: the object made, first try X509_SubjectPublicKeyInfo. *)
PubReadPath ==
  /\ pc = "call" /\ factory = "PubKey" /\ arg = "path"
  /\ pc' = "spki"
  /\ UNCHANGED <<factory, called, arg, handleAlg, forms, materialOk, cryptoValid,
                 trial, cls, marker, key, pub>>

(* The SPKI decodes with a known subjectPublicKey, the class is switched   *)
(* and the import (import_from_asn1pkt or import_from_der) succeeds.      *)
PubSpkiImported ==
  /\ pc = "spki"
  /\ \E f \in forms : f \in DOMAIN SpkiClass
  /\ Imports
  /\ \E f \in forms : Done(SpkiClass[f], "PUBLIC KEY", AlgOfClass[SpkiClass[f]], NoPub)

(* Any exception in the try: no SPKI, an unknown subjectPublicKey (bare   *)
(* raise), or a failed import after the class switch, which stays.        *)
PubSpkiFails ==
  /\ pc = "spki"
  /\ \/ /\ \A f \in forms : f \notin DOMAIN SpkiClass
        /\ UNCHANGED cls
     \/ /\ ~Imports
        /\ \E f \in forms : f \in DOMAIN SpkiClass /\ cls' = SpkiClass[f]
  /\ pc' = "bareRSA"
  /\ UNCHANGED <<factory, called, arg, handleAlg, forms, materialOk, cryptoValid,
                 trial, marker, key, pub>>

(* RSAPublicKey decodes and imports; the marker is then overwritten with  *)
(* "RSA PUBLIC KEY".                                                       *)
PubBareImported ==
  /\ pc = "bareRSA"
  /\ "RSAPublicKey" \in forms /\ Imports
  /\ Done("PubKeyRSA", "RSA PUBLIC KEY", "RSA", NoPub)

(* Otherwise "Unable to import public key" (or the original exception   *)
(* under conf.debug_dissector).                                            *)
PubBareFails ==
  /\ pc = "bareRSA"
  /\ "RSAPublicKey" \notin forms \/ ~Imports
  /\ Raise

-----------------------------------------------------------------------------
(* _PrivKeyFactory, key_path None: PrivKey becomes PrivKeyECDSA, then    *)
(* fill_and_store() generates a key.                                       *)
PrivGenerate ==
  /\ pc = "call" /\ factory = "PrivKey" /\ arg = "none"
  /\ IF cryptoValid
       THEN LET c == IF called = "PrivKey" THEN "PrivKeyECDSA" ELSE called
                m == PrivMaterial(c, TRUE)
            IN Done(c, m.marker, m.key, m.pub)
       ELSE Raise

(* A path: the object made, the nested trials start. *)
PrivReadPath ==
  /\ pc = "call" /\ factory = "PrivKey" /\ arg = "path"
  /\ pc' = "trial"
  /\ UNCHANGED <<factory, called, arg, handleAlg, forms, materialOk, cryptoValid,
                 trial, cls, marker, key, pub>>

(* The trial's structure decodes: class and marker are set. *)
PrivTrialFits ==
  /\ pc = "trial" /\ trial <= Len(PrivOrder)
  /\ PrivOrder[trial].form \in forms
  /\ cls' = PrivOrder[trial].cls /\ marker' = PrivOrder[trial].marker
  /\ pc' = "import"
  /\ UNCHANGED <<factory, called, arg, handleAlg, forms, materialOk, cryptoValid,
                 trial, key, pub>>

(* It does not: the except clause tries the next form. *)
PrivTrialFails ==
  /\ pc = "trial" /\ trial <= Len(PrivOrder)
  /\ PrivOrder[trial].form \notin forms
  /\ trial' = trial + 1
  /\ UNCHANGED <<factory, called, arg, handleAlg, forms, materialOk, cryptoValid,
                 cls, marker, key, pub, pc>>

(* Mutant: the last except clause raises without trying EdDSAPrivateKey. *)
PrivNoFormEarly ==
  /\ pc = "trial" /\ trial >= Len(PrivOrder)
  /\ Raise

(* No form fits: "Unable to import private key". *)
PrivNoForm ==
  /\ pc = "trial" /\ trial > Len(PrivOrder)
  /\ Raise

(* obj.import_from_asn1pkt(privkey) succeeds. *)
PrivImported ==
  /\ pc = "import" /\ Imports
  /\ LET m == PrivMaterial(cls, FALSE) IN Done(cls, m.marker, m.key, m.pub)

(* except ImportError: pass -- the object is returned as it is. *)
PrivImportSwallowed ==
  /\ pc = "import" /\ ~cryptoValid
  /\ Done(cls, marker, key, pub)

(* Any other exception of the library propagates. *)
PrivImportRaises ==
  /\ pc = "import" /\ cryptoValid /\ ~materialOk
  /\ Raise

Finished ==
  /\ pc \in {"done", "raised"}
  /\ UNCHANGED vars

Next ==
  \/ PubFromCryptoObj \/ PubGenerate \/ PubFromTuple \/ PubReadPath
  \/ PubSpkiImported \/ PubSpkiFails \/ PubBareImported \/ PubBareFails
  \/ PrivGenerate \/ PrivReadPath \/ PrivTrialFits \/ PrivTrialFails \/ PrivNoForm
  \/ PrivImported \/ PrivImportSwallowed \/ PrivImportRaises
  \/ Finished

Spec == Init /\ [][Next]_vars /\ WF_vars(Next)

-----------------------------------------------------------------------------
(* Spec section 4.2 step 4: the priority orders, highest first, and the  *)
(* class each form resolves to.                                            *)
SpecPrivPriority ==
  <<"RSAPrivateKey_OpenSSL", "ECDSAPrivateKey_OpenSSL", "RSAPrivateKey",
    "ECDSAPrivateKey", "EdDSAPrivateKey">>
SpecClassOf ==
  [f \in {"RSAPrivateKey_OpenSSL", "RSAPrivateKey"} |-> "PrivKeyRSA"]
  @@ [f \in {"ECDSAPrivateKey_OpenSSL", "ECDSAPrivateKey"} |-> "PrivKeyECDSA"]
  @@ [f \in {"EdDSAPrivateKey"} |-> "PrivKeyEdDSA"]
  @@ SpkiClass @@ [f \in {"RSAPublicKey"} |-> "PubKeyRSA"]
SpecPubPriority == <<"SPKI_RSA", "SPKI_ECDSA", "SPKI_EdDSA", "RSAPublicKey">>

FirstFit ==
  LET order == IF factory = "PubKey" THEN SpecPubPriority ELSE SpecPrivPriority
      k == SelectInSeq(order, LAMBDA f : f \in forms)
  IN IF k = 0 THEN NONE ELSE SpecClassOf[order[k]]

(* Spec section 4.2 step 4: a key read from a file gets the class of the *)
(* first form in the priority order its bytes decode under, and, when the *)
(* library takes the material, a key handle.  This checks the nesting of *)
(* the five private-key try blocks and the SPKI / bare-RSA fallback.      *)
FirstFitWins ==
  pc = "done" /\ arg = "path" =>
    /\ cls = FirstFit
    /\ Imports => key = AlgOfClass[cls]

(* Spec section 4.2: a failed decode attempt is caught and the next form *)
(* is tried; the factories raise only when no form fits or the material   *)
(* itself cannot be imported.                                              *)
RaisesOnlyWhenUnusable ==
  pc = "raised" => ~Imports \/ (arg = "path" /\ FirstFit = NONE)

(* Spec section 3: a PublicKey always has a consistent (variant, handle) *)
(* pair, and a private key owns its handle and a PublicKey derived from   *)
(* it; spec section 4.2 step 6: a failed field extraction propagates, so *)
(* no object without its handle is returned.  Checked on every object a   *)
(* factory returns for a subclass or from bytes.                           *)
VariantHandleConsistent ==
  pc = "done" /\ cls \in DOMAIN AlgOfClass =>
    /\ key = AlgOfClass[cls]
    /\ factory = "PrivKey" => pub.alg = AlgOfClass[pub.cls]
=============================================================================
