----------------------------- MODULE CertChain -----------------------------
(***************************************************************************)
(* The greedy chain construction of Chain.__init__ (scapy/layers/tls/     *)
(* cert.py), one step per pass of its loops, together with the same       *)
(* algorithm as a RECURSIVE operator (BuildChain) that ChainVerify uses.  *)
(*                                                                         *)
(* A certificate is a model value.  Only what Cert.isIssuerCert reads is  *)
(* kept: subj[c] stands for the pair (subject_hash, public key) of c and  *)
(* iss[c] for the pair (issuer_hash, key its signature verifies under).   *)
(* Then "o issued c" is iss[c] = subj[o]: the hash comparison and the     *)
(* signature check together.  Equality of model values is Python's        *)
(* object identity, which is what list.remove and "in" compare for Cert.  *)
(*                                                                         *)
(* The docstring lets certList hold CRL objects too (Crls).  A CRL has no *)
(* isSelfSigned and no subject_hash, and PubKey.verifyCert reads          *)
(* tbsCertificate, which a CRL does not have: those calls raise           *)
(* AttributeError, and the constructor with them (pc = "raised").         *)
(* NameOf[l] is the name hash part of the label l.  unknownHash holds    *)
(* the certificates whose signature algorithm is not a key of            *)
(* hash_by_oid: verifyCert on them raises KeyError before any signature  *)
(* is checked.  Like subj and iss it is fixed by the input.              *)
(***************************************************************************)
EXTENDS Naturals, Sequences, SequencesExt, Bags, FiniteSets

CONSTANTS
  Certs,     \* the certificate objects
  Labels,    \* abstract (name hash, key) pairs
  NoCert,    \* cert0 = None
  MaxPool,   \* longest certList the caller passes
  Crls,      \* the members of Certs that are CRL objects
  NameOf,    \* the name hash of a label
  UnknownHashChoices  \* candidate values of unknownHash

ASSUME NoCert \notin Certs /\ MaxPool \in Nat /\ Crls \subseteq Certs /\ DOMAIN NameOf = Labels

VARIABLES
  subj,       \* subject name hash and public key of each certificate
  iss,        \* issuer name hash and signing key of each certificate
  unknownHash, \* certificates whose signature OID hash_by_oid lacks
  certList0,  \* the list as the caller passed it (not changed)
  certList,   \* the caller's list, which the constructor consumes
  cert0,      \* the optional starting certificate
  chain,      \* the Chain list being built
  pc          \* "seed", "grow", "done" or "raised"

vars == <<subj, iss, unknownHash, certList0, certList, cert0, chain, pc>>

(* Cert.isIssuerCert(self=c, other=o): TRUE iff o issued c. *)
IsIssuerCert(c, o) == iss[c] = subj[o]

(* Cert.isSelfSigned: issuer_hash = subject_hash and self-verifying. *)
IsSelfSigned(c) == IsIssuerCert(c, c)

(* c.isIssuerCert(o) raises: o is a CRL (other.subject_hash), or the      *)
(* hashes match and o.pubKey.verifyCert(c) raises, reading the missing    *)
(* tbsCertificate of a CRL c or looking up an unknown hash OID of c.      *)
IssuerCheckRaises(c, o) ==
  \/ o \in Crls
  \/ /\ c \in Crls \cup unknownHash
     /\ NameOf[iss[c]] = NameOf[subj[o]]

(* root_candidate.isSelfSigned() raises: a CRL has no such method; a      *)
(* certificate with an unknown OID and equal hashes reaches verifyCert.   *)
SelfSignedRaises(c) ==
  c \in Crls \/ (c \in unknownHash /\ NameOf[iss[c]] = NameOf[subj[c]])

(* Mutant: the direction of isIssuerCert swapped (tail issued by c). *)
NextIssuedSwapped(pool, ch) ==
  SelectInSeq(pool, LAMBDA c : IssuerCheckRaises(c, Last(ch)) \/ IsIssuerCert(Last(ch), c))

(* Index where "for c in certList" stops: the first c for which           *)
(* c.isIssuerCert(self[-1]) holds or raises (0 if none).                  *)
NextIssued(pool, ch) ==
  SelectInSeq(pool, LAMBDA c : IssuerCheckRaises(c, Last(ch)) \/ IsIssuerCert(c, Last(ch)))

(* Index where "for root_candidate in certList" stops. *)
RootIdx(pool) == SelectInSeq(pool, LAMBDA c : SelfSignedRaises(c) \/ IsSelfSigned(c))

(***************************************************************************)
(* Chain.__init__ as a function of its arguments, for a certList and     *)
(* cert0 without CRLs (where nothing raises).                              *)
(***************************************************************************)
RECURSIVE Grow(_, _)
Grow(ch, pool) ==
  LET i == NextIssued(pool, ch)
  IN IF pool = <<>> \/ i = 0 THEN ch
     ELSE Grow(Append(ch, pool[i]), RemoveFirst(pool, pool[i]))

BuildChain(pool, c0) ==
  IF c0 # NoCert THEN Grow(<<c0>>, pool)
  ELSE LET r == SelectInSeq(pool, IsSelfSigned)
       IN IF r = 0 THEN <<>> ELSE Grow(<<pool[r]>>, RemoveFirst(pool, pool[r]))

(* Whether Chain(pool, c0) raises: a pass of the growth loop stops at a   *)
(* candidate whose isIssuerCert raises, or the root search at one whose   *)
(* isSelfSigned raises.                                                    *)
RECURSIVE GrowRaisesAt(_, _)
GrowRaisesAt(ch, pool) ==
  LET i == NextIssued(pool, ch)
  IN IF pool = <<>> \/ i = 0 THEN FALSE
     ELSE \/ IssuerCheckRaises(pool[i], Last(ch))
          \/ GrowRaisesAt(Append(ch, pool[i]), RemoveFirst(pool, pool[i]))

BuildRaises(pool, c0) ==
  IF c0 # NoCert THEN GrowRaisesAt(<<c0>>, pool)
  ELSE LET r == RootIdx(pool)
       IN /\ r # 0
          /\ \/ SelfSignedRaises(pool[r])
             \/ GrowRaisesAt(<<pool[r]>>, RemoveFirst(pool, pool[r]))

PoolSeqs == SeqOf(Certs, MaxPool)

-----------------------------------------------------------------------------
TypeOK ==
  /\ subj \in [Certs -> Labels]
  /\ iss \in [Certs -> Labels]
  /\ unknownHash \subseteq Certs
  /\ certList0 \in PoolSeqs
  /\ certList \in PoolSeqs
  /\ cert0 \in Certs \cup {NoCert}
  /\ chain \in Seq(Certs)
  /\ pc \in {"seed", "grow", "done", "raised"}

Init ==
  /\ subj \in [Certs -> Labels]
  /\ iss \in [Certs -> Labels]
  /\ unknownHash \in UnknownHashChoices
  /\ certList0 \in PoolSeqs
  /\ certList = certList0
  /\ cert0 \in Certs \cup {NoCert}
  /\ chain = <<>>
  /\ pc = "seed"

(* Mutant: the "if cert0:" test dropped. *)
SeedWithCert0Unguarded ==
  /\ pc = "seed"
  /\ chain' = <<cert0>>
  /\ pc' = "grow"
  /\ UNCHANGED <<subj, iss, unknownHash, certList0, certList, cert0>>

(* if cert0: self.append(cert0) -- cert0 stays in certList. *)
SeedWithCert0 ==
  /\ pc = "seed"
  /\ cert0 # NoCert
  /\ chain' = <<cert0>>
  /\ pc' = "grow"
  /\ UNCHANGED <<subj, iss, unknownHash, certList0, certList, cert0>>

(* Mutant: certList.remove(root_candidate) forgotten. *)
SeedWithRootKeep ==
  /\ pc = "seed"
  /\ cert0 = NoCert
  /\ LET r == RootIdx(certList)
     IN /\ r # 0 /\ ~SelfSignedRaises(certList[r])
        /\ chain' = <<certList[r]>>
  /\ pc' = "grow"
  /\ UNCHANGED <<subj, iss, unknownHash, certList0, certList, cert0>>

(* The first self-signed certificate of certList is moved to the chain. *)
SeedWithRoot ==
  /\ pc = "seed"
  /\ cert0 = NoCert
  /\ LET r == RootIdx(certList)
     IN /\ r # 0 /\ ~SelfSignedRaises(certList[r])
        /\ chain' = <<certList[r]>>
        /\ certList' = RemoveFirst(certList, certList[r])
  /\ pc' = "grow"
  /\ UNCHANGED <<subj, iss, unknownHash, certList0, cert0>>

(* The root search reaches a CRL first: AttributeError. *)
SeedRaises ==
  /\ pc = "seed"
  /\ cert0 = NoCert
  /\ LET r == RootIdx(certList) IN r # 0 /\ SelfSignedRaises(certList[r])
  /\ pc' = "raised"
  /\ UNCHANGED <<subj, iss, unknownHash, certList0, certList, cert0, chain>>

(* No self-signed certificate: the chain stays empty (len(self) == 0). *)
SeedNone ==
  /\ pc = "seed"
  /\ cert0 = NoCert
  /\ RootIdx(certList) = 0
  /\ pc' = "done"
  /\ UNCHANGED <<subj, iss, unknownHash, certList0, certList, cert0, chain>>

(* One pass of the while loop that appends a certificate: the first c of  *)
(* certList with c.isIssuerCert(self[-1]) is appended and removed.        *)
Extend ==
  /\ pc = "grow"
  /\ certList # <<>>
  /\ LET i == NextIssued(certList, chain)
     IN /\ i # 0 /\ ~IssuerCheckRaises(certList[i], Last(chain))
        /\ chain' = Append(chain, certList[i])
        /\ certList' = RemoveFirst(certList, certList[i])
  /\ UNCHANGED <<subj, iss, unknownHash, certList0, cert0, pc>>

(* The pass stops at a c whose isIssuerCert(self[-1]) raises. *)
GrowRaises ==
  /\ pc = "grow"
  /\ certList # <<>>
  /\ LET i == NextIssued(certList, chain)
     IN i # 0 /\ IssuerCheckRaises(certList[i], Last(chain))
  /\ pc' = "raised"
  /\ UNCHANGED <<subj, iss, unknownHash, certList0, certList, cert0, chain>>

(* Mutant: the "if len(self) == tmp_len: break" missing; a pass that    *)
(* appends nothing leaves the loop spinning on a non-empty certList.     *)
StopNoBreak ==
  /\ pc = "grow"
  /\ certList = <<>> \/ NextIssued(certList, chain) = 0
  /\ pc' = IF certList = <<>> THEN "done" ELSE "grow"
  /\ UNCHANGED <<subj, iss, unknownHash, certList0, certList, cert0, chain>>

(* The loop ends: certList is empty or a pass appended nothing. *)
Stop ==
  /\ pc = "grow"
  /\ certList = <<>> \/ NextIssued(certList, chain) = 0
  /\ pc' = "done"
  /\ UNCHANGED <<subj, iss, unknownHash, certList0, certList, cert0, chain>>

(* The constructor has returned or raised. *)
Returned ==
  /\ pc \in {"done", "raised"}
  /\ UNCHANGED vars

Next ==
  \/ SeedWithCert0 \/ SeedWithRoot \/ SeedRaises \/ SeedNone
  \/ Extend \/ GrowRaises \/ Stop
  \/ Returned

Spec == Init /\ [][Next]_vars /\ WF_vars(Next)

-----------------------------------------------------------------------------
(***************************************************************************)
(* Reference: every chain the docstring allows.  It starts at cert0 or at *)
(* a self-signed member of the pool (then taken out of the pool), each    *)
(* further element is a pool entry, used at most once, issued by the one  *)
(* before it, and it cannot be extended further from what is left.       *)
(***************************************************************************)
RECURSIVE MaximalChains(_, _)
MaximalChains(ch, rest) ==
  LET ext == {i \in 1..Len(rest) : IsIssuerCert(rest[i], Last(ch))}
  IN IF ext = {} THEN {ch}
     ELSE UNION {MaximalChains(Append(ch, rest[i]), RemoveAt(rest, i)) : i \in ext}

AllowedChains(pool, c0) ==
  IF c0 # NoCert THEN MaximalChains(<<c0>>, pool)
  ELSE IF \E i \in 1..Len(pool) : IsSelfSigned(pool[i])
       THEN UNION {MaximalChains(<<pool[i]>>, RemoveAt(pool, i)) :
                     i \in {j \in 1..Len(pool) : IsSelfSigned(pool[j])}}
       ELSE {<<>>}

(* Chain.__init__ returns one of the chains its docstring allows: it      *)
(* starts at cert0 or a self-signed root, links issuer to issued, and     *)
(* stops only when nothing left in certList extends it.  In particular,   *)
(* when exactly one chain can be built, that chain is built.              *)
BuildsAllowedChain ==
  pc = "done" => chain \in AllowedChains(certList0, cert0)

(* Every certificate the constructor takes out of the caller's certList  *)
(* is in the chain, and nothing else enters it but cert0: the list        *)
(* removals and appends of the loops balance at every step.               *)
PoolConserved ==
  ToBag(chain) (+) ToBag(certList)
    = ToBag(certList0) (+) (IF cert0 # NoCert /\ chain # <<>>
                              THEN SetToBag({cert0}) ELSE EmptyBag)

(* The constructor returns (or raises): the loop cannot spin. *)
Terminates == <>(pc \in {"done", "raised"})
=============================================================================
