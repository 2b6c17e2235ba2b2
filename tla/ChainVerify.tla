---------------------------- MODULE ChainVerify ----------------------------
(***************************************************************************)
(* Chain.verifyChain (scapy/layers/tls/cert.py): for each anchor in       *)
(* order, build Chain(self + untrusted, anchor), skip it if it is the     *)
(* anchor alone or uses no certificate of self, walk it checking          *)
(* remainingDays(), and return the first chain whose walk reaches its     *)
(* last element; None when no anchor gives one.  self is itself a Chain,  *)
(* the result of Chain(certList, cert0) (one that did not raise), so it  *)
(* is built with BuildChain of CertChain.  Expiry is a fixed flag per    *)
(* certificate: expired[c] <=> c.remainingDays() < 0 at the time of the  *)
(* call.  The certificates in unknownHash carry a signature algorithm    *)
(* hash_by_oid lacks: the Chain(...) call raises when one is reached as  *)
(* a candidate whose issuer hash matches, and verifyChain raises with it. *)
(***************************************************************************)
EXTENDS Naturals, Sequences, SequencesExt, FiniteSets

CONSTANTS
  Certs, Labels, NoCert,
  NoChain,          \* verifyChain returned None
  SubjectChoices,   \* candidate values of subj
  SelfPools,        \* candidate certList arguments of the Chain under test
  AnchorLists,      \* candidate anchors arguments
  UntrustedLists,   \* candidate untrusted arguments ([] for None)
  UnknownHashChoices  \* candidate sets of certificates with an unknown OID

ASSUME
  /\ NoCert \notin Certs
  /\ SubjectChoices \subseteq [Certs -> Labels]
  /\ SelfPools \subseteq Seq(Certs)
  /\ AnchorLists \subseteq Seq(Certs)
  /\ UntrustedLists \subseteq Seq(Certs)
  /\ UnknownHashChoices \subseteq SUBSET Certs

VARIABLES
  subj, iss,   \* as in CertChain
  expired,     \* expired[c]: c.remainingDays() < 0
  unknownHash, \* certificates whose signature OID is not in hash_by_oid
  self,        \* the Chain whose verifyChain is called
  anchors,     \* the anchors argument
  untrusted,   \* the untrusted argument
  ai,          \* index of the anchor the for loop is at
  chain,       \* Chain(self + untrusted, a) for the current anchor a
  ci,          \* index of the certificate c the date loop is at
  pc,          \* "anchor", "check", "dates", "decide", "done", "raised"
  result       \* the returned chain, or NoChain

vars == <<subj, iss, expired, unknownHash, self, anchors, untrusted, ai, chain, ci, pc, result>>

CC == INSTANCE CertChain WITH
        certList0 <- <<>>, certList <- <<>>, cert0 <- NoCert,
        chain <- <<>>, pc <- "done", MaxPool <- 0,
        Crls <- {}, NameOf <- [l \in Labels |-> l], UnknownHashChoices <- {}

Pool == self \o untrusted

(* Chain(pool, c0) raises; with no CRL in the pool only a certificate of *)
(* unknownHash can make it raise.                                         *)
ChainRaises(pool, c0) == unknownHash # {} /\ CC!BuildRaises(pool, c0)

(* Mutant: chain[2:] instead of chain[1:]. *)
UsesSelfFromThird(ch) == \E i \in 3..Len(ch) : Contains(self, ch[i])

(* any(c in chain[1:] for c in self) *)
UsesSelf(ch) == \E i \in 2..Len(ch) : Contains(self, ch[i])

-----------------------------------------------------------------------------
TypeOK ==
  /\ subj \in [Certs -> Labels] /\ iss \in [Certs -> Labels]
  /\ expired \in [Certs -> BOOLEAN] /\ unknownHash \in SUBSET Certs
  /\ self \in Seq(Certs) /\ anchors \in AnchorLists /\ untrusted \in UntrustedLists
  /\ ai \in 1..Len(anchors) + 1
  /\ chain \in Seq(Certs)
  /\ ci \in Nat /\ (pc \in {"dates", "decide"} => ci \in 1..Len(chain))
  /\ pc \in {"anchor", "check", "dates", "decide", "done", "raised"}
  /\ result = NoChain \/ result \in Seq(Certs)

Init ==
  /\ subj \in SubjectChoices
  /\ iss \in [Certs -> Labels]
  /\ unknownHash \in UnknownHashChoices
  /\ self \in {CC!BuildChain(cl, c0) : <<cl, c0>> \in
                 {p \in SelfPools \X (Certs \cup {NoCert}) : ~ChainRaises(p[1], p[2])}}
  /\ expired \in [Certs -> BOOLEAN]
  /\ anchors \in AnchorLists
  /\ untrusted \in UntrustedLists
  /\ ai = 1
  /\ chain = <<>>
  /\ ci = 0
  /\ pc = "anchor"
  /\ result = NoChain

(* chain = Chain(self + untrusted, a) for the next anchor a. *)
BuildForAnchor ==
  /\ pc = "anchor"
  /\ ai <= Len(anchors)
  /\ ~ChainRaises(Pool, anchors[ai])
  /\ chain' = CC!BuildChain(Pool, anchors[ai])
  /\ pc' = "check"
  /\ UNCHANGED <<subj, iss, expired, unknownHash, self, anchors, untrusted, ai, ci, result>>

(* Chain(self + untrusted, a) raises KeyError out of verifyChain. *)
BuildRaisesForAnchor ==
  /\ pc = "anchor"
  /\ ai <= Len(anchors)
  /\ ChainRaises(Pool, anchors[ai])
  /\ pc' = "raised"
  /\ UNCHANGED <<subj, iss, expired, unknownHash, self, anchors, untrusted, ai, chain, ci, result>>

(* The anchors are exhausted: return None. *)
NoTrustPath ==
  /\ pc = "anchor"
  /\ ai > Len(anchors)
  /\ pc' = "done"
  /\ UNCHANGED <<subj, iss, expired, unknownHash, self, anchors, untrusted, ai, chain, ci, result>>

NextAnchor ==
  /\ ai' = ai + 1
  /\ pc' = "anchor"
  /\ UNCHANGED <<subj, iss, expired, unknownHash, self, anchors, untrusted, chain, ci, result>>

(* len(chain) == 1, or no certificate of self in chain[1:]: continue. *)
SkipChain ==
  /\ pc = "check"
  /\ Len(chain) = 1 \/ ~UsesSelf(chain)
  /\ NextAnchor

(* Otherwise the date loop starts at the anchor. *)
StartDates ==
  /\ pc = "check"
  /\ Len(chain) # 1 /\ UsesSelf(chain)
  /\ ci' = 1
  /\ pc' = "dates"
  /\ UNCHANGED <<subj, iss, expired, unknownHash, self, anchors, untrusted, ai, chain, result>>

(* Mutant: the loop does not stop at the end of the chain. *)
DateOkUnbounded ==
  /\ pc = "dates"
  /\ ~expired[chain[ci]]
  /\ ci' = ci + 1
  /\ UNCHANGED <<subj, iss, expired, unknownHash, self, anchors, untrusted, ai, chain, pc, result>>

(* c.remainingDays() >= 0 and c is not the last: the loop goes on. *)
DateOk ==
  /\ pc = "dates"
  /\ ~expired[chain[ci]]
  /\ ci < Len(chain)
  /\ ci' = ci + 1
  /\ UNCHANGED <<subj, iss, expired, unknownHash, self, anchors, untrusted, ai, chain, pc, result>>

(* The loop ends, by break on an expired c or after the last c. *)
DatesDone ==
  /\ pc = "dates"
  /\ expired[chain[ci]] \/ ci = Len(chain)
  /\ pc' = "decide"
  /\ UNCHANGED <<subj, iss, expired, unknownHash, self, anchors, untrusted, ai, chain, ci, result>>

(* if c is chain[-1]: return chain *)
Accept ==
  /\ pc = "decide"
  /\ chain[ci] = Last(chain)
  /\ result' = chain
  /\ pc' = "done"
  /\ UNCHANGED <<subj, iss, expired, unknownHash, self, anchors, untrusted, ai, chain, ci>>

(* The loop broke before the last certificate: next anchor. *)
Reject ==
  /\ pc = "decide"
  /\ chain[ci] # Last(chain)
  /\ NextAnchor

Returned ==
  /\ pc \in {"done", "raised"}
  /\ UNCHANGED vars

Next ==
  \/ BuildForAnchor \/ BuildRaisesForAnchor \/ NoTrustPath
  \/ SkipChain \/ StartDates
  \/ DateOk \/ DatesDone
  \/ Accept \/ Reject
  \/ Returned

Spec == Init /\ [][Next]_vars /\ WF_vars(Next)

-----------------------------------------------------------------------------
AnchorChain(k) == CC!BuildChain(Pool, anchors[k])

Linked(ch) == \A i \in 1..Len(ch) - 1 : CC!IsIssuerCert(ch[i + 1], ch[i])

(* What spec section 4.4 calls a passing chain: longer than the anchor,   *)
(* using a certificate of self, and no member expired.                     *)
Passes(ch) ==
  /\ Len(ch) > 1
  /\ \E i \in 2..Len(ch) : Contains(self, ch[i])
  /\ \A i \in 1..Len(ch) : ~expired[ch[i]]

(* Spec section 4.4 verify steps 2 and 3, and the comments over the two  *)
(* tests ("anchor only", "check that the chain does not exclusively rely *)
(* on untrusted"): the anchor alone proves nothing, nor does the anchor   *)
(* with untrusted certificates, which bypasses the certificate under     *)
(* test.  So a returned chain holds a certificate of self other than its  *)
(* anchor.                                                                 *)
ResultUsesSelfBeyondAnchor ==
  result # NoChain =>
    \E i \in 2..Len(result) : Contains(self, result[i]) /\ result[i] # result[1]

(* verifyChain never answers None when the chain built from some anchor   *)
(* passes every check of spec section 4.4.                                 *)
NoFalseRejection ==
  (pc = "done" /\ \E k \in 1..Len(anchors) : Passes(AnchorChain(k)))
    => result # NoChain

(* Spec section 4.4 step 4: the walk "aborts at the first expired         *)
(* member", so no returned chain contains an expired certificate.          *)
ResultNotExpired ==
  result # NoChain => \A i \in 1..Len(result) : ~expired[result[i]]

(* Spec section 4.4 step 5 and section 7: failing to find a trust path   *)
(* is a normal return, never an exception.  A certificate of self +      *)
(* untrusted that scapy cannot check (its signature OID is not in       *)
(* hash_by_oid) should at worst be passed over: verifyChain never       *)
(* raises while the pool without such certificates gives some anchor a    *)
(* passing chain (one that holds no certificate twice).                   *)
UncheckableNeverHidesTrustPath ==
  pc = "raised" =>
    ~\E k \in 1..Len(anchors) :
       LET ch == CC!BuildChain(SelectSeq(Pool, LAMBDA c : c \notin unknownHash), anchors[k])
       IN Passes(ch) /\ IsInjective(ch)

(* verifyChain returns or raises, whatever the anchors and pools. *)
Terminates == <>(pc \in {"done", "raised"})
=============================================================================
