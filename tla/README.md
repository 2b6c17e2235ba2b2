# TLA+ models of scapy's PKI layer (`scapy/layers/tls/cert.py`)

This directory holds TLA+ models of `src/scapy/layers/tls/cert.py`. That file
wraps X.509 certificates, CRLs and RSA/ECDSA/EdDSA keys, and builds and
verifies certificate chains. The models are checked with TLC. Every
definition that models code is listed, with its source lines, under `map` in
`PROJECT.json`.

## 1. Inventory of the system

The code is single-threaded and synchronous. Nothing runs in the background
and nothing is persisted between calls. So what is hard here is not
interleaving. It is the following:

- the order-dependent greedy search in `Chain`;
- the exact loop and exit logic of `verifyChain`;
- the first-match policies of the trial decoders and of `isRevoked`;
- the mutable object state that `setSubjectPublicKeyFromPrivateKey` and
  `resignWith` leave behind.

| Component | Code | State it keeps | Operations | Interacts with |
|---|---|---|---|---|
| PEM codec | `der2pem`, `pem2der`, `split_pem` (99-144) | none (pure) | encode, decode one object, split a bundle | called by the object maker |
| Object maker | `_PKIObjMaker.__call__` (147-192) | `frmt`, `_der` of the new object | read path or bytes, size check, PEM/DER detection | file system; PEM codec |
| Public-key resolver and classes | `_PubKeyFactory`, `PubKey*` (203-441) | class (RSA/ECDSA/EdDSA), `pubkey` handle, `marker`, RSA numbers | trial decode SPKI, then bare RSA; `verifyCert`, `export`, `encrypt` | ASN.1 decoder; crypto provider |
| Private-key resolver and classes | `_PrivKeyFactory`, `PrivKey*` (448-716) | class, `key`, derived `pubkey`, `marker` | trial decode of 5 forms; `signTBSCert`, `resignCert`, `verifyCert`, `export` | ASN.1 decoder; crypto provider; public-key classes |
| Certificate | `_CertMaker`, `Cert` (723-953) | parsed tree plus derived fields (serial, issuer/subject and their hashes, validity, `pubKey`, AKID, extensions) | import, `isIssuerCert`, `isSelfSigned`, `setSubjectPublicKeyFromPrivateKey`, `resignWith`, `remainingDays`, `isRevoked`, export | public-key resolver; private keys; CRL |
| CRL | `_CRLMaker`, `CRL` (960-1059) | parsed tree, issuer, dates, `revoked_cert_serials`, AKID | import, `isIssuerCert`, `verify(anchors)` | certificates |
| Chain builder | `Chain.__init__` (1066-1105) | the chain list; it consumes the caller's `certList` | greedy construction from a self-signed root or `cert0` | `Cert.isIssuerCert` / `isSelfSigned` |
| Chain verifier | `verifyChain` (1107-1127) | none beyond the call | per-anchor build, checks, date walk | chain builder; `remainingDays` |
| CA loaders | `verifyChainFromCAFile`, `verifyChainFromCAPath` (1129-1179) | none beyond the call | read a bundle or a directory, `Cert(...)` per object, then `verifyChain` | file system; PEM codec; object maker; chain verifier |
| ASN.1 decoder, crypto provider | `scapy.layers.x509`, `pkcs1.py`, `cryptography` | not in `src/` | parse/serialize, sign/verify | external |

How the parts interact:

- Raw input goes through the object maker and the PEM codec. It then goes to
  a resolver, which tries structural decoders in a fixed order and switches
  the object's `__class__` to the first that fits.
- Certificates expose `isIssuerCert`. This is a name-hash comparison plus a
  signature check by the issuer's `pubKey`.
- `Chain` uses `isIssuerCert` to grow a list, and `verifyChain` nests one
  `Chain` construction per anchor.
- `isRevoked` and `CRL.verify` are separate entry points. `verifyChain` never
  calls them.

What makes each part correct:

- **Chain builder.** It starts at `cert0` or at the first self-signed
  certificate. Every link is issuer to issued. It stops only when nothing
  left can extend the chain. It terminates. It takes nothing from the
  caller's list that it does not put in the chain.
- **Chain verifier.** It returns a chain only when that chain:
  - starts at an anchor;
  - is longer than the anchor;
  - uses a certificate of `self`;
  - has no expired member.

  It returns `None` only when no anchor gives such a chain. Among the anchors,
  the first one that passes wins.
- **Revocation.** The docstring says every CRL is consulted; the code
  stops at the first CRL whose AKID or issuer matches. An AKID match has
  priority over an issuer-name match. Every imported CRL lists its tree's
  serials.
- **Resolvers.** They follow the fixed priority order. A successful import
  yields a complete object. A private key's `pubkey` has the variant of the
  key.
- **Certificate object.** Its derived fields agree with its tree after every
  public operation. A certificate re-signed with key `k` verifies under `k`.

## 2. Plan

The modules are listed in order of importance. `[x]` marks the ones that are
done.

1. [x] `CertChain`: `Chain.__init__`, one step per loop pass, plus the same
   algorithm as the RECURSIVE operator `BuildChain`. It is checked against a
   reference set of allowed chains (`AllowedChains`).
2. [x] `ChainVerify`: `verifyChain`. It composes `CertChain` through
   `INSTANCE` and uses `BuildChain` for each anchor.
3. [x] `Revocation`: `CRL.import_from_asn1pkt`'s revocation loop and
   `Cert.isRevoked` over a list of CRLs. A CRL as the tail of a chain is
   added to `CertChain` (constant `Crls`).
4. [x] `PemCodec`: `split_pem`, `pem2der`, `der2pem` and the whole object
   maker (input kind, size check, read, PEM/DER detection), over token
   sequences.
5. [x] `KeyResolve`: every branch of `_PubKeyFactory` and `_PrivKeyFactory`,
   with the material import as a step that can fail or raise `ImportError`.
6. [x] `CertLifecycle`: a certificate object's tree and derived fields under
   `setSubjectPublicKeyFromPrivateKey`, body edits, `resignWith` and
   `isSelfSigned`, and `export`. While every validity value parses, it
   refines the abstract `CertObject` (re-signing replaces the signature and
   every derived field together, or changes nothing).
7. [x] A `verifyCert` that can raise for an unknown signature OID, added
   to `CertChain`/`ChainVerify` as an error outcome (see item 9). The
   mismatched-key-type cause is finding 6 of `KeyResolve`.
8. [x] The `lastUpdate`/`nextUpdate` parsing of `CRL.import_from_asn1pkt`
   (each can raise), in `Revocation`. `CRL.verify(anchors)` is `any` over
   the raising `CRL.isIssuerCert` of finding 5. It is not a
   separate action.
9. [x] Certificates whose signature OID is missing from `hash_by_oid` in
   `CertChain`/`ChainVerify` (variable `unknownHash`). `verifyCert` raises
   `KeyError` for them, and the raise aborts `verifyChain`; the property
   `UncheckableNeverHidesTrustPath` compares the aborted call with the
   pool without those certificates.
10. [x] `CALoad`: `verifyChainFromCAFile` and `verifyChainFromCAPath`
   load their anchors through the object maker of `PemCodec`. One
   unreadable or non-certificate file in the directory aborts the whole
   call. The `verifyChain` they end with is `ChainVerify`'s.

## 3. Modules and how they match the code

### `CertChain` (`Chain.__init__`, lines 1066-1105)

A certificate is a model value, so equality of model values is Python's
object identity. That identity is what `list.remove`, `in` and `is` use on
`Cert`.

Only what `isIssuerCert` reads is kept, as two labels per certificate:

- `subj[c]` stands for (subject name hash, public key);
- `iss[c]` stands for (issuer name hash, key the signature verifies under).

Then `IsIssuerCert(c, o) == iss[c] = subj[o]`. This is the hash comparison
and the signature verification together. `IsSelfSigned(c)` is
`IsIssuerCert(c, c)`.

Variables:

- `certList` is the caller's list, consumed by `remove`;
- `certList0` is its value at the call;
- `cert0` is the optional starting certificate;
- `chain` is the list being built;
- `pc` is the loop position.

Actions:

- `SeedWithCert0` (`if cert0: self.append(cert0)`; `cert0` is **not**
  removed from `certList`);
- `SeedWithRoot` (the first self-signed certificate is moved);
- `SeedNone`;
- `Extend` (one pass of the while loop that appends the first issued
  certificate and removes it);
- `Stop` (empty list, or a pass that appended nothing);
- `Returned` (the constructor has returned).

`BuildChain(pool, c0)` is the same algorithm as a RECURSIVE operator.

### `ChainVerify` (`Chain.verifyChain`, lines 1107-1127)

The chain under test, `self`, is itself a `Chain`. It is the value
`BuildChain(certList, cert0)` for some list and `cert0`.

Expiry is a flag per certificate: `expired[c]` means
`c.remainingDays() < 0` during the call.

Actions:

- `BuildForAnchor`: `Chain(self + untrusted, a)`, via `CC!BuildChain`,
  when the construction does not raise;
- `BuildRaisesForAnchor`: the construction raises (`CC!BuildRaises`), and
  the `KeyError` leaves `verifyChain` (`pc = "raised"`);
- `NoTrustPath`: the anchors are exhausted, so it returns `None`;
- `SkipChain`: the chain is only the anchor, or uses no certificate of
  `self`;
- `StartDates`, `DateOk`, `DatesDone`: the `for c in chain` walk and its
  `break`;
- `Accept` / `Reject`: `if c is chain[-1]`.

The loop variable `c` is the index `ci`. Like Python's `c`, it keeps its
value into the next anchor's iteration.

`unknownHash` is the set of certificates whose signature algorithm is not
a key of `hash_by_oid`; it is fixed by the input, like `subj` and `iss`,
and is passed to `CertChain` through the `INSTANCE`. `self` ranges over the
chains whose own construction does not raise (a `Chain` object exists).

### CRLs in `CertChain` (lines 1044-1052, 1089-1099)

`Crls` is a subset of the certificates that are CRL objects, and `NameOf`
maps a label to its name hash. A CRL has no `isSelfSigned`, so the root
search raises on reaching it (`SelfSignedRaises`, action `SeedRaises`).
`c.isIssuerCert(o)` raises when `o` is a CRL (no `subject_hash`), or when `c`
is a CRL whose issuer hash equals `o`'s subject hash, because
`o.pubKey.verifyCert(c)` reads `c.tbsCertificate` (`IssuerCheckRaises`,
action `GrowRaises`). The `for` loops stop at the first certificate whose
test holds *or raises*, which is what `NextIssued` and `RootIdx` select.

The same two operators cover a certificate in `unknownHash`: once the hash
test passes, `verifyCert` looks up `hash_by_oid` for its algorithm and
raises `KeyError` (lines 277-280, 809-811, 819-820). `BuildRaises` (with
`GrowRaisesAt`) is the recursive counterpart of the raising steps.

### `Revocation` (`CRL.import_from_asn1pkt` lines 996-1042, `Cert.isRevoked` 914-921)

A CRL tree is a record of:

- the issuer;
- the AKID;
- whether `thisUpdate` and `nextUpdate` (when present) parse;
- a sequence of revoked entries, each a serial and whether its date parses.

When a date does not parse, `ImportHeaderRaises` raises before the loop.
Otherwise the import is one step per entry
(`ImportEntry`, or `ImportBadDate`, which raises), then `ImportDone`. That
step builds the CRL object as a record whose fields are exactly the
attributes the import sets: `issuer` and `revoked_cert_serials`, and no
`authorityKeyID`. `isRevoked` is one step per loop pass: `CheckRaises` (the
AKID read on an object without that attribute), `CheckReturn`, `CheckNext`,
and `CheckExhausted`.

### `PemCodec` (lines 99-192)

Text is a sequence of tokens: `BEGIN` and `END` (a whole marker line without
its newline), `NL`, `CR`, and `Data` values (one 64-character base64 line
each). `find`/`rfind` become index searches (`FindFrom`, `FirstIdx`,
`LastIdx`), and `pem2der`'s slice `[first_idx:last_idx]` is `Slice`. When
the slice holds marker letters, the base64 decoding yields other bytes or
raises (`Garbled`). The object maker's steps are:

- the input: `PathNone` (`obj_path is None`), `UseBytes` (not a file
  name: the bytes are the data, with no size check), or a file path:
  `SizeTooLarge` and `SizeFits` (the `os.path.getsize` test against
  `MaxSize`), then `ReadFails` or `ReadFile` (`open` and `f.read`);
- `DetectDER` and `DetectPEM`;
- one `split_pem` loop pass per `SplitPiece`, with `SplitBreak` and
  `SplitMissingEnd`;
- one `pem2der` per piece (`DecodePiece`, `DecodeRaises`), then `DecodeDone`.

Inputs are up to `MaxSegs` segments. A segment is a `der2pem` block with LF
or CRLF line ends, or a short text line. The line may be stray markers,
truncated blocks or comments, with or without its newline.

`SplitPem` is `split_pem` as one RECURSIVE operator, and `MakerResults`
the set of outcomes of the maker on data `_raw` (the DER, or a raise; a
garbled piece may go either way). The CA loaders below use it for each
`Cert(c)`.

### `CALoad` (lines 728-740, 1129-1179)

`CALoad` EXTENDS `PemCodec` and composes it with the two loaders. Its
`caller` is `"none"` for a plain object import (the steps of `PemCodec`),
or `"cafile"` / `"capath"`, whose steps are:

- `CafileReadFails` and `CafileRead`: reading the cafile, then
  `split_pem` of it (its "missing END" raise is not caught);
- `CapathListFails`, `CapathList` and `CapathReadFails`: `os.listdir`,
  then the open and read of each file, in listing order;
- `LoadCert` and `LoadCertRaises`: one `Cert(c)`. `c` is bytes, so the
  maker takes its bytes branch (`CertCall` = `MakerResults`, then the
  `X509_Cert` parse `ParseCert`);
- `AnchorsLoaded`, `UntrustedReadFails`, `UntrustedRead` and
  `UntrustedLoaded`: the `untrusted_file` branch, the same code in both
  loaders.

The state `cpc = "verify"` is the call `verifyChain(anchors, untrusted)`.
A certificate is named by its one-line DER (a `Data` value). `X509_Cert`
is outside `src/`: it parses a DER that starts with a certificate, and on
trailing bytes (a file holding two blocks) it may keep the first or
raise. `segs` is the cafile, or the directory with one file per segment.

### `KeyResolve` (lines 203-267, 319-431, 448-504, 584-710)

Inputs:

- the call: factory, class called on, and argument kind;
- the set of structural forms the bytes decode under;
- whether the crypto library accepts the material;
- `conf.crypto_valid`. Without it, every `crypto_validator` method raises
  `ImportError`.

The state is what the object gets: `cls` (`__class__`), `marker`, `key` (the
handle's algorithm) and a private key's derived `pub`. There is one action
per branch:

- cryptography object, generation and tuple;
- the SPKI attempt and its fallback to a bare RSAPublicKey;
- the five nested private-key trials;
- `import_from_asn1pkt` succeeding, having its `ImportError` swallowed, or
  raising.

The `*Material`/`*Generated` operators are the `fill_and_store` and
`import_from_asn1pkt` methods of each class.

### `CertObject` and `CertLifecycle` (lines 277-283, 521-546, 728-821, 839-859)

`CertObject` is what spec section 3 promises of a certificate object. It
holds a body, a signature over some body, and a `view` of derived fields.
Body edits leave the signature and the view alone: they are stale until the
caller re-signs. `Resign` replaces the signature and sets the view to
`Decode` of the new tree, as one step.

`CertLifecycle` is one `Cert` object. `self.tbsCertificate` is the same
object as `self.x509Cert.tbsCertificate`, so the tree is `tbs` plus
`sigVal`, the signature of `x509Cert`. A body is a record of the fields a
property tells apart:

- the key of `subjectPublicKeyInfo`;
- the serial;
- `notAfter`;
- whether it has an AKID extension.

A signature is the key that made it and the body it was computed over. It
verifies under key `p` against body `b` iff it was made by `p` over `b`.
`view` holds the attributes `import_from_asn1pkt` sets. Those attributes are
`serial`, `notAfter`, `pubKey`, `signatureValue` and `authorityKeyID`.

How the definitions match the code:

- `Init` is `Cert(path)`. The file's signature is over its own body.
- `ImportFromAsn1pkt` follows the method's order. `serial`, the name hashes
  and `authorityKeyID = None` are set before the validity is parsed. A
  `ValueError` there raises with the rest of the old fields kept.
- `SetSubjectPublicKeyFromPrivateKey` and `SetSubjectPublicKeyRejects` are
  the `isinstance` branches.
- `EditTbs` is a field assignment as in the module docstring. It is the
  environment and is modelled from the spec.
- `ResignUnknownHash` is the `hash_by_oid` `KeyError` in `signTBSCert`.
- `ResignWith` is `signTBSCert` followed by `import_from_asn1pkt`.
- `IsSelfSigned` goes through `isIssuerCert` and `verifyCert`. It uses the
  cached `pubKey` and `signatureValue` against the live `tbs`.
- `Export` is `export(filename, fmt)` with `ExportFmt`, the choice of PEM
  for a `.pem` name when `fmt` is `None`. `der` and `pem` are
  `bytes(self.x509Cert)`, so the file holds the live tree (`file` is the
  set of trees it holds). `open(filename, "wb")` truncates first, so a
  `fmt` other than `"DER"` or `"PEM"` leaves an empty file. DER and PEM
  import back to the same tree; `pem` checks that round trip.
- The refinement mapping is `body <- tbs`, `sig <- sigVal`,
  `view <- view` and `file <- file`. `CertObject`'s `Export` writes the
  current body and signature or nothing. Queries, and calls that fail
  before changing anything (an unknown hash, a rejected key), are
  stuttering steps of `CertObject`. A `resignWith` that fails on an
  unparsable validity is not: it replaces the signature and only some
  derived fields (finding 7). So `AbsSpec` is checked with validity values
  that all parse, and `cert_resign_partial` shows what the other case
  breaks.
- `BadDate` stands for a `notBefore` or a `notAfter` that raises; the
  modelled fields end the same either way. `PubKey(raw(spki))` (line 785)
  does not raise in the model, since every key of `Keys` imports.

## 4. Runs

| Run | Module / cfg | Expect | What it shows |
|---|---|---|---|
| `chain_build` | `MC_CertChain` / `CertChain.cfg` | pass | The builder always returns a chain its docstring allows: anchored, linked, maximal (`BuildsAllowedChain`). It takes nothing from the caller's list that it does not put in the chain (`PoolConserved`), and terminates. The pool holds two certificates and a CRL, `c3`. |
| `chain_verify` | `MC_ChainVerify` / `ChainVerify.cfg` | pass | `None` is never returned when some anchor's chain passes every check of spec section 4.4 (`NoFalseRejection`). |
| `chain_verify_bypass` | `MC_ChainVerify` / `ChainVerifyBypass.cfg` | violation | `verifyChain` returns a chain whose only certificate of `self` is its anchor: the anchor is appended twice, and the copy passes both the "anchor only" test and the untrusted-only test. |
| `chain_verify_expired` | `MC_ChainVerify` / `ChainVerifyExpired.cfg` | violation | A chain whose last certificate is expired is returned as trusted. |
| `chain_verify_raise` | `MC_ChainVerify` / `ChainVerifyRaise.cfg` | violation | A certificate with an unknown signature OID in `self + untrusted` makes `verifyChain` raise, although another anchor has a passing chain without it. |
| `revocation` | `MC_Revocation` / `Revocation.cfg` | pass | Every imported revocation list equals its tree's serials in order, with nothing carried over from the CRL imported before it (`RevokedListFaithful`). |
| `revocation_akid` | `MC_Revocation` / `RevocationAkid.cfg` | violation | A certificate with an AKID makes `isRevoked` raise, even against a CRL with the same AKID that lists it. |
| `pem` | `MC_CALoad` / `CALoad.cfg` | pass | A text of `der2pem` blocks (LF or CRLF), with lines around them, imports as the blocks' DER strings joined in order (`BundleDecodes`). `verifyChainFromCAPath` reaches `verifyChain` only with one anchor per directory file, in listing order (`CapathAllOrNothing`, spec section 6). |
| `key_resolve` | `KeyResolve` / `KeyResolve.cfg` | pass | The factories give the class of the first form in the priority order. They raise only when no form fits or the material cannot be imported. |
| `key_variant` | `KeyResolve` / `KeyResolveVariant.cfg` | violation | A returned key object has no handle, or one that does not match its variant. |
| `cert_lifecycle` | `MC_CertLifecycle` / `CertLifecycle.cfg` | pass | Over any sequence of edits, sets, re-signs, exports and `isSelfSigned` calls, with validity values that all parse, the object answers as its export would (`SelfSignedMatchesExport`). It implements `CertObject` (`AbsSpec`): a re-sign replaces signature and derived fields together or changes nothing, and `export` writes the live tree, never one rebuilt from the cached fields. |
| `cert_resign_partial` | `MC_CertLifecycle` / `CertLifecycleResign.cfg` | violation | A `resignWith` that raises on a bad validity leaves a half-updated object, which later claims a self-signature its export lacks. |

Bounds:

- **`chain_build`.** 3 certificates and 3 labels, with every subject and
  issuer assignment (729 relations). Every `certList` of length at most 3,
  with repetitions, and every `cert0`. `c3` is always a CRL, so the
  certificates are `c1` and `c2`. This covers a root and a certificate it
  issued, two certificates issued by the same one (so two ways to extend),
  two self-signed roots, a certificate issued by nobody in the pool, and the
  same object twice in the pool (as in `self + untrusted`). A chain of
  three certificates is checked by `chain_verify`, whose builder is the
  same algorithm. The CRL's issuer name hash equals that of `l1` and `l2`,
  so the raising issuer check is reached. `c2` has a known or an unknown
  signature OID. About 700 000 states, in under a minute.
- **`chain_verify`.** 3 certificates with labels 1..4. Inputs are taken up
  to renaming of certificates and labels (see `MC_ChainVerify`):
  - subject labels are numbered in order of first use;
  - the anchor list is `<<c1>>` or `<<c1, c2>>`.

  Every input of 3 certificates is a renaming of one of these inputs, so the
  reduction is sound. Other inputs:
  - every expiry assignment;
  - `self` built from every list of distinct certificates, with and without
    `cert0`;
  - `untrusted` of at most one certificate (an untrusted-only chain, or a certificate of `self` repeated in the pool);
  - no certificate, or `c3`, with an unknown signature OID. `c3` is the
    certificate whose subject label is used last, so it can be the
    untrusted one, a leaf of `self` or a second root.

  About 1 570 000 states, in about a minute.

- **`revocation`.** Two issuer names, one key identifier, and two serials.
  Up to 2 CRLs of up to 2 entries each. Header dates and entry dates are
  each good or bad. This covers
  two CRLs of the same issuer, a serial in one and not the other, and
  duplicate entries. About 600 000 states.
- **`pem`.** Two data values, DER strings of at most one line, and up to 3
  segments. That is enough for two blocks with text between, a stray END
  before a BEGIN, a truncated block, and CRLF. `MaxSize` is 12 tokens: one
  block takes 6 tokens (9 with CRLF). Two LF blocks (12) fit; an LF block
  and a CRLF block (15), or two blocks and a line, do not, so both outcomes
  of the size check occur. Each input is a file, bytes or
  `None`. The CA loaders take a cafile or directory of up to
  `MaxCaSegs` = 2 segments (two blocks, a block and a stray line, a DER
  file, a BEGIN without END), and `untrusted_file` absent, unreadable, a
  truncated block or a block of each DER. About 470 000 states in
  10 seconds.
- **`key_resolve`.** Exhaustive over every call form, every set of
  private-key forms (32), every public-key form, and both library outcomes.
  3 044 states.
- **`cert_lifecycle`.** Two keys, two serials and two `notAfter` values,
  with AKID present or not. Hash OID known or not, and issuer and subject
  equal or not. Every initial file whose signature is over its own body,
  and every sequence of calls, including exports with each `fmt` to a
  `.pem` and another name: about 300 000 states. A re-sign with the
  other key, a set back to an earlier key, and an edit between set and
  re-sign all occur. `cert_resign_partial` swaps the second date for one
  that does not parse.
  The run starts from files whose signature is over their own body. TLC
  also finds a trace from a file exported after a set without `resignWith`,
  whose signature is over another body. A later set that restores the
  signed body makes `isSelfSigned` answer `True` with the stale `pubKey`,
  while the export is not self-signed. That trace is the stale-`pubKey`
  hazard at line 849, kept in `PROJECT.json`.

Fairness: `WF_vars(Next)`. The constructor is a plain loop in one thread, so
it keeps taking steps until it returns. No other actor exists. The
`Returned` step lets a finished call stutter, so deadlock checking stays on:
a state where the loop can neither continue nor exit would be reported.
`Revocation`, `PemCodec`, `CALoad` and `KeyResolve` use the same fairness
for the same reason. Each models one synchronous call, which ends by
returning or raising, followed by a stuttering `Finished` (or
`CAFinished`) step. `CertLifecycle` has no
fairness and no liveness property. Its steps are calls a user may or may
not make, and some call is always possible, so it never deadlocks.
Termination of `verifyChain` is not a separate run. Its loop index only
grows and is bounded by `len(anchors)`, and liveness checking over 277
thousand initial states costs more than the run budget.

## 5. Findings

1. **An expired last certificate is accepted** (`cert.py:1122-1126`; run
   `chain_verify_expired`). The date walk is
   `for c in chain: if c.remainingDays() < 0: break`, followed by
   `if c is chain[-1]: return chain`. The loop variable also equals
   `chain[-1]` when the loop breaks *on* the last certificate, or on any
   object that is also the last. TLC's trace is the second kind:
   `self = Chain([c1])` with `c1` self-signed and expired,
   `untrusted = [c1]` and `anchors = [c1]`. The call returns `[c1, c1, c1]`:
   the walk breaks on `chain[0]`, which is the object `chain[-1]`. The
   first kind, `[root, intermediate, leaf]` with an expired leaf, follows
   from the same test; TLC reports only the shortest trace.
2. **The anchor alone passes as a trust path** (`cert.py:1086-1087, 1117,
   1121`; run `chain_verify_bypass`). `cert0` is appended but not removed
   from `certList`. When it is self-signed and also in the list, the first
   pass appends it again, so `Chain(self + untrusted, a)` starts `[a, a, ...]`
   whenever `a` is in `self`. Then `len(chain) == 1` is false and
   `chain[1:]` holds `a`, a certificate of `self`, so neither test skips
   the chain. TLC's trace: `self = Chain([c1])` with `c1` self-signed,
   `anchors = [c1]`, and `verifyChain` returns `[c1, c1]`. Spec section 4.4
   says the anchor alone proves nothing (step 2) and that a chain must use
   the certificate under test (step 3); spec section 8 says the builder
   never appends a certificate twice. In the ordinary call
   `Chain([leaf, inter, root]).verifyChain([root])` the same duplicate
   makes the returned chain `[root, root, inter, leaf]`.
3. **`isRevoked` raises for every certificate with an AKID**
   (`cert.py:916`; run `revocation_akid`). `CRL.import_from_asn1pkt` never
   sets `authorityKeyID`, so `c.authorityKeyID` raises `AttributeError`
   whenever `self.authorityKeyID` is not `None`. Spec section 8 scenario 3
   says a matching AKID that lists the serial makes the certificate revoked.
4. **Not all CRLs are checked** (`cert.py:918-920`; no run). The loop
   returns at the first CRL of the issuer, whether or not it lists the
   serial; `Revocation` models that return (`CheckReturn`). The docstring
   says "_all_ CRLs are checked". Spec section 4.3 says both "first
   matching-AKID CRL decides" and "any matching CRL that lists the serial
   marks it revoked". No run states the docstring's claim: the runs are
   spent on the findings above and below.
5. **A CRL can never end a chain** (`cert.py:1048`; no run).
   `CRL.isIssuerCert` calls `other.pubKey.verifyCert(self)`, which reads
   `self.tbsCertificate`, an attribute a CRL lacks. So the growth loop
   raises on a CRL whose issuer hash matches the tail (`GrowRaises`, fired
   in `chain_build`), whereas the docstring says the trailing element may
   be a CRL. For the same reason `CRL.verify` cannot return `True`.
6. **Key objects inconsistent with their variant** (`cert.py:420, 502, 699,
   707`; run `key_variant`). The trace TLC shows is `PubKeyEdDSA()`, which
   generates an X25519 key. Restricting the property to keys read from a file
   gives two more traces:
   - `PrivKeyEdDSA`'s pubkey is a `PubKeyECDSA` holding an EdDSA key;
   - without the cryptography library, `PrivKey(path)` returns an object
     with no key (the `ImportError` swallowed at line 502). Spec section 4.2
     step 6 says that failure propagates.
7. **A failed re-sign leaves a half-updated certificate** (`cert.py:767`;
   run `cert_resign_partial`). `import_from_asn1pkt` replaces `x509Cert`,
   the serial and the name hashes, and resets `authorityKeyID`. Only then
   does it parse the validity and raise. `pubKey`, `signatureValue`, the
   dates and the extensions stay those of the old tree. TLC's trace:
   1. set an unparsable `notAfter`;
   2. `resignWith(k1)` raises;
   3. restore the date;
   4. `isSelfSigned()` is `True`, while `Cert(der)` of the export is not
      self-signed.

   Spec section 3 says derived fields are recomputed whenever the tree is
   replaced.
8. **An unknown signature algorithm aborts verification** (`cert.py:280`;
   run `chain_verify_raise`). `verifyCert` looks up `hash_by_oid` before it
   checks anything, so a certificate with an algorithm missing from the
   table raises `KeyError` from `isIssuerCert` once its issuer hash
   matches the tail. The raise leaves `Chain(...)` and `verifyChain`
   before later anchors are tried. TLC's trace: `self = [c1]`,
   `anchors = [c1, c2]`, `untrusted = [c3]` with such an algorithm and
   issuer `c1`. The call raises, while anchor `c2` gives the passing chain
   `[c2, c1]`. Spec section 4.4 step 5 and section 7 say that failing to find a trust
   path is a normal return value, never an exception.

Also observed while modelling, and kept in `PROJECT.json` as hazards without
a standing run:

- `pem2der` misses a second BEGIN when the first marker does not end its
  line.
- The CRL import parses `thisUpdate`, `nextUpdate` and every
  `revocationDate` with `strptime(val, "%y%m%d%H%M%S")`. That format
  consumes at most 12 digits, so a GeneralizedTime (14 digits, used for
  dates from 2050) can never be imported (`cert.py:1004`). `Cert` parses
  the same encoding through `.datetime`.
- `verifyChainFromCAFile` finds anchors only through `split_pem`: a DER
  cafile gives no anchors and the call returns `None`, as if no anchor
  matched. `verifyChainFromCAPath` reads each file whole and passes the
  bytes to `Cert`, whose maker then skips the size check, so the
  directory's files are not held to `_MAX_CERT_SIZE` (spec section 6 says
  they are). `CALoad` reaches both; neither is a separate run.
- `verifyChainFromCAPath` takes its anchors in `os.listdir` order. Together
  with finding 8, the same directory can make the call return a chain or
  raise, depending on the listing order (the order of `anchors` in
  `ChainVerify`).
- The PEM marker of a bare RSA public key (`RSA PUBLIC KEY`) or of an EC
  private key (`EC PRIVATE KEY`) does not name the SPKI/PKCS8 DER that `pem`
  wraps.

## 6. Not modelled, and why

- ASN.1 parsing and the cryptographic primitives are outside `src/` and are
  black boxes. A signature check is an equality of labels, and parsing is a
  choice of which forms succeed.
- Key `sign`/`verify`/`encrypt` call the crypto provider. In
  `CertLifecycle` a signature is the pair (signer, body signed).
  `getSignatureHash`, `Cert.verify` and `Cert.encrypt` only pass the cached
  `pubKey` to the provider.
- File contents and names are abstracted: a file is its token text in
  `PemCodec` and its tree in `CertLifecycle`. `PubKey.export` and
  `PrivKey.export` are the same code as `Cert.export` over a key's DER and
  are not modelled again.
- An export with an unknown `fmt` empties the file and returns `None`
  without an error, although spec section 6 says `export` writes DER or
  PEM. `CertLifecycle` reaches that state; no run states the spec's claim,
  since it would take a run of its own for a divergence a unit test also
  shows.
- `_PKIObjMaker` checks the size with `os.path.getsize` and then reads the
  whole file, so a file that grows in between is read past the limit
  (`cert.py:168`). That needs a second process writing the file, which no
  code of `cert.py` has, so `PemCodec` reads the file in one step.
- `show`, `__repr__` and the `*_str`/`*_simple` strings are formatting.
- Time arithmetic in `remainingDays` (`mktime` of a UTC tuple) is numeric
  detail outside TLC's reach. Only its sign is modelled, as `expired`.
- Python `hash()` collisions between different name strings are not
  modelled.
