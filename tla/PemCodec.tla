------------------------------ MODULE PemCodec ------------------------------
(***************************************************************************)
(* The PEM handling of scapy/layers/tls/cert.py: der2pem, pem2der,        *)
(* split_pem and the format detection of _PKIObjMaker.__call__, which      *)
(* splits a PEM text into objects, decodes each with pem2der and joins     *)
(* the DER strings.                                                        *)
(*                                                                         *)
(* A text is a sequence of tokens, cut where the searches of the code     *)
(* (find/rfind of "-----BEGIN", "-----END", "\n", "-----\n", "-----") can  *)
(* stop: BEGIN and END stand for a whole "-----BEGIN X-----" and          *)
(* "-----END X-----" marker, NL and CR for "\n" and "\r", and a member of  *)
(* Data for one 64-character line of base64.  A DER string is a sequence   *)
(* of Data: the 48 bytes one such line encodes.  b64decode drops what is   *)
(* not base64, so newlines vanish; the letters of a marker inside the     *)
(* decoded slice do not, and give bytes that are none of the payload       *)
(* (Garbled).                                                              *)
(***************************************************************************)
EXTENDS Naturals, Sequences, SequencesExt

CONSTANTS
  Data,      \* base64 lines / 48-byte DER blocks
  MaxDer,    \* longest DER payload of a block of the input
  MaxSegs,   \* most segments (blocks or lines) of an input text
  MaxSize    \* obj_max_size, in tokens

BEGIN == "BEGIN"
END == "END"
NL == "NL"
CR == "CR"
GARBLE == "GARBLE"

Tokens == {BEGIN, END, NL, CR} \cup Data
IsMarker(t) == t \in {BEGIN, END}

(* s.find(tok, from) on tokens: the index of the first tok at or after   *)
(* from, else 0.                                                           *)
FindFrom(s, tok, from) ==
  LET k == SelectInSeq(SubSeq(s, from, Len(s)), LAMBDA t : t = tok)
  IN IF k = 0 THEN 0 ELSE k + from - 1

-----------------------------------------------------------------------------
(* der2pem(der): header line, the base64 joined by "\n" in 64-character   *)
(* lines, and the footer line, each marker followed by "\n".              *)
Der2Pem(x) ==
  <<BEGIN, NL>>
    \o FlattenSeq([i \in 1..Len(x) |-> IF i < Len(x) THEN <<x[i], NL>> ELSE <<x[i]>>])
    \o <<NL, END, NL>>

(* pem2der, after pem_string.replace(b"\r", b"").                          *)
Strip(p) == SelectSeq(p, LAMBDA t : t # CR)

(* first_idx = find(b"-----\n") + 6: the token after the first marker     *)
(* that ends a line; 0 when there is none and first_idx = 5 falls inside  *)
(* the first token.                                                        *)
FirstIdx(p) ==
  LET hdr == {i \in 1..Len(p) - 1 : IsMarker(p[i]) /\ p[i + 1] = NL}
  IN IF hdr = {} THEN 0 ELSE Min(hdr) + 2

(* find(b"-----BEGIN", first_idx) != -1: the one-object check. *)
TwoObjects(p) ==
  \E i \in (IF FirstIdx(p) = 0 THEN 2 ELSE FirstIdx(p))..Len(p) : p[i] = BEGIN

(* Mutant: last_idx = rfind(b"-----"), the end of the last marker. *)
LastIdxOuter(p) ==
  LET ms == {i \in 1..Len(p) : IsMarker(p[i])}
  IN IF ms = {} THEN 0 ELSE Max(ms) + 1

(* last_idx = rfind(b"-----", 0, rfind(b"-----")): the start of the last  *)
(* marker, each marker holding "-----" at both ends; 0 for none (-1).     *)
LastIdx(p) ==
  LET ms == {i \in 1..Len(p) : IsMarker(p[i])}
  IN IF ms = {} THEN 0 ELSE Max(ms)

(* pem_string[first_idx:last_idx] as tokens; when first_idx falls inside  *)
(* the first token the slice starts with the rest of that marker.         *)
Slice(p) ==
  IF FirstIdx(p) = 0
  THEN IF LastIdx(p) >= 1 THEN <<p[1]>> \o SubSeq(p, 2, LastIdx(p) - 1) ELSE <<>>
  ELSE SubSeq(p, FirstIdx(p), LastIdx(p) - 1)

(* b64decode of the slice: some of it is the letters of a marker. *)
Garbled(p) == \E i \in 1..Len(Slice(p)) : IsMarker(Slice(p)[i])
Payload(p) == SelectSeq(Slice(p), LAMBDA t : t \in Data)

(* The DER string pem2der returns for p when it does not raise: the       *)
(* payload, or, when marker letters are decoded, bytes that are not it.   *)
(* In that case it may raise instead (binascii.Error, e.g. on padding).   *)
Pem2Der(p) ==
  IF Garbled(Strip(p)) THEN <<GARBLE>> \o Payload(Strip(p)) ELSE Payload(Strip(p))
Pem2DerMayRaise(p) == TwoObjects(Strip(p)) \/ Garbled(Strip(p))

-----------------------------------------------------------------------------
(* split_pem(s) as one operator: the pieces, and ok = FALSE when it       *)
(* raises "missing END tag".  Each pass cuts at least one token, so the    *)
(* recursion ends.                                                         *)
RECURSIVE SplitPem(_)
SplitPem(t) ==
  IF t = <<>> \/ ~Contains(t, BEGIN) THEN [ok |-> TRUE, pieces |-> <<>>]
  ELSE IF ~Contains(t, END) THEN [ok |-> FALSE, pieces |-> <<>>]
  ELSE LET start == SelectInSeq(t, LAMBDA x : x = BEGIN)
           n == FindFrom(t, NL, SelectInSeq(t, LAMBDA x : x = END))
           endIdx == IF n = 0 THEN Len(t) + 1 ELSE n + 1
           rest == SplitPem(SubSeq(t, endIdx, Len(t)))
       IN [ok |-> rest.ok, pieces |-> <<SubSeq(t, start, endIdx - 1)>> \o rest.pieces]

(* What _PKIObjMaker makes of the data _raw: the DER, or a raise.  A      *)
(* piece with two objects always raises, a garbled one may.               *)
MakerRaised == [ok |-> FALSE, der |-> <<>>]
MakerResults(r) ==
  IF ~Contains(r, BEGIN) THEN {[ok |-> TRUE, der |-> r]}
  ELSE LET ps == SplitPem(r).pieces
           joined == FlattenSeq([i \in 1..Len(ps) |-> Pem2Der(ps[i])])
       IN IF ~SplitPem(r).ok \/ \E i \in 1..Len(ps) : TwoObjects(Strip(ps[i]))
          THEN {MakerRaised}
          ELSE {[ok |-> TRUE, der |-> joined]}
                 \cup (IF \E i \in 1..Len(ps) : Garbled(Strip(ps[i]))
                       THEN {MakerRaised} ELSE {})

-----------------------------------------------------------------------------
(* The inputs: texts made of at most MaxSegs segments, each a block as     *)
(* der2pem writes it (with "\n" or "\r\n" line ends), or a line of up to   *)
(* two tokens with or without its "\n" (text around blocks, stray or       *)
(* doubled markers, truncated blocks).                                     *)
CRLF(t) == FlattenSeq([i \in 1..Len(t) |-> IF t[i] = NL THEN <<CR, NL>> ELSE <<t[i]>>])
DERs == SeqOf(Data, MaxDer)
Blocks == {Der2Pem(x) : x \in DERs} \cup {CRLF(Der2Pem(x)) : x \in DERs}
TextLines ==
  LET ls == SeqOf({BEGIN, END} \cup Data, 2) \ {<<>>}
  IN {Append(l, NL) : l \in ls} \cup {<<t>> : t \in {BEGIN, END} \cup Data}
Segments == Blocks \cup TextLines

VARIABLES
  src,     \* obj_path: "none", a path to a "file", or "bytes" taken as data
  segs,    \* the segments of the input text (the file's content for a path)
  raw,     \* _raw: the bytes read or passed
  frmt,    \* "PEM", "DER", or "none" before detection
  s,       \* the text split_pem has left to scan
  pieces,  \* pem_strings
  k,       \* index of the piece map(pem2der, ...) is at
  der,     \* the joined DER
  pc       \* "open", "read", "detect", "split", "decode", "done", "raised"

vars == <<src, segs, raw, frmt, s, pieces, k, der, pc>>

Text == FlattenSeq(segs)

TypeOK ==
  /\ src \in {"none", "file", "bytes"}
  /\ segs \in Seq(Seq(Tokens)) /\ raw \in Seq(Tokens)
  /\ frmt \in {"PEM", "DER", "none"}
  /\ s \in Seq(Tokens) /\ pieces \in Seq(Seq(Tokens))
  /\ k \in Nat
  /\ der \in Seq(Tokens \cup {GARBLE})
  /\ frmt = "PEM" => der \in Seq(Data \cup {GARBLE})
  /\ pc \in {"open", "read", "detect", "split", "decode", "done", "raised"}

Init ==
  /\ src \in {"none", "file", "bytes"}
  /\ segs \in SeqOf(Segments, MaxSegs)
  /\ raw = <<>>
  /\ frmt = "none" /\ s = <<>> /\ pieces = <<>> /\ k = 1 /\ der = <<>>
  /\ pc = "open"

(* obj_path is None: "Unable to import data". *)
PathNone ==
  /\ pc = "open" /\ src = "none"
  /\ pc' = "raised"
  /\ UNCHANGED <<src, segs, raw, frmt, s, pieces, k, der>>

(* Not a file name (or holds a NUL byte): _raw = obj_path, no size check. *)
UseBytes ==
  /\ pc = "open" /\ src = "bytes"
  /\ raw' = Text /\ pc' = "detect"
  /\ UNCHANGED <<src, segs, frmt, s, pieces, k, der>>

(* _size = os.path.getsize(obj_path); _size > obj_max_size raises. *)
SizeTooLarge ==
  /\ pc = "open" /\ src = "file" /\ Len(Text) > MaxSize
  /\ pc' = "raised"
  /\ UNCHANGED <<src, segs, raw, frmt, s, pieces, k, der>>

SizeFits ==
  /\ pc = "open" /\ src = "file" /\ Len(Text) <= MaxSize
  /\ pc' = "read"
  /\ UNCHANGED <<src, segs, raw, frmt, s, pieces, k, der>>

(* open or f.read fails: "Unable to import data". *)
ReadFails ==
  /\ pc = "read"
  /\ pc' = "raised"
  /\ UNCHANGED <<src, segs, raw, frmt, s, pieces, k, der>>

(* _raw = f.read(): the whole file as it is now. *)
ReadFile ==
  /\ pc = "read"
  /\ raw' = Text /\ pc' = "detect"
  /\ UNCHANGED <<src, segs, frmt, s, pieces, k, der>>

(* b"-----BEGIN" not in _raw: the bytes are taken as DER. *)
DetectDER ==
  /\ pc = "detect" /\ ~Contains(raw, BEGIN)
  /\ frmt' = "DER" /\ der' = raw /\ pc' = "done"
  /\ UNCHANGED <<src, segs, raw, s, pieces, k>>

(* Otherwise PEM: split_pem(pem) starts on the whole text. *)
DetectPEM ==
  /\ pc = "detect" /\ Contains(raw, BEGIN)
  /\ frmt' = "PEM" /\ s' = raw /\ pc' = "split"
  /\ UNCHANGED <<src, segs, raw, pieces, k, der>>

(* while s != b"": ... if start_idx == -1: break *)
SplitBreak ==
  /\ pc = "split"
  /\ s = <<>> \/ ~Contains(s, BEGIN)
  /\ pc' = "decode"
  /\ UNCHANGED <<src, segs, raw, frmt, s, pieces, k, der>>

(* end_idx == -1: "missing END tag", turned into "Unable to import data". *)
SplitMissingEnd ==
  /\ pc = "split" /\ s # <<>> /\ Contains(s, BEGIN)
  /\ ~Contains(s, END)
  /\ pc' = "raised"
  /\ UNCHANGED <<src, segs, raw, frmt, s, pieces, k, der>>

(* One pass: the piece runs from the first BEGIN to the end of the line   *)
(* of the first END of s (searched from the start of s, not from the      *)
(* BEGIN), or to the end of s; s keeps what follows.                       *)
SplitPiece ==
  /\ pc = "split" /\ s # <<>> /\ Contains(s, BEGIN) /\ Contains(s, END)
  /\ LET start == SelectInSeq(s, LAMBDA t : t = BEGIN)
         n == FindFrom(s, NL, SelectInSeq(s, LAMBDA t : t = END))
         endIdx == IF n = 0 THEN Len(s) + 1 ELSE n + 1
     IN /\ pieces' = Append(pieces, SubSeq(s, start, endIdx - 1))
        /\ s' = SubSeq(s, endIdx, Len(s))
  /\ UNCHANGED <<src, segs, raw, frmt, k, der, pc>>

(* Mutant: the PEM pieces joined without pem2der. *)
DecodePieceUndecoded ==
  /\ pc = "decode" /\ k <= Len(pieces)
  /\ ~TwoObjects(Strip(pieces[k]))
  /\ der' = der \o pieces[k]
  /\ k' = k + 1
  /\ UNCHANGED <<src, segs, raw, frmt, s, pieces, pc>>

(* der = b''.join(map(pem2der, der_list)), one piece at a time. *)
DecodePiece ==
  /\ pc = "decode" /\ k <= Len(pieces)
  /\ ~TwoObjects(Strip(pieces[k]))
  /\ der' = der \o Pem2Der(pieces[k])
  /\ k' = k + 1
  /\ UNCHANGED <<src, segs, raw, frmt, s, pieces, pc>>

(* pem2der raises (two objects, or an undecodable slice). *)
DecodeRaises ==
  /\ pc = "decode" /\ k <= Len(pieces)
  /\ Pem2DerMayRaise(pieces[k])
  /\ pc' = "raised"
  /\ UNCHANGED <<src, segs, raw, frmt, s, pieces, k, der>>

DecodeDone ==
  /\ pc = "decode" /\ k > Len(pieces)
  /\ pc' = "done"
  /\ UNCHANGED <<src, segs, raw, frmt, s, pieces, k, der>>

Finished ==
  /\ pc \in {"done", "raised"}
  /\ UNCHANGED vars

Next ==
  \/ PathNone \/ UseBytes \/ SizeTooLarge \/ SizeFits
  \/ ReadFails \/ ReadFile
  \/ DetectDER \/ DetectPEM
  \/ SplitBreak \/ SplitMissingEnd \/ SplitPiece
  \/ DecodePiece \/ DecodeRaises \/ DecodeDone
  \/ Finished

Spec == Init /\ [][Next]_vars /\ WF_vars(Next)

-----------------------------------------------------------------------------
(* An input that is one or more blocks as der2pem writes them, with any   *)
(* complete lines of text between or around them that hold no BEGIN       *)
(* marker (comments, stray footers); only the last line may lack "\n".    *)
WellFormedBundle ==
  /\ \E i \in 1..Len(segs) : segs[i] \in Blocks
  /\ \A i \in 1..Len(segs) :
       \/ segs[i] \in Blocks
       \/ ~Contains(segs[i], BEGIN) /\ (Last(segs[i]) = NL \/ i = Len(segs))

BlockPayload(b) == CHOOSE x \in DERs : b = Der2Pem(x) \/ b = CRLF(Der2Pem(x))

(* Spec sections 4.2 and 7: a PEM bundle imports as the DER strings of     *)
(* its objects, joined in order (pem2der(der2pem(x)) = x for each); the   *)
(* text around them is ignored.  This checks split_pem's END search from  *)
(* the start of the text, the end-of-line cut, the CR stripping and the   *)
(* first_idx / last_idx arithmetic of pem2der together.  It applies once  *)
(* the text has been read (raw = Text).                                    *)
BundleDecodes ==
  (WellFormedBundle /\ raw = Text /\ pc \in {"done", "raised"})
    => /\ pc = "done" /\ frmt = "PEM"
       /\ der = FlattenSeq([i \in 1..Len(segs) |->
                   IF segs[i] \in Blocks THEN BlockPayload(segs[i]) ELSE <<>>])

=============================================================================
