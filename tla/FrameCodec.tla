----------------------------- MODULE FrameCodec -----------------------------
(***************************************************************************)
(* The wire format of DDAL and the codec that cuts a byte stream into      *)
(* frames: magic, header, payload. Cells stand for runs of bytes: one for  *)
(* the magic, one for the rest of the header, one per unit of payload, and *)
(* a payload may happen to hold the magic. The stream arrives cell by cell *)
(* and a cell may be corrupted on its way. The checksum stands for what it *)
(* is computed from: collisions are left out.                              *)
(***************************************************************************)
EXTENDS Integers, Sequences, FiniteSets, SequencesExt

CONSTANTS
  Offered,      \* frames the application hands to the encoder, forged ones included
  MaxPayload,   \* MAX_PAYLOAD_SIZE, in cells
  MaxFrame,     \* max_frame_size of this codec, in cells
  MaxFrames,    \* bound on the frames encoded
  MaxFaults     \* bound on the cells corrupted

VARIABLES
  encoded,      \* history: the frames the encoder accepted
  wire,         \* cells that have not arrived
  buffer,       \* src: cells that have arrived and are not consumed
  decoded,      \* the frames decode has returned
  decodeError,  \* what the last decode complained of
  faults        \* cells corrupted so far

codecVars == <<encoded, wire, buffer, decoded, decodeError, faults>>

HeaderCells == 2
Magic == [cell |-> "magic"]
Junk == [cell |-> "junk"]

\* The checksum covers the header's fields and the payload.
ComputeChecksum(f) == <<f.minor, f.type, f.len, f.payload>>

\* Frame.new, and a frame whose public fields were changed afterwards.
FrameOf(type, payload) ==
  LET f == [minor |-> 1, type |-> type, len |-> Len(payload), payload |-> payload]
  IN f @@ [sum |-> ComputeChecksum(f)]

\* The same major version, and no newer minor one.
CompatibleVersion(minor) == minor <= 1
KnownType(type) == type \in {"data", "ping"}

CodecInit ==
  /\ encoded = <<>> /\ wire = <<>> /\ buffer = <<>> /\ decoded = <<>>
  /\ decodeError = "none" /\ faults = 0

-----------------------------------------------------------------------------
Encodable(f) ==
  /\ CompatibleVersion(f.minor)
  /\ Len(f.payload) <= MaxPayload /\ HeaderCells + Len(f.payload) <= MaxFrame
  /\ f.len = Len(f.payload)
  /\ f.sum = ComputeChecksum(f)

EncodeToBytes(f) ==
  <<Magic, [cell |-> "head", minor |-> f.minor, type |-> f.type, len |-> f.len, sum |-> f.sum]>>
    \o f.payload

Encode(f) ==
  /\ Len(encoded) < MaxFrames
  /\ Encodable(f)
  /\ encoded' = Append(encoded, f)
  /\ wire' = wire \o EncodeToBytes(f)
  /\ UNCHANGED <<buffer, decoded, decodeError, faults>>

\* What a damaged cell may read as.
Damaged(c) ==
  {Junk} \cup
  (IF c.cell = "head"
   THEN {[c EXCEPT !.len = @ + 1], [c EXCEPT !.type = "unknown"], [c EXCEPT !.minor = 0],
         [c EXCEPT !.minor = 2]}
   ELSE {})

Corrupt(i) ==
  /\ faults < MaxFaults
  /\ \E c \in Damaged(wire[i]) : wire' = [wire EXCEPT ![i] = c]
  /\ faults' = faults + 1
  /\ UNCHANGED <<encoded, buffer, decoded, decodeError>>

Arrive ==
  /\ wire # <<>>
  /\ buffer' = Append(buffer, Head(wire)) /\ wire' = Tail(wire)
  /\ UNCHANGED <<encoded, decoded, decodeError, faults>>

-----------------------------------------------------------------------------
(* decode, called after every arrival until it has nothing to return *)

\* align_to_magic drops cells until the first is the magic.
Aligned(buf) ==
  LET at == {i \in DOMAIN buf : buf[i] = Magic}
  IN IF at = {} THEN <<>> ELSE SubSeq(buf, CHOOSE i \in at : \A j \in at : i <= j, Len(buf))

\* validate_header and the codec's own limit: what follows the magic is read
\* as a header, whatever it is.
HeaderError(h) ==
  IF h.cell # "head" THEN "header"
  ELSE IF ~CompatibleVersion(h.minor) THEN "version"
  ELSE IF ~KnownType(h.type) THEN "type"
  ELSE IF h.len > MaxPayload THEN "payload"
  ELSE IF HeaderCells + h.len > MaxFrame THEN "too large"
  ELSE "none"

FrameIn(buf) ==
  [minor |-> buf[2].minor, type |-> buf[2].type, len |-> buf[2].len, sum |-> buf[2].sum,
   payload |-> SubSeq(buf, HeaderCells + 1, HeaderCells + buf[2].len)]

\* Mutant: the checksum is not compared.
Intact_Any(f) == TRUE

Intact(f) == f.sum = ComputeChecksum(f)

\* Mutant: the length of the payload is taken for that of the frame.
FrameLength_NoHeader(h) == h.len

FrameLength(h) == HeaderCells + h.len

\* An unreadable header stays in the buffer; a frame with a wrong checksum is
\* consumed.
Decode ==
  LET buf == Aligned(buffer) IN
  /\ IF Len(buf) < HeaderCells
     THEN buffer' = buf /\ UNCHANGED <<decoded, decodeError>>
     ELSE IF HeaderError(buf[2]) # "none"
     THEN buffer' = buf /\ decodeError' = HeaderError(buf[2]) /\ UNCHANGED decoded
     ELSE IF Len(buf) < HeaderCells + buf[2].len
     THEN buffer' = buf /\ UNCHANGED <<decoded, decodeError>>
     ELSE /\ buffer' = SubSeq(buf, FrameLength(buf[2]) + 1, Len(buf))
          /\ IF Intact(FrameIn(buf))
             THEN decoded' = Append(decoded, FrameIn(buf)) /\ UNCHANGED decodeError
             ELSE decodeError' = "checksum" /\ UNCHANGED decoded
  /\ UNCHANGED <<encoded, wire, faults>>

CodecNext ==
  \/ \E f \in Offered : Encode(f)
  \/ \E i \in DOMAIN wire : Corrupt(i)
  \/ Arrive \/ Decode

CodecSpec == CodecInit /\ [][CodecNext]_codecVars

-----------------------------------------------------------------------------
(***************************************************************************)
(* What comes out was put in: the frames decoded are among those encoded,  *)
(* in the order they were encoded, each at most as often, however the      *)
(* stream was cut and wherever it was damaged or happened to hold the      *)
(* magic.                                                                  *)
(***************************************************************************)
DecodedWereEncoded ==
  \E pick \in SUBSET DOMAIN encoded : decoded = [i \in 1..Cardinality(pick) |->
    encoded[CHOOSE k \in pick : Cardinality({j \in pick : j <= k}) = i]]

(***************************************************************************)
(* On an undamaged stream nothing is lost or stuck: the bytes in the       *)
(* buffer and on the wire are exactly those of the frames not decoded yet, *)
(* and decode never complains.                                             *)
(***************************************************************************)
UndamagedComplete ==
  faults = 0 =>
    /\ decodeError = "none"
    /\ Len(decoded) <= Len(encoded) /\ decoded = SubSeq(encoded, 1, Len(decoded))
    /\ buffer \o wire =
         FoldLeft(LAMBDA bytes, f : bytes \o EncodeToBytes(f), <<>>,
                  SubSeq(encoded, Len(decoded) + 1, Len(encoded)))

(***************************************************************************)
(* Over a damaged stream the decoder finds no frame that was not sent, and *)
(* every one that was not touched.                                         *)
(***************************************************************************)
CodecSound == DecodedWereEncoded /\ UndamagedComplete
=============================================================================
