---------------------------- MODULE SessionCodec ----------------------------
(***************************************************************************)
(* The binary codec of the dialogue-layer packets (src/packet/             *)
(* packet_sess.go): Session, SessionAck, Dismiss and DismissAck.  A sender *)
(* encodes a packet into a frame (14-byte header, then the payload whose   *)
(* length Encode patches into header bytes 10..13); the receiver reads the *)
(* header, then decodes the payload bytes it has, possibly fewer than the  *)
(* header declares.  The JSON tail (SessionData) is an opaque byte string: *)
(* the codec only copies it into and out of its slice.                     *)
(***************************************************************************)
EXTENDS Naturals, Sequences, SequencesExt, Bitwise

CONSTANTS
    Priorities,   \* SessionFlags.Priority values (uint8)
    Qoses,        \* SessionFlags.Qos values (4 bits)
    IDs,          \* NegotiateID / SessionID values (uint64, kept below 2^31)
    Blobs,        \* marshalled SessionData, as byte sequences
    MaxCut,       \* the most payload bytes the receiver may be short of
    ForgedLens    \* length fields a corrupted or hostile header may carry

Byte == 0..255
ASSUME Priorities \subseteq Byte /\ Qoses \subseteq 0..15 /\ IDs \subseteq Nat
ASSUME MaxCut \in Nat /\ ForgedLens \subseteq Nat
\* No proper prefix of a marshalled SessionData is itself one of them.
ASSUME \A b, c \in Blobs : Len(c) < Len(b) => c # SubSeq(b, 1, Len(c))

(* binary.BigEndian.PutUint64 / PutUint32 and Uint64 / Uint32.             *)
\* Mutant: the low byte stored without the byte(v) truncation.
RECURSIVE PutUintUntruncated(_, _)
PutUintUntruncated(n, width) ==
    IF width = 0 THEN <<>> ELSE PutUintUntruncated(n \div 256, width - 1) \o <<n>>

RECURSIVE PutUint(_, _)
PutUint(n, width) ==
    IF width = 0 THEN <<>> ELSE PutUint(n \div 256, width - 1) \o <<n % 256>>

Uint(bytes) == FoldLeft(LAMBDA acc, b : acc * 256 + b, 0, bytes)

\* data[from:to] of Go, with 0-based from and exclusive to.
Slice(data, from, to) == SubSeq(data, from + 1, to)

Types == {"Session", "SessionAck", "Dismiss", "DismissAck"}
TypeCode == [Session |-> 5, SessionAck |-> 6, Dismiss |-> 7, DismissAck |-> 8]

Packets ==
    [type : {"Session"}, priority : Priorities, qos : Qoses,
     acquire : BOOLEAN, negotiateID : IDs, data : Blobs]
    \cup [type : {"SessionAck"}, negotiateID : IDs, sessionID : IDs, data : Blobs]
    \cup [type : {"Dismiss", "DismissAck"}, sessionID : IDs, data : Blobs]

-----------------------------------------------------------------------------
(* Encode: the payload of each packet type.                                *)

\* pkt[1] |= byte(Qos) << 4 >> 4, then |= 0x10 when sessionIDAcquire.
FlagByte(p) ==
    ((p.qos * 16) % 256) \div 16 | (IF p.acquire THEN 16 ELSE 0)

\* SessionPacket.Encode: Priority, flags, NegotiateID, then the JSON.
EncodeSession(p) == <<p.priority, FlagByte(p)>> \o PutUint(p.negotiateID, 8) \o p.data

\* SessionAckPacket.Encode: two unused flag bytes, both ids, the JSON.
EncodeSessionAck(p) ==
    <<0, 0>> \o PutUint(p.negotiateID, 8) \o PutUint(p.sessionID, 8) \o p.data

\* DismissPacket.Encode and DismissAckPacket.Encode: SessionID, the JSON.
EncodeDismiss(p) == PutUint(p.sessionID, 8) \o p.data

EncodePayload(p) ==
    CASE p.type = "Session"    -> EncodeSession(p)
      [] p.type = "SessionAck" -> EncodeSessionAck(p)
      [] OTHER                 -> EncodeDismiss(p)

\* Mutant: the Session payload length counted without its two flag bytes.
EncodeFrameShortLength(p) ==
    LET payload == EncodePayload(p)
        len == IF p.type = "Session" THEN Len(payload) - 2 ELSE Len(payload)
    IN <<1, TypeCode[p.type], 0>> \o PutUint(0, 7) \o PutUint(len, 4) \o payload

\* PacketHeader.Encode (not in src/; spec section 3: version, type, flags,
\* packet id) and the payload, with hdr[10:14] = uint32(length).  The code
\* patches bytes 10..13 of a 14-byte header, so only 7 bytes remain for the
\* packet id the spec lists as 8 bytes wide; the id is left abstract here.
EncodeFrame(p) ==
    LET payload == EncodePayload(p) IN
    <<1, TypeCode[p.type], 0>> \o PutUint(0, 7) \o PutUint(Len(payload), 4) \o payload

-----------------------------------------------------------------------------
(* Decode: the receiver has read the header, whose length field is       *)
(* PacketLen, and hands the payload to the variant's Decode (a buffer of   *)
(* the bytes it has) or DecodeFromReader (a stream it io.ReadFull's).      *)

\* A decoder's error, as a record so that it compares with packets.
Err(e) == [err |-> e]
Incomplete == Err("ErrIncompletePacket")
\* Go's runtime panic on data[lo:hi] with hi < lo or hi beyond the slice.
Panic == Err("slice bounds out of range")
\* json.Unmarshal's error on bytes that are not a whole JSON object.
SyntaxError == Err("SyntaxError")
Errors == {Incomplete, Err("EOF"), Err("ErrUnexpectedEOF"), SyntaxError}

\* The fixed-width fields each variant slices before its JSON tail.
FixedLen == [Session |-> 10, SessionAck |-> 18, Dismiss |-> 8, DismissAck |-> 8]

\* json.Unmarshal(tail, snData): the decoded packet, or its error.
Unmarshal(p) == IF p.data \in Blobs THEN p ELSE SyntaxError

SessionFields(data, length) ==
    [type |-> "Session", priority |-> data[1], qos |-> data[2] & 15,
     acquire |-> (data[2] & 16) = 1,
     negotiateID |-> Uint(Slice(data, 2, 10)), data |-> Slice(data, 10, length)]

\* Mutant: the JSON tail taken up to the end of the buffer, data[8:],
\* instead of up to the declared length.
DismissFieldsWholeBuffer(type, data, length) ==
    [type |-> type, sessionID |-> Uint(Slice(data, 0, 8)),
     data |-> Slice(data, 8, Len(data))]

\* Mutant: SessionAck's SessionID read from the NegotiateID slice.
SessionAckFieldsWrongSlice(data, length) ==
    [type |-> "SessionAck", negotiateID |-> Uint(Slice(data, 2, 10)),
     sessionID |-> Uint(Slice(data, 2, 10)), data |-> Slice(data, 18, length)]

SessionAckFields(data, length) ==
    [type |-> "SessionAck", negotiateID |-> Uint(Slice(data, 2, 10)),
     sessionID |-> Uint(Slice(data, 10, 18)), data |-> Slice(data, 18, length)]

DismissFields(type, data, length) ==
    [type |-> type, sessionID |-> Uint(Slice(data, 0, 8)),
     data |-> Slice(data, 8, length)]

\* The fields after the length check, with Go's bounds checks on the
\* slices: a declared length shorter than the fixed fields panics.
Fields(type, data, length) ==
    CASE length < FixedLen[type] -> Panic
      [] type = "Session"        -> Unmarshal(SessionFields(data, length))
      [] type = "SessionAck"     -> Unmarshal(SessionAckFields(data, length))
      [] OTHER                   -> Unmarshal(DismissFields(type, data, length))

\* Decode: ErrIncompletePacket when fewer bytes than PacketLen are given.
Decode(type, data, length) ==
    IF Len(data) < length THEN Incomplete ELSE Fields(type, data, length)

\* io.ReadFull of PacketLen bytes: EOF if the stream has none,
\* ErrUnexpectedEOF if it has some but not all.
ReadFull(data, length) ==
    CASE length > 0 /\ Len(data) = 0 -> Err("EOF")
      [] Len(data) < length         -> Err("ErrUnexpectedEOF")
      [] OTHER                      -> Err("none")

DecodeFromReader(type, data, length) ==
    IF ReadFull(data, length) # Err("none") THEN ReadFull(data, length)
    ELSE Fields(type, SubSeq(data, 1, length), length)

\* PacketHeader decoding (not in src/; spec section 3): the type byte and
\* the length field, then the variant's decoder over the payload bytes.
DecodeFrame(frame, m) ==
    LET type == CHOOSE t \in Types : TypeCode[t] = frame[2]
        length == Uint(Slice(frame, 10, 14))
        data == Slice(frame, 14, Len(frame))
    IN IF m = "buffer" THEN Decode(type, data, length)
                       ELSE DecodeFromReader(type, data, length)

-----------------------------------------------------------------------------

VARIABLES
    sent,      \* the packet the sender encodes
    frame,     \* the bytes on the wire
    cut,       \* how many trailing payload bytes the receiver lacks
    received,  \* the decoded packet, or the decoder's error
    mode,      \* "buffer" (Decode) or "reader" (DecodeFromReader)
    declared,  \* the length field the receiver read from the header
    stage      \* "fields", "encoded", "decoded"

vars == <<sent, frame, cut, received, mode, declared, stage>>

\* The payload length Encode patched in, and whether the header carried
\* another one to the receiver.
PayloadLen == Len(frame) - 14
Forged == declared # PayloadLen

TypeOK ==
    /\ sent \in Packets
    /\ frame \in Seq(Byte)
    /\ cut \in 0..MaxCut
    /\ received \in Errors \cup {Panic} \cup Packets
    /\ mode \in {"buffer", "reader"}
    /\ declared \in Nat
    /\ stage \in {"fields", "encoded", "decoded"}

Init ==
    /\ sent \in Packets
    /\ frame = <<>>
    /\ cut = 0
    /\ received = Incomplete
    /\ mode = "buffer"
    /\ declared = 0
    /\ stage = "fields"

Encode ==
    /\ stage = "fields"
    /\ frame' = EncodeFrame(sent)
    /\ stage' = "encoded"
    /\ UNCHANGED <<sent, cut, received, mode, declared>>

\* The frame with another length in header bytes 10..13.
WithLength(fr, n) == Slice(fr, 0, 10) \o PutUint(n, 4) \o Slice(fr, 14, Len(fr))

\* The receiver decodes the frame, or a frame short of k payload bytes,
\* from a buffer or from a stream; its header may carry a forged length.
Receive ==
    /\ stage = "encoded"
    /\ \E k \in 0..MaxCut, m \in {"buffer", "reader"},
          n \in {PayloadLen} \cup ForgedLens :
         /\ k <= PayloadLen
         /\ cut' = k
         /\ mode' = m
         /\ declared' = n
         /\ received' = DecodeFrame(WithLength(SubSeq(frame, 1, Len(frame) - k), n), m)
    /\ stage' = "decoded"
    /\ UNCHANGED <<sent, frame>>

Next == Encode \/ Receive

Spec == Init /\ [][Next]_vars

-----------------------------------------------------------------------------
(* Properties.                                                             *)

\* Spec 8.1 for the fields the dialogue layer routes on: the ids, the
\* SessionData bytes, priority and qos survive encode and decode.  The
\* sessionIDAcquire flag is left out: Decode's (data[1] & 0x10) == 1 is
\* never true, the source bug spec 9 records.
IDsRoundTrip ==
    (stage = "decoded" /\ cut = 0 /\ ~Forged) =>
        /\ received \notin Errors \cup {Panic}
        /\ \A f \in DOMAIN sent \ {"acquire"} : received[f] = sent[f]

\* Spec 8.2: Encode patches the payload length into header bytes 10..13,
\* and a receiver short of any k > 0 payload bytes gets an error from
\* either decoder (ErrIncompletePacket from Decode), never a packet.
LengthFraming ==
    /\ stage \in {"encoded", "decoded"} =>
            Uint(Slice(frame, 10, 14)) = Len(frame) - 14
    /\ (stage = "decoded" /\ cut > 0 /\ ~Forged) =>
            received = IF mode = "buffer" THEN Incomplete
                       ELSE IF cut = Len(frame) - 14 THEN Err("EOF")
                       ELSE Err("ErrUnexpectedEOF")

\* Spec 7 (MalformedPacket, codec errors local to the packet) and 3.4: a
\* header whose length field disagrees with the payload decodes to an
\* error, never to a packet and never to a panic.  Decode compares the
\* declared length only with the bytes available, then slices its fixed
\* fields and hands data[fixed:length] to json.Unmarshal.
MalformedRejected == (stage = "decoded" /\ Forged) => received \in Errors
=============================================================================
