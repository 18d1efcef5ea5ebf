----------------------------- MODULE JanusRtpCodec -----------------------------
(***************************************************************************)
(* The RTP header codec of rtp.h: the fixed header (rtp_header), the       *)
(* location of the payload (janus_rtp_payload) and the walk over the       *)
(* RFC 5285 header extension block, in its one-byte (0xBEDE) and two-byte  *)
(* (0x100X) forms, behind the janus_rtp_header_extension_parse_* helpers,  *)
(* one of which copies the rtp-stream-id into a buffer of the caller's.    *)
(* A packet is a sequence of bytes (0..255, big-endian on the wire).       *)
(* The operators are checked against a reference: packets are built by an *)
(* encoder from a small description, and what the parser reads back must  *)
(* be what the description says (spec invariant I3).                       *)
(***************************************************************************)
EXTENDS Naturals, Sequences, SequencesExt, Bitwise

CONSTANTS
    LevelId,   \* extmap id negotiated for ssrc-audio-level
    TwccId,    \* extmap id negotiated for transport-wide-cc
    OrientId,  \* extmap id negotiated for video-orientation
    DelayId,   \* extmap id negotiated for playout-delay
    RidId,     \* extmap id negotiated for rtp-stream-id
    MaxSdesLen, \* bound on sdes_len, the size of the caller's id buffer
    MaxElems   \* bound on the elements of one extension block

Ids == <<LevelId, TwccId, OrientId, DelayId, RidId>>

ASSUME \A i \in 1..5 : Ids[i] \in 1..14
ASSUME \A i, j \in 1..5 : i # j => Ids[i] # Ids[j]
ASSUME MaxSdesLen >= 1

RTP_HEADER_SIZE == 12

(* Result of a lookup: the element's data, or not found (-1).              *)
Found(d) == [found |-> TRUE, data |-> d]
Missing == [found |-> FALSE, data |-> <<>>]

U16(buf, i) == buf[i] * 256 + buf[i + 1]
-----------------------------------------------------------------------------
(* Variant that reads the payload type without masking the marker bit.     *)
ParseHeaderNoMask(buf) ==
    [version |-> shiftR(buf[1], 6), padding |-> (buf[1] & 32) # 0,
     extension |-> (buf[1] & 16) # 0, csrccount |-> buf[1] & 15,
     markerbit |-> shiftR(buf[2], 7), type |-> buf[2],
     seq_number |-> U16(buf, 3), timestamp |-> SubSeq(buf, 5, 8),
     ssrc |-> SubSeq(buf, 9, 12)]

(* rtp_header: the bit fields of the first 12 bytes.                       *)
ParseHeader(buf) ==
    [version |-> shiftR(buf[1], 6), padding |-> (buf[1] & 32) # 0,
     extension |-> (buf[1] & 16) # 0, csrccount |-> buf[1] & 15,
     markerbit |-> shiftR(buf[2], 7), type |-> buf[2] & 127,
     seq_number |-> U16(buf, 3), timestamp |-> SubSeq(buf, 5, 8),
     ssrc |-> SubSeq(buf, 9, 12)]

(* Variant that does not take the trailing padding off the payload.        *)
RtpPayloadWithPadding(buf) ==
    IF Len(buf) < RTP_HEADER_SIZE THEN Missing
    ELSE LET h == ParseHeader(buf)
             csrcEnd == RTP_HEADER_SIZE + 4 * h.csrccount
             hlen == IF ~h.extension THEN csrcEnd
                     ELSE IF Len(buf) < csrcEnd + 4 THEN Len(buf) + 1
                     ELSE csrcEnd + 4 + 4 * U16(buf, csrcEnd + 3)
         IN  IF hlen > Len(buf) THEN Missing
             ELSE Found([offset |-> hlen, length |-> Len(buf) - hlen])

(* janus_rtp_payload: the payload starts after the header, the CSRCs and   *)
(* the extension block (4 bytes plus 4 per word of its length field); a    *)
(* padded packet ends with the pad length, which is not payload; NULL if   *)
(* the packet is shorter than what its header announces.                   *)
RtpPayload(buf) ==
    IF Len(buf) < RTP_HEADER_SIZE THEN Missing
    ELSE LET h == ParseHeader(buf)
             csrcEnd == RTP_HEADER_SIZE + 4 * h.csrccount
             hlen == IF ~h.extension THEN csrcEnd
                     ELSE IF Len(buf) < csrcEnd + 4 THEN Len(buf) + 1
                     ELSE csrcEnd + 4 + 4 * U16(buf, csrcEnd + 3)
             pad == IF h.padding /\ hlen <= Len(buf) THEN buf[Len(buf)] ELSE 0
         IN  IF hlen + pad > Len(buf) THEN Missing
             ELSE Found([offset |-> hlen, length |-> Len(buf) - hlen - pad])

(* Spec section 8, scenario 1: 80 60 00 01 00 00 03 E8 DE AD BE EF parses  *)
(* as version 2, type 96, seq 1, ts 1000, no CSRC and no extension, with   *)
(* the payload at offset 12.                                               *)
Scenario1 == <<128, 96, 0, 1, 0, 0, 3, 232, 222, 173, 190, 239>>
ASSUME LET h == ParseHeader(Scenario1)
       IN  /\ h.version = 2 /\ h.type = 96 /\ h.seq_number = 1
           /\ h.timestamp = <<0, 0, 3, 232>> /\ h.csrccount = 0 /\ ~h.extension
           /\ RtpPayload(Scenario1) = Found([offset |-> 12, length |-> 0])

(* Variant of the one-byte walk that takes the 4-bit length field as the   *)
(* data length instead of the data length minus one.                       *)
RECURSIVE FindOneByteNoPlusOne(_, _, _, _)
FindOneByteNoPlusOne(buf, i, end, id) ==
    IF i > end THEN Missing
    ELSE IF buf[i] = 0 THEN FindOneByteNoPlusOne(buf, i + 1, end, id)
    ELSE LET eid == shiftR(buf[i], 4)
             len == buf[i] & 15
         IN  IF eid = 15 \/ i + len > end THEN Missing
             ELSE IF eid = id THEN Found(SubSeq(buf, i + 1, i + len))
             ELSE FindOneByteNoPlusOne(buf, i + 1 + len, end, id)

(* One-byte elements from position i to end: a zero byte is padding; the  *)
(* high nibble is the id and the low nibble the data length minus one; id  *)
(* 15 ends the walk; an element running past the block is not found.      *)
RECURSIVE FindOneByte(_, _, _, _)
FindOneByte(buf, i, end, id) ==
    IF i > end THEN Missing
    ELSE IF buf[i] = 0 THEN FindOneByte(buf, i + 1, end, id)
    ELSE LET eid == shiftR(buf[i], 4)
             len == (buf[i] & 15) + 1
         IN  IF eid = 15 \/ i + len > end THEN Missing
             ELSE IF eid = id THEN Found(SubSeq(buf, i + 1, i + len))
             ELSE FindOneByte(buf, i + 1 + len, end, id)

(* Two-byte elements: an id byte (0 is padding), a length byte, the data.  *)
RECURSIVE FindTwoByte(_, _, _, _)
FindTwoByte(buf, i, end, id) ==
    IF i > end THEN Missing
    ELSE IF buf[i] = 0 THEN FindTwoByte(buf, i + 1, end, id)
    ELSE IF i + 1 > end \/ i + 1 + buf[i + 1] > end THEN Missing
    ELSE IF buf[i] = id THEN Found(SubSeq(buf, i + 2, i + 1 + buf[i + 1]))
    ELSE FindTwoByte(buf, i + 2 + buf[i + 1], end, id)

(* The data of the first element with this id in the packet's extension   *)
(* block, if the packet is well formed and has one.                        *)
FindExtension(buf, id) ==
    IF ~RtpPayload(buf).found \/ ~ParseHeader(buf).extension THEN Missing
    ELSE LET at == RTP_HEADER_SIZE + 4 * ParseHeader(buf).csrccount
             profile == U16(buf, at + 1)
             end == at + 4 + 4 * U16(buf, at + 3)
         IN  IF profile = 48862 THEN FindOneByte(buf, at + 5, end, id)
             ELSE IF shiftR(profile, 4) = 256 THEN FindTwoByte(buf, at + 5, end, id)
             ELSE Missing

(* What a parse helper returns: 0 and the values it read, or -1.          *)
Parsed(v) == [found |-> TRUE, value |-> v]
NotParsed == [found |-> FALSE, value |-> <<>>]

(* The element with this id, if its data has at least n bytes.            *)
ExtData(buf, id, n) ==
    LET e == FindExtension(buf, id)
    IN  IF e.found /\ Len(e.data) >= n THEN e.data ELSE <<>>

(* janus_rtp_header_extension_parse_audio_level: one byte, the high bit   *)
(* is voice activity and the low 7 bits the level in -dBov.                *)
ParseAudioLevel(buf, id) ==
    LET d == ExtData(buf, id, 1)
    IN  IF d = <<>> THEN NotParsed
        ELSE Parsed(<<shiftR(d[1], 7), d[1] & 127>>)

(* janus_rtp_header_extension_parse_video_orientation: the C, F, R1 and R0 *)
(* bits, the low four bits of one byte.                                    *)
ParseVideoOrientation(buf, id) ==
    LET d == ExtData(buf, id, 1)
    IN  IF d = <<>> THEN NotParsed
        ELSE Parsed(<<shiftR(d[1], 3) & 1, shiftR(d[1], 2) & 1,
                      shiftR(d[1], 1) & 1, d[1] & 1>>)

(* janus_rtp_header_extension_parse_playout_delay: two 12-bit delays in    *)
(* three bytes.                                                            *)
ParsePlayoutDelay(buf, id) ==
    LET d == ExtData(buf, id, 3)
    IN  IF d = <<>> THEN NotParsed
        ELSE Parsed(<<d[1] * 16 + shiftR(d[2], 4), (d[2] & 15) * 256 + d[3]>>)

(* janus_rtp_header_extension_parse_transport_wide_cc: a 16-bit sequence.  *)
ParseTransportWideCC(buf, id) ==
    LET d == ExtData(buf, id, 2)
    IN  IF d = <<>> THEN NotParsed ELSE Parsed(<<U16(d, 1)>>)

(* Variant that cuts an id too long for the buffer at sdes_len bytes,      *)
(* leaving no room for the terminator.                                     *)
ParseRtpStreamIdNoNul(buf, id, sdes_len) ==
    LET d == ExtData(buf, id, 1)
        n == IF Len(d) > sdes_len THEN sdes_len ELSE Len(d)
    IN  IF d = <<>> THEN NotParsed ELSE Parsed(SubSeq(d, 1, n) \o <<0>>)

(* janus_rtp_header_extension_parse_rtp_stream_id: the element's bytes are *)
(* copied into sdes_item and NUL-terminated; an id longer than the buffer  *)
(* leaves room for is cut to sdes_len - 1 bytes.  The value is what the    *)
(* buffer holds after the call.                                            *)
ParseRtpStreamId(buf, id, sdes_len) ==
    LET d == ExtData(buf, id, 1)
        n == IF Len(d) > sdes_len - 1 THEN sdes_len - 1 ELSE Len(d)
    IN  IF d = <<>> THEN NotParsed ELSE Parsed(SubSeq(d, 1, n) \o <<0>>)
-----------------------------------------------------------------------------
(***************************************************************************)
(* Reference: a packet described by its fields, and the encoder that lays *)
(* it out on the wire.  An extension element is one of the four parsed    *)
(* kinds with the values it carries, an rtp-stream-id (its bytes), a       *)
(* padding byte, or (one-byte form only) the id-15 terminator.  The       *)
(* values are picked so that a swapped byte, nibble or bit reads back     *)
(* differently.                                                            *)
(***************************************************************************)
Kinds == {"level", "twcc", "orient", "delay"}

Elems ==
    [kind : {"level"}, value : {<<1, 0>>, <<0, 127>>}]
    \cup [kind : {"twcc"}, value : {<<258>>}]
    \cup [kind : {"orient"}, value : {<<1, 0, 1, 1>>}]
    \cup [kind : {"delay"}, value : {<<1, 4094>>}]
    \cup [kind : {"rid"}, value : {<<104, 49>>}]
    \cup [kind : {"pad", "stop"}, value : {<<>>}]

Descs ==
    [cc : {0, 1}, marker : {0, 1}, pt : {96}, ext : {"none", "one", "two"},
     elems : SeqOf(Elems, MaxElems), payload : {0, 1}, pad : {0, 2}, cut : {0, 1}]

(* Descriptions the encoder accepts: no extension elements without a      *)
(* block, no terminator in the two-byte form (nor an rtp-stream-id, which *)
(* browsers send in the one-byte form), truncation only of packets         *)
(* that are not padded (whose last byte would otherwise change meaning).   *)
WellFormed(d) ==
    /\ d.ext = "none" => d.elems = <<>>
    /\ d.ext = "two" => \A i \in DOMAIN d.elems : d.elems[i].kind \notin {"stop", "rid"}
    /\ d.cut > 0 => d.pad = 0

IdOf(e) == CASE e.kind = "level"  -> LevelId
             [] e.kind = "twcc"   -> TwccId
             [] e.kind = "orient" -> OrientId
             [] e.kind = "delay"  -> DelayId
             [] e.kind = "rid"    -> RidId

DataOf(e) ==
    LET v == e.value
    IN  CASE e.kind = "level"  -> <<v[1] * 128 + v[2]>>
          [] e.kind = "twcc"   -> <<v[1] \div 256, v[1] % 256>>
          [] e.kind = "orient" -> <<v[1] * 8 + v[2] * 4 + v[3] * 2 + v[4]>>
          [] e.kind = "delay"  -> <<v[1] \div 16, (v[1] % 16) * 16 + v[2] \div 256,
                                    v[2] % 256>>
          [] e.kind = "rid"    -> v

EncodeElem(e, form) ==
    CASE e.kind = "pad"  -> <<0>>
      [] e.kind = "stop" -> <<240>>
      [] form = "one"    -> <<IdOf(e) * 16 + Len(DataOf(e)) - 1>> \o DataOf(e)
      [] OTHER           -> <<IdOf(e), Len(DataOf(e))>> \o DataOf(e)

Zeros(n) == [i \in 1..n |-> 0]

ExtBody(d) ==
    LET b == FlattenSeq([i \in DOMAIN d.elems |-> EncodeElem(d.elems[i], d.ext)])
    IN  b \o Zeros((4 - (Len(b) % 4)) % 4)

EncodeExt(d) ==
    IF d.ext = "none" THEN <<>>
    ELSE (IF d.ext = "one" THEN <<190, 222>> ELSE <<16, 0>>)
         \o <<0, Len(ExtBody(d)) \div 4>> \o ExtBody(d)

Encode(d) ==
    LET full == <<128 + (IF d.pad > 0 THEN 32 ELSE 0)
                      + (IF d.ext # "none" THEN 16 ELSE 0) + d.cc,
                  d.marker * 128 + d.pt, 0, 1, 0, 0, 3, 232, 222, 173, 190, 239>>
                \o Zeros(4 * d.cc) \o EncodeExt(d) \o [i \in 1..d.payload |-> 85]
                \o (IF d.pad > 0 THEN Zeros(d.pad - 1) \o <<d.pad>> ELSE <<>>)
    IN  SubSeq(full, 1, Len(full) - d.cut)

(* Where the payload is by construction; a cut into the headers leaves     *)
(* none.                                                                   *)
RefPayload(d) ==
    IF d.cut > d.payload THEN Missing
    ELSE Found([offset |-> 12 + 4 * d.cc + Len(EncodeExt(d)),
                length |-> d.payload - d.cut])

(* The elements a reader may look at: those before a terminator.          *)
Reachable(d) ==
    LET s == SelectInSeq(d.elems, LAMBDA e : e.kind = "stop")
    IN  IF s = 0 THEN d.elems ELSE SubSeq(d.elems, 1, s - 1)

(* The first reachable element of a kind, 0 if none.                       *)
FirstOf(d, k) == SelectInSeq(Reachable(d), LAMBDA e : e.kind = k)

VARIABLE pkt

Init == pkt \in {d \in Descs : WellFormed(d)}

Next == UNCHANGED pkt

Spec == Init /\ [][Next]_pkt
-----------------------------------------------------------------------------
HeaderFields ==
    [version : 0..3, padding : BOOLEAN, extension : BOOLEAN,
     csrccount : 0..15, markerbit : 0..1, type : 0..127,
     seq_number : 0..65535, timestamp : Seq(0..255), ssrc : Seq(0..255)]

TypeOK ==
    Len(Encode(pkt)) >= RTP_HEADER_SIZE => ParseHeader(Encode(pkt)) \in HeaderFields

(* janus_rtp_payload finds the payload where the packet was laid out, past *)
(* the CSRCs and the extension block and short of the padding, and         *)
(* refuses a packet cut short of its headers (spec section 3, I3).         *)
PayloadLocation == RtpPayload(Encode(pkt)) = RefPayload(pkt)

(* What the helpers should return for a kind: the values of the first    *)
(* reachable element of that kind, if the packet is whole.                 *)
RefValue(d, k) ==
    LET i == FirstOf(d, k)
    IN  IF RefPayload(d).found /\ d.ext # "none" /\ i > 0
        THEN Parsed(Reachable(d)[i].value) ELSE NotParsed

(* The extension helpers read back what was written: the values of the    *)
(* first element with the negotiated id, skipping padding and elements of *)
(* other ids, stopping at the id-15 terminator, and -1 for an id that is   *)
(* not there or for a packet cut short.                                    *)
ExtensionRoundTrip ==
    LET buf == Encode(pkt)
        got == [level  |-> ParseAudioLevel(buf, LevelId),
                twcc   |-> ParseTransportWideCC(buf, TwccId),
                orient |-> ParseVideoOrientation(buf, OrientId),
                delay  |-> ParsePlayoutDelay(buf, DelayId)]
    IN  \A k \in Kinds : got[k] = RefValue(pkt, k)

(* What the rtp-stream-id helper should leave in a buffer of n bytes: the *)
(* first reachable id, NUL-terminated, if it fits, else its first n - 1    *)
(* bytes and the NUL; nothing if there is no such id.                      *)
RidRef(n) ==
    LET i == FirstOf(pkt, "rid")
        v == Reachable(pkt)[i].value
    IN  IF RefPayload(pkt).found /\ pkt.ext # "none" /\ i > 0
        THEN Parsed(SubSeq(v, 1, IF Len(v) < n THEN Len(v) ELSE n - 1) \o <<0>>)
        ELSE NotParsed

(* The rtp-stream-id helper never writes past the caller's buffer, of any  *)
(* size: what it leaves there is NUL-terminated, at most sdes_len bytes,   *)
(* and the longest prefix of the first reachable id that fits; -1 if      *)
(* there is none.                                                          *)
RidFits ==
    \A n \in 1..MaxSdesLen : ParseRtpStreamId(Encode(pkt), RidId, n) = RidRef(n)
=============================================================================
