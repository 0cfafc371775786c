---------------------------- MODULE DecoderProofs ----------------------------
(***************************************************************************)
(* Two things about the gearbox decoders hold whatever is received.  A     *)
(* reading of selected fields agrees with the reading of the whole reply   *)
(* and depends on the bytes of the selected fields alone, for every set of *)
(* replies and of selections.  And what a row of a catalogue or a text by  *)
(* hand reads out of a payload is put together from what it reads out of   *)
(* each single bit, so that a walk over single bits speaks for every       *)
(* payload.                                                                *)
(***************************************************************************)
EXTENDS Decoders, TLAPS

\* What a reading records is the masked decoding of one of the replies.
FromReply ==
  reading # NoReading =>
    /\ reading.reply \in Replies
    /\ reading.values = MaskedForFamily(family, reading.reply, selection)

IInv == selection \subseteq Fields /\ FromReply

-----------------------------------------------------------------------------

\* The layout of the two rich decoders is the one the selected fields are read by.
LEMMA RichLayout ==
  ASSUME NEW r \in Replies, r.n = 24, NEW full, full # Refused,
         full = DecodeLive2130(r) \/ full = Egs53Live2130(r)
  PROVE  /\ DOMAIN full = Fields
         /\ \A f \in Fields : full[f] = RichField(r.data, f)
         /\ r.data[10] % 16 <= 14 /\ r.data[10] \div 16 <= 14 /\ r.data[6] <= 6
<1>0. r.data \in [0 .. 23 -> 0 .. 255]
  <2>1. r.n - 1 = 23 OBVIOUS
  <2> QED BY <2>1, RepliesAreBytes
<1>1. r.data[10] \in 0 .. 255 /\ r.data[6] \in 0 .. 255 BY <1>0
<1>2. CASE full = Egs53Live2130(r)
  <2>1. r.data[10] % 16 <= 14 /\ r.data[10] \div 16 <= 14 /\ r.data[6] <= 6
    BY <1>1, <1>2 DEF Egs53Live2130
  <2>2. DOMAIN full = Fields BY <1>2, <2>1 DEF Egs53Live2130, Refused, Fields
  <2>3. \A f \in Fields : full[f] = RichField(r.data, f)
    BY <1>2, <2>1 DEF Egs53Live2130, Refused, Fields, RichField
  <2> QED BY <2>1, <2>2, <2>3
<1>3. CASE full = DecodeLive2130(r)
  <2>1. full = KwpRli30(r) BY <1>3 DEF DecodeLive2130
  <2>2. DOMAIN full = Fields BY <2>1 DEF KwpRli30, Fields
  <2>3. \A f \in Fields : full[f] = RichField(r.data, f)
    BY <2>1 DEF KwpRli30, Fields, RichField
  <2>4. ~(KwpRli30(r).tcc_status > 6 \/ KwpRli30(r).actual_gear > 14 \/ KwpRli30(r).target_gear > 14)
    BY <1>3 DEF DecodeLive2130
  <2>5. r.data[10] % 16 <= 14 /\ r.data[10] \div 16 <= 14 /\ r.data[6] <= 6
    BY <1>1, <2>4 DEF KwpRli30
  <2> QED BY <2>2, <2>3, <2>5
<1> QED BY <1>2, <1>3

LEMMA CompactByte3 == ASSUME NEW r \in Replies, r.n \in 10 .. 23 PROVE r.data[3] \in 0 .. 255
<1>1. r.data \in [0 .. r.n - 1 -> 0 .. 255] BY RepliesAreBytes
<1>2. 3 \in 0 .. r.n - 1 OBVIOUS
<1> QED BY <1>1, <1>2

\* The compact layout likewise.
LEMMA CompactLayout ==
  ASSUME NEW r \in Replies, r.n \in 10 .. 23, NEW full, full # Refused, full = DecodeLive2130(r)
  PROVE  /\ DOMAIN full = {"oil_temperature", "actual_gear"}
         /\ \A f \in {"oil_temperature", "actual_gear"} : full[f] = CompactField(r.data, f)
         /\ r.data[3] % 16 <= 14
<1>1. r.data[3] \in 0 .. 255 BY CompactByte3
<1>2. full = Decode2130(r) BY DEF DecodeLive2130
<1>3. r.data[3] % 16 <= 14 BY <1>1, <1>2 DEF Decode2130
<1>4. full = [oil_temperature |-> r.data[9] - 50, actual_gear |-> r.data[3] % 16]
  BY <1>2, <1>3 DEF Decode2130
<1>5. DOMAIN full = {"oil_temperature", "actual_gear"} BY <1>4
<1>6. \A f \in {"oil_temperature", "actual_gear"} : full[f] = CompactField(r.data, f)
  BY <1>4 DEF CompactField
<1> QED BY <1>3, <1>5, <1>6

\* What the two layouts say when they are not refused.
LEMMA RichAccepted ==
  ASSUME NEW fam \in {"EGS52", "EGS53"}, NEW r, NEW fields, r.n = 24, ~RichRefuses(r.data, fields)
  PROVE  MaskedForFamily(fam, r, fields) = [f \in fields \cap Fields |-> RichField(r.data, f)]
<1>1. MaskedForFamily(fam, r, fields) = MaskedRich(r, fields)
  BY DEF MaskedForFamily, Uses2130ActualValues
<1>2. MaskedRich(r, fields) = [f \in fields \cap Fields |-> RichField(r.data, f)]
  BY Zenon DEF MaskedRich
<1> QED BY <1>1, <1>2

LEMMA CompactAccepted ==
  ASSUME NEW r, NEW fields, r.n \in 10 .. 23, ~("actual_gear" \in fields /\ r.data[3] % 16 > 14)
  PROVE  MaskedForFamily("VGS_NAG2", r, fields) =
           [f \in fields \cap {"oil_temperature", "actual_gear"} |-> CompactField(r.data, f)]
<1>1. MaskedForFamily("VGS_NAG2", r, fields) = MaskedCompact(r, fields)
  BY DEF MaskedForFamily, Uses2130ActualValues
<1>2. MaskedCompact(r, fields) =
        [f \in fields \cap {"oil_temperature", "actual_gear"} |-> CompactField(r.data, f)]
  BY Zenon DEF MaskedCompact
<1> QED BY <1>1, <1>2

-----------------------------------------------------------------------------

\* Where the whole reply is accepted, a selection has the values of the whole.
LEMMA PartOfWhole ==
  ASSUME NEW fam, NEW r \in Replies, NEW fields \in SUBSET Fields, LiveForFamily(fam, r) # Refused
  PROVE  MaskedForFamily(fam, r, fields) =
           [f \in fields \cap DOMAIN LiveForFamily(fam, r) |-> LiveForFamily(fam, r)[f]]
<1> DEFINE full == LiveForFamily(fam, r)
<1>1. CASE fam \in {"EGS52", "EGS53"}
  <2>1. r.n = 24 /\ (full = DecodeLive2130(r) \/ full = Egs53Live2130(r))
    BY <1>1 DEF LiveForFamily, Egs53Live2130
  <2>2. /\ DOMAIN full = Fields
        /\ \A f \in Fields : full[f] = RichField(r.data, f)
        /\ r.data[10] % 16 <= 14 /\ r.data[10] \div 16 <= 14 /\ r.data[6] <= 6
    BY <2>1, RichLayout
  <2>3. r.data \in [0 .. 23 -> 0 .. 255]
    <3>1. r.n - 1 = 23 BY <2>1
    <3> QED BY <3>1, RepliesAreBytes
  <2>4. r.data[10] \in 0 .. 255 /\ r.data[6] \in 0 .. 255 BY <2>3
  <2>5. ~RichRefuses(r.data, fields) BY <2>2, <2>4 DEF RichRefuses
  <2>6. MaskedForFamily(fam, r, fields) = [f \in fields \cap Fields |-> RichField(r.data, f)]
    BY <1>1, <2>1, <2>5, RichAccepted
  <2> QED BY <2>2, <2>6
<1>2. CASE fam = "VGS_NAG2"
  <2>1. r.n \in 10 .. 23 /\ full = DecodeLive2130(r) BY <1>2 DEF LiveForFamily
  <2>2. /\ DOMAIN full = {"oil_temperature", "actual_gear"}
        /\ \A f \in {"oil_temperature", "actual_gear"} : full[f] = CompactField(r.data, f)
        /\ r.data[3] % 16 <= 14
    BY <2>1, CompactLayout
  <2>4. r.data[3] \in 0 .. 255 BY <2>1, CompactByte3
  <2>5. MaskedForFamily(fam, r, fields) =
          [f \in fields \cap {"oil_temperature", "actual_gear"} |-> CompactField(r.data, f)]
    <3>1. ~("actual_gear" \in fields /\ r.data[3] % 16 > 14) BY <2>2, <2>4
    <3> QED BY <1>2, <2>1, <3>1, CompactAccepted
  <2> QED BY <2>2, <2>5
<1>3. CASE ~Uses2130ActualValues(fam)
  BY <1>3 DEF LiveForFamily, Uses2130ActualValues
<1> QED BY <1>1, <1>2, <1>3 DEF Uses2130ActualValues

\* A field has the value it has when it is asked for alone.
LEMMA FieldAlone ==
  ASSUME NEW fam, NEW r, NEW fields \in SUBSET Fields
  PROVE  \A f \in DOMAIN MaskedForFamily(fam, r, fields) :
           MaskedForFamily(fam, r, {f}) = [g \in {f} |-> MaskedForFamily(fam, r, fields)[f]]
<1> TAKE f \in DOMAIN MaskedForFamily(fam, r, fields)
<1>1. CASE fam \in {"EGS52", "EGS53"}
  <2>1. r.n = 24 /\ ~RichRefuses(r.data, fields) BY <1>1 DEF MaskedForFamily, MaskedRich, Refused
  <2>2. MaskedForFamily(fam, r, fields) = [g \in fields \cap Fields |-> RichField(r.data, g)]
    BY <1>1, <2>1, RichAccepted
  <2>3. f \in fields BY <2>2
  <2>4. ~RichRefuses(r.data, {f}) BY <2>1, <2>3 DEF RichRefuses
  <2>5. MaskedForFamily(fam, r, {f}) = [g \in {f} \cap Fields |-> RichField(r.data, g)]
    <3>1. MaskedForFamily(fam, r, {f}) = MaskedRich(r, {f})
      BY <1>1 DEF MaskedForFamily, Uses2130ActualValues
    <3>2. MaskedRich(r, {f}) = [g \in {f} \cap Fields |-> RichField(r.data, g)]
      BY <2>1, <2>4, Zenon DEF MaskedRich
    <3> QED BY <3>1, <3>2
  <2>6. {f} \cap Fields = {f} BY <2>3
  <2> QED BY <2>2, <2>3, <2>5, <2>6
<1>2. CASE fam = "VGS_NAG2"
  <2>1. ~(r.n \notin 10 .. 23 \/ ("actual_gear" \in fields /\ r.data[3] % 16 > 14))
    BY <1>2 DEF MaskedForFamily, MaskedCompact, Refused
  <2>2. MaskedForFamily(fam, r, fields) =
          [g \in fields \cap {"oil_temperature", "actual_gear"} |-> CompactField(r.data, g)]
    BY <1>2, <2>1, CompactAccepted
  <2>3. f \in fields /\ f \in {"oil_temperature", "actual_gear"} BY <2>2
  <2>4. MaskedForFamily(fam, r, {f}) =
          [g \in {f} \cap {"oil_temperature", "actual_gear"} |-> CompactField(r.data, g)]
    BY <1>2, <2>1, <2>3, CompactAccepted
  <2>5. {f} \cap {"oil_temperature", "actual_gear"} = {f} BY <2>3
  <2> QED BY <2>2, <2>3, <2>4, <2>5
<1>3. CASE ~Uses2130ActualValues(fam)
  BY <1>3 DEF MaskedForFamily, Refused, Uses2130ActualValues
<1> QED BY <1>1, <1>2, <1>3 DEF Uses2130ActualValues

\* A reading is made of the bytes of its fields and of no other byte.
LEMMA OwnBytes ==
  ASSUME NEW fam, NEW r \in Replies, NEW q \in Replies, NEW fields \in SUBSET Fields,
         SameFor(fam, fields, r, q)
  PROVE  MaskedForFamily(fam, q, fields) = MaskedForFamily(fam, r, fields)
<1>1. CASE fam \in {"EGS52", "EGS53"} /\ r.n = 24
  <2>1. \A f \in fields : \A i \in BytesOf(fam, f) : i \in 0 .. 17 => r.data[i] = q.data[i]
    BY <1>1 DEF SameFor
  <2>2. \A f \in fields : RichField(r.data, f) = RichField(q.data, f)
    BY <1>1, <2>1 DEF BytesOf, Fields, RichField, Be16
  <2>3. RichRefuses(r.data, fields) <=> RichRefuses(q.data, fields)
    BY <1>1, <2>1 DEF BytesOf, Fields, RichRefuses
  <2>4. q.n = 24 BY <1>1 DEF SameFor
  <2> QED BY <1>1, <2>2, <2>3, <2>4 DEF MaskedForFamily, MaskedRich
<1>2. CASE fam = "VGS_NAG2" /\ r.n \in 10 .. 23
  <2>1. \A f \in fields : \A i \in BytesOf(fam, f) : i \in 0 .. 9 => r.data[i] = q.data[i]
    BY <1>2 DEF SameFor
  <2>2. \A f \in fields \cap {"oil_temperature", "actual_gear"} :
          CompactField(r.data, f) = CompactField(q.data, f)
    BY <1>2, <2>1 DEF BytesOf, CompactField
  <2>3. "actual_gear" \in fields => r.data[3] = q.data[3] BY <1>2, <2>1 DEF BytesOf
  <2>4. q.n = r.n BY DEF SameFor
  <2> QED BY <1>2, <2>2, <2>3, <2>4 DEF MaskedForFamily, MaskedCompact
<1>3. CASE ~(fam \in {"EGS52", "EGS53"} /\ r.n = 24) /\ ~(fam = "VGS_NAG2" /\ r.n \in 10 .. 23)
  <2>1. q.n = r.n BY DEF SameFor
  <2> QED BY <1>3, <2>1 DEF MaskedForFamily, MaskedRich, MaskedCompact, Uses2130ActualValues
<1> QED BY <1>1, <1>2, <1>3

-----------------------------------------------------------------------------

LEMMA InitIInv == LiveInit => IInv
  BY DEF LiveInit, IInv, FromReply

LEMMA StepIInv == IInv /\ [LiveNext]_liveVars => IInv'
<1> SUFFICES ASSUME IInv, [LiveNext]_liveVars PROVE IInv'
  OBVIOUS
<1> USE DEF IInv, FromReply
<1>1. ASSUME NEW fam \in Families, Identify(fam) PROVE IInv'
  BY <1>1 DEF Identify
<1>2. ASSUME NEW fields \in Selections, Select(fields) PROVE IInv'
  BY <1>2, SelectionsAreFields DEF Select
<1>3. ASSUME NEW r \in Replies, Read(r) PROVE IInv'
  BY <1>3 DEF Read
<1>4. CASE UNCHANGED liveVars
  BY <1>4 DEF liveVars
<1> QED BY <1>1, <1>2, <1>3, <1>4 DEF LiveNext

LEMMA IInvIndependent == IInv => SelectionIndependent
<1> SUFFICES ASSUME IInv, reading # NoReading PROVE SelectionIndependent
  BY DEF SelectionIndependent
<1> DEFINE fam == family
           fields == selection
           r == reading.reply
<1>1. r \in Replies /\ fields \in SUBSET Fields /\ reading.values = MaskedForFamily(fam, r, fields)
  BY DEF IInv, FromReply
<1> HIDE DEF fam, fields, r
<1>2. LiveForFamily(fam, r) # Refused =>
        reading.values =
          [f \in fields \cap DOMAIN LiveForFamily(fam, r) |-> LiveForFamily(fam, r)[f]]
  BY <1>1, PartOfWhole
<1>3. ASSUME NEW f \in DOMAIN reading.values
      PROVE  MaskedForFamily(fam, r, {f}) = [g \in {f} |-> reading.values[f]]
  <2>1. f \in DOMAIN MaskedForFamily(fam, r, fields) BY <1>1
  <2>2. MaskedForFamily(fam, r, {f}) = [g \in {f} |-> MaskedForFamily(fam, r, fields)[f]]
    BY <1>1, <2>1, FieldAlone
  <2> QED BY <1>1, <2>2
<1>4. \A q \in Replies :
        SameFor(fam, fields, r, q) => MaskedForFamily(fam, q, fields) = reading.values
  BY <1>1, OwnBytes
<1>5. \A f \in DOMAIN reading.values :
        MaskedForFamily(fam, r, {f}) = [g \in {f} |-> reading.values[f]]
  BY <1>3
<1> QED BY <1>2, <1>4, <1>5 DEF SelectionIndependent, fam, fields, r

\* A selection of the actual values of a gearbox agrees with the whole reply
\* and is neither changed nor refused by a byte nobody asked for, whatever the
\* controllers send and whichever fields are asked for.
THEOREM ReadingsIndependent == LiveSpec => []SelectionIndependent
<1>1. LiveSpec => []IInv BY InitIInv, StepIInv, PTL DEF LiveSpec
<1> QED BY <1>1, IInvIndependent, PTL

\* The walk over the frames leaves the readings alone until it has ended, and
\* then makes the steps of the readings only.
THEOREM WalkLeavesReadings == Spec => LiveSpec
<1>1. Init => LiveInit
  BY DEF Init
<1>2. [Next]_vars => [LiveNext]_liveVars
  BY DEF Next, NextBit, Shorten, End, Live, vars
<1> QED BY <1>1, <1>2, PTL DEF Spec, LiveSpec

\* So a selection agrees with the whole reply in the walk as well.
THEOREM SelectionsIndependent == Spec => []SelectionIndependent
<1> QED BY WalkLeavesReadings, ReadingsIndependent, PTL

-----------------------------------------------------------------------------
(* Single bits speak for every payload. *)

\* A field read by hand (extract_can_bits) is put together from its bits.
LEMMA ExtractAdds ==
  ASSUME NEW payload, NEW k, NEW first, NEW len
  PROVE  \A w : w \in ExtractCanBits(payload, k, first, len) <=>
                \E b \in payload : w \in ExtractCanBits({b}, k, first, len)
<1> TAKE w
<1>1. CASE first + len > 8 * k
  BY <1>1 DEF ExtractCanBits
<1>2. CASE ~(first + len > 8 * k)
  <2>1. \A p : w \in ExtractCanBits(p, k, first, len) <=>
                 \E i \in 0 .. len - 1 : first + i \in p /\ w = len - 1 - i
    BY <1>2 DEF ExtractCanBits
  <2> QED BY <2>1
<1> QED BY <1>1, <1>2

\* So is a row of a catalogue, plain or composite.
LEMMA RawAdds ==
  ASSUME NEW s, NEW payload
  PROVE  \A w : w \in Raw(s, payload) <=> \E b \in payload : w \in Raw(s, {b})
<1> TAKE w
<1>1. CASE s.mask = {}
  <2>1. \A p : w \in Raw(s, p) <=>
                 \E b \in p : b \in s.at .. s.at + s.len - 1 /\ w = s.at + s.len - 1 - b
    BY <1>1 DEF Raw, Plain
  <2> QED BY <2>1
<1>2. CASE s.mask # {}
  <2>1. \A p : w \in Raw(s, p) <=> \E b \in p : w = s.at + s.len - 1 - b /\ w \in s.mask
    BY <1>2 DEF Raw, Masked
  <2> QED BY <2>1
<1> QED BY <1>1, <1>2

\* A text by hand and a row that read the same out of every single bit read
\* the same out of every payload.
THEOREM BitByBit ==
  ASSUME NEW s, NEW k, NEW first, NEW len, NEW Bits,
         \A b \in Bits : ExtractCanBits({b}, k, first, len) = Raw(s, {b})
  PROVE  \A payload \in SUBSET Bits : ExtractCanBits(payload, k, first, len) = Raw(s, payload)
<1> TAKE payload \in SUBSET Bits
<1>1. \A w : w \in ExtractCanBits(payload, k, first, len) <=>
              \E b \in payload : w \in ExtractCanBits({b}, k, first, len)
  BY ExtractAdds, Zenon
<1>2. \A w : w \in Raw(s, payload) <=> \E b \in payload : w \in Raw(s, {b})
  BY RawAdds, Zenon
<1>3. \A w : w \in ExtractCanBits(payload, k, first, len) <=> w \in Raw(s, payload)
  <2> TAKE w
  <2>1. \A b \in payload : w \in ExtractCanBits({b}, k, first, len) <=> w \in Raw(s, {b})
    OBVIOUS
  <2> QED BY <1>1, <1>2, <2>1, Zenon
<1>4. /\ ExtractCanBits(payload, k, first, len) \subseteq Raw(s, payload)
      /\ Raw(s, payload) \subseteq ExtractCanBits(payload, k, first, len)
  BY <1>3, Zenon
<1> QED BY <1>4, Zenon

\* Bits a row has no part in do not matter to it.
LEMMA OtherBitsIgnored ==
  ASSUME NEW t, NEW p, NEW q, \A b \in (p \ q) \cup (q \ p) : Raw(t, {b}) = {}
  PROVE  Raw(t, p) = Raw(t, q)
<1>1. \A w : w \in Raw(t, p) <=> \E b \in p : w \in Raw(t, {b})
  BY RawAdds
<1>2. \A w : w \in Raw(t, q) <=> \E b \in q : w \in Raw(t, {b})
  BY RawAdds
<1>3. \A w : w \in Raw(t, p) <=> w \in Raw(t, q)
  <2> TAKE w
  <2>1. ASSUME NEW b \in p, w \in Raw(t, {b}) PROVE b \in q
    BY <2>1
  <2>2. ASSUME NEW b \in q, w \in Raw(t, {b}) PROVE b \in p
    BY <2>2
  <2> QED BY <1>1, <1>2, <2>1, <2>2, Zenon
<1>4. Raw(t, p) \subseteq Raw(t, q) /\ Raw(t, q) \subseteq Raw(t, p)
  BY <1>3, Zenon
<1> QED BY <1>4, Zenon

\* Two rows no single bit belongs to both of move alone: a payload that is
\* changed in bits of the one is read the same by the other.
THEOREM RowsMoveAlone ==
  ASSUME NEW s, NEW t, NEW Bits,
         \A b \in Bits : Raw(s, {b}) = {} \/ Raw(t, {b}) = {},
         NEW p \in SUBSET Bits, NEW q \in SUBSET Bits,
         \A b \in (p \ q) \cup (q \ p) : Raw(s, {b}) # {}
  PROVE  Raw(t, p) = Raw(t, q)
<1>1. \A b \in (p \ q) \cup (q \ p) : Raw(t, {b}) = {}
  OBVIOUS
<1> QED BY ONLY <1>1, OtherBitsIgnored

\* A plain row is what extract_can_bits reads, in every payload that is long enough.
LEMMA PlainIsExtracted ==
  ASSUME NEW s, s.at \in Int, s.len \in Int, s.mask = {}, NEW k \in Int, Readable(s, k),
         NEW payload \in SUBSET Int
  PROVE  ExtractCanBits(payload, k, s.at, s.len) = Raw(s, payload)
<1>1. ExtractCanBits(payload, k, s.at, s.len) =
        {s.len - 1 - i : i \in {j \in 0 .. s.len - 1 : s.at + j \in payload}}
  BY DEF ExtractCanBits, Readable
<1>2. Raw(s, payload) = {s.at + s.len - 1 - b : b \in payload \cap (s.at .. s.at + s.len - 1)}
  BY DEF Raw, Plain
<1>3. ASSUME NEW b \in payload, b \in s.at .. s.at + s.len - 1
      PROVE  s.at + s.len - 1 - b \in ExtractCanBits(payload, k, s.at, s.len)
  <2> DEFINE j == b - s.at
  <2>1. j \in 0 .. s.len - 1 /\ s.at + j = b /\ s.len - 1 - j = s.at + s.len - 1 - b
    BY <1>3
  <2> HIDE DEF j
  <2> QED BY <1>1, <2>1
<1>4. ASSUME NEW j \in 0 .. s.len - 1, s.at + j \in payload
      PROVE  s.len - 1 - j \in Raw(s, payload)
  <2> DEFINE b == s.at + j
  <2>1. b \in payload /\ b \in s.at .. s.at + s.len - 1 /\ s.at + s.len - 1 - b = s.len - 1 - j
    BY <1>4
  <2> HIDE DEF b
  <2> QED BY <1>2, <2>1
<1>5. Raw(s, payload) \subseteq ExtractCanBits(payload, k, s.at, s.len)
  BY <1>2, <1>3
<1>6. ExtractCanBits(payload, k, s.at, s.len) \subseteq Raw(s, payload)
  BY <1>1, <1>4
<1> QED BY <1>5, <1>6, Zenon

\* Where a text by hand agrees with its catalogue on one bit, a field of it is
\* a row of the catalogue on every payload of that length, whatever the other
\* bits are.
THEOREM TextAgreesOnEveryPayload ==
  ASSUME NEW text, NEW f \in FieldsOf(text.fields), f.at \in Int, f.len \in Int,
         TextAgrees(text), n \in text.lengths, n \in Int
  PROVE  \E s \in Counterparts(text, f) :
           \A payload \in SUBSET Int : ExtractCanBits(payload, n, f.at, f.len) = Raw(s, payload)
<1>1. PICK s \in Counterparts(text, f) : s.mask = {} /\ Readable(s, n)
  BY DEF TextAgrees
<1>2. s.at = f.at /\ s.len = f.len
  BY <1>1 DEF Counterparts
<1>3. \A payload \in SUBSET Int : ExtractCanBits(payload, n, s.at, s.len) = Raw(s, payload)
  BY <1>1, <1>2, PlainIsExtracted
<1> QED BY <1>2, <1>3
=============================================================================
