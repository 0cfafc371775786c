-------------------------- MODULE TransmissionLive --------------------------
(***************************************************************************)
(* The actual values of local identifier 30 (transmission.c): what the     *)
(* body of a 61 30 reply is taken to say.  Two controllers answer with the *)
(* same rich layout of 24 bytes, a third with a compact one; the code      *)
(* decodes a reply as a whole (LiveForFamily) and, for a selection of      *)
(* fields, apart (MaskedForFamily), with its own offsets and checks in     *)
(* each of the two.                                                        *)
(*                                                                         *)
(* A reply is its length and its bytes.  A decoded reply is a function     *)
(* from the available fields to their values; Refused is the empty one.    *)
(***************************************************************************)
EXTENDS Integers

CONSTANTS
  Replies,      \* the bodies a controller may send
  Selections    \* the sets of fields a reading may ask for

VARIABLES
  family,       \* the family of the controller that answers
  selection,    \* the fields the next reply is read for
  reading       \* the reply read for them, and what was decoded

\* The families the code tells controllers apart by; "OTHER" is every family without local identifiers of its own.
Families == {"EGS51", "EGS52", "EGS53", "VGS_NAG2", "ULTIMATE_NAG52", "UNKNOWN", "OTHER"}

Fields ==
  {"oil_temperature", "actual_gear", "target_gear", "tcc_status", "recognised_gear",
   "selector_position", "drive_program", "tcc_delta_speed", "tcc_speed", "tcc_pressure",
   "engine_torque", "converter_torque", "output_speed"}

ASSUME RepliesAreBytes ==
  \A r \in Replies : r.n \in Nat /\ r.data \in [0 .. r.n - 1 -> 0 .. 255]

ASSUME SelectionsAreFields == Selections \subseteq SUBSET Fields

-----------------------------------------------------------------------------
(* The decoders. *)

Refused == [f \in {} |-> 0]

Be16(data, i) == 256 * data[i] + data[i + 1]

SignedRaw16(raw) == IF raw < 32768 THEN raw ELSE -((65535 - raw) + 1)

KwpRli30(r) ==
  IF r.n < 24 THEN Refused
  ELSE [tcc_delta_speed   |-> Be16(r.data, 0),
        tcc_speed         |-> Be16(r.data, 2),
        tcc_pressure      |-> Be16(r.data, 4),
        tcc_status        |-> r.data[6],
        selector_position |-> r.data[7],
        drive_program     |-> r.data[8],
        recognised_gear   |-> r.data[9],
        actual_gear       |-> r.data[10] % 16,
        target_gear       |-> r.data[10] \div 16,
        oil_temperature   |-> r.data[11] - 50,
        engine_torque     |-> SignedRaw16(Be16(r.data, 12)),
        converter_torque  |-> SignedRaw16(Be16(r.data, 14)),
        output_speed      |-> Be16(r.data, 16)]

Decode2130(r) ==
  IF r.n < 10 \/ r.data[3] % 16 > 14 THEN Refused
  ELSE [oil_temperature |-> r.data[9] - 50, actual_gear |-> r.data[3] % 16]

\* A long reply is never read with the compact offsets.
DecodeLive2130(r) ==
  IF r.n < 24 THEN Decode2130(r)
  ELSE LET rich == KwpRli30(r)
       IN IF rich.tcc_status > 6 \/ rich.actual_gear > 14 \/ rich.target_gear > 14
          THEN Refused ELSE rich

Egs53Live2130(r) ==
  IF r.n # 24 \/ r.data[6] > 6 \/ r.data[10] % 16 > 14 \/ r.data[10] \div 16 > 14 THEN Refused
  ELSE [tcc_status        |-> r.data[6],
        selector_position |-> r.data[7],
        drive_program     |-> r.data[8],
        recognised_gear   |-> r.data[9],
        actual_gear       |-> r.data[10] % 16,
        target_gear       |-> r.data[10] \div 16,
        oil_temperature   |-> r.data[11] - 50,
        tcc_delta_speed   |-> Be16(r.data, 0),
        tcc_speed         |-> Be16(r.data, 2),
        tcc_pressure      |-> Be16(r.data, 4),
        engine_torque     |-> SignedRaw16(Be16(r.data, 12)),
        converter_torque  |-> SignedRaw16(Be16(r.data, 14)),
        output_speed      |-> Be16(r.data, 16)]

Uses2130ActualValues(fam) == fam \in {"EGS52", "EGS53", "VGS_NAG2"}

LiveForFamily(fam, r) ==
  CASE fam = "EGS52"    -> IF r.n = 24 THEN DecodeLive2130(r) ELSE Refused
    [] fam = "EGS53"    -> Egs53Live2130(r)
    [] fam = "VGS_NAG2" -> IF r.n \in 10 .. 23 THEN DecodeLive2130(r) ELSE Refused
    [] ~Uses2130ActualValues(fam) -> Refused

\* A selected field of the rich layout.
RichField(data, f) ==
  CASE f = "oil_temperature"   -> data[11] - 50
    [] f = "actual_gear"       -> data[10] % 16
    [] f = "target_gear"       -> data[10] \div 16
    [] f = "tcc_status"        -> data[6]
    [] f = "recognised_gear"   -> data[9]
    [] f = "selector_position" -> data[7]
    [] f = "drive_program"     -> data[8]
    [] f = "tcc_delta_speed"   -> Be16(data, 0)
    [] f = "tcc_speed"         -> Be16(data, 2)
    [] f = "tcc_pressure"      -> Be16(data, 4)
    [] f = "engine_torque"     -> SignedRaw16(Be16(data, 12))
    [] f = "converter_torque"  -> SignedRaw16(Be16(data, 14))
    [] f = "output_speed"      -> Be16(data, 16)

\* Slip: the selection is refused for a byte of a field that is not in it.
RichRefusesEager(data, fields) == data[10] % 16 > 14 \/ data[10] \div 16 > 14 \/ data[6] > 6

\* The codes a selection of the rich layout is refused for.
RichRefuses(data, fields) ==
  \/ "actual_gear" \in fields /\ data[10] % 16 > 14
  \/ "target_gear" \in fields /\ data[10] \div 16 > 14
  \/ "tcc_status" \in fields /\ data[6] > 6

CompactField(data, f) ==
  CASE f = "oil_temperature" -> data[9] - 50
    [] f = "actual_gear"     -> data[3] % 16

MaskedRich(r, fields) ==
  IF r.n # 24 \/ RichRefuses(r.data, fields) THEN Refused
  ELSE [f \in fields \cap Fields |-> RichField(r.data, f)]

MaskedCompact(r, fields) ==
  IF r.n \notin 10 .. 23 \/ ("actual_gear" \in fields /\ r.data[3] % 16 > 14) THEN Refused
  ELSE [f \in fields \cap {"oil_temperature", "actual_gear"} |-> CompactField(r.data, f)]

MaskedForFamily(fam, r, fields) ==
  CASE fam \in {"EGS52", "EGS53"}     -> MaskedRich(r, fields)
    [] fam = "VGS_NAG2"               -> MaskedCompact(r, fields)
    [] ~Uses2130ActualValues(fam)     -> Refused

-----------------------------------------------------------------------------
(* Readings. *)

liveVars == <<family, selection, reading>>

NoReading == <<>>

LiveInit == family = "UNKNOWN" /\ selection = {} /\ reading = NoReading

\* Another controller is asked; it is told apart by its part number.
Identify(fam) == family' = fam /\ reading' = NoReading /\ UNCHANGED selection

\* Other fields are asked for.
Select(fields) == selection' = fields /\ reading' = NoReading /\ UNCHANGED family

\* A reply arrives and is decoded for the fields asked for.
Read(r) ==
  /\ reading' = [reply |-> r, values |-> MaskedForFamily(family, r, selection)]
  /\ UNCHANGED <<family, selection>>

LiveNext ==
  \/ \E fam \in Families : Identify(fam)
  \/ \E fields \in Selections : Select(fields)
  \/ \E r \in Replies : Read(r)

LiveSpec == LiveInit /\ [][LiveNext]_liveVars

-----------------------------------------------------------------------------
(* What a reading is worth. *)

\* The bytes that carry a field in the replies of a family.
BytesOf(fam, f) ==
  IF fam = "VGS_NAG2" THEN (IF f = "oil_temperature" THEN {9} ELSE IF f = "actual_gear" THEN {3} ELSE {})
  ELSE CASE f = "oil_temperature"   -> {11}
         [] f \in {"actual_gear", "target_gear"} -> {10}
         [] f = "tcc_status"        -> {6}
         [] f = "recognised_gear"   -> {9}
         [] f = "selector_position" -> {7}
         [] f = "drive_program"     -> {8}
         [] f = "tcc_delta_speed"   -> {0, 1}
         [] f = "tcc_speed"         -> {2, 3}
         [] f = "tcc_pressure"      -> {4, 5}
         [] f = "engine_torque"     -> {12, 13}
         [] f = "converter_torque"  -> {14, 15}
         [] f = "output_speed"      -> {16, 17}

\* Two replies of the same length that a selection cannot tell apart.
SameFor(fam, fields, r, q) ==
  /\ r.n = q.n
  /\ \A f \in fields : \A i \in BytesOf(fam, f) : i < r.n => r.data[i] = q.data[i]

\* A selection changes which fields are read and nothing else.  Wherever the
\* whole reply is accepted, the selected fields have the values the whole
\* reply gives them; a field has the value it has when it is asked for alone;
\* and the bytes of fields nobody asked for neither change nor refuse a
\* reading ("a bad TCC byte cannot invalidate an ATF-only selection").
SelectionIndependent ==
  reading # NoReading =>
    LET full == LiveForFamily(family, reading.reply)
    IN /\ full # Refused =>
            reading.values = [f \in selection \cap DOMAIN full |-> full[f]]
       /\ \A f \in DOMAIN reading.values :
            MaskedForFamily(family, reading.reply, {f}) = [g \in {f} |-> reading.values[f]]
       /\ \A q \in Replies :
            SameFor(family, selection, reading.reply, q) =>
              MaskedForFamily(family, q, selection) = reading.values
=============================================================================
