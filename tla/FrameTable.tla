----------------------------- MODULE FrameTable -----------------------------
(***************************************************************************)
(* The vocabulary of the three gearbox CAN catalogues (egs51_lookup.c,     *)
(* egs52_lookup.c, egs53_lookup.c): what a row of their tables is, how a   *)
(* row is read out of a received frame, and what the value is shown as.    *)
(*                                                                         *)
(* A payload is the set of the wire bits that are 1; bit 0 is the most     *)
(* significant bit of byte 0, as the matrices number them.  A raw value is *)
(* the set of the weights of its 1 bits.  Texts, units and the wording of  *)
(* the enumerators are left out: an enumeration is the set of its raw      *)
(* values, a scale is a name such as "x0.25-500".                          *)
(***************************************************************************)
EXTENDS Integers, Sequences, FiniteSets, FiniteSetsExt

-----------------------------------------------------------------------------
(* Rows of a table. *)

Signal(kind, name, at, len, scale, values) ==
  [kind |-> kind, name |-> name, at |-> at, len |-> len, scale |-> scale, values |-> values, mask |-> {}]

B(name, at)            == Signal("bool", name, at, 1, "", {})
Wide(name, at, len)    == Signal("bool", name, at, len, "", {})
N(name, at, len)       == Signal("number", name, at, len, "", {})
S(name, at, len, scale) == Signal("number", name, at, len, scale, {})
E(name, at, len, values) == Signal("enum", name, at, len, "", values)
C(name, at, len)       == Signal("char", name, at, len, "", {})
T(name, at, len)       == Signal("iso_tp", name, at, len, "", {})

\* A composite: the weights of the mask are picked out of the frame shifted down to the field.
M(name, at, len, mask, values) == [E(name, at, len, values) EXCEPT !.mask = mask]

Frame(ecu, name, id, signals) == [ecu |-> ecu, name |-> name, id |-> id, signals |-> signals]

-----------------------------------------------------------------------------
(* Reading a row. *)

Plain(s, payload) == {s.at + s.len - 1 - b : b \in payload \cap (s.at .. s.at + s.len - 1)}

Masked(s, payload) == {s.at + s.len - 1 - b : b \in payload} \cap s.mask

\* A plain field needs the bytes it lies in, a composite needs the whole frame.
Readable(s, n) == IF s.mask = {} THEN s.at + s.len <= 8 * n ELSE n = 8

Raw(s, payload) == IF s.mask = {} THEN Plain(s, payload) ELSE Masked(s, payload)

Number(raw) == MapThenSumSet(LAMBDA w : 2 ^ w, raw)

-----------------------------------------------------------------------------
(* What is shown.  A value no enumerator names is shown as its raw number. *)

Shows(how, value, scale) == [how |-> how, value |-> value, scale |-> scale]

Absent == Shows("unavailable", 0, "")

ByKind(s, raw) ==
  CASE s.kind = "bool"   -> Shows("bool", IF raw = {} THEN 0 ELSE 1, "")
    [] s.kind = "number" -> Shows("number", Number(raw), s.scale)
    [] s.kind = "enum"   -> Shows(IF Number(raw) \in s.values THEN "enum" ELSE "raw", Number(raw), "")
    [] s.kind = "char"   -> Shows(IF Number(raw) <= 255 THEN "char" ELSE "raw", Number(raw), "")
    [] s.kind = "iso_tp" -> Shows("raw", 0, "")

\* The frames of a table that carry an identifier: an identifier may be shared.
Matching(frames, id) == {i \in DOMAIN frames : frames[i].id = id}

\* The row of a frame with a name, as the index of the first one; 0 when there is none.
Find(frame, name) ==
  LET found == {i \in DOMAIN frame.signals : frame.signals[i].name = name}
  IN IF found = {} THEN 0 ELSE Min(found)
=============================================================================
