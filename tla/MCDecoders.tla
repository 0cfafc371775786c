----------------------------- MODULE MCDecoders -----------------------------
(***************************************************************************)
(* The three catalogues in full, and replies to local identifier 30 at the *)
(* edges of what is accepted: one byte less and more than each layout has, *)
(* and the last good and first bad code of every byte that is checked.     *)
(***************************************************************************)
EXTENDS Decoders

MCWalked == CanFamilies

\* Apart from the bytes that are checked, byte i holds 37 * i + 200, so that
\* no two bytes are the same and the signed values have both signs.
Body(len, compactGear, tcc, gears) ==
  [i \in 0 .. len - 1 |->
     CASE i = 3 -> compactGear [] i = 6 -> tcc [] i = 10 -> gears [] OTHER -> (37 * i + 200) % 256]

\* Gears \h1f, \hf1 and \h1e: no current gear, no target gear, both known.
MCReplies ==
  {[n |-> len, data |-> Body(len, compactGear, tcc, gears)] :
     len \in {9, 10, 23, 24, 25}, compactGear \in {14, 15}, tcc \in {6, 7}, gears \in {\h1f, \hf1, \h1e}}

\* Every field alone, every pair with a field that is checked or that checked
\* codes share a byte with, and all of them.
MCSelections ==
  {{f, g} : f \in {"actual_gear", "target_gear", "tcc_status", "oil_temperature"}, g \in Fields}
    \cup {{f} : f \in Fields} \cup {Fields}
=============================================================================
