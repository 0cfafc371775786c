------------------------------ MODULE Decoders ------------------------------
(***************************************************************************)
(* The gearbox decoders side by side.  A walk visits every frame of the    *)
(* three catalogues with one bit set at a time, and with every number of   *)
(* bytes received; the readings of local identifier 30 follow it.  What    *)
(* the decoders say of each such frame is compared: the rows of a table    *)
(* with each other, the decoders written by hand with the tables, and the  *)
(* names the code looks up with the names the tables have.                 *)
(***************************************************************************)
EXTENDS Transmission, TransmissionLive

CONSTANT Walked    \* the catalogues the walk visits

VARIABLES
  at,      \* the frame the walk is at: its catalogue and its index
  bit,     \* the bit of the payload that is set
  n        \* the number of bytes received

vars == <<at, bit, n, liveVars>>

ASSUME WalkedAreFamilies == Walked \subseteq CanFamilies

Ended == [family |-> "none", frame |-> 0]

Init ==
  /\ at \in UNION {{[family |-> f, frame |-> i] : i \in DOMAIN Frames(f)} : f \in Walked}
  /\ bit = 0 /\ n = 8
  /\ LiveInit

\* The next bit of the frame.
NextBit ==
  /\ at # Ended /\ bit < 63
  /\ bit' = bit + 1
  /\ UNCHANGED <<at, n, liveVars>>

\* One byte less is received.
Shorten ==
  /\ at # Ended /\ bit = 63 /\ n > 0
  /\ n' = n - 1
  /\ UNCHANGED <<at, bit, liveVars>>

End ==
  /\ at # Ended /\ bit = 63 /\ n = 0
  /\ at' = Ended
  /\ UNCHANGED <<bit, n, liveVars>>

Live == at = Ended /\ LiveNext /\ UNCHANGED <<at, bit, n>>

Next == NextBit \/ Shorten \/ End \/ Live

Spec == Init /\ [][Next]_vars

-----------------------------------------------------------------------------
(* The state of the walk. *)

Family == at.family

Catalogue == Frames(Family)

TheFrame == Catalogue[at.frame]

SignalsOf(frame) == {frame.signals[i] : i \in DOMAIN frame.signals}

\* The names a family uses for one field with two meanings.
Alternatives == {{"IGN_ANG", "PW"}, {"M_KOMP_NEU", "M_KOMP"}}

\* The payload in which a field carries a value, all other bits 0.
Carry(s, v) ==
  LET weights == {w \in 0 .. s.len - 1 : (v \div 2 ^ w) % 2 = 1}
  IN IF s.mask # {} THEN {s.at + s.len - 1 - w : w \in {m \in s.mask : (v \div 2 ^ m) % 2 = 1}}
     ELSE {s.at + s.len - 1 - w : w \in weights}

\* The codes of the tables that no payload can carry.  The WRC of EGS51 is a field of three
\* bits with the codes of the masked one of EGS52.  FCOD_MOT is a code of seven bits in
\* two pieces; the mask weighs the seventh bit with 128, the codes count it as 64.
Uncarried(s) ==
  CASE s.name = "WRC" /\ s.mask = {} -> 128 .. 135
    [] s.name = "FCOD_MOT"            -> 64 .. 127
    [] OTHER                          -> {}

\* A bit is part of at most one plain signal of its frame, so that no two
\* signals move together.
BitsOwned ==
  LET readers == {s \in SignalsOf(TheFrame) : s.mask = {} /\ s.kind # "iso_tp" /\ Raw(s, {bit}) # {}}
  IN \/ Cardinality(readers) <= 1
     \/ {s.name : s \in readers} \in Alternatives

\* What a frame that carries a code is read as.
CodeShown(s, v) == Line(Family, TheFrame, s, Carry(s, v), 8)

\* Every code a table has a word for can be received and is then shown as
\* that code, not as another one, nor as unavailable.
CodesReachable ==
  \A s \in {t \in SignalsOf(TheFrame) : t.kind = "enum"} :
    \A v \in s.values \ Uncarried(s) : CodeShown(s, v) = <<Shows("enum", v, "")>>

\* The tables are sound: the rows of a frame do not overlap, and every code a
\* row has a word for can be received and is shown as itself.
TableSound == at # Ended /\ n = 8 => BitsOwned /\ (bit = 0 => CodesReachable)

-----------------------------------------------------------------------------
(* The decoders written by hand. *)

\* The texts by hand that belong to the frame of the walk.
TextsHere == {text \in HandTexts : text.family = Family /\ text.id = TheFrame.id}

FieldsOf(fields) == {fields[i] : i \in DOMAIN fields}

\* The signals of the catalogue that lie where a field of a text lies.
Counterparts(text, f) ==
  {s \in UNION {SignalsOf(Catalogue[i]) : i \in Matching(Catalogue, text.id)} :
     s.at = f.at /\ s.len = f.len}

\* The scale the catalogue shows a number with.
ScaleOf(s) ==
  LET shown == DecodeSignal(Family, s, {}) IN IF shown.how = "number" THEN shown.scale ELSE ""

\* A text by hand and the table of its frame read the same plain field out of the
\* same bits, with the same scale, for every number of bytes the text accepts.
TextAgrees(text) ==
  \A f \in FieldsOf(text.fields) :
    \E s \in Counterparts(text, f) :
      /\ s.mask = {}
      /\ s.kind = "number" => ScaleOf(s) = f.scale
      /\ s.kind # "number" => f.scale = ""
      /\ n \in text.lengths =>
           Readable(s, n) /\ ExtractCanBits({bit}, n, f.at, f.len) = Raw(s, {bit})

\* No layout of a local identifier reads a bit twice or a byte it has not demanded.
LayoutFits(layout) ==
  /\ \A f \in FieldsOf(layout.fields) : f.at + f.len <= 8 * layout.need
  /\ \A f, g \in FieldsOf(layout.fields) :
       f # g => f.at + f.len <= g.at \/ g.at + g.len <= f.at

\* The codes a text is known to put into other words than its catalogue: the text of
\* EGS51 uses the gear names of EGS52, so 6, 7 and 8 (R, R2 and P) read 6, 7 and D-CVT.
Misworded(fam) == IF fam = "EGS51" THEN 6 .. 8 ELSE {}

\* A text by hand puts a code into the words its catalogue has for it.
WordsAgree(w) ==
  \A c \in (0 .. Len(w.meant) - 1) \ Misworded(w.family) :
    w.meant[c + 1] # "-" => w.said[c + 1] = w.meant[c + 1]

\* What the code decodes twice it decodes alike: each field of a text by hand
\* is a signal of the catalogue with the same bits and scale, received in full
\* whenever the text accepts the frame, and its codes are put into the words of
\* its own catalogue; the layouts of the local identifiers neither overlap nor
\* read past the length they demand.
LayoutsAgree ==
  /\ at # Ended => \A text \in TextsHere : TextAgrees(text)
  /\ at # Ended => \A w \in {x \in Wordings : x.family = Family} : WordsAgree(w)
  /\ \A layout \in KwpLayouts : LayoutFits(layout)

-----------------------------------------------------------------------------
(* The names. *)

\* The signals a catalogue knows under a name.
Named(name) == {s \in UNION {SignalsOf(Catalogue[i]) : i \in DOMAIN Catalogue} : s.name = name}

\* A rule keyed by a name meets signals that can carry a value it is about.
RuleMeets(name) ==
  /\ Named(name) # {}
  /\ \A s \in Named(name) :
       LET full == 2 ^ s.len - 1
       IN \/ DecodeSignal(Family, s, Carry(s, full)) # ByKind(s, Raw(s, Carry(s, full)))
          \/ s.kind = "enum" /\ full \in s.values

\* A code a text by hand asks the catalogue for is an enumeration in one of the frames of the text.
CodeKnown(text, name) ==
  \E i \in Matching(Catalogue, text.id) :
    LET j == Find(Catalogue[i], name)
    IN /\ j # 0
       /\ Catalogue[i].signals[j].kind = "enum"
       /\ \A v \in Catalogue[i].signals[j].values :
            EnumName(Family, text.id, name, Carry(Catalogue[i].signals[j], v)) # {}

Derived == IF Family = "EGS52" THEN DerivedOfEgs52 ELSE IF Family = "EGS53" THEN DerivedOfEgs53 ELSE {}

DerivedKnown(d) ==
  \E i \in DOMAIN Catalogue :
    /\ Catalogue[i].name = d[1]
    /\ LET j == Find(Catalogue[i], d[2]) IN j # 0 /\ Catalogue[i].signals[j].kind = d[3]

\* The wheel speeds and their directions are in one frame, with a code for "not available".
WheelsKnown ==
  \A speed \in DOMAIN Direction :
    LET j == Find(TheFrame, Direction[speed])
    IN /\ Find(TheFrame, speed) # 0 /\ j # 0
       /\ DirectionAbsent \in TheFrame.signals[j].values

\* The two display codes of GS_418 are in its frame, and a code of theirs is shown as itself.
DisplaysKnown ==
  \A name \in DisplayNames :
    LET j == Find(TheFrame, name)
    IN /\ j # 0
       /\ \A v \in Table52!DisplayCodes[name] :
            DecodeSignal("EGS52", TheFrame.signals[j], Carry(TheFrame.signals[j], v)) = Shows("enum", v, "")

\* Every name the code looks up by its spelling is one the tables have, with
\* the kind the code relies on: a rule for "not available" or for a scale, a
\* code of a text by hand, a request spelled out ahead of a frame, the direction
\* of a wheel.  The local identifiers that are read again are among those that
\* are read, and those have a name.
NamesResolve ==
  /\ at # Ended /\ bit = 0 /\ n = 8 =>
       /\ at.frame = 1 =>
            /\ \A name \in RuleNames(Family) : RuleMeets(name)
            /\ \A d \in Derived : DerivedKnown(d)
       /\ \A text \in TextsHere : \A name \in text.codes : CodeKnown(text, name)
       /\ Family = "EGS53" /\ TheFrame.name = "WHL_STAT2" => WheelsKnown
       /\ \A text \in TextsHere : Family = "EGS52" /\ text.fields = Gs418 => DisplaysKnown
  /\ LiveIds(family) \subseteq ReadIds(family) /\ ReadIds(family) \subseteq NamedIds(family)
=============================================================================
