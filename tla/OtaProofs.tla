------------------------------ MODULE OtaProofs ------------------------------
(***************************************************************************)
(* Proofs that an update never endangers what runs, for every flash layout *)
(* a product may supply, every set of images and every size, and that the  *)
(* target implements AntiRollback.                                         *)
(***************************************************************************)
EXTENDS Ota, TLAPS
-----------------------------------------------------------------------------
(* Addresses *)

LEMMA ModSmall ==
    ASSUME NEW x \in Nat, NEW n \in Nat \ {0}, x < n PROVE x % n = x
BY SMT

LEMMA ModOnce ==
    ASSUME NEW x \in Nat, NEW n \in Nat \ {0}, x >= n, x < 2 * n
    PROVE  x % n = x - n
BY SMT

LEMMA ModInjective ==
    ASSUME NEW n \in Nat \ {0}, NEW b \in 0 .. n - 1, NEW k \in 0 .. n - 1,
           NEW m \in 0 .. n - 1, (b + k) % n = (b + m) % n
    PROVE  k = m
<1>1. ASSUME NEW x \in 0 .. n - 1
      PROVE  (b + x) % n = IF b + x < n THEN b + x ELSE b + x - n
  <2>1. b + x \in Nat /\ b + x < 2 * n
    OBVIOUS
  <2>2. CASE b + x < n
    <3>1. (b + x) % n = b + x
      BY <2>1, <2>2, ModSmall
    <3> QED
      BY <2>2, <3>1
  <2>3. CASE ~(b + x < n)
    <3>1. b + x >= n
      BY <2>1, <2>3
    <3>2. (b + x) % n = b + x - n
      BY <2>1, <3>1, ModOnce
    <3> QED
      BY <2>3, <3>2
  <2> QED
    BY <2>2, <2>3
<1>2. (IF b + k < n THEN b + k ELSE b + k - n)
        = (IF b + m < n THEN b + m ELSE b + m - n)
  BY <1>1
<1> QED
  BY <1>2

LEMMA ImagesAreTyped ==
    ASSUME NEW i \in Images \cup {FactoryImage}
    PROVE  /\ i \in ImageType
           /\ i.size \in Nat /\ i.size >= 1 /\ i.size <= AddressSpace
           /\ i.version \in Nat /\ i.version \in Versions
BY OtaAssumption DEF ImageType, Versions

LEMMA VersionsAreNumbers == Versions \subseteq Nat
BY ImagesAreTyped DEF Versions

LEMMA LayoutsAreTyped ==
    ASSUME TypeOK
    PROVE  /\ layout \in LayoutType /\ layout \in Layouts
           /\ \A s \in Slots : layout.slots[s] \in RangeType
           /\ \A s \in Slots :
                /\ layout.slots[s].base \in 0 .. AddressSpace - 1
                /\ layout.slots[s].size \in 0 .. AddressSpace
           /\ layout.bootloader \in RangeType
BY OtaAssumption DEF TypeOK, LayoutType, RangeType, Addresses

\* Different words of an image are at different addresses.
LEMMA AddressInjective ==
    ASSUME TypeOK, NEW s \in Slots, NEW k \in 0 .. AddressSpace - 1,
           NEW m \in 0 .. AddressSpace - 1, Address(s, k) = Address(s, m)
    PROVE  k = m
<1>1. /\ layout.slots[s].base \in 0 .. AddressSpace - 1
      /\ AddressSpace \in Nat \ {0}
  BY LayoutsAreTyped, OtaAssumption
<1>2. (layout.slots[s].base + k) % AddressSpace
        = (layout.slots[s].base + m) % AddressSpace
  BY DEF Address
<1> QED
  BY <1>1, <1>2, ModInjective

LEMMA AddressIsAddress ==
    ASSUME TypeOK, NEW s \in Slots, NEW k \in Nat
    PROVE  Address(s, k) \in Addresses
<1>1. layout.slots[s].base + k \in Nat
  BY LayoutsAreTyped, OtaAssumption
<1>2. \A x \in Nat, n \in Nat \ {0} : x % n \in 0 .. n - 1
  OBVIOUS
<1> QED
  BY <1>1, <1>2, OtaAssumption DEF Address, Addresses

\* In a layout that bind accepts, the words of a slot stay in its cells.
LEMMA AddressInSlot ==
    ASSUME TypeOK, BindAccepts(layout), NEW s \in Slots, NEW k \in Nat,
           k < layout.slots[s].size
    PROVE  Address(s, k) \in Cells(layout.slots[s])
<1> DEFINE r == layout.slots[s]
<1>1. r.base \in Nat /\ r.size \in Nat /\ AddressSpace \in Nat \ {0}
  BY LayoutsAreTyped, OtaAssumption
<1>2. r.base + r.size <= AddressSpace
  <2>1. /\ layout.flash.base \in Nat /\ layout.flash.size \in Nat
    BY LayoutsAreTyped, OtaAssumption DEF LayoutType, RangeType, Addresses
  <2> QED
    BY <1>1, <2>1 DEF BindAccepts, Contains
<1>3. r.base + k < AddressSpace /\ r.base + k \in Nat
  BY <1>1, <1>2
<1>4. Address(s, k) = r.base + k
  BY <1>1, <1>3, ModSmall DEF Address
<1> QED
  BY <1>1, <1>3, <1>4 DEF Cells, Addresses

LEMMA RegionsAreDisjoint ==
    ASSUME TypeOK, BindAccepts(layout), NEW s \in Slots
    PROVE  /\ Other(s) \in Slots /\ Other(s) # s
           /\ Cells(layout.slots[s]) \cap Cells(layout.slots[Other(s)]) = {}
           /\ Cells(layout.slots[s]) \cap Cells(layout.bootloader) = {}
<1>1. Other(s) \in Slots /\ Other(s) # s /\ {s, Other(s)} = Slots
  BY DEF Slots, Other
<1>2. /\ \A x \in Slots : layout.slots[x].base \in Nat /\ layout.slots[x].size \in Nat
      /\ layout.bootloader.base \in Nat /\ layout.bootloader.size \in Nat
  BY LayoutsAreTyped, OtaAssumption DEF RangeType, Addresses
<1>3. \A x \in Slots : ~Overlaps(layout.bootloader, layout.slots[x])
  BY DEF BindAccepts
<1>4. ~Overlaps(layout.slots[s], layout.slots[Other(s)])
  BY <1>1, <1>2 DEF BindAccepts, Overlaps, Slots, Other
<1> QED
  BY <1>1, <1>2, <1>3, <1>4, OtaAssumption DEF Overlaps, Cells, Addresses

-----------------------------------------------------------------------------
(* What a slot holds *)

LEMMA WordsDiffer ==
    /\ \A i, j, k, m : Word(i, k) = Word(j, m) => i = j /\ k = m
    /\ \A i \in Images \cup {FactoryImage} : \A k :
        i.kind = "genuine" => Word(i, k) # Erased
<1>1. \A i, j, k, m : Word(i, k) = Word(j, m) => i = j /\ k = m
  <2> TAKE i, j, k, m
  <2> HAVE Word(i, k) = Word(j, m)
  <2>1. Word(i, k).image = Word(j, m).image /\ Word(i, k).at = Word(j, m).at
    OBVIOUS
  <2> QED
    BY <2>1 DEF Word
<1>2. ASSUME NEW i \in Images \cup {FactoryImage}, NEW k, i.kind = "genuine"
      PROVE  Word(i, k) # Erased
  <2>1. Word(i, k).image.kind = "genuine"
    BY <1>2 DEF Word
  <2>2. Erased.image.kind = "damaged"
    BY DEF Erased
  <2> QED
    BY <2>1, <2>2
<1> QED
  BY <1>1, <1>2

\* A slot holds one image at most.
LEMMA GoodIsUnique ==
    ASSUME TypeOK, NEW s \in Slots, NEW i \in Good(s), NEW j \in Good(s)
    PROVE  i = j
<1>1. /\ i \in Images \cup {FactoryImage} /\ j \in Images \cup {FactoryImage}
      /\ Holds(s, i) /\ Holds(s, j)
  BY DEF Good
<1>2. 0 \in 0 .. i.size - 1 /\ 0 \in 0 .. j.size - 1
  BY <1>1, ImagesAreTyped, OtaAssumption
<1>3. mem[Address(s, 0)] = Word(i, 0) /\ mem[Address(s, 0)] = Word(j, 0)
  BY <1>1, <1>2 DEF Holds
<1> QED
  BY <1>3, WordsDiffer

\* Steps that leave the flash alone leave the images alone.
LEMMA SameFlashSameImages ==
    ASSUME UNCHANGED <<layout, mem>>
    PROVE  \A s : Good(s)' = Good(s)
BY DEF Good, Holds, Address

\* A step that changes only the slot aside leaves what runs and the bootloader
\* alone.
LEMMA AsideKeepsBootable ==
    ASSUME TypeOK, Bootable, BindAccepts(layout),
           UNCHANGED <<layout, active, runs, counter>>,
           \A a \in Addresses :
               mem'[a] # mem[a] => a \in Cells(layout.slots[Other(active)])
    PROVE  Bootable'
<1>1. active \in Slots
  BY DEF TypeOK
<1>2. /\ runs \in Images \cup {FactoryImage} /\ runs.kind = "genuine"
      /\ runs.size <= layout.slots[active].size /\ Holds(active, runs)
      /\ runs.version >= counter
  BY DEF Bootable, RunsGood, Good
<1>3. ASSUME NEW k \in 0 .. runs.size - 1
      PROVE  mem'[Address(active, k)] = Word(runs, k)
  <2>1. k \in Nat /\ k < layout.slots[active].size
    BY <1>1, <1>2, ImagesAreTyped, LayoutsAreTyped, OtaAssumption
  <2>2. Address(active, k) \in Cells(layout.slots[active])
    BY <1>1, <2>1, AddressInSlot
  <2>3. Address(active, k) \notin Cells(layout.slots[Other(active)])
    BY <1>1, <2>2, RegionsAreDisjoint
  <2>4. Address(active, k) \in Addresses
    BY <2>2 DEF Cells
  <2> QED
    BY <1>2, <2>3, <2>4 DEF Holds
<1>4. RunsGood'
  BY <1>2, <1>3 DEF RunsGood, Good, Holds, Address
<1>5. ASSUME NEW a \in Cells(layout.bootloader) PROVE mem'[a] = LoaderWord
  <2>1. Other(active) \in Slots
    BY <1>1 DEF Slots, Other
  <2>2. a \notin Cells(layout.slots[Other(active)])
    BY <2>1, RegionsAreDisjoint
  <2>3. a \in Addresses
    BY DEF Cells
  <2> QED
    BY <2>2, <2>3 DEF Bootable, LoaderWhole
<1>6. LoaderWhole'
  BY <1>5 DEF LoaderWhole
<1> QED
  BY <1>4, <1>6 DEF Bootable

LEMMA SameFlashKeepsBootable ==
    ASSUME Bootable, UNCHANGED <<layout, mem, active, runs, counter>>
    PROVE  Bootable'
BY SameFlashSameImages DEF Bootable, RunsGood, LoaderWhole

\* What a changed word can mean for a slot: nothing new but the image being
\* downloaded.
WritesOnly(i) ==
    \A a \in Addresses :
        mem'[a] = mem[a] \/ mem'[a] = Erased \/ mem'[a].image = i

LEMMA NewImagesAreDownloads ==
    ASSUME TypeOK, layout' = layout, NEW i, WritesOnly(i), NEW s \in Slots,
           NEW j \in Good(s)', j # i
    PROVE  j \in Good(s)
<1>1. /\ j \in Images \cup {FactoryImage} /\ j.kind = "genuine"
      /\ j.size <= layout.slots[s].size
      /\ \A k \in 0 .. j.size - 1 : mem'[Address(s, k)] = Word(j, k)
  BY DEF Good, Holds, Address
<1>2. ASSUME NEW k \in 0 .. j.size - 1 PROVE mem[Address(s, k)] = Word(j, k)
  <2>1. Address(s, k) \in Addresses
    BY <1>1, AddressIsAddress, ImagesAreTyped
  <2>2. mem'[Address(s, k)] = Word(j, k)
    BY <1>1
  <2>3. Word(j, k) # Erased
    BY <1>1, WordsDiffer
  <2>4. Word(j, k).image # i
    BY DEF Word
  <2> QED
    BY <2>1, <2>2, <2>3, <2>4 DEF WritesOnly
<1> QED
  BY <1>1, <1>2 DEF Good, Holds

-----------------------------------------------------------------------------
(* The device as delivered *)

LEMMA FactoryWords ==
    ASSUME Init
    PROVE  TypeOK
<1>1. /\ layout \in Layouts /\ active \in Slots /\ runs = FactoryImage
      /\ counter = FactoryImage.version /\ pending = NoRecord /\ boot = "reset"
      /\ target = FreshTarget /\ core = CoreOff
  BY DEF Init
<1>2. FactoryImage.version \in Versions /\ FactoryImage.size \in 1 .. AddressSpace
  BY ImagesAreTyped
<1>3. ASSUME NEW k \in 0 .. AddressSpace + 1
      PROVE  /\ Word(FactoryImage, k) \in WordType
             /\ Erased \in WordType /\ LoaderWord \in WordType
  BY OtaAssumption DEF Word, WordType, Erased, LoaderWord
<1>4. mem \in [Addresses -> WordType]
  <2>1. ASSUME NEW a \in Addresses,
               \E k \in 0 .. FactoryImage.size - 1 : a = Address(active, k)
        PROVE  Word(FactoryImage, CHOOSE k \in 0 .. FactoryImage.size - 1 :
                                      a = Address(active, k)) \in WordType
    <3>1. (CHOOSE k \in 0 .. FactoryImage.size - 1 : a = Address(active, k))
            \in 0 .. FactoryImage.size - 1
      BY <2>1
    <3> QED
      BY <1>2, <1>3, <3>1, OtaAssumption
  <2>2. Erased \in WordType /\ LoaderWord \in WordType
    BY <1>3, OtaAssumption
  <2> QED
    BY <2>1, <2>2 DEF Init
<1>5. target \in [started : BOOLEAN, slot : Slots \cup {2},
                  size : 0 .. AddressSpace]
  BY <1>1, OtaAssumption DEF FreshTarget
<1>6. core \in [state : CoreStates, image : Images \cup {FactoryImage},
                sent : 0 .. AddressSpace, installed : Versions \cup {0}]
      /\ core.sent <= core.image.size
  BY <1>1, <1>2, OtaAssumption DEF CoreOff, CoreStates
<1> QED
  BY <1>1, <1>2, <1>4, <1>5, <1>6 DEF TypeOK

LEMMA FactoryIsSafe == Init => InductiveInvariant
<1> SUFFICES ASSUME Init PROVE InductiveInvariant
  OBVIOUS
<1>1. TypeOK
  BY FactoryWords
<1>2. /\ FactoryImage.size \in Nat /\ FactoryImage.size <= AddressSpace
      /\ FactoryImage.kind = "genuine" /\ FactoryImage.version \in Nat
      /\ FactoryImage.size <= layout.slots[active].size
      /\ active \in Slots
  BY ImagesAreTyped, OtaAssumption DEF Init
<1>3. Holds(active, FactoryImage)
  <2> SUFFICES ASSUME NEW k \in 0 .. FactoryImage.size - 1
               PROVE  mem[Address(active, k)] = Word(FactoryImage, k)
    BY DEF Holds
  <2> DEFINE m == CHOOSE x \in 0 .. FactoryImage.size - 1 :
                      Address(active, k) = Address(active, x)
  <2>1. m \in 0 .. FactoryImage.size - 1 /\ Address(active, k) = Address(active, m)
    OBVIOUS
  <2>2. m = k
    <3> HIDE DEF m
    <3>1. m \in 0 .. AddressSpace - 1 /\ k \in 0 .. AddressSpace - 1
      BY <1>2, <2>1, OtaAssumption
    <3> QED
      BY <1>1, <1>2, <2>1, <3>1, AddressInjective
  <2>3. Address(active, k) \in Addresses
    BY <1>1, <1>2, AddressIsAddress
  <2>4. mem[Address(active, k)] = Word(FactoryImage, m)
    BY <2>3 DEF Init
  <2> QED
    BY <2>2, <2>4
<1>4. RunsGood
  BY <1>2, <1>3 DEF Init, RunsGood, Good
<1>5. LoaderWhole
  <2> SUFFICES ASSUME BindAccepts(layout), NEW a \in Cells(layout.bootloader)
               PROVE  mem[a] = LoaderWord
    BY DEF LoaderWhole
  <2>1. ASSUME NEW k \in 0 .. FactoryImage.size - 1
        PROVE  a # Address(active, k)
    <3>1. k \in Nat /\ k < layout.slots[active].size
      BY <1>1, <1>2, LayoutsAreTyped
    <3>2. Address(active, k) \in Cells(layout.slots[active])
      BY <1>1, <1>2, <3>1, AddressInSlot
    <3> QED
      BY <1>1, <1>2, <3>2, RegionsAreDisjoint
  <2>2. a \in Addresses
    BY DEF Cells
  <2> QED
    BY <2>1, <2>2 DEF Init
<1>6. BoundFirst /\ DownloadAside
  BY DEF Init, BoundFirst, DownloadAside, CoreOff, FreshTarget
<1> QED
  BY <1>1, <1>4, <1>5, <1>6 DEF InductiveInvariant, Bootable

-----------------------------------------------------------------------------
(* Starting and confirming *)

LEMMA ResetKeeps ==
    ASSUME InductiveInvariant, Reset PROVE InductiveInvariant'
<1> USE DEF InductiveInvariant
<1>0. PICK s \in Slots : \E i \in Good(s) :
        i.version >= counter /\ active' = s /\ runs' = i
  BY DEF Reset
<1>1. PICK i \in Good(s) :
        i.version >= counter /\ active' = s /\ runs' = i
  BY <1>0
<1>2. i \in Images \cup {FactoryImage}
  BY <1>1 DEF Good
<1>3. FreshTarget \in [started : BOOLEAN, slot : Slots \cup {2},
                       size : 0 .. AddressSpace]
  BY OtaAssumption DEF FreshTarget
<1>4. CoreOff \in [state : CoreStates, image : Images \cup {FactoryImage},
                   sent : 0 .. AddressSpace, installed : Versions \cup {0}]
      /\ CoreOff.sent <= CoreOff.image.size
  BY ImagesAreTyped, OtaAssumption DEF CoreOff, CoreStates
<1>5. TypeOK'
  BY <1>1, <1>2, <1>3, <1>4 DEF TypeOK, Reset, storeVars
<1>6. Good(s)' = Good(s)
  BY SameFlashSameImages DEF Reset
<1>7. RunsGood'
  BY <1>1, <1>6 DEF RunsGood, Reset, storeVars
<1>8. LoaderWhole'
  BY DEF Bootable, LoaderWhole, Reset
<1>9. BoundFirst' /\ DownloadAside'
  BY DEF Reset, BoundFirst, DownloadAside, FreshTarget, CoreOff
<1> QED
  BY <1>5, <1>7, <1>8, <1>9 DEF Bootable

LEMMA BindKeeps ==
    ASSUME InductiveInvariant, Bind PROVE InductiveInvariant'
<1> USE DEF InductiveInvariant
<1>1. FreshTarget \in [started : BOOLEAN, slot : Slots \cup {2},
                       size : 0 .. AddressSpace]
  BY OtaAssumption DEF FreshTarget
<1>2. TypeOK'
  BY <1>1 DEF TypeOK, Bind, storeVars
<1>3. Bootable'
  BY SameFlashKeepsBootable DEF Bind, storeVars
<1>4. core = CoreOff
  BY DEF Bind, BoundFirst
<1>5. BoundFirst' /\ DownloadAside'
  BY <1>4 DEF Bind, BoundFirst, DownloadAside, FreshTarget, CoreOff
<1> QED
  BY <1>2, <1>3, <1>5

\* What is verified and confirmed is the image that executes.
LEMMA ConfirmsWhatRuns ==
    ASSUME TypeOK, Bootable, RecordUsable, CandidateVerified
    PROVE  pending.version = runs.version
<1>1. active \in Slots /\ pending.slot = active
  BY DEF TypeOK, RecordUsable
<1>2. PICK i \in Good(active) : i.version = pending.version
  BY <1>1 DEF CandidateVerified, AuthenticityHolds
<1>3. runs \in Good(active)
  BY DEF Bootable, RunsGood
<1> QED
  BY <1>1, <1>2, <1>3, GoodIsUnique

LEMMA ConfirmKeeps ==
    ASSUME InductiveInvariant, Confirm PROVE InductiveInvariant'
<1> USE DEF InductiveInvariant
<1>1. /\ boot = "confirm" /\ boot' \in {"confirm", "normal"}
      /\ UNCHANGED <<layout, mem, active, runs, target, core>>
  BY DEF Confirm
<1>2. pending' \in {pending, NoRecord}
  BY DEF Confirm, storeVars
<1>3. counter' = counter \/ counter' = runs.version
  BY ConfirmsWhatRuns DEF Confirm, storeVars
<1>4. runs.version \in Versions /\ runs.version \in Nat
  BY ImagesAreTyped DEF TypeOK
<1>5. TypeOK'
  BY <1>1, <1>2, <1>3, <1>4 DEF TypeOK
<1>6. Good(active)' = Good(active)
  BY <1>1, SameFlashSameImages
<1>7. Bootable'
  BY <1>1, <1>3, <1>4, <1>6 DEF Bootable, RunsGood, LoaderWhole
<1>8. core = CoreOff /\ ~target.started /\ BindAccepts(layout)
  BY <1>1 DEF BoundFirst
<1>9. BoundFirst' /\ DownloadAside'
  BY <1>1, <1>8 DEF BoundFirst, DownloadAside, CoreOff
<1> QED
  BY <1>5, <1>7, <1>9

-----------------------------------------------------------------------------
(* Downloading *)

\* What every step of a download does to the flash: only the slot aside is
\* changed, and only to nothing or to the image being downloaded.
AsideOnly ==
    \A a \in Addresses :
        mem'[a] # mem[a] => a \in Cells(layout.slots[Other(active)])
DownloadShape ==
    /\ mem' \in [Addresses -> WordType]
    /\ AsideOnly
    /\ \E i : WritesOnly(i) /\ i.version > counter

LEMMA ErasedIsWord == Erased \in WordType
BY OtaAssumption DEF WordType, Erased

LEMMA SameFlashShape ==
    ASSUME TypeOK, mem' = mem PROVE DownloadShape
<1> DEFINE any == [version |-> counter + 1]
<1>1. any.version > counter
  BY VersionsAreNumbers DEF TypeOK
<1>2. WritesOnly(any)
  BY DEF WritesOnly
<1> QED
  BY <1>1, <1>2 DEF TypeOK, DownloadShape, AsideOnly

\* Erasing any part of the slot aside has that shape.
LEMMA EraseShape ==
    ASSUME InductiveInvariant, NEW cells,
           cells \subseteq Cells(layout.slots[Other(active)]),
           EraseCells(cells)
    PROVE  DownloadShape
<1> DEFINE any == [version |-> counter + 1]
<1>1. mem \in [Addresses -> WordType]
  BY DEF InductiveInvariant, TypeOK
<1>2. mem' = [a \in Addresses |-> IF a \in cells THEN Erased ELSE mem[a]]
  BY DEF EraseCells
<1>3. mem' \in [Addresses -> WordType]
  BY <1>1, <1>2, ErasedIsWord
<1>4. AsideOnly
  BY <1>2 DEF AsideOnly
<1>5. WritesOnly(any)
  BY <1>2 DEF WritesOnly
<1>6. any.version > counter
  BY VersionsAreNumbers DEF InductiveInvariant, TypeOK
<1> QED
  BY <1>3, <1>4, <1>5, <1>6 DEF DownloadShape

\* So has programming a block within the declared size.
LEMMA ProgramShape ==
    ASSUME InductiveInvariant, core.state = "DOWNLOADING",
           NEW length \in 1 .. AddressSpace,
           BlockFits(core.sent, length),
           ProgramBlock(target.slot, core.sent, length)
    PROVE  DownloadShape
<1>1. /\ BindAccepts(layout) /\ TypeOK
      /\ target.slot = Other(active) /\ active \in Slots
      /\ target.size <= layout.slots[target.slot].size
      /\ target.size = core.image.size
      /\ core.image.version > core.installed /\ core.installed = counter
      /\ core.sent \in Nat /\ target.size \in Nat
      /\ core.image \in Images \cup {FactoryImage}
      /\ mem \in [Addresses -> WordType]
  <2>1. core # CoreOff
    BY DEF CoreOff
  <2>2. boot = "normal" /\ BindAccepts(layout)
    BY <2>1 DEF InductiveInvariant, BoundFirst
  <2> QED
    BY <2>2, OtaAssumption DEF InductiveInvariant, TypeOK, DownloadAside
<1> DEFINE s == target.slot
           block == core.sent .. core.sent + length - 1
           at(a) == CHOOSE k \in block : a = Address(s, k)
<1>2. s \in Slots
  BY <1>1 DEF Slots, Other
<1>3. mem' = [a \in Addresses |->
                IF \E k \in block : a = Address(s, k)
                THEN Word(core.image, at(a)) ELSE mem[a]]
  BY DEF ProgramBlock
<1>4. ASSUME NEW k \in block
      PROVE  k \in Nat /\ k < target.size /\ k <= AddressSpace + 1
  <2>1. core.sent + length <= target.size
    BY <1>1, OtaAssumption DEF BlockFits
  <2>2. target.size <= AddressSpace
    BY <1>1, ImagesAreTyped
  <2> QED
    BY <1>1, <2>1, <2>2, OtaAssumption
<1>5. \A a : (\E k \in block : a = Address(s, k)) => at(a) \in block
  OBVIOUS
<1>6. \A a : (\E k \in block : a = Address(s, k)) =>
        a \in Cells(layout.slots[s])
  <2> TAKE a
  <2> HAVE \E k \in block : a = Address(s, k)
  <2>1. PICK k \in block : a = Address(s, k)
    OBVIOUS
  <2>2. k \in Nat /\ k < layout.slots[s].size
    BY <1>1, <1>2, <1>4, LayoutsAreTyped, OtaAssumption
  <2> QED
    BY <1>1, <1>2, <2>1, <2>2, AddressInSlot
<1> HIDE DEF at, block
<1>7. \A a : (\E k \in block : a = Address(s, k)) =>
        Word(core.image, at(a)) \in WordType
  <2> TAKE a
  <2> HAVE \E k \in block : a = Address(s, k)
  <2>1. at(a) \in 0 .. AddressSpace + 1
    BY <1>4, <1>5, OtaAssumption
  <2> QED
    BY <1>1, <2>1 DEF Word, WordType
<1>8. mem' \in [Addresses -> WordType]
  BY <1>1, <1>3, <1>7
<1>9. AsideOnly
  BY <1>1, <1>3, <1>6 DEF AsideOnly
<1>10. WritesOnly(core.image)
  BY <1>3 DEF WritesOnly, Word
<1>11. core.image.version > counter
  BY <1>1
<1> QED
  BY <1>8, <1>9, <1>10, <1>11 DEF DownloadShape

\* The shape keeps what runs.
LEMMA ShapeKeepsBootable ==
    ASSUME InductiveInvariant, DownloadShape, boot = "normal",
           UNCHANGED <<layout, active, runs, counter>>
    PROVE  Bootable'
BY AsideKeepsBootable DEF InductiveInvariant, BoundFirst, DownloadShape, AsideOnly

\* The core's and the target's part of each step.
CoreKeeps == TypeOK' /\ BoundFirst' /\ DownloadAside'
DownloadStep ==
    DownloadShape /\ CoreKeeps /\ boot = "normal"
    /\ UNCHANGED <<layout, active, runs, boot, counter>>

LEMMA CoreIsBound ==
    ASSUME InductiveInvariant, core.state # "OFF" \/ target.started
    PROVE  boot = "normal" /\ BindAccepts(layout)
BY DEF InductiveInvariant, BoundFirst, CoreOff

LEMMA CoreType ==
    ASSUME TypeOK
    PROVE  /\ core \in [state : CoreStates, image : Images \cup {FactoryImage},
                         sent : 0 .. AddressSpace, installed : Versions \cup {0}]
           /\ core.sent <= core.image.size
           /\ \A s \in CoreStates :
                /\ [core EXCEPT !.state = s] \in
                     [state : CoreStates, image : Images \cup {FactoryImage},
                      sent : 0 .. AddressSpace, installed : Versions \cup {0}]
                /\ [core EXCEPT !.state = s].state = s
                /\ [core EXCEPT !.state = s].image = core.image
                /\ [core EXCEPT !.state = s].sent = core.sent
                /\ [core EXCEPT !.state = s].installed = core.installed
BY DEF TypeOK

\* The core moves on, or fails; nothing else happens.
LEMMA CoreMovesStep ==
    ASSUME InductiveInvariant, NEW s \in CoreStates \ {"OFF", "READY"}, CoreGoes(s),
           core.state # "OFF",
           s \in {"DOWNLOADING", "RECEIVED", "VERIFIED", "STAGED"} =>
               core.state \in {"DOWNLOADING", "RECEIVED", "VERIFIED", "STAGED"},
           UNCHANGED <<mem, target, counter, bootVars>>,
           pending' \in [slot : Slots, version : Versions, size : 1 .. AddressSpace]
                        \cup {NoRecord}
    PROVE  DownloadStep
<1>1. boot = "normal"
  BY CoreIsBound
<1>2. TypeOK'
  BY CoreType DEF InductiveInvariant, TypeOK, CoreGoes, bootVars
<1>3. BoundFirst' /\ DownloadAside'
  BY <1>1, CoreType DEF InductiveInvariant, BoundFirst, DownloadAside, CoreGoes,
     bootVars
<1> QED
  BY <1>1, <1>2, <1>3, SameFlashShape
     DEF DownloadStep, CoreKeeps, InductiveInvariant, bootVars

LEMMA CoreArmStep ==
    ASSUME InductiveInvariant, CoreArm PROVE DownloadStep
<1> DEFINE c == [state |-> "READY", image |-> FactoryImage, sent |-> 0,
                 installed |-> counter]
<1>1. core' = c /\ UNCHANGED <<mem, counter, pending, target, bootVars>>
      /\ boot = "normal"
  BY DEF CoreArm, storeVars
<1>2. counter \in Versions
  BY DEF InductiveInvariant, TypeOK
<1>3. /\ c \in [state : CoreStates, image : Images \cup {FactoryImage},
                sent : 0 .. AddressSpace, installed : Versions \cup {0}]
      /\ c.sent <= c.image.size /\ c.sent = 0 /\ c.state = "READY" /\ c.installed = counter
  BY <1>2, ImagesAreTyped, OtaAssumption DEF CoreStates
<1> HIDE DEF c
<1>4. TypeOK'
  BY <1>1, <1>3 DEF InductiveInvariant, TypeOK, bootVars
<1>5. BoundFirst' /\ DownloadAside'
  BY <1>1, <1>3 DEF InductiveInvariant, BoundFirst, DownloadAside, bootVars
<1> QED
  BY <1>1, <1>4, <1>5, SameFlashShape
     DEF DownloadStep, CoreKeeps, InductiveInvariant, bootVars

LEMMA RequestDownloadStep ==
    ASSUME InductiveInvariant, RequestDownload PROVE DownloadStep
<1> DEFINE s == Other(active)
<1>1. PICK i \in Images :
        /\ i.version > core.installed
        /\ \/ /\ MayBegin(s, i)
              /\ EraseCells(Cells(layout.slots[s]))
              /\ target' = [started |-> TRUE, slot |-> s, size |-> i.size]
              /\ core' = [core EXCEPT !.state = "DOWNLOADING", !.image = i]
           \/ /\ MayBegin(s, i)
              /\ \E part \in SUBSET Cells(layout.slots[s]) : EraseCells(part)
              /\ CoreGoes("FAILED")
              /\ UNCHANGED target
           \/ CoreGoes("FAILED") /\ UNCHANGED <<mem, target>>
  BY DEF RequestDownload
<1>2. /\ core.state = "READY" /\ UNCHANGED <<counter, pending, bootVars>>
      /\ boot = "normal" /\ BindAccepts(layout) /\ core.installed = counter
  BY CoreIsBound DEF RequestDownload, storeVars, InductiveInvariant, DownloadAside
<1>3. s \in Slots /\ TypeOK
  BY DEF Slots, Other, InductiveInvariant, TypeOK
<1>4. CASE /\ MayBegin(s, i)
           /\ EraseCells(Cells(layout.slots[s]))
           /\ target' = [started |-> TRUE, slot |-> s, size |-> i.size]
           /\ core' = [core EXCEPT !.state = "DOWNLOADING", !.image = i]
  <2>1. DownloadShape
    BY <1>4, EraseShape
  <2>2. i.size \in 0 .. AddressSpace /\ i.size \in Nat
    BY ImagesAreTyped, OtaAssumption
  <2>3. /\ target' \in [started : BOOLEAN, slot : Slots \cup {2},
                        size : 0 .. AddressSpace]
        /\ target'.started /\ target'.slot = s /\ target'.size = i.size
    BY <1>3, <1>4, <2>2
  <2>4. core' = [core EXCEPT !.state = "DOWNLOADING", !.image = i]
    BY <1>4
  <2>5. /\ core' \in [state : CoreStates, image : Images \cup {FactoryImage},
                      sent : 0 .. AddressSpace, installed : Versions \cup {0}]
        /\ core'.sent = core.sent /\ core'.image = i
        /\ core'.state = "DOWNLOADING" /\ core'.installed = core.installed
    BY <1>3, <2>4, CoreType DEF CoreStates
  <2>6. core.sent = 0
    BY <1>2 DEF InductiveInvariant, DownloadAside
  <2>7. TypeOK'
    BY <1>2, <1>3, <2>1, <2>2, <2>3, <2>5, <2>6
       DEF TypeOK, DownloadShape, bootVars
  <2>8. i.size <= layout.slots[s].size
    BY <1>4 DEF MayBegin
  <2>9. BoundFirst' /\ DownloadAside'
    BY <1>1, <1>2, <2>3, <2>5, <2>8
       DEF BoundFirst, DownloadAside, InductiveInvariant, bootVars
  <2> QED
    BY <1>2, <2>1, <2>7, <2>9 DEF DownloadStep, CoreKeeps, bootVars
<1>5. CASE /\ \E part \in SUBSET Cells(layout.slots[s]) : EraseCells(part)
           /\ CoreGoes("FAILED")
           /\ UNCHANGED target
  <2>1. DownloadShape
    BY <1>5, EraseShape
  <2>2. TypeOK'
    BY <1>2, <1>3, <1>5, <2>1, CoreType
       DEF TypeOK, DownloadShape, CoreGoes, CoreStates, bootVars
  <2>3. BoundFirst' /\ DownloadAside'
    BY <1>2, <1>3, <1>5, CoreType
       DEF BoundFirst, DownloadAside, InductiveInvariant, CoreGoes, CoreStates,
           bootVars
  <2> QED
    BY <1>2, <2>1, <2>2, <2>3 DEF DownloadStep, CoreKeeps, bootVars
<1>6. CASE CoreGoes("FAILED") /\ UNCHANGED <<mem, target>>
  <2>1. "FAILED" \in CoreStates \ {"OFF", "READY"}
    BY DEF CoreStates
  <2>2. pending' \in [slot : Slots, version : Versions, size : 1 .. AddressSpace]
                     \cup {NoRecord}
    BY <1>2, <1>3 DEF TypeOK
  <2> QED
    BY <1>2, <1>6, <2>1, <2>2, CoreMovesStep
<1> QED
  BY <1>1, <1>4, <1>5, <1>6

LEMMA TransferDataStep ==
    ASSUME InductiveInvariant, TransferData PROVE DownloadStep
<1>1. PICK length \in 1 .. AddressSpace :
        /\ BlockFits(core.sent, length)
        /\ ProgramBlock(target.slot, core.sent, length)
        /\ core' \in {[core EXCEPT !.sent = @ + length],
                      [core EXCEPT !.state = "FAILED"]}
  BY DEF TransferData
<1>2. /\ core.state = "DOWNLOADING" /\ boot = "normal" /\ TypeOK
      /\ UNCHANGED <<counter, pending, target, bootVars>>
  BY CoreIsBound DEF TransferData, storeVars, InductiveInvariant
<1>3. DownloadShape
  BY <1>1, <1>2, ProgramShape
<1>4. core.sent + length \in 0 .. AddressSpace
      /\ core.sent + length <= core.image.size
  <2>1. /\ target.size = core.image.size /\ core.sent \in Nat
        /\ target.size \in 0 .. AddressSpace
    BY <1>2 DEF InductiveInvariant, DownloadAside, TypeOK
  <2> QED
    BY <1>1, <2>1, OtaAssumption DEF BlockFits
<1>5. /\ core' \in [state : CoreStates, image : Images \cup {FactoryImage},
                    sent : 0 .. AddressSpace, installed : Versions \cup {0}]
      /\ core'.sent <= core'.image.size
      /\ core'.image = core.image /\ core'.installed = core.installed
      /\ core'.state \in {"DOWNLOADING", "FAILED"}
  BY <1>1, <1>2, <1>4, CoreType DEF CoreStates
<1>6. TypeOK'
  BY <1>2, <1>3, <1>5 DEF TypeOK, DownloadShape, bootVars
<1>7. BoundFirst' /\ DownloadAside'
  BY <1>2, <1>5 DEF BoundFirst, DownloadAside, InductiveInvariant, bootVars
<1> QED
  BY <1>2, <1>3, <1>6, <1>7 DEF DownloadStep, CoreKeeps, bootVars

LEMMA AbortStep ==
    ASSUME InductiveInvariant, Abort PROVE DownloadStep
<1> DEFINE t == [started |-> FALSE, slot |-> target.slot, size |-> 0]
<1>1. /\ core.state # "OFF" /\ boot = "normal" /\ TypeOK
      /\ target' = t /\ core' = CoreOff /\ UNCHANGED <<counter, bootVars>>
  BY CoreIsBound DEF Abort, InductiveInvariant
<1>2. pending' \in {pending, NoRecord}
  BY DEF Abort
<1>3. DownloadShape
  <2>1. CASE mem' = mem
    BY <1>1, <2>1, SameFlashShape
  <2>2. CASE target.started /\ EraseCells(Cells(layout.slots[target.slot]))
    <3>1. target.slot = Other(active)
      BY <2>2 DEF InductiveInvariant, DownloadAside
    <3> QED
      BY <2>2, <3>1, EraseShape
  <2> QED
    BY <2>1, <2>2 DEF Abort
<1>4. t \in [started : BOOLEAN, slot : Slots \cup {2}, size : 0 .. AddressSpace]
      /\ ~t.started
  BY <1>1, OtaAssumption DEF TypeOK
<1>5. /\ CoreOff \in [state : CoreStates, image : Images \cup {FactoryImage},
                      sent : 0 .. AddressSpace, installed : Versions \cup {0}]
      /\ CoreOff.sent <= CoreOff.image.size /\ CoreOff.state = "OFF"
  BY ImagesAreTyped, OtaAssumption DEF CoreOff, CoreStates
<1> HIDE DEF t
<1>6. TypeOK'
  BY <1>1, <1>2, <1>3, <1>4, <1>5 DEF TypeOK, DownloadShape, bootVars
<1>7. BoundFirst' /\ DownloadAside'
  BY <1>1, <1>4, <1>5 DEF BoundFirst, DownloadAside, InductiveInvariant, bootVars
<1> QED
  BY <1>1, <1>3, <1>6, <1>7 DEF DownloadStep, CoreKeeps, bootVars

\* A core that has been started on an image cannot commit: the slot it wrote
\* is not the one that executes.
LEMMA NothingCommitsWhileOldRuns ==
    ASSUME InductiveInvariant, core.state = "STAGED" PROVE ~MayCommit
<1>1. target.slot = Other(active) /\ active \in Slots
  BY DEF InductiveInvariant, DownloadAside, TypeOK
<1> QED
  BY <1>1 DEF MayCommit, Slots, Other

LEMMA DownloadIsDownloadStep ==
    ASSUME InductiveInvariant, Download PROVE DownloadStep
<1> DEFINE moving == {"DOWNLOADING", "RECEIVED", "VERIFIED", "STAGED"}
<1>1. /\ TypeOK
      /\ pending \in [slot : Slots, version : Versions, size : 1 .. AddressSpace]
                     \cup {NoRecord}
      /\ {"RECEIVED", "VERIFIED", "STAGED", "FAILED"}
            \subseteq CoreStates \ {"OFF", "READY"}
  BY DEF InductiveInvariant, TypeOK, CoreStates
<1>2. CASE CoreArm
  BY <1>2, CoreArmStep
<1>3. CASE RequestDownload
  BY <1>3, RequestDownloadStep
<1>4. CASE TransferData
  BY <1>4, TransferDataStep
<1>5. CASE TransferExit
  BY <1>1, <1>5, CoreMovesStep DEF TransferExit, storeVars
<1>6. CASE CheckMemory
  BY <1>1, <1>6, CoreMovesStep DEF CheckMemory, storeVars
<1>7. CASE StageForReset
  <2>1. core.state = "VERIFIED" /\ UNCHANGED <<mem, target, counter, bootVars>>
        /\ pending' = Record(target.slot, core.image)
        /\ (CoreGoes("STAGED") \/ CoreGoes("FAILED"))
    BY <1>7 DEF StageForReset
  <2>2. /\ target.slot \in Slots /\ core.image \in Images \cup {FactoryImage}
    BY <2>1 DEF InductiveInvariant, DownloadAside, TypeOK, Slots, Other
  <2>3. core.image.version \in Versions /\ core.image.size \in 1 .. AddressSpace
    BY <2>2, ImagesAreTyped, OtaAssumption
  <2>4. pending' \in [slot : Slots, version : Versions, size : 1 .. AddressSpace]
    BY <2>1, <2>2, <2>3 DEF Record
  <2> QED
    BY <1>1, <2>1, <2>4, CoreMovesStep
<1>8. CASE ConfirmBoot
  <2>1. core.state = "STAGED" /\ UNCHANGED bootVars
    BY <1>8 DEF ConfirmBoot
  <2>2. CoreFails
    BY <1>8, <2>1, NothingCommitsWhileOldRuns DEF ConfirmBoot
  <2> QED
    BY <1>1, <2>1, <2>2, CoreMovesStep DEF CoreFails, storeVars
<1>9. CASE HookFails
  BY <1>1, <1>9, CoreMovesStep DEF HookFails, CoreFails, storeVars
<1>10. CASE Abort
  BY <1>10, AbortStep
<1> QED
  BY <1>2, <1>3, <1>4, <1>5, <1>6, <1>7, <1>8, <1>9, <1>10 DEF Download

LEMMA StepKeeps ==
    ASSUME InductiveInvariant, [Next]_vars PROVE InductiveInvariant'
<1>1. CASE Reset
  BY <1>1, ResetKeeps
<1>2. CASE Bind
  BY <1>2, BindKeeps
<1>3. CASE Confirm
  BY <1>3, ConfirmKeeps
<1>4. CASE Download
  <2>1. DownloadStep
    BY <1>4, DownloadIsDownloadStep
  <2>2. Bootable'
    BY <2>1, ShapeKeepsBootable DEF DownloadStep
  <2> QED
    BY <2>1, <2>2 DEF DownloadStep, CoreKeeps, InductiveInvariant
<1>5. CASE UNCHANGED vars
  <2>1. Bootable'
    BY <1>5, SameFlashKeepsBootable DEF vars, InductiveInvariant
  <2>2. TypeOK'
    BY <1>5 DEF vars, InductiveInvariant, TypeOK
  <2>3. BoundFirst' /\ DownloadAside'
    BY <1>5 DEF vars, InductiveInvariant, BoundFirst, DownloadAside
  <2> QED
    BY <2>1, <2>2, <2>3 DEF InductiveInvariant
<1> QED
  BY <1>1, <1>2, <1>3, <1>4, <1>5 DEF Next

-----------------------------------------------------------------------------
(* Refinement *)

LEMMA GoodVersionsAre ==
    /\ \A v : v \in GoodVersions <=> \E s \in Slots : \E i \in Good(s) : v = i.version
    /\ \A v : v \in GoodVersions' <=>
                \E s \in Slots : \E i \in Good(s)' : v = i.version
BY DEF GoodVersions

LEMMA GoodVersionsTyped ==
    /\ GoodVersions \in SUBSET Versions
    /\ GoodVersions' \in SUBSET Versions
<1>1. \A s \in Slots : \A i \in Good(s) : i \in Images \cup {FactoryImage}
  BY DEF Good
<1>2. \A s \in Slots : \A i \in Good(s)' : i \in Images \cup {FactoryImage}
  BY DEF Good
<1> QED
  BY <1>1, <1>2, GoodVersionsAre, ImagesAreTyped

LEMMA WhatRunsIsGood ==
    /\ TypeOK /\ Bootable => runs.version \in GoodVersions
    /\ (TypeOK /\ Bootable)' => (runs.version)' \in GoodVersions'
BY GoodVersionsAre DEF TypeOK, Bootable, RunsGood

LEMMA SameFlashSameVersions ==
    ASSUME UNCHANGED <<layout, mem>> PROVE GoodVersions' = GoodVersions
BY SameFlashSameImages DEF GoodVersions

LEMMA InitImplements == Init => Promise!Init
<1> SUFFICES ASSUME Init PROVE Promise!Init
  OBVIOUS
<1>1. TypeOK /\ Bootable
  BY FactoryIsSafe DEF InductiveInvariant
<1>2. runs.version >= counter /\ counter \in Versions
  BY <1>1 DEF TypeOK, Bootable, RunsGood
<1> QED
  BY <1>1, <1>2, GoodVersionsTyped, WhatRunsIsGood DEF Promise!Init

\* A step of a download installs, gives up or replaces a version aside.
LEMMA DownloadImplementsInstall ==
    ASSUME InductiveInvariant, Download PROVE Promise!Install
<1>1. DownloadStep /\ TypeOK /\ counter \in Nat
  BY DownloadIsDownloadStep, VersionsAreNumbers DEF InductiveInvariant, TypeOK
<1>2. InductiveInvariant'
  BY StepKeeps DEF Next
<1>3. PICK d : WritesOnly(d) /\ d.version > counter
  BY <1>1 DEF DownloadStep, DownloadShape
<1>4. ASSUME NEW v \in GoodVersions' \ GoodVersions PROVE v > counter
  <2>1. PICK s \in Slots : \E i \in Good(s)' : v = i.version
    BY GoodVersionsAre
  <2>2. PICK i \in Good(s)' : v = i.version
    BY <2>1
  <2>3. i \notin Good(s)
    BY <2>2, GoodVersionsAre
  <2>4. i = d
    BY <1>1, <1>3, <2>2, <2>3, NewImagesAreDownloads DEF DownloadStep
  <2> QED
    BY <1>3, <2>2, <2>4
<1>5. runs.version \in GoodVersions' /\ (runs.version)' = runs.version
      /\ counter' = counter
  BY <1>1, <1>2, WhatRunsIsGood DEF DownloadStep, InductiveInvariant
<1> QED
  BY <1>4, <1>5, GoodVersionsTyped DEF Promise!Install

LEMMA StepImplements ==
    ASSUME InductiveInvariant, [Next]_vars PROVE [Promise!Next]_(Promise!device)
<1>1. CASE Reset
  <2>1. PICK s \in Slots : \E i \in Good(s) :
            i.version >= counter /\ active' = s /\ runs' = i
    BY <1>1 DEF Reset
  <2>2. PICK i \in Good(s) : i.version >= counter /\ runs' = i
    BY <2>1
  <2>3. i.version \in GoodVersions
    BY <2>2, GoodVersionsAre
  <2>4. GoodVersions' = GoodVersions /\ counter' = counter
    BY <1>1, SameFlashSameVersions DEF Reset, storeVars
  <2>5. Promise!Boot
    BY <2>2, <2>3, <2>4 DEF Promise!Boot
  <2> QED
    BY <2>5 DEF Promise!Next
<1>2. CASE Bind
  BY <1>2, SameFlashSameVersions DEF Bind, storeVars, Promise!device
<1>3. CASE Confirm
  <2>1. GoodVersions' = GoodVersions /\ runs' = runs
    BY <1>3, SameFlashSameVersions DEF Confirm
  <2>2. CASE counter' = counter
    BY <2>1, <2>2 DEF Promise!device
  <2>3. CASE counter' # counter
    <3>1. RecordUsable /\ CandidateVerified /\ pending.version > counter
          /\ counter' = pending.version
      BY <1>3, <2>3 DEF Confirm, storeVars
    <3>2. pending.version = runs.version
      BY <3>1, ConfirmsWhatRuns DEF InductiveInvariant
    <3>3. Promise!Confirm
      BY <2>1, <3>1, <3>2 DEF Promise!Confirm
    <3> QED
      BY <3>3 DEF Promise!Next
  <2> QED
    BY <2>2, <2>3
<1>4. CASE Download
  BY <1>4, DownloadImplementsInstall DEF Promise!Next
<1>5. CASE UNCHANGED vars
  BY <1>5, SameFlashSameVersions DEF vars, Promise!device
<1> QED
  BY <1>1, <1>2, <1>3, <1>4, <1>5 DEF Next

\* Flash changes only in the slot that does not execute.
LEMMA StepIsConfined ==
    ASSUME InductiveInvariant, [Next]_vars PROVE AsideOnly
<1>1. CASE Download
  BY <1>1, DownloadIsDownloadStep DEF DownloadStep, DownloadShape
<1>2. CASE mem' = mem
  BY <1>2 DEF AsideOnly
<1>3. CASE Reset \/ Bind \/ Confirm
  BY <1>2, <1>3 DEF Reset, Bind, Confirm
<1> QED
  BY <1>1, <1>2, <1>3 DEF Next, vars

-----------------------------------------------------------------------------
(* Theorems *)

\* The state the update target, the core, the flash and the protected storage
\* are in after any sequence of calls, failures and resets.
THEOREM OtaInvariantHolds == Spec => []InductiveInvariant
<1>1. Init => InductiveInvariant
  BY FactoryIsSafe
<1>2. InductiveInvariant /\ [Next]_vars => InductiveInvariant'
  BY StepKeeps
<1> QED
  BY <1>1, <1>2, PTL DEF Spec

\* Every variable keeps its type; a download never sends past its image.
THEOREM OtaTypeCorrect == Spec => []TypeOK
<1>1. InductiveInvariant => TypeOK
  BY DEF InductiveInvariant
<1> QED
  BY <1>1, OtaInvariantHolds, PTL

\* Whatever hook fails and whenever the processor is reset, the bootloader is
\* whole and the executing image can be booted again.
THEOREM AlwaysBootable == Spec => []Bootable
<1>1. InductiveInvariant => Bootable
  BY DEF InductiveInvariant
<1> QED
  BY <1>1, OtaInvariantHolds, PTL

\* No erase and no block reaches outside the slot that does not execute.
THEOREM FlashIsConfined == Spec => FlashConfined
<1>1. InductiveInvariant /\ [Next]_vars =>
        [\A a \in Addresses :
            mem'[a] # mem[a] => a \in Cells(layout.slots[Other(active)])]_vars
  BY StepIsConfined DEF AsideOnly
<1> QED
  BY <1>1, OtaInvariantHolds, PTL DEF Spec, FlashConfined

\* The update target implements the promise of AntiRollback.
THEOREM OtaImplementsAntiRollback == Spec => AntiRollbackKept
<1>1. Init => Promise!Init
  BY InitImplements
<1>2. InductiveInvariant /\ [Next]_vars => [Promise!Next]_(Promise!device)
  BY StepImplements
<1> QED
  BY <1>1, <1>2, OtaInvariantHolds, PTL DEF Spec, AntiRollbackKept, Promise!Spec
=============================================================================
