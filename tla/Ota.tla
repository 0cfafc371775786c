--------------------------------- MODULE Ota ---------------------------------
(***************************************************************************)
(* The STM32F767 update target (src/embedded/stm32f767_ota.c): the hooks   *)
(* it gives to Link's bootloader core, and the confirmation after boot.    *)
(* The product supplies the flash layout and the operations on flash and   *)
(* protected storage; any of them may fail, and the processor may be reset *)
(* between any two steps.                                                  *)
(*                                                                         *)
(* Flash is a function from addresses to words; a word says which image it *)
(* belongs to and where, so that what an erase or a misplaced block does   *)
(* to its neighbours is visible.                                           *)
(***************************************************************************)
EXTENDS Naturals

CONSTANTS
    AddressSpace,   \* 2^32
    Layouts,        \* flash layouts a product may supply
    Images,         \* images a tester may send
    FactoryImage    \* what the device was delivered with

Slots == {0, 1}
Other(s) == 1 - s
Addresses == 0 .. AddressSpace - 1
RangeType == [base : Addresses, size : 0 .. AddressSpace]
LayoutType ==
    [flash : RangeType, bootloader : RangeType, slots : [Slots -> RangeType]]
Kinds == {"genuine", "forged", "damaged"}
ImageType == [version : Nat, size : 1 .. AddressSpace, kind : Kinds]
Versions == {i.version : i \in Images} \cup {FactoryImage.version}

ASSUME OtaAssumption ==
    /\ AddressSpace \in Nat \ {0}
    /\ Layouts \subseteq LayoutType
    /\ Images \subseteq ImageType
    /\ FactoryImage \in ImageType /\ FactoryImage.kind = "genuine"
    /\ \A l \in Layouts, s \in Slots : FactoryImage.size <= l.slots[s].size

\* What an address holds: word `at` of an image, the bootloader, or nothing.
Word(i, k) == [image |-> i, at |-> k]
Erased == [image |-> [version |-> 0, size |-> 1, kind |-> "damaged"], at |-> AddressSpace]
LoaderWord == [Erased EXCEPT !.at = AddressSpace + 1]
WordType ==
    [image : Images \cup {FactoryImage, Erased.image}, at : 0 .. AddressSpace + 1]

NoRecord == [slot |-> 2, version |-> 0, size |-> 0]
Record(s, i) == [slot |-> s, version |-> i.version, size |-> i.size]

VARIABLES
    layout,     \* config: flash, bootloader, slots
    mem,        \* flash contents
    active,     \* the slot that executes (read_active_slot)
    runs,       \* the image that executes
    counter,    \* the protected monotonic version
    pending,    \* the protected pending-candidate record
    boot,       \* how far the firmware is after a reset
    target,     \* MblinkStm32f767OtaTarget: started, slot, size
    core        \* Link's bootloader core: state, image, sent, installed

storeVars == <<counter, pending>>
bootVars == <<layout, active, runs, boot>>
vars == <<layout, mem, active, runs, counter, pending, boot, target, core>>

FreshTarget == [started |-> FALSE, slot |-> 2, size |-> 0]
CoreOff ==
    [state |-> "OFF", image |-> FactoryImage, sent |-> 0, installed |-> 0]
CoreStates ==
    {"OFF", "READY", "DOWNLOADING", "RECEIVED", "VERIFIED", "STAGED",
     "COMPLETE", "FAILED"}

-----------------------------------------------------------------------------
(* The layout.                                                             *)

Cells(r) == {a \in Addresses : r.base <= a /\ a < r.base + r.size}

\* contains and overlaps; the sums are 64 bits wide.
Contains(outer, inner) ==
    /\ outer.size # 0 /\ inner.size # 0
    /\ inner.base >= outer.base
    /\ inner.base + inner.size <= outer.base + outer.size
    /\ outer.base + outer.size <= AddressSpace
Overlaps(a, b) == a.base < b.base + b.size /\ b.base < a.base + a.size

BindAccepts(l) ==
    /\ Contains(l.flash, l.bootloader)
    /\ \A s \in Slots :
        Contains(l.flash, l.slots[s]) /\ ~Overlaps(l.bootloader, l.slots[s])
    /\ ~Overlaps(l.slots[0], l.slots[1])

\* The address write_block computes is 32 bits wide.
Address(s, offset) == (layout.slots[s].base + offset) % AddressSpace

Holds(s, i) ==
    \A k \in 0 .. i.size - 1 : mem[Address(s, k)] = Word(i, k)
Good(s) ==
    {i \in Images \cup {FactoryImage} :
        i.kind = "genuine" /\ i.size <= layout.slots[s].size /\ Holds(s, i)}

-----------------------------------------------------------------------------
(* Start-up.                                                               *)

\* The boot ROM (external) starts any slot whose image is complete and
\* authentic and not older than the protected version.  RAM is lost.
Reset ==
    /\ \E s \in Slots : \E i \in Good(s) :
        /\ i.version >= counter
        /\ active' = s /\ runs' = i
    /\ boot' = "reset"
    /\ target' = FreshTarget
    /\ core' = CoreOff
    /\ UNCHANGED <<layout, mem, storeVars>>

\* mblink_stm32f767_ota_bind; a device that refuses runs without updates.
Bind ==
    /\ boot = "reset"
    /\ boot' = IF BindAccepts(layout) THEN "confirm" ELSE "unbound"
    /\ target' = FreshTarget
    /\ UNCHANGED <<layout, mem, active, runs, storeVars, core>>

\* verify_integrity, verify_authenticity and secure_boot_validate (hooks).
IntegrityHolds(s, version, size) ==
    \E i \in Images \cup {FactoryImage} :
        i.version = version /\ i.size = size /\ i.kind # "damaged" /\ Holds(s, i)
AuthenticityHolds(s, version, size) ==
    \E i \in Good(s) : i.version = version /\ i.size = size
SecureBootValid(s, version) == \E i \in Good(s) : i.version = version

\* What mblink_stm32f767_ota_confirm_after_boot checks before it writes.
\* Slip: the running slot is not looked at.
RecordUsableAnySlot ==
    /\ pending.slot \in Slots
    /\ pending.size # 0 /\ pending.size <= layout.slots[pending.slot].size
    /\ pending.version >= counter
RecordUsable ==
    /\ pending.slot \in Slots /\ active = pending.slot
    /\ pending.size # 0 /\ pending.size <= layout.slots[pending.slot].size
    /\ pending.version >= counter
CandidateVerified ==
    /\ IntegrityHolds(pending.slot, pending.version, pending.size)
    /\ AuthenticityHolds(pending.slot, pending.version, pending.size)
    /\ SecureBootValid(pending.slot, pending.version)

\* The record is cleared last; the clearing may fail, or a reset may come
\* first.  A confirmation that fails may be tried again.
Confirm ==
    /\ boot = "confirm"
    /\ boot' \in {"confirm", "normal"}
    /\ \/ UNCHANGED storeVars
       \/ /\ RecordUsable /\ pending.version = counter
          /\ pending' = NoRecord
          /\ UNCHANGED counter
       \/ /\ RecordUsable /\ pending.version > counter /\ CandidateVerified
          /\ counter' = pending.version
          /\ pending' \in {pending, NoRecord}
    /\ UNCHANGED <<layout, mem, active, runs, target, core>>

-----------------------------------------------------------------------------
(* The backend, driven by Link's core (external).  fails is a hook that    *)
(* reports failure.                                                        *)

CoreGoes(state) == core' = [core EXCEPT !.state = state]
CoreFails == CoreGoes("FAILED") /\ UNCHANGED <<mem, storeVars, target>>

\* arm, programming session, security access and quiescing.
CoreArm ==
    /\ boot = "normal"
    /\ core.state \in {"OFF", "FAILED", "COMPLETE"}
    /\ core' = [state |-> "READY", image |-> FactoryImage, sent |-> 0,
                installed |-> counter]
    /\ UNCHANGED <<mem, storeVars, target, bootVars>>

EraseCells(cells) ==
    mem' = [a \in Addresses |-> IF a \in cells THEN Erased ELSE mem[a]]

\* begin_image's conditions.  Slip: the size of the slot is not looked at.
MayBeginAnySize(s, i) == ~target.started /\ s # active
MayBegin(s, i) ==
    /\ ~target.started
    /\ s # active
    /\ i.size <= layout.slots[s].size

\* request_download: select_inactive_slot, begin_image.  An erase that fails
\* may have erased a part.
RequestDownload ==
    /\ core.state = "READY"
    /\ \E i \in Images :
        LET s == Other(active) IN
        /\ i.version > core.installed
        /\ \/ /\ MayBegin(s, i)
              /\ EraseCells(Cells(layout.slots[s]))
              /\ target' = [started |-> TRUE, slot |-> s, size |-> i.size]
              /\ core' = [core EXCEPT !.state = "DOWNLOADING", !.image = i]
           \/ /\ MayBegin(s, i)
              /\ \E part \in SUBSET Cells(layout.slots[s]) : EraseCells(part)
              /\ CoreGoes("FAILED")
              /\ UNCHANGED target
           \/ CoreGoes("FAILED") /\ UNCHANGED <<mem, target>>
    /\ UNCHANGED <<storeVars, bootVars>>

\* write_block's bounds.  Slip: one word too many.
BlockFitsPastEnd(offset, length) == offset + length <= target.size + 1
BlockFits(offset, length) ==
    offset <= target.size /\ length <= target.size - offset

\* Cells that write_block programs, and what it puts there.
ProgramBlock(s, offset, length) ==
    mem' = [a \in Addresses |->
        IF \E k \in offset .. offset + length - 1 : a = Address(s, k)
        THEN Word(core.image,
                  CHOOSE k \in offset .. offset + length - 1 : a = Address(s, k))
        ELSE mem[a]]

TransferData ==
    /\ core.state = "DOWNLOADING"
    /\ \E length \in 1 .. AddressSpace :
        /\ target.started /\ target.slot # active
        /\ BlockFits(core.sent, length)
        /\ ProgramBlock(target.slot, core.sent, length)
        /\ core' \in {[core EXCEPT !.sent = @ + length],
                      [core EXCEPT !.state = "FAILED"]}
    /\ UNCHANGED <<storeVars, target, bootVars>>

TransferExit ==
    /\ core.state = "DOWNLOADING" /\ core.sent = target.size
    /\ CoreGoes("RECEIVED")
    /\ UNCHANGED <<mem, storeVars, target, bootVars>>

CheckMemory ==
    /\ core.state = "RECEIVED"
    /\ IntegrityHolds(target.slot, core.image.version, target.size)
    /\ AuthenticityHolds(target.slot, core.image.version, target.size)
    /\ CoreGoes("VERIFIED")
    /\ UNCHANGED <<mem, storeVars, target, bootVars>>

\* stage, then secure_boot.
StageForReset ==
    /\ core.state = "VERIFIED" /\ target.started
    /\ pending' = Record(target.slot, core.image)
    /\ \/ SecureBootValid(target.slot, core.image.version) /\ CoreGoes("STAGED")
       \/ CoreGoes("FAILED")
    /\ UNCHANGED <<counter, mem, target, bootVars>>

\* commit_version: never while the old slot still executes.
\* Slip: without looking at the slot that executes.
MayCommitAnySlot == target.started
MayCommit == target.started /\ active = target.slot
ConfirmBoot ==
    /\ core.state = "STAGED"
    /\ IF MayCommit
       THEN /\ counter' = core.image.version
            /\ CoreGoes("COMPLETE")
            /\ UNCHANGED <<mem, pending, target>>
       ELSE CoreFails
    /\ UNCHANGED bootVars

\* Any hook of a running download may report failure.
HookFails ==
    /\ core.state \in {"READY", "DOWNLOADING", "RECEIVED", "VERIFIED"}
    /\ CoreFails
    /\ UNCHANGED bootVars

\* abort_image: abort_slot may invalidate the slot, clearing the record may
\* fail.
Abort ==
    /\ core.state # "OFF"
    /\ IF target.started
       THEN /\ \/ UNCHANGED mem
               \/ EraseCells(Cells(layout.slots[target.slot]))
            /\ pending' \in {pending, NoRecord}
       ELSE UNCHANGED <<mem, pending>>
    /\ target' = [started |-> FALSE, slot |-> target.slot, size |-> 0]
    /\ core' = CoreOff
    /\ UNCHANGED <<counter, bootVars>>

-----------------------------------------------------------------------------
Init ==
    /\ layout \in Layouts
    /\ active \in Slots
    /\ runs = FactoryImage
    /\ mem = [a \in Addresses |->
                IF \E k \in 0 .. FactoryImage.size - 1 : a = Address(active, k)
                THEN Word(FactoryImage,
                          CHOOSE k \in 0 .. FactoryImage.size - 1 :
                              a = Address(active, k))
                ELSE IF a \in Cells(layout.bootloader) THEN LoaderWord
                ELSE Erased]
    /\ counter = FactoryImage.version
    /\ pending = NoRecord
    /\ boot = "reset"
    /\ target = FreshTarget
    /\ core = CoreOff

Download ==
    \/ CoreArm \/ RequestDownload \/ TransferData \/ TransferExit
    \/ CheckMemory \/ StageForReset \/ ConfirmBoot \/ HookFails \/ Abort

Next == Reset \/ Bind \/ Confirm \/ Download

Spec == Init /\ [][Next]_vars

-----------------------------------------------------------------------------
(* Properties.                                                             *)

TypeOK ==
    /\ layout \in Layouts
    /\ mem \in [Addresses -> WordType]
    /\ active \in Slots
    /\ runs \in Images \cup {FactoryImage}
    /\ counter \in Versions
    /\ pending \in [slot : Slots, version : Versions, size : 1 .. AddressSpace]
                   \cup {NoRecord}
    /\ boot \in {"reset", "unbound", "confirm", "normal"}
    /\ target \in [started : BOOLEAN, slot : Slots \cup {2},
                   size : 0 .. AddressSpace]
    /\ core \in [state : CoreStates, image : Images \cup {FactoryImage},
                 sent : 0 .. AddressSpace, installed : Versions \cup {0}]
    /\ core.sent <= core.image.size

RunsGood == runs \in Good(active) /\ runs.version >= counter
LoaderWhole ==
    BindAccepts(layout) =>
        \A a \in Cells(layout.bootloader) : mem[a] = LoaderWord
\* A reset at any moment finds something to boot: the bootloader is whole, and
\* the image that runs is still in its slot, authentic and not older than the
\* protected version (docs/STM32F767-UDS-BOOTLOADER.md; the comment in
\* commit_version).
Bootable == RunsGood /\ LoaderWhole

\* "rejects ... attempts to erase or program the active slot, and image writes
\* outside the inactive region" (docs/STM32F767-UDS-BOOTLOADER.md).
FlashConfined ==
    [][\A a \in Addresses :
         mem'[a] # mem[a] => a \in Cells(layout.slots[Other(active)])]_vars

\* What these rest on: only a bound device downloads, into the slot that does
\* not execute and within it, and the core knows the present counter.
BoundFirst ==
    /\ boot # "normal" => core = CoreOff /\ ~target.started
    /\ boot \in {"confirm", "normal"} => BindAccepts(layout)
DownloadAside ==
    /\ target.started =>
        /\ target.slot = Other(active)
        /\ target.size <= layout.slots[target.slot].size
    /\ core.state \in {"DOWNLOADING", "RECEIVED", "VERIFIED", "STAGED"} =>
        /\ target.started
        /\ target.size = core.image.size
        /\ core.image.version > core.installed
    /\ core.state # "OFF" => core.installed = counter
    /\ core.state = "READY" => core.sent = 0
InductiveInvariant ==
    TypeOK /\ BoundFirst /\ DownloadAside /\ Bootable

\* The device keeps the promise of AntiRollback: its counter only rises, and
\* only to the version that runs; whatever the record says, is erased, or fails.
GoodVersions == UNION {{i.version : i \in Good(s)} : s \in Slots}
Promise ==
    INSTANCE AntiRollback WITH runs <- runs.version, good <- GoodVersions
AntiRollbackKept == Promise!Spec
=============================================================================
