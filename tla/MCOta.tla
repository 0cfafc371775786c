-------------------------------- MODULE MCOta --------------------------------
(***************************************************************************)
(* A flash of six words: the bootloader, then slots of two, the second     *)
(* ending at the last address.  The other layouts are to be refused.  One  *)
(* image is not newer than the delivered one, one does not fit the slots.  *)
(***************************************************************************)
EXTENDS Ota, TLC

At(b, n) == [base |-> b, size |-> n]
MakeLayout(f, l, s, t) ==
    [flash |-> f, bootloader |-> l, slots |-> (0 :> s @@ 1 :> t)]

MCLayouts == {
    MakeLayout(At(0, 6), At(0, 2), At(2, 2), At(4, 2)),
    \* one slot over the other, over the bootloader, outside the flash, and
    \* past the last address
    MakeLayout(At(0, 6), At(0, 2), At(2, 2), At(3, 2)),
    MakeLayout(At(0, 6), At(0, 3), At(2, 2), At(4, 2)),
    MakeLayout(At(0, 5), At(0, 2), At(2, 2), At(4, 2)),
    MakeLayout(At(1, 6), At(1, 1), At(3, 2), At(5, 2))}

Image(version, size, kind) == [version |-> version, size |-> size, kind |-> kind]
MCFactory == Image(1, 2, "genuine")
MCImages == {
    Image(1, 1, "genuine"), Image(2, 2, "genuine"), Image(3, 1, "genuine"),
    Image(2, 3, "genuine"), Image(3, 2, "forged"), Image(2, 1, "damaged")}
=============================================================================
