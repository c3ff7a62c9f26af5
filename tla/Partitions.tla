----------------------------- MODULE Partitions -----------------------------
(***************************************************************************)
(* What the update promises about flash, whatever boots, checks, power     *)
(* cuts and failing calls it goes through: only one partition is written   *)
(* at a time, never the last copy of MCUboot that B0 would start, only     *)
(* with an image of no lower fw_info version, verified for it unless it is *)
(* a slot and the verdicts cannot be trusted, and a partition is whole     *)
(* again only at the end of an uninterrupted copy.                         *)
(***************************************************************************)
EXTENDS FwImages

CONSTANT Shipped      \* [Parts -> Images]: the images a device is made with

NoPart == "nopart"

VARIABLES
    image,      \* [Parts -> Images]: the image last begun in each partition
    whole,      \* [Parts -> BOOLEAN]: is all of it there?
    retired,    \* slots whose valid word is cleared
    writing,    \* the partition being copied to
    trusted     \* an input: are verdicts about the file, and not what was read before?

(* trusted is not among the variables a step accounts for: it changes with *)
(* failing calls and boots that this module knows nothing of.              *)
pvars == <<image, whole, retired, writing>>

Init ==
    /\ image = Shipped
    /\ whole = [p \in Parts |-> TRUE]
    /\ retired = {}
    /\ writing = NoPart

(* B0 starts the copy of MCUboot in slot s.                                *)
Startable(s) == whole[s] /\ s \notin retired /\ B0Accepts(image[s], s)

(* A partition may be touched as long as a copy of MCUboot elsewhere is    *)
(* startable.                                                              *)
Expendable(p) == \E s \in Slots \ {p} : Startable(s)

(* An erase that does not finish.                                          *)
Damage(p) ==
    /\ writing = NoPart
    /\ Expendable(p)
    /\ whole' = [whole EXCEPT ![p] = FALSE]
    /\ UNCHANGED <<image, retired, writing>>

(* The erase has finished, the copy begins.  Erased, the valid word reads  *)
(* as valid again.                                                         *)
Begin(p, i) ==
    /\ writing = NoPart
    /\ Expendable(p)
    /\ trusted \/ p \notin Slots => Verified(i, p)
    /\ i.info >= image[p].info
    /\ image' = [image EXCEPT ![p] = i]
    /\ whole' = [whole EXCEPT ![p] = FALSE]
    /\ retired' = retired \ {p}
    /\ writing' = p

(* The last chunk is written.                                              *)
Complete ==
    /\ writing # NoPart
    /\ whole' = [whole EXCEPT ![writing] = TRUE]
    /\ UNCHANGED <<image, retired, writing>>

(* The copy is over, completed or cut short.                               *)
Stop ==
    /\ writing # NoPart
    /\ writing' = NoPart
    /\ UNCHANGED <<image, whole, retired>>

(* s0, and no other slot, gives itself up to be replaced from s1.          *)
Retire ==
    /\ writing = NoPart
    /\ Startable("s0")
    /\ retired' = {"s0"}
    /\ UNCHANGED <<image, whole, writing>>

Next ==
    \/ \E p \in Parts : Damage(p) \/ \E i \in Images : Begin(p, i)
    \/ Complete \/ Stop \/ Retire

Spec == Init /\ [][Next]_pvars

(* What the steps above preserve by themselves: B0 finds a copy to start,  *)
(* or a retired s0 is whole and only lacks its valid word.                 *)
Survives ==
    \/ \E s \in Slots : Startable(s)
    \/ "s0" \in retired /\ whole["s0"] /\ B0Accepts(image["s0"], "s0")

=============================================================================
