------------------------------- MODULE TlvIter -------------------------------
(***************************************************************************)
(* A caller that walks a TLV area: file_tlv_iter_begin, then               *)
(* file_tlv_iter_next until it returns something else than 0.  Any read of *)
(* the file may fail.                                                      *)
(***************************************************************************)
EXTENDS FileTlv

CONSTANTS
    Areas,    \* the images whose TLV areas are walked
    Types     \* types a caller looks for

ASSUME AreasAssumption == \A i \in Areas : IsArea(i)

VARIABLES
    image, type, prot,   \* the arguments of file_tlv_iter_begin
    pc,                  \* "begin", "next", "done"
    it,                  \* the iterator
    found,               \* the entries returned so far
    rc,                  \* what the last call returned
    clean                \* no read has failed

vars == <<image, type, prot, pc, it, found, rc, clean>>
args == <<image, type, prot>>

Init ==
    /\ image \in Areas
    /\ type \in Types \cup {AnyType}
    /\ prot \in BOOLEAN
    /\ pc = "begin"
    /\ it = file_tlv_iter_begin(image, type, prot)
    /\ found = <<>>
    /\ rc = 0
    /\ clean = TRUE

Return(result) == pc' = "done" /\ rc' = result

Begin ==
    /\ pc = "begin" /\ InfoOK(image)
    /\ pc' = "next"
    /\ it' = file_tlv_iter_begin(image, type, prot)
    /\ UNCHANGED <<args, found, rc, clean>>

BeginRefuses ==
    /\ pc = "begin" /\ ~InfoOK(image)
    /\ Return(-1)
    /\ UNCHANGED <<args, it, found, clean>>

ReadFails ==
    /\ pc = "begin" \/ (pc = "next" /\ ~AtEnd(it))
    /\ Return(-1)
    /\ clean' = FALSE
    /\ UNCHANGED <<args, it, found>>

(* The read beyond the last entry.                                         *)
NothingToLoad ==
    /\ pc = "next" /\ ~AtEnd(it) /\ ~Loads(image, it)
    /\ Return(-1)
    /\ UNCHANGED <<args, it, found, clean>>

NoMore ==
    /\ pc = "next"
    /\ AtEnd(it) \/ (Loads(image, it) /\ PastProtected(image, it))
    /\ Return(1)
    /\ UNCHANGED <<args, it, found, clean>>

Visit ==
    /\ pc = "next" /\ ~AtEnd(it) /\ Loads(image, it) /\ ~PastProtected(image, it)
    /\ found' = IF Wanted(it, Tlv(image, it)) THEN Append(found, Tlv(image, it)) ELSE found
    /\ it' = Passed(image, it)
    /\ UNCHANGED <<args, pc, rc, clean>>

(* The caller's own steps.  Nothing makes a read fail, so ReadFails is not *)
(* one of them.                                                            *)
Walk == Begin \/ BeginRefuses \/ NothingToLoad \/ NoMore \/ Visit

Next == Walk \/ ReadFails

Spec == Init /\ [][Next]_vars /\ WF_vars(Walk)

-----------------------------------------------------------------------------

Searched == IF prot THEN image.prot ELSE Entries(image)

(* The entries of a type among the first n of es, for each n.              *)
Kept(es, t) ==
    LET kept[n \in 0 .. Len(es)] ==
            IF n = 0 THEN <<>>
            ELSE IF t \in {AnyType, es[n].it_type} THEN Append(kept[n - 1], es[n])
            ELSE kept[n - 1]
    IN  kept

Expected == Kept(Searched, type)[Len(Searched)]

(* What has been returned is always those asked for of the first entries,  *)
(* however many those are, in the order of the file: no payload is taken   *)
(* for a header, no entry is skipped or returned twice, nothing comes from *)
(* the other section.                                                      *)
FindsInOrder == \E n \in 0 .. Len(Searched) : found = Kept(Searched, type)[n]

(* When reads do not fail and the unprotected section is not empty, the    *)
(* walk ends with 1 and has returned every entry asked for.                *)
FindsAll ==
    pc = "done" /\ clean /\ InfoOK(image) /\ image.unprot # <<>> => rc = 1 /\ found = Expected

(* The walk ends, whatever lengths the entries have.                       *)
WalkEnds == <>(pc = "done")

=============================================================================
