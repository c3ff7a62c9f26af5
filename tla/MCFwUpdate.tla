----------------------------- MODULE MCFwUpdate -----------------------------
(* The images, files and factory state the runs of FwUpdate use.           *)
EXTENDS FwUpdate

(* A genuine image for partition p: both signatures, a header, one board.  *)
Genuine(p, info, ver) ==
    [link |-> p, b0 |-> p \in Slots, sig |-> TRUE, hdr |-> TRUE, fits |-> TRUE,
     hwid |-> TRUE, verok |-> TRUE, hw |-> "air", info |-> info, ver |-> ver]

MCHwNames == {"air", "other"}
MCFactory == [p \in Parts |-> Genuine(p, 1, 1)]

Boot0 == Genuine("s0", 2, 2)
Boot1 == Genuine("s1", 2, 2)
Load2 == Genuine("secondary", 2, 2)
App2  == Genuine("primary", 2, 2)

(* Signed for B0 only, of an older build, for another board, not itself,   *)
(* cut short, too long, or older than what is there.                       *)
BootNoHdr  == [Boot0 EXCEPT !.hdr = FALSE, !.sig = FALSE]
BootNoName == [Boot1 EXCEPT !.hw = NoHw]
BootOld    == Genuine("s0", 0, 0)
BootWrong  == [Boot1 EXCEPT !.verok = FALSE]
BootOther  == [Boot1 EXCEPT !.hw = "other"]
Boot0Other == [Boot0 EXCEPT !.hw = "other"]
AppOther   == [App2 EXCEPT !.hw = "other"]
AppLong    == [App2 EXCEPT !.fits = FALSE]
AppTorn    == [App2 EXCEPT !.sig = FALSE]
Boot0Torn  == [Boot0 EXCEPT !.b0 = FALSE]
Boot1Torn  == [Boot1 EXCEPT !.b0 = FALSE]
AppOldInfo == Genuine("primary", 0, 2)
AppOldVer  == Genuine("primary", 1, 0)
Boot1Next  == Genuine("s1", 3, 3)

(* The start of a file, fw_info included, or less of it than tells whose.  *)
CutShort(i) == [i EXCEPT !.hdr = FALSE, !.b0 = FALSE, !.sig = FALSE]
Nothing     == [CutShort(App2) EXCEPT !.info = NoInfo, !.hw = NoHw]
Boot0Cut    == CutShort(Boot0)
Boot1Cut    == CutShort(Boot1)

MCImages ==
    {MCFactory[p] : p \in Parts} \cup
    {Boot0, Boot1, Load2, App2, BootNoHdr, BootNoName, BootOld, BootWrong, BootOther, Boot0Other,
     AppOther, AppLong, AppTorn, Boot0Torn, Boot1Torn, AppOldInfo, AppOldVer, Boot1Next,
     Boot0Cut, Boot1Cut, Nothing}

MCPrefix ==
    {<<Boot0Cut, Boot0>>, <<Boot1Cut, Boot1>>} \cup ({Nothing} \X (MCImages \ {Nothing}))

(* Every kind of good file, files for another board, an older one, and the *)
(* torn ones an interruption yields.                                       *)
AllKinds ==
    {<<"mcuboot0", Boot0>>, <<"mcuboot1", Boot1>>, <<"loader", Load2>>, <<"app", App2>>,
     <<"mcuboot0", Boot0Other>>, <<"mcuboot1", BootOther>>, <<"app", AppOther>>,
     <<"app", AppOldInfo>>, <<"mcuboot1", Boot1Torn>>}

FaultKinds ==
    {<<"mcuboot0", Boot0>>, <<"mcuboot1", BootNoName>>, <<"app", App2>>,
     <<"app", AppOldInfo>>, <<"mcuboot0", BootNoHdr>>, <<"mcuboot1", BootWrong>>, <<"app", AppLong>>,
     <<"mcuboot0", Boot0Torn>>, <<"mcuboot1", Boot1Torn>>}

(* Files that pass for what an earlier file, under another name, has left  *)
(* in the shared buffer.                                                   *)
StaleKinds ==
    {<<"mcuboot1", Boot0>>, <<"mcuboot0", Boot0Cut>>, <<"mcuboot1", Boot1Cut>>}

SafetyKinds == AllKinds \cup FaultKinds \cup StaleKinds

BootKinds ==
    {<<"mcuboot0", Boot0>>, <<"mcuboot1", Boot1>>, <<"mcuboot1", Boot1Next>>}

OldKinds == {<<"mcuboot0", BootOld>>, <<"app", AppOldVer>>, <<"loader", Load2>>}

=============================================================================
