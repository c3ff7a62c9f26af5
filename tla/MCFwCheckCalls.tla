--------------------------- MODULE MCFwCheckCalls ---------------------------
(* The files the runs of FwCheckCalls use.                                 *)
EXTENDS MCFwUpdate, FwCheckCalls

CallKinds ==
    {<<"mcuboot0", Boot0>>, <<"mcuboot0", Boot0Cut>>, <<"mcuboot1", Boot1>>, <<"mcuboot1", Boot1Cut>>,
     <<"mcuboot1", Nothing>>, <<"mcuboot1", BootOther>>, <<"mcuboot1", Boot0>>, <<"app", App2>>,
     <<"app", AppTorn>>, <<"loader", App2>>}

=============================================================================
