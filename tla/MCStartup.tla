------------------------------ MODULE MCStartup ------------------------------
(* A small instance of Startup: a Sync-E port, whose events and forced QLs    *)
(* race the forced QLs of an external clock port.  QLs as in MCSyncTable.     *)
EXTENDS Startup, TLC

PairType   == 0 :> "synce" @@ 1 :> "external" @@ 2 :> "tx_only"
PairClkIdx == 0 :> 0 @@ 1 :> 1 @@ 2 :> MissingClkIdx
PairPri    == 0 :> 1 @@ 1 :> 2 @@ 2 :> NoPri
PairQl     == 0 :> 1 @@ 1 :> 2 @@ 2 :> 3
PairRx     == {0}
=============================================================================
