------------------------------ MODULE MCSynced ------------------------------
(* Small instances of the whole main loop.  QLs as in MCSyncTable. *)
EXTENDS Synced, TLC

(* A Sync-E port and a TX-only port that may take its clock. *)
SpareType   == 0 :> "synce" @@ 1 :> "tx_only"
SpareClkIdx == 0 :> 0 @@ 1 :> MissingClkIdx
SparePri    == 0 :> 1 @@ 1 :> NoPri
SpareQl     == 0 :> 3 @@ 1 :> 1
SpareRx     == {0}
SpareAssign == {0, 1} \X {0}

(* A single Sync-E port. *)
OneType   == 0 :> "synce"
OneClkIdx == 0 :> 0
OnePri    == 0 :> 1
OneQl     == 0 :> 3
OneRx     == {0}
=============================================================================
