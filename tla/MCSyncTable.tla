----------------------------- MODULE MCSyncTable -----------------------------
(* Small instances of SyncTable.  QLs are 1 and 2 (usable), 3 "do not use", 4 *)
(* FAILED; QL 0 is the enumeration's first, ePRTC of network option 1.        *)
EXTENDS SyncTable, TLC

(* A Sync-E port, an external clock port, a TX-only port. *)
MixedType   == 0 :> "synce" @@ 1 :> "external" @@ 2 :> "tx_only"
MixedClkIdx == 0 :> 0 @@ 1 :> 1 @@ 2 :> MissingClkIdx
MixedPri    == 0 :> 1 @@ 1 :> 2 @@ 2 :> NoPri
MixedQl     == 0 :> 3 @@ 1 :> 1 @@ 2 :> 3
MixedRx     == {0}
MixedAssign == {0, 2} \X {0, 1}

(* A single Sync-E port. *)
OneType   == 0 :> "synce"
OneClkIdx == 0 :> 0
OnePri    == 0 :> 1
OneQl     == 0 :> 3
OneRx     == {0}
=============================================================================
