---------------------------- MODULE StartupProofs ----------------------------
(* Theorems about Startup: what of the sync table's properties survives that *)
(* events are lost while the ESMC stack starts.  LastQlIsInTable does not.   *)
EXTENDS Startup, SyncTableProofs

(* The threads see an event that the table is not told of. *)
Lost == /\ UNCHANGED <<sync, updateFlag, device, main>>
        /\ port' \in [Syncs -> PortThread]

(* A step is one of SyncTable, the setting of a map, or an event that only    *)
(* port threads know of.                                                     *)
LEMMA StartupSteps ==
    ASSUME TypeOK, [StartupNext]_vars
    PROVE  [Next]_vars \/ SetMap \/ Lost
<1>1. CASE \E s \in Syncs : LoseRxEvent(s) \/ LoseTxEvent(s)
  <2>1. PICK s \in Syncs : LoseRxEvent(s) \/ LoseTxEvent(s)
    BY <1>1
  <2>2. RxQls \subseteq Qls \cup {MaxQl} /\ MaxQl \in Qls \cup {MaxQl}
    BY InputAssumption, QlAssumption DEF Qls
  <2>3. port \in [Syncs -> PortThread]
    BY DEF TypeOK
  <2>4. port' \in [Syncs -> PortThread]
    <3>1. CASE LoseTxEvent(s)
      <4>1. [port[s] EXCEPT !.linkDown = ~@] \in PortThread
        BY <2>3 DEF PortThread
      <4>2. port' = [port EXCEPT ![s] = [port[s] EXCEPT !.linkDown = ~@]]
        BY <2>3, <3>1 DEF LoseTxEvent
      <4> QED
        BY <2>3, <4>1, <4>2
    <3>2. ASSUME NEW ql \in RxQls, port' = [port EXCEPT ![s].lastQl = ql]
          PROVE  port' \in [Syncs -> PortThread]
      <4>1. [port[s] EXCEPT !.lastQl = ql] \in PortThread
        BY <2>2, <2>3 DEF PortThread
      <4> QED
        BY <2>3, <3>2, <4>1
    <3>3. CASE port' = [port EXCEPT ![s].linkDown = ~@, ![s].lastQl = MaxQl]
      <4>1. [port[s] EXCEPT !.linkDown = ~@, !.lastQl = MaxQl] \in PortThread
        BY <2>2, <2>3 DEF PortThread
      <4>2. port' = [port EXCEPT ![s] = [port[s] EXCEPT !.linkDown = ~@, !.lastQl = MaxQl]]
        BY <2>3, <3>3
      <4> QED
        BY <2>3, <4>1, <4>2
    <3> QED
      BY <2>1, <3>1, <3>2, <3>3 DEF LoseRxEvent
  <2> QED
    BY <2>1, <2>4 DEF Lost, LoseRxEvent, LoseTxEvent, Starting
<1> QED
  BY <1>1 DEF StartupNext

(* Nothing but the start fills a map. *)
LEMMA MapsKept == ASSUME TypeOK, [Next]_vars PROVE main'.maps = main.maps
<1>1. CASE MainStep
  <2>1. main \in MainThread
    BY DEF TypeOK
  <2> QED
    BY <1>1, <2>1 DEF MainStep, BeginPass, SkipTxOnly, CheckEntry, UpdateRank, Relock, EndPass,
                      AfterRank, NextEntry, MainThread
<1> QED
  BY <1>1, OthersFrame DEF Next, vars

(* Every variable of the sync table keeps its type.                          *)
THEOREM StartupTypes == StartupSpec => []TypeOK
<1>1. StartupInit => TypeOK
  BY StartType DEF StartupInit
<1>2. TypeOK /\ [StartupNext]_vars => TypeOK'
  <2> SUFFICES ASSUME TypeOK, [StartupNext]_vars PROVE TypeOK'
    OBVIOUS
  <2>1. CASE Lost
    BY <2>1 DEF Lost, TypeOK
  <2>2. CASE SetMap
    BY <2>2 DEF SetMap, TypeOK, MainThread
  <2> QED
    BY <2>1, <2>2, StartupSteps, StepTypeOK
<1> QED
  BY <1>1, <1>2, PTL DEF StartupSpec

(* No event lost at the start makes an RX port refuse later ones.            *)
LEMMA StartupRxPorts == StartupSpec => []RxPortsReceive
<1>1. StartupInit => RxPortsReceive
  BY StartReceives DEF StartupInit
<1>2. TypeOK /\ RxPortsReceive /\ [StartupNext]_vars => RxPortsReceive'
  <2> SUFFICES ASSUME TypeOK, RxPortsReceive, [StartupNext]_vars PROVE RxPortsReceive'
    OBVIOUS
  <2>1. CASE Lost \/ SetMap
    BY <2>1 DEF Lost, SetMap, RxPortsReceive
  <2> QED
    BY <2>1, StartupSteps, StepRxPortsReceive
<1> QED
  BY <1>1, <1>2, StartupTypes, PTL DEF StartupSpec

(* control_rx_event_cb against the expiry and the operator, from the first   *)
(* moment of the stack on: timed states agree with the QL of the table.      *)
THEOREM TimedStatesMatchFromStart == StartupSpec => []TimedStateMatchesQl
<1>1. StartupInit => TimedStateMatchesQl
  BY DEF StartupInit, StartsWith, TimedStateMatchesQl
<1>2. TypeOK /\ RxPortsReceive /\ TimedStateMatchesQl /\ [StartupNext]_vars
      => TimedStateMatchesQl'
  <2> SUFFICES ASSUME TypeOK, RxPortsReceive, TimedStateMatchesQl, [StartupNext]_vars
               PROVE  TimedStateMatchesQl'
    OBVIOUS
  <2>1. CASE Lost \/ SetMap
    BY <2>1 DEF Lost, SetMap, TimedStateMatchesQl
  <2> QED
    BY <2>1, StartupSteps, StepTimedStates
<1> QED
  BY <1>1, <1>2, StartupTypes, StartupRxPorts, PTL DEF StartupSpec

(* control_rx_event_cb: nor does an event that was lost take a port out of   *)
(* wait-to-restore early.                                                    *)
THEOREM RestoreNeverEarlyFromStart == StartupSpec => NoEarlyRestore
<1>1. TypeOK /\ RxPortsReceive /\ [StartupNext]_vars => [RestoreKept]_vars
  <2>1. Lost \/ SetMap => RestoreKept
    BY DEF Lost, SetMap, RestoreKept
  <2> QED
    BY <2>1, StartupSteps, StepRestoreKept
<1>2. [][RestoreKept]_vars <=> NoEarlyRestore
  BY DEF RestoreKept, NoEarlyRestore
<1> QED
  BY <1>1, <1>2, StartupTypes, StartupRxPorts, PTL DEF StartupSpec

-----------------------------------------------------------------------------
(* DownPortHasNoUsableQl.  Link flags of thread and table may disagree after *)
(* a lost event, but in one way only: a port the table has as down is one    *)
(* the thread has as down, and while events are lost the table has none.     *)

TableView(s) ==
    /\ sync[s].linkDown => port[s].linkDown
    /\ sync[s].linkDown \/ sync[s].rxTimeout => sync[s].esmcQl >= DoNotUseQl
    /\ main.maps # "ready" => ~sync[s].linkDown /\ ~sync[s].rxTimeout

(* An event that is delivered.                                               *)
LEMMA DeliveredView ==
    ASSUME TypeOK, RxPortsReceive, NEW s \in RxPorts, NEW t \in RxPorts,
           TableView(t), main'.maps = main.maps,
           \/ \E ql \in RxQls, hops \in RxHops : ReceivePdu(s, ql, hops)
           \/ RxTimeout(s) \/ RxLinkDown(s) \/ RxLinkUp(s)
    PROVE  TableView(t)'
<1>1. /\ s \in Syncs /\ t \in Syncs /\ sync \in [Syncs -> SyncEntry]
      /\ port \in [Syncs -> PortThread] /\ sync[s] \in SyncEntry /\ sync[s].type \in HasRx
  BY RxPortsAreSyncs DEF TypeOK, RxPortsReceive
<1>2. DoNotUseQl \in Qls /\ FailedQl \in Qls /\ DoNotUseQl <= FailedQl /\ DoNotUseQl \in Nat
  BY QlAssumption DEF Qls
<1>3. CASE t # s
  <2>1. RxQuiet(t)
    BY <1>1, <1>3, RxStep
  <2> QED
    BY <2>1 DEF RxQuiet, TableView
<1>4. CASE t = s /\ \E ql \in RxQls, hops \in RxHops : ReceivePdu(s, ql, hops)
  <2>1. PICK ql \in RxQls, hops \in RxHops : ReceivePdu(s, ql, hops)
    BY <1>4
  <2> DEFINE n == IF hops > MaxHops THEN MaxHops ELSE hops
             r == ReceiveQl(sync[s], ql)
             q == [r EXCEPT !.numHops = n, !.rxTimeout = FALSE]
  <2>2. ql \in Qls
    BY InputAssumption, QlAssumption DEF Qls
  <2>3. r \in SyncEntry /\ r.linkDown = sync[s].linkDown
    BY <1>1, <2>2, ReceiveQlType, ReceiveQlFields
  <2> HIDE DEF r, n
  <2>4. q.linkDown = sync[s].linkDown /\ q.rxTimeout = FALSE
    BY <2>3 DEF SyncEntry
  <2>5. /\ ~port[s].linkDown
        /\ port' = [port EXCEPT ![s].lastQl = ql, ![s].timedOut = FALSE]
        /\ \/ sync' = sync
           \/ main.maps = "ready" /\ sync' = [sync EXCEPT ![s] = q]
    BY <1>1, <2>1 DEF ReceivePdu, Deliver, MutexFree, r, n
  <2> HIDE DEF q
  <2>6. port'[s].linkDown = port[s].linkDown
    BY <1>1, <2>5 DEF PortThread
  <2>7. \/ sync'[s] = sync[s]
        \/ main.maps = "ready" /\ sync'[s] = q
    BY <1>1, <2>5
  <2> QED
    BY <1>4, <2>4, <2>5, <2>6, <2>7 DEF TableView
<1>5. CASE t = s /\ RxTimeout(s)
  <2> DEFINE r == ReceiveQl(sync[s], FailedQl)
             q == [r EXCEPT !.numHops = 0, !.rxTimeout = TRUE]
  <2>1. r \in SyncEntry /\ r.esmcQl = FailedQl /\ r.linkDown = sync[s].linkDown
    BY <1>1, <1>2, ReceiveQlType, ReceiveQlFields
  <2> HIDE DEF r
  <2>2. q.esmcQl = FailedQl /\ q.linkDown = sync[s].linkDown
    BY <2>1 DEF SyncEntry
  <2>3. /\ port' = [port EXCEPT ![s].timedOut = TRUE, ![s].lastQl = MaxQl]
        /\ sync' = [sync EXCEPT ![s] = q] /\ main.maps = "ready"
    BY <1>1, <1>5 DEF RxTimeout, Deliver, MutexFree, r
  <2> HIDE DEF q
  <2>4. port'[s].linkDown = port[s].linkDown /\ sync'[s] = q
    BY <1>1, <2>3 DEF PortThread
  <2> QED
    BY <1>2, <1>5, <2>2, <2>3, <2>4 DEF TableView
<1>6. CASE t = s /\ (RxLinkDown(s) \/ RxLinkUp(s))
  <2> DEFINE r == ReceiveQl(sync[s], DoNotUseQl)
             q == [r EXCEPT !.numHops = 0, !.linkDown = TRUE]
  <2>1. r \in SyncEntry /\ r.esmcQl = DoNotUseQl
    BY <1>1, <1>2, ReceiveQlType, ReceiveQlFields
  <2> HIDE DEF r
  <2>2. q.esmcQl = DoNotUseQl
    BY <2>1 DEF SyncEntry
  <2>3. CASE RxLinkDown(s)
    <3>1. /\ port' = [port EXCEPT ![s].linkDown = TRUE, ![s].lastQl = MaxQl]
          /\ sync' = [sync EXCEPT ![s] = q] /\ main.maps = "ready"
      BY <1>1, <2>3 DEF RxLinkDown, Deliver, MutexFree, r
    <3> HIDE DEF q
    <3>2. port'[s].linkDown /\ sync'[s] = q
      BY <1>1, <3>1 DEF PortThread
    <3> QED
      BY <1>2, <1>6, <2>2, <3>1, <3>2 DEF TableView
  <2>4. CASE RxLinkUp(s)
    <3>1. /\ sync' = [sync EXCEPT ![s] = [sync[s] EXCEPT !.linkDown = FALSE]]
          /\ main.maps = "ready"
      BY <1>1, <2>4 DEF RxLinkUp, Deliver, MutexFree
    <3>2. /\ sync'[s].linkDown = FALSE /\ sync'[s].rxTimeout = sync[s].rxTimeout
          /\ sync'[s].esmcQl = sync[s].esmcQl
      BY <1>1, <3>1 DEF SyncEntry
    <3> QED
      BY <1>6, <3>1, <3>2 DEF TableView
  <2> QED
    BY <1>6, <2>3, <2>4
<1> QED
  BY <1>3, <1>4, <1>5, <1>6

(* A step of anything but an RX thread. *)
LEMMA QuietView ==
    ASSUME NEW t \in RxPorts, TableView(t), RxQuiet(t),
           main'.maps = main.maps
    PROVE  TableView(t)'
BY DEF TableView, RxQuiet

(* control_rx_event_cb: though the first events of a port may be lost, the   *)
(* table never has a usable QL for a port it shows as down or timed out.     *)
THEOREM DownPortsUnusableFromStart == StartupSpec => []DownPortHasNoUsableQl
<1>1. StartupInit => \A t \in RxPorts : TableView(t)
  BY RxPortsAreSyncs DEF StartupInit, StartsWith, TableView
<1>2. /\ TypeOK /\ RxPortsReceive /\ (\A t \in RxPorts : TableView(t))
      /\ [StartupNext]_vars
      => (\A t \in RxPorts : TableView(t))'
  <2> SUFFICES ASSUME TypeOK, RxPortsReceive, \A t \in RxPorts : TableView(t),
                      [StartupNext]_vars, NEW t \in RxPorts
               PROVE  TableView(t)'
    OBVIOUS
  <2>0. t \in Syncs
    BY RxPortsAreSyncs
  <2>1. CASE \E s \in Syncs : LoseRxEvent(s) \/ LoseTxEvent(s)
    BY <2>1 DEF LoseRxEvent, LoseTxEvent, Starting, TableView
  <2>2. CASE SetMap
    BY <2>2 DEF SetMap, Starting, TableView
  <2>3. CASE \/ MainStep \/ Tick \/ UNCHANGED vars
             \/ \E s \in Syncs : Management(s)
             \/ \E s \in Syncs : TxLinkChange(s)
    <3>1. main'.maps = main.maps
      BY <2>3, MapsKept DEF Next, TxLinkChange
    <3>2. RxQuiet(t)
      BY <2>0, <2>3, OtherStep
    <3> QED
      BY <3>1, <3>2, QuietView
  <2>4. ASSUME NEW s \in RxPorts,
               \/ \E ql \in RxQls, hops \in RxHops : ReceivePdu(s, ql, hops)
               \/ RxTimeout(s) \/ RxLinkDown(s) \/ RxLinkUp(s)
        PROVE  TableView(t)'
    <3>1. main' = main
      BY <2>4 DEF ReceivePdu, RxTimeout, RxLinkDown, RxLinkUp
    <3> QED
      BY <2>4, <3>1, DeliveredView
  <2> QED
    BY <2>1, <2>2, <2>3, <2>4 DEF StartupNext, Next, PortStep
<1>3. (\A t \in RxPorts : TableView(t)) => DownPortHasNoUsableQl
  BY DEF TableView, DownPortHasNoUsableQl
<1> QED
  BY <1>1, <1>2, <1>3, StartupTypes, StartupRxPorts, PTL DEF StartupSpec
-----------------------------------------------------------------------------
(* Neither a lost event nor a map changes what the device should have. *)
LEMMA StartupKeepsDeviceInv ==
    ASSUME DeviceResults = {TRUE},
           \E s \in Syncs : InitType[s] # "tx_only" /\ InitPri[s] # 0
    PROVE  TypeOK /\ DeviceInv /\ [StartupNext]_vars => DeviceInv'
<1> SUFFICES ASSUME TypeOK, DeviceInv, [StartupNext]_vars PROVE DeviceInv'
  OBVIOUS
<1>1. CASE Lost
  BY <1>1 DEF Lost, DeviceInv, DeviceInSync, FirstPass, PushIsLast, Ranked, SelectionView, LocalRank
<1>2. CASE SetMap
  <2>1. /\ main'.at = main.at /\ main'.i = main.i /\ main'.change = main.change
        /\ main'.up = main.up /\ UNCHANGED <<sync, updateFlag, device>>
    BY <1>2 DEF SetMap, TypeOK, MainThread
  <2> QED
    BY <2>1 DEF DeviceInv, DeviceInSync, FirstPass, PushIsLast, Ranked, SelectionView, LocalRank
<1>3. CASE [Next]_vars
  BY <1>3, StepDeviceInv
<1> QED
  BY <1>1, <1>2, <1>3, StartupSteps

(* control_update_sync_table: the device works from the table as it is, also *)
(* while and after the stack starts.                                         *)
THEOREM DeviceInSyncFromStart ==
    ASSUME DeviceResults = {TRUE},
           \E s \in Syncs : InitType[s] # "tx_only" /\ InitPri[s] # 0
    PROVE  StartupSpec => []DeviceInSync
<1>1. StartupInit => DeviceInv
  BY StartDeviceInv DEF StartupInit
<1>2. TypeOK /\ DeviceInv /\ [StartupNext]_vars => DeviceInv'
  BY StartupKeepsDeviceInv
<1>3. DeviceInv => DeviceInSync
  BY DEF DeviceInv
<1> QED
  BY <1>1, <1>2, <1>3, StartupTypes, PTL DEF StartupSpec

(* Starting the stack moves no clock. *)
LEMMA StartupClocks == StartupSpec => []OneSyncPerClock
<1>1. StartupInit => OneSyncPerClock
  BY ConfigAssumption DEF StartupInit, StartsWith, OneSyncPerClock
<1>2. TypeOK /\ OneSyncPerClock /\ [StartupNext]_vars => OneSyncPerClock'
  <2> SUFFICES ASSUME TypeOK, OneSyncPerClock, [StartupNext]_vars PROVE OneSyncPerClock'
    OBVIOUS
  <2>1. CASE Lost \/ SetMap
    BY <2>1 DEF Lost, SetMap, OneSyncPerClock
  <2> QED
    BY <2>1, StartupSteps, StepOneSync
<1> QED
  BY <1>1, <1>2, StartupTypes, PTL DEF StartupSpec

(* control_update_sync_table: whatever is lost while the stack               *)
(* starts, the clocks the device is offered are usable, as long as no port   *)
(* configured TX only is given one.                                          *)
THEOREM OfferedClocksUsableFromStart ==
    ASSUME DeviceResults = {TRUE}, TxOnlyKept,
           \E s \in Syncs : InitType[s] # "tx_only" /\ InitPri[s] # 0
    PROVE  StartupSpec => []OfferedClockUsable
<1>1. StartupInit => DeviceInv /\ RankInv
  BY StartDeviceInv, StartRankInv DEF StartupInit
<1>2. TypeOK /\ OneSyncPerClock /\ DeviceInv /\ RankInv /\ [StartupNext]_vars
      => DeviceInv' /\ RankInv'
  <2> SUFFICES ASSUME TypeOK, OneSyncPerClock, DeviceInv, RankInv, [StartupNext]_vars
               PROVE  RankInv'
    BY StartupKeepsDeviceInv
  <2>1. CASE Lost \/ SetMap
    <3>1. /\ main'.at = main.at /\ main'.i = main.i /\ main'.up = main.up /\ sync' = sync
      BY <2>1 DEF Lost, SetMap, TypeOK, MainThread
    <3>2. \A t \in Syncs : Ranked(t)' = Ranked(t)
      BY <3>1 DEF Ranked
    <3> QED
      BY <3>1, <3>2, SteadyRanks
  <2>2. CASE [Next]_vars
    BY <2>2, StepRankInv
  <2> QED
    BY <2>1, <2>2, StartupSteps
<1>3. DeviceInv => DeviceInSync
  BY DEF DeviceInv
<1> QED
  BY <1>1, <1>2, <1>3, OfferedIsUsable, StartupTypes, StartupClocks, PTL DEF StartupSpec
=============================================================================
