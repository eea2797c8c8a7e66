--------------------------- MODULE SyncTableProofs ---------------------------
(* Theorems about SyncTable for every number of ports and clocks, every      *)
(* configuration the assumptions allow and every set of inputs.              *)
EXTENDS SyncTable, ClockSelectionProofs

(* A rank is a natural, whatever the priority. *)
LEMMA AnyRankIsNat ==
    ASSUME NEW ql \in Nat, NEW pri \in Int, NEW hops \in 0 .. MaxHops
    PROVE  CalculateRank(ql, pri, hops) \in Nat
BY DEF CalculateRank, MaxHops

(* control_init and create_esmc_config leave a well-typed table. *)
LEMMA StartType == ASSUME NEW m \in {"none", "tx", "ready"}, StartsWith(m) PROVE TypeOK
<1> USE ConfigAssumption, QlAssumption
<1>1. \A s \in Syncs : StartQl(s) \in Qls
  BY DEF StartQl, Qls
<1>2. \A s \in Syncs :
        [type |-> InitType[s], clkIdx |-> InitClkIdx[s], pri |-> InitPri[s],
          currentQl |-> StartQl(s), esmcQl |-> StartQl(s), forcedQl |-> StartQl(s),
          holdOffQl |-> DoNotUseQl, numHops |-> 0, rank |-> 0,
          clkState |-> "unqualified", state |-> "normal", left |-> -1,
          rxTimeout |-> FALSE, linkDown |-> FALSE] \in SyncEntry
  BY <1>1 DEF SyncEntry, SyncStates, Qls, MaxHops
<1>3. 0 \in Syncs
  BY DEF Syncs
<1>4. main \in MainThread
  BY <1>3 DEF StartsWith, MainThread
<1>5. port \in [Syncs -> PortThread]
  BY DEF StartsWith, PortThread
<1>6. sync \in [Syncs -> SyncEntry]
  BY <1>2 DEF StartsWith
<1> QED
  BY <1>4, <1>5, <1>6 DEF StartsWith, TypeOK

LEMMA InitTypeOK == Init => TypeOK
BY StartType DEF Init

(* Every assignment of control.c to fields of an entry keeps it well-typed. *)
LEMMA EntryUpdates ==
    ASSUME NEW e \in SyncEntry
    PROVE  /\ \A c \in {"unqualified", "qualified"}, st \in SyncStates :
                [e EXCEPT !.clkState = c, !.state = st] \in SyncEntry
           /\ \A ql \in Qls, r \in Nat : [e EXCEPT !.currentQl = ql, !.rank = r] \in SyncEntry
           /\ \A n \in Int : [e EXCEPT !.left = n] \in SyncEntry
           /\ \A ql \in Qls : [e EXCEPT !.forcedQl = ql, !.state = "forced"] \in SyncEntry
           /\ [e EXCEPT !.state = "normal"] \in SyncEntry
           /\ \A n \in 0 .. MaxHops, b \in BOOLEAN :
                /\ [e EXCEPT !.numHops = n, !.rxTimeout = b] \in SyncEntry
                /\ [e EXCEPT !.numHops = n, !.linkDown = b] \in SyncEntry
                /\ [e EXCEPT !.linkDown = b] \in SyncEntry
           /\ \A clk \in ClkIdx \cup {MissingClkIdx}, t \in SyncTypes :
                [e EXCEPT !.type = t, !.clkIdx = clk] \in SyncEntry
           /\ \A pri \in 0 .. 255 : [e EXCEPT !.pri = pri] \in SyncEntry
<1>1. \A c \in {"unqualified", "qualified"}, st \in SyncStates :
        [e EXCEPT !.clkState = c, !.state = st] \in SyncEntry
  BY DEF SyncEntry
<1>2. \A ql \in Qls, r \in Nat : [e EXCEPT !.currentQl = ql, !.rank = r] \in SyncEntry
  BY DEF SyncEntry
<1>3. \A n \in Int : [e EXCEPT !.left = n] \in SyncEntry
  BY DEF SyncEntry
<1>4. \A ql \in Qls : [e EXCEPT !.forcedQl = ql, !.state = "forced"] \in SyncEntry
  BY DEF SyncEntry, SyncStates
<1>5. [e EXCEPT !.state = "normal"] \in SyncEntry
  BY DEF SyncEntry, SyncStates
<1>6. \A n \in 0 .. MaxHops, b \in BOOLEAN :
        /\ [e EXCEPT !.numHops = n, !.rxTimeout = b] \in SyncEntry
        /\ [e EXCEPT !.numHops = n, !.linkDown = b] \in SyncEntry
        /\ [e EXCEPT !.linkDown = b] \in SyncEntry
  <2> TAKE n \in 0 .. MaxHops, b \in BOOLEAN
  <2>1. [e EXCEPT !.numHops = n, !.rxTimeout = b] \in SyncEntry
    BY DEF SyncEntry
  <2>2. [e EXCEPT !.numHops = n, !.linkDown = b] \in SyncEntry
    BY DEF SyncEntry
  <2>3. [e EXCEPT !.linkDown = b] \in SyncEntry
    BY DEF SyncEntry
  <2> QED
    BY <2>1, <2>2, <2>3
<1>7. \A clk \in ClkIdx \cup {MissingClkIdx}, t \in SyncTypes :
        [e EXCEPT !.type = t, !.clkIdx = clk] \in SyncEntry
  BY DEF SyncEntry
<1>8. \A pri \in 0 .. 255 : [e EXCEPT !.pri = pri] \in SyncEntry
  BY DEF SyncEntry
<1> QED
  BY <1>1, <1>2, <1>3, <1>4, <1>5, <1>6, <1>7, <1>8

(* The tail of control_rx_event_cb changes the state, the deadline, the QL   *)
(* and the hold-off QL only, and keeps the entry well-typed.                 *)
LEMMA ReceiveQlType ==
    ASSUME NEW e \in SyncEntry, NEW ql \in Qls
    PROVE  ReceiveQl(e, ql) \in SyncEntry
<1> DEFINE f == [e EXCEPT !.esmcQl = ql]
<1>1. f \in SyncEntry
  BY DEF SyncEntry
<1>2. \A st \in SyncStates : [f EXCEPT !.state = st] \in SyncEntry
  BY <1>1 DEF SyncEntry
<1>3. \A st \in SyncStates, n \in Int : [f EXCEPT !.state = st, !.left = n] \in SyncEntry
  BY <1>1 DEF SyncEntry
<1>4. \A n \in Int :
        [f EXCEPT !.state = "hold_off", !.left = n, !.holdOffQl = e.esmcQl] \in SyncEntry
  BY <1>1 DEF SyncEntry, SyncStates
<1>5. HoldOffTicks \in Int /\ WtrTicks \in Int
  BY QlAssumption
<1>6. {"normal", "wait_to_restore"} \subseteq SyncStates
  BY DEF SyncStates
<1> QED
  BY <1>1, <1>2, <1>3, <1>4, <1>5, <1>6 DEF ReceiveQl

(* The QL used for selection is a QL, whatever the state. *)
LEMMA CurrentQlType ==
    ASSUME NEW s \in Syncs, NEW e \in SyncEntry
    PROVE  CurrentQl(s, e) \in Qls
<1>1. StartQl(s) \in Qls
  BY ConfigAssumption, QlAssumption DEF StartQl, Qls
<1>2. e.esmcQl \in Qls /\ e.holdOffQl \in Qls /\ e.forcedQl \in Qls /\ DoNotUseQl \in Qls
  BY QlAssumption DEF SyncEntry, Qls
<1>3. CASE e.state = "normal"
  BY <1>1, <1>2, <1>3 DEF CurrentQl
<1>4. CASE e.state # "normal" /\ e.state = "hold_off" /\ e.type # "external"
  BY <1>2, <1>4 DEF CurrentQl
<1>5. CASE e.state # "normal" /\ e.state = "wait_to_restore" /\ e.type # "external"
  BY <1>2, <1>5 DEF CurrentQl
<1>6. CASE /\ e.state # "normal"
           /\ ~(e.state = "hold_off" /\ e.type # "external")
           /\ ~(e.state = "wait_to_restore" /\ e.type # "external")
  BY <1>2, <1>6 DEF CurrentQl
<1> QED
  BY <1>3, <1>4, <1>5, <1>6

(* The rank control_update_sync_table computes is a natural. *)
LEMMA RankOfType ==
    ASSUME NEW e \in SyncEntry, NEW ql \in Qls
    PROVE  RankOf(ql, e) \in Nat
<1>1. e.pri \in Int /\ e.numHops \in 0 .. MaxHops
  BY DEF SyncEntry, NoPri
<1>2. (IF NoQlEn /\ ql < DoNotUseQl THEN LoQl ELSE ql) \in Nat
  BY QlAssumption DEF Qls
<1> QED
  BY <1>1, <1>2, AnyRankIsNat DEF RankOf

(* Where the pass goes next. *)
LEMMA MainUpdates ==
    ASSUME NEW m \in MainThread
    PROVE  /\ NextEntry(m) \in MainThread
           /\ AfterRank(m) \in MainThread
BY DEF NextEntry, AfterRank, MainThread

(* control_rx_event_cb writes one entry, or none. *)
LEMMA DeliverType ==
    ASSUME TypeOK, NEW s \in Syncs, NEW e \in SyncEntry, Deliver(s, e)
    PROVE  sync' \in [Syncs -> SyncEntry]
BY DEF TypeOK, Deliver

(* Every step of every thread keeps the types. *)
LEMMA StepTypeOK == TypeOK /\ [Next]_vars => TypeOK'
<1> SUFFICES ASSUME TypeOK, [Next]_vars PROVE TypeOK'
  OBVIOUS
<1> USE DEF TypeOK
<1>1. CASE BeginPass
  <2>1. 0 \in Syncs
    BY ConfigAssumption DEF Syncs
  <2> QED
    BY <1>1, <2>1 DEF BeginPass, MainThread
<1>2. CASE SkipTxOnly
  BY <1>2, MainUpdates DEF SkipTxOnly
<1>3. CASE CheckEntry
  <2> DEFINE i == main.i  e == sync[i]
  <2>1. i \in Syncs /\ e \in SyncEntry
    BY DEF MainThread
  <2>2. PICK c \in IF e.type \in SelectableTypes THEN ClkStates ELSE {e.clkState} :
          /\ sync' = [sync EXCEPT ![i].clkState = c,
                                  ![i].state = IF Expired(e) THEN "normal" ELSE e.state]
          /\ main' = [main EXCEPT !.at = IF Expired(e) THEN "stateNotify" ELSE "rank",
                                  !.clkChanged = c # e.clkState]
    BY <1>3 DEF CheckEntry
  <2>3. c \in {"unqualified", "qualified"}
    BY <2>1, <2>2, InputAssumption DEF SyncEntry
  <2>4. (IF Expired(e) THEN "normal" ELSE e.state) \in SyncStates
    BY <2>1 DEF SyncEntry, SyncStates
  <2>5. [e EXCEPT !.clkState = c, !.state = IF Expired(e) THEN "normal" ELSE e.state] \in SyncEntry
    BY <2>1, <2>3, <2>4, EntryUpdates
  <2>6. sync' \in [Syncs -> SyncEntry]
    BY <2>1, <2>2, <2>5
  <2>7. main' \in MainThread
    BY <2>2 DEF MainThread
  <2> QED
    BY <1>3, <2>6, <2>7 DEF CheckEntry
<1>4. CASE UpdateRank
  <2> DEFINE i == main.i  e == sync[i]  ql == CurrentQl(i, e)  rank == RankOf(ql, e)
  <2>1. i \in Syncs /\ e \in SyncEntry
    BY DEF MainThread
  <2>2. ql \in Qls
    BY <2>1, CurrentQlType
  <2>3. rank \in Nat
    BY <2>1, <2>2, RankOfType
  <2> HIDE DEF ql, rank
  <2>4. [e EXCEPT !.currentQl = ql, !.rank = rank] \in SyncEntry
    BY <2>1, <2>2, <2>3, EntryUpdates
  <2>5. sync' = [sync EXCEPT ![i].currentQl = ql, ![i].rank = rank]
    BY <1>4 DEF UpdateRank, ql, rank
  <2>6. sync' \in [Syncs -> SyncEntry]
    BY <2>1, <2>4, <2>5
  <2>7. \/ main' = [main EXCEPT !.at = "rankNotify", !.change = TRUE]
        \/ main' = AfterRank(main)
    BY <1>4 DEF UpdateRank
  <2>8. main' \in MainThread
    BY <2>7, MainUpdates DEF MainThread
  <2> QED
    BY <1>4, <2>6, <2>8 DEF UpdateRank
<1>5. CASE Relock
  BY <1>5, MainUpdates DEF Relock
<1>6. CASE EndPass
  <2>1. main' \in MainThread
    BY <1>6 DEF EndPass, MainThread
  <2>2. updateFlag' \in BOOLEAN
    BY <1>6 DEF EndPass
  <2> QED
    BY <1>6, <2>1, <2>2 DEF EndPass
<1>7. CASE Tick
  <2>1. ASSUME NEW s \in Syncs
        PROVE  [sync[s] EXCEPT !.left = IF @ >= 0 THEN @ - 1 ELSE @] \in SyncEntry
    <3>1. sync[s] \in SyncEntry
      OBVIOUS
    <3>2. sync[s].left \in Int
      BY <3>1 DEF SyncEntry
    <3>3. (IF sync[s].left >= 0 THEN sync[s].left - 1 ELSE sync[s].left) \in Int
      BY <3>2
    <3> QED
      BY <3>1, <3>3, EntryUpdates
  <2>2. sync' \in [Syncs -> SyncEntry]
    BY <1>7, <2>1 DEF Tick
  <2> QED
    BY <1>7, <2>2 DEF Tick
<1>8. ASSUME NEW s \in Syncs, PortStep(s) PROVE TypeOK'
  <2>1. sync[s] \in SyncEntry /\ port[s] \in PortThread /\ 0 \in 0 .. MaxHops
    BY DEF MaxHops
  <2>2. DoNotUseQl \in Qls /\ FailedQl \in Qls
    BY QlAssumption DEF Qls
  <2>3. ASSUME NEW ql \in RxQls, NEW hops \in RxHops, ReceivePdu(s, ql, hops) PROVE TypeOK'
    <3>1. ql \in Qls /\ hops \in Nat
      BY InputAssumption, QlAssumption DEF Qls
    <3>2. (IF hops > MaxHops THEN MaxHops ELSE hops) \in 0 .. MaxHops
      BY <3>1 DEF MaxHops
    <3>3. [ReceiveQl(sync[s], ql) EXCEPT !.numHops = IF hops > MaxHops THEN MaxHops ELSE hops,
                                         !.rxTimeout = FALSE] \in SyncEntry
      BY <2>1, <3>1, <3>2, ReceiveQlType, EntryUpdates
    <3>4. sync' \in [Syncs -> SyncEntry]
      BY <2>3, <3>3, DeliverType DEF ReceivePdu
    <3>5. port' \in [Syncs -> PortThread]
      BY <2>1, <2>3, <3>1 DEF ReceivePdu, PortThread
    <3> QED
      BY <2>3, <3>4, <3>5 DEF ReceivePdu
  <2>4. CASE RxTimeout(s)
    <3>1. [ReceiveQl(sync[s], FailedQl) EXCEPT !.numHops = 0, !.rxTimeout = TRUE] \in SyncEntry
      BY <2>1, <2>2, ReceiveQlType, EntryUpdates
    <3>2. sync' \in [Syncs -> SyncEntry]
      BY <2>4, <3>1, DeliverType DEF RxTimeout
    <3>3. port' \in [Syncs -> PortThread]
      BY <2>1, <2>4 DEF RxTimeout, PortThread
    <3> QED
      BY <2>4, <3>2, <3>3 DEF RxTimeout
  <2>5. CASE RxLinkDown(s)
    <3>1. [ReceiveQl(sync[s], DoNotUseQl) EXCEPT !.numHops = 0, !.linkDown = TRUE] \in SyncEntry
      BY <2>1, <2>2, ReceiveQlType, EntryUpdates
    <3>2. sync' \in [Syncs -> SyncEntry]
      BY <2>5, <3>1, DeliverType DEF RxLinkDown
    <3>3. port' \in [Syncs -> PortThread]
      BY <2>1, <2>5 DEF RxLinkDown, PortThread
    <3> QED
      BY <2>5, <3>2, <3>3 DEF RxLinkDown
  <2>6. CASE RxLinkUp(s)
    <3>1. [sync[s] EXCEPT !.linkDown = FALSE] \in SyncEntry
      BY <2>1, EntryUpdates
    <3>2. sync' \in [Syncs -> SyncEntry]
      BY <2>6, <3>1, DeliverType DEF RxLinkUp
    <3>3. port' \in [Syncs -> PortThread]
      BY <2>1, <2>6 DEF RxLinkUp, PortThread
    <3> QED
      BY <2>6, <3>2, <3>3 DEF RxLinkUp
  <2>7. CASE TxLinkChange(s)
    <3>1. [sync[s] EXCEPT !.linkDown = ~port[s].linkDown] \in SyncEntry
      BY <2>1, EntryUpdates DEF PortThread
    <3>2. sync' \in [Syncs -> SyncEntry]
      BY <2>7, <3>1 DEF TxLinkChange
    <3>3. [port[s] EXCEPT !.linkDown = ~port[s].linkDown] \in PortThread
      BY <2>1 DEF PortThread
    <3>4. port' \in [Syncs -> PortThread]
      BY <2>7, <3>3 DEF TxLinkChange
    <3> QED
      BY <2>7, <3>2, <3>4 DEF TxLinkChange
  <2> QED
    BY <1>8, <2>3, <2>4, <2>5, <2>6, <2>7 DEF PortStep
<1>9. ASSUME NEW s \in Syncs, Management(s) PROVE TypeOK'
  <2>1. sync[s] \in SyncEntry
    OBVIOUS
  <2>2. ASSUME NEW ql \in ForcedQls, SetForcedQl(s, ql) PROVE TypeOK'
    <3>1. ql \in Qls
      BY InputAssumption, QlAssumption DEF Qls
    <3>2. [sync[s] EXCEPT !.forcedQl = ql, !.state = "forced"] \in SyncEntry
      BY <2>1, <3>1, EntryUpdates
    <3> QED
      BY <2>2, <3>2 DEF SetForcedQl
  <2>3. CASE ClearForcedQl(s)
    <3>1. [sync[s] EXCEPT !.state = "normal"] \in SyncEntry
      BY <2>1, EntryUpdates
    <3> QED
      BY <2>3, <3>1 DEF ClearForcedQl
  <2>4. CASE ClearWtrTimer(s)
    <3>1. \A n \in Int : [sync[s] EXCEPT !.left = n] \in SyncEntry
      BY <2>1, EntryUpdates
    <3> QED
      BY <2>4, <3>1 DEF ClearWtrTimer
  <2>5. ASSUME NEW clk \in ClkIdx, AssignClk(s, clk) PROVE TypeOK'
    <3>1. \A t \in Syncs : /\ [sync[t] EXCEPT !.type = "synce", !.clkIdx = clk] \in SyncEntry
                           /\ [sync[t] EXCEPT !.type = "monitoring", !.clkIdx = MissingClkIdx] \in SyncEntry
      BY EntryUpdates DEF SyncTypes, SelectableTypes
    <3>2. sync' \in [Syncs -> SyncEntry]
      BY <2>5, <3>1 DEF AssignClk
    <3> QED
      BY <2>5, <3>2 DEF AssignClk
  <2>6. ASSUME NEW pri \in NewPris, SetPri(s, pri) PROVE TypeOK'
    <3>1. [sync[s] EXCEPT !.pri = pri] \in SyncEntry
      BY <2>1, InputAssumption, EntryUpdates
    <3> QED
      BY <2>6, <3>1 DEF SetPri
  <2> QED
    BY <1>9, <2>2, <2>3, <2>4, <2>5, <2>6 DEF Management
<1>10. CASE UNCHANGED vars
  BY <1>10 DEF vars
<1> QED
  BY <1>1, <1>2, <1>3, <1>4, <1>5, <1>6, <1>7, <1>8, <1>9, <1>10 DEF Next, MainStep

(* Every variable keeps its type, for every configuration. *)
THEOREM TypeCorrect == Spec => []TypeOK
BY InitTypeOK, StepTypeOK, PTL DEF Spec

-----------------------------------------------------------------------------
(* What the RX callback leaves alone, and what it decides. *)
LEMMA ReceiveQlFields ==
    ASSUME NEW e \in SyncEntry, NEW ql \in Qls
    PROVE  LET r == ReceiveQl(e, ql) IN
           /\ r.type = e.type /\ r.clkIdx = e.clkIdx /\ r.pri = e.pri /\ r.rank = e.rank
           /\ r.linkDown = e.linkDown /\ r.rxTimeout = e.rxTimeout
           /\ r.esmcQl = ql /\ r.currentQl = e.currentQl
BY DEF ReceiveQl, SyncEntry

(* The state control_rx_event_cb decides agrees with the new QL. *)
LEMMA ReceiveQlState ==
    ASSUME NEW e \in SyncEntry, NEW ql \in Qls
    PROVE  LET r == ReceiveQl(e, ql) IN
           /\ r.state = "hold_off" =>
                \/ e.state = "hold_off" /\ r.esmcQl = FailedQl /\ r.holdOffQl = e.holdOffQl
                \/ e.esmcQl < FailedQl /\ r.esmcQl = FailedQl /\ r.holdOffQl = e.esmcQl
                \/ e.state = "hold_off" /\ r.esmcQl = e.esmcQl /\ r.holdOffQl = e.holdOffQl
           /\ r.state = "wait_to_restore" =>
                \/ r.esmcQl < FailedQl
                \/ e.state = "wait_to_restore" /\ r.esmcQl = e.esmcQl
           /\ e.state = "wait_to_restore" /\ r.state # "wait_to_restore" => r.esmcQl = FailedQl
<1>1. e.esmcQl \in Nat /\ ql \in Nat /\ e.esmcQl <= FailedQl /\ ql <= FailedQl
  BY QlAssumption DEF SyncEntry, Qls
<1> QED
  BY <1>1, QlAssumption DEF ReceiveQl, SyncEntry

(* What an event leaves alone of the entry it is delivered to. *)
SameClock(s) == sync'[s].type = sync[s].type /\ sync'[s].clkIdx = sync[s].clkIdx
SameRank(s)  == /\ sync'[s].pri = sync[s].pri /\ sync'[s].rank = sync[s].rank
                /\ sync'[s].currentQl = sync[s].currentQl

(* Clocks move between ports only when the operator assigns one, priorities  *)
(* change only when the operator sets one, ranks only in the main thread.    *)
LEMMA SelectionFrame ==
    ASSUME TypeOK, [Next]_vars
    PROVE  \/ \A t \in Syncs : SameClock(t) /\ SameRank(t)
           \/ UpdateRank /\ \A t \in Syncs : SameClock(t) /\ sync'[t].pri = sync[t].pri
           \/ \E s \in Syncs, clk \in ClkIdx :
                 /\ <<s, clk>> \in AssignTargets /\ AssignClk(s, clk)
                 /\ \A t \in Syncs : SameRank(t)
           \/ \E s \in Syncs, pri \in NewPris :
                 SetPri(s, pri) /\ \A t \in Syncs : /\ SameClock(t) /\ sync'[t].rank = sync[t].rank
                                                   /\ sync'[t].currentQl = sync[t].currentQl
<1> USE DEF TypeOK, SameClock, SameRank
<1>1. CASE BeginPass \/ SkipTxOnly \/ Relock \/ EndPass
  BY <1>1 DEF BeginPass, SkipTxOnly, Relock, EndPass
<1>2. CASE CheckEntry
  <2>1. main.i \in Syncs
    BY DEF MainThread
  <2>2. \A t \in Syncs : SameClock(t) /\ SameRank(t)
    BY <1>2, <2>1 DEF CheckEntry, SyncEntry
  <2> QED
    BY <2>2
<1>3. CASE UpdateRank
  <2>1. main.i \in Syncs
    BY DEF MainThread
  <2>2. \A t \in Syncs : SameClock(t) /\ sync'[t].pri = sync[t].pri
    BY <1>3, <2>1 DEF UpdateRank, SyncEntry
  <2> QED
    BY <1>3, <2>2
<1>4. CASE Tick
  BY <1>4 DEF Tick, SyncEntry
<1>5. ASSUME NEW s \in Syncs, PortStep(s) PROVE \A t \in Syncs : SameClock(t) /\ SameRank(t)
  <2>1. sync[s] \in SyncEntry
    OBVIOUS
  <2>2. DoNotUseQl \in Qls /\ FailedQl \in Qls
    BY QlAssumption DEF Qls
  <2>3. ASSUME NEW ql \in RxQls, NEW hops \in RxHops, ReceivePdu(s, ql, hops)
        PROVE  \A t \in Syncs : SameClock(t) /\ SameRank(t)
    <3>1. ql \in Qls
      BY InputAssumption, QlAssumption DEF Qls
    <3>2. ReceiveQl(sync[s], ql) \in SyncEntry
      BY <2>1, <3>1, ReceiveQlType
    <3> DEFINE r == ReceiveQl(sync[s], ql)
               n == IF hops > MaxHops THEN MaxHops ELSE hops
    <3>3. /\ r \in SyncEntry
          /\ r.type = sync[s].type /\ r.clkIdx = sync[s].clkIdx
          /\ r.pri = sync[s].pri /\ r.rank = sync[s].rank /\ r.currentQl = sync[s].currentQl
      BY <2>1, <3>1, <3>2, ReceiveQlFields
    <3>4. \/ sync' = sync
          \/ sync' = [sync EXCEPT ![s] = [r EXCEPT !.numHops = n, !.rxTimeout = FALSE]]
      BY <2>3 DEF ReceivePdu, Deliver
    <3> HIDE DEF r, n
    <3>5. CASE sync' = [sync EXCEPT ![s] = [r EXCEPT !.numHops = n, !.rxTimeout = FALSE]]
      <4> DEFINE q == [r EXCEPT !.numHops = n, !.rxTimeout = FALSE]
      <4>1. /\ q.type = r.type /\ q.clkIdx = r.clkIdx /\ q.pri = r.pri /\ q.rank = r.rank
            /\ q.currentQl = r.currentQl
        BY <3>3 DEF SyncEntry
      <4> HIDE DEF q
      <4>2. sync' = [sync EXCEPT ![s] = q]
        BY <3>5 DEF q
      <4> QED
        BY <3>3, <4>1, <4>2
    <3> QED
      BY <3>4, <3>5
  <2>4. CASE RxTimeout(s)
    <3>1. ReceiveQl(sync[s], FailedQl) \in SyncEntry
      BY <2>1, <2>2, ReceiveQlType
    <3> QED
      BY <2>1, <2>2, <2>4, <3>1, ReceiveQlFields DEF RxTimeout, Deliver, SyncEntry
  <2>5. CASE RxLinkDown(s)
    <3>1. ReceiveQl(sync[s], DoNotUseQl) \in SyncEntry
      BY <2>1, <2>2, ReceiveQlType
    <3> QED
      BY <2>1, <2>2, <2>5, <3>1, ReceiveQlFields DEF RxLinkDown, Deliver, SyncEntry
  <2>6. CASE RxLinkUp(s)
    BY <2>1, <2>6 DEF RxLinkUp, Deliver, SyncEntry
  <2>7. CASE TxLinkChange(s)
    BY <2>1, <2>7 DEF TxLinkChange, SyncEntry
  <2> QED
    BY <1>5, <2>3, <2>4, <2>5, <2>6, <2>7 DEF PortStep
<1>6. ASSUME NEW s \in Syncs,
             \/ \E ql \in ForcedQls : SetForcedQl(s, ql)
             \/ ClearForcedQl(s) \/ ClearWtrTimer(s)
      PROVE  \A t \in Syncs : SameClock(t) /\ SameRank(t)
  <2>1. CASE \E ql \in ForcedQls : SetForcedQl(s, ql)
    BY <2>1 DEF SetForcedQl, SyncEntry
  <2>2. CASE ClearForcedQl(s)
    BY <2>2 DEF ClearForcedQl, SyncEntry
  <2>3. CASE ClearWtrTimer(s)
    BY <2>3 DEF ClearWtrTimer, SyncEntry
  <2> QED
    BY <1>6, <2>1, <2>2, <2>3
<1>7. ASSUME NEW s \in Syncs, NEW clk \in ClkIdx, AssignClk(s, clk)
      PROVE  \A t \in Syncs : SameRank(t)
  <2> TAKE t \in Syncs
  <2>1. sync'[t] = IF t = s THEN [sync[t] EXCEPT !.type = "synce", !.clkIdx = clk]
                   ELSE IF sync[t].clkIdx = clk
                        THEN [sync[t] EXCEPT !.type = "monitoring", !.clkIdx = MissingClkIdx]
                        ELSE sync[t]
    BY <1>7 DEF AssignClk
  <2>2. PICK e \in SyncEntry : e = sync[t]
    OBVIOUS
  <2>3. sync'[t] \in {[e EXCEPT !.type = "synce", !.clkIdx = clk],
                      [e EXCEPT !.type = "monitoring", !.clkIdx = MissingClkIdx], e}
    BY <2>1, <2>2
  <2>4. \A ty, c : /\ [e EXCEPT !.type = ty, !.clkIdx = c].pri = e.pri
                   /\ [e EXCEPT !.type = ty, !.clkIdx = c].rank = e.rank
                   /\ [e EXCEPT !.type = ty, !.clkIdx = c].currentQl = e.currentQl
    BY <2>2 DEF SyncEntry
  <2>5. sync'[t].pri = e.pri /\ sync'[t].rank = e.rank /\ sync'[t].currentQl = e.currentQl
    <3>1. CASE sync'[t] = [e EXCEPT !.type = "synce", !.clkIdx = clk]
      BY <3>1, <2>4
    <3>2. CASE sync'[t] = [e EXCEPT !.type = "monitoring", !.clkIdx = MissingClkIdx]
      BY <3>2, <2>4
    <3>3. CASE sync'[t] = e
      BY <3>3
    <3> QED
      BY <2>3, <3>1, <3>2, <3>3
  <2> QED
    BY <2>2, <2>5
<1>8. ASSUME NEW s \in Syncs, NEW pri \in NewPris, SetPri(s, pri)
      PROVE  \A t \in Syncs : /\ SameClock(t) /\ sync'[t].rank = sync[t].rank
                              /\ sync'[t].currentQl = sync[t].currentQl
  BY <1>8 DEF SetPri, SyncEntry
<1>9. CASE UNCHANGED vars
  BY <1>9 DEF vars
<1> QED
  BY <1>1, <1>2, <1>3, <1>4, <1>5, <1>6, <1>7, <1>8, <1>9 DEF Next, MainStep, Management

(* What assigning a clock does to the entry of port t. *)
LEMMA AssignClkEffect ==
    ASSUME TypeOK, NEW s \in Syncs, NEW clk \in ClkIdx, AssignClk(s, clk), NEW t \in Syncs
    PROVE  /\ t = s => sync'[t].type = "synce" /\ sync'[t].clkIdx = clk
           /\ t # s /\ sync[t].clkIdx = clk =>
                sync'[t].type = "monitoring" /\ sync'[t].clkIdx = MissingClkIdx
           /\ t # s /\ sync[t].clkIdx # clk => sync'[t] = sync[t]
<1>1. sync'[t] = IF t = s THEN [sync[t] EXCEPT !.type = "synce", !.clkIdx = clk]
                 ELSE IF sync[t].clkIdx = clk
                      THEN [sync[t] EXCEPT !.type = "monitoring", !.clkIdx = MissingClkIdx]
                      ELSE sync[t]
  BY DEF AssignClk
<1>2. sync[t] \in SyncEntry
  BY DEF TypeOK
<1>3. \A e \in SyncEntry : \A ty, c :
        /\ [e EXCEPT !.type = ty, !.clkIdx = c].type = ty
        /\ [e EXCEPT !.type = ty, !.clkIdx = c].clkIdx = c
  BY DEF SyncEntry
<1>4. QED
  BY <1>1, <1>2, <1>3

(* An RX port is a Sync-E or monitoring port for ever. *)
RxPortsReceive == \A s \in RxPorts : sync[s].type \in HasRx

(* Every port with an RX thread is in the table. *)
LEMMA RxPortsAreSyncs == RxPorts \subseteq Syncs
BY ConfigAssumption

LEMMA InitOneSync == Init => OneSyncPerClock
BY ConfigAssumption DEF Init, StartsWith, OneSyncPerClock

LEMMA StepOneSync == TypeOK /\ OneSyncPerClock /\ [Next]_vars => OneSyncPerClock'
<1> SUFFICES ASSUME TypeOK, OneSyncPerClock, [Next]_vars PROVE OneSyncPerClock'
  OBVIOUS
<1>1. CASE \A t \in Syncs : SameClock(t)
  BY <1>1 DEF OneSyncPerClock, SameClock
<1>2. ASSUME NEW s \in Syncs, NEW clk \in ClkIdx, AssignClk(s, clk) PROVE OneSyncPerClock'
  <2>1. clk # MissingClkIdx
    BY ConfigAssumption DEF ClkIdx, MissingClkIdx
  <2>2. /\ sync'[s].type = "synce" /\ sync'[s].clkIdx = clk
        /\ \A t \in Syncs \ {s} :
             IF sync[t].clkIdx = clk
             THEN sync'[t].type = "monitoring" /\ sync'[t].clkIdx = MissingClkIdx
             ELSE SameClock(t)
    BY <1>2, AssignClkEffect DEF SameClock
  <2> QED
    BY <2>1, <2>2 DEF OneSyncPerClock, SelectableTypes, SameClock
<1> QED
  BY <1>1, <1>2, SelectionFrame

(* Clock indices stay unique and go with the types the selection considers,  *)
(* however clocks are reassigned between ports of any type.                  *)
THEOREM ClocksStayUnique == Spec => []OneSyncPerClock
BY InitOneSync, StepOneSync, TypeCorrect, PTL DEF Spec

LEMMA StartReceives == ASSUME NEW m, StartsWith(m) PROVE RxPortsReceive
BY ConfigAssumption DEF StartsWith, RxPortsReceive, HasRx

LEMMA StepRxPortsReceive == TypeOK /\ RxPortsReceive /\ [Next]_vars => RxPortsReceive'
<1> SUFFICES ASSUME TypeOK, RxPortsReceive, [Next]_vars PROVE RxPortsReceive'
  OBVIOUS
<1>1. CASE \A t \in Syncs : SameClock(t)
  BY <1>1, RxPortsAreSyncs DEF RxPortsReceive, SameClock
<1>2. ASSUME NEW s \in Syncs, NEW clk \in ClkIdx, AssignClk(s, clk) PROVE RxPortsReceive'
  <2>1. \A t \in Syncs : sync'[t].type \in {"synce", "monitoring", sync[t].type}
    BY <1>2, AssignClkEffect
  <2> QED
    BY <2>1, RxPortsAreSyncs DEF RxPortsReceive, HasRx
<1> QED
  BY <1>1, <1>2, SelectionFrame

(* An RX port never becomes external or TX only, so its events are taken. *)
LEMMA RxPortsStay == Spec => []RxPortsReceive
<1>1. Init => RxPortsReceive
  BY StartReceives DEF Init
<1> QED
  BY <1>1, StepRxPortsReceive, TypeCorrect, PTL DEF Spec

(* control_set_pri: no sequence of priority changes, in any window of the    *)
(* pass, gives two ports the same priority.                                  *)
THEOREM PrioritiesStayUnique == Spec => []PrioritiesUnique
<1>1. Init => PrioritiesUnique
  BY ConfigAssumption DEF Init, StartsWith, PrioritiesUnique
<1>2. TypeOK /\ PrioritiesUnique /\ [Next]_vars => PrioritiesUnique'
  <2> SUFFICES ASSUME TypeOK, PrioritiesUnique, [Next]_vars PROVE PrioritiesUnique'
    OBVIOUS
  <2>1. CASE \A t \in Syncs : sync'[t].pri = sync[t].pri
    BY <2>1 DEF PrioritiesUnique
  <2>2. ASSUME NEW s \in Syncs, NEW pri \in NewPris, SetPri(s, pri) PROVE PrioritiesUnique'
    <3>1. \A t \in Syncs : sync[t] \in SyncEntry
      BY DEF TypeOK
    <3> DEFINE q == [sync[s] EXCEPT !.pri = pri]
    <3>a. q.pri = pri
      BY <3>1 DEF SyncEntry
    <3>b. sync' = [sync EXCEPT ![s] = q] /\ sync \in [Syncs -> SyncEntry]
      BY <2>2 DEF SetPri, TypeOK
    <3> HIDE DEF q
    <3>2. \A t \in Syncs : sync'[t].pri = IF t = s THEN pri ELSE sync[t].pri
      BY <3>a, <3>b
    <3>3. \A t \in Syncs : sync[t].pri # pri
      BY <2>2 DEF SetPri
    <3> QED
      BY <3>2, <3>3 DEF PrioritiesUnique
  <2> QED
    BY <2>1, <2>2, SelectionFrame DEF SameRank
<1> QED
  BY <1>1, <1>2, TypeCorrect, PTL DEF Spec

-----------------------------------------------------------------------------
(* The states of a port and its RX thread.  First what each step does to the *)
(* QL, the state and the flags of one port.                                  *)

SameQl(t) == /\ sync'[t].esmcQl = sync[t].esmcQl
             /\ sync'[t].holdOffQl = sync[t].holdOffQl

(* Outside the RX callback a state changes only on expiry and when a QL is   *)
(* forced or no longer forced.                                               *)
StateKept(t) ==
    /\ SameQl(t)
    /\ \/ sync'[t].state \in {sync[t].state, "forced"}
       \/ sync'[t].state = "normal" /\ (sync[t].left < 0 \/ sync[t].state = "forced")

StateReceived(t) ==
    \E ql \in Qls : LET r == ReceiveQl(sync[t], ql) IN
        /\ sync'[t].esmcQl = r.esmcQl
        /\ sync'[t].holdOffQl = r.holdOffQl
        /\ sync'[t].state = r.state

(* What the RX thread of port t and its entry agree on. *)
RxView(t) == /\ port[t].lastQl # MaxQl => sync[t].esmcQl = port[t].lastQl
             /\ sync[t].linkDown = port[t].linkDown
             /\ sync[t].linkDown \/ sync[t].rxTimeout => sync[t].esmcQl >= DoNotUseQl

(* A step touches neither the RX thread's view of port t nor the table's. *)
RxQuiet(t) == /\ port'[t].lastQl = port[t].lastQl /\ port'[t].linkDown = port[t].linkDown
              /\ sync'[t].esmcQl = sync[t].esmcQl /\ sync'[t].linkDown = sync[t].linkDown
              /\ sync'[t].rxTimeout = sync[t].rxTimeout

(* One event of one RX thread keeps the thread and the table in agreement,   *)
(* and changes the state only as the RX callback decides.                    *)
LEMMA RxStep ==
    ASSUME TypeOK, RxPortsReceive, NEW s \in RxPorts, NEW t \in Syncs,
           \/ \E ql \in RxQls, hops \in RxHops : ReceivePdu(s, ql, hops)
           \/ RxTimeout(s) \/ RxLinkDown(s) \/ RxLinkUp(s)
    PROVE  /\ StateKept(t) \/ StateReceived(t)
           /\ t # s => RxQuiet(t)
           /\ t = s /\ RxView(t) => RxView(t)'
<1>1. /\ s \in Syncs /\ sync \in [Syncs -> SyncEntry] /\ port \in [Syncs -> PortThread]
      /\ sync[s] \in SyncEntry /\ sync[s].type \in HasRx
  BY RxPortsAreSyncs DEF TypeOK, RxPortsReceive
<1>2. DoNotUseQl \in Qls /\ FailedQl \in Qls /\ DoNotUseQl <= FailedQl
  BY QlAssumption DEF Qls
<1>3. CASE \E ql \in RxQls, hops \in RxHops : ReceivePdu(s, ql, hops)
  <2>1. PICK ql \in RxQls, hops \in RxHops : ReceivePdu(s, ql, hops)
    BY <1>3
  <2>2. ql \in Qls
    BY InputAssumption, QlAssumption DEF Qls
  <2> DEFINE n == IF hops > MaxHops THEN MaxHops ELSE hops
             r == ReceiveQl(sync[s], ql)
             q == [r EXCEPT !.numHops = n, !.rxTimeout = FALSE]
  <2>3. r \in SyncEntry /\ r.esmcQl = ql /\ r.linkDown = sync[s].linkDown
    BY <1>1, <2>2, ReceiveQlType, ReceiveQlFields
  <2> HIDE DEF r, n
  <2>4. /\ q.esmcQl = ql /\ q.state = r.state /\ q.holdOffQl = r.holdOffQl
        /\ q.linkDown = sync[s].linkDown /\ q.rxTimeout = FALSE
    BY <2>3 DEF SyncEntry
  <2>5. /\ ~port[s].linkDown
        /\ port' = [port EXCEPT ![s].lastQl = ql, ![s].timedOut = FALSE]
        /\ \/ ql = port[s].lastQl /\ sync' = sync
           \/ sync' = [sync EXCEPT ![s] = q]
    BY <1>1, <2>1 DEF ReceivePdu, Deliver, r, n
  <2> HIDE DEF q
  <2>6. /\ port'[s].lastQl = ql /\ port'[s].linkDown = port[s].linkDown
        /\ t # s => port'[t] = port[t]
    BY <1>1, <2>5 DEF PortThread
  <2>7. CASE ql = port[s].lastQl /\ sync' = sync
    BY <2>6, <2>7 DEF StateKept, SameQl, RxQuiet, RxView
  <2>8. CASE sync' = [sync EXCEPT ![s] = q]
    <3>1. sync'[s] = q /\ (t # s => sync'[t] = sync[t])
      BY <1>1, <2>8
    <3>2. StateKept(t) \/ StateReceived(t)
      BY <2>2, <2>3, <2>4, <3>1 DEF StateKept, SameQl, StateReceived, r
    <3>3. t # s => RxQuiet(t)
      BY <2>6, <3>1 DEF RxQuiet
    <3>4. t = s /\ RxView(t) => RxView(t)'
      BY <2>4, <2>5, <2>6, <3>1 DEF RxView
    <3> QED
      BY <3>2, <3>3, <3>4
  <2> QED
    BY <2>5, <2>7, <2>8
<1>4. CASE RxTimeout(s)
  <2> DEFINE r == ReceiveQl(sync[s], FailedQl)
             q == [r EXCEPT !.numHops = 0, !.rxTimeout = TRUE]
  <2>1. r \in SyncEntry /\ r.esmcQl = FailedQl /\ r.linkDown = sync[s].linkDown
    BY <1>1, <1>2, ReceiveQlType, ReceiveQlFields
  <2> HIDE DEF r
  <2>2. /\ q.esmcQl = FailedQl /\ q.state = r.state /\ q.holdOffQl = r.holdOffQl
        /\ q.linkDown = sync[s].linkDown
    BY <2>1 DEF SyncEntry
  <2>3. /\ port' = [port EXCEPT ![s].timedOut = TRUE, ![s].lastQl = MaxQl]
        /\ sync' = [sync EXCEPT ![s] = q]
    BY <1>1, <1>4 DEF RxTimeout, Deliver, r
  <2> HIDE DEF q
  <2>4. /\ port'[s].lastQl = MaxQl /\ port'[s].linkDown = port[s].linkDown
        /\ sync'[s] = q /\ (t # s => port'[t] = port[t] /\ sync'[t] = sync[t])
    BY <1>1, <2>3 DEF PortThread
  <2>5. StateKept(t) \/ StateReceived(t)
    BY <1>2, <2>1, <2>2, <2>4 DEF StateKept, SameQl, StateReceived, r
  <2>6. t # s => RxQuiet(t)
    BY <2>4 DEF RxQuiet
  <2>7. t = s /\ RxView(t) => RxView(t)'
    BY <1>2, <2>2, <2>4, QlAssumption DEF RxView
  <2> QED
    BY <2>5, <2>6, <2>7
<1>5. CASE RxLinkDown(s)
  <2> DEFINE r == ReceiveQl(sync[s], DoNotUseQl)
             q == [r EXCEPT !.numHops = 0, !.linkDown = TRUE]
  <2>1. r \in SyncEntry /\ r.esmcQl = DoNotUseQl /\ r.linkDown = sync[s].linkDown
    BY <1>1, <1>2, ReceiveQlType, ReceiveQlFields
  <2> HIDE DEF r
  <2>2. /\ q.esmcQl = DoNotUseQl /\ q.state = r.state /\ q.holdOffQl = r.holdOffQl
        /\ q.linkDown = TRUE
    BY <2>1 DEF SyncEntry
  <2>3. /\ port' = [port EXCEPT ![s].linkDown = TRUE, ![s].lastQl = MaxQl]
        /\ sync' = [sync EXCEPT ![s] = q]
    BY <1>1, <1>5 DEF RxLinkDown, Deliver, r
  <2> HIDE DEF q
  <2>4. /\ port'[s].lastQl = MaxQl /\ port'[s].linkDown = TRUE
        /\ sync'[s] = q /\ (t # s => port'[t] = port[t] /\ sync'[t] = sync[t])
    BY <1>1, <2>3 DEF PortThread
  <2>5. StateKept(t) \/ StateReceived(t)
    BY <1>2, <2>1, <2>2, <2>4 DEF StateKept, SameQl, StateReceived, r
  <2>6. t # s => RxQuiet(t)
    BY <2>4 DEF RxQuiet
  <2>7. t = s /\ RxView(t) => RxView(t)'
    <3>1. sync'[s].linkDown = port'[s].linkDown
      BY <2>2, <2>4
    <3>2. sync'[s].esmcQl >= DoNotUseQl
      BY <2>2, <2>4, QlAssumption
    <3> QED
      BY <2>4, <3>1, <3>2 DEF RxView
  <2> QED
    BY <2>5, <2>6, <2>7
<1>6. CASE RxLinkUp(s)
  <2>1. /\ port' = [port EXCEPT ![s].linkDown = FALSE, ![s].lastQl = MaxQl]
        /\ sync' = [sync EXCEPT ![s] = [sync[s] EXCEPT !.linkDown = FALSE]]
    BY <1>1, <1>6 DEF RxLinkUp, Deliver
  <2>2. /\ port'[s].lastQl = MaxQl /\ port'[s].linkDown = FALSE
        /\ t # s => port'[t] = port[t] /\ sync'[t] = sync[t]
    BY <1>1, <2>1 DEF PortThread
  <2>3. /\ sync'[s].linkDown = FALSE /\ sync'[s].rxTimeout = sync[s].rxTimeout
        /\ sync'[s].esmcQl = sync[s].esmcQl /\ sync'[s].state = sync[s].state
        /\ sync'[s].holdOffQl = sync[s].holdOffQl
    BY <1>1, <2>1 DEF SyncEntry
  <2> QED
    BY <2>2, <2>3 DEF StateKept, SameQl, RxQuiet, RxView
<1> QED
  BY <1>3, <1>4, <1>5, <1>6

(* The other steps leave the RX threads alone, and change the state of an    *)
(* entry only on expiry and by the operator.                                 *)
LEMMA OtherStep ==
    ASSUME TypeOK, NEW t \in Syncs,
           \/ MainStep \/ Tick \/ UNCHANGED vars
           \/ \E s \in Syncs : Management(s)
           \/ \E s \in Syncs : TxLinkChange(s)
    PROVE  StateKept(t) /\ (t \in RxPorts => RxQuiet(t))
<1> USE DEF TypeOK, StateKept, SameQl, RxQuiet
<1>1. CASE BeginPass \/ SkipTxOnly \/ Relock \/ EndPass \/ UNCHANGED vars
  BY <1>1 DEF BeginPass, SkipTxOnly, Relock, EndPass, vars
<1>2. CASE CheckEntry
  <2>1. main.i \in Syncs /\ sync[main.i] \in SyncEntry
    BY DEF MainThread
  <2>2. PICK c \in IF sync[main.i].type \in SelectableTypes
                     THEN ClkStates ELSE {sync[main.i].clkState} :
          sync' = [sync EXCEPT ![main.i].clkState = c,
                               ![main.i].state = IF Expired(sync[main.i]) THEN "normal"
                                                 ELSE sync[main.i].state]
    BY <1>2 DEF CheckEntry
  <2> DEFINE st == IF Expired(sync[main.i]) THEN "normal" ELSE sync[main.i].state
             q == [sync[main.i] EXCEPT !.clkState = c, !.state = st]
  <2>3. st = sync[main.i].state \/ (st = "normal" /\ sync[main.i].left < 0)
    BY DEF Expired
  <2> HIDE DEF st
  <2>4. /\ q.state = st /\ q.esmcQl = sync[main.i].esmcQl
        /\ q.holdOffQl = sync[main.i].holdOffQl /\ q.linkDown = sync[main.i].linkDown
        /\ q.rxTimeout = sync[main.i].rxTimeout
    BY <2>1 DEF SyncEntry
  <2>5. sync' = [sync EXCEPT ![main.i] = q]
    BY <2>1, <2>2 DEF st
  <2> HIDE DEF q
  <2>6. /\ sync'[main.i] = q /\ port' = port
        /\ t # main.i => sync'[t] = sync[t]
    BY <1>2, <2>1, <2>5 DEF CheckEntry
  <2> QED
    BY <2>3, <2>4, <2>6
<1>3. CASE UpdateRank
  <2>1. main.i \in Syncs
    BY DEF MainThread
  <2> QED
    BY <1>3, <2>1 DEF UpdateRank, SyncEntry
<1>4. CASE Tick
  BY <1>4 DEF Tick, SyncEntry
<1>5. ASSUME NEW s \in Syncs, Management(s)
      PROVE  StateKept(t) /\ (t \in RxPorts => RxQuiet(t))
  <2>1. CASE \E ql \in ForcedQls : SetForcedQl(s, ql)
    BY <2>1 DEF SetForcedQl, SyncEntry
  <2>2. CASE ClearForcedQl(s)
    BY <2>2 DEF ClearForcedQl, SyncEntry
  <2>3. CASE ClearWtrTimer(s)
    BY <2>3 DEF ClearWtrTimer, SyncEntry
  <2>4. CASE \E clk \in ClkIdx : AssignClk(s, clk)
    <3>1. PICK clk \in ClkIdx : AssignClk(s, clk)
      BY <2>4
    <3>2. sync[t] \in SyncEntry /\ port' = port
      BY <3>1 DEF AssignClk
    <3>3. \/ sync'[t] = [sync[t] EXCEPT !.type = "synce", !.clkIdx = clk]
          \/ sync'[t] = [sync[t] EXCEPT !.type = "monitoring", !.clkIdx = MissingClkIdx]
          \/ sync'[t] = sync[t]
      BY <3>1 DEF AssignClk
    <3>4. \A e \in SyncEntry : \A ty, c : LET f == [e EXCEPT !.type = ty, !.clkIdx = c] IN
            /\ f.esmcQl = e.esmcQl /\ f.holdOffQl = e.holdOffQl /\ f.state = e.state
            /\ f.linkDown = e.linkDown /\ f.rxTimeout = e.rxTimeout
      BY DEF SyncEntry
    <3>5. /\ sync'[t].esmcQl = sync[t].esmcQl /\ sync'[t].holdOffQl = sync[t].holdOffQl
          /\ sync'[t].state = sync[t].state /\ sync'[t].linkDown = sync[t].linkDown
          /\ sync'[t].rxTimeout = sync[t].rxTimeout
      <4>1. PICK e \in SyncEntry : e = sync[t]
        BY <3>2
      <4>2. CASE sync'[t] = e
        BY <4>1, <4>2
      <4>3. CASE sync'[t] = [e EXCEPT !.type = "synce", !.clkIdx = clk]
        BY <4>1, <4>3, <3>4
      <4>4. CASE sync'[t] = [e EXCEPT !.type = "monitoring", !.clkIdx = MissingClkIdx]
        BY <4>1, <4>4, <3>4
      <4> QED
        BY <3>3, <4>1, <4>2, <4>3, <4>4
    <3> QED
      BY <3>2, <3>5
  <2>5. CASE \E pri \in NewPris : SetPri(s, pri)
    BY <2>5 DEF SetPri, SyncEntry
  <2> QED
    BY <1>5, <2>1, <2>2, <2>3, <2>4, <2>5 DEF Management
<1>6. ASSUME NEW s \in Syncs, TxLinkChange(s)
      PROVE  StateKept(t) /\ (t \in RxPorts => RxQuiet(t))
  <2>1. s \notin RxPorts
    BY <1>6, ConfigAssumption DEF TxLinkChange
  <2>2. /\ sync'[t].esmcQl = sync[t].esmcQl /\ sync'[t].state = sync[t].state
        /\ sync'[t].holdOffQl = sync[t].holdOffQl
    BY <1>6 DEF TxLinkChange, SyncEntry
  <2>3. t # s => sync'[t] = sync[t] /\ port'[t] = port[t]
    BY <1>6 DEF TxLinkChange
  <2> QED
    BY <2>1, <2>2, <2>3
<1> QED
  BY <1>1, <1>2, <1>3, <1>4, <1>5, <1>6 DEF MainStep

(* Every step is one of the two kinds. *)
LEMMA PortSteps ==
    ASSUME TypeOK, RxPortsReceive, [Next]_vars, NEW t \in Syncs
    PROVE  /\ StateKept(t) \/ StateReceived(t)
           /\ t \in RxPorts => RxQuiet(t) \/ (RxView(t) => RxView(t)')
<1>1. CASE \/ MainStep \/ Tick \/ UNCHANGED vars
           \/ \E s \in Syncs : Management(s)
           \/ \E s \in Syncs : TxLinkChange(s)
  BY <1>1, OtherStep
<1>2. ASSUME NEW s \in RxPorts,
             \/ \E ql \in RxQls, hops \in RxHops : ReceivePdu(s, ql, hops)
             \/ RxTimeout(s) \/ RxLinkDown(s) \/ RxLinkUp(s)
      PROVE  /\ StateKept(t) \/ StateReceived(t)
             /\ t \in RxPorts => RxQuiet(t) \/ (RxView(t) => RxView(t)')
  BY <1>2, RxStep
<1> QED
  BY <1>1, <1>2 DEF Next, PortStep

(* The RX thread's last_ql and link flag agree with the sync table, and a    *)
(* port that is down has no usable QL: LastQlIsInTable and                   *)
(* DownPortHasNoUsableQl need each other's link flags, so RxView, which is   *)
(* inductive, has both and the agreement of the flags.                       *)
LEMMA RxViewStays == Spec => [](\A s \in RxPorts : RxView(s))
<1>1. Init => \A s \in RxPorts : RxView(s)
  <2> SUFFICES ASSUME Init, NEW s \in RxPorts PROVE RxView(s)
    OBVIOUS
  <2>1. /\ port[s].lastQl = MaxQl /\ port[s].linkDown = FALSE
        /\ sync[s].linkDown = FALSE /\ sync[s].rxTimeout = FALSE
    BY RxPortsAreSyncs DEF Init, StartsWith
  <2> QED
    BY <2>1 DEF RxView
<1>2. TypeOK /\ RxPortsReceive /\ (\A s \in RxPorts : RxView(s)) /\ [Next]_vars
      => (\A s \in RxPorts : RxView(s))'
  <2> SUFFICES ASSUME TypeOK, RxPortsReceive, \A s \in RxPorts : RxView(s), [Next]_vars,
                      NEW s \in RxPorts
               PROVE  RxView(s)'
    OBVIOUS
  <2>1. RxQuiet(s) \/ (RxView(s) => RxView(s)')
    BY PortSteps, RxPortsAreSyncs
  <2>2. CASE RxQuiet(s)
    BY <2>2 DEF RxQuiet, RxView
  <2> QED
    BY <2>1, <2>2
<1> QED
  BY <1>1, <1>2, TypeCorrect, RxPortsStay, PTL DEF Spec

(* control_rx_event_cb and port_rx_thread: an RX thread that keeps silent    *)
(* about a QL it already reported never leaves another QL in the table.      *)
THEOREM LastQlStaysInTable == Spec => []LastQlIsInTable
<1>1. (\A s \in RxPorts : RxView(s)) => LastQlIsInTable
  BY DEF RxView, LastQlIsInTable
<1> QED
  BY <1>1, RxViewStays, PTL

(* control_rx_event_cb: whatever events follow one another, a port that is   *)
(* down or timed out keeps no usable QL.                                     *)
THEOREM DownPortsStayUnusable == Spec => []DownPortHasNoUsableQl
<1>1. (\A s \in RxPorts : RxView(s)) => DownPortHasNoUsableQl
  BY DEF RxView, DownPortHasNoUsableQl
<1> QED
  BY <1>1, RxViewStays, PTL

LEMMA StepTimedStates ==
    TypeOK /\ RxPortsReceive /\ TimedStateMatchesQl /\ [Next]_vars => TimedStateMatchesQl'
<1> SUFFICES ASSUME TypeOK, RxPortsReceive, TimedStateMatchesQl, [Next]_vars, NEW s \in Syncs
             PROVE  /\ sync'[s].state = "hold_off" =>
                          sync'[s].esmcQl = FailedQl /\ sync'[s].holdOffQl < FailedQl
                    /\ sync'[s].state = "wait_to_restore" => sync'[s].esmcQl < FailedQl
  BY DEF TimedStateMatchesQl
<1>1. sync[s] \in SyncEntry
  BY DEF TypeOK
<1>2. CASE StateKept(s)
  BY <1>2 DEF StateKept, SameQl, TimedStateMatchesQl
<1>3. CASE StateReceived(s)
  <2>1. PICK ql \in Qls : LET r == ReceiveQl(sync[s], ql) IN
          /\ sync'[s].esmcQl = r.esmcQl
          /\ sync'[s].holdOffQl = r.holdOffQl
          /\ sync'[s].state = r.state
    BY <1>3 DEF StateReceived
  <2> QED
    BY <1>1, <2>1, ReceiveQlState DEF TimedStateMatchesQl
<1> QED
  BY <1>2, <1>3, PortSteps

(* control_rx_event_cb against the expiry in control_update_sync_table and   *)
(* the forced QL: a timed state always agrees with the QL received.          *)
THEOREM TimedStatesMatch == Spec => []TimedStateMatchesQl
<1>1. Init => TimedStateMatchesQl
  BY DEF Init, StartsWith, TimedStateMatchesQl
<1> QED
  BY <1>1, StepTimedStates, TypeCorrect, RxPortsStay, PTL DEF Spec

(* One step of it. *)
RestoreKept ==
    \A s \in Syncs :
        sync[s].state = "wait_to_restore" /\ sync'[s].state # "wait_to_restore" =>
           \/ sync[s].left < 0 \/ sync'[s].esmcQl = FailedQl \/ sync'[s].state = "forced"

LEMMA StepRestoreKept == TypeOK /\ RxPortsReceive /\ [Next]_vars => RestoreKept
<1> SUFFICES ASSUME TypeOK, RxPortsReceive, [Next]_vars, NEW s \in Syncs,
                    sync[s].state = "wait_to_restore", sync'[s].state # "wait_to_restore"
             PROVE  \/ sync[s].left < 0 \/ sync'[s].esmcQl = FailedQl
                    \/ sync'[s].state = "forced"
  BY DEF RestoreKept
<1>1. sync[s] \in SyncEntry
  BY DEF TypeOK
<1>2. CASE StateKept(s)
  BY <1>2 DEF StateKept
<1>3. CASE StateReceived(s)
  BY <1>1, <1>3, ReceiveQlState DEF StateReceived
<1> QED
  BY <1>2, <1>3, PortSteps

(* control_rx_event_cb: no change of QL takes a port out of wait-to-restore  *)
(* early.                                                                    *)
THEOREM RestoreNeverEarly == Spec => NoEarlyRestore
<1>1. TypeOK /\ RxPortsReceive /\ [Next]_vars => [RestoreKept]_vars
  BY StepRestoreKept
<1>2. [][RestoreKept]_vars <=> NoEarlyRestore
  BY DEF RestoreKept, NoEarlyRestore
<1> QED
  BY <1>1, <1>2, TypeCorrect, RxPortsStay, PTL DEF Spec

-----------------------------------------------------------------------------
(* DeviceInSync.  The device is written for the first time at the end of     *)
(* control_init's pass, and only if some rank differs from the initial 0: a  *)
(* priority other than 0 is enough.  Until then (main.up is FALSE) the pass  *)
(* has left behind it no port with such a priority without setting "change". *)

(* The pass is done with the rank of port s. *)
Ranked(s) == s < main.i \/ (s = main.i /\ main.at \in {"rankNotify", "clkNotify", "push"})

FirstPass ==
    ~main.up =>
        /\ main.at # "idle"
        /\ \A s \in Syncs :
             /\ sync[s].type = InitType[s] /\ sync[s].pri = InitPri[s]
             /\ ~Ranked(s) => sync[s].rank = 0
             /\ Ranked(s) /\ InitType[s] # "tx_only" /\ InitPri[s] # 0 => main.change

PushIsLast == main.at = "push" => main.i + 1 \notin Syncs

DeviceInv == DeviceInSync /\ FirstPass /\ PushIsLast

(* What the selection reads changes only with a type, a clock or a rank. *)
LEMMA SamePushView ==
    ASSUME \A t \in Syncs : SameClock(t) /\ sync'[t].rank = sync[t].rank
    PROVE  SelectionView' = SelectionView
BY DEF SelectionView, SameClock

(* A port with a priority other than 0 never has rank 0. *)
LEMMA PositiveRank ==
    ASSUME NEW e \in SyncEntry, NEW ql \in Qls, e.pri \in 1 .. 255
    PROVE  RankOf(ql, e) # 0
<1>1. e.numHops \in 0 .. 255
  BY DEF SyncEntry, MaxHops
<1>2. (IF NoQlEn /\ ql < DoNotUseQl THEN LoQl ELSE ql) \in Nat
  BY QlAssumption DEF Qls
<1>3. \A q \in Nat, h \in 0 .. 255, p \in 1 .. 255 : CalculateRank(q, p, h) # 0
  BY DEF CalculateRank
<1> QED
  BY <1>1, <1>2, <1>3 DEF RankOf

(* Nothing has been written to the device before the first pass. *)
LEMMA StartDeviceInv == ASSUME NEW m, StartsWith(m) PROVE DeviceInv
<1>1. \A s \in Syncs : ~Ranked(s)
  BY DEF StartsWith, Ranked, Syncs
<1>2. FirstPass
  BY <1>1 DEF StartsWith, FirstPass
<1> QED
  BY <1>2 DEF StartsWith, DeviceInv, DeviceInSync, PushIsLast

(* The steps between two ports. *)
LEMMA PassOn ==
    ASSUME NEW m \in MainThread
    PROVE  LET n == NextEntry(m) IN
           /\ n.up = m.up /\ n.change = m.change
           /\ \/ n.at = "entry" /\ n.i = m.i + 1
              \/ n.at = "push" /\ n.i = m.i /\ m.i + 1 \notin Syncs
BY DEF NextEntry, MainThread

(* After the rank the pass opens a window, or goes on. *)
LEMMA PassOnAfterRank ==
    ASSUME NEW m \in MainThread
    PROVE  LET n == AfterRank(m) IN
           /\ n.up = m.up /\ n.change = m.change
           /\ \/ n.at = "entry" /\ n.i = m.i + 1
              \/ n.at = "push" /\ n.i = m.i /\ m.i + 1 \notin Syncs
              \/ n.at = "clkNotify" /\ n.i = m.i
BY DEF AfterRank, NextEntry, MainThread

(* The other threads leave the main thread and the device alone. *)
LEMMA OthersFrame ==
    ASSUME Tick \/ \E s \in Syncs : PortStep(s) \/ Management(s)
    PROVE  /\ main' = main /\ device' = device
           /\ updateFlag' = updateFlag \/ updateFlag' = TRUE
<1>1. CASE Tick
  BY <1>1 DEF Tick
<1>2. ASSUME NEW s \in Syncs, PortStep(s)
      PROVE  main' = main /\ device' = device /\ updateFlag' = updateFlag
  BY <1>2 DEF PortStep, ReceivePdu, RxTimeout, RxLinkDown, RxLinkUp, TxLinkChange
<1>3. ASSUME NEW s \in Syncs, Management(s)
      PROVE  /\ main' = main /\ device' = device
             /\ updateFlag' = updateFlag \/ updateFlag' = TRUE
  BY <1>3 DEF Management, SetForcedQl, ClearForcedQl, ClearWtrTimer, AssignClk, SetPri
<1> QED
  BY <1>1, <1>2, <1>3

(* Every step keeps the device in line with the table, or leaves a change pending. *)
LEMMA StepDeviceInv ==
    ASSUME DeviceResults = {TRUE},
           \E s \in Syncs : InitType[s] # "tx_only" /\ InitPri[s] # 0
    PROVE  TypeOK /\ DeviceInv /\ [Next]_vars => DeviceInv'
<1> SUFFICES ASSUME TypeOK, DeviceInv, [Next]_vars PROVE DeviceInv'
  OBVIOUS
<1>types. /\ main \in MainThread /\ main.i \in Syncs /\ main.i \in Nat
          /\ sync \in [Syncs -> SyncEntry]
          /\ \A s \in Syncs : sync[s] \in SyncEntry /\ s \in Nat
  BY DEF TypeOK, MainThread, Syncs
<1>steady. ASSUME \A t \in Syncs : /\ SameClock(t) /\ sync'[t].pri = sync[t].pri
                                       /\ sync'[t].rank = sync[t].rank
           PROVE  /\ SelectionView' = SelectionView
                  /\ \A t \in Syncs : /\ sync'[t].type = sync[t].type
                                      /\ sync'[t].pri = sync[t].pri
                                      /\ sync'[t].rank = sync[t].rank
  BY <1>steady, SamePushView DEF SameClock
<1>localRank. LocalRank' = LocalRank
  BY DEF LocalRank
<1>1. CASE Tick \/ \E s \in Syncs : PortStep(s) \/ Management(s)
  <2>1. /\ main' = main /\ device' = device
        /\ updateFlag' = updateFlag \/ updateFlag' = TRUE
    BY <1>1, OthersFrame
  <2>2. CASE \A t \in Syncs : SameClock(t) /\ SameRank(t)
    BY <2>1, <2>2, <1>steady DEF DeviceInv, DeviceInSync, FirstPass, PushIsLast, Ranked, SameRank
  <2>3. ASSUME NEW s \in Syncs, NEW clk \in ClkIdx, AssignClk(s, clk) PROVE DeviceInv'
    BY <2>1, <2>3 DEF AssignClk, MutexFree, DeviceInv, DeviceInSync, FirstPass, PushIsLast
  <2>4. ASSUME NEW s \in Syncs, NEW pri \in NewPris, SetPri(s, pri),
               \A t \in Syncs : SameClock(t) /\ sync'[t].rank = sync[t].rank
        PROVE  DeviceInv'
    <3>1. SelectionView' = SelectionView
      BY <2>4, SamePushView
    <3> QED
      BY <2>1, <2>4, <3>1 DEF SetPri, MutexFree, DeviceInv, DeviceInSync, FirstPass, PushIsLast
  <2>5. CASE UpdateRank
    <3>1. \/ main.at \in {"rank", "stateNotify"} /\ main'.at # main.at
          \/ main'.i # main.i
      BY <2>5, <1>types, PassOnAfterRank DEF UpdateRank, MainThread
    <3> QED
      BY <2>1, <2>5, <3>1, <1>types, PassOnAfterRank DEF UpdateRank, MainThread
  <2> QED
    BY <2>2, <2>3, <2>4, <2>5, SelectionFrame
<1>2. CASE BeginPass
  BY <1>2, <1>types DEF BeginPass, DeviceInv, DeviceInSync, FirstPass, PushIsLast, MainThread,
                        SelectionView, LocalRank
<1>3. CASE SkipTxOnly
  <2>1. main' = NextEntry(main) /\ UNCHANGED <<sync, updateFlag, device>> /\ main.at = "entry"
    BY <1>3 DEF SkipTxOnly
  <2>2. ~main.up => InitType[main.i] = "tx_only"
    BY <1>3, <1>types DEF SkipTxOnly, DeviceInv, FirstPass
  <2>3. FirstPass'
    BY <2>1, <2>2, <1>types, PassOn DEF DeviceInv, FirstPass, Ranked
  <2>4. DeviceInSync' /\ PushIsLast'
    BY <2>1, <1>types, PassOn DEF DeviceInv, DeviceInSync, PushIsLast, SelectionView, LocalRank
  <2> QED
    BY <2>3, <2>4 DEF DeviceInv
<1>4. CASE CheckEntry
  <2>1. \A t \in Syncs : SameClock(t) /\ SameRank(t)
    BY <1>4, <1>types DEF CheckEntry, SyncEntry, SameClock, SameRank
  <2>2. /\ main'.up = main.up /\ main'.i = main.i /\ main'.change = main.change
        /\ main.at = "entry" /\ main'.at \in {"stateNotify", "rank"}
        /\ device' = device /\ updateFlag' = updateFlag
    BY <1>4, <1>types DEF CheckEntry, MainThread
  <2> QED
    BY <2>1, <2>2, <1>steady DEF DeviceInv, DeviceInSync, FirstPass, PushIsLast, Ranked, SameRank
<1>5. CASE UpdateRank
  <2> DEFINE i == main.i  e == sync[i]  ql == CurrentQl(i, e)  rank == RankOf(ql, e)
  <2>1. ql \in Qls
    BY <1>types, CurrentQlType
  <2>2. e.pri \in 1 .. 255 => rank # 0
    BY <1>types, <2>1, PositiveRank
  <2> HIDE DEF ql, rank
  <2>3. /\ main.at \in {"rank", "stateNotify"}
        /\ sync' = [sync EXCEPT ![i].currentQl = ql, ![i].rank = rank]
        /\ main' = IF rank # e.rank THEN [main EXCEPT !.at = "rankNotify", !.change = TRUE]
                                    ELSE AfterRank(main)
        /\ device' = device /\ updateFlag' = updateFlag
    BY <1>5 DEF UpdateRank, ql, rank
  <2> DEFINE f == [e EXCEPT !.currentQl = ql, !.rank = rank]
  <2>4. /\ f.rank = rank /\ f.type = e.type /\ f.clkIdx = e.clkIdx /\ f.pri = e.pri
    BY <1>types DEF SyncEntry
  <2>5. sync' = [sync EXCEPT ![i] = f]
    BY <2>3, <1>types
  <2> HIDE DEF f
  <2>6. \A t \in Syncs : /\ sync'[t].rank = IF t = i THEN rank ELSE sync[t].rank
                         /\ SameClock(t) /\ sync'[t].pri = sync[t].pri
    BY <2>4, <2>5, <1>types DEF SameClock
  <2>7. CASE rank # e.rank
    <3>1. /\ main'.at = "rankNotify" /\ main'.change /\ main'.i = i /\ main'.up = main.up
      BY <2>3, <2>7, <1>types DEF MainThread
    <3>2. FirstPass'
      BY <2>3, <2>6, <3>1, <1>types DEF DeviceInv, FirstPass, Ranked, SameClock
    <3> QED
      BY <3>1, <3>2 DEF DeviceInv, DeviceInSync, PushIsLast
  <2>8. CASE rank = e.rank
    <3>1. main' = AfterRank(main)
      BY <2>3, <2>8
    <3>2. \A t \in Syncs : /\ SameClock(t) /\ sync'[t].pri = sync[t].pri
                            /\ sync'[t].rank = sync[t].rank
      BY <2>6, <2>8
    <3>3. ~main.up => InitType[i] = "tx_only" \/ InitPri[i] = 0
      <4>1. ~main.up => e.rank = 0 /\ e.type = InitType[i] /\ e.pri = InitPri[i]
        BY <2>3, <1>types DEF DeviceInv, FirstPass, Ranked
      <4>2. InitPri[i] = NoPri => InitType[i] = "tx_only"
        BY ConfigAssumption, <1>types
      <4>3. e.pri \in 0 .. 255 \/ e.pri = NoPri
        BY <1>types DEF SyncEntry
      <4> QED
        BY <2>2, <2>8, <4>1, <4>2, <4>3
    <3>4. FirstPass'
      BY <2>3, <3>1, <3>2, <3>3, <1>steady, <1>types, PassOnAfterRank DEF DeviceInv, FirstPass, Ranked
    <3>5. DeviceInSync'
      BY <2>3, <3>1, <3>2, <1>steady, <1>types, <1>localRank, PassOnAfterRank DEF DeviceInv, DeviceInSync
    <3>6. PushIsLast'
      BY <3>1, <1>types, PassOnAfterRank DEF PushIsLast
    <3> QED
      BY <3>4, <3>5, <3>6 DEF DeviceInv
  <2> QED
    BY <2>7, <2>8
<1>6. CASE Relock
  <2>1. /\ UNCHANGED <<sync, updateFlag, device>>
        /\ \/ main.at = "rankNotify" /\ main' = AfterRank(main)
           \/ main.at = "clkNotify"  /\ main' = NextEntry(main)
    BY <1>6 DEF Relock
  <2>2. FirstPass'
    BY <2>1, <1>types, PassOn, PassOnAfterRank DEF DeviceInv, FirstPass, Ranked
  <2>3. DeviceInSync' /\ PushIsLast'
    BY <2>1, <1>types, PassOn, PassOnAfterRank
       DEF DeviceInv, DeviceInSync, PushIsLast, SelectionView, LocalRank
  <2> QED
    BY <2>2, <2>3 DEF DeviceInv
<1>7. CASE EndPass
  <2>1. /\ main.at = "push" /\ main'.at = "idle" /\ main'.up /\ ~main'.change /\ sync' = sync
    BY <1>7, <1>types DEF EndPass, MainThread
  <2>2. CASE main.change \/ updateFlag
    <3>1. device' = PriorityTable(SelectionView, LocalRank)
      BY <1>7, <2>2 DEF EndPass
    <3>2. SelectionView' = SelectionView
      BY <2>1 DEF SelectionView
    <3> QED
      BY <2>1, <3>1, <3>2, <1>localRank DEF DeviceInv, DeviceInSync, FirstPass, PushIsLast
  <2>3. CASE ~main.change /\ ~updateFlag
    <3>1. device' = device
      BY <1>7, <2>3 DEF EndPass
    <3>2. main.up
      <4>1. PICK s \in Syncs : InitType[s] # "tx_only" /\ InitPri[s] # 0
        OBVIOUS
      <4>2. s <= main.i
        BY <2>1, <1>types, ConfigAssumption DEF DeviceInv, PushIsLast, Syncs
      <4>3. Ranked(s)
        BY <2>1, <4>2, <1>types DEF Ranked
      <4> QED
        BY <2>3, <4>1, <4>3 DEF DeviceInv, FirstPass
    <3>3. device = PriorityTable(SelectionView, LocalRank)
      BY <2>3, <3>2 DEF DeviceInv, DeviceInSync
    <3>4. SelectionView' = SelectionView
      BY <2>1 DEF SelectionView
    <3> QED
      BY <2>1, <3>1, <3>3, <3>4, <1>localRank DEF DeviceInv, DeviceInSync, FirstPass, PushIsLast
  <2> QED
    BY <2>2, <2>3
<1>8. CASE UNCHANGED vars
  BY <1>8 DEF vars, DeviceInv, DeviceInSync, FirstPass, PushIsLast, Ranked, SelectionView, LocalRank
<1> QED
  BY <1>1, <1>2, <1>3, <1>4, <1>5, <1>6, <1>7, <1>8 DEF Next, MainStep

(* With a device that accepts every write, and a port whose priority is not  *)
(* the best possible one, 0: whenever nothing is pending the device works    *)
(* from the sync table as it is, whatever ran in the windows of the passes.  *)
THEOREM DeviceStaysInSync ==
    ASSUME DeviceResults = {TRUE},
           \E s \in Syncs : InitType[s] # "tx_only" /\ InitPri[s] # 0
    PROVE  Spec => []DeviceInSync
<1>1. Init => DeviceInv
  BY StartDeviceInv DEF Init
<1>2. TypeOK /\ DeviceInv /\ [Next]_vars => DeviceInv'
  BY StepDeviceInv
<1>3. DeviceInv => DeviceInSync
  BY DEF DeviceInv
<1> QED
  BY <1>1, <1>2, <1>3, TypeCorrect, PTL DEF Spec
-----------------------------------------------------------------------------
(* What the device is given.  ClockSelectionProofs tells what the selection  *)
(* makes of a table; here the table is g_control_data's.                     *)

(* The table is one the selection is specified for: every clock it may pick  *)
(* has an index, because exactly the selectable ports have one.              *)
LEMMA TableIsSelectionTable ==
  ASSUME TypeOK, OneSyncPerClock
  PROVE  /\ SelectionTable(SelectionView, LocalRank)
         /\ \A s \in Candidates(SelectionView, LocalRank) :
              /\ s \in Syncs /\ sync[s].type \in SelectableTypes /\ sync[s].clkIdx \in ClkIdx
              /\ SelectionView[s].clkIdx = sync[s].clkIdx /\ sync[s].rank < LocalRank
<1>1. /\ DOMAIN SelectionView = Syncs
      /\ \A s \in Syncs : /\ SelectionView[s].type = sync[s].type
                          /\ SelectionView[s].clkIdx = sync[s].clkIdx
                          /\ SelectionView[s].rank = sync[s].rank
  BY DEF SelectionView
<1>2. IsFiniteSet(Syncs) /\ Syncs \subseteq Nat
  BY ConfigAssumption, FS_Interval DEF Syncs
<1>3. \A s \in Syncs : sync[s].rank \in Nat /\ sync[s].clkIdx \in ClkIdx \cup {MissingClkIdx}
  BY DEF TypeOK, SyncEntry
<1>4. \A s \in Syncs : sync[s].type \in SelectableTypes => sync[s].clkIdx \in ClkIdx
  BY <1>3 DEF OneSyncPerClock
<1>5. ClkIdx \subseteq Nat
  BY DEF ClkIdx
<1> QED
  BY <1>1, <1>2, <1>3, <1>4, <1>5 DEF SelectionTable, Candidates

Fits(table) ==
    /\ Len(table) <= NumClks
    /\ \A k \in DOMAIN table : table[k].clkIdx \in ClkIdx
    /\ \A j, k \in DOMAIN table : table[j].clkIdx = table[k].clkIdx => j = k

(* As many entries as candidates, and as many candidates as clocks at most,  *)
(* since no two of them share one.                                           *)
LEMMA SelectedTableFits ==
  ASSUME TypeOK, OneSyncPerClock
  PROVE  Fits(PriorityTable(SelectionView, LocalRank))
<1> DEFINE cands == Candidates(SelectionView, LocalRank)
           given == PriorityTable(SelectionView, LocalRank)
           clk   == [s \in cands |-> sync[s].clkIdx]
<1>1. /\ SelectionTable(SelectionView, LocalRank)
      /\ \A s \in cands :
           /\ s \in Syncs /\ sync[s].type \in SelectableTypes /\ sync[s].clkIdx \in ClkIdx
           /\ SelectionView[s].clkIdx = sync[s].clkIdx
  BY TableIsSelectionTable
<1>2. /\ given \in Seq(DeviceEntry)
      /\ IsFiniteSet(cands) /\ Len(given) = Cardinality(cands)
      /\ \A s \in cands : given[Place(SelectionView, cands, s)] = Entry(SelectionView, s)
      /\ \A k \in 1 .. Len(given) : \E s \in cands : Place(SelectionView, cands, s) = k
  BY <1>1, PriorityTableIsSorted
<1> HIDE DEF cands, given
<1>3. \A s, t \in cands : sync[s].clkIdx = sync[t].clkIdx => s = t
  BY <1>1 DEF OneSyncPerClock, ClkIdx, MissingClkIdx
<1>4. Len(given) <= NumClks
  <2>1. clk \in Injection(cands, ClkIdx)
    BY <1>1, <1>3 DEF Injection, IsInjective
  <2>2. IsFiniteSet(ClkIdx) /\ Cardinality(ClkIdx) = NumClks
    BY ConfigAssumption, FS_Interval DEF ClkIdx
  <2> HIDE DEF clk
  <2> QED
    BY <1>2, <2>1, <2>2, FS_Injection
<1>5. \A s \in cands : Entry(SelectionView, s).clkIdx = sync[s].clkIdx
  BY <1>1 DEF Entry
<1>6. \A k \in DOMAIN given : \E s \in cands : /\ Place(SelectionView, cands, s) = k
                                               /\ given[k].clkIdx = sync[s].clkIdx
  BY <1>2, <1>5
<1>7. \A k \in DOMAIN given : given[k].clkIdx \in ClkIdx
  BY <1>1, <1>6
<1>8. \A j, k \in DOMAIN given : given[j].clkIdx = given[k].clkIdx => j = k
  BY <1>3, <1>6
<1> QED
  BY <1>4, <1>7, <1>8 DEF Fits, given

(* The device is written at the end of a pass only. *)
LEMMA DeviceWrites ==
  ASSUME [Next]_vars
  PROVE  device' = device \/ device' = PriorityTable(SelectionView, LocalRank)
<1>1. CASE MainStep
  BY <1>1 DEF MainStep, BeginPass, SkipTxOnly, CheckEntry, UpdateRank, Relock, EndPass
<1> QED
  BY <1>1, OthersFrame DEF Next, vars

(* control.c:86-119: for any number of ports and clocks, the table handed to *)
(* the device, however often writing it fails, never overruns the array and  *)
(* names each clock once.                                                    *)
THEOREM DeviceTableAlwaysFits == Spec => []DeviceTableFits
<1>1. Init => DeviceTableFits
  BY ConfigAssumption DEF Init, StartsWith, DeviceTableFits
<1>2. TypeOK /\ OneSyncPerClock /\ DeviceTableFits /\ [Next]_vars => DeviceTableFits'
  BY SelectedTableFits, DeviceWrites DEF DeviceTableFits, Fits
<1> QED
  BY <1>1, <1>2, TypeCorrect, ClocksStayUnique, PTL DEF Spec
-----------------------------------------------------------------------------
(* When nothing is pending a clock is in the device's table if and only if   *)
(* its port beats the oscillator.                                            *)
LEMMA OfferedClocks ==
  ASSUME TypeOK, OneSyncPerClock, DeviceInSync, main.up, ~main.change, ~updateFlag,
         NEW s \in Syncs
  PROVE  sync[s].clkIdx \in ClocksOf(device)
           <=> sync[s].type \in SelectableTypes /\ sync[s].rank < LocalRank
<1> DEFINE cands == Candidates(SelectionView, LocalRank)
<1>1. SelectionTable(SelectionView, LocalRank) /\ device = PriorityTable(SelectionView, LocalRank)
  BY TableIsSelectionTable DEF DeviceInSync
<1>2. ClocksOf(device) = {SelectionView[t].clkIdx : t \in cands}
  BY <1>1, ClocksOfPriorityTable
<1>3. \A t \in cands :
        /\ t \in Syncs /\ sync[t].type \in SelectableTypes /\ sync[t].clkIdx \in ClkIdx
        /\ SelectionView[t].clkIdx = sync[t].clkIdx /\ sync[t].rank < LocalRank
  BY TableIsSelectionTable
<1>4. sync[s].type \in SelectableTypes /\ sync[s].rank < LocalRank => s \in cands
  BY DEF Candidates, SelectionView
<1> HIDE DEF cands
<1>5. ASSUME sync[s].clkIdx \in ClocksOf(device)
      PROVE  s \in cands
  <2>1. PICK t \in cands : sync[t].clkIdx = sync[s].clkIdx
    BY <1>2, <1>3, <1>5
  <2>2. sync[t].clkIdx # MissingClkIdx
    BY <1>3 DEF ClkIdx, MissingClkIdx
  <2> QED
    BY <1>3, <2>1, <2>2 DEF OneSyncPerClock
<1> QED
  BY <1>2, <1>3, <1>4, <1>5

(* README 1 "No QL Mode", for any number of ports, with a device that        *)
(* accepts every write and an oscillator better than "do not use": without   *)
(* that nothing is ever offered.                                             *)
THEOREM ValidClocksAreOffered ==
    ASSUME DeviceResults = {TRUE}, LoQl < DoNotUseQl,
           \E s \in Syncs : InitType[s] # "tx_only" /\ InitPri[s] # 0
    PROVE  Spec => []ValidClockOffered
<1>1. TypeOK /\ OneSyncPerClock /\ DeviceInSync => ValidClockOffered
  <2> SUFFICES ASSUME TypeOK, OneSyncPerClock, DeviceInSync,
                      NoQlEn, main.up, ~main.change, ~updateFlag,
                      NEW s \in Syncs,
                      sync[s].type \in SelectableTypes, sync[s].currentQl < DoNotUseQl,
                      sync[s].pri \in 0 .. LoPri - 1,
                      sync[s].rank = RankOf(sync[s].currentQl, sync[s])
               PROVE  sync[s].clkIdx \in ClocksOf(device)
    BY DEF ValidClockOffered
  <2> DEFINE pri == sync[s].pri  hops == sync[s].numHops
  <2>1. /\ LoQl \in Nat /\ LoPri \in 0 .. 255 /\ MaxHops \in 0 .. 255
        /\ pri \in 0 .. 255 /\ hops \in 0 .. 255 /\ pri < LoPri
    <3>1. sync[s] \in SyncEntry
      BY DEF TypeOK
    <3>2. hops \in 0 .. 255
      BY <3>1 DEF SyncEntry, MaxHops
    <3>3. LoQl \in Nat /\ LoPri \in 0 .. 255
      BY QlAssumption, ConfigAssumption
    <3> QED
      BY <3>2, <3>3 DEF MaxHops
  <2>2. sync[s].rank = CalculateRank(LoQl, pri, hops)
    BY DEF RankOf
  <2>3. LocalRank = CalculateRank(LoQl, LoPri, MaxHops)
    BY DEF LocalRank, LoRank
  <2>4. CalculateRank(LoQl, pri, hops) < CalculateRank(LoQl, LoPri, MaxHops)
    <3>1. Precede(LoQl, pri, hops, LoQl, LoPri, MaxHops)
      BY <2>1 DEF Precede
    <3> HIDE DEF pri, hops
    <3> QED
      BY <2>1, <3>1, RankOrder
  <2> QED
    BY <2>2, <2>3, <2>4, OfferedClocks
<1> QED
  BY <1>1, TypeCorrect, ClocksStayUnique, DeviceStaysInSync, PTL
-----------------------------------------------------------------------------
(* OfferedClockUsable.  The device sees of a QL only the rank, so the rank   *)
(* has to be that of the QL the port ends up with.  The one port that has no *)
(* rank is one configured TX only that the operator gave a clock.            *)

(* The QL that the rank is made of. *)
QlOfRank(ql) == IF NoQlEn /\ ql < DoNotUseQl THEN LoQl ELSE ql

RankReflectsQl(s) ==
    \E p \in 0 .. 255, h \in 0 .. 255 :
        sync[s].rank = CalculateRank(QlOfRank(sync[s].currentQl), p, h)

RankInv ==
    \A s \in Syncs :
        /\ sync[s].type = "tx_only" <=> InitType[s] = "tx_only"
        /\ InitType[s] # "tx_only" /\ (main.up \/ Ranked(s)) => RankReflectsQl(s)

(* Priority and hops enter the rank as one byte each, whatever they are. *)
LEMMA RankIsMadeOfBytes ==
  ASSUME NEW e \in SyncEntry, NEW ql \in Qls
  PROVE  \E p \in 0 .. 255, h \in 0 .. 255 : RankOf(ql, e) = CalculateRank(QlOfRank(ql), p, h)
<1> DEFINE p == e.pri % 256  h == e.numHops % 256
<1>1. e.pri \in Int /\ e.numHops \in Int
  BY DEF SyncEntry, NoPri, MaxHops
<1>2. \A x \in Int : x % 256 \in 0 .. 255 /\ (x % 256) % 256 = x % 256
  OBVIOUS
<1>3. p \in 0 .. 255 /\ h \in 0 .. 255 /\ p % 256 = p /\ h % 256 = h
  BY <1>1, <1>2
<1>4. RankOf(ql, e) = QlOfRank(ql) * 65536 + p * 256 + h
  BY DEF RankOf, QlOfRank, CalculateRank
<1> HIDE DEF p, h
<1>5. CalculateRank(QlOfRank(ql), p, h) = QlOfRank(ql) * 65536 + p * 256 + h
  BY <1>3 DEF CalculateRank
<1>6. RankOf(ql, e) = CalculateRank(QlOfRank(ql), p, h)
  BY <1>4, <1>5
<1> QED
  BY <1>3, <1>6

(* A clock with a rank below the oscillator's has a usable QL. *)
LEMMA BetterRankIsUsable ==
  ASSUME NEW ql \in Qls, NEW p \in 0 .. 255, NEW h \in 0 .. 255,
         CalculateRank(QlOfRank(ql), p, h) < LocalRank
  PROVE  ql < DoNotUseQl /\ (NoQlEn \/ ql <= LoQl)
<1> DEFINE q == QlOfRank(ql)
<1>1. /\ q \in Nat /\ ql \in Nat /\ LoQl \in Nat /\ DoNotUseQl \in Nat /\ LoQl <= DoNotUseQl
      /\ LoPri \in 0 .. 255 /\ MaxHops \in 0 .. 255 /\ 0 \in 0 .. 255 /\ NoQlEn \in BOOLEAN
  BY ConfigAssumption, QlAssumption DEF QlOfRank, Qls, MaxHops
<1>2. ~(NoQlEn /\ ql < DoNotUseQl) => q = ql
  BY DEF QlOfRank
<1> HIDE DEF q
<1>3. CalculateRank(q, p, h) < LocalRank
  BY DEF q
<1>4. CASE LoQl < DoNotUseQl
  <2>1. LocalRank = CalculateRank(LoQl, LoPri, MaxHops)
    BY <1>4 DEF LocalRank, LoRank
  <2>2. Precede(q, p, h, LoQl, LoPri, MaxHops)
    BY <1>1, <1>3, <2>1, RankOrder
  <2>3. q <= LoQl
    BY <1>1, <2>2 DEF Precede
  <2> QED
    BY <1>1, <1>2, <1>4, <2>3
<1>5. CASE ~(LoQl < DoNotUseQl)
  <2>1. LocalRank = CalculateRank(DoNotUseQl, 0, 0)
    BY <1>5 DEF LocalRank, LoRank
  <2>2. Precede(q, p, h, DoNotUseQl, 0, 0)
    BY <1>1, <1>3, <2>1, RankOrder
  <2>3. q < DoNotUseQl
    BY <1>1, <2>2 DEF Precede
  <2> QED
    BY <1>1, <1>2, <1>5, <2>3
<1> QED
  BY <1>4, <1>5

(* No port is TX only but those configured so, while none of them is given a *)
(* clock: only ports that have one lose it.                                  *)
TxOnlyKept == \A a \in AssignTargets : InitType[a[1]] # "tx_only"

LEMMA StartRankInv == ASSUME NEW m, StartsWith(m) PROVE RankInv
<1>1. \A s \in Syncs : ~Ranked(s)
  BY DEF StartsWith, Ranked, Syncs
<1> QED
  BY <1>1 DEF StartsWith, RankInv

(* The steps that leave every type, rank and QL alone. *)
LEMMA SteadyRanks ==
  ASSUME RankInv,
         \A t \in Syncs : /\ sync'[t].type = sync[t].type /\ sync'[t].rank = sync[t].rank
                          /\ sync'[t].currentQl = sync[t].currentQl,
         \A t \in Syncs : InitType[t] # "tx_only" /\ (main'.up \/ Ranked(t)') => main.up \/ Ranked(t)
  PROVE  RankInv'
BY DEF RankInv, RankReflectsQl

LEMMA StepRankInv ==
  ASSUME TxOnlyKept
  PROVE  TypeOK /\ OneSyncPerClock /\ DeviceInv /\ RankInv /\ [Next]_vars => RankInv'
<1> SUFFICES ASSUME TypeOK, OneSyncPerClock, DeviceInv, RankInv, [Next]_vars PROVE RankInv'
  OBVIOUS
<1>types. /\ main \in MainThread /\ main.i \in Syncs /\ main.i \in Nat
          /\ sync \in [Syncs -> SyncEntry]
          /\ \A s \in Syncs : sync[s] \in SyncEntry /\ s \in Nat
  BY DEF TypeOK, MainThread, Syncs
<1>1. CASE Tick \/ \E s \in Syncs : PortStep(s) \/ Management(s)
  <2>1. main' = main /\ \A t \in Syncs : Ranked(t)' = Ranked(t)
    BY <1>1, OthersFrame DEF Ranked
  <2>2. CASE \A t \in Syncs : SameClock(t) /\ SameRank(t)
    BY <2>1, <2>2, SteadyRanks DEF SameClock, SameRank
  <2>3. ASSUME NEW s \in Syncs, NEW pri \in NewPris, SetPri(s, pri),
               \A t \in Syncs : /\ SameClock(t) /\ sync'[t].rank = sync[t].rank
                                /\ sync'[t].currentQl = sync[t].currentQl
        PROVE  RankInv'
    BY <2>1, <2>3, SteadyRanks DEF SameClock
  <2>4. ASSUME NEW s \in Syncs, NEW clk \in ClkIdx,
               <<s, clk>> \in AssignTargets, AssignClk(s, clk), \A t \in Syncs : SameRank(t)
        PROVE  RankInv'
    <3>1. InitType[s] # "tx_only"
      BY <2>4 DEF TxOnlyKept
    <3>2. ASSUME NEW t \in Syncs
          PROVE  sync'[t].type = "tx_only" <=> sync[t].type = "tx_only"
      <4>1. clk # MissingClkIdx
        BY DEF ClkIdx, MissingClkIdx
      <4>2. sync[s].type # "tx_only" /\ sync[s].type \in SyncTypes
        BY <3>1, <1>types DEF RankInv, SyncEntry
      <4>3. sync[t].clkIdx = clk => sync[t].type \in SelectableTypes
        BY <4>1 DEF OneSyncPerClock
      <4>4. /\ t = s => sync'[t].type = "synce"
            /\ t # s /\ sync[t].clkIdx = clk => sync'[t].type = "monitoring"
            /\ t # s /\ sync[t].clkIdx # clk => sync'[t] = sync[t]
        BY <2>4, AssignClkEffect
      <4> QED
        BY <4>2, <4>3, <4>4 DEF SelectableTypes
    <3> QED
      BY <2>1, <2>4, <3>2 DEF RankInv, RankReflectsQl, SameRank
  <2>5. CASE UpdateRank
    <3>1. main' # main
      BY <2>5, <1>types, PassOnAfterRank DEF UpdateRank, MainThread
    <3> QED
      BY <2>1, <3>1
  <2> QED
    BY <2>2, <2>3, <2>4, <2>5, SelectionFrame
<1>2. CASE BeginPass
  <2>1. main.up /\ sync' = sync
    BY <1>2 DEF BeginPass, DeviceInv, FirstPass
  <2> QED
    BY <2>1, SteadyRanks
<1>3. CASE SkipTxOnly
  <2>1. main' = NextEntry(main) /\ sync' = sync /\ InitType[main.i] = "tx_only"
    BY <1>3, <1>types DEF SkipTxOnly, RankInv
  <2>2. \A t \in Syncs : t # main.i /\ (main'.up \/ Ranked(t)') => main.up \/ Ranked(t)
    BY <1>types, <2>1, PassOn DEF Ranked
  <2> QED
    BY <2>1, <2>2, SteadyRanks
<1>4. CASE CheckEntry
  <2>1. \A t \in Syncs : SameClock(t) /\ SameRank(t)
    BY <1>4, <1>types DEF CheckEntry, SyncEntry, SameClock, SameRank
  <2>2. /\ main'.up = main.up /\ main'.i = main.i
        /\ main'.at \in {"stateNotify", "rank"}
    BY <1>4, <1>types DEF CheckEntry, MainThread
  <2>3. \A t \in Syncs : main'.up \/ Ranked(t)' => main.up \/ Ranked(t)
    BY <2>2 DEF Ranked
  <2> QED
    BY <2>1, <2>3, SteadyRanks DEF SameClock, SameRank
<1>5. CASE UpdateRank
  <2> DEFINE i == main.i  e == sync[i]  ql == CurrentQl(i, e)  rank == RankOf(ql, e)
             f == [e EXCEPT !.currentQl = ql, !.rank = rank]
  <2>1. ql \in Qls
    BY <1>types, CurrentQlType
  <2>2. PICK p \in 0 .. 255, h \in 0 .. 255 : rank = CalculateRank(QlOfRank(ql), p, h)
    BY <1>types, <2>1, RankIsMadeOfBytes
  <2>3. sync' = [sync EXCEPT ![i].currentQl = ql, ![i].rank = rank]
    BY <1>5 DEF UpdateRank
  <2> HIDE DEF ql, rank
  <2>4. f.rank = rank /\ f.currentQl = ql /\ f.type = e.type
    BY <1>types DEF SyncEntry
  <2>5. sync' = [sync EXCEPT ![i] = f]
    BY <2>3, <1>types
  <2>6. sync'[i] = f /\ \A t \in Syncs : t # i => sync'[t] = sync[t]
    BY <2>5, <1>types
  <2> HIDE DEF f
  <2>7. /\ main'.up = main.up
        /\ \/ main'.i = i /\ main'.at \in {"rankNotify", "clkNotify", "push"}
           \/ main'.i = i + 1 /\ main'.at = "entry"
    <3>1. \/ main' = [main EXCEPT !.at = "rankNotify", !.change = TRUE]
          \/ main' = AfterRank(main)
      BY <1>5 DEF UpdateRank
    <3> QED
      BY <1>types, <3>1, PassOnAfterRank DEF MainThread
  <2>8. \A t \in Syncs : t # i /\ (main'.up \/ Ranked(t)') => main.up \/ Ranked(t)
    BY <2>7, <1>types DEF Ranked
  <2>9. sync'[i].rank = CalculateRank(QlOfRank(sync'[i].currentQl), p, h)
    BY <2>2, <2>4, <2>6
  <2>10. \A t \in Syncs : t = i => RankReflectsQl(t)'
    BY <2>9 DEF RankReflectsQl
  <2>11. \A t \in Syncs : t # i /\ RankReflectsQl(t) => RankReflectsQl(t)'
    BY <2>6 DEF RankReflectsQl
  <2>12. \A t \in Syncs : sync'[t].type = sync[t].type
    BY <2>4, <2>6
  <2> QED
    BY <2>8, <2>10, <2>11, <2>12 DEF RankInv
<1>6. CASE Relock
  <2>1. /\ sync' = sync
        /\ \/ main.at = "rankNotify" /\ main' = AfterRank(main)
           \/ main.at = "clkNotify"  /\ main' = NextEntry(main)
    BY <1>6 DEF Relock
  <2>2. \A t \in Syncs : main'.up \/ Ranked(t)' => main.up \/ Ranked(t)
    BY <2>1, <1>types, PassOn, PassOnAfterRank DEF Ranked
  <2> QED
    BY <2>1, <2>2, SteadyRanks
<1>7. CASE EndPass
  <2>1. main.at = "push" /\ sync' = sync
    BY <1>7 DEF EndPass
  <2>2. \A t \in Syncs : t <= main.i
    BY <2>1, <1>types, ConfigAssumption DEF DeviceInv, PushIsLast, Syncs
  <2>3. \A t \in Syncs : Ranked(t)
    BY <2>1, <2>2, <1>types DEF Ranked
  <2> QED
    BY <2>1, <2>3, SteadyRanks
<1>8. CASE UNCHANGED vars
  <2>1. \A t \in Syncs : Ranked(t)' = Ranked(t)
    BY <1>8 DEF vars, Ranked
  <2> QED
    BY <1>8, <2>1, SteadyRanks DEF vars
<1> QED
  BY <1>1, <1>2, <1>3, <1>4, <1>5, <1>6, <1>7, <1>8 DEF Next, MainStep

(* A clock the device was given is below the oscillator in rank, so its QL   *)
(* is usable.                                                                *)
LEMMA OfferedIsUsable ==
    TypeOK /\ OneSyncPerClock /\ DeviceInSync /\ RankInv => OfferedClockUsable
<1> SUFFICES ASSUME TypeOK, OneSyncPerClock, DeviceInSync, RankInv,
                    main.up, ~main.change, ~updateFlag,
                    NEW s \in Syncs, sync[s].clkIdx \in ClocksOf(device)
             PROVE  /\ sync[s].currentQl < DoNotUseQl
                    /\ NoQlEn \/ sync[s].currentQl <= LoQl
  BY DEF OfferedClockUsable
<1>1. sync[s].type \in SelectableTypes /\ sync[s].rank < LocalRank
  BY OfferedClocks
<1>2. RankReflectsQl(s)
  BY <1>1 DEF RankInv, SelectableTypes
<1>3. PICK p \in 0 .. 255, h \in 0 .. 255 :
        sync[s].rank = CalculateRank(QlOfRank(sync[s].currentQl), p, h)
  BY <1>2 DEF RankReflectsQl
<1>4. sync[s].currentQl \in Qls
  BY DEF TypeOK, SyncEntry
<1> QED
  BY <1>1, <1>3, <1>4, BetterRankIsUsable

(* README 1, "only valid clocks participate", for any table, with a device   *)
(* that accepts every write: true as long as the operator gives no clock to  *)
(* a port configured TX only: it has rank 0 until a pass ranks it            *)
(* (control.c:417, 468).                                                     *)
THEOREM OfferedClocksAreUsable ==
    ASSUME DeviceResults = {TRUE}, TxOnlyKept,
           \E s \in Syncs : InitType[s] # "tx_only" /\ InitPri[s] # 0
    PROVE  Spec => []OfferedClockUsable
<1>1. Init => DeviceInv /\ RankInv
  BY StartDeviceInv, StartRankInv DEF Init
<1>2. TypeOK /\ OneSyncPerClock /\ DeviceInv /\ RankInv /\ [Next]_vars => DeviceInv' /\ RankInv'
  BY StepDeviceInv, StepRankInv
<1>3. DeviceInv => DeviceInSync
  BY DEF DeviceInv
<1> QED
  BY <1>1, <1>2, <1>3, OfferedIsUsable, TypeCorrect, ClocksStayUnique, PTL DEF Spec
-----------------------------------------------------------------------------
(* PriorityDecides. *)

(* Of two clocks the device has, the first is the better one. *)
LEMMA DeviceInOrder ==
  ASSUME TypeOK, OneSyncPerClock, DeviceInSync, main.up, ~main.change, ~updateFlag,
         NEW s \in Syncs, NEW t \in Syncs, NEW j \in DOMAIN device, NEW k \in DOMAIN device,
         j < k, device[j].clkIdx = sync[s].clkIdx, device[k].clkIdx = sync[t].clkIdx
  PROVE  s # t /\ sync[s].rank <= sync[t].rank /\ sync[t].rank < LocalRank
<1> DEFINE cands == Candidates(SelectionView, LocalRank)
           better(u) == {v \in cands : Better(SelectionView, v, u)}
<1>1. SelectionTable(SelectionView, LocalRank) /\ device = PriorityTable(SelectionView, LocalRank)
  BY TableIsSelectionTable DEF DeviceInSync
<1>2. /\ device \in Seq(DeviceEntry)
      /\ IsFiniteSet(cands) /\ Len(device) = Cardinality(cands)
      /\ \A u \in cands : device[Place(SelectionView, cands, u)] = Entry(SelectionView, u)
      /\ \A i \in 1 .. Len(device) : \E u \in cands : Place(SelectionView, cands, u) = i
  BY <1>1, PriorityTableIsSorted
<1>3. \A u \in cands :
        /\ u \in Syncs /\ sync[u].type \in SelectableTypes /\ sync[u].clkIdx \in ClkIdx
        /\ SelectionView[u].clkIdx = sync[u].clkIdx /\ sync[u].rank < LocalRank
        /\ SelectionView[u].rank = sync[u].rank /\ sync[u].rank \in Nat /\ u \in Nat
  <2>1. \A u \in Syncs : /\ SelectionView[u].rank = sync[u].rank
                         /\ sync[u].rank \in Nat /\ u \in Nat
    BY DEF SelectionView, TypeOK, SyncEntry, Syncs
  <2> QED
    BY <2>1, TableIsSelectionTable
<1> HIDE DEF cands
<1>4. ASSUME NEW i \in DOMAIN device, NEW u \in Syncs, device[i].clkIdx = sync[u].clkIdx
      PROVE  u \in cands /\ Place(SelectionView, cands, u) = i
  <2>1. PICK v \in cands : Place(SelectionView, cands, v) = i
    BY <1>2, <1>4
  <2>2. device[i].clkIdx = sync[v].clkIdx
    <3>1. device[i] = Entry(SelectionView, v)
      BY <1>2, <2>1
    <3>2. Entry(SelectionView, v).clkIdx = sync[v].clkIdx
      BY <1>3 DEF Entry
    <3> QED
      BY <3>1, <3>2
  <2>3. sync[v].clkIdx # MissingClkIdx
    BY <1>3 DEF ClkIdx, MissingClkIdx
  <2>4. u = v
    BY <1>3, <1>4, <2>2, <2>3 DEF OneSyncPerClock
  <2> QED
    BY <2>1, <2>4
<1>5. /\ s \in cands /\ Place(SelectionView, cands, s) = j
      /\ t \in cands /\ Place(SelectionView, cands, t) = k
  BY <1>4
<1>6. /\ IsFiniteSet(better(s)) /\ IsFiniteSet(better(t))
      /\ better(t) \subseteq better(s) => Cardinality(better(t)) <= Cardinality(better(s))
      /\ Cardinality(better(s)) \in Nat /\ Cardinality(better(t)) \in Nat
  BY <1>2, FS_Subset, FS_CardinalityType
<1>7. Cardinality(better(s)) < Cardinality(better(t))
  <2>1. Place(SelectionView, cands, s) = 1 + Cardinality(better(s))
        /\ Place(SelectionView, cands, t) = 1 + Cardinality(better(t))
    BY DEF Place
  <2> QED
    BY <1>5, <1>6, <2>1
<1>8. PICK v \in cands : Better(SelectionView, v, t) /\ ~Better(SelectionView, v, s)
  BY <1>6, <1>7
<1>9. /\ sync[s].rank \in Nat /\ sync[v].rank \in Nat /\ sync[t].rank \in Nat
      /\ sync[s].rank <= sync[v].rank /\ sync[v].rank <= sync[t].rank
  BY <1>3, <1>5, <1>8 DEF Better
<1>10. s # t /\ sync[t].rank < LocalRank
  <2>1. j # k
    BY <1>2
  <2> QED
    BY <1>3, <1>5, <2>1
<1> QED
  BY <1>9, <1>10

(* README 1 "No QL Mode", for any number of ports, with a device that        *)
(* accepts every write: of the clocks offered the priority decides, because  *)
(* no two ports have the same.                                               *)
THEOREM PriorityAlwaysDecides ==
    ASSUME DeviceResults = {TRUE},
           \E s \in Syncs : InitType[s] # "tx_only" /\ InitPri[s] # 0
    PROVE  Spec => []PriorityDecides
<1>1. TypeOK /\ OneSyncPerClock /\ PrioritiesUnique /\ DeviceInSync => PriorityDecides
  <2> SUFFICES ASSUME TypeOK, OneSyncPerClock, PrioritiesUnique, DeviceInSync,
                      NoQlEn, main.up, ~main.change, ~updateFlag,
                      NEW s \in Syncs, NEW t \in Syncs, RankedAnew(s), RankedAnew(t),
                      NEW j \in DOMAIN device, NEW k \in DOMAIN device, j < k,
                      device[j].clkIdx = sync[s].clkIdx, device[k].clkIdx = sync[t].clkIdx
               PROVE  sync[s].pri < sync[t].pri
    BY DEF PriorityDecides
  <2>1. s # t /\ sync[s].rank <= sync[t].rank /\ sync[t].rank < LocalRank
    BY DeviceInOrder
  <2>2. sync[s].pri # sync[t].pri
    BY <2>1 DEF PrioritiesUnique, RankedAnew
  <2>3. ASSUME NEW u \in {s, t}
        PROVE  /\ sync[u].pri \in 0 .. 255 /\ sync[u].numHops \in 0 .. 255
               /\ sync[u].currentQl \in Qls /\ sync[u].rank \in Nat
               /\ sync[u].rank = CalculateRank(QlOfRank(sync[u].currentQl), sync[u].pri, sync[u].numHops)
    BY DEF TypeOK, SyncEntry, MaxHops, RankedAnew, RankOf, QlOfRank
  <2>4. ASSUME NEW u \in {s, t}
        PROVE  sync[u].rank = CalculateRank(LoQl, sync[u].pri, sync[u].numHops)
    <3> DEFINE q == sync[u].currentQl  p == sync[u].pri  h == sync[u].numHops
    <3>1. CalculateRank(QlOfRank(q), p, h) < LocalRank
      <4>1. LocalRank \in Int
        <5>1. LocalRank \in {CalculateRank(LoQl, LoPri, MaxHops), CalculateRank(DoNotUseQl, 0, 0)}
          BY DEF LocalRank, LoRank
        <5>2. LoQl \in Nat /\ DoNotUseQl \in Nat /\ LoPri \in 0 .. 255
              /\ MaxHops \in 0 .. 255 /\ 0 \in 0 .. 255
          BY ConfigAssumption, QlAssumption DEF MaxHops
        <5>3. CalculateRank(LoQl, LoPri, MaxHops) \in Nat /\ CalculateRank(DoNotUseQl, 0, 0) \in Nat
          BY <5>2, RankIsNat
        <5> QED
          BY <5>1, <5>3
      <4>2. sync[u].rank < LocalRank
        BY <2>1, <2>3, <4>1
      <4> QED
        BY <2>3, <4>2
    <3>2. q \in Qls /\ p \in 0 .. 255 /\ h \in 0 .. 255
      BY <2>3
    <3> HIDE DEF q, p, h
    <3>3. q < DoNotUseQl
      BY <3>1, <3>2, BetterRankIsUsable
    <3>4. QlOfRank(q) = LoQl
      BY <3>3 DEF QlOfRank
    <3> QED
      BY <2>3, <3>4 DEF q, p, h
  <2> DEFINE p == sync[s].pri  h == sync[s].numHops  o == sync[t].pri  i == sync[t].numHops
  <2>5. /\ LoQl \in Nat /\ p \in 0 .. 255 /\ h \in 0 .. 255 /\ o \in 0 .. 255 /\ i \in 0 .. 255
        /\ \/ CalculateRank(LoQl, p, h) < CalculateRank(LoQl, o, i)
           \/ CalculateRank(LoQl, p, h) = CalculateRank(LoQl, o, i)
    BY <2>1, <2>3, <2>4, QlAssumption
  <2>6. p # o
    BY <2>2
  <2> HIDE DEF p, h, o, i
  <2>7. Precede(LoQl, p, h, LoQl, o, i) \/ Agree(LoQl, p, h, LoQl, o, i)
    BY <2>5, RankOrder
  <2>8. p < o
    BY <2>5, <2>6, <2>7 DEF Precede, Agree
  <2> QED
    BY <2>8 DEF p, o
<1> QED
  BY <1>1, TypeCorrect, ClocksStayUnique, PrioritiesStayUnique, DeviceStaysInSync, PTL
=============================================================================
