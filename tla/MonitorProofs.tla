---------------------------- MODULE MonitorProofs ----------------------------
(* Proofs about Monitor.  The inductive invariant QlInv says where each of   *)
(* the QLs of the module (held, just read, advertised) comes from; it needs  *)
(* the types, so the two are proved together.                                *)
EXTENDS Monitor, TLAPS

(* A QL read of a tracked clock is no worse than the oscillator's, and until *)
(* the first decision there is no QL and no holdover time to run.            *)
QlInv ==
    /\ mon.ql = MaxQl => mon.state = "max" /\ mon.left < 0
    /\ mon.state = "max" => mon.left < 0
    /\ mon.ql # MaxQl => mon.ql <= LoQl
    /\ mon.state = "holdover" => mon.ql >= HoldoverQl
    /\ look.at = "update" /\ look.state \in Tracking => look.ql <= LoQl
    /\ look.at = "update" => look.state # "max"
    /\ look.at \in {"clk", "sync", "ql"} => look.state \in Tracking
    /\ look.at = "tx" => mon.ql # MaxQl
    /\ tx.ql <= LoQl

Inv == TypeOK /\ QlInv /\ TxFollowsMonitor

(* monitor_init and esmc_init. *)
LEMMA InitInv == Init => Inv
BY MonitorAssumption
   DEF Init, Inv, TypeOK, QlInv, TxFollowsMonitor, DpllStates, Tracking, NoClk, NoSync

(* Storing new data of the right type, and telling the stack if it differs.  *)
LEMMA UpdateInv ==
  ASSUME Inv, NEW m \in [state: DpllStates \cup {"max"}, clkIdx: ClkIdx \cup {NoClk},
                         ql: 0 .. MaxQl, syncIdx: Syncs \cup {NoSync}, left: Int],
         look.at = "update", Update(m), m.ql <= LoQl, m.state # "max",
         m.state = "holdover" => m.ql >= HoldoverQl
  PROVE  Inv'
<1>1. mon' = m /\ UNCHANGED <<dpll, tx>>
  BY DEF Update
<1>2. m.ql # MaxQl
  BY MonitorAssumption DEF Inv, TypeOK
<1>3. CASE m.ql # mon.ql \/ m.clkIdx # mon.clkIdx \/ m.syncIdx # mon.syncIdx
  <2>1. look' = [look EXCEPT !.at = "tx"]
    BY <1>3 DEF Update
  <2> QED
    BY <1>1, <1>2, <2>1 DEF Inv, TypeOK, QlInv, TxFollowsMonitor
<1>4. CASE ~(m.ql # mon.ql \/ m.clkIdx # mon.clkIdx \/ m.syncIdx # mon.syncIdx)
  <2>1. look' = [look EXCEPT !.at = "idle"]
    BY <1>4 DEF Update
  <2>2. look.at # "tx" => tx = [ql |-> m.ql, syncIdx |-> m.syncIdx]
    BY <1>2, <1>4 DEF Inv, TxFollowsMonitor
  <2> QED
    BY <1>1, <1>2, <2>1, <2>2 DEF Inv, TypeOK, QlInv, TxFollowsMonitor
<1> QED
  BY <1>3, <1>4

(* The data monitor_determine_ql stores when the DPLL tracks no clock: the   *)
(* QL is the oscillator's or in the range of holdover, and not better than   *)
(* the one before.                                                           *)
LEMMA UntrackedData ==
  ASSUME Inv, look.at = "update", look.state \notin Tracking, NEW left \in Int,
         Held(left) => mon.state # "max"
  PROVE  LET ql == IF Held(left) THEN QlOnHoldover ELSE LoQl IN
         /\ ql \in 0 .. MaxQl /\ ql <= LoQl
         /\ Held(left) => ql >= HoldoverQl
         /\ mon.ql # MaxQl => ql >= mon.ql
BY MonitorAssumption DEF Inv, TypeOK, QlInv, QlOnHoldover, DpllStates

(* A timer that runs in holdover was started by an earlier lock. *)
LEMMA HeldTimer ==
  ASSUME Inv
  PROVE  /\ TimerOnHoldover \in Int
         /\ TimerOnHoldover >= 0 => mon.state # "max"
<1>1. HoldoverMs \in Int
  BY MonitorAssumption DEF HoldoverMs
<1>2. mon.left \in Int /\ (mon.state = "max" => mon.left < 0)
  BY DEF Inv, TypeOK, QlInv
<1> QED
  BY <1>1, <1>2 DEF TimerOnHoldover

(* A look-up changes the locals of the run only. *)
LEMMA LookUpKept ==
  ASSUME Inv, UNCHANGED <<dpll, mon, tx>>, look.at \in {"clk", "sync"},
         look'.at \in {"idle", "sync", "ql"},
         \/ \E c \in ClkIdx \cup {NoClk} : look' = [look EXCEPT !.at = look'.at, !.clkIdx = c]
         \/ \E s \in Syncs \cup {NoSync} : look' = [look EXCEPT !.at = look'.at, !.syncIdx = s]
  PROVE  Inv'
<1>1. TypeOK /\ QlInv /\ TxFollowsMonitor
  BY DEF Inv
<1> HIDE DEF Inv
<1>2. /\ look'.state = look.state
      /\ look' \in [at: {"idle", "clk", "sync", "ql", "update", "tx"},
                   state: DpllStates \cup {"max"}, clkIdx: ClkIdx \cup {NoClk},
                   syncIdx: Syncs \cup {NoSync}, ql: 0 .. MaxQl]
  <2>1. look \in [at: {"idle", "clk", "sync", "ql", "update", "tx"},
                   state: DpllStates \cup {"max"}, clkIdx: ClkIdx \cup {NoClk},
                   syncIdx: Syncs \cup {NoSync}, ql: 0 .. MaxQl]
    BY <1>1 DEF TypeOK
  <2>2. QED
    BY <2>1
<1>3. TypeOK'
  BY <1>1, <1>2 DEF TypeOK
<1>4. look.state \in Tracking /\ QlInv'
  BY <1>1, <1>2 DEF QlInv
<1>5. TxFollowsMonitor'
  BY <1>1 DEF TxFollowsMonitor
<1>6. QED
  BY <1>3, <1>4, <1>5 DEF Inv

(* Every step of the main thread, the operator, time and the device. *)
LEMMA StepInv == Inv /\ [Next]_vars => Inv'
<1> SUFFICES ASSUME Inv, [Next]_vars
             PROVE  Inv'
  OBVIOUS
<1> USE DEF NoClk, NoSync
<1>types. TypeOK
  BY DEF Inv
<1>1. CASE UNCHANGED vars
  BY <1>1 DEF Inv, TypeOK, QlInv, TxFollowsMonitor, vars
<1>2. ASSUME NEW st \in StateAnswers, ReadState(st)
      PROVE  Inv'
  <2>1. st \in DpllStates \cup {"max"}
    BY <1>2, <1>types DEF StateAnswers, TypeOK
  <2>2. UNCHANGED <<dpll, mon, tx>> /\ look.at = "idle"
    BY <1>2 DEF ReadState
  <2>3. /\ look' = [at |-> look'.at, state |-> st, clkIdx |-> NoClk, syncIdx |-> NoSync, ql |-> MaxQl]
        /\ \/ look'.at = "clk" /\ st \in Tracking
           \/ look'.at = "idle"
           \/ look'.at = "update" /\ st \notin Tracking /\ st # "max"
    BY <1>2 DEF ReadState
  <2> QED
    BY <2>1, <2>2, <2>3, MonitorAssumption DEF Inv, TypeOK, QlInv, TxFollowsMonitor
<1>3. ASSUME NEW c \in ClkAnswers, ReadClk(c)
      PROVE  Inv'
  <2>1. c \in ClkIdx \cup {NoClk}
    BY MonitorAssumption
  <2>2. UNCHANGED <<dpll, mon, tx>> /\ look.at = "clk"
    BY <1>3 DEF ReadClk
  <2>3. /\ look' = [look EXCEPT !.at = look'.at, !.clkIdx = c]
        /\ look'.at \in {"idle", "sync"}
    BY <1>3, <1>types DEF ReadClk, TypeOK
  <2> QED
    BY <2>1, <2>2, <2>3, LookUpKept
<1>4. ASSUME NEW s \in SyncAnswers, ReadSync(s)
      PROVE  Inv'
  <2>1. s \in Syncs \cup {NoSync}
    BY MonitorAssumption
  <2>2. UNCHANGED <<dpll, mon, tx>> /\ look.at = "sync"
    BY <1>4 DEF ReadSync
  <2>3. /\ look' = [look EXCEPT !.at = look'.at, !.syncIdx = s]
        /\ look'.at \in {"idle", "ql"}
    BY <1>4, <1>types DEF ReadSync, TypeOK
  <2> QED
    BY <2>1, <2>2, <2>3, LookUpKept
<1>5. ASSUME NEW q \in QlAnswers, ReadQl(q)
      PROVE  Inv'
  <2>1. q \in 0 .. MaxQl /\ UNCHANGED <<dpll, mon, tx>> /\ look.at = "ql"
    BY <1>5, MonitorAssumption DEF ReadQl
  <2>2. CASE q >= MaxQl \/ q > LoQl
    <3>1. look' = [look EXCEPT !.at = "idle", !.ql = q]
      BY <1>5, <2>2 DEF ReadQl
    <3> QED
      BY <2>1, <3>1 DEF Inv, TypeOK, QlInv, TxFollowsMonitor
  <2>3. CASE ~(q >= MaxQl \/ q > LoQl)
    <3>1. look' = [look EXCEPT !.at = "update", !.ql = q] /\ q <= LoQl
      BY <1>5, <2>1, <2>3, MonitorAssumption DEF ReadQl
    <3>2. look.state \in Tracking /\ look.state # "max"
      BY <2>1 DEF Inv, QlInv, Tracking
    <3> QED
      BY <2>1, <3>1, <3>2 DEF Inv, TypeOK, QlInv, TxFollowsMonitor
  <2> QED
    BY <2>2, <2>3
<1>6. CASE Track
  <2> DEFINE m == [mon EXCEPT !.state = look.state, !.clkIdx = look.clkIdx,
                              !.ql = look.ql, !.syncIdx = look.syncIdx]
  <2>1. look.at = "update" /\ Update(m) /\ look.state \in Tracking
    BY <1>6 DEF Track
  <2>2. look.ql <= LoQl
    BY <2>1 DEF Inv, QlInv
  <2>3. m \in [state: DpllStates \cup {"max"}, clkIdx: ClkIdx \cup {NoClk}, ql: 0 .. MaxQl,
               syncIdx: Syncs \cup {NoSync}, left: Int]
    BY <1>types DEF TypeOK
  <2>4. m.ql = look.ql /\ m.state = look.state
    BY <1>types DEF TypeOK
  <2>5. m.state # "max" /\ m.state # "holdover"
    BY <2>1, <2>4 DEF Tracking
  <2> HIDE DEF m
  <2> QED
    BY <2>1, <2>2, <2>3, <2>4, <2>5, UpdateInv
<1>7. CASE StopTracking
  <2> DEFINE left == IF look.state = "holdover" THEN TimerOnHoldover ELSE mon.left
             m == [state |-> IF Held(left) THEN "holdover" ELSE "freerun", clkIdx |-> NoClk,
                   ql |-> IF Held(left) THEN QlOnHoldover ELSE LoQl, syncIdx |-> NoSync,
                   left |-> left]
  <2>1. look.at = "update" /\ Update(m) /\ look.state \notin Tracking
    BY <1>7 DEF StopTracking
  <2>2. left \in Int /\ (Held(left) => mon.state # "max")
    BY HeldTimer, <1>types DEF TypeOK, Held
  <2>3. /\ m.ql \in 0 .. MaxQl /\ m.ql <= LoQl
        /\ m.state = "holdover" => m.ql >= HoldoverQl
    <3> HIDE DEF left
    <3> QED
      BY <2>1, <2>2, UntrackedData
  <2>4. m \in [state: DpllStates \cup {"max"}, clkIdx: ClkIdx \cup {NoClk}, ql: 0 .. MaxQl,
               syncIdx: Syncs \cup {NoSync}, left: Int]
    BY <2>2, <2>3 DEF DpllStates
  <2>5. m.state # "max"
    OBVIOUS
  <2> HIDE DEF m
  <2> QED
    BY <2>1, <2>3, <2>4, <2>5, UpdateInv
<1>8. CASE SetTx
  <2>1. mon.ql # MaxQl /\ mon.ql <= LoQl
    BY <1>8 DEF SetTx, Inv, QlInv
  <2> QED
    BY <1>8, <2>1 DEF SetTx, Inv, TypeOK, QlInv, TxFollowsMonitor
<1>9. CASE ClearHoldoverTimer
  BY <1>9 DEF ClearHoldoverTimer, Inv, TypeOK, QlInv, TxFollowsMonitor
<1>10. CASE Tick
  BY <1>10 DEF Tick, Inv, TypeOK, QlInv, TxFollowsMonitor
<1>11. ASSUME NEW st \in DpllStates, NEW c \in ClkIdx \cup {NoClk}, DpllMoves(st, c)
       PROVE  Inv'
  BY <1>11 DEF DpllMoves, Inv, TypeOK, QlInv, TxFollowsMonitor
<1> QED
  BY <1>1, <1>2, <1>3, <1>4, <1>5, <1>6, <1>7, <1>8, <1>9, <1>10, <1>11 DEF Next, MonitorStep

(* The invariant holds throughout. *)
LEMMA InvHolds == Spec => []Inv
  BY InitInv, StepInv, PTL DEF Spec
-----------------------------------------------------------------------------
(* monitor_determine_ql: between two decisions the ESMC stack advertises the *)
(* QL of the last one, and knows the port it came from.                      *)
THEOREM TxFollows == Spec => []TxFollowsMonitor
  BY InvHolds, PTL DEF Inv

(* monitor_determine_ql: in holdover the QL is between the configured one    *)
(* and the oscillator's, and nothing worse than the oscillator's QL is ever  *)
(* advertised.                                                               *)
THEOREM HoldoverQlStaysInRange == Spec => []HoldoverQlInRange
<1>1. Inv => HoldoverQlInRange
  <2>1. Inv /\ mon.state = "holdover" => mon.ql \in Int /\ mon.ql # MaxQl
    BY MonitorAssumption DEF Inv, TypeOK, QlInv
  <2> QED
    BY <2>1, MonitorAssumption DEF Inv, TypeOK, QlInv, HoldoverQlInRange
<1> QED
  BY <1>1, InvHolds, PTL

(* monitor_determine_ql: whatever the timer and the operator do, the QL does *)
(* not improve while no clock is tracked.                                    *)
THEOREM UntrackedNeverUpgrades == Spec => NoUpgradeUntracked
<1>1. Inv /\ [Next]_vars =>
        [mon.ql # MaxQl /\ mon'.state \notin Tracking => mon'.ql >= mon.ql]_vars
  <2> SUFFICES ASSUME Inv, Next, mon.ql # MaxQl, mon'.state \notin Tracking
               PROVE  mon'.ql >= mon.ql
    OBVIOUS
  <2>types. mon.ql \in Int /\ TypeOK
    BY DEF Inv, TypeOK
  <2>1. mon' = mon => mon'.ql >= mon.ql
    BY <2>types
  <2>2. CASE Track
    <3>1. mon'.state = look.state /\ look.state \in Tracking
      BY <2>2, <2>types DEF Track, Update, TypeOK
    <3> QED
      BY <3>1
  <2>3. CASE StopTracking
    <3> DEFINE left == IF look.state = "holdover" THEN TimerOnHoldover ELSE mon.left
    <3>1. /\ look.at = "update" /\ look.state \notin Tracking
          /\ mon'.ql = IF Held(left) THEN QlOnHoldover ELSE LoQl
      BY <2>3 DEF StopTracking, Update
    <3>2. left \in Int /\ (Held(left) => mon.state # "max")
      BY HeldTimer, <2>types DEF TypeOK, Held
    <3> HIDE DEF left
    <3> QED
      BY <3>1, <3>2, UntrackedData
  <2>4. CASE ClearHoldoverTimer \/ Tick
    BY <2>4, <2>types DEF ClearHoldoverTimer, Tick, TypeOK
  <2>5. ASSUME NEW st \in DpllStates, NEW c \in ClkIdx \cup {NoClk}, DpllMoves(st, c)
        PROVE  mon' = mon
    BY <2>5 DEF DpllMoves
  <2>6. ASSUME NEW a, ReadState(a) \/ ReadClk(a) \/ ReadSync(a) \/ ReadQl(a) \/ SetTx
        PROVE  mon' = mon
    BY <2>6 DEF ReadState, ReadClk, ReadSync, ReadQl, SetTx
  <2> QED
    BY <2>1, <2>2, <2>3, <2>4, <2>5, <2>6 DEF Next, MonitorStep
<1> QED
  BY <1>1, InvHolds, PTL DEF Spec, NoUpgradeUntracked
=============================================================================
