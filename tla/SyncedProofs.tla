----------------------------- MODULE SyncedProofs -----------------------------
(* The composition is a behaviour of its parts: whatever is proved of        *)
(* SyncTable and of Monitor holds of the main loop as a whole.               *)
EXTENDS Synced, SyncTableProofs

(* What Monitor assumes of its constants is what the configuration and the   *)
(* sync table guarantee.                                                     *)
LEMMA MonitorConstants == Mon!MonitorAssumption
BY ConfigAssumption, QlAssumption, HoldoverAssumption
   DEF Mon!MonitorAssumption, Syncs, ClkIdx, MaxQl, NoClk, NoSync, Mon!NoClk, Mon!NoSync, MissingClkIdx

(* Every step of the composition is a step of the sync table, or leaves it.  *)
THEOREM SyncedIsSyncTable == SyncedSpec => Spec
<1>1. SyncedInit => Init
  BY DEF SyncedInit
<1>2. [SyncedNext]_allVars => [Next]_vars
  BY DEF SyncedNext, MainLoop, MonitorHalf, ControlHalf, TimePasses, DpllFollows, Threads,
         OperatorClears, Next, tableVars, allVars, vars
<1> QED
  BY <1>1, <1>2, PTL DEF SyncedSpec, Spec

(* The answers the monitor gets are of the kind it expects.  That the first  *)
(* owner of a clock exists is so because it is its only one.                 *)
LEMMA AnswersExpected ==
  ASSUME TypeOK, OneSyncPerClock
  PROVE  /\ \A c \in ClkIdx : SyncOf(c) \in Syncs \cup {NoSync}
         /\ \A s \in Syncs : sync[s].currentQl \in 0 .. MaxQl
<1>1. ASSUME NEW c \in ClkIdx
      PROVE  SyncOf(c) \in Syncs \cup {NoSync}
  <2>1. CASE \E s \in Syncs : sync[s].clkIdx = c
    <3>1. PICK s \in Syncs : sync[s].clkIdx = c
      BY <2>1
    <3>2. \A t \in Syncs : sync[t].clkIdx = c => t = s
      BY <3>1 DEF OneSyncPerClock, ClkIdx, MissingClkIdx
    <3>3. s <= s
      BY ConfigAssumption DEF Syncs
    <3> QED
      BY <2>1, <3>1, <3>2, <3>3 DEF SyncOf
  <2> QED
    BY <2>1 DEF SyncOf
<1> QED
  BY <1>1, QlAssumption DEF TypeOK, SyncEntry, Qls, MaxQl

(* "No QL" is in the range of the answers. *)
LEMMA MaxQlIsQl == MaxQl \in 0 .. MaxQl
BY QlAssumption DEF MaxQl

(* The monitor looks up ports of the table only. *)
LookInv ==
    /\ look \in [at: {"idle", "clk", "sync", "ql", "update", "tx"},
                 state: Mon!DpllStates \cup {"max"}, clkIdx: ClkIdx \cup {NoClk},
                 syncIdx: Syncs \cup {NoSync}, ql: 0 .. MaxQl]
    /\ look.at = "sync" => look.clkIdx # NoClk
    /\ look.at = "ql" => look.syncIdx # NoSync
    /\ dpll \in [state: Mon!DpllStates, clk: ClkIdx \cup {NoClk}]

(* Every step of the composition is a step of the monitor with answers it    *)
(* expects, or leaves it.                                                    *)
LEMMA MonitorStepOfSynced ==
  ASSUME TypeOK, OneSyncPerClock, LookInv, [SyncedNext]_allVars
  PROVE  [Mon!Next]_(Mon!vars) /\ LookInv'
<1> USE DEF NoClk, NoSync, Mon!NoClk, Mon!NoSync, MissingClkIdx
<1>1. CASE UNCHANGED monitorVars
  BY <1>1 DEF monitorVars, Mon!vars, LookInv
<1>2. CASE Determine
  <2>1. ASSUME Mon!ReadState(dpll.state)
        PROVE  Mon!Next /\ LookInv'
    <3>1. dpll.state \in Mon!StateAnswers
      BY DEF Mon!StateAnswers
    <3>2. LookInv'
      BY <2>1, MaxQlIsQl DEF Mon!ReadState, LookInv, Mon!Tracking, Mon!DpllStates
    <3> QED
      BY <2>1, <3>1, <3>2 DEF Mon!Next, Mon!MonitorStep
  <2>2. ASSUME Mon!ReadClk(dpll.clk)
        PROVE  Mon!Next /\ LookInv'
    BY <2>2 DEF Mon!ReadClk, Mon!Next, Mon!MonitorStep, LookInv
  <2>3. ASSUME Mon!ReadSync(SyncOf(look.clkIdx))
        PROVE  Mon!Next /\ LookInv'
    <3>1. SyncOf(look.clkIdx) \in Syncs \cup {NoSync}
      BY <2>3, AnswersExpected DEF Mon!ReadSync, LookInv
    <3> QED
      BY <2>3, <3>1 DEF Mon!ReadSync, Mon!Next, Mon!MonitorStep, LookInv
  <2>4. ASSUME look.at = "ql", Mon!ReadQl(sync[look.syncIdx].currentQl)
        PROVE  Mon!Next /\ LookInv'
    <3>1. sync[look.syncIdx].currentQl \in 0 .. MaxQl
      BY <2>4, AnswersExpected DEF LookInv
    <3> QED
      BY <2>4, <3>1 DEF Mon!ReadQl, Mon!Next, Mon!MonitorStep, LookInv
  <2>5. ASSUME Mon!Track \/ Mon!StopTracking \/ Mon!SetTx
        PROVE  Mon!Next /\ LookInv'
    BY <2>5 DEF Mon!Track, Mon!StopTracking, Mon!SetTx, Mon!Update, Mon!Next, Mon!MonitorStep, LookInv
  <2> QED
    BY <1>2, <2>1, <2>2, <2>3, <2>4, <2>5 DEF Determine
<1>3. CASE Mon!Tick \/ Mon!ClearHoldoverTimer
  BY <1>3 DEF Mon!Tick, Mon!ClearHoldoverTimer, Mon!Next, LookInv
<1>4. ASSUME NEW st \in Mon!DpllStates, NEW c \in ClkIdx \cup {NoClk}, Mon!DpllMoves(st, c)
      PROVE  Mon!Next /\ LookInv'
  BY <1>4 DEF Mon!DpllMoves, Mon!Next, LookInv
<1> QED
  BY <1>1, <1>2, <1>3, <1>4
     DEF SyncedNext, MainLoop, MonitorHalf, ControlHalf, TimePasses, DpllFollows, Threads,
         OperatorClears, monitorVars, allVars

(* The composition gives Monitor only what Monitor is specified for. *)
THEOREM SyncedIsMonitor == SyncedSpec => Mon!Spec
<1>1. SyncedInit => Mon!Init /\ LookInv
  BY MaxQlIsQl DEF SyncedInit, Mon!Init, LookInv, NoClk, NoSync, Mon!NoClk, Mon!NoSync,
                   MissingClkIdx, Mon!DpllStates, Mon!Tracking
<1>2. TypeOK /\ OneSyncPerClock /\ LookInv /\ [SyncedNext]_allVars
        => [Mon!Next]_(Mon!vars) /\ LookInv'
  BY MonitorStepOfSynced
<1> QED
  BY <1>1, <1>2, SyncedIsSyncTable, TypeCorrect, ClocksStayUnique, PTL DEF SyncedSpec, Mon!Spec
=============================================================================
