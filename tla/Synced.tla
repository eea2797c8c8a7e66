-------------------------------- MODULE Synced --------------------------------
(***************************************************************************)
(* The main loop of src/synced.c: the monitor (Monitor) and the control    *)
(* pass (SyncTable) take turns, the monitor asks the sync table and the    *)
(* device for its answers, and the device follows a clock of the priority  *)
(* table it was given.  All other threads run whenever the control mutex   *)
(* lets them.                                                              *)
(***************************************************************************)
EXTENDS SyncTable

CONSTANTS HoldoverQl, HoldoverTimerS, MsPerS, WordSize, AdvancedHoldoverEn

(* create_monitor_config: the holdover QL is no worse than the oscillator's. *)
ASSUME HoldoverAssumption ==
    /\ HoldoverQl \in 0 .. LoQl
    /\ HoldoverTimerS \in Nat /\ MsPerS \in Nat \ {0} /\ WordSize \in Nat \ {0}
    /\ AdvancedHoldoverEn \in BOOLEAN

VARIABLES
    dpll, mon, look, tx,   (* of Monitor                                     *)
    turn                   (* which half of the main loop runs               *)

NoClk  == MissingClkIdx
NoSync == -1

Mon == INSTANCE Monitor WITH
    DeviceFails <- FALSE, ClkAnswers <- ClkIdx \cup {NoClk},
    SyncAnswers <- Syncs \cup {NoSync}, QlAnswers <- 0 .. MaxQl

tableVars   == <<sync, updateFlag, device, main, port>>
monitorVars == <<dpll, mon, look, tx>>
allVars     == <<sync, updateFlag, device, main, port, dpll, mon, look, tx, turn>>

SyncedInit == Init /\ Mon!Init /\ turn = "control"
-----------------------------------------------------------------------------
(* control_get_sync_idx: the first port that has the clock. *)
SyncOf(c) ==
    IF \E s \in Syncs : sync[s].clkIdx = c
    THEN CHOOSE s \in Syncs : sync[s].clkIdx = c /\ \A t \in Syncs : sync[t].clkIdx = c => s <= t
    ELSE NoSync

(* One step of monitor_determine_ql, with the answers of the device and of  *)
(* the sync table at that moment.                                           *)
Determine ==
    \/ Mon!ReadState(dpll.state)
    \/ Mon!ReadClk(dpll.clk)
    \/ Mon!ReadSync(SyncOf(look.clkIdx))
    \/ look.at = "ql" /\ Mon!ReadQl(sync[look.syncIdx].currentQl)
    \/ Mon!Track \/ Mon!StopTracking \/ Mon!SetTx

MonitorHalf ==
    /\ turn = "monitor"
    /\ Determine
    /\ turn' = IF look'.at = "idle" THEN "control" ELSE "monitor"
    /\ UNCHANGED tableVars

ControlHalf ==
    /\ turn = "control"
    /\ MainStep
    /\ turn' = IF main'.at = "idle" THEN "monitor" ELSE "control"
    /\ UNCHANGED monitorVars

MainLoop == MonitorHalf \/ ControlHalf

(* Time passes for the ports' deadlines and the holdover timer alike. *)
TimePasses ==
    /\ IF \E s \in Syncs : sync[s].left >= 0 THEN Tick ELSE UNCHANGED tableVars
    /\ IF mon.left >= 0 THEN Mon!Tick ELSE UNCHANGED monitorVars
    /\ UNCHANGED turn

(* The device locks to clocks of its table, and leaves one that is no more  *)
(* in it when it gets round to it.                                          *)
DpllFollows ==
    /\ \E st \in Mon!DpllStates, c \in ClkIdx \cup {NoClk} :
         c \in ClocksOf(device) \cup {NoClk} /\ Mon!DpllMoves(st, c)
    /\ UNCHANGED <<tableVars, turn>>

DpllLeaves == dpll.clk \notin ClocksOf(device) \cup {NoClk} /\ DpllFollows

Threads ==
    /\ \E s \in Syncs : PortStep(s) \/ Management(s)
    /\ UNCHANGED <<monitorVars, turn>>

OperatorClears == Mon!ClearHoldoverTimer /\ UNCHANGED <<tableVars, turn>>

SyncedNext == MainLoop \/ TimePasses \/ DpllFollows \/ Threads \/ OperatorClears

SyncedSpec == SyncedInit /\ [][SyncedNext]_allVars

(* The main loop runs for ever, time passes, and the device does leave a    *)
(* clock that was taken off its table.                                      *)
FairSyncedSpec ==
    /\ SyncedSpec
    /\ WF_allVars(MainLoop) /\ WF_allVars(TimePasses) /\ WF_allVars(DpllLeaves)
-----------------------------------------------------------------------------
(* README 2.4: the ports advertise "the current QL of the device": if the   *)
(* device stays locked to a clock of a port whose QL stays the same, that   *)
(* QL is what the ESMC stack is told, for good, whatever the RX threads and *)
(* the operator did before.                                                 *)
CurrentQlAdvertised ==
    \A s \in Syncs : \A ql \in Qls :
        <>[](/\ dpll.state = "locked" /\ dpll.clk = sync[s].clkIdx
             /\ sync[s].currentQl = ql)
        => <>[](tx.ql = ql /\ tx.syncIdx = s)

(* control.c:238-247 to monitor.c:210-214, end to end: a port that stays    *)
(* down, with no QL forced and its own clock, is in the end no more what    *)
(* the device advertises.                                                   *)
DownPortNotAdvertised ==
    \A s \in RxPorts :
        <>[](port[s].linkDown /\ sync[s].state # "forced" /\ sync[s].clkIdx = InitClkIdx[s])
        => <>[](tx.syncIdx # s)

(* control.c:866-917 against monitor.c:96-134: after the operator moved the *)
(* clock of the selected port elsewhere, and the DPLL has settled, the      *)
(* monitor does not stay with the former owner, which look-up fails though. *)
FormerOwnerForgotten ==
    \A s \in Syncs : \A st \in Mon!DpllStates :
        <>[](sync[s].clkIdx = MissingClkIdx /\ dpll.state = st) => <>[](tx.syncIdx # s)
=============================================================================
