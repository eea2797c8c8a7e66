------------------------------ MODULE SyncTable ------------------------------
(***************************************************************************)
(* The sync table of src/control/control.c and everything that writes it:  *)
(* the main thread's periodic control_update_sync_table, the ESMC RX and   *)
(* TX threads of the ports, which deliver their events through the control *)
(* callbacks, and the management thread's operations.                      *)
(*                                                                         *)
(* g_control_mutex protects the table.  A handler of an RX, TX or          *)
(* management thread is one critical section, so it is one action guarded  *)
(* by MutexFree.  The main thread's pass RELEASES the mutex three times    *)
(* per port to notify the management module, so the pass is a sequence of  *)
(* steps and the other threads run in its windows.                         *)
(*                                                                         *)
(* Qualities (T_esmc_ql) are naturals, lower is better.  Time is a         *)
(* countdown: "left" is deadline - now, and "now > deadline" is left < 0.  *)
(***************************************************************************)
EXTENDS ClockSelection

CONSTANTS
    NumSyncs,       (* number of configured ports                            *)
    NumClks,        (* MAX_NUM_OF_CLOCKS: clock indices are 0 .. NumClks - 1 *)
    InitType, InitClkIdx, InitPri, InitQl,   (* the port configuration       *)
    RxPorts,        (* the ports with RX enabled, each with an RX thread     *)
    NoQlEn, SynceForcedQlEn,
    LoQl, LoPri,    (* the local oscillator                                  *)
    DoNotUseQl, FailedQl,
    HoldOffTicks, WtrTicks,                  (* 0 disables the timer         *)
    RxQls,          (* QLs a neighbour may send                              *)
    RxHops,         (* cascaded clock counts the callback may be given       *)
    PortFaults,     (* what may happen to a port: "timeout", "link", "txLink" *)
    ClkStates,      (* answers of the device's reference monitors            *)
    DeviceResults,  (* outcomes of writing the device: TRUE is success       *)
    ForcedQls, NewPris, AssignTargets, WtrClearable  (* management inputs    *)

Syncs  == 0 .. NumSyncs - 1
ClkIdx == 0 .. NumClks - 1
Qls    == 0 .. FailedQl
MaxQl  == FailedQl + 1    (* E_esmc_ql_max: "no QL seen yet" *)

LocalRank == LoRank(LoQl, LoPri, DoNotUseQl)

(* What the configuration module and create_esmc_config let through: an     *)
(* external port has a clock, a TX-only port has neither RX, clock nor      *)
(* priority, clock indices and priorities are unique (a port may share the  *)
(* oscillator's default priority), LO is no worse than "do not use".        *)
ASSUME ConfigAssumption ==
    /\ NumSyncs \in Nat \ {0} /\ NumClks \in Nat \ {0}
    /\ InitType \in [Syncs -> SyncTypes]
    /\ InitClkIdx \in [Syncs -> ClkIdx \cup {MissingClkIdx}]
    /\ InitPri \in [Syncs -> 0 .. 255 \cup {NoPri}]
    /\ RxPorts = {s \in Syncs : InitType[s] \in {"synce", "monitoring"}}
    /\ \A s \in Syncs :
         /\ InitClkIdx[s] # MissingClkIdx <=> InitType[s] \in SelectableTypes
         /\ InitPri[s] = NoPri <=> InitType[s] = "tx_only"
    /\ \A s, t \in Syncs : s # t =>
         /\ InitClkIdx[s] = InitClkIdx[t] => InitClkIdx[s] = MissingClkIdx
         /\ InitPri[s] = InitPri[t] => InitPri[s] = NoPri
    /\ LoPri \in 0 .. 255

ASSUME QlAssumption ==
    /\ DoNotUseQl \in Nat /\ FailedQl \in Nat /\ DoNotUseQl < FailedQl
    /\ LoQl \in 0 .. DoNotUseQl
    /\ InitQl \in [Syncs -> Qls]
    /\ NoQlEn \in BOOLEAN /\ SynceForcedQlEn \in BOOLEAN
    /\ HoldOffTicks \in Nat /\ WtrTicks \in Nat

ASSUME InputAssumption ==
    /\ RxQls \subseteq 0 .. FailedQl - 1 /\ RxHops \subseteq Nat
    /\ PortFaults \subseteq {"timeout", "link", "txLink"}
    /\ ClkStates \subseteq {"unqualified", "qualified"} /\ ClkStates # {}
    /\ DeviceResults \subseteq BOOLEAN /\ DeviceResults # {}
    /\ ForcedQls \subseteq 0 .. FailedQl - 1 /\ NewPris \subseteq 0 .. 255
    /\ AssignTargets \subseteq Syncs \X ClkIdx /\ WtrClearable \subseteq Syncs

VARIABLES
    sync,         (* g_control_data.sync_table                               *)
    updateFlag,   (* g_control_data.update_priority_table_flag               *)
    device,       (* the priority table last written to the device           *)
    main,         (* where the main thread is in its pass, and its locals    *)
    port          (* the RX or TX thread of each port (esmc/renesas/port.c)  *)

vars == <<sync, updateFlag, device, main, port>>

SyncStates == {"normal", "hold_off", "wait_to_restore", "forced"}
TimedStates == {"hold_off", "wait_to_restore"}
HasRx == {"synce", "monitoring"}

SyncEntry ==
    [type: SyncTypes, clkIdx: ClkIdx \cup {MissingClkIdx}, pri: 0 .. 255 \cup {NoPri},
     currentQl: Qls, esmcQl: Qls, forcedQl: Qls, holdOffQl: Qls,
     numHops: 0 .. MaxHops, rank: Nat,
     clkState: {"unqualified", "qualified"}, state: SyncStates, left: Int,
     rxTimeout: BOOLEAN, linkDown: BOOLEAN]

(* The places of a pass.  In the three "Notify" windows and between passes  *)
(* the mutex is free; "up" is set when control_init has returned.  "maps"   *)
(* tells the maps of the ESMC adaptor that are filled, by which events find *)
(* their sync entry: none, the TX ports', both.                             *)
MainThread ==
    [at: {"idle", "entry", "stateNotify", "rank", "rankNotify", "clkNotify", "push"},
     i: Syncs, change: BOOLEAN, clkChanged: BOOLEAN, up: BOOLEAN,
     maps: {"none", "tx", "ready"}]

PortThread == [lastQl: Qls \cup {MaxQl}, linkDown: BOOLEAN, timedOut: BOOLEAN]

MutexFree ==
    /\ main.up /\ main.maps = "ready"
    /\ main.at \in {"idle", "stateNotify", "rankNotify", "clkNotify"}
-----------------------------------------------------------------------------
(* control_init fills the table and makes the first pass itself.  Here no    *)
(* event comes before the adaptor's maps are filled; Startup does without.  *)

StartQl(s) == IF NoQlEn /\ InitType[s] = "external" THEN LoQl ELSE InitQl[s]

StartsWith(maps) ==
    /\ sync = [s \in Syncs |->
         [type |-> InitType[s], clkIdx |-> InitClkIdx[s], pri |-> InitPri[s],
          currentQl |-> StartQl(s), esmcQl |-> StartQl(s), forcedQl |-> StartQl(s),
          holdOffQl |-> DoNotUseQl, numHops |-> 0, rank |-> 0,
          clkState |-> "unqualified", state |-> "normal", left |-> -1,
          rxTimeout |-> FALSE, linkDown |-> FALSE]]
    /\ updateFlag = FALSE
    /\ device = <<>>
    /\ main = [at |-> "entry", i |-> 0, change |-> FALSE, clkChanged |-> FALSE, up |-> FALSE,
               maps |-> maps]
    /\ port = [s \in Syncs |-> [lastQl |-> MaxQl, linkDown |-> FALSE, timedOut |-> FALSE]]

Init == StartsWith("ready")
-----------------------------------------------------------------------------
(* The main thread: control_update_sync_table. *)

(* The loop goes on with the next port, or ends. *)
NextEntry(m) ==
    IF m.i + 1 \in Syncs THEN [m EXCEPT !.at = "entry", !.i = m.i + 1, !.clkChanged = FALSE]
                         ELSE [m EXCEPT !.at = "push", !.clkChanged = FALSE]

(* After the rank: the clock state is notified only if it changed. *)
AfterRank(m) == IF m.clkChanged THEN [m EXCEPT !.at = "clkNotify"] ELSE NextEntry(m)

BeginPass ==
    /\ main.at = "idle" /\ main.maps = "ready"
    /\ main' = [main EXCEPT !.at = "entry", !.i = 0]
    /\ UNCHANGED <<sync, updateFlag, device, port>>

SkipTxOnly ==
    /\ main.at = "entry" /\ sync[main.i].type = "tx_only"
    /\ main' = NextEntry(main)
    /\ UNCHANGED <<sync, updateFlag, device, port>>

Expired(e) == e.type \in HasRx /\ e.state \in TimedStates /\ e.left < 0

(* The reference monitor is read for ports with a clock; a hold-off or      *)
(* wait-to-restore time that passed ends the state, and opens a window.     *)
CheckEntry ==
    LET i == main.i  e == sync[i] IN
    /\ main.at = "entry" /\ e.type # "tx_only"
    /\ \E c \in IF e.type \in SelectableTypes THEN ClkStates ELSE {e.clkState} :
         /\ sync' = [sync EXCEPT ![i].clkState = c,
                                 ![i].state = IF Expired(e) THEN "normal" ELSE e.state]
         /\ main' = [main EXCEPT !.at = IF Expired(e) THEN "stateNotify" ELSE "rank",
                                 !.clkChanged = c # e.clkState]
    /\ UNCHANGED <<updateFlag, device, port>>

(* The QL used for selection. *)
CurrentQl(s, e) ==
    CASE e.state = "normal" -> IF e.type = "external" THEN StartQl(s) ELSE e.esmcQl
      [] e.state = "hold_off" /\ e.type # "external" -> e.holdOffQl
      [] e.state = "wait_to_restore" /\ e.type # "external" -> DoNotUseQl
      [] OTHER -> e.forcedQl

(* Mutant: no-QL mode ranks by the QL all the same. *)
RankOf_ByQl(ql, e) == CalculateRank(ql, e.pri, e.numHops)

(* In no-QL mode every usable clock ranks with the local oscillator's QL, so *)
(* that the priority decides.                                                *)
RankOf(ql, e) ==
    CalculateRank(IF NoQlEn /\ ql < DoNotUseQl THEN LoQl ELSE ql, e.pri, e.numHops)

(* Mutant: change_flag is assigned at every port instead of accumulated. *)
UpdateRank_LastPortDecides ==
    LET i == main.i  e == sync[i]  ql == CurrentQl(i, e)  rank == RankOf(ql, e) IN
    /\ main.at \in {"rank", "stateNotify"}
    /\ sync' = [sync EXCEPT ![i].currentQl = ql, ![i].rank = rank]
    /\ main' = IF rank # e.rank THEN [main EXCEPT !.at = "rankNotify", !.change = TRUE]
                                ELSE AfterRank([main EXCEPT !.change = FALSE])
    /\ UNCHANGED <<updateFlag, device, port>>

(* Mutant: the rank is computed before the QL. *)
UpdateRank_RankFirst ==
    LET i == main.i  e == sync[i]  rank == RankOf(e.currentQl, e) IN
    /\ main.at \in {"rank", "stateNotify"}
    /\ sync' = [sync EXCEPT ![i].currentQl = CurrentQl(i, e), ![i].rank = rank]
    /\ main' = IF rank # e.rank THEN [main EXCEPT !.at = "rankNotify", !.change = TRUE]
                                ELSE AfterRank(main)
    /\ UNCHANGED <<updateFlag, device, port>>

UpdateRank ==
    LET i == main.i  e == sync[i]  ql == CurrentQl(i, e)  rank == RankOf(ql, e) IN
    /\ main.at \in {"rank", "stateNotify"}
    /\ sync' = [sync EXCEPT ![i].currentQl = ql, ![i].rank = rank]
    /\ main' = IF rank # e.rank THEN [main EXCEPT !.at = "rankNotify", !.change = TRUE]
                                ELSE AfterRank(main)
    /\ UNCHANGED <<updateFlag, device, port>>

(* Retakes the mutex after the notification of a rank or a clock state. *)
Relock ==
    /\ \/ main.at = "rankNotify" /\ main' = AfterRank(main)
       \/ main.at = "clkNotify"  /\ main' = NextEntry(main)
    /\ UNCHANGED <<sync, updateFlag, device, port>>

(* What the selection reads of the table. *)
SelectionView ==
    [s \in Syncs |-> [type |-> sync[s].type, clkIdx |-> sync[s].clkIdx, rank |-> sync[s].rank]]

(* The end of the pass.  A failed write is logged and leaves the flag set;  *)
(* change_flag is a local of the pass and is gone either way.               *)
EndPass ==
    /\ main.at = "push"
    /\ IF main.change \/ updateFlag
       THEN \E ok \in DeviceResults :
              /\ device' = IF ok THEN PriorityTable(SelectionView, LocalRank) ELSE device
              /\ updateFlag' = (updateFlag /\ ~ok)
       ELSE UNCHANGED <<device, updateFlag>>
    /\ main' = [main EXCEPT !.at = "idle", !.change = FALSE, !.up = TRUE]
    /\ UNCHANGED <<sync, port>>

(* Time passes whatever the threads do. *)
Tick ==
    /\ \E s \in Syncs : sync[s].left >= 0
    /\ sync' = [s \in Syncs |-> [sync[s] EXCEPT !.left = IF @ >= 0 THEN @ - 1 ELSE @]]
    /\ UNCHANGED <<updateFlag, device, main, port>>
-----------------------------------------------------------------------------
(* The RX threads.  Every event is one call of control_rx_event_cb. *)

(* Mutant: a QL other than FAILED does not end hold-off. *)
ReceiveQl_StaysInHoldOff(e, ql) ==
    LET f == [e EXCEPT !.esmcQl = ql] IN
    IF e.state = "normal" /\ ql = FailedQl /\ e.esmcQl # ql
    THEN [f EXCEPT !.state = "hold_off", !.left = HoldOffTicks, !.holdOffQl = e.esmcQl]
    ELSE f

(* Mutant: a QL change in wait-to-restore is taken at once. *)
ReceiveQl_NoWaitOnChange(e, ql) ==
    IF ql # e.esmcQl /\ ql < FailedQl /\ e.state = "wait_to_restore"
    THEN [e EXCEPT !.esmcQl = ql, !.state = "normal"]
    ELSE IF ql < FailedQl /\ e.esmcQl = FailedQl /\ e.state # "forced"
    THEN [e EXCEPT !.esmcQl = ql, !.state = "wait_to_restore", !.left = WtrTicks]
    ELSE [e EXCEPT !.esmcQl = ql]

(* Mutant: a QL change in wait-to-restore starts the timer again. *)
ReceiveQl_Rearms(e, ql) ==
    LET f == [e EXCEPT !.esmcQl = ql] IN
    IF ql = e.esmcQl \/ e.state = "forced" THEN f
    ELSE IF ql < FailedQl
         THEN IF e.esmcQl = FailedQl \/ e.state = "wait_to_restore"
              THEN [f EXCEPT !.state = "wait_to_restore", !.left = WtrTicks]
              ELSE [f EXCEPT !.state = "normal"]
         ELSE IF e.state = "normal"
              THEN [f EXCEPT !.state = "hold_off", !.left = HoldOffTicks, !.holdOffQl = e.esmcQl]
              ELSE IF e.state = "wait_to_restore" THEN [f EXCEPT !.state = "normal"] ELSE f

(* The tail of control_rx_event_cb: entry e gets QL ql. *)
ReceiveQl(e, ql) ==
    LET f == [e EXCEPT !.esmcQl = ql] IN
    IF ql = e.esmcQl \/ e.state = "forced" THEN f
    ELSE IF ql < FailedQl
         THEN IF e.state = "wait_to_restore" THEN f
              ELSE IF e.esmcQl = FailedQl /\ WtrTicks # 0
                   THEN [f EXCEPT !.state = "wait_to_restore", !.left = WtrTicks]
                   ELSE [f EXCEPT !.state = "normal"]
         ELSE IF HoldOffTicks = 0 \/ e.state = "wait_to_restore"
              THEN [f EXCEPT !.state = "normal"]
              ELSE IF e.state = "normal"
                   THEN [f EXCEPT !.state = "hold_off", !.left = HoldOffTicks,
                                  !.holdOffQl = e.esmcQl]
                   ELSE f

(* The callback refuses ports that are not Sync-E or monitoring ports. *)
Deliver(s, e) == sync' = IF sync[s].type \in HasRx THEN [sync EXCEPT ![s] = e] ELSE sync

(* Mutant: the hop count is stored as it was received. *)
ReceivePdu_NoHopLimit(s, ql, hops) ==
    /\ ~port[s].linkDown /\ MutexFree
    /\ port' = [port EXCEPT ![s].lastQl = ql, ![s].timedOut = FALSE]
    /\ Deliver(s, [ReceiveQl(sync[s], ql) EXCEPT !.numHops = hops, !.rxTimeout = FALSE])
    /\ UNCHANGED <<updateFlag, device, main>>

(* A valid PDU is parsed only while the link is up, and reported only when  *)
(* its QL is not the last one the thread reported.                          *)
ReceivePdu(s, ql, hops) ==
    /\ ~port[s].linkDown
    /\ port' = [port EXCEPT ![s].lastQl = ql, ![s].timedOut = FALSE]
    /\ IF ql # port[s].lastQl
       THEN /\ MutexFree
            /\ Deliver(s, [ReceiveQl(sync[s], ql) EXCEPT
                             !.numHops = IF hops > MaxHops THEN MaxHops ELSE hops,
                             !.rxTimeout = FALSE])
       ELSE UNCHANGED sync
    /\ UNCHANGED <<updateFlag, device, main>>

(* Mutant: a port whose link is down does not time out. *)
RxTimeout_OnlyWhileUp(s) ==
    /\ MutexFree /\ ~port[s].timedOut /\ ~port[s].linkDown
    /\ port' = [port EXCEPT ![s].timedOut = TRUE, ![s].lastQl = MaxQl]
    /\ Deliver(s, [ReceiveQl(sync[s], FailedQl) EXCEPT !.numHops = 0, !.rxTimeout = TRUE])
    /\ UNCHANGED <<updateFlag, device, main>>

RxTimeout(s) ==
    /\ MutexFree /\ ~port[s].timedOut
    /\ port' = [port EXCEPT ![s].timedOut = TRUE, ![s].lastQl = MaxQl]
    /\ Deliver(s, [ReceiveQl(sync[s], FailedQl) EXCEPT !.numHops = 0, !.rxTimeout = TRUE])
    /\ UNCHANGED <<updateFlag, device, main>>

(* Mutant: the event sets the flag and leaves the QL. *)
RxLinkDown_KeepsQl(s) ==
    /\ MutexFree /\ ~port[s].linkDown
    /\ port' = [port EXCEPT ![s].linkDown = TRUE, ![s].lastQl = MaxQl]
    /\ Deliver(s, [sync[s] EXCEPT !.numHops = 0, !.linkDown = TRUE])
    /\ UNCHANGED <<updateFlag, device, main>>

(* Mutant: last_ql survives the loss of the link. *)
RxLinkDown_KeepsLastQl(s) ==
    /\ MutexFree /\ ~port[s].linkDown
    /\ port' = [port EXCEPT ![s].linkDown = TRUE]
    /\ Deliver(s, [ReceiveQl(sync[s], DoNotUseQl) EXCEPT !.numHops = 0, !.linkDown = TRUE])
    /\ UNCHANGED <<updateFlag, device, main>>

RxLinkDown(s) ==
    /\ MutexFree /\ ~port[s].linkDown
    /\ port' = [port EXCEPT ![s].linkDown = TRUE, ![s].lastQl = MaxQl]
    /\ Deliver(s, [ReceiveQl(sync[s], DoNotUseQl) EXCEPT !.numHops = 0, !.linkDown = TRUE])
    /\ UNCHANGED <<updateFlag, device, main>>

RxLinkUp(s) ==
    /\ MutexFree /\ port[s].linkDown
    /\ port' = [port EXCEPT ![s].linkDown = FALSE, ![s].lastQl = MaxQl]
    /\ Deliver(s, [sync[s] EXCEPT !.linkDown = FALSE])
    /\ UNCHANGED <<updateFlag, device, main>>

(* The TX thread of a TX-only port watches the link; control_tx_event_cb    *)
(* refuses every port that is not TX only any more.                         *)
TxLinkChange(s) ==
    /\ MutexFree \/ (main.maps = "tx" /\ main.at = "idle")
    /\ InitType[s] = "tx_only"
    /\ port' = [port EXCEPT ![s].linkDown = ~@]
    /\ sync' = IF sync[s].type = "tx_only"
               THEN [sync EXCEPT ![s].linkDown = ~port[s].linkDown] ELSE sync
    /\ UNCHANGED <<updateFlag, device, main>>
-----------------------------------------------------------------------------
(* The management operations that change the table.  A call that is refused *)
(* changes nothing and is no action.                                        *)

SetForcedQl(s, ql) ==
    LET e == sync[s] IN
    /\ MutexFree /\ ~NoQlEn
    /\ e.type = "external" \/ (e.type # "tx_only" /\ SynceForcedQlEn)
    /\ ~(e.state = "forced" /\ e.forcedQl = ql)
    /\ sync' = [sync EXCEPT ![s].forcedQl = ql, ![s].state = "forced"]
    /\ UNCHANGED <<updateFlag, device, main, port>>

ClearForcedQl(s) ==
    /\ MutexFree /\ ~NoQlEn
    /\ sync[s].state = "forced"
    /\ sync' = [sync EXCEPT ![s].state = "normal"]
    /\ UNCHANGED <<updateFlag, device, main, port>>

ClearWtrTimer(s) ==
    /\ MutexFree
    /\ sync[s].type \notin {"external", "tx_only"}
    /\ sync' = [sync EXCEPT ![s].left = -1]
    /\ UNCHANGED <<updateFlag, device, main, port>>

(* Mutant: the former owner keeps the clock. *)
AssignClk_NoDisplacement(s, clk) ==
    /\ MutexFree
    /\ sync[s].clkIdx # clk
    /\ sync' = [sync EXCEPT ![s].type = "synce", ![s].clkIdx = clk]
    /\ updateFlag' = TRUE
    /\ UNCHANGED <<device, main, port>>

(* Mutant: the pass is not told that the mapping changed. *)
AssignClk_NoFlag(s, clk) ==
    /\ MutexFree
    /\ sync[s].clkIdx # clk
    /\ sync' = [t \in Syncs |->
         IF t = s THEN [sync[t] EXCEPT !.type = "synce", !.clkIdx = clk]
         ELSE IF sync[t].clkIdx = clk
              THEN [sync[t] EXCEPT !.type = "monitoring", !.clkIdx = MissingClkIdx]
              ELSE sync[t]]
    /\ UNCHANGED <<updateFlag, device, main, port>>

(* Every port that has the clock loses it and becomes a monitoring port;    *)
(* the named port becomes a Sync-E port, whatever it was.                   *)
AssignClk(s, clk) ==
    /\ MutexFree
    /\ sync[s].clkIdx # clk
    /\ sync' = [t \in Syncs |->
         IF t = s THEN [sync[t] EXCEPT !.type = "synce", !.clkIdx = clk]
         ELSE IF sync[t].clkIdx = clk
              THEN [sync[t] EXCEPT !.type = "monitoring", !.clkIdx = MissingClkIdx]
              ELSE sync[t]]
    /\ updateFlag' = TRUE
    /\ UNCHANGED <<device, main, port>>

(* Mutant: only LO's and the port's own priority are compared. *)
SetPri_OwnOnly(s, pri) ==
    /\ MutexFree
    /\ pri # LoPri /\ sync[s].pri # pri
    /\ sync' = [sync EXCEPT ![s].pri = pri]
    /\ UNCHANGED <<updateFlag, device, main, port>>

SetPri(s, pri) ==
    /\ MutexFree
    /\ pri # LoPri /\ \A t \in Syncs : sync[t].pri # pri
    /\ sync' = [sync EXCEPT ![s].pri = pri]
    /\ UNCHANGED <<updateFlag, device, main, port>>
-----------------------------------------------------------------------------
MainStep == BeginPass \/ SkipTxOnly \/ CheckEntry \/ UpdateRank \/ Relock \/ EndPass

PortStep(s) ==
    \/ s \in RxPorts /\ \E ql \in RxQls, hops \in RxHops : ReceivePdu(s, ql, hops)
    \/ s \in RxPorts /\ "timeout" \in PortFaults /\ RxTimeout(s)
    \/ s \in RxPorts /\ "link" \in PortFaults /\ (RxLinkDown(s) \/ RxLinkUp(s))
    \/ "txLink" \in PortFaults /\ TxLinkChange(s)

Management(s) ==
    \/ \E ql \in ForcedQls : SetForcedQl(s, ql)
    \/ ClearForcedQl(s)
    \/ s \in WtrClearable /\ ClearWtrTimer(s)
    \/ \E clk \in ClkIdx : <<s, clk>> \in AssignTargets /\ AssignClk(s, clk)
    \/ \E pri \in NewPris : SetPri(s, pri)

Next == MainStep \/ Tick \/ \E s \in Syncs : PortStep(s) \/ Management(s)

Spec == Init /\ [][Next]_vars

(* The main loop never blocks for good and time passes.  Nothing is assumed *)
(* of the neighbours, the links or the operator.                            *)
FairSpec == Spec /\ WF_vars(MainStep) /\ WF_vars(Tick)

(* A device whose writes may fail, but not for ever: one that is written to *)
(* again and again accepts the table.                                       *)
DeviceWritten ==
    EndPass /\ (main.change \/ updateFlag) /\ device' = PriorityTable(SelectionView, LocalRank)
FairDeviceSpec == FairSpec /\ SF_vars(DeviceWritten)
-----------------------------------------------------------------------------
(* Every variable has its type; the form of "device" is DeviceInSync's. *)
TypeOK ==
    /\ sync \in [Syncs -> SyncEntry]
    /\ updateFlag \in BOOLEAN
    /\ main \in MainThread
    /\ port \in [Syncs -> PortThread]

(* control.c:866-917 against 80-162: however the operator moves the clocks  *)
(* between ports, a clock index belongs to one port at most, and exactly    *)
(* the ports the selection considers have one.  Otherwise the selection     *)
(* would stop early at a port with no clock (line 113), or overrun its      *)
(* array of MAX_NUM_OF_CLOCKS entries (line 86).                            *)
OneSyncPerClock ==
    /\ \A s, t \in Syncs :
         sync[s].clkIdx = sync[t].clkIdx /\ s # t => sync[s].clkIdx = MissingClkIdx
    /\ \A s \in Syncs : sync[s].type \in SelectableTypes <=> sync[s].clkIdx # MissingClkIdx

(* control.c:268-301: the timed states agree with the QL received, through  *)
(* every interleaving of RX events, expiry, operator and forced QL: a port  *)
(* is in hold-off only while its QL is FAILED, and then stands on a QL that *)
(* was not; it waits to restore only while its QL is not FAILED.            *)
TimedStateMatchesQl ==
    \A s \in Syncs :
        /\ sync[s].state = "hold_off" => sync[s].esmcQl = FailedQl /\ sync[s].holdOffQl < FailedQl
        /\ sync[s].state = "wait_to_restore" => sync[s].esmcQl < FailedQl

(* port.c:469-515, 560-600 against control.c:194-308: the RX thread stays   *)
(* silent about a PDU whose QL is the last it reported, so its last_ql has  *)
(* to be the QL in the sync table unless it is reset.                       *)
LastQlIsInTable ==
    \A s \in RxPorts : port[s].lastQl # MaxQl => sync[s].esmcQl = port[s].lastQl

(* control.c:218-247: a port shown with its link down or timed out has no   *)
(* usable QL, so that its forced or held-off QL is all that can select it.  *)
DownPortHasNoUsableQl ==
    \A s \in RxPorts : sync[s].linkDown \/ sync[s].rxTimeout => sync[s].esmcQl >= DoNotUseQl

(* control.c:919-965: no two ports have the same priority, apart from those  *)
(* that have none.                                                          *)
PrioritiesUnique ==
    \A s, t \in Syncs : sync[s].pri = sync[t].pri /\ s # t => sync[s].pri = NoPri

(* control.c:526-559: whatever the other threads change in the windows of a *)
(* pass, once nothing is pending the device works from the table as it is.  *)
DeviceInSync ==
    main.up /\ ~main.change /\ ~updateFlag => device = PriorityTable(SelectionView, LocalRank)

(* README 1 "No QL Mode": the device is offered every usable clock that has *)
(* a priority, and a better one than the oscillator.                        *)
ValidClockOffered ==
    NoQlEn /\ main.up /\ ~main.change /\ ~updateFlag =>
        \A s \in Syncs : /\ sync[s].type \in SelectableTypes
                         /\ sync[s].currentQl < DoNotUseQl
                         /\ sync[s].pri \in 0 .. LoPri - 1
                         /\ sync[s].rank = RankOf(sync[s].currentQl, sync[s])
                         => sync[s].clkIdx \in ClocksOf(device)

(* The rank is that of the port's present priority and hops. *)
RankedAnew(s) == sync[s].pri # NoPri /\ sync[s].rank = RankOf(sync[s].currentQl, sync[s])

(* README 1 "No QL Mode", "based on priority": the operator may exchange the *)
(* priorities of the ports one by one (control.c:919-965), in the windows of *)
(* a pass and while clocks are moved; of two clocks given to the device and  *)
(* ranked anew the first has the better priority, whatever QLs and hops are. *)
PriorityDecides ==
    NoQlEn /\ main.up /\ ~main.change /\ ~updateFlag =>
        \A s, t \in {u \in Syncs : RankedAnew(u)}, j, k \in DOMAIN device :
            j < k /\ device[j].clkIdx = sync[s].clkIdx /\ device[k].clkIdx = sync[t].clkIdx
            => sync[s].pri < sync[t].pri

(* README 1, "only valid clocks participate": the device is not offered the *)
(* clock of a port whose QL is unusable or, unless the priority alone       *)
(* decides, worse than the oscillator's; a rank is all the selection sees   *)
(* of a QL, and 0, which stands for no rank yet (control.c:417), is the     *)
(* best one.                                                                *)
OfferedClockUsable ==
    main.up /\ ~main.change /\ ~updateFlag =>
        \A s \in Syncs : sync[s].clkIdx \in ClocksOf(device) =>
            /\ sync[s].currentQl < DoNotUseQl
            /\ NoQlEn \/ sync[s].currentQl <= LoQl

(* control.c:86-119: whenever the device is written to, mid-assignment or   *)
(* not, what it is given fits the array of MAX_NUM_OF_CLOCKS entries, and   *)
(* names clocks that exist, each once.                                      *)
DeviceTableFits ==
    /\ Len(device) <= NumClks
    /\ \A k \in DOMAIN device : device[k].clkIdx \in ClkIdx
    /\ \A j, k \in DOMAIN device : device[j].clkIdx = device[k].clkIdx => j = k

(* README 1, "Sync-E TX Only Port": a port configured TX only does not take *)
(* part in the clock selection.                                             *)
TxOnlyNotSelected ==
    \A s \in Syncs : InitType[s] = "tx_only" => sync[s].type \notin SelectableTypes

(* control.c:268-290, 486-500: wait-to-restore ends early only because the  *)
(* port failed again, the operator cleared the timer or forced a QL.        *)
NoEarlyRestore ==
    [][\A s \in Syncs :
         sync[s].state = "wait_to_restore" /\ sync'[s].state # "wait_to_restore" =>
            \/ sync[s].left < 0 \/ sync'[s].esmcQl = FailedQl \/ sync'[s].state = "forced"]_vars

(* control.c:268-301, 486-500: no sequence of QL changes keeps a port in    *)
(* the timed states for ever, by turns either: both deadlines are set once, *)
(* on entering the state, and wait-to-restore never leads to hold-off.      *)
TimedStatesEnd == \A s \in RxPorts : []<>(sync[s].state \notin TimedStates)

(* README 1: a Sync-E clock port whose link is down or which timed out is   *)
(* excluded from the selection: if the link stays down and no QL is forced, *)
(* the device's table is rid of the port's clock for good.                  *)
DownClockExcluded ==
    \A s \in RxPorts :
        <>[](port[s].linkDown /\ sync[s].state # "forced" /\ sync[s].type = "synce"
             /\ sync[s].clkIdx = InitClkIdx[s])
        => <>[](InitClkIdx[s] \notin ClocksOf(device))
=============================================================================
