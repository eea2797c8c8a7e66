------------------------------- MODULE Monitor -------------------------------
(***************************************************************************)
(* The monitor module, src/monitor/monitor.c: the main thread's            *)
(* monitor_determine_ql, which reads the Sync-E DPLL, looks up the port of *)
(* the clock it tracks and that port's QL, and gives the ESMC stack the QL *)
(* to advertise; and the operator's monitor_clear_holdover_timer.          *)
(*                                                                         *)
(* Each answer monitor_determine_ql asks for (DPLL state, clock index,     *)
(* sync index, QL) is taken under another module's lock and released, so   *)
(* each is a step of its own whose answer is a parameter; Next takes them  *)
(* from sets, Synced takes them from the modules that give them.           *)
(*                                                                         *)
(* Time is a countdown as in SyncTable: mon.left is                        *)
(* holdover_monotonic_time_ms - now, and -1 once it has passed.            *)
(***************************************************************************)
EXTENDS Integers

CONSTANTS
    Syncs, ClkIdx,        (* sync and clock indices                          *)
    LoQl, HoldoverQl,     (* the oscillator's QL, and a better one to hold   *)
    MaxQl,                (* E_esmc_ql_max                                   *)
    HoldoverTimerS, MsPerS, WordSize,   (* the timer and its unsigned int    *)
    AdvancedHoldoverEn,
    DeviceFails,          (* may a device call fail and leave its answer unset *)
    ClkAnswers, SyncAnswers, QlAnswers  (* the answers Next chooses from      *)

NoClk  == -1    (* INVALID_CLK_IDX *)
NoSync == -1    (* INVALID_SYNC_IDX *)

ASSUME MonitorAssumption ==
    /\ Syncs \subseteq Nat /\ ClkIdx \subseteq Nat
    /\ LoQl \in Nat /\ HoldoverQl \in 0 .. LoQl
    /\ MaxQl \in Nat /\ LoQl < MaxQl
    /\ HoldoverTimerS \in Nat /\ MsPerS \in Nat \ {0} /\ WordSize \in Nat \ {0}
    /\ AdvancedHoldoverEn \in BOOLEAN /\ DeviceFails \in BOOLEAN
    /\ ClkAnswers \subseteq ClkIdx \cup {NoClk}
    /\ SyncAnswers \subseteq Syncs \cup {NoSync}
    /\ QlAnswers \subseteq 0 .. MaxQl

VARIABLES
    dpll,    (* the device: its DPLL's state and the clock it tracks         *)
    mon,     (* g_monitor_data                                               *)
    look,    (* where monitor_determine_ql is, and its locals                *)
    tx       (* what esmc_adaptor_set_tx_ql was given last                   *)

vars == <<dpll, mon, look, tx>>

Tracking   == {"acquisition", "locked"}
DpllStates == Tracking \cup {"freerun", "holdover"}

(* holdover_timer_s * 1000 is a product of unsigned ints. *)
HoldoverMs == (HoldoverTimerS * MsPerS) % WordSize

Init ==
    /\ dpll = [state |-> "freerun", clk |-> NoClk]
    /\ mon = [state |-> "max", clkIdx |-> NoClk, ql |-> MaxQl, syncIdx |-> NoSync, left |-> -1]
    /\ look = [at |-> "idle", state |-> "max", clkIdx |-> NoClk, syncIdx |-> NoSync, ql |-> MaxQl]
    /\ tx = [ql |-> LoQl, syncIdx |-> NoSync]
-----------------------------------------------------------------------------
(* monitor_determine_ql.  Every early return goes back to "idle". *)

(* An unsupported state is returned on; one that tracks no clock needs no   *)
(* look-up.                                                                 *)
ReadState(st) ==
    /\ look.at = "idle"
    /\ look' = [at |-> CASE st \in Tracking -> "clk" [] st = "max" -> "idle" [] OTHER -> "update",
                state |-> st, clkIdx |-> NoClk, syncIdx |-> NoSync, ql |-> MaxQl]
    /\ UNCHANGED <<dpll, mon, tx>>

ReadClk(c) ==
    /\ look.at = "clk"
    /\ look' = [look EXCEPT !.at = IF c = NoClk THEN "idle" ELSE "sync", !.clkIdx = c]
    /\ UNCHANGED <<dpll, mon, tx>>

ReadSync(s) ==
    /\ look.at = "sync"
    /\ look' = [look EXCEPT !.at = IF s = NoSync THEN "idle" ELSE "ql", !.syncIdx = s]
    /\ UNCHANGED <<dpll, mon, tx>>

(* Mutant: a clock worse than the oscillator is followed. *)
ReadQl_NoLimit(q) ==
    /\ look.at = "ql"
    /\ look' = [look EXCEPT !.at = IF q >= MaxQl THEN "idle" ELSE "update", !.ql = q]
    /\ UNCHANGED <<dpll, mon, tx>>

ReadQl(q) ==
    /\ look.at = "ql"
    /\ look' = [look EXCEPT !.at = IF q >= MaxQl \/ q > LoQl THEN "idle" ELSE "update", !.ql = q]
    /\ UNCHANGED <<dpll, mon, tx>>

(* Mutant: only another QL is given to the ESMC stack. *)
Update_QlOnly(m) ==
    /\ mon' = m
    /\ look' = [look EXCEPT !.at = IF m.ql # mon.ql THEN "tx" ELSE "idle"]
    /\ UNCHANGED <<dpll, tx>>

(* The new data; the ESMC stack is told of a new QL, clock or port. *)
Update(m) ==
    /\ mon' = m
    /\ look' = [look EXCEPT !.at =
         IF m.ql # mon.ql \/ m.clkIdx # mon.clkIdx \/ m.syncIdx # mon.syncIdx
         THEN "tx" ELSE "idle"]
    /\ UNCHANGED <<dpll, tx>>

(* The DPLL tracks a clock.  The holdover timer is left alone. *)
Track ==
    /\ look.at = "update" /\ look.state \in Tracking
    /\ Update([mon EXCEPT !.state = look.state, !.clkIdx = look.clkIdx,
                          !.ql = look.ql, !.syncIdx = look.syncIdx])

(* Mutant: the holdover timer starts again whenever holdover is entered. *)
TimerOnHoldover_Restarts ==
    IF mon.state # "holdover" THEN HoldoverMs ELSE mon.left

(* In holdover the timer is started coming from locked, and kept if it was  *)
(* holdover already; otherwise only advanced holdover keeps it.             *)
TimerOnHoldover ==
    CASE mon.state = "locked" -> HoldoverMs
      [] mon.state = "holdover" \/ AdvancedHoldoverEn -> mon.left
      [] OTHER -> -1

(* Mutant: the configured holdover QL is taken though the clock was worse. *)
QlOnHoldover_Configured == IF mon.state = "holdover" THEN mon.ql ELSE HoldoverQl

QlOnHoldover ==
    IF mon.state = "holdover" \/ mon.ql > HoldoverQl THEN mon.ql ELSE HoldoverQl

(* Mutant: the time is not looked at. *)
Held_NoExpiry(left) == look.state = "holdover"

(* Holdover whose time has passed is freerun. *)
Held(left) == look.state = "holdover" /\ left >= 0

(* The DPLL tracks no clock. *)
StopTracking ==
    LET left == IF look.state = "holdover" THEN TimerOnHoldover ELSE mon.left IN
    /\ look.at = "update" /\ look.state \notin Tracking
    /\ Update([state |-> IF Held(left) THEN "holdover" ELSE "freerun", clkIdx |-> NoClk,
               ql |-> IF Held(left) THEN QlOnHoldover ELSE LoQl, syncIdx |-> NoSync,
               left |-> left])

(* control_get_tx_bundle_info and esmc_adaptor_set_tx_ql, after the mutex. *)
SetTx ==
    /\ look.at = "tx"
    /\ tx' = [ql |-> mon.ql, syncIdx |-> mon.syncIdx]
    /\ look' = [look EXCEPT !.at = "idle"]
    /\ UNCHANGED <<dpll, mon>>
-----------------------------------------------------------------------------
ClearHoldoverTimer ==
    /\ HoldoverTimerS # 0
    /\ mon' = [mon EXCEPT !.left = -1]
    /\ UNCHANGED <<dpll, look, tx>>

Tick ==
    /\ mon.left >= 0
    /\ mon' = [mon EXCEPT !.left = @ - 1]
    /\ UNCHANGED <<dpll, look, tx>>

(* The device is hardware and does what it does. *)
DpllMoves(st, c) ==
    /\ st \in Tracking <=> c # NoClk
    /\ dpll' = [state |-> st, clk |-> c]
    /\ UNCHANGED <<mon, look, tx>>

(* The answer of a failed call is what was on the stack. *)
StateAnswers == IF DeviceFails THEN DpllStates \cup {"max"} ELSE {dpll.state}

MonitorStep ==
    \/ \E st \in StateAnswers : ReadState(st)
    \/ \E c \in ClkAnswers : ReadClk(c)
    \/ \E s \in SyncAnswers : ReadSync(s)
    \/ \E q \in QlAnswers : ReadQl(q)
    \/ Track \/ StopTracking \/ SetTx

Next ==
    \/ MonitorStep \/ ClearHoldoverTimer \/ Tick
    \/ \E st \in DpllStates, c \in ClkIdx \cup {NoClk} : DpllMoves(st, c)

Spec == Init /\ [][Next]_vars

(* The main loop runs for ever and time passes. *)
FairSpec == Spec /\ WF_vars(MonitorStep) /\ WF_vars(Tick)
-----------------------------------------------------------------------------
TypeOK ==
    /\ dpll \in [state: DpllStates, clk: ClkIdx \cup {NoClk}]
    /\ mon \in [state: DpllStates \cup {"max"}, clkIdx: ClkIdx \cup {NoClk}, ql: 0 .. MaxQl,
                syncIdx: Syncs \cup {NoSync}, left: Int]
    /\ look \in [at: {"idle", "clk", "sync", "ql", "update", "tx"},
                 state: DpllStates \cup {"max"}, clkIdx: ClkIdx \cup {NoClk},
                 syncIdx: Syncs \cup {NoSync}, ql: 0 .. MaxQl]
    /\ tx \in [ql: 0 .. MaxQl, syncIdx: Syncs \cup {NoSync}]

(* monitor.c:210-214: the ESMC stack always has the QL and the port the     *)
(* monitor last decided on, whichever early return a run of it took.        *)
TxFollowsMonitor ==
    look.at # "tx" /\ mon.ql # MaxQl => tx = [ql |-> mon.ql, syncIdx |-> mon.syncIdx]

(* monitor.c:164-191: however locks, holdovers, clearings and look-ups that *)
(* fail follow one another, the device in holdover never claims a QL better *)
(* than the configured one, and a device never one worse than its own       *)
(* oscillator.                                                              *)
HoldoverQlInRange ==
    /\ mon.state = "holdover" => mon.ql \in HoldoverQl .. LoQl
    /\ tx.ql <= LoQl

(* monitor.c:153-208: only a clock that is tracked improves the QL.         *)
NoUpgradeUntracked ==
    [][mon.ql # MaxQl /\ mon'.state \notin Tracking => mon'.ql >= mon.ql]_vars

(* The look-ups do not fail for good. *)
LookUpsSucceed == []<>(look.at = "update")

(* monitor.c:164-192: a DPLL that flaps between acquisition and holdover,   *)
(* but never reports that it locked, does not hold the QL for longer than   *)
(* the timer, though advanced holdover does not stop it.                    *)
FlappingEndsHoldover ==
    LookUpsSucceed /\ <>[](look.state # "locked") => <>[](mon.state # "holdover")

(* monitor.c:171 "QL will be changed to LO QL when the holdover timer       *)
(* expires": a QL held in holdover does not outlive its timer, unless the   *)
(* look-ups fail from then on.                                              *)
HoldoverEnds ==
    LookUpsSucceed => (mon.state = "holdover" /\ mon.left < 0 ~> mon.state # "holdover")
=============================================================================
