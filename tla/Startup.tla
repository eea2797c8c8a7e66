------------------------------- MODULE Startup -------------------------------
(***************************************************************************)
(* The start of the ESMC stack around the sync table, esmc_adaptor_init of *)
(* src/esmc/renesas/esmc_adaptor.c: the threads of all TX ports and then   *)
(* those of all RX ports are created and running before the map is filled  *)
(* by which the adaptor finds the sync entry of a port.  An event in       *)
(* between is dropped by the adaptor, and the thread takes it as reported. *)
(*                                                                         *)
(* Creating a port takes 50 ms or more (port_thread_state_wait), so the    *)
(* window is as long as there are ports; it is taken to be shorter than    *)
(* the 5 s of the RX time-out, which therefore is never lost.              *)
(***************************************************************************)
EXTENDS SyncTable

StartupInit == StartsWith("none")

(* control_init comes before esmc_adaptor_init, the main loop after it.     *)
Starting == main.up /\ main.maps # "ready"
-----------------------------------------------------------------------------
(* The map of the ports created last is filled, in one go.                  *)
SetMap ==
    /\ Starting
    /\ main' = [main EXCEPT !.maps = IF @ = "none" THEN "tx" ELSE "ready"]
    /\ UNCHANGED <<sync, updateFlag, device, port>>

(* A QL change or a change of the link that finds no sync index.            *)
LoseRxEvent(s) ==
    /\ Starting /\ main.maps = "tx" /\ s \in RxPorts
    /\ \/ \E ql \in RxQls \ {port[s].lastQl} :
            /\ ~port[s].linkDown
            /\ port' = [port EXCEPT ![s].lastQl = ql]
       \/ /\ "link" \in PortFaults
          /\ port' = [port EXCEPT ![s].linkDown = ~@, ![s].lastQl = MaxQl]
    /\ UNCHANGED <<sync, updateFlag, device, main>>

LoseTxEvent(s) ==
    /\ Starting /\ main.maps = "none" /\ InitType[s] = "tx_only"
    /\ "txLink" \in PortFaults
    /\ port' = [port EXCEPT ![s].linkDown = ~@]
    /\ UNCHANGED <<sync, updateFlag, device, main>>

StartupNext == SetMap \/ Next \/ \E s \in Syncs : LoseRxEvent(s) \/ LoseTxEvent(s)

StartupSpec == StartupInit /\ [][StartupNext]_vars

(* As FairSpec, and an RX thread that has got no PDU for 5 s says so.  PDUs  *)
(* keep it from that for as long as they come (port.c:528), which they may   *)
(* do for ever unless the link stays down: nothing is assumed of a port that *)
(* always comes up again.  The time-out is an event for which the mutex has  *)
(* to be free, hence the strong fairness: the main loop sleeps without it.   *)
FairStartupSpec ==
    /\ StartupSpec
    /\ WF_vars(SetMap \/ MainStep) /\ WF_vars(Tick)
    /\ \A s \in RxPorts :
         \/ []<>(~port[s].linkDown)
         \/ SF_vars("timeout" \in PortFaults /\ RxTimeout(s))
=============================================================================
