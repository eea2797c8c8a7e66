------------------------------ MODULE MCProcess ------------------------------
(* The main thread's parts with the threads they deal with, on small         *)
(* instances: Monitor, Pcm4l, MngIf and Lifecycle share no variable, and     *)
(* each is checked while the other three are in their initial states.        *)
(*                                                                           *)
(* QLs of Monitor: 1 and 2 are better than or as good as the holdover QL 2,  *)
(* 3 is the oscillator's, 4 worse, 5 E_esmc_ql_max.                          *)
EXTENDS Monitor, Pcm4l, MngIf, Lifecycle

(* Every answer, those that say "none" included. *)
AnyClk  == ClkIdx \cup {NoClk}
AnySync == Syncs \cup {NoSync}

processVars == <<vars, pcmVars, mngVars, lifeVars>>

MngRests     == MngInit /\ \A c \in Clients : client[c].todo \in {0, MaxCommands}
MonitorAlone == PcmInit /\ MngRests /\ LifeInit /\ UNCHANGED <<pcmVars, mngVars, lifeVars>>
PcmAlone     == Init /\ MngRests /\ LifeInit /\ UNCHANGED <<vars, mngVars, lifeVars>>
MngAlone     == Init /\ PcmInit /\ LifeInit /\ UNCHANGED <<vars, pcmVars, lifeVars>>
LifeAlone    == Init /\ PcmInit /\ MngRests /\ UNCHANGED <<vars, pcmVars, mngVars>>

ProcessInit == Init /\ PcmInit /\ MngInit /\ LifeInit

ProcessNext ==
    \/ MonitorAlone /\ Next
    \/ PcmAlone /\ PcmNext
    \/ MngAlone /\ MngNext
    \/ LifeAlone /\ LifeNext

(* The fairness of the four. *)
ProcessSpec ==
    /\ ProcessInit /\ [][ProcessNext]_processVars
    /\ WF_processVars(MonitorAlone /\ MonitorStep) /\ WF_processVars(MonitorAlone /\ Tick)
    /\ WF_processVars(PcmAlone /\ PcmThreadStep) /\ SF_processVars(PcmAlone /\ PcmMainStep)
    /\ WF_processVars(MngAlone /\ MngThreadStep) /\ WF_processVars(MngAlone /\ MngMainStep)
    /\ \A c \in Clients \ Interactive : WF_processVars(MngAlone /\ ClientStep(c))
    /\ WF_processVars(LifeAlone /\ MainStep)
    /\ \A p \in Ports : WF_processVars(LifeAlone /\ ThreadStep(p))
=============================================================================
