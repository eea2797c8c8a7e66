------------------------------ MODULE Lifecycle ------------------------------
(***************************************************************************)
(* The life of the process and of its ESMC port threads: main() of         *)
(* src/synced.c, which initialises the modules, runs its loop and takes    *)
(* everything down again; the creation and destruction of the port threads *)
(* by src/esmc/renesas/esmc.c and port.c; and what each thread does        *)
(* between, as far as its descriptor, its memory, best_ql_mutex and the    *)
(* callbacks into the control module go.                                   *)
(*                                                                         *)
(* Threads are detached: nothing but the thread state in the port's        *)
(* memory tells main whether one has ended, and every wait for it runs out *)
(* after 2 s.  A thread of LatePorts may need longer than that; any other  *)
(* one gets there in time (its loop sleeps 50 ms or waits 1 s) unless it   *)
(* has ended elsewhere or waits for a mutex nobody will release.           *)
(***************************************************************************)
EXTENDS Naturals

CONSTANTS
    NumTx, NumRx,     (* the TX ports are 1 .. NumTx, the RX ports follow   *)
    CheckedPorts,     (* the TX ports that check their link                 *)
    LatePorts         (* the ports whose thread may be later than a wait    *)

TxPorts == 1 .. NumTx
RxPorts == NumTx + 1 .. NumTx + NumRx
Ports   == TxPorts \cup RxPorts
Nobody  == 0

ASSUME LifeAssumption ==
    /\ NumTx \in Nat \ {0} /\ NumRx \in Nat \ {0}
    /\ CheckedPorts \subseteq TxPorts /\ LatePorts \subseteq Ports

VARIABLES
    life,        (* where main() is, the port it deals with, esmc_init_flag  *)
    live,        (* the modules that are initialised                         *)
    callbacks,   (* are the ESMC adaptor's event callbacks registered        *)
    holder,      (* of best_ql_mutex; no thread keeps it over a step but one
                    that ends with it                                        *)
    port,        (* T_port_tx_data, T_port_rx_data                           *)
    thread       (* where port_tx_thread, port_rx_thread are                 *)

lifeVars == <<life, live, callbacks, holder, port, thread>>

Modules == {"device", "control", "monitor"}
MainAt  == {"device", "control", "monitor", "create", "starting", "start_wait", "abort",
            "check", "services", "loop", "set_best", "end", "stop", "wait", "free",
            "destroy", "monitor_deinit", "control_deinit", "device_deinit", "ended"}
ThreadAt == {"none", "waiting", "loop", "lock", "cond", "send", "compose", "event", "call", "gone"}
PortStates == {"unknown", "starting", "started", "stopping", "stopped"}

LifeInit ==
    /\ life = [at |-> "device", port |-> 1, esmc |-> FALSE]
    /\ live = {}
    /\ callbacks = FALSE
    /\ holder = Nobody
    /\ port = [p \in Ports |-> [mem |-> "none", fd |-> "none", state |-> "unknown", down |-> FALSE]]
    /\ thread = [p \in Ports |-> "none"]

LifeTo(place) == life' = [life EXCEPT !.at = place]
ThreadMoves(p, place) == thread' = [thread EXCEPT ![p] = place]
-----------------------------------------------------------------------------
(* main(): the modules, in this order; control_init registers the callbacks.*)

AfterInit == [device |-> "control", control |-> "monitor", monitor |-> "create"]

InitModule ==
    /\ life.at \in Modules
    /\ \/ /\ live' = live \cup {life.at}
          /\ callbacks' = (callbacks \/ life.at = "control")
          /\ LifeTo(AfterInit[life.at])
       \/ /\ LifeTo("end")
          /\ UNCHANGED <<live, callbacks>>
    /\ UNCHANGED <<holder, port, thread>>

(* port_tx_create, port_rx_create: no memory, no raw socket or no thread    *)
(* makes esmc_adaptor_init fail; what was created before stays, and main()  *)
(* does not call esmc_adaptor_deinit.                                       *)
CreatePort ==
    /\ life.at = "create"
    /\ LET p == life.port IN
       \/ /\ port' = [port EXCEPT ![p].mem = "live", ![p].fd = "open"]
          /\ ThreadMoves(p, "waiting")
          /\ LifeTo("starting")
       \/ /\ LifeTo("end")
          /\ UNCHANGED <<port, thread>>
    /\ UNCHANGED <<live, callbacks, holder>>

(* port_thread_start_wait *)
LetThreadStart ==
    /\ life.at = "starting"
    /\ port' = [port EXCEPT ![life.port].state = "starting"]
    /\ LifeTo("start_wait")
    /\ UNCHANGED <<live, callbacks, holder, thread>>

PortStarted ==
    /\ life.at = "start_wait"
    /\ port[life.port].state = "started"
    /\ life' = IF life.port + 1 \in Ports
               THEN [life EXCEPT !.at = "create", !.port = @ + 1]
               ELSE [life EXCEPT !.at = "check", !.esmc = TRUE]
    /\ UNCHANGED <<live, callbacks, holder, port, thread>>

(* port_thread_stop: a thread that has not started is not told to stop.     *)
Stopped(s) == IF s = "started" THEN "stopping" ELSE s

StartTimesOut ==
    /\ life.at = "start_wait" /\ life.port \in LatePorts
    /\ port' = [port EXCEPT ![life.port].state = Stopped(@)]
    /\ LifeTo("abort")
    /\ UNCHANGED <<live, callbacks, holder, thread>>

(* A TX thread waits for a mutex that the thread which has it never releases.*)
Stuck(p) == p \in TxPorts /\ holder # Nobody /\ thread[p] \in {"lock", "cond", "compose"}

(* Mutant: the wait for a thread to stop does not look at its state.         *)
NoWait(p) == TRUE

(* Mutant: the wait has no time-out.                                         *)
WaitForEver(p) == port[p].state = "stopped"

(* port_tx_wait_stop, port_rx_wait_stop: the state is reached or 2 s pass.   *)
WaitOver(p) ==
    \/ port[p].state = "stopped"
    \/ p \in LatePorts \/ Stuck(p) \/ thread[p] \in {"none", "gone"}

AbortStart ==
    /\ life.at = "abort" /\ WaitOver(life.port)
    /\ port' = [port EXCEPT ![life.port].fd = "closed", ![life.port].mem = "freed"]
    /\ LifeTo("end")
    /\ UNCHANGED <<live, callbacks, holder, thread>>

(* esmc_init_tx_ports and esmc_init_rx_ports, which find all ports created,  *)
(* then esmc_adaptor_start, esmc_check_init.                                 *)
CheckStarted ==
    /\ life.at = "check"
    /\ LifeTo(IF \A p \in Ports : port[p].state \notin {"unknown", "starting"}
              THEN "services" ELSE "end")
    /\ UNCHANGED <<live, callbacks, holder, port, thread>>

(* The pcm4l and the management interface; either may fail to start.         *)
StartServices ==
    /\ life.at = "services"
    /\ LifeTo("loop") \/ LifeTo("end")
    /\ UNCHANGED <<live, callbacks, holder, port, thread>>

(* The main loop.  Of what it does only esmc_set_best_ql matters here.       *)
CallStack ==
    /\ life.at = "loop"
    /\ LifeTo("set_best")
    /\ UNCHANGED <<live, callbacks, holder, port, thread>>

SetBest ==
    /\ life.at = "set_best" /\ holder = Nobody
    /\ LifeTo("loop")
    /\ UNCHANGED <<live, callbacks, holder, port, thread>>

(* A termination signal has cleared g_prog_running.                          *)
LeaveLoop ==
    /\ life.at = "loop"
    /\ LifeTo("end")
    /\ UNCHANGED <<live, callbacks, holder, port, thread>>

(* Mutant: control is taken down with the callbacks, before the threads.     *)
DeinitControlFirst ==
    /\ life.at = "end"
    /\ callbacks' = FALSE
    /\ live' = live \ {"control"}
    /\ life' = IF life.esmc THEN [life EXCEPT !.at = "stop", !.port = 1]
                            ELSE [life EXCEPT !.at = "monitor_deinit"]
    /\ UNCHANGED <<holder, port, thread>>

(* From the label end on.  esmc_adaptor_deinit: the callbacks go first, then *)
(* the TX ports, then the RX ports.                                          *)
BeginDeinit ==
    /\ life.at = "end"
    /\ IF life.esmc THEN /\ callbacks' = FALSE
                         /\ life' = [life EXCEPT !.at = "stop", !.port = 1]
                    ELSE /\ LifeTo("monitor_deinit")
                         /\ UNCHANGED callbacks
    /\ UNCHANGED <<live, holder, port, thread>>

Group(p) == IF p \in TxPorts THEN TxPorts ELSE RxPorts

(* esmc_destroy_tx_ports, esmc_destroy_rx_ports: all are told to stop, each  *)
(* is waited for and its descriptor closed, all are freed.                   *)
StopPorts ==
    /\ life.at = "stop"
    /\ port' = [p \in Ports |->
                 IF p \in Group(life.port) THEN [port[p] EXCEPT !.state = Stopped(@)] ELSE port[p]]
    /\ LifeTo("wait")
    /\ UNCHANGED <<live, callbacks, holder, thread>>

ClosePort ==
    /\ life.at = "wait" /\ WaitOver(life.port)
    /\ port' = [port EXCEPT ![life.port].fd = "closed"]
    /\ life' = IF life.port + 1 \in Group(life.port)
               THEN [life EXCEPT !.port = @ + 1] ELSE [life EXCEPT !.at = "free"]
    /\ UNCHANGED <<live, callbacks, holder, thread>>

FreePorts ==
    /\ life.at = "free"
    /\ port' = [p \in Ports |->
                 IF p \in Group(life.port) THEN [port[p] EXCEPT !.mem = "freed"] ELSE port[p]]
    /\ life' = IF life.port \in TxPorts
               THEN [life EXCEPT !.at = "stop", !.port = NumTx + 1] ELSE [life EXCEPT !.at = "destroy"]
    /\ UNCHANGED <<live, callbacks, holder, thread>>

(* esmc_destroy_stack: os_mutex_deinit locks the mutex before it destroys it.*)
DestroyStack ==
    /\ life.at = "destroy" /\ holder = Nobody
    /\ LifeTo("monitor_deinit")
    /\ UNCHANGED <<live, callbacks, holder, port, thread>>

AfterDeinit == [monitor_deinit |-> "control_deinit", control_deinit |-> "device_deinit",
                device_deinit |-> "ended"]
ModuleOf    == [monitor_deinit |-> "monitor", control_deinit |-> "control",
                device_deinit |-> "device"]

DeinitModule ==
    /\ life.at \in DOMAIN AfterDeinit
    /\ live' = live \ {ModuleOf[life.at]}
    /\ LifeTo(AfterDeinit[life.at])
    /\ UNCHANGED <<callbacks, holder, port, thread>>

MainStep ==
    \/ InitModule \/ CreatePort \/ LetThreadStart \/ PortStarted \/ StartTimesOut \/ AbortStart
    \/ CheckStarted \/ StartServices \/ SetBest \/ BeginDeinit \/ StopPorts \/ ClosePort
    \/ FreePorts \/ DestroyStack \/ DeinitModule
-----------------------------------------------------------------------------
(* The threads. *)

ThreadStarts(p) ==
    /\ thread[p] = "waiting" /\ port[p].state = "starting"
    /\ port' = [port EXCEPT ![p].state = "started"]
    /\ ThreadMoves(p, "loop")
    /\ UNCHANGED <<life, live, callbacks, holder>>

LeavesLoop(p) ==
    /\ thread[p] = "loop" /\ port[p].state # "started"
    /\ port' = [port EXCEPT ![p].state = IF @ = "stopping" THEN "stopped" ELSE @]
    /\ ThreadMoves(p, "gone")
    /\ UNCHANGED <<life, live, callbacks, holder>>

TxTurn(p) ==
    /\ p \in TxPorts /\ thread[p] = "loop" /\ port[p].state = "started"
    /\ ThreadMoves(p, "lock")
    /\ UNCHANGED <<life, live, callbacks, holder, port>>

(* os_cond_timed_wait with best_ql_mutex, which the waiting releases.        *)
TxWaits(p) ==
    /\ p \in TxPorts /\ thread[p] = "lock" /\ holder = Nobody
    /\ ThreadMoves(p, "cond")
    /\ UNCHANGED <<life, live, callbacks, holder, port>>

TxWakes(p) ==
    /\ p \in TxPorts /\ thread[p] = "cond" /\ holder = Nobody
    /\ ThreadMoves(p, "send")
    /\ UNCHANGED <<life, live, callbacks, holder, port>>

(* The wait fails: goto err leaves the mutex locked and the state "started". *)
TxWaitFails(p) ==
    /\ p \in TxPorts /\ thread[p] = "cond" /\ holder = Nobody
    /\ holder' = p
    /\ ThreadMoves(p, "gone")
    /\ UNCHANGED <<life, live, callbacks, port>>

(* port_check_link closes the descriptor when its ioctl fails, which the      *)
(* thread and main() go on taking for theirs: the next look fails again,     *)
(* unless the process has opened something else under that number.           *)
Lost(fd) == IF fd = "open" THEN "lost" ELSE fd

(* A link that went down or up is reported; while it is down nothing is sent.*)
(* A failed look is a link that is down.                                     *)
TxLink(p) ==
    /\ p \in TxPorts /\ thread[p] = "send"
    /\ \/ /\ p \in CheckedPorts
          /\ port' = [port EXCEPT ![p].down = ~@]
          /\ ThreadMoves(p, "event")
       \/ /\ p \in CheckedPorts
          /\ port' = [port EXCEPT ![p].down = TRUE, ![p].fd = Lost(@)]
          /\ ThreadMoves(p, IF port[p].down THEN "loop" ELSE "event")
       \/ /\ ThreadMoves(p, IF port[p].down THEN "loop" ELSE "compose")
          /\ UNCHANGED port
    /\ UNCHANGED <<life, live, callbacks, holder>>

(* esmc_compose_pdu takes best_ql_mutex; one that fails ends the thread,     *)
(* whose state stays "started".                                              *)
TxSends(p) ==
    /\ p \in TxPorts /\ thread[p] = "compose" /\ holder = Nobody
    /\ ThreadMoves(p, "loop") \/ ThreadMoves(p, "gone")
    /\ UNCHANGED <<life, live, callbacks, holder, port>>

(* A turn of the RX thread with something received, a time-out, a change of  *)
(* the link, or a look at the link that fails, which is an event only when   *)
(* the link was up.                                                          *)
RxHasEvent(p) ==
    /\ p \in RxPorts /\ thread[p] = "loop" /\ port[p].state = "started"
    /\ \/ /\ ThreadMoves(p, "event")
          /\ UNCHANGED port
       \/ /\ ThreadMoves(p, "event") \/ UNCHANGED thread
          /\ port' = [port EXCEPT ![p].fd = Lost(@)]
    /\ UNCHANGED <<life, live, callbacks, holder>>

AfterEvent(p) == IF p \in TxPorts /\ ~port[p].down THEN "compose" ELSE "loop"

(* esmc_tx_event_cb, esmc_rx_event_cb: the callback is looked at, and called *)
(* in the next step.                                                         *)
EventChecks(p) ==
    /\ thread[p] = "event"
    /\ ThreadMoves(p, IF callbacks THEN "call" ELSE AfterEvent(p))
    /\ UNCHANGED <<life, live, callbacks, holder, port>>

EventCalls(p) ==
    /\ thread[p] = "call"
    /\ ThreadMoves(p, AfterEvent(p))
    /\ UNCHANGED <<life, live, callbacks, holder, port>>

ThreadStep(p) ==
    \/ ThreadStarts(p) \/ LeavesLoop(p) \/ TxTurn(p) \/ TxWaits(p) \/ TxWakes(p) \/ TxLink(p)
    \/ TxSends(p) \/ EventChecks(p) \/ EventCalls(p)

LifeNext ==
    \/ MainStep \/ CallStack \/ LeaveLoop
    \/ \E p \in Ports : ThreadStep(p) \/ RxHasEvent(p) \/ TxWaitFails(p)

LifeSpec == LifeInit /\ [][LifeNext]_lifeVars

(* Every thread and main() are scheduled for ever; signals, received PDUs    *)
(* and failures are not promised.                                            *)
FairLifeSpec ==
    LifeSpec /\ WF_lifeVars(MainStep) /\ \A p \in Ports : WF_lifeVars(ThreadStep(p))
-----------------------------------------------------------------------------
PortData == [mem : {"none", "live", "freed"}, fd : {"none", "open", "lost", "closed"},
             state : PortStates, down : BOOLEAN]

LifeTypeOK ==
    /\ life \in [at : MainAt, port : Ports, esmc : BOOLEAN]
    /\ live \subseteq Modules
    /\ callbacks \in BOOLEAN
    /\ holder \in Ports \cup {Nobody}
    /\ port \in [Ports -> PortData]
    /\ thread \in [Ports -> ThreadAt]

(* port.c:373, 603, 645-651 and esmc.c:982-994: a detached thread is known   *)
(* to have ended only by the state it wrote, yet its memory is not freed     *)
(* while it may still run, provided it is no later than 2 s.                 *)
MemoryOutlivesThread ==
    \A p \in Ports \ LatePorts :
        port[p].mem = "freed" => thread[p] \in {"none", "gone"} \/ Stuck(p)

(* port.c:300-349, 437-555 against 645-651 and 795-831: main() closes the     *)
(* descriptor under no thread in time that may yet look at its link, send or *)
(* receive with it: such a thread finds it open, or has closed it itself at  *)
(* a look that failed (port.c:225-228) and still uses the number.            *)
DescriptorOutlivesThread ==
    \A p \in Ports \ LatePorts :
        thread[p] \in {"waiting", "loop", "lock", "cond", "send", "compose", "event", "call"}
        /\ ~Stuck(p) => \/ port[p].fd = "open"
                        \/ port[p].fd = "lost" /\ p \in CheckedPorts \cup RxPorts

(* synced.c:781-803 with esmc_adaptor.c:347-363: the sync table is freed and *)
(* its mutex destroyed only when no port thread in time is in a callback;    *)
(* unless the ESMC stack was never up, when its threads are left to run.     *)
ControlOutlivesEvents ==
    \A p \in Ports \ LatePorts :
        life.esmc /\ thread[p] = "call" => "control" \in live

(* synced.c:781-828: main() gets to its end whatever fails on the way, but   *)
(* for a TX thread that ended with best_ql_mutex locked (port.c:302).        *)
ShutdownCompletes == life.at = "end" ~> life.at = "ended" \/ holder # Nobody
=============================================================================
