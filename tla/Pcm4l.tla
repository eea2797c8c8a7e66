-------------------------------- MODULE Pcm4l --------------------------------
(***************************************************************************)
(* The connection to pcm4l, src/management/pcm4l_if.c and pcm4l_msg.c: a   *)
(* thread that connects to the pcm4l server every 100 ms and notices when  *)
(* the connection is gone, and the two callers of pcm4l_if_send: the main  *)
(* thread, which reports each change of the current QL, and the connection *)
(* thread itself, which reports the current QL on a new connection         *)
(* (management.c).                                                         *)
(*                                                                         *)
(* g_pcm4l_mutex is held during connect(), which blocks, and the recv()    *)
(* after it; every other critical section is one step.  The thread is      *)
(* created before the mutex is initialised, so it may lock the zeroed      *)
(* mutex, which the initialisation then sets free again.                   *)
(*                                                                         *)
(* A stop whose wait runs out destroys the mutex, requests the thread's    *)
(* cancellation and closes the socket, and waits for none of it: the       *)
(* thread goes on to its next cancellation point, which is connect(),      *)
(* recv(), send() or usleep(), not the lock of a mutex.                    *)
(***************************************************************************)
EXTENDS Naturals

CONSTANTS
    PcmQls,      (* the QLs the main thread reports                         *)
    PcmLate      (* may a wait of 2 s run out though the thread can go on   *)

(* pcm4l_msg_set_clock_category, both network options; the QLs of option 3  *)
(* and all other values are INVALID.                                        *)
CategoryQls ==
    [cat1 |-> {"ePRTC", "PRTC", "ePRC", "PRC", "PRS"},
     cat2 |-> {"SSUA", "ST2"},
     cat3 |-> {"SSUB", "ST3E"},
     cat4 |-> {"eSEC", "SEC", "STU", "TNC", "eEEC", "ST3", "SMC", "ST4", "PROV"},
     DNU  |-> {"DNU", "DUS"}]

Category(ql) ==
    IF \E c \in DOMAIN CategoryQls : ql \in CategoryQls[c]
    THEN CHOOSE c \in DOMAIN CategoryQls : ql \in CategoryQls[c]
    ELSE "INVALID"

ASSUME PcmAssumption ==
    /\ PcmQls \subseteq STRING /\ "max" \notin PcmQls
    /\ PcmLate \in BOOLEAN

VARIABLES
    pcm,         (* g_pcm4l_if_thread_data, g_pcm4l_if_fd and g_pcm4l_mutex  *)
    pcmThread,   (* where pcm4l_if_thread is, and its locals                 *)
    pcmMain,     (* what the main thread does here                           *)
    currentQl,   (* g_current_ql of management.c                             *)
    server       (* pcm4l: does it listen, and the category it was told last
                    on the present connection                                *)

pcmVars == <<pcm, pcmThread, pcmMain, currentQl, server>>

ThreadStates == {"not_started", "started", "connected", "stopping", "stopped"}
(* "open": connected; "cut": it was, and pcm4l has closed or reset it.       *)
SocketStates == {"none", "fresh", "open", "cut"}
ThreadPlaces == {"none", "begin", "top", "lock", "connect", "check", "online", "notify", "send",
                 "sleep", "gone"}
MainPlaces   == {"idle", "mutex_init", "start_wait", "send", "store",
                 "stop_lock", "stop_wait", "mutex_deinit", "cancel", "close", "stopped", "failed"}
Categories   == DOMAIN CategoryQls \cup {"INVALID"}

PcmInit ==
    /\ pcm = [enabled |-> FALSE, state |-> "not_started", fd |-> "none", locked |-> FALSE]
    /\ pcmThread = [at |-> "none", on |-> FALSE, ql |-> "max", cancelled |-> FALSE]
    /\ pcmMain = [at |-> "idle", ql |-> "max", late |-> FALSE]
    /\ currentQl = "max"
    /\ server = [up |-> FALSE, told |-> "nothing"]
-----------------------------------------------------------------------------
(* pcm4l_if_thread. *)

ThreadTo(place) == pcmThread' = [pcmThread EXCEPT !.at = place]

PcmThreadStarts ==
    /\ pcmThread.at = "begin"
    /\ pcm' = [pcm EXCEPT !.state = "started"]
    /\ ThreadTo("top")
    /\ UNCHANGED <<pcmMain, currentQl, server>>

PcmTop ==
    /\ pcmThread.at = "top"
    /\ \/ /\ pcm.state = "stopping"
          /\ pcm' = [pcm EXCEPT !.state = "stopped"]
          /\ ThreadTo("gone")
       \/ /\ pcm.state # "stopping"
          /\ ThreadTo("lock")
          /\ UNCHANGED pcm
    /\ UNCHANGED <<pcmMain, currentQl, server>>

(* Not connected: a socket is made if there is none, and connect() is       *)
(* called with the mutex held.  socket() or setsockopt() may fail.          *)
PcmOpen ==
    /\ pcmThread.at = "lock" /\ ~pcm.locked
    /\ pcm.state = "started"
    /\ \/ /\ pcm' = [pcm EXCEPT !.fd = IF @ = "none" THEN "fresh" ELSE @, !.locked = TRUE]
          /\ ThreadTo("connect")
       \/ /\ pcm' = [pcm EXCEPT !.fd = "none"]
          /\ ThreadTo("sleep")
    /\ UNCHANGED <<pcmMain, currentQl, server>>

(* Mutant: a failed connect() leaves the mutex locked.                       *)
ConnectKeepsMutex ==
    /\ pcmThread.at = "connect" /\ ~pcmThread.cancelled
    /\ IF pcm.fd = "fresh" /\ server.up
       THEN /\ pcm' = [pcm EXCEPT !.fd = "open"]
            /\ server' = [server EXCEPT !.told = "nothing"]
            /\ ThreadTo("check")
       ELSE /\ ThreadTo("sleep")
            /\ UNCHANGED <<pcm, server>>
    /\ UNCHANGED <<pcmMain, currentQl>>

(* connect() returns: only a socket that was never connected can be, and a  *)
(* failed one is kept for the next try.                                     *)
PcmConnect ==
    /\ pcmThread.at = "connect" /\ ~pcmThread.cancelled
    /\ \/ /\ pcm.fd = "fresh" /\ server.up
          /\ pcm' = [pcm EXCEPT !.fd = "open"]
          /\ server' = [server EXCEPT !.told = "nothing"]
          /\ ThreadTo("check")
       \/ /\ pcm.fd # "fresh" \/ ~server.up
          /\ pcm' = [pcm EXCEPT !.locked = FALSE]
          /\ ThreadTo("sleep")
          /\ UNCHANGED server
    /\ UNCHANGED <<pcmMain, currentQl>>

StatusChanged(on) == pcmThread' = [pcmThread EXCEPT !.at = "notify", !.on = on]

(* check_connection on the new connection; one that is off again is kept.   *)
PcmCheck ==
    /\ pcmThread.at = "check" /\ ~pcmThread.cancelled
    /\ \/ /\ pcm.fd = "open"
          /\ ThreadTo("online")
          /\ UNCHANGED pcm
       \/ /\ pcm.fd # "open"
          /\ pcm' = [pcm EXCEPT !.locked = FALSE]
          /\ ThreadTo("sleep")
    /\ UNCHANGED <<pcmMain, currentQl, server>>

(* The recv() said on. *)
PcmOnline ==
    /\ pcmThread.at = "online"
    /\ pcm' = [pcm EXCEPT !.state = "connected", !.locked = FALSE]
    /\ StatusChanged(TRUE)
    /\ UNCHANGED <<pcmMain, currentQl, server>>

(* check_connection on a connection that was on, and the pass that has      *)
(* nothing to do because a stop was requested meanwhile.                    *)
PcmWatch ==
    /\ pcmThread.at = "lock" /\ ~pcm.locked
    /\ pcm.state # "started"
    /\ \/ /\ pcm.state = "connected" /\ pcm.fd # "open" /\ ~pcmThread.cancelled
          /\ pcm' = [pcm EXCEPT !.state = "started", !.fd = "none"]
          /\ StatusChanged(FALSE)
       \/ /\ pcm.state # "connected" \/ (pcm.fd = "open" /\ ~pcmThread.cancelled)
          /\ ThreadTo("sleep")
          /\ UNCHANGED pcm
    /\ UNCHANGED <<pcmMain, currentQl, server>>

(* Mutant: the new connection is reported without telling the current QL.   *)
NotifyNothing ==
    /\ pcmThread.at = "notify"
    /\ ThreadTo("sleep")
    /\ UNCHANGED <<pcm, pcmMain, currentQl, server>>

(* The connection status callback, outside the mutex: g_current_ql is read  *)
(* here and sent by the next step.                                          *)
PcmNotify ==
    /\ pcmThread.at = "notify"
    /\ \/ /\ pcmThread.on /\ currentQl # "max"
          /\ pcmThread' = [pcmThread EXCEPT !.at = "send", !.ql = currentQl]
       \/ /\ ~pcmThread.on \/ currentQl = "max"
          /\ ThreadTo("sleep")
    /\ UNCHANGED <<pcm, pcmMain, currentQl, server>>

(* pcm4l_if_send without a response: not sent unless connected, and lost if *)
(* the peer is gone.                                                        *)
Send(ql) ==
    server' = IF pcm.enabled /\ pcm.state = "connected" /\ pcm.fd = "open"
              THEN [server EXCEPT !.told = Category(ql)] ELSE server

PcmThreadSends ==
    /\ pcmThread.at = "send" /\ (pcm.enabled => ~pcm.locked) /\ ~pcmThread.cancelled
    /\ Send(pcmThread.ql)
    /\ ThreadTo("sleep")
    /\ UNCHANGED <<pcm, pcmMain, currentQl>>

PcmSleep ==
    /\ pcmThread.at = "sleep" /\ ~pcmThread.cancelled
    /\ ThreadTo("top")
    /\ UNCHANGED <<pcm, pcmMain, currentQl, server>>

(* A cancelled thread comes to a cancellation point, with the mutex or not. *)
PcmDies ==
    /\ pcmThread.cancelled
    /\ \/ pcmThread.at \in {"connect", "check", "send", "sleep"}
       \/ pcmThread.at = "lock" /\ pcm.state = "connected"
    /\ ThreadTo("gone")
    /\ UNCHANGED <<pcm, pcmMain, currentQl, server>>

PcmThreadStep ==
    \/ PcmThreadStarts \/ PcmTop \/ PcmOpen \/ PcmConnect \/ PcmCheck \/ PcmOnline \/ PcmWatch
    \/ PcmNotify \/ PcmThreadSends \/ PcmSleep \/ PcmDies
-----------------------------------------------------------------------------
(* The main thread. *)

MainTo(place) == pcmMain' = [pcmMain EXCEPT !.at = place]

(* pcm4l_if_start: the thread is created first. *)
PcmStart ==
    /\ pcmMain.at = "idle" /\ pcmThread.at = "none"
    /\ pcmThread' = [pcmThread EXCEPT !.at = "begin"]
    /\ MainTo("mutex_init")
    /\ UNCHANGED <<pcm, currentQl, server>>

(* Creating the thread fails. *)
PcmStartFails ==
    /\ pcmMain.at = "idle" /\ pcmThread.at = "none"
    /\ MainTo("failed")
    /\ UNCHANGED <<pcm, pcmThread, currentQl, server>>

(* Initialising a mutex sets it free, whoever has it. *)
PcmMutexInit ==
    /\ pcmMain.at = "mutex_init"
    /\ pcm' = [pcm EXCEPT !.locked = FALSE, !.enabled = TRUE]
    /\ MainTo("start_wait")
    /\ UNCHANGED <<pcmThread, currentQl, server>>

PcmStartWait ==
    /\ pcmMain.at = "start_wait"
    /\ pcm.state # "not_started" \/ PcmLate
    /\ MainTo("idle")
    /\ UNCHANGED <<pcm, pcmThread, currentQl, server>>

(* management_template_notify_current_ql, called by the monitor: the        *)
(* category is sent before g_current_ql is written.                         *)
PcmReport(ql) ==
    /\ pcmMain.at = "idle"
    /\ pcmMain' = [pcmMain EXCEPT !.at = "send", !.ql = ql]
    /\ UNCHANGED <<pcm, pcmThread, currentQl, server>>

PcmMainSends ==
    /\ pcmMain.at = "send" /\ (pcm.enabled => ~pcm.locked)
    /\ Send(pcmMain.ql)
    /\ MainTo("store")
    /\ UNCHANGED <<pcm, pcmThread, currentQl>>

PcmMainStores ==
    /\ pcmMain.at = "store"
    /\ currentQl' = pcmMain.ql
    /\ MainTo("idle")
    /\ UNCHANGED <<pcm, pcmThread, server>>

(* pcm4l_if_stop, which does nothing if the start was not completed.  The   *)
(* request waits for the mutex.                                             *)
PcmStop ==
    /\ pcmMain.at \in {"idle", "failed"}
    /\ MainTo(IF pcm.enabled THEN "stop_lock" ELSE "stopped")
    /\ UNCHANGED <<pcm, pcmThread, currentQl, server>>

PcmStopRequest ==
    /\ pcmMain.at = "stop_lock" /\ ~pcm.locked
    /\ pcm' = [pcm EXCEPT !.state = "stopping"]
    /\ MainTo("stop_wait")
    /\ UNCHANGED <<pcmThread, currentQl, server>>

(* Mutant: the thread is not waited for.                                    *)
StopWithoutWait ==
    /\ pcmMain.at = "stop_wait"
    /\ MainTo("mutex_deinit")
    /\ UNCHANGED <<pcm, pcmThread, currentQl, server>>

(* At most 2 s, of which connect() may take all; a thread that overwrites   *)
(* the request is waited for in vain.  "late" tells that the time ran out.  *)
PcmStopWait ==
    /\ pcmMain.at = "stop_wait"
    /\ pcm.state # "stopping" \/ PcmLate \/ pcmThread.at \in {"connect", "check", "online"}
    /\ pcmMain' = [pcmMain EXCEPT !.at = "mutex_deinit", !.late = pcm.state # "stopped"]
    /\ UNCHANGED <<pcm, pcmThread, currentQl, server>>

(* The mutex is taken and released once more before it is destroyed; after  *)
(* that the main thread does not lock it again.                             *)
PcmMutexDeinit ==
    /\ pcmMain.at = "mutex_deinit" /\ ~pcm.locked
    /\ MainTo("cancel")
    /\ UNCHANGED <<pcm, pcmThread, currentQl, server>>

PcmCancel ==
    /\ pcmMain.at = "cancel"
    /\ pcmThread' = [pcmThread EXCEPT !.cancelled = TRUE]
    /\ MainTo("close")
    /\ UNCHANGED <<pcm, currentQl, server>>

PcmClose ==
    /\ pcmMain.at = "close"
    /\ pcm' = [pcm EXCEPT !.fd = "none"]
    /\ MainTo("stopped")
    /\ UNCHANGED <<pcmThread, currentQl, server>>

PcmMainStep ==
    \/ PcmMutexInit \/ PcmStartWait \/ PcmMainSends \/ PcmMainStores
    \/ PcmStopRequest \/ PcmStopWait \/ PcmMutexDeinit \/ PcmCancel \/ PcmClose
-----------------------------------------------------------------------------
(* pcm4l comes up, and goes down or closes the connection. *)
ServerMoves ==
    /\ \/ /\ server' = [server EXCEPT !.up = ~@]
          /\ pcm' = [pcm EXCEPT !.fd = IF @ = "open" THEN "cut" ELSE @]
       \/ /\ pcm.fd = "open"
          /\ pcm' = [pcm EXCEPT !.fd = "cut"]
          /\ UNCHANGED server
    /\ UNCHANGED <<pcmThread, pcmMain, currentQl>>

PcmNext ==
    \/ PcmThreadStep \/ PcmMainStep \/ ServerMoves
    \/ PcmStart \/ PcmStartFails \/ PcmStop
    \/ \E ql \in PcmQls : PcmReport(ql)

PcmSpec == PcmInit /\ [][PcmNext]_pcmVars

(* Both threads are scheduled for ever and connect() returns in the end.    *)
(* Strong fairness for the main thread: between two tries the connection    *)
(* thread sleeps 100 ms without the mutex (line 155), so a waiting main     *)
(* thread gets it.                                                          *)
FairPcmSpec == PcmSpec /\ WF_pcmVars(PcmThreadStep) /\ SF_pcmVars(PcmMainStep)
-----------------------------------------------------------------------------
PcmTypeOK ==
    /\ pcm \in [enabled : BOOLEAN, state : ThreadStates, fd : SocketStates, locked : BOOLEAN]
    /\ pcmThread \in [at : ThreadPlaces, on : BOOLEAN, ql : PcmQls \cup {"max"},
                     cancelled : BOOLEAN]
    /\ pcmMain \in [at : MainPlaces, ql : PcmQls \cup {"max"}, late : BOOLEAN]
    /\ currentQl \in PcmQls \cup {"max"}
    /\ server \in [up : BOOLEAN, told : Categories \cup {"nothing"}]

(* pcm4l_if.c:263-275 against 128-145, 190-200 and 236-243: whoever finds    *)
(* the state CONNECTED uses a descriptor that is a connected socket, though *)
(* the mutex may be set free under the thread and the request to stop be    *)
(* overwritten by it, until a stop whose wait ran out closes the socket:    *)
(* a thread that has passed recv() by then says CONNECTED of a closed one.  *)
ConnectedHasSocket ==
    pcm.state = "connected" /\ pcmThread.at # "gone" =>
        pcm.fd \in {"open", "cut"} \/ (pcmMain.late /\ pcmMain.at = "stopped")

(* management.c:285-289 with pcm4l_if.c:128-152: a connection that comes up *)
(* while the current QL is known and not being changed is told its category,*)
(* if it lasts.                                                             *)
NewConnectionTold ==
    pcmThread.at = "notify" /\ pcmThread.on /\ pcmMain.at = "idle" /\ currentQl # "max"
    ~> \/ server.told = Category(currentQl) \/ pcm.fd # "open" \/ pcmMain.at # "idle"

(* pcm4l_if.c:109-148 against 190-200 and 261: a connect() that blocks with *)
(* the mutex held delays the main thread's report and its stop, for no      *)
(* longer than it takes.                                                    *)
MainGetsThrough == pcmMain.at \in {"send", "stop_lock"} ~> pcmMain.at \in {"idle", "stopped"}
=============================================================================
