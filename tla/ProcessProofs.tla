---------------------------- MODULE ProcessProofs ----------------------------
(* Proofs about the threads main() creates and ends beside the sync table:   *)
(* PCM4L_IF's (Pcm4l), the management interface's (MngIf) and the ports'     *)
(* (Lifecycle).  Each has an inductive invariant of its own.                 *)
EXTENDS Pcm4l, MngIf, Lifecycle, TLAPS
-----------------------------------------------------------------------------
(* PCM4L_IF, for any QLs: whoever relies on the state CONNECTED when it uses  *)
(* the descriptor has a connected socket, until a stop that waited in vain   *)
(* has closed it.                                                            *)

ClosedLate == pcmMain.late /\ pcmMain.at = "stopped"

(* Until the thread is created the state is untouched, and a stop has        *)
(* nothing to do; what the thread has seen on is a connected socket; STOPPED *)
(* is written by the thread's last step only; and a stop goes on to close    *)
(* the socket when the thread has ended or the wait for it has run out.      *)
PcmInv ==
    /\ pcmThread.at = "none" =>
          /\ pcm.state = "not_started" /\ ~pcm.enabled
          /\ pcmMain.at \in {"idle", "send", "store", "stopped", "failed"}
    /\ pcmThread.at = "online" => pcm.fd \in {"open", "cut"} \/ ClosedLate
    /\ pcm.state = "stopped" => pcmThread.at = "gone"
    /\ pcmMain.at \in {"mutex_deinit", "cancel", "close"} => pcmMain.late \/ pcmThread.at = "gone"

PcmRecord    == [enabled : BOOLEAN, state : ThreadStates, fd : SocketStates, locked : BOOLEAN]
ThreadRecord == [at : ThreadPlaces, on : BOOLEAN, ql : PcmQls \cup {"max"}, cancelled : BOOLEAN]
MainRecord   == [at : MainPlaces, ql : PcmQls \cup {"max"}, late : BOOLEAN]

PcmIInv == PcmTypeOK /\ PcmInv /\ ConnectedHasSocket

(* The category of a QL is one of the known ones. *)
LEMMA CategoryType == \A ql : Category(ql) \in Categories
BY DEF Category, Categories

LEMMA PcmInitInv == PcmInit => PcmIInv
BY DEF PcmInit, PcmIInv, PcmTypeOK, PcmInv, ConnectedHasSocket, ThreadStates, SocketStates,
       ThreadPlaces, MainPlaces

(* Sending changes nothing but what the server was told. *)
LEMMA SendType ==
  ASSUME PcmTypeOK, NEW ql, Send(ql)
  PROVE  server' \in [up : BOOLEAN, told : Categories \cup {"nothing"}]
BY CategoryType DEF Send, PcmTypeOK

(* What moving the thread or the main thread to a place leaves alone. *)
LEMMA ThreadToType ==
  ASSUME pcmThread \in ThreadRecord, NEW place \in ThreadPlaces, ThreadTo(place)
  PROVE  /\ pcmThread' \in ThreadRecord /\ pcmThread'.at = place
         /\ pcmThread'.cancelled = pcmThread.cancelled
BY DEF ThreadTo, ThreadRecord

LEMMA MainToType ==
  ASSUME pcmMain \in MainRecord, NEW place \in MainPlaces, MainTo(place)
  PROVE  pcmMain' \in MainRecord /\ pcmMain'.at = place /\ pcmMain'.late = pcmMain.late
BY DEF MainTo, MainRecord

LEMMA PcmStepInv == PcmIInv /\ [PcmNext]_pcmVars => PcmIInv'
<1> SUFFICES ASSUME PcmIInv, [PcmNext]_pcmVars
             PROVE  PcmIInv'
  OBVIOUS
<1> USE PcmAssumption
    DEF PcmIInv, PcmTypeOK, PcmInv, ConnectedHasSocket, ClosedLate, PcmRecord, ThreadRecord,
        MainRecord, ThreadStates, SocketStates, ThreadPlaces, MainPlaces
<1>1. CASE PcmThreadStarts
  <2>1. pcm' \in PcmRecord /\ pcm'.state = "started" /\ pcm'.fd = pcm.fd
    BY <1>1 DEF PcmThreadStarts
  <2> QED
    BY <1>1, <2>1, ThreadToType DEF PcmThreadStarts
<1>2. CASE PcmTop
  <2>1. CASE pcm' = [pcm EXCEPT !.state = "stopped"] /\ ThreadTo("gone")
    <3>1. pcm' \in PcmRecord /\ pcm'.fd = pcm.fd
      BY <2>1
    <3> QED
      BY <1>2, <2>1, <3>1, ThreadToType DEF PcmTop
  <2>2. CASE UNCHANGED pcm /\ ThreadTo("lock")
    BY <1>2, <2>2, ThreadToType DEF PcmTop
  <2> QED
    BY <1>2, <2>1, <2>2 DEF PcmTop
<1>3. CASE PcmOpen
  <2>1. CASE /\ pcm' = [pcm EXCEPT !.fd = IF @ = "none" THEN "fresh" ELSE @, !.locked = TRUE]
             /\ ThreadTo("connect")
    <3>1. pcm' \in PcmRecord /\ pcm'.state = "started"
      BY <1>3, <2>1 DEF PcmOpen
    <3> QED
      BY <1>3, <2>1, <3>1, ThreadToType DEF PcmOpen
  <2>2. CASE pcm' = [pcm EXCEPT !.fd = "none"] /\ ThreadTo("sleep")
    <3>1. pcm' \in PcmRecord /\ pcm'.state = "started"
      BY <1>3, <2>2 DEF PcmOpen
    <3> QED
      BY <1>3, <2>2, <3>1, ThreadToType DEF PcmOpen
  <2> QED
    BY <1>3, <2>1, <2>2 DEF PcmOpen
<1>4. CASE PcmConnect
  <2>1. CASE /\ pcm' = [pcm EXCEPT !.fd = "open"]
             /\ server' = [server EXCEPT !.told = "nothing"]
             /\ ThreadTo("check")
    <3>1. pcm' \in PcmRecord /\ pcm'.state = pcm.state /\ pcm'.fd = "open"
      BY <2>1
    <3> QED
      BY <1>4, <2>1, <3>1, ThreadToType DEF PcmConnect
  <2>2. CASE pcm' = [pcm EXCEPT !.locked = FALSE] /\ ThreadTo("sleep") /\ UNCHANGED server
    <3>1. pcm' \in PcmRecord /\ pcm'.state = pcm.state /\ pcm'.fd = pcm.fd
      BY <2>2
    <3> QED
      BY <1>4, <2>2, <3>1, ThreadToType DEF PcmConnect
  <2> QED
    BY <1>4, <2>1, <2>2 DEF PcmConnect
<1>5. CASE PcmCheck
  <2>1. CASE pcm.fd = "open" /\ UNCHANGED pcm /\ ThreadTo("online")
    BY <1>5, <2>1, ThreadToType DEF PcmCheck
  <2>2. CASE pcm' = [pcm EXCEPT !.locked = FALSE] /\ ThreadTo("sleep")
    <3>1. pcm' \in PcmRecord /\ pcm'.state = pcm.state /\ pcm'.fd = pcm.fd
      BY <2>2
    <3> QED
      BY <1>5, <2>2, <3>1, ThreadToType DEF PcmCheck
  <2> QED
    BY <1>5, <2>1, <2>2 DEF PcmCheck
<1>6. CASE PcmOnline
  <2>1. pcm' \in PcmRecord /\ pcm'.state = "connected" /\ pcm'.fd = pcm.fd
    BY <1>6 DEF PcmOnline
  <2>2. pcmThread' \in ThreadRecord /\ pcmThread'.at = "notify"
    BY <1>6 DEF PcmOnline, StatusChanged
  <2> QED
    BY <1>6, <2>1, <2>2 DEF PcmOnline
<1>7. CASE PcmWatch
  <2>1. CASE pcm' = [pcm EXCEPT !.state = "started", !.fd = "none"] /\ StatusChanged(FALSE)
    <3>1. pcm' \in PcmRecord /\ pcm'.state = "started"
      BY <2>1
    <3>2. pcmThread' \in ThreadRecord /\ pcmThread'.at = "notify"
      BY <2>1 DEF StatusChanged
    <3> QED
      BY <1>7, <3>1, <3>2 DEF PcmWatch
  <2>2. CASE UNCHANGED pcm /\ ThreadTo("sleep")
    BY <1>7, <2>2, ThreadToType DEF PcmWatch
  <2> QED
    BY <1>7, <2>1, <2>2 DEF PcmWatch
<1>8. CASE PcmNotify
  <2>1. /\ pcmThread'.at \in {"send", "sleep"} /\ pcmThread'.ql \in PcmQls \cup {"max"}
        /\ pcmThread' = [pcmThread EXCEPT !.at = pcmThread'.at, !.ql = pcmThread'.ql]
    BY <1>8 DEF PcmNotify, ThreadTo
  <2>2. pcmThread' \in ThreadRecord
    BY <2>1
  <2> QED
    BY <1>8, <2>1, <2>2 DEF PcmNotify
<1>9. CASE PcmThreadSends
  BY <1>9, SendType, ThreadToType DEF PcmThreadSends
<1>10. CASE PcmSleep
  BY <1>10, ThreadToType DEF PcmSleep
<1>11. CASE PcmDies
  <2>1. ThreadTo("gone") /\ UNCHANGED <<pcm, pcmMain, currentQl, server>>
    BY <1>11, Zenon DEF PcmDies
  <2>2. pcmThread' \in ThreadRecord /\ pcmThread'.at = "gone"
    BY <2>1, ThreadToType
  <2> QED
    BY <2>1, <2>2
<1>12. CASE PcmStart
  <2>1. pcmThread' \in ThreadRecord /\ pcmThread'.at = "begin"
    BY <1>12 DEF PcmStart
  <2> QED
    BY <1>12, <2>1, MainToType DEF PcmStart
<1>13. CASE PcmStartFails
  BY <1>13, MainToType DEF PcmStartFails
<1>14. CASE PcmMutexInit
  <2>1. pcm' \in PcmRecord /\ pcm'.state = pcm.state /\ pcm'.fd = pcm.fd
    BY <1>14 DEF PcmMutexInit
  <2> QED
    BY <1>14, <2>1, MainToType DEF PcmMutexInit
<1>15. CASE PcmStartWait
  BY <1>15, MainToType DEF PcmStartWait
<1>16. CASE PcmMainSends
  BY <1>16, SendType, MainToType DEF PcmMainSends
<1>17. CASE PcmMainStores
  BY <1>17, MainToType DEF PcmMainStores
<1>18. CASE PcmStop
  <2>1. CASE pcm.enabled /\ MainTo("stop_lock")
    BY <1>18, <2>1, MainToType DEF PcmStop
  <2>2. CASE MainTo("stopped")
    BY <1>18, <2>2, MainToType DEF PcmStop
  <2> QED
    BY <1>18, <2>1, <2>2 DEF PcmStop
<1>19. CASE PcmStopRequest
  <2>1. pcm' \in PcmRecord /\ pcm'.state = "stopping" /\ pcm'.fd = pcm.fd
    BY <1>19 DEF PcmStopRequest
  <2> QED
    BY <1>19, <2>1, MainToType DEF PcmStopRequest
<1>20. CASE PcmStopWait
  <2>1. /\ pcmMain' = [pcmMain EXCEPT !.at = "mutex_deinit", !.late = pcm.state # "stopped"]
        /\ pcmMain.at = "stop_wait" /\ UNCHANGED <<pcm, pcmThread, currentQl, server>>
    BY <1>20, Zenon DEF PcmStopWait
  <2>2. CASE pcm.state = "stopped"
    <3>1. pcmMain' = [pcmMain EXCEPT !.at = "mutex_deinit", !.late = FALSE]
      BY <2>1, <2>2
    <3>2. pcmMain' \in MainRecord /\ pcmMain'.at = "mutex_deinit"
      BY <3>1
    <3> QED
      BY <2>1, <2>2, <3>2
  <2>3. CASE pcm.state # "stopped"
    <3>1. pcmMain' = [pcmMain EXCEPT !.at = "mutex_deinit", !.late = TRUE]
      BY <2>1, <2>3
    <3>2. pcmMain' \in MainRecord /\ pcmMain'.at = "mutex_deinit" /\ pcmMain'.late
      BY <3>1
    <3> QED
      BY <2>1, <3>2
  <2> QED
    BY <2>2, <2>3
<1>21. CASE PcmMutexDeinit
  BY <1>21, MainToType DEF PcmMutexDeinit
<1>22. CASE PcmCancel
  <2>1. pcmThread' \in ThreadRecord /\ pcmThread'.at = pcmThread.at
    BY <1>22 DEF PcmCancel
  <2> QED
    BY <1>22, <2>1, MainToType DEF PcmCancel
<1>23. CASE PcmClose
  <2>1. pcm' \in PcmRecord /\ pcm'.state = pcm.state /\ pcm'.enabled = pcm.enabled
    BY <1>23 DEF PcmClose
  <2> QED
    BY <1>23, <2>1, MainToType DEF PcmClose
<1>24. CASE ServerMoves
  <2>1. /\ pcm' \in PcmRecord /\ pcm'.state = pcm.state /\ pcm'.enabled = pcm.enabled
        /\ pcm.fd \in {"open", "cut"} => pcm'.fd \in {"open", "cut"}
    <3>1. CASE pcm' = [pcm EXCEPT !.fd = "cut"] /\ pcm.fd = "open"
      BY <3>1
    <3>2. CASE pcm' = [pcm EXCEPT !.fd = IF @ = "open" THEN "cut" ELSE @]
      BY <3>2
    <3> QED
      BY <1>24, <3>1, <3>2 DEF ServerMoves
  <2>2. server' \in [up : BOOLEAN, told : Categories \cup {"nothing"}]
    <3>1. PICK d \in BOOLEAN : d = ~server.up
      BY Zenon
    <3>2. server' = server \/ server' = [server EXCEPT !.up = d]
      BY <1>24, <3>1 DEF ServerMoves
    <3> QED
      BY <3>2
  <2> QED
    BY <1>24, <2>1, <2>2 DEF ServerMoves
<1>25. ASSUME NEW ql \in PcmQls, PcmReport(ql)
       PROVE  PcmIInv'
  <2>1. pcmMain' \in MainRecord /\ pcmMain'.at = "send"
    BY <1>25 DEF PcmReport
  <2> QED
    BY <1>25, <2>1 DEF PcmReport
<1>26. CASE UNCHANGED pcmVars
  BY <1>26 DEF pcmVars
<1> QED
  BY <1>1, <1>2, <1>3, <1>4, <1>5, <1>6, <1>7, <1>8, <1>9, <1>10, <1>11, <1>12, <1>13, <1>14,
     <1>15, <1>16, <1>17, <1>18, <1>19, <1>20, <1>21, <1>22, <1>23, <1>24, <1>25, <1>26
     DEF PcmNext, PcmThreadStep, PcmMainStep

LEMMA PcmSpecInv == PcmSpec => []PcmIInv
BY PcmInitInv, PcmStepInv, PTL DEF PcmSpec

(* The types of the connection and its two threads.                          *)
THEOREM PcmTypes == PcmSpec => []PcmTypeOK
<1>1. PcmIInv => PcmTypeOK
  BY DEF PcmIInv
<1> QED
  BY <1>1, PcmSpecInv, PTL

(* CONNECTED has a socket, whatever the thread, the stop and pcm4l do, until *)
(* a stop whose wait ran out has closed it under a thread that goes on.      *)
THEOREM SocketSafe == PcmSpec => []ConnectedHasSocket
<1>1. PcmIInv => ConnectedHasSocket
  BY DEF PcmIInv
<1> QED
  BY <1>1, PcmSpecInv, PTL

-----------------------------------------------------------------------------
(* The management interface, for any clients: no client loses its connection *)
(* to another one, and a stop in time leaves none open.                      *)

(* The connection is known where the thread uses it, and nothing is opened   *)
(* again after the stop.                                                     *)
MngInv ==
    /\ mng.at = "accept" => mng.conn = NoClient
    /\ mng.at \in {"receive", "serve"} => mng.conn # NoClient
    /\ mng.state = "stopped" => mng.at = "gone" /\ mng.conn = NoClient
    /\ mngMain = "idle" => mng.at = "none"
    /\ mngMain \in {"idle", "stopped"} => ~mng.open

MngIInv == MngTypeOK /\ MngInv /\ SessionKept

MngRecord    == [open : BOOLEAN, state : {"not_started", "started", "stopping", "stopped"},
                 at : {"none", "begin", "top", "accept", "receive", "serve", "gone"},
                 conn : Clients \cup {NoClient}, cancelled : BOOLEAN]
ClientRecord == [at : {"away", "ready", "asked", "odd", "hangs", "ended"}, todo : 0 .. MaxCommands]

LEMMA MngInitInv == MngInit => MngIInv
<1> SUFFICES ASSUME MngInit
             PROVE  MngIInv
  OBVIOUS
<1>1. MngTypeOK
  BY MngAssumption DEF MngInit, MngTypeOK
<1>2. \A c \in Clients : client[c].at = "away"
  BY DEF MngInit
<1> QED
  BY <1>1, <1>2 DEF MngInit, MngIInv, MngInv, SessionKept

(* A client stays in the backlog while others join it, and until it is its   *)
(* first.                                                                    *)
LEMMA JoinKeepsOthers ==
  ASSUME backlog \in Seq(Clients), NEW c \in Clients, backlog' = Append(backlog, c)
  PROVE  /\ backlog' \in Seq(Clients) /\ Waits(c)'
         /\ \A d \in Clients : Waits(d) => Waits(d)'
<1>1. /\ Len(backlog') = Len(backlog) + 1 /\ Len(backlog) \in Nat /\ backlog'[Len(backlog) + 1] = c
      /\ \A i \in 1 .. Len(backlog) : backlog'[i] = backlog[i]
  OBVIOUS
<1>2. Waits(c)'
  BY <1>1 DEF Waits
<1>3. ASSUME NEW d \in Clients, Waits(d)
      PROVE  Waits(d)'
  <2>1. PICK i \in 1 .. Len(backlog) : backlog[i] = d
    BY <1>3 DEF Waits
  <2>2. i \in 1 .. Len(backlog') /\ backlog'[i] = d
    BY <1>1, <2>1
  <2> QED
    BY <2>2 DEF Waits
<1> QED
  BY <1>2, <1>3

LEMMA AcceptKeepsOthers ==
  ASSUME backlog \in Seq(Clients), backlog # << >>, backlog' = Tail(backlog)
  PROVE  /\ backlog' \in Seq(Clients) /\ Head(backlog) \in Clients
         /\ \A d \in Clients : Waits(d) => Waits(d)' \/ d = Head(backlog)
<1>1. /\ Len(backlog') = Len(backlog) - 1 /\ Len(backlog) \in Nat \ {0} /\ Head(backlog) = backlog[1]
      /\ \A i \in 1 .. Len(backlog') : backlog'[i] = backlog[i + 1]
  OBVIOUS
<1>2. ASSUME NEW d \in Clients, Waits(d), d # Head(backlog)
      PROVE  Waits(d)'
  <2>1. PICK i \in 1 .. Len(backlog) : backlog[i] = d
    BY <1>2 DEF Waits
  <2>2. i - 1 \in 1 .. Len(backlog') /\ backlog'[i - 1] = d
    <3>1. i # 1
      BY <1>1, <1>2, <2>1
    <3>2. i - 1 \in 1 .. Len(backlog') /\ (i - 1) + 1 = i
      BY <1>1, <3>1
    <3> QED
      BY <1>1, <2>1, <3>2
  <2> QED
    BY <2>2 DEF Waits
<1> QED
  BY <1>1, <1>2

(* The thread's steps; only an end seen on it closes a connection.           *)
LEMMA MngThreadInv == MngIInv /\ MngThreadStep => MngIInv'
<1> SUFFICES ASSUME MngIInv, MngThreadStep
             PROVE  MngIInv'
  OBVIOUS
<1> USE MngAssumption DEF MngIInv, MngTypeOK, MngInv, SessionKept, Connected, MngRecord, ClientRecord
<1>1. CASE MngThreadStarts
  <2>1. mng' \in MngRecord /\ mng'.conn = mng.conn /\ mng'.state = "started" /\ mng'.at = "top"
        /\ mng'.open = mng.open /\ mng.at = "begin"
    BY <1>1 DEF MngThreadStarts
  <2> QED
    BY <1>1, <2>1 DEF MngThreadStarts, Waits
<1>2. CASE MngTop
  <2>1. CASE mng' = [mng EXCEPT !.state = "stopped", !.at = "gone", !.conn = NoClient]
    BY <1>2, <2>1 DEF MngTop, Waits
  <2>2. CASE mng.state # "stopping" /\ mng' = [mng EXCEPT !.at = NextCall]
    <3>1. PICK at \in {"accept", "receive"} :
             at = NextCall /\ (at = "accept" <=> mng.conn = NoClient)
      BY DEF NextCall
    <3>2. mng' \in MngRecord /\ mng'.at = at /\ mng'.conn = mng.conn /\ mng'.state = mng.state
          /\ mng'.open = mng.open
      BY <2>2, <3>1
    <3> QED
      BY <1>2, <3>1, <3>2 DEF MngTop, Waits
  <2> QED
    BY <1>2, <2>1, <2>2 DEF MngTop
<1>3. CASE MngAccept
  <2>1. CASE backlog # << >> /\ Accept
    <3>1. mng.conn = NoClient /\ mng.at = "accept" /\ UNCHANGED <<mngMain, client>>
      BY <1>3 DEF MngAccept
    <3>2. /\ backlog' \in Seq(Clients) /\ Head(backlog) \in Clients
          /\ \A d \in Clients : Waits(d) => Waits(d)' \/ d = Head(backlog)
      BY <2>1, AcceptKeepsOthers DEF Accept
    <3>3. mng' \in MngRecord /\ mng'.at = "top" /\ mng'.conn = Head(backlog)
          /\ mng'.state = mng.state /\ mng'.open = mng.open
      BY <2>1, <3>2 DEF Accept
    <3>4. MngTypeOK' /\ MngInv'
      BY <3>1, <3>2, <3>3
    <3>5. SessionKept'
      BY <3>1, <3>2, <3>3
    <3> QED
      BY <3>4, <3>5
  <2>2. CASE mng' = [mng EXCEPT !.at = "top"] /\ UNCHANGED <<mngMain, client, backlog>>
    BY <1>3, <2>2 DEF MngAccept, Waits
  <2> QED
    BY <1>3, <2>1, <2>2 DEF MngAccept
<1>4. CASE MngReceive
  <2>1. /\ mng.conn \in Clients /\ mng.at = "receive" /\ UNCHANGED <<mngMain, backlog>>
        /\ mng'.state = mng.state /\ mng'.open = mng.open /\ mng'.at \in {"serve", "top"}
        /\ \/ mng'.conn = mng.conn
           \/ mng'.conn = NoClient /\ client[mng.conn].at = "ended" /\ mng'.at = "top"
    BY <1>4 DEF MngReceive
  <2>2. \A c \in Clients : client'[c].at = client[c].at \/ client'[c].at = "hangs"
    BY <1>4 DEF MngReceive
  <2>3. MngTypeOK'
    <3>1. mng' = [mng EXCEPT !.at = mng'.at, !.conn = mng'.conn] /\ mng'.conn \in Clients \cup {NoClient}
      BY <1>4, <2>1 DEF MngReceive
    <3>2. \E at \in {client[mng.conn].at, "hangs"} : client' = [client EXCEPT ![mng.conn].at = at]
      BY <1>4 DEF MngReceive
    <3>3. client' \in [Clients -> ClientRecord]
      BY <2>1, <3>2
    <3> QED
      BY <2>1, <3>1, <3>3
  <2>4. SessionKept'
    <3> SUFFICES ASSUME NEW c \in Clients, client'[c].at \in {"ready", "asked"}, mngMain # "stopped"
                 PROVE  Waits(c) \/ mng'.conn = c
      BY <2>1 DEF Waits
    <3>1. client[c].at = client'[c].at
      BY <2>2
    <3>2. Waits(c) \/ mng.conn = c
      BY <2>1, <3>1
    <3> QED
      BY <2>1, <3>1, <3>2
  <2> QED
    BY <2>1, <2>3, <2>4
<1>5. CASE MngServe
  <2>1. mng' \in MngRecord /\ mng'.at = "top" /\ mng'.conn = mng.conn /\ mng'.state = mng.state
        /\ mng'.open = mng.open /\ mng.conn \in Clients /\ mng.at = "serve"
    BY <1>5 DEF MngServe
  <2>2. PICK at \in {client[mng.conn].at, "ready"} :
          /\ client' = [client EXCEPT ![mng.conn].at = at]
          /\ at = "ready" => client[mng.conn].at \in {"ready", "asked"}
    BY <1>5 DEF MngServe
  <2>3. /\ client' \in [Clients -> ClientRecord] /\ client'[mng.conn].at = at
        /\ \A c \in Clients \ {mng.conn} : client'[c] = client[c]
    BY <2>1, <2>2
  <2> QED
    BY <1>5, <2>1, <2>2, <2>3 DEF MngServe, Waits
<1>6. CASE MngDies
  <2>1. mng' \in MngRecord /\ mng'.at = "gone" /\ mng'.conn = mng.conn /\ mng'.state = mng.state
        /\ mng'.open = mng.open /\ UNCHANGED <<mngMain, backlog, client>>
    BY <1>6 DEF MngDies
  <2>2. mng.state # "stopped" /\ mngMain # "idle"
    BY <1>6 DEF MngDies
  <2> QED
    BY <2>1, <2>2
<1> QED
  BY <1>1, <1>2, <1>3, <1>4, <1>5, <1>6 DEF MngThreadStep

(* The main thread's steps.                                                  *)
LEMMA MngMainInv == MngIInv /\ (MngStart \/ MngStop \/ MngMainStep) => MngIInv'
<1> SUFFICES ASSUME MngIInv, MngStart \/ MngStop \/ MngMainStep
             PROVE  MngIInv'
  OBVIOUS
<1> USE MngAssumption
    DEF MngIInv, MngTypeOK, MngInv, SessionKept, Connected, MngRecord, ClientRecord, Waits
<1>1. CASE MngStart
  <2>1. CASE mng' = [mng EXCEPT !.open = TRUE, !.at = "begin"] /\ mngMain' = "start_wait"
    <3>1. mng' \in MngRecord /\ mng'.at = "begin" /\ mng'.state = mng.state
      BY <2>1
    <3>2. mng.at = "none" /\ mngMain = "idle" /\ UNCHANGED <<backlog, client>> /\ mng'.conn = mng.conn
      BY <1>1, <2>1 DEF MngStart
    <3>3. mng.state # "stopped"
      BY <3>2
    <3> QED
      BY <2>1, <3>1, <3>2, <3>3
  <2>2. CASE mngMain' = "failed" /\ UNCHANGED mng
    BY <1>1, <2>2 DEF MngStart
  <2> QED
    BY <1>1, <2>1, <2>2 DEF MngStart
<1>2. CASE MngStartWait
  BY <1>2 DEF MngStartWait
<1>3. CASE MngStop
  BY <1>3 DEF MngStop
<1>4. CASE MngStopWait
  BY <1>4 DEF MngStopWait
<1>5. CASE MngCancel
  BY <1>5 DEF MngCancel
<1>6. CASE MngClose
  <2>1. mng' \in MngRecord /\ mng'.at = mng.at /\ mng'.conn = mng.conn /\ mng'.state = mng.state
        /\ ~mng'.open
    BY <1>6 DEF MngClose
  <2>2. backlog' \in Seq(Clients) /\ mngMain' = "stopped" /\ client' = client
    BY <1>6 DEF MngClose
  <2> QED
    BY <2>1, <2>2
<1> QED
  BY <1>1, <1>2, <1>3, <1>4, <1>5, <1>6 DEF MngMainStep

ClientMoves(c) ==
    ClientStep(c) \/ ClientConnects(c) \/ OddRequest(c) \/ ClientLeaves(c) \/ ClientAgain(c)

(* The clients' steps: one that is ready or has asked is connected.          *)
LEMMA ClientInv ==
  ASSUME MngIInv, NEW c \in Clients, ClientMoves(c)
  PROVE  MngIInv'
<1> USE MngAssumption DEF MngIInv, MngTypeOK, MngInv, SessionKept, Connected, ClientRecord
<1>1. UNCHANGED <<mng, mngMain>>
  BY DEF ClientMoves, ClientStep, ClientAsks, ClientLosesConnection, ClientConnects, OddRequest,
         ClientLeaves, ClientAgain
<1>2. CASE ClientConnects(c)
  <2>1. /\ backlog' \in Seq(Clients) /\ Waits(c)'
        /\ \A d \in Clients : Waits(d) => Waits(d)'
    BY <1>2, JoinKeepsOthers DEF ClientConnects
  <2>2. client' \in [Clients -> ClientRecord] /\ \A d \in Clients \ {c} : client'[d] = client[d]
    BY <1>2 DEF ClientConnects
  <2> QED
    BY <1>1, <2>1, <2>2
<1>3. CASE ~ClientConnects(c)
  <2>1. backlog' = backlog
    BY <1>3 DEF ClientMoves, ClientStep, ClientAsks, ClientLosesConnection, OddRequest, ClientLeaves,
                ClientAgain
  <2>2. /\ client' = [client EXCEPT ![c] = client'[c]] /\ client'[c] \in ClientRecord
        /\ client'[c].at \in {"ready", "asked"} => Connected(c)
    <3>1. client[c] \in ClientRecord
      OBVIOUS
    <3>2. CASE ClientAsks(c)
      <4>1. CASE Connected(c) /\ (c \in Interactive \/ client[c].todo > 0)
        <5>1. PICK todo \in 0 .. MaxCommands :
                todo = IF c \in Interactive THEN client[c].todo ELSE client[c].todo - 1
          BY <3>1, <4>1
        <5>2. client' = [client EXCEPT ![c] = [at |-> "asked", todo |-> todo]]
          BY <3>2, <4>1, <5>1 DEF ClientAsks
        <5>3. client'[c] = [at |-> "asked", todo |-> todo]
          BY <5>2
        <5> QED
          BY <4>1, <5>2, <5>3
      <4>2. CASE ~(Connected(c) /\ (c \in Interactive \/ client[c].todo > 0))
        <5>1. client' = [client EXCEPT ![c] = [client[c] EXCEPT !.at = "ended"]]
          BY <3>2, <4>2 DEF ClientAsks
        <5>2. client'[c] = [client[c] EXCEPT !.at = "ended"]
          BY <5>1
        <5> QED
          BY <3>1, <5>1, <5>2
      <4> QED
        BY <4>1, <4>2
    <3>3. CASE ClientLosesConnection(c) \/ OddRequest(c) \/ ClientLeaves(c)
      <4>1. PICK at \in {"odd", "ended"} : client' = [client EXCEPT ![c] = [client[c] EXCEPT !.at = at]]
        BY <3>3 DEF ClientLosesConnection, OddRequest, ClientLeaves
      <4>2. client'[c] = [client[c] EXCEPT !.at = at]
        BY <4>1
      <4> QED
        BY <3>1, <4>1, <4>2
    <3>4. CASE ClientAgain(c)
      <4>1. PICK todo \in Queue(c) : client' = [client EXCEPT ![c] = [at |-> "away", todo |-> todo]]
        BY <3>4 DEF ClientAgain
      <4>2. todo \in 0 .. MaxCommands
        BY DEF Queue
      <4>3. client'[c] = [at |-> "away", todo |-> todo]
        BY <4>1
      <4> QED
        BY <4>1, <4>2, <4>3
    <3> QED
      BY <1>3, <3>2, <3>3, <3>4 DEF ClientMoves, ClientStep
  <2>3. /\ client' \in [Clients -> ClientRecord]
        /\ \A d \in Clients \ {c} : client'[d] = client[d]
    BY <2>2
  <2>4. \A d \in Clients : Connected(d) => Connected(d)'
    BY <1>1, <2>1 DEF Waits
  <2>5. ASSUME NEW d \in Clients, client'[d].at \in {"ready", "asked"}, mng.at # "gone",
               mngMain # "stopped"
        PROVE  Connected(d)'
    <3>1. CASE d = c
      BY <2>2, <2>4, <2>5, <3>1
    <3>2. CASE d # c
      <4>1. Connected(d)
        BY <2>3, <2>5, <3>2
      <4> QED
        BY <2>4, <4>1
    <3> QED
      BY <3>1, <3>2
  <2> HIDE DEF Connected
  <2> QED
    BY <1>1, <2>1, <2>3, <2>5
<1> QED
  BY <1>2, <1>3

LEMMA MngStepInv == MngIInv /\ [MngNext]_mngVars => MngIInv'
<1> SUFFICES ASSUME MngIInv, [MngNext]_mngVars
             PROVE  MngIInv'
  OBVIOUS
<1>1. CASE MngThreadStep
  BY <1>1, MngThreadInv
<1>2. CASE MngStart \/ MngStop \/ MngMainStep
  BY <1>2, MngMainInv
<1>3. ASSUME NEW c \in Clients, ClientMoves(c)
      PROVE  MngIInv'
  BY <1>3, ClientInv
<1>4. CASE UNCHANGED mngVars
  BY <1>4 DEF mngVars, MngIInv, MngTypeOK, MngInv, SessionKept, Connected, Waits
<1> QED
  BY <1>1, <1>2, <1>3, <1>4 DEF MngNext, ClientMoves

LEMMA MngSpecInv == MngSpec => []MngIInv
BY MngInitInv, MngStepInv, PTL DEF MngSpec

(* The types of the interface and its clients.                               *)
THEOREM MngTypes == MngSpec => []MngTypeOK
<1>1. MngIInv => MngTypeOK
  BY DEF MngIInv
<1> QED
  BY <1>1, MngSpecInv, PTL

(* A client keeps its connection until it ends or the interface stops.       *)
THEOREM SessionSafe == MngSpec => []SessionKept
<1>1. MngIInv => SessionKept
  BY DEF MngIInv
<1> QED
  BY <1>1, MngSpecInv, PTL

(* A stop in time leaves nothing open.                                       *)
THEOREM StopCloses == MngSpec => []NoConnectionLeft
<1>1. MngIInv => NoConnectionLeft
  BY DEF MngIInv, MngInv, NoConnectionLeft
<1> QED
  BY <1>1, MngSpecInv, PTL

-----------------------------------------------------------------------------
(* The life of the ports' threads, for any number of ports: what main() has  *)
(* closed and freed, no thread in time uses any more.  A wait for a thread   *)
(* tells that it has ended only as long as "stopped" is written by nothing   *)
(* else, so the invariant relates a port's descriptor to its thread          *)
(* (PortInv) and main()'s place to the descriptors closed so far (ClosedInv). *)

(* The thread does nothing any more. *)
Ended(p) == thread[p] \in {"none", "gone"} \/ Stuck(p)

PortInv == \A p \in Ports :
    /\ port[p].state = "stopped" => thread[p] = "gone"
    /\ thread[p] # "none" => port[p].fd # "none"
    /\ port[p].mem = "freed" => port[p].fd = "closed"
    /\ p \notin LatePorts /\ port[p].fd = "closed" => Ended(p)
    /\ port[p].fd = "lost" => p \in CheckedPorts \cup RxPorts

(* The ports are created in order. *)
MainInv ==
    /\ life.at \in Modules => life.port = 1
    /\ life.at \in Modules \cup {"create"} => \A p \in Ports : p >= life.port => thread[p] = "none"
    /\ life.at \in {"starting", "start_wait", "abort"} =>
           \A p \in Ports : p > life.port => thread[p] = "none"
    /\ life.at \in Modules \cup {"create", "starting", "start_wait", "abort"} => ~life.esmc
    /\ life.at = "stop" => life.port \in {1, NumTx + 1}
    /\ life.at \in {"monitor", "create", "starting", "start_wait"} => "control" \in live
    /\ life.esmc /\ life.at \notin {"device_deinit", "ended"} => "control" \in live

Closed(ps) == \A p \in ps : port[p].fd = "closed"

ClosedInv ==
    /\ life.at = "wait" => Closed({p \in Group(life.port) : p < life.port})
    /\ life.at = "free" => Closed(Group(life.port))
    /\ life.at \in {"stop", "wait", "free"} /\ life.port \in RxPorts => Closed(TxPorts)
    /\ life.at = "destroy" => Closed(Ports)
    /\ life.esmc /\ life.at \in {"monitor_deinit", "control_deinit", "device_deinit", "ended"} =>
           Closed(Ports)

LifeIInv == LifeTypeOK /\ PortInv /\ MainInv /\ ClosedInv
-----------------------------------------------------------------------------
LEMMA PortFacts ==
  /\ Ports \subseteq Nat \ {Nobody} /\ 1 \in TxPorts /\ 1 \notin RxPorts
  /\ NumTx + 1 \in RxPorts /\ TxPorts \cap RxPorts = {}
  /\ \A p \in Ports : p + 1 \in Ports => Group(p) \subseteq Ports
  /\ \A p \in Ports : p \in RxPorts <=> p > NumTx
BY LifeAssumption DEF Ports, TxPorts, RxPorts, Nobody, Group

(* What main() does to types. *)
LEMMA MainType ==
  ASSUME LifeTypeOK, MainStep \/ CallStack \/ LeaveLoop
  PROVE  LifeTypeOK'
<1> USE PortFacts DEF LifeTypeOK, PortData, MainAt, Modules, LifeTo, ThreadMoves
<1>1. CASE InitModule
  <2>1. life' = [life EXCEPT !.at = life'.at] /\ life'.at \in {"control", "monitor", "create", "end"}
    BY <1>1 DEF InitModule, AfterInit
  <2>2. life' \in [at : MainAt, port : Ports, esmc : BOOLEAN]
    BY <2>1
  <2> QED
    BY <1>1, <2>2 DEF InitModule
<1>2. CASE CreatePort
  BY <1>2, SMTT(60) DEF CreatePort, ThreadAt
<1>3. CASE LetThreadStart
  BY <1>3 DEF LetThreadStart, PortStates
<1>4. CASE PortStarted
  BY <1>4 DEF PortStarted
<1>5. CASE StartTimesOut
  BY <1>5, SMTT(60) DEF StartTimesOut, PortStates, Stopped
<1>6. CASE AbortStart
  BY <1>6 DEF AbortStart
<1>7. CASE CheckStarted
  BY <1>7 DEF CheckStarted
<1>8. CASE StartServices
  BY <1>8 DEF StartServices
<1>9. CASE SetBest
  BY <1>9 DEF SetBest
<1>10. CASE BeginDeinit
  <2>1. /\ life'.at \in {"stop", "monitor_deinit"} /\ life'.port \in {1, life.port}
        /\ life' = [life EXCEPT !.at = life'.at, !.port = life'.port]
    BY <1>10 DEF BeginDeinit
  <2>2. 1 \in Ports
    BY DEF Ports
  <2>3. life' \in [at : MainAt, port : Ports, esmc : BOOLEAN]
    BY <2>1, <2>2
  <2> QED
    BY <1>10, <2>3 DEF BeginDeinit
<1>11. CASE StopPorts
  BY <1>11 DEF StopPorts, PortStates, Stopped
<1>12. CASE ClosePort
  <2>1. /\ life'.at \in {"wait", "free"} /\ life'.port \in Ports
        /\ life' = [life EXCEPT !.at = life'.at, !.port = life'.port]
    BY <1>12 DEF ClosePort, Group, Ports
  <2>2. life' \in [at : MainAt, port : Ports, esmc : BOOLEAN]
    BY <2>1
  <2>3. port' \in [Ports -> PortData]
    BY <1>12 DEF ClosePort
  <2> QED
    BY <1>12, <2>2, <2>3 DEF ClosePort
<1>13. CASE FreePorts
  <2>1. /\ life'.at \in {"stop", "destroy"} /\ life'.port \in Ports
        /\ life' = [life EXCEPT !.at = life'.at, !.port = life'.port]
    BY <1>13 DEF FreePorts, Ports
  <2>2. life' \in [at : MainAt, port : Ports, esmc : BOOLEAN]
    BY <2>1
  <2>3. port' \in [Ports -> PortData]
    BY <1>13 DEF FreePorts
  <2> QED
    BY <1>13, <2>2, <2>3 DEF FreePorts
<1>14. CASE DestroyStack
  BY <1>14 DEF DestroyStack
<1>15. CASE DeinitModule
  BY <1>15 DEF DeinitModule, AfterDeinit, ModuleOf
<1>16. CASE CallStack
  BY <1>16 DEF CallStack
<1>17. CASE LeaveLoop
  BY <1>17 DEF LeaveLoop
<1> QED
  BY <1>1, <1>2, <1>3, <1>4, <1>5, <1>6, <1>7, <1>8, <1>9, <1>10, <1>11, <1>12, <1>13, <1>14, <1>15, <1>16, <1>17 DEF MainStep

(* Writing the link's state keeps the type of the ports.                     *)
LEMMA LinkType ==
  ASSUME NEW p \in Ports, port \in [Ports -> PortData]
  PROVE  [port EXCEPT ![p].down = ~@] \in [Ports -> PortData]
<1>1. PICK d \in BOOLEAN : d = ~port[p].down
  BY Zenon
<1>2. [port EXCEPT ![p].down = ~@] = [port EXCEPT ![p].down = d]
  BY <1>1, Zenon
<1> QED
  BY <1>2 DEF PortData

(* A thread's step changes types in no other way, and nothing of main()'s:   *)
(* no memory, of a descriptor only that an open one may get lost; it does    *)
(* not come back from its end, and writes "stopped" only as it ends.         *)
FdKept(q) ==
    \/ port'[q].fd = port[q].fd
    \/ port[q].fd = "open" /\ port'[q].fd = "lost" /\ q \in CheckedPorts \cup RxPorts

LEMMA ThreadKeeps ==
  ASSUME LifeTypeOK, PortInv, NEW p \in Ports, ThreadStep(p) \/ RxHasEvent(p) \/ TxWaitFails(p)
  PROVE  /\ LifeTypeOK'
         /\ UNCHANGED <<life, live>>
         /\ \A q \in Ports :
              /\ FdKept(q) /\ port'[q].mem = port[q].mem
              /\ thread'[q] = "none" <=> thread[q] = "none"
              /\ port'[q].state = "stopped" => thread'[q] = "gone"
              /\ Ended(q) => Ended(q)'
<1> USE PortFacts DEF LifeTypeOK, PortData, ThreadAt, PortStates, ThreadMoves, Ended, Stuck, PortInv, FdKept
<1>1. CASE ThreadStarts(p)
  BY <1>1 DEF ThreadStarts
<1>2. CASE LeavesLoop(p)
  BY <1>2 DEF LeavesLoop
<1>3. CASE TxTurn(p)
  BY <1>3 DEF TxTurn
<1>4. CASE TxWaits(p)
  BY <1>4 DEF TxWaits
<1>5. CASE TxWakes(p)
  BY <1>5 DEF TxWakes
<1>6. CASE TxLink(p)
  <2>1. p \in TxPorts /\ thread[p] = "send" /\ UNCHANGED <<life, live, callbacks, holder>>
    BY <1>6, Zenon DEF TxLink
  <2>2. PICK place \in {"loop", "event", "compose"} : thread' = [thread EXCEPT ![p] = place]
    BY <1>6 DEF TxLink
  <2>3. /\ thread' \in [Ports -> ThreadAt] /\ thread'[p] = place
        /\ \A q \in Ports \ {p} : thread'[q] = thread[q]
    BY <2>2
  <2>4. /\ port' \in [Ports -> PortData] /\ FdKept(p)
        /\ port'[p].mem = port[p].mem /\ port'[p].state = port[p].state
        /\ \A q \in Ports \ {p} : port'[q] = port[q]
    <3>1. CASE port' = [port EXCEPT ![p].down = ~@]
      <4>1. port' \in [Ports -> PortData]
        BY <3>1, LinkType DEF LifeTypeOK
      <4> QED
        BY <3>1, <4>1
    <3>2. CASE p \in CheckedPorts /\ port' = [port EXCEPT ![p].down = TRUE, ![p].fd = Lost(@)]
      <4>1. PICK fd \in {"none", "open", "lost", "closed"} : fd = Lost(port[p].fd)
        BY DEF Lost
      <4>2. port' = [port EXCEPT ![p] = [port[p] EXCEPT !.down = TRUE, !.fd = fd]]
        BY <3>2, <4>1
      <4>3. port[p] \in PortData
        BY DEF LifeTypeOK
      <4>4. PICK data \in PortData : data = [port[p] EXCEPT !.down = TRUE, !.fd = fd]
        BY <4>3
      <4>5. data.fd = fd /\ data.mem = port[p].mem /\ data.state = port[p].state
        BY <4>3, <4>4
      <4>6. port' = [port EXCEPT ![p] = data]
        BY <4>2, <4>4
      <4>7. /\ port'[p] = data /\ port' \in [Ports -> PortData]
            /\ \A q \in Ports \ {p} : port'[q] = port[q]
        BY <4>6
      <4> QED
        BY <3>2, <4>1, <4>5, <4>7 DEF Lost
    <3>3. CASE UNCHANGED port
      BY <3>3
    <3> QED
      BY <1>6, <3>1, <3>2, <3>3 DEF TxLink
  <2> QED
    BY <2>1, <2>3, <2>4
<1>7. CASE TxSends(p)
  BY <1>7 DEF TxSends
<1>8. CASE EventChecks(p)
  BY <1>8 DEF EventChecks, AfterEvent
<1>9. CASE EventCalls(p)
  BY <1>9 DEF EventCalls, AfterEvent
<1>10. CASE RxHasEvent(p)
  <2>1. /\ thread[p] = "loop" /\ p \in RxPorts /\ port[p].state = "started"
        /\ UNCHANGED <<life, live, callbacks, holder>>
    BY <1>10, Zenon DEF RxHasEvent
  <2>2. PICK place \in {"loop", "event"} : thread' = [thread EXCEPT ![p] = place]
    BY <1>10, <2>1 DEF RxHasEvent
  <2>3. /\ thread' \in [Ports -> ThreadAt] /\ thread'[p] = place
        /\ \A q \in Ports \ {p} : thread'[q] = thread[q]
    BY <2>2
  <2>4. /\ port' \in [Ports -> PortData] /\ FdKept(p)
        /\ port'[p].mem = port[p].mem /\ port'[p].state = port[p].state
        /\ \A q \in Ports \ {p} : port'[q] = port[q]
    <3>1. CASE port' = [port EXCEPT ![p].fd = Lost(@)]
      BY <2>1, <3>1 DEF Lost
    <3>2. CASE UNCHANGED port
      BY <3>2
    <3> QED
      BY <1>10, <3>1, <3>2 DEF RxHasEvent
  <2> QED
    BY <2>1, <2>3, <2>4
<1>11. CASE TxWaitFails(p)
  BY <1>11 DEF TxWaitFails
<1> QED
  BY <1>1, <1>2, <1>3, <1>4, <1>5, <1>6, <1>7, <1>8, <1>9, <1>10, <1>11 DEF ThreadStep

(* main() closes a descriptor only when the wait for its thread is over, and *)
(* frees memory only of ports it has closed.                                 *)
LEMMA MainPorts ==
  ASSUME LifeIInv, MainStep \/ CallStack \/ LeaveLoop
  PROVE  PortInv'
<1> USE PortFacts DEF LifeIInv, LifeTypeOK, PortInv
<1>1. CASE CreatePort
  <2> DEFINE p == life.port
  <2>1. p \in Ports /\ thread[p] = "none" /\ holder' = holder
    BY <1>1 DEF CreatePort, MainInv
  <2>2. CASE UNCHANGED <<port, thread>>
    BY <2>1, <2>2 DEF Ended, Stuck
  <2>3. CASE /\ port' = [port EXCEPT ![p].mem = "live", ![p].fd = "open"]
             /\ thread' = [thread EXCEPT ![p] = "waiting"]
    <3>1. port[p].state # "stopped"
      BY <2>1
    <3>2. /\ port'[p].state = port[p].state /\ port'[p].mem = "live" /\ port'[p].fd = "open"
          /\ \A q \in Ports \ {p} : port'[q] = port[q] /\ thread'[q] = thread[q]
      BY <2>1, <2>3
    <3>3. ASSUME NEW q \in Ports, q # p
          PROVE  Ended(q) => Ended(q)'
      BY <2>1, <3>2, <3>3 DEF Ended, Stuck
    <3> QED
      BY <2>1, <3>1, <3>2, <3>3
  <2> QED
    BY <1>1, <2>2, <2>3 DEF CreatePort, ThreadMoves
<1>2. CASE LetThreadStart
  BY <1>2 DEF LetThreadStart, Ended, Stuck
<1>3. CASE StartTimesOut
  BY <1>3 DEF StartTimesOut, Stopped, Ended, Stuck
<1>4. CASE AbortStart
  BY <1>4 DEF AbortStart, WaitOver, Ended, Stuck
<1>5. CASE StopPorts
  BY <1>5 DEF StopPorts, Stopped, Ended, Stuck
<1>6. CASE ClosePort
  BY <1>6 DEF ClosePort, WaitOver, Ended, Stuck
<1>7. CASE FreePorts
  BY <1>7 DEF FreePorts, ClosedInv, Closed, Group, Ended, Stuck
<1>8. CASE InitModule \/ PortStarted \/ CheckStarted \/ StartServices \/ SetBest
             \/ BeginDeinit \/ DestroyStack \/ DeinitModule \/ CallStack \/ LeaveLoop
  <2>1. UNCHANGED <<port, thread, holder>>
    BY <1>8 DEF InitModule, PortStarted, CheckStarted, StartServices, SetBest, BeginDeinit, DestroyStack, DeinitModule, CallStack, LeaveLoop
  <2> QED
    BY <2>1 DEF Ended, Stuck
<1> QED
  BY <1>1, <1>2, <1>3, <1>4, <1>5, <1>6, <1>7, <1>8 DEF MainStep

(* The order in which main() creates the ports, and the modules' lives.      *)
LEMMA MainOrder ==
  ASSUME LifeIInv, MainStep \/ CallStack \/ LeaveLoop
  PROVE  MainInv'
<1> USE PortFacts DEF LifeIInv, LifeTypeOK, MainInv, LifeTo
<1>1. CASE InitModule
  BY <1>1 DEF InitModule, AfterInit, Modules
<1>2. CASE CreatePort
  BY <1>2 DEF CreatePort, ThreadMoves, Modules
<1>3. CASE LetThreadStart
  BY <1>3 DEF LetThreadStart, Modules
<1>4. CASE PortStarted
  BY <1>4 DEF PortStarted, Modules
<1>5. CASE StartTimesOut
  BY <1>5 DEF StartTimesOut, Modules
<1>6. CASE AbortStart
  BY <1>6 DEF AbortStart, Modules
<1>7. CASE CheckStarted
  BY <1>7 DEF CheckStarted, Modules
<1>8. CASE StartServices
  BY <1>8 DEF StartServices, Modules
<1>9. CASE SetBest
  BY <1>9 DEF SetBest, Modules
<1>10. CASE BeginDeinit
  <2>1. life.at = "end" /\ live' = live
    BY <1>10, Zenon DEF BeginDeinit
  <2>2. CASE life.esmc
    <3>1. life' = [life EXCEPT !.at = "stop", !.port = 1]
      BY <1>10, <2>2, Zenon DEF BeginDeinit
    <3>2. life'.at = "stop" /\ life'.port = 1
      BY <3>1
    <3> QED
      BY <2>1, <2>2, <3>2 DEF Modules
  <2>3. CASE ~life.esmc
    <3>1. life' = [life EXCEPT !.at = "monitor_deinit"]
      BY <1>10, <2>3, Zenon DEF BeginDeinit
    <3>2. life'.at = "monitor_deinit" /\ life'.esmc = life.esmc
      BY <3>1
    <3> QED
      BY <2>1, <2>3, <3>2 DEF Modules
  <2> QED
    BY <2>2, <2>3
<1>11. CASE StopPorts
  BY <1>11 DEF StopPorts, Modules
<1>12. CASE ClosePort
  BY <1>12 DEF ClosePort, Modules
<1>13. CASE FreePorts
  BY <1>13 DEF FreePorts, Modules
<1>14. CASE DestroyStack
  BY <1>14 DEF DestroyStack, Modules
<1>15. CASE DeinitModule
  BY <1>15 DEF DeinitModule, AfterDeinit, ModuleOf, Modules
<1>16. CASE CallStack
  BY <1>16 DEF CallStack, Modules
<1>17. CASE LeaveLoop
  BY <1>17 DEF LeaveLoop, Modules
<1> QED
  BY <1>1, <1>2, <1>3, <1>4, <1>5, <1>6, <1>7, <1>8, <1>9, <1>10, <1>11, <1>12, <1>13, <1>14, <1>15, <1>16, <1>17 DEF MainStep

(* What is closed at each place of esmc_adaptor_deinit and after it.         *)
LEMMA MainCloses ==
  ASSUME LifeIInv, MainStep \/ CallStack \/ LeaveLoop
  PROVE  ClosedInv'
<1> USE PortFacts DEF LifeIInv, LifeTypeOK, ClosedInv, Closed, LifeTo
<1>1. CASE InitModule
  BY <1>1 DEF InitModule, AfterInit, Modules
<1>2. CASE CreatePort
  BY <1>2 DEF CreatePort, MainInv
<1>3. CASE LetThreadStart
  BY <1>3 DEF LetThreadStart
<1>4. CASE PortStarted
  BY <1>4 DEF PortStarted, MainInv
<1>5. CASE StartTimesOut
  BY <1>5 DEF StartTimesOut
<1>6. CASE AbortStart
  BY <1>6 DEF AbortStart
<1>7. CASE CheckStarted
  BY <1>7 DEF CheckStarted
<1>8. CASE StartServices
  BY <1>8 DEF StartServices
<1>9. CASE SetBest
  BY <1>9 DEF SetBest
<1>10. CASE BeginDeinit
  <2>1. \/ life'.at = "stop" /\ life'.port = 1
        \/ life'.at = "monitor_deinit" /\ ~life'.esmc
    BY <1>10 DEF BeginDeinit
  <2> QED
    BY <2>1
<1>11. CASE StopPorts
  BY <1>11 DEF StopPorts, MainInv, TxPorts, RxPorts, Group, Ports
<1>12. CASE ClosePort
  <2> DEFINE p == life.port
  <2>1. /\ p \in Ports /\ port'[p].fd = "closed"
        /\ \A q \in Ports \ {p} : port'[q].fd = port[q].fd
    BY <1>12 DEF ClosePort
  <2>2. \A q \in Ports : port[q].fd = "closed" => port'[q].fd = "closed"
    BY <2>1
  <2>3. life.at = "wait" /\ Group(p) \subseteq Ports /\ (p \in RxPorts => Closed(TxPorts))
        /\ \A q \in Group(p) : q < p => port[q].fd = "closed"
    BY <1>12 DEF ClosePort, Group, Ports
  <2>4. \A q \in Group(p) : q < p + 1 => port'[q].fd = "closed"
    <3> SUFFICES ASSUME NEW q \in Group(p), q < p + 1
                 PROVE  port'[q].fd = "closed"
      OBVIOUS
    <3>1. q \in Nat /\ p \in Nat /\ q \in Ports
      BY <2>1, <2>3
    <3>2. q < p \/ q = p
      BY <3>1
    <3> QED
      BY <2>1, <2>2, <2>3, <3>1, <3>2
  <2>5. CASE p + 1 \in Group(p)
    <3>1. /\ life'.at = "wait" /\ life'.port = p + 1 /\ life'.esmc = life.esmc
          /\ Group(p + 1) = Group(p)
      BY <1>12, <2>5 DEF ClosePort, Group
    <3>2. p + 1 \in RxPorts => p \in RxPorts
      BY <2>1, <2>5 DEF Group, Ports
    <3> QED
      BY <2>2, <2>3, <2>4, <3>1, <3>2 DEF Ports
  <2>6. CASE p + 1 \notin Group(p)
    <3>1. life'.at = "free" /\ life'.port = p /\ life'.esmc = life.esmc
      BY <1>12, <2>6 DEF ClosePort
    <3>2. \A q \in Group(p) : q < p + 1
      BY <2>6, LifeAssumption DEF Group, TxPorts, RxPorts, Ports
    <3> QED
      BY <2>2, <2>3, <2>4, <3>1, <3>2 DEF Ports
  <2> QED
    BY <2>5, <2>6
<1>13. CASE FreePorts
  BY <1>13 DEF FreePorts, TxPorts, RxPorts, Group, Ports
<1>14. CASE DestroyStack
  BY <1>14 DEF DestroyStack
<1>15. CASE DeinitModule
  BY <1>15 DEF DeinitModule, AfterDeinit, ModuleOf
<1>16. CASE CallStack
  BY <1>16 DEF CallStack
<1>17. CASE LeaveLoop
  BY <1>17 DEF LeaveLoop
<1> QED
  BY <1>1, <1>2, <1>3, <1>4, <1>5, <1>6, <1>7, <1>8, <1>9, <1>10, <1>11, <1>12, <1>13, <1>14, <1>15, <1>16, <1>17 DEF MainStep

(* A thread changes nothing that MainInv and ClosedInv speak of.             *)
LEMMA ThreadInv ==
  ASSUME LifeIInv, NEW p \in Ports, ThreadStep(p) \/ RxHasEvent(p) \/ TxWaitFails(p)
  PROVE  LifeIInv'
<1>1. /\ LifeTypeOK' /\ life' = life /\ live' = live
      /\ \A q \in Ports :
           /\ FdKept(q) /\ port'[q].mem = port[q].mem
           /\ thread'[q] = "none" <=> thread[q] = "none"
           /\ port'[q].state = "stopped" => thread'[q] = "gone"
           /\ Ended(q) => Ended(q)'
  BY ThreadKeeps DEF LifeIInv
<1>2. PortInv'
  BY <1>1 DEF LifeIInv, PortInv, FdKept
<1>3. MainInv'
  BY <1>1 DEF LifeIInv, MainInv
<1>4. ClosedInv'
  <2>1. \A ps \in SUBSET Ports : Closed(ps) => Closed(ps)'
    BY <1>1 DEF Closed, FdKept
  <2>2. /\ Group(life.port) \subseteq Ports /\ TxPorts \subseteq Ports
        /\ {q \in Group(life.port) : q < life.port} \subseteq Ports
    BY DEF Group, Ports
  <2> QED
    BY <1>1, <2>1, <2>2 DEF LifeIInv, ClosedInv
<1> QED
  BY <1>1, <1>2, <1>3, <1>4 DEF LifeIInv

LEMMA LifeInitInv == LifeInit => LifeIInv
<1> SUFFICES ASSUME LifeInit
             PROVE  LifeIInv
  OBVIOUS
<1>1. LifeTypeOK
  BY PortFacts DEF LifeInit, LifeTypeOK, PortData, MainAt, Modules, PortStates, ThreadAt, Ports
<1>2. \A p \in Ports : /\ port[p].state = "unknown" /\ port[p].fd = "none" /\ port[p].mem = "none"
                       /\ thread[p] = "none"
  BY DEF LifeInit
<1>3. life.at = "device" /\ life.port = 1 /\ ~life.esmc
  BY DEF LifeInit
<1> QED
  BY <1>1, <1>2, <1>3 DEF LifeIInv, PortInv, MainInv, ClosedInv, Modules

LEMMA LifeStepInv == LifeIInv /\ [LifeNext]_lifeVars => LifeIInv'
<1> SUFFICES ASSUME LifeIInv, [LifeNext]_lifeVars
             PROVE  LifeIInv'
  OBVIOUS
<1>1. CASE MainStep \/ CallStack \/ LeaveLoop
  BY <1>1, MainType, MainPorts, MainOrder, MainCloses DEF LifeIInv
<1>2. ASSUME NEW p \in Ports, ThreadStep(p) \/ RxHasEvent(p) \/ TxWaitFails(p)
      PROVE  LifeIInv'
  BY <1>2, ThreadInv
<1>3. CASE UNCHANGED lifeVars
  BY <1>3 DEF lifeVars, LifeIInv, LifeTypeOK, PortData, PortInv, MainInv, ClosedInv, Closed, Ended, Stuck
<1> QED
  BY <1>1, <1>2, <1>3 DEF LifeNext

LEMMA LifeSpecInv == LifeSpec => []LifeIInv
BY LifeInitInv, LifeStepInv, PTL DEF LifeSpec

(* The types of main(), its modules, the ports and the threads.              *)
THEOREM LifeTypes == LifeSpec => []LifeTypeOK
<1>1. LifeIInv => LifeTypeOK
  BY DEF LifeIInv
<1> QED
  BY <1>1, LifeSpecInv, PTL

(* A port's memory is freed only when its thread, if in time, is over.       *)
THEOREM MemorySafe == LifeSpec => []MemoryOutlivesThread
<1>1. LifeIInv => MemoryOutlivesThread
  BY DEF LifeIInv, PortInv, Ended, MemoryOutlivesThread
<1> QED
  BY <1>1, LifeSpecInv, PTL

(* main() closes the descriptor under no thread in time: it is open, or lost *)
(* by a look at the link that the thread itself took.                        *)
THEOREM DescriptorSafe == LifeSpec => []DescriptorOutlivesThread
<1>1. LifeIInv => DescriptorOutlivesThread
  BY DEF LifeIInv, LifeTypeOK, PortData, PortInv, Ended, DescriptorOutlivesThread
<1> QED
  BY <1>1, LifeSpecInv, PTL

(* A thread in time calls back into a control module that is still there.    *)
THEOREM ControlSafe == LifeSpec => []ControlOutlivesEvents
<1>1. LifeIInv => ControlOutlivesEvents
  <2> SUFFICES ASSUME LifeIInv, NEW p \in Ports \ LatePorts, life.esmc, thread[p] = "call"
               PROVE  "control" \in live
    BY DEF ControlOutlivesEvents
  <2>1. ~Ended(p)
    BY DEF Ended, Stuck
  <2>2. life.at \notin {"device_deinit", "ended"}
    BY <2>1 DEF LifeIInv, PortInv, ClosedInv, Closed
  <2> QED
    BY <2>2 DEF LifeIInv, MainInv
<1> QED
  BY <1>1, LifeSpecInv, PTL
=============================================================================
