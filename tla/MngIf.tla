-------------------------------- MODULE MngIf --------------------------------
(***************************************************************************)
(* The management interface, src/management/mng_if.c: a thread that serves *)
(* one TCP client at a time, for as long as the client stays, and the main *)
(* thread's start and stop of it; with its clients, synced_cli.c: in       *)
(* command-line mode, with a queue of commands to run one after the other  *)
(* and then end, or interactive, at a prompt until the operator leaves.    *)
(* A client may be killed at any time, one that ended be run again, and an *)
(* OddClient, another program, send an API code the interface does not     *)
(* know.                                                                   *)
(*                                                                         *)
(* A stop whose wait ran out requests the thread's cancellation and closes *)
(* the listening socket without waiting for it: the thread goes on to its  *)
(* next cancellation point, which is accept(), recvmsg(), send() or the    *)
(* close() of the connection.                                              *)
(***************************************************************************)
EXTENDS Naturals, Sequences

CONSTANTS
    Clients, OddClients,
    Interactive,    (* the clients at a prompt                               *)
    MaxCommands,    (* COMMAND_QUEUE_SIZE                                    *)
    MngLate         (* may a wait of 2 s run out though the thread can go on *)

NoClient == "none"

ASSUME MngAssumption ==
    /\ NoClient \notin Clients /\ OddClients \subseteq Clients /\ Interactive \subseteq Clients
    /\ MaxCommands \in Nat \ {0} /\ MngLate \in BOOLEAN

VARIABLES
    mng,          (* g_mng_if_fd, the thread's state, its place and conn_fd,
                     and whether its cancellation is requested               *)
    mngMain,      (* where mng_if_start and mng_if_stop are                  *)
    backlog,      (* the clients that are connected but not accepted yet, in
                     the order they came                                     *)
    client        (* where each client is, and its queue's length            *)

mngVars == <<mng, mngMain, backlog, client>>

(* How many commands a client may be run with; one at a prompt has no queue. *)
Queue(c) == IF c \in Interactive THEN {0} ELSE 1 .. MaxCommands

MngInit ==
    /\ mng = [open |-> FALSE, state |-> "not_started", at |-> "none", conn |-> NoClient,
              cancelled |-> FALSE]
    /\ mngMain = "idle"
    /\ backlog = << >>
    /\ client \in [Clients -> [at : {"away"}, todo : 0 .. MaxCommands]]
    /\ \A c \in Clients : client[c].todo \in Queue(c)
-----------------------------------------------------------------------------
(* mng_if_thread. *)

MngThreadStarts ==
    /\ mng.at = "begin"
    /\ mng' = [mng EXCEPT !.state = "started", !.at = "top"]
    /\ UNCHANGED <<mngMain, backlog, client>>

NextCall == IF mng.conn = NoClient THEN "accept" ELSE "receive"

(* Mutant: the client's connection is left open when the thread stops.       *)
StopLeavesConnection ==
    /\ mng.at = "top"
    /\ mng' = IF mng.state = "stopping" THEN [mng EXCEPT !.state = "stopped", !.at = "gone"]
              ELSE [mng EXCEPT !.at = NextCall]
    /\ UNCHANGED <<mngMain, backlog, client>>

MngTop ==
    /\ mng.at = "top"
    /\ mng.cancelled => mng.state # "stopping" \/ mng.conn = NoClient
    /\ mng' = IF mng.state = "stopping"
              THEN [mng EXCEPT !.state = "stopped", !.at = "gone", !.conn = NoClient]
              ELSE [mng EXCEPT !.at = NextCall]
    /\ UNCHANGED <<mngMain, backlog, client>>

Accept ==
    /\ mng' = [mng EXCEPT !.at = "top", !.conn = Head(backlog)]
    /\ backlog' = Tail(backlog)

(* Mutant: a new client is accepted while another is served.                 *)
AcceptOver ==
    /\ mng.at \in {"accept", "receive"} /\ backlog # << >> /\ Accept
    /\ UNCHANGED <<mngMain, client>>

(* create_new_connection: the first of the backlog, or nobody within 50 ms.  *)
MngAccept ==
    /\ mng.at = "accept" /\ ~mng.cancelled
    /\ \/ backlog # << >> /\ Accept
       \/ /\ backlog = << >>
          /\ mng' = [mng EXCEPT !.at = "top"]
          /\ UNCHANGED backlog
    /\ UNCHANGED <<mngMain, client>>

(* Mutant: the connection of a client that ended is kept.                    *)
KeepEnded ==
    /\ mng.at = "receive"
    /\ mng' = [mng EXCEPT !.at = IF client[mng.conn].at = "asked" THEN "serve" ELSE "top"]
    /\ UNCHANGED <<mngMain, backlog>>
    /\ client' = [client EXCEPT ![mng.conn].at = IF @ = "odd" THEN "hangs" ELSE @]

(* respond_to_request: the client ended, nothing came within 50 ms, or a     *)
(* request; one with an unknown API code is not answered.                    *)
MngReceive ==
    /\ mng.at = "receive" /\ ~mng.cancelled
    /\ LET at == client[mng.conn].at IN
       /\ mng' = [mng EXCEPT !.at   = IF at = "asked" THEN "serve" ELSE "top",
                             !.conn = IF at = "ended" THEN NoClient ELSE @]
       /\ client' = [client EXCEPT ![mng.conn].at = IF at = "odd" THEN "hangs" ELSE at]
    /\ UNCHANGED <<mngMain, backlog>>

(* The request is handled by management.c, and answered if the client is     *)
(* still there.                                                              *)
MngServe ==
    /\ mng.at = "serve" /\ ~mng.cancelled
    /\ mng' = [mng EXCEPT !.at = "top"]
    /\ client' = [client EXCEPT ![mng.conn].at = IF @ = "asked" THEN "ready" ELSE @]
    /\ UNCHANGED <<mngMain, backlog>>

(* A cancelled thread comes to a cancellation point: a request it still has  *)
(* is handled and not answered, its connection is never closed.              *)
MngDies ==
    /\ mng.cancelled
    /\ \/ mng.at \in {"accept", "receive", "serve"}
       \/ mng.at = "top" /\ mng.state = "stopping" /\ mng.conn # NoClient
    /\ mng' = [mng EXCEPT !.at = "gone"]
    /\ UNCHANGED <<mngMain, backlog, client>>

MngThreadStep ==
    MngThreadStarts \/ MngTop \/ MngAccept \/ MngReceive \/ MngServe \/ MngDies
-----------------------------------------------------------------------------
(* The main thread. *)

(* mng_if_start: the listening socket, then the thread; either may fail.     *)
MngStart ==
    /\ mngMain = "idle"
    /\ \/ /\ mng' = [mng EXCEPT !.open = TRUE, !.at = "begin"]
          /\ mngMain' = "start_wait"
       \/ /\ mngMain' = "failed"
          /\ UNCHANGED mng
    /\ UNCHANGED <<backlog, client>>

MngStartWait ==
    /\ mngMain = "start_wait"
    /\ mng.state # "not_started" \/ MngLate
    /\ mngMain' = "running"
    /\ UNCHANGED <<mng, backlog, client>>

(* mng_if_stop, which does nothing if nothing was opened.                    *)
MngStop ==
    /\ mngMain \in {"idle", "running", "failed"}
    /\ mngMain' = IF mng.open THEN "stop_wait" ELSE "stopped"
    /\ mng' = IF mng.open THEN [mng EXCEPT !.state = "stopping"] ELSE mng
    /\ UNCHANGED <<backlog, client>>

(* At most 2 s. *)
MngStopWait ==
    /\ mngMain = "stop_wait"
    /\ mng.state = "stopped" \/ MngLate
    /\ mngMain' = "cancel"
    /\ UNCHANGED <<mng, backlog, client>>

MngCancel ==
    /\ mngMain = "cancel"
    /\ mng' = [mng EXCEPT !.cancelled = TRUE]
    /\ mngMain' = "close"
    /\ UNCHANGED <<backlog, client>>

(* The listening socket is closed with the clients of its backlog.           *)
MngClose ==
    /\ mngMain = "close"
    /\ mng' = [mng EXCEPT !.open = FALSE]
    /\ backlog' = << >>
    /\ mngMain' = "stopped"
    /\ UNCHANGED client

MngMainStep == MngStartWait \/ MngStopWait \/ MngCancel \/ MngClose
-----------------------------------------------------------------------------
(* The clients, main() of synced_cli.c. *)

Waits(c)     == \E i \in 1 .. Len(backlog) : backlog[i] = c
Connected(c) == Waits(c) \/ mng.conn = c

(* connect() succeeds before the interface accepts.                          *)
ClientConnects(c) ==
    /\ client[c].at = "away" /\ mng.open
    /\ client' = [client EXCEPT ![c].at = "ready"]
    /\ backlog' = Append(backlog, c)
    /\ UNCHANGED <<mng, mngMain>>

(* The next command of the queue or of the prompt is sent; with no more in   *)
(* the queue, or the connection lost, the client ends.                       *)
ClientAsks(c) ==
    /\ client[c].at = "ready"
    /\ client' = [client EXCEPT ![c] =
                    IF Connected(c) /\ (c \in Interactive \/ @.todo > 0)
                    THEN [at |-> "asked", todo |-> IF c \in Interactive THEN @.todo ELSE @.todo - 1]
                    ELSE [@ EXCEPT !.at = "ended"]]
    /\ UNCHANGED <<mng, mngMain, backlog>>

ClientLosesConnection(c) ==
    /\ client[c].at \in {"asked", "odd", "hangs"} /\ ~Connected(c)
    /\ client' = [client EXCEPT ![c].at = "ended"]
    /\ UNCHANGED <<mng, mngMain, backlog>>

OddRequest(c) ==
    /\ c \in OddClients /\ client[c].at = "ready" /\ Connected(c)
    /\ client' = [client EXCEPT ![c].at = "odd"]
    /\ UNCHANGED <<mng, mngMain, backlog>>

(* "exit" at the prompt, or the client is killed, at whatever it is.         *)
ClientLeaves(c) ==
    /\ client[c].at \in {"ready", "asked", "odd", "hangs"}
    /\ client' = [client EXCEPT ![c].at = "ended"]
    /\ UNCHANGED <<mng, mngMain, backlog>>

(* It is run again, once the interface has seen the end of its connection.   *)
ClientAgain(c) ==
    /\ client[c].at = "ended" /\ ~Connected(c)
    /\ \E todo \in Queue(c) : client' = [client EXCEPT ![c] = [at |-> "away", todo |-> todo]]
    /\ UNCHANGED <<mng, mngMain, backlog>>

ClientStep(c) == ClientAsks(c) \/ ClientLosesConnection(c)

MngNext ==
    \/ MngThreadStep \/ MngMainStep \/ MngStart \/ MngStop
    \/ \E c \in Clients :
         ClientStep(c) \/ ClientConnects(c) \/ OddRequest(c) \/ ClientLeaves(c) \/ ClientAgain(c)

MngSpec == MngInit /\ [][MngNext]_mngVars

(* The threads are scheduled for ever, and so are the clients in command-    *)
(* line mode, which run their queue and end (synced_cli.c:713-720).  Nothing *)
(* makes the operator at a prompt enter a command, or leave.                 *)
FairMngSpec ==
    /\ MngSpec
    /\ WF_mngVars(MngThreadStep) /\ WF_mngVars(MngMainStep)
    /\ \A c \in Clients \ Interactive : WF_mngVars(ClientStep(c))
-----------------------------------------------------------------------------
MngTypeOK ==
    /\ mng \in [open : BOOLEAN, state : {"not_started", "started", "stopping", "stopped"},
                at : {"none", "begin", "top", "accept", "receive", "serve", "gone"},
                conn : Clients \cup {NoClient}, cancelled : BOOLEAN]
    /\ mngMain \in {"idle", "start_wait", "running", "stop_wait", "cancel", "close", "stopped",
                    "failed"}
    /\ backlog \in Seq(Clients)
    /\ client \in [Clients -> [at : {"away", "ready", "asked", "odd", "hangs", "ended"},
                               todo : 0 .. MaxCommands]]

(* mng_if.c:236-240, 87-100: a client keeps its connection from connect() on *)
(* until it ends or the interface stops: a second one cannot take the thread *)
(* from it, and no time-out of accept() or recvmsg() costs it the connection.*)
SessionKept ==
    \A c \in Clients :
        client[c].at \in {"ready", "asked"} /\ mng.at # "gone" /\ mngMain # "stopped" => Connected(c)

(* The clients that may keep the connection for as long as they like.        *)
MayStay == Interactive \cup OddClients

(* mng_if.c:68-241, synced_cli.c:690-786: a client that waits gets its turn, *)
(* however often the others come back, since those in command-line mode end  *)
(* when their commands are done, and provided that none at a prompt, or that *)
(* asked what the interface does not answer, keeps the connection for ever.  *)
ClientsServedInTurn ==
    \A c \in Clients :
        []<>(mng.conn \notin MayStay) =>
            (Waits(c) ~> mng.conn = c \/ mngMain \in {"stop_wait", "cancel", "close", "stopped"})

(* mng_if.c:228-234, 341-350: a stop that found the thread in time leaves    *)
(* neither the listening socket nor a client's connection open.              *)
NoConnectionLeft == mngMain = "stopped" /\ mng.state = "stopped" => ~mng.open /\ mng.conn = NoClient
=============================================================================
