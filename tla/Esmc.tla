--------------------------------- MODULE Esmc ---------------------------------
(***************************************************************************)
(* The ESMC stack of src/esmc/renesas: the best QL of g_esmc (esmc.c), the  *)
(* TX threads that advertise it and the RX threads that store the extended  *)
(* QL TLV it is advertised with (port.c).                                   *)
(*                                                                         *)
(* best_ql_mutex protects best_ql and the bundle, and nothing else: the TX  *)
(* threads read best_port_num and best_ext_ql_tlv_data without it while the *)
(* main thread stores them one after the other, and esmc_set_best_ql reads  *)
(* the TLV of an RX thread while that may write it.  A racing read gets old *)
(* and new parts of the TLV, which are here its "counts" and its originator.*)
(*                                                                         *)
(* An event PDU (after a broadcast) and an information PDU (after the       *)
(* heartbeat) differ in one flag only, so the model does not tell them      *)
(* apart.  A QL that can be sent has an SSM code (EsmcSsm).                 *)
(***************************************************************************)
EXTENDS Integers, FiniteSets

CONSTANTS
    TxPorts, RxPorts,    (* port numbers                                     *)
    CheckedPorts,        (* TX ports that watch their link (TX-only ports)   *)
    LoQl, DoNotUseQl, MaxQl,
    BestQls, RxQls,      (* QLs the monitor may set, and a neighbour send    *)
    Bundles,             (* bundles a selected port may belong to            *)
    Originators,         (* clock identities neighbours send, null or not    *)
    RxCascades           (* cascaded clock counts a neighbour may send       *)

NoPort  == -1            (* INVALID_PORT_NUM *)
NullId  == "null"
OwnId   == "own"
MaxHops == 255

ASSUME EsmcAssumption ==
    /\ TxPorts \subseteq Nat /\ RxPorts \subseteq Nat /\ CheckedPorts \subseteq TxPorts
    /\ DoNotUseQl \in Nat /\ MaxQl \in Nat /\ LoQl \in 0 .. DoNotUseQl /\ DoNotUseQl < MaxQl
    /\ BestQls \subseteq 0 .. LoQl /\ RxQls \subseteq 0 .. MaxQl - 1
    /\ Bundles \subseteq SUBSET TxPorts
    /\ RxCascades \subseteq [eEEC: 0 .. 255, EEC: 0 .. 255]

VARIABLES
    best,      (* of g_esmc: best_ql, best_port_num, port_tx_bundle_info and *)
               (* best_ext_ql_tlv_data                                       *)
    main,      (* the main thread; it holds best_ql_mutex unless it is idle  *)
    tx,        (* the TX threads with their locals                           *)
    up,        (* is the link of a TX port up                                *)
    rx,        (* the RX threads with their locals                           *)
    tlv,       (* ext_ql_tlv of each RX port                                 *)
    enhanced   (* ext_ql_tlv_received_flag of each RX port                   *)

vars == <<best, main, tx, up, rx, tlv, enhanced>>
rxVars == <<rx, tlv, enhanced>>

Counts == [eEEC: Nat, EEC: Nat]
Ids    == Originators \cup {NullId, OwnId}
Tlv    == [counts: Counts, id: Ids]

(* What a neighbour sends: a PDU without the TLV is parsed as zeros. *)
NoTlv == [counts |-> [eEEC |-> 0, EEC |-> 0], id |-> NullId]
RxPdus ==
    [ql: RxQls, enhanced: {TRUE}, tlv: [counts: RxCascades, id: Originators]]
    \cup [ql: RxQls, enhanced: {FALSE}, tlv: {NoTlv}]

FirstCounts == [eEEC |-> 1, EEC |-> 0]

(* "disturbed" is history: has a selection been stored since the thread     *)
(* began to compose?                                                        *)
IdleTx == [at |-> "top", port |-> NoPort, ql |-> LoQl, tlv |-> NoTlv, copied |-> {},
           disturbed |-> FALSE]
IdleRx(q) == [at |-> "poll", lastQl |-> q, ql |-> MaxQl, enhanced |-> FALSE, tlv |-> NoTlv, given |-> 0]

Init ==
    /\ best = [ql |-> LoQl, port |-> NoPort, bundle |-> {},
               tlv |-> [counts |-> FirstCounts, id |-> NullId]]
    /\ main = [at |-> "idle", enhanced |-> FALSE]
    /\ tx = [p \in TxPorts |-> IdleTx]
    /\ up = [p \in TxPorts |-> TRUE]
    /\ rx = [p \in RxPorts |-> IdleRx(MaxQl)]
    /\ tlv = [p \in RxPorts |-> [counts |-> FirstCounts, id |-> NullId]]
    /\ enhanced = [p \in RxPorts |-> FALSE]
-----------------------------------------------------------------------------
(* esmc_set_best_ql, called by the main thread: under the mutex it stores   *)
(* the selection and then, part by part, the TLV the TX threads copy.       *)

(* A selection that is stored while a TX thread composes disturbs it. *)
Disturbed(l) == IF l.at \in {"ql", "tlv", "send"} THEN [l EXCEPT !.disturbed = TRUE] ELSE l

SetBestQl(ql, p, bundle) ==
    /\ main.at = "idle"
    /\ best' = [best EXCEPT !.ql = ql, !.port = p, !.bundle = bundle]
    /\ main' = [main EXCEPT !.at = "counts"]
    /\ tx' = [q \in TxPorts |-> Disturbed(tx[q])]
    /\ UNCHANGED <<up, rxVars>>

(* The TLVs of RX port p a racing reader may find parts of. *)
TlvsSeen(p) == {tlv[p]} \cup (IF rx[p].at = "store" THEN {rx[p].tlv} ELSE {})

(* port_get_rx_ext_ql_tlv_data: a neighbour that sends no TLV counts as one *)
(* EEC.  Without a port the device is the first clock of the chain.         *)
CountsSeen ==
    CASE best.port = NoPort      -> {FirstCounts}
      [] best.port # NoPort /\ ~enhanced[best.port] -> {[eEEC |-> 0, EEC |-> 1]}
      [] OTHER                   -> {t.counts : t \in TlvsSeen(best.port)}

(* The counts are stored as the neighbour sent them. *)
StoreCounts ==
    /\ main.at = "counts"
    /\ \E c \in CountsSeen : best' = [best EXCEPT !.tlv.counts = c]
    /\ main' = [at |-> "id", enhanced |-> best.port # NoPort /\ enhanced[best.port]]
    /\ UNCHANGED <<tx, up, rxVars>>

StoreId ==
    /\ main.at = "id"
    /\ \E i \in IF main.enhanced THEN {t.id : t \in TlvsSeen(best.port)} ELSE {NullId} :
         best' = [best EXCEPT !.tlv.id = i]
    /\ main' = [at |-> IF best.port = NoPort THEN "wake" ELSE "count", enhanced |-> FALSE]
    /\ UNCHANGED <<tx, up, rxVars>>

(* Mutant: a chain without an originator is not counted on. *)
CountSelf_OfTlv ==
    /\ main.at = "count"
    /\ best' = [best EXCEPT !.tlv.counts.eEEC = IF best.tlv.id = NullId THEN @ ELSE @ + 1]
    /\ main' = [main EXCEPT !.at = "wake"]
    /\ UNCHANGED <<tx, up, rxVars>>

(* Only now is this device one more eEEC. *)
CountSelf ==
    /\ main.at = "count"
    /\ best' = [best EXCEPT !.tlv.counts.eEEC = @ + 1]
    /\ main' = [main EXCEPT !.at = "wake"]
    /\ UNCHANGED <<tx, up, rxVars>>

Wake(p) == IF tx[p].at = "waiting" THEN [tx[p] EXCEPT !.at = "woken"] ELSE tx[p]

(* The broadcast, and the mutex is free. *)
Broadcast ==
    /\ main.at = "wake"
    /\ tx' = [q \in TxPorts |-> Wake(q)]
    /\ main' = [main EXCEPT !.at = "idle"]
    /\ UNCHANGED <<best, up, rxVars>>

MainThread == StoreCounts \/ StoreId \/ CountSelf \/ Broadcast
-----------------------------------------------------------------------------
(* The TX thread of port p.  It waits for a broadcast or the heartbeat; a   *)
(* broadcast that comes while it does anything else is lost to it.  It      *)
(* needs the mutex to begin the wait and to end it.                         *)

MutexFree == main.at = "idle"

TxTo(p, place) == tx' = [tx EXCEPT ![p].at = place]

BeginWait(p) ==
    /\ tx[p].at = "top" /\ MutexFree
    /\ TxTo(p, "waiting")
    /\ UNCHANGED <<best, main, up, rxVars>>

(* Mutant: only a broadcast makes the thread send. *)
Heartbeat_WaitsOn(p) == tx[p].at = "waiting" /\ UNCHANGED vars

Heartbeat(p) ==
    /\ tx[p].at = "waiting" /\ MutexFree
    /\ TxTo(p, "woken")
    /\ UNCHANGED <<best, main, up, rxVars>>

(* A port that watches its link sends nothing while it is down. *)
SkipLinkDown(p) ==
    /\ tx[p].at = "woken" /\ p \in CheckedPorts /\ ~up[p]
    /\ tx' = [tx EXCEPT ![p] = IdleTx]
    /\ UNCHANGED <<best, main, up, rxVars>>

(* esmc_compose_pdu reads best_port_num before it locks the mutex. *)
ReadBestPort(p) ==
    /\ tx[p].at = "woken" /\ (p \in CheckedPorts => up[p])
    /\ tx' = [tx EXCEPT ![p].at = "ql", ![p].port = best.port,
                        ![p].disturbed = ~MutexFree]
    /\ UNCHANGED <<best, main, up, rxVars>>

(* The QL of port p: nothing is sent back to where the clock comes from. *)
QlOf(p) == IF p \in best.bundle THEN DoNotUseQl ELSE best.ql

ReadBestQl(p) ==
    /\ tx[p].at = "ql" /\ MutexFree
    /\ tx' = [tx EXCEPT ![p].at = "tlv", ![p].ql = QlOf(p)]
    /\ UNCHANGED <<best, main, up, rxVars>>

(* The parts of the TLV are copied in an order of the compiler's choice. *)
Copy(p, part, t) ==
    /\ part \notin tx[p].copied
    /\ tx' = [tx EXCEPT ![p].tlv = t, ![p].copied = @ \cup {part},
                        ![p].at = IF tx[p].copied = {} THEN "tlv" ELSE "send"]

CopyTlv(p) ==
    /\ tx[p].at = "tlv"
    /\ \/ Copy(p, "counts", [counts |-> best.tlv.counts, id |-> tx[p].tlv.id])
       \/ Copy(p, "id", [counts |-> tx[p].tlv.counts, id |-> best.tlv.id])
    /\ UNCHANGED <<best, main, up, rxVars>>

(* The PDU the thread sends.  Its counts are bytes of the PDU. *)
PduOf(l) ==
    [ql |-> l.ql, id |-> IF l.port = NoPort \/ l.tlv.id = NullId THEN OwnId ELSE l.tlv.id,
     counts |-> [eEEC |-> l.tlv.counts.eEEC % 256, EEC |-> l.tlv.counts.EEC % 256]]

Send(p) ==
    /\ tx[p].at = "send"
    /\ tx' = [tx EXCEPT ![p] = IdleTx]
    /\ UNCHANGED <<best, main, up, rxVars>>
-----------------------------------------------------------------------------
(* The RX thread of port p. *)

HopsOf(counts) ==
    LET n == counts.eEEC + counts.EEC IN IF n > MaxHops THEN MaxHops ELSE n

(* A valid PDU.  With a new QL the callback is given the cascaded counts if *)
(* the TLV changed, too, and zeros if it did not.                           *)
Receive(p, pdu) ==
    /\ rx[p].at = "poll"
    /\ IF pdu.ql = rx[p].lastQl
       THEN rx' = [rx EXCEPT ![p].at = "flag", ![p].enhanced = pdu.enhanced]
       ELSE rx' = [rx EXCEPT ![p] =
              [at |-> IF pdu.enhanced THEN "store" ELSE "report", lastQl |-> rx[p].lastQl,
               ql |-> pdu.ql, enhanced |-> pdu.enhanced, tlv |-> pdu.tlv,
               given |-> IF pdu.enhanced /\ pdu.tlv # tlv[p] THEN HopsOf(pdu.tlv.counts) ELSE 0]]
    /\ UNCHANGED <<best, main, tx, up, tlv, enhanced>>

Store(p) ==
    /\ rx[p].at = "store"
    /\ tlv' = [tlv EXCEPT ![p] = rx[p].tlv]
    /\ rx' = [rx EXCEPT ![p].at = "report"]
    /\ UNCHANGED <<best, main, tx, up, enhanced>>

Report(p) ==
    /\ rx[p].at = "report"
    /\ rx' = [rx EXCEPT ![p] = [IdleRx(rx[p].ql) EXCEPT !.at = "flag", !.enhanced = rx[p].enhanced]]
    /\ UNCHANGED <<best, main, tx, up, tlv, enhanced>>

SetFlag(p) ==
    /\ rx[p].at = "flag"
    /\ enhanced' = [enhanced EXCEPT ![p] = rx[p].enhanced]
    /\ rx' = [rx EXCEPT ![p] = IdleRx(rx[p].lastQl)]
    /\ UNCHANGED <<best, main, tx, up, tlv>>

(* A time-out or the loss of the link makes the next PDU one with a new QL, *)
(* and keeps the TLV.                                                       *)
Lose(p) ==
    /\ rx[p].at = "poll"
    /\ rx' = [rx EXCEPT ![p] = IdleRx(MaxQl)]
    /\ UNCHANGED <<best, main, tx, up, tlv, enhanced>>
-----------------------------------------------------------------------------
LinkChange(p) ==
    /\ up' = [up EXCEPT ![p] = ~@]
    /\ UNCHANGED <<best, main, tx, rxVars>>

TxThread(p) ==
    \/ BeginWait(p) \/ Heartbeat(p) \/ SkipLinkDown(p) \/ ReadBestPort(p) \/ ReadBestQl(p)
    \/ CopyTlv(p) \/ Send(p)

RxThread(p) ==
    \/ \E pdu \in RxPdus : Receive(p, pdu)
    \/ Store(p) \/ Report(p) \/ SetFlag(p) \/ Lose(p)

Next ==
    \/ \E ql \in BestQls, p \in RxPorts \cup {NoPort}, b \in Bundles : SetBestQl(ql, p, b)
    \/ MainThread
    \/ \E p \in TxPorts : TxThread(p)
    \/ \E p \in CheckedPorts : LinkChange(p)
    \/ \E p \in RxPorts : RxThread(p)

Spec == Init /\ [][Next]_vars

(* The heartbeat comes, the TX threads run and the main thread ends what it *)
(* has begun.                                                               *)
FairSpec == Spec /\ WF_vars(MainThread) /\ \A p \in TxPorts : WF_vars(TxThread(p))
-----------------------------------------------------------------------------
TxLocals == [at: {"top", "waiting", "woken", "ql", "tlv", "send"}, port: RxPorts \cup {NoPort},
             ql: 0 .. MaxQl, tlv: Tlv, copied: SUBSET {"counts", "id"}, disturbed: BOOLEAN]

RxLocals == [at: {"poll", "store", "report", "flag"}, lastQl: 0 .. MaxQl, ql: 0 .. MaxQl,
             enhanced: BOOLEAN, tlv: Tlv, given: 0 .. MaxHops]

TypeOK ==
    /\ best \in [ql: 0 .. MaxQl, port: RxPorts \cup {NoPort}, bundle: SUBSET TxPorts, tlv: Tlv]
    /\ main \in [at: {"idle", "counts", "id", "count", "wake"}, enhanced: BOOLEAN]
    /\ tx \in [TxPorts -> TxLocals]
    /\ up \in [TxPorts -> BOOLEAN]
    /\ rx \in [RxPorts -> RxLocals]
    /\ tlv \in [RxPorts -> Tlv]
    /\ enhanced \in [RxPorts -> BOOLEAN]

(* The PDU of the best QL for port p, and is it what the port sends?        *)
BestPdu(p) == PduOf([ql |-> QlOf(p), port |-> best.port, tlv |-> best.tlv])
Current(p) == tx[p].at = "send" => PduOf(tx[p]) = BestPdu(p)

(* esmc.c:1090-1120 against 1028-1051 and port.c:757-773: a PDU may be      *)
(* composed of two selections, or of a TLV that does not count this device  *)
(* yet, but only while a selection is stored: every other PDU is wholly     *)
(* that of the best QL, and counts this device, whatever the RX thread had  *)
(* stored of its TLV and its flag when the main thread took them.           *)
UndisturbedPduIsBest ==
    \A p \in TxPorts : tx[p].at = "send" /\ ~tx[p].disturbed =>
        Current(p) /\ PduOf(tx[p]).counts.eEEC >= 1

(* esmc.c:1022-1051 against port.c:300-345: though a TX thread misses a     *)
(* broadcast while it composes or sends, and may compose of two selections  *)
(* or of half of one, every port ends up advertising the best QL only, with *)
(* its TLV, and do-not-use back to the bundle it comes from, and does so    *)
(* again and again while its link is up.                                    *)
BestReachesPorts ==
    <>[][best' = best /\ main' = main /\ up' = up]_vars =>
        \A p \in TxPorts : <>[]Current(p) /\ []<>(up[p] => tx[p].at = "send")

(* control.c:227 "Total number of hops (sum of cascaded eEEC and EEC        *)
(* clocks": the hops the control module is given with a QL are those of the *)
(* TLV that came with it.                                                   *)
HopsOfReport ==
    \A p \in RxPorts :
        rx[p].at = "report" /\ rx[p].enhanced => rx[p].given = HopsOf(rx[p].tlv.counts)
=============================================================================
