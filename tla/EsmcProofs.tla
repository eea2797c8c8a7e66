------------------------------ MODULE EsmcProofs ------------------------------
(***************************************************************************)
(* What the PDUs of the ESMC stack carry, for every set of ports, QLs and   *)
(* neighbours and every interleaving of the TX, RX and main threads.        *)
(***************************************************************************)
EXTENDS Esmc, TLAPS

(* The initial values of threads and TLVs and the inputs have their types.  *)
LEMMA ConstantTypes ==
    /\ NoTlv \in Tlv /\ FirstCounts \in Counts
    /\ IdleTx \in TxLocals
    /\ \A q \in 0 .. MaxQl : IdleRx(q) \in RxLocals
    /\ \A c \in Counts : HopsOf(c) \in 0 .. MaxHops
    /\ RxPdus \subseteq [ql: 0 .. MaxQl, enhanced: BOOLEAN, tlv: Tlv]
<1>1. NoTlv \in Tlv /\ FirstCounts \in Counts
  BY DEF NoTlv, FirstCounts, Tlv, Counts, Ids
<1>2. IdleTx \in TxLocals
  BY <1>1, EsmcAssumption DEF IdleTx, TxLocals
<1>3. \A q \in 0 .. MaxQl : IdleRx(q) \in RxLocals
  BY <1>1, EsmcAssumption DEF IdleRx, RxLocals, MaxHops
<1>4. \A c \in Counts : HopsOf(c) \in 0 .. MaxHops
  BY DEF HopsOf, Counts, MaxHops
<1>5. RxPdus \subseteq [ql: 0 .. MaxQl, enhanced: BOOLEAN, tlv: Tlv]
  <2>1. RxCascades \subseteq Counts
    BY EsmcAssumption DEF Counts
  <2>2. [counts: RxCascades, id: Originators] \subseteq Tlv
    BY <2>1 DEF Tlv, Ids
  <2>3. RxQls \subseteq 0 .. MaxQl
    BY EsmcAssumption
  <2>4. QED
    BY <1>1, <2>2, <2>3 DEF RxPdus
<1>6. QED
  BY <1>1, <1>2, <1>3, <1>4, <1>5

(* The parts of a TLV taken while it is stored are parts of a TLV. *)
LEMMA SeenType ==
    ASSUME TypeOK, NEW p \in RxPorts
    PROVE  TlvsSeen(p) \subseteq Tlv /\ TlvsSeen(p) \subseteq {tlv[p], rx[p].tlv}
<1>1. tlv[p] \in Tlv /\ rx[p].tlv \in Tlv
  BY DEF TypeOK, RxLocals
<1>2. QED
  BY <1>1 DEF TlvsSeen

LEMMA CountsSeenType ==
    ASSUME TypeOK
    PROVE  CountsSeen \subseteq Counts
<1>1. CASE best.port = NoPort
  BY <1>1, ConstantTypes DEF CountsSeen
<1>2. CASE best.port # NoPort /\ ~enhanced[best.port]
  BY <1>2 DEF CountsSeen, Counts
<1>3. CASE best.port # NoPort /\ enhanced[best.port]
  <2>1. best.port \in RxPorts
    BY <1>3 DEF TypeOK
  <2>2. \A t \in TlvsSeen(best.port) : t.counts \in Counts
    BY <2>1, SeenType DEF Tlv
  <2>3. CountsSeen = {t.counts : t \in TlvsSeen(best.port)}
    BY <1>3 DEF CountsSeen
  <2>4. QED
    BY <2>2, <2>3
<1>4. QED
  BY <1>1, <1>2, <1>3

LEMMA InitType == Init => TypeOK
<1> SUFFICES ASSUME Init PROVE TypeOK
  OBVIOUS
<1>1. NullId \in Ids
  BY DEF Ids
<1>2. [counts |-> FirstCounts, id |-> NullId] \in Tlv
  BY <1>1, ConstantTypes DEF Tlv
<1>3. LoQl \in 0 .. MaxQl /\ MaxQl \in 0 .. MaxQl
  BY EsmcAssumption
<1>4. QED
  BY <1>2, <1>3, ConstantTypes DEF Init, TypeOK

(* The locals of a TX thread keep their types. *)
LEMMA TxLocalsKept ==
    ASSUME NEW l \in TxLocals
    PROVE  /\ \A a \in {"waiting", "woken"} : [l EXCEPT !.at = a] \in TxLocals
           /\ [l EXCEPT !.disturbed = TRUE] \in TxLocals
           /\ \A q \in RxPorts \cup {NoPort}, b \in BOOLEAN :
                [l EXCEPT !.at = "ql", !.port = q, !.disturbed = b] \in TxLocals
           /\ \A q \in 0 .. MaxQl : [l EXCEPT !.at = "tlv", !.ql = q] \in TxLocals
           /\ \A part \in {"counts", "id"}, t \in Tlv, a \in {"tlv", "send"} :
                [l EXCEPT !.tlv = t, !.copied = @ \cup {part}, !.at = a] \in TxLocals
<1>1. ASSUME NEW a \in {"waiting", "woken"}
      PROVE  [l EXCEPT !.at = a] \in TxLocals
  BY DEF TxLocals
<1>2. [l EXCEPT !.disturbed = TRUE] \in TxLocals
  BY DEF TxLocals
<1>3. ASSUME NEW q \in RxPorts \cup {NoPort}, NEW b \in BOOLEAN
      PROVE  [l EXCEPT !.at = "ql", !.port = q, !.disturbed = b] \in TxLocals
  BY DEF TxLocals
<1>4. ASSUME NEW q \in 0 .. MaxQl
      PROVE  [l EXCEPT !.at = "tlv", !.ql = q] \in TxLocals
  BY DEF TxLocals
<1>5. ASSUME NEW part \in {"counts", "id"}, NEW t \in Tlv, NEW a \in {"tlv", "send"}
      PROVE  [l EXCEPT !.tlv = t, !.copied = @ \cup {part}, !.at = a] \in TxLocals
  BY DEF TxLocals
<1>6. QED
  BY <1>1, <1>2, <1>3, <1>4, <1>5

(* The locals of an RX thread keep their types, and their TLV. *)
LEMMA RxLocalsKept ==
    ASSUME NEW l \in RxLocals, NEW b \in BOOLEAN
    PROVE  /\ [l EXCEPT !.at = "flag", !.enhanced = b] \in RxLocals
           /\ [l EXCEPT !.at = "report"] \in RxLocals
           /\ [l EXCEPT !.at = "flag", !.enhanced = b].tlv = l.tlv
           /\ [l EXCEPT !.at = "report"].tlv = l.tlv
<1>1. /\ [l EXCEPT !.at = "flag", !.enhanced = b] \in RxLocals
      /\ [l EXCEPT !.at = "flag", !.enhanced = b].tlv = l.tlv
  BY DEF RxLocals
<1>2. [l EXCEPT !.at = "report"] \in RxLocals /\ [l EXCEPT !.at = "report"].tlv = l.tlv
  BY DEF RxLocals
<1>3. QED
  BY <1>1, <1>2

(* What "best" may be. *)
BestType == [ql: 0 .. MaxQl, port: RxPorts \cup {NoPort}, bundle: SUBSET TxPorts, tlv: Tlv]

(* The main thread takes the parts of a TLV only of a port.                 *)
TakesOfPort == main.enhanced => main.at = "id" /\ best.port # NoPort

(* A step of the main thread keeps the types.                               *)
LEMMA MainTypeStep ==
    ASSUME TypeOK, TakesOfPort, MainThread
    PROVE  TypeOK' /\ TakesOfPort'
<1> DEFINE MainType == [at: {"idle", "counts", "id", "count", "wake"}, enhanced: BOOLEAN]
<1>1. /\ best \in BestType /\ main \in MainType
      /\ best.tlv \in Tlv /\ best.tlv.counts \in Counts /\ best.tlv.id \in Ids
      /\ best.port \in RxPorts \cup {NoPort}
      /\ enhanced \in [RxPorts -> BOOLEAN]
  BY DEF TypeOK, BestType, Tlv
<1>2. CASE StoreCounts
  <2>1. PICK c \in Counts : best' = [best EXCEPT !.tlv.counts = c]
    BY <1>2, CountsSeenType DEF StoreCounts
  <2>2. best' \in BestType /\ best'.port = best.port
    BY <1>1, <2>1 DEF BestType, Tlv
  <2>3. main' = [at |-> "id", enhanced |-> best.port # NoPort /\ enhanced[best.port]]
    BY <1>2 DEF StoreCounts
  <2>4. (best.port # NoPort /\ enhanced[best.port]) \in BOOLEAN
    OBVIOUS
  <2>5. main' \in MainType
    BY <2>3, <2>4
  <2>6. TakesOfPort'
    BY <2>2, <2>3 DEF TakesOfPort
  <2>7. QED
    BY <1>2, <2>2, <2>5, <2>6 DEF StoreCounts, TypeOK, BestType, rxVars
<1>3. CASE StoreId
  <2>1. PICK i \in IF main.enhanced THEN {t.id : t \in TlvsSeen(best.port)} ELSE {NullId} :
          best' = [best EXCEPT !.tlv.id = i]
    BY <1>3 DEF StoreId
  <2>2. i \in Ids
    <3>1. CASE main.enhanced
      <4>1. best.port \in RxPorts
        BY <1>1, <3>1 DEF TakesOfPort
      <4>2. PICK t \in TlvsSeen(best.port) : i = t.id
        BY <2>1, <3>1
      <4>3. QED
        BY <4>1, <4>2, SeenType DEF Tlv
    <3>2. CASE ~main.enhanced
      BY <2>1, <3>2 DEF Ids
    <3>3. QED
      BY <3>1, <3>2
  <2>3. best' \in BestType
    BY <1>1, <2>1, <2>2 DEF BestType, Tlv
  <2>4. main' \in MainType /\ TakesOfPort'
    BY <1>3 DEF StoreId, TakesOfPort
  <2>5. QED
    BY <1>3, <2>3, <2>4 DEF StoreId, TypeOK, BestType, rxVars
<1>4. CASE CountSelf
  <2>1. best.tlv.counts.eEEC + 1 \in Nat
    BY <1>1 DEF Counts
  <2>2. best' = [best EXCEPT !.tlv.counts.eEEC = best.tlv.counts.eEEC + 1]
    BY <1>4 DEF CountSelf
  <2>3. best' \in BestType
    BY <1>1, <2>1, <2>2 DEF BestType, Tlv, Counts
  <2>4. main' \in MainType /\ TakesOfPort'
    BY <1>1, <1>4 DEF CountSelf, TakesOfPort
  <2>5. QED
    BY <1>4, <2>3, <2>4 DEF CountSelf, TypeOK, BestType, rxVars
<1>5. CASE Broadcast
  <2>1. \A q \in TxPorts : Wake(q) \in TxLocals
    BY TxLocalsKept DEF Wake, TypeOK
  <2>2. tx' \in [TxPorts -> TxLocals]
    BY <1>5, <2>1 DEF Broadcast
  <2>3. main' \in MainType /\ TakesOfPort'
    BY <1>1, <1>5 DEF Broadcast, TakesOfPort
  <2>4. QED
    BY <1>5, <2>2, <2>3 DEF Broadcast, TypeOK, rxVars
<1>6. QED
  BY <1>2, <1>3, <1>4, <1>5 DEF MainThread

(* A step of a TX thread keeps the types.                                   *)
LEMMA TxTypeStep ==
    ASSUME TypeOK, NEW p \in TxPorts, TxThread(p)
    PROVE  TypeOK'
<1>1. tx[p] \in TxLocals /\ tx \in [TxPorts -> TxLocals]
  BY DEF TypeOK
<1>2. tx' \in [TxPorts -> TxLocals]
  <2>1. CASE BeginWait(p) \/ Heartbeat(p)
    <3>1. PICK a \in {"waiting", "woken"} : tx' = [tx EXCEPT ![p] = [tx[p] EXCEPT !.at = a]]
      BY <2>1 DEF BeginWait, Heartbeat, TxTo
    <3>2. QED
      BY <1>1, <3>1, TxLocalsKept
  <2>2. CASE SkipLinkDown(p) \/ Send(p)
    BY <1>1, <2>2, ConstantTypes DEF SkipLinkDown, Send
  <2>3. CASE ReadBestPort(p)
    <3>1. best.port \in RxPorts \cup {NoPort} /\ (~MutexFree) \in BOOLEAN
      BY DEF TypeOK, MutexFree
    <3>2. [tx[p] EXCEPT !.at = "ql", !.port = best.port, !.disturbed = ~MutexFree] \in TxLocals
      BY <1>1, <3>1, TxLocalsKept
    <3>3. tx' = [tx EXCEPT ![p] = [tx[p] EXCEPT !.at = "ql", !.port = best.port,
                                                !.disturbed = ~MutexFree]]
      BY <2>3 DEF ReadBestPort
    <3>4. QED
      BY <1>1, <3>2, <3>3
  <2>4. CASE ReadBestQl(p)
    <3>1. QlOf(p) \in 0 .. MaxQl
      BY EsmcAssumption DEF QlOf, TypeOK
    <3>2. [tx[p] EXCEPT !.at = "tlv", !.ql = QlOf(p)] \in TxLocals
      BY <1>1, <3>1, TxLocalsKept
    <3>3. tx' = [tx EXCEPT ![p] = [tx[p] EXCEPT !.at = "tlv", !.ql = QlOf(p)]]
      BY <2>4 DEF ReadBestQl
    <3>4. QED
      BY <1>1, <3>2, <3>3
  <2>5. CASE CopyTlv(p)
    <3>1. tx[p].tlv \in Tlv /\ best.tlv \in Tlv
      BY <1>1 DEF TxLocals, TypeOK
    <3>2. ASSUME NEW part \in {"counts", "id"}, NEW t \in Tlv, Copy(p, part, t)
          PROVE  tx' \in [TxPorts -> TxLocals]
      <4>1. tx' = [tx EXCEPT ![p] = [tx[p] EXCEPT
                     !.tlv = t, !.copied = @ \cup {part},
                     !.at = IF tx[p].copied = {} THEN "tlv" ELSE "send"]]
        BY <3>2 DEF Copy
      <4>2. QED
        BY <1>1, <4>1, TxLocalsKept
    <3>3. /\ [counts |-> best.tlv.counts, id |-> tx[p].tlv.id] \in Tlv
          /\ [counts |-> tx[p].tlv.counts, id |-> best.tlv.id] \in Tlv
      BY <3>1 DEF Tlv
    <3>4. QED
      BY <2>5, <3>2, <3>3 DEF CopyTlv
  <2>6. QED
    BY <2>1, <2>2, <2>3, <2>4, <2>5 DEF TxThread
<1>3. UNCHANGED <<best, main, up, rxVars>>
  BY DEF TxThread, BeginWait, Heartbeat, SkipLinkDown, ReadBestPort, ReadBestQl, CopyTlv, Send
<1>4. QED
  BY <1>2, <1>3 DEF TypeOK, rxVars

(* A step of an RX thread keeps the types.                                  *)
LEMMA RxTypeStep ==
    ASSUME TypeOK, NEW p \in RxPorts, RxThread(p)
    PROVE  TypeOK'
<1> USE DEF TypeOK
<1>1. ASSUME NEW pdu \in RxPdus, Receive(p, pdu) PROVE TypeOK'
  <2>1. pdu \in [ql: 0 .. MaxQl, enhanced: BOOLEAN, tlv: Tlv]
    BY ConstantTypes
  <2>2. (IF pdu.enhanced /\ pdu.tlv # tlv[p] THEN HopsOf(pdu.tlv.counts) ELSE 0) \in 0 .. MaxHops
    BY <2>1, ConstantTypes DEF Tlv, MaxHops
  <2>3. CASE pdu.ql = rx[p].lastQl
    <3>1. rx' = [rx EXCEPT ![p] = [rx[p] EXCEPT !.at = "flag", !.enhanced = pdu.enhanced]]
      BY <1>1, <2>3 DEF Receive
    <3>2. [rx[p] EXCEPT !.at = "flag", !.enhanced = pdu.enhanced] \in RxLocals
      BY <2>1, RxLocalsKept
    <3>3. QED
      BY <1>1, <3>1, <3>2 DEF Receive
  <2>4. CASE pdu.ql # rx[p].lastQl
    <3>1. [at |-> IF pdu.enhanced THEN "store" ELSE "report", lastQl |-> rx[p].lastQl,
           ql |-> pdu.ql, enhanced |-> pdu.enhanced, tlv |-> pdu.tlv,
           given |-> IF pdu.enhanced /\ pdu.tlv # tlv[p]
                     THEN HopsOf(pdu.tlv.counts) ELSE 0] \in RxLocals
      BY <2>1, <2>2 DEF RxLocals
    <3>2. QED
      BY <1>1, <2>4, <3>1 DEF Receive
  <2>5. QED
    BY <2>3, <2>4
<1>2. CASE Store(p)
  <2>1. rx[p] \in RxLocals /\ rx[p].tlv \in Tlv
    BY DEF RxLocals
  <2>2. [rx[p] EXCEPT !.at = "report"] \in RxLocals
    BY <2>1, RxLocalsKept
  <2>3. rx' = [rx EXCEPT ![p] = [rx[p] EXCEPT !.at = "report"]]
    BY <1>2 DEF Store
  <2>4. QED
    BY <1>2, <2>1, <2>2, <2>3 DEF Store
<1>3. CASE Report(p)
  <2>1. rx[p] \in RxLocals
    OBVIOUS
  <2>2. IdleRx(rx[p].ql) \in RxLocals /\ rx[p].enhanced \in BOOLEAN
    BY <2>1, ConstantTypes DEF RxLocals
  <2>3. [IdleRx(rx[p].ql) EXCEPT !.at = "flag", !.enhanced = rx[p].enhanced] \in RxLocals
    BY <2>2, RxLocalsKept
  <2>4. QED
    BY <1>3, <2>1, <2>3 DEF Report
<1>4. CASE SetFlag(p)
  <2>1. rx[p].lastQl \in 0 .. MaxQl /\ rx[p].enhanced \in BOOLEAN
    BY DEF RxLocals
  <2>2. QED
    BY <1>4, <2>1, ConstantTypes DEF SetFlag
<1>5. CASE Lose(p)
  <2>1. MaxQl \in 0 .. MaxQl
    BY EsmcAssumption
  <2>2. QED
    BY <1>5, <2>1, ConstantTypes DEF Lose
<1>6. QED
  BY <1>1, <1>2, <1>3, <1>4, <1>5 DEF RxThread

(* Every step keeps the types.                                              *)
LEMMA TypeStep == TypeOK /\ TakesOfPort /\ [Next]_vars => TypeOK' /\ TakesOfPort'
<1> SUFFICES ASSUME TypeOK, TakesOfPort, [Next]_vars PROVE TypeOK' /\ TakesOfPort'
  OBVIOUS
<1>1. ASSUME NEW ql \in BestQls, NEW p \in RxPorts \cup {NoPort}, NEW b \in Bundles,
             SetBestQl(ql, p, b)
      PROVE  TypeOK' /\ TakesOfPort'
  <2>1. ql \in 0 .. MaxQl /\ b \in SUBSET TxPorts
    BY EsmcAssumption
  <2>2. \A q \in TxPorts : Disturbed(tx[q]) \in TxLocals
    BY TxLocalsKept DEF Disturbed, TypeOK
  <2>3. best' \in BestType
    BY <1>1, <2>1 DEF SetBestQl, TypeOK, BestType
  <2>4. main' \in [at: {"idle", "counts", "id", "count", "wake"}, enhanced: BOOLEAN]
    BY <1>1 DEF SetBestQl, TypeOK
  <2>5. ~main.enhanced /\ main'.enhanced = main.enhanced
    BY <1>1 DEF SetBestQl, TakesOfPort, TypeOK
  <2>6. QED
    BY <1>1, <2>2, <2>3, <2>4, <2>5 DEF SetBestQl, TypeOK, BestType, TakesOfPort, rxVars
<1>2. CASE MainThread
  BY <1>2, MainTypeStep
<1>3. ASSUME NEW p \in TxPorts, TxThread(p) PROVE TypeOK' /\ TakesOfPort'
  <2>1. UNCHANGED <<best, main>>
    BY <1>3 DEF TxThread, BeginWait, Heartbeat, SkipLinkDown, ReadBestPort, ReadBestQl, CopyTlv, Send
  <2>2. QED
    BY <1>3, <2>1, TxTypeStep DEF TakesOfPort
<1>4. ASSUME NEW p \in CheckedPorts, LinkChange(p) PROVE TypeOK' /\ TakesOfPort'
  BY <1>4 DEF LinkChange, TypeOK, TakesOfPort, rxVars
<1>5. ASSUME NEW p \in RxPorts, RxThread(p) PROVE TypeOK' /\ TakesOfPort'
  <2>1. UNCHANGED <<best, main>>
    BY <1>5 DEF RxThread, Receive, Store, Report, SetFlag, Lose
  <2>2. QED
    BY <1>5, <2>1, RxTypeStep DEF TakesOfPort
<1>6. CASE UNCHANGED vars
  BY <1>6 DEF vars, TypeOK, TakesOfPort
<1>7. QED
  BY <1>1, <1>2, <1>3, <1>4, <1>5, <1>6 DEF Next
-----------------------------------------------------------------------------
(* The type invariant.  *)
THEOREM TypeCorrect == Spec => [](TypeOK /\ TakesOfPort)
<1>1. Init => TakesOfPort
  BY DEF Init, TakesOfPort
<1>2. TypeOK /\ TakesOfPort /\ [Next]_vars => TypeOK' /\ TakesOfPort'
  BY TypeStep
<1> QED
  BY <1>1, <1>2, InitType, PTL DEF Spec
-----------------------------------------------------------------------------
(* No neighbour is at the end of a chain of 255 eEECs. *)
ChainFits == \A c \in RxCascades : c.eEEC <= 254

(* A count of a chain this device is not in yet, and of one it is in.       *)
Uncounted(c) == c.eEEC \in 0 .. 254
Counted(c)   == c.eEEC \in 1 .. 255

(* Where the counts come from: those of the best QL count this device       *)
(* except while the main thread stores them.                                *)
CountInv ==
    /\ \A p \in RxPorts : Uncounted(tlv[p].counts) /\ Uncounted(rx[p].tlv.counts)
    /\ main.at \in {"idle", "counts", "wake"} => Counted(best.tlv.counts)
    /\ main.at = "id" /\ best.port = NoPort => Counted(best.tlv.counts)
    /\ main.at = "id" /\ best.port # NoPort => Uncounted(best.tlv.counts)
    /\ main.at = "count" => Uncounted(best.tlv.counts)

(* What a TX thread at l.at has copied of the TLV.                          *)
CopiedAt(l) ==
    /\ l.at \in {"top", "waiting", "woken", "ql"} => l.copied = {}
    /\ l.at = "tlv" => l.copied \in {{}, {"counts"}, {"id"}}
    /\ l.at = "send" => l.copied = {"counts", "id"}

(* What an undisturbed TX thread has read is what the best QL still is, and *)
(* the main thread stores nothing.                                          *)
ReadsBest(p, l) ==
    l.at \in {"ql", "tlv", "send"} /\ ~l.disturbed =>
        /\ MutexFree
        /\ l.port = best.port
        /\ l.at \in {"tlv", "send"} => l.ql = QlOf(p)
        /\ "counts" \in l.copied => l.tlv.counts = best.tlv.counts
        /\ "id" \in l.copied => l.tlv.id = best.tlv.id

TxInv == \A p \in TxPorts : CopiedAt(tx[p]) /\ ReadsBest(p, tx[p])

LEMMA PduInit == Init => CountInv /\ TxInv
<1> SUFFICES ASSUME Init PROVE CountInv /\ TxInv
  OBVIOUS
<1>1. Uncounted(NoTlv.counts) /\ Uncounted(FirstCounts) /\ Counted(FirstCounts)
  BY DEF NoTlv, FirstCounts, Uncounted, Counted
<1>2. CountInv
  BY <1>1 DEF Init, CountInv, IdleRx
<1>3. TxInv
  BY DEF Init, TxInv, CopiedAt, ReadsBest, IdleTx
<1>4. QED
  BY <1>2, <1>3

(* The counts the main thread takes of a neighbour leave room for one more. *)
LEMMA SeenUncounted ==
    ASSUME TypeOK, CountInv, best.port # NoPort
    PROVE  \A c \in CountsSeen : Uncounted(c)
<1>1. best.port \in RxPorts
  BY DEF TypeOK
<1>2. CASE enhanced[best.port]
  <2>1. CountsSeen = {t.counts : t \in TlvsSeen(best.port)}
    BY <1>2 DEF CountsSeen
  <2>2. \A t \in TlvsSeen(best.port) : Uncounted(t.counts)
    BY <1>1, SeenType DEF CountInv
  <2>3. QED
    BY <2>1, <2>2
<1>3. CASE ~enhanced[best.port]
  BY <1>3 DEF CountsSeen, Uncounted
<1>4. QED
  BY <1>2, <1>3

LEMMA MainCountStep ==
    ASSUME TypeOK, CountInv, MainThread
    PROVE  CountInv'
<1>1. best \in BestType /\ best.tlv \in Tlv /\ best.tlv.counts \in Counts
  BY DEF TypeOK, BestType, Tlv
<1>2. UNCHANGED <<tlv, rx>>
  BY DEF MainThread, StoreCounts, StoreId, CountSelf, Broadcast, rxVars
<1>3. CASE StoreCounts
  <2>1. PICK c \in CountsSeen : best' = [best EXCEPT !.tlv.counts = c]
    BY <1>3 DEF StoreCounts
  <2>2. best'.tlv.counts = c /\ best'.port = best.port
    BY <1>1, <2>1 DEF BestType, Tlv
  <2>3. best.port = NoPort => Counted(c)
    BY DEF CountsSeen, FirstCounts, Counted
  <2>4. best.port # NoPort => Uncounted(c)
    BY SeenUncounted
  <2>5. main'.at = "id"
    BY <1>3 DEF StoreCounts
  <2>6. QED
    BY <1>2, <2>2, <2>3, <2>4, <2>5 DEF CountInv
<1>4. CASE StoreId
  <2>1. best'.tlv.counts = best.tlv.counts /\ best'.port = best.port
    BY <1>1, <1>4 DEF StoreId, BestType, Tlv
  <2>2. main.at = "id" /\ main'.at = IF best.port = NoPort THEN "wake" ELSE "count"
    BY <1>4 DEF StoreId
  <2>3. QED
    BY <1>2, <2>1, <2>2 DEF CountInv
<1>5. CASE CountSelf
  <2>1. best'.tlv.counts.eEEC = best.tlv.counts.eEEC + 1
    BY <1>1, <1>5 DEF CountSelf, BestType, Tlv, Counts
  <2>2. Uncounted(best.tlv.counts) /\ main'.at = "wake"
    BY <1>5 DEF CountInv, CountSelf, TypeOK
  <2>3. Counted(best'.tlv.counts)
    BY <2>1, <2>2 DEF Uncounted, Counted
  <2>4. QED
    BY <1>2, <2>2, <2>3 DEF CountInv
<1>6. CASE Broadcast
  <2>1. best' = best /\ main.at = "wake" /\ main'.at = "idle"
    BY <1>6 DEF Broadcast, TypeOK
  <2>2. QED
    BY <1>2, <2>1 DEF CountInv
<1>7. QED
  BY <1>3, <1>4, <1>5, <1>6 DEF MainThread

LEMMA RxCountStep ==
    ASSUME ChainFits, TypeOK, CountInv, NEW p \in RxPorts, RxThread(p)
    PROVE  CountInv'
<1>1. rx[p] \in RxLocals /\ rx \in [RxPorts -> RxLocals] /\ tlv \in [RxPorts -> Tlv]
  BY DEF TypeOK
<1>2. Uncounted(NoTlv.counts)
  BY DEF NoTlv, Uncounted
<1>3. \A q \in 0 .. MaxQl : IdleRx(q).tlv = NoTlv
  BY DEF IdleRx
<1>4. \A q \in RxPorts : Uncounted(tlv'[q].counts) /\ Uncounted(rx'[q].tlv.counts)
  <2>1. ASSUME NEW pdu \in RxPdus, Receive(p, pdu)
        PROVE  tlv' = tlv /\ \A q \in RxPorts : Uncounted(rx'[q].tlv.counts)
    <3>1. Uncounted(pdu.tlv.counts) /\ pdu.enhanced \in BOOLEAN
      <4>1. \A c \in RxCascades : Uncounted(c)
        BY EsmcAssumption DEF ChainFits, Uncounted
      <4>2. pdu.tlv = NoTlv \/ pdu.tlv.counts \in RxCascades
        BY DEF RxPdus
      <4>3. pdu \in [ql: 0 .. MaxQl, enhanced: BOOLEAN, tlv: Tlv]
        BY ConstantTypes
      <4>4. QED
        BY <1>2, <4>1, <4>2, <4>3
    <3>2. CASE pdu.ql = rx[p].lastQl
      <4>1. rx' = [rx EXCEPT ![p] = [rx[p] EXCEPT !.at = "flag", !.enhanced = pdu.enhanced]]
        BY <2>1, <3>2 DEF Receive
      <4>2. rx'[p].tlv = rx[p].tlv
        BY <1>1, <3>1, <4>1, RxLocalsKept
      <4>3. \A q \in RxPorts \ {p} : rx'[q] = rx[q]
        BY <1>1, <4>1
      <4>4. QED
        BY <2>1, <4>2, <4>3 DEF Receive, CountInv
    <3>3. CASE pdu.ql # rx[p].lastQl
      <4>1. rx'[p].tlv = pdu.tlv /\ \A q \in RxPorts \ {p} : rx'[q] = rx[q]
        BY <1>1, <2>1, <3>3 DEF Receive
      <4>2. QED
        BY <2>1, <3>1, <4>1 DEF Receive, CountInv
    <3>4. QED
      BY <3>2, <3>3
  <2>2. CASE Store(p)
    <3>1. rx' = [rx EXCEPT ![p] = [rx[p] EXCEPT !.at = "report"]]
      BY <2>2 DEF Store
    <3>2. rx'[p].tlv = rx[p].tlv /\ \A q \in RxPorts \ {p} : rx'[q] = rx[q]
      BY <1>1, <3>1 DEF RxLocals
    <3>3. tlv'[p] = rx[p].tlv /\ \A q \in RxPorts \ {p} : tlv'[q] = tlv[q]
      BY <1>1, <2>2 DEF Store
    <3>4. QED
      BY <3>2, <3>3 DEF CountInv
  <2>3. CASE Report(p)
    <3>1. rx'[p] = [IdleRx(rx[p].ql) EXCEPT !.at = "flag", !.enhanced = rx[p].enhanced]
      BY <1>1, <2>3 DEF Report
    <3>2. rx'[p].tlv = NoTlv /\ tlv' = tlv
      BY <2>3, <3>1 DEF IdleRx, Report
    <3>3. \A q \in RxPorts \ {p} : rx'[q] = rx[q]
      BY <1>1, <2>3 DEF Report
    <3>4. QED
      BY <1>2, <3>2, <3>3 DEF CountInv
  <2>4. CASE SetFlag(p) \/ Lose(p)
    <3>1. rx'[p].tlv = NoTlv /\ tlv' = tlv /\ \A q \in RxPorts \ {p} : rx'[q] = rx[q]
      BY <1>1, <2>4 DEF SetFlag, Lose, IdleRx
    <3>2. QED
      BY <1>2, <3>1 DEF CountInv
  <2>5. QED
    BY <2>1, <2>2, <2>3, <2>4 DEF RxThread, CountInv
<1>5. UNCHANGED <<best, main>>
  BY DEF RxThread, Receive, Store, Report, SetFlag, Lose
<1>6. QED
  BY <1>4, <1>5 DEF CountInv

(* A TX thread that composes while the main thread stores nothing reads the *)
(* parts of one best QL.                                                    *)
LEMMA TxReadStep ==
    ASSUME TypeOK, TxInv, NEW p \in TxPorts, TxThread(p)
    PROVE  TxInv'
<1>1. /\ tx[p] \in TxLocals /\ tx \in [TxPorts -> TxLocals]
      /\ CopiedAt(tx[p]) /\ ReadsBest(p, tx[p])
  BY DEF TypeOK, TxInv
<1>2. UNCHANGED <<best, main>>
  BY DEF TxThread, BeginWait, Heartbeat, SkipLinkDown, ReadBestPort, ReadBestQl, CopyTlv, Send
<1>3. \A q \in TxPorts \ {p} : tx'[q] = tx[q]
  BY <1>1 DEF TxThread, BeginWait, Heartbeat, TxTo, SkipLinkDown, ReadBestPort, ReadBestQl,
     CopyTlv, Copy, Send
<1>4. CopiedAt(tx'[p]) /\ ReadsBest(p, tx'[p])
  <2>1. CASE BeginWait(p) \/ Heartbeat(p)
    <3>1. PICK a \in {"waiting", "woken"} : tx' = [tx EXCEPT ![p] = [tx[p] EXCEPT !.at = a]]
      BY <2>1 DEF BeginWait, Heartbeat, TxTo
    <3>2. tx'[p].at = a /\ tx'[p].copied = tx[p].copied /\ tx[p].at \in {"top", "waiting"}
      BY <1>1, <2>1, <3>1 DEF TxLocals, BeginWait, Heartbeat
    <3>3. QED
      BY <1>1, <3>2 DEF CopiedAt, ReadsBest
  <2>2. CASE SkipLinkDown(p) \/ Send(p)
    <3>1. tx'[p] = IdleTx
      BY <1>1, <2>2 DEF SkipLinkDown, Send
    <3>2. QED
      BY <3>1 DEF IdleTx, CopiedAt, ReadsBest
  <2>3. CASE ReadBestPort(p)
    <3>1. tx' = [tx EXCEPT ![p] = [tx[p] EXCEPT !.at = "ql", !.port = best.port,
                                                !.disturbed = ~MutexFree]]
      BY <2>3 DEF ReadBestPort
    <3>2. /\ tx'[p].at = "ql" /\ tx'[p].copied = tx[p].copied /\ tx'[p].port = best.port
          /\ tx'[p].disturbed = ~MutexFree /\ tx[p].copied = {}
      BY <1>1, <2>3, <3>1 DEF TxLocals, ReadBestPort, CopiedAt
    <3>3. QED
      BY <1>2, <3>2 DEF CopiedAt, ReadsBest, MutexFree
  <2>4. CASE ReadBestQl(p)
    <3>1. tx' = [tx EXCEPT ![p] = [tx[p] EXCEPT !.at = "tlv", !.ql = QlOf(p)]]
      BY <2>4 DEF ReadBestQl
    <3>2. /\ tx'[p].at = "tlv" /\ tx'[p].copied = tx[p].copied /\ tx'[p].port = tx[p].port
          /\ tx'[p].disturbed = tx[p].disturbed /\ tx'[p].ql = QlOf(p)
          /\ tx[p].copied = {} /\ tx[p].at = "ql"
      BY <1>1, <2>4, <3>1 DEF TxLocals, ReadBestQl, CopiedAt
    <3>3. QED
      BY <1>1, <1>2, <3>2 DEF CopiedAt, ReadsBest, MutexFree, QlOf
  <2>5. CASE CopyTlv(p)
    <3>1. ASSUME NEW part \in {"counts", "id"}, NEW t \in Tlv, Copy(p, part, t)
          PROVE  /\ tx'[p].tlv = t /\ tx'[p].copied = tx[p].copied \cup {part}
                 /\ tx'[p].at = IF tx[p].copied = {} THEN "tlv" ELSE "send"
                 /\ tx'[p].port = tx[p].port /\ tx'[p].ql = tx[p].ql
                 /\ tx'[p].disturbed = tx[p].disturbed /\ part \notin tx[p].copied
      <4>1. tx' = [tx EXCEPT ![p] = [tx[p] EXCEPT
                     !.tlv = t, !.copied = @ \cup {part},
                     !.at = IF tx[p].copied = {} THEN "tlv" ELSE "send"]]
        BY <3>1 DEF Copy
      <4>2. tx'[p] = [tx[p] EXCEPT !.tlv = t, !.copied = tx[p].copied \cup {part},
                                   !.at = IF tx[p].copied = {} THEN "tlv" ELSE "send"]
        BY <1>1, <4>1
      <4>3. part \notin tx[p].copied
        BY <3>1 DEF Copy
      <4>4. QED
        BY <1>1, <4>2, <4>3 DEF TxLocals
    <3>2. tx[p].at = "tlv" /\ tx[p].tlv \in Tlv /\ best.tlv \in Tlv
      BY <1>1, <2>5 DEF CopyTlv, TxLocals, TypeOK
    <3>3. CASE Copy(p, "counts", [counts |-> best.tlv.counts, id |-> tx[p].tlv.id])
      <4>1. [counts |-> best.tlv.counts, id |-> tx[p].tlv.id] \in Tlv
        BY <3>2 DEF Tlv
      <4>2. /\ tx'[p].tlv.counts = best.tlv.counts /\ tx'[p].tlv.id = tx[p].tlv.id
            /\ tx'[p].copied = tx[p].copied \cup {"counts"} /\ "counts" \notin tx[p].copied
            /\ tx'[p].at = IF tx[p].copied = {} THEN "tlv" ELSE "send"
            /\ tx'[p].port = tx[p].port /\ tx'[p].ql = tx[p].ql
            /\ tx'[p].disturbed = tx[p].disturbed
        BY <3>1, <3>3, <4>1
      <4>3. CopiedAt(tx'[p])
        BY <1>1, <3>2, <4>2 DEF CopiedAt
      <4>4. ReadsBest(p, tx'[p])
        BY <1>1, <1>2, <3>2, <4>2 DEF ReadsBest, MutexFree, QlOf
      <4>5. QED
        BY <1>2, <4>3, <4>4
    <3>4. CASE Copy(p, "id", [counts |-> tx[p].tlv.counts, id |-> best.tlv.id])
      <4>1. [counts |-> tx[p].tlv.counts, id |-> best.tlv.id] \in Tlv
        BY <3>2 DEF Tlv
      <4>2. /\ tx'[p].tlv.counts = tx[p].tlv.counts /\ tx'[p].tlv.id = best.tlv.id
            /\ tx'[p].copied = tx[p].copied \cup {"id"} /\ "id" \notin tx[p].copied
            /\ tx'[p].at = IF tx[p].copied = {} THEN "tlv" ELSE "send"
            /\ tx'[p].port = tx[p].port /\ tx'[p].ql = tx[p].ql
            /\ tx'[p].disturbed = tx[p].disturbed
        BY <3>1, <3>4, <4>1
      <4>3. CopiedAt(tx'[p])
        BY <1>1, <3>2, <4>2 DEF CopiedAt
      <4>4. ReadsBest(p, tx'[p])
        BY <1>1, <1>2, <3>2, <4>2 DEF ReadsBest, MutexFree, QlOf
      <4>5. QED
        BY <1>2, <4>3, <4>4
    <3>5. QED
      BY <2>5, <3>3, <3>4 DEF CopyTlv
  <2>6. QED
    BY <2>1, <2>2, <2>3, <2>4, <2>5 DEF TxThread
<1>5. \A q \in TxPorts : ReadsBest(q, tx[q])' <=> ReadsBest(q, tx'[q])
  BY <1>2 DEF ReadsBest, MutexFree, QlOf
<1>6. \A q \in TxPorts \ {p} : CopiedAt(tx'[q]) /\ ReadsBest(q, tx'[q])
  BY <1>3 DEF TxInv
<1>7. \A q \in TxPorts : CopiedAt(tx[q])' <=> CopiedAt(tx'[q])
  BY DEF CopiedAt
<1>8. QED
  BY <1>4, <1>5, <1>6, <1>7 DEF TxInv

LEMMA PduStep ==
    ASSUME ChainFits, TypeOK, TakesOfPort, CountInv, TxInv, [Next]_vars
    PROVE  CountInv' /\ TxInv'
<1>1. ASSUME NEW ql \in BestQls, NEW p \in RxPorts \cup {NoPort}, NEW b \in Bundles,
             SetBestQl(ql, p, b)
      PROVE  CountInv' /\ TxInv'
  <2>1. /\ main.at = "idle" /\ main'.at = "counts" /\ best'.tlv = best.tlv
        /\ UNCHANGED <<tlv, rx>>
    BY <1>1 DEF SetBestQl, TypeOK, rxVars
  <2>2. CountInv'
    BY <2>1 DEF CountInv
  <2>3. ASSUME NEW q \in TxPorts PROVE CopiedAt(tx'[q]) /\ ReadsBest(q, tx[q])'
    <3>1. tx'[q] = Disturbed(tx[q]) /\ tx[q] \in TxLocals /\ CopiedAt(tx[q])
      BY <1>1 DEF SetBestQl, TypeOK, TxInv
    <3>2. CASE tx[q].at \in {"ql", "tlv", "send"}
      <4>1. tx'[q].at = tx[q].at /\ tx'[q].copied = tx[q].copied /\ tx'[q].disturbed
        BY <3>1, <3>2 DEF Disturbed, TxLocals
      <4>2. QED
        BY <3>1, <4>1 DEF CopiedAt, ReadsBest
    <3>3. CASE tx[q].at \notin {"ql", "tlv", "send"}
      BY <3>1, <3>3 DEF Disturbed, ReadsBest
    <3>4. QED
      BY <3>2, <3>3
  <2>4. QED
    BY <2>2, <2>3 DEF TxInv, CopiedAt
<1>2. CASE MainThread
  <2>1. CountInv'
    BY <1>2, MainCountStep
  <2>2. main.at # "idle"
    BY <1>2 DEF MainThread, StoreCounts, StoreId, CountSelf, Broadcast
  <2>3. ASSUME NEW q \in TxPorts PROVE CopiedAt(tx'[q]) /\ ReadsBest(q, tx[q])'
    <3>1. tx[q] \in TxLocals /\ CopiedAt(tx[q]) /\ ReadsBest(q, tx[q])
      BY DEF TypeOK, TxInv
    <3>2. CASE tx'[q] = tx[q]
      BY <2>2, <3>1, <3>2 DEF ReadsBest, MutexFree
    <3>3. CASE tx'[q] = [tx[q] EXCEPT !.at = "woken"] /\ tx[q].at = "waiting"
      <4>1. tx'[q].at = "woken" /\ tx'[q].copied = tx[q].copied
        BY <3>1, <3>3 DEF TxLocals
      <4>2. QED
        BY <3>1, <3>3, <4>1 DEF CopiedAt, ReadsBest
    <3>4. QED
      BY <1>2, <3>2, <3>3 DEF MainThread, StoreCounts, StoreId, CountSelf, Broadcast, Wake
  <2>4. QED
    BY <2>1, <2>3 DEF TxInv, CopiedAt
<1>3. ASSUME NEW p \in TxPorts, TxThread(p) PROVE CountInv' /\ TxInv'
  <2>1. UNCHANGED <<best, main, tlv, rx>>
    BY <1>3 DEF TxThread, BeginWait, Heartbeat, SkipLinkDown, ReadBestPort, ReadBestQl, CopyTlv,
       Send, rxVars
  <2>2. QED
    BY <1>3, <2>1, TxReadStep DEF CountInv
<1>4. ASSUME NEW p \in CheckedPorts, LinkChange(p) PROVE CountInv' /\ TxInv'
  BY <1>4 DEF LinkChange, CountInv, TxInv, CopiedAt, ReadsBest, MutexFree, QlOf, rxVars
<1>5. ASSUME NEW p \in RxPorts, RxThread(p) PROVE CountInv' /\ TxInv'
  <2>1. UNCHANGED <<best, main, tx>>
    BY <1>5 DEF RxThread, Receive, Store, Report, SetFlag, Lose
  <2>2. QED
    BY <1>5, <2>1, RxCountStep DEF TxInv, CopiedAt, ReadsBest, MutexFree, QlOf
<1>6. CASE UNCHANGED vars
  BY <1>6 DEF vars, CountInv, TxInv, CopiedAt, ReadsBest, MutexFree, QlOf
<1>7. QED
  BY <1>1, <1>2, <1>3, <1>4, <1>5, <1>6 DEF Next

(* A byte holds the count of a chain that counts this device. *)
LEMMA CountedByte == \A n \in 1 .. 255 : n % 256 = n
BY SMTT(60)

(* What the invariant says of a PDU about to be sent. *)
LEMMA PduOfBest == TypeOK /\ CountInv /\ TxInv => UndisturbedPduIsBest
<1> SUFFICES ASSUME TypeOK, CountInv, TxInv,
                    NEW p \in TxPorts, tx[p].at = "send", ~tx[p].disturbed
             PROVE  Current(p) /\ PduOf(tx[p]).counts.eEEC >= 1
  BY DEF UndisturbedPduIsBest
<1>1. tx[p].copied = {"counts", "id"}
  BY DEF TxInv, CopiedAt
<1>2. /\ main.at = "idle" /\ tx[p].port = best.port /\ tx[p].ql = QlOf(p)
      /\ tx[p].tlv.counts = best.tlv.counts /\ tx[p].tlv.id = best.tlv.id
  BY <1>1 DEF TxInv, ReadsBest, MutexFree
<1>3. Current(p)
  BY <1>2 DEF Current, BestPdu, PduOf
<1>4. Counted(tx[p].tlv.counts)
  BY <1>2 DEF CountInv
<1>5. PICK n \in 1 .. 255 : n = tx[p].tlv.counts.eEEC
  BY <1>4 DEF Counted
<1>6. PduOf(tx[p]).counts.eEEC = n % 256
  BY <1>5 DEF PduOf
<1>7. n % 256 = n
  BY CountedByte
<1>8. n >= 1
  OBVIOUS
<1>9. QED
  BY <1>3, <1>6, <1>7, <1>8

(* esmc_compose_pdu, esmc_set_best_ql and port_get_rx_ext_ql_tlv_data: as   *)
(* long as the chains neighbours advertise leave room for one more, a PDU   *)
(* is that of one best QL and counts this device unless a selection was     *)
(* stored while it was composed.                                            *)
THEOREM UndisturbedPduOfBest ==
    ASSUME ChainFits
    PROVE  Spec => []UndisturbedPduIsBest
<1>1. TypeOK /\ TakesOfPort /\ CountInv /\ TxInv /\ [Next]_vars => CountInv' /\ TxInv'
  BY PduStep
<1> QED
  BY <1>1, PduInit, PduOfBest, TypeCorrect, PTL DEF Spec
=============================================================================
