------------------------------- MODULE EsmcSsm -------------------------------
(***************************************************************************)
(* The SSM and enhanced SSM codes a QL travels with (src/esmc/renesas/      *)
(* esmc.c), for the three network options: a device composes PDUs of the    *)
(* better of its oscillator's QL and the QL of its port, which a neighbour  *)
(* or the operator gives it.  QLs have the names of the enumeration in      *)
(* src/common/types.h, in its order, best first.                            *)
(***************************************************************************)
EXTENDS Integers, Sequences

CONSTANT Settable   (* of each option, the QLs the operator may use *)

Options == 1 .. 3

VARIABLES
    opt,    (* net_opt                                         *)
    lo,     (* the oscillator's QL                             *)
    ql,     (* the QL of the port                              *)
    wire,   (* what is known of the last PDU sent, <<>> before *)
    tx      (* the TX thread is "running" or has "ended"       *)

ssmVars == <<opt, lo, ql, wire, tx>>

Enum == <<
    <<"ePRTC", "PRTC", "ePRC", "PRC", "SSUA", "SSUB", "eSEC", "SEC", "DNU", "INV0", "INV1",
      "INV3", "INV5", "INV6", "INV7", "INV9", "INV10", "INV12", "INV13", "INV14">>,
    <<"ePRTC", "PRTC", "ePRC", "PRS", "STU", "ST2", "TNC", "ST3E", "eEEC", "ST3", "SMC", "ST4",
      "PROV", "DUS", "INV2", "INV3", "INV5", "INV6", "INV8", "INV9", "INV11">>,
    <<"ePRTC", "PRTC", "UNK", "eSEC", "SEC", "INV1", "INV2", "INV3", "INV4", "INV5", "INV6",
      "INV7", "INV8", "INV9", "INV10", "INV12", "INV13", "INV14", "INV15">> >>

Names(o)    == {Enum[o][k] : k \in DOMAIN Enum[o]}

ASSUME SettableAssumption == \A o \in Options : Settable[o] \subseteq Names(o)

Index(o, q) == CHOOSE k \in DOMAIN Enum[o] : Enum[o][k] = q
NotWorse(o, q, r) == Index(o, q) <= Index(o, r)

DoNotUse  == <<"DNU", "DUS", "INV1">>
DefaultQl == <<"DNU", "DUS", "SEC">>
FirstQl   == <<"ePRTC", "ePRTC", "UNK">>   (* ESMC_QL_NET_OPT_*_START *)

(* The QLs of the configuration file; those worse than do-not-use are *)
(* clipped to it for the oscillator.                                  *)
LoConfigurable(o) ==
    {q \in Names(o) \ IF o = 3 THEN {"ePRTC", "PRTC", "eSEC"} ELSE {} : NotWorse(o, q, DoNotUse[o])}

(* check_ql_setting *)
ForcedAllowed(o, q) == NotWorse(o, FirstQl[o], q)

(* Enhanced SSM codes. *)
NONE  == 0
EEC   == 255
PRTC  == 32
ePRTC == 33
eEEC  == 34
ePRC  == 35
-----------------------------------------------------------------------------
(* Sending: the codes of each QL, those that need an enhanced code first. *)

EnhancedCode == <<
    [ePRTC |-> <<2, ePRTC>>, PRTC |-> <<2, PRTC>>, ePRC |-> <<2, ePRC>>, eSEC |-> <<11, eEEC>>],
    [ePRTC |-> <<1, ePRTC>>, PRTC |-> <<1, PRTC>>, ePRC |-> <<1, ePRC>>, eEEC |-> <<10, eEEC>>],
    <<>> >>

PlainCode == <<
    [PRC |-> 2, SSUA |-> 4, SSUB |-> 8, SEC |-> 11, DNU |-> 15, INV0 |-> 0, INV1 |-> 1, INV3 |-> 3,
     INV5 |-> 5, INV6 |-> 6, INV7 |-> 7, INV9 |-> 9, INV10 |-> 10, INV12 |-> 12, INV13 |-> 13,
     INV14 |-> 14],
    [PRS |-> 1, STU |-> 0, ST2 |-> 7, TNC |-> 4, ST3E |-> 13, ST3 |-> 10, SMC |-> 12, PROV |-> 14,
     DUS |-> 15, INV2 |-> 2, INV3 |-> 3, INV5 |-> 5, INV6 |-> 6, INV8 |-> 8, INV9 |-> 9,
     INV11 |-> 11],
    [UNK |-> 0, SEC |-> 11, INV1 |-> 1, INV2 |-> 2, INV3 |-> 3, INV4 |-> 4, INV5 |-> 5, INV6 |-> 6,
     INV7 |-> 7, INV8 |-> 8, INV9 |-> 9, INV10 |-> 10, INV12 |-> 12, INV13 |-> 13, INV14 |-> 14,
     INV15 |-> 15] >>

HasCode(o, q) == q \in DOMAIN EnhancedCode[o] \cup DOMAIN PlainCode[o]

(* Mutant: the enhanced code of eSEC goes with the SSM code of a primary. *)
CodeOf_Primary(o, q) ==
    IF q = "eSEC" THEN <<2, eEEC>>
    ELSE IF q \in DOMAIN EnhancedCode[o] THEN EnhancedCode[o][q] ELSE <<PlainCode[o][q], EEC>>

(* Mutant: no enhanced codes. *)
CodeOf_Plain(o, q) ==
    IF q \in DOMAIN EnhancedCode[o] THEN <<EnhancedCode[o][q][1], EEC>>
    ELSE <<PlainCode[o][q], EEC>>

CodeOf(o, q) ==
    IF q \in DOMAIN EnhancedCode[o] THEN EnhancedCode[o][q] ELSE <<PlainCode[o][q], EEC>>
-----------------------------------------------------------------------------
(* Receiving: the QL of each SSM code from 0 to 15, and <<SSM code, enhanced *)
(* code, QL>> of each enhanced reading; a pair that is not there is refused, *)
(* and an SSM code without enhanced readings does not look at the enhanced   *)
(* code.                                                                     *)

PlainQl == <<
    <<"INV0", "INV1", "PRC", "INV3", "SSUA", "INV5", "INV6", "INV7", "SSUB", "INV9", "INV10", "SEC",
      "INV12", "INV13", "INV14", "DNU">>,
    <<"STU", "PRS", "INV2", "INV3", "TNC", "INV5", "INV6", "ST2", "INV8", "INV9", "ST3", "INV11",
      "SMC", "ST3E", "PROV", "DUS">>,
    <<"UNK", "INV1", "INV2", "INV3", "INV4", "INV5", "INV6", "INV7", "INV8", "INV9", "INV10", "SEC",
      "INV12", "INV13", "INV14", "INV15">> >>

EnhancedQl == <<
    {<<2, PRTC, "PRTC">>, <<2, ePRTC, "ePRTC">>, <<2, eEEC, "eSEC">>, <<2, ePRC, "ePRC">>,
     <<11, eEEC, "eSEC">>},
    {<<1, PRTC, "PRTC">>, <<1, ePRTC, "ePRTC">>, <<1, ePRC, "ePRC">>, <<10, eEEC, "eEEC">>},
    {} >>

(* Mutant: option 3 uses the enhanced readings of option 1. *)
QlsOf_SharedTable(o, ssm, eSsm) ==
    LET readings == {r \in EnhancedQl[IF o = 3 THEN 1 ELSE o] : r[1] = ssm} IN
    IF ssm \notin 0 .. 15 THEN {}
    ELSE IF eSsm \in {NONE, EEC} \/ readings = {} THEN {PlainQl[o][ssm + 1]}
    ELSE {r[3] : r \in {x \in readings : x[2] = eSsm}}

(* The QL read, as a set: empty if the codes are refused. *)
QlsOf(o, ssm, eSsm) ==
    LET readings == {r \in EnhancedQl[o] : r[1] = ssm} IN
    IF ssm \notin 0 .. 15 THEN {}
    ELSE IF eSsm \in {NONE, EEC} \/ readings = {} THEN {PlainQl[o][ssm + 1]}
    ELSE {r[3] : r \in {x \in readings : x[2] = eSsm}}
-----------------------------------------------------------------------------
(* ssm 16 stands for every SSM code above 15, eSsm 1 for every enhanced code  *)
(* that is none of the six; the other fields are the checks of the header     *)
(* and of the two TLVs.                                                       *)
Pdus == [ssm: 0 .. 16, eSsm: {NONE, EEC, PRTC, ePRTC, eEEC, ePRC, 1},
         headerOk: BOOLEAN, extTlvOk: BOOLEAN]

(* esmc_parse_pdu: the TLV is looked at only if there is an enhanced code. *)
Parsed(pdu) ==
    IF pdu.headerOk /\ (pdu.eSsm = NONE \/ pdu.extTlvOk)
    THEN QlsOf(opt, pdu.ssm, pdu.eSsm) ELSE {}

SsmInit ==
    /\ opt \in Options
    /\ lo \in Settable[opt] \cap LoConfigurable(opt)
    /\ ql = DefaultQl[opt]
    /\ wire = <<>>
    /\ tx = "running"

(* A refused PDU changes nothing. *)
Hear(pdu) ==
    /\ \E q \in Parsed(pdu) : ql' = q
    /\ UNCHANGED <<opt, lo, wire, tx>>

(* The operator forces a QL on an external clock port. *)
ForceQl(q) ==
    /\ q \in Settable[opt] /\ ForcedAllowed(opt, q)
    /\ ql' = q
    /\ UNCHANGED <<opt, lo, wire, tx>>

(* The port's clock is selected when its QL is better than the oscillator's. *)
Selected == IF NotWorse(opt, ql, lo) THEN ql ELSE lo

(* A QL without a code makes the composition fail, and that ends the thread. *)
Transmit ==
    /\ tx = "running"
    /\ IF HasCode(opt, Selected)
       THEN /\ wire' = [ql |-> Selected, ssm |-> CodeOf(opt, Selected)[1],
                        eSsm |-> CodeOf(opt, Selected)[2]]
            /\ UNCHANGED tx
       ELSE tx' = "ended" /\ UNCHANGED wire
    /\ UNCHANGED <<opt, lo, ql>>

SsmNext ==
    \/ \E pdu \in Pdus : Hear(pdu)
    \/ \E q \in Names(opt) : ForceQl(q)
    \/ Transmit

SsmSpec == SsmInit /\ [][SsmNext]_ssmVars
-----------------------------------------------------------------------------
(* esmc.c:134-387 against 418-646, two tables kept apart: a neighbour of the *)
(* same network option reads every PDU as the QL it was composed of.         *)
ReadAsSent == wire # <<>> => QlsOf(opt, wire.ssm, wire.eSsm) = {wire.ql}

(* A node that knows no enhanced codes (esmc.c:680-688 is the same reading    *)
(* here) never takes a clock for better than it is.                          *)
NeverReadAsBetter ==
    wire # <<>> => \A q \in QlsOf(opt, wire.ssm, NONE) : NotWorse(opt, wire.ql, q)

(* README.md:301-348 "Local oscillator quality level [lo_ql] ... Range:", and *)
(* port.c:372-375: no QL received, configured or forced ends the TX thread.   *)
TxKeepsRunning == tx = "running"
=============================================================================
