---------------------------- MODULE MCAlgorithms ----------------------------
(* The pure parts of the system, each over every small input while the other *)
(* two rest: the tables of MCClockSelection, the QLs and codes of EsmcSsm,   *)
(* the frames of RawSocket.                                                  *)
EXTENDS MCClockSelection, EsmcSsm, RawSocket

(* All QLs but those without a code. *)
Coded == [o \in Options |-> {q \in Names(o) : HasCode(o, q)}]

(* All QLs of the option. *)
All == [o \in Options |-> Names(o)]

(* Two interfaces of one maker: the upper bytes are the same. *)
Macs == <<[hi |-> 9, lo |-> "first"], [hi |-> 9, lo |-> "second"]>>

selectionVars == <<entries, loQl>>

SelectionRests == entries = FirstEntries
SsmRests == opt = 1 /\ lo = "SEC" /\ ql = DefaultQl[opt] /\ wire = <<>> /\ tx = "running"

AlgorithmsInit == Init /\ SsmInit /\ RawInit

AlgorithmsNext ==
    \/ SsmRests /\ RawInit /\ Next /\ UNCHANGED <<ssmVars, rawVars>>
    \/ SelectionRests /\ RawInit /\ SsmNext /\ UNCHANGED <<selectionVars, rawVars>>
    \/ SelectionRests /\ SsmRests /\ RawNext /\ UNCHANGED <<selectionVars, ssmVars>>

AlgorithmsSpec == AlgorithmsInit /\ [][AlgorithmsNext]_<<selectionVars, ssmVars, rawVars>>
=============================================================================
