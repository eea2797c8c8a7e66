--------------------------- MODULE ClockSelection ---------------------------
(***************************************************************************)
(* The clock selection algorithm of src/control/control.c: the rank of a   *)
(* port and the ordered table of clocks given to the device.  A port entry *)
(* is a record with at least the fields type, clkIdx and rank; a table is  *)
(* a function from sync indices to entries.  Pure operators, no state.     *)
(***************************************************************************)
EXTENDS Integers, Sequences, FiniteSets

MissingClkIdx == -1   (* MISSING_CLK_IDX, equal to INVALID_CLK_IDX *)
NoPri         == -1   (* NO_PRI, the priority of a port configured TX only *)
MaxHops       == 255  (* MAX_NUMBER_HOPS and LO_NUMBER_OF_HOPS *)

(* Only active Sync-E ports and external clock ports are selected from. *)
SelectableTypes == {"synce", "external"}
SyncTypes       == SelectableTypes \cup {"monitoring", "tx_only"}

(* Lower is better.  The priority and the hops are passed as unsigned char, *)
(* so NoPri ranks as 255.                                                   *)
CalculateRank(ql, pri, hops) == ql * 65536 + (pri % 256) * 256 + (hops % 256)

(* Mutant: LO's rank whatever its QL. *)
LoRank_Always(loQl, loPri, doNotUseQl) == CalculateRank(loQl, loPri, MaxHops)

(* The rank a clock has to beat: the local oscillator's own, or "do not use" *)
(* when the oscillator is no better than that.                               *)
LoRank(loQl, loPri, doNotUseQl) ==
    IF loQl < doNotUseQl THEN CalculateRank(loQl, loPri, MaxHops)
                         ELSE CalculateRank(doNotUseQl, 0, 0)

(* Mutant: a clock that only ties with LO is selected. *)
Candidates_OrEqual(table, loRank) ==
    {s \in DOMAIN table : /\ table[s].type \in SelectableTypes
                          /\ table[s].rank <= loRank}

Candidates(table, loRank) ==
    {s \in DOMAIN table : /\ table[s].type \in SelectableTypes
                          /\ table[s].rank < loRank}

(* The scan keeps the first of the entries of least rank. *)
FindBestClock(table, cands) ==
    CHOOSE s \in cands : \A t \in cands :
        \/ table[s].rank < table[t].rank
        \/ table[s].rank = table[t].rank /\ s <= t

(* One round: pick the best clock, take it out of the copy of the table and *)
(* append it.  A round that finds none, or whose pick has a negative clock  *)
(* index, ends the loop: later rounds find the same.                        *)
Round(table, loRank, chosen) ==
    LET cands == Candidates(table, loRank) \ {chosen[k] : k \in DOMAIN chosen}
        best  == FindBestClock(table, cands)
    IN  IF cands = {} \/ table[best].clkIdx < 0
        THEN chosen ELSE Append(chosen, best)

(* What is chosen after each round; there is one round per entry. *)
Rounds(table, loRank) ==
    LET chosen[n \in 0 .. Cardinality(DOMAIN table)] ==
            IF n = 0 THEN <<>> ELSE Round(table, loRank, chosen[n - 1])
    IN  chosen

PriorityTable(table, loRank) ==
    LET chosen == Rounds(table, loRank)[Cardinality(DOMAIN table)]
    IN  [k \in 1 .. Len(chosen) |->
            [clkIdx |-> table[chosen[k]].clkIdx, rank |-> table[chosen[k]].rank]]

(* The clock indices a device table holds. *)
ClocksOf(deviceTable) == {deviceTable[k].clkIdx : k \in DOMAIN deviceTable}
=============================================================================
