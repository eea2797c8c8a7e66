-------------------------- MODULE MCClockSelection --------------------------
(* ClockSelection over every small table: a step gives one port another QL,  *)
(* priority or hop count, or makes it another type, for every oscillator QL, *)
(* and the table handed to the device is compared with a definition that     *)
(* mentions neither rank nor scan.                                           *)
EXTENDS ClockSelection

CONSTANTS NumSyncs, Qls, Pris, Hops, LoQls, LoPri, DoNotUseQl

ASSUME SelectionAssumption ==
    /\ NumSyncs \in 1 .. 256
    /\ Qls \subseteq Nat /\ LoQls \subseteq Nat /\ DoNotUseQl \in Nat
    /\ Pris \subseteq 0 .. 255 /\ LoPri \in 0 .. 255
    /\ Hops \subseteq 0 .. MaxHops

VARIABLES
    entries,   (* of each port: type, clkIdx, ql, pri, hops *)
    loQl       (* the oscillator's QL, as configured        *)

Syncs == 0 .. NumSyncs - 1

FirstEntries ==
    [s \in Syncs |-> [type |-> "synce", clkIdx |-> s, ql |-> DoNotUseQl, pri |-> s, hops |-> 0]]

Init ==
    /\ entries = FirstEntries
    /\ loQl \in LoQls

Next == \E s \in Syncs : UNCHANGED loQl /\
    \/ \E q \in Qls, p \in Pris, h \in Hops :
         entries' = [entries EXCEPT ![s].ql = q, ![s].pri = p, ![s].hops = h]
    \/ entries' = [entries EXCEPT ![s].type = IF @ = "external" THEN "monitoring" ELSE "external"]

Spec == Init /\ [][Next]_<<entries, loQl>>

Table == [s \in Syncs |->
    [type |-> entries[s].type, clkIdx |-> entries[s].clkIdx,
     rank |-> CalculateRank(entries[s].ql, entries[s].pri, entries[s].hops)]]

DeviceTable == PriorityTable(Table, LoRank(loQl, LoPri, DoNotUseQl))

(* Better QL first, then better priority, fewer hops, lower sync index. *)
Before(s, t) ==
    LET a == entries[s]  b == entries[t] IN
    \/ a.ql < b.ql
    \/ a.ql = b.ql /\ a.pri < b.pri
    \/ a.ql = b.ql /\ a.pri = b.pri /\ a.hops < b.hops
    \/ a.ql = b.ql /\ a.pri = b.pri /\ a.hops = b.hops /\ s < t

(* LO wins a full tie: its hop count is the largest. *)
BeatsLo(s) ==
    LET a == entries[s] IN
    IF loQl < DoNotUseQl
    THEN \/ a.ql < loQl
         \/ a.ql = loQl /\ a.pri < LoPri
         \/ a.ql = loQl /\ a.pri = LoPri /\ a.hops < MaxHops
    ELSE a.ql < DoNotUseQl

Offered == {s \in Syncs : entries[s].type # "monitoring" /\ BeatsLo(s)}

(* control.c:43-162: the device gets every clock that beats the oscillator, *)
(* once, at the place its QL, priority and hop count give it.               *)
DeviceTableIsOrdered ==
    /\ Len(DeviceTable) = Cardinality(Offered)
    /\ \A s \in Offered :
         DeviceTable[1 + Cardinality({t \in Offered : Before(t, s)})].clkIdx = entries[s].clkIdx
=============================================================================
