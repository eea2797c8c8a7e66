--------------------------- MODULE AlgorithmProofs ---------------------------
(* The pure parts of the system for inputs of any size: the device's table  *)
(* against its definition without rank or scan, the packet filter against   *)
(* what it is to let through, the codes that are sent against those read.   *)
EXTENDS MCAlgorithms, ClockSelectionProofs

(* What the ports may be. *)
PortEntry == [type : {"synce", "external", "monitoring"}, clkIdx : Nat, ql : Nat,
              pri : 0 .. 255, hops : 0 .. 255]

EntriesOK == entries \in [Syncs -> PortEntry] /\ loQl \in Nat

LEMMA EntriesStayOK == Spec => []EntriesOK
<1>1. Init => EntriesOK
  <2> SUFFICES ASSUME Init
               PROVE  EntriesOK
    OBVIOUS
  <2>1. \A s \in Syncs : s \in Nat /\ s \in 0 .. 255
    BY SelectionAssumption DEF Syncs
  <2> QED
    BY <2>1, SelectionAssumption DEF Init, FirstEntries, EntriesOK, PortEntry
<1>2. ASSUME NEW e \in PortEntry, NEW q \in Qls, NEW p \in Pris, NEW h \in Hops
      PROVE  [e EXCEPT !.ql = q, !.pri = p, !.hops = h] \in PortEntry
  <2>1. q \in Nat /\ p \in 0 .. 255 /\ h \in 0 .. 255
    BY SelectionAssumption DEF MaxHops
  <2> QED
    BY <2>1 DEF PortEntry
<1>3. ASSUME NEW e \in PortEntry
      PROVE  [e EXCEPT !.type = IF @ = "external" THEN "monitoring" ELSE "external"] \in PortEntry
  BY DEF PortEntry
<1>4. EntriesOK /\ [Next]_<<entries, loQl>> => EntriesOK'
  <2> SUFFICES ASSUME EntriesOK, [Next]_<<entries, loQl>>
               PROVE  EntriesOK'
    OBVIOUS
  <2>1. ASSUME NEW s \in Syncs, NEW q \in Qls, NEW p \in Pris, NEW h \in Hops, loQl' = loQl,
               entries' = [entries EXCEPT ![s].ql = q, ![s].pri = p, ![s].hops = h]
        PROVE  EntriesOK'
    <3> DEFINE e == entries[s]
    <3>1. e \in PortEntry
      BY DEF EntriesOK
    <3>2. [e EXCEPT !.ql = q, !.pri = p, !.hops = h] \in PortEntry
      BY <1>2, <3>1
    <3>3. entries' \in [Syncs -> PortEntry]
      BY <2>1, <3>2 DEF EntriesOK
    <3> QED
      BY <2>1, <3>3 DEF EntriesOK
  <2>2. ASSUME NEW s \in Syncs, loQl' = loQl,
               entries' = [entries EXCEPT ![s].type =
                             IF @ = "external" THEN "monitoring" ELSE "external"]
        PROVE  EntriesOK'
    <3> DEFINE e == entries[s]
    <3>1. e \in PortEntry
      BY DEF EntriesOK
    <3>2. [e EXCEPT !.type = IF @ = "external" THEN "monitoring" ELSE "external"] \in PortEntry
      BY <1>3, <3>1
    <3>3. entries' \in [Syncs -> PortEntry]
      BY <2>2, <3>2 DEF EntriesOK
    <3> QED
      BY <2>2, <3>3 DEF EntriesOK
  <2>3. CASE UNCHANGED <<entries, loQl>>
    BY <2>3 DEF EntriesOK
  <2> QED
    BY <2>1, <2>2, <2>3 DEF Next
<1> QED
  BY <1>1, <1>4, PTL DEF Spec

(* What the run gives to the selection, in its terms. *)
LEMMA TableOfEntries ==
  ASSUME EntriesOK
  PROVE  /\ SelectionTable(Table, LoRank(loQl, LoPri, DoNotUseQl))
         /\ Candidates(Table, LoRank(loQl, LoPri, DoNotUseQl)) = Offered
         /\ \A s, t \in Syncs : Better(Table, s, t) <=> Before(s, t)
<1> DEFINE limit == LoRank(loQl, LoPri, DoNotUseQl)
           R(s) == CalculateRank(entries[s].ql, entries[s].pri, entries[s].hops)
<1>1. /\ DOMAIN Table = Syncs
      /\ \A s \in Syncs : /\ Table[s].type = entries[s].type
                          /\ Table[s].clkIdx = entries[s].clkIdx
                          /\ Table[s].rank = R(s)
  BY DEF Table
<1>2. \A s \in Syncs : /\ entries[s].type \in {"synce", "external", "monitoring"}
                       /\ entries[s].clkIdx \in Nat /\ entries[s].ql \in Nat
                       /\ entries[s].pri \in 0 .. 255 /\ entries[s].hops \in 0 .. 255
  BY DEF EntriesOK, PortEntry
<1>3. \A s \in Syncs : R(s) \in Nat
  <2> SUFFICES ASSUME NEW s \in Syncs
               PROVE  R(s) \in Nat
    OBVIOUS
  <2>1. entries[s].ql \in Nat /\ entries[s].pri \in 0 .. 255 /\ entries[s].hops \in 0 .. 255
    BY <1>2
  <2> QED
    BY <2>1, RankIsNat
<1>4. \A s, t \in Syncs : Better(Table, s, t) <=> Before(s, t)
  <2> SUFFICES ASSUME NEW s \in Syncs, NEW t \in Syncs
               PROVE  Better(Table, s, t) <=> Before(s, t)
    OBVIOUS
  <2> DEFINE a == entries[s]
             b == entries[t]
  <2>1. /\ a.ql \in Nat /\ a.pri \in 0 .. 255 /\ a.hops \in 0 .. 255
        /\ b.ql \in Nat /\ b.pri \in 0 .. 255 /\ b.hops \in 0 .. 255
    BY <1>2
  <2>2. /\ R(s) < R(t) <=> Precede(a.ql, a.pri, a.hops, b.ql, b.pri, b.hops)
        /\ R(s) = R(t) <=> Agree(a.ql, a.pri, a.hops, b.ql, b.pri, b.hops)
    BY <2>1, RankOrder
  <2> HIDE DEF R
  <2> QED
    BY <1>1, <2>2 DEF Better, Before, Precede, Agree
<1>5. \A s \in Syncs : R(s) < limit <=> BeatsLo(s)
  <2> SUFFICES ASSUME NEW s \in Syncs
               PROVE  R(s) < limit <=> BeatsLo(s)
    OBVIOUS
  <2> DEFINE a == entries[s]
  <2>1. a.ql \in Nat /\ a.pri \in 0 .. 255 /\ a.hops \in 0 .. 255
    BY <1>2
  <2>2. CASE loQl < DoNotUseQl
    <3>1. limit = CalculateRank(loQl, LoPri, 255)
      BY <2>2 DEF LoRank, MaxHops
    <3>2. loQl \in Nat /\ LoPri \in 0 .. 255 /\ 255 \in 0 .. 255
      BY SelectionAssumption DEF EntriesOK
    <3>3. CalculateRank(a.ql, a.pri, a.hops) < CalculateRank(loQl, LoPri, 255)
            <=> Precede(a.ql, a.pri, a.hops, loQl, LoPri, 255)
      BY <2>1, <3>2, RankOrder
    <3> HIDE DEF limit
    <3> QED
      BY <2>2, <3>1, <3>3 DEF BeatsLo, MaxHops, Precede
  <2>3. CASE ~(loQl < DoNotUseQl)
    <3>1. limit = CalculateRank(DoNotUseQl, 0, 0)
      BY <2>3 DEF LoRank
    <3>2. DoNotUseQl \in Nat /\ 0 \in 0 .. 255
      BY SelectionAssumption
    <3>3. CalculateRank(a.ql, a.pri, a.hops) < CalculateRank(DoNotUseQl, 0, 0)
            <=> Precede(a.ql, a.pri, a.hops, DoNotUseQl, 0, 0)
      BY <2>1, <3>2, RankOrder
    <3> HIDE DEF limit
    <3> QED
      BY <2>1, <2>3, <3>1, <3>3 DEF BeatsLo, Precede
  <2> QED
    BY <2>2, <2>3
<1>6. Candidates(Table, limit) = Offered
  <2> HIDE DEF limit, R
  <2> QED
    BY <1>1, <1>2, <1>5 DEF Candidates, Offered, SelectableTypes
<1>7. IsFiniteSet(Syncs) /\ Syncs \subseteq Nat
  BY SelectionAssumption, FS_Interval DEF Syncs
<1> QED
  BY <1>1, <1>2, <1>3, <1>4, <1>6, <1>7 DEF SelectionTable, Offered

(* control.c:43-162, for up to 256 ports of any QL, priority and hop count.  *)
THEOREM SelectionIsOrdered == Spec => []DeviceTableIsOrdered
<1>1. EntriesOK => DeviceTableIsOrdered
  <2> SUFFICES ASSUME EntriesOK
               PROVE  DeviceTableIsOrdered
    OBVIOUS
  <2> DEFINE cands == Candidates(Table, LoRank(loQl, LoPri, DoNotUseQl))
  <2>1. /\ Len(DeviceTable) = Cardinality(cands)
        /\ \A s \in cands : DeviceTable[Place(Table, cands, s)] = Entry(Table, s)
    BY TableOfEntries, PriorityTableIsSorted DEF DeviceTable
  <2>2. cands = Offered /\ Offered \subseteq Syncs
    BY TableOfEntries DEF Offered
  <2> HIDE DEF cands
  <2>3. ASSUME NEW s \in Offered
        PROVE  /\ Place(Table, Offered, s) = 1 + Cardinality({t \in Offered : Before(t, s)})
               /\ Entry(Table, s).clkIdx = entries[s].clkIdx
    <3>1. {t \in Offered : Better(Table, t, s)} = {t \in Offered : Before(t, s)}
      BY <2>2, TableOfEntries
    <3> QED
      BY <2>2, <3>1 DEF Place, Entry, Table
  <2> QED
    BY <2>1, <2>2, <2>3 DEF DeviceTableIsOrdered
<1> QED
  BY <1>1, EntriesStayOK, PTL
-----------------------------------------------------------------------------
(* A function that is what the run is, on the last 14 - skip instructions. *)
IsRun(prog, fr, f, skip) == f = [pc \in skip + 1 .. 14 |-> Instruction(prog, fr, f, pc)]

(* A run only goes forward: whatever an instruction reads is of later ones. *)
Forward(prog) ==
    \A pc \in 1 .. 14 :
        prog[pc].op # "return" =>
            /\ prog[pc].op = "load" => prog[pc].k \in Accumulated /\ pc < 14
            /\ prog[pc].t \in Nat /\ prog[pc].f \in Nat
            /\ pc + 1 + prog[pc].t <= 14 /\ pc + 1 + prog[pc].f <= 14

(* So there is such a function, by induction from the last instruction back. *)
LEMMA RunDefined ==
  ASSUME NEW prog, NEW fr, Forward(prog)
  PROVE  IsRun(prog, fr, Run(prog, fr), 0)
<1> DEFINE Has(n) == \E f : IsRun(prog, fr, f, 14 - n)
           Bad    == {n \in 0 .. 14 : ~Has(n)}
<1>1. Bad = {}
  <2> SUFFICES ASSUME Bad # {}
               PROVE  FALSE
    OBVIOUS
  <2>1. PICK n \in Bad : \A k \in Bad : n <= k
    <3>1. Bad \subseteq Nat
      OBVIOUS
    <3> QED
      BY <3>1, LeastNatural
  <2>2. n # 0
    <3> DEFINE e == [pc \in 15 .. 14 |-> {}]
    <3>1. IsRun(prog, fr, e, 14)
      BY DEF IsRun
    <3>2. 14 - 0 = 14 /\ Has(0)
      BY <3>1
    <3> QED
      BY <2>1, <3>2
  <2>3. PICK f : IsRun(prog, fr, f, 14 - (n - 1))
    <3>1. n - 1 \in 0 .. 14 /\ n - 1 \notin Bad
      BY <2>1, <2>2
    <3> QED
      BY <3>1
  <2> DEFINE first == 15 - n
             g == [pc \in first .. 14 |-> IF pc = first THEN Instruction(prog, fr, f, pc) ELSE f[pc]]
  <2>4. /\ first \in 1 .. 14 /\ 14 - n + 1 = first /\ 14 - (n - 1) + 1 = first + 1
        /\ n \in 1 .. 14
    BY <2>1, <2>2
  <2>5. f = [pc \in first + 1 .. 14 |-> Instruction(prog, fr, f, pc)]
    BY <2>3, <2>4 DEF IsRun
  <2> HIDE DEF first
  <2>6. \A pc \in first .. 14 : Instruction(prog, fr, f, pc) = Instruction(prog, fr, g, pc)
    <3> SUFFICES ASSUME NEW pc \in first .. 14, NEW acc \in Accumulated
                 PROVE  Instruction(prog, fr, f, pc)[acc] = Instruction(prog, fr, g, pc)[acc]
      BY DEF Instruction
    <3>1. pc \in 1 .. 14
      BY <2>4
    <3>2. \A later \in pc + 1 .. 14 : g[later] = f[later]
      BY <2>4
    <3> DEFINE i == prog[pc]
               to == pc + 1 + (IF Test(i, Field(acc, fr)) THEN i.t ELSE i.f)
    <3>3. CASE i.op = "return"
      BY <3>3 DEF Instruction
    <3>4. CASE i.op # "return" /\ i.op = "load"
      <4>1. pc + 1 \in pc + 1 .. 14
        BY <3>1, <3>4 DEF Forward
      <4> QED
        BY <3>2, <3>4, <4>1 DEF Instruction
    <3>5. CASE i.op # "return" /\ i.op # "load"
      <4>1. to \in pc + 1 .. 14
        BY <3>1, <3>5 DEF Forward
      <4>2. g[to] = f[to]
        BY <3>2, <4>1
      <4>3. /\ Instruction(prog, fr, f, pc)[acc] = f[to][acc]
            /\ Instruction(prog, fr, g, pc)[acc] = g[to][acc]
        BY <3>5 DEF Instruction
      <4> QED
        BY <4>2, <4>3
    <3> QED
      BY <3>3, <3>4, <3>5
  <2>7. g = [pc \in first .. 14 |-> Instruction(prog, fr, g, pc)]
    <3>1. ASSUME NEW pc \in first .. 14
          PROVE  g[pc] = Instruction(prog, fr, f, pc)
      <4>1. CASE pc = first
        BY <4>1
      <4>2. CASE pc # first
        <5>1. pc \in first + 1 .. 14
          BY <2>4, <4>2
        <5>2. f[pc] = Instruction(prog, fr, f, pc)
          BY <2>5, <5>1
        <5> QED
          BY <4>2, <5>2
      <4> QED
        BY <4>1, <4>2
    <3> QED
      BY <2>6, <3>1
  <2>8. IsRun(prog, fr, g, 14 - n)
    BY <2>4, <2>7 DEF IsRun
  <2> QED
    BY <2>1, <2>8
<1>2. PICK f : IsRun(prog, fr, f, 0)
  <2>1. 14 \in 0 .. 14 /\ 14 - 14 = 0
    OBVIOUS
  <2> QED
    BY <1>1, <2>1
<1>3. f = [pc \in 1 .. 14 |-> Instruction(prog, fr, f, pc)]
  BY <1>2 DEF IsRun
<1> QED
  BY <1>3 DEF IsRun, Run

(* What an instruction does, by its kind. *)
LEMMA RunSteps ==
  ASSUME NEW prog, NEW fr, Forward(prog), NEW pc \in 1 .. 14, NEW acc \in Accumulated
  PROVE  LET run == Run(prog, fr)
             i   == prog[pc]
         IN  /\ i.op = "return" => run[pc][acc] = i.k
             /\ i.op = "load" => run[pc][acc] = run[pc + 1][i.k]
             /\ i.op \notin {"return", "load"} =>
                  /\ Test(i, Field(acc, fr)) => run[pc][acc] = run[pc + 1 + i.t][acc]
                  /\ ~Test(i, Field(acc, fr)) => run[pc][acc] = run[pc + 1 + i.f][acc]
<1> DEFINE run == Run(prog, fr)
           i   == prog[pc]
<1>1. IsRun(prog, fr, run, 0)
  BY RunDefined
<1> HIDE DEF run
<1>2. run[pc] = Instruction(prog, fr, run, pc)
  BY <1>1 DEF IsRun
<1>3. run[pc][acc] = Instruction(prog, fr, run, pc)[acc]
  BY <1>2
<1>4. i.op = "return" => run[pc][acc] = i.k
  BY <1>3 DEF Instruction
<1>5. i.op = "load" => run[pc][acc] = run[pc + 1][i.k]
  BY <1>3 DEF Instruction
<1>6. ASSUME i.op # "return", i.op # "load", Test(i, Field(acc, fr))
      PROVE  run[pc][acc] = run[pc + 1 + i.t][acc]
  BY <1>3, <1>6 DEF Instruction
<1>7. ASSUME i.op # "return", i.op # "load", ~Test(i, Field(acc, fr))
      PROVE  run[pc][acc] = run[pc + 1 + i.f][acc]
  BY <1>3, <1>7 DEF Instruction
<1> QED
  BY <1>4, <1>5, <1>6, <1>7 DEF run

(* The instructions of the filter, one by one. *)
Text(p, own) ==
    /\ p[1] = Load("dst.lo") /\ p[2] = Jump("eq", SlowMcast.lo, 0, 11)
    /\ p[3] = Load("dst.hi") /\ p[4] = Jump("eq", SlowMcast.hi, 0, 9)
    /\ p[5] = Load("src.lo") /\ p[6] = Jump("eq", own.lo, 0, 2)
    /\ p[7] = Load("src.hi") /\ p[8] = Jump("eq", own.hi, 5, 0)
    /\ p[9] = Load("proto")  /\ p[10] = Jump("eq", SlowProto, 0, 3)
    /\ p[11] = Load("len")   /\ p[12] = Jump("gt", MaxLength, 1, 0)
    /\ p[13] = Return(TRUE)  /\ p[14] = Return(FALSE)

LEMMA ProgramText == \A own : Text(Program(own), own)
BY DEF Text, Program

LEMMA ProgramForward == \A own : Forward(Program(own))
<1> SUFFICES ASSUME NEW own
             PROVE  Forward(Program(own))
  OBVIOUS
<1> DEFINE p == Program(own)
           Ok(i, pc) == /\ i.op = "load" => i.k \in Accumulated /\ pc < 14
                        /\ i.t \in Nat /\ i.f \in Nat
                        /\ pc + 1 + i.t <= 14 /\ pc + 1 + i.f <= 14
<1>0. Text(p, own)
  BY ProgramText
<1> HIDE DEF p
<1>2. Ok(p[2], 2)
  BY <1>0 DEF Text, Jump
<1>4. Ok(p[4], 4)
  BY <1>0 DEF Text, Jump
<1>6. Ok(p[6], 6)
  BY <1>0 DEF Text, Jump
<1>8. Ok(p[8], 8)
  BY <1>0 DEF Text, Jump
<1>10. Ok(p[10], 10)
  BY <1>0 DEF Text, Jump
<1>12. Ok(p[12], 12)
  BY <1>0 DEF Text, Jump
<1>13. p[13].op = "return" /\ p[14].op = "return"
  BY <1>0 DEF Text, Return
<1>14. \A pc \in {1, 3, 5, 7, 9, 11} : Ok(p[pc], pc)
  <2>1. \A pc \in {1, 3, 5, 7, 9, 11} : \E field \in Accumulated : p[pc] = Load(field)
    BY <1>0 DEF Text, Accumulated
  <2>2. \A field : Load(field).k = field /\ Load(field).t = 0 /\ Load(field).f = 0
    BY DEF Load
  <2> QED
    BY <2>1, <2>2
<1> HIDE DEF Ok
<1>15. \A pc \in 1 .. 14 : p[pc].op # "return" => Ok(p[pc], pc)
  BY <1>2, <1>4, <1>6, <1>8, <1>10, <1>12, <1>13, <1>14
<1> QED
  BY <1>15 DEF Forward, Ok, p

(* What the filter lets through, for the address patched into it. *)
LEMMA AcceptsExactly ==
  ASSUME NEW own, NEW fr, fr.len \in Nat
  PROVE  /\ Accepts(Program(own), fr) \in BOOLEAN
         /\ Accepts(Program(own), fr) <=>
              /\ fr.dst.lo = SlowMcast.lo /\ fr.dst.hi = SlowMcast.hi
              /\ ~(fr.src.lo = own.lo /\ fr.src.hi = own.hi)
              /\ fr.proto = SlowProto /\ fr.len <= MaxLength
<1> DEFINE p == Program(own)
           run == Run(p, fr)
<1>0. Text(p, own) /\ Forward(p)
  BY ProgramText, ProgramForward
<1> HIDE DEF p
<1>1. /\ "dst.lo" \in Accumulated /\ "dst.hi" \in Accumulated /\ "src.lo" \in Accumulated
      /\ "src.hi" \in Accumulated /\ "proto" \in Accumulated /\ "len" \in Accumulated
  BY DEF Accumulated
<1>2. /\ Field("dst.lo", fr) = fr.dst.lo /\ Field("dst.hi", fr) = fr.dst.hi
      /\ Field("src.lo", fr) = fr.src.lo /\ Field("src.hi", fr) = fr.src.hi
      /\ Field("proto", fr) = fr.proto /\ Field("len", fr) = fr.len
  BY DEF Field
<1>3. ASSUME NEW pc \in 1 .. 14, NEW acc \in Accumulated, NEW field \in Accumulated,
             p[pc] = Load(field)
      PROVE  run[pc][acc] = run[pc + 1][field]
  <2>1. p[pc].op = "load" /\ p[pc].k = field
    BY <1>3 DEF Load
  <2> QED
    BY <2>1, <1>0, RunSteps
<1>4. ASSUME NEW pc \in 1 .. 14, NEW acc \in Accumulated, NEW k, NEW t \in Nat, NEW f \in Nat,
             p[pc] = Jump("eq", k, t, f)
      PROVE  run[pc][acc] = IF Field(acc, fr) = k THEN run[pc + 1 + t][acc]
                                                  ELSE run[pc + 1 + f][acc]
  <2>1. p[pc].op = "eq" /\ p[pc].k = k /\ p[pc].t = t /\ p[pc].f = f
    BY <1>4 DEF Jump
  <2>2. Test(p[pc], Field(acc, fr)) <=> Field(acc, fr) = k
    BY <2>1 DEF Test
  <2> HIDE DEF run
  <2>3. /\ Test(p[pc], Field(acc, fr)) => run[pc][acc] = run[pc + 1 + p[pc].t][acc]
        /\ ~Test(p[pc], Field(acc, fr)) => run[pc][acc] = run[pc + 1 + p[pc].f][acc]
    BY <2>1, <1>0, RunSteps DEF run
  <2> QED
    BY <2>1, <2>2, <2>3
<1>5. ASSUME NEW acc \in Accumulated
      PROVE  run[13][acc] = TRUE /\ run[14][acc] = FALSE
  <2>1. p[13].op = "return" /\ p[13].k = TRUE /\ p[14].op = "return" /\ p[14].k = FALSE
    BY <1>0 DEF Text, Return
  <2> QED
    BY <2>1, <1>0, RunSteps
<1>6. run[12]["len"] = IF fr.len > MaxLength THEN FALSE ELSE TRUE
  <2>1. p[12].op = "gt" /\ p[12].k = MaxLength /\ p[12].t = 1 /\ p[12].f = 0
    BY <1>0 DEF Text, Jump
  <2>2. Test(p[12], Field("len", fr)) <=> fr.len > MaxLength
    BY <1>2, <2>1 DEF Test
  <2>3. /\ Test(p[12], Field("len", fr)) => run[12]["len"] = run[14]["len"]
        /\ ~Test(p[12], Field("len", fr)) => run[12]["len"] = run[13]["len"]
    BY <1>1, <2>1, <1>0, RunSteps
  <2> HIDE DEF run
  <2> QED
    BY <1>1, <1>5, <2>2, <2>3
<1> HIDE DEF run
<1>7. run[10]["proto"] = IF fr.proto = SlowProto THEN run[12]["len"] ELSE FALSE
  <2>1. run[10]["proto"] = IF fr.proto = SlowProto THEN run[11]["proto"] ELSE run[14]["proto"]
    BY <1>1, <1>2, <1>4, <1>0 DEF Text
  <2>2. run[11]["proto"] = run[12]["len"]
    BY <1>1, <1>3, <1>0 DEF Text
  <2> QED
    BY <1>1, <1>5, <2>1, <2>2
<1>8. \A acc \in Accumulated : run[9][acc] = run[10]["proto"]
  BY <1>1, <1>3, <1>0 DEF Text
<1>9. run[6]["src.lo"] = IF fr.src.lo = own.lo /\ fr.src.hi = own.hi THEN FALSE ELSE run[10]["proto"]
  <2>1. run[8]["src.hi"] = IF fr.src.hi = own.hi THEN run[14]["src.hi"] ELSE run[9]["src.hi"]
    BY <1>1, <1>2, <1>4, <1>0 DEF Text
  <2>2. run[6]["src.lo"] = IF fr.src.lo = own.lo THEN run[7]["src.lo"] ELSE run[9]["src.lo"]
    BY <1>1, <1>2, <1>4, <1>0 DEF Text
  <2>3. run[7]["src.lo"] = run[8]["src.hi"]
    BY <1>1, <1>3, <1>0 DEF Text
  <2>4. /\ run[9]["src.hi"] = run[10]["proto"] /\ run[9]["src.lo"] = run[10]["proto"]
        /\ run[14]["src.hi"] = FALSE
    BY <1>1, <1>5, <1>8
  <2> QED
    BY <2>1, <2>2, <2>3, <2>4
<1>10. run[4]["dst.hi"] = IF fr.dst.hi = SlowMcast.hi THEN run[6]["src.lo"] ELSE FALSE
  <2>1. run[4]["dst.hi"] = IF fr.dst.hi = SlowMcast.hi THEN run[5]["dst.hi"] ELSE run[14]["dst.hi"]
    BY <1>1, <1>2, <1>4, <1>0 DEF Text
  <2>2. run[5]["dst.hi"] = run[6]["src.lo"]
    BY <1>1, <1>3, <1>0 DEF Text
  <2> QED
    BY <1>1, <1>5, <2>1, <2>2
<1>11. run[2]["dst.lo"] = IF fr.dst.lo = SlowMcast.lo THEN run[4]["dst.hi"] ELSE FALSE
  <2>1. run[2]["dst.lo"] = IF fr.dst.lo = SlowMcast.lo THEN run[3]["dst.lo"] ELSE run[14]["dst.lo"]
    BY <1>1, <1>2, <1>4, <1>0 DEF Text
  <2>2. run[3]["dst.lo"] = run[4]["dst.hi"]
    BY <1>1, <1>3, <1>0 DEF Text
  <2> QED
    BY <1>1, <1>5, <2>1, <2>2
<1>12. Accepts(Program(own), fr) = run[2]["dst.lo"]
  <2>1. run[1]["len"] = run[2]["dst.lo"]
    BY <1>1, <1>3, <1>0 DEF Text
  <2> QED
    BY <2>1 DEF Accepts, run, p
<1>13. MaxLength \in Nat
  BY DEF MaxLength
<1> QED
  BY <1>6, <1>7, <1>9, <1>10, <1>11, <1>12, <1>13

(* The lower words there are, and the addresses made of them. *)
LowerWords == {a.lo : a \in Known \cup {NoAddress}}
Addr       == [hi : Nat, lo : LowerWords]
FrameType  == [dst : Addr, src : Addr, proto : Nat, len : Nat, on : RawPorts]
SockType   == [at : Places, own : Addr, queue : SUBSET {"esmc", "stray"}]

LEMMA KnownAddresses ==
  /\ NoAddress \in Addr /\ SlowMcast \in Addr /\ SlowProto \in Nat /\ MaxLength \in Nat
  /\ Address \in [RawPorts -> Addr] /\ Lengths \subseteq Nat
<1>1. \A a \in Known \cup {NoAddress} : a.lo \in LowerWords
  BY DEF LowerWords
<1>2. NoAddress.lo \in LowerWords /\ SlowMcast.lo \in LowerWords
  BY <1>1 DEF Known
<1>3. NoAddress \in Addr /\ SlowMcast \in Addr
  BY <1>2 DEF NoAddress, SlowMcast, Addr
<1>4. ASSUME NEW p \in RawPorts
      PROVE  Address[p] \in Addr
  <2>1. Address[p].lo \in LowerWords
    BY <1>1 DEF Known
  <2>2. Address[p] \in [hi : Nat, lo : STRING]
    BY RawAssumption
  <2> QED
    BY <2>1, <2>2 DEF Addr
<1> QED
  BY <1>3, <1>4, RawAssumption DEF SlowProto, MaxLength

(* A record of some socket, and of a closed one. *)
LEMMA SocketFields ==
  /\ \A s \in SockType : s.at \in Places /\ s.own \in Addr /\ s.queue \subseteq {"esmc", "stray"}
  /\ Closed \in SockType /\ Closed.at = "closed"
<1>1. NoAddress \in Addr
  BY KnownAddresses
<1> QED
  BY <1>1 DEF SockType, Closed, Places

(* One socket is opened at a time, the array holds its address until the     *)
(* filter is attached, and an attached filter has its own port's address.    *)
FiltersOwn ==
    /\ sock \in [RawPorts -> SockType]
    /\ onWire \subseteq FrameType /\ \A a, b \in onWire : a = b
    /\ \A p, q \in RawPorts : Opening(p) /\ Opening(q) => p = q
    /\ \A p \in RawPorts : Opening(p)  => patched = Address[p]
    /\ \A p \in RawPorts : Attached(p) => sock[p].own = Address[p]

(* Only one socket changes and is then what it was or closed, or one place    *)
(* further with the address of the array if that is when it is attached.      *)
LEMMA SocketStep ==
  ASSUME FiltersOwn, UNCHANGED onWire, NEW p \in RawPorts,
         NEW s \in SockType, sock' = [sock EXCEPT ![p] = s],
         \/ s.at \in {"closed", "open"}
         \/ s.at # "closed" /\ \A q \in RawPorts : q # p => ~Opening(q),
         s.at \in {"unbound", "bound", "filtered"} => patched' = Address[p],
         patched' = patched \/ \A q \in RawPorts : q # p => ~Opening(q),
         s.at \in {"filtered", "open"} => s.own = Address[p]
  PROVE  FiltersOwn'
<1>1. sock' \in [RawPorts -> SockType] /\ sock'[p] = s
  BY DEF FiltersOwn
<1>2. \A q \in RawPorts : q # p => sock'[q] = sock[q]
  BY DEF FiltersOwn
<1>3. \A q \in RawPorts : q # p => (Opening(q)' <=> Opening(q)) /\ (Attached(q)' <=> Attached(q))
  BY <1>2 DEF Opening, Attached
<1>4. (Opening(p)' <=> s.at \in {"unbound", "bound", "filtered"})
      /\ (Attached(p)' <=> s.at \in {"filtered", "open"})
  BY <1>1 DEF Opening, Attached
<1>5. (\A a, b \in onWire : a = b)' /\ (onWire \subseteq FrameType)'
  BY DEF FiltersOwn
<1>6. ASSUME NEW a \in RawPorts, NEW b \in RawPorts, Opening(a)', Opening(b)'
      PROVE  a = b
  BY <1>3, <1>4, <1>6 DEF FiltersOwn
<1>7. ASSUME NEW q \in RawPorts, Opening(q)'
      PROVE  patched' = Address[q]
  BY <1>3, <1>4, <1>7 DEF FiltersOwn
<1>8. ASSUME NEW q \in RawPorts, Attached(q)'
      PROVE  sock'[q].own = Address[q]
  BY <1>1, <1>2, <1>3, <1>4, <1>8 DEF FiltersOwn
<1> QED
  BY <1>1, <1>5, <1>6, <1>7, <1>8 DEF FiltersOwn

LEMMA SocketsFilterOwn == RawSpec => []FiltersOwn
<1> USE SocketFields
<1>1. /\ NoAddress \in Addr /\ SlowMcast \in Addr /\ SlowProto \in Nat /\ MaxLength \in Nat
      /\ Address \in [RawPorts -> Addr] /\ Lengths \subseteq Nat
  BY KnownAddresses
<1>2. RawInit => FiltersOwn
  BY DEF RawInit, FiltersOwn, Opening, Attached
<1>3. Frames \subseteq FrameType
  <2>1. Known \subseteq Addr
    BY <1>1 DEF Known
  <2>2. Addresses \subseteq Addr
    <3>1. \A a \in Known : a.hi \in Nat /\ a.lo \in LowerWords
      BY <2>1 DEF Addr
    <3> QED
      BY <3>1 DEF Addresses, Addr
  <2> QED
    <3> DEFINE Protos == {SlowProto, 2048}
    <3>1. Frames = [dst : Addresses, src : Addresses, proto : Protos, len : Lengths, on : RawPorts]
      BY DEF Frames
    <3>2. Protos \subseteq Nat
      BY <1>1
    <3> HIDE DEF Protos
    <3> QED
      BY <1>1, <2>2, <3>1, <3>2 DEF FrameType
<1>4. ASSUME FiltersOwn, [RawNext]_rawVars
      PROVE  FiltersOwn'
  <2> USE <1>4
  <2>1. CASE NextFrame
    <3>1. UNCHANGED <<patched, sock>> /\ \E fr \in FrameType : onWire' = {fr}
      BY <1>3, <2>1 DEF NextFrame
    <3> QED
      BY <3>1 DEF FiltersOwn, Opening, Attached
  <2>2. CASE Deliver
    <3>1. onWire' = {} /\ patched' = patched
      BY <2>2 DEF Deliver
    <3>2. sock' \in [RawPorts -> SockType]
          /\ \A p \in RawPorts : sock'[p].at = sock[p].at /\ sock'[p].own = sock[p].own
      <4>1. PICK fr \in onWire, dropped \in SUBSET {p \in RawPorts : sock[p].at # "open"} :
              sock' = [p \in RawPorts |->
                IF Passes(p, fr) /\ p \notin dropped
                THEN [sock[p] EXCEPT !.queue = @ \cup {Kind(p, fr)}] ELSE sock[p]]
        BY <2>2 DEF Deliver
      <4>2. ASSUME NEW p \in RawPorts
            PROVE  /\ sock'[p] \in SockType
                   /\ sock'[p].at = sock[p].at /\ sock'[p].own = sock[p].own
        <5>1. sock[p] \in SockType
          BY DEF FiltersOwn
        <5>2. Kind(p, fr) \in {"esmc", "stray"}
          BY DEF Kind
        <5>3. [sock[p] EXCEPT !.queue = @ \cup {Kind(p, fr)}] \in SockType
              /\ [sock[p] EXCEPT !.queue = @ \cup {Kind(p, fr)}].at = sock[p].at
              /\ [sock[p] EXCEPT !.queue = @ \cup {Kind(p, fr)}].own = sock[p].own
          BY <5>1, <5>2 DEF SockType
        <5> QED
          BY <4>1, <5>1, <5>3
      <4> QED
        BY <4>1, <4>2
    <3> QED
      BY <3>1, <3>2 DEF FiltersOwn, Opening, Attached
  <2>3. ASSUME NEW p \in RawPorts,
               RawOpen(p) \/ RawBind(p) \/ RawAttach(p) \/ RawJoin(p) \/ RawClose(p) \/ RawReceive(p)
        PROVE  FiltersOwn'
    <3>1. sock[p] \in SockType
      BY DEF FiltersOwn
    <3>2. CASE RawOpen(p)
      <4>1. UNCHANGED onWire /\ patched' = Address[p] /\ \A q \in RawPorts : ~Opening(q)
        BY <3>2 DEF RawOpen
      <4>2. CASE sock' = [sock EXCEPT ![p].at = "unbound"]
        <5> DEFINE s == [sock[p] EXCEPT !.at = "unbound"]
        <5>1. s \in SockType /\ s.at = "unbound"
          BY <3>1 DEF SockType, Places
        <5>2. sock' = [sock EXCEPT ![p] = s]
          BY <4>2
        <5> HIDE DEF s
        <5> QED
          BY <4>1, <5>1, <5>2, SocketStep
      <4>3. CASE UNCHANGED sock
        BY <4>1, <4>3 DEF FiltersOwn, Opening, Attached
      <4> QED
        BY <3>2, <4>2, <4>3 DEF RawOpen
    <3>3. CASE sock' = [sock EXCEPT ![p] = Closed] /\ UNCHANGED <<patched, onWire>>
      BY <3>3, SocketStep
    <3>4. CASE RawBind(p) /\ sock' = [sock EXCEPT ![p].at = "bound"]
      <4> DEFINE s == [sock[p] EXCEPT !.at = "bound"]
      <4>1. Opening(p) /\ UNCHANGED <<patched, onWire>>
        BY <3>4 DEF RawBind, Opening
      <4>2. patched' = Address[p] /\ \A q \in RawPorts : q # p => ~Opening(q)
        BY <4>1 DEF FiltersOwn
      <4>3. s \in SockType /\ s.at = "bound"
        BY <3>1 DEF SockType, Places
      <4>4. sock' = [sock EXCEPT ![p] = s]
        BY <3>4
      <4> HIDE DEF s
      <4> QED
        BY <4>1, <4>2, <4>3, <4>4, SocketStep
    <3>5. CASE RawAttach(p) /\ sock' = [sock EXCEPT ![p].at = "filtered", ![p].own = patched]
      <4> DEFINE s == [sock[p] EXCEPT !.at = "filtered", !.own = patched]
      <4>1. Opening(p) /\ UNCHANGED <<patched, onWire>>
        BY <3>5 DEF RawAttach, Opening
      <4>2. patched = Address[p] /\ \A q \in RawPorts : q # p => ~Opening(q)
        BY <4>1 DEF FiltersOwn
      <4>3. s \in SockType /\ s.at = "filtered" /\ s.own = Address[p]
        BY <1>1, <3>1, <4>2 DEF SockType, Places
      <4>4. sock' = [sock EXCEPT ![p] = s]
        BY <3>5, <3>1 DEF FiltersOwn, SockType
      <4> HIDE DEF s
      <4> QED
        BY <4>1, <4>2, <4>3, <4>4, SocketStep
    <3>6. CASE RawJoin(p) /\ sock' = [sock EXCEPT ![p].at = "open"]
      <4> DEFINE s == [sock[p] EXCEPT !.at = "open"]
      <4>1. Attached(p) /\ UNCHANGED <<patched, onWire>>
        BY <3>6 DEF RawJoin, Attached
      <4>2. sock[p].own = Address[p]
        BY <4>1 DEF FiltersOwn
      <4>3. s \in SockType /\ s.at = "open" /\ s.own = Address[p]
        BY <3>1, <4>2 DEF SockType, Places
      <4>4. sock' = [sock EXCEPT ![p] = s]
        BY <3>6
      <4> HIDE DEF s
      <4> QED
        BY <4>1, <4>3, <4>4, SocketStep
    <3>7. CASE RawReceive(p)
      <4>1. PICK kind \in sock[p].queue : sock' = [sock EXCEPT ![p].queue = @ \ {kind}]
        BY <3>7 DEF RawReceive
      <4> DEFINE s == [sock[p] EXCEPT !.queue = @ \ {kind}]
      <4>2. s \in SockType /\ s.at = "open" /\ s.own = sock[p].own
        BY <3>1, <3>7 DEF SockType, RawReceive
      <4>3. sock' = [sock EXCEPT ![p] = s] /\ UNCHANGED <<patched, onWire>>
        BY <3>7, <4>1 DEF RawReceive
      <4>4. sock[p].own = Address[p]
        BY <3>7 DEF RawReceive, Attached, FiltersOwn
      <4> HIDE DEF s
      <4> QED
        BY <4>2, <4>3, <4>4, SocketStep
    <3> QED
      BY <2>3, <3>2, <3>3, <3>4, <3>5, <3>6, <3>7 DEF RawBind, RawAttach, RawJoin, RawClose
  <2>4. CASE UNCHANGED rawVars
    BY <2>4 DEF rawVars, FiltersOwn, Opening, Attached
  <2> QED
    BY <2>1, <2>2, <2>3, <2>4 DEF RawNext
<1> QED
  BY <1>2, <1>4, PTL DEF RawSpec

(* raw_socket.c:46-98 with 108-140: for any ports with any addresses, opened *)
(* and closed in any order, and for every frame of a length that is a number.*)
(* Two records are the same address if both words are.                       *)
THEOREM FilterLetsThroughExactly == RawSpec => FilterIsExact
<1> DEFINE Exact ==
      \A p \in RawPorts, fr \in onWire : Deliver =>
        /\ Attached(p) /\ "stray" \in sock'[p].queue => "stray" \in sock[p].queue
        /\ sock[p].at = "open" /\ Esmc(p, fr) => "esmc" \in sock'[p].queue
<1>1. ASSUME FiltersOwn
      PROVE  Exact
  <2> USE <1>1
  <2> SUFFICES ASSUME NEW p \in RawPorts, NEW fr \in onWire, Deliver
               PROVE  /\ Attached(p) /\ "stray" \in sock'[p].queue => "stray" \in sock[p].queue
                      /\ sock[p].at = "open" /\ Esmc(p, fr) => "esmc" \in sock'[p].queue
    OBVIOUS
  <2>1. PICK gone \in SUBSET {q \in RawPorts : sock[q].at # "open"} :
          sock' = [q \in RawPorts |->
            IF Passes(q, fr) /\ q \notin gone
            THEN [sock[q] EXCEPT !.queue = @ \cup {Kind(q, fr)}] ELSE sock[q]]
    <3>1. PICK f2 \in onWire, gone \in SUBSET {q \in RawPorts : sock[q].at # "open"} :
            sock' = [q \in RawPorts |->
              IF Passes(q, f2) /\ q \notin gone
              THEN [sock[q] EXCEPT !.queue = @ \cup {Kind(q, f2)}] ELSE sock[q]]
      BY DEF Deliver
    <3>2. f2 = fr
      BY DEF FiltersOwn
    <3> QED
      BY <3>1, <3>2
  <2>2. sock[p] \in SockType /\ fr \in FrameType
    BY DEF FiltersOwn
  <2>3. ASSUME Attached(p)
        PROVE  Passes(p, fr) <=> Esmc(p, fr)
    <3>1. sock[p].own = Address[p] /\ Address[p] \in Addr /\ SlowMcast \in Addr
      BY <2>3, KnownAddresses DEF FiltersOwn
    <3>2. fr.dst \in Addr /\ fr.src \in Addr /\ fr.len \in Nat
      BY <2>2 DEF FrameType
    <3>3. \A a, b \in Addr : a = b <=> a.hi = b.hi /\ a.lo = b.lo
      BY DEF Addr
    <3>4. Accepts(Program(sock[p].own), fr) <=>
            /\ fr.dst.lo = SlowMcast.lo /\ fr.dst.hi = SlowMcast.hi
            /\ ~(fr.src.lo = sock[p].own.lo /\ fr.src.hi = sock[p].own.hi)
            /\ fr.proto = SlowProto /\ fr.len <= MaxLength
      BY <3>2, AcceptsExactly
    <3>5. Accepts(Program(sock[p].own), fr) <=>
            /\ fr.dst = SlowMcast /\ fr.src # Address[p]
            /\ fr.proto = SlowProto /\ fr.len <= MaxLength
      BY <3>1, <3>2, <3>3, <3>4
    <3> QED
      BY <2>3, <3>5 DEF Passes, Esmc, Attached
  <2>4. [sock[p] EXCEPT !.queue = @ \cup {Kind(p, fr)}].queue = sock[p].queue \cup {Kind(p, fr)}
    BY <2>2 DEF SockType
  <2>5. ASSUME Attached(p), "stray" \in sock'[p].queue
        PROVE  "stray" \in sock[p].queue
    BY <2>1, <2>3, <2>4, <2>5 DEF Kind
  <2>6. ASSUME sock[p].at = "open", Esmc(p, fr)
        PROVE  "esmc" \in sock'[p].queue
    <3>1. Attached(p) /\ p \notin gone
      BY <2>6 DEF Attached
    <3> QED
      BY <2>1, <2>3, <2>4, <2>6, <3>1 DEF Kind
  <2> QED
    BY <2>5, <2>6
<1>2. FiltersOwn => [Exact]_rawVars
  BY <1>1
<1> HIDE DEF Exact
<1>3. RawSpec => [][Exact]_rawVars
  BY <1>2, SocketsFilterOwn, PTL
<1> QED
  BY <1>3 DEF FilterIsExact, Exact
-----------------------------------------------------------------------------
(* The codes of quality levels: esmc.c:134-387 against 418-646.              *)

(* The QLs of an option that have an SSM code of their own are read from it,  *)
(* and no code is another's.                                                 *)
LEMMA PlainCodesRead ==
  ASSUME NEW o \in Options, NEW q \in DOMAIN PlainCode[o]
  PROVE  PlainCode[o][q] \in 0 .. 15 /\ PlainQl[o][PlainCode[o][q] + 1] = q
<1>1. CASE o = 1
  BY <1>1 DEF PlainCode, PlainQl
<1>2. CASE o = 2
  BY <1>2 DEF PlainCode, PlainQl
<1>3. CASE o = 3
  BY <1>3 DEF PlainCode, PlainQl
<1> QED
  BY <1>1, <1>2, <1>3 DEF Options

(* So are those with an enhanced code, from the pair of codes. *)
LEMMA EnhancedCodesRead ==
  ASSUME NEW o \in Options, NEW q \in DOMAIN EnhancedCode[o]
  PROVE  LET c == EnhancedCode[o][q] IN
         /\ c[1] \in 0 .. 15 /\ c[2] \notin {NONE, EEC}
         /\ <<c[1], c[2], q>> \in EnhancedQl[o]
         /\ \A r \in EnhancedQl[o] : r[1] = c[1] /\ r[2] = c[2] => r[3] = q
<1> USE DEF EnhancedCode, EnhancedQl, NONE, EEC, PRTC, ePRTC, eEEC, ePRC
<1>1. CASE o = 1
  BY <1>1
<1>2. CASE o = 2
  BY <1>2
<1>3. CASE o = 3
  BY <1>3
<1> QED
  BY <1>1, <1>2, <1>3 DEF Options

(* Whatever is sent is read as it was meant. *)
LEMMA CodesReadBack ==
  ASSUME NEW o \in Options, NEW q, HasCode(o, q)
  PROVE  /\ CodeOf(o, q)[1] \in 0 .. 15
         /\ QlsOf(o, CodeOf(o, q)[1], CodeOf(o, q)[2]) = {q}
<1>1. CASE q \in DOMAIN EnhancedCode[o]
  <2> DEFINE c == EnhancedCode[o][q]  readings == {r \in EnhancedQl[o] : r[1] = c[1]}
  <2>1. /\ c[1] \in 0 .. 15 /\ c[2] \notin {NONE, EEC}
        /\ <<c[1], c[2], q>> \in EnhancedQl[o]
        /\ \A r \in EnhancedQl[o] : r[1] = c[1] /\ r[2] = c[2] => r[3] = q
    BY <1>1, EnhancedCodesRead
  <2>2. CodeOf(o, q) = c
    BY <1>1 DEF CodeOf
  <2>3. <<c[1], c[2], q>>[1] = c[1] /\ <<c[1], c[2], q>>[2] = c[2] /\ <<c[1], c[2], q>>[3] = q
    OBVIOUS
  <2> HIDE DEF c
  <2>4. readings # {} /\ {r[3] : r \in {x \in readings : x[2] = c[2]}} = {q}
    BY <2>1, <2>3
  <2> QED
    BY <2>1, <2>2, <2>4 DEF QlsOf
<1>2. CASE q \notin DOMAIN EnhancedCode[o]
  <2>1. q \in DOMAIN PlainCode[o] /\ CodeOf(o, q) = <<PlainCode[o][q], EEC>>
    BY <1>2 DEF HasCode, CodeOf
  <2>2. PlainCode[o][q] \in 0 .. 15 /\ PlainQl[o][PlainCode[o][q] + 1] = q
    BY <2>1, PlainCodesRead
  <2> QED
    BY <2>1, <2>2 DEF QlsOf
<1> QED
  BY <1>1, <1>2

(* Every QL with a code is in the enumeration. *)
LEMMA CodedIsNamed ==
  ASSUME NEW o \in Options, NEW q, HasCode(o, q)
  PROVE  q \in Names(o)
<1>1. CASE o = 1
  BY <1>1 DEF HasCode, Names, EnhancedCode, PlainCode, Enum
<1>2. CASE o = 2
  BY <1>2 DEF HasCode, Names, EnhancedCode, PlainCode, Enum
<1>3. CASE o = 3
  BY <1>3 DEF HasCode, Names, EnhancedCode, PlainCode, Enum
<1> QED
  BY <1>1, <1>2, <1>3 DEF Options

(* The names are all different. *)
LEMMA EnumInjective ==
  ASSUME NEW o \in Options, NEW j \in DOMAIN Enum[o], NEW k \in DOMAIN Enum[o],
         Enum[o][j] = Enum[o][k]
  PROVE  j = k
<1>1. CASE o = 1
  BY <1>1 DEF Enum
<1>2. CASE o = 2
  BY <1>2 DEF Enum
<1>3. CASE o = 3
  BY <1>3 DEF Enum
<1> QED
  BY <1>1, <1>2, <1>3 DEF Options

(* The better of two clocks comes first. *)
LEMMA FirstIsNotWorse ==
  ASSUME NEW o \in Options, NEW j \in DOMAIN Enum[o], NEW k \in DOMAIN Enum[o], j <= k
  PROVE  NotWorse(o, Enum[o][j], Enum[o][k])
<1>1. Index(o, Enum[o][j]) = j /\ Index(o, Enum[o][k]) = k
  BY EnumInjective DEF Index
<1> QED
  BY <1>1 DEF NotWorse

(* Nor does the SSM code alone make more of an enhanced QL than it is. *)
LEMMA EnhancedIsNotWorse ==
  ASSUME NEW o \in Options, NEW q \in DOMAIN EnhancedCode[o]
  PROVE  \E j, k \in DOMAIN Enum[o] : /\ j <= k /\ Enum[o][j] = q
                                      /\ Enum[o][k] = PlainQl[o][EnhancedCode[o][q][1] + 1]
<1> DEFINE Found(j, k) == /\ j \in DOMAIN Enum[o] /\ k \in DOMAIN Enum[o] /\ j <= k
                          /\ Enum[o][j] = q
                          /\ Enum[o][k] = PlainQl[o][EnhancedCode[o][q][1] + 1]
<1>1. CASE o = 1
  <2>1. \/ q = "ePRTC" /\ Found(1, 4)
        \/ q = "PRTC" /\ Found(2, 4)
        \/ q = "ePRC" /\ Found(3, 4)
        \/ q = "eSEC" /\ Found(7, 8)
    BY <1>1 DEF EnhancedCode, PlainQl, Enum
  <2> QED
    BY <2>1
<1>2. CASE o = 2
  <2>1. \/ q = "ePRTC" /\ Found(1, 4)
        \/ q = "PRTC" /\ Found(2, 4)
        \/ q = "ePRC" /\ Found(3, 4)
        \/ q = "eEEC" /\ Found(9, 10)
    BY <1>2 DEF EnhancedCode, PlainQl, Enum
  <2> QED
    BY <2>1
<1>3. CASE o = 3
  BY <1>3 DEF EnhancedCode
<1> QED
  BY <1>1, <1>2, <1>3 DEF Options

LEMMA CodesAreNotBetter ==
  ASSUME NEW o \in Options, NEW q, HasCode(o, q), NEW r \in QlsOf(o, CodeOf(o, q)[1], NONE)
  PROVE  NotWorse(o, q, r)
<1>1. CodeOf(o, q)[1] \in 0 .. 15 /\ r = PlainQl[o][CodeOf(o, q)[1] + 1]
  BY CodesReadBack DEF QlsOf
<1>2. CASE q \in DOMAIN EnhancedCode[o]
  <2>1. PICK j, k \in DOMAIN Enum[o] : /\ j <= k /\ Enum[o][j] = q
                                       /\ Enum[o][k] = PlainQl[o][EnhancedCode[o][q][1] + 1]
    BY <1>2, EnhancedIsNotWorse
  <2>2. Enum[o][k] = r
    BY <1>1, <1>2, <2>1 DEF CodeOf
  <2> QED
    BY <2>1, <2>2, FirstIsNotWorse
<1>3. CASE q \notin DOMAIN EnhancedCode[o]
  <2>1. q \in DOMAIN PlainCode[o] /\ CodeOf(o, q)[1] = PlainCode[o][q]
    BY <1>3 DEF HasCode, CodeOf
  <2>2. r = q
    BY <1>1, <2>1, PlainCodesRead
  <2>3. PICK k \in DOMAIN Enum[o] : Enum[o][k] = q
    BY CodedIsNamed DEF Names
  <2>4. k <= k
    BY DEF Enum, Options
  <2> QED
    BY <2>2, <2>3, <2>4, FirstIsNotWorse
<1> QED
  BY <1>2, <1>3

(* What the wire last carried is a QL and its codes. *)
WireCarriesCodes ==
    /\ opt \in Options
    /\ wire # <<>> => /\ HasCode(opt, wire.ql)
                      /\ wire.ssm = CodeOf(opt, wire.ql)[1]
                      /\ wire.eSsm = CodeOf(opt, wire.ql)[2]

LEMMA WireStays == SsmSpec => []WireCarriesCodes
<1>1. SsmInit => WireCarriesCodes
  BY DEF SsmInit, WireCarriesCodes
<1>2. WireCarriesCodes /\ [SsmNext]_ssmVars => WireCarriesCodes'
  <2> SUFFICES ASSUME WireCarriesCodes, [SsmNext]_ssmVars
               PROVE  WireCarriesCodes'
    OBVIOUS
  <2>1. CASE UNCHANGED <<opt, wire>>
    BY <2>1 DEF WireCarriesCodes
  <2>2. CASE Transmit
    BY <2>2 DEF Transmit, WireCarriesCodes
  <2> QED
    BY <2>1, <2>2 DEF SsmNext, ssmVars, Hear, ForceQl
<1> QED
  BY <1>1, <1>2, PTL DEF SsmSpec

(* esmc.c:134-387 against 418-646: for any QLs the operator may set, also    *)
(* those without a code, the two tables are inverse.                         *)
THEOREM SentIsReadBack == SsmSpec => []ReadAsSent
<1>1. WireCarriesCodes => ReadAsSent
  BY CodesReadBack DEF WireCarriesCodes, ReadAsSent
<1> QED
  BY <1>1, WireStays, PTL

(* esmc.c:680-688: a node without enhanced codes errs on the safe side only. *)
THEOREM PlainNodeNeverUpgrades == SsmSpec => []NeverReadAsBetter
<1>1. WireCarriesCodes => NeverReadAsBetter
  BY CodesAreNotBetter DEF WireCarriesCodes, NeverReadAsBetter
<1> QED
  BY <1>1, WireStays, PTL
-----------------------------------------------------------------------------
(* Every QL that is read from a PDU can be sent. *)
LEMMA ReadHasCode ==
  ASSUME NEW o \in Options, NEW s, NEW e, NEW q \in QlsOf(o, s, e)
  PROVE  HasCode(o, q)
<1>1. \A i \in 0 .. 15 : PlainQl[o][i + 1] \in DOMAIN PlainCode[o]
  <2>1. CASE o = 1
    BY <2>1 DEF PlainQl, PlainCode
  <2>2. CASE o = 2
    BY <2>2 DEF PlainQl, PlainCode
  <2>3. CASE o = 3
    BY <2>3 DEF PlainQl, PlainCode
  <2> QED
    BY <2>1, <2>2, <2>3 DEF Options
<1>2. \A r \in EnhancedQl[o] : r[3] \in DOMAIN EnhancedCode[o]
  BY DEF EnhancedQl, EnhancedCode, Options
<1> QED
  BY <1>1, <1>2 DEF QlsOf, HasCode

(* port.c:372-375: the TX threads go on as long as the operator is kept from *)
(* the QLs without a code (ssm_no_code: of option 2, the oscillator's ST4).  *)
THEOREM CodedQlsKeepTxRunning ==
    ASSUME \A o \in Options : \A q \in Settable[o] : HasCode(o, q)
    PROVE  SsmSpec => []TxKeepsRunning
<1> DEFINE Running == /\ tx = "running" /\ opt \in Options
                      /\ HasCode(opt, lo) /\ HasCode(opt, ql)
<1>1. SsmInit => Running
  <2>1. \A o \in Options : HasCode(o, DefaultQl[o])
    BY DEF Options, DefaultQl, HasCode, PlainCode, EnhancedCode
  <2> QED
    BY <2>1 DEF SsmInit
<1>2. Running /\ [SsmNext]_ssmVars => Running'
  <2> SUFFICES ASSUME Running, [SsmNext]_ssmVars
               PROVE  Running'
    OBVIOUS
  <2>1. ASSUME NEW pdu \in Pdus, Hear(pdu)
        PROVE  Running'
    BY <2>1, ReadHasCode DEF Hear, Parsed
  <2>2. ASSUME NEW q, ForceQl(q)
        PROVE  Running'
    BY <2>2 DEF ForceQl
  <2>3. CASE Transmit
    BY <2>3 DEF Transmit, Selected
  <2>4. CASE UNCHANGED ssmVars
    BY <2>4 DEF ssmVars
  <2> QED
    BY <2>1, <2>2, <2>3, <2>4 DEF SsmNext
<1>3. Running => TxKeepsRunning
  BY DEF TxKeepsRunning
<1> QED
  BY <1>1, <1>2, <1>3, PTL DEF SsmSpec
=============================================================================
