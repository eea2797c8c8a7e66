------------------------ MODULE ClockSelectionProofs ------------------------
(* What the selection computes, for tables of any size: by induction on the *)
(* rounds, as the least number that would be a counterexample.              *)
EXTENDS ClockSelection, TLAPS, FiniteSetTheorems, WellFoundedInduction

(* The tables control.c selects from: every clock that may be chosen has a   *)
(* clock index.  SyncTable!OneSyncPerClock is what guarantees it.            *)
SelectionTable(table, loRank) ==
    /\ IsFiniteSet(DOMAIN table) /\ DOMAIN table \subseteq Nat
    /\ \A s \in Candidates(table, loRank) : table[s].rank \in Nat /\ table[s].clkIdx \in Nat

(* The order of the device's table: a strict one, since indices differ. *)
Better(table, s, t) ==
    table[s].rank < table[t].rank \/ (table[s].rank = table[t].rank /\ s < t)

(* The number of rounds. *)
LastRound(table) == Cardinality(DOMAIN table)

(* The table is chosen when no round is left. *)
ChosenAt(table, loRank) == Rounds(table, loRank)[LastRound(table)]

Positions(seq) == 1 .. Len(seq)
Members(seq)   == {seq[k] : k \in Positions(seq)}
-----------------------------------------------------------------------------
(* Every set of naturals has a least element. *)
LEMMA LeastNatural ==
  ASSUME NEW S, S \subseteq Nat, S # {}
  PROVE  \E m \in S : \A k \in S : m <= k
<1>1. IsWellFoundedOn(OpToRel(<, Nat), Nat)
  BY NatLessThanWellFounded
<1>2. PICK m \in S : \A k \in S : ~(<<k, m>> \in OpToRel(<, Nat))
  BY <1>1, WFMin
<1>3. \A k \in S : ~(k < m)
  BY <1>2 DEF OpToRel
<1> QED
  BY <1>3

(* QL, priority and hops q, p, h against r, o, i. *)
Precede(q, p, h, r, o, i) == q < r \/ (q = r /\ p < o) \/ (q = r /\ p = o /\ h < i)
Agree(q, p, h, r, o, i)   == q = r /\ p = o /\ h = i

LEMMA RankIsNat == \A q \in Nat : \A p, h \in 0 .. 255 : CalculateRank(q, p, h) \in Nat
BY DEF CalculateRank

(* common.c:322: a rank is a number of three digits, so ranks are       *)
(* ordered as the triples are, the QL first, and no two triples share one.   *)
LEMMA RankOrder ==
  ASSUME NEW q \in Nat, NEW p \in 0 .. 255, NEW h \in 0 .. 255,
         NEW r \in Nat, NEW o \in 0 .. 255, NEW i \in 0 .. 255
  PROVE  /\ CalculateRank(q, p, h) < CalculateRank(r, o, i) <=> Precede(q, p, h, r, o, i)
         /\ CalculateRank(q, p, h) = CalculateRank(r, o, i) <=> Agree(q, p, h, r, o, i)
<1>1. p % 256 = p /\ o % 256 = o /\ h % 256 = h /\ i % 256 = i
  OBVIOUS
<1>2. /\ CalculateRank(q, p, h) = q * 65536 + p * 256 + h
      /\ CalculateRank(r, o, i) = r * 65536 + o * 256 + i
  BY <1>1 DEF CalculateRank
<1> QED
  BY <1>2 DEF Precede, Agree
-----------------------------------------------------------------------------
(* The scan finds the best of the clocks it is given. *)
LEMMA BestClockIsBest ==
  ASSUME NEW table, NEW cands, cands # {}, cands \subseteq Nat,
         \A s \in cands : table[s].rank \in Nat
  PROVE  /\ FindBestClock(table, cands) \in cands
         /\ \A t \in cands \ {FindBestClock(table, cands)} :
                Better(table, FindBestClock(table, cands), t)
<1> DEFINE Ranks == {table[s].rank : s \in cands}
           First(s) == \A t \in cands :
                         \/ table[s].rank < table[t].rank
                         \/ table[s].rank = table[t].rank /\ s <= t
<1>1. PICK r \in Ranks : \A q \in Ranks : r <= q
  <2>1. Ranks \subseteq Nat /\ Ranks # {}
    OBVIOUS
  <2> HIDE DEF Ranks
  <2> QED
    BY <2>1, LeastNatural
<1> DEFINE Ties == {s \in cands : table[s].rank = r}
<1>2. PICK best \in Ties : \A t \in Ties : best <= t
  <2>1. Ties \subseteq Nat /\ Ties # {}
    OBVIOUS
  <2> HIDE DEF Ties
  <2> QED
    BY <2>1, LeastNatural
<1>3. First(best)
  <2> SUFFICES ASSUME NEW t \in cands
               PROVE  \/ table[best].rank < table[t].rank
                      \/ table[best].rank = table[t].rank /\ best <= t
    OBVIOUS
  <2>1. table[best].rank = r /\ r <= table[t].rank
    BY <1>1
  <2>2. CASE table[t].rank = r
    BY <2>1, <2>2, <1>2
  <2>3. CASE table[t].rank # r
    <3>1. table[t].rank \in Nat /\ table[best].rank \in Nat
      OBVIOUS
    <3> QED
      BY <2>1, <2>3, <3>1
  <2> QED
    BY <2>2, <2>3
<1> DEFINE found == FindBestClock(table, cands)
<1>4. found = CHOOSE s \in cands : First(s)
  BY DEF FindBestClock
<1>5. found \in cands /\ First(found)
  BY <1>3, <1>4
<1>6. found \in Nat /\ table[found].rank \in Nat
  BY <1>5
<1> HIDE DEF found
<1>7. ASSUME NEW t \in cands, t # found
      PROVE  Better(table, found, t)
  <2>1. t \in Nat /\ table[t].rank \in Nat
    OBVIOUS
  <2>2. \/ table[found].rank < table[t].rank
        \/ table[found].rank = table[t].rank /\ found <= t
    BY <1>5
  <2> QED
    BY <1>6, <1>7, <2>1, <2>2 DEF Better
<1> QED
  BY <1>5, <1>7 DEF found
-----------------------------------------------------------------------------
(* A function that is what the rounds are, up to round last. *)
IsRounds(table, loRank, f, last) ==
    f = [n \in 0 .. last |-> IF n = 0 THEN <<>> ELSE Round(table, loRank, f[n - 1])]

(* There is such a function for every number of rounds, so the recursive     *)
(* definition means what it says.                                            *)
LEMMA RoundsDefined ==
  ASSUME NEW table, NEW loRank, LastRound(table) \in Nat
  PROVE  IsRounds(table, loRank, Rounds(table, loRank), LastRound(table))
<1> DEFINE Has(n) == \E f : IsRounds(table, loRank, f, n)
           Bad    == {n \in Nat : ~Has(n)}
<1>1. Bad = {}
  <2> SUFFICES ASSUME Bad # {}
               PROVE  FALSE
    OBVIOUS
  <2>1. PICK n \in Bad : \A k \in Bad : n <= k
    BY LeastNatural
  <2>2. n # 0
    <3>1. IsRounds(table, loRank, [k \in 0 .. 0 |-> <<>>], 0)
      BY DEF IsRounds
    <3> QED
      BY <3>1
  <2>3. PICK f : IsRounds(table, loRank, f, n - 1)
    BY <2>1, <2>2
  <2> DEFINE g == [k \in 0 .. n |-> IF k = n THEN Round(table, loRank, f[n - 1]) ELSE f[k]]
  <2>4. IsRounds(table, loRank, g, n)
    BY <2>1, <2>2, <2>3 DEF IsRounds
  <2> QED
    BY <2>4
<1>2. PICK f : IsRounds(table, loRank, f, LastRound(table))
  BY <1>1
<1> QED
  BY <1>2 DEF IsRounds, Rounds, LastRound

(* What is chosen after n rounds: the n best of the candidates in their      *)
(* order, or all of them.                                                    *)
RoundInv(table, loRank, chosen, n) ==
    LET cands == Candidates(table, loRank) IN
    /\ chosen \in Seq(cands) /\ Len(chosen) <= n
    /\ \A j, k \in Positions(chosen) : j < k => Better(table, chosen[j], chosen[k])
    /\ \A k \in Positions(chosen) : \A t \in cands \ Members(chosen) : Better(table, chosen[k], t)
    /\ Len(chosen) = n \/ cands \subseteq Members(chosen)

(* One round keeps that. *)
LEMMA RoundKeepsInv ==
  ASSUME NEW table, NEW loRank, SelectionTable(table, loRank),
         NEW n \in Nat, NEW chosen, RoundInv(table, loRank, chosen, n)
  PROVE  RoundInv(table, loRank, Round(table, loRank, chosen), n + 1)
<1> DEFINE cands == Candidates(table, loRank)
           left  == cands \ Members(chosen)
           best  == FindBestClock(table, left)
<1>1. /\ chosen \in Seq(cands) /\ Len(chosen) <= n /\ Len(chosen) \in Nat
      /\ \A j, k \in Positions(chosen) : j < k => Better(table, chosen[j], chosen[k])
      /\ \A k \in Positions(chosen) : \A t \in left : Better(table, chosen[k], t)
      /\ Len(chosen) = n \/ cands \subseteq Members(chosen)
  BY DEF RoundInv
<1>2. /\ cands \subseteq Nat
      /\ \A s \in cands : table[s].rank \in Nat /\ table[s].clkIdx \in Nat
  BY DEF SelectionTable, Candidates
<1>3. DOMAIN chosen = Positions(chosen)
  BY <1>1 DEF Positions
<1>4. Round(table, loRank, chosen)
        = IF left = {} \/ table[best].clkIdx < 0 THEN chosen ELSE Append(chosen, best)
  BY <1>3 DEF Round, Members
<1>5. CASE left = {}
  <2>1. Round(table, loRank, chosen) = chosen
    BY <1>4, <1>5
  <2>2. cands \subseteq Members(chosen) /\ Len(chosen) <= n + 1
    BY <1>1, <1>5
  <2> QED
    BY <1>1, <2>1, <2>2 DEF RoundInv
<1>6. CASE left # {}
  <2>1. best \in left /\ \A t \in left \ {best} : Better(table, best, t)
    BY <1>2, <1>6, BestClockIsBest
  <2>2. Round(table, loRank, chosen) = Append(chosen, best)
    BY <1>2, <1>4, <1>6, <2>1
  <2> DEFINE next == Append(chosen, best)
  <2>3. /\ next \in Seq(cands) /\ Len(next) = Len(chosen) + 1
        /\ next[Len(next)] = best
        /\ \A k \in Positions(chosen) : next[k] = chosen[k]
    BY <1>1, <2>1 DEF Positions
  <2>4. Len(next) = n + 1
    BY <1>1, <1>6, <2>3
  <2>5. Positions(next) = Positions(chosen) \cup {Len(next)}
    BY <1>1, <2>3 DEF Positions
  <2>6. Members(next) = Members(chosen) \cup {best}
    BY <2>3, <2>5 DEF Members
  <2> HIDE DEF next, best
  <2>7. \A j, k \in Positions(next) : j < k => Better(table, next[j], next[k])
    <3> SUFFICES ASSUME NEW j \in Positions(next), NEW k \in Positions(next), j < k
                 PROVE  Better(table, next[j], next[k])
      OBVIOUS
    <3>1. j \in Positions(chosen)
      BY <1>1, <2>3 DEF Positions
    <3>2. CASE k \in Positions(chosen)
      BY <1>1, <2>3, <3>1, <3>2
    <3>3. CASE k = Len(next)
      BY <1>1, <2>1, <2>3, <3>1, <3>3
    <3> QED
      BY <2>5, <3>2, <3>3
  <2>8. \A k \in Positions(next) : \A t \in cands \ Members(next) : Better(table, next[k], t)
    BY <1>1, <2>1, <2>3, <2>5, <2>6
  <2>9. RoundInv(table, loRank, next, n + 1)
    BY <2>3, <2>4, <2>7, <2>8 DEF RoundInv
  <2> QED
    BY <2>2, <2>9 DEF next
<1> QED
  BY <1>5, <1>6

(* So it holds after every round. *)
LEMMA RoundsKeepInv ==
  ASSUME NEW table, NEW loRank, SelectionTable(table, loRank)
  PROVE  /\ LastRound(table) \in Nat
         /\ RoundInv(table, loRank, ChosenAt(table, loRank), LastRound(table))
<1> DEFINE N == LastRound(table)
           r == Rounds(table, loRank)
           Bad == {n \in 0 .. N : ~RoundInv(table, loRank, r[n], n)}
<1>1. N \in Nat
  BY FS_CardinalityType DEF SelectionTable, LastRound
<1>2. IsRounds(table, loRank, r, N)
  BY <1>1, RoundsDefined
<1>3. /\ r[0] = <<>>
      /\ \A n \in 1 .. N : r[n] = Round(table, loRank, r[n - 1])
  <2> HIDE DEF r, N
  <2> QED
    BY <1>1, <1>2 DEF IsRounds
<1>4. Bad = {}
  <2> SUFFICES ASSUME Bad # {}
               PROVE  FALSE
    OBVIOUS
  <2>1. PICK n \in Bad : \A k \in Bad : n <= k
    <3>1. Bad \subseteq Nat
      OBVIOUS
    <3> QED
      BY <3>1, LeastNatural
  <2>2. n # 0
    <3>1. RoundInv(table, loRank, <<>>, 0)
      BY DEF RoundInv, Positions, Members
    <3> QED
      BY <1>3, <2>1, <3>1
  <2>3. n - 1 \in 0 .. N /\ n - 1 \notin Bad /\ n \in 1 .. N /\ n - 1 \in Nat /\ (n - 1) + 1 = n
    BY <1>1, <2>1, <2>2
  <2>4. RoundInv(table, loRank, r[n - 1], n - 1)
    BY <2>3
  <2>5. RoundInv(table, loRank, r[n], n)
    BY <1>3, <2>3, <2>4, RoundKeepsInv
  <2> QED
    BY <2>1, <2>5
<1>5. N \in 0 .. N
  BY <1>1
<1> QED
  BY <1>1, <1>4, <1>5 DEF ChosenAt
-----------------------------------------------------------------------------
(* The candidates in their order: what is chosen when the rounds are over.   *)
Enumerates(table, chosen, cands) ==
    /\ chosen \in Seq(cands) /\ Members(chosen) = cands
    /\ \A j, k \in Positions(chosen) : j < k => Better(table, chosen[j], chosen[k])

(* There is a round for every port, so no candidate is left over. *)
LEMMA EveryCandidateChosen ==
  ASSUME NEW table, NEW loRank, SelectionTable(table, loRank)
  PROVE  Enumerates(table, ChosenAt(table, loRank), Candidates(table, loRank))
<1> DEFINE N == LastRound(table)
           chosen == ChosenAt(table, loRank)
           cands == Candidates(table, loRank)
           ports == DOMAIN table
<1>1. N \in Nat /\ RoundInv(table, loRank, chosen, N)
  BY RoundsKeepInv
<1>2. /\ chosen \in Seq(cands) /\ Len(chosen) \in Nat
      /\ \A j, k \in Positions(chosen) : j < k => Better(table, chosen[j], chosen[k])
      /\ Len(chosen) = N \/ cands \subseteq Members(chosen)
  BY <1>1 DEF RoundInv
<1>3. cands \subseteq ports /\ IsFiniteSet(ports) /\ ports \subseteq Nat
  BY DEF SelectionTable, Candidates
<1>4. Members(chosen) \subseteq cands
  BY <1>2 DEF Members, Positions
<1> HIDE DEF chosen, cands
<1>5. CASE Len(chosen) = N
  <2>1. chosen \in Injection(1 .. N, ports)
    <3>1. chosen \in [1 .. N -> ports]
      BY <1>2, <1>3, <1>5
    <3>2. \A j, k \in 1 .. N : j < k => chosen[j] # chosen[k]
      <4> SUFFICES ASSUME NEW j \in 1 .. N, NEW k \in 1 .. N, j < k, chosen[j] = chosen[k]
                   PROVE  FALSE
        OBVIOUS
      <4>1. Better(table, chosen[k], chosen[k])
        BY <1>2, <1>5 DEF Positions
      <4>2. chosen[k] \in cands
        BY <1>2, <1>5
      <4>3. table[chosen[k]].rank \in Nat /\ chosen[k] \in Nat
        BY <1>3, <4>2 DEF SelectionTable, cands
      <4> QED
        BY <4>1, <4>3 DEF Better
    <3>3. \A j, k \in 1 .. N : j < k \/ k < j \/ j = k
      BY <1>1
    <3> QED
      BY <3>1, <3>2, <3>3 DEF Injection, IsInjective
  <2>2. Cardinality(1 .. N) = Cardinality(ports)
    BY <1>1, FS_Interval DEF LastRound
  <2>3. chosen \in Surjection(1 .. N, ports)
    BY <1>3, <2>1, <2>2, FS_Injection
  <2>4. ports \subseteq Members(chosen)
    BY <1>5, <2>3 DEF Surjection, Members, Positions
  <2> QED
    BY <1>2, <1>3, <1>4, <2>4 DEF Enumerates, chosen, cands
<1>6. CASE cands \subseteq Members(chosen)
  BY <1>2, <1>4, <1>6 DEF Enumerates, chosen, cands
<1> QED
  BY <1>2, <1>5, <1>6

(* The place of a clock in such an order is the number of better ones. *)
LEMMA PlaceInOrder ==
  ASSUME NEW table, NEW cands, cands \subseteq Nat, \A s \in cands : table[s].rank \in Nat,
         NEW chosen, Enumerates(table, chosen, cands)
  PROVE  /\ IsFiniteSet(cands) /\ Cardinality(cands) = Len(chosen)
         /\ \A k \in Positions(chosen) :
                Cardinality({t \in cands : Better(table, t, chosen[k])}) = k - 1
<1>1. /\ chosen \in Seq(cands) /\ Members(chosen) = cands /\ Len(chosen) \in Nat
      /\ \A j, k \in Positions(chosen) : j < k => Better(table, chosen[j], chosen[k])
      /\ chosen \in [Positions(chosen) -> cands]
  BY DEF Enumerates, Positions
<1>2. \A s, t \in cands : ~(Better(table, s, t) /\ Better(table, t, s))
  BY DEF Better
<1>3. \A j, k \in Positions(chosen) : Better(table, chosen[j], chosen[k]) => j < k
  <2> SUFFICES ASSUME NEW j \in Positions(chosen), NEW k \in Positions(chosen),
                      Better(table, chosen[j], chosen[k]), ~(j < k)
               PROVE  FALSE
    OBVIOUS
  <2>1. j = k \/ k < j
    BY <1>1 DEF Positions
  <2>2. chosen[j] \in cands /\ chosen[k] \in cands
    BY <1>1
  <2> QED
    BY <1>1, <1>2, <2>1, <2>2
<1>4. \A j, k \in Positions(chosen) : chosen[j] = chosen[k] => j = k
  <2> SUFFICES ASSUME NEW j \in Positions(chosen), NEW k \in Positions(chosen),
                      chosen[j] = chosen[k], j # k
               PROVE  FALSE
    OBVIOUS
  <2>1. j < k \/ k < j
    BY <1>1 DEF Positions
  <2>2. chosen[j] \in cands /\ chosen[k] \in cands
    BY <1>1
  <2> QED
    BY <1>1, <1>2, <2>1, <2>2
<1>5. ASSUME NEW n \in 0 .. Len(chosen)
      PROVE  LET front == {chosen[j] : j \in 1 .. n}
             IN  IsFiniteSet(front) /\ Cardinality(front) = n
  <2> DEFINE front == {chosen[j] : j \in 1 .. n}
             f == [j \in 1 .. n |-> chosen[j]]
  <2>1. f \in Bijection(1 .. n, front)
    <3>1. f \in [1 .. n -> front] /\ \A t \in front : \E j \in 1 .. n : f[j] = t
      OBVIOUS
    <3>2. \A j, k \in 1 .. n : f[j] = f[k] => j = k
      BY <1>1, <1>4 DEF Positions
    <3> QED
      BY <3>1, <3>2 DEF Bijection, Injection, IsInjective, Surjection
  <2>2. IsFiniteSet(1 .. n) /\ Cardinality(1 .. n) = n
    BY <1>1, FS_Interval
  <2> HIDE DEF front, f
  <2>3. ExistsBijection(1 .. n, front)
    BY <2>1 DEF ExistsBijection
  <2>4. IsFiniteSet(front) /\ Cardinality(front) = n
    BY <2>2, <2>3, FS_Bijection
  <2> QED
    BY <2>4 DEF front
<1>6. ASSUME NEW k \in Positions(chosen)
      PROVE  Cardinality({t \in cands : Better(table, t, chosen[k])}) = k - 1
  <2>1. {t \in cands : Better(table, t, chosen[k])} = {chosen[j] : j \in 1 .. k - 1}
    <3>1. ASSUME NEW t \in cands, Better(table, t, chosen[k])
          PROVE  \E j \in 1 .. k - 1 : t = chosen[j]
      <4>1. PICK j \in Positions(chosen) : t = chosen[j]
        BY <1>1 DEF Members
      <4>2. j < k
        BY <1>3, <3>1, <4>1
      <4> QED
        BY <1>1, <4>1, <4>2 DEF Positions
    <3>2. ASSUME NEW j \in 1 .. k - 1
          PROVE  chosen[j] \in cands /\ Better(table, chosen[j], chosen[k])
      <4>1. j \in Positions(chosen) /\ j < k
        BY <1>1 DEF Positions
      <4> QED
        BY <1>1, <4>1
    <3> QED
      BY <3>1, <3>2
  <2>2. k - 1 \in 0 .. Len(chosen)
    BY <1>1 DEF Positions
  <2> QED
    BY <1>5, <2>1, <2>2
<1>7. Len(chosen) \in 0 .. Len(chosen) /\ cands = {chosen[j] : j \in 1 .. Len(chosen)}
  BY <1>1 DEF Members, Positions
<1> QED
  BY <1>5, <1>6, <1>7

(* The entry of a clock, and its place: after the better ones. *)
Entry(table, s)        == [clkIdx |-> table[s].clkIdx, rank |-> table[s].rank]
Place(table, cands, s) == 1 + Cardinality({t \in cands : Better(table, t, s)})

DeviceEntry == [clkIdx : Nat, rank : Nat]

(* control.c:43-128, for any number of ports: the device is given every      *)
(* clock that beats the oscillator's rank, each once, and each at the place  *)
(* its rank and, between equals, the order of the ports give it.             *)
THEOREM PriorityTableIsSorted ==
  ASSUME NEW table, NEW loRank, SelectionTable(table, loRank)
  PROVE  LET cands  == Candidates(table, loRank)
             device == PriorityTable(table, loRank)
         IN  /\ device \in Seq(DeviceEntry)
             /\ IsFiniteSet(cands) /\ Len(device) = Cardinality(cands)
             /\ \A s \in cands : /\ Place(table, cands, s) \in 1 .. Len(device)
                                 /\ device[Place(table, cands, s)] = Entry(table, s)
             /\ \A k \in 1 .. Len(device) : \E s \in cands : Place(table, cands, s) = k
<1> DEFINE cands  == Candidates(table, loRank)
           device == PriorityTable(table, loRank)
           chosen == ChosenAt(table, loRank)
<1>1. Enumerates(table, chosen, cands)
  BY EveryCandidateChosen
<1>2. cands \subseteq Nat /\ \A s \in cands : table[s].rank \in Nat /\ table[s].clkIdx \in Nat
  BY DEF SelectionTable, Candidates
<1>3. /\ chosen \in Seq(cands) /\ Len(chosen) \in Nat
      /\ \A s \in cands : \E k \in 1 .. Len(chosen) : s = chosen[k]
      /\ \A k \in 1 .. Len(chosen) : chosen[k] \in cands
  BY <1>1 DEF Enumerates, Members, Positions
<1>4. device = [k \in 1 .. Len(chosen) |-> Entry(table, chosen[k])]
  BY DEF PriorityTable, ChosenAt, LastRound, Entry
<1> HIDE DEF chosen, cands, device
<1>5. /\ IsFiniteSet(cands) /\ Cardinality(cands) = Len(chosen)
      /\ \A k \in 1 .. Len(chosen) : Place(table, cands, chosen[k]) = k
  <2>1. /\ IsFiniteSet(cands) /\ Cardinality(cands) = Len(chosen)
        /\ \A k \in 1 .. Len(chosen) :
               Cardinality({t \in cands : Better(table, t, chosen[k])}) = k - 1
    BY <1>1, <1>2, PlaceInOrder DEF Positions
  <2> QED
    BY <2>1, <1>3 DEF Place
<1>6. device \in Seq(DeviceEntry) /\ Len(device) = Len(chosen)
  <2>1. \A s \in cands : Entry(table, s) \in DeviceEntry
    BY <1>2 DEF Entry, DeviceEntry
  <2>2. device \in [1 .. Len(chosen) -> DeviceEntry]
    BY <1>3, <1>4, <2>1
  <2> QED
    BY <1>3, <2>2
<1>7. ASSUME NEW s \in cands
      PROVE  /\ Place(table, cands, s) \in 1 .. Len(device)
             /\ device[Place(table, cands, s)] = Entry(table, s)
  <2>1. PICK k \in 1 .. Len(chosen) : s = chosen[k]
    BY <1>3
  <2>2. Place(table, cands, s) = k
    BY <1>5, <2>1
  <2> QED
    BY <1>4, <1>6, <2>1, <2>2
<1>8. ASSUME NEW k \in 1 .. Len(device)
      PROVE  \E s \in cands : Place(table, cands, s) = k
  BY <1>3, <1>5, <1>6
<1> QED
  BY <1>5, <1>6, <1>7, <1>8 DEF cands, device

(* What the users of the selection need of it: which clocks are in the       *)
(* device's table.                                                           *)
LEMMA ClocksOfPriorityTable ==
  ASSUME NEW table, NEW loRank, SelectionTable(table, loRank)
  PROVE  ClocksOf(PriorityTable(table, loRank))
           = {table[s].clkIdx : s \in Candidates(table, loRank)}
<1> DEFINE cands  == Candidates(table, loRank)
           device == PriorityTable(table, loRank)
<1>1. /\ device \in Seq(DeviceEntry)
      /\ \A s \in cands : /\ Place(table, cands, s) \in 1 .. Len(device)
                          /\ device[Place(table, cands, s)] = Entry(table, s)
      /\ \A k \in 1 .. Len(device) : \E s \in cands : Place(table, cands, s) = k
  BY PriorityTableIsSorted
<1> HIDE DEF cands, device
<1>2. DOMAIN device = 1 .. Len(device)
  BY <1>1
<1>3. \A s \in cands : Entry(table, s).clkIdx = table[s].clkIdx
  BY DEF Entry
<1>4. \A s \in cands : \E k \in DOMAIN device : device[k].clkIdx = table[s].clkIdx
  BY <1>1, <1>2, <1>3
<1>5. \A k \in DOMAIN device : \E s \in cands : device[k].clkIdx = table[s].clkIdx
  BY <1>1, <1>2, <1>3
<1>6. {device[k].clkIdx : k \in DOMAIN device} = {table[s].clkIdx : s \in cands}
  BY <1>4, <1>5
<1> QED
  BY <1>6 DEF ClocksOf, device, cands
=============================================================================
