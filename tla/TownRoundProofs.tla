--------------------------- MODULE TownRoundProofs ---------------------------
(***************************************************************************)
(* Proofs about TownRound, for any town, roster, map, plans, minds and     *)
(* number of rounds: who takes part, whose suspicion may fall, what is     *)
(* remembered, what makes a town collapse, that a round keeps the promises *)
(* of TownPopulation, who the factions are, what the meeting tells, the    *)
(* types of everything, and where those who have left may still be listed. *)
(***************************************************************************)
EXTENDS TownRound, FiniteSetTheorems, SequenceTheorems, TLAPS

-----------------------------------------------------------------------------
(* Numbers and sets of them.                                                 *)

LEMMA MaxOfTwo ==
    ASSUME NEW a \in Int, NEW b \in Int
    PROVE  Max({a, b}) = IF a >= b THEN a ELSE b
<1>. DEFINE m == IF a >= b THEN a ELSE b
<1>1. m \in {a, b} /\ \A y \in {a, b} : m >= y
  OBVIOUS
<1>2. \A x \in {a, b} : (\A y \in {a, b} : x >= y) => x = m
  OBVIOUS
<1>. HIDE DEF m
<1>3. Max({a, b}) = m
  BY <1>1, <1>2 DEF Max
<1>. QED BY <1>3 DEF m

LEMMA MinOfTwo ==
    ASSUME NEW a \in Int, NEW b \in Int
    PROVE  Min({a, b}) = IF a <= b THEN a ELSE b
<1>. DEFINE m == IF a <= b THEN a ELSE b
<1>1. m \in {a, b} /\ \A y \in {a, b} : m <= y
  OBVIOUS
<1>2. \A x \in {a, b} : (\A y \in {a, b} : x <= y) => x = m
  OBVIOUS
<1>. HIDE DEF m
<1>3. Min({a, b}) = m
  BY <1>1, <1>2 DEF Min
<1>. QED BY <1>3 DEF m

(* The induction that the proofs need: a nonempty set of naturals has a least *)
(* element.                                                                  *)
LEMMA LeastOf ==
    ASSUME NEW S \in SUBSET Nat, S # {}
    PROVE  \E m \in S : \A n \in S : m <= n
<1>1. PICK m \in S : \A n \in S : ~ (<<n, m>> \in OpToRel(<, Nat))
  BY NatLessThanWellFounded, WFMin
<1>2. \A n \in S : ~ (n < m)
  BY <1>1 DEF OpToRel
<1>. QED BY <1>2

LEMMA MinIs ==
    ASSUME NEW S \in SUBSET Nat, S # {}
    PROVE  Min(S) \in S /\ \A n \in S : Min(S) <= n
BY LeastOf DEF Min

(* A rising level, from an amount that is added to it.                       *)
LEMMA MoreIs ==
    ASSUME NEW level \in 0 .. 100, NEW amount \in Nat
    PROVE  More(level, amount) \in 0 .. 100 /\ More(level, amount) >= level
<1>1. More(level, amount) = IF 100 <= level + amount THEN 100 ELSE level + amount
  BY MinOfTwo DEF More
<1>. QED BY <1>1

LEMMA ClampIs ==
    ASSUME NEW low \in Int, NEW x \in Int, NEW high \in Int, low <= high
    PROVE  Clamp(low, x, high) \in low .. high
<1>1. Min({x, high}) = IF x <= high THEN x ELSE high
  BY MinOfTwo
<1>2. PICK y \in Int : y = Min({x, high}) /\ y <= high
  BY <1>1
<1>3. Max({low, y}) = IF low >= y THEN low ELSE y
  BY MaxOfTwo
<1>. QED BY <1>2, <1>3 DEF Clamp

LEMMA WhenIs ==
    ASSUME NEW condition, NEW amount \in Int
    PROVE  /\ When(condition, amount) \in {0, amount}
           /\ amount \in Nat => When(condition, amount) \in Nat
BY DEF When

-----------------------------------------------------------------------------
(* Sorting: before[x] are those that come before x.                          *)
IsOrder(S, before) ==
    /\ before \in [S -> SUBSET S]
    /\ \A x \in S : x \notin before[x]
    /\ \A x, y \in S : y \in before[x] => before[y] \subseteq before[x]
    /\ \A x, y \in S : x # y => x \in before[y] \/ y \in before[x]

LEMMA RanksRise ==
    ASSUME NEW S, IsFiniteSet(S), NEW before, IsOrder(S, before)
    PROVE  /\ \A x \in S : Cardinality(before[x]) \in 0 .. Cardinality(S) - 1
           /\ \A x, y \in S : y \in before[x] => Cardinality(before[y]) < Cardinality(before[x])
<1>1. ASSUME NEW x \in S
      PROVE  IsFiniteSet(before[x]) /\ Cardinality(before[x]) \in 0 .. Cardinality(S) - 1
  <2>1. before[x] \subseteq S \ {x}
    BY DEF IsOrder
  <2>2. /\ IsFiniteSet(S \ {x}) /\ Cardinality(S \ {x}) = Cardinality(S) - 1
        /\ Cardinality(S) \in Nat
    BY FS_RemoveElement, FS_CardinalityType
  <2>3. /\ IsFiniteSet(before[x]) /\ Cardinality(before[x]) <= Cardinality(S \ {x})
        /\ Cardinality(before[x]) \in Nat
    BY <2>1, <2>2, FS_Subset, FS_CardinalityType
  <2>. QED BY <2>2, <2>3
<1>2. ASSUME NEW x \in S, NEW y \in S, y \in before[x]
      PROVE  Cardinality(before[y]) < Cardinality(before[x])
  <2>1. before[y] \subseteq before[x] /\ y \notin before[y]
    BY <1>2 DEF IsOrder
  <2>2. before[y] # before[x]
    BY <1>2, <2>1
  <2>3. /\ Cardinality(before[y]) <= Cardinality(before[x])
        /\ Cardinality(before[y]) # Cardinality(before[x])
    BY <1>1, <2>1, <2>2, FS_Subset
  <2>4. Cardinality(before[y]) \in Int /\ Cardinality(before[x]) \in Int
    BY <1>1
  <2>. QED BY <2>3, <2>4
<1>. QED BY <1>1, <1>2

LEMMA RanksAreTaken ==
    ASSUME NEW S, IsFiniteSet(S), NEW before, IsOrder(S, before),
           NEW n \in 1 .. Cardinality(S)
    PROVE  \E x \in S : Cardinality(before[x]) = n - 1
<1>. DEFINE rank == [x \in S |-> Cardinality(before[x])]
            T == 0 .. Cardinality(S) - 1
<1>1. Cardinality(S) \in Nat
  BY FS_CardinalityType
<1>2. IsFiniteSet(T) /\ Cardinality(T) = Cardinality(S)
  <2>1. PICK c \in Nat : c = Cardinality(S)
    BY <1>1
  <2>2. c - 1 \in Int /\ 0 \in Int
    OBVIOUS
  <2>3. /\ IsFiniteSet(0 .. c - 1)
        /\ Cardinality(0 .. c - 1) = IF 0 > c - 1 THEN 0 ELSE c - 1 - 0 + 1
    BY <2>2, FS_Interval
  <2>4. Cardinality(0 .. c - 1) = c
    BY <2>3
  <2>. QED BY <2>1, <2>3, <2>4
<1>3. rank \in [S -> T]
  BY RanksRise
<1>4. IsInjective(rank)
  <2>1. SUFFICES ASSUME NEW x \in S, NEW y \in S, rank[x] = rank[y], x # y
                 PROVE  FALSE
    BY DEF IsInjective
  <2>2. Cardinality(before[x]) = Cardinality(before[y])
    BY <2>1
  <2>3. x \in before[y] \/ y \in before[x]
    BY <2>1 DEF IsOrder
  <2>4. Cardinality(before[x]) \in Int /\ Cardinality(before[y]) \in Int
    BY RanksRise
  <2>. QED BY <2>2, <2>3, <2>4, RanksRise
<1>5. rank \in Injection(S, T)
  BY <1>3, <1>4 DEF Injection
<1>6. rank \in Surjection(S, T)
  BY <1>2, <1>5, FS_Injection
<1>7. n - 1 \in T
  BY <1>1
<1>. QED BY <1>6, <1>7 DEF Surjection

(* A sequence whose n-th element has n - 1 of S before it is S in order.     *)
InOrder(S, before, s) ==
    /\ s \in [1 .. Cardinality(S) -> S]
    /\ \A n \in 1 .. Cardinality(S) : Cardinality(before[s[n]]) = n - 1

LEMMA SortedIs ==
    ASSUME NEW S, IsFiniteSet(S), NEW before, IsOrder(S, before), NEW s,
           InOrder(S, before, s)
    PROVE  /\ Cardinality(S) \in Nat
           /\ s \in Seq(S) /\ Len(s) = Cardinality(S) /\ DOMAIN s = 1 .. Cardinality(S)
           /\ \A i, j \in DOMAIN s : i < j => s[i] \in before[s[j]] /\ s[i] # s[j]
           /\ \A x \in S : \E n \in DOMAIN s : s[n] = x
<1>. USE DEF InOrder
<1>1. Cardinality(S) \in Nat
  BY FS_CardinalityType
<1>2. s \in Seq(S) /\ Len(s) = Cardinality(S) /\ DOMAIN s = 1 .. Cardinality(S)
  BY <1>1
<1>3. ASSUME NEW i \in DOMAIN s, NEW j \in DOMAIN s, i < j
      PROVE  s[i] \in before[s[j]] /\ s[i] # s[j]
  <2>1. /\ s[i] \in S /\ s[j] \in S
        /\ Cardinality(before[s[i]]) = i - 1 /\ Cardinality(before[s[j]]) = j - 1
    BY <1>2
  <2>2. i \in Int /\ j \in Int
    BY <1>2
  <2>3. s[i] # s[j]
    BY <1>3, <2>1, <2>2
  <2>4. s[j] \notin before[s[i]]
    BY <1>3, <2>1, <2>2, RanksRise
  <2>. QED BY <2>1, <2>3, <2>4 DEF IsOrder
<1>4. ASSUME NEW x \in S
      PROVE  \E n \in DOMAIN s : s[n] = x
  <2>1. Cardinality(before[x]) \in 0 .. Cardinality(S) - 1
    BY RanksRise
  <2>. DEFINE n == Cardinality(before[x]) + 1
  <2>2. n \in DOMAIN s /\ Cardinality(before[x]) = n - 1
    BY <1>1, <1>2, <2>1
  <2>. HIDE DEF n
  <2>3. s[n] \in S /\ Cardinality(before[s[n]]) = n - 1
    BY <1>2, <2>2
  <2>4. s[n] = x
    <3>1. SUFFICES ASSUME s[n] # x PROVE FALSE
      OBVIOUS
    <3>2. s[n] \in before[x] \/ x \in before[s[n]]
      BY <2>3, <3>1 DEF IsOrder
    <3>3. n - 1 \in Int
      BY <1>2, <2>2
    <3>. QED BY <2>2, <2>3, <3>2, <3>3, RanksRise
  <2>. QED BY <2>2, <2>4
<1>. QED BY <1>1, <1>2, <1>3, <1>4

(* The order by two keys and then by place.                                  *)
LexBefore(S, k1, k2) ==
    [x \in S |-> {y \in S : \/ k1[y] < k1[x]
                            \/ k1[y] = k1[x] /\ k2[y] < k2[x]
                            \/ k1[y] = k1[x] /\ k2[y] = k2[x] /\ y < x}]

LEMMA LexIsOrder ==
    ASSUME NEW S \in SUBSET Nat, NEW k1 \in [S -> Nat], NEW k2 \in [S -> Nat]
    PROVE  IsOrder(S, LexBefore(S, k1, k2))
<1>. DEFINE before == LexBefore(S, k1, k2)
<1>1. before \in [S -> SUBSET S]
  BY DEF LexBefore
<1>2. \A x, y \in S : y \in before[x] <=>
          \/ k1[y] < k1[x]
          \/ k1[y] = k1[x] /\ k2[y] < k2[x]
          \/ k1[y] = k1[x] /\ k2[y] = k2[x] /\ y < x
  BY DEF LexBefore
<1>3. \A x \in S : k1[x] \in Nat /\ k2[x] \in Nat /\ x \in Nat
  OBVIOUS
<1>. HIDE DEF before
<1>4. \A x \in S : x \notin before[x]
  BY <1>2, <1>3
<1>5. ASSUME NEW x \in S, NEW y \in S, y \in before[x]
      PROVE  before[y] \subseteq before[x]
  <2>1. ASSUME NEW z \in S, z \in before[y]
        PROVE  z \in before[x]
    BY <1>2, <1>3, <1>5, <2>1
  <2>. QED BY <1>1, <2>1
<1>6. ASSUME NEW x \in S, NEW y \in S, x # y
      PROVE  x \in before[y] \/ y \in before[x]
  <2>1. /\ k1[x] \in Int /\ k1[y] \in Int /\ k2[x] \in Int /\ k2[y] \in Int
        /\ x \in Int /\ y \in Int
    BY <1>3
  <2>2. CASE k1[x] # k1[y]
    BY <1>2, <2>1, <2>2
  <2>3. CASE k1[x] = k1[y] /\ k2[x] # k2[y]
    BY <1>2, <2>1, <2>3
  <2>4. CASE k1[x] = k1[y] /\ k2[x] = k2[y]
    BY <1>2, <1>6, <2>1, <2>4
  <2>. QED BY <2>2, <2>3, <2>4
<1>. QED BY <1>1, <1>4, <1>5, <1>6 DEF IsOrder, before

LEMMA AgentsAre ==
    /\ IsFiniteSet(Agents) /\ Cardinality(Agents) \in Nat
    /\ Agents \subseteq Nat \ {0}
<1>1. IsFiniteSet(Agents) /\ Agents = 1 .. Cardinality(Agents)
  BY SocietyAssumption
<1>2. PICK n \in Nat : n = Cardinality(Agents)
  BY <1>1, FS_CardinalityType
<1>3. Agents = 1 .. n
  BY <1>1, <1>2
<1>. QED BY <1>1, <1>2, <1>3

(* The roster of a phase: everybody who is there, once, in order.            *)
LEMMA RosterIs ==
    ASSUME Active \subseteq Agents
    PROVE  /\ Roster \in Seq(Active)
           /\ \A i, j \in DOMAIN Roster : Roster[i] = Roster[j] => i = j
<1>. DEFINE zero == [a \in Active |-> 0]
            before == LexBefore(Active, zero, zero)
<1>1. IsFiniteSet(Active) /\ Active \in SUBSET Nat
  BY AgentsAre, FS_Subset
<1>2. IsOrder(Active, before)
  BY <1>1, LexIsOrder
<1>3. \A x \in Active : before[x] = {y \in Active : y < x}
  BY <1>1 DEF LexBefore
<1>. HIDE DEF before
<1>. DEFINE Nth(n) == CHOOSE x \in Active : Cardinality({y \in Active : y < x}) = n - 1
<1>4. InOrder(Active, before, Roster)
  <2>1. Roster = [n \in 1 .. Cardinality(Active) |-> Nth(n)]
    BY DEF Roster, Sorted
  <2>2. ASSUME NEW n \in 1 .. Cardinality(Active)
        PROVE  Nth(n) \in Active /\ Cardinality(before[Nth(n)]) = n - 1
    <3>1. PICK x \in Active : Cardinality(before[x]) = n - 1
      BY <1>1, <1>2, RanksAreTaken
    <3>2. Cardinality({y \in Active : y < x}) = n - 1
      BY <1>3, <3>1
    <3>3. Nth(n) \in Active /\ Cardinality({y \in Active : y < Nth(n)}) = n - 1
      BY <3>2
    <3>. HIDE DEF Nth
    <3>. QED BY <1>3, <3>3
  <2>. HIDE DEF Nth
  <2>3. Roster \in [1 .. Cardinality(Active) -> Active]
    BY <2>1, <2>2
  <2>4. \A n \in 1 .. Cardinality(Active) : Cardinality(before[Roster[n]]) = n - 1
    BY <2>1, <2>2
  <2>. QED BY <2>3, <2>4 DEF InOrder
<1>5. /\ Roster \in Seq(Active) /\ DOMAIN Roster = 1 .. Cardinality(Active)
      /\ Cardinality(Active) \in Nat
      /\ \A i, j \in DOMAIN Roster : i < j => Roster[i] # Roster[j]
  BY <1>1, <1>2, <1>4, SortedIs
<1>6. ASSUME NEW i \in DOMAIN Roster, NEW j \in DOMAIN Roster, Roster[i] = Roster[j]
      PROVE  i = j
  <2>1. i \in Int /\ j \in Int
    BY <1>5
  <2>. QED BY <1>5, <1>6, <2>1
<1>. QED BY <1>5, <1>6

-----------------------------------------------------------------------------
(* Histories and memories of bounded length.                                 *)

LEMMA LatestIs ==
    ASSUME NEW S, NEW s \in Seq(S), NEW n \in Nat \ {0}
    PROVE  /\ Latest(s, n) \in Seq(S) /\ Len(Latest(s, n)) <= n
           /\ Len(s) <= n => Latest(s, n) = s
           /\ s # <<>> => Latest(s, n) # <<>> /\ Last(Latest(s, n)) = Last(s)
<1>1. Len(s) \in Nat
  BY LenProperties
<1>. DEFINE first == IF Len(s) - n + 1 > 1 THEN Len(s) - n + 1 ELSE 1
<1>2. Max({1, Len(s) - n + 1}) = first
  <2>1. Len(s) - n + 1 \in Int
    BY <1>1
  <2>. QED BY <1>1, <2>1, MaxOfTwo
<1>3. Latest(s, n) = SubSeq(s, first, Len(s))
  BY <1>2 DEF Latest
<1>4. first \in 1 .. Len(s) + 1 /\ Len(s) - first + 1 <= n
      /\ (Len(s) <= n => first = 1)
      /\ (Len(s) # 0 => first <= Len(s))
  BY <1>1
<1>. HIDE DEF first
<1>5. \A i \in first .. Len(s) : s[i] \in S
  BY <1>1, <1>4, ElementOfSeq
<1>6. first \in Int /\ Len(s) \in Int
  BY <1>1, <1>4
<1>7. /\ Latest(s, n) \in Seq(S)
      /\ Len(Latest(s, n)) = IF first <= Len(s) THEN Len(s) - first + 1 ELSE 0
      /\ \A i \in 1 .. Len(s) - first + 1 : Latest(s, n)[i] = s[first + i - 1]
  BY <1>3, <1>5, <1>6, SubSeqProperties
<1>8. Len(s) <= n => Latest(s, n) = s
  BY <1>3, <1>4, SubSeqFull
<1>9. ASSUME s # <<>>
      PROVE  Latest(s, n) # <<>> /\ Last(Latest(s, n)) = Last(s)
  <2>1. Len(s) # 0
    BY <1>9, EmptySeq
  <2>2. Len(Latest(s, n)) = Len(s) - first + 1 /\ Len(s) - first + 1 \in 1 .. Len(s) - first + 1
    BY <1>1, <1>4, <1>7, <2>1
  <2>3. Latest(s, n)[Len(s) - first + 1] = s[first + (Len(s) - first + 1) - 1]
    BY <1>7, <2>2
  <2>4. first + (Len(s) - first + 1) - 1 = Len(s)
    BY <1>1, <1>4
  <2>. QED BY <1>1, <1>4, <2>1, <2>2, <2>3, <2>4 DEF Last
<1>. QED BY <1>1, <1>4, <1>7, <1>8, <1>9

Times(n, e) == [i \in 1 .. n |-> e]

LEMMA EntriesIs ==
    ASSUME NEW S, NEW s \in Seq(S), NEW e \in S, NEW n \in Nat
    PROVE  /\ s \o Times(n, e) \in Seq(S)
           /\ n = 0 => s \o Times(n, e) = s
           /\ n > 0 => s \o Times(n, e) # <<>> /\ Last(s \o Times(n, e)) = e
<1>. DEFINE new == Times(n, e)
            s2 == s \o Times(n, e)
<1>1. new \in Seq(S) /\ Len(new) = n /\ (\A i \in 1 .. n : new[i] = e)
  BY DEF Times
<1>2. s2 = s \o new
  OBVIOUS
<1>. HIDE DEF new, s2
<1>3. Len(s) \in Nat
  BY LenProperties
<1>4. /\ s2 \in Seq(S) /\ Len(s2) = Len(s) + n
      /\ \A i \in 1 .. Len(s) + n : s2[i] = IF i <= Len(s) THEN s[i] ELSE new[i - Len(s)]
  BY <1>1, <1>2, ConcatProperties
<1>5. ASSUME n = 0 PROVE s2 = s
  <2>1. new = <<>>
    BY <1>1, <1>5, EmptySeq
  <2>. QED BY <1>2, <2>1, ConcatEmptySeq
<1>6. ASSUME n > 0 PROVE s2 # <<>> /\ Last(s2) = e
  <2>1. Len(s2) # 0 /\ Len(s) + n \in 1 .. Len(s) + n
    BY <1>3, <1>4, <1>6
  <2>2. s2[Len(s) + n] = new[(Len(s) + n) - Len(s)]
    BY <1>3, <1>4, <1>6, <2>1
  <2>3. (Len(s) + n) - Len(s) = n /\ n \in 1 .. n
    BY <1>3, <1>6
  <2>. QED BY <1>1, <1>4, <2>1, <2>2, <2>3, EmptySeq DEF Last
<1>. QED BY <1>4, <1>5, <1>6 DEF s2

LEMMA RememberingIs ==
    ASSUME NEW mem, NEW a, Day \in Nat, mem[a] \in Seq(0 .. Day), NEW n \in Nat
    PROVE  /\ Remembering(mem, a, n) \in Seq(0 .. Day)
           /\ Len(Remembering(mem, a, n)) <= RecentLimit
           /\ n = 0 /\ Len(mem[a]) <= RecentLimit => Remembering(mem, a, n) = mem[a]
           /\ n > 0 => /\ Remembering(mem, a, n) # <<>>
                       /\ Last(Remembering(mem, a, n)) = Day
<1>1. RecentLimit \in Nat \ {0}
  BY TownAssumption
<1>2. PICK d \in Nat : d = Day
  OBVIOUS
<1>3. PICK s \in Seq(0 .. d) : s = mem[a]
  BY <1>2
<1>4. PICK all : all = s \o Times(n, d)
  OBVIOUS
<1>5. /\ all \in Seq(0 .. d)
      /\ n = 0 => all = s
      /\ n > 0 => all # <<>> /\ Last(all) = d
  <2>1. d \in 0 .. d
    BY <1>2
  <2>2. PICK S : S = 0 .. d
    OBVIOUS
  <2>3. s \in Seq(S) /\ d \in S
    BY <2>1, <2>2
  <2>4. /\ s \o Times(n, d) \in Seq(S)
        /\ n = 0 => s \o Times(n, d) = s
        /\ n > 0 => s \o Times(n, d) # <<>> /\ Last(s \o Times(n, d)) = d
    BY <2>3, EntriesIs
  <2>. QED BY <1>4, <2>2, <2>4
<1>6. Remembering(mem, a, n) = Latest(all, RecentLimit)
  BY <1>2, <1>3, <1>4 DEF Remembering, Times
<1>7. /\ Latest(all, RecentLimit) \in Seq(0 .. d)
      /\ Len(Latest(all, RecentLimit)) <= RecentLimit
      /\ Len(all) <= RecentLimit => Latest(all, RecentLimit) = all
      /\ all # <<>> => /\ Latest(all, RecentLimit) # <<>>
                       /\ Last(Latest(all, RecentLimit)) = Last(all)
  BY <1>1, <1>5, LatestIs
<1>. QED BY <1>2, <1>3, <1>5, <1>6, <1>7

-----------------------------------------------------------------------------
(* The world.                                                                *)
Stocks == [Resources -> Nat]

LEMMA RoundDivIs ==
    ASSUME NEW n \in Int, NEW d \in Nat \ {0}
    PROVE  /\ RoundDiv(n, d) \in Int
           /\ RoundDiv(n, d) \in {n \div d, n \div d + 1}
<1>1. n \div d \in Int
  OBVIOUS
<1>. QED BY <1>1 DEF RoundDiv

LEMMA StocksTick ==
    ASSUME NEW res \in Stocks, NEW crisis \in [Resources -> Int]
    PROVE  Ticked(res, crisis) \in Stocks
<1>1. ASSUME NEW x \in Resources
      PROVE  Max({0, res[x] - Decay[x] + WorldBias[x] + crisis[x]}) \in Nat
  <2>1. res[x] - Decay[x] + WorldBias[x] + crisis[x] \in Int
    BY DEF Stocks, Decay, WorldBias, Resources
  <2>2. PICK y \in Int : y = res[x] - Decay[x] + WorldBias[x] + crisis[x]
    BY <2>1
  <2>3. Max({0, y}) = IF 0 >= y THEN 0 ELSE y
    BY MaxOfTwo
  <2>. QED BY <2>2, <2>3
<1>. QED BY <1>1 DEF Ticked, Stocks

LEMMA AtLeastZero ==
    ASSUME NEW y \in Int
    PROVE  Max({0, y}) \in Nat /\ Max({0, y}) = IF 0 >= y THEN 0 ELSE y
<1>1. Max({0, y}) = IF 0 >= y THEN 0 ELSE y
  BY MaxOfTwo
<1>. QED BY <1>1

LEMMA StocksChange ==
    ASSUME NEW res \in Stocks, NEW type, NEW n \in Nat, NEW chaotic
    PROVE  AfterActions(res, type, n, chaotic) \in Stocks
<1>1. res.food \in Nat /\ res.water \in Nat /\ res.materials \in Nat /\ res.power \in Nat
  BY DEF Stocks, Resources
<1>2. /\ n * (IF chaotic THEN 100 ELSE 80) \in Nat /\ n * 50 \in Nat /\ n * 70 \in Nat
      /\ n * 30 \in Nat /\ n * 60 \in Nat /\ n * 90 \in Nat /\ n * 100 \in Nat
      /\ n * 80 \in Nat
  OBVIOUS
<1>3. /\ Max({0, res.materials - n * 70}) \in Nat
      /\ Max({0, res.food - n * 60}) \in Nat
      /\ Max({0, res.power - n * 90}) \in Nat
  BY <1>1, <1>2, AtLeastZero
<1>4. \A x, y \in Resources, u, v \in Nat :
         [res EXCEPT ![x] = u, ![y] = v] \in Stocks /\ [res EXCEPT ![x] = u] \in Stocks
  BY DEF Stocks
<1>4a. "food" \in Resources /\ "water" \in Resources /\ "materials" \in Resources
       /\ "power" \in Resources
  BY DEF Resources
<1>5. CASE type = "gather"
  <2>1. AfterActions(res, type, n, chaotic) =
          [res EXCEPT !.food = @ + n * (IF chaotic THEN 100 ELSE 80), !.water = @ + n * 50]
    BY <1>5 DEF AfterActions
  <2>3. \A u, v \in Nat : [res EXCEPT !.food = u, !.water = v] \in Stocks
    BY <1>4, <1>4a
  <2>2. PICK u, v \in Nat : /\ u = res.food + n * (IF chaotic THEN 100 ELSE 80)
                            /\ v = res.water + n * 50
    BY <1>1, <1>2
  <2>. QED BY <2>1, <2>2, <2>3
<1>6. CASE type = "repair"
  <2>1. AfterActions(res, type, n, chaotic) =
          [res EXCEPT !.materials = Max({0, @ - n * 70}), !.power = @ + n * 30]
    BY <1>6 DEF AfterActions
  <2>3. \A u, v \in Nat : [res EXCEPT !.materials = u, !.power = v] \in Stocks
    BY <1>4, <1>4a
  <2>2. PICK u, v \in Nat : /\ u = Max({0, res.materials - n * 70})
                            /\ v = res.power + n * 30
    BY <1>1, <1>2, <1>3
  <2>. QED BY <2>1, <2>2, <2>3
<1>7. CASE type = "hoard"
  <2>1. AfterActions(res, type, n, chaotic) = [res EXCEPT !.food = Max({0, @ - n * 60})]
    BY <1>7 DEF AfterActions
  <2>2. PICK u \in Nat : u = Max({0, res.food - n * 60})
    BY <1>3
  <2>. QED BY <1>4, <1>4a, <2>1, <2>2
<1>8. CASE type = "sabotage"
  <2>1. AfterActions(res, type, n, chaotic) = [res EXCEPT !.power = Max({0, @ - n * 90})]
    BY <1>8 DEF AfterActions
  <2>2. PICK u \in Nat : u = Max({0, res.power - n * 90})
    BY <1>3
  <2>. QED BY <1>4, <1>4a, <2>1, <2>2
<1>9. CASE type = "self_sacrifice"
  <2>1. AfterActions(res, type, n, chaotic) =
          [res EXCEPT !.food = @ + n * 100, !.materials = @ + n * 80]
    BY <1>9 DEF AfterActions
  <2>3. \A u, v \in Nat : [res EXCEPT !.food = u, !.materials = v] \in Stocks
    BY <1>4, <1>4a
  <2>2. PICK u, v \in Nat : u = res.food + n * 100 /\ v = res.materials + n * 80
    BY <1>1, <1>2
  <2>4. AfterActions(res, type, n, chaotic) = [res EXCEPT !.food = u, !.materials = v]
    BY <2>1, <2>2
  <2>. QED BY <2>3, <2>4
<1>10. CASE type \notin {"gather", "repair", "hoard", "sabotage", "self_sacrifice"}
  BY <1>10 DEF AfterActions
<1>. QED BY <1>5, <1>6, <1>7, <1>8, <1>9, <1>10

-----------------------------------------------------------------------------
(* The inductive invariant, part by part.                                    *)

(* Where the engine is: phases of actions alone have turns and resolutions,   *)
(* and a town that is no longer running is in no round.                       *)
RoundOK ==
    /\ round \in Nat
    /\ phase \in Phases /\ at \in {"asking", "told", "resolving", "done"}
    /\ phase \in {"none", "dawn", "midday"} => at = "done"
    /\ at \in {"told", "resolving"} => phase \in DOMAIN PerAgent
    /\ town \in {"running", "completed", "collapsed"}
    /\ town # "running" => phase = "none"

(* Levels stay in their ranges.                                              *)
PeopleOK ==
    /\ status \in [Agents -> {"active", "exiled", "dead"}]
    /\ suspicion \in [Agents -> 0 .. 100]
    /\ influence \in [Agents -> Cents]
    /\ asked \in 0 .. 100

(* Everybody is on the map.                                                   *)
PlacesOK ==
    /\ tile \in [Agents -> Tiles] /\ location \in [Agents -> Places]
    /\ occupancy \in [Places -> SUBSET Agents]

(* Turns are given out while nobody leaves, and none is left over when        *)
(* actions, which somebody may not survive, are resolved.                     *)
Turning == phase \in DOMAIN PerAgent /\ at \in {"asking", "told"}
TurnsOK ==
    /\ at = "resolving" => todo = <<>>
    /\ Turning => /\ todo \in Seq(Active) /\ todo # <<>>
                  /\ \A i, j \in DOMAIN todo : todo[i] = todo[j] => i = j
    /\ slots \in 0 .. 2 /\ (at = "asking" /\ phase \in DOMAIN PerAgent => slots > 0)

(* Whoever has decided on a sacrifice is there to make it, and decides on     *)
(* nothing more.                                                              *)
Deeds == [agent : Agents, type : DecisionAction, place : Places,
          target : Agents \union {0}]
Fatal(i) == prepared[i].type = "self_sacrifice"
Doers == {prepared[i].agent : i \in DOMAIN prepared}
DeedsOK ==
    /\ prepared \in Seq(Deeds)
    /\ phase \notin DOMAIN PerAgent \/ at = "done" => prepared = <<>>
    /\ \A i \in DOMAIN prepared : Fatal(i) => prepared[i].agent \in Active
    /\ \A i, j \in DOMAIN prepared :
          Fatal(i) /\ Fatal(j) /\ prepared[i].agent = prepared[j].agent => i = j
    /\ Turning =>
          \A i \in DOMAIN prepared, k \in DOMAIN todo :
              Fatal(i) /\ prepared[i].agent = todo[k] =>
                  k = 1 /\ at = "told" /\ slots = 0

(* The consolidation is a day behind until the night's memory is written.     *)
MemoryOK ==
    /\ recent \in [Agents -> Seq(0 .. Day)]
    /\ \A a \in Agents : Len(recent[a]) <= RecentLimit
    /\ cursor \in [Agents -> 0 .. Day]
    /\ ~ (phase = "night" /\ at = "done") => \A a \in Agents : cursor[a] <= round

(* A threat that ends the town at night has its shortage beside it.           *)
Short == {x \in Resources : resources[x] < Baseline[x]}
IsPlan(p) ==
    p.severity \in DOMAIN Severity /\ p.modifiers \in [Resources -> Int] /\ p.watch \in BOOLEAN
IsTally(t) == t.asked \in Nat /\ t.coop \in Nat /\ t.coop <= t.asked
WorldOK ==
    /\ resources \in Stocks
    /\ IsPlan(plan) /\ IsPlan(draft)
    /\ IsTally(tally)
    /\ threat \in Cents
    /\ phase = "night" /\ threat >= 10000 => Cardinality(Short) >= 2
    /\ CollapseNeedsShortage

(* The histories are of those who have left, one entry each.                  *)
Exile == [who : Agents, day : Nat]
Death == [who : Agents, day : Nat, place : Places]
OncePerAgent(s) == \A i, j \in DOMAIN s : s[i].who = s[j].who => i = j
LastMeeting == IF phase \in {"midday", "afternoon", "night"} THEN round + 1 ELSE round
HistoryOK ==
    /\ exiles \in Seq(Exile) /\ sacrifices \in Seq(Death)
    /\ \A i \in DOMAIN exiles : exiles[i].who \notin Active /\ exiles[i].day <= LastMeeting
    /\ \A i \in DOMAIN sacrifices : sacrifices[i].who \notin Active
    /\ OncePerAgent(exiles) /\ OncePerAgent(sacrifices)

(* No history forgets anybody: the roster of a game is of six to twelve       *)
(* (README.md), and the histories keep twelve.                                *)
RosterFits == Cardinality(Agents) <= HistoryLimit

(* What a round may find.                                                     *)
LEMMA StartIs ==
    Init =>
        /\ round \in Nat
        /\ suspicion \in [Agents -> 0 .. 100]
        /\ resources \in Stocks /\ threat \in Cents
        /\ exiles \in Seq([who : Agents, day : 0 .. round])
        /\ \A i, j \in DOMAIN exiles : exiles[i].who = exiles[j].who => i = j
<1>. SUFFICES ASSUME Init
              PROVE  /\ round \in Nat
                     /\ suspicion \in [Agents -> 0 .. 100]
                     /\ resources \in Stocks /\ threat \in Cents
                     /\ exiles \in Seq([who : Agents, day : 0 .. round])
                     /\ \A i, j \in DOMAIN exiles : exiles[i].who = exiles[j].who => i = j
  OBVIOUS
<1>1. PICK start \in Towns :
          /\ suspicion = start.suspicion /\ resources = start.resources
          /\ threat = start.threat /\ round = start.round /\ exiles = start.exiles
  BY DEF Init
<1>1a. ArePeople(start) /\ AreStores(start) /\ IsPast(start)
  BY TownAssumption DEF IsTown
<1>2. start.suspicion \in [Agents -> 0 .. 100]
  BY <1>1a DEF ArePeople
<1>3. start.resources \in [Resources -> Nat]
  BY <1>1a DEF AreStores
<1>3a. start.threat \in Cents
  BY <1>1a DEF AreStores
<1>4. start.round \in Nat
  BY <1>1a DEF IsPast
<1>5. start.exiles \in Seq([who : Agents, day : 0 .. start.round])
  BY <1>1a DEF IsPast
<1>6. \A i, j \in DOMAIN start.exiles :
         start.exiles[i].who = start.exiles[j].who => i = j
  BY <1>1a DEF IsPast
<1>7. resources \in Stocks /\ threat \in Cents
  BY <1>1, <1>3, <1>3a DEF Stocks
<1>8. exiles \in Seq([who : Agents, day : 0 .. round])
  BY <1>1, <1>5
<1>9. \A i, j \in DOMAIN exiles : exiles[i].who = exiles[j].who => i = j
  BY <1>1, <1>6
<1>10. round \in Nat /\ suspicion \in [Agents -> 0 .. 100]
  BY <1>1, <1>2, <1>4
<1>. QED BY <1>7, <1>8, <1>9, <1>10

LEMMA RoundInit == Init => RoundOK
<1>. SUFFICES ASSUME Init PROVE RoundOK
  OBVIOUS
<1>1. round \in Nat
  BY StartIs
<1>2. phase = "none" /\ at = "done" /\ town = "running"
  BY DEF Init
<1>. QED BY <1>1, <1>2 DEF RoundOK, Phases, PerAgent

LEMMA RoundStep == RoundOK /\ [Next]_vars => RoundOK'
<1>. SUFFICES ASSUME RoundOK, [Next]_vars PROVE RoundOK'
  OBVIOUS
<1>. USE DEF RoundOK, Phases, PerAgent
<1>1. CASE Inject
  BY <1>1 DEF Inject
<1>2. CASE PlanApproved
  BY <1>2 DEF PlanApproved
<1>3. CASE StartRound
  BY <1>3 DEF StartRound
<1>4. CASE PlanArrives
  BY <1>4 DEF PlanArrives
<1>5. CASE Dawn
  BY <1>5 DEF Dawn
<1>6. CASE BeginActions("dawn", "morning") \/ BeginActions("midday", "afternoon")
  BY <1>6 DEF BeginActions
<1>7. CASE Decide \/ MindFails
  BY <1>7 DEF Decide, MindFails, Turn
<1>8. CASE TurnStreamed
  BY <1>8 DEF TurnStreamed
<1>9. CASE Converse
  BY <1>9 DEF Converse, Resolving
<1>10. CASE Clash
  BY <1>10 DEF Clash, Resolving, resolution
<1>11. CASE Sacrifice
  BY <1>11 DEF Sacrifice, Resolving
<1>12. CASE Act
  BY <1>12 DEF Act, Resolving, resolution
<1>13. CASE EndActions
  BY <1>13 DEF EndActions
<1>14. CASE Midday
  BY <1>14 DEF Midday
<1>15. CASE NightFalls
  BY <1>15 DEF NightFalls
<1>16. CASE Reflect
  BY <1>16 DEF Reflect
<1>17. CASE Finalise
  BY <1>17 DEF Finalise, StatusAfter
<1>18. CASE UNCHANGED vars
  BY <1>18 DEF vars
<1>. QED BY <1>1, <1>2, <1>3, <1>4, <1>5, <1>6, <1>7, <1>8, <1>9, <1>10, <1>11,
            <1>12, <1>13, <1>14, <1>15, <1>16, <1>17, <1>18 DEF Next

-----------------------------------------------------------------------------
(* The levels.                                                               *)

LEMMA InfluencesAre ==
    ASSUME NEW active, NEW s \in [Agents -> 0 .. 100]
    PROVE  Influences(active, s) \in [Agents -> Cents]
<1>1. ASSUME NEW a \in Agents
      PROVE  InfluenceScore(a, s) \in Cents
  <2>1. /\ Profile[a].dominance \in 0 .. 100 /\ Profile[a].loyalty \in 0 .. 100
        /\ Profile[a].ambition \in 0 .. 100
    BY SocietyAssumption
  <2>2. Base(a) \in Nat
    <3>1. PICK d \in 0 .. 100, l \in 0 .. 100, m \in 0 .. 100 :
              d = Profile[a].dominance /\ l = Profile[a].loyalty /\ m = Profile[a].ambition
      BY <2>1
    <3>2. Base(a) = 40 * d + 15 * l + 20 * m
      BY <3>1 DEF Base
    <3>. QED BY <3>2
  <2>2a. PICK b \in Nat : b = Base(a)
    BY <2>2
  <2>3. PICK x \in 0 .. 100 : x = s[a]
    OBVIOUS
  <2>3a. Max({x, 20}) = IF x >= 20 THEN x ELSE 20
    BY <2>3, MaxOfTwo
  <2>4. PICK m \in Nat : m = Max({s[a], 20})
    BY <2>3, <2>3a
  <2>5. PICK k \in Nat : k = b + 25 * m
    OBVIOUS
  <2>6. Min({10000, k}) = IF 10000 <= k THEN 10000 ELSE k
    BY <2>5, MinOfTwo
  <2>7. InfluenceScore(a, s) = Min({10000, k})
    BY <2>2a, <2>4, <2>5 DEF InfluenceScore
  <2>8. Min({10000, k}) \in 0 .. 10000
    <3>1. CASE 10000 <= k
      BY <2>6, <3>1
    <3>2. CASE ~ (10000 <= k)
      BY <2>6, <3>2
    <3>. QED BY <3>1, <3>2
  <2>. QED BY <2>7, <2>8 DEF Cents
<1>2. 0 \in Cents
  BY DEF Cents
<1>. QED BY <1>1, <1>2 DEF Influences

LEMMA SuspectedIs ==
    ASSUME PeopleOK, NEW d
    PROVE  Suspected(d) \in 0 .. 100 /\ Suspected(d) >= asked
<1>1. asked \in 0 .. 100
  BY DEF PeopleOK
<1>2. When(d.type = "explore" /\ d.location = "perimeter_fence", 8) + When(d.doubt, 6) \in Nat
  BY DEF When
<1>. QED BY <1>1, <1>2, MoreIs DEF Suspected

LEMMA GroupIs ==
    ASSUME NEW S, prepared \in Seq(S), prepared # <<>>
    PROVE  /\ Len(Group) \in 1 .. Len(prepared) /\ Group \in Seq(S)
           /\ \A i \in 1 .. Len(Group) : Group[i] = prepared[i]
<1>. DEFINE same == {i \in DOMAIN prepared : Key(prepared[i]) = Key(prepared[1])}
<1>1. /\ Len(prepared) \in Nat /\ DOMAIN prepared = 1 .. Len(prepared)
      /\ Len(prepared) >= 1
  <2>1. Len(prepared) \in Nat /\ DOMAIN prepared = 1 .. Len(prepared)
    BY LenProperties
  <2>2. Len(prepared) # 0
    BY EmptySeq
  <2>. QED BY <2>1, <2>2
<1>2. PICK k \in Nat : k = Len(prepared)
  BY <1>1
<1>3. IsFiniteSet(1 .. k) /\ Cardinality(1 .. k) = k
  <2>1. 1 \in Int /\ k \in Int
    OBVIOUS
  <2>2. IsFiniteSet(1 .. k) /\ Cardinality(1 .. k) = IF 1 > k THEN 0 ELSE k - 1 + 1
    BY <2>1, FS_Interval
  <2>. QED BY <1>1, <1>2, <2>2
<1>4. same \subseteq 1 .. k /\ same # {}
  BY <1>1, <1>2
<1>. HIDE DEF same
<1>5. Cardinality(same) \in 1 .. k
  <2>1. IsFiniteSet(same) /\ Cardinality(same) <= k /\ Cardinality(same) \in Nat
    BY <1>3, <1>4, FS_Subset, FS_CardinalityType
  <2>2. Cardinality(same) # 0
    BY <1>4, <2>1, FS_EmptySet
  <2>. QED BY <2>1, <2>2
<1>6. PICK n \in 1 .. k : n = Cardinality(same)
  BY <1>5
<1>7. Group = SubSeq(prepared, 1, n)
  BY <1>6 DEF Group, same
<1>8. /\ SubSeq(prepared, 1, n) \in Seq(S) /\ Len(SubSeq(prepared, 1, n)) = n
      /\ \A i \in 1 .. n : SubSeq(prepared, 1, n)[i] = prepared[i]
  <2>1. 1 \in Int /\ n \in Int /\ \A i \in 1 .. n : prepared[i] \in S
    BY <1>1, <1>2, ElementOfSeq
  <2>2. /\ SubSeq(prepared, 1, n) \in Seq(S)
        /\ Len(SubSeq(prepared, 1, n)) = IF 1 <= n THEN n - 1 + 1 ELSE 0
        /\ \A i \in 1 .. n - 1 + 1 : SubSeq(prepared, 1, n)[i] = prepared[1 + i - 1]
    BY <2>1, SubSeqProperties
  <2>. QED BY <2>2
<1>. QED BY <1>2, <1>7, <1>8

-----------------------------------------------------------------------------
(* The turns.                                                                *)

LEMMA TailIs ==
    ASSUME NEW S, NEW s \in Seq(S), s # <<>>
    PROVE  /\ Head(s) \in S /\ Head(s) = s[1] /\ 1 \in DOMAIN s
           /\ Tail(s) \in Seq(S)
           /\ \A i \in DOMAIN Tail(s) : i \in Nat /\ i + 1 \in DOMAIN s /\ Tail(s)[i] = s[i + 1]
<1>1. Len(s) \in Nat /\ DOMAIN s = 1 .. Len(s) /\ Len(s) # 0
  BY LenProperties, EmptySeq
<1>2. /\ Head(s) \in S /\ Tail(s) \in Seq(S) /\ Len(Tail(s)) = Len(s) - 1
      /\ \A i \in 1 .. Len(Tail(s)) : Tail(s)[i] = s[i + 1]
  BY HeadTailProperties
<1>3. DOMAIN Tail(s) = 1 .. Len(Tail(s))
  BY <1>2, LenProperties
<1>4. Head(s) = s[1]
  OBVIOUS
<1>. QED BY <1>1, <1>2, <1>3, <1>4

LEMMA TurnsInit == Init => TurnsOK
BY DEF Init, TurnsOK, Turning, PerAgent

LEMMA TurnsStep == RoundOK /\ TurnsOK /\ [Next]_vars => TurnsOK'
<1>. SUFFICES ASSUME RoundOK, TurnsOK, [Next]_vars PROVE TurnsOK'
  OBVIOUS
<1>. USE DEF TurnsOK, Turning, PerAgent
<1>1. CASE Inject
  BY <1>1 DEF Inject, Active, engine
<1>2. CASE PlanApproved
  BY <1>2 DEF PlanApproved, Active, engine, people
<1>3. CASE StartRound
  BY <1>3 DEF StartRound
<1>4. CASE PlanArrives
  BY <1>4 DEF PlanArrives, Active, engine, people, RoundOK
<1>5. CASE Dawn
  BY <1>5 DEF Dawn, engine
<1>6. ASSUME NEW before, NEW next \in {"morning", "afternoon"}, BeginActions(before, next)
      PROVE  TurnsOK'
  <2>1. Active' = Active
    BY <1>6 DEF BeginActions, Active, people
  <2>2. /\ Roster \in Seq(Active)
        /\ \A i, j \in DOMAIN Roster : Roster[i] = Roster[j] => i = j
    BY RosterIs DEF Active
  <2>3. todo' = Roster /\ phase' = next /\ slots' \in 1 .. 2
    BY <1>6 DEF BeginActions
  <2>4. IF Roster = <<>> THEN at' = "resolving" ELSE at' = "asking"
    BY <1>6 DEF BeginActions
  <2>. HIDE DEF PerAgent
  <2>. QED BY <2>1, <2>2, <2>3, <2>4
<1>7. CASE Decide \/ MindFails
  <2>1. /\ at = "asking" /\ phase \in DOMAIN PerAgent /\ at' = "told"
        /\ UNCHANGED <<status, phase, todo>> /\ (slots' = 0 \/ slots' = slots - 1)
    BY <1>7 DEF Decide, MindFails, Turn
  <2>2. Active' = Active
    BY <2>1 DEF Active
  <2>. QED BY <2>1, <2>2
<1>8. CASE TurnStreamed
  <2>. DEFINE left == IF slots > 0 THEN todo ELSE Tail(todo)
  <2>1. at = "told" /\ phase \in DOMAIN PerAgent
    BY <1>8 DEF TurnStreamed, RoundOK
  <2>2. Active' = Active /\ phase' = phase
    BY <1>8 DEF TurnStreamed, people, Active
  <2>3. todo' = left
    BY <1>8 DEF TurnStreamed
  <2>4. /\ left = <<>> => at' = "resolving" /\ slots' = slots
        /\ left # <<>> => at' = "asking" /\ slots' = IF slots > 0 THEN slots ELSE PerAgent[phase]
    BY <1>8 DEF TurnStreamed
  <2>5. left \in Seq(Active) /\ \A i, j \in DOMAIN left : left[i] = left[j] => i = j
    <3>1. todo \in Seq(Active) /\ todo # <<>>
      BY <2>1
    <3>2. /\ Tail(todo) \in Seq(Active)
          /\ \A i \in DOMAIN Tail(todo) :
                i \in Nat /\ i + 1 \in DOMAIN todo /\ Tail(todo)[i] = todo[i + 1]
      BY <3>1, TailIs
    <3>3. ASSUME NEW i \in DOMAIN Tail(todo), NEW j \in DOMAIN Tail(todo),
                 Tail(todo)[i] = Tail(todo)[j]
          PROVE  i = j
      <4>1. i + 1 = j + 1
        BY <2>1, <3>2, <3>3
      <4>. QED BY <3>2, <4>1
    <3>. QED BY <2>1, <3>1, <3>2, <3>3
  <2>. HIDE DEF left
  <2>6. slots' \in 0 .. 2 /\ (at' = "asking" => slots' > 0)
    BY <2>1, <2>4
  <2>. QED BY <2>1, <2>2, <2>3, <2>4, <2>5, <2>6
<1>9. CASE Converse \/ Clash \/ Sacrifice \/ Act
  <2>1. at = "resolving" /\ UNCHANGED <<at, phase, todo, slots>>
    BY <1>9 DEF Converse, Clash, Sacrifice, Act, Resolving, resolution
  <2>. QED BY <2>1
<1>10. CASE EndActions
  BY <1>10 DEF EndActions
<1>11. CASE Midday
  BY <1>11 DEF Midday
<1>12. CASE NightFalls
  BY <1>12 DEF NightFalls, engine
<1>13. CASE Reflect
  BY <1>13 DEF Reflect, engine
<1>14. CASE Finalise
  BY <1>14 DEF Finalise, engine, RoundOK
<1>15. CASE UNCHANGED vars
  BY <1>15 DEF vars, engine, people, Active
<1>. QED BY <1>1, <1>2, <1>3, <1>4, <1>5, <1>6, <1>7, <1>8, <1>9, <1>10, <1>11,
            <1>12, <1>13, <1>14, <1>15 DEF Next

-----------------------------------------------------------------------------
(* Suspicion.                                                                *)

LEMMA PeopleInit == Init => PeopleOK
<1>. SUFFICES ASSUME Init PROVE PeopleOK
  OBVIOUS
<1>1. suspicion \in [Agents -> 0 .. 100]
  BY StartIs
<1>2. status \in [Agents -> {"active", "exiled", "dead"}]
  BY DEF Init
<1>3. influence \in [Agents -> Cents] /\ asked \in 0 .. 100
  <2>1. 0 \in Cents
    BY DEF Cents
  <2>. QED BY <2>1 DEF Init
<1>. QED BY <1>1, <1>2, <1>3 DEF PeopleOK

(* What all the steps do to suspicion but a turn.                            *)
Rises ==
    /\ suspicion' \in [Agents -> 0 .. 100]
    /\ \A a \in Agents : suspicion'[a] >= suspicion[a]

LEMMA SuspicionRises ==
    ASSUME PeopleOK, RoundOK, DeedsOK,
           \/ UNCHANGED suspicion
           \/ Inject \/ Clash \/ Sacrifice \/ Act
    PROVE  Rises
<1>0. suspicion \in [Agents -> 0 .. 100] /\ \A a \in Agents : suspicion[a] \in 0 .. 100
  BY DEF PeopleOK
<1>1. CASE UNCHANGED suspicion
  BY <1>0, <1>1 DEF Rises
<1>2. CASE Inject
  <2>1. suspicion' = [a \in Agents |-> More(suspicion[a], 6)]
    BY <1>2 DEF Inject
  <2>2. \A a \in Agents : More(suspicion[a], 6) \in 0 .. 100 /\ More(suspicion[a], 6) >= suspicion[a]
    BY <1>0, MoreIs
  <2>. QED BY <2>1, <2>2 DEF Rises
<1>3. CASE Clash
  <2>. DEFINE n == Len(Group)
              Lost(a, entries) == Cardinality({i \in entries : Group[i].agent = a})
  <2>1. n \in Nat
    BY <1>3, GroupIs DEF Clash, Resolving, DeedsOK
  <2>2. PICK winners \in kSubset(Max({1, n \div 2}), 1 .. n) :
            suspicion' = [a \in Agents |->
                More(suspicion[a], 3 * Lost(a, (1 .. n) \ winners))]
    BY <1>3 DEF Clash
  <2>3. IsFiniteSet(1 .. n)
    BY <2>1, FS_Interval
  <2>. HIDE DEF n
  <2>4. ASSUME NEW a \in Agents
        PROVE  Lost(a, (1 .. n) \ winners) \in Nat
    <3>1. {i \in (1 .. n) \ winners : Group[i].agent = a} \in SUBSET (1 .. n)
      OBVIOUS
    <3>2. IsFiniteSet({i \in (1 .. n) \ winners : Group[i].agent = a})
      BY <2>3, <3>1, FS_Subset
    <3>. QED BY <3>2, FS_CardinalityType
  <2>. HIDE DEF Lost
  <2>5. ASSUME NEW a \in Agents
        PROVE  /\ More(suspicion[a], 3 * Lost(a, (1 .. n) \ winners)) \in 0 .. 100
               /\ More(suspicion[a], 3 * Lost(a, (1 .. n) \ winners)) >= suspicion[a]
    <3>1. PICK k \in Nat : k = Lost(a, (1 .. n) \ winners)
      BY <2>4
    <3>2. PICK m \in Nat : m = 3 * k
      OBVIOUS
    <3>. QED BY <1>0, <3>1, <3>2, MoreIs
  <2>. QED BY <2>2, <2>5 DEF Rises
<1>4. CASE Sacrifice
  <2>1. \A b \in Agents : More(suspicion[b], 9) \in 0 .. 100 /\ More(suspicion[b], 9) >= suspicion[b]
    BY <1>0, MoreIs
  <2>. DEFINE witnesses == Active \ {prepared[1].agent}
  <2>2. suspicion' = [b \in Agents |->
            IF b \in witnesses THEN More(suspicion[b], 9) ELSE suspicion[b]]
    BY <1>4 DEF Sacrifice
  <2>. HIDE DEF witnesses
  <2>. QED BY <1>0, <2>1, <2>2 DEF Rises
<1>5. CASE Act
  <2>. DEFINE e == prepared[1]
  <2>0. PICK victim \in IF e.type \in Hostile THEN Targets(e) ELSE {0} :
            IF victim = 0 THEN UNCHANGED <<suspicion, recent>>
            ELSE \E c \in ConsequencePool[e.type] :
                     suspicion' = [suspicion EXCEPT ![victim] =
                                      More(@, ConsequenceSuspicion[c])]
    BY <1>5 DEF Act
  <2>1. CASE UNCHANGED suspicion
    BY <1>1, <2>1
  <2>2. CASE \E c \in ConsequencePool[e.type] :
                 suspicion' = [suspicion EXCEPT ![victim] = More(@, ConsequenceSuspicion[c])]
             /\ e.type \in Hostile
    <3>1. PICK c \in ConsequencePool[e.type] :
              suspicion' = [suspicion EXCEPT ![victim] = More(@, ConsequenceSuspicion[c])]
      BY <2>2
    <3>2. ConsequenceSuspicion[c] \in Nat
      BY <2>2 DEF Hostile, ConsequencePool, ConsequenceSuspicion
    <3>3. \A a \in Agents :
             /\ More(suspicion[a], ConsequenceSuspicion[c]) \in 0 .. 100
             /\ More(suspicion[a], ConsequenceSuspicion[c]) >= suspicion[a]
      BY <1>0, <3>2, MoreIs
    <3>4. suspicion' \in [Agents -> 0 .. 100]
      BY <1>0, <3>1, <3>3
    <3>5. ASSUME NEW a \in Agents
          PROVE  suspicion'[a] >= suspicion[a]
      <4>1. CASE a = victim
        BY <1>0, <3>1, <3>3, <4>1
      <4>2. CASE a # victim
        BY <1>0, <3>1, <4>2
      <4>. QED BY <4>1, <4>2
    <3>. QED BY <3>4, <3>5 DEF Rises
  <2>3. \/ UNCHANGED suspicion
        \/ /\ e.type \in Hostile
           /\ \E c \in ConsequencePool[e.type] :
                 suspicion' = [suspicion EXCEPT ![victim] = More(@, ConsequenceSuspicion[c])]
    <3>1. CASE victim = 0
      BY <2>0, <3>1
    <3>2. CASE victim # 0
      BY <2>0, <3>2
    <3>. QED BY <3>1, <3>2
  <2>. QED BY <2>1, <2>2, <2>3
<1>. QED BY <1>1, <1>2, <1>3, <1>4, <1>5

-----------------------------------------------------------------------------
(* What a turn does.                                                         *)

LEMMA StepTowardIs ==
    ASSUME NEW start \in Tiles, NEW goals \in SUBSET Tiles
    PROVE  StepToward(start, goals) \in Tiles
<1>1. Length \in Nat
  BY WorldAssumption
<1>2. CASE goals = {}
  BY <1>2 DEF StepToward
<1>3. CASE goals # {}
  <2>. DEFINE distances == {Distance(start, g) : g \in goals}
  <2>1. distances \in SUBSET Nat /\ distances # {}
    <3>1. \A g \in goals : Distance(start, g) \in Nat
      BY <1>1 DEF Distance, Tiles
    <3>. QED BY <1>3, <3>1
  <2>2. Min(distances) \in distances
    BY <2>1, MinIs
  <2>3. PICK near \in Nat : near = Min(distances)
    BY <2>1, <2>2
  <2>4. PICK g \in goals : near = Distance(start, g)
    BY <2>2, <2>3
  <2>. DEFINE step == IF near < 2 THEN near ELSE 2
  <2>5. StepToward(start, goals) =
            IF start + near \in goals THEN start + step ELSE start - step
    BY <1>3, <2>3 DEF StepToward
  <2>. HIDE DEF distances
  <2>6. CASE start + near \in goals
    BY <1>1, <2>5, <2>6 DEF Tiles
  <2>7. CASE start + near \notin goals
    <3>1. g # start + near
      BY <2>7
    <3>2. near = IF start < g THEN g - start ELSE start - g
      BY <2>4 DEF Distance
    <3>3. g = start - near
      BY <1>1, <3>1, <3>2 DEF Tiles
    <3>. QED BY <1>1, <2>5, <2>7, <3>3 DEF Tiles
  <2>. QED BY <2>6, <2>7
<1>. QED BY <1>2, <1>3

Decisions == [type : DecisionAction, location : Places \union {"none"},
              target : Agents \union {0}, doubt : BOOLEAN]

LEMMA ActionIs ==
    ASSUME PlacesOK, NEW a \in Agents, NEW d \in Decisions
    PROVE  /\ Action(a, d).type \in DecisionAction /\ Action(a, d).place \in Places
           /\ Action(a, d).tile \in Tiles
<1>1. tile[a] \in Tiles /\ location[a] \in Places
  BY DEF PlacesOK
<1>2. d.type \in DecisionAction /\ d.location \in Places \union {"none"}
  BY DEF Decisions
<1>3. Blocked(a).type \in DecisionAction /\ Blocked(a).place \in Places /\ Blocked(a).tile \in Tiles
  <2>1. Blocked(a).type = "observe" /\ Blocked(a).place = location[a] /\ Blocked(a).tile = tile[a]
    BY DEF Blocked
  <2>2. "observe" \in DecisionAction
    BY DEF DecisionAction
  <2>. QED BY <1>1, <2>1, <2>2
<1>. DEFINE here == d.location = "none"
            goals == IF here THEN {} ELSE Entry[d.location]
            destination == IF here THEN tile[a] ELSE StepToward(tile[a], goals)
            place == IF here THEN location[a] ELSE Label[destination]
<1>4. goals \in SUBSET Tiles
  BY <1>2, WorldAssumption
<1>5. destination \in Tiles
  BY <1>1, <1>4, StepTowardIs
<1>6. place \in Places
  BY <1>1, <1>5, WorldAssumption
<1>7. \/ Action(a, d) = Blocked(a)
      \/ Action(a, d) = [type |-> "move", place |-> place, tile |-> destination,
                         moves |-> TRUE, blocked |-> FALSE]
      \/ Action(a, d) = [type |-> d.type, place |-> place, tile |-> destination,
                         moves |-> destination # tile[a], blocked |-> FALSE]
  BY DEF Action
<1>. HIDE DEF here, goals, destination, place
<1>8. CASE Action(a, d) = Blocked(a)
  BY <1>3, <1>8
<1>9. CASE Action(a, d) = [type |-> "move", place |-> place, tile |-> destination,
                           moves |-> TRUE, blocked |-> FALSE]
  <2>1. /\ Action(a, d).type = "move" /\ Action(a, d).place = place
        /\ Action(a, d).tile = destination
    BY <1>9
  <2>2. "move" \in DecisionAction
    BY DEF DecisionAction
  <2>. QED BY <1>5, <1>6, <2>1, <2>2
<1>10. CASE Action(a, d) = [type |-> d.type, place |-> place, tile |-> destination,
                            moves |-> destination # tile[a], blocked |-> FALSE]
  <2>1. /\ Action(a, d).type = d.type /\ Action(a, d).place = place
        /\ Action(a, d).tile = destination
    BY <1>10
  <2>. QED BY <1>2, <1>5, <1>6, <2>1
<1>. QED BY <1>7, <1>8, <1>9, <1>10

LEMMA TurnIs ==
    ASSUME RoundOK, TurnsOK, PlacesOK, Decide \/ MindFails
    PROVE  /\ Head(todo) \in Active /\ Head(todo) = todo[1] /\ 1 \in DOMAIN todo
           /\ at = "asking" /\ phase \in DOMAIN PerAgent
           /\ \E d \in Decisions : Turn(Head(todo), d)
<1>1. at = "asking" /\ phase \in DOMAIN PerAgent
  BY DEF Decide, MindFails
<1>2. todo \in Seq(Active) /\ todo # <<>>
  BY <1>1 DEF TurnsOK, Turning
<1>3. Head(todo) \in Active /\ Head(todo) = todo[1] /\ 1 \in DOMAIN todo
  BY <1>2, TailIs
<1>4. Answers \subseteq Decisions
  BY TownAssumption DEF Decisions
<1>5. Fallback(Head(todo)) \in Decisions
  <2>1. location[Head(todo)] \in Places
    BY <1>3 DEF PlacesOK, Active
  <2>2. "observe" \in DecisionAction /\ 0 \in Agents \union {0} /\ FALSE \in BOOLEAN
    BY DEF DecisionAction
  <2>. QED BY <2>1, <2>2 DEF Fallback, Decisions
<1>. QED BY <1>1, <1>3, <1>4, <1>5 DEF Decide, MindFails

(* A turn writes what the mind made of the suspicion it was asked with.       *)
Turns(a) ==
    /\ at = "asking" /\ todo # <<>> /\ a = Head(todo)
    /\ suspicion'[a] >= asked

LEMMA SuspicionOfATurn ==
    ASSUME RoundOK, TurnsOK, PeopleOK, PlacesOK, Decide \/ MindFails
    PROVE  /\ suspicion' \in [Agents -> 0 .. 100]
           /\ \A a \in Agents : suspicion'[a] >= suspicion[a] \/ Turns(a)
<1>1. /\ Head(todo) \in Active /\ at = "asking" /\ phase \in DOMAIN PerAgent
      /\ \E d \in Decisions : Turn(Head(todo), d)
  BY TurnIs
<1>2. PICK d \in Decisions : Turn(Head(todo), d)
  BY <1>1
<1>3. PICK h \in Agents : h = Head(todo)
  BY <1>1 DEF Active
<1>4. suspicion \in [Agents -> 0 .. 100]
  BY DEF PeopleOK
<1>5. todo # <<>>
  BY <1>1 DEF TurnsOK, Turning
<1>6. asked \in 0 .. 100 /\ Suspected(d) \in 0 .. 100 /\ Suspected(d) >= asked
  BY SuspectedIs DEF PeopleOK
<1>7. More(Suspected(d), 5) \in 0 .. 100 /\ More(Suspected(d), 5) >= Suspected(d)
  BY <1>6, MoreIs
<1>8. PICK v : /\ v = IF Action(h, d).blocked THEN More(Suspected(d), 5) ELSE Suspected(d)
               /\ suspicion' = [suspicion EXCEPT ![h] = v]
  BY <1>2, <1>3 DEF Turn
<1>9. v \in 0 .. 100 /\ v >= asked
  BY <1>6, <1>7, <1>8
<1>10. suspicion' \in [Agents -> 0 .. 100]
  BY <1>4, <1>8, <1>9
<1>11. ASSUME NEW a \in Agents
       PROVE  suspicion'[a] >= suspicion[a] \/ Turns(a)
  <2>1. CASE a = h
    BY <1>1, <1>3, <1>4, <1>5, <1>8, <1>9, <2>1 DEF Turns
  <2>2. CASE a # h
    <3>1. suspicion'[a] = suspicion[a] /\ suspicion[a] \in 0 .. 100
      BY <1>4, <1>8, <2>2
    <3>. QED BY <3>1
  <2>. QED BY <2>1, <2>2
<1>. QED BY <1>10, <1>11

LEMMA SuspicionStep ==
    ASSUME RoundOK, TurnsOK, PeopleOK, PlacesOK, DeedsOK, [Next]_vars
    PROVE  /\ suspicion' \in [Agents -> 0 .. 100]
           /\ \A a \in Agents : suspicion'[a] >= suspicion[a] \/ Turns(a)
<1>1. CASE Decide \/ MindFails
  BY <1>1, SuspicionOfATurn
<1>2. CASE ~ (Decide \/ MindFails)
  <2>1. \/ UNCHANGED suspicion
        \/ Inject \/ Clash \/ Sacrifice \/ Act
    BY <1>2 DEF Next, vars, people, PlanApproved, StartRound, PlanArrives, Dawn, BeginActions,
                TurnStreamed, Converse, EndActions, Midday, NightFalls, Reflect, Finalise
  <2>2. Rises
    BY <2>1, SuspicionRises
  <2>. QED BY <2>2 DEF Rises
<1>. QED BY <1>1, <1>2

LEMMA PeopleStep ==
    ASSUME RoundOK, TurnsOK, PeopleOK, PlacesOK, DeedsOK, [Next]_vars
    PROVE  PeopleOK'
<1>1. suspicion' \in [Agents -> 0 .. 100]
  BY SuspicionStep
<1>2. status' \in [Agents -> {"active", "exiled", "dead"}]
  <2>0. status \in [Agents -> {"active", "exiled", "dead"}]
    BY DEF PeopleOK
  <2>1. CASE Sacrifice
    BY <2>0, <2>1 DEF Sacrifice
  <2>2. CASE Midday
    BY <2>0, <2>2 DEF Midday
  <2>3. CASE ~ (Sacrifice \/ Midday)
    <3>1. UNCHANGED status
      BY <2>3 DEF Next, vars, people, Inject, PlanApproved, StartRound, PlanArrives, Dawn,
                  BeginActions, Decide, MindFails, Turn, TurnStreamed, Converse, Clash, Act,
                  resolution, EndActions, NightFalls, Reflect, Finalise
    <3>. QED BY <2>0, <3>1
  <2>. QED BY <2>1, <2>2, <2>3
<1>3. influence' \in [Agents -> Cents]
  <2>0. influence \in [Agents -> Cents]
    BY DEF PeopleOK
  <2>0a. suspicion \in [Agents -> 0 .. 100]
    BY DEF PeopleOK
  <2>1. CASE Sacrifice
    <3>1. PICK a : influence' = [influence EXCEPT ![a] = 0]
      BY <2>1 DEF Sacrifice
    <3>2. 0 \in Cents
      BY DEF Cents
    <3>. QED BY <2>0, <3>1, <3>2
  <2>2. CASE StartRound \/ Converse \/ Midday \/ EndActions
    <3>1. \/ UNCHANGED influence
          \/ \E active : influence' = Influences(active, suspicion)
      BY <2>2 DEF StartRound, Converse, Midday, EndActions, Refreshed
    <3>. QED BY <2>0, <2>0a, <3>1, InfluencesAre
  <2>3. CASE ~ (Sacrifice \/ StartRound \/ Converse \/ Midday \/ EndActions)
    <3>1. UNCHANGED influence
      BY <2>3 DEF Next, vars, people, Inject, PlanApproved, PlanArrives, Dawn,
                  BeginActions, Decide, MindFails, Turn, TurnStreamed, Clash, Act,
                  resolution, NightFalls, Reflect, Finalise
    <3>. QED BY <2>0, <3>1
  <2>. QED BY <2>1, <2>2, <2>3
<1>4. asked' \in 0 .. 100
  <2>0. asked \in 0 .. 100 /\ suspicion \in [Agents -> 0 .. 100]
    BY DEF PeopleOK
  <2>1. CASE BeginActions("dawn", "morning") \/ BeginActions("midday", "afternoon")
    <3>1. UNCHANGED asked \/ (Roster # <<>> /\ asked' = suspicion[Head(Roster)])
      BY <2>1 DEF BeginActions
    <3>2. Roster # <<>> => Head(Roster) \in Agents
      <4>1. Roster \in Seq(Active)
        BY RosterIs DEF Active
      <4>. QED BY <4>1, TailIs DEF Active
    <3>. QED BY <2>0, <3>1, <3>2
  <2>2. CASE TurnStreamed
    <3>1. todo \in Seq(Active) /\ todo # <<>>
      BY <2>2 DEF TurnStreamed, RoundOK, TurnsOK, Turning
    <3>2. \/ UNCHANGED asked
          \/ asked' = suspicion[Head(todo)]
          \/ Tail(todo) # <<>> /\ asked' = suspicion[Head(Tail(todo))]
      <4>. DEFINE left == IF slots > 0 THEN todo ELSE Tail(todo)
      <4>1. UNCHANGED asked \/ (left # <<>> /\ asked' = suspicion[Head(left)])
        BY <2>2 DEF TurnStreamed
      <4>. QED BY <4>1
    <3>3. Head(todo) \in Agents /\ Tail(todo) \in Seq(Active)
      BY <3>1, TailIs DEF Active
    <3>4. Tail(todo) # <<>> => Head(Tail(todo)) \in Agents
      BY <3>3, TailIs DEF Active
    <3>. QED BY <2>0, <3>2, <3>3, <3>4
  <2>3. CASE EndActions
    BY <2>3 DEF EndActions
  <2>4. CASE ~ (\/ BeginActions("dawn", "morning") \/ BeginActions("midday", "afternoon")
                \/ TurnStreamed \/ EndActions)
    <3>1. UNCHANGED asked
      BY <2>4 DEF Next, vars, engine, Inject, PlanApproved, StartRound, PlanArrives, Dawn,
                  Decide, MindFails, Turn, Converse, Clash, Sacrifice, Act,
                  resolution, Midday, NightFalls, Reflect, Finalise
    <3>. QED BY <2>0, <3>1
  <2>. QED BY <2>1, <2>2, <2>3, <2>4
<1>. QED BY <1>1, <1>2, <1>3, <1>4 DEF PeopleOK

-----------------------------------------------------------------------------
(* What the resolution does.                                                 *)

(* The groups are put in the order of their first actions, and each keeps the *)
(* order of its own.                                                          *)
FirstOf(actions, i) == Min({j \in 1 .. i : Key(actions[j]) = Key(actions[i])})
Sooner(actions, i, j) ==
    \/ FirstOf(actions, i) < FirstOf(actions, j)
    \/ FirstOf(actions, i) = FirstOf(actions, j) /\ i < j

LEMMA GroupedIs ==
    ASSUME NEW S, NEW actions \in Seq(S)
    PROVE  /\ Len(actions) \in Nat /\ DOMAIN actions = 1 .. Len(actions)
           /\ \E order \in [DOMAIN actions -> DOMAIN actions] :
                 /\ \A i, j \in DOMAIN actions : order[i] = order[j] => i = j
                 /\ \A x \in DOMAIN actions : \E n \in DOMAIN actions : order[n] = x
                 /\ \A i, j \in DOMAIN actions : i < j => Sooner(actions, order[i], order[j])
                 /\ Grouped(actions) = [n \in DOMAIN actions |-> actions[order[n]]]
<1>. DEFINE D == DOMAIN actions
            First(i) == FirstOf(actions, i)
            Bef(i, j) == Sooner(actions, i, j)
            order == Sorted(DOMAIN actions, Bef)
            firsts == [i \in D |-> First(i)]
            zeros == [i \in D |-> 0]
            before == LexBefore(D, firsts, zeros)
<1>1. Len(actions) \in Nat /\ D = 1 .. Len(actions)
  BY LenProperties
<1>2. PICK k \in Nat : k = Len(actions)
  BY <1>1
<1>3. IsFiniteSet(D) /\ Cardinality(D) = k
  <2>1. 1 \in Int /\ k \in Int
    OBVIOUS
  <2>2. IsFiniteSet(1 .. k) /\ Cardinality(1 .. k) = IF 1 > k THEN 0 ELSE k - 1 + 1
    BY <2>1, FS_Interval
  <2>. QED BY <1>1, <1>2, <2>2
<1>4. ASSUME NEW i \in D
      PROVE  First(i) \in Nat
  <2>. DEFINE same == {j \in 1 .. i : Key(actions[j]) = Key(actions[i])}
  <2>1. same \in SUBSET Nat /\ same # {}
    BY <1>1
  <2>. HIDE DEF same
  <2>2. Min(same) \in Nat
    BY <2>1, MinIs
  <2>. QED BY <2>2 DEF same, FirstOf
<1>5. /\ D \in SUBSET Nat /\ firsts \in [D -> Nat] /\ zeros \in [D -> Nat]
      /\ \A i \in D : firsts[i] = First(i) /\ zeros[i] = 0
  BY <1>1, <1>4
<1>. HIDE DEF firsts, zeros
<1>6. IsOrder(D, before)
  BY <1>5, LexIsOrder
<1>7. ASSUME NEW x \in D
      PROVE  before[x] = {y \in D : Bef(y, x)}
  <2>1. before[x] = {y \in D : \/ firsts[y] < firsts[x]
                               \/ firsts[y] = firsts[x] /\ zeros[y] < zeros[x]
                               \/ firsts[y] = firsts[x] /\ zeros[y] = zeros[x] /\ y < x}
    BY DEF LexBefore
  <2>. QED BY <1>5, <2>1 DEF Sooner
<1>. HIDE DEF before, First
<1>. DEFINE Nth(n) == CHOOSE x \in D : Cardinality({y \in D : Bef(y, x)}) = n - 1
<1>8. order = [n \in 1 .. Cardinality(D) |-> Nth(n)]
  BY DEF Sorted
<1>9. ASSUME NEW n \in 1 .. Cardinality(D)
      PROVE  Nth(n) \in D /\ Cardinality(before[Nth(n)]) = n - 1
  <2>1. PICK x \in D : Cardinality(before[x]) = n - 1
    BY <1>3, <1>6, RanksAreTaken
  <2>2. Cardinality({y \in D : Bef(y, x)}) = n - 1
    BY <1>7, <2>1
  <2>3. Nth(n) \in D /\ Cardinality({y \in D : Bef(y, Nth(n))}) = n - 1
    BY <2>2
  <2>. HIDE DEF Nth
  <2>. QED BY <1>7, <2>3
<1>. HIDE DEF Nth
<1>10. InOrder(D, before, order)
  BY <1>8, <1>9 DEF InOrder
<1>11. Grouped(actions) = [n \in DOMAIN order |-> actions[order[n]]]
  BY DEF Grouped, Sooner, FirstOf
<1>. HIDE DEF order, D
<1>12. /\ DOMAIN order = D /\ order \in [D -> D]
       /\ \A i, j \in D : i < j => order[i] # order[j] /\ order[i] \in before[order[j]]
      /\ \A x \in D : \E n \in D : order[n] = x
  <2>1. DOMAIN order = D /\ order \in [D -> D]
    BY <1>1, <1>2, <1>3, <1>10 DEF InOrder
  <2>2. /\ \A i, j \in DOMAIN order :
              i < j => order[i] # order[j] /\ order[i] \in before[order[j]]
        /\ \A x \in D : \E n \in DOMAIN order : order[n] = x
    BY <1>3, <1>6, <1>10, SortedIs
  <2>. QED BY <2>1, <2>2
<1>13. ASSUME NEW i \in D, NEW j \in D, order[i] = order[j]
       PROVE  i = j
  BY <1>1, <1>12, <1>13
<1>14. ASSUME NEW i \in D, NEW j \in D, i < j
       PROVE  Sooner(actions, order[i], order[j])
  <2>1. order[j] \in D /\ order[i] \in before[order[j]]
    BY <1>12, <1>14
  <2>. QED BY <1>7, <2>1
<1>. QED BY <1>1, <1>11, <1>12, <1>13, <1>14 DEF D

(* A conversation: who talks is of the town, and remembers it.                *)
(* The trust of those who talk, two by two.                                    *)
TalkedOver(t, ordered, pairs) ==
    FoldLeft(LAMBDA u, i : Conversed(u, ordered[2 * i - 1], ordered[2 * i]),
             t, [i \in 1 .. pairs |-> i])
IsTalk(ordered, pairs) ==
    /\ \A i \in 1 .. 2 * pairs : ordered[i] \in Agents
    /\ trust' = TalkedOver(trust, ordered, pairs)

LEMMA ConverseIs ==
    ASSUME PeopleOK, DeedsOK, Converse
    PROVE  /\ \E pairs \in Nat : \E ordered : IsTalk(ordered, pairs)
           /\ \E talkers \in SUBSET Agents :
                 /\ talkers \subseteq Doers
                 /\ occupancy' = Entering(talkers, prepared[1].place)
           /\ \E times \in [Agents -> Nat] :
                 recent' = [a \in Agents |-> Remembering(recent, a, times[a])]
<1>. DEFINE g == Group
            D == DOMAIN g
            Bef(i, j) ==
                LET a == g[i].agent
                    b == g[j].agent
                IN \/ suspicion[a] < suspicion[b]
                   \/ /\ suspicion[a] = suspicion[b]
                      /\ \/ Profile[a].name < Profile[b].name
                         \/ Profile[a].name = Profile[b].name /\ i < j
            order == Sorted(DOMAIN g, Bef)
            ordered == [n \in DOMAIN g |-> g[order[n]].agent]
            pairs == Len(g) \div 2
            Parts(a) == Cardinality({i \in 1 .. 2 * pairs : ordered[i] = a})
            levels == [i \in D |-> suspicion[g[i].agent]]
            names == [i \in D |-> Profile[g[i].agent].name]
            before == LexBefore(D, levels, names)
<1>0. prepared \in Seq(Deeds) /\ prepared # <<>>
  BY DEF DeedsOK, Converse, Resolving
<1>1. g \in Seq(Deeds) /\ Len(g) \in Nat /\ D = 1 .. Len(g)
  <2>1. g \in Seq(Deeds)
    BY <1>0, GroupIs
  <2>. HIDE DEF g
  <2>. QED BY <2>1, LenProperties
<1>2. PICK k \in Nat : k = Len(g)
  BY <1>1
<1>3. IsFiniteSet(D) /\ Cardinality(D) = k
  <2>1. 1 \in Int /\ k \in Int
    OBVIOUS
  <2>2. IsFiniteSet(1 .. k) /\ Cardinality(1 .. k) = IF 1 > k THEN 0 ELSE k - 1 + 1
    BY <2>1, FS_Interval
  <2>. QED BY <1>1, <1>2, <2>2
<1>3a. ASSUME NEW i \in D
       PROVE  g[i].agent \in Doers
  <2>1. /\ Len(g) \in 1 .. Len(prepared)
        /\ \A n \in 1 .. Len(g) : g[n] = prepared[n]
    BY <1>0, GroupIs
  <2>. HIDE DEF g
  <2>2. Len(prepared) \in Nat /\ DOMAIN prepared = 1 .. Len(prepared)
    BY <1>0, LenProperties
  <2>3. i \in DOMAIN prepared /\ g[i] = prepared[i]
    BY <1>1, <2>1, <2>2
  <2>. QED BY <2>3 DEF Doers
<1>. HIDE DEF g
<1>4. ASSUME NEW i \in D
      PROVE  /\ g[i].agent \in Agents /\ suspicion[g[i].agent] \in Nat
             /\ Profile[g[i].agent].name \in Nat
  <2>1. g[i] \in Deeds
    BY <1>1, ElementOfSeq
  <2>2. g[i].agent \in Agents
    BY <2>1 DEF Deeds
  <2>3. suspicion[g[i].agent] \in Nat
    BY <2>2 DEF PeopleOK
  <2>4. Profile[g[i].agent].name \in Nat
    BY <2>2, SocietyAssumption
  <2>. QED BY <2>2, <2>3, <2>4
<1>5. /\ D \in SUBSET Nat /\ levels \in [D -> Nat] /\ names \in [D -> Nat]
      /\ \A i \in D : levels[i] = suspicion[g[i].agent] /\ names[i] = Profile[g[i].agent].name
  BY <1>1, <1>4
<1>. HIDE DEF levels, names
<1>6. IsOrder(D, before)
  BY <1>5, LexIsOrder
<1>7. ASSUME NEW x \in D
      PROVE  before[x] = {y \in D : Bef(y, x)}
  <2>1. before[x] = {y \in D : \/ levels[y] < levels[x]
                               \/ levels[y] = levels[x] /\ names[y] < names[x]
                               \/ levels[y] = levels[x] /\ names[y] = names[x] /\ y < x}
    BY DEF LexBefore
  <2>2. ASSUME NEW y \in D
        PROVE  Bef(y, x) <=> \/ levels[y] < levels[x]
                             \/ levels[y] = levels[x] /\ names[y] < names[x]
                             \/ levels[y] = levels[x] /\ names[y] = names[x] /\ y < x
    BY <1>5
  <2>. HIDE DEF Bef
  <2>. QED BY <2>1, <2>2
<1>. HIDE DEF before
<1>. DEFINE Nth(n) == CHOOSE x \in D : Cardinality({y \in D : Bef(y, x)}) = n - 1
<1>8. order = [n \in 1 .. Cardinality(D) |-> Nth(n)]
  BY DEF Sorted
<1>9. ASSUME NEW n \in 1 .. Cardinality(D)
      PROVE  Nth(n) \in D
  <2>1. PICK x \in D : Cardinality(before[x]) = n - 1
    BY <1>3, <1>6, RanksAreTaken
  <2>. HIDE DEF Bef
  <2>2. Cardinality({y \in D : Bef(y, x)}) = n - 1
    BY <1>7, <2>1
  <2>. QED BY <2>2
<1>10. \A n \in D : order[n] \in D
  <2>. HIDE DEF Nth
  <2>. QED BY <1>1, <1>2, <1>3, <1>8, <1>9
<1>11. /\ occupancy' = Entering({ordered[i] : i \in 1 .. 2 * pairs}, prepared[1].place)
       /\ recent' = [a \in Agents |-> Remembering(recent, a, 2 * Parts(a))]
  BY DEF Converse, g
<1>11a. trust' = TalkedOver(trust, ordered, pairs)
  BY DEF Converse, TalkedOver, g
<1>. HIDE DEF order
<1>12. \A i \in D : ordered[i] \in Agents /\ ordered[i] \in Doers
  BY <1>3a, <1>4, <1>10
<1>. HIDE DEF ordered
<1>13. pairs \in Nat /\ 2 * pairs <= Len(g)
  BY <1>1
<1>14. PICK q \in Nat : q = 2 * pairs
  BY <1>13
<1>. HIDE DEF pairs
<1>15. {ordered[i] : i \in 1 .. q} \subseteq Agents /\ {ordered[i] : i \in 1 .. q} \subseteq Doers
  BY <1>1, <1>12, <1>13, <1>14
<1>16. ASSUME NEW a \in Agents
       PROVE  2 * Parts(a) \in Nat
  <2>. DEFINE mine == {i \in 1 .. q : ordered[i] = a}
  <2>1. IsFiniteSet(1 .. q) /\ mine \in SUBSET (1 .. q)
    BY FS_Interval
  <2>. HIDE DEF mine
  <2>2. Cardinality(mine) \in Nat
    BY <2>1, FS_Subset, FS_CardinalityType
  <2>3. Parts(a) = Cardinality(mine)
    BY <1>14 DEF mine
  <2>. HIDE DEF Parts
  <2>. QED BY <2>2, <2>3
<1>. HIDE DEF Parts
<1>17. PICK times : times = [a \in Agents |-> 2 * Parts(a)]
  OBVIOUS
<1>18. times \in [Agents -> Nat]
  BY <1>16, <1>17
<1>19. recent' = [a \in Agents |-> Remembering(recent, a, times[a])]
  BY <1>11, <1>17
<1>20. PICK talkers \in SUBSET Agents :
           talkers = {ordered[i] : i \in 1 .. 2 * pairs} /\ talkers \subseteq Doers
  BY <1>14, <1>15
<1>21. IsTalk(ordered, pairs)
  <2>1. \A i \in 1 .. q : ordered[i] \in Agents
    BY <1>1, <1>12, <1>13, <1>14
  <2>. QED BY <1>11a, <1>14, <2>1 DEF IsTalk
<1>. QED BY <1>11, <1>13, <1>18, <1>19, <1>20, <1>21

LEMMA EnteringIs ==
    ASSUME PlacesOK, NEW agents \in SUBSET Agents, NEW place \in Places
    PROVE  Entering(agents, place) \in [Places -> SUBSET Agents]
<1>. DEFINE O == [Places -> SUBSET Agents]
<1>1. occupancy \in O
  BY DEF PlacesOK
<1>2. PICK here : here = occupancy[place] \union agents
  OBVIOUS
<1>3. here \in SUBSET Agents
  BY <1>1, <1>2
<1>4. Entering(agents, place) = [occupancy EXCEPT ![place] = here]
  BY <1>2 DEF Entering
<1>. QED BY <1>1, <1>3, <1>4

LEMMA DeedIs ==
    ASSUME DeedsOK, NEW i \in DOMAIN prepared
    PROVE  /\ prepared[i] \in Deeds /\ prepared[i].agent \in Agents
           /\ prepared[i].place \in Places /\ prepared[i].type \in DecisionAction
<1>1. prepared \in Seq(Deeds)
  BY DEF DeedsOK
<1>2. prepared[i] \in Deeds
  BY <1>1, ElementOfSeq, LenProperties
<1>. QED BY <1>2 DEF Deeds

LEMMA FirstDeedIs ==
    ASSUME DeedsOK, Resolving
    PROVE  /\ 1 \in DOMAIN prepared /\ prepared[1] \in Deeds
           /\ prepared[1].agent \in Agents /\ prepared[1].place \in Places
<1>1. prepared \in Seq(Deeds) /\ prepared # <<>>
  BY DEF DeedsOK, Resolving
<1>2. 1 \in DOMAIN prepared
  BY <1>1, TailIs
<1>. QED BY <1>2, DeedIs

LEMMA PlacesInit == Init => PlacesOK
<1>. SUFFICES ASSUME Init PROVE PlacesOK
  OBVIOUS
<1>1. PICK start \in Towns : tile = start.tile /\ location = start.location
  BY DEF Init
<1>2. IsTown(start)
  BY TownAssumption
<1>3. tile \in [Agents -> Tiles]
  BY <1>1, <1>2 DEF IsTown, ArePeople
<1>4. location \in [Agents -> Places]
  BY <1>1, <1>2 DEF IsTown, ArePeople
<1>5. occupancy \in [Places -> SUBSET Agents]
  BY DEF Init
<1>. QED BY <1>3, <1>4, <1>5 DEF PlacesOK

LEMMA PlacesStep ==
    ASSUME RoundOK, TurnsOK, PeopleOK, PlacesOK, DeedsOK, [Next]_vars
    PROVE  PlacesOK'
<1>0. /\ tile \in [Agents -> Tiles] /\ location \in [Agents -> Places]
      /\ occupancy \in [Places -> SUBSET Agents]
  BY DEF PlacesOK
<1>1. CASE Decide \/ MindFails
  <2>1. /\ Head(todo) \in Active /\ \E d \in Decisions : Turn(Head(todo), d)
    BY <1>1, TurnIs
  <2>2. PICK d \in Decisions : Turn(Head(todo), d)
    BY <2>1
  <2>3. PICK h \in Agents : h = Head(todo)
    BY <2>1 DEF Active
  <2>4. Action(h, d).tile \in Tiles
    BY ActionIs
  <2>5. PICK t \in Tiles : t = Action(h, d).tile
    BY <2>4
  <2>6. tile' = [tile EXCEPT ![h] = t]
    BY <2>2, <2>3, <2>5 DEF Turn
  <2>7. \/ location' = [location EXCEPT ![h] = Label[t]]
        \/ location' = [location EXCEPT ![h] = @]
    BY <2>2, <2>3, <2>5 DEF Turn
  <2>8. Label[t] \in Places
    BY WorldAssumption
  <2>9. UNCHANGED occupancy
    BY <2>2 DEF Turn, world
  <2>. QED BY <1>0, <2>6, <2>7, <2>8, <2>9 DEF PlacesOK
<1>2. CASE Converse
  <2>1. Resolving /\ UNCHANGED <<tile, location>>
    BY <1>2 DEF Converse
  <2>2. PICK talkers \in SUBSET Agents : occupancy' = Entering(talkers, prepared[1].place)
    BY <1>2, ConverseIs
  <2>3. occupancy' \in [Places -> SUBSET Agents]
    BY <2>1, <2>2, FirstDeedIs, EnteringIs
  <2>. QED BY <1>0, <2>1, <2>3 DEF PlacesOK
<1>3. CASE Clash
  <2>1. Resolving /\ UNCHANGED <<tile, location>>
    BY <1>3 DEF Clash, resolution
  <2>2. PICK winners \in SUBSET (1 .. Len(Group)) :
            occupancy' = Entering({Group[w].agent : w \in winners}, prepared[1].place)
    BY <1>3 DEF Clash, kSubset
  <2>3. prepared \in Seq(Deeds) /\ prepared # <<>>
    BY <2>1 DEF DeedsOK, Resolving
  <2>4. Group \in Seq(Deeds)
    BY <2>3, GroupIs
  <2>5. \A w \in winners : Group[w].agent \in Agents
    <3>1. \A w \in winners : Group[w] \in Deeds
      BY <2>4, ElementOfSeq
    <3>. QED BY <3>1 DEF Deeds
  <2>6. PICK S \in SUBSET Agents : S = {Group[w].agent : w \in winners}
    BY <2>5
  <2>7. occupancy' \in [Places -> SUBSET Agents]
    BY <2>1, <2>2, <2>6, FirstDeedIs, EnteringIs
  <2>. QED BY <1>0, <2>1, <2>7 DEF PlacesOK
<1>4. CASE Sacrifice
  <2>1. Resolving /\ UNCHANGED tile
    BY <1>4 DEF Sacrifice
  <2>2. PICK a \in Agents, p \in Places : a = prepared[1].agent /\ p = prepared[1].place
    BY <2>1, FirstDeedIs
  <2>3. /\ location' = [location EXCEPT ![a] = p]
        /\ occupancy' = [q \in Places |-> occupancy[q] \ {a}]
    BY <1>4, <2>2 DEF Sacrifice
  <2>. QED BY <1>0, <2>1, <2>3 DEF PlacesOK
<1>5. CASE Act
  <2>1. Resolving /\ UNCHANGED <<tile, location>>
    BY <1>5 DEF Act, resolution
  <2>2. occupancy' = Entering({prepared[1].agent}, prepared[1].place)
    BY <1>5 DEF Act
  <2>3. occupancy' \in [Places -> SUBSET Agents]
    BY <2>1, <2>2, FirstDeedIs, EnteringIs
  <2>. QED BY <1>0, <2>1, <2>3 DEF PlacesOK
<1>6. CASE Midday
  <2>1. UNCHANGED tile
    BY <1>6 DEF Midday
  <2>2. PICK out : /\ location' = [a \in Agents |->
                         IF a = out THEN "perimeter_fence" ELSE location[a]]
                   /\ occupancy' = [p \in Places |->
                         (occupancy[p] \union (IF p = "town_hall" THEN Active ELSE {})) \ {out}]
    BY <1>6 DEF Midday
  <2>3. "perimeter_fence" \in Places
    BY TownAssumption
  <2>4. location' \in [Agents -> Places]
    BY <1>0, <2>2, <2>3
  <2>5. Active \subseteq Agents
    BY DEF Active
  <2>6. occupancy' \in [Places -> SUBSET Agents]
    BY <1>0, <2>2, <2>5
  <2>. QED BY <1>0, <2>1, <2>4, <2>6 DEF PlacesOK
<1>7. CASE ~ (Decide \/ MindFails \/ Converse \/ Clash \/ Sacrifice \/ Act \/ Midday)
  <2>1. UNCHANGED <<tile, location, occupancy>>
    BY <1>7 DEF Next, vars, people, world, Inject, PlanApproved, StartRound, PlanArrives, Dawn,
                BeginActions, TurnStreamed, EndActions, NightFalls, Reflect, Finalise
  <2>. QED BY <1>0, <2>1 DEF PlacesOK
<1>. QED BY <1>1, <1>2, <1>3, <1>4, <1>5, <1>6, <1>7

-----------------------------------------------------------------------------
(* What has been decided on.                                                 *)

(* Deeds that are put in order, or left over, are the deeds there were.       *)
Chosen(s, f, m) == [n \in 1 .. m |-> s[f[n]]]
Distinct(f, m) == \A i, j \in 1 .. m : f[i] = f[j] => i = j

LEMMA DeedsChosen ==
    ASSUME DeedsOK, NEW m \in Nat, NEW f \in [1 .. m -> DOMAIN prepared],
           Distinct(f, m), prepared' = Chosen(prepared, f, m)
    PROVE  /\ prepared' \in Seq(Deeds) /\ DOMAIN prepared' = 1 .. m
           /\ \A i \in DOMAIN prepared' :
                 f[i] \in DOMAIN prepared /\ prepared'[i] = prepared[f[i]]
           /\ \A i, j \in DOMAIN prepared' :
                 /\ prepared'[i].type = "self_sacrifice"
                 /\ prepared'[j].type = "self_sacrifice"
                 /\ prepared'[i].agent = prepared'[j].agent
                 => i = j
<1>1. \A i \in DOMAIN prepared : prepared[i] \in Deeds
  BY DeedIs
<1>2. /\ DOMAIN prepared' = 1 .. m
      /\ \A i \in 1 .. m : f[i] \in DOMAIN prepared /\ prepared'[i] = prepared[f[i]]
  BY DEF Chosen
<1>3. prepared' \in Seq(Deeds)
  BY <1>1, <1>2 DEF Chosen
<1>4. ASSUME NEW i \in 1 .. m, NEW j \in 1 .. m,
             prepared'[i].type = "self_sacrifice", prepared'[j].type = "self_sacrifice",
             prepared'[i].agent = prepared'[j].agent
      PROVE  i = j
  <2>1. Fatal(f[i]) /\ Fatal(f[j]) /\ prepared[f[i]].agent = prepared[f[j]].agent
    BY <1>2, <1>4 DEF Fatal
  <2>2. f[i] = f[j]
    BY <1>2, <2>1 DEF DeedsOK
  <2>. QED BY <2>2 DEF Distinct
<1>. QED BY <1>2, <1>3, <1>4

(* What is left over after the first ones.                                    *)
LEMMA DeedsLeft ==
    ASSUME DeedsOK, NEW n \in 1 .. Len(prepared),
           prepared' = SubSeq(prepared, n + 1, Len(prepared)) \/ (n = 1 /\ prepared' = Tail(prepared))
    PROVE  /\ prepared' \in Seq(Deeds)
           /\ \A i \in DOMAIN prepared' :
                 i \in Nat /\ i + n \in DOMAIN prepared /\ prepared'[i] = prepared[i + n]
           /\ \A i, j \in DOMAIN prepared' :
                 /\ prepared'[i].type = "self_sacrifice"
                 /\ prepared'[j].type = "self_sacrifice"
                 /\ prepared'[i].agent = prepared'[j].agent
                 => i = j
<1>1. prepared \in Seq(Deeds)
  BY DEF DeedsOK
<1>2. PICK k \in Nat : k = Len(prepared)
  BY <1>1, LenProperties
<1>3. DOMAIN prepared = 1 .. k /\ n \in 1 .. k
  BY <1>1, <1>2, LenProperties
<1>4. PICK m \in Nat : m = k - n
  BY <1>3
<1>5. PICK f : f = [i \in 1 .. m |-> i + n]
  OBVIOUS
<1>6. f \in [1 .. m -> DOMAIN prepared] /\ Distinct(f, m)
  BY <1>3, <1>4, <1>5 DEF Distinct
<1>7. prepared' = Chosen(prepared, f, m)
  <2>1. CASE prepared' = SubSeq(prepared, n + 1, Len(prepared))
    <3>1. SubSeq(prepared, n + 1, k) = [i \in 1 .. m |-> prepared[i + n]]
      <4>1. n + 1 \in Int /\ k \in Int /\ \A i \in n + 1 .. k : prepared[i] \in Deeds
        BY <1>1, <1>2, <1>3, ElementOfSeq
      <4>2. /\ SubSeq(prepared, n + 1, k) \in Seq(Deeds)
            /\ Len(SubSeq(prepared, n + 1, k)) = IF n + 1 <= k THEN k - (n + 1) + 1 ELSE 0
            /\ \A i \in 1 .. k - (n + 1) + 1 :
                  SubSeq(prepared, n + 1, k)[i] = prepared[n + 1 + i - 1]
        BY <4>1, SubSeqProperties
      <4>. DEFINE s == SubSeq(prepared, n + 1, k)
      <4>. HIDE DEF s
      <4>3. s \in Seq(Deeds) /\ Len(s) = m /\ \A i \in 1 .. m : s[i] = prepared[i + n]
        BY <1>3, <1>4, <4>2 DEF s
      <4>4. s = [i \in 1 .. m |-> prepared[i + n]]
        BY <4>3
      <4>. QED BY <4>4 DEF s
    <3>. QED BY <1>2, <1>5, <2>1, <3>1 DEF Chosen
  <2>2. CASE n = 1 /\ prepared' = Tail(prepared)
    <3>1. prepared # <<>>
      BY <1>2, <1>3, EmptySeq
    <3>2. /\ Tail(prepared) \in Seq(Deeds) /\ Len(Tail(prepared)) = k - 1
          /\ \A i \in 1 .. Len(Tail(prepared)) : Tail(prepared)[i] = prepared[i + 1]
      BY <1>1, <1>2, <3>1, HeadTailProperties
    <3>. DEFINE s == Tail(prepared)
    <3>3. s \in Seq(Deeds) /\ Len(s) = m /\ \A i \in 1 .. m : s[i] = prepared[i + n]
      BY <1>4, <2>2, <3>2
    <3>. HIDE DEF s
    <3>4. s = [i \in 1 .. m |-> prepared[i + n]]
      BY <3>3
    <3>. QED BY <1>5, <2>2, <3>4 DEF s, Chosen
  <2>. QED BY <2>1, <2>2
<1>8. /\ prepared' \in Seq(Deeds) /\ DOMAIN prepared' = 1 .. m
      /\ \A i \in DOMAIN prepared' :
            f[i] \in DOMAIN prepared /\ prepared'[i] = prepared[f[i]]
      /\ \A i, j \in DOMAIN prepared' :
            /\ prepared'[i].type = "self_sacrifice"
            /\ prepared'[j].type = "self_sacrifice"
            /\ prepared'[i].agent = prepared'[j].agent
            => i = j
  BY <1>6, <1>7, DeedsChosen
<1>9. \A i \in DOMAIN prepared' :
         i \in Nat /\ i + n \in DOMAIN prepared /\ prepared'[i] = prepared[i + n]
  BY <1>5, <1>8
<1>. QED BY <1>8, <1>9

LEMMA DeedsInit == Init => DeedsOK
<1>. SUFFICES ASSUME Init PROVE DeedsOK
  OBVIOUS
<1>1. prepared = <<>> /\ phase = "none"
  BY DEF Init
<1>. QED BY <1>1 DEF DeedsOK, Turning, PerAgent

(* Nothing is decided on or given up.                                         *)
LEMMA DeedsStay ==
    ASSUME DeedsOK, UNCHANGED <<prepared, status>>,
           prepared = <<>> \/ UNCHANGED <<phase, at, todo, slots>>
    PROVE  DeedsOK'
<1>1. Active' = Active
  BY DEF Active
<1>2. CASE prepared = <<>>
  BY <1>2 DEF DeedsOK, Fatal
<1>3. CASE UNCHANGED <<phase, at, todo, slots>>
  BY <1>1, <1>3 DEF DeedsOK, Fatal, Turning
<1>. QED BY <1>2, <1>3

LEMMA DeedsOfATurn ==
    ASSUME RoundOK, TurnsOK, PlacesOK, DeedsOK, Decide \/ MindFails
    PROVE  DeedsOK'
<1>1. /\ Head(todo) \in Active /\ Head(todo) = todo[1] /\ 1 \in DOMAIN todo
      /\ at = "asking" /\ phase \in DOMAIN PerAgent
      /\ \E d \in Decisions : Turn(Head(todo), d)
  BY TurnIs
<1>2. PICK d \in Decisions : Turn(Head(todo), d)
  BY <1>1
<1>3. PICK h \in Active : h = Head(todo)
  BY <1>1
<1>4. h \in Agents
  BY DEF Active
<1>5. PICK deed : deed = [agent |-> h, type |-> Action(h, d).type,
                          place |-> Action(h, d).place, target |-> d.target]
  OBVIOUS
<1>6. deed \in Deeds /\ deed.agent = h /\ deed.type = Action(h, d).type
  <2>1. Action(h, d).type \in DecisionAction /\ Action(h, d).place \in Places
    BY <1>4, ActionIs
  <2>2. d.target \in Agents \union {0}
    BY DEF Decisions
  <2>. QED BY <1>4, <1>5, <2>1, <2>2 DEF Deeds
<1>7. /\ prepared' = Append(prepared, deed)
      /\ at' = "told" /\ UNCHANGED <<status, phase, todo>>
      /\ slots' = IF deed.type = "self_sacrifice" THEN 0 ELSE slots - 1
  BY <1>2, <1>3, <1>5, <1>6 DEF Turn
<1>8. prepared \in Seq(Deeds)
  BY DEF DeedsOK
<1>9. PICK n \in Nat : n = Len(prepared) /\ DOMAIN prepared = 1 .. n
  BY <1>8, LenProperties
<1>10. /\ prepared' \in Seq(Deeds) /\ DOMAIN prepared' = 1 .. n + 1
       /\ prepared'[n + 1] = deed
       /\ \A i \in 1 .. n : prepared'[i] = prepared[i]
  BY <1>6, <1>7, <1>8, <1>9, AppendProperties, LenProperties
<1>11. ASSUME NEW i \in 1 .. n, prepared[i].type = "self_sacrifice"
       PROVE  prepared[i].agent \in Active /\ \A k \in DOMAIN todo : prepared[i].agent # todo[k]
  BY <1>1, <1>9, <1>11 DEF DeedsOK, Fatal, Turning
<1>12. ASSUME NEW i \in DOMAIN prepared', prepared'[i].type = "self_sacrifice"
       PROVE  /\ prepared'[i].agent \in Active
              /\ i = n + 1 => prepared'[i].agent = todo[1] /\ slots' = 0
              /\ i # n + 1 => i \in 1 .. n /\ \A k \in DOMAIN todo : prepared'[i].agent # todo[k]
  <2>1. CASE i = n + 1
    BY <1>1, <1>3, <1>6, <1>7, <1>10, <1>12, <2>1
  <2>2. CASE i # n + 1
    <3>1. i \in 1 .. n
      BY <1>10, <2>2
    <3>. QED BY <1>10, <1>11, <1>12, <2>2, <3>1
  <2>. QED BY <2>1, <2>2
<1>13. ASSUME NEW i \in DOMAIN prepared', NEW j \in DOMAIN prepared',
              prepared'[i].type = "self_sacrifice", prepared'[j].type = "self_sacrifice",
              prepared'[i].agent = prepared'[j].agent
       PROVE  i = j
  <2>1. CASE i = n + 1 \/ j = n + 1
    BY <1>1, <1>12, <1>13, <2>1
  <2>2. CASE i # n + 1 /\ j # n + 1
    <3>1. i \in 1 .. n /\ j \in 1 .. n
      BY <1>12, <1>13, <2>2
    <3>2. Fatal(i) /\ Fatal(j) /\ prepared[i].agent = prepared[j].agent
      BY <1>10, <1>13, <3>1 DEF Fatal
    <3>. QED BY <1>9, <3>1, <3>2 DEF DeedsOK
  <2>. QED BY <2>1, <2>2
<1>14. ASSUME NEW i \in DOMAIN prepared', NEW k \in DOMAIN todo,
              prepared'[i].type = "self_sacrifice", prepared'[i].agent = todo[k]
       PROVE  k = 1 /\ slots' = 0
  <2>1. i = n + 1
    BY <1>12, <1>14
  <2>2. todo[1] = todo[k] /\ slots' = 0
    BY <1>12, <1>14, <2>1
  <2>. QED BY <1>1, <2>2 DEF TurnsOK, Turning
<1>15. Active' = Active
  BY <1>7 DEF Active
<1>. QED BY <1>1, <1>7, <1>10, <1>12, <1>13, <1>14, <1>15 DEF DeedsOK, Fatal, Turning

LEMMA DeedsOfAStream ==
    ASSUME RoundOK, TurnsOK, DeedsOK, TurnStreamed
    PROVE  DeedsOK'
<1>. DEFINE left == IF slots > 0 THEN todo ELSE Tail(todo)
<1>1. at = "told" /\ phase \in DOMAIN PerAgent /\ UNCHANGED <<phase, status>> /\ todo' = left
  BY DEF TurnStreamed, RoundOK, people
<1>2. /\ left = <<>> => at' = "resolving" /\ prepared' = Grouped(prepared)
      /\ left # <<>> => at' = "asking" /\ prepared' = prepared
  BY DEF TurnStreamed
<1>3. Active' = Active
  BY <1>1 DEF Active
<1>4. prepared \in Seq(Deeds)
  BY DEF DeedsOK
<1>5. CASE left = <<>>
  <2>1. PICK m \in Nat : m = Len(prepared) /\ DOMAIN prepared = 1 .. m
    BY <1>4, LenProperties
  <2>2. PICK f \in [DOMAIN prepared -> DOMAIN prepared] :
            /\ \A i, j \in DOMAIN prepared : f[i] = f[j] => i = j
            /\ Grouped(prepared) = [n \in DOMAIN prepared |-> prepared[f[n]]]
    BY <1>4, GroupedIs
  <2>3. f \in [1 .. m -> DOMAIN prepared] /\ Distinct(f, m) /\ prepared' = Chosen(prepared, f, m)
    BY <1>2, <1>5, <2>1, <2>2 DEF Distinct, Chosen
  <2>4. /\ prepared' \in Seq(Deeds) /\ DOMAIN prepared' = 1 .. m
        /\ \A i \in DOMAIN prepared' :
              f[i] \in DOMAIN prepared /\ prepared'[i] = prepared[f[i]]
        /\ \A i, j \in DOMAIN prepared' :
              /\ prepared'[i].type = "self_sacrifice"
              /\ prepared'[j].type = "self_sacrifice"
              /\ prepared'[i].agent = prepared'[j].agent
              => i = j
    BY <2>3, DeedsChosen
  <2>5. \A i \in DOMAIN prepared' :
           prepared'[i].type = "self_sacrifice" => prepared'[i].agent \in Active
    BY <2>4 DEF DeedsOK, Fatal
  <2>. QED BY <1>1, <1>2, <1>3, <1>5, <2>4, <2>5 DEF DeedsOK, Fatal, Turning
<1>6. CASE left # <<>>
  <2>1. todo \in Seq(Active) /\ todo # <<>>
    BY <1>1 DEF TurnsOK, Turning
  <2>2. ASSUME NEW i \in DOMAIN prepared, Fatal(i), NEW k \in DOMAIN left
        PROVE  prepared[i].agent # left[k]
    <3>1. \A l \in DOMAIN todo : prepared[i].agent = todo[l] => l = 1 /\ slots = 0
      BY <1>1, <2>2 DEF DeedsOK, Turning
    <3>2. CASE slots > 0
      BY <3>1, <3>2, <2>2
    <3>3. CASE ~ (slots > 0)
      <4>1. k \in Nat /\ k + 1 \in DOMAIN todo /\ left[k] = todo[k + 1]
        BY <2>1, <2>2, <3>3, TailIs
      <4>2. k \in DOMAIN Tail(todo)
        BY <2>2, <3>3
      <4>3. k # 0
        <5>1. Tail(todo) \in Seq(Active)
          BY <2>1, TailIs
        <5>. HIDE DEF left
        <5>. QED BY <4>2, <5>1, LenProperties
      <4>. QED BY <3>1, <4>1, <4>3
    <3>. QED BY <3>2, <3>3
  <2>. HIDE DEF left
  <2>. QED BY <1>1, <1>2, <1>3, <1>6, <2>2 DEF DeedsOK, Fatal, Turning
<1>. QED BY <1>5, <1>6

LEMMA DeedsOfAResolution ==
    ASSUME RoundOK, DeedsOK, Converse \/ Clash \/ Act \/ Sacrifice
    PROVE  DeedsOK'
<1>1. /\ Resolving /\ at' = "resolving" /\ phase \in DOMAIN PerAgent /\ phase' = phase
  BY DEF Converse, Clash, Act, Sacrifice, Resolving, resolution, RoundOK
<1>2. /\ prepared \in Seq(Deeds) /\ prepared # <<>>
  BY <1>1 DEF DeedsOK, Resolving
<1>3. 1 \in 1 .. Len(prepared) /\ Len(Group) \in 1 .. Len(prepared)
  <2>1. Len(Group) \in 1 .. Len(prepared) /\ Len(prepared) \in Nat
    BY <1>2, GroupIs, LenProperties
  <2>. QED BY <2>1
<1>4. \E n \in 1 .. Len(prepared) :
          \/ prepared' = SubSeq(prepared, n + 1, Len(prepared))
          \/ n = 1 /\ prepared' = Tail(prepared)
  BY <1>3 DEF Converse, Clash, Act, Sacrifice
<1>5. PICK n \in 1 .. Len(prepared) :
          \/ prepared' = SubSeq(prepared, n + 1, Len(prepared))
          \/ n = 1 /\ prepared' = Tail(prepared)
  BY <1>4
<1>6. /\ prepared' \in Seq(Deeds)
      /\ \A i \in DOMAIN prepared' :
            i \in Nat /\ i + n \in DOMAIN prepared /\ prepared'[i] = prepared[i + n]
      /\ \A i, j \in DOMAIN prepared' :
            /\ prepared'[i].type = "self_sacrifice"
            /\ prepared'[j].type = "self_sacrifice"
            /\ prepared'[i].agent = prepared'[j].agent
            => i = j
  BY <1>5, DeedsLeft
<1>7. ASSUME NEW i \in DOMAIN prepared', prepared'[i].type = "self_sacrifice"
      PROVE  prepared'[i].agent \in Active'
  <2>1. Fatal(i + n) /\ i + n \in DOMAIN prepared /\ prepared'[i] = prepared[i + n] /\ i \in Nat
    BY <1>6, <1>7 DEF Fatal
  <2>2. prepared'[i].agent \in Active
    BY <2>1 DEF DeedsOK
  <2>3. CASE UNCHANGED status
    BY <2>2, <2>3 DEF Active
  <2>4. CASE Sacrifice
    <3>1. PICK a \in Agents : a = prepared[1].agent
      BY <1>1, FirstDeedIs
    <3>2. status' = [status EXCEPT ![a] = "dead"] /\ Fatal(1)
      BY <2>4, <3>1 DEF Sacrifice, Fatal
    <3>3. 1 \in DOMAIN prepared
      BY <1>1, FirstDeedIs
    <3>4. i # 0 /\ DOMAIN prepared' = 1 .. Len(prepared')
      BY <1>6, LenProperties
    <3>5. i + n # 1
      <4>1. n \in Nat /\ n >= 1
        BY <1>2, LenProperties
      <4>. QED BY <2>1, <3>4, <4>1
    <3>6. prepared'[i].agent # a
      BY <2>1, <3>1, <3>2, <3>3, <3>5 DEF DeedsOK
    <3>. QED BY <2>2, <3>2, <3>6 DEF Active
  <2>. QED BY <2>3, <2>4 DEF Converse, Clash, Act, resolution
<1>. QED BY <1>1, <1>6, <1>7 DEF DeedsOK, Fatal, Turning

LEMMA DeedsStep ==
    ASSUME RoundOK, TurnsOK, PlacesOK, DeedsOK, [Next]_vars
    PROVE  DeedsOK'
<1>1. CASE Decide \/ MindFails
  BY <1>1, DeedsOfATurn
<1>2. CASE TurnStreamed
  BY <1>2, DeedsOfAStream
<1>3. CASE Converse \/ Clash \/ Act \/ Sacrifice
  BY <1>3, DeedsOfAResolution
<1>4. CASE BeginActions("dawn", "morning") \/ BeginActions("midday", "afternoon")
  <2>1. prepared' = <<>>
    BY <1>4 DEF BeginActions
  <2>. QED BY <2>1 DEF DeedsOK, Fatal
<1>5. CASE EndActions
  BY <1>5, DeedsStay DEF EndActions
<1>6. CASE Midday
  <2>1. prepared = <<>> /\ prepared' = <<>>
    BY <1>6 DEF Midday, DeedsOK
  <2>. QED BY <2>1 DEF DeedsOK, Fatal
<1>7. CASE StartRound \/ PlanArrives \/ Dawn \/ NightFalls \/ Reflect \/ Finalise
  <2>1. phase \notin DOMAIN PerAgent \/ at = "done"
    BY <1>7 DEF StartRound, PlanArrives, Dawn, NightFalls, Reflect, Finalise, PerAgent
  <2>2. prepared = <<>>
    BY <2>1 DEF DeedsOK
  <2>3. UNCHANGED <<prepared, status>>
    BY <1>7 DEF StartRound, PlanArrives, Dawn, NightFalls, Reflect, Finalise, engine, people
  <2>. QED BY <2>2, <2>3, DeedsStay
<1>8. CASE Inject \/ PlanApproved \/ UNCHANGED vars
  <2>1. UNCHANGED <<prepared, status, phase, at, todo, slots>>
    BY <1>8 DEF Inject, PlanApproved, vars, engine, people
  <2>. QED BY <2>1, DeedsStay
<1>. QED BY <1>1, <1>2, <1>3, <1>4, <1>5, <1>6, <1>7, <1>8 DEF Next

-----------------------------------------------------------------------------
(* The town between two awaits.                                               *)
TownOK == RoundOK /\ TurnsOK /\ PeopleOK /\ PlacesOK /\ DeedsOK

LEMMA TownStands == Spec => []TownOK
<1>1. Init => TownOK
  BY RoundInit, TurnsInit, PeopleInit, PlacesInit, DeedsInit DEF TownOK
<1>2. TownOK /\ [Next]_vars => TownOK'
  BY RoundStep, TurnsStep, PeopleStep, PlacesStep, DeedsStep DEF TownOK
<1>. QED BY <1>1, <1>2, PTL DEF Spec

(* Suspicion falls only where a turn writes, over what an observer event has  *)
(* added meanwhile, what the mind made of the suspicion it was asked with.    *)
THEOREM SuspicionLosesOnlyTheRace == Spec => SuspicionFallsOnlyToARace
<1>. DEFINE Race(a) ==
              suspicion'[a] < suspicion[a] =>
                  /\ at = "asking" /\ todo # <<>> /\ a = Head(todo)
                  /\ suspicion[a] > asked /\ suspicion'[a] >= asked
<1>1. ASSUME TownOK, [Next]_vars, NEW a \in Agents
      PROVE  Race(a)
  <2>1. suspicion' \in [Agents -> 0 .. 100] /\ (suspicion'[a] >= suspicion[a] \/ Turns(a))
    BY <1>1, SuspicionStep DEF TownOK
  <2>2. suspicion[a] \in 0 .. 100 /\ suspicion'[a] \in 0 .. 100 /\ asked \in 0 .. 100
    BY <1>1, <2>1 DEF TownOK, PeopleOK
  <2>3. PICK old \in 0 .. 100, new \in 0 .. 100 : old = suspicion[a] /\ new = suspicion'[a]
    BY <2>2
  <2>4. ASSUME new < old
        PROVE  Turns(a) /\ old > asked
    <3>1. Turns(a)
      BY <2>1, <2>3, <2>4
    <3>2. new >= asked
      BY <2>3, <3>1 DEF Turns
    <3>. QED BY <2>2, <2>4, <3>1, <3>2
  <2>. QED BY <2>3, <2>4 DEF Turns
<1>2. TownOK /\ [Next]_vars => [\A a \in Agents : Race(a)]_vars
  <2>. HIDE DEF Race
  <2>. QED BY <1>1
<1>. QED BY <1>2, TownStands, PTL DEF Spec, SuspicionFallsOnlyToARace

-----------------------------------------------------------------------------
(* What is remembered.                                                        *)

LEMMA DayIs ==
    ASSUME RoundOK
    PROVE  Day \in Nat /\ Day >= round /\ (phase # "none" => Day = round + 1)
           /\ (phase = "none" => Day = round)
BY DEF RoundOK, Day

(* What a step makes of a memory: nothing, or more of today.                   *)
Recalled(a, memory) ==
    /\ memory \in Seq(0 .. Day) /\ Len(memory) <= RecentLimit
    /\ memory # recent[a] => memory # <<>> /\ Last(memory) = Day

LEMMA RecallIs ==
    ASSUME MemoryOK, Day \in Nat, NEW a \in Agents
    PROVE  /\ Recalled(a, recent[a])
           /\ \A n \in Nat : Recalled(a, Remembering(recent, a, n))
<1>1. recent[a] \in Seq(0 .. Day) /\ Len(recent[a]) <= RecentLimit
  BY DEF MemoryOK
<1>2. ASSUME NEW n \in Nat
      PROVE  Recalled(a, Remembering(recent, a, n))
  BY <1>1, RememberingIs DEF Recalled
<1>. QED BY <1>1, <1>2 DEF Recalled

(* Nobody remembers anything but in a round and before the end of its night.   *)
Recording == phase # "none" /\ ~ (phase = "night" /\ at = "done")
MemoryGrows ==
    /\ \E memory \in [Agents -> Seq(0 .. Day)] : recent' = memory
    /\ \A a \in Agents : Recalled(a, recent'[a])
    /\ UNCHANGED recent \/ Recording

LEMMA MemoryOfAStep ==
    ASSUME TownOK, MemoryOK, [Next]_vars
    PROVE  MemoryGrows
<1>. DEFINE Memory == Seq(0 .. Day)
<1>0. RoundOK /\ TurnsOK /\ PeopleOK /\ PlacesOK /\ DeedsOK
  BY DEF TownOK
<1>1. Day \in Nat
  BY <1>0, DayIs
<1>2. \A a \in Agents : /\ Recalled(a, recent[a])
                        /\ \A n \in Nat : Recalled(a, Remembering(recent, a, n))
  BY <1>1, RecallIs
<1>3. \A a \in Agents : /\ recent[a] \in Memory
                        /\ \A n \in Nat : Remembering(recent, a, n) \in Memory
  BY <1>2 DEF Recalled
<1>4. recent \in [Agents -> Memory]
  BY DEF MemoryOK
<1>. HIDE DEF Memory
<1>5. ASSUME Recording,
             NEW memory, recent' = [a \in Agents |-> memory[a]],
             \A a \in Agents : \/ memory[a] = recent[a]
                               \/ \E n \in Nat : memory[a] = Remembering(recent, a, n)
      PROVE  MemoryGrows
  <2>1. \A a \in Agents : memory[a] \in Memory /\ Recalled(a, memory[a])
    BY <1>2, <1>3, <1>5
  <2>2. recent' \in [Agents -> Memory] /\ \A a \in Agents : recent'[a] = memory[a]
    BY <1>5, <2>1
  <2>. QED BY <1>5, <2>1, <2>2 DEF MemoryGrows, Memory
<1>6. ASSUME Recording, NEW one, NEW n \in Nat,
             recent' = [recent EXCEPT ![one] = Remembering(recent, one, n)]
      PROVE  MemoryGrows
  <2>1. PICK memory : memory = [recent EXCEPT ![one] = Remembering(recent, one, n)]
    OBVIOUS
  <2>2. memory = [a \in Agents |-> memory[a]]
    BY <1>4, <2>1
  <2>3. \A a \in Agents : \/ memory[a] = recent[a]
                          \/ \E m \in Nat : memory[a] = Remembering(recent, a, m)
    BY <1>4, <1>6, <2>1
  <2>. QED BY <1>5, <1>6, <2>1, <2>2, <2>3
<1>7. CASE Decide \/ MindFails
  <2>1. PICK d \in Decisions : Turn(Head(todo), d)
    BY <1>0, <1>7, TurnIs
  <2>2. Recording
    BY <1>7 DEF Decide, MindFails, Recording, PerAgent
  <2>3. \E n \in Nat :
            recent' = [recent EXCEPT ![Head(todo)] = Remembering(recent, Head(todo), n)]
    BY <2>1 DEF Turn
  <2>. QED BY <1>6, <2>2, <2>3
<1>8. CASE Converse
  <2>1. Recording
    BY <1>0, <1>8 DEF Converse, Resolving, Recording, RoundOK, PerAgent
  <2>2. PICK times \in [Agents -> Nat] :
            recent' = [a \in Agents |-> Remembering(recent, a, times[a])]
    BY <1>0, <1>8, ConverseIs
  <2>3. PICK memory : memory = [a \in Agents |-> Remembering(recent, a, times[a])]
    OBVIOUS
  <2>4. recent' = [a \in Agents |-> memory[a]]
    BY <2>2, <2>3
  <2>5. \A a \in Agents : \E n \in Nat : memory[a] = Remembering(recent, a, n)
    BY <2>3
  <2>. QED BY <1>5, <2>1, <2>4, <2>5
<1>9. CASE Sacrifice
  <2>1. Recording
    BY <1>0, <1>9 DEF Sacrifice, Resolving, Recording, RoundOK, PerAgent
  <2>2. PICK witnesses :
            recent' = [b \in Agents |->
                IF b \in witnesses THEN Remembering(recent, b, 1) ELSE recent[b]]
    BY <1>9 DEF Sacrifice
  <2>3. PICK memory : memory = [b \in Agents |->
            IF b \in witnesses THEN Remembering(recent, b, 1) ELSE recent[b]]
    OBVIOUS
  <2>4. recent' = [a \in Agents |-> memory[a]]
    BY <2>2, <2>3
  <2>5. \A a \in Agents : \/ memory[a] = recent[a]
                          \/ \E n \in Nat : memory[a] = Remembering(recent, a, n)
    BY <2>3
  <2>. QED BY <1>5, <2>1, <2>4, <2>5
<1>10. CASE Act
  <2>1. Recording
    BY <1>0, <1>10 DEF Act, Resolving, Recording, resolution, RoundOK, PerAgent
  <2>2. \/ UNCHANGED recent
        \/ \E victim : recent' = [recent EXCEPT ![victim] = Remembering(recent, victim, 1)]
    BY <1>10 DEF Act
  <2>3. CASE UNCHANGED recent
    BY <1>2, <1>4, <2>3 DEF MemoryGrows, Memory
  <2>. QED BY <1>6, <2>1, <2>2, <2>3
<1>11. CASE Reflect
  <2>1. Recording
    BY <1>11 DEF Reflect, Recording
  <2>2. recent' = [a \in Agents |->
            IF a \in Active THEN Remembering(recent, a, 1) ELSE recent[a]]
    BY <1>11 DEF Reflect
  <2>3. PICK memory : memory = [a \in Agents |->
            IF a \in Active THEN Remembering(recent, a, 1) ELSE recent[a]]
    OBVIOUS
  <2>4. recent' = [a \in Agents |-> memory[a]]
    BY <2>2, <2>3
  <2>5. \A a \in Agents : \/ memory[a] = recent[a]
                          \/ \E n \in Nat : memory[a] = Remembering(recent, a, n)
    BY <2>3
  <2>. QED BY <1>5, <2>1, <2>4, <2>5
<1>12. CASE ~ (Decide \/ MindFails \/ Converse \/ Sacrifice \/ Act \/ Reflect)
  <2>1. UNCHANGED recent
    BY <1>12 DEF Next, vars, people, Inject, PlanApproved, StartRound, PlanArrives, Dawn,
                 BeginActions, TurnStreamed, Clash, resolution, EndActions, Midday, NightFalls,
                 Finalise
  <2>. QED BY <1>2, <1>4, <2>1 DEF MemoryGrows, Memory
<1>. QED BY <1>7, <1>8, <1>9, <1>10, <1>11, <1>12

LEMMA SeqWider ==
    ASSUME NEW S, NEW T, S \subseteq T, NEW s \in Seq(S)
    PROVE  s \in Seq(T)
<1>1. Len(s) \in Nat /\ DOMAIN s = 1 .. Len(s) /\ \A i \in 1 .. Len(s) : s[i] \in S
  BY LenProperties, ElementOfSeq
<1>2. s \in [1 .. Len(s) -> S]
  BY LenProperties
<1>3. s \in [1 .. Len(s) -> T]
  BY <1>1, <1>2
<1>. QED BY <1>1, <1>3, SeqDef

LEMMA MemoryInit == Init => MemoryOK
<1>. SUFFICES ASSUME Init PROVE MemoryOK
  OBVIOUS
<1>1. round \in Nat /\ Day = round
  BY StartIs DEF Init, Day
<1>2. /\ recent = [a \in Agents |-> <<>>] /\ cursor = [a \in Agents |-> round]
      /\ phase = "none"
  BY DEF Init
<1>3. <<>> \in Seq(0 .. Day) /\ Len(<<>>) = 0
  BY EmptySeq
<1>4. RecentLimit \in Nat \ {0}
  BY TownAssumption
<1>. QED BY <1>1, <1>2, <1>3, <1>4 DEF MemoryOK

LEMMA DayStep ==
    ASSUME RoundOK, [Next]_vars
    PROVE  /\ Day' \in Nat /\ Day' >= Day
           /\ round' >= round /\ round' \in Nat
           /\ ~ StartRound => Day' = Day
           /\ ~ Finalise => round' = round
<1>0. round \in Nat
  BY DEF RoundOK
<1>1. CASE StartRound
  BY <1>0, <1>1 DEF StartRound, Finalise, Day
<1>2. CASE Finalise
  BY <1>0, <1>2 DEF StartRound, Finalise, Day
<1>3. CASE ~ (StartRound \/ Finalise)
  <2>1. /\ round' = round
        /\ phase' = "none" <=> phase = "none"
    BY <1>3 DEF Next, vars, Inject, PlanApproved, PlanArrives, Dawn,
                BeginActions, Decide, MindFails, Turn, TurnStreamed, Converse, Clash, Sacrifice,
                Act, resolution, EndActions, Midday, NightFalls, Reflect
  <2>. QED BY <1>0, <1>3, <2>1 DEF Day
<1>. QED BY <1>1, <1>2, <1>3

LEMMA MemoryStep ==
    ASSUME TownOK, MemoryOK, [Next]_vars
    PROVE  MemoryOK'
<1>0. RoundOK
  BY DEF TownOK
<1>1. PICK d \in Nat, e \in Nat : d = Day /\ e = Day'
  BY <1>0, DayIs, DayStep
<1>2. d <= e
  BY <1>0, <1>1, DayStep
<1>3. MemoryGrows
  BY MemoryOfAStep
<1>4. recent' \in [Agents -> Seq(0 .. e)]
  <2>1. recent' \in [Agents -> Seq(0 .. d)]
    BY <1>1, <1>3 DEF MemoryGrows
  <2>2. 0 .. d \subseteq 0 .. e
    BY <1>2
  <2>3. \A s \in Seq(0 .. d) : s \in Seq(0 .. e)
    BY <2>2, SeqWider
  <2>. QED BY <2>1, <2>3
<1>5. \A a \in Agents : Len(recent'[a]) <= RecentLimit
  BY <1>3 DEF MemoryGrows, Recalled
<1>6. /\ cursor \in [Agents -> 0 .. d]
      /\ ~ (phase = "night" /\ at = "done") => \A a \in Agents : cursor[a] <= round
  BY <1>1 DEF MemoryOK
<1>7. CASE Reflect
  <2>1. PICK memory : memory = [a \in Agents |->
            IF a \in Active THEN Remembering(recent, a, 1) ELSE recent[a]]
    OBVIOUS
  <2>2. PICK due \in SUBSET Active :
            cursor' = [a \in Agents |-> IF a \in due THEN Last(memory[a]) ELSE cursor[a]]
    BY <1>7, <2>1 DEF Reflect
  <2>3. ASSUME NEW a \in Agents, a \in due
        PROVE  Last(memory[a]) = d
    <3>1. memory[a] = Remembering(recent, a, 1)
      BY <2>1, <2>3
    <3>2. recent[a] \in Seq(0 .. Day) /\ Day \in Nat
      BY <1>1 DEF MemoryOK
    <3>. QED BY <1>1, <3>1, <3>2, RememberingIs
  <2>4. cursor' \in [Agents -> 0 .. d]
    BY <1>6, <2>2, <2>3
  <2>5. cursor' \in [Agents -> 0 .. e]
    BY <1>2, <2>4
  <2>6. phase' = "night" /\ at' = "done"
    BY <1>7 DEF Reflect
  <2>. QED BY <1>1, <1>4, <1>5, <2>5, <2>6 DEF MemoryOK
<1>8. CASE ~ Reflect
  <2>1. UNCHANGED cursor
    BY <1>8 DEF Next, vars, people, Inject, PlanApproved, StartRound, PlanArrives, Dawn,
                BeginActions, Decide, MindFails, Turn, TurnStreamed, Converse, Clash, Sacrifice,
                Act, resolution, EndActions, Midday, NightFalls, Finalise
  <2>2. cursor' \in [Agents -> 0 .. e]
    BY <1>2, <1>6, <2>1
  <2>3. CASE Finalise
    <3>1. round' = round + 1 /\ d = round + 1 /\ round \in Nat
      BY <1>0, <1>1, <2>3, DayIs DEF Finalise, RoundOK
    <3>2. \A a \in Agents : cursor'[a] <= round'
      BY <1>6, <2>1, <3>1
    <3>. QED BY <1>1, <1>4, <1>5, <2>2, <3>2 DEF MemoryOK
  <2>4. CASE ~ Finalise
    <3>1. round' = round
      BY <1>0, <2>4, DayStep
    <3>2. phase = "night" /\ at = "done" => phase' = "night" /\ at' = "done"
      BY <1>8, <2>4 DEF Next, vars, Inject, PlanApproved, StartRound, PlanArrives, Dawn,
                BeginActions, Decide, MindFails, TurnStreamed, Converse, Clash, Sacrifice,
                Act, Resolving, EndActions, Midday, NightFalls, PerAgent
    <3>3. ~ (phase = "night" /\ at = "done")' => \A a \in Agents : cursor'[a] <= round'
      BY <1>6, <2>1, <3>1, <3>2
    <3>. QED BY <1>1, <1>4, <1>5, <2>2, <3>3 DEF MemoryOK
  <2>. QED BY <2>3, <2>4
<1>. QED BY <1>7, <1>8

LEMMA MemoryHolds == Spec => [](TownOK /\ MemoryOK)
<1>1. Init => MemoryOK
  BY MemoryInit
<1>2. TownOK /\ MemoryOK /\ [Next]_vars => MemoryOK'
  BY MemoryStep
<1>. QED BY <1>1, <1>2, TownStands, PTL DEF Spec

(* No event is recorded behind the cursor of the consolidation, where no      *)
(* later night would look at it.                                              *)
THEOREM NoEventIsSkipped == Spec => EventsAheadOfCursor
<1>. DEFINE Ahead(a) == recent'[a] # recent[a] => Last(recent'[a]) > cursor[a]
<1>1. ASSUME TownOK, MemoryOK, [Next]_vars, NEW a \in Agents
      PROVE  Ahead(a)
  <2>1. SUFFICES ASSUME recent'[a] # recent[a] PROVE Last(recent'[a]) > cursor[a]
    OBVIOUS
  <2>2. Recording /\ Last(recent'[a]) = Day
    BY <1>1, <2>1, MemoryOfAStep DEF MemoryGrows, Recalled
  <2>3. Day = round + 1 /\ round \in Nat
    BY <1>1, <2>2, DayIs DEF TownOK, RoundOK, Recording
  <2>4. cursor[a] <= round /\ cursor[a] \in 0 .. Day
    BY <1>1, <2>2 DEF MemoryOK, Recording
  <2>. QED BY <2>2, <2>3, <2>4
<1>2. TownOK /\ MemoryOK /\ [Next]_vars => [\A a \in Agents : Ahead(a)]_vars
  <2>. HIDE DEF Ahead
  <2>. QED BY <1>1
<1>. QED BY <1>2, MemoryHolds, PTL DEF Spec, EventsAheadOfCursor

-----------------------------------------------------------------------------
(* The threat.                                                                *)

LEMMA QuotientIs ==
    ASSUME NEW n \in Nat, NEW d \in Nat \ {0}
    PROVE  n \div d \in Nat /\ d * (n \div d) <= n /\ n < d * (n \div d + 1)
OBVIOUS

LEMMA RoundedIs ==
    ASSUME NEW n \in Nat, NEW d \in Nat \ {0}
    PROVE  \E q \in Nat : d * q <= n /\ RoundDiv(n, d) \in {q, q + 1}
<1>1. PICK q \in Nat : q = n \div d /\ d * q <= n
  BY QuotientIs
<1>2. RoundDiv(n, d) \in {q, q + 1}
  BY <1>1, RoundDivIs
<1>. QED BY <1>1, <1>2

LEMMA RatioIs ==
    ASSUME NEW asks \in Nat \ {0}, NEW coop \in 0 .. asks
    PROVE  RoundDiv(100 * coop, asks) \in 0 .. 101
<1>1. PICK n \in Nat : n = 100 * coop
  OBVIOUS
<1>2. PICK q \in Nat : asks * q <= n /\ RoundDiv(n, asks) \in {q, q + 1}
  BY RoundedIs
<1>3. q <= 100
  <2>1. n <= 100 * asks
    BY <1>1
  <2>2. ASSUME q >= 101 PROVE FALSE
    <3>1. PICK r \in Nat : q = 101 + r
      BY <2>2
    <3>2. asks * q = 101 * asks + asks * r
      BY <3>1
    <3>3. asks * r \in Nat
      OBVIOUS
    <3>. QED BY <1>2, <2>1, <3>2, <3>3
  <2>. QED BY <2>2
<1>. QED BY <1>1, <1>2, <1>3

(* What a shortage may weigh: at most as much as to have no power at all.      *)
OneStock == 462000

LEMMA ShortageIs ==
    ASSUME NEW res \in Stocks, NEW x \in Resources
    PROVE  /\ Shortage(res, x) \in Nat /\ Shortage(res, x) <= OneStock
           /\ Shortage(res, x) # 0 => res[x] < Baseline[x]
<1>1. PICK b \in Nat, w \in Nat, v \in Nat : b = Baseline[x] /\ w = Weight[x] /\ v = res[x]
  BY DEF Baseline, Weight, Resources, Stocks
<1>2. Max({0, b - v}) = IF 0 >= b - v THEN 0 ELSE b - v
  BY MaxOfTwo
<1>3. PICK m \in Nat : m = Max({0, b - v}) /\ m <= b /\ (m # 0 => v < b)
  BY <1>2
<1>4. Shortage(res, x) = m * w
  BY <1>1, <1>3 DEF Shortage
<1>5. m * w \in Nat /\ (m * w # 0 => m # 0)
  OBVIOUS
<1>6. m * w <= OneStock
  <2>1. CASE x = "food"
    <3>1. b = 2400 /\ w = 105
      BY <1>1, <2>1 DEF Baseline, Weight
    <3>. QED BY SMTT(20), <1>3, <3>1 DEF OneStock
  <2>2. CASE x = "water"
    <3>1. b = 3000 /\ w = 70
      BY <1>1, <2>2 DEF Baseline, Weight
    <3>. QED BY SMTT(20), <1>3, <3>1 DEF OneStock
  <2>3. CASE x = "materials"
    <3>1. b = 1400 /\ w = 270
      BY <1>1, <2>3 DEF Baseline, Weight
    <3>. QED BY SMTT(20), <1>3, <3>1 DEF OneStock
  <2>4. CASE x = "power"
    <3>1. b = 1000 /\ w = 462
      BY <1>1, <2>4 DEF Baseline, Weight
    <3>. QED BY SMTT(20), <1>3, <3>1 DEF OneStock
  <2>. QED BY <2>1, <2>2, <2>3, <2>4 DEF Resources
<1>. QED BY <1>1, <1>3, <1>4, <1>5, <1>6

LEMMA TwoShortages ==
    ASSUME NEW res \in Stocks, Shortages(res) > OneStock
    PROVE  \E x, y \in Resources : /\ x # y
                                   /\ res[x] < Baseline[x] /\ res[y] < Baseline[y]
<1>0. {"food", "water", "materials", "power"} \subseteq Resources
  BY DEF Resources
<1>1. PICK f \in Nat, w \in Nat, m \in Nat, p \in Nat :
         /\ f = Shortage(res, "food") /\ w = Shortage(res, "water")
         /\ m = Shortage(res, "materials") /\ p = Shortage(res, "power")
  BY <1>0, ShortageIs
<1>2. f <= OneStock /\ w <= OneStock /\ m <= OneStock /\ p <= OneStock
  BY <1>0, <1>1, ShortageIs
<1>3. f + w + m + p > OneStock
  BY <1>1 DEF Shortages
<1>3a. OneStock \in Int
  BY DEF OneStock
<1>4. \/ (f # 0 /\ w # 0) \/ (f # 0 /\ m # 0) \/ (f # 0 /\ p # 0)
      \/ (w # 0 /\ m # 0) \/ (w # 0 /\ p # 0) \/ (m # 0 /\ p # 0)
  BY <1>2, <1>3, <1>3a
<1>5. \A x \in Resources : Shortage(res, x) # 0 => res[x] < Baseline[x]
  BY ShortageIs
<1>. QED BY <1>0, <1>1, <1>4, <1>5

LEMMA ThreatIs ==
    ASSUME NEW res \in Stocks, NEW coop \in 0 .. 101, NEW severity \in DOMAIN Severity
    PROVE  /\ Threat(res, coop, severity) \in Cents
           /\ Threat(res, coop, severity) >= 10000 => Shortages(res) > OneStock
<1>1. PICK s \in Nat : s = Shortages(res)
  <2>0. {"food", "water", "materials", "power"} \subseteq Resources
    BY DEF Resources
  <2>1. PICK f \in Nat, w \in Nat, m \in Nat, p \in Nat :
           /\ f = Shortage(res, "food") /\ w = Shortage(res, "water")
           /\ m = Shortage(res, "materials") /\ p = Shortage(res, "power")
    BY <2>0, ShortageIs
  <2>. QED BY <2>1 DEF Shortages
<1>2. PICK v \in Nat : v = Severity[severity] /\ v <= 420000
  BY SMTT(20) DEF Severity
<1>3. PICK l \in Int : l = (100 - coop) * 7350 /\ 0 <= l + 7350 /\ l <= 735000
  <2>1. PICK c \in Nat : c = coop /\ c <= 101
    OBVIOUS
  <2>2. PICK l \in Int : l = (100 - c) * 7350
    OBVIOUS
  <2>3. l + 7350 * c = 735000
    BY SMTT(20), <2>2
  <2>4. 0 <= l + 7350 /\ l <= 735000
    BY SMTT(20), <2>1, <2>3
  <2>. QED BY SMTT(20), <2>1, <2>2, <2>4
<1>4. PICK n \in Nat : n = 168000 + s + l + v
  <2>1. PICK k \in Nat : k = l + 7350
    BY <1>3
  <2>2. 168000 + s + l + v = 160650 + s + k + v
    BY SMTT(20), <2>1
  <2>3. PICK n \in Nat : n = 160650 + s + k + v
    BY SMTT(20)
  <2>. QED BY SMTT(20), <2>2, <2>3
<1>5. PICK q \in Nat : 210 * q <= n /\ RoundDiv(n, 210) \in {q, q + 1}
  BY RoundedIs
<1>6. PICK r \in Nat : r = RoundDiv(n, 210) /\ r \in {q, q + 1}
  BY <1>5
<1>7. Min({10000, r}) = IF 10000 <= r THEN 10000 ELSE r
  BY MinOfTwo
<1>8. Threat(res, coop, severity) = Min({10000, r})
  BY SMTT(20), <1>1, <1>2, <1>3, <1>4, <1>6 DEF Threat
<1>9. Min({10000, r}) \in Cents
  <2>1. CASE 10000 <= r
    BY <1>7, <2>1 DEF Cents
  <2>2. CASE ~ (10000 <= r)
    BY <1>7, <2>2 DEF Cents
  <2>. QED BY <2>1, <2>2
<1>10. ASSUME Min({10000, r}) >= 10000
       PROVE  s > OneStock
  <2>1. r >= 10000
    BY <1>7, <1>10
  <2>2. q >= 9999
    BY <1>6, <2>1
  <2>3. n >= 2099790
    BY SMTT(20), <1>5, <2>2
  <2>. QED BY SMTT(20), <1>2, <1>3, <1>4, <2>3 DEF OneStock
<1>. QED BY <1>1, <1>8, <1>9, <1>10

LEMMA PlanOfTheRules ==
    ASSUME NEW n, NEW t, NEW res, NEW lines
    PROVE  /\ RuleBasedPlan(n, t, res, lines).severity \in DOMAIN Severity
           /\ RuleBasedPlan(n, t, res, lines).modifiers \in [Resources -> Int]
           /\ RuleBasedPlan(n, t, res, lines).watch \in BOOLEAN
<1>. DEFINE watched == \E i \in DOMAIN lines : lines[i]
<1>1. PICK type : type = CrisisTemplate(n, t, res, watched)
  OBVIOUS
<1>2. PICK severity : severity = CrisisSeverity(n, t)
  OBVIOUS
<1>3. type \in DOMAIN CrisisModifiers
  BY <1>1 DEF CrisisTemplate, CrisisModifiers
<1>4. severity \in DOMAIN Severity /\ severity \in DOMAIN Tenths
  BY <1>2 DEF CrisisSeverity, Severity, Tenths
<1>5. ASSUME NEW x \in Resources
      PROVE  (CrisisModifiers[type][x] \div 10) * Tenths[severity] \in Int
  <2>1. CrisisModifiers[type][x] \in Int
    <3>0. NoModifiers \in [Resources -> Int]
      BY DEF NoModifiers
    <3>1. PICK m \in [Resources -> Int] : m = NoModifiers
      BY <3>0
    <3>2. \A r \in Resources, i \in Int, k \in [Resources -> Int] :
             [k EXCEPT ![r] = i] \in [Resources -> Int]
      OBVIOUS
    <3>3. /\ "food" \in Resources /\ "water" \in Resources
          /\ "materials" \in Resources /\ "power" \in Resources
      BY DEF Resources
    <3>4. PICK one \in Int, two \in Int : one = -100 /\ two = -200
      OBVIOUS
    <3>5. CASE type = "resource"
      <4>1. CrisisModifiers[type] = [m EXCEPT !.food = two, !.materials = one]
        BY <3>1, <3>4, <3>5 DEF CrisisModifiers
      <4>2. [m EXCEPT !.food = two, !.materials = one] \in [Resources -> Int]
        BY <3>2, <3>3
      <4>. QED BY <4>1, <4>2
    <3>6. CASE type = "structural"
      <4>1. CrisisModifiers[type] = [m EXCEPT !.materials = two, !.power = two]
        BY <3>1, <3>4, <3>6 DEF CrisisModifiers
      <4>2. [m EXCEPT !.materials = two, !.power = two] \in [Resources -> Int]
        BY <3>2, <3>3
      <4>. QED BY <4>1, <4>2
    <3>7. CASE type = "environmental"
      <4>1. CrisisModifiers[type] = [m EXCEPT !.food = one, !.water = one, !.power = one]
        BY <3>1, <3>4, <3>7 DEF CrisisModifiers
      <4>2. [m EXCEPT !.food = one, !.water = one, !.power = one] \in [Resources -> Int]
        BY <3>2, <3>3
      <4>. QED BY <4>1, <4>2
    <3>8. CASE type = "discovery"
      <4>1. CrisisModifiers[type] = [m EXCEPT !.materials = one, !.power = one]
        BY <3>1, <3>4, <3>8 DEF CrisisModifiers
      <4>2. [m EXCEPT !.materials = one, !.power = one] \in [Resources -> Int]
        BY <3>2, <3>3
      <4>. QED BY <4>1, <4>2
    <3>9. CASE type = "meta"
      <4>1. CrisisModifiers[type] = [m EXCEPT !.power = two]
        BY <3>1, <3>4, <3>9 DEF CrisisModifiers
      <4>. QED BY <3>2, <3>3, <4>1
    <3>10. CASE type = "social"
      BY <3>1, <3>10 DEF CrisisModifiers
    <3>. QED BY <1>3, <3>5, <3>6, <3>7, <3>8, <3>9, <3>10 DEF CrisisModifiers
  <2>2. Tenths[severity] \in Int
    BY <1>4 DEF Tenths
  <2>3. PICK k \in Int, l \in Int : k = CrisisModifiers[type][x] /\ l = Tenths[severity]
    BY <2>1, <2>2
  <2>4. k \div 10 \in Int
    OBVIOUS
  <2>. QED BY <2>3, <2>4
<1>6. /\ RuleBasedPlan(n, t, res, lines).severity = severity
      /\ RuleBasedPlan(n, t, res, lines).modifiers =
            [x \in Resources |-> (CrisisModifiers[type][x] \div 10) * Tenths[severity]]
  BY <1>1, <1>2 DEF RuleBasedPlan
<1>7. RuleBasedPlan(n, t, res, lines).watch \in BOOLEAN
  BY DEF RuleBasedPlan
<1>. QED BY <1>4, <1>5, <1>6, <1>7

LEMMA PlansAre ==
    /\ IsPlan(NoPlan)
    /\ \A n, p : IsPlan(p) => IsPlan(ForRound(n, p))
    /\ \A p \in Plans : IsPlan(p)
<1>1. IsPlan(NoPlan)
  BY DEF IsPlan, NoPlan, NoModifiers, Severity
<1>2. \A n, p : IsPlan(p) => IsPlan(ForRound(n, p))
  BY DEF IsPlan, ForRound
<1>3. \A p \in Plans : IsPlan(p)
  BY TownAssumption DEF IsPlan
<1>. QED BY <1>1, <1>2, <1>3

LEMMA CooperationIs ==
    ASSUME IsTally(tally)
    PROVE  Cooperation \in 0 .. 101
<1>1. CASE tally.asked = 0
  BY <1>1 DEF Cooperation
<1>2. CASE tally.asked # 0
  <2>1. PICK asks \in Nat \ {0}, coop \in Nat :
            asks = tally.asked /\ coop = tally.coop /\ coop <= asks
    BY <1>2 DEF IsTally
  <2>2. RoundDiv(100 * coop, asks) \in 0 .. 101
    BY <2>1, RatioIs
  <2>. QED BY <1>2, <2>1, <2>2 DEF Cooperation
<1>. QED BY <1>1, <1>2

LEMMA TwoMakeAPair ==
    ASSUME NEW x \in Short, NEW y \in Short, x # y
    PROVE  Cardinality(Short) >= 2
<1>1. IsFiniteSet(Short)
  <2>1. /\ IsFiniteSet({"food"}) /\ IsFiniteSet({"water"})
        /\ IsFiniteSet({"materials"}) /\ IsFiniteSet({"power"})
    BY FS_Singleton
  <2>2. IsFiniteSet({"food"} \union {"water"}) /\ IsFiniteSet({"materials"} \union {"power"})
    BY <2>1, FS_Union
  <2>3. IsFiniteSet(({"food"} \union {"water"}) \union ({"materials"} \union {"power"}))
    BY <2>2, FS_Union
  <2>4. Short \subseteq ({"food"} \union {"water"}) \union ({"materials"} \union {"power"})
    BY DEF Short, Resources
  <2>. QED BY <2>3, <2>4, FS_Subset
<1>2. IsFiniteSet({x, y}) /\ Cardinality({x, y}) = 2
  <2>1. IsFiniteSet({x}) /\ Cardinality({x}) = 1
    BY FS_Singleton
  <2>2. {x, y} = {x} \union {y} /\ y \notin {x}
    OBVIOUS
  <2>. QED BY <2>1, <2>2, FS_AddElement
<1>3. {x, y} \in SUBSET Short
  OBVIOUS
<1>4. Cardinality({x, y}) <= Cardinality(Short)
  BY <1>1, <1>3, FS_Subset
<1>. QED BY <1>2, <1>4

LEMMA TwoAreShort ==
    ASSUME resources \in Stocks, Shortages(resources) > OneStock
    PROVE  Cardinality(Short) >= 2
<1>1. PICK x \in Resources, y \in Resources :
         x # y /\ resources[x] < Baseline[x] /\ resources[y] < Baseline[y]
  BY TwoShortages
<1>2. x \in Short /\ y \in Short
  BY <1>1 DEF Short
<1>. QED BY <1>1, <1>2, TwoMakeAPair

LEMMA WorldInit == Init => WorldOK
<1>. SUFFICES ASSUME Init PROVE WorldOK
  OBVIOUS
<1>1. resources \in Stocks /\ threat \in Cents
  BY StartIs
<1>2. /\ plan = NoPlan /\ draft = NoPlan /\ town = "running" /\ phase = "none"
      /\ tally = [asked |-> 0, coop |-> 0]
  BY DEF Init
<1>3. IsTally(tally)
  BY <1>2 DEF IsTally
<1>. QED BY <1>1, <1>2, <1>3, PlansAre DEF WorldOK, CollapseNeedsShortage

(* Nothing of the world changes but the plans.                                 *)
LEMMA WorldStays ==
    ASSUME WorldOK, UNCHANGED <<resources, threat, town, tally>>,
           IsPlan(plan'), IsPlan(draft'),
           phase' = "night" => phase = "night"
    PROVE  WorldOK'
<1>1. Short' = Short
  BY DEF Short
<1>2. CollapseNeedsShortage'
  BY DEF WorldOK, CollapseNeedsShortage
<1>3. IsTally(tally')
  BY DEF WorldOK
<1>. QED BY <1>1, <1>2, <1>3 DEF WorldOK

(* The world changes in a round that is not over.                              *)
LEMMA WorldChanges ==
    ASSUME WorldOK, RoundOK, resources' \in Stocks, threat' \in Cents, IsTally(tally'),
           phase # "none", UNCHANGED <<plan, draft, town>>,
           phase' = "night" /\ threat' >= 10000 => Cardinality(Short') >= 2
    PROVE  WorldOK'
<1>1. town' = "running"
  BY DEF RoundOK
<1>2. CollapseNeedsShortage'
  BY <1>1 DEF CollapseNeedsShortage
<1>3. IsPlan(plan') /\ IsPlan(draft')
  BY DEF WorldOK
<1>. QED BY <1>2, <1>3 DEF WorldOK

LEMMA StocksOfAResolution ==
    ASSUME TownOK, WorldOK, Clash \/ Act \/ Sacrifice
    PROVE  resources' \in Stocks
<1>0. resources \in Stocks
  BY DEF WorldOK
<1>1. CASE Clash
  <2>1. prepared \in Seq(Deeds) /\ prepared # <<>>
    BY <1>1 DEF Clash, Resolving, TownOK, DeedsOK
  <2>2. PICK n \in Nat : n = Len(Group)
    BY <2>1, GroupIs
  <2>3. PICK winners \in SUBSET (1 .. n) :
            resources' = AfterActions(resources, prepared[1].type, Cardinality(winners), TRUE)
    BY <1>1, <2>2 DEF Clash, kSubset
  <2>4. Cardinality(winners) \in Nat
    <3>1. IsFiniteSet(1 .. n)
      BY FS_Interval
    <3>. QED BY <3>1, FS_Subset, FS_CardinalityType
  <2>. QED BY <1>0, <2>3, <2>4, StocksChange
<1>2. CASE Act
  <2>1. resources' = AfterActions(resources, prepared[1].type, 1, FALSE)
    BY <1>2 DEF Act
  <2>. QED BY <1>0, <2>1, StocksChange
<1>3. CASE Sacrifice
  <2>1. resources' = AfterActions(resources, "self_sacrifice", 1, FALSE)
    BY <1>3 DEF Sacrifice
  <2>. QED BY <1>0, <2>1, StocksChange
<1>. QED BY <1>1, <1>2, <1>3

LEMMA WorldStep ==
    ASSUME TownOK, WorldOK, [Next]_vars
    PROVE  WorldOK'
<1>0. /\ RoundOK /\ resources \in Stocks /\ threat \in Cents /\ IsTally(tally)
      /\ IsPlan(plan) /\ IsPlan(draft)
  BY DEF TownOK, WorldOK
<1>1. CASE PlanApproved
  <2>1. \E p \in Plans : plan' = ForRound(round + 1, p)
    BY <1>1 DEF PlanApproved
  <2>2. IsPlan(plan')
    BY <2>1, PlansAre
  <2>3. UNCHANGED <<resources, threat, town, tally, draft, phase>>
    BY <1>1 DEF PlanApproved, world, engine
  <2>. QED BY <1>0, <2>2, <2>3, WorldStays
<1>2. CASE PlanArrives
  <2>1. \/ plan' = draft
        \/ \E p \in Plans : plan' = ForRound(round + 1, p)
    BY <1>2 DEF PlanArrives
  <2>2. IsPlan(plan')
    BY <1>0, <2>1, PlansAre
  <2>3. UNCHANGED <<resources, threat, town, tally, phase>> /\ draft' = NoPlan
    BY <1>2 DEF PlanArrives, world, engine
  <2>. QED BY <2>2, <2>3, PlansAre, WorldStays
<1>3. CASE StartRound
  <2>1. PICK rules : /\ rules = RuleBasedPlan(round + 1, threat, resources, plotlines)
                     /\ UNCHANGED draft \/ draft' = ForRound(round + 1, rules)
    BY <1>3 DEF StartRound
  <2>2. IsPlan(rules)
    BY <2>1, PlanOfTheRules DEF IsPlan
  <2>3. IsPlan(draft')
    BY <1>0, <2>1, <2>2, PlansAre
  <2>4. /\ UNCHANGED <<resources, threat, town, plan>> /\ town = "running"
        /\ phase' = "gm_plan" /\ tally' = [asked |-> 0, coop |-> 0]
    BY <1>3 DEF StartRound, world
  <2>5. IsTally(tally')
    BY <2>4 DEF IsTally
  <2>. QED BY <1>0, <2>3, <2>4, <2>5 DEF WorldOK, CollapseNeedsShortage
<1>4. CASE Dawn
  <2>1. phase = "gm_plan" /\ phase' = "dawn" /\ UNCHANGED <<plan, draft, town, tally>>
    BY <1>4 DEF Dawn, engine
  <2>2. PICK res : /\ res = Ticked(resources, plan.modifiers)
                   /\ resources' = res /\ threat' = Threat(res, 60, plan.severity)
    BY <1>4 DEF Dawn
  <2>3. res \in Stocks
    BY <1>0, <2>2, StocksTick DEF IsPlan
  <2>4. Threat(res, 60, plan.severity) \in Cents
    <3>1. 60 \in 0 .. 101
      OBVIOUS
    <3>. QED BY <1>0, <2>3, <3>1, ThreatIs DEF IsPlan
  <2>5. IsTally(tally')
    BY <1>0, <2>1
  <2>. QED BY <1>0, <2>1, <2>2, <2>3, <2>4, <2>5, WorldChanges
<1>5. CASE Decide \/ MindFails
  <2>1. PICK d \in Decisions : Turn(Head(todo), d)
    BY <1>5, TurnIs DEF TownOK
  <2>2. /\ UNCHANGED <<resources, threat, town, phase, plan, draft>>
        /\ tally' = [asked |-> tally.asked + 1,
                     coop |-> tally.coop + When(d.type \in Cooperative, 1)]
    BY <2>1 DEF Turn, world, script
  <2>3. When(d.type \in Cooperative, 1) \in {0, 1}
    BY WhenIs
  <2>4. IsTally(tally')
    BY <1>0, <2>2, <2>3 DEF IsTally
  <2>5. phase \in {"morning", "afternoon"}
    BY <1>5 DEF Decide, MindFails, PerAgent
  <2>. QED BY <1>0, <2>2, <2>4, <2>5, WorldChanges
<1>6. CASE Clash \/ Act
  <2>1. /\ Resolving /\ UNCHANGED <<threat, town, phase, plan, draft, tally>>
    BY <1>6 DEF Clash, Act, resolution, script
  <2>2. phase \in {"morning", "afternoon"}
    BY <1>0, <2>1 DEF Resolving, RoundOK, PerAgent
  <2>3. resources' \in Stocks
    BY <1>6, StocksOfAResolution
  <2>4. IsTally(tally')
    BY <1>0, <2>1
  <2>. QED BY <1>0, <2>1, <2>2, <2>3, <2>4, WorldChanges
<1>7. CASE Sacrifice
  <2>1. /\ Resolving /\ UNCHANGED <<town, phase, plan, draft, tally>>
        /\ threat' = Max({0, threat - 800})
    BY <1>7 DEF Sacrifice, script
  <2>2. phase \in {"morning", "afternoon"}
    BY <1>0, <2>1 DEF Resolving, RoundOK, PerAgent
  <2>3. resources' \in Stocks
    BY <1>7, StocksOfAResolution
  <2>4. threat' \in Cents
    <3>1. threat \in Int /\ 0 <= threat /\ threat <= 10000
      BY <1>0 DEF Cents
    <3>2. Max({0, threat - 800}) = IF 0 >= threat - 800 THEN 0 ELSE threat - 800
      BY <3>1, MaxOfTwo
    <3>3. PICK t \in Int : t = threat' /\ 0 <= t /\ t <= 10000
      BY <2>1, <3>1, <3>2
    <3>. QED BY <3>3 DEF Cents
  <2>5. IsTally(tally')
    BY <1>0, <2>1
  <2>. QED BY <1>0, <2>1, <2>2, <2>3, <2>4, <2>5, WorldChanges
<1>8. CASE NightFalls
  <2>1. /\ phase = "afternoon" /\ UNCHANGED <<resources, town, plan, draft, tally>>
        /\ threat' = Threat(resources, Cooperation, plan.severity)
    BY <1>8 DEF NightFalls, script, engine
  <2>2. PICK c \in 0 .. 101 : c = Cooperation
    BY <1>0, CooperationIs
  <2>3. /\ Threat(resources, c, plan.severity) \in Cents
        /\ Threat(resources, c, plan.severity) >= 10000 => Shortages(resources) > OneStock
    BY <1>0, ThreatIs DEF IsPlan
  <2>4. threat' >= 10000 => Cardinality(Short) >= 2
    BY <1>0, <2>1, <2>2, <2>3, TwoAreShort
  <2>5. Short' = Short
    BY <2>1 DEF Short
  <2>6. IsTally(tally') /\ threat' \in Cents
    BY <1>0, <2>1, <2>2, <2>3
  <2>. QED BY <1>0, <2>1, <2>4, <2>5, <2>6, WorldChanges
<1>9. CASE Finalise
  <2>1. /\ phase = "night" /\ phase' = "none"
        /\ UNCHANGED <<resources, threat, plan, draft, tally>>
        /\ town' = "collapsed" => threat >= 10000 \/ town = "collapsed"
    BY <1>9 DEF Finalise, StatusAfter, world, script, engine
  <2>2. town = "running"
    BY <1>0, <2>1 DEF RoundOK
  <2>3. town' = "collapsed" => Cardinality(Short) >= 2
    BY <2>1, <2>2 DEF WorldOK
  <2>4. Short' = Short
    BY <2>1 DEF Short
  <2>5. CollapseNeedsShortage'
    BY <2>3, <2>4 DEF CollapseNeedsShortage, Short
  <2>. QED BY <1>0, <2>1, <2>5 DEF WorldOK
<1>10. CASE ~ (\/ PlanApproved \/ PlanArrives \/ StartRound \/ Dawn \/ Decide \/ MindFails
               \/ Clash \/ Act \/ Sacrifice \/ NightFalls \/ Finalise)
  <2>1. /\ UNCHANGED <<resources, threat, town, tally, plan, draft>>
        /\ phase' = "night" => phase = "night"
    BY <1>10 DEF Next, vars, world, engine, script, Inject, BeginActions, TurnStreamed,
                 Converse, EndActions, Midday, Reflect
  <2>. QED BY <1>0, <2>1, WorldStays
<1>. QED BY <1>1, <1>2, <1>3, <1>4, <1>5, <1>6, <1>7, <1>8, <1>9, <1>10

LEMMA WorldHolds == Spec => [](TownOK /\ WorldOK)
<1>1. Init => WorldOK
  BY WorldInit
<1>2. TownOK /\ WorldOK /\ [Next]_vars => WorldOK'
  BY WorldStep
<1>. QED BY <1>1, <1>2, TownStands, PTL DEF Spec

(* A town collapses for want of stocks: at least two of the four are below     *)
(* what it needs, whatever the crises were and however little anybody helped.  *)
THEOREM NoCollapseWithoutShortage == Spec => []CollapseNeedsShortage
<1>1. WorldOK => CollapseNeedsShortage
  BY DEF WorldOK
<1>. QED BY <1>1, WorldHolds, PTL

-----------------------------------------------------------------------------
(* Who is exiled.                                                              *)

LEMMA GreatestOf ==
    ASSUME NEW C, C # {}, NEW K \in Nat, NEW f \in [C -> Nat],
           \A x \in C : f[x] <= K
    PROVE  \E m \in C : \A n \in C : f[m] >= f[n]
<1>. DEFINE S == {K - f[x] : x \in C}
<1>1. S \in SUBSET Nat /\ S # {}
  <2>1. \A x \in C : K - f[x] \in Nat
    OBVIOUS
  <2>. QED BY <2>1
<1>2. PICK l \in S : \A n \in S : l <= n
  <2>. HIDE DEF S
  <2>. QED BY <1>1, LeastOf
<1>3. PICK m \in C : l = K - f[m]
  BY <1>2
<1>4. ASSUME NEW n \in C
      PROVE  f[m] >= f[n]
  <2>1. K - f[m] <= K - f[n]
    BY <1>2, <1>3
  <2>. QED BY <2>1
<1>. QED BY <1>3, <1>4

LEMMA ExileTargetIs ==
    ASSUME PeopleOK, ExileTarget(Active, suspicion, influence, factions) # 0
    PROVE  ExileTarget(Active, suspicion, influence, factions) \in Active
<1>. DEFINE suspects == {a \in Active : suspicion[a] >= 55}
            leaders == {a \in Active : FactionOf(a, factions) = a /\ suspicion[a] >= 45}
            candidates == IF suspects # {} THEN suspects ELSE leaders
            Before(a, b) ==
                \/ suspicion[a] > suspicion[b]
                \/ /\ suspicion[a] = suspicion[b]
                   /\ influence[a] > influence[b] \/ (influence[a] = influence[b] /\ a <= b)
<1>1. candidates \subseteq Active
  OBVIOUS
<1>2. ExileTarget(Active, suspicion, influence, factions) =
          IF candidates = {} THEN 0
          ELSE CHOOSE a \in candidates : \A b \in candidates : Before(a, b)
  BY DEF ExileTarget
<1>. HIDE DEF candidates
<1>3. candidates # {}
  BY <1>2
<1>4. \A a \in candidates : a \in Nat /\ suspicion[a] \in 0 .. 100 /\ influence[a] \in Cents
  BY <1>1, AgentsAre DEF Active, PeopleOK
<1>5. PICK K \in Nat : \A x \in Cents : x \in Nat /\ x <= K
  BY DEF Cents
<1>6. PICK C1 \in SUBSET candidates :
          /\ C1 # {}
          /\ \A a \in C1, b \in candidates : suspicion[a] >= suspicion[b]
          /\ \A b \in candidates \ C1, a \in C1 : suspicion[a] # suspicion[b]
  <2>1. PICK f : f = [a \in candidates |-> suspicion[a]]
    OBVIOUS
  <2>2. f \in [candidates -> Nat] /\ \A x \in candidates : f[x] <= 100
    BY <1>4, <2>1
  <2>3. PICK m \in candidates : \A n \in candidates : f[m] >= f[n]
    BY <1>3, <2>2, GreatestOf
  <2>4. PICK C \in SUBSET candidates : C = {a \in candidates : suspicion[a] = suspicion[m]}
    OBVIOUS
  <2>5. m \in C /\ \A a \in C, b \in candidates : suspicion[a] >= suspicion[b]
    BY <2>1, <2>3, <2>4
  <2>. QED BY <2>4, <2>5
<1>7. PICK C2 \in SUBSET C1 :
          /\ C2 # {}
          /\ \A a \in C2, b \in C1 : influence[a] >= influence[b]
          /\ \A b \in C1 \ C2, a \in C2 : influence[a] # influence[b]
  <2>1. PICK f : f = [a \in C1 |-> influence[a]]
    OBVIOUS
  <2>2. f \in [C1 -> Nat] /\ \A x \in C1 : f[x] <= K
    BY <1>4, <1>5, <1>6, <2>1
  <2>3. PICK m \in C1 : \A n \in C1 : f[m] >= f[n]
    BY <1>6, <2>2, GreatestOf
  <2>4. PICK C \in SUBSET C1 : C = {a \in C1 : influence[a] = influence[m]}
    OBVIOUS
  <2>5. m \in C /\ \A a \in C, b \in C1 : influence[a] >= influence[b]
    BY <2>1, <2>3, <2>4
  <2>. QED BY <2>4, <2>5
<1>8. PICK a \in C2 : \A b \in C2 : a <= b
  <2>1. C2 \in SUBSET Nat
    BY <1>4, <1>6, <1>7
  <2>. QED BY <1>7, <2>1, LeastOf
<1>9. ASSUME NEW b \in candidates
      PROVE  Before(a, b)
  <2>1. /\ suspicion[a] \in Nat /\ suspicion[b] \in Nat
        /\ influence[a] \in Nat /\ influence[b] \in Nat
    BY <1>4, <1>5, <1>6, <1>7
  <2>2. CASE b \notin C1
    <3>1. suspicion[a] >= suspicion[b] /\ suspicion[a] # suspicion[b]
      BY <1>6, <1>7, <2>2
    <3>. QED BY <2>1, <3>1
  <2>3. CASE b \in C1 /\ b \notin C2
    <3>1. suspicion[a] >= suspicion[b] /\ suspicion[b] >= suspicion[a]
      BY <1>6, <1>7, <2>3
    <3>2. influence[a] >= influence[b] /\ influence[a] # influence[b]
      BY <1>7, <2>3
    <3>. QED BY <2>1, <3>1, <3>2
  <2>4. CASE b \in C2
    <3>1. suspicion[a] >= suspicion[b] /\ suspicion[b] >= suspicion[a]
      BY <1>6, <1>7, <2>4
    <3>2. influence[a] >= influence[b] /\ influence[b] >= influence[a]
      BY <1>7, <2>4
    <3>3. a <= b
      BY <1>8, <2>4
    <3>. QED BY <2>1, <3>1, <3>2, <3>3
  <2>. QED BY <2>2, <2>3, <2>4
<1>. HIDE DEF Before
<1>10. \E x \in candidates : \A b \in candidates : Before(x, b)
  BY <1>6, <1>7, <1>9
<1>11. (CHOOSE x \in candidates : \A b \in candidates : Before(x, b)) \in candidates
  BY <1>10
<1>. QED BY <1>1, <1>2, <1>3, <1>11

(* A meeting exiles somebody who is there, and who is not alone with another:  *)
(* the one it turns on does not vote for it, and two others do.                *)
LEMMA ExiledIs ==
    ASSUME PeopleOK, Exiled(Active, suspicion, influence, factions, threat) # 0
    PROVE  /\ Exiled(Active, suspicion, influence, factions, threat) \in Active
           /\ Cardinality(Active) >= 3
<1>1. PICK target : target = ExileTarget(Active, suspicion, influence, factions)
  OBVIOUS
<1>. DEFINE for == {a \in Active :
                ExileVote(a, target, suspicion, factions, threat) = "banish"}
<1>2. /\ Exiled(Active, suspicion, influence, factions, threat) = target
      /\ target # 0
      /\ Cardinality(for) >= Max({2, Cardinality(Active) \div 2})
  BY <1>1 DEF Exiled
<1>3. target \in Active
  BY <1>1, <1>2, ExileTargetIs
<1>4. IsFiniteSet(Active) /\ Cardinality(Active) \in Nat
  BY AgentsAre, FS_Subset, FS_CardinalityType DEF Active
<1>5. target \notin for
  BY DEF ExileVote
<1>6. for \subseteq Active \ {target}
  BY <1>5
<1>. HIDE DEF for
<1>7. IsFiniteSet(Active \ {target}) /\ Cardinality(Active \ {target}) = Cardinality(Active) - 1
  BY <1>3, <1>4, FS_RemoveElement
<1>8. Cardinality(for) <= Cardinality(Active) - 1 /\ Cardinality(for) \in Nat
  BY <1>6, <1>7, FS_Subset, FS_CardinalityType
<1>9. Max({2, Cardinality(Active) \div 2}) >= 2
  <2>1. PICK k \in Nat : k = Cardinality(Active)
    BY <1>4
  <2>2. PICK h \in Int : h = k \div 2
    OBVIOUS
  <2>3. Max({2, h}) = IF 2 >= h THEN 2 ELSE h
    BY MaxOfTwo
  <2>4. Max({2, h}) >= 2
    BY <2>3
  <2>. QED BY <2>1, <2>2, <2>4
<1>10. PICK m \in Int : m = Max({2, Cardinality(Active) \div 2}) /\ m >= 2
  <2>1. Cardinality(Active) \div 2 \in Int
    BY <1>4
  <2>2. Max({2, Cardinality(Active) \div 2}) \in Int
    BY <2>1, MaxOfTwo
  <2>. QED BY <1>9, <2>2
<1>11. Cardinality(Active) >= 3
  BY <1>2, <1>4, <1>8, <1>10
<1>. QED BY <1>2, <1>3, <1>11

-----------------------------------------------------------------------------
(* The histories.                                                              *)

(* Who is not in a history is entered in it, and nobody falls out of it.        *)
LEMMA EnteredIs ==
    ASSUME RosterFits, NEW S, \A x \in S : x.who \in Agents,
           NEW s \in Seq(S), OncePerAgent(s),
           NEW e \in S, \A i \in DOMAIN s : s[i].who # e.who
    PROVE  /\ Latest(Append(s, e), HistoryLimit) = Append(s, e)
           /\ Append(s, e) \in Seq(S)
           /\ DOMAIN Append(s, e) = DOMAIN s \union {Len(s) + 1}
           /\ \A i \in DOMAIN s : Append(s, e)[i] = s[i]
           /\ Append(s, e)[Len(s) + 1] = e
           /\ OncePerAgent(Append(s, e))
<1>1. PICK n \in Nat : n = Len(s) /\ DOMAIN s = 1 .. n
  BY LenProperties
<1>2. \A i \in 1 .. n : s[i] \in S /\ s[i].who \in Agents
  BY <1>1, ElementOfSeq
<1>3. PICK s2 : s2 = Append(s, e)
  OBVIOUS
<1>4. /\ s2 \in Seq(S) /\ Len(s2) = n + 1 /\ DOMAIN s2 = 1 .. n + 1
      /\ \A i \in 1 .. n : s2[i] = s[i]
      /\ s2[n + 1] = e
  BY <1>1, <1>3, AppendProperties, LenProperties
<1>5. ASSUME NEW i \in 1 .. n + 1, NEW j \in 1 .. n + 1, s2[i].who = s2[j].who
      PROVE  i = j
  <2>1. CASE i \in 1 .. n /\ j \in 1 .. n
    BY <1>1, <1>4, <1>5, <2>1 DEF OncePerAgent
  <2>2. CASE i = n + 1 \/ j = n + 1
    <3>1. \A k \in 1 .. n + 1 : s2[k].who = e.who => k = n + 1
      BY <1>1, <1>4
    <3>. QED BY <1>4, <1>5, <2>2, <3>1
  <2>. QED BY <2>1, <2>2
<1>6. n + 1 <= HistoryLimit
  <2>1. PICK f : f = [i \in 1 .. n |-> s[i].who]
    OBVIOUS
  <2>2. f \in [1 .. n -> Agents \ {e.who}]
    BY <1>1, <1>2, <2>1
  <2>3. IsInjective(f)
    BY <1>1, <2>1 DEF IsInjective, OncePerAgent
  <2>4. IsFiniteSet(Agents) /\ Cardinality(Agents) \in Nat
    BY AgentsAre
  <2>5. /\ IsFiniteSet(Agents \ {e.who})
        /\ Cardinality(Agents \ {e.who}) = Cardinality(Agents) - 1
    BY <2>4, FS_RemoveElement
  <2>6. f \in Injection(1 .. n, Agents \ {e.who})
    BY <2>2, <2>3 DEF Injection
  <2>7. Cardinality(1 .. n) <= Cardinality(Agents \ {e.who})
    BY <2>5, <2>6, FS_Injection
  <2>8. Cardinality(1 .. n) = n
    <3>1. 1 \in Int /\ n \in Int
      OBVIOUS
    <3>2. Cardinality(1 .. n) = IF 1 > n THEN 0 ELSE n - 1 + 1
      BY <3>1, FS_Interval
    <3>. QED BY <3>2
  <2>9. HistoryLimit \in Nat
    BY TownAssumption
  <2>. QED BY <2>4, <2>5, <2>7, <2>8, <2>9 DEF RosterFits
<1>7. Latest(s2, HistoryLimit) = s2
  <2>1. HistoryLimit \in Nat \ {0}
    BY TownAssumption
  <2>. QED BY <1>4, <1>6, <2>1, LatestIs
<1>8. DOMAIN s2 = DOMAIN s \union {n + 1}
  BY <1>1, <1>4
<1>9. OncePerAgent(s2)
  BY <1>4, <1>5 DEF OncePerAgent
<1>. QED BY <1>1, <1>3, <1>4, <1>7, <1>8, <1>9

LEMMA HistoryInit == Init => HistoryOK
<1>. SUFFICES ASSUME Init PROVE HistoryOK
  OBVIOUS
<1>1. /\ exiles \in Seq([who : Agents, day : 0 .. round]) /\ round \in Nat
      /\ OncePerAgent(exiles)
  BY StartIs DEF OncePerAgent
<1>2. /\ status = [a \in Agents |-> IF \E i \in DOMAIN exiles : exiles[i].who = a
                                     THEN "exiled" ELSE "active"]
      /\ sacrifices = <<>> /\ phase = "none"
  BY DEF Init
<1>3. exiles \in Seq(Exile)
  <2>1. [who : Agents, day : 0 .. round] \subseteq Exile
    BY <1>1 DEF Exile
  <2>. QED BY <1>1, <2>1, SeqWider
<1>4. ASSUME NEW i \in DOMAIN exiles
      PROVE  exiles[i].who \notin Active /\ exiles[i].day <= LastMeeting
  <2>1. exiles[i] \in [who : Agents, day : 0 .. round]
    BY <1>1, ElementOfSeq, LenProperties
  <2>. QED BY <1>1, <1>2, <2>1 DEF Active, LastMeeting
<1>5. sacrifices \in Seq(Death) /\ DOMAIN sacrifices = {}
  BY <1>2, EmptySeq
<1>. QED BY <1>1, <1>3, <1>4, <1>5 DEF HistoryOK, OncePerAgent

LEMMA MeetingsStep ==
    ASSUME RoundOK, [Next]_vars
    PROVE  LastMeeting \in Nat /\ LastMeeting' \in Nat /\ LastMeeting' >= LastMeeting
<1>0. round \in Nat
  BY DEF RoundOK
<1>1. CASE Finalise
  BY <1>0, <1>1 DEF Finalise, LastMeeting
<1>2. CASE StartRound \/ Dawn \/ BeginActions("dawn", "morning")
           \/ BeginActions("midday", "afternoon") \/ Midday \/ NightFalls
  BY <1>0, <1>2 DEF StartRound, Dawn, BeginActions, Midday, NightFalls, LastMeeting
<1>3. CASE ~ (Finalise \/ StartRound \/ Dawn \/ BeginActions("dawn", "morning")
              \/ BeginActions("midday", "afternoon") \/ Midday \/ NightFalls)
  <2>1. UNCHANGED <<round, phase>>
    BY <1>3 DEF Next, vars, Inject, PlanApproved, PlanArrives, Decide, MindFails, Turn,
                TurnStreamed, Converse, Clash, Sacrifice, Act, resolution, EndActions, Reflect
  <2>. QED BY <1>0, <2>1 DEF LastMeeting
<1>. QED BY <1>1, <1>2, <1>3

(* Nobody leaves.                                                               *)
LEMMA HistoryStays ==
    ASSUME RoundOK, HistoryOK, [Next]_vars, UNCHANGED history, Active' = Active
    PROVE  HistoryOK'
<1>1. exiles' = exiles /\ sacrifices' = sacrifices
  BY DEF history
<1>2. LastMeeting \in Nat /\ LastMeeting' \in Nat /\ LastMeeting' >= LastMeeting
  BY MeetingsStep
<1>3. ASSUME NEW i \in DOMAIN exiles
      PROVE  exiles[i].who \notin Active /\ exiles[i].day <= LastMeeting'
  <2>1. exiles[i] \in Exile
    BY ElementOfSeq, LenProperties DEF HistoryOK
  <2>2. exiles[i].day \in Nat /\ exiles[i].day <= LastMeeting /\ exiles[i].who \notin Active
    BY <2>1 DEF HistoryOK, Exile
  <2>. QED BY <1>2, <2>2
<1>. QED BY <1>1, <1>3 DEF HistoryOK, OncePerAgent

(* Whoever leaves is in no history yet, and is no longer there.                 *)
LEMMA HistoryStep ==
    ASSUME RosterFits, TownOK, HistoryOK, [Next]_vars
    PROVE  HistoryOK'
<1>0. /\ RoundOK /\ PeopleOK /\ DeedsOK
      /\ exiles \in Seq(Exile) /\ sacrifices \in Seq(Death)
      /\ OncePerAgent(exiles) /\ OncePerAgent(sacrifices)
  BY DEF TownOK, HistoryOK
<1>1. /\ \A i \in DOMAIN exiles : exiles[i].who \notin Active
      /\ \A i \in DOMAIN exiles : exiles[i].day \in Nat /\ exiles[i].day <= LastMeeting
      /\ \A i \in DOMAIN sacrifices : sacrifices[i].who \notin Active
  <2>1. \A i \in DOMAIN exiles : exiles[i] \in Exile
    BY <1>0, ElementOfSeq, LenProperties
  <2>. QED BY <2>1 DEF HistoryOK, Exile
<1>2. \A x \in Exile : x.who \in Agents
  BY DEF Exile
<1>3. \A x \in Death : x.who \in Agents
  BY DEF Death
<1>4. LastMeeting \in Nat /\ LastMeeting' \in Nat /\ LastMeeting' >= LastMeeting
  BY <1>0, MeetingsStep
<1>5. ASSUME Midday
      PROVE  HistoryOK'
  <2>1. PICK out : out = Exiled(Active, suspicion, influence, factions, threat)
    OBVIOUS
  <2>2. /\ status' = [a \in Agents |-> IF a = out THEN "exiled" ELSE status[a]]
        /\ exiles' = IF out = 0 THEN exiles
                     ELSE Latest(Append(exiles, [who |-> out, day |-> Day]), HistoryLimit)
        /\ sacrifices' = sacrifices
        /\ phase = "morning" /\ phase' = "midday" /\ round' = round
    BY <1>5, <2>1 DEF Midday
  <2>3. Active' = Active \ {out}
    BY <2>2 DEF Active
  <2>4. CASE out = 0
    <3>1. out \notin Active
      BY <2>4, AgentsAre DEF Active
    <3>2. Active' = Active
      BY <2>3, <3>1
    <3>3. UNCHANGED history
      BY <2>2, <2>4 DEF history
    <3>. QED BY <1>0, <3>2, <3>3, HistoryStays
  <2>5. CASE out # 0
    <3>1. out \in Active
      BY <1>0, <2>1, <2>5, ExiledIs
    <3>2. Day \in Nat /\ Day = round + 1 /\ LastMeeting' = round + 1
      BY <1>0, <2>2, DayIs DEF LastMeeting
    <3>3. PICK e : e = [who |-> out, day |-> Day]
      OBVIOUS
    <3>4. e \in Exile /\ e.who = out /\ e.day = Day
      BY <3>1, <3>2, <3>3 DEF Exile, Active
    <3>5. \A i \in DOMAIN exiles : exiles[i].who # e.who
      BY <1>1, <3>1, <3>4
    <3>6. exiles' = Latest(Append(exiles, e), HistoryLimit)
      BY <2>2, <2>5, <3>3
    <3>7. /\ exiles' \in Seq(Exile) /\ DOMAIN exiles' = DOMAIN exiles \union {Len(exiles) + 1}
          /\ \A i \in DOMAIN exiles : exiles'[i] = exiles[i]
          /\ exiles'[Len(exiles) + 1] = e
          /\ OncePerAgent(exiles')
      <4>1. PICK s : s = exiles
        OBVIOUS
      <4>2. /\ s \in Seq(Exile) /\ OncePerAgent(s)
            /\ \A i \in DOMAIN s : s[i].who # e.who
        BY <1>0, <3>5, <4>1
      <4>3. /\ Latest(Append(s, e), HistoryLimit) = Append(s, e)
            /\ Append(s, e) \in Seq(Exile)
            /\ DOMAIN Append(s, e) = DOMAIN s \union {Len(s) + 1}
            /\ \A i \in DOMAIN s : Append(s, e)[i] = s[i]
            /\ Append(s, e)[Len(s) + 1] = e
            /\ OncePerAgent(Append(s, e))
        BY <1>2, <3>4, <4>2, EnteredIs
      <4>4. exiles' = Append(s, e)
        BY <3>6, <4>1, <4>3
      <4>. QED BY <4>1, <4>3, <4>4
    <3>8. \A i \in DOMAIN exiles' :
              exiles'[i].who \notin Active' /\ exiles'[i].day <= LastMeeting'
      BY <1>1, <1>4, <2>3, <3>2, <3>4, <3>7
    <3>9. \A i \in DOMAIN sacrifices' : sacrifices'[i].who \notin Active'
      BY <1>1, <2>2, <2>3
    <3>10. sacrifices' \in Seq(Death) /\ OncePerAgent(sacrifices)'
      BY <1>0, <2>2 DEF OncePerAgent
    <3>11. OncePerAgent(exiles)'
      BY <3>7 DEF OncePerAgent
    <3>. QED BY <3>7, <3>8, <3>9, <3>10, <3>11 DEF HistoryOK
  <2>. QED BY <2>4, <2>5
<1>6. ASSUME Sacrifice
      PROVE  HistoryOK'
  <2>1. PICK a : a = prepared[1].agent
    OBVIOUS
  <2>2. PICK place : place = prepared[1].place
    OBVIOUS
  <2>3. /\ status' = [status EXCEPT ![a] = "dead"]
        /\ sacrifices' = Latest(Append(sacrifices, [who |-> a, day |-> Day, place |-> place]),
                                HistoryLimit)
        /\ exiles' = exiles /\ Resolving /\ Fatal(1)
        /\ phase' = phase /\ round' = round
    BY <1>6, <2>1, <2>2 DEF Sacrifice, Fatal
  <2>4. a \in Active /\ place \in Places
    BY <1>0, <2>1, <2>2, <2>3, FirstDeedIs DEF DeedsOK
  <2>5. Active' = Active \ {a}
    BY <1>0, <2>3, <2>4 DEF Active, PeopleOK
  <2>6. PICK e : e = [who |-> a, day |-> Day, place |-> place]
    OBVIOUS
  <2>7. e \in Death /\ e.who = a
    BY <1>0, <2>4, <2>6, DayIs DEF Death, Active
  <2>8. \A i \in DOMAIN sacrifices : sacrifices[i].who # e.who
    BY <1>1, <2>4, <2>7
  <2>9. sacrifices' = Latest(Append(sacrifices, e), HistoryLimit)
    BY <2>3, <2>6
  <2>10. /\ sacrifices' \in Seq(Death)
         /\ DOMAIN sacrifices' = DOMAIN sacrifices \union {Len(sacrifices) + 1}
         /\ \A i \in DOMAIN sacrifices : sacrifices'[i] = sacrifices[i]
         /\ sacrifices'[Len(sacrifices) + 1] = e
         /\ OncePerAgent(sacrifices')
    <3>1. PICK s : s = sacrifices
      OBVIOUS
    <3>2. /\ s \in Seq(Death) /\ OncePerAgent(s)
          /\ \A i \in DOMAIN s : s[i].who # e.who
      BY <1>0, <2>8, <3>1
    <3>3. /\ Latest(Append(s, e), HistoryLimit) = Append(s, e)
          /\ Append(s, e) \in Seq(Death)
          /\ DOMAIN Append(s, e) = DOMAIN s \union {Len(s) + 1}
          /\ \A i \in DOMAIN s : Append(s, e)[i] = s[i]
          /\ Append(s, e)[Len(s) + 1] = e
          /\ OncePerAgent(Append(s, e))
      BY <1>3, <2>7, <3>2, EnteredIs
    <3>4. sacrifices' = Append(s, e)
      BY <2>9, <3>1, <3>3
    <3>. QED BY <3>1, <3>3, <3>4
  <2>11. \A i \in DOMAIN sacrifices' : sacrifices'[i].who \notin Active'
    BY <1>1, <2>5, <2>7, <2>10
  <2>12. \A i \in DOMAIN exiles' :
             exiles'[i].who \notin Active' /\ exiles'[i].day <= LastMeeting'
    BY <1>1, <1>4, <2>3, <2>5 DEF LastMeeting
  <2>13. exiles' \in Seq(Exile) /\ OncePerAgent(exiles)'
    BY <1>0, <2>3 DEF OncePerAgent
  <2>14. OncePerAgent(sacrifices)'
    BY <2>10 DEF OncePerAgent
  <2>. QED BY <2>10, <2>11, <2>12, <2>13, <2>14 DEF HistoryOK
<1>7. ASSUME ~ (Midday \/ Sacrifice)
      PROVE  HistoryOK'
  <2>1. UNCHANGED <<history, status>>
    BY <1>7 DEF Next, vars, people, history, Inject, PlanApproved, StartRound, PlanArrives, Dawn,
                BeginActions, Decide, MindFails, Turn, TurnStreamed, Converse, Clash,
                Act, resolution, EndActions, NightFalls, Reflect, Finalise
  <2>2. Active' = Active
    BY <2>1 DEF Active
  <2>. QED BY <1>0, <2>1, <2>2, HistoryStays
<1>. QED BY <1>5, <1>6, <1>7

(* The names of the fallen grow as their history does.                          *)
LEMMA FallenIs ==
    ASSUME NEW s \in Seq(Death), NEW e \in Death, NEW t, t = Append(s, e)
    PROVE  [i \in DOMAIN t |-> t[i].who] = Append([i \in DOMAIN s |-> s[i].who], e.who)
<1>1. PICK n \in Nat : n = Len(s) /\ DOMAIN s = 1 .. n
  BY LenProperties
<1>2. \A i \in 1 .. n : s[i].who \in Agents
  <2>1. \A i \in 1 .. n : s[i] \in Death
    BY <1>1, ElementOfSeq
  <2>. QED BY <2>1 DEF Death
<1>3. e.who \in Agents
  BY DEF Death
<1>4. /\ DOMAIN t = 1 .. n + 1 /\ t[n + 1] = e
      /\ \A i \in 1 .. n : t[i] = s[i]
  BY <1>1, AppendProperties, LenProperties
<1>5. PICK f : f = [i \in 1 .. n |-> s[i].who]
  OBVIOUS
<1>6. f \in Seq(Agents) /\ Len(f) = n
  <2>1. f \in [1 .. n -> Agents]
    BY <1>2, <1>5
  <2>. QED BY <2>1, LenProperties DEF Seq
<1>7. PICK g : g = Append(f, e.who)
  OBVIOUS
<1>8. /\ g \in Seq(Agents) /\ Len(g) = n + 1 /\ g[n + 1] = e.who
      /\ \A i \in 1 .. n : g[i] = f[i]
  BY <1>3, <1>6, <1>7, AppendProperties
<1>9. g \in [1 .. n + 1 -> Agents]
  BY <1>8, LenProperties
<1>10. \A i \in 1 .. n + 1 : g[i] = t[i].who
  BY <1>4, <1>5, <1>8
<1>11. g = [i \in 1 .. n + 1 |-> t[i].who]
  BY <1>9, <1>10
<1>. QED BY <1>1, <1>4, <1>5, <1>7, <1>11

LEMMA TwoOthersAre ==
    ASSUME NEW out \in Active, Cardinality(Active) >= 3
    PROVE  \E q, r \in Active \ {out} : q # r
<1>1. IsFiniteSet(Active) /\ Cardinality(Active) \in Nat
  BY AgentsAre, FS_Subset, FS_CardinalityType DEF Active
<1>2. PICK S : S = Active \ {out}
  OBVIOUS
<1>3. IsFiniteSet(S) /\ Cardinality(S) >= 2 /\ Cardinality(S) \in Nat
  <2>1. IsFiniteSet(S) /\ Cardinality(S) = Cardinality(Active) - 1
    BY <1>1, <1>2, FS_RemoveElement
  <2>. QED BY <1>1, <2>1
<1>4. PICK q : q \in S
  BY <1>3, FS_EmptySet
<1>5. IsFiniteSet(S \ {q}) /\ Cardinality(S \ {q}) = Cardinality(S) - 1
  BY <1>3, <1>4, FS_RemoveElement
<1>6. PICK r : r \in S \ {q}
  BY <1>3, <1>5, FS_EmptySet
<1>. QED BY <1>2, <1>4, <1>6

(* A step of the town is a step of its population, or none.                     *)
LEMMA PopulationStep ==
    ASSUME RosterFits, TownOK, HistoryOK, [Next]_vars
    PROVE  [Population!Next]_(Population!population)
<1>0. /\ RoundOK /\ PeopleOK /\ DeedsOK
      /\ exiles \in Seq(Exile) /\ sacrifices \in Seq(Death)
      /\ OncePerAgent(exiles) /\ OncePerAgent(sacrifices)
  BY DEF TownOK, HistoryOK
<1>1. /\ \A i \in DOMAIN exiles : exiles[i] \in Exile /\ exiles[i].who \notin Active
      /\ \A i \in DOMAIN exiles : exiles[i].day \in Nat /\ exiles[i].day <= LastMeeting
      /\ \A i \in DOMAIN sacrifices : sacrifices[i].who \notin Active
  <2>1. \A i \in DOMAIN exiles : exiles[i] \in Exile
    BY <1>0, ElementOfSeq, LenProperties
  <2>. QED BY <2>1 DEF HistoryOK, Exile
<1>2. /\ \A x \in Exile : x.who \in Agents
      /\ \A x \in Death : x.who \in Agents
  BY DEF Exile, Death
<1>3. CASE StartRound
  <2>1. /\ UNCHANGED <<status, exiles, sacrifices>>
        /\ phase = "none" /\ phase' = "gm_plan" /\ round' = round
    BY <1>3 DEF StartRound, history
  <2>2. Day' = Day + 1 /\ Active' = Active
    BY <2>1 DEF Day, Active
  <2>3. Population!Dawns
    BY <2>1, <2>2 DEF Population!Dawns
  <2>. QED BY <2>3 DEF Population!Next
<1>4. CASE Midday
  <2>1. PICK out : out = Exiled(Active, suspicion, influence, factions, threat)
    OBVIOUS
  <2>2. /\ status' = [a \in Agents |-> IF a = out THEN "exiled" ELSE status[a]]
        /\ exiles' = IF out = 0 THEN exiles
                     ELSE Latest(Append(exiles, [who |-> out, day |-> Day]), HistoryLimit)
        /\ sacrifices' = sacrifices
        /\ phase = "morning"
    BY <1>4, <2>1 DEF Midday
  <2>3. Active' = Active \ {out}
    BY <2>2 DEF Active
  <2>4. Day' = Day
    BY <1>0, <1>4, <2>2, DayStep DEF StartRound
  <2>5. CASE out = 0
    <3>1. out \notin Active
      BY <2>5, AgentsAre DEF Active
    <3>2. Active' = Active /\ exiles' = exiles
      BY <2>2, <2>3, <2>5, <3>1
    <3>. QED BY <2>2, <2>4, <3>2 DEF Population!population
  <2>6. CASE out # 0
    <3>1. out \in Active /\ Cardinality(Active) >= 3
      BY <1>0, <2>1, <2>6, ExiledIs
    <3>2. out \in Agents
      BY <3>1 DEF Active
    <3>3. Day \in Nat /\ Day = round + 1 /\ LastMeeting = round /\ round \in Nat
      BY <1>0, <2>2, DayIs DEF LastMeeting, RoundOK
    <3>4. exiles # <<>> => exiles[Len(exiles)].day < Day
      <4>1. exiles # <<>> => Len(exiles) \in DOMAIN exiles
        BY <1>0, LenProperties, EmptySeq
      <4>. QED BY <1>1, <3>3, <4>1
    <3>5. exiles' = Append(exiles, [who |-> out, day |-> Day])
      <4>1. PICK e : e = [who |-> out, day |-> Day]
        OBVIOUS
      <4>2. e \in Exile /\ e.who = out
        BY <3>2, <3>3, <4>1 DEF Exile
      <4>3. \A i \in DOMAIN exiles : exiles[i].who # e.who
        BY <1>1, <3>1, <4>2
      <4>4. PICK s : s = exiles
        OBVIOUS
      <4>5. /\ s \in Seq(Exile) /\ OncePerAgent(s)
            /\ \A i \in DOMAIN s : s[i].who # e.who
        BY <1>0, <4>3, <4>4
      <4>6. Latest(Append(s, e), HistoryLimit) = Append(s, e)
        BY <1>2, <4>2, <4>5, EnteredIs
      <4>. QED BY <2>2, <2>6, <4>1, <4>4, <4>6
    <3>6. Population!Banish(out)
      <4>1. [i \in DOMAIN sacrifices' |-> sacrifices'[i].who]
                = [i \in DOMAIN sacrifices |-> sacrifices[i].who]
        BY <2>2
      <4>2. Active' = Active \ {out} /\ Day' = Day
        BY <2>3, <2>4
      <4>3. \E q, r \in Active \ {out} : q # r
        BY <3>1, TwoOthersAre
      <4>. QED BY <3>1, <3>4, <3>5, <4>1, <4>2, <4>3 DEF Population!Banish
    <3>. QED BY <3>2, <3>6 DEF Population!Next
  <2>. QED BY <2>5, <2>6
<1>5. CASE Sacrifice
  <2>1. PICK a : a = prepared[1].agent
    OBVIOUS
  <2>2. PICK place : place = prepared[1].place
    OBVIOUS
  <2>3. /\ status' = [status EXCEPT ![a] = "dead"]
        /\ sacrifices' = Latest(Append(sacrifices, [who |-> a, day |-> Day, place |-> place]),
                                HistoryLimit)
        /\ exiles' = exiles /\ Resolving /\ Fatal(1)
        /\ phase' = phase /\ round' = round
    BY <1>5, <2>1, <2>2 DEF Sacrifice, Fatal
  <2>4. a \in Active /\ a \in Agents /\ place \in Places
    BY <1>0, <2>1, <2>2, <2>3, FirstDeedIs DEF DeedsOK
  <2>5. Active' = Active \ {a}
    BY <1>0, <2>3, <2>4 DEF Active, PeopleOK
  <2>6. Day' = Day
    BY <2>3 DEF Day
  <2>7. PICK e : e = [who |-> a, day |-> Day, place |-> place]
    OBVIOUS
  <2>8. e \in Death /\ e.who = a
    BY <1>0, <2>4, <2>7, DayIs DEF Death
  <2>9. \A i \in DOMAIN sacrifices : sacrifices[i].who # e.who
    BY <1>1, <2>4, <2>8
  <2>10. PICK s : s = sacrifices
    OBVIOUS
  <2>11. /\ s \in Seq(Death) /\ OncePerAgent(s)
         /\ \A i \in DOMAIN s : s[i].who # e.who
    BY <1>0, <2>9, <2>10
  <2>12. Latest(Append(s, e), HistoryLimit) = Append(s, e)
    BY <1>2, <2>8, <2>11, EnteredIs
  <2>13. sacrifices' = Append(s, e)
    BY <2>3, <2>7, <2>10, <2>12
  <2>14. [i \in DOMAIN sacrifices' |-> sacrifices'[i].who]
             = Append([i \in DOMAIN sacrifices |-> sacrifices[i].who], a)
    BY <2>8, <2>10, <2>11, <2>13, FallenIs
  <2>15. Population!Fall(a)
    BY <2>3, <2>4, <2>5, <2>6, <2>14 DEF Population!Fall
  <2>. QED BY <2>4, <2>15 DEF Population!Next
<1>6. CASE ~ (StartRound \/ Midday \/ Sacrifice)
  <2>1. UNCHANGED <<exiles, sacrifices, status>>
    BY <1>6 DEF Next, vars, people, history, Inject, PlanApproved, PlanArrives, Dawn,
                BeginActions, Decide, MindFails, Turn, TurnStreamed, Converse, Clash,
                Act, resolution, EndActions, NightFalls, Reflect, Finalise
  <2>2. Active' = Active
    BY <2>1 DEF Active
  <2>3. Day' = Day
    BY <1>0, <1>6, DayStep
  <2>. QED BY <2>1, <2>2, <2>3 DEF Population!population
<1>. QED BY <1>3, <1>4, <1>5, <1>6

LEMMA PopulationInit == Init => Population!Init
<1>. SUFFICES ASSUME Init PROVE Population!Init
  OBVIOUS
<1>1. HistoryOK /\ RoundOK /\ sacrifices = <<>>
  <2>1. RoundOK
    BY StartIs DEF Init, RoundOK, Phases
  <2>. QED BY <2>1, HistoryInit DEF Init
<1>2. Day \in Nat /\ Day = round /\ LastMeeting = round
  BY <1>1, DayIs DEF Init, LastMeeting
<1>3. ASSUME NEW i \in DOMAIN exiles
      PROVE  exiles[i].who \in Agents \ Active /\ exiles[i].day <= Day
  <2>1. exiles[i] \in Exile
    BY <1>1, ElementOfSeq, LenProperties DEF HistoryOK
  <2>. QED BY <1>1, <1>2, <2>1 DEF HistoryOK, Exile
<1>4. DOMAIN sacrifices = {}
  BY <1>1, EmptySeq
<1>. QED BY <1>2, <1>3, <1>4 DEF Population!Init, Active

(* Departures are final, recorded once and in the same step, and a town        *)
(* exiles at most one of three or more a round: every run of the rounds of a   *)
(* town whose histories are long enough for it is one of its population.       *)
THEOREM RoundsKeepThePopulation ==
    ASSUME RosterFits
    PROVE  Spec => PopulationSpec
<1>1. Init => HistoryOK /\ Population!Init
  BY HistoryInit, PopulationInit
<1>2. TownOK /\ HistoryOK /\ [Next]_vars => HistoryOK'
  BY HistoryStep
<1>3. TownOK /\ HistoryOK /\ [Next]_vars => [Population!Next]_(Population!population)
  BY PopulationStep
<1>. QED BY <1>1, <1>2, <1>3, TownStands, PTL DEF Spec, PopulationSpec, Population!Spec

-----------------------------------------------------------------------------
(* Folds.                                                                      *)

LEMMA UpTo ==
    ASSUME NEW n \in Nat, NEW Z \in SUBSET (0 .. n), 0 \in Z,
           \A k \in 0 .. n : k \in Z /\ k + 1 <= n => k + 1 \in Z
    PROVE  n \in Z
<1>. SUFFICES ASSUME n \notin Z PROVE FALSE
  OBVIOUS
<1>1. PICK S : S = (0 .. n) \ Z
  OBVIOUS
<1>2. S \in SUBSET Nat /\ S # {}
  BY <1>1
<1>3. PICK m \in S : \A k \in S : m <= k
  BY <1>2, LeastOf
<1>4. m \in 1 .. n /\ m \notin Z
  BY <1>1, <1>3
<1>5. m - 1 \in Z
  BY <1>1, <1>3, <1>4
<1>. QED BY <1>4, <1>5

LEMMA TopIs ==
    ASSUME NEW k \in Nat, NEW s \in SUBSET (1 .. k + 1), k + 1 \in s
    PROVE  Max(s) = k + 1
<1>1. \A x \in s : k + 1 >= x
  OBVIOUS
<1>2. \A x \in s : (\A y \in s : x >= y) => x = k + 1
  OBVIOUS
<1>. QED BY <1>1, <1>2 DEF Max

(* The last of a set of indices is one of them.                                *)
LEMMA LastIndexIs ==
    ASSUME NEW n \in Nat, NEW s \in SUBSET (1 .. n), s # {}
    PROVE  Max(s) \in s
<1>1. PICK f : f = [x \in s |-> x]
  OBVIOUS
<1>2. f \in [s -> Nat] /\ \A x \in s : f[x] <= n
  BY <1>1
<1>3. PICK m \in s : \A x \in s : f[m] >= f[x]
  BY <1>2, GreatestOf
<1>4. \A x \in s : m >= x
  BY <1>1, <1>3
<1>. QED BY <1>4 DEF Max

(* What FoldLeft iterates, over the indices 1 .. n.                            *)
IsFold(g, n, base, step) ==
    \A s \in SUBSET (1 .. n) :
        g[s] = IF s = {} THEN base ELSE step[<<Max(s), g[s \ {Max(s)}]>>]

LEMMA FoldExists ==
    ASSUME NEW n \in Nat, NEW P, NEW base \in P, NEW step \in [(1 .. n) \X P -> P]
    PROVE  \E g \in [SUBSET (1 .. n) -> P] : IsFold(g, n, base, step)
<1>. DEFINE Z == {k \in 0 .. n : \E g \in [SUBSET (1 .. k) -> P] : IsFold(g, k, base, step)}
<1>1. 0 \in Z
  <2>1. PICK g : g = [s \in SUBSET (1 .. 0) |-> base]
    OBVIOUS
  <2>2. \A s \in SUBSET (1 .. 0) : s = {}
    OBVIOUS
  <2>3. g \in [SUBSET (1 .. 0) -> P] /\ IsFold(g, 0, base, step)
    BY <2>1, <2>2 DEF IsFold
  <2>4. \E f \in [SUBSET (1 .. 0) -> P] : IsFold(f, 0, base, step)
    BY <2>3
  <2>5. 0 \in 0 .. n
    OBVIOUS
  <2>. QED BY <2>4, <2>5, Zenon
<1>2. ASSUME NEW k \in 0 .. n, k \in Z, k + 1 <= n
      PROVE  k + 1 \in Z
  <2>1. PICK g \in [SUBSET (1 .. k) -> P] : IsFold(g, k, base, step)
    BY <1>2
  <2>2. PICK h : h = [s \in SUBSET (1 .. k + 1) |->
                        IF k + 1 \in s THEN step[<<k + 1, g[s \ {k + 1}]>>] ELSE g[s]]
    OBVIOUS
  <2>3. ASSUME NEW s \in SUBSET (1 .. k + 1), k + 1 \in s
        PROVE  /\ h[s] \in P
               /\ h[s] = step[<<Max(s), h[s \ {Max(s)}]>>] /\ s # {}
    <3>1. Max(s) = k + 1
      BY <2>3, TopIs
    <3>2. PICK r : r = s \ {k + 1}
      OBVIOUS
    <3>3. r \in SUBSET (1 .. k) /\ k + 1 \notin r /\ r \in SUBSET (1 .. k + 1)
      BY <3>2
    <3>4. h[r] = g[r] /\ g[r] \in P
      BY <2>1, <2>2, <3>3
    <3>5. h[s] = step[<<k + 1, g[r]>>]
      BY <2>2, <2>3, <3>2
    <3>6. <<k + 1, g[r]>> \in (1 .. n) \X P
      BY <1>2, <3>4
    <3>. QED BY <2>3, <3>1, <3>2, <3>4, <3>5, <3>6
  <2>4. ASSUME NEW s \in SUBSET (1 .. k + 1), k + 1 \notin s
        PROVE  /\ h[s] \in P
               /\ h[s] = IF s = {} THEN base ELSE step[<<Max(s), h[s \ {Max(s)}]>>]
    <3>1. s \in SUBSET (1 .. k)
      BY <2>4
    <3>2. h[s] = g[s] /\ g[s] \in P
      BY <2>1, <2>2, <2>4, <3>1
    <3>3. g[s] = IF s = {} THEN base ELSE step[<<Max(s), g[s \ {Max(s)}]>>]
      BY <2>1, <3>1 DEF IsFold
    <3>4. PICK r : r = s \ {Max(s)}
      OBVIOUS
    <3>5. h[r] = g[r]
      BY <2>2, <2>4, <3>1, <3>4
    <3>. QED BY <3>2, <3>3, <3>4, <3>5
  <2>5. h \in [SUBSET (1 .. k + 1) -> P]
    BY <2>2, <2>3, <2>4
  <2>6. IsFold(h, k + 1, base, step)
    BY <2>3, <2>4 DEF IsFold
  <2>. QED BY <1>2, <2>5, <2>6
<1>3. Z \in SUBSET (0 .. n)
  OBVIOUS
<1>4. n \in Z
  <2>. HIDE DEF Z
  <2>. QED BY <1>1, <1>2, <1>3, UpTo
<1>. QED BY <1>4

(* What every step of an iteration keeps, its outcome has.                     *)
LEMMA FoldStays ==
    ASSUME NEW n \in Nat, NEW P, NEW g, g[{}] \in P,
           \A s \in SUBSET (1 .. n) : s # {} /\ g[s \ {Max(s)}] \in P => g[s] \in P
    PROVE  g[1 .. n] \in P
<1>. DEFINE Z == {k \in 0 .. n : \A s \in SUBSET (1 .. k) : g[s] \in P}
<1>1. 0 \in Z
  <2>1. \A s \in SUBSET (1 .. 0) : s = {}
    OBVIOUS
  <2>2. \A s \in SUBSET (1 .. 0) : g[s] \in P
    BY <2>1
  <2>. QED BY <2>2
<1>2. ASSUME NEW k \in 0 .. n, k \in Z, k + 1 <= n
      PROVE  k + 1 \in Z
  <2>1. ASSUME NEW s \in SUBSET (1 .. k + 1)
        PROVE  g[s] \in P
    <3>1. CASE k + 1 \in s
      <4>1. Max(s) = k + 1
        BY <3>1, TopIs
      <4>2. s \ {Max(s)} \in SUBSET (1 .. k) /\ s \in SUBSET (1 .. n)
        BY <1>2, <4>1
      <4>. QED BY <1>2, <3>1, <4>2
    <3>2. CASE k + 1 \notin s
      <4>1. s \in SUBSET (1 .. k)
        BY <3>2
      <4>. QED BY <1>2, <4>1
    <3>. QED BY <3>1, <3>2
  <2>. QED BY <1>2, <2>1
<1>3. Z \in SUBSET (0 .. n)
  OBVIOUS
<1>4. n \in Z
  <2>. HIDE DEF Z
  <2>. QED BY <1>1, <1>2, <1>3, UpTo
<1>5. 1 .. n \in SUBSET (1 .. n)
  OBVIOUS
<1>. QED BY <1>4, <1>5

-----------------------------------------------------------------------------
(* Factions.                                                                   *)

IsFaction(f, active) ==
    f.members \subseteq active /\ f.leader \in f.members /\ Cardinality(f.members) >= 2
AreFactions(F, active) ==
    /\ \A f \in F : IsFaction(f, active)
    /\ \A f, g \in F : f # g => f.members \intersect g.members = {}

LEMMA ScoreIs ==
    ASSUME NEW s \in [Agents -> 0 .. 100], NEW a \in Agents
    PROVE  InfluenceScore(a, s) \in Cents
<1>1. Influences(Agents, s) \in [Agents -> Cents]
  BY InfluencesAre
<1>. QED BY <1>1 DEF Influences

(* One who recruits takes those who are free, itself among them.               *)
Cults(active) == {c \in SUBSET [kind : {"cult"}, leader : Agents, members : SUBSET Agents] :
                      AreFactions(c, active)}
Recruited(active, trust_, cults, leader) ==
    LET free == active \ Members(cults)
        members == {a \in free : SupportsLeader(trust_, a, leader)}
    IN IF leader \in free /\ IsCultCandidate(leader) /\ Cardinality(members) >= 2
       THEN cults \union {[kind |-> "cult", leader |-> leader, members |-> members]}
       ELSE cults

CultsOf(active, trust_, ranked) ==
    LET Recruit(cults, leader) == Recruited(active, trust_, cults, leader)
    IN FoldLeft(Recruit, {}, ranked)

LEMMA RecruitedIs ==
    ASSUME NEW active \in SUBSET Agents, NEW t, NEW c \in Cults(active), NEW leader
    PROVE  Recruited(active, t, c, leader) \in Cults(active)
<1>. DEFINE free == active \ Members(c)
            members == {a \in free : SupportsLeader(t, a, leader)}
            cult == [kind |-> "cult", leader |-> leader, members |-> members]
<1>1. CASE leader \in free /\ IsCultCandidate(leader) /\ Cardinality(members) >= 2
  <2>1. Recruited(active, t, c, leader) = c \union {cult}
    BY <1>1 DEF Recruited
  <2>2. leader \in members
    BY <1>1 DEF SupportsLeader
  <2>3. \A f \in c : f.members \intersect members = {}
    BY DEF Members
  <2>4. PICK m : m = members
    OBVIOUS
  <2>5. PICK k : k = cult
    OBVIOUS
  <2>6. /\ k \in [kind : {"cult"}, leader : Agents, members : SUBSET Agents]
        /\ k.leader = leader /\ k.members = m
    BY <1>1, <2>4, <2>5
  <2>7. IsFaction(k, active)
    BY <1>1, <2>2, <2>4, <2>6 DEF IsFaction
  <2>8. \A f \in c : f.members \intersect k.members = {}
    BY <2>3, <2>4, <2>6
  <2>9. AreFactions(c \union {k}, active)
    BY <2>7, <2>8 DEF AreFactions, Cults
  <2>. QED BY <2>1, <2>5, <2>6, <2>9 DEF Cults
<1>2. CASE ~ (leader \in free /\ IsCultCandidate(leader) /\ Cardinality(members) >= 2)
  BY <1>2 DEF Recruited
<1>. QED BY <1>1, <1>2

LEMMA CultsAre ==
    ASSUME NEW active \in SUBSET Agents, NEW t, NEW n \in Nat, NEW ranked,
           DOMAIN ranked = 1 .. n
    PROVE  CultsOf(active, t, ranked) \in Cults(active)
<1>. DEFINE P == Cults(active)
            Iterated(it) == [s \in SUBSET DOMAIN ranked |->
                IF s = {} THEN {}
                ELSE Recruited(active, t, it[s \ {Max(s)}], ranked[Max(s)])]
            it == CHOOSE it : it = Iterated(it)
<1>1. CultsOf(active, t, ranked) = it[DOMAIN ranked]
  BY DEF CultsOf, FoldLeft, MapThenFoldSet
<1>2. {} \in P
  BY DEF Cults, AreFactions
<1>3. \A c \in P : \A leader : Recruited(active, t, c, leader) \in P
  BY RecruitedIs
<1>4. PICK step : step = [x \in (1 .. n) \X P |-> Recruited(active, t, x[2], ranked[x[1]])]
  OBVIOUS
<1>. HIDE DEF P
<1>5. step \in [(1 .. n) \X P -> P]
  BY <1>3, <1>4
<1>6. PICK g \in [SUBSET (1 .. n) -> P] : IsFold(g, n, {}, step)
  BY <1>2, <1>5, FoldExists
<1>7. ASSUME NEW s \in SUBSET (1 .. n)
      PROVE  g[s] = IF s = {} THEN {}
                    ELSE Recruited(active, t, g[s \ {Max(s)}], ranked[Max(s)])
  <2>1. CASE s = {}
    BY <1>6, <2>1 DEF IsFold
  <2>2. CASE s # {}
    <3>1. Max(s) \in s
      BY <2>2, LastIndexIs
    <3>2. PICK r : r = s \ {Max(s)}
      OBVIOUS
    <3>3. r \in SUBSET (1 .. n)
      BY <3>2
    <3>4. g[r] \in P
      BY <1>6, <3>3
    <3>5. g[s] = step[<<Max(s), g[r]>>]
      BY <1>6, <2>2, <3>2 DEF IsFold
    <3>6. <<Max(s), g[r]>> \in (1 .. n) \X P
      BY <3>1, <3>4
    <3>7. step[<<Max(s), g[r]>>] = Recruited(active, t, g[r], ranked[Max(s)])
      BY <1>4, <3>6
    <3>. QED BY <2>2, <3>2, <3>5, <3>7
  <2>. QED BY <2>1, <2>2
<1>8. g = Iterated(g)
  BY <1>6, <1>7
<1>9. it = Iterated(it)
  BY <1>8
<1>. HIDE DEF it
<1>10. it[{}] \in P
  BY <1>2, <1>9
<1>11. ASSUME NEW s \in SUBSET (1 .. n), s # {}, it[s \ {Max(s)}] \in P
       PROVE  it[s] \in P
  <2>1. it[s] = Recruited(active, t, it[s \ {Max(s)}], ranked[Max(s)])
    BY <1>9, <1>11
  <2>. QED BY <1>3, <1>11, <2>1
<1>12. it[1 .. n] \in P
  BY <1>10, <1>11, FoldStays
<1>. QED BY <1>1, <1>12 DEF P

(* The component of a, and that two of them are the same or apart.             *)
IsClosed(t, C, g) == \A x \in g, y \in C : Allied(t, x, y) => y \in g

LEMMA ComponentIs ==
    ASSUME NEW t, NEW C, NEW a \in C
    PROVE  /\ AllianceComponent(t, a, C) \in SUBSET C /\ a \in AllianceComponent(t, a, C)
           /\ IsClosed(t, C, AllianceComponent(t, a, C))
           /\ \A h \in SUBSET C : a \in h /\ IsClosed(t, C, h)
                                    => AllianceComponent(t, a, C) \subseteq h
<1>1. PICK m : m = {x \in C : \A h \in SUBSET C : a \in h /\ IsClosed(t, C, h) => x \in h}
  OBVIOUS
<1>2. m \in SUBSET C /\ a \in m
  BY <1>1
<1>3. \A h \in SUBSET C : a \in h /\ IsClosed(t, C, h) => m \subseteq h
  BY <1>1
<1>4. IsClosed(t, C, m)
  <2>. SUFFICES ASSUME NEW x \in m, NEW y \in C, Allied(t, x, y),
                       NEW h \in SUBSET C, a \in h, IsClosed(t, C, h)
                PROVE  y \in h
    BY <1>1 DEF IsClosed
  <2>1. x \in h
    BY <1>3
  <2>. QED BY <2>1 DEF IsClosed
<1>. DEFINE Least(g) ==
         /\ a \in g /\ IsClosed(t, C, g)
         /\ \A h \in SUBSET C : a \in h /\ IsClosed(t, C, h) => g \subseteq h
<1>5. AllianceComponent(t, a, C) = CHOOSE g \in SUBSET C : Least(g)
  BY DEF AllianceComponent, IsClosed
<1>6. Least(m)
  BY <1>2, <1>3, <1>4
<1>. HIDE DEF Least
<1>7. AllianceComponent(t, a, C) \in SUBSET C /\ Least(AllianceComponent(t, a, C))
  BY <1>2, <1>5, <1>6
<1>. QED BY <1>7 DEF Least

LEMMA AlliesAre ==
    ASSUME NEW t, NEW a, NEW b, Allied(t, a, b)
    PROVE  Allied(t, b, a)
<1>1. CASE Profile[a].archetype = Profile[b].archetype
  BY <1>1 DEF Allied
<1>2. CASE TrustsAtLeast(t, a, b, 2) \/ TrustsAtLeast(t, b, a, 2)
  BY <1>2 DEF Allied
<1>. QED BY <1>1, <1>2 DEF Allied

LEMMA OneComponent ==
    ASSUME NEW t, NEW C, NEW a \in C, NEW x \in AllianceComponent(t, a, C)
    PROVE  x \in C /\ AllianceComponent(t, x, C) = AllianceComponent(t, a, C)
<1>1. PICK A : A = AllianceComponent(t, a, C)
  OBVIOUS
<1>2. /\ A \in SUBSET C /\ a \in A /\ IsClosed(t, C, A)
      /\ \A h \in SUBSET C : a \in h /\ IsClosed(t, C, h) => A \subseteq h
  BY <1>1, ComponentIs
<1>3. x \in C /\ x \in A
  BY <1>1, <1>2
<1>4. PICK X : X = AllianceComponent(t, x, C)
  OBVIOUS
<1>5. /\ X \in SUBSET C /\ x \in X /\ IsClosed(t, C, X)
      /\ \A h \in SUBSET C : x \in h /\ IsClosed(t, C, h) => X \subseteq h
  BY <1>3, <1>4, ComponentIs
<1>6. X \subseteq A
  BY <1>2, <1>3, <1>5
<1>7. IsClosed(t, C, A \ X)
  <2>. SUFFICES ASSUME NEW u \in A \ X, NEW y \in C, Allied(t, u, y)
                PROVE  y \in A \ X
    BY DEF IsClosed
  <2>1. y \in A
    BY <1>2 DEF IsClosed
  <2>2. y \in X => u \in X
    <3>1. Allied(t, y, u) /\ u \in C
      BY <1>2, AlliesAre
    <3>. QED BY <1>5, <3>1 DEF IsClosed
  <2>. QED BY <2>1, <2>2
<1>8. a \in X
  <2>. SUFFICES ASSUME a \notin X PROVE FALSE
    OBVIOUS
  <2>1. A \subseteq A \ X
    BY <1>2, <1>7
  <2>. QED BY <1>3, <1>5, <2>1
<1>9. A \subseteq X
  BY <1>2, <1>5, <1>8
<1>. QED BY <1>1, <1>3, <1>4, <1>6, <1>9

(* The leader of an alliance is one of it.                                     *)
LEMMA LeaderIs ==
    ASSUME NEW g \in SUBSET Agents, g # {}, NEW C \in SUBSET Agents, NEW t,
           NEW s \in [Agents -> 0 .. 100]
    PROVE  AllianceLeader(t, g, C, s) \in g
<1>. DEFINE way == DepthFirst(t, Min(g), C)
            score == [a \in g |-> InfluenceScore(a, s)]
            delay == [a \in g |-> Cardinality({n \in Pops(C) : a \notin way[n].met})]
            Before(a, b) ==
                score[a] > score[b] \/ (score[a] = score[b] /\ delay[a] <= delay[b])
<1>1. AllianceLeader(t, g, C, s) = CHOOSE a \in g : \A b \in g : Before(a, b)
  BY DEF AllianceLeader
<1>2. PICK K \in Nat : \A x \in Cents : x \in Nat /\ x <= K
  BY DEF Cents
<1>3. score \in [g -> Nat] /\ \A a \in g : score[a] <= K
  BY <1>2, ScoreIs
<1>4. delay \in [g -> Nat]
  <2>1. Cardinality(C) \in Nat
    BY AgentsAre, FS_Subset, FS_CardinalityType
  <2>2. PICK k \in Nat : k = Cardinality(C) * Cardinality(C)
    BY <2>1
  <2>3. IsFiniteSet(Pops(C))
    BY <2>2, FS_Interval DEF Pops
  <2>4. ASSUME NEW a \in g
        PROVE  Cardinality({n \in Pops(C) : a \notin way[n].met}) \in Nat
    BY <2>3, FS_Subset, FS_CardinalityType
  <2>. QED BY <2>4
<1>. HIDE DEF score, delay
<1>5. PICK m \in g : \A a \in g : score[m] >= score[a]
  BY <1>3, GreatestOf
<1>6. PICK best \in SUBSET g : best = {a \in g : score[a] = score[m]}
  OBVIOUS
<1>7. PICK f : f = [a \in best |-> delay[a]]
  OBVIOUS
<1>8. PICK d \in {f[a] : a \in best} : \A e \in {f[a] : a \in best} : d <= e
  <2>1. {f[a] : a \in best} \in SUBSET Nat /\ {f[a] : a \in best} # {}
    BY <1>4, <1>6, <1>7
  <2>. QED BY <2>1, LeastOf
<1>9. PICK a \in best : d = f[a]
  BY <1>8
<1>10. ASSUME NEW b \in g
       PROVE  Before(a, b)
  <2>1. CASE b \in best
    <3>1. score[a] = score[b]
      BY <1>6, <2>1
    <3>2. delay[a] <= delay[b]
      BY <1>7, <1>8, <1>9, <2>1
    <3>. QED BY <3>1, <3>2
  <2>2. CASE b \notin best
    <3>1. score[a] = score[m] /\ score[b] # score[m] /\ score[m] >= score[b]
      BY <1>5, <1>6, <2>2
    <3>2. score[m] \in Nat /\ score[b] \in Nat
      BY <1>3
    <3>. QED BY <3>1, <3>2
  <2>. QED BY <2>1, <2>2
<1>. HIDE DEF Before
<1>11. \E x \in g : \A b \in g : Before(x, b)
  BY <1>6, <1>10
<1>. QED BY <1>1, <1>11

(* Factions are groups of two and more of those who are there, one group each. *)
LEMMA FactionsAre ==
    ASSUME NEW active \in SUBSET Agents, NEW s \in [Agents -> 0 .. 100], NEW t
    PROVE  AreFactions(Factions(active, s, t), active)
<1>. DEFINE score == [a \in active |-> InfluenceScore(a, s)]
            ranked == Sorted(active, LAMBDA a, b :
                          score[a] > score[b] \/ (score[a] = score[b] /\ a < b))
            cults == CultsOf(active, t, ranked)
            rest == active \ Members(cults)
            components == {AllianceComponent(t, a, rest) : a \in rest}
            Leader(g) == AllianceLeader(t, g, rest, s)
            Alliance(g) == [kind |-> "alliance", members |-> g, leader |-> Leader(g)]
            alliances == {Alliance(g) : g \in {h \in components : Cardinality(h) >= 2}}
<1>1. Factions(active, s, t) = cults \union alliances
  BY DEF Factions, Recruited, CultsOf
<1>2. cults \in Cults(active)
  <2>1. Cardinality(active) \in Nat
    BY AgentsAre, FS_Subset, FS_CardinalityType
  <2>2. PICK r : r = ranked
    OBVIOUS
  <2>3. DOMAIN r = 1 .. Cardinality(active)
    BY <2>2 DEF Sorted
  <2>. QED BY <2>1, <2>2, <2>3, CultsAre
<1>. HIDE DEF ranked, cults
<1>3. AreFactions(cults, active)
  BY <1>2 DEF Cults
<1>4. \A g \in components : g \subseteq rest /\ g # {}
  BY ComponentIs
<1>5. \A g, h \in components : g # h => g \intersect h = {}
  BY OneComponent
<1>6. ASSUME NEW g \in components
      PROVE  Leader(g) \in g
  <2>1. g \in SUBSET Agents /\ g # {} /\ rest \in SUBSET Agents
    BY <1>4, <1>6
  <2>. QED BY <2>1, LeaderIs
<1>. HIDE DEF Leader, components
<1>7. ASSUME NEW f \in alliances
      PROVE  /\ IsFaction(f, active) /\ f.members \in components
             /\ \A g \in alliances : f # g => f.members \intersect g.members = {}
  <2>1. PICK g \in components : Cardinality(g) >= 2 /\ f = Alliance(g)
    BY <1>7
  <2>2. f.members = g /\ f.leader = Leader(g)
    BY <2>1
  <2>3. IsFaction(f, active)
    BY <1>4, <1>6, <2>1, <2>2 DEF IsFaction
  <2>4. ASSUME NEW k \in alliances, f # k
        PROVE  f.members \intersect k.members = {}
    <3>1. PICK h \in components : k = Alliance(h)
      BY <2>4
    <3>2. k.members = h /\ h # g
      BY <2>1, <2>4, <3>1
    <3>. QED BY <1>5, <2>2, <3>2
  <2>. QED BY <2>2, <2>3, <2>4
<1>8. \A f \in cults : f.members \subseteq Members(cults)
  BY DEF Members
<1>9. \A f \in cults, g \in alliances : f.members \intersect g.members = {}
  <2>1. \A g \in alliances : g.members \subseteq rest
    BY <1>4, <1>7
  <2>. QED BY <1>8, <2>1
<1>. HIDE DEF alliances, rest
<1>10. AreFactions(cults \union alliances, active)
  BY <1>3, <1>7, <1>9 DEF AreFactions
<1>. QED BY <1>1, <1>10

(* The factions of a town are those of the people it has, but while it          *)
(* resolves actions and a sacrifice waits for the refresh.                      *)
FactionsOK == ~ (at = "resolving" /\ shaken) => AreFactions(factions, Active)

LEMMA RefreshedFactions ==
    ASSUME NEW active \in SUBSET Agents, NEW s \in [Agents -> 0 .. 100], NEW t,
           Refreshed(active, s, t)
    PROVE  AreFactions(factions', active)
BY FactionsAre DEF Refreshed

LEMMA FactionsInit == Init => FactionsOK
BY DEF Init, FactionsOK, AreFactions

LEMMA FactionsStep ==
    ASSUME TownOK, FactionsOK, [Next]_vars
    PROVE  FactionsOK'
<1>0. /\ RoundOK /\ PeopleOK /\ suspicion \in [Agents -> 0 .. 100]
      /\ Active \in SUBSET Agents
  BY DEF TownOK, PeopleOK, Active
<1>1. ASSUME StartRound \/ (EndActions /\ shaken)
      PROVE  FactionsOK'
  <2>1. /\ \E t : Refreshed(Active, suspicion, t)
        /\ status' = status
    BY <1>1 DEF StartRound, EndActions
  <2>2. AreFactions(factions', Active)
    BY <1>0, <2>1, RefreshedFactions
  <2>3. Active' = Active
    BY <2>1 DEF Active
  <2>. QED BY <2>2, <2>3 DEF FactionsOK, AreFactions, IsFaction
<1>2. ASSUME Midday
      PROVE  FactionsOK'
  <2>1. PICK out : out = Exiled(Active, suspicion, influence, factions, threat)
    OBVIOUS
  <2>2. /\ status' = [a \in Agents |-> IF a = out THEN "exiled" ELSE status[a]]
        /\ Refreshed(Active \ {out}, suspicion, trust')
    BY <1>2, <2>1 DEF Midday
  <2>3. Active' = Active \ {out}
    BY <2>2 DEF Active
  <2>4. AreFactions(factions', Active \ {out})
    BY <1>0, <2>2, RefreshedFactions
  <2>. QED BY <2>3, <2>4 DEF FactionsOK, AreFactions, IsFaction
<1>3. ASSUME Sacrifice
      PROVE  FactionsOK'
  BY <1>3 DEF Sacrifice, Resolving, FactionsOK
<1>4. ASSUME Converse
      PROVE  FactionsOK'
  <2>1. Refreshed(Active, suspicion, trust') /\ status' = status
    BY <1>4 DEF Converse
  <2>2. AreFactions(factions', Active)
    BY <1>0, <2>1, RefreshedFactions
  <2>3. Active' = Active
    BY <2>1 DEF Active
  <2>. QED BY <2>2, <2>3 DEF FactionsOK, AreFactions, IsFaction
<1>5. ASSUME ~ (StartRound \/ (EndActions /\ shaken) \/ Midday \/ Sacrifice \/ Converse)
      PROVE  FactionsOK'
  <2>1. /\ UNCHANGED <<factions, status>>
        /\ at = "resolving" /\ shaken => at' = "resolving" /\ shaken' = shaken
    BY <1>5 DEF Next, vars, people, engine, Inject, PlanApproved, PlanArrives, Dawn,
                BeginActions, Decide, MindFails, Turn, TurnStreamed, Clash,
                Act, resolution, EndActions, NightFalls, Reflect, Finalise
  <2>2. Active' = Active
    BY <2>1 DEF Active
  <2>. QED BY <2>1, <2>2 DEF FactionsOK, AreFactions, IsFaction
<1>. QED BY <1>1, <1>2, <1>3, <1>4, <1>5

(* A faction is never left with a member who is gone.                          *)
THEOREM FactionsFollowThePeople == Spec => []FactionsAreOfActives
<1>1. Init => FactionsOK
  BY FactionsInit
<1>2. TownOK /\ FactionsOK /\ [Next]_vars => FactionsOK'
  BY FactionsStep
<1>3. FactionsOK => FactionsAreOfActives
  BY DEF FactionsOK, FactionsAreOfActives, AreFactions, IsFaction
<1>. QED BY <1>1, <1>2, <1>3, TownStands, PTL DEF Spec

-----------------------------------------------------------------------------
(* Whom a faction protects.                                                    *)

LEMMA SidesAre ==
    ASSUME AreFactions(factions, Active), NEW f \in factions, NEW a \in f.members
    PROVE  FactionOf(a, factions) = f.leader /\ f.leader # 0
<1>1. \A h \in factions : a \in h.members => h = f
  BY DEF AreFactions
<1>2. (CHOOSE h \in factions : a \in h.members) = f
  BY <1>1
<1>3. a \in Members(factions)
  BY DEF Members
<1>4. f.leader \in Agents
  BY DEF AreFactions, IsFaction, Active
<1>5. f.leader # 0
  BY <1>4, AgentsAre
<1>. QED BY <1>2, <1>3, <1>5 DEF FactionOf

(* Those of its faction protect one whose suspicion is not yet 80, and more    *)
(* must banish it than protect it.                                             *)
LEMMA ShieldIs ==
    ASSUME TownOK, AreFactions(factions, Active),
           NEW f \in factions, NEW a \in f.members, suspicion[a] < 80,
           a = Exiled(Active, suspicion, influence, factions, threat), a # 0
    PROVE  2 * Cardinality(f.members) < Cardinality(Active)
<1>. DEFINE Vote(b) == ExileVote(b, a, suspicion, factions, threat)
            banish == {b \in Active : Vote(b) = "banish"}
            protect == {b \in Active : Vote(b) = "protect"}
<1>1. PICK target : target = ExileTarget(Active, suspicion, influence, factions)
  OBVIOUS
<1>2. /\ a = target
      /\ Cardinality({b \in Active :
             ExileVote(b, target, suspicion, factions, threat) = "banish"})
           > Cardinality({b \in Active :
                 ExileVote(b, target, suspicion, factions, threat) = "protect"})
  BY <1>1 DEF Exiled
<1>3. Cardinality(banish) > Cardinality(protect)
  BY <1>2
<1>4. f.members \subseteq Active
  BY DEF AreFactions, IsFaction
<1>5. suspicion[a] \in Int
  BY <1>4 DEF TownOK, PeopleOK, Active
<1>6. ASSUME NEW b \in f.members
      PROVE  Vote(b) = "protect"
  <2>1. /\ FactionOf(b, factions) = f.leader /\ f.leader # 0
        /\ FactionOf(a, factions) = f.leader
    BY SidesAre
  <2>2. ~ (suspicion[a] >= 80)
    BY <1>5
  <2>. QED BY <2>1, <2>2 DEF ExileVote
<1>7. f.members \subseteq protect
  BY <1>4, <1>6
<1>8. IsFiniteSet(Active)
  BY AgentsAre, FS_Subset DEF Active
<1>. HIDE DEF Vote
<1>9. /\ banish \in SUBSET Active /\ protect \in SUBSET Active
      /\ banish \intersect protect = {}
  OBVIOUS
<1>. HIDE DEF banish, protect
<1>10. /\ IsFiniteSet(banish) /\ IsFiniteSet(protect)
       /\ Cardinality(banish) \in Nat /\ Cardinality(protect) \in Nat
       /\ Cardinality(Active) \in Nat
  BY <1>8, <1>9, FS_Subset, FS_CardinalityType
<1>11. Cardinality(f.members) \in Nat /\ Cardinality(f.members) <= Cardinality(protect)
  BY <1>7, <1>10, FS_Subset, FS_CardinalityType
<1>12. Cardinality(banish \union protect) = Cardinality(banish) + Cardinality(protect)
  <2>1. Cardinality(banish \intersect protect) = 0
    BY <1>9, FS_EmptySet
  <2>2. Cardinality(banish \union protect) =
            Cardinality(banish) + Cardinality(protect) - Cardinality(banish \intersect protect)
    BY <1>10, FS_Union
  <2>. QED BY <1>10, <2>1, <2>2
<1>13. Cardinality(banish \union protect) <= Cardinality(Active)
  <2>1. banish \union protect \subseteq Active
    BY <1>9
  <2>. QED BY <1>8, <2>1, FS_Subset
<1>. QED BY <1>3, <1>10, <1>11, <1>12, <1>13

LEMMA ShieldStep ==
    ASSUME TownOK, FactionsOK, [Next]_vars,
           NEW a \in Active, NEW f \in factions,
           status'[a] = "exiled", a \in f.members, suspicion[a] < 80
    PROVE  2 * Cardinality(f.members) < Cardinality(Active)
<1>0. a \in Agents /\ status[a] = "active"
  BY DEF TownOK, PeopleOK, Active
<1>1. CASE Midday
  <2>1. PICK out : out = Exiled(Active, suspicion, influence, factions, threat)
    OBVIOUS
  <2>2. /\ status' = [b \in Agents |-> IF b = out THEN "exiled" ELSE status[b]]
        /\ at = "done"
    BY <1>1, <2>1 DEF Midday
  <2>3. a = out
    BY <1>0, <2>2
  <2>4. AreFactions(factions, Active)
    BY <2>2 DEF FactionsOK
  <2>5. a # 0
    BY <1>0, AgentsAre
  <2>. QED BY <2>1, <2>3, <2>4, <2>5, ShieldIs
<1>2. CASE ~ Midday
  <2>1. status' = status \/ status' = [status EXCEPT ![prepared[1].agent] = "dead"]
    BY <1>2 DEF Next, vars, people, engine, Inject, PlanApproved, PlanArrives, StartRound,
                Dawn, BeginActions, Decide, MindFails, Turn, TurnStreamed, Converse, Clash,
                Sacrifice, Act, resolution, EndActions, NightFalls, Reflect, Finalise
  <2>2. status'[a] # "exiled"
    BY <1>0, <2>1 DEF TownOK, PeopleOK
  <2>. QED BY <2>2
<1>. QED BY <1>1, <1>2

(* A meeting exiles nobody whom half of the town or more would protect: one of *)
(* a faction that large, unless its suspicion is 80 or more.                   *)
THEOREM FactionsProtect == Spec => FactionsShieldTheirOwn
<1>1. Init => FactionsOK
  BY FactionsInit
<1>2. TownOK /\ FactionsOK /\ [Next]_vars => FactionsOK'
  BY FactionsStep
<1>3. ASSUME TownOK, FactionsOK, [Next]_vars
      PROVE  \A a \in Active, f \in factions :
                status'[a] = "exiled" /\ a \in f.members /\ suspicion[a] < 80 =>
                    2 * Cardinality(f.members) < Cardinality(Active)
  BY <1>3, ShieldStep
<1>4. TownOK /\ FactionsOK /\ [Next]_vars =>
          [\A a \in Active, f \in factions :
              status'[a] = "exiled" /\ a \in f.members /\ suspicion[a] < 80 =>
                  2 * Cardinality(f.members) < Cardinality(Active)]_vars
  BY <1>3
<1>. QED BY <1>1, <1>2, <1>4, TownStands, PTL DEF Spec, FactionsShieldTheirOwn

-----------------------------------------------------------------------------
(* What a meeting tells.                                                       *)

ExiledOn(n) == {exiles[i].who : i \in {j \in DOMAIN exiles : exiles[j].day = n}}
NewsOK ==
    /\ exiles \in Seq(Exile)
    /\ news.announced \subseteq news.tallied
    /\ news.tallied \ news.announced \subseteq ExiledOn(Day)
    /\ Members(news.told) \ news.announced \subseteq ExiledOn(Day)

LEMMA NewsInit == Init => NewsOK
<1>. SUFFICES ASSUME Init PROVE NewsOK
  OBVIOUS
<1>1. exiles \in Seq(Exile)
  BY HistoryInit DEF HistoryOK
<1>2. news = [tallied |-> {}, announced |-> {}, told |-> {}]
  BY DEF Init, NoNews
<1>3. Members({}) = {}
  BY DEF Members
<1>. QED BY <1>1, <1>2, <1>3 DEF NewsOK

LEMMA NewsStep ==
    ASSUME TownOK, NewsOK, [Next]_vars
    PROVE  NewsOK'
<1>0. RoundOK /\ PeopleOK /\ exiles \in Seq(Exile) /\ suspicion \in [Agents -> 0 .. 100]
  BY DEF TownOK, NewsOK, PeopleOK
<1>1. ASSUME StartRound
      PROVE  NewsOK'
  <2>1. news' = [tallied |-> {}, announced |-> {}, told |-> {}] /\ exiles' = exiles
    BY <1>1 DEF StartRound, NoNews, history
  <2>2. Members({}) = {}
    BY DEF Members
  <2>3. Members(news'.told) = {}
    BY <2>1, <2>2
  <2>. QED BY <1>0, <2>1, <2>3 DEF NewsOK, Members
<1>2. ASSUME Midday
      PROVE  NewsOK'
  <2>1. PICK out : out = Exiled(Active, suspicion, influence, factions, threat)
    OBVIOUS
  <2>2. PICK told : told = Factions(Active, suspicion, trust')
    OBVIOUS
  <2>3. /\ exiles' = IF out = 0 THEN exiles
                     ELSE Latest(Append(exiles, [who |-> out, day |-> Day]), HistoryLimit)
        /\ news' = [tallied |-> Active, announced |-> Active \ {out}, told |-> told]
        /\ phase = "morning"
    BY <1>2, <2>1, <2>2 DEF Midday, Voters
  <2>4. Day' = Day /\ Day \in Nat
    BY <1>0, <1>2, <2>3, DayStep, DayIs DEF StartRound
  <2>5. Members(told) \subseteq Active
    <3>1. PICK t : t = trust'
      OBVIOUS
    <3>2. AreFactions(Factions(Active, suspicion, t), Active)
      BY <1>0, FactionsAre DEF Active
    <3>. QED BY <2>2, <3>1, <3>2 DEF AreFactions, IsFaction, Members
  <2>6. CASE out = 0
    <3>1. Active \ {out} = Active
      BY <2>6, AgentsAre DEF Active
    <3>2. exiles' = exiles
      BY <2>3, <2>6
    <3>3. Members(news'.told) \subseteq Active
      BY <2>3, <2>5
    <3>. QED BY <1>0, <2>3, <3>1, <3>2, <3>3 DEF NewsOK, Members
  <2>7. CASE out # 0
    <3>1. out \in Agents
      BY <1>0, <2>1, <2>7, ExiledIs DEF Active
    <3>2. PICK e : e = [who |-> out, day |-> Day]
      OBVIOUS
    <3>3. e \in Exile /\ e.who = out /\ e.day = Day
      BY <2>4, <3>1, <3>2 DEF Exile
    <3>4. PICK s : s = Append(exiles, e)
      OBVIOUS
    <3>5. s \in Seq(Exile) /\ s # <<>> /\ Last(s) = e
      <4>1. PICK n \in Nat : n = Len(exiles)
        BY <1>0, LenProperties
      <4>2. s \in Seq(Exile) /\ Len(s) = n + 1 /\ s[n + 1] = e
        BY <1>0, <3>3, <3>4, <4>1, AppendProperties
      <4>. QED BY <4>2, EmptySeq DEF Last
    <3>6. PICK x : x = exiles'
      OBVIOUS
    <3>7. x = Latest(s, HistoryLimit)
      BY <2>3, <2>7, <3>2, <3>4, <3>6
    <3>8. x \in Seq(Exile) /\ x # <<>> /\ Last(x) = e
      BY <3>5, <3>7, LatestIs, TownAssumption
    <3>9. \E i \in DOMAIN x : x[i] = e
      <4>1. Len(x) \in DOMAIN x
        BY <3>8, LenProperties, EmptySeq
      <4>. QED BY <3>8, <4>1 DEF Last
    <3>10. out \in ExiledOn(Day)'
      BY <2>4, <3>3, <3>6, <3>9 DEF ExiledOn
    <3>11. Members(news.told)' \subseteq Active
      BY <2>3, <2>5 DEF Members
    <3>. QED BY <2>3, <3>6, <3>8, <3>10, <3>11 DEF NewsOK
  <2>. QED BY <2>6, <2>7
<1>3. ASSUME ~ (StartRound \/ Midday)
      PROVE  NewsOK'
  <2>1. UNCHANGED <<exiles, news>>
    BY <1>3 DEF Next, vars, engine, history, Inject, PlanApproved, PlanArrives, Dawn,
                BeginActions, Decide, MindFails, Turn, TurnStreamed, Converse, Clash,
                Sacrifice, Act, resolution, EndActions, NightFalls, Reflect, Finalise
  <2>2. Day' = Day
    BY <1>0, <1>3, DayStep
  <2>. QED BY <2>1, <2>2 DEF NewsOK, Members, ExiledOn
<1>. QED BY <1>1, <1>2, <1>3

(* What the meeting's events tell differs from what was counted only by the    *)
(* one whom the meeting exiled.                                                *)
THEOREM MeetingsAreTold == Spec => []MeetingIsTold
<1>1. Init => NewsOK
  BY NewsInit
<1>2. TownOK /\ NewsOK /\ [Next]_vars => NewsOK'
  BY NewsStep
<1>3. NewsOK => MeetingIsTold
  BY DEF NewsOK, MeetingIsTold, ExiledOn
<1>. QED BY <1>1, <1>2, <1>3, TownStands, PTL DEF Spec

-----------------------------------------------------------------------------
(* Trust.                                                                      *)

Trusts == UNION {[S -> -200 .. 200] : S \in SUBSET Agents}
Bonds == [Agents -> Trusts]

LEMMA TrustsAre ==
    ASSUME NEW t
    PROVE  t \in Trusts <=> IsTrust(t)
<1>1. ASSUME t \in Trusts PROVE IsTrust(t)
  BY <1>1 DEF Trusts, IsTrust
<1>2. ASSUME IsTrust(t) PROVE t \in Trusts
  <2>1. PICK S : S = DOMAIN t
    OBVIOUS
  <2>2. S \in SUBSET Agents /\ t \in [S -> -200 .. 200]
    BY <1>2, <2>1 DEF IsTrust
  <2>. QED BY <2>2 DEF Trusts
<1>. QED BY <1>1, <1>2

LEMMA MovedIs ==
    ASSUME NEW t \in Bonds, NEW a \in Agents, NEW b \in Agents, NEW delta \in Int
    PROVE  Moved(t, a, b, delta) \in Bonds
<1>1. PICK mine : mine = t[a]
  OBVIOUS
<1>2. PICK S \in SUBSET Agents : mine \in [S -> -200 .. 200]
  <2>1. mine \in Trusts
    BY <1>1 DEF Bonds
  <2>. QED BY <2>1 DEF Trusts
<1>3. PICK old \in Int : old = IF b \in DOMAIN mine THEN mine[b] ELSE 0
  <2>1. (IF b \in DOMAIN mine THEN mine[b] ELSE 0) \in Int
    BY <1>2
  <2>. QED BY <2>1
<1>4. PICK new \in -200 .. 200 : new = Clamp(-200, old + delta, 200)
  <2>1. PICK x \in Int, low \in Int, high \in Int :
            x = old + delta /\ low = -200 /\ high = 200 /\ low <= high
    OBVIOUS
  <2>2. Clamp(low, x, high) \in low .. high
    BY <2>1, ClampIs
  <2>. QED BY <2>1, <2>2
<1>5. PICK known : known = [c \in DOMAIN mine \union {b} |-> IF c = b THEN new ELSE mine[c]]
  OBVIOUS
<1>6. known \in [S \union {b} -> -200 .. 200]
  BY <1>2, <1>5
<1>7. known \in Trusts
  <2>1. PICK T : T = S \union {b}
    OBVIOUS
  <2>2. T \in SUBSET Agents /\ known \in [T -> -200 .. 200]
    BY <1>6, <2>1
  <2>. QED BY <2>2 DEF Trusts
<1>8. Moved(t, a, b, delta) = [t EXCEPT ![a] = known]
  BY <1>1, <1>3, <1>4, <1>5 DEF Moved
<1>9. [t EXCEPT ![a] = known] \in [Agents -> Trusts]
  BY <1>7 DEF Bonds
<1>. QED BY <1>8, <1>9 DEF Bonds

LEMMA WhenIsInt ==
    ASSUME NEW condition, NEW amount \in Int
    PROVE  When(condition, amount) \in Int
BY WhenIs

LEMMA DeltasAre ==
    ASSUME NEW a, NEW b
    PROVE  /\ ConversationTrustDelta(a, b) \in Int
           /\ \A same : Clamp(-8, VoteDelta(a, same), 6) \in Int
<1>1. ConversationTrustDelta(a, b) \in Int
  <2>1. PICK d1 \in Int : d1 = When(Profile[a].archetype = Profile[b].archetype, 3)
    BY WhenIsInt
  <2>2. PICK d2 \in Int : d2 = When(Profile[a].empathy >= 60, 2)
    BY WhenIsInt
  <2>3. PICK d3 \in Int : d3 = When(Profile[a].loyalty >= 60, 1)
    BY WhenIsInt
  <2>4. PICK d4 \in Int : d4 = When(Profile[a].paranoia >= 65, 3)
    BY WhenIsInt
  <2>5. PICK d5 \in Int : d5 = When(Profile[a].ambition >= 70, 1)
    BY WhenIsInt
  <2>6. PICK d6 \in Int : d6 = When(Profile[a].gossipy, 1)
    BY WhenIsInt
  <2>7. PICK d7 \in Int : d7 = When(Profile[a].protective, 1)
    BY WhenIsInt
  <2>8. PICK d \in Int : d = d1 + d2 + d3 - d4 - d5 - d6 + d7
    OBVIOUS
  <2>9. ConversationTrustDelta(a, b) = Clamp(-8, d, 8)
    BY <2>1, <2>2, <2>3, <2>4, <2>5, <2>6, <2>7, <2>8 DEF ConversationTrustDelta
  <2>10. Clamp(-8, d, 8) \in Int
    <3>1. PICK low \in Int, high \in Int : low = -8 /\ high = 8 /\ low <= high
      OBVIOUS
    <3>2. Clamp(low, d, high) \in low .. high
      BY <3>1, ClampIs
    <3>. QED BY <3>1, <3>2
  <2>. QED BY <2>9, <2>10
<1>2. ASSUME NEW same
      PROVE  Clamp(-8, VoteDelta(a, same), 6) \in Int
  <2>1. PICK d1 \in Int : d1 = When(Profile[a].loyalty >= 65, 1)
    BY WhenIsInt
  <2>2. PICK d2 \in Int : d2 = When(Profile[a].paranoia >= 65, 1)
    BY WhenIsInt
  <2>3. PICK d \in Int : d = VoteDelta(a, same)
    <3>1. VoteDelta(a, same) = IF same THEN 3 + d1 ELSE -4 - d1 - d2
      BY <2>1, <2>2 DEF VoteDelta
    <3>2. VoteDelta(a, same) \in Int
      BY <3>1
    <3>. QED BY <3>2
  <2>4. Clamp(-8, d, 6) \in Int
    <3>1. PICK low \in Int, high \in Int : low = -8 /\ high = 6 /\ low <= high
      OBVIOUS
    <3>2. Clamp(low, d, high) \in low .. high
      BY <3>1, ClampIs
    <3>. QED BY <3>1, <3>2
  <2>. QED BY <2>3, <2>4
<1>. QED BY <1>1, <1>2

LEMMA ConversedIs ==
    ASSUME NEW t \in Bonds, NEW a \in Agents, NEW b \in Agents
    PROVE  Conversed(t, a, b) \in Bonds
<1>1. PICK first \in Int, second \in Int :
         first = ConversationTrustDelta(a, b) /\ second = ConversationTrustDelta(b, a)
  BY DeltasAre
<1>2. PICK t1 : t1 = Moved(t, a, b, first)
  OBVIOUS
<1>3. PICK t2 : t2 = Moved(t1, b, a, first)
  OBVIOUS
<1>4. PICK t3 : t3 = Moved(t2, b, a, second)
  OBVIOUS
<1>5. t1 \in Bonds /\ t2 \in Bonds /\ t3 \in Bonds /\ Moved(t3, a, b, second) \in Bonds
  BY <1>2, <1>3, <1>4, MovedIs
<1>. QED BY <1>1, <1>2, <1>3, <1>4, <1>5 DEF Conversed

(* A set laid out as a sequence.                                               *)
LEMMA LaidOut ==
    ASSUME NEW S, IsFiniteSet(S)
    PROVE  Cardinality(S) \in Nat /\ SetToSeq(S) \in [1 .. Cardinality(S) -> S]
<1>1. Cardinality(S) \in Nat /\ ExistsBijection(1 .. Cardinality(S), S)
  BY FS_CardinalityType
<1>2. \E f \in [1 .. Cardinality(S) -> S] : IsInjective(f)
  BY <1>1 DEF ExistsBijection, Bijection, Injection
<1>. QED BY <1>1, <1>2 DEF SetToSeq

(* Those who took a side judge one another.                                    *)
LEMMA AfterMeetingIs ==
    ASSUME NEW t \in Bonds, NEW votes, DOMAIN votes \subseteq Agents
    PROVE  AfterMeeting(t, votes) \in Bonds
<1>. DEFINE sided == {a \in DOMAIN votes : votes[a] # "abstain"}
            pairs == {p \in sided \X sided : p[1] # p[2]}
            judged == SetToSeq(pairs)
            Judge(u, pair) ==
                Moved(u, pair[1], pair[2],
                      Clamp(-8, VoteDelta(pair[1], votes[pair[1]] = votes[pair[2]]), 6))
            n == Cardinality(pairs)
            Iterated(it) == [s \in SUBSET DOMAIN judged |->
                IF s = {} THEN t ELSE Judge(it[s \ {Max(s)}], judged[Max(s)])]
            it == CHOOSE it : it = Iterated(it)
<1>1. AfterMeeting(t, votes) = it[DOMAIN judged]
  BY DEF AfterMeeting, FoldLeft, MapThenFoldSet
<1>2. sided \subseteq Agents
  OBVIOUS
<1>. HIDE DEF sided
<1>3. IsFiniteSet(pairs) /\ pairs \subseteq Agents \X Agents
  <2>1. IsFiniteSet(sided)
    BY <1>2, AgentsAre, FS_Subset
  <2>2. IsFiniteSet(sided \X sided)
    BY <2>1, FS_Product
  <2>3. pairs \subseteq sided \X sided
    OBVIOUS
  <2>. QED BY <1>2, <2>2, <2>3, FS_Subset
<1>. HIDE DEF pairs
<1>4. n \in Nat /\ judged \in [1 .. n -> pairs]
  BY <1>3, LaidOut
<1>. HIDE DEF judged, n
<1>5. ASSUME NEW u \in Bonds, NEW i \in 1 .. n
      PROVE  Judge(u, judged[i]) \in Bonds
  <2>1. PICK pair \in Agents \X Agents : pair = judged[i]
    BY <1>3, <1>4
  <2>2. pair[1] \in Agents /\ pair[2] \in Agents
    OBVIOUS
  <2>3. PICK d \in Int :
            d = Clamp(-8, VoteDelta(pair[1], votes[pair[1]] = votes[pair[2]]), 6)
    BY DeltasAre
  <2>4. Moved(u, pair[1], pair[2], d) \in Bonds
    BY <2>2, MovedIs
  <2>. QED BY <2>1, <2>3, <2>4
<1>6. PICK step : step = [x \in (1 .. n) \X Bonds |-> Judge(x[2], judged[x[1]])]
  OBVIOUS
<1>. HIDE DEF Judge
<1>7. step \in [(1 .. n) \X Bonds -> Bonds]
  BY <1>5, <1>6
<1>8. PICK g \in [SUBSET (1 .. n) -> Bonds] : IsFold(g, n, t, step)
  BY <1>4, <1>7, FoldExists
<1>9. ASSUME NEW s \in SUBSET (1 .. n)
      PROVE  g[s] = IF s = {} THEN t ELSE Judge(g[s \ {Max(s)}], judged[Max(s)])
  <2>1. CASE s = {}
    BY <1>8, <2>1 DEF IsFold
  <2>2. CASE s # {}
    <3>1. Max(s) \in s
      BY <1>4, <2>2, LastIndexIs
    <3>2. PICK r : r = s \ {Max(s)}
      OBVIOUS
    <3>3. r \in SUBSET (1 .. n)
      BY <3>2
    <3>4. g[r] \in Bonds
      BY <1>8, <3>3
    <3>5. g[s] = step[<<Max(s), g[r]>>]
      BY <1>8, <2>2, <3>2 DEF IsFold
    <3>6. <<Max(s), g[r]>> \in (1 .. n) \X Bonds
      BY <3>1, <3>4
    <3>7. step[<<Max(s), g[r]>>] = Judge(g[r], judged[Max(s)])
      BY <1>6, <3>6
    <3>. QED BY <2>2, <3>2, <3>5, <3>7
  <2>. QED BY <2>1, <2>2
<1>10. g = Iterated(g)
  BY <1>4, <1>8, <1>9
<1>11. it = Iterated(it)
  BY <1>10
<1>. HIDE DEF it
<1>12. it[{}] \in Bonds
  BY <1>11
<1>13. ASSUME NEW s \in SUBSET (1 .. n), s # {}, it[s \ {Max(s)}] \in Bonds
       PROVE  it[s] \in Bonds
  <2>1. it[s] = Judge(it[s \ {Max(s)}], judged[Max(s)])
    BY <1>4, <1>11, <1>13
  <2>2. Max(s) \in 1 .. n
    BY <1>4, <1>13, LastIndexIs
  <2>. QED BY <1>5, <1>13, <2>1, <2>2
<1>14. it[1 .. n] \in Bonds
  BY <1>4, <1>12, <1>13, FoldStays
<1>. QED BY <1>1, <1>4, <1>14

LEMMA TalkedOverIs ==
    ASSUME NEW t \in Bonds, NEW n \in Nat, NEW ordered,
           \A i \in 1 .. 2 * n : ordered[i] \in Agents
    PROVE  TalkedOver(t, ordered, n) \in Bonds
<1>. DEFINE turns == [i \in 1 .. n |-> i]
            Talk(u, i) == Conversed(u, ordered[2 * i - 1], ordered[2 * i])
            Iterated(it) == [s \in SUBSET DOMAIN turns |->
                IF s = {} THEN t ELSE Talk(it[s \ {Max(s)}], turns[Max(s)])]
            it == CHOOSE it : it = Iterated(it)
<1>1. TalkedOver(t, ordered, n) = it[DOMAIN turns]
  BY DEF TalkedOver, FoldLeft, MapThenFoldSet
<1>2. DOMAIN turns = 1 .. n /\ \A i \in 1 .. n : turns[i] = i
  OBVIOUS
<1>. HIDE DEF turns
<1>3. ASSUME NEW u \in Bonds, NEW i \in 1 .. n
      PROVE  Talk(u, turns[i]) \in Bonds
  <2>1. ordered[2 * i - 1] \in Agents /\ ordered[2 * i] \in Agents
    OBVIOUS
  <2>. QED BY <1>2, <2>1, ConversedIs
<1>4. PICK step : step = [x \in (1 .. n) \X Bonds |-> Talk(x[2], turns[x[1]])]
  OBVIOUS
<1>. HIDE DEF Talk
<1>5. step \in [(1 .. n) \X Bonds -> Bonds]
  BY <1>3, <1>4
<1>6. PICK g \in [SUBSET (1 .. n) -> Bonds] : IsFold(g, n, t, step)
  BY <1>5, FoldExists
<1>7. ASSUME NEW s \in SUBSET (1 .. n)
      PROVE  g[s] = IF s = {} THEN t ELSE Talk(g[s \ {Max(s)}], turns[Max(s)])
  <2>1. CASE s = {}
    BY <1>6, <2>1 DEF IsFold
  <2>2. CASE s # {}
    <3>1. Max(s) \in s
      BY <2>2, LastIndexIs
    <3>2. PICK r : r = s \ {Max(s)}
      OBVIOUS
    <3>3. r \in SUBSET (1 .. n)
      BY <3>2
    <3>4. g[r] \in Bonds
      BY <1>6, <3>3
    <3>5. g[s] = step[<<Max(s), g[r]>>]
      BY <1>6, <2>2, <3>2 DEF IsFold
    <3>6. <<Max(s), g[r]>> \in (1 .. n) \X Bonds
      BY <3>1, <3>4
    <3>7. step[<<Max(s), g[r]>>] = Talk(g[r], turns[Max(s)])
      BY <1>4, <3>6
    <3>. QED BY <2>2, <3>2, <3>5, <3>7
  <2>. QED BY <2>1, <2>2
<1>8. g = Iterated(g)
  BY <1>2, <1>6, <1>7
<1>9. it = Iterated(it)
  BY <1>8
<1>. HIDE DEF it
<1>10. it[{}] \in Bonds
  BY <1>9
<1>11. ASSUME NEW s \in SUBSET (1 .. n), s # {}, it[s \ {Max(s)}] \in Bonds
       PROVE  it[s] \in Bonds
  <2>1. it[s] = Talk(it[s \ {Max(s)}], turns[Max(s)])
    BY <1>2, <1>9, <1>11
  <2>2. Max(s) \in 1 .. n
    BY <1>11, LastIndexIs
  <2>. QED BY <1>3, <1>11, <2>1, <2>2
<1>12. it[1 .. n] \in Bonds
  BY <1>10, <1>11, FoldStays
<1>. QED BY <1>1, <1>2, <1>12

LEMMA TrustInit == Init => trust \in Bonds
<1>. SUFFICES ASSUME Init PROVE trust \in Bonds
  OBVIOUS
<1>1. PICK start \in Towns : trust = start.trust
  BY DEF Init
<1>2. AreBonds(trust)
  BY <1>1, TownAssumption DEF IsTown, ArePeople
<1>3. trust \in [Agents -> Range(trust)]
  BY <1>2 DEF AreBonds
<1>4. \A a \in Agents : trust[a] \in Trusts
  BY <1>2, TrustsAre DEF AreBonds
<1>. QED BY <1>3, <1>4 DEF Bonds

LEMMA TrustStep ==
    ASSUME TownOK, trust \in Bonds, [Next]_vars
    PROVE  trust' \in Bonds
<1>1. CASE Converse
  <2>1. PICK pairs \in Nat : \E ordered : IsTalk(ordered, pairs)
    BY <1>1, ConverseIs DEF TownOK
  <2>2. PICK ordered : IsTalk(ordered, pairs)
    BY <2>1
  <2>. QED BY <2>2, TalkedOverIs DEF IsTalk
<1>2. CASE Midday
  <2>1. PICK votes : /\ trust' = AfterMeeting(trust, votes)
                     /\ DOMAIN votes = Active
    BY <1>2 DEF Midday, Voters
  <2>. QED BY <2>1, AfterMeetingIs DEF Active
<1>3. CASE ~ (Converse \/ Midday)
  <2>1. trust' = trust
    BY <1>3 DEF Next, vars, people, Inject, PlanApproved, StartRound, PlanArrives, Dawn,
                BeginActions, Decide, MindFails, Turn, TurnStreamed, Clash, Sacrifice,
                Act, EndActions, NightFalls, Reflect, Finalise
  <2>. QED BY <2>1
<1>. QED BY <1>1, <1>2, <1>3

-----------------------------------------------------------------------------
(* The type invariant, of its parts.                                           *)

LinesOK == plotlines \in Seq(BOOLEAN) /\ Len(plotlines) <= PlotlineLimit

LEMMA LinesStep ==
    ASSUME WorldOK, LinesOK, [Next]_vars
    PROVE  LinesOK'
<1>1. PlotlineLimit \in Nat \ {0} /\ plan.watch \in BOOLEAN /\ plotlines \in Seq(BOOLEAN)
  BY TownAssumption DEF WorldOK, IsPlan, LinesOK
<1>2. ASSUME NEW x \in BOOLEAN, plotlines' = Latest(Append(plotlines, x), PlotlineLimit)
      PROVE  LinesOK'
  <2>1. PICK s \in Seq(BOOLEAN) : s = Append(plotlines, x)
    BY <1>1, AppendProperties
  <2>. QED BY <1>1, <1>2, <2>1, LatestIs DEF LinesOK
<1>3. CASE Inject
  BY <1>2, <1>3 DEF Inject
<1>4. CASE Dawn
  BY <1>1, <1>2, <1>4 DEF Dawn
<1>5. CASE ~ (Inject \/ Dawn)
  <2>1. plotlines' = plotlines
    BY <1>5 DEF Next, vars, script, PlanApproved, StartRound, PlanArrives,
                BeginActions, Decide, MindFails, Turn, TurnStreamed, Converse, Clash, Sacrifice,
                Act, resolution, EndActions, Midday, NightFalls, Reflect, Finalise
  <2>. QED BY <2>1 DEF LinesOK
<1>. QED BY <1>3, <1>4, <1>5

(* Levels stay in their ranges and memories in their limits, however often     *)
(* suspicion, trust and threat are moved.                                      *)
THEOREM TypeCorrect == Spec => []TypeOK
<1>. DEFINE TypesOK == MemoryOK /\ WorldOK /\ trust \in Bonds /\ LinesOK
<1>1. Init => TypesOK
  <2>1. Init => LinesOK
    BY EmptySeq, TownAssumption DEF Init, LinesOK
  <2>. QED BY <2>1, MemoryInit, WorldInit, TrustInit
<1>2. TownOK /\ TypesOK /\ [Next]_vars => TypesOK'
  <2>. SUFFICES ASSUME TownOK, TypesOK, [Next]_vars PROVE TypesOK'
    OBVIOUS
  <2>1. MemoryOK' /\ WorldOK' /\ LinesOK'
    BY MemoryStep, WorldStep, LinesStep
  <2>2. trust' \in Bonds
    BY TrustStep
  <2>. QED BY <2>1, <2>2
<1>3. TownOK /\ TypesOK => TypeOK
  <2>. SUFFICES ASSUME TownOK, TypesOK PROVE TypeOK
    OBVIOUS
  <2>1. RoundOK /\ PeopleOK /\ PlacesOK
    BY DEF TownOK
  <2>2. ASSUME NEW a \in Agents
        PROVE  /\ IsTrust(trust[a])
               /\ Len(recent[a]) <= RecentLimit
               /\ \A i \in DOMAIN recent[a] : recent[a][i] \in 0 .. Day
    <3>1. IsTrust(trust[a])
      BY TrustsAre DEF Bonds
    <3>2. recent[a] \in Seq(0 .. Day) /\ Len(recent[a]) <= RecentLimit
      BY DEF MemoryOK
    <3>3. \A i \in DOMAIN recent[a] : recent[a][i] \in 0 .. Day
      BY <3>2, ElementOfSeq, LenProperties
    <3>. QED BY <3>1, <3>2, <3>3
  <2>3. /\ status \in [Agents -> {"active", "exiled", "dead"}]
        /\ suspicion \in [Agents -> 0 .. 100]
        /\ cursor \in [Agents -> 0 .. Day]
    BY <2>1 DEF PeopleOK, MemoryOK
  <2>4. influence \in [Agents -> Cents] /\ threat \in Cents
    BY <2>1 DEF PeopleOK, WorldOK
  <2>5. /\ resources \in [Resources -> Nat]
        /\ tally.coop <= tally.asked /\ Len(plotlines) <= PlotlineLimit
    BY DEF WorldOK, LinesOK, IsTally, Stocks
  <2>6. /\ tile \in [Agents -> Tiles] /\ location \in [Agents -> Places]
        /\ occupancy \in [Places -> SUBSET Agents]
        /\ town \in {"running", "completed", "collapsed"}
        /\ phase \in Phases /\ at \in {"asking", "told", "resolving", "done"}
    BY <2>1 DEF RoundOK, PlacesOK
  <2>. QED BY <2>2, <2>3, <2>4, <2>5, <2>6, Zenon DEF TypeOK
<1>. HIDE DEF TypesOK
<1>. QED BY <1>1, <1>2, <1>3, TownStands, PTL DEF Spec

-----------------------------------------------------------------------------
(* Those who have left, and what they had decided on before.                 *)

LEMMA FirstIs ==
    ASSUME NEW S, NEW actions \in Seq(S), NEW i \in DOMAIN actions
    PROVE  /\ FirstOf(actions, i) \in 1 .. i
           /\ FirstOf(actions, i) \in DOMAIN actions
           /\ Key(actions[FirstOf(actions, i)]) = Key(actions[i])
           /\ \A j \in 1 .. i : Key(actions[j]) = Key(actions[i]) => FirstOf(actions, i) <= j
<1>. DEFINE same == {j \in 1 .. i : Key(actions[j]) = Key(actions[i])}
<1>1. Len(actions) \in Nat /\ DOMAIN actions = 1 .. Len(actions)
  BY LenProperties
<1>2. same \in SUBSET Nat /\ i \in same /\ FirstOf(actions, i) = Min(same)
  BY <1>1 DEF FirstOf
<1>3. \A j \in same : j \in 1 .. i /\ Key(actions[j]) = Key(actions[i])
  OBVIOUS
<1>4. \A j \in 1 .. i : Key(actions[j]) = Key(actions[i]) => j \in same
  OBVIOUS
<1>. HIDE DEF same
<1>5. Min(same) \in same /\ \A j \in same : Min(same) <= j
  BY <1>2, MinIs
<1>6. PICK m : m = FirstOf(actions, i)
  OBVIOUS
<1>7. /\ m \in 1 .. i /\ Key(actions[m]) = Key(actions[i])
      /\ \A j \in 1 .. i : Key(actions[j]) = Key(actions[i]) => m <= j
  BY <1>2, <1>3, <1>4, <1>5, <1>6
<1>8. m \in DOMAIN actions
  BY <1>1, <1>7
<1>. QED BY <1>6, <1>7, <1>8

LEMMA FirstsAgree ==
    ASSUME NEW S, NEW actions \in Seq(S), NEW i \in DOMAIN actions, NEW j \in DOMAIN actions
    PROVE  Key(actions[i]) = Key(actions[j]) <=> FirstOf(actions, i) = FirstOf(actions, j)
<1>1. i \in Nat /\ j \in Nat
  BY LenProperties
<1>2. PICK m : m = FirstOf(actions, i)
  OBVIOUS
<1>3. PICK n : n = FirstOf(actions, j)
  OBVIOUS
<1>4. /\ m \in 1 .. i /\ Key(actions[m]) = Key(actions[i])
      /\ \A k \in 1 .. i : Key(actions[k]) = Key(actions[i]) => m <= k
  BY <1>2, FirstIs
<1>5. /\ n \in 1 .. j /\ Key(actions[n]) = Key(actions[j])
      /\ \A k \in 1 .. j : Key(actions[k]) = Key(actions[j]) => n <= k
  BY <1>3, FirstIs
<1>6. ASSUME Key(actions[i]) = Key(actions[j])
      PROVE  m = n
  <2>1. n <= i => m <= n
    BY <1>1, <1>4, <1>5, <1>6
  <2>2. m <= j => n <= m
    BY <1>1, <1>4, <1>5, <1>6
  <2>. QED BY <1>1, <1>4, <1>5, <2>1, <2>2
<1>. QED BY <1>2, <1>3, <1>4, <1>5, <1>6

(* Two sacrifices of one day at one place, and this agent's is not the first. *)
Excused(a) ==
    \E i, j \in DOMAIN sacrifices :
        /\ i < j /\ sacrifices[j].who = a
        /\ sacrifices[i].day = sacrifices[j].day
        /\ sacrifices[i].place = sacrifices[j].place
Today(place) ==
    \E x \in DOMAIN sacrifices : sacrifices[x].day = Day /\ sacrifices[x].place = place

(* A sacrifice is decided on last; what is resolved after it although it was  *)
(* decided on before follows because another sacrifice opened its group.      *)
TheirLast ==
    \A i, j \in DOMAIN prepared :
        Fatal(i) /\ prepared[j].agent = prepared[i].agent => j <= i
InGroups ==
    \A i, k \in DOMAIN prepared : \A j \in i .. k :
        Key(prepared[i]) = Key(prepared[k]) => Key(prepared[j]) = Key(prepared[i])
Preceded(i) == \E k \in 1 .. i - 1 : Fatal(k) /\ prepared[k].place = prepared[i].place
Foreseen ==
    \A i, j \in DOMAIN prepared :
        Fatal(i) /\ i < j /\ prepared[j].agent = prepared[i].agent =>
            Preceded(i) \/ Today(prepared[i].place)
DoersOK ==
    /\ Turning => TheirLast /\ Doers \subseteq Active
    /\ at = "resolving" => InGroups /\ Foreseen
    /\ \A a \in Doers : a \in Active \/ Excused(a)
GoneOK == \A p \in Places : \A a \in occupancy[p] : a \in Active \/ Excused(a)

LEMMA DoersIdle == ASSUME prepared' = <<>> PROVE DoersOK'
<1>1. DOMAIN prepared' = {}
  BY EmptySeq
<1>2. Doers' = {}
  BY <1>1 DEF Doers
<1>. QED BY <1>1, <1>2 DEF DoersOK, TheirLast, InGroups, Foreseen

LEMMA DoersOfATurn ==
    ASSUME RoundOK, TurnsOK, PlacesOK, DeedsOK, DoersOK, Decide \/ MindFails
    PROVE  DoersOK'
<1>1. /\ Head(todo) \in Active /\ Head(todo) = todo[1] /\ 1 \in DOMAIN todo
      /\ at = "asking" /\ phase \in DOMAIN PerAgent
      /\ \E d \in Decisions : Turn(Head(todo), d)
  BY TurnIs
<1>2. PICK d \in Decisions : Turn(Head(todo), d)
  BY <1>1
<1>3. PICK h \in Active : h = Head(todo)
  BY <1>1
<1>4. h \in Agents
  BY DEF Active
<1>5. PICK deed : deed = [agent |-> h, type |-> Action(h, d).type,
                          place |-> Action(h, d).place, target |-> d.target]
  OBVIOUS
<1>6. deed \in Deeds /\ deed.agent = h
  <2>1. Action(h, d).type \in DecisionAction /\ Action(h, d).place \in Places
    BY <1>4, ActionIs
  <2>2. d.target \in Agents \union {0}
    BY DEF Decisions
  <2>. QED BY <1>4, <1>5, <2>1, <2>2 DEF Deeds
<1>7. prepared' = Append(prepared, deed) /\ at' = "told" /\ UNCHANGED status
  BY <1>2, <1>3, <1>5 DEF Turn
<1>8. prepared \in Seq(Deeds)
  BY DEF DeedsOK
<1>9. PICK n \in Nat : n = Len(prepared) /\ DOMAIN prepared = 1 .. n
  BY <1>8, LenProperties
<1>10. /\ DOMAIN prepared' = 1 .. n + 1
       /\ prepared'[n + 1] = deed
       /\ \A i \in 1 .. n : prepared'[i] = prepared[i]
  BY <1>6, <1>7, <1>8, <1>9, AppendProperties, LenProperties
<1>11. TheirLast /\ Doers \subseteq Active
  BY <1>1 DEF DoersOK, Turning
<1>12. ASSUME NEW i \in 1 .. n, Fatal(i)
       PROVE  prepared[i].agent # h
  BY <1>1, <1>3, <1>9, <1>12 DEF DeedsOK, Turning
<1>13. ASSUME NEW i \in 1 .. n + 1, NEW j \in 1 .. n + 1,
              Fatal(i)', prepared'[j].agent = prepared'[i].agent
       PROVE  j <= i
  <2>1. CASE i = n + 1
    BY <2>1
  <2>2. CASE i \in 1 .. n /\ j = n + 1
    <3>1. Fatal(i)
      BY <1>10, <1>13, <2>2 DEF Fatal
    <3>. QED BY <1>6, <1>10, <1>12, <1>13, <2>2, <3>1
  <2>3. CASE i \in 1 .. n /\ j \in 1 .. n
    <3>1. Fatal(i) /\ prepared[j].agent = prepared[i].agent
      BY <1>10, <1>13, <2>3 DEF Fatal
    <3>. QED BY <1>9, <1>11, <2>3, <3>1 DEF TheirLast
  <2>. QED BY <2>1, <2>2, <2>3
<1>14. Active' = Active
  BY <1>7 DEF Active
<1>15. \A i \in 1 .. n + 1 : prepared'[i].agent \in Active
  <2>1. \A i \in 1 .. n : prepared[i].agent \in Active
    BY <1>9, <1>11 DEF Doers
  <2>. QED BY <1>6, <1>10, <2>1
<1>16. Doers' \subseteq Active'
  BY <1>10, <1>14, <1>15 DEF Doers
<1>17. TheirLast'
  BY <1>10, <1>13 DEF TheirLast
<1>. QED BY <1>7, <1>16, <1>17 DEF DoersOK

(* The groups in their order.                                                 *)
LEMMA DoersOfAStream ==
    ASSUME RoundOK, TurnsOK, DeedsOK, DoersOK, TurnStreamed
    PROVE  DoersOK'
<1>. DEFINE left == IF slots > 0 THEN todo ELSE Tail(todo)
<1>1. /\ at = "told" /\ phase \in DOMAIN PerAgent
      /\ UNCHANGED <<phase, status, sacrifices>>
  BY DEF TurnStreamed, RoundOK, people, history
<1>2. /\ left = <<>> => at' = "resolving" /\ prepared' = Grouped(prepared)
      /\ left # <<>> => at' = "asking" /\ prepared' = prepared
  BY DEF TurnStreamed
<1>3. Active' = Active
  BY <1>1 DEF Active
<1>4. TheirLast /\ Doers \subseteq Active /\ prepared \in Seq(Deeds)
  BY <1>1 DEF DoersOK, Turning, DeedsOK
<1>5. CASE left # <<>>
  <2>. HIDE DEF left
  <2>1. Doers' = Doers /\ TheirLast' /\ at' = "asking"
    BY <1>2, <1>4, <1>5 DEF Doers, TheirLast, Fatal
  <2>. QED BY <1>3, <1>4, <2>1 DEF DoersOK
<1>6. CASE left = <<>>
  <2>. HIDE DEF left
  <2>1. PICK m \in Nat : m = Len(prepared) /\ DOMAIN prepared = 1 .. m
    BY <1>4, LenProperties
  <2>2. PICK f \in [DOMAIN prepared -> DOMAIN prepared] :
            /\ \A x \in DOMAIN prepared : \E n \in DOMAIN prepared : f[n] = x
            /\ \A i, j \in DOMAIN prepared : i < j => Sooner(prepared, f[i], f[j])
            /\ Grouped(prepared) = [n \in DOMAIN prepared |-> prepared[f[n]]]
    BY <1>4, GroupedIs
  <2>3. at' = "resolving" /\ prepared' = [n \in 1 .. m |-> prepared[f[n]]]
    BY <1>2, <1>6, <2>1, <2>2
  <2>4. /\ DOMAIN prepared' = 1 .. m
        /\ \A i \in 1 .. m : f[i] \in 1 .. m /\ prepared'[i] = prepared[f[i]]
    BY <2>1, <2>2, <2>3
  <2>5. PICK F : F = [i \in 1 .. m |-> FirstOf(prepared, i)]
    OBVIOUS
  <2>6. /\ \A i \in 1 .. m : F[i] \in 1 .. i /\ F[i] \in 1 .. m
        /\ \A i \in 1 .. m : Key(prepared[F[i]]) = Key(prepared[i])
        /\ \A i, j \in 1 .. m : Key(prepared[i]) = Key(prepared[j]) <=> F[i] = F[j]
    BY <1>4, <2>1, <2>5, FirstIs, FirstsAgree
  <2>7. \A i, j \in 1 .. m :
            i < j => F[f[i]] < F[f[j]] \/ (F[f[i]] = F[f[j]] /\ f[i] < f[j])
    BY <2>1, <2>2, <2>4, <2>5 DEF Sooner
  <2>8. InGroups'
    <3>1. ASSUME NEW i \in 1 .. m, NEW k \in 1 .. m, NEW j \in i .. k,
                 Key(prepared'[i]) = Key(prepared'[k])
          PROVE  Key(prepared'[j]) = Key(prepared'[i])
      <4>1. j \in 1 .. m /\ i <= j /\ j <= k
        OBVIOUS
      <4>2. F[f[i]] = F[f[k]]
        BY <2>4, <2>6, <3>1
      <4>3. F[f[i]] \in Nat /\ F[f[j]] \in Nat /\ F[f[k]] \in Nat
        BY <2>4, <2>6, <4>1
      <4>4. F[f[i]] <= F[f[j]]
        BY <2>7, <4>1, <4>3
      <4>5. F[f[j]] <= F[f[k]]
        BY <2>7, <4>1, <4>3
      <4>6. F[f[j]] = F[f[i]]
        BY <4>2, <4>3, <4>4, <4>5
      <4>. QED BY <2>4, <2>6, <4>1, <4>6
    <3>. QED BY <2>4, <3>1 DEF InGroups
  <2>9. Foreseen'
    <3>1. ASSUME NEW i \in 1 .. m, NEW j \in 1 .. m, Fatal(i)', i < j,
                 prepared'[j].agent = prepared'[i].agent
          PROVE  Preceded(i)'
      <4>1. PICK x \in 1 .. m : x = f[i]
        BY <2>4
      <4>2. PICK y \in 1 .. m : y = f[j]
        BY <2>4
      <4>3. Fatal(x) /\ prepared[y].agent = prepared[x].agent
        BY <2>4, <3>1, <4>1, <4>2 DEF Fatal
      <4>4. y <= x
        BY <1>4, <2>1, <4>3 DEF TheirLast
      <4>5. F[x] < F[y] \/ (F[x] = F[y] /\ x < y)
        BY <2>7, <3>1, <4>1, <4>2
      <4>6. F[x] \in 1 .. m /\ F[y] \in 1 .. y /\ F[x] \in 1 .. x
        BY <2>6
      <4>7. F[x] < x
        BY <4>4, <4>5, <4>6
      <4>8. PICK k \in 1 .. m : f[k] = F[x]
        BY <2>1, <2>2, <4>6
      <4>9. Key(prepared[F[x]]) = Key(prepared[x])
        BY <2>6
      <4>10. F[F[x]] = F[x]
        BY <2>6, <4>6, <4>9
      <4>11. k < i
        <5>1. k # i
          BY <4>1, <4>6, <4>7, <4>8
        <5>2. i < k => x < F[x]
          BY <2>7, <4>1, <4>6, <4>8, <4>10
        <5>. QED BY <4>6, <4>7, <5>1, <5>2
      <4>12. prepared'[k] = prepared[F[x]] /\ prepared'[i] = prepared[x]
        BY <2>4, <4>1, <4>8
      <4>13. Fatal(k)' /\ prepared'[k].place = prepared'[i].place
        BY <4>3, <4>9, <4>12 DEF Fatal, Key
      <4>. QED BY <4>11, <4>13 DEF Preceded
    <3>. QED BY <2>4, <3>1 DEF Foreseen
  <2>10. Doers' \subseteq Doers
    BY <2>1, <2>4 DEF Doers
  <2>. QED BY <1>3, <1>4, <2>3, <2>8, <2>9, <2>10 DEF DoersOK, Turning
<1>. QED BY <1>5, <1>6

(* The first group is of one kind.                                            *)
LEMMA GroupIsAlike ==
    ASSUME NEW S, prepared \in Seq(S), prepared # <<>>, InGroups
    PROVE  \A i \in 1 .. Len(Group) : Key(prepared[i]) = Key(prepared[1])
<1>. DEFINE same == {i \in DOMAIN prepared : Key(prepared[i]) = Key(prepared[1])}
<1>1. PICK k \in Nat : k = Len(prepared) /\ DOMAIN prepared = 1 .. k /\ k # 0
  BY LenProperties, EmptySeq
<1>2. IsFiniteSet(1 .. k)
  BY FS_Interval
<1>3. same \subseteq 1 .. k /\ 1 \in same
  BY <1>1
<1>4. /\ \A i \in same : \A j \in 1 .. i : j \in same
      /\ \A i \in 1 .. k : i \in same <=> Key(prepared[i]) = Key(prepared[1])
  BY <1>1 DEF InGroups
<1>5. Group = SubSeq(prepared, 1, Cardinality(same))
  BY DEF Group
<1>. HIDE DEF same
<1>6. PICK n \in same : \A i \in same : i <= n
  <2>1. PICK f : f = [i \in same |-> i]
    OBVIOUS
  <2>2. f \in [same -> Nat] /\ same # {} /\ \A i \in same : f[i] <= k
    BY <1>3, <2>1
  <2>3. \E n \in same : \A i \in same : f[n] >= f[i]
    BY <2>2, GreatestOf
  <2>4. PICK n \in same : \A i \in same : f[n] >= f[i]
    BY <2>3
  <2>5. \A i \in same : n >= i /\ i \in Nat
    BY <1>3, <2>1, <2>4
  <2>6. \A i \in same : i <= n
    BY <2>5
  <2>. QED BY <2>6
<1>7. same = 1 .. n /\ n \in 1 .. k
  <2>1. n \in 1 .. k
    BY <1>3
  <2>2. 1 .. n \subseteq same
    BY <1>4
  <2>3. \A i \in same : i \in 1 .. n
    BY <1>3, <1>6
  <2>. QED BY <2>1, <2>2, <2>3
<1>8. Cardinality(same) = n
  <2>1. 1 \in Int /\ n \in Int
    BY <1>7
  <2>2. Cardinality(1 .. n) = IF 1 > n THEN 0 ELSE n - 1 + 1
    BY <2>1, FS_Interval
  <2>. QED BY <1>7, <2>2
<1>9. Len(Group) = n
  <2>1. 1 \in Int /\ n \in Int /\ \A i \in 1 .. n : prepared[i] \in S
    BY <1>1, <1>7, ElementOfSeq
  <2>2. Len(SubSeq(prepared, 1, n)) = IF 1 <= n THEN n - 1 + 1 ELSE 0
    BY <2>1, SubSeqProperties
  <2>. QED BY <1>5, <1>7, <1>8, <2>2
<1>. QED BY <1>4, <1>7, <1>9

(* A sacrifice is entered at the end of its history.                           *)
LEMMA SacrificeIs ==
    ASSUME RosterFits, TownOK, HistoryOK, Sacrifice
    PROVE  \E n \in Nat :
              /\ DOMAIN sacrifices = 1 .. n /\ DOMAIN sacrifices' = 1 .. n + 1
              /\ \A i \in 1 .. n : sacrifices'[i] = sacrifices[i]
              /\ sacrifices'[n + 1] = [who |-> prepared[1].agent, day |-> Day,
                                       place |-> prepared[1].place]
              /\ Day' = Day /\ Active' = Active \ {prepared[1].agent}
<1>0. /\ RoundOK /\ PeopleOK /\ DeedsOK
      /\ sacrifices \in Seq(Death) /\ OncePerAgent(sacrifices)
      /\ \A i \in DOMAIN sacrifices : sacrifices[i].who \notin Active
  BY DEF TownOK, HistoryOK
<1>1. PICK a : a = prepared[1].agent
  OBVIOUS
<1>2. PICK place : place = prepared[1].place
  OBVIOUS
<1>3. /\ status' = [status EXCEPT ![a] = "dead"]
      /\ sacrifices' = Latest(Append(sacrifices, [who |-> a, day |-> Day, place |-> place]),
                              HistoryLimit)
      /\ Resolving /\ Fatal(1) /\ UNCHANGED <<phase, round>>
  BY <1>1, <1>2 DEF Sacrifice, Fatal
<1>4. a \in Active /\ place \in Places
  BY <1>0, <1>1, <1>2, <1>3, FirstDeedIs DEF DeedsOK
<1>5. PICK e : e = [who |-> a, day |-> Day, place |-> place]
  OBVIOUS
<1>6. e \in Death /\ e.who = a
  BY <1>0, <1>4, <1>5, DayIs DEF Death, Active
<1>7. \A x \in Death : x.who \in Agents
  BY DEF Death
<1>8. PICK s : s = sacrifices
  OBVIOUS
<1>9. s \in Seq(Death) /\ OncePerAgent(s) /\ \A i \in DOMAIN s : s[i].who # e.who
  BY <1>0, <1>4, <1>6, <1>8
<1>10. /\ Latest(Append(s, e), HistoryLimit) = Append(s, e)
       /\ Append(s, e) \in Seq(Death)
       /\ DOMAIN Append(s, e) = DOMAIN s \union {Len(s) + 1}
       /\ \A i \in DOMAIN s : Append(s, e)[i] = s[i]
       /\ Append(s, e)[Len(s) + 1] = e
       /\ OncePerAgent(Append(s, e))
  BY <1>6, <1>7, <1>9, EnteredIs
<1>11. PICK n \in Nat : n = Len(s) /\ DOMAIN s = 1 .. n
  BY <1>9, LenProperties
<1>12. sacrifices' = Append(s, e)
  BY <1>3, <1>5, <1>8, <1>10
<1>13. DOMAIN sacrifices' = 1 .. n + 1
  BY <1>10, <1>11, <1>12
<1>14. Day' = Day /\ Active' = Active \ {a}
  BY <1>0, <1>3, <1>4 DEF Day, Active, PeopleOK
<1>. QED BY <1>1, <1>2, <1>5, <1>8, <1>10, <1>11, <1>12, <1>13, <1>14

LEMMA SacrificesStay ==
    ASSUME RoundOK, [Next]_vars, ~ Sacrifice
    PROVE  sacrifices' = sacrifices /\ (~ Midday => Active' = Active)
<1>1. /\ sacrifices' = sacrifices
      /\ ~ Midday => status' = status
  BY DEF Next, vars, people, history, Inject, PlanApproved, StartRound, PlanArrives, Dawn,
         BeginActions, Decide, MindFails, Turn, TurnStreamed, Converse, Clash, Act,
         resolution, EndActions, Midday, NightFalls, Reflect, Finalise
<1>. QED BY <1>1 DEF Active

LEMMA ExcusedStays ==
    ASSUME RosterFits, TownOK, HistoryOK, [Next]_vars, NEW a, Excused(a)
    PROVE  Excused(a)'
<1>1. CASE Sacrifice
  <2>1. PICK n \in Nat :
            /\ DOMAIN sacrifices = 1 .. n /\ DOMAIN sacrifices' = 1 .. n + 1
            /\ \A i \in 1 .. n : sacrifices'[i] = sacrifices[i]
    BY <1>1, SacrificeIs
  <2>. QED BY <2>1 DEF Excused
<1>2. CASE ~ Sacrifice
  BY <1>2, SacrificesStay DEF Excused, TownOK
<1>. QED BY <1>1, <1>2

(* Whoever makes a sacrifice and is still to act is excused.                   *)
LEMMA DoersOfAResolution ==
    ASSUME RosterFits, TownOK, HistoryOK, DoersOK, Converse \/ Clash \/ Act \/ Sacrifice
    PROVE  DoersOK'
<1>0. RoundOK /\ DeedsOK /\ [Next]_vars
  BY DEF TownOK, Next
<1>1. Resolving /\ at' = "resolving"
  BY DEF Converse, Clash, Act, Sacrifice, Resolving, resolution
<1>2. prepared \in Seq(Deeds) /\ prepared # <<>> /\ InGroups /\ Foreseen
  BY <1>0, <1>1 DEF DeedsOK, Resolving, DoersOK
<1>3. 1 \in 1 .. Len(prepared) /\ Len(Group) \in 1 .. Len(prepared)
  <2>1. Len(Group) \in 1 .. Len(prepared) /\ Len(prepared) \in Nat
    BY <1>2, GroupIs, LenProperties
  <2>. QED BY <2>1
<1>4. \A i \in 1 .. Len(Group) : Key(prepared[i]) = Key(prepared[1])
  BY <1>2, GroupIsAlike
<1>5. \E n \in 1 .. Len(prepared) :
          /\ \/ prepared' = SubSeq(prepared, n + 1, Len(prepared))
             \/ n = 1 /\ prepared' = Tail(prepared)
          /\ ~ Sacrifice => \A i \in 1 .. n : ~ Fatal(i)
          /\ Sacrifice => n = 1 /\ Fatal(1)
  <2>1. CASE Converse \/ Clash
    <3>1. prepared' = SubSeq(prepared, Len(Group) + 1, Len(prepared)) /\ ~ Fatal(1)
      BY <2>1 DEF Converse, Clash, Fatal, Contested
    <3>2. \A i \in 1 .. Len(Group) : ~ Fatal(i)
      BY <1>4, <3>1 DEF Key, Fatal
    <3>3. ~ Sacrifice
      BY <3>1 DEF Sacrifice, Fatal
    <3>. QED BY <1>3, <3>1, <3>2, <3>3
  <2>2. CASE Act
    <3>1. prepared' = Tail(prepared) /\ ~ Fatal(1)
      BY <2>2 DEF Act, Fatal
    <3>2. ~ Sacrifice
      BY <3>1 DEF Sacrifice, Fatal
    <3>. QED BY <1>3, <3>1, <3>2
  <2>3. CASE Sacrifice
    <3>1. prepared' = Tail(prepared) /\ Fatal(1)
      BY <2>3 DEF Sacrifice, Fatal
    <3>. QED BY <1>3, <2>3, <3>1
  <2>. QED BY <2>1, <2>2, <2>3
<1>6. PICK n \in 1 .. Len(prepared) :
          /\ \/ prepared' = SubSeq(prepared, n + 1, Len(prepared))
             \/ n = 1 /\ prepared' = Tail(prepared)
          /\ ~ Sacrifice => \A i \in 1 .. n : ~ Fatal(i)
          /\ Sacrifice => n = 1 /\ Fatal(1)
  BY <1>5
<1>7. /\ prepared' \in Seq(Deeds)
      /\ \A i \in DOMAIN prepared' :
            i \in Nat /\ i + n \in DOMAIN prepared /\ prepared'[i] = prepared[i + n]
  BY <1>0, <1>6, DeedsLeft
<1>8. PICK m \in Nat : m = Len(prepared') /\ DOMAIN prepared' = 1 .. m
  BY <1>7, LenProperties
<1>9. n \in Nat /\ n >= 1
  BY <1>2, LenProperties
<1>10. \A i \in 1 .. m : i + n \in DOMAIN prepared /\ prepared'[i] = prepared[i + n]
  BY <1>7, <1>8
<1>11. InGroups'
  <2>1. ASSUME NEW i \in 1 .. m, NEW k \in 1 .. m, NEW j \in i .. k,
               Key(prepared'[i]) = Key(prepared'[k])
        PROVE  Key(prepared'[j]) = Key(prepared'[i])
    <3>1. j \in 1 .. m /\ j + n \in (i + n) .. (k + n)
      BY <1>9
    <3>2. Key(prepared[i + n]) = Key(prepared[k + n])
      BY <1>10, <2>1
    <3>3. Key(prepared[j + n]) = Key(prepared[i + n])
      BY <1>2, <1>10, <3>1, <3>2 DEF InGroups
    <3>. QED BY <1>10, <3>1, <3>3
  <2>. QED BY <1>8, <2>1 DEF InGroups
<1>12. ASSUME NEW p, Today(p)
       PROVE  Today(p)'
  <2>1. CASE Sacrifice
    <3>1. PICK q \in Nat :
              /\ DOMAIN sacrifices = 1 .. q /\ DOMAIN sacrifices' = 1 .. q + 1
              /\ \A i \in 1 .. q : sacrifices'[i] = sacrifices[i]
              /\ Day' = Day
      BY <2>1, SacrificeIs
    <3>. QED BY <1>12, <3>1 DEF Today
  <2>2. CASE ~ Sacrifice
    <3>1. sacrifices' = sacrifices
      BY <1>0, <2>2, SacrificesStay
    <3>2. UNCHANGED <<phase, round>>
      BY <2>2 DEF Converse, Clash, Act, resolution
    <3>. QED BY <1>12, <3>1, <3>2 DEF Today, Day
  <2>. QED BY <2>1, <2>2
<1>13. PICK here : here = prepared[1].place
  OBVIOUS
<1>14. ASSUME Sacrifice
       PROVE  Today(here)'
  <2>1. PICK q \in Nat :
            /\ DOMAIN sacrifices' = 1 .. q + 1
            /\ sacrifices'[q + 1] = [who |-> prepared[1].agent, day |-> Day,
                                     place |-> prepared[1].place]
            /\ Day' = Day
    BY <1>14, SacrificeIs
  <2>2. /\ q + 1 \in DOMAIN sacrifices'
        /\ sacrifices'[q + 1].day = Day' /\ sacrifices'[q + 1].place = here
    BY <1>13, <2>1
  <2>. QED BY <2>2 DEF Today
<1>15. ASSUME NEW i \in 1 .. m, NEW j \in 1 .. m, Fatal(i)', i < j,
              prepared'[j].agent = prepared'[i].agent
       PROVE  Preceded(i)' \/ Today(prepared[i].place)'
  <2>1. /\ Fatal(i + n) /\ prepared[j + n].agent = prepared[i + n].agent
        /\ i + n < j + n
    BY <1>9, <1>10, <1>15 DEF Fatal
  <2>2. PICK p : p = prepared[i + n].place
    OBVIOUS
  <2>3. p = prepared'[i].place
    BY <1>10, <2>2
  <2>4. Preceded(i + n) \/ Today(p)
    BY <1>2, <1>10, <2>1, <2>2 DEF Foreseen
  <2>5. CASE Today(p)
    <3>1. Today(p)'
      BY <1>12, <2>5
    <3>. QED BY <2>3, <3>1 DEF Today
  <2>6. CASE Preceded(i + n)
    <3>1. PICK k \in 1 .. i + n - 1 : Fatal(k) /\ prepared[k].place = p
      BY <2>2, <2>6 DEF Preceded
    <3>2. CASE k > n
      <4>1. PICK l : l = k - n
        OBVIOUS
      <4>2. l \in 1 .. i - 1 /\ l \in 1 .. m /\ l + n = k
        BY <1>9, <3>2, <4>1
      <4>3. prepared'[l] = prepared[k]
        BY <1>10, <4>2
      <4>4. Fatal(l)' /\ prepared'[l].place = prepared'[i].place
        BY <2>3, <3>1, <4>3 DEF Fatal
      <4>. QED BY <4>2, <4>4 DEF Preceded
    <3>3. CASE k <= n
      <4>1. k \in 1 .. n
        BY <1>9, <3>3
      <4>2. Sacrifice /\ k = 1
        BY <1>6, <3>1, <4>1
      <4>3. Today(p)'
        BY <1>13, <1>14, <3>1, <4>2
      <4>. QED BY <2>3, <4>3 DEF Today
    <3>. QED BY <1>9, <3>2, <3>3
  <2>. QED BY <2>4, <2>5, <2>6
<1>16. Foreseen'
  BY <1>8, <1>15 DEF Foreseen
<1>17. ASSUME NEW i \in 1 .. m
       PROVE  prepared'[i].agent \in Active' \/ Excused(prepared[i].agent)'
  <2>1. PICK a : a = prepared'[i].agent
    OBVIOUS
  <2>2. a = prepared[i + n].agent /\ i + n \in DOMAIN prepared
    BY <1>10, <2>1
  <2>3. a \in Active \/ Excused(a)
    BY <2>2 DEF DoersOK, Doers
  <2>4. a \in Active' \/ Excused(a)'
    <3>1. CASE Excused(a)
      BY <1>0, <3>1, ExcusedStays
    <3>2. CASE a \in Active /\ ~ Sacrifice
      <4>1. ~ Midday
        BY <1>1 DEF Resolving, Midday
      <4>. QED BY <1>0, <3>2, <4>1, SacrificesStay
    <3>3. CASE a \in Active /\ Sacrifice
      <4>1. PICK q \in Nat :
                /\ DOMAIN sacrifices = 1 .. q /\ DOMAIN sacrifices' = 1 .. q + 1
                /\ \A k \in 1 .. q : sacrifices'[k] = sacrifices[k]
                /\ sacrifices'[q + 1] = [who |-> prepared[1].agent, day |-> Day,
                                         place |-> prepared[1].place]
                /\ Active' = Active \ {prepared[1].agent}
        BY <3>3, SacrificeIs
      <4>2. CASE a # prepared[1].agent
        BY <3>3, <4>1, <4>2
      <4>3. CASE a = prepared[1].agent
        <5>1. n = 1 /\ Fatal(1) /\ 1 < i + 1 /\ 1 \in DOMAIN prepared
          BY <1>1, <1>0, <1>6, <3>3, FirstDeedIs
        <5>2. Preceded(1) \/ Today(prepared[1].place)
          BY <1>2, <2>2, <4>3, <5>1 DEF Foreseen
        <5>3. ~ Preceded(1)
          BY DEF Preceded
        <5>4. PICK x \in DOMAIN sacrifices :
                  sacrifices[x].day = Day /\ sacrifices[x].place = prepared[1].place
          BY <5>2, <5>3 DEF Today
        <5>5. /\ x \in DOMAIN sacrifices' /\ q + 1 \in DOMAIN sacrifices' /\ x < q + 1
              /\ sacrifices'[x] = sacrifices[x]
          BY <4>1, <5>4
        <5>6. /\ sacrifices'[q + 1].who = a
              /\ sacrifices'[x].day = sacrifices'[q + 1].day
              /\ sacrifices'[x].place = sacrifices'[q + 1].place
          BY <4>1, <4>3, <5>4, <5>5
        <5>. QED BY <5>5, <5>6 DEF Excused
      <4>. QED BY <4>2, <4>3
    <3>. QED BY <2>3, <3>1, <3>2, <3>3
  <2>. QED BY <2>1, <2>4 DEF Excused
<1>18. \A i \in DOMAIN prepared' :
          prepared'[i].agent \in Active' \/ Excused(prepared[i].agent)'
  BY <1>8, <1>17
<1>19. ASSUME NEW a \in Doers'
       PROVE  a \in Active' \/ Excused(a)'
  <2>1. PICK i \in DOMAIN prepared' : a = prepared'[i].agent
    BY <1>19 DEF Doers
  <2>. QED BY <1>18, <2>1 DEF Excused
<1>. QED BY <1>1, <1>11, <1>16, <1>19 DEF DoersOK, Turning

LEMMA DoersStep ==
    ASSUME RosterFits, TownOK, HistoryOK, DoersOK, [Next]_vars
    PROVE  DoersOK'
<1>0. RoundOK /\ TurnsOK /\ PlacesOK /\ DeedsOK
  BY DEF TownOK
<1>1. CASE Decide \/ MindFails
  BY <1>0, <1>1, DoersOfATurn
<1>2. CASE TurnStreamed
  BY <1>0, <1>2, DoersOfAStream
<1>3. CASE Converse \/ Clash \/ Act \/ Sacrifice
  BY <1>3, DoersOfAResolution
<1>4. CASE BeginActions("dawn", "morning") \/ BeginActions("midday", "afternoon") \/ EndActions
  <2>1. prepared' = <<>>
    BY <1>4 DEF BeginActions, EndActions
  <2>. QED BY <2>1, DoersIdle
<1>5. CASE StartRound \/ PlanArrives \/ Dawn \/ Midday \/ NightFalls \/ Reflect \/ Finalise
  <2>1. phase \notin DOMAIN PerAgent \/ at = "done"
    BY <1>5 DEF StartRound, PlanArrives, Dawn, Midday, NightFalls, Reflect, Finalise, PerAgent
  <2>2. prepared = <<>>
    BY <1>0, <2>1 DEF DeedsOK
  <2>3. prepared' = prepared
    BY <1>5 DEF StartRound, PlanArrives, Dawn, Midday, NightFalls, Reflect, Finalise, engine
  <2>. QED BY <2>2, <2>3, DoersIdle
<1>6. CASE Inject \/ PlanApproved \/ UNCHANGED vars
  <2>1. UNCHANGED <<prepared, status, sacrifices, phase, at, round>>
    BY <1>6 DEF Inject, PlanApproved, vars, engine, people, history
  <2>2. /\ Active' = Active /\ Doers' = Doers /\ Turning' = Turning
        /\ TheirLast' = TheirLast /\ InGroups' = InGroups
    BY <2>1 DEF Active, Doers, Turning, TheirLast, InGroups, Fatal
  <2>3. Foreseen => Foreseen'
    BY <2>1 DEF Foreseen, Preceded, Today, Day, Fatal
  <2>4. \A a \in Doers : a \in Active \/ Excused(a) => a \in Active' \/ Excused(a)'
    BY <2>1, <2>2 DEF Excused
  <2>. QED BY <2>1, <2>2, <2>3, <2>4 DEF DoersOK
<1>. QED BY <1>1, <1>2, <1>3, <1>4, <1>5, <1>6 DEF Next

(* Only those who act enter a place.                                           *)
LEMMA GoneOfAnEntry ==
    ASSUME RosterFits, TownOK, HistoryOK, DoersOK, GoneOK, [Next]_vars,
           ~ Midday, ~ Sacrifice, NEW entering, entering \subseteq Doers,
           NEW place \in Places, occupancy' = Entering(entering, place)
    PROVE  GoneOK'
<1>1. occupancy \in [Places -> SUBSET Agents] /\ RoundOK
  BY DEF TownOK, PlacesOK
<1>2. \A p \in Places : occupancy'[p] \subseteq occupancy[p] \union Doers
  BY <1>1 DEF Entering
<1>3. Active' = Active
  BY <1>1, SacrificesStay
<1>4. ASSUME NEW p \in Places, NEW a \in occupancy'[p]
      PROVE  a \in Active' \/ Excused(a)'
  <2>1. a \in Active \/ Excused(a)
    BY <1>2, <1>4 DEF GoneOK, DoersOK
  <2>2. Excused(a) => Excused(a)'
    BY ExcusedStays
  <2>. QED BY <1>3, <2>1, <2>2
<1>. QED BY <1>4 DEF GoneOK

LEMMA GoneStep ==
    ASSUME RosterFits, TownOK, HistoryOK, DoersOK, GoneOK, [Next]_vars
    PROVE  GoneOK'
<1>0. RoundOK /\ PeopleOK /\ DeedsOK /\ occupancy \in [Places -> SUBSET Agents]
  BY DEF TownOK, PlacesOK
<1>1. CASE Converse
  <2>1. Resolving /\ ~ Midday /\ ~ Sacrifice
    BY <1>1 DEF Converse, Resolving, Midday, Sacrifice
  <2>2. PICK talkers \in SUBSET Agents :
            talkers \subseteq Doers /\ occupancy' = Entering(talkers, prepared[1].place)
    BY <1>0, <1>1, ConverseIs
  <2>3. PICK place \in Places : place = prepared[1].place
    BY <1>0, <2>1, FirstDeedIs
  <2>. QED BY <2>1, <2>2, <2>3, GoneOfAnEntry
<1>2. CASE Clash
  <2>1. Resolving /\ ~ Midday /\ ~ Sacrifice
    BY <1>2 DEF Clash, Contested, Resolving, Midday, Sacrifice
  <2>2. PICK winners \in SUBSET (1 .. Len(Group)) :
            occupancy' = Entering({Group[w].agent : w \in winners}, prepared[1].place)
    BY <1>2 DEF Clash, kSubset
  <2>3. prepared \in Seq(Deeds) /\ prepared # <<>>
    BY <1>0, <2>1 DEF DeedsOK, Resolving
  <2>4. /\ Len(Group) \in 1 .. Len(prepared)
        /\ \A i \in 1 .. Len(Group) : Group[i] = prepared[i]
    BY <2>3, GroupIs
  <2>5. DOMAIN prepared = 1 .. Len(prepared) /\ Len(prepared) \in Nat
    BY <2>3, LenProperties
  <2>6. \A w \in winners : w \in DOMAIN prepared /\ Group[w] = prepared[w]
    BY <2>4, <2>5
  <2>7. PICK S : S = {Group[w].agent : w \in winners}
    OBVIOUS
  <2>8. S \subseteq Doers
    BY <2>6, <2>7 DEF Doers
  <2>9. PICK place \in Places : place = prepared[1].place
    BY <1>0, <2>1, FirstDeedIs
  <2>. QED BY <2>1, <2>2, <2>7, <2>8, <2>9, GoneOfAnEntry
<1>3. CASE Act
  <2>1. Resolving /\ ~ Midday /\ ~ Sacrifice
    BY <1>3 DEF Act, Resolving, Midday, Sacrifice
  <2>2. occupancy' = Entering({prepared[1].agent}, prepared[1].place)
    BY <1>3 DEF Act
  <2>3. PICK place \in Places : place = prepared[1].place
    BY <1>0, <2>1, FirstDeedIs
  <2>4. PICK S : S = {prepared[1].agent}
    OBVIOUS
  <2>5. S \subseteq Doers
    BY <1>0, <2>1, <2>4, FirstDeedIs DEF Doers
  <2>. QED BY <2>1, <2>2, <2>3, <2>4, <2>5, GoneOfAnEntry
<1>4. CASE Sacrifice
  <2>1. PICK a : a = prepared[1].agent
    OBVIOUS
  <2>2. occupancy' = [p \in Places |-> occupancy[p] \ {a}]
    BY <1>4, <2>1 DEF Sacrifice
  <2>3. Active' = Active \ {a}
    BY <1>4, <2>1, SacrificeIs
  <2>4. ASSUME NEW p \in Places, NEW b \in occupancy'[p]
        PROVE  b \in Active' \/ Excused(b)'
    <3>1. b \in occupancy[p] /\ b # a
      BY <2>2, <2>4
    <3>2. b \in Active \/ Excused(b)
      BY <3>1 DEF GoneOK
    <3>3. Excused(b) => Excused(b)'
      BY ExcusedStays
    <3>. QED BY <2>3, <3>1, <3>2, <3>3
  <2>. QED BY <2>4 DEF GoneOK
<1>5. CASE Midday
  <2>1. PICK out :
            /\ status' = [a \in Agents |-> IF a = out THEN "exiled" ELSE status[a]]
            /\ occupancy' = [p \in Places |->
                  (occupancy[p] \union (IF p = "town_hall" THEN Active ELSE {})) \ {out}]
    BY <1>5 DEF Midday
  <2>2. Active' = Active \ {out}
    BY <2>1 DEF Active
  <2>3. ASSUME NEW p \in Places, NEW b \in occupancy'[p]
        PROVE  b \in Active' \/ Excused(b)'
    <3>1. b \in occupancy[p] \union Active /\ b # out
      BY <2>1, <2>3
    <3>2. b \in Active \/ Excused(b)
      BY <3>1 DEF GoneOK
    <3>3. Excused(b) => Excused(b)'
      BY ExcusedStays
    <3>. QED BY <2>2, <3>1, <3>2, <3>3
  <2>. QED BY <2>3 DEF GoneOK
<1>6. CASE ~ (Converse \/ Clash \/ Act \/ Sacrifice \/ Midday)
  <2>1. occupancy' = occupancy
    BY <1>6 DEF Next, vars, world, Inject, PlanApproved, StartRound, PlanArrives, Dawn, Decide,
                MindFails, Turn, BeginActions, TurnStreamed, EndActions, NightFalls, Reflect,
                Finalise
  <2>2. Active' = Active
    BY <1>0, <1>6, SacrificesStay
  <2>3. ASSUME NEW p \in Places, NEW b \in occupancy'[p]
        PROVE  b \in Active' \/ Excused(b)'
    <3>1. b \in Active \/ Excused(b)
      BY <2>1, <2>3 DEF GoneOK
    <3>2. Excused(b) => Excused(b)'
      BY ExcusedStays
    <3>. QED BY <2>2, <3>1, <3>2
  <2>. QED BY <2>3 DEF GoneOK
<1>. QED BY <1>1, <1>2, <1>3, <1>4, <1>5, <1>6

LEMMA GoneInit == Init => DoersOK /\ GoneOK
<1>. SUFFICES ASSUME Init PROVE DoersOK /\ GoneOK
  OBVIOUS
<1>1. /\ prepared = <<>> /\ phase = "none" /\ at = "done"
      /\ occupancy = [p \in Places |-> {}]
  BY DEF Init
<1>2. Doers = {}
  BY <1>1, EmptySeq DEF Doers
<1>. QED BY <1>1, <1>2 DEF DoersOK, GoneOK, Turning, PerAgent

(* If the histories are as long as the roster, nobody who has left is listed  *)
(* anywhere, except after two sacrifices of one day at one place, which put   *)
(* the second agent's earlier action behind its death.                        *)
THEOREM NobodyHauntsAPlace ==
    ASSUME RosterFits
    PROVE  Spec => []DepartedAreGone
<1>1. Init => HistoryOK /\ DoersOK /\ GoneOK
  BY HistoryInit, GoneInit
<1>2. TownOK /\ HistoryOK /\ DoersOK /\ GoneOK /\ [Next]_vars => HistoryOK' /\ DoersOK' /\ GoneOK'
  BY HistoryStep, DoersStep, GoneStep
<1>3. TownOK /\ GoneOK => DepartedAreGone
  <2>. SUFFICES ASSUME TownOK, GoneOK, NEW a \in UNION {occupancy[p] : p \in Places}
                PROVE  status[a] = "active" \/ Excused(a)
    BY DEF DepartedAreGone, Excused
  <2>1. PICK p \in Places : a \in occupancy[p]
    OBVIOUS
  <2>. QED BY <2>1 DEF GoneOK, Active
<1>. QED BY <1>1, <1>2, <1>3, TownStands, PTL DEF Spec
=============================================================================
