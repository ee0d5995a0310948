---------------------------- MODULE YearBooksProofs ----------------------------
(***************************************************************************)
(* Proofs about YearBooks, for every calendar, catalogue of policies,      *)
(* carryover setting, set of requests and number of years its assumptions  *)
(* allow.                                                                  *)
(***************************************************************************)
EXTENDS YearBooks, OrderLemmas, SequenceTheorems

--------------------------------------------------------------------------------
(* Folds *)

\* The years of s settled one after the other.
SettledInTurn(e, k, d, settings, s) ==
  FoldLeft(LAMBDA x, y : Settled(x, k, y, d, settings), e, s)

\* The books h[i] after the first i of them.
SettlingStages(h, E, e, k, d, settings, s) ==
  /\ h \in [0..Len(s) -> E]
  /\ h[0] = e
  /\ \A i \in 1..Len(s) : h[i] = Settled(h[i - 1], k, s[i], d, settings)
  /\ h[Len(s)] = SettledInTurn(e, k, d, settings, s)

LEMMA SettlingByStages ==
  ASSUME NEW E, NEW D, NEW k, NEW d, NEW settings, NEW e \in E, NEW s \in Seq(D),
         \A v \in E, y \in D : Settled(v, k, y, d, settings) \in E
  PROVE  \E h : SettlingStages(h, E, e, k, d, settings, s)
<1> DEFINE n == Len(s)
           G == [i \in 1..n |-> [v \in E |-> Settled(v, k, s[i], d, settings)]]
           iter == CHOOSE iter : iter = [t \in SUBSET (1..n) |->
                     IF t = {} THEN e ELSE Settled(iter[t \ {Max(t)}], k, s[Max(t)], d, settings)]
           h == [i \in 0..n |-> iter[1..i]]
<1>1. n \in Nat /\ DOMAIN s = 1..n /\ \A i \in 1..n : s[i] \in D
  OBVIOUS
<1>2. SettledInTurn(e, k, d, settings, s) = iter[1..n]
  BY <1>1 DEF SettledInTurn, FoldLeft, MapThenFoldSet
<1>3. \A t \in SUBSET (1..n) : t # {} => Max(t) \in 1..n /\ t \ {Max(t)} \in SUBSET (1..n)
  <2>1. IsFiniteSet(1..n) /\ 1..n \subseteq Nat
    BY <1>1, FS_Interval
  <2>2. ASSUME NEW t \in SUBSET (1..n), t # {} PROVE Max(t) \in t
    <3>1. IsFiniteSet(t) /\ t \subseteq Nat
      BY <2>1, FS_Subset
    <3> QED BY <2>2, <3>1, MaxIn
  <2> QED BY <2>2
<1>4. G \in [1..n -> [E -> E]]
  BY <1>1
<1>5. PICK f : FoldOf(f, E, e, n, G)
  <2> HIDE DEF G, n
  <2> QED BY <1>1, <1>4, FoldIsDefined
<1>6. f = [t \in SUBSET (1..n) |->
             IF t = {} THEN e ELSE Settled(f[t \ {Max(t)}], k, s[Max(t)], d, settings)]
  BY <1>3, <1>5 DEF FoldOf
<1>7. iter = [t \in SUBSET (1..n) |->
                IF t = {} THEN e ELSE Settled(iter[t \ {Max(t)}], k, s[Max(t)], d, settings)]
  BY <1>6
<1>8. iter[1..0] = e
  <2>1. 1..0 = {} /\ {} \in SUBSET (1..n)
    OBVIOUS
  <2> HIDE DEF iter
  <2> QED BY <1>7, <2>1
<1>9. \A i \in 1..n : iter[1..i] = Settled(iter[1..(i - 1)], k, s[i], d, settings)
  <2> HIDE DEF iter, n
  <2>1. ASSUME NEW i \in 1..n
        PROVE  iter[1..i] = Settled(iter[1..(i - 1)], k, s[i], d, settings)
    <3>1. /\ Max(1..i) = i /\ (1..i) \ {i} = 1..(i - 1)
          /\ 1..i \in SUBSET (1..n) /\ 1..i # {}
      BY <1>1, Prefix
    <3>2. iter[1..i] = IF 1..i = {} THEN e
                       ELSE Settled(iter[(1..i) \ {Max(1..i)}], k, s[Max(1..i)], d, settings)
      BY <1>7, <3>1
    <3> QED BY <3>1, <3>2
  <2> QED BY <2>1
<1>10. /\ h[0] = e /\ h[n] = iter[1..n]
       /\ \A i \in 1..n : h[i] = Settled(h[i - 1], k, s[i], d, settings)
  <2>1. \A i \in 1..n : i - 1 \in 0..n /\ i \in 0..n
    BY <1>1
  <2>2. 0 \in 0..n /\ n \in 0..n
    BY <1>1
  <2> HIDE DEF iter, n
  <2> QED BY <1>8, <1>9, <2>1, <2>2
<1>11. \A i \in 0..n : h[i] \in E
  <2>1. ASSUME NEW i \in 1..n, h[i - 1] \in E PROVE h[i] \in E
    <3> HIDE DEF h, n, iter
    <3> QED BY <1>1, <1>10, <2>1
  <2> HIDE DEF h, n, iter
  <2> QED BY <1>1, <1>10, <2>1, StagesKeep
<1>12. h \in [0..n -> E]
  BY <1>11
<1>13. SettlingStages(h, E, e, k, d, settings, s)
  <2> HIDE DEF h, iter
  <2> QED BY <1>2, <1>10, <1>12 DEF SettlingStages
<1> HIDE DEF h
<1> QED BY <1>13

--------------------------------------------------------------------------------
(* The calendar *)

LEMMA DivMod ==
  ASSUME NEW a \in Int, NEW b \in Nat \ {0}
  PROVE  /\ a \div b \in Int /\ a % b \in 0..(b - 1)
         /\ a = b * (a \div b) + (a % b)
  OBVIOUS

LEMMA DivIs ==
  ASSUME NEW a \in Int, NEW b \in Nat \ {0}, NEW q \in Int, NEW r \in 0..(b - 1), a = b * q + r
  PROVE  a \div b = q
  OBVIOUS

LEMMA DivMonotone ==
  ASSUME NEW a \in Int, NEW c \in Int, a <= c, NEW b \in Nat \ {0}
  PROVE  a \div b <= c \div b
  OBVIOUS

LEMMA YearsAreLong ==
  /\ DatesPerYear \in Nat \ {0} /\ DatesPerMonth \in Nat \ {0} /\ MonthsPerYear \in Nat \ {0}
  /\ DatesPerYear = DatesPerMonth * MonthsPerYear
  BY CalendarAssumption DEF DatesPerYear

LEMMA DatesAreDays ==
  /\ Dates \subseteq Nat /\ NoDate \in Int /\ NoDate \notin Dates
  /\ Years \subseteq Nat /\ LastYear \in Years /\ IsFiniteSet(Dates)
  /\ \A d \in Int : d \in Dates <=> 0 <= d /\ d < DatesPerYear * (LastYear + 1)
<1>1. LastOfYear(LastYear) = DatesPerYear * (LastYear + 1) - 1 /\ LastOfYear(LastYear) \in Int
  BY YearsAreLong, HorizonAssumption DEF LastOfYear, FirstOfYear, FirstOfMonth
<1>2. IsFiniteSet(Dates)
  BY <1>1, FS_Interval DEF Dates
<1>3. DatesPerYear * (LastYear + 1) \in Int
  BY YearsAreLong, HorizonAssumption
<1>4. \A d \in Int : d \in Dates <=> 0 <= d /\ d < DatesPerYear * (LastYear + 1)
  <2> DEFINE bound == DatesPerYear * (LastYear + 1)
  <2>1. LastOfYear(LastYear) = bound - 1 /\ bound \in Int
    BY <1>1, <1>3
  <2>2. \A d \in Int : d \in Dates <=> 0 <= d /\ d <= LastOfYear(LastYear)
    BY <1>1 DEF Dates
  <2> HIDE DEF bound
  <2>3. \A d \in Int : d \in Dates <=> 0 <= d /\ d < bound
    BY <2>1, <2>2
  <2> QED BY <2>3 DEF bound
<1>5. Dates \subseteq Nat /\ NoDate \in Int /\ NoDate \notin Dates
  BY <1>1 DEF Dates, NoDate
<1>6. Years \subseteq Nat /\ LastYear \in Years
  BY HorizonAssumption DEF Years
<1> QED BY <1>2, <1>4, <1>5, <1>6

LEMMA YearsAreNumbers ==
  /\ \A y \in Years : y \in Int /\ 0 <= y /\ y <= LastYear
  /\ \A d \in Dates : d \in Int /\ 0 <= d
  /\ LastYear \in Int /\ \A y \in Int : 0 <= y /\ y <= LastYear => y \in Years
<1>1. Dates \subseteq Nat
  BY DatesAreDays
<1> QED BY <1>1, HorizonAssumption DEF Years

LEMMA YearOfAny ==
  ASSUME NEW d \in Int
  PROVE  /\ YearOf(d) \in Int /\ MonthOf(d) \in 1..MonthsPerYear
         /\ EffectiveMonth(d) \in 1..(MonthsPerYear + 1)
<1>1. YearOf(d) \in Int /\ d % DatesPerYear \in 0..(DatesPerYear - 1)
  BY YearsAreLong, DivMod DEF YearOf
<1> DEFINE r == d % DatesPerYear
<1>2. (DatesPerYear - 1) \div DatesPerMonth = MonthsPerYear - 1
  <2>1. DatesPerYear - 1 = DatesPerMonth * (MonthsPerYear - 1) + (DatesPerMonth - 1)
    BY YearsAreLong
  <2>2. MonthsPerYear - 1 \in Int /\ DatesPerMonth - 1 \in 0..(DatesPerMonth - 1)
        /\ DatesPerYear - 1 \in Int
    BY YearsAreLong
  <2> QED BY <2>1, <2>2, YearsAreLong, DivIs
<1>3. 0 \div DatesPerMonth = 0
  BY YearsAreLong
<1>4. r \div DatesPerMonth \in 0..(MonthsPerYear - 1)
  <2>1. r \in Int /\ 0 <= r /\ r <= DatesPerYear - 1 /\ DatesPerYear - 1 \in Int
    BY <1>1, YearsAreLong
  <2> HIDE DEF r
  <2>2. r \div DatesPerMonth \in Int
    BY <2>1, YearsAreLong, DivMod
  <2>3. 0 \div DatesPerMonth <= r \div DatesPerMonth
    BY <2>1, YearsAreLong, DivMonotone
  <2>4. r \div DatesPerMonth <= (DatesPerYear - 1) \div DatesPerMonth
    BY <2>1, YearsAreLong, DivMonotone
  <2> QED BY <1>2, <1>3, <2>2, <2>3, <2>4, YearsAreLong
<1>5. MonthOf(d) \in 1..MonthsPerYear
  BY <1>4, YearsAreLong DEF MonthOf
<1>6. EffectiveMonth(d) \in 1..(MonthsPerYear + 1)
  BY <1>5, YearsAreLong DEF EffectiveMonth
<1> QED BY <1>1, <1>5, <1>6

LEMMA YearOfDate ==
  ASSUME NEW d \in Dates
  PROVE  YearOf(d) \in Years
<1>1. d \in Int /\ 0 <= d /\ d <= DatesPerYear * LastYear + (DatesPerYear - 1)
  BY DatesAreDays, YearsAreLong, HorizonAssumption DEF Years
<1>2. (DatesPerYear * LastYear + (DatesPerYear - 1)) \div DatesPerYear = LastYear
  <2>1. DatesPerYear - 1 \in 0..(DatesPerYear - 1) /\ LastYear \in Int
        /\ DatesPerYear * LastYear + (DatesPerYear - 1) \in Int
    BY YearsAreLong, HorizonAssumption
  <2> QED BY <2>1, YearsAreLong, DivIs
<1>3. 0 \div DatesPerYear = 0
  BY YearsAreLong
<1>4. DatesPerYear * LastYear + (DatesPerYear - 1) \in Int
  BY YearsAreLong, HorizonAssumption
<1>5. 0 \div DatesPerYear <= d \div DatesPerYear
  BY <1>1, YearsAreLong, DivMonotone
<1>6. d \div DatesPerYear <= (DatesPerYear * LastYear + (DatesPerYear - 1)) \div DatesPerYear
  BY <1>1, <1>4, YearsAreLong, DivMonotone
<1>7. d \div DatesPerYear \in Int
  BY <1>1, YearsAreLong, DivMod
<1> QED BY <1>2, <1>3, <1>5, <1>6, <1>7, HorizonAssumption DEF YearOf, Years

LEMMA YearsMonotone ==
  ASSUME NEW a \in Int, NEW b \in Int, a <= b
  PROVE  /\ YearOf(a) <= YearOf(b)
         /\ YearOf(a) = YearOf(b) => MonthOf(a) <= MonthOf(b)
<1>1. YearOf(a) <= YearOf(b)
  BY YearsAreLong, DivMonotone DEF YearOf
<1>2. ASSUME YearOf(a) = YearOf(b) PROVE MonthOf(a) <= MonthOf(b)
  <2>1. /\ a = DatesPerYear * YearOf(a) + (a % DatesPerYear)
        /\ b = DatesPerYear * YearOf(b) + (b % DatesPerYear)
        /\ a % DatesPerYear \in Int /\ b % DatesPerYear \in Int /\ YearOf(a) \in Int
    <3>1. /\ a \div DatesPerYear \in Int /\ a % DatesPerYear \in 0..(DatesPerYear - 1)
          /\ a = DatesPerYear * (a \div DatesPerYear) + (a % DatesPerYear)
      BY YearsAreLong, DivMod
    <3>2. /\ b % DatesPerYear \in 0..(DatesPerYear - 1)
          /\ b = DatesPerYear * (b \div DatesPerYear) + (b % DatesPerYear)
      BY YearsAreLong, DivMod
    <3>3. \A x \in 0..(DatesPerYear - 1) : x \in Int
      BY YearsAreLong
    <3> QED BY <3>1, <3>2, <3>3 DEF YearOf
  <2>2. DatesPerYear * YearOf(a) \in Int /\ DatesPerYear * YearOf(a) = DatesPerYear * YearOf(b)
    BY <1>2, <2>1, YearsAreLong
  <2>3. a % DatesPerYear <= b % DatesPerYear
    <3> DEFINE c == DatesPerYear * YearOf(a)
               x == a % DatesPerYear
               y == b % DatesPerYear
    <3>1. a = c + x /\ b = c + y /\ c \in Int /\ x \in Int /\ y \in Int
      BY <2>1, <2>2
    <3> HIDE DEF c, x, y
    <3>2. x <= y
      BY <3>1
    <3> QED BY <3>2 DEF x, y
  <2>4. (a % DatesPerYear) \div DatesPerMonth <= (b % DatesPerYear) \div DatesPerMonth
    BY <2>1, <2>3, YearsAreLong, DivMonotone
  <2>5. (a % DatesPerYear) \div DatesPerMonth \in Int /\ (b % DatesPerYear) \div DatesPerMonth \in Int
    BY <2>1, YearsAreLong, DivMod
  <2> QED BY <2>4, <2>5 DEF MonthOf
<1> QED BY <1>1, <1>2

LEMMA FirstOfMonthIs ==
  ASSUME NEW y \in Years, NEW m \in 1..MonthsPerYear
  PROVE  FirstOfMonth(y, m) \in Dates /\ YearOf(FirstOfMonth(y, m)) = y
<1> DEFINE r == DatesPerMonth * (m - 1)
<1>1. r \in 0..(DatesPerYear - 1)
  <2>1. m - 1 \in Nat /\ m - 1 <= MonthsPerYear - 1 /\ MonthsPerYear - 1 \in Int
    BY YearsAreLong
  <2>2. r \in Int /\ r >= 0 /\ r <= DatesPerMonth * (MonthsPerYear - 1)
    BY <2>1, YearsAreLong
  <2>3. DatesPerMonth * (MonthsPerYear - 1) = DatesPerYear - DatesPerMonth
    BY YearsAreLong
  <2> HIDE DEF r
  <2> QED BY <2>2, <2>3, YearsAreLong
<1>2. FirstOfMonth(y, m) = DatesPerYear * y + r /\ y \in Int /\ DatesPerYear * y + r \in Int
  BY <1>1, YearsAreLong, DatesAreDays DEF FirstOfMonth
<1>3. YearOf(FirstOfMonth(y, m)) = y
  <2> HIDE DEF r
  <2> QED BY <1>1, <1>2, YearsAreLong, DivIs DEF YearOf
<1>4. DatesPerYear * y >= 0 /\ DatesPerYear * y <= DatesPerYear * LastYear
  BY YearsAreLong, HorizonAssumption DEF Years
<1>5. DatesPerYear * (LastYear + 1) = DatesPerYear * LastYear + DatesPerYear
  BY YearsAreLong, HorizonAssumption
<1>6. FirstOfMonth(y, m) \in Dates
  <2> HIDE DEF r
  <2>1. DatesPerYear * y \in Int /\ DatesPerYear * LastYear \in Int
    BY YearsAreLong, HorizonAssumption DEF Years
  <2> QED BY <1>1, <1>2, <1>4, <1>5, <2>1, YearsAreLong, DatesAreDays
<1> QED BY <1>3, <1>6

--------------------------------------------------------------------------------
(* What a year should have accrued *)

Anchors == Dates \cup {NoDate}

Rosters == Seq(Membership) \ {<<>>}

LEMMA MaxOfTwo ==
  ASSUME NEW a \in Int, NEW b \in Int
  PROVE  /\ Max({a, b}) = IF a >= b THEN a ELSE b
         /\ Min({a, b}) = IF a <= b THEN a ELSE b
<1>1. {a, b} \subseteq Int
  OBVIOUS
<1>2. Max({a, b}) = IF a >= b THEN a ELSE b
  <2>1. CASE a >= b
    <3>1. \A y \in {a, b} : y <= a
      BY <2>1
    <3> QED BY <1>1, <2>1, <3>1, MaxIs
  <2>2. CASE ~(a >= b)
    <3>1. \A y \in {a, b} : y <= b
      BY <2>2
    <3> QED BY <1>1, <2>2, <3>1, MaxIs
  <2> QED BY <2>1, <2>2
<1>3. Min({a, b}) = IF a <= b THEN a ELSE b
  <2>1. CASE a <= b
    <3>1. \A y \in {a, b} : a <= y
      BY <2>1
    <3> QED BY <1>1, <2>1, <3>1, MinIs
  <2>2. CASE ~(a <= b)
    <3>1. \A y \in {a, b} : b <= y
      BY <2>2
    <3> QED BY <1>1, <2>2, <3>1, MinIs
  <2> QED BY <2>1, <2>2
<1> QED BY <1>2, <1>3

LEMMA AnchorsAreNumbers ==
  ASSUME NEW anchor \in Anchors
  PROVE  anchor \in Int /\ YearOf(anchor) \in Int
<1>1. anchor \in Int
  BY DatesAreDays DEF Anchors
<1> QED BY <1>1, YearOfAny

LEMMA HireMonthIs ==
  ASSUME NEW anchor \in Anchors, NEW y \in Years
  PROVE  HireMonth(anchor, y) \in 1..(MonthsPerYear + 1)
<1>1. EffectiveMonth(anchor) \in 1..(MonthsPerYear + 1)
  BY AnchorsAreNumbers, YearOfAny
<1>2. 1 \in 1..(MonthsPerYear + 1)
  BY YearsAreLong
<1> QED BY <1>1, <1>2 DEF HireMonth

LEMMA MonthsEarnedIs ==
  ASSUME NEW anchor \in Anchors, NEW y \in Years, NEW d \in Dates
  PROVE  LET h == HireMonth(anchor, y)
             n == MonthsEarned(anchor, y, d)
         IN  /\ n \in Nat
             /\ anchor # NoDate /\ YearOf(anchor) < y /\ y <= YearOf(d) => n >= 1
             /\ n > 0 => /\ anchor # NoDate /\ YearOf(anchor) <= y /\ y <= YearOf(d)
                         /\ h + n - 1 \in 1..MonthsPerYear
                         /\ y = YearOf(d) => h + n - 1 <= MonthOf(d)
<1> DEFINE h == HireMonth(anchor, y)
           end == IF y < YearOf(d) THEN MonthsPerYear ELSE MonthOf(d)
           n == MonthsEarned(anchor, y, d)
<1>1. h \in 1..(MonthsPerYear + 1)
  BY HireMonthIs
<1>2. /\ d \in Int /\ YearOf(d) \in Int /\ MonthOf(d) \in 1..MonthsPerYear /\ y \in Int
      /\ YearOf(anchor) \in Int
  BY DatesAreDays, YearOfAny, AnchorsAreNumbers
<1>3. end \in 1..MonthsPerYear
  BY <1>2, YearsAreLong
<1>4. Max({0, end - h + 1}) = IF 0 >= end - h + 1 THEN 0 ELSE end - h + 1
  <2>1. end - h + 1 \in Int
    BY <1>1, <1>3, YearsAreLong
  <2> HIDE DEF end, h
  <2> QED BY <2>1, MaxOfTwo
<1>5. n = IF anchor = NoDate \/ y > YearOf(d) \/ YearOf(anchor) > y THEN 0
          ELSE IF 0 >= end - h + 1 THEN 0 ELSE end - h + 1
  BY <1>4 DEF MonthsEarned
<1>6. YearOf(anchor) < y => h = 1
  BY <1>2 DEF HireMonth
<1>7. y = YearOf(d) => end = MonthOf(d)
  BY <1>2
<1> HIDE DEF n, h, end
<1>8. n \in Nat
  BY <1>1, <1>3, <1>5, YearsAreLong
<1>9. anchor # NoDate /\ YearOf(anchor) < y /\ y <= YearOf(d) => n >= 1
  BY <1>2, <1>3, <1>5, <1>6, YearsAreLong
<1>10. n > 0 => /\ anchor # NoDate /\ YearOf(anchor) <= y /\ y <= YearOf(d)
                /\ h + n - 1 = end
  BY <1>1, <1>2, <1>3, <1>5, YearsAreLong
<1>11. n > 0 => /\ h + n - 1 \in 1..MonthsPerYear
                /\ y = YearOf(d) => h + n - 1 <= MonthOf(d)
  BY <1>2, <1>3, <1>7, <1>10
<1> QED BY <1>8, <1>9, <1>10, <1>11 DEF n, h

LEMMA MonthsEarnedGrow ==
  ASSUME NEW anchor \in Anchors, NEW y \in Years, NEW c \in Dates, NEW d \in Dates, c <= d
  PROVE  MonthsEarned(anchor, y, c) <= MonthsEarned(anchor, y, d)
<1> DEFINE h == HireMonth(anchor, y)
           End(x) == IF y < YearOf(x) THEN MonthsPerYear ELSE MonthOf(x)
<1>1. h \in 1..(MonthsPerYear + 1)
  BY HireMonthIs
<1>2. /\ c \in Int /\ YearOf(c) \in Int /\ MonthOf(c) \in 1..MonthsPerYear
      /\ d \in Int /\ YearOf(d) \in Int /\ MonthOf(d) \in 1..MonthsPerYear
      /\ y \in Int /\ YearOf(anchor) \in Int
  BY DatesAreDays, YearOfAny, AnchorsAreNumbers
<1>3. YearOf(c) <= YearOf(d) /\ (YearOf(c) = YearOf(d) => MonthOf(c) <= MonthOf(d))
  BY <1>2, YearsMonotone
<1>4. End(c) \in 1..MonthsPerYear /\ End(d) \in 1..MonthsPerYear
  BY <1>2, YearsAreLong
<1>5. y <= YearOf(c) => End(c) <= End(d)
  BY <1>2, <1>3, YearsAreLong
<1>6. \A x \in {c, d} : MonthsEarned(anchor, y, x) =
        IF anchor = NoDate \/ y > YearOf(x) \/ YearOf(anchor) > y THEN 0
        ELSE IF 0 >= End(x) - h + 1 THEN 0 ELSE End(x) - h + 1
  <2> SUFFICES ASSUME NEW x \in {c, d}
               PROVE  Max({0, End(x) - h + 1}) = IF 0 >= End(x) - h + 1 THEN 0 ELSE End(x) - h + 1
    BY DEF MonthsEarned
  <2>1. End(x) - h + 1 \in Int
    BY <1>1, <1>4, YearsAreLong
  <2> HIDE DEF End, h
  <2> QED BY <2>1, MaxOfTwo
<1> HIDE DEF End, h
<1> QED BY <1>1, <1>2, <1>3, <1>4, <1>5, <1>6, YearsAreLong

LEMMA RostersAre ==
  ASSUME NEW rows \in Rosters
  PROVE  /\ DOMAIN rows = 1..Len(rows) /\ Len(rows) \in Nat \ {0} /\ 1 \in DOMAIN rows
         /\ \A i \in DOMAIN rows : rows[i] \in Membership /\ rows[i].policy \in Policies
                                     /\ rows[i].from \in Dates /\ rows[i].to \in Anchors
<1>1. DOMAIN rows = 1..Len(rows) /\ Len(rows) \in Nat \ {0}
  BY DEF Rosters
<1>2. \A i \in DOMAIN rows : rows[i] \in Membership
  BY <1>1 DEF Rosters
<1> QED BY <1>1, <1>2 DEF Membership, Anchors

LEMMA OwnerIs ==
  ASSUME NEW rows \in Rosters, NEW y, NEW m
  PROVE  Owner(rows, y, m) \in Policies
<1> DEFINE S == {i \in DOMAIN rows : i = 1 \/ StartMonth(rows, i, y) <= m}
<1>1. S \subseteq 1..Len(rows) /\ 1 \in S /\ S \subseteq Nat
  BY RostersAre
<1>2. IsFiniteSet(S)
  BY <1>1, RostersAre, FS_Interval, FS_Subset
<1>3. Max(S) \in S
  <2> HIDE DEF S
  <2> QED BY <1>1, <1>2, MaxIn
<1>4. Max(S) \in DOMAIN rows
  BY <1>3
<1> QED BY <1>4, RostersAre DEF Owner

LEMMA RateIs ==
  ASSUME NEW p \in Policies, NEW anchor \in Anchors, NEW y \in Years
  PROVE  VacationRate(p, anchor, y) \in Nat
<1> DEFINE t == Terms[p]
           steps == IF anchor = NoDate \/ y < HireYear(anchor) THEN 0
                    ELSE (y - HireYear(anchor)) \div t.every
<1>1. /\ t.vacation \in Nat /\ t.raise \in Nat /\ t.every \in Nat \ {0}
      /\ t.cap = NoCap \/ t.cap \in Nat
  BY TermsAssumption DEF PolicyTerms
<1>2. steps \in Nat
  <2>1. CASE anchor = NoDate \/ y < HireYear(anchor)
    BY <2>1
  <2>2. CASE ~(anchor = NoDate \/ y < HireYear(anchor))
    <3> DEFINE x == y - HireYear(anchor)
    <3>1. x \in Int /\ 0 <= x
      BY <2>2, AnchorsAreNumbers, DatesAreDays DEF HireYear
    <3> DEFINE v == t.every
    <3>2. v \in Nat \ {0}
      BY <1>1
    <3> HIDE DEF x, v
    <3>3. x \div v \in Int
      BY <3>1, <3>2, DivMod
    <3>4. 0 \div v <= x \div v
      BY <3>1, <3>2, DivMonotone
    <3>5. 0 \div v = 0
      BY <3>2
    <3>6. x \div t.every \in Nat
      BY <3>3, <3>4, <3>5 DEF v
    <3> QED BY <2>2, <3>6 DEF x
  <2> QED BY <2>1, <2>2
<1>3. t.raise * steps \in Nat
  <2> HIDE DEF steps, t
  <2> QED BY <1>1, <1>2
<1>4. t.vacation + t.raise * steps \in Nat
  <2> HIDE DEF steps, t
  <2> QED BY <1>1, <1>3
<1> QED BY <1>1, <1>4 DEF VacationRate

\* What a function takes on a finite set is a finite set.
LEMMA ImageIsFinite ==
  ASSUME NEW S, IsFiniteSet(S), NEW f, DOMAIN f = S, NEW T, T = {f[x] : x \in S}
  PROVE  IsFiniteSet(T)
<1> DEFINE g == [x \in S |-> f[x]]
<1>1. g \in Surjection(S, T)
  BY DEF Surjection
<1> QED BY <1>1, FS_Surjection

LEMMA EarningsAreFinite ==
  ASSUME NEW rows \in Rosters, NEW anchor \in Anchors, NEW y \in Years,
         NEW months, IsFiniteSet(months)
  PROVE  /\ IsFiniteSet(Earnings(rows, anchor, y, months))
         /\ EarnedVacation(rows, anchor, y, months) \in Nat
<1> DEFINE f == [m \in months |-> {m} \X (1..VacationRate(Owner(rows, y, m), anchor, y))]
           T == {f[m] : m \in months}
<1>1. \A m \in months : IsFiniteSet(f[m])
  <2> SUFFICES ASSUME NEW m \in months
               PROVE  IsFiniteSet({m} \X (1..VacationRate(Owner(rows, y, m), anchor, y)))
    OBVIOUS
  <2>1. VacationRate(Owner(rows, y, m), anchor, y) \in Int /\ 1 \in Int
    BY OwnerIs, RateIs
  <2>2. IsFiniteSet(1..VacationRate(Owner(rows, y, m), anchor, y))
    BY <2>1, FS_Interval
  <2> QED BY <2>2, FS_Singleton, FS_Product
<1>2. IsFiniteSet(T)
  <2>1. DOMAIN f = months
    OBVIOUS
  <2> HIDE DEF f
  <2> QED BY <2>1, ImageIsFinite
<1>3. IsFiniteSet(UNION T)
  <2> HIDE DEF f
  <2> QED BY <1>1, <1>2, FS_UNION
<1>4. UNION T = Earnings(rows, anchor, y, months)
  BY DEF Earnings
<1> QED BY <1>3, <1>4, FS_CardinalityType DEF EarnedVacation

LEMMA EarningsGrow ==
  ASSUME NEW rows \in Rosters, NEW anchor \in Anchors, NEW y \in Years,
         NEW B, IsFiniteSet(B), NEW A, A \subseteq B
  PROVE  EarnedVacation(rows, anchor, y, A) <= EarnedVacation(rows, anchor, y, B)
<1>1. Earnings(rows, anchor, y, A) \subseteq Earnings(rows, anchor, y, B)
  BY DEF Earnings
<1> QED BY <1>1, EarningsAreFinite, FS_Subset DEF EarnedVacation

LEMMA TrancheIs ==
  ASSUME NEW rows \in Rosters, NEW y, NEW h \in 1..(MonthsPerYear + 1), NEW last
  PROVE  SickTranche(rows, y, h, last) \in Nat
<1>1. Terms[Owner(rows, y, last)].sick \in Nat
  BY OwnerIs, TermsAssumption DEF PolicyTerms
<1>2. MonthsPerYear + 1 - h \in Nat
  BY YearsAreLong
<1> QED BY <1>1, <1>2 DEF SickTranche

\* What the months of a year earn, apart from what was carried or entered.
Earned(k, rows, anchor, y, h, n) ==
  LET last == Min({h + n - 1, MonthsPerYear})
  IN  IF k = "sick" THEN SickTranche(rows, y, h, last)
      ELSE EarnedVacation(rows, anchor, y, h..last)

LEMMA EarnedIs ==
  ASSUME NEW k, NEW rows \in Rosters, NEW anchor \in Anchors, NEW y \in Years,
         NEW h \in 1..(MonthsPerYear + 1), NEW n \in Nat
  PROVE  Earned(k, rows, anchor, y, h, n) \in Nat
<1>1. h + n - 1 \in Int /\ MonthsPerYear \in Int
  BY YearsAreLong
<1>2. Min({h + n - 1, MonthsPerYear}) \in Int
  BY <1>1, MaxOfTwo
<1>3. IsFiniteSet(h..Min({h + n - 1, MonthsPerYear}))
  BY <1>2, FS_Interval
<1> QED BY <1>3, EarningsAreFinite, TrancheIs DEF Earned

LEMMA EarnedGrows ==
  ASSUME NEW rows \in Rosters, NEW anchor \in Anchors, NEW y \in Years,
         NEW h \in 1..(MonthsPerYear + 1), NEW m \in Nat, NEW n \in Nat, m <= n
  PROVE  Earned("vacation", rows, anchor, y, h, m) <= Earned("vacation", rows, anchor, y, h, n)
<1> DEFINE a == Min({h + m - 1, MonthsPerYear})
           b == Min({h + n - 1, MonthsPerYear})
<1>1. a \in Int /\ b \in Int /\ a <= b
  <2>1. h + m - 1 \in Int /\ h + n - 1 \in Int /\ h + m - 1 <= h + n - 1 /\ MonthsPerYear \in Int
    BY YearsAreLong
  <2>2. a = (IF h + m - 1 <= MonthsPerYear THEN h + m - 1 ELSE MonthsPerYear)
    BY <2>1, MaxOfTwo
  <2>3. b = (IF h + n - 1 <= MonthsPerYear THEN h + n - 1 ELSE MonthsPerYear)
    BY <2>1, MaxOfTwo
  <2> HIDE DEF a, b
  <2> QED BY <2>1, <2>2, <2>3
<1>2. h..a \subseteq h..b /\ IsFiniteSet(h..b)
  <2> HIDE DEF a, b
  <2> QED BY <1>1, FS_Interval
<1>3. EarnedVacation(rows, anchor, y, h..a) <= EarnedVacation(rows, anchor, y, h..b)
  <2> HIDE DEF a, b
  <2> QED BY <1>2, EarningsGrow
<1> QED BY <1>3 DEF Earned

LEMMA PieceIs ==
  ASSUME NEW k, NEW rows, NEW anchor, NEW y, NEW c, NEW h, NEW n, NEW v
  PROVE  PieceTarget(k, rows, anchor, y, c, h, n, v) =
           IF n <= 0 THEN v ELSE Earned(k, rows, anchor, y, h, n) + c + v
  BY DEF PieceTarget, Earned

LEMMA KeptIs ==
  ASSUME NEW k, NEW x \in Int, NEW s \in CarryoverSettings, NEW base \in Int
  PROVE  Kept(k, x, s, base) \in Nat /\ Kept(k, x, s, base) <= Max({0, x})
<1> DEFINE rest == Max({0, x})
           share(z) == WholeDays((z * s.cap) \div 100)
           ceiling ==
             CASE s.mode = "none"             -> 0
               [] s.mode = "full"             -> rest
               [] s.mode = "days"             -> OneDay * s.cap
               [] s.mode = "percent"          -> share(rest)
               [] s.mode = "percent_of_total" -> Max({0, share(base)})
<1>1. rest \in Nat
  BY MaxOfTwo
<1>2. s.cap \in Nat /\ s.mode \in CarryoverModes
  BY DEF CarryoverSettings
<1>3. OneDay \in Nat \ {0}
  BY YearsAreLong DEF OneDay
<1>4. ASSUME NEW z \in Int PROVE share(z) \in Int /\ (z >= 0 => share(z) >= 0)
  <2> DEFINE w == (z * s.cap) \div 100
  <2>1. z * s.cap \in Int /\ (z >= 0 => z * s.cap >= 0)
    BY <1>2
  <2>2. w \in Int /\ (z >= 0 => w >= 0)
    BY <2>1
  <2> HIDE DEF w
  <2>3. w \div OneDay \in Int
    BY <1>3, <2>2, DivMod
  <2>4. 0 \div OneDay = 0
    BY <1>3
  <2>5. z >= 0 => 0 \div OneDay <= w \div OneDay
    BY <1>3, <2>2, DivMonotone
  <2>6. OneDay * (w \div OneDay) \in Int /\ (z >= 0 => OneDay * (w \div OneDay) >= 0)
    BY <1>3, <2>3, <2>4, <2>5
  <2> QED BY <2>6 DEF w, WholeDays
<1>5. ceiling \in Nat
  <2>1. OneDay * s.cap \in Nat
    BY <1>2, <1>3
  <2>2. share(rest) \in Nat
    <3> HIDE DEF share, rest
    <3> QED BY <1>1, <1>4
  <2>3. Max({0, share(base)}) \in Nat
    <3> HIDE DEF share
    <3> QED BY <1>4, MaxOfTwo
  <2> HIDE DEF share, rest
  <2> QED BY <1>1, <1>2, <2>1, <2>2, <2>3 DEF CarryoverModes
<1>6. Kept(k, x, s, base) = IF k = "sick" THEN 0 ELSE Min({rest, ceiling})
  BY DEF Kept
<1> HIDE DEF rest, ceiling
<1>7. Min({rest, ceiling}) = IF rest <= ceiling THEN rest ELSE ceiling
  BY <1>1, <1>5, MaxOfTwo
<1>8. Kept(k, x, s, base) \in Nat /\ Kept(k, x, s, base) <= rest
  BY <1>1, <1>5, <1>6, <1>7
<1> QED BY <1>8 DEF rest

--------------------------------------------------------------------------------
(* The invariant *)

Entries == [type : LeaveTypes, date : Int, kind : {"accrual", "close", "spent"}]

\* Books in the middle of a transaction: a balance may be below nothing, and the
\* ledger holds what has been posted so far.
Drafts ==
  [ anchor    : Anchors,
    rows      : Rosters,
    accrued   : PerYear(Int),
    made      : PerYear(BOOLEAN),
    carried   : PerYear(Nat),
    finalized : PerYear(BOOLEAN),
    closed    : PerYear(BOOLEAN),
    manual    : PerYear(Int),
    requests  : [RequestIds -> Requests],
    ledger    : Seq(Entries) ]

\* What year y should have accrued by date d.
Goal(e, k, y, d) ==
  TargetAt(k, e.rows, e.anchor, y, e.carried[k][y], e.manual[k][y], d)

\* A year is closed after its own carryover has been settled, and together with
\* the settling of the next year's.
ClosedInOrder(e) ==
  \A k \in LeaveTypes, y \in Years :
    e.closed[k][y] => /\ Created <= y /\ y + 1 \in Years
                      /\ e.finalized[k][y] /\ e.finalized[k][y + 1]

\* Nothing is settled, accrued or adjusted ahead of its year, nor carried before
\* it is settled.
NothingEarly(e, d) ==
  \A k \in LeaveTypes, y \in Years :
    /\ e.closed[k][y] => y < YearOf(d)
    /\ e.finalized[k][y] => y <= YearOf(d)
    /\ ~e.finalized[k][y] => e.carried[k][y] = 0
    /\ y > YearOf(d) => e.accrued[k][y] = 0 /\ e.manual[k][y] = 0

\* A year that is open holds at least what was entered by hand and, of vacation,
\* at most its target; what is left of the vacation of a closed year and what it
\* passed on were within its target together.
Within(e, d, k, y) ==
  /\ ~e.closed[k][y] => e.manual[k][y] <= e.accrued[k][y]
  /\ k = "vacation" =>
       /\ ~e.closed[k][y] => e.accrued[k][y] <= Goal(e, k, y, d)
       /\ e.closed[k][y] => e.accrued[k][y] + e.carried[k][y + 1] <= Goal(e, k, y, d)

\* So it is from the year since on, but for some years of some types.
SoundBut(e, d, since, exempt) ==
  /\ ClosedInOrder(e)
  /\ NothingEarly(e, d)
  /\ \A k \in LeaveTypes, y \in Years :
       y >= since /\ <<k, y>> \notin exempt => Within(e, d, k, y)

Sound(e, d, since) == SoundBut(e, d, since, {})

\* The memberships follow each other without a gap from the year the account was
\* created in; the last one is open, and only it may lie ahead.
Timeline(rows, d) ==
  /\ rows[1].from = FirstOfYear(Created)
  /\ \A i \in DOMAIN rows :
       /\ rows[i].to = NoDate <=> i = Len(rows)
       /\ i < Len(rows) => /\ rows[i].from <= rows[i + 1].from
                           /\ rows[i].to = rows[i + 1].from
                           /\ rows[i].from <= d

Corrected == Edited({"corrected date"})

Inv ==
  /\ TypeOK
  /\ employee \in Drafts
  /\ Timeline(employee.rows, now)
  /\ Sound(employee, now, YearOf(now))
  /\ ~Corrected => Sound(employee, now, Created)

--------------------------------------------------------------------------------
(* Drafts and their targets *)

LEMMA DraftsAre ==
  ASSUME NEW e \in Drafts, NEW k \in LeaveTypes, NEW y \in Years
  PROVE  /\ e.anchor \in Anchors /\ e.rows \in Rosters
         /\ e.accrued[k][y] \in Int /\ e.carried[k][y] \in Nat /\ e.manual[k][y] \in Int
         /\ e.made[k][y] \in BOOLEAN /\ e.finalized[k][y] \in BOOLEAN /\ e.closed[k][y] \in BOOLEAN
  BY DEF Drafts, PerYear

LEMMA GoalIs ==
  ASSUME NEW e \in Drafts, NEW k \in LeaveTypes, NEW y \in Years, NEW d \in Dates
  PROVE  LET h == HireMonth(e.anchor, y)
             n == MonthsEarned(e.anchor, y, d)
         IN  /\ Goal(e, k, y, d) \in Int
             /\ e.manual[k][y] <= Goal(e, k, y, d)
             /\ n = 0 => Goal(e, k, y, d) = e.manual[k][y]
             /\ n # 0 => Goal(e, k, y, d) =
                           Earned(k, e.rows, e.anchor, y, h, n) + e.carried[k][y] + e.manual[k][y]
<1> DEFINE h == HireMonth(e.anchor, y)
           n == MonthsEarned(e.anchor, y, d)
           w == Earned(k, e.rows, e.anchor, y, h, n)
<1>1. Goal(e, k, y, d) = IF n <= 0 THEN e.manual[k][y] ELSE w + e.carried[k][y] + e.manual[k][y]
  BY PieceIs DEF Goal, TargetAt
<1>2. n \in Nat /\ h \in 1..(MonthsPerYear + 1)
  BY DraftsAre, MonthsEarnedIs, HireMonthIs
<1>3. w \in Nat
  <2> HIDE DEF h, n
  <2> QED BY <1>2, DraftsAre, EarnedIs
<1> HIDE DEF w, n, h
<1>4. e.carried[k][y] \in Nat /\ e.manual[k][y] \in Int
  BY DraftsAre
<1>5. n = 0 => Goal(e, k, y, d) = e.manual[k][y]
  BY <1>1, <1>2
<1>6. n # 0 => Goal(e, k, y, d) = w + e.carried[k][y] + e.manual[k][y]
  BY <1>1, <1>2
<1>7. Goal(e, k, y, d) \in Int /\ e.manual[k][y] <= Goal(e, k, y, d)
  BY <1>3, <1>4, <1>5, <1>6
<1> QED BY <1>5, <1>6, <1>7 DEF w, n, h

\* What each employed month of a year brings it to lies between what was entered
\* by hand and, for vacation, the target of the day.
LEMMA TargetsAre ==
  ASSUME NEW e \in Drafts, NEW k \in LeaveTypes, NEW y \in Years, NEW at \in Dates, NEW d \in Dates,
         at <= d
  PROVE  LET t == Targets(e, k, y, at)
             n == MonthsEarned(e.anchor, y, at)
         IN  /\ n \in Nat /\ DOMAIN t = 1..n
             /\ y > YearOf(at) => n = 0
             /\ n > 0 => t[n] = Goal(e, k, y, at)
             /\ \A i \in 1..n : /\ t[i] \in Int /\ e.manual[k][y] <= t[i]
                                /\ k = "vacation" => t[i] <= Goal(e, k, y, d)
<1> DEFINE h == HireMonth(e.anchor, y)
           n == MonthsEarned(e.anchor, y, at)
           m == MonthsEarned(e.anchor, y, d)
           t == Targets(e, k, y, at)
           W(i) == Earned(k, e.rows, e.anchor, y, h, i)
<1>1. n \in Nat /\ m \in Nat /\ n <= m /\ h \in 1..(MonthsPerYear + 1) /\ (n > 0 => y <= YearOf(at))
  BY DraftsAre, MonthsEarnedIs, MonthsEarnedGrow, HireMonthIs
<1>2. y > YearOf(at) => n = 0
  <2>1. y \in Int /\ YearOf(at) \in Int
    BY DatesAreDays, YearOfAny
  <2> HIDE DEF n, m, h
  <2> QED BY <1>1, <2>1
<1>3. DOMAIN t = 1..n /\ \A i \in 1..n : t[i] = W(i) + e.carried[k][y] + e.manual[k][y]
  <2>1. DOMAIN t = 1..n
    BY DEF Targets
  <2>2. ASSUME NEW i \in 1..n PROVE t[i] = W(i) + e.carried[k][y] + e.manual[k][y]
    <3>1. t[i] = PieceTarget(k, e.rows, e.anchor, y, e.carried[k][y], h, i, e.manual[k][y])
      BY DEF Targets
    <3>2. ~(i <= 0)
      OBVIOUS
    <3> HIDE DEF t, h, n
    <3> QED BY <3>1, <3>2, PieceIs
  <2> QED BY <2>1, <2>2
<1>4. \A i \in 1..n : W(i) \in Nat
  <2> SUFFICES ASSUME NEW i \in 1..n PROVE W(i) \in Nat
    OBVIOUS
  <2>1. i \in Nat
    OBVIOUS
  <2> HIDE DEF h, n
  <2> QED BY <1>1, <2>1, DraftsAre, EarnedIs
<1>5. e.carried[k][y] \in Nat /\ e.manual[k][y] \in Int
  BY DraftsAre
<1>6. \A i \in 1..n : t[i] \in Int /\ e.manual[k][y] <= t[i]
  <2> HIDE DEF t, W, n
  <2> QED BY <1>3, <1>4, <1>5
<1>7. ASSUME n > 0 PROVE t[n] = Goal(e, k, y, at)
  <2>1. n \in 1..n /\ n # 0
    BY <1>1, <1>7
  <2>2. Goal(e, k, y, at) = W(n) + e.carried[k][y] + e.manual[k][y]
    BY <2>1, GoalIs
  <2> HIDE DEF t, W, n
  <2> QED BY <1>3, <2>1, <2>2
<1>8. ASSUME k = "vacation", NEW i \in 1..n PROVE t[i] <= Goal(e, k, y, d)
  <2>1. m # 0 /\ i \in Nat /\ i <= m
    BY <1>1
  <2>2. Goal(e, k, y, d) = W(m) + e.carried[k][y] + e.manual[k][y]
    BY <2>1, GoalIs
  <2>3. W(i) <= W(m)
    <3> HIDE DEF h, n, m
    <3> QED BY <1>1, <1>8, <2>1, DraftsAre, EarnedGrows
  <2>4. W(m) \in Nat
    <3> HIDE DEF h, n, m
    <3> QED BY <1>1, DraftsAre, EarnedIs
  <2> HIDE DEF t, W, n, m
  <2> QED BY <1>3, <1>4, <1>5, <2>2, <2>3, <2>4
<1> HIDE DEF t, n
<1>9. /\ n \in Nat /\ DOMAIN t = 1..n
      /\ y > YearOf(at) => n = 0
      /\ n > 0 => t[n] = Goal(e, k, y, at)
      /\ \A i \in 1..n : /\ t[i] \in Int /\ e.manual[k][y] <= t[i]
                         /\ k = "vacation" => t[i] <= Goal(e, k, y, d)
  BY <1>1, <1>2, <1>3, <1>6, <1>7, <1>8
<1> QED BY <1>9 DEF t, n

LEMMA GoalGrows ==
  ASSUME NEW e \in Drafts, NEW y \in Years, NEW c \in Dates, NEW d \in Dates, c <= d
  PROVE  Goal(e, "vacation", y, c) <= Goal(e, "vacation", y, d)
<1> DEFINE n == MonthsEarned(e.anchor, y, c)
           t == Targets(e, "vacation", y, c)
<1>1. "vacation" \in LeaveTypes
  BY DEF LeaveTypes
<1>2. /\ n \in Nat
      /\ n > 0 => t[n] = Goal(e, "vacation", y, c) /\ t[n] <= Goal(e, "vacation", y, d)
  BY <1>1, TargetsAre
<1>3. /\ n = 0 => Goal(e, "vacation", y, c) = e.manual["vacation"][y]
      /\ e.manual["vacation"][y] <= Goal(e, "vacation", y, d)
  BY <1>1, GoalIs
<1> HIDE DEF n, t
<1> QED BY <1>2, <1>3

\* The last of the months that raise a balance brings it above all the others.
LEMMA RaisingIs ==
  ASSUME NEW n \in Nat, NEW t, DOMAIN t = 1..n, \A i \in 1..n : t[i] \in Int, NEW start \in Int
  PROVE  LET R == Raising(t, start)
         IN  /\ R \subseteq 1..n /\ IsFiniteSet(R)
             /\ R = {} => \A i \in 1..n : t[i] <= start
             /\ R # {} => /\ Max(R) \in 1..n /\ start < t[Max(R)]
                          /\ \A i \in 1..n : t[i] <= t[Max(R)]
<1> DEFINE R == Raising(t, start)
<1>1. R \subseteq 1..n /\ IsFiniteSet(R) /\ R \subseteq Nat
  <2>1. R \subseteq 1..n
    BY DEF Raising
  <2>2. IsFiniteSet(1..n) /\ 1..n \subseteq Nat
    BY FS_Interval
  <2> HIDE DEF R
  <2> QED BY <2>1, <2>2, FS_Subset
<1>2. \A i \in 1..n : i \in R <=> t[i] > start /\ \A j \in 1..(i - 1) : t[i] > t[j]
  <2> SUFFICES ASSUME NEW i \in 1..n
               PROVE  (\A j \in 0..(i - 1) : t[i] > IF j = 0 THEN start ELSE t[j])
                      <=> t[i] > start /\ \A j \in 1..(i - 1) : t[i] > t[j]
    BY DEF Raising
  <2>1. 0 \in 0..(i - 1) /\ \A j \in 1..(i - 1) : j \in 0..(i - 1) /\ j # 0
    OBVIOUS
  <2>2. \A j \in 0..(i - 1) : j = 0 \/ j \in 1..(i - 1)
    OBVIOUS
  <2> QED BY <2>1, <2>2
<1>3. ASSUME NEW b \in Int, start <= b, \E i \in 1..n : t[i] > b
      PROVE  \E i \in R : t[i] > b /\ \A j \in 1..(i - 1) : t[j] <= b
  <2> DEFINE S == {i \in 1..n : t[i] > b}
  <2>1. S \subseteq Nat /\ S # {}
    BY <1>3
  <2>2. PICK i \in S : \A j \in S : i <= j
    <3> HIDE DEF S
    <3> QED BY <2>1, LeastNumber
  <2>3. \A j \in 1..(i - 1) : j \in 1..n /\ j \notin S
    BY <2>2
  <2>4. \A j \in 1..(i - 1) : t[j] <= b
    BY <2>3
  <2>5. i \in R
    BY <1>2, <1>3, <2>2, <2>3, <2>4
  <2> QED BY <2>2, <2>4, <2>5
<1>4. ASSUME R = {} PROVE \A i \in 1..n : t[i] <= start
  <2>1. start <= start /\ ~\E i \in 1..n : t[i] > start
    <3> HIDE DEF R
    <3> QED BY <1>3, <1>4
  <2> QED BY <2>1
<1>5. ASSUME R # {}
      PROVE  /\ Max(R) \in 1..n /\ start < t[Max(R)]
             /\ \A i \in 1..n : t[i] <= t[Max(R)]
  <2>1. Max(R) \in R /\ \A i \in R : i <= Max(R)
    <3> HIDE DEF R
    <3> QED BY <1>1, <1>5, MaxIn
  <2> DEFINE m == Max(R)
  <2>2. m \in 1..n /\ start < t[m] /\ t[m] \in Int
    <3> HIDE DEF R
    <3> QED BY <1>1, <1>2, <2>1
  <2>3. ~\E i \in 1..n : t[i] > t[m]
    <3> SUFFICES ASSUME \E i \in 1..n : t[i] > t[m] PROVE FALSE
      OBVIOUS
    <3>1. start <= t[m]
      BY <2>2
    <3>2. PICK i \in R : t[i] > t[m] /\ \A j \in 1..(i - 1) : t[j] <= t[m]
      <4> HIDE DEF R, m
      <4> QED BY <1>3, <2>2, <3>1
    <3>3. i \in 1..n /\ i <= m
      <4> HIDE DEF R
      <4> QED BY <1>1, <2>1, <3>2
    <3>4. i # m
      BY <2>2, <3>2
    <3>5. i \in 1..(m - 1)
      BY <2>2, <3>3, <3>4
    <3>6. t[m] > t[i]
      <4> HIDE DEF R, m
      <4> QED BY <1>2, <2>1, <2>2, <3>5 DEF m
    <3> QED BY <2>2, <3>2, <3>3, <3>6
  <2> QED BY <2>2, <2>3
<1> QED BY <1>1, <1>4, <1>5

--------------------------------------------------------------------------------
(* What a transaction does to the books                                    *)

\* What a year that was closed shows stays as it is.
BooksKept(e, f) ==
  \A k \in LeaveTypes, y \in Years :
    e.closed[k][y] => f.closed[k][y] /\ f.accrued[k][y] = e.accrued[k][y]

\* Reading the books brings them up to date and decides nothing.
Reads(e, f) ==
  /\ f.anchor = e.anchor /\ f.rows = e.rows /\ f.manual = e.manual
  /\ BooksKept(e, f)

Advance(e, f, d, since) == f \in Drafts /\ Sound(f, d, since) /\ Reads(e, f)

\* Of the figures, only those of leave type k move.
Only(e, f, k) ==
  \A j \in LeaveTypes \ {k}, y \in Years :
    /\ f.accrued[j][y] = e.accrued[j][y] /\ f.carried[j][y] = e.carried[j][y]
    /\ f.finalized[j][y] <=> e.finalized[j][y]
    /\ f.closed[j][y] <=> e.closed[j][y]

SameFigures(e, f) ==
  /\ f.anchor = e.anchor /\ f.rows = e.rows /\ f.manual = e.manual
  /\ f.accrued = e.accrued /\ f.carried = e.carried
  /\ f.finalized = e.finalized /\ f.closed = e.closed

LEMMA FiguresDecide ==
  ASSUME NEW e \in Drafts, NEW f \in Drafts, SameFigures(e, f), NEW d, NEW since
  PROVE  /\ Sound(e, d, since) => Advance(e, f, d, since)
         /\ \A k \in LeaveTypes : Only(e, f, k)
<1>1. \A k, y : Goal(f, k, y, d) = Goal(e, k, y, d)
  BY DEF Goal, SameFigures
<1>2. ASSUME Sound(e, d, since) PROVE Sound(f, d, since)
  BY <1>1, <1>2 DEF Sound, SoundBut, ClosedInOrder, NothingEarly, Within, SameFigures
<1> QED BY <1>2 DEF Advance, Reads, BooksKept, Only, SameFigures

LEMMA AdvanceInTurn ==
  ASSUME NEW e, NEW f, NEW g, NEW d, NEW since,
         Advance(e, f, d, since), Advance(f, g, d, since)
  PROVE  Advance(e, g, d, since)
  BY DEF Advance, Reads, BooksKept

LEMMA EnsuredIs ==
  ASSUME NEW e \in Drafts, NEW k \in LeaveTypes, NEW y \in Years
  PROVE  Ensured(e, k, y) \in Drafts /\ SameFigures(e, Ensured(e, k, y))
<1> DEFINE made == [e.made EXCEPT ![k][y] = TRUE]
<1>1. made \in PerYear(BOOLEAN)
  BY DEF Drafts, PerYear
<1>2. Ensured(e, k, y) = [e EXCEPT !.made = made]
  BY DEF Ensured, Drafts
<1> HIDE DEF made
<1> QED BY <1>1, <1>2 DEF Drafts, SameFigures

LEMMA PostedIs ==
  ASSUME NEW e \in Drafts, NEW k \in LeaveTypes, NEW kind \in {"accrual", "close", "spent"},
         NEW dates \in Seq(Int)
  PROVE  Posted(e, k, kind, dates) \in Drafts /\ SameFigures(e, Posted(e, k, kind, dates))
<1> DEFINE rows == [i \in DOMAIN dates |-> [type |-> k, date |-> dates[i], kind |-> kind]]
<1>1. rows \in Seq(Entries)
  <2>1. DOMAIN dates = 1..Len(dates) /\ Len(dates) \in Nat
    OBVIOUS
  <2>2. \A i \in 1..Len(dates) : dates[i] \in Int
    OBVIOUS
  <2>3. rows = [i \in 1..Len(dates) |-> [type |-> k, date |-> dates[i], kind |-> kind]]
    BY <2>1
  <2>4. \A i \in 1..Len(dates) : [type |-> k, date |-> dates[i], kind |-> kind] \in Entries
    BY <2>2 DEF Entries
  <2> HIDE DEF rows
  <2> QED BY <2>1, <2>3, <2>4
<1>2. e.ledger \in Seq(Entries)
  BY DEF Drafts
<1>3. e.ledger \o rows \in Seq(Entries)
  <2> HIDE DEF rows
  <2> QED BY <1>1, <1>2
<1>4. Posted(e, k, kind, dates) = [e EXCEPT !.ledger = e.ledger \o rows]
  BY DEF Posted, Drafts
<1> HIDE DEF rows
<1> QED BY <1>3, <1>4 DEF Drafts, SameFigures

\* The members of a finite set of numbers, in ascending order.
LEMMA InOrderIs ==
  ASSUME NEW S, IsFiniteSet(S), S \subseteq Int
  PROVE  LET s == InOrder(S)
         IN  /\ s \in Seq(S) /\ Len(s) = Cardinality(S)
             /\ \A x \in S : \E i \in 1..Len(s) : s[i] = x
             /\ \A i, j \in 1..Len(s) : i < j => s[i] < s[j]
<1> DEFINE n == Cardinality(S)
           UpTo(x) == {z \in S : z <= x}
           rank == [x \in S |-> Cardinality(UpTo(x))]
           s == InOrder(S)
<1>1. n \in Nat /\ IsFiniteSet(1..n) /\ Cardinality(1..n) = n
  <2>1. n \in Nat
    BY FS_CardinalityType
  <2> HIDE DEF n
  <2> QED BY <2>1, FS_Interval
<1>2. \A x \in S : /\ UpTo(x) \subseteq S /\ x \in UpTo(x) /\ IsFiniteSet(UpTo(x))
                   /\ rank[x] \in 1..n
  <2> SUFFICES ASSUME NEW x \in S
               PROVE  /\ UpTo(x) \subseteq S /\ x \in UpTo(x) /\ IsFiniteSet(UpTo(x))
                      /\ Cardinality(UpTo(x)) \in 1..n
    OBVIOUS
  <2>1. UpTo(x) \subseteq S /\ x \in UpTo(x)
    OBVIOUS
  <2> HIDE DEF UpTo
  <2>2. IsFiniteSet(UpTo(x)) /\ Cardinality(UpTo(x)) <= n /\ Cardinality(UpTo(x)) \in Nat
    BY <2>1, FS_Subset, FS_CardinalityType
  <2>3. Cardinality(UpTo(x)) # 0
    BY <2>1, <2>2, FS_EmptySet
  <2> HIDE DEF n
  <2> QED BY <1>1, <2>1, <2>2, <2>3
<1>3. \A x, y \in S : x < y => rank[x] < rank[y]
  <2> SUFFICES ASSUME NEW x \in S, NEW y \in S, x < y
               PROVE  Cardinality(UpTo(x)) < Cardinality(UpTo(y))
    OBVIOUS
  <2>4. x \in Int /\ y \in Int /\ \A z \in S : z \in Int
    OBVIOUS
  <2>5. y <= y /\ ~(y <= x) /\ \A z \in S : z <= x => z <= y
    BY <2>4
  <2>1. UpTo(x) \subseteq UpTo(y) /\ y \in UpTo(y) /\ y \notin UpTo(x)
    BY <2>5
  <2>2. IsFiniteSet(UpTo(x)) /\ IsFiniteSet(UpTo(y))
    BY <1>2
  <2> HIDE DEF UpTo
  <2>3. /\ Cardinality(UpTo(x)) <= Cardinality(UpTo(y))
        /\ Cardinality(UpTo(x)) # Cardinality(UpTo(y))
        /\ Cardinality(UpTo(x)) \in Nat /\ Cardinality(UpTo(y)) \in Nat
    BY <2>1, <2>2, FS_Subset, FS_CardinalityType
  <2> QED BY <2>3
<1>4. \A x, y \in S : rank[x] = rank[y] => x = y
  <2> SUFFICES ASSUME NEW x \in S, NEW y \in S, x # y PROVE rank[x] # rank[y]
    OBVIOUS
  <2>1. x < y \/ y < x
    OBVIOUS
  <2>2. rank[x] \in Int /\ rank[y] \in Int
    <3>1. rank[x] \in 1..n /\ rank[y] \in 1..n
      BY <1>2
    <3> HIDE DEF rank, n
    <3> QED BY <1>1, <3>1
  <2>3. rank[x] < rank[y] \/ rank[y] < rank[x]
    <3> HIDE DEF rank
    <3> QED BY <1>3, <2>1
  <2> HIDE DEF rank
  <2> QED BY <2>2, <2>3
<1>5. rank \in Injection(S, 1..n)
  <2>1. rank \in [S -> 1..n]
    BY <1>2
  <2> HIDE DEF rank
  <2> QED BY <1>4, <2>1 DEF Injection, IsInjective
<1>6. rank \in Surjection(S, 1..n)
  <2> HIDE DEF rank, n
  <2>1. Cardinality(S) = Cardinality(1..n)
    BY <1>1 DEF n
  <2> QED BY <1>1, <1>5, <2>1, FS_Injection
<1>7. \A i \in 1..n : \E x \in S : rank[x] = i
  <2> HIDE DEF rank, n
  <2> QED BY <1>6 DEF Surjection
<1>8. \A x \in S : rank[x] = Cardinality({z \in S : z <= x})
  OBVIOUS
<1>9. s = [i \in 1..n |-> CHOOSE x \in S : Cardinality({z \in S : z <= x}) = i]
  BY DEF InOrder
<1> HIDE DEF rank, n
<1>10. \A i \in 1..n : s[i] \in S /\ rank[s[i]] = i
  <2> SUFFICES ASSUME NEW i \in 1..n PROVE s[i] \in S /\ rank[s[i]] = i
    OBVIOUS
  <2>1. s[i] = CHOOSE x \in S : Cardinality({z \in S : z <= x}) = i
    BY <1>9
  <2>2. \E x \in S : Cardinality({z \in S : z <= x}) = i
    BY <1>7, <1>8
  <2>3. s[i] \in S /\ Cardinality({z \in S : z <= s[i]}) = i
    BY <2>1, <2>2
  <2> QED BY <1>8, <2>3
<1>11. s \in Seq(S) /\ Len(s) = n
  <2>1. DOMAIN s = 1..n
    BY <1>9
  <2> HIDE DEF s
  <2>2. s = [i \in 1..n |-> s[i]]
    BY <1>9, <2>1
  <2> QED BY <1>1, <1>10, <2>1, <2>2
<1>12. \A x \in S : \E i \in 1..n : s[i] = x
  <2> SUFFICES ASSUME NEW x \in S PROVE s[rank[x]] = x
    BY <1>2
  <2>1. rank[x] \in 1..n
    BY <1>2
  <2> QED BY <1>4, <1>10, <2>1
<1>13. \A i, j \in 1..n : i < j => s[i] < s[j]
  <2> SUFFICES ASSUME NEW i \in 1..n, NEW j \in 1..n, i < j PROVE s[i] < s[j]
    OBVIOUS
  <2>1. s[i] \in S /\ s[j] \in S /\ rank[s[i]] = i /\ rank[s[j]] = j
    BY <1>10
  <2>2. s[i] \in Int /\ s[j] \in Int
    BY <2>1
  <2>3. s[j] < s[i] => rank[s[j]] < rank[s[i]]
    BY <1>3, <2>1
  <2>4. i \in Int /\ j \in Int
    BY <1>1
  <2> HIDE DEF s
  <2>5. ~(s[j] < s[i]) /\ s[i] # s[j]
    BY <2>1, <2>3, <2>4
  <2> QED BY <2>2, <2>5
<1> QED BY <1>11, <1>12, <1>13 DEF n

LEMMA InOrderInts ==
  ASSUME NEW S, IsFiniteSet(S), S \subseteq Int
  PROVE  InOrder(S) \in Seq(Int)
<1> DEFINE s == InOrder(S)
<1>1. s \in Seq(S)
  BY InOrderIs
<1> HIDE DEF s
<1>2. Len(s) \in Nat /\ s \in [1..Len(s) -> S]
  BY <1>1
<1>3. s \in [1..Len(s) -> Int]
  BY <1>2
<1>4. s \in Seq(Int)
  BY <1>2, <1>3
<1> QED BY <1>4 DEF s

LEMMA FirstOfMonthBy ==
  ASSUME NEW y \in Years, NEW m \in 1..MonthsPerYear, NEW d \in Dates,
         y < YearOf(d) \/ (y = YearOf(d) /\ m <= MonthOf(d))
  PROVE  FirstOfMonth(y, m) <= d
<1> DEFINE x == FirstOfMonth(y, m)
           r == d % DatesPerYear
<1>1. x \in Dates /\ YearOf(x) = y /\ x \in Int /\ d \in Int /\ y \in Int /\ YearOf(d) \in Int
  <2>1. x \in Dates /\ YearOf(x) = y
    BY FirstOfMonthIs
  <2> HIDE DEF x
  <2> QED BY <2>1, DatesAreDays, YearOfAny
<1>2. CASE y < YearOf(d)
  <2>1. ~(d <= x)
    <3> HIDE DEF x
    <3> QED BY <1>1, <1>2, YearsMonotone
  <2> HIDE DEF x
  <2>2. x <= d
    BY <1>1, <2>1
  <2> QED BY <2>2 DEF x
<1>3. CASE y = YearOf(d) /\ m <= MonthOf(d)
  <2>1. d = DatesPerYear * y + r /\ r \in 0..(DatesPerYear - 1)
    BY <1>1, <1>3, YearsAreLong, DivMod DEF YearOf
  <2>2. m - 1 <= r \div DatesPerMonth /\ r \div DatesPerMonth \in Int
        /\ r = DatesPerMonth * (r \div DatesPerMonth) + (r % DatesPerMonth)
        /\ r % DatesPerMonth \in 0..(DatesPerMonth - 1)
    <3>1. r \in Int
      BY <2>1, YearsAreLong
    <3> HIDE DEF r
    <3>2. /\ r \div DatesPerMonth \in Int
          /\ r = DatesPerMonth * (r \div DatesPerMonth) + (r % DatesPerMonth)
          /\ r % DatesPerMonth \in 0..(DatesPerMonth - 1)
      BY <3>1, YearsAreLong, DivMod
    <3>3. MonthOf(d) = r \div DatesPerMonth + 1
      BY DEF MonthOf, r
    <3> QED BY <1>3, <3>2, <3>3, YearsAreLong
  <2>3. DatesPerMonth * (m - 1) <= DatesPerMonth * (r \div DatesPerMonth)
    <3> DEFINE q == r \div DatesPerMonth
    <3>1. q \in Int /\ m - 1 <= q /\ m - 1 \in Int
      BY <2>2, YearsAreLong
    <3> HIDE DEF q, r
    <3>2. DatesPerMonth * (m - 1) <= DatesPerMonth * q
      BY <3>1, YearsAreLong
    <3> QED BY <3>2 DEF q
  <2>4. DatesPerMonth * (m - 1) <= r
    <3> DEFINE q == DatesPerMonth * (r \div DatesPerMonth)
               z == r % DatesPerMonth
               w == DatesPerMonth * (m - 1)
    <3>1. q \in Int /\ z \in Int /\ z >= 0 /\ w \in Int /\ r = q + z /\ w <= q
      BY <2>2, <2>3, YearsAreLong
    <3> HIDE DEF q, r, z, w
    <3>2. w <= r
      BY <3>1
    <3> QED BY <3>2 DEF w
  <2>5. x = DatesPerYear * y + DatesPerMonth * (m - 1)
    BY DEF FirstOfMonth
  <2> DEFINE c == DatesPerYear * y
             w == DatesPerMonth * (m - 1)
  <2>6. c \in Int /\ w \in Int /\ w <= r /\ r \in Int /\ x = c + w /\ d = c + r
    BY <1>1, <2>1, <2>4, <2>5, YearsAreLong
  <2> HIDE DEF c, w, x, r
  <2>7. x <= d
    BY <2>6
  <2> QED BY <2>7 DEF x
<1> QED BY <1>2, <1>3

LEMMA OwedDatesAre ==
  ASSUME NEW e \in Drafts, NEW k \in LeaveTypes, NEW y \in Years, NEW at \in Dates
  PROVE  LET S == OwedDates(e, k, y, Targets(e, k, y, at))
         IN  S \subseteq Dates /\ IsFiniteSet(S) /\ S \subseteq Int /\ \A x \in S : x <= at
<1> DEFINE t == Targets(e, k, y, at)
           n == MonthsEarned(e.anchor, y, at)
           h == HireMonth(e.anchor, y)
           S == OwedDates(e, k, y, t)
<1>1. n \in Nat /\ DOMAIN t = 1..n
  <2>1. at <= at
    BY DatesAreDays
  <2> QED BY <2>1, TargetsAre
<1>2. Owed(e, k, y, t) \subseteq 1..n
  <2> HIDE DEF t, n
  <2> QED BY <1>1 DEF Owed, Raising
<1>3. h \in 1..(MonthsPerYear + 1)
  BY DraftsAre, HireMonthIs
<1>4. ASSUME NEW x \in S PROVE x \in Dates /\ x <= at
  <2>1. PICK i \in Owed(e, k, y, t) : x = FirstOfMonth(y, h + i - 1)
    BY DEF OwedDates
  <2>2. /\ n > 0 /\ i \in 1..n /\ y <= YearOf(at) /\ h + n - 1 \in 1..MonthsPerYear
        /\ y = YearOf(at) => h + n - 1 <= MonthOf(at)
    <3>1. i \in 1..n
      BY <1>2
    <3>2. n > 0
      <4> HIDE DEF n
      <4> QED BY <1>1, <3>1
    <3> QED BY <3>1, <3>2, DraftsAre, MonthsEarnedIs
  <2> DEFINE m == h + i - 1
  <2>3. m \in 1..MonthsPerYear /\ m <= h + n - 1 /\ m \in Int /\ h + n - 1 \in Int
    <3> HIDE DEF h, n
    <3> QED BY <1>1, <1>3, <2>2, YearsAreLong
  <2>4. y \in Int /\ YearOf(at) \in Int /\ MonthOf(at) \in Int
    BY DatesAreDays, YearOfAny, YearsAreLong
  <2>5. y < YearOf(at) \/ (y = YearOf(at) /\ m <= MonthOf(at))
    <3> HIDE DEF h, n, m
    <3> QED BY <2>2, <2>3, <2>4
  <2> HIDE DEF m
  <2>6. FirstOfMonth(y, m) \in Dates /\ FirstOfMonth(y, m) <= at
    BY <2>3, <2>5, FirstOfMonthBy, FirstOfMonthIs
  <2> QED BY <2>1, <2>6 DEF m
<1> HIDE DEF S
<1>5. S \subseteq Dates /\ IsFiniteSet(S)
  BY <1>4, DatesAreDays, FS_Subset
<1>6. S \subseteq Int /\ \A x \in S : x <= at
  BY <1>4, <1>5, DatesAreDays
<1>7. S \subseteq Dates /\ IsFiniteSet(S) /\ S \subseteq Int /\ \A x \in S : x <= at
  BY <1>5, <1>6
<1> QED BY <1>7 DEF S, t

LEMMA AvailableIs ==
  ASSUME NEW e \in Drafts, NEW k \in LeaveTypes, NEW y \in Years
  PROVE  Available(e, k, y) \in Int
<1> DEFINE A == UNION {InYear(e.requests[r].consumed \ e.requests[r].unpaid, y) : r \in OfType(e, k)}
           B == UNION {{r} \X InYear(RemainingPaid(e.requests[r]), y) : r \in OfType(e, k)}
<1>1. \A r \in OfType(e, k) : /\ r \in RequestIds
                              /\ e.requests[r].consumed \subseteq Dates
                              /\ e.requests[r].dates \subseteq Dates
  BY DEF OfType, Drafts, Requests
<1>2. A \subseteq Dates
  BY <1>1 DEF InYear
<1>3. B \subseteq RequestIds \X Dates
  BY <1>1 DEF InYear, RemainingPaid
<1>4. IsFiniteSet(RequestIds \X Dates)
  BY HorizonAssumption, DatesAreDays, FS_Product
<1>5. Cardinality(A) \in Nat
  <2> HIDE DEF A
  <2> QED BY <1>2, DatesAreDays, FS_Subset, FS_CardinalityType
<1>6. Cardinality(B) \in Nat
  <2> HIDE DEF B
  <2> QED BY <1>3, <1>4, FS_Subset, FS_CardinalityType
<1>7. OneDay \in Nat
  BY YearsAreLong DEF OneDay
<1>8. Spent(e, k, y) = OneDay * Cardinality(A) /\ Hold(e, k, y) = OneDay * Cardinality(B)
  BY DEF Spent, Hold
<1> HIDE DEF A, B
<1>9. Spent(e, k, y) \in Int /\ Hold(e, k, y) \in Int
  BY <1>5, <1>6, <1>7, <1>8
<1> QED BY <1>9, DraftsAre DEF Available

--------------------------------------------------------------------------------
(* The monthly accrual *)

\* Of the figures, at most the balance of type k in year y moves.
OnlyAccrued(e, f, k, y) ==
  /\ f.anchor = e.anchor /\ f.rows = e.rows /\ f.manual = e.manual
  /\ f.carried = e.carried /\ f.finalized = e.finalized /\ f.closed = e.closed
  /\ \A j \in LeaveTypes, z \in Years :
       <<j, z>> # <<k, y>> => f.accrued[j][z] = e.accrued[j][z]

\* No employed month of the year brings it above its balance.
Topped(e, k, y, d) ==
  ~e.closed[k][y] =>
    \A i \in DOMAIN Targets(e, k, y, d) : Targets(e, k, y, d)[i] <= e.accrued[k][y]

LEMMA SameGoal ==
  ASSUME NEW e, NEW f, NEW k, NEW y, NEW d,
         f.anchor = e.anchor, f.rows = e.rows, f.manual = e.manual, f.carried[k][y] = e.carried[k][y]
  PROVE  Goal(f, k, y, d) = Goal(e, k, y, d) /\ Targets(f, k, y, d) = Targets(e, k, y, d)
  BY DEF Goal, Targets

\* An open year may be set to anything between what was entered by hand and,
\* for vacation, its target.
LEMMA RaisedIs ==
  ASSUME NEW e \in Drafts, NEW f \in Drafts, NEW k \in LeaveTypes, NEW y \in Years,
         NEW d \in Dates, NEW since, NEW exempt, SoundBut(e, d, since, exempt),
         OnlyAccrued(e, f, k, y), ~e.closed[k][y], y <= YearOf(d),
         e.manual[k][y] <= f.accrued[k][y],
         k = "vacation" => f.accrued[k][y] <= Goal(e, k, y, d)
  PROVE  SoundBut(f, d, since, exempt \ {<<k, y>>}) /\ Reads(e, f) /\ Only(e, f, k)
<1>1. \A j \in LeaveTypes, z \in Years : Goal(f, j, z, d) = Goal(e, j, z, d)
  BY SameGoal DEF OnlyAccrued
<1>2. y \in Int /\ YearOf(d) \in Int
  BY DatesAreDays, YearOfAny
<1>3. ClosedInOrder(f)
  BY DEF ClosedInOrder, SoundBut, OnlyAccrued
<1>4. NothingEarly(f, d)
  <2>1. \A j \in LeaveTypes, z \in Years : z > YearOf(d) => f.accrued[j][z] = e.accrued[j][z]
    BY <1>2 DEF OnlyAccrued
  <2> QED BY <2>1 DEF NothingEarly, SoundBut, OnlyAccrued
<1>5. ASSUME NEW j \in LeaveTypes, NEW z \in Years, z >= since,
             <<j, z>> \notin exempt \ {<<k, y>>}
      PROVE  Within(f, d, j, z)
  <2>1. CASE <<j, z>> = <<k, y>>
    <3>1. j = k /\ z = y
      BY <2>1
    <3> QED BY <1>1, <3>1 DEF Within, OnlyAccrued
  <2>2. CASE <<j, z>> # <<k, y>>
    <3>1. Within(e, d, j, z)
      BY <1>5, <2>2 DEF SoundBut
    <3>2. f.accrued[j][z] = e.accrued[j][z]
      BY <2>2 DEF OnlyAccrued
    <3> QED BY <1>1, <3>1, <3>2 DEF Within, OnlyAccrued
  <2> QED BY <2>1, <2>2
<1>6. SoundBut(f, d, since, exempt \ {<<k, y>>})
  BY <1>3, <1>4, <1>5 DEF SoundBut
<1>7. Reads(e, f)
  <2>1. ASSUME NEW j \in LeaveTypes, NEW z \in Years, e.closed[j][z]
        PROVE  f.accrued[j][z] = e.accrued[j][z]
    <3>1. <<j, z>> # <<k, y>>
      BY <2>1
    <3> QED BY <3>1 DEF OnlyAccrued
  <2> QED BY <2>1 DEF Reads, BooksKept, OnlyAccrued
<1>8. Only(e, f, k)
  <2>1. \A j \in LeaveTypes \ {k}, z \in Years : <<j, z>> # <<k, y>>
    OBVIOUS
  <2> QED BY <2>1 DEF Only, OnlyAccrued
<1> QED BY <1>6, <1>7, <1>8

LEMMA AccruedSet ==
  ASSUME NEW e \in Drafts, NEW k \in LeaveTypes, NEW y \in Years, NEW v \in Int
  PROVE  LET f == [e EXCEPT !.accrued[k][y] = v]
         IN  f \in Drafts /\ OnlyAccrued(e, f, k, y) /\ f.accrued[k][y] = v
<1> DEFINE accrued == [e.accrued EXCEPT ![k][y] = v]
           f == [e EXCEPT !.accrued[k][y] = v]
<1>1. e.accrued \in PerYear(Int)
  BY DEF Drafts
<1>2. accrued \in PerYear(Int) /\ accrued[k][y] = v
  BY <1>1 DEF PerYear
<1>3. \A j \in LeaveTypes, z \in Years : <<j, z>> # <<k, y>> => accrued[j][z] = e.accrued[j][z]
  BY <1>1 DEF PerYear
<1>4. f = [e EXCEPT !.accrued = accrued]
  BY DEF Drafts
<1> HIDE DEF accrued
<1>5. f \in Drafts
  BY <1>2, <1>4 DEF Drafts
<1>6. /\ f.accrued = accrued /\ f.anchor = e.anchor /\ f.rows = e.rows /\ f.manual = e.manual
      /\ f.carried = e.carried /\ f.finalized = e.finalized /\ f.closed = e.closed
  BY <1>4 DEF Drafts
<1> HIDE DEF f
<1>7. OnlyAccrued(e, f, k, y) /\ f.accrued[k][y] = v
  BY <1>2, <1>3, <1>6 DEF OnlyAccrued
<1> QED BY <1>5, <1>7 DEF f

LEMMA SoundAt ==
  ASSUME NEW e \in Drafts, NEW k \in LeaveTypes, NEW y \in Years, NEW d, NEW since, Sound(e, d, since)
  PROVE  /\ e.closed[k][y] => y < YearOf(d) /\ Created <= y /\ y + 1 \in Years
                              /\ e.finalized[k][y] /\ e.finalized[k][y + 1]
         /\ e.finalized[k][y] => y <= YearOf(d)
         /\ ~e.finalized[k][y] => e.carried[k][y] = 0
         /\ y > YearOf(d) => e.accrued[k][y] = 0 /\ e.manual[k][y] = 0
         /\ y >= since => Within(e, d, k, y)
<1>1. <<k, y>> \notin {}
  OBVIOUS
<1> QED BY <1>1 DEF Sound, SoundBut, ClosedInOrder, NothingEarly

\* Accruing a year as of a date that has come raises its balance to the highest
\* target of its employed months, and moves nothing else.
LEMMA AccruedToIs ==
  ASSUME NEW e \in Drafts, NEW k \in LeaveTypes, NEW y \in Years, NEW at \in Dates, NEW d \in Dates,
         at <= d, NEW since, Sound(e, d, since)
  PROVE  LET f == AccruedTo(e, k, y, Targets(e, k, y, at))
         IN  /\ Advance(e, f, d, since) /\ OnlyAccrued(e, f, k, y)
             /\ Topped(f, k, y, at) /\ f.made = e.made
<1> DEFINE t == Targets(e, k, y, at)
           n == MonthsEarned(e.anchor, y, at)
           start == e.accrued[k][y]
           R == Raising(t, start)
           owed == Owed(e, k, y, t)
           f == AccruedTo(e, k, y, t)
<1>1. /\ n \in Nat /\ DOMAIN t = 1..n
      /\ y > YearOf(at) => n = 0
      /\ \A i \in 1..n : /\ t[i] \in Int /\ e.manual[k][y] <= t[i]
                         /\ k = "vacation" => t[i] <= Goal(e, k, y, d)
  BY TargetsAre
<1>2. start \in Int /\ e.manual[k][y] \in Int
  BY DraftsAre
<1>3. /\ R \subseteq 1..n
      /\ R = {} => \A i \in 1..n : t[i] <= start
      /\ R # {} => /\ Max(R) \in 1..n /\ start < t[Max(R)]
                   /\ \A i \in 1..n : t[i] <= t[Max(R)]
  <2> HIDE DEF t, n, start
  <2> QED BY <1>1, <1>2, RaisingIs
<1>4. owed = IF e.closed[k][y] THEN {} ELSE R
  BY DEF Owed
<1>5. CASE owed = {}
  <2>1. f = e
    BY <1>5 DEF AccruedTo
  <2>2. SameFigures(e, e)
    BY DEF SameFigures
  <2>3. Advance(e, e, d, since)
    BY <2>2, FiguresDecide
  <2>4. Topped(e, k, y, at)
    <3>1. ~e.closed[k][y] => \A i \in 1..n : t[i] <= start
      <4> HIDE DEF t, n, start, R, owed
      <4> QED BY <1>3, <1>4, <1>5
    <3> QED BY <1>1, <3>1 DEF Topped
  <2>5. OnlyAccrued(e, e, k, y)
    BY DEF OnlyAccrued
  <2> HIDE DEF f
  <2>6. Advance(e, f, d, since) /\ OnlyAccrued(e, f, k, y) /\ Topped(f, k, y, at) /\ f.made = e.made
    BY <2>1, <2>3, <2>4, <2>5
  <2> QED BY <2>6 DEF f
<1>6. CASE owed # {}
  <2> DEFINE v == t[Max(R)]
             dates == InOrder(OwedDates(e, k, y, t))
             p == Posted(e, k, "accrual", dates)
  <2>1. ~e.closed[k][y] /\ owed = R /\ R # {}
    BY <1>4, <1>6
  <2>2. /\ v \in Int /\ e.manual[k][y] <= v /\ start < v
        /\ k = "vacation" => v <= Goal(e, k, y, d)
        /\ \A i \in 1..n : t[i] <= v
    <3> HIDE DEF t, R, n, start
    <3> QED BY <1>1, <1>3, <2>1
  <2>3. y <= YearOf(d)
    <3>1. n # 0
      <4> HIDE DEF R, n, t
      <4> QED BY <1>1, <1>3, <2>1
    <3>2. y <= YearOf(at)
      <4>1. y \in Int /\ YearOf(at) \in Int
        BY DatesAreDays, YearOfAny
      <4> HIDE DEF n
      <4> QED BY <1>1, <3>1, <4>1
    <3>3. YearOf(at) <= YearOf(d) /\ YearOf(at) \in Int /\ YearOf(d) \in Int /\ y \in Int
      BY DatesAreDays, YearOfAny, YearsMonotone
    <3> QED BY <3>2, <3>3
  <2>4. dates \in Seq(Int)
    <3>1. OwedDates(e, k, y, t) \subseteq Int /\ IsFiniteSet(OwedDates(e, k, y, t))
      BY OwedDatesAre
    <3> HIDE DEF t
    <3> QED BY <3>1, InOrderInts
  <2>5. p \in Drafts /\ SameFigures(e, p) /\ p.made = e.made
    <3>1. p \in Drafts /\ SameFigures(e, p)
      <4> HIDE DEF dates
      <4> QED BY <2>4, PostedIs
    <3>2. p.made = e.made
      <4> HIDE DEF dates
      <4> QED BY DEF Posted, Drafts
    <3> QED BY <3>1, <3>2
  <2>6. f = [p EXCEPT !.accrued[k][y] = v]
    BY <1>6, <2>1 DEF AccruedTo
  <2> HIDE DEF f, p, v, t, n, start, R, owed, dates
  <2>7. f \in Drafts /\ OnlyAccrued(p, f, k, y) /\ f.accrued[k][y] = v
    BY <2>2, <2>5, <2>6, AccruedSet
  <2>8. f.made = e.made
    BY <2>5, <2>6 DEF Drafts
  <2>9. OnlyAccrued(e, f, k, y)
    BY <2>5, <2>7 DEF OnlyAccrued, SameFigures
  <2>10. Sound(f, d, since) /\ Reads(e, f)
    <3>1. SoundBut(f, d, since, {} \ {<<k, y>>}) /\ Reads(e, f)
      BY <2>1, <2>2, <2>3, <2>7, <2>9, RaisedIs DEF Sound
    <3>2. {} \ {<<k, y>>} = {}
      OBVIOUS
    <3> QED BY <3>1, <3>2 DEF Sound
  <2>11. Topped(f, k, y, at)
    <3>1. Targets(f, k, y, at) = t
      BY <2>9, SameGoal DEF OnlyAccrued, t
    <3> QED BY <1>1, <2>2, <2>7, <3>1 DEF Topped
  <2>12. Advance(e, f, d, since) /\ OnlyAccrued(e, f, k, y) /\ Topped(f, k, y, at) /\ f.made = e.made
    BY <2>7, <2>8, <2>9, <2>10, <2>11 DEF Advance
  <2> QED BY <2>12 DEF f, t
<1> QED BY <1>5, <1>6

LEMMA AccruedIs ==
  ASSUME NEW e \in Drafts, NEW k \in LeaveTypes, NEW y \in Years, NEW at \in Dates, NEW d \in Dates,
         at <= d, NEW since, Sound(e, d, since)
  PROVE  LET f == Accrued(e, k, y, at)
         IN  /\ Advance(e, f, d, since) /\ OnlyAccrued(e, f, k, y) /\ Topped(f, k, y, at)
             /\ \A j \in LeaveTypes, z \in Years : e.made[j][z] => f.made[j][z]
<1> DEFINE g == Ensured(e, k, y)
           f == Accrued(e, k, y, at)
<1>1. g \in Drafts /\ SameFigures(e, g)
  BY EnsuredIs
<1>2. Advance(e, g, d, since)
  <2> HIDE DEF g
  <2> QED BY <1>1, FiguresDecide
<1>3. Targets(e, k, y, at) = Targets(g, k, y, at)
  <2> HIDE DEF g
  <2> QED BY <1>1, SameGoal DEF SameFigures
<1>4. f = AccruedTo(g, k, y, Targets(g, k, y, at))
  BY <1>3 DEF Accrued
<1>5. \A j \in LeaveTypes, z \in Years : e.made[j][z] => g.made[j][z]
  BY DEF Ensured, Drafts, PerYear
<1> HIDE DEF g, f
<1>6. /\ Advance(g, f, d, since) /\ OnlyAccrued(g, f, k, y)
      /\ Topped(f, k, y, at) /\ f.made = g.made
  <2>1. Sound(g, d, since)
    BY <1>2 DEF Advance
  <2> QED BY <1>1, <1>4, <2>1, AccruedToIs
<1>7. Advance(e, f, d, since)
  BY <1>2, <1>6, AdvanceInTurn
<1>8. OnlyAccrued(e, f, k, y)
  BY <1>1, <1>6 DEF OnlyAccrued, SameFigures
<1> QED BY <1>5, <1>6, <1>7, <1>8 DEF f

LEMMA OnlyAccruedIs ==
  ASSUME NEW e, NEW f, NEW k, NEW y, OnlyAccrued(e, f, k, y)
  PROVE  Only(e, f, k)
<1>1. \A j \in LeaveTypes \ {k}, z \in Years : <<j, z>> # <<k, y>>
  OBVIOUS
<1> QED BY <1>1 DEF Only, OnlyAccrued

LEMMA AccruedStays ==
  ASSUME NEW e \in Drafts, NEW k \in LeaveTypes, NEW y \in Years, NEW at \in Dates
  PROVE  Accrued(e, k, y, at) \in Drafts
<1> DEFINE g == Ensured(e, k, y)
           t == Targets(e, k, y, at)
           n == MonthsEarned(e.anchor, y, at)
           owed == Owed(g, k, y, t)
           dates == InOrder(OwedDates(g, k, y, t))
           p == Posted(g, k, "accrual", dates)
           f == AccruedTo(g, k, y, t)
<1>1. g \in Drafts /\ SameFigures(e, g)
  BY EnsuredIs
<1>2. n \in Nat /\ DOMAIN t = 1..n /\ \A i \in 1..n : t[i] \in Int
  <2>1. at <= at
    BY DatesAreDays
  <2> QED BY <2>1, TargetsAre
<1>3. g.accrued[k][y] \in Int
  <2> HIDE DEF g
  <2> QED BY <1>1, DraftsAre
<1>4. owed # {} => Max(owed) \in 1..n
  <2> DEFINE start == g.accrued[k][y]
             R == Raising(t, start)
  <2>1. R # {} => Max(R) \in 1..n
    <3> HIDE DEF start, t, n
    <3> QED BY <1>2, <1>3, RaisingIs DEF start
  <2>2. owed = {} \/ owed = R
    BY DEF Owed
  <2> HIDE DEF R, owed, n
  <2> QED BY <2>1, <2>2
<1>5. CASE owed = {}
  <2>1. f = g
    BY <1>5 DEF AccruedTo
  <2> QED BY <1>1, <2>1 DEF Accrued
<1>6. CASE owed # {}
  <2> DEFINE v == t[Max(owed)]
  <2>1. v \in Int
    <3> HIDE DEF owed, t, n
    <3> QED BY <1>2, <1>4, <1>6
  <2>2. Targets(g, k, y, at) = t
    <3> HIDE DEF g
    <3> QED BY <1>1, SameGoal DEF SameFigures
  <2>3. dates \in Seq(Int)
    <3>1. OwedDates(g, k, y, t) \subseteq Int /\ IsFiniteSet(OwedDates(g, k, y, t))
      <4> HIDE DEF g, t
      <4> QED BY <1>1, <2>2, OwedDatesAre
    <3> HIDE DEF g, t
    <3> QED BY <3>1, InOrderInts
  <2>4. p \in Drafts
    <3> HIDE DEF g, dates
    <3> QED BY <1>1, <2>3, PostedIs
  <2>5. f = [p EXCEPT !.accrued[k][y] = v]
    BY <1>6 DEF AccruedTo
  <2>6. f \in Drafts
    <3> HIDE DEF p, v, f
    <3> QED BY <2>1, <2>4, <2>5, AccruedSet
  <2> QED BY <2>6 DEF Accrued
<1> QED BY <1>5, <1>6

--------------------------------------------------------------------------------
(* The close of a year *)

LEMMA EpochIs ==
  ASSUME NEW e \in Drafts
  PROVE  /\ Created \in Years /\ Epoch(e) \in Int /\ YearOf(e.anchor) \in Int
         /\ Created <= Epoch(e) /\ YearOf(e.anchor) <= Epoch(e)
<1>1. Created \in Years /\ Created \in Int
  BY BooksAssumption, YearOfDate, YearsAreNumbers DEF Created
<1>2. YearOf(e.anchor) \in Int
  BY AnchorsAreNumbers DEF Drafts
<1>3. Epoch(e) = IF Created >= YearOf(e.anchor) THEN Created ELSE YearOf(e.anchor)
  BY <1>1, <1>2, MaxOfTwo DEF Epoch
<1> QED BY <1>1, <1>2, <1>3

\* Once the years slept through have their rows, a year that awaits its
\* carryover follows one that has a row.
LEMMA MaterializedIs ==
  ASSUME NEW e \in Drafts, NEW k \in LeaveTypes, NEW at \in Dates
  PROVE  LET g == Materialized(e, k, at)
         IN  /\ g \in Drafts /\ SameFigures(e, g)
             /\ \A y \in Pending(g, k, at) : y > Epoch(g) => y - 1 \in Years /\ g.made[k][y - 1]
<1> DEFINE missing == {y \in Years : /\ y >= Epoch(e)
                                     /\ \E p \in Pending(e, k, at) :
                                          y < p /\ \A z \in y..(p - 1) : ~e.made[k][z]}
           made == [e.made EXCEPT ![k] = [y \in Years |-> @[y] \/ y \in missing]]
           g == Materialized(e, k, at)
<1>1. e.made \in PerYear(BOOLEAN)
  BY DEF Drafts
<1>2. g = [e EXCEPT !.made = made]
  BY DEF Materialized, Drafts
<1>3. \A y \in Years : made[k][y] = (e.made[k][y] \/ y \in missing)
  <2> HIDE DEF missing
  <2> QED BY <1>1 DEF PerYear
<1>4. made \in PerYear(BOOLEAN)
  <2> HIDE DEF missing
  <2> QED BY <1>1 DEF PerYear
<1>5. g \in Drafts /\ SameFigures(e, g) /\ g.made = made
  <2> HIDE DEF made
  <2>1. g \in Drafts
    BY <1>2, <1>4 DEF Drafts
  <2>2. g.made = made /\ SameFigures(e, g)
    BY <1>2 DEF Drafts, SameFigures
  <2> QED BY <2>1, <2>2
<1> HIDE DEF g, made
<1>6. Epoch(g) = Epoch(e)
  BY <1>5 DEF Epoch, SameFigures
<1>7. ASSUME NEW y \in Pending(g, k, at), y > Epoch(g) PROVE y - 1 \in Years /\ g.made[k][y - 1]
  <2>1. /\ y \in Years /\ y \in Int /\ made[k][y] /\ ~e.finalized[k][y] /\ y <= YearOf(at)
        /\ \A z \in Years : z \in Int
    BY <1>5, DatesAreDays DEF Pending, SameFigures
  <2>2. y - 1 \in Years /\ y - 1 >= Epoch(e) /\ y - 1 \in Int
    <3>1. Created \in Int /\ Created >= 0
      BY EpochIs, YearsAreNumbers
    <3> QED BY <1>6, <1>7, <2>1, <3>1, EpochIs, HorizonAssumption DEF Years
  <2>3. SUFFICES ASSUME ~e.made[k][y - 1] PROVE y - 1 \in missing
    BY <1>3, <1>5, <2>2
  <2>4. PICK p \in Pending(e, k, at) : y <= p /\ \A z \in y..(p - 1) : ~e.made[k][z]
    <3>1. CASE e.made[k][y]
      <4>1. y \in Pending(e, k, at) /\ y <= y /\ y..(y - 1) = {}
        BY <2>1, <3>1 DEF Pending
      <4> QED BY <4>1
    <3>2. CASE ~e.made[k][y]
      <4>1. y \in missing
        BY <1>3, <2>1, <3>2
      <4>2. PICK p \in Pending(e, k, at) : y < p /\ \A z \in y..(p - 1) : ~e.made[k][z]
        BY <4>1
      <4>3. p \in Int
        <5>1. p \in Years
          BY <4>2 DEF Pending
        <5> QED BY <5>1, YearsAreNumbers
      <4> QED BY <2>1, <4>2, <4>3
    <3> QED BY <3>1, <3>2
  <2>5. p \in Int
    <3>1. p \in Years
      BY <2>4 DEF Pending
    <3> QED BY <3>1, YearsAreNumbers
  <2>6. y - 1 < p /\ \A z \in (y - 1)..(p - 1) : z = y - 1 \/ z \in y..(p - 1)
    BY <2>1, <2>4, <2>5
  <2>7. \A z \in (y - 1)..(p - 1) : ~e.made[k][z]
    BY <2>3, <2>4, <2>6
  <2> QED BY <2>2, <2>6, <2>7
<1> QED BY <1>5, <1>7 DEF g

LEMMA CapBaseIs ==
  ASSUME NEW e \in Drafts, NEW k \in LeaveTypes, NEW y \in Years
  PROVE  CapBase(k, e.rows, e.anchor, y, e.manual[k][y]) \in Int
<1> DEFINE from == IF e.anchor = NoDate \/ YearOf(e.anchor) > y THEN MonthsPerYear + 1
                   ELSE HireMonth(e.anchor, y)
           n == Max({0, MonthsPerYear + 1 - from})
<1>1. from \in 1..(MonthsPerYear + 1)
  <2>1. HireMonth(e.anchor, y) \in 1..(MonthsPerYear + 1)
    BY DraftsAre, HireMonthIs
  <2>2. MonthsPerYear + 1 \in 1..(MonthsPerYear + 1)
    BY YearsAreLong
  <2> QED BY <2>1, <2>2
<1>2. n \in Nat
  <2>1. MonthsPerYear + 1 - from \in Int
    <3> HIDE DEF from
    <3> QED BY <1>1, YearsAreLong
  <2> HIDE DEF from
  <2> QED BY <2>1, MaxOfTwo
<1>3. e.manual[k][y] \in Int /\ 0 \in Int
  BY DraftsAre
<1>4. Earned(k, e.rows, e.anchor, y, from, n) \in Nat
  <2> HIDE DEF from, n
  <2> QED BY <1>1, <1>2, DraftsAre, EarnedIs
<1>5. CapBase(k, e.rows, e.anchor, y, e.manual[k][y]) =
        PieceTarget(k, e.rows, e.anchor, y, 0, from, n, e.manual[k][y])
  BY DEF CapBase
<1> HIDE DEF from, n
<1>6. CapBase(k, e.rows, e.anchor, y, e.manual[k][y]) =
        IF n <= 0 THEN e.manual[k][y]
        ELSE Earned(k, e.rows, e.anchor, y, from, n) + 0 + e.manual[k][y]
  BY <1>5, PieceIs
<1> QED BY <1>3, <1>4, <1>6

\* What is booked out of the year before y, and kept into y.
LEMMA RolledFigures ==
  ASSUME NEW e \in Drafts, NEW k \in LeaveTypes, NEW y \in Years, y - 1 \in Years,
         NEW leftover \in Nat, NEW kept \in Nat
  PROVE  LET f == Rolled(e, k, y, leftover, kept)
         IN  /\ f \in Drafts /\ f.made = e.made
             /\ f.anchor = e.anchor /\ f.rows = e.rows /\ f.manual = e.manual
             /\ \A j \in LeaveTypes, z \in Years :
                  /\ f.accrued[j][z] = IF j = k /\ z = y - 1 THEN e.accrued[j][z] - leftover
                                       ELSE IF j = k /\ z = y THEN e.accrued[j][z] + kept
                                       ELSE e.accrued[j][z]
                  /\ f.closed[j][z] <=> e.closed[j][z] \/ (j = k /\ z = y - 1)
                  /\ f.carried[j][z] = IF j = k /\ z = y THEN kept ELSE e.carried[j][z]
                  /\ f.finalized[j][z] <=> e.finalized[j][z] \/ (j = k /\ z = y)
<1> DEFINE dates == (IF leftover > 0 THEN <<LastOfYear(y - 1)>> ELSE <<>>)
                      \o (IF kept > 0 THEN <<FirstOfYear(y)>> ELSE <<>>)
           p == Posted(e, k, "close", dates)
           row == p.accrued[k]
           new == [row EXCEPT ![y - 1] = row[y - 1] - leftover, ![y] = row[y] + kept]
           accrued == [p.accrued EXCEPT ![k] = new]
           closed == [p.closed EXCEPT ![k][y - 1] = TRUE]
           carried == [p.carried EXCEPT ![k][y] = kept]
           finalized == [p.finalized EXCEPT ![k][y] = TRUE]
           f == Rolled(e, k, y, leftover, kept)
<1>1. y \in Int /\ y - 1 # y
  BY YearsAreNumbers
<1>2. dates \in Seq(Int)
  <2>1. LastOfYear(y - 1) \in Int /\ FirstOfYear(y) \in Int
    BY <1>1, YearsAreLong DEF LastOfYear, FirstOfYear, FirstOfMonth
  <2> QED BY <2>1
<1>3. p \in Drafts /\ SameFigures(e, p) /\ p.made = e.made
  <2> HIDE DEF dates
  <2>1. p \in Drafts /\ SameFigures(e, p)
    BY <1>2, PostedIs
  <2>2. p.made = e.made
    BY DEF Posted, Drafts
  <2> QED BY <2>1, <2>2
<1>4. f = [p EXCEPT !.accrued = accrued, !.closed = closed, !.carried = carried,
                    !.finalized = finalized]
  <2>1. p \in Drafts
    BY <1>3
  <2>2. f = [p EXCEPT !.accrued[k][y - 1] = @ - leftover, !.accrued[k][y] = @ + kept,
                      !.closed[k][y - 1] = TRUE, !.carried[k][y] = kept,
                      !.finalized[k][y] = TRUE]
    BY DEF Rolled
  <2>3. accrued = [p.accrued EXCEPT ![k][y - 1] = @ - leftover, ![k][y] = @ + kept]
    <3> HIDE DEF p
    <3>1. p.accrued \in [LeaveTypes -> [Years -> Int]]
      BY <2>1 DEF Drafts, PerYear
    <3> QED BY <1>1, <3>1
  <2> HIDE DEF p, accrued, closed, carried, finalized
  <2>4. f = [p EXCEPT !.accrued = accrued, !.closed[k][y - 1] = TRUE, !.carried[k][y] = kept,
                      !.finalized[k][y] = TRUE]
    BY <2>1, <2>2, <2>3 DEF Drafts
  <2> QED BY <2>1, <2>4 DEF Drafts, closed, carried, finalized
<1> HIDE DEF p, f
<1>5. /\ p.accrued \in PerYear(Int) /\ p.closed \in PerYear(BOOLEAN)
      /\ p.carried \in PerYear(Nat) /\ p.finalized \in PerYear(BOOLEAN)
  BY <1>3 DEF Drafts
<1>6. /\ accrued \in PerYear(Int)
      /\ \A j \in LeaveTypes, z \in Years :
           accrued[j][z] = IF j = k /\ z = y - 1 THEN p.accrued[j][z] - leftover
                           ELSE IF j = k /\ z = y THEN p.accrued[j][z] + kept
                           ELSE p.accrued[j][z]
  <2>1. row \in [Years -> Int]
    BY <1>5 DEF PerYear
  <2>3. /\ new \in [Years -> Int]
        /\ \A z \in Years : new[z] = IF z = y - 1 THEN row[z] - leftover
                                     ELSE IF z = y THEN row[z] + kept ELSE row[z]
    <3> HIDE DEF row
    <3> QED BY <1>1, <2>1
  <2>4. accrued = [p.accrued EXCEPT ![k] = new]
    OBVIOUS
  <2> HIDE DEF new, accrued
  <2> QED BY <1>5, <2>3, <2>4 DEF PerYear
<1>7. /\ closed \in PerYear(BOOLEAN)
      /\ \A j \in LeaveTypes, z \in Years :
           closed[j][z] <=> p.closed[j][z] \/ (j = k /\ z = y - 1)
  BY <1>5 DEF PerYear
<1>8. /\ carried \in PerYear(Nat)
      /\ \A j \in LeaveTypes, z \in Years :
           carried[j][z] = IF j = k /\ z = y THEN kept ELSE p.carried[j][z]
  BY <1>5 DEF PerYear
<1>9. /\ finalized \in PerYear(BOOLEAN)
      /\ \A j \in LeaveTypes, z \in Years :
           finalized[j][z] <=> p.finalized[j][z] \/ (j = k /\ z = y)
  BY <1>5 DEF PerYear
<1> HIDE DEF accrued, closed, carried, finalized
<1>10. f \in Drafts
  BY <1>3, <1>4, <1>6, <1>7, <1>8, <1>9 DEF Drafts
<1>11. /\ f.accrued = accrued /\ f.closed = closed /\ f.carried = carried
       /\ f.finalized = finalized /\ f.made = p.made
       /\ f.anchor = p.anchor /\ f.rows = p.rows /\ f.manual = p.manual
  BY <1>3, <1>4 DEF Drafts
<1>12. /\ f.made = e.made /\ f.anchor = e.anchor /\ f.rows = e.rows /\ f.manual = e.manual
       /\ p.accrued = e.accrued /\ p.closed = e.closed /\ p.carried = e.carried
       /\ p.finalized = e.finalized
  BY <1>3, <1>11 DEF SameFigures
<1> QED BY <1>6, <1>7, <1>8, <1>9, <1>10, <1>11, <1>12 DEF f

LEMMA RolledLeftoverIs ==
  ASSUME NEW e \in Drafts, NEW k \in LeaveTypes, NEW y \in Years, y - 1 \in Years,
         NEW settings \in CarryoverSettings
  PROVE  \E leftover, kept \in Nat :
           kept <= leftover /\ RolledLeftover(e, k, y, settings) = Rolled(e, k, y, leftover, kept)
<1> DEFINE leftover == Max({0, Available(e, k, y - 1)})
           base == CapBase(k, e.rows, e.anchor, y - 1, e.manual[k][y - 1])
           kept == Kept(k, leftover, settings, base)
<1>1. leftover \in Nat /\ leftover \in Int
  BY AvailableIs, MaxOfTwo
<1>2. base \in Int
  BY CapBaseIs
<1>3. Max({0, leftover}) = leftover
  <2> HIDE DEF leftover
  <2> QED BY <1>1, MaxOfTwo
<1>4. kept \in Nat /\ kept <= leftover
  <2> HIDE DEF leftover, base
  <2> QED BY <1>1, <1>2, <1>3, KeptIs
<1>5. RolledLeftover(e, k, y, settings) = Rolled(e, k, y, leftover, kept)
  BY DEF RolledLeftover, RolledOver
<1> HIDE DEF leftover, kept
<1> QED BY <1>1, <1>4, <1>5

\* Of the carryovers of type k, at most that of year y becomes settled.
SettlesOnly(e, f, k, y) ==
  /\ f.finalized[k][y]
  /\ \A z \in Years \ {y} : f.finalized[k][z] <=> e.finalized[k][z]
  /\ \A z \in Years : e.made[k][z] => f.made[k][z]

\* The close keeps the books sound: the carryover of y had not been settled, so
\* neither y nor the year before it was closed; what is left of that year and
\* what is kept of it are no more than it held, and y has earned a month, so that
\* its target grows by what it is given.
LEMMA RolledIs ==
  ASSUME NEW e \in Drafts, NEW k \in LeaveTypes, NEW y \in Years, y - 1 \in Years,
         NEW d \in Dates, NEW since, Sound(e, d, since), y <= YearOf(d), Created <= y - 1,
         e.anchor # NoDate, YearOf(e.anchor) < y,
         ~e.finalized[k][y], e.finalized[k][y - 1],
         NEW leftover \in Nat, NEW kept \in Nat, kept <= leftover
  PROVE  LET f == Rolled(e, k, y, leftover, kept)
         IN  Advance(e, f, d, since) /\ Only(e, f, k) /\ SettlesOnly(e, f, k, y)
<1> DEFINE f == Rolled(e, k, y, leftover, kept)
<1>1. /\ f \in Drafts /\ f.made = e.made
      /\ f.anchor = e.anchor /\ f.rows = e.rows /\ f.manual = e.manual
      /\ \A j \in LeaveTypes, z \in Years :
           /\ f.accrued[j][z] = IF j = k /\ z = y - 1 THEN e.accrued[j][z] - leftover
                                ELSE IF j = k /\ z = y THEN e.accrued[j][z] + kept
                                ELSE e.accrued[j][z]
           /\ f.closed[j][z] <=> e.closed[j][z] \/ (j = k /\ z = y - 1)
           /\ f.carried[j][z] = IF j = k /\ z = y THEN kept ELSE e.carried[j][z]
           /\ f.finalized[j][z] <=> e.finalized[j][z] \/ (j = k /\ z = y)
  BY RolledFigures
<1> HIDE DEF f
<1>2. y \in Int /\ y - 1 \in Int /\ YearOf(d) \in Int /\ \A z \in Years : z \in Int
  BY YearsAreNumbers, YearOfAny
<1>3. ~e.closed[k][y] /\ ~e.closed[k][y - 1] /\ e.carried[k][y] = 0
  <2>1. e.closed[k][y - 1] => e.finalized[k][(y - 1) + 1]
    BY SoundAt
  <2>2. (y - 1) + 1 = y
    BY <1>2
  <2> QED BY <2>1, <2>2, SoundAt
<1>4. \A j \in LeaveTypes, z \in Years :
        /\ e.accrued[j][z] \in Int /\ e.carried[j][z] \in Nat /\ e.manual[j][z] \in Int
        /\ Goal(e, j, z, d) \in Int
  BY DraftsAre, GoalIs
<1>5. \A j \in LeaveTypes, z \in Years : ~(j = k /\ z = y) => Goal(f, j, z, d) = Goal(e, j, z, d)
  BY <1>1, SameGoal
<1>6. Goal(f, k, y, d) = Goal(e, k, y, d) + kept
  <2> DEFINE h == HireMonth(e.anchor, y)
             n == MonthsEarned(e.anchor, y, d)
             w == Earned(k, e.rows, e.anchor, y, h, n)
  <2>1. n # 0
    <3>1. n >= 1
      BY DraftsAre, MonthsEarnedIs
    <3> HIDE DEF n
    <3> QED BY <3>1
  <2>2. Goal(e, k, y, d) = w + e.carried[k][y] + e.manual[k][y]
    BY <2>1, GoalIs
  <2>3. Goal(f, k, y, d) = w + f.carried[k][y] + f.manual[k][y]
    <3>1. MonthsEarned(f.anchor, y, d) # 0
      BY <1>1, <2>1
    <3>2. Goal(f, k, y, d) =
            Earned(k, f.rows, f.anchor, y, HireMonth(f.anchor, y), MonthsEarned(f.anchor, y, d))
              + f.carried[k][y] + f.manual[k][y]
      BY <1>1, <3>1, GoalIs
    <3> QED BY <1>1, <3>2
  <2>4. w \in Int
    <3>1. n \in Nat /\ h \in 1..(MonthsPerYear + 1)
      BY DraftsAre, MonthsEarnedIs, HireMonthIs
    <3> HIDE DEF n, h
    <3> QED BY <3>1, DraftsAre, EarnedIs
  <2>5. f.carried[k][y] = kept /\ f.manual[k][y] = e.manual[k][y]
    BY <1>1
  <2> HIDE DEF w
  <2> QED BY <1>3, <1>4, <2>2, <2>3, <2>4, <2>5
<1>7. ClosedInOrder(f)
  <2>1. ASSUME NEW j \in LeaveTypes, NEW z \in Years, f.closed[j][z]
        PROVE  Created <= z /\ z + 1 \in Years /\ f.finalized[j][z] /\ f.finalized[j][z + 1]
    <3>1. CASE j = k /\ z = y - 1
      <4>1. z + 1 = y /\ z # y
        BY <1>2, <3>1
      <4> QED BY <1>1, <3>1, <4>1
    <3>2. CASE ~(j = k /\ z = y - 1)
      <4>1. e.closed[j][z]
        BY <1>1, <2>1, <3>2
      <4>2. Created <= z /\ z + 1 \in Years /\ e.finalized[j][z] /\ e.finalized[j][z + 1]
        BY <4>1, SoundAt
      <4> QED BY <1>1, <4>2
    <3> QED BY <3>1, <3>2
  <2> QED BY <2>1 DEF ClosedInOrder
<1>8. NothingEarly(f, d)
  <2>1. ASSUME NEW j \in LeaveTypes, NEW z \in Years
        PROVE  /\ f.closed[j][z] => z < YearOf(d)
               /\ f.finalized[j][z] => z <= YearOf(d)
               /\ ~f.finalized[j][z] => f.carried[j][z] = 0
               /\ z > YearOf(d) => f.accrued[j][z] = 0 /\ f.manual[j][z] = 0
    <3>1. /\ e.closed[j][z] => z < YearOf(d)
          /\ e.finalized[j][z] => z <= YearOf(d)
          /\ ~e.finalized[j][z] => e.carried[j][z] = 0
          /\ z > YearOf(d) => e.accrued[j][z] = 0 /\ e.manual[j][z] = 0
      BY SoundAt
    <3>2. z \in Int
      BY <1>2
    <3> QED BY <1>1, <1>2, <3>1, <3>2
  <2> QED BY <2>1 DEF NothingEarly
<1>9. ASSUME NEW j \in LeaveTypes, NEW z \in Years, z >= since PROVE Within(f, d, j, z)
  <2>1. Within(e, d, j, z)
    BY <1>9, SoundAt
  <2>2. CASE j = k /\ z = y - 1
    <3>1. f.closed[j][z] /\ f.accrued[j][z] = e.accrued[j][z] - leftover /\ z + 1 = y
          /\ Goal(f, j, z, d) = Goal(e, j, z, d)
      BY <1>1, <1>2, <1>5, <2>2
    <3>2. f.carried[j][z + 1] = kept
      BY <1>1, <2>2, <3>1
    <3>3. j = "vacation" => e.accrued[j][z] <= Goal(e, j, z, d)
      BY <1>3, <2>1, <2>2 DEF Within
    <3>4. j = "vacation" => f.accrued[j][z] + f.carried[j][z + 1] <= Goal(f, j, z, d)
      BY <1>4, <3>1, <3>2, <3>3
    <3> QED BY <3>1, <3>4 DEF Within
  <2>3. CASE j = k /\ z = y
    <3>1. ~f.closed[j][z] /\ f.accrued[j][z] = e.accrued[j][z] + kept
          /\ Goal(f, j, z, d) = Goal(e, j, z, d) + kept /\ f.manual = e.manual
      BY <1>1, <1>2, <1>3, <1>6, <2>3
    <3>2. /\ e.manual[j][z] <= e.accrued[j][z]
          /\ j = "vacation" => e.accrued[j][z] <= Goal(e, j, z, d)
      BY <1>3, <2>1, <2>3 DEF Within
    <3>3. /\ f.manual[j][z] <= f.accrued[j][z]
          /\ j = "vacation" => f.accrued[j][z] <= Goal(f, j, z, d)
      BY <1>4, <3>1, <3>2
    <3> QED BY <3>1, <3>3 DEF Within
  <2>4. CASE ~(j = k /\ z = y - 1) /\ ~(j = k /\ z = y)
    <3>1. /\ f.closed[j][z] <=> e.closed[j][z]
          /\ f.accrued[j][z] = e.accrued[j][z]
          /\ f.manual = e.manual /\ Goal(f, j, z, d) = Goal(e, j, z, d)
      BY <1>1, <1>5, <2>4
    <3>2. e.closed[j][z] => f.carried[j][z + 1] = e.carried[j][z + 1]
      <4>1. e.closed[j][z] => z + 1 \in Years
        BY SoundAt
      <4>2. z + 1 = y => z = y - 1
        BY <1>2
      <4> QED BY <1>1, <2>4, <4>1, <4>2
    <3> QED BY <2>1, <3>1, <3>2 DEF Within
  <2> QED BY <2>2, <2>3, <2>4
<1>10. Sound(f, d, since)
  BY <1>7, <1>8, <1>9 DEF Sound, SoundBut
<1>11. Reads(e, f)
  <2>1. ASSUME NEW j \in LeaveTypes, NEW z \in Years, e.closed[j][z]
        PROVE  f.closed[j][z] /\ f.accrued[j][z] = e.accrued[j][z]
    BY <1>1, <1>3, <2>1
  <2> QED BY <1>1, <2>1 DEF Reads, BooksKept
<1>12. Only(e, f, k)
  BY <1>1 DEF Only
<1>13. SettlesOnly(e, f, k, y)
  BY <1>1 DEF SettlesOnly
<1> QED BY <1>1, <1>10, <1>11, <1>12, <1>13 DEF f, Advance

LEMMA SettledTriviallyIs ==
  ASSUME NEW e \in Drafts, NEW k \in LeaveTypes, NEW y \in Years
  PROVE  LET f == SettledTrivially(e, k, y)
         IN  /\ f \in Drafts /\ f.made = e.made /\ f.accrued = e.accrued /\ f.closed = e.closed
             /\ f.anchor = e.anchor /\ f.rows = e.rows /\ f.manual = e.manual
             /\ \A j \in LeaveTypes, z \in Years :
                  /\ f.carried[j][z] = IF j = k /\ z = y THEN 0 ELSE e.carried[j][z]
                  /\ f.finalized[j][z] <=> e.finalized[j][z] \/ (j = k /\ z = y)
<1> DEFINE carried == [e.carried EXCEPT ![k][y] = 0]
           finalized == [e.finalized EXCEPT ![k][y] = TRUE]
           f == SettledTrivially(e, k, y)
<1>1. f = [e EXCEPT !.carried = carried, !.finalized = finalized]
  BY DEF SettledTrivially, Drafts
<1>2. e.carried \in PerYear(Nat) /\ e.finalized \in PerYear(BOOLEAN)
  BY DEF Drafts
<1>3. /\ carried \in PerYear(Nat)
      /\ \A j \in LeaveTypes, z \in Years :
           carried[j][z] = IF j = k /\ z = y THEN 0 ELSE e.carried[j][z]
  BY <1>2 DEF PerYear
<1>4. /\ finalized \in PerYear(BOOLEAN)
      /\ \A j \in LeaveTypes, z \in Years :
           finalized[j][z] <=> e.finalized[j][z] \/ (j = k /\ z = y)
  BY <1>2 DEF PerYear
<1> HIDE DEF carried, finalized, f
<1>5. f \in Drafts
  BY <1>1, <1>3, <1>4 DEF Drafts
<1>6. /\ f.carried = carried /\ f.finalized = finalized /\ f.made = e.made
      /\ f.accrued = e.accrued /\ f.closed = e.closed
      /\ f.anchor = e.anchor /\ f.rows = e.rows /\ f.manual = e.manual
  BY <1>1 DEF Drafts
<1> QED BY <1>3, <1>4, <1>5, <1>6 DEF f

LEMMA SettledStays ==
  ASSUME NEW e \in Drafts, NEW k \in LeaveTypes, NEW y \in Years, NEW at \in Dates,
         NEW settings \in CarryoverSettings
  PROVE  Settled(e, k, y, at, settings) \in Drafts
<1>1. CASE Epoch(e) >= y
  <2>1. SettledTrivially(e, k, y) \in Drafts
    BY SettledTriviallyIs
  <2> QED BY <1>1, <2>1 DEF Settled
<1>2. CASE ~(Epoch(e) >= y)
  <2>1. y - 1 \in Years
    BY <1>2, EpochIs, YearsAreNumbers
  <2>2. Accrued(e, k, y - 1, at) \in Drafts
    BY <2>1, AccruedStays
  <2>3. PICK leftover \in Nat, kept \in Nat :
          RolledLeftover(Accrued(e, k, y - 1, at), k, y, settings) =
            Rolled(Accrued(e, k, y - 1, at), k, y, leftover, kept)
    BY <2>1, <2>2, RolledLeftoverIs
  <2>4. Rolled(Accrued(e, k, y - 1, at), k, y, leftover, kept) \in Drafts
    BY <2>1, <2>2, RolledFigures
  <2> QED BY <1>2, <2>3, <2>4 DEF Settled, Closed
<1> QED BY <1>1, <1>2

LEMMA SettledIs ==
  ASSUME NEW e \in Drafts, NEW k \in LeaveTypes, NEW y \in Years, NEW at \in Dates, NEW d \in Dates,
         at <= d, NEW settings \in CarryoverSettings, NEW since, Sound(e, d, since),
         y <= YearOf(at), ~e.finalized[k][y], e.anchor # NoDate,
         y > Epoch(e) => e.finalized[k][y - 1]
  PROVE  LET f == Settled(e, k, y, at, settings)
         IN  Advance(e, f, d, since) /\ Only(e, f, k) /\ SettlesOnly(e, f, k, y)
<1> DEFINE f == Settled(e, k, y, at, settings)
<1>1. y <= YearOf(d)
  <2>1. YearOf(at) <= YearOf(d) /\ YearOf(at) \in Int /\ YearOf(d) \in Int /\ y \in Int
    BY YearsAreNumbers, YearOfAny, YearsMonotone
  <2> QED BY <2>1
<1>2. CASE Epoch(e) >= y
  <2>1. f = SettledTrivially(e, k, y)
    BY <1>2 DEF Settled
  <2>2. e.carried[k][y] = 0
    BY SoundAt
  <2>3. /\ f \in Drafts /\ f.made = e.made /\ f.accrued = e.accrued /\ f.closed = e.closed
        /\ f.anchor = e.anchor /\ f.rows = e.rows /\ f.manual = e.manual
        /\ \A j \in LeaveTypes, z \in Years :
             /\ f.carried[j][z] = e.carried[j][z]
             /\ f.finalized[j][z] <=> e.finalized[j][z] \/ (j = k /\ z = y)
    <3> HIDE DEF f
    <3> QED BY <2>1, <2>2, SettledTriviallyIs
  <2> HIDE DEF f
  <2>4. \A j \in LeaveTypes, z \in Years : Goal(f, j, z, d) = Goal(e, j, z, d)
    BY <2>3, SameGoal
  <2>5. ClosedInOrder(f)
    BY <2>3 DEF Sound, SoundBut, ClosedInOrder
  <2>6. NothingEarly(f, d)
    BY <1>1, <2>3 DEF Sound, SoundBut, NothingEarly
  <2>7. ASSUME NEW j \in LeaveTypes, NEW z \in Years, z >= since PROVE Within(f, d, j, z)
    <3>1. Within(e, d, j, z) /\ (e.closed[j][z] => z + 1 \in Years)
      BY <2>7, SoundAt
    <3> QED BY <2>3, <2>4, <3>1 DEF Within
  <2>8. Sound(f, d, since)
    BY <2>5, <2>6, <2>7 DEF Sound, SoundBut
  <2>9. Reads(e, f) /\ Only(e, f, k) /\ SettlesOnly(e, f, k, y)
    BY <2>3 DEF Reads, BooksKept, Only, SettlesOnly
  <2> QED BY <2>3, <2>8, <2>9 DEF Advance, f
<1>3. CASE ~(Epoch(e) >= y)
  <2> DEFINE g == Accrued(e, k, y - 1, at)
  <2>1. y - 1 \in Years /\ Created <= y - 1 /\ YearOf(e.anchor) < y /\ y > Epoch(e)
    BY <1>3, EpochIs, YearsAreNumbers
  <2>2. /\ Advance(e, g, d, since) /\ OnlyAccrued(e, g, k, y - 1)
        /\ \A j \in LeaveTypes, z \in Years : e.made[j][z] => g.made[j][z]
    BY <2>1, AccruedIs
  <2>3. f = RolledLeftover(g, k, y, settings)
    BY <1>3 DEF Settled, Closed
  <2> HIDE DEF g, f
  <2>4. /\ g \in Drafts /\ Sound(g, d, since) /\ g.anchor = e.anchor
        /\ g.finalized = e.finalized
    BY <2>2 DEF Advance, OnlyAccrued
  <2>5. PICK leftover \in Nat, kept \in Nat :
          kept <= leftover /\ f = Rolled(g, k, y, leftover, kept)
    BY <2>1, <2>3, <2>4, RolledLeftoverIs
  <2>6. Advance(g, f, d, since) /\ Only(g, f, k) /\ SettlesOnly(g, f, k, y)
    <3>1. ~g.finalized[k][y] /\ g.finalized[k][y - 1] /\ g.anchor # NoDate /\ YearOf(g.anchor) < y
      BY <2>1, <2>4
    <3> QED BY <1>1, <2>1, <2>4, <2>5, <3>1, RolledIs
  <2>7. Advance(e, f, d, since)
    BY <2>2, <2>6, AdvanceInTurn
  <2>8. Only(e, f, k)
    <3>1. Only(e, g, k)
      BY <2>2, OnlyAccruedIs
    <3> QED BY <2>6, <3>1 DEF Only
  <2>9. SettlesOnly(e, f, k, y)
    BY <2>2, <2>4, <2>6 DEF SettlesOnly
  <2> QED BY <2>7, <2>8, <2>9 DEF f
<1> QED BY <1>2, <1>3

\* The books h[i] once the first i of the years that await it have been settled.
Settling(h, n, e, k, at, d, since, settings) ==
  /\ h[0] = e /\ h[n] = SettledAll(e, k, at, settings)
  /\ \A i \in 0..n : Advance(e, h[i], d, since) /\ Only(e, h[i], k)
  /\ \A i \in 1..n : \E y \in Pending(e, k, at) :
       /\ ~h[i - 1].finalized[k][y]
       /\ h[i] = Settled(h[i - 1], k, y, at, settings)
       /\ SettlesOnly(h[i - 1], h[i], k, y)
  /\ \A y \in Years : h[n].finalized[k][y] <=> e.finalized[k][y] \/ y \in Pending(e, k, at)

\* Settling the years that await their carryover, from the earliest on, finds the
\* carryover of the year before each one settled already.
LEMMA SettlingInOrder ==
  ASSUME NEW e \in Drafts, NEW k \in LeaveTypes, NEW at \in Dates, NEW d \in Dates,
         at <= d, NEW settings \in CarryoverSettings, NEW since, Sound(e, d, since),
         e.anchor # NoDate,
         \A y \in Pending(e, k, at) : y > Epoch(e) => y - 1 \in Years /\ e.made[k][y - 1]
  PROVE  \E h : \E n \in Nat : Settling(h, n, e, k, at, d, since, settings)
<1> DEFINE P == Pending(e, k, at)
           s == InOrder(P)
           n == Len(s)
<1>1. /\ P \subseteq Years /\ IsFiniteSet(P) /\ P \subseteq Int
      /\ \A y \in P : ~e.finalized[k][y] /\ y <= YearOf(at)
      /\ \A y \in Years : e.made[k][y] /\ ~e.finalized[k][y] /\ y <= YearOf(at) => y \in P
  <2>1. P \subseteq Years
    BY DEF Pending
  <2>2. IsFiniteSet(Years) /\ Years \subseteq Int
    BY HorizonAssumption, FS_Interval DEF Years
  <2>3. IsFiniteSet(P) /\ P \subseteq Int
    <3> HIDE DEF P
    <3> QED BY <2>1, <2>2, FS_Subset
  <2> QED BY <2>1, <2>3 DEF Pending
<1> HIDE DEF P
<1>2. /\ s \in Seq(P)
      /\ \A x \in P : \E i \in 1..n : s[i] = x
      /\ \A i, j \in 1..n : i < j => s[i] < s[j]
  BY <1>1, InOrderIs
<1> HIDE DEF s
<1>3. n \in Nat /\ \A i \in 1..n : s[i] \in P /\ s[i] \in Years /\ s[i] \in Int
  <2>1. n \in Nat /\ \A i \in 1..n : s[i] \in P
    BY <1>2
  <2> HIDE DEF n
  <2> QED BY <1>1, <2>1
<1>4. \A v \in Drafts, y \in P : Settled(v, k, y, at, settings) \in Drafts
  BY <1>1, SettledStays
<1>5. PICK h : /\ h \in [0..n -> Drafts] /\ h[0] = e
               /\ \A i \in 1..n : h[i] = Settled(h[i - 1], k, s[i], at, settings)
               /\ h[n] = SettledInTurn(e, k, at, settings, s)
  <2>1. s \in Seq(P)
    BY <1>2
  <2>2. \E h : SettlingStages(h, Drafts, e, k, at, settings, s)
    BY <1>4, <2>1, SettlingByStages
  <2> QED BY <2>2 DEF SettlingStages
<1>6. h[n] = SettledAll(e, k, at, settings)
  BY <1>5 DEF SettledAll, SettledInTurn, s, P
<1> DEFINE Good(i) ==
             /\ Advance(e, h[i], d, since) /\ Only(e, h[i], k)
             /\ \A z \in Years : h[i].finalized[k][z] <=>
                  e.finalized[k][z] \/ \E j \in 1..i : s[j] = z
             /\ i > 0 => /\ ~h[i - 1].finalized[k][s[i]]
                         /\ SettlesOnly(h[i - 1], h[i], k, s[i])
           S == {i \in Nat : i <= n => Good(i)}
<1>7. 0 \in S
  <2>1. SameFigures(e, e)
    BY DEF SameFigures
  <2>2. Advance(e, e, d, since) /\ Only(e, e, k)
    BY <2>1, FiguresDecide
  <2>3. ~\E j \in 1..0 : TRUE
    OBVIOUS
  <2>4. Good(0)
    <3>1. ~(0 > 0)
      OBVIOUS
    <3> QED BY <1>5, <2>2, <2>3, <3>1
  <2> HIDE DEF Good
  <2> QED BY <2>4
<1>8. ASSUME NEW m \in Nat, m \in S PROVE m + 1 \in S
  <2> SUFFICES ASSUME m + 1 <= n PROVE Good(m + 1)
    <3> HIDE DEF Good
    <3> QED OBVIOUS
  <2> DEFINE i == m + 1
             v == h[m]
             w == h[i]
             y == s[i]
  <2>1. i \in 1..n /\ m <= n /\ i - 1 = m /\ m \in 0..n
    BY <1>3
  <2>2. Good(m)
    <3> HIDE DEF Good
    <3> QED BY <1>8, <2>1
  <2>3. v \in Drafts /\ w = Settled(v, k, y, at, settings) /\ y \in P /\ y \in Years /\ y \in Int
    BY <1>3, <1>5, <2>1
  <2>4. Advance(e, v, d, since) /\ Only(e, v, k)
        /\ \A z \in Years : v.finalized[k][z] <=> e.finalized[k][z] \/ \E j \in 1..m : s[j] = z
    BY <2>2
  <2>5. ~v.finalized[k][y]
    <3>1. ASSUME NEW j \in 1..m, s[j] = y PROVE FALSE
      <4>1. j \in 1..n /\ j < i
        BY <2>1
      <4>2. s[j] < s[i]
        BY <1>2, <2>1, <4>1
      <4> QED BY <2>3, <3>1, <4>2
    <3> HIDE DEF v, y
    <3> QED BY <1>1, <2>3, <2>4, <3>1
  <2>6. y > Epoch(v) => v.finalized[k][y - 1]
    <3> SUFFICES ASSUME y > Epoch(v) PROVE v.finalized[k][y - 1]
      OBVIOUS
    <3>1. Epoch(v) = Epoch(e)
      BY <2>4 DEF Advance, Reads, Epoch
    <3>2. y - 1 \in Years /\ e.made[k][y - 1]
      BY <2>3, <3>1 DEF P
    <3>3. CASE e.finalized[k][y - 1]
      BY <2>4, <3>2, <3>3
    <3>4. CASE ~e.finalized[k][y - 1]
      <4>1. y - 1 <= YearOf(at)
        <5>1. y <= YearOf(at) /\ YearOf(at) \in Int
          BY <1>1, <2>3, YearsAreNumbers, YearOfAny
        <5> HIDE DEF y
        <5> QED BY <2>3, <5>1
      <4>2. y - 1 \in P
        BY <1>1, <3>2, <3>4, <4>1
      <4>3. PICK j \in 1..n : s[j] = y - 1
        BY <1>2, <4>2
      <4>4. j < i
        <5>1. ~(i < j)
          <6>1. i < j => s[i] < s[j]
            BY <1>2, <2>1
          <6> HIDE DEF i
          <6> QED BY <2>3, <4>3, <6>1
        <5>2. i # j
          BY <2>3, <4>3
        <5> QED BY <1>3, <2>1, <5>1, <5>2
      <4>5. j \in 1..m
        BY <4>4
      <4> QED BY <2>4, <3>2, <4>3, <4>5
    <3> QED BY <3>3, <3>4
  <2>7. Advance(v, w, d, since) /\ Only(v, w, k) /\ SettlesOnly(v, w, k, y)
    <3>1. Sound(v, d, since) /\ v.anchor # NoDate
      BY <2>4 DEF Advance, Reads
    <3>2. y <= YearOf(at)
      BY <1>1, <2>3
    <3> HIDE DEF v, w, y
    <3> QED BY <2>3, <2>5, <2>6, <3>1, <3>2, SettledIs
  <2>8. Advance(e, w, d, since)
    BY <2>4, <2>7, AdvanceInTurn
  <2>9. Only(e, w, k)
    BY <2>4, <2>7 DEF Only
  <2>10. ASSUME NEW z \in Years
         PROVE  w.finalized[k][z] <=> e.finalized[k][z] \/ \E j \in 1..i : s[j] = z
    <3>1. \A j \in 1..i : j = i \/ j \in 1..m
      OBVIOUS
    <3>2. i \in 1..i /\ \A j \in 1..m : j \in 1..i
      OBVIOUS
    <3>3. CASE z = y
      BY <2>7, <3>2, <3>3 DEF SettlesOnly
    <3>4. CASE z # y
      <4>1. w.finalized[k][z] <=> v.finalized[k][z]
        BY <2>7, <3>4 DEF SettlesOnly
      <4>2. (\E j \in 1..i : s[j] = z) <=> (\E j \in 1..m : s[j] = z)
        BY <3>1, <3>2, <3>4
      <4> HIDE DEF v, w
      <4> QED BY <2>4, <4>1, <4>2
    <3> QED BY <3>3, <3>4
  <2>11. ~h[i - 1].finalized[k][s[i]] /\ SettlesOnly(h[i - 1], h[i], k, s[i])
    BY <2>1, <2>5, <2>7
  <2> QED BY <2>8, <2>9, <2>10, <2>11
<1>9. Nat \subseteq S
  <2> HIDE DEF S
  <2> QED BY <1>7, <1>8, Induction
<1>10. ASSUME NEW i \in 0..n PROVE Good(i)
  <2>1. i \in Nat /\ i <= n
    BY <1>3
  <2>2. i \in S
    <3> HIDE DEF S
    <3> QED BY <1>9, <2>1
  <2> HIDE DEF Good
  <2> QED BY <2>1, <2>2
<1>11. ASSUME NEW i \in 1..n
       PROVE  /\ ~h[i - 1].finalized[k][s[i]] /\ SettlesOnly(h[i - 1], h[i], k, s[i])
              /\ h[i] = Settled(h[i - 1], k, s[i], at, settings) /\ s[i] \in P
  <2>1. i \in 0..n /\ i > 0
    BY <1>3
  <2>2. Good(i)
    <3> HIDE DEF Good
    <3> QED BY <1>10, <2>1
  <2> QED BY <1>3, <1>5, <2>1, <2>2
<1>12. ASSUME NEW z \in Years PROVE h[n].finalized[k][z] <=> e.finalized[k][z] \/ z \in P
  <2>1. n \in 0..n
    BY <1>3
  <2>2. Good(n)
    <3> HIDE DEF Good
    <3> QED BY <1>10, <2>1
  <2>3. (\E j \in 1..n : s[j] = z) <=> z \in P
    BY <1>2, <1>3
  <2> QED BY <2>2, <2>3
<1>13. \A i \in 0..n : Advance(e, h[i], d, since) /\ Only(e, h[i], k)
  BY <1>10
<1> HIDE DEF n
<1>14. Settling(h, n, e, k, at, d, since, settings)
  BY <1>3, <1>5, <1>6, <1>11, <1>12, <1>13 DEF Settling, P
<1> QED BY <1>3, <1>14

LEMMA SettledAllIs ==
  ASSUME NEW e \in Drafts, NEW k \in LeaveTypes, NEW at \in Dates, NEW d \in Dates,
         at <= d, NEW settings \in CarryoverSettings, NEW since, Sound(e, d, since),
         e.anchor # NoDate,
         \A y \in Pending(e, k, at) : y > Epoch(e) => y - 1 \in Years /\ e.made[k][y - 1]
  PROVE  LET f == SettledAll(e, k, at, settings)
         IN  Advance(e, f, d, since) /\ Only(e, f, k)
<1>1. PICK h : \E n \in Nat : Settling(h, n, e, k, at, d, since, settings)
  BY SettlingInOrder
<1>2. PICK n \in Nat : Settling(h, n, e, k, at, d, since, settings)
  BY <1>1
<1>3. n \in 0..n
  OBVIOUS
<1> QED BY <1>2, <1>3 DEF Settling

LEMMA FinalizedIs ==
  ASSUME NEW e \in Drafts, NEW k \in LeaveTypes, NEW y, NEW at \in Dates, NEW d \in Dates,
         at <= d, NEW settings \in CarryoverSettings, NEW since, Sound(e, d, since)
  PROVE  LET f == Finalized(e, k, y, at, settings)
         IN  Advance(e, f, d, since) /\ Only(e, f, k)
<1>1. CASE y > YearOf(at) \/ e.anchor = NoDate
  <2>1. Finalized(e, k, y, at, settings) = e
    BY <1>1 DEF Finalized
  <2>2. SameFigures(e, e)
    BY DEF SameFigures
  <2> QED BY <2>1, <2>2, FiguresDecide
<1>2. CASE ~(y > YearOf(at) \/ e.anchor = NoDate)
  <2> DEFINE g == Materialized(e, k, at)
             f == SettledAll(g, k, at, settings)
  <2>1. /\ g \in Drafts /\ SameFigures(e, g)
        /\ \A z \in Pending(g, k, at) : z > Epoch(g) => z - 1 \in Years /\ g.made[k][z - 1]
    BY MaterializedIs
  <2>2. Finalized(e, k, y, at, settings) = f
    BY <1>2 DEF Finalized
  <2> HIDE DEF g
  <2>3. Advance(e, g, d, since) /\ Only(e, g, k)
    BY <2>1, FiguresDecide
  <2>4. Advance(g, f, d, since) /\ Only(g, f, k)
    <3>1. Sound(g, d, since) /\ g.anchor # NoDate
      BY <1>2, <2>1, <2>3 DEF Advance, SameFigures
    <3> QED BY <2>1, <3>1, SettledAllIs
  <2> HIDE DEF f
  <2>5. Advance(e, f, d, since)
    BY <2>3, <2>4, AdvanceInTurn
  <2>6. Only(e, f, k)
    BY <2>3, <2>4 DEF Only
  <2> QED BY <2>2, <2>5, <2>6
<1> QED BY <1>1, <1>2

LEMMA AccruedDueIs ==
  ASSUME NEW e \in Drafts, NEW k \in LeaveTypes, NEW y \in Years, NEW at \in Dates, NEW d \in Dates,
         at <= d, NEW settings \in CarryoverSettings, NEW since, Sound(e, d, since)
  PROVE  LET f == AccruedDue(e, k, y, at, settings)
         IN  Advance(e, f, d, since) /\ Only(e, f, k) /\ Topped(f, k, y, at)
<1> DEFINE g == Finalized(e, k, y, at, settings)
           f == Accrued(g, k, y, at)
<1>1. Advance(e, g, d, since) /\ Only(e, g, k)
  BY FinalizedIs
<1> HIDE DEF g
<1>2. Advance(g, f, d, since) /\ OnlyAccrued(g, f, k, y) /\ Topped(f, k, y, at)
  BY <1>1, AccruedIs DEF Advance
<1>3. AccruedDue(e, k, y, at, settings) = f
  BY DEF AccruedDue, g
<1> HIDE DEF f
<1>4. Advance(e, f, d, since)
  BY <1>1, <1>2, AdvanceInTurn
<1>5. Only(e, f, k)
  <2>1. Only(g, f, k)
    BY <1>2, OnlyAccruedIs
  <2> QED BY <1>1, <2>1 DEF Only
<1> QED BY <1>2, <1>3, <1>4, <1>5

--------------------------------------------------------------------------------
(* The catch-up *)

\* The parts of 1..n a fold is defined over.
LEMMA PartsAre ==
  ASSUME NEW n \in Nat
  PROVE  \A t \in SUBSET (1..n) : t # {} => Max(t) \in 1..n /\ t \ {Max(t)} \in SUBSET (1..n)
<1>1. IsFiniteSet(1..n) /\ 1..n \subseteq Nat
  BY FS_Interval
<1>2. ASSUME NEW t \in SUBSET (1..n), t # {} PROVE Max(t) \in t
  <2>1. IsFiniteSet(t) /\ t \subseteq Nat
    BY <1>1, FS_Subset
  <2> QED BY <1>2, <2>1, MaxIn
<1> QED BY <1>2

\* What a fold starts with and every stage keeps, its result has.
LEMMA FoldKeeps ==
  ASSUME NEW E, NEW n \in Nat, NEW iter, iter[{}] \in E,
         \A i \in 1..n : iter[1..(i - 1)] \in E => iter[1..i] \in E
  PROVE  iter[1..n] \in E
<1> DEFINE h == [i \in 0..n |-> iter[1..i]]
<1>1. 1..0 = {} /\ 0 \in 0..n /\ n \in 0..n /\ \A i \in 1..n : i \in 0..n /\ i - 1 \in 0..n
  OBVIOUS
<1>2. h[0] \in E /\ h[n] = iter[1..n]
  BY <1>1
<1>3. ASSUME NEW i \in 1..n, h[i - 1] \in E PROVE h[i] \in E
  BY <1>1, <1>3
<1> HIDE DEF h
<1>4. \A i \in 0..n : h[i] \in E
  BY <1>2, <1>3, StagesKeep
<1> QED BY <1>1, <1>2, <1>4

\* The elapsed days of the requests of s spent one request after the other.
SpentInTurn(e, d, s) == FoldLeft(LAMBDA x, r : SpendElapsed(x, r, d), e, s)

LEMMA SpendingStays ==
  ASSUME NEW E, NEW D, NEW d, NEW e \in E, NEW s \in Seq(D),
         \A v \in E, r \in D : SpendElapsed(v, r, d) \in E
  PROVE  SpentInTurn(e, d, s) \in E
<1> DEFINE n == Len(s)
           G == [i \in 1..n |-> [v \in E |-> SpendElapsed(v, s[i], d)]]
           iter == CHOOSE iter : iter = [t \in SUBSET (1..n) |->
                     IF t = {} THEN e ELSE SpendElapsed(iter[t \ {Max(t)}], s[Max(t)], d)]
<1>1. n \in Nat /\ DOMAIN s = 1..n /\ \A i \in 1..n : s[i] \in D
  OBVIOUS
<1>2. SpentInTurn(e, d, s) = iter[1..n]
  BY <1>1 DEF SpentInTurn, FoldLeft, MapThenFoldSet
<1>3. \A t \in SUBSET (1..n) : t # {} => Max(t) \in 1..n /\ t \ {Max(t)} \in SUBSET (1..n)
  BY <1>1, PartsAre
<1>4. G \in [1..n -> [E -> E]]
  BY <1>1
<1>5. PICK f : FoldOf(f, E, e, n, G)
  <2> HIDE DEF G, n
  <2> QED BY <1>1, <1>4, FoldIsDefined
<1>6. f = [t \in SUBSET (1..n) |->
             IF t = {} THEN e ELSE SpendElapsed(f[t \ {Max(t)}], s[Max(t)], d)]
  BY <1>3, <1>5 DEF FoldOf
<1>7. iter = [t \in SUBSET (1..n) |->
                IF t = {} THEN e ELSE SpendElapsed(iter[t \ {Max(t)}], s[Max(t)], d)]
  BY <1>6
<1> HIDE DEF iter, n, G
<1>8. iter[{}] \in E
  BY <1>7
<1>9. ASSUME NEW i \in 1..n, iter[1..(i - 1)] \in E PROVE iter[1..i] \in E
  <2>1. /\ Max(1..i) = i /\ (1..i) \ {i} = 1..(i - 1)
        /\ 1..i \in SUBSET (1..n) /\ 1..i # {}
    BY <1>1, Prefix
  <2>2. iter[1..i] = IF 1..i = {} THEN e
                     ELSE SpendElapsed(iter[(1..i) \ {Max(1..i)}], s[Max(1..i)], d)
    BY <1>7, <2>1
  <2>3. iter[1..i] = SpendElapsed(iter[1..(i - 1)], s[i], d)
    BY <2>1, <2>2
  <2> QED BY <1>1, <1>9, <2>3
<1>10. iter[1..n] \in E
  BY <1>1, <1>8, <1>9, FoldKeeps
<1> QED BY <1>2, <1>10

LEMMA RequestsSet ==
  ASSUME NEW e \in Drafts, NEW rs \in [RequestIds -> Requests]
  PROVE  LET f == [e EXCEPT !.requests = rs] IN f \in Drafts /\ SameFigures(e, f)
  BY DEF Drafts, SameFigures

LEMMA SpendElapsedIs ==
  ASSUME NEW e \in Drafts, NEW r \in RequestIds, NEW d
  PROVE  LET f == SpendElapsed(e, r, d) IN f \in Drafts /\ SameFigures(e, f)
<1> DEFINE q == e.requests[r]
           days == Elapsed(q, d)
           dates == InOrder(days \ q.unpaid)
           p == Posted(e, q.type, "spent", dates)
           spent == [q EXCEPT !.consumed = q.consumed \cup days]
           rs == [p.requests EXCEPT ![r] = spent]
           f == SpendElapsed(e, r, d)
<1>1. q \in Requests
  BY DEF Drafts
<1>2. days \subseteq q.dates
  BY DEF Elapsed
<1>3. q.dates \subseteq Dates /\ q.consumed \subseteq q.dates /\ q.type \in LeaveTypes
  BY <1>1 DEF Requests
<1>4. dates \in Seq(Int)
  <2> DEFINE S == days \ q.unpaid
  <2>1. S \subseteq Dates
    BY <1>2, <1>3
  <2> HIDE DEF S
  <2>2. S \subseteq Int /\ IsFiniteSet(S)
    <3>1. IsFiniteSet(Dates) /\ \A x \in Dates : x \in Int
      BY DatesAreDays, YearsAreNumbers
    <3> QED BY <2>1, <3>1, FS_Subset
  <2>3. InOrder(S) \in Seq(Int)
    BY <2>2, InOrderInts
  <2> QED BY <2>3 DEF S
<1>5. p \in Drafts /\ SameFigures(e, p) /\ p.requests = e.requests
  <2> HIDE DEF dates, q
  <2>1. p \in Drafts /\ SameFigures(e, p)
    BY <1>3, <1>4, PostedIs
  <2>2. p.requests = e.requests
    BY DEF Posted, Drafts
  <2> QED BY <2>1, <2>2
<1>6. spent \in Requests
  <2> HIDE DEF q, days
  <2> QED BY <1>1, <1>2, <1>3 DEF Requests
<1>7. f = [p EXCEPT !.requests = rs]
  <2>1. f = [p EXCEPT !.requests[r].consumed = @ \cup days]
    BY DEF SpendElapsed
  <2> HIDE DEF p, days
  <2> QED BY <1>5, <2>1 DEF Drafts
<1> HIDE DEF p, spent
<1>8. rs \in [RequestIds -> Requests]
  BY <1>5, <1>6 DEF Drafts
<1> HIDE DEF rs, f
<1>9. f \in Drafts /\ SameFigures(p, f)
  BY <1>5, <1>7, <1>8, RequestsSet
<1>10. f \in Drafts /\ SameFigures(e, f)
  BY <1>5, <1>9 DEF SameFigures
<1> QED BY <1>10 DEF f

LEMMA ReconciledIs ==
  ASSUME NEW e \in Drafts, NEW d
  PROVE  LET f == Reconciled(e, d) IN f \in Drafts /\ SameFigures(e, f)
<1> DEFINE E == {v \in Drafts : SameFigures(e, v)}
           s == InOrder(RequestIds)
<1>1. s \in Seq(RequestIds)
  <2>1. IsFiniteSet(RequestIds) /\ RequestIds \subseteq Int
    BY HorizonAssumption
  <2> QED BY <2>1, InOrderIs
<1>2. e \in E
  BY DEF SameFigures
<1>3. ASSUME NEW v \in E, NEW r \in RequestIds PROVE SpendElapsed(v, r, d) \in E
  <2>1. SpendElapsed(v, r, d) \in Drafts /\ SameFigures(v, SpendElapsed(v, r, d))
    BY SpendElapsedIs
  <2> QED BY <2>1 DEF SameFigures
<1>4. Reconciled(e, d) = SpentInTurn(e, d, s)
  BY DEF Reconciled, SpentInTurn
<1> HIDE DEF s, E
<1>5. SpentInTurn(e, d, s) \in E
  BY <1>1, <1>2, <1>3, SpendingStays
<1> QED BY <1>4, <1>5 DEF E

LEMMA BoundariesAre ==
  ASSUME NEW e \in Drafts, NEW k \in LeaveTypes, NEW d \in Dates
  PROVE  \A x \in BoundariesOf(e, k, d) : x \in Dates /\ x <= d
<1> DEFINE real == {y \in Pending(e, k, d) : y > Epoch(e)}
           open == {y \in real : e.made[k][y - 1] /\ ~e.closed[k][y - 1]}
           owing == {y - 1 : y \in open} \cup {YearOf(d)}
<1>1. ASSUME NEW y \in real
      PROVE  y \in Years /\ y - 1 \in Years /\ FirstOfYear(y) \in Dates /\ FirstOfYear(y) <= d
  <2>1. y \in Years /\ y <= YearOf(d) /\ y > Epoch(e)
    BY DEF Pending
  <2>2. y - 1 \in Years
    BY <2>1, EpochIs, YearsAreNumbers
  <2>3. y < YearOf(d) \/ (y = YearOf(d) /\ 1 <= MonthOf(d))
    BY <2>1, YearsAreNumbers, YearOfAny, YearsAreLong
  <2>4. 1 \in 1..MonthsPerYear
    BY YearsAreLong
  <2> QED BY <2>1, <2>2, <2>3, <2>4, FirstOfMonthIs, FirstOfMonthBy DEF FirstOfYear
<1>2. owing \subseteq Years
  <2> HIDE DEF real
  <2> QED BY <1>1, YearOfDate
<1>3. \A y \in owing : \A x \in OwedDates(e, k, y, Targets(e, k, y, d)) : x \in Dates /\ x <= d
  <2> HIDE DEF owing
  <2>1. ASSUME NEW y \in owing, NEW x \in OwedDates(e, k, y, Targets(e, k, y, d))
        PROVE  x \in Dates /\ x <= d
    BY <1>2, OwedDatesAre
  <2> QED BY <2>1
<1>4. BoundariesOf(e, k, d) =
        {FirstOfYear(y) : y \in real}
          \cup UNION {OwedDates(e, k, y, Targets(e, k, y, d)) : y \in owing}
  BY DEF BoundariesOf
<1> HIDE DEF real, owing
<1> QED BY <1>1, <1>3, <1>4

\* Both balances of the current year have what their employed months have earned.
UpToDate(e, d) == \A k \in LeaveTypes : Topped(e, k, YearOf(d), d)

LEMMA AllDueIs ==
  ASSUME NEW e \in Drafts, NEW at \in Dates, NEW d \in Dates, at <= d,
         NEW settings \in CarryoverSettings, NEW since, Sound(e, d, since)
  PROVE  LET f == AllDue(e, at, settings)
         IN  Advance(e, f, d, since) /\ UpToDate(f, at)
<1> DEFINE y == YearOf(at)
           g == AccruedDue(e, "vacation", y, at, settings)
           f == AccruedDue(g, "sick", y, at, settings)
<1>1. y \in Years /\ "vacation" \in LeaveTypes /\ "sick" \in LeaveTypes
  BY YearOfDate DEF LeaveTypes
<1>2. Advance(e, g, d, since) /\ Topped(g, "vacation", y, at)
  <2> HIDE DEF y
  <2> QED BY <1>1, AccruedDueIs
<1> HIDE DEF g
<1>3. Advance(g, f, d, since) /\ Only(g, f, "sick") /\ Topped(f, "sick", y, at)
  <2>1. g \in Drafts /\ Sound(g, d, since)
    BY <1>2 DEF Advance
  <2> HIDE DEF y
  <2> QED BY <1>1, <2>1, AccruedDueIs
<1>4. AllDue(e, at, settings) = f
  BY DEF AllDue, g
<1> HIDE DEF f
<1>5. Advance(e, f, d, since)
  BY <1>2, <1>3, AdvanceInTurn
<1>6. Topped(f, "vacation", y, at)
  <2>1. /\ f.accrued["vacation"][y] = g.accrued["vacation"][y]
        /\ f.carried["vacation"][y] = g.carried["vacation"][y]
        /\ f.closed["vacation"][y] <=> g.closed["vacation"][y]
    BY <1>1, <1>3 DEF Only
  <2>2. Targets(f, "vacation", y, at) = Targets(g, "vacation", y, at)
    <3>1. f.anchor = g.anchor /\ f.rows = g.rows /\ f.manual = g.manual
      BY <1>3 DEF Advance, Reads
    <3> QED BY <2>1, <3>1, SameGoal
  <2> QED BY <1>2, <2>1, <2>2 DEF Topped
<1>7. UpToDate(f, at)
  BY <1>3, <1>6 DEF UpToDate, LeaveTypes
<1> QED BY <1>4, <1>5, <1>7

LEMMA ReconciledAdvances ==
  ASSUME NEW e \in Drafts, NEW at, NEW d, NEW since, Sound(e, d, since)
  PROVE  LET f == Reconciled(e, at)
         IN  Advance(e, f, d, since) /\ (UpToDate(e, d) => UpToDate(f, d))
<1> DEFINE f == Reconciled(e, at)
<1>1. f \in Drafts /\ SameFigures(e, f)
  BY ReconciledIs
<1> HIDE DEF f
<1>2. Advance(e, f, d, since)
  BY <1>1, FiguresDecide
<1>3. \A k, y : Targets(f, k, y, d) = Targets(e, k, y, d)
  BY <1>1, SameGoal DEF SameFigures
<1>4. UpToDate(e, d) => UpToDate(f, d)
  BY <1>1, <1>3 DEF UpToDate, Topped, SameFigures
<1> QED BY <1>2, <1>4 DEF f

LEMMA VisitedIs ==
  ASSUME NEW e \in Drafts, NEW at \in Dates, NEW d \in Dates, at <= d,
         NEW settings \in CarryoverSettings, NEW since, Sound(e, d, since)
  PROVE  Advance(e, Visited(e, at, settings), d, since)
<1> DEFINE g == Reconciled(e, at)
           f == AllDue(g, at, settings)
<1>1. Advance(e, g, d, since)
  BY ReconciledAdvances
<1> HIDE DEF g
<1>2. Advance(g, f, d, since)
  BY <1>1, AllDueIs DEF Advance
<1>3. Visited(e, at, settings) = f
  BY DEF Visited, g
<1> HIDE DEF f
<1> QED BY <1>1, <1>2, <1>3, AdvanceInTurn

\* The boundaries of s visited one after the other.
VisitedInTurn(e, settings, s) == FoldLeft(LAMBDA x, at : Visited(x, at, settings), e, s)

LEMMA VisitingStays ==
  ASSUME NEW E, NEW D, NEW settings, NEW e \in E, NEW s \in Seq(D),
         \A v \in E, at \in D : Visited(v, at, settings) \in E
  PROVE  VisitedInTurn(e, settings, s) \in E
<1> DEFINE n == Len(s)
           G == [i \in 1..n |-> [v \in E |-> Visited(v, s[i], settings)]]
           iter == CHOOSE iter : iter = [t \in SUBSET (1..n) |->
                     IF t = {} THEN e ELSE Visited(iter[t \ {Max(t)}], s[Max(t)], settings)]
<1>1. n \in Nat /\ DOMAIN s = 1..n /\ \A i \in 1..n : s[i] \in D
  OBVIOUS
<1>2. VisitedInTurn(e, settings, s) = iter[1..n]
  BY <1>1 DEF VisitedInTurn, FoldLeft, MapThenFoldSet
<1>3. \A t \in SUBSET (1..n) : t # {} => Max(t) \in 1..n /\ t \ {Max(t)} \in SUBSET (1..n)
  BY <1>1, PartsAre
<1>4. G \in [1..n -> [E -> E]]
  BY <1>1
<1>5. PICK f : FoldOf(f, E, e, n, G)
  <2> HIDE DEF G, n
  <2> QED BY <1>1, <1>4, FoldIsDefined
<1>6. f = [t \in SUBSET (1..n) |->
             IF t = {} THEN e ELSE Visited(f[t \ {Max(t)}], s[Max(t)], settings)]
  BY <1>3, <1>5 DEF FoldOf
<1>7. iter = [t \in SUBSET (1..n) |->
                IF t = {} THEN e ELSE Visited(iter[t \ {Max(t)}], s[Max(t)], settings)]
  BY <1>6
<1> HIDE DEF iter, n, G
<1>8. iter[{}] \in E
  BY <1>7
<1>9. ASSUME NEW i \in 1..n, iter[1..(i - 1)] \in E PROVE iter[1..i] \in E
  <2>1. /\ Max(1..i) = i /\ (1..i) \ {i} = 1..(i - 1)
        /\ 1..i \in SUBSET (1..n) /\ 1..i # {}
    BY <1>1, Prefix
  <2>2. iter[1..i] = IF 1..i = {} THEN e
                     ELSE Visited(iter[(1..i) \ {Max(1..i)}], s[Max(1..i)], settings)
    BY <1>7, <2>1
  <2>3. iter[1..i] = Visited(iter[1..(i - 1)], s[i], settings)
    BY <2>1, <2>2
  <2> QED BY <1>1, <1>9, <2>3
<1>10. iter[1..n] \in E
  BY <1>1, <1>8, <1>9, FoldKeeps
<1> QED BY <1>2, <1>10

LEMMA WalkedIs ==
  ASSUME NEW e \in Drafts, NEW d \in Dates, NEW settings \in CarryoverSettings,
         NEW since, Sound(e, d, since), NEW moves, \A at \in moves : at \in Dates /\ at <= d
  PROVE  Advance(e, Walked(e, moves, settings), d, since)
<1> DEFINE E == {v \in Drafts : Advance(e, v, d, since)}
           s == InOrder(moves)
<1>1. s \in Seq(moves)
  <2>1. moves \subseteq Dates /\ IsFiniteSet(Dates) /\ \A x \in Dates : x \in Int
    BY DatesAreDays, YearsAreNumbers
  <2>2. IsFiniteSet(moves) /\ moves \subseteq Int
    BY <2>1, FS_Subset
  <2> QED BY <2>2, InOrderIs
<1>2. e \in E
  <2>1. SameFigures(e, e)
    BY DEF SameFigures
  <2> QED BY <2>1, FiguresDecide
<1>3. ASSUME NEW v \in E, NEW at \in moves PROVE Visited(v, at, settings) \in E
  <2>1. v \in Drafts /\ Advance(e, v, d, since) /\ Sound(v, d, since)
    BY DEF Advance
  <2>2. Advance(v, Visited(v, at, settings), d, since)
    BY <2>1, VisitedIs
  <2>3. Advance(e, Visited(v, at, settings), d, since)
    BY <2>1, <2>2, AdvanceInTurn
  <2> QED BY <2>2, <2>3 DEF Advance
<1>4. Walked(e, moves, settings) = VisitedInTurn(e, settings, s)
  BY DEF Walked, VisitedInTurn
<1> HIDE DEF s, E
<1>5. VisitedInTurn(e, settings, s) \in E
  BY <1>1, <1>2, <1>3, VisitingStays
<1> QED BY <1>4, <1>5 DEF E

\* Where no month is owed, every employed month is accounted for.
LEMMA NothingOwed ==
  ASSUME NEW e \in Drafts, NEW k \in LeaveTypes, NEW y \in Years, NEW d \in Dates,
         e.anchor = NoDate \/ Owed(e, k, y, Targets(e, k, y, d)) = {}
  PROVE  Topped(e, k, y, d)
<1> DEFINE t == Targets(e, k, y, d)
           n == MonthsEarned(e.anchor, y, d)
           start == e.accrued[k][y]
<1>1. n \in Nat /\ DOMAIN t = 1..n /\ \A i \in 1..n : t[i] \in Int
  <2>1. d <= d
    BY YearsAreNumbers
  <2> QED BY <2>1, TargetsAre
<1>2. n > 0 => e.anchor # NoDate
  BY DraftsAre, MonthsEarnedIs
<1>3. start \in Int
  BY DraftsAre
<1>4. Raising(t, start) = {} => \A i \in 1..n : t[i] <= start
  <2> HIDE DEF t, n, start
  <2> QED BY <1>1, <1>3, RaisingIs
<1>5. ~e.closed[k][y] => \A i \in 1..n : t[i] <= start
  <2> SUFFICES ASSUME ~e.closed[k][y] PROVE \A i \in 1..n : t[i] <= start
    OBVIOUS
  <2>1. CASE e.anchor = NoDate
    <3>1. n = 0
      <4> HIDE DEF n
      <4> QED BY <1>1, <1>2, <2>1
    <3>2. 1..0 = {}
      OBVIOUS
    <3> HIDE DEF n
    <3> QED BY <3>1, <3>2
  <2>2. CASE Owed(e, k, y, t) = {}
    <3>1. Raising(t, start) = {}
      BY <2>2 DEF Owed
    <3> HIDE DEF t, n, start
    <3> QED BY <1>4, <3>1
  <2> QED BY <2>1, <2>2
<1> QED BY <1>1, <1>5 DEF Topped

LEMMA CaughtUpIs ==
  ASSUME NEW e \in Drafts, NEW d \in Dates, NEW settings \in CarryoverSettings,
         NEW since, Sound(e, d, since)
  PROVE  LET f == CaughtUp(e, d, settings)
         IN  Advance(e, f, d, since) /\ UpToDate(f, d)
<1> DEFINE moves == UNION {BoundariesOf(e, k, d) : k \in LeaveTypes}
           due == e.anchor # NoDate /\ HasPendingWork(e, d)
           g == IF due THEN AllDue(Walked(e, moves, settings), d, settings) ELSE e
           f == Reconciled(g, d)
<1>1. CaughtUp(e, d, settings) = f
  BY DEF CaughtUp
<1>2. Advance(e, g, d, since) /\ UpToDate(g, d)
  <2>1. CASE due
    <3>1. \A at \in moves : at \in Dates /\ at <= d
      BY BoundariesAre
    <3> DEFINE w == Walked(e, moves, settings)
    <3>2. Advance(e, w, d, since)
      <4> HIDE DEF moves
      <4> QED BY <3>1, WalkedIs
    <3>3. g = AllDue(w, d, settings)
      BY <2>1
    <3> HIDE DEF w, g
    <3>4. Advance(w, g, d, since) /\ UpToDate(g, d)
      <4>1. d <= d
        BY YearsAreNumbers
      <4>2. w \in Drafts /\ Sound(w, d, since)
        BY <3>2 DEF Advance
      <4> QED BY <3>3, <4>1, <4>2, AllDueIs
    <3> QED BY <3>2, <3>4, AdvanceInTurn
  <2>2. CASE ~due
    <3>1. g = e
      BY <2>2
    <3>2. SameFigures(e, e)
      BY DEF SameFigures
    <3>3. Advance(e, e, d, since)
      BY <3>2, FiguresDecide
    <3>4. UpToDate(e, d)
      <4>1. \A k \in LeaveTypes :
              e.anchor = NoDate \/ Owed(e, k, YearOf(d), Targets(e, k, YearOf(d), d)) = {}
        BY <2>2 DEF HasPendingWork
      <4> QED BY <4>1, YearOfDate, NothingOwed DEF UpToDate
    <3> QED BY <3>1, <3>3, <3>4
  <2> QED BY <2>1, <2>2
<1> HIDE DEF g
<1>3. Advance(g, f, d, since) /\ UpToDate(f, d)
  BY <1>2, ReconciledAdvances DEF Advance
<1> HIDE DEF f
<1> QED BY <1>1, <1>2, <1>3, AdvanceInTurn

LEMMA RefreshedIs ==
  ASSUME NEW e \in Drafts, NEW d \in Dates, NEW settings \in CarryoverSettings,
         NEW since, Sound(e, d, since)
  PROVE  LET f == Refreshed(e, d, settings)
         IN  Advance(e, f, d, since) /\ UpToDate(f, d)
<1> DEFINE y == YearOf(d)
           v == Ensured(e, "vacation", y)
           g == Ensured(v, "sick", y)
           f == CaughtUp(g, d, settings)
<1>1. y \in Years /\ "vacation" \in LeaveTypes /\ "sick" \in LeaveTypes
  BY YearOfDate DEF LeaveTypes
<1> HIDE DEF y
<1>2. v \in Drafts /\ SameFigures(e, v)
  BY <1>1, EnsuredIs
<1> HIDE DEF v
<1>3. g \in Drafts /\ SameFigures(v, g)
  BY <1>1, <1>2, EnsuredIs
<1> HIDE DEF g
<1>4. SameFigures(e, g)
  BY <1>2, <1>3 DEF SameFigures
<1>5. Advance(e, g, d, since)
  BY <1>3, <1>4, FiguresDecide
<1>6. Advance(g, f, d, since) /\ UpToDate(f, d)
  BY <1>5, CaughtUpIs DEF Advance
<1>7. Refreshed(e, d, settings) = f
  BY DEF Refreshed, y, v, g
<1> HIDE DEF f
<1> QED BY <1>5, <1>6, <1>7, AdvanceInTurn

\* What has been brought up to date shows what the policy says.
LEMMA UpToDateIsOnTarget ==
  ASSUME NEW e \in Drafts, NEW d \in Dates, Sound(e, d, YearOf(d)), UpToDate(e, d)
  PROVE  /\ e.accrued["vacation"][YearOf(d)] = Goal(e, "vacation", YearOf(d), d)
         /\ e.accrued["sick"][YearOf(d)] >= Goal(e, "sick", YearOf(d), d)
         /\ \A k \in LeaveTypes, z \in Years : z > YearOf(d) => e.accrued[k][z] = 0
<1> DEFINE y == YearOf(d)
<1>1. y \in Years /\ y \in Int /\ y >= y /\ ~(y < y)
  BY YearOfDate, YearsAreNumbers
<1>2. ASSUME NEW k \in LeaveTypes
      PROVE  /\ e.accrued[k][y] \in Int /\ Goal(e, k, y, d) \in Int
             /\ e.accrued[k][y] >= Goal(e, k, y, d)
             /\ k = "vacation" => e.accrued[k][y] <= Goal(e, k, y, d)
  <2> DEFINE n == MonthsEarned(e.anchor, y, d)
             t == Targets(e, k, y, d)
  <2>1. ~e.closed[k][y] /\ Within(e, d, k, y)
    <3> HIDE DEF y
    <3> QED BY <1>1, SoundAt DEF y
  <2>2. e.accrued[k][y] \in Int /\ Goal(e, k, y, d) \in Int /\ e.manual[k][y] \in Int
    <3> HIDE DEF y
    <3> QED BY <1>1, DraftsAre, GoalIs
  <2>3. /\ n \in Nat /\ DOMAIN t = 1..n
        /\ n > 0 => t[n] = Goal(e, k, y, d)
    <3>1. d <= d
      BY YearsAreNumbers
    <3> HIDE DEF y
    <3> QED BY <1>1, <3>1, TargetsAre
  <2>4. n = 0 => Goal(e, k, y, d) = e.manual[k][y]
    <3> HIDE DEF y
    <3> QED BY <1>1, GoalIs
  <2>5. \A i \in 1..n : t[i] <= e.accrued[k][y]
    <3>1. Topped(e, k, y, d)
      BY DEF UpToDate
    <3> HIDE DEF y, n
    <3> QED BY <2>1, <2>3, <3>1 DEF Topped
  <2>6. e.manual[k][y] <= e.accrued[k][y] /\ (k = "vacation" => e.accrued[k][y] <= Goal(e, k, y, d))
    BY <2>1 DEF Within
  <2>7. e.accrued[k][y] >= Goal(e, k, y, d)
    <3> HIDE DEF y, n, t
    <3>1. CASE n = 0
      BY <2>2, <2>4, <2>6, <3>1
    <3>2. CASE n # 0
      <4>1. n \in 1..n /\ n > 0
        BY <2>3, <3>2
      <4> QED BY <2>2, <2>3, <2>5, <4>1
    <3> QED BY <3>1, <3>2
  <2> QED BY <2>2, <2>6, <2>7
<1>3. "vacation" \in LeaveTypes /\ "sick" \in LeaveTypes
  BY DEF LeaveTypes
<1>4. \A k \in LeaveTypes, z \in Years : z > y => e.accrued[k][z] = 0
  BY SoundAt
<1> HIDE DEF y
<1> QED BY <1>2, <1>3, <1>4 DEF y

--------------------------------------------------------------------------------
(* The steps that decide nothing new about the books *)

LEMMA Whereabouts ==
  ASSUME Inv
  PROVE  /\ now \in Dates /\ now \in Int /\ YearOf(now) \in Years /\ YearOf(now) \in Int
         /\ Created \in Years /\ Created \in Int /\ Created <= YearOf(now)
         /\ FirstDay \in Dates /\ FirstDay <= now
         /\ carryover \in CarryoverSettings /\ employee \in Drafts /\ edits \in Seq(Edits)
<1>1. FirstDay \in Dates /\ LastDay \in Dates /\ FirstDay \in Int /\ LastDay \in Int
  BY BooksAssumption, YearsAreNumbers
<1>2. now \in Int /\ FirstDay <= now /\ now <= LastDay
  BY <1>1 DEF Inv, TypeOK
<1>3. now \in Dates
  <2> DEFINE bound == DatesPerYear * (LastYear + 1)
  <2>1. bound \in Int /\ \A d \in Int : d \in Dates <=> 0 <= d /\ d < bound
    BY DatesAreDays, YearsAreLong, HorizonAssumption
  <2> HIDE DEF bound
  <2> QED BY <1>1, <1>2, <2>1
<1>4. YearOf(now) \in Years /\ Created \in Years /\ Created <= YearOf(now)
  BY <1>1, <1>2, <1>3, YearOfDate, YearsMonotone DEF Created
<1>5. carryover \in CarryoverSettings
  BY BooksAssumption DEF Inv, TypeOK
<1>6. employee \in Drafts /\ edits \in Seq(Edits)
  BY DEF Inv, TypeOK
<1> QED BY <1>1, <1>2, <1>3, <1>4, <1>5, <1>6, YearsAreNumbers

\* What a read finds is as sound as what it started from.
LEMMA TodayIs ==
  ASSUME Inv
  PROVE  /\ Today \in Drafts /\ Reads(employee, Today) /\ UpToDate(Today, now)
         /\ Sound(Today, now, YearOf(now))
         /\ ~Corrected => Sound(Today, now, Created)
<1>1. \A since : Sound(employee, now, since) => Advance(employee, Today, now, since) /\ UpToDate(Today, now)
  <2> SUFFICES ASSUME NEW since, Sound(employee, now, since)
               PROVE  Advance(employee, Today, now, since) /\ UpToDate(Today, now)
    OBVIOUS
  <2>1. now \in Dates /\ carryover \in CarryoverSettings /\ employee \in Drafts
    BY Whereabouts
  <2> QED BY <2>1, RefreshedIs DEF Today
<1>2. Sound(employee, now, YearOf(now)) /\ (~Corrected => Sound(employee, now, Created))
  BY DEF Inv
<1> QED BY <1>1, <1>2 DEF Advance

\* What a transaction may commit.
LEMMA CommitKeeps ==
  ASSUME Inv, NEW e \in Drafts, Commit(e), now' = now,
         carryover' \in Carryovers \cup {FirstCarryover}, edits' \in Seq(Edits),
         Timeline(e.rows, now), Sound(e, now, YearOf(now)), ~Corrected' => Sound(e, now, Created),
         BooksKept(employee, e)
  PROVE  Inv' /\ BooksKept(employee, employee')
<1> DEFINE f == [e EXCEPT !.ledger = <<>>]
<1>1. employee' = f /\ \A k \in LeaveTypes, y \in Years : e.accrued[k][y] >= 0
  BY DEF Commit
<1>2. f \in Drafts /\ SameFigures(e, f)
  <2>1. <<>> \in Seq(Entries)
    OBVIOUS
  <2> QED BY <2>1 DEF Drafts, SameFigures
<1>3. f \in Employees
  <2>1. e.accrued \in PerYear(Nat)
    <3>1. e.accrued \in PerYear(Int)
      BY DEF Drafts
    <3>2. \A k \in LeaveTypes, y \in Years : e.accrued[k][y] \in Nat
      BY <1>1, DraftsAre
    <3> QED BY <3>1, <3>2 DEF PerYear
  <2>2. e.anchor \in Dates \cup {NoDate} /\ e.rows \in Seq(Membership)
    BY DEF Drafts, Anchors, Rosters
  <2>3. <<>> \in Seq([type : LeaveTypes, date : Dates, kind : {"accrual", "close", "spent"}])
    OBVIOUS
  <2> QED BY <2>1, <2>2, <2>3 DEF Drafts, Employees
<1> HIDE DEF f
<1>4. \A since : Sound(e, now, since) => Sound(f, now, since)
  BY <1>2, FiguresDecide DEF Advance
<1>5. BooksKept(employee, f) /\ f.rows = e.rows
  BY <1>2 DEF BooksKept, SameFigures
<1>6. TypeOK'
  BY <1>1, <1>3 DEF Inv, TypeOK
<1>7. Timeline(f.rows, now) /\ Sound(f, now, YearOf(now)) /\ (~Corrected' => Sound(f, now, Created))
  BY <1>4, <1>5
<1>8. employee' \in Drafts /\ Timeline(employee.rows, now)' /\ Sound(employee', now', YearOf(now'))
      /\ (~Corrected' => Sound(employee', now', Created))
  BY <1>1, <1>2, <1>7 DEF Timeline
<1>9. /\ Sound(employee', now', YearOf(now')) <=> Sound(employee, now, YearOf(now))'
      /\ Sound(employee', now', Created) <=> Sound(employee, now, Created)'
  BY DEF Sound, SoundBut, ClosedInOrder, NothingEarly, Within, Goal
<1> QED BY <1>1, <1>5, <1>6, <1>8, <1>9 DEF Inv

LEMMA RefreshKeeps ==
  ASSUME Inv, Refresh
  PROVE  Inv' /\ BooksKept(employee, employee')
<1>1. /\ Commit(Today) /\ now' = now /\ carryover' = carryover /\ edits' = edits
  BY DEF Refresh
<1>2. carryover \in Carryovers \cup {FirstCarryover} /\ edits \in Seq(Edits)
      /\ Timeline(employee.rows, now)
  BY DEF Inv, TypeOK
<1>3. Corrected' <=> Corrected
  BY <1>1 DEF Corrected, Edited
<1>4. BooksKept(employee, Today) /\ Today.rows = employee.rows
  BY TodayIs DEF Reads
<1> QED BY <1>1, <1>2, <1>3, <1>4, TodayIs, CommitKeeps

LEMMA SoundLater ==
  ASSUME NEW e \in Drafts, NEW c \in Dates, NEW d \in Dates, c <= d,
         NEW since \in Int, NEW later \in Int, since <= later, Sound(e, c, since)
  PROVE  Sound(e, d, later)
<1>1. YearOf(c) <= YearOf(d) /\ YearOf(c) \in Int /\ YearOf(d) \in Int /\ \A y \in Years : y \in Int
  BY YearsAreNumbers, YearOfAny, YearsMonotone
<1>2. ClosedInOrder(e)
  BY DEF Sound, SoundBut
<1>3. NothingEarly(e, d)
  <2>1. ASSUME NEW k \in LeaveTypes, NEW y \in Years
        PROVE  /\ e.closed[k][y] => y < YearOf(d)
               /\ e.finalized[k][y] => y <= YearOf(d)
               /\ ~e.finalized[k][y] => e.carried[k][y] = 0
               /\ y > YearOf(d) => e.accrued[k][y] = 0 /\ e.manual[k][y] = 0
    <3>1. /\ e.closed[k][y] => y < YearOf(c)
          /\ e.finalized[k][y] => y <= YearOf(c)
          /\ ~e.finalized[k][y] => e.carried[k][y] = 0
          /\ y > YearOf(c) => e.accrued[k][y] = 0 /\ e.manual[k][y] = 0
      BY SoundAt
    <3>2. y \in Int
      BY <1>1
    <3> QED BY <1>1, <3>1, <3>2
  <2> QED BY <2>1 DEF NothingEarly
<1>4. ASSUME NEW k \in LeaveTypes, NEW y \in Years, y >= later PROVE Within(e, d, k, y)
  <2>1. y \in Int /\ y >= since
    BY <1>1, <1>4
  <2>2. Within(e, c, k, y) /\ (e.closed[k][y] => y + 1 \in Years)
    BY <2>1, SoundAt
  <2>3. Goal(e, "vacation", y, c) <= Goal(e, "vacation", y, d)
    BY GoalGrows
  <2>4. /\ Goal(e, k, y, c) \in Int /\ Goal(e, k, y, d) \in Int /\ e.accrued[k][y] \in Int
        /\ e.closed[k][y] => e.carried[k][y + 1] \in Nat
    BY <2>2, GoalIs, DraftsAre
  <2>5. k = "vacation" => /\ ~e.closed[k][y] => e.accrued[k][y] <= Goal(e, k, y, d)
                          /\ e.closed[k][y] => e.accrued[k][y] + e.carried[k][y + 1] <= Goal(e, k, y, d)
    <3>1. ASSUME k = "vacation"
          PROVE  /\ ~e.closed[k][y] => e.accrued[k][y] <= Goal(e, k, y, c)
                 /\ e.closed[k][y] => e.accrued[k][y] + e.carried[k][y + 1] <= Goal(e, k, y, c)
      BY <2>2, <3>1 DEF Within
    <3>2. k = "vacation" => Goal(e, k, y, c) <= Goal(e, k, y, d)
      BY <2>3
    <3> QED BY <2>4, <3>1, <3>2
  <2> QED BY <2>2, <2>5 DEF Within
<1> QED BY <1>2, <1>3, <1>4 DEF Sound, SoundBut

LEMMA TickKeeps ==
  ASSUME Inv, Tick
  PROVE  Inv' /\ BooksKept(employee, employee')
<1>1. /\ now < LastDay /\ now' = now + 1 /\ employee' = employee /\ carryover' = carryover
      /\ edits' = edits
  BY DEF Tick
<1>2. TypeOK'
  <2>1. FirstDay \in Int /\ LastDay \in Int
    BY BooksAssumption, YearsAreNumbers
  <2> QED BY <1>1, <2>1 DEF Inv, TypeOK
<1>3. now \in Dates /\ now' \in Dates /\ now <= now' /\ now \in Int /\ now' \in Int
  <2> DEFINE bound == DatesPerYear * (LastYear + 1)
  <2>1. bound \in Int /\ \A d \in Int : d \in Dates <=> 0 <= d /\ d < bound
    BY DatesAreDays, YearsAreLong, HorizonAssumption
  <2>2. now \in Dates /\ now \in Int /\ LastDay \in Dates /\ LastDay \in Int
    BY Whereabouts, BooksAssumption, YearsAreNumbers
  <2> HIDE DEF bound
  <2> QED BY <1>1, <2>1, <2>2
<1>4. YearOf(now) <= YearOf(now') /\ YearOf(now) \in Int /\ YearOf(now') \in Int
  BY <1>3, YearOfAny, YearsMonotone
<1>5. Sound(employee, now', YearOf(now'))
  BY <1>3, <1>4, SoundLater DEF Inv
<1>6. ~Corrected => Sound(employee, now', Created)
  <2>1. Created \in Int /\ Created <= Created
    BY Whereabouts
  <2> QED BY <1>3, <2>1, SoundLater DEF Inv
<1>7. Timeline(employee.rows, now')
  <2>1. employee.rows \in Rosters
    BY DEF Inv, Drafts
  <2>2. \A i \in DOMAIN employee.rows : employee.rows[i].from \in Int
    BY <2>1, RostersAre, YearsAreNumbers
  <2> QED BY <1>3, <2>2 DEF Inv, Timeline
<1>8. Corrected' <=> Corrected
  BY <1>1 DEF Corrected, Edited
<1>9. Sound(employee', now', YearOf(now')) /\ (~Corrected' => Sound(employee', now', Created))
  BY <1>1, <1>5, <1>6, <1>8
<1>10. Sound(employee, now, YearOf(now))' /\ (~Corrected' => Sound(employee, now, Created)')
  <2>1. Sound(employee', now', YearOf(now')) => Sound(employee, now, YearOf(now))'
    BY DEF Sound, SoundBut, ClosedInOrder, NothingEarly, Within, Goal
  <2>2. Sound(employee', now', Created) => Sound(employee, now, Created)'
    BY DEF Sound, SoundBut, ClosedInOrder, NothingEarly, Within, Goal
  <2> QED BY <1>9, <2>1, <2>2
<1>11. Timeline(employee.rows, now)' /\ employee' \in Drafts
  BY <1>1, <1>7 DEF Inv, Timeline
<1>12. BooksKept(employee, employee')
  BY <1>1 DEF BooksKept
<1> QED BY <1>2, <1>10, <1>11, <1>12 DEF Inv

\* A transaction that changes no setting and makes no edit.
LEMMA PlainCommitKeeps ==
  ASSUME Inv, NEW e \in Drafts, Commit(e), UNCHANGED <<carryover, now, edits>>,
         e.rows = employee.rows, Sound(e, now, YearOf(now)),
         ~Corrected => Sound(e, now, Created), BooksKept(employee, e)
  PROVE  Inv' /\ BooksKept(employee, employee')
<1>1. now' = now /\ carryover' = carryover /\ edits' = edits
  OBVIOUS
<1>2. carryover \in Carryovers \cup {FirstCarryover} /\ edits \in Seq(Edits)
      /\ Timeline(employee.rows, now)
  BY DEF Inv, TypeOK
<1>3. Corrected' <=> Corrected
  BY <1>1 DEF Corrected, Edited
<1> QED BY <1>1, <1>2, <1>3, CommitKeeps

LEMMA SameFiguresCommit ==
  ASSUME Inv, NEW e \in Drafts, Commit(e), UNCHANGED <<carryover, now, edits>>,
         SameFigures(employee, e)
  PROVE  Inv' /\ BooksKept(employee, employee')
<1>1. employee \in Drafts /\ Sound(employee, now, YearOf(now))
      /\ (~Corrected => Sound(employee, now, Created))
  BY DEF Inv
<1>2. \A since : Sound(employee, now, since) => Advance(employee, e, now, since)
  BY <1>1, FiguresDecide
<1>3. e.rows = employee.rows /\ BooksKept(employee, e)
  BY DEF SameFigures, BooksKept
<1> QED BY <1>1, <1>2, <1>3, PlainCommitKeeps DEF Advance

--------------------------------------------------------------------------------
(* The requests *)

OpenedYear(e, k, y) == Ensured(AccruedDue(e, k, y, now, carryover), k, y)

OpenedInTurn(e, k, s) == FoldLeft(LAMBDA x, y : OpenedYear(x, k, y), e, s)

LEMMA OpeningStays ==
  ASSUME NEW E, NEW D, NEW k, NEW e \in E, NEW s \in Seq(D),
         \A v \in E, y \in D : OpenedYear(v, k, y) \in E
  PROVE  OpenedInTurn(e, k, s) \in E
<1> DEFINE n == Len(s)
           G == [i \in 1..n |-> [v \in E |-> OpenedYear(v, k, s[i])]]
           iter == CHOOSE iter : iter = [t \in SUBSET (1..n) |->
                     IF t = {} THEN e ELSE OpenedYear(iter[t \ {Max(t)}], k, s[Max(t)])]
<1>1. n \in Nat /\ DOMAIN s = 1..n /\ \A i \in 1..n : s[i] \in D
  OBVIOUS
<1>2. OpenedInTurn(e, k, s) = iter[1..n]
  BY <1>1 DEF OpenedInTurn, FoldLeft, MapThenFoldSet
<1>3. \A t \in SUBSET (1..n) : t # {} => Max(t) \in 1..n /\ t \ {Max(t)} \in SUBSET (1..n)
  BY <1>1, PartsAre
<1>4. G \in [1..n -> [E -> E]]
  BY <1>1
<1>5. PICK f : FoldOf(f, E, e, n, G)
  <2> HIDE DEF G, n
  <2> QED BY <1>1, <1>4, FoldIsDefined
<1>6. f = [t \in SUBSET (1..n) |->
             IF t = {} THEN e ELSE OpenedYear(f[t \ {Max(t)}], k, s[Max(t)])]
  BY <1>3, <1>5 DEF FoldOf
<1>7. iter = [t \in SUBSET (1..n) |->
                IF t = {} THEN e ELSE OpenedYear(iter[t \ {Max(t)}], k, s[Max(t)])]
  BY <1>6
<1> HIDE DEF iter, n, G
<1>8. iter[{}] \in E
  BY <1>7
<1>9. ASSUME NEW i \in 1..n, iter[1..(i - 1)] \in E PROVE iter[1..i] \in E
  <2>1. /\ Max(1..i) = i /\ (1..i) \ {i} = 1..(i - 1)
        /\ 1..i \in SUBSET (1..n) /\ 1..i # {}
    BY <1>1, Prefix
  <2>2. iter[1..i] = IF 1..i = {} THEN e
                     ELSE OpenedYear(iter[(1..i) \ {Max(1..i)}], k, s[Max(1..i)])
    BY <1>7, <2>1
  <2>3. iter[1..i] = OpenedYear(iter[1..(i - 1)], k, s[i])
    BY <2>1, <2>2
  <2> QED BY <1>1, <1>9, <2>3
<1>10. iter[1..n] \in E
  BY <1>1, <1>8, <1>9, FoldKeeps
<1> QED BY <1>2, <1>10

LEMMA OpenedIs ==
  ASSUME Inv, NEW e \in Drafts, NEW k \in LeaveTypes, NEW years \in SUBSET Years,
         NEW since, Sound(e, now, since)
  PROVE  Advance(e, Opened(e, k, years), now, since)
<1> DEFINE E == {v \in Drafts : Advance(e, v, now, since)}
           s == InOrder(years)
<1>1. s \in Seq(years)
  <2>1. IsFiniteSet(Years) /\ \A y \in Years : y \in Int
    BY HorizonAssumption, FS_Interval, YearsAreNumbers DEF Years
  <2>2. IsFiniteSet(years) /\ years \subseteq Int
    BY <2>1, FS_Subset
  <2> QED BY <2>2, InOrderIs
<1>2. e \in E
  <2>1. SameFigures(e, e)
    BY DEF SameFigures
  <2> QED BY <2>1, FiguresDecide
<1>3. ASSUME NEW v \in E, NEW y \in years PROVE OpenedYear(v, k, y) \in E
  <2> DEFINE g == AccruedDue(v, k, y, now, carryover)
             f == Ensured(g, k, y)
  <2>1. v \in Drafts /\ Advance(e, v, now, since) /\ Sound(v, now, since) /\ y \in Years
    BY DEF Advance
  <2>2. Advance(v, g, now, since)
    <3>1. now \in Dates /\ now <= now /\ carryover \in CarryoverSettings
      BY Whereabouts
    <3> QED BY <2>1, <3>1, AccruedDueIs
  <2> HIDE DEF g
  <2>3. f \in Drafts /\ SameFigures(g, f)
    BY <2>1, <2>2, EnsuredIs DEF Advance
  <2> HIDE DEF f
  <2>4. Advance(g, f, now, since)
    BY <2>2, <2>3, FiguresDecide DEF Advance
  <2>5. Advance(e, f, now, since)
    BY <2>1, <2>2, <2>4, AdvanceInTurn
  <2> QED BY <2>3, <2>5 DEF OpenedYear, f, g
<1>4. Opened(e, k, years) = OpenedInTurn(e, k, s)
  BY DEF Opened, OpenedInTurn, OpenedYear
<1> HIDE DEF s, E
<1>5. OpenedInTurn(e, k, s) \in E
  BY <1>1, <1>2, <1>3, OpeningStays
<1> QED BY <1>4, <1>5 DEF E

LEMMA BookedIs ==
  ASSUME NEW e \in Drafts, NEW r \in RequestIds, NEW k \in LeaveTypes, NEW dates \in SUBSET Dates,
         NEW original \in RequestIds \cup {NoRequest}
  PROVE  LET f == Booked(e, r, k, dates, original) IN f \in Drafts /\ SameFigures(e, f)
<1> DEFINE forced == {d \in dates : ForcedUnpaid(k, e.rows, e.anchor, d)}
           paid == PaidDays(e, k, carryover, now, dates \ forced, {original} \ {NoRequest})
           q == [status |-> "Pending", type |-> k, dates |-> dates, unpaid |-> dates \ paid,
                 consumed |-> {}, replaces |-> original]
           f == Booked(e, r, k, dates, original)
<1>1. f = [e EXCEPT !.requests[r] = q]
  BY DEF Booked
<1> HIDE DEF paid
<1>2. q \in Requests
  BY DEF Requests
<1> HIDE DEF q, f
<1>3. [e.requests EXCEPT ![r] = q] \in [RequestIds -> Requests]
  BY <1>2 DEF Drafts
<1>4. f = [e EXCEPT !.requests = [e.requests EXCEPT ![r] = q]]
  BY <1>1 DEF Drafts
<1> QED BY <1>3, <1>4, RequestsSet DEF f

LEMMA CreateRequestKeeps ==
  ASSUME Inv, NEW r \in RequestIds, NEW k \in LeaveTypes, NEW dates \in SUBSET Dates,
         NEW original \in RequestIds \cup {NoRequest}, CreateRequest(r, k, dates, original)
  PROVE  Inv' /\ BooksKept(employee, employee')
<1> DEFINE years == {YearOf(d) : d \in dates}
           g == Opened(Today, k, years)
           f == Booked(g, r, k, dates, original)
<1>1. Commit(f) /\ UNCHANGED <<carryover, now, edits>>
  BY DEF CreateRequest
<1>2. years \in SUBSET Years
  BY YearOfDate
<1>3. \A since : Sound(Today, now, since) => Advance(Today, g, now, since)
  <2> HIDE DEF years
  <2> QED BY <1>2, TodayIs, OpenedIs
<1> HIDE DEF g
<1>4. /\ g \in Drafts /\ Reads(Today, g) /\ Sound(g, now, YearOf(now))
      /\ ~Corrected => Sound(g, now, Created)
  BY <1>3, TodayIs DEF Advance
<1>5. f \in Drafts /\ SameFigures(g, f)
  BY <1>4, BookedIs
<1> HIDE DEF f
<1>6. \A since : Sound(g, now, since) => Advance(g, f, now, since)
  BY <1>4, <1>5, FiguresDecide
<1>7. Sound(f, now, YearOf(now)) /\ (~Corrected => Sound(f, now, Created))
  BY <1>4, <1>6 DEF Advance
<1>8. f.rows = employee.rows /\ BooksKept(employee, f)
  BY <1>4, <1>5, TodayIs DEF Reads, BooksKept, SameFigures
<1> QED BY <1>1, <1>5, <1>7, <1>8, PlainCommitKeeps

LEMMA BookingsAre ==
  ASSUME NEW b \in Bookings
  PROVE  b[1] \in LeaveTypes /\ b[2]..b[3] \in SUBSET Dates
<1>1. b \in LeaveTypes \X Dates \X Dates
  BY BooksAssumption
<1>2. b[1] \in LeaveTypes /\ b[2] \in Dates /\ b[3] \in Dates
  BY <1>1
<1>3. b[2]..b[3] \subseteq Dates
  <2> DEFINE bound == DatesPerYear * (LastYear + 1)
             lo == b[2]
             hi == b[3]
  <2>1. bound \in Int /\ \A d \in Int : d \in Dates <=> 0 <= d /\ d < bound
    BY DatesAreDays, YearsAreLong, HorizonAssumption
  <2>2. lo \in Int /\ hi \in Int /\ lo \in Dates /\ hi \in Dates
    BY <1>2, YearsAreNumbers
  <2> HIDE DEF bound, lo, hi
  <2>3. lo..hi \subseteq Dates
    BY <2>1, <2>2
  <2> QED BY <2>3 DEF lo, hi
<1> QED BY <1>2, <1>3

LEMMA SubmitKeeps ==
  ASSUME Inv, NEW r \in RequestIds, Submit(r)
  PROVE  Inv' /\ BooksKept(employee, employee')
<1>1. PICK b \in Bookings : CreateRequest(r, b[1], b[2]..b[3], NoRequest)
  BY DEF Submit
<1>2. NoRequest \in RequestIds \cup {NoRequest}
  OBVIOUS
<1> QED BY <1>1, <1>2, BookingsAre, CreateRequestKeeps

LEMMA ModifyKeeps ==
  ASSUME Inv, NEW r \in RequestIds, NEW o \in RequestIds, Modify(r, o)
  PROVE  Inv' /\ BooksKept(employee, employee')
<1>1. PICK b \in Bookings : CreateRequest(r, b[1], b[2]..b[3], o)
  BY DEF Modify
<1> QED BY <1>1, BookingsAre, CreateRequestKeeps

\* A request may change its status without any figure moving.
LEMMA StatusSet ==
  ASSUME NEW e \in Drafts, NEW r \in RequestIds, NEW s \in {"Absent", "Pending", "Approved", "Closed"}
  PROVE  LET f == [e EXCEPT !.requests[r].status = s] IN f \in Drafts /\ SameFigures(e, f)
<1> DEFINE q == [e.requests[r] EXCEPT !.status = s]
           rs == [e.requests EXCEPT ![r] = q]
           f == [e EXCEPT !.requests[r].status = s]
<1>1. e.requests \in [RequestIds -> Requests]
  BY DEF Drafts
<1>2. q \in Requests
  BY <1>1 DEF Requests
<1>3. f = [e EXCEPT !.requests = rs]
  BY DEF Drafts
<1> HIDE DEF q
<1>4. rs \in [RequestIds -> Requests]
  BY <1>1, <1>2
<1> HIDE DEF rs, f
<1> QED BY <1>3, <1>4, RequestsSet DEF f

LEMMA ApproveKeeps ==
  ASSUME Inv, NEW r \in RequestIds, Approve(r)
  PROVE  Inv' /\ BooksKept(employee, employee')
<1> DEFINE o == employee.requests[r].replaces
           swap == o # NoRequest /\ employee.requests[o].status = "Approved"
           settled == IF swap THEN Reconciled(employee, now) ELSE employee
           approved == [settled EXCEPT !.requests[r].status = "Approved"]
           f == IF swap THEN [approved EXCEPT !.requests[o].status = "Closed"] ELSE approved
<1>1. Commit(f) /\ UNCHANGED <<carryover, now, edits>>
  BY DEF Approve
<1>2. employee \in Drafts
  BY Whereabouts
<1>3. o \in RequestIds \cup {NoRequest}
  <2>1. employee.requests[r] \in Requests
    BY <1>2 DEF Drafts
  <2> QED BY <2>1 DEF Requests
<1>4. settled \in Drafts /\ SameFigures(employee, settled)
  <2>1. Reconciled(employee, now) \in Drafts /\ SameFigures(employee, Reconciled(employee, now))
    BY <1>2, ReconciledIs
  <2>2. SameFigures(employee, employee)
    BY DEF SameFigures
  <2> HIDE DEF swap
  <2> QED BY <1>2, <2>1, <2>2
<1> HIDE DEF settled
<1>5. approved \in Drafts /\ SameFigures(settled, approved)
  BY <1>4, StatusSet
<1> HIDE DEF approved
<1>6. f \in Drafts /\ SameFigures(approved, f)
  <2>1. CASE swap
    <3>1. o \in RequestIds /\ f = [approved EXCEPT !.requests[o].status = "Closed"]
      BY <1>3, <2>1
    <3> HIDE DEF o, f, swap
    <3> QED BY <1>5, <3>1, StatusSet
  <2>2. CASE ~swap
    <3>1. f = approved
      BY <2>2
    <3> HIDE DEF f, swap
    <3> QED BY <1>5, <3>1 DEF SameFigures
  <2> QED BY <2>1, <2>2
<1> HIDE DEF f
<1>7. SameFigures(employee, f)
  BY <1>4, <1>5, <1>6 DEF SameFigures
<1> QED BY <1>1, <1>6, <1>7, SameFiguresCommit

LEMMA SettleKeeps ==
  ASSUME Inv, NEW r \in RequestIds, Settle(r)
  PROVE  Inv' /\ BooksKept(employee, employee')
<1> DEFINE f == [employee EXCEPT !.requests[r].status = "Closed"]
<1>1. Commit(f) /\ UNCHANGED <<carryover, now, edits>>
  BY DEF Settle
<1>2. f \in Drafts /\ SameFigures(employee, f)
  BY Whereabouts, StatusSet
<1> HIDE DEF f
<1> QED BY <1>1, <1>2, SameFiguresCommit

--------------------------------------------------------------------------------
(* The administrative edits *)

\* A sequence with one more element at its end.
OneMore(s, x, t) ==
  /\ Len(s) \in Nat /\ DOMAIN s = 1..Len(s) /\ DOMAIN t = 1..(Len(s) + 1) /\ Len(t) = Len(s) + 1
  /\ DOMAIN s \subseteq DOMAIN t /\ Len(s) + 1 \in DOMAIN t
  /\ \A i \in 1..Len(s) : t[i] = s[i]
  /\ t[Len(s) + 1] = x

LEMMA Appended ==
  ASSUME NEW S, NEW s \in Seq(S), NEW x \in S, NEW t, t = Append(s, x)
  PROVE  t \in Seq(S) /\ OneMore(s, x, t)
BY DEF OneMore

LEMMA CommitEditKeeps ==
  ASSUME Inv, NEW e \in Drafts, NEW edit \in Edits, NEW types, CommitEdit(e, edit, types),
         Timeline(e.rows, now), Sound(e, now, YearOf(now)),
         ~Corrected /\ edit # "corrected date" => Sound(e, now, Created),
         BooksKept(employee, e)
  PROVE  Inv' /\ BooksKept(employee, employee')
<1>1. /\ Commit(e) /\ now' = now /\ carryover' = carryover /\ edits' = Append(edits, edit)
  BY DEF CommitEdit
<1>2. edits \in Seq(Edits) /\ carryover \in Carryovers \cup {FirstCarryover}
  BY DEF Inv, TypeOK
<1>3. edits' \in Seq(Edits)
  <2> HIDE DEF Edits
  <2> QED BY <1>1, <1>2, Appended
<1>4. ~Corrected' => ~Corrected /\ edit # "corrected date"
  <2>1. /\ DOMAIN edits \subseteq DOMAIN edits' /\ Len(edits) + 1 \in DOMAIN edits'
        /\ \A i \in DOMAIN edits : edits'[i] = edits[i]
        /\ edits'[Len(edits) + 1] = edit
    <3>1. edits' = Append(edits, edit) /\ edits \in Seq(Edits)
      BY <1>1, <1>2
    <3> HIDE DEF Edits
    <3>2. OneMore(edits, edit, edits')
      BY <3>1, Appended
    <3> QED BY <3>2, Zenon DEF OneMore
  <2> QED BY <2>1 DEF Corrected, Edited
<1> QED BY <1>1, <1>2, <1>3, <1>4, CommitKeeps

\* New terms of employment keep the books sound where no vacation target falls.
LEMMA NewTerms ==
  ASSUME NEW e \in Drafts, NEW f \in Drafts, NEW d \in Dates, NEW since, NEW exempt,
         Sound(e, d, since),
         f.accrued = e.accrued, f.carried = e.carried, f.finalized = e.finalized,
         f.closed = e.closed, f.manual = e.manual,
         \A y \in Years : y >= since /\ y <= YearOf(d) /\ <<"vacation", y>> \notin exempt
                            => Goal(e, "vacation", y, d) <= Goal(f, "vacation", y, d)
  PROVE  SoundBut(f, d, since, exempt)
<1>1. ClosedInOrder(f) /\ NothingEarly(f, d)
  BY DEF Sound, SoundBut, ClosedInOrder, NothingEarly
<1>2. ASSUME NEW k \in LeaveTypes, NEW y \in Years, y >= since, <<k, y>> \notin exempt
      PROVE  Within(f, d, k, y)
  <2>1. /\ Within(e, d, k, y)
        /\ e.closed[k][y] => y < YearOf(d) /\ y + 1 \in Years
        /\ y > YearOf(d) => e.accrued[k][y] = 0 /\ e.manual[k][y] = 0
    BY <1>2, SoundAt
  <2>2. /\ Goal(e, k, y, d) \in Int /\ Goal(f, k, y, d) \in Int /\ e.accrued[k][y] \in Int
        /\ f.manual[k][y] <= Goal(f, k, y, d)
        /\ e.closed[k][y] => e.carried[k][y + 1] \in Nat
    BY <2>1, GoalIs, DraftsAre
  <2>3. y \in Int /\ YearOf(d) \in Int
    BY YearsAreNumbers, YearOfAny
  <2>4. k = "vacation" /\ ~f.closed[k][y] => f.accrued[k][y] <= Goal(f, k, y, d)
    <3> SUFFICES ASSUME k = "vacation", ~f.closed[k][y] PROVE f.accrued[k][y] <= Goal(f, k, y, d)
      OBVIOUS
    <3>1. CASE y <= YearOf(d)
      <4>1. Goal(e, k, y, d) <= Goal(f, k, y, d)
        BY <1>2, <3>1
      <4>2. e.accrued[k][y] <= Goal(e, k, y, d)
        BY <2>1 DEF Within
      <4>3. e.accrued[k][y] <= Goal(f, k, y, d)
        BY <2>2, <4>1, <4>2
      <4> QED BY <4>3
    <3>2. CASE ~(y <= YearOf(d))
      <4>1. y > YearOf(d)
        BY <2>3, <3>2
      <4>2. f.accrued[k][y] = f.manual[k][y]
        BY <2>1, <4>1
      <4> QED BY <2>2, <4>2
    <3> QED BY <3>1, <3>2
  <2>5. k = "vacation" /\ f.closed[k][y] => f.accrued[k][y] + f.carried[k][y + 1] <= Goal(f, k, y, d)
    <3> SUFFICES ASSUME k = "vacation", e.closed[k][y]
                 PROVE  e.accrued[k][y] + e.carried[k][y + 1] <= Goal(f, k, y, d)
      OBVIOUS
    <3>1. y <= YearOf(d)
      BY <2>1, <2>3
    <3>2. Goal(e, k, y, d) <= Goal(f, k, y, d)
      BY <1>2, <3>1
    <3>3. e.accrued[k][y] + e.carried[k][y + 1] <= Goal(e, k, y, d)
      BY <2>1 DEF Within
    <3>4. e.carried[k][y + 1] \in Nat
      BY <2>2
    <3> QED BY <2>2, <3>2, <3>3, <3>4
  <2> QED BY <2>1, <2>4, <2>5 DEF Within
<1> QED BY <1>1, <1>2 DEF SoundBut

LEMMA ReanchoredIs ==
  ASSUME Inv, NEW e \in Drafts, NEW k \in LeaveTypes, NEW since, NEW exempt,
         SoundBut(e, now, since, exempt), ~e.closed[k][YearOf(now)]
  PROVE  LET f == Reanchored(e, k, YearOf(now))
         IN  /\ f \in Drafts /\ Reads(e, f) /\ f.closed = e.closed
             /\ SoundBut(f, now, since, exempt \ {<<k, YearOf(now)>>})
<1> DEFINE y == YearOf(now)
           g == Ensured(e, k, y)
           v == Goal(e, k, y, now)
           f == [g EXCEPT !.accrued[k][y] = v]
<1>1. y \in Years /\ y <= y /\ now \in Dates
  BY Whereabouts
<1>2. g \in Drafts /\ SameFigures(e, g)
  <2> HIDE DEF y
  <2> QED BY <1>1, EnsuredIs
<1>3. v \in Int /\ e.manual[k][y] <= v
  <2> HIDE DEF y
  <2> QED BY <1>1, GoalIs
<1>4. Reanchored(e, k, y) = f
  BY DEF Reanchored, Goal
<1> HIDE DEF g, v
<1>5. f \in Drafts /\ OnlyAccrued(g, f, k, y) /\ f.accrued[k][y] = v
  <2> HIDE DEF y
  <2> QED BY <1>1, <1>2, <1>3, AccruedSet
<1> HIDE DEF f
<1>6. OnlyAccrued(e, f, k, y) /\ f.closed = e.closed
  BY <1>2, <1>5 DEF OnlyAccrued, SameFigures
<1>7. k = "vacation" => f.accrued[k][y] <= Goal(e, k, y, now)
  BY <1>3, <1>5 DEF v
<1>8. e.manual[k][y] <= f.accrued[k][y] /\ y <= YearOf(now) /\ ~e.closed[k][y]
  BY <1>1, <1>3, <1>5
<1>9. SoundBut(f, now, since, exempt \ {<<k, y>>}) /\ Reads(e, f)
  <2> HIDE DEF y
  <2> QED BY <1>1, <1>5, <1>6, <1>7, <1>8, RaisedIs
<1> QED BY <1>4, <1>5, <1>6, <1>9

\* Re-anchoring settles whatever the current year was exempt from.
LEMMA ReanchoredTodayIs ==
  ASSUME Inv, NEW e \in Drafts, NEW since, NEW exempt,
         exempt \subseteq {<<"vacation", YearOf(now)>>, <<"sick", YearOf(now)>>},
         SoundBut(e, now, since, exempt), CurrentYearOpen(e)
  PROVE  LET f == ReanchoredToday(e)
         IN  f \in Drafts /\ Reads(e, f) /\ Sound(f, now, since)
<1> DEFINE y == YearOf(now)
           g == Reanchored(e, "vacation", y)
           f == Reanchored(g, "sick", y)
           rest == exempt \ {<<"vacation", y>>}
<1>1. "vacation" \in LeaveTypes /\ "sick" \in LeaveTypes
  BY DEF LeaveTypes
<1>2. g \in Drafts /\ Reads(e, g) /\ g.closed = e.closed /\ SoundBut(g, now, since, rest)
  <2>1. ~e.closed["vacation"][YearOf(now)]
    BY <1>1 DEF CurrentYearOpen
  <2> QED BY <1>1, <2>1, ReanchoredIs
<1> HIDE DEF g
<1>3. f \in Drafts /\ Reads(g, f) /\ SoundBut(f, now, since, rest \ {<<"sick", y>>})
  <2>1. ~g.closed["sick"][YearOf(now)]
    BY <1>1, <1>2 DEF CurrentYearOpen
  <2> HIDE DEF rest
  <2> QED BY <1>1, <1>2, <2>1, ReanchoredIs
<1>4. rest \ {<<"sick", y>>} = {}
  OBVIOUS
<1>5. ReanchoredToday(e) = f
  BY DEF ReanchoredToday, g
<1> HIDE DEF f, rest
<1>6. Reads(e, f)
  BY <1>2, <1>3 DEF Reads, BooksKept
<1> QED BY <1>3, <1>4, <1>5, <1>6 DEF Sound

\* Entering a start date for the first time takes away from no target: without
\* one, no month had been earned.
LEMMA SetStartDateKeeps ==
  ASSUME Inv, NEW d \in StartDates, SetStartDate(d)
  PROVE  Inv' /\ BooksKept(employee, employee')
<1> DEFINE e == [Today EXCEPT !.anchor = d]
<1>1. d \in Dates /\ d \in Anchors
  BY BooksAssumption DEF Anchors
<1>2. Today \in Drafts /\ Reads(employee, Today)
  BY TodayIs
<1>3. /\ e \in Drafts /\ e.rows = Today.rows /\ e.manual = Today.manual
      /\ e.accrued = Today.accrued /\ e.carried = Today.carried
      /\ e.finalized = Today.finalized /\ e.closed = Today.closed
  BY <1>1, <1>2 DEF Drafts
<1>4. Timeline(employee.rows, now) /\ now \in Dates /\ carryover \in CarryoverSettings
  BY Whereabouts DEF Inv
<1>5. BooksKept(employee, e) /\ e.rows = employee.rows
  BY <1>2, <1>3 DEF Reads, BooksKept
<1>6. CASE employee.anchor # NoDate /\ CommitReanchored(e, "corrected date")
  <2> DEFINE exempt == {<<"vacation", YearOf(now)>>, <<"sick", YearOf(now)>>}
             f == ReanchoredToday(e)
  <2>1. SoundBut(e, now, YearOf(now), exempt)
    <3>1. \A y \in Years : y >= YearOf(now) /\ y <= YearOf(now) => y = YearOf(now)
      BY Whereabouts, YearsAreNumbers
    <3>2. \A y \in Years : y >= YearOf(now) /\ y <= YearOf(now) /\ <<"vacation", y>> \notin exempt
            => Goal(Today, "vacation", y, now) <= Goal(e, "vacation", y, now)
      BY <3>1
    <3> HIDE DEF e, exempt
    <3> QED BY <1>2, <1>3, <1>4, <3>2, TodayIs, NewTerms
  <2>2. CurrentYearOpen(e) /\ CommitEdit(f, "corrected date", LeaveTypes)
    BY <1>6 DEF CommitReanchored
  <2> HIDE DEF e
  <2>3. f \in Drafts /\ Reads(e, f) /\ Sound(f, now, YearOf(now))
    BY <1>3, <2>1, <2>2, ReanchoredTodayIs
  <2> HIDE DEF f
  <2>4. BooksKept(employee, f) /\ f.rows = employee.rows
    BY <1>5, <2>3 DEF Reads, BooksKept
  <2>5. "corrected date" \in Edits
    BY DEF Edits
  <2> QED BY <1>4, <2>2, <2>3, <2>4, <2>5, CommitEditKeeps
<1>7. CASE employee.anchor = NoDate /\ CommitReanchored(Refreshed(e, now, carryover), "first date")
  <2> DEFINE g == Refreshed(e, now, carryover)
             f == ReanchoredToday(g)
  <2>1. ASSUME NEW since, Sound(Today, now, since) PROVE Sound(e, now, since)
    <3>1. Today.anchor = NoDate
      BY <1>2, <1>7 DEF Reads
    <3>2. ASSUME NEW y \in Years
          PROVE  Goal(Today, "vacation", y, now) <= Goal(e, "vacation", y, now)
      <4>1. "vacation" \in LeaveTypes
        BY DEF LeaveTypes
      <4>2. MonthsEarned(Today.anchor, y, now) = 0
        <5> DEFINE n == MonthsEarned(Today.anchor, y, now)
        <5>1. n \in Nat /\ (n > 0 => Today.anchor # NoDate)
          BY <1>2, <1>4, <4>1, DraftsAre, MonthsEarnedIs
        <5> HIDE DEF n
        <5>2. n = 0
          BY <3>1, <5>1
        <5> QED BY <5>2 DEF n
      <4>3. Goal(Today, "vacation", y, now) = Today.manual["vacation"][y]
        BY <1>2, <1>4, <4>1, <4>2, GoalIs
      <4> HIDE DEF e
      <4>4. e.manual["vacation"][y] <= Goal(e, "vacation", y, now)
        BY <1>3, <1>4, <4>1, GoalIs
      <4> QED BY <1>3, <4>3, <4>4
    <3> HIDE DEF e
    <3> QED BY <1>2, <1>3, <1>4, <2>1, <3>2, NewTerms DEF Sound
  <2>2. CurrentYearOpen(g) /\ CommitEdit(f, "first date", LeaveTypes)
    BY <1>7 DEF CommitReanchored
  <2> HIDE DEF e
  <2>3. \A since : Sound(e, now, since) => Advance(e, g, now, since)
    BY <1>3, <1>4, RefreshedIs
  <2> HIDE DEF g
  <2>4. \A since : Sound(Today, now, since) =>
          Advance(e, g, now, since) /\ f \in Drafts /\ Reads(g, f) /\ Sound(f, now, since)
    <3> SUFFICES ASSUME NEW since, Sound(Today, now, since)
                 PROVE  Advance(e, g, now, since) /\ f \in Drafts /\ Reads(g, f) /\ Sound(f, now, since)
      OBVIOUS
    <3>1. Advance(e, g, now, since)
      BY <2>1, <2>3
    <3>2. g \in Drafts /\ SoundBut(g, now, since, {})
      BY <3>1 DEF Advance, Sound
    <3>3. {} \subseteq {<<"vacation", YearOf(now)>>, <<"sick", YearOf(now)>>}
      OBVIOUS
    <3> QED BY <2>2, <3>1, <3>2, <3>3, ReanchoredTodayIs
  <2> HIDE DEF f
  <2>5. /\ f \in Drafts /\ Reads(e, g) /\ Reads(g, f) /\ Sound(f, now, YearOf(now))
        /\ ~Corrected => Sound(f, now, Created)
    BY <2>4, TodayIs DEF Advance
  <2>6. BooksKept(employee, f) /\ f.rows = employee.rows
    BY <1>5, <2>5 DEF Reads, BooksKept
  <2>7. "first date" \in Edits
    BY DEF Edits
  <2> QED BY <1>4, <2>2, <2>5, <2>6, <2>7, CommitEditKeeps
<1> QED BY <1>6, <1>7 DEF SetStartDate

LEMMA AdjustedIs ==
  ASSUME NEW e \in Drafts, NEW d \in Dates, NEW delta \in Int, NEW since, Sound(e, d, since),
         ~e.closed["vacation"][YearOf(d)]
  PROVE  LET y == YearOf(d)
             f == [e EXCEPT !.manual["vacation"][y] = @ + delta,
                            !.accrued["vacation"][y] = @ + delta]
         IN  f \in Drafts /\ f.rows = e.rows /\ BooksKept(e, f) /\ Sound(f, d, since)
<1> DEFINE y == YearOf(d)
           f == [e EXCEPT !.manual["vacation"][y] = @ + delta,
                          !.accrued["vacation"][y] = @ + delta]
<1>1. y \in Years /\ y \in Int /\ \A z \in Years : z \in Int
  BY YearOfDate, YearsAreNumbers
<1>2. "vacation" \in LeaveTypes
  BY DEF LeaveTypes
<1>3. /\ f.anchor = e.anchor /\ f.rows = e.rows /\ f.made = e.made /\ f.carried = e.carried
      /\ f.finalized = e.finalized /\ f.closed = e.closed /\ f.requests = e.requests
      /\ f.ledger = e.ledger
      /\ f.manual = [e.manual EXCEPT !["vacation"][y] = @ + delta]
      /\ f.accrued = [e.accrued EXCEPT !["vacation"][y] = @ + delta]
      /\ f = [e EXCEPT !.manual = f.manual, !.accrued = f.accrued]
  <2> HIDE DEF y
  <2> QED BY DEF Drafts
<1>4. e.manual \in PerYear(Int) /\ e.accrued \in PerYear(Int)
  BY DEF Drafts
<1>5. ~e.closed["vacation"][y]
  OBVIOUS
<1> HIDE DEF y, f
<1>6. e.manual["vacation"][y] \in Int /\ e.accrued["vacation"][y] \in Int
  BY <1>1, <1>2, DraftsAre
<1>7. /\ f.manual \in PerYear(Int) /\ f.accrued \in PerYear(Int)
      /\ f.manual["vacation"][y] = e.manual["vacation"][y] + delta
      /\ f.accrued["vacation"][y] = e.accrued["vacation"][y] + delta
      /\ \A k \in LeaveTypes, z \in Years :
           <<k, z>> # <<"vacation", y>> => f.manual[k][z] = e.manual[k][z] /\ f.accrued[k][z] = e.accrued[k][z]
  BY <1>1, <1>2, <1>3, <1>4, <1>6 DEF PerYear
<1>8. f \in Drafts
  <2>1. [e EXCEPT !.manual = f.manual, !.accrued = f.accrued] \in Drafts
    BY <1>7 DEF Drafts
  <2> QED BY <1>3, <2>1
<1>9. BooksKept(e, f)
  <2>1. ASSUME NEW k \in LeaveTypes, NEW z \in Years, e.closed[k][z]
        PROVE  f.closed[k][z] /\ f.accrued[k][z] = e.accrued[k][z]
    <3>1. <<k, z>> # <<"vacation", y>>
      BY <1>5, <2>1
    <3> QED BY <1>3, <1>7, <2>1, <3>1
  <2> QED BY <2>1 DEF BooksKept
<1>10. ClosedInOrder(f) /\ ClosedInOrder(e) /\ NothingEarly(e, d)
  BY <1>3 DEF ClosedInOrder, Sound, SoundBut
<1>11. NothingEarly(f, d)
  <2>1. ASSUME NEW k \in LeaveTypes, NEW z \in Years, z > YearOf(d)
        PROVE  f.accrued[k][z] = 0 /\ f.manual[k][z] = 0
    <3>1. <<k, z>> # <<"vacation", y>>
      BY <1>1, <2>1 DEF y
    <3>2. e.accrued[k][z] = 0 /\ e.manual[k][z] = 0
      BY <1>10, <2>1 DEF NothingEarly
    <3> QED BY <1>7, <3>1, <3>2
  <2> QED BY <1>3, <1>10, <2>1 DEF NothingEarly
<1>12. ASSUME NEW k \in LeaveTypes, NEW z \in Years, z >= since PROVE Within(f, d, k, z)
  <2>1. Within(e, d, k, z)
    BY <1>12, SoundAt
  <2>2. CASE <<k, z>> # <<"vacation", y>>
    <3>1. f.manual[k][z] = e.manual[k][z] /\ f.accrued[k][z] = e.accrued[k][z]
      BY <1>7, <2>2
    <3>2. Goal(f, k, z, d) = Goal(e, k, z, d)
      BY <1>3, <3>1 DEF Goal
    <3> QED BY <1>3, <2>1, <3>1, <3>2 DEF Within
  <2>3. CASE k = "vacation" /\ z = y
    <3>1. /\ Goal(e, k, z, d) \in Int /\ Goal(f, k, z, d) \in Int
          /\ Goal(f, k, z, d) = Goal(e, k, z, d) + delta
      <4> DEFINE h == HireMonth(e.anchor, z)
                 n == MonthsEarned(e.anchor, z, d)
                 w == Earned(k, e.rows, e.anchor, z, h, n)
      <4>1. /\ Goal(e, k, z, d) \in Int
            /\ n = 0 => Goal(e, k, z, d) = e.manual[k][z]
            /\ n # 0 => Goal(e, k, z, d) = w + e.carried[k][z] + e.manual[k][z]
        BY GoalIs
      <4>2. /\ Goal(f, k, z, d) \in Int
            /\ n = 0 => Goal(f, k, z, d) = f.manual[k][z]
            /\ n # 0 => Goal(f, k, z, d) = w + e.carried[k][z] + f.manual[k][z]
        <5>1. /\ f.anchor = e.anchor /\ f.rows = e.rows /\ f.carried = e.carried
              /\ f.carried[k][z] = e.carried[k][z]
          BY <1>3
        <5>2. LET i == HireMonth(f.anchor, z)
                  j == MonthsEarned(f.anchor, z, d)
              IN  /\ Goal(f, k, z, d) \in Int
                  /\ j = 0 => Goal(f, k, z, d) = f.manual[k][z]
                  /\ j # 0 => Goal(f, k, z, d) =
                                Earned(k, f.rows, f.anchor, z, i, j) + f.carried[k][z] + f.manual[k][z]
          BY <1>8, GoalIs
        <5> QED BY <5>1, <5>2
      <4>3. n # 0 => w \in Nat
        <5>1. h \in 1..(MonthsPerYear + 1) /\ n \in Nat /\ e.rows \in Rosters /\ e.anchor \in Anchors
          BY DraftsAre, HireMonthIs, MonthsEarnedIs
        <5> HIDE DEF h, n
        <5> QED BY <5>1, EarnedIs
      <4>4. e.carried[k][z] \in Nat /\ e.manual[k][z] \in Int /\ f.manual[k][z] = e.manual[k][z] + delta
        BY <1>7, <2>3, DraftsAre
      <4> HIDE DEF n, w
      <4> QED BY <4>1, <4>2, <4>3, <4>4
    <3>2. ~e.closed[k][z] /\ ~f.closed[k][z]
      BY <1>3, <1>5, <2>3
    <3>3. /\ f.manual[k][z] = e.manual[k][z] + delta /\ f.accrued[k][z] = e.accrued[k][z] + delta
          /\ e.manual[k][z] \in Int /\ e.accrued[k][z] \in Int
      BY <1>6, <1>7, <2>3
    <3>4. e.manual[k][z] <= e.accrued[k][z] /\ e.accrued[k][z] <= Goal(e, k, z, d)
      BY <2>1, <2>3, <3>2 DEF Within
    <3>5. f.manual[k][z] <= f.accrued[k][z] /\ f.accrued[k][z] <= Goal(f, k, z, d)
      BY <3>1, <3>3, <3>4
    <3> QED BY <3>2, <3>5 DEF Within
  <2> QED BY <2>2, <2>3
<1>13. Sound(f, d, since)
  BY <1>10, <1>11, <1>12 DEF Sound, SoundBut
<1> QED BY <1>3, <1>8, <1>9, <1>13 DEF f, y

LEMMA AdjustVacationKeeps ==
  ASSUME Inv, NEW delta \in Adjustments, AdjustVacation(delta)
  PROVE  Inv' /\ BooksKept(employee, employee')
<1> DEFINE y == YearOf(now)
           e == AccruedDue(Today, "vacation", y, now, carryover)
           f == [e EXCEPT !.manual["vacation"][y] = @ + delta,
                          !.accrued["vacation"][y] = @ + delta]
<1>1. ~e.closed["vacation"][y] /\ CommitEdit(f, "adjustment", {"vacation"})
  BY DEF AdjustVacation, CommitAdjusted
<1>2. delta \in Int /\ y \in Years /\ now \in Dates /\ now <= now /\ carryover \in CarryoverSettings
  BY Whereabouts, BooksAssumption
<1>3. "vacation" \in LeaveTypes /\ "adjustment" \in Edits
  BY DEF LeaveTypes, Edits
<1>4. Today \in Drafts
  BY TodayIs
<1>5. \A since : Sound(Today, now, since) => Advance(Today, e, now, since)
  <2> HIDE DEF y
  <2> QED BY <1>2, <1>3, <1>4, AccruedDueIs
<1> HIDE DEF e
<1>6. \A since : Sound(Today, now, since) =>
        Advance(Today, e, now, since) /\ f \in Drafts /\ f.rows = e.rows /\ BooksKept(e, f) /\ Sound(f, now, since)
  <2> SUFFICES ASSUME NEW since, Sound(Today, now, since)
               PROVE  Advance(Today, e, now, since) /\ f \in Drafts /\ f.rows = e.rows
                      /\ BooksKept(e, f) /\ Sound(f, now, since)
    OBVIOUS
  <2>1. Advance(Today, e, now, since)
    BY <1>5
  <2>2. e \in Drafts /\ Sound(e, now, since)
    BY <2>1 DEF Advance
  <2> QED BY <1>1, <1>2, <2>1, <2>2, AdjustedIs
<1> HIDE DEF f
<1>7. /\ f \in Drafts /\ Reads(employee, Today) /\ Reads(Today, e) /\ BooksKept(e, f) /\ f.rows = e.rows
      /\ Sound(f, now, YearOf(now)) /\ (~Corrected => Sound(f, now, Created))
  BY <1>6, TodayIs DEF Advance
<1>8. BooksKept(employee, f) /\ f.rows = employee.rows
  BY <1>7 DEF Reads, BooksKept
<1>9. Timeline(f.rows, now)
  BY <1>8 DEF Inv
<1> QED BY <1>1, <1>3, <1>7, <1>8, <1>9, CommitEditKeeps

LEMMA SetCarryoverKeeps ==
  ASSUME Inv, NEW settings \in Carryovers, SetCarryover(settings)
  PROVE  Inv' /\ BooksKept(employee, employee')
<1>1. /\ carryover' = settings /\ edits' = Append(edits, "carryover")
      /\ employee' = employee /\ now' = now
  BY DEF SetCarryover
<1>2. "carryover" \in Edits /\ edits \in Seq(Edits)
  BY DEF Edits, Inv, TypeOK
<1>3. edits' \in Seq(Edits) /\ OneMore(edits, "carryover", edits')
  <2> HIDE DEF Edits
  <2> QED BY <1>1, <1>2, Appended
<1>4. ~Corrected' => ~Corrected
  BY <1>3, Zenon DEF OneMore, Corrected, Edited
<1>5. TypeOK'
  BY <1>1, <1>3 DEF Inv, TypeOK
<1>6. Sound(employee', now', YearOf(now')) /\ (~Corrected' => Sound(employee', now', Created))
  BY <1>1, <1>4 DEF Inv
<1>7. Sound(employee, now, YearOf(now))' /\ (~Corrected' => Sound(employee, now, Created)')
  <2>1. Sound(employee', now', YearOf(now')) => Sound(employee, now, YearOf(now))'
    BY DEF Sound, SoundBut, ClosedInOrder, NothingEarly, Within, Goal
  <2>2. Sound(employee', now', Created) => Sound(employee, now, Created)'
    BY DEF Sound, SoundBut, ClosedInOrder, NothingEarly, Within, Goal
  <2> QED BY <1>6, <2>1, <2>2
<1>8. Timeline(employee.rows, now)' /\ employee' \in Drafts
  BY <1>1 DEF Inv, Timeline
<1>9. BooksKept(employee, employee')
  BY <1>1 DEF BooksKept
<1> QED BY <1>5, <1>7, <1>8, <1>9 DEF Inv

\* A new account: nothing has been earned yet.
LEMMA InitIsSound ==
  ASSUME Init
  PROVE  Inv
<1> DEFINE e == NewEmployee
           row == [policy |-> FirstPolicy, from |-> FirstOfYear(Created), to |-> NoDate]
<1>1. employee = e /\ carryover = FirstCarryover /\ now = FirstDay /\ edits = <<>>
  BY DEF Init
<1>2. /\ FirstDay \in Dates /\ LastDay \in Dates /\ FirstDay <= LastDay /\ FirstPolicy \in Policies
      /\ FirstDay \in Int /\ LastDay \in Int
  BY BooksAssumption, YearsAreNumbers
<1>3. Created \in Years /\ Created = YearOf(FirstDay)
  BY <1>2, YearOfDate DEF Created
<1>4. row \in Membership /\ row.from = FirstOfYear(Created) /\ row.to = NoDate
  <2>1. 1 \in 1..MonthsPerYear
    BY CalendarAssumption
  <2>2. FirstOfMonth(Created, 1) \in Dates
    BY <1>3, <2>1, FirstOfMonthIs
  <2> QED BY <1>2, <2>2 DEF Membership, FirstOfYear
<1> HIDE DEF row
<1>5. /\ e.anchor = NoDate /\ e.rows = <<row>> /\ e.ledger = <<>>
      /\ \A k \in LeaveTypes, y \in Years :
           /\ e.accrued[k][y] = 0 /\ e.carried[k][y] = 0 /\ e.manual[k][y] = 0
           /\ ~e.finalized[k][y] /\ ~e.closed[k][y]
  BY DEF NewEmployee, row
<1>6. /\ <<row>> \in Seq(Membership) /\ <<row>> \in Rosters
      /\ <<>> \in Seq([type : LeaveTypes, date : Dates, kind : {"accrual", "close", "spent"}])
      /\ <<>> \in Seq(Entries)
  BY <1>4 DEF Rosters
<1>7. AbsentRequest \in Requests
  BY DEF AbsentRequest, Requests, LeaveTypes
<1>8. e \in Employees /\ e \in Drafts
  <2>1. /\ [k \in LeaveTypes |-> [y \in Years |-> 0]] \in PerYear(Nat)
        /\ [k \in LeaveTypes |-> [y \in Years |-> 0]] \in PerYear(Int)
        /\ [k \in LeaveTypes |-> [y \in Years |-> y = Created]] \in PerYear(BOOLEAN)
        /\ [k \in LeaveTypes |-> [y \in Years |-> FALSE]] \in PerYear(BOOLEAN)
        /\ [r \in RequestIds |-> AbsentRequest] \in [RequestIds -> Requests]
    BY <1>7 DEF PerYear
  <2>2. e = [ anchor |-> NoDate, rows |-> <<row>>,
              accrued   |-> [k \in LeaveTypes |-> [y \in Years |-> 0]],
              made      |-> [k \in LeaveTypes |-> [y \in Years |-> y = Created]],
              carried   |-> [k \in LeaveTypes |-> [y \in Years |-> 0]],
              finalized |-> [k \in LeaveTypes |-> [y \in Years |-> FALSE]],
              closed    |-> [k \in LeaveTypes |-> [y \in Years |-> FALSE]],
              manual    |-> [k \in LeaveTypes |-> [y \in Years |-> 0]],
              requests  |-> [r \in RequestIds |-> AbsentRequest],
              ledger    |-> <<>> ]
    BY DEF NewEmployee, row
  <2> HIDE DEF e
  <2> QED BY <1>6, <2>1, <2>2 DEF Employees, Drafts, Anchors
<1> HIDE DEF e
<1>9. TypeOK
  BY <1>1, <1>2, <1>8 DEF TypeOK
<1>10. Timeline(employee.rows, now)
  <2>1. employee.rows = <<row>> /\ Len(<<row>>) = 1 /\ DOMAIN <<row>> = {1} /\ <<row>>[1] = row
    BY <1>1, <1>5
  <2> QED BY <1>4, <2>1 DEF Timeline
<1>11. ASSUME NEW since PROVE Sound(e, now, since)
  <2>1. ClosedInOrder(e) /\ NothingEarly(e, now)
    BY <1>5 DEF ClosedInOrder, NothingEarly
  <2>2. ASSUME NEW k \in LeaveTypes, NEW y \in Years PROVE Within(e, now, k, y)
    <3>1. now \in Dates
      BY <1>1, <1>2
    <3>2. e.manual[k][y] <= Goal(e, k, y, now) /\ e.manual[k][y] = 0 /\ e.accrued[k][y] = 0
          /\ ~e.closed[k][y]
      BY <1>5, <1>8, <3>1, GoalIs
    <3> QED BY <3>2 DEF Within
  <2> QED BY <2>1, <2>2 DEF Sound, SoundBut
<1> QED BY <1>1, <1>8, <1>9, <1>10, <1>11 DEF Inv

--------------------------------------------------------------------------------
(* Transfers *)

\* Two timelines agree on year y: they share their first rows, and all others
\* start later.
Agree(rows, other, n, y) ==
  /\ n \in Nat \ {0} /\ n <= Len(rows) /\ n <= Len(other)
  /\ \A i \in 1..n : other[i].policy = rows[i].policy /\ other[i].from = rows[i].from
  /\ \A i \in DOMAIN rows : i > n => YearOf(rows[i].from) > y
  /\ \A i \in DOMAIN other : i > n => YearOf(other[i].from) > y

SamePast(rows, other, y) == \E n : Agree(rows, other, n, y)

LEMMA SameOwner ==
  ASSUME NEW rows \in Rosters, NEW other \in Rosters, NEW y \in Years, SamePast(rows, other, y),
         NEW m \in 1..MonthsPerYear
  PROVE  Owner(other, y, m) = Owner(rows, y, m)
<1>1. PICK n : Agree(rows, other, n, y)
  BY DEF SamePast
<1>2. n \in Nat \ {0} /\ n <= Len(rows) /\ n <= Len(other)
  BY <1>1 DEF Agree
<1>3. y \in Int /\ MonthsPerYear \in Int /\ m \in Int /\ m <= MonthsPerYear
  BY YearsAreNumbers, YearsAreLong
<1> DEFINE S(t) == {i \in DOMAIN t : i = 1 \/ StartMonth(t, i, y) <= m}
<1>4. ASSUME NEW t \in Rosters, n <= Len(t), \A i \in DOMAIN t : i > n => YearOf(t[i].from) > y
      PROVE  S(t) = {i \in 1..n : i = 1 \/ StartMonth(t, i, y) <= m}
  <2>1. DOMAIN t = 1..Len(t) /\ Len(t) \in Nat /\ \A i \in DOMAIN t : t[i].from \in Dates
    BY RostersAre
  <2>2. ASSUME NEW i \in DOMAIN t, i > n PROVE ~(i = 1 \/ StartMonth(t, i, y) <= m)
    <3>1. i # 1 /\ YearOf(t[i].from) > y /\ YearOf(t[i].from) \in Int
      <4>1. i # 1
        BY <1>2, <2>2
      <4>2. t[i].from \in Int
        BY <2>1, YearsAreNumbers
      <4> QED BY <1>4, <2>2, <4>1, <4>2, YearOfAny
    <3>2. StartMonth(t, i, y) = MonthsPerYear + 1
      BY <1>3, <3>1 DEF StartMonth
    <3> QED BY <1>3, <3>1, <3>2
  <2>3. \A i : i \in 1..n <=> i \in DOMAIN t /\ ~(i > n)
    BY <1>2, <1>4, <2>1
  <2> QED BY <2>2, <2>3
<1>5. S(rows) = {i \in 1..n : i = 1 \/ StartMonth(rows, i, y) <= m}
  <2>1. \A i \in DOMAIN rows : i > n => YearOf(rows[i].from) > y
    BY <1>1 DEF Agree
  <2> HIDE DEF S
  <2> QED BY <1>2, <1>4, <2>1
<1>6. S(other) = {i \in 1..n : i = 1 \/ StartMonth(other, i, y) <= m}
  <2>1. \A i \in DOMAIN other : i > n => YearOf(other[i].from) > y
    BY <1>1 DEF Agree
  <2> HIDE DEF S
  <2> QED BY <1>2, <1>4, <2>1
<1>7. \A i \in 1..n : other[i].policy = rows[i].policy /\ other[i].from = rows[i].from
  BY <1>1 DEF Agree
<1>8. \A i \in 1..n : StartMonth(other, i, y) = StartMonth(rows, i, y)
  BY <1>7 DEF StartMonth
<1>9. S(other) = S(rows)
  <2> HIDE DEF S
  <2> QED BY <1>5, <1>6, <1>8
<1>10. Max(S(rows)) \in 1..n
  <2>1. S(rows) \subseteq 1..n /\ 1 \in S(rows) /\ IsFiniteSet(1..n) /\ 1..n \subseteq Nat
    <3>1. 1 \in 1..n /\ 1..n \subseteq Nat
      BY <1>2
    <3>2. IsFiniteSet(1..n)
      BY <1>2, FS_Interval
    <3> HIDE DEF S
    <3> QED BY <1>5, <3>1, <3>2
  <2> HIDE DEF S
  <2>2. Max(S(rows)) \in S(rows)
    BY <2>1, FS_Subset, MaxIn
  <2> QED BY <2>1, <2>2
<1>11. Owner(rows, y, m) = rows[Max(S(rows))].policy /\ Owner(other, y, m) = other[Max(S(other))].policy
  BY DEF Owner
<1> HIDE DEF S
<1> QED BY <1>7, <1>9, <1>10, <1>11

\* So the vacation they grant in that year is the same.
LEMMA SameGrant ==
  ASSUME NEW e \in Drafts, NEW f \in Drafts, NEW y \in Years, NEW d \in Dates,
         SamePast(e.rows, f.rows, y), f.anchor = e.anchor, f.carried = e.carried, f.manual = e.manual
  PROVE  Goal(f, "vacation", y, d) = Goal(e, "vacation", y, d)
<1> DEFINE h == HireMonth(e.anchor, y)
           n == MonthsEarned(e.anchor, y, d)
           last == Min({h + n - 1, MonthsPerYear})
<1>1. "vacation" \in LeaveTypes /\ e.anchor \in Anchors /\ e.rows \in Rosters /\ f.rows \in Rosters
  BY DraftsAre DEF LeaveTypes
<1>2. /\ h \in 1..(MonthsPerYear + 1) /\ n \in Nat /\ MonthsPerYear \in Int
      /\ n > 0 => h + n - 1 <= MonthsPerYear
  BY <1>1, HireMonthIs, MonthsEarnedIs, YearsAreLong
<1>3. n # 0 => Earned("vacation", f.rows, e.anchor, y, h, n) = Earned("vacation", e.rows, e.anchor, y, h, n)
  <2> SUFFICES ASSUME n # 0
               PROVE  Earned("vacation", f.rows, e.anchor, y, h, n)
                        = Earned("vacation", e.rows, e.anchor, y, h, n)
    OBVIOUS
  <2>1. last = h + n - 1
    <3> DEFINE a == h + n - 1
    <3> HIDE DEF h, n
    <3>1. a \in Int /\ a <= MonthsPerYear /\ MonthsPerYear \in Int
      BY <1>2
    <3> HIDE DEF a
    <3>2. Min({a, MonthsPerYear}) = a
      BY <3>1, MaxOfTwo
    <3> QED BY <3>2 DEF a
  <2>2. \A m \in h..last : m \in 1..MonthsPerYear
    <3> HIDE DEF h, n, last
    <3> QED BY <1>2, <2>1
  <2>3. \A m \in h..last : Owner(f.rows, y, m) = Owner(e.rows, y, m)
    <3> HIDE DEF h, last
    <3> QED BY <1>1, <2>2, SameOwner
  <2> HIDE DEF h, n, last
  <2>4. Earnings(f.rows, e.anchor, y, h..last) = Earnings(e.rows, e.anchor, y, h..last)
    BY <2>3 DEF Earnings
  <2>5. EarnedVacation(f.rows, e.anchor, y, h..last) = EarnedVacation(e.rows, e.anchor, y, h..last)
    BY <2>4 DEF EarnedVacation
  <2> QED BY <2>5 DEF Earned, last
<1>4. /\ n = 0 => Goal(e, "vacation", y, d) = e.manual["vacation"][y]
      /\ n # 0 => Goal(e, "vacation", y, d) = Earned("vacation", e.rows, e.anchor, y, h, n)
                     + e.carried["vacation"][y] + e.manual["vacation"][y]
  BY <1>1, GoalIs
<1>5. LET i == HireMonth(f.anchor, y)
          j == MonthsEarned(f.anchor, y, d)
      IN  /\ j = 0 => Goal(f, "vacation", y, d) = f.manual["vacation"][y]
          /\ j # 0 => Goal(f, "vacation", y, d) = Earned("vacation", f.rows, f.anchor, y, i, j)
                         + f.carried["vacation"][y] + f.manual["vacation"][y]
  BY <1>1, GoalIs
<1>6. /\ n = 0 => Goal(f, "vacation", y, d) = e.manual["vacation"][y]
      /\ n # 0 => Goal(f, "vacation", y, d) = Earned("vacation", f.rows, e.anchor, y, h, n)
                     + e.carried["vacation"][y] + e.manual["vacation"][y]
  BY <1>5
<1> HIDE DEF h, n
<1> QED BY <1>3, <1>4, <1>6

LEMMA IntegersAreOrdered ==
  /\ \A a \in Int : a <= a /\ a >= a
  /\ \A a, b \in Int : (a <= b <=> b >= a) /\ (a <= b /\ a # b => a < b) /\ (a < b => a <= b)
  /\ \A a, b, c \in Int : a <= b /\ b <= c => a <= c
OBVIOUS

\* New rows that leave the past years alone keep the books sound.
LEMMA NewRowsKeep ==
  ASSUME Inv, NEW rows \in Rosters, Timeline(rows, now),
         \A y \in Years : Created <= y /\ y < YearOf(now) => SamePast(employee.rows, rows, y),
         NEW edit \in Edits, edit # "corrected date",
         CommitReanchored([Today EXCEPT !.rows = rows], edit)
  PROVE  Inv' /\ BooksKept(employee, employee')
<1> DEFINE e == [Today EXCEPT !.rows = rows]
           f == ReanchoredToday(e)
           exempt == {<<"vacation", YearOf(now)>>, <<"sick", YearOf(now)>>}
<1>1. Today \in Drafts /\ Reads(employee, Today) /\ now \in Dates
  BY TodayIs, Whereabouts
<1>2. /\ e \in Drafts /\ e.rows = rows /\ e.anchor = Today.anchor /\ e.manual = Today.manual
      /\ e.accrued = Today.accrued /\ e.carried = Today.carried
      /\ e.finalized = Today.finalized /\ e.closed = Today.closed
  BY <1>1 DEF Drafts
<1>3. CurrentYearOpen(e) /\ CommitEdit(f, edit, LeaveTypes)
  BY DEF CommitReanchored
<1>4. BooksKept(employee, e)
  BY <1>1, <1>2 DEF Reads, BooksKept
<1> HIDE DEF e
<1>0. /\ YearOf(now) \in Int /\ Created \in Int /\ YearOf(now) >= Created /\ Created >= Created
      /\ \A y \in Years : y \in Int
  <2>1. YearOf(now) \in Int /\ Created \in Int /\ Created <= YearOf(now)
    BY Whereabouts
  <2>2. \A y \in Years : y \in Int
    BY YearsAreNumbers
  <2> QED BY <2>1, <2>2, IntegersAreOrdered, Zenon
<1>5. ASSUME NEW y \in Years, y >= Created, y <= YearOf(now), <<"vacation", y>> \notin exempt
      PROVE  Goal(Today, "vacation", y, now) <= Goal(e, "vacation", y, now)
  <2>1. Created <= y /\ y < YearOf(now)
    <3>1. y # YearOf(now)
      BY <1>5
    <3> HIDE DEF exempt
    <3> QED BY <1>0, <1>5, <3>1, IntegersAreOrdered, Zenon
  <2>2. SamePast(Today.rows, e.rows, y)
    BY <1>1, <1>2, <2>1 DEF Reads
  <2>3. Goal(e, "vacation", y, now) = Goal(Today, "vacation", y, now)
    BY <1>1, <1>2, <2>2, SameGrant
  <2>4. Goal(Today, "vacation", y, now) \in Int
    BY <1>1, GoalIs DEF LeaveTypes
  <2> QED BY <2>3, <2>4, IntegersAreOrdered, Zenon
<1>6. ASSUME NEW since \in Int, since >= Created, Sound(Today, now, since)
      PROVE  f \in Drafts /\ Reads(e, f) /\ Sound(f, now, since)
  <2>1. \A y \in Years : y >= since => y >= Created
    BY <1>0, <1>6, IntegersAreOrdered, Zenon
  <2>2. \A y \in Years : y >= since /\ y <= YearOf(now) /\ <<"vacation", y>> \notin exempt
          => Goal(Today, "vacation", y, now) <= Goal(e, "vacation", y, now)
    <3> HIDE DEF exempt
    <3> QED BY <1>5, <2>1
  <2>3. SoundBut(e, now, since, exempt)
    <3> HIDE DEF exempt
    <3> QED BY <1>1, <1>2, <1>6, <2>2, NewTerms
  <2> QED BY <1>2, <1>3, <2>3, ReanchoredTodayIs
<1> HIDE DEF f, exempt
<1>7. /\ f \in Drafts /\ Reads(e, f) /\ Sound(f, now, YearOf(now))
      /\ ~Corrected => Sound(f, now, Created)
  <2> QED BY <1>0, <1>6, TodayIs
<1>8. BooksKept(employee, f) /\ f.rows = rows
  BY <1>2, <1>4, <1>7 DEF Reads, BooksKept
<1> QED BY <1>3, <1>7, <1>8, CommitEditKeeps

LEMMA Ordered ==
  ASSUME NEW rows \in Rosters, NEW d, Timeline(rows, d),
         NEW i \in DOMAIN rows, NEW j \in DOMAIN rows, i <= j
  PROVE  rows[i].from <= rows[j].from
<1> DEFINE S == {n \in Nat : \A a, b \in DOMAIN rows : b = a + n => rows[a].from <= rows[b].from}
<1>1. DOMAIN rows = 1..Len(rows) /\ Len(rows) \in Nat /\ \A a \in DOMAIN rows : rows[a].from \in Int
  BY RostersAre, YearsAreNumbers
<1>2. 0 \in S
  BY <1>1
<1>3. ASSUME NEW n \in Nat, n \in S PROVE n + 1 \in S
  <2>1. ASSUME NEW a \in DOMAIN rows, NEW b \in DOMAIN rows, b = a + (n + 1)
        PROVE  rows[a].from <= rows[b].from
    <3>1. a + n \in DOMAIN rows /\ a + n < Len(rows) /\ b = (a + n) + 1 /\ a + n \in Int
      BY <1>1, <2>1
    <3>2. rows[a].from <= rows[a + n].from
      BY <1>3, <3>1
    <3>3. rows[a + n].from <= rows[(a + n) + 1].from
      BY <3>1 DEF Timeline
    <3> QED BY <1>1, <3>1, <3>2, <3>3
  <2> QED BY <2>1
<1> HIDE DEF S
<1>4. Nat \subseteq S
  BY <1>2, <1>3, Induction
<1>5. j - i \in S /\ j = i + (j - i)
  BY <1>1, <1>4
<1> QED BY <1>5 DEF S

\* The row a transfer opens.
NewRow(p, from) == [policy |-> p, from |-> from, to |-> NoDate]

LEMMA ClosedTimeline ==
  ASSUME NEW rows \in Rosters, NEW d \in Dates, Timeline(rows, d), rows[Len(rows)].from <= d,
         NEW from \in Dates, rows[Len(rows)].from <= from, NEW p \in Policies,
         NEW t, t = Append(ClosedAt(rows, from), NewRow(p, from))
  PROVE  /\ t \in Rosters /\ Timeline(t, d)
         /\ \A y \in Years : y < YearOf(from) => SamePast(rows, t, y)
<1> DEFINE n == Len(rows)
           s == ClosedAt(rows, from)
           x == NewRow(p, from)
<1>1. /\ DOMAIN rows = 1..n /\ n \in Nat \ {0} /\ 1 \in DOMAIN rows
      /\ \A i \in DOMAIN rows : rows[i] \in Membership /\ rows[i].from \in Dates /\ rows[i].from \in Int
  BY RostersAre, YearsAreNumbers
<1>2. x \in Membership /\ x.from = from /\ x.to = NoDate /\ from # NoDate /\ from \in Int
  BY DatesAreDays, YearsAreNumbers DEF NewRow, Membership
<1>3. \A i \in 1..n : s[i] = IF rows[i].to = NoDate THEN [rows[i] EXCEPT !.to = from] ELSE rows[i]
  BY <1>1 DEF ClosedAt
<1>4. ASSUME NEW i \in 1..n
      PROVE  /\ s[i] \in Membership /\ s[i].policy = rows[i].policy /\ s[i].from = rows[i].from
             /\ s[i].to = IF rows[i].to = NoDate THEN from ELSE rows[i].to
  BY <1>1, <1>3 DEF Membership
<1>5. s \in Seq(Membership) /\ Len(s) = n
  <2>1. DOMAIN s = 1..n
    BY <1>1 DEF ClosedAt
  <2>2. s = [i \in 1..n |-> s[i]]
    BY <1>1 DEF ClosedAt
  <2> HIDE DEF s, n
  <2> QED BY <1>1, <1>4, <2>1, <2>2
<1> HIDE DEF s, x, n
<1>6. t \in Seq(Membership) /\ OneMore(s, x, t)
  BY <1>2, <1>5, Appended DEF s, x
<1>7. /\ Len(t) = n + 1 /\ DOMAIN t = 1..(n + 1) /\ t[n + 1] = x /\ \A i \in 1..n : t[i] = s[i]
  BY <1>5, <1>6 DEF OneMore
<1>8. t \in Rosters
  BY <1>1, <1>6, <1>7 DEF Rosters
<1>9. /\ rows[1].from = FirstOfYear(Created)
      /\ \A i \in 1..n : rows[i].to = NoDate <=> i = n
      /\ \A i \in 1..n : i < n => /\ rows[i].from <= rows[i + 1].from
                                  /\ rows[i].to = rows[i + 1].from
                                  /\ rows[i].from <= d
  BY <1>1 DEF Timeline, n
<1>10. rows[n].from <= d /\ rows[n].from <= from
  BY DEF n
<1>11. ASSUME NEW i \in 1..(n + 1)
       PROVE  /\ t[i].to = NoDate <=> i = n + 1
              /\ i < n + 1 => /\ t[i].from <= t[i + 1].from
                              /\ t[i].to = t[i + 1].from
                              /\ t[i].from <= d
  <2>1. CASE i = n + 1
    <3>1. t[i].to = NoDate
      BY <1>2, <1>7, <2>1
    <3>2. ~(i < n + 1)
      BY <1>1, <2>1
    <3> QED BY <2>1, <3>1, <3>2, Zenon
  <2>2. CASE i = n
    <3>1. i \in 1..n /\ i # n + 1 /\ i < n + 1 /\ i + 1 = n + 1
      BY <1>1, <2>2
    <3>2. t[i].from = rows[i].from /\ t[i].to = from /\ t[i + 1].from = from
      BY <1>2, <1>4, <1>7, <1>9, <2>2, <3>1
    <3> QED BY <1>2, <1>10, <2>2, <3>1, <3>2
  <2>3. CASE i < n
    <3>1. i \in 1..n /\ i # n + 1 /\ i < n + 1 /\ i + 1 \in 1..n /\ i # n
      BY <1>1, <2>3
    <3>2. t[i].from = rows[i].from /\ t[i + 1].from = rows[i + 1].from /\ t[i].to = rows[i].to
      BY <1>4, <1>7, <1>9, <3>1
    <3> QED BY <1>9, <2>3, <3>1, <3>2
  <2>4. i = n + 1 \/ i = n \/ i < n
    BY <1>1
  <2> QED BY <2>1, <2>2, <2>3, <2>4, Zenon
<1>12. Timeline(t, d)
  <2>1. t[1].from = FirstOfYear(Created)
    BY <1>1, <1>4, <1>7, <1>9
  <2> QED BY <1>7, <1>11, <2>1 DEF Timeline
<1>13. ASSUME NEW y \in Years, y < YearOf(from) PROVE SamePast(rows, t, y)
  <2>1. n <= Len(rows) /\ n <= Len(t)
    BY <1>1, <1>7 DEF n
  <2>2. \A i \in 1..n : t[i].policy = rows[i].policy /\ t[i].from = rows[i].from
    BY <1>4, <1>7
  <2>3. \A i \in DOMAIN rows : ~(i > n)
    BY <1>1
  <2>4. ASSUME NEW i \in DOMAIN t, i > n PROVE YearOf(t[i].from) > y
    <3>1. i = n + 1
      BY <1>1, <1>7, <2>4
    <3>2. y \in Int /\ YearOf(from) \in Int
      BY <1>2, YearsAreNumbers, YearOfAny
    <3> QED BY <1>2, <1>7, <1>13, <3>1, <3>2
  <2>5. Agree(rows, t, n, y)
    BY <1>1, <2>1, <2>2, <2>3, <2>4 DEF Agree
  <2> QED BY <2>5 DEF SamePast
<1> QED BY <1>8, <1>12, <1>13

\* The rows that begin before a date are the first ones.
LEMMA EarlierRows ==
  ASSUME NEW rows \in Rosters, NEW d, Timeline(rows, d), NEW from \in Dates
  PROVE  \E m \in 0..Len(rows) : {j \in DOMAIN rows : rows[j].from < from} = 1..m
<1> DEFINE S == {j \in DOMAIN rows : rows[j].from < from}
<1>1. /\ DOMAIN rows = 1..Len(rows) /\ Len(rows) \in Nat /\ from \in Int
      /\ \A i \in DOMAIN rows : rows[i].from \in Int
  BY RostersAre, YearsAreNumbers
<1>2. IsFiniteSet(S) /\ S \subseteq Nat /\ S \subseteq 1..Len(rows)
  <2>1. IsFiniteSet(1..Len(rows))
    BY <1>1, FS_Interval
  <2>2. S \subseteq 1..Len(rows)
    BY <1>1
  <2>3. 1..Len(rows) \subseteq Nat
    BY <1>1
  <2> HIDE DEF S
  <2> QED BY <2>1, <2>2, <2>3, FS_Subset
<1>3. CASE S = {}
  <2>1. 0 \in 0..Len(rows) /\ 1..0 = {}
    BY <1>1
  <2> QED BY <1>3, <2>1
<1>4. CASE S # {}
  <2> DEFINE m == Max(S)
  <2>1. m \in S /\ \A j \in S : j <= m
    <3> HIDE DEF S
    <3> QED BY <1>2, <1>4, MaxIn
  <2> HIDE DEF m
  <2>2. m \in DOMAIN rows /\ m \in 0..Len(rows) /\ m \in Nat /\ m <= Len(rows) /\ rows[m].from < from
    BY <1>1, <2>1
  <2>3. ASSUME NEW j \in 1..m PROVE j \in S
    <3>1. j \in DOMAIN rows /\ j <= m
      BY <1>1, <2>2
    <3>2. rows[j].from <= rows[m].from
      BY <2>2, <3>1, Ordered
    <3> QED BY <1>1, <2>2, <3>1, <3>2
  <2>4. ASSUME NEW j \in S PROVE j \in 1..m
    BY <1>1, <2>1, <2>2
  <2> QED BY <2>2, <2>3, <2>4
<1> QED BY <1>3, <1>4

LEMMA RewrittenTimeline ==
  ASSUME NEW rows \in Rosters, NEW d \in Dates, Timeline(rows, d),
         NEW from \in Dates, from <= d, FirstOfYear(Created) <= from, NEW p \in Policies,
         NEW t, t = Append(Rewritten(rows, from), NewRow(p, from))
  PROVE  /\ t \in Rosters /\ Timeline(t, d)
         /\ \A y \in Years : Created <= y /\ y < YearOf(from) => SamePast(rows, t, y)
<1> DEFINE n == Len(rows)
           s == Rewritten(rows, from)
           x == NewRow(p, from)
           S == {j \in DOMAIN rows : rows[j].from < from}
<1>1. /\ DOMAIN rows = 1..n /\ n \in Nat \ {0} /\ 1 \in DOMAIN rows
      /\ \A i \in DOMAIN rows : rows[i] \in Membership /\ rows[i].from \in Dates /\ rows[i].from \in Int
                                  /\ rows[i].to \in Int
  <2>1. Anchors \subseteq Int
    BY DatesAreDays DEF Anchors
  <2> QED BY <2>1, RostersAre, YearsAreNumbers
<1>2. x \in Membership /\ x.from = from /\ x.to = NoDate /\ from # NoDate /\ from \in Int
  BY DatesAreDays, YearsAreNumbers DEF NewRow, Membership
<1>3. PICK m \in 0..n : S = 1..m
  BY EarlierRows
<1>4. m \in Nat /\ m <= n /\ \A i \in 1..m : i \in 1..n /\ rows[i].from < from
  BY <1>1, <1>3
<1>5. m < n => m + 1 \in 1..n /\ from <= rows[m + 1].from
  <2> SUFFICES ASSUME m < n PROVE m + 1 \in 1..n /\ from <= rows[m + 1].from
    OBVIOUS
  <2>1. m + 1 \in 1..n /\ m + 1 \notin 1..m
    BY <1>1, <1>4
  <2>2. ~(rows[m + 1].from < from)
    BY <1>1, <1>3, <2>1
  <2> QED BY <1>1, <1>2, <2>1, <2>2
<1>6. DOMAIN s = 1..m /\ s = [i \in 1..m |-> s[i]]
      /\ \A i \in 1..m : s[i] = IF rows[i].to = NoDate \/ rows[i].to > from
                                 THEN [rows[i] EXCEPT !.to = from] ELSE rows[i]
  BY <1>3 DEF Rewritten
<1> HIDE DEF s, x, S
<1>7. ASSUME NEW i \in 1..m
      PROVE  /\ s[i] \in Membership /\ s[i].policy = rows[i].policy /\ s[i].from = rows[i].from
             /\ s[i].to = IF rows[i].to = NoDate \/ rows[i].to > from THEN from ELSE rows[i].to
  BY <1>1, <1>4, <1>6 DEF Membership
<1>8. s \in Seq(Membership) /\ Len(s) = m
  <2> HIDE DEF n
  <2> QED BY <1>4, <1>6, <1>7
<1>9. t \in Seq(Membership) /\ OneMore(s, x, t)
  BY <1>2, <1>8, Appended DEF s, x
<1> HIDE DEF n
<1>10. /\ Len(t) = m + 1 /\ DOMAIN t = 1..(m + 1) /\ t[m + 1] = x /\ \A i \in 1..m : t[i] = s[i]
  BY <1>8, <1>9 DEF OneMore
<1>11. t \in Rosters
  BY <1>4, <1>9, <1>10 DEF Rosters
<1>12. /\ rows[1].from = FirstOfYear(Created)
       /\ \A i \in 1..n : rows[i].to = NoDate <=> i = n
       /\ \A i \in 1..n : i < n => /\ rows[i].from <= rows[i + 1].from
                                   /\ rows[i].to = rows[i + 1].from
  BY <1>1 DEF Timeline, n
<1>13. d \in Int /\ from <= d
  BY YearsAreNumbers
<1>14. ASSUME NEW i \in 1..(m + 1)
       PROVE  /\ t[i].to = NoDate <=> i = m + 1
              /\ i < m + 1 => /\ t[i].from <= t[i + 1].from
                              /\ t[i].to = t[i + 1].from
                              /\ t[i].from <= d
  <2>1. CASE i = m + 1
    <3>1. t[i].to = NoDate
      BY <1>2, <1>10, <2>1
    <3>2. ~(i < m + 1)
      BY <1>4, <2>1
    <3> QED BY <2>1, <3>1, <3>2, Zenon
  <2>2. CASE i = m
    <3>1. i \in 1..m /\ i \in 1..n /\ i # m + 1 /\ i < m + 1 /\ i + 1 = m + 1
      BY <1>4, <2>2
    <3>2. t[i].from = rows[i].from /\ t[i + 1].from = from /\ rows[i].from < from
      BY <1>2, <1>4, <1>7, <1>10, <2>2, <3>1
    <3>3. t[i].to = from
      <4>1. CASE m = n
        <5>1. rows[i].to = NoDate
          BY <1>12, <2>2, <3>1, <4>1
        <5> QED BY <1>7, <1>10, <3>1, <5>1
      <4>2. CASE m < n
        <5>1. rows[i].to = rows[m + 1].from /\ from <= rows[m + 1].from /\ rows[i].to \in Int
          BY <1>1, <1>5, <1>12, <2>2, <3>1, <4>2
        <5>2. t[i].to = IF rows[i].to = NoDate \/ rows[i].to > from THEN from ELSE rows[i].to
          BY <1>7, <1>10, <3>1
        <5>3. rows[i].to > from \/ rows[i].to = from
          BY <1>2, <5>1
        <5> QED BY <5>2, <5>3
      <4>3. m = n \/ m < n
        BY <1>1, <1>4
      <4> QED BY <4>1, <4>2, <4>3
    <3>4. rows[i].from \in Int
      BY <1>1, <3>1
    <3> QED BY <1>2, <1>13, <3>1, <3>2, <3>3, <3>4
  <2>3. CASE i < m
    <3>1. i \in 1..m /\ i \in 1..n /\ i < n /\ i # n /\ i # m + 1 /\ i < m + 1 /\ i + 1 \in 1..m
      BY <1>1, <1>4, <2>3
    <3>2. /\ rows[i].from <= rows[i + 1].from /\ rows[i].to = rows[i + 1].from /\ rows[i].to # NoDate
          /\ rows[i + 1].from < from /\ rows[i].from < from
      BY <1>4, <1>12, <3>1
    <3>3. t[i].from = rows[i].from /\ t[i + 1].from = rows[i + 1].from
      BY <1>7, <1>10, <3>1
    <3>4. rows[i].from \in Int /\ rows[i + 1].from \in Int /\ rows[i].to \in Int
      <4>1. i + 1 \in 1..n
        BY <1>4, <3>1
      <4> QED BY <1>1, <3>1, <4>1
    <3>5. t[i].to = rows[i].to
      <4>1. t[i].to = IF rows[i].to = NoDate \/ rows[i].to > from THEN from ELSE rows[i].to
        BY <1>7, <1>10, <3>1
      <4>2. ~(rows[i].to > from)
        BY <1>2, <3>2, <3>4
      <4> QED BY <3>2, <4>1, <4>2
    <3>6. rows[i].from <= d
      BY <1>2, <1>13, <3>2, <3>4
    <3>7. ~(t[i].to = NoDate)
      BY <3>2, <3>5
    <3> QED BY <3>1, <3>2, <3>3, <3>5, <3>6, <3>7, Zenon
  <2>4. i = m + 1 \/ i = m \/ i < m
    BY <1>4
  <2> QED BY <2>1, <2>2, <2>3, <2>4, Zenon
<1>15. m = 0 => from = FirstOfYear(Created)
  <2> SUFFICES ASSUME m = 0 PROVE from = FirstOfYear(Created)
    OBVIOUS
  <2>1. m < n /\ m + 1 = 1
    BY <1>1
  <2>2. from <= rows[1].from /\ rows[1].from \in Int
    BY <1>1, <1>5, <2>1
  <2> QED BY <1>2, <1>12, <2>2
<1>16. Timeline(t, d)
  <2>1. CASE m = 0
    <3>1. t[1].from = FirstOfYear(Created)
      BY <1>2, <1>10, <1>15, <2>1
    <3> QED BY <1>10, <1>14, <3>1 DEF Timeline
  <2>2. CASE m # 0
    <3>1. 1 \in 1..m
      BY <1>4, <2>2
    <3>2. t[1].from = FirstOfYear(Created)
      BY <1>7, <1>10, <1>12, <3>1
    <3> QED BY <1>10, <1>14, <3>2 DEF Timeline
  <2> QED BY <2>1, <2>2
<1>17. ASSUME NEW y \in Years, Created <= y, y < YearOf(from) PROVE SamePast(rows, t, y)
  <2>1. y \in Int /\ YearOf(from) \in Int /\ Created \in Years /\ Created \in Int
    <3>1. Created \in Years
      BY BooksAssumption, YearOfDate DEF Created
    <3> QED BY <1>2, <3>1, YearsAreNumbers, YearOfAny
  <2>2. m # 0
    <3> SUFFICES ASSUME m = 0 PROVE FALSE
      OBVIOUS
    <3>1. 1 \in 1..MonthsPerYear
      BY CalendarAssumption
    <3>2. YearOf(from) = Created
      BY <1>15, <2>1, <3>1, FirstOfMonthIs DEF FirstOfYear
    <3> QED BY <1>17, <2>1, <3>2
  <2>3. m <= Len(rows) /\ m <= Len(t) /\ m \in Nat \ {0}
    BY <1>4, <1>10, <2>2 DEF n
  <2>4. \A i \in 1..m : t[i].policy = rows[i].policy /\ t[i].from = rows[i].from
    BY <1>7, <1>10
  <2>5. ASSUME NEW i \in DOMAIN rows, i > m PROVE YearOf(rows[i].from) > y
    <3>1. i \in 1..n /\ i \notin 1..m /\ rows[i].from \in Int
      BY <1>1, <1>4, <2>5
    <3>2. ~(rows[i].from < from)
      BY <1>3, <2>5, <3>1 DEF S
    <3>3. from <= rows[i].from
      BY <1>2, <3>1, <3>2
    <3>4. YearOf(from) <= YearOf(rows[i].from) /\ YearOf(rows[i].from) \in Int
      BY <1>2, <3>1, <3>3, YearsMonotone, YearOfAny
    <3> QED BY <1>17, <2>1, <3>4
  <2>6. ASSUME NEW i \in DOMAIN t, i > m PROVE YearOf(t[i].from) > y
    <3>1. i = m + 1
      BY <1>4, <1>10, <2>6
    <3> QED BY <1>2, <1>10, <1>17, <2>1, <3>1
  <2>7. Agree(rows, t, m, y)
    BY <2>3, <2>4, <2>5, <2>6 DEF Agree
  <2> QED BY <2>7 DEF SamePast
<1> QED BY <1>11, <1>16, <1>17

\* Taking back the row that lies ahead reopens the one before it.
Reopened(rows, i) ==
  LET rest == RemoveAt(rows, i)
      predecessors == {j \in DOMAIN rest : rest[j].to = rows[i].from}
  IN  [j \in DOMAIN rest |->
         IF predecessors # {} /\ j = Min(predecessors) THEN [rest[j] EXCEPT !.to = NoDate]
         ELSE rest[j]]

LEMMA ReopenedTimeline ==
  ASSUME NEW rows \in Rosters, NEW d \in Dates, Timeline(rows, d), FirstOfYear(Created) <= d,
         NEW i \in DOMAIN rows, rows[i].to = NoDate, rows[i].from > d,
         NEW t, t = Reopened(rows, i)
  PROVE  /\ t \in Rosters /\ Timeline(t, d)
         /\ \A y \in Years : y < YearOf(d) => SamePast(rows, t, y)
<1> DEFINE n == Len(rows)
           m == n - 1
           rest == RemoveAt(rows, i)
           predecessors == {j \in DOMAIN rest : rest[j].to = rows[i].from}
<1>1. /\ DOMAIN rows = 1..n /\ n \in Nat \ {0} /\ 1 \in DOMAIN rows /\ d \in Int
      /\ \A j \in DOMAIN rows : rows[j] \in Membership /\ rows[j].from \in Dates /\ rows[j].from \in Int
  BY RostersAre, YearsAreNumbers
<1>2. i = n
  BY DEF Timeline
<1>3. /\ rows[1].from = FirstOfYear(Created)
      /\ \A j \in 1..n : rows[j].to = NoDate <=> j = n
      /\ \A j \in 1..n : j < n => /\ rows[j].from <= rows[j + 1].from
                                  /\ rows[j].to = rows[j + 1].from
                                  /\ rows[j].from <= d
  BY <1>1 DEF Timeline
<1>4. n # 1 /\ m \in Nat \ {0} /\ m + 1 = n /\ m < n
  <2>1. n # 1
    <3> SUFFICES ASSUME n = 1 PROVE FALSE
      OBVIOUS
    <3>1. rows[1].from > d /\ rows[1].from <= d /\ rows[1].from \in Int
      BY <1>1, <1>2, <1>3
    <3> QED BY <1>1, <3>1
  <2> HIDE DEF n
  <2> QED BY <1>1, <2>1
<1>5. rest \in Seq(Membership) /\ DOMAIN rest = 1..m /\ \A j \in 1..m : rest[j] = rows[j]
  <2>1. rows \in Seq(Membership)
    BY DEF Rosters
  <2>2. rest = SubSeq(rows, 1, n - 1) \o SubSeq(rows, n + 1, n)
    BY <1>2 DEF RemoveAt
  <2>3. SubSeq(rows, n + 1, n) = <<>>
    BY <1>1, <2>1
  <2>4. /\ SubSeq(rows, 1, n - 1) \in Seq(Membership) /\ Len(SubSeq(rows, 1, n - 1)) = n - 1
        /\ \A j \in 1..(n - 1) : SubSeq(rows, 1, n - 1)[j] = rows[j]
    BY <1>1, <1>4, <2>1
  <2> QED BY <1>4, <2>2, <2>3, <2>4
<1>6. \A j \in 1..m : j \in 1..n /\ j < n
  BY <1>4
<1>7. predecessors = {m}
  <2>1. ASSUME NEW j \in 1..m, j # m PROVE rest[j].to # rows[i].from
    <3>1. j + 1 \in 1..m /\ j \in 1..m
      <4> HIDE DEF m, n
      <4> QED BY <1>4, <2>1
    <3>2. rows[j].to = rows[j + 1].from /\ rows[j + 1].from <= d /\ rows[j + 1].from \in Int
      BY <1>1, <1>3, <1>6, <3>1
    <3>3. rows[i].from \in Int /\ rows[i].from > d
      BY <1>1
    <3>4. rows[j + 1].from # rows[i].from
      BY <1>1, <3>2, <3>3
    <3> QED BY <1>5, <3>2, <3>4
  <2>2. m \in 1..m /\ rest[m].to = rows[i].from
    <3>1. m \in 1..m
      BY <1>4
    <3> QED BY <1>2, <1>3, <1>4, <1>5, <1>6, <3>1
  <2> HIDE DEF m, rest
  <2> QED BY <1>5, <2>1, <2>2
<1>8. Min(predecessors) = m
  <2>1. {m} \subseteq Int /\ m \in {m} /\ \A j \in {m} : m <= j
    BY <1>4
  <2> HIDE DEF predecessors, m
  <2> QED BY <1>7, <2>1, MinIs
<1>9. t = [j \in 1..m |-> IF j = m THEN [rows[j] EXCEPT !.to = NoDate] ELSE rows[j]]
  <2>1. t = [j \in DOMAIN rest |->
               IF predecessors # {} /\ j = Min(predecessors) THEN [rest[j] EXCEPT !.to = NoDate]
               ELSE rest[j]]
    BY DEF Reopened
  <2> HIDE DEF predecessors, rest, m, n
  <2> QED BY <1>5, <1>7, <1>8, <2>1
<1> HIDE DEF predecessors, rest, m, n
<1>10. ASSUME NEW j \in 1..m
       PROVE  /\ t[j] \in Membership /\ t[j].policy = rows[j].policy /\ t[j].from = rows[j].from
              /\ t[j].to = IF j = m THEN NoDate ELSE rows[j].to
  BY <1>1, <1>6, <1>9 DEF Membership
<1>11. t \in Rosters /\ Len(t) = m /\ DOMAIN t = 1..m
  <2>1. t \in Seq(Membership) /\ Len(t) = m /\ DOMAIN t = 1..m
    <3>1. t \in [1..m -> Membership]
      BY <1>9, <1>10, Zenon
    <3>2. m \in Nat
      BY <1>4
    <3>3. \A u \in [1..m -> Membership] : u \in Seq(Membership) /\ Len(u) = m /\ DOMAIN u = 1..m
      BY <3>2
    <3> QED BY <3>1, <3>3
  <2> QED BY <1>4, <2>1 DEF Rosters
<1>12. ASSUME NEW j \in 1..m
       PROVE  /\ t[j].to = NoDate <=> j = m
              /\ j < m => /\ t[j].from <= t[j + 1].from
                          /\ t[j].to = t[j + 1].from
                          /\ t[j].from <= d
  <2>1. j \in 1..n /\ j < n /\ j # n
    BY <1>4, <1>6
  <2>2. t[j].to = NoDate <=> j = m
    BY <1>3, <1>10, <2>1
  <2>3. j < m => j # m /\ j + 1 \in 1..m
    BY <1>4
  <2>4. j < m => t[j + 1].from = rows[j + 1].from /\ t[j].to = rows[j].to
    BY <1>10, <2>3
  <2>5. t[j].from = rows[j].from
    BY <1>10
  <2> QED BY <1>3, <2>1, <2>2, <2>4, <2>5, Zenon
<1>13. Timeline(t, d)
  <2>1. 1 \in 1..m
    BY <1>4
  <2>2. t[1].from = FirstOfYear(Created)
    BY <1>3, <1>10, <2>1
  <2> QED BY <1>11, <1>12, <2>2 DEF Timeline
<1>14. ASSUME NEW y \in Years, y < YearOf(d) PROVE SamePast(rows, t, y)
  <2>1. m <= Len(rows) /\ m <= Len(t)
    BY <1>4, <1>11 DEF n
  <2>2. \A j \in 1..m : t[j].policy = rows[j].policy /\ t[j].from = rows[j].from
    BY <1>10
  <2>3. \A j \in DOMAIN t : ~(j > m)
    BY <1>4, <1>11
  <2>4. ASSUME NEW j \in DOMAIN rows, j > m PROVE YearOf(rows[j].from) > y
    <3>1. j = i
      BY <1>1, <1>2, <1>4, <2>4
    <3>2. rows[i].from \in Int /\ d <= rows[i].from
      BY <1>1
    <3>3. YearOf(d) <= YearOf(rows[i].from) /\ YearOf(d) \in Int /\ YearOf(rows[i].from) \in Int /\ y \in Int
      BY <1>1, <3>2, YearsAreNumbers, YearOfAny, YearsMonotone
    <3> QED BY <1>14, <3>1, <3>3
  <2>5. Agree(rows, t, m, y)
    BY <1>4, <2>1, <2>2, <2>3, <2>4 DEF Agree
  <2> QED BY <2>5 DEF SamePast
<1> QED BY <1>11, <1>13, <1>14

\* What the timeline of the employee says, and when a transfer may begin.
LEMMA EmployeeRowsAre ==
  ASSUME Inv
  PROVE  /\ Rows \in Rosters /\ Timeline(Rows, now) /\ employee.anchor \in Anchors
         /\ FirstOfYear(Created) <= now
         /\ FirstOfYear(YearOf(now)) \in Dates /\ YearOf(FirstOfYear(YearOf(now))) = YearOf(now)
         /\ FirstOfYear(Created) <= FirstOfYear(YearOf(now))
<1>1. employee \in Drafts /\ now \in Dates /\ Created \in Years /\ YearOf(now) \in Years /\ Created <= YearOf(now)
  BY Whereabouts
<1>2. Rows \in Rosters /\ employee.anchor \in Anchors
  BY <1>1 DEF Rows, Drafts
<1>3. Timeline(Rows, now)
  BY DEF Inv, Rows
<1>4. 1 \in 1..MonthsPerYear
  BY CalendarAssumption
<1>5. FirstOfYear(YearOf(now)) \in Dates /\ YearOf(FirstOfYear(YearOf(now))) = YearOf(now)
  BY <1>1, <1>4, FirstOfMonthIs DEF FirstOfYear
<1>6. ASSUME NEW d \in Dates, Created <= YearOf(d) PROVE FirstOfYear(Created) <= d
  <2>1. MonthOf(d) \in 1..MonthsPerYear /\ YearOf(d) \in Int /\ Created \in Int
    BY <1>1, YearsAreNumbers, YearOfAny
  <2>2. 1 <= MonthOf(d) /\ (Created < YearOf(d) \/ Created = YearOf(d))
    BY <1>6, <2>1, CalendarAssumption
  <2> QED BY <1>1, <1>4, <2>2, FirstOfMonthBy DEF FirstOfYear
<1>7. FirstOfYear(Created) <= now /\ FirstOfYear(Created) <= FirstOfYear(YearOf(now))
  BY <1>1, <1>5, <1>6
<1> QED BY <1>2, <1>3, <1>5, <1>7

LEMMA EarliestTransferIs ==
  ASSUME Inv, employee.anchor # NoDate
  PROVE  /\ EarliestTransfer \in Dates
         /\ \A d \in Dates : EarliestTransfer <= d =>
              FirstOfYear(Created) <= d /\ YearOf(now) <= YearOf(d)
<1> DEFINE a == employee.anchor
           b == FirstOfYear(YearOf(now))
           c == FirstOfYear(Created)
<1>1. a \in Dates /\ b \in Dates /\ YearOf(b) = YearOf(now) /\ c <= b
  BY EmployeeRowsAre DEF Anchors
<1>2. c \in Dates
  <2>1. Created \in Years /\ 1 \in 1..MonthsPerYear
    BY Whereabouts, CalendarAssumption
  <2> QED BY <2>1, FirstOfMonthIs DEF FirstOfYear
<1>3. EarliestTransfer = Max({a, b})
  BY DEF EarliestTransfer
<1> HIDE DEF a, b, c
<1>4. a \in Int /\ b \in Int /\ c \in Int
  BY <1>1, <1>2, YearsAreNumbers
<1>5. EarliestTransfer \in Dates /\ EarliestTransfer \in Int /\ b <= EarliestTransfer
  <2>1. EarliestTransfer = IF a >= b THEN a ELSE b
    BY <1>3, <1>4, MaxOfTwo
  <2> QED BY <1>1, <1>4, <2>1
<1>6. ASSUME NEW d \in Dates, EarliestTransfer <= d PROVE c <= d /\ YearOf(now) <= YearOf(d)
  <2>1. d \in Int
    BY YearsAreNumbers
  <2>2. b <= d /\ c <= d
    BY <1>1, <1>4, <1>5, <1>6, <2>1
  <2>3. YearOf(b) <= YearOf(d)
    BY <1>4, <2>1, <2>2, YearsMonotone
  <2> QED BY <1>1, <2>2, <2>3
<1> QED BY <1>5, <1>6 DEF c

LEMMA TransferKeeps ==
  ASSUME Inv, NEW p \in Policies, NEW date \in TransferDates,
         NEW mode \in {"plain", "prospective", "retroactive"}, Transfer(p, date, mode)
  PROVE  Inv' /\ BooksKept(employee, employee')
<1> DEFINE from == IF mode = "retroactive" THEN EarliestTransfer ELSE date
           rows == Transferred(p, from, mode)
<1>1. /\ employee.anchor # NoDate /\ (mode = "plain" <=> date >= now) /\ date >= EarliestTransfer
      /\ Scheduled = {} /\ (mode = "prospective" => from > Rows[OpenRow].from)
      /\ CommitReanchored([Today EXCEPT !.rows = rows], "transfer")
  BY DEF Transfer
<1>2. now \in Dates /\ now \in Int /\ YearOf(now) \in Int
  BY Whereabouts
<1>3. date \in Dates /\ date \in Int
  BY BooksAssumption, YearsAreNumbers
<1>4. /\ Rows \in Rosters /\ Timeline(Rows, now)
      /\ EarliestTransfer \in Dates /\ EarliestTransfer \in Int
      /\ \A d \in Dates : EarliestTransfer <= d => FirstOfYear(Created) <= d /\ YearOf(now) <= YearOf(d)
  BY <1>1, EmployeeRowsAre, EarliestTransferIs, YearsAreNumbers
<1>5. from \in Dates /\ from \in Int /\ EarliestTransfer <= from
  BY <1>1, <1>3, <1>4
<1>6. FirstOfYear(Created) <= from /\ YearOf(now) <= YearOf(from) /\ YearOf(from) \in Int
  BY <1>4, <1>5, YearOfAny
<1> DEFINE n == Len(Rows)
<1>7. /\ DOMAIN Rows = 1..n /\ n \in 1..n /\ Rows[n].to = NoDate /\ Rows[n].from \in Int
      /\ \A i \in DOMAIN Rows : Rows[i].to = NoDate => i = n
  <2>1. DOMAIN Rows = 1..n /\ n \in Nat \ {0} /\ \A i \in DOMAIN Rows : Rows[i].from \in Int
    BY <1>4, RostersAre, YearsAreNumbers
  <2>2. n \in 1..n
    <3> HIDE DEF n
    <3> QED BY <2>1
  <2> QED BY <1>4, <2>1, <2>2 DEF Timeline
<1>8. Rows[n].from <= now
  <2>1. ~(Rows[n].from > now)
    <3> HIDE DEF n
    <3> QED BY <1>1, <1>7 DEF Scheduled
  <2> HIDE DEF n
  <2> QED BY <1>2, <1>7, <2>1
<1>9. OpenRow = n
  <2> HIDE DEF n
  <2> QED BY <1>7 DEF OpenRow
<1>10. mode = "retroactive" => from < now
  BY <1>1, <1>2, <1>3, <1>4
<1>11. mode # "retroactive" => Rows[n].from <= from
  <2>1. CASE mode = "plain"
    <3>1. from >= now
      BY <1>1, <2>1
    <3> HIDE DEF n, from
    <3> QED BY <1>2, <1>5, <1>7, <1>8, <3>1
  <2>2. CASE mode = "prospective"
    <3>1. from > Rows[n].from
      BY <1>1, <1>9, <2>2
    <3> HIDE DEF n, from
    <3> QED BY <1>5, <1>7, <3>1
  <2> QED BY <2>1, <2>2
<1>12. rows = Append(IF mode = "retroactive" THEN Rewritten(Rows, from) ELSE ClosedAt(Rows, from),
                     NewRow(p, from))
  BY DEF Transferred, NewRow
<1> HIDE DEF rows, from
<1>13. /\ rows \in Rosters /\ Timeline(rows, now)
       /\ \A y \in Years : Created <= y /\ y < YearOf(from) => SamePast(Rows, rows, y)
  <2>1. CASE mode = "retroactive"
    <3>1. from <= now
      BY <1>2, <1>5, <1>10, <2>1
    <3>2. rows = Append(Rewritten(Rows, from), NewRow(p, from))
      BY <1>12, <2>1
    <3> QED BY <1>2, <1>4, <1>5, <1>6, <3>1, <3>2, RewrittenTimeline
  <2>2. CASE mode # "retroactive"
    <3>1. rows = Append(ClosedAt(Rows, from), NewRow(p, from))
      BY <1>12, <2>2
    <3> QED BY <1>2, <1>4, <1>5, <1>8, <1>11, <2>2, <3>1, ClosedTimeline
  <2> QED BY <2>1, <2>2
<1>14. \A y \in Years : Created <= y /\ y < YearOf(now) => SamePast(employee.rows, rows, y)
  <2>1. \A y \in Years : y < YearOf(now) => y < YearOf(from)
    BY <1>2, <1>6, YearsAreNumbers
  <2> QED BY <1>13, <2>1 DEF Rows
<1>15. "transfer" \in Edits
  BY DEF Edits
<1> QED BY <1>1, <1>13, <1>14, <1>15, NewRowsKeep

LEMMA CancelTransferKeeps ==
  ASSUME Inv, CancelTransfer
  PROVE  Inv' /\ BooksKept(employee, employee')
<1>1. PICK i \in Scheduled :
        CommitReanchored([Today EXCEPT !.rows = Reopened(Rows, i)], "transfer cancelled")
  BY DEF CancelTransfer, Reopened
<1> DEFINE rows == Reopened(Rows, i)
<1>2. now \in Dates /\ Rows \in Rosters /\ Timeline(Rows, now) /\ FirstOfYear(Created) <= now
  BY Whereabouts, EmployeeRowsAre
<1>3. i \in DOMAIN Rows /\ Rows[i].to = NoDate /\ Rows[i].from > now
  BY DEF Scheduled
<1> HIDE DEF rows
<1>4. /\ rows \in Rosters /\ Timeline(rows, now)
      /\ \A y \in Years : y < YearOf(now) => SamePast(Rows, rows, y)
  BY <1>2, <1>3, ReopenedTimeline DEF rows
<1>5. "transfer cancelled" \in Edits /\ "transfer cancelled" # "corrected date"
  BY DEF Edits
<1>6. \A y \in Years : Created <= y /\ y < YearOf(now) => SamePast(employee.rows, rows, y)
  BY <1>4 DEF Rows
<1>7. CommitReanchored([Today EXCEPT !.rows = rows], "transfer cancelled")
  BY <1>1 DEF rows
<1> QED BY <1>4, <1>5, <1>6, <1>7, NewRowsKeep

--------------------------------------------------------------------------------
(* The theorems *)

LEMMA InvIsInductive ==
  ASSUME Inv, [Next]_vars
  PROVE  Inv' /\ BooksKept(employee, employee')
<1>1. CASE Tick
  BY <1>1, TickKeeps
<1>2. CASE Refresh
  BY <1>2, RefreshKeeps
<1>3. CASE \E r \in RequestIds : Submit(r) \/ Approve(r) \/ Settle(r)
  BY <1>3, SubmitKeeps, ApproveKeeps, SettleKeeps
<1>4. CASE \E r, o \in RequestIds : Modify(r, o)
  BY <1>4, ModifyKeeps
<1>5. CASE \E d \in StartDates : SetStartDate(d)
  BY <1>5, SetStartDateKeeps
<1>6. CASE \E delta \in Adjustments : AdjustVacation(delta)
  BY <1>6, AdjustVacationKeeps
<1>7. CASE \E p \in Policies, date \in TransferDates, mode \in {"plain", "prospective", "retroactive"} :
             Transfer(p, date, mode)
  BY <1>7, TransferKeeps
<1>8. CASE CancelTransfer
  BY <1>8, CancelTransferKeeps
<1>9. CASE \E settings \in Carryovers : SetCarryover(settings)
  BY <1>9, SetCarryoverKeeps
<1>10. CASE UNCHANGED vars
  <2>1. employee' = employee /\ carryover' = carryover /\ now' = now /\ edits' = edits
    BY <1>10 DEF vars
  <2>2. TypeOK' /\ employee' \in Drafts /\ (Corrected' <=> Corrected) /\ Timeline(employee.rows, now)'
    BY <2>1 DEF Inv, TypeOK, Corrected, Edited, Timeline
  <2>3. Sound(employee', now', YearOf(now')) /\ (~Corrected' => Sound(employee', now', Created))
    BY <2>1, <2>2 DEF Inv
  <2>4. Sound(employee, now, YearOf(now))' /\ (~Corrected' => Sound(employee, now, Created)')
    <3>1. Sound(employee', now', YearOf(now')) => Sound(employee, now, YearOf(now))'
      BY DEF Sound, SoundBut, ClosedInOrder, NothingEarly, Within, Goal
    <3>2. Sound(employee', now', Created) => Sound(employee, now, Created)'
      BY DEF Sound, SoundBut, ClosedInOrder, NothingEarly, Within, Goal
    <3> QED BY <2>3, <3>1, <3>2
  <2>5. BooksKept(employee, employee')
    BY <2>1 DEF BooksKept
  <2> QED BY <2>2, <2>4, <2>5 DEF Inv
<1> QED BY <1>1, <1>2, <1>3, <1>4, <1>5, <1>6, <1>7, <1>8, <1>9, <1>10 DEF Next

\* The invariant, of every behaviour.
THEOREM Invariance == Spec => []Inv
<1>1. Init => Inv
  BY InitIsSound
<1>2. Inv /\ [Next]_vars => Inv'
  BY InvIsInductive
<1> QED BY <1>1, <1>2, PTL DEF Spec

\* The rows of accrueForYear, finalizeCarryoverIfDue and the administrative edits
\* keep their kind: no balance a transaction commits is below nothing, and the
\* memberships stay a sequence of known policies.
THEOREM TypeCorrect == Spec => []TypeOK
<1>1. Inv => TypeOK
  BY DEF Inv
<1> QED BY <1>1, Invariance, PTL

\* A year that finalizeCarryoverIfDue has closed is not reopened, and what it
\* kept does not change: accrueForYear returns early for it, a re-anchor and a
\* manual adjustment are refused, and a transfer only moves the current year.
THEOREM ClosedForGood == Spec => BooksStayClosed
<1>1. Init => Inv
  BY InitIsSound
<1>2. Inv /\ [Next]_vars => Inv'
  BY InvIsInductive
<1>3. Inv /\ [Next]_vars =>
        [\A k \in LeaveTypes, y \in Years :
           employee.closed[k][y] =>
             /\ employee'.closed[k][y]
             /\ employee'.accrued[k][y] = employee.accrued[k][y]]_vars
  BY InvIsInductive DEF BooksKept
<1> QED BY <1>1, <1>2, <1>3, PTL DEF Spec, BooksStayClosed

\* Whatever months slept through, closes and edits came before, what a read
\* (refreshBalancesTx) shows of this year's vacation is exactly the target that
\* accrueForYear and reanchorAccrual share, of sick leave no less than it, and
\* nothing of later years.
THEOREM BalancesOnTarget == Spec => []AccruedOnTarget
<1>1. Inv => AccruedOnTarget
  <2> SUFFICES ASSUME Inv PROVE AccruedOnTarget
    OBVIOUS
  <2> DEFINE e == Today
  <2>1. e \in Drafts /\ UpToDate(e, now) /\ Sound(e, now, YearOf(now)) /\ now \in Dates
    BY TodayIs, Whereabouts
  <2> HIDE DEF e
  <2>2. /\ e.accrued["vacation"][YearOf(now)] = Goal(e, "vacation", YearOf(now), now)
        /\ e.accrued["sick"][YearOf(now)] >= Goal(e, "sick", YearOf(now), now)
        /\ \A k \in LeaveTypes, z \in Years : z > YearOf(now) => e.accrued[k][z] = 0
    BY <2>1, UpToDateIsOnTarget
  <2>3. OnTarget(e)
    BY <2>2 DEF OnTarget, Goal
  <2> QED BY <2>3 DEF AccruedOnTarget, e
<1> QED BY <1>1, Invariance, PTL

\* What finalizeCarryoverIfDue carries forward has left the year it was earned
\* in: as long as no start date is corrected, what a closed year keeps and what
\* the next one took from it are together no more than its target.
THEOREM CarriedOnce == Spec => []NothingFundedTwice
<1>1. Inv => NothingFundedTwice
  <2> SUFFICES ASSUME Inv, NEW y \in Years \ {0}, employee.closed["vacation"][y - 1], ~Corrected
               PROVE  employee.accrued["vacation"][y - 1] + employee.carried["vacation"][y]
                        <= Goal(employee, "vacation", y - 1, now)
    BY DEF NothingFundedTwice, Corrected, Goal
  <2>1. y - 1 \in Years /\ (y - 1) + 1 = y
    <3>1. y \in Int /\ 0 <= y /\ y <= LastYear /\ LastYear \in Int
      BY YearsAreNumbers
    <3>2. y - 1 \in Int /\ 0 <= y - 1 /\ y - 1 <= LastYear /\ (y - 1) + 1 = y
      BY <3>1
    <3> QED BY <3>2, YearsAreNumbers
  <2> DEFINE z == y - 1
  <2>2. employee \in Drafts /\ Sound(employee, now, Created) /\ "vacation" \in LeaveTypes
    BY DEF Inv, LeaveTypes
  <2>3. employee.closed["vacation"][z]
    OBVIOUS
  <2> HIDE DEF z
  <2>4. z \in Years /\ z + 1 = y
    BY <2>1 DEF z
  <2>5. Created <= z /\ (z >= Created => Within(employee, now, "vacation", z))
    BY <2>2, <2>3, <2>4, SoundAt
  <2>6. Within(employee, now, "vacation", z)
    <3>1. z \in Int /\ Created \in Int
      BY <2>4, YearsAreNumbers, Whereabouts
    <3> QED BY <2>5, <3>1, IntegersAreOrdered, Zenon
  <2>7. employee.accrued["vacation"][z] + employee.carried["vacation"][z + 1]
          <= Goal(employee, "vacation", z, now)
    BY <2>3, <2>6 DEF Within
  <2> QED BY <2>4, <2>7 DEF z
<1> QED BY <1>1, Invariance, PTL


--------------------------------------------------------------------------------
(* The order of the ledger: what is filed *)

\* Of leave type k, the rows of the ledger are in order (spent days apart); they
\* are dated b at the latest, and those that are not spent days c.
Filed(e, k, b, c) ==
  /\ \A i, j \in DOMAIN e.ledger :
       /\ i < j
       /\ e.ledger[i].type = k /\ e.ledger[j].type = k
       /\ {e.ledger[i].kind, e.ledger[j].kind} # {"spent"}
       => e.ledger[i].date <= e.ledger[j].date
  /\ \A i \in DOMAIN e.ledger :
       e.ledger[i].type = k =>
         /\ e.ledger[i].date <= b
         /\ e.ledger[i].kind # "spent" => e.ledger[i].date <= c

\* What is in order of the other types stays so.
OthersFiled(e, f, k) ==
  \A j \in LeaveTypes \ {k}, b, c \in Int : Filed(e, j, b, c) => Filed(f, j, b, c)

LEMMA FiledLater ==
  ASSUME NEW e \in Drafts, NEW k, NEW b \in Int, NEW c \in Int, NEW p \in Int, NEW q \in Int,
         b <= p, c <= q, Filed(e, k, b, c)
  PROVE  Filed(e, k, p, q)
<1>1. \A i \in DOMAIN e.ledger : e.ledger[i].date \in Int
  <2>1. e.ledger \in Seq(Entries)
    BY DEF Drafts
  <2>2. \A i \in DOMAIN e.ledger : e.ledger[i] \in Entries
    BY <2>1
  <2> QED BY <2>2 DEF Entries
<1> QED BY <1>1 DEF Filed

\* The rows of the ledger, old and new.
LEMMA PostedRows ==
  ASSUME NEW e \in Drafts, NEW k \in LeaveTypes, NEW kind \in {"accrual", "close", "spent"},
         NEW dates \in Seq(Int)
  PROVE  LET f == Posted(e, k, kind, dates)
             n == Len(e.ledger)
             m == Len(dates)
         IN  /\ n \in Nat /\ m \in Nat
             /\ DOMAIN e.ledger = 1..n /\ DOMAIN f.ledger = 1..(n + m)
             /\ \A i \in 1..n : /\ f.ledger[i] = e.ledger[i]
                                /\ e.ledger[i].date \in Int
             /\ \A i \in (n + 1)..(n + m) :
                  /\ i - n \in 1..m
                  /\ f.ledger[i] = [type |-> k, date |-> dates[i - n], kind |-> kind]
<1> DEFINE n == Len(e.ledger)
           m == Len(dates)
           rows == [i \in DOMAIN dates |-> [type |-> k, date |-> dates[i], kind |-> kind]]
           f == Posted(e, k, kind, dates)
<1>1. m \in Nat /\ DOMAIN dates = 1..m /\ \A i \in 1..m : dates[i] \in Int
  OBVIOUS
<1>2. rows \in Seq(Entries) /\ Len(rows) = m
      /\ \A i \in 1..m : rows[i] = [type |-> k, date |-> dates[i], kind |-> kind]
  <2>1. rows = [i \in 1..m |-> [type |-> k, date |-> dates[i], kind |-> kind]]
    BY <1>1
  <2>2. \A i \in 1..m : [type |-> k, date |-> dates[i], kind |-> kind] \in Entries
    BY <1>1 DEF Entries
  <2> HIDE DEF rows, m
  <2> QED BY <1>1, <2>1, <2>2
<1>3. e.ledger \in Seq(Entries) /\ n \in Nat /\ DOMAIN e.ledger = 1..n
  <2>1. e.ledger \in Seq(Entries)
    BY DEF Drafts
  <2> QED BY <2>1
<1>4. \A i \in 1..n : e.ledger[i].date \in Int
  <2>1. \A i \in 1..n : e.ledger[i] \in Entries
    BY <1>3
  <2> QED BY <2>1 DEF Entries
<1>5. f.ledger = e.ledger \o rows
  <2> HIDE DEF rows
  <2>1. f = [e EXCEPT !.ledger = e.ledger \o rows]
    BY DEF Posted, Drafts, rows
  <2> HIDE DEF f
  <2> QED BY <2>1 DEF Drafts
<1> HIDE DEF rows, f
<1>6. /\ DOMAIN f.ledger = 1..(n + m)
      /\ \A i \in 1..n : f.ledger[i] = e.ledger[i]
      /\ \A i \in (n + 1)..(n + m) : i - n \in 1..m /\ f.ledger[i] = rows[i - n]
  <2> DEFINE L == e.ledger
  <2>1. L \in Seq(Entries) /\ Len(L) = n
    BY <1>3
  <2> HIDE DEF L, n, m
  <2>2. /\ Len(L \o rows) = n + m /\ DOMAIN (L \o rows) = 1..(n + m)
        /\ \A i \in 1..(n + m) : (L \o rows)[i] = IF i <= n THEN L[i] ELSE rows[i - n]
    <3>1. ASSUME NEW i \in 1..(n + m)
          PROVE  (L \o rows)[i] = IF i <= n THEN L[i] ELSE rows[i - n]
      BY <1>2, <2>1, ConcatProperties
    <3>2. L \o rows \in Seq(Entries) /\ Len(L \o rows) = n + m
      BY <1>2, <2>1
    <3>3. DOMAIN (L \o rows) = 1..Len(L \o rows)
      BY <3>2
    <3> QED BY <3>1, <3>2, <3>3
  <2>3. f.ledger = L \o rows
    BY <1>5 DEF L
  <2>4. \A i \in 1..n : i \in 1..(n + m) /\ i <= n
    BY <1>1, <1>3
  <2>5. \A i \in (n + 1)..(n + m) : i \in 1..(n + m) /\ ~(i <= n) /\ i - n \in 1..m
    BY <1>1, <1>3
  <2> QED BY <2>2, <2>3, <2>4, <2>5 DEF L
<1>7. \A i \in (n + 1)..(n + m) :
        f.ledger[i] = [type |-> k, date |-> dates[i - n], kind |-> kind]
  <2> HIDE DEF n, m
  <2> QED BY <1>2, <1>6
<1> QED BY <1>1, <1>3, <1>4, <1>6, <1>7 DEF f

\* New rows leave those of the other types as they are.
LEMMA PostedElsewhere ==
  ASSUME NEW e \in Drafts, NEW k \in LeaveTypes, NEW kind \in {"accrual", "close", "spent"},
         NEW dates \in Seq(Int)
  PROVE  OthersFiled(e, Posted(e, k, kind, dates), k)
<1> DEFINE f == Posted(e, k, kind, dates)
           n == Len(e.ledger)
           m == Len(dates)
<1>1. /\ n \in Nat /\ m \in Nat
      /\ DOMAIN e.ledger = 1..n /\ DOMAIN f.ledger = 1..(n + m)
      /\ \A i \in 1..n : f.ledger[i] = e.ledger[i]
      /\ \A i \in (n + 1)..(n + m) :
           f.ledger[i] = [type |-> k, date |-> dates[i - n], kind |-> kind]
  BY PostedRows
<1> HIDE DEF f, n, m
<1>2. \A i \in 1..(n + m) : i \in 1..n \/ i \in (n + 1)..(n + m)
  BY <1>1
<1>3. SUFFICES ASSUME NEW j \in LeaveTypes \ {k}, NEW x \in Int, NEW z \in Int, Filed(e, j, x, z)
               PROVE  Filed(f, j, x, z)
  BY DEF OthersFiled, f
<1>4. ASSUME NEW i \in 1..(n + m), f.ledger[i].type = j
      PROVE  i \in 1..n /\ f.ledger[i] = e.ledger[i]
  <2>1. ASSUME i \in (n + 1)..(n + m) PROVE FALSE
    <3>1. f.ledger[i] = [type |-> k, date |-> dates[i - n], kind |-> kind]
      BY <1>1, <2>1
    <3> QED BY <1>4, <3>1
  <2> QED BY <1>1, <1>2, <2>1
<1> QED BY <1>1, <1>3, <1>4 DEF Filed

\* New rows keep the order if they are dated no earlier than the rows of their
\* type before them.
LEMMA PostedInOrder ==
  ASSUME NEW e \in Drafts, NEW k \in LeaveTypes, NEW kind \in {"accrual", "close", "spent"},
         NEW dates \in Seq(Int), NEW b \in Int, NEW c \in Int, NEW p \in Int, NEW q \in Int,
         Filed(e, k, b, c), b <= p, c <= q,
         \A i \in 1..Len(dates) : dates[i] <= p,
         IF kind = "spent" THEN \A i \in 1..Len(dates) : c <= dates[i]
         ELSE /\ \A i \in 1..Len(dates) : b <= dates[i] /\ dates[i] <= q
              /\ \A i, j \in 1..Len(dates) : i < j => dates[i] <= dates[j]
  PROVE  LET f == Posted(e, k, kind, dates) IN Filed(f, k, p, q) /\ OthersFiled(e, f, k)
<1> DEFINE f == Posted(e, k, kind, dates)
           n == Len(e.ledger)
           m == Len(dates)
<1>1. /\ n \in Nat /\ m \in Nat
      /\ DOMAIN e.ledger = 1..n /\ DOMAIN f.ledger = 1..(n + m)
      /\ \A i \in 1..n : f.ledger[i] = e.ledger[i] /\ e.ledger[i].date \in Int
      /\ \A i \in (n + 1)..(n + m) :
           /\ i - n \in 1..m
           /\ f.ledger[i] = [type |-> k, date |-> dates[i - n], kind |-> kind]
  BY PostedRows
<1>2. \A i \in 1..m : dates[i] \in Int
  OBVIOUS
<1> HIDE DEF f
<1>3. \A i \in 1..(n + m) : i \in 1..n \/ i \in (n + 1)..(n + m)
  <2> HIDE DEF n, m
  <2> QED BY <1>1
<1>4. \A i \in (n + 1)..(n + m) :
        /\ f.ledger[i].type = k /\ f.ledger[i].kind = kind /\ f.ledger[i].date = dates[i - n]
        /\ i - n \in 1..m
  <2> SUFFICES ASSUME NEW i \in (n + 1)..(n + m)
               PROVE  /\ f.ledger[i].type = k /\ f.ledger[i].kind = kind
                      /\ f.ledger[i].date = dates[i - n] /\ i - n \in 1..m
    OBVIOUS
  <2>1. /\ i - n \in 1..m
        /\ f.ledger[i] = [type |-> k, date |-> dates[i - n], kind |-> kind]
    BY <1>1
  <2> HIDE DEF n, m
  <2> QED BY <2>1
<1>5. ASSUME NEW i \in 1..(n + m), NEW j \in 1..(n + m), i < j,
             f.ledger[i].type = k, f.ledger[j].type = k,
             {f.ledger[i].kind, f.ledger[j].kind} # {"spent"}
      PROVE  f.ledger[i].date <= f.ledger[j].date
  <2>1. CASE i \in 1..n /\ j \in 1..n
    <3>1. f.ledger[i] = e.ledger[i] /\ f.ledger[j] = e.ledger[j]
      BY <1>1, <2>1
    <3>2. e.ledger[i].date <= e.ledger[j].date
      <4> HIDE DEF n, m
      <4> QED BY <1>1, <1>5, <2>1, <3>1 DEF Filed
    <3> QED BY <3>1, <3>2
  <2>2. CASE i \in 1..n /\ j \in (n + 1)..(n + m)
    <3>1. f.ledger[i] = e.ledger[i] /\ e.ledger[i].date \in Int
      BY <1>1, <2>2
    <3>2. f.ledger[j].date = dates[j - n] /\ j - n \in 1..m /\ f.ledger[j].kind = kind
      BY <1>4, <2>2
    <3>3. e.ledger[i].date <= b /\ (e.ledger[i].kind # "spent" => e.ledger[i].date <= c)
      <4> HIDE DEF n, m
      <4> QED BY <1>1, <1>5, <2>2, <3>1 DEF Filed
    <3>4. CASE kind = "spent"
      <4>1. e.ledger[i].kind # "spent"
        BY <1>5, <3>1, <3>2, <3>4
      <4>2. c <= dates[j - n]
        BY <3>2, <3>4
      <4> HIDE DEF n, m
      <4> QED BY <1>2, <3>1, <3>2, <3>3, <4>1, <4>2
    <3>5. CASE kind # "spent"
      <4>1. b <= dates[j - n]
        BY <3>2, <3>5
      <4> HIDE DEF n, m
      <4> QED BY <1>2, <3>1, <3>2, <3>3, <4>1
    <3> QED BY <3>4, <3>5
  <2>3. CASE i \in (n + 1)..(n + m) /\ j \in (n + 1)..(n + m)
    <3>1. /\ f.ledger[i].date = dates[i - n] /\ f.ledger[j].date = dates[j - n]
          /\ f.ledger[i].kind = kind /\ f.ledger[j].kind = kind
          /\ i - n \in 1..m /\ j - n \in 1..m
      BY <1>4, <2>3
    <3>2. i - n < j - n
      <4> HIDE DEF n, m
      <4> QED BY <1>1, <1>5, <2>3
    <3>3. kind # "spent"
      BY <1>5, <3>1
    <3> QED BY <3>1, <3>2, <3>3
  <2>4. CASE i \in (n + 1)..(n + m) /\ j \in 1..n
    <3> HIDE DEF n, m
    <3> QED BY <1>1, <1>5, <2>4
  <2> QED BY <1>3, <2>1, <2>2, <2>3, <2>4
<1>6. ASSUME NEW i \in 1..(n + m), f.ledger[i].type = k
      PROVE  f.ledger[i].date <= p /\ (f.ledger[i].kind # "spent" => f.ledger[i].date <= q)
  <2>1. CASE i \in 1..n
    <3>1. f.ledger[i] = e.ledger[i] /\ e.ledger[i].date \in Int
      BY <1>1, <2>1
    <3>2. e.ledger[i].date <= b /\ (e.ledger[i].kind # "spent" => e.ledger[i].date <= c)
      <4> HIDE DEF n, m
      <4> QED BY <1>1, <1>6, <2>1, <3>1 DEF Filed
    <3> QED BY <3>1, <3>2
  <2>2. CASE i \in (n + 1)..(n + m)
    BY <1>4, <2>2
  <2> QED BY <1>3, <2>1, <2>2
<1>7. Filed(f, k, p, q)
  <2> HIDE DEF n, m
  <2> QED BY <1>1, <1>5, <1>6 DEF Filed
<1>8. OthersFiled(e, f, k)
  BY PostedElsewhere DEF f
<1> QED BY <1>7, <1>8 DEF f

\* The books h[i] once the first i requests of s have spent what has elapsed.
SpendingStages(h, E, e, d, s) ==
  /\ h \in [0..Len(s) -> E]
  /\ h[0] = e
  /\ \A i \in 1..Len(s) : h[i] = SpendElapsed(h[i - 1], s[i], d)
  /\ h[Len(s)] = SpentInTurn(e, d, s)

LEMMA SpendingByStages ==
  ASSUME NEW E, NEW D, NEW d, NEW e \in E, NEW s \in Seq(D),
         \A v \in E, r \in D : SpendElapsed(v, r, d) \in E
  PROVE  \E h : SpendingStages(h, E, e, d, s)
<1> DEFINE n == Len(s)
           G == [i \in 1..n |-> [v \in E |-> SpendElapsed(v, s[i], d)]]
           iter == CHOOSE iter : iter = [t \in SUBSET (1..n) |->
                     IF t = {} THEN e ELSE SpendElapsed(iter[t \ {Max(t)}], s[Max(t)], d)]
           h == [i \in 0..n |-> iter[1..i]]
<1>1. n \in Nat /\ DOMAIN s = 1..n /\ \A i \in 1..n : s[i] \in D
  OBVIOUS
<1>2. SpentInTurn(e, d, s) = iter[1..n]
  BY <1>1 DEF SpentInTurn, FoldLeft, MapThenFoldSet
<1>3. \A t \in SUBSET (1..n) : t # {} => Max(t) \in 1..n /\ t \ {Max(t)} \in SUBSET (1..n)
  BY <1>1, PartsAre
<1>4. G \in [1..n -> [E -> E]]
  BY <1>1
<1>5. PICK f : FoldOf(f, E, e, n, G)
  <2> HIDE DEF G, n
  <2> QED BY <1>1, <1>4, FoldIsDefined
<1>6. f = [t \in SUBSET (1..n) |->
             IF t = {} THEN e ELSE SpendElapsed(f[t \ {Max(t)}], s[Max(t)], d)]
  BY <1>3, <1>5 DEF FoldOf
<1>7. iter = [t \in SUBSET (1..n) |->
                IF t = {} THEN e ELSE SpendElapsed(iter[t \ {Max(t)}], s[Max(t)], d)]
  BY <1>6
<1> HIDE DEF iter, G
<1>8. iter[1..0] = e
  <2>1. 1..0 = {} /\ {} \in SUBSET (1..n)
    OBVIOUS
  <2> QED BY <1>7, <2>1
<1>9. ASSUME NEW i \in 1..n PROVE iter[1..i] = SpendElapsed(iter[1..(i - 1)], s[i], d)
  <2> HIDE DEF n
  <2>1. /\ Max(1..i) = i /\ (1..i) \ {i} = 1..(i - 1)
        /\ 1..i \in SUBSET (1..n) /\ 1..i # {}
    BY <1>1, Prefix
  <2>2. iter[1..i] = IF 1..i = {} THEN e
                     ELSE SpendElapsed(iter[(1..i) \ {Max(1..i)}], s[Max(1..i)], d)
    BY <1>7, <2>1
  <2> QED BY <2>1, <2>2
<1>10. /\ h[0] = e /\ h[n] = iter[1..n]
       /\ \A i \in 1..n : h[i] = SpendElapsed(h[i - 1], s[i], d)
  <2>1. \A i \in 1..n : i - 1 \in 0..n /\ i \in 0..n
    BY <1>1
  <2>2. 0 \in 0..n /\ n \in 0..n
    BY <1>1
  <2> HIDE DEF n
  <2> QED BY <1>8, <1>9, <2>1, <2>2
<1>11. \A i \in 0..n : h[i] \in E
  <2> HIDE DEF h, n
  <2>1. ASSUME NEW i \in 1..n, h[i - 1] \in E PROVE h[i] \in E
    BY <1>1, <1>10, <2>1
  <2> QED BY <1>1, <1>10, <2>1, StagesKeep
<1>12. h \in [0..n -> E]
  BY <1>11
<1>13. SpendingStages(h, E, e, d, s)
  <2> HIDE DEF h
  <2> QED BY <1>2, <1>10, <1>12 DEF SpendingStages
<1> HIDE DEF h
<1> QED BY <1>13

\* No day of approved leave before date c is still to be spent.
Spendable(e, c) ==
  \A r \in RequestIds : e.requests[r].status = "Approved" =>
    \A x \in e.requests[r].dates \ e.requests[r].consumed : c <= x

\* Everything but the days consumed and the ledger.
SameButSpent(e, f) ==
  /\ SameFigures(e, f) /\ f.made = e.made
  /\ \A r \in RequestIds :
       LET q == e.requests[r] IN
       f.requests[r] = [q EXCEPT !.consumed = f.requests[r].consumed]
         /\ q.consumed \subseteq f.requests[r].consumed

\* Spending what has elapsed of a request files its days behind what is filed, if
\* none of them is earlier.
LEMMA SpendElapsedFiles ==
  ASSUME NEW e \in Drafts, NEW r \in RequestIds, NEW at \in Int, NEW c \in Int, NEW b \in Int,
         Spendable(e, c), c <= b, at - 1 <= b,
         \A k \in LeaveTypes : Filed(e, k, b, c)
  PROVE  LET f == SpendElapsed(e, r, at)
         IN  /\ f \in Drafts /\ SameButSpent(e, f) /\ Spendable(f, c)
             /\ \A k \in LeaveTypes : Filed(f, k, b, c)
             /\ f.requests[r].status = "Approved" =>
                  \A x \in f.requests[r].dates \ f.requests[r].consumed : at <= x
<1> DEFINE q == e.requests[r]
           days == Elapsed(q, at)
           S == days \ q.unpaid
           dates == InOrder(S)
           p == Posted(e, q.type, "spent", dates)
           spent == [q EXCEPT !.consumed = q.consumed \cup days]
           f == SpendElapsed(e, r, at)
<1>1. q \in Requests /\ q.type \in LeaveTypes /\ q.dates \subseteq Dates
  BY DEF Drafts, Requests
<1>2. days \subseteq q.dates /\ \A x \in days : c <= x /\ x < at
  BY DEF Elapsed, Spendable
<1>3. q.status = "Approved" => \A x \in q.dates : x \in days \/ x \in q.consumed \/ at <= x
  <2>1. \A x \in q.dates : x \in Int
    BY <1>1, YearsAreNumbers
  <2> QED BY <2>1 DEF Elapsed
<1>4. S \subseteq Int /\ IsFiniteSet(S) /\ \A x \in S : c <= x /\ x <= b
  <2>1. S \subseteq Dates /\ IsFiniteSet(Dates) /\ \A x \in Dates : x \in Int
    BY <1>1, <1>2, DatesAreDays, YearsAreNumbers
  <2>2. IsFiniteSet(S) /\ S \subseteq Int
    <3> HIDE DEF S
    <3> QED BY <2>1, FS_Subset
  <2>3. \A x \in S : x \in Int /\ x \in days
    BY <2>2
  <2> HIDE DEF S
  <2> QED BY <1>2, <2>2, <2>3
<1>5. dates \in Seq(Int) /\ \A i \in 1..Len(dates) : c <= dates[i] /\ dates[i] <= b
  <2> HIDE DEF S
  <2>1. dates \in Seq(Int) /\ dates \in Seq(S)
    BY <1>4, InOrderInts, InOrderIs
  <2> HIDE DEF dates
  <2>2. \A i \in 1..Len(dates) : dates[i] \in S
    BY <2>1
  <2> QED BY <1>4, <2>1, <2>2
<1>6. p \in Drafts /\ SameFigures(e, p) /\ p.requests = e.requests /\ p.made = e.made
  <2> HIDE DEF dates, q
  <2>1. p \in Drafts /\ SameFigures(e, p)
    BY <1>1, <1>5, PostedIs
  <2>2. p.requests = e.requests /\ p.made = e.made
    BY DEF Posted, Drafts
  <2> QED BY <2>1, <2>2
<1>7. \A k \in LeaveTypes : Filed(p, k, b, c)
  <2> HIDE DEF dates, q
  <2>1. Filed(p, q.type, b, c) /\ OthersFiled(e, p, q.type)
    <3>1. /\ Filed(e, q.type, b, c) /\ b <= b /\ c <= c /\ q.type \in LeaveTypes
          /\ "spent" \in {"accrual", "close", "spent"} /\ dates \in Seq(Int)
          /\ \A i \in 1..Len(dates) : dates[i] <= b
          /\ IF "spent" = "spent" THEN \A i \in 1..Len(dates) : c <= dates[i]
             ELSE /\ \A i \in 1..Len(dates) : b <= dates[i] /\ dates[i] <= c
                  /\ \A i, j \in 1..Len(dates) : i < j => dates[i] <= dates[j]
      BY <1>1, <1>5
    <3> QED BY <3>1, PostedInOrder
  <2> HIDE DEF p
  <2>2. \A k \in LeaveTypes : k = q.type \/ k \in LeaveTypes \ {q.type}
    OBVIOUS
  <2> QED BY <2>1, <2>2 DEF OthersFiled
<1>8. spent \in Requests
  <2> HIDE DEF q, days
  <2> QED BY <1>1, <1>2 DEF Requests
<1>9. /\ f \in Drafts /\ SameFigures(p, f) /\ f.made = p.made /\ f.ledger = p.ledger
      /\ f.requests = [e.requests EXCEPT ![r] = spent]
  <2> DEFINE rs == [p.requests EXCEPT ![r] = spent]
  <2>1. f = [p EXCEPT !.requests[r].consumed = @ \cup days]
    BY DEF SpendElapsed
  <2>2. f = [p EXCEPT !.requests = rs]
    <3> HIDE DEF p, days, f
    <3> QED BY <1>6, <2>1 DEF Drafts
  <2> HIDE DEF p, spent
  <2>3. rs \in [RequestIds -> Requests]
    BY <1>6, <1>8 DEF Drafts
  <2> HIDE DEF f
  <2>4. rs = [e.requests EXCEPT ![r] = spent]
    BY <1>6
  <2> HIDE DEF rs
  <2>5. f \in Drafts /\ SameFigures(p, f)
    BY <1>6, <2>2, <2>3, RequestsSet
  <2>6. f.made = p.made /\ f.ledger = p.ledger /\ f.requests = rs
    BY <1>6, <2>2 DEF Drafts
  <2> QED BY <2>4, <2>5, <2>6
<1>10. e.requests \in [RequestIds -> Requests]
  BY DEF Drafts
<1>11. /\ f.requests[r] = spent
       /\ \A i \in RequestIds \ {r} : f.requests[i] = e.requests[i]
  <2> HIDE DEF spent, f
  <2> QED BY <1>9, <1>10
<1>12. /\ spent.status = q.status /\ spent.dates = q.dates
       /\ spent.consumed = q.consumed \cup days
       /\ spent = [q EXCEPT !.consumed = spent.consumed]
  <2> HIDE DEF q, days
  <2> QED BY <1>1 DEF Requests
<1> HIDE DEF f, p, spent, days, dates, S
<1>13. \A k \in LeaveTypes : Filed(f, k, b, c)
  BY <1>7, <1>9 DEF Filed
<1>14. SameButSpent(e, f)
  <2>1. SameFigures(e, f) /\ f.made = e.made
    BY <1>6, <1>9 DEF SameFigures
  <2>2. ASSUME NEW i \in RequestIds
        PROVE  /\ f.requests[i] = [e.requests[i] EXCEPT !.consumed = f.requests[i].consumed]
               /\ e.requests[i].consumed \subseteq f.requests[i].consumed
    <3>1. CASE i = r
      BY <1>11, <1>12, <3>1
    <3>2. CASE i # r
      <4>1. f.requests[i] = e.requests[i] /\ e.requests[i] \in Requests
        BY <1>10, <1>11, <3>2
      <4>2. e.requests[i] = [e.requests[i] EXCEPT !.consumed = e.requests[i].consumed]
        BY <4>1 DEF Requests
      <4> QED BY <4>1, <4>2
    <3> QED BY <3>1, <3>2
  <2> QED BY <2>1, <2>2 DEF SameButSpent
<1>15. Spendable(f, c)
  <2>1. ASSUME NEW i \in RequestIds, f.requests[i].status = "Approved",
               NEW x \in f.requests[i].dates \ f.requests[i].consumed
        PROVE  c <= x
    <3>1. CASE i = r
      BY <1>11, <1>12, <2>1, <3>1 DEF Spendable
    <3>2. CASE i # r
      BY <1>11, <2>1, <3>2 DEF Spendable
    <3> QED BY <3>1, <3>2
  <2> QED BY <2>1 DEF Spendable
<1>16. f.requests[r].status = "Approved" =>
         \A x \in f.requests[r].dates \ f.requests[r].consumed : at <= x
  BY <1>3, <1>11, <1>12
<1> QED BY <1>9, <1>13, <1>14, <1>15, <1>16 DEF f

LEMMA SameButSpentInTurn ==
  ASSUME NEW e \in Drafts, NEW f \in Drafts, NEW g \in Drafts, SameButSpent(e, f), SameButSpent(f, g)
  PROVE  SameButSpent(e, g)
<1>1. ASSUME NEW r \in RequestIds
      PROVE  /\ g.requests[r] = [e.requests[r] EXCEPT !.consumed = g.requests[r].consumed]
             /\ e.requests[r].consumed \subseteq g.requests[r].consumed
  <2> DEFINE p == e.requests[r]
             q == f.requests[r]
             s == g.requests[r]
  <2>1. /\ q = [p EXCEPT !.consumed = q.consumed] /\ p.consumed \subseteq q.consumed
        /\ s = [q EXCEPT !.consumed = s.consumed] /\ q.consumed \subseteq s.consumed
    BY DEF SameButSpent
  <2>2. p \in Requests /\ q \in Requests /\ s \in Requests
    BY DEF Drafts
  <2> HIDE DEF p, q, s
  <2>3. s = [p EXCEPT !.consumed = s.consumed] /\ p.consumed \subseteq s.consumed
    BY <2>1, <2>2 DEF Requests
  <2> QED BY <2>3 DEF p, q, s
<1> QED BY <1>1 DEF SameButSpent, SameFigures

\* Reconciling files the days that have ended by the start of date at.
LEMMA ReconciledFiles ==
  ASSUME NEW e \in Drafts, NEW at \in Int, NEW c \in Int, NEW b \in Int,
         Spendable(e, c), c <= b, at - 1 <= b,
         \A k \in LeaveTypes : Filed(e, k, c, c)
  PROVE  LET f == Reconciled(e, at)
         IN  /\ f \in Drafts /\ SameButSpent(e, f) /\ Spendable(f, at)
             /\ \A k \in LeaveTypes : Filed(f, k, b, c)
<1> DEFINE s == InOrder(RequestIds)
           n == Len(s)
           f == Reconciled(e, at)
<1>1. s \in Seq(RequestIds) /\ \A r \in RequestIds : \E i \in 1..n : s[i] = r
  <2>1. IsFiniteSet(RequestIds) /\ RequestIds \subseteq Int
    BY HorizonAssumption
  <2> QED BY <2>1, InOrderIs
<1>2. f = SpentInTurn(e, at, s)
  BY DEF Reconciled, SpentInTurn
<1>3. \A v \in Drafts, r \in RequestIds : SpendElapsed(v, r, at) \in Drafts
  BY SpendElapsedIs
<1> HIDE DEF s, f
<1>4. PICK h : SpendingStages(h, Drafts, e, at, s)
  BY <1>1, <1>3, SpendingByStages
<1>5. /\ n \in Nat /\ h[0] = e /\ h[n] = f
      /\ \A i \in 1..n : s[i] \in RequestIds /\ h[i] = SpendElapsed(h[i - 1], s[i], at)
  BY <1>1, <1>2, <1>4 DEF SpendingStages
<1> HIDE DEF n
<1> DEFINE Done(v, i) ==
             \A j \in 1..i : v.requests[s[j]].status = "Approved" =>
               \A x \in v.requests[s[j]].dates \ v.requests[s[j]].consumed : at <= x
           Good(i) ==
             /\ h[i] \in Drafts /\ SameButSpent(e, h[i]) /\ Spendable(h[i], c)
             /\ \A k \in LeaveTypes : Filed(h[i], k, b, c)
             /\ Done(h[i], i)
           S == {i \in Nat : i <= n => Good(i)}
<1>6. 0 \in S
  <2>1. SameButSpent(e, e)
    <3>1. \A r \in RequestIds : e.requests[r] \in Requests
      BY DEF Drafts
    <3>2. \A q \in Requests : q = [q EXCEPT !.consumed = q.consumed]
      BY DEF Requests
    <3> QED BY <3>1, <3>2 DEF SameButSpent, SameFigures
  <2>2. \A k \in LeaveTypes : Filed(e, k, b, c)
    BY FiledLater
  <2>3. Done(e, 0)
    OBVIOUS
  <2> HIDE DEF Done
  <2>4. Good(0)
    BY <1>5, <2>1, <2>2, <2>3
  <2> HIDE DEF Good
  <2> QED BY <2>4
<1>7. ASSUME NEW m \in Nat, m \in S PROVE m + 1 \in S
  <2> SUFFICES ASSUME m + 1 <= n PROVE Good(m + 1)
    <3> HIDE DEF Good
    <3> QED OBVIOUS
  <2> DEFINE v == h[m]
             w == h[m + 1]
             r == s[m + 1]
  <2>1. m + 1 \in 1..n /\ m <= n /\ (m + 1) - 1 = m
    BY <1>5
  <2>2. Good(m)
    <3> HIDE DEF Good
    <3> QED BY <1>7, <2>1
  <2>3. /\ v \in Drafts /\ SameButSpent(e, v) /\ Spendable(v, c)
        /\ \A k \in LeaveTypes : Filed(v, k, b, c)
        /\ Done(v, m)
    BY <2>2
  <2>4. r \in RequestIds /\ w = SpendElapsed(v, r, at)
    BY <1>5, <2>1
  <2> HIDE DEF v, w, r, Done
  <2>5. /\ w \in Drafts /\ SameButSpent(v, w) /\ Spendable(w, c)
        /\ \A k \in LeaveTypes : Filed(w, k, b, c)
        /\ w.requests[r].status = "Approved" =>
             \A x \in w.requests[r].dates \ w.requests[r].consumed : at <= x
    BY <2>3, <2>4, SpendElapsedFiles
  <2>6. SameButSpent(e, w)
    BY <2>3, <2>5, SameButSpentInTurn
  <2>7. Done(w, m + 1)
    <3> SUFFICES ASSUME NEW j \in 1..(m + 1), w.requests[s[j]].status = "Approved",
                        NEW x \in w.requests[s[j]].dates \ w.requests[s[j]].consumed
                 PROVE  at <= x
      BY DEF Done
    <3>1. j = m + 1 \/ j \in 1..m
      OBVIOUS
    <3>2. CASE j = m + 1
      <4>1. s[j] = r
        BY <3>2 DEF r
      <4> QED BY <2>5, <4>1
    <3>3. CASE j \in 1..m
      <4> DEFINE i == s[j]
      <4>1. i \in RequestIds
        BY <1>5, <2>1, <3>3
      <4>2. /\ w.requests[i] = [v.requests[i] EXCEPT !.consumed = w.requests[i].consumed]
            /\ v.requests[i].consumed \subseteq w.requests[i].consumed /\ v.requests[i] \in Requests
        <5> HIDE DEF i
        <5> QED BY <2>3, <2>5, <4>1 DEF SameButSpent, Drafts
      <4>3. /\ w.requests[i].status = v.requests[i].status
            /\ w.requests[i].dates = v.requests[i].dates
        <5> HIDE DEF i
        <5> QED BY <4>2 DEF Requests
      <4>4. v.requests[i].status = "Approved" /\ x \in v.requests[i].dates \ v.requests[i].consumed
        BY <4>2, <4>3
      <4> QED BY <2>3, <3>3, <4>4 DEF Done
    <3> QED BY <3>1, <3>2, <3>3
  <2> QED BY <2>5, <2>6, <2>7 DEF w
<1>8. n \in S
  <2>1. Nat \subseteq S
    <3> HIDE DEF S
    <3> QED BY <1>6, <1>7, Induction
  <2> HIDE DEF S
  <2> QED BY <1>5, <2>1
<1>9. Good(n)
  <2>1. n <= n
    BY <1>5
  <2> HIDE DEF Good
  <2> QED BY <1>8, <2>1
<1>10. Spendable(f, at)
  <2>1. Done(f, n)
    BY <1>5, <1>9
  <2>2. \A r \in RequestIds : \E i \in 1..n : s[i] = r
    BY <1>1 DEF n
  <2> QED BY <2>1, <2>2 DEF Spendable
<1> QED BY <1>5, <1>9, <1>10 DEF f

--------------------------------------------------------------------------------
(* Months owed, as of two dates *)

\* The months of a year that a date has come for are those that begin by it.
LEMMA MonthsBegun ==
  ASSUME NEW anchor \in Anchors, NEW y \in Years, NEW at \in Dates, NEW d \in Dates, at <= d,
         NEW i \in 1..MonthsEarned(anchor, y, d),
         FirstOfMonth(y, HireMonth(anchor, y) + i - 1) <= at
  PROVE  i \in 1..MonthsEarned(anchor, y, at)
<1> DEFINE h == HireMonth(anchor, y)
           n == MonthsEarned(anchor, y, d)
           m == MonthsEarned(anchor, y, at)
           end == IF y < YearOf(at) THEN MonthsPerYear ELSE MonthOf(at)
           month == h + i - 1
           x == FirstOfMonth(y, month)
<1>1. h \in 1..(MonthsPerYear + 1)
  BY HireMonthIs
<1>2. /\ at \in Int /\ YearOf(at) \in Int /\ MonthOf(at) \in 1..MonthsPerYear /\ y \in Int
      /\ YearOf(anchor) \in Int
  BY DatesAreDays, YearOfAny, AnchorsAreNumbers
<1>3. /\ n \in Nat
      /\ n > 0 => /\ anchor # NoDate /\ YearOf(anchor) <= y
                  /\ h + n - 1 \in 1..MonthsPerYear
  BY MonthsEarnedIs
<1>4. i \in 1..n
  OBVIOUS
<1> HIDE DEF n
<1>5. anchor # NoDate /\ YearOf(anchor) <= y /\ month \in 1..MonthsPerYear /\ month \in Int
  <2>1. n > 0 /\ i \in Int
    BY <1>3, <1>4
  <2> HIDE DEF h
  <2> QED BY <1>1, <1>3, <1>4, <2>1, YearsAreLong
<1>6. end \in 1..MonthsPerYear
  BY <1>2, YearsAreLong
<1>7. Max({0, end - h + 1}) = IF 0 >= end - h + 1 THEN 0 ELSE end - h + 1
  <2>1. end - h + 1 \in Int
    BY <1>1, <1>6, YearsAreLong
  <2> HIDE DEF end, h
  <2> QED BY <2>1, MaxOfTwo
<1>8. m = IF anchor = NoDate \/ y > YearOf(at) \/ YearOf(anchor) > y THEN 0
          ELSE IF 0 >= end - h + 1 THEN 0 ELSE end - h + 1
  BY <1>7 DEF MonthsEarned
<1>9. x \in Dates /\ YearOf(x) = y /\ MonthOf(x) = month /\ x <= at /\ x \in Int
  <2>1. x \in Dates /\ YearOf(x) = y
    <3> HIDE DEF month
    <3> QED BY <1>5, FirstOfMonthIs
  <2>2. x <= at
    OBVIOUS
  <2>3. MonthOf(x) = month
    <3> DEFINE r == DatesPerMonth * (month - 1)
    <3>1. r \in Int /\ r \in 0..(DatesPerYear - 1)
      <4> HIDE DEF month
      <4>1. month - 1 \in Nat /\ month - 1 <= MonthsPerYear - 1 /\ MonthsPerYear - 1 \in Int
        BY <1>5, YearsAreLong
      <4>2. r \in Int /\ r >= 0 /\ r <= DatesPerMonth * (MonthsPerYear - 1)
        BY <4>1, YearsAreLong
      <4>3. DatesPerMonth * (MonthsPerYear - 1) = DatesPerYear - DatesPerMonth
        BY YearsAreLong
      <4> HIDE DEF r
      <4> QED BY <4>2, <4>3, YearsAreLong
    <3>2. x = DatesPerYear * y + r
      BY DEF FirstOfMonth
    <3>3. x \in Int
      BY <2>1, YearsAreNumbers
    <3>4. x % DatesPerYear = r
      <4> DEFINE q == x \div DatesPerYear
                 p == x % DatesPerYear
      <4>1. q = y /\ p \in Int /\ x = DatesPerYear * q + p
        <5>1. q = y
          BY <2>1 DEF YearOf
        <5>2. x \in Int
          BY <3>3
        <5> HIDE DEF x
        <5>3. x % DatesPerYear \in 0..(DatesPerYear - 1) /\ x = DatesPerYear * (x \div DatesPerYear) + (x % DatesPerYear)
          BY <5>2, YearsAreLong, DivMod
        <5>4. \A z \in 0..(DatesPerYear - 1) : z \in Int
          BY YearsAreLong
        <5> QED BY <5>1, <5>3, <5>4
      <4>2. DatesPerYear * y \in Int
        BY <1>2, YearsAreLong
      <4> HIDE DEF x, r, q, p
      <4>3. p = r
        BY <3>1, <3>2, <4>1, <4>2
      <4> QED BY <4>3 DEF p
    <3>5. r \div DatesPerMonth = month - 1
      <4> HIDE DEF month
      <4>1. r = DatesPerMonth * (month - 1) + 0 /\ 0 \in 0..(DatesPerMonth - 1) /\ month - 1 \in Int
        BY <1>5, YearsAreLong
      <4> HIDE DEF r
      <4> QED BY <3>1, <4>1, YearsAreLong, DivIs
    <3> HIDE DEF x, r
    <3>6. MonthOf(x) = (month - 1) + 1
      BY <3>4, <3>5 DEF MonthOf
    <3> HIDE DEF month
    <3> QED BY <1>5, <3>6
  <2> HIDE DEF x
  <2> QED BY <2>1, <2>2, <2>3, YearsAreNumbers
<1> HIDE DEF x
<1>10. y <= YearOf(at) /\ (y = YearOf(at) => month <= MonthOf(at))
  <2>1. YearOf(x) <= YearOf(at) /\ (YearOf(x) = YearOf(at) => MonthOf(x) <= MonthOf(at))
    BY <1>2, <1>9, YearsMonotone
  <2> QED BY <1>9, <2>1
<1>11. month <= end
  <2> HIDE DEF month
  <2> QED BY <1>2, <1>5, <1>10, YearsAreLong
<1>12. i \in Int /\ i >= 1 /\ i <= end - h + 1 /\ end - h + 1 \in Int
  <2>1. i \in Int /\ i >= 1 /\ h \in Int /\ end \in Int /\ h + i - 1 <= end
    <3>1. h \in Int /\ end \in Int
      <4> HIDE DEF h, end
      <4> QED BY <1>1, <1>6, YearsAreLong
    <3> HIDE DEF end
    <3> QED BY <1>3, <1>4, <1>11, <3>1
  <2> HIDE DEF h, end
  <2> QED BY <2>1
<1>13. m = end - h + 1
  <2> HIDE DEF m, end, h, month
  <2> QED BY <1>2, <1>5, <1>8, <1>10, <1>12
<1> HIDE DEF m, end, h
<1>14. i \in 1..m
  BY <1>12, <1>13
<1> QED BY <1>14 DEF m

\* The months owed of a year depend on these figures of it alone.
LEMMA SameOwed ==
  ASSUME NEW e, NEW f, NEW k, NEW y, NEW d,
         f.anchor = e.anchor, f.rows = e.rows, f.manual = e.manual,
         f.carried[k][y] = e.carried[k][y], f.accrued[k][y] = e.accrued[k][y],
         f.closed[k][y] <=> e.closed[k][y]
  PROVE  OwedDates(f, k, y, Targets(f, k, y, d)) = OwedDates(e, k, y, Targets(e, k, y, d))
<1>1. Targets(f, k, y, d) = Targets(e, k, y, d)
  BY SameGoal
<1> QED BY <1>1 DEF OwedDates, Owed

\* The months of a year, as of two dates.
LEMMA TargetsExtend ==
  ASSUME NEW e \in Drafts, NEW k \in LeaveTypes, NEW y \in Years, NEW at \in Dates, NEW d \in Dates,
         at <= d
  PROVE  LET s == Targets(e, k, y, at)
             t == Targets(e, k, y, d)
             m == MonthsEarned(e.anchor, y, at)
             n == MonthsEarned(e.anchor, y, d)
         IN  /\ m \in Nat /\ n \in Nat /\ m <= n /\ DOMAIN s = 1..m /\ DOMAIN t = 1..n
             /\ \A i \in 1..n : t[i] \in Int
             /\ \A i \in 1..m : i \in 1..n /\ s[i] = t[i]
<1> DEFINE s == Targets(e, k, y, at)
           t == Targets(e, k, y, d)
           m == MonthsEarned(e.anchor, y, at)
           n == MonthsEarned(e.anchor, y, d)
<1>1. m \in Nat /\ n \in Nat /\ m <= n
  BY DraftsAre, MonthsEarnedIs, MonthsEarnedGrow
<1>2. d <= d
  BY YearsAreNumbers
<1>3. DOMAIN s = 1..m /\ DOMAIN t = 1..n /\ \A i \in 1..n : t[i] \in Int
  <2> HIDE DEF s, t, m, n
  <2> QED BY <1>2, TargetsAre DEF s, t, m, n
<1>4. \A i \in 1..m : i \in 1..n
  <2> HIDE DEF m, n
  <2> QED BY <1>1
<1>5. \A i \in 1..m : s[i] = t[i]
  <2> HIDE DEF m, n
  <2> QED BY <1>4 DEF Targets, m, n
<1> HIDE DEF s, t, m, n
<1> QED BY <1>1, <1>3, <1>4, <1>5 DEF s, t, m, n

\* What is owed by a date is owed by any later one.
LEMMA OwedLater ==
  ASSUME NEW e \in Drafts, NEW k \in LeaveTypes, NEW y \in Years, NEW at \in Dates, NEW d \in Dates,
         at <= d
  PROVE  OwedDates(e, k, y, Targets(e, k, y, at)) \subseteq OwedDates(e, k, y, Targets(e, k, y, d))
<1> DEFINE s == Targets(e, k, y, at)
           t == Targets(e, k, y, d)
           m == MonthsEarned(e.anchor, y, at)
           n == MonthsEarned(e.anchor, y, d)
           start == e.accrued[k][y]
<1>1. /\ m \in Nat /\ n \in Nat /\ m <= n /\ DOMAIN s = 1..m /\ DOMAIN t = 1..n
      /\ \A i \in 1..m : i \in 1..n /\ s[i] = t[i]
  BY TargetsExtend
<1> HIDE DEF s, t, m, n
<1>2. ASSUME NEW i \in Raising(s, start) PROVE i \in Raising(t, start)
  <2>1. i \in 1..m /\ \A j \in 0..(i - 1) : s[i] > IF j = 0 THEN start ELSE s[j]
    BY <1>1 DEF Raising
  <2>2. \A j \in 0..(i - 1) : j = 0 \/ j \in 1..m
    BY <1>1, <2>1
  <2>3. i \in 1..n /\ \A j \in 0..(i - 1) : t[i] > IF j = 0 THEN start ELSE t[j]
    BY <1>1, <2>1, <2>2
  <2> QED BY <1>1, <2>3 DEF Raising
<1>3. Owed(e, k, y, s) \subseteq Owed(e, k, y, t)
  BY <1>2 DEF Owed
<1>4. OwedDates(e, k, y, s) \subseteq OwedDates(e, k, y, t)
  BY <1>3 DEF OwedDates
<1> QED BY <1>4 DEF s, t

\* What a step for leave type k leaves alone.
Aside(e, f, k) ==
  /\ f.requests = e.requests
  /\ \A j \in LeaveTypes \ {k} : f.made[j] = e.made[j]
  /\ \A y \in Years : e.made[k][y] => f.made[k][y]
  /\ OthersFiled(e, f, k)

LEMMA AsideInTurn ==
  ASSUME NEW e, NEW f, NEW g, NEW k, Aside(e, f, k), Aside(f, g, k)
  PROVE  Aside(e, g, k)
<1>1. OthersFiled(e, g, k)
  BY DEF Aside, OthersFiled
<1> QED BY <1>1 DEF Aside

LEMMA EnsuredAside ==
  ASSUME NEW e \in Drafts, NEW k \in LeaveTypes, NEW y \in Years
  PROVE  LET f == Ensured(e, k, y)
         IN  /\ f \in Drafts /\ SameFigures(e, f) /\ Aside(e, f, k)
             /\ f.ledger = e.ledger /\ f.made[k][y]
<1> DEFINE f == Ensured(e, k, y)
<1>1. f \in Drafts /\ SameFigures(e, f)
  BY EnsuredIs
<1>2. f.ledger = e.ledger /\ f.requests = e.requests /\ f.made = [e.made EXCEPT ![k][y] = TRUE]
  BY DEF Ensured, Drafts
<1>3. e.made \in PerYear(BOOLEAN)
  BY DEF Drafts
<1> HIDE DEF f
<1>4. /\ f.made[k][y]
      /\ \A j \in LeaveTypes \ {k} : f.made[j] = e.made[j]
      /\ \A z \in Years : e.made[k][z] => f.made[k][z]
  BY <1>2, <1>3 DEF PerYear
<1>5. OthersFiled(e, f, k)
  BY <1>2 DEF OthersFiled, Filed
<1> QED BY <1>1, <1>2, <1>4, <1>5 DEF f, Aside

\* An accrual posts what is owed; where that is at most one date, behind what is
\* filed before it.
LEMMA AccruedFiles ==
  ASSUME NEW e \in Drafts, NEW k \in LeaveTypes, NEW y \in Years, NEW at \in Dates
  PROVE  LET f == Accrued(e, k, y, at)
             D == OwedDates(e, k, y, Targets(e, k, y, at))
         IN  /\ Aside(e, f, k) /\ f.made[k][y]
             /\ D = {} => f = Ensured(e, k, y)
             /\ \A b \in Int : D \subseteq {b} /\ Filed(e, k, b, b) => Filed(f, k, b, b)
<1> DEFINE g == Ensured(e, k, y)
           t == Targets(e, k, y, at)
           owed == Owed(g, k, y, t)
           D == OwedDates(e, k, y, t)
           dates == InOrder(D)
           p == Posted(g, k, "accrual", dates)
           f == Accrued(e, k, y, at)
<1>1. g \in Drafts /\ SameFigures(e, g) /\ Aside(e, g, k) /\ g.ledger = e.ledger /\ g.made[k][y]
  BY EnsuredAside
<1>2. f = AccruedTo(g, k, y, t)
  BY DEF Accrued
<1>3. D \subseteq Int /\ IsFiniteSet(D)
  BY OwedDatesAre
<1> HIDE DEF g, t
<1>4. OwedDates(g, k, y, t) = D /\ (D = {} <=> owed = {})
  <2>1. Owed(g, k, y, t) = Owed(e, k, y, t) /\ g.anchor = e.anchor
    BY <1>1 DEF Owed, SameFigures
  <2>2. OwedDates(g, k, y, t) = D
    BY <2>1 DEF OwedDates
  <2>3. D = {} <=> owed = {}
    BY <2>1 DEF OwedDates
  <2> QED BY <2>2, <2>3
<1> HIDE DEF D
<1>5. dates \in Seq(Int) /\ dates \in Seq(D)
  BY <1>3, InOrderInts, InOrderIs
<1>6. CASE owed = {}
  <2>1. f = g
    BY <1>2, <1>6 DEF AccruedTo
  <2>2. \A b \in Int : Filed(e, k, b, b) => Filed(g, k, b, b)
    BY <1>1 DEF Filed
  <2> HIDE DEF f
  <2> QED BY <1>1, <2>1, <2>2 DEF f, g, D, t
<1>7. CASE owed # {}
  <2> HIDE DEF dates
  <2>1. p \in Drafts /\ p.requests = g.requests /\ p.made = g.made
    <3>1. p \in Drafts
      BY <1>1, <1>5, PostedIs
    <3>2. p.requests = g.requests /\ p.made = g.made
      BY <1>1 DEF Posted, Drafts
    <3> QED BY <3>1, <3>2
  <2>2. OthersFiled(g, p, k)
    BY <1>1, <1>5, PostedElsewhere
  <2>3. f = [p EXCEPT !.accrued[k][y] = t[Max(owed)]]
    <3>1. p = Posted(g, k, "accrual", InOrder(OwedDates(g, k, y, t)))
      BY <1>4 DEF dates
    <3> HIDE DEF p
    <3> QED BY <1>2, <1>7, <3>1 DEF AccruedTo
  <2>4. ASSUME NEW b \in Int, D \subseteq {b}, Filed(e, k, b, b) PROVE Filed(p, k, b, b)
    <3>1. Filed(g, k, b, b)
      BY <1>1, <2>4 DEF Filed
    <3>2. \A i \in 1..Len(dates) : dates[i] = b
      BY <1>5, <2>4
    <3>3. /\ b <= b /\ "accrual" \in {"accrual", "close", "spent"}
          /\ \A i \in 1..Len(dates) : dates[i] <= b
          /\ IF "accrual" = "spent" THEN \A i \in 1..Len(dates) : b <= dates[i]
             ELSE /\ \A i \in 1..Len(dates) : b <= dates[i] /\ dates[i] <= b
                  /\ \A i, j \in 1..Len(dates) : i < j => dates[i] <= dates[j]
      BY <3>2
    <3> QED BY <1>1, <1>5, <3>1, <3>3, PostedInOrder
  <2> HIDE DEF p, owed
  <2>5. f.requests = p.requests /\ f.made = p.made /\ f.ledger = p.ledger
    BY <2>1, <2>3 DEF Drafts
  <2> HIDE DEF f
  <2>6. OthersFiled(p, f, k) /\ \A b \in Int : Filed(p, k, b, b) => Filed(f, k, b, b)
    BY <2>5 DEF OthersFiled, Filed
  <2>7. Aside(g, f, k)
    BY <2>1, <2>2, <2>5, <2>6 DEF Aside, OthersFiled
  <2>8. Aside(e, f, k) /\ f.made[k][y]
    BY <1>1, <2>1, <2>5, <2>7, AsideInTurn
  <2>9. D # {}
    BY <1>4, <1>7 DEF owed
  <2>10. \A b \in Int : D \subseteq {b} /\ Filed(e, k, b, b) => Filed(f, k, b, b)
    BY <2>4, <2>6
  <2> QED BY <2>8, <2>9, <2>10 DEF f, D, t
<1> QED BY <1>6, <1>7

--------------------------------------------------------------------------------
(* What is expected, and where *)

\* Of leave type k, no employed year lacks its row, and what falls due by date d
\* does so on the dates of M.
Expects(e, k, d, M) ==
  \A y \in Years : Epoch(e) <= y /\ y <= YearOf(d) =>
    /\ e.made[k][y]
    /\ y > Epoch(e) /\ ~e.finalized[k][y] => FirstOfYear(y) \in M
    /\ OwedDates(e, k, y, Targets(e, k, y, d)) \subseteq M

\* No month is owed of a year before the hire.
LEMMA NoMonthsBefore ==
  ASSUME NEW e \in Drafts, NEW k \in LeaveTypes, NEW y \in Years, NEW at \in Dates,
         y < YearOf(e.anchor) \/ y > YearOf(at)
  PROVE  OwedDates(e, k, y, Targets(e, k, y, at)) = {}
<1> DEFINE t == Targets(e, k, y, at)
           n == MonthsEarned(e.anchor, y, at)
<1>1. n \in Nat /\ (n > 0 => YearOf(e.anchor) <= y /\ y <= YearOf(at))
  BY DraftsAre, MonthsEarnedIs
<1>2. y \in Int /\ YearOf(e.anchor) \in Int /\ YearOf(at) \in Int
  BY YearsAreNumbers, YearOfAny, EpochIs
<1>3. n = 0
  <2> HIDE DEF n
  <2> QED BY <1>1, <1>2
<1>4. DOMAIN t = {}
  <2>1. DOMAIN t = 1..n /\ 1..0 = {}
    BY DEF Targets
  <2> QED BY <1>3, <2>1
<1>5. Owed(e, k, y, t) = {}
  BY <1>4 DEF Owed, Raising
<1> QED BY <1>5 DEF OwedDates

\* The dates of a year lie between its first and the first of the next.
LEMMA DatesOfYears ==
  ASSUME NEW x \in Dates, NEW b \in Dates
  PROVE  /\ YearOf(x) < YearOf(b) => x < b
         /\ x \in Int /\ b \in Int
<1>1. x \in Int /\ b \in Int /\ YearOf(x) \in Int /\ YearOf(b) \in Int
  BY YearsAreNumbers, YearOfAny
<1>2. b <= x => YearOf(b) <= YearOf(x)
  BY <1>1, YearsMonotone
<1> QED BY <1>1, <1>2

LEMMA OwedDatesInYear ==
  ASSUME NEW e \in Drafts, NEW k \in LeaveTypes, NEW y \in Years, NEW at \in Dates,
         NEW x \in OwedDates(e, k, y, Targets(e, k, y, at))
  PROVE  x \in Dates /\ YearOf(x) = y /\ x <= at
<1> DEFINE t == Targets(e, k, y, at)
           n == MonthsEarned(e.anchor, y, at)
           h == HireMonth(e.anchor, y)
<1>1. PICK i \in Owed(e, k, y, t) : x = FirstOfMonth(y, h + i - 1)
  BY DEF OwedDates
<1>2. n \in Nat /\ i \in 1..n
  <2>1. DOMAIN t = 1..n /\ n \in Nat
    BY TargetsExtend, YearsAreNumbers
  <2> HIDE DEF t, n
  <2> QED BY <1>1, <2>1 DEF Owed, Raising
<1>3. h \in 1..(MonthsPerYear + 1) /\ (n > 0 => h + n - 1 \in 1..MonthsPerYear)
  BY DraftsAre, HireMonthIs, MonthsEarnedIs
<1> DEFINE m == h + i - 1
<1>4. m \in 1..MonthsPerYear
  <2> HIDE DEF h, n
  <2> QED BY <1>2, <1>3, YearsAreLong
<1>5. YearOf(x) = y
  <2> HIDE DEF m
  <2>1. YearOf(FirstOfMonth(y, m)) = y
    BY <1>4, FirstOfMonthIs
  <2> QED BY <1>1, <2>1 DEF m
<1> QED BY <1>5, OwedDatesAre

LEMMA FirstOfYearIs ==
  ASSUME NEW y \in Years
  PROVE  FirstOfYear(y) \in Dates /\ YearOf(FirstOfYear(y)) = y
<1>1. 1 \in 1..MonthsPerYear
  BY YearsAreLong
<1> QED BY <1>1, FirstOfMonthIs DEF FirstOfYear

LEMMA EpochIsOne ==
  ASSUME NEW e \in Drafts
  PROVE  Epoch(e) = Created \/ Epoch(e) = YearOf(e.anchor)
<1>1. Created \in Int /\ YearOf(e.anchor) \in Int
  BY EpochIs, YearsAreNumbers
<1>2. Epoch(e) = IF Created >= YearOf(e.anchor) THEN Created ELSE YearOf(e.anchor)
  BY <1>1, MaxOfTwo DEF Epoch
<1> QED BY <1>2

LEMMA AccruedGrows ==
  ASSUME NEW e \in Drafts, NEW k \in LeaveTypes, NEW y \in Years, NEW at \in Dates
  PROVE  e.accrued[k][y] <= Accrued(e, k, y, at).accrued[k][y]
<1> DEFINE g == Ensured(e, k, y)
           t == Targets(e, k, y, at)
           n == MonthsEarned(e.anchor, y, at)
           start == e.accrued[k][y]
           R == Raising(t, start)
           owed == Owed(g, k, y, t)
           p == Posted(g, k, "accrual", InOrder(OwedDates(g, k, y, t)))
           f == Accrued(e, k, y, at)
<1>1. g \in Drafts /\ SameFigures(e, g)
  BY EnsuredIs
<1>2. f = AccruedTo(g, k, y, t)
  BY DEF Accrued
<1>3. n \in Nat /\ DOMAIN t = 1..n /\ (\A i \in 1..n : t[i] \in Int) /\ start \in Int
  BY TargetsExtend, YearsAreNumbers, DraftsAre
<1>4. R # {} => Max(R) \in 1..n /\ start < t[Max(R)]
  <2> HIDE DEF t, n, start
  <2> QED BY <1>3, RaisingIs
<1> HIDE DEF g, f
<1>5. owed = {} \/ owed = R
  BY <1>1 DEF Owed, SameFigures
<1>6. CASE owed = {}
  <2>1. f = g
    BY <1>2, <1>6 DEF AccruedTo
  <2> QED BY <1>1, <1>3, <2>1 DEF SameFigures, f
<1>7. CASE owed # {}
  <2> DEFINE v == t[Max(R)]
  <2>1. p.accrued = e.accrued
    <3>1. p.accrued = g.accrued
      BY <1>1 DEF Posted, Drafts
    <3> QED BY <1>1, <3>1 DEF SameFigures
  <2>2. f = [p EXCEPT !.accrued[k][y] = v]
    <3>1. owed = R
      BY <1>5, <1>7
    <3> HIDE DEF p, R
    <3> QED BY <1>2, <1>7, <3>1 DEF AccruedTo, p
  <2>3. DOMAIN p = DOMAIN g /\ "accrued" \in DOMAIN p
    BY <1>1 DEF Posted, Drafts
  <2>4. e.accrued \in [LeaveTypes -> [Years -> Int]]
    BY DEF Drafts, PerYear
  <2> HIDE DEF p, v
  <2>5. f.accrued = [e.accrued EXCEPT ![k][y] = v]
    BY <2>1, <2>2, <2>3
  <2>6. f.accrued[k][y] = v
    BY <2>4, <2>5
  <2>7. start < v /\ v \in Int
    <3>1. R # {}
      BY <1>5, <1>7
    <3> HIDE DEF R, t, n, start
    <3> QED BY <1>3, <1>4, <3>1 DEF v
  <2> HIDE DEF f
  <2> QED BY <1>3, <2>6, <2>7 DEF f
<1> QED BY <1>6, <1>7

\* The accrual at a date posts what was expected on it, and of the rest of its
\* year the same is owed as before.
LEMMA AccruedExpects ==
  ASSUME NEW e \in Drafts, NEW k \in LeaveTypes, NEW b \in Dates, NEW d \in Dates, b <= d,
         Created <= YearOf(b), NEW since, Sound(e, d, since),
         NEW M, \A x \in M : x \in Int /\ b <= x, Expects(e, k, d, M),
         \A y \in Years : Epoch(e) < y /\ y <= YearOf(b) => e.finalized[k][y]
  PROVE  LET f == Accrued(e, k, YearOf(b), b)
         IN  /\ Advance(e, f, d, since) /\ Only(e, f, k) /\ Aside(e, f, k)
             /\ Expects(f, k, d, {x \in M : x > b})
             /\ b \notin M => f.ledger = e.ledger
             /\ Filed(e, k, b, b) => Filed(f, k, b, b)
<1> DEFINE Y == YearOf(b)
           D == OwedDates(e, k, Y, Targets(e, k, Y, b))
           f == Accrued(e, k, Y, b)
<1>1. /\ Y \in Years /\ Y \in Int /\ b \in Int /\ d \in Int /\ YearOf(d) \in Int /\ Y <= YearOf(d)
      /\ Epoch(e) \in Int /\ YearOf(e.anchor) \in Int /\ Created \in Int
  BY YearOfDate, YearsAreNumbers, YearOfAny, YearsMonotone, EpochIs
<1> HIDE DEF Y
<1>2. \A x \in D : x \in M /\ x = b
  <2>1. CASE Epoch(e) <= Y
    <3>1. D \subseteq OwedDates(e, k, Y, Targets(e, k, Y, d))
      BY <1>1, OwedLater
    <3>2. OwedDates(e, k, Y, Targets(e, k, Y, d)) \subseteq M
      BY <1>1, <2>1 DEF Expects
    <3>3. \A x \in D : x <= b /\ x \in Int
      BY <1>1, OwedDatesAre
    <3> HIDE DEF D
    <3> QED BY <1>1, <3>1, <3>2, <3>3
  <2>2. CASE ~(Epoch(e) <= Y)
    <3>1. Y < YearOf(e.anchor)
      BY <1>1, <2>2, EpochIsOne DEF Y
    <3>2. D = {}
      BY <1>1, <3>1, NoMonthsBefore
    <3> QED BY <3>2
  <2> QED BY <2>1, <2>2
<1>3. /\ Advance(e, f, d, since) /\ OnlyAccrued(e, f, k, Y) /\ Topped(f, k, Y, b)
      /\ Only(e, f, k) /\ f \in Drafts
  <2>1. Advance(e, f, d, since) /\ OnlyAccrued(e, f, k, Y) /\ Topped(f, k, Y, b)
    BY <1>1, AccruedIs
  <2> HIDE DEF f
  <2> QED BY <2>1, OnlyAccruedIs DEF Advance
<1>4. /\ Aside(e, f, k) /\ (D = {} => f = Ensured(e, k, Y))
      /\ \A z \in Int : D \subseteq {z} /\ Filed(e, k, z, z) => Filed(f, k, z, z)
      /\ f.made[k][Y]
  BY <1>1, AccruedFiles
<1>5. e.accrued[k][Y] <= f.accrued[k][Y] /\ e.accrued[k][Y] \in Int /\ f.accrued[k][Y] \in Int
  <2>1. e.accrued[k][Y] <= f.accrued[k][Y]
    BY <1>1, AccruedGrows
  <2> HIDE DEF f
  <2> QED BY <1>1, <1>3, <2>1, DraftsAre
<1>6. b \notin M => f.ledger = e.ledger
  <2> SUFFICES ASSUME b \notin M PROVE f.ledger = e.ledger
    OBVIOUS
  <2>1. D = {}
    BY <1>2
  <2>2. Ensured(e, k, Y).ledger = e.ledger
    BY <1>1, EnsuredAside
  <2> HIDE DEF D, f
  <2> QED BY <1>4, <2>1, <2>2
<1>7. Filed(e, k, b, b) => Filed(f, k, b, b)
  <2>1. D \subseteq {b}
    BY <1>2
  <2> HIDE DEF D, f
  <2> QED BY <1>1, <1>4, <2>1
<1> HIDE DEF f, D
<1>8. Epoch(f) = Epoch(e) /\ f.finalized = e.finalized /\ f.closed = e.closed
  BY <1>3 DEF OnlyAccrued, Epoch
<1>9. ASSUME NEW y \in Years, Epoch(f) <= y, y <= YearOf(d)
      PROVE  /\ f.made[k][y]
             /\ y > Epoch(f) /\ ~f.finalized[k][y] => FirstOfYear(y) \in M /\ FirstOfYear(y) > b
             /\ \A x \in OwedDates(f, k, y, Targets(f, k, y, d)) : x \in M /\ x > b
  <2>1. /\ e.made[k][y]
        /\ y > Epoch(e) /\ ~e.finalized[k][y] => FirstOfYear(y) \in M
        /\ OwedDates(e, k, y, Targets(e, k, y, d)) \subseteq M
        /\ y \in Int
    BY <1>8, <1>9, YearsAreNumbers DEF Expects
  <2>2. f.made[k][y]
    BY <1>4, <2>1 DEF Aside
  <2>3. ASSUME y > Epoch(f), ~f.finalized[k][y] PROVE FirstOfYear(y) \in M /\ FirstOfYear(y) > b
    <3>1. ~(y <= YearOf(b))
      BY <1>1, <1>8, <2>1, <2>3
    <3>2. YearOf(b) < YearOf(FirstOfYear(y)) /\ FirstOfYear(y) \in Dates
      BY <1>1, <2>1, <3>1, FirstOfYearIs DEF Y
    <3>3. b < FirstOfYear(y) /\ FirstOfYear(y) \in Int
      BY <3>2, DatesOfYears
    <3> QED BY <1>1, <1>8, <2>1, <2>3, <3>3
  <2>4. ASSUME NEW x \in OwedDates(f, k, y, Targets(f, k, y, d)) PROVE x \in M /\ x > b
    <3>1. x \in Dates /\ YearOf(x) = y
      BY <1>3, OwedDatesInYear
    <3>2. CASE y # Y
      <4>1. <<k, y>> # <<k, Y>>
        BY <3>2
      <4>2. /\ f.anchor = e.anchor /\ f.rows = e.rows /\ f.manual = e.manual
            /\ f.carried[k][y] = e.carried[k][y] /\ f.accrued[k][y] = e.accrued[k][y]
            /\ f.closed[k][y] <=> e.closed[k][y]
        BY <1>3, <4>1 DEF OnlyAccrued
      <4>3. x \in M
        BY <2>1, <2>4, <4>2, SameOwed
      <4>4. x # b
        BY <3>1, <3>2 DEF Y
      <4> QED BY <1>1, <4>3, <4>4
    <3>3. CASE y = Y
      <4> DEFINE s == Targets(f, k, y, b)
                 t == Targets(f, k, y, d)
                 h == HireMonth(f.anchor, y)
                 m == MonthsEarned(f.anchor, y, b)
                 n == MonthsEarned(f.anchor, y, d)
      <4>1. PICK i \in Owed(f, k, y, t) : x = FirstOfMonth(y, h + i - 1)
        BY <2>4 DEF OwedDates
      <4>2. /\ ~f.closed[k][y] /\ i \in DOMAIN t
            /\ \A j \in 0..(i - 1) : t[i] > IF j = 0 THEN f.accrued[k][y] ELSE t[j]
        BY <4>1 DEF Owed, Raising
      <4>3. Targets(e, k, y, d) = t
        BY <1>3, SameGoal DEF OnlyAccrued
      <4>4. /\ n \in Nat /\ DOMAIN s = 1..m /\ DOMAIN t = 1..n
            /\ \A j \in 1..n : t[j] \in Int
            /\ \A j \in 1..m : s[j] = t[j]
        BY <1>3, TargetsExtend
      <4> HIDE DEF s, t, h
      <4>5. t[i] > f.accrued[k][y] /\ t[i] \in Int
        <5>1. i \in 1..n /\ 0 \in 0..(i - 1)
          <6> HIDE DEF n
          <6> QED BY <4>2, <4>4
        <5> QED BY <4>2, <4>4, <5>1
      <4>6. i \in Raising(t, e.accrued[k][y])
        <5>1. \A j \in 0..(i - 1) : t[i] > IF j = 0 THEN e.accrued[k][y] ELSE t[j]
          <6>1. t[i] > e.accrued[k][y]
            BY <1>5, <3>3, <4>5
          <6> QED BY <4>2, <6>1
        <5> QED BY <4>2, <5>1 DEF Raising
      <4>7. x \in M
        <5>1. f.anchor = e.anchor
          BY <1>3 DEF OnlyAccrued
        <5>2. i \in Owed(e, k, y, t)
          BY <1>8, <4>2, <4>6 DEF Owed
        <5>3. x \in OwedDates(e, k, y, t)
          BY <4>1, <5>1, <5>2 DEF OwedDates, h
        <5> QED BY <2>1, <4>3, <5>3
      <4>8. ASSUME x <= b PROVE FALSE
        <5>1. i \in 1..n
          BY <4>2, <4>4
        <5>2. f.anchor \in Anchors
          BY <1>3 DEF Drafts
        <5>3. i \in 1..m
          BY <4>1, <4>8, <5>1, <5>2, MonthsBegun DEF h
        <5>4. s[i] <= f.accrued[k][y]
          BY <1>3, <3>3, <4>2, <4>4, <5>3 DEF Topped, s
        <5>5. s[i] = t[i]
          BY <4>4, <5>3
        <5> QED BY <1>5, <3>3, <4>5, <5>4, <5>5
      <4>9. x \in Int
        BY <3>1, YearsAreNumbers
      <4> QED BY <1>1, <4>7, <4>8, <4>9
    <3> QED BY <3>2, <3>3
  <2> QED BY <2>2, <2>3, <2>4
<1>10. Expects(f, k, d, {x \in M : x > b})
  BY <1>9 DEF Expects
<1> QED BY <1>3, <1>4, <1>6, <1>7, <1>10 DEF f, Y

LEMMA PairIs ==
  ASSUME NEW u \in Int, NEW v \in Int
  PROVE  LET w == <<u>> \o <<v>>
         IN  w \in Seq(Int) /\ Len(w) = 2 /\ w[1] = u /\ w[2] = v
<1> DEFINE s == <<u>>
           t == <<v>>
           w == s \o t
<1>1. s \in Seq(Int) /\ t \in Seq(Int) /\ Len(s) = 1 /\ Len(t) = 1 /\ s[1] = u /\ t[1] = v
  OBVIOUS
<1> HIDE DEF s, t
<1>2. w \in Seq(Int) /\ Len(w) = 2
  <2>1. w \in Seq(Int) /\ Len(w) = Len(s) + Len(t)
    BY <1>1, ConcatProperties
  <2> QED BY <1>1, <2>1
<1>3. 1 \in 1..(Len(s) + Len(t)) /\ 2 \in 1..(Len(s) + Len(t)) /\ 1 <= Len(s) /\ ~(2 <= Len(s))
      /\ 2 - Len(s) = 1
  BY <1>1
<1>4. w[1] = s[1] /\ w[2] = t[2 - Len(s)]
  <2>1. \A i \in 1..(Len(s) + Len(t)) : w[i] = IF i <= Len(s) THEN s[i] ELSE t[i - Len(s)]
    BY <1>1, ConcatProperties
  <2> HIDE DEF w
  <2> QED BY <1>3, <2>1
<1> QED BY <1>1, <1>2, <1>3, <1>4 DEF s, t

LEMMA ExpectsSame ==
  ASSUME NEW e, NEW f, NEW k, NEW d, NEW M, Expects(e, k, d, M), SameFigures(e, f),
         \A y \in Years : e.made[k][y] => f.made[k][y]
  PROVE  Expects(f, k, d, M)
<1>1. Epoch(f) = Epoch(e)
  BY DEF Epoch, SameFigures
<1>2. \A y \in Years : OwedDates(f, k, y, Targets(f, k, y, d)) = OwedDates(e, k, y, Targets(e, k, y, d))
  <2> SUFFICES ASSUME NEW y \in Years
               PROVE  OwedDates(f, k, y, Targets(f, k, y, d)) = OwedDates(e, k, y, Targets(e, k, y, d))
    OBVIOUS
  <2>1. /\ f.anchor = e.anchor /\ f.rows = e.rows /\ f.manual = e.manual
        /\ f.carried[k][y] = e.carried[k][y] /\ f.accrued[k][y] = e.accrued[k][y]
        /\ f.closed[k][y] <=> e.closed[k][y]
    BY DEF SameFigures
  <2> QED BY <2>1, SameOwed
<1> QED BY <1>1, <1>2 DEF Expects, SameFigures

\* The close of a year files what it books behind what is filed of the year.
LEMMA RolledFiles ==
  ASSUME NEW e \in Drafts, NEW k \in LeaveTypes, NEW y \in Years, y - 1 \in Years,
         NEW leftover \in Nat, NEW kept \in Nat
  PROVE  LET f == Rolled(e, k, y, leftover, kept)
             b == FirstOfYear(y)
         IN  Aside(e, f, k) /\ (Filed(e, k, b - 1, b - 1) => Filed(f, k, b, b))
<1> DEFINE b == FirstOfYear(y)
           outs == IF leftover > 0 THEN <<LastOfYear(y - 1)>> ELSE <<>>
           ins == IF kept > 0 THEN <<FirstOfYear(y)>> ELSE <<>>
           dates == outs \o ins
           p == Posted(e, k, "close", dates)
           f == Rolled(e, k, y, leftover, kept)
<1>1. b \in Int /\ LastOfYear(y - 1) = b - 1 /\ b - 1 <= b
  <2>1. y \in Int /\ (y - 1) + 1 = y
    BY YearsAreNumbers
  <2>2. b \in Int
    BY FirstOfYearIs, YearsAreNumbers
  <2>3. LastOfYear(y - 1) = b - 1
    BY <2>1 DEF LastOfYear
  <2> HIDE DEF b
  <2> QED BY <2>2, <2>3
<1> HIDE DEF b
<1>2. /\ dates \in Seq(Int)
      /\ \A i \in 1..Len(dates) : b - 1 <= dates[i] /\ dates[i] <= b
      /\ \A i, j \in 1..Len(dates) : i < j => dates[i] <= dates[j]
  <2>1. outs = IF leftover > 0 THEN <<b - 1>> ELSE <<>>
    BY <1>1
  <2>2. ins = IF kept > 0 THEN <<b>> ELSE <<>>
    BY DEF b
  <2>3. \/ dates = <<>> \/ dates = <<b>> \/ dates = <<b - 1>>
        \/ dates \in Seq(Int) /\ Len(dates) = 2 /\ dates[1] = b - 1 /\ dates[2] = b
    <3> HIDE DEF outs, ins
    <3>1. CASE leftover > 0 /\ kept > 0
      <4>1. outs = <<b - 1>> /\ ins = <<b>>
        BY <2>1, <2>2, <3>1
      <4>2. dates = <<b - 1>> \o <<b>> /\ b \in Int /\ b - 1 \in Int
        BY <1>1, <4>1
      <4> HIDE DEF dates
      <4> QED BY <4>2, PairIs
    <3>2. CASE leftover > 0 /\ ~(kept > 0)
      <4>1. outs = <<b - 1>> /\ ins = <<>>
        BY <2>1, <2>2, <3>2
      <4>2. <<b - 1>> \o <<>> = <<b - 1>>
        OBVIOUS
      <4> QED BY <4>1, <4>2
    <3>3. CASE ~(leftover > 0) /\ kept > 0
      <4>1. outs = <<>> /\ ins = <<b>>
        BY <2>1, <2>2, <3>3
      <4>2. <<>> \o <<b>> = <<b>>
        OBVIOUS
      <4> QED BY <4>1, <4>2
    <3>4. CASE ~(leftover > 0) /\ ~(kept > 0)
      <4>1. outs = <<>> /\ ins = <<>>
        BY <2>1, <2>2, <3>4
      <4> QED BY <4>1
    <3> QED BY <3>1, <3>2, <3>3, <3>4
  <2> HIDE DEF dates
  <2>4. CASE dates = <<>>
    BY <2>4
  <2>5. CASE dates = <<b>>
    BY <1>1, <2>5
  <2>6. CASE dates = <<b - 1>>
    BY <1>1, <2>6
  <2>7. CASE dates \in Seq(Int) /\ Len(dates) = 2 /\ dates[1] = b - 1 /\ dates[2] = b
    <3>1. \A i \in 1..2 : i = 1 \/ i = 2
      OBVIOUS
    <3> QED BY <1>1, <2>7, <3>1
  <2> QED BY <2>3, <2>4, <2>5, <2>6, <2>7
<1>3. /\ f.ledger = p.ledger /\ f.requests = p.requests /\ f.made = e.made
      /\ p \in Drafts /\ p.requests = e.requests
  <2>1. f = [p EXCEPT !.accrued[k][y - 1] = @ - leftover, !.accrued[k][y] = @ + kept,
                      !.closed[k][y - 1] = TRUE, !.carried[k][y] = kept,
                      !.finalized[k][y] = TRUE]
    BY DEF Rolled
  <2> HIDE DEF dates
  <2>2. p \in Drafts
    BY <1>2, PostedIs
  <2>3. p.requests = e.requests
    BY DEF Posted, Drafts
  <2>4. f.made = e.made
    BY RolledFigures
  <2> HIDE DEF p
  <2>5. f.ledger = p.ledger /\ f.requests = p.requests
    BY <2>1, <2>2 DEF Drafts
  <2> QED BY <2>2, <2>3, <2>4, <2>5
<1> HIDE DEF dates, f
<1>4. OthersFiled(e, p, k)
  BY <1>2, PostedElsewhere
<1>5. ASSUME Filed(e, k, b - 1, b - 1) PROVE Filed(p, k, b, b)
  <2>1. /\ b - 1 \in Int /\ "close" \in {"accrual", "close", "spent"}
        /\ \A i \in 1..Len(dates) : dates[i] <= b
        /\ IF "close" = "spent" THEN \A i \in 1..Len(dates) : b - 1 <= dates[i]
           ELSE /\ \A i \in 1..Len(dates) : b - 1 <= dates[i] /\ dates[i] <= b
                /\ \A i, j \in 1..Len(dates) : i < j => dates[i] <= dates[j]
    BY <1>1, <1>2
  <2> QED BY <1>1, <1>2, <1>5, <2>1, PostedInOrder
<1> HIDE DEF p
<1>6. OthersFiled(e, f, k)
  BY <1>3, <1>4 DEF OthersFiled, Filed
<1>7. Filed(p, k, b, b) => Filed(f, k, b, b)
  BY <1>3 DEF Filed
<1>8. Aside(e, f, k)
  BY <1>3, <1>6 DEF Aside
<1> QED BY <1>5, <1>7, <1>8 DEF f, b

\* What is kept raises the targets of the year it is kept into and its balance
\* alike, and the year it leaves owes nothing any more.
LEMMA RolledExpects ==
  ASSUME NEW e \in Drafts, NEW k \in LeaveTypes, NEW y \in Years, y - 1 \in Years,
         NEW d \in Dates, NEW since, Sound(e, d, since), ~e.finalized[k][y],
         NEW M, Expects(e, k, d, M), NEW leftover \in Nat, NEW kept \in Nat
  PROVE  Expects(Rolled(e, k, y, leftover, kept), k, d, M)
<1> DEFINE f == Rolled(e, k, y, leftover, kept)
<1>1. /\ f \in Drafts /\ f.made = e.made
      /\ f.anchor = e.anchor /\ f.rows = e.rows /\ f.manual = e.manual
      /\ \A z \in Years :
           /\ f.accrued[k][z] = IF z = y - 1 THEN e.accrued[k][z] - leftover
                                ELSE IF z = y THEN e.accrued[k][z] + kept
                                ELSE e.accrued[k][z]
           /\ f.closed[k][z] <=> e.closed[k][z] \/ z = y - 1
           /\ f.carried[k][z] = IF z = y THEN kept ELSE e.carried[k][z]
           /\ f.finalized[k][z] <=> e.finalized[k][z] \/ z = y
  BY RolledFigures
<1> HIDE DEF f
<1>2. y \in Int /\ y - 1 # y
  BY YearsAreNumbers
<1>3. e.carried[k][y] = 0
  BY SoundAt
<1>4. Epoch(f) = Epoch(e)
  BY <1>1 DEF Epoch
<1>5. OwedDates(f, k, y - 1, Targets(f, k, y - 1, d)) = {}
  <2>1. f.closed[k][y - 1]
    BY <1>1
  <2> QED BY <2>1 DEF OwedDates, Owed
<1>6. OwedDates(f, k, y, Targets(f, k, y, d)) = OwedDates(e, k, y, Targets(e, k, y, d))
  <2> DEFINE s == Targets(e, k, y, d)
             t == Targets(f, k, y, d)
             n == MonthsEarned(e.anchor, y, d)
             h == HireMonth(e.anchor, y)
             start == e.accrued[k][y]
  <2>1. n \in Nat /\ DOMAIN s = 1..n /\ \A i \in 1..n : s[i] \in Int
    BY TargetsExtend, YearsAreNumbers
  <2>2. DOMAIN t = 1..n
    BY <1>1 DEF Targets
  <2>3. ASSUME NEW i \in 1..n PROVE t[i] = s[i] + kept
    <3> DEFINE w == Earned(k, e.rows, e.anchor, y, h, i)
    <3>1. s[i] = PieceTarget(k, e.rows, e.anchor, y, 0, h, i, e.manual[k][y])
      BY <1>3 DEF Targets
    <3>2. t[i] = PieceTarget(k, e.rows, e.anchor, y, kept, h, i, e.manual[k][y])
      BY <1>1 DEF Targets
    <3>3. ~(i <= 0) /\ i \in Nat
      BY <2>1
    <3>4. h \in 1..(MonthsPerYear + 1) /\ e.manual[k][y] \in Int
      BY DraftsAre, HireMonthIs
    <3>5. w \in Nat
      <4> HIDE DEF h, n
      <4> QED BY <3>3, <3>4, DraftsAre, EarnedIs
    <3> HIDE DEF s, t, h, n
    <3>6. s[i] = w + 0 + e.manual[k][y] /\ t[i] = w + kept + e.manual[k][y]
      BY <3>1, <3>2, <3>3, PieceIs
    <3> HIDE DEF w
    <3> QED BY <3>4, <3>5, <3>6
  <2>4. start \in Int /\ f.accrued[k][y] = start + kept /\ (f.closed[k][y] <=> e.closed[k][y])
    BY <1>1, <1>2, DraftsAre
  <2> HIDE DEF s, t, n, start
  <2>5. Raising(t, start + kept) = Raising(s, start)
    <3>1. kept \in Int /\ start \in Int /\ n \in Nat /\ DOMAIN s = 1..n
      BY <2>1, <2>4
    <3>2. \A i \in 1..n : s[i] \in Int /\ t[i] = s[i] + kept
      BY <2>1, <2>3
    <3>3. ASSUME NEW i \in 1..n, NEW j \in 0..(i - 1)
          PROVE  t[i] > (IF j = 0 THEN start + kept ELSE t[j]) <=> s[i] > (IF j = 0 THEN start ELSE s[j])
      <4>1. CASE j = 0
        BY <3>1, <3>2, <4>1
      <4>2. CASE j # 0
        <5>1. j \in 1..n
          BY <3>1, <4>2
        <5>2. s[j] \in Int /\ t[j] = s[j] + kept
          BY <3>2, <5>1
        <5> QED BY <3>1, <3>2, <4>2, <5>2
      <4> QED BY <4>1, <4>2
    <3> QED BY <2>2, <3>1, <3>3 DEF Raising
  <2>6. Owed(f, k, y, t) = Owed(e, k, y, s)
    BY <2>4, <2>5 DEF Owed, start
  <2>7. OwedDates(f, k, y, t) = OwedDates(e, k, y, s)
    BY <1>1, <2>6 DEF OwedDates
  <2> QED BY <2>7 DEF s, t
<1>7. ASSUME NEW z \in Years, z # y, z # y - 1
      PROVE  OwedDates(f, k, z, Targets(f, k, z, d)) = OwedDates(e, k, z, Targets(e, k, z, d))
  <2>1. /\ f.carried[k][z] = e.carried[k][z] /\ f.accrued[k][z] = e.accrued[k][z]
        /\ f.closed[k][z] <=> e.closed[k][z]
    BY <1>1, <1>7
  <2> QED BY <1>1, <2>1, SameOwed
<1>8. ASSUME NEW z \in Years, Epoch(f) <= z, z <= YearOf(d)
      PROVE  /\ f.made[k][z]
             /\ z > Epoch(f) /\ ~f.finalized[k][z] => FirstOfYear(z) \in M
             /\ OwedDates(f, k, z, Targets(f, k, z, d)) \subseteq M
  <2>1. /\ e.made[k][z]
        /\ z > Epoch(e) /\ ~e.finalized[k][z] => FirstOfYear(z) \in M
        /\ OwedDates(e, k, z, Targets(e, k, z, d)) \subseteq M
    BY <1>4, <1>8 DEF Expects
  <2>2. OwedDates(f, k, z, Targets(f, k, z, d)) \subseteq M
    BY <1>5, <1>6, <1>7, <2>1
  <2> QED BY <1>1, <1>4, <2>1, <2>2
<1>9. Expects(f, k, d, M)
  BY <1>8 DEF Expects
<1> QED BY <1>9 DEF f

\* Nothing is filed on date b while the carryover into its year is to be settled.
Shelved(e, k, b) ==
  /\ Filed(e, k, b, b)
  /\ ~e.finalized[k][YearOf(b)] => Filed(e, k, b - 1, b - 1)

LEMMA SameFiled ==
  ASSUME NEW e, NEW f, f.ledger = e.ledger, NEW k, NEW b, NEW c, Filed(e, k, b, c)
  PROVE  Filed(f, k, b, c)
BY DEF Filed

\* The years that have begun began by now.
LEMMA YearsBegun ==
  ASSUME NEW y \in Years, NEW b \in Dates, y <= YearOf(b)
  PROVE  FirstOfYear(y) <= b /\ FirstOfYear(y) \in Int
<1>1. y \in Int /\ YearOf(b) \in Int /\ b \in Int
  BY YearsAreNumbers, YearOfAny
<1>2. y < YearOf(b) \/ (y = YearOf(b) /\ 1 <= MonthOf(b))
  BY <1>1, YearOfAny, YearsAreLong
<1>3. 1 \in 1..MonthsPerYear
  BY YearsAreLong
<1>4. FirstOfYear(y) \in Dates
  BY FirstOfYearIs
<1> QED BY <1>2, <1>3, <1>4, FirstOfMonthBy, YearsAreNumbers DEF FirstOfYear

\* Settling a year no one carries into posts nothing.
LEMMA SettledTriviallyExpects ==
  ASSUME NEW e \in Drafts, NEW k \in LeaveTypes, NEW y \in Years, e.carried[k][y] = 0,
         NEW d, NEW M, Expects(e, k, d, M), NEW b \in Dates
  PROVE  LET f == SettledTrivially(e, k, y)
         IN  /\ Aside(e, f, k) /\ Expects(f, k, d, M) /\ f.ledger = e.ledger
             /\ Shelved(e, k, b) => Shelved(f, k, b)
<1> DEFINE f == SettledTrivially(e, k, y)
<1>1. /\ f \in Drafts /\ f.made = e.made /\ f.accrued = e.accrued /\ f.closed = e.closed
      /\ f.anchor = e.anchor /\ f.rows = e.rows /\ f.manual = e.manual
      /\ \A j \in LeaveTypes, z \in Years :
           /\ f.carried[j][z] = e.carried[j][z]
           /\ f.finalized[j][z] <=> e.finalized[j][z] \/ (j = k /\ z = y)
  BY SettledTriviallyIs
<1>2. f.ledger = e.ledger /\ f.requests = e.requests
  BY DEF SettledTrivially, Drafts
<1> HIDE DEF f
<1>3. Aside(e, f, k)
  BY <1>1, <1>2, SameFiled DEF Aside, OthersFiled
<1>4. Epoch(f) = Epoch(e)
  BY <1>1 DEF Epoch
<1>5. ASSUME NEW z \in Years
      PROVE  OwedDates(f, k, z, Targets(f, k, z, d)) = OwedDates(e, k, z, Targets(e, k, z, d))
  <2>1. /\ f.anchor = e.anchor /\ f.rows = e.rows /\ f.manual = e.manual
        /\ f.carried[k][z] = e.carried[k][z] /\ f.accrued[k][z] = e.accrued[k][z]
        /\ f.closed[k][z] <=> e.closed[k][z]
    BY <1>1
  <2> QED BY <2>1, SameOwed
<1>6. Expects(f, k, d, M)
  BY <1>1, <1>4, <1>5 DEF Expects
<1>7. Shelved(e, k, b) => Shelved(f, k, b)
  BY <1>1, <1>2, SameFiled, YearOfDate DEF Shelved
<1> QED BY <1>2, <1>3, <1>6, <1>7 DEF f

\* Settling the carryover into the year that begins on date b posts only then.
LEMMA SettledExpects ==
  ASSUME NEW e \in Drafts, NEW k \in LeaveTypes, NEW b \in Dates, NEW d \in Dates, b <= d,
         NEW settings \in CarryoverSettings, NEW since, Sound(e, d, since),
         NEW M, \A x \in M : x \in Int /\ b <= x, Expects(e, k, d, M),
         NEW y \in Years, y <= YearOf(b), ~e.finalized[k][y],
         LET f == Settled(e, k, y, b, settings) IN f \in Drafts /\ SettlesOnly(e, f, k, y)
  PROVE  LET f == Settled(e, k, y, b, settings)
         IN  /\ Aside(e, f, k) /\ Expects(f, k, d, M)
             /\ b \notin M => f.ledger = e.ledger
             /\ Shelved(e, k, b) => Shelved(f, k, b)
<1> DEFINE f == Settled(e, k, y, b, settings)
<1>1. f \in Drafts /\ SettlesOnly(e, f, k, y)
  OBVIOUS
<1>2. /\ y \in Int /\ b \in Int /\ d \in Int /\ YearOf(b) \in Int /\ YearOf(d) \in Int
      /\ YearOf(b) <= YearOf(d) /\ Epoch(e) \in Int
  BY YearsAreNumbers, YearOfAny, YearsMonotone, EpochIs
<1>3. CASE Epoch(e) >= y
  <2>1. f = SettledTrivially(e, k, y)
    BY <1>3 DEF Settled
  <2>2. e.carried[k][y] = 0
    BY SoundAt
  <2> HIDE DEF f
  <2>3. /\ Aside(e, f, k) /\ Expects(f, k, d, M) /\ f.ledger = e.ledger
        /\ Shelved(e, k, b) => Shelved(f, k, b)
    BY <2>1, <2>2, SettledTriviallyExpects
  <2> QED BY <2>3 DEF f
<1>4. CASE ~(Epoch(e) >= y)
  <2> DEFINE g == Accrued(e, k, y - 1, b)
             D == OwedDates(e, k, y - 1, Targets(e, k, y - 1, b))
  <2>1. y - 1 \in Years /\ y > Epoch(e) /\ Epoch(e) <= y - 1 /\ y - 1 <= YearOf(d) /\ y <= YearOf(d)
        /\ Epoch(e) <= y
    <3>1. y > Epoch(e) /\ Epoch(e) <= y - 1 /\ Epoch(e) <= y
      BY <1>2, <1>4
    <3>2. y <= YearOf(d) /\ y - 1 <= YearOf(d)
      BY <1>2
    <3>3. y - 1 \in Years
      BY <1>4, EpochIs, YearsAreNumbers
    <3> QED BY <3>1, <3>2, <3>3
  <2>2. FirstOfYear(y) \in M /\ D \subseteq M
    <3>1. FirstOfYear(y) \in M /\ OwedDates(e, k, y - 1, Targets(e, k, y - 1, d)) \subseteq M
      BY <2>1 DEF Expects
    <3>2. D \subseteq OwedDates(e, k, y - 1, Targets(e, k, y - 1, d))
      BY <2>1, OwedLater
    <3> QED BY <3>1, <3>2
  <2>3. b = FirstOfYear(y) /\ YearOf(b) = y
    <3>1. FirstOfYear(y) <= b /\ FirstOfYear(y) \in Int
      BY YearsBegun
    <3>2. b <= FirstOfYear(y)
      BY <2>2
    <3>3. b = FirstOfYear(y)
      BY <1>2, <3>1, <3>2
    <3> QED BY <3>3, FirstOfYearIs
  <2>4. D = {}
    <3> SUFFICES ASSUME NEW x \in D PROVE FALSE
      OBVIOUS
    <3>1. x \in Dates /\ YearOf(x) = y - 1
      BY <2>1, OwedDatesInYear
    <3>2. x < b /\ x \in Int
      <4>1. YearOf(x) < YearOf(b)
        BY <1>2, <2>3, <3>1
      <4> QED BY <3>1, <4>1, DatesOfYears
    <3>3. b <= x
      BY <2>2
    <3> QED BY <1>2, <3>2, <3>3
  <2>5. g = Ensured(e, k, y - 1)
    BY <2>1, <2>4, AccruedFiles
  <2> HIDE DEF D
  <2>6. g \in Drafts /\ SameFigures(e, g) /\ Aside(e, g, k) /\ g.ledger = e.ledger
    BY <2>1, <2>5, EnsuredAside
  <2>7. f = RolledLeftover(g, k, y, settings)
    BY <1>4 DEF Settled, Closed
  <2> HIDE DEF g, f
  <2>8. Expects(g, k, d, M) /\ Sound(g, d, since) /\ ~g.finalized[k][y]
    <3>1. \A z \in Years : e.made[k][z] => g.made[k][z]
      BY <2>6 DEF Aside
    <3>2. Expects(g, k, d, M)
      BY <2>6, <3>1, ExpectsSame
    <3>3. Sound(g, d, since)
      BY <2>6, FiguresDecide DEF Advance
    <3> QED BY <2>6, <3>2, <3>3 DEF SameFigures
  <2>9. PICK leftover \in Nat, kept \in Nat :
          kept <= leftover /\ f = Rolled(g, k, y, leftover, kept)
    BY <2>1, <2>6, <2>7, RolledLeftoverIs
  <2>10. Expects(f, k, d, M)
    BY <2>1, <2>6, <2>8, <2>9, RolledExpects
  <2>11. Aside(g, f, k) /\ (Filed(g, k, b - 1, b - 1) => Filed(f, k, b, b))
    BY <2>1, <2>3, <2>6, <2>9, RolledFiles
  <2>12. Aside(e, f, k)
    BY <2>6, <2>11, AsideInTurn
  <2>13. Shelved(e, k, b) => Shelved(f, k, b)
    <3> SUFFICES ASSUME Shelved(e, k, b) PROVE Shelved(f, k, b)
      OBVIOUS
    <3>1. Filed(e, k, b - 1, b - 1)
      BY <2>3 DEF Shelved
    <3>2. Filed(g, k, b - 1, b - 1)
      BY <2>6, <3>1, SameFiled
    <3>3. f.finalized[k][YearOf(b)]
      BY <1>1, <2>3 DEF SettlesOnly, f
    <3> QED BY <2>11, <3>2, <3>3 DEF Shelved
  <2>14. b \in M
    BY <2>2, <2>3
  <2> QED BY <2>10, <2>12, <2>13, <2>14 DEF f
<1> QED BY <1>3, <1>4

LEMMA AsideItself ==
  ASSUME NEW e, NEW k
  PROVE  Aside(e, e, k)
BY DEF Aside, OthersFiled

\* Settling every year that awaits it posts only at the year's beginning.
LEMMA SettledAllExpects ==
  ASSUME NEW e \in Drafts, NEW k \in LeaveTypes, NEW b \in Dates, NEW d \in Dates, b <= d,
         NEW settings \in CarryoverSettings, NEW since, Sound(e, d, since), e.anchor # NoDate,
         \A y \in Pending(e, k, b) : y > Epoch(e) => y - 1 \in Years /\ e.made[k][y - 1],
         NEW M, \A x \in M : x \in Int /\ b <= x, Expects(e, k, d, M)
  PROVE  LET f == SettledAll(e, k, b, settings)
         IN  /\ Advance(e, f, d, since) /\ Only(e, f, k) /\ Aside(e, f, k) /\ Expects(f, k, d, M)
             /\ b \notin M => f.ledger = e.ledger
             /\ Shelved(e, k, b) => Shelved(f, k, b)
             /\ \A y \in Pending(e, k, b) : f.finalized[k][y]
             /\ \A y \in Years : e.finalized[k][y] => f.finalized[k][y]
<1>1. PICK h : \E n \in Nat : Settling(h, n, e, k, b, d, since, settings)
  BY SettlingInOrder
<1>2. PICK n \in Nat : Settling(h, n, e, k, b, d, since, settings)
  BY <1>1
<1> DEFINE E == {v \in Drafts : /\ Aside(e, v, k) /\ Expects(v, k, d, M)
                                /\ b \notin M => v.ledger = e.ledger
                                /\ Shelved(e, k, b) => Shelved(v, k, b)}
<1>3. h[0] \in E
  BY <1>2, AsideItself DEF Settling
<1>4. ASSUME NEW i \in 1..n, h[i - 1] \in E PROVE h[i] \in E
  <2> DEFINE v == h[i - 1]
             w == h[i]
  <2>1. i - 1 \in 0..n /\ i \in 0..n
    OBVIOUS
  <2>2. Advance(e, v, d, since) /\ Advance(e, w, d, since)
    BY <1>2, <2>1 DEF Settling
  <2>3. PICK y \in Pending(e, k, b) : /\ ~v.finalized[k][y]
                                      /\ w = Settled(v, k, y, b, settings)
                                      /\ SettlesOnly(v, w, k, y)
    BY <1>2 DEF Settling
  <2> HIDE DEF v, w
  <2>4. v \in E
    BY <1>4 DEF v
  <2>5. /\ v \in Drafts /\ Aside(e, v, k) /\ Expects(v, k, d, M)
        /\ b \notin M => v.ledger = e.ledger
        /\ Shelved(e, k, b) => Shelved(v, k, b)
        /\ w \in Drafts /\ Sound(v, d, since)
    BY <2>2, <2>4 DEF Advance
  <2>6. y \in Years /\ y <= YearOf(b)
    BY DEF Pending
  <2>7. /\ Aside(v, w, k) /\ Expects(w, k, d, M)
        /\ b \notin M => w.ledger = v.ledger
        /\ Shelved(v, k, b) => Shelved(w, k, b)
    BY <2>3, <2>5, <2>6, SettledExpects
  <2>8. Aside(e, w, k)
    BY <2>5, <2>7, AsideInTurn
  <2>9. w \in E
    BY <2>5, <2>7, <2>8
  <2> QED BY <2>9 DEF w
<1>5. h[n] \in E
  <2>1. n \in 0..n
    OBVIOUS
  <2> HIDE DEF E
  <2>2. \A i \in 0..n : h[i] \in E
    BY <1>3, <1>4, StagesKeep
  <2> QED BY <2>1, <2>2
<1>6. /\ h[n] = SettledAll(e, k, b, settings)
      /\ Advance(e, h[n], d, since) /\ Only(e, h[n], k)
      /\ \A y \in Years : h[n].finalized[k][y] <=> e.finalized[k][y] \/ y \in Pending(e, k, b)
  <2>1. n \in 0..n
    OBVIOUS
  <2> QED BY <1>2, <2>1 DEF Settling
<1>7. \A y \in Pending(e, k, b) : y \in Years
  BY DEF Pending
<1> QED BY <1>5, <1>6, <1>7

LEMMA MaterializedAside ==
  ASSUME NEW e \in Drafts, NEW k \in LeaveTypes, NEW b
  PROVE  LET g == Materialized(e, k, b) IN Aside(e, g, k) /\ g.ledger = e.ledger
<1> DEFINE missing == {y \in Years : /\ y >= Epoch(e)
                                     /\ \E p \in Pending(e, k, b) :
                                          y < p /\ \A z \in y..(p - 1) : ~e.made[k][z]}
           made == [e.made EXCEPT ![k] = [y \in Years |-> @[y] \/ y \in missing]]
           g == Materialized(e, k, b)
<1>1. e.made \in PerYear(BOOLEAN)
  BY DEF Drafts
<1>2. g = [e EXCEPT !.made = made]
  BY DEF Materialized, Drafts
<1>3. /\ \A y \in Years : e.made[k][y] => made[k][y]
      /\ \A j \in LeaveTypes \ {k} : made[j] = e.made[j]
  <2> HIDE DEF missing
  <2> QED BY <1>1 DEF PerYear
<1> HIDE DEF made, g
<1>4. g.made = made /\ g.ledger = e.ledger /\ g.requests = e.requests
  BY <1>2 DEF Drafts
<1>5. OthersFiled(e, g, k)
  BY <1>4, SameFiled DEF OthersFiled
<1> QED BY <1>3, <1>4, <1>5 DEF Aside, g

\* What falls due of a type on a date it is expected on is filed in its turn, and
\* nothing on any other date.
LEMMA AccruedDueExpects ==
  ASSUME NEW e \in Drafts, NEW k \in LeaveTypes, NEW b \in Dates, NEW d \in Dates, b <= d,
         Created <= YearOf(b),
         NEW settings \in CarryoverSettings, NEW since, Sound(e, d, since), e.anchor # NoDate,
         NEW M, \A x \in M : x \in Int /\ b <= x, Expects(e, k, d, M)
  PROVE  LET f == AccruedDue(e, k, YearOf(b), b, settings)
         IN  /\ Advance(e, f, d, since) /\ Only(e, f, k) /\ Aside(e, f, k)
             /\ Expects(f, k, d, {x \in M : x > b})
             /\ b \notin M => f.ledger = e.ledger
             /\ Filed(e, k, b - 1, b - 1) => Filed(f, k, b, b)
<1> DEFINE g == Materialized(e, k, b)
           s == SettledAll(g, k, b, settings)
           f == Accrued(s, k, YearOf(b), b)
<1>1. YearOf(b) \in Int /\ YearOf(d) \in Int /\ b \in Int /\ YearOf(b) <= YearOf(d)
  BY YearsAreNumbers, YearOfAny, YearsMonotone
<1>2. AccruedDue(e, k, YearOf(b), b, settings) = f
  <2>1. ~(YearOf(b) > YearOf(b))
    BY <1>1
  <2> QED BY <2>1 DEF AccruedDue, Finalized
<1>3. /\ g \in Drafts /\ SameFigures(e, g) /\ Aside(e, g, k) /\ g.ledger = e.ledger
      /\ \A y \in Pending(g, k, b) : y > Epoch(g) => y - 1 \in Years /\ g.made[k][y - 1]
  BY MaterializedIs, MaterializedAside
<1> HIDE DEF g
<1>4. /\ Advance(e, g, d, since) /\ Only(e, g, k) /\ Sound(g, d, since) /\ g.anchor # NoDate
      /\ Expects(g, k, d, M) /\ g.finalized = e.finalized
  <2>1. Advance(e, g, d, since) /\ Only(e, g, k)
    BY <1>3, FiguresDecide
  <2>2. \A y \in Years : e.made[k][y] => g.made[k][y]
    BY <1>3 DEF Aside
  <2>3. Expects(g, k, d, M)
    BY <1>3, <2>2, ExpectsSame
  <2> QED BY <1>3, <2>1, <2>3 DEF Advance, SameFigures
<1>5. /\ Advance(g, s, d, since) /\ Only(g, s, k) /\ Aside(g, s, k) /\ Expects(s, k, d, M)
      /\ b \notin M => s.ledger = g.ledger
      /\ Shelved(g, k, b) => Shelved(s, k, b)
      /\ \A y \in Pending(g, k, b) : s.finalized[k][y]
      /\ \A y \in Years : g.finalized[k][y] => s.finalized[k][y]
  BY <1>3, <1>4, SettledAllExpects
<1> HIDE DEF s
<1>6. s \in Drafts /\ Sound(s, d, since)
  BY <1>5 DEF Advance
<1>7. ASSUME NEW y \in Years, Epoch(s) < y, y <= YearOf(b) PROVE s.finalized[k][y]
  <2>1. Epoch(s) = Epoch(g) /\ Epoch(g) \in Int /\ y \in Int
    BY <1>3, <1>5, EpochIs, YearsAreNumbers DEF Advance, Reads, Epoch
  <2>2. Epoch(g) <= y /\ y <= YearOf(d)
    BY <1>1, <1>7, <2>1
  <2>3. g.made[k][y]
    BY <1>4, <2>2 DEF Expects
  <2> QED BY <1>5, <1>7, <2>3 DEF Pending
<1>8. /\ Advance(s, f, d, since) /\ Only(s, f, k) /\ Aside(s, f, k)
      /\ Expects(f, k, d, {x \in M : x > b})
      /\ b \notin M => f.ledger = s.ledger
      /\ Filed(s, k, b, b) => Filed(f, k, b, b)
  BY <1>5, <1>6, <1>7, AccruedExpects
<1> HIDE DEF f
<1>9. Advance(e, f, d, since) /\ Aside(e, f, k)
  <2>1. Advance(e, s, d, since) /\ Aside(e, s, k)
    BY <1>3, <1>4, <1>5, AdvanceInTurn, AsideInTurn
  <2> QED BY <1>8, <2>1, AdvanceInTurn, AsideInTurn
<1>10. Only(e, f, k)
  BY <1>4, <1>5, <1>8 DEF Only
<1>11. Filed(e, k, b - 1, b - 1) => Filed(f, k, b, b)
  <2> SUFFICES ASSUME Filed(e, k, b - 1, b - 1) PROVE Filed(f, k, b, b)
    OBVIOUS
  <2>1. Filed(g, k, b - 1, b - 1)
    BY <1>3, SameFiled
  <2>2. Filed(g, k, b, b)
    <3>1. b - 1 \in Int /\ b - 1 <= b
      BY <1>1
    <3> QED BY <1>1, <1>3, <2>1, <3>1, FiledLater
  <2>3. Shelved(s, k, b)
    BY <1>5, <2>1, <2>2 DEF Shelved
  <2> QED BY <1>8, <2>3 DEF Shelved
<1> QED BY <1>2, <1>3, <1>5, <1>8, <1>9, <1>10, <1>11

--------------------------------------------------------------------------------
(* The walk through the boundaries *)

\* A step for one type leaves what is expected of the other as it is.
LEMMA ExpectsOther ==
  ASSUME NEW e, NEW f, NEW k, NEW j \in LeaveTypes \ {k}, NEW d, NEW M,
         Expects(e, j, d, M), Reads(e, f), Only(e, f, k), Aside(e, f, k)
  PROVE  Expects(f, j, d, M)
<1>1. f.made[j] = e.made[j]
  BY DEF Aside
<1>2. f.anchor = e.anchor /\ f.rows = e.rows /\ f.manual = e.manual /\ Epoch(f) = Epoch(e)
  BY DEF Reads, Epoch
<1>3. ASSUME NEW y \in Years
      PROVE  /\ OwedDates(f, j, y, Targets(f, j, y, d)) = OwedDates(e, j, y, Targets(e, j, y, d))
             /\ f.finalized[j][y] <=> e.finalized[j][y]
  <2>1. /\ f.carried[j][y] = e.carried[j][y] /\ f.accrued[j][y] = e.accrued[j][y]
        /\ f.closed[j][y] <=> e.closed[j][y]
        /\ f.finalized[j][y] <=> e.finalized[j][y]
    BY DEF Only
  <2> QED BY <1>2, <2>1, SameOwed
<1> QED BY <1>1, <1>2, <1>3 DEF Expects

\* Of both types.
Awaits(e, d, M) == \A k \in LeaveTypes : Expects(e, k, d, M)

AllFiled(e, b, c) == \A k \in LeaveTypes : Filed(e, k, b, c)

LEMMA AllDueExpects ==
  ASSUME NEW e \in Drafts, NEW b \in Dates, NEW d \in Dates, b <= d, Created <= YearOf(b),
         NEW settings \in CarryoverSettings, NEW since, Sound(e, d, since), e.anchor # NoDate,
         NEW M, \A x \in M : x \in Int /\ b <= x, Awaits(e, d, M)
  PROVE  LET f == AllDue(e, b, settings)
         IN  /\ Advance(e, f, d, since) /\ Awaits(f, d, {x \in M : x > b})
             /\ f.requests = e.requests
             /\ b \notin M => f.ledger = e.ledger
             /\ AllFiled(e, b - 1, b - 1) => AllFiled(f, b, b)
<1> DEFINE g == AccruedDue(e, "vacation", YearOf(b), b, settings)
           f == AccruedDue(g, "sick", YearOf(b), b, settings)
           N == {x \in M : x > b}
<1>1. AllDue(e, b, settings) = f
  BY DEF AllDue
<1>2. /\ "vacation" \in LeaveTypes \ {"sick"} /\ "sick" \in LeaveTypes \ {"vacation"}
      /\ \A k \in LeaveTypes : k = "vacation" \/ k = "sick"
      /\ b \in Int /\ b - 1 \in Int
  BY YearsAreNumbers DEF LeaveTypes
<1>3. Expects(e, "vacation", d, M) /\ Expects(e, "sick", d, M)
  BY <1>2 DEF Awaits
<1>4. /\ Advance(e, g, d, since) /\ Only(e, g, "vacation") /\ Aside(e, g, "vacation")
      /\ Expects(g, "vacation", d, N)
      /\ b \notin M => g.ledger = e.ledger
      /\ Filed(e, "vacation", b - 1, b - 1) => Filed(g, "vacation", b, b)
  <2> HIDE DEF g
  <2>1. "vacation" \in LeaveTypes
    BY <1>2
  <2> QED BY <1>3, <2>1, AccruedDueExpects DEF g
<1> HIDE DEF g
<1>5. Expects(g, "sick", d, M)
  BY <1>2, <1>3, <1>4, ExpectsOther DEF Advance
<1>6. g \in Drafts /\ Sound(g, d, since) /\ g.anchor # NoDate
  BY <1>4 DEF Advance, Reads
<1>7. /\ Advance(g, f, d, since) /\ Only(g, f, "sick") /\ Aside(g, f, "sick")
      /\ Expects(f, "sick", d, N)
      /\ b \notin M => f.ledger = g.ledger
      /\ Filed(g, "sick", b - 1, b - 1) => Filed(f, "sick", b, b)
  <2>1. "sick" \in LeaveTypes
    BY <1>2
  <2> QED BY <1>5, <1>6, <2>1, AccruedDueExpects
<1> HIDE DEF f
<1>8. Expects(f, "vacation", d, N)
  <2> HIDE DEF N
  <2> QED BY <1>2, <1>4, <1>7, ExpectsOther DEF Advance
<1>9. Advance(e, f, d, since)
  BY <1>4, <1>7, AdvanceInTurn
<1>10. Awaits(f, d, N)
  BY <1>2, <1>7, <1>8 DEF Awaits
<1>11. f.requests = e.requests
  BY <1>4, <1>7 DEF Aside
<1>12. AllFiled(e, b - 1, b - 1) => AllFiled(f, b, b)
  <2> SUFFICES ASSUME AllFiled(e, b - 1, b - 1) PROVE AllFiled(f, b, b)
    OBVIOUS
  <2>1. Filed(e, "vacation", b - 1, b - 1) /\ Filed(e, "sick", b - 1, b - 1)
    BY <1>2 DEF AllFiled
  <2>2. Filed(g, "vacation", b, b) /\ Filed(g, "sick", b - 1, b - 1)
    BY <1>2, <1>4, <2>1 DEF Aside, OthersFiled
  <2>3. Filed(f, "vacation", b, b) /\ Filed(f, "sick", b, b)
    BY <1>2, <1>7, <2>2 DEF Aside, OthersFiled
  <2> QED BY <1>2, <2>3 DEF AllFiled
<1> QED BY <1>1, <1>4, <1>7, <1>9, <1>10, <1>11, <1>12

\* The books between two boundaries: all that is filed is dated c, the boundary
\* last visited, or earlier; no day before it is left to be spent; and what
\* falls due by date d does so on the dates of M.
Underway(e, d, M, c) == Awaits(e, d, M) /\ AllFiled(e, c, c) /\ Spendable(e, c)

LEMMA ReconciledAwaits ==
  ASSUME NEW e \in Drafts, NEW at \in Int, NEW c \in Int, NEW b \in Int, c <= b, at - 1 <= b,
         NEW d, NEW M, Underway(e, d, M, c)
  PROVE  LET f == Reconciled(e, at)
         IN  f \in Drafts /\ SameFigures(e, f) /\ Awaits(f, d, M) /\ AllFiled(f, b, c)
             /\ Spendable(f, at)
<1> DEFINE f == Reconciled(e, at)
<1>1. Spendable(e, c) /\ (\A k \in LeaveTypes : Filed(e, k, c, c)) /\ Awaits(e, d, M)
  BY DEF Underway, AllFiled
<1>2. /\ f \in Drafts /\ SameButSpent(e, f) /\ Spendable(f, at)
      /\ \A k \in LeaveTypes : Filed(f, k, b, c)
  BY <1>1, ReconciledFiles
<1> HIDE DEF f
<1>3. SameFigures(e, f) /\ f.made = e.made
  BY <1>2 DEF SameButSpent
<1>4. Awaits(f, d, M)
  BY <1>1, <1>3, ExpectsSame DEF Awaits
<1> QED BY <1>2, <1>3, <1>4 DEF f, AllFiled

LEMMA VisitedUnderway ==
  ASSUME NEW e \in Drafts, NEW b \in Dates, NEW d \in Dates, b <= d, Created <= YearOf(b),
         NEW settings \in CarryoverSettings, NEW since, Sound(e, d, since), e.anchor # NoDate,
         NEW M, \A x \in M : x \in Int /\ b <= x, NEW c \in Int, c < b, Underway(e, d, M, c)
  PROVE  Underway(Visited(e, b, settings), d, {x \in M : x > b}, b)
<1> DEFINE g == Reconciled(e, b)
           f == AllDue(g, b, settings)
<1>1. b \in Int /\ b - 1 \in Int /\ c <= b - 1 /\ b - 1 <= b - 1
  BY YearsAreNumbers
<1>2. g \in Drafts /\ SameFigures(e, g) /\ Awaits(g, d, M) /\ AllFiled(g, b - 1, c)
      /\ Spendable(g, b)
  BY <1>1, ReconciledAwaits
<1> HIDE DEF g
<1>3. AllFiled(g, b - 1, b - 1)
  BY <1>1, <1>2, FiledLater DEF AllFiled
<1>4. Sound(g, d, since) /\ g.anchor # NoDate
  BY <1>2, FiguresDecide DEF Advance, SameFigures
<1>5. /\ Awaits(f, d, {x \in M : x > b}) /\ f.requests = g.requests
      /\ AllFiled(g, b - 1, b - 1) => AllFiled(f, b, b)
  BY <1>2, <1>4, AllDueExpects
<1>6. Visited(e, b, settings) = f
  BY DEF Visited, g
<1> HIDE DEF f
<1>7. Spendable(f, b)
  BY <1>2, <1>5 DEF Spendable
<1> QED BY <1>3, <1>5, <1>6, <1>7 DEF Underway

\* The books h[i] once the first i boundaries of s have been visited.
VisitingStages(h, E, e, settings, s) ==
  /\ h \in [0..Len(s) -> E]
  /\ h[0] = e
  /\ \A i \in 1..Len(s) : h[i] = Visited(h[i - 1], s[i], settings)
  /\ h[Len(s)] = VisitedInTurn(e, settings, s)

LEMMA VisitingByStages ==
  ASSUME NEW E, NEW D, NEW settings, NEW e \in E, NEW s \in Seq(D),
         \A v \in E, at \in D : Visited(v, at, settings) \in E
  PROVE  \E h : VisitingStages(h, E, e, settings, s)
<1> DEFINE n == Len(s)
           G == [i \in 1..n |-> [v \in E |-> Visited(v, s[i], settings)]]
           iter == CHOOSE iter : iter = [t \in SUBSET (1..n) |->
                     IF t = {} THEN e ELSE Visited(iter[t \ {Max(t)}], s[Max(t)], settings)]
           h == [i \in 0..n |-> iter[1..i]]
<1>1. n \in Nat /\ DOMAIN s = 1..n /\ \A i \in 1..n : s[i] \in D
  OBVIOUS
<1>2. VisitedInTurn(e, settings, s) = iter[1..n]
  BY <1>1 DEF VisitedInTurn, FoldLeft, MapThenFoldSet
<1>3. \A t \in SUBSET (1..n) : t # {} => Max(t) \in 1..n /\ t \ {Max(t)} \in SUBSET (1..n)
  BY <1>1, PartsAre
<1>4. G \in [1..n -> [E -> E]]
  BY <1>1
<1>5. PICK f : FoldOf(f, E, e, n, G)
  <2> HIDE DEF G, n
  <2> QED BY <1>1, <1>4, FoldIsDefined
<1>6. f = [t \in SUBSET (1..n) |->
             IF t = {} THEN e ELSE Visited(f[t \ {Max(t)}], s[Max(t)], settings)]
  BY <1>3, <1>5 DEF FoldOf
<1>7. iter = [t \in SUBSET (1..n) |->
                IF t = {} THEN e ELSE Visited(iter[t \ {Max(t)}], s[Max(t)], settings)]
  BY <1>6
<1> HIDE DEF iter, G
<1>8. iter[1..0] = e
  <2>1. 1..0 = {} /\ {} \in SUBSET (1..n)
    OBVIOUS
  <2> QED BY <1>7, <2>1
<1>9. ASSUME NEW i \in 1..n PROVE iter[1..i] = Visited(iter[1..(i - 1)], s[i], settings)
  <2> HIDE DEF n
  <2>1. /\ Max(1..i) = i /\ (1..i) \ {i} = 1..(i - 1)
        /\ 1..i \in SUBSET (1..n) /\ 1..i # {}
    BY <1>1, Prefix
  <2>2. iter[1..i] = IF 1..i = {} THEN e
                     ELSE Visited(iter[(1..i) \ {Max(1..i)}], s[Max(1..i)], settings)
    BY <1>7, <2>1
  <2> QED BY <2>1, <2>2
<1>10. /\ h[0] = e /\ h[n] = iter[1..n]
       /\ \A i \in 1..n : h[i] = Visited(h[i - 1], s[i], settings)
  <2>1. \A i \in 1..n : i - 1 \in 0..n /\ i \in 0..n
    BY <1>1
  <2>2. 0 \in 0..n /\ n \in 0..n
    BY <1>1
  <2> HIDE DEF n
  <2> QED BY <1>8, <1>9, <2>1, <2>2
<1>11. \A i \in 0..n : h[i] \in E
  <2> HIDE DEF h, n
  <2>1. ASSUME NEW i \in 1..n, h[i - 1] \in E PROVE h[i] \in E
    BY <1>1, <1>10, <2>1
  <2> QED BY <1>1, <1>10, <2>1, StagesKeep
<1>12. h \in [0..n -> E]
  BY <1>11
<1>13. VisitingStages(h, E, e, settings, s)
  <2> HIDE DEF h
  <2> QED BY <1>2, <1>10, <1>12 DEF VisitingStages
<1> HIDE DEF h
<1> QED BY <1>13

\* Every boundary is visited in turn, so that at the end nothing is to come.
LEMMA WalkedUnderway ==
  ASSUME NEW e \in Drafts, NEW d \in Dates, NEW settings \in CarryoverSettings,
         NEW since, Sound(e, d, since), e.anchor # NoDate,
         NEW moves, \A at \in moves : at \in Dates /\ at <= d /\ Created <= YearOf(at),
         Underway(e, d, moves, -1)
  PROVE  \E c \in Int : c <= d /\ Underway(Walked(e, moves, settings), d, {}, c)
<1> DEFINE E == {v \in Drafts : Advance(e, v, d, since)}
           s == InOrder(moves)
           n == Len(s)
<1>1. /\ s \in Seq(moves) /\ moves \subseteq Dates
      /\ \A x \in moves : \E i \in 1..n : s[i] = x
      /\ \A i, j \in 1..n : i < j => s[i] < s[j]
  <2>1. moves \subseteq Dates /\ IsFiniteSet(Dates) /\ \A x \in Dates : x \in Int
    BY DatesAreDays, YearsAreNumbers
  <2>2. IsFiniteSet(moves) /\ moves \subseteq Int
    BY <2>1, FS_Subset
  <2> QED BY <2>1, <2>2, InOrderIs
<1>2. e \in E
  <2>1. SameFigures(e, e)
    BY DEF SameFigures
  <2> QED BY <2>1, FiguresDecide
<1>3. ASSUME NEW v \in E, NEW at \in moves PROVE Visited(v, at, settings) \in E
  <2>1. v \in Drafts /\ Advance(e, v, d, since) /\ Sound(v, d, since)
    BY DEF Advance
  <2>2. Advance(v, Visited(v, at, settings), d, since)
    BY <2>1, VisitedIs
  <2>3. Advance(e, Visited(v, at, settings), d, since)
    BY <2>1, <2>2, AdvanceInTurn
  <2> QED BY <2>2, <2>3 DEF Advance
<1>4. Walked(e, moves, settings) = VisitedInTurn(e, settings, s)
  BY DEF Walked, VisitedInTurn
<1> HIDE DEF s, E
<1>5. PICK h : VisitingStages(h, E, e, settings, s)
  BY <1>1, <1>2, <1>3, VisitingByStages
<1>6. /\ n \in Nat /\ h[0] = e /\ h[n] = Walked(e, moves, settings)
      /\ \A i \in 0..n : h[i] \in E
      /\ \A i \in 1..n : /\ s[i] \in moves /\ s[i] \in Dates /\ s[i] \in Int
                         /\ h[i] = Visited(h[i - 1], s[i], settings)
  <2>1. \A i \in 1..n : s[i] \in moves /\ s[i] \in Dates /\ s[i] \in Int
    BY <1>1, YearsAreNumbers
  <2>2. n \in Nat
    BY <1>1
  <2> QED BY <1>4, <1>5, <2>1, <2>2 DEF VisitingStages
<1> HIDE DEF n
<1>7. \A x \in moves : x \in Int /\ x > -1
  BY <1>1, DatesAreDays
<1> DEFINE last(i) == IF i = 0 THEN -1 ELSE s[i]
           rest(i) == {x \in moves : x > last(i)}
           S == {i \in Nat : i <= n => Underway(h[i], d, rest(i), last(i))}
<1>8. 0 \in S
  <2>1. last(0) = -1 /\ rest(0) = moves
    BY <1>7
  <2> HIDE DEF last, rest
  <2> QED BY <1>6, <2>1
<1>9. ASSUME NEW m \in Nat, m \in S PROVE m + 1 \in S
  <2> DEFINE i == m + 1
             b == s[i]
             c == last(m)
             v == h[m]
             M == rest(m)
  <2> SUFFICES ASSUME i <= n PROVE Underway(h[i], d, rest(i), last(i))
    <3> HIDE DEF rest, last
    <3> QED OBVIOUS
  <2>1. i \in 1..n /\ i - 1 = m /\ m \in 0..n /\ m <= n /\ i # 0 /\ m < i
    BY <1>6
  <2>2. b \in moves /\ b \in Dates /\ b \in Int /\ b <= d /\ Created <= YearOf(b) /\ b > -1
    BY <1>6, <1>7, <2>1
  <2>3. c \in Int /\ c < b
    <3>1. CASE m = 0
      <4>1. c = -1
        BY <3>1
      <4> HIDE DEF b, c
      <4> QED BY <2>2, <4>1
    <3>2. CASE m # 0
      <4>1. m \in 1..n /\ c = s[m]
        BY <1>6, <2>1, <3>2
      <4>2. s[m] < s[i] /\ s[m] \in Int
        BY <1>1, <1>6, <2>1, <4>1
      <4> QED BY <4>1, <4>2
    <3> QED BY <3>1, <3>2
  <2>4. ASSUME NEW x \in M PROVE x \in Int /\ b <= x
    <3>1. x \in moves /\ x \in Int /\ x > c
      BY <1>7
    <3>2. PICK j \in 1..n : s[j] = x
      BY <1>1, <3>1
    <3>3. CASE j <= m
      <4>1. m \in 1..n /\ c = s[m] /\ s[m] \in Int
        <5>1. m \in 1..n
          BY <1>6, <2>1, <3>3
        <5>2. c = s[m]
          BY <5>1
        <5> QED BY <1>6, <5>1, <5>2
      <4>2. j = m \/ s[j] < s[m]
        BY <1>1, <1>6, <3>3, <4>1
      <4> HIDE DEF c
      <4> QED BY <3>1, <3>2, <4>1, <4>2
    <3>4. CASE ~(j <= m)
      <4>1. j = i \/ i < j
        BY <1>6, <3>4
      <4>2. j = i \/ s[i] < s[j]
        BY <1>1, <2>1, <4>1
      <4> QED BY <2>2, <3>1, <3>2, <4>2
    <3> QED BY <3>3, <3>4
  <2>5. v \in Drafts /\ Sound(v, d, since) /\ v.anchor # NoDate
    <3>1. v \in E
      BY <1>6, <2>1
    <3> HIDE DEF v
    <3> QED BY <3>1 DEF E, Advance, Reads
  <2>6. Underway(v, d, M, c)
    <3> HIDE DEF rest, last
    <3> QED BY <1>9, <2>1
  <2>7. h[i] = Visited(v, b, settings)
    BY <1>6, <2>1
  <2>8. {x \in M : x > b} = rest(i) /\ last(i) = b
    <3>1. last(i) = b
      BY <2>1
    <3>2. \A x \in moves : x > b => x > c
      <4> HIDE DEF b, c
      <4> QED BY <1>7, <2>2, <2>3
    <3> HIDE DEF last
    <3> QED BY <3>1, <3>2 DEF c
  <2> HIDE DEF b, c, v, M, rest, last
  <2>9. Underway(Visited(v, b, settings), d, {x \in M : x > b}, b)
    BY <2>2, <2>3, <2>4, <2>5, <2>6, VisitedUnderway
  <2> QED BY <2>7, <2>8, <2>9
<1>10. Underway(h[n], d, rest(n), last(n))
  <2>1. Nat \subseteq S
    <3> HIDE DEF S
    <3> QED BY <1>8, <1>9, Induction
  <2>2. n \in S /\ n <= n
    <3> HIDE DEF S
    <3> QED BY <1>6, <2>1
  <2> HIDE DEF rest, last
  <2> QED BY <2>2
<1>11. rest(n) = {}
  <2> SUFFICES ASSUME NEW x \in moves, x > last(n) PROVE FALSE
    OBVIOUS
  <2>1. PICK j \in 1..n : s[j] = x
    BY <1>1
  <2>2. n \in 1..n /\ n # 0 /\ (j = n \/ j < n)
    BY <1>6
  <2>3. last(n) = s[n]
    BY <2>2
  <2>4. j = n \/ s[j] < s[n]
    BY <1>1, <2>2
  <2>5. s[n] \in Int /\ x \in Int
    BY <1>6, <1>7, <2>2
  <2> HIDE DEF last
  <2> QED BY <2>1, <2>3, <2>4, <2>5
<1>12. last(n) \in Int /\ last(n) <= d
  <2>1. d \in Int /\ -1 <= d
    BY DatesAreDays
  <2>2. CASE n = 0
    BY <2>1, <2>2
  <2>3. CASE n # 0
    <3>1. n \in 1..n
      BY <1>6, <2>3
    <3>2. s[n] \in Int /\ s[n] <= d
      BY <1>6, <3>1
    <3> QED BY <2>3, <3>2
  <2> QED BY <2>2, <2>3
<1> HIDE DEF rest, last
<1> QED BY <1>6, <1>10, <1>11, <1>12

--------------------------------------------------------------------------------
(* A read files in order *)

\* No boundary lies before the year the account was created in.
LEMMA BoundariesLive ==
  ASSUME NEW e \in Drafts, NEW k \in LeaveTypes, NEW d \in Dates, Created <= YearOf(d)
  PROVE  \A x \in BoundariesOf(e, k, d) : x \in Dates /\ x <= d /\ Created <= YearOf(x)
<1> DEFINE real == {y \in Pending(e, k, d) : y > Epoch(e)}
           open == {y \in real : e.made[k][y - 1] /\ ~e.closed[k][y - 1]}
           owing == {y - 1 : y \in open} \cup {YearOf(d)}
<1>1. ASSUME NEW y \in real PROVE y \in Years /\ y - 1 \in Years /\ Created <= y - 1 /\ Created <= y
  <2>1. y \in Years /\ y > Epoch(e)
    BY DEF Pending
  <2>2. y - 1 \in Years
    BY <2>1, EpochIs, YearsAreNumbers
  <2> QED BY <2>1, <2>2, EpochIs, YearsAreNumbers
<1>2. ASSUME NEW y \in owing PROVE y \in Years /\ Created <= y
  <2> HIDE DEF real
  <2> QED BY <1>1, YearOfDate
<1>3. ASSUME NEW y \in owing, NEW x \in OwedDates(e, k, y, Targets(e, k, y, d))
      PROVE  Created <= YearOf(x)
  <2> HIDE DEF owing
  <2>1. y \in Years /\ Created <= y
    BY <1>2
  <2> QED BY <2>1, OwedDatesInYear
<1>4. ASSUME NEW y \in real PROVE Created <= YearOf(FirstOfYear(y))
  <2> HIDE DEF real
  <2>1. y \in Years /\ Created <= y
    BY <1>1
  <2> QED BY <2>1, FirstOfYearIs
<1>5. BoundariesOf(e, k, d) =
        {FirstOfYear(y) : y \in real}
          \cup UNION {OwedDates(e, k, y, Targets(e, k, y, d)) : y \in owing}
  BY DEF BoundariesOf
<1> HIDE DEF real, owing
<1>6. \A x \in BoundariesOf(e, k, d) : Created <= YearOf(x)
  BY <1>3, <1>4, <1>5
<1> QED BY <1>6, BoundariesAre

\* No employed year begun by date d lacks its row, or was settled into without
\* the year before it being closed.
Attended(e, d) ==
  \A k \in LeaveTypes, y \in Epoch(e)..YearOf(d) :
    /\ e.made[k][y]
    /\ e.finalized[k][y] /\ y > Epoch(e) => e.closed[k][y - 1]

\* Of such books, all that falls due does so at the boundaries.
LEMMA AttendedAwaits ==
  ASSUME NEW e \in Drafts, NEW d \in Dates, Attended(e, d)
  PROVE  Awaits(e, d, UNION {BoundariesOf(e, k, d) : k \in LeaveTypes})
<1> DEFINE moves == UNION {BoundariesOf(e, k, d) : k \in LeaveTypes}
<1> SUFFICES ASSUME NEW k \in LeaveTypes, NEW y \in Years, Epoch(e) <= y, y <= YearOf(d)
             PROVE  /\ e.made[k][y]
                    /\ y > Epoch(e) /\ ~e.finalized[k][y] => FirstOfYear(y) \in moves
                    /\ OwedDates(e, k, y, Targets(e, k, y, d)) \subseteq moves
  BY DEF Awaits, Expects
<1> DEFINE real == {z \in Pending(e, k, d) : z > Epoch(e)}
           open == {z \in real : e.made[k][z - 1] /\ ~e.closed[k][z - 1]}
           owing == {z - 1 : z \in open} \cup {YearOf(d)}
<1>1. /\ {FirstOfYear(z) : z \in real} \subseteq moves
      /\ \A z \in owing : OwedDates(e, k, z, Targets(e, k, z, d)) \subseteq moves
  <2>1. BoundariesOf(e, k, d) =
          {FirstOfYear(z) : z \in real}
            \cup UNION {OwedDates(e, k, z, Targets(e, k, z, d)) : z \in owing}
    BY DEF BoundariesOf
  <2>2. BoundariesOf(e, k, d) \subseteq moves
    OBVIOUS
  <2> HIDE DEF real, owing, moves
  <2> QED BY <2>1, <2>2
<1> HIDE DEF moves
<1>2. y \in Int /\ Epoch(e) \in Int /\ YearOf(d) \in Int /\ YearOf(d) \in Years
  BY YearsAreNumbers, EpochIs, YearOfAny, YearOfDate
<1>3. \A z \in Epoch(e)..YearOf(d) :
        e.made[k][z] /\ (e.finalized[k][z] /\ z > Epoch(e) => e.closed[k][z - 1])
  BY DEF Attended
<1>4. e.made[k][y]
  BY <1>2, <1>3
<1>5. ASSUME y > Epoch(e), ~e.finalized[k][y] PROVE FirstOfYear(y) \in moves
  <2>1. y \in real
    BY <1>4, <1>5 DEF Pending
  <2> HIDE DEF real
  <2> QED BY <1>1, <2>1
<1>6. OwedDates(e, k, y, Targets(e, k, y, d)) \subseteq moves
  <2>1. CASE e.closed[k][y]
    <3>1. OwedDates(e, k, y, Targets(e, k, y, d)) = {}
      BY <2>1 DEF OwedDates, Owed
    <3> QED BY <3>1
  <2>2. CASE y = YearOf(d)
    <3>1. y \in owing
      BY <2>2
    <3> HIDE DEF owing
    <3> QED BY <1>1, <3>1
  <2>3. CASE ~e.closed[k][y] /\ y # YearOf(d)
    <3> DEFINE z == y + 1
    <3>1. z \in Epoch(e)..YearOf(d) /\ z > Epoch(e) /\ z - 1 = y /\ z <= YearOf(d)
      BY <1>2, <2>3
    <3>2. z \in Years
      BY <1>2, <3>1, YearsAreNumbers
    <3> HIDE DEF z
    <3>3. e.made[k][z] /\ ~e.finalized[k][z]
      BY <1>3, <2>3, <3>1
    <3>4. z \in open
      BY <1>4, <2>3, <3>1, <3>2, <3>3 DEF Pending
    <3>5. y \in owing
      <4> HIDE DEF open
      <4> QED BY <3>1, <3>4
    <3> HIDE DEF owing
    <3> QED BY <1>1, <3>5
  <2> QED BY <2>1, <2>2, <2>3
<1> QED BY <1>4, <1>5, <1>6

\* What is in order of each type is in order.
LEMMA FiledIsInOrder ==
  ASSUME NEW e \in Drafts, NEW b, NEW c, AllFiled(e, b, c)
  PROVE  InDateOrder(e.ledger)
<1>1. \A i \in DOMAIN e.ledger : e.ledger[i].type \in LeaveTypes
  <2>1. e.ledger \in Seq(Entries)
    BY DEF Drafts
  <2>2. \A i \in DOMAIN e.ledger : e.ledger[i] \in Entries
    BY <2>1
  <2> QED BY <2>2 DEF Entries
<1>2. SUFFICES ASSUME NEW i \in DOMAIN e.ledger, NEW j \in DOMAIN e.ledger, i < j,
                      e.ledger[i].type = e.ledger[j].type,
                      {e.ledger[i].kind, e.ledger[j].kind} # {"spent"}
               PROVE  e.ledger[i].date <= e.ledger[j].date
  BY DEF InDateOrder
<1>3. Filed(e, e.ledger[i].type, b, c)
  BY <1>1 DEF AllFiled
<1> QED BY <1>2, <1>3 DEF Filed

\* A catch-up files everything in order, if the years were attended.
LEMMA CaughtUpInOrder ==
  ASSUME NEW e \in Drafts, NEW d \in Dates, NEW settings \in CarryoverSettings,
         NEW since, Sound(e, d, since), Created <= YearOf(d), Attended(e, d), e.ledger = <<>>
  PROVE  InDateOrder(CaughtUp(e, d, settings).ledger)
<1> DEFINE moves == UNION {BoundariesOf(e, k, d) : k \in LeaveTypes}
           due == e.anchor # NoDate /\ HasPendingWork(e, d)
           w == Walked(e, moves, settings)
           g == IF due THEN AllDue(w, d, settings) ELSE e
           f == Reconciled(g, d)
<1>1. CaughtUp(e, d, settings) = f
  BY DEF CaughtUp
<1>2. d \in Int /\ d <= d /\ d - 1 <= d /\ -1 <= d /\ -1 \in Int
  BY DatesAreDays
<1>3. Underway(e, d, moves, -1)
  <2>1. Awaits(e, d, moves)
    BY AttendedAwaits
  <2>2. AllFiled(e, -1, -1)
    BY DEF AllFiled, Filed
  <2>3. Spendable(e, -1)
    <3>1. \A r \in RequestIds : e.requests[r].dates \subseteq Dates
      BY DEF Drafts, Requests
    <3>2. \A x \in Dates : -1 <= x
      BY DatesAreDays
    <3> QED BY <3>1, <3>2 DEF Spendable
  <2> HIDE DEF moves
  <2> QED BY <2>1, <2>2, <2>3 DEF Underway
<1>4. \A at \in moves : at \in Dates /\ at <= d /\ Created <= YearOf(at)
  BY BoundariesLive
<1> HIDE DEF moves
<1>5. g \in Drafts /\ \E c \in Int : c <= d /\ \E M : Underway(g, d, M, c)
  <2>1. CASE due
    <3>1. PICK c \in Int : c <= d /\ Underway(w, d, {}, c)
      BY <1>3, <1>4, <2>1, WalkedUnderway
    <3>2. Advance(e, w, d, since)
      BY <1>4, WalkedIs
    <3> HIDE DEF w
    <3> DEFINE v == AllDue(w, d, settings)
               M == {}
               N == {x \in M : x > d}
    <3>3. w \in Drafts /\ Sound(w, d, since) /\ w.anchor # NoDate
      BY <2>1, <3>2 DEF Advance, Reads
    <3>4. Awaits(w, d, M) /\ (\A x \in M : x \in Int /\ d <= x) /\ d \notin M
      BY <3>1 DEF Underway
    <3> HIDE DEF M
    <3>5. Advance(w, v, d, since) /\ Awaits(v, d, N) /\ v.requests = w.requests /\ v.ledger = w.ledger
      BY <1>2, <3>3, <3>4, AllDueExpects
    <3> HIDE DEF v, N
    <3>6. AllFiled(v, c, c) /\ Spendable(v, c)
      BY <3>1, <3>5, SameFiled DEF Underway, AllFiled, Spendable
    <3>7. Underway(v, d, N, c) /\ v \in Drafts
      BY <3>5, <3>6 DEF Underway, Advance
    <3>8. g = v
      BY <2>1 DEF v
    <3> QED BY <3>1, <3>7, <3>8
  <2>2. CASE ~due
    <3>1. g = e
      BY <2>2
    <3> HIDE DEF g
    <3> QED BY <1>2, <1>3, <3>1
  <2> QED BY <2>1, <2>2
<1> HIDE DEF g
<1>6. PICK c \in Int : c <= d /\ \E M : Underway(g, d, M, c)
  BY <1>5
<1>7. PICK M : Underway(g, d, M, c)
  BY <1>6
<1>8. f \in Drafts /\ AllFiled(f, d, c)
  BY <1>2, <1>5, <1>6, <1>7, ReconciledAwaits
<1> HIDE DEF f
<1> QED BY <1>1, <1>8, FiledIsInOrder

LEMMA RefreshedInOrder ==
  ASSUME NEW e \in Drafts, NEW d \in Dates, NEW settings \in CarryoverSettings,
         NEW since, Sound(e, d, since), Created <= YearOf(d), Attended(e, d), e.ledger = <<>>
  PROVE  InDateOrder(Refreshed(e, d, settings).ledger)
<1> DEFINE y == YearOf(d)
           v == Ensured(e, "vacation", y)
           g == Ensured(v, "sick", y)
<1>1. y \in Years /\ "vacation" \in LeaveTypes /\ "sick" \in LeaveTypes
  BY YearOfDate DEF LeaveTypes
<1> HIDE DEF y
<1>2. v \in Drafts /\ SameFigures(e, v) /\ v.ledger = e.ledger /\ Aside(e, v, "vacation")
  BY <1>1, EnsuredAside
<1> HIDE DEF v
<1>3. g \in Drafts /\ SameFigures(v, g) /\ g.ledger = v.ledger /\ Aside(v, g, "sick")
  BY <1>1, <1>2, EnsuredAside
<1> HIDE DEF g
<1>4. SameFigures(e, g) /\ g.ledger = <<>>
  BY <1>2, <1>3 DEF SameFigures
<1>5. ASSUME NEW k \in LeaveTypes, NEW z \in Years, e.made[k][z] PROVE g.made[k][z]
  <2>1. v.made[k][z]
    <3>1. CASE k = "vacation"
      BY <1>2, <1>5, <3>1 DEF Aside
    <3>2. CASE k # "vacation"
      BY <1>2, <1>5, <3>2 DEF Aside
    <3> QED BY <3>1, <3>2
  <2>2. CASE k = "sick"
    BY <1>3, <2>1, <2>2 DEF Aside
  <2>3. CASE k # "sick"
    BY <1>3, <2>1, <2>3 DEF Aside
  <2> QED BY <2>2, <2>3
<1>6. Sound(g, d, since)
  BY <1>3, <1>4, FiguresDecide DEF Advance
<1>7. Attended(g, d)
  <2>1. Epoch(g) = Epoch(e) /\ g.finalized = e.finalized /\ g.closed = e.closed
    BY <1>4 DEF SameFigures, Epoch
  <2>2. Epoch(e)..YearOf(d) \subseteq Years
    <3>1. Created \in Int /\ Epoch(e) \in Int /\ Created <= Epoch(e) /\ 0 <= Created
          /\ YearOf(d) \in Int /\ YearOf(d) <= LastYear
      BY EpochIs, YearsAreNumbers, YearOfDate
    <3> QED BY <3>1, YearsAreNumbers
  <2> QED BY <1>5, <2>1, <2>2 DEF Attended
<1>8. Refreshed(e, d, settings) = CaughtUp(g, d, settings)
  BY DEF Refreshed, y, v, g
<1> QED BY <1>3, <1>4, <1>6, <1>7, <1>8, CaughtUpInOrder

\* A transaction leaves the employee alone or commits, and the ledger goes.
LEMMA StepsCommit ==
  ASSUME Next
  PROVE  employee' = employee \/ \E e : employee' = [e EXCEPT !.ledger = <<>>]
<1>1. \A e : Commit(e) => \E f : employee' = [f EXCEPT !.ledger = <<>>]
  BY DEF Commit
<1>2. \A e, edit, types : CommitEdit(e, edit, types) => \E f : employee' = [f EXCEPT !.ledger = <<>>]
  BY <1>1 DEF CommitEdit
<1>3. \A e, edit : CommitReanchored(e, edit) => \E f : employee' = [f EXCEPT !.ledger = <<>>]
  BY <1>2 DEF CommitReanchored
<1>4. \A r, k, dates, o : CreateRequest(r, k, dates, o) => \E f : employee' = [f EXCEPT !.ledger = <<>>]
  BY <1>1 DEF CreateRequest
<1>5. CASE Tick
  BY <1>5 DEF Tick
<1>6. CASE Refresh
  BY <1>1, <1>6 DEF Refresh
<1>7. CASE \E r \in RequestIds : Submit(r) \/ Approve(r) \/ Settle(r)
  BY <1>1, <1>4, <1>7 DEF Submit, Approve, Settle
<1>8. CASE \E r, o \in RequestIds : Modify(r, o)
  BY <1>4, <1>8 DEF Modify
<1>9. CASE \E d \in StartDates : SetStartDate(d)
  BY <1>3, <1>9 DEF SetStartDate
<1>10. CASE \E delta \in Adjustments : AdjustVacation(delta)
  BY <1>2, <1>10 DEF AdjustVacation, CommitAdjusted
<1>11. CASE \E p \in Policies, d \in TransferDates, mode \in {"plain", "prospective", "retroactive"} :
              Transfer(p, d, mode)
  BY <1>3, <1>11 DEF Transfer
<1>12. CASE CancelTransfer
  BY <1>3, <1>12 DEF CancelTransfer
<1>13. CASE \E settings \in Carryovers : SetCarryover(settings)
  BY <1>13 DEF SetCarryover
<1> QED BY <1>5, <1>6, <1>7, <1>8, <1>9, <1>10, <1>11, <1>12, <1>13 DEF Next

\* Between transactions the ledger is empty.
LEMMA LedgerIsDropped == Spec => [](Inv /\ employee.ledger = <<>>)
<1>1. Init => Inv /\ employee.ledger = <<>>
  BY InitIsSound DEF Init, NewEmployee
<1>2. Inv /\ employee.ledger = <<>> /\ [Next]_vars => Inv' /\ (employee.ledger = <<>>)'
  <2> SUFFICES ASSUME Inv, employee.ledger = <<>>, [Next]_vars
               PROVE  Inv' /\ employee'.ledger = <<>>
    OBVIOUS
  <2>1. Inv'
    BY InvIsInductive
  <2>2. employee' \in Drafts
    BY <2>1 DEF Inv
  <2>3. CASE employee' = employee
    BY <2>1, <2>3
  <2>4. CASE \E e : employee' = [e EXCEPT !.ledger = <<>>]
    <3>1. PICK e : employee' = [e EXCEPT !.ledger = <<>>]
      BY <2>4
    <3>2. "ledger" \in DOMAIN employee'
      BY <2>2 DEF Drafts
    <3>3. DOMAIN employee' = DOMAIN e
      BY <3>1
    <3>4. employee'.ledger = <<>>
      BY <3>1, <3>2, <3>3
    <3> QED BY <2>1, <3>4
  <2> QED BY <2>3, <2>4, StepsCommit DEF vars
<1> QED BY <1>1, <1>2, PTL DEF Spec

\* Of an account that no year has passed unseen, reconcileApprovedLeaveTx,
\* finalizeCarryoverIfDue and accrueForYear write a type's ledger in the order of
\* its dates, boundary by boundary: no accrual, close or spend is filed after one
\* that came later.
THEOREM LedgerInOrder == Spec => []LedgerKeepsOrder
<1>1. Inv /\ employee.ledger = <<>> => LedgerKeepsOrder
  <2> SUFFICES ASSUME Inv, employee.ledger = <<>>, Awake PROVE InDateOrder(Today.ledger)
    BY DEF LedgerKeepsOrder
  <2>1. /\ now \in Dates /\ Created <= YearOf(now) /\ carryover \in CarryoverSettings
        /\ employee \in Drafts /\ Sound(employee, now, YearOf(now))
    BY Whereabouts DEF Inv
  <2>2. Attended(employee, now)
    BY DEF Awake, Attended
  <2> QED BY <2>1, <2>2, RefreshedInOrder DEF Today
<1> QED BY <1>1, LedgerIsDropped, PTL

================================================================================
