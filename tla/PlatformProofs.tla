----------------------------- MODULE PlatformProofs -----------------------------
(***************************************************************************)
(* The platform's part of the service (internal/platform): whatever rate   *)
(* below one is configured, or none, the split of every price is exact;    *)
(* the daily summary shows what was last reported, and a settlement        *)
(* reported again changes nothing; and the job that settles the days, with *)
(* the process around it, settles each once in an instance of the service  *)
(* and leaves none out.                                                    *)
(***************************************************************************)
EXTENDS DailySettlements, ServiceProcess, AmountProofs, FiniteSetTheorems

\* Below a rate of one, twice the fee exceeds twice the price by less than a unit.
LEMMA FeeWithinHalfUnit ==
  ASSUME NEW gross \in Nat, NEW rate \in FeeRates, rate.num < rate.den,
         Grains(Fee(gross, rate)) > gross
  PROVE  2 * Grains(Fee(gross, rate)) < 2 * gross + Grid
<1> DEFINE f == Fee(gross, rate)
           m == rate.num
           k == rate.den
           w == f * Grid
<1>1. /\ m \in Nat /\ k \in Nat /\ k > 0 /\ m <= k - 1
      /\ Grid \in Nat /\ Grid > 0
  BY GridAssumption DEF FeeRates
<1>2. f \in Nat /\ 2 * (k * Grid) * f <= 2 * (gross * m) + k * Grid
  BY FeeBracket
<1>3. w \in Nat /\ w = Grains(f) /\ w > gross
  BY <1>1, <1>2 DEF Grains
<1> HIDE DEF f, m, k
<1>4. 2 * (k * Grid) * f = k * (2 * w)
  BY <1>1, <1>2
<1> HIDE DEF w
<1>5. gross * m <= gross * (k - 1)
  BY <1>1
<1>6. gross * (k - 1) = k * gross - gross
  BY <1>1
<1>7. k * (2 * w) <= k * (2 * gross + Grid) - 2 * gross
  BY <1>1, <1>2, <1>3, <1>4, <1>5, <1>6
<1>8. gross > 0
  <2>1. SUFFICES ASSUME gross = 0 PROVE FALSE
    OBVIOUS
  <2>2. k * (2 * w) <= k * Grid
    BY <1>1, <1>3, <1>7, <2>1
  <2>3. 2 * w <= Grid
    <3>1. SUFFICES ASSUME 2 * w - Grid >= 1 PROVE FALSE
      BY <1>1, <1>3
    <3>2. k * (2 * w - Grid) >= k
      BY <1>1, <1>3, <3>1
    <3>3. QED
      BY <1>1, <1>3, <2>2, <3>2
  <2>4. w >= Grid
    BY <1>1, <1>2, <1>3, <2>1 DEF w
  <2>5. QED
    BY <1>1, <1>3, <2>3, <2>4
<1>9. 2 * w < 2 * gross + Grid
  <2>1. SUFFICES ASSUME 2 * w - (2 * gross + Grid) >= 0 PROVE FALSE
    BY <1>1, <1>3
  <2>2. k * (2 * w - (2 * gross + Grid)) >= 0
    BY <1>1, <1>3, <2>1
  <2>3. QED
    BY <1>1, <1>3, <1>7, <1>8, <2>2
<1>10. QED
  BY <1>3, <1>9 DEF f

(***************************************************************************)
(* Whatever the price and its precision, with a rate below one the fee and *)
(* the publisher's net revenue add up to what the advertiser's total_spent *)
(* gains, and neither is negative.                                         *)
(***************************************************************************)
THEOREM CalcFeesSplitsExactly ==
  ASSUME NEW gross \in Nat, NEW rate \in FeeRates
  PROVE  SplitExact(gross, rate)
<1> DEFINE f == Fee(gross, rate)
           rest == gross - Grains(f)
<1>1. SUFFICES ASSUME rate.num < rate.den
               PROVE  f >= 0 /\ Stored(rest) >= 0 /\ f + Stored(rest) = Stored(gross)
  BY DEF SplitExact, Net
<1>2. Grid \in Nat /\ Grid > 0
  BY GridAssumption
<1>3. f \in Nat
  BY FeeBracket
<1>4. Grains(f) \in Nat /\ Grains(f) = f * Grid
  BY <1>2, <1>3 DEF Grains
<1>5. CASE rest >= 0
  <2>1. rest \in Nat /\ gross = Grains(f) + rest
    BY <1>4, <1>5
  <2> HIDE DEF f, rest
  <2>2. Stored(gross) = f + Stored(rest)
    BY <1>3, <2>1, StoredAdd
  <2>3. QED
    BY <1>3, <2>1, <2>2, StoredNat
<1>6. CASE rest < 0
  <2> DEFINE x == -rest
  <2>1. x \in Nat /\ x > 0 /\ rest = -x /\ Grains(f) = gross + x
    BY <1>4, <1>6
  <2>2. 2 * x < Grid
    BY <1>1, <1>2, <1>4, <2>1, FeeWithinHalfUnit
  <2> HIDE DEF f, x, rest
  <2>3. Stored(x) = 0
    <3>1. /\ Stored(x) \in Nat
          /\ (2 * Grid) * Stored(x) <= 2 * x + Grid
      BY <2>1, StoredNat
    <3>2. SUFFICES ASSUME Stored(x) >= 1 PROVE FALSE
      BY <3>1
    <3>3. (2 * Grid) * (Stored(x) - 1) >= 0
      BY <1>2, <3>1, <3>2
    <3>4. QED
      BY <1>2, <2>1, <2>2, <3>1, <3>3
  <2>4. Stored(rest) = 0
    BY <2>1, <2>3, StoredNeg
  <2>5. Stored(gross) = f
    <3> DEFINE d == 2 * Grid
               n == 2 * gross + Grid
               p == Stored(gross)
    <3>1. p \in Nat /\ d * p <= n /\ n < d * (p + 1)
      BY StoredNat
    <3>2. d * f = 2 * (gross + x) /\ d * (f + 1) = 2 * (gross + x) + 2 * Grid
      BY <1>2, <1>3, <1>4, <2>1
    <3>3. d * f <= n /\ n < d * (f + 1) /\ d \in Nat /\ d > 0 /\ n \in Int
      BY <1>2, <2>1, <2>2, <3>2
    <3> HIDE DEF d, n, p
    <3>4. p = f
      BY <1>3, <3>1, <3>3, BracketUnique
    <3>5. QED
      BY <3>4 DEF p
  <2>6. QED
    BY <1>3, <2>4, <2>5
<1>7. rest \in Int
  BY <1>4
<1>8. QED
  <2> HIDE DEF rest
  <2> QED BY <1>5, <1>6, <1>7

------------------------------------------------------------------------------
(* The configured rate. *)

\* The rate CalcFees works with is a fee rate, configured or not.
LEMMA FeeRateType ==
  ASSUME config \in Rates \union {Missing}
  PROVE  FeeRate \in FeeRates
<1>1. CASE config = Missing
  BY <1>1 DEF FeeRate, DefaultRate, FeeRates
<1>2. CASE config # Missing
  BY <1>2, SettlementsAssumption DEF FeeRate, FeeRates
<1>3. QED
  BY <1>1, <1>2

(***************************************************************************)
(* CalcFees (platform/service.go) splits every price exactly at the rate   *)
(* it finds, as long as that is below one.                                 *)
(***************************************************************************)
THEOREM SplitAlwaysExact == Spec => []SplitIsExact
<1> DEFINE Configured == config \in Rates \union {Missing}
<1>1. Init => Configured
  BY DEF Init
<1>2. Configured /\ [Next]_vars => Configured'
  BY DEF Next, UpsertDailySettlement, vars
<1>3. Configured => SplitIsExact
  <2>1. SUFFICES ASSUME Configured, NEW gross \in 0 .. MaxGross
                 PROVE  SplitExact(gross, FeeRate)
    BY DEF SplitIsExact
  <2>2. gross \in Nat /\ FeeRate \in FeeRates
    BY <2>1, FeeRateType, SettlementsAssumption
  <2>3. QED
    BY <2>2, CalcFeesSplitsExactly
<1>4. QED
  BY <1>1, <1>2, <1>3, PTL DEF Spec

------------------------------------------------------------------------------
Rows == [key : Keys, gross : Int]

\* The rows of a key without NULL: one, with the figure last reported, or none.
RowIsCurrent(k) ==
  /\ latest[k] # Null => \E n \in DOMAIN settlements : settlements[n].key = k
  /\ \A n \in DOMAIN settlements :
       settlements[n].key = k => settlements[n].gross = latest[k]
  /\ \A m, n \in DOMAIN settlements :
       settlements[m].key = k /\ settlements[n].key = k => m = n

\* The inductive invariant of the table.
TableInv ==
  /\ settlements \in Seq(Rows)
  /\ latest \in [Keys -> Int \union {Null}]
  /\ reports \in [Keys -> Nat]
  /\ \A k \in Keys : SameKey(k, k) => RowIsCurrent(k)

\* What an upsert makes of a row.
LEMMA ReplacedRow ==
  ASSUME NEW row \in Rows, NEW gross \in Nat
  PROVE  /\ Stored(gross) \in Int
         /\ Replaced(row, gross) \in Rows
         /\ Replaced(row, gross).key = row.key
         /\ Replaced(row, gross).gross = Stored(gross)
<1>1. Stored(gross) \in Nat
  BY StoredNat
<1>2. QED
  BY <1>1 DEF Rows, Replaced

\* A key conflicts with its own rows, if it has no NULL, and with no others.
LEMMA ConflictsAreOwn ==
  ASSUME NEW k \in Keys
  PROVE  Conflicts(k) = IF SameKey(k, k)
                          THEN {n \in DOMAIN settlements : settlements[n].key = k}
                          ELSE {}
BY DEF Conflicts, SameKey

\* An upsert keeps the rows of every key without NULL current.
LEMMA UpsertKeepsTable ==
  ASSUME TableInv, NEW k \in Keys, NEW gross \in Figures,
         UpsertDailySettlement(k, gross)
  PROVE  TableInv'
<1> DEFINE new == [key |-> k, gross |-> Stored(gross)]
<1>1. gross \in Nat /\ Stored(gross) \in Int
  BY SettlementsAssumption, StoredNat
<1>2. /\ latest' = [latest EXCEPT ![k] = Stored(gross)]
      /\ reports' = [reports EXCEPT ![k] = @ + 1]
  BY DEF UpsertDailySettlement
<1>3. latest' \in [Keys -> Int \union {Null}] /\ reports' \in [Keys -> Nat]
  BY <1>1, <1>2 DEF TableInv
<1>4. Stored(gross) # Null
  BY <1>1, SettlementsAssumption
<1>5. CASE Conflicts(k) = {}
  <2>1. settlements' = Append(settlements, new) /\ new \in Rows
    BY <1>1, <1>5 DEF UpsertDailySettlement, Rows
  <2>2. /\ settlements' \in Seq(Rows)
        /\ Len(settlements') = Len(settlements) + 1
        /\ settlements'[Len(settlements) + 1] = new
        /\ \A n \in 1 .. Len(settlements) : settlements'[n] = settlements[n]
    BY <2>1 DEF TableInv
  <2>3. DOMAIN settlements = 1 .. Len(settlements) /\ Len(settlements) \in Nat
        /\ DOMAIN settlements' = 1 .. Len(settlements) + 1
    BY <2>2 DEF TableInv
  <2>4. ASSUME NEW l \in Keys, SameKey(l, l)
        PROVE  RowIsCurrent(l)'
    <3>1. RowIsCurrent(l)
      BY <2>4 DEF TableInv
    <3>2. CASE l = k
      <4>1. \A n \in DOMAIN settlements : settlements[n].key # k
        BY <1>5, <2>4, <3>2, ConflictsAreOwn
      <4>2. latest'[k] = Stored(gross)
        BY <1>2 DEF TableInv
      <4>3. new.key = k /\ new.gross = Stored(gross)
        OBVIOUS
      <4> HIDE DEF new
      <4>4. QED
        BY <2>2, <2>3, <3>2, <4>1, <4>2, <4>3 DEF RowIsCurrent
    <3>3. CASE l # k
      <4>1. latest'[l] = latest[l]
        BY <1>2, <3>3 DEF TableInv
      <4>2. new.key # l
        BY <3>3
      <4> HIDE DEF new
      <4>3. QED
        BY <2>2, <2>3, <3>1, <4>1, <4>2 DEF RowIsCurrent
    <3>4. QED
      BY <3>2, <3>3
  <2>5. QED
    BY <1>3, <2>2, <2>4 DEF TableInv, SameKey
<1>6. CASE Conflicts(k) # {}
  <2>1. settlements' = [n \in DOMAIN settlements |->
                          IF n \in Conflicts(k) THEN Replaced(settlements[n], gross)
                                                ELSE settlements[n]]
    BY <1>6 DEF UpsertDailySettlement
  <2>2. DOMAIN settlements = 1 .. Len(settlements) /\ Len(settlements) \in Nat
        /\ \A n \in DOMAIN settlements : settlements[n] \in Rows
    BY DEF TableInv
  <2>3. Conflicts(k) = {n \in DOMAIN settlements : settlements[n].key = k}
    BY <1>6, ConflictsAreOwn
  <2>4. ASSUME NEW n \in DOMAIN settlements
        PROVE  /\ settlements'[n] \in Rows
               /\ settlements'[n].key = settlements[n].key
               /\ settlements'[n].gross = IF settlements[n].key = k
                                            THEN Stored(gross) ELSE settlements[n].gross
    BY <1>1, <2>1, <2>2, <2>3, ReplacedRow
  <2>5. DOMAIN settlements' = DOMAIN settlements /\ settlements' \in Seq(Rows)
    BY <2>1, <2>2, <2>4
  <2>6. ASSUME NEW l \in Keys, SameKey(l, l)
        PROVE  RowIsCurrent(l)'
    <3>1. RowIsCurrent(l)
      BY <2>6 DEF TableInv
    <3>2. CASE l = k
      <4>1. latest'[k] = Stored(gross)
        BY <1>2 DEF TableInv
      <4>2. \E n \in DOMAIN settlements : settlements[n].key = k
        BY <1>6, <2>3
      <4>3. QED
        BY <2>4, <2>5, <3>1, <3>2, <4>1, <4>2 DEF RowIsCurrent
    <3>3. CASE l # k
      <4>1. latest'[l] = latest[l]
        BY <1>2, <3>3 DEF TableInv
      <4>2. QED
        BY <2>4, <2>5, <3>1, <3>3, <4>1 DEF RowIsCurrent
    <3>4. QED
      BY <3>2, <3>3
  <2>7. QED
    BY <1>3, <2>5, <2>6 DEF TableInv, SameKey
<1>7. QED
  BY <1>5, <1>6

(***************************************************************************)
(* The table holds one row for every key without NULL that was reported,   *)
(* with its last figure: what the summary of a date shows of it            *)
(* (UpsertDailySettlement in repo/platform.go).                            *)
(***************************************************************************)
THEOREM TableCurrent == Spec => []TableInv
<1>1. Init => TableInv
  <2>1. SUFFICES ASSUME Init PROVE TableInv
    OBVIOUS
  <2>2. /\ settlements = <<>> /\ latest = [k \in Keys |-> Null]
        /\ reports = [k \in Keys |-> 0]
    BY <2>1 DEF Init
  <2>3. QED
    BY <2>2 DEF TableInv, RowIsCurrent
<1>2. TableInv /\ [Next]_vars => TableInv'
  <2>1. SUFFICES ASSUME TableInv, [Next]_vars PROVE TableInv'
    OBVIOUS
  <2>2. CASE Next
    BY <2>1, <2>2, UpsertKeepsTable DEF Next
  <2>3. CASE UNCHANGED vars
    BY <2>1, <2>3 DEF vars, TableInv, RowIsCurrent, SameKey
  <2>4. QED
    BY <2>1, <2>2, <2>3
<1>3. QED
  BY <1>1, <1>2, PTL DEF Spec

\* Reporting the figure a key without NULL already has leaves the table as it is.
LEMMA RepeatKeepsTable ==
  ASSUME TableInv, NEW k \in Keys, NEW gross \in Figures,
         UpsertDailySettlement(k, gross), SameKey(k, k), latest'[k] = latest[k]
  PROVE  settlements' = settlements
<1>1. gross \in Nat /\ Stored(gross) \in Int
  BY SettlementsAssumption, StoredNat
<1>2. latest[k] = Stored(gross) /\ latest[k] # Null
  <2>1. latest'[k] = Stored(gross)
    BY DEF UpsertDailySettlement, TableInv
  <2>2. QED
    BY <1>1, <2>1, SettlementsAssumption
<1>3. RowIsCurrent(k)
  BY DEF TableInv
<1>4. Conflicts(k) = {n \in DOMAIN settlements : settlements[n].key = k}
  BY ConflictsAreOwn
<1>5. Conflicts(k) # {}
  BY <1>2, <1>3, <1>4 DEF RowIsCurrent
<1>6. settlements' = [n \in DOMAIN settlements |->
                        IF n \in Conflicts(k) THEN Replaced(settlements[n], gross)
                                              ELSE settlements[n]]
  BY <1>5 DEF UpsertDailySettlement
<1>7. ASSUME NEW n \in Conflicts(k)
      PROVE  Replaced(settlements[n], gross) = settlements[n]
  <2>1. settlements[n] \in Rows /\ settlements[n].gross = Stored(gross)
    BY <1>2, <1>3, <1>4, <1>7 DEF RowIsCurrent, TableInv
  <2>2. QED
    BY <2>1 DEF Replaced, Rows
<1>8. settlements = [n \in DOMAIN settlements |-> settlements[n]]
  BY DEF TableInv
<1>9. QED
  BY <1>6, <1>7, <1>8

(***************************************************************************)
(* A settlement that is run again for a date changes nothing, as long as   *)
(* its keys have no NULL.                                                  *)
(***************************************************************************)
THEOREM RepeatsAlwaysHarmless == Spec => RepeatsHarmless
<1> DEFINE Harmless ==
             \A k \in Keys :
               SameKey(k, k) /\ reports'[k] > reports[k] /\ latest'[k] = latest[k]
               => settlements' = settlements
<1>1. TableInv /\ [Next]_vars => [Harmless]_vars
  <2>1. SUFFICES ASSUME TableInv, Next, NEW k \in Keys,
                        SameKey(k, k), reports'[k] > reports[k], latest'[k] = latest[k]
                 PROVE  settlements' = settlements
    OBVIOUS
  <2>2. PICK l \in Keys, gross \in Figures : UpsertDailySettlement(l, gross)
    BY <2>1 DEF Next
  <2>3. l = k
    <3>1. SUFFICES ASSUME l # k PROVE reports'[k] = reports[k] /\ reports[k] \in Nat
      BY <2>1
    <3>2. QED
      BY <2>1, <2>2, <3>1 DEF UpsertDailySettlement, TableInv
  <2>4. QED
    BY <2>1, <2>2, <2>3, RepeatKeepsTable
<1>2. QED
  BY <1>1, TableCurrent, PTL DEF Spec, RepeatsHarmless

------------------------------------------------------------------------------
(* The daily summary. *)

\* The rows filed under a key.
RowsOf(k) == {n \in DOMAIN settlements : settlements[n].key = k}

\* A key with a NULL has a row for every time it was reported.
FiledEachTime ==
  \A k \in Keys :
    ~SameKey(k, k) => IsFiniteSet(RowsOf(k)) /\ Cardinality(RowsOf(k)) = reports[k]

\* What a report shows of a key is what the table has of it.
LEMMA PlacesAreRows == ASSUME NEW k \in Keys PROVE Places(Summary(k.date), k) = RowsOf(k)
BY DEF Places, Summary, RowsOf

\* An upsert changes the rows of its own key at most.
LEMMA RowsOfOthers ==
  ASSUME TableInv, NEW k \in Keys, NEW gross \in Figures,
         UpsertDailySettlement(k, gross), NEW l \in Keys
  PROVE  /\ l # k => RowsOf(l)' = RowsOf(l)
         /\ ~SameKey(k, k) => /\ RowsOf(k)' = RowsOf(k) \cup {Len(settlements) + 1}
                              /\ Len(settlements) + 1 \notin RowsOf(k)
<1> DEFINE new == [key |-> k, gross |-> Stored(gross)]
<1>1. gross \in Nat /\ Stored(gross) \in Int
  BY SettlementsAssumption, StoredNat
<1>2. /\ DOMAIN settlements = 1 .. Len(settlements) /\ Len(settlements) \in Nat
      /\ \A n \in DOMAIN settlements : settlements[n] \in Rows
  BY DEF TableInv
<1>3. CASE Conflicts(k) = {}
  <2>1. settlements' = Append(settlements, new) /\ new \in Rows
    BY <1>1, <1>3 DEF UpsertDailySettlement, Rows
  <2>2. /\ DOMAIN settlements' = 1 .. Len(settlements) + 1
        /\ settlements'[Len(settlements) + 1] = new
        /\ \A n \in 1 .. Len(settlements) : settlements'[n] = settlements[n]
    BY <2>1 DEF TableInv
  <2>3. new.key = k
    OBVIOUS
  <2> HIDE DEF new
  <2>4. QED
    BY <1>2, <2>2, <2>3 DEF RowsOf
<1>4. CASE Conflicts(k) # {}
  <2>1. SameKey(k, k)
    BY <1>4, ConflictsAreOwn
  <2>2. settlements' = [n \in DOMAIN settlements |->
                          IF n \in Conflicts(k) THEN Replaced(settlements[n], gross)
                                                ELSE settlements[n]]
    BY <1>4 DEF UpsertDailySettlement
  <2>3. ASSUME NEW n \in DOMAIN settlements
        PROVE  settlements'[n].key = settlements[n].key
    BY <1>1, <1>2, <2>2, ReplacedRow
  <2>4. QED
    BY <2>1, <2>2, <2>3 DEF RowsOf
<1>5. QED
  BY <1>3, <1>4

(***************************************************************************)
(* The summary of a day shows a key that has no NULL once, with its last   *)
(* figure, and a key with a NULL as often as it was reported               *)
(* (GetDailySummary in repo/platform.go), for tables of any size.          *)
(***************************************************************************)
THEOREM SummaryAlwaysCurrent == Spec => []SummaryIsCurrent
<1>1. Init => FiledEachTime
  <2>1. SUFFICES ASSUME Init, NEW k \in Keys
                 PROVE  IsFiniteSet(RowsOf(k)) /\ Cardinality(RowsOf(k)) = reports[k]
    BY DEF FiledEachTime
  <2>2. RowsOf(k) = {} /\ reports[k] = 0
    BY <2>1 DEF Init, RowsOf
  <2>3. QED
    BY <2>2, FS_EmptySet
<1>2. TableInv /\ FiledEachTime /\ [Next]_vars => FiledEachTime'
  <2>1. SUFFICES ASSUME TableInv, FiledEachTime, [Next]_vars PROVE FiledEachTime'
    OBVIOUS
  <2>2. ASSUME NEW k \in Keys, NEW gross \in Figures, UpsertDailySettlement(k, gross)
        PROVE  FiledEachTime'
    <3>1. reports' = [reports EXCEPT ![k] = @ + 1] /\ reports \in [Keys -> Nat]
      BY <2>1, <2>2 DEF UpsertDailySettlement, TableInv
    <3>2. ASSUME NEW l \in Keys, ~SameKey(l, l)
          PROVE  IsFiniteSet(RowsOf(l)') /\ Cardinality(RowsOf(l)') = reports'[l]
      <4>1. IsFiniteSet(RowsOf(l)) /\ Cardinality(RowsOf(l)) = reports[l]
        BY <2>1, <3>2 DEF FiledEachTime
      <4>2. CASE l = k
        <5>1. /\ RowsOf(l)' = RowsOf(l) \cup {Len(settlements) + 1}
              /\ Len(settlements) + 1 \notin RowsOf(l)
          BY <2>1, <2>2, <3>2, <4>2, RowsOfOthers
        <5>2. reports'[l] = reports[l] + 1
          BY <3>1, <4>2
        <5>3. QED
          BY <4>1, <5>1, <5>2, FS_AddElement
      <4>3. CASE l # k
        <5>1. RowsOf(l)' = RowsOf(l)
          BY <2>1, <2>2, <4>3, RowsOfOthers
        <5>2. reports'[l] = reports[l]
          BY <3>1, <4>3
        <5>3. QED
          BY <4>1, <5>1, <5>2
      <4>4. QED
        BY <4>2, <4>3
    <3>3. QED
      BY <3>2 DEF FiledEachTime, SameKey
  <2>3. CASE UNCHANGED vars
    BY <2>1, <2>3 DEF vars, FiledEachTime, RowsOf, SameKey
  <2>4. QED
    BY <2>1, <2>2, <2>3 DEF Next
<1>3. TableInv /\ FiledEachTime => SummaryIsCurrent
  <2>1. SUFFICES ASSUME TableInv, FiledEachTime, NEW k \in Keys
                 PROVE  IF SameKey(k, k)
                          THEN /\ Cardinality(RowsOf(k)) = IF latest[k] = Null THEN 0 ELSE 1
                               /\ \A n \in RowsOf(k) : settlements[n].gross = latest[k]
                          ELSE Cardinality(RowsOf(k)) = reports[k]
    BY PlacesAreRows DEF SummaryIsCurrent
  <2>2. CASE ~SameKey(k, k)
    BY <2>1, <2>2 DEF FiledEachTime
  <2>3. CASE SameKey(k, k)
    <3>1. RowIsCurrent(k)
      BY <2>1, <2>3 DEF TableInv
    <3>2. \A n \in RowsOf(k) : settlements[n].gross = latest[k]
      BY <3>1 DEF RowIsCurrent, RowsOf
    <3>3. CASE RowsOf(k) = {}
      <4>1. latest[k] = Null
        BY <3>1, <3>3 DEF RowIsCurrent, RowsOf
      <4>2. QED
        BY <2>3, <3>2, <3>3, <4>1, FS_EmptySet
    <3>4. CASE RowsOf(k) # {}
      <4>1. PICK n \in RowsOf(k) : TRUE
        BY <3>4
      <4>2. RowsOf(k) = {n}
        BY <3>1, <4>1 DEF RowIsCurrent, RowsOf
      <4>3. Cardinality(RowsOf(k)) = 1
        BY <4>2, FS_Singleton
      <4>4. settlements[n].gross \in Int
        <5>1. settlements \in Seq(Rows) /\ n \in DOMAIN settlements
          BY <2>1, <4>1 DEF TableInv, RowsOf
        <5>2. settlements[n] \in Rows
          BY <5>1
        <5>3. QED
          BY <5>2 DEF Rows
      <4>5. latest[k] # Null
        BY <3>2, <4>1, <4>4, SettlementsAssumption
      <4>6. QED
        BY <2>3, <3>2, <4>3, <4>5
    <3>5. QED
      BY <3>3, <3>4
  <2>4. QED
    BY <2>2, <2>3
<1>4. QED
  BY <1>1, <1>2, <1>3, TableCurrent, PTL DEF Spec

------------------------------------------------------------------------------
(* The process: days and the times the job runs at. *)

\* A tick lies in its day: the day began no more than RunAt before its run.
LEMMA DayBracket ==
  ASSUME NEW t \in Int
  PROVE  /\ DayOf(t) \in Int
         /\ RunTime(DayOf(t)) - RunAt <= t
         /\ t < RunTime(DayOf(t)) - RunAt + DayLength
<1>1. DayLength \in Nat /\ DayLength > 0 /\ RunAt \in Int
  BY ProcessAssumption
<1>2. /\ t \div DayLength \in Int
      /\ DayLength * (t \div DayLength) <= t
      /\ t < DayLength * (t \div DayLength + 1)
  BY <1>1, DivBracket
<1> DEFINE q == t \div DayLength
<1>3. /\ q \in Int /\ DayLength * q <= t /\ t < DayLength * (q + 1)
  BY <1>2
<1> HIDE DEF q
<1>4. DayLength * q = q * DayLength /\ DayLength * (q + 1) = q * DayLength + DayLength
  BY <1>1, <1>3
<1>5. QED
  BY <1>1, <1>3, <1>4 DEF DayOf, RunTime, q

\* The job's times are a day apart.
LEMMA RunTimesApart ==
  ASSUME NEW d \in Int, NEW e \in Int
  PROVE  /\ RunTime(d) \in Int
         /\ RunTime(d + 1) = RunTime(d) + DayLength
         /\ d < e => RunTime(d) + DayLength <= RunTime(e)
<1>1. DayLength \in Nat /\ RunAt \in Int
  BY ProcessAssumption
<1>2. (d + 1) * DayLength = d * DayLength + DayLength
  BY <1>1
<1>3. ASSUME d < e PROVE (d + 1) * DayLength <= e * DayLength
  <2>1. e - (d + 1) \in Nat
    BY <1>3
  <2>2. (e - (d + 1)) * DayLength >= 0
    BY <1>1, <2>1
  <2>3. (e - (d + 1)) * DayLength = e * DayLength - (d + 1) * DayLength
    BY <1>1
  <2>4. QED
    BY <1>1, <2>2, <2>3
<1>4. QED
  BY <1>1, <1>2, <1>3 DEF RunTime

\* nextRunTime finds the first of these times that is not past.
LEMMA NextRunTimeFirst ==
  ASSUME NEW t \in Int
  PROVE  \E e \in Int : /\ NextRunTime(t) = RunTime(e)
                        /\ t <= RunTime(e)
                        /\ RunTime(e - 1) < t
<1> DEFINE e == DayOf(t)
<1>1. /\ e \in Int /\ RunTime(e) - RunAt <= t /\ t < RunTime(e) - RunAt + DayLength
      /\ DayLength \in Nat /\ RunAt \in Nat /\ RunAt < DayLength
  BY DayBracket, ProcessAssumption
<1> HIDE DEF e
<1>2. /\ RunTime(e) \in Int /\ RunTime(e - 1) \in Int
      /\ RunTime(e + 1) = RunTime(e) + DayLength
      /\ RunTime(e) = RunTime(e - 1) + DayLength
  <2>1. e - 1 \in Int /\ (e - 1) + 1 = e
    BY <1>1
  <2>2. RunTime(e - 1) \in Int /\ RunTime((e - 1) + 1) = RunTime(e - 1) + DayLength
    BY <2>1, RunTimesApart
  <2>3. QED
    BY <1>1, <2>1, <2>2, RunTimesApart
<1>3. CASE t > RunTime(e)
  <2>1. NextRunTime(t) = RunTime(e + 1) /\ (e + 1) - 1 = e /\ e + 1 \in Int
    BY <1>1, <1>3 DEF NextRunTime, e
  <2>2. t <= RunTime(e + 1)
    BY <1>1, <1>2
  <2>3. QED
    BY <1>3, <2>1, <2>2
<1>4. CASE ~(t > RunTime(e))
  <2>1. NextRunTime(t) = RunTime(e)
    BY <1>4 DEF NextRunTime, e
  <2>2. RunTime(e - 1) < t
    BY <1>1, <1>2, ProcessAssumption
  <2>3. QED
    BY <1>1, <1>2, <1>4, <2>1, <2>2
<1>5. QED
  BY <1>3, <1>4

------------------------------------------------------------------------------
(* The inductive invariant of the processes, said of each instance. *)

\* Which of the server, the stores and the requests go with each stage of main.
Lifecycle(i) ==
  /\ server[i] = "serving" => main[i] = "up"
  /\ main[i] \in {"up", "draining"} => stores[i] = "open"
  /\ main[i] = "closing" => InFlight(i) = {} \/ drain[i] <= time
  /\ main[i] = "down" => InFlight(i) = {}

\* The wall-clock time at which the armed timer fires, as the clock stands now.
Due(i) == timer[i] - setbacks[i]

\* The earliest time the loop may find when it looks at the clock again.
Reads(i) == IF job[i] = "running" THEN Now(i) + 1 ELSE Now(i)

NotTooLate(i) == job[i] = "sleep" => time <= timer[i] + MaxLag

(***************************************************************************)
(* How often i may have settled date d.  Until it is settled in full       *)
(* measure the run for it is still to come, by the clock or by the timer;  *)
(* a timer that will fire before its time, which only a clock set back     *)
(* makes it do, leaves room for the run on time that will follow.          *)
(***************************************************************************)
WithinBudget(i, d) ==
  /\ runs[i][d] <= 1 + setbacks[i]
  /\ Reads(i) <= RunTime(d + 1) => runs[i][d] <= setbacks[i]
  /\ /\ job[i] = "sleep"
     /\ Now(i) < RunTime(d + 2) - RunAt
     /\ Due(i) < RunTime(d + 2) - RunAt
     => runs[i][d] <= setbacks[i]
  /\ job[i] = "sleep" /\ RunTime(d) < Due(i) /\ Due(i) < RunTime(d + 1)
     => runs[i][d] + 1 <= setbacks[i]

\* A date not settled yet that the process was up for: the run for it is ahead.
StillAhead(i, d) ==
  main[i] = "up" /\ since[i] <= RunTime(d + 1) /\ runs[i][d] = 0 =>
    \/ job[i] = "sleep" /\ Due(i) <= RunTime(d + 1)
    \/ job[i] \in {"schedule", "running"} /\ Reads(i) <= RunTime(d + 1)

InstanceInv(i) ==
  /\ Lifecycle(i)
  /\ NotTooLate(i)
  /\ \A d \in Dates : WithinBudget(i, d) /\ StillAhead(i, d)

ProcessInv == TypeOK /\ \A i \in Instances : InstanceInv(i)

\* What there is of an instance.
Local(i) ==
  <<setbacks[i], main[i], drain[i], stores[i], server[i], request[i], job[i], timer[i],
    since[i], runs[i]>>

\* The times a date is concerned with.
LEMMA TimesOfDate ==
  ASSUME NEW d \in Dates
  PROVE  /\ d \in Int /\ d + 1 \in Int /\ d + 2 \in Int
         /\ RunTime(d) \in Int
         /\ RunTime(d + 1) = RunTime(d) + DayLength
         /\ RunTime(d + 2) = RunTime(d) + 2 * DayLength
         /\ DayLength \in Nat /\ RunAt \in Nat /\ MaxLag \in Nat
         /\ RunAt > 0 /\ RunAt + MaxLag < DayLength
         /\ RunTime(d) >= RunAt - DayLength
<1>1. d \in Int /\ d + 1 \in Int /\ d + 2 \in Int /\ (d + 1) + 1 = d + 2 /\ d >= -1
  BY ProcessAssumption DEF Dates
<1>2. /\ DayLength \in Nat /\ RunAt \in Nat /\ MaxLag \in Nat
      /\ RunAt > 0 /\ RunAt + MaxLag < DayLength
  BY ProcessAssumption
<1>3. RunTime(d) \in Int /\ RunTime(d + 1) = RunTime(d) + DayLength
  BY <1>1, RunTimesApart
<1>4. RunTime((d + 1) + 1) = RunTime(d + 1) + DayLength
  BY <1>1, RunTimesApart
<1>5. RunTime(d) >= RunAt - DayLength
  <2>1. CASE d = -1
    BY <1>2, <2>1 DEF RunTime
  <2>2. CASE d >= 0
    <3>1. d * DayLength >= 0
      BY <1>1, <1>2, <2>2
    <3>2. QED
      BY <1>1, <1>2, <3>1 DEF RunTime
  <2>3. QED
    BY <1>1, <2>1, <2>2
<1>6. QED
  BY <1>1, <1>2, <1>3, <1>4, <1>5

\* The values of an instance's variables.
LEMMA TypesOfInstance ==
  ASSUME TypeOK, NEW i \in Instances
  PROVE  /\ time \in Nat /\ setbacks[i] \in Nat /\ timer[i] \in Int /\ since[i] \in Int
         /\ drain[i] \in Nat /\ MaxLag \in Nat
         /\ Now(i) \in Int /\ Due(i) \in Int /\ Reads(i) \in Int
         /\ main[i] \in {"down", "up", "draining", "closing"}
         /\ job[i] \in {"schedule", "sleep", "running", "gone"}
         /\ runs[i] \in [Dates -> Nat]
<1>1. setbacks[i] \in 0 .. MaxSetBacks /\ MaxSetBacks \in Nat /\ MaxLag \in Nat
  BY ProcessAssumption DEF TypeOK
<1>2. QED
  BY <1>1 DEF TypeOK, Now, Due, Reads

LEMMA ProcessInvInit == ProcessInit => ProcessInv
<1>1. SUFFICES ASSUME ProcessInit PROVE ProcessInv
  OBVIOUS
<1>2. TypeOK
  BY <1>1, ProcessAssumption DEF ProcessInit, TypeOK
<1>3. ASSUME NEW i \in Instances PROVE InstanceInv(i)
  <2>1. Lifecycle(i) /\ NotTooLate(i)
    BY <1>1 DEF ProcessInit, Lifecycle, NotTooLate, InFlight
  <2>2. ASSUME NEW d \in Dates PROVE WithinBudget(i, d) /\ StillAhead(i, d)
    BY <1>1 DEF ProcessInit, WithinBudget, StillAhead
  <2>3. QED
    BY <2>1, <2>2 DEF InstanceInv
<1>4. QED
  BY <1>2, <1>3 DEF ProcessInv

\* What an instance is in does not change with the others.
LEMMA SameInstance ==
  ASSUME NEW i \in Instances, InstanceInv(i), UNCHANGED <<time, Local(i)>>
  PROVE  InstanceInv(i)'
<1>1. /\ UNCHANGED <<time, setbacks[i], main[i], drain[i], stores[i], server[i], request[i]>>
      /\ UNCHANGED <<job[i], timer[i], since[i], runs[i]>>
  BY DEF Local
<1>2. UNCHANGED <<InFlight(i), Due(i), Now(i), Reads(i)>>
  BY <1>1 DEF InFlight, Due, Now, Reads
<1>3. Lifecycle(i)' /\ NotTooLate(i)'
  BY <1>1, <1>2 DEF InstanceInv, Lifecycle, NotTooLate
<1>4. ASSUME NEW d \in Dates PROVE WithinBudget(i, d)' /\ StillAhead(i, d)'
  BY <1>1, <1>2 DEF InstanceInv, WithinBudget, StillAhead, RunTime
<1>5. QED
  BY <1>3, <1>4 DEF InstanceInv

\* What concerns a date is as it was when neither clock nor timer nor job moved.
LEMMA SameTimes ==
  ASSUME NEW i \in Instances, InstanceInv(i), NEW d \in Dates,
         UNCHANGED <<time, setbacks[i], runs[i]>>,
         job'[i] = "running" <=> job[i] = "running",
         job'[i] = "sleep" => job[i] = "sleep" /\ timer'[i] = timer[i],
         \/ UNCHANGED <<job[i], since[i]>> /\ (main'[i] = "up" => main[i] = "up")
         \/ main'[i] # "up"
  PROVE  WithinBudget(i, d)' /\ StillAhead(i, d)'
<1>1. WithinBudget(i, d) /\ StillAhead(i, d)
  BY DEF InstanceInv
<1>2. Now(i)' = Now(i) /\ Reads(i)' = Reads(i) /\ (job'[i] = "sleep" => Due(i)' = Due(i))
  BY DEF Now, Reads, Due
<1>3. QED
  BY <1>1, <1>2 DEF WithinBudget, StillAhead, RunTime

\* A step of the server or of main that leaves the clocks alone, and the job unless it ends.
ServiceNext(i) ==
  \/ ServerFails(i) \/ \E r \in Requests : Accept(i, r) \/ Answer(i, r)
  \/ Signal(i) \/ ShutdownReturns(i) \/ CloseStores(i) \/ JobStops(i) \/ Exit(i) \/ Crash(i)

LEMMA ServiceStep ==
  ASSUME TypeOK, NEW i \in Instances, InstanceInv(i), ServiceNext(i)
  PROVE  InstanceInv(i)'
<1>1. Lifecycle(i) /\ NotTooLate(i)
  BY DEF InstanceInv
<1>2. /\ UNCHANGED <<time, setbacks[i], runs[i], since[i]>>
      /\ job'[i] = "running" <=> job[i] = "running"
      /\ job'[i] = "sleep" => job[i] = "sleep" /\ timer'[i] = timer[i]
      /\ job'[i] = job[i] \/ main'[i] # "up"
      /\ main'[i] = "up" => main[i] = "up"
  <2>1. CASE \/ ServerFails(i) \/ \E r \in Requests : Accept(i, r) \/ Answer(i, r)
             \/ Signal(i) \/ ShutdownReturns(i) \/ CloseStores(i)
    BY <2>1
       DEF TypeOK, ServerFails, Accept, Answer, Signal, ShutdownReturns, CloseStores,
           clock, timing, service
  <2>2. CASE JobStops(i)
    BY <2>2 DEF TypeOK, JobStops, clock, service
  <2>3. CASE Exit(i) \/ Crash(i)
    BY <2>3 DEF TypeOK, Exit, Crash, End, clock
  <2>4. QED
    BY <2>1, <2>2, <2>3 DEF ServiceNext
<1>3. Lifecycle(i)'
  <2>1. ASSUME NEW r \in Requests, Accept(i, r) PROVE Lifecycle(i)'
    BY <1>1, <2>1 DEF Accept, Lifecycle
  <2>2. ASSUME NEW r \in Requests, Answer(i, r) PROVE Lifecycle(i)'
    <3>1. InFlight(i)' \subseteq InFlight(i)
      BY <2>2 DEF Answer, InFlight, TypeOK
    <3>2. UNCHANGED <<time, server, main, stores, drain>>
      BY <2>2 DEF Answer, clock
    <3>3. QED
      BY <1>1, <3>1, <3>2 DEF Lifecycle
  <2>3. CASE ServerFails(i)
    BY <1>1, <2>3 DEF TypeOK, Lifecycle, ServerFails, InFlight, clock
  <2>4. CASE Signal(i)
    BY <1>1, <2>4 DEF TypeOK, Lifecycle, Signal, InFlight, clock
  <2>5. CASE ShutdownReturns(i)
    BY <1>1, <2>5 DEF TypeOK, Lifecycle, ShutdownReturns, InFlight, clock, service
  <2>6. CASE CloseStores(i)
    BY <1>1, <2>6 DEF TypeOK, Lifecycle, CloseStores, InFlight, clock
  <2>7. CASE JobStops(i)
    BY <1>1, <2>7 DEF Lifecycle, JobStops, InFlight, clock, service
  <2>8. CASE Exit(i) \/ Crash(i)
    <3>1. ASSUME NEW r \in Requests PROVE request'[i][r] # "active"
      BY <2>8 DEF Exit, Crash, End, TypeOK
    <3>2. main'[i] = "down" /\ server'[i] = "closed"
      BY <2>8 DEF Exit, Crash, End, TypeOK
    <3>3. QED
      BY <3>1, <3>2 DEF Lifecycle, InFlight
  <2>9. QED
    BY <2>1, <2>2, <2>3, <2>4, <2>5, <2>6, <2>7, <2>8 DEF ServiceNext
<1>4. NotTooLate(i)'
  BY <1>1, <1>2 DEF NotTooLate
<1>5. ASSUME NEW d \in Dates PROVE WithinBudget(i, d)' /\ StillAhead(i, d)'
  BY <1>2, SameTimes
<1>6. QED
  BY <1>3, <1>4, <1>5 DEF InstanceInv

\* A process that starts has nothing to make up for but the runs still to come.
LEMMA StartStep ==
  ASSUME TypeOK, NEW i \in Instances, InstanceInv(i), Start(i)
  PROVE  InstanceInv(i)'
<1>1. /\ main[i] = "down" /\ job[i] = "gone"
      /\ main'[i] = "up" /\ stores'[i] = "open" /\ server'[i] = "serving"
      /\ job'[i] = "schedule" /\ since'[i] = Now(i)
      /\ UNCHANGED <<time, setbacks, drain, request, timer, runs>>
  BY DEF Start, TypeOK, clock
<1>2. Lifecycle(i)' /\ NotTooLate(i)'
  BY <1>1 DEF Lifecycle, NotTooLate
<1>3. Now(i)' = Now(i) /\ Reads(i) = Now(i) /\ Reads(i)' = Now(i)
  BY <1>1 DEF Now, Reads
<1>4. ASSUME NEW d \in Dates PROVE WithinBudget(i, d)' /\ StillAhead(i, d)'
  <2>1. WithinBudget(i, d)
    BY DEF InstanceInv
  <2>2. WithinBudget(i, d)'
    BY <1>1, <1>3, <2>1 DEF WithinBudget, RunTime
  <2>3. StillAhead(i, d)'
    BY <1>1, <1>3 DEF StillAhead, RunTime
  <2>4. QED
    BY <2>2, <2>3
<1>5. QED
  BY <1>2, <1>4 DEF InstanceInv

\* The timer is armed for the first 01:00 not past, the one an unsettled date waits for.
LEMMA ScheduleStep ==
  ASSUME TypeOK, NEW i \in Instances, InstanceInv(i), Schedule(i)
  PROVE  InstanceInv(i)'
<1>1. /\ timer'[i] = time + (NextRunTime(Now(i)) - Now(i))
      /\ job'[i] = "sleep" /\ job[i] = "schedule"
      /\ UNCHANGED <<time, setbacks, main, drain, stores, server, request, runs, since>>
  BY DEF Schedule, TypeOK, clock, service
<1>2. PICK e \in Int : /\ NextRunTime(Now(i)) = RunTime(e)
                       /\ Now(i) <= RunTime(e)
                       /\ RunTime(e - 1) < Now(i)
  BY TypesOfInstance, NextRunTimeFirst
<1>3. /\ time \in Nat /\ setbacks[i] \in Nat /\ Now(i) \in Int /\ MaxLag \in Nat
      /\ e - 1 \in Int /\ RunTime(e) \in Int /\ RunTime(e - 1) \in Int
  <2>1. e - 1 \in Int
    BY <1>2
  <2>2. QED
    BY <2>1, TypesOfInstance, RunTimesApart
<1>4. Due(i)' = RunTime(e) /\ time <= timer'[i]
  <2>1. timer'[i] = time + (RunTime(e) - (time - setbacks[i])) /\ time - setbacks[i] <= RunTime(e)
    BY <1>1, <1>2 DEF Now
  <2>2. Due(i)' = timer'[i] - setbacks[i]
    BY <1>1 DEF Due
  <2>3. QED
    BY <1>3, <2>1, <2>2
<1>5. Lifecycle(i)' /\ NotTooLate(i)'
  <2>1. Lifecycle(i)'
    BY <1>1 DEF InstanceInv, Lifecycle, InFlight
  <2>2. timer'[i] \in Int
    BY <1>1, <1>2, <1>3
  <2>3. QED
    BY <1>1, <1>3, <1>4, <2>1, <2>2 DEF NotTooLate
<1>6. Now(i)' = Now(i) /\ Reads(i) = Now(i) /\ Reads(i)' = Now(i)
  BY <1>1 DEF Now, Reads
<1>7. ASSUME NEW d \in Dates PROVE WithinBudget(i, d)' /\ StillAhead(i, d)'
  <2>1. WithinBudget(i, d) /\ StillAhead(i, d)
    BY DEF InstanceInv
  <2>2. /\ d \in Int /\ d + 1 \in Int /\ d + 2 \in Int /\ RunTime(d) \in Int
        /\ RunTime(d + 1) = RunTime(d) + DayLength
        /\ RunTime(d + 2) = RunTime(d) + 2 * DayLength
        /\ DayLength \in Nat /\ RunAt \in Nat /\ RunAt > 0 /\ RunAt < DayLength
    BY TimesOfDate
  <2>3. e <= d => RunTime(e) <= RunTime(d)
    BY <1>3, <2>2, RunTimesApart
  <2>4. e >= d + 1 => RunTime(e) >= RunTime(d + 1)
    BY <1>3, <2>2, RunTimesApart
  <2>5. e >= d + 2 => RunTime(e) >= RunTime(d + 2) /\ RunTime(e - 1) >= RunTime(d + 1)
    <3>1. ASSUME e >= d + 2 PROVE d + 1 < e /\ (d + 1 < e - 1 \/ d + 1 = e - 1)
      BY <3>1, <2>2
    <3>2. QED
      BY <1>3, <2>2, <3>1, RunTimesApart
  <2>6. e <= d \/ e = d + 1 \/ e >= d + 2
    BY <2>2
  <2>7. WithinBudget(i, d)'
    <3>1. /\ runs[i][d] <= 1 + setbacks[i]
          /\ Now(i) <= RunTime(d + 1) => runs[i][d] <= setbacks[i]
      BY <1>6, <2>1 DEF WithinBudget
    <3>2. RunTime(e) < RunTime(d + 2) - RunAt => Now(i) <= RunTime(d + 1)
      BY <1>2, <1>3, <2>2, <2>3, <2>5, <2>6
    <3>3. ~(RunTime(d) < RunTime(e) /\ RunTime(e) < RunTime(d + 1))
      BY <1>3, <2>2, <2>3, <2>4, <2>6
    <3>4. QED
      BY <1>1, <1>4, <1>6, <3>1, <3>2, <3>3 DEF WithinBudget, RunTime
  <2>8. StillAhead(i, d)'
    <3>1. main[i] = "up" /\ since[i] <= RunTime(d + 1) /\ runs[i][d] = 0
          => Now(i) <= RunTime(d + 1)
      BY <1>1, <1>6, <2>1 DEF StillAhead
    <3>2. Now(i) <= RunTime(d + 1) => RunTime(e) <= RunTime(d + 1)
      BY <1>2, <1>3, <2>2, <2>3, <2>5, <2>6
    <3>3. QED
      BY <1>1, <1>4, <3>1, <3>2 DEF StillAhead, RunTime
  <2>9. QED
    BY <2>7, <2>8
<1>8. QED
  BY <1>5, <1>7 DEF InstanceInv

\* Time that passes moves no date's run, and ends the runs that were under way.
LEMMA TickStep ==
  ASSUME TypeOK, NEW i \in Instances, InstanceInv(i), Tick
  PROVE  InstanceInv(i)'
<1>1. /\ time' = time + 1
      /\ job[i] # "schedule"
      /\ job[i] = "sleep" => time < timer[i] + MaxLag
      /\ job'[i] = (IF job[i] # "running" THEN job[i]
                    ELSE IF main[i] = "down" THEN "gone" ELSE "schedule")
      /\ UNCHANGED <<setbacks, main, drain, stores, server, request, timer, runs, since>>
  BY DEF Tick, service
<1>2. /\ time \in Nat /\ timer[i] \in Int /\ MaxLag \in Nat /\ setbacks[i] \in Nat
      /\ drain[i] \in Nat
  BY TypesOfInstance
<1>3. Lifecycle(i)'
  BY <1>1, <1>2 DEF InstanceInv, Lifecycle, InFlight
<1>4. NotTooLate(i)'
  BY <1>1, <1>2 DEF InstanceInv, NotTooLate
<1>5. /\ Now(i)' = Now(i) + 1 /\ Now(i) \in Int /\ Due(i)' = Due(i)
      /\ Reads(i)' = Now(i) + 1 /\ Reads(i) <= Now(i) + 1 /\ Reads(i) \in Int
      /\ job[i] = "running" => Reads(i) = Now(i) + 1
  <2>1. Now(i)' = Now(i) + 1 /\ Now(i) \in Int /\ Due(i)' = Due(i)
    BY <1>1, <1>2 DEF Now, Due
  <2>2. job'[i] # "running"
    BY <1>1
  <2>3. QED
    BY <2>1, <2>2 DEF Reads
<1>6. ASSUME NEW d \in Dates PROVE WithinBudget(i, d)' /\ StillAhead(i, d)'
  <2>1. WithinBudget(i, d) /\ StillAhead(i, d)
    BY DEF InstanceInv
  <2>2. RunTime(d + 1) \in Int /\ RunTime(d + 2) - RunAt \in Int
    BY TimesOfDate
  <2>3. job'[i] = "sleep" <=> job[i] = "sleep"
    BY <1>1
  <2>4. WithinBudget(i, d)'
    BY <1>1, <1>5, <2>1, <2>2, <2>3 DEF WithinBudget, RunTime
  <2>5. StillAhead(i, d)'
    BY <1>1, <1>5, <2>1, <2>2 DEF StillAhead, RunTime
  <2>6. QED
    BY <2>4, <2>5
<1>7. QED
  BY <1>3, <1>4, <1>6 DEF InstanceInv

\* A clock set back brings the timer's time forward, and makes room for one run more.
LEMMA SetBackStep ==
  ASSUME TypeOK, NEW i \in Instances, InstanceInv(i), SetBack(i)
  PROVE  InstanceInv(i)'
<1>1. /\ setbacks'[i] = setbacks[i] + 1
      /\ UNCHANGED <<time, main, drain, stores, server, request, job, timer, runs, since>>
  BY DEF SetBack, TypeOK, service, timing
<1>2. /\ time \in Nat /\ timer[i] \in Int /\ MaxLag \in Nat /\ setbacks[i] \in Nat
      /\ Now(i) \in Int /\ Due(i) \in Int /\ Reads(i) \in Int
  BY TypesOfInstance
<1>3. Lifecycle(i)' /\ NotTooLate(i)'
  BY <1>1 DEF InstanceInv, Lifecycle, NotTooLate, InFlight
<1>4. /\ Due(i)' = Due(i) - 1 /\ Now(i)' = Now(i) - 1 /\ Reads(i)' = Reads(i) - 1
      /\ job[i] = "sleep" => Now(i) <= Due(i) + MaxLag
  <2>1. Due(i)' = Due(i) - 1 /\ Now(i)' = Now(i) - 1
    BY <1>1, <1>2 DEF Due, Now
  <2>2. Reads(i)' = Reads(i) - 1
    BY <1>1, <1>2, <2>1 DEF Reads
  <2>3. job[i] = "sleep" => Now(i) <= Due(i) + MaxLag
    BY <1>2 DEF InstanceInv, NotTooLate, Due, Now
  <2>4. QED
    BY <2>1, <2>2, <2>3
<1>5. ASSUME NEW d \in Dates PROVE WithinBudget(i, d)' /\ StillAhead(i, d)'
  <2>1. WithinBudget(i, d) /\ StillAhead(i, d)
    BY DEF InstanceInv
  <2>2. /\ RunTime(d) \in Int
        /\ RunTime(d + 1) = RunTime(d) + DayLength
        /\ RunTime(d + 2) = RunTime(d) + 2 * DayLength
        /\ DayLength \in Nat /\ RunAt \in Nat /\ RunAt > 0 /\ RunAt + MaxLag < DayLength
    BY TimesOfDate
  <2>3. runs[i][d] \in Nat
    BY TypesOfInstance
  <2>4. ASSUME job[i] = "sleep", RunTime(d) < Due(i) - 1, Due(i) - 1 < RunTime(d + 1)
        PROVE  runs[i][d] <= setbacks[i]
    <3>1. Due(i) < RunTime(d + 2) - RunAt /\ Now(i) < RunTime(d + 2) - RunAt
      BY <1>2, <1>4, <2>2, <2>4
    <3>2. QED
      BY <2>1, <2>4, <3>1 DEF WithinBudget
  <2>5. WithinBudget(i, d)'
    <3>1. runs[i][d] <= 1 + setbacks[i]
      BY <2>1 DEF WithinBudget
    <3>2. QED
      BY <1>1, <1>2, <1>4, <2>3, <2>4, <3>1 DEF WithinBudget, RunTime
  <2>6. StillAhead(i, d)'
    BY <1>1, <1>2, <1>4, <2>1, <2>2 DEF StillAhead, RunTime
  <2>7. QED
    BY <2>5, <2>6
<1>6. QED
  BY <1>3, <1>5 DEF InstanceInv

(***************************************************************************)
(* The timer fires and the day before is settled: once more than the       *)
(* budget allows only if the run came early, and then there is room.       *)
(***************************************************************************)
LEMMA RunStep ==
  ASSUME TypeOK, NEW i \in Instances, InstanceInv(i), Run(i)
  PROVE  InstanceInv(i)'
<1>1. /\ job[i] = "sleep" /\ timer[i] <= time /\ job'[i] = "running"
      /\ UNCHANGED <<time, setbacks, main, drain, stores, server, request, timer, since>>
  BY DEF Run, TypeOK, clock, service
<1>2. ASSUME NEW d \in Dates
      PROVE  runs'[i][d] = (IF d = DayOf(Now(i)) - 1 THEN runs[i][d] + 1 ELSE runs[i][d])
  <2>1. runs' = [runs EXCEPT ![i][DayOf(Now(i)) - 1] = @ + 1]
    BY DEF Run
  <2>2. runs'[i] = [runs[i] EXCEPT ![DayOf(Now(i)) - 1] = @ + 1]
    BY <2>1 DEF TypeOK
  <2>3. runs[i] \in [Dates -> Nat]
    BY TypesOfInstance
  <2>4. QED
    BY <2>2, <2>3
<1>3. /\ time \in Nat /\ timer[i] \in Int /\ MaxLag \in Nat /\ setbacks[i] \in Nat
      /\ Now(i) \in Int /\ Due(i) \in Int
  BY TypesOfInstance
<1>4. Lifecycle(i)' /\ NotTooLate(i)'
  BY <1>1 DEF InstanceInv, Lifecycle, NotTooLate, InFlight
<1>5. /\ Due(i) <= Now(i) /\ Now(i) <= Due(i) + MaxLag
      /\ Reads(i) = Now(i) /\ Reads(i)' = Now(i) + 1
  BY <1>1, <1>3 DEF InstanceInv, Due, Now, Reads, NotTooLate
<1>6. /\ DayOf(Now(i)) \in Int
      /\ RunTime(DayOf(Now(i))) - RunAt <= Now(i)
      /\ Now(i) < RunTime(DayOf(Now(i))) - RunAt + DayLength
  BY <1>3, DayBracket
<1>7. ASSUME NEW d \in Dates PROVE WithinBudget(i, d)' /\ StillAhead(i, d)'
  <2>1. WithinBudget(i, d) /\ StillAhead(i, d)
    BY DEF InstanceInv
  <2>2. /\ d \in Int /\ d + 1 \in Int /\ RunTime(d) \in Int
        /\ RunTime(d + 1) = RunTime(d) + DayLength
        /\ RunTime(d + 2) = RunTime(d) + 2 * DayLength
        /\ DayLength \in Nat /\ RunAt \in Nat /\ RunAt > 0 /\ RunAt + MaxLag < DayLength
    BY TimesOfDate
  <2>3. runs[i][d] \in Nat
    BY TypesOfInstance
  <2>4. CASE DayOf(Now(i)) = d + 1
    <3>1. runs'[i][d] = runs[i][d] + 1
      BY <1>2, <1>6, <2>2, <2>4
    <3>2. RunTime(d + 1) - RunAt <= Now(i) /\ Now(i) < RunTime(d + 2) - RunAt
      BY <1>6, <2>2, <2>4
    <3>3. runs[i][d] <= setbacks[i]
      BY <1>1, <1>3, <1>5, <2>1, <2>2, <3>2 DEF WithinBudget
    <3>4. Now(i) + 1 <= RunTime(d + 1) => runs[i][d] + 1 <= setbacks[i]
      <4>1. SUFFICES ASSUME Now(i) + 1 <= RunTime(d + 1) PROVE runs[i][d] + 1 <= setbacks[i]
        OBVIOUS
      <4>2. RunTime(d) < Due(i) /\ Due(i) < RunTime(d + 1)
        BY <1>3, <1>5, <2>2, <3>2, <4>1
      <4>3. QED
        BY <1>1, <2>1, <4>2 DEF WithinBudget
    <3>5. WithinBudget(i, d)'
      BY <1>1, <1>3, <1>5, <2>3, <3>1, <3>3, <3>4 DEF WithinBudget, RunTime
    <3>6. StillAhead(i, d)'
      BY <2>3, <3>1 DEF StillAhead
    <3>7. QED
      BY <3>5, <3>6
  <2>5. CASE DayOf(Now(i)) # d + 1
    <3>1. runs'[i][d] = runs[i][d]
      BY <1>2, <1>6, <2>2, <2>5
    <3>2. WithinBudget(i, d)'
      <4>1. /\ runs[i][d] <= 1 + setbacks[i]
            /\ Now(i) <= RunTime(d + 1) => runs[i][d] <= setbacks[i]
        BY <1>5, <2>1 DEF WithinBudget
      <4>2. RunTime(d + 1) \in Int
        BY <2>2
      <4>3. QED
        BY <1>1, <1>3, <1>5, <3>1, <4>1, <4>2 DEF WithinBudget, RunTime
    <3>3. Due(i) <= RunTime(d + 1) => Now(i) + 1 <= RunTime(d + 1)
      <4>1. SUFFICES ASSUME Due(i) <= RunTime(d + 1), DayOf(Now(i)) > d + 1 PROVE FALSE
        <5>1. ASSUME DayOf(Now(i)) < d + 1 PROVE Now(i) + 1 <= RunTime(d + 1)
          <6>1. /\ RunTime(DayOf(Now(i))) + DayLength <= RunTime(d + 1)
                /\ RunTime(DayOf(Now(i))) \in Int
            BY <1>6, <2>2, <5>1, RunTimesApart
          <6>2. QED
            BY <1>3, <1>6, <2>2, <6>1
        <5>2. QED
          BY <1>6, <2>2, <2>5, <4>1, <5>1
      <4>2. /\ RunTime(d + 1) + DayLength <= RunTime(DayOf(Now(i)))
            /\ RunTime(DayOf(Now(i))) \in Int
        BY <1>6, <2>2, <4>1, RunTimesApart
      <4>3. QED
        BY <1>3, <1>5, <1>6, <2>2, <4>1, <4>2
    <3>4. StillAhead(i, d)'
      BY <1>1, <1>5, <2>1, <3>1, <3>3 DEF StillAhead, RunTime
    <3>5. QED
      BY <3>2, <3>4
  <2>6. QED
    BY <2>4, <2>5
<1>8. QED
  BY <1>4, <1>7 DEF InstanceInv

\* The types, over a step of an instance.
LEMMA InstanceTypes ==
  ASSUME TypeOK, NEW i \in Instances, InstanceNext(i)
  PROVE  TypeOK'
<1>1. CASE Schedule(i)
  <2>1. NextRunTime(Now(i)) \in Int /\ Now(i) \in Int
    <3>1. Now(i) \in Int
      BY TypesOfInstance
    <3>2. PICK e \in Int : NextRunTime(Now(i)) = RunTime(e)
      BY <3>1, NextRunTimeFirst
    <3>3. QED
      BY <3>1, <3>2, RunTimesApart
  <2>2. time + (NextRunTime(Now(i)) - Now(i)) \in Int
    BY <2>1 DEF TypeOK
  <2>3. QED
    BY <1>1, <2>2 DEF TypeOK, Schedule, clock, service
<1>2. CASE Run(i)
  <2>1. runs'[i] \in [Dates -> Nat]
    <3>1. runs'[i] = [runs[i] EXCEPT ![DayOf(Now(i)) - 1] = @ + 1] /\ runs[i] \in [Dates -> Nat]
      BY <1>2 DEF Run, TypeOK
    <3>2. ASSUME NEW d \in Dates PROVE runs'[i][d] \in Nat
      <4>1. runs'[i][d] \in {runs[i][d], runs[i][d] + 1} /\ runs[i][d] \in Nat
        BY <3>1
      <4>2. QED
        BY <4>1
    <3>3. runs'[i] = [d \in Dates |-> runs'[i][d]]
      BY <3>1
    <3>4. QED
      BY <3>2, <3>3
  <2>2. runs' = [runs EXCEPT ![i] = runs'[i]]
    BY <1>2 DEF Run, TypeOK
  <2>3. runs' \in [Instances -> [Dates -> Nat]]
    BY <2>1, <2>2 DEF TypeOK
  <2>4. QED
    BY <1>2, <2>3 DEF TypeOK, Run, clock, service
<1>3. CASE ServerFails(i) \/ ShutdownReturns(i) \/ CloseStores(i) \/ JobStops(i)
  BY <1>3 DEF TypeOK, ServerFails, ShutdownReturns, CloseStores, JobStops, clock, service, timing
<1>4. ASSUME NEW r \in Requests, Accept(i, r) \/ Answer(i, r) PROVE TypeOK'
  <2>1. PICK v \in {"active", "answered"} : request' = [request EXCEPT ![i][r] = v]
    BY <1>4 DEF Accept, Answer
  <2>2. request' \in [Instances -> [Requests -> {"none", "active", "answered", "cut"}]]
    BY <2>1 DEF TypeOK
  <2>3. UNCHANGED <<clock, main, drain, stores, server, timing, since, starts>>
    BY <1>4 DEF Accept, Answer
  <2>4. QED
    BY <2>2, <2>3 DEF TypeOK, clock, timing
<1>5. CASE Start(i)
  BY <1>5, TypesOfInstance, ProcessAssumption DEF TypeOK, Start, clock
<1>6. CASE Signal(i)
  BY <1>6, ProcessAssumption DEF TypeOK, Signal, clock, timing
<1>7. CASE Exit(i) \/ Crash(i)
  <2>1. request'[i] \in [Requests -> {"none", "active", "answered", "cut"}]
    BY <1>7 DEF TypeOK, Exit, Crash, End
  <2>2. request' = [request EXCEPT ![i] = request'[i]]
    BY <1>7 DEF TypeOK, Exit, Crash, End
  <2>3. request' \in [Instances -> [Requests -> {"none", "active", "answered", "cut"}]]
    BY <2>1, <2>2 DEF TypeOK
  <2>4. /\ main' = [main EXCEPT ![i] = "down"] /\ stores' = [stores EXCEPT ![i] = "closed"]
        /\ server' = [server EXCEPT ![i] = "closed"]
        /\ drain' = [drain EXCEPT ![i] = 0] /\ timer' = [timer EXCEPT ![i] = 0]
        /\ job' = [job EXCEPT ![i] = IF @ = "running" THEN "running" ELSE "gone"]
        /\ UNCHANGED <<time, setbacks, runs, since, starts>>
    BY <1>7 DEF Exit, Crash, End, clock
  <2>5. job' \in [Instances -> {"schedule", "sleep", "running", "gone"}]
    <3>1. PICK v \in {"running", "gone"} : job' = [job EXCEPT ![i] = v]
      BY <2>4
    <3>2. QED
      BY <3>1 DEF TypeOK
  <2>6. /\ main' \in [Instances -> {"down", "up", "draining", "closing"}]
        /\ stores' \in [Instances -> {"open", "closed"}]
        /\ server' \in [Instances -> {"serving", "failed", "closed"}]
        /\ drain' \in [Instances -> Nat] /\ timer' \in [Instances -> Int]
    BY <2>4 DEF TypeOK
  <2>7. QED
    BY <2>3, <2>4, <2>5, <2>6 DEF TypeOK
<1>8. CASE SetBack(i)
  BY <1>8, ProcessAssumption DEF TypeOK, SetBack, service, timing
<1>9. QED
  BY <1>1, <1>2, <1>3, <1>4, <1>5, <1>6, <1>7, <1>8 DEF InstanceNext

\* A step of one instance leaves the time and the other instances alone.
LEMMA InstanceFrame ==
  ASSUME TypeOK, NEW i \in Instances, InstanceNext(i), NEW j \in Instances, j # i
  PROVE  UNCHANGED <<time, Local(j)>>
<1>1. CASE Schedule(i) \/ Run(i) \/ JobStops(i)
  BY <1>1 DEF TypeOK, Local, Schedule, Run, JobStops, clock, service
<1>2. CASE \/ ServerFails(i) \/ \E r \in Requests : Accept(i, r) \/ Answer(i, r)
           \/ Signal(i) \/ ShutdownReturns(i) \/ CloseStores(i)
  BY <1>2
     DEF TypeOK, Local, ServerFails, Accept, Answer, Signal, ShutdownReturns, CloseStores,
         clock, service, timing
<1>3. CASE Start(i) \/ SetBack(i)
  BY <1>3 DEF TypeOK, Local, Start, SetBack, clock, service, timing
<1>4. CASE Exit(i) \/ Crash(i)
  BY <1>4 DEF TypeOK, Local, Exit, Crash, End, clock
<1>5. QED
  BY <1>1, <1>2, <1>3, <1>4 DEF InstanceNext

LEMMA ProcessInvStep == ProcessInv /\ [ProcessNext]_processVars => ProcessInv'
<1>1. SUFFICES ASSUME ProcessInv, [ProcessNext]_processVars PROVE ProcessInv'
  OBVIOUS
<1>2. TypeOK /\ \A i \in Instances : InstanceInv(i)
  BY <1>1 DEF ProcessInv
<1>3. ASSUME UNCHANGED processVars PROVE ProcessInv'
  <2>1. /\ UNCHANGED <<time, setbacks, main, drain, stores, server, request, job, timer>>
        /\ UNCHANGED <<runs, since, starts>>
    BY <1>3 DEF processVars, clock, service, timing
  <2>2. TypeOK'
    BY <1>2, <2>1 DEF TypeOK
  <2>3. ASSUME NEW i \in Instances PROVE InstanceInv(i)'
    <3>1. UNCHANGED <<time, Local(i)>>
      BY <2>1 DEF Local
    <3>2. QED
      BY <1>2, <3>1, SameInstance
  <2>4. QED
    BY <2>2, <2>3 DEF ProcessInv
<1>4. CASE Tick
  <2>1. TypeOK'
    BY <1>2, <1>4 DEF TypeOK, Tick, service
  <2>2. ASSUME NEW i \in Instances PROVE InstanceInv(i)'
    BY <1>2, <1>4, TickStep
  <2>3. QED
    BY <2>1, <2>2 DEF ProcessInv
<1>5. ASSUME NEW i \in Instances, InstanceNext(i) PROVE ProcessInv'
  <2>1. TypeOK'
    BY <1>2, <1>5, InstanceTypes
  <2>2. InstanceInv(i)'
    <3>1. \/ Schedule(i) \/ Run(i) \/ Start(i) \/ SetBack(i) \/ ServiceNext(i)
      BY <1>5 DEF InstanceNext, ServiceNext
    <3>2. QED
      BY <1>2, <3>1, ServiceStep, StartStep, ScheduleStep, SetBackStep, RunStep
  <2>3. ASSUME NEW j \in Instances, j # i PROVE InstanceInv(j)'
    <3>1. UNCHANGED <<time, Local(j)>>
      BY <1>2, <1>5, <2>3, InstanceFrame
    <3>2. QED
      BY <1>2, <3>1, SameInstance
  <2>4. QED
    BY <2>1, <2>2, <2>3 DEF ProcessInv
<1>6. QED
  BY <1>1, <1>3, <1>4, <1>5 DEF ProcessNext, Finished

\* The invariant of the processes holds in every reachable state.
THEOREM ProcessInvariant == ProcessSpec => []ProcessInv
<1>1. QED
  BY ProcessInvInit, ProcessInvStep, PTL DEF ProcessSpec

(***************************************************************************)
(* One instance settles a date once, and once more at most for each time   *)
(* its clock was set back: SettlementJob's timer                           *)
(* (platform/settlement_job.go), over any number of days and set-backs and *)
(* of processes the instance goes through.  It says nothing of two         *)
(* instances: each of them settles the date.                               *)
(***************************************************************************)
THEOREM SettledOncePerInstanceAlways == ProcessSpec => []SettledOncePerInstance
<1>1. ProcessInv => SettledOncePerInstance
  BY DEF ProcessInv, InstanceInv, WithinBudget, SettledOncePerInstance
<1>2. QED
  BY <1>1, ProcessInvariant, PTL

(***************************************************************************)
(* A process that was up at 01:00 has settled the day before within the    *)
(* timer's lag, whatever is done to its wall clock.                        *)
(***************************************************************************)
THEOREM NoDateLeftOut == ProcessSpec => []NoDayLeftOut
<1>1. ASSUME ProcessInv PROVE NoDayLeftOut
  <2>1. SUFFICES ASSUME NEW i \in Instances, main[i] = "up", NEW d \in Dates,
                        since[i] <= RunTime(d + 1), RunTime(d + 1) + MaxLag < Now(i),
                        runs[i][d] = 0
                 PROVE  FALSE
    <3>1. runs \in [Instances -> [Dates -> Nat]]
      BY <1>1 DEF ProcessInv, TypeOK
    <3>2. QED
      BY <3>1 DEF NoDayLeftOut
  <2>2. /\ time \in Nat /\ timer[i] \in Int /\ setbacks[i] \in Nat /\ MaxLag \in Nat
        /\ Now(i) \in Int /\ RunTime(d + 1) \in Int
    BY <1>1, TimesOfDate, TypesOfInstance DEF ProcessInv
  <2>3. InstanceInv(i)
    BY <1>1 DEF ProcessInv
  <2>4. CASE job[i] = "sleep" /\ Due(i) <= RunTime(d + 1)
    BY <2>1, <2>2, <2>3, <2>4 DEF InstanceInv, NotTooLate, Due, Now
  <2>5. CASE Reads(i) <= RunTime(d + 1)
    BY <2>1, <2>2, <2>5 DEF Reads
  <2>6. QED
    BY <2>1, <2>3, <2>4, <2>5 DEF InstanceInv, StillAhead
<1>2. QED
  BY <1>1, ProcessInvariant, PTL

(***************************************************************************)
(* No request finds the stores closed unless it had all the time that      *)
(* Shutdown gives it (cmd/billing/main.go).                                *)
(***************************************************************************)
THEOREM StoresOutliveRequests == ProcessSpec => []DrainedBeforeClosing
<1>1. ASSUME ProcessInv, NEW i \in Instances, InFlight(i) # {}, stores[i] = "closed"
      PROVE  drain[i] <= time
  <2>1. Lifecycle(i) /\ main[i] \in {"down", "up", "draining", "closing"}
    BY <1>1 DEF ProcessInv, InstanceInv, TypeOK
  <2>2. QED
    BY <1>1, <2>1 DEF Lifecycle
<1>2. ProcessInv => DrainedBeforeClosing
  BY <1>1 DEF DrainedBeforeClosing
<1>3. QED
  BY <1>2, ProcessInvariant, PTL
==============================================================================
