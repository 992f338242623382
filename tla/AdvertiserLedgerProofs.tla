------------------------ MODULE AdvertiserLedgerProofs ------------------------
(***************************************************************************)
(* The promises of AdvertiserLedger hold for every set of advertisers,     *)
(* calls and amounts and every grid of rounding.                           *)
(***************************************************************************)
EXTENDS AdvertiserLedger, AmountProofs, TLAPS

\* A row whose columns no sequence of operations has taken below zero.
SolventRow == [exists : BOOLEAN, balance : Nat, recharged : Nat, spent : Nat]

RowDrift(r) == r.balance + r.spent - r.recharged

\* What holds of one account and its journal, and every operation preserves.
Sound(r, entries) ==
  /\ r \in SolventRow
  /\ ~r.exists => r = NoRow
  /\ entries \in Seq(Entry)
  /\ RowDrift(r) \in 0 .. Len(entries)
  /\ Grid = 1 => RowDrift(r) = 0
  /\ Chained(entries, r.balance)

\* The inductive invariant of LedgerSpec.
LedgerInv ==
  /\ acct \in [Advertisers -> Row]
  /\ ledger \in [Advertisers -> Seq(Entry)]
  /\ \A a \in Advertisers : Sound(acct[a], ledger[a])

------------------------------------------------------------------------------
\* Appending an entry that explains the new balance keeps the journal chained.
LEMMA ChainAppend ==
  ASSUME NEW entries \in Seq(Entry), NEW e \in Entry, NEW b,
         Chained(entries, b), Explains(b, e)
  PROVE  Chained(Append(entries, e), e.after)
<1> DEFINE longer == Append(entries, e)
<1>1. /\ longer \in Seq(Entry)
      /\ Len(longer) = Len(entries) + 1
      /\ Len(entries) \in Nat
      /\ \A i \in 1 .. Len(entries) : longer[i] = entries[i]
      /\ longer[Len(entries) + 1] = e
  OBVIOUS
<1>2. b = Before(entries, Len(entries) + 1)
  BY DEF Chained
<1>3. \A i \in 1 .. Len(entries) + 1 : Before(longer, i) = Before(entries, i)
  <2>1. TAKE i \in 1 .. Len(entries) + 1
  <2>2. i # 1 => i - 1 \in 1 .. Len(entries)
    BY <1>1
  <2>3. QED
    BY <1>1, <2>2 DEF Before
<1> HIDE DEF longer
<1>4. ASSUME NEW i \in 1 .. Len(longer)
      PROVE  Explains(Before(longer, i), longer[i])
  <2>1. CASE i \in 1 .. Len(entries)
    <3>1. Explains(Before(entries, i), entries[i])
      BY <2>1 DEF Chained
    <3>2. QED
      BY <2>1, <3>1, <1>1, <1>3
  <2>2. CASE i = Len(entries) + 1
    BY <2>2, <1>1, <1>2, <1>3
  <2>3. QED
    BY <2>1, <2>2, <1>1
<1>5. e.after = Before(longer, Len(longer) + 1)
  BY <1>1 DEF Before
<1>6. Chained(longer, e.after)
  BY <1>4, <1>5 DEF Chained
<1>7. QED
  BY <1>6 DEF longer

\* A recharge adds the rounded amount to balance and total_recharge alike.
LEMMA RechargedRow ==
  ASSUME NEW r \in SolventRow, NEW amt \in Nat
  PROVE  Recharged(r, amt) = [exists    |-> TRUE,
                              balance   |-> r.balance + Stored(amt),
                              recharged |-> r.recharged + Stored(amt),
                              spent     |-> r.spent]
<1>1. r.balance \in Nat /\ r.recharged \in Nat
  BY DEF SolventRow
<1>2. /\ Stored(Grains(r.balance) + amt) = r.balance + Stored(amt)
      /\ Stored(Grains(r.recharged) + amt) = r.recharged + Stored(amt)
  BY <1>1, StoredAdd
<1>3. QED
  BY <1>2 DEF Recharged

\* A recharge of a sound account leaves it sound.
LEMMA SoundRecharge ==
  ASSUME NEW r, NEW entries, Sound(r, entries),
         NEW c \in Calls, NEW amt \in Nat
  PROVE  Sound(Recharged(r, amt),
               Append(entries, RechargeEntry(c, Recharged(r, amt), amt)))
<1> DEFINE s == Recharged(r, amt)
           e == RechargeEntry(c, s, amt)
           q == Stored(amt)
<1>1. r \in SolventRow /\ entries \in Seq(Entry) /\ Chained(entries, r.balance)
  BY DEF Sound
<1>2. q \in Nat
  BY StoredNat
<1>3. s = [exists |-> TRUE, balance |-> r.balance + q,
           recharged |-> r.recharged + q, spent |-> r.spent]
  BY <1>1, RechargedRow
<1>4. s \in SolventRow
  BY <1>1, <1>2, <1>3 DEF SolventRow
<1>5. RowDrift(s) = RowDrift(r)
  BY <1>1, <1>2, <1>3 DEF SolventRow, RowDrift
<1>6. e = [call |-> c, type |-> "recharge", amount |-> q, after |-> s.balance]
  BY DEF RechargeEntry
<1> HIDE DEF s, q, e
<1>7. e \in Entry
  BY <1>2, <1>4, <1>6 DEF Entry, TxTypes, SolventRow
<1>8. Explains(r.balance, e)
  BY <1>1, <1>2, <1>3, <1>6 DEF Explains, SolventRow
<1>9. Append(entries, e) \in Seq(Entry) /\ Len(Append(entries, e)) = Len(entries) + 1
  BY <1>1, <1>7
<1>10. Chained(Append(entries, e), s.balance)
  BY <1>1, <1>6, <1>7, <1>8, ChainAppend
<1>11. RowDrift(s) \in 0 .. Len(Append(entries, e)) /\ (Grid = 1 => RowDrift(s) = 0)
  BY <1>1, <1>5, <1>9 DEF Sound
<1>12. Sound(s, Append(entries, e))
  BY <1>3, <1>4, <1>9, <1>10, <1>11 DEF Sound
<1>13. QED
  BY <1>12 DEF s, e

\* A spend the balance covers leaves a sound account sound.
LEMMA SoundSpend ==
  ASSUME NEW r, NEW entries, Sound(r, entries),
         NEW c \in Calls, NEW amt \in Nat, amt > 0, r.exists, Affordable(r, amt)
  PROVE  Sound(Debited(r, amt),
               Append(entries, SpendEntry(c, Debited(r, amt), amt)))
<1> DEFINE s == Debited(r, amt)
           e == SpendEntry(c, s, amt)
           q == Stored(amt)
           n == Stored(Grains(r.balance) - amt)
<1>1. /\ r \in SolventRow /\ r.balance \in Nat /\ r.spent \in Nat /\ r.recharged \in Nat
      /\ entries \in Seq(Entry) /\ Chained(entries, r.balance)
  BY DEF Sound, SolventRow
<1>2. q \in Nat
  BY StoredNat
<1>3. n \in Nat /\ n + q \in {r.balance, r.balance + 1}
  BY <1>1, StoredSub DEF Affordable
<1>4. Grid = 1 => n + q = r.balance
  <2>1. SUFFICES ASSUME Grid = 1 PROVE n + q = r.balance
    OBVIOUS
  <2>2. Grains(r.balance) - amt = r.balance - amt /\ r.balance - amt \in Nat
    BY <1>1, <2>1 DEF Grains, Affordable
  <2>3. n = r.balance - amt /\ q = amt
    BY <2>1, <2>2, StoredExact
  <2>4. QED
    BY <1>1, <2>3
<1>5. s = [exists |-> r.exists, balance |-> n,
           recharged |-> r.recharged, spent |-> r.spent + q]
  BY <1>1, StoredAdd DEF Debited
<1>6. e = [call |-> c, type |-> "spend", amount |-> -q, after |-> s.balance]
  BY StoredNeg DEF SpendEntry
<1> HIDE DEF s, q, e, n
<1>7. s \in SolventRow
  BY <1>1, <1>2, <1>3, <1>5 DEF SolventRow
<1>8. RowDrift(s) = RowDrift(r) + (n + q - r.balance)
  <2>1. s.balance = n /\ s.spent = r.spent + q /\ s.recharged = r.recharged
    BY <1>5
  <2>2. RowDrift(s) = n + (r.spent + q) - r.recharged
    BY <2>1 DEF RowDrift
  <2>3. RowDrift(r) = r.balance + r.spent - r.recharged
    BY DEF RowDrift
  <2>4. n \in Nat /\ q \in Nat /\ r.balance \in Nat /\ r.spent \in Nat /\ r.recharged \in Nat
    BY <1>1, <1>2, <1>3
  <2>5. QED
    BY <2>2, <2>3, <2>4
<1>9. e \in Entry
  BY <1>2, <1>7, <1>6 DEF Entry, TxTypes, SolventRow
<1>10. Explains(r.balance, e)
  <2>1. e.after - (r.balance + e.amount) = n + q - r.balance /\ e.type = "spend"
    BY <1>1, <1>2, <1>3, <1>5, <1>6
  <2>2. n + q - r.balance \in {0, 1} /\ (Grid = 1 => n + q - r.balance = 0)
    BY <1>1, <1>2, <1>3, <1>4
  <2>3. QED
    BY <2>1, <2>2, GridAssumption DEF Explains
<1>11. Append(entries, e) \in Seq(Entry) /\ Len(Append(entries, e)) = Len(entries) + 1
  BY <1>1, <1>9
<1>12. Chained(Append(entries, e), s.balance)
  BY <1>1, <1>6, <1>9, <1>10, ChainAppend
<1>13. RowDrift(s) \in 0 .. Len(Append(entries, e)) /\ (Grid = 1 => RowDrift(s) = 0)
  <2>1. RowDrift(r) \in 0 .. Len(entries) /\ (Grid = 1 => RowDrift(r) = 0)
    BY DEF Sound
  <2>2. Len(entries) \in Nat /\ Len(Append(entries, e)) = Len(entries) + 1
    BY <1>1, <1>11
  <2>3. n \in Nat /\ q \in Nat /\ r.balance \in Nat
    BY <1>1, <1>2, <1>3
  <2>4. n + q - r.balance \in {0, 1} /\ (Grid = 1 => n + q - r.balance = 0)
    BY <1>1, <1>2, <1>3, <1>4
  <2>5. QED
    BY <2>1, <2>2, <2>3, <2>4, <1>8
<1>14. Sound(s, Append(entries, e))
  BY <1>5, <1>7, <1>11, <1>12, <1>13 DEF Sound
<1>15. QED
  BY <1>14 DEF s, e

------------------------------------------------------------------------------
\* Empty tables are sound.
LEMMA LedgerInvInit == LedgerInit => LedgerInv
<1>1. NoRow \in Row /\ NoRow \in SolventRow /\ <<>> \in Seq(Entry)
  BY DEF NoRow, Row, SolventRow
<1>2. Sound(NoRow, <<>>)
  BY <1>1 DEF Sound, NoRow, RowDrift, Chained, Before
<1>3. QED
  BY <1>1, <1>2 DEF LedgerInit, LedgerInv

\* A sound account in the place of another leaves every account sound.
LEMMA SoundExcept ==
  ASSUME LedgerInv, NEW a \in Advertisers, NEW r, NEW entries, Sound(r, entries),
         acct' = [acct EXCEPT ![a] = r], ledger' = [ledger EXCEPT ![a] = entries]
  PROVE  LedgerInv'
<1>1. SolventRow \subseteq Row
  BY DEF SolventRow, Row
<1>2. QED
  BY <1>1 DEF LedgerInv, Sound

\* A recharge or a spend leaves every account sound, even of a call that has posted before.
LEMMA PostSound ==
  ASSUME LedgerInv, NEW c \in Calls, NEW a \in Advertisers, NEW amt \in Amounts, Post(c, a, amt)
  PROVE  LedgerInv'
<1>1. Sound(acct[a], ledger[a])
  BY DEF LedgerInv
<1>2. CASE Recharge(c, a, amt)
  <2>1. amt \in Nat
    BY <1>2, AmountsAssumption DEF Recharge
  <2>2. Sound(Recharged(acct[a], amt),
              Append(ledger[a], RechargeEntry(c, Recharged(acct[a], amt), amt)))
    BY <1>1, <2>1, SoundRecharge
  <2>3. QED
    BY <1>2, <2>2, SoundExcept DEF Recharge
<1>3. CASE Spend(c, a, amt)
  <2>1. amt \in Nat /\ amt > 0 /\ acct[a].exists /\ Affordable(acct[a], amt)
    BY <1>3, AmountsAssumption DEF Spend
  <2>2. Sound(Debited(acct[a], amt),
              Append(ledger[a], SpendEntry(c, Debited(acct[a], amt), amt)))
    BY <1>1, <2>1, SoundSpend
  <2>3. QED
    BY <1>3, <2>2, SoundExcept DEF Spend
<1>4. QED
  BY <1>2, <1>3 DEF Post

\* Every operation leaves every account sound.
LEMMA LedgerInvStep == LedgerInv /\ [LedgerNext]_ledgerVars => LedgerInv'
<1>1. SUFFICES ASSUME LedgerInv, [LedgerNext]_ledgerVars PROVE LedgerInv'
  OBVIOUS
<1>2. ASSUME NEW a \in Advertisers, Open(a) PROVE LedgerInv'
  <2>1. /\ Sound(acct[a], ledger[a]) /\ acct[a] = NoRow
        /\ ledger' = [ledger EXCEPT ![a] = ledger[a]]
    BY <1>1, <1>2 DEF LedgerInv, Open, Sound
  <2>2. /\ NewRow \in SolventRow /\ NewRow.exists
        /\ NewRow.balance = NoRow.balance /\ RowDrift(NewRow) = RowDrift(NoRow)
    BY DEF NewRow, NoRow, SolventRow, RowDrift
  <2>3. Sound(NewRow, ledger[a])
    BY <2>1, <2>2 DEF Sound
  <2>4. QED
    BY <1>1, <1>2, <2>1, <2>3, SoundExcept DEF Open
<1>3. CASE UNCHANGED ledgerVars
  BY <1>1, <1>3 DEF LedgerInv, ledgerVars
<1>4. QED
  BY <1>1, <1>2, <1>3, PostSound DEF LedgerNext

\* Every account stays sound, the fact from which all four promises follow.
THEOREM LedgerInvariant == LedgerSpec => []LedgerInv
<1>1. QED
  BY LedgerInvInit, LedgerInvStep, PTL DEF LedgerSpec

LEMMA LedgerInvImplies ==
  LedgerInv => LedgerTypeOK /\ NeverOverdrawn /\ Conservation /\ JournalChain
<1>1. SUFFICES ASSUME LedgerInv
               PROVE  LedgerTypeOK /\ NeverOverdrawn /\ Conservation /\ JournalChain
  OBVIOUS
<1>2. LedgerTypeOK
  BY <1>1 DEF LedgerInv, LedgerTypeOK
<1>3. ASSUME NEW a \in Advertisers
      PROVE  /\ acct[a].balance \in Nat
             /\ Drift(a) \in 0 .. Len(ledger[a])
             /\ Grid = 1 => Drift(a) = 0
             /\ Chained(ledger[a], acct[a].balance)
  <2>1. Sound(acct[a], ledger[a])
    BY <1>1 DEF LedgerInv
  <2>2. QED
    BY <2>1 DEF Sound, SolventRow, RowDrift, Drift
<1>4. QED
  BY <1>2, <1>3 DEF NeverOverdrawn, Conservation, JournalChain

\* The tables keep their types: every stored amount is a whole number of units.
THEOREM LedgerTypeCorrect == LedgerSpec => []LedgerTypeOK
<1>1. QED
  BY LedgerInvariant, LedgerInvImplies, PTL

\* No order of recharges and spends puts an advertiser in debt.
THEOREM LedgerNeverOverdrawn == LedgerSpec => []NeverOverdrawn
<1>1. QED
  BY LedgerInvariant, LedgerInvImplies, PTL

\* balance + total_spent gains on total_recharge at most a unit per spend.
THEOREM LedgerConservation == LedgerSpec => []Conservation
<1>1. QED
  BY LedgerInvariant, LedgerInvImplies, PTL

\* The journal read in id order accounts for every balance.
THEOREM LedgerJournalChain == LedgerSpec => []JournalChain
<1>1. QED
  BY LedgerInvariant, LedgerInvImplies, PTL
==============================================================================
