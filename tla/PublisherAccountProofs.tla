------------------------- MODULE PublisherAccountProofs -------------------------
(***************************************************************************)
(* The transactions of PublisherAccount lose no update, overdraw nobody    *)
(* and implement PublisherLedger, for any number of calls, publishers and  *)
(* reviewers, any pool of connections and any grid of rounding.            *)
(***************************************************************************)
EXTENDS PublisherAccount, AmountProofs

------------------------------------------------------------------------------
(* Rounding, below zero too: revenue_pending may be negative. *)

\* A rounded amount is a whole number of units, at most half a unit away.
LEMMA StoredNearest ==
  ASSUME NEW x \in Int
  PROVE  /\ Stored(x) \in Int
         /\ 2 * (Grid * Stored(x)) <= 2 * x + Grid
         /\ 2 * x <= 2 * (Grid * Stored(x)) + Grid
<1>1. Grid \in Nat /\ Grid > 0
  BY GridAssumption
<1>2. ASSUME NEW y \in Nat
      PROVE  /\ Stored(y) \in Int
             /\ 2 * (Grid * Stored(y)) <= 2 * y + Grid
             /\ 2 * y <= 2 * (Grid * Stored(y)) + Grid
  <2>1. /\ Stored(y) \in Nat
        /\ (2 * Grid) * Stored(y) <= 2 * y + Grid
        /\ 2 * y + Grid < (2 * Grid) * (Stored(y) + 1)
    BY StoredNat
  <2>2. PICK s \in Nat : s = Stored(y)
    BY <2>1
  <2>3. /\ (2 * Grid) * s = 2 * (Grid * s) /\ Grid * s \in Int
        /\ (2 * Grid) * (s + 1) = 2 * (Grid * s) + 2 * Grid
    BY <1>1
  <2>4. QED
    BY <1>1, <2>1, <2>2, <2>3
<1>3. CASE x >= 0
  BY <1>2, <1>3
<1>4. CASE x < 0
  <2>1. -x \in Nat /\ -x > 0 /\ -(-x) = x
    BY <1>4
  <2>2. /\ Stored(-x) \in Int
        /\ 2 * (Grid * Stored(-x)) <= 2 * (-x) + Grid
        /\ 2 * (-x) <= 2 * (Grid * Stored(-x)) + Grid
    BY <1>2, <2>1
  <2>3. Stored(x) = -Stored(-x)
    BY <2>1, StoredNeg
  <2>4. PICK s \in Int : s = Stored(-x)
    BY <2>2
  <2>5. Grid * (-s) = -(Grid * s) /\ Grid * s \in Int
    BY <1>1
  <2>6. QED
    BY <1>1, <2>2, <2>3, <2>4, <2>5
<1>5. QED
  BY <1>3, <1>4

\* Two amounts whose grains add up to whole units, or nearly so: the rounded ones
\* are off by at most a unit, and not at all when nothing was rough.
LEMMA RoundedSum ==
  ASSUME NEW x \in Int, NEW y \in Int, NEW m \in Int, x + y = Grains(m)
  PROVE  /\ Stored(x) + Stored(y) - m \in -1 .. 1
         /\ Stored(x) \in Int /\ Stored(y) \in Int
<1>1. Grid \in Nat /\ Grid > 0
  BY GridAssumption
<1>2. /\ Stored(x) \in Int /\ Stored(y) \in Int
      /\ 2 * (Grid * Stored(x)) <= 2 * x + Grid /\ 2 * x <= 2 * (Grid * Stored(x)) + Grid
      /\ 2 * (Grid * Stored(y)) <= 2 * y + Grid /\ 2 * y <= 2 * (Grid * Stored(y)) + Grid
  BY StoredNearest
<1>3. PICK d \in Int : d = Stored(x) + Stored(y) - m
  BY <1>2
<1>4. Grid * d = Grid * Stored(x) + Grid * Stored(y) - Grid * m
  BY <1>1, <1>2, <1>3
<1>5. /\ Grid * Stored(x) \in Int /\ Grid * Stored(y) \in Int /\ Grid * m \in Int
      /\ Grid * d \in Int /\ x + y = Grid * m
  BY <1>1, <1>2 DEF Grains
<1>6. Grid * d <= Grid /\ -Grid <= Grid * d
  BY <1>1, <1>2, <1>4, <1>5
<1>7. ~(d >= 2)
  <2>1. SUFFICES ASSUME d >= 2 PROVE FALSE
    OBVIOUS
  <2>2. Grid * (d - 2) >= 0 /\ Grid * d = Grid * (d - 2) + 2 * Grid
    BY <1>1, <2>1
  <2>3. QED
    BY <1>1, <1>6, <2>2
<1>8. ~(d <= -2)
  <2>1. SUFFICES ASSUME d <= -2 PROVE FALSE
    OBVIOUS
  <2>2. Grid * (-2 - d) >= 0 /\ Grid * d = -(Grid * (-2 - d)) - 2 * Grid
    BY <1>1, <2>1
  <2>3. QED
    BY <1>1, <1>6, <2>2
<1>9. QED
  BY <1>2, <1>3, <1>7, <1>8

\* Whole units are stored as they are.
LEMMA StoredWhole ==
  ASSUME NEW m \in Int
  PROVE  Stored(Grains(m)) = m
<1>1. Grid \in Nat /\ Grid > 0 /\ Grains(m) = Grid * m /\ Grid * m \in Int
  BY GridAssumption DEF Grains
<1>2. /\ Stored(Grains(m)) \in Int
      /\ 2 * (Grid * Stored(Grains(m))) <= 2 * (Grid * m) + Grid
      /\ 2 * (Grid * m) <= 2 * (Grid * Stored(Grains(m))) + Grid
  BY <1>1, StoredNearest
<1>3. PICK d \in Int : d = Stored(Grains(m)) - m
  BY <1>2
<1>4. Grid * d = Grid * Stored(Grains(m)) - Grid * m
      /\ Grid * Stored(Grains(m)) \in Int /\ Grid * d \in Int
  BY <1>1, <1>2, <1>3
<1>5. 2 * (Grid * d) <= Grid /\ -Grid <= 2 * (Grid * d)
  BY <1>1, <1>2, <1>4
<1>6. ~(d >= 1)
  <2>1. SUFFICES ASSUME d >= 1 PROVE FALSE
    OBVIOUS
  <2>2. Grid * (d - 1) >= 0 /\ Grid * d = Grid * (d - 1) + Grid
    BY <1>1, <2>1
  <2>3. QED
    BY <1>1, <1>5, <2>2
<1>7. ~(d <= -1)
  <2>1. SUFFICES ASSUME d <= -1 PROVE FALSE
    OBVIOUS
  <2>2. Grid * (-1 - d) >= 0 /\ Grid * d = -(Grid * (-1 - d)) - Grid
    BY <1>1, <2>1
  <2>3. QED
    BY <1>1, <1>5, <2>2
<1>8. QED
  BY <1>2, <1>3, <1>6, <1>7

\* An amount that is not rough is a whole number of units.
LEMMA NotRough ==
  ASSUME NEW amt \in Int
  PROVE  Rough(amt) \in {0, 1} /\ (Rough(amt) = 0 => \E k \in Int : amt = Grains(k))
<1>1. Grid \in Nat /\ Grid > 0
  BY GridAssumption
<1>2. CASE amt % Grid = 0
  <2>1. PICK k \in Int : k = amt \div Grid
    BY <1>1
  <2>2. amt = Grid * k + (amt % Grid)
    BY <1>1, <2>1
  <2>3. Grid * k \in Int /\ amt = Grains(k)
    BY <1>1, <1>2, <2>2 DEF Grains
  <2>4. QED
    BY <1>2, <2>3 DEF Rough
<1>3. CASE amt % Grid # 0
  BY <1>3 DEF Rough
<1>4. QED
  BY <1>2, <1>3

\* An amount moved from one column to another gains or loses a unit at most, and
\* nothing when it is whole.
LEMMA MovedAmount ==
  ASSUME NEW a \in Int, NEW b \in Int, NEW amt \in Int
  PROVE  /\ Stored(Grains(a) - amt) \in Int /\ Stored(Grains(b) + amt) \in Int
         /\ Stored(Grains(a) - amt) + Stored(Grains(b) + amt) - (a + b)
              \in -Rough(amt) .. Rough(amt)
<1>1. /\ Grid \in Nat /\ Grains(a) \in Int /\ Grains(b) \in Int
      /\ Grains(a) + Grains(b) = Grains(a + b)
  BY GridAssumption DEF Grains
<1>2. /\ Stored(Grains(a) - amt) + Stored(Grains(b) + amt) - (a + b) \in -1 .. 1
      /\ Stored(Grains(a) - amt) \in Int /\ Stored(Grains(b) + amt) \in Int
  <2>1. PICK x \in Int, y \in Int, m \in Int :
          x = Grains(a) - amt /\ y = Grains(b) + amt /\ m = a + b
    BY <1>1
  <2>2. x + y = Grains(m)
    BY <1>1, <2>1
  <2>3. QED
    BY <2>1, <2>2, RoundedSum
<1>3. CASE Rough(amt) = 1
  BY <1>2, <1>3
<1>4. CASE Rough(amt) = 0
  <2>1. PICK k \in Int : amt = Grains(k)
    BY <1>4, NotRough
  <2>2. Grains(a) - amt = Grains(a - k) /\ Grains(b) + amt = Grains(b + k)
    BY <1>1, <2>1 DEF Grains
  <2>3. Stored(Grains(a) - amt) = a - k /\ Stored(Grains(b) + amt) = b + k
    BY <2>2, StoredWhole
  <2>4. QED
    BY <1>4, <2>3
<1>5. QED
  BY <1>2, <1>3, <1>4, NotRough

------------------------------------------------------------------------------
(* The ledger. *)

RowSum(r) == r.pending + r.settled + r.withdrawn

\* What a row gains, beyond what was credited, when it is replaced.
Gains(r, s, units, amt) ==
  /\ s \in PubRow
  /\ RowSum(s) - RowSum(r) - units \in -Rough(amt) .. Rough(amt)

\* Revenue meets a pending column of either sign.
LEMMA RevenueGains ==
  ASSUME NEW r \in PubRow, NEW amt \in Int, amt > 0
  PROVE  Gains(r, AfterRevenue(r, amt), Stored(amt), amt) /\ Stored(amt) \in Int
<1>1. r.pending \in Int /\ r.settled \in Int /\ r.withdrawn \in Int
  BY DEF PubRow
<1>2. Stored(-amt) = -Stored(amt) /\ Stored(amt) \in Int
  BY StoredNeg, StoredNearest
<1>3. Grains(0) - amt = -amt
  BY GridAssumption DEF Grains
<1>4. /\ Stored(Grains(r.pending) + amt) \in Int
      /\ Stored(Grains(0) - amt) + Stored(Grains(r.pending) + amt) - (0 + r.pending)
           \in -Rough(amt) .. Rough(amt)
  BY <1>1, MovedAmount
<1>5. PICK q \in Int : q = Stored(Grains(r.pending) + amt)
  BY <1>4
<1>6. q - r.pending - Stored(amt) \in -Rough(amt) .. Rough(amt)
  BY <1>1, <1>2, <1>3, <1>4, <1>5, NotRough
<1>7. /\ AfterRevenue(r, amt) \in PubRow /\ AfterRevenue(r, amt).pending = q
      /\ AfterRevenue(r, amt).settled = r.settled
      /\ AfterRevenue(r, amt).withdrawn = r.withdrawn
  BY <1>5 DEF AfterRevenue, PubRow
<1>8. RowSum(AfterRevenue(r, amt)) - RowSum(r) - Stored(amt) = q - r.pending - Stored(amt)
  BY <1>1, <1>2, <1>7 DEF RowSum
<1>9. QED
  BY <1>2, <1>6, <1>7, <1>8 DEF Gains

\* A withdrawal moves an amount from settled to withdrawn.
LEMMA WithdrawGains ==
  ASSUME NEW r \in PubRow, NEW amt \in Int
  PROVE  Gains(r, AfterWithdraw(r, amt), 0, amt)
<1>1. r.pending \in Int /\ r.settled \in Int /\ r.withdrawn \in Int /\ r.exists \in BOOLEAN
  BY DEF PubRow
<1>2. PICK x \in Int, y \in Int :
        /\ x = Stored(Grains(r.settled) - amt) /\ y = Stored(Grains(r.withdrawn) + amt)
        /\ x + y - (r.settled + r.withdrawn) \in -Rough(amt) .. Rough(amt)
  BY <1>1, MovedAmount
<1>3. /\ AfterWithdraw(r, amt) \in PubRow
      /\ AfterWithdraw(r, amt).settled = x /\ AfterWithdraw(r, amt).withdrawn = y
      /\ AfterWithdraw(r, amt).pending = r.pending
  BY <1>2 DEF AfterWithdraw, PubRow
<1>4. RowSum(AfterWithdraw(r, amt)) - RowSum(r) - 0 = x + y - (r.settled + r.withdrawn)
  BY <1>1, <1>2, <1>3 DEF RowSum
<1>5. QED
  BY <1>2, <1>3, <1>4 DEF Gains

\* A settlement moves an amount from pending to settled.
LEMMA SettleGains ==
  ASSUME NEW r \in PubRow, NEW amt \in Int
  PROVE  Gains(r, AfterSettle(r, amt), 0, amt)
<1>1. r.pending \in Int /\ r.settled \in Int /\ r.withdrawn \in Int /\ r.exists \in BOOLEAN
  BY DEF PubRow
<1>2. PICK x \in Int, y \in Int :
        /\ x = Stored(Grains(r.pending) - amt) /\ y = Stored(Grains(r.settled) + amt)
        /\ x + y - (r.pending + r.settled) \in -Rough(amt) .. Rough(amt)
  BY <1>1, MovedAmount
<1>3. /\ AfterSettle(r, amt) \in PubRow
      /\ AfterSettle(r, amt).pending = x /\ AfterSettle(r, amt).settled = y
      /\ AfterSettle(r, amt).withdrawn = r.withdrawn
  BY <1>2 DEF AfterSettle, PubRow
<1>4. RowSum(AfterSettle(r, amt)) - RowSum(r) - 0 = x + y - (r.pending + r.settled)
  BY <1>1, <1>2, <1>3 DEF RowSum
<1>5. QED
  BY <1>2, <1>3, <1>4 DEF Gains

\* The inductive invariant of PubLedgerSpec.
PubLedgerInv ==
  /\ PubLedgerTypeOK
  /\ \A p \in Publishers : ~pub[p].exists => pub[p] = NoPubRow
  /\ RevenueConserved

\* The sum of the columns of a row.
LEMMA RowSumType == ASSUME NEW r \in PubRow PROVE RowSum(r) \in Int
BY DEF RowSum, PubRow

\* What a row has gained over what was credited.
LEMMA DriftOfRow ==
  ASSUME NEW r \in PubRow, NEW c \in Int
  PROVE  r.pending + r.settled + r.withdrawn - c = RowSum(r) - c
<1>1. PICK x \in Int, y \in Int, z \in Int :
        x = r.pending /\ y = r.settled /\ z = r.withdrawn
  BY DEF PubRow
<1>2. x + y + z - c = (x + y + z) - c
  OBVIOUS
<1>3. QED
  BY <1>1, <1>2 DEF RowSum

\* A call adds nothing or one to the rough amounts.
LEMMA RoughNat == ASSUME NEW amt \in Int PROVE Rough(amt) \in Nat
BY NotRough

\* One row is replaced by what an operation makes of it.
LEMMA RowStep ==
  ASSUME PubLedgerInv, NEW p \in Publishers, NEW amt \in Int,
         pub' \in [Publishers -> PubRow], credited' \in [Publishers -> Int],
         \A q \in Publishers \ {p} : pub'[q] = pub[q] /\ credited'[q] = credited[q],
         pub'[p].exists,
         Gains(pub[p], pub'[p], credited'[p] - credited[p], amt),
         rough' = [rough EXCEPT ![p] = rough[p] + Rough(amt)],
         journal' \in [Publishers -> Seq(Entry)],
         requests' \in [Calls -> Request \union {Null}]
  PROVE  PubLedgerInv'
<1>0. Rough(amt) \in Nat
  BY RoughNat
<1>1. /\ pub \in [Publishers -> PubRow] /\ credited \in [Publishers -> Int]
      /\ rough \in [Publishers -> Nat]
  BY DEF PubLedgerInv, PubLedgerTypeOK
<1>2. rough' \in [Publishers -> Nat] /\ rough'[p] = rough[p] + Rough(amt)
      /\ \A q \in Publishers \ {p} : rough'[q] = rough[q]
  BY <1>0, <1>1
<1>3. PubLedgerTypeOK'
  BY <1>2 DEF PubLedgerTypeOK
<1>4. ASSUME NEW q \in Publishers
      PROVE  /\ ~pub'[q].exists => pub'[q] = NoPubRow
             /\ PubDrift(q)' \in -rough'[q] .. rough'[q]
  <2>1. /\ PubDrift(q) \in -rough[q] .. rough[q]
        /\ ~pub[q].exists => pub[q] = NoPubRow
    BY DEF PubLedgerInv, RevenueConserved
  <2>2. CASE q = p
    <3>1. PICK before \in Int, now \in Int, c \in Int, d \in Int :
            /\ before = RowSum(pub[p]) /\ now = RowSum(pub'[p])
            /\ c = credited[p] /\ d = credited'[p]
      BY <1>1, RowSumType
    <3>2. PubDrift(p)' = now - d /\ PubDrift(p) = before - c
      <4>1. pub[p] \in PubRow /\ pub'[p] \in PubRow
        BY <1>1
      <4>2. PubDrift(p) = RowSum(pub[p]) - c
        BY <3>1, <4>1, DriftOfRow DEF PubDrift
      <4>3. PubDrift(p)' = RowSum(pub'[p]) - d
        BY <3>1, <4>1, DriftOfRow DEF PubDrift
      <4>4. QED
        BY <3>1, <4>2, <4>3
    <3>3. now - before - (d - c) \in -Rough(amt) .. Rough(amt)
      BY <3>1 DEF Gains
    <3>4. rough[p] \in Nat /\ before - c \in -rough[p] .. rough[p]
      BY <1>1, <2>1, <2>2, <3>2
    <3>5. now - d \in -(rough[p] + Rough(amt)) .. rough[p] + Rough(amt)
      <4>1. PICK m \in Nat, k \in Nat : m = rough[p] /\ k = Rough(amt)
        BY <1>0, <3>4
      <4>2. now - before - (d - c) \in -k .. k /\ before - c \in -m .. m
        BY <3>3, <3>4, <4>1
      <4>3. now - d \in -(m + k) .. m + k
        BY <4>2
      <4>4. QED
        BY <4>1, <4>3
    <3>6. QED
      BY <1>2, <2>2, <3>2, <3>5
  <2>3. CASE q # p
    <3>1. pub'[q] = pub[q] /\ credited'[q] = credited[q] /\ rough'[q] = rough[q]
      BY <1>2, <2>3
    <3>2. QED
      BY <2>1, <3>1 DEF PubDrift
  <2>4. QED
    BY <2>2, <2>3
<1>5. QED
  BY <1>3, <1>4 DEF PubLedgerInv, RevenueConserved

\* Empty tables satisfy the invariant.
LEMMA PubLedgerInvInit == PubLedgerInit => PubLedgerInv
<1>1. SUFFICES ASSUME PubLedgerInit PROVE PubLedgerInv
  OBVIOUS
<1>2. NoPubRow \in PubRow /\ <<>> \in Seq(Entry)
  BY DEF NoPubRow, PubRow
<1>3. PubLedgerTypeOK
  BY <1>1, <1>2 DEF PubLedgerInit, PubLedgerTypeOK
<1>4. QED
  BY <1>1, <1>3 DEF PubLedgerInit, PubLedgerInv, RevenueConserved, PubDrift, NoPubRow

\* The withdraw request and its approval are well typed.
LEMMA RequestTypes ==
  ASSUME NEW p \in Publishers, NEW amt \in Int
  PROVE  PendingRequest(p, amt) \in Request /\ PendingRequest(p, amt) # Null
<1>1. Stored(amt) \in Int
  BY StoredNearest
<1>2. PendingRequest(p, amt) \in Request
  BY <1>1 DEF PendingRequest, Request, Statuses
<1>3. QED
  BY <1>2, PublisherAssumption

\* An approval changes the status and the reviewer of a request, and nothing else.
LEMMA ApprovedType ==
  ASSUME NEW q \in Request, NEW r \in Reviewers
  PROVE  /\ Approved(q, r) \in Request /\ Approved(q, r) # Null
         /\ Approved(q, r).pub = q.pub /\ Approved(q, r).amount = q.amount
         /\ Approved(q, r).status = "approved" /\ Approved(q, r).reviewer = r
<1>1. /\ Approved(q, r) \in Request
      /\ Approved(q, r).pub = q.pub /\ Approved(q, r).amount = q.amount
      /\ Approved(q, r).status = "approved" /\ Approved(q, r).reviewer = r
  BY DEF Approved, Request, Statuses
<1>2. QED
  BY <1>1, PublisherAssumption

\* Every operation of the ledger preserves its invariant.
LEMMA PubLedgerInvStep == PubLedgerInv /\ [PubLedgerNext]_pubLedgerVars => PubLedgerInv'
<1>1. SUFFICES ASSUME PubLedgerInv, [PubLedgerNext]_pubLedgerVars PROVE PubLedgerInv'
  OBVIOUS
<1>2. /\ pub \in [Publishers -> PubRow] /\ journal \in [Publishers -> Seq(Entry)]
      /\ requests \in [Calls -> Request \union {Null}]
      /\ credited \in [Publishers -> Int] /\ rough \in [Publishers -> Nat]
      /\ Amounts \subseteq Int
  BY <1>1, PublisherAssumption DEF PubLedgerInv, PubLedgerTypeOK
<1>3. ASSUME NEW p \in Publishers, OpenPub(p) PROVE PubLedgerInv'
  <2>0. PICK z \in Int : z = 0
    OBVIOUS
  <2>1. pub[p] = NoPubRow /\ Rough(z) = 0
    BY <1>1, <1>3, <2>0, GridAssumption DEF OpenPub, PubLedgerInv, Rough
  <2>2. Gains(pub[p], NewPubRow, z, z)
    BY <2>0, <2>1 DEF Gains, RowSum, NewPubRow, NoPubRow, PubRow
  <2>3. NewPubRow.exists
    BY DEF NewPubRow
  <2>4. /\ pub' = [pub EXCEPT ![p] = NewPubRow] /\ NewPubRow \in PubRow
        /\ UNCHANGED <<journal, requests, credited, rough>>
    BY <1>3 DEF OpenPub, NewPubRow, PubRow
  <2>5. /\ pub' \in [Publishers -> PubRow] /\ pub'[p] = NewPubRow
        /\ \A q \in Publishers \ {p} : pub'[q] = pub[q]
        /\ credited'[p] - credited[p] = z
        /\ rough' = [rough EXCEPT ![p] = rough[p] + Rough(z)]
    BY <1>2, <2>0, <2>1, <2>4
  <2>6. /\ pub'[p].exists /\ Gains(pub[p], pub'[p], credited'[p] - credited[p], z)
        /\ credited' \in [Publishers -> Int] /\ journal' \in [Publishers -> Seq(Entry)]
        /\ requests' \in [Calls -> Request \union {Null}]
        /\ \A q \in Publishers \ {p} : pub'[q] = pub[q] /\ credited'[q] = credited[q]
    BY <1>2, <2>2, <2>3, <2>4, <2>5
  <2>7. QED
    BY <1>1, <2>0, <2>5, <2>6, RowStep
<1>4. ASSUME NEW c \in Calls, NEW p \in Publishers, NEW amt \in Amounts, Credit(c, p, amt)
      PROVE  PubLedgerInv'
  <2>1. amt \in Int /\ amt > 0 /\ pub[p] \in PubRow
    BY <1>2, <1>4 DEF Credit
  <2>2. Gains(pub[p], AfterRevenue(pub[p], amt), Stored(amt), amt) /\ Stored(amt) \in Int
    BY <2>1, RevenueGains
  <2>3. AfterRevenue(pub[p], amt).exists
    BY <2>1 DEF AfterRevenue, PubRow
  <2>4. RevenueEntry(c, AfterRevenue(pub[p], amt), amt) \in Entry
    BY <2>2 DEF Gains, RevenueEntry, Entry, PubRow
  <2>5. journal' \in [Publishers -> Seq(Entry)]
    BY <1>2, <1>4, <2>4 DEF Credit
  <2>6. /\ pub' = [pub EXCEPT ![p] = AfterRevenue(pub[p], amt)]
        /\ credited' = [credited EXCEPT ![p] = credited[p] + Stored(amt)]
        /\ rough' = [rough EXCEPT ![p] = rough[p] + Rough(amt)]
        /\ requests' = requests
        /\ AfterRevenue(pub[p], amt) \in PubRow
    BY <1>4, <2>2 DEF Credit, Gains
  <2>7. /\ pub' \in [Publishers -> PubRow] /\ pub'[p] = AfterRevenue(pub[p], amt)
        /\ credited' \in [Publishers -> Int] /\ credited'[p] - credited[p] = Stored(amt)
        /\ \A q \in Publishers \ {p} : pub'[q] = pub[q] /\ credited'[q] = credited[q]
    BY <1>2, <2>2, <2>6
  <2>8. /\ pub'[p].exists /\ requests' \in [Calls -> Request \union {Null}]
        /\ Gains(pub[p], pub'[p], credited'[p] - credited[p], amt)
    BY <1>2, <2>2, <2>3, <2>6, <2>7
  <2>9. QED
    BY <1>1, <2>1, <2>5, <2>6, <2>7, <2>8, RowStep
<1>5. ASSUME NEW w \in Calls, NEW p \in Publishers, NEW amt \in Amounts, Withdraw(w, p, amt)
      PROVE  PubLedgerInv'
  <2>1. amt \in Int /\ pub[p] \in PubRow /\ pub[p].exists
    BY <1>2, <1>5 DEF Withdraw
  <2>2. Gains(pub[p], AfterWithdraw(pub[p], amt), 0, amt)
    BY <2>1, WithdrawGains
  <2>3. AfterWithdraw(pub[p], amt).exists
    BY <2>1 DEF AfterWithdraw, PubRow
  <2>4. requests' \in [Calls -> Request \union {Null}]
    BY <1>2, <1>5, <2>1, RequestTypes DEF Withdraw
  <2>5. /\ pub' = [pub EXCEPT ![p] = AfterWithdraw(pub[p], amt)]
        /\ rough' = [rough EXCEPT ![p] = rough[p] + Rough(amt)]
        /\ UNCHANGED <<journal, credited>>
        /\ AfterWithdraw(pub[p], amt) \in PubRow
    BY <1>5, <2>2 DEF Withdraw, Gains
  <2>6. /\ pub' \in [Publishers -> PubRow] /\ pub'[p] = AfterWithdraw(pub[p], amt)
        /\ \A q \in Publishers \ {p} : pub'[q] = pub[q]
        /\ credited'[p] - credited[p] = 0
    BY <1>2, <2>5
  <2>7. /\ pub'[p].exists /\ Gains(pub[p], pub'[p], credited'[p] - credited[p], amt)
        /\ credited' \in [Publishers -> Int] /\ journal' \in [Publishers -> Seq(Entry)]
        /\ \A q \in Publishers \ {p} : pub'[q] = pub[q] /\ credited'[q] = credited[q]
    BY <1>2, <2>2, <2>3, <2>5, <2>6
  <2>8. QED
    BY <1>1, <2>1, <2>4, <2>5, <2>6, <2>7, RowStep
<1>6. ASSUME NEW p \in Publishers, NEW amt \in Amounts, Settle(p, amt)
      PROVE  PubLedgerInv'
  <2>1. amt \in Int /\ pub[p] \in PubRow /\ pub[p].exists
    BY <1>2, <1>6 DEF Settle
  <2>2. Gains(pub[p], AfterSettle(pub[p], amt), 0, amt)
    BY <2>1, SettleGains
  <2>3. AfterSettle(pub[p], amt).exists
    BY <2>1 DEF AfterSettle, PubRow
  <2>4. /\ pub' = [pub EXCEPT ![p] = AfterSettle(pub[p], amt)]
        /\ rough' = [rough EXCEPT ![p] = rough[p] + Rough(amt)]
        /\ UNCHANGED <<journal, requests, credited>>
        /\ AfterSettle(pub[p], amt) \in PubRow
    BY <1>6, <2>2 DEF Settle, Gains
  <2>5. /\ pub' \in [Publishers -> PubRow] /\ pub'[p] = AfterSettle(pub[p], amt)
        /\ \A q \in Publishers \ {p} : pub'[q] = pub[q]
        /\ credited'[p] - credited[p] = 0
    BY <1>2, <2>4
  <2>6. /\ pub'[p].exists /\ Gains(pub[p], pub'[p], credited'[p] - credited[p], amt)
        /\ credited' \in [Publishers -> Int] /\ journal' \in [Publishers -> Seq(Entry)]
        /\ requests' \in [Calls -> Request \union {Null}]
        /\ \A q \in Publishers \ {p} : pub'[q] = pub[q] /\ credited'[q] = credited[q]
    BY <1>2, <2>2, <2>3, <2>4, <2>5
  <2>7. QED
    BY <1>1, <2>1, <2>4, <2>5, <2>6, RowStep
<1>7. ASSUME NEW w \in Calls, NEW r \in Reviewers, Approve(w, r) PROVE PubLedgerInv'
  <2>1. requests[w] \in Request /\ requests' = [requests EXCEPT ![w] = Approved(requests[w], r)]
    BY <1>2, <1>7 DEF Approve, HasStatus, InTable
  <2>2. requests' \in [Calls -> Request \union {Null}]
    BY <1>2, <2>1, ApprovedType
  <2>3. QED
    BY <1>1, <1>2, <1>7, <2>2
       DEF Approve, PubLedgerInv, PubLedgerTypeOK, RevenueConserved, PubDrift
<1>8. CASE UNCHANGED pubLedgerVars
  BY <1>1, <1>8 DEF pubLedgerVars, PubLedgerInv, PubLedgerTypeOK, RevenueConserved, PubDrift
<1>9. QED
  BY <1>1, <1>3, <1>4, <1>5, <1>6, <1>7, <1>8 DEF PubLedgerNext

\* In the atomic ledger revenue only moves between columns, up to a unit for each
\* amount no column can hold, for amounts of either sign.
THEOREM LedgerConservesRevenue == PubLedgerSpec => [](PubLedgerTypeOK /\ RevenueConserved)
<1>1. PubLedgerSpec => []PubLedgerInv
  BY PubLedgerInvInit, PubLedgerInvStep, PTL DEF PubLedgerSpec
<1>2. PubLedgerInv => PubLedgerTypeOK /\ RevenueConserved
  BY DEF PubLedgerInv
<1>3. QED
  BY <1>1, <1>2, PTL

------------------------------------------------------------------------------
(* What is withdrawn and what is requested. *)

\* The columns revenue_withdrawn and the requests on file agree.
ReservedInv ==
  \A p \in Publishers :
    /\ IsFiniteSet(RequestsOf(p))
    /\ pub[p].withdrawn \in Nat
    /\ pub[p].withdrawn = RequestedTotal(p)

\* The total is the sum over the requests on file, all of them whole units.
LEMMA TotalIsSum ==
  ASSUME PubLedgerInv, NEW p \in Publishers
  PROVE  /\ RequestedTotal(p) =
              SumFunctionOnSet([w \in RequestsOf(p) |-> requests[w].amount], RequestsOf(p))
         /\ \A w \in RequestsOf(p) : requests[w].amount \in Int
         /\ RequestsOf(p) \subseteq Calls
<1>1. \A w \in RequestsOf(p) : requests[w] \in Request
  BY DEF RequestsOf, InTable, PubLedgerInv, PubLedgerTypeOK
<1>2. QED
  BY <1>1 DEF RequestedTotal, SumFunction, Request, RequestsOf

\* Requests that keep publisher and amount keep the totals.
LEMMA SameTotals ==
  ASSUME \A w \in Calls : /\ InTable(w)' <=> InTable(w)
                          /\ InTable(w) => /\ requests'[w].pub = requests[w].pub
                                           /\ requests'[w].amount = requests[w].amount,
         NEW p \in Publishers
  PROVE  RequestsOf(p)' = RequestsOf(p) /\ RequestedTotal(p)' = RequestedTotal(p)
<1>1. RequestsOf(p)' = RequestsOf(p)
  BY DEF RequestsOf
<1>2. [w \in RequestsOf(p)' |-> requests'[w].amount] = [w \in RequestsOf(p) |-> requests[w].amount]
  BY <1>1 DEF RequestsOf
<1>3. QED
  BY <1>1, <1>2 DEF RequestedTotal

\* An operation that files nothing and leaves revenue_withdrawn alone.
LEMMA NothingReserved ==
  ASSUME ReservedInv, \A p \in Publishers : pub'[p].withdrawn = pub[p].withdrawn,
         \A w \in Calls : /\ InTable(w)' <=> InTable(w)
                          /\ InTable(w) => /\ requests'[w].pub = requests[w].pub
                                           /\ requests'[w].amount = requests[w].amount
  PROVE  ReservedInv'
BY SameTotals DEF ReservedInv

\* A withdrawal reserves what it files a request for.
LEMMA WithdrawReserves ==
  ASSUME PubLedgerInv, PubLedgerInv', ReservedInv,
         NEW w \in Calls, NEW p \in Publishers, NEW amt \in Amounts, Withdraw(w, p, amt)
  PROVE  ReservedInv'
<1>1. /\ pub \in [Publishers -> PubRow] /\ requests \in [Calls -> Request \union {Null}]
      /\ amt \in Nat
  BY PublisherAssumption DEF Withdraw, PubLedgerInv, PubLedgerTypeOK
<1>2. /\ pub' = [pub EXCEPT ![p] = AfterWithdraw(pub[p], amt)]
      /\ requests' = [requests EXCEPT ![w] = PendingRequest(p, amt)]
      /\ requests[w] = Null
  BY DEF Withdraw, InTable
<1>3. /\ PendingRequest(p, amt) # Null
      /\ PendingRequest(p, amt).pub = p /\ PendingRequest(p, amt).amount = Stored(amt)
  BY <1>1, RequestTypes DEF PendingRequest
<1>4. ASSUME NEW q \in Publishers
      PROVE  /\ IsFiniteSet(RequestsOf(q)') /\ pub'[q].withdrawn \in Nat
             /\ pub'[q].withdrawn = RequestedTotal(q)'
  <2> DEFINE S == RequestsOf(q)
             f == [v \in S |-> requests[v].amount]
             T == RequestsOf(q)'
             g == [v \in T |-> requests'[v].amount]
  <2>1. /\ IsFiniteSet(S) /\ pub[q].withdrawn \in Nat
        /\ pub[q].withdrawn = SumFunctionOnSet(f, S)
    BY TotalIsSum DEF ReservedInv
  <2>2. RequestedTotal(q)' = SumFunctionOnSet(g, T) /\ \A v \in T : g[v] \in Int
    <3>1. RequestedTotal(q)' = SumFunctionOnSet(g, T)
      BY DEF RequestedTotal, SumFunction
    <3>2. \A v \in T : requests'[v] \in Request
      BY DEF RequestsOf, InTable, PubLedgerInv, PubLedgerTypeOK
    <3>3. QED
      BY <3>1, <3>2 DEF Request
  <2>3. \A v \in S : v \in T /\ g[v] = f[v] /\ v # w
    BY <1>1, <1>2 DEF RequestsOf, InTable
  <2>4. CASE q # p
    <3>1. T = S
      BY <1>1, <1>2, <1>3, <2>4 DEF RequestsOf, InTable
    <3>2. SumFunctionOnSet(g, T) = SumFunctionOnSet(f, S)
      <4> HIDE DEF f, g, S, T
      <4> QED BY <2>1, <2>3, <3>1, SumsAgree
    <3>3. pub'[q] = pub[q]
      BY <1>1, <1>2, <2>4
    <3>4. QED
      BY <2>1, <2>2, <3>1, <3>2, <3>3
  <2>5. CASE q = p
    <3>1. T = S \cup {w} /\ w \notin S /\ g[w] = Stored(amt)
      BY <1>1, <1>2, <1>3, <2>5 DEF RequestsOf, InTable
    <3>2. SumFunctionOnSet(g, T) = SumFunctionOnSet(f, S) + Stored(amt)
      <4> HIDE DEF f, g, S, T
      <4>1. SumFunctionOnSet(g, T) = SumFunctionOnSet(g, S) + g[w]
        BY <2>1, <2>2, <3>1, SumAdd
      <4>2. SumFunctionOnSet(g, S) = SumFunctionOnSet(f, S)
        BY <2>1, <2>3, SumsAgree
      <4>3. QED
        BY <3>1, <4>1, <4>2
    <3>3. pub'[q].withdrawn = Stored(Grains(pub[q].withdrawn) + amt)
      BY <1>1, <1>2, <2>5 DEF AfterWithdraw, PubRow
    <3>4. /\ Stored(Grains(pub[q].withdrawn) + amt) = pub[q].withdrawn + Stored(amt)
          /\ Stored(amt) \in Nat
      BY <1>1, <2>1, StoredAdd, StoredNat
    <3>5. IsFiniteSet(T)
      BY <2>1, <3>1, FS_AddElement
    <3>6. QED
      BY <2>1, <2>2, <3>2, <3>3, <3>4, <3>5
  <2>6. QED
    BY <2>4, <2>5
<1>5. QED
  BY <1>4 DEF ReservedInv

\* Every operation of the ledger keeps the two tables in agreement.
LEMMA ReservedStep ==
  PubLedgerInv /\ PubLedgerInv' /\ ReservedInv /\ [PubLedgerNext]_pubLedgerVars => ReservedInv'
<1>1. SUFFICES ASSUME PubLedgerInv, PubLedgerInv', ReservedInv, [PubLedgerNext]_pubLedgerVars
               PROVE  ReservedInv'
  OBVIOUS
<1>2. pub \in [Publishers -> PubRow] /\ requests \in [Calls -> Request \union {Null}]
  BY <1>1 DEF PubLedgerInv, PubLedgerTypeOK
<1>3. ASSUME NEW p \in Publishers, OpenPub(p) PROVE ReservedInv'
  <2>1. /\ pub' = [pub EXCEPT ![p] = NewPubRow] /\ requests' = requests
        /\ pub[p].withdrawn = NewPubRow.withdrawn
    BY <1>1, <1>3 DEF OpenPub, PubLedgerInv, NoPubRow, NewPubRow
  <2>2. \A q \in Publishers : pub'[q].withdrawn = pub[q].withdrawn
    BY <1>2, <2>1
  <2>3. QED
    BY <1>1, <2>1, <2>2, NothingReserved DEF InTable
<1>4. ASSUME NEW c \in Calls, NEW p \in Publishers, NEW amt \in Amounts,
             Credit(c, p, amt) \/ Settle(p, amt)
      PROVE  ReservedInv'
  <2>1. PICK r \in {AfterRevenue(pub[p], amt), AfterSettle(pub[p], amt)} :
          pub' = [pub EXCEPT ![p] = r] /\ requests' = requests
    BY <1>4 DEF Credit, Settle
  <2>2. r.withdrawn = pub[p].withdrawn
    BY <1>2, <2>1 DEF AfterRevenue, AfterSettle, PubRow
  <2>3. \A q \in Publishers : pub'[q].withdrawn = pub[q].withdrawn
    BY <1>2, <2>1, <2>2
  <2>4. QED
    BY <1>1, <2>1, <2>3, NothingReserved DEF InTable
<1>5. ASSUME NEW w \in Calls, NEW p \in Publishers, NEW amt \in Amounts, Withdraw(w, p, amt)
      PROVE  ReservedInv'
  BY <1>1, <1>5, WithdrawReserves
<1>6. ASSUME NEW w \in Calls, NEW r \in Reviewers, Approve(w, r) PROVE ReservedInv'
  <2>1. /\ requests[w] \in Request /\ pub' = pub
        /\ requests' = [requests EXCEPT ![w] = Approved(requests[w], r)]
    BY <1>2, <1>6 DEF Approve, HasStatus, InTable
  <2>2. ASSUME NEW v \in Calls
        PROVE  /\ InTable(v)' <=> InTable(v)
               /\ InTable(v) => /\ requests'[v].pub = requests[v].pub
                                /\ requests'[v].amount = requests[v].amount
    BY <1>2, <2>1, ApprovedType, PublisherAssumption DEF InTable
  <2>3. QED
    BY <1>1, <2>1, <2>2, NothingReserved
<1>7. CASE UNCHANGED pubLedgerVars
  BY <1>1, <1>7, NothingReserved DEF pubLedgerVars, InTable
<1>8. QED
  BY <1>1, <1>3, <1>4, <1>5, <1>6, <1>7 DEF PubLedgerNext

(***************************************************************************)
(* revenue_withdrawn is the sum of the requests on file, with every        *)
(* operation of the atomic ledger (CreateWithdrawRequest and               *)
(* ApproveWithdraw in repo/publisher.go), for any number of requests.      *)
(***************************************************************************)
THEOREM LedgerReservesRequests == PubLedgerSpec => []WithdrawnIsRequested
<1>1. PubLedgerInit => ReservedInv
  <2>1. SUFFICES ASSUME PubLedgerInit, NEW p \in Publishers
                 PROVE  /\ RequestsOf(p) = {} /\ pub[p].withdrawn = 0
                        /\ RequestedTotal(p) = 0
    BY FS_EmptySet DEF ReservedInv
  <2>2. RequestsOf(p) = {} /\ pub[p].withdrawn = 0
    BY <2>1 DEF PubLedgerInit, RequestsOf, InTable, NoPubRow
  <2>3. RequestedTotal(p) = SumFunctionOnSet([w \in {} |-> requests[w].amount], {})
    BY <2>2 DEF RequestedTotal, SumFunction
  <2>4. QED
    BY <2>2, <2>3, SumSteps, FS_EmptySet
<1>2. ReservedInv => WithdrawnIsRequested
  BY DEF ReservedInv, WithdrawnIsRequested
<1>3. PubLedgerSpec => []PubLedgerInv
  BY PubLedgerInvInit, PubLedgerInvStep, PTL DEF PubLedgerSpec
<1>4. QED
  BY <1>1, <1>2, <1>3, ReservedStep, PTL DEF PubLedgerSpec

------------------------------------------------------------------------------
(* The transactions. *)

Labels == Running \union Outcomes \union {"idle"}

\* The calls at these labels have a connection.
Connected == Running \ {"begin"}

Undecided == Labels \ {"ok", "commit_err"}

\* What the position of a call says about its request and about the withdrawal it files.
CallInv(c) ==
  /\ pc[c] \in Running => Amt(c) > 0
  /\ pc[c] = "upsert" => req[c].op = "revenue"
  /\ pc[c] \in {"select", "check"} => req[c].op = "withdraw"
  /\ pc[c] \in {"insert", "commit"} => req[c].op \in {"revenue", "withdraw"}
  /\ pc[c] = "settle" => req[c].op = "settle"
  /\ InTable(c) => req[c].op = "withdraw" /\ pc[c] \in {"ok", "commit_err"}
  /\ pc[c] = "ok" /\ req[c].op = "withdraw" =>
       /\ InTable(c)
       /\ requests[c].pub = Pub(c)
       /\ requests[c].amount = Stored(Amt(c))

\* What the lock of its row gives a call.
Held(c) ==
  pc[c] \in Locked =>
    /\ lock[Pub(c)] = c
    /\ row[c] = Expected(c)
    /\ req[c].op = "withdraw" => pub[Pub(c)].exists
    /\ req[c].op = "withdraw" /\ pc[c] # "check" => Withdrawable(pub[Pub(c)], Amt(c))

Pool ==
  /\ conns = {c \in Calls : pc[c] \in Connected}
  /\ IsFiniteSet(conns)
  /\ Cardinality(conns) <= MaxOpenConns

\* The types, but for the pool.
PubTypes ==
  /\ pub \in [Publishers -> PubRow]
  /\ journal \in [Publishers -> Seq(Entry)]
  /\ requests \in [Calls -> Request \union {Null}]
  /\ credited \in [Publishers -> Int] /\ rough \in [Publishers -> Nat]
  /\ req \in [Calls -> CallRequests]
  /\ pc \in [Calls -> Labels]
  /\ row \in [Calls -> PubRow]
  /\ lock \in [Publishers -> Calls \union {Null}]
  /\ approvals \subseteq Calls \X Reviewers

\* The inductive invariant of Spec.
PubInv ==
  /\ PubTypes
  /\ Pool
  /\ NeverOverwithdrawn
  /\ \A c \in Calls : CallInv(c) /\ Held(c)
  /\ ApprovedOnce

\* Empty tables and idle calls satisfy the invariant.
LEMMA PubInvInit == Init => PubInv
<1>1. SUFFICES ASSUME Init PROVE PubInv
  OBVIOUS
<1>2. NoPubRow \in PubRow /\ <<>> \in Seq(Entry)
  BY DEF NoPubRow, PubRow
<1>3. PubTypes
  BY <1>1, <1>2 DEF Init, PubLedgerInit, PubTypes, Labels
<1>4. Pool
  <2>1. conns = {} /\ {c \in Calls : pc[c] \in Connected} = {}
    BY <1>1 DEF Init, Connected, Running
  <2>2. IsFiniteSet({}) /\ Cardinality({}) = 0
    BY FS_EmptySet
  <2>3. QED
    BY <2>1, <2>2, PoolAssumption DEF Pool
<1>5. ASSUME NEW c \in Calls PROVE CallInv(c) /\ Held(c)
  BY <1>1 DEF Init, PubLedgerInit, CallInv, Held, InTable, Running, Locked
<1>6. NeverOverwithdrawn /\ ApprovedOnce
  BY <1>1 DEF Init, PubLedgerInit, NeverOverwithdrawn, ApprovedOnce, NoPubRow
<1>7. QED
  BY <1>3, <1>4, <1>5, <1>6 DEF PubInv

\* What every step below needs of the call that makes it.
LEMMA PubCallTypes ==
  ASSUME PubInv, NEW c \in Calls
  PROVE  /\ Pub(c) \in Publishers /\ Amt(c) \in Int /\ Amt(c) \in Amounts /\ req[c].op \in Ops
         /\ req[c].op = "settle" => Amt(c) > 0
         /\ pub[Pub(c)] \in PubRow /\ row[c] \in PubRow
         /\ pc[c] \in Labels /\ CallInv(c) /\ Held(c)
  BY PublisherAssumption DEF PubInv, PubTypes, CallRequests, Pub, Amt

\* A call takes a connection when one is free, keeps it, and gives it back at its end.
LEMMA PoolStep ==
  ASSUME Pool, pc \in [Calls -> Labels], NEW c \in Calls, NEW l \in Labels,
         pc' = [pc EXCEPT ![c] = l],
         \/ l \in Connected /\ conns' = conns \union {c} /\ ConnectionFree
         \/ (l \in Connected <=> pc[c] \in Connected) /\ conns' = conns
         \/ l \notin Connected /\ conns' = conns \ {c}
  PROVE  Pool'
<1>1. conns' = {d \in Calls : pc'[d] \in Connected}
  BY DEF Pool
<1>2. MaxOpenConns \in Nat /\ Cardinality(conns) \in Nat
  BY PoolAssumption, FS_CardinalityType DEF Pool
<1>3. CASE conns' = conns \union {c} /\ ConnectionFree
  <2>1. /\ IsFiniteSet(conns \union {c})
        /\ Cardinality(conns \union {c}) =
             IF c \in conns THEN Cardinality(conns) ELSE Cardinality(conns) + 1
    BY FS_AddElement DEF Pool
  <2>2. QED
    BY <1>1, <1>2, <1>3, <2>1 DEF Pool, ConnectionFree
<1>4. CASE conns' = conns
  BY <1>1, <1>4 DEF Pool
<1>5. CASE conns' = conns \ {c}
  <2>1. /\ IsFiniteSet(conns \ {c})
        /\ Cardinality(conns \ {c}) =
             IF c \in conns THEN Cardinality(conns) - 1 ELSE Cardinality(conns)
    BY FS_RemoveElement DEF Pool
  <2>2. QED
    BY <1>1, <1>2, <1>5, <2>1 DEF Pool
<1>6. QED
  BY <1>3, <1>4, <1>5

\* A call whose row, and the lock on it, no other call touched is as it was.
LEMMA PubUndisturbed ==
  ASSUME NEW c \in Calls, Held(c), pc'[c] = pc[c], row'[c] = row[c], req' = req,
         lock[Pub(c)] = c => lock'[Pub(c)] = c /\ pub'[Pub(c)] = pub[Pub(c)]
  PROVE  Held(c)'
  BY DEF Held, Expected, Pub, Amt

\* A call at the label it had, with the request on file it had.
LEMMA SameCall ==
  ASSUME NEW c \in Calls, CallInv(c), pc'[c] = pc[c], req' = req,
         requests'[c] = requests[c]
  PROVE  CallInv(c)'
  BY DEF CallInv, InTable, Pub, Amt

(***************************************************************************)
(* A step of call d that publishes nothing preserves the invariant when it *)
(* leaves the locks of others alone and d itself where it may be.          *)
(***************************************************************************)
LEMMA PubPrivateStep ==
  ASSUME PubInv, NEW d \in Calls, NEW l \in Labels, NEW v \in PubRow,
         UNCHANGED <<pub, journal, requests, credited, rough, req, approvals>>,
         pc' = [pc EXCEPT ![d] = l],
         row' = [row EXCEPT ![d] = v],
         lock' \in [Publishers -> Calls \union {Null}],
         \A p \in Publishers : lock[p] \in Calls \ {d} => lock'[p] = lock[p],
         Pool', CallInv(d)', Held(d)'
  PROVE  PubInv'
<1>1. pc \in [Calls -> Labels] /\ row \in [Calls -> PubRow]
  BY DEF PubInv, PubTypes
<1>2. PubTypes'
  BY <1>1 DEF PubInv, PubTypes
<1>3. ASSUME NEW c \in Calls PROVE CallInv(c)' /\ Held(c)'
  <2>1. CallInv(c) /\ Held(c) /\ Pub(c) \in Publishers
    BY PubCallTypes
  <2>2. CASE c = d
    BY <2>2
  <2>3. CASE c # d
    <3>1. pc'[c] = pc[c] /\ row'[c] = row[c]
      BY <1>1, <2>3
    <3>2. CallInv(c)'
      BY <2>1, <3>1, SameCall
    <3>3. Held(c)'
      BY <2>1, <2>3, <3>1, PubUndisturbed
    <3>4. QED
      BY <3>2, <3>3
  <2>4. QED
    BY <2>2, <2>3
<1>4. NeverOverwithdrawn' /\ ApprovedOnce'
  BY DEF PubInv, NeverOverwithdrawn, ApprovedOnce, HasStatus, InTable
<1>5. QED
  BY <1>2, <1>3, <1>4 DEF PubInv

\* The locks that are left when a transaction takes one, or gives back its own.
LEMMA LockMoves ==
  ASSUME PubInv, NEW c \in Calls,
         Acquire(c) \/ lock' = [p \in Publishers |-> IF lock[p] = c THEN Null ELSE lock[p]]
  PROVE  /\ lock' \in [Publishers -> Calls \union {Null}]
         /\ \A p \in Publishers : lock[p] \in Calls \ {c} => lock'[p] = lock[p]
<1>1. /\ lock \in [Publishers -> Calls \union {Null}] /\ Null \notin Calls
      /\ Pub(c) \in Publishers
  BY PubCallTypes, PublisherAssumption DEF PubInv, PubTypes
<1>2. QED
  BY <1>1 DEF Acquire

\* Every statement short of COMMIT, and every way to fail, is a private step.
LEMMA PubStatementStep ==
  ASSUME PubInv, NEW c \in Calls,
         \/ Begin(c) \/ Reject(c) \/ Connect(c)
         \/ RevenueUpsert(c)
         \/ WithdrawSelect(c) \/ WithdrawNotFound(c) \/ WithdrawInsufficient(c)
         \/ WithdrawUpdate(c)
         \/ Insert(c) \/ Fail(c)
  PROVE  PubInv'
<1> USE DEF Running, Outcomes, Refusals, Labels, Connected, Locked, Goto
<1>0. /\ Pub(c) \in Publishers /\ Amt(c) \in Int /\ req[c].op \in Ops
      /\ pub[Pub(c)] \in PubRow /\ row[c] \in PubRow
      /\ pc[c] \in Labels /\ CallInv(c) /\ Held(c)
  BY PubCallTypes
<1>1. /\ pc \in [Calls -> Labels] /\ row \in [Calls -> PubRow]
      /\ lock \in [Publishers -> Calls \union {Null}]
      /\ row = [row EXCEPT ![c] = row[c]]
      /\ Pool
  BY DEF PubInv, PubTypes
<1>2. CASE Begin(c)
  <2>1. pc' = [pc EXCEPT ![c] = "begin"] /\ conns' = conns /\ "begin" \in Labels
    BY <1>2 DEF Begin
  <2>2. CallInv(c)' /\ Held(c)'
    BY <1>0, <1>1, <1>2, <2>1 DEF Begin, CallInv, Held, InTable, Amt, pubLedgerVars
  <2>3. Pool'
    BY <1>1, <1>2, <2>1, PoolStep DEF Begin
  <2>4. QED
    BY <1>0, <1>1, <1>2, <2>1, <2>2, <2>3, PubPrivateStep
       DEF Begin, pubLedgerVars
<1>3. CASE Reject(c)
  <2>1. pc' = [pc EXCEPT ![c] = "invalid"] /\ conns' = conns /\ "invalid" \in Labels
    BY <1>3 DEF Reject
  <2>2. CallInv(c)' /\ Held(c)'
    BY <1>0, <1>1, <1>3, <2>1 DEF Reject, CallInv, Held, InTable, Amt, pubLedgerVars
  <2>3. Pool'
    BY <1>1, <1>3, <2>1, PoolStep DEF Reject
  <2>4. QED
    BY <1>0, <1>1, <1>3, <2>1, <2>2, <2>3, PubPrivateStep
       DEF Reject, pubLedgerVars
<1>4. CASE Connect(c)
  <2>1. PICK l \in {"upsert", "select", "settle"} :
          /\ pc' = [pc EXCEPT ![c] = l]
          /\ l = "upsert" => req[c].op = "revenue"
          /\ l = "select" => req[c].op = "withdraw"
          /\ l = "settle" => req[c].op = "settle"
    BY <1>0, <1>4 DEF Connect, Ops
  <2>2. l \in Labels /\ l \in Connected
    OBVIOUS
  <2>3. CallInv(c)' /\ Held(c)'
    BY <1>0, <1>1, <1>4, <2>1 DEF Connect, CallInv, Held, InTable, Amt, pubLedgerVars
  <2>4. Pool'
    BY <1>1, <1>4, <2>1, <2>2, PoolStep DEF Connect
  <2>5. QED
    BY <1>0, <1>1, <1>4, <2>1, <2>2, <2>3, <2>4, PubPrivateStep
       DEF Connect, pubLedgerVars
<1>5. CASE RevenueUpsert(c)
  <2>1. /\ pc[c] = "upsert" /\ pc' = [pc EXCEPT ![c] = "insert"] /\ conns' = conns
        /\ "insert" \in Labels /\ Acquire(c)
        /\ row' = [row EXCEPT ![c] = AfterRevenue(pub[Pub(c)], Amt(c))]
        /\ UNCHANGED <<pubLedgerVars, req, approvals>>
    BY <1>5 DEF RevenueUpsert
  <2>2. AfterRevenue(pub[Pub(c)], Amt(c)) \in PubRow
    BY <1>0, <2>1, RevenueGains DEF CallInv, Gains
  <2>3. CallInv(c)'
    BY <1>0, <1>1, <2>1 DEF CallInv, InTable, Amt, pubLedgerVars
  <2>4. Held(c)'
    BY <1>0, <1>1, <2>1 DEF Acquire, CallInv, Held, Expected, Pub, Amt, pubLedgerVars
  <2>5. Pool'
    BY <1>1, <2>1, PoolStep
  <2>6. QED
    BY <1>1, <2>1, <2>2, <2>3, <2>4, <2>5, LockMoves, PubPrivateStep DEF pubLedgerVars
<1>6. CASE WithdrawSelect(c)
  <2>1. /\ pc[c] = "select" /\ pc' = [pc EXCEPT ![c] = "check"] /\ conns' = conns
        /\ "check" \in Labels /\ Acquire(c) /\ pub[Pub(c)].exists
        /\ row' = [row EXCEPT ![c] = pub[Pub(c)]]
        /\ UNCHANGED <<pubLedgerVars, req, approvals>>
    BY <1>6 DEF WithdrawSelect
  <2>2. CallInv(c)'
    BY <1>0, <1>1, <2>1 DEF CallInv, InTable, Amt, pubLedgerVars
  <2>3. Held(c)'
    BY <1>0, <1>1, <2>1 DEF Acquire, Held, Expected, Pub, pubLedgerVars
  <2>4. Pool'
    BY <1>1, <2>1, PoolStep
  <2>5. QED
    BY <1>0, <1>1, <2>1, <2>2, <2>3, <2>4, LockMoves, PubPrivateStep DEF pubLedgerVars
<1>7. CASE WithdrawUpdate(c)
  <2>1. /\ pc[c] = "check" /\ pc' = [pc EXCEPT ![c] = "insert"] /\ conns' = conns
        /\ "insert" \in Labels /\ Acquire(c) /\ Withdrawable(row[c], Amt(c))
        /\ row' = [row EXCEPT ![c] = AfterWithdraw(pub[Pub(c)], Amt(c))]
        /\ UNCHANGED <<pubLedgerVars, req, approvals>>
    BY <1>7 DEF WithdrawUpdate
  <2>2. AfterWithdraw(pub[Pub(c)], Amt(c)) \in PubRow
    BY <1>0, WithdrawGains DEF Gains
  <2>3. CallInv(c)'
    BY <1>0, <1>1, <2>1 DEF CallInv, InTable, Amt, pubLedgerVars
  <2>4. row[c] = pub[Pub(c)] /\ pub[Pub(c)].exists /\ req[c].op = "withdraw"
    BY <1>0, <2>1 DEF CallInv, Held, Expected
  <2>5. Held(c)'
    BY <1>0, <1>1, <2>1, <2>4 DEF Acquire, Held, Expected, Pub, Amt, pubLedgerVars
  <2>6. Pool'
    BY <1>1, <2>1, PoolStep
  <2>7. QED
    BY <1>1, <2>1, <2>2, <2>3, <2>5, <2>6, LockMoves, PubPrivateStep DEF pubLedgerVars
<1>8. CASE Insert(c)
  <2>1. /\ pc[c] = "insert" /\ pc' = [pc EXCEPT ![c] = "commit"] /\ "commit" \in Labels
        /\ UNCHANGED <<pubLedgerVars, req, row, lock, conns, approvals>>
    BY <1>8 DEF Insert
  <2>2. CallInv(c)'
    BY <1>0, <1>1, <2>1 DEF CallInv, InTable, Amt, pubLedgerVars
  <2>3. Held(c)'
    BY <1>0, <1>1, <2>1 DEF Held, Expected, Pub, Amt, pubLedgerVars
  <2>4. Pool'
    BY <1>1, <2>1, PoolStep
  <2>5. QED
    BY <1>0, <1>1, <2>1, <2>2, <2>3, <2>4, PubPrivateStep DEF pubLedgerVars
<1>9. CASE WithdrawNotFound(c) \/ WithdrawInsufficient(c) \/ Fail(c)
  <2>1. PICK l \in {"not_found", "insufficient", "failed", "commit_err"} :
          pc' = [pc EXCEPT ![c] = l]
    BY <1>9 DEF WithdrawNotFound, WithdrawInsufficient, Fail
  <2>2. /\ l \in Labels \ Connected /\ pc[c] \in Running /\ Release(c)
        /\ UNCHANGED <<pubLedgerVars, req, row, approvals>>
    BY <1>9 DEF WithdrawNotFound, WithdrawInsufficient, Fail
  <2>3. CallInv(c)' /\ Held(c)'
    BY <1>0, <1>1, <2>1, <2>2 DEF CallInv, Held, InTable, pubLedgerVars
  <2>4. Pool'
    BY <1>1, <2>1, <2>2, PoolStep DEF Release
  <2>5. QED
    BY <1>0, <1>1, <2>1, <2>2, <2>3, <2>4, LockMoves, PubPrivateStep
       DEF Release, pubLedgerVars
<1>10. QED
  BY <1>2, <1>3, <1>4, <1>5, <1>6, <1>7, <1>8, <1>9

------------------------------------------------------------------------------
\* A transaction that commits performs, at that instant, one ledger operation.
LEMMA CommitPosts ==
  ASSUME PubInv, NEW c \in Calls, Commit(c)
  PROVE  Credit(c, Pub(c), Amt(c)) \/ Withdraw(c, Pub(c), Amt(c))
<1>1. /\ pc[c] = "commit" /\ Amt(c) > 0 /\ ~InTable(c) /\ Held(c)
      /\ req[c].op \in {"revenue", "withdraw"}
      /\ pub' = [pub EXCEPT ![Pub(c)] = row[c]]
      /\ rough' = [rough EXCEPT ![Pub(c)] = @ + Rough(Amt(c))]
  BY PubCallTypes DEF Commit, CallInv, Running
<1>2. CASE PublishRevenue(c)
  <2>1. row[c] = AfterRevenue(pub[Pub(c)], Amt(c))
    BY <1>1, <1>2 DEF PublishRevenue, Held, Expected, Locked
  <2>2. QED
    BY <1>1, <1>2, <2>1 DEF PublishRevenue, Credit
<1>3. CASE PublishWithdraw(c)
  <2>1. /\ row[c] = AfterWithdraw(pub[Pub(c)], Amt(c))
        /\ pub[Pub(c)].exists /\ Withdrawable(pub[Pub(c)], Amt(c))
    BY <1>1, <1>3 DEF PublishWithdraw, Held, Expected, Locked
  <2>2. QED
    BY <1>1, <1>3, <2>1 DEF PublishWithdraw, Withdraw
<1>4. QED
  BY <1>2, <1>3 DEF Commit

\* Every operation of the ledger leaves its tables well typed.
LEMMA LedgerOpTypes ==
  ASSUME PubInv, NEW c \in Calls, NEW p \in Publishers, NEW amt \in Int,
         Credit(c, p, amt) \/ Withdraw(c, p, amt) \/ Settle(p, amt)
  PROVE  /\ pub' \in [Publishers -> PubRow]
         /\ journal' \in [Publishers -> Seq(Entry)]
         /\ requests' \in [Calls -> Request \union {Null}]
         /\ credited' \in [Publishers -> Int] /\ rough' \in [Publishers -> Nat]
         /\ \A q \in Publishers \ {p} : pub'[q] = pub[q]
         /\ \A w \in Calls \ {c} : requests'[w] = requests[w]
<1>1. /\ pub \in [Publishers -> PubRow] /\ journal \in [Publishers -> Seq(Entry)]
      /\ requests \in [Calls -> Request \union {Null}]
      /\ credited \in [Publishers -> Int] /\ rough \in [Publishers -> Nat]
      /\ Rough(amt) \in Nat /\ pub[p] \in PubRow /\ Stored(amt) \in Int
  BY RoughNat, StoredNearest DEF PubInv, PubTypes
<1>2. rough' = [rough EXCEPT ![p] = rough[p] + Rough(amt)]
  BY DEF Credit, Withdraw, Settle
<1>3. rough' \in [Publishers -> Nat]
  BY <1>1, <1>2
<1>4. CASE Credit(c, p, amt)
  <2>1. AfterRevenue(pub[p], amt) \in PubRow
    BY <1>1, <1>4, RevenueGains DEF Credit, Gains
  <2>2. RevenueEntry(c, AfterRevenue(pub[p], amt), amt) \in Entry
    BY <1>1, <2>1 DEF RevenueEntry, Entry, PubRow
  <2>3. QED
    BY <1>1, <1>3, <1>4, <2>1, <2>2 DEF Credit
<1>5. CASE Withdraw(c, p, amt)
  <2>1. AfterWithdraw(pub[p], amt) \in PubRow
    BY <1>1, WithdrawGains DEF Gains
  <2>2. PendingRequest(p, amt) \in Request
    BY RequestTypes
  <2>3. QED
    BY <1>1, <1>3, <1>5, <2>1, <2>2 DEF Withdraw
<1>6. CASE Settle(p, amt)
  <2>1. AfterSettle(pub[p], amt) \in PubRow
    BY <1>1, SettleGains DEF Gains
  <2>2. QED
    BY <1>1, <1>3, <1>6, <2>1 DEF Settle
<1>7. QED
  BY <1>4, <1>5, <1>6

\* No operation takes revenue_settled below zero: a withdrawal was covered, and a
\* settlement adds.
LEMMA SettledStaysPositive ==
  ASSUME PubInv, NEW c \in Calls, NEW p \in Publishers, NEW amt \in Int, amt > 0,
         Credit(c, p, amt) \/ Withdraw(c, p, amt) \/ Settle(p, amt)
  PROVE  pub'[p].settled >= 0
<1>1. /\ pub \in [Publishers -> PubRow] /\ pub[p] \in PubRow
      /\ pub[p].settled \in Nat /\ Grains(pub[p].settled) \in Nat
      /\ pub[p].exists \in BOOLEAN
  <2>1. pub \in [Publishers -> PubRow] /\ pub[p].settled >= 0
    BY DEF PubInv, PubTypes, NeverOverwithdrawn
  <2>2. pub[p].settled \in Nat /\ pub[p] \in PubRow /\ pub[p].exists \in BOOLEAN
    BY <2>1 DEF PubRow
  <2>3. QED
    BY <2>1, <2>2, GridAssumption DEF Grains
<1>2. CASE Credit(c, p, amt)
  <2>1. pub'[p].settled = pub[p].settled
    BY <1>1, <1>2 DEF Credit, AfterRevenue, PubRow
  <2>2. QED
    BY <1>1, <2>1
<1>3. CASE Withdraw(c, p, amt)
  <2>1. Grains(pub[p].settled) - amt \in Nat
    BY <1>1, <1>3 DEF Withdraw, Withdrawable
  <2>2. pub'[p].settled = Stored(Grains(pub[p].settled) - amt)
    BY <1>1, <1>3 DEF Withdraw, AfterWithdraw, PubRow
  <2>3. QED
    BY <2>1, <2>2, StoredNat
<1>4. CASE Settle(p, amt)
  <2>1. Grains(pub[p].settled) + amt \in Nat
    BY <1>1
  <2>2. pub'[p].settled = Stored(Grains(pub[p].settled) + amt)
    BY <1>1, <1>4 DEF Settle, AfterSettle, PubRow
  <2>3. QED
    BY <2>1, <2>2, StoredNat
<1>5. QED
  BY <1>2, <1>3, <1>4

\* A request on file stays on file, so nothing a reviewer was told is undone.
LEMMA ApprovalsStand ==
  ASSUME PubInv, NEW c \in Calls, ~InTable(c), approvals' = approvals,
         \A w \in Calls \ {c} : requests'[w] = requests[w]
  PROVE  ApprovedOnce'
<1>1. ASSUME NEW w \in Calls, NEW r \in Reviewers, <<w, r>> \in approvals
      PROVE  (HasStatus(w, "approved") /\ requests[w].reviewer = r)'
  <2>1. HasStatus(w, "approved") /\ requests[w].reviewer = r
    BY <1>1 DEF PubInv, ApprovedOnce
  <2>2. requests'[w] = requests[w]
    BY <2>1 DEF HasStatus
  <2>3. QED
    BY <2>1, <2>2 DEF HasStatus, InTable
<1>2. QED
  BY <1>1 DEF ApprovedOnce

(***************************************************************************)
(* The end of a call, by an operation on the ledger: it preserves the      *)
(* invariant if no other transaction holds the lock of the row.            *)
(***************************************************************************)
LEMMA LedgerOpStep ==
  ASSUME PubInv, NEW c \in Calls, ~InTable(c), Amt(c) > 0,
         \/ Credit(c, Pub(c), Amt(c)) \/ Withdraw(c, Pub(c), Amt(c))
         \/ Settle(Pub(c), Amt(c)),
         lock[Pub(c)] \in {c, Null}, Release(c), pc[c] \in Labels,
         NEW l \in {"ok", "commit_err"}, pc' = [pc EXCEPT ![c] = l],
         UNCHANGED <<req, row, approvals>>,
         CallInv(c)'
  PROVE  PubInv'
<1>1. Pub(c) \in Publishers /\ Amt(c) \in Int
  BY PubCallTypes
<1>2. /\ pub' \in [Publishers -> PubRow]
      /\ journal' \in [Publishers -> Seq(Entry)]
      /\ requests' \in [Calls -> Request \union {Null}]
      /\ credited' \in [Publishers -> Int] /\ rough' \in [Publishers -> Nat]
      /\ \A q \in Publishers \ {Pub(c)} : pub'[q] = pub[q]
      /\ \A w \in Calls \ {c} : requests'[w] = requests[w]
  BY <1>1, LedgerOpTypes
<1>3. /\ lock' \in [Publishers -> Calls \union {Null}]
      /\ \A p \in Publishers : lock[p] \in Calls \ {c} => lock'[p] = lock[p]
  BY LockMoves DEF Release
<1>4. /\ pc \in [Calls -> Labels] /\ req \in [Calls -> CallRequests]
      /\ row \in [Calls -> PubRow] /\ approvals \subseteq Calls \X Reviewers /\ Pool
      /\ l \in Labels \ Connected /\ l \notin Locked
  BY DEF PubInv, PubTypes, Labels, Outcomes, Connected, Running, Locked
<1>5. PubTypes'
  BY <1>2, <1>3, <1>4 DEF PubTypes
<1>6. Pool'
  BY <1>4, PoolStep DEF Release
<1>7. NeverOverwithdrawn'
  <2>1. pub'[Pub(c)].settled >= 0
    BY <1>1, SettledStaysPositive
  <2>2. QED
    BY <1>2, <2>1 DEF PubInv, NeverOverwithdrawn
<1>8. ASSUME NEW d \in Calls PROVE CallInv(d)' /\ Held(d)'
  <2>1. CASE d = c
    BY <1>4, <2>1 DEF Held
  <2>2. CASE d # c
    <3>1. CallInv(d) /\ Held(d) /\ Pub(d) \in Publishers
      BY PubCallTypes
    <3>2. pc'[d] = pc[d] /\ row'[d] = row[d] /\ requests'[d] = requests[d]
      BY <1>2, <1>4, <2>2
    <3>3. CallInv(d)'
      BY <3>1, <3>2, SameCall
    <3>4. lock[Pub(d)] = d => lock'[Pub(d)] = d /\ pub'[Pub(d)] = pub[Pub(d)]
      BY <1>2, <1>3, <2>2, <3>1, PublisherAssumption
    <3>5. QED
      BY <3>1, <3>2, <3>3, <3>4, PubUndisturbed
  <2>3. QED
    BY <2>1, <2>2
<1>9. ApprovedOnce'
  BY <1>2, ApprovalsStand
<1>10. QED
  BY <1>5, <1>6, <1>7, <1>8, <1>9 DEF PubInv

\* COMMIT preserves the invariant, acknowledged or not.
LEMMA CommitStep == ASSUME PubInv, NEW c \in Calls, Commit(c) PROVE PubInv'
<1>1. /\ pc[c] = "commit" /\ pc[c] \in Labels /\ Amt(c) > 0 /\ Pub(c) \in Publishers
      /\ Amt(c) \in Int /\ ~InTable(c) /\ lock[Pub(c)] = c
      /\ pc \in [Calls -> Labels] /\ requests \in [Calls -> Request \union {Null}]
  BY PubCallTypes DEF Commit, CallInv, Held, Running, Locked, PubInv, PubTypes
<1>2. PICK l \in {"ok", "commit_err"} : pc' = [pc EXCEPT ![c] = l]
  BY DEF Commit, Goto
<1>3. /\ Release(c) /\ UNCHANGED <<req, row, approvals>>
      /\ PublishRevenue(c) \/ PublishWithdraw(c)
  BY DEF Commit
<1>4. CallInv(c)'
  <2>1. CASE PublishRevenue(c)
    BY <1>1, <1>2, <1>3, <2>1 DEF PublishRevenue, CallInv, InTable, Running
  <2>2. CASE PublishWithdraw(c)
    <3>1. /\ requests'[c] = PendingRequest(Pub(c), Amt(c)) /\ requests'[c] # Null
          /\ pc'[c] = l /\ req[c].op = "withdraw"
      BY <1>1, <1>2, <2>2, RequestTypes DEF PublishWithdraw
    <3>2. requests'[c].pub = Pub(c) /\ requests'[c].amount = Stored(Amt(c))
      BY <3>1 DEF PendingRequest
    <3>3. QED
      BY <1>3, <3>1, <3>2 DEF CallInv, InTable, Running, Pub, Amt
  <2>3. QED
    BY <1>3, <2>1, <2>2
<1>5. Credit(c, Pub(c), Amt(c)) \/ Withdraw(c, Pub(c), Amt(c))
  BY CommitPosts
<1>6. QED
  BY <1>1, <1>2, <1>3, <1>4, <1>5, LedgerOpStep

\* SettlePending waits for the row lock, and settles or finds no row.
LEMMA SettleStep == ASSUME PubInv, NEW c \in Calls, SettlePending(c) PROVE PubInv'
<1>1. /\ pc[c] = "settle" /\ pc[c] \in Labels /\ Amt(c) > 0 /\ ~InTable(c)
      /\ lock[Pub(c)] = Null /\ pc \in [Calls -> Labels] /\ row[c] \in PubRow
      /\ row = [row EXCEPT ![c] = row[c]] /\ Pool
  BY PubCallTypes DEF SettlePending, CallInv, Running, PubInv, PubTypes
<1>2. PICK l \in {"ok", "commit_err"} : pc' = [pc EXCEPT ![c] = l]
  BY DEF SettlePending, Goto
<1>3. /\ Release(c) /\ UNCHANGED <<req, row, approvals, requests>>
      /\ Settle(Pub(c), Amt(c)) \/ UNCHANGED pubLedgerVars
  BY DEF SettlePending, Settle, pubLedgerVars
<1>4. pc'[c] = l /\ l \in Labels \ Connected
  BY <1>1, <1>2 DEF Labels, Outcomes, Connected, Running
<1>5. req[c].op # "withdraw"
  BY <1>1, PubCallTypes DEF CallInv
<1>6. CallInv(c)' /\ Held(c)'
  BY <1>1, <1>3, <1>4, <1>5 DEF CallInv, Held, InTable, Running, Locked
<1>7. CASE Settle(Pub(c), Amt(c))
  BY <1>1, <1>2, <1>3, <1>6, <1>7, LedgerOpStep
<1>8. CASE UNCHANGED pubLedgerVars
  <2>1. Pool'
    BY <1>1, <1>2, <1>3, <1>4, PoolStep DEF Release
  <2>2. QED
    BY <1>1, <1>2, <1>3, <1>4, <1>6, <1>8, <2>1, LockMoves, PubPrivateStep
       DEF Release, pubLedgerVars
<1>9. QED
  BY <1>3, <1>7, <1>8

\* An approval is told to one reviewer, of a request that was still pending.
LEMMA ApproveStep ==
  ASSUME PubInv, NEW w \in Calls, NEW r \in Reviewers, ApproveWithdraw(w, r)
  PROVE  PubInv'
<1>1. /\ requests \in [Calls -> Request \union {Null}] /\ requests[w] \in Request
      /\ requests[w].status = "pending"
      /\ requests' = [requests EXCEPT ![w] = Approved(requests[w], r)]
      /\ UNCHANGED <<pub, journal, credited, rough, req, pc, row, lock, conns>>
      /\ approvals' \in {approvals, approvals \union {<<w, r>>}}
  BY DEF ApproveWithdraw, Approve, HasStatus, InTable, callVars, PubInv, PubTypes
<1>2. /\ Approved(requests[w], r) \in Request /\ Approved(requests[w], r) # Null
      /\ Approved(requests[w], r).pub = requests[w].pub
      /\ Approved(requests[w], r).amount = requests[w].amount
      /\ Approved(requests[w], r).status = "approved" /\ Approved(requests[w], r).reviewer = r
  BY <1>1, ApprovedType
<1>3. /\ requests' \in [Calls -> Request \union {Null}]
      /\ requests'[w] = Approved(requests[w], r)
      /\ \A d \in Calls \ {w} : requests'[d] = requests[d]
  BY <1>1, <1>2
<1>4. PubTypes' /\ Pool' /\ NeverOverwithdrawn'
  BY <1>1, <1>3 DEF PubInv, PubTypes, Pool, NeverOverwithdrawn
<1>5. ASSUME NEW d \in Calls PROVE CallInv(d)' /\ Held(d)'
  <2>1. CallInv(d) /\ Held(d)
    BY PubCallTypes
  <2>2. Held(d)'
    BY <1>1, <2>1, PubUndisturbed
  <2>3. CASE d = w
    <3>1. InTable(w) /\ InTable(w)'
      BY <1>1, <1>2, <1>3, PublisherAssumption DEF InTable
    <3>2. requests'[d].pub = requests[d].pub /\ requests'[d].amount = requests[d].amount
      BY <1>2, <1>3, <2>3
    <3>3. CallInv(d)'
      BY <1>1, <2>1, <2>3, <3>1, <3>2 DEF CallInv, Pub, Amt
    <3>4. QED
      BY <2>2, <3>3
  <2>4. CASE d # w
    BY <1>1, <1>3, <2>1, <2>2, <2>4, SameCall
  <2>5. QED
    BY <2>3, <2>4
<1>6. ASSUME NEW d \in Calls, NEW q \in Reviewers, <<d, q>> \in approvals'
      PROVE  (HasStatus(d, "approved") /\ requests[d].reviewer = q)'
  <2>1. CASE d = w /\ q = r
    BY <1>2, <1>3, <2>1 DEF HasStatus, InTable
  <2>2. CASE <<d, q>> \in approvals
    <3>1. HasStatus(d, "approved") /\ requests[d].reviewer = q
      BY <2>2 DEF PubInv, ApprovedOnce
    <3>2. d # w
      BY <1>1, <3>1 DEF HasStatus
    <3>3. QED
      BY <1>3, <3>1, <3>2 DEF HasStatus, InTable
  <2>3. QED
    BY <1>1, <1>6, <2>1, <2>2
<1>7. ApprovedOnce'
  BY <1>6 DEF ApprovedOnce
<1>8. QED
  BY <1>4, <1>5, <1>7 DEF PubInv

\* Opening an account disturbs no transaction: it waits for the row's lock.
LEMMA OpenPubStep == ASSUME PubInv, NEW p \in Publishers, GetOrCreate(p) PROVE PubInv'
<1>1. /\ lock[p] = Null /\ pub' = [pub EXCEPT ![p] = NewPubRow]
      /\ UNCHANGED <<journal, requests, credited, rough, req, pc, row, lock, conns, approvals>>
  BY DEF GetOrCreate, OpenPub, callVars
<1>2. NewPubRow \in PubRow /\ NewPubRow.settled = 0
  BY DEF NewPubRow, PubRow
<1>3. pub \in [Publishers -> PubRow] /\ pub' \in [Publishers -> PubRow]
      /\ pub'[p] = NewPubRow /\ \A q \in Publishers \ {p} : pub'[q] = pub[q]
  BY <1>1, <1>2 DEF PubInv, PubTypes
<1>4. PubTypes' /\ Pool' /\ ApprovedOnce'
  BY <1>1, <1>3 DEF PubInv, PubTypes, Pool, ApprovedOnce, HasStatus, InTable
<1>5. NeverOverwithdrawn'
  BY <1>2, <1>3 DEF PubInv, NeverOverwithdrawn
<1>6. ASSUME NEW d \in Calls PROVE CallInv(d)' /\ Held(d)'
  <2>1. CallInv(d) /\ Held(d) /\ Pub(d) \in Publishers
    BY PubCallTypes
  <2>2. lock[Pub(d)] = d => lock'[Pub(d)] = d /\ pub'[Pub(d)] = pub[Pub(d)]
    BY <1>1, <1>3, <2>1, PublisherAssumption
  <2>3. QED
    BY <1>1, <2>1, <2>2, SameCall, PubUndisturbed
<1>7. QED
  BY <1>4, <1>5, <1>6 DEF PubInv

\* Every action preserves the invariant.
LEMMA PubInvStep == PubInv /\ [Next]_vars => PubInv'
<1>1. SUFFICES ASSUME PubInv, [Next]_vars PROVE PubInv'
  OBVIOUS
<1>2. ASSUME NEW c \in Calls, Begin(c) \/ Reject(c) \/ Step(c) PROVE PubInv'
  <2>1. CASE Commit(c)
    BY <1>1, <2>1, CommitStep
  <2>2. CASE SettlePending(c)
    BY <1>1, <2>2, SettleStep
  <2>3. QED
    BY <1>1, <1>2, <2>1, <2>2, PubStatementStep DEF Step, Progress
<1>3. ASSUME NEW w \in Calls, NEW r \in Reviewers, ApproveWithdraw(w, r) PROVE PubInv'
  BY <1>1, <1>3, ApproveStep
<1>4. ASSUME NEW p \in Publishers, GetOrCreate(p) PROVE PubInv'
  BY <1>1, <1>4, OpenPubStep
<1>5. CASE UNCHANGED vars
  BY <1>1, <1>5
     DEF PubInv, PubTypes, Pool, NeverOverwithdrawn, CallInv, Held, Expected, InTable,
         ApprovedOnce, HasStatus, Pub, Amt, vars
<1>6. QED
  BY <1>1, <1>2, <1>3, <1>4, <1>5 DEF Next, Finished

\* The invariant that makes the transactions atomic holds in every reachable state.
THEOREM PublisherInvariant == Spec => []PubInv
<1>1. QED
  BY PubInvInit, PubInvStep, PTL DEF Spec

(***************************************************************************)
(* The transactions of internal/repo/publisher.go are atomic: whatever     *)
(* statements interleave, the tables change exactly as PublisherLedger     *)
(* says.                                                                   *)
(***************************************************************************)
THEOREM PublisherImplementsLedger == Spec => PubLedgerSpec
<1>1. Init => PubLedgerInit
  BY DEF Init
<1>2. PubInv /\ [Next]_vars => [PubLedgerNext]_pubLedgerVars
  <2>1. SUFFICES ASSUME PubInv, [Next]_vars PROVE [PubLedgerNext]_pubLedgerVars
    OBVIOUS
  <2>2. ASSUME NEW c \in Calls, Begin(c) \/ Reject(c) \/ Step(c)
        PROVE  [PubLedgerNext]_pubLedgerVars
    <3>1. Pub(c) \in Publishers /\ Amt(c) \in Amounts
      BY <2>1, PubCallTypes
    <3>2. CASE Commit(c)
      BY <2>1, <3>1, <3>2, CommitPosts DEF PubLedgerNext
    <3>3. CASE SettlePending(c)
      BY <3>1, <3>3 DEF SettlePending, PubLedgerNext
    <3>4. QED
      BY <2>2, <3>2, <3>3
         DEF Begin, Reject, Step, Progress, Connect, RevenueUpsert, WithdrawSelect,
             WithdrawNotFound, WithdrawInsufficient, WithdrawUpdate, Insert, Fail
  <2>3. ASSUME NEW w \in Calls, NEW r \in Reviewers, ApproveWithdraw(w, r)
        PROVE  [PubLedgerNext]_pubLedgerVars
    BY <2>3 DEF ApproveWithdraw, PubLedgerNext
  <2>4. ASSUME NEW p \in Publishers, GetOrCreate(p) PROVE [PubLedgerNext]_pubLedgerVars
    BY <2>4 DEF GetOrCreate, PubLedgerNext
  <2>5. CASE UNCHANGED vars
    BY <2>5 DEF vars, pubLedgerVars
  <2>6. QED
    BY <2>1, <2>2, <2>3, <2>4, <2>5 DEF Next, Finished
<1>3. QED
  BY <1>1, <1>2, PublisherInvariant, PTL DEF Spec, PubLedgerSpec

\* The types hold, the pool's limit and what is counted against it included.
THEOREM PublisherTypes == Spec => []TypeOK
<1>1. PubInv => TypeOK
  BY DEF PubInv, PubTypes, Pool, TypeOK, PubLedgerTypeOK, Labels, Connected
<1>2. QED
  BY <1>1, PublisherInvariant, PTL

\* No transaction overwrites what another one wrote.
THEOREM PublisherNoLostUpdate == Spec => []NoLostUpdate
<1>1. PubInv => NoLostUpdate
  BY DEF PubInv, Held, NoLostUpdate
<1>2. QED
  BY <1>1, PublisherInvariant, PTL

\* No publisher withdraws more than was settled, whatever withdrawals race.
THEOREM PublisherNeverOverwithdrawn == Spec => []NeverOverwithdrawn
<1>1. PubInv => NeverOverwithdrawn
  BY DEF PubInv
<1>2. QED
  BY <1>1, PublisherInvariant, PTL

\* The answer to a withdrawal is what happened to it, except after the error of COMMIT.
THEOREM PublisherOutcomeIsTruth == Spec => []WithdrawOutcomeIsTruth
<1>1. ASSUME PubInv PROVE WithdrawOutcomeIsTruth
  <2>1. ASSUME NEW c \in Calls, req[c].op = "withdraw"
        PROVE  /\ WithdrawStatus(c) = 200 =>
                    /\ InTable(c)
                    /\ requests[c].pub = Pub(c)
                    /\ requests[c].amount = Stored(Amt(c))
               /\ WithdrawStatus(c) = 400 \/ pc[c] \in Refusals => ~InTable(c)
    <3>1. CallInv(c)
      BY <1>1, PubCallTypes
    <3>2. /\ WithdrawStatus(c) = 200 => pc[c] = "ok"
          /\ WithdrawStatus(c) = 400 => pc[c] \in Refusals
      BY DEF WithdrawStatus, Refusals
    <3>3. QED
      BY <2>1, <3>1, <3>2 DEF CallInv, Refusals
  <2>2. QED
    BY <2>1 DEF WithdrawOutcomeIsTruth
<1>2. QED
  BY <1>1, PublisherInvariant, PTL

\* Of any number of reviewers racing for a withdrawal at most one is told it is approved.
THEOREM WithdrawalsApprovedOnce == Spec => []ApprovedOnce
<1>1. PubInv => ApprovedOnce
  BY DEF PubInv
<1>2. QED
  BY <1>1, PublisherInvariant, PTL

\* What the ledger promises of revenue, the concurrent transactions deliver.
THEOREM PublisherConservesRevenue == Spec => []RevenueConserved
<1>1. QED
  BY PublisherImplementsLedger, LedgerConservesRevenue, PTL

\* What the ledger promises of withdrawals and requests, the transactions deliver.
THEOREM PublisherReservesRequests == Spec => []WithdrawnIsRequested
<1>1. QED
  BY PublisherImplementsLedger, LedgerReservesRequests, PTL
==============================================================================
