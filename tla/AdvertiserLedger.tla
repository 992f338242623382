--------------------------- MODULE AdvertiserLedger ---------------------------
(***************************************************************************)
(* What the advertiser tables promise: a recharge, a spend and an account  *)
(* creation each happen at one instant, on the account row and on its      *)
(* journal together, and each call posts at most one journal row.          *)
(*                                                                         *)
(* AdvertiserAccount shows that the SQL transactions of                    *)
(* internal/repo/advertiser.go implement this specification;               *)
(* AdvertiserBilling is built on its atomic operations.                    *)
(***************************************************************************)
EXTENDS Decimal, Sequences

CONSTANTS
  Advertisers,     \* advertiser ids
  Calls,           \* identities of repository calls, one journal row at most each
  Amounts          \* requested amounts, in grains

ASSUME AmountsAssumption == Amounts \subseteq Int

VARIABLES
  acct,            \* advertiser_accounts: [Advertisers -> Row]
  ledger           \* balance_transactions of each advertiser, in id order

ledgerVars == <<acct, ledger>>

Row == [exists : BOOLEAN, balance : Int, recharged : Int, spent : Int]

NoRow == [exists |-> FALSE, balance |-> 0, recharged |-> 0, spent |-> 0]

\* The columns' defaults (migrations/001).
NewRow == [exists |-> TRUE, balance |-> 0, recharged |-> 0, spent |-> 0]

TxTypes == {"recharge", "spend"}

Entry == [call : Calls, type : TxTypes, amount : Int, after : Int]

------------------------------------------------------------------------------
(* The row transformations of the two UPDATE statements. *)

\* INSERT ... ON CONFLICT DO UPDATE of Recharge; an absent row counts as zeros.
Recharged(row, amt) ==
  [exists    |-> TRUE,
   balance   |-> Stored(Grains(row.balance) + amt),
   recharged |-> Stored(Grains(row.recharged) + amt),
   spent     |-> row.spent]

\* Mutant of Affordable: the balance only has to be positive.
AffordableIfPositive(row, amt) == row.balance > 0

\* The check SpendAtomic makes in Go before it updates anything.
Affordable(row, amt) == Grains(row.balance) >= amt

\* Mutant of Debited: total_spent is left as it was.
DebitedUncounted(row, amt) == [row EXCEPT !.balance = Stored(Grains(@) - amt)]

\* UPDATE ... SET balance = balance - $2, total_spent = total_spent + $2.
Debited(row, amt) ==
  [exists    |-> row.exists,
   balance   |-> Stored(Grains(row.balance) - amt),
   recharged |-> row.recharged,
   spent     |-> Stored(Grains(row.spent) + amt)]

\* The journal row inserted in the same transaction, for the updated row.
RechargeEntry(c, row, amt) ==
  [call |-> c, type |-> "recharge", amount |-> Stored(amt), after |-> row.balance]

\* Mutant of SpendEntry: the amount is journalled without its minus sign.
SpendEntryUnsigned(c, row, amt) ==
  [call |-> c, type |-> "spend", amount |-> Stored(amt), after |-> row.balance]

SpendEntry(c, row, amt) ==
  [call |-> c, type |-> "spend", amount |-> Stored(-amt), after |-> row.balance]

Posted(c) ==
  \E a \in Advertisers : \E i \in DOMAIN ledger[a] : ledger[a][i].call = c

------------------------------------------------------------------------------
LedgerInit ==
  /\ acct = [a \in Advertisers |-> NoRow]
  /\ ledger = [a \in Advertisers |-> <<>>]

Recharge(c, a, amt) ==
  /\ amt > 0
  /\ acct' = [acct EXCEPT ![a] = Recharged(acct[a], amt)]
  /\ ledger' = [ledger EXCEPT ![a] =
                  Append(ledger[a], RechargeEntry(c, Recharged(acct[a], amt), amt))]

Spend(c, a, amt) ==
  /\ amt > 0
  /\ acct[a].exists
  /\ Affordable(acct[a], amt)
  /\ acct' = [acct EXCEPT ![a] = Debited(acct[a], amt)]
  /\ ledger' = [ledger EXCEPT ![a] =
                  Append(ledger[a], SpendEntry(c, Debited(acct[a], amt), amt))]

\* GetOrCreate: INSERT ... ON CONFLICT DO NOTHING.
Open(a) ==
  /\ ~acct[a].exists
  /\ acct' = [acct EXCEPT ![a] = NewRow]
  /\ UNCHANGED ledger

Post(c, a, amt) == Recharge(c, a, amt) \/ Spend(c, a, amt)

LedgerNext ==
  \/ \E a \in Advertisers : Open(a)
  \/ \E c \in Calls, a \in Advertisers, amt \in Amounts :
       ~Posted(c) /\ Post(c, a, amt)

LedgerSpec == LedgerInit /\ [][LedgerNext]_ledgerVars

------------------------------------------------------------------------------
LedgerTypeOK ==
  /\ acct \in [Advertisers -> Row]
  /\ ledger \in [Advertisers -> Seq(Entry)]

(***************************************************************************)
(* No advertiser is ever in debt: no order of recharges and spends takes a *)
(* balance below zero.  The table has no CHECK constraint, only the test   *)
(* SpendAtomic makes in Go on a row it has locked.                         *)
(***************************************************************************)
NeverOverdrawn == \A a \in Advertisers : acct[a].balance >= 0

\* What balance + total_spent has gained over total_recharge.
Drift(a) == acct[a].balance + acct[a].spent - acct[a].recharged

(***************************************************************************)
(* Money is conserved up to rounding: each spend may add one unit of       *)
(* 0.0001 to balance + total_spent (both columns round the same half in    *)
(* opposite directions), nothing else moves the sum, nothing lowers it,    *)
(* and on amounts with four decimals it is exact.                          *)
(***************************************************************************)
Conservation ==
  \A a \in Advertisers :
    /\ Drift(a) \in 0 .. Len(ledger[a])
    /\ Grid = 1 => Drift(a) = 0

\* The balance an entry started from, read off the journal itself.
Before(entries, i) == IF i = 1 THEN 0 ELSE entries[i - 1].after

\* The entry accounts for its balance_after; a spend may lose one unit to rounding.
Explains(before, e) ==
  e.after - (before + e.amount)
    \in IF e.type = "spend" /\ Grid > 1 THEN {0, 1} ELSE {0}

Chained(entries, balance) ==
  /\ \A i \in 1 .. Len(entries) : Explains(Before(entries, i), entries[i])
  /\ balance = Before(entries, Len(entries) + 1)

(***************************************************************************)
(* The journal explains the account: reading it in id order, every row's   *)
(* balance_after is its predecessor's plus its own amount, and the last    *)
(* one is the balance.  A transaction that computed its row from a stale   *)
(* balance would break the chain.                                          *)
(***************************************************************************)
JournalChain == \A a \in Advertisers : Chained(ledger[a], acct[a].balance)
==============================================================================
