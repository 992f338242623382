----------------------------- MODULE BillingPipeline -----------------------------
(***************************************************************************)
(* An event on its way through the whole service as main.go builds it: the *)
(* consumer group of EventConsumer calling the stores it charges and       *)
(* credits.  A charge (SpendForEvent) is first a script on the balance     *)
(* cached in Redis and, when the script did not debit, a transaction on    *)
(* the advertiser tables of AdvertiserLedger; a credit is one on the       *)
(* publisher tables of PublisherLedger; PlatformFees splits the price      *)
(* between them.                                                           *)
(*                                                                         *)
(* All events name one advertiser and one publisher, and the advertiser    *)
(* recharges once.  Journal rows are named by the event that caused them,  *)
(* their ref_id.  A charge of EventConsumer is one that SpendForEvent      *)
(* knows of: a debit whose reply is lost is counted apart, in `hidden`.    *)
(*                                                                         *)
(* CacheFaults names what may go wrong with Redis:                         *)
(*   "redis"  a command fails without having been executed                 *)
(*   "reply"  a command is executed, its reply lost: go-redis sends it     *)
(*            again, at most MaxTries times in all, before it fails        *)
(*   "flush"  Redis loses the key                                          *)
(***************************************************************************)
EXTENDS EventConsumer, Functions

CONSTANTS
  Advertiser, Publisher,
  Recharges,       \* what the advertiser may pay in, once, in grains
  CacheFaults,
  MaxTries,        \* attempts go-redis makes at one command
  NoKey            \* the value of an absent Redis key

ASSUME PipelineAssumption ==
  /\ Recharges \subseteq Nat
  /\ CacheFaults \subseteq {"redis", "reply", "flush"}
  /\ MaxTries \in Nat \ {0}
  /\ NoKey \notin Int

VARIABLES
  acct, ledger,    \* the advertiser tables
  pub, journal,    \* the publisher tables
  redis,           \* advertiser:balance:<id>, in grains, or NoKey
  left,            \* left[i]: attempts i has left at the script; with none, PostgreSQL is next
  after, syncs,    \* the recharge's BalanceAfter, and the attempts left at its HSET
  debits,          \* history, per event: times the script debited Redis
  hidden           \* history, per event: debits whose reply was lost

advertiserVars == <<acct, ledger>>
publisherVars == <<pub, journal>>
syncVars == <<after, syncs>>
debitVars == <<debits, hidden>>
pipelineVars == <<vars, advertiserVars, publisherVars, redis, left, syncVars, debitVars>>

\* The ref_id of the recharge; events are named by their offsets.
RechargeRef == 0

Adv == INSTANCE AdvertiserLedger WITH
         Advertisers <- {Advertiser}, Calls <- Offsets \union {RechargeRef},
         Amounts <- Prices \union Recharges

\* Nothing is settled or withdrawn here, and net revenue is a whole number of units.
Pub == INSTANCE PublisherLedger WITH
         Publishers <- {Publisher}, Calls <- Offsets, Reviewers <- {}, Null <- None,
         Amounts <- {Grains(Net(p, Rate)) : p \in Prices},
         requests <- [o \in Offsets |-> None],
         rough <- [p \in {Publisher} |-> 0],
         credited <- [p \in {Publisher} |-> pub[p].pending]

PipelineInit ==
  /\ Init
  /\ Adv!LedgerInit
  /\ pub = [p \in {Publisher} |-> Pub!NoPubRow]
  /\ journal = [p \in {Publisher} |-> <<>>]
  /\ redis = NoKey
  /\ left = [i \in Instances |-> 0]
  /\ after = 0 /\ syncs = 0
  /\ debits = [o \in Offsets |-> 0]
  /\ hidden = [o \in Offsets |-> 0]

------------------------------------------------------------------------------
(* The recharge, over HTTP, and its HSET. *)

Recharge ==
  /\ ~Adv!Posted(RechargeRef)
  /\ \E amt \in Recharges : Adv!Recharge(RechargeRef, Advertiser, amt)
  /\ after' = acct'[Advertiser].balance
  /\ syncs' = MaxTries
  /\ UNCHANGED <<vars, publisherVars, redis, left, debitVars>>

\* syncRedisBalance writes the balance of the recharge, whatever was spent since.
Sync ==
  /\ syncs > 0
  /\ redis' = Grains(after)
  /\ \/ syncs' = 0
     \/ "reply" \in CacheFaults /\ syncs' = syncs - 1
  /\ UNCHANGED <<vars, advertiserVars, publisherVars, left, after, debitVars>>

\* The HSET fails, its error ignored, or is never sent: the commit was not
\* acknowledged, or the instance died after it.
SyncFails ==
  /\ "redis" \in CacheFaults
  /\ syncs > 0
  /\ syncs' = 0
  /\ UNCHANGED <<vars, advertiserVars, publisherVars, redis, left, after, debitVars>>

Flush ==
  /\ "flush" \in CacheFaults
  /\ redis # NoKey
  /\ redis' = NoKey
  /\ UNCHANGED <<vars, advertiserVars, publisherVars, left, syncVars, debitVars>>

------------------------------------------------------------------------------
(* SpendForEvent, for the message i has in hand. *)

DeliverStep(i) ==
  /\ Deliver(i)
  /\ left' = [left EXCEPT ![i] = MaxTries]
  /\ UNCHANGED <<advertiserVars, publisherVars, redis, syncVars, debitVars>>

\* The script's comparison: there is a key and it covers the price.
CacheCovers(i) == redis # NoKey /\ redis >= Current(i).price

\* The script is sent, or sent again.
Asks(i) == step[i] = "spend" /\ Live(i) /\ left[i] > 0

\* i has no more to ask of Redis for its message.
AskedEnough(i) == left' = [left EXCEPT ![i] = 0]

\* The reply of i's script is lost, and i tries again or turns to PostgreSQL.
ReplyLost(i) ==
  /\ "reply" \in CacheFaults
  /\ left' = [left EXCEPT ![i] = @ - 1]
  /\ UNCHANGED vars

\* Mutant of LuaDebit: a script that finds too little reports success all the same.
LuaDebitUnchecked(i) ==
  /\ Asks(i)
  /\ redis # NoKey
  /\ IF CacheCovers(i)
       THEN /\ redis' = redis - Current(i).price
            /\ debits' = Once(debits, i)
       ELSE UNCHANGED <<redis, debits>>
  /\ \/ Charge(i) /\ AskedEnough(i) /\ UNCHANGED hidden
     \/ ReplyLost(i) /\ hidden' = Once(hidden, i)
  /\ UNCHANGED <<advertiserVars, publisherVars, syncVars>>

\* The script debits Redis: PostgreSQL never hears of the charge.
LuaDebit(i) ==
  /\ Asks(i)
  /\ CacheCovers(i)
  /\ redis' = redis - Current(i).price
  /\ debits' = Once(debits, i)
  /\ \/ Charge(i) /\ AskedEnough(i) /\ UNCHANGED hidden
     \/ ReplyLost(i) /\ hidden' = Once(hidden, i)
  /\ UNCHANGED <<advertiserVars, publisherVars, syncVars>>

\* No key, too little, or an error: the charge falls back to PostgreSQL.
LuaDeclined(i) ==
  /\ Asks(i)
  /\ ~CacheCovers(i) \/ "redis" \in CacheFaults
  /\ \/ AskedEnough(i) /\ UNCHANGED vars
     \/ ~CacheCovers(i) /\ ReplyLost(i)
  /\ UNCHANGED <<advertiserVars, publisherVars, redis, syncVars, debitVars>>

\* SpendAtomic for the message i has in hand.
Spend(i) == Adv!Spend(next[i], Advertiser, Current(i).price)

\* PostgreSQL refuses: no account, or too little in it.
Refused(i) ==
  /\ ~acct[Advertiser].exists \/ ~Adv!Affordable(acct[Advertiser], Current(i).price)
  /\ UNCHANGED advertiserVars

\* The fallback's outcome is what the balance makes it, a failure aside; under a
\* cancelled context script and fallback both fail.
ChargeStep(i) ==
  /\ \/ left[i] = 0 /\ Charge(i) /\ Spend(i)
     \/ left[i] = 0 /\ ChargeRefused(i) /\ Refused(i)
     \/ left[i] = 0 /\ ChargeFails(i) /\ charged' # charged /\ Spend(i)
     \/ (left[i] = 0 \/ ~Live(i)) /\ ChargeFails(i) /\ charged' = charged /\ UNCHANGED advertiserVars
  /\ AskedEnough(i)
  /\ UNCHANGED <<publisherVars, redis, syncVars, debitVars>>

------------------------------------------------------------------------------
\* Mutant of Revenue: the publisher is credited the gross price.
RevenueGross(price) == Grains(Stored(price))

\* What handleImpressionEvent adds to the publisher's revenue.
Revenue(price) == Grains(Net(price, Rate))

CreditStep(i) ==
  /\ AddRevenue(i)
  /\ IF credited' = credited
       THEN UNCHANGED publisherVars
       ELSE Pub!Credit(next[i], Publisher, Revenue(Current(i).price))
  /\ UNCHANGED <<advertiserVars, redis, left, syncVars, debitVars>>

ElsewhereStep ==
  /\ \/ Publish
     \/ \E i \in Instances :
          \/ Join(i) \/ Fetch(i) \/ CalcFees(i) \/ Mark(i) \/ AutoCommit(i)
          \/ Cancel(i) \/ Leave(i) \/ Evict(i) \/ Crash(i)
     \/ Idle
  /\ UNCHANGED <<advertiserVars, publisherVars, redis, left, syncVars, debitVars>>

PipelineNext ==
  \/ Recharge \/ Sync \/ SyncFails \/ Flush
  \/ \E i \in Instances :
       \/ DeliverStep(i) \/ LuaDebit(i) \/ LuaDeclined(i) \/ ChargeStep(i)
       \/ CreditStep(i)
  \/ ElsewhereStep

PipelineSpec == PipelineInit /\ [][PipelineNext]_pipelineVars

------------------------------------------------------------------------------
Postings(entries, o) == {n \in DOMAIN entries : entries[n].call = o}

\* The price of an event as a column holds it.
Paid(o) == IF o \in 1 .. Len(log) THEN Stored(log[o].price) ELSE 0

(***************************************************************************)
(* The books reconcile by ref_id, Redis included: an event appears in the  *)
(* publisher's journal no more often than the advertiser was charged for   *)
(* it, by spend rows and debits of the cache together, and these are no    *)
(* more than the sessions that read it and the replies Redis lost.  Each   *)
(* revenue row and the platform's fee make up the price, each spend row is *)
(* the price.  The stores are written one after the other by steps that    *)
(* may fail, be repeated by another member, or be cut off by a crash.  The *)
(* advertiser's journal alone does not cover the publisher's: the row that *)
(* docs/architecture.md:147-150 inserts after a debit of Redis is written  *)
(* by no code.                                                             *)
(***************************************************************************)
JournalsReconcile ==
  \A o \in 1 .. Len(log) :
    LET spends == Postings(ledger[Advertiser], o)
        revenues == Postings(journal[Publisher], o)
    IN  /\ Cardinality(revenues) <= Cardinality(spends) + debits[o]
        /\ Cardinality(spends) + debits[o] <= sessions + hidden[o]
        /\ \A r \in revenues :
             journal[Publisher][r].amount + Fee(log[o].price, Rate) = Paid(o)
        /\ \A s \in spends : -ledger[Advertiser][s].amount = Paid(o)

\* The platform's fees on the events publishers were credited for.
FeesEarned ==
  SumFunction([n \in DOMAIN journal[Publisher] |->
                 Fee(log[journal[Publisher][n].call].price, Rate)])

\* What the script took for events, each debit rounded to the unit.
TakenFromCache == SumFunction([o \in Offsets |-> debits[o] * Paid(o)])

(***************************************************************************)
(* The platform never pays for an event out of its own pocket: what the    *)
(* publisher was credited, and the platform's fees on it, were taken from  *)
(* the advertiser before, in PostgreSQL or in Redis.  A debit in Redis is  *)
(* exact where revenue is rounded, so up to half a unit for each.          *)
(***************************************************************************)
PayoutsCovered ==
  pub[Publisher].pending + FeesEarned <= acct[Advertiser].spent + TakenFromCache
==============================================================================
