------------------------ MODULE AdvertiserBillingProofs ------------------------
(***************************************************************************)
(* What AdvertiserBilling promises of its two stores holds for any number  *)
(* of advertisers and calls, any amounts, any faults and any number of     *)
(* attempts of the Redis client.                                           *)
(***************************************************************************)
EXTENDS AdvertiserBilling, AdvertiserLedgerProofs

Labels == Running \union Outcomes \union {"idle"}

ServiceTypes ==
  /\ redis \in [Advertisers -> Int \union {NoKey}]
  /\ useRedis \in BOOLEAN
  /\ req \in [Calls -> Requests]
  /\ pc \in [Calls -> Labels]
  /\ {after, lost, taken} \subseteq [Calls -> Nat]
  /\ {viaCache, synced} \subseteq [Advertisers -> Nat]

\* No balance exceeds what was paid in, whatever rounding adds to the columns.
Backed(a) == acct[a].balance <= acct[a].recharged

\* The cached balance of one advertiser.
CacheInv(a) ==
  /\ redis[a] # NoKey => redis[a] \in 0 .. Grains(acct[a].recharged)
  /\ viaCache[a] + (IF redis[a] = NoKey THEN 0 ELSE redis[a]) <= synced[a]
  /\ ~useRedis => viaCache[a] = 0

\* Where a call that has not been charged for good may be.
Uncharged == {"idle", "recharge", "lua", "pg_spend"} \union Refusals

\* What the position of a call says of its request, of its charges, and of the
\* balance it is about to write to the cache.
CallInv(c) ==
  /\ pc[c] \in Running => Amt(c) > 0
  /\ pc[c] \in {"recharge", "sync"} => req[c].op = "recharge"
  /\ pc[c] \in {"lua", "pg_spend"} => req[c].op # "recharge"
  /\ pc[c] \in {"lua", "sync"} => useRedis
  /\ pc[c] = "sync" => after[c] <= acct[Adv(c)].recharged
  /\ pc[c] = "idle" \/ req[c].op = "recharge" => taken[c] = 0
  /\ pc[c] \in Uncharged => ~Posted(c) /\ taken[c] <= lost[c]
  /\ Posted(c) => taken[c] <= lost[c]
  /\ taken[c] <= lost[c] + 1
  /\ pc[c] = "ok" /\ req[c].op # "recharge" /\ Amt(c) > 0 => Posted(c) \/ taken[c] >= 1

\* The inductive invariant of Spec.
BillingInv ==
  /\ ServiceTypes
  /\ LedgerInv
  /\ \A a \in Advertisers : Backed(a) /\ CacheInv(a)
  /\ \A c \in Calls : CallInv(c)

------------------------------------------------------------------------------
(* The ledger's side. *)

\* More units are more grains.
LEMMA GrainsMonotone ==
  ASSUME NEW u \in Nat, NEW v \in Nat, u <= v
  PROVE  Grains(u) \in Nat /\ Grains(v) \in Nat /\ Grains(u) <= Grains(v)
<1>1. Grid \in Nat
  BY GridAssumption
<1>2. PICK k \in Nat : v = u + k
  BY v - u \in Nat
<1>3. u * Grid \in Nat /\ k * Grid \in Nat /\ v * Grid = u * Grid + k * Grid
  BY <1>1, <1>2
<1>4. QED
  BY <1>3 DEF Grains

\* What a ledger operation leaves of the facts about the account rows.
Advances ==
  /\ LedgerInv'
  /\ \A a \in Advertisers : Backed(a)' /\ acct[a].recharged <= acct'[a].recharged

\* What is known of one account row.
LEMMA RowFacts ==
  ASSUME LedgerInv, NEW a \in Advertisers
  PROVE  /\ acct[a] \in SolventRow
         /\ acct[a].balance \in Nat /\ acct[a].recharged \in Nat /\ acct[a].spent \in Nat
  BY DEF LedgerInv, Sound, SolventRow

\* Replacing one row by a row that is backed, and paid in for no less.
LEMMA RowAdvances ==
  ASSUME LedgerInv, LedgerInv', \A a \in Advertisers : Backed(a),
         NEW a \in Advertisers, NEW r, acct' = [acct EXCEPT ![a] = r],
         r.balance <= r.recharged, acct[a].recharged <= r.recharged
  PROVE  Advances
<1>1. acct \in [Advertisers -> Row]
  BY DEF LedgerInv
<1>2. ASSUME NEW b \in Advertisers
      PROVE  Backed(b)' /\ acct[b].recharged <= acct'[b].recharged
  <2>1. CASE b = a
    BY <1>1, <2>1 DEF Backed
  <2>2. CASE b # a
    <3>1. acct'[b] = acct[b] /\ acct[b].recharged \in Nat
      BY <1>1, <2>2, RowFacts
    <3>2. QED
      BY <3>1 DEF Backed
  <2>3. QED
    BY <2>1, <2>2
<1>3. QED
  BY <1>2 DEF Advances

\* A recharge, or a spend, leaves every balance backed and posts the call's entry only.
LEMMA PostAdvances ==
  ASSUME LedgerInv, \A b \in Advertisers : Backed(b),
         NEW c \in Calls, NEW a \in Advertisers, NEW amt \in Amounts,
         ~Posted(c), Post(c, a, amt)
  PROVE  /\ Advances
         /\ Posted(c)'
         /\ \A d \in Calls \ {c} : Posted(d)' <=> Posted(d)
<1>1. amt \in Nat /\ amt > 0
  BY AmountsAssumption DEF Post, Recharge, Spend
<1>2. LedgerInv'
  <2>1. LedgerNext
    BY DEF LedgerNext
  <2>2. QED
    BY <2>1, LedgerInvStep
<1>3. /\ acct[a] \in SolventRow /\ acct[a].balance \in Nat /\ acct[a].recharged \in Nat
      /\ acct[a].spent \in Nat /\ acct[a].balance <= acct[a].recharged
  BY RowFacts DEF Backed
<1>4. Advances
  <2>1. CASE Recharge(c, a, amt)
    <3> DEFINE r == Recharged(acct[a], amt)
    <3>1. Stored(amt) \in Nat
      BY <1>1, StoredNat
    <3>2. r.balance = acct[a].balance + Stored(amt) /\ r.recharged = acct[a].recharged + Stored(amt)
      BY <1>1, <1>3, RechargedRow
    <3>3. r.balance <= r.recharged /\ acct[a].recharged <= r.recharged
      BY <1>3, <3>1, <3>2
    <3>4. acct' = [acct EXCEPT ![a] = r]
      BY <2>1 DEF Recharge
    <3> HIDE DEF r
    <3>5. QED
      BY <1>2, <3>3, <3>4, RowAdvances
  <2>2. CASE Spend(c, a, amt)
    <3> DEFINE r == Debited(acct[a], amt)
    <3>1. Stored(Grains(acct[a].balance) - amt) \in Nat
          /\ Stored(Grains(acct[a].balance) - amt) <= acct[a].balance
      BY <1>1, <1>3, <2>2, StoredSub DEF Spend, Affordable
    <3>2. /\ r.balance = Stored(Grains(acct[a].balance) - amt)
          /\ r.recharged = acct[a].recharged
      BY DEF Debited
    <3>3. r.balance <= r.recharged /\ acct[a].recharged <= r.recharged
      BY <1>3, <3>1, <3>2
    <3>4. acct' = [acct EXCEPT ![a] = r]
      BY <2>2 DEF Spend
    <3> HIDE DEF r
    <3>5. QED
      BY <1>2, <3>3, <3>4, RowAdvances
  <2>3. QED
    BY <2>1, <2>2 DEF Post
<1>5. PICK e \in Entry : e.call = c /\ ledger' = [ledger EXCEPT ![a] = Append(ledger[a], e)]
  <2>1. LedgerInv' /\ ledger' \in [Advertisers -> Seq(Entry)] /\ ledger \in [Advertisers -> Seq(Entry)]
    BY <1>2 DEF LedgerInv
  <2>2. \E e : e.call = c /\ ledger' = [ledger EXCEPT ![a] = Append(ledger[a], e)]
    BY DEF Post, Recharge, Spend, RechargeEntry, SpendEntry
  <2>3. PICK e : e.call = c /\ ledger' = [ledger EXCEPT ![a] = Append(ledger[a], e)]
    BY <2>2
  <2>4. ledger'[a] = Append(ledger[a], e) /\ ledger'[a] \in Seq(Entry) /\ ledger[a] \in Seq(Entry)
    BY <2>1, <2>3
  <2>5. e \in Entry
    BY <2>4
  <2>6. QED
    BY <2>3, <2>5
<1>6. /\ ledger \in [Advertisers -> Seq(Entry)] /\ ledger[a] \in Seq(Entry)
      /\ ledger'[a] = Append(ledger[a], e) /\ \A b \in Advertisers \ {a} : ledger'[b] = ledger[b]
  BY <1>5 DEF LedgerInv
<1>7. Posted(c)'
  <2>1. Len(ledger[a]) + 1 \in DOMAIN ledger'[a] /\ ledger'[a][Len(ledger[a]) + 1] = e
    BY <1>5, <1>6
  <2>2. QED
    BY <1>5, <2>1 DEF Posted
<1>8. ASSUME NEW d \in Calls \ {c} PROVE Posted(d)' <=> Posted(d)
  <2>1. \A i \in DOMAIN ledger[a] : i \in DOMAIN ledger'[a] /\ ledger'[a][i] = ledger[a][i]
    BY <1>5, <1>6
  <2>2. \A i \in DOMAIN ledger'[a] : i \in DOMAIN ledger[a] \/ ledger'[a][i] = e
    BY <1>5, <1>6
  <2>3. QED
    BY <1>5, <1>6, <1>8, <2>1, <2>2 DEF Posted
<1>9. QED
  BY <1>4, <1>7, <1>8

\* Opening an account posts nothing.
LEMMA OpenAdvances ==
  ASSUME LedgerInv, \A b \in Advertisers : Backed(b), NEW a \in Advertisers, Open(a)
  PROVE  Advances /\ \A d \in Calls : Posted(d)' <=> Posted(d)
<1>1. LedgerInv'
  <2>1. LedgerNext
    BY DEF LedgerNext
  <2>2. QED
    BY <2>1, LedgerInvStep
<1>2. acct[a] = NoRow /\ acct' = [acct EXCEPT ![a] = NewRow] /\ ledger' = ledger
  BY DEF Open, LedgerInv, Sound
<1>3. NewRow.balance <= NewRow.recharged /\ acct[a].recharged <= NewRow.recharged
  BY <1>2 DEF NewRow, NoRow
<1>4. Advances
  BY <1>1, <1>2, <1>3, RowAdvances
<1>5. QED
  BY <1>2, <1>4 DEF Posted
------------------------------------------------------------------------------
(* The service's side. *)

\* A call that takes no step keeps what is known of it.
LEMMA OtherCall ==
  ASSUME NEW d \in Calls, CallInv(d), UNCHANGED <<req, useRedis>>,
         pc'[d] = pc[d], after'[d] = after[d], lost'[d] = lost[d], taken'[d] = taken[d],
         Posted(d)' <=> Posted(d),
         after[d] \in Nat, acct[Adv(d)].recharged \in Nat, acct'[Adv(d)].recharged \in Nat,
         acct[Adv(d)].recharged <= acct'[Adv(d)].recharged
  PROVE  CallInv(d)'
BY DEF CallInv, Adv, Amt

(***************************************************************************)
(* A step of one call preserves the invariant when it leaves the ledger    *)
(* sound, every cached balance accounted for, and the call itself where it *)
(* may be.                                                                 *)
(***************************************************************************)
LEMMA CallStep ==
  ASSUME BillingInv, NEW c \in Calls, NEW l \in Labels,
         UNCHANGED <<req, useRedis>>,
         pc' = [pc EXCEPT ![c] = l],
         {after', lost', taken'} \subseteq [Calls -> Nat],
         \A d \in Calls \ {c} :
           after'[d] = after[d] /\ lost'[d] = lost[d] /\ taken'[d] = taken[d],
         redis' \in [Advertisers -> Int \union {NoKey}],
         {viaCache', synced'} \subseteq [Advertisers -> Nat],
         Advances,
         \A d \in Calls \ {c} : Posted(d)' <=> Posted(d),
         \A a \in Advertisers : CacheInv(a)',
         CallInv(c)'
  PROVE  BillingInv'
<1>1. ServiceTypes'
  BY DEF BillingInv, ServiceTypes
<1>2. ASSUME NEW d \in Calls \ {c} PROVE CallInv(d)'
  <2>1. CallInv(d) /\ Adv(d) \in Advertisers /\ after[d] \in Nat /\ pc'[d] = pc[d]
    BY DEF BillingInv, ServiceTypes, Requests, Adv
  <2>2. /\ acct[Adv(d)].recharged \in Nat
        /\ acct[Adv(d)].recharged <= acct'[Adv(d)].recharged
    BY <2>1, RowFacts DEF BillingInv, Advances
  <2>3. acct'[Adv(d)].recharged \in Nat
    BY <2>1 DEF Advances, LedgerInv, Sound, SolventRow
  <2>4. QED
    BY <1>2, <2>1, <2>2, <2>3, OtherCall
<1>3. QED
  BY <1>1, <1>2 DEF BillingInv, Advances

\* Account rows that are left alone advance, trivially.
LEMMA SameRows ==
  ASSUME BillingInv, UNCHANGED <<acct, ledger>>
  PROVE  Advances /\ \A d \in Calls : Posted(d)' <=> Posted(d)
<1>1. LedgerInv' /\ \A d \in Calls : Posted(d)' <=> Posted(d)
  BY DEF BillingInv, LedgerInv, Posted
<1>2. ASSUME NEW a \in Advertisers PROVE Backed(a)' /\ acct[a].recharged <= acct'[a].recharged
  <2>1. acct[a].recharged \in Nat /\ Backed(a)
    BY RowFacts DEF BillingInv
  <2>2. QED
    BY <2>1 DEF Backed
<1>3. QED
  BY <1>1, <1>2 DEF Advances

\* The types a step needs of the call and of its advertiser.
LEMMA CallTypes ==
  ASSUME BillingInv, NEW c \in Calls
  PROVE  /\ Adv(c) \in Advertisers /\ Amt(c) \in Amounts /\ Amt(c) \in Int
         /\ req[c].op \in {"recharge", "spend", "correct"}
         /\ pc \in [Calls -> Labels]
         /\ after \in [Calls -> Nat] /\ lost \in [Calls -> Nat] /\ taken \in [Calls -> Nat]
         /\ viaCache \in [Advertisers -> Nat] /\ synced \in [Advertisers -> Nat]
         /\ redis \in [Advertisers -> Int \union {NoKey}] /\ NoKey \notin Int
         /\ CallInv(c)
BY AmountsAssumption, BillingAssumption DEF BillingInv, ServiceTypes, Requests, Adv, Amt

\* A cached balance no step touches stays accounted for while the account is paid in.
LEMMA CacheAdvances ==
  ASSUME BillingInv, Advances, UNCHANGED <<redis, useRedis, viaCache, synced>>
  PROVE  \A a \in Advertisers : CacheInv(a)'
<1>1. SUFFICES ASSUME NEW a \in Advertisers PROVE CacheInv(a)'
  OBVIOUS
<1>2. /\ acct[a].recharged \in Nat /\ acct'[a].recharged \in Nat
      /\ acct[a].recharged <= acct'[a].recharged
  BY RowFacts DEF BillingInv, Advances, LedgerInv, Sound, SolventRow
<1>3. /\ Grains(acct[a].recharged) \in Nat /\ Grains(acct'[a].recharged) \in Nat
      /\ Grains(acct[a].recharged) <= Grains(acct'[a].recharged)
  BY <1>2, GrainsMonotone
<1>4. CacheInv(a) /\ redis[a] \in Int \union {NoKey}
  BY DEF BillingInv, ServiceTypes
<1>5. Grains(acct[a].recharged)' = Grains(acct'[a].recharged)
  BY DEF Grains
<1>6. QED
  BY <1>3, <1>4, <1>5 DEF CacheInv

\* Steps that touch neither store: refusals, errors, crashes, a script that declines.
LEMMA PlainStep ==
  ASSUME BillingInv, NEW c \in Calls,
         \/ Start(c) \/ SpendRefused(c) \/ FailPG(c)
         \/ LuaDeclined(c) \/ FailRedis(c) \/ Crash(c)
  PROVE  BillingInv'
<1>1. UNCHANGED <<acct, ledger, redis, useRedis, req, after, taken, viaCache, synced>>
  BY DEF Start, SpendRefused, FailPG, LuaDeclined, FailRedis, Crash, Ends, history
<1>2. /\ Adv(c) \in Advertisers /\ Amt(c) \in Int
      /\ req[c].op \in {"recharge", "spend", "correct"}
      /\ pc \in [Calls -> Labels] /\ lost \in [Calls -> Nat] /\ taken[c] \in Nat /\ CallInv(c)
  BY CallTypes
<1>3. lost' = lost \/ lost' = [lost EXCEPT ![c] = lost[c] + 1]
  BY DEF Start, SpendRefused, FailPG, LuaDeclined, FailRedis, Crash, Ends, Replied
<1>4. lost' \in [Calls -> Nat] /\ lost'[c] >= lost[c]
      /\ \A d \in Calls \ {c} : lost'[d] = lost[d]
  BY <1>2, <1>3
<1>5. PICK l \in Labels : /\ pc' = [pc EXCEPT ![c] = l]
                          /\ CallInv(c)'
  <2>1. Advances /\ (Posted(c)' <=> Posted(c)) /\ Adv(c)' = Adv(c) /\ Amt(c)' = Amt(c)
    BY <1>1, SameRows DEF Adv, Amt
  <2>2. ASSUME NEW l \in Labels, pc' = [pc EXCEPT ![c] = l],
               l # "sync",
               l \in Running => Amt(c) > 0,
               l = "recharge" => req[c].op = "recharge",
               l \in {"lua", "pg_spend"} => req[c].op # "recharge",
               l = "lua" => useRedis,
               l \in Uncharged => pc[c] \in Uncharged,
               l = "idle" => pc[c] = "idle",
               l = "ok" => req[c].op = "recharge" \/ Amt(c) <= 0
        PROVE  CallInv(c)'
    <3>1. pc'[c] = l /\ taken'[c] = taken[c] /\ req'[c] = req[c] /\ useRedis' = useRedis
      BY <1>1, <1>2, <2>2
    <3>2. QED
      BY <1>2, <1>4, <2>1, <2>2, <3>1 DEF CallInv
  <2>3. \E l \in Labels :
          /\ pc' = [pc EXCEPT ![c] = l]
          /\ l # "sync"
          /\ l \in Running => Amt(c) > 0
          /\ l = "recharge" => req[c].op = "recharge"
          /\ l \in {"lua", "pg_spend"} => req[c].op # "recharge"
          /\ l = "lua" => useRedis
          /\ l \in Uncharged => pc[c] \in Uncharged
          /\ l = "idle" => pc[c] = "idle"
          /\ l = "ok" => req[c].op = "recharge" \/ Amt(c) <= 0
    <3> USE DEF Labels, Running, Outcomes, Refusals, Uncharged, Goto
    <3>1. CASE Start(c)
      BY <1>2, <3>1 DEF Start, CallInv
    <3>2. CASE SpendRefused(c)
      BY <1>2, <3>2 DEF SpendRefused, Ends
    <3>3. CASE FailPG(c)
      BY <1>2, <3>3 DEF FailPG, Ends
    <3>4. CASE LuaDeclined(c)
      BY <1>2, <3>4 DEF LuaDeclined, Replied, CallInv
    <3>5. CASE FailRedis(c)
      BY <1>2, <3>5 DEF FailRedis, Ends, CallInv
    <3>6. CASE Crash(c)
      BY <1>2, <3>6 DEF Crash, Ends
    <3>7. QED
      BY <3>1, <3>2, <3>3, <3>4, <3>5, <3>6
  <2>4. QED
    BY <2>2, <2>3
<1>6. Advances /\ \A d \in Calls : Posted(d)' <=> Posted(d)
  BY <1>1, SameRows
<1>7. \A a \in Advertisers : CacheInv(a)'
  BY <1>1, <1>6, CacheAdvances
<1>8. /\ {after', lost', taken'} \subseteq [Calls -> Nat]
      /\ redis' \in [Advertisers -> Int \union {NoKey}]
      /\ {viaCache', synced'} \subseteq [Advertisers -> Nat]
  BY <1>1, <1>4, CallTypes
<1>9. QED
  BY <1>1, <1>4, <1>5, <1>6, <1>7, <1>8, CallStep

\* A transaction that commits, acknowledged or not.
LEMMA TransactionStep ==
  ASSUME BillingInv, NEW c \in Calls, RechargePG(c) \/ SpendPG(c)
  PROVE  BillingInv'
<1>1. /\ UNCHANGED <<redis, useRedis, req, lost, taken, viaCache, synced>>
      /\ Post(c, Adv(c), Amt(c))
  BY DEF RechargePG, SpendPG, Post, history
<1>2. /\ Adv(c) \in Advertisers /\ Amt(c) \in Amounts /\ Amt(c) \in Int
      /\ pc \in [Calls -> Labels] /\ after \in [Calls -> Nat] /\ lost[c] \in Nat
      /\ taken[c] \in Nat /\ CallInv(c)
  BY CallTypes
<1>3. ~Posted(c) /\ taken[c] <= lost[c]
  BY <1>2 DEF RechargePG, SpendPG, CallInv, Uncharged
<1>4. /\ Advances /\ Posted(c)' /\ \A d \in Calls \ {c} : Posted(d)' <=> Posted(d)
  BY <1>1, <1>2, <1>3, PostAdvances DEF BillingInv
<1>5. \A a \in Advertisers : CacheInv(a)'
  BY <1>1, <1>4, CacheAdvances
<1>6. Adv(c)' = Adv(c) /\ Amt(c)' = Amt(c) /\ req'[c] = req[c] /\ taken'[c] = taken[c]
      /\ lost'[c] = lost[c] /\ useRedis' = useRedis
  BY <1>1 DEF Adv, Amt
<1>7. acct'[Adv(c)].balance \in Nat /\ acct'[Adv(c)].balance <= acct'[Adv(c)].recharged
  <2>1. acct'[Adv(c)] \in SolventRow
    BY <1>2, <1>4 DEF Advances, LedgerInv, Sound
  <2>2. acct'[Adv(c)].balance <= acct'[Adv(c)].recharged
    BY <1>2, <1>4 DEF Advances, Backed
  <2>3. QED
    BY <2>1, <2>2 DEF SolventRow
<1>8. CASE RechargePG(c)
  <2>1. after' = [after EXCEPT ![c] = acct'[Adv(c)].balance]
    BY <1>8 DEF RechargePG
  <2>2. after' \in [Calls -> Nat] /\ after'[c] = acct'[Adv(c)].balance
        /\ \A d \in Calls \ {c} : after'[d] = after[d]
    BY <1>2, <1>7, <2>1
  <2>3. PICK l \in {"sync", "ok", "failed"} :
          pc' = [pc EXCEPT ![c] = l] /\ (l = "sync" => useRedis)
    BY <1>8 DEF RechargePG, Goto
  <2>4. req[c].op = "recharge" /\ taken[c] = 0 /\ Amt(c) > 0
    BY <1>2, <1>8 DEF RechargePG, CallInv, Running
  <2>5. CallInv(c)'
    <3>1. pc'[c] = l
      BY <1>2, <2>3
    <3>2. QED
      BY <1>2, <1>6, <1>7, <2>2, <2>3, <2>4, <3>1
         DEF CallInv, Running, Uncharged, Refusals
  <2>6. l \in Labels
    BY DEF Labels, Running, Outcomes
  <2>7. QED
    BY <1>1, <1>4, <1>5, <2>2, <2>3, <2>5, <2>6, CallStep, CallTypes
<1>9. CASE SpendPG(c)
  <2>1. after' = after
    BY <1>9 DEF SpendPG
  <2>2. PICK l \in {"ok", "failed"} : pc' = [pc EXCEPT ![c] = l]
    BY <1>9 DEF SpendPG, Goto
  <2>3. req[c].op # "recharge"
    BY <1>2, <1>9 DEF SpendPG, CallInv
  <2>4. CallInv(c)'
    <3>1. pc'[c] = l
      BY <1>2, <2>2
    <3>2. QED
      BY <1>2, <1>3, <1>4, <1>6, <2>2, <2>3, <3>1
         DEF CallInv, Running, Uncharged, Refusals
  <2>5. l \in Labels
    BY DEF Labels, Outcomes
  <2>6. QED
    BY <1>1, <1>4, <1>5, <2>1, <2>2, <2>4, <2>5, CallStep, CallTypes
<1>10. QED
  BY <1>8, <1>9

\* GetAccount opens the row; no call notices.
LEMMA OpenStep ==
  ASSUME BillingInv, NEW a \in Advertisers, GetAccount(a)
  PROVE  BillingInv'
<1>1. UNCHANGED <<redis, useRedis, req, pc, after, lost, taken, viaCache, synced>>
  BY DEF GetAccount, callVars, history
<1>2. Advances /\ \A d \in Calls : Posted(d)' <=> Posted(d)
  BY OpenAdvances DEF GetAccount, BillingInv
<1>3. ASSUME NEW d \in Calls PROVE CallInv(d)'
  <2>1. CallInv(d) /\ Adv(d) \in Advertisers /\ after[d] \in Nat
    BY CallTypes DEF BillingInv, ServiceTypes
  <2>2. /\ acct[Adv(d)].recharged \in Nat /\ acct'[Adv(d)].recharged \in Nat
        /\ acct[Adv(d)].recharged <= acct'[Adv(d)].recharged
    BY <1>2, <2>1, RowFacts DEF BillingInv, Advances, LedgerInv, Sound, SolventRow
  <2>3. QED
    BY <1>1, <1>2, <2>1, <2>2, OtherCall
<1>4. \A b \in Advertisers : CacheInv(b)'
  BY <1>1, <1>2, CacheAdvances
<1>5. QED
  BY <1>1, <1>2, <1>3, <1>4 DEF BillingInv, ServiceTypes, Advances

------------------------------------------------------------------------------
(* The cache. *)

\* The cached balances of other advertisers stay accounted for.
LEMMA OtherCaches ==
  ASSUME BillingInv, NEW a \in Advertisers, UNCHANGED <<acct, useRedis>>,
         \A d \in Advertisers \ {a} :
           redis'[d] = redis[d] /\ viaCache'[d] = viaCache[d] /\ synced'[d] = synced[d],
         CacheInv(a)'
  PROVE  \A d \in Advertisers : CacheInv(d)'
<1>1. ASSUME NEW d \in Advertisers \ {a} PROVE CacheInv(d)'
  <2>1. CacheInv(d)
    BY DEF BillingInv
  <2>2. QED
    BY <2>1 DEF CacheInv, Grains
<1>2. QED
  BY <1>1

\* What is known of the cached balance of a call's advertiser.
LEMMA CacheFacts ==
  ASSUME BillingInv, NEW a \in Advertisers
  PROVE  /\ redis[a] \in Int \union {NoKey} /\ NoKey \notin Int
         /\ viaCache[a] \in Nat /\ synced[a] \in Nat
         /\ Grains(acct[a].recharged) \in Nat
         /\ CacheInv(a)
         /\ viaCache[a] <= synced[a]
<1>1. /\ redis[a] \in Int \union {NoKey} /\ viaCache[a] \in Nat /\ synced[a] \in Nat
      /\ CacheInv(a) /\ NoKey \notin Int
  BY BillingAssumption DEF BillingInv, ServiceTypes
<1>2. acct[a].recharged \in Nat
  BY RowFacts DEF BillingInv
<1>3. Grains(acct[a].recharged) \in Nat
  BY <1>2, GrainsMonotone
<1>4. QED
  BY <1>1, <1>3 DEF CacheInv

\* The HSET of a recharge, executed once more or not.
LEMMA SyncStep ==
  ASSUME BillingInv, NEW c \in Calls, Sync(c)
  PROVE  BillingInv'
<1>0. PICK a, g : a = Adv(c) /\ g = Grains(after[c])
  OBVIOUS
<1>1. /\ pc[c] = "sync"
      /\ redis' = [redis EXCEPT ![a] = g]
      /\ synced' = [synced EXCEPT ![a] = @ + g]
      /\ Replied(c, "ok", "ok")
      /\ UNCHANGED <<acct, ledger, useRedis, req, after, taken, viaCache>>
  BY <1>0 DEF Sync
<1>2. /\ a \in Advertisers /\ pc \in [Calls -> Labels] /\ lost \in [Calls -> Nat]
      /\ after[c] \in Nat /\ taken[c] \in Nat /\ CallInv(c)
      /\ redis \in [Advertisers -> Int \union {NoKey}] /\ NoKey \notin Int
      /\ viaCache \in [Advertisers -> Nat] /\ synced \in [Advertisers -> Nat]
  BY <1>0, CallTypes
<1>3. g \in 0 .. Grains(acct[a].recharged) /\ g \in Nat /\ g \in Int
  <2>1. acct[a].recharged \in Nat /\ after[c] <= acct[a].recharged
    BY <1>0, <1>1, <1>2, RowFacts DEF BillingInv, CallInv
  <2>2. QED
    BY <1>0, <1>2, <2>1, GrainsMonotone
<1>4. \A b \in Advertisers : CacheInv(b)'
  <2>1. /\ viaCache[a] \in Nat /\ synced[a] \in Nat /\ viaCache[a] <= synced[a]
        /\ ~useRedis => viaCache[a] = 0 /\ NoKey \notin Int
    BY <1>2, CacheFacts DEF CacheInv
  <2>2. /\ redis'[a] = g /\ viaCache'[a] = viaCache[a] /\ synced'[a] = synced[a] + g
        /\ \A d \in Advertisers \ {a} :
             redis'[d] = redis[d] /\ viaCache'[d] = viaCache[d] /\ synced'[d] = synced[d]
    BY <1>1, <1>2
  <2>3. viaCache[a] + g <= synced[a] + g
    BY <1>3, <2>1
  <2>4. g # NoKey
    BY <1>2, <1>3
  <2>5. Grains(acct[a].recharged)' = Grains(acct'[a].recharged) /\ acct' = acct
    BY <1>1 DEF Grains
  <2>6. CacheInv(a)'
    BY <1>1, <1>3, <2>1, <2>2, <2>3, <2>4, <2>5 DEF CacheInv
  <2>7. QED
    BY <1>1, <1>2, <2>2, <2>6, OtherCaches
<1>5. Advances /\ \A d \in Calls : Posted(d)' <=> Posted(d)
  BY <1>1, SameRows
<1>6. PICK l \in {"ok", "sync"} : pc' = [pc EXCEPT ![c] = l]
  BY <1>1 DEF Replied, Goto
<1>7. lost' \in [Calls -> Nat] /\ lost'[c] >= lost[c]
      /\ \A d \in Calls \ {c} : lost'[d] = lost[d]
  <2>1. lost' = lost \/ lost' = [lost EXCEPT ![c] = lost[c] + 1]
    BY <1>1 DEF Replied
  <2>2. QED
    BY <1>2, <2>1
<1>8. CallInv(c)'
  <2>1. /\ pc'[c] = l /\ taken'[c] = taken[c] /\ after'[c] = after[c] /\ req' = req
        /\ Adv(c)' = Adv(c) /\ Amt(c)' = Amt(c) /\ acct' = acct /\ useRedis' = useRedis
    BY <1>1, <1>2, <1>6 DEF Adv, Amt
  <2>2. req[c].op = "recharge" /\ lost[c] \in Nat /\ lost'[c] \in Nat
    BY <1>1, <1>2, <1>7 DEF CallInv
  <2>3. QED
    BY <1>1, <1>2, <1>5, <1>7, <2>1, <2>2 DEF CallInv, Running, Uncharged, Refusals
<1>9. /\ redis' \in [Advertisers -> Int \union {NoKey}]
      /\ synced' \in [Advertisers -> Nat]
  BY <1>1, <1>2, <1>3
<1>10. l \in Labels
  BY DEF Labels, Running, Outcomes
<1>11. /\ {after', lost', taken'} \subseteq [Calls -> Nat]
       /\ {viaCache', synced'} \subseteq [Advertisers -> Nat]
       /\ UNCHANGED <<req, useRedis>> /\ after' = after /\ taken' = taken
  BY <1>1, <1>7, <1>9, CallTypes
<1>12. QED
  BY <1>4, <1>5, <1>6, <1>7, <1>8, <1>9, <1>10, <1>11, CallStep

\* The script debits the cached balance it has found sufficient.
LEMMA DebitStep ==
  ASSUME BillingInv, NEW c \in Calls, LuaDebit(c)
  PROVE  BillingInv'
<1>0. PICK a, x : a = Adv(c) /\ x = Amt(c)
  OBVIOUS
<1>1. /\ pc[c] = "lua" /\ redis[a] # NoKey /\ redis[a] >= x
      /\ redis' = [redis EXCEPT ![a] = @ - x]
      /\ viaCache' = [viaCache EXCEPT ![a] = @ + x]
      /\ taken' = [taken EXCEPT ![c] = @ + 1]
      /\ Replied(c, "ok", "pg_spend")
      /\ UNCHANGED <<acct, ledger, useRedis, req, after, synced>>
  BY <1>0 DEF LuaDebit, CacheCovers, Cached
<1>2. /\ a \in Advertisers /\ x \in Int /\ pc \in [Calls -> Labels]
      /\ lost \in [Calls -> Nat] /\ taken \in [Calls -> Nat] /\ CallInv(c)
      /\ redis \in [Advertisers -> Int \union {NoKey}] /\ NoKey \notin Int
      /\ viaCache \in [Advertisers -> Nat] /\ synced \in [Advertisers -> Nat]
  BY <1>0, CallTypes
<1>3. x > 0 /\ useRedis /\ req[c].op # "recharge" /\ ~Posted(c) /\ taken[c] <= lost[c]
  BY <1>0, <1>1, <1>2 DEF CallInv, Running, Uncharged
<1>4. \A b \in Advertisers : CacheInv(b)'
  <2>1. /\ redis[a] \in Int /\ viaCache[a] \in Nat /\ synced[a] \in Nat
        /\ Grains(acct[a].recharged) \in Nat
        /\ redis[a] \in 0 .. Grains(acct[a].recharged)
        /\ viaCache[a] + redis[a] <= synced[a]
    BY <1>1, <1>2, CacheFacts DEF CacheInv
  <2>2. /\ redis'[a] = redis[a] - x /\ viaCache'[a] = viaCache[a] + x /\ synced'[a] = synced[a]
        /\ \A d \in Advertisers \ {a} :
             redis'[d] = redis[d] /\ viaCache'[d] = viaCache[d] /\ synced'[d] = synced[d]
    BY <1>1, <1>2
  <2>3. /\ redis[a] - x \in 0 .. Grains(acct[a].recharged) /\ redis[a] - x \in Int
        /\ viaCache[a] + x \in Nat
        /\ (viaCache[a] + x) + (redis[a] - x) <= synced[a]
    BY <1>1, <1>2, <1>3, <2>1
  <2>4. redis[a] - x # NoKey
    BY <1>2, <2>3
  <2>5. CacheInv(a)'
    <3>1. acct' = acct /\ Grains(acct[a].recharged)' = Grains(acct'[a].recharged)
      BY <1>1 DEF Grains
    <3>2. QED
      BY <1>1, <1>3, <2>1, <2>2, <2>3, <2>4, <3>1 DEF CacheInv
  <2>6. QED
    BY <1>1, <1>2, <2>2, <2>5, OtherCaches
<1>5. Advances /\ \A d \in Calls : Posted(d)' <=> Posted(d)
  BY <1>1, SameRows
<1>6. /\ lost' \in [Calls -> Nat] /\ \A d \in Calls \ {c} : lost'[d] = lost[d]
      /\ taken' \in [Calls -> Nat] /\ taken'[c] = taken[c] + 1
      /\ \A d \in Calls \ {c} : taken'[d] = taken[d]
  <2>1. lost' = lost \/ lost' = [lost EXCEPT ![c] = lost[c] + 1]
    BY <1>1 DEF Replied
  <2>2. QED
    BY <1>1, <1>2, <2>1
<1>7. PICK l \in {"ok", "lua", "pg_spend"} :
        /\ pc' = [pc EXCEPT ![c] = l]
        /\ IF l = "ok" THEN lost'[c] >= lost[c] ELSE lost'[c] = lost[c] + 1
  <2>1. lost[c] \in Nat
    BY <1>2
  <2>2. CASE Goto(c, "ok") /\ UNCHANGED lost
    BY <2>1, <2>2 DEF Goto
  <2>3. CASE lost' = [lost EXCEPT ![c] = @ + 1]
             /\ Goto(c, IF lost[c] + 1 < MaxTries THEN pc[c] ELSE "pg_spend")
    BY <1>1, <1>2, <2>1, <2>3 DEF Goto
  <2>4. QED
    BY <1>1, <2>2, <2>3 DEF Replied
<1>8. CallInv(c)'
  <2>1. /\ pc'[c] = l /\ after'[c] = after[c] /\ req' = req
        /\ Adv(c)' = Adv(c) /\ Amt(c)' = Amt(c) /\ acct' = acct /\ useRedis' = useRedis
    BY <1>1, <1>2, <1>7 DEF Adv, Amt
  <2>2. lost[c] \in Nat /\ lost'[c] \in Nat /\ taken[c] \in Nat
    BY <1>2, <1>6
  <2>3. QED
    BY <1>1, <1>2, <1>3, <1>5, <1>6, <1>7, <2>1, <2>2 DEF CallInv, Running, Uncharged, Refusals
<1>9. /\ redis' \in [Advertisers -> Int \union {NoKey}]
      /\ viaCache' \in [Advertisers -> Nat]
  <2>1. redis[a] \in Int /\ redis[a] - x \in Int /\ viaCache[a] + x \in Nat
    BY <1>1, <1>2, <1>3
  <2>2. QED
    BY <1>1, <1>2, <2>1
<1>10. l \in Labels
  BY DEF Labels, Running, Outcomes
<1>11. /\ {after', lost', taken'} \subseteq [Calls -> Nat]
       /\ {viaCache', synced'} \subseteq [Advertisers -> Nat]
       /\ UNCHANGED <<req, useRedis>> /\ after' = after
  BY <1>1, <1>6, <1>9, CallTypes
<1>12. QED
  BY <1>4, <1>5, <1>6, <1>7, <1>8, <1>9, <1>10, <1>11, CallStep

\* Redis loses a key: what it held is nobody's any more.
LEMMA FlushStep ==
  ASSUME BillingInv, NEW a \in Advertisers, Flush(a)
  PROVE  BillingInv'
<1>1. /\ redis' = [redis EXCEPT ![a] = NoKey]
      /\ UNCHANGED <<acct, ledger, useRedis, req, pc, after, lost, taken, viaCache, synced>>
  BY DEF Flush, callVars, history
<1>2. Advances /\ \A d \in Calls : Posted(d)' <=> Posted(d)
  BY <1>1, SameRows
<1>3. /\ redis \in [Advertisers -> Int \union {NoKey}]
      /\ viaCache \in [Advertisers -> Nat] /\ synced \in [Advertisers -> Nat]
      /\ viaCache[a] <= synced[a] /\ (~useRedis => viaCache[a] = 0)
  <2>1. CacheInv(a) /\ viaCache[a] <= synced[a]
    BY CacheFacts
  <2>2. QED
    BY <2>1 DEF BillingInv, ServiceTypes, CacheInv
<1>4. \A b \in Advertisers : CacheInv(b)'
  <2>1. /\ redis'[a] = NoKey /\ viaCache'[a] = viaCache[a] /\ synced'[a] = synced[a]
        /\ \A d \in Advertisers \ {a} :
             redis'[d] = redis[d] /\ viaCache'[d] = viaCache[d] /\ synced'[d] = synced[d]
    BY <1>1, <1>3
  <2>2. viaCache[a] + 0 <= synced[a]
    BY <1>3
  <2>3. CacheInv(a)'
    BY <1>1, <1>3, <2>1, <2>2 DEF CacheInv
  <2>4. QED
    BY <1>1, <2>1, <2>3, OtherCaches
<1>5. ServiceTypes'
  BY <1>1, <1>3 DEF BillingInv, ServiceTypes
<1>6. \A d \in Calls : CallInv(d)'
  BY <1>1, <1>2 DEF BillingInv, CallInv, Adv, Amt
<1>7. QED
  BY <1>2, <1>4, <1>5, <1>6 DEF BillingInv, Advances
------------------------------------------------------------------------------
\* No account, no key and no call: the invariant holds at the start.
LEMMA BillingInvInit == Init => BillingInv
<1>1. SUFFICES ASSUME Init PROVE BillingInv
  OBVIOUS
<1>2. LedgerInv
  BY <1>1, LedgerInvInit DEF Init
<1>3. ServiceTypes
  BY <1>1, BillingAssumption DEF Init, ServiceTypes, Labels
<1>4. ASSUME NEW a \in Advertisers PROVE Backed(a) /\ CacheInv(a)
  BY <1>1 DEF Init, LedgerInit, NoRow, Backed, CacheInv
<1>5. ASSUME NEW c \in Calls PROVE CallInv(c)
  <2>1. ~Posted(c)
    BY <1>1 DEF Init, LedgerInit, Posted
  <2>2. pc[c] = "idle" /\ taken[c] = 0 /\ lost[c] = 0
    BY <1>1 DEF Init
  <2>3. QED
    BY <2>1, <2>2 DEF CallInv, Running, Refusals
<1>6. QED
  BY <1>2, <1>3, <1>4, <1>5 DEF BillingInv

\* Every step of the specification preserves the invariant.
LEMMA BillingInvStep == BillingInv /\ [Next]_vars => BillingInv'
<1>1. SUFFICES ASSUME BillingInv, [Next]_vars PROVE BillingInv'
  OBVIOUS
<1>2. ASSUME NEW c \in Calls, Start(c) \/ Step(c) \/ Crash(c) PROVE BillingInv'
  BY <1>1, <1>2, PlainStep, TransactionStep, SyncStep, DebitStep DEF Step
<1>3. ASSUME NEW a \in Advertisers, GetAccount(a) \/ Flush(a) PROVE BillingInv'
  BY <1>1, <1>3, OpenStep, FlushStep
<1>4. CASE UNCHANGED vars
  <2>1. UNCHANGED <<acct, ledger>> /\ ServiceTypes'
    BY <1>1, <1>4 DEF vars, BillingInv, ServiceTypes
  <2>2. Advances /\ \A d \in Calls : Posted(d)' <=> Posted(d)
    BY <1>1, <2>1, SameRows
  <2>3. \A a \in Advertisers : CacheInv(a)'
    BY <1>1, <1>4, <2>2, CacheAdvances DEF vars
  <2>4. \A c \in Calls : CallInv(c)'
    BY <1>1, <1>4, <2>2 DEF vars, BillingInv, CallInv, Adv, Amt
  <2>5. QED
    BY <2>1, <2>2, <2>3, <2>4 DEF BillingInv, Advances
<1>5. QED
  BY <1>1, <1>2, <1>3, <1>4 DEF Next, Finished

\* What holds of the two stores and of every call in each reachable state.
THEOREM BillingInvariant == Spec => []BillingInv
<1>1. QED
  BY BillingInvInit, BillingInvStep, PTL DEF Spec

(***************************************************************************)
(* Whatever Redis, its client and the fallback of SpendForEvent do         *)
(* (advertiser_billing/service.go), the service uses the tables as its     *)
(* ledger says: each call posts at most once, and nothing else touches     *)
(* them.                                                                   *)
(***************************************************************************)
THEOREM BillingImplementsLedger == Spec => LedgerSpec
<1>1. Init => LedgerInit
  BY DEF Init
<1>2. BillingInv /\ [Next]_vars => [LedgerNext]_ledgerVars
  <2>1. SUFFICES ASSUME BillingInv, [Next]_vars, ~UNCHANGED ledgerVars PROVE LedgerNext
    OBVIOUS
  <2>2. ASSUME NEW c \in Calls, RechargePG(c) \/ SpendPG(c) PROVE LedgerNext
    <3>1. pc[c] \in Uncharged /\ Post(c, Adv(c), Amt(c))
      BY <2>2 DEF RechargePG, SpendPG, Uncharged, Post
    <3>2. ~Posted(c)
      BY <2>1, <3>1 DEF BillingInv, CallInv
    <3>3. Adv(c) \in Advertisers /\ Amt(c) \in Amounts
      BY <2>1, CallTypes
    <3>4. QED
      BY <3>1, <3>2, <3>3 DEF LedgerNext
  <2>3. ASSUME NEW a \in Advertisers, GetAccount(a) PROVE LedgerNext
    BY <2>3 DEF GetAccount, LedgerNext
  <2>4. ASSUME NEW c \in Calls,
               \/ Start(c) \/ SpendRefused(c) \/ FailPG(c) \/ Sync(c) \/ LuaDebit(c)
               \/ LuaDeclined(c) \/ FailRedis(c) \/ Crash(c)
        PROVE  FALSE
    BY <2>1, <2>4 DEF Start, SpendRefused, FailPG, Sync, LuaDebit, LuaDeclined, FailRedis, Crash,
                      Ends, ledgerVars
  <2>5. ASSUME NEW a \in Advertisers, Flush(a) PROVE FALSE
    BY <2>1, <2>5 DEF Flush, ledgerVars
  <2>6. CASE Finished \/ UNCHANGED vars
    BY <2>1, <2>6 DEF Finished, vars, ledgerVars
  <2>7. QED
    BY <2>1, <2>2, <2>3, <2>4, <2>5, <2>6 DEF Next, Step
<1>3. QED
  BY <1>1, <1>2, BillingInvariant, PTL DEF Spec, LedgerSpec

\* The ledger's promises are therefore the service's.
THEOREM BillingKeepsPromises ==
  Spec => [](NeverOverdrawn /\ Conservation /\ JournalChain)
BY BillingImplementsLedger, LedgerNeverOverdrawn, LedgerConservation, LedgerJournalChain, PTL

\* The cache never holds more than was paid in, whatever is written to it late or twice.
THEOREM CacheAlwaysBacked == Spec => []CacheBacked
<1>1. BillingInv => CacheBacked
  BY DEF BillingInv, CacheInv, CacheBacked
<1>2. QED
  BY <1>1, BillingInvariant, PTL

\* Redis debits no more than recharges wrote to it.
THEOREM CacheAlwaysAccounted == Spec => []CacheAccounted
<1>1. BillingInv => CacheAccounted
  BY DEF BillingInv, CacheInv, CacheAccounted
<1>2. QED
  BY <1>1, BillingInvariant, PTL

\* A spend is charged at most once, in one store or the other, one that is refused
\* in neither, up to the replies it lost.  One that fails may have been charged: its
\* COMMIT was made and not acknowledged.
THEOREM SpendsChargedOnce == Spec => []ChargedOnce
<1>1. ASSUME BillingInv PROVE ChargedOnce
  <2>1. SUFFICES ASSUME NEW c \in Calls
                 PROVE  /\ Charges(c) <= lost[c] + 1
                        /\ pc[c] = "ok" /\ req[c].op # "recharge" /\ Amt(c) > 0 => Charges(c) >= 1
                        /\ pc[c] \in Refusals => Charges(c) <= lost[c]
    BY DEF ChargedOnce
  <2>2. CallInv(c) /\ taken[c] \in Nat /\ lost[c] \in Nat
    BY <1>1, CallTypes
  <2>3. CASE Posted(c) /\ req[c].op # "recharge"
    <3>1. Charges(c) = taken[c] + 1
      BY <2>3 DEF Charges
    <3>2. QED
      BY <2>2, <2>3, <3>1 DEF CallInv, Uncharged
  <2>4. CASE ~(Posted(c) /\ req[c].op # "recharge")
    <3>1. Charges(c) = taken[c]
      BY <2>2, <2>4 DEF Charges
    <3>2. QED
      BY <2>2, <2>4, <3>1 DEF CallInv, Uncharged
  <2>5. QED
    BY <2>3, <2>4
<1>2. QED
  BY <1>1, BillingInvariant, PTL

\* Without Redis, and with amounts of four decimals, nobody is charged beyond what was
\* paid in; finer amounts can exceed it by the rounding that Conservation bounds.
THEOREM FundsSafeWithoutRedis ==
  ASSUME Grid = 1
  PROVE  Spec => []SafeWithoutRedis
<1>1. ASSUME BillingInv PROVE SafeWithoutRedis
  <2>1. SUFFICES ASSUME ~useRedis, NEW a \in Advertisers
                 PROVE  viaCache[a] + Grains(acct[a].spent) <= Grains(acct[a].recharged)
    BY DEF SafeWithoutRedis, NeverOvercharged
  <2>2. viaCache[a] = 0
    BY <1>1, <2>1 DEF BillingInv, CacheInv
  <2>3. /\ acct[a].balance \in Nat /\ acct[a].recharged \in Nat /\ acct[a].spent \in Nat
        /\ acct[a].balance + acct[a].spent - acct[a].recharged = 0
    BY <1>1, RowFacts DEF BillingInv, LedgerInv, Sound, RowDrift
  <2>4. acct[a].spent <= acct[a].recharged
    BY <2>3
  <2>5. QED
    BY <2>2, <2>3, <2>4, GrainsMonotone
<1>2. QED
  BY <1>1, BillingInvariant, PTL
==============================================================================
