--------------------------- MODULE AdvertiserBilling ---------------------------
(***************************************************************************)
(* The advertiser service (internal/advertiser_billing/service.go): two    *)
(* stores of one balance.  PostgreSQL is the ledger; a Redis hash holds a  *)
(* hot copy that a recharge overwrites and a spend debits with a Lua       *)
(* script, falling back to PostgreSQL when the script did not debit.       *)
(*                                                                         *)
(* A PostgreSQL transaction is one step here: AdvertiserAccount implements *)
(* AdvertiserLedger, whose operations these are.  A Redis command is one   *)
(* step too, scripts included.  Between two steps of a call any other call *)
(* runs, of this instance or another, for both stores are shared.          *)
(*                                                                         *)
(* Faults names what may go wrong:                                         *)
(*   "pg"     a transaction fails, or commits without being acknowledged   *)
(*   "redis"  a Redis command fails without having been executed           *)
(*   "reply"  a Redis command is executed, its reply lost: go-redis sends  *)
(*            it again, at most MaxTries times in all, before it fails     *)
(*   "flush"  Redis loses a key (restart, eviction); keys have no TTL      *)
(*   "crash"  a call stops where it is, its instance gone                  *)
(* Redis keeps the balance as a decimal string, taken here to be exact.    *)
(***************************************************************************)
EXTENDS AdvertiserLedger

CONSTANTS
  Ops,             \* the service's entry points that are called
  Deployments,     \* whether the service may be built with a Redis client, or with nil
  Faults,
  MaxTries,        \* attempts go-redis makes at one command
  NoKey            \* the value of an absent Redis key

\* "correct" is SpendAtomicPG, the entry point for corrections.
ASSUME BillingAssumption ==
  /\ Ops \subseteq {"recharge", "spend", "correct"}
  /\ Deployments \subseteq BOOLEAN
  /\ Faults \subseteq {"pg", "redis", "reply", "flush", "crash"}
  /\ MaxTries \in Nat \ {0}
  /\ NoKey \notin Int

VARIABLES
  useRedis,        \* the service has a Redis client; chosen at start
  redis,           \* advertiser:balance:<id>, in grains, or NoKey
  req,             \* req[c]: what call c asks for
  pc,              \* pc[c]: the step call c takes next, or its outcome
  after,           \* after[c]: BalanceAfter of c's recharge, in units
  lost,            \* lost[c]: replies lost to attempts at c's Redis command
  taken,           \* history: how often c's script debited Redis
  viaCache,        \* history: grains debited from Redis, per advertiser
  synced           \* history: grains written to Redis by recharges

callVars == <<useRedis, req, pc, after, lost>>
history == <<taken, viaCache, synced>>
vars == <<acct, ledger, redis, useRedis, req, pc, after, lost, taken, viaCache, synced>>

Requests == [op : Ops, adv : Advertisers, amt : Amounts]

Refusals == {"invalid", "not_found", "insufficient"}
Outcomes == {"ok", "failed", "dead"} \union Refusals
Running == {"recharge", "sync", "lua", "pg_spend"}

Adv(c) == req[c].adv
Amt(c) == req[c].amt
Cached(c) == redis[Adv(c)]

\* The comparison in the script: there is a key and it covers the amount.
CacheCovers(c) == Cached(c) # NoKey /\ Cached(c) >= Amt(c)

------------------------------------------------------------------------------
Init ==
  /\ LedgerInit
  /\ redis = [a \in Advertisers |-> NoKey]
  /\ useRedis \in Deployments
  /\ req \in [Calls -> Requests]
  /\ pc = [c \in Calls |-> "idle"]
  /\ after = [c \in Calls |-> 0]
  /\ lost = [c \in Calls |-> 0]
  /\ taken = [c \in Calls |-> 0]
  /\ viaCache = [a \in Advertisers |-> 0]
  /\ synced = [a \in Advertisers |-> 0]

Goto(c, l) == pc' = [pc EXCEPT ![c] = l]

\* A spend of nothing succeeds at once, any other call for nothing is an error.
Start(c) ==
  /\ pc[c] = "idle"
  /\ \/ Amt(c) <= 0 /\ Goto(c, IF req[c].op = "spend" THEN "ok" ELSE "invalid")
     \/ /\ Amt(c) > 0
        /\ Goto(c, CASE req[c].op = "recharge"            -> "recharge"
                     [] req[c].op = "spend" /\ useRedis   -> "lua"
                     [] OTHER                             -> "pg_spend")
  /\ UNCHANGED <<acct, ledger, redis, useRedis, req, after, lost, history>>

\* A PostgreSQL step of call c that only gets as far as an outcome.
Ends(c, outcome) ==
  /\ Goto(c, outcome)
  /\ UNCHANGED <<acct, ledger, redis, useRedis, req, after, lost, history>>

\* advRepo.Recharge; only an acknowledged commit goes on to the cache.
RechargePG(c) ==
  /\ pc[c] = "recharge"
  /\ Recharge(c, Adv(c), Amt(c))
  /\ after' = [after EXCEPT ![c] = acct'[Adv(c)].balance]
  /\ \/ Goto(c, IF useRedis THEN "sync" ELSE "ok")
     \/ "pg" \in Faults /\ Goto(c, "failed")
  /\ UNCHANGED <<redis, useRedis, req, lost, history>>

\* advRepo.SpendAtomic, for a correction or as the fallback of a spend.
SpendPG(c) ==
  /\ pc[c] = "pg_spend"
  /\ Spend(c, Adv(c), Amt(c))
  /\ \/ Goto(c, "ok")
     \/ "pg" \in Faults /\ Goto(c, "failed")
  /\ UNCHANGED <<redis, useRedis, req, after, lost, history>>

SpendRefused(c) ==
  /\ pc[c] = "pg_spend"
  /\ \/ ~acct[Adv(c)].exists /\ Ends(c, "not_found")
     \/ /\ acct[Adv(c)].exists
        /\ ~Affordable(acct[Adv(c)], Amt(c))
        /\ Ends(c, "insufficient")

FailPG(c) ==
  /\ "pg" \in Faults
  /\ pc[c] \in {"recharge", "pg_spend"}
  /\ Ends(c, "failed")

------------------------------------------------------------------------------
(* Redis. *)

\* After an execution of c's command: its reply arrives and the call goes to
\* `next`; or it is lost, and c tries again or takes it for an error.
Replied(c, next, onError) ==
  \/ Goto(c, next) /\ UNCHANGED lost
  \/ /\ "reply" \in Faults
     /\ lost' = [lost EXCEPT ![c] = @ + 1]
     /\ Goto(c, IF lost[c] + 1 < MaxTries THEN pc[c] ELSE onError)

\* Mutant of Sync: adds the balance to what the key holds, as HINCRBY would.
SyncAdds(c) ==
  /\ pc[c] = "sync"
  /\ redis' = [redis EXCEPT ![Adv(c)] = IF @ = NoKey THEN Grains(after[c])
                                                     ELSE @ + Grains(after[c])]
  /\ synced' = [synced EXCEPT ![Adv(c)] = @ + Grains(after[c])]
  /\ Replied(c, "ok", "ok")
  /\ UNCHANGED <<acct, ledger, useRedis, req, after, taken, viaCache>>

\* HSET of the balance the recharge returned; its error is ignored.
Sync(c) ==
  /\ pc[c] = "sync"
  /\ redis' = [redis EXCEPT ![Adv(c)] = Grains(after[c])]
  /\ synced' = [synced EXCEPT ![Adv(c)] = @ + Grains(after[c])]
  /\ Replied(c, "ok", "ok")
  /\ UNCHANGED <<acct, ledger, useRedis, req, after, taken, viaCache>>

\* Mutant of LuaDebit: a successful debit goes on to PostgreSQL all the same.
LuaDebitThenPG(c) ==
  /\ pc[c] = "lua"
  /\ CacheCovers(c)
  /\ redis' = [redis EXCEPT ![Adv(c)] = @ - Amt(c)]
  /\ viaCache' = [viaCache EXCEPT ![Adv(c)] = @ + Amt(c)]
  /\ taken' = [taken EXCEPT ![c] = @ + 1]
  /\ Replied(c, "pg_spend", "pg_spend")
  /\ UNCHANGED <<acct, ledger, useRedis, req, after, synced>>

\* Mutant of LuaDebit: the script reports success without storing the new balance.
LuaDebitNotStored(c) ==
  /\ pc[c] = "lua"
  /\ CacheCovers(c)
  /\ viaCache' = [viaCache EXCEPT ![Adv(c)] = @ + Amt(c)]
  /\ taken' = [taken EXCEPT ![c] = @ + 1]
  /\ Replied(c, "ok", "pg_spend")
  /\ UNCHANGED <<acct, ledger, redis, useRedis, req, after, synced>>

\* The script debits: the spend is done, and PostgreSQL never hears of it.
LuaDebit(c) ==
  /\ pc[c] = "lua"
  /\ CacheCovers(c)
  /\ redis' = [redis EXCEPT ![Adv(c)] = @ - Amt(c)]
  /\ viaCache' = [viaCache EXCEPT ![Adv(c)] = @ + Amt(c)]
  /\ taken' = [taken EXCEPT ![c] = @ + 1]
  /\ Replied(c, "ok", "pg_spend")
  /\ UNCHANGED <<acct, ledger, useRedis, req, after, synced>>

\* The script finds no key, or too little: either way PostgreSQL is asked.
LuaDeclined(c) ==
  /\ pc[c] = "lua"
  /\ ~CacheCovers(c)
  /\ Replied(c, "pg_spend", "pg_spend")
  /\ UNCHANGED <<acct, ledger, redis, useRedis, req, after, history>>

FailRedis(c) ==
  /\ "redis" \in Faults
  /\ \/ pc[c] = "sync" /\ Ends(c, "ok")
     \/ pc[c] = "lua" /\ Ends(c, "pg_spend")

Flush(a) ==
  /\ "flush" \in Faults
  /\ redis[a] # NoKey
  /\ redis' = [redis EXCEPT ![a] = NoKey]
  /\ UNCHANGED <<acct, ledger, callVars, history>>

Crash(c) ==
  /\ "crash" \in Faults
  /\ pc[c] \in Running
  /\ Ends(c, "dead")

\* GetAccount.
GetAccount(a) ==
  /\ Open(a)
  /\ UNCHANGED <<redis, callVars, history>>

------------------------------------------------------------------------------
Step(c) ==
  \/ RechargePG(c) \/ SpendPG(c) \/ SpendRefused(c) \/ FailPG(c)
  \/ Sync(c) \/ LuaDebit(c) \/ LuaDeclined(c) \/ FailRedis(c)

\* Every call has returned; the model has no further calls to make.
Finished ==
  /\ \A c \in Calls : pc[c] \in Outcomes
  /\ UNCHANGED vars

Next ==
  \/ \E c \in Calls : Start(c) \/ Step(c) \/ Crash(c)
  \/ \E a \in Advertisers : GetAccount(a) \/ Flush(a)
  \/ Finished

Spec == Init /\ [][Next]_vars

(***************************************************************************)
(* A call that was made goes on executing: its goroutine is scheduled and  *)
(* the stores answer, if only with an error.  Nobody has to make a call.   *)
(***************************************************************************)
FairSpec == Spec /\ \A c \in Calls : WF_vars(Step(c))

------------------------------------------------------------------------------
(***************************************************************************)
(* However recharges, their late or repeated HSETs, debits and lost keys   *)
(* interleave, the cache never holds more than the advertiser ever paid    *)
(* in, and never less than nothing.                                        *)
(***************************************************************************)
CacheBacked ==
  \A a \in Advertisers :
    redis[a] # NoKey => redis[a] \in 0 .. Grains(acct[a].recharged)

(***************************************************************************)
(* The exposure of the cache: what Redis has debited and what it still     *)
(* holds never exceeds the sum of the balances recharges wrote to it.      *)
(* PostgreSQL does not see these debits, so this is also the bound on what *)
(* an advertiser can spend beyond the ledger.                              *)
(***************************************************************************)
CacheAccounted ==
  \A a \in Advertisers :
    viaCache[a] + (IF redis[a] = NoKey THEN 0 ELSE redis[a]) <= synced[a]

\* How often call c was charged, in either store.
Charges(c) == taken[c] + IF Posted(c) /\ req[c].op # "recharge" THEN 1 ELSE 0

(***************************************************************************)
(* A spend that succeeds was charged, in one store or the other; one that  *)
(* is refused was not; and no spend is charged twice, whatever fails and   *)
(* whoever dies: the fallback never repeats a debit the script has made.   *)
(* All this up to lost replies: each one hides at most one charge more.    *)
(***************************************************************************)
ChargedOnce ==
  \A c \in Calls :
    /\ Charges(c) <= lost[c] + 1
    /\ pc[c] = "ok" /\ req[c].op # "recharge" /\ Amt(c) > 0 => Charges(c) >= 1
    /\ pc[c] \in Refusals => Charges(c) <= lost[c]

(***************************************************************************)
(* An advertiser is never charged more than was paid in, over both stores: *)
(* the safety of funds the README promises.  With Redis the two stores are *)
(* spent independently and it does not hold.                               *)
(***************************************************************************)
NeverOvercharged ==
  \A a \in Advertisers :
    viaCache[a] + Grains(acct[a].spent) <= Grains(acct[a].recharged)

(***************************************************************************)
(* Built without Redis, the service keeps that promise, whatever fails, on *)
(* amounts with four decimals; finer ones can exceed it by the rounding    *)
(* that Conservation bounds.                                               *)
(***************************************************************************)
SafeWithoutRedis == ~useRedis => NeverOvercharged

(***************************************************************************)
(* A spend charged to Redis eventually has its row in the journal, as the  *)
(* comment on SpendForEvent says the consumer sees to.  No code does.      *)
(***************************************************************************)
SpendRecorded ==
  \A c \in Calls : pc[c] = "ok" /\ taken[c] > 0 ~> Posted(c)

(***************************************************************************)
(* A recharge synchronises the cache: when recharges are the only calls    *)
(* made and all have succeeded, the cache is the balance of the ledger.    *)
(* The HSET is outside the transaction, so two recharges can write their   *)
(* balances in the opposite order.                                         *)
(***************************************************************************)
RechargeSyncsCache ==
  \A a \in Advertisers :
    (/\ \E c \in Calls : Adv(c) = a /\ pc[c] = "ok"
     /\ \A c \in Calls : pc[c] # "idle" => req[c].op = "recharge" /\ pc[c] = "ok" /\ Amt(c) > 0)
    => redis[a] = Grains(acct[a].balance)
==============================================================================
