----------------------------- MODULE PacingTracker -----------------------------
(***************************************************************************)
(* The pacing tracker (internal/pacing/tracker.go) under concurrent calls: *)
(* the handlers recalcPacing and getPacing (internal/api/handler.go), and  *)
(* AddSpend and Learn, which the package offers to callers of its own.     *)
(*                                                                         *)
(* Campaigns live in shards, each a map under a sync.RWMutex; the traffic  *)
(* curve has a lock of its own.  A critical section that writes is two     *)
(* steps, taking the lock with the look-up of the campaign, and the write  *)
(* with the unlock; FactorAt reads budget and spend in two steps.  So what *)
(* keeps calls apart here is the locks and nothing else.  A waiting writer *)
(* does not hold up new readers, which Go's RWMutex would do: the model    *)
(* allows more than the program.                                           *)
(*                                                                         *)
(* Each call runs once.  Campaign ids are valid ones; the others are       *)
(* refused before anything is touched, like a negative budget, which is    *)
(* modelled.  Recalc is empty in the code.                                 *)
(***************************************************************************)
EXTENDS Pacing, FiniteSets

CONSTANTS
  Calls,
  Campaigns,
  Shards,
  ShardOf,         \* the shard of a campaign; any function, in the code a hash
  Recalcs,         \* budget and spend of POST /v1/pacing/recalc; negative spends are ignored
  Amounts,         \* amounts of AddSpend
  Observations,    \* fractions given to Learn
  Base,            \* the built-in shares of each weekday
  MaxClock,        \* bound of the clock
  NoCall           \* a free lock

ASSUME TrackerAssumption ==
  /\ ShardOf \in [Campaigns -> Shards]
  /\ Recalcs \subseteq [budget : Int, spent : Int] /\ Amounts \subseteq Int
  /\ Observations \subseteq Fractions
  /\ Base \in Curves /\ \A d \in Weekdays : \E h \in Hours : Base[d].share[h] > 0
  /\ MaxClock \in Nat
  /\ NoCall \notin Calls

VARIABLES
  states,          \* states[k]: the campaign's state, or unknown
  writer,          \* writer[s]: the call that holds the write lock of shard s
  readers,         \* readers[s]: the calls that hold its read lock
  curve,           \* the traffic curve
  curveWriter,     \* the call that holds the curve's write lock
  clock,           \* hours gone by
  req,             \* req[c]: what call c asks for
  pc,              \* pc[c]: where it is
  mine,            \* mine[c]: its local variables
  target,          \* history: the states, were a recalc one instant
  mixed,           \* history: campaigns whose recalcs have overlapped
  saw              \* history: what c could have read since it began to

callVars == <<req, pc, mine>>
lockVars == <<writer, readers>>
curveVars == <<curve, curveWriter>>
history == <<target, mixed>>
vars == <<states, writer, readers, curve, curveWriter, clock, req, pc, mine, target, mixed, saw>>

Unknown == [known |-> FALSE, budget |-> 0, spent |-> 0]

Requests ==
  {[op |-> "recalc", campaign |-> k, budget |-> r.budget, spent |-> r.spent] :
     k \in Campaigns, r \in Recalcs}
    \union [op : {"add"}, campaign : Campaigns, amount : Amounts]
    \union [op : {"get"}, campaign : Campaigns]
    \union [op : {"learn"}, weekday : Weekdays, hour : Hours, observed : Observations]

NoRequest == [op |-> "none"]

\* Where a call waits to read, or reads: the steps of FactorAt, then of State.
Reading == {"budget?", "spent?", "curve?", "state?"}

Campaign(c) == req[c].campaign
Entry(c) == states[Campaign(c)]
Lock(c) == ShardOf[Campaign(c)]

Goto(c, l) == pc' = [pc EXCEPT ![c] = l]

Expected(c, at) ==
  CumulativeFraction(c, (at \div (LastHour + 1)) % (LastDay + 1), at % (LastHour + 1))

------------------------------------------------------------------------------
Init ==
  /\ states = [k \in Campaigns |-> Unknown]
  /\ writer = [s \in Shards |-> NoCall]
  /\ readers = [s \in Shards |-> {}]
  /\ curve = DefaultCurve(Base)
  /\ curveWriter = NoCall
  /\ clock = 0
  /\ req = [c \in Calls |-> NoRequest]
  /\ pc = [c \in Calls |-> "idle"]
  /\ mine = [c \in Calls |-> [entry |-> Unknown, at |-> 0, factor |-> One, state |-> Unknown]]
  /\ target = states
  /\ mixed = {}
  /\ saw = [c \in Calls |-> [entries |-> {}, plans |-> {}]]

\* The first step of each operation, after the checks that end it at once.
FirstStep(r) ==
  CASE r.op = "recalc" -> IF r.budget < 0 THEN "refused" ELSE "SetBudget"
    [] r.op = "add" -> IF r.amount <= 0 THEN "done" ELSE "AddSpend"
    [] r.op = "get" -> "budget?"
    [] r.op = "learn" -> IF r.observed.num < 0 THEN "done" ELSE "Learn"

\* The calls that are recalculating campaign k and have not written both fields.
Recalculating(k) == {c \in Calls : pc[c] \in {"SetBudget", "SetSpent"} /\ Campaign(c) = k}

\* A call arrives; getPacing takes the time before it takes the lock.
Begin(c) ==
  /\ pc[c] = "idle"
  /\ \E r \in Requests :
       /\ req' = [req EXCEPT ![c] = r]
       /\ Goto(c, FirstStep(r))
       /\ mixed' = IF FirstStep(r) = "SetBudget" /\ Recalculating(r.campaign) # {}
                   THEN mixed \union {r.campaign} ELSE mixed
  /\ mine' = [mine EXCEPT ![c].at = IF req'[c].op = "get" THEN clock ELSE 0]
  /\ UNCHANGED <<states, lockVars, curveVars, clock, target>>

\* Mutant of Exclusive: a writer does not wait for the readers.
ExclusiveOfWriters(s) == writer[s] = NoCall

Exclusive(s) == writer[s] = NoCall /\ readers[s] = {}

\* s.mu.Lock() and the look-up of the campaign, in all three writing methods.
LockShard(c) ==
  /\ pc[c] \in {"SetBudget", "SetSpent", "AddSpend"}
  /\ Exclusive(Lock(c))
  /\ writer' = [writer EXCEPT ![Lock(c)] = c]
  /\ mine' = [mine EXCEPT ![c].entry = Entry(c)]
  /\ UNCHANGED <<states, readers, curveVars, clock, req, pc, history>>

Holds(c, l) == pc[c] = l /\ writer[Lock(c)] = c

Unlock(c) == writer' = [writer EXCEPT ![Lock(c)] = NoCall]

\* Mutant of SetBudget: a new entry replaces the old one.
SetBudgetAfresh(c) ==
  /\ Holds(c, "SetBudget")
  /\ states' = [states EXCEPT ![Campaign(c)] =
                  [known |-> TRUE, budget |-> req[c].budget, spent |-> 0]]
  /\ Unlock(c)
  /\ Goto(c, "SetSpent")
  /\ UNCHANGED <<readers, curveVars, clock, req, mine, history>>

\* An unknown campaign gets an entry with nothing spent.
SetBudget(c) ==
  /\ Holds(c, "SetBudget")
  /\ states' = [states EXCEPT ![Campaign(c)] =
                  [known |-> TRUE, budget |-> req[c].budget,
                   spent |-> IF mine[c].entry.known THEN @.spent ELSE 0]]
  /\ Unlock(c)
  /\ Goto(c, "SetSpent")
  /\ UNCHANGED <<readers, curveVars, clock, req, mine, history>>

NewSpent(c, old) == IF req[c].spent >= 0 THEN req[c].spent ELSE old

\* recalcPacing then asks for the factor, at the time it is.
SetSpent(c) ==
  /\ Holds(c, "SetSpent")
  /\ LET old == IF mine[c].entry.known THEN Entry(c) ELSE Unknown
     IN  states' = [states EXCEPT ![Campaign(c)] =
                      [known |-> TRUE, budget |-> old.budget, spent |-> NewSpent(c, old.spent)]]
  /\ target' = [target EXCEPT ![Campaign(c)] =
                  [known |-> TRUE, budget |-> req[c].budget, spent |-> NewSpent(c, @.spent)]]
  /\ Unlock(c)
  /\ Goto(c, "budget?")
  /\ mine' = [mine EXCEPT ![c].at = clock]
  /\ UNCHANGED <<readers, curveVars, clock, req, mixed>>

\* Mutant of AddSpend: returns without unlocking when the campaign is unknown.
AddSpendKeepsLock(c) ==
  /\ Holds(c, "AddSpend")
  /\ IF mine[c].entry.known
     THEN /\ states' = [states EXCEPT ![Campaign(c)].spent = mine[c].entry.spent + req[c].amount]
          /\ target' = [target EXCEPT ![Campaign(c)].spent = @ + req[c].amount]
          /\ Unlock(c)
     ELSE UNCHANGED <<states, target, writer>>
  /\ Goto(c, "done")
  /\ UNCHANGED <<readers, curveVars, clock, req, mine, mixed>>

\* The spend of an unknown campaign is dropped.
AddSpend(c) ==
  /\ Holds(c, "AddSpend")
  /\ IF mine[c].entry.known
     THEN /\ states' = [states EXCEPT ![Campaign(c)].spent = mine[c].entry.spent + req[c].amount]
          /\ target' = [target EXCEPT ![Campaign(c)].spent = @ + req[c].amount]
     ELSE UNCHANGED <<states, target>>
  /\ Unlock(c)
  /\ Goto(c, "done")
  /\ UNCHANGED <<readers, curveVars, clock, req, mine, mixed>>

\* FactorAt: s.mu.RLock(), and the budget is read ...
ReadBudget(c) ==
  /\ pc[c] = "budget?"
  /\ writer[Lock(c)] = NoCall
  /\ readers' = [readers EXCEPT ![Lock(c)] = @ \union {c}]
  /\ mine' = [mine EXCEPT ![c].entry = [Entry(c) EXCEPT !.spent = 0]]
  /\ Goto(c, "spent?")
  /\ UNCHANGED <<states, writer, curveVars, clock, req, history>>

\* getPacing reports the state beside the factor; recalcPacing does not.
AfterFactor(c) == IF req[c].op = "get" THEN "state?" ELSE "done"

\* ... then the spend; an unknown campaign or one without a budget is left alone.
ReadSpent(c) ==
  /\ pc[c] = "spent?"
  /\ readers' = [readers EXCEPT ![Lock(c)] = @ \ {c}]
  /\ mine' = [mine EXCEPT ![c].entry.spent = Entry(c).spent, ![c].factor = One]
  /\ Goto(c, IF mine[c].entry.known /\ mine[c].entry.budget > 0 THEN "curve?" ELSE AfterFactor(c))
  /\ UNCHANGED <<states, writer, curveVars, clock, req, history>>

\* Factor, with the curve's read lock around the sum of the shares.
ComputeFactor(c) ==
  /\ pc[c] = "curve?"
  /\ curveWriter = NoCall
  /\ mine' = [mine EXCEPT ![c].factor =
                Factor(mine[c].entry.budget, mine[c].entry.spent, Expected(curve, mine[c].at))]
  /\ Goto(c, AfterFactor(c))
  /\ UNCHANGED <<states, lockVars, curveVars, clock, req, history>>

\* State copies the entry under a read lock of its own.
ReadState(c) ==
  /\ pc[c] = "state?"
  /\ writer[Lock(c)] = NoCall
  /\ mine' = [mine EXCEPT ![c].state = Entry(c)]
  /\ Goto(c, "done")
  /\ UNCHANGED <<states, lockVars, curveVars, clock, req, history>>

\* c.mu.Lock(), and the observed hour is averaged in ...
Learn(c) ==
  /\ pc[c] = "Learn"
  /\ curveWriter = NoCall
  /\ curveWriter' = c
  /\ curve' = [curve EXCEPT ![req[c].weekday] = Learned(@, req[c].hour, req[c].observed)]
  /\ Goto(c, "normalize")
  /\ UNCHANGED <<states, lockVars, clock, req, mine, history>>

\* ... then its row is normalised again.
Normalize(c) ==
  /\ pc[c] = "normalize"
  /\ curve' = [curve EXCEPT ![req[c].weekday] = Normalized(@)]
  /\ curveWriter' = NoCall
  /\ Goto(c, "done")
  /\ UNCHANGED <<states, lockVars, clock, req, mine, history>>

Tick ==
  /\ clock < MaxClock
  /\ clock' = clock + 1
  /\ UNCHANGED <<states, lockVars, curveVars, callVars, history>>

------------------------------------------------------------------------------
\* History: the entries and the settled plans there were while c was reading.
Sight(c) ==
  [entries |-> {Entry(c)},
   plans |-> IF curveWriter = NoCall THEN {Expected(curve, mine[c].at)} ELSE {}]

Watch ==
  saw' = [c \in Calls |->
            IF pc'[c] \notin Reading /\ pc[c] \notin Reading THEN saw[c]
            ELSE [entries |-> saw[c].entries \union Sight(c)'.entries,
                  plans |-> saw[c].plans \union Sight(c)'.plans]]

Step(c) ==
  \/ Begin(c)
  \/ LockShard(c) \/ SetBudget(c) \/ SetSpent(c) \/ AddSpend(c)
  \/ ReadBudget(c) \/ ReadSpent(c) \/ ComputeFactor(c) \/ ReadState(c)
  \/ Learn(c) \/ Normalize(c)

Next == (Tick \/ \E c \in Calls : Step(c)) /\ Watch

Ended == clock = MaxClock /\ \A c \in Calls : pc[c] \in {"done", "refused"}

\* Nothing is left to do; anywhere else a stop is a deadlock.
Stop == Ended /\ UNCHANGED vars

Spec == Init /\ [][Next \/ Stop]_vars

------------------------------------------------------------------------------
(***************************************************************************)
(* Every update lands: a campaign's spend is the last one a recalc brought *)
(* plus every AddSpend since, whoever else wrote at the same time; and     *)
(* unless two recalcs of the campaign have overlapped, the budget and the  *)
(* spend are those of one recalc, although the handler sets them one after *)
(* the other (recalcPacing in handler.go).  Overlapping recalcs can leave  *)
(* the budget of one with the spend of the other.                          *)
(***************************************************************************)
UpdatesApplied ==
  \A k \in Campaigns :
    /\ states[k].spent = target[k].spent
    /\ k \notin mixed /\ Recalculating(k) = {} => states[k] = target[k]

(***************************************************************************)
(* The factor of an answer is computed from a budget and a spend that were *)
(* the campaign's at one instant of the call, and from a normalised plan   *)
(* of that time, never from halves of different states or from a curve     *)
(* that Learn is working on; the state reported beside it also existed     *)
(* (FactorAt and State in tracker.go, CumulativeFraction in curve.go).     *)
(* The two need not be the same state: getPacing locks twice.  Nothing     *)
(* answers a factor stored in Redis before, for up to sixty seconds, as    *)
(* docs/architecture.md:207-233 and README.md:162 have it.                 *)
(***************************************************************************)
Justified(f, entries, plans) ==
  \E e \in entries :
    IF e.budget > 0 THEN \E p \in plans : f = Factor(e.budget, e.spent, p) ELSE f = One

AnswersJustified ==
  \A c \in Calls :
    pc[c] = "done" /\ req[c].op \in {"get", "recalc"} =>
      /\ Justified(mine[c].factor, saw[c].entries, saw[c].plans)
      /\ req[c].op = "get" => mine[c].state \in saw[c].entries

(***************************************************************************)
(* Whatever has been learnt, the plan of a day ends with the whole budget: *)
(* in the last hour the factor asks to slow down if and only if more than  *)
(* the daily budget is spent ("ensures the daily budget is used evenly in  *)
(* 24 hours", curve.go).                                                   *)
(***************************************************************************)
PlanSpendsTheBudget ==
  curveWriter = NoCall =>
    \A k \in Campaigns, d \in Weekdays :
      states[k].budget > 0 =>
        LET plan == CumulativeFraction(curve, d, LastHour)
        IN  Less(Factor(states[k].budget, states[k].spent, plan), One)
              <=> states[k].spent > states[k].budget

(***************************************************************************)
(* Learning goes towards what was observed and never past it: one more     *)
(* Learn of an hour moves its share, normalisation included, strictly      *)
(* between the old share and the observed one (Learn in curve.go).  Shares *)
(* of zero and one are left out; normalisation keeps them.                 *)
(***************************************************************************)
LearningConverges ==
  curveWriter = NoCall =>
    \A d \in Weekdays, h \in Hours, o \in Observations \union {Zero, One} :
      LET old == Share(curve[d], h)
          new == Share(Normalized(Learned(curve[d], h, o)), h)
      IN  Less(Zero, old) /\ Less(old, One) /\ ~Less(o, Zero) =>
            /\ Less(old, o) => Less(old, new) /\ Less(new, o)
            /\ Less(o, old) => Less(o, new) /\ Less(new, old)
            /\ Same(old, o) => Same(old, new)

(***************************************************************************)
(* Within a day a campaign that spends nothing is never slowed down by the *)
(* passing of time: the plan of a later hour asks for at least as much     *)
(* (CumulativeFraction in curve.go, Factor in calculator.go).  At midnight *)
(* the plan starts over while the spend stays, until a recalc resets it.   *)
(***************************************************************************)
FactorRisesInTheDay ==
  [][\A k \in Campaigns :
       clock' = clock + 1 /\ clock' % (LastHour + 1) # 0 =>
         Leq(Factor(states[k].budget, states[k].spent, Expected(curve, clock)),
             Factor(states[k].budget, states[k].spent, Expected(curve, clock')))]_vars

(***************************************************************************)
(* Locks are held only by calls that are about to give them back: between  *)
(* taking a lock and releasing it a call waits for nothing, and no path    *)
(* out of a method keeps one (tracker.go, curve.go).  So whoever waits for *)
(* a lock can have it after one more step of its holder, and since a run   *)
(* of the model stops only when all calls have ended, every call ends.     *)
(***************************************************************************)
LocksGivenBack ==
  /\ \A s \in Shards :
       /\ writer[s] # NoCall =>
            /\ pc[writer[s]] \in {"SetBudget", "SetSpent", "AddSpend"}
            /\ Lock(writer[s]) = s /\ readers[s] = {}
       /\ readers[s] = {c \in Calls : pc[c] = "spent?" /\ Lock(c) = s}
  /\ \A c \in Calls : curveWriter = c <=> pc[c] = "normalize"
==============================================================================
