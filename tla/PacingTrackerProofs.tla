-------------------------- MODULE PacingTrackerProofs --------------------------
(***************************************************************************)
(* The locks of PacingTracker do their work, for any number of calls,      *)
(* campaigns and shards, and any hash: they are given back, no update is   *)
(* lost, and an answer is computed from states that existed.  Whatever is  *)
(* learnt, the plan spends the budget, and the factor rises in the day.    *)
(***************************************************************************)
EXTENDS PacingTracker, AmountProofs

Entries == [known : BOOLEAN, budget : Int, spent : Int]

Labels == {"idle", "refused", "done", "SetBudget", "SetSpent", "AddSpend",
           "budget?", "spent?", "curve?", "state?", "Learn", "normalize"}

\* Where a call holds the write lock of a shard, or waits for it.
Writing == {"SetBudget", "SetSpent", "AddSpend"}

TrackerTypes ==
  /\ states \in [Campaigns -> Entries]
  /\ target \in [Campaigns -> Entries]
  /\ writer \in [Shards -> Calls \union {NoCall}]
  /\ readers \in [Shards -> SUBSET Calls]
  /\ curveWriter \in Calls \union {NoCall}
  /\ req \in [Calls -> Requests \union {NoRequest}]
  /\ pc \in [Calls -> Labels]
  /\ mine = [c \in Calls |-> mine[c]]
  /\ saw = [c \in Calls |-> saw[c]]

\* The local variables of a call.
Locals(m) ==
  /\ m = [entry |-> m.entry, at |-> m.at, factor |-> m.factor, state |-> m.state]
  /\ m.entry \in Entries

\* What the position of a call says of its request, and of the entry it looked up.
Local(c) ==
  /\ pc[c] # "idle" => req[c] \in Requests
  /\ pc[c] \in {"SetBudget", "SetSpent"} => req[c].op = "recalc"
  /\ pc[c] = "AddSpend" => req[c].op = "add"
  /\ pc[c] \in Reading => req[c].op \in {"get", "recalc"}
  /\ pc[c] = "state?" => req[c].op = "get"
  /\ Locals(mine[c])
  /\ pc[c] \in Writing /\ writer[Lock(c)] = c => mine[c].entry = Entry(c)

------------------------------------------------------------------------------
\* What the kind of a request says of its fields.
LEMMA RequestKinds ==
  ASSUME NEW r \in Requests
  PROVE  /\ r.op \in {"recalc", "add", "get", "learn"}
         /\ r.op = "recalc" => r.campaign \in Campaigns /\ r.budget \in Int /\ r.spent \in Int
         /\ r.op = "add" => r.campaign \in Campaigns /\ r.amount \in Int
         /\ r.op = "get" => r.campaign \in Campaigns
<1>1. Recalcs \subseteq [budget : Int, spent : Int] /\ Amounts \subseteq Int
  BY TrackerAssumption
<1>2. CASE r \in {[op |-> "recalc", campaign |-> k, budget |-> q.budget, spent |-> q.spent] :
                    k \in Campaigns, q \in Recalcs}
  <2>1. PICK k \in Campaigns, q \in Recalcs :
          r = [op |-> "recalc", campaign |-> k, budget |-> q.budget, spent |-> q.spent]
    BY <1>2
  <2>2. q.budget \in Int /\ q.spent \in Int
    BY <1>1
  <2>3. QED
    BY <2>1, <2>2
<1>3. CASE r \in [op : {"add"}, campaign : Campaigns, amount : Amounts]
  BY <1>1, <1>3
<1>4. CASE r \in [op : {"get"}, campaign : Campaigns]
  BY <1>4
<1>5. CASE r \in [op : {"learn"}, weekday : Weekdays, hour : Hours, observed : Observations]
  BY <1>5
<1>6. QED
  BY <1>2, <1>3, <1>4, <1>5 DEF Requests

\* Where a request begins.
LEMMA FirstSteps ==
  ASSUME NEW r \in Requests
  PROVE  /\ r.op = "recalc" => FirstStep(r) \in {"refused", "SetBudget"}
         /\ r.op = "add" => FirstStep(r) \in {"done", "AddSpend"}
         /\ r.op = "get" => FirstStep(r) = "budget?"
         /\ r.op = "learn" => FirstStep(r) \in {"done", "Learn"}
  BY DEF FirstStep

\* A campaign a call writes or reads, and its shard.
LEMMA CampaignOf ==
  ASSUME TrackerTypes, NEW c \in Calls, Local(c), pc[c] \in Writing \union Reading
  PROVE  /\ Campaign(c) \in Campaigns /\ Lock(c) \in Shards /\ Entry(c) \in Entries
         /\ req[c].op \in {"recalc", "add", "get"} /\ req[c] \in Requests
<1>1. req[c] \in Requests /\ req[c].op \in {"recalc", "add", "get"}
  BY DEF Local, Writing, Reading
<1>2. Campaign(c) \in Campaigns
  BY <1>1, RequestKinds DEF Campaign
<1>3. QED
  BY <1>1, <1>2, TrackerAssumption DEF TrackerTypes, Lock, Entry

------------------------------------------------------------------------------
(* The locks. *)

\* LocksGivenBack, shard by shard and call by call.
ShardLocks(s) ==
  /\ writer[s] # NoCall =>
       /\ pc[writer[s]] \in Writing
       /\ Lock(writer[s]) = s /\ readers[s] = {}
  /\ readers[s] = {c \in Calls : pc[c] = "spent?" /\ Lock(c) = s}

CurveLock(c) == curveWriter = c <=> pc[c] = "normalize"

\* The part of the invariant that the locks stand on.
CoreInv ==
  /\ TrackerTypes
  /\ \A s \in Shards : ShardLocks(s)
  /\ \A c \in Calls : CurveLock(c) /\ Local(c)

LEMMA CoreInvInit == Init => CoreInv
<1>1. SUFFICES ASSUME Init PROVE CoreInv
  OBVIOUS
<1>2. Unknown \in Entries
  BY DEF Unknown, Entries
<1>3. TrackerTypes
  BY <1>1, <1>2 DEF Init, TrackerTypes, Labels
<1>4. ASSUME NEW s \in Shards PROVE ShardLocks(s)
  BY <1>1, <1>4 DEF Init, ShardLocks
<1>5. ASSUME NEW c \in Calls PROVE CurveLock(c) /\ Local(c)
  <2>1. pc[c] = "idle" /\ curveWriter # c
    BY <1>1, TrackerAssumption DEF Init
  <2>2. Locals(mine[c])
    BY <1>1, <1>2 DEF Init, Locals
  <2>3. QED
    BY <2>1, <2>2 DEF CurveLock, Local, Writing, Reading
<1>6. QED
  BY <1>3, <1>4, <1>5 DEF CoreInv

\* What a step of c needs to know of c.
LEMMA CallFacts ==
  ASSUME CoreInv, NEW c \in Calls
  PROVE  /\ TrackerTypes /\ Local(c) /\ CurveLock(c) /\ Locals(mine[c])
         /\ pc[c] \in Labels /\ mine = [mine EXCEPT ![c] = mine[c]]
         /\ req = [req EXCEPT ![c] = req[c]]
         /\ req[c] \in Requests \union {NoRequest}
  BY DEF CoreInv, Local, TrackerTypes

(***************************************************************************)
(* A step of c preserves the invariant when it does so for c and for the   *)
(* locks, and leaves alone the entries that other writers have looked up.  *)
(***************************************************************************)
LEMMA CoreStep ==
  ASSUME CoreInv, NEW c \in Calls, NEW l \in Labels, NEW m,
         NEW q \in Requests \union {NoRequest},
         pc' = [pc EXCEPT ![c] = l], mine' = [mine EXCEPT ![c] = m],
         req' = [req EXCEPT ![c] = q], saw' = [d \in Calls |-> saw'[d]],
         states' \in [Campaigns -> Entries], target' \in [Campaigns -> Entries],
         writer' \in [Shards -> Calls \union {NoCall}],
         readers' \in [Shards -> SUBSET Calls],
         curveWriter' \in Calls \union {NoCall},
         \A s \in Shards : ShardLocks(s)',
         \A d \in Calls : CurveLock(d)',
         Local(c)',
         \A d \in Calls \ {c} : pc[d] \in Writing /\ writer'[Lock(d)] = d =>
           writer[Lock(d)] = d /\ states'[Campaign(d)] = states[Campaign(d)]
  PROVE  CoreInv'
<1>1. TrackerTypes'
  BY DEF CoreInv, TrackerTypes
<1>2. ASSUME NEW d \in Calls \ {c} PROVE Local(d)'
  <2>1. Local(d)
    BY DEF CoreInv
  <2>2. pc'[d] = pc[d] /\ mine'[d] = mine[d] /\ req'[d] = req[d]
    BY DEF CoreInv, TrackerTypes
  <2>3. QED
    BY <2>1, <2>2 DEF Local, Lock, Entry, Campaign
<1>3. QED
  BY <1>1, <1>2 DEF CoreInv

\* A step that takes and releases no lock of a shard.
LEMMA ShardLocksQuiet ==
  ASSUME CoreInv, NEW c \in Calls, NEW l \in Labels,
         pc' = [pc EXCEPT ![c] = l], UNCHANGED <<writer, readers>>,
         l # "spent?", pc[c] # "spent?", pc[c] \notin Writing,
         \A d \in Calls \ {c} : req'[d] = req[d]
  PROVE  \A s \in Shards : ShardLocks(s)'
<1>1. SUFFICES ASSUME NEW s \in Shards PROVE ShardLocks(s)'
  OBVIOUS
<1>2. ShardLocks(s) /\ pc \in [Calls -> Labels] /\ writer[s] \in Calls \union {NoCall}
  BY DEF CoreInv, TrackerTypes
<1>3. ASSUME NEW d \in Calls \ {c} PROVE pc'[d] = pc[d] /\ Lock(d)' = Lock(d)
  BY <1>2 DEF Lock, Campaign
<1>4. pc'[c] = l
  BY <1>2
<1>5. {d \in Calls : pc'[d] = "spent?" /\ Lock(d)' = s}
        = {d \in Calls : pc[d] = "spent?" /\ Lock(d) = s}
  BY <1>3, <1>4
<1>6. writer[s] # NoCall => writer[s] \in Calls \ {c}
  BY <1>2 DEF ShardLocks
<1>7. QED
  BY <1>2, <1>3, <1>5, <1>6 DEF ShardLocks

\* A step that takes and releases no lock of the curve.
LEMMA CurveLocksQuiet ==
  ASSUME CoreInv, NEW c \in Calls, NEW l \in Labels,
         pc' = [pc EXCEPT ![c] = l], curveWriter' = curveWriter,
         l # "normalize", pc[c] # "normalize"
  PROVE  \A d \in Calls : CurveLock(d)'
<1>1. SUFFICES ASSUME NEW d \in Calls PROVE CurveLock(d)'
  OBVIOUS
<1>2. CurveLock(d) /\ CurveLock(c) /\ pc \in [Calls -> Labels]
  BY DEF CoreInv, TrackerTypes
<1>3. QED
  BY <1>2 DEF CurveLock

\* The steps that touch no lock but read under one, or compute.
LEMMA QuietSteps ==
  ASSUME CoreInv, NEW c \in Calls, saw' = [d \in Calls |-> saw'[d]],
         Begin(c) \/ ComputeFactor(c) \/ ReadState(c)
  PROVE  CoreInv'
<1>1. /\ TrackerTypes /\ Local(c) /\ Locals(mine[c]) /\ pc[c] \in Labels
      /\ mine = [mine EXCEPT ![c] = mine[c]] /\ req = [req EXCEPT ![c] = req[c]]
      /\ req[c] \in Requests \union {NoRequest}
  BY CallFacts
<1> USE DEF Labels
<1>2. CASE Begin(c)
  <2>1. PICK r \in Requests : req' = [req EXCEPT ![c] = r] /\ Goto(c, FirstStep(r))
    BY <1>2 DEF Begin
  <2>2. PICK l \in {"refused", "SetBudget", "done", "AddSpend", "budget?", "Learn"} :
          /\ l = FirstStep(r)
          /\ l = "SetBudget" => r.op = "recalc"
          /\ l = "AddSpend" => r.op = "add"
          /\ l = "budget?" => r.op = "get"
    BY FirstSteps, RequestKinds
  <2>3. PICK t : mine' = [mine EXCEPT ![c].at = t]
    BY <1>2 DEF Begin
  <2>4. PICK m : m = [mine[c] EXCEPT !.at = t]
    OBVIOUS
  <2>5. mine' = [mine EXCEPT ![c] = m] /\ Locals(m)
    BY <1>1, <2>3, <2>4 DEF Locals
  <2>6. /\ pc[c] = "idle" /\ pc' = [pc EXCEPT ![c] = l]
        /\ UNCHANGED <<states, target, writer, readers, curveWriter>>
    BY <1>2, <2>1, <2>2 DEF Begin, Goto, lockVars, curveVars
  <2>7. \A s \in Shards : ShardLocks(s)'
    BY <1>1, <2>1, <2>6, ShardLocksQuiet DEF TrackerTypes, Writing
  <2>8. \A d \in Calls : CurveLock(d)'
    BY <2>6, CurveLocksQuiet
  <2>9. writer'[Lock(c)'] # c \/ l \notin Writing
    <3>1. SUFFICES ASSUME l \in Writing, writer[Lock(c)'] = c PROVE FALSE
      BY <2>6
    <3>2. r.campaign \in Campaigns /\ Lock(c)' = ShardOf[r.campaign]
      BY <1>1, <2>1, <2>2, <3>1, RequestKinds DEF Lock, Campaign, Writing, TrackerTypes
    <3>3. ShardLocks(Lock(c)')
      BY <3>2, TrackerAssumption DEF CoreInv
    <3>4. QED
      BY <2>6, <3>1, <3>3, TrackerAssumption DEF ShardLocks, Writing
  <2>10. Local(c)'
    BY <1>1, <2>1, <2>2, <2>5, <2>6, <2>9
       DEF Local, TrackerTypes, Reading, Writing
  <2>11. QED
    BY <1>1, <2>1, <2>5, <2>6, <2>7, <2>8, <2>10, CoreStep DEF TrackerTypes
<1>3. CASE ComputeFactor(c)
  <2>1. PICK f : mine' = [mine EXCEPT ![c].factor = f]
    BY <1>3 DEF ComputeFactor
  <2>2. PICK m : m = [mine[c] EXCEPT !.factor = f]
    OBVIOUS
  <2>3. mine' = [mine EXCEPT ![c] = m] /\ Locals(m)
    BY <1>1, <2>1, <2>2 DEF Locals
  <2>4. PICK l \in {"state?", "done"} :
          /\ pc' = [pc EXCEPT ![c] = l]
          /\ l = "state?" => req[c].op = "get"
    BY <1>3 DEF ComputeFactor, Goto, AfterFactor
  <2>5. /\ pc[c] = "curve?" /\ req' = req
        /\ UNCHANGED <<states, target, writer, readers, curveWriter>>
    BY <1>3 DEF ComputeFactor, lockVars, curveVars, history
  <2>6. \A s \in Shards : ShardLocks(s)'
    BY <2>4, <2>5, ShardLocksQuiet DEF Writing
  <2>7. \A d \in Calls : CurveLock(d)'
    BY <2>4, <2>5, CurveLocksQuiet
  <2>8. Local(c)'
    BY <1>1, <2>3, <2>4, <2>5 DEF Local, TrackerTypes, Reading, Writing
  <2>9. QED
    BY <1>1, <2>3, <2>4, <2>5, <2>6, <2>7, <2>8, CoreStep DEF TrackerTypes
<1>4. CASE ReadState(c)
  <2>1. PICK f : mine' = [mine EXCEPT ![c].state = f]
    BY <1>4 DEF ReadState
  <2>2. PICK m : m = [mine[c] EXCEPT !.state = f]
    OBVIOUS
  <2>3. mine' = [mine EXCEPT ![c] = m] /\ Locals(m)
    BY <1>1, <2>1, <2>2 DEF Locals
  <2>4. /\ pc' = [pc EXCEPT ![c] = "done"] /\ pc[c] = "state?" /\ req' = req
        /\ UNCHANGED <<states, target, writer, readers, curveWriter>>
    BY <1>4 DEF ReadState, Goto, lockVars, curveVars, history
  <2>5. \A s \in Shards : ShardLocks(s)'
    BY <2>4, ShardLocksQuiet DEF Writing
  <2>6. \A d \in Calls : CurveLock(d)'
    BY <2>4, CurveLocksQuiet
  <2>7. Local(c)'
    BY <1>1, <2>3, <2>4 DEF Local, TrackerTypes, Reading, Writing
  <2>8. QED
    BY <1>1, <2>3, <2>4, <2>5, <2>6, <2>7, CoreStep DEF TrackerTypes
<1>5. QED
  BY <1>2, <1>3, <1>4

\* Learn takes the lock of the curve, and gives it back when the row is normalised.
LEMMA LearnSteps ==
  ASSUME CoreInv, NEW c \in Calls, saw' = [d \in Calls |-> saw'[d]],
         Learn(c) \/ Normalize(c)
  PROVE  CoreInv'
<1>1. /\ TrackerTypes /\ Local(c) /\ Locals(mine[c]) /\ pc[c] \in Labels
      /\ mine = [mine EXCEPT ![c] = mine[c]] /\ req = [req EXCEPT ![c] = req[c]]
      /\ req[c] \in Requests \union {NoRequest}
  BY CallFacts
<1>2. PICK l \in {"normalize", "done"} : pc' = [pc EXCEPT ![c] = l]
  BY DEF Learn, Normalize, Goto
<1>3. /\ pc[c] \in {"Learn", "normalize"}
      /\ UNCHANGED <<states, target, writer, readers, req, mine>>
      /\ curveWriter' \in {c, NoCall}
  BY DEF Learn, Normalize, lockVars, history
<1>4. \A s \in Shards : ShardLocks(s)'
  BY <1>2, <1>3, ShardLocksQuiet DEF Writing, Labels
<1>5. \A d \in Calls : CurveLock(d)'
  <2>1. SUFFICES ASSUME NEW d \in Calls PROVE CurveLock(d)'
    OBVIOUS
  <2>2. CurveLock(d) /\ CurveLock(c) /\ pc \in [Calls -> Labels] /\ NoCall \notin Calls
    BY TrackerAssumption DEF CoreInv, TrackerTypes
  <2>3. QED
    BY <2>2 DEF CurveLock, Learn, Normalize, Goto
<1>6. Local(c)'
  BY <1>1, <1>2, <1>3 DEF Local, TrackerTypes, Reading, Writing
<1>7. /\ l \in Labels /\ mine' = [mine EXCEPT ![c] = mine[c]]
      /\ req' = [req EXCEPT ![c] = req[c]]
      /\ states' \in [Campaigns -> Entries] /\ target' \in [Campaigns -> Entries]
      /\ writer' \in [Shards -> Calls \union {NoCall}] /\ readers' \in [Shards -> SUBSET Calls]
      /\ curveWriter' \in Calls \union {NoCall}
  BY <1>1, <1>3 DEF TrackerTypes, Labels
<1>8. QED
  BY <1>1, <1>2, <1>3, <1>4, <1>5, <1>6, <1>7, CoreStep

\* Taking the lock of a shard, with the look-up of the campaign.
LEMMA LockStep ==
  ASSUME CoreInv, NEW c \in Calls, saw' = [d \in Calls |-> saw'[d]], LockShard(c)
  PROVE  CoreInv'
<1>1. /\ TrackerTypes /\ Local(c) /\ Locals(mine[c]) /\ pc[c] \in Labels
      /\ req = [req EXCEPT ![c] = req[c]] /\ req[c] \in Requests \union {NoRequest}
  BY CallFacts
<1>2. /\ pc[c] \in Writing /\ Exclusive(Lock(c))
      /\ writer' = [writer EXCEPT ![Lock(c)] = c]
      /\ mine' = [mine EXCEPT ![c].entry = Entry(c)]
      /\ UNCHANGED <<states, target, readers, curveWriter, req, pc>>
  BY DEF LockShard, Writing, curveVars, history
<1>3. Lock(c) \in Shards /\ Entry(c) \in Entries
  BY <1>1, <1>2, CampaignOf
<1>4. PICK m : m = [mine[c] EXCEPT !.entry = Entry(c)]
  OBVIOUS
<1>5. /\ mine' = [mine EXCEPT ![c] = m] /\ Locals(m) /\ m.entry = Entry(c)
      /\ pc' = [pc EXCEPT ![c] = pc[c]]
  BY <1>1, <1>2, <1>3, <1>4 DEF Locals, TrackerTypes
<1>6. \A s \in Shards : ShardLocks(s)'
  <2>1. SUFFICES ASSUME NEW s \in Shards PROVE ShardLocks(s)'
    OBVIOUS
  <2>2. ShardLocks(s) /\ writer \in [Shards -> Calls \union {NoCall}]
    BY DEF CoreInv, TrackerTypes
  <2>3. \A d \in Calls : Lock(d)' = Lock(d) /\ pc'[d] = pc[d]
    BY <1>2 DEF Lock, Campaign
  <2>4. CASE s = Lock(c)
    BY <1>2, <1>3, <2>2, <2>3, <2>4 DEF ShardLocks, Exclusive
  <2>5. CASE s # Lock(c)
    <3>1. writer'[s] = writer[s] /\ readers'[s] = readers[s]
      BY <1>2, <2>2, <2>5
    <3>2. writer[s] # NoCall => writer[s] \in Calls
      BY <2>2
    <3>3. QED
      BY <2>2, <2>3, <3>1, <3>2 DEF ShardLocks
  <2>6. QED
    BY <2>4, <2>5
<1>7. \A d \in Calls : CurveLock(d)'
  BY <1>2 DEF CoreInv, CurveLock
<1>8. Local(c)'
  BY <1>1, <1>2, <1>5 DEF Local, Locals, TrackerTypes, Entry, Campaign, Lock
<1>9. writer' \in [Shards -> Calls \union {NoCall}]
  BY <1>1, <1>2 DEF TrackerTypes
<1>10. ASSUME NEW d \in Calls \ {c}, writer'[Lock(d)] = d PROVE writer[Lock(d)] = d
  <2>1. writer \in [Shards -> Calls \union {NoCall}]
    BY <1>1 DEF TrackerTypes
  <2>2. QED
    BY <1>2, <1>3, <1>10, <2>1
<1>11. QED
  BY <1>1, <1>2, <1>5, <1>6, <1>7, <1>8, <1>9, <1>10, CoreStep DEF TrackerTypes

\* What the writing methods leave in the two tables of entries.
LEMMA WriteTypes ==
  ASSUME CoreInv, NEW c \in Calls, SetBudget(c) \/ SetSpent(c) \/ AddSpend(c)
  PROVE  /\ states' \in [Campaigns -> Entries] /\ target' \in [Campaigns -> Entries]
         /\ \A k \in Campaigns \ {Campaign(c)} :
              states'[k] = states[k] /\ target'[k] = target[k]
<1>1. TrackerTypes /\ Local(c) /\ Locals(mine[c])
  BY CallFacts
<1>2. /\ pc[c] \in Writing /\ Campaign(c) \in Campaigns /\ req[c] \in Requests
      /\ Entry(c) \in Entries /\ target[Campaign(c)] \in Entries /\ mine[c].entry \in Entries
  <2>1. pc[c] \in Writing
    BY DEF SetBudget, SetSpent, AddSpend, Holds, Writing
  <2>2. QED
    BY <1>1, <2>1, CampaignOf DEF TrackerTypes, Locals
<1>3. /\ req[c].op = "recalc" => req[c].budget \in Int /\ req[c].spent \in Int
      /\ req[c].op = "add" => req[c].amount \in Int
  BY <1>2, RequestKinds
<1>4. states \in [Campaigns -> Entries] /\ target \in [Campaigns -> Entries]
  BY <1>1 DEF TrackerTypes
<1>5. CASE SetBudget(c)
  <2>1. req[c].op = "recalc"
    BY <1>1, <1>5 DEF SetBudget, Holds, Local
  <2>2. PICK e \in Entries : states' = [states EXCEPT ![Campaign(c)] = e]
    <3>1. [known |-> TRUE, budget |-> req[c].budget,
           spent |-> IF mine[c].entry.known THEN Entry(c).spent ELSE 0] \in Entries
      BY <1>2, <1>3, <2>1 DEF Entries
    <3>2. QED
      BY <1>5, <3>1 DEF SetBudget, Entry
  <2>3. QED
    BY <1>2, <1>4, <1>5, <2>2 DEF SetBudget, history
<1>6. CASE SetSpent(c)
  <2>1. req[c].op = "recalc"
    BY <1>1, <1>6 DEF SetSpent, Holds, Local
  <2>2. PICK old \in Entries :
          states' = [states EXCEPT ![Campaign(c)] =
                      [known |-> TRUE, budget |-> old.budget, spent |-> NewSpent(c, old.spent)]]
    <3>1. PICK e : e = IF mine[c].entry.known THEN Entry(c) ELSE Unknown
      OBVIOUS
    <3>2. e \in Entries
      BY <1>2, <3>1 DEF Unknown, Entries
    <3>3. states' = [states EXCEPT ![Campaign(c)] =
                      [known |-> TRUE, budget |-> e.budget, spent |-> NewSpent(c, e.spent)]]
      BY <1>6, <3>1 DEF SetSpent
    <3>4. QED
      BY <3>2, <3>3
  <2>3. \A n \in Int : NewSpent(c, n) \in Int
    BY <1>3, <2>1 DEF NewSpent
  <2>4. [known |-> TRUE, budget |-> old.budget, spent |-> NewSpent(c, old.spent)] \in Entries
    BY <2>3 DEF Entries
  <2>5. [known |-> TRUE, budget |-> req[c].budget,
         spent |-> NewSpent(c, target[Campaign(c)].spent)] \in Entries
    BY <1>2, <1>3, <2>1, <2>3 DEF Entries
  <2>6. target' = [target EXCEPT ![Campaign(c)] =
                    [known |-> TRUE, budget |-> req[c].budget,
                     spent |-> NewSpent(c, target[Campaign(c)].spent)]]
    BY <1>6 DEF SetSpent
  <2>7. QED
    BY <1>2, <1>4, <2>2, <2>4, <2>5, <2>6
<1>7. CASE AddSpend(c)
  <2>1. req[c].op = "add"
    BY <1>1, <1>7 DEF AddSpend, Holds, Local
  <2>2. CASE ~mine[c].entry.known
    BY <1>4, <1>7, <2>2 DEF AddSpend
  <2>3. CASE mine[c].entry.known
    <3>1. PICK e, t :
            /\ e = [states[Campaign(c)] EXCEPT !.spent = mine[c].entry.spent + req[c].amount]
            /\ t = [target[Campaign(c)] EXCEPT !.spent = @ + req[c].amount]
      OBVIOUS
    <3>2. mine[c].entry.spent + req[c].amount \in Int
      BY <1>2, <1>3, <2>1 DEF Entries
    <3>3. e \in Entries /\ t \in Entries
      BY <1>2, <1>3, <2>1, <3>1, <3>2 DEF Entries, Entry
    <3>4. /\ states' = [states EXCEPT ![Campaign(c)].spent = mine[c].entry.spent + req[c].amount]
          /\ target' = [target EXCEPT ![Campaign(c)].spent = @ + req[c].amount]
      BY <1>7, <2>3 DEF AddSpend
    <3>5. states' = [states EXCEPT ![Campaign(c)] = e]
      BY <3>1, <3>4
    <3>6. target' = [target EXCEPT ![Campaign(c)] = t]
      BY <3>1, <3>4
    <3>7. QED
      BY <1>2, <1>4, <3>5, <3>6, <3>3
  <2>4. QED
    BY <2>2, <2>3
<1>8. QED
  BY <1>5, <1>6, <1>7

\* A writing method ends: it writes its campaign, and gives the lock back.
LEMMA WriteSteps ==
  ASSUME CoreInv, NEW c \in Calls, saw' = [d \in Calls |-> saw'[d]],
         SetBudget(c) \/ SetSpent(c) \/ AddSpend(c)
  PROVE  CoreInv'
<1>1. /\ TrackerTypes /\ Local(c) /\ Locals(mine[c]) /\ pc[c] \in Labels
      /\ mine = [mine EXCEPT ![c] = mine[c]] /\ req = [req EXCEPT ![c] = req[c]]
      /\ req[c] \in Requests \union {NoRequest}
  BY CallFacts
<1>2. /\ pc[c] \in Writing /\ writer[Lock(c)] = c
      /\ writer' = [writer EXCEPT ![Lock(c)] = NoCall]
      /\ UNCHANGED <<readers, curveWriter, req>>
  BY DEF SetBudget, SetSpent, AddSpend, Holds, Unlock, Writing, curveVars
<1>3. /\ Campaign(c) \in Campaigns /\ Lock(c) \in Shards /\ Entry(c) \in Entries
      /\ req[c] \in Requests /\ mine[c].entry = Entry(c)
  BY <1>1, <1>2, CampaignOf DEF Local
<1>4. PICK l \in {"SetSpent", "budget?", "done"} :
        /\ pc' = [pc EXCEPT ![c] = l]
        /\ l # "done" => req[c].op = "recalc"
  BY <1>1 DEF SetBudget, SetSpent, AddSpend, Holds, Goto, Local
<1>5. PICK m : mine' = [mine EXCEPT ![c] = m] /\ Locals(m)
  <2>1. CASE SetBudget(c) \/ AddSpend(c)
    BY <1>1, <2>1 DEF SetBudget, AddSpend
  <2>2. CASE SetSpent(c)
    <3>1. PICK n : n = [mine[c] EXCEPT !.at = clock]
      OBVIOUS
    <3>2. mine' = [mine EXCEPT ![c] = n] /\ Locals(n)
      BY <1>1, <2>2, <3>1 DEF SetSpent, Locals
    <3>3. QED
      BY <3>2
  <2>3. QED
    BY <2>1, <2>2
<1>6. /\ states' \in [Campaigns -> Entries] /\ target' \in [Campaigns -> Entries]
      /\ \A k \in Campaigns \ {Campaign(c)} : states'[k] = states[k]
  BY WriteTypes
<1>7. \A s \in Shards : ShardLocks(s)'
  <2>1. SUFFICES ASSUME NEW s \in Shards PROVE ShardLocks(s)'
    OBVIOUS
  <2>2. /\ ShardLocks(s) /\ writer \in [Shards -> Calls \union {NoCall}]
        /\ pc \in [Calls -> Labels]
    BY DEF CoreInv, TrackerTypes
  <2>3. \A d \in Calls : Lock(d)' = Lock(d)
    BY <1>2 DEF Lock, Campaign
  <2>4. \A d \in Calls \ {c} : pc'[d] = pc[d]
    BY <1>4, <2>2
  <2>5. {d \in Calls : pc'[d] = "spent?" /\ Lock(d)' = s}
          = {d \in Calls : pc[d] = "spent?" /\ Lock(d) = s}
    BY <1>2, <1>4, <2>2, <2>3, <2>4 DEF Writing
  <2>6. CASE s = Lock(c)
    BY <1>2, <1>3, <2>2, <2>5, <2>6 DEF ShardLocks
  <2>7. CASE s # Lock(c)
    <3>1. writer'[s] = writer[s] /\ readers'[s] = readers[s]
      BY <1>2, <2>2, <2>7
    <3>2. writer[s] # NoCall => writer[s] \in Calls \ {c}
      BY <2>2, <2>7 DEF ShardLocks
    <3>3. QED
      BY <2>2, <2>3, <2>4, <2>5, <3>1, <3>2 DEF ShardLocks
  <2>8. QED
    BY <2>6, <2>7
<1>8. \A d \in Calls : CurveLock(d)'
  BY <1>2, <1>4, CurveLocksQuiet DEF Writing, Labels
<1>9. Local(c)'
  <2>1. pc'[c] = l /\ mine'[c] = m /\ req'[c] = req[c]
    BY <1>1, <1>2, <1>4, <1>5 DEF TrackerTypes
  <2>2. writer'[Lock(c)'] # c
    BY <1>1, <1>2, <1>3, TrackerAssumption DEF TrackerTypes, Lock, Campaign
  <2>3. QED
    BY <1>3, <1>4, <1>5, <2>1, <2>2 DEF Local, Reading
<1>10. writer' \in [Shards -> Calls \union {NoCall}] /\ readers' \in [Shards -> SUBSET Calls]
       /\ curveWriter' \in Calls \union {NoCall} /\ l \in Labels
       /\ req' = [req EXCEPT ![c] = req[c]]
  BY <1>1, <1>2 DEF TrackerTypes, Labels
<1>11. ASSUME NEW d \in Calls \ {c}, pc[d] \in Writing, writer'[Lock(d)] = d
       PROVE  writer[Lock(d)] = d /\ states'[Campaign(d)] = states[Campaign(d)]
  <2>1. Lock(d) \in Shards /\ Campaign(d) \in Campaigns
    BY <1>1, <1>11, CampaignOf DEF CoreInv
  <2>2. writer \in [Shards -> Calls \union {NoCall}] /\ NoCall # d
    BY <1>1, TrackerAssumption DEF TrackerTypes
  <2>3. Lock(d) # Lock(c) /\ writer[Lock(d)] = d
    BY <1>2, <1>3, <1>11, <2>1, <2>2
  <2>4. Campaign(d) # Campaign(c)
    BY <2>3 DEF Lock
  <2>5. QED
    BY <1>6, <2>1, <2>3, <2>4
<1>12. QED
  BY <1>1, <1>4, <1>5, <1>6, <1>7, <1>8, <1>9, <1>10, <1>11, CoreStep

\* FactorAt takes the read lock of a shard, and gives it back.
LEMMA ReadSteps ==
  ASSUME CoreInv, NEW c \in Calls, saw' = [d \in Calls |-> saw'[d]],
         ReadBudget(c) \/ ReadSpent(c)
  PROVE  CoreInv'
<1>1. /\ TrackerTypes /\ Local(c) /\ Locals(mine[c]) /\ pc[c] \in Labels
      /\ req = [req EXCEPT ![c] = req[c]]
      /\ req[c] \in Requests \union {NoRequest}
  BY CallFacts
<1>2. /\ pc[c] \in {"budget?", "spent?"}
      /\ UNCHANGED <<states, target, writer, curveWriter, req>>
  BY DEF ReadBudget, ReadSpent, curveVars, history
<1>3. Lock(c) \in Shards /\ Entry(c) \in Entries
  BY <1>1, <1>2, CampaignOf DEF Reading
<1>4. PICK l \in {"spent?", "curve?", "state?", "done"} :
        /\ pc' = [pc EXCEPT ![c] = l]
        /\ l = "state?" => req[c].op = "get"
  BY DEF ReadBudget, ReadSpent, Goto, AfterFactor
<1>5. PICK m : mine' = [mine EXCEPT ![c] = m] /\ Locals(m)
  <2>1. CASE ReadBudget(c)
    <3>1. PICK n : n = [mine[c] EXCEPT !.entry = [Entry(c) EXCEPT !.spent = 0]]
      OBVIOUS
    <3>2. [Entry(c) EXCEPT !.spent = 0] \in Entries
      BY <1>3 DEF Entries
    <3>3. mine' = [mine EXCEPT ![c] = n] /\ Locals(n)
      BY <1>1, <2>1, <3>1, <3>2 DEF ReadBudget, Locals
    <3>4. QED
      BY <3>3
  <2>2. CASE ReadSpent(c)
    <3>1. PICK e : e = [mine[c].entry EXCEPT !.spent = Entry(c).spent]
      OBVIOUS
    <3>2. PICK n : n = [mine[c] EXCEPT !.entry = e, !.factor = One]
      OBVIOUS
    <3>3. e \in Entries
      BY <1>1, <1>3, <3>1 DEF Locals, Entries
    <3>4. mine' = [mine EXCEPT ![c] = n]
      BY <1>1, <2>2, <3>1, <3>2 DEF ReadSpent, TrackerTypes
    <3>5. Locals(n)
      BY <1>1, <3>2, <3>3 DEF Locals
    <3>6. QED
      BY <3>4, <3>5
  <2>3. QED
    BY <2>1, <2>2
<1>6. readers' \in [Shards -> SUBSET Calls]
  BY <1>1 DEF ReadBudget, ReadSpent, TrackerTypes
<1>7. \A s \in Shards : ShardLocks(s)'
  <2>1. SUFFICES ASSUME NEW s \in Shards PROVE ShardLocks(s)'
    OBVIOUS
  <2>2. /\ ShardLocks(s) /\ writer \in [Shards -> Calls \union {NoCall}]
        /\ pc \in [Calls -> Labels] /\ readers \in [Shards -> SUBSET Calls]
    BY DEF CoreInv, TrackerTypes
  <2>3. \A d \in Calls : Lock(d)' = Lock(d)
    BY <1>2 DEF Lock, Campaign
  <2>4. pc'[c] = l /\ \A d \in Calls \ {c} : pc'[d] = pc[d]
    BY <1>4, <2>2
  <2>5. writer[s] # NoCall => writer[s] \in Calls \ {c}
    BY <1>2, <2>2 DEF ShardLocks, Writing
  <2>6. readers'[s] = {d \in Calls : pc'[d] = "spent?" /\ Lock(d)' = s}
    <3>1. CASE ReadBudget(c)
      <4>1. readers'[s] = IF s = Lock(c) THEN readers[s] \union {c} ELSE readers[s]
        BY <1>3, <2>2, <3>1 DEF ReadBudget
      <4>2. pc[c] = "budget?" /\ l = "spent?"
        BY <2>2, <2>4, <3>1 DEF ReadBudget, Goto
      <4>3. QED
        BY <2>2, <2>3, <2>4, <4>1, <4>2 DEF ShardLocks
    <3>2. CASE ReadSpent(c)
      <4>1. readers'[s] = IF s = Lock(c) THEN readers[s] \ {c} ELSE readers[s]
        BY <1>3, <2>2, <3>2 DEF ReadSpent
      <4>2. pc[c] = "spent?" /\ l # "spent?"
        BY <2>2, <2>4, <3>2 DEF ReadSpent, Goto, AfterFactor
      <4>3. QED
        BY <2>2, <2>3, <2>4, <4>1, <4>2 DEF ShardLocks
    <3>3. QED
      BY <3>1, <3>2
  <2>7. writer[s] # NoCall => readers'[s] = {}
    <3>1. CASE ReadBudget(c)
      BY <1>3, <2>2, <3>1 DEF ReadBudget, ShardLocks
    <3>2. CASE ReadSpent(c)
      BY <1>3, <2>2, <3>2 DEF ReadSpent, ShardLocks
    <3>3. QED
      BY <3>1, <3>2
  <2>8. QED
    BY <1>2, <2>2, <2>3, <2>4, <2>5, <2>6, <2>7 DEF ShardLocks
<1>8. \A d \in Calls : CurveLock(d)'
  BY <1>2, <1>4, CurveLocksQuiet DEF Labels
<1>9. Local(c)'
  <2>1. pc'[c] = l /\ mine'[c] = m /\ req'[c] = req[c]
    BY <1>1, <1>2, <1>4, <1>5 DEF TrackerTypes
  <2>2. QED
    BY <1>1, <1>2, <1>4, <1>5, <2>1 DEF Local, Reading, Writing
<1>10. /\ l \in Labels /\ req' = [req EXCEPT ![c] = req[c]]
       /\ states' \in [Campaigns -> Entries] /\ target' \in [Campaigns -> Entries]
       /\ writer' \in [Shards -> Calls \union {NoCall}] /\ curveWriter' \in Calls \union {NoCall}
  BY <1>1, <1>2 DEF TrackerTypes, Labels
<1>11. QED
  BY <1>1, <1>2, <1>4, <1>5, <1>6, <1>7, <1>8, <1>9, <1>10, CoreStep


LEMMA CoreInvStep == CoreInv /\ [Next \/ Stop]_vars => CoreInv'
<1>1. SUFFICES ASSUME CoreInv, [Next \/ Stop]_vars PROVE CoreInv'
  OBVIOUS
<1>2. ASSUME UNCHANGED vars PROVE CoreInv'
  BY <1>1, <1>2
     DEF vars, CoreInv, TrackerTypes, ShardLocks, CurveLock, Local, Lock, Entry, Campaign
<1>3. ASSUME Watch PROVE saw' = [d \in Calls |-> saw'[d]]
  BY <1>3 DEF Watch
<1>4. CASE Tick /\ Watch
  <2>1. UNCHANGED <<states, target, writer, readers, curveWriter, req, pc, mine>>
    BY <1>4 DEF Tick, lockVars, curveVars, callVars, history
  <2>2. QED
    BY <1>1, <1>3, <1>4, <2>1
       DEF CoreInv, TrackerTypes, ShardLocks, CurveLock, Local, Lock, Entry, Campaign
<1>5. ASSUME NEW c \in Calls, Step(c), Watch PROVE CoreInv'
  BY <1>1, <1>3, <1>5, QuietSteps, LearnSteps, LockStep, WriteSteps, ReadSteps DEF Step
<1>6. QED
  BY <1>1, <1>2, <1>4, <1>5 DEF Next, Stop

\* Nobody keeps a lock: LocksGivenBack holds for any calls, campaigns, shards and hash.
THEOREM TrackerLocksGivenBack == Spec => []LocksGivenBack
<1>1. CoreInv => LocksGivenBack
  BY DEF CoreInv, ShardLocks, CurveLock, LocksGivenBack, Writing
<1>2. QED
  BY <1>1, CoreInvInit, CoreInvStep, PTL DEF Spec

------------------------------------------------------------------------------
(* The updates. *)

(***************************************************************************)
(* What becomes UpdatesApplied when the recalcs of k have ended: unless    *)
(* two have overlapped there is at most one, and once it has set the       *)
(* budget, the budget is its own.                                          *)
(***************************************************************************)
Updates(k) ==
  /\ states[k].spent = target[k].spent
  /\ ~states[k].known => states[k] = Unknown
  /\ k \notin mixed =>
       /\ \A c, d \in Recalculating(k) : c = d
       /\ \A c \in Recalculating(k) :
            pc[c] = "SetSpent" => states[k].known /\ states[k].budget = req[c].budget
       /\ Recalculating(k) = {} => states[k] = target[k]

UpdateInv == \A k \in Campaigns : Updates(k)

LEMMA UpdateInvInit == Init => UpdateInv
  BY DEF Init, UpdateInv, Updates, Recalculating, Unknown

\* The updates of a campaign that a step does not touch.
LEMMA UpdatesQuiet ==
  ASSUME NEW k \in Campaigns, Updates(k),
         states'[k] = states[k], target'[k] = target[k], mixed \subseteq mixed',
         Recalculating(k)' = Recalculating(k),
         \A d \in Recalculating(k) : pc'[d] = pc[d] /\ req'[d] = req[d]
  PROVE  Updates(k)'
  BY DEF Updates, Unknown

\* A step of c that neither begins a recalculation nor ends one.
LEMMA RecalculatingQuiet ==
  ASSUME CoreInv, NEW c \in Calls, NEW k,
         \A d \in Calls \ {c} : pc'[d] = pc[d] /\ req'[d] = req[d],
         c \in Recalculating(k)' <=> c \in Recalculating(k)
  PROVE  Recalculating(k)' = Recalculating(k)
  BY DEF Recalculating, Campaign


\* A step of c changes no other call.
LEMMA OthersRest ==
  ASSUME CoreInv, NEW c \in Calls, Step(c), NEW d \in Calls \ {c}
  PROVE  pc'[d] = pc[d] /\ req'[d] = req[d]
<1>1. pc \in [Calls -> Labels] /\ req \in [Calls -> Requests \union {NoRequest}]
  BY DEF CoreInv, TrackerTypes
<1>2. pc'[d] = pc[d]
  BY <1>1 DEF Step, Begin, LockShard, SetBudget, SetSpent, AddSpend, ReadBudget, ReadSpent,
              ComputeFactor, ReadState, Learn, Normalize, Goto
<1>3. req'[d] = req[d]
  BY <1>1 DEF Step, Begin, LockShard, SetBudget, SetSpent, AddSpend, ReadBudget, ReadSpent,
              ComputeFactor, ReadState, Learn, Normalize
<1>4. QED
  BY <1>2, <1>3

\* A call arrives: of a campaign that is being recalculated, the recalcs are mixed.
LEMMA BeginUpdates ==
  ASSUME CoreInv, NEW c \in Calls, Begin(c), NEW k \in Campaigns, Updates(k)
  PROVE  Updates(k)'
<1>1. /\ pc \in [Calls -> Labels] /\ req \in [Calls -> Requests \union {NoRequest}]
      /\ \A d \in Calls \ {c} : pc'[d] = pc[d] /\ req'[d] = req[d]
  BY OthersRest DEF CoreInv, TrackerTypes, Step
<1>2. PICK r \in Requests :
        /\ req' = [req EXCEPT ![c] = r] /\ pc' = [pc EXCEPT ![c] = FirstStep(r)]
        /\ mixed' = IF FirstStep(r) = "SetBudget" /\ Recalculating(r.campaign) # {}
                    THEN mixed \union {r.campaign} ELSE mixed
  BY DEF Begin, Goto
<1>3. pc[c] = "idle" /\ states' = states /\ target' = target
  BY DEF Begin
<1>4. pc'[c] = FirstStep(r) /\ req'[c] = r /\ mixed \subseteq mixed'
  BY <1>1, <1>2
<1>5. c \notin Recalculating(k)
  BY <1>3 DEF Recalculating
<1>6. FirstStep(r) # "SetSpent"
  BY FirstSteps, RequestKinds
<1>7. CASE FirstStep(r) = "SetBudget" /\ r.campaign = k
  <2>1. Recalculating(k)' = Recalculating(k) \union {c}
    BY <1>1, <1>4, <1>5, <1>7 DEF Recalculating, Campaign
  <2>2. k \notin mixed' => Recalculating(k) = {}
    BY <1>2, <1>7
  <2>3. QED
    BY <1>3, <1>4, <1>6, <2>1, <2>2 DEF Updates, Unknown
<1>8. CASE ~(FirstStep(r) = "SetBudget" /\ r.campaign = k)
  <2>1. c \notin Recalculating(k)'
    BY <1>4, <1>6, <1>8 DEF Recalculating, Campaign
  <2>2. Recalculating(k)' = Recalculating(k)
    BY <1>1, <1>5, <2>1, RecalculatingQuiet
  <2>3. \A d \in Recalculating(k) : pc'[d] = pc[d] /\ req'[d] = req[d]
    BY <1>1, <1>5 DEF Recalculating
  <2>4. QED
    BY <1>3, <1>4, <2>2, <2>3, UpdatesQuiet
<1>9. QED
  BY <1>7, <1>8

\* A writing method ends: under the lock, it wrote what it meant to write.
LEMMA WriteUpdates ==
  ASSUME CoreInv, NEW c \in Calls, SetBudget(c) \/ SetSpent(c) \/ AddSpend(c),
         NEW k \in Campaigns, Updates(k)
  PROVE  Updates(k)'
<1>1. /\ TrackerTypes /\ Local(c) /\ pc \in [Calls -> Labels]
      /\ \A d \in Calls \ {c} : pc'[d] = pc[d] /\ req'[d] = req[d]
  BY OthersRest, CallFacts DEF TrackerTypes, Step
<1>2. /\ pc[c] \in Writing /\ writer[Lock(c)] = c /\ req' = req /\ mixed' = mixed
  BY DEF SetBudget, SetSpent, AddSpend, Holds, Writing, history
<1>3. /\ Campaign(c) \in Campaigns /\ req[c] \in Requests /\ mine[c].entry = Entry(c)
      /\ states[Campaign(c)] \in Entries /\ target[Campaign(c)] \in Entries
  BY <1>1, <1>2, CampaignOf DEF Local, TrackerTypes
<1>4. /\ req[c].op = "recalc" => req[c].budget \in Int /\ req[c].spent \in Int
      /\ req[c].op = "add" => req[c].amount \in Int
  BY <1>3, RequestKinds
<1>5. ASSUME Campaign(c) # k PROVE Updates(k)'
  <2>1. c \notin Recalculating(k) /\ c \notin Recalculating(k)'
    BY <1>2, <1>5 DEF Recalculating, Campaign
  <2>2. Recalculating(k)' = Recalculating(k)
    BY <1>1, <2>1, RecalculatingQuiet
  <2>3. \A d \in Recalculating(k) : pc'[d] = pc[d] /\ req'[d] = req[d]
    BY <1>1, <2>1 DEF Recalculating
  <2>4. states'[k] = states[k] /\ target'[k] = target[k]
    BY <1>5, WriteTypes
  <2>5. QED
    BY <1>2, <2>2, <2>3, <2>4, UpdatesQuiet
<1>6. CASE SetBudget(c) /\ Campaign(c) = k
  <2>1. pc[c] = "SetBudget" /\ pc'[c] = "SetSpent" /\ target' = target
    BY <1>1, <1>6 DEF SetBudget, Holds, Goto, history
  <2>2. Recalculating(k)' = Recalculating(k)
    BY <1>1, <1>2, <1>6, <2>1, RecalculatingQuiet DEF Recalculating, Campaign
  <2>3. states'[k] = [known |-> TRUE, budget |-> req[c].budget,
                      spent |-> IF mine[c].entry.known THEN states[k].spent ELSE 0]
    BY <1>1, <1>6 DEF SetBudget, TrackerTypes
  <2>4. states'[k].known /\ states'[k].budget = req[c].budget
        /\ states'[k].spent = states[k].spent
    BY <1>3, <1>6, <2>3 DEF Updates, Unknown, Entry
  <2>5. c \in Recalculating(k)
    BY <1>6, <2>1 DEF Recalculating
  <2>6. QED
    BY <1>1, <1>2, <2>1, <2>2, <2>4, <2>5 DEF Updates, Recalculating
<1>7. CASE SetSpent(c) /\ Campaign(c) = k
  <2>1. pc[c] = "SetSpent" /\ pc'[c] = "budget?"
    BY <1>1, <1>7 DEF SetSpent, Holds, Goto
  <2>2. Recalculating(k)' = Recalculating(k) \ {c} /\ c \in Recalculating(k)
    BY <1>1, <1>2, <1>7, <2>1 DEF Recalculating, Campaign
  <2>3. PICK old : /\ old = IF mine[c].entry.known THEN Entry(c) ELSE Unknown
                   /\ states' = [states EXCEPT ![Campaign(c)] =
                        [known |-> TRUE, budget |-> old.budget, spent |-> NewSpent(c, old.spent)]]
    BY <1>7 DEF SetSpent
  <2>4. old = states[k]
    BY <1>3, <1>7, <2>3 DEF Updates, Entry
  <2>5. states'[k] = [known |-> TRUE, budget |-> states[k].budget,
                      spent |-> NewSpent(c, states[k].spent)]
    BY <1>1, <1>7, <2>3, <2>4 DEF TrackerTypes
  <2>6. target'[k] = [known |-> TRUE, budget |-> req[c].budget,
                      spent |-> NewSpent(c, states[k].spent)]
    BY <1>1, <1>7 DEF SetSpent, TrackerTypes, Updates
  <2>7. k \notin mixed => Recalculating(k)' = {} /\ states'[k] = target'[k]
    BY <2>1, <2>2, <2>5, <2>6 DEF Updates
  <2>8. QED
    BY <1>2, <2>5, <2>6, <2>7 DEF Updates
<1>8. CASE AddSpend(c) /\ Campaign(c) = k
  <2>1. pc[c] = "AddSpend" /\ pc'[c] = "done"
    BY <1>1, <1>8 DEF AddSpend, Holds, Goto
  <2>2. Recalculating(k)' = Recalculating(k) /\ c \notin Recalculating(k)
    BY <1>1, <2>1, RecalculatingQuiet DEF Recalculating
  <2>3. \A d \in Recalculating(k) : pc'[d] = pc[d] /\ req'[d] = req[d]
    BY <1>1, <2>2 DEF Recalculating
  <2>4. CASE ~mine[c].entry.known
    BY <1>2, <1>8, <2>2, <2>3, <2>4, UpdatesQuiet DEF AddSpend
  <2>5. CASE mine[c].entry.known
    <3>1. /\ states' = [states EXCEPT ![Campaign(c)].spent = mine[c].entry.spent + req[c].amount]
          /\ target' = [target EXCEPT ![Campaign(c)].spent = @ + req[c].amount]
      BY <1>8, <2>5 DEF AddSpend
    <3>2. PICK n : n = states[k].spent + req[c].amount
      OBVIOUS
    <3>3. /\ states'[k] = [states[k] EXCEPT !.spent = n]
          /\ target'[k] = [target[k] EXCEPT !.spent = n]
      BY <1>1, <1>3, <1>8, <3>1, <3>2 DEF TrackerTypes, Updates, Entry
    <3>4. /\ states'[k].spent = n /\ target'[k].spent = n
          /\ states'[k].known = states[k].known /\ states'[k].budget = states[k].budget
      BY <1>3, <1>8, <3>3 DEF Entries
    <3>5. states[k].known
      BY <1>3, <1>8, <2>5 DEF Entry
    <3>6. states[k] = target[k] => states'[k] = target'[k]
      BY <3>3
    <3>7. QED
      BY <1>2, <2>2, <2>3, <3>4, <3>5, <3>6 DEF Updates
  <2>6. QED
    BY <2>4, <2>5
<1>9. QED
  BY <1>5, <1>6, <1>7, <1>8

LEMMA UpdateInvStep == CoreInv /\ UpdateInv /\ [Next \/ Stop]_vars => UpdateInv'
<1>1. SUFFICES ASSUME CoreInv, [Next \/ Stop]_vars, NEW k \in Campaigns, Updates(k)
               PROVE  Updates(k)'
  BY DEF UpdateInv
<1>2. CASE UNCHANGED vars \/ Tick
  <2>1. UNCHANGED <<states, target, mixed, pc, req>>
    BY <1>2 DEF vars, Tick, callVars, history
  <2>2. Recalculating(k)' = Recalculating(k)
    BY <2>1 DEF Recalculating, Campaign
  <2>3. QED
    BY <1>1, <2>1, <2>2, UpdatesQuiet
<1>3. ASSUME NEW c \in Calls, Step(c) PROVE Updates(k)'
  <2>1. CASE Begin(c)
    BY <1>1, <2>1, BeginUpdates
  <2>2. CASE SetBudget(c) \/ SetSpent(c) \/ AddSpend(c)
    BY <1>1, <2>2, WriteUpdates
  <2>3. CASE ~(Begin(c) \/ SetBudget(c) \/ SetSpent(c) \/ AddSpend(c))
    <3>1. /\ states' = states /\ target' = target /\ mixed' = mixed /\ req' = req
          /\ pc'[c] = pc[c] \/ {pc[c], pc'[c]} \intersect {"SetBudget", "SetSpent"} = {}
      <4>1. pc \in [Calls -> Labels]
        BY <1>1 DEF CoreInv, TrackerTypes
      <4>2. QED
        BY <1>3, <2>3, <4>1
           DEF Step, LockShard, ReadBudget, ReadSpent, ComputeFactor, ReadState, Learn,
               Normalize, Goto, AfterFactor, history
    <3>2. \A d \in Calls \ {c} : pc'[d] = pc[d] /\ req'[d] = req[d]
      BY <1>1, <1>3, OthersRest
    <3>3. Recalculating(k)' = Recalculating(k)
      BY <1>1, <3>1, <3>2, RecalculatingQuiet DEF Recalculating, Campaign
    <3>4. \A d \in Recalculating(k) : pc'[d] = pc[d] /\ req'[d] = req[d]
      BY <3>1, <3>2 DEF Recalculating
    <3>5. QED
      BY <1>1, <3>1, <3>3, <3>4, UpdatesQuiet
  <2>4. QED
    BY <2>1, <2>2, <2>3
<1>4. QED
  BY <1>1, <1>2, <1>3 DEF Next, Stop

\* No update is lost: UpdatesApplied holds for any calls, campaigns, shards and hash.
THEOREM TrackerUpdatesApplied == Spec => []UpdatesApplied
<1>1. UpdateInv => UpdatesApplied
  BY DEF UpdateInv, Updates, UpdatesApplied
<1>2. QED
  BY <1>1, CoreInvInit, CoreInvStep, UpdateInvInit, UpdateInvStep, PTL DEF Spec


------------------------------------------------------------------------------
(* The answers. *)

\* What a call that is reading may have seen, and what it has so far.
Seen(c) ==
  /\ pc[c] \in {"Learn", "normalize"} => req[c].op = "learn"
  /\ pc[c] \in Reading =>
       /\ Entry(c) \in saw[c].entries
       /\ curveWriter = NoCall => Expected(curve, mine[c].at) \in saw[c].plans
  /\ pc[c] = "spent?" => mine[c].entry = [Entry(c) EXCEPT !.spent = 0]
  /\ pc[c] = "curve?" => mine[c].entry \in saw[c].entries /\ mine[c].entry.budget > 0
  /\ pc[c] = "state?" => Justified(mine[c].factor, saw[c].entries, saw[c].plans)
  /\ pc[c] = "done" /\ req[c].op \in {"get", "recalc"} =>
       /\ Justified(mine[c].factor, saw[c].entries, saw[c].plans)
       /\ req[c].op = "get" => mine[c].state \in saw[c].entries

SeenInv == \A c \in Calls : Seen(c)

LEMMA SeenInvInit == Init => SeenInv
  BY DEF Init, SeenInv, Seen, Reading

\* More to see never takes a justification away.
LEMMA JustifiedByMore ==
  ASSUME NEW f, NEW e1, NEW e2, NEW p1, NEW p2, e1 \subseteq e2, p1 \subseteq p2,
         Justified(f, e1, p1)
  PROVE  Justified(f, e2, p2)
  BY DEF Justified

\* What Watch adds: the entry and the plan of a call that reads, or has just read.
LEMMA WatchFacts ==
  ASSUME Watch, NEW d \in Calls
  PROVE  /\ saw[d].entries \subseteq saw'[d].entries /\ saw[d].plans \subseteq saw'[d].plans
         /\ pc[d] \in Reading \/ pc'[d] \in Reading =>
              /\ Entry(d)' \in saw'[d].entries
              /\ curveWriter' = NoCall => Expected(curve', mine'[d].at) \in saw'[d].plans
<1>1. CASE pc'[d] \notin Reading /\ pc[d] \notin Reading
  BY <1>1 DEF Watch
<1>2. CASE ~(pc'[d] \notin Reading /\ pc[d] \notin Reading)
  <2>1. saw'[d] = [entries |-> saw[d].entries \union Sight(d)'.entries,
                   plans |-> saw[d].plans \union Sight(d)'.plans]
    BY <1>2 DEF Watch
  <2>2. /\ Sight(d)'.entries = {Entry(d)'}
        /\ curveWriter' = NoCall => Sight(d)'.plans = {Expected(curve', mine'[d].at)}
    BY DEF Sight, Expected
  <2>3. QED
    BY <2>1, <2>2
<1>3. QED
  BY <1>1, <1>2


\* What a step has to establish; Watch does the rest.
LEMMA SeenNow ==
  ASSUME NEW c \in Calls, Watch, NEW l, NEW q, NEW m,
         pc'[c] = l, req'[c] = q, mine'[c] = m,
         l \in {"Learn", "normalize"} => q.op = "learn",
         l = "spent?" => m.entry = [Entry(c)' EXCEPT !.spent = 0],
         l = "curve?" => m.entry \in saw'[c].entries /\ m.entry.budget > 0,
         l = "state?" => Justified(m.factor, saw'[c].entries, saw'[c].plans),
         l = "done" /\ q.op \in {"get", "recalc"} =>
           /\ Justified(m.factor, saw'[c].entries, saw'[c].plans)
           /\ q.op = "get" => m.state \in saw'[c].entries
  PROVE  Seen(c)'
<1>1. l \in Reading =>
        /\ Entry(c)' \in saw'[c].entries
        /\ curveWriter' = NoCall => Expected(curve, mine[c].at)' \in saw'[c].plans
  BY WatchFacts DEF Expected
<1>2. Justified(m.factor, saw'[c].entries, saw'[c].plans)
        <=> Justified(mine[c].factor, saw[c].entries, saw[c].plans)'
  BY DEF Justified
<1>3. QED
  BY <1>1, <1>2 DEF Seen

\* What d has seen stays seen, whatever happens around it.
LEMMA SeenRest ==
  ASSUME NEW d \in Calls, Watch, Seen(d),
         pc'[d] = pc[d], req'[d] = req[d], mine'[d] = mine[d],
         pc[d] = "spent?" => Entry(d)' = Entry(d)
  PROVE  Seen(d)'
<1>1. saw[d].entries \subseteq saw'[d].entries /\ saw[d].plans \subseteq saw'[d].plans
  BY WatchFacts
<1>2. Justified(mine[d].factor, saw[d].entries, saw[d].plans)
        => Justified(mine[d].factor, saw'[d].entries, saw'[d].plans)
  BY <1>1, JustifiedByMore
<1>3. QED
  BY <1>1, <1>2, SeenNow DEF Seen

\* A reader's shard is not written: the entry it reads from stays as it is.
LEMMA ReaderUndisturbed ==
  ASSUME CoreInv, NEW c \in Calls, Step(c), NEW d \in Calls \ {c}, pc[d] = "spent?"
  PROVE  Entry(d)' = Entry(d)
<1>1. /\ Campaign(d) \in Campaigns /\ Lock(d) \in Shards
      /\ ShardLocks(Lock(d)) /\ states \in [Campaigns -> Entries]
      /\ req'[d] = req[d]
  BY CampaignOf, OthersRest DEF CoreInv, TrackerTypes, Reading
<1>2. d \in readers[Lock(d)] /\ writer[Lock(d)] = NoCall
  BY <1>1 DEF ShardLocks
<1>3. CASE SetBudget(c) \/ SetSpent(c) \/ AddSpend(c)
  <2>1. writer[Lock(c)] = c /\ NoCall # c
    BY <1>3, TrackerAssumption DEF SetBudget, SetSpent, AddSpend, Holds
  <2>2. Campaign(d) # Campaign(c)
    BY <1>2, <2>1 DEF Lock
  <2>3. QED
    BY <1>1, <1>3, <2>2, WriteTypes DEF Entry, Campaign
<1>4. CASE ~(SetBudget(c) \/ SetSpent(c) \/ AddSpend(c))
  <2>1. states' = states
    BY <1>4 DEF Step, Begin, LockShard, ReadBudget, ReadSpent, ComputeFactor, ReadState,
                Learn, Normalize
  <2>2. QED
    BY <1>1, <2>1 DEF Entry, Campaign
<1>5. QED
  BY <1>3, <1>4

\* A step of c leaves the local variables of the others alone.
LEMMA OthersKeepLocals ==
  ASSUME CoreInv, NEW c \in Calls, Step(c), NEW d \in Calls \ {c}
  PROVE  mine'[d] = mine[d]
<1>1. mine = [e \in Calls |-> mine[e]]
  BY DEF CoreInv, TrackerTypes
<1>2. \/ \E m : mine' = [mine EXCEPT ![c] = m]
      \/ mine' = mine
  BY DEF Step, Begin, LockShard, SetBudget, SetSpent, AddSpend, ReadBudget, ReadSpent,
         ComputeFactor, ReadState, Learn, Normalize
<1>3. QED
  BY <1>1, <1>2

\* A call that has nothing to show for itself yet, or nothing more to read.
LEMMA EarlySeen ==
  ASSUME CoreInv, NEW c \in Calls, Watch, Seen(c),
         \/ Begin(c) \/ LockShard(c) \/ SetBudget(c) \/ SetSpent(c) \/ AddSpend(c)
         \/ Learn(c) \/ Normalize(c)
  PROVE  Seen(c)'
<1>1. /\ Local(c) /\ pc \in [Calls -> Labels] /\ req \in [Calls -> Requests \union {NoRequest}]
  BY DEF CoreInv, TrackerTypes
<1>2. CASE Begin(c)
  <2>1. PICK r \in Requests : req' = [req EXCEPT ![c] = r] /\ pc' = [pc EXCEPT ![c] = FirstStep(r)]
    BY <1>2 DEF Begin, Goto
  <2>2. pc'[c] = FirstStep(r) /\ req'[c] = r
    BY <1>1, <2>1
  <2>3. /\ FirstStep(r) \in {"refused", "SetBudget", "done", "AddSpend", "budget?", "Learn"}
        /\ FirstStep(r) = "done" => r.op \in {"add", "learn"}
        /\ FirstStep(r) = "Learn" => r.op = "learn"
    BY FirstSteps, RequestKinds
  <2>4. QED
    BY <2>2, <2>3, SeenNow
<1>3. CASE LockShard(c)
  BY <1>1, <1>3, SeenNow DEF LockShard
<1>4. CASE SetBudget(c) \/ SetSpent(c)
  <2>1. pc'[c] \in {"SetSpent", "budget?"}
    BY <1>1, <1>4 DEF SetBudget, SetSpent, Goto
  <2>2. QED
    BY <2>1, SeenNow
<1>5. CASE AddSpend(c)
  <2>1. pc'[c] = "done" /\ req'[c].op = "add"
    BY <1>1, <1>5 DEF AddSpend, Holds, Goto, Local
  <2>2. QED
    BY <2>1, SeenNow
<1>6. CASE Learn(c) \/ Normalize(c)
  <2>1. pc'[c] \in {"normalize", "done"} /\ req'[c].op = "learn"
    BY <1>1, <1>6 DEF Learn, Normalize, Goto, Seen
  <2>2. QED
    BY <2>1, SeenNow
<1>7. QED
  BY <1>2, <1>3, <1>4, <1>5, <1>6

\* FactorAt and State: what they read is among what was to be seen.
LEMMA ReadingSeen ==
  ASSUME CoreInv, UpdateInv, NEW c \in Calls, Watch, Seen(c),
         ReadBudget(c) \/ ReadSpent(c) \/ ComputeFactor(c) \/ ReadState(c)
  PROVE  Seen(c)'
<1>1. /\ TrackerTypes /\ Local(c) /\ Locals(mine[c]) /\ pc \in [Calls -> Labels]
      /\ mine = [d \in Calls |-> mine[d]]
  BY CallFacts DEF TrackerTypes
<1>2. pc[c] \in Reading /\ req' = req /\ Entry(c)' = Entry(c)
  BY DEF ReadBudget, ReadSpent, ComputeFactor, ReadState, Reading, Entry, Campaign
<1>3. /\ Entry(c) \in Entries /\ Campaign(c) \in Campaigns /\ req[c].op \in {"get", "recalc"}
  BY <1>1, <1>2, CampaignOf DEF Local
<1>4. /\ saw[c].entries \subseteq saw'[c].entries /\ saw[c].plans \subseteq saw'[c].plans
      /\ Entry(c) \in saw[c].entries
      /\ curveWriter = NoCall => Expected(curve, mine[c].at) \in saw[c].plans
  BY <1>2, WatchFacts DEF Seen
<1>5. CASE ReadBudget(c)
  <2>1. /\ pc'[c] = "spent?" /\ mine'[c] = [mine[c] EXCEPT !.entry = [Entry(c) EXCEPT !.spent = 0]]
    BY <1>1, <1>5 DEF ReadBudget, Goto
  <2>2. mine'[c].entry = [Entry(c)' EXCEPT !.spent = 0]
    BY <1>1, <1>2, <2>1 DEF Locals
  <2>3. QED
    BY <2>1, <2>2, SeenNow
<1>6. CASE ReadSpent(c)
  <2>1. PICK e : e = [mine[c].entry EXCEPT !.spent = Entry(c).spent]
    OBVIOUS
  <2>2. e = Entry(c) /\ mine[c].entry.known = Entry(c).known
        /\ mine[c].entry.budget = Entry(c).budget
    BY <1>3, <1>6, <2>1 DEF ReadSpent, Seen, Entries
  <2>3. mine'[c].entry = e /\ mine'[c].factor = One
    BY <1>1, <1>6, <2>1 DEF ReadSpent, Locals
  <2>4. CASE Entry(c).known /\ Entry(c).budget > 0
    <3>1. pc'[c] = "curve?"
      BY <1>1, <1>6, <2>2, <2>4 DEF ReadSpent, Goto
    <3>2. QED
      BY <1>4, <2>2, <2>3, <2>4, <3>1, SeenNow
  <2>5. CASE ~(Entry(c).known /\ Entry(c).budget > 0)
    <3>1. ~(Entry(c).budget > 0)
      BY <1>3, <2>5 DEF UpdateInv, Updates, Unknown, Entry
    <3>2. Justified(One, saw'[c].entries, saw'[c].plans)
      BY <1>4, <3>1 DEF Justified
    <3>3. pc'[c] = IF req[c].op = "get" THEN "state?" ELSE "done"
      BY <1>1, <1>6, <2>2, <2>5 DEF ReadSpent, Goto, AfterFactor
    <3>4. QED
      BY <1>2, <2>3, <3>2, <3>3, SeenNow
  <2>6. QED
    BY <2>4, <2>5
<1>7. CASE ComputeFactor(c)
  <2>1. pc[c] = "curve?" /\ curveWriter = NoCall
    BY <1>7 DEF ComputeFactor
  <2>2. PICK f : f = Factor(mine[c].entry.budget, mine[c].entry.spent, Expected(curve, mine[c].at))
    OBVIOUS
  <2>3. mine'[c].factor = f
    BY <1>1, <1>7, <2>2 DEF ComputeFactor, Locals
  <2>4. Justified(f, saw'[c].entries, saw'[c].plans)
    BY <1>4, <2>1, <2>2 DEF Justified, Seen
  <2>5. pc'[c] = IF req[c].op = "get" THEN "state?" ELSE "done"
    BY <1>1, <1>7 DEF ComputeFactor, Goto, AfterFactor
  <2>6. QED
    BY <1>2, <2>3, <2>4, <2>5, SeenNow
<1>8. CASE ReadState(c)
  <2>1. pc[c] = "state?" /\ pc'[c] = "done"
    BY <1>1, <1>8 DEF ReadState, Goto
  <2>2. mine'[c].state = Entry(c) /\ mine'[c].factor = mine[c].factor
    BY <1>1, <1>8 DEF ReadState, Locals
  <2>3. Justified(mine[c].factor, saw'[c].entries, saw'[c].plans)
    BY <1>4, <2>1, JustifiedByMore DEF Seen
  <2>4. QED
    BY <1>4, <2>1, <2>2, <2>3, SeenNow
<1>9. QED
  BY <1>5, <1>6, <1>7, <1>8

LEMMA SeenInvStep == CoreInv /\ UpdateInv /\ SeenInv /\ [Next \/ Stop]_vars => SeenInv'
<1>1. SUFFICES ASSUME CoreInv, UpdateInv, SeenInv, [Next \/ Stop]_vars, NEW d \in Calls
               PROVE  Seen(d)'
  BY DEF SeenInv
<1>2. Seen(d)
  BY <1>1 DEF SeenInv
<1>3. CASE UNCHANGED vars
  BY <1>2, <1>3 DEF vars, Seen, Entry, Campaign, Expected, Justified
<1>4. CASE Tick /\ Watch
  BY <1>2, <1>4, SeenRest DEF Tick, callVars, Entry, Campaign
<1>5. ASSUME NEW c \in Calls, Step(c), Watch PROVE Seen(d)'
  <2>1. CASE d = c
    BY <1>1, <1>2, <1>5, <2>1, EarlySeen, ReadingSeen DEF Step
  <2>2. CASE d # c
    BY <1>1, <1>2, <1>5, <2>2, SeenRest, OthersRest, OthersKeepLocals, ReaderUndisturbed
  <2>3. QED
    BY <2>1, <2>2
<1>6. QED
  BY <1>1, <1>3, <1>4, <1>5 DEF Next, Stop

\* No answer comes from halves: AnswersJustified holds for any calls, campaigns and curves.
THEOREM TrackerAnswersJustified == Spec => []AnswersJustified
<1>1. SeenInv => AnswersJustified
  BY DEF SeenInv, Seen, AnswersJustified
<1>2. QED
  BY <1>1, CoreInvInit, CoreInvStep, UpdateInvInit, UpdateInvStep, SeenInvInit, SeenInvStep,
     PTL DEF Spec

------------------------------------------------------------------------------
(* The plan. *)

\* A row of the curve at any time: not all its shares are zero.
Kept(r) == r \in Rows /\ \E h \in Hours : r.share[h] > 0

\* A row that is normalised.
Whole(r) == Kept(r) /\ SumFunctionOnSet(r.share, Hours) = r.den

LEMMA RowFacts ==
  ASSUME NEW r \in Rows
  PROVE  /\ r.share \in [Hours -> Nat] /\ r.den \in Nat \ {0}
         /\ r = [share |-> r.share, den |-> r.den]
         /\ IsFiniteSet(Hours)
<1>1. IsFiniteSet(Hours)
  BY CalendarAssumption, FS_Interval DEF Hours
<1>2. QED
  BY <1>1 DEF Rows

\* normalize makes a row whole.
LEMMA NormalizedWhole ==
  ASSUME NEW r, Kept(r)
  PROVE  /\ Whole(Normalized(r))
         /\ Normalized(r).share = r.share
         /\ Normalized(r).den = SumFunctionOnSet(r.share, Hours)
<1> DEFINE sum == SumFunctionOnSet(r.share, Hours)
<1>1. r \in Rows /\ r.share \in [Hours -> Nat] /\ IsFiniteSet(Hours)
      /\ r = [share |-> r.share, den |-> r.den]
  BY RowFacts DEF Kept
<1>2. sum \in Nat /\ sum > 0
  <2>1. PICK h \in Hours : r.share[h] > 0
    BY DEF Kept
  <2>2. sum \in Nat /\ r.share[h] <= sum /\ r.share[h] \in Nat
    BY <1>1, SumNat
  <2> HIDE DEF sum
  <2>3. QED
    BY <2>1, <2>2
<1>3. SumFunction(r.share) = sum
  BY <1>1 DEF SumFunction
<1> HIDE DEF sum
<1>4. Normalized(r) = [share |-> r.share, den |-> sum]
  BY <1>1, <1>2, <1>3 DEF Normalized
<1>5. Normalized(r) \in Rows
  BY <1>1, <1>2, <1>4 DEF Rows
<1>6. QED
  BY <1>4, <1>5 DEF Whole, Kept, sum

\* Learn leaves every share that was positive positive.
LEMMA LearnedKept ==
  ASSUME NEW r, Kept(r), NEW hour \in Hours, NEW o \in Fractions, o.num >= 0
  PROVE  Kept(Learned(r, hour, o))
<1>1. /\ r.share \in [Hours -> Nat] /\ r.den \in Nat /\ r.den > 0
      /\ o.num \in Nat /\ o.den \in Nat /\ o.den > 0
  BY RowFacts DEF Kept, Fractions
<1> DEFINE e == o.den
           n == o.num
           s(h) == r.share[h]
<1>2. ASSUME NEW h \in Hours
      PROVE  /\ 10 * e * s(h) \in Nat /\ 9 * e * s(h) + n * r.den \in Nat
             /\ s(h) > 0 => 10 * e * s(h) > 0 /\ 9 * e * s(h) + n * r.den > 0
  <2>1. s(h) \in Nat /\ e \in Nat /\ e > 0 /\ n \in Nat /\ r.den \in Nat
    BY <1>1
  <2> HIDE DEF e, n, s
  <2>2. e * s(h) \in Nat /\ n * r.den \in Nat /\ (s(h) > 0 => e * s(h) > 0)
    BY <2>1
  <2>3. 10 * e * s(h) = 10 * (e * s(h)) /\ 9 * e * s(h) = 9 * (e * s(h))
    BY <2>1
  <2>4. QED
    BY <2>2, <2>3
<1> DEFINE new == [h \in Hours |-> IF h = hour THEN 9 * e * s(h) + n * r.den ELSE 10 * e * s(h)]
<1>3. new \in [Hours -> Nat] /\ \A h \in Hours : s(h) > 0 => new[h] > 0
  BY <1>2
<1>4. Learned(r, hour, o) = [share |-> new, den |-> 10 * e * r.den]
  BY DEF Learned
<1>5. 10 * e * r.den \in Nat \ {0}
  <2>1. e * r.den \in Nat /\ e * r.den > 0 /\ 10 * e * r.den = 10 * (e * r.den)
    BY <1>1
  <2>2. QED
    BY <2>1
<1>6. PICK h \in Hours : s(h) > 0
  BY DEF Kept
<1> HIDE DEF new, e, s
<1>7. QED
  BY <1>3, <1>4, <1>5, <1>6 DEF Kept, Rows

(***************************************************************************)
(* The curve's rows are whole, except the one that the holder of its lock  *)
(* is working on.                                                          *)
(***************************************************************************)
RowSettled(d) ==
  /\ Kept(curve[d])
  /\ Whole(curve[d]) \/ \E c \in Calls : curveWriter = c /\ req[c].weekday = d

Learner(c) ==
  pc[c] \in {"Learn", "normalize"} => req[c].op = "learn" /\ req[c].observed.num >= 0

PlanInv ==
  /\ clock \in Nat
  /\ curve \in [Weekdays -> Rows]
  /\ \A d \in Weekdays : RowSettled(d)
  /\ \A c \in Calls : Learner(c)

LEMMA PlanInvInit == Init => PlanInv
<1>1. SUFFICES ASSUME Init PROVE PlanInv
  OBVIOUS
<1>2. ASSUME NEW d \in Weekdays PROVE Whole(curve[d])
  <2>1. Kept(Base[d])
    BY TrackerAssumption DEF Kept, Curves
  <2>2. curve[d] = Normalized(Base[d])
    BY <1>1 DEF Init, DefaultCurve
  <2>3. QED
    BY <2>1, <2>2, NormalizedWhole
<1>3. curve = [d \in Weekdays |-> curve[d]]
  BY <1>1 DEF Init, DefaultCurve
<1>4. curve \in [Weekdays -> Rows]
  BY <1>2, <1>3 DEF Whole, Kept
<1>5. \A c \in Calls : Learner(c)
  BY <1>1 DEF Init, Learner
<1>6. clock \in Nat
  BY <1>1 DEF Init
<1>7. QED
  BY <1>2, <1>4, <1>5, <1>6 DEF PlanInv, RowSettled, Whole

\* What a call that learns asks for.
LEMMA LearnRequest ==
  ASSUME NEW r \in Requests, r.op = "learn"
  PROVE  r.weekday \in Weekdays /\ r.hour \in Hours /\ r.observed \in Fractions
<1>1. r \in [op : {"learn"}, weekday : Weekdays, hour : Hours, observed : Observations]
  <2>1. r \notin {[op |-> "recalc", campaign |-> k, budget |-> q.budget, spent |-> q.spent] :
                    k \in Campaigns, q \in Recalcs}
    OBVIOUS
  <2>2. r \notin [op : {"add"}, campaign : Campaigns, amount : Amounts]
        /\ r \notin [op : {"get"}, campaign : Campaigns]
    OBVIOUS
  <2>3. QED
    BY <2>1, <2>2 DEF Requests
<1>2. QED
  BY <1>1, TrackerAssumption

\* Learn and Normalize: the row they work on.
LEMMA LearnPlan ==
  ASSUME CoreInv, PlanInv, NEW c \in Calls, Learn(c) \/ Normalize(c)
  PROVE  PlanInv'
<1>1. /\ pc[c] \in {"Learn", "normalize"} /\ req' = req /\ clock' = clock
      /\ pc \in [Calls -> Labels] /\ req[c] \in Requests
  BY DEF Learn, Normalize, CoreInv, TrackerTypes, Local
<1> DEFINE w == req[c].weekday
           o == req[c].observed
           old == curve[w]
<1>2. /\ w \in Weekdays /\ req[c].hour \in Hours /\ o \in Fractions /\ o.num >= 0
  BY <1>1, LearnRequest DEF PlanInv, Learner
<1>3. Kept(old) /\ curve \in [Weekdays -> Rows]
  BY <1>2 DEF PlanInv, RowSettled
<1>4. \A d \in Calls : Learner(d)'
  <2>1. \A d \in Calls : pc'[d] \in {"Learn", "normalize"} => pc[d] \in {"Learn", "normalize"}
    BY <1>1 DEF Learn, Normalize, Goto
  <2>2. QED
    BY <1>1, <2>1 DEF PlanInv, Learner
<1>5. CASE Learn(c)
  <2>1. Kept(Learned(old, req[c].hour, o))
    BY <1>2, <1>3, LearnedKept
  <2>2. curve' = [curve EXCEPT ![w] = Learned(old, req[c].hour, o)]
        /\ curveWriter = NoCall /\ curveWriter' = c
    BY <1>5 DEF Learn
  <2> HIDE DEF w, o, old
  <2>3. /\ curve'[w] = Learned(old, req[c].hour, o)
        /\ \A d \in Weekdays \ {w} : curve'[d] = curve[d]
        /\ curve' \in [Weekdays -> Rows]
    BY <1>2, <1>3, <2>1, <2>2 DEF Kept
  <2>4. ASSUME NEW d \in Weekdays PROVE RowSettled(d)'
    <3>1. CASE d = w
      BY <1>1, <2>1, <2>2, <2>3, <3>1 DEF RowSettled, w
    <3>2. CASE d # w
      <4>1. Whole(curve[d])
        BY <2>2, TrackerAssumption DEF PlanInv, RowSettled
      <4>2. QED
        BY <2>3, <3>2, <4>1 DEF RowSettled, Whole
    <3>3. QED
      BY <3>1, <3>2
  <2>5. QED
    BY <1>1, <1>4, <2>3, <2>4 DEF PlanInv
<1>6. CASE Normalize(c)
  <2>1. Whole(Normalized(old))
    BY <1>3, NormalizedWhole
  <2>2. curve' = [curve EXCEPT ![w] = Normalized(old)]
    BY <1>6 DEF Normalize
  <2>3. curveWriter = c
    BY <1>6 DEF Normalize, CoreInv, CurveLock
  <2> HIDE DEF w, o, old
  <2>4. /\ curve'[w] = Normalized(old)
        /\ \A d \in Weekdays \ {w} : curve'[d] = curve[d]
        /\ curve' \in [Weekdays -> Rows]
    BY <1>2, <1>3, <2>1, <2>2 DEF Whole, Kept
  <2>5. ASSUME NEW d \in Weekdays PROVE RowSettled(d)'
    <3>1. CASE d = w
      BY <2>1, <2>4, <3>1 DEF RowSettled, Whole
    <3>2. CASE d # w
      <4>1. Whole(curve[d])
        BY <2>3, <3>2 DEF PlanInv, RowSettled, w
      <4>2. QED
        BY <2>4, <3>2, <4>1 DEF RowSettled, Whole
    <3>3. QED
      BY <3>1, <3>2
  <2>6. QED
    BY <1>1, <1>4, <2>4, <2>5 DEF PlanInv
<1>7. QED
  BY <1>5, <1>6

LEMMA PlanInvStep == CoreInv /\ PlanInv /\ [Next \/ Stop]_vars => PlanInv'
<1>1. SUFFICES ASSUME CoreInv, PlanInv, [Next \/ Stop]_vars PROVE PlanInv'
  OBVIOUS
<1>2. CASE UNCHANGED vars \/ Tick
  <2>1. clock' \in {clock, clock + 1} /\ UNCHANGED <<curve, curveWriter, req, pc>>
    BY <1>2 DEF vars, Tick, curveVars, callVars
  <2>2. clock' \in Nat
    BY <1>1, <2>1 DEF PlanInv
  <2>3. QED
    BY <1>1, <2>1, <2>2 DEF PlanInv, RowSettled, Learner
<1>3. ASSUME NEW c \in Calls, Step(c) PROVE PlanInv'
  <2>1. CASE Learn(c) \/ Normalize(c)
    BY <1>1, <2>1, LearnPlan
  <2>2. CASE ~(Learn(c) \/ Normalize(c))
    <3>1. UNCHANGED <<curve, curveWriter, clock>>
      BY <1>3, <2>2 DEF Step, Begin, LockShard, SetBudget, SetSpent, AddSpend, ReadBudget,
                        ReadSpent, ComputeFactor, ReadState, curveVars
    <3>2. \A d \in Calls \ {c} : pc'[d] = pc[d] /\ req'[d] = req[d]
      BY <1>1, <1>3, OthersRest
    <3>3. pc \in [Calls -> Labels] /\ req \in [Calls -> Requests \union {NoRequest}]
          /\ CurveLock(c)
      BY <1>1 DEF CoreInv, TrackerTypes
    <3>4. Learner(c)' /\ (curveWriter = c => req'[c] = req[c])
      <4>1. CASE Begin(c)
        <5>1. PICK r \in Requests : req' = [req EXCEPT ![c] = r]
                                      /\ pc' = [pc EXCEPT ![c] = FirstStep(r)]
          BY <4>1 DEF Begin, Goto
        <5>2. req'[c] = r /\ pc'[c] = FirstStep(r) /\ FirstStep(r) # "normalize"
          BY <3>3, <5>1, FirstSteps, RequestKinds
        <5>3. CASE r.op = "learn"
          <6>1. r.observed.num \in Int
            BY <5>3, LearnRequest DEF Fractions
          <6>2. FirstStep(r) = IF r.observed.num < 0 THEN "done" ELSE "Learn"
            BY <5>3 DEF FirstStep
          <6>3. QED
            BY <3>3, <4>1, <5>2, <5>3, <6>1, <6>2 DEF Learner, CurveLock, Begin
        <5>4. CASE r.op # "learn"
          <6>1. FirstStep(r) # "Learn"
            BY <5>4, FirstSteps, RequestKinds
          <6>2. QED
            BY <3>3, <4>1, <5>2, <6>1 DEF Learner, CurveLock, Begin
        <5>5. QED
          BY <5>3, <5>4
      <4>2. CASE ~Begin(c)
        <5>1. req' = req
          BY <1>3, <2>2, <4>2
             DEF Step, LockShard, SetBudget, SetSpent, AddSpend, ReadBudget, ReadSpent,
                 ComputeFactor, ReadState
        <5>2. pc' = pc \/ \E l \in Labels \ {"Learn", "normalize"} : Goto(c, l)
          BY <1>3, <2>2, <4>2
             DEF Step, LockShard, SetBudget, SetSpent, AddSpend, ReadBudget, ReadSpent,
                 ComputeFactor, ReadState, AfterFactor, Labels
        <5>3. pc'[c] = pc[c] \/ pc'[c] \notin {"Learn", "normalize"}
          BY <3>3, <5>2 DEF Goto
        <5>4. QED
          BY <1>1, <5>1, <5>3 DEF PlanInv, Learner
      <4>3. QED
        BY <4>1, <4>2
    <3>5. \A d \in Calls : Learner(d)'
      BY <1>1, <3>2, <3>4 DEF PlanInv, Learner
    <3>6. ASSUME NEW d \in Weekdays PROVE RowSettled(d)'
      <4>1. RowSettled(d)
        BY <1>1 DEF PlanInv
      <4>2. \A e \in Calls : curveWriter = e => req'[e] = req[e]
        BY <3>2, <3>4
      <4>3. QED
        BY <3>1, <4>1, <4>2 DEF RowSettled
    <3>7. QED
      BY <1>1, <3>1, <3>5, <3>6 DEF PlanInv
  <2>3. QED
    BY <2>1, <2>2
<1>4. QED
  BY <1>1, <1>2, <1>3 DEF Next, Stop

(***************************************************************************)
(* The traffic plan at every moment (curve.go): every weekday's row has a  *)
(* share above zero, so that normalize never divides by zero, and its      *)
(* shares add up to the whole day unless the call that holds the curve's   *)
(* lock is still learning that weekday.                                    *)
(***************************************************************************)
THEOREM TrackerPlanInvariant == Spec => []PlanInv
BY CoreInvInit, CoreInvStep, PlanInvInit, PlanInvStep, PTL DEF Spec

------------------------------------------------------------------------------
(* What the plan promises. *)

\* A plan that ends with the whole budget, in the last hour.
LEMMA LastHourFactor ==
  ASSUME NEW budget \in Int, budget > 0, NEW spent \in Int, NEW n \in Nat, n > 0
  PROVE  Less(Factor(budget, spent, [num |-> n, den |-> n]), One) <=> spent > budget
<1> DEFINE f == [num |-> budget * n, den |-> spent * n]
<1>1. CASE spent <= 0
  <2>1. Factor(budget, spent, [num |-> n, den |-> n]) = maxFactor
    BY <1>1 DEF Factor
  <2>2. QED
    BY <1>1, <2>1 DEF maxFactor, Less, One
<1>2. CASE spent > 0
  <2>1. Factor(budget, spent, [num |-> n, den |-> n]) = Clamp(f)
    BY <1>2 DEF Factor
  <2>2. /\ budget * n \in Int /\ spent * n \in Int
        /\ budget * n > 0 /\ spent * n > 0
        /\ (budget * n < spent * n) <=> spent > budget
    <3>1. (spent - budget) * n = spent * n - budget * n
      BY SMT
    <3>2. spent - budget > 0 => (spent - budget) * n > 0
      BY SMT
    <3>3. spent - budget <= 0 => (spent - budget) * n <= 0
      BY SMT
    <3>4. budget * n \in Int /\ spent * n \in Int /\ budget * n > 0 /\ spent * n > 0
      BY <1>2
    <3>5. QED
      BY <3>1, <3>2, <3>3, <3>4
  <2>3. PICK x, y : x = budget * n /\ y = spent * n
    OBVIOUS
  <2>4. Less(Clamp(f), One) <=> x < y
    <3>1. x \in Int /\ y \in Int /\ x > 0 /\ y > 0
      BY <2>2, <2>3
    <3>2. f = [num |-> x, den |-> y]
      BY <2>3
    <3> HIDE DEF f
    <3>3. QED
      BY <3>1, <3>2 DEF Clamp, Less, One, minFactor, maxFactor, Zero
  <2>5. QED
    BY <2>1, <2>2, <2>3, <2>4
<1>3. QED
  BY <1>1, <1>2

(***************************************************************************)
(* Whatever was learnt, a day's plan ends with the whole budget:           *)
(* PlanSpendsTheBudget (curve.go, calculator.go) holds for any calendar,   *)
(* calls and built-in shares that are not all zero.                        *)
(***************************************************************************)
THEOREM TrackerPlanSpendsTheBudget == Spec => []PlanSpendsTheBudget
<1>1. CoreInv /\ PlanInv => PlanSpendsTheBudget
  <2>1. SUFFICES ASSUME CoreInv, PlanInv, curveWriter = NoCall,
                        NEW k \in Campaigns, NEW d \in Weekdays, states[k].budget > 0
                 PROVE  Less(Factor(states[k].budget, states[k].spent,
                                    CumulativeFraction(curve, d, LastHour)), One)
                          <=> states[k].spent > states[k].budget
    BY DEF PlanSpendsTheBudget
  <2>2. Whole(curve[d])
    BY <2>1, TrackerAssumption DEF PlanInv, RowSettled
  <2>3. CumulativeFraction(curve, d, LastHour) = [num |-> curve[d].den, den |-> curve[d].den]
    <3>1. LastHour \in Hours
      BY CalendarAssumption DEF Hours
    <3>2. SumFunctionOnSet(curve[d].share, 0 .. LastHour) = curve[d].den
      BY <2>2 DEF Whole, Hours
    <3>3. QED
      BY <2>1, <3>1, <3>2 DEF CumulativeFraction
  <2>4. curve[d].den \in Nat /\ curve[d].den > 0
    BY <2>2, RowFacts DEF Whole, Kept
  <2>5. states[k].budget \in Int /\ states[k].spent \in Int
    BY <2>1 DEF CoreInv, TrackerTypes, Entries
  <2>6. QED
    BY <2>1, <2>3, <2>4, <2>5, LastHourFactor
<1>2. QED
  BY <1>1, CoreInvInit, CoreInvStep, TrackerPlanInvariant, PTL DEF Spec

(***************************************************************************)
(* The arithmetic of one Learn: with x what the observed fraction n/e      *)
(* exceeds the share s/D by, times e * D, the new share exceeds the old by *)
(* a positive multiple of x and falls short of n/e by another.             *)
(***************************************************************************)
LEMMA Between ==
  ASSUME NEW s \in Nat, NEW D \in Nat, NEW n \in Nat, NEW e \in Nat, e > 0, 0 < s, s < D,
         NEW N \in Int, NEW M \in Int,
         N = 9 * (e * s) + n * D, M = 10 * (e * D) - e * s + n * D
  PROVE  /\ M > 0
         /\ s * e < n * D => s * M < N * D /\ N * e < n * M
         /\ n * D < s * e => n * M < N * e /\ N * D < s * M
         /\ s * e = n * D => s * M = N * D
<1>1. PICK x \in Int : x = n * D - e * s
  BY SMT
<1>2. N * D - s * M = x * (D - s)
  BY <1>1, SMT
<1>3. n * M - N * e = (9 * e + n) * x
  BY <1>1, SMT
<1>4. N * D \in Int /\ s * M \in Int /\ n * M \in Int /\ N * e \in Int
      /\ n * D \in Int /\ e * s \in Int /\ e * s = s * e
  BY SMT
<1>5. D - s > 0 /\ 9 * e + n > 0
  BY SMT
<1>6. M > 0
  <2>1. e * (D - s) > 0 /\ e * (D - s) = e * D - e * s /\ e * D > 0 /\ n * D >= 0
    BY <1>5
  <2>2. QED
    BY <1>4, <2>1
<1>7. /\ x > 0 => x * (D - s) > 0 /\ (9 * e + n) * x > 0
      /\ x < 0 => x * (D - s) < 0 /\ (9 * e + n) * x < 0
      /\ x = 0 => x * (D - s) = 0
  BY <1>5
<1>8. QED
  BY <1>1, <1>2, <1>3, <1>4, <1>6, <1>7

\* The sum of a whole row after Learn, before it is normalised.
LEMMA LearnedSum ==
  ASSUME NEW r, Whole(r), NEW hour \in Hours, NEW o \in Fractions, o.num >= 0
  PROVE  /\ Learned(r, hour, o).share[hour] = 9 * (o.den * r.share[hour]) + o.num * r.den
         /\ SumFunctionOnSet(Learned(r, hour, o).share, Hours)
              = 10 * (o.den * r.den) - o.den * r.share[hour] + o.num * r.den
<1> DEFINE e == o.den
           n == o.num
           D == r.den
           s == r.share
           new == Learned(r, hour, o).share
           all == [h \in Hours |-> (10 * e) * s[h]]
<1>1. /\ s \in [Hours -> Nat] /\ D \in Nat /\ e \in Nat /\ n \in Nat
      /\ SumFunctionOnSet(s, Hours) = D /\ IsFiniteSet(Hours)
  BY RowFacts DEF Whole, Kept, Fractions
<1>2. new = [h \in Hours |-> IF h = hour THEN 9 * e * s[h] + n * D ELSE 10 * e * s[h]]
  BY DEF Learned
<1> HIDE DEF new, e, n, D, s
<1>3. /\ new[hour] = 9 * e * s[hour] + n * D /\ all[hour] = (10 * e) * s[hour]
      /\ \A h \in Hours \ {hour} : new[h] = all[h]
  BY <1>2
<1>4. s[hour] \in Nat /\ e * s[hour] \in Nat /\ n * D \in Nat /\ 10 * e \in Int
      /\ 9 * e * s[hour] = 9 * (e * s[hour]) /\ (10 * e) * s[hour] = 10 * (e * s[hour])
  BY <1>1
<1>5. \A h \in Hours : all[h] = (10 * e) * s[h] /\ s[h] \in Int /\ all[h] \in Int
  BY <1>1, <1>4
<1>6. \A h \in Hours : new[h] \in Int
  BY <1>3, <1>4, <1>5
<1> HIDE DEF all
<1>7. SumFunctionOnSet(all, Hours) = (10 * e) * D
  <2> DEFINE k == 10 * e
  <2>1. k \in Int /\ IsFiniteSet(Hours)
        /\ \A h \in Hours : s[h] \in Int /\ all[h] = k * s[h]
    BY <1>1, <1>4, <1>5
  <2> HIDE DEF k
  <2>2. SumFunctionOnSet(all, Hours) = k * SumFunctionOnSet(s, Hours)
    BY <2>1, SumScaled
  <2>3. QED
    BY <1>1, <2>2 DEF k
<1>8. SumFunctionOnSet(new, Hours) = SumFunctionOnSet(all, Hours) + (new[hour] - all[hour])
  BY <1>1, <1>3, <1>5, <1>6, SumChange
<1>9. (10 * e) * D = 10 * (e * D) /\ e * D \in Nat
  BY <1>1
<1>10. new[hour] = 9 * (e * s[hour]) + n * D
  BY <1>3, <1>4
<1>11. SumFunctionOnSet(new, Hours) = 10 * (e * D) - e * s[hour] + n * D
  BY <1>3, <1>4, <1>7, <1>8, <1>9
<1>12. QED
  BY <1>10, <1>11 DEF new, e, n, D, s

(***************************************************************************)
(* Learn (curve.go) moves a share towards the observed fraction and never  *)
(* past it: LearningConverges holds for any calendar, calls, observations  *)
(* and built-in shares that are not all zero.                              *)
(***************************************************************************)
THEOREM TrackerLearningConverges == Spec => []LearningConverges
<1>1. CoreInv /\ PlanInv => LearningConverges
  <2>1. SUFFICES
          ASSUME CoreInv, PlanInv, curveWriter = NoCall,
                 NEW d \in Weekdays, NEW h \in Hours, NEW o \in Observations \union {Zero, One},
                 Less(Zero, Share(curve[d], h)), Less(Share(curve[d], h), One), ~Less(o, Zero)
          PROVE  LET old == Share(curve[d], h)
                     new == Share(Normalized(Learned(curve[d], h, o)), h)
                 IN  /\ Less(old, o) => Less(old, new) /\ Less(new, o)
                     /\ Less(o, old) => Less(o, new) /\ Less(new, old)
                     /\ Same(old, o) => Same(old, new)
    BY DEF LearningConverges
  <2> DEFINE r == curve[d]
             s == r.share[h]
             D == r.den
             n == o.num
             e == o.den
             row == Learned(r, h, o)
             N == row.share[h]
             M == SumFunctionOnSet(row.share, Hours)
  <2>2. Whole(r)
    BY <2>1, TrackerAssumption DEF PlanInv, RowSettled
  <2>3. o \in Fractions /\ n \in Int /\ e \in Nat /\ e > 0
    BY TrackerAssumption DEF Fractions, Zero, One
  <2>4. s \in Nat /\ D \in Nat
    BY <2>2, RowFacts DEF Whole, Kept
  <2>5. n >= 0 /\ 0 < s /\ s < D
    <3>1. ~(n * 1 < 0 * e) /\ 0 * D < s * 1 /\ s * 1 < 1 * D
      BY <2>1 DEF Less, Share, Zero, One
    <3> HIDE DEF n, e, s, D
    <3>2. QED
      BY <2>3, <2>4, <3>1
  <2>6. N = 9 * (e * s) + n * D /\ M = 10 * (e * D) - e * s + n * D
    BY <2>2, <2>3, <2>5, LearnedSum
  <2>7. Share(Normalized(row), h) = [num |-> N, den |-> M]
    <3>1. Kept(row)
      BY <2>2, <2>3, <2>5, LearnedKept DEF Whole
    <3>2. QED
      BY <3>1, NormalizedWhole DEF Share
  <2>8. Share(r, h) = [num |-> s, den |-> D] /\ o.num = n /\ o.den = e
    BY DEF Share
  <2> HIDE DEF r, s, D, n, e, row, N, M
  <2>9. N \in Int /\ M \in Int /\ n \in Nat
    <3>1. e * s \in Int /\ n * D \in Int /\ e * D \in Int
      BY <2>3, <2>4
    <3>2. QED
      BY <2>3, <2>5, <2>6, <3>1
  <2>10. /\ s * e < n * D => s * M < N * D /\ N * e < n * M
         /\ n * D < s * e => n * M < N * e /\ N * D < s * M
         /\ s * e = n * D => s * M = N * D
    BY <2>3, <2>4, <2>5, <2>6, <2>9, Between
  <2>11. LET old == Share(r, h)
             new == Share(Normalized(row), h)
         IN  /\ Less(old, o) => Less(old, new) /\ Less(new, o)
             /\ Less(o, old) => Less(o, new) /\ Less(new, old)
             /\ Same(old, o) => Same(old, new)
    BY <2>7, <2>8, <2>10 DEF Less, Same
  <2>12. QED
    BY <2>11 DEF r, row
<1>2. QED
  BY <1>1, CoreInvInit, CoreInvStep, TrackerPlanInvariant, PTL DEF Spec

------------------------------------------------------------------------------
(* The factor in the course of a day. *)

\* The more of the day's traffic the plan expects by now, the higher the factor.
LEMMA FactorMonotone ==
  ASSUME NEW budget \in Int, NEW spent \in Int, NEW D \in Nat, D > 0,
         NEW p \in Nat, NEW q \in Nat, p <= q
  PROVE  Leq(Factor(budget, spent, [num |-> p, den |-> D]),
             Factor(budget, spent, [num |-> q, den |-> D]))
<1> DEFINE early == Factor(budget, spent, [num |-> p, den |-> D])
           late == Factor(budget, spent, [num |-> q, den |-> D])
<1>1. CASE budget <= 0
  <2>1. early = One /\ late = One
    BY <1>1 DEF Factor
  <2>2. QED
    BY <2>1 DEF Leq, One
<1>2. CASE budget > 0 /\ spent <= 0
  <2>1. early \in {One, maxFactor} /\ late \in {One, maxFactor}
        /\ (late = One => early = One)
    BY <1>2 DEF Factor
  <2>2. QED
    BY <2>1 DEF Leq, One, maxFactor
<1>3. CASE budget > 0 /\ spent > 0
  <2>1. /\ budget * p \in Nat /\ budget * q \in Nat /\ budget * p <= budget * q
        /\ spent * D \in Nat /\ spent * D > 0
        /\ q > 0 => budget * q > 0
    <3>1. budget * (q - p) >= 0 /\ budget * (q - p) = budget * q - budget * p
      BY <1>3
    <3>2. budget * p \in Nat /\ budget * q \in Nat /\ spent * D \in Nat /\ spent * D > 0
          /\ (q > 0 => budget * q > 0)
      BY <1>3
    <3>3. QED
      BY <3>1, <3>2
  <2>2. PICK x \in Nat, y \in Nat, w \in Nat :
          x = budget * p /\ y = budget * q /\ w = spent * D
    BY <2>1
  <2>3. /\ p <= 0 => early = minFactor
        /\ p > 0 => early = Clamp([num |-> x, den |-> w])
        /\ q <= 0 => late = minFactor
        /\ q > 0 => late = Clamp([num |-> y, den |-> w])
    BY <1>3, <2>2 DEF Factor
  <2>4. x <= y /\ w > 0
    BY <2>1, <2>2
  <2> HIDE DEF early, late
  <2>5. Leq(early, late)
    <3>1. CASE q <= 0
      <4>1. early = minFactor /\ late = minFactor
        BY <2>3, <3>1
      <4>2. QED
        BY <4>1 DEF Leq, minFactor, Zero
    <3>2. CASE q > 0 /\ p <= 0
      BY <2>3, <2>4, <3>2 DEF Leq, Clamp, Less, minFactor, maxFactor, Zero
    <3>3. CASE q > 0 /\ p > 0
      <4>1. /\ early = IF 2 * w < x THEN maxFactor ELSE [num |-> x, den |-> w]
            /\ late = IF 2 * w < y THEN maxFactor ELSE [num |-> y, den |-> w]
        BY <2>3, <3>3 DEF Clamp, Less, minFactor, maxFactor, Zero
      <4>2. x * w <= y * w
        <5>1. (y - x) * w >= 0 /\ (y - x) * w = y * w - x * w
              /\ y * w \in Int /\ x * w \in Int
          BY <2>4
        <5>2. QED
          BY <5>1
      <4>3. QED
        BY <2>4, <4>1, <4>2 DEF Leq, maxFactor
    <3>4. QED
      BY <3>1, <3>2, <3>3
  <2>6. QED
    BY <2>5 DEF early, late
<1>4. QED
  BY <1>1, <1>2, <1>3

\* An hour of the clock: the same day and the next hour, unless a day begins.
LEMMA NextHour ==
  ASSUME NEW t \in Nat, (t + 1) % (LastHour + 1) # 0
  PROVE  /\ (t + 1) \div (LastHour + 1) = t \div (LastHour + 1)
         /\ (t + 1) % (LastHour + 1) = (t % (LastHour + 1)) + 1
         /\ t % (LastHour + 1) \in Hours /\ (t + 1) % (LastHour + 1) \in Hours
<1> DEFINE m == LastHour + 1
           q == t \div m
           p == (t + 1) \div m
           a == t % m
           b == (t + 1) % m
<1>1. m \in Nat /\ m > 0
  BY CalendarAssumption
<1> HIDE DEF m
<1>2. /\ q \in Int /\ a \in Int /\ t = (m * q) + a /\ 0 <= a /\ a < m
      /\ p \in Int /\ b \in Int /\ t + 1 = (m * p) + b /\ 0 <= b /\ b < m
  BY <1>1
<1>3. b > 0
  BY <1>2 DEF m
<1> HIDE DEF p, q, a, b
<1>4. p = q
  <2>1. m * p \in Int /\ m * q \in Int
    BY <1>1, <1>2
  <2>2. m * p <= t /\ t < m * (p + 1) /\ m * q <= t /\ t < m * (q + 1)
    <3>1. m * (p + 1) = m * p + m /\ m * (q + 1) = m * q + m
      BY <1>1, <1>2
    <3>2. QED
      BY <1>1, <1>2, <1>3, <2>1, <3>1
  <2>3. QED
    BY <1>1, <1>2, <2>2, BracketUnique
<1>5. b = a + 1
  <2>1. m * q \in Int
    BY <1>1, <1>2
  <2>2. QED
    BY <1>2, <1>4, <2>1
<1>6. a \in Hours /\ b \in Hours
  BY <1>2, CalendarAssumption DEF Hours, m
<1>7. QED
  BY <1>4, <1>5, <1>6 DEF m, p, q, a, b

(***************************************************************************)
(* The passing of an hour within a day never lowers the factor of a        *)
(* campaign (curve.go, calculator.go), even while Learn is at work:        *)
(* FactorRisesInTheDay holds for any calendar, calls and built-in shares.  *)
(***************************************************************************)
THEOREM TrackerFactorRisesInTheDay == Spec => FactorRisesInTheDay
<1> DEFINE Rises ==
      \A k \in Campaigns :
        clock' = clock + 1 /\ clock' % (LastHour + 1) # 0 =>
          Leq(Factor(states[k].budget, states[k].spent, Expected(curve, clock)),
              Factor(states[k].budget, states[k].spent, Expected(curve, clock')))
<1>1. CoreInv /\ PlanInv => Rises
  <2>1. SUFFICES ASSUME CoreInv, PlanInv, NEW k \in Campaigns,
                        clock' = clock + 1, clock' % (LastHour + 1) # 0
                 PROVE  Leq(Factor(states[k].budget, states[k].spent, Expected(curve, clock)),
                            Factor(states[k].budget, states[k].spent, Expected(curve, clock')))
    OBVIOUS
  <2> DEFINE d == (clock \div (LastHour + 1)) % (LastDay + 1)
             h == clock % (LastHour + 1)
             share == curve[d].share
             D == curve[d].den
             p == SumFunctionOnSet(share, 0 .. h)
             q == SumFunctionOnSet(share, 0 .. h + 1)
  <2>2. clock \in Nat
    BY <2>1 DEF PlanInv
  <2>3. /\ clock' \div (LastHour + 1) = clock \div (LastHour + 1)
        /\ clock' % (LastHour + 1) = h + 1
        /\ h \in Hours /\ h + 1 \in Hours
    BY <2>1, <2>2, NextHour
  <2>4. d \in Weekdays
    <3>1. LastHour + 1 \in Nat /\ LastHour + 1 > 0 /\ LastDay + 1 \in Nat /\ LastDay + 1 > 0
      BY CalendarAssumption
    <3>2. clock \div (LastHour + 1) \in Int
      BY <2>2, <3>1
    <3>3. d \in 0 .. LastDay
      BY <3>1, <3>2, CalendarAssumption
    <3>4. QED
      BY <3>3 DEF Weekdays
  <2>5. /\ Expected(curve, clock) = [num |-> p, den |-> D]
        /\ Expected(curve, clock') = [num |-> q, den |-> D]
    BY <2>3, <2>4 DEF Expected, CumulativeFraction
  <2> HIDE DEF h
  <2>6. share \in [Hours -> Nat] /\ D \in Nat /\ D > 0
    BY <2>1, <2>4, RowFacts DEF PlanInv
  <2> HIDE DEF d, share, D
  <2>7. p \in Nat /\ q \in Nat /\ p <= q
    <3>1. h \in Int /\ 0 <= h /\ h + 1 <= LastHour
      BY <2>3, CalendarAssumption DEF Hours
    <3> DEFINE S == 0 .. h
               x == h + 1
               f == share
    <3>2. IsFiniteSet(S) /\ x \notin S
      BY <3>1, FS_Interval
    <3>3. 0 .. h + 1 = S \cup {x}
      BY <3>1
    <3>4. \A j \in S \cup {x} : f[j] \in Nat
      BY <2>6, <3>1, CalendarAssumption DEF Hours
    <3>5. q = SumFunctionOnSet(f, S \cup {x}) /\ p = SumFunctionOnSet(f, S)
      BY <3>3
    <3> HIDE DEF S, x, f, p, q
    <3>6. SumFunctionOnSet(f, S \cup {x}) = SumFunctionOnSet(f, S) + f[x]
      BY <3>2, <3>4, SumAdd
    <3>7. SumFunctionOnSet(f, S) \in Nat /\ f[x] \in Nat
      BY <3>2, <3>4, SumNat
    <3>8. QED
      BY <3>5, <3>6, <3>7
  <2>8. states[k].budget \in Int /\ states[k].spent \in Int
    BY <2>1 DEF CoreInv, TrackerTypes, Entries
  <2> HIDE DEF p, q
  <2>9. QED
    BY <2>5, <2>6, <2>7, <2>8, FactorMonotone
<1>2. CoreInv /\ PlanInv => [Rises]_vars
  BY <1>1
<1>3. QED
  BY <1>2, CoreInvInit, CoreInvStep, TrackerPlanInvariant, PTL DEF Spec, FactorRisesInTheDay
==============================================================================
