------------------------ MODULE AdvertiserAccountProofs ------------------------
(***************************************************************************)
(* The SQL transactions of AdvertiserAccount lose no update and implement  *)
(* AdvertiserLedger, for any number of calls and advertisers.              *)
(***************************************************************************)
EXTENDS AdvertiserAccount, AdvertiserLedgerProofs

\* What the position of a call says about its request.
Control(c) ==
  /\ pc[c] \in Running => Amt(c) > 0
  /\ pc[c] = "upsert" => req[c].op = "recharge"
  /\ pc[c] \in {"select", "check"} => req[c].op = "spend"

\* Only a call that reached COMMIT can have a journal row.
Unposted(c) == pc[c] \notin {"ok", "commit_err"} => ~Posted(c)

\* A call that reported success left its row in the right journal.
Recorded(c) ==
  pc[c] = "ok" =>
    \E i \in DOMAIN ledger[Adv(c)] :
      ledger[Adv(c)][i].call = c /\ ledger[Adv(c)][i].type = req[c].op

\* The inductive invariant of Spec.
AccountInv ==
  /\ TypeOK
  /\ \A c \in Calls : Control(c) /\ Unposted(c) /\ Recorded(c)
  /\ NoLostUpdate

------------------------------------------------------------------------------
\* The row versions and journal rows the statements build are well typed.
LEMMA RowTypes ==
  ASSUME NEW r \in Row, NEW amt \in Int, NEW c \in Calls
  PROVE  /\ Recharged(r, amt) \in Row
         /\ Debited(r, amt) \in Row
         /\ RechargeEntry(c, r, amt) \in Entry
         /\ SpendEntry(c, r, amt) \in Entry
<1>1. r.balance \in Int /\ r.recharged \in Int /\ r.spent \in Int /\ r.exists \in BOOLEAN
  BY DEF Row
<1>2. Grid \in Int
  BY GridAssumption
<1>3. /\ Grains(r.balance) + amt \in Int /\ Grains(r.recharged) + amt \in Int
      /\ Grains(r.balance) - amt \in Int /\ Grains(r.spent) + amt \in Int
      /\ -amt \in Int
  BY <1>1, <1>2 DEF Grains
<1>4. /\ Stored(Grains(r.balance) + amt) \in Int /\ Stored(Grains(r.recharged) + amt) \in Int
      /\ Stored(Grains(r.balance) - amt) \in Int /\ Stored(Grains(r.spent) + amt) \in Int
      /\ Stored(amt) \in Int /\ Stored(-amt) \in Int
  BY <1>3, StoredInt
<1>5. QED
  BY <1>1, <1>4 DEF Recharged, Debited, RechargeEntry, SpendEntry, Row, Entry, TxTypes

\* A call whose row, and the lock on it, no other call touched is as it was.
LEMMA Undisturbed ==
  ASSUME NEW c \in Calls, pc[c] \in Locked => CurrentRow(c),
         pc'[c] = pc[c], row'[c] = row[c], req' = req,
         lock[Adv(c)] = c => lock'[Adv(c)] = c /\ acct'[Adv(c)] = acct[Adv(c)]
  PROVE  (pc[c] \in Locked => CurrentRow(c))'
  BY DEF CurrentRow, Expected, Written, Adv, Amt

\* Journals that are not touched keep the facts about them.
LEMMA SameLedger ==
  ASSUME UNCHANGED <<ledger, req>>, NEW c \in Calls, Unposted(c), Recorded(c),
         pc'[c] = "ok" => pc[c] = "ok",
         pc[c] \in {"ok", "commit_err"} => pc'[c] = pc[c]
  PROVE  Unposted(c)' /\ Recorded(c)'
  BY DEF Unposted, Recorded, Posted, Adv

LEMMA AccountInvInit == Init => AccountInv
<1>1. SUFFICES ASSUME Init PROVE AccountInv
  OBVIOUS
<1>2. NoRow \in Row /\ <<>> \in Seq(Entry)
  BY DEF NoRow, Row
<1>3. TypeOK
  BY <1>1, <1>2 DEF Init, LedgerInit, TypeOK, LedgerTypeOK
<1>4. ASSUME NEW c \in Calls PROVE ~Posted(c)
  BY <1>1 DEF Init, LedgerInit, Posted
<1>5. QED
  BY <1>1, <1>3, <1>4
     DEF Init, AccountInv, Control, Unposted, Recorded, NoLostUpdate, Running, Locked

------------------------------------------------------------------------------
Labels == Running \union Outcomes \union {"idle"}

Undecided == Labels \ {"ok", "commit_err"}

(***************************************************************************)
(* A step of call d that publishes nothing preserves the invariant when it *)
(* leaves the locks of others alone and d itself where it may be.          *)
(***************************************************************************)
LEMMA PrivateStep ==
  ASSUME AccountInv, NEW d \in Calls, NEW l \in Labels \ {"ok"}, NEW v \in Row,
         UNCHANGED <<acct, ledger, req>>,
         pc[d] \in Undecided,
         pc' = [pc EXCEPT ![d] = l],
         row' = [row EXCEPT ![d] = v],
         lock' \in [Advertisers -> Calls \union {NoCall}],
         \A a \in Advertisers : lock[a] \in Calls \ {d} => lock'[a] = lock[a],
         Control(d)',
         (pc[d] \in Locked => CurrentRow(d))'
  PROVE  AccountInv'
<1>1. TypeOK'
  BY DEF AccountInv, TypeOK, LedgerTypeOK, Labels
<1>2. ASSUME NEW c \in Calls
      PROVE  /\ Control(c)' /\ Unposted(c)' /\ Recorded(c)'
             /\ (pc[c] \in Locked => CurrentRow(c))'
  <2>1. /\ Control(c) /\ Unposted(c) /\ Recorded(c)
        /\ pc[c] \in Locked => CurrentRow(c)
        /\ Adv(c) \in Advertisers
    BY DEF AccountInv, NoLostUpdate, TypeOK, Requests, Adv
  <2>2. pc \in [Calls -> Labels] /\ row \in [Calls -> Row]
    BY DEF AccountInv, TypeOK, Labels
  <2>3. Unposted(c)' /\ Recorded(c)'
    BY <2>1, <2>2, SameLedger DEF Undecided
  <2>4. CASE c = d
    BY <2>3, <2>4
  <2>5. CASE c # d
    <3>1. pc'[c] = pc[c] /\ row'[c] = row[c]
      BY <2>2, <2>5
    <3>2. Control(c)'
      BY <2>1, <3>1 DEF Control, Amt
    <3>3. (pc[c] \in Locked => CurrentRow(c))'
      BY <2>1, <2>5, <3>1, Undisturbed
    <3>4. QED
      BY <2>3, <3>2, <3>3
  <2>6. QED
    BY <2>4, <2>5
<1>3. QED
  BY <1>1, <1>2 DEF AccountInv, NoLostUpdate

\* Types that every step below needs.
LEMMA CallTypes ==
  ASSUME AccountInv, NEW c \in Calls
  PROVE  /\ Adv(c) \in Advertisers /\ Amt(c) \in Int /\ req[c].op \in TxTypes
         /\ acct[Adv(c)] \in Row /\ row[c] \in Row
         /\ pc \in [Calls -> Labels] /\ row \in [Calls -> Row]
         /\ lock \in [Advertisers -> Calls \union {NoCall}]
         /\ acct \in [Advertisers -> Row] /\ ledger \in [Advertisers -> Seq(Entry)]
         /\ Control(c) /\ Unposted(c) /\ Recorded(c)
         /\ pc[c] \in Locked => CurrentRow(c)
  BY AmountsAssumption
     DEF AccountInv, NoLostUpdate, TypeOK, LedgerTypeOK, Requests, Adv, Amt, Labels

\* Taking a row lock takes no lock away.
LEMMA AcquireKeepsOthers ==
  ASSUME AccountInv, NEW c \in Calls, Acquire(c)
  PROVE  /\ lock' \in [Advertisers -> Calls \union {NoCall}]
         /\ \A a \in Advertisers : lock[a] \in Calls \ {c} => lock'[a] = lock[a]
  BY CallTypes, NoCallAssumption DEF Acquire

\* Every statement short of COMMIT, and every way to fail, is a private step.
LEMMA StatementStep ==
  ASSUME AccountInv, NEW c \in Calls,
         \/ Begin(c) \/ Reject(c)
         \/ RechargeUpsert(c)
         \/ SpendSelect(c) \/ SpendNotFound(c) \/ SpendInsufficient(c) \/ SpendUpdate(c)
         \/ InsertEntry(c) \/ Fail(c)
  PROVE  AccountInv'
<1> USE DEF Running, Outcomes, Labels, Undecided, Locked, Goto
<1>0. /\ Adv(c) \in Advertisers /\ Amt(c) \in Int /\ req[c].op \in TxTypes
      /\ acct[Adv(c)] \in Row /\ row[c] \in Row
      /\ pc \in [Calls -> Labels] /\ row \in [Calls -> Row]
      /\ lock \in [Advertisers -> Calls \union {NoCall}]
      /\ Control(c)
      /\ pc[c] \in Locked => CurrentRow(c)
  BY CallTypes
<1>1. row = [row EXCEPT ![c] = row[c]]
  BY <1>0
<1>2. CASE Begin(c)
  <2>1. PICK l \in {"upsert", "select"} :
          /\ pc' = [pc EXCEPT ![c] = l]
          /\ l = "upsert" => req[c].op = "recharge"
          /\ l = "select" => req[c].op = "spend"
    BY <1>0, <1>2 DEF Begin, TxTypes
  <2>2. Control(c)' /\ (pc[c] \in Locked => CurrentRow(c))'
    BY <1>0, <1>2, <2>1 DEF Begin, Control, Amt
  <2>3. QED
    BY <1>0, <1>1, <1>2, <2>1, <2>2, PrivateStep DEF Begin
<1>3. CASE Reject(c)
  <2>1. Control(c)' /\ (pc[c] \in Locked => CurrentRow(c))'
    BY <1>0, <1>3 DEF Reject, Control
  <2>2. QED
    BY <1>0, <1>1, <1>3, <2>1, PrivateStep DEF Reject
<1>4. CASE RechargeUpsert(c)
  <2>1. Recharged(acct[Adv(c)], Amt(c)) \in Row
    BY <1>0, RowTypes
  <2>2. Control(c)'
    BY <1>0, <1>4 DEF RechargeUpsert, Control, Amt
  <2>3. CurrentRow(c)'
    BY <1>0, <1>4 DEF RechargeUpsert, Acquire, Control, CurrentRow, Expected, Written, Adv, Amt
  <2>4. QED
    BY <1>0, <1>4, <2>1, <2>2, <2>3, AcquireKeepsOthers, PrivateStep DEF RechargeUpsert
<1>5. CASE SpendSelect(c)
  <2>1. Control(c)'
    BY <1>0, <1>5 DEF SpendSelect, Control, Amt
  <2>2. CurrentRow(c)'
    BY <1>0, <1>5 DEF SpendSelect, Acquire, Control, CurrentRow, Expected, Adv, Amt
  <2>3. QED
    BY <1>0, <1>5, <2>1, <2>2, AcquireKeepsOthers, PrivateStep DEF SpendSelect
<1>6. CASE SpendNotFound(c)
  <2>1. Control(c)' /\ (pc[c] \in Locked => CurrentRow(c))'
    BY <1>0, <1>6 DEF SpendNotFound, Control
  <2>2. QED
    BY <1>0, <1>1, <1>6, <2>1, PrivateStep DEF SpendNotFound
<1>7. CASE SpendInsufficient(c)
  <2>1. Control(c)' /\ (pc[c] \in Locked => CurrentRow(c))'
    BY <1>0, <1>7 DEF SpendInsufficient, Control
  <2>2. QED
    BY <1>0, <1>1, <1>7, <2>1, PrivateStep DEF SpendInsufficient, Release
<1>8. CASE SpendUpdate(c)
  <2>1. Debited(acct[Adv(c)], Amt(c)) \in Row
    BY <1>0, RowTypes
  <2>2. Control(c)'
    BY <1>0, <1>8 DEF SpendUpdate, Control, Amt
  <2>3. CurrentRow(c)'
    BY <1>0, <1>8
       DEF SpendUpdate, Acquire, Control, CurrentRow, Expected, Written, Adv, Amt
  <2>4. QED
    BY <1>0, <1>8, <2>1, <2>2, <2>3, AcquireKeepsOthers, PrivateStep DEF SpendUpdate
<1>9. CASE InsertEntry(c)
  <2>1. Control(c)' /\ CurrentRow(c)'
    BY <1>0, <1>9 DEF InsertEntry, Control, CurrentRow, Expected, Written, Adv, Amt
  <2>2. QED
    BY <1>0, <1>1, <1>9, <2>1, PrivateStep DEF InsertEntry
<1>10. CASE Fail(c)
  <2>1. PICK l \in {"failed", "commit_err"} : pc' = [pc EXCEPT ![c] = l]
    BY <1>10 DEF Fail
  <2>2. Control(c)' /\ (pc[c] \in Locked => CurrentRow(c))'
    BY <1>0, <2>1 DEF Control
  <2>3. pc[c] \in Undecided
    BY <1>10 DEF Fail
  <2>4. QED
    BY <1>0, <1>1, <1>10, <2>1, <2>2, <2>3, PrivateStep DEF Fail, Release
<1>11. QED
  BY <1>2, <1>3, <1>4, <1>5, <1>6, <1>7, <1>8, <1>9, <1>10

------------------------------------------------------------------------------
\* A transaction that commits performs, at that instant, one ledger operation.
LEMMA PublishPosts ==
  ASSUME AccountInv, NEW c \in Calls, Publish(c)
  PROVE  ~Posted(c) /\ Post(c, Adv(c), Amt(c))
<1>1. /\ Amt(c) > 0 /\ req[c].op \in TxTypes /\ ~Posted(c) /\ CurrentRow(c)
      /\ pc[c] = "commit"
  BY CallTypes DEF Publish, Control, Unposted, Running, Locked
<1>2. CASE req[c].op = "recharge"
  <2>1. row[c] = Recharged(acct[Adv(c)], Amt(c))
    BY <1>1, <1>2 DEF CurrentRow, Expected, Written
  <2>2. Recharge(c, Adv(c), Amt(c))
    BY <1>1, <1>2, <2>1 DEF Publish, Recharge, EntryOf
  <2>3. QED
    BY <1>1, <2>2 DEF Post
<1>3. CASE req[c].op = "spend"
  <2>1. /\ row[c] = Debited(acct[Adv(c)], Amt(c))
        /\ acct[Adv(c)].exists /\ Affordable(acct[Adv(c)], Amt(c))
    BY <1>1, <1>3 DEF CurrentRow, Expected, Written
  <2>2. Spend(c, Adv(c), Amt(c))
    BY <1>1, <1>3, <2>1 DEF Publish, Spend, EntryOf
  <2>3. QED
    BY <1>1, <2>2 DEF Post
<1>4. QED
  BY <1>1, <1>2, <1>3 DEF TxTypes

\* COMMIT preserves the invariant, acknowledged or not.
LEMMA PublishStep ==
  ASSUME AccountInv, NEW c \in Calls, Publish(c),
         NEW l \in {"ok", "commit_err"}, Goto(c, l)
  PROVE  AccountInv'
<1> DEFINE a == Adv(c)
           e == EntryOf(c)
<1>0. /\ a \in Advertisers /\ Amt(c) \in Int /\ req[c].op \in TxTypes /\ row[c] \in Row
      /\ pc \in [Calls -> Labels] /\ CurrentRow(c) /\ pc[c] = "commit"
      /\ lock \in [Advertisers -> Calls \union {NoCall}]
      /\ ledger \in [Advertisers -> Seq(Entry)] /\ acct \in [Advertisers -> Row]
  BY CallTypes DEF Publish, Locked
<1>1. e \in Entry /\ e.call = c /\ e.type = req[c].op
  BY <1>0, RowTypes DEF EntryOf, RechargeEntry, SpendEntry, TxTypes
<1>2. /\ acct' = [acct EXCEPT ![a] = row[c]]
      /\ ledger' = [ledger EXCEPT ![a] = Append(ledger[a], e)]
      /\ pc' = [pc EXCEPT ![c] = l]
      /\ lock' = [b \in Advertisers |-> IF lock[b] = c THEN NoCall ELSE lock[b]]
      /\ req' = req /\ row' = row
  BY <1>0 DEF Publish, Release, Goto
<1>3. l \in Labels
  BY DEF Labels, Outcomes
<1>4. TypeOK'
  <2> HIDE DEF a, e
  <2>1. Append(ledger[a], e) \in Seq(Entry)
    BY <1>0, <1>1
  <2>2. ledger' \in [Advertisers -> Seq(Entry)] /\ acct' \in [Advertisers -> Row]
    BY <1>0, <1>2, <2>1
  <2>3. QED
    BY <1>0, <1>2, <1>3, <2>2 DEF AccountInv, TypeOK, LedgerTypeOK, Labels
<1>5. \A b \in Advertisers :
        /\ ledger[b] \in Seq(Entry)
        /\ \A i \in DOMAIN ledger[b] : i \in DOMAIN ledger'[b] /\ ledger'[b][i] = ledger[b][i]
        /\ \A i \in DOMAIN ledger'[b] : i \in DOMAIN ledger[b] \/ ledger'[b][i] = e
  <2> HIDE DEF a, e
  <2>1. TAKE b \in Advertisers
  <2>2. CASE b = a
    BY <1>0, <1>1, <1>2, <2>2
  <2>3. CASE b # a
    BY <1>0, <1>2, <2>3
  <2>4. QED
    BY <2>2, <2>3
<1>6. \E i \in DOMAIN ledger'[a] : ledger'[a][i] = e
  <2> HIDE DEF a, e
  <2>1. Len(ledger[a]) + 1 \in DOMAIN ledger'[a] /\ ledger'[a][Len(ledger[a]) + 1] = e
    BY <1>0, <1>1, <1>2
  <2>2. QED
    BY <2>1
<1>7. ASSUME NEW d \in Calls
      PROVE  /\ Control(d)' /\ Unposted(d)' /\ Recorded(d)'
             /\ (pc[d] \in Locked => CurrentRow(d))'
  <2>1. /\ Control(d) /\ Unposted(d) /\ Recorded(d) /\ Adv(d) \in Advertisers
        /\ pc[d] \in Locked => CurrentRow(d)
    BY CallTypes
  <2>2. CASE d = c
    <3>1. pc'[d] = l
      BY <1>0, <1>2, <2>2
    <3>2. Recorded(d)'
      BY <1>1, <1>2, <1>6, <2>2 DEF Recorded, Adv
    <3>3. QED
      BY <3>1, <3>2 DEF Control, Unposted, Running, Locked
  <2>3. CASE d # c
    <3>1. pc'[d] = pc[d] /\ row'[d] = row[d]
      BY <1>0, <1>2, <2>3
    <3>2. Control(d)'
      BY <1>2, <2>1, <3>1 DEF Control, Amt
    <3>3. Posted(d)' => Posted(d)
      BY <1>1, <1>5, <2>3 DEF Posted
    <3>4. Unposted(d)'
      BY <2>1, <3>1, <3>3 DEF Unposted
    <3>5. Recorded(d)'
      BY <1>2, <1>5, <2>1, <3>1 DEF Recorded, Adv
    <3>6. lock[Adv(d)] = d => lock'[Adv(d)] = d /\ acct'[Adv(d)] = acct[Adv(d)]
      BY <1>0, <1>2, <2>1, <2>3 DEF CurrentRow
    <3>7. (pc[d] \in Locked => CurrentRow(d))'
      BY <1>2, <2>1, <3>1, <3>6, Undisturbed
    <3>8. QED
      BY <3>2, <3>4, <3>5, <3>7
  <2>4. QED
    BY <2>2, <2>3
<1>8. QED
  BY <1>4, <1>7 DEF AccountInv, NoLostUpdate

\* Opening an account disturbs no transaction: it waits for the row's lock.
LEMMA OpenStep ==
  ASSUME AccountInv, NEW a \in Advertisers, GetOrCreate(a)
  PROVE  AccountInv'
<1>1. /\ lock[a] = NoCall /\ acct' = [acct EXCEPT ![a] = NewRow]
      /\ ledger' = ledger /\ req' = req /\ pc' = pc /\ row' = row /\ lock' = lock
  BY DEF GetOrCreate, Free, Open, callVars
<1>2. NewRow \in Row
  BY DEF NewRow, NoRow, Row
<1>3. TypeOK'
  BY <1>1, <1>2 DEF AccountInv, TypeOK, LedgerTypeOK
<1>4. ASSUME NEW c \in Calls
      PROVE  /\ Control(c)' /\ Unposted(c)' /\ Recorded(c)'
             /\ (pc[c] \in Locked => CurrentRow(c))'
  <2>1. /\ Control(c) /\ Unposted(c) /\ Recorded(c) /\ Adv(c) \in Advertisers
        /\ pc[c] \in Locked => CurrentRow(c)
        /\ acct \in [Advertisers -> Row]
    BY CallTypes
  <2>2. Control(c)' /\ Unposted(c)' /\ Recorded(c)'
    BY <1>1, <2>1, SameLedger DEF Control, Amt
  <2>3. lock[Adv(c)] = c => lock'[Adv(c)] = c /\ acct'[Adv(c)] = acct[Adv(c)]
    BY <1>1, <2>1, NoCallAssumption
  <2>4. (pc[c] \in Locked => CurrentRow(c))'
    BY <1>1, <2>1, <2>3, Undisturbed
  <2>5. QED
    BY <2>2, <2>4
<1>5. QED
  BY <1>3, <1>4 DEF AccountInv, NoLostUpdate

LEMMA AccountInvStep == AccountInv /\ [Next]_vars => AccountInv'
<1>1. SUFFICES ASSUME AccountInv, [Next]_vars PROVE AccountInv'
  OBVIOUS
<1>2. ASSUME NEW c \in Calls, Begin(c) \/ Reject(c) \/ Step(c) PROVE AccountInv'
  <2>1. CASE Commit(c)
    BY <1>1, <2>1, PublishStep DEF Commit
  <2>2. CASE CommitUnacknowledged(c)
    BY <1>1, <2>2, PublishStep DEF CommitUnacknowledged
  <2>3. QED
    BY <1>1, <1>2, <2>1, <2>2, StatementStep DEF Step, Progress
<1>3. ASSUME NEW a \in Advertisers, GetOrCreate(a) PROVE AccountInv'
  BY <1>1, <1>3, OpenStep
<1>4. CASE UNCHANGED vars
  BY <1>1, <1>4
     DEF AccountInv, TypeOK, LedgerTypeOK, NoLostUpdate, CurrentRow, Expected, Written,
         Control, Unposted, Recorded, Posted, Adv, Amt, vars
<1>5. QED
  BY <1>1, <1>2, <1>3, <1>4 DEF Next, Finished

\* The invariant that makes the transactions atomic holds in every reachable state.
THEOREM AccountInvariant == Spec => []AccountInv
<1>1. QED
  BY AccountInvInit, AccountInvStep, PTL DEF Spec

(***************************************************************************)
(* The transactions of internal/repo/advertiser.go are atomic: whatever    *)
(* statements interleave, the tables change exactly as AdvertiserLedger    *)
(* says, one operation at each COMMIT and one per opened account.          *)
(***************************************************************************)
THEOREM ImplementsLedger == Spec => LedgerSpec
<1>1. Init => LedgerInit
  BY DEF Init
<1>2. AccountInv /\ [Next]_vars => [LedgerNext]_ledgerVars
  <2>1. SUFFICES ASSUME AccountInv, [Next]_vars PROVE [LedgerNext]_ledgerVars
    OBVIOUS
  <2>2. ASSUME NEW c \in Calls, Publish(c) PROVE LedgerNext
    <3>1. Adv(c) \in Advertisers /\ Amt(c) \in Amounts
      BY <2>1 DEF AccountInv, TypeOK, Requests, Adv, Amt
    <3>2. QED
      BY <2>1, <2>2, <3>1, PublishPosts DEF LedgerNext
  <2>3. ASSUME NEW c \in Calls, Begin(c) \/ Reject(c) \/ Step(c)
        PROVE  [LedgerNext]_ledgerVars
    BY <2>2, <2>3
       DEF Begin, Reject, Step, Progress, RechargeUpsert, SpendSelect, SpendNotFound,
           SpendInsufficient, SpendUpdate, InsertEntry, Fail, Commit,
           CommitUnacknowledged, ledgerVars
  <2>4. ASSUME NEW a \in Advertisers, GetOrCreate(a) PROVE [LedgerNext]_ledgerVars
    BY <2>4 DEF GetOrCreate, LedgerNext
  <2>5. CASE UNCHANGED vars
    BY <2>5 DEF vars, ledgerVars
  <2>6. QED
    BY <2>1, <2>3, <2>4, <2>5 DEF Next, Finished
<1>3. QED
  BY <1>1, <1>2, AccountInvariant, PTL DEF Spec, LedgerSpec

\* Every call is where the statements of its operation take it, and the rows have their types.
THEOREM AccountTypes == Spec => []TypeOK
<1>1. AccountInv => TypeOK
  BY DEF AccountInv
<1>2. QED
  BY <1>1, AccountInvariant, PTL

\* No transaction overwrites another's update: the lock it checked under is still its own.
THEOREM AccountNoLostUpdate == Spec => []NoLostUpdate
<1>1. AccountInv => NoLostUpdate
  BY DEF AccountInv
<1>2. QED
  BY <1>1, AccountInvariant, PTL

\* Callers are told the truth about their call, except by the error of COMMIT.
THEOREM AccountOutcomeIsTruth == Spec => []OutcomeIsTruth
<1>1. AccountInv => OutcomeIsTruth
  BY DEF AccountInv, OutcomeIsTruth, Unposted, Recorded, Refusals
<1>2. QED
  BY <1>1, AccountInvariant, PTL

(***************************************************************************)
(* What the ledger promises, the concurrent transactions deliver: no       *)
(* advertiser is ever in debt, no money appears or vanishes beyond         *)
(* rounding, and the journal accounts for every balance.                   *)
(***************************************************************************)
THEOREM AccountKeepsPromises ==
  Spec => [](NeverOverdrawn /\ Conservation /\ JournalChain)
<1>1. QED
  BY ImplementsLedger, LedgerInvariant, LedgerInvImplies, PTL
==============================================================================
