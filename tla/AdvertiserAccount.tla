--------------------------- MODULE AdvertiserAccount ---------------------------
(***************************************************************************)
(* The advertiser tables at the level of SQL statements                    *)
(* (internal/repo/advertiser.go): concurrent calls of Recharge and         *)
(* SpendAtomic, each a transaction of several statements that another      *)
(* call can run between, and GetOrCreate, a single statement.              *)
(*                                                                         *)
(* PostgreSQL is modelled at READ COMMITTED, its default and what          *)
(* BeginTx(ctx, nil) asks for: a statement that writes a row, or selects   *)
(* it FOR UPDATE, waits for the row lock, which the transaction keeps      *)
(* until it ends; what it wrote is private until it commits.  Any          *)
(* statement can fail, by a database error or because the caller's         *)
(* context is cancelled; the deferred Rollback then discards the           *)
(* transaction.  COMMIT can also fail after the server has committed.      *)
(***************************************************************************)
EXTENDS AdvertiserLedger

CONSTANT NoCall      \* the value of a free row lock

ASSUME NoCallAssumption == NoCall \notin Calls

VARIABLES
  req,               \* req[c]: what call c asks for
  pc,                \* pc[c]: the statement call c executes next, or its outcome
  row,               \* row[c]: the row version c read or wrote, private to c
  lock               \* lock[a]: the call whose transaction has locked row a

callVars == <<req, pc, row, lock>>
vars == <<acct, ledger, req, pc, row, lock>>

Requests == [op : TxTypes, adv : Advertisers, amt : Amounts]

\* The results a caller can tell apart.  "commit_err" is the error of COMMIT:
\* the caller cannot know whether the transaction took effect.
Outcomes == {"ok", "invalid", "not_found", "insufficient", "failed", "commit_err"}

Running == {"upsert", "select", "check", "insert", "commit"}

\* From here to its end a transaction holds the lock of its row.
Locked == {"check", "insert", "commit"}

Adv(c) == req[c].adv
Amt(c) == req[c].amt

------------------------------------------------------------------------------
Init ==
  /\ LedgerInit
  /\ req \in [Calls -> Requests]
  /\ pc = [c \in Calls |-> "idle"]
  /\ row = [c \in Calls |-> NoRow]
  /\ lock = [a \in Advertisers |-> NoCall]

Goto(c, l) == pc' = [pc EXCEPT ![c] = l]

Free(a) == lock[a] = NoCall

\* Statements that take the row lock wait until no other transaction holds it.
Acquire(c) ==
  /\ lock[Adv(c)] \in {NoCall, c}
  /\ lock' = [lock EXCEPT ![Adv(c)] = c]

\* Mutant of Release: COMMIT gives the lock back, a failed call leaves it behind.
ReleaseOnCommitOnly(c) ==
  lock' = IF pc[c] = "commit" THEN [lock EXCEPT ![Adv(c)] = NoCall] ELSE lock

\* The end of a transaction, committed or not, gives back the lock it holds.
Release(c) == lock' = [a \in Advertisers |-> IF lock[a] = c THEN NoCall ELSE lock[a]]

\* The amount is checked first, then BEGIN.
Begin(c) ==
  /\ pc[c] = "idle"
  /\ Amt(c) > 0
  /\ Goto(c, IF req[c].op = "recharge" THEN "upsert" ELSE "select")
  /\ UNCHANGED <<acct, ledger, req, row, lock>>

Reject(c) ==
  /\ pc[c] = "idle"
  /\ Amt(c) <= 0
  /\ Goto(c, "invalid")
  /\ UNCHANGED <<acct, ledger, req, row, lock>>

\* Mutant of RechargeUpsert: reads the row and writes it without waiting for its lock.
RechargeUpsertUnlocked(c) ==
  /\ pc[c] = "upsert"
  /\ row' = [row EXCEPT ![c] = Recharged(acct[Adv(c)], Amt(c))]
  /\ Goto(c, "insert")
  /\ UNCHANGED <<acct, ledger, req, lock>>

RechargeUpsert(c) ==
  /\ pc[c] = "upsert"
  /\ Acquire(c)
  /\ row' = [row EXCEPT ![c] = Recharged(acct[Adv(c)], Amt(c))]
  /\ Goto(c, "insert")
  /\ UNCHANGED <<acct, ledger, req>>

\* Mutant of SpendSelect: without FOR UPDATE it locks nothing and waits for nobody.
SpendSelectUnlocked(c) ==
  /\ pc[c] = "select"
  /\ acct[Adv(c)].exists
  /\ row' = [row EXCEPT ![c] = acct[Adv(c)]]
  /\ Goto(c, "check")
  /\ UNCHANGED <<acct, ledger, req, lock>>

\* SELECT balance ... FOR UPDATE.
SpendSelect(c) ==
  /\ pc[c] = "select"
  /\ acct[Adv(c)].exists
  /\ Acquire(c)
  /\ row' = [row EXCEPT ![c] = acct[Adv(c)]]
  /\ Goto(c, "check")
  /\ UNCHANGED <<acct, ledger, req>>

\* No committed row: sql.ErrNoRows.
SpendNotFound(c) ==
  /\ pc[c] = "select"
  /\ ~acct[Adv(c)].exists
  /\ Goto(c, "not_found")
  /\ UNCHANGED <<acct, ledger, req, row, lock>>

SpendInsufficient(c) ==
  /\ pc[c] = "check"
  /\ ~Affordable(row[c], Amt(c))
  /\ Release(c)
  /\ Goto(c, "insufficient")
  /\ UNCHANGED <<acct, ledger, req, row>>

\* The UPDATE computes from the current row, the check was on the row read before.
SpendUpdate(c) ==
  /\ pc[c] = "check"
  /\ Affordable(row[c], Amt(c))
  /\ Acquire(c)
  /\ row' = [row EXCEPT ![c] = Debited(acct[Adv(c)], Amt(c))]
  /\ Goto(c, "insert")
  /\ UNCHANGED <<acct, ledger, req>>

\* INSERT INTO balance_transactions ...: private until COMMIT.
InsertEntry(c) ==
  /\ pc[c] = "insert"
  /\ Goto(c, "commit")
  /\ UNCHANGED <<acct, ledger, req, row, lock>>

EntryOf(c) ==
  IF req[c].op = "recharge" THEN RechargeEntry(c, row[c], Amt(c))
                            ELSE SpendEntry(c, row[c], Amt(c))

Publish(c) ==
  /\ pc[c] = "commit"
  /\ acct' = [acct EXCEPT ![Adv(c)] = row[c]]
  /\ ledger' = [ledger EXCEPT ![Adv(c)] = Append(@, EntryOf(c))]
  /\ Release(c)
  /\ UNCHANGED <<req, row>>

Commit(c) == Publish(c) /\ Goto(c, "ok")

\* Mutant of CommitUnacknowledged: the error of COMMIT is taken for a rollback.
CommitUnacknowledgedAsFailed(c) == Publish(c) /\ Goto(c, "failed")

\* The server commits, the acknowledgement does not arrive.
CommitUnacknowledged(c) == Publish(c) /\ Goto(c, "commit_err")

\* Mutant of Fail: the call ends without a result of its own.
FailForgotten(c) ==
  /\ pc[c] \in Running
  /\ pc[c] = "check" => Affordable(row[c], Amt(c))
  /\ Release(c)
  /\ Goto(c, "rolled_back")
  /\ UNCHANGED <<acct, ledger, req, row>>

\* A statement fails, or the context is cancelled before it is sent.
Fail(c) ==
  /\ pc[c] \in Running
  /\ pc[c] = "check" => Affordable(row[c], Amt(c))
  /\ Release(c)
  /\ Goto(c, IF pc[c] = "commit" THEN "commit_err" ELSE "failed")
  /\ UNCHANGED <<acct, ledger, req, row>>

\* GetOrCreate's INSERT waits for an uncommitted insert of the same key.
GetOrCreate(a) ==
  /\ Free(a)
  /\ Open(a)
  /\ UNCHANGED callVars

Progress(c) ==
  \/ RechargeUpsert(c)
  \/ SpendSelect(c) \/ SpendNotFound(c) \/ SpendInsufficient(c) \/ SpendUpdate(c)
  \/ InsertEntry(c)
  \/ Commit(c) \/ CommitUnacknowledged(c)

Step(c) == Progress(c) \/ Fail(c)

\* Every call has returned; the model has no further calls to make.
Finished ==
  /\ \A c \in Calls : pc[c] \in Outcomes
  /\ UNCHANGED vars

Next ==
  \/ \E c \in Calls : Begin(c) \/ Reject(c) \/ Step(c)
  \/ \E a \in Advertisers : GetOrCreate(a)
  \/ Finished

Spec == Init /\ [][Next]_vars

(***************************************************************************)
(* A goroutine that has begun a transaction keeps executing it, and        *)
(* PostgreSQL hands a released row lock to a waiter.  Nothing obliges a    *)
(* client to make a call (Begin is not fair) or a statement to fail: a     *)
(* call that waits for a lock nobody releases waits forever.               *)
(***************************************************************************)
FairSpec == Spec /\ \A c \in Calls : WF_vars(Progress(c))

------------------------------------------------------------------------------
TypeOK ==
  /\ LedgerTypeOK
  /\ req \in [Calls -> Requests]
  /\ pc \in [Calls -> Running \union Outcomes \union {"idle"}]
  /\ row \in [Calls -> Row]
  /\ lock \in [Advertisers -> Calls \union {NoCall}]

Refusals == {"invalid", "not_found", "insufficient", "failed"}

(***************************************************************************)
(* What the caller is told is what happened: after success the journal has *)
(* a row of this call, on the requested account and of the requested kind; *)
(* after a refusal, or an error before COMMIT, it has none.  Only the      *)
(* error of COMMIT itself leaves the caller in doubt.                      *)
(***************************************************************************)
OutcomeIsTruth ==
  \A c \in Calls :
    /\ pc[c] = "ok" =>
         \E i \in DOMAIN ledger[Adv(c)] :
           ledger[Adv(c)][i].call = c /\ ledger[Adv(c)][i].type = req[c].op
    /\ pc[c] \in Refusals => ~Posted(c)

\* What call c makes of the committed row.
Written(c) ==
  IF req[c].op = "recharge" THEN Recharged(acct[Adv(c)], Amt(c))
                            ELSE Debited(acct[Adv(c)], Amt(c))

\* The row version call c must have in hand, given the committed row.
Expected(c) == IF pc[c] = "check" THEN acct[Adv(c)] ELSE Written(c)

\* Call c holds its row, and the version in its hands is up to date.
CurrentRow(c) ==
  /\ lock[Adv(c)] = c
  /\ row[c] = Expected(c)
  /\ req[c].op = "spend" => acct[Adv(c)].exists
  /\ req[c].op = "spend" /\ pc[c] # "check" => Affordable(acct[Adv(c)], Amt(c))

(***************************************************************************)
(* No lost update: from the moment a transaction has read or written its   *)
(* row until it ends, it holds the row lock and the committed row is still *)
(* the one it started from, so publishing its version overwrites nobody's, *)
(* and a spend that goes through was affordable on that very row.          *)
(***************************************************************************)
NoLostUpdate == \A c \in Calls : pc[c] \in Locked => CurrentRow(c)

(***************************************************************************)
(* Every transaction ends: no call that has begun waits for a row lock     *)
(* forever, because every way out of a transaction gives its lock back.    *)
(***************************************************************************)
CallsReturn == \A c \in Calls : pc[c] \in Running ~> pc[c] \in Outcomes
==============================================================================
