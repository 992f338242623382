---------------------------- MODULE PublisherAccount ----------------------------
(***************************************************************************)
(* The publisher tables at the level of SQL statements                     *)
(* (internal/repo/publisher.go): AddRevenue and CreateWithdrawRequest are  *)
(* transactions of several statements, SettlePending, ApproveWithdraw and  *)
(* GetOrCreate a single one each.                                          *)
(*                                                                         *)
(* PostgreSQL is modelled as in AdvertiserAccount: READ COMMITTED, a row   *)
(* lock kept to the end of the transaction, writes private until COMMIT,   *)
(* failures anywhere, COMMIT possibly unacknowledged.                      *)
(*                                                                         *)
(* Every statement and transaction runs on a connection of the pool that   *)
(* NewDB opens (internal/repo/db.go), and waits while all are taken.       *)
(*                                                                         *)
(* Nothing in the repository calls SettlePending, and it does not check    *)
(* its amount.  It is called here with positive amounts of any size.       *)
(***************************************************************************)
EXTENDS PublisherLedger

CONSTANT MaxOpenConns    \* limit of the connection pool

ASSUME PoolAssumption == MaxOpenConns \in Nat \ {0}

VARIABLES
  req,               \* req[c]: what call c asks for
  pc,                \* pc[c]: the statement call c executes next, or its outcome
  row,               \* row[c]: the row version c read or wrote, private to c
  lock,              \* lock[p]: the call whose transaction has locked row p, or Null
  conns,             \* the calls that have a connection of the pool
  approvals          \* <<w, r>>: reviewer r was told that withdrawal w is approved

callVars == <<req, pc, row, lock, conns>>
vars == <<pub, journal, requests, credited, rough, req, pc, row, lock, conns, approvals>>

Ops == {"revenue", "withdraw", "settle"}

CallRequests ==
  {r \in [op : Ops, pub : Publishers, amt : Amounts] : r.op = "settle" => r.amt > 0}

Refusals == {"invalid", "not_found", "insufficient", "failed"}
Outcomes == {"ok", "commit_err"} \union Refusals
Running == {"begin", "upsert", "select", "check", "insert", "commit", "settle"}

\* From here to its end a transaction holds the lock of its row.
Locked == {"check", "insert", "commit"}

Pub(c) == req[c].pub
Amt(c) == req[c].amt

------------------------------------------------------------------------------
Init ==
  /\ PubLedgerInit
  /\ req \in [Calls -> CallRequests]
  /\ pc = [c \in Calls |-> "idle"]
  /\ row = [c \in Calls |-> NoPubRow]
  /\ lock = [p \in Publishers |-> Null]
  /\ conns = {}
  /\ approvals = {}

Goto(c, l) == pc' = [pc EXCEPT ![c] = l]

Acquire(c) ==
  /\ lock[Pub(c)] \in {Null, c}
  /\ lock' = [lock EXCEPT ![Pub(c)] = c]

\* Mutant of Release: a call that did not get as far as COMMIT keeps its lock.
ReleaseOnCommitOnly(c) ==
  /\ lock' = IF pc[c] = "commit" THEN [lock EXCEPT ![Pub(c)] = Null] ELSE lock
  /\ conns' = conns \ {c}

\* The end of a transaction gives back its row lock and its connection.
Release(c) ==
  /\ lock' = [p \in Publishers |-> IF lock[p] = c THEN Null ELSE lock[p]]
  /\ conns' = conns \ {c}

ConnectionFree == Cardinality(conns) < MaxOpenConns

\* AddRevenue and CreateWithdrawRequest check the amount, SettlePending does not.
Begin(c) ==
  /\ pc[c] = "idle"
  /\ Amt(c) > 0
  /\ Goto(c, "begin")
  /\ UNCHANGED <<pubLedgerVars, req, row, lock, conns, approvals>>

Reject(c) ==
  /\ pc[c] = "idle"
  /\ Amt(c) <= 0
  /\ Goto(c, "invalid")
  /\ UNCHANGED <<pubLedgerVars, req, row, lock, conns, approvals>>

\* BeginTx, or the one statement of SettlePending, gets a connection.
Connect(c) ==
  /\ pc[c] = "begin"
  /\ ConnectionFree
  /\ conns' = conns \union {c}
  /\ Goto(c, CASE req[c].op = "revenue"  -> "upsert"
               [] req[c].op = "withdraw" -> "select"
               [] req[c].op = "settle"   -> "settle")
  /\ UNCHANGED <<pubLedgerVars, req, row, lock, approvals>>

\* Mutant of RevenueUpsert: reads the row and writes it without waiting for its lock.
RevenueUpsertUnlocked(c) ==
  /\ pc[c] = "upsert"
  /\ row' = [row EXCEPT ![c] = AfterRevenue(pub[Pub(c)], Amt(c))]
  /\ Goto(c, "insert")
  /\ UNCHANGED <<pubLedgerVars, req, lock, conns, approvals>>

RevenueUpsert(c) ==
  /\ pc[c] = "upsert"
  /\ Acquire(c)
  /\ row' = [row EXCEPT ![c] = AfterRevenue(pub[Pub(c)], Amt(c))]
  /\ Goto(c, "insert")
  /\ UNCHANGED <<pubLedgerVars, req, conns, approvals>>

\* Mutant of WithdrawSelect: without FOR UPDATE it locks nothing.
WithdrawSelectUnlocked(c) ==
  /\ pc[c] = "select"
  /\ pub[Pub(c)].exists
  /\ row' = [row EXCEPT ![c] = pub[Pub(c)]]
  /\ Goto(c, "check")
  /\ UNCHANGED <<pubLedgerVars, req, lock, conns, approvals>>

\* SELECT revenue_settled ... FOR UPDATE.
WithdrawSelect(c) ==
  /\ pc[c] = "select"
  /\ pub[Pub(c)].exists
  /\ Acquire(c)
  /\ row' = [row EXCEPT ![c] = pub[Pub(c)]]
  /\ Goto(c, "check")
  /\ UNCHANGED <<pubLedgerVars, req, conns, approvals>>

WithdrawNotFound(c) ==
  /\ pc[c] = "select"
  /\ ~pub[Pub(c)].exists
  /\ Release(c)
  /\ Goto(c, "not_found")
  /\ UNCHANGED <<pubLedgerVars, req, row, approvals>>

WithdrawInsufficient(c) ==
  /\ pc[c] = "check"
  /\ ~Withdrawable(row[c], Amt(c))
  /\ Release(c)
  /\ Goto(c, "insufficient")
  /\ UNCHANGED <<pubLedgerVars, req, row, approvals>>

WithdrawUpdate(c) ==
  /\ pc[c] = "check"
  /\ Withdrawable(row[c], Amt(c))
  /\ Acquire(c)
  /\ row' = [row EXCEPT ![c] = AfterWithdraw(pub[Pub(c)], Amt(c))]
  /\ Goto(c, "insert")
  /\ UNCHANGED <<pubLedgerVars, req, conns, approvals>>

\* The journal row, or the withdraw request: private until COMMIT.
Insert(c) ==
  /\ pc[c] = "insert"
  /\ Goto(c, "commit")
  /\ UNCHANGED <<pubLedgerVars, req, row, lock, conns, approvals>>

PublishRevenue(c) ==
  /\ req[c].op = "revenue"
  /\ journal' = [journal EXCEPT ![Pub(c)] = Append(@, RevenueEntry(c, row[c], Amt(c)))]
  /\ credited' = [credited EXCEPT ![Pub(c)] = @ + Stored(Amt(c))]
  /\ UNCHANGED requests

PublishWithdraw(c) ==
  /\ req[c].op = "withdraw"
  /\ requests' = [requests EXCEPT ![c] = PendingRequest(Pub(c), Amt(c))]
  /\ UNCHANGED <<journal, credited>>

\* Mutant of Commit: the error of a lost acknowledgement is taken for a rollback.
CommitUnacknowledgedAsFailed(c) ==
  /\ pc[c] = "commit"
  /\ pub' = [pub EXCEPT ![Pub(c)] = row[c]]
  /\ PublishRevenue(c) \/ PublishWithdraw(c)
  /\ rough' = [rough EXCEPT ![Pub(c)] = @ + Rough(Amt(c))]
  /\ Release(c)
  /\ Goto(c, "ok") \/ Goto(c, "failed")
  /\ UNCHANGED <<req, row, approvals>>

\* COMMIT takes effect; the error of a lost acknowledgement is returned as is.
Commit(c) ==
  /\ pc[c] = "commit"
  /\ pub' = [pub EXCEPT ![Pub(c)] = row[c]]
  /\ PublishRevenue(c) \/ PublishWithdraw(c)
  /\ rough' = [rough EXCEPT ![Pub(c)] = @ + Rough(Amt(c))]
  /\ Release(c)
  /\ Goto(c, "ok") \/ Goto(c, "commit_err")
  /\ UNCHANGED <<req, row, approvals>>

\* Mutant of Fail: the call ends without a result of its own.
FailForgotten(c) ==
  /\ pc[c] \in Running
  /\ pc[c] = "check" => Withdrawable(row[c], Amt(c))
  /\ Release(c)
  /\ Goto(c, "rolled_back")
  /\ UNCHANGED <<pubLedgerVars, req, row, approvals>>

\* A statement fails, or the context is cancelled, perhaps while the call waits.
Fail(c) ==
  /\ pc[c] \in Running
  /\ pc[c] = "check" => Withdrawable(row[c], Amt(c))
  /\ Release(c)
  /\ Goto(c, IF pc[c] = "commit" THEN "commit_err" ELSE "failed")
  /\ UNCHANGED <<pubLedgerVars, req, row, approvals>>

\* One UPDATE, committed by itself; no row to update is no error.
SettlePending(c) ==
  /\ pc[c] = "settle"
  /\ lock[Pub(c)] = Null
  /\ \/ Settle(Pub(c), Amt(c))
     \/ ~pub[Pub(c)].exists /\ UNCHANGED pubLedgerVars
  /\ Release(c)
  /\ Goto(c, "ok") \/ Goto(c, "commit_err")
  /\ UNCHANGED <<req, row, approvals>>

\* One UPDATE of a committed request; the reviewer may not get the answer.
ApproveWithdraw(w, r) ==
  /\ ConnectionFree
  /\ Approve(w, r)
  /\ approvals' \in {approvals, approvals \union {<<w, r>>}}
  /\ UNCHANGED callVars

\* GetOrCreate's INSERT waits for an uncommitted insert of the same key.
GetOrCreate(p) ==
  /\ ConnectionFree
  /\ lock[p] = Null
  /\ OpenPub(p)
  /\ UNCHANGED <<callVars, approvals>>

Progress(c) ==
  \/ Connect(c)
  \/ RevenueUpsert(c)
  \/ WithdrawSelect(c) \/ WithdrawNotFound(c) \/ WithdrawInsufficient(c) \/ WithdrawUpdate(c)
  \/ Insert(c) \/ Commit(c) \/ SettlePending(c)

Step(c) == Progress(c) \/ Fail(c)

\* Every call has returned; the model has no further calls to make.
Finished ==
  /\ \A c \in Calls : pc[c] \in Outcomes
  /\ UNCHANGED vars

Next ==
  \/ \E c \in Calls : Begin(c) \/ Reject(c) \/ Step(c)
  \/ \E w \in Calls, r \in Reviewers : ApproveWithdraw(w, r)
  \/ \E p \in Publishers : GetOrCreate(p)
  \/ Finished

Spec == Init /\ [][Next]_vars

\* A call that has begun goes on, but nothing makes it fail while it waits for a
\* lock; nobody has to make a call, or to review a request.
FairSpec == Spec /\ \A c \in Calls : WF_vars(Progress(c))

------------------------------------------------------------------------------
TypeOK ==
  /\ PubLedgerTypeOK
  /\ req \in [Calls -> CallRequests]
  /\ pc \in [Calls -> Running \union Outcomes \union {"idle"}]
  /\ row \in [Calls -> PubRow]
  /\ lock \in [Publishers -> Calls \union {Null}]
  /\ conns = {c \in Calls : pc[c] \in Running \ {"begin"}}
  /\ Cardinality(conns) <= MaxOpenConns
  /\ approvals \subseteq Calls \X Reviewers

\* The row version call c must have in hand, given the committed row.
Expected(c) ==
  IF pc[c] = "check" THEN pub[Pub(c)]
  ELSE IF req[c].op = "revenue" THEN AfterRevenue(pub[Pub(c)], Amt(c))
  ELSE AfterWithdraw(pub[Pub(c)], Amt(c))

(***************************************************************************)
(* No lost update: a transaction that has read or written a row holds its  *)
(* lock, and the committed row is still the one it started from.  A        *)
(* withdrawal was covered by that very row, and a settlement, which waits  *)
(* for the lock, never slips in between.                                   *)
(***************************************************************************)
NoLostUpdate ==
  \A c \in Calls : pc[c] \in Locked =>
    /\ lock[Pub(c)] = c
    /\ row[c] = Expected(c)
    /\ req[c].op = "withdraw" /\ pc[c] # "check" => Withdrawable(pub[Pub(c)], Amt(c))

\* The status createWithdraw answers with in the end; a missing account is a 500.
WithdrawStatus(c) ==
  CASE pc[c] = "ok"                          -> 200
    [] pc[c] \in {"invalid", "insufficient"} -> 400
    [] OTHER                                 -> 500

(***************************************************************************)
(* What the caller is told is what happened: a withdrawal answered with    *)
(* 200 is on file for that publisher and amount, one answered with 400 is  *)
(* not and never will be.  A 500 leaves the client in doubt, and only an   *)
(* error of COMMIT the code itself.                                        *)
(***************************************************************************)
WithdrawOutcomeIsTruth ==
  \A c \in Calls : req[c].op = "withdraw" =>
    /\ WithdrawStatus(c) = 200 =>
         /\ InTable(c)
         /\ requests[c].pub = Pub(c)
         /\ requests[c].amount = Stored(Amt(c))
    /\ WithdrawStatus(c) = 400 \/ pc[c] \in Refusals => ~InTable(c)

(***************************************************************************)
(* A withdrawal is approved once: of any number of reviewers racing for    *)
(* it, at most one is told so, and it is the one on file.                  *)
(***************************************************************************)
ApprovedOnce ==
  \A w \in Calls, r \in Reviewers : <<w, r>> \in approvals =>
    HasStatus(w, "approved") /\ requests[w].reviewer = r

(***************************************************************************)
(* Every call that has begun returns: the row lock and the connection it   *)
(* waits for are given back by every way out of a transaction, and those   *)
(* who wait for the lock cannot fill the pool against the one who holds it.*)
(***************************************************************************)
PublisherCallsReturn == \A c \in Calls : pc[c] \in Running ~> pc[c] \in Outcomes
==============================================================================
