---------------------------- MODULE PublisherLedger ----------------------------
(***************************************************************************)
(* What the publisher tables promise: revenue is credited, settled and     *)
(* reserved for a withdrawal, and a withdrawal is approved, each at one    *)
(* instant over all the tables concerned.                                  *)
(*                                                                         *)
(* PublisherAccount shows that internal/repo/publisher.go implements it.   *)
(***************************************************************************)
EXTENDS Decimal, Sequences, FiniteSets, Functions

CONSTANTS
  Publishers,      \* publisher ids
  Calls,           \* identities of repository calls
  Amounts,         \* requested amounts, in grains
  Reviewers,       \* ids of the admins who approve withdrawals
  Null             \* reviewed_by of a request nobody reviewed, or no request at all

VARIABLES
  pub,             \* publisher_accounts: [Publishers -> PubRow]
  journal,         \* balance_transactions of each publisher, in id order
  requests,        \* withdraw_requests, named by the call that inserts them
  credited,        \* history: units credited to each publisher
  rough            \* history: calls on each publisher whose amount fell between two units

pubLedgerVars == <<pub, journal, requests, credited, rough>>

PubRow == [exists : BOOLEAN, pending : Int, settled : Int, withdrawn : Int]

NoPubRow == [exists |-> FALSE, pending |-> 0, settled |-> 0, withdrawn |-> 0]

NewPubRow == [exists |-> TRUE, pending |-> 0, settled |-> 0, withdrawn |-> 0]

Entry == [call : Calls, amount : Int, after : Int]

\* Of the statuses of the model the code writes two.
Statuses == {"pending", "approved", "rejected", "paid"}

Request == [pub : Publishers, amount : Int, status : Statuses,
            reviewer : Reviewers \union {Null}]

ASSUME PublisherAssumption ==
  /\ Amounts \subseteq Int
  /\ Null \notin Reviewers \union Calls \union Request

InTable(w) == requests[w] # Null

HasStatus(w, s) == InTable(w) /\ requests[w].status = s

------------------------------------------------------------------------------
(* The row transformations of the UPDATE statements. *)

\* INSERT ... ON CONFLICT DO UPDATE of AddRevenue.
AfterRevenue(row, amt) ==
  [row EXCEPT !.exists = TRUE, !.pending = Stored(Grains(@) + amt)]

\* Mutant of AfterWithdraw: the amount is not added to revenue_withdrawn.
AfterWithdrawUncounted(row, amt) ==
  [row EXCEPT !.settled = Stored(Grains(@) - amt)]

\* UPDATE of CreateWithdrawRequest.
AfterWithdraw(row, amt) ==
  [row EXCEPT !.settled = Stored(Grains(@) - amt),
              !.withdrawn = Stored(Grains(@) + amt)]

\* Mutant of AfterSettle: settles without taking from revenue_pending.
AfterSettleKeepsPending(row, amt) ==
  [row EXCEPT !.settled = Stored(Grains(@) + amt)]

\* UPDATE of SettlePending.
AfterSettle(row, amt) ==
  [row EXCEPT !.pending = Stored(Grains(@) - amt),
              !.settled = Stored(Grains(@) + amt)]

\* The check CreateWithdrawRequest makes in Go.
Withdrawable(row, amt) == Grains(row.settled) >= amt

\* 1 for an amount that no column can hold exactly.
Rough(amt) == IF amt % Grid = 0 THEN 0 ELSE 1

RevenueEntry(c, row, amt) ==
  [call |-> c, amount |-> Stored(amt), after |-> row.pending]

PendingRequest(p, amt) ==
  [pub |-> p, amount |-> Stored(amt), status |-> "pending", reviewer |-> Null]

Approved(request, r) == [request EXCEPT !.status = "approved", !.reviewer = r]

------------------------------------------------------------------------------
PubLedgerInit ==
  /\ pub = [p \in Publishers |-> NoPubRow]
  /\ journal = [p \in Publishers |-> <<>>]
  /\ requests = [w \in Calls |-> Null]
  /\ credited = [p \in Publishers |-> 0]
  /\ rough = [p \in Publishers |-> 0]

Credit(c, p, amt) ==
  /\ amt > 0
  /\ pub' = [pub EXCEPT ![p] = AfterRevenue(@, amt)]
  /\ journal' = [journal EXCEPT ![p] =
                   Append(@, RevenueEntry(c, AfterRevenue(pub[p], amt), amt))]
  /\ credited' = [credited EXCEPT ![p] = @ + Stored(amt)]
  /\ rough' = [rough EXCEPT ![p] = @ + Rough(amt)]
  /\ UNCHANGED requests

Withdraw(w, p, amt) ==
  /\ amt > 0
  /\ ~InTable(w)
  /\ pub[p].exists
  /\ Withdrawable(pub[p], amt)
  /\ pub' = [pub EXCEPT ![p] = AfterWithdraw(@, amt)]
  /\ requests' = [requests EXCEPT ![w] = PendingRequest(p, amt)]
  /\ rough' = [rough EXCEPT ![p] = @ + Rough(amt)]
  /\ UNCHANGED <<journal, credited>>

\* Touches neither the journal nor any check: the caller chooses the amount.
Settle(p, amt) ==
  /\ pub[p].exists
  /\ pub' = [pub EXCEPT ![p] = AfterSettle(@, amt)]
  /\ rough' = [rough EXCEPT ![p] = @ + Rough(amt)]
  /\ UNCHANGED <<journal, requests, credited>>

\* Mutant of Approve: without the test of the status in the WHERE clause.
ApproveAnyStatus(w, r) ==
  /\ InTable(w)
  /\ requests' = [requests EXCEPT ![w] = Approved(@, r)]
  /\ UNCHANGED <<pub, journal, credited, rough>>

Approve(w, r) ==
  /\ HasStatus(w, "pending")
  /\ requests' = [requests EXCEPT ![w] = Approved(@, r)]
  /\ UNCHANGED <<pub, journal, credited, rough>>

\* GetOrCreate.
OpenPub(p) ==
  /\ ~pub[p].exists
  /\ pub' = [pub EXCEPT ![p] = NewPubRow]
  /\ UNCHANGED <<journal, requests, credited, rough>>

PubLedgerNext ==
  \/ \E p \in Publishers : OpenPub(p)
  \/ \E c \in Calls, p \in Publishers, amt \in Amounts :
       Credit(c, p, amt) \/ Withdraw(c, p, amt) \/ Settle(p, amt)
  \/ \E w \in Calls, r \in Reviewers : Approve(w, r)

PubLedgerSpec == PubLedgerInit /\ [][PubLedgerNext]_pubLedgerVars

------------------------------------------------------------------------------
PubLedgerTypeOK ==
  /\ pub \in [Publishers -> PubRow]
  /\ journal \in [Publishers -> Seq(Entry)]
  /\ requests \in [Calls -> Request \union {Null}]
  /\ credited \in [Publishers -> Int]
  /\ rough \in [Publishers -> Nat]

\* What the three columns together have gained over what was credited.
PubDrift(p) ==
  pub[p].pending + pub[p].settled + pub[p].withdrawn - credited[p]

(***************************************************************************)
(* Revenue only moves from column to column: together they are what was    *)
(* credited, to within a unit for each call whose amount fell between two  *)
(* units.  A settlement or a withdrawal gains a unit when it rounds the    *)
(* same half up twice; revenue loses one when it meets a pending column    *)
(* that a settlement took below zero.  On amounts with four decimals,      *)
(* which is what CalcFees returns, the columns agree exactly.              *)
(***************************************************************************)
RevenueConserved ==
  \A p \in Publishers : PubDrift(p) \in -rough[p] .. rough[p]

(***************************************************************************)
(* No publisher withdraws more than was settled, however many withdrawals  *)
(* race: the column has no CHECK, only the test made in Go under the row   *)
(* lock.                                                                   *)
(***************************************************************************)
NeverOverwithdrawn == \A p \in Publishers : pub[p].settled >= 0

\* A publisher's requests on file, approved or not.
RequestsOf(p) == {w \in Calls : InTable(w) /\ requests[w].pub = p}

RequestedTotal(p) == SumFunction([w \in RequestsOf(p) |-> requests[w].amount])

(***************************************************************************)
(* Two tables agree: revenue_withdrawn is exactly the sum of the requests  *)
(* on file, so none was filed without reserving its amount, and no amount  *)
(* reserved without a request to pay it out by.  The column moves when the *)
(* request is made, and its approval leaves it alone: so the code has it,  *)
(* and docs/architecture.md:179-199 the other way round.                   *)
(***************************************************************************)
WithdrawnIsRequested ==
  \A p \in Publishers : pub[p].withdrawn = RequestedTotal(p)
==============================================================================
