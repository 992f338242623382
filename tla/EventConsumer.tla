------------------------------ MODULE EventConsumer ------------------------------
(***************************************************************************)
(* The consumer group adortb-billing on one partition of adortb.events     *)
(* (internal/consumer/event.go): instances of the service join, read the   *)
(* partition one message at a time, charge the advertiser, credit the      *)
(* publisher, and mark the message whatever became of it.                  *)
(*                                                                         *)
(* Kafka and the sarama library are external and modelled by how the code  *)
(* uses them.  The group keeps one committed offset; a member owns the     *)
(* partition for a session, which starts at the committed offset, or at    *)
(* the end of the log when there is none (OffsetNewest).  Marked offsets   *)
(* are committed now and then and at the end of the session, but only for  *)
(* the member that still owns the partition.  When a session ends, by a    *)
(* rebalance or at shutdown, its context is cancelled; messages fetched    *)
(* before stay in the channel and ConsumeClaim may still read them.        *)
(*                                                                         *)
(* The two services are taken by their results: a charge succeeds, is      *)
(* refused or fails, and under a cancelled context everything fails.  An   *)
(* operation in flight when its context is cancelled counts as finished    *)
(* just before, or as failed.                                              *)
(*                                                                         *)
(* Faults names what may go wrong:                                         *)
(*   "stores"     the billing stores fail, or do not acknowledge success   *)
(*   "rebalance"  a session ends                                           *)
(*   "evict"      the broker gives the partition to another member while   *)
(*                the old session does not know it yet                     *)
(*   "crash"      an instance dies; marked but uncommitted offsets are lost*)
(***************************************************************************)
EXTENDS PlatformFees, FiniteSets, Sequences

CONSTANTS
  Instances,       \* members of the consumer group
  Prices,          \* bid prices in grains; 0 stands for every event not billed
  Rate,            \* the platform's fee rate
  MaxEvents,       \* bound of the log
  MaxSessions,     \* bound of the sessions that begin
  Faults,
  None             \* no committed offset, no owner

ASSUME ConsumerAssumption ==
  /\ Prices \subseteq Nat
  /\ Rate \in [num : Nat, den : Nat \ {0}]
  /\ MaxEvents \in Nat /\ MaxSessions \in Nat
  /\ Faults \subseteq {"stores", "rebalance", "evict", "crash"}
  /\ None \notin Nat \union Instances

VARIABLES
  log,             \* the partition: a sequence of events
  committed,       \* the group's offset: the next message to consume, or None
  owner,           \* the member the broker has assigned the partition to
  session,         \* session[i]: "off", "live", or "cancelled"
  next,            \* next[i]: offset of the next message ConsumeClaim reads
  fetched,         \* fetched[i]: messages before it are in i's channel
  marked,          \* marked[i]: offset of the last mark, not yet committed, or None
  step,            \* step[i]: what processMessage does next with message next[i]
  sessions,        \* history: sessions begun
  finished,        \* history: events processMessage has returned from, and that were marked
  attempted,       \* history: events processed under a live context
  charged,         \* history, per event: charges a call of SpendForEvent knows of
  credited,        \* history, per event: times the publisher was credited
  missed           \* history: events a session starting at the newest passed over

logVars == <<log, missed>>
history == <<finished, attempted, charged, credited>>
place == <<next, fetched, marked>>
vars == <<log, committed, owner, session, next, fetched, marked, step, sessions,
          finished, attempted, charged, credited, missed>>

Offsets == 1 .. MaxEvents

\* What handleImpressionEvent tells apart; has_pub is PublisherID # 0.
Event == [price : Prices, has_pub : BOOLEAN]

Steps == {"wait", "spend", "fees", "revenue", "mark"}

End == Len(log) + 1

Current(i) == log[next[i]]

Live(i) == session[i] = "live"

------------------------------------------------------------------------------
Init ==
  /\ log = <<>>
  /\ committed = None
  /\ owner = None
  /\ session = [i \in Instances |-> "off"]
  /\ next = [i \in Instances |-> 1]
  /\ fetched = [i \in Instances |-> 1]
  /\ marked = [i \in Instances |-> None]
  /\ step = [i \in Instances |-> "wait"]
  /\ sessions = 0
  /\ finished = {}
  /\ attempted = {}
  /\ charged = [o \in Offsets |-> 0]
  /\ credited = [o \in Offsets |-> 0]
  /\ missed = {}

\* The ADX core or the event pipeline publishes an event.
Publish ==
  /\ Len(log) < MaxEvents
  /\ \E e \in Event : log' = Append(log, e)
  /\ UNCHANGED <<committed, owner, session, place, step, sessions, history, missed>>

\* client.Consume: the member is assigned the partition and a session begins.
Join(i) ==
  /\ session[i] = "off"
  /\ owner = None
  /\ sessions < MaxSessions
  /\ LET start == IF committed = None THEN End ELSE committed
     IN  /\ next' = [next EXCEPT ![i] = start]
         /\ fetched' = [fetched EXCEPT ![i] = start]
         /\ missed' = IF committed = None
                        THEN missed \union ((1 .. Len(log)) \ finished)
                        ELSE missed
  /\ owner' = i
  /\ session' = [session EXCEPT ![i] = "live"]
  /\ marked' = [marked EXCEPT ![i] = None]
  /\ sessions' = sessions + 1
  /\ UNCHANGED <<log, committed, step, history>>

Fetch(i) ==
  /\ Live(i)
  /\ fetched[i] < End
  /\ fetched' = [fetched EXCEPT ![i] = @ + 1]
  /\ UNCHANGED <<logVars, committed, owner, session, next, marked, step, sessions, history>>

------------------------------------------------------------------------------
(* ConsumeClaim and processMessage. *)

Goes(i, s) == step' = [step EXCEPT ![i] = s]

Once(h, i) == [h EXCEPT ![next[i]] = @ + 1]

Elsewhere == <<logVars, committed, owner, session, place, sessions>>

\* An event that is not billed, by its type, price or advertiser, is done at once.
Deliver(i) ==
  /\ session[i] # "off"
  /\ step[i] = "wait"
  /\ next[i] < fetched[i]
  /\ attempted' = IF Live(i) \/ Current(i).price = 0
                    THEN attempted \union {next[i]} ELSE attempted
  /\ Goes(i, IF Current(i).price = 0 THEN "mark" ELSE "spend")
  /\ UNCHANGED <<Elsewhere, finished, charged, credited>>

\* Mutant of Charge: an event whose charge is refused is credited all the same.
ChargeIgnoringError(i) ==
  /\ step[i] = "spend"
  /\ Live(i)
  /\ charged' \in {charged, Once(charged, i)}
  /\ Goes(i, IF Current(i).has_pub THEN "fees" ELSE "mark")
  /\ UNCHANGED <<Elsewhere, finished, attempted, credited>>

\* advSvc.SpendForEvent succeeds.
Charge(i) ==
  /\ step[i] = "spend"
  /\ Live(i)
  /\ charged' = Once(charged, i)
  /\ Goes(i, IF Current(i).has_pub THEN "fees" ELSE "mark")
  /\ UNCHANGED <<Elsewhere, finished, attempted, credited>>

\* Not enough balance, or no account.
ChargeRefused(i) ==
  /\ step[i] = "spend"
  /\ Live(i)
  /\ Goes(i, "mark")
  /\ UNCHANGED <<Elsewhere, history>>

\* Mutant of ChargeFails: an event that fails is held until it no longer does.
ChargeFailsHeld(i) ==
  /\ step[i] = "spend"
  /\ ~Live(i) \/ "stores" \in Faults
  /\ UNCHANGED vars

\* The error may hide a charge that was made.
ChargeFails(i) ==
  /\ step[i] = "spend"
  /\ \/ ~Live(i) /\ UNCHANGED charged
     \/ "stores" \in Faults /\ charged' \in {charged, Once(charged, i)}
  /\ Goes(i, "mark")
  /\ UNCHANGED <<Elsewhere, finished, attempted, credited>>

\* platSvc.CalcFees reads the rate.
CalcFees(i) ==
  /\ step[i] = "fees"
  /\ \/ Live(i) /\ Goes(i, "revenue")
     \/ (~Live(i) \/ "stores" \in Faults) /\ Goes(i, "mark")
  /\ UNCHANGED <<Elsewhere, history>>

\* pubSvc.AddRevenue, which refuses a net revenue of nothing.
AddRevenue(i) ==
  /\ step[i] = "revenue"
  /\ \/ /\ Live(i)
        /\ Net(Current(i).price, Rate) > 0
        /\ credited' = Once(credited, i)
     \/ /\ ~Live(i) \/ Net(Current(i).price, Rate) <= 0
        /\ UNCHANGED credited
     \/ /\ "stores" \in Faults
        /\ UNCHANGED credited
  /\ Goes(i, "mark")
  /\ UNCHANGED <<Elsewhere, finished, attempted, charged>>

\* sess.MarkMessage, whatever processMessage returned.
Mark(i) ==
  /\ step[i] = "mark"
  /\ marked' = [marked EXCEPT ![i] = next[i] + 1]
  /\ next' = [next EXCEPT ![i] = @ + 1]
  /\ finished' = finished \union {next[i]}
  /\ Goes(i, "wait")
  /\ UNCHANGED <<logVars, committed, owner, session, fetched, sessions,
                 attempted, charged, credited>>

------------------------------------------------------------------------------
(* Offsets and sessions, in sarama and the broker. *)

\* Mutant of Flushed: what is in the channel is committed, processed or not.
FlushedFetched(i) == IF owner = i THEN fetched[i] ELSE committed

\* Mutant of Flushed: a member that lost the partition still commits its marks.
FlushedByAnyone(i) == IF marked[i] # None THEN marked[i] ELSE committed

\* The committed offset after i has sent its marks: only the owner's count.
Flushed(i) == IF owner = i /\ marked[i] # None THEN marked[i] ELSE committed

AutoCommit(i) ==
  /\ session[i] # "off"
  /\ Flushed(i) # committed
  /\ committed' = Flushed(i)
  /\ UNCHANGED <<logVars, owner, session, place, step, sessions, history>>

\* The session's context is cancelled: a rebalance, a shutdown, or a lost partition.
Cancel(i) ==
  /\ Live(i)
  /\ owner # i \/ ("rebalance" \in Faults /\ sessions < MaxSessions)
  /\ session' = [session EXCEPT ![i] = "cancelled"]
  /\ UNCHANGED <<logVars, committed, owner, place, step, sessions, history>>

\* ConsumeClaim returns between two messages; the last marks are committed.
Leave(i) ==
  /\ session[i] = "cancelled"
  /\ step[i] = "wait"
  /\ committed' = Flushed(i)
  /\ owner' = IF owner = i THEN None ELSE owner
  /\ session' = [session EXCEPT ![i] = "off"]
  /\ UNCHANGED <<logVars, place, step, sessions, history>>

Evict(i) ==
  /\ "evict" \in Faults /\ sessions < MaxSessions
  /\ owner = i
  /\ owner' = None
  /\ UNCHANGED <<logVars, committed, session, place, step, sessions, history>>

Crash(i) ==
  /\ "crash" \in Faults /\ sessions < MaxSessions
  /\ session[i] # "off"
  /\ session' = [session EXCEPT ![i] = "off"]
  /\ step' = [step EXCEPT ![i] = "wait"]
  /\ owner' = IF owner = i THEN None ELSE owner
  /\ UNCHANGED <<logVars, committed, place, sessions, history>>

------------------------------------------------------------------------------
Process(i) ==
  \/ Deliver(i)
  \/ Charge(i) \/ ChargeRefused(i) \/ ChargeFails(i)
  \/ CalcFees(i) \/ AddRevenue(i) \/ Mark(i)

\* Everything is published and consumed, and the session that remains is idle.
Idle ==
  /\ Len(log) = MaxEvents
  /\ sessions = MaxSessions
  /\ committed = End \/ (\A i \in Instances : Live(i) => next[i] = End)
  /\ UNCHANGED vars

Next ==
  \/ Publish
  \/ \E i \in Instances :
       \/ Join(i) \/ Fetch(i) \/ Process(i) \/ AutoCommit(i)
       \/ Cancel(i) \/ Leave(i) \/ Evict(i) \/ Crash(i)
  \/ Idle

Spec == Init /\ [][Next]_vars

(***************************************************************************)
(* Some member joins when the partition is free, a session fetches, its    *)
(* goroutine processes what it reads, offsets are committed, and a session *)
(* that lost the partition notices and ends.  Publishing and faults are    *)
(* not fair; MaxSessions bounds the faults that end sessions.              *)
(***************************************************************************)
FairSpec ==
  /\ Spec
  /\ WF_vars(\E i \in Instances : Join(i))
  /\ \A i \in Instances :
       /\ WF_vars(Fetch(i)) /\ WF_vars(Process(i)) /\ WF_vars(AutoCommit(i))
       /\ WF_vars(owner # i /\ Cancel(i)) /\ WF_vars(Leave(i))

------------------------------------------------------------------------------
TypeOK ==
  /\ log \in Seq(Event) /\ Len(log) <= MaxEvents
  /\ committed \in (Nat \ {0}) \union {None}
  /\ owner \in Instances \union {None}
  /\ session \in [Instances -> {"off", "live", "cancelled"}]
  /\ {next, fetched} \subseteq [Instances -> Nat \ {0}]
  /\ marked \in [Instances -> (Nat \ {0}) \union {None}]
  /\ step \in [Instances -> Steps]
  /\ sessions \in 0 .. MaxSessions
  /\ {charged, credited} \subseteq [Offsets -> Nat]
  /\ {finished, attempted, missed} \subseteq SUBSET Offsets

(***************************************************************************)
(* A publisher is credited for an event no more often than an advertiser   *)
(* was charged for it, and nobody is charged for it more often than there  *)
(* were sessions to read it again in, whatever fails in between.  There is *)
(* no check of the event id: after a crash it is charged again.  A debit   *)
(* in Redis whose reply was lost is no charge here; BillingPipeline counts *)
(* it.                                                                     *)
(***************************************************************************)
CreditsFollowCharges ==
  \A o \in Offsets : credited[o] <= charged[o] /\ charged[o] <= sessions

(***************************************************************************)
(* The group's offset passes no event that no instance has finished with,  *)
(* except those published while a member started at the end of the log     *)
(* because nothing had ever been committed.                                *)
(***************************************************************************)
NothingSkipped ==
  committed # None =>
    \A o \in 1 .. committed - 1 : o \in finished \union missed

Feed == INSTANCE EventFeed WITH Events <- Event, cursor <- committed

(***************************************************************************)
(* The group, seen by its committed offset, is the feed of EventFeed: no   *)
(* session, late commit of a member that lost the partition, or crash      *)
(* takes the offset back or past an event nobody has finished.             *)
(***************************************************************************)
ImplementsFeed == Feed!FeedSpec

(***************************************************************************)
(* Members leave gracefully: an event the group has left behind was tried  *)
(* under a live context.  But ConsumeClaim marks the messages it fails     *)
(* because the session is over, and sarama commits those marks.            *)
(***************************************************************************)
GracefulExit ==
  committed # None =>
    \A o \in 1 .. committed - 1 : o \in attempted \/ o \in missed

(***************************************************************************)
(* Every event the group has yet to pass is passed in the end, whatever    *)
(* members crash, lose the partition or leave: errors do not block it.     *)
(***************************************************************************)
EventsConsumed ==
  \A o \in Offsets :
    (committed # None /\ committed <= o /\ o <= Len(log)) ~> (committed # None /\ committed > o)
==============================================================================
