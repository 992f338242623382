--------------------------- MODULE BillingPipelineProofs ---------------------------
(***************************************************************************)
(* The consumer group of EventConsumer implements the feed of EventFeed,   *)
(* and credits an event no more often than it charged it; and in the       *)
(* pipeline of BillingPipeline, whose charges fall on Redis or PostgreSQL  *)
(* as the cache has it, the two journals differ by no more than the cache  *)
(* debits, and payouts are covered, for any number of members, events,     *)
(* sessions and faults.                                                    *)
(***************************************************************************)
EXTENDS BillingPipeline, AmountProofs, FiniteSetTheorems

\* What is known of the messages in a member's channel, and of its marks.
Placed(i) ==
  /\ next[i] <= fetched[i] /\ fetched[i] <= End
  /\ step[i] # "wait" => next[i] < fetched[i]
  /\ session[i] = "off" => step[i] = "wait"
  /\ session[i] # "off" => marked[i] \in {None, next[i]} /\ Feed!Settled(next[i])

\* The owner has a session, which is at the committed offset or past it.
OwnerAhead ==
  \A i \in Instances :
    owner = i => session[i] # "off" /\ (committed # None => committed <= next[i])

CursorSettled == committed # None => committed <= End /\ Feed!Settled(committed)

\* The inductive invariant of Spec.
ConsumerInv ==
  /\ TypeOK
  /\ \A i \in Instances : Placed(i)
  /\ OwnerAhead
  /\ CursorSettled

\* What is settled stays settled.
LEMMA SettledStays ==
  ASSUME NEW c, Feed!Settled(c), finished \subseteq finished', missed \subseteq missed'
  PROVE  Feed!Settled(c)'
BY DEF Feed!Settled

\* The invariant holds before any member has joined.
LEMMA InitInv == Init => ConsumerInv
<1>1. SUFFICES ASSUME Init PROVE ConsumerInv
  OBVIOUS
<1>2. TypeOK
  BY <1>1, ConsumerAssumption DEF Init, TypeOK, Steps, Offsets
<1>3. \A i \in Instances : Placed(i)
  BY <1>1 DEF Init, Placed, End
<1>4. OwnerAhead /\ CursorSettled
  BY <1>1, ConsumerAssumption DEF Init, OwnerAhead, CursorSettled
<1>5. QED
  BY <1>2, <1>3, <1>4 DEF ConsumerInv

\* What the invariant says of the offset a member sends: it is settled, in the log,
\* and not behind the committed one.
LEMMA FlushedSettled ==
  ASSUME ConsumerInv, NEW i \in Instances, session[i] # "off"
  PROVE  /\ Flushed(i) \in (Nat \ {0}) \union {None}
         /\ Flushed(i) # committed =>
              /\ owner = i
              /\ Flushed(i) = next[i]
              /\ Flushed(i) \in 1 .. End
              /\ Feed!Settled(Flushed(i))
              /\ committed = None \/ Flushed(i) > committed
<1>1. /\ committed \in (Nat \ {0}) \union {None}
      /\ marked[i] \in (Nat \ {0}) \union {None} /\ next[i] \in Nat \ {0}
      /\ fetched[i] \in Nat /\ End \in Nat /\ None \notin Nat
  BY ConsumerAssumption DEF ConsumerInv, TypeOK, End
<1>2. /\ next[i] <= fetched[i] /\ fetched[i] <= End
      /\ marked[i] \in {None, next[i]} /\ Feed!Settled(next[i])
  BY DEF ConsumerInv, Placed
<1>3. owner = i => (committed # None => committed <= next[i])
  BY DEF ConsumerInv, OwnerAhead
<1>4. CASE owner = i /\ marked[i] # None
  <2>1. Flushed(i) = next[i]
    BY <1>2, <1>4 DEF Flushed
  <2>2. QED
    BY <1>1, <1>2, <1>3, <1>4, <2>1
<1>5. CASE ~(owner = i /\ marked[i] # None)
  BY <1>1, <1>5 DEF Flushed
<1>6. QED
  BY <1>4, <1>5

------------------------------------------------------------------------------
(* Frames: what a step that leaves a part of the state alone preserves. *)

\* The log and the histories that settle events only grow.
Grows == End \in Nat /\ End' \in Nat /\ End <= End'
         /\ finished \subseteq finished' /\ missed \subseteq missed'

LEMMA PlacedFrame ==
  ASSUME NEW j \in Instances, ConsumerInv, Grows,
         next'[j] = next[j], fetched'[j] = fetched[j], step'[j] = step[j],
         session'[j] = session[j], marked'[j] = marked[j]
  PROVE  Placed(j)'
<1>1. Placed(j) /\ fetched[j] \in Nat
  BY DEF ConsumerInv, TypeOK
<1>2. Feed!Settled(next[j]) => Feed!Settled(next[j])'
  BY DEF Feed!Settled, Grows
<1>3. next'[j] <= fetched'[j] /\ fetched'[j] <= End'
  BY <1>1 DEF Grows, Placed
<1>4. session'[j] # "off" => Feed!Settled(next[j])
  BY <1>1 DEF Placed
<1>5. QED
  BY <1>1, <1>2, <1>3, <1>4 DEF Placed

LEMMA CursorFrame ==
  ASSUME ConsumerInv, Grows, committed' = committed
  PROVE  CursorSettled'
<1>1. SUFFICES ASSUME committed # None
               PROVE  committed <= End' /\ Feed!Settled(committed)'
  BY DEF CursorSettled, Feed!Settled
<1>2. committed \in Nat /\ committed <= End /\ Feed!Settled(committed)
  BY <1>1 DEF ConsumerInv, TypeOK, CursorSettled
<1>3. QED
  BY <1>2, SettledStays DEF Grows

\* A step that does not publish grows the histories at most.
LEMMA GrowsFrame ==
  ASSUME ConsumerInv, log' = log, finished \subseteq finished', missed \subseteq missed'
  PROVE  Grows
BY DEF ConsumerInv, TypeOK, Grows, End

------------------------------------------------------------------------------
(* One lemma for each kind of step. *)

\* An event is published.
LEMMA PublishInv == ASSUME ConsumerInv, Publish PROVE ConsumerInv'
<1>1. PICK e \in Event : log' = Append(log, e)
  BY DEF Publish
<1>2. Len(log) < MaxEvents /\ MaxEvents \in Nat
  BY ConsumerAssumption DEF Publish
<1>3. /\ UNCHANGED <<committed, owner, session, next, fetched, marked, step, sessions>>
      /\ UNCHANGED <<finished, attempted, charged, credited, missed>>
  BY DEF Publish, place, history
<1>4. log' \in Seq(Event) /\ Len(log') = Len(log) + 1 /\ Len(log) \in Nat
  BY <1>1 DEF ConsumerInv, TypeOK
<1>5. TypeOK'
  BY <1>2, <1>3, <1>4 DEF ConsumerInv, TypeOK
<1>6. Grows
  BY <1>3, <1>4 DEF Grows, End
<1>7. \A j \in Instances : Placed(j)'
  BY <1>3, <1>6, PlacedFrame
<1>8. OwnerAhead'
  BY <1>3 DEF ConsumerInv, OwnerAhead
<1>9. CursorSettled'
  BY <1>3, <1>6, CursorFrame
<1>10. QED
  BY <1>5, <1>7, <1>8, <1>9 DEF ConsumerInv

\* A member joins at the committed offset, or at the end of the log.
LEMMA JoinInv ==
  ASSUME ConsumerInv, NEW i \in Instances, Join(i)
  PROVE  ConsumerInv'
<1> DEFINE start == IF committed = None THEN End ELSE committed
<1>1. /\ session[i] = "off" /\ owner = None /\ sessions < MaxSessions
      /\ next' = [next EXCEPT ![i] = start]
      /\ fetched' = [fetched EXCEPT ![i] = start]
      /\ missed' = IF committed = None
                     THEN missed \union ((1 .. Len(log)) \ finished) ELSE missed
      /\ owner' = i
      /\ session' = [session EXCEPT ![i] = "live"]
      /\ marked' = [marked EXCEPT ![i] = None]
      /\ sessions' = sessions + 1
      /\ UNCHANGED <<log, committed, step, finished, attempted, charged, credited>>
  BY DEF Join, history
<1>2. /\ log \in Seq(Event) /\ Len(log) \in Nat /\ Len(log) <= MaxEvents /\ MaxEvents \in Nat
      /\ committed \in (Nat \ {0}) \union {None}
      /\ End \in Nat \ {0} /\ End = Len(log) + 1 /\ End' = End
      /\ missed \subseteq Offsets /\ finished \subseteq Offsets
      /\ Offsets = 1 .. MaxEvents
  <2>1. /\ log \in Seq(Event) /\ Len(log) <= MaxEvents
        /\ committed \in (Nat \ {0}) \union {None}
        /\ missed \subseteq Offsets /\ finished \subseteq Offsets
    BY DEF ConsumerInv, TypeOK
  <2>2. Len(log) \in Nat /\ MaxEvents \in Nat
    BY <2>1, ConsumerAssumption
  <2>3. End \in Nat \ {0} /\ End = Len(log) + 1 /\ End' = End
    BY <1>1, <2>2 DEF End
  <2>4. QED
    BY <2>1, <2>2, <2>3 DEF Offsets
<1>3. /\ next \in [Instances -> Nat \ {0}] /\ fetched \in [Instances -> Nat \ {0}]
      /\ session \in [Instances -> {"off", "live", "cancelled"}]
      /\ marked \in [Instances -> (Nat \ {0}) \union {None}]
      /\ sessions \in 0 .. MaxSessions /\ MaxSessions \in Nat
  BY ConsumerAssumption DEF ConsumerInv, TypeOK
<1>4. start \in Nat \ {0} /\ start <= End
  BY <1>2 DEF ConsumerInv, CursorSettled
<1>5. missed' \subseteq Offsets /\ missed \subseteq missed'
  <2>1. 1 .. Len(log) \subseteq Offsets
    BY <1>2
  <2>2. missed' \in {missed, missed \union ((1 .. Len(log)) \ finished)}
    BY <1>1
  <2>3. QED
    BY <1>2, <2>1, <2>2, Zenon
<1>6. Grows
  BY <1>1, <1>2, <1>5 DEF Grows
<1>7. Feed!Settled(start)'
  <2>1. start' = start
    BY <1>1, <1>2
  <2>2. CASE committed = None
    <3>1. \A o \in 1 .. Len(log) : o \in finished' \union missed'
      BY <1>1, <2>2
    <3>2. start' - 1 = Len(log)
      BY <1>2, <2>1, <2>2
    <3>3. QED
      BY <3>1, <3>2 DEF Feed!Settled
  <2>3. CASE committed # None
    <3>1. Feed!Settled(committed)
      BY <2>3 DEF ConsumerInv, CursorSettled
    <3>2. QED
      BY <1>1, <1>5, <2>1, <2>3, <3>1 DEF Feed!Settled
  <2>4. QED
    BY <2>2, <2>3
<1>8. start' = start
  BY <1>1, <1>2
<1> HIDE DEF start
<1>9. TypeOK'
  <2>1. sessions' \in 0 .. MaxSessions
    BY <1>1, <1>3
  <2>2. session' \in [Instances -> {"off", "live", "cancelled"}]
    BY <1>1, <1>3
  <2>3. {next', fetched'} \subseteq [Instances -> Nat \ {0}]
    BY <1>1, <1>3, <1>4
  <2>4. marked' \in [Instances -> (Nat \ {0}) \union {None}]
    BY <1>1, <1>3
  <2>5. QED
    BY <1>1, <1>5, <2>1, <2>2, <2>3, <2>4 DEF ConsumerInv, TypeOK
<1>10. ASSUME NEW j \in Instances PROVE Placed(j)'
  <2>1. CASE j = i
    <3>1. /\ next'[i] = start /\ fetched'[i] = start /\ marked'[i] = None
          /\ step'[i] = "wait" /\ session'[i] = "live"
      BY <1>1, <1>3 DEF ConsumerInv, Placed
    <3>2. QED
      BY <1>2, <1>4, <1>7, <1>8, <2>1, <3>1 DEF Placed, Feed!Settled
  <2>2. CASE j # i
    BY <1>1, <1>3, <1>6, <2>2, PlacedFrame
  <2>3. QED
    BY <2>1, <2>2
<1>11. OwnerAhead'
  <2>1. session'[i] # "off" /\ next'[i] = start
    BY <1>1, <1>3
  <2>2. committed' # None => committed' <= start
    BY <1>1, <1>2 DEF start
  <2>3. QED
    BY <1>1, <2>1, <2>2 DEF OwnerAhead
<1>12. CursorSettled'
  BY <1>1, <1>6, CursorFrame
<1>13. QED
  BY <1>9, <1>10, <1>11, <1>12 DEF ConsumerInv

\* A message is fetched into the channel.
LEMMA FetchInv ==
  ASSUME ConsumerInv, NEW i \in Instances, Fetch(i)
  PROVE  ConsumerInv'
<1>1. /\ session[i] = "live" /\ fetched[i] < End
      /\ fetched' = [fetched EXCEPT ![i] = @ + 1]
      /\ UNCHANGED <<log, missed, committed, owner, session, next, marked, step, sessions>>
      /\ UNCHANGED <<finished, attempted, charged, credited>>
  BY DEF Fetch, Live, logVars, history
<1>2. /\ next \in [Instances -> Nat \ {0}] /\ fetched \in [Instances -> Nat \ {0}]
      /\ End \in Nat /\ End' = End
  BY <1>1 DEF ConsumerInv, TypeOK, End
<1>3. TypeOK'
  <2>1. fetched' \in [Instances -> Nat \ {0}]
    BY <1>1, <1>2
  <2>2. QED
    BY <1>1, <2>1 DEF ConsumerInv, TypeOK
<1>4. Grows
  BY <1>1, GrowsFrame
<1>5. ASSUME NEW j \in Instances PROVE Placed(j)'
  <2>1. CASE j = i
    <3>1. fetched'[i] = fetched[i] + 1
      BY <1>1, <1>2
    <3>2. Placed(i) /\ fetched[i] \in Nat /\ next[i] \in Nat
      BY <1>2 DEF ConsumerInv
    <3>3. QED
      BY <1>1, <1>2, <2>1, <3>1, <3>2 DEF Placed, Feed!Settled
  <2>2. CASE j # i
    BY <1>1, <1>2, <1>4, <2>2, PlacedFrame
  <2>3. QED
    BY <2>1, <2>2
<1>6. OwnerAhead'
  BY <1>1 DEF ConsumerInv, OwnerAhead
<1>7. CursorSettled'
  BY <1>1, <1>4, CursorFrame
<1>8. QED
  BY <1>3, <1>5, <1>6, <1>7 DEF ConsumerInv

\* processMessage goes from one step to another with the message it has in hand.
LEMMA WorkInv ==
  ASSUME ConsumerInv, NEW i \in Instances, NEW s \in Steps,
         session[i] # "off", next[i] < fetched[i], Goes(i, s),
         UNCHANGED <<log, missed, committed, owner, session, next, fetched, marked, sessions>>,
         finished' = finished, attempted' \in SUBSET Offsets,
         charged' \in [Offsets -> Nat], credited' \in [Offsets -> Nat]
  PROVE  ConsumerInv'
<1>1. step' = [step EXCEPT ![i] = s] /\ step \in [Instances -> Steps]
  BY DEF Goes, ConsumerInv, TypeOK
<1>2. TypeOK'
  <2>1. step' \in [Instances -> Steps]
    BY <1>1
  <2>2. QED
    BY <2>1 DEF ConsumerInv, TypeOK
<1>3. Grows
  BY GrowsFrame
<1>4. ASSUME NEW j \in Instances PROVE Placed(j)'
  <2>1. CASE j = i
    BY <2>1 DEF ConsumerInv, Placed, Feed!Settled, End
  <2>2. CASE j # i
    BY <1>1, <1>3, <2>2, PlacedFrame
  <2>3. QED
    BY <2>1, <2>2
<1>5. OwnerAhead'
  BY DEF ConsumerInv, OwnerAhead
<1>6. CursorSettled'
  BY <1>3, CursorFrame
<1>7. QED
  BY <1>2, <1>4, <1>5, <1>6 DEF ConsumerInv

\* A member that is past "wait" has a session and a message in hand.
LEMMA MessageInHand ==
  ASSUME ConsumerInv, NEW i \in Instances, step[i] # "wait"
  PROVE  /\ session[i] # "off" /\ next[i] < fetched[i]
         /\ next[i] \in Offsets /\ next[i] \in 1 .. Len(log)
<1>1. Placed(i)
  BY DEF ConsumerInv
<1>2. /\ next[i] \in Nat \ {0} /\ fetched[i] \in Nat
      /\ Len(log) \in Nat /\ Len(log) <= MaxEvents /\ MaxEvents \in Nat
  BY ConsumerAssumption DEF ConsumerInv, TypeOK
<1>3. QED
  BY <1>1, <1>2 DEF Placed, End, Offsets

\* The steps of processMessage before the mark.
LEMMA ProcessInv ==
  ASSUME ConsumerInv, NEW i \in Instances,
         \/ Deliver(i) \/ Charge(i) \/ ChargeRefused(i) \/ ChargeFails(i)
         \/ CalcFees(i) \/ AddRevenue(i)
  PROVE  ConsumerInv'
<1>1. /\ UNCHANGED <<log, missed, committed, owner, session, next, fetched, marked, sessions>>
      /\ finished' = finished
  BY DEF Deliver, Charge, ChargeRefused, ChargeFails, CalcFees, AddRevenue,
         Elsewhere, logVars, place, history
<1>2. session[i] # "off" /\ next[i] < fetched[i]
  <2>1. CASE Deliver(i)
    BY <2>1 DEF Deliver
  <2>2. CASE ~Deliver(i)
    <3>1. step[i] # "wait"
      BY <2>2 DEF Charge, ChargeRefused, ChargeFails, CalcFees, AddRevenue
    <3>2. QED
      BY <3>1, MessageInHand
  <2>3. QED
    BY <2>1, <2>2
<1>3. next[i] \in Offsets
  <2>1. /\ Placed(i) /\ next[i] \in Nat \ {0} /\ fetched[i] \in Nat
        /\ Len(log) \in Nat /\ Len(log) <= MaxEvents /\ MaxEvents \in Nat
    BY ConsumerAssumption DEF ConsumerInv, TypeOK
  <2>2. QED
    BY <1>2, <2>1 DEF Placed, End, Offsets
<1>4. \E s \in Steps : Goes(i, s)
  BY DEF Deliver, Charge, ChargeRefused, ChargeFails, CalcFees, AddRevenue, Steps
<1>5. attempted' \in SUBSET Offsets
  <2>1. attempted' \in {attempted, attempted \union {next[i]}}
    BY DEF Deliver, Charge, ChargeRefused, ChargeFails, CalcFees, AddRevenue, history
  <2>2. attempted \subseteq Offsets
    BY DEF ConsumerInv, TypeOK
  <2>3. QED
    BY <1>3, <2>1, <2>2
<1>6. charged' \in [Offsets -> Nat] /\ credited' \in [Offsets -> Nat]
  <2>1. charged \in [Offsets -> Nat] /\ credited \in [Offsets -> Nat]
    BY DEF ConsumerInv, TypeOK
  <2>2. Once(charged, i) \in [Offsets -> Nat] /\ Once(credited, i) \in [Offsets -> Nat]
    BY <1>3, <2>1 DEF Once
  <2>3. charged' \in {charged, Once(charged, i)} /\ credited' \in {credited, Once(credited, i)}
    BY DEF Deliver, Charge, ChargeRefused, ChargeFails, CalcFees, AddRevenue, history
  <2>4. QED
    BY <2>1, <2>2, <2>3
<1>7. QED
  BY <1>1, <1>2, <1>4, <1>5, <1>6, WorkInv

\* The message in hand is finished and marked.
LEMMA MarkInv ==
  ASSUME ConsumerInv, NEW i \in Instances, Mark(i)
  PROVE  ConsumerInv'
<1>1. /\ step[i] = "mark"
      /\ marked' = [marked EXCEPT ![i] = next[i] + 1]
      /\ next' = [next EXCEPT ![i] = @ + 1]
      /\ finished' = finished \union {next[i]}
      /\ step' = [step EXCEPT ![i] = "wait"]
      /\ UNCHANGED <<log, missed, committed, owner, session, fetched, sessions>>
      /\ UNCHANGED <<attempted, charged, credited>>
  BY DEF Mark, Goes, logVars
<1>2. /\ session[i] # "off" /\ next[i] < fetched[i] /\ next[i] \in Offsets
  BY <1>1, MessageInHand
<1>3. /\ next \in [Instances -> Nat \ {0}] /\ fetched \in [Instances -> Nat \ {0}]
      /\ marked \in [Instances -> (Nat \ {0}) \union {None}]
      /\ step \in [Instances -> Steps]
      /\ finished \subseteq Offsets
  BY DEF ConsumerInv, TypeOK
<1>4. next'[i] = next[i] + 1 /\ marked'[i] = next[i] + 1 /\ step'[i] = "wait"
  BY <1>1, <1>3
<1>5. TypeOK'
  <2>1. finished' \subseteq Offsets
    BY <1>1, <1>2, <1>3
  <2>2. next' \in [Instances -> Nat \ {0}]
    BY <1>1, <1>3
  <2>3. marked' \in [Instances -> (Nat \ {0}) \union {None}]
    BY <1>1, <1>3
  <2>4. step' \in [Instances -> Steps]
    BY <1>1, <1>3 DEF Steps
  <2>5. QED
    BY <1>1, <2>1, <2>2, <2>3, <2>4 DEF ConsumerInv, TypeOK
<1>6. Grows
  BY <1>1, GrowsFrame
<1>7. ASSUME NEW j \in Instances PROVE Placed(j)'
  <2>1. CASE j = i
    <3>1. Placed(i) /\ next[i] \in Nat /\ fetched[i] \in Nat
      BY <1>3 DEF ConsumerInv
    <3>2. \A o \in 1 .. next[i] - 1 : o \in finished \union missed
      BY <1>2, <3>1 DEF Placed, Feed!Settled
    <3>3. \A o \in 1 .. next[i] : o \in finished' \union missed'
      BY <1>1, <3>1, <3>2
    <3>4. Feed!Settled(next[i])'
      BY <1>4, <3>1, <3>3 DEF Feed!Settled
    <3>5. End' = End
      BY <1>1 DEF End
    <3>6. QED
      BY <1>1, <1>2, <1>4, <2>1, <3>1, <3>4, <3>5 DEF Placed
  <2>2. CASE j # i
    BY <1>1, <1>3, <1>6, <2>2, PlacedFrame
  <2>3. QED
    BY <2>1, <2>2
<1>8. OwnerAhead'
  <2>1. SUFFICES ASSUME NEW j \in Instances, owner = j
                 PROVE  session[j] # "off" /\ (committed # None => committed <= next'[j])
    BY <1>1 DEF OwnerAhead
  <2>2. session[j] # "off" /\ (committed # None => committed <= next[j])
    BY <2>1 DEF ConsumerInv, OwnerAhead
  <2>3. next'[j] \in Nat /\ next[j] \in Nat /\ next'[j] >= next[j]
    BY <1>1, <1>3
  <2>4. committed # None => committed \in Nat
    BY DEF ConsumerInv, TypeOK
  <2>5. QED
    BY <2>2, <2>3, <2>4
<1>9. CursorSettled'
  BY <1>1, <1>6, CursorFrame
<1>10. QED
  BY <1>5, <1>7, <1>8, <1>9 DEF ConsumerInv

\* What a step does that commits i's marks, and maybe ends its session.
LEMMA CommitInv ==
  ASSUME ConsumerInv, NEW i \in Instances, session[i] # "off",
         committed' = Flushed(i),
         UNCHANGED <<log, missed, next, fetched, marked, step, sessions>>,
         UNCHANGED <<finished, attempted, charged, credited>>,
         \/ UNCHANGED <<owner, session>>
         \/ /\ step[i] = "wait"
            /\ owner' = IF owner = i THEN None ELSE owner
            /\ session' = [session EXCEPT ![i] = "off"]
  PROVE  ConsumerInv'
<1>1. /\ session \in [Instances -> {"off", "live", "cancelled"}]
      /\ owner \in Instances \union {None} /\ None \notin Instances
      /\ next \in [Instances -> Nat \ {0}] /\ End' = End /\ End \in Nat
      /\ None \notin Nat
  BY ConsumerAssumption DEF ConsumerInv, TypeOK, End
<1>2. TypeOK'
  <2>1. committed' \in (Nat \ {0}) \union {None}
    BY FlushedSettled
  <2>2. owner' \in Instances \union {None}
        /\ session' \in [Instances -> {"off", "live", "cancelled"}]
    BY <1>1
  <2>3. QED
    BY <2>1, <2>2 DEF ConsumerInv, TypeOK
<1>3. Grows
  BY GrowsFrame
<1>4. ASSUME NEW j \in Instances PROVE Placed(j)'
  <2>1. CASE session'[j] = session[j]
    BY <1>3, <2>1, PlacedFrame
  <2>2. CASE session'[j] # session[j]
    <3>1. j = i /\ step[i] = "wait" /\ session'[i] = "off"
      BY <1>1, <2>2
    <3>2. QED
      BY <1>1, <3>1 DEF ConsumerInv, Placed
  <2>3. QED
    BY <2>1, <2>2
<1>5. OwnerAhead'
  <2>1. SUFFICES ASSUME NEW j \in Instances, owner' = j
                 PROVE  session'[j] # "off" /\ (committed' # None => committed' <= next[j])
    BY DEF OwnerAhead
  <2>2. owner = j /\ (owner = i => UNCHANGED <<owner, session>>)
    BY <1>1, <2>1
  <2>3. session'[j] = session[j]
    BY <1>1, <2>2
  <2>4. session[j] # "off" /\ (committed # None => committed <= next[j])
    BY <2>2 DEF ConsumerInv, OwnerAhead
  <2>5. CASE committed' = committed
    BY <2>3, <2>4, <2>5
  <2>6. CASE committed' # committed
    BY <1>1, <2>2, <2>3, <2>4, <2>6, FlushedSettled
  <2>7. QED
    BY <2>5, <2>6
<1>6. CursorSettled'
  <2>1. CASE committed' = committed
    BY <1>3, <2>1, CursorFrame
  <2>2. CASE committed' # committed
    <3>1. Flushed(i) \in 1 .. End /\ Feed!Settled(Flushed(i))
      BY <2>2, FlushedSettled
    <3>2. QED
      BY <1>1, <3>1 DEF CursorSettled, Feed!Settled
  <2>3. QED
    BY <2>1, <2>2
<1>7. QED
  BY <1>2, <1>4, <1>5, <1>6 DEF ConsumerInv

\* What a step does that only ends, or takes away, the session of i.
LEMMA EndInv ==
  ASSUME ConsumerInv, NEW i \in Instances, NEW s \in {"off", "live", "cancelled"},
         session[i] # "off",
         UNCHANGED <<log, missed, committed, next, fetched, marked, sessions>>,
         UNCHANGED <<finished, attempted, charged, credited>>,
         session' = [session EXCEPT ![i] = s],
         step' = IF s = "off" THEN [step EXCEPT ![i] = "wait"] ELSE step,
         owner' = owner \/ (owner = i /\ owner' = None),
         s = "off" => owner' # i
  PROVE  ConsumerInv'
<1>1. /\ session \in [Instances -> {"off", "live", "cancelled"}]
      /\ step \in [Instances -> Steps]
      /\ owner \in Instances \union {None} /\ None \notin Instances
      /\ End' = End
  BY ConsumerAssumption DEF ConsumerInv, TypeOK, End
<1>2. TypeOK'
  <2>1. session' \in [Instances -> {"off", "live", "cancelled"}] /\ step' \in [Instances -> Steps]
    BY <1>1 DEF Steps
  <2>2. owner' \in Instances \union {None}
    BY <1>1
  <2>3. QED
    BY <2>1, <2>2 DEF ConsumerInv, TypeOK
<1>3. Grows
  BY GrowsFrame
<1>4. ASSUME NEW j \in Instances PROVE Placed(j)'
  <2>1. CASE j = i
    <3>1. Placed(i) /\ session'[i] = s /\ step'[i] \in {"wait", step[i]}
      BY <1>1 DEF ConsumerInv
    <3>2. s = "off" => step'[i] = "wait"
      BY <1>1
    <3>3. Feed!Settled(next[i])' = Feed!Settled(next[i])
      BY DEF Feed!Settled
    <3>4. QED
      BY <1>1, <2>1, <3>1, <3>2, <3>3 DEF Placed
  <2>2. CASE j # i
    BY <1>1, <1>3, <2>2, PlacedFrame
  <2>3. QED
    BY <2>1, <2>2
<1>5. OwnerAhead'
  <2>1. SUFFICES ASSUME NEW j \in Instances, owner' = j
                 PROVE  session'[j] # "off" /\ (committed # None => committed <= next[j])
    BY DEF OwnerAhead
  <2>2. owner = j
    BY <1>1, <2>1
  <2>3. session[j] # "off" /\ (committed # None => committed <= next[j])
    BY <2>2 DEF ConsumerInv, OwnerAhead
  <2>4. QED
    BY <1>1, <2>1, <2>3
<1>6. CursorSettled'
  BY <1>3, CursorFrame
<1>7. QED
  BY <1>2, <1>4, <1>5, <1>6 DEF ConsumerInv

\* Every step of the specification preserves the invariant.
LEMMA InvStep ==
  ASSUME ConsumerInv, [Next]_vars
  PROVE  ConsumerInv'
<1>1. CASE Publish
  BY <1>1, PublishInv
<1>2. ASSUME NEW i \in Instances, Join(i) PROVE ConsumerInv'
  BY <1>2, JoinInv
<1>3. ASSUME NEW i \in Instances, Fetch(i) PROVE ConsumerInv'
  BY <1>3, FetchInv
<1>4. ASSUME NEW i \in Instances, Process(i) PROVE ConsumerInv'
  BY <1>4, ProcessInv, MarkInv DEF Process
<1>5. ASSUME NEW i \in Instances, AutoCommit(i) PROVE ConsumerInv'
  <2>1. /\ session[i] # "off" /\ committed' = Flushed(i)
        /\ UNCHANGED <<log, missed, next, fetched, marked, step, sessions>>
        /\ UNCHANGED <<finished, attempted, charged, credited>>
        /\ UNCHANGED <<owner, session>>
    BY <1>5 DEF AutoCommit, logVars, place, history
  <2>2. QED
    BY <2>1, CommitInv
<1>6. ASSUME NEW i \in Instances, Leave(i) PROVE ConsumerInv'
  <2>1. /\ session[i] # "off" /\ committed' = Flushed(i) /\ step[i] = "wait"
        /\ UNCHANGED <<log, missed, next, fetched, marked, step, sessions>>
        /\ UNCHANGED <<finished, attempted, charged, credited>>
        /\ owner' = IF owner = i THEN None ELSE owner
        /\ session' = [session EXCEPT ![i] = "off"]
    BY <1>6 DEF Leave, logVars, place, history
  <2>2. QED
    BY <2>1, CommitInv
<1>7. ASSUME NEW i \in Instances, Cancel(i) PROVE ConsumerInv'
  <2>1. /\ session[i] # "off"
        /\ UNCHANGED <<log, missed, committed, next, fetched, marked, sessions>>
        /\ UNCHANGED <<finished, attempted, charged, credited>>
        /\ session' = [session EXCEPT ![i] = "cancelled"]
        /\ step' = step /\ owner' = owner
    BY <1>7 DEF Cancel, Live, logVars, place, history
  <2>2. QED
    BY <2>1, EndInv
<1>8. ASSUME NEW i \in Instances, Evict(i) PROVE ConsumerInv'
  <2>1. /\ owner = i /\ owner' = None
        /\ UNCHANGED <<log, missed, committed, next, fetched, marked, sessions>>
        /\ UNCHANGED <<finished, attempted, charged, credited>>
        /\ session' = session /\ step' = step
    BY <1>8 DEF Evict, logVars, place, history
  <2>2. /\ session[i] # "off" /\ session[i] \in {"off", "live", "cancelled"}
        /\ session' = [session EXCEPT ![i] = session[i]]
    BY <2>1 DEF ConsumerInv, OwnerAhead, TypeOK
  <2>3. QED
    BY <2>1, <2>2, EndInv
<1>9. ASSUME NEW i \in Instances, Crash(i) PROVE ConsumerInv'
  <2>1. /\ session[i] # "off"
        /\ UNCHANGED <<log, missed, committed, next, fetched, marked, sessions>>
        /\ UNCHANGED <<finished, attempted, charged, credited>>
        /\ session' = [session EXCEPT ![i] = "off"]
        /\ step' = [step EXCEPT ![i] = "wait"]
        /\ owner' = IF owner = i THEN None ELSE owner
    BY <1>9 DEF Crash, logVars, place, history
  <2>2. None # i
    BY ConsumerAssumption
  <2>3. QED
    BY <2>1, <2>2, EndInv
<1>10. CASE UNCHANGED vars
  BY <1>10 DEF vars, ConsumerInv, TypeOK, Placed, OwnerAhead, CursorSettled, Feed!Settled, End
<1>11. Idle => UNCHANGED vars
  BY DEF Idle
<1>12. QED
  BY <1>1, <1>2, <1>3, <1>4, <1>5, <1>6, <1>7, <1>8, <1>9, <1>10, <1>11 DEF Next

\* What holds of the group in every reachable state: a member's marks and the message
\* it reads next have only settled events behind them, and no owner reads behind the
\* committed offset.
THEOREM ConsumerInvariant == Spec => []ConsumerInv
<1>1. Init => ConsumerInv
  BY InitInv
<1>2. ConsumerInv /\ [Next]_vars => ConsumerInv'
  BY InvStep
<1>3. QED
  BY <1>1, <1>2, PTL DEF Spec

\* The committed offset passes no event that no member has finished with, for any
\* number of members, sessions and faults.
THEOREM GroupSkipsNothing == Spec => []NothingSkipped
<1>1. ConsumerInv => NothingSkipped
  BY DEF ConsumerInv, CursorSettled, NothingSkipped, Feed!Settled
<1>2. QED
  BY <1>1, ConsumerInvariant, PTL

------------------------------------------------------------------------------
(* The refinement. *)

\* An offset that is sent moves the cursor of the feed, or leaves it where it is.
LEMMA CommitMovesCursor ==
  ASSUME ConsumerInv, NEW i \in Instances, session[i] # "off",
         committed' = Flushed(i), UNCHANGED <<log, finished, missed>>
  PROVE  Feed!MoveCursor \/ UNCHANGED Feed!feedVars
<1>1. CASE committed' = committed
  BY <1>1 DEF Feed!feedVars
<1>2. CASE committed' # committed
  <2>1. /\ committed' \in 1 .. End /\ Feed!Settled(committed')
        /\ committed = None \/ committed' > committed
    BY <1>2, FlushedSettled
  <2>2. QED
    BY <2>1 DEF Feed!MoveCursor, End
<1>3. QED
  BY <1>1, <1>2

\* Every step of the group is a step of the feed, or leaves it as it is.
LEMMA FeedStep ==
  ASSUME ConsumerInv, [Next]_vars
  PROVE  [Feed!FeedNext]_Feed!feedVars
<1>1. CASE Publish
  BY <1>1 DEF Publish, history, Feed!FeedNext, Feed!Announce
<1>2. ASSUME NEW i \in Instances, Join(i) PROVE [Feed!FeedNext]_Feed!feedVars
  <2>1. CASE committed = None
    BY <1>2, <2>1 DEF Join, history, Feed!FeedNext, Feed!BeginAtEnd, Feed!Published
  <2>2. CASE committed # None
    BY <1>2, <2>2 DEF Join, history, Feed!feedVars
  <2>3. QED
    BY <2>1, <2>2
<1>3. ASSUME NEW i \in Instances, Process(i) PROVE [Feed!FeedNext]_Feed!feedVars
  <2>1. CASE Mark(i)
    <3>1. next[i] \in 1 .. Len(log)
      BY <2>1, MessageInHand DEF Mark
    <3>2. finished' = finished \union {next[i]} /\ UNCHANGED <<log, committed, missed>>
      BY <2>1 DEF Mark, logVars
    <3>3. QED
      BY <3>1, <3>2 DEF Feed!FeedNext, Feed!Finish, Feed!Published
  <2>2. CASE ~Mark(i)
    <3>1. UNCHANGED <<log, committed, finished, missed>>
      BY <1>3, <2>2 DEF Process, Deliver, Charge, ChargeRefused, ChargeFails, CalcFees,
                        AddRevenue, Elsewhere, logVars, history
    <3>2. QED
      BY <3>1 DEF Feed!feedVars
  <2>3. QED
    BY <2>1, <2>2
<1>4. ASSUME NEW i \in Instances, AutoCommit(i) \/ Leave(i)
      PROVE  [Feed!FeedNext]_Feed!feedVars
  <2>1. /\ session[i] # "off" /\ committed' = Flushed(i)
        /\ UNCHANGED <<log, finished, missed>>
    BY <1>4 DEF AutoCommit, Leave, logVars, history
  <2>2. QED
    BY <2>1, CommitMovesCursor DEF Feed!FeedNext
<1>5. ASSUME NEW i \in Instances, Fetch(i) \/ Cancel(i) \/ Evict(i) \/ Crash(i)
      PROVE  [Feed!FeedNext]_Feed!feedVars
  BY <1>5 DEF Fetch, Cancel, Evict, Crash, logVars, history, Feed!feedVars
<1>6. CASE UNCHANGED vars
  BY <1>6 DEF vars, Feed!feedVars
<1>7. Idle => UNCHANGED vars
  BY DEF Idle
<1>8. QED
  BY <1>1, <1>2, <1>3, <1>4, <1>5, <1>6, <1>7 DEF Next

\* The group implements the feed: whatever rebalances, evictions and crashes, its
\* cursor only moves forward and only over settled events.
THEOREM GroupImplementsFeed == Spec => ImplementsFeed
<1>1. Init => Feed!FeedInit
  BY DEF Init, Feed!FeedInit
<1>2. ConsumerInv /\ [Next]_vars => [Feed!FeedNext]_Feed!feedVars
  BY FeedStep
<1>3. QED
  BY <1>1, <1>2, ConsumerInvariant, PTL DEF Spec, ImplementsFeed, Feed!FeedSpec

------------------------------------------------------------------------------
(* Charges and credits. *)

\* Sessions that have yet to charge event o, and members that have charged it and are
\* about to credit it.
Uncharged(o) ==
  {i \in Instances :
     /\ session[i] # "off"
     /\ next[i] < o \/ (next[i] = o /\ step[i] \in {"wait", "spend"})}

Uncredited(o) == {i \in Instances : step[i] \in {"fees", "revenue"} /\ next[i] = o}

\* What makes CreditsFollowCharges inductive: a session charges an event once, a charge
\* is credited once.
Counted(o) ==
  /\ IsFiniteSet(Uncharged(o)) /\ IsFiniteSet(Uncredited(o))
  /\ credited[o] + Cardinality(Uncredited(o)) <= charged[o]
  /\ charged[o] + Cardinality(Uncharged(o)) <= sessions

CountInv == \A o \in Offsets : Counted(o)

LEMMA CountInvInit == Init => CountInv
<1>1. SUFFICES ASSUME Init, NEW o \in Offsets PROVE Counted(o)
  BY DEF CountInv
<1>2. Uncharged(o) = {} /\ Uncredited(o) = {}
  BY <1>1 DEF Init, Uncharged, Uncredited
<1>3. charged[o] = 0 /\ credited[o] = 0 /\ sessions = 0
  BY <1>1 DEF Init
<1>4. QED
  BY <1>2, <1>3, FS_EmptySet DEF Counted

\* What the two sets may do: lose members, gain the one that moves, lose that one.
LEMMA FewerCounted ==
  ASSUME NEW S, NEW T, IsFiniteSet(S), T \subseteq S
  PROVE  IsFiniteSet(T) /\ Cardinality(T) <= Cardinality(S)
         /\ Cardinality(T) \in Nat /\ Cardinality(S) \in Nat
  BY FS_Subset, FS_CardinalityType

LEMMA OneMoreCounted ==
  ASSUME NEW S, NEW T, NEW i, IsFiniteSet(S), T \subseteq S \union {i}
  PROVE  IsFiniteSet(T) /\ Cardinality(T) <= Cardinality(S) + 1
         /\ Cardinality(T) \in Nat /\ Cardinality(S) \in Nat
<1>1. /\ IsFiniteSet(S \union {i}) /\ Cardinality(S) \in Nat
      /\ Cardinality(S \union {i}) <= Cardinality(S) + 1
  BY FS_AddElement, FS_CardinalityType
<1>2. /\ IsFiniteSet(T) /\ Cardinality(T) <= Cardinality(S \union {i})
      /\ Cardinality(T) \in Nat /\ Cardinality(S \union {i}) \in Nat
  BY <1>1, FewerCounted
<1>3. QED
  BY <1>1, <1>2

LEMMA OneLessCounted ==
  ASSUME NEW S, NEW T, NEW i, IsFiniteSet(S), i \in S, i \notin T, T \subseteq S
  PROVE  IsFiniteSet(T) /\ Cardinality(T) <= Cardinality(S) - 1
         /\ Cardinality(T) \in Nat /\ Cardinality(S) \in Nat
<1>1. /\ IsFiniteSet(S \ {i}) /\ Cardinality(S) \in Nat
      /\ Cardinality(S \ {i}) = Cardinality(S) - 1
  BY FS_RemoveElement, FS_CardinalityType
<1>2. /\ IsFiniteSet(T) /\ Cardinality(T) <= Cardinality(S \ {i})
      /\ Cardinality(T) \in Nat
  <2>1. T \subseteq S \ {i}
    OBVIOUS
  <2>2. QED
    BY <1>1, <2>1, FewerCounted
<1>3. QED
  BY <1>1, <1>2

\* A step that neither charges nor credits o, and begins no session.
LEMMA CountedQuiet ==
  ASSUME ConsumerInv, NEW o \in Offsets, Counted(o), sessions' = sessions,
         charged'[o] = charged[o], credited'[o] = credited[o],
         Uncharged(o)' \subseteq Uncharged(o), Uncredited(o)' \subseteq Uncredited(o)
  PROVE  Counted(o)'
<1>1. charged[o] \in Nat /\ credited[o] \in Nat /\ sessions \in Nat
  BY ConsumerAssumption DEF ConsumerInv, TypeOK
<1>2. /\ IsFiniteSet(Uncharged(o)') /\ IsFiniteSet(Uncredited(o)')
      /\ Cardinality(Uncharged(o)') <= Cardinality(Uncharged(o))
      /\ Cardinality(Uncredited(o)') <= Cardinality(Uncredited(o))
      /\ Cardinality(Uncharged(o)') \in Nat /\ Cardinality(Uncredited(o)') \in Nat
      /\ Cardinality(Uncharged(o)) \in Nat /\ Cardinality(Uncredited(o)) \in Nat
  BY FewerCounted DEF Counted
<1>3. QED
  BY <1>1, <1>2 DEF Counted

\* A session that begins may charge every event it will read, once.
LEMMA JoinCounts ==
  ASSUME ConsumerInv, NEW i \in Instances, Join(i), NEW o \in Offsets, Counted(o)
  PROVE  Counted(o)'
<1>1. /\ sessions' = sessions + 1 /\ charged' = charged /\ credited' = credited
      /\ step' = step /\ session[i] = "off"
      /\ session' = [session EXCEPT ![i] = "live"]
      /\ \E n : next' = [next EXCEPT ![i] = n]
  BY DEF Join, history
<1>2. /\ session \in [Instances -> {"off", "live", "cancelled"}]
      /\ next \in [Instances -> Nat \ {0}] /\ step[i] = "wait"
      /\ charged[o] \in Nat /\ credited[o] \in Nat /\ sessions \in Nat
  BY <1>1, ConsumerAssumption DEF ConsumerInv, TypeOK, Placed
<1>3. \A j \in Instances \ {i} : session'[j] = session[j] /\ next'[j] = next[j]
  BY <1>1, <1>2
<1>4. Uncharged(o)' \subseteq Uncharged(o) \union {i}
  BY <1>1, <1>3 DEF Uncharged
<1>5. Uncredited(o)' \subseteq Uncredited(o)
  BY <1>1, <1>2, <1>3 DEF Uncredited
<1>6. /\ IsFiniteSet(Uncharged(o)')
      /\ Cardinality(Uncharged(o)') <= Cardinality(Uncharged(o)) + 1
      /\ Cardinality(Uncharged(o)') \in Nat /\ Cardinality(Uncharged(o)) \in Nat
  BY <1>4, OneMoreCounted DEF Counted
<1>7. /\ IsFiniteSet(Uncredited(o)')
      /\ Cardinality(Uncredited(o)') <= Cardinality(Uncredited(o))
      /\ Cardinality(Uncredited(o)') \in Nat /\ Cardinality(Uncredited(o)) \in Nat
  BY <1>5, FewerCounted DEF Counted
<1>8. QED
  BY <1>1, <1>2, <1>6, <1>7 DEF Counted

\* A message moves from one step of processMessage to another: it is charged only on the
\* way from "spend", and credited only on the way from "revenue".
LEMMA WorkCounts ==
  ASSUME ConsumerInv, NEW i \in Instances, NEW s \in Steps, NEW o \in Offsets, Counted(o),
         Goes(i, s), UNCHANGED <<session, next, sessions>>, session[i] # "off",
         next[i] = o,
         \/ /\ charged'[o] = charged[o] /\ credited'[o] = credited[o]
            /\ s \in {"wait", "spend"} => step[i] \in {"wait", "spend"}
            /\ s \in {"fees", "revenue"} => step[i] \in {"fees", "revenue"}
         \/ /\ charged'[o] = charged[o] + 1 /\ credited'[o] = credited[o]
            /\ step[i] = "spend" /\ s \notin {"wait", "spend"}
         \/ /\ charged'[o] = charged[o] /\ credited'[o] = credited[o] + 1
            /\ step[i] = "revenue" /\ s = "mark"
  PROVE  Counted(o)'
<1>1. /\ step \in [Instances -> Steps] /\ step' = [step EXCEPT ![i] = s]
      /\ charged[o] \in Nat /\ credited[o] \in Nat /\ sessions \in Nat
  BY ConsumerAssumption DEF ConsumerInv, TypeOK, Goes
<1>2. step'[i] = s /\ \A j \in Instances \ {i} : step'[j] = step[j]
  BY <1>1
<1>3. CASE /\ charged'[o] = charged[o] /\ credited'[o] = credited[o]
           /\ s \in {"wait", "spend"} => step[i] \in {"wait", "spend"}
           /\ s \in {"fees", "revenue"} => step[i] \in {"fees", "revenue"}
  <2>1. Uncharged(o)' \subseteq Uncharged(o) /\ Uncredited(o)' \subseteq Uncredited(o)
    BY <1>2, <1>3 DEF Uncharged, Uncredited
  <2>2. QED
    BY <1>3, <2>1, CountedQuiet
<1>4. CASE /\ charged'[o] = charged[o] + 1 /\ credited'[o] = credited[o]
           /\ step[i] = "spend" /\ s \notin {"wait", "spend"}
  <2>1. i \in Uncharged(o) /\ i \notin Uncharged(o)' /\ Uncharged(o)' \subseteq Uncharged(o)
    <3>1. next[i] \in Nat
      BY DEF ConsumerInv, TypeOK
    <3>2. QED
      BY <1>2, <1>4, <3>1 DEF Uncharged
  <2>2. Uncredited(o)' \subseteq Uncredited(o) \union {i}
    BY <1>2 DEF Uncredited
  <2>3. /\ IsFiniteSet(Uncharged(o)')
        /\ Cardinality(Uncharged(o)') <= Cardinality(Uncharged(o)) - 1
        /\ Cardinality(Uncharged(o)') \in Nat /\ Cardinality(Uncharged(o)) \in Nat
    BY <2>1, OneLessCounted DEF Counted
  <2>4. /\ IsFiniteSet(Uncredited(o)')
        /\ Cardinality(Uncredited(o)') <= Cardinality(Uncredited(o)) + 1
        /\ Cardinality(Uncredited(o)') \in Nat /\ Cardinality(Uncredited(o)) \in Nat
    BY <2>2, OneMoreCounted DEF Counted
  <2>5. QED
    BY <1>1, <1>4, <2>3, <2>4 DEF Counted
<1>5. CASE /\ charged'[o] = charged[o] /\ credited'[o] = credited[o] + 1
           /\ step[i] = "revenue" /\ s = "mark"
  <2>1. Uncharged(o)' \subseteq Uncharged(o)
    BY <1>2, <1>5 DEF Uncharged
  <2>2. i \in Uncredited(o) /\ i \notin Uncredited(o)' /\ Uncredited(o)' \subseteq Uncredited(o)
    BY <1>2, <1>5 DEF Uncredited
  <2>3. /\ IsFiniteSet(Uncharged(o)')
        /\ Cardinality(Uncharged(o)') <= Cardinality(Uncharged(o))
        /\ Cardinality(Uncharged(o)') \in Nat /\ Cardinality(Uncharged(o)) \in Nat
    BY <2>1, FewerCounted DEF Counted
  <2>4. /\ IsFiniteSet(Uncredited(o)')
        /\ Cardinality(Uncredited(o)') <= Cardinality(Uncredited(o)) - 1
        /\ Cardinality(Uncredited(o)') \in Nat /\ Cardinality(Uncredited(o)) \in Nat
    BY <2>2, OneLessCounted DEF Counted
  <2>5. QED
    BY <1>1, <1>5, <2>3, <2>4 DEF Counted
<1>6. QED
  BY <1>3, <1>4, <1>5


\* A step that moves member i only, and charges and credits no event but its own.
LEMMA OtherEventCounts ==
  ASSUME ConsumerInv, NEW i \in Instances, NEW s \in Steps, NEW o \in Offsets, Counted(o),
         Goes(i, s), UNCHANGED <<session, next, sessions>>, next[i] # o,
         charged'[o] = charged[o], credited'[o] = credited[o]
  PROVE  Counted(o)'
<1>1. \A j \in Instances \ {i} : step'[j] = step[j]
  BY DEF ConsumerInv, TypeOK, Goes
<1>2. Uncharged(o)' \subseteq Uncharged(o)
  BY <1>1 DEF Uncharged
<1>3. Uncredited(o)' \subseteq Uncredited(o)
  BY <1>1 DEF Uncredited
<1>4. QED
  BY <1>2, <1>3, CountedQuiet

\* processMessage, before the mark.
LEMMA ProcessCounts ==
  ASSUME ConsumerInv, NEW i \in Instances, NEW o \in Offsets, Counted(o),
         \/ Deliver(i) \/ Charge(i) \/ ChargeRefused(i) \/ ChargeFails(i)
         \/ CalcFees(i) \/ AddRevenue(i)
  PROVE  Counted(o)'
<1>1. /\ UNCHANGED <<session, next, sessions>>
      /\ charged \in [Offsets -> Nat] /\ credited \in [Offsets -> Nat]
  BY DEF Deliver, Charge, ChargeRefused, ChargeFails, CalcFees, AddRevenue,
         Elsewhere, place, ConsumerInv, TypeOK
<1>2. /\ charged' \in {charged, Once(charged, i)} /\ credited' \in {credited, Once(credited, i)}
      /\ \E s \in Steps : Goes(i, s)
  BY DEF Deliver, Charge, ChargeRefused, ChargeFails, CalcFees, AddRevenue, history, Steps
<1>3. CASE next[i] # o
  <2>1. charged'[o] = charged[o] /\ credited'[o] = credited[o]
    BY <1>1, <1>2, <1>3 DEF Once
  <2>2. QED
    BY <1>1, <1>2, <1>3, <2>1, OtherEventCounts
<1>4. CASE next[i] = o
  <2>1. Once(charged, i)[o] = charged[o] + 1 /\ Once(credited, i)[o] = credited[o] + 1
    BY <1>1, <1>4 DEF Once
  <2>2. CASE Deliver(i)
    <3>1. PICK s \in {"mark", "spend"} : Goes(i, s)
      BY <2>2 DEF Deliver
    <3>2. step[i] = "wait" /\ session[i] # "off" /\ charged' = charged /\ credited' = credited
      BY <2>2 DEF Deliver
    <3>3. QED
      BY <1>1, <1>4, <3>1, <3>2, WorkCounts DEF Steps
  <2>3. CASE ~Deliver(i)
    <3>1. step[i] # "wait"
      BY <2>3 DEF Charge, ChargeRefused, ChargeFails, CalcFees, AddRevenue
    <3>2. session[i] # "off"
      BY <3>1, MessageInHand
    <3>3. CASE Charge(i)
      <4>1. PICK s \in {"fees", "mark"} : Goes(i, s)
        BY <3>3 DEF Charge
      <4>2. step[i] = "spend" /\ charged' = Once(charged, i) /\ credited' = credited
        BY <3>3 DEF Charge
      <4>3. QED
        BY <1>1, <1>4, <2>1, <3>2, <4>1, <4>2, WorkCounts DEF Steps
    <3>4. CASE ChargeRefused(i) \/ ChargeFails(i)
      <4>1. /\ Goes(i, "mark") /\ step[i] = "spend" /\ credited' = credited
            /\ charged' \in {charged, Once(charged, i)}
        BY <3>4 DEF ChargeRefused, ChargeFails, history
      <4>2. charged'[o] = charged[o] \/ charged'[o] = charged[o] + 1
        BY <2>1, <4>1
      <4>3. QED
        BY <1>1, <1>4, <3>2, <4>1, <4>2, WorkCounts DEF Steps
    <3>5. CASE CalcFees(i)
      <4>1. PICK s \in {"revenue", "mark"} : Goes(i, s)
        BY <3>5 DEF CalcFees
      <4>2. step[i] = "fees" /\ charged' = charged /\ credited' = credited
        BY <3>5 DEF CalcFees, history
      <4>3. QED
        BY <1>1, <1>4, <3>2, <4>1, <4>2, WorkCounts DEF Steps
    <3>6. CASE AddRevenue(i)
      <4>1. /\ Goes(i, "mark") /\ step[i] = "revenue" /\ charged' = charged
            /\ credited' \in {credited, Once(credited, i)}
        BY <3>6 DEF AddRevenue
      <4>2. credited'[o] = credited[o] \/ credited'[o] = credited[o] + 1
        BY <2>1, <4>1
      <4>3. QED
        BY <1>1, <1>4, <3>2, <4>1, <4>2, WorkCounts DEF Steps
    <3>7. QED
      BY <2>3, <3>3, <3>4, <3>5, <3>6
  <2>4. QED
    BY <2>2, <2>3
<1>5. QED
  BY <1>3, <1>4

\* The steps around processMessage charge and credit nothing.
LEMMA RestCounts ==
  ASSUME ConsumerInv, NEW i \in Instances, NEW o \in Offsets, Counted(o),
         \/ Fetch(i) \/ Mark(i) \/ AutoCommit(i) \/ Cancel(i) \/ Leave(i) \/ Evict(i) \/ Crash(i)
  PROVE  Counted(o)'
<1>1. UNCHANGED <<charged, credited, sessions>>
  BY DEF Fetch, Mark, AutoCommit, Cancel, Leave, Evict, Crash, history
<1>2. /\ session \in [Instances -> {"off", "live", "cancelled"}] /\ step \in [Instances -> Steps]
      /\ next \in [Instances -> Nat \ {0}] /\ o \in Nat
      /\ Placed(i)
  BY ConsumerAssumption DEF ConsumerInv, TypeOK, Offsets
<1>3. \A j \in Instances \ {i} :
        session'[j] = session[j] /\ step'[j] = step[j] /\ next'[j] = next[j]
  BY <1>2 DEF Fetch, Mark, AutoCommit, Cancel, Leave, Evict, Crash, Goes, place
<1>4. CASE Mark(i)
  <2>1. /\ step[i] = "mark" /\ step'[i] = "wait" /\ next'[i] = next[i] + 1
        /\ session' = session
    BY <1>2, <1>4 DEF Mark, Goes
  <2>2. i \in Uncharged(o)' => i \in Uncharged(o)
    BY <1>2, <2>1 DEF Uncharged
  <2>3. i \notin Uncredited(o)'
    BY <2>1 DEF Uncredited
  <2>4. Uncharged(o)' \subseteq Uncharged(o) /\ Uncredited(o)' \subseteq Uncredited(o)
    BY <1>3, <2>2, <2>3 DEF Uncharged, Uncredited
  <2>5. QED
    BY <1>1, <2>4, CountedQuiet
<1>5. CASE ~Mark(i)
  <2>1. /\ next'[i] = next[i]
        /\ session[i] = "off" => session'[i] = "off"
        /\ step'[i] = step[i] \/ (session'[i] = "off" /\ step'[i] = "wait")
    BY <1>2, <1>5 DEF Fetch, AutoCommit, Cancel, Leave, Evict, Crash, place, Live
  <2>2. Uncharged(o)' \subseteq Uncharged(o) /\ Uncredited(o)' \subseteq Uncredited(o)
    BY <1>3, <2>1 DEF Uncharged, Uncredited
  <2>3. QED
    BY <1>1, <2>2, CountedQuiet
<1>6. QED
  BY <1>4, <1>5

LEMMA CountInvStep == ConsumerInv /\ CountInv /\ [Next]_vars => CountInv'
<1>1. SUFFICES ASSUME ConsumerInv, CountInv, [Next]_vars, NEW o \in Offsets
               PROVE  Counted(o)'
  BY DEF CountInv
<1>2. Counted(o)
  BY <1>1 DEF CountInv
<1>3. CASE UNCHANGED vars \/ Publish
  <2>1. UNCHANGED <<charged, credited, sessions, session, step, next>>
    BY <1>3 DEF vars, Publish, history, place
  <2>2. QED
    BY <1>2, <2>1 DEF Counted, Uncharged, Uncredited
<1>4. ASSUME NEW i \in Instances, Process(i) PROVE Counted(o)'
  BY <1>1, <1>2, <1>4, ProcessCounts, RestCounts DEF Process
<1>5. ASSUME NEW i \in Instances,
             \/ Join(i) \/ Fetch(i) \/ AutoCommit(i) \/ Cancel(i) \/ Leave(i) \/ Evict(i) \/ Crash(i)
      PROVE  Counted(o)'
  BY <1>1, <1>2, <1>5, JoinCounts, RestCounts
<1>6. QED
  BY <1>1, <1>3, <1>4, <1>5 DEF Next, Idle

\* Nobody is credited for an event more often than somebody was charged for it, nor charged
\* more often than there were sessions, for any number of members, events and faults.
THEOREM GroupCreditsFollowCharges == Spec => []CreditsFollowCharges
<1>1. ConsumerInv /\ CountInv => CreditsFollowCharges
  <2>1. SUFFICES ASSUME ConsumerInv, CountInv, NEW o \in Offsets
                 PROVE  credited[o] <= charged[o] /\ charged[o] <= sessions
    BY DEF CreditsFollowCharges
  <2>2. Counted(o) /\ charged[o] \in Nat /\ credited[o] \in Nat /\ sessions \in Nat
    BY <2>1, ConsumerAssumption DEF CountInv, ConsumerInv, TypeOK
  <2>3. Cardinality(Uncharged(o)) \in Nat /\ Cardinality(Uncredited(o)) \in Nat
    BY <2>2, FS_CardinalityType DEF Counted
  <2>4. QED
    BY <2>2, <2>3 DEF Counted
<1>2. ConsumerInv /\ [Next]_vars => ConsumerInv'
  BY InvStep
<1>3. QED
  BY <1>1, <1>2, InitInv, CountInvInit, CountInvStep, PTL DEF Spec

------------------------------------------------------------------------------
(* The pipeline. *)

\* A row of either journal is for a published event, and holds what the event's price makes it.
SpendRow(e) ==
  e.call = RechargeRef \/ (e.call \in 1 .. Len(log) /\ e.amount = -Stored(log[e.call].price))

RevenueRow(e) ==
  /\ e.call \in 1 .. Len(log)
  /\ Net(log[e.call].price, Rate) > 0
  /\ e.amount = Net(log[e.call].price, Rate)

Rows ==
  /\ \A n \in DOMAIN ledger[Advertiser] : SpendRow(ledger[Advertiser][n])
  /\ \A n \in DOMAIN journal[Publisher] : RevenueRow(journal[Publisher][n])

\* How often the advertiser was charged for an event, those a lost reply hides included.
Taken == [o \in Offsets |-> charged[o] + hidden[o]]

\* Charges and credits are what the journals, and the debits of Redis, show of them.
Posts(o) ==
  /\ Taken[o] = Cardinality(Postings(ledger[Advertiser], o)) + debits[o]
  /\ credited[o] = Cardinality(Postings(journal[Publisher], o))
  /\ o \notin 1 .. Len(log) => debits[o] = 0

\* The totals of the two accounts and of the debits, event by event.
Totals ==
  /\ acct[Advertiser].spent + SumFunctionOnSet([o \in Offsets |-> debits[o] * Paid(o)], Offsets)
       = SumFunctionOnSet([o \in Offsets |-> Taken[o] * Paid(o)], Offsets)
  /\ pub[Publisher].pending + FeesEarned
       = SumFunctionOnSet([o \in Offsets |-> credited[o] * Paid(o)], Offsets)

StoresTypeOK ==
  /\ acct \in [{Advertiser} -> [exists : BOOLEAN, balance : Int, recharged : Int, spent : Nat]]
  /\ ledger \in [{Advertiser} -> Seq([call : Nat, type : Adv!TxTypes, amount : Int, after : Int])]
  /\ pub \in [{Publisher} -> [exists : BOOLEAN, pending : Nat, settled : Int, withdrawn : Int]]
  /\ journal \in [{Publisher} -> Seq([call : Nat, amount : Int, after : Int])]
  /\ debits \in [Offsets -> Nat] /\ hidden \in [Offsets -> Nat]

\* The inductive invariant of PipelineSpec.
PipelineInv ==
  /\ ConsumerInv /\ CountInv
  /\ StoresTypeOK /\ Rows /\ Totals
  /\ \A o \in Offsets : Posts(o)

------------------------------------------------------------------------------
(* What a step of the pipeline is to the consumer, and to the log. *)

LEMMA PipelineConsumes == PipelineInit => Init
BY DEF PipelineInit

\* Every step of the pipeline is a step of the consumer group, or leaves it alone.
LEMMA PipelineStepConsumes == [PipelineNext]_pipelineVars => [Next]_vars
<1>1. SUFFICES ASSUME [PipelineNext]_pipelineVars PROVE [Next]_vars
  OBVIOUS
<1>2. CASE UNCHANGED pipelineVars
  BY <1>2 DEF pipelineVars
<1>3. CASE Recharge \/ Sync \/ SyncFails \/ Flush
  BY <1>3 DEF Recharge, Sync, SyncFails, Flush
<1>4. ASSUME NEW i \in Instances,
             DeliverStep(i) \/ LuaDebit(i) \/ LuaDeclined(i) \/ ChargeStep(i) \/ CreditStep(i)
      PROVE  [Next]_vars
  <2>1. Process(i) \/ UNCHANGED vars
    BY <1>4 DEF DeliverStep, LuaDebit, LuaDeclined, ReplyLost, ChargeStep, CreditStep, Process
  <2>2. QED
    BY <2>1 DEF Next
<1>5. CASE ElsewhereStep
  <2>1. CASE Publish \/ Idle
    BY <2>1 DEF Next
  <2>2. ASSUME NEW i \in Instances,
               \/ Join(i) \/ Fetch(i) \/ CalcFees(i) \/ Mark(i) \/ AutoCommit(i)
               \/ Cancel(i) \/ Leave(i) \/ Evict(i) \/ Crash(i)
        PROVE  Next
    <3>1. CASE CalcFees(i) \/ Mark(i)
      BY <3>1 DEF Process, Next
    <3>2. CASE ~(CalcFees(i) \/ Mark(i))
      BY <2>2, <3>2 DEF Next
    <3>3. QED
      BY <3>1, <3>2
  <2>3. QED
    BY <1>5, <2>1, <2>2 DEF ElsewhereStep
<1>6. QED
  BY <1>1, <1>2, <1>3, <1>4, <1>5 DEF PipelineNext

\* Published events stay as they are.
LogKept == \A o \in 1 .. Len(log) : o \in 1 .. Len(log') /\ log'[o] = log[o]

LEMMA LogOnlyGrows == ASSUME ConsumerInv, [Next]_vars PROVE LogKept
<1>1. log \in Seq(Event) /\ Len(log) \in Nat
  BY DEF ConsumerInv, TypeOK
<1>2. CASE Publish
  <2>1. PICK e \in Event : log' = Append(log, e)
    BY <1>2 DEF Publish
  <2>2. QED
    BY <1>1, <2>1 DEF LogKept
<1>3. CASE log' = log
  BY <1>3 DEF LogKept
<1>4. CASE ~Publish
  <2>1. log' = log
    BY <1>4 DEF Next, vars, Idle, Process, Join, Fetch, Deliver, Charge, ChargeRefused,
       ChargeFails, CalcFees, AddRevenue, Mark, AutoCommit, Cancel, Leave, Evict, Crash,
       Elsewhere, logVars
  <2>2. QED
    BY <2>1, <1>3
<1>5. QED
  BY <1>2, <1>4

\* Facts about events and their prices.
LEMMA EventFacts ==
  ASSUME PipelineInv
  PROVE  /\ log \in Seq(Event) /\ Len(log) \in Nat /\ 1 .. Len(log) \subseteq Offsets
         /\ \A o \in 1 .. Len(log) : log[o].price \in Nat
         /\ \A o \in Offsets : Paid(o) \in Nat /\ charged[o] \in Nat /\ credited[o] \in Nat
         /\ debits \in [Offsets -> Nat] /\ Taken \in [Offsets -> Nat]
         /\ \A o \in Offsets : hidden[o] \in Nat /\ Taken[o] = charged[o] + hidden[o]
         /\ Offsets \subseteq Nat \ {0} /\ IsFiniteSet(Offsets)
         /\ Rate \in FeeRates
<1>1. /\ log \in Seq(Event) /\ Len(log) \in Nat /\ Len(log) <= MaxEvents /\ MaxEvents \in Nat
      /\ charged \in [Offsets -> Nat] /\ credited \in [Offsets -> Nat]
  BY ConsumerAssumption DEF PipelineInv, ConsumerInv, TypeOK
<1>2. ASSUME NEW o \in 1 .. Len(log) PROVE log[o].price \in Nat
  <2>1. log[o] \in Event
    BY <1>1
  <2>2. QED
    BY <2>1, ConsumerAssumption DEF Event
<1>3. \A o \in 1 .. Len(log) : Stored(log[o].price) \in Nat
  BY <1>2, StoredNat
<1>4. \A o \in Offsets : Paid(o) \in Nat
  BY <1>3 DEF Paid
<1>5. IsFiniteSet(Offsets)
  BY <1>1, FS_Interval DEF Offsets
<1>6. debits \in [Offsets -> Nat] /\ hidden \in [Offsets -> Nat]
  BY DEF PipelineInv, StoresTypeOK
<1>7. Taken \in [Offsets -> Nat] /\ \A o \in Offsets : Taken[o] = charged[o] + hidden[o]
  BY <1>1, <1>6 DEF Taken
<1>8. \A o \in Offsets : charged[o] \in Nat /\ credited[o] \in Nat /\ hidden[o] \in Nat
  BY <1>1, <1>6
<1>9. 1 .. Len(log) \subseteq Offsets /\ Offsets \subseteq Nat \ {0}
  BY <1>1 DEF Offsets
<1>10. Rate \in FeeRates
  BY ConsumerAssumption DEF FeeRates
<1>11. QED
  BY <1>1, <1>2, <1>4, <1>5, <1>6, <1>7, <1>8, <1>9, <1>10

\* An event that is not published yet was neither charged nor credited.
LEMMA NothingAhead ==
  ASSUME PipelineInv, NEW o \in Offsets, o \notin 1 .. Len(log)
  PROVE  Taken[o] = 0 /\ credited[o] = 0 /\ debits[o] = 0
<1>1. o # RechargeRef
  BY EventFacts DEF RechargeRef
<1>2. Postings(ledger[Advertiser], o) = {} /\ Postings(journal[Publisher], o) = {}
  BY <1>1 DEF PipelineInv, Rows, SpendRow, RevenueRow, Postings
<1>3. /\ Taken[o] = Cardinality(Postings(ledger[Advertiser], o)) + debits[o]
      /\ credited[o] = Cardinality(Postings(journal[Publisher], o))
      /\ debits[o] = 0
  BY DEF PipelineInv, Posts
<1>4. QED
  BY <1>2, <1>3, FS_EmptySet

\* A row of a longer journal is an old one or the new one.
LEMMA RowsAppend ==
  ASSUME NEW T, NEW rows \in Seq(T), NEW e \in T, NEW n \in DOMAIN Append(rows, e)
  PROVE  \/ n \in DOMAIN rows /\ Append(rows, e)[n] = rows[n]
         \/ Append(rows, e)[n] = e
  OBVIOUS

\* The rows of an event are finitely many.
LEMMA PostingsCounted ==
  ASSUME NEW T, NEW rows \in Seq(T), NEW o
  PROVE  IsFiniteSet(Postings(rows, o)) /\ Cardinality(Postings(rows, o)) \in Nat
<1>1. DOMAIN rows = 1 .. Len(rows) /\ Len(rows) \in Nat
  OBVIOUS
<1>2. Postings(rows, o) \subseteq 1 .. Len(rows) /\ IsFiniteSet(1 .. Len(rows))
  BY <1>1, FS_Interval DEF Postings
<1>3. QED
  BY <1>2, FS_Subset, FS_CardinalityType

LEMMA PostingsAppend ==
  ASSUME NEW T, NEW rows \in Seq(T), NEW e \in T, NEW o
  PROVE  /\ e.call = o => Cardinality(Postings(Append(rows, e), o))
                            = Cardinality(Postings(rows, o)) + 1
         /\ e.call # o => Postings(Append(rows, e), o) = Postings(rows, o)
<1> DEFINE longer == Append(rows, e)
<1>1. /\ Len(rows) \in Nat /\ DOMAIN rows = 1 .. Len(rows)
      /\ DOMAIN longer = 1 .. Len(rows) + 1
      /\ \A n \in 1 .. Len(rows) : longer[n] = rows[n]
      /\ longer[Len(rows) + 1] = e
  OBVIOUS
<1> HIDE DEF longer
<1>2. CASE e.call = o
  <2>1. Postings(longer, o) = Postings(rows, o) \cup {Len(rows) + 1}
    BY <1>1, <1>2 DEF Postings
  <2>2. IsFiniteSet(Postings(rows, o))
    BY PostingsCounted
  <2>3. Len(rows) + 1 \notin Postings(rows, o)
    BY <1>1 DEF Postings
  <2>4. Cardinality(Postings(rows, o) \cup {Len(rows) + 1}) = Cardinality(Postings(rows, o)) + 1
    BY <2>2, <2>3, FS_AddElement
  <2>5. Postings(Append(rows, e), o) = Postings(rows, o) \cup {Len(rows) + 1}
    BY <2>1 DEF longer
  <2>6. QED
    BY <1>2, <2>4, <2>5
<1>3. CASE e.call # o
  <2>1. \A n \in DOMAIN longer : longer[n].call = o => n \in DOMAIN rows
    BY <1>1, <1>3
  <2>2. \A n \in DOMAIN rows : n \in DOMAIN longer /\ longer[n] = rows[n]
    BY <1>1
  <2>3. QED
    BY <2>1, <2>2 DEF Postings, longer
<1>4. QED
  BY <1>2, <1>3

\* What a history adds up to at the events' prices is a number.
LEMMA PricedSum ==
  ASSUME PipelineInv, NEW h \in [Offsets -> Nat]
  PROVE  SumFunctionOnSet([o \in Offsets |-> h[o] * Paid(o)], Offsets) \in Int
<1> DEFINE f == [o \in Offsets |-> h[o] * Paid(o)]
<1>1. \A o \in Offsets : f[o] \in Int
  <2>1. \A o \in Offsets : Paid(o) \in Nat /\ h[o] \in Nat
    BY EventFacts
  <2>2. QED
    BY <2>1
<1>2. IsFiniteSet(Offsets)
  BY EventFacts
<1> HIDE DEF f
<1>3. SumFunctionOnSet(f, Offsets) \in Int
  BY <1>1, <1>2, SumType
<1>4. QED
  BY <1>3 DEF f

------------------------------------------------------------------------------
(* One lemma for each kind of step. *)

\* What a step preserves beside the consumer's invariant.
StoresInv == StoresTypeOK /\ Rows /\ Totals /\ (\A o \in Offsets : Posts(o))

\* Rows stay what they are as the log grows.
LEMMA RowsKept ==
  ASSUME LogKept
  PROVE  /\ \A e : SpendRow(e) => e.call = RechargeRef
                     \/ (e.call \in 1 .. Len(log') /\ e.amount = -Stored(log'[e.call].price))
         /\ \A e : RevenueRow(e) =>
                     /\ e.call \in 1 .. Len(log')
                     /\ Net(log'[e.call].price, Rate) > 0
                     /\ e.amount = Net(log'[e.call].price, Rate)
                     /\ log'[e.call] = log[e.call]
  BY DEF LogKept, SpendRow, RevenueRow

\* Neither store is touched and nothing is charged or credited; an event may be published.
LEMMA QuietStep ==
  ASSUME PipelineInv, LogKept, log' \in Seq(Event),
         UNCHANGED <<charged, credited, acct, ledger, pub, journal, debits, hidden>>
  PROVE  StoresInv'
<1>1. StoresTypeOK'
  BY DEF PipelineInv, StoresTypeOK
<1>2. Rows'
  BY RowsKept DEF PipelineInv, Rows, SpendRow, RevenueRow
<1>3. Taken' = Taken
  BY DEF Taken
<1>4. \A o \in Offsets : Posts(o)'
  BY <1>3 DEF PipelineInv, Posts, Postings, LogKept
<1>5. ASSUME NEW o \in Offsets
      PROVE  /\ Taken'[o] * Paid(o)' = Taken[o] * Paid(o)
             /\ credited'[o] * Paid(o)' = credited[o] * Paid(o)
             /\ debits'[o] * Paid(o)' = debits[o] * Paid(o)
  <2>1. CASE o \in 1 .. Len(log)
    <3>1. Paid(o)' = Paid(o)
      BY <2>1 DEF LogKept, Paid
    <3>2. QED
      BY <1>3, <3>1
  <2>2. CASE o \notin 1 .. Len(log)
    <3>1. Taken[o] = 0 /\ credited[o] = 0 /\ debits[o] = 0
      BY <2>2, NothingAhead
    <3>2. Paid(o)' \in Nat
      <4>1. CASE o \in 1 .. Len(log')
        <5>1. log'[o] \in Event
          BY <4>1
        <5>2. log'[o].price \in Nat
          BY <5>1, ConsumerAssumption DEF Event
        <5>3. QED
          BY <4>1, <5>2, StoredNat DEF Paid
      <4>2. CASE o \notin 1 .. Len(log')
        BY <4>2 DEF Paid
      <4>3. QED
        BY <4>1, <4>2
    <3>3. Paid(o) \in Nat
      BY EventFacts
    <3>4. QED
      BY <1>3, <3>1, <3>2, <3>3
  <2>3. QED
    BY <2>1, <2>2
<1>6. FeesEarned' = FeesEarned
  <2>1. \A n \in DOMAIN journal[Publisher] :
          Fee(log'[journal[Publisher][n].call].price, Rate)
            = Fee(log[journal[Publisher][n].call].price, Rate)
    BY RowsKept DEF PipelineInv, Rows
  <2>2. QED
    BY <2>1 DEF FeesEarned
<1>7. Totals'
  BY <1>5, <1>6 DEF PipelineInv, Totals
<1>8. QED
  BY <1>1, <1>2, <1>4, <1>7 DEF StoresInv

\* Both stores keep money in the columns of Decimal.
LEMMA SameColumns ==
  ASSUME NEW x
  PROVE  /\ Adv!Stored(x) = Stored(x) /\ Adv!Grains(x) = Grains(x)
         /\ Pub!Stored(x) = Stored(x) /\ Pub!Grains(x) = Grains(x)
BY DEF Adv!Stored, Adv!HalfAway, Adv!Grains, Pub!Stored, Pub!HalfAway, Pub!Grains,
       Stored, HalfAway, Grains

\* The advertiser recharges: a row that is no event's.
LEMMA RechargeStep == ASSUME PipelineInv, Recharge PROVE StoresInv'
<1>1. PICK amt \in Recharges : Adv!Recharge(RechargeRef, Advertiser, amt)
  BY DEF Recharge
<1>2. UNCHANGED <<log, charged, credited, pub, journal, debits, hidden, Taken>>
  BY DEF Recharge, vars, publisherVars, debitVars, Taken
<1> DEFINE row == Adv!Recharged(acct[Advertiser], amt)
           e == Adv!RechargeEntry(RechargeRef, row, amt)
           EntryType == [call : Nat, type : Adv!TxTypes, amount : Int, after : Int]
<1>3. /\ acct' = [acct EXCEPT ![Advertiser] = row]
      /\ ledger' = [ledger EXCEPT ![Advertiser] = Append(ledger[Advertiser], e)]
  BY <1>1 DEF Adv!Recharge
<1>4. /\ acct \in [{Advertiser} -> [exists : BOOLEAN, balance : Int, recharged : Int, spent : Nat]]
      /\ ledger \in [{Advertiser} -> Seq(EntryType)]
  BY DEF PipelineInv, StoresTypeOK
<1>5. row \in [exists : BOOLEAN, balance : Int, recharged : Int, spent : Nat]
      /\ row.spent = acct[Advertiser].spent /\ row.balance \in Int
  <2>1. amt \in Int /\ Grid \in Nat
    BY PipelineAssumption, GridAssumption
  <2>2. acct[Advertiser].balance \in Int /\ acct[Advertiser].recharged \in Int
        /\ acct[Advertiser].spent \in Nat
    BY <1>4
  <2>3. Grains(acct[Advertiser].balance) + amt \in Int
        /\ Grains(acct[Advertiser].recharged) + amt \in Int
    BY <2>1, <2>2 DEF Grains
  <2>4. /\ Stored(Grains(acct[Advertiser].balance) + amt) \in Int
        /\ Stored(Grains(acct[Advertiser].recharged) + amt) \in Int
    BY <2>3, StoredInt
  <2>5. QED
    BY <2>2, <2>4, SameColumns DEF Adv!Recharged
<1>6. e \in EntryType /\ e.call = RechargeRef
  <2>1. Stored(amt) \in Int
    BY PipelineAssumption, StoredInt
  <2>2. QED
    BY <1>5, <2>1, SameColumns DEF Adv!RechargeEntry, Adv!TxTypes, RechargeRef
<1> HIDE DEF row, e
<1>7. ledger'[Advertiser] = Append(ledger[Advertiser], e) /\ acct'[Advertiser] = row
  BY <1>3, <1>4
<1>8. StoresTypeOK'
  <2>1. Append(ledger[Advertiser], e) \in Seq(EntryType)
    BY <1>4, <1>6
  <2>2. ledger' \in [{Advertiser} -> Seq(EntryType)]
    BY <1>3, <1>4, <2>1
  <2>3. QED
    BY <1>2, <1>3, <1>4, <1>5, <2>2 DEF PipelineInv, StoresTypeOK
<1>9. Rows'
  <2>1. ASSUME NEW n \in DOMAIN ledger'[Advertiser]
        PROVE  \/ ledger'[Advertiser][n].call = RechargeRef
               \/ /\ ledger'[Advertiser][n].call \in 1 .. Len(log)
                  /\ ledger'[Advertiser][n].amount
                       = -Stored(log[ledger'[Advertiser][n].call].price)
    <3>1. \/ n \in DOMAIN ledger[Advertiser] /\ ledger'[Advertiser][n] = ledger[Advertiser][n]
          \/ ledger'[Advertiser][n] = e
      <4>1. ledger[Advertiser] \in Seq(EntryType)
        BY <1>4
      <4> HIDE DEF EntryType
      <4>2. QED
        BY <1>6, <1>7, <4>1, RowsAppend
    <3>2. QED
      BY <1>6, <3>1 DEF PipelineInv, Rows, SpendRow
  <2>2. QED
    BY <1>2, <2>1 DEF PipelineInv, Rows, SpendRow, RevenueRow
<1>10. ASSUME NEW o \in Offsets PROVE Posts(o)'
  <2>1. e.call # o
    BY <1>6, EventFacts DEF RechargeRef
  <2>2. Postings(ledger'[Advertiser], o) = Postings(ledger[Advertiser], o)
    <3>1. ledger[Advertiser] \in Seq(EntryType)
      BY <1>4
    <3> HIDE DEF EntryType
    <3>2. QED
      BY <1>6, <1>7, <2>1, <3>1, PostingsAppend
  <2>3. QED
    BY <1>2, <2>2 DEF PipelineInv, Posts, Postings
<1>11. Totals'
  <2>1. acct'[Advertiser].spent = acct[Advertiser].spent
    BY <1>5, <1>7
  <2>2. \A o : Paid(o)' = Paid(o)
    BY <1>2 DEF Paid
  <2>3. FeesEarned' = FeesEarned
    BY <1>2 DEF FeesEarned
  <2>4. QED
    BY <1>2, <2>1, <2>2, <2>3 DEF PipelineInv, Totals
<1>12. QED
  BY <1>8, <1>9, <1>10, <1>11 DEF StoresInv

\* One more for event x, in a history: the total grows by the event's price.
LEMMA OneMore ==
  ASSUME PipelineInv, NEW h \in [Offsets -> Nat], NEW x \in Offsets
  PROVE  SumFunctionOnSet([o \in Offsets |-> [h EXCEPT ![x] = @ + 1][o] * Paid(o)], Offsets)
           = SumFunctionOnSet([o \in Offsets |-> h[o] * Paid(o)], Offsets) + Paid(x)
<1> DEFINE f == [o \in Offsets |-> h[o] * Paid(o)]
           g == [o \in Offsets |-> [h EXCEPT ![x] = @ + 1][o] * Paid(o)]
<1>1. \A o \in Offsets : Paid(o) \in Nat /\ h[o] \in Nat
  BY EventFacts
<1>2. \A o \in Offsets : f[o] \in Int /\ g[o] \in Int
  BY <1>1
<1>3. \A o \in Offsets \ {x} : g[o] = f[o]
  OBVIOUS
<1>4. g[x] - f[x] = Paid(x)
  <2>1. g[x] = (h[x] + 1) * Paid(x) /\ f[x] = h[x] * Paid(x)
    OBVIOUS
  <2>2. (h[x] + 1) * Paid(x) = h[x] * Paid(x) + Paid(x) /\ h[x] * Paid(x) \in Int
    BY <1>1
  <2>3. QED
    BY <1>1, <2>1, <2>2
<1>5. IsFiniteSet(Offsets)
  BY EventFacts
<1> HIDE DEF f, g
<1>6. SumFunctionOnSet(g, Offsets) = SumFunctionOnSet(f, Offsets) + (g[x] - f[x])
  BY <1>2, <1>3, <1>5, SumChange
<1>7. QED
  BY <1>4, <1>6 DEF f, g

\* A charge that is known of and one that a lost reply hides are both one more.
LEMMA TakenOnce ==
  ASSUME PipelineInv, NEW x \in Offsets,
         \/ charged' = [charged EXCEPT ![x] = @ + 1] /\ hidden' = hidden
         \/ charged' = charged /\ hidden' = [hidden EXCEPT ![x] = @ + 1]
  PROVE  Taken' = [Taken EXCEPT ![x] = @ + 1]
<1>1. charged \in [Offsets -> Nat] /\ hidden \in [Offsets -> Nat]
  BY DEF PipelineInv, ConsumerInv, TypeOK, StoresTypeOK
<1>2. ASSUME NEW o \in Offsets
      PROVE  charged'[o] + hidden'[o]
               = IF o = x THEN (charged[o] + hidden[o]) + 1 ELSE charged[o] + hidden[o]
  <2>1. charged[o] \in Nat /\ hidden[o] \in Nat
    BY <1>1
  <2>2. CASE charged' = [charged EXCEPT ![x] = @ + 1] /\ hidden' = hidden
    BY <1>1, <2>1, <2>2
  <2>3. CASE charged' = charged /\ hidden' = [hidden EXCEPT ![x] = @ + 1]
    BY <1>1, <2>1, <2>3
  <2>4. QED
    BY <2>2, <2>3
<1>3. [o \in Offsets |-> charged'[o] + hidden'[o]]
        = [o \in Offsets |-> IF o = x THEN Taken[o] + 1 ELSE Taken[o]]
  BY <1>2 DEF Taken
<1>4. QED
  BY <1>3 DEF Taken

\* The advertiser is charged for the message in hand, in PostgreSQL.
LEMMA SpendStep ==
  ASSUME PipelineInv, NEW i \in Instances, next[i] \in 1 .. Len(log), Spend(i),
         charged' = Once(charged, i), UNCHANGED <<log, credited, pub, journal, debits, hidden>>
  PROVE  StoresInv'
<1> DEFINE x == next[i]
           price == log[x].price
           row == Adv!Debited(acct[Advertiser], price)
           e == Adv!SpendEntry(x, row, price)
           EntryType == [call : Nat, type : Adv!TxTypes, amount : Int, after : Int]
<1>1. /\ price > 0
      /\ acct' = [acct EXCEPT ![Advertiser] = row]
      /\ ledger' = [ledger EXCEPT ![Advertiser] = Append(ledger[Advertiser], e)]
  BY DEF Spend, Adv!Spend, Current
<1>2. /\ acct \in [{Advertiser} -> [exists : BOOLEAN, balance : Int, recharged : Int, spent : Nat]]
      /\ ledger \in [{Advertiser} -> Seq(EntryType)]
      /\ charged \in [Offsets -> Nat]
  BY DEF PipelineInv, StoresTypeOK, ConsumerInv, TypeOK
<1>3. price \in Nat /\ x \in Offsets /\ x \in Nat /\ Stored(price) \in Nat
  BY EventFacts, StoredNat
<1>4. row \in [exists : BOOLEAN, balance : Int, recharged : Int, spent : Nat]
      /\ row.spent = acct[Advertiser].spent + Stored(price) /\ row.balance \in Int
  <2>1. acct[Advertiser].balance \in Int /\ acct[Advertiser].recharged \in Int
        /\ acct[Advertiser].spent \in Nat /\ acct[Advertiser].exists \in BOOLEAN
    BY <1>2
  <2>2. Grains(acct[Advertiser].balance) - price \in Int
    <3>1. Grains(acct[Advertiser].balance) \in Int
      BY <2>1, GridAssumption DEF Grains
    <3> HIDE DEF price
    <3>2. QED
      BY <1>3, <3>1
  <2>3. Stored(Grains(acct[Advertiser].balance) - price) \in Int
    BY <2>2, StoredInt
  <2>4. Stored(Grains(acct[Advertiser].spent) + price) = acct[Advertiser].spent + Stored(price)
    BY <1>3, <2>1, StoredAdd
  <2> HIDE DEF price
  <2>5. Adv!Debited(acct[Advertiser], price).balance \in Int
    BY <2>3, SameColumns DEF Adv!Debited
  <2>6. QED
    BY <1>3, <2>1, <2>3, <2>4, SameColumns DEF Adv!Debited
<1>5. e \in EntryType /\ e.call = x /\ e.amount = -Stored(price)
  <2>1. Stored(-price) = -Stored(price)
    BY <1>1, <1>3, StoredNeg
  <2> HIDE DEF price, row, x
  <2>2. QED
    BY <1>3, <1>4, <2>1, SameColumns DEF Adv!SpendEntry, Adv!TxTypes
<1> HIDE DEF row, e
<1>6. ledger'[Advertiser] = Append(ledger[Advertiser], e) /\ acct'[Advertiser] = row
  BY <1>1, <1>2
<1>7. StoresTypeOK'
  <2>1. Append(ledger[Advertiser], e) \in Seq(EntryType)
    BY <1>2, <1>5
  <2>2. ledger' \in [{Advertiser} -> Seq(EntryType)]
    BY <1>1, <1>2, <2>1
  <2>3. QED
    BY <1>1, <1>2, <1>4, <2>2 DEF PipelineInv, StoresTypeOK
<1>8. Rows'
  <2>1. ASSUME NEW n \in DOMAIN ledger'[Advertiser]
        PROVE  \/ ledger'[Advertiser][n].call = RechargeRef
               \/ /\ ledger'[Advertiser][n].call \in 1 .. Len(log)
                  /\ ledger'[Advertiser][n].amount
                       = -Stored(log[ledger'[Advertiser][n].call].price)
    <3>1. \/ n \in DOMAIN ledger[Advertiser] /\ ledger'[Advertiser][n] = ledger[Advertiser][n]
          \/ ledger'[Advertiser][n] = e
      <4>1. ledger[Advertiser] \in Seq(EntryType)
        BY <1>2
      <4> HIDE DEF EntryType
      <4>2. QED
        BY <1>5, <1>6, <4>1, RowsAppend
    <3>2. QED
      BY <1>5, <3>1 DEF PipelineInv, Rows, SpendRow
  <2>2. QED
    BY <2>1 DEF PipelineInv, Rows, SpendRow, RevenueRow
<1>9. Taken' = [Taken EXCEPT ![x] = @ + 1]
  BY <1>3, TakenOnce DEF Once
<1>10. ASSUME NEW o \in Offsets PROVE Posts(o)'
  <2>1. /\ Taken[o] = Cardinality(Postings(ledger[Advertiser], o)) + debits[o]
        /\ credited[o] = Cardinality(Postings(journal[Publisher], o))
        /\ o \notin 1 .. Len(log) => debits[o] = 0
    BY DEF PipelineInv, Posts
  <2>2. Taken'[o] = Cardinality(Postings(ledger'[Advertiser], o)) + debits[o]
    <3>1. ledger[Advertiser] \in Seq(EntryType)
      BY <1>2
    <3> HIDE DEF EntryType, x
    <3>2. CASE o = x
      <4>1. Taken'[o] = Taken[o] + 1
        BY <1>9, <3>2, EventFacts
      <4>2. Cardinality(Postings(ledger'[Advertiser], o))
              = Cardinality(Postings(ledger[Advertiser], o)) + 1
        BY <1>5, <1>6, <3>1, <3>2, PostingsAppend
      <4>3. debits[o] \in Nat /\ Taken[o] \in Nat
        BY EventFacts
      <4>4. Cardinality(Postings(ledger[Advertiser], o)) \in Nat
        BY <3>1, PostingsCounted
      <4>5. QED
        BY <2>1, <4>1, <4>2, <4>3, <4>4
    <3>3. CASE o # x
      <4>1. Taken'[o] = Taken[o]
        BY <1>9, <3>3, EventFacts
      <4>2. QED
        BY <1>5, <1>6, <2>1, <3>1, <3>3, <4>1, PostingsAppend
    <3>4. QED
      BY <3>2, <3>3
  <2>3. QED
    BY <2>1, <2>2 DEF Posts, Postings
<1>11. Totals'
  <2>1. acct'[Advertiser].spent = acct[Advertiser].spent + Paid(x)
    BY <1>4, <1>6 DEF Paid
  <2>2. \A o : Paid(o)' = Paid(o)
    BY DEF Paid
  <2>3. FeesEarned' = FeesEarned
    BY DEF FeesEarned
  <2>4. SumFunctionOnSet([o \in Offsets |-> Taken'[o] * Paid(o)], Offsets)
          = SumFunctionOnSet([o \in Offsets |-> Taken[o] * Paid(o)], Offsets) + Paid(x)
    <3>1. Taken \in [Offsets -> Nat]
      BY EventFacts
    <3>2. SumFunctionOnSet([o \in Offsets |-> [Taken EXCEPT ![x] = @ + 1][o] * Paid(o)], Offsets)
            = SumFunctionOnSet([o \in Offsets |-> Taken[o] * Paid(o)], Offsets) + Paid(x)
      <4> HIDE DEF x
      <4> QED BY <1>3, <3>1, OneMore
    <3> HIDE DEF x
    <3>3. QED
      BY <1>9, <3>2
  <2> DEFINE all == SumFunctionOnSet([o \in Offsets |-> Taken[o] * Paid(o)], Offsets)
             cache == SumFunctionOnSet([o \in Offsets |-> debits[o] * Paid(o)], Offsets)
  <2>5. acct[Advertiser].spent + cache = all /\ acct[Advertiser].spent \in Nat
    BY <1>2 DEF PipelineInv, Totals
  <2>6. Paid(x) \in Nat /\ cache \in Int
    BY <1>3, EventFacts, PricedSum
  <2> HIDE DEF all, cache
  <2>7. acct'[Advertiser].spent + cache = all + Paid(x)
    BY <2>1, <2>5, <2>6
  <2>8. QED
    BY <2>2, <2>3, <2>4, <2>7 DEF PipelineInv, Totals, all, cache
<1>12. QED
  BY <1>7, <1>8, <1>10, <1>11 DEF StoresInv

\* The script debits Redis for the message in hand: neither journal shows it.
LEMMA DebitStep ==
  ASSUME PipelineInv, NEW i \in Instances, next[i] \in 1 .. Len(log),
         debits' = Once(debits, i),
         \/ charged' = Once(charged, i) /\ hidden' = hidden
         \/ charged' = charged /\ hidden' = Once(hidden, i),
         UNCHANGED <<log, credited, acct, ledger, pub, journal>>
  PROVE  StoresInv'
<1> DEFINE x == next[i]
<1>1. x \in Offsets /\ x \in 1 .. Len(log)
  BY EventFacts
<1>2. Taken' = [Taken EXCEPT ![x] = @ + 1]
  BY <1>1, TakenOnce DEF Once
<1>3. debits' = [debits EXCEPT ![x] = @ + 1]
  BY DEF Once
<1>4. /\ debits \in [Offsets -> Nat] /\ hidden \in [Offsets -> Nat]
      /\ Taken \in [Offsets -> Nat]
  BY EventFacts DEF PipelineInv, StoresTypeOK
<1>5. StoresTypeOK'
  <2>1. debits' \in [Offsets -> Nat]
    BY <1>1, <1>3, <1>4
  <2>2. hidden' \in [Offsets -> Nat]
    BY <1>1, <1>4 DEF Once
  <2>3. QED
    BY <2>1, <2>2 DEF PipelineInv, StoresTypeOK
<1>6. Rows'
  BY DEF PipelineInv, Rows, SpendRow, RevenueRow
<1>7. ASSUME NEW o \in Offsets PROVE Posts(o)'
  <2>1. /\ Taken[o] = Cardinality(Postings(ledger[Advertiser], o)) + debits[o]
        /\ credited[o] = Cardinality(Postings(journal[Publisher], o))
        /\ o \notin 1 .. Len(log) => debits[o] = 0
    BY DEF PipelineInv, Posts
  <2>2. Cardinality(Postings(ledger[Advertiser], o)) \in Nat
    <3>1. ledger[Advertiser] \in Seq([call : Nat, type : Adv!TxTypes, amount : Int, after : Int])
      BY DEF PipelineInv, StoresTypeOK
    <3>2. QED
      BY <3>1, PostingsCounted
  <2>3. debits[o] \in Nat /\ Taken[o] \in Nat
    BY <1>4
  <2>4. /\ Taken'[o] = Cardinality(Postings(ledger[Advertiser], o)) + debits'[o]
        /\ o \notin 1 .. Len(log) => debits'[o] = 0
    <3>1. CASE o = x
      BY <1>1, <1>2, <1>3, <1>4, <2>1, <2>2, <2>3, <3>1
    <3>2. CASE o # x
      BY <1>2, <1>3, <1>4, <2>1, <3>2
    <3>3. QED
      BY <3>1, <3>2
  <2>5. QED
    BY <2>1, <2>4 DEF Posts, Postings
<1>8. Totals'
  <2> DEFINE all == SumFunctionOnSet([o \in Offsets |-> Taken[o] * Paid(o)], Offsets)
             cache == SumFunctionOnSet([o \in Offsets |-> debits[o] * Paid(o)], Offsets)
  <2>1. SumFunctionOnSet([o \in Offsets |-> Taken'[o] * Paid(o)], Offsets) = all + Paid(x)
    <3>1. SumFunctionOnSet([o \in Offsets |-> [Taken EXCEPT ![x] = @ + 1][o] * Paid(o)], Offsets)
            = all + Paid(x)
      <4> HIDE DEF x
      <4> QED BY <1>1, <1>4, OneMore
    <3> HIDE DEF x
    <3>2. QED
      BY <1>2, <3>1
  <2>2. SumFunctionOnSet([o \in Offsets |-> debits'[o] * Paid(o)], Offsets) = cache + Paid(x)
    <3>1. SumFunctionOnSet([o \in Offsets |-> [debits EXCEPT ![x] = @ + 1][o] * Paid(o)], Offsets)
            = cache + Paid(x)
      <4> HIDE DEF x
      <4> QED BY <1>1, <1>4, OneMore
    <3> HIDE DEF x
    <3>2. QED
      BY <1>3, <3>1
  <2>3. acct[Advertiser].spent + cache = all /\ acct[Advertiser].spent \in Nat
    BY DEF PipelineInv, StoresTypeOK, Totals
  <2>4. Paid(x) \in Nat /\ cache \in Int
    BY <1>1, <1>4, EventFacts, PricedSum
  <2>5. (\A o : Paid(o)' = Paid(o)) /\ FeesEarned' = FeesEarned
    BY DEF Paid, FeesEarned
  <2> HIDE DEF all, cache
  <2>6. acct[Advertiser].spent + (cache + Paid(x)) = all + Paid(x)
    BY <2>3, <2>4
  <2>7. QED
    BY <2>1, <2>2, <2>5, <2>6 DEF PipelineInv, Totals
<1>9. QED
  BY <1>5, <1>6, <1>7, <1>8 DEF StoresInv

\* What the platform earned on an event is a natural number of units.
LEMMA FeesPaid ==
  ASSUME PipelineInv, NEW n \in DOMAIN journal[Publisher]
  PROVE  Fee(log[journal[Publisher][n].call].price, Rate) \in Int
<1> DEFINE price == log[journal[Publisher][n].call].price
<1>1. journal[Publisher][n].call \in 1 .. Len(log)
  BY DEF PipelineInv, Rows, RevenueRow
<1>2. price \in Nat /\ Rate \in FeeRates
  BY <1>1, EventFacts
<1>3. Fee(price, Rate) \in Nat
  <2> HIDE DEF price
  <2> QED BY <1>2, FeeBracket
<1>4. QED
  BY <1>3

\* The publisher is credited for the message in hand.
LEMMA CreditedStep ==
  ASSUME PipelineInv, NEW i \in Instances, next[i] \in 1 .. Len(log),
         Net(log[next[i]].price, Rate) > 0,
         Pub!Credit(next[i], Publisher, Revenue(log[next[i]].price)),
         credited' = Once(credited, i), UNCHANGED <<log, charged, acct, ledger, debits, hidden>>
  PROVE  StoresInv'
<1> DEFINE x == next[i]
           price == log[x].price
           net == Net(price, Rate)
           row == Pub!AfterRevenue(pub[Publisher], Revenue(price))
           e == Pub!RevenueEntry(x, row, Revenue(price))
           RowType == [exists : BOOLEAN, pending : Nat, settled : Int, withdrawn : Int]
           EntryType == [call : Nat, amount : Int, after : Int]
<1>1. /\ pub' = [pub EXCEPT ![Publisher] = row]
      /\ journal' = [journal EXCEPT ![Publisher] = Append(journal[Publisher], e)]
  BY DEF Pub!Credit
<1>2. /\ pub \in [{Publisher} -> RowType]
      /\ journal \in [{Publisher} -> Seq(EntryType)]
      /\ credited \in [Offsets -> Nat]
  BY DEF PipelineInv, StoresTypeOK, ConsumerInv, TypeOK
<1>3. /\ x \in Offsets /\ x \in Nat /\ price \in Nat
      /\ net \in Nat /\ Fee(price, Rate) \in Nat /\ Fee(price, Rate) + net = Stored(price)
      /\ net > 0
  BY EventFacts, CreditSplits
<1>4. Revenue(price) = Grains(net) /\ Revenue(price) \in Nat /\ Stored(Revenue(price)) = net
  <2>1. Revenue(price) = Grains(net)
    BY DEF Revenue
  <2> HIDE DEF net, price
  <2>2. Grains(net) \in Nat
    BY <1>3, GridAssumption DEF Grains
  <2>3. Stored(Grains(net)) = net
    BY <1>3, StoredGrains
  <2>4. QED
    BY <2>1, <2>2, <2>3
<1>5. row \in RowType /\ row.pending = pub[Publisher].pending + net
  <2>1. pub[Publisher] \in RowType /\ pub[Publisher].pending \in Nat
    BY <1>2
  <2> HIDE DEF net, price
  <2>2. Stored(Grains(pub[Publisher].pending) + Revenue(price)) = pub[Publisher].pending + net
    BY <1>4, <2>1, StoredAdd
  <2> DEFINE more == pub[Publisher].pending + net
  <2>3. more \in Nat
    BY <1>3, <2>1
  <2>4. row = [pub[Publisher] EXCEPT !.exists = TRUE, !.pending = more]
    BY <2>2, SameColumns DEF Pub!AfterRevenue
  <2> HIDE DEF more, row
  <2>5. row \in RowType /\ row.pending = more
    BY <2>1, <2>3, <2>4
  <2>6. QED
    BY <2>5 DEF more
<1> HIDE DEF row
<1>6. e \in EntryType /\ e.call = x /\ e.amount = net
  <2>1. e = [call |-> x, amount |-> Pub!Stored(Revenue(price)), after |-> row.pending]
    BY DEF Pub!RevenueEntry
  <2> HIDE DEF net, price, x, e
  <2>2. Pub!Stored(Revenue(price)) = net
    BY <1>4, SameColumns
  <2>3. e = [call |-> x, amount |-> net, after |-> row.pending]
    BY <2>1, <2>2
  <2>4. row.pending \in Nat
    BY <1>2, <1>3, <1>5
  <2>5. QED
    BY <1>3, <2>3, <2>4
<1> HIDE DEF e
<1>7. journal'[Publisher] = Append(journal[Publisher], e) /\ pub'[Publisher] = row
  BY <1>1, <1>2
<1>8. journal[Publisher] \in Seq(EntryType)
  BY <1>2
<1>9. StoresTypeOK'
  <2>1. Append(journal[Publisher], e) \in Seq(EntryType)
    BY <1>6, <1>8
  <2>2. journal' \in [{Publisher} -> Seq(EntryType)]
    BY <1>1, <1>2, <2>1
  <2>3. QED
    BY <1>1, <1>2, <1>5, <2>2 DEF PipelineInv, StoresTypeOK
<1>10. Rows'
  <2>1. ASSUME NEW n \in DOMAIN journal'[Publisher]
        PROVE  /\ journal'[Publisher][n].call \in 1 .. Len(log)
               /\ Net(log[journal'[Publisher][n].call].price, Rate) > 0
               /\ journal'[Publisher][n].amount
                    = Net(log[journal'[Publisher][n].call].price, Rate)
    <3>1. \/ n \in DOMAIN journal[Publisher] /\ journal'[Publisher][n] = journal[Publisher][n]
          \/ journal'[Publisher][n] = e
      <4>1. journal[Publisher] \in Seq(EntryType)
        BY <1>2
      <4> HIDE DEF EntryType
      <4>2. QED
        BY <1>6, <1>7, <4>1, RowsAppend
    <3>2. QED
      BY <1>6, <3>1 DEF PipelineInv, Rows, RevenueRow
  <2>2. QED
    BY <2>1 DEF PipelineInv, Rows, SpendRow, RevenueRow
<1>11. ASSUME NEW o \in Offsets PROVE Posts(o)'
  <2>1. /\ Taken'[o] = Cardinality(Postings(ledger[Advertiser], o)) + debits[o]
        /\ credited[o] = Cardinality(Postings(journal[Publisher], o))
        /\ o \notin 1 .. Len(log) => debits[o] = 0
    BY DEF PipelineInv, Posts, Taken
  <2>2. credited'[o] = Cardinality(Postings(journal'[Publisher], o))
    <3> HIDE DEF EntryType, x
    <3>1. CASE o = x
      <4>1. credited'[o] = credited[o] + 1
        BY <1>2, <3>1 DEF Once, x
      <4>2. QED
        BY <1>6, <1>7, <1>8, <2>1, <3>1, <4>1, PostingsAppend
    <3>2. CASE o # x
      <4>1. credited'[o] = credited[o]
        BY <1>2, <3>2 DEF Once, x
      <4>2. QED
        BY <1>6, <1>7, <1>8, <2>1, <3>2, <4>1, PostingsAppend
    <3>3. QED
      BY <3>1, <3>2
  <2>3. QED
    BY <2>1, <2>2 DEF Posts, Postings
<1>12. FeesEarned' = FeesEarned + Fee(price, Rate)
  <2> DEFINE N == Len(journal[Publisher])
             old == [n \in 1 .. N |-> Fee(log[journal[Publisher][n].call].price, Rate)]
             new == [n \in 1 .. N + 1 |-> Fee(log[journal'[Publisher][n].call].price, Rate)]
  <2>1. N \in Nat /\ DOMAIN journal[Publisher] = 1 .. N
        /\ DOMAIN journal'[Publisher] = 1 .. N + 1
        /\ journal'[Publisher][N + 1] = e
        /\ \A n \in 1 .. N : journal'[Publisher][n] = journal[Publisher][n]
    BY <1>6, <1>7, <1>8
  <2>2. /\ FeesEarned = SumFunctionOnSet(old, 1 .. N)
        /\ FeesEarned' = SumFunctionOnSet(new, 1 .. N + 1)
    BY <2>1 DEF FeesEarned, SumFunction
  <2>3. new[N + 1] = Fee(price, Rate)
    BY <1>6, <2>1
  <2>4. \A n \in 1 .. N : old[n] = new[n] /\ old[n] \in Int
    <3>1. \A n \in 1 .. N : Fee(log[journal[Publisher][n].call].price, Rate) \in Int
      BY <2>1, FeesPaid
    <3>2. QED
      BY <2>1, <3>1
  <2>5. \A n \in 1 .. N : old[n] \in Int /\ new[n] = old[n]
    BY <2>4
  <2>6. Fee(price, Rate) \in Int
    BY <1>3
  <2>7. N \in Nat
    BY <2>1
  <2> HIDE DEF old, new, N, price
  <2>8. SumFunctionOnSet(new, 1 .. N + 1) = SumFunctionOnSet(old, 1 .. N) + new[N + 1]
    BY <2>3, <2>5, <2>6, <2>7, SumAppend
  <2>9. QED
    BY <2>2, <2>3, <2>8
<1>13. Totals'
  <2>1. pub'[Publisher].pending = pub[Publisher].pending + net
    BY <1>5, <1>7
  <2>2. \A o : Paid(o)' = Paid(o)
    BY DEF Paid
  <2>3. Paid(x) = Fee(price, Rate) + net
    BY <1>3 DEF Paid
  <2>4. SumFunctionOnSet([o \in Offsets |-> credited'[o] * Paid(o)], Offsets)
          = SumFunctionOnSet([o \in Offsets |-> credited[o] * Paid(o)], Offsets) + Paid(x)
    BY <1>2, <1>3, OneMore DEF Once
  <2>5. FeesEarned \in Int
    <3>1. \A n \in DOMAIN journal[Publisher] :
            Fee(log[journal[Publisher][n].call].price, Rate) \in Int
      BY FeesPaid
    <3>2. IsFiniteSet(DOMAIN journal[Publisher])
      <4>1. DOMAIN journal[Publisher] = 1 .. Len(journal[Publisher])
            /\ Len(journal[Publisher]) \in Int
        BY <1>8
      <4>2. QED
        BY <4>1, FS_Interval
    <3>3. QED
      BY <3>1, <3>2, SumType DEF FeesEarned, SumFunction
  <2>6. pub[Publisher].pending \in Nat
    BY <1>2
  <2> DEFINE old == SumFunctionOnSet([o \in Offsets |-> credited[o] * Paid(o)], Offsets)
  <2>7. pub[Publisher].pending + FeesEarned = old
    BY DEF PipelineInv, Totals
  <2> HIDE DEF old, net, price
  <2>8. pub'[Publisher].pending + FeesEarned' = old + Paid(x)
    BY <1>3, <1>12, <2>1, <2>3, <2>5, <2>6, <2>7
  <2>9. Taken' = Taken
    BY DEF Taken
  <2>10. QED
    BY <2>2, <2>4, <2>8, <2>9 DEF PipelineInv, Totals, old
<1>14. QED
  BY <1>9, <1>10, <1>11, <1>13 DEF StoresInv

------------------------------------------------------------------------------
(* The invariant, and what follows from it. *)

LEMMA PipelineInvInit == PipelineInit => PipelineInv
<1>1. SUFFICES ASSUME PipelineInit PROVE PipelineInv
  OBVIOUS
<1>2. ConsumerInv /\ CountInv
  BY <1>1, PipelineConsumes, InitInv, CountInvInit
<1>3. /\ acct = [a \in {Advertiser} |-> Adv!NoRow] /\ ledger = [a \in {Advertiser} |-> <<>>]
      /\ pub = [p \in {Publisher} |-> Pub!NoPubRow]
      /\ journal = [p \in {Publisher} |-> <<>>]
      /\ log = <<>> /\ charged = [o \in Offsets |-> 0] /\ credited = [o \in Offsets |-> 0]
      /\ debits = [o \in Offsets |-> 0] /\ hidden = [o \in Offsets |-> 0]
  BY <1>1 DEF PipelineInit, Init, Adv!LedgerInit
<1>4. StoresTypeOK
  BY <1>3 DEF StoresTypeOK, Adv!NoRow, Pub!NoPubRow
<1>5. DOMAIN ledger[Advertiser] = {} /\ DOMAIN journal[Publisher] = {}
  BY <1>3
<1>6. Rows
  BY <1>5 DEF Rows
<1>7. \A o \in Offsets : Posts(o)
  <2>1. ASSUME NEW o \in Offsets
        PROVE  Postings(ledger[Advertiser], o) = {} /\ Postings(journal[Publisher], o) = {}
    BY <1>5 DEF Postings
  <2>2. QED
    BY <1>3, <2>1, FS_EmptySet DEF Posts, Taken
<1>8. Totals
  <2> DEFINE f == [o \in Offsets |-> 0 * Paid(o)]
             zero == [o \in Offsets |-> 0]
  <2>1. \A o \in Offsets : Paid(o) = 0
    BY <1>3 DEF Paid
  <2>2. \A o \in Offsets :
          Taken[o] * Paid(o) = 0 /\ credited[o] * Paid(o) = 0 /\ debits[o] * Paid(o) = 0
    <3>1. \A o \in Offsets : Taken[o] = 0
      BY <1>3 DEF Taken
    <3>2. QED
      BY <1>3, <2>1, <3>1
  <2>3. SumFunctionOnSet(zero, Offsets) = 0
    <3>1. IsFiniteSet(Offsets)
      BY ConsumerAssumption, FS_Interval DEF Offsets
    <3>2. \A o \in Offsets : zero[o] = 0
      OBVIOUS
    <3> HIDE DEF zero
    <3>3. QED
      BY <3>1, <3>2, SumOfZeros
  <2>4. FeesEarned = 0
    BY <1>5, FS_EmptySet, SumSteps DEF FeesEarned, SumFunction
  <2>5. acct[Advertiser].spent = 0 /\ pub[Publisher].pending = 0
    BY <1>3 DEF Adv!NoRow, Pub!NoPubRow
  <2>6. /\ [o \in Offsets |-> Taken[o] * Paid(o)] = zero
        /\ [o \in Offsets |-> credited[o] * Paid(o)] = zero
        /\ [o \in Offsets |-> debits[o] * Paid(o)] = zero
    BY <2>2
  <2>7. QED
    BY <2>3, <2>4, <2>5, <2>6 DEF Totals
<1>9. QED
  BY <1>2, <1>4, <1>6, <1>7, <1>8 DEF PipelineInv

LEMMA PipelineInvStep == PipelineInv /\ [PipelineNext]_pipelineVars => PipelineInv'
<1>1. SUFFICES ASSUME PipelineInv, [PipelineNext]_pipelineVars PROVE PipelineInv'
  OBVIOUS
<1>2. ConsumerInv' /\ CountInv' /\ LogKept /\ log' \in Seq(Event)
  <2>1. ConsumerInv /\ CountInv /\ [Next]_vars
    BY <1>1, PipelineStepConsumes DEF PipelineInv
  <2>2. ConsumerInv' /\ CountInv' /\ LogKept
    BY <2>1, InvStep, CountInvStep, LogOnlyGrows
  <2>3. QED
    BY <2>2 DEF ConsumerInv, TypeOK
<1>3. CASE UNCHANGED <<charged, credited, acct, ledger, pub, journal, debits, hidden>>
  BY <1>1, <1>2, <1>3, QuietStep DEF StoresInv, PipelineInv
<1>4. CASE Recharge
  BY <1>1, <1>2, <1>4, RechargeStep DEF StoresInv, PipelineInv
<1>5. CASE Sync \/ SyncFails \/ Flush
  <2>1. UNCHANGED <<charged, credited, acct, ledger, pub, journal, debits, hidden>>
    BY <1>5 DEF Sync, SyncFails, Flush, vars, advertiserVars, publisherVars, debitVars
  <2>2. QED
    BY <1>3, <2>1
<1>6. ASSUME NEW i \in Instances, DeliverStep(i) \/ LuaDeclined(i) PROVE PipelineInv'
  <2>1. UNCHANGED <<charged, credited, acct, ledger, pub, journal, debits, hidden>>
    BY <1>6 DEF DeliverStep, Deliver, LuaDeclined, ReplyLost, vars, advertiserVars,
                publisherVars, debitVars
  <2>2. QED
    BY <1>3, <2>1
<1>7. ASSUME NEW i \in Instances, LuaDebit(i) PROVE PipelineInv'
  <2>1. /\ UNCHANGED <<log, credited, acct, ledger, pub, journal>>
        /\ step[i] = "spend"
        /\ debits' = Once(debits, i)
        /\ \/ charged' = Once(charged, i) /\ hidden' = hidden
           \/ charged' = charged /\ hidden' = Once(hidden, i)
    BY <1>7 DEF LuaDebit, Asks, Charge, ReplyLost, Elsewhere, logVars, vars, advertiserVars,
                publisherVars
  <2>2. next[i] \in 1 .. Len(log)
    BY <1>1, <2>1, MessageInHand DEF PipelineInv
  <2>3. QED
    BY <1>1, <1>2, <2>1, <2>2, DebitStep DEF StoresInv, PipelineInv
<1>8. ASSUME NEW i \in Instances, ChargeStep(i) PROVE PipelineInv'
  <2>1. /\ UNCHANGED <<log, credited, pub, journal, debits, hidden>>
        /\ step[i] = "spend"
        /\ \/ charged' = Once(charged, i) /\ Spend(i)
           \/ charged' = charged /\ UNCHANGED <<acct, ledger>>
    BY <1>8 DEF ChargeStep, Charge, ChargeRefused, ChargeFails, Refused, Elsewhere, logVars,
                history, publisherVars, advertiserVars, debitVars
  <2>2. next[i] \in 1 .. Len(log)
    BY <1>1, <2>1, MessageInHand DEF PipelineInv
  <2>3. CASE charged' = Once(charged, i) /\ Spend(i)
    BY <1>1, <1>2, <2>1, <2>2, <2>3, SpendStep DEF StoresInv, PipelineInv
  <2>4. CASE charged' = charged /\ UNCHANGED <<acct, ledger>>
    BY <1>3, <2>1, <2>4
  <2>5. QED
    BY <2>1, <2>3, <2>4
<1>9. ASSUME NEW i \in Instances, CreditStep(i) PROVE PipelineInv'
  <2>1. /\ UNCHANGED <<log, charged, acct, ledger, debits, hidden>>
        /\ step[i] = "revenue"
        /\ \/ credited' = credited /\ UNCHANGED <<pub, journal>>
           \/ /\ Net(log[next[i]].price, Rate) > 0
              /\ credited' = Once(credited, i)
              /\ Pub!Credit(next[i], Publisher, Revenue(log[next[i]].price))
    BY <1>9 DEF CreditStep, AddRevenue, Current, Elsewhere, logVars, publisherVars,
                advertiserVars, debitVars
  <2>2. next[i] \in 1 .. Len(log)
    BY <1>1, <2>1, MessageInHand DEF PipelineInv
  <2>3. CASE credited' = credited /\ UNCHANGED <<pub, journal>>
    BY <1>3, <2>1, <2>3
  <2>4. CASE ~(credited' = credited /\ UNCHANGED <<pub, journal>>)
    BY <1>1, <1>2, <2>1, <2>2, <2>4, CreditedStep DEF StoresInv, PipelineInv
  <2>5. QED
    BY <2>3, <2>4
<1>10. CASE ElsewhereStep
  <2>1. UNCHANGED <<charged, credited>>
    BY <1>10 DEF ElsewhereStep, Publish, Idle, vars, Join, Fetch, CalcFees, Mark,
                 AutoCommit, Cancel, Leave, Evict, Crash, history
  <2>2. QED
    BY <1>3, <1>10, <2>1 DEF ElsewhereStep, advertiserVars, publisherVars, debitVars
<1>11. CASE UNCHANGED pipelineVars
  BY <1>3, <1>11 DEF pipelineVars, vars, advertiserVars, publisherVars, debitVars
<1>12. QED
  BY <1>1, <1>4, <1>5, <1>6, <1>7, <1>8, <1>9, <1>10, <1>11 DEF PipelineNext

\* The accounts and the journals of both stores are those of the events charged and credited.
THEOREM PipelineInvariant == PipelineSpec => []PipelineInv
BY PipelineInvInit, PipelineInvStep, PTL DEF PipelineSpec

\* In the pipeline as in the group, credits follow charges.
LEMMA CreditsCovered ==
  ASSUME PipelineInv, NEW o \in Offsets
  PROVE  credited[o] <= charged[o]
<1>1. Counted(o) /\ charged[o] \in Nat /\ credited[o] \in Nat
  BY EventFacts DEF PipelineInv, CountInv
<1>2. Cardinality(Uncredited(o)) \in Nat
  BY <1>1, FS_CardinalityType DEF Counted
<1>3. QED
  BY <1>1, <1>2 DEF Counted

(***************************************************************************)
(* The journals of advertiser and publisher (repo/advertiser.go,           *)
(* repo/publisher.go) and the debits of Redis (service.go) reconcile by    *)
(* the event they name, whatever fails between the steps that write them.  *)
(***************************************************************************)
THEOREM JournalsAlwaysReconcile == PipelineSpec => []JournalsReconcile
<1>1. PipelineInv => JournalsReconcile
  <2>1. SUFFICES ASSUME PipelineInv, NEW o \in 1 .. Len(log)
                 PROVE  LET spends == Postings(ledger[Advertiser], o)
                            revenues == Postings(journal[Publisher], o)
                        IN  /\ Cardinality(revenues) <= Cardinality(spends) + debits[o]
                            /\ Cardinality(spends) + debits[o] <= sessions + hidden[o]
                            /\ \A r \in revenues :
                                 journal[Publisher][r].amount + Fee(log[o].price, Rate) = Paid(o)
                            /\ \A s \in spends : -ledger[Advertiser][s].amount = Paid(o)
    BY DEF JournalsReconcile
  <2> DEFINE spends == Postings(ledger[Advertiser], o)
             revenues == Postings(journal[Publisher], o)
  <2>2. /\ o \in Offsets /\ log[o].price \in Nat /\ Rate \in FeeRates /\ o # RechargeRef
        /\ Stored(log[o].price) \in Nat /\ Paid(o) = Stored(log[o].price)
    BY <2>1, EventFacts, StoredNat DEF RechargeRef, Paid
  <2>3. /\ credited[o] \in Nat /\ charged[o] \in Nat /\ hidden[o] \in Nat
        /\ Taken[o] = charged[o] + hidden[o] /\ sessions \in Nat
    <3>1. sessions \in Nat
      BY <2>1, ConsumerAssumption DEF PipelineInv, ConsumerInv, TypeOK
    <3>2. QED
      BY <2>1, <2>2, <3>1, EventFacts
  <2>4. credited[o] <= charged[o] /\ charged[o] <= sessions
    <3>1. Counted(o) /\ Cardinality(Uncharged(o)) \in Nat
      BY <2>1, <2>2, FS_CardinalityType DEF PipelineInv, CountInv, Counted
    <3>2. QED
      BY <2>1, <2>2, <2>3, <3>1, CreditsCovered DEF Counted
  <2>5. Taken[o] = Cardinality(spends) + debits[o] /\ credited[o] = Cardinality(revenues)
    BY <2>1, <2>2 DEF PipelineInv, Posts
  <2>6. /\ Cardinality(revenues) <= Cardinality(spends) + debits[o]
        /\ Cardinality(spends) + debits[o] <= sessions + hidden[o]
    BY <2>3, <2>4, <2>5
  <2>7. ASSUME NEW r \in revenues
        PROVE  journal[Publisher][r].amount + Fee(log[o].price, Rate) = Paid(o)
    <3>1. journal[Publisher][r].amount = Net(log[o].price, Rate) /\ Net(log[o].price, Rate) > 0
      BY <2>1 DEF PipelineInv, Rows, RevenueRow, Postings
    <3>2. /\ Net(log[o].price, Rate) \in Nat /\ Fee(log[o].price, Rate) \in Nat
          /\ Fee(log[o].price, Rate) + Net(log[o].price, Rate) = Stored(log[o].price)
      BY <2>2, <3>1, CreditSplits
    <3>3. QED
      BY <2>2, <3>1, <3>2
  <2>8. ASSUME NEW s \in spends
        PROVE  -ledger[Advertiser][s].amount = Paid(o)
    <3>1. ledger[Advertiser][s].amount = -Stored(log[o].price)
      BY <2>1, <2>2 DEF PipelineInv, Rows, SpendRow, Postings
    <3>2. QED
      BY <2>2, <3>1
  <2>9. QED
    BY <2>6, <2>7, <2>8
<1>2. QED
  BY <1>1, PipelineInvariant, PTL

(***************************************************************************)
(* What publishers were credited, with the platform's fees on it, never    *)
(* exceeds what the advertiser's total_spent records and the script has    *)
(* debited: the sums are compared event by event.                          *)
(***************************************************************************)
THEOREM PayoutsAlwaysCovered == PipelineSpec => []PayoutsCovered
<1>1. PipelineInv => PayoutsCovered
  <2> SUFFICES ASSUME PipelineInv PROVE PayoutsCovered
    OBVIOUS
  <2> DEFINE spends == [o \in Offsets |-> Taken[o] * Paid(o)]
             revenues == [o \in Offsets |-> credited[o] * Paid(o)]
  <2>1. ASSUME NEW o \in Offsets
        PROVE  spends[o] \in Int /\ revenues[o] \in Int /\ revenues[o] <= spends[o]
    <3>1. /\ charged[o] \in Nat /\ hidden[o] \in Nat /\ Taken[o] = charged[o] + hidden[o]
          /\ Paid(o) \in Nat /\ credited[o] \in Nat
      BY EventFacts
    <3>2. /\ Paid(o) \in Nat /\ Taken[o] \in Nat /\ credited[o] \in Nat
          /\ Taken[o] - credited[o] \in Nat
      BY <3>1, CreditsCovered
    <3>3. spends[o] = Taken[o] * Paid(o) /\ revenues[o] = credited[o] * Paid(o)
      OBVIOUS
    <3> HIDE DEF spends, revenues
    <3>4. /\ Taken[o] * Paid(o) \in Int /\ credited[o] * Paid(o) \in Int
          /\ (Taken[o] - credited[o]) * Paid(o) >= 0
          /\ (Taken[o] - credited[o]) * Paid(o) = Taken[o] * Paid(o) - credited[o] * Paid(o)
      BY <3>2
    <3>5. QED
      BY <3>3, <3>4
  <2>2. IsFiniteSet(Offsets)
    BY EventFacts
  <2>3. SumFunctionOnSet(revenues, Offsets) <= SumFunctionOnSet(spends, Offsets)
    <3> HIDE DEF spends, revenues
    <3> QED BY <2>1, <2>2, SumsOrdered
  <2>4. TakenFromCache = SumFunctionOnSet([o \in Offsets |-> debits[o] * Paid(o)], Offsets)
    BY DEF TakenFromCache, SumFunction
  <2>5. QED
    BY <2>3, <2>4 DEF PipelineInv, Totals, PayoutsCovered
<1>2. QED
  BY <1>1, PipelineInvariant, PTL

------------------------------------------------------------------------------
(* The advertiser's tables under events that are charged again. *)

(***************************************************************************)
(* An event handed out again, after a crash or a rebalance, is charged by  *)
(* a second transaction with the same ref_id, which AdvertiserLedger rules *)
(* out of its calls.  It starts from the balance the first one left: the   *)
(* advertiser is not in debt, money is conserved and the journal explains  *)
(* the balance all the same.                                               *)
(***************************************************************************)
RepeatsStaySolvent == Adv!NeverOverdrawn /\ Adv!Conservation /\ Adv!JournalChain

\* The proofs about the ledger, at the advertiser and the calls of the pipeline.
AdvP == INSTANCE AdvertiserLedgerProofs WITH
          Advertisers <- {Advertiser}, Calls <- Offsets \union {RechargeRef},
          Amounts <- Prices \union Recharges

\* The pipeline's amounts are what the ledger assumes of its own.
LEMMA AmountsOfPipeline == Prices \union Recharges \subseteq Int /\ Grid \in Nat \ {0}
BY ConsumerAssumption, PipelineAssumption, GridAssumption

\* The operations are those of the ledger the pipeline is built on.
LEMMA SameOperations ==
  /\ Adv!LedgerInit <=> AdvP!LedgerInit
  /\ \A c, a, amt : Adv!Recharge(c, a, amt) <=> AdvP!Recharge(c, a, amt)
  /\ \A c, a, amt : Adv!Spend(c, a, amt) <=> AdvP!Spend(c, a, amt)
<1>1. \A r, amt : Adv!Recharged(r, amt) = AdvP!Recharged(r, amt)
  BY DEF Adv!Recharged, Adv!Stored, Adv!HalfAway, Adv!Grains,
         AdvP!Recharged, AdvP!Stored, AdvP!HalfAway, AdvP!Grains
<1>2. \A r, amt : Adv!Debited(r, amt) = AdvP!Debited(r, amt)
  BY DEF Adv!Debited, Adv!Stored, Adv!HalfAway, Adv!Grains,
         AdvP!Debited, AdvP!Stored, AdvP!HalfAway, AdvP!Grains
<1>3. \A c, r, amt : Adv!RechargeEntry(c, r, amt) = AdvP!RechargeEntry(c, r, amt)
  BY DEF Adv!RechargeEntry, Adv!Stored, Adv!HalfAway,
         AdvP!RechargeEntry, AdvP!Stored, AdvP!HalfAway
<1>4. \A c, r, amt : Adv!SpendEntry(c, r, amt) = AdvP!SpendEntry(c, r, amt)
  BY DEF Adv!SpendEntry, Adv!Stored, Adv!HalfAway,
         AdvP!SpendEntry, AdvP!Stored, AdvP!HalfAway
<1>5. \A r, amt : Adv!Affordable(r, amt) <=> AdvP!Affordable(r, amt)
  BY DEF Adv!Affordable, Adv!Grains, AdvP!Affordable, AdvP!Grains
<1>6. Adv!LedgerInit <=> AdvP!LedgerInit
  BY DEF Adv!LedgerInit, Adv!NoRow, AdvP!LedgerInit, AdvP!NoRow
<1>7. \A c, a, amt : Adv!Recharge(c, a, amt) <=> AdvP!Recharge(c, a, amt)
  BY <1>1, <1>3 DEF Adv!Recharge, AdvP!Recharge
<1>8. \A c, a, amt : Adv!Spend(c, a, amt) <=> AdvP!Spend(c, a, amt)
  BY <1>2, <1>4, <1>5 DEF Adv!Spend, AdvP!Spend
<1>9. QED
  BY <1>6, <1>7, <1>8

\* What the ledger promises is what the pipeline states of it.
LEMMA SamePromises ==
  AdvP!NeverOverdrawn /\ AdvP!Conservation /\ AdvP!JournalChain => RepeatsStaySolvent
BY DEF RepeatsStaySolvent, Adv!NeverOverdrawn, Adv!Conservation, Adv!Drift,
       Adv!JournalChain, Adv!Chained, Adv!Explains, Adv!Before,
       AdvP!NeverOverdrawn, AdvP!Conservation, AdvP!Drift,
       AdvP!JournalChain, AdvP!Chained, AdvP!Explains, AdvP!Before

\* Each step of the pipeline leaves the tables alone or posts a recharge or an event's spend.
LEMMA PipelinePosts ==
  ASSUME PipelineInv, [PipelineNext]_pipelineVars
  PROVE  \/ UNCHANGED <<acct, ledger>>
         \/ \E c \in Offsets \union {RechargeRef}, amt \in Prices \union Recharges :
              AdvP!Post(c, Advertiser, amt)
<1>1. CASE Recharge
  <2>1. PICK amt \in Recharges : Adv!Recharge(RechargeRef, Advertiser, amt)
    BY <1>1 DEF Recharge
  <2>2. AdvP!Post(RechargeRef, Advertiser, amt)
    BY <2>1, SameOperations DEF AdvP!Post
  <2>3. QED
    BY <2>2
<1>2. ASSUME NEW i \in Instances, ChargeStep(i), ~UNCHANGED <<acct, ledger>>
      PROVE  \E c \in Offsets, amt \in Prices : AdvP!Post(c, Advertiser, amt)
  <2>1. Adv!Spend(next[i], Advertiser, log[next[i]].price) /\ step[i] = "spend"
    BY <1>2 DEF ChargeStep, Charge, ChargeRefused, ChargeFails, Refused, Spend, Current,
                advertiserVars
  <2>2. next[i] \in 1 .. Len(log)
    BY <2>1, MessageInHand DEF PipelineInv
  <2>3. next[i] \in Offsets /\ log[next[i]].price \in Prices
    <3>1. log \in Seq(Event) /\ 1 .. Len(log) \subseteq Offsets
      BY EventFacts
    <3>2. log[next[i]] \in Event
      BY <2>2, <3>1
    <3>3. QED
      BY <2>2, <3>1, <3>2 DEF Event
  <2>4. AdvP!Post(next[i], Advertiser, log[next[i]].price)
    BY <2>1, SameOperations DEF AdvP!Post
  <2>5. QED
    BY <2>3, <2>4
<1>3. ASSUME NEW i \in Instances,
             DeliverStep(i) \/ LuaDebit(i) \/ LuaDeclined(i) \/ CreditStep(i)
      PROVE  UNCHANGED <<acct, ledger>>
  BY <1>3 DEF DeliverStep, LuaDebit, LuaDeclined, CreditStep, advertiserVars
<1>4. CASE Sync \/ SyncFails \/ Flush \/ ElsewhereStep \/ UNCHANGED pipelineVars
  BY <1>4 DEF Sync, SyncFails, Flush, ElsewhereStep, pipelineVars, advertiserVars
<1>5. QED
  BY <1>1, <1>2, <1>3, <1>4 DEF PipelineNext

(***************************************************************************)
(* An event that is charged again finds the advertiser's tables sound and  *)
(* leaves them so: no debt, no money lost, no gap in the journal           *)
(* (repo/advertiser.go), for any number of events, members and sessions.   *)
(***************************************************************************)
THEOREM RepeatsAlwaysSolvent == PipelineSpec => []RepeatsStaySolvent
<1>1. PipelineInit => AdvP!LedgerInv
  BY SameOperations, AmountsOfPipeline, AdvP!LedgerInvInit DEF PipelineInit
<1>2. PipelineInv /\ AdvP!LedgerInv /\ [PipelineNext]_pipelineVars => AdvP!LedgerInv'
  <2>1. SUFFICES ASSUME PipelineInv, AdvP!LedgerInv, [PipelineNext]_pipelineVars
                 PROVE  AdvP!LedgerInv'
    OBVIOUS
  <2>2. CASE UNCHANGED <<acct, ledger>>
    BY <2>1, <2>2 DEF AdvP!LedgerInv
  <2>3. ASSUME NEW c \in Offsets \union {RechargeRef}, NEW amt \in Prices \union Recharges,
               AdvP!Post(c, Advertiser, amt)
        PROVE  AdvP!LedgerInv'
    BY <2>1, <2>3, AmountsOfPipeline, AdvP!PostSound
  <2>4. QED
    BY <2>1, <2>2, <2>3, PipelinePosts
<1>3. AdvP!LedgerInv => RepeatsStaySolvent
  BY AmountsOfPipeline, AdvP!LedgerInvImplies, SamePromises
<1>4. QED
  BY <1>1, <1>2, <1>3, PipelineInvariant, PTL DEF PipelineSpec
==============================================================================
