-------------------------------- MODULE EventFeed --------------------------------
(***************************************************************************)
(* What a consumer group promises of a partition: events are published in  *)
(* order and finished at least once, in any order and by anybody; the      *)
(* group's cursor only moves forward, and only past events somebody has    *)
(* finished, or that were already there when the group began to read at    *)
(* the end of the partition.                                               *)
(*                                                                         *)
(* EventConsumer shows that internal/consumer/event.go, with Kafka and     *)
(* sarama as it uses them, implements it through every rebalance,          *)
(* eviction and crash.                                                     *)
(***************************************************************************)
EXTENDS Integers, Sequences

CONSTANTS
  Events,          \* what may be published
  None             \* the cursor of a group that has never committed

VARIABLES
  log,             \* the partition: a sequence of events
  cursor,          \* the next event the group has to finish, or None
  finished,        \* offsets of the events somebody has finished
  missed           \* offsets of the events the group did not begin with

feedVars == <<log, cursor, finished, missed>>

Published == 1 .. Len(log)

\* The cursor may stand at c: nothing before it is left to do.
Settled(c) == \A o \in 1 .. c - 1 : o \in finished \union missed

FeedInit ==
  /\ log = <<>>
  /\ cursor = None
  /\ finished = {}
  /\ missed = {}

Announce ==
  /\ \E e \in Events : log' = Append(log, e)
  /\ UNCHANGED <<cursor, finished, missed>>

\* The group begins at the end of the partition, because it has no cursor.
BeginAtEnd ==
  /\ cursor = None
  /\ missed' = missed \union (Published \ finished)
  /\ UNCHANGED <<log, cursor, finished>>

Finish ==
  /\ \E o \in Published : finished' = finished \union {o}
  /\ UNCHANGED <<log, cursor, missed>>

MoveCursor ==
  /\ cursor' \in 1 .. Len(log) + 1
  /\ cursor = None \/ cursor' > cursor
  /\ Settled(cursor')
  /\ UNCHANGED <<log, finished, missed>>

FeedNext == Announce \/ BeginAtEnd \/ Finish \/ MoveCursor

FeedSpec == FeedInit /\ [][FeedNext]_feedVars
==============================================================================
