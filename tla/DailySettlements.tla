---------------------------- MODULE DailySettlements ----------------------------
(***************************************************************************)
(* The platform's two tables (internal/platform/service.go and             *)
(* internal/repo/platform.go): the configured fee rate, and the table      *)
(* daily_settlements that the service replaces rows of and reports from.   *)
(*                                                                         *)
(* A settlement is filed under a date, an advertiser, a publisher and a    *)
(* campaign, the last three of which may be NULL.  The table is unique     *)
(* over the four, but NULLs are never equal.  Nothing in the repository    *)
(* calls UpsertDailySettlement yet; it is called with any of the           *)
(* settlements of the model, in any order, and again.                      *)
(***************************************************************************)
EXTENDS PlatformFees, Sequences, FiniteSetsExt

CONSTANTS
  Keys,            \* records of date, advertiser, publisher and campaign
  Figures,         \* gross revenue, for all the figures of a settlement, in grains
  Rates,           \* fee rates the configuration may hold
  Null,
  Missing,         \* no row platform_fee_rate
  MaxGross,        \* bound of the prices that are split
  MaxUpserts       \* bound of the upserts

ASSUME SettlementsAssumption ==
  /\ Figures \subseteq Nat
  /\ Rates \subseteq [num : Nat, den : Nat \ {0}]
  /\ MaxGross \in Nat /\ MaxUpserts \in Nat
  /\ Null \notin Int /\ Missing \notin Rates

VARIABLES
  config,          \* the value of platform_fee_rate, or Missing; no code writes it
  settlements,     \* daily_settlements in id order
  latest,          \* history, per key: the figure last reported, or Null
  reports          \* history, per key: how often one was reported

vars == <<config, settlements, latest, reports>>

\* Mutant of SameKey: the unique key leaves out the campaign.
SameKeyAnyCampaign(k, l) ==
  /\ k.date = l.date
  /\ k.advertiser = l.advertiser /\ k.advertiser # Null
  /\ k.publisher = l.publisher /\ k.publisher # Null

\* UNIQUE (date, advertiser_id, publisher_id, campaign_id): equal, and none NULL.
SameKey(k, l) ==
  /\ k = l
  /\ Null \notin {k.advertiser, k.publisher, k.campaign}

\* The rows an INSERT of key k conflicts with, by their place in the table.
Conflicts(k) == {n \in DOMAIN settlements : SameKey(settlements[n].key, k)}

------------------------------------------------------------------------------
Init ==
  /\ config \in Rates \union {Missing}
  /\ settlements = <<>>
  /\ latest = [k \in Keys |-> Null]
  /\ reports = [k \in Keys |-> 0]

\* Mutant of Replaced: the new figure is added to the old one.
ReplacedBySum(row, gross) == [row EXCEPT !.gross = @ + Stored(gross)]

\* DO UPDATE SET gross_revenue = EXCLUDED.gross_revenue, and the other figures.
Replaced(row, gross) == [row EXCEPT !.gross = Stored(gross)]

UpsertDailySettlement(k, gross) ==
  /\ settlements' =
       IF Conflicts(k) = {}
         THEN Append(settlements, [key |-> k, gross |-> Stored(gross)])
         ELSE [n \in DOMAIN settlements |->
                 IF n \in Conflicts(k) THEN Replaced(settlements[n], gross)
                                       ELSE settlements[n]]
  /\ latest' = [latest EXCEPT ![k] = Stored(gross)]
  /\ reports' = [reports EXCEPT ![k] = @ + 1]
  /\ UNCHANGED config

Upserts == MapThenSumSet(LAMBDA k : reports[k], Keys)

Next ==
  /\ Upserts < MaxUpserts
  /\ \E k \in Keys, gross \in Figures : UpsertDailySettlement(k, gross)

Spec == Init /\ [][Next]_vars

------------------------------------------------------------------------------
\* GetFeeRate.  A value that is no number is an error, and CalcFees one with it.
FeeRate == IF config = Missing THEN DefaultRate ELSE config

\* GetDailySummary: the rows of a date, by their place in the table, the order they come in.
Summary(date) == {n \in DOMAIN settlements : settlements[n].key.date = date}

(***************************************************************************)
(* CalcFees splits every price exactly, at every rate it may find          *)
(* configured (see SplitExact).                                            *)
(***************************************************************************)
SplitIsExact == \A gross \in 0 .. MaxGross : SplitExact(gross, FeeRate)

\* The places of a key in a report.
Places(report, k) == {n \in report : settlements[n].key = k}

(***************************************************************************)
(* The daily summary reports a key that names its advertiser, publisher    *)
(* and campaign once, with the figure last given for it, however often and *)
(* in whatever order the settlements of the day came in.  A key with a     *)
(* NULL is reported once for every time it came in, and the day's revenue  *)
(* with it: the table's unique key does not hold it.                       *)
(***************************************************************************)
SummaryIsCurrent ==
  \A k \in Keys :
    LET report == Summary(k.date) IN
      IF SameKey(k, k)
        THEN /\ Cardinality(Places(report, k)) = IF latest[k] = Null THEN 0 ELSE 1
             /\ \A n \in Places(report, k) : settlements[n].gross = latest[k]
        ELSE Cardinality(Places(report, k)) = reports[k]

(***************************************************************************)
(* Reporting a settlement again, as a settlement that is run twice for a   *)
(* date would, changes nothing if the key has no NULL.                     *)
(***************************************************************************)
RepeatsHarmless ==
  [][\A k \in Keys :
       SameKey(k, k) /\ reports'[k] > reports[k] /\ latest'[k] = latest[k]
       => settlements' = settlements]_vars
==============================================================================
