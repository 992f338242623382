----------------------------- MODULE ServiceProcess -----------------------------
(***************************************************************************)
(* The instances of the service (cmd/billing/main.go), which share their   *)
(* stores and nothing else.  A process starts the HTTP server and the      *)
(* settlement timer (internal/platform/settlement_job.go), waits for a     *)
(* signal, cancels what runs in the background, gives requests in flight   *)
(* fifteen seconds to end, and closes its connections to the stores.  It   *)
(* may also die at any moment, and be started again; the processes of      *)
(* several instances overlap as they please.                               *)
(*                                                                         *)
(* Two clocks matter.  nextRunTime reads the host's wall clock, which may  *)
(* be set back; the timer it arms counts monotonic time, as Shutdown's     *)
(* timeout does.  A tick is the resolution of both, so that a run of the   *)
(* job does not end at the instant it began.  The consumer is not here:    *)
(* for EventConsumer a shutdown is a cancelled session and perhaps a crash. *)
(***************************************************************************)
EXTENDS Integers

CONSTANTS
  Instances,       \* hosts a process of the service runs on, one at a time
  Requests,        \* HTTP requests that may be made of an instance
  DayLength,       \* ticks in a day
  RunAt,           \* the tick of the day that is 01:00 UTC
  MaxLag,          \* ticks by which a timer may fire late
  DrainTicks,      \* the fifteen seconds of Shutdown
  MaxDays,         \* bound of the time
  MaxStarts,       \* bound of the processes started, on all hosts
  MaxSetBacks      \* bound of the times a wall clock is set back, a tick each:
                   \* no clock is, once one of them was so often

ASSUME ProcessAssumption ==
  /\ {DayLength, DrainTicks, MaxDays} \subseteq Nat \ {0}
  /\ {MaxLag, MaxStarts, MaxSetBacks} \subseteq Nat
  /\ RunAt \in 1 .. DayLength - 1 /\ RunAt + MaxLag < DayLength

VARIABLES
  time,            \* monotonic time, the same on every host
  \* and of each instance:
  setbacks,        \* how often its wall clock was set back
  main,            \* "down", "up", "draining" in Shutdown, "closing" after it
  drain,           \* when Shutdown gives up on the requests in flight
  stores,          \* its connections to Redis and PostgreSQL: "open" or "closed"
  server,          \* the listener: "serving", "failed" or "closed"
  request,         \* each request: "none", "active", "answered" or "cut"
  job,             \* SettlementJob.Start: "schedule", "sleep", "running" or "gone"
  timer,           \* when time.After fires
  since,           \* history: when by its wall clock the process started
  runs,            \* history, per date: runs of the settlement for it
  starts           \* history: processes started, on all hosts

clock == <<time, setbacks>>
service == <<drain, stores, server, request>>
timing == <<job, timer, runs>>
processVars == <<clock, main, service, timing, since, starts>>

MaxTime == MaxDays * DayLength

Dates == -1 .. MaxDays

DayOf(t) == t \div DayLength

\* 01:00 UTC of day d.
RunTime(d) == d * DayLength + RunAt

\* The wall clock of i, UTC.
Now(i) == time - setbacks[i]

------------------------------------------------------------------------------
(* SettlementJob. *)

\* Mutant of NextRunTime: at 01:00 sharp it is too late for today.
NextRunTimeLater(t) ==
  IF t >= RunTime(DayOf(t)) THEN RunTime(DayOf(t) + 1) ELSE RunTime(DayOf(t))

\* Mutant of NextRunTime: never tomorrow's.
NextRunTimeToday(t) == RunTime(DayOf(t))

\* Only a time after today's 01:00 leads to tomorrow's.
NextRunTime(t) ==
  IF t > RunTime(DayOf(t)) THEN RunTime(DayOf(t) + 1) ELSE RunTime(DayOf(t))

Schedule(i) ==
  /\ job[i] = "schedule"
  /\ timer' = [timer EXCEPT ![i] = time + (NextRunTime(Now(i)) - Now(i))]
  /\ job' = [job EXCEPT ![i] = "sleep"]
  /\ UNCHANGED <<clock, main, service, runs, since, starts>>

\* The timer has fired: run settles yesterday, for now by logging its date, and
\* asks no other instance.  The select may take this branch even if the context
\* has been cancelled as well.
Run(i) ==
  /\ job[i] = "sleep" /\ timer[i] <= time
  /\ runs' = [runs EXCEPT ![i][DayOf(Now(i)) - 1] = @ + 1]
  /\ job' = [job EXCEPT ![i] = "running"]
  /\ UNCHANGED <<clock, main, service, timer, since, starts>>

\* ctx.Done.
JobStops(i) ==
  /\ job[i] = "sleep" /\ main[i] \in {"draining", "closing"}
  /\ job' = [job EXCEPT ![i] = "gone"]
  /\ UNCHANGED <<clock, main, service, timer, runs, since, starts>>

------------------------------------------------------------------------------
(* The HTTP server. *)

\* ListenAndServe fails: the error is logged, the process goes on without HTTP.
ServerFails(i) ==
  /\ server[i] = "serving"
  /\ server' = [server EXCEPT ![i] = "failed"]
  /\ UNCHANGED <<clock, main, drain, stores, request, timing, since, starts>>

Accept(i, r) ==
  /\ server[i] = "serving"
  /\ request[i][r] = "none"
  /\ request' = [request EXCEPT ![i][r] = "active"]
  /\ UNCHANGED <<clock, main, drain, stores, server, timing, since, starts>>

\* The handler returns; it may also hang, for instance on a row lock.
Answer(i, r) ==
  /\ request[i][r] = "active"
  /\ request' = [request EXCEPT ![i][r] = "answered"]
  /\ UNCHANGED <<clock, main, drain, stores, server, timing, since, starts>>

------------------------------------------------------------------------------
(* main. *)

InFlight(i) == {r \in Requests : request[i][r] = "active"}

\* The goroutines are started, whatever runs on other hosts; the timer is armed
\* before it counts.  It takes a process a tick at least to follow another.
Start(i) ==
  /\ main[i] = "down" /\ job[i] = "gone"
  /\ starts < MaxStarts
  /\ main' = [main EXCEPT ![i] = "up"]
  /\ stores' = [stores EXCEPT ![i] = "open"]
  /\ server' = [server EXCEPT ![i] = "serving"]
  /\ job' = [job EXCEPT ![i] = "schedule"]
  /\ since' = [since EXCEPT ![i] = Now(i)]
  /\ starts' = starts + 1
  /\ UNCHANGED <<clock, drain, request, timer, runs>>

\* SIGINT or SIGTERM: cancel(), then Shutdown closes the listener.
Signal(i) ==
  /\ main[i] = "up"
  /\ main' = [main EXCEPT ![i] = "draining"]
  /\ drain' = [drain EXCEPT ![i] = time + DrainTicks]
  /\ server' = [server EXCEPT ![i] = "closed"]
  /\ UNCHANGED <<clock, stores, request, timing, since, starts>>

\* Mutant of ShutdownReturns: it does not look at the requests in flight.
ShutdownReturnsAtOnce(i) ==
  /\ main[i] = "draining"
  /\ main' = [main EXCEPT ![i] = "closing"]
  /\ UNCHANGED <<clock, service, timing, since, starts>>

\* Mutant of ShutdownReturns: without the timeout.
ShutdownWaits(i) ==
  /\ main[i] = "draining"
  /\ InFlight(i) = {}
  /\ main' = [main EXCEPT ![i] = "closing"]
  /\ UNCHANGED <<clock, service, timing, since, starts>>

\* No request is in flight, or the timeout has passed and the error is logged.
ShutdownReturns(i) ==
  /\ main[i] = "draining"
  /\ InFlight(i) = {} \/ drain[i] <= time
  /\ main' = [main EXCEPT ![i] = "closing"]
  /\ UNCHANGED <<clock, service, timing, since, starts>>

\* The deferred rdb.Close and db.Close.
CloseStores(i) ==
  /\ main[i] = "closing" /\ stores[i] = "open"
  /\ stores' = [stores EXCEPT ![i] = "closed"]
  /\ UNCHANGED <<clock, main, drain, server, request, timing, since, starts>>

\* The process ends with everything in it; Tick ends a run that was under way.
End(i) ==
  /\ main' = [main EXCEPT ![i] = "down"]
  /\ stores' = [stores EXCEPT ![i] = "closed"]
  /\ server' = [server EXCEPT ![i] = "closed"]
  /\ job' = [job EXCEPT ![i] = IF @ = "running" THEN "running" ELSE "gone"]
  /\ drain' = [drain EXCEPT ![i] = 0] /\ timer' = [timer EXCEPT ![i] = 0]
  /\ request' = [request EXCEPT ![i] =
                   [r \in Requests |-> IF @[r] = "active" THEN "cut" ELSE @[r]]]
  /\ UNCHANGED <<clock, runs, since, starts>>

Exit(i) == main[i] = "closing" /\ stores[i] = "closed" /\ End(i)

Crash(i) == main[i] # "down" /\ End(i)

------------------------------------------------------------------------------
(* Time passes, but not over a timer that is MaxLag late, nor over an armed
   timeout that has run out, nor while a loop computes the next run.  A run that
   was under way has ended. *)
Tick ==
  /\ \/ time < MaxTime
     \/ \E i \in Instances : job[i] = "running" \/ (main[i] = "draining" /\ time < drain[i])
  /\ \A i \in Instances :
       /\ job[i] # "schedule"
       /\ job[i] = "sleep" => time < timer[i] + MaxLag
  /\ time' = time + 1
  /\ job' = [i \in Instances |-> IF job[i] # "running" THEN job[i]
                               ELSE IF main[i] = "down" THEN "gone" ELSE "schedule"]
  /\ UNCHANGED <<setbacks, main, service, timer, runs, since, starts>>

SetBack(i) ==
  /\ \A j \in Instances : setbacks[j] < MaxSetBacks
  /\ Now(i) > 0
  /\ setbacks' = [setbacks EXCEPT ![i] = @ + 1]
  /\ UNCHANGED <<time, main, service, timing, since, starts>>

ProcessInit ==
  /\ time = 0 /\ setbacks = [i \in Instances |-> 0]
  /\ main = [i \in Instances |-> "down"] /\ drain = [i \in Instances |-> 0]
  /\ stores = [i \in Instances |-> "closed"] /\ server = [i \in Instances |-> "closed"]
  /\ request = [i \in Instances |-> [r \in Requests |-> "none"]]
  /\ job = [i \in Instances |-> "gone"] /\ timer = [i \in Instances |-> 0]
  /\ since = [i \in Instances |-> 0] /\ starts = 0
  /\ runs = [i \in Instances |-> [d \in Dates |-> 0]]

\* Nobody starts a process again.
Finished ==
  /\ \A i \in Instances : main[i] = "down"
  /\ starts = MaxStarts
  /\ UNCHANGED processVars

InstanceNext(i) ==
  \/ Schedule(i) \/ Run(i) \/ JobStops(i)
  \/ ServerFails(i) \/ \E r \in Requests : Accept(i, r) \/ Answer(i, r)
  \/ Start(i) \/ Signal(i) \/ ShutdownReturns(i) \/ CloseStores(i)
  \/ Exit(i) \/ Crash(i) \/ SetBack(i)

ProcessNext == Tick \/ (\E i \in Instances : InstanceNext(i)) \/ Finished

ProcessSpec == ProcessInit /\ [][ProcessNext]_processVars

(***************************************************************************)
(* Time passes, goroutines run, and main goes on; a handler may hang, and  *)
(* nobody has to send a request or a signal, or to start a process.        *)
(***************************************************************************)
FairSpec ==
  /\ ProcessSpec
  /\ WF_processVars(Tick)
  /\ \A i \in Instances :
       /\ WF_processVars(Schedule(i)) /\ WF_processVars(Run(i))
       /\ WF_processVars(ShutdownReturns(i)) /\ WF_processVars(CloseStores(i))
       /\ WF_processVars(Exit(i))

------------------------------------------------------------------------------
TypeOK ==
  /\ time \in Nat /\ starts \in 0 .. MaxStarts
  /\ setbacks \in [Instances -> 0 .. MaxSetBacks]
  /\ main \in [Instances -> {"down", "up", "draining", "closing"}]
  /\ drain \in [Instances -> Nat]
  /\ stores \in [Instances -> {"open", "closed"}]
  /\ server \in [Instances -> {"serving", "failed", "closed"}]
  /\ request \in [Instances -> [Requests -> {"none", "active", "answered", "cut"}]]
  /\ job \in [Instances -> {"schedule", "sleep", "running", "gone"}]
  /\ timer \in [Instances -> Int]
  /\ since \in [Instances -> Int]
  /\ runs \in [Instances -> [Dates -> Nat]]

(***************************************************************************)
(* A process that was up at 01:00 has settled the day before, at most the  *)
(* timer's lag later: also if it started at that very moment, and whatever *)
(* was done to its clock.  A process started later leaves it unsettled;    *)
(* nothing looks for dates that were left out.                             *)
(***************************************************************************)
NoDayLeftOut ==
  \A i \in Instances : main[i] = "up" =>
    \A d \in Dates :
      since[i] <= RunTime(d + 1) /\ RunTime(d + 1) + MaxLag < Now(i) => runs[i][d] > 0

(***************************************************************************)
(* One instance settles a date once, however often its process is started  *)
(* again, and once more at most for each time its clock was set back: the  *)
(* timer then fires before 01:00, and nextRunTime finds the same 01:00     *)
(* still ahead.  Of several instances that are up each settles the date:   *)
(* their timers know nothing of each other.                                *)
(***************************************************************************)
SettledOncePerInstance ==
  \A i \in Instances, d \in Dates : runs[i][d] <= 1 + setbacks[i]

(***************************************************************************)
(* The stores stay open for the requests in flight: none finds them closed *)
(* unless it had all of the time Shutdown gives it.                        *)
(***************************************************************************)
DrainedBeforeClosing ==
  \A i \in Instances : InFlight(i) # {} /\ stores[i] = "closed" => drain[i] <= time

(***************************************************************************)
(* A signal ends the process, even if a request hangs.                     *)
(***************************************************************************)
ShutdownCompletes ==
  \A i \in Instances : main[i] = "draining" ~> main[i] = "down"
==============================================================================
