----------------------------- MODULE Monitoring -----------------------------
(***************************************************************************)
(* OperationalNotificationService: monitors that look at the PipelineRuns  *)
(* of a source while these start, end and grow old, and notify each alert  *)
(* once on every channel.                                                  *)
(*                                                                         *)
(* A monitor reads the runs, then the ones that are running; it inserts a  *)
(* notification under the unique key of the alert and channel, delivers    *)
(* it, goes on to the next, and commits all of them at its end.  A second  *)
(* insert of a key waits for the first one's transaction.                  *)
(***************************************************************************)
EXTENDS Naturals, Sequences, FiniteSets

CONSTANTS
    Monitors,
    Channels,       \* the numbers of the channels in their order: LOG, FILE
    MaxHistory,     \* a bound on the runs of the source
    MaxLost,        \* a bound on the monitors that are lost
    MaxFailed       \* a bound on the keys whose delivery failed

ASSUME MonitoringAssumption == {MaxHistory, MaxLost, MaxFailed} \subseteq Nat

VARIABLES
    history,        \* the status of the runs, in the order of their start
    old,            \* runs that ran too long, or whose success is too long ago
    notice,         \* the delivery status of each notification
    deliveries,     \* how often a notification was written to its channel
    monitor,        \* where each monitor is
    lost

monitoringVars == <<history, old, notice, deliveries, monitor, lost>>

RunIds == 1..MaxHistory
RunStatuses == {"RUNNING", "SUCCESS", "PARTIAL", "FAILED"}
Place == [RUNNING_STALE |-> 1, PIPELINE_FAILED |-> 2, SUCCESS_OVERDUE |-> 3]
AlertTypes == DOMAIN Place
AlertKeys == AlertTypes \X RunIds \X Channels

\* completed is what the first read found of each run; todo are the keys it
\* has still to see to, done those it has seen to, mine its uncommitted rows.
IdleMonitor ==
    [at |-> "idle", completed |-> <<>>, todo |-> {}, done |-> {},
     mine |-> [k \in AlertKeys |-> "none"]]

MonitoringInit ==
    /\ history = <<>> /\ old = {}
    /\ notice = [k \in AlertKeys |-> "none"]
    /\ deliveries = [k \in AlertKeys |-> 0]
    /\ monitor = [m \in Monitors |-> IdleMonitor]
    /\ lost = 0

----------------------------------------------------------------------------
(* The pipelines, and time.                                                *)

StartRun ==
    /\ Len(history) < MaxHistory
    /\ history' = Append(history, "RUNNING")
    /\ UNCHANGED <<old, notice, deliveries, monitor, lost>>

EndRun(r, status) ==
    /\ history[r] = "RUNNING" /\ status # "RUNNING"
    /\ history' = [history EXCEPT ![r] = status]
    /\ old' = old \ {r}
    /\ UNCHANGED <<notice, deliveries, monitor, lost>>

GrowOld(r) ==
    /\ history[r] \in {"RUNNING", "SUCCESS"} /\ r \notin old
    /\ old' = old \cup {r}
    /\ UNCHANGED <<history, notice, deliveries, monitor, lost>>

----------------------------------------------------------------------------
(* evaluate, of what the first read found and the runs that run.           *)

With(h, status) == {r \in DOMAIN h : h[r] = status}
LastRun(S) == IF S = {} THEN 0 ELSE CHOOSE r \in S : \A q \in S : q <= r

Running == With(history, "RUNNING")
StaleRunning == Running \cap old
Overdue(h) == LastRun(With(h, "SUCCESS")) \in old

Failed(h) ==
    {r \in {LastRun(With(h, "FAILED"))} : r > LastRun(With(h, "SUCCESS"))}

Alerts(h) ==
    ({"RUNNING_STALE"} \X StaleRunning)
    \cup ({"PIPELINE_FAILED"} \X Failed(h))
    \cup {<<"SUCCESS_OVERDUE", r>> : r \in {x \in {LastRun(With(h, "SUCCESS"))} :
                                            Overdue(h) /\ Running = {}}}

LastCompleted(h) == LastRun({r \in DOMAIN h : h[r] # "RUNNING"})

Health(h) ==
    CASE StaleRunning # {} -> "STALE"
      [] StaleRunning = {} /\ Running # {} -> "RUNNING"
      [] OTHER ->
            IF LastCompleted(h) = 0 THEN "NO_DATA"
            ELSE IF h[LastCompleted(h)] = "FAILED" THEN "FAILED"
            ELSE IF Overdue(h) THEN "STALE"
            ELSE IF h[LastCompleted(h)] = "PARTIAL" THEN "DEGRADED" ELSE "HEALTHY"

----------------------------------------------------------------------------
(* A monitor.  (One that runs dry writes nothing, and is left out.)        *)

ReadRuns(m) ==
    /\ monitor[m].at = "idle"
    /\ monitor' = [monitor EXCEPT ![m] =
          [IdleMonitor EXCEPT !.at = "read", !.completed = history]]
    /\ UNCHANGED <<history, old, notice, deliveries, lost>>

Evaluate(m) ==
    /\ monitor[m].at = "read"
    /\ monitor' = [monitor EXCEPT ![m].at = "notify", ![m].completed = <<>>,
          ![m].todo = {<<a[1], a[2], c>> : a \in Alerts(monitor[m].completed), c \in Channels}]
    /\ UNCHANGED <<history, old, notice, deliveries, lost>>

\* Stale runs come first, the latest at their head, the overdue success last;
\* the channels of an alert in their order.
Before(j, k) ==
    \/ Place[j[1]] < Place[k[1]]
    \/ j[1] = k[1] /\ j[2] > k[2]
    \/ j[1] = k[1] /\ j[2] = k[2] /\ j[3] < k[3]

At(m, k) == k \in monitor[m].todo /\ \A j \in monitor[m].todo : ~Before(j, k)
See(m, k) == [monitor EXCEPT ![m].todo = @ \ {k}, ![m].done = @ \cup {k}]

\* The alert was notified before.
Skip(m, k) ==
    /\ At(m, k) /\ notice[k] # "none"
    /\ monitor' = See(m, k)
    /\ UNCHANGED <<history, old, notice, deliveries, lost>>

FailedKeys ==
    {k \in AlertKeys : notice[k] = "FAILED" \/ \E m \in Monitors : monitor[m].mine[k] = "FAILED"}
Deliveries ==
    {"DELIVERED"} \cup (IF Cardinality(FailedKeys) < MaxFailed THEN {"FAILED"} ELSE {})

\* Mutant: the key is not unique.
NotifyAnyway(m, k) ==
    /\ At(m, k)
    /\ \E status \in Deliveries :
          /\ monitor' = [See(m, k) EXCEPT ![m].mine[k] = status]
          /\ deliveries' = [deliveries EXCEPT ![k] = @ + IF status = "FAILED" THEN 0 ELSE 1]
    /\ UNCHANGED <<history, old, notice, lost>>

\* Inserted and delivered: a failure to write is recorded, and not repeated.
Notify(m, k) ==
    /\ At(m, k)
    /\ notice[k] = "none" /\ \A n \in Monitors : monitor[n].mine[k] = "none"
    /\ \E status \in Deliveries :
          /\ monitor' = [See(m, k) EXCEPT ![m].mine[k] = status]
          /\ deliveries' = [deliveries EXCEPT ![k] = @ + IF status = "FAILED" THEN 0 ELSE 1]
    /\ UNCHANGED <<history, old, notice, lost>>

CommitNotices(m) ==
    /\ monitor[m].at = "notify" /\ monitor[m].todo = {}
    /\ notice' = [k \in AlertKeys |->
          IF monitor[m].mine[k] = "none" THEN notice[k] ELSE monitor[m].mine[k]]
    /\ monitor' = [monitor EXCEPT ![m] = IdleMonitor]
    /\ UNCHANGED <<history, old, deliveries, lost>>

\* A database error or a lost process rolls every row of the monitor back; one
\* that has written nothing yet loses nothing.
LoseMonitor(m) ==
    /\ \E k \in AlertKeys : monitor[m].mine[k] # "none"
    /\ lost < MaxLost
    /\ monitor' = [monitor EXCEPT ![m] = IdleMonitor]
    /\ lost' = lost + 1
    /\ UNCHANGED <<history, old, notice, deliveries>>

MonitoringNext ==
    \/ StartRun
    \/ \E r \in DOMAIN history : GrowOld(r) \/ \E status \in RunStatuses : EndRun(r, status)
    \/ \E m \in Monitors :
          \/ ReadRuns(m) \/ Evaluate(m) \/ CommitNotices(m) \/ LoseMonitor(m)
          \/ \E k \in AlertKeys : Skip(m, k) \/ Notify(m, k)

MonitoringSpec == MonitoringInit /\ [][MonitoringNext]_monitoringVars

----------------------------------------------------------------------------
Uncommitted(k) == {m \in Monitors : monitor[m].mine[k] = "DELIVERED"}

\* A notification reaches its channel once, and once more for every monitor
\* that was lost before it committed; it is about a run that is or was what
\* it says.  A source is healthy only if there is no alert, and what has
\* failed or is stale has one.
NoticesSound ==
    /\ \A k \in AlertKeys :
          /\ deliveries[k] <= Cardinality(Uncommitted(k)) + lost
                              + (IF notice[k] = "DELIVERED" THEN 1 ELSE 0)
          /\ deliveries[k] >= Cardinality(Uncommitted(k))
                              + (IF notice[k] = "DELIVERED" THEN 1 ELSE 0)
          /\ Cardinality(Uncommitted(k)) <= 1
          /\ notice[k] # "none" =>
                /\ k[2] \in DOMAIN history
                /\ k[1] = "PIPELINE_FAILED" => history[k[2]] = "FAILED"
                /\ k[1] = "SUCCESS_OVERDUE" => history[k[2]] = "SUCCESS" /\ k[2] \in old
    /\ Health(history) = "HEALTHY" => Alerts(history) = {}
    /\ Health(history) \in {"FAILED", "STALE"} => Alerts(history) # {}

\* A notification is recorded once, and a monitor that commits leaves no alert
\* that it has evaluated without one.
NoticesKept ==
    [][/\ \A k \in AlertKeys : notice[k] # "none" => notice'[k] = notice[k]
       /\ \A m \in Monitors : monitor[m].at = "notify" /\ lost' = lost
             => \A k \in monitor[m].todo \cup monitor[m].done :
                   monitor'[m].at = "idle" => notice'[k] # "none"
      ]_monitoringVars
=============================================================================
