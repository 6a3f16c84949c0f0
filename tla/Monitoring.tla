----------------------------- MODULE Monitoring -----------------------------
(***************************************************************************)
(* The monitoring manager (server/src/monitoring.c): start, stop and        *)
(* destruction with the collection and alert threads, the ring of data      *)
(* points of one metric, the ring of snapshots, and the alert store with    *)
(* its cooldown, its limit and the callback that is called after the lock   *)
(* is released.                                                             *)
(*                                                                          *)
(* A value is "ok" or the level of the threshold it passes; only one level  *)
(* is told apart, as all are handled alike, and an alert is "ACTIVE" or,    *)
(* once acknowledged, resolved or silenced, "HANDLED".  Time is counted in  *)
(* half seconds: points less than Tolerance apart are one point.  The clock *)
(* does not go back, and points are not weeks apart, so that the abs() of   *)
(* an int does what it should.  Left out:                                   *)
(* reading /proc, JSON, the log, averages and trends, changes of the        *)
(* configuration and of thresholds.                                         *)
(***************************************************************************)
EXTENDS Integers, Sequences

CONSTANTS MonCallers,      \* application threads
          Updaters,        \* those that report values of the first metric
          HistorySize,     \* MONITORING_HISTORY_SIZE
          MaxAlerts,       \* MONITORING_MAX_ALERTS
          Metrics,         \* metric types of the alerts; the first has the history
          Cooldown,        \* alert_cooldown_seconds, in half seconds
          MaxStarts, MaxTime, MaxRaised, MaxSnapshots   \* bounds

Tolerance == 2
Metric1 == 1

ASSUME MonAssumption ==
    /\ Updaters \subseteq MonCallers
    /\ HistorySize \in Nat \ {0} /\ MaxAlerts \in Nat \ {0} /\ Cooldown \in Nat
    /\ Metric1 \in Metrics /\ MaxStarts \in Nat /\ MaxTime \in Nat

VARIABLES running, shutdown_requested,
          starts,          \* calls of monitoring_start that made threads
          collector, alerter,   \* where the threads of each start are
          destroying,      \* "no", "joining", "gone"
          time,
          points, start_index, pcount,      \* the history ring: timestamps
          created,         \* timestamps of all points ever created
          snapshots, snapshot_index, snapshot_count, taken,
          alerts, next_alert_id, last_alert_time,
          alertstuck,      \* alert_mutex is held by a thread that waits for it
          caller, cval     \* per caller: where it is, its value or alert

lifevars == <<running, shutdown_requested, starts, destroying>>
histvars == <<points, start_index, pcount, created>>
snapvars == <<snapshots, snapshot_index, snapshot_count, taken>>
alertvars == <<alerts, next_alert_id, last_alert_time, alertstuck>>
monvars == <<lifevars, collector, alerter, time, histvars, snapvars, alertvars, caller, cval>>

Run == 1..MaxStarts
Value == {"ok", "error"}

(* monitoring_manager_create *)
MonInit ==
    /\ running = FALSE /\ shutdown_requested = FALSE /\ starts = 0 /\ destroying = "no"
    /\ collector = [k \in Run |-> "none"] /\ alerter = [k \in Run |-> "none"]
    /\ time = 1
    /\ points = [i \in 0..(HistorySize - 1) |-> 0] /\ start_index = 0 /\ pcount = 0 /\ created = <<>>
    /\ snapshots = [i \in 0..(HistorySize - 1) |-> 0] /\ snapshot_index = 0
    /\ snapshot_count = 0 /\ taken = 0
    /\ alerts = <<>> /\ next_alert_id = 1 /\ last_alert_time = [m \in Metrics |-> 0]
    /\ alertstuck = FALSE
    /\ caller = [c \in MonCallers |-> "idle"] /\ cval = [c \in MonCallers |-> <<>>]

Alive == destroying # "gone"
Wanted == running /\ ~shutdown_requested

-----------------------------------------------------------------------------
(* Start, stop, destroy: none of them takes a lock. *)

(* monitoring_start; when the second thread cannot be made the first one is
   cancelled. *)
MonStart(ok) ==
    /\ destroying = "no" /\ ~running /\ starts < MaxStarts
    /\ starts' = starts + 1
    /\ running' = ok /\ shutdown_requested' = FALSE
    /\ collector' = [collector EXCEPT ![starts + 1] = IF ok THEN "loop" ELSE "ended"]
    /\ alerter' = [alerter EXCEPT ![starts + 1] = IF ok THEN "loop" ELSE "none"]
    /\ UNCHANGED <<destroying, time, histvars, snapvars, alertvars, caller, cval>>

MonStop ==
    /\ destroying = "no" /\ running
    /\ shutdown_requested' = TRUE /\ running' = FALSE
    /\ UNCHANGED <<starts, destroying, collector, alerter, time, histvars, snapvars, alertvars,
                   caller, cval>>

(* monitoring_manager_destroy stops and then joins; its owner calls it when
   no thread of his own uses the manager. *)
Destroy ==
    /\ destroying = "no" /\ \A c \in MonCallers : caller[c] = "idle"
    /\ destroying' = "joining"
    /\ shutdown_requested' = (shutdown_requested \/ running) /\ running' = FALSE
    /\ UNCHANGED <<starts, collector, alerter, time, histvars, snapvars, alertvars, caller, cval>>

(* The handles hold the threads of the last start; the alert thread's keeps
   an earlier one's when its creation failed. *)
AlertHandle(k) == alerter[k] # "none" /\ \A j \in (k + 1)..starts : alerter[j] = "none"

Joined ==
    /\ destroying = "joining"
    /\ starts > 0 => collector[starts] = "ended"
    /\ \A k \in 1..starts : AlertHandle(k) => alerter[k] = "ended"
    /\ destroying' = "gone"
    /\ UNCHANGED <<running, shutdown_requested, starts, collector, alerter, time, histvars,
                   snapvars, alertvars, caller, cval>>

-----------------------------------------------------------------------------
(* Data points, update_metric_history under data_mutex *)

At(i) == (start_index + i) % HistorySize
SamePoint == \E i \in 0..(pcount - 1) : time - points[At(i)] < Tolerance

(* Mutation variant: a full ring moves its start and keeps its count. *)
UpdateHistoryNoDrop ==
    IF SamePoint THEN UNCHANGED histvars
    ELSE /\ points' = [points EXCEPT ![At(pcount)] = time]
         /\ start_index' = IF pcount >= HistorySize THEN (start_index + 1) % HistorySize
                           ELSE start_index
         /\ pcount' = pcount + 1
         /\ created' = Append(created, time)

UpdateHistory ==
    IF SamePoint THEN UNCHANGED histvars
    ELSE LET full == pcount >= HistorySize
             s == IF full THEN (start_index + 1) % HistorySize ELSE start_index
             n == IF full THEN pcount - 1 ELSE pcount
         IN  /\ points' = [points EXCEPT ![(s + n) % HistorySize] = time]
             /\ start_index' = s /\ pcount' = n + 1
             /\ created' = Append(created, time)

(* add_snapshot *)
AddSnapshot ==
    /\ snapshots' = [snapshots EXCEPT ![snapshot_index] = taken + 1]
    /\ snapshot_index' = (snapshot_index + 1) % HistorySize
    /\ snapshot_count' = IF snapshot_count < HistorySize THEN snapshot_count + 1 ELSE snapshot_count
    /\ taken' = taken + 1

(* check_metric_thresholds of the first metric.  It holds alert_mutex while
   it looks for an active alert of the level, and when there is none calls
   monitoring_add_alert, which takes the mutex again. *)
ActiveAlert == \E i \in 1..Len(alerts) : alerts[i].metric = Metric1 /\ alerts[i].status = "ACTIVE"
Raises(v) == v # "ok"
Deadlocks(v) == Raises(v) /\ (alertstuck \/ ~ActiveAlert)

-----------------------------------------------------------------------------
(* The threads *)

(* A round begins when an interval is over; a snapshot is taken once a
   minute.  The test of the loop and the update are one step. *)
Collect(k, v) ==
    /\ collector[k] = "loop" /\ Wanted /\ Alive
    /\ UpdateHistory
    /\ collector' = [collector EXCEPT ![k] = v]
    /\ UNCHANGED <<lifevars, alerter, time, snapvars, alertvars, caller, cval>>

CollectChecks(k) ==
    /\ collector[k] \in Value /\ Alive
    /\ IF Deadlocks(collector[k])
       THEN collector' = [collector EXCEPT ![k] = "blocked"] /\ alertstuck' = TRUE /\ UNCHANGED snapvars
       ELSE /\ collector' = [collector EXCEPT ![k] = "loop"] /\ UNCHANGED alertstuck
            /\ \/ UNCHANGED snapvars
               \/ taken < MaxSnapshots /\ AddSnapshot
    /\ UNCHANGED <<lifevars, alerter, time, histvars, alerts, next_alert_id,
                   last_alert_time, caller, cval>>

CollectEnds(k) ==
    /\ collector[k] = "loop" /\ ~Wanted /\ Alive
    /\ collector' = [collector EXCEPT ![k] = "ended"]
    /\ UNCHANGED <<lifevars, alerter, time, histvars, snapvars, alertvars, caller, cval>>

(* The alert thread sleeps and reports the health of the metrics until it is
   told to end. *)
AlertEnds(k) ==
    /\ alerter[k] = "loop" /\ ~Wanted /\ Alive
    /\ alerter' = [alerter EXCEPT ![k] = "ended"]
    /\ UNCHANGED <<lifevars, collector, time, histvars, snapvars, alertvars, caller, cval>>

-----------------------------------------------------------------------------
(* The application's calls *)

Idle(c) == caller[c] = "idle" /\ destroying = "no"

(* monitoring_update_metric: the history, then the thresholds. *)
UpdateMetric(c, v) ==
    /\ Idle(c)
    /\ UpdateHistory
    /\ caller' = [caller EXCEPT ![c] = "check"] /\ cval' = [cval EXCEPT ![c] = <<v>>]
    /\ UNCHANGED <<lifevars, collector, alerter, time, snapvars, alertvars>>

UpdateChecks(c) ==
    /\ caller[c] = "check"
    /\ caller' = [caller EXCEPT ![c] = IF Deadlocks(cval[c][1]) THEN "blocked" ELSE "idle"]
    /\ cval' = [cval EXCEPT ![c] = <<>>]
    /\ alertstuck' = (alertstuck \/ Deadlocks(cval[c][1]))
    /\ UNCHANGED <<lifevars, collector, alerter, time, histvars, snapvars, alerts, next_alert_id,
                   last_alert_time>>

Cooled(m) == last_alert_time[m] > 0 => time - last_alert_time[m] >= Cooldown

(* monitoring_add_alert under the mutex: at the limit the oldest goes; the
   pointer to the new one is its place. *)
AddAlert(c, m) ==
    LET kept == IF Len(alerts) >= MaxAlerts THEN Tail(alerts) ELSE alerts
    IN  /\ Idle(c) /\ ~alertstuck /\ Cooled(m) /\ next_alert_id <= MaxRaised
        /\ alerts' = Append(kept, [id |-> next_alert_id, metric |-> m,
                                   status |-> "ACTIVE", raised |-> time])
        /\ next_alert_id' = next_alert_id + 1
        /\ last_alert_time' = [last_alert_time EXCEPT ![m] = time]
        /\ caller' = [caller EXCEPT ![c] = "callback"]
        /\ cval' = [cval EXCEPT ![c] = <<Len(kept) + 1, next_alert_id>>]
        /\ UNCHANGED <<lifevars, collector, alerter, time, histvars, snapvars, alertstuck>>

(* trigger_alert_callbacks reads the alert through the pointer, unlocked. *)
Callback(c) ==
    /\ caller[c] = "callback"
    /\ caller' = [caller EXCEPT ![c] = "idle"] /\ cval' = [cval EXCEPT ![c] = <<>>]
    /\ UNCHANGED <<lifevars, collector, alerter, time, histvars, snapvars, alerts, next_alert_id,
                   last_alert_time, alertstuck>>

(* monitoring_acknowledge_alert, _resolve_alert and _silence_alert set the
   status whatever it was. *)
SetStatus(c, i) ==
    /\ Idle(c) /\ ~alertstuck /\ i \in 1..Len(alerts) /\ alerts[i].status = "ACTIVE"
    /\ alerts' = [alerts EXCEPT ![i].status = "HANDLED"]
    /\ UNCHANGED <<lifevars, collector, alerter, time, histvars, snapvars, next_alert_id,
                   last_alert_time, alertstuck, caller, cval>>

MonTick ==
    /\ Alive /\ time < MaxTime /\ time' = time + 1
    /\ UNCHANGED <<lifevars, collector, alerter, histvars, snapvars, alertvars, caller, cval>>

Collects(k) == (\E v \in Value : Collect(k, v)) \/ CollectChecks(k) \/ CollectEnds(k)

UpdateCalls(c) == (\E v \in Value : UpdateMetric(c, v)) \/ UpdateChecks(c)
AlertCalls(c) == (\E m \in Metrics : AddAlert(c, m)) \/ Callback(c)

(* The threads of the manager with callers, and callers without them. *)
CollectionNext ==
    \/ \E ok \in BOOLEAN : MonStart(ok)
    \/ MonStop \/ Destroy \/ Joined \/ MonTick
    \/ \E k \in Run : Collects(k) \/ AlertEnds(k)
    \/ \E c \in Updaters : UpdateCalls(c)

AlertNext ==
    \/ MonTick
    \/ \E c \in Updaters : UpdateCalls(c)
    \/ \E c \in MonCallers :
         \/ AlertCalls(c)
         \/ \E i \in 1..MaxAlerts : SetStatus(c, i)

MonNext == CollectionNext \/ AlertNext

(* The threads are scheduled, and destroy goes on when it can. *)
MonFairness ==
    /\ WF_monvars(Joined)
    /\ \A k \in Run : WF_monvars(Collects(k)) /\ WF_monvars(AlertEnds(k))

MonSpec == MonInit /\ [][MonNext]_monvars /\ MonFairness

-----------------------------------------------------------------------------
(* Properties *)

MonTypeOK ==
    /\ running \in BOOLEAN /\ shutdown_requested \in BOOLEAN /\ starts \in 0..MaxStarts
    /\ destroying \in {"no", "joining", "gone"} /\ time \in 1..MaxTime
    /\ collector \in [Run -> {"none", "loop", "blocked", "ended"} \union Value]
    /\ alerter \in [Run -> {"none", "loop", "ended"}]
    /\ start_index \in 0..(HistorySize - 1) /\ pcount \in 0..HistorySize
    /\ snapshot_index \in 0..(HistorySize - 1) /\ snapshot_count \in 0..HistorySize
    /\ Len(alerts) <= MaxAlerts /\ alertstuck \in BOOLEAN
    /\ caller \in [MonCallers -> {"idle", "check", "blocked", "callback"}]

Newest(s) == SubSeq(s, IF Len(s) > HistorySize THEN Len(s) - HistorySize + 1 ELSE 1, Len(s))

(* Whatever the collection threads and the callers of monitoring_update_metric
   add, and however often the rings turn over, the history holds the newest
   points in order, no two of them closer than a second, and the snapshots
   are the newest ones (lines 796-830, 958-975). *)
RingsKeepNewest ==
    /\ pcount = Len(Newest(created))
    /\ \A i \in 1..pcount : points[At(i - 1)] = Newest(created)[i]
    /\ \A i \in 1..(Len(created) - 1) : created[i + 1] - created[i] >= Tolerance
    /\ \A n \in 1..taken : n > taken - HistorySize => snapshots[(n - 1) % HistorySize] = n
=============================================================================
