---------------------------- MODULE DriverRecovery ----------------------------
(***************************************************************************)
(* The Device Manager's records of one driver: Supervised, which rations   *)
(* its restarts, and RequestLog, which knows the requests a crash has cut  *)
(* off.  Nothing routes requests through the manager yet: the clients and  *)
(* the driver below call the two records the way their comments tell.      *)
(***************************************************************************)
EXTENDS Naturals, FiniteSets, Sequences

CONSTANTS
  NoRequest,     \* a free slot of the log
  Request,       \* client-supplied request ids
  LogSize,       \* MAX_IN_FLIGHT_REQUESTS
  MaxRestarts,   \* MAX_RESTARTS_IN_WINDOW
  Window,        \* FAILURE_WINDOW_NS
  MaxTime,       \* bound: the clock
  MaxCrashes     \* bound: crashes

ASSUME LogAssumption    == LogSize \in Nat /\ NoRequest \notin Request
ASSUME PolicyAssumption == MaxRestarts \in Nat /\ Window \in Nat

VARIABLES
  sup,        \* Supervised
  log,        \* RequestLog::entries, a slot per in-flight request
  now,        \* the clock a crash is stamped with
  accepted,   \* requests taken and not answered
  crashes     \* the times of all crashes, oldest first

recovery == <<sup, log, now, accepted, crashes>>

Slot      == 1 .. LogSize
InFlight  == {log[k] : k \in Slot} \ {NoRequest}

RecoveryInit ==
  /\ sup = [state |-> "Starting", restarts |-> 0, start |-> 0]
  /\ log = [k \in Slot |-> NoRequest]
  /\ now = 1 /\ accepted = {} /\ crashes = <<>>

Advance ==
  /\ now < MaxTime /\ now' = now + 1
  /\ UNCHANGED <<sup, log, accepted, crashes>>

OnProbeOk ==
  /\ sup.state = "Starting"
  /\ sup' = [sup EXCEPT !.state = "Running"]
  /\ UNCHANGED <<log, now, accepted, crashes>>

\* on_crash: the window starts anew when there is none or it has elapsed.
\* mutant of Counted: the elapsed window is never left
CountedForever == [start |-> IF sup.start = 0 THEN now ELSE sup.start, restarts |-> sup.restarts + 1]

Counted ==
  IF sup.start = 0 \/ now - sup.start > Window
  THEN [start |-> now, restarts |-> 1]
  ELSE [start |-> sup.start, restarts |-> sup.restarts + 1]

\* mutant of OnCrash: the budget is off by one
OnCrashOneMore ==
  /\ sup.state \in {"Starting", "Running"} /\ Len(crashes) < MaxCrashes
  /\ crashes' = Append(crashes, now)
  /\ sup' = [state |-> IF Counted.restarts > MaxRestarts + 1 THEN "Failed" ELSE "Restarting",
             restarts |-> Counted.restarts, start |-> Counted.start]
  /\ UNCHANGED <<log, now, accepted>>

OnCrash ==
  /\ sup.state \in {"Starting", "Running"} /\ Len(crashes) < MaxCrashes
  /\ crashes' = Append(crashes, now)
  /\ sup' = [state |-> IF Counted.restarts > MaxRestarts THEN "Failed" ELSE "Restarting",
             restarts |-> Counted.restarts, start |-> Counted.start]
  /\ UNCHANGED <<log, now, accepted>>

\* The replacement is spawned; the log is what it is given again.
OnRespawn ==
  /\ sup.state = "Restarting"
  /\ sup' = [sup EXCEPT !.state = "Starting"]
  /\ UNCHANGED <<log, now, accepted, crashes>>

\* try_insert: a retry of a logged request is no second entry; a full log
\* refuses.
Free == {k \in Slot : log[k] = NoRequest}

TryInsert(r) ==
  \/ r \in InFlight /\ UNCHANGED <<log, accepted>>
  \/ /\ r \notin InFlight /\ Free # {}
     /\ log' = [log EXCEPT ![CHOOSE k \in Free : \A j \in Free : k <= j] = r]
     /\ accepted' = accepted \union {r}
  \/ r \notin InFlight /\ Free = {} /\ UNCHANGED <<log, accepted>>

Submit ==
  /\ \E r \in Request : TryInsert(r)
  /\ UNCHANGED <<sup, now, crashes>>

\* ack, once the reply has been delivered; a second one finds nothing.
\* mutant of Ack: the oldest entry is dropped, whatever it is
AckFirst(r) ==
  LET used == {k \in Slot : log[k] # NoRequest} IN
  log' = IF used = {} THEN log
         ELSE [log EXCEPT ![CHOOSE k \in used : \A j \in used : k <= j] = NoRequest]

Ack(r) == log' = [k \in Slot |-> IF log[k] = r THEN NoRequest ELSE log[k]]

Acknowledge ==
  /\ sup.state = "Running"
  /\ \E r \in Request : Ack(r) /\ accepted' = accepted \ {r}
  /\ UNCHANGED <<sup, now, crashes>>

RecoveryNext == Advance \/ OnProbeOk \/ OnCrash \/ OnRespawn \/ Submit \/ Acknowledge
RecoverySpec == RecoveryInit /\ [][RecoveryNext]_recovery
-----------------------------------------------------------------------------
(***************************************************************************)
(* What a replacement driver would replay is exactly what was accepted and *)
(* not answered: no request twice, none lost over a crash, none that was   *)
(* already answered.                                                       *)
(***************************************************************************)
LogExact ==
  /\ InFlight = accepted
  /\ \A j, k \in Slot : log[j] = log[k] => j = k \/ log[j] = NoRequest

(***************************************************************************)
(* A driver is parked only after more than MaxRestarts crashes within one  *)
(* window of its last crash: "restarts older than this are forgiven".      *)
(***************************************************************************)
ParkedForBurst ==
  sup.state = "Failed" =>
    LET last == crashes[Len(crashes)] IN
    Cardinality({k \in DOMAIN crashes : crashes[k] + Window >= last}) > MaxRestarts

(***************************************************************************)
(* A driver still restarted has not crashed more than twice the budget in  *)
(* any window: the window tumbles, so a burst across its end counts in two *)
(* halves, but never more.                                                 *)
(***************************************************************************)
CrashesRationed ==
  sup.state # "Failed" =>
    \A k \in DOMAIN crashes :
      Cardinality({j \in DOMAIN crashes : crashes[j] \in crashes[k] .. crashes[k] + Window})
        <= 2 * MaxRestarts

(***************************************************************************)
(* The restart policy from both sides: only a burst of crashes parks a     *)
(* driver, and a driver that crashes too often is parked.                  *)
(***************************************************************************)
RestartsRationed == ParkedForBurst /\ CrashesRationed
=============================================================================
