----------------------------- MODULE MCProcesses -----------------------------
(***************************************************************************)
(* Threads and their supervision on one core: any sequence of scheduler    *)
(* calls (SchedApi), the preemptive phase with its crashing driver         *)
(* (Supervision) and the Device Manager's records (DriverRecovery).  They  *)
(* share no state; part says which one a behaviour is about.  The others   *)
(* keep the state they start from.                                         *)
(***************************************************************************)
EXTENDS SchedApi, Supervision, DriverRecovery

VARIABLES part

vars == <<part, api, supervision, recovery>>

\* One of the states the preemptive phase may start from.
SupIdle ==
  /\ SupInit /\ B \in Admitted(pSched) /\ asked = 0
  /\ \A t \in {Fs} \union Service : pSched.ent[t].st = "Blocked"
  /\ \A t \in {B} \union Service : pSched.ent[t].vruntime = 0

\* Bound: what the demos left B and the services behind by is all or nothing.
LagBound == \A t \in ({B} \union Service) \intersect Admitted(pSched) : pSched.ent[t].vruntime \in {0, MaxRunSlice}

Init ==
  /\ ApiInit /\ RecoveryInit
  /\ \/ part \in {"api", "recovery"} /\ SupIdle
     \/ part = "supervision" /\ SupInit /\ LagBound

In(p)  == part = p /\ UNCHANGED part
ApiStep == In("api") /\ ApiNext /\ UNCHANGED <<supervision, recovery>>
SupStep == In("supervision") /\ SupNext /\ UNCHANGED <<api, recovery>>
RecStep == In("recovery") /\ RecoveryNext /\ UNCHANGED <<api, supervision>>
Next == ApiStep \/ SupStep \/ RecStep

Fairness ==
  /\ WF_beat(part = "api" /\ TickComes)
  /\ WF_phase(part = "supervision" /\ StartComes)
  /\ WF_dmPc(part = "supervision" /\ DmGoesOn)
  /\ WF_exited(part = "supervision" /\ DriverDies)
  /\ WF_ticks(part = "supervision" /\ TimerFires)

Spec == Init /\ [][Next]_vars /\ Fairness
=============================================================================
